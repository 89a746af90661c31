------------------------------ MODULE Winternitz ------------------------------
(***************************************************************************)
(* One-time signatures, as winternitz.ts makes and reads them.  A scheme   *)
(* is a record: how many data and checksum nibbles, and how many values a  *)
(* nibble has.  The secret of nibble i of key set k is number k + i.       *)
(***************************************************************************)
EXTENDS Elements, Sequences

\* WOTS_NIBBLES, WOTS_DATA_NIBBLES, 2 ** WOTS_BITS
Scheme(data, check, base) == [data |-> data, check |-> check, base |-> base]
WOTS_1 == Scheme(1, 1, 8)
WOTS_24 == Scheme(8, 2, 8)
WOTS_32 == Scheme(11, 3, 8)
WOTS_256 == Scheme(86, 4, 8)
WOTS_256_4 == Scheme(64, 3, 16)

Total(s) == s.data + s.check

\* The messages of a scheme: values for its data nibbles.
Messages(s) == [1..s.data -> 0..(s.base - 1)]

-----------------------------------------------------------------------------
(* Digits.                                                                 *)

\* What shifting n by one digit after another leaves of it.
Shifted(n, count, base) ==
    LET rest[i \in 0..count] == IF i = 0 THEN n ELSE rest[i - 1] \div base IN rest

\* toNibbles, toNibbles_4: the `count` lowest digits, least significant first.
ToNibbles(n, count, base) ==
    [i \in 1..count |-> Shifted(n, count, base)[i - 1] % base]

\* fromNibbles, fromNibbles_4
FromNibbles(nibbles, base) ==
    LET above[i \in 0..Len(nibbles)] ==
            IF i = 0 THEN 0 ELSE nibbles[Len(nibbles) + 1 - i] + base * above[i - 1]
    IN  above[Len(nibbles)]

\* The sums of the first nibbles, and of all of them.
Sums(nibbles, count) ==
    LET sum[i \in 0..count] == IF i = 0 THEN 0 ELSE sum[i - 1] + nibbles[i] IN sum
Checksum(s, nibbles) == Sums(nibbles, s.data)[s.data]
ChecksumNibbles(s, nibbles) == ToNibbles(Checksum(s, nibbles), s.check, s.base)

-----------------------------------------------------------------------------
(* Signatures.                                                             *)

\* getWinternitzPublicKeys: the secret hashed 2^bits times.
PublicKey(s, key) == [i \in 1..Total(s) |-> Digest(key + i, s.base)]

\* encodeWinternitz1, 24, 256, 256_4: how often each secret is hashed.
Depths(s, nibbles) ==
    LET check == ChecksumNibbles(s, nibbles)
    IN  [i \in 1..Total(s) |-> IF i <= s.data THEN s.base - 1 - nibbles[i] ELSE check[i - s.data]]

Encode(s, key, nibbles) ==
    [i \in 1..Total(s) |-> Digest(key + i, Depths(s, nibbles)[i])]

\* encodeWinternitz256_4_lp: the nibble itself before every hash.
DepthsLp(s, nibbles) == [i \in 1..Total(s) |-> s.base - 1 - Depths(s, nibbles)[i]]

EncodeLp(s, key, nibbles) ==
    [j \in 1..(2 * Total(s)) |->
        LET i == (j + 1) \div 2
            d == DepthsLp(s, nibbles)[i]
        IN  IF j = 2 * i THEN Digest(key + i, d) ELSE Num(d)]

\* unhash: how many hashes, less one, lead from the element to the key.
\* NoNibble stands for the exception when none does.
NoNibble == -1
Unhash(v, pk) == IF v[1] = pk[1] /\ v[2] < pk[2] THEN pk[2] - 1 - v[2] ELSE NoNibble

\* decodeWinternitz1, 24, 256, 256_4: the data nibbles, or <<>> for an exception.
Decode(s, sig, pk) ==
    LET n     == [i \in 1..Total(s) |-> Unhash(sig[i], pk[i])]
        check == ChecksumNibbles(s, n)
    IN  IF /\ \A i \in 1..Total(s) : n[i] # NoNibble
           /\ \A i \in 1..s.check : s.base - 1 - n[s.data + i] = check[i]
        THEN [i \in 1..s.data |-> n[i]] ELSE <<>>

\* decodeWinternitz256_4_lp
DecodeLp(s, sig, pk) ==
    LET n     == [i \in 1..Total(s) |-> s.base - 1 - Unhash(sig[2 * i], pk[i])]
        check == ChecksumNibbles(s, n)
    IN  IF /\ \A i \in 1..Total(s) :
                 Unhash(sig[2 * i], pk[i]) # NoNibble /\ sig[2 * i - 1] = Num(n[i])
           /\ \A i \in 1..s.check : s.base - 1 - n[s.data + i] = check[i]
        THEN [i \in 1..s.data |-> n[i]] ELSE <<>>

\* What those who have seen a signature can make of it: numbers as they like,
\* but no hash that is nearer to a secret than the one they have seen.
Derived(w, seen) ==
    \A i \in DOMAIN w : \A j \in DOMAIN seen :
        ~IsNum(seen[j]) /\ w[i][1] = seen[j][1] => w[i][2] >= seen[j][2]
=============================================================================
