---------------------------- MODULE WitnessScripts ----------------------------
(***************************************************************************)
(* The scripts that check the one-time signatures of winternitz.ts, which  *)
(* methods of the class Bitcoin write, and those of the spending           *)
(* conditions that generate-scripts.ts puts together from them.            *)
(***************************************************************************)
EXTENDS ScriptGenerator, Winternitz

-----------------------------------------------------------------------------
(* The scripts that check a signature.                                     *)

\* Mutant: the rounds are counted from one.
DecodeNibbleFromOne(target, witness, pk, base) ==
    LET key == <<"pk", 0>>
    IN  Data(pk, key) \o Pick(witness)
        \o Loop(1, base, LAMBDA i :
               Ops(<<"HASH160", "DUP">>) \o Pick(key) \o Ops(<<"EQUAL", "IF">>)
               \o N(i) \o Ops(<<"TOALTSTACK", "ENDIF">>))
        \o Ops(<<"DROP", "FROMALTSTACK">>) \o ReplaceWithTop(target) \o Drop(key)

\* winternitzDecodeNibble: hash `base` times, and remember on the
\* alternative stack the round in which the key was met.
DecodeNibble(target, witness, pk, base) ==
    LET key == <<"pk", 0>>
    IN  Data(pk, key) \o Pick(witness)
        \o Loop(0, base - 1, LAMBDA i :
               Ops(<<"HASH160", "DUP">>) \o Pick(key) \o Ops(<<"EQUAL", "IF">>)
               \o N(i) \o Ops(<<"TOALTSTACK", "ENDIF">>))
        \o Ops(<<"DROP", "FROMALTSTACK">>) \o ReplaceWithTop(target) \o Drop(key)

\* The checksum nibbles, most significant first, as one number on the stack.
ChecksumOnStack(check, base) ==
    Loop(1, Len(check), LAMBDA i :
        (IF i > 1 THEN Mul(base) ELSE <<>>)
        \o N(base - 1) \o Pick(check[Len(check) + 1 - i]) \o Op("SUB")
        \o (IF i > 1 THEN Op("ADD") ELSE <<>>))

\* Mutant: the checksum is put together and thrown away.
CheckChecksumUncompared(check, sum, base) == ChecksumOnStack(check, base) \o Op("DROP")

CheckChecksum(check, sum, base) ==
    ChecksumOnStack(check, base) \o Pick(sum) \o Ops(<<"EQUAL", "VERIFY">>)

\* What winternitzCheckN and winternitzDecodeN have in common: `targets` are
\* where the data nibbles go, one item for all of them in a check.
WinternitzBody(s, targets, check, sum, witness, pk) ==
    Loop(1, s.data, LAMBDA i :
        DecodeNibble(targets[i], witness[i], pk[i], s.base) \o AddItems(sum, sum, targets[i]))
    \o Loop(1, s.check, LAMBDA i :
        DecodeNibble(check[i], witness[s.data + i], pk[s.data + i], s.base))
    \o CheckChecksum(check, sum, s.base)

WinternitzDecode(s, target, witness, pk) ==
    LET check == Reg("check", s.check)
        sum   == <<"checksum", 0>>
    IN  NewNibbles(check) \o New(sum)
        \o WinternitzBody(s, target, check, sum, witness, pk)
        \o Drop(sum) \o DropAll(check)

WinternitzCheck(s, witness, pk) ==
    LET check == Reg("check", s.check)
        sum   == <<"checksum", 0>>
        temp  == <<"temp", 0>>
    IN  New(temp) \o NewNibbles(check) \o New(sum)
        \o WinternitzBody(s, [i \in 1..s.data |-> temp], check, sum, witness, pk)
        \o Drop(sum) \o Drop(temp) \o DropAll(check)

WinternitzCheck24(witness, pk) == WinternitzCheck(WOTS_24, witness, pk)
WinternitzCheck256(witness, pk) == WinternitzCheck(WOTS_256, witness, pk)
WinternitzCheck256_4(witness, pk) == WinternitzCheck(WOTS_256_4, witness, pk)
WinternitzDecode24(target, witness, pk) == WinternitzDecode(WOTS_24, target, witness, pk)
WinternitzDecode256(target, witness, pk) == WinternitzDecode(WOTS_256, target, witness, pk)
WinternitzDecode256_4(target, witness, pk) == WinternitzDecode(WOTS_256_4, target, witness, pk)

\* winternitzCheck32 makes its items in another order.
WinternitzCheck32(witness, pk) ==
    LET s     == WOTS_32
        check == Reg("check", s.check)
        sum   == <<"checksum", 0>>
        temp  == <<"temp", 0>>
    IN  New(sum) \o New(temp) \o NewNibbles(check)
        \o WinternitzBody(s, [i \in 1..s.data |-> temp], check, sum, witness, pk)
        \o Drop(sum) \o Drop(temp) \o DropAll(check)

\* winternitzDecode32 leaves the checksum nibbles in the target, after the data.
WinternitzDecode32(target, witness, pk) ==
    LET s   == WOTS_32
        sum == <<"checksum", 0>>
    IN  New(sum)
        \o Loop(1, Total(s), LAMBDA i : DecodeNibble(target[i], witness[i], pk[i], s.base))
        \o Loop(1, s.data, LAMBDA i : AddItems(sum, sum, target[i]))
        \o CheckChecksum(SubSeq(target, s.data + 1, Total(s)), sum, s.base)
        \o Drop(sum)

\* winternitzCheck1, winternitzDecode1: one nibble and its complement.
WinternitzDecode1(target, witness, pk) ==
    LET check == <<"check", 1>>
    IN  New(check)
        \o DecodeNibble(target, witness[1], pk[1], WOTS_1.base)
        \o DecodeNibble(check, witness[2], pk[2], WOTS_1.base)
        \o N(7) \o Pick(check) \o Op("SUB") \o Pick(target) \o Op("NUMEQUALVERIFY")
        \o Drop(check)

WinternitzCheck1(witness, pk) ==
    LET data == <<"data", 0>>
    IN  New(data) \o WinternitzDecode1(data, witness, pk) \o Drop(data)

\* Mutant: the hashes stay on the stack.
DecodeNibbleLpKeeping(target, nibble, hash, pk, base) ==
    Pick(hash) \o Op("HASH160")
    \o Loop(1, base - 1, LAMBDA i : Ops(<<"DUP", "HASH160">>))
    \o Pick(nibble) \o Op("PICK") \o Data(pk, Anonymous) \o Ops(<<"EQUAL", "VERIFY">>)
    \o Mov(target, nibble)

\* winternitzDecodeNibble_listpick4: all the hashes on the stack, and the
\* nibble in the witness says which of them is the key.  That the nibble is
\* below the base is not checked.
DecodeNibbleLp(target, nibble, hash, pk, base) ==
    Pick(hash) \o Op("HASH160")
    \o Loop(1, base - 1, LAMBDA i : Ops(<<"DUP", "HASH160">>))
    \o Pick(nibble) \o Op("PICK") \o Data(pk, Anonymous) \o Ops(<<"EQUAL", "VERIFY">>)
    \o Loop(1, base, LAMBDA i : Op("DROP"))
    \o Mov(target, nibble)

\* What winternitzCheck256_listpick4 and winternitzDecode256_listpick4 have in
\* common.
ListPickBody(s, targets, check, sum, witness, pk) ==
    Loop(1, s.data, LAMBDA i :
        DecodeNibbleLp(targets[i], witness[2 * i - 1], witness[2 * i], pk[i], s.base)
        \o AddItems(sum, sum, targets[i]))
    \o NewNibbles(check)
    \o Loop(1, s.check, LAMBDA i :
           LET j == s.data + i
           IN  DecodeNibbleLp(check[i], witness[2 * j - 1], witness[2 * j], pk[j], s.base))
    \o ChecksumOnStack(check, s.base) \o Pick(sum) \o Op("NUMEQUALVERIFY")

WinternitzDecodeLp(s, target, witness, pk) ==
    LET check == Reg("check", s.check)
        sum   == <<"checksum", 0>>
    IN  New(sum) \o ListPickBody(s, target, check, sum, witness, pk)
        \o Drop(sum) \o DropAll(check)

WinternitzCheck256_Lp(witness, pk) ==
    LET s     == WOTS_256_4
        check == Reg("check", s.check)
        sum   == <<"checksum", 0>>
        temp  == <<"temp", 0>>
    IN  New(sum) \o New(temp)
        \o ListPickBody(s, [i \in 1..s.data |-> temp], check, sum, witness, pk)
        \o Drop(sum) \o Drop(temp) \o DropAll(check)

-----------------------------------------------------------------------------
(* Scripts about the path of selections.                                   *)

\* checkSemiFinal: the index is the decimal number whose digits are the
\* selections, each of them in its two lowest nibbles.
CheckSemiFinal(path, index) ==
    LET temp == <<"temp", 0>>
        idx  == <<"index", 0>>
    IN  New(temp)
        \o Each(path, LAMBDA p :
               Pick(p[2]) \o Mul(8) \o Pick(p[1]) \o Op("ADD")
               \o Pick(temp) \o Mul(10) \o Op("ADD") \o ReplaceWithTop(temp)
               \o Each(SubSeq(p, 3, Len(p)), LAMBDA x : Pick(x) \o N(0) \o Op("NUMEQUALVERIFY")))
        \o New(idx)
        \o Each(Reverse(index), LAMBDA x :
               Pick(idx) \o Mul(8) \o Pick(x) \o Op("ADD") \o ReplaceWithTop(idx))
        \o AssertEqual(temp, idx) \o Drop(temp) \o Drop(idx)

\* verifyIndex: the signed index is the line the script is about.
VerifyIndex(witness, pk, nibbles) ==
    LET index == Reg("index", 8)
    IN  NewNibbles(index) \o WinternitzDecode24(index, witness, pk)
        \o Loop(1, Len(nibbles), LAMBDA i :
               N(nibbles[i]) \o Pick(index[i]) \o Op("NUMEQUALVERIFY"))
        \o DropAll(index)

\* checkPrehash, lamportDecodeBit: which of two keys the preimage belongs to.
CheckPrehash(target, prehash, hash) ==
    Pick(prehash) \o Op("HASH160") \o Data(hash, Anonymous) \o Op("EQUAL")
    \o ReplaceWithTop(target)

LamportDecodeBit(target, witness, keys) ==
    LET temp == <<"bit", 0>>
    IN  New(temp) \o SetBit0(target)
        \o CheckPrehash(temp, witness, keys[1]) \o CheckPrehash(target, witness, keys[2])
        \o Pick(temp) \o Pick(target) \o Ops(<<"BOOLOR", "VERIFY">>) \o Drop(temp)
-----------------------------------------------------------------------------
(* generate-scripts.ts: the scripts of the spending conditions.            *)

\* The items of the signature with key set k, n of them.
Witness(k, n) == [i \in 1..n |-> <<"w", k + i>>]

\* The decoders of generateBoilerplate, by the WotsType of a value.  Only the
\* list-pick signature has two elements for a nibble (WOTS_OUTPUT).
Types == "_1" :> WOTS_1 @@ "_24" :> WOTS_24 @@ "_256" :> WOTS_256
         @@ "_256_4" :> WOTS_256_4 @@ "_256_4_LP" :> WOTS_256_4
Outputs(type) == IF type = "_256_4_LP" THEN 2 * Total(Types[type]) ELSE Total(Types[type])

CheckWitness(type, witness, pk) ==
    CASE type = "_1"        -> WinternitzCheck1(witness, pk)
      [] type = "_24"       -> WinternitzCheck24(witness, pk)
      [] type = "_256"      -> WinternitzCheck256(witness, pk)
      [] type = "_256_4"    -> WinternitzCheck256_4(witness, pk)
      [] type = "_256_4_LP" -> WinternitzCheck256_Lp(witness, pk)

\* generateBoilerplate: the timeout, the parties' signatures, and a check of
\* every one-time signature, whose witness is then dropped.  `signed` is a
\* sequence of types with their key sets.
Boilerplate(timeout, parties, signed) ==
    (IF timeout > 0 THEN CheckTimeout(timeout) ELSE <<>>)
    \o Each(parties, VerifySignature)
    \o Each(signed, LAMBDA x :
           LET w == Witness(x.key, Outputs(x.type))
           IN  CheckWitness(x.type, w, PublicKey(Types[x.type], x.key)) \o DropAll(w))

\* generateProcessSelectionPath: the selections, and the line they lead to.
SelectionKey(i) == 100 * i
SelectionNibbles(i) == [j \in 1..8 |-> <<"path", SelectionKey(i) + j>>]

ProcessSelectionPath(parties, iterations) ==
    Each(parties, VerifySignature)
    \o Loop(1, iterations + 1, LAMBDA i :
           LET w == Witness(SelectionKey(i), Total(WOTS_24))
           IN  NewNibbles(SelectionNibbles(i))
               \o WinternitzDecode24(SelectionNibbles(i), w, PublicKey(WOTS_24, SelectionKey(i)))
               \o DropAll(w))
    \o CheckSemiFinal([i \in 1..iterations |-> SelectionNibbles(i)],
                      SelectionNibbles(iterations + 1))
    \o DropAll(FlattenSeq([i \in 1..(iterations + 1) |-> SelectionNibbles(i)]))
=============================================================================
