------------------------------- MODULE Taptree -------------------------------
(***************************************************************************)
(* Trees of script hashes (src/agent/common/taptree.ts): SimpleTapTree,   *)
(* which has all the scripts, and Compressor, which is given one hash      *)
(* after another, keeps at most two of every level, and collects on the    *)
(* way the siblings that one of the leaves will need.                      *)
(*                                                                         *)
(* A hash is what it is the hash of; that of a pair does not depend on     *)
(* their order.                                                            *)
(***************************************************************************)
EXTENDS Naturals, SequencesExt

CombineHashes(a, b) == <<{a, b}>>

\* index ^ 1
Sibling(n) == n + 1 - 2 * (n % 2)

\* A hash after every number of siblings it is combined with, and after all.
Climb(hash, siblings) ==
    LET climb[k \in 0..Len(siblings)] ==
            IF k = 0 THEN hash ELSE CombineHashes(climb[k - 1], siblings[k])
    IN  climb

\* What a node computes from a leaf and the hashes of a control block.
OpenedRoot(leaf, proof) == Climb(leaf, proof)[Len(proof)]

PowerOfTwo[n \in Nat] == IF n = 0 THEN 1 ELSE 2 * PowerOfTwo[n - 1]

\* Math.ceil(Math.log2(count))
Log2(count) ==
    CHOOSE n \in 0..count : PowerOfTwo[n] >= count /\ (n = 0 \/ PowerOfTwo[n - 1] < count)

-----------------------------------------------------------------------------
(* SimpleTapTree                                                           *)

\* The number of hashes in layer k.
Width(leaves, k) == (Len(leaves) + PowerOfTwo[k] - 1) \div PowerOfTwo[k]

\* Hash i of layer k, both from zero: layer 0 are the leaves, and the last hash
\* of an odd layer is paired with itself.
Layers(leaves) ==
    LET layer[k \in 0..Log2(Len(leaves))] ==
            [i \in Nat |->
                IF k = 0 THEN leaves[i + 1]
                ELSE CombineHashes(layer[k - 1][2 * i],
                                   layer[k - 1][IF 2 * i + 1 < Width(leaves, k - 1) THEN 2 * i + 1 ELSE 2 * i])]
    IN  layer

GetRoot(leaves) == Layers(leaves)[Log2(Len(leaves))][0]

GetProof(leaves, index) ==
    [k \in 1..Log2(Len(leaves)) |->
        LET place == index \div PowerOfTwo[k - 1]
        IN  Layers(leaves)[k - 1][IF Sibling(place) < Width(leaves, k - 1) THEN Sibling(place) ELSE place]]

-----------------------------------------------------------------------------
(* Compressor                                                              *)

\* data[i] holds the hashes of level i that wait for their sibling; level 0
\* is the root.
Compressor(count, indexToSave) ==
    [depth |-> Log2(count) + 1, indexToSave |-> indexToSave, nextIndex |-> 0,
     data |-> [i \in 0..Log2(count) |-> <<>>], proof |-> [i \in {} |-> <<>>]]

\* indexStringForLevel: the place of the next hash of that level.
IndexForLevel(data, level) ==
    LET index[i \in 0..level] == 2 * (IF i = 0 THEN 0 ELSE index[i - 1]) + Len(data[i])
    IN  index[level]

\* indexesForProof
IndexForProof(c, level) == Sibling(c.indexToSave \div PowerOfTwo[c.depth - 1 - level])

\* compress combines upwards as long as a hash meets its sibling: the levels
\* that the new leaf, or a hash of it, arrives at, and what arrives there.
Arrivals(c) == {i \in DOMAIN c.data : \A j \in (i + 1)..(c.depth - 1) : c.data[j] # <<>>}
Arriving(c, hash, i) ==
    OpenedRoot(hash, [k \in 1..(c.depth - 1 - i) |-> c.data[c.depth - k][1]])

AddHash(c, hash) ==
    LET top    == CHOOSE i \in Arrivals(c) : \A j \in Arrivals(c) : i <= j
        wanted == {i \in Arrivals(c) \ {0} : IndexForLevel(c.data, i) = IndexForProof(c, i)}
        saved  == {c.depth - 1 - i : i \in wanted}
    IN  [c EXCEPT !.nextIndex = @ + 1,
                  !.data = [i \in DOMAIN @ |-> IF i = top THEN <<Arriving(c, hash, top)>>
                                               ELSE IF i > top THEN <<>> ELSE @[i]],
                  !.proof = [k \in DOMAIN @ \cup saved |->
                                IF k \in saved THEN Arriving(c, hash, c.depth - 1 - k) ELSE @[k]]]

Complete(c) == c.nextIndex = PowerOfTwo[c.depth - 1]
Root(c) == c.data[0][1]
=============================================================================
