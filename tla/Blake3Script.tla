---------------------------- MODULE Blake3Script ----------------------------
(***************************************************************************)
(* The hash with which a verifier refutes a Merkle proof, as a script      *)
(* (final-step/blake-3-4u.ts) and as a function of 32-bit words.  In the   *)
(* script a word is eight 4-bit nibbles, least significant first, and a    *)
(* rotation only renames them: the array of items is permuted while the    *)
(* script is written.  In the function a word is a pair of 16-bit halves.  *)
(***************************************************************************)
EXTENDS WitnessScripts, Bitwise

CONSTANT HashRounds             \* rounds of compress, 7 in the code

ASSUME RoundsAssumption == HashRounds \in Nat \ {0}

\* MSG_PERMUTATION, and the operands of the eight calls of g in a round.
Permutation == <<2, 6, 3, 10, 7, 0, 4, 13, 1, 11, 12, 5, 9, 14, 15, 8>>
Mixes == <<<<0, 4, 8, 12>>, <<1, 5, 9, 13>>, <<2, 6, 10, 14>>, <<3, 7, 11, 15>>,
           <<0, 5, 10, 15>>, <<1, 6, 11, 12>>, <<2, 7, 8, 13>>, <<3, 4, 9, 14>>>>

IV == <<<<27145, 58983>>, <<47975, 44677>>, <<15470, 62322>>, <<42319, 62778>>,
        <<20750, 21119>>, <<39685, 26764>>, <<8067, 55723>>, <<23520, 52505>>>>
BlockLength == <<0, 64>>
Flags == <<0, 11>>                  \* 3 | ROOT
InitialState == IV \o SubSeq(IV, 1, 4) \o <<<<0, 0>>, <<0, 0>>, BlockLength, Flags>>

permute(m) == [i \in 1..16 |-> m[Permutation[i] + 1]]

-----------------------------------------------------------------------------
(* The function.                                                           *)

AddWords(x, y) ==
    LET low == x[2] + y[2]
    IN  <<(x[1] + y[1] + low \div 65536) % 65536, low % 65536>>

XorWords(x, y) == <<x[1] ^^ y[1], x[2] ^^ y[2]>>

RotateWord(x, n) ==
    IF n = 16 THEN <<x[2], x[1]>>
    ELSE LET part(hi, lo) == hi \div 2^n + (lo % 2^n) * 2^(16 - n)
         IN  <<part(x[1], x[2]), part(x[2], x[1])>>

MixWords(v, mix, mx, my) ==
    LET a == mix[1] + 1   b == mix[2] + 1   c == mix[3] + 1   d == mix[4] + 1
        a1 == AddWords(AddWords(v[a], v[b]), mx)
        d1 == RotateWord(XorWords(v[d], a1), 16)
        c1 == AddWords(v[c], d1)
        b1 == RotateWord(XorWords(v[b], c1), 12)
        a2 == AddWords(AddWords(a1, b1), my)
        d2 == RotateWord(XorWords(d1, a2), 8)
        c2 == AddWords(c1, d2)
        b2 == RotateWord(XorWords(b1, c2), 7)
    IN  [v EXCEPT ![a] = a2, ![b] = b2, ![c] = c2, ![d] = d2]

RECURSIVE RoundWords(_, _, _)
RoundWords(v, m, k) ==
    IF k = 0 THEN v
    ELSE MixWords(RoundWords(v, m, k - 1), Mixes[k], m[2 * k - 1], m[2 * k])

RECURSIVE RoundsWords(_, _, _)
RoundsWords(v, m, k) ==
    IF k = 0 THEN v ELSE RoundsWords(RoundWords(v, m, 8), permute(m), k - 1)

HashWords(block) ==
    LET v == RoundsWords(InitialState, block, HashRounds)
    IN  [i \in 1..8 |-> XorWords(v[i], v[i + 8])]

-----------------------------------------------------------------------------
(* The script.                                                             *)

AndTable == Reg("and", 256)
XorTable == Reg("xor", 256)
NotTable == Reg("not", 16)
ValueTable == Reg("value", 32)
CarryTable == Reg("carry", 32)
Mul16Table == Reg("mul16", 16)

InitializeTables ==
    Loop(1, 256, LAMBDA i : Data(Num(((i - 1) \div 16) & ((i - 1) % 16)), AndTable[i]))
    \o Loop(1, 256, LAMBDA i : Data(Num(((i - 1) \div 16) ^^ ((i - 1) % 16)), XorTable[i]))
    \o Loop(1, 16, LAMBDA i : Data(Num(16 - i), NotTable[i]))
    \o Loop(1, 32, LAMBDA i : Data(Num((i - 1) % 16), ValueTable[i]))
    \o Loop(1, 32, LAMBDA i : Data(Num((i - 1) \div 16), CarryTable[i]))
    \o Loop(1, 16, LAMBDA i : Data(Num((i - 1) * 16), Mul16Table[i]))

\* The eight nibbles of a word, and newRegister.
WordNibbles(w) == ToNibbles(w[2], 4, 16) \o ToNibbles(w[1], 4, 16)
NewRegister(reg, w) ==
    LET nibbles == WordNibbles(w) IN Loop(1, 8, LAMBDA i : Data(Num(nibbles[i]), reg[i]))
NewRegisters(regs, words) == Loop(1, Len(regs), LAMBDA i : NewRegister(regs[i], words[i]))

\* nibblesToRegisters
Registers(items) == [r \in 1..(Len(items) \div 8) |-> SubSeq(items, 8 * r - 7, 8 * r)]

Xor4u(target, x, y) ==
    Loop(1, 8, LAMBDA i :
        Pick(x[i]) \o TableFetchInStack(Mul16Table) \o Pick(y[i]) \o Op("ADD")
        \o TableFetchInStack(XorTable) \o ReplaceWithTop(target[i]))

Add4u(target, x, y) ==
    Loop(1, 8, LAMBDA i :
        Pick(x[i]) \o (IF i > 1 THEN Ops(<<"FROMALTSTACK", "ADD">>) ELSE <<>>)
        \o Pick(y[i]) \o Op("ADD")
        \o (IF i < 8 THEN Op("DUP") \o TableFetchInStack(CarryTable) \o Op("TOALTSTACK") ELSE <<>>)
        \o TableFetchInStack(ValueTable) \o ReplaceWithTop(target[i]))

\* rotl1: every nibble doubled, its highest bit carried to the next one and
\* the last carry added to the first.
Rotl1(target) ==
    Loop(1, 8, LAMBDA i :
        Pick(target[i]) \o Ops(<<"DUP", "ADD">>)
        \o (IF i > 1 THEN Ops(<<"FROMALTSTACK", "ADD">>) ELSE <<>>)
        \o Op("DUP") \o N(16) \o Ops(<<"GREATERTHANOREQUAL", "DUP", "TOALTSTACK", "IF">>)
        \o N(16) \o Ops(<<"SUB", "ENDIF">>) \o ReplaceWithTop(target[i]))
    \o Op("FROMALTSTACK") \o Pick(target[1]) \o Op("ADD") \o ReplaceWithTop(target[1])

\* rotr by whole nibbles: the items themselves change places.
RotateItems(reg, nibbles) == [i \in 1..8 |-> reg[((i - 1 + nibbles) % 8) + 1]]

\* g: the code it emits, and the registers with their items in the places the
\* rotations gave them.
G(v, mix, mx, my) ==
    LET t == Reg("t", 8)
        a == v[mix[1] + 1]
        b == v[mix[2] + 1]
        c == v[mix[3] + 1]
        d == v[mix[4] + 1]
        d16 == RotateItems(d, 4)
        b12 == RotateItems(b, 3)
        d8  == RotateItems(d16, 2)
        b7  == RotateItems(b12, 2)
    IN  [code |-> NewRegister(t, <<0, 0>>)
                  \o Add4u(t, b, mx) \o Add4u(a, a, t) \o Xor4u(d, d, a)
                  \o Add4u(c, c, d16) \o Xor4u(b, b, c)
                  \o Add4u(t, b12, my) \o Add4u(a, a, t) \o Xor4u(d16, d16, a)
                  \o Add4u(c, c, d8) \o Xor4u(b12, b12, c) \o Rotl1(b7)
                  \o DropAll(t),
         regs |-> [v EXCEPT ![mix[4] + 1] = d8, ![mix[2] + 1] = b7]]

\* One script after the other, the second written for the registers of the first.
Then(first, second) == [code |-> first.code \o second.code, regs |-> second.regs]
MixAfter(before, m, k) == Then(before, G(before.regs, Mixes[k], m[2 * k - 1], m[2 * k]))

RECURSIVE RoundScript(_, _, _)
RoundScript(v, m, k) ==
    IF k = 0 THEN [code |-> <<>>, regs |-> v] ELSE MixAfter(RoundScript(v, m, k - 1), m, k)

RECURSIVE RoundsScript(_, _, _)
RoundsAfter(first, m, k) == Then(first, RoundsScript(first.regs, m, k))
RoundsScript(v, m, k) ==
    IF k = 0 THEN [code |-> <<>>, regs |-> v]
    ELSE RoundsAfter(RoundScript(v, m, 8), permute(m), k - 1)

\* compress and hash: the result is the first eight registers.
ChainingValue == Registers(Reg("chaining", 64))
Feedforward(s) ==
    NewRegisters(ChainingValue, IV)
    \o Loop(1, 8, LAMBDA i : Xor4u(s[i], s[i], s[i + 8]) \o Xor4u(s[i + 8], s[i + 8], ChainingValue[i]))
Hashed(v, rounds) ==
    [code |-> NewRegisters(v, InitialState) \o rounds.code \o Feedforward(rounds.regs),
     items |-> FlattenSeq(SubSeq(rounds.regs, 1, 8))]
HashFrom(v, block) == Hashed(v, RoundsScript(v, block, HashRounds))
Hash(block) == HashFrom(Registers(Reg("state", 128)), block)

\* negifyPairHash: fails when `result` is the hash of the pair.
RefuteEqual(hash, pair, result, temp) ==
    hash.code \o DropAll(pair) \o New(temp) \o EqualNibbles(temp, result, hash.items)
    \o DropAll(result) \o DropAll(hash.items) \o AssertZero(temp) \o Drop(temp)
NegifyPairHash(left, right, result) ==
    RefuteEqual(Hash(Registers(left) \o Registers(right)), left \o right, result, <<"temp", 0>>)

\* createRefuteHashScriptTemplate: the two values and their hash, each signed
\* nibble by nibble, and the claim that they do not belong together.
HashParts == <<"left", "right", "hash">>
PartKey(i) == 200 * i

RefuteHash(party) ==
    LET value(i) == Reg(HashParts[i], 64)
        w(i) == Witness(PartKey(i), Outputs("_256_4_LP"))
    IN  VerifySignature(party)
        \o Loop(1, 3, LAMBDA i :
               NewNibbles(value(i))
               \o WinternitzDecodeLp(WOTS_256_4, value(i), w(i), PublicKey(WOTS_256_4, PartKey(i)))
               \o DropAll(w(i)))
        \o InitializeTables \o NegifyPairHash(value(2), value(1), value(3))
=============================================================================
