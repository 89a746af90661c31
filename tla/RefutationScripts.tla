-------------------------- MODULE RefutationScripts --------------------------
(***************************************************************************)
(* The scripts with which a verifier refutes one line of the program:      *)
(* final-step/btc-arithmetic.ts, negify-final-step.ts and check-line.ts.   *)
(* A register is a sequence of 3-bit nibbles, least significant first.     *)
(* The code has 86 nibbles and a 254-bit prime; the size of a register and *)
(* the prime of the shorter ones are parameters here.                      *)
(***************************************************************************)
EXTENDS WitnessScripts

CONSTANTS Prime,                \* prime_bigint, for registers that are not of full size
          NibbleCount           \* the nibbles of such a register

\* Karatsuba adds halves, and newNibblesFast makes no fewer than four items.
ASSUME RegisterAssumption ==
    /\ NibbleCount \in Nat /\ NibbleCount % 2 = 0 /\ NibbleCount >= 6
    /\ Prime \in Nat /\ Prime < 8^NibbleCount

-----------------------------------------------------------------------------
(* BtcArithmetic                                                           *)

BreakValue == Reg("breakValue", 64)
BreakCarry == Reg("breakCarry", 64)
TableRow   == Reg("tableRow", 8)
Product    == Reg("product", 64)

InitializeAddTables ==
    Loop(1, 64, LAMBDA i : Data(Num((i - 1) % 8), BreakValue[i]))
    \o Loop(1, 64, LAMBDA i : Data(Num((i - 1) \div 8), BreakCarry[i]))

InitializeMulTables ==
    Loop(1, 8, LAMBDA i : Data(Num((i - 1) * 8), TableRow[i]))
    \o Loop(1, 64, LAMBDA i : Data(Num(((i - 1) \div 8) * ((i - 1) % 8)), Product[i]))

\* The prime of constants.ts, in the nibbles of a register of full size.
FullSize == 86
FullPrime ==
    <<7, 0, 5, 6, 7, 1, 7, 3, 0, 3, 3, 3, 1, 0, 3, 4, 0, 4, 0, 6, 3, 2, 3, 4, 2, 1, 7, 0, 7,
      0, 2, 3, 1, 2, 2, 5, 6, 2, 0, 4, 7, 2, 6, 6, 5, 0, 6, 2, 1, 0, 6, 0, 0, 5, 5, 5, 5, 0,
      1, 0, 5, 0, 6, 5, 1, 5, 0, 0, 2, 3, 4, 1, 1, 4, 3, 1, 7, 4, 3, 2, 4, 4, 1, 0, 3, 0>>
PrimeDigits(n) == IF n = FullSize THEN FullPrime ELSE ToNibbles(Prime, n, 8)

PrimeNibbles(n) == Reg("prime", n)
AddPrime(n) == Loop(1, n, LAMBDA i : Data(Num(PrimeDigits(n)[i]), PrimeNibbles(n)[i]))

\* The carry of the sum on the stack goes to the alternative stack, its
\* lowest nibble stays.
BreakCarryAndValue == Op("DUP") \o TableFetchInStack(BreakCarry) \o Op("TOALTSTACK")
                      \o TableFetchInStack(BreakValue)

NibbleMult(a, b) ==
    Pick(a) \o TableFetchInStack(TableRow) \o Pick(b) \o Op("ADD") \o TableFetchInStack(Product)

\* add: the result is register `name`, one nibble longer than a.
AddNibbles(name, a, b) ==
    LET l == Len(a)
        r == Reg(name, l + 1)
    IN  NewNibblesFast(name, l + 1)
        \o Loop(1, l, LAMBDA i :
               (IF i = 1 THEN N(0) ELSE Op("FROMALTSTACK")) \o Pick(a[i]) \o Op("ADD")
               \o (IF i <= Len(b) THEN Pick(b[i]) \o Op("ADD") ELSE <<>>)
               \o BreakCarryAndValue \o ReplaceWithTop(r[i]))
        \o Op("FROMALTSTACK") \o ReplaceWithTop(r[l + 1])

\* Mutant: the item the second branch pushes is not forgotten.
SubtractFromARemembering(a, b) ==
    Loop(1, Len(a), LAMBDA i :
        Pick(a[i]) \o (IF i = 1 THEN N(0) ELSE Op("FROMALTSTACK"))
        \o (IF i <= Len(b) THEN Pick(b[i]) \o Op("ADD") ELSE <<>>)
        \o Ops(<<"SUB", "DUP">>) \o N(0) \o Ops(<<"LESSTHAN", "IF">>)
        \o N(8) \o Op("ADD") \o N(1) \o Op("ELSE") \o N(0) \o Op("ENDIF")
        \o (IF i < Len(a) THEN Op("TOALTSTACK") ELSE <<>>)
        \o ReplaceWithTop(a[i]))

\* subtractFromA: the two branches each push the borrow, so the generator
\* forgets one of the two.
SubtractFromA(a, b) ==
    Loop(1, Len(a), LAMBDA i :
        Pick(a[i]) \o (IF i = 1 THEN N(0) ELSE Op("FROMALTSTACK"))
        \o (IF i <= Len(b) THEN Pick(b[i]) \o Op("ADD") ELSE <<>>)
        \o Ops(<<"SUB", "DUP">>) \o N(0) \o Ops(<<"LESSTHAN", "IF">>)
        \o N(8) \o Op("ADD") \o N(1) \o Op("ELSE") \o N(0) \o Op("ENDIF") \o Forget
        \o (IF i < Len(a) THEN Op("TOALTSTACK") ELSE <<>>)
        \o ReplaceWithTop(a[i]))

NaiveMult(name, a, b) ==
    LET r == Reg(name, Len(a) + Len(b))
    IN  NewNibblesFast(name, Len(a) + Len(b))
        \o Loop(1, Len(a), LAMBDA i :
               N(0) \o Op("TOALTSTACK")
               \o Loop(1, Len(b), LAMBDA j :
                      NibbleMult(a[i], b[j]) \o Ops(<<"FROMALTSTACK", "ADD">>)
                      \o Pick(r[i + j - 1]) \o Op("ADD")
                      \o BreakCarryAndValue \o ReplaceWithTop(r[i + j - 1]))
               \o Op("FROMALTSTACK") \o ReplaceWithTop(r[i + Len(b)]))

\* karatsubaMult with maxDepth 1.  The result takes the items of the two
\* half products; names is the triple <<m0, m1, m2>>.
KaratsubaResult(names, n) == Reg(names[1], n) \o Reg(names[3], n)

KaratsubaMult(names, a, b) ==
    LET l == Len(a) \div 2
        low(x) == SubSeq(x, 1, l)
        high(x) == SubSeq(x, l + 1, Len(x))
        t3a == Reg("t3a", l + 1)
        t3b == Reg("t3b", l + 1)
        m0 == Reg(names[1], 2 * l)
        m1 == Reg(names[2], 2 * l + 2)
        m2 == Reg(names[3], 2 * l)
        r  == m0 \o m2
    IN  NaiveMult(names[3], high(a), high(b)) \o NaiveMult(names[1], low(a), low(b))
        \o AddNibbles("t3a", high(a), low(a)) \o AddNibbles("t3b", high(b), low(b))
        \o NaiveMult(names[2], t3a, t3b) \o DropAll(t3a) \o DropAll(t3b)
        \o SubtractFromA(m1, m0) \o SubtractFromA(m1, m2)
        \o Loop(1, Len(m1), LAMBDA i : AddItems(r[l + i], r[l + i], m1[i]))
        \o DropAll(m1)
        \o Loop(l + 1, Len(r), LAMBDA i :
               Pick(r[i]) \o (IF i = l + 1 THEN N(0) ELSE Op("FROMALTSTACK")) \o Op("ADD")
               \o (IF i < Len(r) THEN BreakCarryAndValue ELSE TableFetchInStack(BreakValue))
               \o ReplaceWithTop(r[i]))

-----------------------------------------------------------------------------
(* NegifyFinalStep: each script must fail when the line is right.          *)

Temp == <<"temp", 0>>

NegifyFromStack == Ops(<<"NOT", "VERIFY">>)

MakeBoolOnStack(a) ==
    N(0) \o Each(a, LAMBDA x : Pick(x) \o Op("ADD")) \o Ops(<<"NOT", "NOT">>)

NegifyNumZero(a) == N(0) \o Each(a, LAMBDA x : Pick(x) \o Op("ADD")) \o Op("VERIFY")

NegifyNumOne(a) ==
    Pick(a[1]) \o N(1) \o Op("NUMEQUAL")
    \o Loop(2, Len(a), LAMBDA i : N(1) \o Ops(<<"NUMEQUAL", "BOOLAND">>))
    \o NegifyFromStack

NegifyNot(a, c) == MakeBoolOnStack(a) \o MakeBoolOnStack(c) \o Op("NUMEQUALVERIFY")

NegifyOr(a, b, c) ==
    MakeBoolOnStack(a) \o MakeBoolOnStack(b) \o Op("BOOLOR")
    \o MakeBoolOnStack(c) \o Ops(<<"NOT", "NUMEQUALVERIFY">>)

NegifyAnd(a, b, c) ==
    MakeBoolOnStack(a) \o MakeBoolOnStack(b) \o Op("BOOLAND")
    \o MakeBoolOnStack(c) \o Ops(<<"NOT", "NUMEQUALVERIFY">>)

NegifyMov(a, c) == New(Temp) \o EqualMany(Temp, a, c) \o NegifyFromStack

NegifyEqual(a, b, c) ==
    New(Temp) \o EqualMany(Temp, a, b) \o Pick(Temp) \o MakeBoolOnStack(c)
    \o Op("NUMEQUAL") \o NegifyFromStack


NegifyAddMod(a, b, c) ==
    LET n == Len(a)
        t == Reg("sum", n + 1)
    IN  AddPrime(n) \o InitializeAddTables \o AddNibbles("sum", a, b)
        \o New(Temp) \o EqualMany(Temp, t, c) \o Pick(Temp) \o NegifyFromStack
        \o SubtractFromA(t, PrimeNibbles(n))
        \o EqualMany(Temp, t, c) \o Pick(Temp) \o NegifyFromStack \o Drop(Temp)

\* a - b = c is a = b + c
NegifySubMod(a, b, c) == NegifyAddMod(b, c, a)

\* a * b = d * Prime + c, with d from the prover's argument.
NegifyMulMod(a, b, c, d) ==
    LET n == Len(a)
        left  == <<"m0", "m1", "m2">>
        right == <<"n0", "n1", "n2">>
    IN  AddPrime(n) \o InitializeAddTables \o InitializeMulTables
        \o KaratsubaMult(left, a, b) \o DropAll(a) \o DropAll(b)
        \o KaratsubaMult(right, PrimeNibbles(n), d) \o DropAll(PrimeNibbles(n)) \o DropAll(d)
        \o AddNibbles("sum", KaratsubaResult(right, n), c)
        \o New(Temp)
        \o EqualMany(Temp, Reg("sum", 2 * n + 1), KaratsubaResult(left, n))
        \o Pick(Temp) \o NegifyFromStack

\* a / b = c is a = b * c
NegifyDivMod(a, b, c, d) == NegifyMulMod(b, c, a, d)

\* getBitFromA, _verifyAndBit
BitTable(bit) ==
    Loop(1, 8, LAMBDA i : Data(Num(((i - 1) \div 2^(bit % 3)) % 2), <<"bitTable", i>>))

VerifyAndBit(a, b, c, bit, notFlag) ==
    LET value == <<"bitValue", 0>>
        eqB   == <<"temp_b", 0>>
        eq0   == <<"temp_0", 0>>
        zero  == Reg("zero", Len(b))
    IN  BitTable(bit) \o New(value)
        \o TableFetch(value, Reg("bitTable", 8), a[bit \div 3 + 1]) \o DropAll(Reg("bitTable", 8))
        \o New(eqB) \o EqualMany(eqB, c, b)
        \o NewNibbles(zero) \o New(eq0) \o EqualMany(eq0, c, zero) \o DropAll(zero)
        \o Pick(value) \o (IF notFlag THEN Op("NOT") ELSE <<>>) \o Pick(eqB) \o Op("BOOLAND")
        \o Pick(value) \o (IF notFlag THEN <<>> ELSE Op("NOT")) \o Pick(eq0) \o Op("BOOLAND")
        \o Ops(<<"BOOLOR", "VERIFY">>) \o DropAll(<<value, eq0, eqB>>)

NegifyAndBit(a, b, c, bit) == VerifyAndBit(a, b, c, bit, TRUE)
NegifyAndNotBit(a, b, c, bit) == VerifyAndBit(a, b, c, bit, FALSE)

\* checkLineBitcoin; instr is [name |-> ..., bit |-> ...].
CheckLineBitcoin(instr, a, b, c, d) ==
    CASE instr.name = "ADDMOD"    -> NegifyAddMod(a, b, c)
      [] instr.name = "ANDBIT"    -> NegifyAndBit(a, b, c, instr.bit)
      [] instr.name = "ANDNOTBIT" -> NegifyAndNotBit(a, b, c, instr.bit)
      [] instr.name = "MOV"       -> NegifyMov(a, c)
      [] instr.name = "EQUAL"     -> NegifyEqual(a, b, c)
      [] instr.name = "MULMOD"    -> NegifyMulMod(a, b, c, d)
      [] instr.name = "OR"        -> NegifyOr(a, b, c)
      [] instr.name = "AND"       -> NegifyAnd(a, b, c)
      [] instr.name = "NOT"       -> NegifyNot(a, c)
      [] instr.name = "SUBMOD"    -> NegifySubMod(a, b, c)
      [] instr.name = "DIVMOD"    -> NegifyDivMod(a, b, c, d)
      [] instr.name = "ASSERTONE" -> NegifyNumOne(a)
      [] instr.name = "ASSERTZERO" -> NegifyNumZero(a)

\* generateRefuteInstructionScriptTemplate: the line, then a, b, c and, for
\* a product, d, each signed nibble by nibble; then the instruction itself.
NeedsD(instr) == instr.name \in {"MULMOD", "DIVMOD"}
Values(instr) == <<"a", "b", "c">> \o (IF NeedsD(instr) THEN <<"d">> ELSE <<>>)
IndexKey == 0
ValueKey(i) == 200 * i

\* A register of 64 four-bit nibbles becomes one of 86 three-bit ones.
ValueSize(scheme) == (4 * scheme.data + 2) \div 3

RefuteInstruction(instr, line, scheme, party) ==
    LET index == Witness(IndexKey, Total(WOTS_24))
        w(i)  == Witness(ValueKey(i), 2 * Total(scheme))
        nibbles4 == Reg("nibbles4", scheme.data)
        value(name) == Reg(name, ValueSize(scheme))
    IN  VerifySignature(party)
        \o VerifyIndex(index, PublicKey(WOTS_24, IndexKey), ToNibbles(line, 8, 8))
        \o DropAll(index)
        \o Loop(1, Len(Values(instr)), LAMBDA i :
               NewNibbles(nibbles4)
               \o WinternitzDecodeLp(scheme, nibbles4, w(i), PublicKey(scheme, ValueKey(i)))
               \o DropAll(w(i))
               \o Nibbles4To3(value(Values(instr)[i]), nibbles4) \o DropAll(nibbles4))
        \o CheckLineBitcoin(instr, value("a"), value("b"), value("c"), value("d"))

-----------------------------------------------------------------------------
(* DoomsdayGenerator.checkLine: what the verifier takes to be a right line *)
(* before it looks for a script.                                           *)

BitOf(a, bit) == (a \div 2^bit) % 2

ModInverse(b) == CHOOSE x \in 1..(Prime - 1) : (b * x) % Prime = 1

CheckLine(instr, a, b, c) ==
    CASE instr.name = "ADDMOD"    -> c = (a + b) % Prime
      [] instr.name = "ANDBIT"    -> c = IF BitOf(a, instr.bit) = 1 THEN b ELSE 0
      [] instr.name = "ANDNOTBIT" -> c = IF BitOf(a, instr.bit) = 1 THEN 0 ELSE b
      [] instr.name = "MOV"       -> a = c
      [] instr.name = "EQUAL"     -> (c # 0) = (a = b)
      [] instr.name = "MULMOD"    -> c = (a * b) % Prime
      [] instr.name = "OR"        -> (c # 0) = (a # 0 \/ b # 0)
      [] instr.name = "AND"       -> (c # 0) = (a # 0 /\ b # 0)
      [] instr.name = "NOT"       -> (c # 0) = (a = 0)
      [] instr.name = "SUBMOD"    -> c = (Prime + a - b) % Prime
      [] instr.name = "DIVMOD"    -> b % Prime # 0 /\ c = a * ModInverse(b % Prime)
      [] instr.name = "ASSERTONE" -> a = 1
      [] instr.name = "ASSERTZERO" -> a = 0

\* calculateD of argument.ts
CalculateD(instr, a, b) ==
    IF instr.name \in {"MULMOD", "DIVMOD"} THEN (a * b) \div Prime ELSE 0
=============================================================================
