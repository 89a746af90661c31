------------------------------ MODULE FinalStep ------------------------------
(***************************************************************************)
(* Scripts that are written and run at once.  One step makes the next call *)
(* of the method that writes the script: the generator moves its items,    *)
(* and the opcodes the call emits are evaluated on the stack of somebody   *)
(* who spends the output with some witness.  The properties compare the    *)
(* two stacks, and the verdict and the decoded values with what the rest   *)
(* of the code takes the script to mean.                                   *)
(***************************************************************************)
EXTENDS RefutationScripts, Blake3Script

CONSTANTS Kinds,                \* which scripts are run
          LineValues,           \* the values a, b and c of a line range over
          RefutedLine           \* the number of that line

VARIABLES script,               \* the script that is written
          spent,                \* the witness it is spent with
          meant,                \* what that witness should give
          pc,                   \* how many calls have been made
          call,                 \* the call to be made next
          tracked,              \* the stack of the generator
          machine               \* the interpreter

vars == <<script, spent, meant, pc, call, tracked, machine>>

\* A script: the items the generator takes the witness to consist of, the
\* calls, the items that hold decoded values at the end, and what each
\* witness should give: those values, Refused, or Unclaimed where the
\* properties say nothing about the verdict.
Refused == <<NoNibble>>
Unclaimed == <<NoNibble, NoNibble>>
Done == Call("done", "", Anonymous, Num(0))[1]
Script(names, code, result, want) ==
    [names |-> names, code |-> code \o Finish, result |-> result, want |-> want]

AcceptedIf(b) == IF b THEN <<>> ELSE Refused

-----------------------------------------------------------------------------
(* One-time signatures.                                                    *)

\* Every element of a signature, hashed any number of times up to one past
\* the public key.
AnyDepths(s, key) ==
    {[i \in 1..Total(s) |-> Digest(key + i, d[i])] : d \in [1..Total(s) -> 0..(s.base + 1)]}

\* A scheme small enough to try every witness.
Small == Scheme(2, 2, 4)
SmallMessages == Messages(Small)

OneNibble == Script(Witness(0, 2), WinternitzCheck1(Witness(0, 2), PublicKey(WOTS_1, 0)), <<>>,
    [w \in AnyDepths(WOTS_1, 0) |-> AcceptedIf(Decode(WOTS_1, w, PublicKey(WOTS_1, 0)) # <<>>)])

DecodeOneNibble == Script(Witness(0, 2),
    New(<<"n", 1>>) \o WinternitzDecode1(<<"n", 1>>, Witness(0, 2), PublicKey(WOTS_1, 0)),
    <<<<"n", 1>>>>,
    [w \in AnyDepths(WOTS_1, 0) |->
        LET n == Decode(WOTS_1, w, PublicKey(WOTS_1, 0)) IN IF n = <<>> THEN Refused ELSE n])

SmallSignature == Script(Witness(0, 4),
    NewNibbles(Reg("n", 2)) \o WinternitzDecode(Small, Reg("n", 2), Witness(0, 4), PublicKey(Small, 0)),
    Reg("n", 2),
    [w \in AnyDepths(Small, 0) |->
        LET n == Decode(Small, w, PublicKey(Small, 0)) IN IF n = <<>> THEN Refused ELSE n])

\* A list-pick signature in which one pair of a nibble and a hash is replaced.
\* The nibble may be past the base, and the script then picks an element
\* below the hashes: nothing compares it with the base, while the decoder
\* refuses it whatever is picked, so no verdict is claimed for it.
SmallPicks ==
    {[EncodeLp(Small, 0, m) EXCEPT ![2 * i - 1] = Num(n), ![2 * i] = Digest(i, d)] :
        m \in SmallMessages, i \in 1..4, n \in 0..(Small.base + 1), d \in 0..4}
BelowBase(s, w) == \A i \in 1..Total(s) : w[2 * i - 1][2] < s.base

SmallListPick == Script(Witness(0, 8),
    NewNibbles(Reg("n", 2)) \o WinternitzDecodeLp(Small, Reg("n", 2), Witness(0, 8), PublicKey(Small, 0)),
    Reg("n", 2),
    [w \in SmallPicks |->
        LET n == DecodeLp(Small, w, PublicKey(Small, 0))
        IN  CASE ~BelowBase(Small, w) -> Unclaimed
              [] n = <<>>             -> Refused
              [] OTHER                -> n])

\* Signatures of full size: a few messages, whole and with one element
\* hashed once more.
LongMessages(s) ==
    {[i \in 1..s.data |-> s.base - 1], [i \in 1..s.data |-> (5 * i) % s.base]}
OneMoreHash(w, i) == [w EXCEPT ![i] = Hash160(@)]
LongWitnesses(s, key) ==
    LET valid == {Encode(s, key, m) : m \in LongMessages(s)}
    IN  valid \cup {OneMoreHash(w, s.data) : w \in valid}

\* `size` items are decoded to, the data nibbles first.
DecodeScript(s, size, Decoder(_, _, _)) ==
    LET w == Witness(0, Total(s))
        n == Reg("n", size)
    IN  Script(w, NewNibbles(n) \o Decoder(n, w, PublicKey(s, 0)), Reg("n", s.data),
               [x \in LongWitnesses(s, 0) |->
                   LET v == Decode(s, x, PublicKey(s, 0)) IN IF v = <<>> THEN Refused ELSE v])

CheckOnly(s, Checker(_, _)) ==
    LET w == Witness(0, Total(s))
    IN  Script(w, Checker(w, PublicKey(s, 0)), <<>>,
               [x \in LongWitnesses(s, 0) |-> AcceptedIf(Decode(s, x, PublicKey(s, 0)) # <<>>)])

\* The condition of a transaction that reveals a value of the given type and
\* one nibble, and is signed by two parties.
Condition(type, witnesses, Accepts(_)) ==
    LET n       == Outputs(type)
        signed  == <<[type |-> type, key |-> 0], [type |-> "_1", key |-> 200]>>
        revealed == Encode(WOTS_1, 200, <<3>>) \o <<Digest(301, 0), Digest(302, 0)>>
    IN  Script(Witness(0, n) \o Witness(200, 2) \o Witness(300, 2),
               Boilerplate(144, <<301, 302>>, signed), <<>>,
               [x \in {w \o revealed : w \in witnesses} |-> AcceptedIf(Accepts(SubSeq(x, 1, n)))])

CheckScript(type) ==
    LET s == Types[type]
    IN  Condition(type, LongWitnesses(s, 0), LAMBDA w : Decode(s, w, PublicKey(s, 0)) # <<>>)

\* List-pick signatures as the decoder reads them, or with one hash spoilt.
CheckScriptLp ==
    LET s == WOTS_256_4
        valid == {EncodeLp(s, 0, m) : m \in LongMessages(s)}
    IN  Condition("_256_4_LP", valid \cup {OneMoreHash(w, 2 * s.data) : w \in valid},
                  LAMBDA w : DecodeLp(s, w, PublicKey(s, 0)) # <<>>)

-----------------------------------------------------------------------------
(* The path of selections, and the other decoders.                         *)

Iterations == 6
PathTo(line) == [i \in 1..Iterations |-> (line \div 10^(Iterations - i)) % 10]

\* The selections signed by the verifier, and an index the prover chose.
PathWitness(line, index) ==
    FlattenSeq([i \in 1..Iterations |->
        Encode(WOTS_24, SelectionKey(i), ToNibbles(PathTo(line)[i], 8, 8))])
    \o Encode(WOTS_24, SelectionKey(Iterations + 1), ToNibbles(index, 8, 8))
    \o <<Digest(1001, 0)>>

SelectionPath == Script(
    FlattenSeq([i \in 1..(Iterations + 1) |-> Witness(SelectionKey(i), 10)]) \o Witness(1000, 1),
    ProcessSelectionPath(<<1001>>, Iterations), <<>>,
    [w \in {PathWitness(RefutedLine, i) : i \in {RefutedLine, RefutedLine + 1, 8^6 - 1}} |->
        AcceptedIf(w = PathWitness(RefutedLine, RefutedLine))])

\* Four 4-bit nibbles give six 3-bit ones, as 64 give 86.
FourToThree == Script(Witness(0, 4), Nibbles4To3(Reg("n", 6), Witness(0, 4)), Reg("n", 6),
    LET values == {0, 1, 4095, 29127, 65535} \cup LineValues
        bits(v) == ToNibbles(v, 4, 16)
    IN  [w \in {[i \in 1..4 |-> Num(bits(v)[i])] : v \in values} |->
            ToNibbles(FromNibbles([i \in 1..4 |-> w[i][2]], 16), 6, 8)])

LamportBit == Script(Witness(0, 1),
    New(<<"n", 1>>) \o LamportDecodeBit(<<"n", 1>>, <<"w", 1>>, <<Digest(1, 1), Digest(2, 1)>>),
    <<<<"n", 1>>>>,
    [w \in {<<Digest(k, d)>> : k \in 1..3, d \in 0..1} |->
        CASE w = <<Digest(1, 0)>> -> <<0>>
          [] w = <<Digest(2, 0)>> -> <<1>>
          [] OTHER -> Refused])

-----------------------------------------------------------------------------
(* Lines of the program.                                                   *)

Instr(name) == [name |-> name, bit |-> 4]
RegisterValue(v) == LET n == ToNibbles(v, NibbleCount, 8) IN [i \in 1..NibbleCount |-> Num(n[i])]

\* The stack when the values have been decoded; d is what the prover's
\* argument gives, or one more.
LineScript(name) ==
    LET instr == Instr(name)
        reg(x) == Reg(x, NibbleCount)
        value == [x \in LineValues \X LineValues \X LineValues \X {0, 1} |->
                    RegisterValue(x[1]) \o RegisterValue(x[2]) \o RegisterValue(x[3])
                    \o IF NeedsD(instr) THEN RegisterValue(CalculateD(instr, x[1], x[2]) + x[4])
                       ELSE <<>>]
        lines == {x \in DOMAIN value : NeedsD(instr) \/ x[4] = 0}
        refutable(x) == x[4] = 1 \/ ~CheckLine(instr, x[1], x[2], x[3])
    IN  Script(Each(Values(instr), reg),
               CheckLineBitcoin(instr, reg("a"), reg("b"), reg("c"), reg("d")), <<>>,
               [w \in {value[x] : x \in lines} |->
                   AcceptedIf(\E x \in lines : value[x] = w /\ refutable(x))])

\* The whole script, from the signatures on; index and values are nibbles.
LineWitness(scheme, index, values) ==
    Encode(WOTS_24, IndexKey, ToNibbles(index, 8, 8))
    \o FlattenSeq([i \in DOMAIN values |-> EncodeLp(scheme, ValueKey(i), values[i])])
    \o <<Digest(1001, 0)>>

WholeLine(name, scheme, right, wrong, indices) ==
    LET instr == Instr(name)
        size  == 2 * Total(scheme)
    IN  Script(Witness(IndexKey, 10)
               \o FlattenSeq([i \in DOMAIN Values(instr) |-> Witness(ValueKey(i), size)])
               \o Witness(1000, 1),
               RefuteInstruction(instr, RefutedLine, scheme, 1001), <<>>,
               [w \in {LineWitness(scheme, i, v) : i \in indices, v \in {right, wrong}} |->
                   AcceptedIf(w = LineWitness(scheme, RefutedLine, wrong))])

\* Registers of four nibbles: both lines, under the right and a wrong index.
Registers4 == Scheme(4, 2, 16)
ShortLine(name, right, wrong) ==
    LET nibbles(v) == [i \in DOMAIN v |-> ToNibbles(v[i], 4, 16)]
    IN  WholeLine(name, Registers4, nibbles(right), nibbles(wrong), {RefutedLine, RefutedLine - 1})

\* A product of full size with the largest operands, p - 1 and p - 1, whose
\* quotient is p - 2 and whose remainder is 1.
PrimeHex ==
    [i \in 1..64 |->
        LET bit(k) == IF k < 258 THEN BitOf(FullPrime[k \div 3 + 1], k % 3) ELSE 0
            k == 4 * (i - 1)
        IN  bit(k) + 2 * bit(k + 1) + 4 * bit(k + 2) + 8 * bit(k + 3)]
Lowered(n) == [i \in 1..64 |-> IF i = 1 THEN PrimeHex[1] - n ELSE PrimeHex[i]]
SmallNumber(n) == [i \in 1..64 |-> IF i = 1 THEN n ELSE 0]
FullProduct ==
    LET line(c) == <<Lowered(1), Lowered(1), SmallNumber(c), Lowered(2)>>
    IN  WholeLine("MULMOD", WOTS_256_4, line(1), line(2), {RefutedLine})

\* The hash of two values of the Merkle tree, at its full size.
HashInput == [i \in 1..16 |-> <<(4099 * i) % 65536, (40503 * i) % 65536>>]
RightHash == HashWords(HashInput)
WrongHash == [RightHash EXCEPT ![8] = XorWords(@, <<4096, 0>>)]
Signed(words, key) ==
    EncodeLp(WOTS_256_4, key, FlattenSeq([i \in 1..8 |-> WordNibbles(words[i])]))

\* negifyPairHash is called with the right value before the left one.
HashWitness(hash) ==
    Signed(SubSeq(HashInput, 9, 16), PartKey(1)) \o Signed(SubSeq(HashInput, 1, 8), PartKey(2))
    \o Signed(hash, PartKey(3)) \o <<Digest(1001, 0)>>
RightWitness == HashWitness(RightHash)
WrongWitness == HashWitness(WrongHash)

PairHash == Script(
    FlattenSeq([i \in 1..3 |-> Witness(PartKey(i), 134)]) \o Witness(1000, 1),
    RefuteHash(1001), <<>>,
    [w \in {RightWitness, WrongWitness} |-> AcceptedIf(w = WrongWitness)])

-----------------------------------------------------------------------------

Instructions == {"ADDMOD", "SUBMOD", "MULMOD", "DIVMOD", "MOV", "EQUAL", "OR", "AND", "NOT",
                 "ANDBIT", "ANDNOTBIT", "ASSERTONE", "ASSERTZERO"}

ScriptOf(k) ==
    CASE k = "Check1"      -> OneNibble
      [] k = "Decode1"     -> DecodeOneNibble
      [] k = "Small"       -> SmallSignature
      [] k = "ListPick"    -> SmallListPick
      [] k = "Decode24"    -> DecodeScript(WOTS_24, WOTS_24.data, WinternitzDecode24)
      [] k = "Decode32"    -> DecodeScript(WOTS_32, Total(WOTS_32), WinternitzDecode32)
      [] k = "Decode256"   -> DecodeScript(WOTS_256, WOTS_256.data, WinternitzDecode256)
      [] k = "Decode256_4" -> DecodeScript(WOTS_256_4, WOTS_256_4.data, WinternitzDecode256_4)
      [] k = "Check32"     -> CheckOnly(WOTS_32, WinternitzCheck32)
      [] k \in DOMAIN Types \ {"_1", "_256_4_LP"} -> CheckScript(k)
      [] k = "_256_4_LP"   -> CheckScriptLp
      [] k = "Path"        -> SelectionPath
      [] k = "4To3"        -> FourToThree
      [] k = "Lamport"     -> LamportBit
      [] k = "WholeMov"    -> ShortLine("MOV", <<300, 0, 300>>, <<300, 0, 301>>)
      [] k = "WholeMul"    -> ShortLine("MULMOD", <<12000, 9999, 13556, 7324>>,
                                                  <<12000, 9999, 13557, 7324>>)
      [] k = "FullMul"     -> FullProduct
      [] k = "Hash"        -> PairHash
      [] k \in Instructions -> LineScript(k)
Scripts == [k \in Kinds |-> ScriptOf(k)]

Init ==
    /\ script \in Kinds
    /\ \E s \in {Scripts[script]} :
          /\ spent \in DOMAIN s.want
          /\ meant = [result |-> s.result, values |-> s.want[spent]]
          /\ call = s.code[1]
          /\ tracked = s.names
    /\ pc = 1
    /\ machine = Machine(spent)

Running == machine.ok /\ call.kind # "done"
Finishing == Running /\ call.kind = "finish"

\* A call of the generator, and the evaluation of what it emits.  A call that
\* drops several items is made for each of them.
Write ==
    /\ Running /\ ~Finishing
    /\ machine' = EvalAll(machine, Emitted(tracked, call))
    /\ tracked' = Moved(tracked, call)
    /\ pc' = IF Repeats(tracked', call) THEN pc ELSE pc + 1
    /\ call' = Scripts[script].code[pc']
    /\ UNCHANGED <<script, spent, meant>>

\* programToTemplate, one item at a time; the call that finds no item is the last.
CleanUp ==
    /\ Finishing
    /\ machine' = EvalAll(machine, Emitted(tracked, call))
    /\ tracked' = Moved(tracked, call)
    /\ call' = IF tracked = <<>> THEN Done ELSE call
    /\ UNCHANGED <<script, spent, meant, pc>>

Next == Write \/ CleanUp

Spec == Init /\ [][Next]_vars

-----------------------------------------------------------------------------

\* Type correctness of the interpreter: the alternative stack only ever holds
\* numbers, and when a script cleans up it has closed its blocks and taken
\* back what it put on that stack.  Outside the calls that open and close a
\* block the generator only names items it has.
TypeOK ==
    /\ script \in Kinds /\ pc \in Nat
    /\ machine.ok \in BOOLEAN
    /\ \A i \in DOMAIN machine.exec : machine.exec[i] \in BOOLEAN
    /\ \A i \in DOMAIN machine.alt : IsNum(machine.alt[i]) /\ machine.alt[i][2] \in Nat
    /\ Finishing => machine.exec = <<>> /\ machine.alt = <<>>
    /\ Running => \/ Straight(tracked, call)
                  \/ call.kind = "forget"
                  \/ call.kind = "op" /\ call.op \in {"IF", "ELSE", "ENDIF"}

\* Whenever no block is open, the stack on which the generator looks up its
\* items is as high as the stack of whoever runs the script.
Aligned ==
    Running /\ machine.exec = <<>> /\ call.kind # "forget"
        => Len(tracked) = Len(machine.stack)

\* No script needs more than the thousand elements Bitcoin allows.
StackFits == Len(machine.stack) + Len(machine.alt) <= MaxStackItems


\* The values the script decodes are those that were signed; for list-pick
\* signatures again those with nibbles below the base.
ResultRight ==
    Finishing /\ meant.values # Unclaimed => \A i \in DOMAIN meant.result : \A j \in DOMAIN tracked :
        tracked[j] = meant.result[i] => machine.stack[j] = Num(meant.values[i])

\* In the plain form of a signature, not the list-pick form: whoever has seen
\* the signature of one message can hash its elements on, but the checksum
\* leaves no other message that the script would decode from what he gets, so
\* no selection can be changed later.
OneTimeBinding ==
    script = "Small" /\ Finishing
        => \A m \in SmallMessages : Derived(spent, Encode(Small, 0, m)) =>
               \A i \in 1..2 : \A j \in DOMAIN tracked :
                   tracked[j] = <<"n", i>> => machine.stack[j] = Num(m[i])
=============================================================================
