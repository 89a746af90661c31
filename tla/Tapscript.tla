------------------------------ MODULE Tapscript ------------------------------
(***************************************************************************)
(* The evaluation of a script, as python/bitsnark/scripteval does it when  *)
(* the agents test a script before they rely on it.  The machine is a      *)
(* record: the two stacks, the stack of conditions of the IF blocks that   *)
(* are open, and whether the script is still alive.                        *)
(***************************************************************************)
EXTENDS Elements, Sequences, SequencesExt

CONSTANT MaxStackItems              \* MAX_STACK_ITEMS, 1000 on Bitcoin

ASSUME StackLimit == MaxStackItems \in Nat \ {0}

Bool(b) == Num(IF b THEN 1 ELSE 0)

\* _CastToBool: everything but the number zero is true.
Truth(v) == v # Num(0)

Machine(witness) ==
    [stack |-> witness, alt |-> <<>>, exec |-> <<>>, ok |-> TRUE]

\* _CheckExec: an operation is executed when every open block is.
Executing(m) == \A i \in DOMAIN m.exec : m.exec[i]

\* The element n places below the top, and the stack without its top n.
At(s, n) == s[Len(s) - n]
Below(s, n) == SubSeq(s, 1, Len(s) - n)

Fail(m) == [m EXCEPT !.ok = FALSE]
WithStack(m, s) == [m EXCEPT !.stack = s]

\* check_args(n), then the operation replaces the top n elements by `new`.
Replace(m, n, new) ==
    IF Len(m.stack) < n THEN Fail(m) ELSE WithStack(m, Below(m.stack, n) \o new)

-----------------------------------------------------------------------------

BinaryOps == {"ADD", "SUB", "BOOLAND", "BOOLOR", "NUMEQUAL", "LESSTHAN",
              "GREATERTHANOREQUAL"}

Binary(op, x, y) ==
    CASE op = "ADD"                -> Num(x + y)
      [] op = "SUB"                -> Num(x - y)
      [] op = "BOOLAND"            -> Bool(x # 0 /\ y # 0)
      [] op = "BOOLOR"             -> Bool(x # 0 \/ y # 0)
      [] op = "NUMEQUAL"           -> Bool(x = y)
      [] op = "LESSTHAN"           -> Bool(x < y)
      [] op = "GREATERTHANOREQUAL" -> Bool(x >= y)

\* An arithmetic operation fails on a missing operand and on a 20-byte one.
Arithmetic(m, op) ==
    LET s == m.stack
    IN  IF Len(s) < 2 \/ ~IsNum(At(s, 0)) \/ ~IsNum(At(s, 1)) THEN Fail(m)
        ELSE Replace(m, 2, <<Binary(op, At(s, 1)[2], At(s, 0)[2])>>)

\* OP_PICK copies, OP_ROLL moves; the index is checked against the stack.
PickOrRoll(m, roll) ==
    LET s == Below(m.stack, 1)
        n == At(m.stack, 0)[2]
    IN  IF Len(m.stack) < 2 \/ ~IsNum(At(m.stack, 0)) \/ n < 0 \/ n >= Len(s)
        THEN Fail(m)
        ELSE WithStack(m, Append(IF roll THEN RemoveAt(s, Len(s) - n) ELSE s,
                                 At(s, n)))

\* Mutant: the end of a block does not close it.
ConditionalUnclosed(m, op) ==
    IF op = "IF" /\ Executing(m)
    THEN [m EXCEPT !.stack = Front(@), !.exec = Append(@, Truth(Last(m.stack)))]
    ELSE m

Conditional(m, op) ==
    CASE op = "IF" /\ ~Executing(m) -> [m EXCEPT !.exec = Append(@, FALSE)]
      [] op = "IF" /\ Executing(m) ->
            IF m.stack = <<>> THEN Fail(m)
            ELSE [m EXCEPT !.stack = Front(@),
                           !.exec = Append(@, Truth(Last(m.stack)))]
      [] op = "ELSE"  -> IF m.exec = <<>> THEN Fail(m)
                         ELSE [m EXCEPT !.exec[Len(m.exec)] = ~@]
      [] op = "ENDIF" -> IF m.exec = <<>> THEN Fail(m)
                         ELSE [m EXCEPT !.exec = Front(@)]

\* Verification operations: the script dies unless the test holds.
Verify(m, n, test) ==
    IF Len(m.stack) >= n /\ test THEN WithStack(m, Below(m.stack, n)) ELSE Fail(m)

\* Signatures are checked by the node; the evaluation accepts them
\* (ignore_signature_errors) and takes the two elements.
CheckSigVerify(m) == Verify(m, 2, TRUE)

\* OP_DUP, OP_2DUP, OP_3DUP
Duplicate(m, n) ==
    IF Len(m.stack) < n THEN Fail(m)
    ELSE WithStack(m, m.stack \o SubSeq(m.stack, Len(m.stack) - n + 1, Len(m.stack)))

Operation(m, op, v) ==
    LET s == m.stack
    IN  CASE op = "DATA"      -> WithStack(m, Append(s, v))
          [] op \in BinaryOps -> Arithmetic(m, op)
          [] op = "NOT"       -> IF s = <<>> \/ ~IsNum(Last(s)) THEN Fail(m)
                                 ELSE Replace(m, 1, <<Bool(~Truth(Last(s)))>>)
          [] op \in {"PICK", "ROLL"} -> PickOrRoll(m, op = "ROLL")
          [] op = "DROP"      -> Replace(m, 1, <<>>)
          [] op = "NIP"       -> Replace(m, 2, <<At(s, 0)>>)
          [] op = "DUP"       -> Duplicate(m, 1)
          [] op = "2DUP"      -> Duplicate(m, 2)
          [] op = "3DUP"      -> Duplicate(m, 3)
          [] op = "SWAP"      -> Replace(m, 2, <<At(s, 0), At(s, 1)>>)
          [] op = "EQUAL"     -> Replace(m, 2, <<Bool(At(s, 0) = At(s, 1))>>)
          [] op = "HASH160"   -> Replace(m, 1, <<Hash160(At(s, 0))>>)
          [] op = "TOALTSTACK" ->
                IF s = <<>> THEN Fail(m)
                ELSE [m EXCEPT !.stack = Front(s), !.alt = Append(@, Last(s))]
          [] op = "FROMALTSTACK" ->
                IF m.alt = <<>> THEN Fail(m)
                ELSE [m EXCEPT !.stack = Append(s, Last(m.alt)), !.alt = Front(@)]
          [] op = "VERIFY"    -> Verify(m, 1, Truth(At(s, 0)))
          [] op = "NUMEQUALVERIFY" ->
                Verify(m, 2, IsNum(At(s, 0)) /\ At(s, 0) = At(s, 1))
          [] op = "CHECKSIGVERIFY" -> CheckSigVerify(m)
          [] op = "CHECKSEQUENCEVERIFY" -> m

\* A push of data goes on with the next opcode before the stack is measured;
\* OP_1 to OP_16 are measured like any other operation.
PushesData(opcode) == opcode[1] = "DATA" /\ ~(IsNum(opcode[2]) /\ opcode[2][2] \in 1..16)

\* One turn of the loop of _eval_tapscript; an opcode is a pair <<name, v>>.
EvalOp(m, opcode) ==
    LET op   == opcode[1]
        next == IF op \in {"IF", "ELSE", "ENDIF"} THEN Conditional(m, op)
                ELSE IF Executing(m) THEN Operation(m, op, opcode[2]) ELSE m
    IN  IF ~(PushesData(opcode) /\ Executing(m))
           /\ Len(next.stack) + Len(next.alt) > MaxStackItems
        THEN Fail(next) ELSE next

\* The whole loop: it ends with the first operation that fails.
EvalAll(m, opcodes) ==
    LET after[i \in 0..Len(opcodes)] ==
            IF i = 0 THEN m
            ELSE LET before == after[i - 1]
                 IN  IF before.ok THEN EvalOp(before, opcodes[i]) ELSE before
    IN  after[Len(opcodes)]

\* What verify_stack asks of the stack at the end: one element, and a true one.
Success(m) ==
    m.ok /\ m.exec = <<>> /\ Len(m.stack) = 1 /\ Truth(m.stack[1])
=============================================================================
