----------------------------- MODULE Decasector -----------------------------
(***************************************************************************)
(* How the lines of the program are divided among the rounds of a dispute  *)
(* (src/agent/setup/decasector.ts).  A STATE reveals what the registers    *)
(* are at nine lines that divide a range into ten, a SELECT picks one of   *)
(* the ten.                                                                *)
(***************************************************************************)
EXTENDS Naturals, Sequences

\* Math.round(left + i * d), d a tenth of the range.
Part(left, right, i) == (10 * left + i * (right - left) + 5) \div 10

PowerOfTen[n \in Nat] == IF n = 0 THEN 1 ELSE 10 * PowerOfTen[n - 1]

\* Mutant: rounded down.
IterationsForRoundedDown(length) ==
    CHOOSE n \in 0..length : PowerOfTen[n] <= length /\ length < PowerOfTen[n + 1]

\* Math.ceil(Math.log10(length))
IterationsFor(length) ==
    CHOOSE n \in 0..length : PowerOfTen[n] >= length /\ (n = 0 \/ PowerOfTen[n - 1] < length)

Range0(length) == [left |-> 0, right |-> length]
Tenth(range, i) == [left  |-> Part(range.left, range.right, i),
                    right |-> Part(range.left, range.right, i + 1)]

\* The range after every number of selections.
RangesOnPath(length, selections) ==
    LET range[k \in 0..Len(selections)] ==
            IF k = 0 THEN Range0(length) ELSE Tenth(range[k - 1], selections[k])
    IN  range

GetRangeForSelectionPath(length, selections) == RangesOnPath(length, selections)[Len(selections)]
GetLineBySelectionPath(length, selections) == GetRangeForSelectionPath(length, selections).left
GetLinesForSelectionPath(length, selections) ==
    LET range == GetRangeForSelectionPath(length, selections)
    IN  [i \in 1..9 |-> Part(range.left, range.right, i)]

-----------------------------------------------------------------------------
(* The constructor's walk over all ranges, which notes for every line the  *)
(* iteration and the selection that reveal it.  A line that is there       *)
(* already is passed over, and so is the range before it.                  *)

Commitment(iteration, selection) == [iteration |-> iteration, selection |-> selection]
Unset == Commitment(0, 1)

Tables(length) == [0..length -> [iteration : 0..length, selection : 0..9]]
Ranges(length) == [left : 0..length, right : 0..length]

\* Mutant: iterations count from zero, as in the names of the transactions.
NoteFromZero(table, line, iter, i) == [table EXCEPT ![line] = Commitment(iter - 1, i)]

Note(table, line, iter, i) == [table EXCEPT ![line] = Commitment(iter, i)]

\* The loop over the tenths of a range: the table before each of them.  What
\* is in a tenth is left to below, which is the walk of the next iteration.
Tenths(below, table, range, iter) ==
    LET before[i \in 0..9] ==
            LET last == before[i - 1]
                part == Tenth(range, i - 1)
            IN  IF i = 0 THEN table
                ELSE IF last[part.right] # Unset THEN last
                ELSE below[Note(last, part.right, iter, i - 1)][part]
    IN  before

\* The walk of a range with the given number of iterations left; the last tenth
\* has no line of its own.
Walk(length) ==
    LET iterations == IterationsFor(length)
        walk[k \in 0..iterations] ==
            [table \in Tables(length) |-> [range \in Ranges(length) |->
                IF k = 0 THEN table
                ELSE walk[k - 1][Tenths(walk[k - 1], table, range, iterations + 1 - k)[9]][Tenth(range, 9)]]]
    IN  walk

StateCommitments(length) ==
    Walk(length)[IterationsFor(length)][
        [line \in 0..length |-> IF line \in {0, length} THEN Commitment(0, 0) ELSE Unset]][Range0(length)]
=============================================================================
