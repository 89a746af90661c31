---------------------------- MODULE DisputeProofs ----------------------------
(***************************************************************************)
(* The rounds of a dispute and the work on its scripts, for every program  *)
(* whose length is a power of ten, whatever the prover claims, for any     *)
(* number of chunks, workers and failures.  The program of the agents has  *)
(* 1000000 lines; with other lengths the last range can be too short to    *)
(* be divided (420 lines, for example).                                    *)
(***************************************************************************)
EXTENDS Dispute, AlgorithmProofs, FiniteSetTheorems

\* The lengths a dispute can be about.
PowersOfTen == \A n \in Totals : \E k \in Nat : n = PowerOfTen[k]

-----------------------------------------------------------------------------
(* The rounds.                                                             *)

\* The selections and claims are sequences, and there are never too many.
PathTypes ==
    /\ total \in Totals
    /\ path \in Seq(0..9) /\ claims \in Seq(SUBSET (1..9))
    /\ Len(claims) = Len(path) \/ (Len(claims) = Len(path) + 1 /\ Len(path) < Iterations[total])
    /\ Len(path) <= Iterations[total]

Disputed == GetRangeForSelectionPath(total, path)

\* Every round leaves a tenth of the range.
RangeExact ==
    /\ Disputed.left \in Nat /\ Disputed = [left |-> Disputed.left, right |-> Disputed.right]
    /\ Disputed.right = Disputed.left + PowerOfTen[Iterations[total] - Len(path)]
    /\ Disputed.right <= total

RoundsInv == PathTypes /\ RangeExact /\ RangeContested

(***************************************************************************)
(* The length of the program is ten to the number of iterations.           *)
(***************************************************************************)
LEMMA TotalPower ==
    ASSUME PowersOfTen, total \in Totals
    PROVE  Iterations[total] \in Nat /\ total = PowerOfTen[Iterations[total]]
<1>1. PICK k \in Nat : total = PowerOfTen[k]
  BY DEF PowersOfTen
<1> QED
  BY <1>1, IterationsExact DEF Iterations

(***************************************************************************)
(* Before the first STATE the whole program is disputed.                   *)
(***************************************************************************)
LEMMA RoundsStart ==
    ASSUME PowersOfTen, total \in Totals, path = <<>>, claims = <<>>
    PROVE  RoundsInv
<1>1. Iterations[total] \in Nat /\ total = PowerOfTen[Iterations[total]] /\ total \in Nat /\ 0 < total
  BY TotalPower, DisputeAssumption
<1>2. Len(path) = 0 /\ Len(claims) = 0 /\ path \in Seq(0..9) /\ claims \in Seq(SUBSET (1..9))
  OBVIOUS
<1>3. Disputed = [left |-> 0, right |-> total]
  BY RangeOfEmpty DEF Disputed, Range0
<1>4. PathTypes
  BY <1>1, <1>2 DEF PathTypes
<1>5. RangeExact
  BY <1>1, <1>2, <1>3 DEF RangeExact
<1>6. RangeContested
  BY <1>1, <1>3 DEF RangeContested, Disputed, Accepted, Rejected
<1> QED
  BY <1>4, <1>5, <1>6 DEF RoundsInv

(***************************************************************************)
(* findErrorState returns the number of right states before the first      *)
(* wrong one.                                                              *)
(***************************************************************************)
LEMMA FirstWrong ==
    ASSUME NEW wrong \in SUBSET (1..9)
    PROVE  LET e == FindErrorState(wrong)
           IN  e \in 0..9 /\ (e > 0 => e \notin wrong) /\ (e < 9 => e + 1 \in wrong)
<1>1. CASE wrong = {}
  BY <1>1 DEF FindErrorState
<1>2. CASE wrong # {}
  <2>1. \E i \in wrong : \A j \in wrong : i <= j
    <3>1. wrong \subseteq Nat
      OBVIOUS
    <3> QED
      BY <1>2, <3>1, LeastOf
  <2>2. PICK k \in wrong : k = (CHOOSE i \in wrong : \A j \in wrong : i <= j) /\ \A j \in wrong : k <= j
    BY <2>1
  <2>3. FindErrorState(wrong) = k - 1 /\ k \in 1..9
    BY <1>2, <2>2 DEF FindErrorState
  <2>4. k - 1 \notin wrong /\ (k - 1) + 1 = k /\ k - 1 \in 0..8
    <3>1. ~(k <= k - 1) /\ (k - 1) + 1 = k /\ k - 1 \in 0..8
      BY <2>3
    <3> QED
      BY <2>2, <3>1
  <2>5. PICK e : e = FindErrorState(wrong)
    OBVIOUS
  <2>6. e \in 0..9 /\ e \notin wrong /\ e + 1 \in wrong
    <3>1. e = k - 1
      BY <2>3, <2>5
    <3>2. e + 1 = k /\ e \notin wrong
      BY <2>4, <3>1
    <3>3. e \in 0..9
      BY <2>3, <3>1
    <3>4. e + 1 \in wrong
      BY <2>2, <3>2, Zenon
    <3> QED
      BY <3>2, <3>3, <3>4
  <2> QED
    BY <2>5, <2>6
<1> QED
  BY <1>1, <1>2

(***************************************************************************)
(* A selection does not change what the earlier slots are about, and gives *)
(* nine slots for the lines of the range so far.                           *)
(***************************************************************************)
LEMMA SlotsKept ==
    ASSUME NEW e \in 0..9, NEW n, n = Len(path), path \in Seq(0..9), path' = Append(path, e), total' = total
    PROVE  /\ \A k \in 1..n : \A i : SlotLine(k, i)' = SlotLine(k, i)
           /\ \A i \in 1..9 : SlotLine(n + 1, i)' = Lines[i]
           /\ Slots' = Slots \cup ({n + 1} \X (1..9))
<1>1. n \in Nat /\ Len(path') = n + 1
  OBVIOUS
<1>2. ASSUME NEW k \in 1..n PROVE SubSeq(path', 1, k - 1) = SubSeq(path, 1, k - 1)
  BY <1>1
<1>3. SubSeq(path', 1, n) = path
  BY <1>1
<1>4. (n + 1) - 1 = n
  BY <1>1
<1>5. 1..(n + 1) = 1..n \cup {n + 1}
  BY <1>1
<1>6. \A k \in 1..n : \A i : SlotLine(k, i)' = SlotLine(k, i)
  BY <1>2 DEF SlotLine
<1>7. \A i \in 1..9 : SlotLine(n + 1, i)' = Lines[i]
  BY <1>3, <1>4 DEF SlotLine, Lines
<1>8. Slots' = Slots \cup ({n + 1} \X (1..9))
  BY <1>1, <1>5 DEF Slots
<1> QED
  BY <1>6, <1>7, <1>8

(***************************************************************************)
(* A STATE makes nine claims and changes no earlier one.                   *)
(***************************************************************************)
LEMMA StateRounds ==
    ASSUME RoundsInv, PublishState PROVE RoundsInv'
<1>1. /\ Len(claims) = Len(path) /\ Len(path) < Iterations[total] /\ UNCHANGED <<total, path>>
      /\ \E c \in SUBSET (1..9) : claims' = Append(claims, c)
  BY DEF PublishState
<1>2. PICK c \in SUBSET (1..9) : claims' = Append(claims, c)
  BY <1>1
<1>3. /\ claims' \in Seq(SUBSET (1..9)) /\ Len(claims') = Len(path) + 1
      /\ \A k \in 1..Len(path) : claims'[k] = claims[k]
  BY <1>1, <1>2 DEF RoundsInv, PathTypes
<1>4. PathTypes'
  BY <1>1, <1>3 DEF RoundsInv, PathTypes
<1>5. Disputed' = Disputed /\ RangeExact'
  BY <1>1 DEF RoundsInv, RangeExact, Disputed
<1>6. \A line : Accepted(line)' = Accepted(line) /\ Rejected(line)' = Rejected(line)
  BY <1>1, <1>3 DEF Accepted, Rejected, Slots, SlotLine
<1>7. RangeContested'
  BY <1>1, <1>6 DEF RoundsInv, RangeContested
<1> QED
  BY <1>4, <1>5, <1>7 DEF RoundsInv

\* A SELECT of the tenth e of the 10 * m lines from l on, after n others.
Narrows(n, e, l, m) ==
    /\ n = Len(path) /\ n \in Nat /\ n < Iterations[total] /\ Iterations[total] \in Nat
    /\ UNCHANGED <<total, claims>> /\ path' \in Seq(0..9) /\ Len(path') = n + 1
    /\ e \in 0..9 /\ l \in Nat /\ m \in Nat /\ 0 < m /\ l + 10 * m <= total
    /\ PowerOfTen[Iterations[total] - n] = 10 * m /\ PowerOfTen[Iterations[total] - (n + 1)] = m
    /\ Disputed = [left |-> l, right |-> l + 10 * m]
    /\ Disputed' = [left |-> l + e * m, right |-> (l + e * m) + m]
    /\ \A k \in 1..n : \A i : SlotLine(k, i)' = SlotLine(k, i)
    /\ \A i \in 1..9 : SlotLine(n + 1, i)' = l + i * m
    /\ Slots' = Slots \cup ({n + 1} \X (1..9))

(***************************************************************************)
(* The tenth a SELECT picks is after the last right state and before the   *)
(* first wrong one.                                                        *)
(***************************************************************************)
LEMMA NextTenth ==
    ASSUME PowersOfTen, RoundsInv, PublishSelect
    PROVE  \E n, l, m \in Nat, e \in 0..9 :
               /\ Narrows(n, e, l, m) /\ Len(claims) = n + 1
               /\ e > 0 => e \notin claims[n + 1]
               /\ e < 9 => e + 1 \in claims[n + 1]
<1>a. PICK n : n = Len(path)
  OBVIOUS
<1>b. PICK wrong : wrong = claims[n + 1]
  OBVIOUS
<1>c. PICK e : e = FindErrorState(wrong)
  OBVIOUS
<1>d. PICK m : m = PowerOfTen[Iterations[total] - (n + 1)]
  OBVIOUS
<1>e. PICK l : l = Disputed.left
  OBVIOUS
<1>1. /\ n \in Nat /\ Len(claims) = n + 1 /\ n < Iterations[total] /\ Iterations[total] \in Nat
      /\ UNCHANGED <<total, claims>> /\ wrong \in SUBSET (1..9) /\ path' = Append(path, e) /\ path \in Seq(0..9)
  <2>1. path \in Seq(0..9) /\ claims \in Seq(SUBSET (1..9)) /\ total \in Totals
    BY DEF RoundsInv, PathTypes
  <2>2. n \in Nat /\ Len(claims) = n + 1 /\ n < Iterations[total]
    BY <1>a, <2>1 DEF RoundsInv, PathTypes, PublishSelect
  <2>3. Last(claims) = wrong
    BY <1>b, <2>2 DEF Last
  <2>4. wrong \in SUBSET (1..9)
    BY <1>b, <2>1, <2>2
  <2>5. Iterations[total] \in Nat
    BY <2>1, TotalPower
  <2> QED
    BY <1>c, <2>1, <2>2, <2>3, <2>4, <2>5 DEF PublishSelect
<1>2. e \in 0..9 /\ (e > 0 => e \notin wrong) /\ (e < 9 => e + 1 \in wrong)
  BY <1>1, <1>c, FirstWrong
<1>3. m \in Nat /\ 0 < m /\ PowerOfTen[Iterations[total] - n] = 10 * m
  <2>1. /\ Iterations[total] - (n + 1) \in Nat /\ Iterations[total] - n \in Nat \ {0}
        /\ (Iterations[total] - n) - 1 = Iterations[total] - (n + 1)
    BY <1>1
  <2> QED
    BY <1>d, <2>1, PowerDef, PowerNat
<1>4. path' \in Seq(0..9) /\ Len(path') = n + 1
  BY <1>1, <1>2, <1>a
<1>5. l \in Nat /\ Disputed = [left |-> l, right |-> l + 10 * m] /\ l + 10 * m <= total
  BY <1>3, <1>a, <1>e DEF RoundsInv, RangeExact
<1>6. Disputed' = Tenth(Disputed, e)
  BY <1>1, <1>2, RangeOfNext DEF Disputed
<1>7. Disputed' = [left |-> l + e * m, right |-> (l + e * m) + m]
  BY <1>2, <1>3, <1>5, <1>6, TenthExact
<1>8. \A i \in 1..9 : Lines[i] = l + i * m
  <2>1. Lines = [i \in 1..9 |-> Part(l, l + 10 * m, i)]
    BY <1>5 DEF Lines, GetLinesForSelectionPath, Disputed
  <2>2. ASSUME NEW i \in 1..9 PROVE Part(l, l + 10 * m, i) = l + i * m
    <3>1. i \in 0..10
      OBVIOUS
    <3> QED
      BY <1>3, <1>5, <3>1, PartExact
  <2> QED
    BY <2>1, <2>2
<1>9. /\ \A k \in 1..n : \A i : SlotLine(k, i)' = SlotLine(k, i)
      /\ \A i \in 1..9 : SlotLine(n + 1, i)' = l + i * m
      /\ Slots' = Slots \cup ({n + 1} \X (1..9))
  BY <1>1, <1>2, <1>8, <1>a, SlotsKept
<1>10. Narrows(n, e, l, m)
  BY <1>1, <1>2, <1>3, <1>4, <1>5, <1>7, <1>9, <1>a, <1>d DEF Narrows
<1> QED
  BY <1>1, <1>2, <1>3, <1>5, <1>10, <1>b

(***************************************************************************)
(* So it is between a state the verifier accepts and one he rejects.       *)
(***************************************************************************)
LEMMA SelectRounds ==
    ASSUME PowersOfTen, RoundsInv, PublishSelect PROVE RoundsInv'
<1>a. PICK n, l, m \in Nat, e \in 0..9 :
          /\ Narrows(n, e, l, m) /\ Len(claims) = n + 1
          /\ e > 0 => e \notin claims[n + 1]
          /\ e < 9 => e + 1 \in claims[n + 1]
  BY NextTenth
<1>1. /\ n = Len(path) /\ n \in Nat /\ n < Iterations[total] /\ Iterations[total] \in Nat
      /\ UNCHANGED <<total, claims>>
  BY <1>a DEF Narrows
<1>2. e \in 0..9
  BY <1>a DEF Narrows
<1>3. m \in Nat /\ 0 < m /\ PowerOfTen[Iterations[total] - (n + 1)] = m
  BY <1>a DEF Narrows
<1>4. path' \in Seq(0..9) /\ Len(path') = n + 1
  BY <1>a DEF Narrows
<1>5. l \in Nat /\ Disputed = [left |-> l, right |-> l + 10 * m] /\ l + 10 * m <= total
  BY <1>a DEF Narrows
<1>6. Disputed' = [left |-> l + e * m, right |-> (l + e * m) + m]
  BY <1>a DEF Narrows
<1>7. e * m \in Nat /\ e * m + m <= 10 * m
  OBVIOUS
<1>8. PathTypes'
  BY <1>1, <1>4, <1>a DEF RoundsInv, PathTypes
<1>9. RangeExact'
  <2>1. total \in Nat
    BY DisputeAssumption DEF RoundsInv, PathTypes
  <2>2. Disputed'.left = l + e * m /\ Disputed'.right = (l + e * m) + m
    BY <1>6
  <2>3. (Iterations[total] - Len(path))' = Iterations[total] - (n + 1)
    BY <1>1, <1>4
  <2>4. Disputed'.right <= total
    BY <1>3, <1>5, <1>7, <2>1, <2>2
  <2>5. (Disputed = [left |-> Disputed.left, right |-> Disputed.right])'
    BY <1>6
  <2> QED
    BY <1>1, <1>3, <1>5, <1>7, <2>2, <2>3, <2>4, <2>5 DEF RangeExact
<1>10. /\ \A k \in 1..n : \A i : SlotLine(k, i)' = SlotLine(k, i)
       /\ \A i \in 1..9 : SlotLine(n + 1, i)' = l + i * m
       /\ Slots' = Slots \cup ({n + 1} \X (1..9))
  BY <1>a DEF Narrows
<1>11. Slots = (1..n) \X (1..9)
  BY <1>1 DEF Slots
<1>12. \A line : (Accepted(line) => Accepted(line)') /\ (Rejected(line) => Rejected(line)')
  BY <1>1, <1>10, <1>11 DEF Accepted, Rejected
<1>13. Accepted(l) /\ Rejected(l + 10 * m)
  BY <1>5 DEF RoundsInv, RangeContested, Disputed
<1>14. Accepted(l + e * m)'
  <2>1. CASE e = 0
    <3>1. l + e * m = l
      BY <1>3, <1>5, <2>1
    <3> QED
      BY <1>12, <1>13, <3>1
  <2>2. CASE e \in 1..9
    <3>1. <<n + 1, e>> \in Slots' /\ SlotLine(n + 1, e)' = l + e * m
      BY <1>10, <2>2
    <3>2. e \notin claims'[n + 1]
      BY <1>1, <1>a, <2>2
    <3> QED
      BY <3>1, <3>2 DEF Accepted
  <2> QED
    BY <1>2, <2>1, <2>2
<1>15. Rejected((l + e * m) + m)'
  <2>1. CASE e = 9
    <3>1. (l + e * m) + m = l + 10 * m
      BY <1>3, <1>5, <2>1
    <3> QED
      BY <1>12, <1>13, <3>1
  <2>2. CASE e \in 0..8
    <3>1. PICK i \in 1..9 : i = e + 1
      BY <2>2
    <3>2. <<n + 1, i>> \in Slots' /\ SlotLine(n + 1, i)' = l + i * m
      BY <1>10
    <3>3. i \in claims'[n + 1]
      BY <1>1, <1>a, <2>2, <3>1
    <3>4. l + i * m = (l + e * m) + m
      BY <3>1
    <3> QED
      BY <3>2, <3>3, <3>4 DEF Rejected
  <2> QED
    BY <1>2, <2>1, <2>2
<1>16. RangeContested'
  <2>1. Disputed'.left < Disputed'.right
    BY <1>3, <1>5, <1>6, <1>7
  <2> QED
    BY <1>6, <1>14, <1>15, <2>1 DEF RangeContested, Disputed
<1> QED
  BY <1>8, <1>9, <1>16 DEF RoundsInv

\* The state before the first STATE.
Cleared == total \in Totals /\ path = <<>> /\ claims = <<>>

(***************************************************************************)
(* No other step takes part in the rounds, except that a refutation ends   *)
(* them: the state is then that before the first STATE.                    *)
(***************************************************************************)
LEMMA RoundsStep ==
    ASSUME PowersOfTen, RoundsInv, [Next]_vars PROVE RoundsInv' \/ Cleared'
<1>1. CASE PublishState
  BY <1>1, StateRounds
<1>2. CASE PublishSelect
  BY <1>2, SelectRounds
<1>3. CASE Refute
  BY <1>3 DEF Refute, Cleared, RoundsInv, PathTypes
<1>4. CASE UNCHANGED disputeVars
  <2>1. UNCHANGED <<total, path, claims>>
    BY <1>4 DEF disputeVars
  <2>2. PathTypes'
    BY <2>1 DEF RoundsInv, PathTypes
  <2>3. Disputed' = Disputed /\ RangeExact'
    BY <2>1 DEF RoundsInv, RangeExact, Disputed
  <2>4. \A line : Accepted(line)' = Accepted(line) /\ Rejected(line)' = Rejected(line)
    BY <2>1 DEF Accepted, Rejected, Slots, SlotLine
  <2>5. RangeContested'
    BY <2>1, <2>4 DEF RoundsInv, RangeContested
  <2> QED
    BY <2>2, <2>3, <2>5 DEF RoundsInv
<1>5. CASE UNCHANGED vars
  BY <1>4, <1>5 DEF vars, disputeVars
<1>6. ASSUME NEW t \in running, FinishChunk(t) \/ FailChunk(t) \/ KillChunk(t) PROVE UNCHANGED disputeVars
  BY <1>6 DEF FinishChunk, FailChunk, KillChunk
<1>7. CASE StartChunk \/ CollectHashes \/ CompressNext
  BY <1>4, <1>7 DEF StartChunk, CollectHashes, CompressNext
<1> QED
  BY <1>1, <1>2, <1>3, <1>4, <1>5, <1>6, <1>7 DEF Next

(***************************************************************************)
(* In every state the range that is disputed is a tenth of the one before, *)
(* starts with a state the verifier accepts and ends with one he rejects.  *)
(***************************************************************************)
THEOREM RoundsInvariant == PowersOfTen => (Spec => []RoundsInv)
<1> SUFFICES ASSUME PowersOfTen PROVE Spec => []RoundsInv
  OBVIOUS
<1>1. Init => Cleared
  BY DEF Init, Cleared
<1>2. Cleared => RoundsInv
  BY RoundsStart DEF Cleared
<1>3. RoundsInv /\ [Next]_vars => RoundsInv' \/ Cleared'
  BY RoundsStep
<1> QED
  BY <1>1, <1>2, <1>3, PTL DEF Spec

(***************************************************************************)
(* RangeContested: whatever the prover claims, the verifier disputes a     *)
(* range that starts with a state he accepts and ends with one he rejects. *)
(***************************************************************************)
THEOREM RangeDisputed == PowersOfTen => (Spec => []RangeContested)
<1>1. RoundsInv => RangeContested
  BY DEF RoundsInv
<1> QED
  BY <1>1, RoundsInvariant, PTL

(***************************************************************************)
(* EndsAtOneLine: the iterations are enough, and what they leave is one    *)
(* line.                                                                   *)
(***************************************************************************)
THEOREM OneLine == PowersOfTen => (Spec => []EndsAtOneLine)
<1>1. ASSUME PowersOfTen, RoundsInv, Len(path) = Iterations[total] PROVE Disputed.right = Disputed.left + 1
  <2>1. Iterations[total] \in Nat
    BY <1>1, TotalPower DEF RoundsInv, PathTypes
  <2>2. Iterations[total] - Len(path) = 0 /\ PowerOfTen[0] = 1
    BY <1>1, <2>1, PowerDef
  <2> QED
    BY <1>1, <2>2 DEF RoundsInv, RangeExact
<1>2. PowersOfTen => (RoundsInv => EndsAtOneLine)
  BY <1>1 DEF EndsAtOneLine, Disputed
<1> SUFFICES ASSUME PowersOfTen PROVE Spec => []EndsAtOneLine
  OBVIOUS
<1>3. RoundsInv => EndsAtOneLine
  BY <1>2
<1> QED
  BY <1>3, RoundsInvariant, PTL

-----------------------------------------------------------------------------
(* The slots of the table of all lines.                                    *)

\* The range is one the walk of the decasector comes to, and its ends have
\* been revealed where the table says.
RootsInv ==
    /\ \E a \in Nat : Disputed.left = a * PowerOfTen[Iterations[total] - Len(path)]
    /\ RootsRevealed

(***************************************************************************)
(* The ends of the whole program need not be revealed.                     *)
(***************************************************************************)
LEMMA RootsStart ==
    ASSUME PowersOfTen, Cleared PROVE RootsInv
<1>1. Iterations[total] \in Nat /\ total = PowerOfTen[Iterations[total]] /\ total \in Nat
  BY TotalPower, DisputeAssumption DEF Cleared
<1>2. Len(path) = 0 /\ Iterations[total] - Len(path) = Iterations[total]
  BY <1>1 DEF Cleared
<1>3. Disputed = [left |-> 0, right |-> total]
  BY RangeOfEmpty DEF Disputed, Range0, Cleared
<1>4. Disputed.left = 0 * PowerOfTen[Iterations[total] - Len(path)]
  BY <1>1, <1>2, <1>3
<1>5. RootsRevealed
  BY <1>3 DEF RootsRevealed, Disputed
<1> QED
  BY <1>4, <1>5 DEF RootsInv

\* The slot of the table is that of a STATE on the path.
Revealed(line) ==
    LET c == StateCommitmentByLine[total][line]
    IN  c.iteration \in 1..Len(path) /\ SlotLine(c.iteration, c.selection + 1) = line

(***************************************************************************)
(* A SELECT keeps an end of the range or takes a line of the last STATE.   *)
(***************************************************************************)
LEMMA SelectRoots ==
    ASSUME PowersOfTen, RoundsInv, RootsInv, PublishSelect PROVE RootsInv'
<1>a. PICK n, l, m \in Nat, e \in 0..9 : Narrows(n, e, l, m)
  BY NextTenth
<1>b. PICK k : k = Iterations[total] - n
  OBVIOUS
<1>1. /\ n = Len(path) /\ Len(path') = n + 1 /\ total' = total
      /\ k \in 1..Iterations[total] /\ Iterations[total] \in Nat /\ k - 1 = Iterations[total] - (n + 1)
      /\ Iterations[total] + 1 - k = n + 1
  <2>1. /\ n = Len(path) /\ Len(path') = n + 1 /\ total' = total
        /\ Iterations[total] \in Nat /\ n < Iterations[total]
    BY <1>a DEF Narrows
  <2> QED
    BY <1>b, <2>1
<1>2. Disputed = [left |-> l, right |-> l + 10 * m] /\ l + 10 * m <= total
  BY <1>a DEF Narrows
<1>3. Disputed' = [left |-> l + e * m, right |-> (l + e * m) + m]
  BY <1>a DEF Narrows
<1>4. /\ \A j \in 1..n : \A i : SlotLine(j, i)' = SlotLine(j, i)
      /\ \A i \in 1..9 : SlotLine(n + 1, i)' = l + i * m
  BY <1>a DEF Narrows
<1>5. PowerOfTen[k] = 10 * m /\ PowerOfTen[k - 1] = m
  BY <1>1, <1>a, <1>b DEF Narrows
<1>6. PICK a \in Nat : IsRange(k, a, l, m)
  BY <1>1, <1>2, <1>5, <1>b DEF RootsInv, IsRange
<1>7. k \in Nat \ {0}
  BY <1>1
<1>8. \A i \in 0..9 : TenthAt(k, a, l, m, i)
  BY <1>6, <1>7, TenthPlace
<1>9. \E b \in Nat : Disputed'.left = b * PowerOfTen[k - 1]
  BY <1>3, <1>8 DEF TenthAt
<1>10. total = PowerOfTen[Iterations[total]] /\ total \in Totals /\ total \in Nat
  BY TotalPower, DisputeAssumption DEF RoundsInv, PathTypes
<1>11. StateCommitmentByLine[total] = StateCommitments(total) /\ Noted(StateCommitments(total), Iterations[total], 0, total)
  <2>1. Noted(StateCommitments(total), Iterations[total], 0, total)
    BY <1>1, <1>10, CommitmentsNoted
  <2> QED
    BY <1>10, <2>1 DEF StateCommitmentByLine
<1>12. ASSUME NEW line, Revealed(line) PROVE Revealed(line)'
  <2>1. PICK c : c = StateCommitmentByLine[total][line]
    OBVIOUS
  <2>2. c.iteration \in 1..n /\ SlotLine(c.iteration, c.selection + 1) = line
    BY <1>1, <1>12, <2>1 DEF Revealed
  <2>3. SlotLine(c.iteration, c.selection + 1)' = line /\ c.iteration \in 1..(n + 1)
    BY <1>4, <2>2
  <2>4. StateCommitmentByLine' = StateCommitmentByLine
    BY DEF StateCommitmentByLine
  <2> QED
    BY <1>1, <2>1, <2>3, <2>4 DEF Revealed
<1>13. ASSUME NEW j \in 0..8, NEW line \in Nat, line = l + (j + 1) * m, line # 0, line # total, line <= total
       PROVE  Revealed(line)'
  <2>1. line = LineAt(k, a, j)
    <3>1. j \in 0..9
      OBVIOUS
    <3> QED
      BY <1>8, <1>13, <3>1 DEF TenthAt
  <2>2. StateCommitmentByLine[total][line] = Commitment(n + 1, j)
    <3>1. 0 < line /\ line < total
      BY <1>10, <1>13
    <3> QED
      BY <1>1, <1>11, <2>1, <3>1 DEF Noted
  <2>3. j + 1 \in 1..9 /\ n + 1 \in 1..(n + 1)
    OBVIOUS
  <2>4. SlotLine(n + 1, j + 1)' = line
    BY <1>4, <1>13, <2>3
  <2>5. StateCommitmentByLine' = StateCommitmentByLine
    BY DEF StateCommitmentByLine
  <2>6. (StateCommitmentByLine[total][line])' = Commitment(n + 1, j)
    BY <1>1, <2>2, <2>5
  <2> QED
    BY <1>1, <2>3, <2>4, <2>6 DEF Revealed, Commitment
<1>14. ASSUME NEW line \in {l, l + 10 * m}, line # 0, line # total PROVE Revealed(line)'
  <2>1. Revealed(line)
    BY <1>2, <1>14 DEF RootsInv, RootsRevealed, Revealed, Disputed
  <2> QED
    BY <1>12, <2>1
<1>15. ASSUME NEW line, line = l + e * m, line # 0, line # total PROVE Revealed(line)'
  <2>1. CASE e = 0
    <3>1. line = l
      BY <1>15, <2>1
    <3> QED
      BY <1>14, <1>15, <3>1
  <2>2. CASE e # 0
    <3>1. PICK j \in 0..8 : e = j + 1
      BY <2>2
    <3>2. line \in Nat /\ line <= total
      <4>1. TenthAt(k, a, l, m, e)
        BY <1>8
      <4>2. PICK x \in Nat : x = e * m /\ x <= 9 * m
        BY <4>1 DEF TenthAt
      <4> QED
        BY <1>2, <1>10, <1>15, <4>2
    <3>3. line = l + (j + 1) * m
      BY <1>15, <3>1
    <3> QED
      BY <1>13, <1>15, <3>2, <3>3
  <2> QED
    BY <2>1, <2>2
<1>16. ASSUME NEW line, line = (l + e * m) + m, line # 0, line # total PROVE Revealed(line)'
  <2>1. TenthAt(k, a, l, m, e)
    BY <1>8
  <2>2. CASE e = 9
    <3>1. line = l + 10 * m
      BY <1>16, <2>2
    <3> QED
      BY <1>14, <1>16, <3>1
  <2>3. CASE e # 9
    <3>1. e \in 0..8
      BY <2>3
    <3>2. line = l + (e + 1) * m
      BY <1>16, <2>1 DEF TenthAt
    <3>3. line \in Nat /\ line <= total
      <4>1. PICK x \in Nat : x = e * m /\ x <= 9 * m
        BY <2>1 DEF TenthAt
      <4> QED
        BY <1>2, <1>10, <1>16, <4>1
    <3> QED
      BY <1>13, <1>16, <3>1, <3>2, <3>3
  <2> QED
    BY <2>2, <2>3
<1>17. RootsRevealed'
  BY <1>1, <1>3, <1>15, <1>16 DEF RootsRevealed, Revealed, Disputed
<1> QED
  BY <1>1, <1>9, <1>17 DEF RootsInv

(***************************************************************************)
(* The other steps leave the range as it is, or start again.               *)
(***************************************************************************)
LEMMA RootsStep ==
    ASSUME PowersOfTen, RoundsInv, RootsInv, [Next]_vars PROVE RootsInv' \/ Cleared'
<1>1. CASE PublishSelect
  BY <1>1, SelectRoots
<1>2. CASE Refute
  BY <1>2 DEF Refute, Cleared, RoundsInv, PathTypes
<1>3. CASE UNCHANGED <<total, path>>
  <2>1. StateCommitmentByLine' = StateCommitmentByLine
    BY DEF StateCommitmentByLine
  <2> QED
    BY <1>3, <2>1 DEF RootsInv, RootsRevealed, Disputed, SlotLine
<1>4. CASE PublishState
  BY <1>3, <1>4 DEF PublishState
<1>5. CASE UNCHANGED vars
  BY <1>3, <1>5 DEF vars, disputeVars
<1>6. ASSUME NEW t \in running, FinishChunk(t) \/ FailChunk(t) \/ KillChunk(t) PROVE UNCHANGED <<total, path>>
  BY <1>6 DEF FinishChunk, FailChunk, KillChunk, disputeVars
<1>7. CASE StartChunk \/ CollectHashes \/ CompressNext
  BY <1>3, <1>7 DEF StartChunk, CollectHashes, CompressNext, disputeVars
<1> QED
  BY <1>1, <1>2, <1>3, <1>4, <1>5, <1>6, <1>7 DEF Next

(***************************************************************************)
(* The slot that the table of all lines gives for an end of the disputed   *)
(* range is the one that revealed it, for every program whose length is a  *)
(* power of ten: the hash scripts take the key of the right root.          *)
(***************************************************************************)
THEOREM RootsTable == PowersOfTen => (Spec => []RootsRevealed)
<1> SUFFICES ASSUME PowersOfTen PROVE Spec => []RootsRevealed
  OBVIOUS
<1>1. Init => Cleared
  BY DEF Init, Cleared
<1>2. Cleared => RoundsInv /\ RootsInv
  BY RoundsStart, RootsStart DEF Cleared
<1>3. RoundsInv /\ RootsInv /\ [Next]_vars => (RoundsInv' \/ Cleared') /\ (RootsInv' \/ Cleared')
  BY RoundsStep, RootsStep
<1>4. RootsInv => RootsRevealed
  BY DEF RootsInv
<1> QED
  BY <1>1, <1>2, <1>3, <1>4, PTL DEF Spec

-----------------------------------------------------------------------------
(* The pool of workers.                                                    *)

\* Every chunk is waiting, being worked on or done; those that wait are the
\* first ones, and what is done is where it belongs.
PoolInv ==
    /\ todo = [t \in 1..Len(todo) |-> t - 1] /\ Len(todo) \in 0..Chunks
    /\ stage = "dispute" => running \cup DOMAIN results = {}
    /\ stage # "dispute" => running \cup DOMAIN results = Len(todo)..(Chunks - 1)
    /\ running \cap DOMAIN results = {} /\ lost \subseteq running
    /\ results = [t \in DOMAIN results |-> t]
    /\ IsFiniteSet(running) /\ Cardinality(running) <= ParallelFactor

(***************************************************************************)
(* The hashes are those of the chunks in their order, each of them once,   *)
(* whichever worker finished first or failed: parallelize returns the      *)
(* results in the order of its inputs.                                     *)
(***************************************************************************)
HashesInOrder ==
    stage \in {"compress", "open"} =>
        hashes = FlattenSeq([t \in 1..Chunks |-> ChunkHashes(total, t - 1)])

CompressInv ==
    /\ stage \in {"dispute", "work", "compress", "open"}
    /\ failures \in 0..MaxFailures
    /\ "data" \in DOMAIN tree /\ \A i \in DOMAIN tree.data : Len(tree.data[i]) <= 1
    /\ HashesInOrder
    /\ asked.line \in 0..(total - 1)

(***************************************************************************)
(* When the pool starts, or starts again, all chunks wait.                 *)
(***************************************************************************)
LEMMA PoolStarts ==
    ASSUME StartPool, stage' = "work" PROVE PoolInv'
<1>1. Chunks \in Nat \ {0} /\ ParallelFactor \in Nat \ {0}
  BY DisputeAssumption
<1>2. /\ todo' = [t \in 1..Chunks |-> t - 1] /\ running' = {} /\ lost' = {}
      /\ DOMAIN results' = {} /\ results' = NoResults
  BY DEF StartPool, NoResults
<1>3. Len(todo') = Chunks
  BY <1>1, <1>2
<1>4. Chunks..(Chunks - 1) = {}
  BY <1>1
<1>5. results' = [t \in DOMAIN results' |-> t]
  BY <1>2 DEF NoResults
<1>6. IsFiniteSet(running') /\ Cardinality(running') <= ParallelFactor
  BY <1>1, <1>2, FS_EmptySet
<1> QED
  BY <1>1, <1>2, <1>3, <1>4, <1>5, <1>6 DEF PoolInv

(***************************************************************************)
(* A chunk that is started is the last one that waits.                     *)
(***************************************************************************)
LEMMA ChunkStarts ==
    ASSUME PoolInv, StartChunk PROVE PoolInv'
<1>a. PICK n : n = Len(todo)
  OBVIOUS
<1>1. /\ n \in 1..Chunks /\ Last(todo) = n - 1 /\ Chunks \in Nat /\ ParallelFactor \in Nat
      /\ todo = [t \in 1..n |-> t - 1] /\ todo # <<>>
  <2>1. n \in 0..Chunks /\ todo = [t \in 1..n |-> t - 1] /\ todo # <<>>
    BY <1>a DEF PoolInv, StartChunk
  <2>2. n # 0
    BY <2>1
  <2>3. Chunks \in Nat /\ ParallelFactor \in Nat
    BY DisputeAssumption
  <2>4. Last(todo) = n - 1
    BY <1>a, <2>1, <2>2, <2>3 DEF Last
  <2> QED
    BY <2>1, <2>2, <2>3, <2>4
<1>2. todo' = [t \in 1..(n - 1) |-> t - 1] /\ Len(todo') = n - 1
  <2>1. todo \in Seq(Nat)
    BY <1>1
  <2>2. todo' = SubSeq(todo, 1, n - 1)
    BY <1>a DEF StartChunk, Front
  <2>6. n \in Nat \ {0}
    BY <1>1
  <2>3. todo' \in Seq(Nat) /\ Len(todo') = n - 1 /\ \A t \in 1..(n - 1) : todo'[t] = todo[t]
    BY <1>a, <2>1, <2>2, <2>6
  <2>7. \A t \in 1..n : todo[t] = t - 1
    BY <1>1
  <2>4. \A t \in 1..(n - 1) : todo'[t] = t - 1
    BY <2>3, <2>6, <2>7
  <2>5. todo' = [t \in 1..(n - 1) |-> todo'[t]]
    BY <2>3
  <2> QED
    BY <2>3, <2>4, <2>5
<1>3. running' = running \cup {n - 1} /\ UNCHANGED <<lost, results, stage>> /\ stage # "dispute"
  BY <1>1 DEF StartChunk
<1>4. (n - 1)..(Chunks - 1) = (n..(Chunks - 1)) \cup {n - 1} /\ n - 1 \notin n..(Chunks - 1)
  BY <1>1
<1>5. running \cup DOMAIN results = n..(Chunks - 1)
  BY <1>3, <1>a DEF PoolInv
<1>6. IsFiniteSet(running') /\ Cardinality(running') <= ParallelFactor
  <2>1. /\ IsFiniteSet(running) /\ Cardinality(running) < ParallelFactor
        /\ n - 1 \notin running
    BY <1>4, <1>5 DEF PoolInv, StartChunk
  <2>2. Cardinality(running') = Cardinality(running) + 1 /\ IsFiniteSet(running')
    BY <1>3, <2>1, FS_AddElement
  <2>3. Cardinality(running) \in Nat
    BY <2>1, FS_CardinalityType
  <2> QED
    BY <1>1, <2>1, <2>2, <2>3
<1>7. Len(todo') \in 0..Chunks
  BY <1>1, <1>2
<1>8. running' \cup DOMAIN results' = Len(todo')..(Chunks - 1)
  BY <1>2, <1>3, <1>4, <1>5
<1>9. running' \cap DOMAIN results' = {}
  BY <1>3, <1>4, <1>5 DEF PoolInv
<1> QED
  BY <1>2, <1>3, <1>6, <1>7, <1>8, <1>9 DEF PoolInv

(***************************************************************************)
(* A chunk that is done is no longer worked on, and its hashes are put in  *)
(* the place of that chunk.                                                *)
(***************************************************************************)
LEMMA ChunkFinishes ==
    ASSUME PoolInv, NEW t \in running, FinishChunk(t) PROVE PoolInv'
<1>1. /\ running' = running \ {t} /\ UNCHANGED <<todo, stage>> /\ stage = "work"
      /\ results' = [i \in DOMAIN results \cup {t} |-> IF i = t THEN t ELSE results[i]]
  BY DEF FinishChunk
<1>2. DOMAIN results' = DOMAIN results \cup {t}
  BY <1>1
<1>3. results' = [i \in DOMAIN results' |-> i]
  BY <1>1, <1>2 DEF PoolInv
<1>4. IsFiniteSet(running') /\ Cardinality(running') <= ParallelFactor
  <2>1. IsFiniteSet(running) /\ Cardinality(running) <= ParallelFactor /\ ParallelFactor \in Nat
    BY DisputeAssumption DEF PoolInv
  <2>2. Cardinality(running') = Cardinality(running) - 1 /\ IsFiniteSet(running')
    BY <1>1, <2>1, FS_RemoveElement
  <2>3. Cardinality(running) \in Nat
    BY <2>1, FS_CardinalityType
  <2> QED
    BY <2>1, <2>2, <2>3
<1>5. running' \cup DOMAIN results' = running \cup DOMAIN results
  BY <1>1, <1>2
<1>6. running' \cap DOMAIN results' = {}
  BY <1>1, <1>2 DEF PoolInv
<1>7. lost' \subseteq running'
  BY <1>1 DEF PoolInv, FinishChunk
<1> QED
  BY <1>1, <1>3, <1>4, <1>5, <1>6, <1>7 DEF PoolInv

(***************************************************************************)
(* When as many chunks are done as there are, the results are those of all *)
(* chunks in their order.                                                  *)
(***************************************************************************)
LEMMA AllDone ==
    ASSUME PoolInv, stage = "work", Cardinality(DOMAIN results) = Chunks
    PROVE  \A t \in 0..(Chunks - 1) : results[t] = t
<1>1. DOMAIN results \subseteq Len(todo)..(Chunks - 1) /\ Len(todo) \in 0..Chunks /\ Chunks \in Nat \ {0}
  BY DisputeAssumption DEF PoolInv
<1>2. DOMAIN results \in SUBSET (0..(Chunks - 1))
  BY <1>1
<1>3. IsFiniteSet(0..(Chunks - 1)) /\ Cardinality(0..(Chunks - 1)) = Chunks
  <2>1. 0 \in Int /\ Chunks - 1 \in Int /\ ~(0 > Chunks - 1) /\ (Chunks - 1) - 0 + 1 = Chunks
    BY <1>1
  <2> QED
    BY <2>1, FS_Interval
<1>4. DOMAIN results = 0..(Chunks - 1)
  BY <1>2, <1>3, FS_Subset
<1> QED
  BY <1>4 DEF PoolInv

(***************************************************************************)
(* addHash leaves at most one hash of a level: those that met their        *)
(* sibling have gone up.                                                   *)
(***************************************************************************)
LEMMA OneOfALevel ==
    ASSUME NEW c, NEW hash, "data" \in DOMAIN c, \A i \in DOMAIN c.data : Len(c.data[i]) <= 1,
           NEW d, d = AddHash(c, hash)
    PROVE  "data" \in DOMAIN d /\ \A i \in DOMAIN d.data : Len(d.data[i]) <= 1
<1> DEFINE top == CHOOSE i \in Arrivals(c) : \A j \in Arrivals(c) : i <= j
           data == [i \in DOMAIN c.data |-> IF i = top THEN <<Arriving(c, hash, top)>>
                                            ELSE IF i > top THEN <<>> ELSE c.data[i]]
<1>1. DOMAIN d = DOMAIN c
  BY DEF AddHash
<1>2. d.data = data
  BY Zenon DEF AddHash
<1> HIDE DEF top
<1>3. \A x : Len(<<x>>) <= 1 /\ Len(<<>>) <= 1
  OBVIOUS
<1>4. ASSUME NEW i \in DOMAIN d.data PROVE Len(d.data[i]) <= 1
  <2>1. i \in DOMAIN c.data
    BY <1>2
  <2>2. d.data[i] = <<Arriving(c, hash, top)>> \/ d.data[i] = <<>> \/ d.data[i] = c.data[i]
    BY <1>2, <2>1
  <2> QED
    BY <1>3, <2>1, <2>2
<1> QED
  BY <1>1, <1>4

(***************************************************************************)
(* A new compressor has none.                                              *)
(***************************************************************************)
LEMMA NoneOfALevel ==
    ASSUME NEW count, NEW index, NEW c, c = Compressor(count, index)
    PROVE  "data" \in DOMAIN c /\ \A i \in DOMAIN c.data : Len(c.data[i]) <= 1
<1>1. DOMAIN c = {"depth", "indexToSave", "nextIndex", "data", "proof"} /\ \A i \in DOMAIN c.data : c.data[i] = <<>>
  BY DEF Compressor
<1>2. Len(<<>>) <= 1
  OBVIOUS
<1> QED
  BY <1>1, <1>2

(***************************************************************************)
(* Whatever the workers do, the pool keeps its books ...                   *)
(***************************************************************************)
LEMMA PoolStep ==
    ASSUME PoolInv, [Next]_vars PROVE PoolInv'
<1>1. CASE Refute
  BY <1>1, PoolStarts DEF Refute
<1>2. CASE StartChunk
  BY <1>2, ChunkStarts
<1>3. ASSUME NEW t \in running, FinishChunk(t) PROVE PoolInv'
  BY <1>3, ChunkFinishes
<1>4. ASSUME NEW t \in running, FailChunk(t) PROVE PoolInv'
  <2>1. StartPool /\ stage' = "work"
    BY <1>4 DEF FailChunk
  <2> QED
    BY <2>1, PoolStarts
<1>5. CASE CollectHashes \/ CompressNext
  <2>1. UNCHANGED <<todo, running, lost, results>> /\ stage # "dispute" /\ stage' # "dispute"
    BY <1>5 DEF CollectHashes, CompressNext, poolVars
  <2> QED
    BY <2>1 DEF PoolInv
<1>6. CASE PublishState \/ PublishSelect \/ UNCHANGED vars
  <2>1. UNCHANGED <<todo, running, lost, results, stage>>
    BY <1>6 DEF PublishState, PublishSelect, vars, poolVars
  <2> QED
    BY <2>1 DEF PoolInv
<1>7. ASSUME NEW t \in running, KillChunk(t) PROVE PoolInv'
  <2>1. UNCHANGED <<todo, running, results, stage>> /\ lost' = lost \cup {t}
    BY <1>7 DEF KillChunk
  <2> QED
    BY <2>1 DEF PoolInv
<1> QED
  BY <1>1, <1>2, <1>3, <1>4, <1>5, <1>6, <1>7 DEF Next

(***************************************************************************)
(* ... and the compressor gets the hashes of all chunks in their order,    *)
(* for a line of the program.                                              *)
(***************************************************************************)
LEMMA CompressStep ==
    ASSUME PowersOfTen, RoundsInv, PoolInv, CompressInv, [Next]_vars PROVE CompressInv'
<1>1. CASE Refute
  <2>1. UNCHANGED <<total, tree, failures>> /\ stage' = "work" /\ asked' \in Refutations
    BY <1>1 DEF Refute
  <2>2. asked'.line = Disputed.left
    BY <2>1 DEF Refutations, Instr, HashOf, GetLineBySelectionPath, Disputed
  <2>3. Disputed.left \in 0..(total - 1)
    <3>1. /\ Disputed.left \in Nat /\ Disputed.right \in Nat
          /\ Disputed.left < Disputed.right /\ Disputed.right <= total /\ total \in Nat
      <4>1. total \in Nat /\ Iterations[total] \in Nat /\ Len(path) \in Nat /\ Len(path) <= Iterations[total]
        BY TotalPower, DisputeAssumption DEF RoundsInv, PathTypes
      <4>2. PowerOfTen[Iterations[total] - Len(path)] \in Nat
        BY <4>1, PowerNat
      <4>3. Disputed.left < Disputed.right
        BY DEF RoundsInv, RangeContested, Disputed
      <4> QED
        BY <4>1, <4>2, <4>3 DEF RoundsInv, RangeExact
    <3> QED
      BY <3>1
  <2>4. HashesInOrder'
    BY <2>1 DEF HashesInOrder
  <2> QED
    BY <2>1, <2>2, <2>3, <2>4 DEF CompressInv
<1>2. CASE CollectHashes
  <2>1. /\ UNCHANGED <<total, asked, failures>> /\ stage' = "compress" /\ stage = "work"
        /\ hashes' = FlattenSeq([t \in 1..Chunks |-> ChunkHashes(total, results[t - 1])])
        /\ tree' = Compressor(GetMaxRefutationIndex, GetRefutationIndex(asked))
        /\ Cardinality(DOMAIN results) = Chunks
    BY <1>2 DEF CollectHashes, disputeVars
  <2>2. \A t \in 1..Chunks : results[t - 1] = t - 1
    <3>1. \A t \in 1..Chunks : t - 1 \in 0..(Chunks - 1)
      BY DisputeAssumption
    <3> QED
      BY <2>1, <3>1, AllDone
  <2>3. [t \in 1..Chunks |-> ChunkHashes(total, results[t - 1])] = [t \in 1..Chunks |-> ChunkHashes(total, t - 1)]
    BY <2>2
  <2>4. HashesInOrder'
    BY <2>1, <2>3 DEF HashesInOrder
  <2>5. "data" \in DOMAIN tree' /\ \A i \in DOMAIN tree'.data : Len(tree'.data[i]) <= 1
    BY <2>1, NoneOfALevel
  <2> QED
    BY <2>1, <2>4, <2>5 DEF CompressInv
<1>3. CASE CompressNext
  <2>1. UNCHANGED <<total, asked, failures, hashes>> /\ stage = "compress" /\ stage' \in {"compress", "open"}
    BY <1>3 DEF CompressNext, disputeVars
  <2>2. tree' = tree \/ \E hash : tree' = AddHash(tree, hash)
    BY <1>3 DEF CompressNext
  <2>3. "data" \in DOMAIN tree' /\ \A i \in DOMAIN tree'.data : Len(tree'.data[i]) <= 1
    BY <2>2, OneOfALevel DEF CompressInv
  <2>4. HashesInOrder'
    BY <2>1 DEF HashesInOrder, CompressInv
  <2> QED
    BY <2>1, <2>3, <2>4 DEF CompressInv
<1>4. ASSUME NEW t \in running, FinishChunk(t) \/ FailChunk(t) \/ KillChunk(t) PROVE CompressInv'
  <2>1. /\ UNCHANGED <<total, asked, tree, stage>> /\ stage = "work"
        /\ failures' = failures \/ (failures < MaxFailures /\ failures' = failures + 1)
    BY <1>4 DEF FinishChunk, FailChunk, KillChunk, disputeVars
  <2>2. HashesInOrder'
    BY <2>1 DEF HashesInOrder
  <2>3. failures' \in 0..MaxFailures
    BY <2>1, DisputeAssumption DEF CompressInv
  <2> QED
    BY <2>1, <2>2, <2>3 DEF CompressInv
<1>5. CASE StartChunk \/ PublishState \/ PublishSelect \/ UNCHANGED vars
  <2>1. UNCHANGED <<total, asked, tree, stage, hashes, failures>>
    BY <1>5 DEF StartChunk, PublishState, PublishSelect, vars, disputeVars
  <2>2. HashesInOrder'
    BY <2>1 DEF HashesInOrder, CompressInv
  <2> QED
    BY <2>1, <2>2 DEF CompressInv
<1> QED
  BY <1>1, <1>2, <1>3, <1>4, <1>5 DEF Next

(***************************************************************************)
(* HashesInOrder: the hashes are those of the chunks in their order, each  *)
(* of them once, whichever worker finished first or failed.  The books of  *)
(* the pool, and the rounds before it, hold in every state.                *)
(***************************************************************************)
THEOREM PoolInvariant == PowersOfTen => (Spec => [](RoundsInv /\ PoolInv /\ CompressInv /\ HashesInOrder))
<1> SUFFICES ASSUME PowersOfTen PROVE Spec => [](RoundsInv /\ PoolInv /\ CompressInv /\ HashesInOrder)
  OBVIOUS
<1>1. Init => PoolInv /\ CompressInv
  <2> SUFFICES ASSUME Init PROVE PoolInv /\ CompressInv
    OBVIOUS
  <2>1. PoolInv
    <3>1. todo = [t \in 1..Len(todo) |-> t - 1] /\ Len(todo) \in 0..Chunks
      <4>1. todo = <<>> /\ Len(todo) = 0 /\ Chunks \in Nat
        BY DisputeAssumption DEF Init
      <4>2. <<>> = [t \in 1..0 |-> t - 1]
        OBVIOUS
      <4> QED
        BY <4>1, <4>2
    <3>2. results = [t \in DOMAIN results |-> t] /\ DOMAIN results = {}
      BY DEF Init, NoResults
    <3>3. IsFiniteSet(running) /\ Cardinality(running) <= ParallelFactor
      BY FS_EmptySet, DisputeAssumption DEF Init
    <3> QED
      BY <3>1, <3>2, <3>3 DEF Init, PoolInv
  <2>2. "data" \in DOMAIN tree /\ \A i \in DOMAIN tree.data : Len(tree.data[i]) <= 1
    BY NoneOfALevel DEF Init, NoTree
  <2>3. HashesInOrder
    BY DEF Init, HashesInOrder
  <2>4. asked.line \in 0..(total - 1)
    BY DisputeAssumption DEF Init, NoRefutation, Instr
  <2>5. failures \in 0..MaxFailures
    BY DisputeAssumption DEF Init
  <2> QED
    BY <2>1, <2>2, <2>3, <2>4, <2>5 DEF Init, CompressInv
<1>2. RoundsInv /\ PoolInv /\ CompressInv /\ [Next]_vars => PoolInv' /\ CompressInv'
  BY PoolStep, CompressStep
<1>3. CompressInv => HashesInOrder
  BY DEF CompressInv
<1> QED
  BY <1>1, <1>2, <1>3, RoundsInvariant, PTL DEF Spec

(***************************************************************************)
(* TypeOK: a STATE and a SELECT take turns, what is asked is about a line  *)
(* of the program, no more chunks are worked on than may be, none of them  *)
(* twice, and the compressor never holds two hashes of a level.            *)
(***************************************************************************)
THEOREM DisputeTypeCorrect == PowersOfTen => (Spec => []TypeOK)
<1>1. RoundsInv /\ PoolInv /\ CompressInv => TypeOK
  <2> SUFFICES ASSUME RoundsInv, PoolInv, CompressInv PROVE TypeOK
    OBVIOUS
  <2>1. running \cap Range(todo) = {}
    <3>1. Range(todo) \subseteq 0..(Len(todo) - 1)
      BY DEF Range, PoolInv
    <3>2. running \subseteq Len(todo)..(Chunks - 1)
      BY DEF PoolInv, CompressInv
    <3> QED
      BY <3>1, <3>2, DisputeAssumption DEF PoolInv
  <2> QED
    BY <2>1 DEF TypeOK, RoundsInv, PathTypes, PoolInv, CompressInv
<1> QED
  BY <1>1, PoolInvariant, PTL

-----------------------------------------------------------------------------
(* The tree of all scripts.                                                *)

Depth == Log2(GetMaxRefutationIndex)

\* The scripts of the program, and the last one until the tree is full.
Leaves(n) ==
    [i \in 1..PowerOfTwo[Depth] |->
        ScriptTable[n][IF i <= GetMaxRefutationIndex THEN i - 1 ELSE GetMaxRefutationIndex - 1]]

\* A refutation the verifier can want.
Askable(r) ==
    \E line \in Nat : \/ r = Instr(line)
                      \/ \E p \in 0..2, o \in 0..(TotalRefutationHashOptions - 1) : r = HashOf(line, p, o)

\* The compressor keeps to the tree, if what it is to save is in it.
TreeInv ==
    /\ Askable(asked)
    /\ stage \in {"compress", "open"} /\ GetRefutationIndex(asked) < PowerOfTwo[Depth] =>
          /\ tree.indexToSave = GetRefutationIndex(asked)
          /\ CompressorHolds(tree, Leaves(total), Depth)
          /\ stage = "open" => Complete(tree)

\* The index of a refutation of the lines past the last one with scripts is
\* past that of all scripts; it is the padding that has room for it.  (The
\* agents have 8800029 scripts, padded to 16777216.)
EnoughLeaves ==
    ScriptTotalLines + ScriptTotalLines * PerLine + PerLine <= PowerOfTwo[Depth]

(***************************************************************************)
(* There are scripts, enough chunks for them, and a tree to hold them.     *)
(***************************************************************************)
LEMMA Sizes ==
    /\ {ScriptTotalLines, TotalRefutationHashOptions, Chunks} \subseteq Nat \ {0}
    /\ PerLine \in Nat /\ PerLine = 3 * TotalRefutationHashOptions
    /\ ScriptTotalLines * PerLine \in Nat
    /\ GetMaxRefutationIndex \in Nat \ {0}
    /\ ChunkSize \in Nat /\ GetMaxRefutationIndex <= Chunks * ChunkSize
    /\ Depth \in Nat /\ PowerOfTwo[Depth] \in Nat /\ GetMaxRefutationIndex <= PowerOfTwo[Depth]
<1>1. /\ {ScriptTotalLines, TotalRefutationHashOptions, Chunks} \subseteq Nat \ {0}
      /\ PerLine \in Nat /\ PerLine = 3 * TotalRefutationHashOptions
  BY DisputeAssumption DEF PerLine
<1>2. ScriptTotalLines * PerLine \in Nat
  BY <1>1
<1>3. PICK m \in Nat \ {0} : m = GetMaxRefutationIndex
  <2>1. \A x \in Nat : ScriptTotalLines + x + TotalRefutationHashOptions \in Nat \ {0}
    BY <1>1
  <2> QED
    BY <1>2, <2>1 DEF GetMaxRefutationIndex
<1>4. ChunkSize \in Nat /\ m <= Chunks * ChunkSize
  <2>1. PICK c \in Nat : c = Chunks /\ 0 < c
    BY <1>1
  <2>2. PICK s \in Nat, r \in 0..(c - 1) : (m + c - 1) \div c = s /\ (m + c - 1) % c = r /\ m + c - 1 = s * c + r
    <3>1. m + c - 1 \in Nat
      BY <2>1
    <3> QED
      BY <2>1, <3>1, DivMod
  <2>3. ChunkSize = s
    BY <1>3, <2>1, <2>2 DEF ChunkSize
  <2>4. m <= s * c /\ s * c = c * s
    <3>1. PICK x \in Nat : x = s * c /\ m + c - 1 = x + r
      BY <2>2
    <3>2. m <= x
      BY <2>1, <3>1
    <3>3. s * c = c * s
      OBVIOUS
    <3> QED
      BY <3>1, <3>2, <3>3
  <2> QED
    BY <2>1, <2>3, <2>4
<1>5. Depth \in Nat /\ PowerOfTwo[Depth] \in Nat /\ m <= PowerOfTwo[Depth]
  <2>1. Depth \in Nat /\ PowerOfTwo[Depth] >= m
    BY <1>3, TwoLog DEF Depth
  <2> QED
    BY <2>1, TwoNat
<1> QED
  BY <1>1, <1>2, <1>3, <1>4, <1>5

(***************************************************************************)
(* The chunks in their order are all scripts in theirs.                    *)
(***************************************************************************)
LEMMA AllScripts ==
    ASSUME NEW n
    PROVE  FlattenSeq([t \in 1..Chunks |-> ChunkHashes(n, t - 1)])
           = [k \in 1..GetMaxRefutationIndex |-> ScriptTable[n][k - 1]]
<1>1. PICK chunks : chunks = [t \in 1..Chunks |-> ChunkHashes(n, t - 1)]
  OBVIOUS
<1>2. PICK all \in Nat : all = GetMaxRefutationIndex
  BY Sizes
<1>3. PICK size \in Nat : size = ChunkSize
  BY Sizes
<1>4. PICK count \in Nat : count = Chunks /\ 0 < count /\ all <= count * size
  BY <1>2, <1>3, Sizes
<1>5. PICK g : g = ScriptTable[n]
  OBVIOUS
<1>6. Len(chunks) = count
  BY <1>1, <1>4
<1>7. ASSUME NEW t \in 1..count
      PROVE  chunks[t] = [k \in 1..(UpTo(t, size, all) - (t - 1) * size) |-> g[(t - 1) * size + k - 1]]
  <2>1. chunks[t] = ChunkHashes(n, t - 1)
    BY <1>1, <1>4
  <2>2. (t - 1) + 1 = t
    OBVIOUS
  <2>3. ChunkEnd(t - 1) = UpTo(t, size, all)
    BY <1>2, <1>3, <2>2 DEF ChunkEnd, UpTo
  <2> QED
    BY <1>3, <1>5, <2>1, <2>3 DEF ChunkHashes
<1>8. FlattenSeq(chunks) = [k \in 1..all |-> g[k - 1]]
  <2>1. Chunked(chunks, count, size, all, g)
    BY <1>6, <1>7 DEF Chunked
  <2> QED
    BY <1>4, <2>1, ChunksTogether
<1> QED
  BY <1>1, <1>2, <1>5, <1>8

(***************************************************************************)
(* The index of a refutation that has a script is that of its script.      *)
(***************************************************************************)
LEMMA IndexOfScript ==
    ASSUME NEW r, Askable(r), r.line < ScriptTotalLines
    PROVE  /\ GetRefutationIndex(r) \in 0..(GetMaxRefutationIndex - 1)
           /\ GetRefutationDescriptor(GetRefutationIndex(r)) = r
<1>a. PICK s \in Nat : s = ScriptTotalLines /\ 0 < s
  BY Sizes
<1>b. PICK n \in Nat : n = TotalRefutationHashOptions /\ 0 < n
  BY Sizes
<1>c. PICK w \in Nat : w = PerLine /\ w = 3 * n /\ 0 < w
  BY <1>b, Sizes
<1>1. CASE \E line \in Nat : r = Instr(line)
  <2>1. PICK line \in Nat : r = Instr(line)
    BY <1>1
  <2>2. r.line = line /\ r.refutationType = "INSTR" /\ line < s
    BY <1>a, <2>1 DEF Instr
  <2>3. GetRefutationIndex(r) = line
    BY <1>a, <2>2 DEF GetRefutationIndex
  <2>4. line <= GetMaxRefutationIndex - 1
    <3>1. PICK x \in Nat : x = s * w
      OBVIOUS
    <3>2. GetMaxRefutationIndex = s + x + n
      BY <1>a, <1>b, <1>c, <3>1 DEF GetMaxRefutationIndex
    <3> QED
      BY <1>b, <2>2, <3>2
  <2>5. GetRefutationDescriptor(line) = Instr(line)
    BY <1>a, <2>2 DEF GetRefutationDescriptor
  <2> QED
    BY <2>1, <2>3, <2>4, <2>5, Sizes
<1>2. CASE \E line \in Nat, p \in 0..2, o \in 0..(TotalRefutationHashOptions - 1) : r = HashOf(line, p, o)
  <2>1. PICK line \in Nat, p \in 0..2, o \in 0..(n - 1) : r = HashOf(line, p, o)
    BY <1>2, <1>b
  <2>2. /\ r.line = line /\ r.refutationType = "HASH" /\ r.whichProof = p /\ r.whichHashOption = o
        /\ line < s
    BY <1>a, <2>1 DEF HashOf
  <2>3. PICK x \in Nat : x = line * w
    OBVIOUS
  <2>4. PICK y \in Nat : y = p * n
    OBVIOUS
  <2>5. y + o \in 0..(w - 1)
    <3>1. p = 0 \/ p = 1 \/ p = 2
      OBVIOUS
    <3>2. y = 0 \/ y = n \/ y = 2 * n
      BY <2>4, <3>1
    <3> QED
      BY <1>b, <1>c, <3>2
  <2>6. GetRefutationIndex(r) = s + x + y + o
    <3>1. GetRefutationIndex(r) = s + line * w + p * n + o
      BY <1>a, <1>b, <1>c, <2>2 DEF GetRefutationIndex
    <3> QED
      BY <2>3, <2>4, <3>1
  <2>7. s + x + y + o <= GetMaxRefutationIndex - 1
    <3>1. PICK z \in Nat : z = s * w
      OBVIOUS
    <3>2. x + w <= z
      <4>1. (line + 1) * w <= s * w
        BY <2>2
      <4>2. (line + 1) * w = x + w
        BY <2>3
      <4> QED
        BY <3>1, <4>1, <4>2
    <3>3. GetMaxRefutationIndex = s + z + n
      BY <1>a, <1>b, <1>c, <3>1 DEF GetMaxRefutationIndex
    <3> QED
      BY <1>b, <2>5, <3>2, <3>3
  <2>8. PICK index \in Nat : index = s + x + y + o
    BY <2>5
  <2>9. GetRefutationDescriptor(index) = HashOf(line, p, o)
    <3>1. PICK rest \in Nat : rest = index - s /\ rest = x + (y + o) /\ ~(index < s)
      BY <2>5, <2>8
    <3>2. PICK inLine \in 0..(w - 1) : inLine = y + o
      BY <2>5
    <3>3. rest \div w = line /\ rest % w = inLine
      <4>1. rest = line * w + inLine
        BY <2>3, <3>1, <3>2
      <4> QED
        BY <1>c, <4>1, DivOf
    <3>4. inLine \div n = p /\ inLine % n = o
      <4>1. inLine = p * n + o /\ p \in Nat
        BY <2>4, <3>2
      <4> QED
        BY <1>b, <4>1, DivOf
    <3> QED
      BY <1>a, <1>b, <1>c, <3>1, <3>3, <3>4 DEF GetRefutationDescriptor
  <2> QED
    BY <2>1, <2>6, <2>7, <2>8, <2>9, Sizes
<1> QED
  BY <1>1, <1>2 DEF Askable

(***************************************************************************)
(* No index is past the padding, if it is enough.                          *)
(***************************************************************************)
LEMMA IndexInTree ==
    ASSUME NEW r, Askable(r)
    PROVE  /\ GetRefutationIndex(r) \in Nat
           /\ EnoughLeaves => GetRefutationIndex(r) < PowerOfTwo[Depth]
<1>a. PICK s \in Nat : s = ScriptTotalLines /\ 0 < s
  BY Sizes
<1>b. PICK n \in Nat : n = TotalRefutationHashOptions /\ 0 < n
  BY Sizes
<1>c. PICK w \in Nat : w = PerLine /\ w = 3 * n /\ 0 < w
  BY <1>b, Sizes
<1>d. PICK all \in Nat : all = PowerOfTwo[Depth]
  BY Sizes
<1>e. PICK z \in Nat : z = s * w
  OBVIOUS
<1>1. EnoughLeaves => s + z + w <= all
  BY <1>a, <1>c, <1>d, <1>e DEF EnoughLeaves
<1>2. PICK line \in Nat : /\ r.line = line
                          /\ \/ r.refutationType = "INSTR"
                             \/ \E p \in 0..2, o \in 0..(n - 1) :
                                   r.refutationType = "HASH" /\ r.whichProof = p /\ r.whichHashOption = o
  BY <1>b DEF Askable, Instr, HashOf
<1>3. PICK capped \in 0..s : capped = IF r.line < ScriptTotalLines THEN r.line ELSE ScriptTotalLines
  BY <1>a, <1>2
<1>4. PICK x \in Nat : x = capped * w /\ x <= z
  BY <1>c, <1>e
<1>5. CASE r.refutationType = "INSTR"
  <2>1. GetRefutationIndex(r) = capped
    BY <1>3, <1>5 DEF GetRefutationIndex
  <2> QED
    BY <1>1, <1>a, <1>c, <1>d, <2>1
<1>6. CASE \E p \in 0..2, o \in 0..(n - 1) : r.refutationType = "HASH" /\ r.whichProof = p /\ r.whichHashOption = o
  <2>1. PICK p \in 0..2, o \in 0..(n - 1) : r.refutationType = "HASH" /\ r.whichProof = p /\ r.whichHashOption = o
    BY <1>6
  <2>2. PICK y \in Nat : y = p * n
    OBVIOUS
  <2>3. y + o < w
    <3>1. p = 0 \/ p = 1 \/ p = 2
      OBVIOUS
    <3>2. y = 0 \/ y = n \/ y = 2 * n
      BY <2>2, <3>1
    <3> QED
      BY <1>b, <1>c, <3>2
  <2>4. GetRefutationIndex(r) = s + x + y + o
    <3>1. GetRefutationIndex(r) = s + capped * w + p * n + o
      BY <1>3, <1>a, <1>b, <1>c, <2>1 DEF GetRefutationIndex
    <3> QED
      BY <1>4, <2>2, <3>1
  <2> QED
    BY <1>1, <1>4, <1>d, <2>3, <2>4
<1> QED
  BY <1>2, <1>5, <1>6

(***************************************************************************)
(* When the hashes have been collected they are the scripts of the program *)
(* and the last one as often as it takes, which is how they are padded.    *)
(***************************************************************************)
LEMMA LeavesOf ==
    ASSUME HashesInOrder, stage \in {"compress", "open"}
    PROVE  /\ hashes = [k \in 1..GetMaxRefutationIndex |-> ScriptTable[total][k - 1]]
           /\ Leaves(total) = [i \in 1..PowerOfTwo[Depth] |->
                                  IF i <= Len(hashes) THEN hashes[i] ELSE Last(hashes)]
           /\ Full(Leaves(total), Depth)
<1>1. hashes = [k \in 1..GetMaxRefutationIndex |-> ScriptTable[total][k - 1]]
  BY AllScripts DEF HashesInOrder
<1>2. PICK m \in Nat \ {0} : m = GetMaxRefutationIndex
  BY Sizes
<1>3. Len(hashes) = m /\ Last(hashes) = ScriptTable[total][m - 1]
  <2>1. Len(hashes) = m
    BY <1>1, <1>2
  <2>2. hashes[m] = ScriptTable[total][m - 1]
    BY <1>1, <1>2
  <2> QED
    BY <2>1, <2>2 DEF Last
<1>4. ASSUME NEW i \in 1..PowerOfTwo[Depth]
      PROVE  Leaves(total)[i] = IF i <= Len(hashes) THEN hashes[i] ELSE Last(hashes)
  <2>1. i \in Nat /\ 1 <= i
    BY Sizes
  <2>2. i <= m => hashes[i] = ScriptTable[total][i - 1]
    BY <1>1, <1>2, <2>1
  <2> QED
    BY <1>2, <1>3, <2>1, <2>2 DEF Leaves
<1>5. Leaves(total) = [i \in 1..PowerOfTwo[Depth] |-> IF i <= Len(hashes) THEN hashes[i] ELSE Last(hashes)]
  BY <1>4 DEF Leaves
<1>6. Full(Leaves(total), Depth)
  BY Sizes DEF Full, Leaves
<1> QED
  BY <1>1, <1>5, <1>6

(***************************************************************************)
(* The compressor starts with the index of the refutation and is given     *)
(* the leaves of the tree in their order.                                  *)
(***************************************************************************)
LEMMA TreeStep ==
    ASSUME RoundsInv, CompressInv, CompressInv', TreeInv, [Next]_vars,
           stage = "dispute" => Disputed.left \in Nat
    PROVE  TreeInv'
<1>1. CASE Refute
  <2>1. asked' \in Refutations /\ stage' = "work" /\ stage = "dispute"
    BY <1>1 DEF Refute
  <2>2. Askable(asked')
    <3>1. PICK line \in Nat : line = Disputed.left
      BY <2>1
    <3>2. GetLineBySelectionPath(total, path) = line
      BY <3>1 DEF GetLineBySelectionPath, Disputed
    <3>3. TotalRefutationProofs - 1 = 2
      BY DisputeAssumption
    <3> QED
      BY <2>1, <3>2, <3>3 DEF Refutations, Askable
  <2> QED
    BY <2>1, <2>2 DEF TreeInv
<1>2. CASE CollectHashes
  <2>1. /\ UNCHANGED <<total, asked>> /\ stage' = "compress"
        /\ tree' = Compressor(GetMaxRefutationIndex, GetRefutationIndex(asked))
    BY <1>2 DEF CollectHashes, disputeVars
  <2>2. ASSUME GetRefutationIndex(asked) < PowerOfTwo[Depth]
        PROVE  tree'.indexToSave = GetRefutationIndex(asked) /\ CompressorHolds(tree', Leaves(total), Depth)
    <3>1. PICK x : x = GetRefutationIndex(asked)
      OBVIOUS
    <3>2. x \in 0..(PowerOfTwo[Depth] - 1)
      BY <2>2, <3>1, IndexInTree, Sizes DEF TreeInv
    <3>3. Full(Leaves(total), Depth)
      BY Sizes DEF Full, Leaves
    <3>4. CompressorHolds(Compressor(GetMaxRefutationIndex, x), Leaves(total), Depth)
      BY <3>2, <3>3, CompressorStarts DEF Depth
    <3>5. tree'.indexToSave = x
      BY <2>1, <3>1 DEF Compressor
    <3> QED
      BY <2>1, <3>1, <3>4, <3>5
  <2>3. (stage # "open")'
    BY <2>1
  <2> QED
    BY <2>1, <2>2, <2>3 DEF TreeInv
<1>3. CASE CompressNext
  <2>1. /\ UNCHANGED <<total, asked, hashes>> /\ stage = "compress"
        /\ IF Complete(tree) THEN stage' = "open" /\ UNCHANGED tree
           ELSE /\ tree' = AddHash(tree, IF tree.nextIndex < Len(hashes) THEN hashes[tree.nextIndex + 1]
                                         ELSE Last(hashes))
                /\ UNCHANGED stage
    BY <1>3 DEF CompressNext, disputeVars
  <2>2. CASE Complete(tree)
    BY <2>1, <2>2 DEF TreeInv
  <2>3. CASE ~Complete(tree)
    <3>1. stage' = "compress" /\ (stage # "open")'
      BY <2>1, <2>3
    <3>2. ASSUME GetRefutationIndex(asked) < PowerOfTwo[Depth]
          PROVE  tree'.indexToSave = GetRefutationIndex(asked) /\ CompressorHolds(tree', Leaves(total), Depth)
      <4>1. tree.indexToSave = GetRefutationIndex(asked) /\ CompressorHolds(tree, Leaves(total), Depth)
        BY <2>1, <3>2 DEF TreeInv
      <4>2. /\ Full(Leaves(total), Depth)
            /\ Leaves(total) = [i \in 1..PowerOfTwo[Depth] |->
                                   IF i <= Len(hashes) THEN hashes[i] ELSE Last(hashes)]
            /\ Len(hashes) \in Nat
        <5>1. hashes = [k \in 1..GetMaxRefutationIndex |-> ScriptTable[total][k - 1]]
          BY <2>1, LeavesOf DEF CompressInv
        <5>2. Len(hashes) \in Nat
          BY <5>1, Sizes
        <5> QED
          BY <2>1, <5>2, LeavesOf DEF CompressInv
      <4>3. PICK n \in 0..(PowerOfTwo[Depth] - 1) : n = tree.nextIndex
        <5>1. tree.depth = Depth + 1 /\ tree.nextIndex \in 0..PowerOfTwo[Depth]
          BY <4>1 DEF CompressorHolds
        <5>4. \A all \in Nat : \A m \in 0..all : m # all => m \in 0..(all - 1)
          OBVIOUS
        <5>2. tree.depth - 1 = Depth
          BY <5>1, Sizes
        <5>3. tree.nextIndex # PowerOfTwo[Depth]
          BY <2>3, <5>2 DEF Complete
        <5>5. tree.nextIndex \in 0..(PowerOfTwo[Depth] - 1)
          BY <5>1, <5>3, <5>4, Sizes, Zenon
        <5> QED
          BY <5>5
      <4>4. Leaves(total)[n + 1] = IF n < Len(hashes) THEN hashes[n + 1] ELSE Last(hashes)
        <5>1. PICK all \in Nat, len \in Nat : all = PowerOfTwo[Depth] /\ len = Len(hashes)
          BY <4>2, Sizes
        <5>2. n \in 0..(all - 1)
          BY <5>1
        <5>3. n + 1 \in 1..all /\ (n + 1 <= len <=> n < len)
          BY <5>2
        <5> QED
          BY <4>2, <5>1, <5>3
      <4>5. tree' = AddHash(tree, Leaves(total)[n + 1])
        BY <2>1, <2>3, <4>3, <4>4
      <4> QED
        BY <2>3, <4>1, <4>2, <4>3, <4>5, AddsHash
    <3> QED
      BY <2>1, <3>1, <3>2 DEF TreeInv
  <2> QED
    BY <2>2, <2>3
<1>4. ASSUME NEW t \in running, FinishChunk(t) \/ FailChunk(t) \/ KillChunk(t) PROVE TreeInv'
  <2>1. UNCHANGED <<total, asked, tree, stage>>
    BY <1>4 DEF FinishChunk, FailChunk, KillChunk, disputeVars
  <2> QED
    BY <2>1 DEF TreeInv, Complete
<1>5. CASE StartChunk \/ PublishState \/ PublishSelect \/ UNCHANGED vars
  <2>1. UNCHANGED <<total, asked, tree, stage>>
    BY <1>5 DEF StartChunk, PublishState, PublishSelect, vars, disputeVars
  <2> QED
    BY <2>1 DEF TreeInv, Complete
<1> QED
  BY <1>1, <1>2, <1>3, <1>4, <1>5 DEF Next

(***************************************************************************)
(* In every state the compressor holds what there is of the tree of all    *)
(* scripts, padded, after the leaves it was given.                         *)
(***************************************************************************)
THEOREM TreeInvariant == PowersOfTen => (Spec => [](RoundsInv /\ CompressInv /\ TreeInv))
<1> SUFFICES ASSUME PowersOfTen PROVE Spec => [](RoundsInv /\ CompressInv /\ TreeInv)
  OBVIOUS
<1>1. Init => TreeInv
  <2> SUFFICES ASSUME Init PROVE TreeInv
    OBVIOUS
  <2>1. stage = "dispute" /\ asked = Instr(0)
    BY DEF Init, NoRefutation
  <2>2. 0 \in Nat
    OBVIOUS
  <2> QED
    BY <2>1, <2>2 DEF TreeInv, Askable
<1>2. RoundsInv /\ CompressInv /\ CompressInv' /\ TreeInv /\ [Next]_vars => TreeInv'
  <2>1. RoundsInv => Disputed.left \in Nat
    BY DEF RoundsInv, RangeExact
  <2> QED
    BY <2>1, TreeStep
<1>3. Spec => [](RoundsInv /\ PoolInv /\ CompressInv /\ HashesInOrder)
  BY PoolInvariant
<1> QED
  BY <1>1, <1>2, <1>3, PTL DEF Spec

(***************************************************************************)
(* ControlBlockOpens: what the node computes from the script of the        *)
(* refutation and the control block is the root of the tree, whatever the  *)
(* order in which the workers finished.                                    *)
(***************************************************************************)
THEOREM ControlBlock == PowersOfTen => (Spec => []ControlBlockOpens)
<1>1. RoundsInv /\ CompressInv /\ TreeInv => ControlBlockOpens
  <2> SUFFICES ASSUME RoundsInv, CompressInv, TreeInv, stage = "open", asked.line < ScriptTotalLines
               PROVE  /\ DOMAIN tree.proof = 0..(tree.depth - 2)
                      /\ OpenedRoot(CreateRefutationScript(total, asked),
                                    [i \in 1..(tree.depth - 1) |-> tree.proof[i - 1]]) = Root(tree)
    BY DEF ControlBlockOpens, Opens
  <2>1. PICK x : x = GetRefutationIndex(asked)
    OBVIOUS
  <2>2. x \in 0..(GetMaxRefutationIndex - 1) /\ GetRefutationDescriptor(x) = asked
    BY <2>1, IndexOfScript DEF TreeInv
  <2>3. x \in Nat /\ x < PowerOfTwo[Depth] /\ x + 1 \in 1..PowerOfTwo[Depth] /\ x + 1 <= GetMaxRefutationIndex
    BY <2>2, Sizes
  <2>4. tree.indexToSave = x /\ CompressorHolds(tree, Leaves(total), Depth) /\ Complete(tree)
    BY <2>1, <2>3 DEF TreeInv
  <2>5. Full(Leaves(total), Depth)
    BY Sizes DEF Full, Leaves
  <2>6. Leaves(total)[x + 1] = CreateRefutationScript(total, asked)
    <3>1. Leaves(total)[x + 1] = ScriptTable[total][x]
      <4>1. (x + 1) - 1 = x
        BY <2>3
      <4> QED
        BY <2>3, <4>1 DEF Leaves
    <3>2. total \in Totals
      BY DEF RoundsInv, PathTypes
    <3> QED
      BY <2>2, <3>1, <3>2 DEF ScriptTable
  <2> QED
    BY <2>4, <2>5, <2>6, CompressorEnds
<1> QED
  BY <1>1, TreeInvariant, PTL

(***************************************************************************)
(* SameTree: the compressor comes to the root and to the proof of the tree *)
(* that SimpleTapTree makes of the same scripts, padded.                   *)
(***************************************************************************)
THEOREM CompressorSameTree == PowersOfTen /\ EnoughLeaves => (Spec => []SameTree)
<1> SUFFICES ASSUME PowersOfTen, EnoughLeaves PROVE Spec => []SameTree
  OBVIOUS
<1>1. RoundsInv /\ CompressInv /\ TreeInv => SameTree
  <2> SUFFICES ASSUME RoundsInv, CompressInv, TreeInv, stage = "open"
               PROVE  /\ Root(tree) = GetRoot(Padded)
                      /\ GetProof(Padded, tree.indexToSave) = [i \in 1..(tree.depth - 1) |-> tree.proof[i - 1]]
    BY DEF SameTree
  <2>1. GetRefutationIndex(asked) < PowerOfTwo[Depth]
    BY IndexInTree DEF TreeInv
  <2>2. CompressorHolds(tree, Leaves(total), Depth) /\ Complete(tree)
    BY <2>1 DEF TreeInv
  <2>3. Padded = Leaves(total) /\ Full(Leaves(total), Depth)
    <3>1. tree.depth = Depth + 1
      BY <2>2 DEF CompressorHolds
    <3>2. tree.depth - 1 = Depth
      BY <3>1, Sizes
    <3> QED
      BY <3>2, LeavesOf DEF Padded, CompressInv
  <2> QED
    BY <2>2, <2>3, CompressorEnds
<1> QED
  BY <1>1, TreeInvariant, PTL
=============================================================================
