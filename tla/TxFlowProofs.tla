---------------------------- MODULE TxFlowProofs ----------------------------
(***************************************************************************)
(* Proofs about TxFlow for any number of rounds, any timeouts and any      *)
(* length of the chain.                                                    *)
(*                                                                         *)
(* The graph has a trunk, PROOF, STATE_0, SELECT_0, STATE_1, ...,          *)
(* ARGUMENT, in which every transaction spends output 0 of the one before  *)
(* it; each payout spends output 0 of one transaction of the trunk. With   *)
(* Inv (inputs are confirmed before they are spent, no outpoint is spent   *)
(* twice) this gives all the theorems below: where a payout has taken      *)
(* output 0, the trunk cannot continue, and where the trunk continues, no  *)
(* payout can take output 0. SinglePayout alone is not inductive: it says  *)
(* nothing of which outputs are still unspent.                             *)
(***************************************************************************)
EXTENDS TxFlow, TemplatesProofs, WellFoundedInduction

\* The transactions the dispute goes through when both sides answer.
Trunk == {Proof, Argument} \cup {State(i) : i \in Rounds} \cup {Select(i) : i \in Rounds}

\* The position on the trunk.
Depth(t) ==
    CASE t[1] = "PROOF" -> 0
      [] t[1] = "STATE" -> 2 * t[2] + 1
      [] t[1] = "SELECT" -> 2 * t[2] + 2
      [] OTHER -> 2 * Iterations + 1

\* The transaction before t on the trunk.
Previous(t) ==
    CASE t[1] = "STATE" -> IF t[2] = 0 THEN Proof ELSE Select(t[2] - 1)
      [] t[1] = "SELECT" -> State(t[2])
      [] OTHER -> Select(Iterations - 1)

\* The transaction of the trunk that the payout p ends.
Unanswered(p) ==
    CASE p[1] \in {"PROOF_UNCONTESTED", "CHALLENGE_UNCONTESTED"} -> Proof
      [] p[1] = "STATE_UNCONTESTED" -> State(p[2])
      [] p[1] = "SELECT_UNCONTESTED" -> Select(p[2])
      [] OTHER -> Argument

\* What makes Previous the predecessor of t on the trunk.
ContinuesTrunk(t) ==
    /\ Previous(t) \in Trunk
    /\ Depth(t) = Depth(Previous(t)) + 1
    /\ \E in \in Inputs(t) : in.tx = Previous(t) /\ in.out = 0

(***************************************************************************)
(* Every transaction of the trunk but PROOF spends output 0 of the one     *)
(* before it (the templateName and outputIndex of the first input of each  *)
(* STATE, SELECT and ARGUMENT in templates.ts).                            *)
(***************************************************************************)
LEMMA TrunkSpends ==
    \A t \in Trunk \ {Proof} : ContinuesTrunk(t)
<1> USE IterationsAssumption DEF Rounds
<1>1. ContinuesTrunk(Argument)
  <2>1. In(Select(Iterations - 1), 0, 0) \in EndInputs(Argument)
    BY DEF EndInputs, Argument, Once
  <2> QED
    BY <2>1 DEF ContinuesTrunk, Trunk, Depth, Previous, Argument, Once, Select, In, Inputs
<1>2. ContinuesTrunk(State(0))
  <2>1. In(Proof, 0, 1) \in StepInputs(State(0))
    BY DEF StepInputs, StateInputs, State
  <2> QED
    BY <2>1 DEF ContinuesTrunk, Trunk, Depth, Previous, Proof, Once, State, In, Inputs
<1>3. ASSUME NEW i \in Rounds \ {0} PROVE ContinuesTrunk(State(i))
  <2>1. In(Select(i - 1), 0, 0) \in StepInputs(State(i))
    BY DEF StepInputs, StateInputs, State
  <2> QED
    BY <2>1 DEF ContinuesTrunk, Trunk, Depth, Previous, State, Select, In, Inputs
<1>4. ASSUME NEW i \in Rounds PROVE ContinuesTrunk(Select(i))
  <2>1. In(State(i), 0, 0) \in StepInputs(Select(i))
    BY DEF StepInputs, Select
  <2> QED
    BY <2>1 DEF ContinuesTrunk, Trunk, Depth, Previous, State, Select, In, Inputs
<1> QED
  BY <1>1, <1>2, <1>3, <1>4 DEF Trunk

(***************************************************************************)
(* Positions on the trunk are natural numbers and no two transactions      *)
(* share one.                                                              *)
(***************************************************************************)
LEMMA DepthInjective ==
    /\ \A t \in Trunk : Depth(t) \in Nat
    /\ \A t, u \in Trunk : Depth(t) = Depth(u) => t = u
BY IterationsAssumption DEF Trunk, Depth, Rounds, Proof, Argument, Once, State, Select

\* What makes p a payout that stops the trunk at Unanswered(p).
EndsDispute(p) ==
    /\ Unanswered(p) \in Trunk
    /\ \E in \in Inputs(p) : in.tx = Unanswered(p) /\ in.out = 0

(***************************************************************************)
(* Every payout is off the trunk and spends output 0 of a transaction on   *)
(* it.                                                                     *)
(***************************************************************************)
LEMMA PayoutSpends ==
    \A p \in Payouts : p \notin Trunk /\ EndsDispute(p)
<1> USE IterationsAssumption DEF Rounds
<1> HIDE DEF Depth, Previous
<1>1. \A p \in Payouts : p \notin Trunk
  BY DEF Payouts, ProverPayouts, VerifierPayouts, Trunk, ProofUncontested, ArgumentUncontested,
         ChallengeUncontested, ProofRefuted, StateUncontested, SelectUncontested, Proof, Argument,
         Once, State, Select
<1>2. EndsDispute(ProofUncontested)
  <2>1. In(Proof, 0, 0) \in StartInputs(ProofUncontested)
    BY DEF StartInputs, ProofUncontested, Once
  <2> QED
    BY <2>1 DEF EndsDispute, Unanswered, Trunk, ProofUncontested, Once, In, Inputs
<1>3. EndsDispute(ChallengeUncontested)
  <2>1. In(Proof, 0, 2) \in StartInputs(ChallengeUncontested)
    BY DEF StartInputs, ChallengeUncontested, Once
  <2> QED
    BY <2>1 DEF EndsDispute, Unanswered, Trunk, ChallengeUncontested, Once, In, Inputs
<1>4. EndsDispute(ProofRefuted)
  <2>1. In(Argument, 0, 0) \in EndInputs(ProofRefuted)
    BY DEF EndInputs, ProofRefuted, Once
  <2> QED
    BY <2>1 DEF EndsDispute, Unanswered, Trunk, ProofRefuted, Once, In, Inputs
<1>5. EndsDispute(ArgumentUncontested)
  <2>1. In(Argument, 0, 1) \in EndInputs(ArgumentUncontested)
    BY DEF EndInputs, ArgumentUncontested, Once
  <2> QED
    BY <2>1 DEF EndsDispute, Unanswered, Trunk, ArgumentUncontested, Once, In, Inputs
<1>6. ASSUME NEW i \in Rounds PROVE EndsDispute(StateUncontested(i))
  <2>1. In(State(i), 0, 1) \in StepInputs(StateUncontested(i))
    BY DEF StepInputs, StateUncontested
  <2> QED
    BY <2>1 DEF EndsDispute, Unanswered, Trunk, StateUncontested, In, Inputs
<1>7. ASSUME NEW i \in Rounds PROVE EndsDispute(SelectUncontested(i))
  <2>1. In(Select(i), 0, 1) \in StepInputs(SelectUncontested(i))
    BY DEF StepInputs, SelectUncontested
  <2> QED
    BY <2>1 DEF EndsDispute, Unanswered, Trunk, SelectUncontested, In, Inputs
<1> QED
  BY <1>1, <1>2, <1>3, <1>4, <1>5, <1>6, <1>7 DEF Payouts, ProverPayouts, VerifierPayouts

-----------------------------------------------------------------------------

(***************************************************************************)
(* A block keeps the type invariant.                                       *)
(***************************************************************************)
LEMMA NextType ==
    ASSUME TypeOK, [Next]_vars PROVE TypeOK'
<1>1. CASE MineBlock
  BY <1>1 DEF MineBlock, Confirm, TypeOK, vars
<1>2. CASE UNCHANGED vars
  BY <1>2 DEF TypeOK, vars
<1> QED
  BY <1>1, <1>2 DEF Next

(***************************************************************************)
(* Type correctness: heights are natural numbers and no template is        *)
(* confirmed above the tip.                                                *)
(***************************************************************************)
THEOREM TypeCorrect == Spec => []TypeOK
<1>1. Init => TypeOK
  BY DEF Init, TypeOK
<1> QED
  BY <1>1, NextType, PTL DEF Spec

\* The inductive invariant.
Inv == TypeOK /\ SpendsMature /\ NoDoubleSpend

(***************************************************************************)
(* A block adds its transactions, at the new height, and changes nothing   *)
(* else.                                                                   *)
(***************************************************************************)
LEMMA ConfirmedAfter ==
    ASSUME TypeOK, NEW S \in SUBSET Candidates, Confirm(S)
    PROVE  /\ Confirmed' = Confirmed \cup S
           /\ \A t \in Confirmed : conf'[t] = conf[t]
           /\ \A t \in S : conf'[t] = height + 1
<1>1. S \subseteq Names /\ S \cap Confirmed = {}
  BY DEF Candidates, Names
<1>2. \A t \in Names : conf'[t] = IF t \in S THEN height + 1 ELSE conf[t]
  BY DEF Confirm
<1>3. Confirmed' = Confirmed \cup S
  BY <1>1, <1>2 DEF TypeOK, Confirmed
<1> QED
  BY <1>1, <1>2, <1>3 DEF Confirmed

(***************************************************************************)
(* A block keeps the two consensus facts of the inductive invariant.       *)
(***************************************************************************)
LEMMA NextInv ==
    ASSUME Inv, [Next]_vars PROVE SpendsMature' /\ NoDoubleSpend'
<1>1. CASE MineBlock
  <2>1. PICK S \in SUBSET Candidates : Confirm(S)
    BY <1>1 DEF MineBlock
  <2>2. NoDoubleSpend'
    BY <2>1, ConfirmedAfter DEF Inv, NoDoubleSpend, Confirm, Compatible
  <2>3. ASSUME NEW t \in Confirmed', NEW in \in Inputs(t)
        PROVE  in.tx \in Confirmed' /\ conf'[in.tx] + NSequence(in) <= conf'[t]
    <3>1. CASE t \in Confirmed
      BY <3>1, <2>1, <2>3, ConfirmedAfter DEF Inv, SpendsMature
    <3>2. CASE t \in S
      <4>1. CASE in.tx \in Confirmed /\ conf[in.tx] + NSequence(in) <= height + 1
        BY <4>1, <3>2, <2>1, ConfirmedAfter DEF Inv
      <4>2. CASE in.tx \in S /\ NSequence(in) = 0
        BY <4>2, <3>2, <2>1, ConfirmedAfter DEF Inv, TypeOK
      <4> QED
        BY <4>1, <4>2, <3>2, <2>1, <2>3 DEF Confirm, Final
    <3> QED
      BY <3>1, <3>2, <2>1, <2>3, ConfirmedAfter DEF Inv
  <2> QED
    BY <2>2, <2>3 DEF SpendsMature
<1>2. CASE UNCHANGED vars
  BY <1>2 DEF Inv, SpendsMature, NoDoubleSpend, Confirmed, vars
<1> QED
  BY <1>1, <1>2 DEF Next

(***************************************************************************)
(* The inductive invariant: on every chain inputs are mature when they are *)
(* spent, and no outpoint is spent twice.                                  *)
(***************************************************************************)
THEOREM ChainInvariant == Spec => []Inv
<1>1. Init => Inv
  <2> SUFFICES ASSUME Init PROVE SpendsMature /\ NoDoubleSpend
    BY DEF Init, TypeOK, Inv
  <2>1. Confirmed = External
    BY DEF Init, Confirmed, Names
  <2>2. SpendsMature
    BY <2>1, ExternalRoots DEF SpendsMature
  <2>3. NoDoubleSpend
    BY <2>1, ExternalRoots DEF NoDoubleSpend, Compatible, Spends
  <2> QED
    BY <2>2, <2>3
<1>2. Inv /\ [Next]_vars => Inv'
  BY NextType, NextInv DEF Inv
<1> QED
  BY <1>1, <1>2, PTL DEF Spec

-----------------------------------------------------------------------------

\* u is spent by the next transaction of the trunk.
Continued(u) ==
    \E w \in Trunk \ {Proof} : w \in Confirmed /\ Previous(w) = u

(***************************************************************************)
(* A nonempty set of natural numbers has a least element.                  *)
(***************************************************************************)
LEMMA Smallest ==
    ASSUME NEW T \in SUBSET Nat, T # {} PROVE \E d \in T : \A e \in T : ~ (e < d)
<1>1. PICK d \in T : \A e \in T : ~ (<<e, d>> \in OpToRel(<, Nat))
  BY WFMin, NatLessThanWellFounded
<1>2. \A e \in T : <<e, d>> \in OpToRel(<, Nat) <=> e < d
  BY DEF OpToRel
<1> QED
  BY <1>1, <1>2

(***************************************************************************)
(* Below a confirmed transaction of the trunk, every transaction of the    *)
(* trunk is spent by the next one. Proved from the least counterexample:   *)
(* the transactions between u and t form a chain of confirmed              *)
(* predecessors.                                                           *)
(***************************************************************************)
LEMMA TrunkContinued ==
    ASSUME Inv, NEW t \in Trunk, t \in Confirmed, NEW u \in Trunk, Depth(u) < Depth(t)
    PROVE  Continued(u)
<1> DEFINE Gap(d) == \E v \in Trunk : /\ v \in Confirmed
                                     /\ Depth(v) = Depth(u) + 1 + d
                                     /\ ~Continued(u)
           Gaps == {d \in Nat : Gap(d)}
<1> SUFFICES ASSUME ~Continued(u) PROVE FALSE
  OBVIOUS
<1>1. Gaps # {}
  <2>1. Depth(t) \in Nat /\ Depth(u) \in Nat
    BY DepthInjective
  <2>2. Depth(t) - Depth(u) - 1 \in Nat
    BY <2>1
  <2>3. Gap(Depth(t) - Depth(u) - 1)
    BY <2>1
  <2> QED
    BY <2>2, <2>3
<1>2. PICK d \in Gaps : \A e \in Gaps : ~ (e < d)
  <2> HIDE DEF Gaps
  <2>1. Gaps \in SUBSET Nat
    BY DEF Gaps
  <2> QED
    BY <1>1, <2>1, Smallest
<1>3. PICK v \in Trunk : v \in Confirmed /\ Depth(v) = Depth(u) + 1 + d
  BY <1>2
<1>4. v # Proof
  BY <1>2, <1>3, DepthInjective DEF Depth, Proof, Once
<1>5. ContinuesTrunk(v)
  BY <1>4, TrunkSpends
<1>6. Previous(v) \in Confirmed
  BY <1>3, <1>5 DEF ContinuesTrunk, Inv, SpendsMature
<1>7. Depth(Previous(v)) = Depth(u) + d
  BY <1>2, <1>3, <1>5, DepthInjective DEF ContinuesTrunk
<1>8. CASE d = 0
  <2>1. Depth(Previous(v)) = Depth(u)
    BY <1>7, <1>8, DepthInjective
  <2>2. Previous(v) = u
    BY <2>1, <1>5, DepthInjective DEF ContinuesTrunk
  <2> QED
    BY <2>2, <1>3, <1>4 DEF Continued
<1>9. CASE d # 0
  <2>1. d - 1 \in Nat /\ d \in Nat
    BY <1>2, <1>9
  <2>2. Depth(Previous(v)) = Depth(u) + 1 + (d - 1)
    BY <1>7, <2>1, DepthInjective
  <2>3. d - 1 \in Gaps
    BY <1>5, <1>6, <2>1, <2>2 DEF ContinuesTrunk
  <2> QED
    BY <1>2, <2>1, <2>3
<1> QED
  BY <1>8, <1>9

(***************************************************************************)
(* A payout and the next transaction of the trunk conflict.                *)
(***************************************************************************)
LEMMA PayoutNotContinued ==
    ASSUME Inv, NEW p \in Payouts, p \in Confirmed PROVE ~Continued(Unanswered(p))
<1> SUFFICES ASSUME NEW w \in Trunk \ {Proof}, w \in Confirmed, Previous(w) = Unanswered(p)
             PROVE  FALSE
  BY DEF Continued
<1>1. w # p
  BY PayoutSpends
<1>2. <<Unanswered(p), 0>> \in Spends(p)
  BY PayoutSpends DEF EndsDispute, Spends
<1>3. <<Unanswered(p), 0>> \in Spends(w)
  BY TrunkSpends DEF ContinuesTrunk, Spends
<1> QED
  BY <1>1, <1>2, <1>3 DEF Inv, NoDoubleSpend, Compatible

(***************************************************************************)
(* Two payouts would end the trunk at two places, or spend the same        *)
(* output.                                                                 *)
(***************************************************************************)
LEMMA InvSinglePayout == Inv => SinglePayout
<1> SUFFICES ASSUME Inv, NEW p \in Payouts, NEW q \in Payouts, p \in Confirmed, q \in Confirmed,
                    p # q
             PROVE  FALSE
  BY DEF SinglePayout
<1>1. /\ Unanswered(p) \in Trunk /\ Unanswered(p) \in Confirmed
      /\ Unanswered(q) \in Trunk /\ Unanswered(q) \in Confirmed
  BY PayoutSpends DEF EndsDispute, Inv, SpendsMature
<1>2. ~ (Depth(Unanswered(p)) < Depth(Unanswered(q)))
  BY <1>1, TrunkContinued, PayoutNotContinued
<1>3. ~ (Depth(Unanswered(q)) < Depth(Unanswered(p)))
  BY <1>1, TrunkContinued, PayoutNotContinued
<1>4. Unanswered(p) = Unanswered(q)
  BY <1>1, <1>2, <1>3, DepthInjective
<1>5. <<Unanswered(p), 0>> \in Spends(p) \cap Spends(q)
  BY <1>4, PayoutSpends DEF EndsDispute, Spends
<1> QED
  BY <1>5 DEF Inv, NoDoubleSpend, Compatible

(***************************************************************************)
(* The stake is paid out at most once, whoever publishes what: of          *)
(* PROOF_UNCONTESTED, CHALLENGE_UNCONTESTED, ARGUMENT_UNCONTESTED,         *)
(* PROOF_REFUTED and the STATE_UNCONTESTED and SELECT_UNCONTESTED of all   *)
(* rounds, one at most is ever confirmed.                                  *)
(***************************************************************************)
THEOREM OnePayout == Spec => []SinglePayout
BY ChainInvariant, InvSinglePayout, PTL

-----------------------------------------------------------------------------

(***************************************************************************)
(* Every *_UNCONTESTED template has an input through a timed spending      *)
(* condition of the transaction it says was not answered.                  *)
(***************************************************************************)
LEMMA TimedInputs ==
    /\ \E in \in Inputs(ProofUncontested) : in.tx = Proof /\ NSequence(in) = SmallTimeout
    /\ \E in \in Inputs(ChallengeUncontested) : in.tx = Proof /\ NSequence(in) = LargeTimeout
    /\ \E in \in Inputs(ArgumentUncontested) : in.tx = Argument /\ NSequence(in) = SmallTimeout
    /\ \A i \in Rounds :
          /\ \E in \in Inputs(StateUncontested(i)) : in.tx = State(i) /\ NSequence(in) = SmallTimeout
          /\ \E in \in Inputs(SelectUncontested(i)) : in.tx = Select(i) /\ NSequence(in) = SmallTimeout
<1> USE DEF NSequence, SpendingCondition, Inputs, In, Outputs, StepKinds, Sc
<1>1. \E in \in Inputs(ProofUncontested) : in.tx = Proof /\ NSequence(in) = SmallTimeout
  <2>1. In(Proof, 0, 0) \in StartInputs(ProofUncontested)
    BY DEF StartInputs, ProofUncontested, Once
  <2>2. NSequence(In(Proof, 0, 0)) = SmallTimeout
    BY DEF StartOutputs, Proof, Once
  <2> QED
    BY <2>1, <2>2
<1>2. \E in \in Inputs(ChallengeUncontested) : in.tx = Proof /\ NSequence(in) = LargeTimeout
  <2>1. In(Proof, 0, 2) \in StartInputs(ChallengeUncontested)
    BY DEF StartInputs, ChallengeUncontested, Once
  <2>2. NSequence(In(Proof, 0, 2)) = LargeTimeout
    BY DEF StartOutputs, Proof, Once
  <2> QED
    BY <2>1, <2>2
<1>3. \E in \in Inputs(ArgumentUncontested) : in.tx = Argument /\ NSequence(in) = SmallTimeout
  <2>1. In(Argument, 0, 1) \in EndInputs(ArgumentUncontested)
    BY DEF EndInputs, ArgumentUncontested, Once
  <2>2. NSequence(In(Argument, 0, 1)) = SmallTimeout
    BY DEF EndOutputs, Argument, Once
  <2> QED
    BY <2>1, <2>2
<1>4. ASSUME NEW i \in Rounds
      PROVE  \E in \in Inputs(StateUncontested(i)) : in.tx = State(i) /\ NSequence(in) = SmallTimeout
  <2>1. In(State(i), 0, 1) \in StepInputs(StateUncontested(i))
    BY DEF StepInputs, StateUncontested
  <2>2. NSequence(In(State(i), 0, 1)) = SmallTimeout
    BY DEF StepOutputs, State
  <2> QED
    BY <2>1, <2>2
<1>5. ASSUME NEW i \in Rounds
      PROVE  \E in \in Inputs(SelectUncontested(i)) : in.tx = Select(i) /\ NSequence(in) = SmallTimeout
  <2>1. In(Select(i), 0, 1) \in StepInputs(SelectUncontested(i))
    BY DEF StepInputs, SelectUncontested
  <2>2. NSequence(In(Select(i), 0, 1)) = SmallTimeout
    BY DEF StepOutputs, Select
  <2> QED
    BY <2>1, <2>2
<1> QED
  BY <1>1, <1>2, <1>3, <1>4, <1>5

(***************************************************************************)
(* No side wins by a timeout before the other side had the whole window,   *)
(* the small or the large timeout, to answer.                              *)
(***************************************************************************)
THEOREM WholeWindow == Spec => []ResponseWindow
<1>1. Inv => ResponseWindow
  BY TimedInputs DEF Inv, SpendsMature, ResponseWindow, Waited
<1> QED
  BY <1>1, ChainInvariant, PTL

(***************************************************************************)
(* CHALLENGE and PROOF_UNCONTESTED are never both on the chain: they spend *)
(* the same output of PROOF.                                               *)
(***************************************************************************)
THEOREM ChallengeExcludesProof == Spec => []ChallengeBlocksProof
<1>1. <<Proof, 2>> \in Spends(Challenge) \cap Spends(ProofUncontested)
  <2>1. In(Proof, 2, 0) \in StartInputs(Challenge) \cap StartInputs(ProofUncontested)
    BY DEF StartInputs, Challenge, ProofUncontested, Once
  <2> QED
    BY <2>1 DEF Spends, Inputs, In
<1>2. Challenge # ProofUncontested
  BY DEF Challenge, ProofUncontested, Once
<1>3. Inv => ChallengeBlocksProof
  BY <1>1, <1>2 DEF Inv, NoDoubleSpend, Compatible, ChallengeBlocksProof
<1> QED
  BY <1>3, ChainInvariant, PTL

(***************************************************************************)
(* Every template is on the trunk, a payout, or CHALLENGE.                 *)
(***************************************************************************)
LEMMA ProtocolParts ==
    Protocol \subseteq Trunk \cup Payouts \cup {Challenge}
BY DEF Protocol, OnceKinds, StepKinds, Trunk, Payouts, ProverPayouts, VerifierPayouts, Proof,
       Argument, State, Select, ProofUncontested, ArgumentUncontested, StateUncontested,
       ChallengeUncontested, ProofRefuted, SelectUncontested, Challenge, Once

(***************************************************************************)
(* Once a payout is confirmed, exactly the part of the trunk up to the     *)
(* transaction it spends is.                                               *)
(***************************************************************************)
LEMMA TrunkBelowPayout ==
    ASSUME Inv, NEW p \in Payouts, p \in Confirmed, NEW t \in Trunk
    PROVE  IF Depth(t) <= Depth(Unanswered(p)) THEN t \in Confirmed ELSE t \notin Confirmed
<1>1. Unanswered(p) \in Trunk /\ Unanswered(p) \in Confirmed
  BY PayoutSpends DEF EndsDispute, Inv, SpendsMature
<1>2. CASE Depth(t) < Depth(Unanswered(p))
  <2>1. PICK w \in Trunk \ {Proof} : w \in Confirmed /\ Previous(w) = t
    BY <1>1, <1>2, TrunkContinued DEF Continued
  <2>2. t \in Confirmed
    BY <2>1, TrunkSpends DEF ContinuesTrunk, Inv, SpendsMature
  <2> QED
    BY <2>2, <1>1, <1>2, DepthInjective
<1>3. CASE Depth(t) = Depth(Unanswered(p))
  BY <1>1, <1>3, DepthInjective
<1>4. CASE Depth(Unanswered(p)) < Depth(t)
  BY <1>1, <1>4, TrunkContinued, PayoutNotContinued, DepthInjective
<1> QED
  BY <1>1, <1>2, <1>3, <1>4, DepthInjective

\* The same fact as one state predicate, so that it can be used after a step.
TrunkSettled ==
    \A p \in Payouts \cap Confirmed : \A t \in Trunk :
        t \in Confirmed <=> Depth(t) <= Depth(Unanswered(p))

(***************************************************************************)
(* After a payout nothing of the dispute is confirmed any more: only       *)
(* CHALLENGE, which spends an output of its own, still can be.             *)
(***************************************************************************)
THEOREM PayoutIsFinal == Spec => NothingAfterPayout
<1>1. Inv => TrunkSettled
  BY TrunkBelowPayout DEF TrunkSettled
<1>2. ASSUME Inv, TrunkSettled, SinglePayout', TrunkSettled', [Next]_vars,
             NEW t \in Protocol, conf[t] = 0, conf'[t] > 0, NEW p \in Payouts \cap Confirmed
      PROVE  t = Challenge
  <2>1. t \in Names /\ t \notin Confirmed /\ t \in Confirmed'
    BY <1>2 DEF Confirmed, Names
  <2>2. p \in Confirmed'
    <3>1. CASE MineBlock
      BY <3>1, <1>2, ConfirmedAfter DEF MineBlock, Inv
    <3>2. CASE UNCHANGED vars
      BY <3>2, <1>2 DEF vars, Confirmed
    <3> QED
      BY <3>1, <3>2, <1>2 DEF Next
  <2>3. t \notin Payouts
    BY <1>2, <2>1, <2>2 DEF SinglePayout
  <2>4. t \notin Trunk
    BY <1>2, <2>1, <2>2 DEF TrunkSettled
  <2> QED
    BY <2>3, <2>4, ProtocolParts, <1>2
<1>3. Inv /\ TrunkSettled /\ SinglePayout' /\ TrunkSettled' /\ [Next]_vars
      => [\A t \in Protocol :
            conf[t] = 0 /\ conf'[t] > 0 /\ Payouts \cap Confirmed # {} => t = Challenge]_vars
  BY <1>2
<1> QED
  BY <1>1, <1>3, ChainInvariant, OnePayout, PTL DEF Spec, NothingAfterPayout
=============================================================================
