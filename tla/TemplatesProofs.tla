--------------------------- MODULE TemplatesProofs ---------------------------
(***************************************************************************)
(* The transaction graph is well formed for any number of rounds and any   *)
(* timeouts: what assertOrder tests at run time on the one graph a setup   *)
(* builds.                                                                 *)
(***************************************************************************)
EXTENDS Templates, TLAPS

\* The output and the spending condition that an input names exist.
Spendable(in) ==
    /\ in.tx \in Names
    /\ in.out + 1 \in DOMAIN Outputs(in.tx)
    /\ in.sc + 1 \in DOMAIN Outputs(in.tx)[in.out + 1]
    /\ NSequence(in) \in Nat

(***************************************************************************)
(* Once(kind) is the name of a template.                                   *)
(***************************************************************************)
LEMMA OnceNames ==
    \A kind \in ExternalKinds \cup OnceKinds : Once(kind) \in Names
BY DEF Names, External, Protocol, Once

(***************************************************************************)
(* <<kind, i>> is the name of a template in every round i.                 *)
(***************************************************************************)
LEMMA StepNames ==
    \A kind \in StepKinds : \A i \in Rounds : <<kind, i>> \in Names
BY DEF Names, Protocol

(***************************************************************************)
(* The outputs that the inputs of some template spend, parent by parent.   *)
(***************************************************************************)
LEMMA OnceOutputs ==
    /\ Spendable(In(LockedFunds, 0, 0))
    /\ Spendable(In(ProverStake, 0, 0))
    /\ \A sc \in 0..2 : Spendable(In(Proof, 0, sc))
    /\ Spendable(In(Proof, 1, 0))
    /\ Spendable(In(Proof, 2, 0))
    /\ \A sc \in 0..1 : Spendable(In(Argument, 0, sc))
<1> USE TimeoutAssumption
    DEF Spendable, NSequence, SpendingCondition, Outputs, StepKinds, In, Plain, Data, Sc
<1>1. /\ LockedFunds \in Names /\ ProverStake \in Names
      /\ Proof \in Names /\ Argument \in Names
  BY OnceNames DEF LockedFunds, ProverStake, Proof, Argument, ExternalKinds, OnceKinds
<1>2. Spendable(In(LockedFunds, 0, 0)) /\ Spendable(In(ProverStake, 0, 0))
  BY <1>1 DEF StartOutputs, LockedFunds, ProverStake, Once
<1>3. \A sc \in 0..2 : Spendable(In(Proof, 0, sc))
  BY <1>1 DEF StartOutputs, Proof, Once
<1>4. Spendable(In(Proof, 1, 0)) /\ Spendable(In(Proof, 2, 0))
  BY <1>1 DEF StartOutputs, Proof, Once
<1>5. \A sc \in 0..1 : Spendable(In(Argument, 0, sc))
  BY <1>1 DEF EndOutputs, Argument, Once
<1> QED
  BY <1>2, <1>3, <1>4, <1>5

(***************************************************************************)
(* Both spending conditions of STATE_i exist, in every round.              *)
(***************************************************************************)
LEMMA StateOutputs ==
    \A i \in Rounds : \A sc \in 0..1 : Spendable(In(State(i), 0, sc))
BY TimeoutAssumption, StepNames
   DEF Spendable, NSequence, SpendingCondition, Outputs, StepOutputs, StepKinds, In, Sc, State

(***************************************************************************)
(* SELECT_i has two outputs, in the last round nine, and output 0 has two  *)
(* spending conditions.                                                    *)
(***************************************************************************)
LEMMA SelectOutputs ==
    \A i \in Rounds : \A o \in 0..8 : \A sc \in 0..1 :
        (i + 1 < Iterations => o < 2) /\ (o # 0 => sc = 0) => Spendable(In(Select(i), o, sc))
<1> TAKE i \in Rounds
<1> TAKE o \in 0..8
<1> TAKE sc \in 0..1
<1> HAVE (i + 1 < Iterations => o < 2) /\ (o # 0 => sc = 0)
<1>1. Select(i) \in Names
  BY StepNames DEF Select, StepKinds
<1>2. Outputs(Select(i)) = [n \in 1 .. IF i + 1 < Iterations THEN 2 ELSE 9 |->
                              IF n = 1 THEN <<Sc("PROVER", 0, TRUE), Sc("VERIFIER", SmallTimeout, FALSE)>>
                                       ELSE Data("PROVER")]
  BY DEF Outputs, StepOutputs, StepKinds, Select
<1>3. CASE o = 0
  BY <1>1, <1>2, <1>3, TimeoutAssumption DEF Spendable, NSequence, SpendingCondition, In, Sc
<1>4. CASE o # 0
  BY <1>1, <1>2, <1>4 DEF Spendable, NSequence, SpendingCondition, In, Data, Sc
<1> QED
  BY <1>3, <1>4

-----------------------------------------------------------------------------

\* An input spends an existing output of an earlier template.
Earlier(t, in) == Spendable(in) /\ Ordinal(in.tx) < Ordinal(t)

(***************************************************************************)
(* The inputs of the templates that occur once. ARGUMENT spends all nine   *)
(* outputs of the last SELECT.                                             *)
(***************************************************************************)
LEMMA OnceOrder ==
    ASSUME NEW kind \in OnceKinds, NEW in \in Inputs(Once(kind)) PROVE Earlier(Once(kind), in)
<1> USE IterationsAssumption DEF Earlier, Once
<1>0. in \in StartInputs(Once(kind)) \cup EndInputs(Once(kind))
  BY DEF Inputs, StepInputs, OnceKinds
<1>1. CASE kind = "PROOF"
  <2>1. Spendable(in)
    BY <1>0, <1>1, OnceOutputs DEF StartInputs, EndInputs
  <2> QED
    BY <1>0, <1>1, <2>1 DEF StartInputs, EndInputs, ProverStake, Ordinal, In
<1>2. CASE kind = "CHALLENGE"
  <2>1. Spendable(in)
    BY <1>0, <1>2, OnceOutputs DEF StartInputs, EndInputs
  <2> QED
    BY <1>0, <1>2, <2>1 DEF StartInputs, EndInputs, Proof, Ordinal, In
<1>3. CASE kind = "PROOF_UNCONTESTED"
  <2>1. Spendable(in)
    BY <1>0, <1>3, OnceOutputs DEF StartInputs, EndInputs
  <2> QED
    BY <1>0, <1>3, <2>1 DEF StartInputs, EndInputs, LockedFunds, Proof, Ordinal, In
<1>4. CASE kind = "CHALLENGE_UNCONTESTED"
  <2>1. Spendable(in)
    BY <1>0, <1>4, OnceOutputs DEF StartInputs, EndInputs
  <2> QED
    BY <1>0, <1>4, <2>1 DEF StartInputs, EndInputs, Proof, Ordinal, In
<1>5. CASE kind = "ARGUMENT"
  <2>1. PICK o \in 0..8 : in = In(Select(Iterations - 1), o, 0)
    BY <1>0, <1>5 DEF StartInputs, EndInputs
  <2>2. Spendable(in)
    BY <2>1, SelectOutputs DEF Rounds
  <2> QED
    BY <1>5, <2>1, <2>2 DEF Select, Ordinal, In
<1>6. CASE kind = "PROOF_REFUTED"
  <2>1. Spendable(in)
    BY <1>0, <1>6, OnceOutputs DEF StartInputs, EndInputs
  <2> QED
    BY <1>0, <1>6, <2>1 DEF StartInputs, EndInputs, Argument, Ordinal, In
<1>7. CASE kind = "ARGUMENT_UNCONTESTED"
  <2>1. Spendable(in)
    BY <1>0, <1>7, OnceOutputs DEF StartInputs, EndInputs
  <2> QED
    BY <1>0, <1>7, <2>1 DEF StartInputs, EndInputs, LockedFunds, Argument, Ordinal, In
<1> QED
  BY <1>1, <1>2, <1>3, <1>4, <1>5, <1>6, <1>7 DEF OnceKinds

(***************************************************************************)
(* The inputs of the templates of a round.                                 *)
(***************************************************************************)
LEMMA StepOrder ==
    ASSUME NEW kind \in StepKinds, NEW i \in Rounds, NEW in \in Inputs(<<kind, i>>)
    PROVE  Earlier(<<kind, i>>, in)
<1> USE IterationsAssumption DEF Earlier, Rounds
<1>0. in \in StepInputs(<<kind, i>>)
  BY DEF Inputs, StartInputs, EndInputs, StepKinds
<1>1. CASE kind = "STATE" /\ i = 0
  <2>1. Spendable(in)
    BY <1>0, <1>1, OnceOutputs DEF StepInputs, StateInputs
  <2> QED
    BY <1>0, <1>1, <2>1 DEF StepInputs, StateInputs, Proof, Once, Ordinal, In
<1>2. CASE kind = "STATE" /\ i # 0
  <2>1. PICK o \in 0..1 : in = In(Select(i - 1), o, 0)
    BY <1>0, <1>2 DEF StepInputs, StateInputs
  <2>2. Spendable(in)
    BY <1>2, <2>1, SelectOutputs
  <2> QED
    BY <1>2, <2>1, <2>2 DEF Select, Ordinal, In
<1>3. CASE kind = "STATE_UNCONTESTED"
  <2>1. Spendable(in)
    BY <1>0, <1>3, OnceOutputs, StateOutputs DEF StepInputs
  <2> QED
    BY <1>0, <1>3, <2>1 DEF StepInputs, LockedFunds, State, Once, Ordinal, In
<1>4. CASE kind = "SELECT"
  <2>1. Spendable(in)
    BY <1>0, <1>4, StateOutputs DEF StepInputs
  <2> QED
    BY <1>0, <1>4, <2>1 DEF StepInputs, State, Ordinal, In
<1>5. CASE kind = "SELECT_UNCONTESTED"
  <2>1. in = In(Select(i), 0, 1)
    BY <1>0, <1>5 DEF StepInputs
  <2>2. Spendable(in)
    BY <2>1, SelectOutputs
  <2> QED
    BY <1>5, <2>1, <2>2 DEF Select, Ordinal, In
<1> QED
  BY <1>1, <1>2, <1>3, <1>4, <1>5 DEF StepKinds

(***************************************************************************)
(* The external templates, LOCKED_FUNDS and PROVER_STAKE, are the roots.   *)
(***************************************************************************)
LEMMA ExternalRoots ==
    \A t \in External : Inputs(t) = {}
BY DEF External, ExternalKinds, Inputs, StartInputs, StepInputs, EndInputs

(***************************************************************************)
(* Every input spends an existing output of an earlier template.           *)
(***************************************************************************)
LEMMA InputsEarlier ==
    \A t \in Names : \A in \in Inputs(t) : Earlier(t, in)
<1> TAKE t \in Names
<1>1. CASE t \in External
  BY <1>1, ExternalRoots
<1>2. CASE t \in OnceKinds \X {0}
  <2>1. PICK kind \in OnceKinds : t = Once(kind)
    BY <1>2 DEF Once
  <2> QED
    BY <2>1, OnceOrder
<1>3. CASE t \in StepKinds \X Rounds
  <2>1. PICK kind \in StepKinds, i \in Rounds : t = <<kind, i>>
    BY <1>3
  <2> QED
    BY <2>1, StepOrder
<1> QED
  BY <1>1, <1>2, <1>3 DEF Names, Protocol

(***************************************************************************)
(* assertOrder never throws, and getSpendingConditionByInput finds a       *)
(* spending condition for every input: the graph is well formed for every  *)
(* number of rounds and all timeouts.                                      *)
(***************************************************************************)
THEOREM TemplatesOrdered == AssertOrder
BY InputsEarlier DEF AssertOrder, Earlier, Spendable

(***************************************************************************)
(* The timelock of every input is a number of blocks.                      *)
(***************************************************************************)
LEMMA NSequenceNat ==
    \A t \in Names : \A in \in Inputs(t) : in.tx \in Names /\ NSequence(in) \in Nat
BY InputsEarlier DEF Earlier, Spendable
=============================================================================
