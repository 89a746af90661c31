------------------------------ MODULE Templates ------------------------------
(***************************************************************************)
(* The graph of presigned Bitcoin transactions that a setup consists of:   *)
(* protocolStart, makeProtocolSteps and protocolEnd of                     *)
(* src/agent/common/templates.ts, with the nSequence values that           *)
(* initializeTemplates copies from the spending conditions to the inputs.  *)
(*                                                                         *)
(* A template name is a pair <<kind, i>>.  The code writes the repeated    *)
(* templates STATE_00, STATE_01, ...; here they are <<"STATE", 0>>,        *)
(* <<"STATE", 1>>, ...  A template that occurs once has i = 0.             *)
(***************************************************************************)
EXTENDS Naturals, Sequences

CONSTANTS
    Iterations,     \* number of STATE/SELECT rounds (6 in common/types.ts)
    SmallTimeout,   \* agentConf.smallTimeoutBlocks
    LargeTimeout    \* agentConf.largeTimeoutBlocks

ASSUME IterationsAssumption == Iterations \in Nat \ {0}
ASSUME TimeoutAssumption ==
    /\ SmallTimeout \in Nat \ {0}
    /\ LargeTimeout \in Nat \ {0}

Roles == {"PROVER", "VERIFIER"}

StepKinds == {"STATE", "STATE_UNCONTESTED", "SELECT", "SELECT_UNCONTESTED"}
ExternalKinds == {"LOCKED_FUNDS", "PROVER_STAKE"}
OnceKinds == {"PROOF", "CHALLENGE", "PROOF_UNCONTESTED", "CHALLENGE_UNCONTESTED",
              "ARGUMENT", "PROOF_REFUTED", "ARGUMENT_UNCONTESTED"}
Kinds == StepKinds \cup ExternalKinds \cup OnceKinds

Rounds == 0 .. Iterations - 1

Once(kind) == <<kind, 0>>

LockedFunds == Once("LOCKED_FUNDS")
ProverStake == Once("PROVER_STAKE")
Proof == Once("PROOF")
Challenge == Once("CHALLENGE")
ProofUncontested == Once("PROOF_UNCONTESTED")
ChallengeUncontested == Once("CHALLENGE_UNCONTESTED")
Argument == Once("ARGUMENT")
ProofRefuted == Once("PROOF_REFUTED")
ArgumentUncontested == Once("ARGUMENT_UNCONTESTED")
State(i) == <<"STATE", i>>
StateUncontested(i) == <<"STATE_UNCONTESTED", i>>
Select(i) == <<"SELECT", i>>
SelectUncontested(i) == <<"SELECT_UNCONTESTED", i>>

External == ExternalKinds \X {0}
Protocol == (OnceKinds \X {0}) \cup (StepKinds \X Rounds)
Names == External \cup Protocol

(***************************************************************************)
(* Template.role: the party that publishes the template.                   *)
(***************************************************************************)
VerifierKinds == {"CHALLENGE", "CHALLENGE_UNCONTESTED", "SELECT",
                  "SELECT_UNCONTESTED", "PROOF_REFUTED"}

Role(t) == IF t[1] \in VerifierKinds THEN "VERIFIER" ELSE "PROVER"

(***************************************************************************)
(* Inputs: which output of which template is spent, through which of that  *)
(* output's spending conditions.  Indexes start at 0, as in the code.      *)
(***************************************************************************)
In(t, out, sc) == [tx |-> t, out |-> out, sc |-> sc]

\* Mutant of StateInputs: STATE_0 leaves output 0 of PROOF unspent.
StateInputsNoStake(i) ==
    IF i = 0 THEN {In(Proof, 1, 0)}
             ELSE {In(Select(i - 1), 0, 0), In(Select(i - 1), 1, 0)}

\* STATE_i spends outputs 0 and 1 of the previous SELECT (of PROOF for i = 0).
StateInputs(i) ==
    IF i = 0 THEN {In(Proof, 0, 1), In(Proof, 1, 0)}
             ELSE {In(Select(i - 1), 0, 0), In(Select(i - 1), 1, 0)}

\* Mutant of StartInputs: PROOF_UNCONTESTED does not spend what CHALLENGE spends.
StartInputsNoConflict(t) ==
    CASE t[1] = "PROOF" -> {In(ProverStake, 0, 0)}
      [] t[1] = "CHALLENGE" -> {In(Proof, 2, 0)}
      [] t[1] = "PROOF_UNCONTESTED" -> {In(LockedFunds, 0, 0), In(Proof, 0, 0)}
      [] t[1] = "CHALLENGE_UNCONTESTED" -> {In(Proof, 0, 2)}
      [] OTHER -> {}

StartInputs(t) ==
    CASE t[1] = "PROOF" -> {In(ProverStake, 0, 0)}
      [] t[1] = "CHALLENGE" -> {In(Proof, 2, 0)}
      [] t[1] = "PROOF_UNCONTESTED" ->
            {In(LockedFunds, 0, 0), In(Proof, 0, 0), In(Proof, 2, 0)}
      [] t[1] = "CHALLENGE_UNCONTESTED" -> {In(Proof, 0, 2)}
      [] OTHER -> {}

\* Mutant of StepInputs: STATE_UNCONTESTED goes through the condition without timeout.
StepInputsNoTimeout(t) ==
    CASE t[1] = "STATE" -> StateInputs(t[2])
      [] t[1] = "STATE_UNCONTESTED" -> {In(State(t[2]), 0, 0), In(LockedFunds, 0, 0)}
      [] t[1] = "SELECT" -> {In(State(t[2]), 0, 0)}
      [] t[1] = "SELECT_UNCONTESTED" -> {In(Select(t[2]), 0, 1)}
      [] OTHER -> {}

StepInputs(t) ==
    CASE t[1] = "STATE" -> StateInputs(t[2])
      [] t[1] = "STATE_UNCONTESTED" -> {In(State(t[2]), 0, 1), In(LockedFunds, 0, 0)}
      [] t[1] = "SELECT" -> {In(State(t[2]), 0, 0)}
      [] t[1] = "SELECT_UNCONTESTED" -> {In(Select(t[2]), 0, 1)}
      [] OTHER -> {}

\* Mutant of EndInputs: ARGUMENT_UNCONTESTED spends only the locked funds.
EndInputsFundsOnly(t) ==
    CASE t[1] = "ARGUMENT" -> {In(Select(Iterations - 1), i, 0) : i \in 0..8}
      [] t[1] = "PROOF_REFUTED" -> {In(Argument, 0, 0)}
      [] t[1] = "ARGUMENT_UNCONTESTED" -> {In(LockedFunds, 0, 0)}
      [] OTHER -> {}

EndInputs(t) ==
    CASE t[1] = "ARGUMENT" -> {In(Select(Iterations - 1), i, 0) : i \in 0..8}
      [] t[1] = "PROOF_REFUTED" -> {In(Argument, 0, 0)}
      [] t[1] = "ARGUMENT_UNCONTESTED" -> {In(Argument, 0, 1), In(LockedFunds, 0, 0)}
      [] OTHER -> {}

Inputs(t) == StartInputs(t) \cup StepInputs(t) \cup EndInputs(t)

(***************************************************************************)
(* Outputs: for every output the sequence of its spending conditions.      *)
(* timeoutBlocks 0 stands for an absent one (the code tests it for truth); *)
(* wots says whether the condition has a wotsSpec, that is, whether the    *)
(* spender's witness carries data that parseInput can decode.              *)
(***************************************************************************)
Sc(role, timeout, wots) ==
    [nextRole |-> role, timeoutBlocks |-> timeout, wots |-> wots]

Plain(role) == <<Sc(role, 0, FALSE)>>
Data(role) == <<Sc(role, 0, TRUE)>>

\* Mutant of StartOutputs: both timeouts of PROOF are small.
StartOutputsSmall(t) ==
    CASE t[1] = "LOCKED_FUNDS" -> <<Plain("PROVER")>>
      [] t[1] = "PROVER_STAKE" -> <<Data("PROVER")>>
      [] t[1] = "PROOF" ->
            << <<Sc("PROVER", SmallTimeout, FALSE),
                 Sc("PROVER", 0, TRUE),
                 Sc("VERIFIER", SmallTimeout, FALSE)>>,
               Data("PROVER"),
               Plain("VERIFIER") >>
      [] OTHER -> <<Plain("PROVER")>>

StartOutputs(t) ==
    CASE t[1] = "LOCKED_FUNDS" -> <<Plain("PROVER")>>
      [] t[1] = "PROVER_STAKE" -> <<Data("PROVER")>>
      [] t[1] = "PROOF" ->
            << <<Sc("PROVER", SmallTimeout, FALSE),
                 Sc("PROVER", 0, TRUE),
                 Sc("VERIFIER", LargeTimeout, FALSE)>>,
               Data("PROVER"),
               Plain("VERIFIER") >>
      [] t[1] \in {"CHALLENGE", "PROOF_UNCONTESTED"} -> <<Plain("PROVER")>>
      [] OTHER -> <<Plain("VERIFIER")>>   \* CHALLENGE_UNCONTESTED

\* The SELECT outputs carry the next state (two outputs) or, in the last
\* round, the whole argument (nine outputs); only output 0 has a timeout.
StepOutputs(t) ==
    CASE t[1] = "STATE" ->
            << <<Sc("VERIFIER", 0, TRUE), Sc("PROVER", SmallTimeout, FALSE)>> >>
      [] t[1] = "SELECT" ->
            LET count == IF t[2] + 1 < Iterations THEN 2 ELSE 9
            IN  [o \in 1..count |->
                    IF o = 1
                    THEN <<Sc("PROVER", 0, TRUE), Sc("VERIFIER", SmallTimeout, FALSE)>>
                    ELSE Data("PROVER")]
      [] t[1] = "STATE_UNCONTESTED" -> <<Plain("PROVER")>>
      [] OTHER -> <<Plain("VERIFIER")>>   \* SELECT_UNCONTESTED

EndOutputs(t) ==
    CASE t[1] = "ARGUMENT" ->
            << <<Sc("VERIFIER", 0, FALSE), Sc("PROVER", SmallTimeout, FALSE)>> >>
      [] t[1] = "PROOF_REFUTED" -> <<Plain("VERIFIER")>>
      [] OTHER -> <<Plain("PROVER")>>     \* ARGUMENT_UNCONTESTED

Outputs(t) ==
    CASE t[1] \in StepKinds -> StepOutputs(t)
      [] t[1] \in {"ARGUMENT", "PROOF_REFUTED", "ARGUMENT_UNCONTESTED"} -> EndOutputs(t)
      [] OTHER -> StartOutputs(t)

\* getSpendingConditionByInput
SpendingCondition(in) == Outputs(in.tx)[in.out + 1][in.sc + 1]

\* input.nSequence, the relative timelock that OP_CHECKSEQUENCEVERIFY enforces.
NSequence(in) == SpendingCondition(in).timeoutBlocks

\* The outpoints a template spends.
Spends(t) == {<<in.tx, in.out>> : in \in Inputs(t)}

(***************************************************************************)
(* Template.ordinal: the position in [...protocolStart, ...steps,          *)
(* ...protocolEnd].                                                        *)
(***************************************************************************)
Ordinal(t) ==
    CASE t[1] = "LOCKED_FUNDS" -> 0
      [] t[1] = "PROVER_STAKE" -> 1
      [] t[1] = "PROOF" -> 2
      [] t[1] = "CHALLENGE" -> 3
      [] t[1] = "PROOF_UNCONTESTED" -> 4
      [] t[1] = "CHALLENGE_UNCONTESTED" -> 5
      [] t[1] = "STATE" -> 6 + 4 * t[2]
      [] t[1] = "STATE_UNCONTESTED" -> 7 + 4 * t[2]
      [] t[1] = "SELECT" -> 8 + 4 * t[2]
      [] t[1] = "SELECT_UNCONTESTED" -> 9 + 4 * t[2]
      [] t[1] = "ARGUMENT" -> 6 + 4 * Iterations
      [] t[1] = "PROOF_REFUTED" -> 7 + 4 * Iterations
      [] OTHER -> 8 + 4 * Iterations      \* ARGUMENT_UNCONTESTED

(***************************************************************************)
(* assertOrder: every input names an existing output of an earlier         *)
(* template.  With getSpendingConditionByInput (initializeTemplates calls  *)
(* it on every input) the spending condition exists too.                   *)
(***************************************************************************)
AssertOrder ==
    \A t \in Names : \A in \in Inputs(t) :
        /\ in.tx \in Names
        /\ Ordinal(in.tx) < Ordinal(t)
        /\ in.out + 1 \in DOMAIN Outputs(in.tx)
        /\ in.sc + 1 \in DOMAIN Outputs(in.tx)[in.out + 1]

(***************************************************************************)
(* The templates that pay the prover's stake out and end the protocol.     *)
(* Those of the prover also release the locked funds.                      *)
(***************************************************************************)
ProverPayouts ==
    {ProofUncontested, ArgumentUncontested} \cup {StateUncontested(i) : i \in Rounds}
VerifierPayouts ==
    {ChallengeUncontested, ProofRefuted} \cup {SelectUncontested(i) : i \in Rounds}
Payouts == ProverPayouts \cup VerifierPayouts
=============================================================================
