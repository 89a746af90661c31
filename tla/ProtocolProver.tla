--------------------------- MODULE ProtocolProver ---------------------------
(***************************************************************************)
(* The prover's side of the protocol                                       *)
(* (src/agent/protocol-logic/protocol-prover.ts).  The proof, the states   *)
(* and the argument are data that every reader of the model can recompute; *)
(* only whether the proof is valid matters to the control.                 *)
(***************************************************************************)
EXTENDS ProtocolBase

Prover == "PROVER"

\* Mutant of ProverSends: the case for PROOF falls through to the one for CHALLENGE.
ProverSendsFallThrough(V) ==
    LET n == Selections(V)
    IN  {t \in Protocol : \E last \in V :
            /\ IsLast(last, V)
            /\ \/ last \in {Proof, Challenge} /\ t = State(0)
               \/ last = Argument /\ CheckTimeout(Prover, last) /\ t = ArgumentUncontested
               \/ StartsWith(last, "STATE") /\ CheckTimeout(Prover, last)
                  /\ t = StateUncontested(n)
               \/ last[1] = "SELECT" /\ n < Iterations /\ t = State(n)
               \/ last[1] = "SELECT" /\ n >= Iterations /\ t = Argument}

\* Mutant of ProverSends: one state too many before the argument.
ProverSendsLateArgument(V) ==
    LET n == Selections(V)
    IN  {t \in Protocol : \E last \in V :
            /\ IsLast(last, V)
            /\ \/ last = Proof /\ CheckTimeout(Prover, last) /\ t = ProofUncontested
               \/ last = Challenge /\ t = State(0)
               \/ last = Argument /\ CheckTimeout(Prover, last) /\ t = ArgumentUncontested
               \/ StartsWith(last, "STATE") /\ CheckTimeout(Prover, last)
                  /\ t = StateUncontested(n)
               \/ last[1] = "SELECT" /\ n <= Iterations /\ t = State(n)
               \/ last[1] = "SELECT" /\ n > Iterations /\ t = Argument}

\* The template process() asks to send when the snapshot is V.
ProverSends(V) ==
    LET n == Selections(V)
    IN  {t \in Protocol : \E last \in V :
            /\ IsLast(last, V)
            /\ \/ last = Proof /\ CheckTimeout(Prover, last) /\ t = ProofUncontested
               \/ last = Challenge /\ t = State(0)
               \/ last = Argument /\ CheckTimeout(Prover, last) /\ t = ArgumentUncontested
               \/ StartsWith(last, "STATE") /\ CheckTimeout(Prover, last)
                  /\ t = StateUncontested(n)
               \/ last[1] = "SELECT" /\ n < Iterations /\ t = State(n)
               \/ last[1] = "SELECT" /\ n >= Iterations /\ t = Argument}

\* Mutant of ProverMarks: STATE_UNCONTESTED is not recognised as an outcome.
ProverMarksNoState(V) ==
    {s \in SetupStatus :
        \/ s = "PEGOUT_SUCCESSFUL" /\ V \cap {ProofUncontested, ArgumentUncontested} # {}
        \/ s = "PEGOUT_FAILED" /\ ChallengeUncontested \in V}

\* The outcome process() writes to the setup.  PROOF_REFUTED has no case; for
\* SELECT_UNCONTESTED parseSelection throws before the mark, because the
\* spending condition has no wotsSpec and parseInput returns nothing.
ProverMarks(V) ==
    {s \in SetupStatus :
        \/ s = "PEGOUT_SUCCESSFUL"
           /\ \E t \in V : t[1] \in {"PROOF_UNCONTESTED", "ARGUMENT_UNCONTESTED", "STATE_UNCONTESTED"}
        \/ s = "PEGOUT_FAILED" /\ ChallengeUncontested \in V}

\* send-proof.ts: a separate process that starts the peg-out.
PegOut ==
    /\ templateStatus[Prover][Proof] = "PENDING"
    /\ templateStatus' = [templateStatus EXCEPT ![Prover][Proof] = "READY"]
    /\ UNCHANGED <<nodeVars, setupStatus, senderVars, crashes, protocolVars>>

ProverExamine ==
    /\ pc[Prover] = "examine"
    /\ \E V \in {view[Prover]} :
          \/ \E s \in ProverMarks(V) : MarkSetupStatus(Prover, s)
          \/ ProverMarks(V) = {} /\ \E t \in ProverSends(V) : SendTransaction(Prover, t)
          \/ ProverMarks(V) = {} /\ ProverSends(V) = {} /\ Return(Prover)

=============================================================================
