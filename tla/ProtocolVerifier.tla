-------------------------- MODULE ProtocolVerifier --------------------------
(***************************************************************************)
(* The verifier's side of the protocol                                     *)
(* (src/agent/protocol-logic/protocol-verifier.ts).  checkProof is the     *)
(* variable proofValid; findErrorState finds an error in every state that  *)
(* was computed from an invalid proof.                                     *)
(***************************************************************************)
EXTENDS ProtocolBase

Verifier == "VERIFIER"

\* The iteration in the name of the SELECT_UNCONTESTED template that is sent
\* when the SELECT that ends V has timed out: selectionPath.length, after
\* that SELECT was pushed.
UncontestedIteration(V) == Selections(V)

\* Mutant of VerifierSends: the selection counts from one.
VerifierSendsNextRound(V) ==
    {t \in Protocol : \E last \in V :
        /\ IsLast(last, V)
        /\ \/ last = Proof /\ ~proofValid /\ t = Challenge
           \/ last = Challenge /\ CheckTimeout(Verifier, Proof) /\ t = ChallengeUncontested
           \/ last[1] = "STATE" /\ t = Select(Selections(V) + 1)
           \/ last = Argument /\ templateStatus[Verifier][ProofRefuted] = "PENDING"
              /\ t = ProofRefuted}

\* Mutant of VerifierSends: the timeout is looked for in CHALLENGE, not in PROOF.
VerifierSendsChallengeTimeout(V) ==
    {t \in Protocol : \E last \in V :
        /\ IsLast(last, V)
        /\ \/ last = Proof /\ ~proofValid /\ t = Challenge
           \/ last = Challenge /\ CheckTimeout(Verifier, last) /\ t = ChallengeUncontested
           \/ last[1] = "STATE" /\ t = Select(Selections(V))
           \/ last = Argument /\ templateStatus[Verifier][ProofRefuted] = "PENDING"
              /\ t = ProofRefuted}

\* The template process() asks to send when the snapshot is V.  A name that
\* no template has makes getTemplate throw: nothing is sent.  The branch
\* for STATE is also taken for STATE_UNCONTESTED, where findErrorState
\* throws on the missing state data.
VerifierSends(V) ==
    {t \in Protocol : \E last \in V :
        /\ IsLast(last, V)
        /\ \/ last = Proof /\ ~proofValid /\ t = Challenge
           \/ last = Challenge /\ CheckTimeout(Verifier, Proof) /\ t = ChallengeUncontested
           \/ last[1] = "STATE" /\ t = Select(Selections(V))
           \/ last[1] = "SELECT" /\ CheckTimeout(Verifier, last)
              /\ t = SelectUncontested(UncontestedIteration(V))
           \/ last = Argument /\ templateStatus[Verifier][ProofRefuted] = "PENDING"
              /\ t = ProofRefuted}

\* Mutant of VerifierMarks: a refuted proof counts as a successful peg-out.
VerifierMarksRefuted(V) ==
    {s \in SetupStatus :
        \/ s = "PEGOUT_SUCCESSFUL" /\ V \cap {ProofUncontested, ArgumentUncontested, ProofRefuted} # {}
        \/ s = "PEGOUT_FAILED" /\ ChallengeUncontested \in V}

\* The outcome process() writes to the setup.  The branches for
\* STATE_UNCONTESTED and SELECT_UNCONTESTED are never reached: the tests for
\* the prefixes STATE and SELECT come first and throw.
VerifierMarks(V) ==
    {s \in SetupStatus :
        \/ s = "PEGOUT_SUCCESSFUL"
           /\ \/ V \cap {ProofUncontested, ArgumentUncontested} # {}
              \/ IsLast(Argument, V) /\ templateStatus[Verifier][ProofRefuted] = "REJECTED"
        \/ s = "PEGOUT_FAILED" /\ V \cap {ChallengeUncontested, ProofRefuted} # {}}

VerifierExamine ==
    /\ pc[Verifier] = "examine"
    /\ \E V \in {view[Verifier]} :
          \/ \E s \in VerifierMarks(V) : MarkSetupStatus(Verifier, s)
          \/ VerifierMarks(V) = {} /\ \E t \in VerifierSends(V) : SendTransaction(Verifier, t)
          \/ VerifierMarks(V) = {} /\ VerifierSends(V) = {} /\ Return(Verifier)

=============================================================================
