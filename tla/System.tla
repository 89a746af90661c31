------------------------------- MODULE System -------------------------------
(***************************************************************************)
(* One peg-out, from the proof to the outcome in both databases: the       *)
(* prover's and the verifier's protocol processes, their listeners, their  *)
(* senders and the Bitcoin node, each a process of its own that interleaves*)
(* with all the others.                                                    *)
(*                                                                         *)
(* Both agents run this repository's code.  They may be slow, crash, or    *)
(* stop for good; an agent in Prompt finishes what it has to do before the *)
(* next block, as the timeouts (counted in blocks) expect it to.           *)
(***************************************************************************)
EXTENDS ProtocolProver, ProtocolVerifier

CONSTANTS
    Finality,       \* agentConf.blocksUntilFinalized
    Prompt,         \* the agents that keep up with the chain
    Live            \* the agents whose processes keep running (used in Fairness)

ASSUME FinalityAssumption == Finality \in Nat
ASSUME AgentAssumption == Prompt \subseteq Live /\ Live \subseteq Roles

vars == <<nodeVars, dbVars, senderVars, crashes, protocolVars>>

Init == NodeInit /\ SenderInit /\ ProtocolInit

Sends(a, V) == IF a = Prover THEN ProverSends(V) ELSE VerifierSends(V)
Marks(a, V) == IF a = Prover THEN ProverMarks(V) ELSE VerifierMarks(V)

\* The listener records the templates of the next finalized block of an
\* active setup.
ScanBlock(a) ==
    /\ setupStatus[a] = "ACTIVE"
    /\ scanned[a] < height - Finality
    /\ scanned' = [scanned EXCEPT ![a] = @ + 1]
    /\ received' = [received EXCEPT ![a] = @ \cup {t \in Protocol : conf[t] = scanned'[a]}]
    /\ UNCHANGED <<nodeVars, dbVars, senderVars, crashes, pc, view, awaited>>

\* Is there anything the agent's processes would still do at this height?
HasReaction(a, V) ==
    /\ V # {}
    /\ Marks(a, V) # {} \/ \E t \in Sends(a, V) : templateStatus[a][t] = "PENDING"

Busy(a) ==
    \/ Ready(a) # {}
    \/ phase[a] = "sending"
    \/ /\ setupStatus[a] = "ACTIVE"
       /\ \/ scanned[a] < height - Finality
          \/ pc[a] = "wait"
          \/ pc[a] = "examine" /\ HasReaction(a, view[a])
          \/ HasReaction(a, received[a])

Mine ==
    /\ \A a \in Prompt : ~Busy(a)
    /\ \E S \in SUBSET Mempool : MineBlock(S)
    /\ UNCHANGED <<dbVars, senderVars, crashes, protocolVars>>

Examine(a) == IF a = Prover THEN ProverExamine ELSE VerifierExamine

Broadcast(a) == \E t \in Protocol : BroadcastTransaction(a, t)

SenderStep(a) ==
    \/ HandleSpecialTransactions(a) /\ UNCHANGED protocolVars
    \/ SelectReady(a) /\ UNCHANGED protocolVars
    \/ Broadcast(a) /\ UNCHANGED protocolVars
    \/ CommitBroadcast(a) /\ UNCHANGED protocolVars

ProtocolStep(a) == Poll(a) \/ Examine(a) \/ Transmitted(a)

Crash(a) ==
    \/ SenderCrash(a) /\ UNCHANGED protocolVars
    \/ ProtocolCrash(a)

Next ==
    \/ Mine
    \/ PegOut
    \/ \E a \in Roles :
          \/ ScanBlock(a)
          \/ SenderStep(a)
          \/ ProtocolStep(a)
          \/ Crash(a)

Spec == Init /\ [][Next]_vars

(***************************************************************************)
(* Fairness.  The processes of a live agent are loops that run forever     *)
(* (while (true) with a sleep), and blocks keep coming.  Nothing is        *)
(* assumed of the other agents, and nobody is obliged to start a peg-out.  *)
(***************************************************************************)
Fairness ==
    /\ WF_vars(Mine)
    /\ \A a \in Live :
          /\ WF_vars(ScanBlock(a))
          /\ WF_vars(SenderStep(a))
          /\ WF_vars(ProtocolStep(a))

FairSpec == Spec /\ Fairness

-----------------------------------------------------------------------------

TypeOK ==
    /\ height \in 1 .. MaxHeight
    /\ conf \in [Names -> 0 .. height]
    /\ entered \in [Protocol -> 0 .. height]
    /\ proofValid \in BOOLEAN
    /\ setupStatus \in [Roles -> SetupStatus]
    /\ templateStatus \in [Roles -> [Protocol -> TemplateStatus]]
    /\ phase \in [Roles -> Phases]
    /\ \A a \in Roles :
          /\ DOMAIN batch[a] \subseteq Protocol
          /\ \A t \in DOMAIN batch[a] : batch[a][t] \in TemplateStatus \ {"PENDING"}
          /\ prepared[a] \subseteq SpecialTemplates(a)
          /\ awaited[a] \in IF pc[a] = "wait" THEN Protocol ELSE {NoTemplate}
    /\ crashes \in 0 .. MaxCrashes
    /\ scanned \in [Roles -> 1 .. height]
    /\ pc \in [Roles -> {"idle", "examine", "wait"}]
    /\ \A a \in Roles : view[a] \subseteq received[a] /\ received[a] \subseteq Confirmed

(***************************************************************************)
(* Two templates of a setup are never under way at the same time, so no    *)
(* block holds two of them.  last(incomingArray) and the in-memory search  *)
(* of the listener rely on it.                                             *)
(***************************************************************************)
OneTemplatePerBlock ==
    /\ Cardinality(Mempool) <= 1
    /\ \A t, u \in Confirmed \cap Protocol : conf[t] = conf[u] => t = u

(***************************************************************************)
(* PUBLISHED in the database means that the node has the transaction; and, *)
(* unless a sender died between sending and committing, REJECTED means     *)
(* that it has not.                                                        *)
(***************************************************************************)
StatusMatchesNode ==
    \A a \in Roles : \A t \in Protocol :
        /\ templateStatus[a][t] = "PUBLISHED" => t \in Mempool \cup Confirmed
        /\ templateStatus[a][t] = "REJECTED" /\ crashes = 0 => t \notin Mempool \cup Confirmed

SpecialRejected ==
    \E t \in SpecialTemplates(Verifier) : templateStatus[Verifier][t] = "REJECTED"

(***************************************************************************)
(* What the configured timeouts have to leave room for.  The defaults, 180 *)
(* and 360 blocks with blocksUntilFinalized 0, do.                         *)
(***************************************************************************)
VerifierMargin == Finality < SmallTimeout
ProverMargin ==
    /\ SmallTimeout + Finality + InclusionDelay + 1 < LargeTimeout
    /\ 2 * Finality + InclusionDelay + 1 < LargeTimeout

\* Without crashes a verifier never gets SELECT_UNCONTESTED through; with them
\* the small timeout has to leave the prover time to see the SELECT.
SelectMargin == crashes = 0 \/ Finality + 1 < SmallTimeout

(***************************************************************************)
(* A verifier that keeps up with the chain never lets an invalid proof be  *)
(* paid, however slow the prover is, unless its own sender has rejected    *)
(* CHALLENGE or PROOF_REFUTED.                                             *)
(***************************************************************************)
InvalidProofNotPaid ==
    Verifier \in Prompt /\ VerifierMargin /\ ~proofValid /\ ~SpecialRejected
        => ProverPayouts \cap Confirmed = {}

(***************************************************************************)
(* A prover that keeps up with the chain is never timed out, however late  *)
(* the verifier challenges: CHALLENGE_UNCONTESTED counts its timeout from  *)
(* the PROOF, not from the CHALLENGE, so the large timeout has to leave    *)
(* room for the small one.                                                 *)
(***************************************************************************)
PromptProverNotTimedOut ==
    Prover \in Prompt /\ ProverMargin /\ SelectMargin
        => Confirmed \cap ({ChallengeUncontested} \cup {SelectUncontested(i) : i \in Rounds}) = {}

(***************************************************************************)
(* The outcome an agent writes to its database is the one on the chain.    *)
(* The verifier may have given up on a PROOF_REFUTED its sender rejected.  *)
(***************************************************************************)
OutcomeOnChain ==
    \A a \in Roles :
        /\ setupStatus[a] = "PEGOUT_FAILED" => VerifierPayouts \cap Confirmed # {}
        /\ setupStatus[a] = "PEGOUT_SUCCESSFUL"
             => \/ ProverPayouts \cap Confirmed # {}
                \/ /\ a = Verifier
                   /\ templateStatus[a][ProofRefuted] = "REJECTED"

(***************************************************************************)
(* The agents, the databases and the senders produce only chains that the  *)
(* transaction graph allows.                                               *)
(***************************************************************************)
Flow == INSTANCE TxFlow WITH height <- height, conf <- conf
FlowSpec == Flow!Spec

-----------------------------------------------------------------------------
(***************************************************************************)
(* Liveness.  The chain of the model ends at MaxHeight, so each property   *)
(* speaks of a transaction that was confirmed early enough for the rest to *)
(* fit: an answer takes Turn blocks from the confirmation it answers.      *)
(***************************************************************************)
Turn == Finality + 1 + InclusionDelay

ConfirmedWithRoom(t, blocks) == t \in Confirmed /\ conf[t] + blocks <= MaxHeight

(***************************************************************************)
(* A prompt prover with a valid proof is paid in the first block the small *)
(* timeout and the inclusion delay allow.                                  *)
(***************************************************************************)
ValidProofPaid ==
    proofValid /\ ConfirmedWithRoom(Proof, SmallTimeout + 1 + InclusionDelay)
        ~> ProofUncontested \in Confirmed

(***************************************************************************)
(* With both agents prompt, an invalid proof ends in PROOF_REFUTED, after  *)
(* CHALLENGE, all the rounds and ARGUMENT, unless the verifier's sender    *)
(* rejects CHALLENGE or PROOF_REFUTED.                                     *)
(***************************************************************************)
InvalidProofRefuted ==
    ~proofValid /\ ConfirmedWithRoom(Proof, (2 * Iterations + 3) * Turn)
        ~> ProofRefuted \in Confirmed \/ SpecialRejected

(***************************************************************************)
(* With a prompt verifier, a prover that does not answer a CHALLENGE loses *)
(* its stake.                                                              *)
(***************************************************************************)
ChallengeAnswered ==
    ConfirmedWithRoom(Challenge, LargeTimeout + Turn)
        ~> State(0) \in Confirmed \/ ChallengeUncontested \in Confirmed

(***************************************************************************)
(* A prompt prover's setup is settled after every outcome but              *)
(* PROOF_REFUTED.                                                          *)
(***************************************************************************)
ProverSettles ==
    (\E t \in Payouts \ {ProofRefuted} : ConfirmedWithRoom(t, Finality))
        ~> setupStatus[Prover] # "ACTIVE"

-----------------------------------------------------------------------------
(* What the documentation and the comments say and the code does not do. *)

(***************************************************************************)
(* README.md: a prover that stays silent after SELECT_i is answered with   *)
(* SELECT_UNCONTESTED_i.                                                   *)
(***************************************************************************)
SelectAnswered ==
    \A i \in Rounds :
        ConfirmedWithRoom(Select(i), SmallTimeout + Turn) ~>
            \/ SelectUncontested(i) \in Confirmed
            \/ (IF i + 1 < Iterations THEN State(i + 1) ELSE Argument) \in Confirmed

(***************************************************************************)
(* "we lost, mark it": the verifier settles after STATE_UNCONTESTED.       *)
(***************************************************************************)
VerifierSettlesStateUncontested ==
    (\E i \in Rounds : ConfirmedWithRoom(StateUncontested(i), Finality))
        ~> setupStatus[Verifier] # "ACTIVE"

(***************************************************************************)
(* README.md: the verifier claims the stake if and only if the proof is    *)
(* shown to be invalid.                                                    *)
(***************************************************************************)
InvalidProofNeverPaid ==
    Verifier \in Prompt /\ ~proofValid => ProverPayouts \cap Confirmed = {}

=============================================================================
