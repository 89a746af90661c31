----------------------------- MODULE PromptProofs -----------------------------
(***************************************************************************)
(* What an agent that keeps up with the chain achieves, for any number of  *)
(* rounds, any timeouts that leave it the room and any behaviour of the    *)
(* other agent: a prompt verifier never lets an invalid proof be paid, a   *)
(* prompt prover is never timed out.  Both proofs have the same shape: a   *)
(* template of the line that is Finality blocks deep is answered before    *)
(* the next block, so the timeout template that contests the same outpoint *)
(* comes too late for the mempool.                                         *)
(***************************************************************************)
EXTENDS SystemProofs

Asked(t) == templateStatus[Role(t)][t] # "PENDING"

\* Rejected by its sender, though perhaps not yet in the database.
Refused(t) == CurrentStatus(Role(t), t) = "REJECTED"

\* Nobody asks for a timeout template before checkTimeout allows it.
TimeoutAsked ==
    /\ \A t \in ProverPayouts : Asked(t) => conf[Trigger(t)] + SmallTimeout <= height
    /\ Asked(ChallengeUncontested) => conf[Proof] + LargeTimeout <= height

\* The transactions that the setup starts from stay on the chain.
FundsLocked == External \subseteq Confirmed

\* No transaction waits in the mempool for more than InclusionDelay blocks.
MinedSoon == \A t \in Mempool : height <= entered[t] + InclusionDelay

\* x is answered with y as soon as it is n blocks deep.
Answered(x, y, n) == x \in Confirmed /\ conf[x] + n < height => y \in Known

-----------------------------------------------------------------------------

VerifierAlert == Verifier \in Prompt /\ VerifierMargin /\ ~proofValid /\ ~SpecialRejected

Unpaid == ProverPayouts \cap Known = {}

VerifierAnswered ==
    /\ Answered(Proof, Challenge, Finality)
    /\ Answered(Argument, ProofRefuted, Finality)
    /\ \A i \in Rounds : Answered(State(i), Select(i), Finality)

\* The node refuses a SELECT only when it has it.
SelectRefused == \A i \in Rounds : Refused(Select(i)) => Select(i) \in Known

PaidInv == VerifierAlert => Unpaid /\ VerifierAnswered /\ SelectRefused

-----------------------------------------------------------------------------

ProverAlert == Prover \in Prompt /\ ProverMargin /\ SelectMargin

NotTimedOut == ({ChallengeUncontested} \cup Uncontestable) \cap Known = {}

\* The prover's answer to SELECT_i.
NextAnswer(i) == IF i + 1 \in Rounds THEN State(i + 1) ELSE Argument

\* Blocks after which the PROOF is answered, by a CHALLENGE or by the prover.
Patience == IF SmallTimeout < Finality THEN Finality ELSE SmallTimeout

ProofAnswered ==
    Proof \in Confirmed /\ conf[Proof] + Patience < height => {Challenge, ProofUncontested} \cap Known # {}

\* A CHALLENGE comes before PROOF_UNCONTESTED would, or never.
ChallengeSoon ==
    /\ Challenge \in Mempool => entered[Challenge] <= conf[Proof] + Patience
    /\ Challenge \in Confirmed => conf[Challenge] <= conf[Proof] + Patience + InclusionDelay + 1

ProverAnswered ==
    /\ Answered(Challenge, State(0), Finality)
    /\ \A i \in Rounds : Answered(Select(i), NextAnswer(i), Finality)

\* The node refuses an answer of the prover only when it has it, and
\* PROOF_UNCONTESTED only when it has that or the CHALLENGE.
AnswerRefused ==
    /\ \A i \in Rounds : Refused(State(i)) => State(i) \in Known
    /\ Refused(Argument) => Argument \in Known
    /\ Refused(ProofUncontested) => {Challenge, ProofUncontested} \cap Known # {}

InTimeInv ==
    ProverAlert => NotTimedOut /\ ProofAnswered /\ ChallengeSoon /\ ProverAnswered /\ AnswerRefused

-----------------------------------------------------------------------------

\* The verifier asks for SELECT_i with STATE_i before its eyes, and then
\* sees STATE_i whenever it looks.
SelectAsked ==
    \A i \in Rounds : Asked(Select(i)) =>
        /\ State(i) \in received[Verifier]
        /\ pc[Verifier] = "examine" => State(i) \in view[Verifier]

\* Until a process dies, the verifier waits for whatever its sender still has.
OneAsked ==
    crashes = 0 => \A t \in Protocol : templateStatus[Verifier][t] = "READY" =>
        pc[Verifier] = "wait" /\ awaited[Verifier] = t

\* So SELECT_UNCONTESTED_i and SELECT_i are not asked for together.
NeverTogether ==
    crashes = 0 => \A i \in Rounds : templateStatus[Verifier][SelectUncontested(i)] = "READY" => ~Asked(Select(i))

WaitInv == SelectAsked /\ OneAsked /\ NeverTogether

-----------------------------------------------------------------------------

(***************************************************************************)
(* A template that was PENDING is asked for by process(), whose snapshot   *)
(* it answers; PROOF is asked for by send-proof.ts.                        *)
(***************************************************************************)
LEMMA AskedNew ==
    ASSUME AgentType, StatusInv, [Next]_vars, NEW b \in Roles, NEW t \in Protocol,
           templateStatus[b][t] = "PENDING", templateStatus'[b][t] # "PENDING"
    PROVE  \/ t = Proof
           \/ /\ pc[b] = "examine" /\ t \in Sends(b, view[b]) /\ SendTransaction(b, t)
              /\ UNCHANGED <<height, conf, crashes>>
<1> USE DEF AgentType, TypeSender
<1>1. CASE PegOut
  BY <1>1 DEF PegOut
<1>2. ASSUME NEW a \in Roles, Examine(a)
      PROVE  /\ pc[b] = "examine" /\ t \in Sends(b, view[b]) /\ SendTransaction(b, t)
             /\ UNCHANGED <<height, conf, crashes>>
  <2>1. PICK u \in Protocol : pc[a] = "examine" /\ u \in Sends(a, view[a]) /\ SendTransaction(a, u)
    BY <1>2, ExamineCases DEF MarkSetupStatus, Return, dbVars
  <2>2. a = b /\ u = t
    <3>1. CASE templateStatus[a][u] = "PENDING"
      BY <2>1, <3>1 DEF SendTransaction
    <3>2. CASE templateStatus[a][u] # "PENDING"
      BY <2>1, <3>2 DEF SendTransaction
    <3> QED
      BY <3>1, <3>2
  <2> QED
    BY <2>1, <2>2 DEF SendTransaction, nodeVars
<1>3. ASSUME NEW a \in Roles, HandleSpecialTransactions(a) PROVE FALSE
  BY <1>3 DEF HandleSpecialTransactions, Ready
<1>4. ASSUME NEW a \in Roles, CommitBroadcast(a) PROVE FALSE
  BY <1>4 DEF CommitBroadcast, StatusInv, BatchReady
<1>5. Mine \/ UNCHANGED vars => UNCHANGED templateStatus
  BY DEF Mine, vars, dbVars
<1>6. ASSUME NEW a \in Roles, ScanBlock(a) \/ SelectReady(a) \/ Poll(a) \/ Transmitted(a) \/ Crash(a)
      PROVE  UNCHANGED templateStatus
  BY <1>6 DEF ScanBlock, SelectReady, Poll, Transmitted, Crash, SenderCrash, ProtocolCrash, dbVars
<1>7. ASSUME NEW a \in Roles, Broadcast(a) PROVE UNCHANGED templateStatus
  BY <1>7 DEF Broadcast, BroadcastTransaction, dbVars
<1> QED
  BY <1>1, <1>2, <1>3, <1>4, <1>5, <1>6, <1>7 DEF Next, SenderStep, ProtocolStep

(***************************************************************************)
(* The node learns of a template when its owner's sender, which has it in  *)
(* its batch, gets it accepted.                                            *)
(***************************************************************************)
LEMMA SentNew ==
    ASSUME AgentType, NodeInv, StatusInv, [Next]_vars, NEW t \in Protocol, t \notin Known, t \in Known'
    PROVE  /\ TestMempoolAccept(t)
           /\ t \in Mempool' /\ entered'[t] = height /\ UNCHANGED <<height, conf>>
           /\ templateStatus[Role(t)][t] = "READY" /\ Role(t) \in Roles
<1>1. ASSUME NEW a \in Roles, NEW u \in Protocol, BroadcastTransaction(a, u)
      PROVE  /\ TestMempoolAccept(t)
             /\ t \in Mempool' /\ entered'[t] = height /\ UNCHANGED <<height, conf>>
             /\ templateStatus[Role(t)][t] = "READY"
  <2>1. TestMempoolAccept(u) /\ SendRawTransaction(u)
    BY <1>1 DEF BroadcastTransaction, nodeVars, Known, Mempool, Confirmed
  <2>2. u = t
    BY <2>1 DEF SendRawTransaction, Known, Mempool, Confirmed
  <2>3. t \in Mempool' /\ entered'[t] = height
    BY <2>1, <2>2 DEF SendRawTransaction, Mempool, NodeInv, NodeType
  <2>4. templateStatus[a][t] = "READY" /\ Role(t) = a
    BY <1>1, <2>2 DEF BroadcastTransaction, Unsent, StatusInv, BatchReady, OwnTemplates
  <2> QED
    BY <2>1, <2>2, <2>3, <2>4 DEF SendRawTransaction
<1>2. UNCHANGED nodeVars => FALSE
  BY DEF nodeVars, Known, Mempool, Confirmed
<1>3. Mine => FALSE
  BY ExtendKnown DEF Mine, Extend
<1>4. ASSUME NEW a \in Roles, SenderStep(a)
      PROVE  \/ UNCHANGED nodeVars
             \/ \E u \in Protocol : BroadcastTransaction(a, u)
  BY <1>4 DEF SenderStep, Broadcast, HandleSpecialTransactions, SelectReady, CommitBroadcast
<1>5. ASSUME NEW a \in Roles, Examine(a) PROVE UNCHANGED nodeVars
  BY <1>5, ExamineCases DEF MarkSetupStatus, SendTransaction, Return
<1>6. ASSUME NEW a \in Roles, ScanBlock(a) \/ Poll(a) \/ Transmitted(a) \/ Crash(a) PROVE UNCHANGED nodeVars
  BY <1>6 DEF ScanBlock, Poll, Transmitted, Crash, SenderCrash, ProtocolCrash
<1>7. PegOut \/ UNCHANGED vars => UNCHANGED nodeVars
  BY DEF PegOut, vars, nodeVars
<1>8. Role(t) \in Roles
  BY DEF Role, Roles
<1> QED
  BY <1>1, <1>2, <1>3, <1>4, <1>5, <1>6, <1>7, <1>8 DEF Next, ProtocolStep

(***************************************************************************)
(* A template is rejected by handle_special_transactions, or because the   *)
(* node refused it.                                                        *)
(***************************************************************************)
LEMMA RefusedNew ==
    ASSUME AgentType, StatusInv, [Next]_vars, NEW t \in Protocol, t \notin SpecialTemplates(Role(t)),
           ~Refused(t), Refused(t)'
    PROVE  Asked(t) /\ ~TestMempoolAccept(t) /\ UNCHANGED <<height, conf>>
<1> DEFINE b == Role(t)
<1> USE DEF AgentType, TypeSender, PerAgent, Refused
<1>0. b \in Roles
  BY DEF Role, Roles
<1>1. ASSUME UNCHANGED <<templateStatus, batch>> PROVE FALSE
  BY <1>1 DEF CurrentStatus
<1>2. ASSUME NEW a \in Roles, HandleSpecialTransactions(a) PROVE FALSE
  BY <1>0, <1>2 DEF HandleSpecialTransactions, CurrentStatus
<1>3. ASSUME NEW a \in Roles, SelectReady(a) PROVE FALSE
  <2>1. batch'[a] = [u \in Ready(a) |-> "READY"] /\ \A c \in Roles \ {a} : batch'[c] = batch[c]
    BY <1>3 DEF SelectReady
  <2>2. UNCHANGED templateStatus /\ DOMAIN batch[a] = {}
    BY <1>3 DEF SelectReady, StatusInv, BatchReady, dbVars
  <2> QED
    BY <1>0, <2>1, <2>2 DEF CurrentStatus
<1>4. ASSUME NEW a \in Roles, NEW u \in Protocol, BroadcastTransaction(a, u)
      PROVE  Asked(t) /\ ~TestMempoolAccept(t) /\ UNCHANGED <<height, conf>>
  <2>1. u \in DOMAIN batch[a] /\ templateStatus[a][u] = "READY" /\ UNCHANGED templateStatus
    BY <1>4 DEF BroadcastTransaction, Unsent, StatusInv, BatchReady, dbVars
  <2>2. PICK s \in {"PUBLISHED", "REJECTED"} : batch' = [batch EXCEPT ![a][u] = s]
    BY <1>4 DEF BroadcastTransaction
  <2>3. a = b /\ u = t /\ s = "REJECTED"
    BY <1>0, <2>1, <2>2 DEF CurrentStatus
  <2>4. ~ (Complete(a, u) /\ TestMempoolAccept(u)) /\ UNCHANGED nodeVars
    <3>1. batch'[a][u] = "REJECTED" /\ [batch EXCEPT ![a][u] = "PUBLISHED"][a][u] = "PUBLISHED"
      BY <2>1, <2>2, <2>3
    <3> QED
      BY <1>4, <3>1 DEF BroadcastTransaction
  <2> QED
    BY <2>1, <2>3, <2>4 DEF Complete, Asked, nodeVars
<1>5. ASSUME NEW a \in Roles, CommitBroadcast(a) PROVE FALSE
  <2>1. /\ templateStatus'[a] = [u \in Protocol |-> CurrentStatus(a, u)]
        /\ \A c \in Roles \ {a} : templateStatus'[c] = templateStatus[c]
    BY <1>5 DEF CommitBroadcast, CurrentStatus
  <2>2. DOMAIN batch'[a] = {} /\ \A c \in Roles \ {a} : batch'[c] = batch[c]
    BY <1>5 DEF CommitBroadcast, Nothing
  <2> QED
    BY <1>0, <2>1, <2>2 DEF CurrentStatus
<1>6. ASSUME NEW a \in Roles, SenderCrash(a) PROVE FALSE
  <2>1. DOMAIN batch'[a] = {} /\ UNCHANGED templateStatus /\ \A c \in Roles \ {a} : batch'[c] = batch[c]
    BY <1>6 DEF SenderCrash, Nothing, dbVars
  <2> QED
    BY <1>0, <2>1 DEF CurrentStatus, StatusInv, BatchReady
<1>7. ASSUME NEW a \in Roles, Examine(a) PROVE FALSE
  <2>1. PICK u \in Protocol : SendTransaction(a, u)
    BY <1>1, <1>7, ExamineCases DEF MarkSetupStatus, Return, dbVars, senderVars
  <2>2. \A c \in Roles : \A v \in Protocol :
            templateStatus'[c][v] # templateStatus[c][v] => templateStatus'[c][v] = "READY"
    <3>1. CASE templateStatus[a][u] = "PENDING"
      BY <2>1, <3>1 DEF SendTransaction
    <3>2. CASE templateStatus[a][u] # "PENDING"
      BY <2>1, <3>2 DEF SendTransaction
    <3> QED
      BY <3>1, <3>2
  <2> QED
    BY <1>0, <2>1, <2>2 DEF SendTransaction, senderVars, CurrentStatus
<1>8. CASE PegOut
  BY <1>0, <1>8 DEF PegOut, senderVars, CurrentStatus
<1>9. Mine \/ UNCHANGED vars => FALSE
  BY <1>1 DEF Mine, vars, dbVars, senderVars
<1>10. ASSUME NEW a \in Roles, ScanBlock(a) \/ Poll(a) \/ Transmitted(a) \/ ProtocolCrash(a) PROVE FALSE
  BY <1>1, <1>10 DEF ScanBlock, Poll, Transmitted, ProtocolCrash, dbVars, senderVars
<1> QED
  BY <1>2, <1>3, <1>4, <1>5, <1>6, <1>7, <1>8, <1>9, <1>10 DEF Next, SenderStep, Broadcast, ProtocolStep, Crash

(***************************************************************************)
(* Heights change with a new block only.                                   *)
(***************************************************************************)
LEMMA HeightStep ==
    ASSUME [Next]_vars PROVE Mine \/ UNCHANGED <<height, conf>>
<1>1. CASE Mine
  BY <1>1
<1>2. ASSUME NEW a \in Roles, SenderStep(a) PROVE UNCHANGED <<height, conf>>
  BY <1>2 DEF SenderStep, Broadcast, BroadcastTransaction, SendRawTransaction, HandleSpecialTransactions,
              SelectReady, CommitBroadcast, nodeVars
<1>3. ASSUME NEW a \in Roles, Examine(a) PROVE UNCHANGED <<height, conf>>
  BY <1>3, ExamineCases DEF MarkSetupStatus, SendTransaction, Return, nodeVars
<1>4. ASSUME NEW a \in Roles, ScanBlock(a) \/ Poll(a) \/ Transmitted(a) \/ Crash(a)
      PROVE  UNCHANGED <<height, conf>>
  BY <1>4 DEF ScanBlock, Poll, Transmitted, Crash, SenderCrash, ProtocolCrash, nodeVars
<1>5. PegOut \/ UNCHANGED vars => UNCHANGED <<height, conf>>
  BY DEF PegOut, vars, nodeVars
<1> QED
  BY <1>1, <1>2, <1>3, <1>4, <1>5 DEF Next, ProtocolStep

(***************************************************************************)
(* What process() asks for answers the last template of its snapshot.      *)
(***************************************************************************)
LEMMA AnswersLast ==
    ASSUME AgentType, NodeInv, AdvanceInv, NEW t
    PROVE  /\ t \in Sends(Prover, view[Prover])
                => \E l \in view[Prover] : IsLast(l, view[Prover]) /\ ProverAnswer(l, t)
           /\ t \in Sends(Verifier, view[Verifier])
                => \E l \in view[Verifier] : IsLast(l, view[Verifier]) /\ VerifierAnswer(l, t)
<1>1. Prefix(view[Prover]) /\ Prefix(view[Verifier]) /\ Prover # Verifier
  BY DEF AdvanceInv, ViewPrefix, Roles, Prover, Verifier
<1>2. ASSUME t \in Sends(Prover, view[Prover])
      PROVE  \E l \in view[Prover] : IsLast(l, view[Prover]) /\ ProverAnswer(l, t)
  <2>1. t \in ProverSends(view[Prover])
    BY <1>2 DEF Sends
  <2>2. PICK last : IsLast(last, view[Prover])
    BY <2>1 DEF ProverSends
  <2> QED
    BY <1>1, <2>1, <2>2, ProverSendsAnswer DEF AdvanceInv
<1>3. ASSUME t \in Sends(Verifier, view[Verifier])
      PROVE  \E l \in view[Verifier] : IsLast(l, view[Verifier]) /\ VerifierAnswer(l, t)
  <2>1. t \in VerifierSends(view[Verifier])
    BY <1>1, <1>3 DEF Sends
  <2>2. PICK last : IsLast(last, view[Verifier])
    BY <2>1 DEF VerifierSends
  <2> QED
    BY <1>1, <2>1, <2>2, VerifierSendsAnswer DEF AdvanceInv
<1> QED
  BY <1>2, <1>3

(***************************************************************************)
(* The payouts are timeouts, but for PROOF_REFUTED, and not on the line.   *)
(***************************************************************************)
LEMMA PayoutFacts ==
    /\ \A p \in ProverPayouts : p \in Protocol \ Line /\ p # Proof /\ p \notin Uncontestable /\ Role(p) = Prover
    /\ \A p \in VerifierPayouts : p \in Protocol \ Line /\ p # Proof /\ Role(p) = Verifier
    /\ ProverPayouts \cap VerifierPayouts = {}
BY DEF ProverPayouts, VerifierPayouts, Protocol, OnceKinds, StepKinds, Line, Uncontestable, Role, VerifierKinds,
       Prover, Verifier, Once, Proof, Challenge, ProofUncontested, ChallengeUncontested, Argument, ProofRefuted,
       ArgumentUncontested, State, StateUncontested, Select, SelectUncontested

(***************************************************************************)
(* What is confirmed stays where it is, and blocks only add to the chain.  *)
(***************************************************************************)
LEMMA ConfStep ==
    ASSUME AgentType, NodeInv, [Next]_vars
    PROVE  /\ \A t \in Confirmed : t \in Confirmed' /\ conf'[t] = conf[t] /\ conf[t] \in Nat /\ conf[t] <= height
           /\ height \in Nat /\ height' \in Nat /\ height <= height'
<1>1. \A t \in Confirmed : conf[t] \in Nat /\ conf[t] <= height
  BY DEF AgentType, TypeNode, Confirmed
<1>2. height \in Nat
  BY DEF AgentType, TypeNode
<1>3. CASE Mine
  BY <1>1, <1>2, <1>3, BlockEffect DEF Mine
<1>4. CASE UNCHANGED <<height, conf>>
  BY <1>1, <1>2, <1>4 DEF Confirmed
<1> QED
  BY <1>3, <1>4, HeightStep

(***************************************************************************)
(* Nothing the node knows is forgotten.                                    *)
(***************************************************************************)
LEMMA KnownStep ==
    ASSUME AgentType, NodeInv, [Next]_vars PROVE Known \subseteq Known'
<1>1. CASE Accept
  BY <1>1, ConfStep DEF Accept, SendRawTransaction, Known, Mempool, NodeInv, NodeType
<1>2. CASE Extend
  BY <1>2, ExtendKnown
<1>3. CASE UNCHANGED nodeVars
  BY <1>3 DEF nodeVars, Known, Mempool, Confirmed
<1> QED
  BY <1>1, <1>2, <1>3, NodeSteps

(***************************************************************************)
(* Every timeout template is asked for after its timeout.                  *)
(***************************************************************************)
LEMMA TimeoutStep ==
    ASSUME AgentType, NodeInv, StatusInv, AdvanceInv, TimeoutAsked, [Next]_vars PROVE TimeoutAsked'
<1>1. ASSUME NEW p \in ProverPayouts, Asked(p)' PROVE conf'[Trigger(p)] + SmallTimeout <= height'
  <2>1. p \in Protocol /\ p # Proof /\ p \notin Uncontestable /\ Role(p) = Prover /\ Prover \in Roles
    BY PayoutFacts DEF Prover, Roles
  <2>2. CASE Asked(p)
    <3>1. Trigger(p) \in Confirmed /\ conf[Trigger(p)] + SmallTimeout <= height
      BY <2>1, <2>2 DEF AdvanceInv, AskedTrigger, TimeoutAsked, Asked
    <3> QED
      BY <3>1, ConfStep, TimeoutAssumption
  <2>3. CASE ~Asked(p)
    <3>1. p \in Sends(Prover, view[Prover]) /\ UNCHANGED <<height, conf>>
      BY <1>1, <2>1, <2>3, AskedNew DEF Asked
    <3>2. PICK l \in view[Prover] : ProverAnswer(l, p)
      BY <3>1, AnswersLast
    <3>3. conf[Trigger(p)] + SmallTimeout <= height
      BY <3>2, Triggers DEF ProverAnswer, ProverPayouts, ProofUncontested, ArgumentUncontested, StateUncontested,
                            State, Argument, Once
    <3> QED
      BY <3>1, <3>3
  <2> QED
    BY <2>2, <2>3
<1>2. ASSUME Asked(ChallengeUncontested)' PROVE conf'[Proof] + LargeTimeout <= height'
  <2>1. /\ ChallengeUncontested \in Protocol /\ ChallengeUncontested # Proof
        /\ Role(ChallengeUncontested) = Verifier /\ Verifier \in Roles
    BY PayoutFacts DEF VerifierPayouts, Verifier, Roles
  <2>2. CASE Asked(ChallengeUncontested)
    <3>1. ChallengeUncontested \notin Uncontestable
      BY DEF Uncontestable, ChallengeUncontested, SelectUncontested, Once
    <3>2. Challenge \in Confirmed /\ Challenge \in Protocol \cap Known
      BY <2>1, <2>2, <3>1, Triggers, TriggerPosition DEF AdvanceInv, AskedTrigger, Asked, Known, Line
    <3>3. Proof \in Line /\ Position(Proof) < Position(Challenge)
      BY Positions DEF Line
    <3>4. Proof \in Confirmed
      BY <3>2, <3>3 DEF AdvanceInv, LineInv
    <3>5. conf[Proof] + LargeTimeout <= height
      BY <2>2 DEF TimeoutAsked
    <3> QED
      BY <3>4, <3>5, ConfStep, TimeoutAssumption
  <2>3. CASE ~Asked(ChallengeUncontested)
    <3>1. ChallengeUncontested \in Sends(Verifier, view[Verifier]) /\ UNCHANGED <<height, conf>>
      BY <1>2, <2>1, <2>3, AskedNew DEF Asked
    <3>2. PICK l \in view[Verifier] : VerifierAnswer(l, ChallengeUncontested)
      BY <3>1, AnswersLast
    <3>3. conf[Proof] + LargeTimeout <= height
      BY <3>2 DEF VerifierAnswer, ChallengeUncontested, Challenge, ProofRefuted, Select, SelectUncontested, Once
    <3> QED
      BY <3>1, <3>3
  <2> QED
    BY <2>2, <2>3
<1> QED
  BY <1>1, <1>2 DEF TimeoutAsked

(***************************************************************************)
(* Miners pass a transaction over for a bounded time.                      *)
(***************************************************************************)
LEMMA MinedStep ==
    ASSUME AgentType, NodeInv, MinedSoon, [Next]_vars PROVE MinedSoon'
<1>1. \A t \in Protocol : entered[t] \in Nat /\ height \in Nat
  BY DEF NodeInv, NodeType
<1>2. CASE Accept
  <2>1. PICK t \in Protocol : SendRawTransaction(t)
    BY <1>2 DEF Accept
  <2> QED
    BY <1>1, <2>1, NodeAssumption DEF SendRawTransaction, MinedSoon, Mempool, NodeInv, NodeType
<1>3. CASE Extend
  <2>1. PICK S \in SUBSET Mempool : MineBlock(S)
    BY <1>3 DEF Extend
  <2>2. ASSUME NEW t \in Mempool' PROVE height' <= entered'[t] + InclusionDelay
    <3>1. t \in Protocol /\ t \in Mempool \ S /\ entered'[t] = entered[t] /\ height' = height + 1
      BY <2>1, BlockEffect DEF MineBlock, Mempool
    <3>2. height - entered[t] < InclusionDelay
      BY <2>1, <3>1 DEF MineBlock
    <3> QED
      BY <1>1, <3>1, <3>2, NodeAssumption
  <2> QED
    BY <2>2 DEF MinedSoon
<1>4. CASE UNCHANGED nodeVars
  BY <1>4 DEF nodeVars, MinedSoon, Mempool
<1> QED
  BY <1>2, <1>3, <1>4, NodeSteps

-----------------------------------------------------------------------------

(***************************************************************************)
(* What an agent has received it keeps, and it looks at all of it.         *)
(***************************************************************************)
LEMMA ViewStep ==
    ASSUME AgentType, [Next]_vars, NEW b \in Roles
    PROVE  /\ received[b] \subseteq received'[b]
           /\ pc'[b] = "examine" => view'[b] = received[b] \/ (pc[b] = "examine" /\ view'[b] = view[b])
<1> USE DEF AgentType, TypeProtocol, PerAgent
<1>1. ASSUME NEW a \in Roles, ScanBlock(a)
      PROVE  received[b] \subseteq received'[b] /\ UNCHANGED <<pc, view>>
  BY <1>1 DEF ScanBlock
<1>2. ASSUME NEW a \in Roles, Poll(a) \/ Transmitted(a) \/ ProtocolCrash(a)
      PROVE  /\ UNCHANGED received
             /\ pc'[b] = "examine" => view'[b] = received[b] \/ (pc[b] = "examine" /\ view'[b] = view[b])
  BY <1>2 DEF Poll, Transmitted, ProtocolCrash, listenerVars
<1>3. ASSUME NEW a \in Roles, Examine(a)
      PROVE  /\ UNCHANGED received
             /\ pc'[b] = "examine" => pc[b] = "examine" /\ view'[b] = view[b]
  BY <1>3, ExamineCases DEF MarkSetupStatus, SendTransaction, Return, listenerVars
<1>4. ASSUME NEW a \in Roles, SenderStep(a) \/ (SenderCrash(a) /\ UNCHANGED protocolVars)
      PROVE  UNCHANGED protocolVars
  BY <1>4 DEF SenderStep
<1>5. Mine \/ PegOut \/ UNCHANGED vars => UNCHANGED protocolVars
  BY DEF Mine, PegOut, vars, protocolVars, listenerVars
<1>6. UNCHANGED protocolVars => UNCHANGED <<received, pc, view>>
  BY DEF protocolVars, listenerVars
<1> QED
  BY <1>1, <1>2, <1>3, <1>4, <1>5, <1>6 DEF Next, ProtocolStep, Crash

(***************************************************************************)
(* Only a PENDING template becomes READY.                                  *)
(***************************************************************************)
LEMMA ReadyOld ==
    ASSUME AgentType, StatusInv, [Next]_vars, NEW b \in Roles, NEW t \in Protocol,
           templateStatus[b][t] # "PENDING", templateStatus'[b][t] = "READY"
    PROVE  templateStatus[b][t] = "READY"
<1> USE DEF AgentType, TypeSender
<1>1. ASSUME NEW a \in Roles, HandleSpecialTransactions(a) PROVE templateStatus[b][t] = "READY"
  BY <1>1 DEF HandleSpecialTransactions
<1>2. ASSUME NEW a \in Roles, CommitBroadcast(a) PROVE templateStatus[b][t] = "READY"
  BY <1>2 DEF CommitBroadcast, StatusInv, BatchReady
<1>3. ASSUME NEW a \in Roles, NEW u \in Protocol, SendTransaction(a, u) PROVE templateStatus[b][t] = "READY"
  <2>1. CASE templateStatus[a][u] = "PENDING"
    BY <1>3, <2>1 DEF SendTransaction
  <2>2. CASE templateStatus[a][u] # "PENDING"
    BY <1>3, <2>2 DEF SendTransaction
  <2> QED
    BY <2>1, <2>2
<1>4. ASSUME NEW a \in Roles, Examine(a) PROVE templateStatus[b][t] = "READY"
  BY <1>3, <1>4, ExamineCases DEF MarkSetupStatus, Return, dbVars
<1>5. CASE PegOut
  BY <1>5 DEF PegOut
<1>6. Mine \/ UNCHANGED vars => UNCHANGED templateStatus
  BY DEF Mine, vars, dbVars
<1>7. ASSUME NEW a \in Roles, ScanBlock(a) \/ SelectReady(a) \/ Poll(a) \/ Transmitted(a) \/ Crash(a)
      PROVE  UNCHANGED templateStatus
  BY <1>7 DEF ScanBlock, SelectReady, Poll, Transmitted, Crash, SenderCrash, ProtocolCrash, dbVars
<1>8. ASSUME NEW a \in Roles, Broadcast(a) PROVE UNCHANGED templateStatus
  BY <1>8 DEF Broadcast, BroadcastTransaction, dbVars
<1> QED
  BY <1>1, <1>2, <1>4, <1>5, <1>6, <1>7, <1>8 DEF Next, SenderStep, ProtocolStep

(***************************************************************************)
(* A process that waits for a READY template waits on, unless it dies.     *)
(***************************************************************************)
LEMMA WaitStep ==
    ASSUME AgentType, [Next]_vars, NEW b \in Roles, pc[b] = "wait", templateStatus[b][awaited[b]] = "READY",
           crashes' = 0
    PROVE  pc'[b] = "wait" /\ awaited'[b] = awaited[b]
<1> USE DEF AgentType, TypeProtocol, TypeSender, PerAgent
<1>1. ASSUME NEW a \in Roles, ScanBlock(a) PROVE UNCHANGED <<pc, awaited>>
  BY <1>1 DEF ScanBlock
<1>2. ASSUME NEW a \in Roles, Poll(a) PROVE pc'[b] = "wait" /\ awaited'[b] = awaited[b]
  BY <1>2 DEF Poll
<1>3. ASSUME NEW a \in Roles, Transmitted(a) PROVE pc'[b] = "wait" /\ awaited'[b] = awaited[b]
  BY <1>3 DEF Transmitted
<1>4. ASSUME NEW a \in Roles, ProtocolCrash(a) PROVE FALSE
  BY <1>4 DEF ProtocolCrash
<1>5. ASSUME NEW a \in Roles, Examine(a) PROVE pc'[b] = "wait" /\ awaited'[b] = awaited[b]
  <2>1. a # b
    BY <1>5, ExamineCases
  <2>2. ASSUME NEW u \in Protocol, SendTransaction(a, u) PROVE pc'[b] = "wait" /\ awaited'[b] = awaited[b]
    BY <2>1, <2>2 DEF SendTransaction
  <2> QED
    BY <1>5, <2>1, <2>2, ExamineCases DEF MarkSetupStatus, Return
<1>6. ASSUME NEW a \in Roles, SenderStep(a) \/ (SenderCrash(a) /\ UNCHANGED protocolVars)
      PROVE  UNCHANGED protocolVars
  BY <1>6 DEF SenderStep
<1>7. Mine \/ PegOut \/ UNCHANGED vars => UNCHANGED protocolVars
  BY DEF Mine, PegOut, vars, protocolVars, listenerVars
<1>8. UNCHANGED protocolVars => UNCHANGED <<pc, awaited>>
  BY DEF protocolVars
<1> QED
  BY <1>1, <1>2, <1>3, <1>4, <1>5, <1>6, <1>7, <1>8 DEF Next, ProtocolStep, Crash

(***************************************************************************)
(* Crashes are counted.                                                    *)
(***************************************************************************)
LEMMA CrashCount ==
    ASSUME AgentType, [Next]_vars, crashes' = 0 PROVE crashes = 0
<1>1. crashes \in Nat
  BY MaxCrashesAssumption DEF AgentType, TypeSender
<1>2. ASSUME NEW a \in Roles, Crash(a) PROVE FALSE
  BY <1>1, <1>2 DEF Crash, SenderCrash, ProtocolCrash
<1>3. ASSUME NEW a \in Roles, Examine(a) PROVE UNCHANGED crashes
  BY <1>3, ExamineCases DEF MarkSetupStatus, SendTransaction, Return
<1>4. ASSUME NEW a \in Roles, SenderStep(a) PROVE UNCHANGED crashes
  BY <1>4 DEF SenderStep, Broadcast, HandleSpecialTransactions, SelectReady, BroadcastTransaction, CommitBroadcast
<1>5. ASSUME NEW a \in Roles, ScanBlock(a) \/ Poll(a) \/ Transmitted(a) PROVE UNCHANGED crashes
  BY <1>5 DEF ScanBlock, Poll, Transmitted
<1>6. Mine \/ PegOut \/ UNCHANGED vars => UNCHANGED crashes
  BY DEF Mine, PegOut, vars
<1> QED
  BY <1>2, <1>3, <1>4, <1>5, <1>6 DEF Next, ProtocolStep

(***************************************************************************)
(* The verifier waits for what it asked, and has seen what it answered.    *)
(***************************************************************************)
LEMMA VerifierWaits ==
    ASSUME AgentType, NodeInv, StatusInv, StatusInv', AdvanceInv, WaitInv, [Next]_vars PROVE WaitInv'
<1>0. Verifier \in Roles /\ \A i \in Rounds : /\ Select(i) \in Protocol /\ Role(Select(i)) = Verifier
                                             /\ SelectUncontested(i) \in Protocol /\ Select(i) # Proof
                                             /\ SelectUncontested(i) # Proof
  BY DEF Verifier, Roles, Protocol, StepKinds, Role, VerifierKinds, Select, SelectUncontested, Proof, Once
<1>1. SelectAsked'
  <2> SUFFICES ASSUME NEW i \in Rounds, Asked(Select(i))'
               PROVE  /\ State(i) \in received'[Verifier]
                      /\ pc'[Verifier] = "examine" => State(i) \in view'[Verifier]
    BY DEF SelectAsked
  <2>1. CASE Asked(Select(i))
    BY <1>0, <2>1, ViewStep DEF WaitInv, SelectAsked
  <2>2. CASE ~Asked(Select(i))
    <3>1. Select(i) \in Sends(Verifier, view[Verifier]) /\ SendTransaction(Verifier, Select(i))
      BY <1>0, <2>2, AskedNew DEF Asked
    <3>2. PICK l \in view[Verifier] : VerifierAnswer(l, Select(i))
      BY <3>1, AnswersLast
    <3>3. l = State(i)
      BY <3>2 DEF VerifierAnswer, Challenge, ChallengeUncontested, ProofRefuted, Select, SelectUncontested, State,
                  Once
    <3>4. State(i) \in received[Verifier]
      BY <1>0, <3>2, <3>3 DEF AgentType, TypeListener
    <3>5. pc'[Verifier] # "examine"
      BY <1>0, <3>1 DEF SendTransaction, AgentType, TypeProtocol
    <3> QED
      BY <1>0, <3>4, <3>5, ViewStep
  <2> QED
    BY <2>1, <2>2
<1>2. OneAsked'
  <2> SUFFICES ASSUME crashes' = 0, NEW t \in Protocol, templateStatus'[Verifier][t] = "READY"
               PROVE  pc'[Verifier] = "wait" /\ awaited'[Verifier] = t
    BY DEF OneAsked
  <2>1. CASE templateStatus[Verifier][t] = "PENDING"
    <3>1. t # Proof
      BY <1>0 DEF StatusInv, OwnTemplates, Role, VerifierKinds, Proof, Once, Verifier
    <3>2. SendTransaction(Verifier, t)
      BY <1>0, <2>1, <3>1, AskedNew
    <3> QED
      BY <1>0, <2>1, <3>2 DEF SendTransaction, AgentType, TypeProtocol, PerAgent
  <2>2. CASE templateStatus[Verifier][t] # "PENDING"
    BY <1>0, <2>2, ReadyOld, CrashCount, WaitStep DEF WaitInv, OneAsked
  <2> QED
    BY <2>1, <2>2
<1>3. NeverTogether'
  <2> SUFFICES ASSUME crashes' = 0, NEW i \in Rounds, templateStatus'[Verifier][SelectUncontested(i)] = "READY",
                      Asked(Select(i))'
               PROVE  FALSE
    BY DEF NeverTogether
  <2> DEFINE su == SelectUncontested(i)
  <2>1. CASE templateStatus[Verifier][su] = "READY"
    <3>1. pc[Verifier] = "wait" /\ ~Asked(Select(i))
      BY <1>0, <2>1, CrashCount DEF WaitInv, OneAsked, NeverTogether
    <3> QED
      BY <1>0, <3>1, AskedNew DEF Asked
  <2>2. CASE templateStatus[Verifier][su] # "READY"
    <3>1. /\ pc[Verifier] = "examine" /\ su \in Sends(Verifier, view[Verifier]) /\ SendTransaction(Verifier, su)
          /\ templateStatus[Verifier][su] = "PENDING"
      BY <1>0, <2>2, AskedNew, ReadyOld
    <3>2. Asked(Select(i))
      <4>1. su # Select(i)
        BY DEF Select, SelectUncontested
      <4> QED
        BY <1>0, <3>1, <4>1 DEF SendTransaction, Asked, AgentType, TypeSender
    <3>3. State(i) \in view[Verifier]
      BY <3>1, <3>2 DEF WaitInv, SelectAsked
    <3>4. PICK l \in view[Verifier] : IsLast(l, view[Verifier]) /\ VerifierAnswer(l, su)
      BY <3>1, AnswersLast
    <3>5. PICK k \in Rounds : l = Select(k) /\ i = k + 1
      BY <3>4 DEF VerifierAnswer, Challenge, ChallengeUncontested, ProofRefuted, Select, SelectUncontested, Once
    <3>6. conf[State(i)] <= conf[l] /\ l \in Line /\ State(i) \in Protocol \cap Confirmed /\ l \in Confirmed
      BY <1>0, <3>3, <3>4, <3>5 DEF IsLast, AdvanceInv, ViewPrefix, Prefix, Line
    <3>7. Position(l) < Position(State(i))
      BY <3>5, Positions DEF Rounds
    <3>8. conf[l] < conf[State(i)]
      BY <3>6, <3>7 DEF AdvanceInv, LineInv, Known
    <3> QED
      BY <3>6, <3>8, ConfStep
  <2> QED
    BY <2>1, <2>2
<1> QED
  BY <1>1, <1>2, <1>3 DEF WaitInv

(***************************************************************************)
(* SELECT_UNCONTESTED cannot be accepted: as long as nothing crashed, its  *)
(* SELECT is not even asked for.                                           *)
(***************************************************************************)
LEMMA UncontestableUnsent ==
    ASSUME AgentType, StatusInv, WaitInv, crashes = 0, NEW i \in Rounds,
           templateStatus[Verifier][SelectUncontested(i)] = "READY"
    PROVE  Select(i) \notin Known
<1>1. ~Asked(Select(i)) /\ Role(Select(i)) \in Roles /\ Select(i) \in Protocol
  BY DEF WaitInv, NeverTogether, Role, Roles, Protocol, StepKinds, Select
<1>2. CurrentStatus(Role(Select(i)), Select(i)) = "PENDING"
  BY <1>1 DEF Asked, CurrentStatus, StatusInv, BatchReady
<1> QED
  BY <1>1, <1>2 DEF StatusInv, KnownSent

-----------------------------------------------------------------------------

\* The templates that answer without a timeout, but for the first and the last.
Answers == {Argument} \cup {State(i) : i \in Rounds} \cup {Select(i) : i \in Rounds}

(***************************************************************************)
(* They spend the outputs of the template they answer, STATE_0 those of    *)
(* PROOF, and never wait.                                                  *)
(***************************************************************************)
LEMMA AnswerInputs ==
    ASSUME NEW y \in Answers, NEW in \in Inputs(y)
    PROVE  /\ NSequence(in) = 0
           /\ in.tx = Trigger(y) \/ (y = State(0) /\ in.tx = Proof /\ in.out # 2)
<1> USE IterationsAssumption DEF Rounds
<1>1. NSequence(In(Proof, 0, 1)) = 0 /\ NSequence(In(Proof, 1, 0)) = 0
  BY DEF NSequence, SpendingCondition, In, Outputs, StepKinds, StartOutputs, Proof, Once, Plain, Data, Sc
<1>2. ASSUME NEW i \in Rounds, NEW o \in 0 .. 8, i + 1 < Iterations => o \in 0 .. 1
      PROVE  NSequence(In(Select(i), o, 0)) = 0
  <2>1. Outputs(Select(i)) = [n \in 1 .. IF i + 1 < Iterations THEN 2 ELSE 9 |->
                                IF n = 1 THEN <<Sc("PROVER", 0, TRUE), Sc("VERIFIER", SmallTimeout, FALSE)>>
                                         ELSE Data("PROVER")]
    BY DEF Outputs, StepOutputs, StepKinds, Select
  <2>2. o + 1 \in 1 .. IF i + 1 < Iterations THEN 2 ELSE 9
    BY <1>2
  <2>3. Outputs(Select(i))[o + 1][1].timeoutBlocks = 0
    BY <2>1, <2>2 DEF Data, Sc
  <2> QED
    BY <2>3 DEF NSequence, SpendingCondition, In
<1>3. ASSUME NEW i \in Rounds PROVE NSequence(In(State(i), 0, 0)) = 0
  BY DEF NSequence, SpendingCondition, In, Outputs, StepKinds, StepOutputs, State, Sc
<1>4. CASE y = Argument
  <2>1. PICK o \in 0 .. 8 : in = In(Select(Iterations - 1), o, 0)
    BY <1>4 DEF Inputs, StartInputs, StepInputs, EndInputs, Argument, Once
  <2>2. Iterations - 1 \in Rounds /\ ~ ((Iterations - 1) + 1 < Iterations)
    OBVIOUS
  <2>3. NSequence(In(Select(Iterations - 1), o, 0)) = 0
    BY <1>2, <2>2
  <2>4. In(Select(Iterations - 1), o, 0).tx = Select(Iterations - 1)
    BY DEF In
  <2> QED
    BY <1>4, <2>1, <2>3, <2>4, Triggers
<1>5. ASSUME NEW i \in Rounds, y = Select(i) PROVE NSequence(in) = 0 /\ in.tx = Trigger(y)
  <2>1. in = In(State(i), 0, 0)
    BY <1>5 DEF Inputs, StartInputs, StepInputs, EndInputs, Select
  <2> QED
    BY <1>3, <1>5, <2>1, Triggers DEF In
<1>6. CASE y = State(0)
  <2>1. in \in {In(Proof, 0, 1), In(Proof, 1, 0)}
    BY <1>6 DEF Inputs, StartInputs, StepInputs, EndInputs, StateInputs, State
  <2> QED
    BY <1>1, <1>6, <2>1 DEF In
<1>7. ASSUME NEW i \in Rounds, y = State(i), i # 0 PROVE NSequence(in) = 0 /\ in.tx = Trigger(y)
  <2>1. in \in {In(Select(i - 1), 0, 0), In(Select(i - 1), 1, 0)} /\ i - 1 \in Rounds
    BY <1>7 DEF Inputs, StartInputs, StepInputs, EndInputs, StateInputs, State
  <2>2. Trigger(y) = Select(i - 1)
    BY <1>7, Triggers
  <2>3. ASSUME NEW o \in 0 .. 1 PROVE NSequence(In(Select(i - 1), o, 0)) = 0
    <3>1. o \in 0 .. 8
      BY <2>3
    <3> QED
      BY <1>2, <2>1, <2>3, <3>1
  <2>4. \A o : In(Select(i - 1), o, 0).tx = Select(i - 1)
    BY DEF In
  <2>5. 0 \in 0 .. 1 /\ 1 \in 0 .. 1
    OBVIOUS
  <2> QED
    BY <2>1, <2>2, <2>3, <2>4, <2>5
<1> QED
  BY <1>4, <1>5, <1>6, <1>7 DEF Answers

(***************************************************************************)
(* What a template spends is before it.                                    *)
(***************************************************************************)
LEMMA InputPosition ==
    ASSUME NEW u \in Protocol, NEW in \in Inputs(u), in.tx \in Line PROVE Position(in.tx) < Position(u)
<1> USE IterationsAssumption DEF Rounds
<1>1. LockedFunds \notin Line /\ ProverStake \notin Line
  BY DEF LockedFunds, ProverStake, Once, Line, Proof, Challenge, Argument, State, Select
<1>2. CASE u \in Answers
  <2>1. CASE in.tx = Trigger(u)
    BY <1>2, <2>1, TriggerPosition DEF Answers, Argument, State, Select, Proof, Once
  <2>2. CASE u = State(0) /\ in.tx = Proof
    BY <2>2, Positions
  <2> QED
    BY <1>2, <2>1, <2>2, AnswerInputs
<1>3. CASE u \in {Proof, Challenge, ProofUncontested, ChallengeUncontested}
  <2>1. in \in {In(ProverStake, 0, 0), In(Proof, 2, 0), In(LockedFunds, 0, 0), In(Proof, 0, 0), In(Proof, 0, 2)}
    BY <1>3 DEF Inputs, StartInputs, StepInputs, EndInputs, Once, Proof, Challenge, ProofUncontested,
                ChallengeUncontested
  <2>2. u # Proof \/ in = In(ProverStake, 0, 0)
    BY <1>3 DEF Inputs, StartInputs, StepInputs, EndInputs, Once, Proof
  <2> QED
    BY <1>1, <1>3, <2>1, <2>2, Positions DEF In
<1>4. CASE u \in {ProofRefuted, ArgumentUncontested}
  <2>1. in \in {In(Argument, 0, 0), In(Argument, 0, 1), In(LockedFunds, 0, 0)}
    BY <1>4 DEF Inputs, StartInputs, StepInputs, EndInputs, Once, ProofRefuted, ArgumentUncontested
  <2> QED
    BY <1>1, <1>4, <2>1, Positions DEF In
<1>5. ASSUME NEW i \in Rounds, u = StateUncontested(i) PROVE Position(in.tx) < Position(u)
  <2>1. in \in {In(State(i), 0, 1), In(LockedFunds, 0, 0)}
    BY <1>5 DEF Inputs, StartInputs, StepInputs, EndInputs, StateUncontested
  <2> QED
    BY <1>1, <1>5, <2>1, Positions DEF In
<1>6. ASSUME NEW i \in Rounds, u = SelectUncontested(i) PROVE Position(in.tx) < Position(u)
  <2>1. in = In(Select(i), 0, 1)
    BY <1>6 DEF Inputs, StartInputs, StepInputs, EndInputs, SelectUncontested
  <2> QED
    BY <1>6, <2>1, Positions DEF In
<1> QED
  BY <1>2, <1>3, <1>4, <1>5, <1>6, ProtocolCases DEF Answers

(***************************************************************************)
(* The node refuses such an answer only because of a template at the same  *)
(* position or behind it.                                                  *)
(***************************************************************************)
LEMMA RefusedAnswer ==
    ASSUME AgentType, NodeInv, LineInv, NEW y \in Answers, Trigger(y) \in Confirmed, ~TestMempoolAccept(y)
    PROVE  \E u \in Protocol \cap Known : Position(y) <= Position(u)
<1> USE IterationsAssumption
<1>1. y \in Protocol \ {Proof} /\ y # ProofRefuted
  BY TriggerPosition DEF Answers, Line, Argument, State, Select, Proof, ProofRefuted, Once
<1>2. Trigger(y) \in Line /\ Trigger(y) \in Protocol \cap Known /\ Position(y) = Position(Trigger(y)) + 1
  BY <1>1, TriggerPosition DEF Known
<1>3. y = State(0) => Trigger(y) = Challenge /\ Proof \in Confirmed
  <2>1. ASSUME y = State(0) PROVE Trigger(y) = Challenge /\ Proof \in Line /\ Position(Proof) < Position(Challenge)
    BY <2>1, Triggers, Positions DEF Line
  <2> QED
    BY <1>2, <2>1 DEF LineInv
<1>4. ASSUME NEW in \in Inputs(y) PROVE in.tx \in Confirmed /\ conf[in.tx] + NSequence(in) <= height + 1
  <2>1. in.tx \in Confirmed /\ NSequence(in) = 0
    BY <1>3, AnswerInputs
  <2>2. conf[in.tx] \in Nat /\ conf[in.tx] <= height /\ height \in Nat
    BY <2>1 DEF AgentType, TypeNode, Confirmed
  <2> QED
    BY <2>1, <2>2
<1>5. CASE y \in Known
  BY <1>1, <1>5, TriggerPosition
<1>6. CASE y \notin Known
  <2>1. PICK u \in Known : Spends(y) \cap Spends(u) # {}
    BY <1>1, <1>4, <1>6 DEF TestMempoolAccept, ScriptAccepts, Known
  <2>2. PICK in \in Inputs(y), other \in Inputs(u) : in.tx = other.tx /\ in.out = other.out
    BY <2>1 DEF Spends
  <2>3. u \in Protocol \cap Known
    BY <2>1, <2>2, ExternalRoots DEF Known, Mempool, Confirmed, Names
  <2>4. Position(u) \in Nat /\ Position(y) \in Nat /\ Position(Trigger(y)) \in Nat
    BY <1>1, <1>2, <2>3, TriggerPosition
  <2>5. CASE in.tx = Trigger(y)
    <3>1. Position(Trigger(y)) < Position(u)
      BY <1>2, <2>2, <2>3, <2>5, InputPosition
    <3> QED
      BY <1>2, <2>3, <2>4, <3>1
  <2>6. CASE y = State(0) /\ in.tx = Proof /\ in.out # 2
    <3>1. 0 < Position(u)
      <4>1. Proof \in Line /\ Position(Proof) = 0
        BY Positions DEF Line
      <4> QED
        BY <2>2, <2>3, <2>6, <4>1, InputPosition
    <3>2. CASE Position(u) = 1
      <4>1. u = Challenge
        BY <1>2, <1>3, <2>3, <2>6, <3>2, KnownPosition, Positions
      <4>2. other = In(Proof, 2, 0)
        BY <4>1 DEF Inputs, StartInputs, StepInputs, EndInputs, Challenge, Once
      <4> QED
        BY <2>2, <2>6, <4>2 DEF In
    <3>3. CASE Position(u) # 1
      <4>1. Position(y) = 2
        BY <2>6, Positions DEF Rounds
      <4> QED
        BY <2>3, <2>4, <3>1, <3>3, <4>1
    <3> QED
      BY <3>2, <3>3
  <2> QED
    BY <2>5, <2>6, AnswerInputs
<1> QED
  BY <1>5, <1>6

(***************************************************************************)
(* With a template at the position of y or behind it, the node knows y,    *)
(* unless y has lost against the other template at its position.           *)
(***************************************************************************)
LEMMA Behind ==
    ASSUME NodeInv, LineInv, NEW y \in Protocol, NEW u \in Protocol \cap Known, Position(y) <= Position(u),
           y \in Line \/ Position(u) <= Position(y),
           \A v \in Protocol \cap Known : Position(v) = Position(y) => v = y
    PROVE  y \in Known
<1>1. Position(y) \in Nat /\ Position(u) \in Nat
  BY TriggerPosition
<1> QED
  BY <1>1 DEF LineInv, Known

(***************************************************************************)
(* What was confirmed after a template of the line, or is not on the line, *)
(* is behind it.                                                           *)
(***************************************************************************)
LEMMA Follows ==
    ASSUME NodeInv, LineInv, NEW x \in Line \cap Confirmed, NEW u \in Protocol \cap Confirmed,
           u \notin Line \/ conf[x] < conf[u]
    PROVE  Position(x) < Position(u)
<1>1. x \in Protocol \cap Known /\ u \in Protocol \cap Known /\ Position(x) \in Nat /\ Position(u) \in Nat
  BY TriggerPosition DEF Known
<1>2. conf[x] \in Nat /\ conf[u] \in Nat
  BY DEF NodeInv, NodeType, Confirmed
<1> QED
  BY <1>1, <1>2, OnLine, KnownPosition

(***************************************************************************)
(* An agent that has nothing more to do has answered every template that   *)
(* is deep enough, or there is something behind it already, or its sender  *)
(* could not get the answer through.                                       *)
(***************************************************************************)
LEMMA PromptReacts ==
    ASSUME AgentType, NodeInv, StatusInv, AdvanceInv, NEW a \in Roles, ~Busy(a), OutcomeTrue(a),
           a = Verifier => ProofRefuted \notin Rejected(a),
           NEW x \in Line \cap Confirmed, conf[x] + Finality <= height,
           NEW y \in Protocol, Role(y) = a,
           IsLast(x, received[a]) /\ templateStatus[a][y] = "PENDING" => y \in Sends(a, received[a])
    PROVE  \/ \E u \in Protocol \cap Known : Position(x) < Position(u)
           \/ y \in Known
           \/ Refused(y) /\ y \in Rejected(a)
<1>1. x \in Protocol /\ LineInv
  BY TriggerPosition DEF AdvanceInv
<1>2. CASE setupStatus[a] = "ACTIVE"
  <2>1. x \in received[a]
    <3>1. ~ (scanned[a] < height - Finality)
      BY <1>2 DEF Busy
    <3>2. scanned[a] \in Nat /\ conf[x] \in Nat /\ height \in Nat
      BY DEF AgentType, TypeListener, TypeNode, Confirmed
    <3>3. conf[x] <= scanned[a]
      BY <3>1, <3>2, FinalityAssumption
    <3> QED
      BY <1>1, <3>3 DEF AdvanceInv, ReceivedExact
  <2>2. CASE ~IsLast(x, received[a])
    <3>1. PICK u \in received[a] : ~ (conf[u] <= conf[x])
      BY <2>1, <2>2 DEF IsLast
    <3>2. u \in Protocol \cap Confirmed /\ conf[u] \in Nat /\ conf[x] \in Nat
      BY DEF AdvanceInv, ReceivedExact, NodeInv, NodeType, Confirmed
    <3>3. Position(x) < Position(u)
      BY <1>1, <3>1, <3>2, Follows
    <3> QED
      BY <3>2, <3>3 DEF Known
  <2>3. CASE IsLast(x, received[a])
    <3>1. templateStatus[a][y] # "PENDING"
      BY <1>2, <2>1, <2>3 DEF Busy, HasReaction
    <3>2. templateStatus[a][y] # "READY"
      BY DEF Busy, Ready
    <3>3. templateStatus[a][y] \in {"PUBLISHED", "REJECTED"}
      BY <3>1, <3>2 DEF AgentType, TypeSender, TemplateStatus
    <3>4. y \notin DOMAIN batch[a]
      BY <3>2 DEF StatusInv, BatchReady
    <3> QED
      BY <3>3, <3>4 DEF StatusInv, SentKnown, Refused, Rejected, CurrentStatus
  <2> QED
    BY <2>2, <2>3
<1>3. CASE setupStatus[a] # "ACTIVE"
  <2>1. setupStatus[a] \in {"PEGOUT_FAILED", "PEGOUT_SUCCESSFUL"}
    BY <1>3 DEF AgentType, TypeProtocol, SetupStatus
  <2>2. PICK w \in Payouts : w \in Confirmed
    BY <2>1 DEF OutcomeTrue, Payouts
  <2>3. w \in Protocol \ Line
    BY <2>2, PayoutFacts DEF Payouts
  <2> QED
    BY <1>1, <2>2, <2>3, Follows DEF Known
<1> QED
  BY <1>2, <1>3

(***************************************************************************)
(* At most two templates share a position of the line.                     *)
(***************************************************************************)
LEMMA Rivals ==
    ASSUME NEW v \in Protocol
    PROVE  /\ Position(v) = 1 => v \in {Challenge, ProofUncontested}
           /\ Position(v) = 2 => v \in {State(0), ChallengeUncontested}
           /\ Position(v) = 2 * Iterations + 3 => v \in {ProofRefuted, ArgumentUncontested}
           /\ Position(v) <= 2 * Iterations + 3
           /\ \A i \in Rounds : /\ Position(v) = 2 * i + 3 => v \in {Select(i), StateUncontested(i)}
                                /\ Position(v) = 2 * i + 4 => v \in {NextAnswer(i), SelectUncontested(i)}
<1> USE IterationsAssumption DEF Rounds
<1>1. ASSUME v \in {Proof, Challenge, ProofUncontested, ChallengeUncontested}
      PROVE  /\ Position(v) = 0 \/ (Position(v) = 1 /\ v \in {Challenge, ProofUncontested})
                                \/ (Position(v) = 2 /\ v = ChallengeUncontested)
  BY <1>1, Positions
<1>2. ASSUME v \in {ProofRefuted, ArgumentUncontested} PROVE Position(v) = 2 * Iterations + 3
  BY <1>2, Positions
<1>3. ASSUME v = Argument PROVE Position(v) = 2 * Iterations + 2 /\ NextAnswer(Iterations - 1) = Argument
  BY <1>3, Positions DEF NextAnswer
<1>4. ASSUME NEW i \in Rounds, v = State(i)
      PROVE  Position(v) = 2 * i + 2 /\ (i # 0 => i - 1 \in Rounds /\ NextAnswer(i - 1) = v)
  BY <1>4, Positions DEF NextAnswer
<1>5. ASSUME NEW i \in Rounds, v \in {Select(i), StateUncontested(i)} PROVE Position(v) = 2 * i + 3
  BY <1>5, Positions
<1>6. ASSUME NEW i \in Rounds, v = SelectUncontested(i) PROVE Position(v) = 2 * i + 4
  BY <1>6, Positions
<1> HIDE DEF NextAnswer
<1>7. CASE v \in {Proof, Challenge, ProofUncontested, ChallengeUncontested}
  BY <1>1, <1>7
<1>8. CASE v \in {ProofRefuted, ArgumentUncontested}
  BY <1>2, <1>8
<1>9. CASE v = Argument
  BY <1>3, <1>9
<1>10. ASSUME NEW i \in Rounds, v = State(i)
       PROVE  /\ Position(v) = 2 => v = State(0)
              /\ \A j \in Rounds : Position(v) = 2 * j + 4 => v = NextAnswer(j)
              /\ \A j \in Rounds : Position(v) # 2 * j + 3
              /\ Position(v) # 1 /\ Position(v) < 2 * Iterations + 3
  <2>1. \A j \in Rounds : 2 * i + 2 = 2 * j + 4 => i # 0 /\ j = i - 1
    OBVIOUS
  <2> QED
    BY <1>4, <1>10, <2>1
<1>11. ASSUME NEW i \in Rounds, v \in {Select(i), StateUncontested(i)}
       PROVE  /\ Position(v) \notin {1, 2} /\ Position(v) < 2 * Iterations + 3
              /\ \A j \in Rounds : /\ Position(v) = 2 * j + 3 => v \in {Select(j), StateUncontested(j)}
                                   /\ Position(v) # 2 * j + 4
  BY <1>5, <1>11
<1>12. ASSUME NEW i \in Rounds, v = SelectUncontested(i)
       PROVE  /\ Position(v) \notin {1, 2} /\ Position(v) < 2 * Iterations + 3
              /\ \A j \in Rounds : /\ Position(v) = 2 * j + 4 => v = SelectUncontested(j)
                                   /\ Position(v) # 2 * j + 3
  BY <1>6, <1>12
<1> DEFINE Goal ==
           /\ Position(v) = 1 => v \in {Challenge, ProofUncontested}
           /\ Position(v) = 2 => v \in {State(0), ChallengeUncontested}
           /\ Position(v) = 2 * Iterations + 3 => v \in {ProofRefuted, ArgumentUncontested}
           /\ Position(v) <= 2 * Iterations + 3
           /\ \A i \in Rounds : /\ Position(v) = 2 * i + 3 => v \in {Select(i), StateUncontested(i)}
                                /\ Position(v) = 2 * i + 4 => v \in {NextAnswer(i), SelectUncontested(i)}
<1>13. ASSUME NEW i \in Rounds, v = State(i) PROVE Goal
  <2>1. Position(v) \in Nat
    BY TriggerPosition
  <2> QED
    BY <1>10, <1>13, <2>1
<1>14. ASSUME NEW i \in Rounds, v \in {Select(i), StateUncontested(i)} PROVE Goal
  <2>1. Position(v) \in Nat
    BY TriggerPosition
  <2> QED
    BY <1>11, <1>14, <2>1
<1>15. ASSUME NEW i \in Rounds, v = SelectUncontested(i) PROVE Goal
  <2>1. Position(v) \in Nat
    BY TriggerPosition
  <2> QED
    BY <1>12, <1>15, <2>1
<1> QED
  BY <1>7, <1>8, <1>9, <1>13, <1>14, <1>15, ProtocolCases

(***************************************************************************)
(* An answer is overdue for the first time at a new block.                 *)
(***************************************************************************)
LEMMA OverdueStep ==
    ASSUME AgentType, NodeInv, [Next]_vars, NEW x \in Names, NEW n \in Nat, x \in Confirmed', conf'[x] + n < height'
    PROVE  x \in Confirmed /\ (conf[x] + n < height \/ (Mine /\ conf[x] + n = height))
<1>1. CASE UNCHANGED <<height, conf>>
  BY <1>1 DEF Confirmed
<1>2. CASE Mine
  <2>1. PICK S \in SUBSET Mempool : MineBlock(S)
    BY <1>2 DEF Mine
  <2>2. x \in Confirmed \cup S /\ height' = height + 1 /\ (x \in S => conf'[x] = height + 1) /\ height \in Nat
    BY <2>1, BlockEffect DEF AgentType, TypeNode
  <2>3. x \in Confirmed /\ conf'[x] = conf[x] /\ conf[x] \in Nat
    BY <2>2, ConfStep
  <2> QED
    BY <1>2, <2>2, <2>3
<1> QED
  BY <1>1, <1>2, HeightStep

(***************************************************************************)
(* So it is enough to answer in time at every new block.                   *)
(***************************************************************************)
LEMMA AnsweredStep ==
    ASSUME AgentType, NodeInv, [Next]_vars, NEW x \in Names, NEW y, NEW n \in Nat, Answered(x, y, n),
           Mine /\ x \in Confirmed /\ conf[x] + n = height => y \in Known
    PROVE  Answered(x, y, n)'
BY OverdueStep, KnownStep DEF Answered

(***************************************************************************)
(* Whether the proof is valid does not change.                             *)
(***************************************************************************)
LEMMA ProofValidStep ==
    ASSUME [Next]_vars PROVE UNCHANGED proofValid
BY NodeSteps DEF Accept, SendRawTransaction, Extend, MineBlock, nodeVars

-----------------------------------------------------------------------------

VerifierAnswers == {Challenge, ProofRefuted} \cup {Select(i) : i \in Rounds}

(***************************************************************************)
(* The verifier's answers compete with the prover's payouts only.          *)
(***************************************************************************)
LEMMA VerifierAnswerFacts ==
    ASSUME NEW y \in VerifierAnswers
    PROVE  /\ y \in Protocol \ {Proof} /\ Role(y) = Verifier /\ Trigger(y) \in Line
           /\ Position(y) = Position(Trigger(y)) + 1
           /\ y \in Line \/ Position(y) = 2 * Iterations + 3
           /\ \A v \in Protocol : Position(v) = Position(y) => v = y \/ v \in ProverPayouts
<1>1. y \in Protocol \ {Proof} /\ Role(y) = Verifier
  BY DEF VerifierAnswers, Protocol, OnceKinds, StepKinds, Role, VerifierKinds, Verifier, Challenge, ProofRefuted,
         Select, Proof, Once
<1>2. ASSUME y = Challenge
      PROVE  y \in Line /\ \A v \in Protocol : Position(v) = Position(y) => v = y \/ v \in ProverPayouts
  BY <1>2, Positions, Rivals DEF Line, ProverPayouts
<1>3. ASSUME y = ProofRefuted
      PROVE  /\ Position(y) = 2 * Iterations + 3
             /\ \A v \in Protocol : Position(v) = Position(y) => v = y \/ v \in ProverPayouts
  BY <1>3, Positions, Rivals DEF ProverPayouts
<1>4. ASSUME NEW i \in Rounds, y = Select(i)
      PROVE  /\ y \in Line
             /\ \A v \in Protocol : Position(v) = Position(y) => v = y \/ v \in ProverPayouts
  <2>1. \A v \in Protocol : Position(v) = 2 * i + 3 => v \in {Select(i), StateUncontested(i)}
    BY Rivals
  <2>2. Position(y) = 2 * i + 3
    BY <1>4, Positions
  <2> QED
    BY <1>4, <2>1, <2>2 DEF Line, ProverPayouts
<1> QED
  BY <1>1, <1>2, <1>3, <1>4, TriggerPosition DEF VerifierAnswers

(***************************************************************************)
(* A verifier that has nothing more to do has got its answers through.     *)
(***************************************************************************)
LEMMA VerifierReacts ==
    ASSUME AgentType, NodeInv, StatusInv, AdvanceInv, OutcomeTrue(Verifier), Unpaid, SelectRefused, VerifierAlert,
           ~Busy(Verifier), NEW y \in VerifierAnswers, Trigger(y) \in Confirmed,
           conf[Trigger(y)] + Finality <= height
    PROVE  y \in Known
<1> DEFINE x == Trigger(y)
<1>1. /\ y \in Protocol /\ Role(y) = Verifier /\ x \in Line /\ Position(y) = Position(x) + 1
      /\ y \in Line \/ Position(y) = 2 * Iterations + 3
      /\ \A v \in Protocol : Position(v) = Position(y) => v = y \/ v \in ProverPayouts
  BY VerifierAnswerFacts
<1>2. Verifier \in Roles /\ Verifier # Prover /\ LineInv
  BY DEF Verifier, Prover, Roles, AdvanceInv
<1>3. ASSUME IsLast(x, received[Verifier]), templateStatus[Verifier][y] = "PENDING"
      PROVE  y \in Sends(Verifier, received[Verifier])
  <2>1. VerifierAnswer(x, y)
    BY <1>3, Triggers DEF VerifierAlert, VerifierAnswer, VerifierAnswers
  <2>2. y \in VerifierSends(received[Verifier])
    BY <1>1, <1>2, <1>3, <2>1, ReceivedPrefix, VerifierSendsAnswer
  <2> QED
    BY <1>2, <2>2 DEF Sends
<1>4. \A t \in {Challenge, ProofRefuted} : t \notin Rejected(Verifier)
  BY DEF VerifierAlert, SpecialRejected, SpecialTemplates, Rejected, Verifier
<1> HIDE DEF x
<1>5. \/ \E u \in Protocol \cap Known : Position(x) < Position(u)
      \/ y \in Known
      \/ Refused(y) /\ y \in Rejected(Verifier)
  BY <1>1, <1>2, <1>3, <1>4, PromptReacts DEF x
<1>6. ASSUME NEW u \in Protocol \cap Known, Position(x) < Position(u) PROVE y \in Known
  <2>1. Position(x) \in Nat /\ Position(u) \in Nat
    BY <1>1, TriggerPosition
  <2>2. Position(y) <= Position(u)
    BY <1>1, <1>6, <2>1
  <2>3. y \in Line \/ Position(u) <= Position(y)
    BY <1>1, Rivals
  <2>4. \A v \in Protocol \cap Known : Position(v) = Position(y) => v = y
    BY <1>1 DEF Unpaid
  <2> QED
    BY <1>1, <1>2, <2>2, <2>3, <2>4, Behind
<1>7. CASE Refused(y) /\ y \in Rejected(Verifier)
  BY <1>4, <1>7 DEF VerifierAnswers, SelectRefused
<1> QED
  BY <1>5, <1>6, <1>7

(***************************************************************************)
(* No payout of the prover gets in: when its timeout has passed, the       *)
(* verifier's answer is there.                                             *)
(***************************************************************************)
LEMMA PayoutTooLate ==
    ASSUME AgentType, NodeInv, StatusInv, AdvanceInv, TimeoutAsked, VerifierAnswered, VerifierMargin,
           NEW p \in ProverPayouts, Asked(p), TestMempoolAccept(p)
    PROVE  FALSE
<1>1. p \in Protocol /\ p # Proof /\ p \notin Uncontestable /\ Role(p) = Prover
  BY PayoutFacts
<1>2. Trigger(p) \in Confirmed /\ conf[Trigger(p)] + SmallTimeout <= height
  BY <1>1 DEF AdvanceInv, AskedTrigger, TimeoutAsked, Asked
<1>3. conf[Trigger(p)] + Finality < height
  <2>1. conf[Trigger(p)] \in Nat /\ height \in Nat
    BY <1>2 DEF AgentType, TypeNode, Confirmed
  <2> QED
    BY <1>2, <2>1, FinalityAssumption, TimeoutAssumption DEF VerifierMargin
<1>4. \E y \in Protocol \cap Known : Position(y) = Position(p) /\ y # p
  <2>1. CASE p = ProofUncontested
    <3>1. Challenge \in Known
      BY <1>2, <1>3, <2>1, Triggers DEF VerifierAnswered, Answered
    <3> QED
      BY <2>1, <3>1, Positions, TriggerPosition DEF Line, Challenge, ProofUncontested, Once
  <2>2. CASE p = ArgumentUncontested
    <3>1. ProofRefuted \in Known /\ ProofRefuted \in Protocol
      BY <1>2, <1>3, <2>2, Triggers, PayoutFacts DEF VerifierAnswered, Answered, VerifierPayouts
    <3> QED
      BY <2>2, <3>1, Positions DEF ProofRefuted, ArgumentUncontested, Once
  <2>3. ASSUME NEW i \in Rounds, p = StateUncontested(i) PROVE \E y \in Protocol \cap Known : Position(y) = Position(p) /\ y # p
    <3>1. Select(i) \in Known
      BY <1>2, <1>3, <2>3, Triggers DEF VerifierAnswered, Answered
    <3>2. Select(i) \in Line /\ Select(i) # p
      BY <2>3 DEF Line, Select, StateUncontested
    <3> QED
      BY <2>3, <3>1, <3>2, Positions, TriggerPosition
  <2> QED
    BY <2>1, <2>2, <2>3 DEF ProverPayouts
<1> QED
  BY <1>1, <1>4, SamePosition DEF TestMempoolAccept, Known

(***************************************************************************)
(* Every step keeps an invalid proof unpaid.                               *)
(***************************************************************************)
LEMMA PaidStep ==
    ASSUME AgentType, NodeInv, StatusInv, AdvanceInv, OutcomeTrue(Verifier), TimeoutAsked, PaidInv, [Next]_vars
    PROVE  PaidInv'
<1> SUFFICES ASSUME VerifierAlert' PROVE Unpaid' /\ VerifierAnswered' /\ SelectRefused'
  BY DEF PaidInv
<1>1. Verifier \in Roles
  BY DEF Verifier, Roles
<1>2. VerifierAlert
  <2>1. \A t \in SpecialTemplates(Verifier) : t \in Rejected(Verifier) => t \in Rejected(Verifier)'
    BY <1>1, Monotone
  <2>2. SpecialTemplates(Verifier) \subseteq Protocol
    BY DEF SpecialTemplates, Protocol, OnceKinds, ProofRefuted, Challenge, Once
  <2>3. SpecialRejected => SpecialRejected'
    BY <2>1, <2>2 DEF SpecialRejected, Rejected
  <2> QED
    BY <2>3, ProofValidStep DEF VerifierAlert, VerifierMargin
<1>3. Unpaid /\ VerifierAnswered /\ SelectRefused /\ LineInv /\ VerifierMargin
  BY <1>2 DEF PaidInv, AdvanceInv, VerifierAlert
<1>4. Unpaid'
  <2> SUFFICES ASSUME NEW p \in ProverPayouts, p \in Known' PROVE FALSE
    BY DEF Unpaid
  <2>1. p \in Protocol /\ p \notin Known
    BY <1>3, PayoutFacts DEF Unpaid
  <2>2. TestMempoolAccept(p) /\ Asked(p)
    BY <2>1, SentNew DEF Asked
  <2> QED
    BY <1>3, <2>2, PayoutTooLate
<1>5. SelectRefused'
  <2> SUFFICES ASSUME NEW i \in Rounds, Refused(Select(i))' PROVE Select(i) \in Known'
    BY DEF SelectRefused
  <2> DEFINE y == Select(i)
  <2>0. y \in VerifierAnswers /\ y \in Answers /\ y \notin Uncontestable /\ y \notin SpecialTemplates(Role(y)) /\ y \in Line
    BY DEF VerifierAnswers, Answers, Uncontestable, SpecialTemplates, Select, SelectUncontested, Challenge,
           ProofRefuted, Once, Line
  <2>1. CASE Refused(y)
    BY <1>3, <2>1, KnownStep DEF SelectRefused
  <2>2. CASE ~Refused(y)
    <3>1. y \in Protocol /\ y # Proof
      BY <2>0, VerifierAnswerFacts
    <3>2. Asked(y) /\ ~TestMempoolAccept(y)
      BY <2>0, <2>2, <3>1, RefusedNew
    <3>3. Trigger(y) \in Confirmed
      BY <2>0, <3>1, <3>2 DEF AdvanceInv, AskedTrigger, Asked
    <3>4. PICK u \in Protocol \cap Known : Position(y) <= Position(u)
      BY <1>3, <2>0, <3>2, <3>3, RefusedAnswer
    <3>5. \A v \in Protocol \cap Known : Position(v) = Position(y) => v = y
      BY <1>3, <2>0, VerifierAnswerFacts DEF Unpaid
    <3> QED
      BY <1>3, <2>0, <3>1, <3>4, <3>5, Behind, KnownStep
  <2> QED
    BY <2>1, <2>2
<1>6. VerifierAnswered'
  <2>1. ASSUME NEW y \in VerifierAnswers, Answered(Trigger(y), y, Finality)
        PROVE  Answered(Trigger(y), y, Finality)'
    <3>1. Trigger(y) \in Names
      BY VerifierAnswerFacts, TriggerPosition DEF Names
    <3>2. ASSUME Mine, Trigger(y) \in Confirmed, conf[Trigger(y)] + Finality = height PROVE y \in Known
      <4>1. ~Busy(Verifier)
        BY <1>2, <3>2 DEF Mine, VerifierAlert
      <4>2. conf[Trigger(y)] + Finality <= height
        BY <3>2 DEF AgentType, TypeNode
      <4> QED
        BY <1>2, <1>3, <3>2, <4>1, <4>2, VerifierReacts
    <3> HIDE DEF Trigger
    <3> QED
      BY <2>1, <3>1, <3>2, AnsweredStep, FinalityAssumption
  <2>2. Answered(Proof, Challenge, Finality)'
    BY <1>3, <2>1, Triggers DEF VerifierAnswered, VerifierAnswers
  <2>3. Answered(Argument, ProofRefuted, Finality)'
    BY <1>3, <2>1, Triggers DEF VerifierAnswered, VerifierAnswers
  <2>4. \A i \in Rounds : Answered(State(i), Select(i), Finality)'
    BY <1>3, <2>1, Triggers DEF VerifierAnswered, VerifierAnswers
  <2> QED
    BY <2>2, <2>3, <2>4 DEF VerifierAnswered
<1> QED
  BY <1>4, <1>5, <1>6

-----------------------------------------------------------------------------

ProverAnswers == {Argument} \cup {State(i) : i \in Rounds}

(***************************************************************************)
(* The prover's answers compete with the verifier's timeouts only.         *)
(***************************************************************************)
LEMMA ProverAnswerFacts ==
    ASSUME NEW y \in ProverAnswers
    PROVE  /\ y \in Protocol \ {Proof} /\ Role(y) = Prover /\ y \in Line \cap Answers /\ y \notin Uncontestable
           /\ Trigger(y) \in Line /\ Position(y) = Position(Trigger(y)) + 1
           /\ y \notin SpecialTemplates(Role(y))
           /\ \A v \in Protocol : Position(v) = Position(y) => v = y \/ v \in {ChallengeUncontested} \cup Uncontestable
<1> USE IterationsAssumption DEF Rounds
<1>1. y \in Protocol \ {Proof} /\ Role(y) = Prover /\ y \in Line \cap Answers /\ y \notin Uncontestable
  BY DEF ProverAnswers, Protocol, OnceKinds, StepKinds, Role, VerifierKinds, Prover, State, Argument, Proof, Once,
         Line, Answers, Uncontestable, SelectUncontested
<1>2. y \notin SpecialTemplates(Role(y))
  BY <1>1 DEF SpecialTemplates, Prover
<1>3. ASSUME y = Argument, NEW v \in Protocol, Position(v) = Position(y) PROVE v = y \/ v \in Uncontestable
  <2>1. Iterations - 1 \in Rounds /\ Position(v) = 2 * (Iterations - 1) + 4
    BY <1>3, Positions
  <2>2. NextAnswer(Iterations - 1) = Argument
    BY DEF NextAnswer
  <2> QED
    BY <1>3, <2>1, <2>2, Rivals DEF Uncontestable
<1>4. ASSUME y = State(0), NEW v \in Protocol, Position(v) = Position(y) PROVE v = y \/ v = ChallengeUncontested
  <2>1. Position(v) = 2
    BY <1>4, Positions
  <2> QED
    BY <1>4, <2>1, Rivals
<1>5. ASSUME NEW i \in Rounds, i # 0, y = State(i), NEW v \in Protocol, Position(v) = Position(y)
      PROVE  v = y \/ v \in Uncontestable
  <2>1. i - 1 \in Rounds /\ Position(v) = 2 * (i - 1) + 4
    BY <1>5, Positions
  <2>2. NextAnswer(i - 1) = State(i)
    BY <1>5 DEF NextAnswer
  <2> QED
    BY <1>5, <2>1, <2>2, Rivals DEF Uncontestable
<1> QED
  BY <1>1, <1>2, <1>3, <1>4, <1>5, TriggerPosition DEF ProverAnswers

(***************************************************************************)
(* A prover that has nothing more to do has got its answers through.       *)
(***************************************************************************)
LEMMA ProverReacts ==
    ASSUME AgentType, NodeInv, StatusInv, AdvanceInv, OutcomeTrue(Prover), NotTimedOut, AnswerRefused,
           ~Busy(Prover), NEW y \in ProverAnswers, Trigger(y) \in Confirmed, conf[Trigger(y)] + Finality <= height
    PROVE  y \in Known
<1> DEFINE x == Trigger(y)
<1>1. /\ y \in Protocol /\ Role(y) = Prover /\ x \in Line /\ Position(y) = Position(x) + 1 /\ y \in Line
      /\ \A v \in Protocol : Position(v) = Position(y) => v = y \/ v \in {ChallengeUncontested} \cup Uncontestable
  BY ProverAnswerFacts
<1>2. Prover \in Roles /\ Verifier # Prover /\ LineInv
  BY DEF Verifier, Prover, Roles, AdvanceInv
<1>3. ASSUME IsLast(x, received[Prover]) PROVE y \in Sends(Prover, received[Prover])
  <2>1. ProverAnswer(x, y)
    <3>1. CASE y \in {Argument, State(0)}
      BY <3>1, Triggers DEF ProverAnswer
    <3>2. ASSUME NEW i \in Rounds, i # 0, y = State(i) PROVE ProverAnswer(x, y)
      <4>1. i - 1 \in Rounds /\ (i - 1) + 1 = i
        BY <3>2, IterationsAssumption DEF Rounds
      <4>2. x = Select(i - 1)
        BY <3>2, Triggers
      <4> QED
        BY <3>2, <4>1, <4>2 DEF ProverAnswer
    <3> QED
      BY <3>1, <3>2 DEF ProverAnswers
  <2>2. y \in ProverSends(received[Prover])
    BY <1>1, <1>2, <1>3, <2>1, ReceivedPrefix, ProverSendsAnswer
  <2> QED
    BY <2>2 DEF Sends
<1> HIDE DEF x
<1>4. \/ \E u \in Protocol \cap Known : Position(x) < Position(u)
      \/ y \in Known
      \/ Refused(y)
  BY <1>1, <1>2, <1>3, PromptReacts DEF x
<1>5. ASSUME NEW u \in Protocol \cap Known, Position(x) < Position(u) PROVE y \in Known
  <2>1. Position(x) \in Nat /\ Position(u) \in Nat
    BY <1>1, TriggerPosition
  <2>2. Position(y) <= Position(u)
    BY <1>1, <1>5, <2>1
  <2>3. \A v \in Protocol \cap Known : Position(v) = Position(y) => v = y
    BY <1>1 DEF NotTimedOut
  <2> QED
    BY <1>1, <1>2, <2>2, <2>3, Behind
<1> QED
  BY <1>4, <1>5 DEF ProverAnswers, AnswerRefused

(***************************************************************************)
(* Whatever is behind PROOF goes with a CHALLENGE or is PROOF_UNCONTESTED. *)
(***************************************************************************)
LEMMA BehindProof ==
    ASSUME NodeInv, LineInv, NEW u \in Protocol \cap Known, 0 < Position(u)
    PROVE  {Challenge, ProofUncontested} \cap Known # {}
<1>1. CASE Position(u) = 1
  BY <1>1, Rivals
<1>2. CASE Position(u) # 1
  <2>1. Challenge \in Line /\ Position(Challenge) < Position(u)
    BY <1>2, Positions, TriggerPosition DEF Line
  <2> QED
    BY <2>1 DEF LineInv, Known
<1> QED
  BY <1>1, <1>2

(***************************************************************************)
(* A prover that has nothing more to do is not left with its PROOF.        *)
(***************************************************************************)
LEMMA ProofReacts ==
    ASSUME AgentType, NodeInv, StatusInv, AdvanceInv, OutcomeTrue(Prover), AnswerRefused, ~Busy(Prover),
           Proof \in Confirmed, conf[Proof] + Patience = height
    PROVE  {Challenge, ProofUncontested} \cap Known # {}
<1>1. conf[Proof] + Finality <= height /\ conf[Proof] + SmallTimeout <= height
  <2>1. conf[Proof] \in Nat
    BY DEF AgentType, TypeNode, Confirmed
  <2> QED
    BY <2>1, FinalityAssumption, TimeoutAssumption DEF Patience
<1>2. Prover \in Roles /\ Verifier # Prover /\ LineInv
  BY DEF Verifier, Prover, Roles, AdvanceInv
<1>3. Proof \in Line /\ Position(Proof) = 0 /\ ProofUncontested \in Protocol /\ Role(ProofUncontested) = Prover
  BY Positions, PayoutFacts DEF Line, ProverPayouts
<1>4. ASSUME IsLast(Proof, received[Prover]) PROVE ProofUncontested \in Sends(Prover, received[Prover])
  <2>1. ProverAnswer(Proof, ProofUncontested)
    BY <1>1 DEF ProverAnswer
  <2>2. ProofUncontested \in ProverSends(received[Prover])
    BY <1>2, <1>3, <1>4, <2>1, ReceivedPrefix, ProverSendsAnswer
  <2> QED
    BY <2>2 DEF Sends
<1>5. \/ \E u \in Protocol \cap Known : Position(Proof) < Position(u)
      \/ ProofUncontested \in Known
      \/ Refused(ProofUncontested)
  BY <1>1, <1>2, <1>3, <1>4, PromptReacts
<1> QED
  BY <1>2, <1>3, <1>5, BehindProof DEF AnswerRefused

(***************************************************************************)
(* The node refuses PROOF_UNCONTESTED, asked for in time, only if there is *)
(* a CHALLENGE or it has it already.                                       *)
(***************************************************************************)
LEMMA RefusedProofUncontested ==
    ASSUME AgentType, NodeInv, AdvanceInv, FundsLocked, TimeoutAsked, Asked(ProofUncontested),
           ~TestMempoolAccept(ProofUncontested)
    PROVE  {Challenge, ProofUncontested} \cap Known # {}
<1> DEFINE y == ProofUncontested
<1>1. y \in Protocol /\ y # Proof /\ y \notin Uncontestable /\ y # ProofRefuted /\ Trigger(y) = Proof
  BY PayoutFacts, Triggers DEF ProverPayouts, ProofUncontested, ProofRefuted, Once
<1>2. Proof \in Confirmed /\ conf[Proof] + SmallTimeout <= height
  BY <1>1 DEF AdvanceInv, AskedTrigger, TimeoutAsked, Asked, ProverPayouts
<1>3. LockedFunds \in Confirmed
  BY DEF FundsLocked, External, ExternalKinds, LockedFunds, Once
<1>4. Inputs(y) = {In(LockedFunds, 0, 0), In(Proof, 0, 0), In(Proof, 2, 0)}
  BY DEF Inputs, StartInputs, StepInputs, EndInputs, ProofUncontested, Once
<1>5. /\ NSequence(In(LockedFunds, 0, 0)) = 0 /\ NSequence(In(Proof, 0, 0)) = SmallTimeout
      /\ NSequence(In(Proof, 2, 0)) = 0
  BY DEF NSequence, SpendingCondition, In, Outputs, StepKinds, StartOutputs, Proof, LockedFunds, Once, Plain, Data,
         Sc
<1>6. ASSUME NEW in \in Inputs(y) PROVE in.tx \in Confirmed /\ conf[in.tx] + NSequence(in) <= height + 1
  <2>1. in.tx \in {LockedFunds, Proof} /\ in.tx \in Confirmed
    BY <1>2, <1>3, <1>4 DEF In
  <2>2. NSequence(in) = 0 \/ (NSequence(in) = SmallTimeout /\ in.tx = Proof)
    BY <1>4, <1>5 DEF In
  <2>3. conf[in.tx] \in Nat /\ conf[in.tx] <= height /\ height \in Nat
    BY <2>1 DEF AgentType, TypeNode, Confirmed
  <2> QED
    BY <1>2, <2>1, <2>2, <2>3, TimeoutAssumption
<1>7. CASE y \in Known
  BY <1>7
<1>8. CASE y \notin Known
  <2>1. PICK u \in Known : Spends(y) \cap Spends(u) # {}
    BY <1>1, <1>6, <1>8 DEF TestMempoolAccept, ScriptAccepts, Known
  <2>2. PICK in \in Inputs(y), other \in Inputs(u) : in.tx = other.tx
    BY <2>1 DEF Spends
  <2>3. u \in Protocol \cap Known
    BY <2>1, <2>2, ExternalRoots DEF Known, Mempool, Confirmed, Names
  <2>4. u # Proof
    <3>1. ASSUME u = Proof PROVE other = In(ProverStake, 0, 0)
      BY <3>1 DEF Inputs, StartInputs, StepInputs, EndInputs, Proof, Once
    <3> QED
      BY <1>4, <2>2, <3>1 DEF In, ProverStake, LockedFunds, Proof, Once
  <2>5. 0 < Position(u)
    <3>1. Proof \in Protocol \cap Known /\ Position(Proof) = 0
      BY <1>2, Positions, TriggerPosition DEF Known, Line
    <3> QED
      BY <2>3, <2>4, <3>1, KnownPosition, TriggerPosition
  <2> QED
    BY <2>3, <2>5, BehindProof DEF AdvanceInv
<1> QED
  BY <1>7, <1>8

(***************************************************************************)
(* A timeout template of the verifier does not get in: when it may, the    *)
(* prover's answer is there.                                               *)
(***************************************************************************)
LEMMA TimeoutTooLate ==
    ASSUME AgentType, NodeInv, StatusInv, AdvanceInv, TimeoutAsked, WaitInv, ChallengeSoon, ProverAnswered,
           ProverMargin, SelectMargin, NEW t \in {ChallengeUncontested} \cup Uncontestable,
           templateStatus[Role(t)][t] = "READY", TestMempoolAccept(t)
    PROVE  FALSE
<1> USE IterationsAssumption DEF Rounds
<1>1. CASE t = ChallengeUncontested
  <2>1. t \in Protocol /\ t # Proof /\ t \notin Uncontestable /\ Asked(t)
    BY <1>1, PayoutFacts DEF VerifierPayouts, Uncontestable, ChallengeUncontested, SelectUncontested, Once, Asked
  <2>2. Challenge \in Confirmed
    BY <1>1, <2>1, Triggers DEF AdvanceInv, AskedTrigger, Asked
  <2>3. Proof \in Confirmed
    <3>1. /\ Challenge \in Protocol \cap Known /\ Proof \in Line /\ Position(Proof) < Position(Challenge)
      BY <2>2, Positions, TriggerPosition DEF Line, Known
    <3> QED
      BY <3>1 DEF AdvanceInv, LineInv
  <2>4. conf[Proof] + LargeTimeout <= height /\ conf[Challenge] <= conf[Proof] + Patience + InclusionDelay + 1
    BY <1>1, <2>1, <2>2 DEF TimeoutAsked, ChallengeSoon
  <2>5. conf[Challenge] + Finality < height
    <3>1. conf[Challenge] \in Nat /\ conf[Proof] \in Nat /\ height \in Nat
      BY <2>2, <2>3 DEF AgentType, TypeNode, Confirmed
    <3> QED
      BY <2>4, <3>1, FinalityAssumption, TimeoutAssumption, NodeAssumption DEF Patience, ProverMargin
  <2>6. State(0) \in Known /\ State(0) \in Protocol /\ State(0) # t /\ Position(State(0)) = Position(t)
    BY <1>1, <2>2, <2>5, Positions, TriggerPosition
       DEF ProverAnswered, Answered, Line, State, ChallengeUncontested, Once
  <2> QED
    BY <2>1, <2>6, SamePosition DEF TestMempoolAccept, Known
<1>2. ASSUME NEW i \in Rounds, t = SelectUncontested(i) PROVE FALSE
  <2>1. Select(i) \in Confirmed /\ conf[Select(i)] + SmallTimeout <= height + 1
    BY <1>2, UncontestableTrigger
  <2>2. Role(t) = Verifier
    BY <1>2, PayoutFacts DEF VerifierPayouts
  <2>3. crashes # 0
    BY <1>2, <2>1, <2>2, UncontestableUnsent DEF Known
  <2>4. conf[Select(i)] + Finality < height
    <3>1. conf[Select(i)] \in Nat /\ height \in Nat
      BY <2>1 DEF AgentType, TypeNode, Confirmed
    <3> QED
      BY <2>1, <2>3, <3>1, FinalityAssumption, TimeoutAssumption DEF SelectMargin
  <2>5. NextAnswer(i) \in Known
    BY <2>1, <2>4 DEF ProverAnswered, Answered
  <2>6. NextAnswer(i) \in Protocol /\ NextAnswer(i) # t /\ Position(NextAnswer(i)) = Position(t)
    <3>1. Position(t) = 2 * i + 4 /\ i \in 0 .. Iterations - 1
      BY <1>2, Positions
    <3>2. CASE i + 1 \in Rounds
      <4>1. NextAnswer(i) = State(i + 1) /\ State(i + 1) \in Protocol /\ State(i + 1) # t
        BY <1>2, <3>2, TriggerPosition DEF NextAnswer, Line, State, SelectUncontested
      <4>2. Position(State(i + 1)) = 2 * (i + 1) + 2
        BY <3>2, Positions
      <4> QED
        BY <3>1, <4>1, <4>2
    <3>3. CASE i + 1 \notin Rounds
      <4>1. NextAnswer(i) = Argument /\ Argument \in Protocol /\ Argument # t
        BY <1>2, <3>3, TriggerPosition DEF NextAnswer, Line, Argument, Once, SelectUncontested
      <4>2. i = Iterations - 1
        BY <3>1, <3>3
      <4>3. Position(Argument) = 2 * Iterations + 2
        BY Positions
      <4> QED
        BY <3>1, <4>1, <4>2, <4>3
    <3> QED
      BY <3>2, <3>3
  <2>7. t \in Protocol
    BY <1>2, PayoutFacts DEF VerifierPayouts
  <2> QED
    BY <2>5, <2>6, <2>7, SamePosition DEF TestMempoolAccept, Known
<1> QED
  BY <1>1, <1>2 DEF Uncontestable

(***************************************************************************)
(* A waiting transaction waits on, or is confirmed by the new block.       *)
(***************************************************************************)
LEMMA WaitingStep ==
    ASSUME AgentType, NodeInv, MinedSoon, [Next]_vars, NEW t \in Protocol, t \in Known
    PROVE  /\ t \in Mempool' => t \in Mempool /\ entered'[t] = entered[t]
           /\ t \in Confirmed' /\ t \notin Confirmed
                => t \in Mempool /\ conf'[t] <= entered[t] + InclusionDelay + 1
<1>1. CASE Accept
  <2>1. PICK u \in Protocol : TestMempoolAccept(u) /\ SendRawTransaction(u)
    BY <1>1 DEF Accept
  <2>2. u # t /\ Confirmed' = Confirmed
    BY <2>1 DEF TestMempoolAccept, Known, SendRawTransaction, Confirmed
  <2> QED
    BY <2>1, <2>2 DEF SendRawTransaction, Mempool
<1>2. CASE Extend
  <2>1. PICK S \in SUBSET Mempool : MineBlock(S)
    BY <1>2 DEF Extend
  <2>2. t \in Mempool' => t \in Mempool /\ entered'[t] = entered[t]
    BY <2>1, BlockEffect DEF MineBlock, Mempool
  <2>3. ASSUME t \in Confirmed', t \notin Confirmed
        PROVE  t \in Mempool /\ conf'[t] <= entered[t] + InclusionDelay + 1
    <3>1. t \in S /\ conf'[t] = height + 1
      BY <2>1, <2>3, BlockEffect
    <3>2. height <= entered[t] + InclusionDelay /\ height \in Nat /\ entered[t] \in Nat
      BY <3>1 DEF MinedSoon, NodeInv, NodeType
    <3> QED
      BY <3>1, <3>2, NodeAssumption
  <2> QED
    BY <2>2, <2>3
<1>3. CASE UNCHANGED nodeVars
  BY <1>3 DEF nodeVars, Mempool, Confirmed
<1> QED
  BY <1>1, <1>2, <1>3, NodeSteps

(***************************************************************************)
(* Heights stay numbers.                                                   *)
(***************************************************************************)
LEMMA ConfType ==
    ASSUME NodeInv, [Next]_vars, NEW t \in Names PROVE conf'[t] \in Nat
<1>1. CASE Accept
  BY <1>1 DEF Accept, SendRawTransaction, NodeInv, NodeType
<1>2. CASE Extend
  BY <1>2, BlockEffect DEF Extend, NodeType
<1>3. CASE UNCHANGED nodeVars
  BY <1>3 DEF nodeVars, NodeInv, NodeType
<1> QED
  BY <1>1, <1>2, <1>3, NodeSteps

(***************************************************************************)
(* The CHALLENGE comes early, if at all.                                   *)
(***************************************************************************)
LEMMA ChallengeStep ==
    ASSUME AgentType, NodeInv, StatusInv, AdvanceInv, MinedSoon, ProofAnswered, ChallengeSoon, [Next]_vars
    PROVE  ChallengeSoon'
<1>1. /\ Challenge \in Protocol \ {Proof} /\ Trigger(Challenge) = Proof /\ Challenge \notin Uncontestable
      /\ ProofUncontested \in Protocol /\ ProofUncontested # Challenge
      /\ Position(ProofUncontested) = Position(Challenge)
  BY Positions, Triggers, PayoutFacts
     DEF Protocol, OnceKinds, Challenge, Proof, Once, Uncontestable, SelectUncontested, ProverPayouts,
         ProofUncontested
<1>2. CASE Challenge \in Known
  <2>1. Proof \in Confirmed
    BY <1>1, <1>2 DEF AdvanceInv, KnownTrigger
  <2>2. conf'[Proof] = conf[Proof] /\ conf[Proof] \in Nat
    BY <2>1, ConfStep
  <2>3. Challenge \in Mempool' => entered'[Challenge] <= conf'[Proof] + Patience
    BY <1>1, <1>2, <2>2, WaitingStep DEF ChallengeSoon
  <2>4. ASSUME Challenge \in Confirmed'
        PROVE  conf'[Challenge] <= conf'[Proof] + Patience + InclusionDelay + 1
    <3>1. CASE Challenge \in Confirmed
      BY <2>2, <3>1, ConfStep DEF ChallengeSoon
    <3>2. CASE Challenge \notin Confirmed
      <4>1. Challenge \in Mempool /\ conf'[Challenge] <= entered[Challenge] + InclusionDelay + 1
        BY <1>1, <1>2, <2>4, <3>2, WaitingStep
      <4>2. entered[Challenge] <= conf[Proof] + Patience
        BY <4>1 DEF ChallengeSoon
      <4>3. entered[Challenge] \in Nat
        BY <1>1 DEF NodeInv, NodeType
      <4>4. conf'[Challenge] \in Nat
        BY <1>1, ConfType DEF Names
      <4> QED
        BY <2>2, <4>1, <4>2, <4>3, <4>4, NodeAssumption, FinalityAssumption, TimeoutAssumption DEF Patience
    <3> QED
      BY <3>1, <3>2
  <2> QED
    BY <2>3, <2>4 DEF ChallengeSoon
<1>3. CASE Challenge \notin Known /\ Challenge \in Known'
  <2>1. /\ TestMempoolAccept(Challenge) /\ entered'[Challenge] = height /\ UNCHANGED <<height, conf>>
        /\ Asked(Challenge)
    BY <1>1, <1>3, SentNew DEF Asked
  <2>2. Proof \in Confirmed
    BY <1>1, <2>1 DEF AdvanceInv, AskedTrigger, Asked
  <2>3. Challenge \notin Confirmed'
    BY <1>3, <2>1 DEF Confirmed, Known
  <2>4. ProofUncontested \notin Known
    BY <1>1, <2>1, SamePosition DEF TestMempoolAccept, Known
  <2>5. ~ (conf[Proof] + Patience < height)
    BY <1>3, <2>2, <2>4 DEF ProofAnswered
  <2>6. height <= conf[Proof] + Patience
    BY <2>2, <2>5, ConfStep, FinalityAssumption, TimeoutAssumption DEF Patience
  <2> QED
    BY <2>1, <2>3, <2>6 DEF ChallengeSoon
<1>4. CASE Challenge \notin Known'
  BY <1>4 DEF ChallengeSoon, Known
<1> QED
  BY <1>2, <1>3, <1>4

(***************************************************************************)
(* Every step keeps a prompt prover in time.                               *)
(***************************************************************************)
LEMMA InTimeStep ==
    ASSUME AgentType, NodeInv, StatusInv, AdvanceInv, OutcomeTrue(Prover), FundsLocked, TimeoutAsked, MinedSoon,
           WaitInv, InTimeInv, [Next]_vars
    PROVE  InTimeInv'
<1> SUFFICES ASSUME ProverAlert'
             PROVE  NotTimedOut' /\ ProofAnswered' /\ ChallengeSoon' /\ ProverAnswered' /\ AnswerRefused'
  BY DEF InTimeInv
<1>1. Prover \in Roles /\ LineInv
  BY DEF Prover, Roles, AdvanceInv
<1>2. ProverAlert
  BY CrashCount DEF ProverAlert, SelectMargin, ProverMargin
<1>3. NotTimedOut /\ ProofAnswered /\ ChallengeSoon /\ ProverAnswered /\ AnswerRefused
  BY <1>2 DEF InTimeInv
<1>4. NotTimedOut'
  <2> SUFFICES ASSUME NEW t \in {ChallengeUncontested} \cup Uncontestable, t \in Known' PROVE FALSE
    BY DEF NotTimedOut
  <2>1. t \in Protocol /\ t \notin Known
    BY <1>3, PayoutFacts DEF NotTimedOut, VerifierPayouts, Uncontestable
  <2>2. TestMempoolAccept(t) /\ templateStatus[Role(t)][t] = "READY"
    BY <2>1, SentNew
  <2> QED
    BY <1>2, <1>3, <2>2, TimeoutTooLate DEF ProverAlert
<1>5. ProofAnswered'
  <2> SUFFICES ASSUME Proof \in Confirmed', conf'[Proof] + Patience < height'
               PROVE  {Challenge, ProofUncontested} \cap Known # {}
    BY KnownStep DEF ProofAnswered, Patience
  <2>1. Patience \in Nat /\ Proof \in Names
    BY FinalityAssumption, TimeoutAssumption, TriggerPosition DEF Patience, Names, Line
  <2>2. Proof \in Confirmed /\ (conf[Proof] + Patience < height \/ (Mine /\ conf[Proof] + Patience = height))
    BY <2>1, OverdueStep
  <2>3. CASE Mine /\ conf[Proof] + Patience = height
    <3>1. ~Busy(Prover)
      BY <1>2, <2>3 DEF Mine, ProverAlert
    <3> QED
      BY <1>3, <2>2, <2>3, <3>1, ProofReacts
  <2> QED
    BY <1>3, <2>2, <2>3 DEF ProofAnswered
<1>6. ChallengeSoon'
  BY <1>3, ChallengeStep
<1>7. ProverAnswered'
  <2>1. ASSUME NEW y \in ProverAnswers, Answered(Trigger(y), y, Finality)
        PROVE  Answered(Trigger(y), y, Finality)'
    <3>1. Trigger(y) \in Names
      BY ProverAnswerFacts, TriggerPosition DEF Names
    <3>2. ASSUME Mine, Trigger(y) \in Confirmed, conf[Trigger(y)] + Finality = height PROVE y \in Known
      <4>1. ~Busy(Prover)
        BY <1>2, <3>2 DEF Mine, ProverAlert
      <4>2. conf[Trigger(y)] + Finality <= height
        BY <3>2 DEF AgentType, TypeNode
      <4> QED
        BY <1>3, <3>2, <4>1, <4>2, ProverReacts
    <3> HIDE DEF Trigger
    <3> QED
      BY <2>1, <3>1, <3>2, AnsweredStep, FinalityAssumption
  <2>2. 0 \in Rounds /\ State(0) \in ProverAnswers
    BY IterationsAssumption DEF ProverAnswers, Rounds
  <2>3. Answered(Challenge, State(0), Finality)'
    BY <1>3, <2>1, <2>2, Triggers DEF ProverAnswered
  <2>4. ASSUME NEW i \in Rounds PROVE Answered(Select(i), NextAnswer(i), Finality)'
    <3>1. NextAnswer(i) \in ProverAnswers /\ Trigger(NextAnswer(i)) = Select(i)
      <4>1. CASE i + 1 \in Rounds
        <5>1. (i + 1) # 0 /\ (i + 1) - 1 = i
          BY DEF Rounds
        <5>2. Trigger(State(i + 1)) = Select((i + 1) - 1)
          BY <4>1, <5>1, Triggers
        <5> QED
          BY <4>1, <5>1, <5>2 DEF NextAnswer, ProverAnswers
      <4>2. CASE i + 1 \notin Rounds
        <5>1. i = Iterations - 1
          BY <4>2, IterationsAssumption DEF Rounds
        <5> QED
          BY <4>2, <5>1, Triggers DEF NextAnswer, ProverAnswers
      <4> QED
        BY <4>1, <4>2
    <3> QED
      BY <1>3, <2>1, <3>1 DEF ProverAnswered
  <2> QED
    BY <2>3, <2>4 DEF ProverAnswered, NextAnswer
<1>8. AnswerRefused'
  <2>1. ASSUME NEW y \in ProverAnswers, Refused(y)' PROVE y \in Known'
    <3>1. CASE Refused(y)
      BY <1>3, <3>1, KnownStep DEF AnswerRefused, ProverAnswers
    <3>2. CASE ~Refused(y)
      <4>1. /\ y \in Protocol \ {Proof} /\ y \in Line \cap Answers /\ y \notin Uncontestable
            /\ y \notin SpecialTemplates(Role(y))
        BY ProverAnswerFacts
      <4>2. Asked(y) /\ ~TestMempoolAccept(y)
        BY <2>1, <3>2, <4>1, RefusedNew
      <4>3. Trigger(y) \in Confirmed
        BY <4>1, <4>2 DEF AdvanceInv, AskedTrigger, Asked
      <4>4. PICK u \in Protocol \cap Known : Position(y) <= Position(u)
        BY <1>1, <4>1, <4>2, <4>3, RefusedAnswer
      <4>5. \A v \in Protocol \cap Known : Position(v) = Position(y) => v = y
        BY <1>3, ProverAnswerFacts DEF NotTimedOut
      <4> QED
        BY <1>1, <4>1, <4>4, <4>5, Behind, KnownStep
    <3> QED
      BY <3>1, <3>2
  <2>2. ASSUME Refused(ProofUncontested)' PROVE {Challenge, ProofUncontested} \cap Known' # {}
    <3>1. CASE Refused(ProofUncontested)
      BY <1>3, <3>1, KnownStep DEF AnswerRefused
    <3>2. CASE ~Refused(ProofUncontested)
      <4>1. ProofUncontested \in Protocol /\ ProofUncontested \notin SpecialTemplates(Role(ProofUncontested))
        BY PayoutFacts DEF ProverPayouts, SpecialTemplates, Prover
      <4>2. Asked(ProofUncontested) /\ ~TestMempoolAccept(ProofUncontested)
        BY <2>2, <3>2, <4>1, RefusedNew
      <4> QED
        BY <4>2, RefusedProofUncontested, KnownStep
    <3> QED
      BY <3>1, <3>2
  <2> QED
    BY <2>1, <2>2 DEF AnswerRefused, ProverAnswers
<1> QED
  BY <1>4, <1>5, <1>6, <1>7, <1>8

-----------------------------------------------------------------------------

PromptInv == FundsLocked /\ TimeoutAsked /\ MinedSoon /\ WaitInv /\ PaidInv /\ InTimeInv

(***************************************************************************)
(* Nothing is asked for, sent or confirmed before the peg-out starts.      *)
(***************************************************************************)
LEMMA InitPrompt == Init => PromptInv
<1> SUFFICES ASSUME Init PROVE PromptInv
  OBVIOUS
<1>1. Mempool = {} /\ Confirmed = External /\ Confirmed \cap Protocol = {}
  BY DEF Init, NodeInit, Mempool, Confirmed, Names, External, Protocol, ExternalKinds, OnceKinds, StepKinds
<1>2. ASSUME NEW t \in Protocol PROVE t \notin Known /\ ~Asked(t) /\ ~Refused(t)
  <2>1. Role(t) \in Roles
    BY DEF Role, Roles
  <2> QED
    BY <1>1, <2>1 DEF Known, Asked, Refused, CurrentStatus, Init, SenderInit, Nothing
<1>3. /\ ProverPayouts \cup VerifierPayouts \subseteq Protocol
      /\ ChallengeUncontested \in VerifierPayouts /\ Uncontestable \subseteq VerifierPayouts
  BY PayoutFacts DEF VerifierPayouts, Uncontestable
<1>4. /\ {Proof, Challenge, Argument, ProofUncontested} \subseteq Protocol
      /\ \A i \in Rounds : {State(i), Select(i), SelectUncontested(i)} \subseteq Protocol
  BY <1>3, TriggerPosition DEF Line, ProverPayouts, VerifierPayouts
<1>5. FundsLocked /\ MinedSoon /\ TimeoutAsked
  BY <1>1, <1>2, <1>3 DEF FundsLocked, MinedSoon, TimeoutAsked
<1>6. WaitInv
  BY <1>2, <1>4 DEF WaitInv, SelectAsked, OneAsked, NeverTogether, Init, SenderInit, Roles, Verifier
<1>7. PaidInv
  BY <1>1, <1>2, <1>3, <1>4
     DEF PaidInv, Unpaid, VerifierAnswered, Answered, SelectRefused, Known
<1>8. InTimeInv
  BY <1>1, <1>2, <1>3, <1>4
     DEF InTimeInv, NotTimedOut, ProofAnswered, ChallengeSoon, ProverAnswered, AnswerRefused, Answered, Known
<1> QED
  BY <1>5, <1>6, <1>7, <1>8 DEF PromptInv

(***************************************************************************)
(* How promptly transactions are asked for, mined and answered.  Nothing   *)
(* but the bound on crashes, the timeouts and who is prompt is assumed.    *)
(***************************************************************************)
THEOREM PromptInvariant == Spec => []PromptInv
<1>1. /\ NodeInv /\ AgentType /\ StatusInv /\ StatusInv' /\ AdvanceInv /\ Outcomes /\ PromptInv
      /\ [Next]_vars
      => PromptInv'
  <2> SUFFICES ASSUME NodeInv, AgentType, StatusInv, StatusInv', AdvanceInv, Outcomes, PromptInv, [Next]_vars
               PROVE  PromptInv'
    OBVIOUS
  <2> USE DEF PromptInv
  <2>1. OutcomeTrue(Prover) /\ OutcomeTrue(Verifier)
    BY DEF Outcomes, Roles, Prover, Verifier
  <2>2. FundsLocked'
    BY Monotone DEF FundsLocked
  <2>3. TimeoutAsked'
    BY TimeoutStep
  <2>4. MinedSoon'
    BY MinedStep
  <2>5. WaitInv'
    BY VerifierWaits
  <2>6. PaidInv'
    BY <2>1, PaidStep
  <2>7. InTimeInv'
    BY <2>1, InTimeStep
  <2> QED
    BY <2>2, <2>3, <2>4, <2>5, <2>6, <2>7
<1> QED
  BY <1>1, InitPrompt, NodeInvariant, AgentTypeInvariant, StatusInvariant, AdvanceInvariant, OutcomeInvariant, PTL
     DEF Spec

(***************************************************************************)
(* A verifier that keeps up with the chain never lets an invalid proof be  *)
(* paid, whatever the prover does.                                         *)
(***************************************************************************)
THEOREM InvalidProofUnpaid == Spec => []InvalidProofNotPaid
<1>1. PromptInv => InvalidProofNotPaid
  BY DEF PromptInv, PaidInv, VerifierAlert, Unpaid, InvalidProofNotPaid, Known
<1> QED
  BY <1>1, PromptInvariant, PTL

(***************************************************************************)
(* A prover that keeps up with the chain is never timed out, whatever the  *)
(* verifier does.                                                          *)
(***************************************************************************)
THEOREM ProverInTime == Spec => []PromptProverNotTimedOut
<1>1. PromptInv => PromptProverNotTimedOut
  BY DEF PromptInv, InTimeInv, ProverAlert, NotTimedOut, Uncontestable, PromptProverNotTimedOut, Known
<1> QED
  BY <1>1, PromptInvariant, PTL
=============================================================================
