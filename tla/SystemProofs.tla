---------------------------- MODULE SystemProofs ----------------------------
(***************************************************************************)
(* Proofs about System, for any number of rounds, any timeouts, any bounds *)
(* and any choice of prompt agents: the composition of agents, databases,  *)
(* senders and node implements TxFlow, and what the agents write to their  *)
(* databases is true of the node.                                          *)
(*                                                                         *)
(* Only two steps touch the node: the acceptance of a transaction by a     *)
(* sender's sendrawtransaction and a new block.  The refinement needs to   *)
(* know that what was accepted can still be mined, which is MempoolInv.    *)
(*                                                                         *)
(* The second half is about the line of templates along which the agents   *)
(* advance.                                                                *)
(***************************************************************************)
EXTENDS System, TemplatesProofs, FiniteSetTheorems

\* The node's part of the type invariant.
NodeType ==
    /\ height \in Nat \ {0}
    /\ conf \in [Names -> Nat]
    /\ entered \in [Protocol -> Nat]

\* Transactions in the mempool are unconfirmed, conflict with nothing and
\* are final for the next block.
MempoolInv ==
    /\ Mempool \cap Confirmed = {}
    /\ \A t \in Mempool : \A u \in Mempool \cup Confirmed :
          t # u => Spends(t) \cap Spends(u) = {}
    /\ \A t \in Mempool : \A in \in Inputs(t) :
          \/ in.tx \in Confirmed /\ conf[in.tx] + NSequence(in) <= height + 1
          \/ in.tx \in Mempool /\ NSequence(in) = 0
    /\ \A t, u \in Confirmed : t # u => Spends(t) \cap Spends(u) = {}

NodeInv == NodeType /\ MempoolInv

\* The two kinds of steps that change what the node knows.
Accept == \E t \in Protocol : TestMempoolAccept(t) /\ SendRawTransaction(t)
Extend == \E S \in SUBSET Mempool : MineBlock(S)

(***************************************************************************)
(* Every step of the system is, for the node, an accepted transaction, a   *)
(* new block or nothing.                                                   *)
(***************************************************************************)
LEMMA NodeSteps ==
    ASSUME [Next]_vars PROVE Accept \/ Extend \/ UNCHANGED nodeVars
<1>1. CASE Mine
  BY <1>1 DEF Mine, Extend
<1>2. CASE PegOut
  BY <1>2 DEF PegOut
<1>3. ASSUME NEW a \in Roles, ScanBlock(a) PROVE UNCHANGED nodeVars
  BY <1>3 DEF ScanBlock
<1>4. ASSUME NEW a \in Roles, SenderStep(a) PROVE Accept \/ UNCHANGED nodeVars
  <2>1. CASE HandleSpecialTransactions(a)
    BY <2>1 DEF HandleSpecialTransactions
  <2>2. CASE SelectReady(a)
    BY <2>2 DEF SelectReady
  <2>3. CASE Broadcast(a)
    BY <2>3 DEF Broadcast, BroadcastTransaction, Accept
  <2>4. CASE CommitBroadcast(a)
    BY <2>4 DEF CommitBroadcast
  <2> QED
    BY <1>4, <2>1, <2>2, <2>3, <2>4 DEF SenderStep
<1>5. ASSUME NEW a \in Roles, ProtocolStep(a) PROVE UNCHANGED nodeVars
  <2>1. CASE Examine(a)
    BY <2>1 DEF Examine, ProverExamine, VerifierExamine, MarkSetupStatus, SendTransaction, Return
  <2> QED
    BY <1>5, <2>1 DEF ProtocolStep, Poll, Transmitted
<1>6. ASSUME NEW a \in Roles, Crash(a) PROVE UNCHANGED nodeVars
  BY <1>6 DEF Crash, SenderCrash, ProtocolCrash
<1>7. CASE UNCHANGED vars
  BY <1>7 DEF vars, nodeVars
<1> QED
  BY <1>1, <1>2, <1>3, <1>4, <1>5, <1>6, <1>7 DEF Next

(***************************************************************************)
(* What a new block does to the sets of confirmed and waiting templates.   *)
(***************************************************************************)
LEMMA BlockEffect ==
    ASSUME NodeInv, NEW S \in SUBSET Mempool, MineBlock(S)
    PROVE  /\ NodeType'
           /\ Confirmed' = Confirmed \cup S
           /\ Mempool' = Mempool \ S
           /\ \A t \in Confirmed : conf'[t] = conf[t]
           /\ \A t \in S : conf'[t] = height + 1
           /\ height' = height + 1
<1>1. S \subseteq Protocol /\ S \subseteq Names /\ S \cap Confirmed = {}
  BY DEF Mempool, Names, NodeInv, MempoolInv
<1>2. \A t \in Names : conf'[t] = IF t \in S THEN height + 1 ELSE conf[t]
  BY DEF MineBlock
<1>3. \A t \in Protocol : entered'[t] = IF t \in S THEN 0 ELSE entered[t]
  BY DEF MineBlock
<1>4. height' = height + 1
  BY DEF MineBlock
<1>5. NodeType'
  BY DEF MineBlock, NodeInv, NodeType
<1>6. Confirmed' = Confirmed \cup S
  BY <1>1, <1>2 DEF Confirmed, NodeInv, NodeType
<1>7. Mempool' = Mempool \ S
  BY <1>3 DEF Mempool
<1> QED
  BY <1>1, <1>2, <1>4, <1>5, <1>6, <1>7 DEF Confirmed

(***************************************************************************)
(* A new block keeps the node's invariant: what stays in the mempool is    *)
(* still final and still conflicts with nothing.                           *)
(***************************************************************************)
LEMMA ExtendInv ==
    ASSUME NodeInv, NEW S \in SUBSET Mempool, MineBlock(S) PROVE NodeInv'
<1>1. NodeType'
  BY BlockEffect
<1>2. (Mempool \cap Confirmed = {})'
  BY BlockEffect DEF NodeInv, MempoolInv
<1>3. \A t \in Mempool' : \A u \in Mempool' \cup Confirmed' : t # u => Spends(t) \cap Spends(u) = {}
  BY BlockEffect DEF NodeInv, MempoolInv
<1>4. \A t, u \in Confirmed' : t # u => Spends(t) \cap Spends(u) = {}
  BY BlockEffect DEF NodeInv, MempoolInv
<1>5. ASSUME NEW t \in Mempool', NEW in \in Inputs(t)
      PROVE  \/ in.tx \in Confirmed' /\ conf'[in.tx] + NSequence(in) <= height' + 1
             \/ in.tx \in Mempool' /\ NSequence(in) = 0
  <2>1. t \in Mempool
    BY <1>5, BlockEffect
  <2>2. CASE in.tx \in Confirmed /\ conf[in.tx] + NSequence(in) <= height + 1
    <3>1. NSequence(in) \in Nat /\ in.tx \in Names
      BY <2>1, <1>5, NSequenceNat DEF Mempool, Names
    <3>2. conf'[in.tx] = conf[in.tx] /\ in.tx \in Confirmed' /\ height' = height + 1
      BY <2>2, BlockEffect
    <3>3. conf[in.tx] \in Nat /\ height \in Nat
      BY <3>1 DEF NodeInv, NodeType
    <3> QED
      BY <2>2, <3>1, <3>2, <3>3
  <2>3. CASE in.tx \in Mempool /\ NSequence(in) = 0
    BY <2>3, BlockEffect DEF NodeInv, NodeType
  <2> QED
    BY <2>1, <2>2, <2>3, <1>5 DEF NodeInv, MempoolInv
<1> QED
  BY <1>1, <1>2, <1>3, <1>4, <1>5 DEF NodeInv, MempoolInv

(***************************************************************************)
(* sendrawtransaction, after testmempoolaccept, keeps the node's           *)
(* invariant.                                                              *)
(***************************************************************************)
LEMMA AcceptInv ==
    ASSUME NodeInv, NEW t \in Protocol, TestMempoolAccept(t), SendRawTransaction(t) PROVE NodeInv'
<1>1. NodeType' /\ height' = height /\ conf' = conf
  BY DEF NodeInv, NodeType, SendRawTransaction
<1>2. Confirmed' = Confirmed
  BY <1>1 DEF Confirmed
<1>3. Mempool' = Mempool \cup {t}
  BY DEF Mempool, SendRawTransaction, NodeInv, NodeType
<1>4. MempoolInv'
  BY <1>1, <1>2, <1>3 DEF NodeInv, MempoolInv, TestMempoolAccept
<1> QED
  BY <1>1, <1>4 DEF NodeInv

(***************************************************************************)
(* Whatever the agents do, the mempool holds only transactions the next    *)
(* block can contain, all of them together.                                *)
(***************************************************************************)
THEOREM NodeInvariant == Spec => []NodeInv
<1>1. Init => NodeInv
  <2> SUFFICES ASSUME NodeInit PROVE NodeInv
    BY DEF Init
  <2>1. NodeType
    BY DEF NodeInit, NodeType
  <2>2. Confirmed = External /\ Mempool = {}
    BY DEF NodeInit, Confirmed, Mempool, Names
  <2>3. MempoolInv
    BY <2>2, ExternalRoots DEF MempoolInv, Spends
  <2> QED
    BY <2>1, <2>3 DEF NodeInv
<1>2. NodeInv /\ [Next]_vars => NodeInv'
  <2> SUFFICES ASSUME NodeInv, [Next]_vars PROVE NodeInv'
    OBVIOUS
  <2>1. CASE Accept
    BY <2>1, AcceptInv DEF Accept
  <2>2. CASE Extend
    BY <2>2, ExtendInv DEF Extend
  <2>3. CASE UNCHANGED nodeVars
    BY <2>3 DEF nodeVars, NodeInv, NodeType, MempoolInv, Mempool, Confirmed
  <2> QED
    BY <2>1, <2>2, <2>3, NodeSteps
<1> QED
  BY <1>1, <1>2, PTL DEF Spec

-----------------------------------------------------------------------------

(***************************************************************************)
(* TxFlow, instantiated with this system's constants, speaks of the same   *)
(* transaction graph: the names, the inputs, the outputs.                  *)
(***************************************************************************)
LEMMA SameNames ==
    Flow!External = External /\ Flow!Protocol = Protocol /\ Flow!Names = Names
BY DEF External, ExternalKinds, Protocol, OnceKinds, StepKinds, Rounds, Names,
       Flow!External, Flow!ExternalKinds, Flow!Protocol, Flow!OnceKinds, Flow!StepKinds,
       Flow!Rounds, Flow!Names

(***************************************************************************)
(* The inputs and the spent outpoints are the same.                        *)
(***************************************************************************)
LEMMA SameInputs ==
    \A t : Flow!Inputs(t) = Inputs(t) /\ Flow!Spends(t) = Spends(t)
<1> USE DEF In, Flow!In, Once, Flow!Once, Proof, Flow!Proof, LockedFunds, Flow!LockedFunds
<1> TAKE t
<1>1. Flow!StartInputs(t) = StartInputs(t)
  BY DEF StartInputs, Flow!StartInputs, ProverStake, Flow!ProverStake
<1>2. Flow!StepInputs(t) = StepInputs(t)
  BY DEF StepInputs, Flow!StepInputs, StateInputs, Flow!StateInputs, State, Flow!State,
         Select, Flow!Select
<1>3. Flow!EndInputs(t) = EndInputs(t)
  BY DEF EndInputs, Flow!EndInputs, Select, Flow!Select, Argument, Flow!Argument
<1>4. Flow!Inputs(t) = Inputs(t)
  BY <1>1, <1>2, <1>3 DEF Inputs, Flow!Inputs
<1> QED
  BY <1>4 DEF Spends, Flow!Spends

(***************************************************************************)
(* The outputs and the timelocks are the same.                             *)
(***************************************************************************)
LEMMA SameNSequence ==
    \A in : Flow!NSequence(in) = NSequence(in)
<1> USE DEF Sc, Flow!Sc, Plain, Flow!Plain, Data, Flow!Data, StepKinds, Flow!StepKinds
<1>1. \A t : Flow!StartOutputs(t) = StartOutputs(t)
  BY DEF StartOutputs, Flow!StartOutputs
<1>2. \A t : Flow!StepOutputs(t) = StepOutputs(t)
  BY DEF StepOutputs, Flow!StepOutputs
<1>3. \A t : Flow!EndOutputs(t) = EndOutputs(t)
  BY DEF EndOutputs, Flow!EndOutputs
<1>4. \A t : Flow!Outputs(t) = Outputs(t)
  BY <1>1, <1>2, <1>3 DEF Outputs, Flow!Outputs
<1> QED
  BY <1>4 DEF NSequence, Flow!NSequence, SpendingCondition, Flow!SpendingCondition

(***************************************************************************)
(* A block of mempool transactions is a block that TxFlow allows.          *)
(***************************************************************************)
LEMMA ExtendFlow ==
    ASSUME NodeInv, NEW S \in SUBSET Mempool, MineBlock(S) PROVE Flow!MineBlock
<1>1. S \subseteq Protocol /\ S \cap Confirmed = {}
  BY DEF Mempool, NodeInv, MempoolInv
<1>2. Flow!Confirmed = Confirmed
  BY SameNames DEF Flow!Confirmed, Confirmed
<1>3. \A t \in S : Flow!Final(t, S)
  BY <1>2, SameInputs, SameNSequence DEF MineBlock, NodeInv, MempoolInv, Flow!Final
<1>4. Flow!Compatible(S \cup Confirmed)
  BY SameInputs DEF NodeInv, MempoolInv, Flow!Compatible
<1>5. \A t \in S : Flow!Final(t, Protocol) /\ Flow!Compatible({t} \cup Confirmed)
  BY <1>1, <1>3, <1>4 DEF Flow!Final, Flow!Compatible
<1>6. S \subseteq Flow!Candidates
  BY <1>1, <1>2, <1>5, SameNames DEF Flow!Candidates
<1>7. Flow!Confirm(S)
  BY <1>2, <1>3, <1>4, SameNames DEF MineBlock, Flow!Confirm
<1> QED
  BY <1>6, <1>7 DEF MineBlock, Flow!MineBlock

(***************************************************************************)
(* The composed system implements the abstract specification: on the chain *)
(* nothing appears that the transaction graph does not allow.              *)
(***************************************************************************)
THEOREM SystemImplementsTxFlow == Spec => FlowSpec
<1>1. Init => Flow!Init
  BY SameNames DEF Init, NodeInit, Flow!Init
<1>2. NodeInv /\ [Next]_vars => [Flow!Next]_(Flow!vars)
  <2> SUFFICES ASSUME NodeInv, [Next]_vars PROVE Flow!Next \/ UNCHANGED Flow!vars
    OBVIOUS
  <2>1. CASE Accept
    BY <2>1 DEF Accept, SendRawTransaction, Flow!vars
  <2>2. CASE Extend
    BY <2>2, ExtendFlow DEF Extend, Flow!Next
  <2>3. CASE UNCHANGED nodeVars
    BY <2>3 DEF nodeVars, Flow!vars
  <2> QED
    BY <2>1, <2>2, <2>3, NodeSteps
<1> QED
  BY <1>1, <1>2, NodeInvariant, PTL DEF Spec, FlowSpec, Flow!Spec

-----------------------------------------------------------------------------
(* The agents, their databases, senders and protocol processes.            *)

\* TypeOK in the parts that different steps change.
TypeNode ==
    /\ height \in 1 .. MaxHeight
    /\ conf \in [Names -> 0 .. height]
    /\ entered \in [Protocol -> 0 .. height]
    /\ proofValid \in BOOLEAN

TypeSender ==
    /\ templateStatus \in [Roles -> [Protocol -> TemplateStatus]]
    /\ phase \in [Roles -> Phases]
    /\ \A a \in Roles :
          /\ DOMAIN batch[a] \subseteq Protocol
          /\ \A t \in DOMAIN batch[a] : batch[a][t] \in TemplateStatus \ {"PENDING"}
          /\ prepared[a] \subseteq SpecialTemplates(a)
    /\ crashes \in 0 .. MaxCrashes

TypeProtocol ==
    /\ setupStatus \in [Roles -> SetupStatus]
    /\ pc \in [Roles -> {"idle", "examine", "wait"}]
    /\ \A a \in Roles : awaited[a] \in IF pc[a] = "wait" THEN Protocol ELSE {NoTemplate}

TypeListener ==
    /\ scanned \in [Roles -> 1 .. height]
    /\ \A a \in Roles : view[a] \subseteq received[a] /\ received[a] \subseteq Confirmed

\* batch, prepared, awaited, view and received are functions on the agents;
\* TypeOK does not say so, but every update with EXCEPT relies on it.
PerAgent ==
    /\ DOMAIN batch = Roles /\ DOMAIN prepared = Roles /\ DOMAIN awaited = Roles
    /\ DOMAIN view = Roles /\ DOMAIN received = Roles

AgentType == TypeNode /\ TypeSender /\ TypeProtocol /\ TypeListener /\ PerAgent

(***************************************************************************)
(* Writing one status of one agent keeps the table of statuses a table.    *)
(***************************************************************************)
LEMMA StatusUpdate ==
    ASSUME NEW f \in [Roles -> [Protocol -> TemplateStatus]], NEW a \in Roles, NEW t \in Protocol,
           NEW s \in TemplateStatus
    PROVE  [f EXCEPT ![a][t] = s] \in [Roles -> [Protocol -> TemplateStatus]]
OBVIOUS

(***************************************************************************)
(* Initially nothing is sent, received or confirmed.                       *)
(***************************************************************************)
LEMMA InitType == Init => AgentType
<1> SUFFICES ASSUME Init PROVE AgentType
  OBVIOUS
<1>1. TypeNode
  BY NodeAssumption DEF Init, NodeInit, TypeNode
<1>2. TypeSender /\ PerAgent
  BY MaxCrashesAssumption
     DEF Init, SenderInit, ProtocolInit, TypeSender, PerAgent, Phases, TemplateStatus, Nothing
<1>3. TypeProtocol
  BY DEF Init, SenderInit, ProtocolInit, TypeProtocol, SetupStatus
<1>4. TypeListener
  BY DEF Init, NodeInit, ProtocolInit, TypeListener
<1> QED
  BY <1>1, <1>2, <1>3, <1>4 DEF AgentType

(***************************************************************************)
(* A block, or a transaction that enters the mempool.                      *)
(***************************************************************************)
LEMMA NodeStepType ==
    ASSUME AgentType, Accept \/ Extend
    PROVE  TypeNode' /\ Confirmed \subseteq Confirmed' /\ height <= height'
<1>1. CASE Accept
  BY <1>1 DEF Accept, SendRawTransaction, AgentType, TypeNode, Confirmed
<1>2. CASE Extend
  <2>1. PICK S \in SUBSET Mempool : MineBlock(S)
    BY <1>2 DEF Extend
  <2>2. height' \in 1 .. MaxHeight /\ height' = height + 1 /\ height \in Nat
    BY <2>1, NodeAssumption DEF MineBlock, AgentType, TypeNode
  <2>3. conf' \in [Names -> 0 .. height'] /\ entered' \in [Protocol -> 0 .. height']
    BY <2>1, <2>2 DEF MineBlock, AgentType, TypeNode
  <2>4. Confirmed \subseteq Confirmed'
    BY <2>1 DEF MineBlock, AgentType, TypeNode, Confirmed
  <2> QED
    BY <2>1, <2>2, <2>3, <2>4 DEF MineBlock, AgentType, TypeNode
<1> QED
  BY <1>1, <1>2

(***************************************************************************)
(* The sender's steps.                                                     *)
(***************************************************************************)
LEMMA SenderStepType ==
    ASSUME AgentType, NEW a \in Roles,
           \/ HandleSpecialTransactions(a)
           \/ SelectReady(a)
           \/ \E t \in Protocol : BroadcastTransaction(a, t)
           \/ CommitBroadcast(a)
           \/ SenderCrash(a)
    PROVE  TypeSender' /\ DOMAIN batch' = Roles /\ DOMAIN prepared' = Roles
<1> USE DEF AgentType, TypeSender, PerAgent, Phases, TemplateStatus
<1>1. CASE HandleSpecialTransactions(a)
  BY <1>1 DEF HandleSpecialTransactions
<1>2. CASE SelectReady(a)
  BY <1>2 DEF SelectReady, Ready, dbVars
<1>3. ASSUME NEW t \in Protocol, BroadcastTransaction(a, t)
      PROVE  TypeSender' /\ DOMAIN batch' = Roles /\ DOMAIN prepared' = Roles
  BY <1>3 DEF BroadcastTransaction, Unsent, dbVars
<1>4. CASE CommitBroadcast(a)
  BY <1>4 DEF CommitBroadcast, Nothing
<1>5. CASE SenderCrash(a)
  BY <1>5, MaxCrashesAssumption DEF SenderCrash, Nothing, dbVars
<1> QED
  BY <1>1, <1>2, <1>3, <1>4, <1>5

(***************************************************************************)
(* What one pass of process() asks for: a status, a template or nothing.   *)
(***************************************************************************)
LEMMA ExamineCases ==
    ASSUME NEW a \in Roles, Examine(a)
    PROVE  /\ pc[a] = "examine"
           /\ \/ \E s \in SetupStatus : s \in Marks(a, view[a]) /\ MarkSetupStatus(a, s)
              \/ \E t \in Protocol : t \in Sends(a, view[a]) /\ SendTransaction(a, t)
              \/ Return(a)
<1>1. CASE a = Prover
  <2>1. ProverMarks(view[a]) \subseteq SetupStatus /\ ProverSends(view[a]) \subseteq Protocol
    BY DEF ProverMarks, ProverSends
  <2> QED
    BY <1>1, <2>1 DEF Examine, ProverExamine, Marks, Sends
<1>2. CASE a = Verifier
  <2>1. VerifierMarks(view[a]) \subseteq SetupStatus /\ VerifierSends(view[a]) \subseteq Protocol
    BY DEF VerifierMarks, VerifierSends
  <2>2. a # Prover
    BY <1>2 DEF Prover, Verifier
  <2> QED
    BY <1>2, <2>1, <2>2 DEF Examine, VerifierExamine, Marks, Sends
<1> QED
  BY <1>1, <1>2 DEF Roles, Prover, Verifier

(***************************************************************************)
(* The protocol process's steps, send-proof.ts included.                   *)
(***************************************************************************)
LEMMA ProtocolStepType ==
    ASSUME AgentType, NEW a \in Roles, ProtocolStep(a) \/ ProtocolCrash(a) \/ PegOut
    PROVE  AgentType'
<1> USE DEF AgentType, TypeSender, TypeProtocol, TypeListener, PerAgent, TemplateStatus
<1>1. CASE Poll(a)
  BY <1>1 DEF Poll, nodeVars, dbVars, senderVars, listenerVars, TypeNode, Confirmed
<1>2. CASE Examine(a)
  <2>1. ASSUME NEW s \in SetupStatus, MarkSetupStatus(a, s) PROVE AgentType'
    BY <1>2, <2>1, ExamineCases
       DEF MarkSetupStatus, nodeVars, senderVars, listenerVars, TypeNode, Confirmed
  <2>2. ASSUME NEW t \in Protocol, SendTransaction(a, t) PROVE AgentType'
    <3>1. templateStatus' \in [Roles -> [Protocol -> TemplateStatus]]
      <4>1. \/ templateStatus' = [templateStatus EXCEPT ![a][t] = "READY"]
            \/ templateStatus' = templateStatus
        BY <2>2 DEF SendTransaction
      <4>2. "READY" \in TemplateStatus /\ templateStatus \in [Roles -> [Protocol -> TemplateStatus]]
        OBVIOUS
      <4> HIDE DEF TemplateStatus
      <4>3. [templateStatus EXCEPT ![a][t] = "READY"] \in [Roles -> [Protocol -> TemplateStatus]]
        BY <4>2, StatusUpdate
      <4> QED
        BY <4>1, <4>2, <4>3
    <3>2. TypeProtocol' /\ DOMAIN awaited' = Roles
      BY <1>2, <2>2, ExamineCases DEF SendTransaction
    <3>3. TypeListener' /\ DOMAIN view' = Roles /\ UNCHANGED <<nodeVars, senderVars, crashes, received>>
      BY <2>2 DEF SendTransaction, nodeVars, listenerVars, Confirmed
    <3> QED
      BY <3>1, <3>2, <3>3 DEF nodeVars, senderVars, TypeNode
  <2>3. CASE Return(a)
    BY <1>2, <2>3, ExamineCases
       DEF Return, nodeVars, dbVars, senderVars, listenerVars, TypeNode, Confirmed
  <2> QED
    BY <1>2, <2>1, <2>2, <2>3, ExamineCases
<1>3. CASE Transmitted(a)
  BY <1>3 DEF Transmitted, nodeVars, dbVars, senderVars, listenerVars, TypeNode, Confirmed
<1>4. CASE ProtocolCrash(a)
  BY <1>4, MaxCrashesAssumption
     DEF ProtocolCrash, nodeVars, dbVars, senderVars, listenerVars, TypeNode, Confirmed
<1>5. CASE PegOut
  BY <1>5 DEF PegOut, nodeVars, senderVars, protocolVars, listenerVars, TypeNode, Confirmed, Prover, Roles
<1> QED
  BY <1>1, <1>2, <1>3, <1>4, <1>5 DEF ProtocolStep

(***************************************************************************)
(* Every step of the system keeps the types.                               *)
(***************************************************************************)
LEMMA NextAgentType ==
    ASSUME AgentType, [Next]_vars PROVE AgentType'
<1>1. CASE Mine
  <2>1. TypeNode' /\ Confirmed \subseteq Confirmed' /\ height <= height'
    BY <1>1, NodeStepType DEF Mine, Extend
  <2>2. TypeListener'
    BY <1>1, <2>1 DEF Mine, AgentType, TypeListener, TypeNode, protocolVars, listenerVars
  <2> QED
    BY <1>1, <2>1, <2>2
       DEF Mine, AgentType, TypeSender, TypeProtocol, PerAgent, dbVars, senderVars, protocolVars,
           listenerVars
<1>2. CASE PegOut
  BY <1>2, ProtocolStepType DEF Roles
<1>3. ASSUME NEW a \in Roles, ScanBlock(a) PROVE AgentType'
  <2>1. TypeListener'
    <3>1. scanned'[a] \in 1 .. height /\ scanned' \in [Roles -> 1 .. height]
      BY <1>3, FinalityAssumption DEF ScanBlock, AgentType, TypeListener, TypeNode
    <3>2. \A t \in Protocol : conf[t] = scanned'[a] => t \in Confirmed
      BY <3>1 DEF Confirmed, Names
    <3> QED
      BY <1>3, <3>1, <3>2
         DEF ScanBlock, AgentType, TypeListener, PerAgent, nodeVars, Confirmed
  <2> QED
    BY <1>3, <2>1
       DEF ScanBlock, AgentType, TypeNode, TypeSender, TypeProtocol, PerAgent, nodeVars, dbVars,
           senderVars
<1>4. ASSUME NEW a \in Roles, SenderStep(a) PROVE AgentType'
  <2>1. TypeSender' /\ DOMAIN batch' = Roles /\ DOMAIN prepared' = Roles
    BY <1>4, SenderStepType DEF SenderStep, Broadcast
  <2>2. UNCHANGED protocolVars /\ UNCHANGED setupStatus
    BY <1>4 DEF SenderStep, Broadcast, HandleSpecialTransactions, SelectReady,
                BroadcastTransaction, CommitBroadcast, dbVars
  <2>3. Accept \/ UNCHANGED nodeVars
    BY <1>4 DEF SenderStep, Broadcast, BroadcastTransaction, HandleSpecialTransactions,
                SelectReady, CommitBroadcast, Accept
  <2>4. TypeNode' /\ Confirmed \subseteq Confirmed' /\ height <= height'
    BY <2>3, NodeStepType DEF nodeVars, AgentType, TypeNode, Confirmed
  <2>5. TypeListener' /\ TypeProtocol'
    BY <2>2, <2>4
       DEF AgentType, TypeNode, TypeListener, TypeProtocol, protocolVars, listenerVars
  <2> QED
    BY <2>1, <2>2, <2>4, <2>5 DEF AgentType, PerAgent, protocolVars, listenerVars
<1>5. ASSUME NEW a \in Roles, ProtocolStep(a) PROVE AgentType'
  BY <1>5, ProtocolStepType
<1>6. ASSUME NEW a \in Roles, Crash(a) PROVE AgentType'
  <2>1. CASE SenderCrash(a) /\ UNCHANGED protocolVars
    <3>1. TypeSender' /\ DOMAIN batch' = Roles /\ DOMAIN prepared' = Roles
      BY <2>1, SenderStepType
    <3> QED
      BY <2>1, <3>1
         DEF SenderCrash, AgentType, TypeNode, TypeProtocol, TypeListener, PerAgent, Confirmed,
             nodeVars, dbVars, protocolVars, listenerVars
  <2>2. CASE ProtocolCrash(a)
    BY <2>2, ProtocolStepType
  <2> QED
    BY <1>6, <2>1, <2>2 DEF Crash
<1>7. CASE UNCHANGED vars
  BY <1>7 DEF vars, nodeVars, dbVars, senderVars, protocolVars, listenerVars, AgentType, TypeNode,
              TypeSender, TypeProtocol, TypeListener, PerAgent, Confirmed
<1> QED
  BY <1>1, <1>2, <1>3, <1>4, <1>5, <1>6, <1>7 DEF Next

(***************************************************************************)
(* The parts are the type invariant that the runs check.                   *)
(***************************************************************************)
LEMMA AgentTypeOK == AgentType => TypeOK
BY DEF AgentType, TypeNode, TypeSender, TypeProtocol, TypeListener, TypeOK

(***************************************************************************)
(* Type correctness of the composed system: in particular a sender only    *)
(* prepares its own special templates, a protocol process that waits waits *)
(* for a template of the setup, and what an agent received and works on is *)
(* confirmed.                                                              *)
(***************************************************************************)
THEOREM AgentTypeInvariant == Spec => []AgentType
BY InitType, NextAgentType, PTL DEF Spec

(***************************************************************************)
(* The type invariant as the runs check it.                                *)
(***************************************************************************)
THEOREM SystemTypeCorrect == Spec => []TypeOK
BY AgentTypeInvariant, AgentTypeOK, PTL

-----------------------------------------------------------------------------

\* What the node has of the setup, confirmed or not.
Known == Mempool \cup Confirmed

\* The status of t as the sender sees it: the one not yet committed counts.
CurrentStatus(a, t) ==
    IF t \in DOMAIN batch[a] THEN batch[a][t] ELSE templateStatus[a][t]

\* An agent asks only for the templates of its own role.
OwnTemplates ==
    \A a \in Roles : \A t \in Protocol : templateStatus[a][t] # "PENDING" => Role(t) = a

\* What is being broadcast is READY in the database until the commit.
BatchReady ==
    \A a \in Roles : \A t \in DOMAIN batch[a] :
        templateStatus[a][t] = "READY" /\ phase[a] = "sending"

\* What was sent, committed or not, is known to the node.
SentKnown ==
    \A a \in Roles : \A t \in Protocol :
        /\ templateStatus[a][t] = "PUBLISHED" => t \in Known
        /\ CurrentStatus(a, t) = "PUBLISHED" => t \in Known

\* As long as nothing crashed, what the node knows was sent by its owner, and
\* the owner knows it.
KnownSent ==
    crashes = 0 => \A t \in Protocol \cap Known : CurrentStatus(Role(t), t) = "PUBLISHED"

StatusInv == OwnTemplates /\ BatchReady /\ SentKnown /\ KnownSent

(***************************************************************************)
(* process() asks for templates of the agent's own role only.              *)
(***************************************************************************)
LEMMA SendsOwn ==
    ASSUME NEW a \in Roles, NEW V, NEW t \in Sends(a, V) PROVE Role(t) = a
<1> USE DEF Role, VerifierKinds, Once
<1>1. CASE a = Prover
  <2>1. t \in ProverSends(V)
    BY <1>1 DEF Sends
  <2>2. Role(t) = "PROVER"
    BY <2>1 DEF ProverSends, ProofUncontested, State, ArgumentUncontested, StateUncontested, Argument
  <2> QED
    BY <1>1, <2>2 DEF Prover
<1>2. CASE a = Verifier
  <2>1. t \in VerifierSends(V)
    BY <1>2 DEF Sends, Prover, Verifier
  <2>2. Role(t) = "VERIFIER"
    BY <2>1 DEF VerifierSends, Challenge, ChallengeUncontested, Select, SelectUncontested, ProofRefuted
  <2> QED
    BY <1>2, <2>2 DEF Verifier
<1> QED
  BY <1>1, <1>2 DEF Roles, Prover, Verifier

(***************************************************************************)
(* A step that leaves the statuses and the senders alone, and teaches the  *)
(* node nothing new.                                                       *)
(***************************************************************************)
LEMMA StatusUnchanged ==
    ASSUME StatusInv, UNCHANGED <<templateStatus, batch, phase>>, Known' = Known,
           crashes' = 0 => crashes = 0
    PROVE  StatusInv'
BY DEF StatusInv, OwnTemplates, BatchReady, SentKnown, KnownSent, CurrentStatus

(***************************************************************************)
(* A new block moves templates from the mempool to the chain.              *)
(***************************************************************************)
LEMMA ExtendKnown ==
    ASSUME NodeInv, Extend PROVE Known' = Known
<1>1. PICK S \in SUBSET Mempool : MineBlock(S)
  BY DEF Extend
<1> QED
  BY <1>1, BlockEffect DEF Known

(***************************************************************************)
(* A process asks its agent's sender for a PENDING template of its role.   *)
(***************************************************************************)
LEMMA AskStatus ==
    ASSUME AgentType, StatusInv, NEW a \in Roles, NEW t \in Protocol, Role(t) = a,
           templateStatus[a][t] = "PENDING",
           templateStatus' = [templateStatus EXCEPT ![a][t] = "READY"],
           UNCHANGED <<nodeVars, batch, phase, crashes>>
    PROVE  StatusInv'
<1>1. \A b \in Roles : \A u \in Protocol :
         templateStatus'[b][u] = IF b = a /\ u = t THEN "READY" ELSE templateStatus[b][u]
  BY DEF AgentType, TypeSender
<1>2. Known' = Known
  BY DEF Known, Mempool, Confirmed, nodeVars
<1>3. t \notin DOMAIN batch[a]
  BY DEF StatusInv, BatchReady
<1>4. OwnTemplates'
  BY <1>1 DEF StatusInv, OwnTemplates
<1>5. BatchReady'
  BY <1>1 DEF StatusInv, BatchReady, AgentType, TypeSender
<1>6. SentKnown'
  BY <1>1, <1>2 DEF StatusInv, SentKnown, CurrentStatus
<1>7. KnownSent'
  <2> SUFFICES ASSUME crashes = 0, NEW u \in Protocol \cap Known PROVE CurrentStatus(Role(u), u)' = "PUBLISHED"
    BY <1>2 DEF KnownSent
  <2>1. CurrentStatus(Role(u), u) = "PUBLISHED"
    BY DEF StatusInv, KnownSent
  <2>2. u # t
    BY <1>3, <2>1 DEF CurrentStatus
  <2>3. Role(u) \in Roles
    BY DEF Role, Roles
  <2> QED
    BY <1>1, <2>1, <2>2, <2>3 DEF CurrentStatus
<1> QED
  BY <1>4, <1>5, <1>6, <1>7 DEF StatusInv

(***************************************************************************)
(* handle_special_transactions rejects only what was not sent.             *)
(***************************************************************************)
LEMMA SpecialStatus ==
    ASSUME AgentType, StatusInv, NEW a \in Roles, HandleSpecialTransactions(a) PROVE StatusInv'
<1>1. PICK rejected \in SUBSET Ready(a) :
         templateStatus' = [templateStatus EXCEPT
            ![a] = [t \in Protocol |-> IF t \in rejected THEN "REJECTED" ELSE @[t]]]
  <2> DEFINE special == Ready(a) \cap SpecialTemplates(a)
             good == {t \in special : CanPrepare(a, t)}
  <2> WITNESS special \ good \in SUBSET Ready(a)
  <2> QED
    BY DEF HandleSpecialTransactions
<1>2. \A b \in Roles : \A t \in Protocol :
         templateStatus'[b][t] = IF b = a /\ t \in rejected THEN "REJECTED" ELSE templateStatus[b][t]
  BY <1>1 DEF AgentType, TypeSender
<1>3. UNCHANGED <<batch, crashes>> /\ phase[a] = "special" /\ \A b \in Roles \ {a} : phase'[b] = phase[b]
  BY DEF HandleSpecialTransactions, AgentType, TypeSender
<1>4. DOMAIN batch[a] = {} /\ Known' = Known
  BY <1>3 DEF HandleSpecialTransactions, StatusInv, BatchReady, Known, Mempool, Confirmed, nodeVars
<1>5. OwnTemplates'
  BY <1>2 DEF StatusInv, OwnTemplates, Ready
<1>6. BatchReady'
  BY <1>2, <1>3, <1>4 DEF StatusInv, BatchReady, AgentType, TypeSender
<1>7. SentKnown'
  BY <1>2, <1>3, <1>4 DEF StatusInv, SentKnown, CurrentStatus
<1>8. KnownSent'
  <2> SUFFICES ASSUME crashes = 0, NEW t \in Protocol \cap Known PROVE CurrentStatus(Role(t), t)' = "PUBLISHED"
    BY <1>3, <1>4 DEF KnownSent
  <2>1. CurrentStatus(Role(t), t) = "PUBLISHED" /\ Role(t) \in Roles
    BY DEF StatusInv, KnownSent, Role, Roles
  <2>2. Role(t) = a => t \notin rejected
    BY <2>1, <1>4 DEF CurrentStatus, Ready
  <2> QED
    BY <1>2, <1>3, <2>1, <2>2 DEF CurrentStatus
<1> QED
  BY <1>5, <1>6, <1>7, <1>8 DEF StatusInv

(***************************************************************************)
(* The SELECT of broadcast_transactions: nothing was under way before it.  *)
(***************************************************************************)
LEMMA SelectStatus ==
    ASSUME AgentType, StatusInv, NEW a \in Roles, SelectReady(a) PROVE StatusInv'
<1>1. /\ batch'[a] = [t \in Ready(a) |-> "READY"] /\ \A b \in Roles \ {a} : batch'[b] = batch[b]
      /\ \A b \in Roles \ {a} : phase'[b] = phase[b]
      /\ Ready(a) # {} => phase'[a] = "sending"
      /\ UNCHANGED <<templateStatus, crashes>>
  BY DEF SelectReady, AgentType, TypeSender, PerAgent, dbVars
<1>2. DOMAIN batch[a] = {} /\ Known' = Known
  BY DEF SelectReady, StatusInv, BatchReady, Known, Mempool, Confirmed, nodeVars
<1>3. \A b \in Roles : \A t \in Protocol : CurrentStatus(b, t)' = CurrentStatus(b, t)
  BY <1>1, <1>2 DEF CurrentStatus, Ready
<1>4. OwnTemplates'
  BY <1>1 DEF StatusInv, OwnTemplates
<1>5. BatchReady'
  BY <1>1 DEF StatusInv, BatchReady, Ready
<1>6. SentKnown'
  BY <1>1, <1>2, <1>3 DEF StatusInv, SentKnown
<1>7. KnownSent'
  BY <1>1, <1>2, <1>3 DEF StatusInv, KnownSent, Role, Roles
<1> QED
  BY <1>4, <1>5, <1>6, <1>7 DEF StatusInv

(***************************************************************************)
(* One transaction of the batch is sent, or refused because of what the    *)
(* node knows.                                                             *)
(***************************************************************************)
LEMMA BroadcastStatus ==
    ASSUME NodeInv, AgentType, StatusInv, NEW a \in Roles, NEW t \in Protocol, BroadcastTransaction(a, t)
    PROVE  StatusInv'
<1>1. t \in DOMAIN batch[a] /\ batch[a][t] = "READY" /\ templateStatus[a][t] = "READY" /\ Role(t) = a
  BY DEF BroadcastTransaction, Unsent, StatusInv, BatchReady, OwnTemplates
<1>2. UNCHANGED <<templateStatus, phase, crashes>>
  BY DEF BroadcastTransaction, dbVars
<1>3. PICK s \in {"PUBLISHED", "REJECTED"} :
         /\ batch' = [batch EXCEPT ![a][t] = s]
         /\ Known' = IF s = "PUBLISHED" THEN Known \cup {t} ELSE Known
  <2>1. CASE /\ TestMempoolAccept(t) /\ SendRawTransaction(t)
             /\ batch' = [batch EXCEPT ![a][t] = "PUBLISHED"]
    <3>1. Mempool' = Mempool \cup {t} /\ Confirmed' = Confirmed
      BY <2>1 DEF Mempool, Confirmed, SendRawTransaction, NodeInv, NodeType
    <3> QED
      BY <2>1, <3>1 DEF Known
  <2>2. CASE UNCHANGED nodeVars /\ batch' = [batch EXCEPT ![a][t] = "REJECTED"]
    BY <2>2 DEF Known, Mempool, Confirmed, nodeVars
  <2> QED
    BY <2>1, <2>2 DEF BroadcastTransaction
<1>4. /\ \A b \in Roles : DOMAIN batch'[b] = DOMAIN batch[b]
      /\ \A b \in Roles : \A u \in DOMAIN batch[b] : batch'[b][u] = IF b = a /\ u = t THEN s ELSE batch[b][u]
  BY <1>1, <1>3 DEF AgentType, PerAgent
<1>5. \A b \in Roles : \A u \in Protocol :
         CurrentStatus(b, u)' = IF b = a /\ u = t THEN s ELSE CurrentStatus(b, u)
  BY <1>1, <1>2, <1>4 DEF CurrentStatus
<1>6. OwnTemplates' /\ BatchReady'
  BY <1>2, <1>4 DEF StatusInv, OwnTemplates, BatchReady
<1>7. SentKnown'
  BY <1>2, <1>3, <1>5 DEF StatusInv, SentKnown
<1>8. KnownSent'
  <2> SUFFICES ASSUME crashes = 0, NEW u \in Protocol \cap Known' PROVE CurrentStatus(Role(u), u)' = "PUBLISHED"
    BY <1>2 DEF KnownSent
  <2>1. Role(u) \in Roles
    BY DEF Role, Roles
  <2>2. CASE u = t
    <3>1. CurrentStatus(a, t) = "READY"
      BY <1>1 DEF CurrentStatus
    <3>2. t \notin Known
      BY <1>1, <3>1 DEF StatusInv, KnownSent
    <3> QED
      BY <1>1, <1>3, <1>5, <2>2, <3>2
  <2>3. CASE u # t
    BY <1>3, <1>5, <2>1, <2>3 DEF StatusInv, KnownSent
  <2> QED
    BY <2>2, <2>3
<1> QED
  BY <1>6, <1>7, <1>8 DEF StatusInv

(***************************************************************************)
(* The commit makes the current statuses the ones of the database.         *)
(***************************************************************************)
LEMMA CommitStatus ==
    ASSUME AgentType, StatusInv, NEW a \in Roles, CommitBroadcast(a) PROVE StatusInv'
<1>1. \A b \in Roles : \A t \in Protocol :
         templateStatus'[b][t] = IF b = a THEN CurrentStatus(a, t) ELSE templateStatus[b][t]
  BY DEF CommitBroadcast, CurrentStatus, AgentType, TypeSender
<1>2. DOMAIN batch'[a] = {} /\ \A b \in Roles \ {a} : batch'[b] = batch[b] /\ phase'[b] = phase[b]
  BY DEF CommitBroadcast, Nothing, AgentType, TypeSender, PerAgent
<1>3. Known' = Known /\ UNCHANGED crashes
  BY DEF CommitBroadcast, Known, Mempool, Confirmed, nodeVars
<1>4. \A b \in Roles : \A t \in Protocol : CurrentStatus(b, t)' = CurrentStatus(b, t)
  BY <1>1, <1>2 DEF CurrentStatus
<1>5. OwnTemplates'
  BY <1>1 DEF StatusInv, OwnTemplates, BatchReady, CurrentStatus
<1>6. BatchReady'
  BY <1>1, <1>2 DEF StatusInv, BatchReady, AgentType, TypeSender
<1>7. SentKnown'
  BY <1>1, <1>3, <1>4 DEF StatusInv, SentKnown
<1>8. KnownSent'
  BY <1>3, <1>4 DEF StatusInv, KnownSent, Role, Roles
<1> QED
  BY <1>5, <1>6, <1>7, <1>8 DEF StatusInv

(***************************************************************************)
(* A sender that dies forgets what it has not committed.                   *)
(***************************************************************************)
LEMMA CrashStatus ==
    ASSUME AgentType, StatusInv, NEW a \in Roles, SenderCrash(a) PROVE StatusInv'
<1>1. DOMAIN batch'[a] = {} /\ \A b \in Roles \ {a} : batch'[b] = batch[b] /\ phase'[b] = phase[b]
  BY DEF SenderCrash, Nothing, AgentType, TypeSender, PerAgent
<1>2. Known' = Known /\ UNCHANGED templateStatus /\ crashes' # 0
  BY DEF SenderCrash, Known, Mempool, Confirmed, nodeVars, dbVars, AgentType, TypeSender
<1>3. OwnTemplates' /\ BatchReady' /\ KnownSent'
  BY <1>1, <1>2 DEF StatusInv, OwnTemplates, BatchReady, KnownSent
<1>4. SentKnown'
  BY <1>1, <1>2 DEF StatusInv, SentKnown, CurrentStatus
<1> QED
  BY <1>3, <1>4 DEF StatusInv

(***************************************************************************)
(* Every step of the system keeps the statuses true.                       *)
(***************************************************************************)
LEMMA NextStatus ==
    ASSUME NodeInv, AgentType, StatusInv, [Next]_vars PROVE StatusInv'
<1>1. CASE Mine
  BY <1>1, ExtendKnown, StatusUnchanged DEF Mine, Extend, dbVars, senderVars
<1>2. CASE PegOut
  <2>1. Role(Proof) = Prover /\ Proof \in Protocol /\ Prover \in Roles
    BY DEF Role, VerifierKinds, Proof, Once, Prover, Protocol, OnceKinds, Roles
  <2> QED
    BY <1>2, <2>1, AskStatus DEF PegOut, senderVars
<1>3. ASSUME NEW a \in Roles, ScanBlock(a) PROVE StatusInv'
  BY <1>3, StatusUnchanged DEF ScanBlock, dbVars, senderVars, nodeVars, Known, Mempool, Confirmed
<1>4. ASSUME NEW a \in Roles, SenderStep(a) PROVE StatusInv'
  BY <1>4, SpecialStatus, SelectStatus, BroadcastStatus, CommitStatus DEF SenderStep, Broadcast
<1>5. ASSUME NEW a \in Roles, Poll(a) \/ Transmitted(a) \/ ProtocolCrash(a) PROVE StatusInv'
  <2>1. UNCHANGED <<nodeVars, dbVars, senderVars>> /\ (crashes' = 0 => crashes = 0)
    BY <1>5 DEF Poll, Transmitted, ProtocolCrash, AgentType, TypeSender
  <2> QED
    BY <2>1, StatusUnchanged DEF nodeVars, dbVars, senderVars, Known, Mempool, Confirmed
<1>6. ASSUME NEW a \in Roles, Examine(a) PROVE StatusInv'
  <2>1. ASSUME NEW s \in SetupStatus, MarkSetupStatus(a, s) PROVE StatusInv'
    BY <2>1, StatusUnchanged DEF MarkSetupStatus, nodeVars, senderVars, Known, Mempool, Confirmed
  <2>2. ASSUME NEW t \in Protocol, t \in Sends(a, view[a]), SendTransaction(a, t) PROVE StatusInv'
    <3>1. CASE templateStatus[a][t] = "PENDING"
      BY <2>2, <3>1, SendsOwn, AskStatus DEF SendTransaction, senderVars
    <3>2. CASE templateStatus[a][t] # "PENDING"
      BY <2>2, <3>2, StatusUnchanged DEF SendTransaction, nodeVars, senderVars, Known, Mempool, Confirmed
    <3> QED
      BY <3>1, <3>2
  <2>3. CASE Return(a)
    BY <2>3, StatusUnchanged DEF Return, nodeVars, dbVars, senderVars, Known, Mempool, Confirmed
  <2> QED
    BY <1>6, <2>1, <2>2, <2>3, ExamineCases
<1>7. ASSUME NEW a \in Roles, SenderCrash(a) PROVE StatusInv'
  BY <1>7, CrashStatus
<1>8. CASE UNCHANGED vars
  BY <1>8, StatusUnchanged DEF vars, nodeVars, dbVars, senderVars, Known, Mempool, Confirmed
<1> QED
  BY <1>1, <1>2, <1>3, <1>4, <1>5, <1>6, <1>7, <1>8 DEF Next, ProtocolStep, Crash

(***************************************************************************)
(* The statuses say what the node knows, across crashes of senders and     *)
(* protocol processes: the inductive invariant.                            *)
(***************************************************************************)
THEOREM StatusInvariant == Spec => []StatusInv
<1>1. Init => StatusInv
  <2> SUFFICES ASSUME Init PROVE StatusInv
    OBVIOUS
  <2>1. Mempool = {} /\ Confirmed \cap Protocol = {}
    BY DEF Init, NodeInit, Mempool, Confirmed, Names, External, Protocol, ExternalKinds, OnceKinds, StepKinds
  <2> QED
    BY <2>1 DEF Init, SenderInit, StatusInv, OwnTemplates, BatchReady, SentKnown, KnownSent, Known,
                CurrentStatus, Nothing
<1> QED
  BY <1>1, NextStatus, NodeInvariant, AgentTypeInvariant, PTL DEF Spec

(***************************************************************************)
(* PUBLISHED in a database means that the node has the transaction, in the *)
(* mempool or on the chain; and, unless a process crashed, REJECTED means  *)
(* that it has not.                                                        *)
(***************************************************************************)
THEOREM StatusesTrue == Spec => []StatusMatchesNode
<1>1. StatusInv => StatusMatchesNode
  <2> SUFFICES ASSUME StatusInv, NEW a \in Roles, NEW t \in Protocol, templateStatus[a][t] = "REJECTED",
                      crashes = 0, t \in Known
               PROVE  FALSE
    BY DEF StatusInv, SentKnown, StatusMatchesNode, Known
  <2>1. Role(t) = a
    BY DEF StatusInv, OwnTemplates
  <2>2. CurrentStatus(a, t) = "PUBLISHED"
    BY <2>1 DEF StatusInv, KnownSent
  <2> QED
    BY <2>2 DEF StatusInv, BatchReady, CurrentStatus
<1> QED
  BY <1>1, StatusInvariant, PTL

-----------------------------------------------------------------------------

\* A rejected template stays rejected; what is confirmed stays confirmed.
Rejected(a) == {t \in Protocol : templateStatus[a][t] = "REJECTED"}

(***************************************************************************)
(* Nothing is taken back: neither a confirmation nor a rejection.          *)
(***************************************************************************)
LEMMA Monotone ==
    ASSUME NodeInv, AgentType, StatusInv, [Next]_vars
    PROVE  Confirmed \subseteq Confirmed' /\ \A a \in Roles : Rejected(a) \subseteq Rejected(a)'
<1>1. Confirmed \subseteq Confirmed'
  BY NodeSteps, NodeStepType DEF nodeVars, Confirmed
<1>2. ASSUME NEW b \in Roles, NEW t \in Protocol, templateStatus[b][t] = "REJECTED"
      PROVE  templateStatus'[b][t] = "REJECTED"
  <2> USE DEF AgentType, TypeSender
  <2>1. CASE UNCHANGED templateStatus
    BY <1>2, <2>1
  <2>2. ASSUME NEW a \in Roles, HandleSpecialTransactions(a) PROVE templateStatus'[b][t] = "REJECTED"
    BY <1>2, <2>2 DEF HandleSpecialTransactions
  <2>3. ASSUME NEW a \in Roles, CommitBroadcast(a) PROVE templateStatus'[b][t] = "REJECTED"
    BY <1>2, <2>3 DEF CommitBroadcast, StatusInv, BatchReady
  <2>4. ASSUME NEW a \in Roles, NEW u \in Protocol, SendTransaction(a, u)
        PROVE  templateStatus'[b][t] = "REJECTED"
    <3>1. CASE templateStatus[a][u] = "PENDING"
      BY <1>2, <2>4, <3>1 DEF SendTransaction
    <3>2. CASE templateStatus[a][u] # "PENDING"
      BY <1>2, <2>4, <3>2 DEF SendTransaction
    <3> QED
      BY <3>1, <3>2
  <2>5. CASE PegOut
    BY <1>2, <2>5 DEF PegOut
  <2>6. ASSUME NEW a \in Roles, Examine(a) PROVE templateStatus'[b][t] = "REJECTED"
    BY <1>2, <2>4, <2>6, ExamineCases DEF MarkSetupStatus, Return, dbVars
  <2>7. CASE Mine
    BY <2>1, <2>7 DEF Mine, dbVars
  <2>8. ASSUME NEW a \in Roles, ScanBlock(a) \/ SelectReady(a) \/ Poll(a) \/ Transmitted(a) \/ Crash(a)
        PROVE  UNCHANGED templateStatus
    BY <2>8 DEF ScanBlock, SelectReady, Poll, Transmitted, Crash, SenderCrash, ProtocolCrash, dbVars
  <2>9. ASSUME NEW a \in Roles, Broadcast(a) PROVE UNCHANGED templateStatus
    BY <2>9 DEF Broadcast, BroadcastTransaction, dbVars
  <2>10. CASE UNCHANGED vars
    BY <2>1, <2>10 DEF vars, dbVars
  <2> QED
    BY <2>1, <2>2, <2>3, <2>5, <2>6, <2>7, <2>8, <2>9, <2>10 DEF Next, SenderStep, ProtocolStep
<1> QED
  BY <1>1, <1>2 DEF Rejected

\* The outcome of one agent, as OutcomeOnChain asks for it.
OutcomeTrue(a) ==
    /\ setupStatus[a] = "PEGOUT_FAILED" => VerifierPayouts \cap Confirmed # {}
    /\ setupStatus[a] = "PEGOUT_SUCCESSFUL"
         => ProverPayouts \cap Confirmed # {} \/ (a = Verifier /\ ProofRefuted \in Rejected(a))

(***************************************************************************)
(* A status is written when the view holds a payout of the side that won,  *)
(* or when the verifier has given up on PROOF_REFUTED.                     *)
(***************************************************************************)
LEMMA MarksTrue ==
    ASSUME AgentType, NEW a \in Roles, NEW s \in Marks(a, view[a])
    PROVE  /\ s \in {"PEGOUT_FAILED", "PEGOUT_SUCCESSFUL"}
           /\ s = "PEGOUT_FAILED" => VerifierPayouts \cap Confirmed # {}
           /\ s = "PEGOUT_SUCCESSFUL"
                => ProverPayouts \cap Confirmed # {} \/ (a = Verifier /\ ProofRefuted \in Rejected(a))
<1>1. view[a] \subseteq Confirmed
  BY DEF AgentType, TypeListener
<1>2. CASE a = Prover
  <2>1. s \in ProverMarks(view[a])
    BY <1>2 DEF Marks
  <2>2. ASSUME NEW t \in Names, t[1] \in {"PROOF_UNCONTESTED", "ARGUMENT_UNCONTESTED", "STATE_UNCONTESTED"}
        PROVE  t \in ProverPayouts
    BY <2>2 DEF Names, External, Protocol, ExternalKinds, OnceKinds, StepKinds, ProverPayouts,
                ProofUncontested, ArgumentUncontested, StateUncontested, Once
  <2>3. s = "PEGOUT_SUCCESSFUL" => ProverPayouts \cap Confirmed # {}
    BY <1>1, <2>1, <2>2 DEF ProverMarks, Confirmed
  <2>4. s = "PEGOUT_FAILED" => VerifierPayouts \cap Confirmed # {}
    BY <1>1, <2>1 DEF ProverMarks, VerifierPayouts
  <2> QED
    BY <2>1, <2>3, <2>4 DEF ProverMarks
<1>3. CASE a = Verifier
  <2>1. s \in VerifierMarks(view[a])
    BY <1>3 DEF Marks, Prover, Verifier
  <2>2. ProofRefuted \in Protocol
    BY DEF ProofRefuted, Once, Protocol, OnceKinds
  <2>3. s = "PEGOUT_SUCCESSFUL" => ProverPayouts \cap Confirmed # {} \/ ProofRefuted \in Rejected(a)
    BY <1>1, <1>3, <2>1, <2>2 DEF VerifierMarks, ProverPayouts, Rejected
  <2>4. s = "PEGOUT_FAILED" => VerifierPayouts \cap Confirmed # {}
    BY <1>1, <2>1 DEF VerifierMarks, VerifierPayouts
  <2> QED
    BY <1>3, <2>1, <2>3, <2>4 DEF VerifierMarks
<1> QED
  BY <1>2, <1>3 DEF Roles, Prover, Verifier

Outcomes == \A a \in Roles : OutcomeTrue(a)

(***************************************************************************)
(* No step makes a written outcome false.                                  *)
(***************************************************************************)
THEOREM OutcomeInvariant == Spec => []Outcomes
<1>1. Init => Outcomes
  BY DEF Init, SenderInit, Outcomes, OutcomeTrue
<1>2. NodeInv /\ AgentType /\ StatusInv /\ Outcomes /\ [Next]_vars => Outcomes'
  <2> SUFFICES ASSUME NodeInv, AgentType, StatusInv, Outcomes, [Next]_vars, NEW b \in Roles
               PROVE  OutcomeTrue(b)'
    BY DEF Outcomes
  <2>1. CASE setupStatus'[b] = setupStatus[b]
    BY <2>1, Monotone DEF Outcomes, OutcomeTrue
  <2>2. ASSUME NEW a \in Roles, NEW s \in Marks(a, view[a]), MarkSetupStatus(a, s)
        PROVE  OutcomeTrue(b)'
    <3>1. setupStatus'[b] = IF b = a THEN s ELSE setupStatus[b]
      BY <2>2 DEF MarkSetupStatus, AgentType, TypeProtocol
    <3> QED
      BY <2>1, <2>2, <3>1, Monotone, MarksTrue DEF Outcomes, OutcomeTrue
  <2>3. ASSUME NEW a \in Roles, Examine(a) PROVE OutcomeTrue(b)'
    BY <2>1, <2>2, <2>3, ExamineCases DEF SendTransaction, Return, dbVars
  <2>4. ASSUME NEW a \in Roles, SenderStep(a) \/ Poll(a) \/ Transmitted(a) \/ Crash(a) \/ ScanBlock(a)
        PROVE  UNCHANGED setupStatus
    BY <2>4 DEF SenderStep, HandleSpecialTransactions, SelectReady, Broadcast, BroadcastTransaction,
                CommitBroadcast, Poll, Transmitted, Crash, SenderCrash, ProtocolCrash, ScanBlock, dbVars
  <2>5. Mine \/ PegOut \/ UNCHANGED vars => UNCHANGED setupStatus
    BY DEF Mine, PegOut, vars, dbVars
  <2> QED
    BY <2>1, <2>3, <2>4, <2>5 DEF Next, ProtocolStep
<1> QED
  BY <1>1, <1>2, NodeInvariant, AgentTypeInvariant, StatusInvariant, PTL DEF Spec

(***************************************************************************)
(* The outcome an agent writes to its database is the one on the chain     *)
(* (or, for the verifier, PROOF_REFUTED was rejected by its own sender).   *)
(***************************************************************************)
THEOREM OutcomesTrue == Spec => []OutcomeOnChain
<1>1. Outcomes => OutcomeOnChain
  BY DEF Outcomes, OutcomeTrue, OutcomeOnChain, Rejected
<1> QED
  BY <1>1, OutcomeInvariant, PTL

-----------------------------------------------------------------------------
(***************************************************************************)
(* The agents advance along one line of templates, PROOF, CHALLENGE,       *)
(* STATE_0, SELECT_0, ..., ARGUMENT, and a payout ends it: at each         *)
(* position there are two templates, an answer and its timeout, and they   *)
(* spend the same outpoint.  Nobody publishes a template before the one it *)
(* answers is confirmed, so no two templates of a setup are ever under way *)
(* together, for any number of rounds, any timeouts and any speed or       *)
(* crashes of the agents.                                                  *)
(***************************************************************************)

Line == {Proof, Challenge, Argument} \cup {State(i) : i \in Rounds} \cup {Select(i) : i \in Rounds}

Position(t) ==
    CASE t[1] = "PROOF" -> 0
      [] t[1] \in {"CHALLENGE", "PROOF_UNCONTESTED"} -> 1
      [] t[1] = "CHALLENGE_UNCONTESTED" -> 2
      [] t[1] = "STATE" -> 2 * t[2] + 2
      [] t[1] \in {"SELECT", "STATE_UNCONTESTED"} -> 2 * t[2] + 3
      [] t[1] = "SELECT_UNCONTESTED" -> 2 * t[2] + 4
      [] t[1] = "ARGUMENT" -> 2 * Iterations + 2
      [] OTHER -> 2 * Iterations + 3

\* The template of the line that t answers, or whose timeout t uses.
Trigger(t) ==
    CASE t[1] \in {"CHALLENGE", "PROOF_UNCONTESTED"} -> Proof
      [] t[1] = "CHALLENGE_UNCONTESTED" -> Challenge
      [] t[1] = "STATE" -> IF t[2] = 0 THEN Challenge ELSE Select(t[2] - 1)
      [] t[1] \in {"SELECT", "STATE_UNCONTESTED"} -> State(t[2])
      [] t[1] = "SELECT_UNCONTESTED" -> Select(t[2])
      [] t[1] = "ARGUMENT" -> Select(Iterations - 1)
      [] OTHER -> Argument

\* The outpoint that both templates at the position of t spend.
Contested(t) ==
    CASE Trigger(t) = Proof -> <<Proof, 2>>
      [] Trigger(t) = Challenge -> <<Proof, 0>>
      [] OTHER -> <<Trigger(t), 0>>

(***************************************************************************)
(* The templates of a setup, by kind.                                      *)
(***************************************************************************)
LEMMA ProtocolCases ==
    ASSUME NEW t \in Protocol
    PROVE  \/ t \in {Proof, Challenge, ProofUncontested, ChallengeUncontested, Argument, ProofRefuted,
                     ArgumentUncontested}
           \/ \E i \in Rounds : t \in {State(i), StateUncontested(i), Select(i), SelectUncontested(i)}
BY DEF Protocol, OnceKinds, StepKinds, Once, Proof, Challenge, ProofUncontested, ChallengeUncontested,
       Argument, ProofRefuted, ArgumentUncontested, State, StateUncontested, Select, SelectUncontested

(***************************************************************************)
(* Position, template by template.                                         *)
(***************************************************************************)
LEMMA Positions ==
    /\ Position(Proof) = 0 /\ Position(Challenge) = 1 /\ Position(ProofUncontested) = 1
    /\ Position(ChallengeUncontested) = 2 /\ Position(Argument) = 2 * Iterations + 2
    /\ Position(ProofRefuted) = 2 * Iterations + 3 /\ Position(ArgumentUncontested) = 2 * Iterations + 3
    /\ \A i \in Rounds : /\ Position(State(i)) = 2 * i + 2
                         /\ Position(Select(i)) = 2 * i + 3 /\ Position(StateUncontested(i)) = 2 * i + 3
                         /\ Position(SelectUncontested(i)) = 2 * i + 4
BY DEF Position, Once, Proof, Challenge, ProofUncontested, ChallengeUncontested, Argument, ProofRefuted,
       ArgumentUncontested, State, StateUncontested, Select, SelectUncontested

(***************************************************************************)
(* Trigger, template by template.                                          *)
(***************************************************************************)
LEMMA Triggers ==
    /\ Trigger(Challenge) = Proof /\ Trigger(ProofUncontested) = Proof
    /\ Trigger(ChallengeUncontested) = Challenge
    /\ Trigger(Argument) = Select(Iterations - 1)
    /\ Trigger(ProofRefuted) = Argument /\ Trigger(ArgumentUncontested) = Argument
    /\ Trigger(State(0)) = Challenge
    /\ \A i \in Rounds : /\ i # 0 => Trigger(State(i)) = Select(i - 1)
                         /\ Trigger(Select(i)) = State(i) /\ Trigger(StateUncontested(i)) = State(i)
                         /\ Trigger(SelectUncontested(i)) = Select(i)
BY DEF Trigger, Once, Challenge, ProofUncontested, ChallengeUncontested, Argument, ProofRefuted,
       ArgumentUncontested, State, StateUncontested, Select, SelectUncontested

(***************************************************************************)
(* A template is one position behind the template it answers.              *)
(***************************************************************************)
LEMMA TriggerPosition ==
    /\ \A t \in Protocol : Position(t) \in Nat
    /\ \A t \in Protocol \ {Proof} : Trigger(t) \in Line /\ Position(t) = Position(Trigger(t)) + 1
    /\ \A t \in Line : t \in Protocol
<1> USE IterationsAssumption DEF Rounds
<1>1. ASSUME NEW t \in {Proof, Challenge, ProofUncontested, ChallengeUncontested, Argument, ProofRefuted,
                        ArgumentUncontested}
      PROVE  Position(t) \in Nat /\ (t # Proof => Trigger(t) \in Line /\ Position(t) = Position(Trigger(t)) + 1)
  BY Positions, Triggers DEF Line
<1>2. ASSUME NEW i \in Rounds PROVE LET t == State(i) IN Position(t) \in Nat /\ Trigger(t) \in Line /\ Position(t) = Position(Trigger(t)) + 1
  <2>1. CASE i = 0
    BY <2>1, Positions, Triggers DEF Line
  <2>2. CASE i # 0
    <3>1. i - 1 \in Rounds
      BY <2>2
    <3> QED
      BY <2>2, <3>1, Positions, Triggers DEF Line
  <2> QED
    BY <2>1, <2>2
<1>3. ASSUME NEW i \in Rounds, NEW t \in {StateUncontested(i), Select(i), SelectUncontested(i)}
      PROVE  Position(t) \in Nat /\ Trigger(t) \in Line /\ Position(t) = Position(Trigger(t)) + 1
  BY Positions, Triggers DEF Line
<1>4. \A t \in Line : t \in Protocol
  BY DEF Line, Protocol, OnceKinds, StepKinds, Proof, Challenge, Argument, Once, State, Select
<1> QED
  BY <1>1, <1>2, <1>3, <1>4, ProtocolCases

(***************************************************************************)
(* No two templates of the line share a position.                          *)
(***************************************************************************)
LEMMA LineInjective ==
    \A t, u \in Line : Position(t) = Position(u) => t = u
BY IterationsAssumption DEF Line, Position, Rounds, Proof, Challenge, Argument, Once, State, Select

(***************************************************************************)
(* Every template spends the outpoint it contests.                         *)
(***************************************************************************)
LEMMA ContestedSpent ==
    \A t \in Protocol \ {Proof} : Contested(t) \in Spends(t)
<1> USE IterationsAssumption DEF Rounds
<1>1. ASSUME NEW t, NEW u, NEW o, NEW sc, In(u, o, sc) \in Inputs(t) PROVE <<u, o>> \in Spends(t)
  BY <1>1 DEF Spends, In
<1>2. /\ In(Proof, 2, 0) \in Inputs(Challenge) /\ In(Proof, 2, 0) \in Inputs(ProofUncontested)
      /\ In(Proof, 0, 2) \in Inputs(ChallengeUncontested)
      /\ In(Argument, 0, 0) \in Inputs(ProofRefuted) /\ In(Argument, 0, 1) \in Inputs(ArgumentUncontested)
  BY DEF Inputs, StartInputs, EndInputs, Once, Challenge, ProofUncontested, ChallengeUncontested, ProofRefuted,
         ArgumentUncontested
<1>3. In(Select(Iterations - 1), 0, 0) \in Inputs(Argument)
  BY DEF Inputs, EndInputs, Argument, Once
<1>4. ASSUME NEW i \in Rounds
      PROVE  /\ i = 0 => In(Proof, 0, 1) \in Inputs(State(i))
             /\ i # 0 => In(Select(i - 1), 0, 0) \in Inputs(State(i))
             /\ In(State(i), 0, 0) \in Inputs(Select(i)) /\ In(State(i), 0, 1) \in Inputs(StateUncontested(i))
             /\ In(Select(i), 0, 1) \in Inputs(SelectUncontested(i))
  BY DEF Inputs, StepInputs, StateInputs, State, Select, StateUncontested, SelectUncontested
<1>5. Proof # Challenge /\ \A i : State(i) \notin {Proof, Challenge} /\ Select(i) \notin {Proof, Challenge}
  BY DEF Proof, Challenge, State, Select, Once
<1>6. Argument \notin {Proof, Challenge}
  BY DEF Proof, Challenge, Argument, Once
<1>7. ASSUME NEW t \in {Challenge, ProofUncontested, ChallengeUncontested, Argument, ProofRefuted,
                        ArgumentUncontested}
      PROVE  Contested(t) \in Spends(t)
  BY <1>1, <1>2, <1>3, <1>5, <1>6, Triggers DEF Contested
<1>8. ASSUME NEW i \in Rounds PROVE Contested(State(i)) \in Spends(State(i))
  BY <1>1, <1>4, <1>5, Triggers DEF Contested
<1>9. ASSUME NEW i \in Rounds, NEW t \in {StateUncontested(i), Select(i), SelectUncontested(i)}
      PROVE  Contested(t) \in Spends(t)
  BY <1>1, <1>4, <1>5, Triggers DEF Contested
<1> QED
  BY <1>7, <1>8, <1>9, ProtocolCases

(***************************************************************************)
(* Two templates at the same position conflict.                            *)
(***************************************************************************)
LEMMA SamePosition ==
    ASSUME NEW t \in Protocol, NEW u \in Protocol, t # u, Position(t) = Position(u)
    PROVE  Spends(t) \cap Spends(u) # {}
<1>1. t # Proof /\ u # Proof
  <2>1. \A v \in Protocol \ {Proof} : Position(v) # Position(Proof)
    BY TriggerPosition DEF Position, Proof, Once, Line
  <2> QED
    BY <2>1
<1>2. Trigger(t) = Trigger(u)
  <2>1. Position(Trigger(t)) = Position(Trigger(u))
    BY <1>1, TriggerPosition
  <2> QED
    BY <1>1, <2>1, TriggerPosition, LineInjective
<1>3. Contested(t) = Contested(u)
  BY <1>2 DEF Contested
<1> QED
  BY <1>1, <1>3, ContestedSpent

(***************************************************************************)
(* Below any template there is one of the line at every position.          *)
(***************************************************************************)
LEMMA LineBelow ==
    ASSUME NEW t \in Protocol, NEW u \in Protocol, Position(t) < Position(u)
    PROVE  \E w \in Line : Position(w) = Position(t)
<1> USE IterationsAssumption DEF Rounds
<1>1. CASE t \in Line
  BY <1>1
<1>3. CASE t = ProofUncontested
  BY <1>3, Positions DEF Line
<1>4. CASE t = ChallengeUncontested
  <2>1. State(0) \in Line /\ Position(State(0)) = 2
    BY Positions DEF Line
  <2> QED
    BY <1>4, <2>1, Positions
<1>5. CASE t \in {ProofRefuted, ArgumentUncontested}
  <2>1. Position(u) <= 2 * Iterations + 3
    BY ProtocolCases, Positions
  <2>2. Position(t) = 2 * Iterations + 3 /\ Position(u) \in Nat
    BY <1>5, Positions, TriggerPosition
  <2> QED
    BY <2>1, <2>2
<1>6. ASSUME NEW i \in Rounds, t = StateUncontested(i)
      PROVE  \E w \in Line : Position(w) = Position(t)
  <2>1. Select(i) \in Line /\ Position(Select(i)) = Position(t)
    BY <1>6, Positions DEF Line
  <2> QED
    BY <2>1
<1>7. ASSUME NEW i \in Rounds, t = SelectUncontested(i)
      PROVE  \E w \in Line : Position(w) = Position(t)
  <2>1. CASE i + 1 \in Rounds
    <3>1. State(i + 1) \in Line /\ Position(State(i + 1)) = 2 * i + 4
      BY <2>1, Positions DEF Line
    <3> QED
      BY <1>7, <3>1, Positions
  <2>2. CASE i + 1 \notin Rounds
    <3>1. i + 1 = Iterations
      BY <2>2
    <3>2. Position(Argument) = Position(t) /\ Argument \in Line
      BY <1>7, <3>1, Positions DEF Line
    <3> QED
      BY <3>2
  <2> QED
    BY <2>1, <2>2
<1> QED
  BY <1>1, <1>3, <1>4, <1>5, <1>6, <1>7, ProtocolCases DEF Line

-----------------------------------------------------------------------------

\* V is what somebody has seen who saw every block up to some height.
Prefix(V) ==
    /\ V \subseteq Protocol \cap Confirmed
    /\ \A t \in V : \A u \in Protocol \cap Confirmed : conf[u] <= conf[t] => u \in V

\* Nobody publishes a template before the one it answers is confirmed.
KnownTrigger ==
    \A t \in (Protocol \cap Known) \ {Proof} : Trigger(t) \in Confirmed

\* Below a template that the node knows the line is confirmed, in order.
LineInv ==
    \A t \in Protocol \cap Known : \A u \in Line :
        Position(u) < Position(t) => u \in Confirmed /\ (t \in Confirmed => conf[u] < conf[t])

\* Nobody asks for a template before the one it answers is confirmed.  The
\* verifier does ask for a SELECT_UNCONTESTED of the next round.
Uncontestable == {SelectUncontested(i) : i \in Rounds}

AskedTrigger ==
    \A t \in Protocol \ ({Proof} \cup Uncontestable) :
        templateStatus[Role(t)][t] # "PENDING" => Trigger(t) \in Confirmed

\* An agent has received what is confirmed in the blocks it has scanned.
ReceivedExact ==
    \A a \in Roles : received[a] = {t \in Protocol \cap Confirmed : conf[t] <= scanned[a]}

ViewPrefix == \A a \in Roles : Prefix(view[a])

AdvanceInv == KnownTrigger /\ LineInv /\ AskedTrigger /\ ReceivedExact /\ ViewPrefix

(***************************************************************************)
(* Of the two templates at a position the node knows one at most.          *)
(***************************************************************************)
LEMMA KnownPosition ==
    ASSUME NodeInv, NEW t \in Protocol \cap Known, NEW u \in Protocol \cap Known, Position(t) = Position(u)
    PROVE  t = u
BY SamePosition DEF NodeInv, MempoolInv, Known

(***************************************************************************)
(* A confirmed template with another one known behind it is on the line.   *)
(***************************************************************************)
LEMMA OnLine ==
    ASSUME NodeInv, LineInv, NEW t \in Protocol \cap Known, NEW u \in Protocol \cap Known,
           Position(t) < Position(u)
    PROVE  t \in Line /\ t \in Confirmed /\ (u \in Confirmed => conf[t] < conf[u])
<1>1. PICK w \in Line : Position(w) = Position(t)
  BY LineBelow
<1>2. w \in Confirmed /\ w \in Protocol /\ (u \in Confirmed => conf[w] < conf[u])
  BY <1>1, TriggerPosition DEF LineInv
<1>3. w = t
  BY <1>1, <1>2, KnownPosition DEF Known
<1> QED
  BY <1>1, <1>2, <1>3

(***************************************************************************)
(* No two templates of the setup are under way together, and no block      *)
(* holds two of them.                                                      *)
(***************************************************************************)
LEMMA LineOneTemplate == AgentType /\ NodeInv /\ LineInv => OneTemplatePerBlock
<1> SUFFICES ASSUME AgentType, NodeInv, LineInv PROVE OneTemplatePerBlock
  OBVIOUS
<1>1. ASSUME NEW t \in Mempool, NEW u \in Mempool PROVE t = u
  <2>1. /\ t \in Protocol \cap Known /\ u \in Protocol \cap Known /\ t \notin Confirmed /\ u \notin Confirmed
        /\ Position(t) \in Nat /\ Position(u) \in Nat
    BY TriggerPosition DEF Known, Mempool, NodeInv, MempoolInv
  <2> QED
    BY <2>1, OnLine, KnownPosition
<1>2. Cardinality(Mempool) <= 1
  <2>1. CASE Mempool = {}
    BY <2>1, FS_EmptySet
  <2>2. CASE Mempool # {}
    <3>1. PICK t \in Mempool : TRUE
      BY <2>2
    <3>2. Mempool = {t}
      BY <1>1
    <3> QED
      BY <3>2, FS_Singleton
  <2> QED
    BY <2>1, <2>2
<1>3. ASSUME NEW t \in Confirmed \cap Protocol, NEW u \in Confirmed \cap Protocol, conf[t] = conf[u]
      PROVE  t = u
  <2>1. t \in Protocol \cap Known /\ u \in Protocol \cap Known /\ Position(t) \in Nat /\ Position(u) \in Nat
    BY TriggerPosition DEF Known
  <2>2. conf[t] \in Nat /\ conf[u] \in Nat
    BY DEF NodeInv, NodeType, Confirmed
  <2> QED
    BY <1>3, <2>1, <2>2, OnLine, KnownPosition
<1> QED
  BY <1>2, <1>3 DEF OneTemplatePerBlock


-----------------------------------------------------------------------------

\* The condition that gives role r the output of t after n blocks is the only
\* timed one for r.
Timed(t, r, n) ==
    \A sc : sc \in TimedConditions[t] /\ sc.nextRole = r <=> sc = Sc(r, n, FALSE)

(***************************************************************************)
(* The timed spending conditions, found among all the outputs.             *)
(***************************************************************************)
LEMMA TimedMembers ==
    ASSUME NEW t \in Protocol, NEW sc
    PROVE  sc \in TimedConditions[t] <=>
              /\ \E o \in DOMAIN Outputs(t) : \E s \in DOMAIN Outputs(t)[o] : sc = Outputs(t)[o][s]
              /\ sc.timeoutBlocks # 0
<1>1. TimedConditions[t] = {c \in UNION {{Outputs(t)[o][s] : s \in DOMAIN Outputs(t)[o]} : o \in DOMAIN Outputs(t)} :
                              c.timeoutBlocks # 0}
  BY DEF TimedConditions
<1>2. sc \in UNION {{Outputs(t)[o][s] : s \in DOMAIN Outputs(t)[o]} : o \in DOMAIN Outputs(t)}
        <=> \E o \in DOMAIN Outputs(t) : \E s \in DOMAIN Outputs(t)[o] : sc = Outputs(t)[o][s]
  OBVIOUS
<1> QED
  BY <1>1, <1>2

(***************************************************************************)
(* The timed conditions of a template with one output and two conditions.  *)
(***************************************************************************)
LEMMA TimedPair ==
    ASSUME NEW t \in Protocol, NEW c, NEW d, Outputs(t) = << <<c, d>> >>, NEW sc
    PROVE  sc \in TimedConditions[t] <=> sc \in {c, d} /\ sc.timeoutBlocks # 0
<1>1. DOMAIN << <<c, d>> >> = {1} /\ DOMAIN <<c, d>> = {1, 2}
  OBVIOUS
<1>2. << <<c, d>> >>[1] = <<c, d>> /\ <<c, d>>[1] = c /\ <<c, d>>[2] = d
  OBVIOUS
<1> QED
  BY <1>1, <1>2, TimedMembers

(***************************************************************************)
(* The timeouts of the graph: both roles have one on PROOF, the prover on  *)
(* STATE and ARGUMENT, the verifier on SELECT; STATE_UNCONTESTED has none. *)
(***************************************************************************)
LEMMA Timeouts ==
    /\ Timed(Proof, Prover, SmallTimeout) /\ Timed(Proof, Verifier, LargeTimeout)
    /\ Timed(Argument, Prover, SmallTimeout)
    /\ \A i \in Rounds : /\ Timed(State(i), Prover, SmallTimeout)
                         /\ Timed(Select(i), Verifier, SmallTimeout)
                         /\ TimedConditions[StateUncontested(i)] = {}
<1>1. Proof \in Protocol /\ Argument \in Protocol
  BY DEF Proof, Argument, Once, Protocol, OnceKinds
<1>2. \A i \in Rounds : State(i) \in Protocol /\ Select(i) \in Protocol /\ StateUncontested(i) \in Protocol
  BY DEF State, Select, StateUncontested, Protocol, StepKinds
<1>4. /\ SmallTimeout # 0 /\ LargeTimeout # 0
      /\ Prover = "PROVER" /\ Verifier = "VERIFIER"
  BY TimeoutAssumption DEF Prover, Verifier
<1>5. Timed(Proof, Prover, SmallTimeout) /\ Timed(Proof, Verifier, LargeTimeout)
  <2> DEFINE c1 == Sc("PROVER", SmallTimeout, FALSE)
             c2 == Sc("PROVER", 0, TRUE)
             c3 == Sc("VERIFIER", LargeTimeout, FALSE)
             c4 == Sc("VERIFIER", 0, FALSE)
  <2>1. Outputs(Proof) = << <<c1, c2, c3>>, <<c2>>, <<c4>> >>
    BY DEF Outputs, StepKinds, StartOutputs, Proof, Once, Plain, Data
  <2>2. ASSUME NEW sc
        PROVE  (\E o \in DOMAIN Outputs(Proof) : \E s \in DOMAIN Outputs(Proof)[o] : sc = Outputs(Proof)[o][s])
                 <=> sc \in {c1, c2, c3, c4}
    <3> HIDE DEF c1, c2, c3, c4
    <3>1. DOMAIN << <<c1, c2, c3>>, <<c2>>, <<c4>> >> = {1, 2, 3}
      OBVIOUS
    <3>2. DOMAIN <<c1, c2, c3>> = {1, 2, 3} /\ DOMAIN <<c2>> = {1} /\ DOMAIN <<c4>> = {1}
      OBVIOUS
    <3> QED
      BY <2>1, <3>1, <3>2
  <2>3. ASSUME NEW sc PROVE sc \in TimedConditions[Proof] <=> sc \in {c1, c3}
    <3>1. c1.timeoutBlocks # 0 /\ c2.timeoutBlocks = 0 /\ c3.timeoutBlocks # 0 /\ c4.timeoutBlocks = 0
      BY <1>4 DEF Sc
    <3> HIDE DEF c1, c2, c3, c4
    <3> QED
      BY <1>1, <2>2, <3>1, TimedMembers
  <2> QED
    BY <1>4, <2>3 DEF Timed, Sc
<1>6. Timed(Argument, Prover, SmallTimeout)
  <2> DEFINE c == Sc("VERIFIER", 0, FALSE)
             d == Sc("PROVER", SmallTimeout, FALSE)
  <2>1. Outputs(Argument) = << <<c, d>> >>
    BY DEF EndOutputs, Argument, Once, Outputs, StepKinds
  <2>2. ASSUME NEW sc PROVE sc \in TimedConditions[Argument] <=> sc \in {c, d} /\ sc.timeoutBlocks # 0
    <3> HIDE DEF c, d
    <3> QED
      BY <1>1, <2>1, TimedPair
  <2> QED
    BY <1>4, <2>2 DEF Timed, Sc
<1>7. ASSUME NEW i \in Rounds PROVE Timed(State(i), Prover, SmallTimeout)
  <2> DEFINE c == Sc("VERIFIER", 0, TRUE)
             d == Sc("PROVER", SmallTimeout, FALSE)
  <2>1. Outputs(State(i)) = << <<c, d>> >>
    BY DEF StepOutputs, State, Outputs, StepKinds
  <2>2. ASSUME NEW sc PROVE sc \in TimedConditions[State(i)] <=> sc \in {c, d} /\ sc.timeoutBlocks # 0
    <3> HIDE DEF c, d
    <3> QED
      BY <1>2, <2>1, TimedPair
  <2> QED
    BY <1>4, <2>2 DEF Timed, Sc
<1>8. ASSUME NEW i \in Rounds PROVE Timed(Select(i), Verifier, SmallTimeout)
  <2> DEFINE c == Sc("PROVER", 0, TRUE)
             d == Sc("VERIFIER", SmallTimeout, FALSE)
  <2>1. PICK n \in {2, 9} : Outputs(Select(i)) = [o \in 1 .. n |-> IF o = 1 THEN <<c, d>> ELSE <<c>>]
    BY DEF StepOutputs, Select, Outputs, StepKinds, Data
  <2>2. ASSUME NEW sc
        PROVE  (\E o \in DOMAIN Outputs(Select(i)) : \E s \in DOMAIN Outputs(Select(i))[o] :
                   sc = Outputs(Select(i))[o][s]) <=> sc \in {c, d}
    <3> HIDE DEF c, d
    <3>1. DOMAIN <<c, d>> = {1, 2} /\ DOMAIN <<c>> = {1} /\ <<c, d>>[1] = c /\ <<c, d>>[2] = d /\ <<c>>[1] = c
      OBVIOUS
    <3>2. 1 \in 1 .. n /\ DOMAIN Outputs(Select(i)) = 1 .. n /\ Outputs(Select(i))[1] = <<c, d>>
      BY <2>1
    <3>3. \A o \in 1 .. n : Outputs(Select(i))[o] \in {<<c, d>>, <<c>>}
      BY <2>1
    <3> QED
      BY <3>1, <3>2, <3>3
  <2>3. ASSUME NEW sc PROVE sc \in TimedConditions[Select(i)] <=> sc = d
    <3>1. c.timeoutBlocks = 0 /\ d.timeoutBlocks # 0
      BY <1>4 DEF Sc
    <3>2. sc \in TimedConditions[Select(i)] <=> sc \in {c, d} /\ sc.timeoutBlocks # 0
      <4> HIDE DEF c, d
      <4> QED
        BY <1>2, <2>2, TimedMembers
    <3> HIDE DEF c, d
    <3> QED
      BY <3>1, <3>2
  <2> QED
    BY <1>4, <2>3 DEF Timed, Sc
<1>9. ASSUME NEW i \in Rounds PROVE TimedConditions[StateUncontested(i)] = {}
  <2> DEFINE c == Sc("PROVER", 0, FALSE)
  <2>1. Outputs(StateUncontested(i)) = << <<c>> >>
    BY DEF StepOutputs, StateUncontested, Outputs, StepKinds, Plain
  <2>2. DOMAIN << <<c>> >> = {1} /\ DOMAIN <<c>> = {1} /\ << <<c>> >>[1] = <<c>> /\ <<c>>[1] = c
    <3> HIDE DEF c
    <3> QED
      OBVIOUS
  <2>3. c.timeoutBlocks = 0
    BY DEF Sc
  <2> HIDE DEF c
  <2> QED
    BY <1>2, <2>1, <2>2, <2>3, TimedMembers
<1> QED
  BY <1>5, <1>6, <1>7, <1>8, <1>9

(***************************************************************************)
(* checkTimeout, where there is one timed condition for the role.          *)
(***************************************************************************)
LEMMA CheckTimed ==
    ASSUME NEW t, NEW a, NEW n, Timed(t, a, n) PROVE CheckTimeout(a, t) <=> conf[t] + n <= height
<1>1. Sc(a, n, FALSE).timeoutBlocks = n /\ Sc(a, n, FALSE).nextRole = a
  BY DEF Sc
<1> QED
  BY <1>1 DEF CheckTimeout, Timed

-----------------------------------------------------------------------------

(***************************************************************************)
(* There are n SELECTs in the first n rounds.                              *)
(***************************************************************************)
LEMMA SelectCount ==
    ASSUME NEW n \in Nat PROVE Cardinality({Select(i) : i \in 0 .. n - 1}) = n
<1> DEFINE S == {Select(i) : i \in 0 .. n - 1}
           f == [j \in 1 .. n |-> Select(j - 1)]
<1>1. f \in [1 .. n -> S]
  BY DEF Select
<1>2. \A j, k \in 1 .. n : f[j] = f[k] => j = k
  BY DEF Select
<1>3. \A t \in S : \E j \in 1 .. n : f[j] = t
  <2> SUFFICES ASSUME NEW i \in 0 .. n - 1 PROVE \E j \in 1 .. n : f[j] = Select(i)
    OBVIOUS
  <2>1. i + 1 \in 1 .. n /\ (i + 1) - 1 = i
    OBVIOUS
  <2> QED
    BY <2>1
<1> HIDE DEF f, S
<1>4. f \in Bijection(1 .. n, S)
  BY <1>1, <1>2, <1>3, Zenon DEF Bijection, Injection, Surjection, IsInjective
<1>5. ExistsBijection(1 .. n, S)
  BY <1>4 DEF ExistsBijection
<1> QED
  BY <1>5, FS_CountingElements DEF S

(***************************************************************************)
(* selectionPath.length: the number of SELECTs up to a STATE or a SELECT   *)
(* is its round, counted from zero or from one.                            *)
(***************************************************************************)
LEMMA Count ==
    ASSUME AgentType, NodeInv, LineInv, NEW V, Prefix(V), NEW k \in Rounds,
           NEW last \in {State(k), Select(k)}, IsLast(last, V)
    PROVE  Selections(V) = IF last = Select(k) THEN k + 1 ELSE k
<1> DEFINE n == IF last = Select(k) THEN k + 1 ELSE k
<1> USE IterationsAssumption DEF Rounds
<1>1. last \in Line /\ last \in Protocol \cap Known /\ last \in Confirmed /\ last \in V
  BY DEF IsLast, Prefix, Line, Known
<1>2. \A i \in Rounds : i < n <=> Position(Select(i)) <= Position(last)
  <2>1. CASE last = Select(k)
    <3>1. n = k + 1 /\ Position(last) = 2 * k + 3
      BY <2>1, Positions
    <3> QED
      BY <3>1, Positions
  <2>2. CASE last = State(k)
    <3>1. n = k /\ Position(last) = 2 * k + 2
      BY <2>2, Positions DEF State, Select
    <3> QED
      BY <3>1, Positions
  <2> QED
    BY <2>1, <2>2
<1>3. ASSUME NEW t \in V, t[1] = "SELECT" PROVE \E i \in 0 .. n - 1 : t = Select(i)
  <2>1. PICK i \in Rounds : t = Select(i)
    BY <1>3 DEF Prefix, Protocol, OnceKinds, StepKinds, Select
  <2>2. t \in Line /\ t \in Protocol \cap Known /\ t \in Confirmed /\ conf[t] <= conf[last]
    BY <1>3, <2>1 DEF Prefix, IsLast, Known, Line
  <2>3. ~ (Position(last) < Position(t))
    <3>1. conf[t] \in Nat /\ conf[last] \in Nat
      BY <1>1, <2>2 DEF NodeInv, NodeType, Confirmed
    <3> QED
      BY <1>1, <2>2, <3>1 DEF LineInv
  <2>4. i < n
    BY <1>1, <1>2, <2>1, <2>2, <2>3, TriggerPosition
  <2> QED
    BY <2>1, <2>4
<1>4. ASSUME NEW i \in 0 .. n - 1 PROVE Select(i) \in V
  <2>1. i \in Rounds /\ Select(i) \in Line /\ Position(Select(i)) <= Position(last)
    BY <1>2 DEF Line
  <2>2. CASE Position(Select(i)) = Position(last)
    BY <1>1, <2>1, <2>2, LineInjective
  <2>3. CASE Position(Select(i)) < Position(last)
    <3>1. Select(i) \in Confirmed /\ conf[Select(i)] < conf[last] /\ Select(i) \in Protocol
      BY <1>1, <2>1, <2>3, TriggerPosition DEF LineInv
    <3>2. conf[Select(i)] \in Nat /\ conf[last] \in Nat
      BY <1>1, <3>1 DEF NodeInv, NodeType, Confirmed
    <3> QED
      BY <1>1, <3>1, <3>2 DEF Prefix
  <2> QED
    BY <1>1, <2>1, <2>2, <2>3, TriggerPosition
<1>5. {t \in V : t[1] = "SELECT"} = {Select(i) : i \in 0 .. n - 1}
  <2>1. \A i : Select(i)[1] = "SELECT"
    BY DEF Select
  <2> HIDE DEF n
  <2> QED
    BY <1>3, <1>4, <2>1
<1> QED
  BY <1>5, SelectCount DEF Selections

-----------------------------------------------------------------------------

\* What the prover answers last with.
ProverAnswer(last, t) ==
    \/ last = Proof /\ t = ProofUncontested /\ conf[Proof] + SmallTimeout <= height
    \/ last = Challenge /\ t = State(0)
    \/ last = Argument /\ t = ArgumentUncontested /\ conf[Argument] + SmallTimeout <= height
    \/ \E k \in Rounds : last = State(k) /\ t = StateUncontested(k) /\ conf[last] + SmallTimeout <= height
    \/ \E k \in Rounds : last = Select(k) /\ k + 1 \in Rounds /\ t = State(k + 1)
    \/ last = Select(Iterations - 1) /\ t = Argument

\* What the verifier answers last with.
VerifierAnswer(last, t) ==
    \/ last = Proof /\ t = Challenge /\ ~proofValid
    \/ last = Challenge /\ t = ChallengeUncontested /\ conf[Proof] + LargeTimeout <= height
    \/ \E k \in Rounds : last = State(k) /\ t = Select(k)
    \/ \E k \in Rounds : /\ last = Select(k) /\ k + 1 \in Rounds /\ t = SelectUncontested(k + 1)
                         /\ conf[last] + SmallTimeout <= height
    \/ last = Argument /\ t = ProofRefuted /\ templateStatus[Verifier][ProofRefuted] = "PENDING"

(***************************************************************************)
(* The first element of a name tells the kind of the template.             *)
(***************************************************************************)
LEMMA Kind ==
    ASSUME NEW t \in Protocol
    PROVE  /\ t[1] = "STATE" <=> \E i \in Rounds : t = State(i)
           /\ t[1] = "SELECT" <=> \E i \in Rounds : t = Select(i)
           /\ t[1] = "STATE_UNCONTESTED" <=> \E i \in Rounds : t = StateUncontested(i)
BY DEF Protocol, OnceKinds, StepKinds, State, Select, StateUncontested

(***************************************************************************)
(* ProverSends, with the counting done: exactly the answers to the last    *)
(* template.                                                               *)
(***************************************************************************)
LEMMA ProverSendsAnswer ==
    ASSUME AgentType, NodeInv, LineInv, NEW V, Prefix(V), NEW last, IsLast(last, V)
    PROVE  /\ \A t \in ProverSends(V) : \E l \in V : IsLast(l, V) /\ ProverAnswer(l, t)
           /\ \A t \in Protocol : ProverAnswer(last, t) => t \in ProverSends(V)
<1> DEFINE n == Selections(V)
<1> USE IterationsAssumption
<1>1. \A l \in V : l \in Protocol
  BY DEF Prefix
<1>2. \A l \in V : \A k \in Rounds : IsLast(l, V) => (l = State(k) => n = k) /\ (l = Select(k) => n = k + 1)
  BY Count DEF State, Select
<1>3. /\ CheckTimeout(Prover, Proof) <=> conf[Proof] + SmallTimeout <= height
      /\ CheckTimeout(Prover, Argument) <=> conf[Argument] + SmallTimeout <= height
      /\ \A k \in Rounds : CheckTimeout(Prover, State(k)) <=> conf[State(k)] + SmallTimeout <= height
      /\ \A k \in Rounds : ~ CheckTimeout(Prover, StateUncontested(k))
  <2>1. \A k \in Rounds : ~ CheckTimeout(Prover, StateUncontested(k))
    BY Timeouts DEF CheckTimeout
  <2> QED
    BY <2>1, Timeouts, CheckTimed
<1>4. ASSUME NEW t \in Protocol, NEW l \in V, IsLast(l, V),
             \/ l = Proof /\ CheckTimeout(Prover, l) /\ t = ProofUncontested
             \/ l = Challenge /\ t = State(0)
             \/ l = Argument /\ CheckTimeout(Prover, l) /\ t = ArgumentUncontested
             \/ StartsWith(l, "STATE") /\ CheckTimeout(Prover, l) /\ t = StateUncontested(n)
             \/ l[1] = "SELECT" /\ n < Iterations /\ t = State(n)
             \/ l[1] = "SELECT" /\ n >= Iterations /\ t = Argument
      PROVE  ProverAnswer(l, t)
  <2>1. CASE \/ l = Proof /\ CheckTimeout(Prover, l) /\ t = ProofUncontested
             \/ l = Challenge /\ t = State(0)
             \/ l = Argument /\ CheckTimeout(Prover, l) /\ t = ArgumentUncontested
    BY <2>1, <1>3 DEF ProverAnswer
  <2>2. CASE StartsWith(l, "STATE") /\ CheckTimeout(Prover, l) /\ t = StateUncontested(n)
    <3>1. PICK k \in Rounds : l = State(k)
      BY <1>1, <1>3, <2>2, Kind DEF StartsWith
    <3> QED
      BY <1>2, <1>3, <1>4, <2>2, <3>1 DEF ProverAnswer
  <2>3. CASE l[1] = "SELECT" /\ n < Iterations /\ t = State(n)
    <3>1. PICK k \in Rounds : l = Select(k)
      BY <1>1, <2>3, Kind
    <3>2. n = k + 1 /\ k + 1 \in Rounds
      BY <1>2, <1>4, <2>3, <3>1 DEF Rounds
    <3> QED
      BY <2>3, <3>1, <3>2 DEF ProverAnswer
  <2>4. CASE l[1] = "SELECT" /\ n >= Iterations /\ t = Argument
    <3>1. PICK k \in Rounds : l = Select(k)
      BY <1>1, <2>4, Kind
    <3>2. n = k + 1 /\ k = Iterations - 1
      BY <1>2, <1>4, <2>4, <3>1 DEF Rounds
    <3> QED
      BY <2>4, <3>1, <3>2 DEF ProverAnswer
  <2> QED
    BY <1>4, <2>1, <2>2, <2>3, <2>4
<1>5. ASSUME NEW t \in Protocol, ProverAnswer(last, t)
      PROVE  \/ last = Proof /\ CheckTimeout(Prover, last) /\ t = ProofUncontested
             \/ last = Challenge /\ t = State(0)
             \/ last = Argument /\ CheckTimeout(Prover, last) /\ t = ArgumentUncontested
             \/ StartsWith(last, "STATE") /\ CheckTimeout(Prover, last) /\ t = StateUncontested(n)
             \/ last[1] = "SELECT" /\ n < Iterations /\ t = State(n)
             \/ last[1] = "SELECT" /\ n >= Iterations /\ t = Argument
  <2>0. last \in V /\ Iterations - 1 \in Rounds
    BY DEF IsLast, Rounds
  <2>1. ASSUME NEW k \in Rounds, last = State(k), t = StateUncontested(k), conf[last] + SmallTimeout <= height
        PROVE  StartsWith(last, "STATE") /\ CheckTimeout(Prover, last) /\ t = StateUncontested(n)
    BY <2>0, <2>1, <1>2, <1>3 DEF StartsWith, State
  <2>2. ASSUME NEW k \in Rounds, last = Select(k), k + 1 \in Rounds, t = State(k + 1)
        PROVE  last[1] = "SELECT" /\ n < Iterations /\ t = State(n)
    BY <2>0, <2>2, <1>2 DEF Select, Rounds
  <2>3. ASSUME last = Select(Iterations - 1), t = Argument
        PROVE  last[1] = "SELECT" /\ n >= Iterations /\ t = Argument
    BY <2>0, <2>3, <1>2 DEF Select, Rounds
  <2> QED
    BY <1>3, <1>5, <2>1, <2>2, <2>3 DEF ProverAnswer
<1>6. \A t \in ProverSends(V) : \E l \in V : IsLast(l, V) /\ ProverAnswer(l, t)
  BY <1>4 DEF ProverSends
<1>7. \A t \in Protocol : ProverAnswer(last, t) => t \in ProverSends(V)
  BY <1>5 DEF ProverSends, IsLast
<1> QED
  BY <1>6, <1>7

(***************************************************************************)
(* VerifierSends, with the counting done.                                  *)
(***************************************************************************)
LEMMA VerifierSendsAnswer ==
    ASSUME AgentType, NodeInv, LineInv, NEW V, Prefix(V), NEW last, IsLast(last, V)
    PROVE  /\ \A t \in VerifierSends(V) : \E l \in V : IsLast(l, V) /\ VerifierAnswer(l, t)
           /\ \A t \in Protocol : VerifierAnswer(last, t) => t \in VerifierSends(V)
<1> DEFINE n == Selections(V)
<1> USE IterationsAssumption
<1>1. \A l \in V : l \in Protocol
  BY DEF Prefix
<1>2. \A l \in V : \A k \in Rounds : IsLast(l, V) => (l = State(k) => n = k) /\ (l = Select(k) => n = k + 1)
  BY Count DEF State, Select
<1>3. /\ CheckTimeout(Verifier, Proof) <=> conf[Proof] + LargeTimeout <= height
      /\ \A k \in Rounds : CheckTimeout(Verifier, Select(k)) <=> conf[Select(k)] + SmallTimeout <= height
  BY Timeouts, CheckTimed
<1>4. ASSUME NEW t \in Protocol, NEW l \in V, IsLast(l, V),
             \/ l = Proof /\ ~proofValid /\ t = Challenge
             \/ l = Challenge /\ CheckTimeout(Verifier, Proof) /\ t = ChallengeUncontested
             \/ l[1] = "STATE" /\ t = Select(n)
             \/ l[1] = "SELECT" /\ CheckTimeout(Verifier, l) /\ t = SelectUncontested(n)
             \/ l = Argument /\ templateStatus[Verifier][ProofRefuted] = "PENDING" /\ t = ProofRefuted
      PROVE  VerifierAnswer(l, t)
  <2>1. CASE \/ l = Proof /\ ~proofValid /\ t = Challenge
             \/ l = Challenge /\ CheckTimeout(Verifier, Proof) /\ t = ChallengeUncontested
             \/ l = Argument /\ templateStatus[Verifier][ProofRefuted] = "PENDING" /\ t = ProofRefuted
    BY <2>1, <1>3 DEF VerifierAnswer
  <2>2. CASE l[1] = "STATE" /\ t = Select(n)
    <3>1. PICK k \in Rounds : l = State(k)
      BY <1>1, <2>2, Kind
    <3> QED
      BY <1>2, <1>4, <2>2, <3>1 DEF VerifierAnswer
  <2>3. CASE l[1] = "SELECT" /\ CheckTimeout(Verifier, l) /\ t = SelectUncontested(n)
    <3>1. PICK k \in Rounds : l = Select(k)
      BY <1>1, <2>3, Kind
    <3>2. n = k + 1
      BY <1>2, <1>4, <3>1
    <3>3. k + 1 \in Rounds
      BY <2>3, <3>2, <1>4 DEF SelectUncontested, Protocol, OnceKinds, StepKinds
    <3> QED
      BY <1>3, <2>3, <3>1, <3>2, <3>3 DEF VerifierAnswer
  <2> QED
    BY <1>4, <2>1, <2>2, <2>3
<1>5. ASSUME NEW t \in Protocol, VerifierAnswer(last, t)
      PROVE  \/ last = Proof /\ ~proofValid /\ t = Challenge
             \/ last = Challenge /\ CheckTimeout(Verifier, Proof) /\ t = ChallengeUncontested
             \/ last[1] = "STATE" /\ t = Select(n)
             \/ last[1] = "SELECT" /\ CheckTimeout(Verifier, last) /\ t = SelectUncontested(n)
             \/ last = Argument /\ templateStatus[Verifier][ProofRefuted] = "PENDING" /\ t = ProofRefuted
  <2>0. last \in V
    BY DEF IsLast
  <2>1. ASSUME NEW k \in Rounds, last = State(k), t = Select(k)
        PROVE  last[1] = "STATE" /\ t = Select(n)
    BY <2>0, <2>1, <1>2 DEF State
  <2>2. ASSUME NEW k \in Rounds, last = Select(k), t = SelectUncontested(k + 1), conf[last] + SmallTimeout <= height
        PROVE  last[1] = "SELECT" /\ CheckTimeout(Verifier, last) /\ t = SelectUncontested(n)
    BY <2>0, <2>2, <1>2, <1>3 DEF Select
  <2> QED
    BY <1>3, <1>5, <2>1, <2>2 DEF VerifierAnswer
<1>6. \A t \in VerifierSends(V) : \E l \in V : IsLast(l, V) /\ VerifierAnswer(l, t)
  BY <1>4 DEF VerifierSends, UncontestedIteration
<1>7. \A t \in Protocol : VerifierAnswer(last, t) => t \in VerifierSends(V)
  BY <1>5 DEF VerifierSends, UncontestedIteration, IsLast
<1> QED
  BY <1>6, <1>7

-----------------------------------------------------------------------------

(***************************************************************************)
(* Whatever process() asks for, but SELECT_UNCONTESTED, answers a          *)
(* confirmed template.                                                     *)
(***************************************************************************)
LEMMA SendsTrigger ==
    ASSUME AgentType, NodeInv, LineInv, ViewPrefix, NEW a \in Roles, NEW t \in Protocol \ Uncontestable,
           t \in Sends(a, view[a])
    PROVE  Trigger(t) \in Confirmed
<1> DEFINE V == view[a]
<1>1. Prefix(V)
  BY DEF ViewPrefix
<1>2. ASSUME NEW l \in V, ProverAnswer(l, t) PROVE Trigger(t) \in Confirmed
  <2>1. l \in Confirmed
    BY <1>1 DEF Prefix
  <2>2. ASSUME NEW k \in Rounds, k + 1 \in Rounds PROVE Trigger(State(k + 1)) = Select(k)
    <3>1. k + 1 # 0 /\ (k + 1) - 1 = k
      BY DEF Rounds
    <3> QED
      BY <2>2, <3>1, Triggers
  <2> QED
    BY <1>2, <2>1, <2>2, Triggers DEF ProverAnswer
<1>3. ASSUME NEW l \in V, VerifierAnswer(l, t) PROVE Trigger(t) \in Confirmed
  <2>1. l \in Confirmed
    BY <1>1 DEF Prefix
  <2> QED
    BY <1>3, <2>1, Triggers DEF VerifierAnswer, Uncontestable
<1>4. CASE a = Prover
  <2>1. t \in ProverSends(V)
    BY <1>4 DEF Sends
  <2>2. PICK last \in V : IsLast(last, V)
    BY <2>1 DEF ProverSends
  <2> HIDE DEF V
  <2>3. \E l \in V : ProverAnswer(l, t)
    BY <1>1, <2>1, <2>2, ProverSendsAnswer
  <2> QED
    BY <1>2, <2>3 DEF V
<1>5. CASE a = Verifier
  <2>1. t \in VerifierSends(V)
    BY <1>5 DEF Sends, Prover, Verifier
  <2>2. PICK last \in V : IsLast(last, V)
    BY <2>1 DEF VerifierSends
  <2> HIDE DEF V
  <2>3. \E l \in V : VerifierAnswer(l, t)
    BY <1>1, <2>1, <2>2, VerifierSendsAnswer
  <2> QED
    BY <1>3, <2>3 DEF V
<1> QED
  BY <1>4, <1>5 DEF Roles, Prover, Verifier

(***************************************************************************)
(* SELECT_UNCONTESTED_i is not accepted before SELECT_i is confirmed,      *)
(* because it waits for a timeout.                                         *)
(***************************************************************************)
LEMMA UncontestableTrigger ==
    ASSUME NEW i \in Rounds, TestMempoolAccept(SelectUncontested(i))
    PROVE  Select(i) \in Confirmed /\ conf[Select(i)] + SmallTimeout <= height + 1
<1> DEFINE in == In(Select(i), 0, 1)
<1>1. in \in Inputs(SelectUncontested(i))
  BY DEF Inputs, StepInputs, SelectUncontested
<1>2. in.tx = Select(i)
  BY DEF In
<1>3. NSequence(in) = SmallTimeout
  BY DEF NSequence, SpendingCondition, In, Outputs, StepKinds, StepOutputs, Select, Sc
<1> HIDE DEF in
<1> QED
  BY <1>1, <1>2, <1>3, TimeoutAssumption DEF TestMempoolAccept

(***************************************************************************)
(* A transaction enters the mempool.                                       *)
(***************************************************************************)
LEMMA BroadcastAdvance ==
    ASSUME AgentType, NodeInv, NodeInv', StatusInv, AdvanceInv, NEW a \in Roles, NEW t \in Protocol,
           BroadcastTransaction(a, t), UNCHANGED protocolVars
    PROVE  AdvanceInv'
<1>1. UNCHANGED <<templateStatus, scanned, received, view>>
  BY DEF BroadcastTransaction, dbVars, protocolVars, listenerVars
<1>2. CASE TestMempoolAccept(t) /\ SendRawTransaction(t)
  <2>1. UNCHANGED <<conf, height>> /\ Confirmed' = Confirmed
    BY <1>2 DEF SendRawTransaction, Confirmed
  <2>2. Known' = Known \cup {t} /\ t \in Mempool'
    BY <1>2, <2>1 DEF SendRawTransaction, Known, Mempool, NodeInv, NodeType
  <2>3. t \notin Confirmed
    BY <2>1, <2>2 DEF NodeInv, MempoolInv
  <2>4. t # Proof => Trigger(t) \in Confirmed
    <3>1. CASE t \in Uncontestable
      BY <1>2, <3>1, UncontestableTrigger, Triggers DEF Uncontestable
    <3>2. CASE t \notin Uncontestable
      <4>1. templateStatus[a][t] = "READY" /\ Role(t) = a
        BY DEF BroadcastTransaction, Unsent, StatusInv, BatchReady, OwnTemplates
      <4> QED
        BY <3>2, <4>1 DEF AdvanceInv, AskedTrigger
    <3> QED
      BY <3>1, <3>2
  <2>5. KnownTrigger'
    BY <2>1, <2>2, <2>4 DEF AdvanceInv, KnownTrigger
  <2>6. LineInv'
    <3>1. ASSUME NEW u \in Line, Position(u) < Position(t) PROVE u \in Confirmed
      <4>1. t # Proof
        BY <3>1, TriggerPosition, Positions
      <4>2. Trigger(t) \in Line /\ Trigger(t) \in Protocol \cap Known /\ Position(t) = Position(Trigger(t)) + 1
        BY <2>4, <4>1, TriggerPosition DEF Known
      <4>3. CASE Position(u) < Position(Trigger(t))
        BY <4>2, <4>3 DEF AdvanceInv, LineInv
      <4>4. CASE Position(u) = Position(Trigger(t))
        BY <2>4, <4>1, <4>2, <4>4, LineInjective
      <4>5. Position(u) \in Nat /\ Position(Trigger(t)) \in Nat
        BY <4>2, TriggerPosition
      <4> QED
        BY <3>1, <4>2, <4>3, <4>4, <4>5
    <3> QED
      BY <2>1, <2>2, <2>3, <3>1 DEF AdvanceInv, LineInv
  <2>7. AskedTrigger' /\ ReceivedExact' /\ ViewPrefix'
    BY <1>1, <2>1 DEF AdvanceInv, AskedTrigger, ReceivedExact, ViewPrefix, Prefix
  <2> QED
    BY <2>5, <2>6, <2>7 DEF AdvanceInv
<1>3. CASE UNCHANGED nodeVars
  BY <1>1, <1>3 DEF nodeVars, AdvanceInv, KnownTrigger, LineInv, AskedTrigger, ReceivedExact, ViewPrefix, Prefix,
                    Known, Mempool, Confirmed
<1> QED
  BY <1>2, <1>3 DEF BroadcastTransaction

(***************************************************************************)
(* A new block.                                                            *)
(***************************************************************************)
LEMMA MineAdvance ==
    ASSUME AgentType, NodeInv, AdvanceInv, Mine PROVE AdvanceInv'
<1>1. PICK S \in SUBSET Mempool : MineBlock(S)
  BY DEF Mine
<1>2. /\ Confirmed' = Confirmed \cup S /\ Known' = Known
      /\ \A t \in Confirmed : conf'[t] = conf[t] /\ conf[t] <= height
      /\ \A t \in S : conf'[t] = height + 1
      /\ height \in Nat
  BY <1>1, BlockEffect, ExtendKnown DEF Extend, AgentType, TypeNode, Confirmed, NodeInv, NodeType
<1>3. UNCHANGED <<templateStatus, scanned, received, view>>
  BY DEF Mine, dbVars, protocolVars, listenerVars
<1>4. \A t \in Confirmed : conf[t] \in Nat
  BY DEF Confirmed, NodeInv, NodeType
<1>5. KnownTrigger' /\ AskedTrigger'
  BY <1>2, <1>3 DEF AdvanceInv, KnownTrigger, AskedTrigger
<1>6. LineInv'
  <2> SUFFICES ASSUME NEW t \in Protocol \cap Known, NEW u \in Line, Position(u) < Position(t)
               PROVE  u \in Confirmed' /\ (t \in Confirmed' => conf'[u] < conf'[t])
    BY <1>2 DEF LineInv
  <2>1. u \in Confirmed /\ (t \in Confirmed => conf[u] < conf[t])
    BY DEF AdvanceInv, LineInv
  <2>2. CASE t \in Confirmed
    BY <1>2, <2>1, <2>2
  <2>3. CASE t \in S
    <3>1. conf'[u] <= height /\ conf'[u] \in Nat /\ conf'[t] = height + 1
      BY <1>2, <1>4, <2>1, <2>3
    <3> QED
      BY <1>2, <2>1, <3>1
  <2> QED
    BY <1>2, <2>1, <2>2, <2>3
<1>7. ReceivedExact'
  <2>1. \A a \in Roles : scanned[a] \in Nat /\ scanned[a] <= height
    BY DEF AgentType, TypeListener, TypeNode
  <2> SUFFICES ASSUME NEW a \in Roles
               PROVE  received[a] = {t \in Protocol \cap Confirmed' : conf'[t] <= scanned[a]}
    BY <1>3 DEF ReceivedExact
  <2>2. \A t \in S : ~ (conf'[t] <= scanned[a])
    BY <1>2, <2>1
  <2>3. received[a] = {t \in Protocol \cap Confirmed : conf[t] <= scanned[a]}
    BY DEF AdvanceInv, ReceivedExact
  <2> QED
    BY <1>2, <2>2, <2>3
<1>8. ViewPrefix'
  <2> SUFFICES ASSUME NEW a \in Roles, NEW t \in view[a], NEW u \in Protocol \cap Confirmed', conf'[u] <= conf'[t]
               PROVE  u \in view[a] /\ t \in Protocol \cap Confirmed'
    BY <1>2, <1>3 DEF AdvanceInv, ViewPrefix, Prefix
  <2>1. t \in Protocol \cap Confirmed
    BY DEF AdvanceInv, ViewPrefix, Prefix
  <2>2. u \notin S
    BY <1>2, <1>4, <2>1
  <2> QED
    BY <1>2, <2>1, <2>2 DEF AdvanceInv, ViewPrefix, Prefix
<1> QED
  BY <1>5, <1>6, <1>7, <1>8 DEF AdvanceInv

(***************************************************************************)
(* A step that leaves the node and the listeners alone, and empties a view *)
(* or asks for nothing new.                                                *)
(***************************************************************************)
LEMMA AdvanceFrame ==
    ASSUME AdvanceInv, UNCHANGED <<height, conf, entered, scanned, received>>,
           \A b \in Roles : view'[b] = view[b] \/ view'[b] = {},
           \A b \in Roles : \A t \in Protocol :
               templateStatus'[b][t] # "PENDING" /\ templateStatus[b][t] = "PENDING" /\ Role(t) = b
                 => t \in {Proof} \cup Uncontestable \/ Trigger(t) \in Confirmed
    PROVE  AdvanceInv'
<1>1. Confirmed' = Confirmed /\ Known' = Known
  BY DEF Known, Mempool, Confirmed
<1>2. KnownTrigger' /\ LineInv' /\ ReceivedExact'
  BY <1>1 DEF AdvanceInv, KnownTrigger, LineInv, ReceivedExact
<1>3. AskedTrigger'
  BY <1>1 DEF AdvanceInv, AskedTrigger, Role, Roles
<1>4. ViewPrefix'
  <2> SUFFICES ASSUME NEW b \in Roles PROVE Prefix(view[b])'
    BY DEF ViewPrefix
  <2>1. CASE view'[b] = view[b]
    BY <1>1, <2>1 DEF AdvanceInv, ViewPrefix, Prefix
  <2>2. CASE view'[b] = {}
    BY <1>1, <2>2 DEF Prefix
  <2> QED
    BY <2>1, <2>2
<1> QED
  BY <1>2, <1>3, <1>4 DEF AdvanceInv

(***************************************************************************)
(* The sender changes no PENDING status.                                   *)
(***************************************************************************)
LEMMA SenderAdvance ==
    ASSUME AgentType, StatusInv, AdvanceInv, NEW a \in Roles, UNCHANGED protocolVars,
           \/ HandleSpecialTransactions(a)
           \/ SelectReady(a)
           \/ CommitBroadcast(a)
           \/ SenderCrash(a)
    PROVE  AdvanceInv'
<1>1. UNCHANGED <<height, conf, entered, scanned, received, view>>
  BY DEF HandleSpecialTransactions, SelectReady, CommitBroadcast, SenderCrash, nodeVars, protocolVars,
         listenerVars
<1>2. ASSUME NEW b \in Roles, NEW t \in Protocol, templateStatus[b][t] = "PENDING"
      PROVE  templateStatus'[b][t] = "PENDING"
  <2> USE DEF AgentType, TypeSender
  <2>1. CASE HandleSpecialTransactions(a)
    BY <1>2, <2>1 DEF HandleSpecialTransactions, Ready
  <2>2. CASE SelectReady(a) \/ SenderCrash(a)
    BY <1>2, <2>2 DEF SelectReady, SenderCrash, dbVars
  <2>3. CASE CommitBroadcast(a)
    BY <1>2, <2>3 DEF CommitBroadcast, StatusInv, BatchReady
  <2> QED
    BY <2>1, <2>2, <2>3
<1> QED
  BY <1>1, <1>2, AdvanceFrame

(***************************************************************************)
(* What an agent has received is what it saw of all blocks up to a height. *)
(***************************************************************************)
LEMMA ReceivedPrefix ==
    ASSUME AgentType, NodeInv, AdvanceInv, NEW b \in Roles PROVE Prefix(received[b])
<1> SUFFICES ASSUME NEW t \in received[b], NEW u \in Protocol \cap Confirmed, conf[u] <= conf[t]
             PROVE  u \in received[b]
  BY DEF AdvanceInv, ReceivedExact, Prefix
<1>1. conf[u] \in Nat /\ conf[t] \in Nat /\ scanned[b] \in Nat
  BY DEF AdvanceInv, ReceivedExact, Confirmed, NodeInv, NodeType, AgentType, TypeListener
<1> QED
  BY <1>1 DEF AdvanceInv, ReceivedExact

(***************************************************************************)
(* The protocol process asks for an answer to something confirmed.         *)
(***************************************************************************)
LEMMA ProtocolAdvance ==
    ASSUME AgentType, NodeInv, AdvanceInv, NEW a \in Roles, ProtocolStep(a) \/ ProtocolCrash(a)
    PROVE  AdvanceInv'
<1> USE DEF AgentType, PerAgent
<1>1. CASE Poll(a)
  <2>1. UNCHANGED <<height, conf, entered, scanned, received, templateStatus>>
    BY <1>1 DEF Poll, nodeVars, dbVars, listenerVars
  <2>2. \A b \in Roles : view'[b] \in {view[b], received[b]}
    BY <1>1 DEF Poll
  <2>3. \A b \in Roles : Prefix(received[b])
    BY ReceivedPrefix
  <2>4. ViewPrefix'
    <3>1. Confirmed' = Confirmed
      BY <2>1 DEF Confirmed
    <3> QED
      BY <2>1, <2>2, <2>3, <3>1 DEF AdvanceInv, ViewPrefix, Prefix
  <2>5. KnownTrigger' /\ LineInv' /\ ReceivedExact' /\ AskedTrigger'
    BY <2>1 DEF AdvanceInv, KnownTrigger, LineInv, ReceivedExact, AskedTrigger, Known, Mempool, Confirmed
  <2> QED
    BY <2>4, <2>5 DEF AdvanceInv
<1>2. CASE Transmitted(a) \/ ProtocolCrash(a)
  <2>1. UNCHANGED <<height, conf, entered, scanned, received, templateStatus>>
    BY <1>2 DEF Transmitted, ProtocolCrash, nodeVars, dbVars, listenerVars
  <2>2. \A b \in Roles : view'[b] = view[b] \/ view'[b] = {}
    BY <1>2 DEF Transmitted, ProtocolCrash
  <2> QED
    BY <2>1, <2>2, AdvanceFrame
<1>3. CASE Examine(a)
  <2>1. ASSUME NEW s \in SetupStatus, MarkSetupStatus(a, s) PROVE AdvanceInv'
    <3>1. UNCHANGED <<height, conf, entered, scanned, received, templateStatus>>
      BY <2>1 DEF MarkSetupStatus, nodeVars, listenerVars
    <3>2. \A b \in Roles : view'[b] = view[b] \/ view'[b] = {}
      BY <2>1 DEF MarkSetupStatus
    <3> QED
      BY <3>1, <3>2, AdvanceFrame
  <2>2. CASE Return(a)
    <3>1. UNCHANGED <<height, conf, entered, scanned, received, templateStatus>>
      BY <2>2 DEF Return, nodeVars, dbVars, listenerVars
    <3>2. \A b \in Roles : view'[b] = view[b] \/ view'[b] = {}
      BY <2>2 DEF Return
    <3> QED
      BY <3>1, <3>2, AdvanceFrame
  <2>3. ASSUME NEW t \in Protocol, t \in Sends(a, view[a]), SendTransaction(a, t) PROVE AdvanceInv'
    <3>1. UNCHANGED <<height, conf, entered, scanned, received>>
      BY <2>3 DEF SendTransaction, nodeVars, listenerVars
    <3>2. \A b \in Roles : view'[b] = view[b] \/ view'[b] = {}
      BY <2>3 DEF SendTransaction
    <3>3. \A b \in Roles : \A u \in Protocol :
            templateStatus'[b][u] # templateStatus[b][u] => u = t
      <4>1. CASE templateStatus[a][t] = "PENDING"
        BY <2>3, <4>1 DEF SendTransaction, TypeSender
      <4>2. CASE templateStatus[a][t] # "PENDING"
        BY <2>3, <4>2 DEF SendTransaction
      <4> QED
        BY <4>1, <4>2
    <3>4. t \in Uncontestable \/ Trigger(t) \in Confirmed
      BY <2>3, SendsTrigger DEF AdvanceInv
    <3> QED
      BY <3>1, <3>2, <3>3, <3>4, AdvanceFrame
  <2> QED
    BY <1>3, <2>1, <2>2, <2>3, ExamineCases
<1> QED
  BY <1>1, <1>2, <1>3 DEF ProtocolStep

(***************************************************************************)
(* Every step of the system advances along the line.                       *)
(***************************************************************************)
LEMMA NextAdvance ==
    ASSUME AgentType, NodeInv, NodeInv', StatusInv, AdvanceInv, [Next]_vars PROVE AdvanceInv'
<1>1. CASE PegOut
  <2>1. \A b \in Roles : \A t \in Protocol : templateStatus'[b][t] # templateStatus[b][t] => t = Proof
    BY <1>1 DEF PegOut, AgentType, TypeSender
  <2> QED
    BY <1>1, <2>1, AdvanceFrame DEF PegOut, nodeVars, protocolVars, listenerVars
<1>2. ASSUME NEW a \in Roles, ScanBlock(a) PROVE AdvanceInv'
  <2>1. UNCHANGED <<height, conf, entered, templateStatus, view>>
    BY <1>2 DEF ScanBlock, nodeVars, dbVars
  <2>2. ReceivedExact'
    <3> SUFFICES ASSUME NEW b \in Roles
                 PROVE  received'[b] = {t \in Protocol \cap Confirmed : conf[t] <= scanned'[b]}
      BY <2>1 DEF ReceivedExact, Confirmed
    <3>1. received[b] = {t \in Protocol \cap Confirmed : conf[t] <= scanned[b]}
      BY DEF AdvanceInv, ReceivedExact
    <3>2. CASE b # a
      BY <1>2, <3>1, <3>2 DEF ScanBlock
    <3>3. CASE b = a
      <4>1. scanned'[a] = scanned[a] + 1 /\ scanned[a] \in Nat
        BY <1>2 DEF ScanBlock, AgentType, TypeListener
      <4>2. received'[a] = received[a] \cup {t \in Protocol : conf[t] = scanned'[a]}
        BY <1>2 DEF ScanBlock, AgentType, PerAgent
      <4>3. \A t \in Protocol : conf[t] \in Nat /\ (t \in Confirmed <=> conf[t] > 0)
        BY DEF NodeInv, NodeType, Confirmed, Names
      <4>4. \A t \in Protocol : t \in received'[a] <=> t \in Confirmed /\ conf[t] <= scanned'[a]
        BY <3>1, <3>3, <4>1, <4>2, <4>3
      <4> QED
        BY <3>1, <3>3, <4>2, <4>4
    <3> QED
      BY <3>2, <3>3
  <2> QED
    BY <2>1, <2>2 DEF AdvanceInv, KnownTrigger, LineInv, AskedTrigger, ViewPrefix, Prefix, Known, Mempool,
                      Confirmed
<1>3. ASSUME NEW a \in Roles, SenderStep(a) PROVE AdvanceInv'
  BY <1>3, SenderAdvance, BroadcastAdvance DEF SenderStep, Broadcast
<1>4. ASSUME NEW a \in Roles, Crash(a) PROVE AdvanceInv'
  BY <1>4, SenderAdvance, ProtocolAdvance DEF Crash
<1>5. CASE UNCHANGED vars
  BY <1>5, AdvanceFrame DEF vars, nodeVars, dbVars, protocolVars, listenerVars
<1> QED
  BY <1>1, <1>2, <1>3, <1>4, <1>5, MineAdvance, ProtocolAdvance DEF Next

(***************************************************************************)
(* No template reaches the node before the whole line below it is          *)
(* confirmed, in order: the inductive invariant.                           *)
(***************************************************************************)
THEOREM AdvanceInvariant == Spec => []AdvanceInv
<1>1. Init => AdvanceInv
  <2> SUFFICES ASSUME Init PROVE AdvanceInv
    OBVIOUS
  <2>1. Mempool = {} /\ Confirmed \cap Protocol = {}
    BY DEF Init, NodeInit, Mempool, Confirmed, Names, External, Protocol, ExternalKinds, OnceKinds, StepKinds
  <2>2. Protocol \cap Known = {}
    BY <2>1 DEF Known
  <2>3. KnownTrigger /\ LineInv
    BY <2>2 DEF KnownTrigger, LineInv
  <2>4. AskedTrigger
    BY DEF AskedTrigger, Init, SenderInit, Role, Roles
  <2> QED
    BY <2>1, <2>3, <2>4 DEF AdvanceInv, ReceivedExact, ViewPrefix, Prefix, Init, ProtocolInit
<1> QED
  BY <1>1, NextAdvance, NodeInvariant, AgentTypeInvariant, StatusInvariant, PTL DEF Spec

(***************************************************************************)
(* Two templates of a setup are never under way at the same time, and no   *)
(* block holds two of them: last(incomingArray) is well defined.           *)
(***************************************************************************)
THEOREM OneAtATime == Spec => []OneTemplatePerBlock
BY LineOneTemplate, AdvanceInvariant, AgentTypeInvariant, NodeInvariant, PTL DEF AdvanceInv
=============================================================================
