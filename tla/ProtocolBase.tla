---------------------------- MODULE ProtocolBase ----------------------------
(***************************************************************************)
(* What the prover's and the verifier's protocol processes share           *)
(* (src/agent/protocol-logic/protocol-base.ts): reading the received       *)
(* transactions, checking timeouts, and handing a template to the sender   *)
(* and waiting for it.                                                     *)
(*                                                                         *)
(* process() reads the received transactions once, then acts on that       *)
(* snapshot; the block height and the template statuses it uses are read   *)
(* later.                                                                  *)
(***************************************************************************)
EXTENDS BitcoinSender, FiniteSets

VARIABLES
    received,   \* the templates in the agent's table "received"
    scanned,    \* height up to which the agent's listener recorded blocks
    pc,         \* where the agent's protocol process is
    view,       \* incomingArray: the snapshot process() works on
    awaited     \* the template that waitForTransmission polls

listenerVars == <<received, scanned>>
protocolVars == <<listenerVars, pc, view, awaited>>

NoTemplate == <<"NONE", 0>>

ProtocolInit ==
    /\ received = [a \in Roles |-> {}]
    /\ scanned = [a \in Roles |-> 1]
    /\ pc = [a \in Roles |-> "idle"]
    /\ view = [a \in Roles |-> {}]
    /\ awaited = [a \in Roles |-> NoTemplate]

\* incoming == last(incomingArray): getReceivedTransactions orders the rows by
\* block height and index in the block.
IsLast(t, V) == t \in V /\ \A u \in V : conf[u] <= conf[t]

\* incoming.template.name.startsWith(TemplateNames.STATE) also holds of
\* STATE_UNCONTESTED_nn, and likewise for SELECT.
StartsWith(t, prefix) ==
    \/ t[1] = prefix
    \/ prefix = "STATE" /\ t[1] = "STATE_UNCONTESTED"
    \/ prefix = "SELECT" /\ t[1] = "SELECT_UNCONTESTED"

\* selectionPath.length when the loop has reached the end of V.
Selections(V) == Cardinality({t \in V : t[1] = "SELECT"})

\* The spending conditions of a template's outputs that have a timeout.
TimedConditions ==
    [t \in Protocol |->
        {sc \in UNION {{Outputs(t)[o][s] : s \in DOMAIN Outputs(t)[o]} : o \in DOMAIN Outputs(t)} :
            sc.timeoutBlocks # 0}]

\* Mutant of CheckTimeout: one block late.
CheckTimeoutLate(a, t) ==
    \E sc \in TimedConditions[t] :
        sc.nextRole = a /\ conf[t] + sc.timeoutBlocks < height

\* checkTimeout: some spending condition for this role has expired.
CheckTimeout(a, t) ==
    \E sc \in TimedConditions[t] :
        sc.nextRole = a /\ conf[t] + sc.timeoutBlocks <= height

\* The main loop takes the setup up while it is active; with nothing
\* received process() returns at once.
Poll(a) ==
    /\ pc[a] = "idle"
    /\ setupStatus[a] = "ACTIVE"
    /\ received[a] # {}
    /\ pc' = [pc EXCEPT ![a] = "examine"]
    /\ view' = [view EXCEPT ![a] = received[a]]
    /\ UNCHANGED <<nodeVars, dbVars, senderVars, crashes, listenerVars, awaited>>

\* sendTransaction: only a PENDING template is handed to the sender; a
\* REJECTED one makes it throw, which the main loop catches.
SendTransaction(a, t) ==
    /\ IF templateStatus[a][t] = "PENDING"
       THEN /\ templateStatus' = [templateStatus EXCEPT ![a][t] = "READY"]
            /\ pc' = [pc EXCEPT ![a] = "wait"]
            /\ awaited' = [awaited EXCEPT ![a] = t]
       ELSE /\ pc' = [pc EXCEPT ![a] = "idle"]
            /\ UNCHANGED <<templateStatus, awaited>>
    /\ view' = [view EXCEPT ![a] = {}]
    /\ UNCHANGED <<nodeVars, setupStatus, senderVars, crashes, listenerVars>>

\* markSetupPegoutSuccessful, markSetupPegoutFailed
MarkSetupStatus(a, s) ==
    /\ setupStatus' = [setupStatus EXCEPT ![a] = s]
    /\ pc' = [pc EXCEPT ![a] = "idle"]
    /\ view' = [view EXCEPT ![a] = {}]
    /\ UNCHANGED <<nodeVars, templateStatus, senderVars, crashes, listenerVars, awaited>>

\* process() ends without writing anything, or throws.
Return(a) ==
    /\ pc' = [pc EXCEPT ![a] = "idle"]
    /\ view' = [view EXCEPT ![a] = {}]
    /\ UNCHANGED <<nodeVars, dbVars, senderVars, crashes, listenerVars, awaited>>

\* waitForTransmission returns.
Transmitted(a) ==
    /\ pc[a] = "wait"
    /\ templateStatus[a][awaited[a]] \in {"PUBLISHED", "REJECTED"}
    /\ pc' = [pc EXCEPT ![a] = "idle"]
    /\ awaited' = [awaited EXCEPT ![a] = NoTemplate]
    /\ UNCHANGED <<nodeVars, dbVars, senderVars, crashes, listenerVars, view>>

\* The protocol process is killed and started again.
ProtocolCrash(a) ==
    /\ crashes < MaxCrashes
    /\ pc[a] # "idle"
    /\ crashes' = crashes + 1
    /\ pc' = [pc EXCEPT ![a] = "idle"]
    /\ view' = [view EXCEPT ![a] = {}]
    /\ awaited' = [awaited EXCEPT ![a] = NoTemplate]
    /\ UNCHANGED <<nodeVars, dbVars, senderVars, listenerVars>>

=============================================================================
