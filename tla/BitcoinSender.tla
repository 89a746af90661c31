---------------------------- MODULE BitcoinSender ----------------------------
(***************************************************************************)
(* An agent's database and the sender process that works on it.            *)
(*                                                                         *)
(* The database (agent-db.ts) holds, for the one setup that is modelled,   *)
(* the setup status and the status of every template.  One iteration of    *)
(* listen() in python/bitsnark/core/db_listener.py is two database         *)
(* transactions: handle_special_transactions signs PROOF_REFUTED and funds *)
(* CHALLENGE; broadcast_transactions then sends whatever is READY by that  *)
(* time.  The second one writes the new statuses only when it commits,     *)
(* after all its transactions went to the node.                            *)
(***************************************************************************)
EXTENDS BitcoinNode

CONSTANTS MaxCrashes    \* bound on the crashes of sender and protocol processes

ASSUME MaxCrashesAssumption == MaxCrashes \in Nat

VARIABLES
    setupStatus,        \* setups.status, per agent
    templateStatus,     \* templates.status, per agent and template
    phase,              \* where the agent's sender is in listen()
    batch,              \* templates being broadcast, with their uncommitted status
    prepared,           \* special templates that were signed or funded
    crashes             \* number of crashes so far

dbVars == <<setupStatus, templateStatus>>
senderVars == <<phase, batch, prepared>>

SetupStatus == {"ACTIVE", "PEGOUT_SUCCESSFUL", "PEGOUT_FAILED"}
TemplateStatus == {"PENDING", "READY", "PUBLISHED", "REJECTED"}
Phases == {"special", "broadcast", "sending"}

Nothing == [t \in {} |-> "READY"]

SenderInit ==
    /\ setupStatus = [a \in Roles |-> "ACTIVE"]
    /\ templateStatus = [a \in Roles |-> [t \in Protocol |-> "PENDING"]]
    /\ phase = [a \in Roles |-> "special"]
    /\ batch = [a \in Roles |-> Nothing]
    /\ prepared = [a \in Roles |-> {}]
    /\ crashes = 0

Ready(a) == {t \in Protocol : templateStatus[a][t] = "READY"}

\* Only the verifier has templates that are completed just before sending.
SpecialTemplates(a) == IF a = "VERIFIER" THEN {ProofRefuted, Challenge} ELSE {}

\* fund_tx_template_from_wallet refuses a template that already has funded
\* inputs (AlreadyFunded) or that the mempool would not take;
\* sign_tx_template can sign again.  A wallet without coins and a failing
\* RPC, which also end in REJECTED, are left out.
CanPrepare(a, t) ==
    t = Challenge => t \notin prepared[a] /\ TestMempoolAccept(t)

\* Mutant of HandleSpecialTransactions: takes every READY template for special.
HandleSpecialTransactionsAll(a) ==
    /\ phase[a] = "special"
    /\ LET good == {t \in Ready(a) : CanPrepare(a, t)}
       IN  /\ prepared' = [prepared EXCEPT ![a] = @ \cup good]
           /\ templateStatus' =
                [templateStatus EXCEPT ![a] =
                    [t \in Protocol |-> IF t \in Ready(a) \ good THEN "REJECTED" ELSE @[t]]]
    /\ phase' = [phase EXCEPT ![a] = "broadcast"]
    /\ UNCHANGED <<nodeVars, setupStatus, batch, crashes>>

\* Any exception in here ends in status REJECTED.
HandleSpecialTransactions(a) ==
    /\ phase[a] = "special"
    /\ LET special == Ready(a) \cap SpecialTemplates(a)
           good == {t \in special : CanPrepare(a, t)}
       IN  /\ prepared' = [prepared EXCEPT ![a] = @ \cup good]
           /\ templateStatus' =
                [templateStatus EXCEPT ![a] =
                    [t \in Protocol |-> IF t \in special \ good THEN "REJECTED" ELSE @[t]]]
    /\ phase' = [phase EXCEPT ![a] = "broadcast"]
    /\ UNCHANGED <<nodeVars, setupStatus, batch, crashes>>

\* The SELECT of broadcast_transactions.
SelectReady(a) ==
    /\ phase[a] = "broadcast"
    /\ phase' = [phase EXCEPT ![a] = IF Ready(a) = {} THEN "special" ELSE "sending"]
    /\ batch' = [batch EXCEPT ![a] = [t \in Ready(a) |-> "READY"]]
    /\ UNCHANGED <<nodeVars, dbVars, prepared, crashes>>

\* Without its signature or its funds a special template is not broadcast:
\* construct_signed_transaction or the node raises ValueError.
Complete(a, t) == t \in SpecialTemplates(a) => t \in prepared[a]

Unsent(a) == {t \in DOMAIN batch[a] : batch[a][t] = "READY"}

\* Mutant of BroadcastTransaction: a refusal by the node goes unnoticed.
BroadcastTransactionUnchecked(a, t) ==
    /\ t \in Unsent(a)
    /\ batch' = [batch EXCEPT ![a][t] = "PUBLISHED"]
    /\ IF Complete(a, t) /\ TestMempoolAccept(t) THEN SendRawTransaction(t) ELSE UNCHANGED nodeVars
    /\ UNCHANGED <<dbVars, phase, prepared, crashes>>

\* Mutant of BroadcastTransaction: the answer of testmempoolaccept is ignored.
BroadcastTransactionUntested(a, t) ==
    /\ t \in Unsent(a)
    /\ \/ /\ Complete(a, t) /\ t \notin Confirmed \cup Mempool
          /\ SendRawTransaction(t)
          /\ batch' = [batch EXCEPT ![a][t] = "PUBLISHED"]
       \/ /\ ~ (Complete(a, t) /\ t \notin Confirmed \cup Mempool)
          /\ batch' = [batch EXCEPT ![a][t] = "REJECTED"]
          /\ UNCHANGED nodeVars
    /\ UNCHANGED <<dbVars, phase, prepared, crashes>>

BroadcastTransaction(a, t) ==
    /\ t \in Unsent(a)
    /\ \/ /\ Complete(a, t) /\ TestMempoolAccept(t)
          /\ SendRawTransaction(t)
          /\ batch' = [batch EXCEPT ![a][t] = "PUBLISHED"]
       \/ /\ ~ (Complete(a, t) /\ TestMempoolAccept(t))
          /\ batch' = [batch EXCEPT ![a][t] = "REJECTED"]
          /\ UNCHANGED nodeVars
    /\ UNCHANGED <<dbVars, phase, prepared, crashes>>

CommitBroadcast(a) ==
    /\ phase[a] = "sending"
    /\ Unsent(a) = {}
    /\ templateStatus' =
         [templateStatus EXCEPT ![a] =
            [t \in Protocol |-> IF t \in DOMAIN batch[a] THEN batch[a][t] ELSE @[t]]]
    /\ batch' = [batch EXCEPT ![a] = Nothing]
    /\ phase' = [phase EXCEPT ![a] = "special"]
    /\ UNCHANGED <<nodeVars, setupStatus, prepared, crashes>>

\* The process dies (an RPC error is not a ValueError) and is started again.
\* What was sent stays sent; the statuses are rolled back.
SenderCrash(a) ==
    /\ crashes < MaxCrashes
    /\ phase[a] # "special"
    /\ crashes' = crashes + 1
    /\ phase' = [phase EXCEPT ![a] = "special"]
    /\ batch' = [batch EXCEPT ![a] = Nothing]
    /\ UNCHANGED <<nodeVars, dbVars, prepared>>

=============================================================================
