--------------------------- MODULE SetupNegotiation ---------------------------
(***************************************************************************)
(* The negotiation of one setup between the prover's and the verifier's    *)
(* agent (agent.ts), each with its database and its signer process.        *)
(*                                                                         *)
(* Messages travel over a Telegram channel.  telegram.ts does not await    *)
(* messageReceived, so a handler that waits (for a query, for scripts, for *)
(* the signer) overlaps with the handlers of later messages.  A handler is *)
(* a record in running[a]; each of its actions is the code between two     *)
(* awaits.  An exception ends the handler and changes nothing else.        *)
(*                                                                         *)
(* The templates of a setup are abstracted to how far they have been built *)
(* and to whose signatures their inputs hold.  The txid of a template is   *)
(* written together with the signer's own signature.  The rows of one      *)
(* upsert or update are written in one step.  The status FAILED is left    *)
(* out: the signer sets it for a template that lacks a script and nothing  *)
(* else, and generateAllScripts makes the scripts before the rest.         *)
(***************************************************************************)
EXTENDS Naturals, FiniteSets

CONSTANTS
    MaxCrashes,     \* bound on restarts of an agent process
    MaxLosses,      \* bound on documents that cannot be fetched
    MaxRepeats,     \* bound on updates that Telegram delivers twice
    Calm            \* the values of calm to start from, a subset of BOOLEAN

ASSUME SetupAssumption ==
    /\ MaxCrashes \in Nat /\ MaxLosses \in Nat /\ MaxRepeats \in Nat
    /\ Calm \subseteq BOOLEAN

P == "PROVER"
V == "VERIFIER"
AgentRoles == {P, V}
Other(a) == IF a = P THEN V ELSE P

Stages == {"none", "own keys", "all keys", "scripts"}
TemplateSets == [stage : Stages, sigs : SUBSET AgentRoles]
NoTemplates == [stage |-> "none", sigs |-> {}]
Complete(t) == t.stage = "scripts" /\ t.sigs = AgentRoles

SetupStatus == {"none", "PENDING", "UNSIGNED", "SIGNED", "MERGED", "VERIFIED",
                "ACTIVE"}
SetupState == {"none", "HELLO", "TRANSACTIONS", "SIGNATURES", "DONE"}
MessageType == {"start", "join", "transactions", "signatures", "done"}
Messages == [to : AgentRoles, type : MessageType, signed : BOOLEAN,
             copy : BOOLEAN]
ProgramCounters ==
    {"create", "init", "upsert", "generate", "save", "mark", "poll", "fetch",
     "assign", "send", "merge", "update", "markMerged", "pollVerified",
     "verifySetup", "markActive", "sendDone", "finish", "stake", "payload"}
Handlers == [msg : Messages, pc : ProgramCounters, held : TemplateSets]

VARIABLES
    status,         \* status[a]: the status column of the setup in a's database
    rows,           \* rows[a]: the templates in a's database
    watched,        \* watched[a]: is last_checked_block_height set?
    state,          \* state[a]: state of a's SetupInstance, "none" without one
    joined,         \* does the prover's instance have a verifier?
    templates,      \* templates[a]: i.templates of a's SetupInstance
    running,        \* running[a]: the handlers of a that have not ended
    channel,        \* messages posted and not yet handed to their receiver
    external,       \* the external transactions the prover has broadcast
    faults,         \* number of crashes, losses and repeated deliveries so far
    calm            \* TRUE: no message arrives while a handler of its receiver runs

dbVars == <<status, rows, watched>>
instVars == <<state, joined, templates>>
vars == <<dbVars, instVars, running, channel, external, faults, calm>>

\* Type correctness: above all that the setups of the two databases and the
\* instances of the two agents only take the values agent.ts and types.ts know.
TypeOK ==
    /\ status \in [AgentRoles -> SetupStatus]
    /\ rows \in [AgentRoles -> TemplateSets]
    /\ watched \in [AgentRoles -> BOOLEAN]
    /\ state \in [AgentRoles -> SetupState]
    /\ joined \in BOOLEAN
    /\ templates \in [AgentRoles -> TemplateSets]
    /\ running \in [AgentRoles -> SUBSET Handlers]
    /\ channel \subseteq Messages
    /\ external \subseteq {"stake", "payload"}
    /\ faults \in [crash : 0..MaxCrashes, loss : 0..MaxLosses,
                   repeat : 0..MaxRepeats]
    /\ calm \in BOOLEAN

\* startSetup ran in a process of its own: createSetup, updateSetup, START.
Init ==
    /\ status = [a \in AgentRoles |-> IF a = P THEN "PENDING" ELSE "none"]
    /\ rows = [a \in AgentRoles |-> NoTemplates]
    /\ watched = [a \in AgentRoles |-> FALSE]
    /\ state = [a \in AgentRoles |-> "none"]
    /\ joined = FALSE
    /\ templates = [a \in AgentRoles |-> NoTemplates]
    /\ running = [a \in AgentRoles |-> {}]
    /\ channel = {[to |-> V, type |-> "start", signed |-> FALSE, copy |-> FALSE]}
    /\ external = {}
    /\ faults = [crash |-> 0, loss |-> 0, repeat |-> 0]
    /\ calm \in Calm

-----------------------------------------------------------------------------
(* Sending, receiving, and the steps of a handler.                         *)

Message(to, type, signed) ==
    [to |-> to, type |-> type, signed |-> signed, copy |-> FALSE]

\* signMessageAndSend
Post(m) == channel' = channel \cup {m}

Go(a, h, pc, held) ==
    running' = [running EXCEPT ![a] =
                   (@ \ {h}) \cup {[h EXCEPT !.pc = pc, !.held = held]}]
Continue(a, h, pc) == Go(a, h, pc, h.held)
End(a, h) == running' = [running EXCEPT ![a] = @ \ {h}]

\* Mutant: on_signatures without its state guard.
AcceptsAnySignatures(a, m) ==
    CASE m.type = "start" -> state[a] = "none"
      [] m.type = "join" -> ~joined
      [] m.type = "transactions" -> state[a] = "TRANSACTIONS"
      [] m.type = "signatures" -> state[a] # "none"
      [] m.type = "done" -> state[a] = "DONE" /\ a = V

\* The guard with which each handler starts, evaluated before its first await.
Accepts(a, m) ==
    CASE m.type = "start" -> state[a] = "none"
      [] m.type = "join" -> ~joined
      [] m.type = "transactions" -> state[a] = "TRANSACTIONS"
      [] m.type = "signatures" -> state[a] = "SIGNATURES"
      [] m.type = "done" -> state[a] = "DONE" /\ a = V

Begin(a, m, pc, held) ==
    running' = [running EXCEPT ![a] =
                   @ \cup {[msg |-> m, pc |-> pc, held |-> held]}]

\* Each update of the negotiation answers the one before it, and telegraf asks
\* for updates after the last one it has: fetching m confirms the earlier ones,
\* which are not delivered again.
Rank(type) ==
    CASE type \in {"start", "join"} -> 0
      [] type = "transactions" -> 1
      [] type = "signatures" -> 2
      [] type = "done" -> 3
Unfetched(a, m) ==
    {x \in channel \ {m} : x.to = a => Rank(x.type) >= Rank(m.type)}

Fetch(a, m) ==
    /\ m \in channel /\ m.to = a
    /\ calm => running[a] = {}

Received(a, m) == Fetch(a, m) /\ channel' = Unfetched(a, m)

\* A handler that throws 'Invalid state', 'Invalid instance' and the like, and
\* the prover's on_done, which does nothing.
Ignore(a, m) ==
    /\ Received(a, m)
    /\ ~Accepts(a, m)
    /\ UNCHANGED <<dbVars, instVars, running, external, faults, calm>>

-----------------------------------------------------------------------------
(* START at the verifier, JOIN at the prover.                              *)

OnStart(a, m) ==
    /\ m.type = "start" /\ Accepts(a, m)
    /\ Received(a, m)
    /\ Begin(a, m, "create", NoTemplates)
    /\ UNCHANGED <<dbVars, instVars, external, faults, calm>>

\* createSetup fails on the primary key when the row exists; updateSetup.
CreateSetup(a, h) ==
    /\ h.pc = "create"
    /\ IF status[a] = "none"
       THEN /\ status' = [status EXCEPT ![a] = "PENDING"]
            /\ Continue(a, h, "init")
       ELSE UNCHANGED status /\ End(a, h)
    /\ UNCHANGED <<rows, watched, instVars, channel, external, faults, calm>>

\* The rest of on_start: the instance, initializeTemplates, JOIN.
InitializeInstance(a, h) ==
    /\ h.pc = "init" /\ h.msg.type = "start"
    /\ state' = [state EXCEPT ![a] = "TRANSACTIONS"]
    /\ templates' = [templates EXCEPT ![a] = [stage |-> "own keys", sigs |-> {}]]
    /\ Post(Message(P, "join", FALSE))
    /\ End(a, h)
    /\ UNCHANGED <<dbVars, joined, external, faults, calm>>

\* getSetup finds the row startSetup made.  The instance is made on the way
\* when this process has none; a second verifier is refused.
OnJoin(a, m) ==
    /\ m.type = "join" /\ Accepts(a, m)
    /\ Fetch(a, m)
    /\ joined' = TRUE
    /\ state' = [state EXCEPT ![a] = "TRANSACTIONS"]
    /\ templates' = [templates EXCEPT ![a] = [stage |-> "own keys", sigs |-> {}]]
    /\ channel' = Unfetched(a, m) \cup {Message(V, "transactions", FALSE)}
    /\ UNCHANGED <<dbVars, running, external, faults, calm>>

-----------------------------------------------------------------------------
(* TRANSACTIONS at either side.                                            *)

\* Mutant: the verifier does not answer with its own keys.
OnTransactionsSilent(a, m) ==
    /\ m.type = "transactions" /\ Accepts(a, m)
    /\ Received(a, m)
    /\ state' = [state EXCEPT ![a] = "SIGNATURES"]
    /\ templates' = [templates EXCEPT ![a].stage = "all keys"]
    /\ Begin(a, m, "upsert", templates'[a])
    /\ UNCHANGED <<dbVars, joined, external, faults, calm>>

\* mergeWots and the change of state come before the first await.
OnTransactions(a, m) ==
    /\ m.type = "transactions" /\ Accepts(a, m)
    /\ Fetch(a, m)
    /\ state' = [state EXCEPT ![a] = "SIGNATURES"]
    /\ templates' = [templates EXCEPT ![a].stage = "all keys"]
    /\ channel' = Unfetched(a, m) \cup
                     (IF a = V THEN {Message(P, "transactions", FALSE)} ELSE {})
    /\ Begin(a, m, "upsert", templates'[a])
    /\ UNCHANGED <<dbVars, joined, external, faults, calm>>

\* db.upsertTemplates of the templates as they were at the call.
UpsertTemplates(a, h, pc) ==
    /\ rows' = [rows EXCEPT ![a] = h.held]
    /\ Go(a, h, pc, NoTemplates)
    /\ UNCHANGED <<status, watched, instVars, channel, external, faults, calm>>

\* generateAllScripts and addAmounts.  Nothing assigns i.templates meanwhile:
\* the other handler that does needs the scripts to be signed first.
GenerateScripts(a, h) ==
    /\ h.pc = "generate"
    /\ templates' = [templates EXCEPT ![a].stage = "scripts"]
    /\ Go(a, h, "save", templates'[a])
    /\ UNCHANGED <<dbVars, state, joined, channel, external, faults, calm>>

\* signTemplates: markSetupUnsigned, a poll for SIGNED, getTemplates, and
\* verifyTemplates, which misses the signature of a template overwritten since.
MarkSetupUnsigned(a, h) ==
    /\ h.pc = "mark"
    /\ status' = [status EXCEPT ![a] = "UNSIGNED"]
    /\ Continue(a, h, "poll")
    /\ UNCHANGED <<rows, watched, instVars, channel, external, faults, calm>>

PollSigned(a, h) ==
    /\ h.pc = "poll"
    /\ status[a] = "SIGNED"
    /\ Continue(a, h, "fetch")
    /\ UNCHANGED <<dbVars, instVars, channel, external, faults, calm>>

FetchTemplates(a, h) ==
    /\ h.pc = "fetch"
    /\ IF a \in rows[a].sigs
       THEN Go(a, h, IF h.msg.type = "signatures" THEN "merge" ELSE "assign",
               rows[a])
       ELSE End(a, h)
    /\ UNCHANGED <<dbVars, instVars, channel, external, faults, calm>>

AssignTemplates(a, h) ==
    /\ h.pc = "assign"
    /\ templates' = [templates EXCEPT ![a] = h.held]
    /\ IF a = P THEN Continue(a, h, "send") ELSE End(a, h)
    /\ UNCHANGED <<dbVars, state, joined, channel, external, faults, calm>>

\* Mutant: only the prover's listener is told where to start.
SendSignaturesUnwatched(a, h) ==
    /\ h.pc = "send"
    /\ watched' = [watched EXCEPT ![P] = TRUE]
    /\ Post(Message(Other(a), "signatures", a \in templates[a].sigs))
    /\ IF a = P THEN End(a, h) ELSE Continue(a, h, "finish")
    /\ UNCHANGED <<status, rows, instVars, external, faults, calm>>

\* sendSignatures: also sets the block from which the listener will look.
SendSignatures(a, h) ==
    /\ h.pc = "send"
    /\ watched' = [watched EXCEPT ![a] = TRUE]
    /\ Post(Message(Other(a), "signatures", a \in templates[a].sigs))
    /\ IF a = P THEN End(a, h) ELSE Continue(a, h, "finish")
    /\ UNCHANGED <<status, rows, instVars, external, faults, calm>>

-----------------------------------------------------------------------------
(* SIGNATURES at either side.                                              *)

OnSignatures(a, m) ==
    /\ m.type = "signatures" /\ Accepts(a, m)
    /\ Received(a, m)
    /\ Begin(a, m, "upsert", templates[a])
    /\ UNCHANGED <<dbVars, instVars, external, faults, calm>>

\* Mutant: the signatures are merged into a copy of the templates.
MergeSignaturesIntoCopy(a, h) ==
    /\ h.pc = "merge"
    /\ templates' = [templates EXCEPT ![a] = h.held]
    /\ Go(a, h, "update", [h.held EXCEPT !.sigs =
                              @ \cup (IF h.msg.signed THEN {Other(a)} ELSE {})])
    /\ UNCHANGED <<dbVars, state, joined, channel, external, faults, calm>>

\* The signatures of the message are copied into the templates just read;
\* missing ones are only logged.  updateTemplates is called with the result.
MergeSignatures(a, h) ==
    LET merged == [h.held EXCEPT !.sigs =
                      @ \cup (IF h.msg.signed THEN {Other(a)} ELSE {})]
    IN  /\ h.pc = "merge"
        /\ templates' = [templates EXCEPT ![a] = merged]
        /\ Go(a, h, "update", merged)
        /\ UNCHANGED <<dbVars, state, joined, channel, external, faults, calm>>

\* verifySignatures
MarkSetupMerged(a, h) ==
    /\ h.pc = "markMerged"
    /\ status' = [status EXCEPT ![a] = "MERGED"]
    /\ Continue(a, h, "pollVerified")
    /\ UNCHANGED <<rows, watched, instVars, channel, external, faults, calm>>

PollVerified(a, h) ==
    /\ h.pc = "pollVerified"
    /\ status[a] = "VERIFIED"
    /\ Continue(a, h, IF a = P THEN "verifySetup" ELSE "send")
    /\ UNCHANGED <<dbVars, instVars, channel, external, faults, calm>>

\* Mutant: the prover goes on without marking the setup ACTIVE.
VerifySetupNoMark(a, h) ==
    /\ h.pc = "verifySetup"
    /\ IF Complete(rows[a])
       THEN IF h.msg.type = "done" THEN Go(a, h, "save", templates[a])
                                   ELSE Continue(a, h, "sendDone")
       ELSE End(a, h)
    /\ UNCHANGED <<dbVars, instVars, channel, external, faults, calm>>

\* verifySetup reads the templates from the database and throws when a
\* signature is missing.  In on_done it is followed by upsertTemplates.
VerifySetup(a, h) ==
    /\ h.pc = "verifySetup"
    /\ IF Complete(rows[a])
       THEN IF h.msg.type = "done" THEN Go(a, h, "save", templates[a])
                                   ELSE Continue(a, h, "markActive")
       ELSE End(a, h)
    /\ UNCHANGED <<dbVars, instVars, channel, external, faults, calm>>

MarkSetupPegoutActive(a, h) ==
    /\ h.pc = "markActive"
    /\ status' = [status EXCEPT ![a] = "ACTIVE"]
    /\ Continue(a, h, "sendDone")
    /\ UNCHANGED <<rows, watched, instVars, channel, external, faults, calm>>

SendDone(a, h) ==
    /\ h.pc = "sendDone"
    /\ Post(Message(Other(a), "done", FALSE))
    /\ IF a = P THEN Continue(a, h, "finish") ELSE End(a, h)
    /\ UNCHANGED <<dbVars, instVars, external, faults, calm>>

\* Mutant: the status of the setup is written where its state belongs.
FinishActive(a, h) ==
    /\ h.pc = "finish"
    /\ state' = [state EXCEPT ![a] = "ACTIVE"]
    /\ IF a = P THEN Continue(a, h, "stake") ELSE End(a, h)
    /\ UNCHANGED <<dbVars, joined, templates, channel, external, faults, calm>>

\* The state of the instance changes only after the message has been sent.
Finish(a, h) ==
    /\ h.pc = "finish"
    /\ state' = [state EXCEPT ![a] = "DONE"]
    /\ IF a = P THEN Continue(a, h, "stake") ELSE End(a, h)
    /\ UNCHANGED <<dbVars, joined, templates, channel, external, faults, calm>>

\* sendExternalTransactions: the stake, then the payload.  The node refuses a
\* transaction it already has, which ends the handler.
SendExternal(a, h) ==
    /\ h.pc \in {"stake", "payload"}
    /\ external' = external \cup {h.pc}
    /\ IF h.pc = "stake" /\ h.pc \notin external
       THEN Continue(a, h, "payload") ELSE End(a, h)
    /\ UNCHANGED <<dbVars, instVars, channel, faults, calm>>

-----------------------------------------------------------------------------
(* DONE at the verifier.                                                   *)

OnDone(a, m) ==
    /\ m.type = "done" /\ Accepts(a, m)
    /\ Received(a, m)
    /\ Begin(a, m, "verifySetup", NoTemplates)
    /\ UNCHANGED <<dbVars, instVars, external, faults, calm>>

-----------------------------------------------------------------------------
(* The signer process of each agent (db_listener.py --sign), restarted by  *)
(* bitcoin-writer.sh whenever an exception ends it.                        *)

\* sign_setups.  Templates without scripts, amounts and taproot keys raise a
\* KeyError: the transaction is rolled back and the process starts again.
SignSetups(a) ==
    /\ status[a] = "UNSIGNED"
    /\ rows[a].stage = "scripts"
    /\ rows' = [rows EXCEPT ![a].sigs = @ \cup {a}]
    /\ status' = [status EXCEPT ![a] = "SIGNED"]
    /\ UNCHANGED <<watched, instVars, running, channel, external, faults, calm>>

\* verify_setups.  A missing signature raises a ValueError, with the same end.
VerifySetups(a) ==
    /\ status[a] = "MERGED"
    /\ Complete(rows[a])
    /\ status' = [status EXCEPT ![a] = "VERIFIED"]
    /\ UNCHANGED <<rows, watched, instVars, running, channel, external, faults, calm>>

-----------------------------------------------------------------------------
(* Faults.                                                                 *)

\* An agent process is restarted: its instances and handlers are gone.
Crash(a) ==
    /\ faults.crash < MaxCrashes
    /\ faults' = [faults EXCEPT !.crash = @ + 1]
    /\ state' = [state EXCEPT ![a] = "none"]
    /\ joined' = (joined /\ a # P)
    /\ templates' = [templates EXCEPT ![a] = NoTemplates]
    /\ running' = [running EXCEPT ![a] = {}]
    /\ UNCHANGED <<dbVars, channel, external, calm>>

\* A long message is posted as a document; an error fetching it is logged.
LoseDocument(m) ==
    /\ faults.loss < MaxLosses
    /\ m.type \in {"transactions", "signatures"}
    /\ faults' = [faults EXCEPT !.loss = @ + 1]
    /\ channel' = channel \ {m}
    /\ UNCHANGED <<dbVars, instVars, running, external, calm>>

\* Telegram delivers again an update that was not confirmed.
RepeatMessage(m) ==
    /\ faults.repeat < MaxRepeats
    /\ faults' = [faults EXCEPT !.repeat = @ + 1]
    /\ channel' = channel \cup {[m EXCEPT !.copy = TRUE]}
    /\ UNCHANGED <<dbVars, instVars, running, external, calm>>

-----------------------------------------------------------------------------
Deliver(a, m) ==
    \/ OnStart(a, m)
    \/ OnJoin(a, m)
    \/ OnTransactions(a, m)
    \/ OnSignatures(a, m)
    \/ OnDone(a, m)
    \/ Ignore(a, m)

\* The steps of on_transactions, on_signatures and on_done that only write the
\* templates the handler holds.
WriteTemplates(a, h) ==
    \/ h.pc = "upsert" /\ h.msg.type = "transactions" /\ UpsertTemplates(a, h, "generate")
    \/ h.pc = "upsert" /\ h.msg.type = "signatures" /\ UpsertTemplates(a, h, "mark")
    \/ h.pc = "save" /\ h.msg.type = "transactions" /\ UpsertTemplates(a, h, "mark")
    \/ h.pc = "save" /\ h.msg.type = "done" /\ UpsertTemplates(a, h, "markActive")
    \/ h.pc = "update" /\ UpsertTemplates(a, h, "markMerged")

HandlerStep(a, h) ==
    \/ CreateSetup(a, h)
    \/ InitializeInstance(a, h)
    \/ WriteTemplates(a, h)
    \/ GenerateScripts(a, h)
    \/ MarkSetupUnsigned(a, h)
    \/ PollSigned(a, h)
    \/ FetchTemplates(a, h)
    \/ AssignTemplates(a, h)
    \/ SendSignatures(a, h)
    \/ MergeSignatures(a, h)
    \/ MarkSetupMerged(a, h)
    \/ PollVerified(a, h)
    \/ VerifySetup(a, h)
    \/ MarkSetupPegoutActive(a, h)
    \/ SendDone(a, h)
    \/ Finish(a, h)
    \/ SendExternal(a, h)

AgentStep(a) ==
    \/ \E m \in channel : Deliver(a, m)
    \/ \E h \in running[a] : HandlerStep(a, h)

SignerStep(a) == SignSetups(a) \/ VerifySetups(a)

Fault ==
    \/ \E a \in AgentRoles : Crash(a)
    \/ \E m \in channel : LoseDocument(m) \/ RepeatMessage(m)

Next == (\E a \in AgentRoles : AgentStep(a) \/ SignerStep(a)) \/ Fault

\* Both processes of an agent keep running: the agent answers its queries and
\* messages, the signer looks at the database in a loop.
Fairness == \A a \in AgentRoles : WF_vars(AgentStep(a)) /\ WF_vars(SignerStep(a))

Spec == Init /\ [][Next]_vars /\ Fairness

-----------------------------------------------------------------------------
(* Properties.                                                             *)

\* What verifySetup promises of an ACTIVE setup ("Check that all inputs have
\* signatures..."): the database from which the protocol will be played holds
\* scripts and both parties' signatures.
ActiveComplete ==
    \A a \in AgentRoles : status[a] = "ACTIVE" => Complete(rows[a])

\* Crashes, lost documents and repeated messages never make a setup ACTIVE
\* with a signature missing, as long as handlers do not overlap: on_done
\* writes i.templates over the rows that verifySetup has just checked.
OrderlyActiveComplete == calm => ActiveComplete

\* No funds are locked, and the verifier does not start to play, before both
\* databases hold both parties' signatures and the prover is ACTIVE: the money
\* could be recovered by neither side otherwise (agent.ts, on_signatures).
FundsLockedLast ==
    calm /\ (external # {} \/ status[V] = "ACTIVE") =>
        status[P] = "ACTIVE" /\ \A a \in AgentRoles : Complete(rows[a])

\* Whatever overlaps, is lost, repeated or restarted: when the external
\* transactions are broadcast both listeners know a block before them from
\* which to look for them (updateSetupLastCheckedBlockHeight, sendSignatures).
WatchedBeforeFunds == external # {} => \A a \in AgentRoles : watched[a]

\* A setup that is ACTIVE is not taken back to signing by a late or repeated
\* message of the negotiation (the state guards of the handlers).
ActiveStays ==
    [][\A a \in AgentRoles :
          calm /\ status[a] = "ACTIVE" => status'[a] = "ACTIVE"]_vars

NoFaults == faults = [crash |-> 0, loss |-> 0, repeat |-> 0]

\* Without faults and overlap the negotiation ends with both setups ACTIVE and
\* both external transactions broadcast: no handler waits for a status that
\* has passed, no state guard refuses a message of the normal course.
NegotiationCompletes ==
    calm /\ []NoFaults =>
        <>(/\ \A a \in AgentRoles : status[a] = "ACTIVE"
           /\ external = {"stake", "payload"})

=============================================================================
