----------------------------- MODULE SetupProofs -----------------------------
(***************************************************************************)
(* What the negotiation of a setup promises, for any number of crashes,    *)
(* lost documents and repeated messages.  As long as handlers do not       *)
(* overlap (calm) the two agents go through it in one order: the prover is *)
(* ACTIVE only after the verifier has sent its signatures, when the rows   *)
(* of the verifier are complete and its agent can no longer touch them.    *)
(***************************************************************************)
EXTENDS SetupNegotiation, TLAPS

\* The steps a handler of a for a message of this type goes through.
Course(a, type) ==
    CASE type = "start" -> {"create", "init"}
      [] type = "transactions" ->
            {"upsert", "generate", "save", "mark", "poll", "fetch", "assign"}
                \cup (IF a = P THEN {"send"} ELSE {})
      [] type = "signatures" ->
            {"upsert", "mark", "poll", "fetch", "merge", "update", "markMerged", "pollVerified"}
                \cup (IF a = P THEN {"verifySetup", "markActive", "sendDone", "finish", "stake", "payload"}
                               ELSE {"send", "finish"})
      [] type = "done" -> {"verifySetup", "save", "markActive", "sendDone"}
      [] OTHER -> {}

\* JOIN is for the prover, START and what follows DONE for the verifier.
Addressed(m) == (m.type = "start" => m.to = V) /\ (m.type = "join" => m.to = P)

OnCourse(a, h) ==
    /\ h.msg.to = a /\ Addressed(h.msg) /\ (h.msg.type = "done" => a = V)
    /\ h.pc \in Course(a, h.msg.type)

CourseInv ==
    /\ \A m \in channel : Addressed(m)
    /\ \A a \in AgentRoles : \A h \in running[a] : OnCourse(a, h)

\* Signatures are sent after the sender's listener knows where to look, those
\* of the verifier after the prover's listener does, too.
Backed(m) == m.type = "signatures" => watched[Other(m.to)] /\ (m.to = P => watched[P])

WatchInv ==
    /\ \A m \in channel : Backed(m)
    /\ \A a \in AgentRoles : \A h \in running[a] : Backed(h.msg)
    /\ WatchedBeforeFunds

-----------------------------------------------------------------------------
(* Without overlap.                                                        *)

Negotiating == {"PENDING", "UNSIGNED", "SIGNED"}
Settled == {"VERIFIED", "ACTIVE"}

\* The status of the setup while a handler of a is at this step.
StatusAt(a, type, pc) ==
    CASE pc = "create" -> SetupStatus
      [] pc = "init" -> {"PENDING"}
      [] pc \in {"upsert", "generate", "mark"} -> Negotiating
      [] pc = "save" -> IF type = "done" THEN Settled ELSE Negotiating
      [] pc = "poll" -> {"UNSIGNED", "SIGNED"}
      [] pc \in {"fetch", "assign", "merge", "update", "markMerged"} -> {"SIGNED"}
      [] pc = "pollVerified" -> {"MERGED", "VERIFIED"}
      [] pc = "send" -> IF a = P THEN {"SIGNED"} ELSE {"VERIFIED"}
      [] pc \in {"verifySetup", "markActive"} -> IF a = P THEN {"VERIFIED"} ELSE Settled
      [] pc = "finish" -> IF a = P THEN {"ACTIVE"} ELSE {"VERIFIED"}
      [] OTHER -> {"ACTIVE"}

\* What the handler holds is what the instance or the database has.
InStep(a, type, pc, held) ==
    /\ status[a] \in StatusAt(a, type, pc)
    /\ pc \in {"create", "init"} => state[a] = "none"
    /\ pc \in {"stake", "payload"} => state[a] = "DONE"
    /\ pc = "update" => held = templates[a]
    /\ pc \in {"markMerged", "pollVerified"} => rows[a] = templates[a]
    /\ pc \in {"send", "finish"} /\ a = V => rows[a] = templates[a]
    /\ pc = "save" /\ type = "done" => Complete(held)

HandlersInStep(a) == \A h, k \in running[a] : h = k /\ InStep(a, h.msg.type, h.pc, h.held)

\* verify_setups has seen every signature, and nothing overwrites them.
SettledComplete(a) == status[a] \in Settled => Complete(rows[a])

\* An agent that waits for keys or signatures has not got beyond its own.
WaitingNegotiates(a) ==
    state[a] \in {"TRANSACTIONS", "SIGNATURES"} /\ running[a] = {} => status[a] \in Negotiating

\* A verifier that is DONE only handles DONE, with complete templates at hand.
DoneComplete(a) ==
    /\ \A h \in running[a] : h.msg.type = "done" => state[a] = "DONE"
    /\ state[a] = "DONE" /\ a = V =>
          Complete(templates[a]) /\ \A h \in running[a] : h.msg.type = "done"

InOrder(a) == HandlersInStep(a) /\ SettledComplete(a) /\ WaitingNegotiates(a) /\ DoneComplete(a)

\* Before the verifier's instance exists the prover has nothing to answer.
FreshStart ==
    status[V] = "none" \/ (\E h \in running[V] : h.pc = "init") =>
        /\ state[P] = "none" /\ running[P] = {} /\ status[P] = "PENDING"
        /\ state[V] = "none"
        /\ \A m \in channel : m.type = "start"

\* A JOIN still to come finds a prover that has not got the verifier's keys.
JoinEarly ==
    (\E m \in channel : m.type = "join") \/ state[P] = "TRANSACTIONS" =>
        status[P] = "PENDING" /\ running[P] = {} /\ state[P] \in {"none", "TRANSACTIONS"}

\* The verifier has sent its signatures: no handler of its agent will ask its
\* signer for new ones.
VerifierSettled ==
    /\ status[V] \in Settled
    /\ \A h \in running[V] : h.msg.type = "done" \/ h.pc \in {"create", "finish"}
    /\ state[V] \in {"none", "DONE"} \/ \E h \in running[V] : h.pc = "finish"

SettledFirst ==
    \/ \E m \in channel : m.type = "signatures" /\ m.to = P
    \/ \E h \in running[P] : h.msg.type = "signatures"
    \/ status[P] = "ACTIVE"
    => VerifierSettled

ProverActiveFirst ==
    \/ \E m \in channel : m.type = "done" /\ m.to = V
    \/ \E h \in running[V] : h.msg.type = "done"
    \/ status[V] = "ACTIVE"
    \/ external # {}
    => status[P] = "ACTIVE"

\* Without overlap: what each agent does is in order, and so is what the two
\* agents know of each other.
OrderInv ==
    /\ \A a \in AgentRoles : InOrder(a)
    /\ FreshStart /\ JoinEarly /\ SettledFirst /\ ProverActiveFirst

-----------------------------------------------------------------------------

\* A handler leaves itself behind, at its next step, or nothing.
Replaced(a, h, N) ==
    /\ running' = [running EXCEPT ![a] = (running[a] \ {h}) \cup N]
    /\ \/ N = {}
       \/ \E k \in Handlers : k.msg = h.msg /\ N = {k}

\* The handler goes on, with another step and other templates at hand.
Goes(a, h, pc, held) ==
    \E k : /\ k.msg = h.msg /\ k.pc = pc /\ k.held = held
           /\ pc \in ProgramCounters /\ held \in TemplateSets => k \in Handlers
           /\ running' = [running EXCEPT ![a] = (running[a] \ {h}) \cup {k}]

(***************************************************************************)
(* Go, Continue and End in terms of the handler's message, step and        *)
(* templates.                                                              *)
(***************************************************************************)
LEMMA GoEffect ==
    ASSUME TypeOK, NEW a \in AgentRoles, NEW h \in running[a]
    PROVE  /\ \A pc, held : Go(a, h, pc, held) => Goes(a, h, pc, held)
           /\ \A pc : Continue(a, h, pc) => Goes(a, h, pc, h.held)
           /\ End(a, h) => running' = [running EXCEPT ![a] = running[a] \ {h}]
<1>1. ASSUME NEW pc, NEW held, Go(a, h, pc, held) PROVE Goes(a, h, pc, held)
  <2> DEFINE k == [h EXCEPT !.pc = pc, !.held = held]
  <2>1. h \in Handlers
    BY DEF TypeOK
  <2>2. pc \in ProgramCounters /\ held \in TemplateSets => k \in Handlers
    BY <2>1 DEF Handlers
  <2>3. k.msg = h.msg /\ k.pc = pc /\ k.held = held
    BY <2>1 DEF Handlers
  <2>4. running' = [running EXCEPT ![a] = (running[a] \ {h}) \cup {k}]
    BY <1>1 DEF Go, TypeOK
  <2> HIDE DEF k
  <2> QED
    BY <2>2, <2>3, <2>4 DEF Goes
<1>2. End(a, h) => running' = [running EXCEPT ![a] = running[a] \ {h}]
  BY DEF End, TypeOK
<1> QED
  BY <1>1, <1>2 DEF Continue

-----------------------------------------------------------------------------

(***************************************************************************)
(* Posting a message keeps the channel's type.                             *)
(***************************************************************************)
LEMMA Posted ==
    ASSUME TypeOK, NEW to \in AgentRoles, NEW type \in MessageType, NEW signed \in BOOLEAN,
           Post(Message(to, type, signed))
    PROVE  channel' \subseteq Messages
<1>1. Message(to, type, signed) \in Messages
  BY DEF Message, Messages
<1> QED
  BY <1>1 DEF Post, TypeOK

(***************************************************************************)
(* A handler's step keeps the types, and replaces the handler by itself at *)
(* a later step or by nothing.                                             *)
(***************************************************************************)
LEMMA HandlerType ==
    ASSUME TypeOK, NEW a \in AgentRoles, NEW h \in running[a], HandlerStep(a, h)
    PROVE  TypeOK' /\ \E N \in SUBSET Handlers : Replaced(a, h, N)
<1> DEFINE Kept == \E N \in SUBSET Handlers : Replaced(a, h, N)
<1>1. ASSUME NEW pc \in ProgramCounters, NEW held \in TemplateSets, Go(a, h, pc, held) PROVE Kept
  <2>1. PICK k \in Handlers : k.msg = h.msg /\ running' = [running EXCEPT ![a] = (running[a] \ {h}) \cup {k}]
    <3>1. Goes(a, h, pc, held)
      BY <1>1, GoEffect
    <3> QED
      BY <1>1, <3>1 DEF Goes
  <2>2. {k} \in SUBSET Handlers /\ Replaced(a, h, {k})
    BY <2>1 DEF Replaced
  <2> QED
    BY <2>2
<1>2. ASSUME NEW pc \in ProgramCounters, Continue(a, h, pc) PROVE Kept
  <2>1. PICK k \in Handlers : k.msg = h.msg /\ running' = [running EXCEPT ![a] = (running[a] \ {h}) \cup {k}]
    <3>1. h.held \in TemplateSets
      BY DEF TypeOK, Handlers
    <3>2. Goes(a, h, pc, h.held)
      BY <1>2, GoEffect
    <3> QED
      BY <1>2, <3>1, <3>2 DEF Goes
  <2>2. {k} \in SUBSET Handlers /\ Replaced(a, h, {k})
    BY <2>1 DEF Replaced
  <2> QED
    BY <2>2
<1>3. ASSUME End(a, h) PROVE Kept
  BY <1>3 DEF Replaced, End, TypeOK
<1>4. Kept => running' \in [AgentRoles -> SUBSET Handlers]
  BY DEF Replaced, TypeOK
<1>5. h.msg \in Messages /\ h.held \in TemplateSets /\ h.pc \in ProgramCounters
  BY DEF TypeOK, Handlers
<1> USE DEF ProgramCounters
<1> HIDE DEF Kept
<1>6. CASE CreateSetup(a, h)
  <2>1. Kept
    BY <1>6, <1>2, <1>3 DEF CreateSetup
  <2> QED
    BY <1>4, <1>6, <2>1 DEF CreateSetup, TypeOK, instVars, SetupStatus, Kept
<1>7. CASE InitializeInstance(a, h)
  <2>1. Kept
    BY <1>7, <1>3 DEF InitializeInstance
  <2>2. channel' \subseteq Messages
    BY <1>7, Posted DEF InitializeInstance, AgentRoles, MessageType
  <2> QED
    BY <1>4, <1>7, <2>1, <2>2 DEF InitializeInstance, TypeOK, dbVars, SetupState, TemplateSets, Stages, Kept
<1>8. CASE WriteTemplates(a, h)
  <2>1. PICK pc \in ProgramCounters : UpsertTemplates(a, h, pc)
    BY <1>8 DEF WriteTemplates
  <2>2. Kept
    BY <1>1, <2>1 DEF UpsertTemplates, NoTemplates, TemplateSets, Stages
  <2> QED
    BY <1>4, <1>5, <2>1, <2>2 DEF UpsertTemplates, TypeOK, instVars, Kept
<1>9. CASE GenerateScripts(a, h)
  <2>1. templates' \in [AgentRoles -> TemplateSets] /\ templates'[a] \in TemplateSets
    BY <1>9 DEF GenerateScripts, TypeOK, TemplateSets, Stages
  <2>2. Kept
    BY <1>1, <1>9, <2>1 DEF GenerateScripts
  <2> QED
    BY <1>4, <1>9, <2>1, <2>2 DEF GenerateScripts, TypeOK, dbVars, Kept
<1>10. CASE MarkSetupUnsigned(a, h) \/ MarkSetupMerged(a, h) \/ MarkSetupPegoutActive(a, h)
  <2>1. Kept
    BY <1>2, <1>10 DEF MarkSetupUnsigned, MarkSetupMerged, MarkSetupPegoutActive
  <2> QED
    BY <1>4, <1>10, <2>1 DEF MarkSetupUnsigned, MarkSetupMerged, MarkSetupPegoutActive, TypeOK, instVars,
       SetupStatus, Kept
<1>11. CASE PollSigned(a, h) \/ PollVerified(a, h)
  <2>1. Kept
    BY <1>2, <1>11 DEF PollSigned, PollVerified
  <2> QED
    BY <1>4, <1>11, <2>1 DEF PollSigned, PollVerified, TypeOK, instVars, dbVars, Kept
<1>12. CASE FetchTemplates(a, h)
  <2>1. Kept
    BY <1>1, <1>3, <1>12 DEF FetchTemplates, TypeOK
  <2> QED
    BY <1>4, <1>12, <2>1 DEF FetchTemplates, TypeOK, instVars, dbVars, Kept
<1>13. CASE AssignTemplates(a, h)
  <2>1. Kept
    BY <1>2, <1>3, <1>13 DEF AssignTemplates
  <2> QED
    BY <1>4, <1>5, <1>13, <2>1 DEF AssignTemplates, TypeOK, dbVars, Kept
<1>14. CASE SendSignatures(a, h)
  <2>1. Kept
    BY <1>2, <1>3, <1>14 DEF SendSignatures
  <2>2. channel' \subseteq Messages
    <3> DEFINE signed == a \in templates[a].sigs
    <3>1. signed \in BOOLEAN /\ Post(Message(Other(a), "signatures", signed))
      BY <1>14 DEF SendSignatures
    <3> HIDE DEF signed
    <3> QED
      BY <3>1, Posted DEF AgentRoles, MessageType, Other
  <2> QED
    BY <1>4, <1>14, <2>1, <2>2 DEF SendSignatures, TypeOK, instVars, Kept
<1>15. CASE MergeSignatures(a, h)
  <2> DEFINE merged == [h.held EXCEPT !.sigs = @ \cup (IF h.msg.signed THEN {Other(a)} ELSE {})]
  <2>1. merged \in TemplateSets
    BY <1>5 DEF TemplateSets, AgentRoles, Other
  <2> HIDE DEF merged
  <2>2. Go(a, h, "update", merged) /\ templates' = [templates EXCEPT ![a] = merged]
        /\ UNCHANGED <<dbVars, state, joined, channel, external, faults, calm>>
    BY <1>15 DEF MergeSignatures, merged
  <2>3. Kept
    BY <1>1, <2>1, <2>2
  <2> QED
    BY <1>4, <2>1, <2>2, <2>3 DEF TypeOK, dbVars, Kept
<1>16. CASE VerifySetup(a, h)
  <2>1. Kept
    BY <1>1, <1>2, <1>3, <1>16 DEF VerifySetup, TypeOK
  <2> QED
    BY <1>4, <1>16, <2>1 DEF VerifySetup, TypeOK, instVars, dbVars, Kept
<1>17. CASE SendDone(a, h)
  <2>1. Kept
    BY <1>2, <1>3, <1>17 DEF SendDone
  <2>2. channel' \subseteq Messages
    BY <1>17, Posted DEF SendDone, AgentRoles, MessageType, Other
  <2> QED
    BY <1>4, <1>17, <2>1, <2>2 DEF SendDone, TypeOK, instVars, dbVars, Kept
<1>18. CASE Finish(a, h)
  <2>1. Kept
    BY <1>2, <1>3, <1>18 DEF Finish
  <2> QED
    BY <1>4, <1>18, <2>1 DEF Finish, TypeOK, dbVars, Kept, SetupState
<1>19. CASE SendExternal(a, h)
  <2>1. Kept
    BY <1>2, <1>3, <1>19 DEF SendExternal
  <2> QED
    BY <1>4, <1>19, <2>1 DEF SendExternal, TypeOK, dbVars, instVars, Kept
<1> QED
  BY <1>6, <1>7, <1>8, <1>9, <1>10, <1>11, <1>12, <1>13, <1>14, <1>15, <1>16, <1>17, <1>18, <1>19
     DEF HandlerStep, Kept

(***************************************************************************)
(* A message that is handed to a starts a handler, or none, and leaves the *)
(* channel with at most one new message.                                   *)
(***************************************************************************)
LEMMA BeginEffect ==
    ASSUME TypeOK, NEW a \in AgentRoles, NEW m \in Messages, NEW pc \in ProgramCounters, NEW held \in TemplateSets,
           Begin(a, m, pc, held)
    PROVE  \E k \in Handlers : /\ k.msg = m /\ k.pc = pc /\ k.held = held
                               /\ running' = [running EXCEPT ![a] = running[a] \cup {k}]
BY DEF Begin, Handlers, TypeOK

(***************************************************************************)
(* Delivering a message keeps the types.                                   *)
(***************************************************************************)
LEMMA DeliverType ==
    ASSUME TypeOK, NEW a \in AgentRoles, NEW m \in channel, Deliver(a, m)
    PROVE  TypeOK'
<1>1. m \in Messages /\ Unfetched(a, m) \subseteq Messages
  BY DEF TypeOK, Unfetched
<1>2. ASSUME NEW pc \in ProgramCounters, NEW held \in TemplateSets, Begin(a, m, pc, held)
      PROVE  running' \in [AgentRoles -> SUBSET Handlers]
  <2>1. PICK k \in Handlers : running' = [running EXCEPT ![a] = running[a] \cup {k}]
    BY <1>1, <1>2, BeginEffect
  <2> QED
    BY <2>1 DEF TypeOK
<1> USE DEF ProgramCounters
<1>3. CASE OnStart(a, m) \/ OnDone(a, m)
  <2>1. running' \in [AgentRoles -> SUBSET Handlers]
    BY <1>2, <1>3 DEF OnStart, OnDone, NoTemplates, TemplateSets, Stages
  <2> QED
    BY <1>1, <1>3, <2>1 DEF OnStart, OnDone, Received, TypeOK, dbVars, instVars
<1>4. CASE OnJoin(a, m)
  <2>1. Message(V, "transactions", FALSE) \in Messages
    BY DEF Message, Messages, AgentRoles, MessageType
  <2> QED
    BY <1>1, <1>4, <2>1 DEF OnJoin, TypeOK, dbVars, SetupState, TemplateSets, Stages
<1>5. CASE OnTransactions(a, m)
  <2>1. Message(P, "transactions", FALSE) \in Messages
    BY DEF Message, Messages, AgentRoles, MessageType
  <2>2. templates' \in [AgentRoles -> TemplateSets] /\ templates'[a] \in TemplateSets
    BY <1>5 DEF OnTransactions, TypeOK, TemplateSets, Stages
  <2>3. running' \in [AgentRoles -> SUBSET Handlers]
    BY <1>2, <1>5, <2>2 DEF OnTransactions
  <2> QED
    BY <1>1, <1>5, <2>1, <2>2, <2>3 DEF OnTransactions, TypeOK, dbVars, SetupState
<1>6. CASE OnSignatures(a, m)
  <2>1. running' \in [AgentRoles -> SUBSET Handlers]
    BY <1>2, <1>6 DEF OnSignatures, TypeOK
  <2> QED
    BY <1>1, <1>6, <2>1 DEF OnSignatures, Received, TypeOK, dbVars, instVars
<1>7. CASE Ignore(a, m)
  BY <1>1, <1>7 DEF Ignore, Received, TypeOK, dbVars, instVars
<1> QED
  BY <1>3, <1>4, <1>5, <1>6, <1>7 DEF Deliver

(***************************************************************************)
(* The signers and the faults keep the types.                              *)
(***************************************************************************)
LEMMA OtherType ==
    ASSUME TypeOK, (\E a \in AgentRoles : SignerStep(a)) \/ Fault
    PROVE  TypeOK'
<1>1. ASSUME NEW a \in AgentRoles, SignSetups(a) PROVE TypeOK'
  BY <1>1 DEF SignSetups, TypeOK, instVars, TemplateSets, SetupStatus
<1>2. ASSUME NEW a \in AgentRoles, VerifySetups(a) PROVE TypeOK'
  BY <1>2 DEF VerifySetups, TypeOK, instVars, SetupStatus
<1>3. ASSUME NEW a \in AgentRoles, Crash(a) PROVE TypeOK'
  <2>1. faults' \in [crash : 0..MaxCrashes, loss : 0..MaxLosses, repeat : 0..MaxRepeats]
    BY <1>3, SetupAssumption DEF Crash, TypeOK
  <2> QED
    BY <1>3, <2>1 DEF Crash, TypeOK, dbVars, SetupState, NoTemplates, TemplateSets, Stages
<1>4. ASSUME NEW m \in channel, LoseDocument(m) PROVE TypeOK'
  <2>1. faults' \in [crash : 0..MaxCrashes, loss : 0..MaxLosses, repeat : 0..MaxRepeats]
    BY <1>4, SetupAssumption DEF LoseDocument, TypeOK
  <2> QED
    BY <1>4, <2>1 DEF LoseDocument, TypeOK, dbVars, instVars
<1>5. ASSUME NEW m \in channel, RepeatMessage(m) PROVE TypeOK'
  <2>1. faults' \in [crash : 0..MaxCrashes, loss : 0..MaxLosses, repeat : 0..MaxRepeats]
    BY <1>5, SetupAssumption DEF RepeatMessage, TypeOK
  <2>2. [m EXCEPT !.copy = TRUE] \in Messages
    BY DEF TypeOK, Messages
  <2> QED
    BY <1>5, <2>1, <2>2 DEF RepeatMessage, TypeOK, dbVars, instVars
<1> QED
  BY <1>1, <1>2, <1>3, <1>4, <1>5 DEF SignerStep, Fault

(***************************************************************************)
(* Type correctness of the negotiation.                                    *)
(***************************************************************************)
THEOREM SetupTypeCorrect == Spec => []TypeOK
<1>1. Init => TypeOK
  <2> SUFFICES ASSUME Init PROVE TypeOK
    OBVIOUS
  <2>1. channel \subseteq Messages /\ running \in [AgentRoles -> SUBSET Handlers]
    BY DEF Init, Messages, AgentRoles, MessageType
  <2>2. faults \in [crash : 0..MaxCrashes, loss : 0..MaxLosses, repeat : 0..MaxRepeats] /\ calm \in BOOLEAN
    BY SetupAssumption DEF Init
  <2>3. rows \in [AgentRoles -> TemplateSets] /\ templates \in [AgentRoles -> TemplateSets]
    BY DEF Init, NoTemplates, TemplateSets, Stages
  <2> QED
    BY <2>1, <2>2, <2>3 DEF Init, TypeOK, SetupStatus, SetupState
<1>2. TypeOK /\ [Next]_vars => TypeOK'
  <2>1. ASSUME TypeOK, UNCHANGED vars PROVE TypeOK'
    BY <2>1 DEF TypeOK, vars, dbVars, instVars
  <2> QED
    BY <2>1, HandlerType, DeliverType, OtherType DEF Next, AgentStep
<1> QED
  BY <1>1, <1>2, PTL DEF Spec

-----------------------------------------------------------------------------

(***************************************************************************)
(* A handler stays on its course.                                          *)
(***************************************************************************)
LEMMA HandlerCourse ==
    ASSUME TypeOK, NEW a \in AgentRoles, NEW h \in running[a], OnCourse(a, h), HandlerStep(a, h)
    PROVE  /\ \A b \in AgentRoles : \A k \in running'[b] :
                  k \in running[b] \/ (b = a /\ k.msg = h.msg /\ k.pc \in Course(a, h.msg.type))
           /\ \A m \in channel' : m \in channel \/ Addressed(m)
<1> DEFINE Kept == \A b \in AgentRoles : \A k \in running'[b] :
                       k \in running[b] \/ (b = a /\ k.msg = h.msg /\ k.pc \in Course(a, h.msg.type))
           Channel == \A m \in channel' : m \in channel \/ Addressed(m)
<1>1. ASSUME NEW pc \in Course(a, h.msg.type), NEW held, Goes(a, h, pc, held) PROVE Kept
  <2>1. PICK k : k.msg = h.msg /\ k.pc = pc /\ running' = [running EXCEPT ![a] = (running[a] \ {h}) \cup {k}]
    BY <1>1 DEF Goes
  <2> QED
    BY <1>1, <2>1 DEF TypeOK
<1>2. ASSUME End(a, h) PROVE Kept
  BY <1>2, GoEffect DEF TypeOK
<1>3. ASSUME UNCHANGED channel PROVE Channel
  BY <1>3
<1>4. ASSUME NEW to, NEW type, NEW signed, Post(Message(to, type, signed)),
             type # "start", type = "join" => to = P
      PROVE  Channel
  BY <1>4 DEF Post, Message, Addressed
<1>5. \A pc, held : Go(a, h, pc, held) /\ pc \in Course(a, h.msg.type) => Kept
  BY <1>1, GoEffect
<1>6. \A pc : Continue(a, h, pc) /\ pc \in Course(a, h.msg.type) => Kept
  BY <1>1, GoEffect
<1>7. h.pc \in Course(a, h.msg.type) /\ a \in {P, V} /\ (h.msg.type = "start" => a = V)
      /\ (h.msg.type = "done" => a = V)
  BY DEF OnCourse, AgentRoles, Addressed
<1> SUFFICES Kept /\ Channel
  OBVIOUS
<1> HIDE DEF Kept, Channel
<1> USE DEF P, V
<1>10. CASE CreateSetup(a, h)
  BY <1>10, <1>2, <1>3, <1>6, <1>7 DEF CreateSetup, instVars, Course
<1>11. CASE InitializeInstance(a, h)
  BY <1>11, <1>2, <1>4 DEF InitializeInstance
<1>12. CASE WriteTemplates(a, h)
  BY <1>12, <1>3, <1>5, <1>7 DEF WriteTemplates, UpsertTemplates, Course
<1>13. CASE GenerateScripts(a, h)
  BY <1>13, <1>3, <1>5, <1>7 DEF GenerateScripts, Course
<1>14. CASE MarkSetupUnsigned(a, h) \/ MarkSetupMerged(a, h) \/ MarkSetupPegoutActive(a, h)
  BY <1>14, <1>3, <1>6, <1>7 DEF MarkSetupUnsigned, MarkSetupMerged, MarkSetupPegoutActive, Course
<1>15. CASE PollSigned(a, h) \/ PollVerified(a, h)
  BY <1>15, <1>3, <1>6, <1>7 DEF PollSigned, PollVerified, Course
<1>16. CASE FetchTemplates(a, h)
  BY <1>16, <1>2, <1>3, <1>5, <1>7 DEF FetchTemplates, Course
<1>17. CASE AssignTemplates(a, h)
  BY <1>17, <1>2, <1>3, <1>6, <1>7 DEF AssignTemplates, Course
<1>18. CASE SendSignatures(a, h)
  BY <1>18, <1>2, <1>4, <1>6, <1>7 DEF SendSignatures, Course
<1>19. CASE MergeSignatures(a, h)
  BY <1>19, <1>3, <1>5, <1>7 DEF MergeSignatures, Course
<1>20. CASE VerifySetup(a, h)
  BY <1>20, <1>2, <1>3, <1>5, <1>6, <1>7 DEF VerifySetup, Course
<1>21. CASE SendDone(a, h)
  BY <1>21, <1>2, <1>4, <1>6, <1>7 DEF SendDone, Course
<1>22. CASE Finish(a, h)
  BY <1>22, <1>2, <1>3, <1>6, <1>7 DEF Finish, Course
<1>23. CASE SendExternal(a, h)
  BY <1>23, <1>2, <1>3, <1>6, <1>7 DEF SendExternal, Course
<1> QED
  BY <1>10, <1>11, <1>12, <1>13, <1>14, <1>15, <1>16, <1>17, <1>18, <1>19, <1>20, <1>21, <1>22, <1>23
     DEF HandlerStep

(***************************************************************************)
(* A message starts a handler on its course, or none.                      *)
(***************************************************************************)
LEMMA DeliverCourse ==
    ASSUME TypeOK, NEW a \in AgentRoles, NEW m \in channel, Addressed(m), Deliver(a, m)
    PROVE  /\ m.to = a
           /\ \A b \in AgentRoles : \A k \in running'[b] :
                  k \in running[b] \/ (b = a /\ k.msg = m /\ OnCourse(a, k))
           /\ \A x \in channel' : x \in channel \/ (Addressed(x) /\ x.type = "transactions")
<1> DEFINE Started == \A b \in AgentRoles : \A k \in running'[b] :
                          k \in running[b] \/ (b = a /\ k.msg = m /\ OnCourse(a, k))
           Channel == \A x \in channel' : x \in channel \/ (Addressed(x) /\ x.type = "transactions")
<1>1. m \in Messages /\ Unfetched(a, m) \subseteq channel
  BY DEF TypeOK, Unfetched
<1>2. ASSUME NEW pc \in Course(a, m.type), NEW held, Begin(a, m, pc, held), m.to = a, m.type = "done" => a = V
      PROVE  Started
  BY <1>2 DEF Begin, TypeOK, OnCourse
<1> SUFFICES m.to = a /\ Started /\ Channel
  OBVIOUS
<1>3. CASE OnStart(a, m) \/ OnDone(a, m) \/ OnSignatures(a, m)
  <2>1. m.to = a /\ Channel
    BY <1>1, <1>3 DEF OnStart, OnDone, OnSignatures, Received, Fetch
  <2>2. PICK pc \in Course(a, m.type), held \in {NoTemplates, templates[a]} : Begin(a, m, pc, held)
    BY <1>3 DEF OnStart, OnDone, OnSignatures, Course
  <2>3. m.type = "done" => a = V
    BY <1>3 DEF OnStart, OnDone, OnSignatures, Accepts
  <2> HIDE DEF Started
  <2> QED
    BY <1>2, <2>1, <2>2, <2>3
<1>5. CASE OnJoin(a, m)
  <2>1. m.to = a /\ channel' \subseteq channel \cup {Message(V, "transactions", FALSE)} /\ UNCHANGED running
    BY <1>1, <1>5 DEF OnJoin, Fetch
  <2> QED
    BY <2>1 DEF Addressed, Message
<1>6. CASE OnTransactions(a, m)
  <2>1. m.to = a /\ Channel
    <3>1. m.to = a /\ channel' \subseteq channel \cup {Message(P, "transactions", FALSE)}
      BY <1>1, <1>6 DEF OnTransactions, Fetch
    <3> QED
      BY <3>1 DEF Addressed, Message
  <2>2. Begin(a, m, "upsert", templates'[a]) /\ m.type = "transactions" /\ "upsert" \in Course(a, m.type)
    BY <1>6 DEF OnTransactions, Course
  <2> HIDE DEF Started
  <2> QED
    BY <1>2, <2>1, <2>2
<1>8. CASE Ignore(a, m)
  BY <1>1, <1>8 DEF Ignore, Received, Fetch
<1> QED
  BY <1>3, <1>5, <1>6, <1>8 DEF Deliver

(***************************************************************************)
(* Every handler stays on the course of its message.                       *)
(***************************************************************************)
LEMMA NextCourse == TypeOK /\ CourseInv /\ [Next]_vars => CourseInv'
<1> SUFFICES ASSUME TypeOK, CourseInv, [Next]_vars PROVE CourseInv'
  OBVIOUS
<1>1. ASSUME NEW a \in AgentRoles, NEW h \in running[a], HandlerStep(a, h) PROVE CourseInv'
  <2>1. OnCourse(a, h)
    BY DEF CourseInv
  <2>2. /\ \A b \in AgentRoles : \A k \in running'[b] :
               k \in running[b] \/ (b = a /\ k.msg = h.msg /\ k.pc \in Course(a, h.msg.type))
        /\ \A m \in channel' : m \in channel \/ Addressed(m)
    BY <1>1, <2>1, HandlerCourse
  <2> QED
    BY <2>1, <2>2 DEF CourseInv, OnCourse
<1>2. ASSUME NEW a \in AgentRoles, NEW m \in channel, Deliver(a, m) PROVE CourseInv'
  <2>1. Addressed(m)
    BY DEF CourseInv
  <2>2. /\ \A b \in AgentRoles : \A k \in running'[b] : k \in running[b] \/ OnCourse(b, k)
        /\ \A x \in channel' : x \in channel \/ Addressed(x)
    BY <1>2, <2>1, DeliverCourse
  <2> QED
    BY <2>2 DEF CourseInv
<1>3. ASSUME NEW a \in AgentRoles, SignerStep(a) PROVE CourseInv'
  BY <1>3 DEF SignerStep, SignSetups, VerifySetups, CourseInv
<1>4. ASSUME NEW a \in AgentRoles, Crash(a) PROVE CourseInv'
  BY <1>4 DEF Crash, CourseInv, TypeOK
<1>5. ASSUME NEW m \in channel, LoseDocument(m) PROVE CourseInv'
  BY <1>5 DEF LoseDocument, CourseInv
<1>6. ASSUME NEW m \in channel, RepeatMessage(m) PROVE CourseInv'
  <2>1. Addressed([m EXCEPT !.copy = TRUE])
    BY DEF CourseInv, Addressed, TypeOK, Messages
  <2> QED
    BY <1>6, <2>1 DEF RepeatMessage, CourseInv
<1>7. UNCHANGED vars => CourseInv'
  BY DEF vars, CourseInv
<1> QED
  BY <1>1, <1>2, <1>3, <1>4, <1>5, <1>6, <1>7 DEF Next, AgentStep, Fault

(***************************************************************************)
(* Every handler goes through the steps of its message's handler in        *)
(* agent.ts, and START and DONE are the verifier's, JOIN is the prover's.  *)
(***************************************************************************)
THEOREM CourseInvariant == Spec => []CourseInv
<1>1. Init => CourseInv
  BY DEF Init, CourseInv, Addressed
<1> QED
  BY <1>1, NextCourse, SetupTypeCorrect, PTL DEF Spec

(***************************************************************************)
(* No step takes back that a listener knows where to look, nor posts       *)
(* signatures or broadcasts anything before it does.                       *)
(***************************************************************************)
LEMMA NextWatch == TypeOK /\ CourseInv /\ WatchInv /\ [Next]_vars => WatchInv'
<1> SUFFICES ASSUME TypeOK, CourseInv, WatchInv, [Next]_vars PROVE WatchInv'
  OBVIOUS
<1> USE DEF P, V
<1>1. ASSUME \A a \in AgentRoles : watched[a] => watched'[a] PROVE \A m : m.to \in AgentRoles /\ Backed(m) => Backed(m)'
  BY <1>1 DEF Backed, AgentRoles, Other
<1>2. /\ \A m \in channel : m.to \in AgentRoles
      /\ \A a \in AgentRoles : \A h \in running[a] : h.msg \in Messages /\ h.msg.to \in AgentRoles
  BY DEF TypeOK, Messages, Handlers
<1>3. ASSUME UNCHANGED watched, UNCHANGED external,
             \A m \in channel' : m \in channel \/ Backed(m)',
             \A a \in AgentRoles : \A k \in running'[a] :
                 (\E h \in running[a] : h.msg = k.msg) \/ k.msg \in channel
      PROVE  WatchInv'
  BY <1>1, <1>2, <1>3 DEF WatchInv, WatchedBeforeFunds
<1>4. ASSUME NEW a \in AgentRoles, NEW h \in running[a], HandlerStep(a, h) PROVE WatchInv'
  <2>1. OnCourse(a, h) /\ Backed(h.msg)
    BY DEF CourseInv, WatchInv
  <2>2. \A b \in AgentRoles : \A k \in running'[b] : \E g \in running[b] : g.msg = k.msg
    BY <1>4, <2>1, HandlerCourse
  <2>3. CASE SendSignatures(a, h)
    <3>1. (a = V => h.msg.type = "signatures") /\ h.msg.to = a
      BY <2>1, <2>3 DEF OnCourse, Course, SendSignatures, AgentRoles
    <3>2. watched'[a] /\ (\A b \in AgentRoles : watched[b] => watched'[b]) /\ (a = V => watched'[P])
      BY <2>1, <2>3, <3>1 DEF SendSignatures, Backed, TypeOK, AgentRoles, Other
    <3>3. PICK m : m.to = Other(a) /\ channel' = channel \cup {m} /\ UNCHANGED external
      BY <2>3 DEF SendSignatures, Post, Message
    <3>4. Backed(m)'
      BY <3>2, <3>3 DEF Backed, Other, AgentRoles
    <3>5. \A x \in channel' : Backed(x)'
      BY <1>1, <1>2, <3>2, <3>3, <3>4 DEF WatchInv
    <3>6. \A b \in AgentRoles : \A k \in running'[b] : Backed(k.msg)'
      BY <1>1, <1>2, <2>2, <3>2 DEF WatchInv
    <3> QED
      BY <3>2, <3>3, <3>5, <3>6 DEF WatchInv, WatchedBeforeFunds
  <2>4. CASE SendExternal(a, h)
    <3>1. h.msg.type = "signatures" /\ h.msg.to = P /\ UNCHANGED <<watched, channel>>
      BY <2>1, <2>4 DEF SendExternal, OnCourse, Course, AgentRoles, dbVars
    <3>2. watched[P] /\ watched[V]
      BY <2>1, <3>1 DEF Backed, Other
    <3> QED
      BY <1>1, <1>2, <2>2, <3>1, <3>2 DEF WatchInv, WatchedBeforeFunds, AgentRoles
  <2>5. CASE InitializeInstance(a, h) \/ SendDone(a, h)
    <3>1. \A m \in channel' : m \in channel \/ m.type # "signatures"
      <4>1. Post(Message(P, "join", FALSE)) \/ Post(Message(Other(a), "done", FALSE))
        BY <2>5 DEF InitializeInstance, SendDone
      <4> QED
        BY <4>1 DEF Post, Message
    <3>2. UNCHANGED <<watched, external>>
      BY <2>5 DEF InitializeInstance, SendDone, dbVars
    <3> QED
      BY <1>3, <2>2, <3>1, <3>2 DEF Backed
  <2>6. CASE ~ (SendSignatures(a, h) \/ SendExternal(a, h) \/ InitializeInstance(a, h) \/ SendDone(a, h))
    <3>1. UNCHANGED <<watched, external, channel>>
      BY <1>4, <2>6 DEF HandlerStep, CreateSetup, WriteTemplates, UpsertTemplates, GenerateScripts,
         MarkSetupUnsigned, PollSigned, FetchTemplates, AssignTemplates, MergeSignatures, MarkSetupMerged,
         PollVerified, VerifySetup, MarkSetupPegoutActive, Finish, dbVars
    <3> QED
      BY <1>3, <2>2, <3>1
  <2> QED
    BY <2>3, <2>4, <2>5, <2>6
<1>5. ASSUME NEW a \in AgentRoles, NEW m \in channel, Deliver(a, m) PROVE WatchInv'
  <2>1. Addressed(m)
    BY DEF CourseInv
  <2>2. UNCHANGED <<watched, external>>
    BY <1>5 DEF Deliver, OnStart, OnJoin, OnTransactions, OnSignatures, OnDone, Ignore, dbVars
  <2>3. /\ \A b \in AgentRoles : \A k \in running'[b] : k \in running[b] \/ k.msg = m
        /\ \A x \in channel' : x \in channel \/ x.type = "transactions"
    BY <1>5, <2>1, DeliverCourse
  <2> QED
    BY <1>3, <2>2, <2>3 DEF Backed
<1>6. ASSUME NEW a \in AgentRoles, SignerStep(a) PROVE WatchInv'
  BY <1>3, <1>6 DEF SignerStep, SignSetups, VerifySetups
<1>7. ASSUME NEW a \in AgentRoles, Crash(a) PROVE WatchInv'
  BY <1>3, <1>7 DEF Crash, TypeOK, dbVars
<1>8. ASSUME NEW m \in channel, LoseDocument(m) PROVE WatchInv'
  BY <1>3, <1>8 DEF LoseDocument, dbVars
<1>9. ASSUME NEW m \in channel, RepeatMessage(m) PROVE WatchInv'
  <2>1. Backed([m EXCEPT !.copy = TRUE])
    BY DEF WatchInv, Backed, TypeOK, Messages
  <2>2. UNCHANGED <<watched, external, running>> /\ channel' = channel \cup {[m EXCEPT !.copy = TRUE]}
    BY <1>9 DEF RepeatMessage, dbVars
  <2>3. Backed([m EXCEPT !.copy = TRUE])'
    BY <2>1, <2>2 DEF Backed
  <2> QED
    BY <1>3, <2>2, <2>3
<1>10. UNCHANGED vars => WatchInv'
  BY <1>3 DEF vars, dbVars
<1> QED
  BY <1>4, <1>5, <1>6, <1>7, <1>8, <1>9, <1>10 DEF Next, AgentStep, Fault

(***************************************************************************)
(* Whatever overlaps, is lost, repeated or restarted: both listeners know  *)
(* where to look before the external transactions are broadcast.           *)
(***************************************************************************)
THEOREM WatchedFirst == Spec => []WatchedBeforeFunds
<1>1. Init => WatchInv
  BY DEF Init, WatchInv, Backed, WatchedBeforeFunds
<1>2. Spec => []WatchInv
  BY <1>1, NextWatch, SetupTypeCorrect, CourseInvariant, PTL DEF Spec
<1>3. WatchInv => WatchedBeforeFunds
  BY DEF WatchInv
<1> QED
  BY <1>2, <1>3, PTL

-----------------------------------------------------------------------------

\* The only handler of a is at this step now.
Left(a, h, pc, held) == \E k : k.msg = h.msg /\ k.pc = pc /\ k.held = held /\ running'[a] = {k}

(***************************************************************************)
(* A handler that runs alone stays alone.                                  *)
(***************************************************************************)
LEMMA Alone ==
    ASSUME TypeOK, NEW a \in AgentRoles, NEW h \in running[a], HandlersInStep(a)
    PROVE  /\ running[a] = {h}
           /\ \A pc, held : Go(a, h, pc, held) => Left(a, h, pc, held)
           /\ \A pc : Continue(a, h, pc) => Left(a, h, pc, h.held)
           /\ End(a, h) => running'[a] = {}
<1>1. running[a] = {h}
  BY DEF HandlersInStep
<1>2. ASSUME NEW pc, NEW held, Goes(a, h, pc, held) PROVE Left(a, h, pc, held)
  <2>1. PICK k : /\ k.msg = h.msg /\ k.pc = pc /\ k.held = held
                 /\ running' = [running EXCEPT ![a] = (running[a] \ {h}) \cup {k}]
    BY <1>2 DEF Goes
  <2>2. running'[a] = {k}
    BY <1>1, <2>1 DEF TypeOK
  <2> QED
    BY <2>1, <2>2 DEF Left
<1>3. End(a, h) => running'[a] = {}
  BY <1>1, GoEffect DEF TypeOK
<1> QED
  BY <1>1, <1>2, <1>3, GoEffect

(***************************************************************************)
(* What is asked of the step a handler goes on to.                         *)
(***************************************************************************)
LEMMA GoesOrder ==
    ASSUME NEW a \in AgentRoles, NEW h, NEW pc, NEW held, Left(a, h, pc, held),
           status'[a] \in StatusAt(a, h.msg.type, pc),
           pc \in {"create", "init"} => state'[a] = "none",
           pc \in {"stake", "payload"} => state'[a] = "DONE",
           pc = "update" => held = templates'[a],
           pc \in {"markMerged", "pollVerified"} => rows'[a] = templates'[a],
           pc \in {"send", "finish"} /\ a = V => rows'[a] = templates'[a],
           pc = "save" /\ h.msg.type = "done" => Complete(held),
           status'[a] \in Settled => Complete(rows'[a]),
           h.msg.type = "done" => state'[a] = "DONE",
           state'[a] = "DONE" /\ a = V => Complete(templates'[a]) /\ h.msg.type = "done"
    PROVE  InOrder(a)'
<1>1. PICK k : k.msg = h.msg /\ k.pc = pc /\ k.held = held /\ running'[a] = {k}
  BY DEF Left
<1>2. HandlersInStep(a)'
  BY <1>1 DEF HandlersInStep, InStep
<1>3. SettledComplete(a)' /\ WaitingNegotiates(a)'
  BY <1>1 DEF SettledComplete, WaitingNegotiates
<1>4. DoneComplete(a)'
  BY <1>1 DEF DoneComplete
<1> QED
  BY <1>2, <1>3, <1>4 DEF InOrder

(***************************************************************************)
(* What is asked of the end of a handler.                                  *)
(***************************************************************************)
LEMMA EndOrder ==
    ASSUME NEW a \in AgentRoles, running'[a] = {},
           state'[a] \in {"TRANSACTIONS", "SIGNATURES"} => status'[a] \in Negotiating,
           status'[a] \in Settled => Complete(rows'[a]),
           state'[a] = "DONE" /\ a = V => Complete(templates'[a])
    PROVE  InOrder(a)'
BY DEF InOrder, HandlersInStep, SettledComplete, WaitingNegotiates, DoneComplete

(***************************************************************************)
(* A handler's step keeps its own agent in order.                          *)
(***************************************************************************)
LEMMA HandlerOrder ==
    ASSUME TypeOK, NEW a \in AgentRoles, NEW h \in running[a], OnCourse(a, h), InOrder(a), HandlerStep(a, h)
    PROVE  InOrder(a)'
<1> DEFINE type == h.msg.type
<1>1. /\ running[a] = {h} /\ HandlersInStep(a)
      /\ InStep(a, type, h.pc, h.held) /\ h.pc \in Course(a, type) /\ (type = "done" => a = V)
      /\ (status[a] \in Settled => Complete(rows[a]))
      /\ (type = "done" => state[a] = "DONE")
      /\ (state[a] = "DONE" /\ a = V => Complete(templates[a]) /\ type = "done")
      /\ a \in {P, V} /\ P # V
  BY Alone DEF OnCourse, InOrder, HandlersInStep, SettledComplete, DoneComplete, AgentRoles, P, V
<1>2. /\ \A pc, held : Go(a, h, pc, held) => Left(a, h, pc, held)
      /\ \A pc : Continue(a, h, pc) => Left(a, h, pc, h.held)
      /\ End(a, h) => running'[a] = {}
  BY <1>1, Alone
<1>3. /\ status \in [AgentRoles -> SetupStatus] /\ rows \in [AgentRoles -> TemplateSets]
      /\ state \in [AgentRoles -> SetupState] /\ templates \in [AgentRoles -> TemplateSets]
  BY DEF TypeOK
<1> USE DEF InStep
<1>10. CASE CreateSetup(a, h)
  <2>1. state'[a] = "none" /\ rows'[a] = rows[a] /\ type = "start"
    BY <1>1, <1>10 DEF CreateSetup, instVars, Course
  <2>2. CASE status[a] = "none"
    <3>1. Left(a, h, "init", h.held) /\ status'[a] = "PENDING"
      BY <1>2, <1>3, <1>10, <2>2 DEF CreateSetup
    <3> QED
      BY <2>1, <3>1, GoesOrder DEF StatusAt, Settled
  <2>3. CASE status[a] # "none"
    <3>1. running'[a] = {} /\ status'[a] = status[a]
      BY <1>2, <1>10, <2>3 DEF CreateSetup
    <3> QED
      BY <1>1, <2>1, <3>1, EndOrder
  <2> QED
    BY <2>2, <2>3
<1>11. CASE InitializeInstance(a, h)
  <2>1. running'[a] = {} /\ state'[a] = "TRANSACTIONS" /\ status'[a] = "PENDING"
    BY <1>1, <1>2, <1>3, <1>11 DEF InitializeInstance, dbVars, StatusAt
  <2> QED
    BY <2>1, EndOrder DEF Negotiating, Settled
<1>12. CASE WriteTemplates(a, h)
  <2>1. PICK pc : UpsertTemplates(a, h, pc) /\ Left(a, h, pc, NoTemplates)
    BY <1>2, <1>12 DEF WriteTemplates, UpsertTemplates
  <2>2. rows'[a] = h.held /\ status'[a] = status[a] /\ state'[a] = state[a] /\ templates'[a] = templates[a]
    BY <1>3, <2>1 DEF UpsertTemplates, instVars
  <2>3. CASE h.pc = "upsert" \/ (h.pc = "save" /\ type = "transactions")
    <3>1. Left(a, h, "generate", NoTemplates) \/ Left(a, h, "mark", NoTemplates)
      BY <1>2, <1>12, <2>3 DEF WriteTemplates, UpsertTemplates
    <3>2. status[a] \in Negotiating
      BY <1>1, <2>3 DEF StatusAt
    <3> QED
      BY <1>1, <2>2, <3>1, <3>2, GoesOrder DEF StatusAt, Negotiating, Settled
  <2>4. CASE h.pc = "save" /\ type = "done"
    <3>1. Left(a, h, "markActive", NoTemplates)
      BY <1>2, <1>12, <2>4 DEF WriteTemplates, UpsertTemplates
    <3>2. status[a] \in Settled /\ Complete(h.held) /\ a # P
      BY <1>1, <2>4 DEF StatusAt
    <3> QED
      BY <1>1, <2>2, <3>1, <3>2, GoesOrder DEF StatusAt
  <2>5. CASE h.pc = "update"
    <3>1. Left(a, h, "markMerged", NoTemplates)
      BY <1>2, <1>12, <2>5 DEF WriteTemplates, UpsertTemplates
    <3>2. status[a] = "SIGNED" /\ h.held = templates[a]
      BY <1>1, <2>5 DEF StatusAt
    <3> QED
      BY <1>1, <2>2, <3>1, <3>2, GoesOrder DEF StatusAt, Settled
  <2> QED
    BY <1>12, <2>3, <2>4, <2>5 DEF WriteTemplates
<1>13. CASE GenerateScripts(a, h)
  <2>1. /\ Left(a, h, "save", templates'[a]) /\ type = "transactions" /\ status'[a] \in Negotiating
        /\ rows'[a] = rows[a] /\ state'[a] = state[a]
    BY <1>1, <1>2, <1>13 DEF GenerateScripts, dbVars, Course, StatusAt
  <2> QED
    BY <1>1, <2>1, GoesOrder DEF StatusAt, Negotiating, Settled
<1>14. CASE MarkSetupUnsigned(a, h)
  <2>1. /\ Left(a, h, "poll", h.held) /\ status'[a] = "UNSIGNED"
        /\ rows'[a] = rows[a] /\ state'[a] = state[a] /\ templates'[a] = templates[a]
    BY <1>2, <1>3, <1>14 DEF MarkSetupUnsigned, instVars
  <2> QED
    BY <1>1, <2>1, GoesOrder DEF StatusAt, Settled
<1>15. CASE MarkSetupMerged(a, h)
  <2>1. /\ Left(a, h, "pollVerified", h.held) /\ status'[a] = "MERGED"
        /\ rows'[a] = rows[a] /\ state'[a] = state[a] /\ templates'[a] = templates[a]
    BY <1>2, <1>3, <1>15 DEF MarkSetupMerged, instVars
  <2>2. rows[a] = templates[a]
    BY <1>1, <1>15 DEF MarkSetupMerged
  <2> QED
    BY <1>1, <2>1, <2>2, GoesOrder DEF StatusAt, Settled
<1>16. CASE MarkSetupPegoutActive(a, h)
  <2>1. /\ Left(a, h, "sendDone", h.held) /\ status'[a] = "ACTIVE"
        /\ rows'[a] = rows[a] /\ state'[a] = state[a] /\ templates'[a] = templates[a]
    BY <1>2, <1>3, <1>16 DEF MarkSetupPegoutActive, instVars
  <2>2. Complete(rows[a])
    BY <1>1, <1>16 DEF MarkSetupPegoutActive, StatusAt, Settled
  <2> QED
    BY <1>1, <2>1, <2>2, GoesOrder DEF StatusAt
<1>17. CASE PollSigned(a, h)
  <2>1. /\ Left(a, h, "fetch", h.held) /\ status'[a] = "SIGNED"
        /\ rows'[a] = rows[a] /\ state'[a] = state[a] /\ templates'[a] = templates[a]
    BY <1>2, <1>17 DEF PollSigned, instVars, dbVars
  <2> QED
    BY <1>1, <2>1, GoesOrder DEF StatusAt, Settled
<1>18. CASE PollVerified(a, h)
  <2>1. /\ Left(a, h, IF a = P THEN "verifySetup" ELSE "send", h.held) /\ status[a] = "VERIFIED"
        /\ rows'[a] = rows[a] /\ state'[a] = state[a] /\ templates'[a] = templates[a] /\ status'[a] = status[a]
        /\ rows[a] = templates[a]
    BY <1>1, <1>2, <1>18 DEF PollVerified, instVars, dbVars
  <2> QED
    BY <1>1, <2>1, GoesOrder DEF StatusAt, Settled
<1>19. CASE FetchTemplates(a, h)
  <2>1. /\ status[a] = "SIGNED" /\ type # "done"
        /\ rows'[a] = rows[a] /\ state'[a] = state[a] /\ templates'[a] = templates[a] /\ status'[a] = status[a]
    BY <1>1, <1>19 DEF FetchTemplates, instVars, dbVars, StatusAt, Course
  <2>2. CASE a \in rows[a].sigs
    <3>1. Left(a, h, "merge", rows[a]) \/ Left(a, h, "assign", rows[a])
      BY <1>2, <1>19, <2>2 DEF FetchTemplates
    <3> QED
      BY <1>1, <2>1, <3>1, GoesOrder DEF StatusAt, Settled
  <2>3. CASE a \notin rows[a].sigs
    <3>1. running'[a] = {}
      BY <1>2, <1>19, <2>3 DEF FetchTemplates
    <3> QED
      BY <1>1, <2>1, <3>1, EndOrder DEF Negotiating, Settled
  <2> QED
    BY <2>2, <2>3
<1>20. CASE AssignTemplates(a, h)
  <2>1. /\ status[a] = "SIGNED" /\ type = "transactions"
        /\ rows'[a] = rows[a] /\ state'[a] = state[a] /\ status'[a] = status[a]
    BY <1>1, <1>20 DEF AssignTemplates, dbVars, StatusAt, Course
  <2>2. state[a] = "DONE" => a # V
    BY <1>1, <2>1
  <2>3. CASE a = P
    <3>1. Left(a, h, "send", h.held)
      BY <1>2, <1>20, <2>3 DEF AssignTemplates
    <3> QED
      BY <1>1, <2>1, <2>2, <2>3, <3>1, GoesOrder DEF StatusAt, Settled
  <2>4. CASE a # P
    <3>1. running'[a] = {}
      BY <1>2, <1>20, <2>4 DEF AssignTemplates
    <3> QED
      BY <2>1, <2>2, <3>1, EndOrder DEF Negotiating, Settled
  <2> QED
    BY <2>3, <2>4
<1>21. CASE SendSignatures(a, h)
  <2>1. rows'[a] = rows[a] /\ state'[a] = state[a] /\ templates'[a] = templates[a] /\ status'[a] = status[a]
    BY <1>21 DEF SendSignatures, instVars
  <2>2. CASE a = P
    <3>1. running'[a] = {} /\ status[a] = "SIGNED"
      BY <1>1, <1>2, <1>21, <2>2 DEF SendSignatures, StatusAt
    <3> QED
      BY <1>1, <2>1, <2>2, <3>1, EndOrder DEF Negotiating, Settled
  <2>3. CASE a = V
    <3>1. Left(a, h, "finish", h.held) /\ status[a] = "VERIFIED" /\ rows[a] = templates[a]
      BY <1>1, <1>2, <1>21, <2>3 DEF SendSignatures, StatusAt
    <3> QED
      BY <1>1, <2>1, <2>3, <3>1, GoesOrder DEF StatusAt
  <2> QED
    BY <1>1, <2>2, <2>3
<1>22. CASE MergeSignatures(a, h)
  <2>1. PICK merged : Go(a, h, "update", merged) /\ templates' = [templates EXCEPT ![a] = merged]
    BY <1>22 DEF MergeSignatures
  <2>2. /\ status[a] = "SIGNED" /\ type = "signatures" /\ templates'[a] = merged /\ Left(a, h, "update", merged)
        /\ rows'[a] = rows[a] /\ state'[a] = state[a] /\ status'[a] = status[a]
    BY <1>1, <1>2, <1>3, <1>22, <2>1 DEF MergeSignatures, dbVars, StatusAt, Course
  <2> QED
    BY <1>1, <2>2, GoesOrder DEF StatusAt, Settled
<1>23. CASE VerifySetup(a, h)
  <2>1. /\ status[a] \in Settled /\ Complete(rows[a])
        /\ rows'[a] = rows[a] /\ state'[a] = state[a] /\ templates'[a] = templates[a] /\ status'[a] = status[a]
    BY <1>1, <1>23 DEF VerifySetup, instVars, dbVars, StatusAt, Settled
  <2>2. CASE type = "done"
    <3>1. Left(a, h, "save", templates[a])
      BY <1>2, <1>23, <2>1, <2>2 DEF VerifySetup
    <3> QED
      BY <1>1, <2>1, <2>2, <3>1, GoesOrder DEF StatusAt
  <2>3. CASE type # "done"
    <3>1. Left(a, h, "markActive", h.held) /\ status[a] \in StatusAt(a, type, "verifySetup")
      BY <1>1, <1>2, <1>23, <2>1, <2>3 DEF VerifySetup
    <3> QED
      BY <1>1, <2>1, <2>3, <3>1, GoesOrder DEF StatusAt
  <2> QED
    BY <2>2, <2>3
<1>24. CASE SendDone(a, h)
  <2>1. /\ status[a] = "ACTIVE"
        /\ rows'[a] = rows[a] /\ state'[a] = state[a] /\ templates'[a] = templates[a] /\ status'[a] = status[a]
    BY <1>1, <1>24 DEF SendDone, instVars, dbVars, StatusAt
  <2>2. CASE a = P
    <3>1. Left(a, h, "finish", h.held)
      BY <1>2, <1>24, <2>2 DEF SendDone
    <3> QED
      BY <1>1, <2>1, <2>2, <3>1, GoesOrder DEF StatusAt
  <2>3. CASE a = V
    <3>1. running'[a] = {} /\ type = "done"
      BY <1>1, <1>2, <1>24, <2>3 DEF SendDone, Course
    <3> QED
      BY <1>1, <2>1, <2>3, <3>1, EndOrder
  <2> QED
    BY <1>1, <2>2, <2>3
<1>25. CASE Finish(a, h)
  <2>1. /\ state'[a] = "DONE" /\ type = "signatures"
        /\ rows'[a] = rows[a] /\ templates'[a] = templates[a] /\ status'[a] = status[a]
    BY <1>1, <1>3, <1>25 DEF Finish, dbVars, Course
  <2>2. CASE a = P
    <3>1. Left(a, h, "stake", h.held) /\ status[a] = "ACTIVE"
      BY <1>1, <1>2, <1>25, <2>2 DEF Finish, StatusAt
    <3> QED
      BY <1>1, <2>1, <2>2, <3>1, GoesOrder DEF StatusAt
  <2>3. CASE a = V
    <3>1. running'[a] = {} /\ status[a] = "VERIFIED" /\ rows[a] = templates[a]
      BY <1>1, <1>2, <1>25, <2>3 DEF Finish, StatusAt
    <3> QED
      BY <1>1, <2>1, <2>3, <3>1, EndOrder DEF Settled
  <2> QED
    BY <1>1, <2>2, <2>3
<1>26. CASE SendExternal(a, h)
  <2>1. /\ status[a] = "ACTIVE" /\ a = P /\ state[a] = "DONE" /\ type = "signatures"
        /\ rows'[a] = rows[a] /\ state'[a] = state[a] /\ templates'[a] = templates[a] /\ status'[a] = status[a]
    BY <1>1, <1>26 DEF SendExternal, instVars, dbVars, StatusAt, Course
  <2>2. Left(a, h, "payload", h.held) \/ running'[a] = {}
    BY <1>2, <1>26 DEF SendExternal
  <2> QED
    BY <1>1, <2>1, <2>2, GoesOrder, EndOrder DEF StatusAt
<1> QED
  BY <1>10, <1>11, <1>12, <1>13, <1>14, <1>15, <1>16, <1>17, <1>18, <1>19, <1>20, <1>21, <1>22, <1>23, <1>24,
     <1>25, <1>26 DEF HandlerStep

\* What a handler of a does for others to see.
Effect(a, h) ==
    /\ \A k \in running'[a] : k.msg = h.msg /\ (k.pc = "init" => h.pc = "create" /\ status[a] = "none")
    /\ \A m \in channel' : \/ m \in channel
                           \/ m.type = "join" /\ h.pc = "init"
                           \/ m.type = "signatures" /\ m.to = Other(a) /\ h.pc = "send"
                           \/ m.type = "done" /\ m.to = Other(a) /\ h.pc = "sendDone"
    /\ external' = external \/ h.pc \in {"stake", "payload"}
    /\ status'[a] = status[a] \/ h.pc \in {"create", "mark", "markMerged", "markActive"}
    /\ status[a] # "none" => status'[a] # "none"
    /\ status'[a] = "ACTIVE" => status[a] = "ACTIVE" \/ h.pc = "markActive"
    /\ \/ state'[a] = state[a]
       \/ h.pc = "init" /\ state'[a] = "TRANSACTIONS"
       \/ h.pc = "finish" /\ state'[a] = "DONE"
    /\ h.pc = "create" /\ status[a] # "none" => running'[a] = {} /\ status'[a] = status[a]
    /\ h.pc = "markActive" => status'[a] = "ACTIVE"
    /\ a = V /\ h.pc = "send" => \E k : k.pc = "finish" /\ running'[a] = {k}
    /\ a = V /\ h.pc = "finish" => running'[a] = {} /\ state'[a] = "DONE"

(***************************************************************************)
(* Every step of a handler has one of these effects.                       *)
(***************************************************************************)
LEMMA HandlerEffect ==
    ASSUME TypeOK, NEW a \in AgentRoles, NEW h \in running[a], InOrder(a), HandlerStep(a, h)
    PROVE  Effect(a, h)
<1>1. /\ \A pc, held : Go(a, h, pc, held) => Left(a, h, pc, held)
      /\ \A pc : Continue(a, h, pc) => Left(a, h, pc, h.held)
      /\ End(a, h) => running'[a] = {}
  BY Alone DEF InOrder
<1>2. status \in [AgentRoles -> SetupStatus] /\ state \in [AgentRoles -> SetupState]
  BY DEF TypeOK
<1>3. ASSUME NEW pc, NEW held, Left(a, h, pc, held), pc # "init"
      PROVE  \A k \in running'[a] : k.msg = h.msg /\ k.pc # "init"
  BY <1>3 DEF Left
<1>4. ASSUME NEW to, NEW type, NEW signed, Post(Message(to, type, signed))
      PROVE  \A m \in channel' : m \in channel \/ (m.type = type /\ m.to = to)
  BY <1>4 DEF Post, Message
<1>10. CASE CreateSetup(a, h)
  <2>1. (Left(a, h, "init", h.held) /\ status[a] = "none") \/ running'[a] = {}
    BY <1>1, <1>10 DEF CreateSetup
  <2>2. \A k \in running'[a] : k.msg = h.msg /\ (k.pc = "init" => h.pc = "create" /\ status[a] = "none")
    BY <1>10, <2>1 DEF Left, CreateSetup
  <2>3. status[a] # "none" => running'[a] = {} /\ status'[a] = status[a]
    BY <1>1, <1>10 DEF CreateSetup
  <2> QED
    BY <1>2, <1>10, <2>2, <2>3 DEF CreateSetup, instVars, Effect
<1>11. CASE InitializeInstance(a, h)
  <2>1. running'[a] = {} /\ state'[a] = "TRANSACTIONS" /\ h.pc = "init" /\ UNCHANGED <<status, external>>
    BY <1>1, <1>2, <1>11 DEF InitializeInstance, dbVars
  <2>2. \A m \in channel' : m \in channel \/ m.type = "join"
    BY <1>4, <1>11 DEF InitializeInstance
  <2> QED
    BY <2>1, <2>2 DEF Effect
<1>12. CASE WriteTemplates(a, h)
  <2>1. PICK pc : UpsertTemplates(a, h, pc) /\ pc # "init" /\ h.pc \in {"upsert", "save", "update"}
    BY <1>12 DEF WriteTemplates
  <2> QED
    BY <1>1, <1>3, <2>1 DEF UpsertTemplates, instVars, Effect
<1>13. CASE GenerateScripts(a, h)
  <2>1. Left(a, h, "save", templates'[a])
    BY <1>1, <1>13 DEF GenerateScripts
  <2> QED
    BY <1>3, <1>13, <2>1 DEF GenerateScripts, dbVars, Effect
<1>14. CASE MarkSetupUnsigned(a, h) \/ MarkSetupMerged(a, h) \/ MarkSetupPegoutActive(a, h)
  BY <1>1, <1>2, <1>3, <1>14
     DEF MarkSetupUnsigned, MarkSetupMerged, MarkSetupPegoutActive, instVars, Effect
<1>15. CASE PollSigned(a, h) \/ PollVerified(a, h)
  BY <1>1, <1>3, <1>15 DEF PollSigned, PollVerified, dbVars, instVars, Effect
<1>16. CASE FetchTemplates(a, h)
  BY <1>1, <1>3, <1>16 DEF FetchTemplates, dbVars, instVars, Effect
<1>17. CASE AssignTemplates(a, h)
  BY <1>1, <1>3, <1>17 DEF AssignTemplates, dbVars, Effect
<1>18. CASE SendSignatures(a, h)
  <2>1. \A m \in channel' : m \in channel \/ (m.type = "signatures" /\ m.to = Other(a))
    BY <1>4, <1>18 DEF SendSignatures
  <2>2. IF a = P THEN running'[a] = {} ELSE Left(a, h, "finish", h.held)
    BY <1>1, <1>18 DEF SendSignatures
  <2>3. \A k \in running'[a] : k.msg = h.msg /\ k.pc # "init"
    BY <1>3, <2>2
  <2>4. a = V => \E k : k.pc = "finish" /\ running'[a] = {k}
    BY <2>2 DEF Left, P, V
  <2> QED
    BY <1>18, <2>1, <2>3, <2>4 DEF SendSignatures, instVars, Effect
<1>19. CASE MergeSignatures(a, h)
  BY <1>1, <1>3, <1>19 DEF MergeSignatures, dbVars, Effect
<1>20. CASE VerifySetup(a, h)
  BY <1>1, <1>3, <1>20 DEF VerifySetup, dbVars, instVars, Effect
<1>21. CASE SendDone(a, h)
  <2>1. \A m \in channel' : m \in channel \/ (m.type = "done" /\ m.to = Other(a))
    BY <1>4, <1>21 DEF SendDone
  <2> QED
    BY <1>1, <1>3, <1>21, <2>1 DEF SendDone, dbVars, instVars, Effect
<1>22. CASE Finish(a, h)
  <2>1. IF a = P THEN Left(a, h, "stake", h.held) ELSE running'[a] = {}
    BY <1>1, <1>22 DEF Finish
  <2>2. \A k \in running'[a] : k.msg = h.msg /\ k.pc # "init"
    BY <1>3, <2>1
  <2>3. state'[a] = "DONE" /\ (a = V => running'[a] = {})
    BY <1>2, <1>22, <2>1 DEF Finish, P, V
  <2> QED
    BY <1>22, <2>2, <2>3 DEF Finish, dbVars, Effect
<1>23. CASE SendExternal(a, h)
  BY <1>1, <1>3, <1>23 DEF SendExternal, dbVars, instVars, Effect
<1> QED
  BY <1>10, <1>11, <1>12, <1>13, <1>14, <1>15, <1>16, <1>17, <1>18, <1>19, <1>20, <1>21, <1>22, <1>23
     DEF HandlerStep

\* A step of a leaves the other agent and its database alone.
OwnStep(a) ==
    /\ \A b \in AgentRoles \ {a} : /\ running'[b] = running[b] /\ status'[b] = status[b] /\ rows'[b] = rows[b]
                                   /\ state'[b] = state[b] /\ templates'[b] = templates[b]
    /\ UNCHANGED calm

(***************************************************************************)
(* Agents share nothing but the channel.                                   *)
(***************************************************************************)
LEMMA Own ==
    ASSUME TypeOK, NEW a \in AgentRoles, AgentStep(a) \/ SignerStep(a) \/ Crash(a)
    PROVE  OwnStep(a)
<1> USE DEF TypeOK, OwnStep, dbVars, instVars
<1>1. ASSUME NEW m \in channel, Deliver(a, m) PROVE OwnStep(a)
  BY <1>1 DEF Deliver, OnStart, OnJoin, OnTransactions, OnSignatures, OnDone, Ignore, Begin
<1>2. ASSUME NEW h \in running[a], HandlerStep(a, h) PROVE OwnStep(a)
  <2>1. \A b \in AgentRoles \ {a} : running'[b] = running[b]
    BY <1>2, HandlerType DEF Replaced
  <2>2. CASE WriteTemplates(a, h)
    BY <2>1, <2>2 DEF WriteTemplates, UpsertTemplates
  <2>3. CASE CreateSetup(a, h) \/ InitializeInstance(a, h) \/ GenerateScripts(a, h) \/ MarkSetupUnsigned(a, h)
    BY <2>1, <2>3 DEF CreateSetup, InitializeInstance, GenerateScripts, MarkSetupUnsigned
  <2>4. CASE PollSigned(a, h) \/ FetchTemplates(a, h) \/ AssignTemplates(a, h) \/ SendSignatures(a, h)
    BY <2>1, <2>4 DEF PollSigned, FetchTemplates, AssignTemplates, SendSignatures
  <2>5. CASE MergeSignatures(a, h)
    BY <2>1, <2>5 DEF MergeSignatures
  <2>6. CASE MarkSetupMerged(a, h) \/ PollVerified(a, h) \/ VerifySetup(a, h) \/ MarkSetupPegoutActive(a, h)
    BY <2>1, <2>6 DEF MarkSetupMerged, PollVerified, VerifySetup, MarkSetupPegoutActive
  <2>7. CASE SendDone(a, h) \/ Finish(a, h) \/ SendExternal(a, h)
    BY <2>1, <2>7 DEF SendDone, Finish, SendExternal
  <2> QED
    BY <1>2, <2>2, <2>3, <2>4, <2>5, <2>6, <2>7 DEF HandlerStep
<1>3. ASSUME SignerStep(a) PROVE OwnStep(a)
  BY <1>3 DEF SignerStep, SignSetups, VerifySetups
<1>4. ASSUME Crash(a) PROVE OwnStep(a)
  BY <1>4 DEF Crash
<1> QED
  BY <1>1, <1>2, <1>3, <1>4 DEF AgentStep

-----------------------------------------------------------------------------

(***************************************************************************)
(* Only the agent that takes a step can get out of order.                  *)
(***************************************************************************)
LEMMA OthersInOrder ==
    ASSUME NEW a \in AgentRoles, OwnStep(a), NEW b \in AgentRoles \ {a}, InOrder(b)
    PROVE  InOrder(b)'
BY DEF OwnStep, InOrder, HandlersInStep, InStep, SettledComplete, WaitingNegotiates, DoneComplete

(***************************************************************************)
(* A message is handed over in order: an agent that waits for it has not   *)
(* signed yet, and DONE finds a verifier that has.                         *)
(***************************************************************************)
LEMMA DeliverOrder ==
    ASSUME TypeOK, CourseInv, OrderInv, calm, NEW a \in AgentRoles, NEW m \in channel, Deliver(a, m)
    PROVE  InOrder(a)'
<1>1. /\ running[a] = {} /\ (status[a] \in Settled => Complete(rows[a]))
      /\ (state[a] \in {"TRANSACTIONS", "SIGNATURES"} => status[a] \in Negotiating)
      /\ (state[a] = "DONE" /\ a = V => Complete(templates[a]))
      /\ Addressed(m) /\ m.to = a /\ a \in {P, V} /\ P # V
  BY DEF Deliver, OnStart, OnJoin, OnTransactions, OnSignatures, OnDone, Ignore, Received, Fetch, OrderInv, InOrder,
         SettledComplete, WaitingNegotiates, DoneComplete, CourseInv, AgentRoles, P, V
<1>2. /\ status \in [AgentRoles -> SetupStatus] /\ running \in [AgentRoles -> SUBSET Handlers]
      /\ state \in [AgentRoles -> SetupState] /\ templates \in [AgentRoles -> TemplateSets]
  BY DEF TypeOK
<1>3. ASSUME NEW pc, NEW held, Begin(a, m, pc, held) PROVE Left(a, [msg |-> m, pc |-> pc, held |-> held], pc, held)
  <2>1. running'[a] = {[msg |-> m, pc |-> pc, held |-> held]}
    BY <1>1, <1>2, <1>3 DEF Begin
  <2> QED
    BY <2>1 DEF Left
<1>4. CASE OnStart(a, m)
  <2> DEFINE h == [msg |-> m, pc |-> "create", held |-> NoTemplates]
  <2>1. /\ Left(a, h, "create", NoTemplates) /\ h.msg.type = "start" /\ state'[a] = "none"
        /\ status'[a] = status[a] /\ rows'[a] = rows[a]
    BY <1>2, <1>3, <1>4 DEF OnStart, Accepts, dbVars, instVars
  <2>2. status[a] \in SetupStatus
    BY <1>2
  <2> HIDE DEF h
  <2> QED
    BY <1>1, <2>1, <2>2, GoesOrder DEF StatusAt
<1>5. CASE OnJoin(a, m)
  <2>1. /\ running'[a] = {} /\ state'[a] = "TRANSACTIONS" /\ status'[a] = status[a] /\ m.type = "join"
    BY <1>1, <1>2, <1>5 DEF OnJoin, dbVars
  <2>2. status[a] = "PENDING"
    BY <1>1, <2>1 DEF OrderInv, JoinEarly, Addressed
  <2> QED
    BY <2>1, <2>2, EndOrder DEF Negotiating, Settled
<1>6. CASE OnTransactions(a, m)
  <2> DEFINE h == [msg |-> m, pc |-> "upsert", held |-> templates'[a]]
  <2>1. /\ Left(a, h, "upsert", templates'[a]) /\ h.msg.type = "transactions" /\ state'[a] = "SIGNATURES"
        /\ status'[a] = status[a] /\ state[a] = "TRANSACTIONS"
    BY <1>2, <1>3, <1>6 DEF OnTransactions, Accepts, dbVars
  <2> HIDE DEF h
  <2> QED
    BY <1>1, <2>1, GoesOrder DEF StatusAt, Negotiating, Settled
<1>7. CASE OnSignatures(a, m)
  <2> DEFINE h == [msg |-> m, pc |-> "upsert", held |-> templates[a]]
  <2>1. /\ Left(a, h, "upsert", templates[a]) /\ h.msg.type = "signatures" /\ state'[a] = "SIGNATURES"
        /\ status'[a] = status[a] /\ state[a] = "SIGNATURES"
    BY <1>3, <1>7 DEF OnSignatures, Accepts, dbVars, instVars
  <2> HIDE DEF h
  <2> QED
    BY <1>1, <2>1, GoesOrder DEF StatusAt, Negotiating, Settled
<1>8. CASE OnDone(a, m)
  <2> DEFINE h == [msg |-> m, pc |-> "verifySetup", held |-> NoTemplates]
  <2>1. /\ Left(a, h, "verifySetup", NoTemplates) /\ h.msg.type = "done" /\ state'[a] = "DONE" /\ a = V
        /\ status'[a] = status[a] /\ rows'[a] = rows[a] /\ templates'[a] = templates[a] /\ state[a] = "DONE"
        /\ m.type = "done"
    BY <1>3, <1>8 DEF OnDone, Accepts, dbVars, instVars
  <2>2. status[a] \in Settled
    BY <1>1, <2>1 DEF OrderInv, ProverActiveFirst, SettledFirst, VerifierSettled
  <2> HIDE DEF h
  <2> QED
    BY <1>1, <2>1, <2>2, GoesOrder DEF StatusAt
<1>9. CASE Ignore(a, m)
  BY <1>1, <1>9, EndOrder DEF Ignore, dbVars, instVars
<1> QED
  BY <1>4, <1>5, <1>6, <1>7, <1>8, <1>9 DEF Deliver

(***************************************************************************)
(* The signer answers UNSIGNED and MERGED, which the handler waits for.    *)
(***************************************************************************)
LEMMA SignerOrder ==
    ASSUME TypeOK, NEW a \in AgentRoles, InOrder(a), SignerStep(a)
    PROVE  InOrder(a)'
<1>1. /\ UNCHANGED <<running, state, templates>> /\ status \in [AgentRoles -> SetupStatus]
      /\ rows \in [AgentRoles -> TemplateSets]
  BY DEF SignerStep, SignSetups, VerifySetups, instVars, TypeOK
<1>2. \/ status[a] = "UNSIGNED" /\ status'[a] = "SIGNED"
      \/ status[a] = "MERGED" /\ status'[a] = "VERIFIED" /\ Complete(rows[a]) /\ UNCHANGED rows
  BY <1>1 DEF SignerStep, SignSetups, VerifySetups
<1>3. /\ state[a] \in {"TRANSACTIONS", "SIGNATURES"} /\ running[a] = {} => status[a] \in Negotiating
      /\ status'[a] \in Settled => Complete(rows'[a])
      /\ state[a] = "DONE" /\ a = V => Complete(templates[a])
  BY <1>1, <1>2 DEF InOrder, WaitingNegotiates, SettledComplete, DoneComplete, Settled
<1>4. CASE running[a] = {}
  BY <1>1, <1>2, <1>3, <1>4, EndOrder DEF Negotiating
<1>5. CASE running[a] # {}
  <2>1. PICK h \in running[a] : running[a] = {h}
    BY <1>5 DEF InOrder, HandlersInStep
  <2>2. /\ InStep(a, h.msg.type, h.pc, h.held) /\ (h.msg.type = "done" => state[a] = "DONE")
        /\ (state[a] = "DONE" /\ a = V => h.msg.type = "done")
    BY <2>1 DEF InOrder, HandlersInStep, DoneComplete
  <2>3. Left(a, h, h.pc, h.held)
    BY <1>1, <2>1 DEF Left
  <2>4. CASE status[a] = "UNSIGNED" /\ status'[a] = "SIGNED"
    <3>1. h.pc \in {"create", "upsert", "generate", "mark", "save", "poll"} /\ (h.pc = "save" => h.msg.type # "done")
      BY <2>2, <2>4 DEF InStep, StatusAt, Settled
    <3>2. status'[a] \in StatusAt(a, h.msg.type, h.pc)
      BY <2>4, <3>1 DEF StatusAt, Negotiating, SetupStatus
    <3> QED
      BY <1>1, <1>3, <2>2, <2>3, <3>1, <3>2, GoesOrder DEF InStep
  <2>5. CASE status[a] = "MERGED" /\ status'[a] = "VERIFIED" /\ UNCHANGED rows
    <3>1. h.pc \in {"create", "pollVerified"}
      BY <2>2, <2>5 DEF InStep, StatusAt, Negotiating, Settled
    <3>2. status'[a] \in StatusAt(a, h.msg.type, h.pc)
      BY <2>5, <3>1 DEF StatusAt, SetupStatus
    <3> QED
      BY <1>1, <1>3, <2>2, <2>3, <2>5, <3>1, <3>2, GoesOrder DEF InStep
  <2> QED
    BY <1>2, <2>4, <2>5
<1> QED
  BY <1>4, <1>5

(***************************************************************************)
(* A restarted agent has nothing in hand.                                  *)
(***************************************************************************)
LEMMA CrashOrder ==
    ASSUME TypeOK, NEW a \in AgentRoles, InOrder(a), Crash(a)
    PROVE  InOrder(a)' /\ running'[a] = {} /\ state'[a] = "none"
<1>1. running'[a] = {} /\ state'[a] = "none" /\ UNCHANGED <<status, rows>>
  BY DEF Crash, TypeOK, dbVars
<1> QED
  BY <1>1, EndOrder DEF InOrder, SettledComplete

(***************************************************************************)
(* Each agent stays in order.                                              *)
(***************************************************************************)
LEMMA NextInOrder ==
    ASSUME TypeOK, CourseInv, OrderInv, calm, [Next]_vars
    PROVE  \A a \in AgentRoles : InOrder(a)'
<1>1. ASSUME NEW a \in AgentRoles, AgentStep(a) \/ SignerStep(a) \/ Crash(a) PROVE \A b \in AgentRoles : InOrder(b)'
  <2>1. InOrder(a)'
    BY <1>1, DeliverOrder, HandlerOrder, SignerOrder, CrashOrder DEF AgentStep, OrderInv, CourseInv
  <2> QED
    BY <1>1, <2>1, Own, OthersInOrder DEF OrderInv
<1>2. ASSUME UNCHANGED <<status, rows, state, templates, running>> PROVE \A b \in AgentRoles : InOrder(b)'
  BY <1>2 DEF OrderInv, InOrder, HandlersInStep, InStep, SettledComplete, WaitingNegotiates, DoneComplete
<1>3. ASSUME NEW m \in channel, LoseDocument(m) \/ RepeatMessage(m)
      PROVE  UNCHANGED <<status, rows, state, templates, running>>
  BY <1>3 DEF LoseDocument, RepeatMessage, dbVars, instVars
<1>4. UNCHANGED vars => UNCHANGED <<status, rows, state, templates, running>>
  BY DEF vars, dbVars, instVars
<1> QED
  BY <1>1, <1>2, <1>3, <1>4 DEF Next, Fault

\* What the handing over of m to a does for others to see.
Handed(a, m) ==
    /\ running[a] = {} /\ m.to = a /\ Addressed(m) /\ UNCHANGED <<status, external>>
    /\ \A k \in running'[a] : k.msg = m /\ k.pc \in {"create", "upsert", "verifySetup"}
    /\ running'[a] # {} => m.type # "join"
    /\ running'[a] # {} /\ m.type = "start" => \A k \in running'[a] : k.pc = "create"
    /\ running'[a] # {} /\ m.type = "transactions" => state[a] = "TRANSACTIONS"
    /\ running'[a] # {} /\ m.type = "signatures" => state[a] = "SIGNATURES"
    /\ running'[a] # {} /\ m.type = "done" => state[a] = "DONE" /\ a = V
    /\ \A x \in channel' : x \in channel \/ (x.type = "transactions" /\ m.type # "start")
    /\ \/ state'[a] = state[a] /\ (running'[a] # {} => m.type # "transactions")
       \/ m.type = "join" /\ state'[a] = "TRANSACTIONS"
       \/ /\ m.type = "transactions" /\ state[a] = "TRANSACTIONS" /\ state'[a] = "SIGNATURES"
          /\ \A x \in channel' : x.to = a => x.type # "join"

(***************************************************************************)
(* Every delivery has one of these effects.                                *)
(***************************************************************************)
LEMMA DeliverEffect ==
    ASSUME TypeOK, CourseInv, calm, NEW a \in AgentRoles, NEW m \in channel, Deliver(a, m)
    PROVE  Handed(a, m)
<1>1. running[a] = {} /\ m.to = a /\ Addressed(m) /\ UNCHANGED <<status, external>>
  BY DEF Deliver, OnStart, OnJoin, OnTransactions, OnSignatures, OnDone, Ignore, Received, Fetch, CourseInv, dbVars
<1>2. running \in [AgentRoles -> SUBSET Handlers] /\ state \in [AgentRoles -> SetupState]
  BY DEF TypeOK
<1>3. ASSUME NEW pc, NEW held, Begin(a, m, pc, held) PROVE running'[a] = {[msg |-> m, pc |-> pc, held |-> held]}
  BY <1>1, <1>2, <1>3 DEF Begin
<1>4. Unfetched(a, m) \subseteq channel
  BY DEF Unfetched
<1>5. CASE OnStart(a, m)
  <2>1. running'[a] = {[msg |-> m, pc |-> "create", held |-> NoTemplates]}
    BY <1>3, <1>5 DEF OnStart
  <2> QED
    BY <1>1, <1>4, <1>5, <2>1 DEF OnStart, Received, instVars, Handed
<1>6. CASE OnJoin(a, m)
  <2>1. \A x \in channel' : x \in channel \/ x.type = "transactions"
    <3>1. channel' = Unfetched(a, m) \cup {Message(V, "transactions", FALSE)}
      BY <1>6 DEF OnJoin
    <3>2. Message(V, "transactions", FALSE).type = "transactions"
      BY DEF Message
    <3> QED
      BY <1>4, <3>1, <3>2
  <2> QED
    BY <1>1, <1>2, <1>6, <2>1 DEF OnJoin, Handed
<1>7. CASE OnTransactions(a, m)
  <2>1. running'[a] = {[msg |-> m, pc |-> "upsert", held |-> templates'[a]]}
    BY <1>3, <1>7 DEF OnTransactions
  <2>2. \A x \in channel' : x \in Unfetched(a, m) \/ x.type = "transactions"
    <3>1. channel' = Unfetched(a, m) \cup (IF a = V THEN {Message(P, "transactions", FALSE)} ELSE {})
      BY <1>7 DEF OnTransactions
    <3>2. Message(P, "transactions", FALSE).type = "transactions"
      BY DEF Message
    <3> QED
      BY <3>1, <3>2
  <2>3. m.type = "transactions" /\ state[a] = "TRANSACTIONS" /\ state'[a] = "SIGNATURES"
    BY <1>2, <1>7 DEF OnTransactions, Accepts
  <2>4. ASSUME NEW x \in channel', x.to = a PROVE x.type # "join"
    <3>1. CASE x \in Unfetched(a, m)
      <4>1. Rank(x.type) >= Rank("transactions")
        BY <2>3, <2>4, <3>1 DEF Unfetched
      <4> QED
        BY <4>1 DEF Rank
    <3> QED
      BY <2>2, <2>4, <3>1
  <2>5. \A x \in channel' : x \in channel \/ x.type = "transactions"
    BY <1>4, <2>2
  <2> QED
    BY <1>1, <2>1, <2>3, <2>4, <2>5 DEF Handed
<1>8. CASE OnSignatures(a, m)
  <2>1. running'[a] = {[msg |-> m, pc |-> "upsert", held |-> templates[a]]}
    BY <1>3, <1>8 DEF OnSignatures
  <2> QED
    BY <1>1, <1>4, <1>8, <2>1 DEF OnSignatures, Accepts, Received, instVars, Handed
<1>9. CASE OnDone(a, m)
  <2>1. running'[a] = {[msg |-> m, pc |-> "verifySetup", held |-> NoTemplates]}
    BY <1>3, <1>9 DEF OnDone
  <2> QED
    BY <1>1, <1>4, <1>9, <2>1 DEF OnDone, Accepts, Received, instVars, Handed
<1>10. CASE Ignore(a, m)
  BY <1>1, <1>4, <1>10 DEF Ignore, Received, instVars, Handed
<1> QED
  BY <1>5, <1>6, <1>7, <1>8, <1>9, <1>10 DEF Deliver

\* A signer changes a status that it alone answers.
Signed(a) ==
    /\ UNCHANGED <<running, state, channel, external>>
    /\ status[a] \in {"UNSIGNED", "MERGED"} /\ status'[a] \in {"SIGNED", "VERIFIED"}

\* A restarted agent keeps the database and the messages.
Restarted(a) ==
    /\ UNCHANGED <<status, channel, external>>
    /\ running'[a] = {} /\ state'[a] = "none"

\* A fault of the channel puts nothing into it that was not there.
Kept ==
    /\ UNCHANGED <<status, rows, state, templates, running, external, calm>>
    /\ \A x \in channel' : \E y \in channel : x.type = y.type /\ x.to = y.to

(***************************************************************************)
(* Every step is one of these, in the part that the agents see of each     *)
(* other.                                                                  *)
(***************************************************************************)
LEMMA NextEffect ==
    ASSUME TypeOK, CourseInv, OrderInv, calm, [Next]_vars
    PROVE  \/ \E a \in AgentRoles : /\ OwnStep(a)
                                    /\ \/ \E m \in channel : Handed(a, m)
                                       \/ \E h \in running[a] : Effect(a, h)
                                       \/ Signed(a)
                                       \/ Restarted(a)
           \/ Kept
<1>1. ASSUME NEW a \in AgentRoles, AgentStep(a)
      PROVE  OwnStep(a) /\ ((\E m \in channel : Handed(a, m)) \/ \E h \in running[a] : Effect(a, h))
  BY <1>1, Own, DeliverEffect, HandlerEffect DEF AgentStep, OrderInv
<1>2. ASSUME NEW a \in AgentRoles, SignerStep(a) PROVE OwnStep(a) /\ Signed(a)
  <2>1. OwnStep(a)
    BY <1>2, Own
  <2> QED
    BY <1>2, <2>1 DEF SignerStep, SignSetups, VerifySetups, Signed, instVars, TypeOK
<1>3. ASSUME NEW a \in AgentRoles, Crash(a) PROVE OwnStep(a) /\ Restarted(a)
  <2>1. OwnStep(a)
    BY <1>3, Own
  <2> QED
    BY <1>3, <2>1 DEF Crash, Restarted, dbVars, TypeOK
<1>4. ASSUME NEW m \in channel, LoseDocument(m) \/ RepeatMessage(m) PROVE Kept
  <2>1. channel \subseteq Messages
    BY DEF TypeOK
  <2>2. \A x \in channel' : \E y \in channel : x.type = y.type /\ x.to = y.to
    BY <1>4, <2>1 DEF LoseDocument, RepeatMessage, Messages
  <2> QED
    BY <1>4, <2>2 DEF LoseDocument, RepeatMessage, Kept, dbVars, instVars
<1>5. UNCHANGED vars => Kept
  BY DEF vars, dbVars, instVars, Kept
<1> QED
  BY <1>1, <1>2, <1>3, <1>4, <1>5 DEF Next, Fault

-----------------------------------------------------------------------------
(* What the agents know of each other.                                     *)

(***************************************************************************)
(* Until the verifier has its instance nobody has said anything but START. *)
(***************************************************************************)
LEMMA NextFreshStart ==
    ASSUME TypeOK, CourseInv, OrderInv, calm, [Next]_vars
    PROVE  FreshStart'
<1> DEFINE Early == status[V] = "none" \/ (\E h \in running[V] : h.pc = "init")
           Silent == /\ state[P] = "none" /\ running[P] = {} /\ status[P] = "PENDING"
                     /\ state[V] = "none"
                     /\ \A m \in channel : m.type = "start"
<1>1. (Early => Silent) /\ P \in AgentRoles /\ V \in AgentRoles /\ P # V /\ HandlersInStep(V)
  BY DEF OrderInv, FreshStart, InOrder, AgentRoles, P, V
<1>2. SUFFICES ASSUME Early' PROVE Silent'
  BY DEF FreshStart
<1>3. ASSUME NEW h \in running[V], h.pc = "init" \/ status[V] = "none"
      PROVE  status[V] \in {"none", "PENDING"} /\ h.pc \in {"create", "init"} /\ (h.pc = "init" => status[V] = "PENDING")
  <2>1. status[V] \in StatusAt(V, h.msg.type, h.pc)
    BY <1>1 DEF HandlersInStep, InStep
  <2> QED
    BY <1>3, <2>1 DEF StatusAt, Negotiating, Settled
<1>4. ASSUME OwnStep(V) PROVE state'[P] = state[P] /\ running'[P] = running[P] /\ status'[P] = status[P]
  BY <1>1, <1>4 DEF OwnStep
<1>5. ASSUME OwnStep(P) PROVE state'[V] = state[V] /\ running'[V] = running[V] /\ status'[V] = status[V]
  BY <1>1, <1>5 DEF OwnStep
<1>6. ASSUME NEW m \in channel, OwnStep(V), Handed(V, m) PROVE Silent'
  <2>1. Silent
    BY <1>1, <1>2, <1>6 DEF Handed
  <2> QED
    BY <1>4, <1>6, <2>1 DEF Handed
<1>7. ASSUME NEW m \in channel, OwnStep(P), Handed(P, m) PROVE FALSE
  <2>1. Silent
    BY <1>1, <1>2, <1>5, <1>7
  <2> QED
    BY <1>1, <1>7, <2>1 DEF Handed, Addressed
<1>8. ASSUME NEW h \in running[V], OwnStep(V), Effect(V, h) PROVE Silent'
  <2>1. status[V] = "none"
    BY <1>2, <1>8 DEF Effect
  <2>2. h.pc = "create"
    BY <1>3, <2>1
  <2> QED
    BY <1>1, <1>4, <1>8, <2>1, <2>2 DEF Effect
<1>9. ASSUME NEW h \in running[P], OwnStep(P), Effect(P, h) PROVE FALSE
  BY <1>1, <1>2, <1>5, <1>9
<1>10. ASSUME OwnStep(V), Signed(V) PROVE FALSE
  BY <1>2, <1>3, <1>10 DEF Signed
<1>11. ASSUME OwnStep(P), Signed(P) PROVE FALSE
  BY <1>1, <1>2, <1>5, <1>11 DEF Signed
<1>12. ASSUME OwnStep(V), Restarted(V) PROVE Silent'
  BY <1>1, <1>2, <1>4, <1>12 DEF Restarted
<1>13. ASSUME OwnStep(P), Restarted(P) PROVE Silent'
  BY <1>1, <1>2, <1>5, <1>13 DEF Restarted
<1>14. ASSUME Kept PROVE Silent'
  BY <1>1, <1>2, <1>14 DEF Kept
<1> QED
  BY <1>6, <1>7, <1>8, <1>9, <1>10, <1>11, <1>12, <1>13, <1>14, NextEffect DEF AgentRoles

(***************************************************************************)
(* Nothing brings a JOIN to a prover that has gone on.                     *)
(***************************************************************************)
LEMMA NextJoinEarly ==
    ASSUME TypeOK, CourseInv, OrderInv, calm, [Next]_vars
    PROVE  JoinEarly'
<1> DEFINE Early == (\E m \in channel : m.type = "join") \/ state[P] = "TRANSACTIONS"
           Waits == status[P] = "PENDING" /\ running[P] = {} /\ state[P] \in {"none", "TRANSACTIONS"}
<1>1. (Early => Waits) /\ P \in AgentRoles /\ V \in AgentRoles /\ P # V /\ HandlersInStep(V) /\ FreshStart
  BY DEF OrderInv, JoinEarly, InOrder, AgentRoles, P, V
<1>2. SUFFICES ASSUME Early' PROVE Waits'
  BY DEF JoinEarly
<1>3. \A a \in AgentRoles : \A h \in running[a] : OnCourse(a, h)
  BY DEF CourseInv
<1>4. ASSUME OwnStep(V) PROVE state'[P] = state[P] /\ running'[P] = running[P] /\ status'[P] = status[P]
  BY <1>1, <1>4 DEF OwnStep
<1>5. ASSUME NEW m \in channel, OwnStep(V), Handed(V, m) PROVE Waits'
  <2>1. Early
    BY <1>2, <1>4, <1>5 DEF Handed
  <2> QED
    BY <1>1, <1>4, <1>5, <2>1
<1>6. ASSUME NEW m \in channel, OwnStep(P), Handed(P, m) PROVE Waits'
  <2>1. \A x \in channel : x.type = "join" => x.to = P
    BY DEF CourseInv, Addressed
  <2>2. \A x \in channel' : x.type = "join" => x.to = P /\ x \in channel
    BY <1>6, <2>1 DEF Handed
  <2>3. Early /\ state'[P] \in {"none", "TRANSACTIONS"}
    BY <1>1, <1>2, <1>6, <2>2 DEF Handed
  <2>4. running'[P] = {}
    <3>1. SUFFICES ASSUME running'[P] # {} PROVE FALSE
      OBVIOUS
    <3>2. state[P] \in {"none", "TRANSACTIONS"}
      BY <1>1, <2>3
    <3>3. m.type \in {"start", "transactions", "join", "signatures", "done"}
      BY DEF TypeOK, Messages, MessageType
    <3>4. m.type # "start"
      BY <1>1, <1>6 DEF Handed, Addressed
    <3>5. m.type = "transactions"
      BY <1>6, <3>1, <3>2, <3>3, <3>4 DEF Handed
    <3> QED
      BY <1>6, <2>3, <3>1, <3>5 DEF Handed
  <2> QED
    BY <1>1, <1>6, <2>3, <2>4 DEF Handed
<1>7. ASSUME NEW h \in running[V], OwnStep(V), Effect(V, h) PROVE Waits'
  <2>1. CASE Early
    BY <1>1, <1>4, <1>7, <2>1
  <2>2. CASE ~Early
    <3>1. h.pc = "init"
      BY <1>2, <1>4, <1>7, <2>2 DEF Effect
    <3> QED
      BY <1>1, <1>4, <1>7, <3>1 DEF FreshStart
  <2> QED
    BY <2>1, <2>2
<1>8. ASSUME NEW h \in running[P], OwnStep(P), Effect(P, h) PROVE FALSE
  <2>1. h.pc # "init"
    <3>1. h.msg.type # "start" /\ h.pc \in Course(P, h.msg.type)
      BY <1>1, <1>3 DEF OnCourse, Addressed
    <3> QED
      BY <3>1 DEF Course
  <2>2. Early
    BY <1>2, <1>8, <2>1 DEF Effect
  <2> QED
    BY <1>1, <2>2
<1>9. ASSUME OwnStep(V), Signed(V) PROVE Waits'
  BY <1>1, <1>2, <1>4, <1>9 DEF Signed
<1>10. ASSUME OwnStep(P), Signed(P) PROVE FALSE
  BY <1>1, <1>2, <1>10 DEF Signed
<1>11. ASSUME OwnStep(V), Restarted(V) PROVE Waits'
  BY <1>1, <1>2, <1>4, <1>11 DEF Restarted
<1>12. ASSUME OwnStep(P), Restarted(P) PROVE Waits'
  BY <1>1, <1>2, <1>12 DEF Restarted
<1>13. ASSUME Kept PROVE Waits'
  BY <1>1, <1>2, <1>13 DEF Kept
<1> QED
  BY <1>5, <1>6, <1>7, <1>8, <1>9, <1>10, <1>11, <1>12, <1>13, NextEffect DEF AgentRoles

(***************************************************************************)
(* At the verifier only a handler of DONE marks the setup ACTIVE, at the   *)
(* prover only one of SIGNATURES does, and only the prover's handler sends *)
(* the external transactions.                                              *)
(***************************************************************************)
LEMMA WhoMarks ==
    ASSUME TypeOK, CourseInv, OrderInv
    PROVE  /\ \A h \in running[P] : h.pc \in {"markActive", "stake", "payload"} => h.msg.type = "signatures"
           /\ \A h \in running[V] : /\ h.pc = "markActive" => h.msg.type = "done"
                                    /\ h.pc \notin {"stake", "payload"}
<1>1. \A a \in AgentRoles : \A h \in running[a] : OnCourse(a, h)
  BY DEF CourseInv
<1>2. P \in AgentRoles /\ V \in AgentRoles /\ P # V
  BY DEF AgentRoles, P, V
<1>3. ASSUME NEW h \in running[P], h.pc \in {"markActive", "stake", "payload"} PROVE h.msg.type = "signatures"
  <2>1. h.pc \in Course(P, h.msg.type) /\ h.msg.type # "done"
    BY <1>1, <1>2 DEF OnCourse
  <2> QED
    BY <1>3, <2>1 DEF Course
<1>4. ASSUME NEW h \in running[V] PROVE (h.pc = "markActive" => h.msg.type = "done") /\ h.pc \notin {"stake", "payload"}
  <2>1. h.pc \in Course(V, h.msg.type)
    BY <1>1, <1>2 DEF OnCourse
  <2> QED
    BY <1>2, <2>1 DEF Course
<1> QED
  BY <1>3, <1>4

(***************************************************************************)
(* What a verifier that has sent its signatures does next leaves it        *)
(* settled.                                                                *)
(***************************************************************************)
LEMMA SettledStays ==
    ASSUME TypeOK, CourseInv, OrderInv, VerifierSettled, NEW h \in running[V], Effect(V, h)
    PROVE  VerifierSettled'
<1>1. /\ status[V] \in Settled /\ running[V] = {h} /\ (h.msg.type = "done" \/ h.pc \in {"create", "finish"})
      /\ (state[V] \in {"none", "DONE"} \/ h.pc = "finish")
      /\ InStep(V, h.msg.type, h.pc, h.held) /\ (h.msg.type = "done" => state[V] = "DONE")
      /\ (h.msg.type = "done" => h.pc \in Course(V, "done"))
  BY DEF VerifierSettled, OrderInv, InOrder, HandlersInStep, DoneComplete, CourseInv, OnCourse, AgentRoles, V
<1>2. CASE h.pc = "create"
  <2>1. running'[V] = {} /\ status'[V] = status[V] /\ state'[V] = state[V] /\ state[V] = "none"
    BY <1>1, <1>2 DEF Effect, InStep, Settled
  <2> QED
    BY <1>1, <2>1 DEF VerifierSettled
<1>3. CASE h.pc = "finish"
  BY <1>1, <1>3 DEF Effect, VerifierSettled
<1>4. CASE h.msg.type = "done"
  <2>1. h.pc \in {"verifySetup", "save", "markActive", "sendDone"}
    BY <1>1, <1>4 DEF Course
  <2>2. status'[V] \in Settled
    BY <1>1, <2>1 DEF Effect, Settled
  <2> QED
    BY <1>1, <1>4, <2>1, <2>2 DEF Effect, VerifierSettled
<1> QED
  BY <1>1, <1>2, <1>3, <1>4

(***************************************************************************)
(* The prover goes on only after the verifier is settled.                  *)
(***************************************************************************)
LEMMA NextSettledFirst ==
    ASSUME TypeOK, CourseInv, OrderInv, calm, [Next]_vars
    PROVE  SettledFirst'
<1> DEFINE Heard == \/ \E m \in channel : m.type = "signatures" /\ m.to = P
                    \/ \E h \in running[P] : h.msg.type = "signatures"
                    \/ status[P] = "ACTIVE"
<1>1. (Heard => VerifierSettled) /\ P \in AgentRoles /\ V \in AgentRoles /\ P # V /\ HandlersInStep(V)
  BY DEF OrderInv, SettledFirst, InOrder, AgentRoles, P, V
<1>2. SUFFICES ASSUME Heard' PROVE VerifierSettled'
  BY DEF SettledFirst
<1>3. Other(P) = V /\ Other(V) = P
  BY <1>1 DEF Other
<1>4. ASSUME OwnStep(V) PROVE state'[P] = state[P] /\ running'[P] = running[P] /\ status'[P] = status[P]
  BY <1>1, <1>4 DEF OwnStep
<1>5. ASSUME OwnStep(P), VerifierSettled PROVE VerifierSettled'
  BY <1>1, <1>5 DEF OwnStep, VerifierSettled
<1>6. ASSUME NEW m \in channel, OwnStep(V), Handed(V, m) PROVE VerifierSettled'
  <2>1. VerifierSettled
    BY <1>1, <1>2, <1>4, <1>6 DEF Handed
  <2>2. running[V] = {} /\ state[V] \in {"none", "DONE"} /\ status'[V] \in Settled
    BY <1>6, <2>1 DEF Handed, VerifierSettled
  <2>3. m.type \in {"start", "transactions", "join", "signatures", "done"}
    BY DEF TypeOK, Messages, MessageType
  <2>4. state'[V] = state[V]
    BY <1>1, <1>6, <2>2 DEF Handed, Addressed
  <2>5. \A k \in running'[V] : k.msg.type = "done" \/ k.pc = "create"
    BY <1>6, <2>2, <2>3 DEF Handed
  <2> QED
    BY <2>2, <2>4, <2>5 DEF VerifierSettled
<1>7. ASSUME NEW m \in channel, OwnStep(P), Handed(P, m) PROVE VerifierSettled'
  <2>1. Heard
    BY <1>2, <1>7 DEF Handed
  <2> QED
    BY <1>1, <1>5, <1>7, <2>1
<1>8. ASSUME NEW h \in running[V], OwnStep(V), Effect(V, h) PROVE VerifierSettled'
  <2>1. CASE Heard
    BY <1>1, <1>8, <2>1, SettledStays
  <2>2. CASE ~Heard
    <3>1. h.pc = "send"
      BY <1>2, <1>3, <1>4, <1>8, <2>2 DEF Effect
    <3>2. status[V] \in StatusAt(V, h.msg.type, "send")
      BY <1>1, <3>1 DEF HandlersInStep, InStep
    <3>3. status[V] = "VERIFIED"
      BY <1>1, <3>2 DEF StatusAt
    <3>4. status'[V] = "VERIFIED" /\ \E k : k.pc = "finish" /\ running'[V] = {k}
      BY <1>8, <3>1, <3>3 DEF Effect
    <3> QED
      BY <3>4 DEF VerifierSettled, Settled
  <2> QED
    BY <2>1, <2>2
<1>9. ASSUME NEW h \in running[P], OwnStep(P), Effect(P, h) PROVE VerifierSettled'
  <2>1. h.pc = "markActive" => h.msg.type = "signatures"
    BY WhoMarks
  <2>2. Heard
    BY <1>1, <1>2, <1>3, <1>9, <2>1 DEF Effect
  <2> QED
    BY <1>1, <1>5, <1>9, <2>2
<1>10. ASSUME OwnStep(V), Signed(V) PROVE FALSE
  BY <1>1, <1>2, <1>4, <1>10 DEF Signed, VerifierSettled, Settled
<1>11. ASSUME OwnStep(P), Signed(P) PROVE VerifierSettled'
  BY <1>1, <1>2, <1>5, <1>11 DEF Signed
<1>12. ASSUME OwnStep(V), Restarted(V) PROVE VerifierSettled'
  BY <1>1, <1>2, <1>4, <1>12 DEF Restarted, VerifierSettled
<1>13. ASSUME OwnStep(P), Restarted(P) PROVE VerifierSettled'
  BY <1>1, <1>2, <1>5, <1>13 DEF Restarted
<1>14. ASSUME Kept PROVE VerifierSettled'
  BY <1>1, <1>2, <1>14 DEF Kept, VerifierSettled
<1> QED
  BY <1>6, <1>7, <1>8, <1>9, <1>10, <1>11, <1>12, <1>13, <1>14, NextEffect DEF AgentRoles

(***************************************************************************)
(* An ACTIVE setup stays ACTIVE while handlers do not overlap: the steps   *)
(* that could change its status wait for another one.                      *)
(***************************************************************************)
LEMMA StaysActive ==
    ASSUME TypeOK, CourseInv, OrderInv, calm, [Next]_vars, NEW a \in AgentRoles, status[a] = "ACTIVE"
    PROVE  status'[a] = "ACTIVE"
<1>1. ASSUME NEW b \in AgentRoles, b # a, OwnStep(b) PROVE status'[a] = "ACTIVE"
  BY <1>1 DEF OwnStep
<1>2. ASSUME NEW h \in running[a], Effect(a, h) PROVE status'[a] = "ACTIVE"
  <2>1. status[a] \in StatusAt(a, h.msg.type, h.pc)
    BY DEF OrderInv, InOrder, HandlersInStep, InStep
  <2>2. h.pc \notin {"mark", "markMerged"}
    BY <2>1 DEF StatusAt, Negotiating
  <2> QED
    BY <1>2, <2>2 DEF Effect
<1>3. Signed(a) => FALSE
  BY DEF Signed
<1>4. (\E m \in channel : Handed(a, m)) \/ Restarted(a) \/ Kept => status'[a] = "ACTIVE"
  BY DEF Handed, Restarted, Kept
<1> QED
  BY <1>1, <1>2, <1>3, <1>4, NextEffect

(***************************************************************************)
(* Neither DONE nor an external transaction leaves before the prover is    *)
(* ACTIVE.                                                                 *)
(***************************************************************************)
LEMMA NextProverActiveFirst ==
    ASSUME TypeOK, CourseInv, OrderInv, calm, [Next]_vars
    PROVE  ProverActiveFirst'
<1> DEFINE Done == \/ \E m \in channel : m.type = "done" /\ m.to = V
                   \/ \E h \in running[V] : h.msg.type = "done"
                   \/ status[V] = "ACTIVE"
                   \/ external # {}
<1>1. (Done => status[P] = "ACTIVE") /\ P \in AgentRoles /\ V \in AgentRoles /\ P # V /\ HandlersInStep(P)
  BY DEF OrderInv, ProverActiveFirst, InOrder, AgentRoles, P, V
<1>2. SUFFICES ASSUME Done' PROVE status'[P] = "ACTIVE"
  BY DEF ProverActiveFirst
<1>3. SUFFICES status[P] = "ACTIVE"
  BY <1>1, StaysActive
<1>4. Other(P) = V /\ Other(V) = P
  BY <1>1 DEF Other
<1>5. ASSUME OwnStep(P) PROVE running'[V] = running[V] /\ status'[V] = status[V]
  BY <1>1, <1>5 DEF OwnStep
<1>6. ASSUME NEW m \in channel, Handed(V, m) PROVE Done
  BY <1>2, <1>6 DEF Handed
<1>7. ASSUME NEW m \in channel, OwnStep(P), Handed(P, m) PROVE Done
  BY <1>2, <1>5, <1>7 DEF Handed
<1>8. ASSUME NEW h \in running[V], OwnStep(V), Effect(V, h) PROVE Done
  BY <1>1, <1>2, <1>4, <1>8, WhoMarks DEF Effect
<1>9. ASSUME NEW h \in running[P], OwnStep(P), Effect(P, h) PROVE status[P] = "ACTIVE"
  <2>1. Done \/ h.pc \in {"sendDone", "stake", "payload"}
    BY <1>2, <1>4, <1>5, <1>9 DEF Effect
  <2>2. status[P] \in StatusAt(P, h.msg.type, h.pc)
    BY <1>1 DEF HandlersInStep, InStep
  <2>3. h.pc \in {"sendDone", "stake", "payload"} => status[P] = "ACTIVE"
    BY <2>2 DEF StatusAt
  <2> QED
    BY <1>1, <2>1, <2>3
<1>10. ASSUME OwnStep(V), Signed(V) PROVE Done
  BY <1>2, <1>10 DEF Signed
<1>11. ASSUME OwnStep(P), Signed(P) PROVE Done
  BY <1>2, <1>5, <1>11 DEF Signed
<1>12. ASSUME Restarted(V) PROVE Done
  BY <1>2, <1>12 DEF Restarted
<1>13. ASSUME OwnStep(P), Restarted(P) PROVE Done
  BY <1>2, <1>5, <1>13 DEF Restarted
<1>14. ASSUME Kept PROVE Done
  BY <1>2, <1>14 DEF Kept
<1> QED
  BY <1>1, <1>6, <1>7, <1>8, <1>9, <1>10, <1>11, <1>12, <1>13, <1>14, NextEffect DEF AgentRoles

(***************************************************************************)
(* Whether handlers overlap is settled at the start.                       *)
(***************************************************************************)
LEMMA CalmStays ==
    ASSUME TypeOK, [Next]_vars
    PROVE  UNCHANGED calm
<1>1. ASSUME NEW a \in AgentRoles, AgentStep(a) \/ SignerStep(a) \/ Crash(a) PROVE UNCHANGED calm
  BY <1>1, Own DEF OwnStep
<1>2. ASSUME NEW m \in channel, LoseDocument(m) \/ RepeatMessage(m) PROVE UNCHANGED calm
  BY <1>2 DEF LoseDocument, RepeatMessage
<1> QED
  BY <1>1, <1>2 DEF Next, Fault, vars

(***************************************************************************)
(* The order of the negotiation is kept by every step.                     *)
(***************************************************************************)
LEMMA NextOrder == TypeOK /\ CourseInv /\ (calm => OrderInv) /\ [Next]_vars => (calm => OrderInv)'
<1> SUFFICES ASSUME TypeOK, CourseInv, calm => OrderInv, [Next]_vars, calm'
             PROVE  OrderInv'
  OBVIOUS
<1>1. calm /\ OrderInv
  BY CalmStays
<1> QED
  BY <1>1, NextInOrder, NextFreshStart, NextJoinEarly, NextSettledFirst, NextProverActiveFirst DEF OrderInv

(***************************************************************************)
(* The negotiation starts in order.                                        *)
(***************************************************************************)
LEMMA InitOrder == Init => OrderInv
<1> SUFFICES ASSUME Init PROVE OrderInv
  OBVIOUS
<1>1. P \in AgentRoles /\ V \in AgentRoles /\ P # V
  BY DEF AgentRoles, P, V
<1>2. \A a \in AgentRoles : running[a] = {} /\ state[a] = "none" /\ status[a] \in {"none", "PENDING"}
  BY DEF Init
<1>3. /\ \A m \in channel : m.type = "start"
      /\ external = {} /\ status[P] = "PENDING" /\ status[V] = "none"
  BY <1>1 DEF Init
<1>4. \A a \in AgentRoles : InOrder(a)
  BY <1>2 DEF InOrder, HandlersInStep, SettledComplete, WaitingNegotiates, DoneComplete, Settled
<1>5. FreshStart /\ JoinEarly
  BY <1>1, <1>2, <1>3 DEF FreshStart, JoinEarly
<1>6. SettledFirst /\ ProverActiveFirst
  BY <1>1, <1>2, <1>3 DEF SettledFirst, ProverActiveFirst
<1> QED
  BY <1>4, <1>5, <1>6 DEF OrderInv

(***************************************************************************)
(* Whatever is lost, repeated or restarted: as long as no message reaches  *)
(* an agent while one of its handlers waits, each agent and what it knows  *)
(* of the other are in order.                                              *)
(***************************************************************************)
THEOREM OrderInvariant == Spec => [](calm => OrderInv)
<1>1. Init => (calm => OrderInv)
  BY InitOrder
<1>2. TypeOK /\ CourseInv /\ (calm => OrderInv) /\ [Next]_vars => (calm => OrderInv)'
  BY NextOrder
<1> QED
  BY <1>1, <1>2, SetupTypeCorrect, CourseInvariant, PTL DEF Spec

(***************************************************************************)
(* An ACTIVE setup has all its scripts and both parties' signatures in the *)
(* database from which the protocol is played.                             *)
(***************************************************************************)
THEOREM ActiveMeansComplete == Spec => []OrderlyActiveComplete
<1>1. (calm => OrderInv) => OrderlyActiveComplete
  BY DEF OrderInv, InOrder, SettledComplete, Settled, OrderlyActiveComplete, ActiveComplete
<1> QED
  BY <1>1, OrderInvariant, PTL

(***************************************************************************)
(* Funds are locked last: when an external transaction has been broadcast, *)
(* or the verifier plays, the prover is ACTIVE and neither database lacks  *)
(* a signature.                                                            *)
(***************************************************************************)
THEOREM FundsLast == Spec => []FundsLockedLast
<1>1. (calm => OrderInv) => FundsLockedLast
  <2> SUFFICES ASSUME OrderInv, external # {} \/ status[V] = "ACTIVE"
               PROVE  status[P] = "ACTIVE" /\ \A a \in AgentRoles : Complete(rows[a])
    BY DEF FundsLockedLast
  <2>1. status[P] = "ACTIVE"
    BY DEF OrderInv, ProverActiveFirst
  <2>2. status[V] \in Settled
    BY <2>1 DEF OrderInv, SettledFirst, VerifierSettled
  <2> QED
    BY <2>1, <2>2 DEF OrderInv, InOrder, SettledComplete, Settled, AgentRoles
<1> QED
  BY <1>1, OrderInvariant, PTL

(***************************************************************************)
(* No late or repeated message takes an ACTIVE setup back to signing.      *)
(***************************************************************************)
THEOREM ActiveForGood == Spec => ActiveStays
<1>1. TypeOK /\ CourseInv /\ (calm => OrderInv) /\ [Next]_vars =>
         [\A a \in AgentRoles : calm /\ status[a] = "ACTIVE" => status'[a] = "ACTIVE"]_vars
  BY StaysActive
<1> QED
  BY <1>1, SetupTypeCorrect, CourseInvariant, OrderInvariant, PTL DEF Spec, ActiveStays
=============================================================================
