------------------------------ MODULE Listener ------------------------------
(***************************************************************************)
(* The Bitcoin listener of one agent, with several setups in its database: *)
(* checkForNewBlock, monitorTransmitted and searchBlock of                 *)
(* bitcoin-listener.ts, getTemplatesRows of listener-utils.ts and the      *)
(* queries they make.  A pass over the blocks is interrupted by an error   *)
(* (node or database) at any await, or by a restart of the process.        *)
(*                                                                         *)
(* A block holds at most one template of a setup, besides the two external *)
(* transactions (System!OneTemplatePerBlock).  Timelocks are not modelled: *)
(* more chains are possible here than there.                               *)
(***************************************************************************)
EXTENDS Templates, FiniteSetsExt, SequencesExt

CONSTANTS
    Setups,         \* the setups of the agent
    Started,        \* those that are ACTIVE when the listener starts
    Mined,          \* the templates that ever reach the chain, for each setup
    Finality,       \* agentConf.blocksUntilFinalized
    MaxLag,         \* bound on the blocks between signing and activation
    MaxHeight,      \* bound on the length of the chain
    MaxErrors       \* bound on failed calls and restarts

ASSUME ListenerAssumption ==
    /\ Mined \subseteq Protocol /\ Started \subseteq Setups
    /\ Finality \in Nat /\ MaxLag \in Nat
    /\ MaxHeight \in Nat \ {0} /\ MaxErrors \in Nat

VARIABLES
    height,         \* getBlockCount
    conf,           \* conf[s][t]: height of the block with template t of s, or 0
    active,         \* the setups whose status is ACTIVE
    checked,        \* checked[s]: last_checked_block_height
    received,       \* received[s]: the received rows, template to txid
    tip,            \* the tip of the last pass (tipHash), 0 for ''
    pc,             \* where the listener is
    block,          \* the block that is searched
    joined,         \* the setups of the rows loaded for this pass
    marked,         \* <<s, t>> with a blockHash in memory
    found,          \* ~noTxFound
    errors          \* the tips at which a call failed, in order

chainVars == <<height, conf, active>>
passVars == <<pc, block, joined, marked, found>>
vars == <<chainVars, checked, received, tip, passVars, errors>>

UnknownTxid == {Challenge, ProofRefuted}

Init ==
    /\ height = 1
    /\ conf = [s \in Setups |-> [t \in Names |-> 0]]
    /\ active = Started
    /\ checked = [s \in Setups |-> 0]
    /\ received = [s \in Setups |-> <<>>]
    /\ tip = 0
    /\ pc = "idle" /\ block = 0 /\ joined = {} /\ marked = {} /\ found = FALSE
    /\ errors = <<>>

-----------------------------------------------------------------------------
(* The chain and the other processes.                                      *)

Confirmed(s) == {t \in Names : conf[s][t] > 0}

\* What the next block may hold of a setup.  The agents answer a CHALLENGE
\* (STATE_0, CHALLENGE_UNCONTESTED) only after they have received it.
Candidates(s) ==
    IF s \notin active THEN {}
    ELSE IF Confirmed(s) = {} THEN {External}
    ELSE {{t} : t \in {t \in Mined \ Confirmed(s) :
            /\ \A in \in Inputs(t) : in.tx \in Confirmed(s)
            /\ t \in {State(0), ChallengeUncontested} => Challenge \in Confirmed(s)
            /\ \A u \in Confirmed(s) : Spends(t) \cap Spends(u) = {}}}

Mine ==
    /\ height < MaxHeight
    /\ height' = height + 1
    /\ \E content \in [Setups -> UNION {Candidates(s) : s \in Setups} \cup {{}}] :
          /\ \A s \in Setups : content[s] \in Candidates(s) \cup {{}}
          /\ conf' = [s \in Setups |-> [t \in Names |->
                         IF t \in content[s] THEN height + 1 ELSE conf[s][t]]]
    /\ UNCHANGED <<active, checked, received, tip, passVars, errors>>

\* sendSignatures wrote last_checked_block_height at some earlier tip; the
\* setup is ACTIVE before its external transactions are broadcast.
Activate(s) ==
    /\ s \notin active /\ Confirmed(s) = {}
    /\ active' = active \cup {s}
    /\ \E h \in 0 .. height - 1 :
          height - h <= MaxLag /\ checked' = [checked EXCEPT ![s] = h]
    /\ UNCHANGED <<height, conf, received, tip, passVars, errors>>

\* The protocol process records an outcome: the setup is no longer ACTIVE.
Settle(s) ==
    /\ s \in active
    /\ DOMAIN received[s] \cap Payouts # {}
    /\ active' = active \ {s}
    /\ UNCHANGED <<height, conf, checked, received, tip, passVars, errors>>

-----------------------------------------------------------------------------
(* The listener.                                                           *)

\* Mutant: the rows come in any order, the scan starts at the first one.
StartBlockUnsorted(S) == checked[CHOOSE s \in S : TRUE] + 1

\* getActiveSetups orders the setups by last_checked_block_height.
StartBlock(S) == Min({checked[s] : s \in S}) + 1

\* Between passes nothing is kept but the tip: joinedTemplates is loaded again.
Idle == pc' = "idle" /\ block' = 0 /\ joined' = {} /\ marked' = {} /\ found' = FALSE

\* checkForNewBlock and the queries of getTemplatesRows.  The templates of a
\* setup that cannot be read are left out of the pass; if only its received
\* rows cannot be read, all its templates look pending.
CheckForNewBlock(S, unread) ==
    /\ pc = "idle"
    /\ tip # height
    /\ tip' = height
    /\ S \subseteq active /\ unread \subseteq S
    /\ errors' = IF S = active /\ unread = {} THEN errors ELSE Append(errors, height)
    /\ Len(errors') <= MaxErrors
    /\ IF S = {} THEN Idle
       ELSE /\ joined' = S
            /\ marked' = UNION {{s} \X DOMAIN received[s] : s \in S \ unread}
            /\ found' = FALSE
            /\ pc' = "known" /\ block' = StartBlock(S)
    /\ UNCHANGED <<chainVars, checked, received>>

\* Mutant: the block that has just become final is left for the next pass.
LastFinalExclusive == tip - Finality - 1

\* Mutant: blocks are looked at before they are final.
LastFinalTip == tip

\* Blocks are looked at once they are final, seen from the tip of the pass.
LastFinal == tip - Finality

Pending == (joined \X Names) \ marked

EndPass ==
    /\ pc = "known" /\ ~found
    /\ block > LastFinal
    /\ Idle
    /\ UNCHANGED <<chainVars, checked, received, tip, errors>>

\* The pending templates searchBlock finds in the block: by their own txid, or,
\* for a template with unknown txid, by a transaction that spends any output of
\* its parent.
KnownMatches ==
    {x \in Pending : x[2] \notin UnknownTxid /\ conf[x[1]][x[2]] = block}
UnknownMatches ==
    UNION {{<<x[1], x[2], u>> : u \in {u \in Names :
                  /\ conf[x[1]][u] = block
                  /\ \E in \in Inputs(x[2]), out \in Inputs(u) : in.tx = out.tx}} :
              x \in {p \in Pending : p[2] \in UnknownTxid}}

\* template_id is the primary key.
WithRow(rows, t, txid) ==
    [x \in DOMAIN rows \cup {t} |-> IF x \in DOMAIN rows THEN rows[x] ELSE txid]

\* Mutant: a plain INSERT, without the constraint on txid.
MarkReceivedTwice(s, t, txid) ==
    /\ marked' = marked \cup {<<s, t>>}
    /\ found' = TRUE
    /\ received' = [received EXCEPT ![s] = WithRow(@, t, txid)]

\* db.markReceived: ON CONFLICT (txid) DO NOTHING.  The template has a blockHash
\* in memory either way.
MarkReceived(s, t, txid) ==
    /\ marked' = marked \cup {<<s, t>>}
    /\ found' = TRUE
    /\ received' =
          IF \E x \in DOMAIN received[s] : received[s][x] = txid
          THEN received
          ELSE [received EXCEPT ![s] = WithRow(@, t, txid)]

\* The rows come by last_checked_block_height, then by ordinal.
Before(x, y) ==
    \/ checked[x[1]] < checked[y[1]]
    \/ x[1] = y[1] /\ Ordinal(x[2]) < Ordinal(y[2])
FirstOf(X) == {x \in X : \A y \in X : ~Before(y, x)}

SearchKnown ==
    /\ pc = "known"
    /\ block <= LastFinal
    /\ \E x \in FirstOf(KnownMatches) : MarkReceived(x[1], x[2], x[2])
    /\ UNCHANGED <<chainVars, checked, tip, pc, block, joined, errors>>

KnownDone ==
    /\ pc = "known"
    /\ block <= LastFinal
    /\ KnownMatches = {}
    /\ pc' = "unknown"
    /\ UNCHANGED <<chainVars, checked, received, tip, block, joined, marked, found, errors>>

SearchUnknown ==
    /\ pc = "unknown"
    /\ \E x \in UnknownMatches : MarkReceived(x[1], x[2], x[3])
    /\ UNCHANGED <<chainVars, checked, tip, pc, block, joined, errors>>

\* Mutant: the progress is written to every setup of the database.
ProgressAll == IF found THEN checked ELSE [s \in Setups |-> block]

\* updateSetupLastCheckedBlockHeightBatch, when the block held nothing new.
Progress == IF found THEN checked
            ELSE [s \in Setups |-> IF s \in joined THEN block ELSE checked[s]]

UnknownDone ==
    /\ pc = "unknown"
    /\ UnknownMatches = {}
    /\ checked' = Progress
    /\ pc' = "known" /\ block' = block + 1 /\ found' = FALSE
    /\ UNCHANGED <<chainVars, received, tip, joined, marked, errors>>

\* An exception ends the pass; it is caught in startBlockchainCrawler and the
\* tip has been recorded: the next pass waits for the next block.
Fail ==
    /\ pc # "idle" /\ Len(errors) < MaxErrors
    /\ errors' = Append(errors, tip)
    /\ Idle
    /\ UNCHANGED <<chainVars, checked, received, tip>>

\* A restarted listener starts with tipHash ''.
Restart ==
    /\ Len(errors) < MaxErrors
    /\ errors' = Append(errors, 0)
    /\ tip' = 0
    /\ Idle
    /\ UNCHANGED <<chainVars, checked, received>>

ListenerStep ==
    \/ CheckForNewBlock(active, {})
    \/ EndPass
    \/ SearchKnown
    \/ KnownDone
    \/ SearchUnknown
    \/ UnknownDone

Next ==
    \/ Mine
    \/ \E s \in Setups : Activate(s) \/ Settle(s)
    \/ ListenerStep
    \/ \E S \in SUBSET active : \E unread \in SUBSET S : CheckForNewBlock(S, unread)
    \/ Fail
    \/ Restart

\* The listener is a loop that runs forever and does not fail forever, and
\* blocks keep coming.
Spec == Init /\ [][Next]_vars /\ WF_vars(ListenerStep) /\ WF_vars(Mine)

-----------------------------------------------------------------------------
(* Properties.                                                             *)

\* Every variable has its type; the progress of a setup is the height it was
\* signed at or a final block, and no pass looks past the chain.
TypeOK ==
    /\ height \in 1 .. MaxHeight
    /\ conf \in [Setups -> [Names -> 0 .. height]]
    /\ active \subseteq Setups /\ joined \subseteq Setups
    /\ checked \in [Setups -> 0 .. height]
    /\ \A s \in Setups : checked[s] < height \/ checked[s] + Finality <= height
    /\ \A s \in Setups : DOMAIN received[s] \subseteq Names
    /\ tip \in 0 .. height
    /\ pc \in {"idle", "known", "unknown"}
    /\ block \in 0 .. height + 1
    /\ marked \subseteq Setups \X Names
    /\ found \in BOOLEAN
    /\ Range(errors) \subseteq 0 .. height /\ Len(errors) <= MaxErrors

\* A received row is right, although CHALLENGE and PROOF_REFUTED are recognised
\* by any spend of their parent: it names the transaction of its template, in a
\* final block (searchBlock, markReceived).
ReceivedRight ==
    \A s \in Setups : \A t \in DOMAIN received[s] :
        received[s][t] = t /\ conf[s][t] \in 1 .. height - Finality

\* One last_checked_block_height is read for the whole pass and written to all
\* its setups; nothing confirmed up to a setup's own height was passed over,
\* whatever failed (monitorTransmitted).
NothingSkipped ==
    \A s \in Setups : \A t \in Names :
        conf[s][t] \in 1 .. checked[s] => t \in DOMAIN received[s]

\* A later template of a setup is never received without the earlier ones: the
\* protocol processes act on the last received row (getReceivedTransactions).
GapFree ==
    \A s \in Setups : \A t, u \in Confirmed(s) :
        conf[s][u] < conf[s][t] /\ t \in DOMAIN received[s] => u \in DOMAIN received[s]

\* What is confirmed in a block that becomes final is received, although the
\* tip is recorded before the pass and a failed pass is not repeated: unless no
\* block comes after the failure (checkForNewBlock).
EventuallyReceived ==
    <>[](MaxHeight \notin Range(errors) =>
            \A s \in active : \A t \in Names :
                conf[s][t] \in 1 .. MaxHeight - Finality => t \in DOMAIN received[s])
=============================================================================
