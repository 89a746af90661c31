----------------------------- MODULE BitcoinNode -----------------------------
(***************************************************************************)
(* The Bitcoin node both agents talk to, as far as the repository uses it: *)
(* getBlockCount, testmempoolaccept, sendrawtransaction and the blocks the *)
(* listener reads.  External code, modelled from those uses:               *)
(*   - the mempool keeps the first of two conflicting transactions;        *)
(*   - a transaction with a relative timelock is refused until the next    *)
(*     block could contain it;                                             *)
(*   - a transaction stays in the mempool for at most InclusionDelay       *)
(*     blocks.                                                             *)
(* There are no reorganisations ("No re-organization support - we wait     *)
(* until blocks are finalized", bitcoin-listener.ts).                      *)
(***************************************************************************)
EXTENDS Templates

CONSTANTS
    MaxHeight,          \* bound on the length of the chain
    InclusionDelay      \* blocks a transaction may be passed over by miners

ASSUME NodeAssumption == MaxHeight \in Nat \ {0} /\ InclusionDelay \in Nat

VARIABLES
    height,         \* getBlockCount
    conf,           \* conf[t]: height of the block with t, 0 if there is none
    entered,        \* entered[t]: height at which t entered the mempool, or 0
    proofValid      \* does the proof of this peg-out satisfy groth16Verify?

nodeVars == <<height, conf, entered, proofValid>>

Confirmed == {t \in Names : conf[t] > 0}
Mempool == {t \in Protocol : entered[t] > 0}

NodeInit ==
    /\ height = 1
    /\ conf = [t \in Names |-> IF t \in External THEN 1 ELSE 0]
    /\ entered = [t \in Protocol |-> 0]
    /\ proofValid \in BOOLEAN

\* The scripts of PROOF_REFUTED accept a contradiction in the argument; that
\* there is one exactly for an invalid proof is taken as given here.
ScriptAccepts(t) == t = ProofRefuted => ~proofValid

TestMempoolAccept(t) ==
    /\ t \notin Confirmed \cup Mempool
    /\ ScriptAccepts(t)
    /\ \A in \in Inputs(t) :
          \/ in.tx \in Confirmed /\ conf[in.tx] + NSequence(in) <= height + 1
          \/ in.tx \in Mempool /\ NSequence(in) = 0
    /\ \A u \in Confirmed \cup Mempool : Spends(t) \cap Spends(u) = {}

SendRawTransaction(t) ==
    /\ entered' = [entered EXCEPT ![t] = height]
    /\ UNCHANGED <<height, conf, proofValid>>

MineBlock(S) ==
    /\ height < MaxHeight
    /\ \A t \in Mempool \ S : height - entered[t] < InclusionDelay
    /\ \A t \in S : \A in \in Inputs(t) : in.tx \in Confirmed \cup S
    /\ height' = height + 1
    /\ conf' = [t \in Names |-> IF t \in S THEN height + 1 ELSE conf[t]]
    /\ entered' = [t \in Protocol |-> IF t \in S THEN 0 ELSE entered[t]]
    /\ UNCHANGED proofValid

=============================================================================
