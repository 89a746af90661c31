------------------------------- MODULE TxFlow -------------------------------
(***************************************************************************)
(* What the transaction graph of Templates promises, whoever publishes     *)
(* what and whenever: the chain confirms any set of templates that Bitcoin *)
(* consensus admits.  This is the abstract specification that System, with *)
(* its agents, databases and senders, implements.                          *)
(*                                                                         *)
(* Consensus is external to the repository.  It is modelled by the three   *)
(* rules the graph relies on: an input needs its parent, an outpoint is    *)
(* spent once, and a spending condition with timeoutBlocks n               *)
(* (OP_CHECKSEQUENCEVERIFY) needs a parent at least n blocks deep.         *)
(* Signatures and scripts are not checked here: fewer transactions would   *)
(* be admitted, so what holds here holds with them.                        *)
(***************************************************************************)
EXTENDS Templates

CONSTANT MaxHeight      \* bound on the length of the chain

ASSUME MaxHeightAssumption == MaxHeight \in Nat

VARIABLES
    height,     \* number of blocks (getBlockCount)
    conf        \* conf[t] is the height of the block with t, 0 before that

vars == <<height, conf>>

Confirmed == {t \in Names : conf[t] > 0}

\* The setup becomes active when the external transactions are on chain.
Init ==
    /\ height = 1
    /\ conf = [t \in Names |-> IF t \in External THEN 1 ELSE 0]

\* May t be in the next block, together with the templates in S?
Final(t, S) ==
    \A in \in Inputs(t) :
        \/ in.tx \in Confirmed /\ conf[in.tx] + NSequence(in) <= height + 1
        \/ in.tx \in S /\ NSequence(in) = 0

\* No two different transactions of S spend the same outpoint.
Compatible(S) ==
    \A t, u \in S : t # u => Spends(t) \cap Spends(u) = {}

\* The templates that could be in the next block at all.
Candidates ==
    {t \in Protocol \ Confirmed : Final(t, Protocol) /\ Compatible({t} \cup Confirmed)}

\* Mutant of Confirm: records a block one too high.
ConfirmAhead(S) ==
    /\ \A t \in S : Final(t, S)
    /\ Compatible(S \cup Confirmed)
    /\ conf' = [t \in Names |-> IF t \in S THEN height + 2 ELSE conf[t]]

Confirm(S) ==
    /\ \A t \in S : Final(t, S)
    /\ Compatible(S \cup Confirmed)
    /\ conf' = [t \in Names |-> IF t \in S THEN height + 1 ELSE conf[t]]

MineBlock ==
    /\ height < MaxHeight
    /\ height' = height + 1
    /\ \E S \in SUBSET Candidates : Confirm(S)

Next == MineBlock

Spec == Init /\ [][Next]_vars

-----------------------------------------------------------------------------

TypeOK ==
    /\ height \in Nat
    /\ conf \in [Names -> Nat]
    /\ \A t \in Names : conf[t] <= height

\* Inputs are spent after they are created, at the age their timelock asks for.
SpendsMature ==
    \A t \in Confirmed : \A in \in Inputs(t) :
        /\ in.tx \in Confirmed
        /\ conf[in.tx] + NSequence(in) <= conf[t]

\* No outpoint is spent twice.
NoDoubleSpend == Compatible(Confirmed)

(***************************************************************************)
(* The stake is paid out once: of all the templates that end the protocol, *)
(* those of every round included, at most one is ever confirmed.  A wrong  *)
(* outputIndex or templateName in one input of templates.ts breaks this.   *)
(***************************************************************************)
SinglePayout ==
    \A t, u \in Payouts \cap Confirmed : t = u

(***************************************************************************)
(* Whoever wins by a timeout has given the other side the whole window to  *)
(* answer: every *_UNCONTESTED template really goes through the timed      *)
(* spending condition of the transaction that was not answered.            *)
(***************************************************************************)
Waited(payout, unanswered, timeout) ==
    payout \in Confirmed => unanswered \in Confirmed /\ conf[unanswered] + timeout <= conf[payout]

ResponseWindow ==
    /\ Waited(ProofUncontested, Proof, SmallTimeout)
    /\ Waited(ChallengeUncontested, Proof, LargeTimeout)
    /\ Waited(ArgumentUncontested, Argument, SmallTimeout)
    /\ \A i \in Rounds :
          /\ Waited(StateUncontested(i), State(i), SmallTimeout)
          /\ Waited(SelectUncontested(i), Select(i), SmallTimeout)

(***************************************************************************)
(* A payout ends the dispute: nothing but an unanswered CHALLENGE, which   *)
(* spends an output of its own, follows it on the chain.                   *)
(***************************************************************************)
NothingAfterPayout ==
    [][\A t \in Protocol :
          conf[t] = 0 /\ conf'[t] > 0 /\ Payouts \cap Confirmed # {} => t = Challenge]_vars

(***************************************************************************)
(* A CHALLENGE on the chain rules PROOF_UNCONTESTED out for good: the      *)
(* prover can then be paid only through the dispute.                       *)
(***************************************************************************)
ChallengeBlocksProof ==
    ~ {Challenge, ProofUncontested} \subseteq Confirmed

=============================================================================
