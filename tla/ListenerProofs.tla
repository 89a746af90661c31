--------------------------- MODULE ListenerProofs ---------------------------
(***************************************************************************)
(* What the listener promises of the received rows and of the progress it  *)
(* writes, for any number of setups, templates that reach the chain,       *)
(* failures and restarts, and for any number of blocks until a block is    *)
(* final.                                                                  *)
(***************************************************************************)
EXTENDS Listener, TemplatesProofs, WellFoundedInduction

\* The types of the variables whose elements TypeOK does not look at.
Rows == UNION {[T -> Names] : T \in SUBSET Names}
RowTypes ==
    /\ received \in [Setups -> Rows]
    /\ errors \in Seq(Nat)

\* No output is spent twice, and the answers to a CHALLENGE come after it.
ChainInv ==
    \A s \in Setups :
        /\ \A t, u \in Confirmed(s) : t # u => Spends(t) \cap Spends(u) = {}
        /\ \A t \in {State(0), ChallengeUncontested} :
              conf[s][t] > 0 => conf[s][Challenge] \in 1 .. conf[s][t] - 1

\* A template of s that can no longer reach the chain.
Lost(s, t) == \E u \in Confirmed(s) : u # t /\ Spends(u) \cap Spends(t) # {}

\* What is marked in memory has a row, unless another transaction that spends
\* its parent has been taken for it: then it will never be mined.
MarkedRight ==
    \A x \in marked : x[2] \in DOMAIN received[x[1]] \/ (x[2] \in UnknownTxid /\ Lost(x[1], x[2]))

\* The blocks before the one that is searched hold nothing of the setups of
\* this pass that has no row.
PassInv ==
    pc # "idle" =>
        /\ block > 0 /\ MarkedRight
        /\ \A s \in joined : \A t \in Names : conf[s][t] \in 1 .. block - 1 => t \in DOMAIN received[s]
        /\ pc = "unknown" =>
              /\ block <= LastFinal
              /\ \A s \in joined : \A t \in Names \ UnknownTxid :
                    conf[s][t] = block => t \in DOMAIN received[s]

ListenerInv == ChainInv /\ ReceivedRight /\ NothingSkipped /\ GapFree /\ PassInv

-----------------------------------------------------------------------------
(* Operators.                                                              *)

(***************************************************************************)
(* Min picks the least of some numbers.                                    *)
(***************************************************************************)
LEMMA MinIsLeast ==
    ASSUME NEW S, S \subseteq Nat, S # {}
    PROVE  Min(S) \in S /\ \A y \in S : Min(S) <= y
<1>1. PICK x \in S : \A y \in S : <<y, x>> \notin OpToRel(<, Nat)
  BY WFMin, NatLessThanWellFounded
<1>2. \A y \in S : x <= y
  <2>1. \A y \in S : ~(y \in Nat /\ x \in Nat /\ y < x)
    BY <1>1, Zenon DEF OpToRel
  <2> QED
    BY <2>1
<1> QED
  BY <1>2 DEF Min

(***************************************************************************)
(* The templates that occur once and spend an output of PROOF or ARGUMENT. *)
(***************************************************************************)
LEMMA OnceParents ==
    ASSUME NEW kind \in OnceKinds, NEW in \in Inputs(Once(kind))
    PROVE  /\ in.tx = Proof => kind \in {"CHALLENGE", "PROOF_UNCONTESTED", "CHALLENGE_UNCONTESTED"}
           /\ in.tx = Argument => kind \in {"PROOF_REFUTED", "ARGUMENT_UNCONTESTED"}
<1>0. in \in StartInputs(Once(kind)) \cup EndInputs(Once(kind))
  BY DEF Inputs, StepInputs, OnceKinds, Once
<1> USE DEF Once, Proof, Argument, In
<1>1. CASE kind = "PROOF"
  BY <1>0, <1>1 DEF StartInputs, EndInputs, ProverStake
<1>2. CASE kind \in {"CHALLENGE", "PROOF_UNCONTESTED", "CHALLENGE_UNCONTESTED"}
  <2>1. in \in {In(Proof, 2, 0), In(LockedFunds, 0, 0), In(Proof, 0, 0), In(Proof, 0, 2)}
    BY <1>0, <1>2 DEF StartInputs, EndInputs
  <2> QED
    BY <1>2, <2>1 DEF LockedFunds
<1>3. CASE kind = "ARGUMENT"
  BY <1>0, <1>3 DEF StartInputs, EndInputs, Select
<1>4. CASE kind \in {"PROOF_REFUTED", "ARGUMENT_UNCONTESTED"}
  <2>1. in \in {In(Argument, 0, 0), In(Argument, 0, 1), In(LockedFunds, 0, 0)}
    BY <1>0, <1>4 DEF StartInputs, EndInputs
  <2> QED
    BY <1>4, <2>1 DEF LockedFunds
<1> QED
  BY <1>1, <1>2, <1>3, <1>4 DEF OnceKinds

(***************************************************************************)
(* Of the templates of a round only STATE_0 spends an output of PROOF.     *)
(***************************************************************************)
LEMMA StepParents ==
    ASSUME NEW kind \in StepKinds, NEW i \in Rounds, NEW in \in Inputs(<<kind, i>>)
    PROVE  (in.tx = Proof => kind = "STATE" /\ i = 0) /\ in.tx # Argument
<1>0. in \in StepInputs(<<kind, i>>)
  BY DEF Inputs, StartInputs, EndInputs, StepKinds
<1> USE DEF Once, Proof, Argument, In
<1>1. CASE kind = "STATE"
  BY <1>0, <1>1 DEF StepInputs, StateInputs, Select
<1>2. CASE kind = "STATE_UNCONTESTED"
  BY <1>0, <1>2 DEF StepInputs, State, LockedFunds
<1>3. CASE kind = "SELECT"
  BY <1>0, <1>3 DEF StepInputs, State
<1>4. CASE kind = "SELECT_UNCONTESTED"
  BY <1>0, <1>4 DEF StepInputs, Select
<1> QED
  BY <1>1, <1>2, <1>3, <1>4 DEF StepKinds

(***************************************************************************)
(* Every transaction that spends an output of PROOF, the parent of         *)
(* CHALLENGE, comes after the CHALLENGE or conflicts with it; only two     *)
(* spend an output of ARGUMENT, the parent of PROOF_REFUTED.               *)
(***************************************************************************)
LEMMA Rivals ==
    ASSUME NEW u \in Names, NEW t \in UnknownTxid, NEW in \in Inputs(t), NEW out \in Inputs(u), in.tx = out.tx
    PROVE  \/ t = Challenge /\ u \in {Challenge, ProofUncontested, ChallengeUncontested, State(0)}
           \/ t = ProofRefuted /\ u \in {ProofRefuted, ArgumentUncontested}
<1>1. \/ t = Challenge /\ out.tx = Proof
      \/ t = ProofRefuted /\ out.tx = Argument
  <2>1. Challenge = Once("CHALLENGE") /\ ProofRefuted = Once("PROOF_REFUTED") /\ t \in {Challenge, ProofRefuted}
    BY DEF Challenge, ProofRefuted, UnknownTxid
  <2>2. CASE t = Challenge
    <3>1. in = In(Proof, 2, 0)
      BY <2>1, <2>2 DEF Inputs, StartInputs, StepInputs, EndInputs, Once
    <3> QED
      BY <2>2, <3>1 DEF In
  <2>3. CASE t = ProofRefuted
    <3>1. in = In(Argument, 0, 0)
      BY <2>1, <2>3 DEF Inputs, StartInputs, StepInputs, EndInputs, Once
    <3> QED
      BY <2>3, <3>1 DEF In
  <2> QED
    BY <2>1, <2>2, <2>3
<1>2. CASE u \in External
  BY <1>2, ExternalRoots
<1>3. CASE u \in OnceKinds \X {0}
  <2>1. PICK kind \in OnceKinds : u = Once(kind)
    BY <1>3 DEF Once
  <2> QED
    BY <1>1, <2>1, OnceParents
       DEF Challenge, ProofUncontested, ChallengeUncontested, ProofRefuted, ArgumentUncontested
<1>4. CASE u \in StepKinds \X Rounds
  <2>1. PICK kind \in StepKinds, i \in Rounds : u = <<kind, i>>
    BY <1>4
  <2> QED
    BY <1>1, <2>1, StepParents DEF State
<1> QED
  BY <1>2, <1>3, <1>4 DEF Names, Protocol

(***************************************************************************)
(* PROOF_UNCONTESTED conflicts with CHALLENGE, ARGUMENT_UNCONTESTED with   *)
(* PROOF_REFUTED.                                                          *)
(***************************************************************************)
LEMMA Conflicts ==
    /\ Spends(ProofUncontested) \cap Spends(Challenge) # {}
    /\ Spends(ArgumentUncontested) \cap Spends(ProofRefuted) # {}
<1>1. <<Proof, 2>> \in Spends(ProofUncontested) /\ <<Proof, 2>> \in Spends(Challenge)
  <2>1. In(Proof, 2, 0) \in Inputs(ProofUncontested) /\ In(Proof, 2, 0) \in Inputs(Challenge)
    BY DEF Inputs, StartInputs, Once, Challenge, ProofUncontested
  <2> QED
    BY <2>1 DEF Spends, In
<1>2. <<Argument, 0>> \in Spends(ArgumentUncontested) /\ <<Argument, 0>> \in Spends(ProofRefuted)
  <2>1. In(Argument, 0, 1) \in Inputs(ArgumentUncontested) /\ In(Argument, 0, 0) \in Inputs(ProofRefuted)
    BY DEF Inputs, EndInputs, Once, ArgumentUncontested, ProofRefuted
  <2> QED
    BY <2>1 DEF Spends, In
<1> QED
  BY <1>1, <1>2

(***************************************************************************)
(* The templates the listener treats specially are different ones.         *)
(***************************************************************************)
LEMMA UnknownNames ==
    /\ UnknownTxid \subseteq Names /\ Proof \notin UnknownTxid
    /\ {ProofUncontested, ChallengeUncontested, State(0), ArgumentUncontested} \subseteq Names \ UnknownTxid
    /\ Challenge # ProofRefuted /\ UnknownTxid = {Challenge, ProofRefuted}
    /\ {ChallengeUncontested, State(0)} \cap External = {}
    /\ \A t \in UnknownTxid : Inputs(t) # {}
<1>1. \A t \in UnknownTxid : Inputs(t) # {}
  BY DEF UnknownTxid, Challenge, ProofRefuted, Once, Inputs, StartInputs, EndInputs
<1>2. State(0) \in Names
  BY IterationsAssumption, StepNames DEF State, Rounds, StepKinds
<1>3. UnknownTxid \cup {ProofUncontested, ChallengeUncontested, ArgumentUncontested} \subseteq Names
  BY OnceNames DEF UnknownTxid, Challenge, ProofRefuted, ProofUncontested, ChallengeUncontested, ArgumentUncontested,
                   OnceKinds
<1> QED
  BY <1>1, <1>2, <1>3 DEF UnknownTxid, Challenge, ProofRefuted, ProofUncontested, ChallengeUncontested,
                          ArgumentUncontested, State, Once, Proof, External, ExternalKinds

(***************************************************************************)
(* A row is added when its transaction has none, else nothing changes.     *)
(***************************************************************************)
LEMMA RowAdded ==
    ASSUME RowTypes, NEW s \in Setups, NEW t \in Names, NEW txid \in Names, MarkReceived(s, t, txid)
    PROVE  /\ received' \in [Setups -> Rows]
           /\ \A r \in Setups : \A x \in DOMAIN received[r] :
                 x \in DOMAIN received'[r] /\ received'[r][x] = received[r][x]
           /\ \A r \in Setups : \A x \in DOMAIN received'[r] :
                 \/ x \in DOMAIN received[r] /\ received'[r][x] = received[r][x]
                 \/ r = s /\ x = t /\ received'[r][x] = txid /\ \A y \in DOMAIN received[s] : received[s][y] # txid
           /\ t \in DOMAIN received'[s] \/ \E y \in DOMAIN received[s] : received[s][y] = txid
<1> DEFINE old == received[s]
           new == WithRow(old, t, txid)
<1>1. /\ received \in [Setups -> Rows] /\ old \in Rows
      /\ received' = IF \E x \in DOMAIN old : old[x] = txid THEN received ELSE [received EXCEPT ![s] = new]
  BY DEF RowTypes, MarkReceived
<1>2. PICK T \in SUBSET Names : old \in [T -> Names]
  BY <1>1 DEF Rows
<1>3. /\ DOMAIN new = T \cup {t} /\ new \in [T \cup {t} -> Names]
      /\ \A x \in T : new[x] = old[x]
      /\ t \notin T => new[t] = txid
  BY <1>2 DEF WithRow
<1>4. new \in Rows
  BY <1>3 DEF Rows
<1> HIDE DEF new, old
<1>5. CASE \E x \in DOMAIN old : old[x] = txid
  BY <1>1, <1>5 DEF old
<1>6. CASE ~\E x \in DOMAIN old : old[x] = txid
  <2>1. received' = [received EXCEPT ![s] = new] /\ received'[s] = new
        /\ \A r \in Setups \ {s} : received'[r] = received[r]
    BY <1>1, <1>6
  <2>2. received' \in [Setups -> Rows]
    BY <1>1, <1>4, <2>1
  <2> QED
    BY <1>2, <1>3, <1>6, <2>1, <2>2 DEF old
<1> QED
  BY <1>5, <1>6

-----------------------------------------------------------------------------
(* What the actions do.                                                    *)

(***************************************************************************)
(* One more failed call.                                                   *)
(***************************************************************************)
LEMMA ErrorAdded ==
    ASSUME errors \in Seq(Nat), Range(errors) \subseteq 0 .. height, height \in Nat, NEW h \in 0 .. height
    PROVE  /\ Append(errors, h) \in Seq(Nat) /\ Len(Append(errors, h)) = Len(errors) + 1
           /\ Range(Append(errors, h)) \subseteq 0 .. height
<1> DEFINE longer == Append(errors, h)
<1>1. /\ longer \in Seq(Nat) /\ Len(longer) = Len(errors) + 1 /\ longer[Len(errors) + 1] = h
      /\ \A i \in 1 .. Len(errors) : longer[i] = errors[i]
  OBVIOUS
<1>2. DOMAIN longer = 1 .. Len(errors) + 1 /\ DOMAIN errors = 1 .. Len(errors) /\ Len(errors) \in Nat
  BY <1>1
<1> HIDE DEF longer
<1>3. ASSUME NEW i \in DOMAIN longer PROVE longer[i] \in 0 .. height
  <2>1. CASE i \in 1 .. Len(errors)
    <3>1. longer[i] = errors[i] /\ errors[i] \in Range(errors)
      BY <1>1, <1>2, <2>1 DEF Range
    <3> QED
      BY <3>1
  <2>2. CASE i = Len(errors) + 1
    BY <1>1, <2>2
  <2> QED
    BY <1>2, <1>3, <2>1, <2>2
<1>4. Range(longer) \subseteq 0 .. height
  BY <1>3 DEF Range
<1> QED
  BY <1>1, <1>4 DEF longer

\* What a block brings to a setup.
NewIn(s, t) == conf[s][t] = 0 /\ conf'[s][t] = height + 1
Allowed(s, t) ==
    /\ \A u \in Confirmed(s) : Spends(t) \cap Spends(u) = {}
    /\ t \in {State(0), ChallengeUncontested} => Challenge \in Confirmed(s)
    /\ \A u \in Names : NewIn(s, u) => u = t

(***************************************************************************)
(* A block adds to a setup the external transactions or one more template. *)
(***************************************************************************)
LEMMA MineEffect ==
    ASSUME TypeOK, Mine
    PROVE  /\ height' = height + 1 /\ conf' \in [Setups -> [Names -> 0 .. height + 1]]
           /\ \A s \in Setups : \A t \in Names :
                 \/ conf'[s][t] = conf[s][t]
                 \/ NewIn(s, t) /\ s \in active /\ (t \in External \/ Allowed(s, t))
<1>1. /\ height \in Nat /\ height' = height + 1 /\ conf \in [Setups -> [Names -> 0 .. height]]
  BY DEF TypeOK, Mine
<1>2. PICK content \in [Setups -> UNION {Candidates(s) : s \in Setups} \cup {{}}] :
         /\ \A s \in Setups : content[s] \in Candidates(s) \cup {{}}
         /\ conf' = [s \in Setups |-> [t \in Names |-> IF t \in content[s] THEN height + 1 ELSE conf[s][t]]]
  BY DEF Mine
<1>3. conf' \in [Setups -> [Names -> 0 .. height + 1]]
  BY <1>1, <1>2
<1>4. ASSUME NEW s \in Setups, NEW t \in Names, conf'[s][t] # conf[s][t]
      PROVE  NewIn(s, t) /\ s \in active /\ (t \in External \/ Allowed(s, t))
  <2>1. t \in content[s] /\ conf'[s][t] = height + 1 /\ content[s] \in Candidates(s) /\ content[s] # {}
    BY <1>2, <1>4
  <2>2. s \in active
    BY <2>1 DEF Candidates
  <2>3. CASE Confirmed(s) = {}
    <3>1. content[s] = External /\ conf[s][t] = 0
      BY <1>1, <2>1, <2>2, <2>3 DEF Candidates, Confirmed
    <3> QED
      BY <2>1, <2>2, <3>1 DEF NewIn
  <2>4. CASE Confirmed(s) # {}
    <3>1. PICK u \in Mined \ Confirmed(s) :
             /\ content[s] = {u}
             /\ u \in {State(0), ChallengeUncontested} => Challenge \in Confirmed(s)
             /\ \A v \in Confirmed(s) : Spends(u) \cap Spends(v) = {}
      BY <2>1, <2>2, <2>4 DEF Candidates
    <3>2. u = t /\ conf[s][t] = 0
      BY <1>1, <2>1, <3>1 DEF Confirmed
    <3>3. ASSUME NEW v \in Names, NewIn(s, v) PROVE v = t
      <4>1. conf'[s][v] # conf[s][v]
        BY <1>1, <3>3 DEF NewIn
      <4> QED
        BY <1>2, <3>1, <3>2, <4>1
    <3> QED
      BY <2>1, <2>2, <3>1, <3>2, <3>3 DEF NewIn, Allowed
  <2> QED
    BY <2>3, <2>4
<1> QED
  BY <1>1, <1>3, <1>4

\* What a match of a pending template t with the transaction of u tells.
Match(s, t, u) ==
    /\ s \in joined /\ t \in Names /\ u \in Names
    /\ <<s, t>> \notin marked /\ conf[s][u] = block
    /\ \/ t = u /\ t \notin UnknownTxid
       \/ t = Challenge /\ u \in {Challenge, ProofUncontested, ChallengeUncontested, State(0)}
       \/ t = ProofRefuted /\ u \in {ProofRefuted, ArgumentUncontested}

(***************************************************************************)
(* A known template is matched by its own transaction, an unknown one by   *)
(* its own or by a rival's.                                                *)
(***************************************************************************)
LEMMA MatchEffect ==
    /\ \A x \in KnownMatches : Match(x[1], x[2], x[2]) /\ x[2] \notin UnknownTxid
    /\ \A x \in UnknownMatches : Match(x[1], x[2], x[3]) /\ x[2] \in UnknownTxid
<1>1. \A x \in Pending : x[1] \in joined /\ x[2] \in Names /\ x = <<x[1], x[2]>> /\ x \notin marked
  BY DEF Pending
<1>2. ASSUME NEW x \in KnownMatches PROVE Match(x[1], x[2], x[2]) /\ x[2] \notin UnknownTxid
  BY <1>1, <1>2 DEF KnownMatches, Match
<1>3. ASSUME NEW x \in UnknownMatches PROVE Match(x[1], x[2], x[3]) /\ x[2] \in UnknownTxid
  <2>1. PICK p \in Pending, u \in Names :
           /\ p[2] \in UnknownTxid /\ x = <<p[1], p[2], u>> /\ conf[p[1]][u] = block
           /\ \E in \in Inputs(p[2]), out \in Inputs(u) : in.tx = out.tx
    BY <1>3 DEF UnknownMatches
  <2>2. x[1] = p[1] /\ x[2] = p[2] /\ x[3] = u
    BY <2>1
  <2>3. \/ p[2] = Challenge /\ u \in {Challenge, ProofUncontested, ChallengeUncontested, State(0)}
        \/ p[2] = ProofRefuted /\ u \in {ProofRefuted, ArgumentUncontested}
    BY <2>1, Rivals
  <2> QED
    BY <1>1, <2>1, <2>2, <2>3 DEF Match
<1> QED
  BY <1>2, <1>3

(***************************************************************************)
(* While nothing is left to match, all that the block holds is marked.     *)
(***************************************************************************)
LEMMA NothingLeft ==
    ASSUME NEW s \in joined, NEW t \in Names, conf[s][t] = block
    PROVE  /\ t \notin UnknownTxid /\ KnownMatches = {} => <<s, t>> \in marked
           /\ t \in UnknownTxid /\ UnknownMatches = {} => <<s, t>> \in marked
<1>1. <<s, t>> \in Pending \/ <<s, t>> \in marked
  BY DEF Pending
<1>2. ASSUME <<s, t>> \in Pending, t \notin UnknownTxid PROVE <<s, t>> \in KnownMatches
  BY <1>2 DEF KnownMatches
<1>3. ASSUME <<s, t>> \in Pending, t \in UnknownTxid PROVE <<s, t, t>> \in UnknownMatches
  <2>1. PICK in : in \in Inputs(t)
    BY <1>3, UnknownNames
  <2>2. <<s, t>> \in {p \in Pending : p[2] \in UnknownTxid}
    BY <1>3
  <2> QED
    BY <2>1, <2>2 DEF UnknownMatches
<1> QED
  BY <1>1, <1>2, <1>3

-----------------------------------------------------------------------------
(* Types.                                                                  *)

\* What a step of the pass leaves alone.
SamePass == UNCHANGED <<height, conf, active, checked, tip, joined, errors>>

(***************************************************************************)
(* Both searches add a row and leave everything else of the pass alone.    *)
(***************************************************************************)
LEMMA SearchEffect ==
    ASSUME SearchKnown \/ SearchUnknown
    PROVE  /\ SamePass /\ UNCHANGED <<pc, block>> /\ pc # "idle"
           /\ \E s, t, u : /\ Match(s, t, u) /\ MarkReceived(s, t, u)
                           /\ t \notin UnknownTxid => t = u
                           /\ t \in UnknownTxid => pc = "unknown"
<1>1. CASE SearchKnown
  <2>1. PICK x \in KnownMatches : MarkReceived(x[1], x[2], x[2])
    BY <1>1 DEF SearchKnown, FirstOf
  <2> QED
    BY <1>1, <2>1, MatchEffect DEF SearchKnown, SamePass, chainVars
<1>2. CASE SearchUnknown
  <2>1. PICK x \in UnknownMatches : MarkReceived(x[1], x[2], x[3])
    BY <1>2 DEF SearchUnknown
  <2> QED
    BY <1>2, <2>1, MatchEffect DEF SearchUnknown, SamePass, chainVars
<1> QED
  BY <1>1, <1>2

(***************************************************************************)
(* A pass starts at the least of the heights of its setups.                *)
(***************************************************************************)
LEMMA StartEffect ==
    ASSUME TypeOK, NEW S \in SUBSET active, S # {}
    PROVE  StartBlock(S) \in 1 .. height + 1 /\ \A s \in S : StartBlock(S) - 1 <= checked[s]
<1> DEFINE heights == {checked[s] : s \in S}
<1>1. S \subseteq Setups /\ checked \in [Setups -> 0 .. height] /\ height \in Nat
  BY DEF TypeOK
<1>2. heights \subseteq 0 .. height /\ heights # {}
  BY <1>1
<1>3. heights \subseteq Nat
  BY <1>1, <1>2
<1> HIDE DEF heights
<1>4. Min(heights) \in heights /\ \A y \in heights : Min(heights) <= y
  BY <1>2, <1>3, MinIsLeast
<1>5. \A s \in S : checked[s] \in heights
  BY DEF heights
<1>6. StartBlock(S) = Min(heights) + 1
  BY DEF StartBlock, heights
<1>7. Min(heights) \in 0 .. height
  BY <1>2, <1>4
<1>8. \A s \in S : Min(heights) <= checked[s]
  BY <1>4, <1>5
<1>9. \A s \in S : checked[s] \in 0 .. height
  BY <1>1
<1> HIDE DEF StartBlock
<1>10. StartBlock(S) \in 1 .. height + 1 /\ StartBlock(S) - 1 = Min(heights)
  BY <1>1, <1>6, <1>7
<1> QED
  BY <1>8, <1>10

(***************************************************************************)
(* Every step keeps the types.                                             *)
(***************************************************************************)
LEMMA NextTypes ==
    ASSUME TypeOK, RowTypes, PassInv, [Next]_vars
    PROVE  TypeOK' /\ RowTypes'
<1>0. /\ height \in 1 .. MaxHeight /\ MaxHeight \in Nat /\ Finality \in Nat
      /\ Range(errors) \subseteq 0 .. height /\ errors \in Seq(Nat) /\ Len(errors) <= MaxErrors
  BY ListenerAssumption DEF TypeOK, RowTypes
<1>1. CASE Mine
  <2>1. height' = height + 1 /\ height < MaxHeight /\ conf' \in [Setups -> [Names -> 0 .. height + 1]]
        /\ UNCHANGED <<active, checked, received, tip, passVars, errors>>
    BY <1>1, MineEffect DEF Mine
  <2> QED
    <3>1. TypeOK'
      <4>1. \A s \in Setups : checked[s] < height + 1 \/ checked[s] + Finality <= height + 1
        BY <1>0 DEF TypeOK
      <4> QED
        BY <1>0, <2>1, <4>1 DEF TypeOK, passVars
    <3> QED
      BY <2>1, <3>1 DEF RowTypes
<1>2. ASSUME NEW s \in Setups, Activate(s) PROVE TypeOK' /\ RowTypes'
  <2>1. PICK h \in 0 .. height - 1 : checked' = [checked EXCEPT ![s] = h]
    BY <1>2 DEF Activate
  <2>2. \A r \in Setups : checked'[r] < height \/ checked'[r] + Finality <= height
    BY <1>0, <2>1 DEF TypeOK
  <2> QED
    BY <1>0, <1>2, <2>1, <2>2 DEF Activate, TypeOK, RowTypes, passVars
<1>3. ASSUME NEW s \in Setups, Settle(s) PROVE TypeOK' /\ RowTypes'
  BY <1>3 DEF Settle, TypeOK, RowTypes, passVars
<1>4. ASSUME NEW S \in SUBSET active, NEW unread \in SUBSET S, CheckForNewBlock(S, unread)
      PROVE  TypeOK' /\ RowTypes'
  <2>1. /\ tip' = height /\ UNCHANGED <<height, conf, active, checked, received>>
        /\ errors' = errors \/ errors' = Append(errors, height)
        /\ Len(errors') <= MaxErrors
    BY <1>4 DEF CheckForNewBlock, chainVars
  <2>2. errors' \in Seq(Nat) /\ Range(errors') \subseteq 0 .. height
    <3>1. height \in Nat /\ height \in 0 .. height
      BY <1>0
    <3>2. Append(errors, height) \in Seq(Nat) /\ Range(Append(errors, height)) \subseteq 0 .. height
      BY <1>0, <3>1, ErrorAdded
    <3>3. CASE errors' = errors
      BY <1>0, <3>3
    <3>4. CASE errors' = Append(errors, height)
      BY <3>2, <3>4
    <3> QED
      BY <2>1, <3>3, <3>4
  <2>3. /\ pc' \in {"idle", "known", "unknown"} /\ found' \in BOOLEAN /\ joined' \subseteq Setups
        /\ block' \in 0 .. height + 1 /\ marked' \subseteq Setups \X Names
    <3>1. CASE S = {}
      <4>1. Idle
        BY <1>4, <3>1 DEF CheckForNewBlock
      <4> QED
        <5>1. pc' = "idle" /\ block' = 0 /\ joined' = {} /\ marked' = {} /\ found' = FALSE
          BY <4>1 DEF Idle
        <5>2. 0 \in 0 .. height + 1
          BY <1>0
        <5> QED
          BY <5>1, <5>2
    <3>2. CASE S # {}
      <4>1. StartBlock(S) \in 0 .. height + 1
        BY <1>0, <3>2, StartEffect
      <4>2. joined' = S /\ marked' = UNION {{s} \X DOMAIN received[s] : s \in S \ unread}
            /\ found' = FALSE /\ pc' = "known" /\ block' = StartBlock(S)
        BY <1>4, <3>2 DEF CheckForNewBlock
      <4>3. S \subseteq Setups /\ \A s \in S : DOMAIN received[s] \subseteq Names
        BY DEF TypeOK
      <4>4. ASSUME NEW x \in marked' PROVE x \in Setups \X Names
        <5>1. PICK s \in S \ unread : x \in {s} \X DOMAIN received[s]
          BY <4>2, <4>4
        <5> QED
          BY <4>3, <5>1
      <4> QED
        BY <4>1, <4>2, <4>3, <4>4
    <3> QED
      BY <3>1, <3>2
  <2> QED
    BY <1>0, <2>1, <2>2, <2>3 DEF TypeOK, RowTypes
<1>5. ASSUME Idle, UNCHANGED <<height, conf, active, checked, received>>, tip' \in {tip, 0},
             \/ UNCHANGED errors
             \/ Len(errors) < MaxErrors /\ errors' \in {Append(errors, tip), Append(errors, 0)}
      PROVE  TypeOK' /\ RowTypes'
  <2>1. errors' \in Seq(Nat) /\ Range(errors') \subseteq 0 .. height /\ Len(errors') <= MaxErrors
    <3>1. height \in Nat /\ tip \in 0 .. height /\ 0 \in 0 .. height /\ MaxErrors \in Nat
      BY <1>0, ListenerAssumption DEF TypeOK
    <3>2. \A h \in {tip, 0} : /\ Append(errors, h) \in Seq(Nat) /\ Len(Append(errors, h)) = Len(errors) + 1
                             /\ Range(Append(errors, h)) \subseteq 0 .. height
      BY <1>0, <3>1, ErrorAdded
    <3>3. Len(errors) \in Nat
      BY <1>0
    <3>4. CASE UNCHANGED errors
      BY <1>0, <3>4
    <3>5. CASE Len(errors) < MaxErrors /\ errors' \in {Append(errors, tip), Append(errors, 0)}
      <4>1. PICK h \in {tip, 0} : errors' = Append(errors, h)
        BY <3>5
      <4>2. Len(errors') = Len(errors) + 1
        BY <3>2, <4>1
      <4> QED
        BY <3>1, <3>2, <3>3, <3>5, <4>1, <4>2
    <3> QED
      BY <1>5, <3>4, <3>5
  <2>2. tip' \in 0 .. height /\ block' \in 0 .. height + 1
    BY <1>0, <1>5 DEF TypeOK, Idle
  <2> QED
    BY <1>5, <2>1, <2>2 DEF TypeOK, RowTypes, Idle
<1>6. CASE SearchKnown \/ SearchUnknown
  <2>1. SamePass /\ UNCHANGED <<pc, block>>
    BY <1>6, SearchEffect
  <2>2. PICK s, t, u : Match(s, t, u) /\ MarkReceived(s, t, u)
    BY <1>6, SearchEffect
  <2>3. s \in Setups /\ t \in Names /\ u \in Names
    BY <2>2 DEF Match, TypeOK
  <2>4. received' \in [Setups -> Rows] /\ marked' = marked \cup {<<s, t>>} /\ found' = TRUE
    BY <2>2, <2>3, RowAdded DEF MarkReceived
  <2>5. \A r \in Setups : DOMAIN received'[r] \subseteq Names
    BY <2>4 DEF Rows
  <2> QED
    BY <2>1, <2>3, <2>4, <2>5 DEF SamePass, TypeOK, RowTypes
<1>7. CASE KnownDone
  BY <1>7 DEF KnownDone, TypeOK, RowTypes, chainVars
<1>8. CASE UnknownDone
  <2>1. block \in 1 .. height /\ block + Finality <= height
    BY <1>0, <1>8 DEF UnknownDone, PassInv, LastFinal, TypeOK
  <2>2. /\ checked' \in [Setups -> 0 .. height]
        /\ \A s \in Setups : checked'[s] < height \/ checked'[s] + Finality <= height
    <3>1. checked' \in [Setups -> 0 .. height]
      BY <1>8, <2>1 DEF UnknownDone, Progress, TypeOK
    <3>2. \A s \in Setups : checked'[s] \in {checked[s], block}
      BY <1>8 DEF UnknownDone, Progress
    <3> QED
      BY <2>1, <3>1, <3>2 DEF TypeOK
  <2>3. block' \in 0 .. height + 1 /\ pc' = "known" /\ found' = FALSE
        /\ UNCHANGED <<height, conf, active, received, tip, joined, marked, errors>>
    BY <1>0, <1>8, <2>1 DEF UnknownDone, chainVars
  <2> QED
    BY <2>2, <2>3 DEF TypeOK, RowTypes
<1>9. UNCHANGED vars => TypeOK' /\ RowTypes'
  BY DEF vars, chainVars, passVars, TypeOK, RowTypes
<1>10. EndPass \/ Fail \/ Restart => TypeOK' /\ RowTypes'
  <2>1. EndPass => Idle /\ UNCHANGED <<height, conf, active, checked, received, tip, errors>>
    BY DEF EndPass, chainVars
  <2>2. Fail \/ Restart => /\ Idle /\ UNCHANGED <<height, conf, active, checked, received>> /\ tip' \in {tip, 0}
                          /\ Len(errors) < MaxErrors /\ errors' \in {Append(errors, tip), Append(errors, 0)}
    BY DEF Fail, Restart, chainVars
  <2> QED
    BY <1>5, <2>1, <2>2
<1> QED
  BY <1>1, <1>2, <1>3, <1>4, <1>6, <1>7, <1>8, <1>9, <1>10 DEF Next, ListenerStep

-----------------------------------------------------------------------------
(* The chain and the rows.                                                 *)

(***************************************************************************)
(* What a block brings is not yet searched, and spends nothing twice.      *)
(***************************************************************************)
LEMMA MineInv ==
    ASSUME TypeOK, ListenerInv, Mine
    PROVE  ListenerInv'
<1>1. /\ height \in Nat /\ height' = height + 1 /\ Finality \in Nat
      /\ conf \in [Setups -> [Names -> 0 .. height]] /\ conf' \in [Setups -> [Names -> 0 .. height + 1]]
      /\ checked \in [Setups -> 0 .. height] /\ tip \in 0 .. height /\ block \in 0 .. height + 1
      /\ joined \subseteq Setups /\ marked \subseteq Setups \X Names
      /\ UNCHANGED <<checked, received, tip, pc, block, joined, marked>>
      /\ \A s \in Setups : DOMAIN received[s] \subseteq Names
  <2>1. height' = height + 1 /\ conf' \in [Setups -> [Names -> 0 .. height + 1]]
    BY MineEffect
  <2>2. UNCHANGED <<checked, received, tip, pc, block, joined, marked>>
    BY DEF Mine, passVars
  <2> QED
    BY <2>1, <2>2, ListenerAssumption DEF TypeOK
<1>2. \A s \in Setups : \A t \in Names :
         \/ conf'[s][t] = conf[s][t]
         \/ NewIn(s, t) /\ (t \in External \/ Allowed(s, t))
  BY MineEffect
<1>3. \A s \in Setups : \A t \in Names :
         \/ conf'[s][t] = conf[s][t]
         \/ conf[s][t] = 0 /\ conf'[s][t] = height + 1
  BY <1>2 DEF NewIn
<1>4. \A s \in Setups : \A t \in Names :
         /\ conf[s][t] \in 0 .. height
         /\ conf[s][t] > 0 => conf'[s][t] = conf[s][t]
         /\ conf'[s][t] <= height => conf'[s][t] = conf[s][t]
  BY <1>1, <1>3
<1>5. \A t \in External : Spends(t) = {}
  BY ExternalRoots DEF Spends
<1>6. ChainInv'
  <2>1. ASSUME NEW s \in Setups, NEW t \in Confirmed(s)', NEW u \in Confirmed(s)', t # u
        PROVE  Spends(t) \cap Spends(u) = {}
    <3>1. /\ t \in Confirmed(s) \/ t \in External \/ (NewIn(s, t) /\ Allowed(s, t))
          /\ u \in Confirmed(s) \/ u \in External \/ (NewIn(s, u) /\ Allowed(s, u))
          /\ t \in Names /\ u \in Names
      BY <1>2 DEF Confirmed
    <3>2. CASE t \in Confirmed(s) /\ u \in Confirmed(s)
      BY <2>1, <3>2 DEF ListenerInv, ChainInv
    <3>3. CASE t \in External \/ u \in External
      BY <1>5, <3>3
    <3>4. CASE NewIn(s, t) /\ Allowed(s, t) /\ (u \in Confirmed(s) \/ NewIn(s, u))
      BY <2>1, <3>1, <3>4 DEF Allowed
    <3>5. CASE NewIn(s, u) /\ Allowed(s, u) /\ (t \in Confirmed(s) \/ NewIn(s, t))
      BY <2>1, <3>1, <3>5 DEF Allowed
    <3> QED
      BY <3>1, <3>2, <3>3, <3>4, <3>5
  <2>2. ASSUME NEW s \in Setups, NEW t \in {State(0), ChallengeUncontested}, conf'[s][t] > 0
        PROVE  conf'[s][Challenge] \in 1 .. conf'[s][t] - 1
    <3>1. t \in Names /\ t \notin External /\ Challenge \in Names
      BY UnknownNames
    <3>2. CASE conf[s][t] > 0
      <4>1. conf[s][Challenge] \in 1 .. conf[s][t] - 1
        BY <3>2 DEF ListenerInv, ChainInv
      <4> QED
        BY <1>4, <3>1, <3>2, <4>1
    <3>3. CASE NewIn(s, t) /\ Allowed(s, t)
      <4>1. conf[s][Challenge] > 0 /\ conf'[s][t] = height + 1
        BY <3>3 DEF NewIn, Allowed, Confirmed
      <4> QED
        BY <1>1, <1>4, <3>1, <4>1
    <3> QED
      BY <1>2, <1>4, <2>2, <3>1, <3>2, <3>3
  <2> QED
    BY <2>1, <2>2 DEF ChainInv
<1>7. ReceivedRight'
  <2> SUFFICES ASSUME NEW s \in Setups, NEW t \in DOMAIN received[s]
               PROVE  received[s][t] = t /\ conf'[s][t] \in 1 .. height + 1 - Finality
    BY <1>1 DEF ReceivedRight
  <2>1. received[s][t] = t /\ conf[s][t] \in 1 .. height - Finality
    BY DEF ListenerInv, ReceivedRight
  <2> QED
    BY <1>1, <1>4, <2>1
<1>8. NothingSkipped'
  BY <1>1, <1>4 DEF ListenerInv, NothingSkipped
<1>9. GapFree'
  <2> SUFFICES ASSUME NEW s \in Setups, NEW t \in Confirmed(s)', NEW u \in Confirmed(s)',
                      conf'[s][u] < conf'[s][t], t \in DOMAIN received[s]
               PROVE  u \in DOMAIN received[s]
    BY <1>1 DEF GapFree
  <2>1. t \in Names /\ u \in Names /\ conf'[s][u] > 0 /\ conf[s][t] > 0
    BY <1>1 DEF Confirmed, ListenerInv, ReceivedRight
  <2>2. conf'[s][t] = conf[s][t] /\ conf'[s][u] = conf[s][u]
    BY <1>1, <1>4, <2>1
  <2> QED
    BY <2>1, <2>2 DEF Confirmed, ListenerInv, GapFree
<1>10. PassInv'
  <2> SUFFICES ASSUME pc # "idle" PROVE PassInv'
    BY <1>1 DEF PassInv
  <2>1. MarkedRight'
    <3>1. \A s \in Setups : Confirmed(s) \subseteq Confirmed(s)'
      BY <1>1, <1>4 DEF Confirmed
    <3>2. \A s \in Setups : \A t \in Names : Lost(s, t) => Lost(s, t)'
      BY <3>1 DEF Lost
    <3> QED
      BY <1>1, <3>2 DEF ListenerInv, PassInv, MarkedRight
  <2>2. ASSUME NEW s \in joined, NEW t \in Names, conf'[s][t] \in 1 .. block - 1 PROVE t \in DOMAIN received[s]
    <3>1. conf'[s][t] = conf[s][t]
      BY <1>1, <1>4, <2>2
    <3> QED
      BY <2>2, <3>1 DEF ListenerInv, PassInv
  <2>3. ASSUME pc = "unknown"
        PROVE  /\ block <= LastFinal
               /\ \A s \in joined : \A t \in Names \ UnknownTxid : conf'[s][t] = block => t \in DOMAIN received[s]
    <3>1. block <= LastFinal /\ block <= height
      BY <1>1, <2>3 DEF ListenerInv, PassInv, LastFinal
    <3>2. ASSUME NEW s \in joined, NEW t \in Names, conf'[s][t] = block PROVE conf'[s][t] = conf[s][t]
      BY <1>1, <1>4, <3>1, <3>2
    <3> QED
      BY <2>3, <3>1, <3>2 DEF ListenerInv, PassInv
  <2>4. LastFinal' = LastFinal /\ block > 0
    BY <1>1 DEF LastFinal, ListenerInv, PassInv
  <2> QED
    BY <1>1, <2>1, <2>2, <2>3, <2>4 DEF PassInv
<1> QED
  BY <1>6, <1>7, <1>8, <1>9, <1>10 DEF ListenerInv

(***************************************************************************)
(* A row is added for the transaction of its own template, in a block      *)
(* before which nothing is missing.                                        *)
(***************************************************************************)
LEMMA SearchInv ==
    ASSUME TypeOK, RowTypes, ListenerInv, SearchKnown \/ SearchUnknown
    PROVE  ListenerInv'
<1>1. SamePass /\ UNCHANGED <<pc, block>> /\ pc # "idle"
  BY SearchEffect
<1>2. PICK s, t, u : /\ Match(s, t, u) /\ MarkReceived(s, t, u)
                     /\ t \notin UnknownTxid => t = u
                     /\ t \in UnknownTxid => pc = "unknown"
  BY SearchEffect
<1>3. /\ s \in Setups /\ s \in joined /\ t \in Names /\ u \in Names /\ conf[s][u] = block
      /\ height \in Nat /\ Finality \in Nat /\ tip \in 0 .. height /\ block \in Nat /\ block > 0
      /\ conf \in [Setups -> [Names -> 0 .. height]] /\ joined \subseteq Setups
  BY <1>1, <1>2, ListenerAssumption DEF Match, TypeOK, ListenerInv, PassInv
<1>4. block <= LastFinal
  BY <1>1 DEF SearchKnown, SearchUnknown, ListenerInv, PassInv
<1>5. /\ marked' = marked \cup {<<s, t>>}
      /\ \A r \in Setups : \A x \in DOMAIN received[r] :
            x \in DOMAIN received'[r] /\ received'[r][x] = received[r][x]
      /\ \A r \in Setups : \A x \in DOMAIN received'[r] :
            \/ x \in DOMAIN received[r] /\ received'[r][x] = received[r][x]
            \/ r = s /\ x = t /\ received'[r][x] = u /\ \A y \in DOMAIN received[s] : received[s][y] # u
      /\ t \in DOMAIN received'[s] \/ \E y \in DOMAIN received[s] : received[s][y] = u
  BY <1>2, <1>3, RowAdded DEF MarkReceived
<1>6. \A r \in Setups : \A x \in DOMAIN received[r] : received[r][x] = x /\ conf[r][x] \in 1 .. height - Finality
  BY DEF ListenerInv, ReceivedRight
<1>7. t # u => u \in DOMAIN received[s]
  <2> SUFFICES ASSUME t # u PROVE u \in DOMAIN received[s]
    OBVIOUS
  <2>1. pc = "unknown" /\ u \notin UnknownTxid
    BY <1>2, UnknownNames DEF Match
  <2> QED
    BY <1>3, <2>1 DEF ListenerInv, PassInv
<1>8. \A r \in Setups : \A x \in DOMAIN received'[r] :
         \/ x \in DOMAIN received[r] /\ received'[r][x] = received[r][x]
         \/ r = s /\ x = t /\ t = u /\ received'[r][x] = t
  BY <1>5, <1>6, <1>7
<1>9. ChainInv'
  BY <1>1 DEF ListenerInv, ChainInv, Confirmed, SamePass
<1>10. ReceivedRight'
  <2>1. block \in 1 .. height - Finality
    BY <1>3, <1>4 DEF LastFinal
  <2> QED
    BY <1>1, <1>3, <1>6, <1>8, <2>1 DEF ReceivedRight, SamePass
<1>11. NothingSkipped'
  BY <1>1, <1>5 DEF ListenerInv, NothingSkipped, SamePass
<1>12. \A r \in joined : \A x \in Names : conf[r][x] \in 1 .. block - 1 => x \in DOMAIN received[r]
  BY <1>1 DEF ListenerInv, PassInv
<1>13. GapFree'
  <2> SUFFICES ASSUME NEW r \in Setups, NEW x \in Confirmed(r), NEW y \in Confirmed(r),
                      conf[r][y] < conf[r][x], x \in DOMAIN received'[r]
               PROVE  y \in DOMAIN received'[r]
    BY <1>1 DEF GapFree, Confirmed, SamePass
  <2>1. CASE x \in DOMAIN received[r]
    BY <1>5, <2>1 DEF ListenerInv, GapFree
  <2>2. CASE r = s /\ x = t /\ t = u
    <3>1. y \in Names /\ conf[s][y] \in 1 .. block - 1
      BY <1>3, <2>2 DEF Confirmed
    <3> QED
      BY <1>3, <1>5, <1>12, <2>2, <3>1
  <2> QED
    BY <1>8, <2>1, <2>2
<1>14. t \in DOMAIN received'[s] \/ (t \in UnknownTxid /\ Lost(s, t))
  <2>1. CASE t = u
    BY <1>3, <1>5, <1>6, <2>1
  <2>2. CASE t = Challenge /\ u \in {ChallengeUncontested, State(0)}
    <3>1. conf[s][Challenge] \in 1 .. block - 1
      BY <1>3, <2>2 DEF ListenerInv, ChainInv
    <3> QED
      BY <1>3, <1>5, <1>12, <2>2, <3>1
  <2>3. CASE t # u /\ \/ t = Challenge /\ u = ProofUncontested
                      \/ t = ProofRefuted /\ u = ArgumentUncontested
    <3>1. u \in Confirmed(s)
      BY <1>3 DEF Confirmed
    <3> QED
      BY <2>3, <3>1, Conflicts, UnknownNames DEF Lost
  <2> QED
    BY <1>2, <2>1, <2>2, <2>3 DEF Match
<1>15. PassInv'
  <2>1. MarkedRight'
    <3>1. \A r, x : Lost(r, x)' = Lost(r, x)
      BY <1>1 DEF Lost, Confirmed, SamePass
    <3>2. marked \subseteq Setups \X Names
      BY DEF TypeOK
    <3>3. \A x \in marked : x[2] \in DOMAIN received[x[1]] \/ (x[2] \in UnknownTxid /\ Lost(x[1], x[2]))
      BY <1>1 DEF ListenerInv, PassInv, MarkedRight
    <3> QED
      BY <1>3, <1>5, <1>14, <3>1, <3>2, <3>3 DEF MarkedRight
  <2>2. LastFinal' = LastFinal
    BY <1>1 DEF LastFinal, SamePass
  <2> QED
    BY <1>1, <1>3, <1>5, <2>1, <2>2 DEF PassInv, ListenerInv, SamePass
<1> QED
  BY <1>9, <1>10, <1>11, <1>13, <1>15 DEF ListenerInv

(***************************************************************************)
(* A block is done when all it holds of the setups of the pass has a row.  *)
(***************************************************************************)
LEMMA UnknownDoneInv ==
    ASSUME TypeOK, ListenerInv, UnknownDone
    PROVE  ListenerInv'
<1>1. /\ pc = "unknown" /\ UnknownMatches = {} /\ checked' = Progress /\ pc' = "known" /\ block' = block + 1
      /\ UNCHANGED <<height, conf, active, received, tip, joined, marked>>
  BY DEF UnknownDone, chainVars
<1>2. /\ height \in Nat /\ Finality \in Nat /\ block \in Nat /\ block > 0 /\ joined \subseteq Setups
      /\ conf \in [Setups -> [Names -> 0 .. height]] /\ checked \in [Setups -> 0 .. height]
  BY <1>1, ListenerAssumption DEF TypeOK, ListenerInv, PassInv
<1>3. ASSUME NEW s \in joined, NEW t \in Names, conf[s][t] = block PROVE t \in DOMAIN received[s]
  <2>1. CASE t \notin UnknownTxid
    BY <1>1, <1>3, <2>1 DEF ListenerInv, PassInv
  <2>2. CASE t \in UnknownTxid
    <3>1. <<s, t>> \in marked
      BY <1>1, <1>3, <2>2, NothingLeft
    <3>2. ~Lost(s, t)
      <4>1. s \in Setups /\ t \in Confirmed(s)
        BY <1>2, <1>3 DEF Confirmed
      <4> QED
        BY <4>1 DEF Lost, ListenerInv, ChainInv
    <3> QED
      BY <1>1, <3>1, <3>2 DEF ListenerInv, PassInv, MarkedRight
  <2> QED
    BY <2>1, <2>2
<1>4. \A s \in joined : \A t \in Names : conf[s][t] \in 1 .. block => t \in DOMAIN received[s]
  <2> SUFFICES ASSUME NEW s \in joined, NEW t \in Names, conf[s][t] \in 1 .. block PROVE t \in DOMAIN received[s]
    OBVIOUS
  <2>1. CASE conf[s][t] \in 1 .. block - 1
    BY <1>1, <2>1 DEF ListenerInv, PassInv
  <2>2. CASE conf[s][t] = block
    BY <1>3, <2>2
  <2>3. \A c \in 1 .. block : c \in 1 .. block - 1 \/ c = block
    BY <1>2
  <2> QED
    BY <2>1, <2>2, <2>3
<1>5. NothingSkipped'
  <2> SUFFICES ASSUME NEW s \in Setups, NEW t \in Names, conf[s][t] \in 1 .. checked'[s] PROVE t \in DOMAIN received[s]
    BY <1>1 DEF NothingSkipped
  <2>1. checked'[s] = checked[s] \/ (s \in joined /\ checked'[s] = block)
    BY <1>1 DEF Progress
  <2>2. CASE checked'[s] = checked[s]
    BY <2>2 DEF ListenerInv, NothingSkipped
  <2>3. CASE s \in joined /\ checked'[s] = block
    BY <1>4, <2>3
  <2> QED
    BY <2>1, <2>2, <2>3
<1>6. PassInv'
  <2>1. MarkedRight'
    BY <1>1 DEF ListenerInv, PassInv, MarkedRight, Lost, Confirmed
  <2>2. \A s \in joined : \A t \in Names : conf[s][t] \in 1 .. (block + 1) - 1 => t \in DOMAIN received[s]
    BY <1>2, <1>4
  <2> QED
    BY <1>1, <1>2, <2>1, <2>2 DEF PassInv
<1> QED
  BY <1>1, <1>5, <1>6 DEF ListenerInv, ChainInv, ReceivedRight, GapFree, Confirmed

(***************************************************************************)
(* A pass starts where nothing of its setups has been passed over.         *)
(***************************************************************************)
LEMMA StartInv ==
    ASSUME TypeOK, ListenerInv, NEW S \in SUBSET active, NEW unread \in SUBSET S, CheckForNewBlock(S, unread)
    PROVE  ListenerInv'
<1>1. UNCHANGED <<height, conf, active, checked, received>>
  BY DEF CheckForNewBlock, chainVars
<1>2. PassInv'
  <2>1. CASE S = {}
    <3>1. Idle
      BY <2>1 DEF CheckForNewBlock
    <3> QED
      BY <3>1 DEF Idle, PassInv
  <2>2. CASE S # {}
    <3>1. joined' = S /\ marked' = UNION {{s} \X DOMAIN received[s] : s \in S \ unread}
          /\ pc' = "known" /\ block' = StartBlock(S)
      BY <2>2 DEF CheckForNewBlock
    <3>2. block' \in 1 .. height + 1 /\ \A s \in S : block' - 1 <= checked[s]
      BY <2>2, <3>1, StartEffect
    <3>3. height \in Nat /\ S \subseteq Setups /\ checked \in [Setups -> 0 .. height]
          /\ conf \in [Setups -> [Names -> 0 .. height]]
      BY DEF TypeOK
    <3>4. ASSUME NEW s \in S, NEW t \in Names, conf[s][t] \in 1 .. block' - 1 PROVE t \in DOMAIN received[s]
      <4>1. conf[s][t] \in 1 .. checked[s]
        BY <3>2, <3>3, <3>4
      <4> QED
        BY <3>3, <4>1 DEF ListenerInv, NothingSkipped
    <3>5. ASSUME NEW x \in marked' PROVE x[2] \in DOMAIN received[x[1]]
      <4>1. PICK s \in S \ unread : x \in {s} \X DOMAIN received[s]
        BY <3>1, <3>5
      <4> QED
        BY <4>1
    <3>6. MarkedRight'
      BY <1>1, <3>5 DEF MarkedRight
    <3>7. block' > 0
      BY <3>2, <3>3
    <3> QED
      BY <1>1, <3>1, <3>4, <3>6, <3>7 DEF PassInv
  <2> QED
    BY <2>1, <2>2
<1> QED
  BY <1>1, <1>2 DEF ListenerInv, ChainInv, ReceivedRight, NothingSkipped, GapFree, Confirmed

(***************************************************************************)
(* Every step keeps the invariant of the listener.                         *)
(***************************************************************************)
LEMMA NextListenerInv ==
    ASSUME TypeOK, RowTypes, ListenerInv, [Next]_vars
    PROVE  ListenerInv'
<1>1. ASSUME NEW s \in Setups, Activate(s) PROVE ListenerInv'
  <2>1. /\ Confirmed(s) = {} /\ UNCHANGED <<height, conf, received, tip, pc, block, joined, marked>>
        /\ \E h \in 0 .. height - 1 : checked' = [checked EXCEPT ![s] = h]
    BY <1>1 DEF Activate, passVars
  <2>2. \A r \in Setups \ {s} : checked'[r] = checked[r]
    BY <2>1 DEF TypeOK
  <2>3. \A t \in Names : conf[s][t] = 0
    BY <2>1 DEF Confirmed, TypeOK
  <2>4. NothingSkipped'
    <3> SUFFICES ASSUME NEW r \in Setups, NEW t \in Names, conf[r][t] \in 1 .. checked'[r]
                 PROVE  t \in DOMAIN received[r]
      BY <2>1 DEF NothingSkipped
    <3>1. r # s
      BY <2>3
    <3> QED
      BY <2>2, <3>1 DEF ListenerInv, NothingSkipped
  <2>5. PassInv'
    BY <2>1 DEF ListenerInv, PassInv, MarkedRight, Lost, Confirmed, LastFinal
  <2> QED
    BY <2>1, <2>4, <2>5 DEF ListenerInv, ChainInv, ReceivedRight, GapFree, Confirmed
<1>2. ASSUME UNCHANGED <<height, conf, checked, received>>, PassInv' PROVE ListenerInv'
  BY <1>2 DEF ListenerInv, ChainInv, ReceivedRight, NothingSkipped, GapFree, Confirmed
<1>3. ASSUME UNCHANGED <<height, conf, checked, received, tip, pc, block, joined, marked>> PROVE ListenerInv'
  BY <1>2, <1>3 DEF ListenerInv, PassInv, MarkedRight, Lost, Confirmed, LastFinal
<1>4. ASSUME NEW s \in Setups, Settle(s) PROVE ListenerInv'
  BY <1>3, <1>4 DEF Settle, passVars
<1>5. ASSUME Idle, UNCHANGED <<height, conf, checked, received>> PROVE ListenerInv'
  BY <1>2, <1>5 DEF Idle, PassInv
<1>6. EndPass \/ Fail \/ Restart => ListenerInv'
  BY <1>5 DEF EndPass, Fail, Restart, chainVars
<1>7. CASE KnownDone
  <2>1. /\ pc = "known" /\ block <= LastFinal /\ KnownMatches = {} /\ pc' = "unknown"
        /\ UNCHANGED <<height, conf, checked, received, tip, block, joined, marked>>
    BY <1>7 DEF KnownDone, chainVars
  <2>2. ASSUME NEW s \in joined, NEW t \in Names \ UnknownTxid, conf[s][t] = block PROVE t \in DOMAIN received[s]
    <3>1. <<s, t>> \in marked
      BY <2>1, <2>2, NothingLeft
    <3> QED
      BY <2>1, <2>2, <3>1 DEF ListenerInv, PassInv, MarkedRight
  <2>3. PassInv'
    BY <2>1, <2>2 DEF ListenerInv, PassInv, MarkedRight, Lost, Confirmed, LastFinal
  <2> QED
    BY <1>2, <2>1, <2>3
<1>8. UNCHANGED vars => ListenerInv'
  BY <1>3 DEF vars, chainVars, passVars
<1> QED
  BY <1>1, <1>4, <1>6, <1>7, <1>8, MineInv, SearchInv, UnknownDoneInv, StartInv DEF Next, ListenerStep

-----------------------------------------------------------------------------
(* Theorems.                                                               *)

\* All that an induction over the steps of the listener needs.
FullInv == TypeOK /\ RowTypes /\ ListenerInv

(***************************************************************************)
(* The listener starts with nothing confirmed, received or searched.       *)
(***************************************************************************)
LEMMA InitFullInv == Init => FullInv
<1> SUFFICES ASSUME Init PROVE FullInv
  OBVIOUS
<1>1. MaxHeight \in Nat \ {0} /\ MaxErrors \in Nat /\ Started \subseteq Setups
  BY ListenerAssumption
<1>2. \A s \in Setups : received[s] = <<>> /\ DOMAIN received[s] = {}
  BY DEF Init
<1>3. errors = <<>> /\ errors \in Seq(Nat) /\ Len(errors) = 0 /\ Range(errors) = {}
  BY DEF Init, Range
<1>4. TypeOK
  <2>1. /\ height \in 1 .. MaxHeight /\ conf \in [Setups -> [Names -> 0 .. height]]
        /\ active \subseteq Setups /\ joined \subseteq Setups /\ checked \in [Setups -> 0 .. height]
        /\ \A s \in Setups : checked[s] < height
        /\ tip \in 0 .. height /\ block \in 0 .. height + 1
    BY <1>1 DEF Init
  <2>2. /\ \A s \in Setups : DOMAIN received[s] \subseteq Names
        /\ pc \in {"idle", "known", "unknown"} /\ marked \subseteq Setups \X Names /\ found \in BOOLEAN
    BY <1>2 DEF Init
  <2>3. Range(errors) \subseteq 0 .. height /\ Len(errors) <= MaxErrors
    BY <1>1, <1>3
  <2> QED
    BY <2>1, <2>2, <2>3 DEF TypeOK
<1>5. RowTypes
  <2>1. <<>> \in [{} -> Names] /\ {} \in SUBSET Names
    OBVIOUS
  <2>2. <<>> \in Rows
    BY <2>1 DEF Rows
  <2> QED
    BY <1>3, <2>2 DEF Init, RowTypes
<1>6. \A s \in Setups : Confirmed(s) = {} /\ \A t \in Names : conf[s][t] = 0
  BY DEF Init, Confirmed
<1>7. ChainInv
  BY <1>6, UnknownNames DEF ChainInv
<1>8. ReceivedRight /\ NothingSkipped /\ GapFree
  BY <1>2, <1>6 DEF ReceivedRight, NothingSkipped, GapFree
<1>9. PassInv
  BY DEF Init, PassInv
<1> QED
  BY <1>4, <1>5, <1>7, <1>8, <1>9 DEF FullInv, ListenerInv

(***************************************************************************)
(* The types, and with them: no progress is written beyond the chain, and  *)
(* no block is asked for that does not exist.                              *)
(***************************************************************************)
THEOREM ListenerInvariant == Spec => []FullInv
<1>1. FullInv /\ [Next]_vars => FullInv'
  <2> SUFFICES ASSUME TypeOK, RowTypes, ListenerInv, [Next]_vars PROVE FullInv'
    BY DEF FullInv
  <2>1. PassInv
    BY DEF ListenerInv
  <2>2. TypeOK' /\ RowTypes'
    BY <2>1, NextTypes
  <2>3. ListenerInv'
    BY NextListenerInv
  <2> QED
    BY <2>2, <2>3 DEF FullInv
<1> QED
  BY <1>1, InitFullInv, PTL DEF Spec

(***************************************************************************)
(* Every variable of the listener has its type.                            *)
(***************************************************************************)
THEOREM ListenerTypeCorrect == Spec => []TypeOK
<1>1. FullInv => TypeOK
  BY DEF FullInv
<1> QED
  BY <1>1, ListenerInvariant, PTL

(***************************************************************************)
(* A received row names the transaction of its own template, in a final    *)
(* block, although CHALLENGE and PROOF_REFUTED are taken from any          *)
(* transaction that spends an output of their parent.                      *)
(***************************************************************************)
THEOREM RowsRight == Spec => []ReceivedRight
<1>1. FullInv => ReceivedRight
  BY DEF FullInv, ListenerInv
<1> QED
  BY <1>1, ListenerInvariant, PTL

(***************************************************************************)
(* Whatever fails: nothing that a setup's last_checked_block_height covers *)
(* has been passed over, with any number of setups in one pass.            *)
(***************************************************************************)
THEOREM ProgressHonest == Spec => []NothingSkipped
<1>1. FullInv => NothingSkipped
  BY DEF FullInv, ListenerInv
<1> QED
  BY <1>1, ListenerInvariant, PTL

(***************************************************************************)
(* The received templates of a setup have no gap: what was confirmed       *)
(* before a received template is received.                                 *)
(***************************************************************************)
THEOREM RowsInOrder == Spec => []GapFree
<1>1. FullInv => GapFree
  BY DEF FullInv, ListenerInv
<1> QED
  BY <1>1, ListenerInvariant, PTL
=============================================================================
