------------------------------- MODULE Dispute -------------------------------
(***************************************************************************)
(* From the first STATE to the script that refutes the argument: the       *)
(* rounds that narrow the dispute down to one line (calculateStates and    *)
(* findErrorState of states.ts on the ranges of the decasector), the       *)
(* refutation the verifier asks for (refute of argument.ts), and the tree  *)
(* of all refutation scripts that worker processes hash in parallel        *)
(* (doomsday-generator.ts, parallelize.ts), out of which the script and    *)
(* its control block are taken.                                            *)
(*                                                                         *)
(* The registers are abstracted to whether the prover's are right.  The    *)
(* prover may claim wrong ones from any line on or at one line only, and   *)
(* another line in every round.                                            *)
(***************************************************************************)
EXTENDS Decasector, Taptree, FiniteSets

CONSTANTS
    Totals,             \* program lengths (1000000 in groth16-verify.ts)
    WrongLines,         \* the lines from which, or at which, a claim may be wrong
    ScriptTotalLines,   \* lines that have refutation scripts (400001)
    TotalRefutationProofs, TotalRefutationHashOptions,      \* 3 and 7
    Chunks,             \* pieces of work (128)
    ParallelFactor,     \* pieces in progress (16)
    MaxFailures         \* bound on the workers that fail or are killed

ASSUME DisputeAssumption ==
    /\ Totals \subseteq Nat \ {0} /\ \A n \in Totals : ScriptTotalLines + 1 < n
    /\ TotalRefutationProofs = 3
    /\ {ScriptTotalLines, TotalRefutationHashOptions, Chunks, ParallelFactor} \subseteq Nat \ {0}
    /\ MaxFailures \in Nat

VARIABLES
    total,      \* length of the program that is disputed
    claims,     \* for every STATE published the slots, 1 to 9, that are wrong
    path,       \* the selections published
    stage,      \* where the verifier is
    asked,      \* the refutation the script is wanted for
    todo,       \* parallelize: chunks not yet started
    running,    \* chunks being worked on
    lost,       \* those of them whose worker was killed
    results,    \* chunk whose hashes are in the given place of the results
    hashes,     \* allHashes
    tree,       \* the compressor
    failures    \* workers that failed or were killed so far

disputeVars == <<total, claims, path>>
poolVars == <<todo, running, lost, results>>
vars == <<disputeVars, stage, asked, poolVars, hashes, tree, failures>>

Iterations == [n \in Totals |-> IterationsFor(n)]
StateCommitmentByLine == [n \in Totals |-> StateCommitments(n)]

-----------------------------------------------------------------------------
(* The index of a refutation among all scripts.                            *)

Instr(line) == [refutationType |-> "INSTR", line |-> line, whichProof |-> 0, whichHashOption |-> 0]
HashOf(line, proof, option) ==
    [refutationType |-> "HASH", line |-> line, whichProof |-> proof, whichHashOption |-> option]

PerLine == TotalRefutationProofs * TotalRefutationHashOptions

GetMaxRefutationIndex ==
    ScriptTotalLines + ScriptTotalLines * PerLine + TotalRefutationHashOptions

\* Mutant: the options of a line come before its proofs.
GetRefutationIndexByOption(r) ==
    LET line == IF r.line < ScriptTotalLines THEN r.line ELSE ScriptTotalLines
    IN  IF r.refutationType = "INSTR" THEN line
        ELSE ScriptTotalLines + line * PerLine + r.whichHashOption * TotalRefutationProofs + r.whichProof

\* Lines past the last one count as scriptTotalLines.
GetRefutationIndex(r) ==
    LET line == IF r.line < ScriptTotalLines THEN r.line ELSE ScriptTotalLines
    IN  IF r.refutationType = "INSTR" THEN line
        ELSE ScriptTotalLines + line * PerLine + r.whichProof * TotalRefutationHashOptions
             + r.whichHashOption

GetRefutationDescriptor(index) ==
    LET rest == index - ScriptTotalLines
        inLine == rest % PerLine
    IN  IF index < ScriptTotalLines THEN Instr(index)
        ELSE HashOf(rest \div PerLine, inLine \div TotalRefutationHashOptions,
                    inLine % TotalRefutationHashOptions)

(***************************************************************************)
(* createRefutationScript, up to what makes two scripts differ.  A hash    *)
(* script has three keys; only the last option of a proof has the key of a *)
(* root, and that is the slot of the STATE that reveals the line, or the   *)
(* next one for the value the instruction writes.  There is no script for  *)
(* the hashes of line 0.                                                   *)
(***************************************************************************)
RootSlot(n, r) ==
    LET c == StateCommitmentByLine[n][IF r.whichProof = 2 THEN r.line + 1 ELSE r.line]
    IN  10 * c.iteration + c.selection

CreateRefutationScript(n, r) ==
    IF r.refutationType = "INSTR" THEN <<"INSTR", r.line, 0, 0>>
    ELSE IF r.line = 0 THEN <<"EMPTY", 0, 0, 0>>
    ELSE <<"HASH", IF r.whichHashOption = TotalRefutationHashOptions - 1 THEN RootSlot(n, r) ELSE 0,
           r.whichProof, r.whichHashOption>>

ScriptTable ==
    [n \in Totals |-> [i \in 0..(GetMaxRefutationIndex - 1) |->
        CreateRefutationScript(n, GetRefutationDescriptor(i))]]

\* chunkTheWork and generateFinalStepTaprootChunk; chunks count from 0.
ChunkSize == (GetMaxRefutationIndex + Chunks - 1) \div Chunks
ChunkEnd(i) == IF (i + 1) * ChunkSize < GetMaxRefutationIndex THEN (i + 1) * ChunkSize
               ELSE GetMaxRefutationIndex
ChunkHashes(n, i) == [k \in 1..(ChunkEnd(i) - i * ChunkSize) |-> ScriptTable[n][i * ChunkSize + k - 1]]

-----------------------------------------------------------------------------

NoRefutation == Instr(0)
NoResults == [t \in {} |-> 0]
NoTree == Compressor(1, 0)

Init ==
    /\ total \in Totals
    /\ claims = <<>> /\ path = <<>>
    /\ stage = "dispute" /\ asked = NoRefutation
    /\ todo = <<>> /\ running = {} /\ lost = {} /\ results = NoResults
    /\ hashes = <<>> /\ tree = NoTree
    /\ failures = 0

Lines == GetLinesForSelectionPath(total, path)

\* The prover publishes the states at the nine lines of the range.
PublishState ==
    /\ stage = "dispute" /\ Len(claims) = Len(path) /\ Len(path) < Iterations[total]
    /\ \E w \in WrongLines :
          \/ claims' = Append(claims, {i \in 1..9 : Lines[i] >= w})
          \/ claims' = Append(claims, {i \in 1..9 : Lines[i] = w})
    /\ UNCHANGED <<total, path, stage, asked, poolVars, hashes, tree, failures>>

\* Mutant: the count of right states starts from one.
FindErrorStateFromOne(wrong) ==
    IF wrong = {} THEN 9 ELSE CHOOSE i \in 1..9 : i \in wrong /\ \A j \in wrong : i <= j

\* findErrorState: the states before the first wrong one, all nine if none is.
FindErrorState(wrong) ==
    IF wrong = {} THEN 9 ELSE (CHOOSE i \in wrong : \A j \in wrong : i <= j) - 1

PublishSelect ==
    /\ stage = "dispute" /\ Len(claims) = Len(path) + 1
    /\ path' = Append(path, FindErrorState(Last(claims)))
    /\ UNCHANGED <<total, claims, stage, asked, poolVars, hashes, tree, failures>>

\* The argument is about the line at the left end; what is wrong in it, the
\* instruction or one of the hashes, is up to the prover.
Refutations ==
    LET line == GetLineBySelectionPath(total, path)
    IN  {Instr(line)} \cup
        {HashOf(line, p, o) : p \in 0..(TotalRefutationProofs - 1),
                              o \in 0..(TotalRefutationHashOptions - 1)}

StartPool ==
    /\ todo' = [t \in 1..Chunks |-> t - 1]
    /\ running' = {} /\ lost' = {} /\ results' = NoResults

\* refute, up to the call of generateFinalStepTaprootParallel, which is given
\* nothing but the descriptor.
Refute ==
    /\ stage = "dispute" /\ Len(path) = Iterations[total]
    /\ asked' \in Refutations
    /\ stage' = "work"
    /\ claims' = <<>> /\ path' = <<>>
    /\ StartPool
    /\ UNCHANGED <<total, hashes, tree, failures>>

-----------------------------------------------------------------------------
(* parallelize                                                             *)

\* Mutant: nothing holds the next piece of work back.
StartChunkAtOnce ==
    /\ stage = "work" /\ todo # <<>>
    /\ running' = running \cup {Last(todo)}
    /\ todo' = Front(todo)
    /\ UNCHANGED <<disputeVars, stage, asked, lost, results, hashes, tree, failures>>

StartChunk ==
    /\ stage = "work" /\ todo # <<>> /\ Cardinality(running) < ParallelFactor
    /\ running' = running \cup {Last(todo)}
    /\ todo' = Front(todo)
    /\ UNCHANGED <<disputeVars, stage, asked, lost, results, hashes, tree, failures>>

\* results[t] = result
FinishChunk(t) ==
    /\ stage = "work" /\ t \in running \ lost
    /\ running' = running \ {t}
    /\ results' = [i \in DOMAIN results \cup {t} |-> IF i = t THEN t ELSE results[i]]
    /\ UNCHANGED <<disputeVars, stage, asked, todo, lost, hashes, tree, failures>>

\* Mutant: the failure is logged and the loop goes on waiting.
FailChunkQuietly(t) ==
    /\ stage = "work" /\ t \in running \ lost /\ failures < MaxFailures
    /\ failures' = failures + 1
    /\ running' = running \ {t}
    /\ UNCHANGED <<disputeVars, stage, asked, todo, lost, results, hashes, tree>>

\* The catch throws again with nobody to catch it: the process ends, and when
\* it runs again the ARGUMENT is still the last transaction received.
FailChunk(t) ==
    /\ stage = "work" /\ t \in running \ lost /\ failures < MaxFailures
    /\ failures' = failures + 1
    /\ StartPool
    /\ UNCHANGED <<disputeVars, stage, asked, hashes, tree>>

\* A worker that is killed writes nothing and raises no `error`, and run of
\* fork-yourself.ts does not listen for `exit`: its chunk is never done, and
\* its place among those in progress is never free again.
KillChunk(t) ==
    /\ stage = "work" /\ t \in running \ lost /\ failures < MaxFailures
    /\ failures' = failures + 1
    /\ lost' = lost \cup {t}
    /\ UNCHANGED <<disputeVars, stage, asked, todo, running, results, hashes, tree>>

\* All chunks are done, and none is empty ("Missing results"): flatMap, and a
\* compressor for the wanted leaf.  The cache of all hashes would only save
\* the work of a second refutation by the same process.
CollectHashes ==
    /\ stage = "work" /\ Cardinality(DOMAIN results) = Chunks
    /\ \A t \in DOMAIN results : ChunkHashes(total, results[t]) # <<>>
    /\ hashes' = FlattenSeq([t \in 1..Chunks |-> ChunkHashes(total, results[t - 1])])
    /\ tree' = Compressor(GetMaxRefutationIndex, GetRefutationIndex(asked))
    /\ stage' = "compress"
    /\ UNCHANGED <<disputeVars, asked, poolVars, failures>>

\* Mutant: the tree is filled up with its first hash.
CompressNextPaddedFirst ==
    /\ stage = "compress"
    /\ IF Complete(tree) THEN stage' = "open" /\ UNCHANGED tree
       ELSE /\ tree' = AddHash(tree, hashes[IF tree.nextIndex < Len(hashes) THEN tree.nextIndex + 1 ELSE 1])
            /\ UNCHANGED stage
    /\ UNCHANGED <<disputeVars, asked, poolVars, hashes, failures>>

\* addHash for every hash, then for the last one until the tree is complete.
CompressNext ==
    /\ stage = "compress"
    /\ IF Complete(tree) THEN stage' = "open" /\ UNCHANGED tree
       ELSE /\ tree' = AddHash(tree, IF tree.nextIndex < Len(hashes) THEN hashes[tree.nextIndex + 1]
                                     ELSE Last(hashes))
            /\ UNCHANGED stage
    /\ UNCHANGED <<disputeVars, asked, poolVars, hashes, failures>>

Next ==
    \/ PublishState \/ PublishSelect \/ Refute
    \/ StartChunk \/ (\E t \in running : FinishChunk(t) \/ FailChunk(t) \/ KillChunk(t))
    \/ CollectHashes \/ CompressNext

\* The agents run, and a worker that is not killed ends one way or the other.
Fairness ==
    /\ WF_vars(PublishState \/ PublishSelect \/ Refute)
    /\ WF_vars(StartChunk) /\ WF_vars(CollectHashes) /\ WF_vars(CompressNext)
    /\ \A t \in 0..(Chunks - 1) : WF_vars(FinishChunk(t) \/ FailChunk(t))

Spec == Init /\ [][Next]_vars /\ Fairness

-----------------------------------------------------------------------------

TypeOK ==
    /\ total \in Totals /\ failures \in 0..MaxFailures
    /\ claims \in Seq(SUBSET (1..9)) /\ path \in Seq(0..9)
    /\ Len(claims) \in {Len(path), Len(path) + 1}
    /\ stage \in {"dispute", "work", "compress", "open"}
    /\ asked.line \in 0..(total - 1)
    /\ Cardinality(running) <= ParallelFactor
    /\ running \cap (Range(todo) \cup DOMAIN results) = {} /\ lost \subseteq running
    /\ \A i \in DOMAIN tree.data : Len(tree.data[i]) <= 1

\* The line a slot of a published STATE is about, and whether the claim there
\* is right.  The range of all lines starts at what is given and ends at what
\* is contested.
SlotLine(k, i) == GetLinesForSelectionPath(total, SubSeq(path, 1, k - 1))[i]
Slots == (1..Len(path)) \X (1..9)
Accepted(line) == line = 0 \/ \E s \in Slots : SlotLine(s[1], s[2]) = line /\ s[2] \notin claims[s[1]]
Rejected(line) == line = total \/ \E s \in Slots : SlotLine(s[1], s[2]) = line /\ s[2] \in claims[s[1]]

(***************************************************************************)
(* "They accept the state before it, but not the state after it"           *)
(* (README.md): whatever the prover claims, the verifier always disputes a *)
(* range that starts with a state he accepts and ends with one he rejects. *)
(***************************************************************************)
RangeContested ==
    LET range == GetRangeForSelectionPath(total, path)
    IN  range.left < range.right /\ Accepted(range.left) /\ Rejected(range.right)

(***************************************************************************)
(* The iterations, calculated from the length of the program, are enough   *)
(* to come down to one line, however the tenths are rounded.               *)
(***************************************************************************)
EndsAtOneLine ==
    Len(path) = Iterations[total] /\ stage = "dispute" =>
        LET range == GetRangeForSelectionPath(total, path) IN range.right = range.left + 1

(***************************************************************************)
(* The slot that the table of all lines, made once for all paths, gives    *)
(* for an end of the disputed range is the slot of the STATE that revealed *)
(* it on this path.  The hash scripts take the key of the root from there. *)
(***************************************************************************)
RootsRevealed ==
    LET range == GetRangeForSelectionPath(total, path)
    IN  \A line \in {range.left, range.right} \ {0, total} :
            LET c == StateCommitmentByLine[total][line]
            IN  c.iteration \in 1..Len(path) /\ SlotLine(c.iteration, c.selection + 1) = line

\* The control block proves the script of the refutation that was asked for.
Opens ==
    /\ DOMAIN tree.proof = 0..(tree.depth - 2)
    /\ OpenedRoot(CreateRefutationScript(total, asked),
                  [i \in 1..(tree.depth - 1) |-> tree.proof[i - 1]]) = Root(tree)

(***************************************************************************)
(* The control block opens the script of the refutation that was asked     *)
(* for, whichever worker finished first, if the line has scripts at all.   *)
(***************************************************************************)
ControlBlockOpens == stage = "open" /\ asked.line < ScriptTotalLines => Opens

\* All hashes, and the last one until their number is a power of two.
Padded == [i \in 1..PowerOfTwo[tree.depth - 1] |-> IF i <= Len(hashes) THEN hashes[i] ELSE Last(hashes)]

(***************************************************************************)
(* The compressor, which never holds more than one hash of a level, comes  *)
(* to the root of the tree that SimpleTapTree makes of the same scripts    *)
(* (tests/taproot/compressor.spec.ts), padded, and to the same proof.      *)
(***************************************************************************)
SameTree ==
    stage = "open" =>
        /\ Root(tree) = GetRoot(Padded)
        /\ GetProof(Padded, tree.indexToSave) = [i \in 1..(tree.depth - 1) |-> tree.proof[i - 1]]

\* The refutations that have a script: not those of lines past the last one,
\* nor those of the hashes of line 0.
HasScript(r) == r.line < ScriptTotalLines /\ (r.refutationType = "HASH" => r.line # 0)

(***************************************************************************)
(* Every dispute ends with a control block that opens the script of the    *)
(* refutation, or with a refutation that has no script: no worker that     *)
(* fails leaves the loop of parallelize waiting.  A worker that is killed  *)
(* does, until a failure ends the whole process, so the claim is made for  *)
(* disputes in which no worker stays killed.                               *)
(***************************************************************************)
ScriptFound ==
    <>[](lost = {}) => <>(~HasScript(asked) \/ (stage = "open" /\ Opens))
=============================================================================
