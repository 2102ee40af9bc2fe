---------------------------- MODULE Commands_proofs ----------------------------
(***************************************************************************)
(* Theorems of the commands.  No run of gen blocks another, and what check *)
(* passed agrees with the interpreter; a run of migrate that refuses a     *)
(* document changes none, and what it does put on disk is current; what    *)
(* diff lets through is earned, and migrates.  Of a declaration set Load   *)
(* accepts, every resource has one source, and what it imports one owner.  *)
(***************************************************************************)
EXTENDS Generated, MigrateCommand, Diffs, DeclLoad, FiniteSetTheorems, TLAPS

-------------------------------------------------------------------------------
(***************************************************************************)
(* gen.  What is about to be written was unlocked by the step before, and  *)
(* nothing that runs between the two locks it: only a seal does, of what   *)
(* the same run just wrote.                                                *)
(***************************************************************************)
OutputsTyped == \A o \in DOMAIN outputs : DOMAIN outputs[o] = {"text", "writable"}

OpenedIsWritable ==
  gen.at = "write" /\ Output \in DOMAIN outputs => outputs[Output].writable = TRUE

GenInv == DOMAIN gen = DOMAIN NoGen /\ OutputsTyped /\ OpenedIsWritable /\ NoRunBlocksAnother

LEMMA GenInvKept ==
  ASSUME GenInv, [GeneratedNext]_generatedVars
  PROVE  GenInv'
<1> USE DEF GenInv
<1>1. ASSUME DOMAIN gen' = DOMAIN NoGen, gen'.at # "write", gen'.ended # "blocked", OutputsTyped'
      PROVE  GenInv'
  BY <1>1 DEF OpenedIsWritable, NoRunBlocksAnother
<1>2. ASSUME UNCHANGED <<outputs, gen>>
      PROVE  GenInv'
  BY <1>2 DEF OutputsTyped, OpenedIsWritable, NoRunBlocksAnother, Output, Job
<1>3. ASSUME NEW how, Ends(how), how # "blocked", OutputsTyped'
      PROVE  GenInv'
  BY <1>1, <1>3 DEF Ends, NoGen
<1>4. ASSUME UNCHANGED outputs
      PROVE  OutputsTyped'
  BY <1>4 DEF OutputsTyped
<1>5. ASSUME NEW made, outputs' = Saved(outputs, Output, [text |-> made, writable |-> TRUE])
      PROVE  OutputsTyped'
  BY <1>5 DEF OutputsTyped, Saved
<1>6. CASE GenStart
  <2>1. CASE ManifestLoads
    BY <1>1, <1>4, <1>6, <2>1 DEF GenStart, NoGen
  <2>2. CASE ~ManifestLoads
    BY <1>3, <1>4, <1>6, <2>2 DEF GenStart
  <2> QED
    BY <2>1, <2>2
<1>7. CASE GenLoad
  <2>1. CASE Ends("refused")
    BY <1>3, <1>4, <1>7, <2>1 DEF GenLoad
  <2>2. CASE ~Ends("refused")
    <3>1. /\ GoesTo("open") \/ \E types : gen' = [gen EXCEPT !.at = "embed", !.types = types]
          /\ UNCHANGED outputs
      BY <1>7, <2>2, Zenon DEF GenLoad
    <3>2. gen'.at # "write" /\ gen'.ended = gen.ended /\ DOMAIN gen' = DOMAIN NoGen
      BY <3>1 DEF GoesTo, NoGen
    <3> QED
      BY <1>1, <1>4, <3>1, <3>2 DEF NoRunBlocksAnother
  <2> QED
    BY <2>1, <2>2
<1>8. CASE GenEmbed
  <2>1. CASE Ends("refused")
    BY <1>3, <1>4, <1>8, <2>1 DEF GenEmbed
  <2>2. CASE ~Ends("refused")
    <3>1. gen' = [gen EXCEPT !.at = "open", !.embedded = FilesEmbedded(sources, Job.path)]
      BY <1>8, <2>2, Zenon DEF GenEmbed
    <3> QED
      BY <1>1, <1>4, <1>8, <3>1 DEF GenEmbed, NoGen, NoRunBlocksAnother
  <2> QED
    BY <2>1, <2>2
<1>9. CASE GenOpen
  <2>1. gen' = [gen EXCEPT !.at = "write"] /\ outputs' = Unlocked(outputs)
    BY <1>9 DEF GenOpen, GoesTo
  <2>2. Output' = Output
    BY <2>1 DEF Output, Job, NoGen
  <2>3. OutputsTyped' /\ (Output \in DOMAIN outputs' => outputs'[Output].writable = TRUE)
    BY <2>1 DEF Unlocked, OutputsTyped
  <2>4. OpenedIsWritable'
    <3> HIDE DEF Output
    <3> QED
      BY <2>2, <2>3 DEF OpenedIsWritable
  <2>5. NoRunBlocksAnother' /\ DOMAIN gen' = DOMAIN NoGen
    BY <2>1 DEF NoRunBlocksAnother, NoGen
  <2> QED
    BY <2>3, <2>4, <2>5
<1>10. CASE GenWrite
  <2>1. ~(Output \in DOMAIN outputs /\ ~outputs[Output].writable)
    BY <1>10 DEF GenWrite, OpenedIsWritable
  <2>2. GoesTo("seal") /\ \E made : outputs' = Saved(outputs, Output, [text |-> made, writable |-> TRUE])
    BY <1>10, <2>1, Zenon DEF GenWrite
  <2> QED
    BY <1>1, <1>5, <2>2 DEF GoesTo, NoGen, NoRunBlocksAnother
<1>11. CASE GenSeal
  <2>1. /\ outputs' = [outputs EXCEPT ![Output].writable = FALSE]
        /\ gen' = [gen EXCEPT !.at = "load", !.jobs = Tail(gen.jobs), !.done = gen.done \cup {Output}]
    BY <1>11 DEF GenSeal
  <2>2. OutputsTyped'
    BY <2>1 DEF OutputsTyped
  <2> QED
    BY <1>1, <2>1, <2>2 DEF NoGen, NoRunBlocksAnother
<1>12. CASE GenAttributes
  BY <1>3, <1>4, <1>12 DEF GenAttributes
<1>13. CASE GenFails
  <2>1. OutputsTyped'
    BY <1>4, <1>5, <1>13, Zenon DEF GenFails
  <2> QED
    BY <1>3, <1>13, <2>1 DEF GenFails
<1>14. CASE InitManifest \/ Check \/ Edit \/ UNCHANGED generatedVars
  BY <1>2, <1>14 DEF InitManifest, Check, Edit, generatedVars
<1> QED
  BY <1>6, <1>7, <1>8, <1>9, <1>10, <1>11, <1>12, <1>13, <1>14 DEF GeneratedNext

LEMMA GenInvAlways == GeneratedSpec => []GenInv
<1>1. GeneratedInit => GenInv
  BY DEF GeneratedInit, GenInv, OutputsTyped, OpenedIsWritable, NoRunBlocksAnother, NoGen
<1> QED
  BY <1>1, GenInvKept, PTL DEF GeneratedSpec

\* No run of gen ends blocked by a file an earlier one left read-only, wherever that one
\* failed or was killed (writeGenerated, go/cmd/strictspec/handlers.go).
THEOREM RunsBlockNoOther == GeneratedSpec => []NoRunBlocksAnother
<1>1. GenInv => NoRunBlocksAnother
  BY DEF GenInv
<1> QED
  BY <1>1, GenInvAlways, PTL

-------------------------------------------------------------------------------
(***************************************************************************)
(* Chains.  What a chain makes of a document is of the version its last    *)
(* migration leads to, and the chain selectChain finds, when it finds one, *)
(* ends where it was to.                                                   *)
(***************************************************************************)
ThroughStep(chain, o, i) == IF o.ok THEN ApplyUp(chain[i], o.document) ELSE o
ThroughFold == INSTANCE FoldTheory WITH Op <- ThroughStep, Pick <- Max

LEMMA ExtremesAreIn ==
  ASSUME NEW n \in Nat, NEW s \in SUBSET (1 .. n), s # {}
  PROVE  Max(s) \in s /\ (\A y \in s : y =< Max(s)) /\ Min(s) \in s
<1>1. (\E x \in s : \A y \in s : x >= y) /\ (\E x \in s : \A y \in s : x =< y)
  BY ThroughFold!BoundedHaveExtremes
<1>2. Max(s) \in s /\ \A y \in s : Max(s) >= y
  BY <1>1 DEF Max
<1>3. Min(s) \in s
  BY <1>1 DEF Min
<1> QED
  BY <1>2, <1>3

\* The version is written by every migration that is not refused.
LEMMA VersionIsWritten ==
  ASSUME NEW m, NEW d, ApplyUp(m, d).ok
  PROVE  VersionOf(ApplyUp(m, d).document) = m.to
<1> DEFINE outcome == FoldLeft(Step, Migrated(d), m.ops)
<1>1. ApplyUp(m, d) = WithVersion(outcome, m.to)
  BY DEF ApplyUp
<1> HIDE DEF outcome
<1>2. Versioned(outcome.document) /\ ApplyUp(m, d) = Migrated([outcome.document EXCEPT ![VersionPath] = m.to])
  BY <1>1 DEF WithVersion, Failed
<1>3. VersionPath \in DOMAIN outcome.document
  BY <1>2 DEF Versioned, Has
<1> QED
  BY <1>2, <1>3 DEF Migrated, VersionOf

LEMMA ThroughEndsAtTheLast ==
  ASSUME NEW X, NEW chain \in Seq(X), chain # <<>>, NEW d, Through(chain, d).ok
  PROVE  VersionOf(Through(chain, d).document) = Last(chain).to
<1> DEFINE n == Len(chain)
           made == ThroughFold!Iter(chain, Migrated(d), 1 .. n)
<1>1. n \in Nat /\ n > 0 /\ DOMAIN chain = 1 .. n
  OBVIOUS
<1>2. Through(chain, d) = made[1 .. n]
  BY <1>1 DEF Through, FoldLeft, MapThenFoldSet, ThroughFold!Iter, ThroughFold!Equation, ThroughStep
<1> HIDE DEF made, n
<1>3. made[1 .. n] = ThroughStep(chain, made[1 .. (n - 1)], n)
  BY <1>1, ThroughFold!IntervalsUnroll DEF ThroughFold!GoesInOrder, made, Max
<1>4. ApplyUp(chain[n], made[1 .. (n - 1)].document).ok
      /\ made[1 .. n] = ApplyUp(chain[n], made[1 .. (n - 1)].document)
  BY <1>2, <1>3 DEF ThroughStep
<1> QED
  BY <1>2, <1>4, VersionIsWritten DEF Last, n

FollowStep(p, found, i) == Follow(p.migrations, p.to, found, p.steps[i])
FollowFold == INSTANCE FoldTheory WITH Op <- FollowStep, Pick <- Max

\* Where a chain is at, at each step of selectChain.
AtItsEnd(found, from, X) ==
  /\ found.chain \in Seq(X)
  /\ found.version = IF found.chain = <<>> THEN from ELSE Last(found.chain).to

LEMMA FollowStaysAtItsEnd ==
  ASSUME NEW migrations, NEW X, migrations \in Seq(X), NEW from, NEW to, NEW found, NEW i,
         AtItsEnd(found, from, X)
  PROVE  AtItsEnd(Follow(migrations, to, found, i), from, X)
<1> DEFINE leaving == {j \in 1 .. Len(migrations) : migrations[j].from = found.version}
           next == SelectInSeq(migrations, LAMBDA m : m.from = found.version)
<1>1. CASE found.version = to \/ next = 0
  BY <1>1 DEF Follow
<1>2. CASE ~(found.version = to \/ next = 0)
  <2>1. leaving # {} /\ next = Min(leaving)
    BY <1>2 DEF SelectInSeq
  <2>2. next \in 1 .. Len(migrations)
    <3>1. Len(migrations) \in Nat /\ leaving \in SUBSET (1 .. Len(migrations))
      OBVIOUS
    <3> HIDE DEF leaving, next
    <3> QED
      BY <2>1, <3>1, ExtremesAreIn
  <2>3. migrations[next] \in X
    BY <2>2
  <2>4. Follow(migrations, to, found, i)
          = [version |-> migrations[next].to, chain |-> Append(found.chain, migrations[next])]
    BY <1>2 DEF Follow
  <2> HIDE DEF next
  <2>5. /\ Append(found.chain, migrations[next]) \in Seq(X)
        /\ Append(found.chain, migrations[next]) # <<>>
        /\ Last(Append(found.chain, migrations[next])) = migrations[next]
    BY <2>3 DEF AtItsEnd, Last
  <2> QED
    BY <2>4, <2>5 DEF AtItsEnd
<1> QED
  BY <1>1, <1>2

LEMMA ChainsEndWhereTheyAreTo ==
  ASSUME NEW migrations, NEW X, migrations \in Seq(X), NEW from, NEW to,
         Bridged(migrations, from, to), from # to
  PROVE  LET chain == SelectChain(migrations, from, to).chain
         IN chain \in Seq(X) /\ chain # <<>> /\ Last(chain).to = to
<1> DEFINE n == Len(migrations) + 1
           p == [migrations |-> migrations, to |-> to, steps |-> [i \in 1 .. n |-> i]]
           base == [version |-> from, chain |-> <<>>]
           found == FollowFold!Iter(p, base, 1 .. n)
           T == {k \in Nat : k =< n => AtItsEnd(found[1 .. k], from, X)}
<1>1. n \in Nat /\ n > 0
  OBVIOUS
<1>2. SelectChain(migrations, from, to) = found[1 .. n]
  <2>1. DOMAIN [i \in 1 .. n |-> i] = 1 .. n
    OBVIOUS
  <2> QED
    BY <2>1 DEF SelectChain, FoldLeft, MapThenFoldSet, FollowFold!Iter, FollowFold!Equation, FollowStep
<1>3. 0 \in T
  <2>1. found[1 .. 0] = base
    BY <1>1, FollowFold!IntervalsUnroll DEF FollowFold!GoesInOrder, Max
  <2>2. AtItsEnd(base, from, X)
    BY DEF AtItsEnd
  <2> HIDE DEF found, base, n
  <2> QED
    BY <2>1, <2>2
<1>4. ASSUME NEW k \in T PROVE k + 1 \in T
  <2> SUFFICES ASSUME k + 1 =< n PROVE AtItsEnd(found[1 .. (k + 1)], from, X)
    OBVIOUS
  <2>1. AtItsEnd(found[1 .. k], from, X)
    BY <1>1
  <2>2. found[1 .. (k + 1)] = FollowStep(p, found[1 .. ((k + 1) - 1)], k + 1)
    BY <1>1, FollowFold!IntervalsUnroll DEF FollowFold!GoesInOrder, Max
  <2>3. (k + 1) - 1 = k
    OBVIOUS
  <2>4. found[1 .. (k + 1)] = Follow(migrations, to, found[1 .. k], k + 1)
    BY <2>2, <2>3 DEF FollowStep
  <2> HIDE DEF found
  <2> QED
    BY <2>1, <2>4, FollowStaysAtItsEnd
<1> HIDE DEF found
<1>5. T = Nat
  <2>1. T \in SUBSET Nat
    OBVIOUS
  <2> HIDE DEF T
  <2> QED
    BY <1>3, <1>4, <2>1, ThroughFold!InductionOverNumbers
<1>6. AtItsEnd(found[1 .. n], from, X)
  BY <1>1, <1>5
<1> QED
  BY <1>2, <1>6 DEF Bridged, AtItsEnd

-------------------------------------------------------------------------------
(***************************************************************************)
(* migrate.  Only a sweep changes documents, and a dry run never gets to   *)
(* one; what it puts there is an output, every line of which was accepted  *)
(* at the end of the chain.                                                *)
(***************************************************************************)
IsCurrent(lines) ==
  \A i \in DOMAIN lines : Accepted(lines[i]) /\ VersionOf(lines[i]) = TargetVersion

FilesTyped ==
  /\ DOMAIN files = Paths /\ \A p \in Paths : DOMAIN files[p] = {"format", "lines"}
  /\ directory \in Directories

RunTyped ==
  /\ DOMAIN run = DOMAIN Resting /\ run.dry \in BOOLEAN /\ run.swept \in Nat
  /\ run.phase = "sweeping" => ~run.dry

OutputsAreCurrent ==
  \E S : run.outputs \in Seq(S) /\ \A lines \in S : IsCurrent(lines)

MigrateInv == FilesTyped /\ RunTyped /\ OutputsAreCurrent /\ RefusedRunsChangeNothing

LEMMA OutcomesAreCurrent ==
  ASSUME FilesTyped, NEW file, Outcome(file).ok
  PROVE  IsCurrent(Outcome(file).lines)
<1> DEFINE from == VersionOf(file.lines[1])
           chain == SelectChain(directory, from, TargetVersion).chain
<1>1. /\ from # TargetVersion /\ Bridged(directory, from, TargetVersion)
      /\ Outcome(file) = MigrateLines(chain, file.lines)
  BY DEF Outcome, MigrateFile
<1>2. PICK X : directory \in Seq(X)
  BY DirectoriesAreSequences DEF FilesTyped
<1>3. chain \in Seq(X) /\ chain # <<>> /\ Last(chain).to = TargetVersion
  BY <1>1, <1>2, ChainsEndWhereTheyAreTo
<1> HIDE DEF chain, from
<1>4. DOMAIN Outcome(file).lines = DOMAIN file.lines
  BY <1>1 DEF MigrateLines
<1>5. ASSUME NEW i \in DOMAIN file.lines
      PROVE  /\ Accepted(Outcome(file).lines[i])
             /\ VersionOf(Outcome(file).lines[i]) = TargetVersion
  <2> DEFINE made == MigrateDocument(chain, file.lines[i])
             through == Through(chain, file.lines[i])
  <2> DEFINE outcomes == [j \in DOMAIN file.lines |-> MigrateDocument(chain, file.lines[j])]
  <2>a. /\ Outcome(file).ok <=> \A j \in DOMAIN file.lines : outcomes[j].ok
        /\ Outcome(file).lines = [j \in DOMAIN file.lines |-> outcomes[j].document]
    BY <1>1 DEF MigrateLines
  <2>b. outcomes[i] = made
    OBVIOUS
  <2> HIDE DEF outcomes, made
  <2>1. made.ok /\ Outcome(file).lines[i] = made.document
    BY <2>a, <2>b
  <2> USE DEF made
  <2>2. made = through /\ through.ok /\ Accepted(through.document)
    <3> HIDE DEF through
    <3> QED
      BY <2>1 DEF MigrateDocument, Failed, through
  <2>3. VersionOf(through.document) = TargetVersion
    BY <1>3, <2>2, ThroughEndsAtTheLast
  <2> QED
    BY <2>1, <2>2, <2>3
<1> QED
  BY <1>4, <1>5 DEF IsCurrent

LEMMA ComputingKeepsOutputs ==
  ASSUME MigrateInv, Compute
  PROVE  MigrateInv'
<1> DEFINE made == Outcome(files[Current])
<1>1. /\ run.phase = "computing" /\ UNCHANGED <<files, directory, before>>
      /\ run' = IF made.ok THEN [run EXCEPT !.outputs = Append(@, made.lines)]
                ELSE [run EXCEPT !.phase = "refused"]
  BY DEF Compute
<1>2. made.ok => IsCurrent(made.lines)
  BY OutcomesAreCurrent DEF MigrateInv
<1> HIDE DEF made
<1>3. PICK S : run.outputs \in Seq(S) /\ \A lines \in S : IsCurrent(lines)
  BY DEF MigrateInv, OutputsAreCurrent
<1>4. OutputsAreCurrent'
  <2>1. CASE made.ok
    <3>1. run'.outputs = Append(run.outputs, made.lines)
      BY <1>1, <2>1 DEF MigrateInv, RunTyped, Resting
    <3>2. run'.outputs \in Seq(S \cup {made.lines})
      BY <1>3, <3>1
    <3> QED
      BY <1>2, <1>3, <2>1, <3>2 DEF OutputsAreCurrent, IsCurrent
  <2>2. CASE ~made.ok
    <3>1. run'.outputs = run.outputs
      BY <1>1, <2>2 DEF MigrateInv, RunTyped, Resting
    <3> QED
      BY <1>3, <3>1 DEF OutputsAreCurrent, IsCurrent
  <2> QED
    BY <2>1, <2>2
<1>5. RunTyped' /\ FilesTyped'
  BY <1>1 DEF MigrateInv, RunTyped, FilesTyped, Resting, Paths
<1>6. RefusedRunsChangeNothing'
  BY <1>1 DEF MigrateInv, RefusedRunsChangeNothing
<1> QED
  BY <1>4, <1>5, <1>6 DEF MigrateInv

LEMMA MigrateInvKept ==
  ASSUME MigrateInv, [MigrateNext]_migrateVars
  PROVE  MigrateInv'
<1> USE DEF MigrateInv, RefusedRunsChangeNothing
<1>1. ASSUME run'.outputs = run.outputs
      PROVE  OutputsAreCurrent'
  BY <1>1 DEF OutputsAreCurrent, IsCurrent
<1>2. ASSUME UNCHANGED <<files, directory>>
      PROVE  FilesTyped'
  BY <1>2 DEF FilesTyped, Paths
<1>3. CASE Begin
  <2>1. PICK dry \in BOOLEAN : run' = [Resting EXCEPT !.phase = "computing", !.dry = dry]
    BY <1>3 DEF Begin
  <2>2. RunTyped' /\ run'.outputs = <<>> /\ files' = files /\ before' = files
    BY <1>3, <2>1 DEF Begin, RunTyped, Resting
  <2>3. OutputsAreCurrent'
    <3>1. run'.outputs \in Seq({})
      BY <2>2
    <3> QED
      BY <3>1 DEF OutputsAreCurrent
  <2> QED
    BY <1>2, <1>3, <2>2, <2>3 DEF Begin
<1>4. CASE Compute
  BY <1>4, ComputingKeepsOutputs
<1>5. CASE Sweep
  BY <1>1, <1>2, <1>5 DEF Sweep, RunTyped, Resting
<1>6. CASE WriteTemporary
  BY <1>1, <1>2, <1>6 DEF WriteTemporary, RunTyped, Resting
<1>7. CASE Rename
  <2>1. /\ files' = [files EXCEPT ![Swept] = [files[Swept] EXCEPT !.lines = run.outputs[run.swept + 1]]]
        /\ directory' = directory
    BY <1>7 DEF Rename
  <2>2. FilesTyped'
    BY <2>1 DEF FilesTyped, Paths
  <2>3. RunTyped' /\ run'.outputs = run.outputs /\ run'.phase = "sweeping" /\ ~run'.dry
    BY <1>7 DEF Rename, RunTyped, Resting
  <2> QED
    BY <1>1, <2>2, <2>3
<1>8. CASE Finish
  BY <1>1, <1>2, <1>8 DEF Finish, RunTyped, Resting
<1>9. CASE WriteFault
  BY <1>1, <1>2, <1>9 DEF WriteFault, RunTyped, Resting
<1>10. CASE EditFile
  <2>1. PICK p \in Paths, file \in EditedFiles :
          files' = [files EXCEPT ![p] = file] /\ before' = [before EXCEPT ![p] = file]
    BY <1>10 DEF EditFile
  <2>2. FilesTyped'
    BY <1>10, <2>1, FilesAreFiles DEF EditFile, FilesTyped, Paths
  <2>3. files = before => files' = before'
    BY <2>1
  <2>4. RunTyped' /\ run' = run
    BY <1>10 DEF EditFile, RunTyped, Resting
  <2> QED
    BY <1>1, <2>2, <2>3, <2>4
<1>11. CASE UNCHANGED migrateVars
  BY <1>1, <1>2, <1>11 DEF migrateVars, RunTyped, Resting
<1> QED
  BY <1>3, <1>4, <1>5, <1>6, <1>7, <1>8, <1>9, <1>10, <1>11 DEF MigrateNext

LEMMA MigrateInvInitially == MigrateInit => MigrateInv
<1> SUFFICES ASSUME MigrateInit PROVE MigrateInv
  OBVIOUS
<1>1. FilesTyped
  BY FilesAreFiles DEF MigrateInit, FilesTyped
<1>2. RunTyped
  BY DEF MigrateInit, RunTyped, Resting
<1>3. OutputsAreCurrent
  <2>1. run.outputs \in Seq({})
    BY DEF MigrateInit, Resting
  <2> QED
    BY <2>1 DEF OutputsAreCurrent
<1> QED
  BY <1>1, <1>2, <1>3 DEF MigrateInit, MigrateInv, RefusedRunsChangeNothing

\* A run that refuses a document has changed none, and a dry run never does, whatever it
\* was given and whatever earlier runs left (migrateHandler,
\* go/cmd/strictspec/migrate_diff.go).
THEOREM RefusalsChangeNothing == MigrateSpec => []RefusedRunsChangeNothing
<1>1. MigrateInv => RefusedRunsChangeNothing
  BY DEF MigrateInv
<1> QED
  BY <1>1, MigrateInvInitially, MigrateInvKept, PTL DEF MigrateSpec

\* What the sweep puts on disk is accepted by the target schema, in each of its lines, and
\* of the target's version: the outputs it takes were all checked, and a chain that is
\* found ends at the target (sweep, selectChain, MigrateJSONL).
THEOREM SweepsAreCurrent == MigrateSpec => SweptDocumentsAreCurrent
<1> DEFINE Only_ == \A p \in Paths : files'[p] # files[p] /\ run'.swept > run.swept =>
                      \A i \in DOMAIN files'[p].lines :
                        /\ Accepted(files'[p].lines[i])
                        /\ VersionOf(files'[p].lines[i]) = TargetVersion
<1>1. MigrateInv /\ [MigrateNext]_migrateVars => [Only_]_migrateVars
  <2> SUFFICES ASSUME MigrateInv, MigrateNext, NEW p \in Paths, files'[p] # files[p], run'.swept > run.swept
               PROVE  IsCurrent(files'[p].lines)
    BY DEF IsCurrent
  <2>1. RunTyped /\ FilesTyped
    BY DEF MigrateInv
  <2>2. CASE Rename
    <3>1. PICK S : run.outputs \in Seq(S) /\ \A lines \in S : IsCurrent(lines)
      BY DEF MigrateInv, OutputsAreCurrent
    <3>2. run.outputs[run.swept + 1] \in S
      BY <2>1, <2>2, <3>1 DEF Rename, RunTyped, Computed
    <3>3. files' = [files EXCEPT ![Swept] = [files[Swept] EXCEPT !.lines = run.outputs[run.swept + 1]]]
      BY <2>2 DEF Rename
    <3>4. p = Swept /\ files'[p].lines = run.outputs[run.swept + 1]
      BY <2>1, <3>3 DEF FilesTyped
    <3> QED
      BY <3>1, <3>2, <3>4
  <2>3. CASE Begin
    BY <2>1, <2>3 DEF Begin, Resting, RunTyped
  <2>4. CASE Compute
    BY <2>4 DEF Compute
  <2>5. CASE Sweep \/ WriteTemporary \/ Finish \/ WriteFault
    BY <2>5 DEF Sweep, WriteTemporary, Finish, WriteFault
  <2>6. CASE EditFile
    BY <2>1, <2>6 DEF EditFile, RunTyped
  <2> QED
    BY <2>2, <2>3, <2>4, <2>5, <2>6 DEF MigrateNext
<1>2. MigrateSpec => []MigrateInv
  BY MigrateInvInitially, MigrateInvKept, PTL DEF MigrateSpec
<1> QED
  BY <1>1, <1>2, PTL DEF MigrateSpec, SweptDocumentsAreCurrent

-------------------------------------------------------------------------------
(***************************************************************************)
(* diff.  Its exit code is of the claims of what it was asked, and a claim *)
(* that is not violated says of every document it was tried on that it     *)
(* does not refute it.                                                     *)
(***************************************************************************)
DiffInv ==
  /\ asked.corpus \subseteq CorpusFiles /\ asked.migration \in DiffMigrations \cup {NoMigration}
  /\ verdict.claims \in {{}, Claims}
  /\ DOMAIN verdict = DOMAIN NoVerdict
  /\ Green => verdict.claims = Claims /\ ~Blocks(Claims, asked.adjudication.entries)

LEMMA DiffInvKept ==
  ASSUME DiffInv, [DiffNext]_diffVars
  PROVE  DiffInv'
<1>1. asked' = asked => Claims' = Claims
  BY DEF Claims, SameVersion, FlipScan, Completeness, Soundness, DownTaxonomy, Claim, HasMigration,
         WithMigration, CorpusAtOld, CorpusAtNew, Up, Down
<1>2. asked' = asked
  BY DEF DiffNext, Certify, Adjudicate, diffVars
<1> HIDE DEF Claims
<1>3. CASE Certify
  BY <1>1, <1>2, <1>3 DEF Certify, DiffInv, NoVerdict, Green
<1>4. CASE Adjudicate
  BY <1>1, <1>2, <1>4 DEF Adjudicate, DiffInv, NoVerdict, Green
<1>5. CASE UNCHANGED diffVars
  BY <1>1, <1>2, <1>5 DEF diffVars, DiffInv, Green
<1> QED
  BY <1>3, <1>4, <1>5 DEF DiffNext

LEMMA DiffInvInitially == DiffInit => DiffInv
BY DEF DiffInit, DiffInv, NoVerdict, Green

\* A violated claim blocks, and every other is supported or adjudicated.
LEMMA NothingBlocksWhatIsGreen ==
  ASSUME DiffInv, Green
  PROVE  /\ verdict.claims = Claims
         /\ \A c \in Claims : c.grade # "violated"
         /\ \A c \in Claims : c.supported \/ c.kind \in asked.adjudication.entries
<1>1. verdict.claims = Claims /\ ~Blocks(Claims, asked.adjudication.entries)
  BY DEF DiffInv
<1>2. \A c \in Claims : c.grade \in {"violated", "corpus-supported"}
  <2>1. \A c \in {FlipScan, Completeness, Soundness, DownTaxonomy} : c.grade \in {"violated", "corpus-supported"}
    <3>1. FlipScan.grade \in {"violated", "corpus-supported"}
      BY DEF FlipScan, Claim
    <3>2. Completeness.grade \in {"violated", "corpus-supported"}
      BY DEF Completeness, Claim
    <3>3. Soundness.grade \in {"violated", "corpus-supported"}
      BY DEF Soundness, Claim
    <3>4. DownTaxonomy.grade \in {"violated", "corpus-supported"}
      BY DEF DownTaxonomy, Claim
    <3> QED
      BY <3>1, <3>2, <3>3, <3>4
  <2> QED
    BY <2>1 DEF Claims
<1> QED
  BY <1>1, <1>2 DEF Blocks, Unsupported, Discharged

\* A chain of one migration makes of a document what that migration makes of it.
LEMMA ThroughOneIsApplyUp ==
  ASSUME NEW m, NEW d
  PROVE  Through(<<m>>, d) = ApplyUp(m, d)
<1> DEFINE chain == <<m>>
           made == ThroughFold!Iter(chain, Migrated(d), 1 .. 1)
<1>1. Len(chain) = 1 /\ DOMAIN chain = 1 .. 1 /\ chain[1] = m
  OBVIOUS
<1> HIDE DEF chain
<1>2. Through(chain, d) = made[1 .. 1]
  BY <1>1 DEF Through, FoldLeft, MapThenFoldSet, ThroughFold!Iter, ThroughFold!Equation, ThroughStep
<1> HIDE DEF made
<1>3. made[1 .. 1] = ThroughStep(chain, made[1 .. 0], 1) /\ made[1 .. 0] = Migrated(d)
  <2>1. ThroughFold!GoesInOrder(chain, Migrated(d), 1)
    BY ThroughFold!IntervalsUnroll DEF Max
  <2>2. 1 \in 1 .. 1 /\ 1 - 1 = 0
    OBVIOUS
  <2> QED
    BY <2>1, <2>2 DEF ThroughFold!GoesInOrder, made
<1> QED
  BY <1>1, <1>2, <1>3 DEF ThroughStep, Migrated, chain

\* In a directory of one migration the chain from its version to where it leads is it.
LEMMA OneMigrationIsItsChain ==
  ASSUME NEW m, m.from # m.to
  PROVE  SelectChain(<<m>>, m.from, m.to) = [version |-> m.to, chain |-> <<m>>]
<1> DEFINE p == [migrations |-> <<m>>, to |-> m.to, steps |-> [i \in 1 .. 2 |-> i]]
           base == [version |-> m.from, chain |-> <<>>]
           reached == [version |-> m.to, chain |-> <<m>>]
           found == FollowFold!Iter(p, base, 1 .. 2)
<1>1. SelectChain(<<m>>, m.from, m.to) = found[1 .. 2]
  <2>1. Len(<<m>>) + 1 = 2 /\ DOMAIN [i \in 1 .. 2 |-> i] = 1 .. 2
    OBVIOUS
  <2> QED
    BY <2>1 DEF SelectChain, FoldLeft, MapThenFoldSet, FollowFold!Iter, FollowFold!Equation, FollowStep
<1>2. Follow(<<m>>, m.to, base, 1) = reached
  <2> DEFINE leaving == {j \in 1 .. Len(<<m>>) : <<m>>[j].from = base.version}
  <2>1. leaving = {1} /\ leaving \in SUBSET (1 .. 1)
    OBVIOUS
  <2>2. SelectInSeq(<<m>>, LAMBDA k : k.from = base.version) = Min(leaving)
    BY <2>1 DEF SelectInSeq
  <2> HIDE DEF leaving
  <2>3. Min(leaving) = 1
    BY <2>1, ExtremesAreIn
  <2>4. <<m>>[1] = m /\ Append(<<>>, m) = <<m>>
    OBVIOUS
  <2> QED
    BY <2>2, <2>3, <2>4 DEF Follow
<1>3. Follow(<<m>>, m.to, reached, 2) = reached
  BY DEF Follow
<1>4. /\ found[1 .. 0] = base
      /\ found[1 .. 1] = FollowStep(p, found[1 .. 0], 1)
      /\ found[1 .. 2] = FollowStep(p, found[1 .. 1], 2)
  <2>1. FollowFold!GoesInOrder(p, base, 2)
    BY FollowFold!IntervalsUnroll DEF Max
  <2>2. 1 \in 1 .. 2 /\ 1 - 1 = 0 /\ 2 \in 1 .. 2 /\ 2 - 1 = 1
    OBVIOUS
  <2> HIDE DEF p, base
  <2> QED
    BY <2>1, <2>2 DEF FollowFold!GoesInOrder, found
<1> HIDE DEF found, base, reached
<1>5. p.steps[1] = 1 /\ p.steps[2] = 2 /\ p.migrations = <<m>> /\ p.to = m.to
  OBVIOUS
<1> HIDE DEF p
<1>6. found[1 .. 2] = reached
  BY <1>2, <1>3, <1>4, <1>5 DEF FollowStep
<1> QED
  BY <1>1, <1>6 DEF reached

\* What an exit code of 0 says: at one version no document that was valid is rejected by
\* the new schema, and no claim went through without a witness or an adjudication of it
\* (Adjudicate, go/internal/diffeng/adjudicate.go).
THEOREM GreenDiffsAreEarned == DiffSpec => []GreenIsEarned
<1>1. DiffInv => GreenIsEarned
  <2> SUFFICES ASSUME DiffInv, Green PROVE GreenIsEarned
    BY DEF GreenIsEarned
  <2>1. SameVersion => CorpusAtOld \subseteq CorpusAtNew
    <3> SUFFICES ASSUME SameVersion PROVE CorpusAtOld \subseteq CorpusAtNew
      OBVIOUS
    <3>1. FlipScan.grade # "violated"
      BY NothingBlocksWhatIsGreen DEF Claims
    <3>2. \A f \in CorpusAtOld : ValidNew(f)
      BY <3>1 DEF FlipScan, Claim
    <3> QED
      BY <3>2 DEF CorpusAtOld, CorpusAtNew
  <2> QED
    BY <2>1, NothingBlocksWhatIsGreen DEF GreenIsEarned
<1> QED
  BY <1>1, DiffInvInitially, DiffInvKept, PTL DEF DiffSpec

\* What diff lets through with a migration, a run of migrate carries out, its refusals of
\* the current version and of a version no chain leaves included: of a document at the
\* migration's version the two commands judge alike (checkCompleteness and checkSoundness
\* of go/internal/diffeng; migrateHandler and selectChain of go/cmd/strictspec).
THEOREM GreenDiffsMigrate == DiffSpec => []GreenCorporaMigrate
<1>1. DiffInv => GreenCorporaMigrate
  <2> SUFFICES ASSUME DiffInv, Green, HasMigration, ~SameVersion
               PROVE  /\ \A f \in CorpusAtOld : IsItsSource(f) => Carried(f).ok
                      /\ DeclaredTaxonomy(asked.migration) = "total" => \A f \in CorpusAtNew : Down(f).ok
    BY DEF GreenCorporaMigrate
  <2>1. \A c \in {Completeness, Soundness, DownTaxonomy} : c.grade # "violated"
    BY NothingBlocksWhatIsGreen DEF Claims
  <2>2. \A f \in CorpusAtOld : Up(f).ok
    BY <2>1 DEF Completeness, Claim, WithMigration
  <2>3. \A f \in CorpusAtOld : Accepted(Up(f).document)
    BY <2>1, <2>2 DEF Soundness, Claim, WithMigration
  <2>4. ASSUME NEW f \in CorpusAtOld, IsItsSource(f)
        PROVE  Carried(f).ok
    <3> DEFINE m == asked.migration
               lines == <<f.document>>
               chain == SelectChain(<<m>>, m.from, TargetVersion).chain
    <3>1. f \in CorpusFiles /\ m \in DiffMigrations /\ AcceptedBefore(f.document)
      <4>1. NoMigration.set = ""
        BY DEF NoMigration
      <4>2. m \in DiffMigrations
        BY <4>1 DEF DiffInv, HasMigration
      <4> HIDE DEF m, lines, chain
      <4>3. f \in asked.corpus /\ AcceptedBefore(f.document)
        BY DEF CorpusAtOld, ValidOld
      <4> QED
        BY <4>2, <4>3 DEF DiffInv
    <3>2. m.to = TargetVersion
      <4>1. VersionOf(Up(f).document) = m.to
        BY <2>2, VersionIsWritten DEF Up
      <4>2. VersionOf(Up(f).document) = TargetVersion
        BY <2>2, <2>3, <3>1, ValidityIsGated DEF Up
      <4> QED
        BY <4>1, <4>2
    <3>3. Versioned(f.document) /\ VersionOf(f.document) = m.from /\ m.from # TargetVersion
      BY <2>4, <3>1, ValidityIsGated DEF IsItsSource
    <3>4. SelectChain(<<m>>, m.from, TargetVersion) = [version |-> TargetVersion, chain |-> <<m>>]
      BY <3>2, <3>3, OneMigrationIsItsChain
    <3>5. lines[1] = f.document /\ DOMAIN lines = {1}
      OBVIOUS
    <3>6. Carried(f) = MigrateLines(<<m>>, lines)
      <4> HIDE DEF m
      <4> QED
        BY <3>3, <3>4, <3>5 DEF Carried, MigrateFile, Bridged, m
    <3>7. MigrateDocument(<<m>>, lines[1]).ok
      <4>1. Through(<<m>>, f.document) = Up(f)
        BY ThroughOneIsApplyUp DEF Up
      <4> QED
        BY <2>2, <2>3, <3>5, <4>1 DEF MigrateDocument
    <3> HIDE DEF m
    <3> QED
      BY <3>5, <3>6, <3>7 DEF MigrateLines
  <2>5. ASSUME DeclaredTaxonomy(asked.migration) = "total", NEW f \in CorpusAtNew
        PROVE  Down(f).ok
    BY <2>1, <2>5 DEF DownTaxonomy, Claim, WithMigration
  <2> QED
    BY <2>4, <2>5
<1> QED
  BY <1>1, DiffInvInitially, DiffInvKept, PTL DEF DiffSpec
-------------------------------------------------------------------------------
(***************************************************************************)
(* check.  What passed would pass still: only a hand changes the sources,  *)
(* and only a write of gen what the outputs say, and both void the         *)
(* verdict.                                                                *)
(***************************************************************************)
TextsOf(there) == [o \in DOMAIN there |-> there[o].text]

SourcesRegisterBeside == \A f \in DOMAIN sources : f \in Beside \/ sources[f].scalars = <<>>

CheckedInv == (checked = "passed" => CheckPasses) /\ SourcesRegisterBeside

LEMMA ChecksLast ==
  ASSUME CheckPasses, UNCHANGED <<manifestFile, sources>>, TextsOf(outputs') = TextsOf(outputs)
  PROVE  CheckPasses'
<1>1. \A path, target : IsFresh(path, target) => IsFresh(path, target)'
  BY DEF IsFresh, TextsOf
<1> QED
  BY <1>1 DEF CheckPasses, ManifestLoads, SchemaChecks, SchemaReads, ScalarsRefused

LEMMA LockingKeepsTexts ==
  ASSUME OutputsTyped, NEW o, NEW w,
         outputs' = outputs \/ outputs' = [outputs EXCEPT ![o].writable = w]
  PROVE  TextsOf(outputs') = TextsOf(outputs)
BY DEF OutputsTyped, TextsOf

LEMMA CheckedInvKept ==
  ASSUME ScalarsAreBeside, GenInv, CheckedInv, [GeneratedNext]_generatedVars
  PROVE  CheckedInv'
<1> USE DEF CheckedInv
<1>1. ASSUME UNCHANGED <<manifestFile, sources, checked>>, TextsOf(outputs') = TextsOf(outputs)
      PROVE  CheckedInv'
  BY <1>1, ChecksLast DEF SourcesRegisterBeside
<1>2. ASSUME UNCHANGED <<manifestFile, sources>>, checked' = "void"
      PROVE  CheckedInv'
  BY <1>2 DEF SourcesRegisterBeside
<1>3. ASSUME UNCHANGED <<manifestFile, sources, checked, outputs>>
      PROVE  CheckedInv'
  BY <1>1, <1>3
<1>4. CASE GenStart \/ GenLoad \/ GenEmbed \/ GenAttributes \/ UNCHANGED generatedVars
  BY <1>3, <1>4 DEF GenStart, GenLoad, GenEmbed, GenAttributes, Undisturbed, generatedVars
<1>5. CASE GenOpen \/ GenSeal
  <2>1. /\ UNCHANGED <<manifestFile, sources, checked>>
        /\ \E w : outputs' = outputs \/ outputs' = [outputs EXCEPT ![Output].writable = w]
    BY <1>5 DEF GenOpen, GenSeal, Unlocked, Undisturbed
  <2> QED
    BY <1>1, <2>1, LockingKeepsTexts DEF GenInv
<1>6. CASE GenWrite
  BY <1>2, <1>3, <1>6 DEF GenWrite, Undisturbed
<1>7. CASE GenFails
  BY <1>2, <1>3, <1>7 DEF GenFails
<1>8. CASE InitManifest
  <2>1. ~CheckPasses
    BY <1>8 DEF InitManifest, CheckPasses, ManifestLoads
  <2> QED
    BY <1>8, <2>1 DEF InitManifest, SourcesRegisterBeside
<1>9. CASE Check
  <2>1. checked' = "passed" => CheckPasses
    BY <1>9 DEF Check
  <2>2. UNCHANGED <<manifestFile, sources, outputs>>
    BY <1>9 DEF Check
  <2> QED
    BY <2>1, <2>2, ChecksLast DEF SourcesRegisterBeside
<1>10. CASE Edit
  <2>1. checked' = "void"
    BY <1>10 DEF Edit
  <2>2. SourcesRegisterBeside'
    <3>1. CASE UNCHANGED sources
      BY <3>1 DEF SourcesRegisterBeside
    <3>2. CASE \E e \in SourceEdits : sources' = Saved(sources, e.file, e.to)
      BY <3>2 DEF ScalarsAreBeside, SourcesRegisterBeside, Saved
    <3>3. CASE \E f \in DOMAIN sources : sources' = Restrict(sources, DOMAIN sources \ {f})
      BY <3>3 DEF SourcesRegisterBeside, Restrict
    <3> QED
      BY <1>10, <3>1, <3>2, <3>3 DEF Edit
  <2> QED
    BY <2>1, <2>2
<1> QED
  BY <1>4, <1>5, <1>6, <1>7, <1>8, <1>9, <1>10 DEF GeneratedNext

\* What is embedded of a schema gives its types and the scalars of its directory.
LEMMA EmbeddedIsEnough ==
  ASSUME SourcesRegisterBeside, NEW path \in DOMAIN sources
  PROVE  LET embedded == FilesEmbedded(sources, path)
         IN /\ TypesOf(embedded, path) = TypesOf(sources, path)
            /\ ScalarsEmbedded(embedded) = ScalarsOnDisk(sources)
<1> DEFINE embedded == FilesEmbedded(sources, path)
           registering == {f \in Beside \cap DOMAIN sources : sources[f].scalars # <<>>}
<1>1. /\ DOMAIN embedded = ({path} \cup sources[path].imports \cup registering) \cap DOMAIN sources
      /\ \A f \in DOMAIN embedded : embedded[f] = sources[f]
  BY DEF FilesEmbedded, Present, Restrict
<1> HIDE DEF embedded
<1>2. TypesOf(embedded, path) = TypesOf(sources, path)
  BY <1>1 DEF TypesOf, Present, Restrict
<1>3. ScalarsEmbedded(embedded) = ScalarsOnDisk(sources)
  <2> DEFINE rule(i) == sources[FilesInOrder[i]].scalars
             there == PlacesOf(embedded, DOMAIN embedded)
             here == PlacesOf(sources, Beside)
  <2>1. ASSUME NEW i \in there
        PROVE  embedded[FilesInOrder[i]].scalars = rule(i)
    BY <1>1 DEF PlacesOf
  <2>2. ASSUME NEW i \in there, rule(i) # <<>>
        PROVE  i \in here
    BY <1>1, <2>2 DEF PlacesOf, SourcesRegisterBeside
  <2>3. ASSUME NEW i \in here, rule(i) # <<>>
        PROVE  i \in there
    BY <1>1, <2>3 DEF PlacesOf
  <2>4. ASSUME NEW i, NEW s \in DOMAIN rule(i)
        PROVE  rule(i) # <<>>
    BY <2>4
  <2> DEFINE held(i) == embedded[FilesInOrder[i]].scalars
             registers(s) == {i \in here : s \in DOMAIN rule(i)}
  <2>5. here \in SUBSET (1 .. Len(FilesInOrder)) /\ Len(FilesInOrder) \in Nat
    BY FilesAreListed DEF PlacesOf
  <2>6. /\ ScalarsOnDisk(sources) =
             [s \in UNION {DOMAIN rule(i) : i \in here} |-> rule(Max({i \in here : s \in DOMAIN rule(i)}))[s]]
        /\ ScalarsEmbedded(embedded) =
             [s \in UNION {DOMAIN held(i) : i \in there} |-> held(Max({i \in there : s \in DOMAIN held(i)}))[s]]
    BY DEF ScalarsOnDisk, ScalarsEmbedded, MergeScalars
  <2>7. \A i \in there : held(i) = rule(i)
    BY <2>1
  <2> HIDE DEF there, here, rule, held
  <2>8. \A s : {i \in there : s \in DOMAIN held(i)} = registers(s)
    BY <2>2, <2>3, <2>4, <2>7
  <2>9. UNION {DOMAIN held(i) : i \in there} = UNION {DOMAIN rule(i) : i \in here}
    BY <2>2, <2>3, <2>4, <2>7
  <2>10. ASSUME NEW s \in UNION {DOMAIN rule(i) : i \in here}
         PROVE  held(Max(registers(s))) = rule(Max(registers(s)))
    <3>1. registers(s) \in SUBSET (1 .. Len(FilesInOrder)) /\ registers(s) # {}
      BY <2>5
    <3> HIDE DEF registers
    <3>2. Max(registers(s)) \in registers(s)
      BY <2>5, <3>1, ExtremesAreIn
    <3> QED
      BY <2>7, <2>8, <3>2
  <2> QED
    BY <2>6, <2>8, <2>9, <2>10
<1> QED
  BY <1>2, <1>3 DEF embedded

\* A generated validator of which a check passed, and nothing was edited since, accepts
\* what the interpreter accepts, whatever runs of gen failed and whatever was edited
\* under them (checkHandler, LoadForEmit), where no file outside the schema's directory
\* registers a scalar: the interpreter would not find it, the validator would.
THEOREM CheckedAgree ==
  ASSUME ScalarsAreBeside
  PROVE  GeneratedSpec => []CheckedValidatorsAgree
<1>1. GeneratedInit => CheckedInv
  BY DEF GeneratedInit, CheckedInv, SourcesRegisterBeside, ScalarsAreBeside
<1>2. ASSUME CheckedInv PROVE CheckedValidatorsAgree
  <2> SUFFICES ASSUME checked = "passed",
                      NEW i \in DOMAIN manifestFile.schemas,
                      NEW j \in DOMAIN manifestFile.schemas[i].targets
               PROVE  LET path == manifestFile.schemas[i].path
                          text == outputs[manifestFile.schemas[i].targets[j].output].text
                      IN CompileEmbedded(text) = Interpreted(path) /\ text.types = TypesOf(text.embedded, path)
    BY DEF CheckedValidatorsAgree
  <2> DEFINE path == manifestFile.schemas[i].path
             target == manifestFile.schemas[i].targets[j]
             text == outputs[target.output].text
  <2>1. /\ path \in DOMAIN sources
        /\ text = Text(path, target, TypesOf(sources, path), FilesEmbedded(sources, path))
    BY <1>2 DEF CheckedInv, CheckPasses, SchemaChecks, SchemaReads, IsFresh
  <2> HIDE DEF path, target, text
  <2>2. /\ text.main = path /\ text.types = TypesOf(sources, path)
        /\ text.embedded = FilesEmbedded(sources, path)
    BY <2>1 DEF Text
  <2>3. /\ TypesOf(text.embedded, path) = TypesOf(sources, path)
        /\ ScalarsEmbedded(text.embedded) = ScalarsOnDisk(sources)
    BY <1>2, <2>1, <2>2, EmbeddedIsEnough DEF CheckedInv
  <2>4. CompileEmbedded(text) = Interpreted(path) /\ text.types = TypesOf(text.embedded, path)
    BY <2>2, <2>3 DEF CompileEmbedded, Interpreted
  <2> QED
    BY <2>4 DEF path, target, text
<1> QED
  BY <1>1, <1>2, GenInvAlways, CheckedInvKept, PTL DEF GeneratedSpec

-------------------------------------------------------------------------------
(***************************************************************************)
(* The directory holds what hands write, and the loaded set came of it.    *)
(***************************************************************************)
TreeOK(tree) == DOMAIN tree \subseteq Resources /\ \A r \in DOMAIN tree : tree[r] \in Written[r]

SlotsMatch(slots) ==
  \A s \in slots : ~IsFieldSlot(s) =>
    \A it \in s.gives : KeyFields(s.col, it) \subseteq DOMAIN it /\ MatchesAll(it, s.match)

LoadedOK ==
  loaded = NotLoaded \/
  \E tree : /\ TreeOK(tree)
            /\ Accepts(tree, loaded.importing)
            /\ loaded.set = [resources |-> tree, slots |-> Kept(Causes(tree))]

LoadInv == TreeOK(declarations) /\ LoadedOK

LEMMA DirectoriesStayTyped ==
  ASSUME LoadInv, [LoadNext]_loadVars
  PROVE  LoadInv'
<1>1. CASE WriteFile
  <2> PICK r \in Resources : \E file \in Written[r] : Hand(With(declarations, r, file))
    BY <1>1 DEF WriteFile
  <2> PICK file \in Written[r] : Hand(With(declarations, r, file))
    OBVIOUS
  <2> QED
    BY DEF Hand, LoadInv, LoadedOK, TreeOK, With
<1>2. CASE RemoveFile
  <2> PICK r \in DOMAIN declarations : Hand(Restrict(declarations, DOMAIN declarations \ {r}))
    BY <1>2 DEF RemoveFile
  <2> QED
    BY DEF Hand, LoadInv, LoadedOK, TreeOK, Restrict
<1>3. CASE Load
  BY <1>3 DEF Load, LoadInv, LoadedOK, TreeOK
<1>4. CASE UNCHANGED loadVars
  BY <1>4 DEF loadVars, LoadInv, LoadedOK, TreeOK
<1> QED
  BY <1>1, <1>2, <1>3, <1>4 DEF LoadNext

LEMMA DirectoriesAreTyped == LoadSpec => []LoadInv
<1>1. LoadInit => LoadInv
  BY DEF LoadInit, LoadInv, LoadedOK, TreeOK
<1> QED
  BY <1>1, DirectoriesStayTyped, PTL DEF LoadSpec

LEMMA CausesMatch ==
  ASSUME DerivationsMatch, NEW tree, TreeOK(tree)
  PROVE  SlotsMatch(Causes(tree))
<1> SUFFICES ASSUME NEW c \in Causes(tree), ~IsFieldSlot(c), NEW it \in c.gives
             PROVE  KeyFields(c.col, it) \subseteq DOMAIN it /\ MatchesAll(it, c.match)
  BY DEF SlotsMatch
<1>1. PICK r \in DOMAIN tree : \E s \in SlotsGiven(r, tree[r]) : c = Cause(r, s)
  BY DEF Causes
<1>2. PICK s \in SlotsGiven(r, tree[r]) : c = Cause(r, s)
  BY <1>1
<1>3. c.field = s.field /\ c.col = s.col /\ c.match = s.match /\ c.gives = s.gives
  BY <1>2 DEF Cause
<1>4. r \in Resources /\ tree[r] \in Written[r]
  BY DEF TreeOK
<1> QED
  BY <1>3, <1>4 DEF DerivationsMatch, IsFieldSlot

-------------------------------------------------------------------------------
(***************************************************************************)
(* What is accepted is checked: each conjunct of LoadChecked is one that   *)
(* Set.check looked at, over the slots kept.                               *)
(***************************************************************************)
LEMMA AcceptedSetsAreChecked ==
  ASSUME DerivationsMatch, NEW tree, TreeOK(tree), NEW importing, Accepts(tree, importing)
  PROVE  LET kept == Kept(Causes(tree))
         IN /\ LoadChecked([resources |-> tree, slots |-> {s \in kept : s.target \in DOMAIN tree}])
            /\ \A s \in kept : s.target \in DOMAIN tree \cup {importing}
<1> DEFINE kept == Kept(Causes(tree))
           slots == {s \in kept : s.target \in DOMAIN tree}
           set == [resources |-> tree, slots |-> slots]
<1>1. /\ \A s \in kept : SlotAccepted(tree, importing, s)
      /\ NoneContend(kept)
      /\ \A s \in kept : DeclaredIsNotDerived(tree, s)
      /\ \A r \in DOMAIN tree : UnmanagedIsNoOnes(tree, kept, r)
      /\ \A r \in DOMAIN tree : ReferencesResolve(tree, r)
  BY DEF Accepts, Kept
<1>2. ASSUME NEW r \in DOMAIN tree, NEW x \in ReferencesIn(DeclaredValues(set, r))
      PROVE  ExposedBy[x] \in DOMAIN tree
  <2>1. DeclaredValues(set, r) = DeclaredValues([resources |-> tree], r)
    BY DEF DeclaredValues
  <2> QED
    BY <1>1, <1>2, <2>1 DEF ReferencesResolve
<1>3. ASSUME NEW s \in slots
      PROVE  /\ {s.source, s.target} \subseteq DOMAIN tree
             /\ IsFieldSlot(s) => s.field \notin DOMAIN tree[s.target].fields
             /\ ~IsFieldSlot(s) =>
                  /\ s.col \in CollectionsOf(s.target)
                  /\ DOMAIN s.match \subseteq Key[s.col]
                  /\ \A it \in s.gives : MatchesAll(it, s.match)
                  /\ \A it \in tree[s.target].children[s.col] : ~MatchesAll(it, s.match)
                  /\ \A u \in tree[s.target].unmanaged : u.col = s.col =>
                       \E f \in DOMAIN u.match \cap DOMAIN s.match : u.match[f] \cap s.match[f] = {}
             /\ \A t \in slots \ {s} : s.target = t.target => ~Overlap(s, t)
  <2>1. s \in kept /\ s \in Causes(tree) /\ s.target \in DOMAIN tree
    BY DEF Kept
  <2>2. s.source \in DOMAIN tree
    BY <2>1 DEF Causes, Cause
  <2>3. IsFieldSlot(s) => s.field \notin DOMAIN tree[s.target].fields
    BY <1>1, <2>1 DEF DeclaredIsNotDerived
  <2>4. ~IsFieldSlot(s) => s.col \in CollectionsOf(s.target) /\ DOMAIN s.match \subseteq Key[s.col]
    BY <1>1, <2>1 DEF SlotAccepted, SlotFormed
  <2>5. ~IsFieldSlot(s) => \A it \in s.gives : MatchesAll(it, s.match)
    BY <2>1, CausesMatch DEF SlotsMatch
  <2>6. ~IsFieldSlot(s) => \A it \in tree[s.target].children[s.col] : ~MatchesAll(it, s.match)
    BY <1>1, <2>1 DEF DeclaredIsNotDerived
  <2>7. \A u \in tree[s.target].unmanaged : u.col = s.col =>
          \E f \in DOMAIN u.match \cap DOMAIN s.match : u.match[f] \cap s.match[f] = {}
    BY <1>1, <2>1 DEF UnmanagedIsNoOnes, Compatible
  <2>8. \A t \in slots \ {s} : s.target = t.target => ~Overlap(s, t)
    BY <1>1, <2>1 DEF NoneContend, Contend
  <2> QED
    BY <2>1, <2>2, <2>3, <2>4, <2>5, <2>6, <2>7, <2>8
<1>4. \A r \in DOMAIN tree : \A u \in tree[r].unmanaged :
        \A it \in tree[r].children[u.col] : ~MatchesAll(it, u.match)
  BY <1>1 DEF UnmanagedIsNoOnes
<1>5. LoadChecked(set)
  <2> HIDE DEF slots
  <2>1. Declared(set) = DOMAIN tree /\ set.slots = slots /\ set.resources = tree
    BY DEF Declared
  <2> HIDE DEF set
  <2>2. \A r \in Declared(set) : \A x \in ReferencesIn(DeclaredValues(set, r)) :
          ExposedBy[x] \in Declared(set)
    BY <1>2, <2>1
  <2> QED
    BY <1>3, <1>4, <2>1, <2>2 DEF LoadChecked
<1>6. \A s \in kept : s.target \in DOMAIN tree \cup {importing}
  BY <1>1 DEF SlotAccepted
<1> QED
  BY <1>5, <1>6

\* A set that Load accepts is checked, whatever the resource types are and whatever was
\* written to the directory before, and import loosens nothing but what it is to.
THEOREM LoadGivesCheckedSets ==
  ASSUME DerivationsMatch
  PROVE  LoadSpec => []LoadedSetsAreChecked
<1>1. ASSUME LoadInv PROVE LoadedSetsAreChecked
  <2>1. CASE loaded = NotLoaded
    BY <2>1 DEF NotLoaded, LoadedSetsAreChecked, LoadChecked, Declared
  <2>2. CASE loaded # NotLoaded
    <3> PICK tree : /\ TreeOK(tree) /\ Accepts(tree, loaded.importing)
                    /\ loaded.set = [resources |-> tree, slots |-> Kept(Causes(tree))]
      BY <1>1, <2>2 DEF LoadInv, LoadedOK
    <3> QED
      BY AcceptedSetsAreChecked DEF LoadedSetsAreChecked, Declared
  <2> QED
    BY <2>1, <2>2
<1> QED
  BY <1>1, DirectoriesAreTyped, PTL

-------------------------------------------------------------------------------
(***************************************************************************)
(* Two children of one key agree on what a slot matches: its fields are    *)
(* key fields, and a child that has one of them is keyed by all of them.   *)
(***************************************************************************)
LEMMA TwinsMatchAlike ==
  ASSUME NEW col, NEW it, NEW jt, NEW match,
         ItemKey(col, it) = ItemKey(col, jt), KeyFields(col, jt) \subseteq DOMAIN jt,
         DOMAIN match \subseteq Key[col], MatchesAll(it, match)
  PROVE  MatchesAll(jt, match)
<1> SUFFICES ASSUME NEW f \in DOMAIN match
             PROVE  f \in DOMAIN jt /\ jt[f] = it[f]
  BY DEF MatchesAll
<1>1. f \in Key[col] /\ f \in DOMAIN it
  BY DEF MatchesAll
<1>2. KeyFields(col, it) = Key[col]
  BY <1>1 DEF KeyFields
<1>3. KeyFields(col, jt) = KeyFields(col, it)
  <2>1. f \in DOMAIN ItemKey(col, it)
    BY <1>1, <1>2 DEF ItemKey, Restrict
  <2>2. f \in DOMAIN ItemKey(col, jt)
    BY <2>1
  <2>3. f \in DOMAIN jt
    BY <2>2 DEF ItemKey, Restrict
  <2> QED
    BY <1>1, <1>2, <2>3 DEF KeyFields
<1>4. jt[f] = ItemKey(col, jt)[f] /\ it[f] = ItemKey(col, it)[f]
  BY <1>1, <1>2, <1>3 DEF ItemKey, Restrict
<1> QED
  BY <1>1, <1>2, <1>3, <1>4

LEMMA MatchedByBothIsCompatible ==
  ASSUME NEW it, NEW m, NEW n, MatchesAll(it, m), MatchesAll(it, n)
  PROVE  Compatible(m, n)
BY DEF MatchesAll, Compatible

LEMMA AcceptedSetsHaveOneSource ==
  ASSUME DerivationsMatch, NEW tree, TreeOK(tree), NEW importing, Accepts(tree, importing),
         loaded.set = [resources |-> tree, slots |-> Kept(Causes(tree))]
  PROVE  EverythingHasOneSource
<1> DEFINE kept == Kept(Causes(tree))
<1>1. /\ \A s \in kept : s \in Causes(tree) /\ SlotFormed(s)
      /\ NoneContend(kept)
      /\ \A s \in kept : DeclaredIsNotDerived(tree, s)
      /\ \A r \in DOMAIN tree : UnmanagedIsNoOnes(tree, kept, r) /\ ChildrenFormed(r, tree[r])
  BY DEF Accepts, Kept, SlotAccepted
<1>2. SlotsMatch(kept)
  BY <1>1, CausesMatch DEF SlotsMatch
<1> HIDE DEF kept
<1>3. ASSUME NEW s \in kept, IsFieldSlot(s), NEW t \in kept \ {s}
      PROVE  t.target # s.target \/ t.field # s.field
  BY <1>1, <1>3 DEF NoneContend, Contend, Overlap
<1>4. ASSUME NEW s \in kept, ~IsFieldSlot(s), NEW it \in s.gives
      PROVE  /\ s.col # "" /\ s.col \in CollectionsOf(s.target) /\ DOMAIN s.match \subseteq Key[s.col]
             /\ KeyFields(s.col, it) \subseteq DOMAIN it /\ MatchesAll(it, s.match)
  <2>1. s.col # "" /\ s.col \in CollectionsOf(s.target) /\ DOMAIN s.match \subseteq Key[s.col]
    BY <1>1, <1>4 DEF SlotFormed, IsFieldSlot
  <2>2. KeyFields(s.col, it) \subseteq DOMAIN it /\ MatchesAll(it, s.match)
    BY <1>2, <1>4 DEF SlotsMatch
  <2> QED
    BY <2>1, <2>2
<1>5. ASSUME NEW s \in kept, ~IsFieldSlot(s), NEW it \in s.gives, NEW t \in kept \ {s},
             t.target = s.target, t.col = s.col, NEW jt \in t.gives,
             ItemKey(s.col, it) = ItemKey(s.col, jt)
      PROVE  FALSE
  <2>1. s.col # ""
    BY <1>4, <1>5
  <2>2. ~IsFieldSlot(t)
    BY <1>1, <1>5, <2>1 DEF SlotFormed, IsFieldSlot
  <2>3. KeyFields(s.col, jt) \subseteq DOMAIN jt /\ MatchesAll(jt, t.match)
    BY <1>2, <1>5, <2>2 DEF SlotsMatch
  <2>4. MatchesAll(jt, s.match)
    BY <1>4, <1>5, <2>3, TwinsMatchAlike
  <2>5. Compatible(s.match, t.match)
    BY <2>3, <2>4, MatchedByBothIsCompatible
  <2>6. Contend(s, t)
    BY <1>5, <2>2, <2>5 DEF Contend, Overlap, Compatible
  <2> QED
    BY <1>1, <2>6 DEF NoneContend
<1>6. ASSUME NEW s \in kept, ~IsFieldSlot(s), NEW it \in s.gives, s.target \in DOMAIN tree,
             NEW jt \in tree[s.target].children[s.col]
      PROVE  ItemKey(s.col, it) # ItemKey(s.col, jt)
  <2>1. KeyFields(s.col, jt) \subseteq DOMAIN jt
    BY <1>1, <1>4, <1>6 DEF ChildrenFormed
  <2>2. ~MatchesAll(jt, s.match)
    BY <1>1, <1>6 DEF DeclaredIsNotDerived
  <2> QED
    BY <1>4, <1>6, <2>1, <2>2, TwinsMatchAlike
<1>7. ASSUME NEW s \in kept, ~IsFieldSlot(s), NEW it \in s.gives, s.target \in DOMAIN tree,
             NEW u \in tree[s.target].unmanaged, u.col = s.col
      PROVE  ~MatchesAll(it, u.match)
  BY <1>1, <1>4, <1>7, MatchedByBothIsCompatible DEF UnmanagedIsNoOnes
<1>8. loaded.set.slots = kept /\ loaded.set.resources = tree /\ Declared(loaded.set) = DOMAIN tree
  BY DEF kept, Declared
<1> QED
  BY <1>3, <1>5, <1>6, <1>7, <1>8 DEF EverythingHasOneSource

\* In every loaded set, of import or not, what is derived has no other source: the
\* matching of key fields only is enough for it.
THEOREM LoadGivesOneSource ==
  ASSUME DerivationsMatch
  PROVE  LoadSpec => []EverythingHasOneSource
<1>1. ASSUME LoadInv PROVE EverythingHasOneSource
  <2>1. CASE loaded = NotLoaded
    BY <2>1 DEF NotLoaded, EverythingHasOneSource
  <2>2. CASE loaded # NotLoaded
    BY <1>1, <2>2, AcceptedSetsHaveOneSource DEF LoadInv, LoadedOK
  <2> QED
    BY <2>1, <2>2
<1> QED
  BY <1>1, DirectoriesAreTyped, PTL

-------------------------------------------------------------------------------
(***************************************************************************)
(* Slots that contend.  Both are not kept, or Set.check would refuse them. *)
(* If neither is, each gives way; they do not give way to each other, so   *)
(* one of them does to a third.                                            *)
(***************************************************************************)
AcceptedAsItIs == loaded.ok => Accepts(declarations, loaded.importing)

LEMMA LoadedIsWhatThereIs == LoadSpec => []AcceptedAsItIs
<1>1. LoadInit => AcceptedAsItIs
  BY DEF LoadInit, NotLoaded, AcceptedAsItIs
<1>2. ASSUME AcceptedAsItIs, [LoadNext]_loadVars
      PROVE  AcceptedAsItIs'
  <2>1. ASSUME NEW tree, Hand(tree) PROVE AcceptedAsItIs'
    BY <2>1 DEF Hand, NotLoaded, AcceptedAsItIs
  <2>2. CASE Load
    BY <2>2 DEF Load, AcceptedAsItIs
  <2>3. CASE UNCHANGED loadVars
    BY <1>2, <2>3 DEF loadVars, AcceptedAsItIs
  <2> QED
    BY <1>2, <2>1, <2>2, <2>3 DEF LoadNext, WriteFile, RemoveFile
<1> QED
  BY <1>1, <1>2, PTL DEF LoadSpec

LEMMA OneKeptCounts ==
  ASSUME NEW a, NEW b, a # b, NEW set, a \in set <=> b \notin set
  PROVE  Cardinality({a, b} \cap set) = 1
<1>1. {a, b} \cap set = {a} \/ {a, b} \cap set = {b}
  OBVIOUS
<1> QED
  BY <1>1, FS_Singleton

LEMMA NeitherKeptMeetsAThird ==
  ASSUME NEW causes, NEW a \in causes \ Kept(causes), NEW b \in causes \ Kept(causes)
  PROVE  \E c \in causes \ {a, b} : GivesWay(a, c) \/ GivesWay(b, c)
<1>1. PICK c \in causes : GivesWay(a, c)
  BY DEF Kept
<1>2. PICK d \in causes : GivesWay(b, d)
  BY DEF Kept
<1>3. c # a /\ d # b
  BY <1>1, <1>2 DEF GivesWay, Contend
<1>4. ~(c = b /\ d = a)
  BY <1>1, <1>2 DEF GivesWay
<1> QED
  BY <1>1, <1>2, <1>3, <1>4

\* Of two slots that could give one child a set Load accepts keeps exactly one, save where
\* one of them gives way to a third, whatever the resource types yield to (checkSlot, and
\* the yields of Set.check, go/declarations/load.go).
THEOREM OneOwnerIsLeft == LoadSpec => []ContendersLeaveOneOwner
<1>1. ASSUME AcceptedAsItIs PROVE ContendersLeaveOneOwner
  <2> DEFINE causes == Causes(declarations)
  <2> SUFFICES ASSUME loaded.ok, NEW a \in causes, NEW b \in causes, Contend(a, b)
               PROVE  \/ Cardinality({a, b} \cap Kept(causes)) = 1
                      \/ \E c \in causes \ {a, b} : GivesWay(a, c) \/ GivesWay(b, c)
    BY DEF ContendersLeaveOneOwner
  <2>1. NoneContend(Kept(causes))
    BY <1>1 DEF AcceptedAsItIs, Accepts
  <2> HIDE DEF causes
  <2>2. ~(a \in Kept(causes) /\ b \in Kept(causes)) /\ a # b
    BY <2>1 DEF NoneContend, Contend
  <2>3. CASE a \in Kept(causes) \/ b \in Kept(causes)
    BY <2>2, <2>3, OneKeptCounts
  <2>4. CASE a \notin Kept(causes) /\ b \notin Kept(causes)
    BY <2>4, NeitherKeptMeetsAThird
  <2> QED
    BY <2>3, <2>4
<1> QED
  BY <1>1, LoadedIsWhatThereIs, PTL
===============================================================================
