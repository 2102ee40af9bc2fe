---------------------------- MODULE MigrateCommand -----------------------------
(***************************************************************************)
(* strictspec migrate (go/cmd/strictspec/migrate_diff.go): a run loads the *)
(* migrations, computes the output of every document it is given, and only *)
(* then sweeps: per document a temporary file, renamed over it.  Writes    *)
(* fail, runs die, an operator runs it again, and documents are edited.    *)
(***************************************************************************)
EXTENDS Migrations

CONSTANTS
  Documents,        \* the paths, in the order the command line names them
  InitialFiles,     \* what they may hold: [format, lines], more than one line in JSONL
  Directories,      \* the sequences of migrations a directory may hold
  EditedFiles,      \* what a hand may put into a document
  MaxRuns, MaxWriteFaults, MaxFileEdits  \* bounds

ASSUME FilesAreFiles == \A file \in InitialFiles \cup EditedFiles : DOMAIN file = {"format", "lines"}
ASSUME DirectoriesAreSequences == \A d \in Directories : d \in Seq(Range(d))

VARIABLES
  files,       \* the documents
  temporaries, \* the temporary files that are there
  directory,   \* the migrations
  run,         \* the run: its phase, how far it is, its outputs
  before,      \* the documents as a run began, and what hands put there since
  counts       \* how much of each bound is used

migrateVars == <<files, temporaries, directory, run, before, counts>>

Paths == Range(Documents)
Resting == [phase |-> "done", outputs |-> <<>>, swept |-> 0, dry |-> FALSE]

MigrateInit ==
  /\ files \in [Paths -> InitialFiles]
  /\ temporaries = {} /\ directory \in Directories
  /\ run = Resting /\ before = files
  /\ counts = [runs |-> 0, faults |-> 0, edits |-> 0]

Count(what) == counts' = [counts EXCEPT ![what] = @ + 1]

\* A run begins, dry or not; what it knows of a document is read as it gets to it.
Begin ==
  /\ run.phase \in {"done", "refused", "failed"} /\ counts.runs < MaxRuns /\ Count("runs")
  /\ \E dry \in BOOLEAN : run' = [Resting EXCEPT !.phase = "computing", !.dry = dry]
  /\ before' = files
  /\ UNCHANGED <<files, temporaries, directory>>

\* What becomes of a document.
Outcome(file) == MigrateFile(directory, file.lines)

Computed == Len(run.outputs)
Current  == Documents[Computed + 1]

\* A mutant: an output is written as soon as it is computed.
ComputeAndWrite ==
  /\ run.phase = "computing" /\ Computed < Len(Documents)
  /\ LET made == Outcome(files[Current])
     IN IF made.ok
        THEN /\ run' = [run EXCEPT !.outputs = Append(@, made.lines)]
             /\ files' = [files EXCEPT ![Current].lines = made.lines]
        ELSE run' = [run EXCEPT !.phase = "refused"] /\ UNCHANGED files
  /\ UNCHANGED <<temporaries, directory, before, counts>>

Compute ==
  /\ run.phase = "computing" /\ Computed < Len(Documents)
  /\ LET made == Outcome(files[Current])
     IN run' = IF made.ok THEN [run EXCEPT !.outputs = Append(@, made.lines)]
                ELSE [run EXCEPT !.phase = "refused"]
  /\ UNCHANGED <<files, temporaries, directory, before, counts>>

\* The sweep begins when every output is there; a dry run only records it.
Sweep ==
  /\ run.phase = "computing" /\ Computed = Len(Documents)
  /\ run' = [run EXCEPT !.phase = IF run.dry THEN "done" ELSE "sweeping"]
  /\ UNCHANGED <<files, temporaries, directory, before, counts>>

Swept == Documents[run.swept + 1]

WriteTemporary ==
  /\ run.phase = "sweeping" /\ run.swept < Computed /\ Swept \notin temporaries
  /\ temporaries' = temporaries \cup {Swept}
  /\ UNCHANGED <<files, directory, run, before, counts>>

\* A temporary file an earlier run left is written over.
Rename ==
  /\ run.phase = "sweeping" /\ run.swept < Computed /\ Swept \in temporaries
  /\ files' = [files EXCEPT ![Swept].lines = run.outputs[run.swept + 1]]
  /\ temporaries' = temporaries \ {Swept}
  /\ run' = [run EXCEPT !.swept = @ + 1]
  /\ UNCHANGED <<directory, before, counts>>

Finish ==
  /\ run.phase = "sweeping" /\ run.swept = Computed
  /\ run' = [run EXCEPT !.phase = "done"]
  /\ UNCHANGED <<files, temporaries, directory, before, counts>>

\* A write or a rename is refused, or the run is killed between two of them.
WriteFault ==
  /\ run.phase = "sweeping" /\ counts.faults < MaxWriteFaults /\ Count("faults")
  /\ run' = [run EXCEPT !.phase = "failed"]
  /\ UNCHANGED <<files, temporaries, directory, before>>

EditFile ==
  /\ counts.edits < MaxFileEdits /\ Count("edits")
  /\ \E p \in Paths, file \in EditedFiles :
        /\ file.format = files[p].format
        /\ files' = [files EXCEPT ![p] = file] /\ before' = [before EXCEPT ![p] = file]
  /\ UNCHANGED <<temporaries, directory, run>>

MigrateNext ==
  \/ Begin \/ Compute \/ Sweep \/ WriteTemporary \/ Rename \/ Finish
  \/ WriteFault \/ EditFile

MigrateSpec == MigrateInit /\ [][MigrateNext]_migrateVars

-------------------------------------------------------------------------------
(***************************************************************************)
(* Properties.                                                             *)
(***************************************************************************)
\* A run that refuses one document has changed none: every output is computed
\* before the first is written, and a dry run writes nothing.
RefusedRunsChangeNothing ==
  run.phase \in {"computing", "refused"} \/ run.dry => files = before

\* The sweep puts no document on disk that the target schema does not accept, in
\* any of its lines, or that another version would be read from.
SweptDocumentsAreCurrent ==
  [][\A p \in Paths : files'[p] # files[p] /\ run'.swept > run.swept =>
       \A i \in DOMAIN files'[p].lines :
         /\ Accepted(files'[p].lines[i])
         /\ VersionOf(files'[p].lines[i]) = TargetVersion]_migrateVars

\* DESIGN.md: "any failure anywhere leaves zero changes on disk".  It does not: the
\* documents a sweep renamed before it failed stay migrated.
FailuresLeaveZeroChanges == run.phase = "failed" => files = before
===============================================================================
