------------------------------- MODULE Generated -------------------------------
(***************************************************************************)
(* init, gen and check (go/cmd/strictspec/handlers.go), the loading of a   *)
(* schema for emission (go/internal/emit/load.go), and the compiling of    *)
(* the files a generated validator carries (go/internal/schema/load.go,    *)
(* go/strictspec/program.go).                                              *)
(*                                                                         *)
(* gen writes its outputs one by one, with a chmod before and after, while *)
(* hands edit the sources; any of its writes can fail and it can be killed *)
(* between two of them.  check only reads, and is one step: what changes   *)
(* while it runs voids its verdict as what changes later does.             *)
(*                                                                         *)
(* A source is [authored, imports, scalars, removed]: whether it reads     *)
(* without a diagnostic, the files it imports, the rules it registers for  *)
(* custom scalars, and whether one is bound in a language that was         *)
(* removed.  Generated text is what it was made of.                        *)
(***************************************************************************)
EXTENDS Integers, FiniteSets, Sequences, SequencesExt, FiniteSetsExt, Functions, TLC

CONSTANTS
  FirstManifests, FirstSources,  \* what a repository starts with
  ManifestEdits, SourceEdits,    \* what hands write: manifests, and [file, to]
  FilesInOrder,                  \* the files, as a directory is listed
  Beside,                        \* those that are beside the manifest and the schemas
  MigrationFiles,                \* those that are migration files
  SuffixOf(_, _),                \* whether the first path is the end of the second
  MaxEdits, MaxFaults            \* bounds

ASSUME FilesAreListed == FilesInOrder \in Seq(Range(FilesInOrder))

VARIABLES
  manifestFile,  \* [there, schemas]: a sequence of [path, targets], of [lang, output, package]
  sources,   \* the files there are, and what they are
  outputs,   \* the generated files there are: [text, writable]
  rules,     \* the paths .gitattributes has a rule for
  gen,       \* the run of gen, and how it ended
  checked,   \* the last check's verdict: "passed", "failed", or "void"
  edits, faults

generatedVars == <<manifestFile, sources, outputs, rules, gen, checked, edits, faults>>

-------------------------------------------------------------------------------
(***************************************************************************)
(* Loading.                                                                *)
(***************************************************************************)
SchemaReads(files, path) ==
  /\ path \in DOMAIN files /\ files[path].authored
  /\ \A i \in files[path].imports : i \in DOMAIN files /\ files[i].authored
Present(files, names) == Restrict(files, names \cap DOMAIN files)
TypesOf(files, path)  == Present(files, {path} \cup files[path].imports)

\* mergeScalars: of two rules for one scalar the later file's is kept.
PlacesOf(files, names) == {i \in DOMAIN FilesInOrder : FilesInOrder[i] \in names \cap DOMAIN files}
MergeScalars(files, names) ==
  LET rulesAt(i)  == files[FilesInOrder[i]].scalars
      Registers(s) == {i \in PlacesOf(files, names) : s \in DOMAIN rulesAt(i)}
  IN [s \in UNION {DOMAIN rulesAt(i) : i \in PlacesOf(files, names)} |-> rulesAt(Max(Registers(s)))[s]]
ScalarsRefused(files, names) == \E f \in names \cap DOMAIN files : files[f].removed

\* LoadManifestScalars, LoadManifestScalarsFrom: of a directory, of the embedded files.
ScalarsOnDisk(files)    == MergeScalars(files, Beside)
ScalarsEmbedded(files)  == MergeScalars(files, DOMAIN files)

\* A mutant: the files that only register scalars are not embedded.
SchemaAndImports(files, path) == TypesOf(files, path)

\* LoadForEmit: the schema, what it imports, and what beside it registers scalars.
FilesEmbedded(files, path) ==
  Present(files, {path} \cup files[path].imports
                   \cup {f \in Beside \cap DOMAIN files : files[f].scalars # <<>>})

\* What Compile makes of a schema and its scalars, by the interpreter and in a
\* generated validator.
Program(types, scalars) == [types |-> types, scalars |-> scalars]
Interpreted(path) == Program(TypesOf(sources, path), ScalarsOnDisk(sources))
CompileEmbedded(text) ==
  Program(TypesOf(text.embedded, text.main), ScalarsEmbedded(text.embedded))

Text(path, target, types, embedded) ==
  [main |-> path, package |-> target.package, types |-> types, embedded |-> embedded]
Torn == [main |-> "", package |-> "", types |-> <<>>, embedded |-> <<>>]

\* manifest.Load: go is the only language.
ManifestLoads ==
  /\ manifestFile.there /\ manifestFile.schemas # <<>>
  /\ \A s \in Range(manifestFile.schemas) : \A t \in Range(s.targets) : t.lang = "go"
Jobs(schemas) ==
  FlattenSeq([i \in DOMAIN schemas |->
    [j \in DOMAIN schemas[i].targets |-> [path |-> schemas[i].path, target |-> schemas[i].targets[j],
                                          first |-> j = 1]]])

-------------------------------------------------------------------------------
(***************************************************************************)
(* gen.                                                                    *)
(***************************************************************************)
NoGen == [at |-> "idle", jobs |-> <<>>, types |-> <<>>, embedded |-> <<>>, done |-> {}, ended |-> "no"]
Job == Head(gen.jobs)
Output == Job.target.output
Ends(how) == gen' = [NoGen EXCEPT !.ended = how]
GoesTo(step) == gen' = [gen EXCEPT !.at = step]
Undisturbed == UNCHANGED <<manifestFile, sources, edits, faults>>

GenStart ==
  /\ gen.at = "idle"
  /\ IF ManifestLoads THEN gen' = [NoGen EXCEPT !.at = "load", !.jobs = Jobs(manifestFile.schemas)]
     ELSE Ends("refused")
  /\ UNCHANGED <<outputs, rules, checked>> /\ Undisturbed

\* The schema of the first of its targets is loaded once for all of them.
GenLoad ==
  /\ gen.at = "load" /\ gen.jobs # <<>>
  /\ IF ~Job.first THEN GoesTo("open")
     ELSE IF SchemaReads(sources, Job.path) THEN
       gen' = [gen EXCEPT !.at = "embed", !.types = TypesOf(sources, Job.path)]
     ELSE Ends("refused")
  /\ UNCHANGED <<outputs, rules, checked>> /\ Undisturbed

\* The files are read again to be embedded: a main file that is gone is an error, an
\* import that is gone is passed over.
GenEmbed ==
  /\ gen.at = "embed"
  /\ IF Job.path \in DOMAIN sources /\ ~ScalarsRefused(sources, Beside)
     THEN gen' = [gen EXCEPT !.at = "open", !.embedded = FilesEmbedded(sources, Job.path)]
     ELSE Ends("refused")
  /\ UNCHANGED <<outputs, rules, checked>> /\ Undisturbed

\* A file is written, whether it is there or not.
Saved(there, path, made) ==
  [p \in DOMAIN there \cup {path} |-> IF p = path THEN made ELSE there[p]]

\* A mutant: a file that is there is left as it is.
LeftLocked(written) == written

\* writeGenerated: the chmod before, of a file that is there; the write; the chmod after.
Unlocked(written) ==
  IF Output \in DOMAIN written THEN [written EXCEPT ![Output].writable = TRUE] ELSE written
GenOpen ==
  /\ gen.at = "open" /\ GoesTo("write") /\ outputs' = Unlocked(outputs)
  /\ UNCHANGED <<rules, checked>> /\ Undisturbed

GenWrite ==
  /\ gen.at = "write"
  /\ IF Output \in DOMAIN outputs /\ ~outputs[Output].writable
     THEN Ends("blocked") /\ UNCHANGED <<outputs, checked>>
     ELSE /\ outputs' = Saved(outputs, Output, [text |-> Text(Job.path, Job.target, gen.types, gen.embedded),
                                                writable |-> TRUE])
          /\ checked' = "void" /\ GoesTo("seal")
  /\ UNCHANGED rules /\ Undisturbed

GenSeal ==
  /\ gen.at = "seal" /\ outputs' = [outputs EXCEPT ![Output].writable = FALSE]
  /\ gen' = [gen EXCEPT !.at = "load", !.jobs = Tail(gen.jobs), !.done = gen.done \cup {Output}]
  /\ UNCHANGED <<rules, checked>> /\ Undisturbed

\* ensureGitattributes: a path another rule's path ends in counts as having one.
GenAttributes ==
  /\ gen.at = "load" /\ gen.jobs = <<>> /\ Ends("ok")
  /\ rules' = rules \cup {o \in gen.done : \A r \in rules : ~SuffixOf(o, r)}
  /\ UNCHANGED <<outputs, checked>> /\ Undisturbed

\* A step that mutates fails, or gen is killed: what is being written may be torn.
GenFails ==
  /\ gen.at \in {"open", "write", "seal"} /\ faults < MaxFaults /\ faults' = faults + 1
  /\ Ends("failed")
  /\ \/ UNCHANGED <<outputs, checked>>
     \/ /\ gen.at = "write" /\ checked' = "void"
        /\ Output \in DOMAIN outputs => outputs[Output].writable
        /\ outputs' = Saved(outputs, Output, [text |-> Torn, writable |-> TRUE])
  /\ UNCHANGED <<rules, manifestFile, sources, edits>>

-------------------------------------------------------------------------------
(***************************************************************************)
(* init, check, and hands.                                                 *)
(***************************************************************************)
InitManifest ==
  /\ ~manifestFile.there /\ manifestFile' = [there |-> TRUE, schemas |-> <<>>]
  /\ UNCHANGED <<sources, outputs, rules, gen, checked, edits, faults>>

\* What gen would write now, and what there is.
IsFresh(path, target) ==
  /\ target.output \in DOMAIN outputs
  /\ outputs[target.output].text = Text(path, target, TypesOf(sources, path), FilesEmbedded(sources, path))
SchemaChecks(s) ==
  /\ SchemaReads(sources, s.path) /\ ~ScalarsRefused(sources, Beside)
  /\ \A i \in DOMAIN s.targets : IsFresh(s.path, s.targets[i])

\* checkHandler, checkMigrationFiles
CheckPasses ==
  /\ ManifestLoads /\ \A i \in DOMAIN manifestFile.schemas : SchemaChecks(manifestFile.schemas[i])
  /\ \A f \in MigrationFiles \cap DOMAIN sources : sources[f].authored
Check ==
  /\ checked' = IF CheckPasses THEN "passed" ELSE "failed"
  /\ UNCHANGED <<manifestFile, sources, outputs, rules, gen, edits, faults>>

Edit ==
  /\ edits < MaxEdits /\ edits' = edits + 1 /\ checked' = "void"
  /\ \/ \E e \in SourceEdits : sources' = Saved(sources, e.file, e.to) /\ UNCHANGED manifestFile
     \/ \E f \in DOMAIN sources : sources' = Restrict(sources, DOMAIN sources \ {f}) /\ UNCHANGED manifestFile
     \/ \E m \in ManifestEdits : manifestFile' = [there |-> TRUE, schemas |-> m] /\ UNCHANGED sources
  /\ UNCHANGED <<outputs, rules, gen, faults>>

GeneratedInit ==
  /\ manifestFile \in FirstManifests /\ sources \in FirstSources
  /\ outputs = <<>> /\ rules = {} /\ gen = NoGen /\ checked = "void" /\ edits = 0 /\ faults = 0

GeneratedNext ==
  \/ GenStart \/ GenLoad \/ GenEmbed \/ GenOpen \/ GenWrite \/ GenSeal \/ GenAttributes
  \/ GenFails \/ InitManifest \/ Check \/ Edit
GeneratedSpec == GeneratedInit /\ [][GeneratedNext]_generatedVars

-------------------------------------------------------------------------------
(***************************************************************************)
(* Properties.                                                             *)
(***************************************************************************)
\* Wherever a run of gen failed or was killed, no later run fails at what it left: the
\* files are read-only, and every run unlocks what it writes.
NoRunBlocksAnother == gen.ended # "blocked"

\* A fact of the constants: what registers scalars is where the directory's are looked for.
ScalarsAreBeside ==
  /\ \A there \in FirstSources : \A f \in DOMAIN there : f \in Beside \/ there[f].scalars = <<>>
  /\ \A e \in SourceEdits : e.file \in Beside \/ e.to.scalars = <<>>

\* While nothing was edited since a check passed, each generated validator of the
\* manifest accepts what the interpreter accepts: it was made of one state of the
\* sources, whole, and binds the scalars the directory registers, whatever runs of gen
\* failed halfway and whatever was edited under them.
CheckedValidatorsAgree ==
  checked = "passed" =>
    \A i \in DOMAIN manifestFile.schemas : \A j \in DOMAIN manifestFile.schemas[i].targets :
      LET path == manifestFile.schemas[i].path
          text == outputs[manifestFile.schemas[i].targets[j].output].text
      IN CompileEmbedded(text) = Interpreted(path) /\ text.types = TypesOf(text.embedded, path)
===============================================================================
