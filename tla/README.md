# strictspec, specified

TLA+ modules, TLC configurations and TLAPS proofs about the program in `src/`.
The modules are translated from the Go source; names follow it where TLA+ allows.

## 1. The system

strictspec is a Go module (`src/go`) with three sides.

- **A toolchain for document formats**: schemas (`internal/schema`) become
  programs (`internal/emit`) that validate documents (`internal/ir`,
  `strictspec`); a CLI (`cmd/strictspec`) generates code and checks its
  freshness, migrates documents (`internal/migrate`) and classifies changes of
  schemas (`internal/diffeng`, `internal/docdiff`).
- **Records a repository keeps about itself**: `lifecycle` (identities, the names
  they hold in registries, the rules their history obeys) and `confidential`
  (lists of what must not be published, hits and their resolutions).
- **The declarations engine** (`declarations`), the largest package and the one
  that writes to the outside: tools declare resources of providers in files,
  compare them with what is live, plan the changes and apply them.

The engine was modelled first. It is the part with state that others change
while it runs (the provider, operators, other commands), with writes that
cannot be taken back, partial failure and retries, and its ordering rules are
the hardest code in the repository to test. The other two sides follow: the
records a repository keeps, and the documents, their schemas and the commands
that validate, migrate, compare and generate from them.

How the parts meet: a schema (`internal/schema`) is compiled into a program that
`internal/ir` runs over a document; `emit` puts the same schema, and what it
imports, into generated code that compiles it again at run time; `migrate`
takes a document through a chain of ops and validates what comes out; `diff`
asks of a corpus what `migrate` would make of it; `doc-diff` uses the schema to
tell which elements of two arrays are the same. `lifecycle`, `confidential` and
the options of `strictspec` share nothing but the repository they are files of.

### Inventory

| Component | State | Operations | Interacts with | What is hard | What makes it correct |
|---|---|---|---|---|---|
| `declarations`: comparison (`compare.go`, `report.go`, `values.go`) | the recorder: every read's answer, kept for one comparison | `Compare`, `derive`, `created`, `expected`, `compareResource`, `unclaimed`, `misclaimed`, `planID` | `LiveReader`, `ResourceType.Derive`, claims | reads made at different moments; failed reads; derivations waiting on what is not there | nothing left alone, covered or owned elsewhere is called unexpected or unclaimed; the identifier tells plans apart |
| plan (`apply.go`, `pending.go`) | the changes and their order | `PlanApply`, `changes`, `orderByNeeds`, `orderDeletesByUses`, `Accept` | comparison, `Writer.Refuse`, `UsageReader`, `Git` | changes moved between stages; waiting cycles; users before used | creations first, upserts before deletes, users first, refusal of what has no order |
| execution (`apply.go`, `pending.go`) | index, what is created, the claims left | `Execute`, `realize`, `must`, `resource`, `expand` | `Writer.Apply`, `LiveReader` (fresh reads) | live state moves; values assigned late; failures, lost answers, retries | no placeholder is written; one apply suffices; retries converge |
| claims, creators (`claims.go`, `creator.go`) | `claims.toml` | `LoadClaims`, `ClaimCreated`, `UnclaimCreated`, `CreatorClaim`, `RenameClaim` | account comparison, creator commands | create-then-claim is two steps beside an apply | only stale creators' claims are dropped; only unclaimed resources deleted |
| load (`load.go`, `reference.go`) | none kept: a `Set` | `Load`, `LoadForImport`, `Set.check`, `checkSlot`, yielding slots | files, schemas | slots yielding to each other, and only where they overlap | no key is derived twice or both declared and derived; of two that contend one owns |
| project, import (`project.go`, `importable.go`, `render.go`, `toml.go`) | none | `FindRoot`, `FindProject`, `Init`, `ListImportable`, `RenderImport` | files, comparison rules | | nothing owned elsewhere is importable |
| `internal/ir` | none: a function of document and program | the gate, the walk, unions, conditions, constraints | programs | a violation hidden by another; a constraint of a record found wrong is not looked at | a document is accepted iff it meets its definition |
| `strictspec`: options (`options.go`, `options_rules.go`) | registry, subject documents | `LoadOptionsEntries`, `ValidateOptionsRegistry`, `ValidateOptionsNamespace` | files | requirements that form rings, dependents reached only through others | a registry has an order; nothing is switched off silently |
| `lifecycle` | the record and its document | `edit` and its mutations, the rules, `Write` | `Registry`, releases, files | a history of edits across releases, some by hand | names stay held, closed periods stay closed, one open identity per subject and facet |
| `cmd/strictspec` | files on disk | `init`, `gen`, `check`, `migrate`, `diff` | all the others | failing between two files of a run; sources edited under it | migrate is all or nothing; what check passed agrees with the interpreter |
| `internal/migrate` | none | 13 ops, up and down, chains, JSONL | documents | composing ops; partial down ops; a stream of two versions | a down op undoes its up op or refuses |
| `internal/diffeng` | a certificate | claims, grades, adjudications | corpus, migrations | claims without a witness; versions compared by no one | what is green, migrate carries out, of the documents at the migration's version |
| `internal/docdiff` | none | the walk, matching by key | schemas | moved and changed at once | the deltas give the second document back, where keys tell elements apart |
| `confidential` | the store's file | lists, matching, `AddResolution`, `Resolve` | repositories, files | read-then-write of the store; text and list change under a resolution | nothing is published but what was judged; no term is committed |
| `internal/schema`, `internal/emit`, `internal/manifest` | none | read, resolve, build, embed | files | a file read twice | the embedded schema is the one read |
| `internal/export`, parsers, writers, rendering, generated tables | none | | | | character-level text |

`PROJECT.json` lists the same with files and status, and under `hazards` what can
go wrong at which line, with the property that would show it.

## 2. The modules

```
Declarations        data: values, children, keys, matchers, slots, what Load guarantees
   DeclLoad            files, Set.check, slots and yielding: why Load guarantees it
   DeclCompare      + live, exposed, set, given, reads, values, lists   Compare
      DeclPlan      + changes, plan, placed                             PlanApply's plan
         DeclApply  + disk, command, bounds   dry runs, applies, provider, operators, creators
            MCProject, MCAccount                    instances for TLC
            DeclExecute_proofs                      order of plans and of execution, what is written, what taken away
               DeclReview_proofs                    what runs is what was reviewed
                  DeclCourse_proofs                 what a change left to do makes so
                     DeclSuffices_proofs            one apply suffices

PermanentFacts         facts that are entered and never taken out
   Lifecycle           the record, its mutators and rules, releases    (implements PermanentFacts)
Resolutions            confidential lists, hits, resolutions, two tools
Options                registries, subject documents, their rules
   Records_proofs         theorems of Lifecycle, Resolutions and Options
Generated              init, gen, check, the sources under them

Migrations             documents as trees, ops, migrations, chains (no variables)
   MigrateOps          one document, op after op
   MigrateCommand      strictspec migrate: compute all, then sweep
   Diffs               strictspec diff: claims, certificate, adjudication
   Validation          schemas and the validation of a document
      Conformance      what appendix-semantics.md says a type and a constraint accept
      DocDiffs         two documents of one schema
   Documents_proofs    theorems of MigrateOps and Validation
   Commands_proofs     theorems of Generated, MigrateCommand, Diffs and DeclLoad

FoldTheory             what folds over finite sets compute (no component)

MCLoad                 values for DeclLoad
MCRecords              values for Lifecycle, Resolutions, Options, Generated
MCSchemas              constructors of schemas and documents, and their scalars
   MCDocuments         values for MigrateOps, MigrateCommand, Diffs, DocDiffs
MCRepository           MCLoad, MCRecords and MCDocuments, one component at a time
```

**Declarations** has no variables. A value is a literal, a reference to an exposed
value, a `Pending` (with the creations it waits on) or the reason a derivation
gives for having no value yet. A child is a function from fields to values; its
key fields follow `keyFields` (the fallback key when no key field is present).
A matcher is the set of scalars it accepts. `LoadChecked` is what the engine needs
of a set: DeclApply assumes it of its sets, DeclLoad gives it.

**DeclLoad** is `load.go`. `WriteFile` and `RemoveFile` are hands in the declaration
directory, `Load` is `Load` and `LoadForImport`: `Accepts` is what must not be
refused (`UnmanagedFormed`, `ChildrenFormed`, `ReferencesResolve`, `SlotAccepted`, then
over the slots kept `NoneContend`, `DeclaredIsNotDerived`, `UnmanagedIsNoOnes`,
`DerivableAreSupplied`), and `Kept(Causes(declarations))` the slots left when those that give
way are dropped. A file is the resource decoded. What a resource type derives has
its key and matches its slot: `DerivationsMatch`, which `checkDerived` refuses the
rest of when a comparison derives it.

**DeclCompare** is `compare.go`. `reads`, `values` and `lists` are the recorder:
each read is answered once per comparison, with what is live then, an absence,
or a failure. `Requests` gives the reads the code makes given what it has heard
so far, in the code's order (`turn`): derivations with the reads of `created`,
then resources with the values they refer to, then, in the account repository,
lists and candidates. All the rest is a function of that memory: slot states
(`Skipped`, `Unresolved`, `IsPending`), `ExpectedFields`/`ExpectedChildren`,
`ResourceDifferences`, `Unclaimed`, `StaleClaims`, `PlanID`.

**DeclPlan** is `comparison.changes` (`ChangesFor`), its order by stage
(`Precedes`), `orderByNeeds` (one `TakeEarliest` per iteration) and
`orderDeletesByUses` (one `PlaceDelete` per iteration, then `PutInPlace`).

**DeclApply** is the two commands and everyone around them.

| Action | Code |
|---|---|
| `Load` | the tool's own command line: `Load`, `LoadClaims` |
| `CheckGit` | `PlanApply`'s `git status`, `checkClaimsPlacement` |
| `ReadNext` | one live read through the recorder, which may fail |
| `Compared` | the end of the comparison: the refusals in order, or the changes |
| `Order`, `OrderStuck`, `Ordered` | `orderByNeeds` |
| `Place`, `PlaceRefused`, `Placed` | `orderDeletesByUses` and its usage reads |
| `Show` | `Writer.Refuse` over the plan; the dry run's print |
| `Accept` | `Writer.Refuse`, `Plan.Accept` |
| `RealizeNext`, `RealizeFails` | `realizer.realize`, `expand` |
| `Write`, `WriteStops` | `Writer.Refuse` of expanded writes, `Writer.Apply`, what follows a change |
| `CompareAgain`, `Report` | the comparison at the end of `Execute`; the exit code |
| `Assign`, `Drift` | the provider |
| `Edit`, `Commit` | operators |
| `CreatorCreates`, `CreatorClaims`, `CreatorDeletes`, `CreatorUnclaims` | creators, through `ClaimCreated`, `CreatorClaim`, `UnclaimCreated` |

`pc`, `mode`, `at`, `writes` and `created` are the command's own state (`created` is
`realizer.created`); `reviewed` is what the last dry run printed; `outcome` how the
last command ended; `calm` a history variable, true while nothing but the
command has touched what it compares; `spent` counts what is used of each bound.

A command that returns forgets everything but what it printed, which is the
code's own "no state file".

**Lifecycle** is the record: sets of dated periods, identities, registry names and
tags. `Sound` is what a mutation is adopted by (`edit`: a result that is not sound
is dropped), `Permanent` what the append-only rules compare, `CheckAppendOnly`
those rules against the last release's record, `Valid` the rules of one record.

| Action | Code |
|---|---|
| `LoadRecord` | `Load` of the file, or the record of a repository without one |
| `OpenPeriod`, `ClosePeriod`, `AddIdentity`, `CloseIdentity`, `AddRegistryName`, `AddUnversionedTag` | the mutators of `mutate.go`, each through `edit` |
| `Activate` | `ActivatePendingIdentities`: every pending identity of a version at once, each closing the open one it finds in the record as it was |
| `WriteManifest`, `WriteRecord`, `WriteFails` | `Write`: the directory's manifest, then the file |
| `Release` | the rules against the previous release, which the record then becomes |
| `HandEdit` | a hand in the file, which may take out or change anything |

**PermanentFacts** says in one action what releases promise. Lifecycle implements it under
`facts <- Permanent(released)`.

**Resolutions**: the list is parsed (`EntryAccepted`, `ListLoads`), matched
(`Scan`, `HitID`), and what it finds judged. `ReadAll`, `JudgeOne`, `WriteStore`
are a tool's load of list and store, `NewFalsePositive` or `NewApproval`, and `AddResolution`'s write
of the whole file from what was read, each a step so that two tools interleave;
`Publish` is `Resolve` followed by the publishing a caller does on an empty
answer. `ListAn`, `ListLost`, `Tamper`, `Rewrite` are owner, disk and hands.

**Options** has two hands, `WriteEntry` and `SpoilDocument`; the rest are the rules
on what they leave: `RankingParses`, `Reach` and `Cycles` (`ValidateOptionsRegistry`),
`DependentsOff`, `OptionEntryAccepted`, `NamespaceAccepted` (`ValidateOptionsNamespace`).

**Generated** steps gen through its code: `GenStart` (manifest and jobs), `GenLoad`
(parse of one schema for the types), `GenEmbed` (the second read, of the bytes to
embed), `GenOpen`, `GenWrite`, `GenSeal` (unlock, write, make read-only),
`GenAttributes`; `GenFails` at any of them. `Check` compares what is on disk with
what would be generated, `InitManifest` is init, `Edit` a hand. A generated text is
what it was made of, so that freshness and agreement are equalities.

**Migrations**: `OpAllowed` and `OpResult` are the thirteen ops, refusals and
results; `ApplyUp`, `ApplyDown`, `MigrateDocument`, `MigrateLines`, `Follow`, `SelectChain`
and `MigrateFile` what is made of them, the last with the command's refusals (a file
at the current version, or that no chain leaves). Its constant `Accepted` is what validates at
the end; `MCDocuments` gives it Validation's `Execute`, so the two are composed.

**MigrateCommand**: `Begin`, `Compute` (one document each), `Sweep`,
`WriteTemporary`, `Rename`, `Finish`, with `WriteFault` (a refused write, or the
run killed) and `EditFile` beside it. **Diffs**: `Certify` and `Adjudicate`, of
every question of the bounds. **MigrateOps**: `ApplyOp`, and `InverseOf`, the down op
its author would write; `OpIsWellFormed` is what the file of an op states of it.

**Validation**: `SchemaAccepted` is what authoring refuses of unions, opaque types
and imports; `Dispatch`, `Children` and `Visits` the walk, breadth by breadth
instead of by recursion; `Codes` what it reports of a node; `Violated` the
fifteen constraints that are run and the three that are not (`NeverRun`); `Execute`
both passes. **Conformance** is what `appendix-semantics.md` says and `Execute` is
compared with: `Fits` what a type accepts, by recursion, with no passes and no order,
and `Meets` each of the eighteen constraints as sections 3.24 and 3.25 state it,
without asking the code's `Violated` anything. The two differ where the code overlooks
something; `Overlooked`, `NothingOverlooked` and `WalkedAsMeant` say where, case by case (section 5).
**DocDiffs**: `Walk` is `docdiff`'s, with both places `unique-by` may be declared at
(`WalkField`, `WalkArray`); `ReadBack` makes the second document of the first and the
deltas, and `KeysTellApart` is what it takes of both documents: in an array that is
matched by a key each element has one, and no two the same.

**MCRepository** puts these side by side. The first state chooses a component
(`part`); it runs and the others rest in a fixed state, so their states add up.

### Reductions, by name

- *Load is one step.* Files are read one by one in the code; an edit between two
  of them is seen as an edit before or after. The load's refusals are not taken:
  write sets that pass (`SetsAreLoaded`). DeclLoad takes the refusals, with edits
  between loads, and shows that what passes is what is assumed.
- *Realizing is one step.* The reads `realize` makes for one change happen
  together. Between two changes, and between a realized change and each of its
  writes, anyone may act.
- *The environment pauses while only the plan is computed* (`Elsewhere`):
  ordering, placing and showing read memory alone, so an action of others there
  commutes with them. The exception is `UsageReader.Users`, an external read,
  a constant here (`UsersOf`) which may fail.
- *Reads go through one order.* Go maps are not iterated for reads; the order is
  the code's, with ties broken by a fixed choice.
- *Ties in the order by stage* keep the report's order in the code; here they
  come in any order, which allows more plans.
- *External parts*: `LiveReader`, `Writer`, `UsageReader`, `Git` and the tools'
  `Derive` are interfaces. The writer modelled creates a resource bare with its
  fields, deletes what is owned with its owner, and fails with or without its
  effect. A slot's derivation reads one resource or exposed value.
- *Strings are opaque*: values are compared, never parsed. A scalar of a document
  is a class and a name, a text a sequence of words, a tag pattern the tags it
  matches.
- *Record fields have no order* in documents, and diagnostics and deltas are sets.
- *check and diff are one step each* in what they read: neither writes, and an edit
  under them counts as one after (check) or is left out (diff).
- *Tables are sets* in the lifecycle record: no rule depends on their order.

## 3. What is checked

Bounds: `MaxDrift`, `MaxFailures`, `MaxEdits`, `MaxCreations` limit how often
the environment disturbs; `Sets` and `Worlds` are the declarations and the live
states. Within one comparison every read is a step, so one drift, placed anywhere,
already gives every torn memory with one change in it; one failure, placed
anywhere, gives every partial apply; the retry that follows starts from whatever
that left.

The project (`MCProject`) is the shape of the package's own tests: a zone with one
hand-declared record naming the server's address (a reference that waits), one
derived by a mail domain (a deferred change when the mail domain is missing), one
left unmanaged and one nobody declares; a domain whose field is derived from the
zone's assigned name servers, at a later stage; a server whose stage is after the
zone's, so that stage order and need order disagree. The account (`MCAccount`)
has workers and a bucket whose stages contradict their use, two workers using
each other, a server owning an address, and snapshots of a creator.

| Run | Instance | Shows |
|---|---|---|
| `project` | set *blue*, four worlds, one drift of any kind | types; that a reviewed plan is what runs; the orders; that Execute never meets an order bug; no placeholder is written; one undisturbed apply suffices; what is to be left alone is |
| `project_refusals` | sets *blue*, *green*, *crossed* (zone and server wait on each other), a writer that cannot delete records, one edit, one failure | the same review and order properties when plans are refused midway, and that values are written in time |
| `project_retries` | fairness, one drift, one failure | applies keep ending in a report with no difference |
| `account` | two sets, four worlds, one failure, one creation | only what is unclaimed is deleted, users first, owned with owners; only stale creators' claims are dropped; one apply suffices |
| `repository` | nine components, one at a time (`Parts`) | what each promises: the table below |
| seven violation runs | each as small as shows its finding | section 5 |

The passing runs are between twenty thousand and two hundred thousand distinct
states. `CHECK_DEADLOCK` is left on for the declarations: a command can always be
started. It is off in the three `repository` runs: a component there stops when its bounds
are used up, and a certificate is issued once.

What `repository` checks, and at which bounds:

| Component | Properties | Instance |
|---|---|---|
| load | `LoadedSetsAreChecked`, `EverythingHasOneSource`, `ContendersLeaveOneOwner` | a zone with nine files, three services with eight derivations between them that yield in chains, in rings or not at all; 4 writes; a load for import of any resource |
| lifecycle | `InEffectOnce`, `OwnersStay`, `ActivationHandsOver`, `ReleasesAreALedger`, `ConfidentialDaysAreSquashed`, `RecordsAreOwned` | two days, two subjects, three identities (one pending), 3 mutations, 1 hand edit, 1 failed write |
| resolutions | `PublishedHitsWereJudged`, `NoTermIsCommitted` | two tools, three entries (a term, one with an exception, a pattern that matches an empty line), two texts, 2 judgements, 1 change each of list, store and text |
| options | `RegistriesAreOrdered`, `DependentsAreOffToo` | every registry of three options with the requirements listed, and four at fault; 3 entries in two documents |
| generated | `NoRunBlocksAnother`, `CheckedValidatorsAgree` | an import from another directory, a scalar registered twice, two outputs; 2 edits, 1 fault |
| ops | `InversesRestore` | 3 ops of the twenty, on two documents |
| migrate | `RefusedRunsChangeNothing`, `SweptDocumentsAreCurrent` | two documents, JSON and JSONL, five directories (a chain, a dead end, a ring, one that forgets an op); 2 runs, 1 fault, 1 edit |
| diff | `GreenCorporaMigrate`, `GreenIsEarned` | corpora of at most 2 of six files, with one of three migrations (one forgets an op, one is from the wrong version) or none, all sixteen adjudications |
| documents | `AcceptedDocumentsConform`, `ArmOrderIsImmaterial`, `NothingIsLeftOut` | four schemas with every kind of type and all eighteen constraints (a projection, and a sum over documents one of which lacks the field, among them), one of which has a node at which each of the code's known oversights shows; an array matched by what its record declares and one by what its own type does; nine documents, 3 edits of 48, walks of depth 4, integers of 8 bits |

Four writes put the zone and all three services there. Three mutations are what it takes to open, activate and close over one identity;
two runs and one fault what it takes to run a migration again on what a failed
one left; two tools and two judgements to lose one to the other; three edits to
break a document in two places and mend one. Integers of 8 bits are narrower
than the code's 64: the same wrapping, with no value of the instance near it.

Each property has a mutant in `PROJECT.json`: the definitions marked "a mutant"
in the modules, each a plausible slip (a claim kind not looked at, an identifier
that leaves out the differences, a retry that keeps the old recorder), under
which the run finds the property violated.

### Fairness

Used only by `KeepsMatching`. A command that is running goes on (`WF` of
`Command /\ pc # "idle"`): it is a single goroutine whose loops end. Operators
start both commands, commit what they edit, and a provider assigns what it
promised: these are enabled only now and then (the environment pauses, a command
runs in between), so they are `SF`. Nothing is assumed of drift, failures or
edits except that their bounds end. That operators run a command again is what
the tool's own message asks for ("run ... again").

No other property is a liveness property: gen, check, migrate and diff run once
and stop, and the one thing that might be hoped of them, that running again after
a failure ends well, does not hold of migrate (section 5).

## 4. What is proved

For every value of the constants: the proofs use no bound, so the limits on drift,
failures, edits and mutations do not enter, and TLC's instances are only where
each invariant was tried first.

### Assumptions and hypotheses

Assumptions stand in the modules (`ASSUME`) and TLC evaluates them on every run:

| Assumption | Says | Why the code justifies it |
|---|---|---|
| `StagesAreNumbers`, `CollectionsHaveNames`, `FieldsHaveNames`, `ResourcesHaveNames` | a stage is a number; no collection, field or resource is the empty string | that stands for the resource itself, for all of its fields and for no owner |
| `SetsAreLoaded` | a set passed Load | proved of Load by `LoadGivesCheckedSets` |
| `ProviderHoldsResources`, `ProviderHoldsData` | what is live is of the tool's types, and data | a `LiveReader` answers with decoded JSON |
| `SetsHoldValues` | a declaration holds data and references, a derivation gives data; slots are known by name | `Resource.Values`, `Derived.Value`, `Set.check` |
| `ChildrenHaveKeys` | every child, declared, derived or live, has its key fields, and a live one its own key | `checkItems` refuses the rest, of a declaration, of a derivation and of what a `LiveReader` returns (`load.go:382`, `compare.go:87`, `compare.go:358`) |
| `ReferencesNameExposedValues` | a reference names an exposed value, which is of a live resource to begin with; a slot has a name of its own | `ReferencesResolve` in DeclLoad; a provider exposes what it has |
| `DaysAreNumbers`, `EntriesAreEntries` | day 0 is the zero time; entries are what their types say | |
| `PercentagesAreNumbers`, `TextsAreWords` | certainties are 1 to 100; texts are sequences of words | `resolution.go` refuses others |
| `DocumentsAreTrees` | a document has a root, and what holds what is under it | the decoders make nothing else |
| `OpsAreWellFormed` | an op is one of the thirteen, with paths, and a tree where it writes a value | `parseOp` refuses others |
| `SchemasAreFormed` | the arms of a node-kind union are a sequence of names, and imports a sequence of files and names | `schema/read.go` decodes arrays |
| `ValidityIsGated` | what the old schema accepts states a version, and what the new one accepts states the target's | `Execute`'s gate (`ir/execute.go:41`), and that the new schema is one |
| `FilesAreFiles`, `DirectoriesAreSequences`, `FilesAreListed`, `RegistriesAreSequences`, `SubjectFilesAreListed`, `IdsArePairs` | files, directories, registries and the ids of entries are of their types | |

A theorem that needs more of the constants says so in its `ASSUME ... PROVE`, and
each of these hypotheses has instances among the runs that meet it: `DerivationsMatch`
(`checkDerived` refuses the rest), `FieldsAreAlwaysGiven`, `WhatRefersIsCompared`,
`UnmanagedMatchesKeys` and `WhatSlotsMatchIsWritten` (section 5 says what they leave
out), `PlaceholderIsNoTerm`, `ScalarsAreBeside` (the embedding looks for scalars in the imports of
a schema wherever they are, the interpreter in one directory: section 5). MCLoad,
MCProject and MCRecords assume them, so TLC evaluates them.

### The declarations

- **DeclExecute_proofs**, the order: `UpsertsAlwaysFirst`, `CreationsAlwaysFirst`, from
  `PlansStayInOrder`. The properties speak of complete plans, so they are not
  inductive: `OrderInv` states them of the prefix taken so far. For upserts the
  prefix is not enough either: an upsert still to be taken could follow a delete
  already taken. `UpsertsStuck` says that once a delete is taken no upsert left
  can be ready, now or later. It holds because `Precedes` puts classes first, so a
  delete is taken only when no upsert is ready, and taking a delete makes no
  creation, so it readies nothing. With it, and with the fact that a complete
  plan leaves nothing to take, the order follows. `PutInPlace` permutes deletes
  among the places of deletes, which neither are upserts nor creations.
  `UsersAlwaysGoFirst`: `PlacingInv` speaks of the places filled so far: they are the
  first ones, each holds a delete of the plan not placed elsewhere, and its users
  that the plan deletes are placed before it. The last fact needed is that when
  all are placed, every resource deleted is.
  `TypeCorrect` and `AppliesCreateOnlyDeclared`, which says that a step of the command
  brings into being only resources its set declares: every change, and every write
  made of one, that is not a delete or unclaim is of a declared resource, back to
  the differences.
- **DeclExecute_proofs**, the execution: `ValuesAreWrittenInTime`. `ExecuteInv` says that while a
  plan executes, `created` holds the creations of every change before `at`; with
  `CreationsAlwaysFirst` a change's own needs are then among them.
  `OnlyDataIsWritten`: `DataInv` follows a value from the provider to the provider.
  What is live and exposed is data; what a comparison remembers of it is data, while
  it changes underneath; an upsert carries data, or pending values that its
  `holds` names; a deferred change carries its slot; what is realized carries data.
  The hard step is the middle one: no reference and no reason is left in a change,
  because `Expected` resolves the one and the other keeps a child out of it.
  `OrderIsEnough`: with `DataInv`, `ExecuteInv` and the order, `LeavesOutField` is the
  one way left to "a bug in the plan's order". `FieldsAreAlwaysGiven` excludes it; the
  run `project_optional` is what happens without.
- **DeclExecute_proofs**, what is taken away: `AppliesDeleteOnlyUnclaimed` and `AppliesUnclaimOnlyStale`.
  The properties speak of a step, what makes them hold happened many steps before:
  `ClaimsInv` says that while there is a plan every change of it, and every write
  made of one, is justified by what the comparison it came from remembers (which
  resources were listed, claimed, unmanaged, declared). It holds because what
  `Compare` remembers is replaced only together with the changes, because an apply
  that drops a claim leaves fewer claims to contradict a delete, because no
  difference of a declared resource asks for its deletion, and because a deferred
  change becomes writes of children only: the slots of a loaded set name
  collections of their target, the conjunct of `LoadChecked` that DeclLoad gives.
  `AppliesLeaveTheRestAlone`, of a project's apply. A write finds a child by its key, and
  what lies at the key may have changed since it was read. So `RestInv` says of the key
  that it may go (`MayGo`): no child with it is left alone, expected, or covered by a
  slot that gave nothing to go by. And no other write may lose a key: what a
  creation is made of has the key it is made at (`KeepsItsKey`), also once its pending
  values are realized, and the field an update sets is no key field, because a key
  field that differed would have made the two different children (`UpdatesKeepKeys`).
  What a deferred change deletes may go because no two slots cover one child, nothing
  a slot covers is declared by hand or left alone, and the slot itself was pending,
  so that nothing it derives was expected.

- **DeclReview_proofs**: `WhatRunsWasReviewed`, the property the two commands exist
  for. `Accept` compares identifiers, not plans, and an identifier holds files, reads
  and differences but no exposed value, which may have changed since. The proof
  is that the changes of a plan are nevertheless a function of its identifier:
  `ChangesTold` computes them from it, and `ReviewInv` says that it gives the changes
  of the plan being made and those of the plan reviewed. A value expected is
  either the live one, which the reads hold, or shown in a difference; so a change's
  fields can be read off both (`PatchedFrom`). What is not compared shows in no
  difference: `WhatRefersIsCompared` asks that it refers to nothing. That all of the
  changes are in the plan once the deletes are placed is a pigeonhole argument
  (`PuttingInPlaceKeepsEveryChange`). The theorem is about projects (`~Account`):
  the identifier of an account plan hashes neither the claims nor who owns what.
- **DeclCourse_proofs**, **DeclSuffices_proofs**: `OneApplyIsEnough`, the promise of the design document ("One
  apply runs everything"): what an undisturbed apply of a project leaves, its closing
  comparison finds matching. `calm` says that it was undisturbed (no drift, no edit, no
  creator since the load, nothing unresolved when it was planned), but the provider
  still assigns values, at once, late, before or after they are read. The invariant
  (`MendsInv`) is that the command is `OnCourse`, with four parts of the situation: what is live (`L`),
  the exposed values known to it (`X`), the changes still to be made (`D`, the writes
  left of an expanded one among them) and the slots that still wait (`W`).
  `ComesRight`: every declared resource is live or a change left makes it; each of its
  fields is what is declared, or a change left sets it or makes the resource; every declared
  child is live under its key with its fields, or a change left makes or mends it;
  every live child is declared, or a change left drops it, or a waiting slot covers it, or an
  unmanaged entry leaves it alone; and what a change left drops, nothing declared asks for.
  `Faithful`: a change says of what it writes what the declaration says, each value as it is
  known now or pending. `SlotsDerive`: a slot not waiting is resolved.
  The course begins with a comparison (`CourseBegins`): of each kind of thing that is not
  as declared there is a difference, and of each difference a change.
  A write keeps it (`WritingKeepsCourse`): what it makes is right from then on, and the other changes left
  neither need what it replaced nor undo it. A deferred change keeps it
  when it expands (`ExpandingComesRight`): its slot has derived, its children are declared like any other,
  and the deletes among its writes are of covered children that it does not give.
  A value assigned keeps it (`KnowingMore`): what was pending in a key gets known, and the
  key is then no live child's. That is what `Recycles` denies: a provider that assigned a
  value an old child still holds would have two children under one key, one to be made
  and one to be dropped (`project_recycled`, section 5). Where two declared children turn out
  to have one key (`Clash`), there is nothing right to come to, and no comparison that knows it goes on.
  At the end nothing is left in `D` and `W`, so that what is live is as declared, which is
  what each kind of difference denies (`NothingDiffers`). Of the earlier
  invariants it uses all: data, order, what was reviewed, what may be taken away. New are
  `KeysInv` (children keep their keys, live ones apart), `ReadInv` (an undisturbed
  comparison's memory is still so when it is used; what it read as absent may have been
  assigned since, and is then in no live child) and `PlanInv` (a plan has each change once).

### The records

- **Records_proofs**, Lifecycle: `ReleasesImplementTheLedger`, the refinement: the initial
  record holds nothing, only `Release` changes what is released, it keeps
  `Permanent(released)`, and what it releases is sound, of which no two facts
  contradict (`SoundRecordsAreConsistent`). `OwnersAreForGood` speaks of every
  earlier release, where the code compares with the last: `KeptIsReleased` says
  that all that was ever kept is in the last one. `RecordsStayOwned` from
  `WritersOwn`, which adds that a tool about to write has its directory.
  `OneIsInEffect` and `ActivationsHandOver` from `RecordInv`, the type of the record
  and `Sound(record)`: a mutation is adopted only when sound, and two periods in
  effect on one day overlap. That an activation hands over takes more: the one
  identity open before is closed on the day the new one begins, and any other
  that covered a day is left as it was.
  `ConfidentialDaysAreThoseSquashed` is about one function, `ProprietaryPeriods`, which
  merges the proprietary periods of all licenses from the first to the last. What
  it has merged (`MergedOf`) are periods in order with a day between each and the
  next, which together cover the days of those merged and no other; that survives
  one more period because this one starts no earlier than any before it: it begins
  inside the last one, or adjoins it, or is a new one. Sets of periods with
  equal starts are merged in any order, and the result is the same days. The history adds
  that a record has finitely many licenses (`FinitelyLicensed`).
- **Records_proofs**, Resolutions: `WhatIsPublishedWasJudged`. The store loses
  additions, since two tools each write the whole of what they read; the property
  survives it because `JudgedInv` holds of every copy: each resolution in the store, or
  held by a tool, names a hit that was judged. A hand in the file changes how certain
  a resolution is and not what it is for, and what is too uncertain is refused by the
  load: `ReadersHoldAccepted`. `CommitsCarryNoTerm`: `CommittedInv`, and that redaction leaves no
  term, which is where `PlaceholderIsNoTerm` enters.
- **Records_proofs**, Options: neither property is about history, and the proofs are about
  one function, `Reach`, which the code computes in rounds. `ReachIsLeast`: what it
  returns is closed under requirements, and in every closed set that holds the direct
  ones. Closed, because a round that adds nothing leaves it closed for good, and
  there are as many rounds as options (the induction is FoldTheory's, over rounds).
  `RequirementsHaveAnOrder`: the rank of an option is the number of those it reaches,
  which grows along requirements when none reaches itself; a ring's members reach one
  another, so one is in a cycle reported. `DependentsFollow`: the options switched off are the
  first one and its dependents; that no two entries without a scope name one option
  (`EntriesAreDistinct`) is what makes the one the rule saw the one in effect.

### The commands

- **Commands_proofs**, DeclLoad: `LoadGivesCheckedSets` and `LoadGivesOneSource`, for all files
  and all slots, from `DerivationsMatch`, which both name. The invariant is that a
  loaded set is what `Load` made of some directory of files hands may write, which it
  accepted. The rest is in `Accepts`: a slot kept is one checked, so it matches key
  fields only; two matchers of key fields that both match one key are compatible,
  which `NoneContend` refuses. `OneOwnerIsLeft`, of any slots: not both
  of two that contend are kept, for the same reason; if neither is, each gave way,
  and not both to the other, so one of them to a third.
- **Commands_proofs**, the rest: `RunsBlockNoOther`: `GenInv` adds that between unlocking and
  writing a file stays writable, wherever an earlier run stopped.
  `CheckedAgree`: `CheckedInv` says that while the verdict stands, what check looked at would
  still pass; so a validator's text is what gen would make of the sources now, and
  what it embeds, though only the imports and the files that register scalars, gives
  the types and scalars that the whole directory gives (`EmbeddedIsEnough`).
  `RefusalsChangeNothing`, `SweepsAreCurrent`: `MigrateInv` says that each output
  computed is current, line by line, and that a dry run does not sweep. That an output is current rests on chains that end where they
  are to (`ChainsEndWhereTheyAreTo`) and on what folding a document through one gives.
  `GreenDiffsAreEarned`, `GreenDiffsMigrate`: `DiffInv` says a verdict's claims are those
  of its question; the rest is that no claim kind is left unscanned. The second is about
  all that migrate does with a file (`MigrateFile`), its refusals by version included. A document
  at the migration's version is refused by none of these: what comes out of the ops is of
  the target version (`ValidityIsGated`), which the document is not, and from its version
  the chain is that one migration (`OneMigrationIsItsChain`, two rounds of the fold `Follow`).
  Of a document at another version nothing is promised, and nothing holds: `repository_wrong_from`.

### The documents

- **Documents_proofs**, MigrateOps: `OpsAreUndone`. A document is a function from paths, and
  what an inverse gives back is compared as a whole: at each path the node that was
  there, and no path more. So the proof is about what lies where: what is put under a path is found there
  again and nothing else is touched (`PutThenTake`), and what a move takes away is all that
  was there (`MovesAreUndone`). It needs that
  documents are trees, because what lies under a path that does not exist would
  survive its removal and come back with it. `DocumentsStayTrees` is that invariant: each of the
  thirteen ops keeps the parents of what it keeps. An array also stays
  numbered without gaps, which a wrap and its inverse rely on; `remove_where` renumbers what
  it keeps, and what that is a fold says.
- **Documents_proofs**, Validation: `ArmsComeInAnyOrder`. A schema with the arms of its node-kind unions in
  the opposite order has the same types but for these arms (`TurnedTypesAreOwn`), also
  those it imports. No two arms of an accepted one are of one category, so whichever is
  looked at first, the same one is taken (`TurnedKindArm`): that is what authoring
  refuses the others for, and where an overlap it accepts would show. From there the
  two walks are compared fold by fold: dereferencing, arriving at a type,
  visiting a breadth. Where two folds have steps that agree on what they are given,
  they are one (`FoldsAgree`). What is reported of a node, and which constraints are
  violated, follow.
- **FoldTheory**: a fold of the community modules picks, by CHOOSE, some
  function that satisfies its recursion equation; nothing says that there is one. The
  module proves it once for all folds over finite sets, by well-founded
  induction on subsets (`FoldsUnroll`), and for sequences taken from the back
  (`IntervalsUnroll`), with the step and the pick as CONSTANTS, so that a proof
  instantiates it where the library's induction, which takes an operator, cannot
  be. `InductionOverSubsets` is that induction by itself, of a set of subsets;
  `FoldsAgree` says that two folds whose steps agree are equal. Its instances are
  a document along a chain (`Through`), the chain itself (`Follow`), what options reach (`Reach`),
  merged periods (`MergeFold`), what `remove_where` keeps (`KeptFold`), and four folds of validation:
  the pool of types, dereferencing, arriving and visiting.

### Only model-checked

- `OneApplySuffices` of the account repository (run `account`): `OneApplyIsEnough` is about projects.
- `AcceptedDocumentsConform`, `NothingIsLeftOut`: Conformance (`Fits`) and DocDiffs (`Walk`,
  `ReadBack`) declare recursive operators: they hold no theorem, and no module with
  theorems reaches them.
- `KeepsMatching`: liveness under fairness, out of the prover's reach as is `ENABLED`.

## 5. Where code and documents disagree

| Run | Disagreement |
|---|---|
| `project_optional` | an undeclared compared field that is live makes every apply stop with "a bug in the plan's order" (`pending.go:342`), though the order is right |
| `project_recycled` | a provider that assigns a value an old child still names: the apply creates the child and deletes it; a second apply is needed, against "One apply runs everything" (`src/DESIGN.md:332`) |
| `project_unshown` | a deferred change deletes covered children the dry run did not show (`pending.go:444`, `src/DESIGN.md:331`) |
| `account_claimed_late` | a resource claimed by its creator after the claims were loaded is deleted (`src/CHANGELOG.md:41`) |
| `account_owner_declared` | a live address whose declared owner is not live is deleted (`compare.go:788`, the comment of `Owning`) |
| `repository_failed_sweep` | a migrate run that fails in its sweep leaves the documents before the failure migrated (`migrate_diff.go:119`), against "any failure anywhere leaves zero changes on disk" (`.strictmetadata/docs/DESIGN.md:500`); running it again is refused at the first of them |
| `repository_wrong_from` | a migration from a version that no document has is green over them all, though the green light is over "the documents the migration will actually meet" (`.strictmetadata/docs/DESIGN.md:608`): diff applies its ops without comparing `from`, and migrate, which chooses its chain by it (`migrate_diff.go:339`), refuses them |

Noticed and not a run of its own: `NeverOutOfOrder` holds in the run `project`
because no drift there sets an undeclared field, the one case of
`project_optional`; `OneApplySuffices` holds there because the provider does not
recycle (`Recycles = FALSE`), the one case of `project_recycled`. Both are stated
where they fail. `OrderIsEnough` proves the first under `FieldsAreAlwaysGiven`, which
says just that, and `OneApplyIsEnough` the second under `~Recycles`. `GreenCorporaMigrate`
speaks of documents at the migration's version, the ones `repository_wrong_from` is not about.

What a schema accepts is laid down in `appendix-semantics.md`, and the code parts from it
in the following. None has a run of its own; together they are the cases that
`AcceptedDocumentsConform` exempts by name (`Overlooked`, `NothingOverlooked`,
`WalkedAsMeant`). The run `repository` reaches each of them (save a root that is a union): with the case
struck out of those definitions it finds the property violated. Except for the arms of unions
all make the code accept more than the appendix does, so that the other direction,
that what is meant is accepted, is checked with no exemption for them.

| Case | The appendix | The code |
|---|---|---|
| `set-coverage`, `named-reference-must-resolve`, `cross-collection-unique` | exclude trees by evidence (`:286` to `:288`) | parsed, their evidence loaded (`handlers.go:265`), never run: no case in the `switch` at `constraints.go:16`; a schema of the repository's own tests states one (`testdata/fixtures/_schemas/rlsbl-changelog-commit-mode.toml:87`) |
| `ranges-disjoint` | "each range is FIRST well-formed per ordered-pair (start < end)" (`:274`) | a range of length zero or less is accepted (`constraints.go:154`); so is one whose end wraps in 64 bits, whatever it overlaps |
| `unique-by` | "excludes trees with a duplicate key" (`:272`) | a key that is not a string is passed over (`constraints.go:114`) |
| `pairwise-distinct`, `collections-disjoint` | "any repeat" (`:273`), "an element appears in both arrays" (`:270`) | an element that is not a string is passed over (`constraints.go:364`) |
| `ordered-pair` | "the scalars' natural order" (`:275`) | only numbers are compared (`values.go:112`): two dates pass in any order |
| intra-document references | "excludes trees with a dangling in-document reference" (`:276`) | nothing is looked up in a collection that is absent (`constraints.go:203`), nor what is neither a string, an array of strings nor a map |
| a name no type has | "A dangling name is `STRICTSPEC_SCHEMA_UNKNOWN_TYPE_REF`" (`:90`) | nothing emits the code: the name is walked as a scalar's, and skipped (`walk.go:35`, `scalars.go:49`; `todo/unknown-type-ref-silently-accepted.md` describes it too) |
| an arm of a node-kind union that is itself a union, nullable or opaque | "the disjoint union of arm sets, keyed by node kind" (`:113`) | the arm is taken for a scalar's (`union.go:16`), and the records and arrays it accepts find no arm |

One more is below the level of `Meets`, which looks a field up by its name as the code
does: aliases are not to "change the accepted set of VALUES" (`:204`), and a constraint does
not see a field that the document spells by an alias (`values.go:153`).

Read in the code and not a run, either because no sentence of the repository says
otherwise or because it lies below the level of the modules:

- where a chain of slots yields and only its neighbours overlap (relay to mail, mail
  to cdn), the middle one is dropped, and so is the one that was dropped for it: a
  set is accepted in which the record relay and mail would derive is derived by
  nobody, though "one fixed owner rule decides which file owns a record two
  services would derive" (`src/DESIGN.md:340`). It is reached in `MCLoad`, and it is
  the exemption of a third slot in `ContendersLeaveOneOwner`;
- a plan's identifier holds no exposed value (`compare.go`, `planID`): a reference in a
  field that is not compared (create-only, or beside a child's key and compared
  fields) may resolve to another value when the plan is applied, and the identifier
  does not show it. `WhatRunsWasReviewed` has `WhatRefersIsCompared` for that reason;
- a child declared by hand is compared with what slots match as it is written
  (`load.go:499`): a key field that refers to a value matches nothing. Where that value
  turns out to be one a pending slot matches, the deferred change lists the child as
  one the slot covers and deletes it, although "a hand-declared child sharing a derived
  child's key is one the slot covers" (`load.go:572`) is what the load relies on.
  `AppliesLeaveTheRestAlone` has `WhatSlotsMatchIsWritten` for that reason;
- an unmanaged entry may match compared fields that are no key fields (`load.go:322`): a
  child may become one to leave alone after it was read, and is deleted by its key all
  the same. Hence `UnmanagedMatchesKeys`;
- the chain of migrations is chosen greedily (`migrate_diff.go:339`): a dead end is
  taken though another chain reaches the target. Modelled, with a directory where
  it happens; the run is refused;
- a document edited between its reading and its rename loses the edit; what
  replaces it is current all the same (`SweptDocumentsAreCurrent`);
- the declared `format_version` is exempt from "unknown field" only in a root record,
  not under a root that is a discriminated union;
- migrate's own conditions and validation's differ on absent fields;
- an aggregate over documents (`count-limit`, `sum-limit`) whose evidence is not supplied is not
  asked about (`constraints.go:292`, `constraints.go:309`);
- `unique-by` is parsed on any type (`schema/read.go:232`) and enforced on records only: on an
  array's own type it serves doc-diff alone, which matches by it (`docdiff.go:133`). Where
  keys repeat, which there and for keys that are not strings no document is refused for,
  doc-diff matches several elements with the last of their key, and a reader cannot tell
  from the deltas what became of the others; an old element without a key is in no delta
  at all (`docdiff.go:160`). No sentence of the repository promises more.
  `NothingIsLeftOut` has `KeysTellApart` for that reason;
- a field's aliases are bound by name only in emitted binders (`emit.go:247`);
- JSONL corpus files are skipped (`diffeng/engine.go:280`), and the hash of a corpus
  is of a second read (`engine.go:53`); an adjudication is matched without its
  schema's name and versions;
- `.gitattributes` is searched for a rule as a substring, so an output whose path is
  the end of another's gets none (`SuffixOf` in Generated models it);
- scalars bound from embedded files and from the directory differ when an import
  lies in another directory; a type a schema declares shadows an imported one.

## 6. Not modelled

- Parsers (`jsondoc`, `tomldoc`, `dpath`, `strdecode`), writers, rendering, diagnostics'
  wording, generated tables and `interp`: text, character by character, and no
  property of the system's state depends on more of it than a model value carries.
- Splices of bytes in TOML documents: they can fail where a JSON splice does not.
- Lexeme grammars, regular expressions, dates and custom-scalar rules of
  validation: a scalar type is a class and a set of values.
- The text of emitted structs and binders, `export`, and the compiling of
  generated code by its language's tools.
- The certificate's self-validation and hash; the parsing of adjudication and
  migration files and their authoring checks.
- Flags and output of `validate`, `doc-diff`, `export` and the declarations'
  subcommands; `FindRoot`, `FindProject`, `Init` and the rendering of an import.
- Loading: names and places of files, companions, what a schema refuses, and the
  refusals only a bug in a tool's `Decode` gives; `LoadClaims`.
- Decryption and hashing in `confidential`: external.

## 7. Plan

Done: the declarations' loading, comparison, plan and execution; the record, resolutions,
options, generated files; migrations, migrate, diff, validation, doc-diff; the
proofs of section 4. Next, most important first:

1. Proofs: `OneApplySuffices` of the account repository, where the lists and claims are
   differences too.
2. **DeclReviewed**, the abstract promise of an apply (a reviewed plan, then its
   changes in order, each made or the apply stopped), and DeclApply shown to
   implement it: `WhatRunsWasReviewed` and `CreationsAlwaysFirst` are its steps.
3. **ClaimsFile**: `RenameClaim`, `ListImportable`.
4. **DeclTwo**: two commands at once, which nothing locks.
5. `ComputeJSONL` in DocDiffs; the authoring checks of migration files.
