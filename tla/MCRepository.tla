------------------------------ MODULE MCRepository -----------------------------
(***************************************************************************)
(* The components beside the engine that plans and applies, checked side   *)
(* by side: the first state chooses one, it runs, and the others rest in a *)
(* fixed state, so that their states add up and do not multiply.           *)
(***************************************************************************)
EXTENDS MCRecords, MCDocuments, MCLoad

CONSTANT Parts  \* the components to check
VARIABLE part   \* the one that runs

Parts_ == {"lifecycle", "resolutions", "options", "generated", "load", "ops", "migrate", "diff", "documents"}
ASSUME PartsAreParts == Parts \subseteq Parts_

LifecycleRests ==
  /\ record = EmptyRecord /\ held = "no" /\ file = NoFile /\ manifest = "none"
  /\ released = EmptyRecord /\ kept = {} /\ used = [mutations |-> 0, handEdits |-> 0, failures |-> 0]
ResolutionsRest ==
  /\ settings = "no setting" /\ list = [state |-> "missing", entries |-> {}] /\ text \in {t \in Texts : Len(t.lines) = 1}
  /\ store = {} /\ storeOwner = "none" /\ tool = [c \in Tools |-> Idle] /\ judged = {} /\ published = {}
  /\ spent = [listed |-> 0, judged |-> 0, tampered |-> 0, texts |-> 0]
OptionsRest ==
  /\ registry = <<Declares("a", OnOff, "on", NoScope, <<>>)>>
  /\ subjects = [f \in DOMAIN SubjectFiles |-> <<>>] /\ invalid = {}
GeneratedRests ==
  /\ manifestFile = [there |-> FALSE, schemas |-> <<>>] /\ sources = <<>> /\ outputs = <<>> /\ rules = {}
  /\ gen = NoGen /\ checked = "void" /\ edits = 0 /\ faults = 0
LoadRests == declarations = <<>> /\ loaded = NotLoaded /\ writes = 0
OpsRest == tree = V1 /\ applied = 0
MigrateRests ==
  /\ files = [p \in Paths |-> FileOf("json", <<V1>>)] /\ temporaries = {} /\ directory = <<M13>>
  /\ run = Resting /\ before = files /\ counts = [runs |-> 0, faults |-> 0, edits |-> 0]
DiffRests ==
  /\ asked = [corpus |-> {}, migration |-> NoMigration, old_version |-> "1", same_version |-> FALSE,
              adjudication |-> [entries |-> {}]]
  /\ verdict = NoVerdict
DocumentsRest == schema = Notes /\ document = V1 /\ original = V1 /\ edited = 0

RepositoryInit ==
  /\ part \in Parts
  /\ IF part = "lifecycle"   THEN LifecycleInit   ELSE LifecycleRests
  /\ IF part = "resolutions" THEN ResolutionsInit ELSE ResolutionsRest
  /\ IF part = "options"     THEN OptionsInit     ELSE OptionsRest
  /\ IF part = "generated"   THEN GeneratedInit   ELSE GeneratedRests
  /\ IF part = "load"        THEN LoadInit   ELSE LoadRests
  /\ IF part = "ops"         THEN OpsInit         ELSE OpsRest
  /\ IF part = "migrate"     THEN MigrateInit     ELSE MigrateRests
  /\ IF part = "diff"        THEN DiffInit        ELSE DiffRests
  /\ IF part = "documents"   THEN DocDiffInit     ELSE DocumentsRest


\* A step of one component, the others at rest.
TheRest  == <<lifecycleVars, resolutionsVars, optionsVars, generatedVars>>
Records  == <<TheRest, loadVars>>
Analyses == <<opsVars, migrateVars, diffVars, docDiffVars>>
Lifecycle(A) ==
  part = "lifecycle" /\ A /\ UNCHANGED <<part, resolutionsVars, optionsVars, generatedVars, loadVars, Analyses>>
Resolutions(A) ==
  part = "resolutions" /\ A /\ UNCHANGED <<part, lifecycleVars, optionsVars, generatedVars, loadVars, Analyses>>
Options(A) ==
  part = "options" /\ A /\ UNCHANGED <<part, lifecycleVars, resolutionsVars, generatedVars, loadVars, Analyses>>
Generated(A) ==
  part = "generated" /\ A /\ UNCHANGED <<part, lifecycleVars, resolutionsVars, optionsVars, loadVars, Analyses>>
Declaring(A) ==
  part = "load" /\ A /\ UNCHANGED <<part, TheRest, Analyses>>
Migrating(A) ==
  part = "migrate" /\ A /\ UNCHANGED <<part, opsVars, diffVars, docDiffVars, Records>>
Diffing(A) ==
  part = "diff" /\ A /\ UNCHANGED <<part, opsVars, migrateVars, docDiffVars, Records>>

RepositoryNext ==
  \/ Lifecycle(LoadRecord) \/ Lifecycle(OpenPeriod) \/ Lifecycle(ClosePeriod)
  \/ Lifecycle(AddIdentity) \/ Lifecycle(CloseIdentity)
  \/ Lifecycle(\E v \in Versions, d \in Days : Activate(v, d))
  \/ Lifecycle(AddRegistryName) \/ Lifecycle(AddUnversionedTag)
  \/ Lifecycle(WriteManifest) \/ Lifecycle(WriteRecord) \/ Lifecycle(WriteFails)
  \/ Lifecycle(Release) \/ Lifecycle(HandEdit)
  \/ \E c \in Tools : Resolutions(ReadAll(c)) \/ Resolutions(JudgeOne(c)) \/ Resolutions(WriteStore(c))
                        \/ Resolutions(Publish(c)) \/ Resolutions(GiveUp(c))
  \/ Resolutions(\E e \in Entries : ListAn(e))
  \/ Resolutions(ListLost) \/ Resolutions(Tamper) \/ Resolutions(Rewrite)
  \/ Options(WriteEntry) \/ Options(SpoilDocument)
  \/ Generated(GenStart) \/ Generated(GenLoad) \/ Generated(GenEmbed) \/ Generated(GenOpen)
  \/ Generated(GenWrite) \/ Generated(GenSeal) \/ Generated(GenAttributes) \/ Generated(GenFails)
  \/ Generated(InitManifest) \/ Generated(Check) \/ Generated(Edit)
  \/ Declaring(WriteFile) \/ Declaring(RemoveFile) \/ Declaring(Load)
  \/ Migrating(Begin) \/ Migrating(Compute) \/ Migrating(Sweep) \/ Migrating(WriteTemporary)
  \/ Migrating(Rename) \/ Migrating(Finish) \/ Migrating(WriteFault) \/ Migrating(EditFile)
  \/ part = "ops"       /\ OpsNext     /\ UNCHANGED <<part, migrateVars, diffVars, docDiffVars, Records>>
  \/ Diffing(Certify) \/ Diffing(Adjudicate)
  \/ part = "documents" /\ DocDiffNext /\ UNCHANGED <<part, opsVars, migrateVars, diffVars, Records>>

RepositorySpec == RepositoryInit /\ [][RepositoryNext]_<<part, Records, Analyses>>
===============================================================================
