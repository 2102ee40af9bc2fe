------------------------------- MODULE Lifecycle -------------------------------
(***************************************************************************)
(* A repository's lifecycle-and-license record (go/lifecycle): dated       *)
(* periods of each subject's status, license and identities, the registry  *)
(* names it holds and the tags that release no version; the mutators, each *)
(* adopted only when the result is sound; Write; and the rules, among them *)
(* the permanent ones, evaluated against the record of the last release.   *)
(*                                                                         *)
(* Tables are sets: their order matters to no rule.  A day is a number, 0  *)
(* the zero time.  Reasons are left out, and an identity's tag patterns    *)
(* are the tags they match.                                                *)
(***************************************************************************)
EXTENDS Integers, FiniteSets, FiniteSetsExt, Sequences, SequencesExt

CONSTANTS
  Days,             \* the dates of the record, positive numbers
  RegistryScoped,   \* the facets kept per registry
  LifecyclePeriods, \* [subject, value, from, until]: what OpenPeriod may open
  LicensePeriods,   \* the same, value being a license
  Identities,       \* [subject, facet, value, registry, tags, from, until, version]
  RegistryNames,    \* [registry, name, subject]: what AddRegistryName may record
  UnversionedTags,  \* what AddUnversionedTag may record
  DeclaredSubjects, \* the releasables and members the repository declares
  IdentifyingOutputs, PlainOutputs,  \* outputs that name the repository, and others
  MaxMutations, MaxHandEdits, MaxWriteFailures  \* bounds

ASSUME DaysAreNumbers == Days \subseteq Nat \ {0}

PeriodType == [subject: STRING, value: STRING, from: Nat, until: Nat]
VersionType == {""} \cup STRING
IdentityType ==
  [subject: STRING, facet: STRING, value: STRING, registry: STRING, tags: SUBSET STRING,
   from: Nat, until: Nat, version: VersionType]
NameType == [registry: STRING, name: STRING, subject: STRING]
TagType  == UnversionedTags \cup {"no file"}
RecordType ==
  [lifecycle: SUBSET PeriodType, licenses: SUBSET PeriodType, identities: SUBSET IdentityType,
   names: SUBSET NameType, tags: SUBSET TagType]

ASSUME EntriesAreEntries ==
  /\ LifecyclePeriods \subseteq PeriodType /\ LicensePeriods \subseteq PeriodType
  /\ Identities \subseteq IdentityType /\ RegistryNames \subseteq NameType
  /\ DeclaredSubjects \subseteq STRING

VARIABLES
  record,    \* the record a tool holds
  held,      \* a tool holds one: "no", "yes", or "writing" once its directory is ready
  file,      \* the record on disk, or NoFile
  manifest,  \* the directory's manifest: "none", "strictspec" or "other"
  released,  \* the record as it stood at the last release
  kept,      \* all that any release had recorded for good
  used       \* how much of each bound is used

lifecycleVars == <<record, held, file, manifest, released, kept, used>>

EmptyRecord ==
  [lifecycle |-> {}, licenses |-> {}, identities |-> {}, names |-> {}, tags |-> {}]
NoFile == [EmptyRecord EXCEPT !.tags = {"no file"}]

-------------------------------------------------------------------------------
(***************************************************************************)
(* Periods.                                                                *)
(***************************************************************************)
Open(p)        == p.until = 0
Covers(p, d) == p.from <= d /\ (Open(p) \/ d < p.until)

EndsBefore(p, q) == ~Open(p) /\ p.until <= q.from
\* A mutant: the end of an open period, the zero time, is compared as a date.
OverlapsWhenClosed(p, q) == p.from < q.until /\ q.from < p.until

Overlaps(p, q)   == ~EndsBefore(p, q) /\ ~EndsBefore(q, p)

IsPending(id) == id.version # ""

\* The registry counts only for a registry-scoped facet (Fills).
IdentityKey(id) ==
  <<id.subject, id.facet, IF id.facet \in RegistryScoped THEN id.registry ELSE "">>
SubjectOf(p) == p.subject

-------------------------------------------------------------------------------
(***************************************************************************)
(* structuralProblems.  Two open periods of one key always overlap.        *)
(***************************************************************************)
PeriodsSound(periods, KeyOf(_)) ==
  /\ \A p \in periods : Open(p) \/ p.from <= p.until
  /\ \A p, q \in periods : p # q /\ KeyOf(p) = KeyOf(q) => ~Overlaps(p, q)

Dated(r)   == {id \in r.identities : ~IsPending(id)}
Pendings(r) == {id \in r.identities : IsPending(id)}

IdentitySound(id) ==
  /\ id.facet \in RegistryScoped => id.registry # ""
  /\ IsPending(id) <=> id.from = 0
  /\ IsPending(id) => Open(id)

Sound(r) ==
  /\ PeriodsSound(r.lifecycle, SubjectOf)
  /\ PeriodsSound(r.licenses, SubjectOf)
  /\ \A id \in r.identities : IdentitySound(id)
  /\ PeriodsSound(Dated(r), IdentityKey)
  /\ \A i, j \in Pendings(r) : i # j => IdentityKey(i) # IdentityKey(j)
  /\ \A m, n \in r.names : m # n => <<m.registry, m.name>> # <<n.registry, n.name>>

\* Validate, beyond that: who an open or pending entry may name.
Retired(r) == {p.subject : p \in {q \in r.lifecycle : q.value = "retired"}}
Valid(r) ==
  /\ Sound(r)
  /\ \A p \in {q \in r.lifecycle \cup r.licenses \cup r.identities : Open(q)} :
        p.subject \in DeclaredSubjects \cup Retired(r)

-------------------------------------------------------------------------------
(***************************************************************************)
(* The rules.                                                              *)
(***************************************************************************)
InEffect(periods, subject, d) == {p \in periods : p.subject = subject /\ Covers(p, d)}

IsProprietary(p) == p.value = "proprietary"
Confidential(r, d) == \E p \in r.licenses : IsProprietary(p) /\ Covers(p, d)

VisibilityAllowed(r, visibility, d) ==
  IF Confidential(r, d) THEN visibility = "private" ELSE visibility = "public"

PublicOutputAllowed(r, subject, d) ==
  \A p \in InEffect(r.licenses, subject, d) : ~IsProprietary(p)

PrivateRepositoryOutputAllowed(r, output, visibility, d) ==
  output \in IdentifyingOutputs => ~Confidential(r, d) /\ visibility = "public"

PublishAllowed(r, subject, output, visibility, d) ==
  /\ PublicOutputAllowed(r, subject, d)
  /\ PrivateRepositoryOutputAllowed(r, output, visibility, d)

StatusOn(r, subject, d, everReleased) ==
  LET periods == InEffect(r.lifecycle, subject, d)
  IN IF periods # {} THEN (CHOOSE p \in periods : TRUE).value
     ELSE IF everReleased THEN "active" ELSE "unreleased"

ReleaseAllowed(r, subject, d, everReleased) ==
  StatusOn(r, subject, d, everReleased) = "active"

\* ProprietaryPeriods: by their first day, each merged with the last range when
\* it starts in it or just after it.

\* A mutant: the period merged last decides where the range ends.
LastUntil(p, q)  == q.until
LaterUntil(p, q) == IF Open(p) \/ Open(q) THEN 0 ELSE Max({p.until, q.until})

MergeRange(ranges, p) ==
  IF ranges # <<>> /\ (Open(Last(ranges)) \/ p.from <= Last(ranges).until)
  THEN [ranges EXCEPT ![Len(ranges)].until = LaterUntil(Last(ranges), p)]
  ELSE Append(ranges, [from |-> p.from, until |-> p.until])

StartsLast(periods) == CHOOSE p \in periods : \A q \in periods : q.from <= p.from
ProprietaryPeriods(r) ==
  MapThenFoldSet(LAMBDA p, ranges : MergeRange(ranges, p), <<>>, LAMBDA p : p, StartsLast,
                 {p \in r.licenses : IsProprietary(p)})

\* TagOwner: the subjects whose dated identities match a tag of that day; the
\* rule names an owner only when there is one.
TagOwners(r, tag, d) == {id.subject : id \in {i \in Dated(r) : tag \in i.tags /\ Covers(i, d)}}

\* What a record holds for good: its registry names and its closed periods.
Permanent(r) ==
  {<<"name", n>> : n \in r.names}
    \cup {<<"lifecycle", p>> : p \in {q \in r.lifecycle : ~Open(q)}}
    \cup {<<"licenses", p>> : p \in {q \in r.licenses : ~Open(q)}}
    \cup {<<"identities", i>> : i \in {j \in Dated(r) : ~Open(j)}}

\* A mutant: the closed periods of identities are not compared.
CheckAppendOnlyPeriods(r, previous) ==
  {f \in Permanent(previous) : f[1] # "identities"} \subseteq Permanent(r)

CheckAppendOnly(r, previous) == Permanent(previous) \subseteq Permanent(r)

-------------------------------------------------------------------------------
(***************************************************************************)
(* Load, the mutators and Write.                                           *)
(***************************************************************************)
LifecycleInit ==
  /\ record = EmptyRecord /\ held = "no"
  /\ file = NoFile /\ manifest \in {"none", "other"}
  /\ released = EmptyRecord /\ kept = {}
  /\ used = [mutations |-> 0, handEdits |-> 0, failures |-> 0]

Use(what) == used' = [used EXCEPT ![what] = @ + 1]

AsLoaded(f) == IF f = NoFile THEN EmptyRecord ELSE f

LoadRecord ==
  /\ held = "no" /\ Sound(AsLoaded(file))
  /\ record' = AsLoaded(file) /\ held' = "yes"
  /\ UNCHANGED <<file, manifest, released, kept, used>>

\* edit: the result is adopted when it is sound, and nothing changes otherwise.
Adopt(next) ==
  /\ held = "yes" /\ used.mutations < MaxMutations /\ Use("mutations")
  /\ Sound(next) /\ record' = next
  /\ UNCHANGED <<held, file, manifest, released, kept>>

\* An entry the table holds already is refused as overlapping or recorded twice.
AddTo(table, e) == e \notin record[table] /\ Adopt([record EXCEPT ![table] = @ \cup {e}])

OpenPeriod ==
  \/ \E p \in LifecyclePeriods : AddTo("lifecycle", p)
  \/ \E p \in LicensePeriods : AddTo("licenses", p)

\* AddIdentity and AddPendingIdentity.
AddIdentity == \E id \in Identities : AddTo("identities", id)

AddRegistryName ==
  \E n \in RegistryNames : AddTo("names", n)
AddUnversionedTag ==
  \E t \in UnversionedTags : AddTo("tags", t)

Closed(p, d) == [p EXCEPT !.until = d]
ReplaceIn(table, p, q) == [record EXCEPT ![table] = (@ \ {p}) \cup {q}]

ClosePeriod ==
  \E table \in {"lifecycle", "licenses"}, d \in Days :
    \E p \in {q \in record[table] : Open(q)} : Adopt(ReplaceIn(table, p, Closed(p, d)))

CloseIdentity ==
  \E d \in Days : \E p \in {q \in Dated(record) : Open(q)} :
    Adopt(ReplaceIn("identities", p, Closed(p, d)))

\* A mutant: an open identity is looked for by its facet alone.
OpenOfFacet(r, begins) ==
  {id \in Dated(r) : Open(id) /\ \E b \in begins : b.facet = id.facet}
OpenBefore(r, begins) ==
  {id \in Dated(r) : Open(id) /\ \E b \in begins : IdentityKey(b) = IdentityKey(id)}

\* ActivatePendingIdentities: what a release of the version does.
Begun(id, d) == [id EXCEPT !.from = d, !.version = ""]
Activated(r, version, d) ==
  LET begins == {id \in Pendings(r) : id.version = version}
      ends == OpenBefore(r, begins)
  IN [r EXCEPT !.identities = (@ \ (begins \cup ends)) \cup {Begun(id, d) : id \in begins}
                                 \cup {Closed(id, d) : id \in ends}]

Activate(version, d) ==
  /\ \E id \in Pendings(record) : id.version = version
  /\ Adopt(Activated(record, version, d))
Versions == {id.version : id \in Identities} \ {""}

\* A mutant: the record is written before its directory is claimed.
WriteManifestLast ==
  /\ held = "yes" /\ manifest # "other"
  /\ held' = "writing" /\ file' = record
  /\ UNCHANGED <<record, manifest, released, kept, used>>

\* Write: the manifest, unless it is there, and then the record.  A second
\* write that fails, or a tool that dies before it, leaves the first; after either
\* end the tool holds no record any more.
WriteManifest ==
  /\ held = "yes" /\ manifest # "other"
  /\ held' = "writing" /\ manifest' = "strictspec"
  /\ UNCHANGED <<record, file, released, kept, used>>

WriteRecord ==
  /\ held = "writing"
  /\ file' = record /\ held' = "no" /\ record' = EmptyRecord
  /\ UNCHANGED <<manifest, released, kept, used>>

WriteFails ==
  /\ held = "writing" /\ used.failures < MaxWriteFailures /\ Use("failures")
  /\ held' = "no" /\ record' = EmptyRecord
  /\ UNCHANGED <<file, manifest, released, kept>>

-------------------------------------------------------------------------------
(***************************************************************************)
(* Around the package: releases, and hands in the file.                    *)
(***************************************************************************)
Release ==
  /\ held = "no" /\ Valid(AsLoaded(file)) /\ AsLoaded(file) # released
  /\ CheckAppendOnly(AsLoaded(file), released)
  /\ \E s \in DeclaredSubjects, d \in Days :
        ReleaseAllowed(AsLoaded(file), s, d, released # EmptyRecord)
  /\ released' = AsLoaded(file)
  /\ kept' = kept \cup Permanent(AsLoaded(file))
  /\ UNCHANGED <<record, held, file, manifest, used>>

\* An entry taken out, or put under another subject, or the whole file deleted.
HandEdit ==
  /\ file # NoFile /\ used.handEdits < MaxHandEdits /\ Use("handEdits")
  /\ \/ file' = NoFile
     \/ \E table \in DOMAIN file : \E e \in file[table] :
          file' = [file EXCEPT ![table] = @ \ {e}]
     \/ \E table \in DOMAIN file \ {"tags"} : \E e \in file[table], s \in DeclaredSubjects :
          file' = [file EXCEPT ![table] = (@ \ {e}) \cup {[e EXCEPT !.subject = s]}]
  /\ UNCHANGED <<record, held, manifest, released, kept>>

LifecycleNext ==
  \/ LoadRecord
  \/ OpenPeriod \/ ClosePeriod
  \/ AddIdentity \/ CloseIdentity
  \/ \E v \in Versions, d \in Days : Activate(v, d)
  \/ AddRegistryName \/ AddUnversionedTag
  \/ WriteManifest \/ WriteRecord \/ WriteFails
  \/ Release \/ HandEdit

LifecycleSpec == LifecycleInit /\ [][LifecycleNext]_lifecycleVars

-------------------------------------------------------------------------------
(***************************************************************************)
(* Properties.                                                             *)
(***************************************************************************)
\* On no day two statuses or two licenses of a subject are in effect, or two
\* identities of one facet, whatever was opened, closed and activated, in any
\* order: what LicenseOn, LifecycleOn and openIdentity find first is all there is.
InEffectOnce ==
  \A d \in Days :
    /\ \A p, q \in record.licenses : 
         p.subject = q.subject /\ Covers(p, d) /\ Covers(q, d) => p = q
    /\ \A p, q \in record.lifecycle : 
         p.subject = q.subject /\ Covers(p, d) /\ Covers(q, d) => p = q
    /\ \A i, j \in Dated(record) :
         IdentityKey(i) = IdentityKey(j) /\ Covers(i, d) /\ Covers(j, d) => i = j

\* Two facts that are held for good contradict each other: a registry name under two
\* subjects, or two closed periods of one key that share a day.
PeriodsClash(p, q, KeyOf(_)) == p # q /\ KeyOf(p) = KeyOf(q) /\ Overlaps(p, q)
FactsContradict(f, g) ==
  /\ f[1] = g[1]
  /\ CASE f[1] = "name" -> f[2] # g[2] /\ f[2].registry = g[2].registry /\ f[2].name = g[2].name
       [] f[1] \in {"lifecycle", "licenses"} -> PeriodsClash(f[2], g[2], SubjectOf)
       [] OTHER -> PeriodsClash(f[2], g[2], IdentityKey)

\* What the releases hold for good is a ledger: although the permanent rules look at the
\* last release only, and hands and failed writes are in the file between two of them,
\* no release takes a fact out, changes one or contradicts one.
Releases == INSTANCE PermanentFacts WITH facts <- Permanent(released), Contradict <- FactsContradict
ReleasesAreALedger == Releases!OnlyEntered

\* The owner a closed identity gave a tag at any release is never another subject's
\* at a later one: it is the same, or the rule refuses to name one.
OwnersStay ==
  \A f \in kept : f[1] = "identities" =>
    \A tag \in f[2].tags, d \in Days :
      Covers(f[2], d) => f[2].subject \in TagOwners(released, tag, d)

\* A release that starts pending identities leaves no day without an identity that had
\* one: the identity it ends and the one it begins meet on the day of the release.
ActivationHandsOver ==
  [][held = "yes" /\ held' = "yes" /\ Pendings(record') # Pendings(record) /\ Pendings(record') \subseteq Pendings(record) =>
       \A i \in Dated(record), d \in Days :
         Covers(i, d) =>
           \E j \in Dated(record') : IdentityKey(j) = IdentityKey(i) /\ Covers(j, d)]_lifecycleVars

\* The ranges to squash are the confidential days, each range whole: in order, none
\* touching the next.  On none of them, whatever GitHub says, is an output allowed
\* that names the repository.
ConfidentialDaysAreSquashed ==
  LET ranges == ProprietaryPeriods(record)
  IN /\ \A i \in DOMAIN ranges, j \in DOMAIN ranges :
          i < j => ~Open(ranges[i]) /\ ranges[i].until < ranges[j].from
     /\ \A d \in Days :
          /\ Confidential(record, d) <=> \E i \in DOMAIN ranges : Covers(ranges[i], d)
          /\ Confidential(record, d) =>
               \A s \in DeclaredSubjects, o \in IdentifyingOutputs, v \in {"public", "private", "unknown"} :
                 ~PublishAllowed(record, s, o, v, d)

\* A record the package wrote lies in a directory its manifest says is strictspec's,
\* wherever a write failed.
RecordsAreOwned == file # NoFile => manifest = "strictspec"
===============================================================================
