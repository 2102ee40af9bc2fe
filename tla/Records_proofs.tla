----------------------------- MODULE Records_proofs ----------------------------
(***************************************************************************)
(* Theorems of the records a repository keeps.  Of the lifecycle record:   *)
(* its releases implement the ledger, an owner stays the owner, one period *)
(* is in effect at a time, the ranges to squash are the confidential days, *)
(* and what the package wrote lies in a directory of its own.  Of the      *)
(* resolutions of confidential hits: what is published was judged, and     *)
(* what is committed carries no term.  Of the options: an accepted         *)
(* registry has an order, and what depends on an option that is switched   *)
(* off is off.                                                             *)
(***************************************************************************)
EXTENDS Lifecycle, Resolutions, Options, SequenceTheorems, FiniteSetTheorems, TLAPS

-------------------------------------------------------------------------------
(***************************************************************************)
(* The ledger.  Only Release changes the released record, and what it      *)
(* releases is sound: no two facts of a sound record contradict.           *)
(***************************************************************************)
LEMMA EmptyRecordHoldsNothing == Permanent(EmptyRecord) = {}
  BY DEF Permanent, EmptyRecord, Dated

LEMMA SoundRecordsAreConsistent ==
  ASSUME NEW r, Sound(r), NEW f \in Permanent(r), NEW g \in Permanent(r)
  PROVE  ~FactsContradict(f, g)
<1>1. CASE f[1] = "name"
  <2> SUFFICES ASSUME FactsContradict(f, g) PROVE FALSE
    OBVIOUS
  <2>1. g[1] = "name"
    BY <1>1 DEF FactsContradict
  <2>2. f[2] \in r.names /\ g[2] \in r.names
    BY <1>1, <2>1 DEF Permanent
  <2>3. f[2] # g[2] /\ f[2].registry = g[2].registry /\ f[2].name = g[2].name
    BY <1>1 DEF FactsContradict
  <2> QED
    BY <2>2, <2>3 DEF Sound
<1>2. CASE f[1] = "lifecycle"
  <2> SUFFICES ASSUME FactsContradict(f, g) PROVE FALSE
    OBVIOUS
  <2>1. g[1] = "lifecycle" /\ PeriodsClash(f[2], g[2], SubjectOf)
    BY <1>2 DEF FactsContradict
  <2>2. f[2] \in r.lifecycle /\ g[2] \in r.lifecycle
    BY <1>2, <2>1 DEF Permanent
  <2> QED
    BY <2>1, <2>2 DEF Sound, PeriodsSound, PeriodsClash
<1>3. CASE f[1] = "licenses"
  <2> SUFFICES ASSUME FactsContradict(f, g) PROVE FALSE
    OBVIOUS
  <2>1. g[1] = "licenses" /\ PeriodsClash(f[2], g[2], SubjectOf)
    BY <1>3 DEF FactsContradict
  <2>2. f[2] \in r.licenses /\ g[2] \in r.licenses
    BY <1>3, <2>1 DEF Permanent
  <2> QED
    BY <2>1, <2>2 DEF Sound, PeriodsSound, PeriodsClash
<1>4. CASE f[1] = "identities"
  <2> SUFFICES ASSUME FactsContradict(f, g) PROVE FALSE
    OBVIOUS
  <2>1. g[1] = "identities" /\ PeriodsClash(f[2], g[2], IdentityKey)
    BY <1>4 DEF FactsContradict
  <2>2. f[2] \in Dated(r) /\ g[2] \in Dated(r)
    BY <1>4, <2>1 DEF Permanent
  <2> QED
    BY <2>1, <2>2 DEF Sound, PeriodsSound, PeriodsClash
<1> QED
  BY <1>1, <1>2, <1>3, <1>4 DEF Permanent

\* The mutators differ in what they adopt.
Mutation == \E next : Adopt(next)

LEMMA StepsOfARecord ==
  ASSUME [LifecycleNext]_lifecycleVars
  PROVE  \/ Mutation \/ LoadRecord \/ WriteManifest \/ WriteRecord \/ WriteFails \/ Release
         \/ HandEdit \/ UNCHANGED lifecycleVars
BY Zenon DEF LifecycleNext, OpenPeriod, ClosePeriod, AddIdentity, CloseIdentity, Activate,
       AddRegistryName, AddUnversionedTag, AddTo, Mutation

LEMMA OnlyReleasesRelease ==
  ASSUME [LifecycleNext]_lifecycleVars
  PROVE  Release \/ UNCHANGED <<released, kept>>
BY StepsOfARecord DEF lifecycleVars, LoadRecord, Mutation, Adopt, WriteManifest, WriteRecord,
       WriteFails, HandEdit

\* Every step of the record is a step of the ledger of what is released for good, or
\* leaves it as it is (CheckAppendOnly, go/lifecycle/rules.go).
THEOREM ReleasesImplementTheLedger == LifecycleSpec => ReleasesAreALedger
<1>1. LifecycleInit => Releases!NothingEntered
  BY EmptyRecordHoldsNothing DEF LifecycleInit, Releases!NothingEntered
<1>2. [LifecycleNext]_lifecycleVars => [Releases!Enter]_(Permanent(released))
  <2> SUFFICES ASSUME [LifecycleNext]_lifecycleVars
               PROVE  Releases!Enter \/ UNCHANGED Permanent(released)
    OBVIOUS
  <2>1. CASE Release
    <3>1. Permanent(released) \subseteq Permanent(released)'
      BY <2>1 DEF Release, CheckAppendOnly
    <3>2. Sound(released)'
      BY <2>1 DEF Release, Valid
    <3>3. Releases!Consistent(Permanent(released)')
      BY <3>2, SoundRecordsAreConsistent DEF Releases!Consistent
    <3> QED
      BY <3>1, <3>3 DEF Releases!Enter
  <2>2. CASE UNCHANGED <<released, kept>>
    BY <2>2 DEF Permanent, Dated
  <2> QED
    BY <2>1, <2>2, OnlyReleasesRelease
<1> QED
  BY <1>1, <1>2, PTL DEF LifecycleSpec, ReleasesAreALedger, Releases!OnlyEntered

-------------------------------------------------------------------------------
(***************************************************************************)
(* Owners.  What any release held for good the last one holds.             *)
(***************************************************************************)
KeptIsReleased == kept \subseteq Permanent(released)

LEMMA KeptStaysReleased ==
  ASSUME KeptIsReleased, [LifecycleNext]_lifecycleVars
  PROVE  KeptIsReleased'
<1>1. CASE Release
  BY <1>1 DEF KeptIsReleased, Release, CheckAppendOnly
<1>2. CASE UNCHANGED <<released, kept>>
  BY <1>2 DEF KeptIsReleased, Permanent, Dated
<1> QED
  BY <1>1, <1>2, OnlyReleasesRelease

LEMMA KeptOwnersOwn ==
  ASSUME KeptIsReleased
  PROVE  OwnersStay
<1> SUFFICES ASSUME NEW f \in kept, f[1] = "identities", NEW tag \in f[2].tags, NEW d \in Days,
                    Covers(f[2], d)
             PROVE  f[2].subject \in TagOwners(released, tag, d)
  BY DEF OwnersStay
<1>1. f[2] \in Dated(released)
  BY DEF KeptIsReleased, Permanent
<1> QED
  BY <1>1 DEF TagOwners

\* The owner of a tag that any release recorded in a closed period is the owner at
\* every later release (CheckAppendOnly and TagOwner, go/lifecycle/rules.go).
THEOREM OwnersAreForGood == LifecycleSpec => []OwnersStay
<1>1. LifecycleInit => KeptIsReleased
  BY DEF LifecycleInit, KeptIsReleased
<1> QED
  BY <1>1, KeptStaysReleased, KeptOwnersOwn, PTL DEF LifecycleSpec

-------------------------------------------------------------------------------
(***************************************************************************)
(* The directory.  A tool that writes the record has claimed it before.    *)
(***************************************************************************)
WritersOwn == RecordsAreOwned /\ (held = "writing" => manifest = "strictspec")

\* The record never lies in a directory whose manifest is another's or missing,
\* whatever write fails (Write and manifestNeeded, go/lifecycle/mutate.go).
THEOREM RecordsStayOwned == LifecycleSpec => []RecordsAreOwned
<1>1. LifecycleInit => WritersOwn
  BY DEF LifecycleInit, WritersOwn, RecordsAreOwned
<1>2. WritersOwn /\ [LifecycleNext]_lifecycleVars => WritersOwn'
  <2> SUFFICES ASSUME WritersOwn, [LifecycleNext]_lifecycleVars PROVE WritersOwn'
    OBVIOUS
  <2>1. CASE WriteManifest
    BY <2>1 DEF WriteManifest, WritersOwn, RecordsAreOwned
  <2>2. CASE WriteRecord
    BY <2>2 DEF WriteRecord, WritersOwn, RecordsAreOwned
  <2>3. CASE WriteFails
    BY <2>3 DEF WriteFails, WritersOwn, RecordsAreOwned
  <2>4. CASE HandEdit
    <3>1. file # NoFile /\ held' = held /\ manifest' = manifest
      BY <2>4, Zenon DEF HandEdit
    <3> QED
      BY <3>1 DEF WritersOwn, RecordsAreOwned
  <2>5. CASE Release
    BY <2>5 DEF Release, WritersOwn, RecordsAreOwned
  <2>6. CASE LoadRecord
    BY <2>6 DEF LoadRecord, WritersOwn, RecordsAreOwned
  <2>7. CASE Mutation
    BY <2>7 DEF Mutation, Adopt, WritersOwn, RecordsAreOwned
  <2>8. CASE UNCHANGED lifecycleVars
    BY <2>8 DEF lifecycleVars, WritersOwn, RecordsAreOwned
  <2> QED
    BY <2>1, <2>2, <2>3, <2>4, <2>5, <2>6, <2>7, <2>8, StepsOfARecord
<1>3. WritersOwn => RecordsAreOwned
  BY DEF WritersOwn
<1> QED
  BY <1>1, <1>2, <1>3, PTL DEF LifecycleSpec

-------------------------------------------------------------------------------
(***************************************************************************)
(* One at a time.  The record a tool holds is sound: LoadRecord and Adopt  *)
(* see to it.  That two sound periods share no day is arithmetic, for      *)
(* which the days must be numbers, and so must those of the file.          *)
(***************************************************************************)
LifecycleTypeOK == record \in RecordType /\ file \in RecordType
RecordInv == LifecycleTypeOK /\ Sound(record)

LEMMA EmptyRecordIsSound ==
  EmptyRecord \in RecordType /\ NoFile \in RecordType /\ Sound(EmptyRecord)
<1>1. EmptyRecord \in RecordType
  BY DEF EmptyRecord, RecordType
<1>2. NoFile \in RecordType
  <2>1. "no file" \in TagType
    BY DEF TagType
  <2> QED
    BY <1>1, <2>1 DEF NoFile, RecordType
<1>3. Sound(EmptyRecord)
  BY DEF EmptyRecord, Sound, PeriodsSound, Dated, Pendings
<1> QED
  BY <1>1, <1>2, <1>3

LEMMA ClosedEntriesAreEntries ==
  ASSUME NEW d \in Days
  PROVE  /\ \A p \in PeriodType : Closed(p, d) \in PeriodType
         /\ \A id \in IdentityType : Closed(id, d) \in IdentityType /\ Begun(id, d) \in IdentityType
<1>1. d \in Nat
  BY DaysAreNumbers
<1>2. ASSUME NEW p \in PeriodType PROVE Closed(p, d) \in PeriodType
  BY <1>1 DEF Closed, PeriodType
<1>3. ASSUME NEW id \in IdentityType PROVE Closed(id, d) \in IdentityType
  BY <1>1 DEF Closed, IdentityType
<1>4. ASSUME NEW id \in IdentityType PROVE Begun(id, d) \in IdentityType
  <2>1. "" \in VersionType
    BY DEF VersionType
  <2> QED
    BY <1>1, <2>1 DEF Begun, IdentityType
<1> QED
  BY <1>2, <1>3, <1>4

LEMMA MutationsKeepTheType ==
  ASSUME LifecycleTypeOK,
         \/ OpenPeriod \/ ClosePeriod \/ AddIdentity \/ CloseIdentity \/ AddRegistryName
         \/ AddUnversionedTag \/ \E v \in Versions, d \in Days : Activate(v, d)
  PROVE  LifecycleTypeOK'
<1> USE DEF LifecycleTypeOK
<1>1. CASE OpenPeriod
  <2>1. CASE \E p \in LifecyclePeriods : AddTo("lifecycle", p)
    BY <2>1, EntriesAreEntries DEF AddTo, Adopt, RecordType
  <2>2. CASE \E p \in LicensePeriods : AddTo("licenses", p)
    BY <2>2, EntriesAreEntries DEF AddTo, Adopt, RecordType
  <2> QED
    BY <1>1, <2>1, <2>2 DEF OpenPeriod
<1>2. CASE ClosePeriod
  <2>1. PICK table \in {"lifecycle", "licenses"}, d \in Days :
          \E p \in {q \in record[table] : Open(q)} : Adopt(ReplaceIn(table, p, Closed(p, d)))
    BY <1>2 DEF ClosePeriod
  <2>2. PICK p \in record[table] : Adopt(ReplaceIn(table, p, Closed(p, d)))
    BY <2>1
  <2>3. Closed(p, d) \in PeriodType
    BY ClosedEntriesAreEntries DEF RecordType
  <2>4. ReplaceIn(table, p, Closed(p, d)) \in RecordType
    BY <2>3 DEF ReplaceIn, RecordType
  <2> QED
    BY <2>2, <2>4 DEF Adopt
<1>3. CASE AddIdentity
  BY <1>3, EntriesAreEntries DEF AddIdentity, AddTo, Adopt, RecordType
<1>4. CASE CloseIdentity
  <2>1. PICK d \in Days, p \in Dated(record) : Adopt(ReplaceIn("identities", p, Closed(p, d)))
    BY <1>4 DEF CloseIdentity
  <2>2. Closed(p, d) \in IdentityType
    BY ClosedEntriesAreEntries DEF RecordType, Dated
  <2>3. ReplaceIn("identities", p, Closed(p, d)) \in RecordType
    BY <2>2 DEF ReplaceIn, RecordType
  <2> QED
    BY <2>1, <2>3 DEF Adopt
<1>5. CASE AddRegistryName
  BY <1>5, EntriesAreEntries DEF AddRegistryName, AddTo, Adopt, RecordType
<1>6. CASE AddUnversionedTag
  <2>1. UnversionedTags \subseteq TagType
    BY DEF TagType
  <2> QED
    BY <1>6, <2>1 DEF AddUnversionedTag, AddTo, Adopt, RecordType
<1>7. CASE \E v \in Versions, d \in Days : Activate(v, d)
  <2>1. PICK v \in Versions, d \in Days : Activate(v, d)
    BY <1>7
  <2>2. record.identities \subseteq IdentityType
    BY DEF RecordType
  <2>3. Activated(record, v, d) \in RecordType
    BY <2>2, ClosedEntriesAreEntries DEF Activated, OpenBefore, Dated, Pendings, RecordType
  <2> QED
    BY <2>1, <2>3 DEF Activate, Adopt
<1> QED
  BY <1>1, <1>2, <1>3, <1>4, <1>5, <1>6, <1>7

LEMMA HandsKeepTheType ==
  ASSUME LifecycleTypeOK, HandEdit
  PROVE  LifecycleTypeOK'
<1> USE DEF LifecycleTypeOK
<1>1. record' \in RecordType
  BY Zenon DEF HandEdit
<1>2. CASE file' = NoFile
  BY <1>1, <1>2, EmptyRecordIsSound
<1>3. CASE \E table \in DOMAIN file : \E e \in file[table] : file' = [file EXCEPT ![table] = @ \ {e}]
  BY <1>1, <1>3 DEF RecordType
<1>4. ASSUME NEW table \in DOMAIN file \ {"tags"}, NEW e \in file[table], NEW s \in DeclaredSubjects,
             file' = [file EXCEPT ![table] = (@ \ {e}) \cup {[e EXCEPT !.subject = s]}]
      PROVE  file' \in RecordType
  <2>1. s \in STRING
    BY EntriesAreEntries
  <2>2. CASE table \in {"lifecycle", "licenses"}
    <3>1. e \in PeriodType
      BY <2>2 DEF RecordType
    <3>2. [e EXCEPT !.subject = s] \in PeriodType
      BY <2>1, <3>1 DEF PeriodType
    <3> QED
      BY <1>4, <2>2, <3>2 DEF RecordType
  <2>3. CASE table = "identities"
    <3>1. e \in IdentityType
      BY <2>3 DEF RecordType
    <3>2. [e EXCEPT !.subject = s] \in IdentityType
      BY <2>1, <3>1 DEF IdentityType
    <3> QED
      BY <1>4, <2>3, <3>2 DEF RecordType
  <2>4. CASE table = "names"
    <3>1. e \in NameType
      BY <2>4 DEF RecordType
    <3>2. [e EXCEPT !.subject = s] \in NameType
      BY <2>1, <3>1 DEF NameType
    <3> QED
      BY <1>4, <2>4, <3>2 DEF RecordType
  <2> QED
    BY <2>2, <2>3, <2>4 DEF RecordType
<1>5. \/ file' = NoFile
      \/ \E table \in DOMAIN file : \E e \in file[table] : file' = [file EXCEPT ![table] = @ \ {e}]
      \/ \E table \in DOMAIN file \ {"tags"} : \E e \in file[table], s \in DeclaredSubjects :
           file' = [file EXCEPT ![table] = (@ \ {e}) \cup {[e EXCEPT !.subject = s]}]
  BY Zenon DEF HandEdit
<1> QED
  BY <1>1, <1>2, <1>3, <1>4, <1>5, Zenon

LEMMA StepsKeepTheRecord ==
  ASSUME RecordInv, [LifecycleNext]_lifecycleVars
  PROVE  RecordInv'
<1>1. CASE \/ OpenPeriod \/ ClosePeriod \/ AddIdentity \/ CloseIdentity \/ AddRegistryName
           \/ AddUnversionedTag \/ \E v \in Versions, d \in Days : Activate(v, d)
  <2>1. LifecycleTypeOK'
    BY <1>1, MutationsKeepTheType DEF RecordInv
  <2>2. Mutation
    BY <1>1, Zenon DEF OpenPeriod, ClosePeriod, AddIdentity, CloseIdentity, Activate,
          AddRegistryName, AddUnversionedTag, AddTo, Mutation
  <2>3. Sound(record')
    BY <2>2 DEF Mutation, Adopt
  <2>4. Sound(record)'
    BY <2>3
  <2> QED
    BY <2>1, <2>4 DEF RecordInv
<1>2. CASE HandEdit
  <2>1. LifecycleTypeOK'
    BY <1>2, HandsKeepTheType DEF RecordInv
  <2>2. record' = record
    BY <1>2, Zenon DEF HandEdit
  <2> QED
    BY <2>1, <2>2 DEF RecordInv
<1>3. CASE LoadRecord
  BY <1>3, EmptyRecordIsSound DEF LoadRecord, AsLoaded, RecordInv, LifecycleTypeOK
<1>4. CASE WriteRecord
  BY <1>4, EmptyRecordIsSound DEF WriteRecord, RecordInv, LifecycleTypeOK
<1>5. CASE WriteFails
  BY <1>5, EmptyRecordIsSound DEF WriteFails, RecordInv, LifecycleTypeOK
<1>6. CASE WriteManifest
  BY <1>6 DEF WriteManifest, RecordInv, LifecycleTypeOK
<1>7. CASE Release
  BY <1>7 DEF Release, RecordInv, LifecycleTypeOK
<1>8. CASE UNCHANGED lifecycleVars
  BY <1>8 DEF lifecycleVars, RecordInv, LifecycleTypeOK
<1> QED
  BY <1>1, <1>2, <1>3, <1>4, <1>5, <1>6, <1>7, <1>8, Zenon DEF LifecycleNext

LEMMA DaysInCommonOverlap ==
  ASSUME NEW p, NEW q, NEW d \in Days, Covers(p, d), Covers(q, d),
         p.from \in Nat, p.until \in Nat, q.from \in Nat, q.until \in Nat
  PROVE  Overlaps(p, q)
BY DaysAreNumbers DEF Covers, Open, Overlaps, EndsBefore

LEMMA RecordsHaveOneInEffect ==
  ASSUME RecordInv
  PROVE  InEffectOnce
<1> SUFFICES ASSUME NEW d \in Days
             PROVE  /\ \A p, q \in record.licenses :
                         p.subject = q.subject /\ Covers(p, d) /\ Covers(q, d) => p = q
                    /\ \A p, q \in record.lifecycle :
                         p.subject = q.subject /\ Covers(p, d) /\ Covers(q, d) => p = q
                    /\ \A i, j \in Dated(record) :
                         IdentityKey(i) = IdentityKey(j) /\ Covers(i, d) /\ Covers(j, d) => i = j
  BY DEF InEffectOnce
<1>1. /\ \A p \in record.licenses \cup record.lifecycle : p.from \in Nat /\ p.until \in Nat
      /\ \A i \in Dated(record) : i.from \in Nat /\ i.until \in Nat
  BY DEF RecordInv, LifecycleTypeOK, RecordType, PeriodType, IdentityType, Dated
<1>2. /\ PeriodsSound(record.lifecycle, SubjectOf)
      /\ PeriodsSound(record.licenses, SubjectOf)
      /\ PeriodsSound(Dated(record), IdentityKey)
  BY DEF RecordInv, Sound
<1>3. ASSUME NEW p \in record.licenses, NEW q \in record.licenses,
             p.subject = q.subject, Covers(p, d), Covers(q, d)
      PROVE  p = q
  BY <1>1, <1>2, <1>3, DaysInCommonOverlap DEF PeriodsSound, SubjectOf
<1>4. ASSUME NEW p \in record.lifecycle, NEW q \in record.lifecycle,
             p.subject = q.subject, Covers(p, d), Covers(q, d)
      PROVE  p = q
  BY <1>1, <1>2, <1>4, DaysInCommonOverlap DEF PeriodsSound, SubjectOf
<1>5. ASSUME NEW i \in Dated(record), NEW j \in Dated(record),
             IdentityKey(i) = IdentityKey(j), Covers(i, d), Covers(j, d)
      PROVE  i = j
  BY <1>1, <1>2, <1>5, DaysInCommonOverlap DEF PeriodsSound
<1> QED
  BY <1>3, <1>4, <1>5

LEMMA RecordInvHolds == LifecycleSpec => []RecordInv
<1>1. LifecycleInit => RecordInv
  BY EmptyRecordIsSound DEF LifecycleInit, RecordInv, LifecycleTypeOK
<1> QED
  BY <1>1, StepsKeepTheRecord, PTL DEF LifecycleSpec

\* On no day two statuses, two licenses or two identities of a facet are in effect
\* (structuralProblems, edit and Load, go/lifecycle).
THEOREM OneIsInEffect == LifecycleSpec => []InEffectOnce
BY RecordInvHolds, RecordsHaveOneInEffect, PTL

-------------------------------------------------------------------------------
(***************************************************************************)
(* What to squash.  The proprietary periods are merged one after the       *)
(* other, the one that starts last last: so far, the ranges cover the days *)
(* the periods cover, in order, and none begins after the last period did. *)
(***************************************************************************)
MergeStep(r, ranges, p) == MergeRange(ranges, p)
MergeFold == INSTANCE FoldTheory WITH Op <- MergeStep, Pick <- StartsLast

DayRange == [from : Nat, until : Nat]
EndsAfterItBegins(p) == p.from \in Nat /\ p.until \in Nat /\ (Open(p) \/ p.from <= p.until)
Mergeable(periods) == IsFiniteSet(periods) /\ \A p \in periods : EndsAfterItBegins(p)

InOrder(ranges) ==
  \A i, j \in DOMAIN ranges : i < j => ~Open(ranges[i]) /\ ranges[i].until < ranges[j].from
Cover(ranges, periods) ==
  \A d \in Nat : (\E p \in periods : Covers(p, d)) <=> \E i \in DOMAIN ranges : Covers(ranges[i], d)
MergedOf(periods, ranges) ==
  /\ ranges \in Seq(DayRange) /\ InOrder(ranges) /\ Cover(ranges, periods)
  /\ \A i \in DOMAIN ranges : EndsAfterItBegins(ranges[i]) /\ \E p \in periods : ranges[i].from <= p.from

LEMMA LaterOfTwo ==
  ASSUME NEW p, NEW q, EndsAfterItBegins(p), EndsAfterItBegins(q)
  PROVE  /\ LaterUntil(p, q) \in Nat
         /\ Open(p) \/ Open(q) => LaterUntil(p, q) = 0
         /\ ~Open(p) /\ ~Open(q) => LaterUntil(p, q) = IF p.until >= q.until THEN p.until ELSE q.until
<1> DEFINE m == p.until
           n == q.until
<1>1. m \in Nat /\ n \in Nat
  BY DEF EndsAfterItBegins
<1> HIDE DEF m, n
<1>2. Max({m, n}) = IF m >= n THEN m ELSE n
  <2> DEFINE x == IF m >= n THEN m ELSE n
  <2>1. x \in {m, n} /\ \A y \in {m, n} : x >= y
    BY <1>1
  <2>2. \A z \in {m, n} : (\A y \in {m, n} : z >= y) => z = x
    BY <1>1
  <2> HIDE DEF x
  <2> QED
    BY <2>1, <2>2 DEF Max, x
<1> QED
  BY <1>1, <1>2 DEF LaterUntil, m, n

\* A period that starts in a range, or just after it, makes it longer and leaves no day out.
LEMMA MergedRangeCovers ==
  ASSUME NEW last, EndsAfterItBegins(last), NEW p, EndsAfterItBegins(p), last.from <= p.from,
         Open(last) \/ p.from <= last.until,
         NEW range, range = [from |-> last.from, until |-> LaterUntil(last, p)]
  PROVE  /\ EndsAfterItBegins(range)
         /\ \A d \in Nat : Covers(range, d) <=> Covers(last, d) \/ Covers(p, d)
<1> DEFINE u == LaterUntil(last, p)
<1>1. /\ u \in Nat /\ range.from = last.from /\ range.until = u
      /\ Open(last) \/ Open(p) => u = 0
      /\ ~Open(last) /\ ~Open(p) => u = IF last.until >= p.until THEN last.until ELSE p.until
  BY LaterOfTwo
<1> HIDE DEF u
<1> QED
  BY <1>1 DEF EndsAfterItBegins, Covers, Open

LEMMA OneMoreIsMerged ==
  ASSUME NEW periods, NEW ranges, MergedOf(periods, ranges),
         NEW p, EndsAfterItBegins(p), \A q \in periods : q.from \in Nat /\ q.from <= p.from
  PROVE  MergedOf(periods \cup {p}, MergeRange(ranges, p))
<1> DEFINE n == Len(ranges)
           last == ranges[n]
           all == periods \cup {p}
           next == MergeRange(ranges, p)
           own == [from |-> p.from, until |-> p.until]
           range == [from |-> last.from, until |-> LaterUntil(last, p)]
<1>1. /\ n \in Nat /\ DOMAIN ranges = 1 .. n /\ (ranges = <<>> <=> n = 0) /\ ranges \in Seq(DayRange)
      /\ \A i \in 1 .. n : ranges[i] \in DayRange
  BY DEF MergedOf
<1>2. /\ \A i, j \in 1 .. n : i < j => ~Open(ranges[i]) /\ ranges[i].until < ranges[j].from
      /\ \A i \in 1 .. n : EndsAfterItBegins(ranges[i]) /\ ranges[i].from <= p.from
  <2>1. \A i, j \in 1 .. n : i < j => ~Open(ranges[i]) /\ ranges[i].until < ranges[j].from
    BY <1>1 DEF MergedOf, InOrder
  <2>2. ASSUME NEW i \in 1 .. n PROVE EndsAfterItBegins(ranges[i]) /\ ranges[i].from <= p.from
    <3>1. EndsAfterItBegins(ranges[i]) /\ \E q \in periods : ranges[i].from <= q.from
      BY <1>1 DEF MergedOf
    <3> QED
      BY <3>1 DEF EndsAfterItBegins
  <2> QED
    BY <2>1, <2>2
<1>3. \A d \in Nat : (\E q \in periods : Covers(q, d)) <=> \E i \in 1 .. n : Covers(ranges[i], d)
  BY <1>1 DEF MergedOf, Cover
<1>4. own \in DayRange /\ EndsAfterItBegins(own) /\ \A d : Covers(own, d) <=> Covers(p, d)
  BY DEF EndsAfterItBegins, DayRange, Covers, Open
<1>5. CASE n # 0 /\ (Open(last) \/ p.from <= last.until)
  <2>1. next = [ranges EXCEPT ![n] = [last EXCEPT !.until = LaterUntil(last, p)]]
    BY <1>1, <1>5 DEF MergeRange, Last
  <2>2. n \in 1 .. n /\ last \in DayRange /\ EndsAfterItBegins(last) /\ last.from <= p.from
    BY <1>1, <1>2, <1>5
  <2>3. [last EXCEPT !.until = LaterUntil(last, p)] = range
    <3> DEFINE u == LaterUntil(last, p)
    <3> HIDE DEF u, last
    <3> QED
      BY <2>2 DEF DayRange, u
  <2>4. EndsAfterItBegins(range) /\ \A d \in Nat : Covers(range, d) <=> Covers(last, d) \/ Covers(p, d)
    <3> DEFINE l == last
    <3> HIDE DEF l, last, range
    <3> QED
      BY <1>5, <2>2, MergedRangeCovers DEF range
  <2>5. range \in DayRange /\ range.from = last.from
    BY <2>2, <2>4 DEF DayRange, EndsAfterItBegins
  <2> HIDE DEF next, range
  <2>6. /\ next \in Seq(DayRange) /\ DOMAIN next = 1 .. n
        /\ \A i \in 1 .. n : next[i] = IF i = n THEN range ELSE ranges[i]
    BY <1>1, <2>1, <2>2, <2>3, <2>5
  <2> HIDE DEF last
  <2>7. InOrder(next)
    <3> SUFFICES ASSUME NEW i \in 1 .. n, NEW j \in 1 .. n, i < j
                 PROVE  ~Open(next[i]) /\ next[i].until < next[j].from
      BY <2>6 DEF InOrder
    <3>1. next[i] = ranges[i] /\ i # n
      <4>1. \A k, a, b \in Int : a \in 1 .. k /\ b \in 1 .. k /\ a < b => a # k
        OBVIOUS
      <4> HIDE DEF n
      <4>2. i # n
        BY <1>1, <4>1
      <4> QED
        BY <2>6, <4>2
    <3>2. next[j].from = ranges[j].from
      BY <2>5, <2>6 DEF last
    <3> QED
      BY <1>2, <3>1, <3>2
  <2>8. Cover(next, all)
    <3> SUFFICES ASSUME NEW d \in Nat
                 PROVE  (\E q \in all : Covers(q, d)) <=> \E i \in 1 .. n : Covers(next[i], d)
      BY <2>6 DEF Cover
    <3>1. (\E q \in all : Covers(q, d)) <=> (\E i \in 1 .. n : Covers(ranges[i], d)) \/ Covers(p, d)
      BY <1>3
    <3>2. Covers(next[n], d) <=> Covers(ranges[n], d) \/ Covers(p, d)
      BY <2>2, <2>4, <2>6 DEF last
    <3>3. \A i \in 1 .. n : i # n => next[i] = ranges[i]
      BY <2>6
    <3> QED
      BY <2>2, <3>1, <3>2, <3>3
  <2>9. \A i \in 1 .. n : EndsAfterItBegins(next[i]) /\ \E q \in all : next[i].from <= q.from
    <3> SUFFICES ASSUME NEW i \in 1 .. n PROVE EndsAfterItBegins(next[i]) /\ next[i].from <= p.from
      OBVIOUS
    <3> QED
      BY <1>2, <2>2, <2>4, <2>5, <2>6
  <2> QED
    BY <2>6, <2>7, <2>8, <2>9 DEF MergedOf, next
<1>6. CASE ~(n # 0 /\ (Open(last) \/ p.from <= last.until))
  <2>1. next = Append(ranges, own)
    BY <1>1, <1>6 DEF MergeRange, Last
  <2> HIDE DEF next, own
  <2>2. /\ next \in Seq(DayRange) /\ DOMAIN next = 1 .. n + 1
        /\ (\A i \in 1 .. n : next[i] = ranges[i]) /\ next[n + 1] = own
    BY <1>1, <1>4, <2>1
  <2>3. \A i \in 1 .. n : ~Open(ranges[i]) /\ ranges[i].until < p.from
    <3> SUFFICES ASSUME NEW i \in 1 .. n PROVE ~Open(ranges[i]) /\ ranges[i].until < p.from
      OBVIOUS
    <3>1. n # 0 /\ n \in 1 .. n
      BY <1>1
    <3>2. ~Open(last) /\ last.until < p.from /\ last.from <= last.until
      BY <1>2, <1>6, <3>1 DEF EndsAfterItBegins
    <3>3. CASE i = n
      BY <3>2, <3>3
    <3>4. CASE i # n
      <4>1. \A k \in Nat : \A a \in 1 .. k : a # k => a < k
        OBVIOUS
      <4>2. i < n
        BY <1>1, <3>4, <4>1
      <4>3. ~Open(ranges[i]) /\ ranges[i].until < last.from
        BY <1>2, <3>1, <4>2 DEF last
      <4> QED
        BY <1>2, <3>1, <3>2, <4>3 DEF EndsAfterItBegins
    <3> QED
      BY <3>3, <3>4
  <2> HIDE DEF last
  <2>4. own.from = p.from
    BY DEF own
  <2>5. \A i \in 1 .. n + 1 : i \in 1 .. n \/ i = n + 1
    BY <1>1
  <2>6. InOrder(next)
    <3> SUFFICES ASSUME NEW i \in 1 .. n + 1, NEW j \in 1 .. n + 1, i < j
                 PROVE  ~Open(next[i]) /\ next[i].until < next[j].from
      BY <2>2 DEF InOrder
    <3>1. i \in 1 .. n
      BY <1>1
    <3> QED
      BY <1>2, <2>2, <2>3, <2>4, <2>5, <3>1
  <2>7. Cover(next, all)
    <3> SUFFICES ASSUME NEW d \in Nat
                 PROVE  (\E q \in all : Covers(q, d)) <=> \E i \in 1 .. n + 1 : Covers(next[i], d)
      BY <2>2 DEF Cover
    <3>1. (\E q \in all : Covers(q, d)) <=> (\E i \in 1 .. n : Covers(ranges[i], d)) \/ Covers(own, d)
      BY <1>3, <1>4
    <3>2. n + 1 \in 1 .. n + 1 /\ 1 .. n \subseteq 1 .. n + 1
      BY <1>1
    <3> QED
      BY <2>2, <2>5, <3>1, <3>2
  <2>8. \A i \in 1 .. n + 1 : EndsAfterItBegins(next[i]) /\ \E q \in all : next[i].from <= q.from
    <3> SUFFICES ASSUME NEW i \in 1 .. n + 1 PROVE EndsAfterItBegins(next[i]) /\ next[i].from <= p.from
      OBVIOUS
    <3>1. p.from <= p.from
      BY DEF EndsAfterItBegins
    <3> QED
      BY <1>2, <1>4, <2>2, <2>4, <2>5, <3>1
  <2> QED
    BY <2>2, <2>6, <2>7, <2>8 DEF MergedOf, next
<1> QED
  BY <1>5, <1>6

LEMMA OneStartsLast ==
  ASSUME NEW S, IsFiniteSet(S), \A p \in S : p.from \in Nat, NEW periods \in SUBSET S, periods # {}
  PROVE  StartsLast(periods) \in periods /\ \A q \in periods : q.from <= StartsLast(periods).from
<1> DEFINE HasLast(s) == s # {} => \E p \in s : \A q \in s : q.from <= p.from
           T == {s \in SUBSET S : HasLast(s)}
<1>1. ASSUME NEW s \in SUBSET S, s # {} PROVE \E x \in s : s \ {x} \in T => s \in T
  <2> PICK x \in s : TRUE
    BY <1>1
  <2> SUFFICES ASSUME HasLast(s \ {x}) PROVE HasLast(s)
    OBVIOUS
  <2>1. CASE s \ {x} = {}
    BY <2>1
  <2>2. CASE s \ {x} # {}
    <3>1. PICK p \in s \ {x} : \A q \in s \ {x} : q.from <= p.from
      BY <2>2
    <3>2. x.from \in Nat /\ \A q \in s : q.from \in Nat
      OBVIOUS
    <3>3. CASE x.from <= p.from
      BY <3>1, <3>3
    <3>4. CASE ~(x.from <= p.from)
      BY <3>1, <3>2, <3>4
    <3> QED
      BY <3>3, <3>4
  <2> QED
    BY <2>1, <2>2
<1>2. {} \in T
  OBVIOUS
<1> HIDE DEF T
<1>3. periods \in T
  BY <1>1, <1>2, MergeFold!InductionOverSubsets DEF IsFiniteSet, MergeFold!IsFiniteSet
<1> QED
  BY <1>3 DEF T, StartsLast

ProprietaryOf(r) == {p \in r.licenses : IsProprietary(p)}

LEMMA ProprietaryPeriodsAreMerged ==
  ASSUME NEW r, Mergeable(ProprietaryOf(r))
  PROVE  MergedOf(ProprietaryOf(r), ProprietaryPeriods(r))
<1> DEFINE S == ProprietaryOf(r)
           g == MergeFold!Iter(r, <<>>, S)
           T == {s \in SUBSET S : MergedOf(s, g[s])}
<1>1. ProprietaryPeriods(r) = g[S]
  BY DEF ProprietaryPeriods, ProprietaryOf, MapThenFoldSet, MergeFold!Iter, MergeFold!Equation, MergeStep
<1>2. IsFiniteSet(S) /\ \A p \in S : EndsAfterItBegins(p) /\ p.from \in Nat
  BY DEF Mergeable, EndsAfterItBegins
<1> HIDE DEF S
<1>3. \A s \in SUBSET S : s # {} => StartsLast(s) \in s /\ \A q \in s : q.from <= StartsLast(s).from
  BY <1>2, OneStartsLast
<1>4. MergeFold!Equation(r, <<>>, SUBSET S, g)
  <2>1. MergeFold!Picks(S)
    BY <1>3 DEF MergeFold!Picks
  <2> QED
    BY <1>2, <2>1, MergeFold!FoldsUnroll DEF IsFiniteSet, MergeFold!IsFiniteSet
<1>5. g[{}] = <<>> /\ \A s \in SUBSET S : s # {} => g[s] = MergeRange(g[s \ {StartsLast(s)}], StartsLast(s))
  <2> HIDE DEF g
  <2>1. g = [s \in SUBSET S |-> IF s = {} THEN <<>> ELSE MergeStep(r, g[s \ {StartsLast(s)}], StartsLast(s))]
    BY <1>4 DEF MergeFold!Equation
  <2>2. \A s \in SUBSET S : g[s] = IF s = {} THEN <<>> ELSE MergeStep(r, g[s \ {StartsLast(s)}], StartsLast(s))
    BY <2>1
  <2> QED
    BY <2>2 DEF MergeStep
<1> HIDE DEF g
<1>6. {} \in T
  <2>1. MergedOf({}, <<>>)
    BY DEF MergedOf, InOrder, Cover
  <2> QED
    BY <1>5, <2>1
<1>7. ASSUME NEW s \in SUBSET S, s # {} PROVE \E x \in s : s \ {x} \in T => s \in T
  <2> DEFINE p == StartsLast(s)
             rest == s \ {p}
  <2>1. p \in s /\ \A q \in s : q.from <= p.from
    BY <1>3, <1>7
  <2>2. g[s] = MergeRange(g[rest], p)
    BY <1>5, <1>7
  <2>3. EndsAfterItBegins(p) /\ \A q \in rest : q.from \in Nat /\ q.from <= p.from
    BY <1>2, <2>1
  <2>4. rest \cup {p} = s
    BY <2>1
  <2> HIDE DEF p, rest
  <2>5. ASSUME MergedOf(rest, g[rest]) PROVE MergedOf(s, g[s])
    <3> DEFINE ranges == g[rest]
    <3>1. MergedOf(rest, ranges)
      BY <2>5
    <3> HIDE DEF ranges
    <3>2. MergedOf(rest \cup {p}, MergeRange(ranges, p))
      BY <2>3, <3>1, OneMoreIsMerged
    <3> QED
      BY <2>2, <2>4, <3>2 DEF ranges
  <2>6. s \ {p} \in T => s \in T
    BY <2>5 DEF rest
  <2> QED
    BY <2>1, <2>6
<1>8. S \in T
  <2> HIDE DEF T
  <2> QED
    BY <1>2, <1>6, <1>7, MergeFold!InductionOverSubsets DEF IsFiniteSet, MergeFold!IsFiniteSet
<1> QED
  BY <1>1, <1>8 DEF S

\* The licenses are finitely many: each step records one, or leaves one out.
FinitelyLicensed == RecordInv /\ IsFiniteSet(record.licenses) /\ IsFiniteSet(file.licenses)

LEMMA OneEntryMore ==
  ASSUME NEW r \in RecordType, IsFiniteSet(r.licenses), NEW table, NEW e, NEW q,
         NEW next, \/ next = [r EXCEPT ![table] = @ \cup {q}]
                   \/ next = [r EXCEPT ![table] = @ \ {e}]
                   \/ next = [r EXCEPT ![table] = (@ \ {e}) \cup {q}]
  PROVE  IsFiniteSet(next.licenses)
<1>1. CASE table = "licenses"
  <2>1. next.licenses \in {r.licenses \cup {q}, r.licenses \ {e}, (r.licenses \ {e}) \cup {q}}
    BY <1>1 DEF RecordType
  <2> DEFINE L == r.licenses
  <2>2. IsFiniteSet(L \cup {q})
    BY FS_AddElement
  <2> DEFINE K == L \ {e}
  <2>3. IsFiniteSet(K)
    BY FS_RemoveElement
  <2> HIDE DEF K
  <2>4. IsFiniteSet(K \cup {q})
    BY <2>3, FS_AddElement
  <2> QED
    BY <2>1, <2>2, <2>3, <2>4 DEF K
<1>2. CASE table # "licenses"
  <2>1. next.licenses = r.licenses
    BY <1>2 DEF RecordType
  <2> QED
    BY <2>1
<1> QED
  BY <1>1, <1>2

LEMMA LicensesStayFinite ==
  ASSUME FinitelyLicensed, [LifecycleNext]_lifecycleVars
  PROVE  FinitelyLicensed'
<1>1. RecordInv'
  BY StepsKeepTheRecord DEF FinitelyLicensed
<1>2. record \in RecordType /\ file \in RecordType /\ IsFiniteSet(record.licenses) /\ IsFiniteSet(file.licenses)
  BY DEF FinitelyLicensed, RecordInv, LifecycleTypeOK
<1>3. IsFiniteSet(EmptyRecord.licenses) /\ IsFiniteSet(NoFile.licenses)
  BY FS_EmptySet DEF EmptyRecord, NoFile
<1>4. ASSUME NEW next, Adopt(next), IsFiniteSet(next.licenses)
      PROVE  IsFiniteSet(record'.licenses) /\ IsFiniteSet(file'.licenses)
  BY <1>2, <1>4 DEF Adopt
<1>5. ASSUME NEW table, NEW e, AddTo(table, e)
      PROVE  IsFiniteSet(record'.licenses) /\ IsFiniteSet(file'.licenses)
  <2> DEFINE next == [record EXCEPT ![table] = @ \cup {e}]
  <2>1. Adopt(next) /\ next = [record EXCEPT ![table] = @ \cup {e}]
    BY <1>5 DEF AddTo
  <2> HIDE DEF next
  <2> QED
    BY <1>2, <1>4, <2>1, OneEntryMore
<1>6. ASSUME NEW table, NEW p, NEW q, Adopt(ReplaceIn(table, p, q))
      PROVE  IsFiniteSet(record'.licenses) /\ IsFiniteSet(file'.licenses)
  <2> DEFINE next == ReplaceIn(table, p, q)
  <2>1. next = [record EXCEPT ![table] = (@ \ {p}) \cup {q}]
    BY DEF ReplaceIn
  <2> HIDE DEF next
  <2>2. IsFiniteSet(next.licenses)
    BY <1>2, <2>1, OneEntryMore
  <2> QED
    BY <1>4, <1>6, <2>2 DEF next
<1>7. ASSUME NEW v \in Versions, NEW d \in Days, Activate(v, d)
      PROVE  IsFiniteSet(record'.licenses) /\ IsFiniteSet(file'.licenses)
  <2> DEFINE next == Activated(record, v, d)
  <2>1. Adopt(next)
    BY <1>7 DEF Activate
  <2>2. next.licenses = record.licenses
    BY <1>2 DEF Activated, RecordType
  <2> HIDE DEF next
  <2> QED
    BY <1>2, <1>4, <2>1, <2>2
<1>8. ASSUME HandEdit
      PROVE  IsFiniteSet(record'.licenses) /\ IsFiniteSet(file'.licenses)
  <2>1. record' = record
    BY <1>8, Zenon DEF HandEdit
  <2>2. CASE file' = NoFile
    BY <1>2, <1>3, <2>1, <2>2
  <2>3. ASSUME NEW table, NEW e, NEW q, \/ file' = [file EXCEPT ![table] = @ \ {e}]
                                         \/ file' = [file EXCEPT ![table] = (@ \ {e}) \cup {q}]
        PROVE  IsFiniteSet(file'.licenses)
    BY <1>2, <2>3, OneEntryMore
  <2>4. \/ file' = NoFile
        \/ \E table, e : file' = [file EXCEPT ![table] = @ \ {e}]
        \/ \E table, e, q : file' = [file EXCEPT ![table] = (@ \ {e}) \cup {q}]
    BY <1>8, Zenon DEF HandEdit
  <2>5. IsFiniteSet(file'.licenses)
    BY <2>2, <2>3, <2>4, Zenon
  <2> QED
    BY <1>2, <2>1, <2>5
<1>9. IsFiniteSet(record'.licenses) /\ IsFiniteSet(file'.licenses)
  <2>1. CASE OpenPeriod
    BY <1>5, <2>1, Zenon DEF OpenPeriod
  <2>2. CASE AddIdentity \/ AddRegistryName \/ AddUnversionedTag
    BY <1>5, <2>2, Zenon DEF AddIdentity, AddRegistryName, AddUnversionedTag
  <2>3. CASE ClosePeriod \/ CloseIdentity
    BY <1>6, <2>3, Zenon DEF ClosePeriod, CloseIdentity
  <2>4. CASE LoadRecord
    BY <1>2, <1>3, <2>4 DEF LoadRecord, AsLoaded
  <2>5. CASE WriteManifest
    BY <1>2, <2>5 DEF WriteManifest
  <2>6. CASE WriteRecord
    BY <1>2, <1>3, <2>6 DEF WriteRecord
  <2>7. CASE WriteFails
    BY <1>2, <1>3, <2>7 DEF WriteFails
  <2>8. CASE Release
    BY <1>2, <2>8 DEF Release
  <2>9. CASE UNCHANGED lifecycleVars
    BY <1>2, <2>9 DEF lifecycleVars
  <2> QED
    BY <1>7, <1>8, <2>1, <2>2, <2>3, <2>4, <2>5, <2>6, <2>7, <2>8, <2>9, Zenon DEF LifecycleNext
<1> QED
  BY <1>1, <1>9 DEF FinitelyLicensed

LEMMA ConfidentialDaysAreMerged ==
  ASSUME FinitelyLicensed
  PROVE  ConfidentialDaysAreSquashed
<1> DEFINE S == ProprietaryOf(record)
           ranges == ProprietaryPeriods(record)
<1>1. Mergeable(S)
  <2>1. IsFiniteSet(S)
    <3>1. S \in SUBSET record.licenses /\ IsFiniteSet(record.licenses)
      BY DEF FinitelyLicensed, ProprietaryOf
    <3> QED
      BY <3>1, FS_Subset
  <2>2. \A p \in record.licenses : EndsAfterItBegins(p)
    BY DEF FinitelyLicensed, RecordInv, LifecycleTypeOK, RecordType, PeriodType, Sound, PeriodsSound, EndsAfterItBegins
  <2> QED
    BY <2>1, <2>2 DEF Mergeable, ProprietaryOf
<1>2. MergedOf(S, ranges)
  BY <1>1, ProprietaryPeriodsAreMerged
<1>3. ASSUME NEW d \in Days
      PROVE  Confidential(record, d) <=> \E i \in DOMAIN ranges : Covers(ranges[i], d)
  <2>1. d \in Nat
    BY DaysAreNumbers
  <2>2. Confidential(record, d) <=> \E p \in S : Covers(p, d)
    BY DEF Confidential, ProprietaryOf
  <2> HIDE DEF S, ranges
  <2> QED
    BY <1>2, <2>1, <2>2 DEF MergedOf, Cover
<1>4. ASSUME NEW d \in Days, Confidential(record, d), NEW s \in DeclaredSubjects, NEW o \in IdentifyingOutputs, NEW v
      PROVE  ~PublishAllowed(record, s, o, v, d)
  BY <1>4 DEF PublishAllowed, PrivateRepositoryOutputAllowed
<1> HIDE DEF ranges
<1> QED
  BY <1>2, <1>3, <1>4 DEF MergedOf, InOrder, ConfidentialDaysAreSquashed, ranges

\* The ranges to squash are the confidential days and no others, in order and apart
\* (ProprietaryPeriods, go/lifecycle/rules.go), and on none of them may an output that names
\* the repository be made.
THEOREM ConfidentialDaysAreThoseSquashed == LifecycleSpec => []ConfidentialDaysAreSquashed
<1>1. LifecycleInit => FinitelyLicensed
  BY EmptyRecordIsSound, FS_EmptySet DEF LifecycleInit, FinitelyLicensed, RecordInv, LifecycleTypeOK, EmptyRecord, NoFile
<1> QED
  BY <1>1, LicensesStayFinite, ConfidentialDaysAreMerged, PTL DEF LifecycleSpec

-------------------------------------------------------------------------------
(***************************************************************************)
(* The handover.  Only Activate takes a pending identity away; the open    *)
(* identity of its key ends on the day the pending one begins.             *)
(***************************************************************************)
HandsOver ==
  held = "yes" /\ held' = "yes" /\ Pendings(record') # Pendings(record) /\ Pendings(record') \subseteq Pendings(record) =>
    \A i \in Dated(record), d \in Days :
      Covers(i, d) =>
        \E j \in Dated(record') : IdentityKey(j) = IdentityKey(i) /\ Covers(j, d)

LEMMA ActivateHandsOver ==
  ASSUME RecordInv, NEW version \in Versions, NEW day \in Days, Activate(version, day),
         NEW i \in Dated(record), NEW d \in Days, Covers(i, d)
  PROVE  \E j \in Dated(record') : IdentityKey(j) = IdentityKey(i) /\ Covers(j, d)
<1> DEFINE begins == {id \in Pendings(record) : id.version = version}
           ends   == OpenBefore(record, begins)
<1>1. record' = Activated(record, version, day)
  BY DEF Activate, Adopt
<1>2. record \in RecordType /\ record.identities \subseteq IdentityType
  BY DEF RecordInv, LifecycleTypeOK, RecordType
<1>3. record'.identities = (record.identities \ (begins \cup ends))
                             \cup {Begun(id, day) : id \in begins} \cup {Closed(id, day) : id \in ends}
  BY <1>1, <1>2 DEF Activated, RecordType
<1>4. i \in IdentityType /\ i.version = "" /\ i \in record.identities
  BY <1>2 DEF Dated, IsPending
<1>5. CASE i \notin ends
  <2>1. i \in record'.identities
    BY <1>3, <1>4, <1>5 DEF Pendings, IsPending
  <2> QED
    BY <1>4, <2>1 DEF Dated, IsPending
<1>6. CASE i \in ends /\ d < day
  <2>1. Closed(i, day) \in Dated(record')
    BY <1>3, <1>4, <1>6 DEF Dated, IsPending, Closed, IdentityType
  <2>2. IdentityKey(Closed(i, day)) = IdentityKey(i)
    BY <1>4 DEF IdentityKey, Closed, IdentityType
  <2>3. Covers(Closed(i, day), d)
    BY <1>4, <1>6 DEF Covers, Closed, IdentityType
  <2> QED
    BY <2>1, <2>2, <2>3
<1>7. CASE i \in ends /\ ~(d < day)
  <2>1. PICK b \in begins : IdentityKey(b) = IdentityKey(i)
    BY <1>7 DEF OpenBefore
  <2>2. b \in IdentityType /\ b \in Pendings(record) /\ b \in record.identities
    BY <1>2 DEF Pendings
  <2>3. Open(b)
    BY <2>2 DEF RecordInv, Sound, IdentitySound, Pendings
  <2>4. Begun(b, day) \in record'.identities
    BY <1>3
  <2>5. Begun(b, day) \in Dated(record')
    BY <2>2, <2>4 DEF Dated, IsPending, Begun, IdentityType
  <2>6. IdentityKey(Begun(b, day)) = IdentityKey(b)
    BY <2>2 DEF IdentityKey, Begun, IdentityType
  <2>7. Covers(Begun(b, day), d)
    BY <1>7, <2>2, <2>3, DaysAreNumbers DEF Covers, Begun, Open, IdentityType
  <2> QED
    BY <2>1, <2>5, <2>6, <2>7
<1> QED
  BY <1>5, <1>6, <1>7

LEMMA OtherStepsKeepThePending ==
  ASSUME RecordInv, [LifecycleNext]_lifecycleVars, held = "yes", held' = "yes",
         ~ \E v \in Versions, d \in Days : Activate(v, d)
  PROVE  Pendings(record) \subseteq Pendings(record')
<1>1. record \in RecordType
  BY DEF RecordInv, LifecycleTypeOK
<1>2. CASE OpenPeriod
  BY <1>1, <1>2 DEF OpenPeriod, AddTo, Adopt, Pendings, RecordType
<1>3. CASE ClosePeriod
  <2>1. PICK table \in {"lifecycle", "licenses"}, d \in Days :
          \E p \in {q \in record[table] : Open(q)} : Adopt(ReplaceIn(table, p, Closed(p, d)))
    BY <1>3 DEF ClosePeriod
  <2>2. record'.identities = record.identities
    BY <1>1, <2>1 DEF Adopt, ReplaceIn, RecordType
  <2> QED
    BY <2>2 DEF Pendings
<1>4. CASE AddIdentity
  BY <1>1, <1>4 DEF AddIdentity, AddTo, Adopt, Pendings, RecordType
<1>5. CASE CloseIdentity
  <2>1. PICK d \in Days, p \in Dated(record) : Adopt(ReplaceIn("identities", p, Closed(p, d)))
    BY <1>5 DEF CloseIdentity
  <2>2. record'.identities = (record.identities \ {p}) \cup {Closed(p, d)}
    BY <1>1, <2>1 DEF Adopt, ReplaceIn, RecordType
  <2> QED
    BY <2>2 DEF Pendings, Dated
<1>6. CASE AddRegistryName \/ AddUnversionedTag
  BY <1>1, <1>6 DEF AddRegistryName, AddUnversionedTag, AddTo, Adopt, Pendings, RecordType
<1>7. CASE LoadRecord \/ WriteManifest \/ WriteRecord \/ WriteFails
  BY <1>7 DEF LoadRecord, WriteManifest, WriteRecord, WriteFails
<1>8. CASE Release
  BY <1>8 DEF Release
<1>9. CASE HandEdit
  BY <1>9, Zenon DEF HandEdit
<1>10. CASE UNCHANGED lifecycleVars
  BY <1>10 DEF lifecycleVars
<1> QED
  BY <1>2, <1>3, <1>4, <1>5, <1>6, <1>7, <1>8, <1>9, <1>10, Zenon DEF LifecycleNext

\* A release that starts pending identities leaves no day without an identity that had
\* one (ActivatePendingIdentities, go/lifecycle/mutate.go).
THEOREM ActivationsHandOver == LifecycleSpec => ActivationHandsOver
<1>1. RecordInv /\ [LifecycleNext]_lifecycleVars => HandsOver
  <2> SUFFICES ASSUME RecordInv, [LifecycleNext]_lifecycleVars, held = "yes", held' = "yes",
                      Pendings(record') # Pendings(record), Pendings(record') \subseteq Pendings(record),
                      NEW i \in Dated(record), NEW d \in Days, Covers(i, d)
               PROVE  \E j \in Dated(record') : IdentityKey(j) = IdentityKey(i) /\ Covers(j, d)
    BY DEF HandsOver
  <2>1. PICK v \in Versions, day \in Days : Activate(v, day)
    BY OtherStepsKeepThePending
  <2> QED
    BY <2>1, ActivateHandsOver
<1>2. RecordInv /\ [LifecycleNext]_lifecycleVars => [HandsOver]_lifecycleVars
  BY <1>1
<1> QED
  BY <1>2, RecordInvHolds, PTL DEF LifecycleSpec, ActivationHandsOver, HandsOver

-------------------------------------------------------------------------------
(***************************************************************************)
(* The resolutions.  Whatever copies of them there are, in the file or in  *)
(* a tool, each was made by a tool for a hit of the words it names: a hand *)
(* changes how certain one is and not what it is for.                      *)
(***************************************************************************)
WasJudged(r, judgments) == \E j \in judgments : r.hit = <<j.entry, j.phrase>>

CopiesWereJudged ==
  /\ \A r \in store : WasJudged(r, judged)
  /\ \A c \in Tools : \A r \in tool[c].resolutions : WasJudged(r, judged)

\* What a tool publishes by was accepted when it read the file.
ReadersHoldAccepted ==
  \A c \in Tools : tool[c].phase = "read" => StoreAccepted(tool[c].resolutions)

JudgedInv ==
  /\ DOMAIN tool = Tools /\ \A c \in Tools : DOMAIN tool[c] = DOMAIN Idle
  /\ CopiesWereJudged /\ ReadersHoldAccepted /\ PublishedHitsWereJudged

\* A hit's id is its entry and its words.
LEMMA HitsAreKnownByTheirWords ==
  ASSUME NEW entries, NEW t, NEW h \in Scan(entries, t)
  PROVE  h.id = <<h.entry, h.phrase>> /\ h.where = t.where
<1>1. PICK e \in entries, l \in DOMAIN t.lines :
        \E i \in {j \in DOMAIN t.lines[l] : t.lines[l][j] \in e.matches} :
          h = [id |-> HitID(e, t.lines[l], i), entry |-> e.key, phrase |-> Phrase(t.lines[l], i),
               where |-> t.where, line |-> l]
  BY SMTT(30) DEF Scan
<1> QED
  BY <1>1 DEF HitID

LEMMA ResolvedByACopy ==
  ASSUME NEW h, NEW rs, h \notin Unresolved({h}, rs)
  PROVE  Resolving(h, rs) \in rs /\ Resolving(h, rs).hit = h.id
BY DEF Unresolved, Resolving

LEMMA JudgingKeepsJudged ==
  ASSUME JudgedInv, NEW c \in Tools, JudgeOne(c)
  PROVE  JudgedInv'
<1>1. PICK hit \in Scan(tool[c].entries, text), certainty \in Certainties \cup {Approval}, reason \in Reasons :
        Judge(c, hit, certainty, reason)
  BY DEF JudgeOne
<1> DEFINE r == NewResolution(tool[c].entries, hit, certainty, reason)
           j == [entry |-> hit.entry, phrase |-> hit.phrase, entries |-> tool[c].entries,
                 location |-> r.location, reason |-> r.reason]
<1>2. /\ tool' = [tool EXCEPT ![c].phase = "adding", ![c].resolutions = tool[c].resolutions \cup {r}]
      /\ judged' = judged \cup {j} /\ UNCHANGED <<store, published>>
  BY <1>1, Zenon DEF Judge
<1>3. r.hit = <<j.entry, j.phrase>>
  BY HitsAreKnownByTheirWords DEF NewResolution
<1> HIDE DEF r, j
<1>4. WasJudged(r, judged')
  BY <1>2, <1>3 DEF WasJudged
<1>5. \A s : WasJudged(s, judged) => WasJudged(s, judged')
  BY <1>2 DEF WasJudged
<1>6. CopiesWereJudged'
  BY <1>2, <1>4, <1>5 DEF CopiesWereJudged, JudgedInv, Idle
<1>7. ReadersHoldAccepted'
  BY <1>2 DEF ReadersHoldAccepted, JudgedInv, Idle
<1>8. PublishedHitsWereJudged'
  BY <1>2 DEF PublishedHitsWereJudged, JudgedInv
<1> QED
  BY <1>2, <1>6, <1>7, <1>8 DEF JudgedInv, Idle

LEMMA PublishingKeepsJudged ==
  ASSUME JudgedInv, NEW c \in Tools, Publish(c)
  PROVE  JudgedInv'
<1> DEFINE hits == Scan(tool[c].entries, text)
           rs == tool[c].resolutions
<1>1. tool[c].phase = "read" /\ Unresolved(hits, rs) = {}
  BY DEF Publish
<1>2. /\ published' = published \cup
             {[entry |-> h.entry, phrase |-> h.phrase, certainty |-> Resolving(h, rs).certainty] : h \in hits}
      /\ tool' = [tool EXCEPT ![c] = Idle] /\ UNCHANGED <<store, judged>>
  BY DEF Publish
<1>3. ASSUME NEW h \in hits
      PROVE  /\ Resolving(h, rs).certainty = Approval \/ Resolving(h, rs).certainty >= MinimumCertainty
             /\ \E j \in judged : j.entry = h.entry /\ j.phrase = h.phrase
  <2>1. Resolving(h, rs) \in rs /\ Resolving(h, rs).hit = h.id
    BY <1>1, ResolvedByACopy DEF Unresolved
  <2>2. ResolutionAccepted(Resolving(h, rs))
    BY <1>1, <2>1 DEF JudgedInv, ReadersHoldAccepted, StoreAccepted
  <2>3. WasJudged(Resolving(h, rs), judged)
    BY <2>1 DEF JudgedInv, CopiesWereJudged
  <2>4. h.id = <<h.entry, h.phrase>>
    BY HitsAreKnownByTheirWords
  <2>5. \E j \in judged : j.entry = h.entry /\ j.phrase = h.phrase
    <3>1. PICK j \in judged : h.id = <<j.entry, j.phrase>>
      BY <2>1, <2>3 DEF WasJudged
    <3> QED
      BY <2>4, <3>1
  <2>6. Resolving(h, rs).certainty = Approval \/ Resolving(h, rs).certainty >= MinimumCertainty
    BY <2>2, PercentagesAreNumbers DEF ResolutionAccepted
  <2> QED
    BY <2>5, <2>6
<1>4. PublishedHitsWereJudged'
  <2> SUFFICES ASSUME NEW p \in published'
               PROVE  /\ p.certainty = Approval \/ p.certainty >= MinimumCertainty
                      /\ \E j \in judged : j.entry = p.entry /\ j.phrase = p.phrase
    BY <1>2 DEF PublishedHitsWereJudged
  <2>1. CASE p \in published
    BY <2>1 DEF JudgedInv, PublishedHitsWereJudged
  <2>2. CASE p \notin published
    <3> HIDE DEF hits, rs
    <3>1. PICK h \in hits : p = [entry |-> h.entry, phrase |-> h.phrase, certainty |-> Resolving(h, rs).certainty]
      BY <1>2, <2>2
    <3> QED
      BY <1>3, <3>1
  <2> QED
    BY <2>1, <2>2
<1>5. CopiesWereJudged'
  BY <1>2 DEF JudgedInv, CopiesWereJudged, WasJudged, Idle
<1>6. ReadersHoldAccepted'
  BY <1>2 DEF JudgedInv, ReadersHoldAccepted, Idle
<1> QED
  BY <1>2, <1>4, <1>5, <1>6 DEF JudgedInv, Idle

\* A hand in the file leaves what each resolution is for.
LEMMA HandsKeepJudged ==
  ASSUME JudgedInv, Tamper
  PROVE  JudgedInv'
<1>1. PICK r \in store, certainty \in Certainties :
        store' = (store \ {r}) \cup {[r EXCEPT !.certainty = certainty]}
  BY DEF Tamper
<1>2. UNCHANGED <<tool, judged, published>>
  BY DEF Tamper
<1>3. WasJudged(r, judged)
  BY DEF JudgedInv, CopiesWereJudged
<1>4. [r EXCEPT !.certainty = certainty].hit = r.hit
  OBVIOUS
<1>5. WasJudged([r EXCEPT !.certainty = certainty], judged)
  BY <1>3, <1>4 DEF WasJudged
<1>6. CopiesWereJudged'
  BY <1>1, <1>2, <1>5 DEF JudgedInv, CopiesWereJudged, WasJudged
<1> QED
  BY <1>2, <1>6 DEF JudgedInv, ReadersHoldAccepted, PublishedHitsWereJudged

LEMMA JudgedInvKept ==
  ASSUME JudgedInv, [ResolutionsNext]_resolutionsVars
  PROVE  JudgedInv'
<1>1. ASSUME NEW c \in Tools, ReadAll(c)
      PROVE  JudgedInv'
  <2>1. /\ StoreAccepted(store) /\ UNCHANGED <<store, judged, published>>
        /\ tool' = [tool EXCEPT ![c] = [phase |-> "read", resolutions |-> store,
                                        entries |-> EntriesFor(list.entries, RepositoryNames)]]
    BY <1>1 DEF ReadAll
  <2>2. CopiesWereJudged'
    BY <2>1 DEF JudgedInv, CopiesWereJudged
  <2>3. ReadersHoldAccepted'
    BY <2>1 DEF JudgedInv, ReadersHoldAccepted
  <2> QED
    BY <2>1, <2>2, <2>3 DEF JudgedInv, PublishedHitsWereJudged, Idle
<1>2. ASSUME NEW c \in Tools, WriteStore(c)
      PROVE  JudgedInv'
  BY <1>2 DEF WriteStore, JudgedInv, CopiesWereJudged, ReadersHoldAccepted, PublishedHitsWereJudged, Idle
<1>3. ASSUME NEW c \in Tools, GiveUp(c)
      PROVE  JudgedInv'
  BY <1>3 DEF GiveUp, JudgedInv, CopiesWereJudged, ReadersHoldAccepted, PublishedHitsWereJudged, Idle
<1>4. ASSUME UNCHANGED <<store, tool, judged, published>>
      PROVE  JudgedInv'
  BY <1>4 DEF JudgedInv, CopiesWereJudged, ReadersHoldAccepted, PublishedHitsWereJudged
<1>5. CASE \E e \in Entries : ListAn(e)
  BY <1>4, <1>5 DEF ListAn
<1>6. CASE ListLost \/ Rewrite \/ UNCHANGED resolutionsVars
  BY <1>4, <1>6 DEF ListLost, Rewrite, resolutionsVars
<1> QED
  BY <1>1, <1>2, <1>3, <1>5, <1>6, JudgingKeepsJudged, PublishingKeepsJudged, HandsKeepJudged
  DEF ResolutionsNext

\* Whatever is published, each of its hits was judged for its words by some tool, and
\* what it is passed over by is an approval or certain enough: also when tools write
\* over each other's additions, the list or the text changes, or a hand was in the file.
THEOREM WhatIsPublishedWasJudged == ResolutionsSpec => []PublishedHitsWereJudged
<1>1. ASSUME ResolutionsInit PROVE JudgedInv
  <2>1. tool = [c \in Tools |-> Idle] /\ store = {} /\ published = {}
    BY <1>1 DEF ResolutionsInit
  <2>2. Idle.phase = "idle" /\ Idle.resolutions = {}
    BY DEF Idle
  <2> QED
    BY <2>1, <2>2 DEF JudgedInv, CopiesWereJudged, ReadersHoldAccepted, PublishedHitsWereJudged
<1>2. JudgedInv => PublishedHitsWereJudged
  BY DEF JudgedInv
<1> QED
  BY <1>1, <1>2, JudgedInvKept, PTL DEF ResolutionsSpec

-------------------------------------------------------------------------------
(***************************************************************************)
(* What is committed.  A location is redacted by the entries it was made   *)
(* under, and a reason that carries a term is refused.  Redaction hides    *)
(* every term as long as no entry matches what it writes in its place.     *)
(***************************************************************************)
ListedAreEntries ==
  /\ list.entries \subseteq Entries /\ text \in Texts
  /\ \A c \in Tools : tool[c].entries \subseteq Entries

CommittedInv ==
  /\ DOMAIN tool = Tools /\ \A c \in Tools : DOMAIN tool[c] = DOMAIN Idle
  /\ DOMAIN list = {"state", "entries"}
  /\ ListedAreEntries /\ NoTermIsCommitted

Word == STRING \cup {"[confidential]"}

LEMMA RedactionHidesTerms ==
  ASSUME NEW entries, NEW words \in Seq(STRING), "[confidential]" \notin Matched(entries)
  PROVE  Redact(entries, words) \in Seq(Word) /\ ~CarriesATerm(entries, Redact(entries, words))
<1>1. Redact(entries, words) \in [1..Len(words) -> Word] /\ Len(words) \in Nat
  BY DEF Redact, Word
<1>2. \A i \in DOMAIN words : Redact(entries, words)[i] \notin Matched(entries)
  BY DEF Redact
<1>3. Redact(entries, words) \in Seq(Word)
  BY <1>1, SeqDef
<1> QED
  BY <1>1, <1>2, <1>3 DEF CarriesATerm, Range

LEMMA NeitherPartCarries ==
  ASSUME NEW entries, NEW s \in Seq(Word), NEW t \in Seq(Word),
         ~CarriesATerm(entries, s), ~CarriesATerm(entries, t)
  PROVE  ~CarriesATerm(entries, s \o t)
<1>1. \A i \in DOMAIN (s \o t) : (s \o t)[i] \in Range(s) \cup Range(t)
  BY DEF Range
<1>2. Range(s \o t) \subseteq Range(s) \cup Range(t)
  BY <1>1 DEF Range
<1> QED
  BY <1>2 DEF CarriesATerm

LEMMA JudgingCommitsNoTerm ==
  ASSUME PlaceholderIsNoTerm, CommittedInv, NEW c \in Tools, JudgeOne(c)
  PROVE  CommittedInv'
<1>1. PICK hit \in Scan(tool[c].entries, text), certainty \in Certainties \cup {Approval}, reason \in Reasons :
        Judge(c, hit, certainty, reason)
  BY DEF JudgeOne
<1> DEFINE entries == tool[c].entries
           location == Redact(entries, hit.where)
           j == [entry |-> hit.entry, phrase |-> hit.phrase, entries |-> entries,
                 location |-> location, reason |-> reason]
<1>2. /\ \E all : tool' = [tool EXCEPT ![c].phase = "adding", ![c].resolutions = all]
      /\ judged' = judged \cup {j} /\ ~CarriesATerm(entries, reason) /\ UNCHANGED <<list, text>>
  BY <1>1 DEF Judge, NewResolution
<1>3. "[confidential]" \notin Matched(entries)
  BY DEF PlaceholderIsNoTerm, CommittedInv, ListedAreEntries, Matched
<1>4. hit.where \in Seq(STRING) /\ reason \in Seq(Word)
  <2>1. hit.where = text.where /\ text \in Texts
    BY HitsAreKnownByTheirWords DEF CommittedInv, ListedAreEntries
  <2>2. reason \in Seq(STRING) /\ STRING \subseteq Word
    BY TextsAreWords DEF Word
  <2> QED
    BY <2>1, <2>2, TextsAreWords, SeqMonotonic
<1>5. location \in Seq(Word) /\ ~CarriesATerm(entries, location)
  BY <1>3, <1>4, RedactionHidesTerms
<1>6. ~CarriesATerm(entries, location \o reason)
  BY <1>2, <1>4, <1>5, NeitherPartCarries
<1>7. NoTermIsCommitted'
  <2> HIDE DEF entries, location
  <2> QED
    BY <1>2, <1>6 DEF NoTermIsCommitted, CommittedInv
<1> QED
  BY <1>2, <1>7 DEF CommittedInv, ListedAreEntries, Idle

LEMMA CommittedInvKept ==
  ASSUME PlaceholderIsNoTerm, CommittedInv, [ResolutionsNext]_resolutionsVars
  PROVE  CommittedInv'
<1> USE DEF CommittedInv, ListedAreEntries, NoTermIsCommitted
<1>1. ASSUME NEW c \in Tools, ReadAll(c)
      PROVE  CommittedInv'
  BY <1>1 DEF ReadAll, EntriesFor, Idle
<1>2. ASSUME NEW c \in Tools, WriteStore(c) \/ Publish(c) \/ GiveUp(c)
      PROVE  CommittedInv'
  <2>1. tool' = [tool EXCEPT ![c] = Idle] /\ UNCHANGED <<list, text, judged>>
    BY <1>2, Zenon DEF WriteStore, Publish, GiveUp
  <2> QED
    BY <2>1 DEF Idle
<1>3. ASSUME NEW e \in Entries, ListAn(e)
      PROVE  CommittedInv'
  BY <1>3 DEF ListAn
<1>4. CASE ListLost
  BY <1>4 DEF ListLost
<1>5. CASE Tamper
  BY <1>5 DEF Tamper
<1>6. CASE Rewrite
  BY <1>6 DEF Rewrite
<1>7. CASE UNCHANGED resolutionsVars
  BY <1>7 DEF resolutionsVars
<1> QED
  BY <1>1, <1>2, <1>3, <1>4, <1>5, <1>6, <1>7, JudgingCommitsNoTerm DEF ResolutionsNext

\* No resolution carries a term of the entries it was made under, unless an entry
\* matches the very words a term is replaced by (Redact, go/confidential/match.go).
THEOREM CommitsCarryNoTerm ==
  ASSUME PlaceholderIsNoTerm
  PROVE  ResolutionsSpec => []NoTermIsCommitted
<1>1. ASSUME ResolutionsInit PROVE CommittedInv
  <2>1. /\ tool = [c \in Tools |-> Idle] /\ judged = {} /\ text \in Texts
        /\ list = [state |-> "missing", entries |-> {}]
    BY <1>1 DEF ResolutionsInit
  <2>2. Idle.entries = {}
    BY DEF Idle
  <2> QED
    BY <2>1, <2>2 DEF CommittedInv, ListedAreEntries, NoTermIsCommitted
<1>2. CommittedInv => NoTermIsCommitted
  BY DEF CommittedInv
<1> QED
  BY <1>1, <1>2, CommittedInvKept, PTL DEF ResolutionsSpec

-------------------------------------------------------------------------------
(***************************************************************************)
(* The options.  What optionsReach finds is the least set that holds what  *)
(* an option requires and is closed under requirements: every round adds   *)
(* an option or is closed, and there are as many rounds as options.        *)
(***************************************************************************)
ReachStep(reg, seen, m) == seen \cup UNION {Edges(reg, s) : s \in seen}
OneOf(s) == CHOOSE x \in s : TRUE
ReachFold == INSTANCE FoldTheory WITH Op <- ReachStep, Pick <- OneOf

IsRegistry(reg) == reg \in Seq(Range(reg))

IsClosed(reg, seen) == \A s \in seen : Edges(reg, s) \subseteq seen

LEMMA NamesAreFinite ==
  ASSUME NEW reg, IsRegistry(reg)
  PROVE  /\ IsFiniteSet(Names(reg)) /\ Cardinality(Names(reg)) \in Nat
         /\ Cardinality(Names(reg)) = Len(reg) =>
              \A i, j \in DOMAIN reg : reg[i].name = reg[j].name => i = j
<1> DEFINE name == [i \in 1 .. Len(reg) |-> reg[i].name]
<1>1. DOMAIN reg = 1 .. Len(reg) /\ Len(reg) \in Nat
  BY DEF IsRegistry
<1>2. name \in Surjection(1 .. Len(reg), Names(reg))
  BY <1>1 DEF Surjection, Names
<1>3. IsFiniteSet(1 .. Len(reg)) /\ Cardinality(1 .. Len(reg)) = Len(reg)
  <2> DEFINE k == Len(reg)
  <2>1. k \in Nat
    BY <1>1
  <2> HIDE DEF k
  <2>2. IsFiniteSet(1 .. k) /\ Cardinality(1 .. k) = IF 1 > k THEN 0 ELSE k - 1 + 1
    BY <2>1, FS_Interval
  <2>3. IsFiniteSet(1 .. k) /\ Cardinality(1 .. k) = k
    BY <2>1, <2>2
  <2> QED
    BY <2>3 DEF k
<1>4. /\ IsFiniteSet(Names(reg))
      /\ Cardinality(Names(reg)) = Len(reg) => name \in Injection(1 .. Len(reg), Names(reg))
  BY <1>2, <1>3, FS_Surjection
<1>5. name \in Injection(1 .. Len(reg), Names(reg)) =>
        \A i, j \in DOMAIN reg : reg[i].name = reg[j].name => i = j
  BY <1>1 DEF Injection, IsInjective
<1> QED
  BY <1>4, <1>5, FS_CardinalityType

\* What is found after as many rounds as a set of names has elements.
FoundWithin(reg, n, s, found) ==
  /\ Edges(reg, n) \subseteq found /\ found \subseteq Names(reg)
  /\ \A c : Edges(reg, n) \subseteq c /\ IsClosed(reg, c) => found \subseteq c
  /\ IsClosed(reg, found) \/ Cardinality(found) > Cardinality(s)

LEMMA OneMoreRound ==
  ASSUME NEW reg, IsRegistry(reg), NEW n, NEW s \in SUBSET Names(reg), NEW x \in s,
         NEW found, FoundWithin(reg, n, s \ {x}, found)
  PROVE  FoundWithin(reg, n, s, ReachStep(reg, found, x))
<1> DEFINE more == ReachStep(reg, found, x)
<1>1. found \subseteq more /\ more \subseteq Names(reg)
  BY DEF ReachStep, FoundWithin, Edges
<1>2. ASSUME NEW c, Edges(reg, n) \subseteq c, IsClosed(reg, c) PROVE more \subseteq c
  BY <1>2 DEF ReachStep, FoundWithin, IsClosed
<1>3. CASE IsClosed(reg, found)
  <2>1. more = found
    BY <1>3 DEF ReachStep, IsClosed
  <2> QED
    BY <1>3, <2>1 DEF FoundWithin
<1>4. CASE ~IsClosed(reg, found)
  <2>1. more # found
    BY <1>4 DEF ReachStep, IsClosed
  <2>2. /\ IsFiniteSet(more) /\ IsFiniteSet(s)
    BY <1>1, NamesAreFinite, FS_Subset
  <2>3. Cardinality(found) < Cardinality(more) /\ Cardinality(found) \in Nat
    <3> HIDE DEF more
    <3> QED
      BY <1>1, <2>1, <2>2, FS_Subset, FS_CardinalityType
  <2>4. Cardinality(s \ {x}) = Cardinality(s) - 1 /\ Cardinality(s) \in Nat
    BY <2>2, FS_RemoveElement, FS_CardinalityType
  <2>5. Cardinality(more) > Cardinality(s)
    <3>1. Cardinality(found) > Cardinality(s \ {x})
      BY <1>4 DEF FoundWithin
    <3>2. Cardinality(more) \in Nat
      BY <2>2, FS_CardinalityType
    <3> HIDE DEF more
    <3> QED
      BY <2>3, <2>4, <3>1, <3>2
  <2> QED
    BY <1>1, <1>2, <2>5 DEF FoundWithin
<1> QED
  BY <1>3, <1>4

LEMMA ReachIsFoundWithin ==
  ASSUME NEW reg, IsRegistry(reg), NEW n
  PROVE  FoundWithin(reg, n, Names(reg), Reach(reg, n))
<1> DEFINE names == Names(reg)
           base == Edges(reg, n)
           found == ReachFold!Iter(reg, base, names)
<1>1. Reach(reg, n) = found[names]
  BY DEF Reach, FoldSet, MapThenFoldSet, ReachFold!Iter, ReachFold!Equation, ReachStep, OneOf
<1>2. IsFiniteSet(names) /\ ReachFold!Picks(names)
  BY NamesAreFinite DEF ReachFold!Picks, OneOf
<1>3. ReachFold!Equation(reg, base, SUBSET names, found)
  <2> HIDE DEF names, base
  <2>1. ReachFold!Equation(reg, base, SUBSET names, ReachFold!Iter(reg, base, names))
    BY <1>2, ReachFold!FoldsUnroll DEF IsFiniteSet, ReachFold!IsFiniteSet
  <2> QED
    BY <2>1
<1> HIDE DEF found
<1>4. FoundWithin(reg, n, {}, found[{}])
  <2>1. found[{}] = base
    BY <1>3 DEF ReachFold!Equation
  <2>2. base = {} => IsClosed(reg, base)
    BY DEF IsClosed
  <2>3. base \subseteq names /\ IsFiniteSet(base)
    BY <1>2, FS_Subset DEF Edges
  <2>4. base # {} => Cardinality(base) > Cardinality({})
    <3> HIDE DEF base
    <3> QED
      BY <2>3, FS_EmptySet, FS_CardinalityType
  <2> QED
    BY <2>1, <2>2, <2>3, <2>4 DEF FoundWithin
<1> DEFINE T == {k \in Nat : \A s \in SUBSET names : Cardinality(s) = k => FoundWithin(reg, n, s, found[s])}
<1>5. 0 \in T
  <2>1. \A s \in SUBSET names : Cardinality(s) = 0 => s = {}
    BY <1>2, FS_Subset, FS_EmptySet
  <2> QED
    BY <1>4, <2>1
<1>6. ASSUME NEW k \in T PROVE k + 1 \in T
  <2> SUFFICES ASSUME NEW s \in SUBSET names, Cardinality(s) = k + 1
               PROVE  FoundWithin(reg, n, s, found[s])
    OBVIOUS
  <2> DEFINE x == OneOf(s)
  <2>1. IsFiniteSet(s) /\ s # {}
    BY <1>2, FS_Subset, FS_EmptySet
  <2>2. x \in s
    BY <2>1 DEF OneOf
  <2>3. Cardinality(s \ {x}) = k
    <3> HIDE DEF x
    <3>1. Cardinality(s \ {x}) = Cardinality(s) - 1
      BY <2>1, <2>2, FS_RemoveElement
    <3> QED
      BY <3>1
  <2>4. FoundWithin(reg, n, s \ {x}, found[s \ {x}])
    BY <2>3
  <2>5. found[s] = ReachStep(reg, found[s \ {x}], x)
    BY <1>3, <2>1 DEF ReachFold!Equation
  <2> HIDE DEF x
  <2> QED
    BY <2>2, <2>4, <2>5, OneMoreRound
<1> HIDE DEF T
<1>7. T = Nat
  <2>1. T \in SUBSET Nat
    BY DEF T
  <2> QED
    BY <1>5, <1>6, <2>1, ReachFold!InductionOverNumbers
<1>8. Cardinality(names) \in T
  BY <1>7, NamesAreFinite
<1> QED
  BY <1>1, <1>8 DEF T

LEMMA ReachIsLeast ==
  ASSUME NEW reg, IsRegistry(reg), NEW n
  PROVE  /\ Edges(reg, n) \subseteq Reach(reg, n) /\ Reach(reg, n) \subseteq Names(reg)
         /\ IsClosed(reg, Reach(reg, n))
         /\ \A c : Edges(reg, n) \subseteq c /\ IsClosed(reg, c) => Reach(reg, n) \subseteq c
<1>1. FoundWithin(reg, n, Names(reg), Reach(reg, n))
  BY ReachIsFoundWithin
<1>2. Reach(reg, n) \subseteq Names(reg)
  BY <1>1 DEF FoundWithin
<1>3. Cardinality(Reach(reg, n)) <= Cardinality(Names(reg)) /\ Cardinality(Reach(reg, n)) \in Nat
  BY <1>2, NamesAreFinite, FS_Subset, FS_CardinalityType
<1> QED
  BY <1>1, <1>3, NamesAreFinite DEF FoundWithin

LEMMA ReachIsTransitive ==
  ASSUME NEW reg, IsRegistry(reg), NEW n, NEW m \in Reach(reg, n)
  PROVE  Reach(reg, m) \subseteq Reach(reg, n)
<1>1. Edges(reg, m) \subseteq Reach(reg, n) /\ IsClosed(reg, Reach(reg, n))
  BY ReachIsLeast DEF IsClosed
<1> QED
  BY <1>1, ReachIsLeast

\* Along requirements that are on no ring, less and less is reached.
LEMMA ReachGetsSmaller ==
  ASSUME NEW reg, IsRegistry(reg), NEW n, NEW m \in Edges(reg, n), m \notin Reach(reg, m)
  PROVE  /\ Cardinality(Reach(reg, m)) < Cardinality(Reach(reg, n))
         /\ Cardinality(Reach(reg, m)) \in Nat /\ Cardinality(Reach(reg, n)) \in Nat
<1>1. m \in Reach(reg, n)
  BY ReachIsLeast
<1>2. Reach(reg, m) \subseteq Reach(reg, n) /\ Reach(reg, m) # Reach(reg, n)
  BY <1>1, ReachIsTransitive
<1>3. IsFiniteSet(Reach(reg, n)) /\ IsFiniteSet(Reach(reg, m))
  BY ReachIsLeast, NamesAreFinite, FS_Subset
<1> QED
  BY <1>2, <1>3, FS_Subset, FS_CardinalityType

LEMMA NoneReachesItself ==
  ASSUME NEW reg, Cycles(reg) = {}, NEW n \in Names(reg)
  PROVE  n \notin Reach(reg, n)
BY DEF Cycles

LEMMA NamesDeclareOnce ==
  ASSUME NEW reg, IsRegistry(reg), Cardinality(Names(reg)) = Len(reg), NEW i \in DOMAIN reg
  PROVE  Declaration(reg, reg[i].name) = reg[i]
<1>1. \A j \in DOMAIN reg : reg[j].name = reg[i].name => j = i
  BY NamesAreFinite
<1>2. \A j \in 1 .. i - 1 : j \in DOMAIN reg /\ j # i
  BY DEF IsRegistry
<1>3. Position(reg, reg[i].name) = i
  BY <1>1, <1>2 DEF Position
<1> QED
  BY <1>3 DEF Declaration

\* What an accepted option requires is an edge of it.
LEMMA RequirementsAreEdges ==
  ASSUME NEW reg, IsRegistry(reg), RegistryAccepted(reg),
         NEW i \in DOMAIN reg, NEW r \in Range(reg[i].requires)
  PROVE  r \in Edges(reg, reg[i].name) /\ r \in Names(reg) /\ reg[i].name \in Names(reg)
<1>1. Declaration(reg, reg[i].name) = reg[i]
  BY NamesDeclareOnce DEF RegistryAccepted
<1>2. r \in Names(reg) \ {reg[i].name}
  BY DEF RegistryAccepted, DeclarationAccepted
<1> QED
  BY <1>1, <1>2 DEF Edges, Names

LEMMA AcceptedHaveAnOrder ==
  ASSUME NEW reg, IsRegistry(reg), RegistryAccepted(reg)
  PROVE  \E rank \in [Names(reg) -> 1 .. Len(reg)] :
           \A i \in DOMAIN reg : \A r \in Range(reg[i].requires) : rank[r] < rank[reg[i].name]
<1> DEFINE rank == [n \in Names(reg) |-> Cardinality(Reach(reg, n)) + 1]
<1>1. ASSUME NEW n \in Names(reg) PROVE Cardinality(Reach(reg, n)) + 1 \in 1 .. Len(reg)
  <2>1. n \notin Reach(reg, n) /\ Reach(reg, n) \subseteq Names(reg)
    BY NoneReachesItself, ReachIsLeast DEF RegistryAccepted
  <2>2. IsFiniteSet(Names(reg)) /\ IsFiniteSet(Reach(reg, n)) /\ Cardinality(Names(reg)) = Len(reg)
    BY <2>1, NamesAreFinite, FS_Subset DEF RegistryAccepted
  <2>3. Cardinality(Reach(reg, n)) < Cardinality(Names(reg))
        /\ Cardinality(Reach(reg, n)) \in Nat /\ Cardinality(Names(reg)) \in Nat
    BY <2>1, <2>2, FS_Subset, FS_CardinalityType
  <2> QED
    BY <2>2, <2>3
<1>2. rank \in [Names(reg) -> 1 .. Len(reg)]
  BY <1>1
<1>3. ASSUME NEW i \in DOMAIN reg, NEW r \in Range(reg[i].requires)
      PROVE  rank[r] < rank[reg[i].name]
  <2>1. r \in Edges(reg, reg[i].name) /\ r \in Names(reg) /\ reg[i].name \in Names(reg)
    BY RequirementsAreEdges
  <2>2. r \notin Reach(reg, r)
    BY <2>1, NoneReachesItself DEF RegistryAccepted
  <2>3. /\ Cardinality(Reach(reg, r)) < Cardinality(Reach(reg, reg[i].name))
        /\ Cardinality(Reach(reg, r)) \in Nat /\ Cardinality(Reach(reg, reg[i].name)) \in Nat
    BY <2>1, <2>2, ReachGetsSmaller
  <2> QED
    BY <2>1, <2>3
<1> HIDE DEF rank
<1> QED
  BY <1>2, <1>3

LEMMA CyclesShareNothing ==
  ASSUME NEW reg, IsRegistry(reg), NEW c \in Cycles(reg), NEW d \in Cycles(reg), c \cap d # {}
  PROVE  c = d
<1>1. PICK n \in Names(reg), m \in Names(reg) :
        /\ n \in Reach(reg, n) /\ c = CycleOf(reg, n)
        /\ m \in Reach(reg, m) /\ d = CycleOf(reg, m)
  BY DEF Cycles
<1>2. PICK x : x \in c /\ x \in d
  OBVIOUS
<1>3. /\ x \in Reach(reg, n) /\ n \in Reach(reg, x)
      /\ x \in Reach(reg, m) /\ m \in Reach(reg, x)
  BY <1>1, <1>2 DEF CycleOf
<1>4. m \in Reach(reg, n) /\ n \in Reach(reg, m)
  BY <1>3, ReachIsTransitive
<1>5. Reach(reg, n) = Reach(reg, m)
  BY <1>4, ReachIsTransitive
<1>6. \A y : (n \in Reach(reg, y)) <=> (m \in Reach(reg, y))
  BY <1>4, ReachIsTransitive
<1>7. \A y \in Names(reg) : y \in CycleOf(reg, n) <=> y \in CycleOf(reg, m)
  BY <1>1, <1>4, <1>5, <1>6 DEF CycleOf
<1> QED
  BY <1>1, <1>7 DEF CycleOf

\* Of a ring on which none reached itself, each would reach fewer than the one before.
LEMMA RingsAreFound ==
  ASSUME NEW reg, IsRegistry(reg), NEW ring \in SUBSET Names(reg), ring # {},
         \A n \in ring : Edges(reg, n) \cap ring # {}
  PROVE  \E c \in Cycles(reg) : c \cap ring # {}
<1> SUFFICES ASSUME \A n \in ring : n \notin Reach(reg, n) PROVE FALSE
  <2>1. ASSUME NEW n \in ring, n \in Reach(reg, n) PROVE CycleOf(reg, n) \in Cycles(reg) /\ n \in CycleOf(reg, n)
    BY <2>1 DEF Cycles, CycleOf
  <2> QED
    BY <2>1
<1> DEFINE N == Cardinality(Names(reg))
           sizes == {Cardinality(Reach(reg, n)) : n \in ring}
<1>1. ASSUME NEW n \in ring
      PROVE  \E m \in ring : /\ Cardinality(Reach(reg, m)) < Cardinality(Reach(reg, n))
                             /\ Cardinality(Reach(reg, m)) \in Nat
                             /\ Cardinality(Reach(reg, n)) \in 1 .. N
  <2>1. PICK m \in ring : m \in Edges(reg, n)
    OBVIOUS
  <2>2. /\ Cardinality(Reach(reg, m)) < Cardinality(Reach(reg, n))
        /\ Cardinality(Reach(reg, m)) \in Nat /\ Cardinality(Reach(reg, n)) \in Nat
    BY <2>1, ReachGetsSmaller
  <2>3. Cardinality(Reach(reg, n)) <= N /\ N \in Nat
    BY ReachIsLeast, NamesAreFinite, FS_Subset
  <2> QED
    BY <2>1, <2>2, <2>3
<1>2. N \in Nat /\ sizes \in SUBSET (1 .. N) /\ sizes # {}
  <2>1. N \in Nat
    BY NamesAreFinite
  <2> HIDE DEF N
  <2> QED
    BY <1>1, <2>1
<1>3. \A s \in sizes : \E t \in sizes : t < s
  <2> HIDE DEF N
  <2> QED
    BY <1>1
<1> HIDE DEF N, sizes
<1>4. \E x \in sizes : \A y \in sizes : x =< y
  BY <1>2, ReachFold!BoundedHaveExtremes
<1> QED
  BY <1>2, <1>3, <1>4

OptionsInv ==
  /\ registry \in Registries
  /\ subjects \in [DOMAIN SubjectFiles -> Seq(WrittenEntries)]

LEMMA OptionsInvAlways == OptionsSpec => []OptionsInv
<1>1. OptionsInit => OptionsInv
  BY DEF OptionsInit, OptionsInv
<1>2. OptionsInv /\ [OptionsNext]_optionsVars => OptionsInv'
  <2> SUFFICES ASSUME OptionsInv, [OptionsNext]_optionsVars PROVE OptionsInv'
    OBVIOUS
  <2>1. CASE WriteEntry
    <3>1. PICK f \in DOMAIN SubjectFiles, entry \in WrittenEntries :
            subjects' = [subjects EXCEPT ![f] = Append(@, entry)] /\ registry' = registry
      BY <2>1 DEF WriteEntry
    <3>2. Append(subjects[f], entry) \in Seq(WrittenEntries)
      BY AppendProperties DEF OptionsInv
    <3> QED
      BY <3>1, <3>2 DEF OptionsInv
  <2>2. CASE SpoilDocument \/ UNCHANGED optionsVars
    BY <2>2 DEF SpoilDocument, optionsVars, OptionsInv
  <2> QED
    BY <2>1, <2>2 DEF OptionsNext
<1> QED
  BY <1>1, <1>2, PTL DEF OptionsSpec

\* A registry that is accepted has an order, and what a refused one is told is what is
\* wrong: its cycles share no option, and no ring of requirements, however long, is in
\* none of them (ValidateOptionsRegistry, go/strictspec/options_rules.go).
THEOREM RequirementsHaveAnOrder == OptionsSpec => []RegistriesAreOrdered
<1>1. OptionsInv => RegistriesAreOrdered
  <2> SUFFICES ASSUME OptionsInv PROVE RegistriesAreOrdered
    OBVIOUS
  <2>1. IsRegistry(registry)
    BY RegistriesAreSequences DEF OptionsInv, IsRegistry
  <2>2. \A c, d \in Cycles(registry) : c = d \/ c \cap d = {}
    BY <2>1, CyclesShareNothing
  <2>3. RegistryAccepted(registry) =>
          \E rank \in [Names(registry) -> 1 .. Len(registry)] :
            \A i \in DOMAIN registry : \A r \in Range(registry[i].requires) :
              rank[r] < rank[registry[i].name]
    BY <2>1, AcceptedHaveAnOrder
  <2>4. ASSUME NEW ring \in (SUBSET Names(registry)) \ {{}},
               \A n \in ring : Edges(registry, n) \cap ring # {}
        PROVE  \E c \in Cycles(registry) : c \cap ring # {}
    BY <2>1, <2>4, RingsAreFound
  <2> QED
    BY <2>2, <2>3, <2>4, Zenon DEF RegistriesAreOrdered
<1> QED
  BY <1>1, OptionsInvAlways, PTL

-------------------------------------------------------------------------------
(***************************************************************************)
(* What is off.  In a namespace without a refused entry an option has at   *)
(* most one entry that applies everywhere, and the options off for one are *)
(* the ones that reach it.                                                 *)
(***************************************************************************)
LEMMA EntriesAreDistinct ==
  ASSUME OptionsInv, NamespaceAccepted, NEW e \in Namespace, NEW f \in Namespace,
         e.entry.id = f.entry.id, e.entry.scope = f.entry.scope
  PROVE  e = f
<1>1. e \in LoadOptionsEntries /\ f \in LoadOptionsEntries
  BY DEF Namespace
<1>2. \A g \in {e, f} : g = [file |-> g.file, index |-> g.index, entry |-> subjects[g.file][g.index]]
                        /\ g.file \in DOMAIN SubjectFiles /\ g.index \in DOMAIN subjects[g.file]
  BY <1>1, SMTT(30) DEF LoadOptionsEntries
<1>3. \A g \in {e, f} : g.file \in Nat /\ g.index \in Nat
  <2>1. \A h \in DOMAIN SubjectFiles : h \in Nat /\ subjects[h] \in Seq(WrittenEntries)
    BY SubjectFilesAreListed DEF OptionsInv
  <2> QED
    BY <1>2, <2>1
<1>4. ~IsRepeated(e) /\ ~IsRepeated(f)
  BY DEF NamespaceAccepted, OptionEntryAccepted
<1>5. ~Earlier(e, f) /\ ~Earlier(f, e)
  BY <1>1, <1>4 DEF IsRepeated
<1>6. e.file = f.file /\ e.index = f.index
  BY <1>3, <1>5 DEF Earlier
<1> QED
  BY <1>2, <1>6

LEMMA DependentsAreSetOff ==
  ASSUME OptionsInv, NamespaceAccepted, NEW e \in Namespace, e.entry.scope = "",
         NEW field \in {"current", "ideal"}, IsOffIn(field, e),
         NEW dep, DependentOff(e, Declaration(registry, e.entry.id[2]), field, dep)
  PROVE  Setting(field, dep) = Off
<1> DEFINE entries == {f \in Namespace : f.entry.id = <<Tool, dep>> /\ f.entry.scope = ""}
<1>1. \A f \in LoadOptionsEntries : f.entry.id = <<Tool, dep>> => f \in Namespace
  <2>1. <<Tool, dep>>[1] = Tool
    OBVIOUS
  <2> QED
    BY <2>1 DEF Namespace
<1>2. CASE \E f \in LoadOptionsEntries :
             f.entry.id = <<Tool, dep>> /\ IsOffIn(field, f) /\ f.entry.scope = ""
  <2>1. PICK f \in entries : IsOffIn(field, f)
    BY <1>1, <1>2
  <2>2. \A g \in entries : g = f
    BY EntriesAreDistinct
  <2>3. (CHOOSE g \in entries : TRUE) = f /\ entries # {}
    BY <2>2
  <2> QED
    BY <2>1, <2>3 DEF Setting, IsOffIn
<1>3. CASE /\ Declaration(registry, dep).default = Off
           /\ \A f \in LoadOptionsEntries : f.entry.id = <<Tool, dep>> => IsOffIn(field, f)
  <2>1. CASE entries = {}
    BY <1>3, <2>1 DEF Setting
  <2>2. CASE entries # {}
    <3>1. (CHOOSE g \in entries : TRUE) \in entries
      BY <2>2
    <3>2. \A g \in entries : IsOffIn(field, g)
      BY <1>3 DEF Namespace
    <3> QED
      BY <2>2, <3>1, <3>2 DEF Setting, IsOffIn
  <2> QED
    BY <2>1, <2>2
<1> QED
  BY <1>2, <1>3, Zenon DEF DependentOff

LEMMA NamespaceIds ==
  ASSUME OptionsInv, NEW e \in Namespace
  PROVE  e.entry.id = <<Tool, e.entry.id[2]>>
<1>1. PICK f \in DOMAIN SubjectFiles : \E i \in DOMAIN subjects[f] :
        e = [file |-> f, index |-> i, entry |-> subjects[f][i]]
  BY SMTT(30) DEF Namespace, LoadOptionsEntries
<1>2. e.entry \in WrittenEntries
  BY <1>1 DEF OptionsInv
<1>3. e.entry.id[1] = Tool
  BY DEF Namespace
<1> QED
  BY <1>2, <1>3, IdsArePairs

\* appendix-options.md, "Nothing is switched off silently": where no entry is refused, what
\* an entry switches off is off together with all that depends on it, however far
\* (ValidateOptionsNamespace, go/strictspec/options_rules.go).
THEOREM DependentsFollow == OptionsSpec => []DependentsAreOffToo
<1>1. OptionsInv => DependentsAreOffToo
  <2> SUFFICES ASSUME OptionsInv, RegistryAccepted(registry), NamespaceAccepted,
                      NEW e \in Namespace, e.entry.scope = "",
                      NEW field \in {"current", "ideal"}, IsOffIn(field, e)
               PROVE  \E off \in SUBSET Names(registry) :
                        /\ e.entry.id[2] \in off
                        /\ \A n \in off : Setting(field, n) = Off
                        /\ \A i \in DOMAIN registry :
                             Range(registry[i].requires) \cap off # {} => registry[i].name \in off
    BY DEF DependentsAreOffToo
  <2> DEFINE option == e.entry.id[2]
             off == {option} \cup Dependents(registry, option)
  <2>1. IsRegistry(registry)
    BY RegistriesAreSequences DEF OptionsInv, IsRegistry
  <2>2. option \in Names(registry) /\ DependentsOff(e, Declaration(registry, option), field)
    BY DEF NamespaceAccepted, OptionEntryAccepted
  <2>3. Declaration(registry, option).name = option
    <3>1. PICK i \in DOMAIN registry : registry[i].name = option
      BY <2>2 DEF Names
    <3> HIDE DEF option
    <3>2. Declaration(registry, registry[i].name) = registry[i]
      BY <2>1, NamesDeclareOnce DEF RegistryAccepted
    <3> QED
      BY <3>1, <3>2
  <2>4. ASSUME NEW n \in Dependents(registry, option) PROVE Setting(field, n) = Off
    <3>1. DependentOff(e, Declaration(registry, option), field, n)
      BY <2>2, <2>3 DEF DependentsOff
    <3> QED
      BY <3>1, DependentsAreSetOff
  <2>5. Setting(field, option) = Off
    <3> DEFINE entries == {f \in Namespace : f.entry.id = <<Tool, option>> /\ f.entry.scope = ""}
    <3>1. e \in entries
      BY NamespaceIds
    <3>2. \A g \in entries : g = e
      BY <3>1, EntriesAreDistinct
    <3>3. (CHOOSE g \in entries : TRUE) = e
      BY <3>1, <3>2
    <3> QED
      BY <3>1, <3>3 DEF Setting, IsOffIn
  <2>6. ASSUME NEW i \in DOMAIN registry, NEW r \in Range(registry[i].requires), r \in off
        PROVE  registry[i].name \in off
    <3> DEFINE n == registry[i].name
    <3>1. r \in Edges(registry, n) /\ n \in Names(registry)
      BY <2>1, RequirementsAreEdges
    <3>2. r \in Reach(registry, n)
      BY <2>1, <3>1, ReachIsLeast
    <3>3. option \in Reach(registry, n)
      BY <2>1, <2>6, <3>2, ReachIsTransitive DEF Dependents
    <3> QED
      BY <3>1, <3>3 DEF Dependents
  <2>7. off \in SUBSET Names(registry) /\ option \in off
    BY <2>2 DEF Dependents
  <2> HIDE DEF off
  <2>8. \A n \in off : Setting(field, n) = Off
    BY <2>4, <2>5 DEF off
  <2> QED
    BY <2>6, <2>7, <2>8
<1> QED
  BY <1>1, OptionsInvAlways, PTL
================================================================================
