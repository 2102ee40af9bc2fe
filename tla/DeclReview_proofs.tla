-------------------------- MODULE DeclReview_proofs ---------------------------
(***************************************************************************)
(* What runs is what was reviewed: ExecutesWhatWasReviewed as a theorem of *)
(* Spec.  The identifier holds no value that was exposed when the plan was *)
(* made, yet the changes of a plan are a function of it (ChangesTold): an  *)
(* expected value either is the live one, which it holds, or is shown in a *)
(* difference.                                                             *)
(***************************************************************************)
EXTENDS DeclExecute_proofs, FiniteSetTheorems

(***************************************************************************)
(* The changes, read off the identifier.                                   *)
(***************************************************************************)
Shown(id, r, col, key) ==
  {d \in id.differences : d.res = r /\ d.col = col /\ d.key = key}

\* Of the compared fields, those expected: shown as different, or as they are live;
\* one that has no value yet is as other has it.
PatchedFrom(shown, f, is, other) ==
  IF \A d \in shown : d.field # f THEN is
  ELSE LET d == CHOOSE e \in shown : e.field = f
       IN IF d.status = "changed" THEN d.declared ELSE other

Patched(shown, compared, is, other) ==
  [f \in {g \in compared : g \in DOMAIN PatchedFrom(shown, g, is, other)} |->
     PatchedFrom(shown, f, is, other)[f]]

NotCompared(s, r) ==
  Restrict(s.resources[r].fields, DOMAIN s.resources[r].fields \ Fields[TypeOf[r]])

WithoutUnresolved(fields) == Restrict(fields, {f \in DOMAIN fields : ~IsUnresolved(fields[f])})

FieldsTold(id, r) ==
  IF id.reads[r].found = "live"
  THEN Overridden(NotCompared(id.files, r),
                  Patched(Shown(id, r, "", NoKey), Fields[TypeOf[r]],
                          id.reads[r].is.fields, NoKey))
  ELSE WithoutUnresolved((CHOOSE d \in Shown(id, r, "", NoKey) : TRUE).declared)

LiveTold(id, r, col, key) == {li \in id.reads[r].is.children[col] : ItemKey(col, li) = key}

\* The children a change at a key may carry.
ItemsTold(id, r, col, key) ==
  LET there == LiveTold(id, r, col, key)
  IN {Overridden(key, Patched(Shown(id, r, col, key), ItemFields[col],
                              CHOOSE one \in there : TRUE, li)) : li \in there}

ItemTold(id, d) ==
  CASE d.status = "unexpected" -> Overridden(d.key, d.live)
    [] d.status = "missing"    -> Overridden(d.key, d.declared)
    [] d.status = "changed"    -> CHOOSE it \in ItemsTold(id, d.res, d.col, d.key) : TRUE

\* A child that waits, and is not there, is not carried.
ChildrenShown(id, r) ==
  {d \in id.differences :
     /\ d.res = r /\ d.col # ""
     /\ \A v \in Range(d.key) \cup Range(d.declared) : ~IsUnresolved(v)}

HoldsTold(id, r) ==
  PendingsIn(Range(FieldsTold(id, r))
               \cup UNION {Range(d.key) \cup Range(d.declared) : d \in ChildrenShown(id, r)})

Told(id, c) == [c EXCEPT !.fields = FieldsTold(id, c.res), !.holds = HoldsTold(id, c.res)]

ChangeTold(id, d) ==
  LET c == Told(id, Change(ActionOf(d.status), d.res, d.col, d.key, d.field))
  IN IF d.col = "" THEN c ELSE [c EXCEPT !.item = ItemTold(id, d)]

WaitsShown(id, s) ==
  Difference("missing", s.target, s.col, NoKey, "", With(NoKey, "why", Reason(s)), NoKey, s.source)
    \in id.differences

AfterTold(id, s) ==
  {r \in {s.source, s.target} \cap Declared(id.files) : id.reads[r].found = "absent"}

CoveredTold(id, s) ==
  IF id.reads[s.target].found = "live"
  THEN {li \in id.reads[s.target].is.children[s.col] : MatchesAll(li, s.match)} ELSE {}

DeferredTold(id) ==
  {[Told(id, Change("create", s.target, s.col, NoKey, ""))
      EXCEPT !.slot = s, !.after = AfterTold(id, s), !.covered = CoveredTold(id, s)]
     : s \in {t \in id.files.slots : ~IsFieldSlot(t) /\ WaitsShown(id, t)}}

\* The changes of a project's plan.
ChangesTold(id) ==
  DeferredTold(id)
    \cup {ChangeTold(id, d) : d \in {e \in id.differences :
                                       /\ e.status \in {"missing", "changed", "unexpected"}
                                       /\ ~IsSlotDifference(e)}}

-------------------------------------------------------------------------------
(***************************************************************************)
(* A project's comparison that is not refused.                             *)
(***************************************************************************)
Reviewable == EverythingRead /\ ~Account /\ ~PlanRefused /\ WhatRefersIsCompared

LEMMA IdentifierHolds ==
  PlanID.files = set /\ PlanID.reads = reads /\ PlanID.differences = Differences
BY DEF PlanID

LEMMA NothingFailed ==
  ASSUME Reviewable
  PROVE  /\ \A r \in Declared(set) : r \in DOMAIN reads /\ Readable(r)
         /\ \A s \in set.slots : ~Skipped(s)
<1>0. EverythingRead /\ set \in Sets
  BY DEF Reviewable, EverythingRead
<1>1. /\ \A r \in DOMAIN reads : reads[r].found # "failed"
      /\ \A x \in DOMAIN values : values[x].found # "failed"
  BY DEF Reviewable, PlanRefused, SomethingUnreadable
<1>2. \A q \in Requests : Answered(q.what, q.of)
  BY <1>0 DEF EverythingRead, Outstanding
<1>3. ASSUME NEW s \in set.slots
      PROVE  SlotRead(s).found # "failed"
  <2> DEFINE q == Request(SlotReadKind(s), s.reads, 10 * NameOrder[s.source])
  <2>1. q \in Requests
    BY Zenon DEF Requests, DerivationRequests
  <2>2. q.what = SlotReadKind(s) /\ q.of = s.reads
    BY DEF Request
  <2> QED
    BY <1>1, <1>2, <2>1, <2>2 DEF Answered, SlotReadKind, SlotRead
<1>4. ASSUME NEW r \in Declared(set)
      PROVE  r \in DOMAIN reads /\ Readable(r)
  <2>1. r \in DOMAIN reads /\ reads[r].found # "failed"
    BY <1>0, <1>1, ReadWhatIsAsked
  <2>2. Answered("resource", r)
    BY <2>1 DEF Answered
  <2> DEFINE settled == {p \in Declared(set) :
                           /\ Answered("resource", p)
                           /\ reads[p].found # "failed"
                           /\ \A x \in RefersTo(p) \cap DOMAIN values : values[x].found # "failed"}
             asked(p) == {Request("value", y, 1000 + 10 * NameOrder[p] + 1) : y \in RefersTo(p)}
  <2>3. r \in settled
    BY <1>1, <2>1, <2>2
  <2>4. ASSUME NEW x \in RefersTo(r)
        PROVE  x \in DOMAIN values
    <3> DEFINE q == Request("value", x, 1000 + 10 * NameOrder[r] + 1)
    <3>1. q \in asked(r)
      OBVIOUS
    <3>2. q.what = "value" /\ q.of = x
      BY DEF Request
    <3> HIDE DEF q
    <3>3. UNION {asked(p) : p \in settled} \subseteq ComparisonRequests
      BY Zenon DEF ComparisonRequests
    <3> HIDE DEF settled, asked
    <3>5. q \in ComparisonRequests
      BY <2>3, <3>1, <3>3
    <3>4. q \in Requests
      BY <3>5, Zenon DEF Requests
    <3> QED
      BY <1>2, <3>2, <3>4 DEF Answered
  <2> QED
    BY <1>1, <2>1, <2>4 DEF Readable
<1> QED
  BY <1>3, <1>4 DEF Skipped, Derives, CausedBy

(***************************************************************************)
(* Where each difference is shown.                                         *)
(***************************************************************************)
Sits(d, r, col, key) == d.res = r /\ d.col = col /\ d.key = key

LEMMA DifferenceSits ==
  ASSUME NEW status, NEW r, NEW col, NEW key, NEW field, NEW was, NEW is, NEW source
  PROVE  Sits(Difference(status, r, col, key, field, was, is, source), r, col, key)
BY DEF Sits, Difference

LEMMA DifferencesSit ==
  ASSUME NEW r, NEW col, NEW e
  PROVE  /\ \A d \in ResourceFieldDifferences(r) : Sits(d, r, "", NoKey)
         /\ \A d \in ChildFieldDifferences(r, col, e) : Sits(d, r, col, ItemKey(col, e.item))
         /\ \A status : Sits(MissingChild(r, col, e, status), r, col, ItemKey(col, e.item))
         /\ Sits(UnexpectedChild(r, col, e), r, col, ItemKey(col, e))
<1>1. \A status, c, key, field, was, is, source :
         Sits(Difference(status, r, c, key, field, was, is, source), r, c, key)
  BY DifferenceSits
<1>2. ASSUME NEW d \in ResourceFieldDifferences(r) PROVE Sits(d, r, "", NoKey)
  BY <1>1, Zenon DEF ResourceFieldDifferences
<1>3. ASSUME NEW d \in ChildFieldDifferences(r, col, e)
      PROVE  Sits(d, r, col, ItemKey(col, e.item))
  <2>1. \E status, field, was, is, source :
           d = Difference(status, r, col, ItemKey(col, e.item), field, was, is, source)
    BY ZenonT(60) DEF ChildFieldDifferences
  <2> QED
    BY <1>1, <2>1, Zenon
<1>4. \A status : Sits(MissingChild(r, col, e, status), r, col, ItemKey(col, e.item))
  BY <1>1, Zenon DEF MissingChild
<1>5. Sits(UnexpectedChild(r, col, e), r, col, ItemKey(col, e))
  BY <1>1, Zenon DEF UnexpectedChild
<1> QED
  BY <1>2, <1>3, <1>4, <1>5

LEMMA SlotDifferencesSit ==
  ASSUME Reviewable, NEW r \in Declared(set), NEW d \in SlotDifferences(r)
  PROVE  d.key = NoKey /\ d.col # ""
<1>1. PICK s \in SlotsOf(set, r) :
        ~IsFieldSlot(s) /\ \E status, was, source : d = Difference(status, r, s.col, NoKey, "", was, NoKey, source)
  BY Zenon DEF SlotDifferences
<1>2. Sits(d, r, s.col, NoKey)
  BY <1>1, DifferenceSits, Zenon
<1>3. s.col \in CollectionsOf(r) /\ r \in Resources
  BY <1>1, SetsAreLoaded DEF LoadChecked, SlotsOf, Reviewable, EverythingRead
<1> QED
  BY <1>2, <1>3, CollectionsHaveNames, StagesAreNumbers DEF CollectionsOf, Sits

LEMMA CollectionsAreNamed ==
  ASSUME Reviewable, NEW r \in Declared(set)
  PROVE  "" \notin CollectionsOf(r)
<1>1. r \in Resources
  BY SetsAreLoaded DEF Reviewable, EverythingRead
<1> QED
  BY <1>1, CollectionsHaveNames, StagesAreNumbers DEF CollectionsOf

LEMMA OnlyResourcesDiffer ==
  ASSUME Reviewable
  PROVE  Differences = UNION {ResourceDifferences(r) : r \in Declared(set)}
<1>1. Misclaimed = {} /\ ~Account
  BY DEF Reviewable, PlanRefused
<1>2. ClaimDifferences = {}
  BY <1>1 DEF ClaimDifferences
<1> QED
  BY <1>2 DEF Differences

LEMMA ShownOfAResource ==
  ASSUME Reviewable, NEW r \in Declared(set), NEW col, NEW key
  PROVE  \A d : d \in Shown(PlanID, r, col, key)
                  <=> d \in ResourceDifferences(r) /\ d.col = col /\ d.key = key
<1>1. \A d : d \in Differences /\ d.res = r <=> d \in ResourceDifferences(r)
  BY OnlyResourcesDiffer, DifferencesNameTheirResource
<1> QED
  BY <1>1, IdentifierHolds DEF Shown

LEMMA ShownOfItsFields ==
  ASSUME Reviewable, NEW r \in Declared(set)
  PROVE  \A d : d \in Shown(PlanID, r, "", NoKey)
                  <=> d \in ResourceDifferences(r) /\ d.col = "" /\ d.key = NoKey
<1> DEFINE none == ""
<1> HIDE DEF none
<1>1. \A d : d \in Shown(PlanID, r, none, NoKey)
               <=> d \in ResourceDifferences(r) /\ d.col = none /\ d.key = NoKey
  BY ShownOfAResource
<1> QED
  BY <1>1 DEF none

\* What differs of a collection of a live resource.
LEMMA CollectionDiffersBy ==
  ASSUME NEW r, NEW col, NEW d \in CollectionDifferences(r, col)
  PROVE  \/ \E e \in Matched(r, col) : d \in ChildFieldDifferences(r, col, e)
         \/ \E e \in ExpectedChildren(r, col) \ Matched(r, col) : d = MissingChild(r, col, e, "missing")
         \/ \E li \in Unmatched(r, col) : d = UnexpectedChild(r, col, li)
BY Zenon DEF CollectionDifferences

LEMMA ChildrenDifferInTheirCollection ==
  ASSUME NEW r, NEW col, NEW d \in CollectionDifferences(r, col)
  PROVE  d.col = col
<1>1. ASSUME NEW key, Sits(d, r, col, key) PROVE d.col = col
  BY <1>1 DEF Sits
<1>2. CASE \E e : d \in ChildFieldDifferences(r, col, e)
  <2>1. PICK e : d \in ChildFieldDifferences(r, col, e)
    BY <1>2
  <2>2. Sits(d, r, col, ItemKey(col, e.item))
    BY <2>1, DifferencesSit
  <2> QED
    BY <1>1, <2>2
<1>3. CASE \E e : d = MissingChild(r, col, e, "missing")
  <2>1. PICK e : d = MissingChild(r, col, e, "missing")
    BY <1>3
  <2>2. Sits(d, r, col, ItemKey(col, e.item))
    BY <2>1, DifferencesSit
  <2> QED
    BY <1>1, <2>2
<1>4. CASE \E li : d = UnexpectedChild(r, col, li)
  <2>1. PICK li : d = UnexpectedChild(r, col, li)
    BY <1>4
  <2>2. Sits(d, r, col, ItemKey(col, li))
    BY <2>1, DifferencesSit
  <2> QED
    BY <1>1, <2>2
<1> QED
  BY <1>2, <1>3, <1>4, CollectionDiffersBy

LEMMA ShownOfFields ==
  ASSUME Reviewable, NEW r \in Declared(set), IsLive(r)
  PROVE  Shown(PlanID, r, "", NoKey) = ResourceFieldDifferences(r)
<1>1. ResourceDifferences(r)
        = SlotDifferences(r) \cup (ResourceFieldDifferences(r)
            \cup UNION {CollectionDifferences(r, col) : col \in CollectionsOf(r)})
  BY NothingFailed, Zenon DEF ResourceDifferences
<1>2. \A d \in SlotDifferences(r) : d.col # ""
  BY SlotDifferencesSit
<1>3. \A d \in ResourceFieldDifferences(r) : d.col = "" /\ d.key = NoKey
  BY DifferencesSit DEF Sits
<1>4. ASSUME NEW col \in CollectionsOf(r), NEW d \in CollectionDifferences(r, col)
      PROVE  d.col # ""
  BY CollectionsAreNamed, ChildrenDifferInTheirCollection
<1>5. \A d \in UNION {CollectionDifferences(r, col) : col \in CollectionsOf(r)} : d.col # ""
  BY <1>4
<1>6. \A d : d \in Shown(PlanID, r, "", NoKey)
              <=> d \in ResourceDifferences(r) /\ d.col = "" /\ d.key = NoKey
  BY ShownOfItsFields
<1> QED
  BY <1>1, <1>2, <1>3, <1>5, <1>6

LEMMA ShownOfAbsent ==
  ASSUME Reviewable, NEW r \in Declared(set), ~IsLive(r)
  PROVE  \E status : Shown(PlanID, r, "", NoKey)
                       = {Difference(status, r, "", NoKey, "", ExpectedFields(r), NoKey, r)}
<1>0. \A d : d \in Shown(PlanID, r, "", NoKey)
              <=> d \in ResourceDifferences(r) /\ d.col = "" /\ d.key = NoKey
  BY ShownOfItsFields
<1> DEFINE expected == ExpectedFields(r)
           status == IF HasUnresolved(expected) THEN "unresolved" ELSE "missing"
           children == UNION {{col} \X ExpectedChildren(r, col) : col \in CollectionsOf(r)}
           own == Difference(status, r, "", NoKey, "", expected, NoKey, r)
           others == {MissingChild(r, p[1], p[2], status) : p \in children}
<1>1. ResourceDifferences(r) = SlotDifferences(r) \cup ({own} \cup others)
  BY NothingFailed, Zenon DEF ResourceDifferences, MissingDifferences
<1>2. \A d \in SlotDifferences(r) : d.col # ""
  BY SlotDifferencesSit
<1>3. own.col = "" /\ own.key = NoKey
  BY DEF Difference
<1>4. \A d \in others : d.col # ""
  <2>1. ASSUME NEW p \in children PROVE MissingChild(r, p[1], p[2], status).col # ""
    <3>1. p[1] \in CollectionsOf(r)
      OBVIOUS
    <3>2. Sits(MissingChild(r, p[1], p[2], status), r, p[1], ItemKey(p[1], p[2].item))
      <4> HIDE DEF status
      <4> QED
        BY DifferencesSit
    <3> QED
      BY <3>1, <3>2, CollectionsAreNamed DEF Sits
  <2> QED
    BY <2>1
<1> HIDE DEF own, others
<1>5. Shown(PlanID, r, "", NoKey) = {own}
  BY <1>0, <1>1, <1>2, <1>3, <1>4
<1> QED
  BY <1>5 DEF own

(***************************************************************************)
(* One child of a declaration per key.                                     *)
(***************************************************************************)
LEMMA KeysHold ==
  ASSUME NEW col, NEW it
  PROVE  /\ DOMAIN ItemKey(col, it) = KeyFields(col, it) \cap DOMAIN it
         /\ \A f \in DOMAIN ItemKey(col, it) : ItemKey(col, it)[f] = it[f]
BY DEF ItemKey, Restrict

LEMMA OneKeyIsResolvedOrNot ==
  ASSUME NEW col, NEW a, NEW b, ItemKey(col, a) = ItemKey(col, b)
  PROVE  KeyUnresolved(col, a) <=> KeyUnresolved(col, b)
<1> DEFINE key == ItemKey(col, a)
<1>0. key = ItemKey(col, a) /\ key = ItemKey(col, b)
  OBVIOUS
<1>1. \A f \in DOMAIN key : a[f] = key[f] /\ b[f] = key[f]
  <2> HIDE DEF key
  <2>1. /\ \A f \in DOMAIN ItemKey(col, a) : ItemKey(col, a)[f] = a[f]
        /\ \A f \in DOMAIN ItemKey(col, b) : ItemKey(col, b)[f] = b[f]
    BY KeysHold
  <2> QED
    BY <1>0, <2>1
<1>2. KeyUnresolved(col, a) <=> \E f \in DOMAIN key : IsUnresolved(a[f])
  BY Zenon DEF KeyUnresolved
<1>3. KeyUnresolved(col, b) <=> \E f \in DOMAIN key : IsUnresolved(b[f])
  BY Zenon DEF KeyUnresolved
<1> HIDE DEF key
<1> QED
  BY <1>1, <1>2, <1>3

LEMMA OneExpectedPerKey ==
  ASSUME Reviewable, NEW r \in Declared(set), NEW col \in CollectionsOf(r),
         NEW e \in ExpectedChildren(r, col), NEW o \in ExpectedChildren(r, col),
         ~KeyUnresolved(col, e.item), ItemKey(col, e.item) = ItemKey(col, o.item)
  PROVE  e = o
BY NothingFailed, OneKeyIsResolvedOrNot DEF SameKeys, Reviewable, PlanRefused

LEMMA MatchedAreLive ==
  ASSUME NEW r, NEW col, NEW e \in Matched(r, col)
  PROVE  /\ e \in ExpectedChildren(r, col) /\ ~KeyUnresolved(col, e.item)
         /\ LiveAt(r, col, e.item) # {}
         /\ \A li : li \in LiveAt(r, col, e.item)
                      <=> li \in LiveChildren(r, col) /\ ItemKey(col, li) = ItemKey(col, e.item)
BY DEF Matched, LiveAt

LEMMA ShownOfAChild ==
  ASSUME Reviewable, NEW r \in Declared(set), IsLive(r), NEW col \in CollectionsOf(r),
         NEW e \in Matched(r, col), ItemKey(col, e.item) # NoKey
  PROVE  Shown(PlanID, r, col, ItemKey(col, e.item)) = ChildFieldDifferences(r, col, e)
<1> DEFINE key == ItemKey(col, e.item)
<1>1. \A d : d \in Shown(PlanID, r, col, key)
               <=> d \in ResourceDifferences(r) /\ d.col = col /\ d.key = key
  BY ShownOfAResource
<1>2. ResourceDifferences(r)
        = SlotDifferences(r) \cup (ResourceFieldDifferences(r)
            \cup UNION {CollectionDifferences(r, c) : c \in CollectionsOf(r)})
  BY NothingFailed, Zenon DEF ResourceDifferences
<1>3. ASSUME NEW d \in ChildFieldDifferences(r, col, e)
      PROVE  d \in ResourceDifferences(r) /\ d.col = col /\ d.key = key
  <2>1. Sits(d, r, col, key)
    BY DifferencesSit
  <2>2. d \in UNION {ChildFieldDifferences(r, col, o) : o \in Matched(r, col)}
    OBVIOUS
  <2>3. d \in CollectionDifferences(r, col)
    BY <2>2, Zenon DEF CollectionDifferences
  <2> QED
    BY <1>2, <2>1, <2>3 DEF Sits
<1>4. ASSUME NEW d \in ResourceDifferences(r), d.col = col, d.key = key
      PROVE  d \in ChildFieldDifferences(r, col, e)
  <2>1. d \notin SlotDifferences(r)
    BY <1>4, SlotDifferencesSit
  <2>2. d \notin ResourceFieldDifferences(r)
    <3>1. ASSUME d \in ResourceFieldDifferences(r) PROVE Sits(d, r, "", NoKey)
      BY <3>1, DifferencesSit
    <3> QED
      BY <1>4, <3>1, CollectionsAreNamed DEF Sits
  <2>3. d \in CollectionDifferences(r, col)
    <3>1. PICK c \in CollectionsOf(r) : d \in CollectionDifferences(r, c)
      BY <1>2, <2>1, <2>2
    <3> QED
      BY <1>4, <3>1, ChildrenDifferInTheirCollection
  <2>4. ASSUME NEW it, Sits(d, r, col, ItemKey(col, it))
        PROVE  ItemKey(col, it) = key
    BY <1>4, <2>4 DEF Sits
  <2>5. e \in ExpectedChildren(r, col) /\ ~KeyUnresolved(col, e.item)
    BY MatchedAreLive
  <2>6. CASE \E o \in Matched(r, col) : d \in ChildFieldDifferences(r, col, o)
    <3>1. PICK o \in Matched(r, col) : d \in ChildFieldDifferences(r, col, o)
      BY <2>6
    <3>2. ItemKey(col, o.item) = key
      BY <2>4, <3>1, DifferencesSit
    <3>3. o \in ExpectedChildren(r, col)
      BY MatchedAreLive
    <3> QED
      BY <2>5, <3>1, <3>2, <3>3, OneExpectedPerKey
  <2>7. CASE \E o \in ExpectedChildren(r, col) \ Matched(r, col) : d = MissingChild(r, col, o, "missing")
    <3>1. PICK o \in ExpectedChildren(r, col) \ Matched(r, col) : d = MissingChild(r, col, o, "missing")
      BY <2>7
    <3>2. Sits(MissingChild(r, col, o, "missing"), r, col, ItemKey(col, o.item))
      BY DifferencesSit
    <3>3. ItemKey(col, o.item) = key
      BY <2>4, <3>1, <3>2
    <3> QED
      BY <2>5, <3>1, <3>3, OneExpectedPerKey
  <2>8. CASE \E li \in Unmatched(r, col) : d = UnexpectedChild(r, col, li)
    <3>1. PICK li \in Unmatched(r, col) : d = UnexpectedChild(r, col, li)
      BY <2>8
    <3>2. ItemKey(col, li) = key
      BY <2>4, <3>1, DifferencesSit
    <3>3. li \in LiveChildren(r, col) /\ li \notin LiveAt(r, col, e.item)
      BY <3>1 DEF Unmatched
    <3> QED
      BY <3>2, <3>3, MatchedAreLive
  <2> QED
    BY <2>3, <2>6, <2>7, <2>8, CollectionDiffersBy
<1> HIDE DEF key
<1> QED
  BY <1>1, <1>3, <1>4 DEF key

(***************************************************************************)
(* Differences of fields, with what is live, tell what is expected.        *)
(***************************************************************************)
Tells(shown, compared, was, is) ==
  /\ \A d \in shown : \E fs \in FieldStatuses(compared, was, is) :
       d.field = fs.field /\ d.status = fs.status /\ d.declared = Only(was, fs.field)
  /\ \A fs \in FieldStatuses(compared, was, is) : \E d \in shown : d.field = fs.field

LEMMA StatusesSay ==
  ASSUME NEW compared, NEW was, NEW is, NEW f \in compared
  PROVE  /\ \A fs \in FieldStatuses(compared, was, is) :
              fs.field = f => fs.status = IF f \in DOMAIN was /\ IsUnresolved(was[f])
                                          THEN "unresolved" ELSE "changed"
         /\ \/ \E fs \in FieldStatuses(compared, was, is) : fs.field = f
            \/ /\ f \in DOMAIN was <=> f \in DOMAIN is
               /\ f \in DOMAIN was => ~IsUnresolved(was[f]) /\ was[f] = is[f]
<1> DEFINE waits(g) == g \in DOMAIN was /\ IsUnresolved(was[g])
           differs(g) == \/ (g \in DOMAIN was) # (g \in DOMAIN is)
                         \/ g \in DOMAIN was /\ was[g] # is[g]
           entry(g) == [field |-> g, status |-> IF waits(g) THEN "unresolved" ELSE "changed"]
<1>1. FieldStatuses(compared, was, is) = {entry(g) : g \in {h \in compared : waits(h) \/ differs(h)}}
  BY Zenon DEF FieldStatuses
<1>2. ASSUME NEW fs \in FieldStatuses(compared, was, is), fs.field = f
      PROVE  fs.status = IF waits(f) THEN "unresolved" ELSE "changed"
  <2>1. PICK g : fs = entry(g)
    BY <1>1
  <2> QED
    BY <1>2, <2>1
<1>3. ASSUME waits(f) \/ differs(f)
      PROVE  \E fs \in FieldStatuses(compared, was, is) : fs.field = f
  <2>1. entry(f) \in FieldStatuses(compared, was, is)
    BY <1>1, <1>3
  <2> QED
    BY <2>1
<1> QED
  BY <1>2, <1>3

GivesField(from, f, was, other) ==
  /\ f \in DOMAIN from <=> f \in DOMAIN was /\ (IsUnresolved(was[f]) => f \in DOMAIN other)
  /\ f \in DOMAIN from => from[f] = IF IsUnresolved(was[f]) THEN other[f] ELSE was[f]

LEMMA PatchedFromHolds ==
  ASSUME NEW shown, NEW compared, NEW was, NEW is, NEW other, Tells(shown, compared, was, is),
         NEW f \in compared
  PROVE  GivesField(PatchedFrom(shown, f, is, other), f, was, other)
<1>1. CASE \A d \in shown : d.field # f
  <2>1. /\ f \in DOMAIN was <=> f \in DOMAIN is
        /\ f \in DOMAIN was => ~IsUnresolved(was[f]) /\ was[f] = is[f]
    BY <1>1, StatusesSay DEF Tells
  <2>2. PatchedFrom(shown, f, is, other) = is
    BY <1>1 DEF PatchedFrom
  <2> QED
    BY <2>1, <2>2 DEF GivesField
<1>2. CASE \E d \in shown : d.field = f
  <2> DEFINE d == CHOOSE e \in shown : e.field = f
  <2>1. d \in shown /\ d.field = f
    BY <1>2
  <2>2. PatchedFrom(shown, f, is, other) = IF d.status = "changed" THEN d.declared ELSE other
    BY <1>2, Zenon DEF PatchedFrom
  <2> HIDE DEF d
  <2>3. PICK fs \in FieldStatuses(compared, was, is) :
          f = fs.field /\ d.status = fs.status /\ d.declared = Only(was, f)
    BY <2>1 DEF Tells
  <2>4. fs.status = IF f \in DOMAIN was /\ IsUnresolved(was[f]) THEN "unresolved" ELSE "changed"
    BY <2>3, StatusesSay
  <2>5. \/ PatchedFrom(shown, f, is, other) = Only(was, f) /\ ~(f \in DOMAIN was /\ IsUnresolved(was[f]))
        \/ PatchedFrom(shown, f, is, other) = other /\ f \in DOMAIN was /\ IsUnresolved(was[f])
    BY <2>2, <2>3, <2>4
  <2>6. /\ f \in DOMAIN Only(was, f) <=> f \in DOMAIN was
        /\ f \in DOMAIN was => Only(was, f)[f] = was[f]
    BY DEF Only, Restrict
  <2> QED
    BY <2>5, <2>6 DEF GivesField
<1> QED
  BY <1>1, <1>2

GivesCompared(patched, compared, was, other) ==
  /\ DOMAIN patched = {f \in compared : f \in DOMAIN was /\ (IsUnresolved(was[f]) => f \in DOMAIN other)}
  /\ \A f \in DOMAIN patched : patched[f] = IF IsUnresolved(was[f]) THEN other[f] ELSE was[f]

LEMMA PatchedHolds ==
  ASSUME NEW shown, NEW compared, NEW was, NEW is, NEW other, Tells(shown, compared, was, is)
  PROVE  GivesCompared(Patched(shown, compared, is, other), compared, was, other)
<1> DEFINE from(f) == PatchedFrom(shown, f, is, other)
           patched == Patched(shown, compared, is, other)
<1>1. patched = [f \in {g \in compared : g \in DOMAIN from(g)} |-> from(f)[f]]
  BY DEF Patched
<1>2. \A f \in compared : GivesField(from(f), f, was, other)
  BY PatchedFromHolds
<1> HIDE DEF patched, from
<1>3. GivesCompared(patched, compared, was, other)
  BY <1>1, <1>2 DEF GivesField, GivesCompared
<1> QED
  BY <1>3 DEF patched

(***************************************************************************)
(* The fields of a declared resource.                                      *)
(***************************************************************************)
LEMMA FieldsTell ==
  ASSUME Reviewable, NEW r \in Declared(set), IsLive(r)
  PROVE  Tells(Shown(PlanID, r, "", NoKey), Fields[TypeOf[r]], ExpectedFields(r), LiveFields(r))
<1> DEFINE failed == {s.field : s \in {t \in FieldSlots(r) : Skipped(t)}}
           expected == ExpectedFields(r)
           source(f) == IF \E s \in FieldSlots(r) : s.field = f
                        THEN (CHOOSE s \in FieldSlots(r) : s.field = f).source ELSE r
           statuses == FieldStatuses(Fields[TypeOf[r]], expected, LiveFields(r))
           told(fs) == Difference(fs.status, r, "", NoKey, fs.field, Only(expected, fs.field),
                                  Only(LiveFields(r), fs.field), source(fs.field))
<1>1. \A s \in FieldSlots(r) : ~Skipped(s)
  BY NothingFailed DEF FieldSlots, SlotsOf
<1>2. failed = {}
  BY <1>1
<1>3. Fields[TypeOf[r]] \ failed = Fields[TypeOf[r]]
  BY <1>2
<1>4. ResourceFieldDifferences(r)
        = {told(fs) : fs \in FieldStatuses(Fields[TypeOf[r]] \ failed, expected, LiveFields(r))}
  BY Zenon DEF ResourceFieldDifferences
<1>5. \A fs : /\ told(fs).field = fs.field /\ told(fs).status = fs.status
              /\ told(fs).declared = Only(expected, fs.field)
  BY DEF Difference
<1> HIDE DEF failed, told, expected
<1>6. ResourceFieldDifferences(r) = {told(fs) : fs \in statuses}
  BY <1>3, <1>4
<1> HIDE DEF statuses
<1>7. Shown(PlanID, r, "", NoKey) = {told(fs) : fs \in statuses}
  BY <1>6, ShownOfFields
<1>8. /\ \A d \in Shown(PlanID, r, "", NoKey) : \E fs \in statuses :
           d.field = fs.field /\ d.status = fs.status /\ d.declared = Only(expected, fs.field)
      /\ \A fs \in statuses : \E d \in Shown(PlanID, r, "", NoKey) : d.field = fs.field
  BY <1>5, <1>7
<1> QED
  BY <1>8, Zenon DEF Tells, statuses, expected

LEMMA ExpectedFieldsAre ==
  ASSUME Reviewable, NEW r \in Declared(set)
  PROVE  LET hand == set.resources[r].fields IN
         /\ DOMAIN hand \subseteq DOMAIN ExpectedFields(r)
         /\ DOMAIN ExpectedFields(r) \subseteq DOMAIN hand \cup Fields[TypeOf[r]]
         /\ \A f \in DOMAIN hand \ Fields[TypeOf[r]] :
              ExpectedFields(r)[f] = hand[f] /\ ~IsUnresolved(hand[f])
<1> DEFINE hand == set.resources[r].fields
<1>0. set \in Sets /\ EverythingRead /\ Readable(r)
  BY NothingFailed DEF Reviewable, EverythingRead
<1>1. /\ DOMAIN hand \subseteq DOMAIN ExpectedFields(r)
      /\ \A f \in DOMAIN hand : ExpectedFields(r)[f] = Resolve(hand[f])
  BY DEF ExpectedFields
<1>2. \A f \in DOMAIN ExpectedFields(r) : f \in GivenBy(set, r)
  BY <1>0, ExpectedFieldsAreGiven
<1>3. \A d \in FieldSlotsOf(set, r) : d.field \in Fields[TypeOf[r]]
  BY <1>0, SetsHoldValues DEF FieldSlotsOf
<1>4. DOMAIN ExpectedFields(r) \subseteq DOMAIN hand \cup Fields[TypeOf[r]]
  BY <1>2, <1>3 DEF GivenBy
<1>5. \A f \in DOMAIN hand \ Fields[TypeOf[r]] : hand[f].kind = "literal"
  BY <1>0 DEF Reviewable, WhatRefersIsCompared
<1>6. \A v : v.kind = "literal" => Resolve(v) = v /\ ~IsUnresolved(v)
  BY DEF Resolve, IsUnresolved
<1> QED
  BY <1>1, <1>4, <1>5, <1>6

LEMMA FieldsAreTold ==
  ASSUME Reviewable, NEW r \in Declared(set)
  PROVE  FieldsTold(PlanID, r) = ResolvedFields(r)
<1> DEFINE expected == ExpectedFields(r)
           hand == set.resources[r].fields
           compared == Fields[TypeOf[r]]
<1>1. ResolvedFields(r) = WithoutUnresolved(expected)
  BY DEF ResolvedFields, WithoutUnresolved
<1>2. CASE ~IsLive(r)
  <2>1. PICK own : own.declared = expected /\ Shown(PlanID, r, "", NoKey) = {own}
    <3>1. \A status : Difference(status, r, "", NoKey, "", expected, NoKey, r).declared = expected
      BY DEF Difference
    <3> QED
      BY <1>2, <3>1, ShownOfAbsent
  <2>2. (CHOOSE d \in Shown(PlanID, r, "", NoKey) : TRUE).declared = expected
    BY <2>1
  <2>3. PlanID.reads[r].found # "live"
    BY <1>2, IdentifierHolds DEF IsLive
  <2> QED
    BY <1>1, <2>2, <2>3 DEF FieldsTold
<1>3. CASE IsLive(r)
  <2> DEFINE shown == Shown(PlanID, r, "", NoKey)
             patched == Patched(shown, compared, LiveFields(r), NoKey)
             others == NotCompared(set, r)
  <2>1. FieldsTold(PlanID, r) = Overridden(others, patched)
    BY <1>3, IdentifierHolds DEF FieldsTold, IsLive, LiveFields
  <2>2. Tells(shown, compared, expected, LiveFields(r))
    BY <1>3, FieldsTell
  <2>3. DOMAIN NoKey = {}
    BY DEF NoKey
  <2>4. GivesCompared(patched, compared, expected, NoKey)
    BY <2>2, PatchedHolds
  <2>5. /\ DOMAIN others = DOMAIN hand \ compared
        /\ \A f \in DOMAIN others : others[f] = hand[f]
    BY DEF NotCompared, Restrict
  <2>6. /\ DOMAIN hand \subseteq DOMAIN expected
        /\ DOMAIN expected \subseteq DOMAIN hand \cup compared
        /\ \A f \in DOMAIN hand \ compared : expected[f] = hand[f] /\ ~IsUnresolved(hand[f])
    BY ExpectedFieldsAre
  <2> HIDE DEF expected, compared, hand, patched, others
  <2>7. DOMAIN others \cup DOMAIN patched = {f \in DOMAIN expected : ~IsUnresolved(expected[f])}
    BY <2>3, <2>4, <2>5, <2>6 DEF GivesCompared
  <2>8. \A f \in DOMAIN others \cup DOMAIN patched :
          (IF f \in DOMAIN patched THEN patched[f] ELSE others[f]) = expected[f]
    BY <2>3, <2>4, <2>5, <2>6 DEF GivesCompared
  <2>9. Overridden(others, patched) = WithoutUnresolved(expected)
    BY <2>7, <2>8 DEF Overridden, WithoutUnresolved, Restrict
  <2> QED
    BY <1>1, <2>1, <2>9
<1> QED
  BY <1>2, <1>3

(***************************************************************************)
(* The children of a declared resource.                                    *)
(***************************************************************************)
LEMMA ExpectedChildrenAre ==
  ASSUME Reviewable, NEW r \in Declared(set), NEW col \in CollectionsOf(r),
         NEW e \in ExpectedChildren(r, col)
  PROVE  IsItem(e.item) /\ DOMAIN e.item \subseteq KeyFields(col, e.item) \cup ItemFields[col]
<1> DEFINE given_ == set.resources[r].children[col] \cup UNION {d.gives : d \in {c \in SlotsOf(set, r) : c.col = col}}
<1>0. set \in Sets
  BY DEF Reviewable, EverythingRead
<1>1. \A it \in given_ : DOMAIN it \subseteq KeyFields(col, it) \cup ItemFields[col]
  BY <1>0, Zenon DEF Reviewable, WhatRefersIsCompared
<1>2. CASE \E it \in set.resources[r].children[col] : e = [item |-> ResolveItem(it), declared |-> it, source |-> r]
  <2>1. PICK it \in set.resources[r].children[col] : e.item = ResolveItem(it)
    BY <1>2
  <2>2. DOMAIN e.item = DOMAIN it /\ IsItem(e.item)
    BY <2>1 DEF ResolveItem, IsItem
  <2>3. KeyFields(col, e.item) = KeyFields(col, it)
    BY <2>2 DEF KeyFields
  <2>4. it \in given_
    BY <2>1
  <2> HIDE DEF given_
  <2> QED
    BY <1>1, <2>2, <2>3, <2>4
<1>3. CASE \E s \in SlotsOn(r, col) : \E it \in s.gives : e = [item |-> it, declared |-> it, source |-> s.source]
  <2>1. PICK s \in SlotsOn(r, col) : e.item \in s.gives
    BY <1>3
  <2>2. s \in {c \in SlotsOf(set, r) : c.col = col} /\ ~IsFieldSlot(s) /\ s \in set.slots
    BY <2>1 DEF SlotsOn, SlotsOf
  <2>3. e.item \in given_
    BY <2>1, <2>2
  <2>4. IsItem(e.item)
    BY <1>0, <2>1, <2>2, SetsHoldValues
  <2> HIDE DEF given_
  <2> QED
    BY <1>1, <2>3, <2>4
<1> QED
  BY <1>2, <1>3, Zenon DEF ExpectedChildren

ResolvedAs(r, col, e) ==
  IF ~HasUnresolved(e.item) THEN {e.item}
  ELSE {ResolvedItem(e.item, li) : li \in LiveAt(r, col, e.item)}

LEMMA ResolvedItemHolds ==
  ASSUME NEW item, NEW li
  PROVE  /\ DOMAIN ResolvedItem(item, li)
              = {g \in DOMAIN item : IsUnresolved(item[g]) => g \in DOMAIN li}
         /\ \A f \in DOMAIN ResolvedItem(item, li) :
              ResolvedItem(item, li)[f] = IF IsUnresolved(item[f]) THEN li[f] ELSE item[f]
BY Zenon DEF ResolvedItem

LEMMA ResolvedItemKeepsItsKey ==
  ASSUME NEW col, NEW item, NEW li, ~KeyUnresolved(col, item)
  PROVE  ItemKey(col, ResolvedItem(item, li)) = ItemKey(col, item)
<1> DEFINE it == ResolvedItem(item, li)
<1>1. \A f \in KeyFields(col, item) \cap DOMAIN item : ~IsUnresolved(item[f])
  BY KeysHold DEF KeyUnresolved
<1>2. /\ DOMAIN it = {g \in DOMAIN item : IsUnresolved(item[g]) => g \in DOMAIN li}
      /\ \A f \in DOMAIN it : it[f] = IF IsUnresolved(item[f]) THEN li[f] ELSE item[f]
  BY ResolvedItemHolds
<1> HIDE DEF it
<1>3. KeyFields(col, it) = KeyFields(col, item)
  BY <1>1, <1>2 DEF KeyFields
<1>4. KeyFields(col, it) \cap DOMAIN it = KeyFields(col, item) \cap DOMAIN item
  BY <1>1, <1>2, <1>3
<1>5. \A f \in KeyFields(col, item) \cap DOMAIN item : it[f] = item[f]
  BY <1>1, <1>2
<1> QED
  BY <1>4, <1>5 DEF ItemKey, Restrict, it

LEMMA ResolvedHaveKeys ==
  ASSUME NEW col, NEW item, ~HasUnresolved(item)
  PROVE  ~KeyUnresolved(col, item)
<1>1. DOMAIN ItemKey(col, item) \subseteq DOMAIN item
  BY KeysHold
<1> QED
  BY <1>1, Zenon DEF HasUnresolved, KeyUnresolved

LEMMA ResolvedKeepTheirKey ==
  ASSUME NEW r, NEW col, NEW e, NEW it \in ResolvedAs(r, col, e)
  PROVE  ~KeyUnresolved(col, e.item) /\ ItemKey(col, it) = ItemKey(col, e.item)
<1>1. CASE ~HasUnresolved(e.item)
  <2>1. ~KeyUnresolved(col, e.item)
    BY <1>1, ResolvedHaveKeys
  <2> QED
    BY <1>1, <2>1 DEF ResolvedAs
<1>2. CASE HasUnresolved(e.item)
  <2>1. PICK li \in LiveAt(r, col, e.item) : it = ResolvedItem(e.item, li)
    BY <1>2 DEF ResolvedAs
  <2>2. ~KeyUnresolved(col, e.item)
    BY <2>1 DEF LiveAt
  <2> QED
    BY <2>1, <2>2, ResolvedItemKeepsItsKey
<1> QED
  BY <1>1, <1>2

LEMMA ResolvedAtAKey ==
  ASSUME Reviewable, NEW r \in Declared(set), NEW col \in CollectionsOf(r),
         NEW e \in ExpectedChildren(r, col), ~KeyUnresolved(col, e.item)
  PROVE  \A it : it \in ResolvedAs(r, col, e)
                   <=> it \in ResolvedChildren(r, col) /\ ItemKey(col, it) = ItemKey(col, e.item)
<1>1. ResolvedChildren(r, col) = UNION {ResolvedAs(r, col, o) : o \in ExpectedChildren(r, col)}
  BY DEF ResolvedChildren, ResolvedAs
<1>2. ASSUME NEW it \in ResolvedChildren(r, col), ItemKey(col, it) = ItemKey(col, e.item)
      PROVE  it \in ResolvedAs(r, col, e)
  <2>1. PICK o \in ExpectedChildren(r, col) : it \in ResolvedAs(r, col, o)
    BY <1>1
  <2>2. ItemKey(col, it) = ItemKey(col, o.item)
    BY <2>1, ResolvedKeepTheirKey
  <2>3. o = e
    BY <1>2, <2>2, OneExpectedPerKey
  <2> QED
    BY <2>1, <2>3
<1>3. \A it \in ResolvedAs(r, col, e) :
        it \in ResolvedChildren(r, col) /\ ItemKey(col, it) = ItemKey(col, e.item)
  BY <1>1, ResolvedKeepTheirKey
<1> QED
  BY <1>2, <1>3

LEMMA LiveChildrenAreData ==
  ASSUME Reviewable, NEW r \in Declared(set), NEW col \in CollectionsOf(r),
         NEW li \in LiveChildren(r, col)
  PROVE  AllLiteral(li)
BY ReadWhatIsAsked DEF LiveChildren, Reviewable, EverythingRead, MemoryInv, HoldsData, IsData

LEMMA MatchedKeysAreData ==
  ASSUME Reviewable, NEW r \in Declared(set), NEW col \in CollectionsOf(r),
         NEW e \in Matched(r, col)
  PROVE  \A f \in DOMAIN ItemKey(col, e.item) : e.item[f].kind = "literal"
<1> DEFINE item == e.item
<1>1. PICK li \in LiveChildren(r, col) : ItemKey(col, li) = ItemKey(col, item)
  BY MatchedAreLive
<1>2. AllLiteral(li)
  BY LiveChildrenAreData
<1> HIDE DEF item
<1>3. \A f \in DOMAIN ItemKey(col, li) : f \in DOMAIN li /\ ItemKey(col, li)[f] = li[f]
  BY KeysHold
<1>4. \A f \in DOMAIN ItemKey(col, item) : ItemKey(col, item)[f] = item[f]
  BY KeysHold
<1>5. \A f \in DOMAIN ItemKey(col, item) : item[f].kind = "literal"
  BY <1>1, <1>2, <1>3, <1>4 DEF AllLiteral
<1> QED
  BY <1>5 DEF item

LEMMA ChildFieldsTell ==
  ASSUME Reviewable, NEW r \in Declared(set), IsLive(r), NEW col \in CollectionsOf(r),
         NEW e \in Matched(r, col), ItemKey(col, e.item) # NoKey
  PROVE  Tells(Shown(PlanID, r, col, ItemKey(col, e.item)), ItemFields[col], e.item,
               CHOOSE li \in LiveAt(r, col, e.item) : TRUE)
<1> DEFINE is == CHOOSE li \in LiveAt(r, col, e.item) : TRUE
           statuses == FieldStatuses(ItemFields[col], e.item, is)
           told(fs) == Difference(fs.status, r, col, ItemKey(col, e.item), fs.field,
                                  Only(e.item, fs.field), Only(is, fs.field), e.source)
           shown == Shown(PlanID, r, col, ItemKey(col, e.item))
<1>1. shown = {told(fs) : fs \in statuses}
  <2>1. shown = ChildFieldDifferences(r, col, e)
    BY ShownOfAChild
  <2> QED
    BY <2>1, ZenonT(60) DEF ChildFieldDifferences
<1>2. \A fs : /\ told(fs).field = fs.field /\ told(fs).status = fs.status
              /\ told(fs).declared = Only(e.item, fs.field)
  BY DEF Difference
<1> HIDE DEF told, statuses, shown
<1>3. /\ \A d \in shown : \E fs \in statuses :
           d.field = fs.field /\ d.status = fs.status /\ d.declared = Only(e.item, fs.field)
      /\ \A fs \in statuses : \E d \in shown : d.field = fs.field
  BY <1>1, <1>2
<1> QED
  BY <1>3, Zenon DEF Tells, statuses, shown

LEMMA PatchedChild ==
  ASSUME NEW col, NEW item, NEW li, NEW patched, ~KeyUnresolved(col, item),
         DOMAIN item \subseteq KeyFields(col, item) \cup ItemFields[col],
         GivesCompared(patched, ItemFields[col], item, li)
  PROVE  Overridden(ItemKey(col, item), patched) = ResolvedItem(item, li)
<1> DEFINE key == ItemKey(col, item)
<1>1. /\ DOMAIN key = KeyFields(col, item) \cap DOMAIN item
      /\ \A f \in DOMAIN key : key[f] = item[f] /\ ~IsUnresolved(item[f])
  BY KeysHold DEF KeyUnresolved
<1> HIDE DEF key
<1>2. DOMAIN key \cup DOMAIN patched = {g \in DOMAIN item : IsUnresolved(item[g]) => g \in DOMAIN li}
  BY <1>1 DEF GivesCompared
<1>3. \A f \in DOMAIN key \cup DOMAIN patched :
        (IF f \in DOMAIN patched THEN patched[f] ELSE key[f])
          = IF IsUnresolved(item[f]) THEN li[f] ELSE item[f]
  BY <1>1 DEF GivesCompared
<1>4. Overridden(key, patched) = ResolvedItem(item, li)
  BY <1>2, <1>3 DEF Overridden, ResolvedItem
<1> QED
  BY <1>4 DEF key

LEMMA ResolvedAsItIs ==
  ASSUME NEW item, NEW li, IsItem(item), ~HasUnresolved(item)
  PROVE  ResolvedItem(item, li) = item
<1>1. \A f \in DOMAIN item : ~IsUnresolved(item[f])
  BY DEF HasUnresolved
<1>2. ResolvedItem(item, li) = [f \in DOMAIN item |-> item[f]]
  BY <1>1 DEF ResolvedItem
<1> QED
  BY <1>2 DEF IsItem

\* A child with a difference shown, as a change of it carries it.
LEMMA ItemsAreTold ==
  ASSUME Reviewable, NEW r \in Declared(set), IsLive(r), NEW col \in CollectionsOf(r),
         NEW e \in Matched(r, col), ItemKey(col, e.item) # NoKey
  PROVE  ItemsTold(PlanID, r, col, ItemKey(col, e.item)) = ResolvedAs(r, col, e)
<1> DEFINE key == ItemKey(col, e.item)
           there == LiveTold(PlanID, r, col, key)
           shown == Shown(PlanID, r, col, key)
           is == CHOOSE one \in there : TRUE
           told(li) == Overridden(key, Patched(shown, ItemFields[col], is, li))
<1>1. there = LiveAt(r, col, e.item)
  <2>1. there = {li \in LiveChildren(r, col) : ItemKey(col, li) = key}
    BY IdentifierHolds DEF LiveTold, LiveChildren
  <2> QED
    BY <2>1, MatchedAreLive DEF LiveAt
<1>2. ItemsTold(PlanID, r, col, key) = {told(li) : li \in LiveAt(r, col, e.item)}
  BY <1>1, Zenon DEF ItemsTold
<1>3. e \in ExpectedChildren(r, col) /\ ~KeyUnresolved(col, e.item) /\ LiveAt(r, col, e.item) # {}
  BY MatchedAreLive
<1>4. IsItem(e.item) /\ DOMAIN e.item \subseteq KeyFields(col, e.item) \cup ItemFields[col]
  BY <1>3, ExpectedChildrenAre
<1>5. Tells(shown, ItemFields[col], e.item, is)
  BY <1>1, ChildFieldsTell
<1> HIDE DEF is, shown, there
<1>6. \A li : GivesCompared(Patched(shown, ItemFields[col], is, li), ItemFields[col], e.item, li)
  BY <1>5, PatchedHolds
<1>7. \A li : told(li) = ResolvedItem(e.item, li)
  BY <1>3, <1>4, <1>6, PatchedChild
<1> HIDE DEF told, key
<1>8. ItemsTold(PlanID, r, col, key) = {ResolvedItem(e.item, li) : li \in LiveAt(r, col, e.item)}
  BY <1>2, <1>7
<1>9. CASE HasUnresolved(e.item)
  BY <1>8, <1>9 DEF ResolvedAs, key
<1>10. CASE ~HasUnresolved(e.item)
  <2>1. \A li : ResolvedItem(e.item, li) = e.item
    BY <1>4, <1>10, ResolvedAsItIs
  <2>2. {ResolvedItem(e.item, li) : li \in LiveAt(r, col, e.item)} = {e.item}
    BY <1>3, <2>1
  <2> QED
    BY <1>8, <1>10, <2>2 DEF ResolvedAs, key
<1> QED
  BY <1>9, <1>10

(***************************************************************************)
(* The differences of children, and the items of the changes they call for. *)
(***************************************************************************)
ChildDiffers(r, col, d) ==
  \/ IsLive(r) /\ \E e \in Matched(r, col) : d \in ChildFieldDifferences(r, col, e)
  \/ \E e \in ExpectedChildren(r, col), status \in {"missing", "unresolved"} :
       d = MissingChild(r, col, e, status)
  \/ \E li \in LiveChildren(r, col) : d = UnexpectedChild(r, col, li)

LEMMA ChildDiffersBy ==
  ASSUME Reviewable, NEW r \in Declared(set), NEW d \in ResourceDifferences(r), d.col # ""
  PROVE  \/ d \in SlotDifferences(r)
         \/ d.col \in CollectionsOf(r) /\ ChildDiffers(r, d.col, d)
<1>1. d \notin ResourceFieldDifferences(r)
  <2>1. ASSUME d \in ResourceFieldDifferences(r) PROVE Sits(d, r, "", NoKey)
    BY <2>1, DifferencesSit
  <2> QED
    BY <2>1 DEF Sits
<1>2. CASE d \in SlotDifferences(r)
  BY <1>2
<1>3. CASE IsLive(r) /\ d \notin SlotDifferences(r)
  <2>1. d \in UNION {CollectionDifferences(r, c) : c \in CollectionsOf(r)}
    BY <1>1, <1>3, Zenon DEF ResourceDifferences
  <2>2. PICK col \in CollectionsOf(r) : d \in CollectionDifferences(r, col)
    BY <2>1
  <2>3. d.col = col
    BY <2>2, ChildrenDifferInTheirCollection
  <2>4. Matched(r, col) \subseteq ExpectedChildren(r, col) /\ Unmatched(r, col) \subseteq LiveChildren(r, col)
    BY DEF Matched, Unmatched
  <2>5. ChildDiffers(r, col, d)
    BY <1>3, <2>2, <2>4, CollectionDiffersBy, Zenon DEF ChildDiffers
  <2> QED
    BY <2>3, <2>5
<1>4. CASE ~IsLive(r) /\ d \notin SlotDifferences(r)
  <2> DEFINE expected == ExpectedFields(r)
             status == IF HasUnresolved(expected) THEN "unresolved" ELSE "missing"
             children == UNION {{col} \X ExpectedChildren(r, col) : col \in CollectionsOf(r)}
             own == Difference(status, r, "", NoKey, "", expected, NoKey, r)
             others == {MissingChild(r, p[1], p[2], status) : p \in children}
  <2>1. d \in {own} \cup others
    BY <1>4, Zenon DEF ResourceDifferences, MissingDifferences
  <2>2. own.col = ""
    BY DEF Difference
  <2>3. d \in others
    BY <2>1, <2>2
  <2>4. PICK p \in children : d = MissingChild(r, p[1], p[2], status)
    BY <2>3
  <2>5. p[1] \in CollectionsOf(r) /\ p[2] \in ExpectedChildren(r, p[1])
    <3>1. PICK col \in CollectionsOf(r) : p \in {col} \X ExpectedChildren(r, col)
      OBVIOUS
    <3> QED
      BY <3>1
  <2>6. status \in {"missing", "unresolved"}
    OBVIOUS
  <2> HIDE DEF status
  <2>7. Sits(d, r, p[1], ItemKey(p[1], p[2].item))
    BY <2>4, DifferencesSit
  <2>8. ChildDiffers(r, p[1], d)
    BY <2>4, <2>5, <2>6, Zenon DEF ChildDiffers
  <2> QED
    BY <2>5, <2>7, <2>8 DEF Sits
<1> QED
  BY <1>2, <1>3, <1>4

OfMissing(d, col, item, status) ==
  /\ d.status = IF HasUnresolved(item) THEN "unresolved" ELSE status
  /\ d.key = ItemKey(col, item) /\ d.declared = NonKeyFields(col, item)

LEMMA MissingHolds ==
  ASSUME NEW r, NEW col, NEW e, NEW status
  PROVE  OfMissing(MissingChild(r, col, e, status), col, e.item, status)
BY DEF OfMissing, MissingChild, Difference

LEMMA ChildFieldHolds ==
  ASSUME NEW r, NEW col, NEW e, NEW d \in ChildFieldDifferences(r, col, e)
  PROVE  /\ d.status \in {"unresolved", "changed"} /\ d.key = ItemKey(col, e.item)
         /\ \E f : d.declared = Only(e.item, f)
<1>1. PICK fs \in FieldStatuses(ItemFields[col], e.item, CHOOSE li \in LiveAt(r, col, e.item) : TRUE) :
        \E is : d = Difference(fs.status, r, col, ItemKey(col, e.item), fs.field,
                               Only(e.item, fs.field), is, e.source)
  BY ZenonT(60) DEF ChildFieldDifferences
<1>2. fs.status \in {"unresolved", "changed"}
  BY FieldsDifferForAReason
<1> QED
  BY <1>1, <1>2 DEF Difference

OfUnexpected(d, col, li) ==
  d.status = "unexpected" /\ d.key = ItemKey(col, li) /\ d.declared = NoKey

LEMMA UnexpectedHolds ==
  ASSUME NEW r, NEW col, NEW li
  PROVE  OfUnexpected(UnexpectedChild(r, col, li), col, li)
BY DEF OfUnexpected, UnexpectedChild, Difference

\* A child is its key and the rest.
LEMMA KeyAndRest ==
  ASSUME NEW col, NEW it, IsItem(it)
  PROVE  Overridden(ItemKey(col, it), NonKeyFields(col, it)) = it
<1>1. Overridden(ItemKey(col, it), NonKeyFields(col, it)) = [f \in DOMAIN it |-> it[f]]
  BY DEF Overridden, ItemKey, NonKeyFields, Restrict
<1> QED
  BY <1>1 DEF IsItem

LEMMA ItemIsTold ==
  ASSUME Reviewable, NEW r \in Declared(set), NEW d \in ResourceDifferences(r),
         d.col # "", d.key # NoKey, d.status \in {"missing", "changed", "unexpected"}
  PROVE  ItemTold(PlanID, d) = ItemFor(d)
<1> DEFINE col == d.col
<1>1. d.res = r
  BY DifferencesNameTheirResource
<1>2. col \in CollectionsOf(r) /\ ChildDiffers(r, col, d)
  BY ChildDiffersBy, SlotDifferencesSit
<1>3. CASE d.status = "unexpected"
  BY <1>3 DEF ItemTold, ItemFor
<1> DEFINE carried == {it \in ResolvedChildren(r, col) : ItemKey(col, it) = d.key}
<1>4. /\ d.status = "missing" => ItemTold(PlanID, d) = Overridden(d.key, d.declared)
      /\ d.status = "changed" =>
           ItemTold(PlanID, d) = CHOOSE it \in ItemsTold(PlanID, r, col, d.key) : TRUE
  BY <1>1 DEF ItemTold
<1>5. d.status # "unexpected" /\ carried # {} => ItemFor(d) = CHOOSE it \in carried : TRUE
  BY <1>1, Zenon DEF ItemFor
<1>6. CASE IsLive(r) /\ \E e \in Matched(r, col) : d \in ChildFieldDifferences(r, col, e)
  <2>1. PICK e \in Matched(r, col) : d \in ChildFieldDifferences(r, col, e)
    BY <1>6
  <2>2. d.status = "changed" /\ d.key = ItemKey(col, e.item)
    BY <2>1, ChildFieldHolds
  <2>3. /\ e \in ExpectedChildren(r, col) /\ ~KeyUnresolved(col, e.item)
        /\ LiveAt(r, col, e.item) # {}
    BY MatchedAreLive
  <2> HIDE DEF col
  <2>4. carried = ResolvedAs(r, col, e)
    <3>1. \A it : it \in ResolvedAs(r, col, e)
                    <=> it \in ResolvedChildren(r, col) /\ ItemKey(col, it) = ItemKey(col, e.item)
      BY <1>2, <2>3, ResolvedAtAKey
    <3> QED
      BY <2>2, <3>1
  <2>5. ItemsTold(PlanID, r, col, d.key) = ResolvedAs(r, col, e)
    BY <1>2, <1>6, <2>2, ItemsAreTold
  <2>6. carried # {}
    BY <2>3, <2>4 DEF ResolvedAs
  <2> QED
    BY <1>4, <1>5, <2>2, <2>4, <2>5, <2>6
<1>7. CASE \E e \in ExpectedChildren(r, col), status \in {"missing", "unresolved"} :
             d = MissingChild(r, col, e, status)
  <2>1. PICK e \in ExpectedChildren(r, col), status \in {"missing", "unresolved"} :
          d = MissingChild(r, col, e, status)
    BY <1>7
  <2> HIDE DEF col
  <2>2. OfMissing(d, col, e.item, status)
    BY <2>1, MissingHolds
  <2>3. /\ d.status = "missing" /\ ~HasUnresolved(e.item)
        /\ d.key = ItemKey(col, e.item) /\ d.declared = NonKeyFields(col, e.item)
    BY <2>1, <2>2 DEF OfMissing
  <2>4. ~KeyUnresolved(col, e.item)
    BY <2>3, ResolvedHaveKeys
  <2>5. carried = {e.item}
    <3>1. ResolvedAs(r, col, e) = {e.item}
      BY <2>3 DEF ResolvedAs
    <3>2. \A it : it \in ResolvedAs(r, col, e)
                    <=> it \in ResolvedChildren(r, col) /\ ItemKey(col, it) = ItemKey(col, e.item)
      BY <1>2, <2>4, ResolvedAtAKey
    <3> QED
      BY <2>3, <3>1, <3>2
  <2>6. Overridden(d.key, d.declared) = e.item
    BY <1>2, <2>3, ExpectedChildrenAre, KeyAndRest
  <2> QED
    BY <1>4, <1>5, <2>3, <2>5, <2>6
<1>8. CASE \E li \in LiveChildren(r, col) : d = UnexpectedChild(r, col, li)
  BY <1>3, <1>8, UnexpectedHolds DEF OfUnexpected
<1> QED
  BY <1>2, <1>6, <1>7, <1>8 DEF ChildDiffers

(***************************************************************************)
(* The pending values a change holds.                                      *)
(***************************************************************************)
\* Every expected child either is live or differs.
LEMMA ChildrenDiffer ==
  ASSUME Reviewable, NEW r \in Declared(set), NEW col \in CollectionsOf(r),
         NEW e \in ExpectedChildren(r, col)
  PROVE  /\ e \in Matched(r, col) =>
              IsLive(r) /\ \A d \in ChildFieldDifferences(r, col, e) : d \in ResourceDifferences(r)
         /\ e \notin Matched(r, col) =>
              \E status \in {"missing", "unresolved"} :
                MissingChild(r, col, e, status) \in ResourceDifferences(r)
<1>1. CASE IsLive(r)
  <2>1. ResourceDifferences(r)
          = SlotDifferences(r) \cup (ResourceFieldDifferences(r)
              \cup UNION {CollectionDifferences(r, c) : c \in CollectionsOf(r)})
    BY <1>1, NothingFailed, Zenon DEF ResourceDifferences
  <2>2. \A d \in CollectionDifferences(r, col) : d \in ResourceDifferences(r)
    BY <2>1
  <2>3. ASSUME e \in Matched(r, col), NEW d \in ChildFieldDifferences(r, col, e)
        PROVE  d \in CollectionDifferences(r, col)
    <3>1. d \in UNION {ChildFieldDifferences(r, col, o) : o \in Matched(r, col)}
      BY <2>3
    <3> QED
      BY <3>1, Zenon DEF CollectionDifferences
  <2>4. e \notin Matched(r, col) => MissingChild(r, col, e, "missing") \in CollectionDifferences(r, col)
    BY Zenon DEF CollectionDifferences
  <2> QED
    BY <1>1, <2>2, <2>3, <2>4
<1>2. CASE ~IsLive(r)
  <2> DEFINE expected == ExpectedFields(r)
             status == IF HasUnresolved(expected) THEN "unresolved" ELSE "missing"
             children == UNION {{c} \X ExpectedChildren(r, c) : c \in CollectionsOf(r)}
             own == Difference(status, r, "", NoKey, "", expected, NoKey, r)
             others == {MissingChild(r, p[1], p[2], status) : p \in children}
  <2>1. ResourceDifferences(r) = SlotDifferences(r) \cup ({own} \cup others)
    BY <1>2, NothingFailed, Zenon DEF ResourceDifferences, MissingDifferences
  <2>2. <<col, e>> \in children
    OBVIOUS
  <2>3. MissingChild(r, <<col, e>>[1], <<col, e>>[2], status) \in others
    BY <2>2
  <2>4. MissingChild(r, col, e, status) \in others
    BY <2>3
  <2>5. e \notin Matched(r, col)
    BY <1>2 DEF Matched, LiveAt, LiveChildren
  <2>6. status \in {"missing", "unresolved"}
    OBVIOUS
  <2> HIDE DEF others, own, status
  <2> QED
    BY <2>1, <2>4, <2>5, <2>6
<1> QED
  BY <1>1, <1>2

LEMMA SlotDifferencesHold ==
  ASSUME NEW r, NEW d \in SlotDifferences(r)
  PROVE  \E v \in Range(d.declared) : IsUnresolved(v)
<1>1. PICK s \in SlotsOf(set, r) : \E status, source :
        d = Difference(status, r, s.col, NoKey, "", With(NoKey, "why", Reason(s)), NoKey, source)
  BY Zenon DEF SlotDifferences
<1>2. d.declared = With(NoKey, "why", Reason(s))
  <2>1. \A status, col, key, field, was, is, source :
          Difference(status, r, col, key, field, was, is, source).declared = was
    BY DEF Difference
  <2> DEFINE why == With(NoKey, "why", Reason(s))
             key == NoKey
             field == ""
             col == s.col
  <2>2. \E status, source, is : d = Difference(status, r, col, key, field, why, is, source)
    BY <1>1
  <2> HIDE DEF why, key, field, col
  <2>3. d.declared = why
    BY <2>1, <2>2
  <2> QED
    BY <2>3 DEF why
<1>3. Reason(s) \in Range(d.declared)
  BY <1>2 DEF With, Range
<1>4. IsUnresolved(Reason(s))
  BY DEF IsUnresolved, Reason
<1> QED
  BY <1>3, <1>4

\* What a child carries is live or given for it.
LEMMA ResolvedValues ==
  ASSUME NEW r, NEW col, NEW e, NEW it \in ResolvedAs(r, col, e), NEW f \in DOMAIN it
  PROVE  /\ f \in DOMAIN e.item
         /\ \/ it[f] = e.item[f] /\ ~IsUnresolved(e.item[f])
            \/ \E li \in LiveAt(r, col, e.item) : f \in DOMAIN li /\ it[f] = li[f]
<1>1. CASE ~HasUnresolved(e.item)
  BY <1>1 DEF ResolvedAs, HasUnresolved
<1>2. CASE HasUnresolved(e.item)
  <2> DEFINE item == e.item
  <2>1. PICK li \in LiveAt(r, col, item) : it = ResolvedItem(item, li)
    BY <1>2 DEF ResolvedAs
  <2> HIDE DEF item
  <2>2. /\ DOMAIN it = {g \in DOMAIN item : IsUnresolved(item[g]) => g \in DOMAIN li}
        /\ it[f] = IF IsUnresolved(item[f]) THEN li[f] ELSE item[f]
    BY <2>1, ResolvedItemHolds
  <2>3. /\ f \in DOMAIN item
        /\ \/ it[f] = item[f] /\ ~IsUnresolved(item[f])
           \/ f \in DOMAIN li /\ it[f] = li[f]
    BY <2>2
  <2> QED
    BY <2>1, <2>3 DEF item
<1> QED
  BY <1>1, <1>2

LEMMA GivenAreResolved ==
  ASSUME NEW r, NEW col, NEW e, NEW f \in DOMAIN e.item, ~IsUnresolved(e.item[f]),
         LiveAt(r, col, e.item) # {} \/ ~HasUnresolved(e.item)
  PROVE  \E it \in ResolvedAs(r, col, e) : e.item[f] \in Range(it)
<1>1. CASE ~HasUnresolved(e.item)
  BY <1>1 DEF ResolvedAs, Range
<1>2. CASE HasUnresolved(e.item)
  <2>1. PICK li \in LiveAt(r, col, e.item) : TRUE
    BY <1>2
  <2> DEFINE it == ResolvedItem(e.item, li)
  <2>2. f \in DOMAIN it /\ it[f] = e.item[f]
    BY ResolvedItemHolds
  <2>3. it \in ResolvedAs(r, col, e)
    BY <1>2, <2>1 DEF ResolvedAs
  <2> HIDE DEF it
  <2> QED
    BY <2>2, <2>3 DEF Range
<1> QED
  BY <1>1, <1>2

LEMMA KeyAndRestHold ==
  ASSUME NEW col, NEW it
  PROVE  \A v : v \in Range(it) <=> v \in Range(ItemKey(col, it)) \cup Range(NonKeyFields(col, it))
BY DEF ItemKey, NonKeyFields, Restrict, Range

HeldByAChild(r, v) ==
  \E col \in CollectionsOf(r) : \E e \in ExpectedChildren(r, col) :
    \E it \in ResolvedAs(r, col, e) : v \in Range(it)

LEMMA ShownAreHeld ==
  ASSUME Reviewable, NEW r \in Declared(set), NEW d \in ChildrenShown(PlanID, r),
         NEW v \in Range(d.key) \cup Range(d.declared), v.kind = "pending"
  PROVE  HeldByAChild(r, v)
<1>1. /\ d \in ResourceDifferences(r) /\ d.col # ""
      /\ \A w \in Range(d.key) \cup Range(d.declared) : ~IsUnresolved(w)
  <2>1. d \in Differences /\ d.res = r
    BY IdentifierHolds DEF ChildrenShown
  <2>2. PICK q \in Declared(set) : d \in ResourceDifferences(q)
    BY <2>1, OnlyResourcesDiffer
  <2>3. q = r
    BY <2>1, <2>2, DifferencesNameTheirResource
  <2> QED
    BY <2>2, <2>3, Zenon DEF ChildrenShown
<1> DEFINE col == d.col
<1>2. col \in CollectionsOf(r) /\ ChildDiffers(r, col, d)
  BY <1>1, ChildDiffersBy, SlotDifferencesHold
<1> HIDE DEF col
<1>3. CASE \E e \in Matched(r, col) : d \in ChildFieldDifferences(r, col, e)
  <2>1. PICK e \in Matched(r, col) : d \in ChildFieldDifferences(r, col, e)
    BY <1>3
  <2>2. d.key = ItemKey(col, e.item) /\ \E f : d.declared = Only(e.item, f)
    BY <2>1, ChildFieldHolds
  <2>3. e \in ExpectedChildren(r, col) /\ LiveAt(r, col, e.item) # {}
    BY MatchedAreLive
  <2>4. PICK f \in DOMAIN e.item : v = e.item[f]
    BY <2>2 DEF Range, ItemKey, Only, Restrict
  <2>5. ~IsUnresolved(v)
    BY <1>1
  <2> QED
    BY <1>2, <2>3, <2>4, <2>5, GivenAreResolved DEF HeldByAChild
<1>4. CASE \E e \in ExpectedChildren(r, col), status \in {"missing", "unresolved"} :
             d = MissingChild(r, col, e, status)
  <2>1. PICK e \in ExpectedChildren(r, col), status \in {"missing", "unresolved"} :
          d = MissingChild(r, col, e, status)
    BY <1>4
  <2> DEFINE item == e.item
  <2>2. OfMissing(d, col, item, status)
    BY <2>1, MissingHolds
  <2> HIDE DEF item
  <2>3. \A w : w \in Range(item) <=> w \in Range(d.key) \cup Range(d.declared)
    BY <2>2, KeyAndRestHold DEF OfMissing
  <2>4. ~HasUnresolved(item)
    BY <1>1, <2>3 DEF HasUnresolved, Range
  <2>5. item \in ResolvedAs(r, col, e)
    BY <2>4 DEF ResolvedAs, item
  <2> QED
    BY <1>2, <2>1, <2>3, <2>5, Zenon DEF HeldByAChild
<1>5. CASE \E li \in LiveChildren(r, col) : d = UnexpectedChild(r, col, li)
  <2>1. PICK li \in LiveChildren(r, col) : d = UnexpectedChild(r, col, li)
    BY <1>5
  <2>2. d.key = ItemKey(col, li) /\ d.declared = NoKey
    BY <2>1, UnexpectedHolds DEF OfUnexpected
  <2>3. v \in Range(li)
    BY <2>2 DEF Range, ItemKey, Restrict, NoKey
  <2>4. AllLiteral(li)
    BY <1>2, LiveChildrenAreData
  <2> QED
    BY <2>3, <2>4 DEF AllLiteral, Range
<1> QED
  BY <1>2, <1>3, <1>4, <1>5 DEF ChildDiffers

ShownOfAValue(d, v) ==
  /\ d.col # "" /\ v \in Range(d.key) \cup Range(d.declared)
  /\ \A w \in Range(d.key) \cup Range(d.declared) : ~IsUnresolved(w)

LEMMA MatchedHeldAreShown ==
  ASSUME Reviewable, NEW r \in Declared(set), NEW col \in CollectionsOf(r),
         NEW e \in Matched(r, col), NEW it \in ResolvedAs(r, col, e), NEW v \in Range(it),
         v.kind = "pending"
  PROVE  \E d \in ChildFieldDifferences(r, col, e) : ShownOfAValue(d, v)
<1> DEFINE item == e.item
           is == CHOOSE li \in LiveAt(r, col, item) : TRUE
           statuses == FieldStatuses(ItemFields[col], item, is)
           told(fs) == Difference(fs.status, r, col, ItemKey(col, item), fs.field,
                                  Only(item, fs.field), Only(is, fs.field), e.source)
<1>1. /\ e \in ExpectedChildren(r, col) /\ is \in LiveAt(r, col, item)
      /\ \A li \in LiveAt(r, col, item) : li \in LiveChildren(r, col)
  BY MatchedAreLive
<1>2. \A li \in LiveAt(r, col, item) : AllLiteral(li)
  BY <1>1, LiveChildrenAreData
<1>3. PICK f \in DOMAIN item : v = item[f] /\ ~IsUnresolved(item[f])
  <2>1. PICK f \in DOMAIN it : v = it[f]
    BY DEF Range
  <2>2. /\ f \in DOMAIN item
        /\ \/ it[f] = item[f] /\ ~IsUnresolved(item[f])
           \/ \E li \in LiveAt(r, col, item) : f \in DOMAIN li /\ it[f] = li[f]
    BY ResolvedValues
  <2> HIDE DEF item
  <2> QED
    BY <1>2, <2>1, <2>2 DEF AllLiteral
<1>4. \A g \in DOMAIN ItemKey(col, item) : item[g].kind = "literal"
  BY MatchedKeysAreData
<1>5. DOMAIN item \subseteq KeyFields(col, item) \cup ItemFields[col]
  BY <1>1, ExpectedChildrenAre
<1>6. ChildFieldDifferences(r, col, e) = {told(fs) : fs \in statuses}
  BY ZenonT(60) DEF ChildFieldDifferences
<1>7. \A fs : /\ told(fs).col = col /\ told(fs).key = ItemKey(col, item)
              /\ told(fs).declared = Only(item, fs.field)
  BY DEF Difference
<1> HIDE DEF told, is, item
<1>8. f \in ItemFields[col]
  <2>1. DOMAIN ItemKey(col, item) = KeyFields(col, item) \cap DOMAIN item
    BY KeysHold
  <2>2. f \notin DOMAIN ItemKey(col, item)
    BY <1>3, <1>4
  <2> QED
    BY <1>5, <2>1, <2>2
<1>9. PICK fs \in statuses : fs.field = f
  <2>1. f \in DOMAIN is => item[f] # is[f]
    BY <1>1, <1>2, <1>3 DEF AllLiteral
  <2> QED
    BY <1>3, <1>8, <2>1, StatusesSay
<1> HIDE DEF statuses
<1>10. told(fs) \in ChildFieldDifferences(r, col, e)
  BY <1>6, <1>9
<1>11. Range(ItemKey(col, item)) \cup Range(Only(item, f))
         = {item[g] : g \in DOMAIN ItemKey(col, item)} \cup {v}
  BY <1>3 DEF Range, ItemKey, Only, Restrict
<1>12. col # ""
  BY CollectionsAreNamed
<1>13. ShownOfAValue(told(fs), v)
  <2>1. \A w : w.kind = "literal" => ~IsUnresolved(w)
    BY DEF IsUnresolved
  <2>2. /\ told(fs).col = col /\ told(fs).key = ItemKey(col, item)
        /\ told(fs).declared = Only(item, f)
    BY <1>7, <1>9
  <2>3. \A w \in Range(ItemKey(col, item)) \cup Range(Only(item, f)) : ~IsUnresolved(w)
    BY <1>3, <1>4, <1>11, <2>1
  <2>4. v \in Range(ItemKey(col, item)) \cup Range(Only(item, f))
    BY <1>11
  <2> QED
    BY <1>12, <2>2, <2>3, <2>4 DEF ShownOfAValue
<1> QED
  BY <1>10, <1>13

LEMMA HeldAreShown ==
  ASSUME Reviewable, NEW r \in Declared(set), NEW v, v.kind = "pending", HeldByAChild(r, v)
  PROVE  \E d \in ChildrenShown(PlanID, r) : v \in Range(d.key) \cup Range(d.declared)
<1>1. PICK col \in CollectionsOf(r) : \E e \in ExpectedChildren(r, col) :
        \E it \in ResolvedAs(r, col, e) : v \in Range(it)
  BY DEF HeldByAChild
<1>2. PICK e \in ExpectedChildren(r, col) : \E it \in ResolvedAs(r, col, e) : v \in Range(it)
  BY <1>1
<1>3. PICK it \in ResolvedAs(r, col, e) : v \in Range(it)
  BY <1>2
<1>4. SUFFICES \E d \in ResourceDifferences(r) : ShownOfAValue(d, v)
  BY OnlyResourcesDiffer, DifferencesNameTheirResource, IdentifierHolds
     DEF ChildrenShown, ShownOfAValue
<1>5. CASE e \in Matched(r, col)
  <2>1. PICK d \in ChildFieldDifferences(r, col, e) : ShownOfAValue(d, v)
    BY <1>3, <1>5, MatchedHeldAreShown
  <2>2. d \in ResourceDifferences(r)
    BY <1>5, <2>1, ChildrenDiffer
  <2> QED
    BY <2>1, <2>2
<1>6. CASE e \notin Matched(r, col)
  <2> DEFINE item == e.item
  <2>1. PICK status : MissingChild(r, col, e, status) \in ResourceDifferences(r)
    BY <1>6, ChildrenDiffer
  <2> DEFINE d == MissingChild(r, col, e, status)
  <2>2. ~HasUnresolved(item) /\ it = item
    BY <1>6 DEF Matched, ResolvedAs
  <2>3. OfMissing(d, col, item, status) /\ Sits(d, r, col, ItemKey(col, item))
    BY MissingHolds, DifferencesSit
  <2> HIDE DEF d, item
  <2>4. \A w : w \in Range(item) <=> w \in Range(d.key) \cup Range(d.declared)
    BY <2>3, KeyAndRestHold DEF OfMissing
  <2>5. \A w \in Range(item) : ~IsUnresolved(w)
    BY <2>2 DEF HasUnresolved, Range
  <2>6. ShownOfAValue(d, v)
    BY <1>3, <2>2, <2>3, <2>4, <2>5, CollectionsAreNamed DEF ShownOfAValue, Sits
  <2> QED
    BY <2>1, <2>6 DEF d
<1> QED
  BY <1>5, <1>6

LEMMA HoldsAreTold ==
  ASSUME Reviewable, NEW r \in Declared(set)
  PROVE  HoldsTold(PlanID, r) = PendingsOf(r)
<1> DEFINE fields == Range(ResolvedFields(r))
           shown == UNION {Range(d.key) \cup Range(d.declared) : d \in ChildrenShown(PlanID, r)}
           held == UNION {ValuesOf(ResolvedChildren(r, col)) : col \in CollectionsOf(r)}
<1>1. HoldsTold(PlanID, r) = PendingsIn(fields \cup shown)
  BY FieldsAreTold DEF HoldsTold
<1>2. PendingsOf(r) = PendingsIn(fields \cup held)
  BY DEF PendingsOf
<1>3. \A v : v \in held <=> HeldByAChild(r, v)
  <2>1. \A col : ResolvedChildren(r, col) = UNION {ResolvedAs(r, col, e) : e \in ExpectedChildren(r, col)}
    BY DEF ResolvedChildren, ResolvedAs
  <2>2. \A v, col : v \in ValuesOf(ResolvedChildren(r, col))
                      <=> \E e \in ExpectedChildren(r, col) :
                            \E it \in ResolvedAs(r, col, e) : v \in Range(it)
    BY <2>1, SMT DEF ValuesOf
  <2> QED
    BY <2>2, SMT DEF HeldByAChild
<1>4. \A v : v.kind = "pending" => (v \in shown <=> HeldByAChild(r, v))
  BY ShownAreHeld, HeldAreShown
<1> HIDE DEF fields, shown, held
<1> QED
  BY <1>1, <1>2, <1>3, <1>4 DEF PendingsIn

(***************************************************************************)
(* The deferred changes, and all of them.                                  *)
(***************************************************************************)
SlotDifference(s) ==
  Difference(IF IsPending(s) THEN "missing" ELSE "unresolved", s.target, s.col, NoKey,
             "", With(NoKey, "why", Reason(s)), NoKey, s.source)

LEMMA SlotDifferencesAre ==
  ASSUME NEW r
  PROVE  \A d : d \in SlotDifferences(r)
                  <=> \E s \in SlotsOf(set, r) : /\ ~IsFieldSlot(s) /\ Unresolved(s)
                                                 /\ d = SlotDifference(s)
<1> DEFINE told(s) == Difference(IF IsPending(s) THEN "missing" ELSE "unresolved", r, s.col, NoKey,
                                 "", With(NoKey, "why", Reason(s)), NoKey, s.source)
           waiting == {t \in SlotsOf(set, r) : ~IsFieldSlot(t) /\ Unresolved(t)}
<1>1. SlotDifferences(r) = {told(s) : s \in waiting}
  BY Zenon DEF SlotDifferences
<1>2. \A s \in SlotsOf(set, r) : told(s) = SlotDifference(s)
  BY Zenon DEF SlotsOf, SlotDifference
<1>3. \A s : s \in waiting <=> s \in SlotsOf(set, r) /\ ~IsFieldSlot(s) /\ Unresolved(s)
  OBVIOUS
<1> HIDE DEF told, waiting
<1> QED
  BY <1>1, <1>2, <1>3

SaysWhy(d, s) ==
  /\ d.status = IF IsPending(s) THEN "missing" ELSE "unresolved"
  /\ d.declared = With(NoKey, "why", Reason(s))

LEMMA SlotDifferenceSays ==
  ASSUME NEW s
  PROVE  SaysWhy(SlotDifference(s), s)
BY DEF SaysWhy, SlotDifference, Difference

LEMMA ReasonsAreOfOneSlot ==
  ASSUME Reviewable, NEW s \in set.slots, NEW t \in set.slots,
         With(NoKey, "why", Reason(s)) = With(NoKey, "why", Reason(t))
  PROVE  s = t
<1>1. With(NoKey, "why", Reason(s))["why"] = Reason(s) /\ With(NoKey, "why", Reason(t))["why"] = Reason(t)
  BY DEF With
<1>2. s.name = t.name
  BY <1>1 DEF Reason
<1> QED
  BY <1>2, SetsHoldValues DEF Reviewable, EverythingRead

\* A deferred change is told by the difference its slot makes.
WaitsFor(s) ==
  Difference("missing", s.target, s.col, NoKey, "", With(NoKey, "why", Reason(s)), NoKey, s.source)

LEMMA WaitingIsShown ==
  ASSUME Reviewable, NEW s \in set.slots, ~IsFieldSlot(s)
  PROVE  WaitsShown(PlanID, s) <=> IsPending(s)
<1> DEFINE d == WaitsFor(s)
           r == s.target
<1>1. /\ d.status = "missing" /\ d.res = r /\ d.col = s.col
      /\ d.declared = With(NoKey, "why", Reason(s))
  BY DEF WaitsFor, Difference
<1>2. WaitsShown(PlanID, s) <=> d \in Differences
  BY IdentifierHolds DEF WaitsShown, WaitsFor
<1>3. r \in Declared(set) /\ s.col \in CollectionsOf(r)
  BY SetsAreLoaded DEF LoadChecked, Reviewable, EverythingRead
<1>4. d.col # ""
  BY <1>1, <1>3, CollectionsAreNamed
<1>5. ASSUME IsPending(s) PROVE d \in Differences
  <2>1. Unresolved(s) /\ s \in SlotsOf(set, r)
    BY <1>5 DEF IsPending, SlotsOf
  <2>2. d = SlotDifference(s)
    BY <1>5 DEF SlotDifference, WaitsFor
  <2> HIDE DEF d, r
  <2>3. d \in SlotDifferences(r)
    BY <2>1, <2>2, SlotDifferencesAre
  <2>4. d \in ResourceDifferences(r)
    BY <1>3, <2>3, NothingFailed, Zenon DEF ResourceDifferences
  <2> QED
    BY <1>3, <2>4, OnlyResourcesDiffer
<1>6. ASSUME d \in Differences PROVE IsPending(s)
  <2> HIDE DEF d, r
  <2>1. PICK q \in Declared(set) : d \in ResourceDifferences(q)
    BY <1>6, OnlyResourcesDiffer
  <2>2. d \in ResourceDifferences(r)
    BY <1>1, <2>1, DifferencesNameTheirResource
  <2>3. Reason(s) \in Range(d.declared) /\ IsUnresolved(Reason(s))
    <3>1. Reason(s) \in Range(With(NoKey, "why", Reason(s)))
      BY DEF With, Range
    <3> QED
      BY <1>1, <3>1 DEF IsUnresolved, Reason
  <2>4. ~ChildDiffers(r, d.col, d)
    <3> DEFINE col == d.col
    <3> HIDE DEF col
    <3>1. ASSUME NEW e, d \in ChildFieldDifferences(r, col, e) PROVE FALSE
      BY <1>1, <3>1, ChildFieldHolds
    <3>2. ASSUME NEW e, NEW status, d = MissingChild(r, col, e, status) PROVE FALSE
      <4> DEFINE item == e.item
      <4>1. OfMissing(d, col, item, status)
        BY <3>2, MissingHolds
      <4> HIDE DEF item
      <4>2. ~HasUnresolved(item) /\ d.declared = NonKeyFields(col, item)
        BY <1>1, <4>1 DEF OfMissing
      <4>3. Reason(s) \in Range(item)
        BY <2>3, <4>2, KeyAndRestHold
      <4> QED
        BY <2>3, <4>2, <4>3 DEF HasUnresolved, Range
    <3>3. ASSUME NEW li, d = UnexpectedChild(r, col, li) PROVE FALSE
      BY <1>1, <3>3, UnexpectedHolds DEF OfUnexpected
    <3>4. ~ChildDiffers(r, col, d)
      BY <3>1, <3>2, <3>3 DEF ChildDiffers
    <3> QED
      BY <3>4 DEF col
  <2>5. d \in SlotDifferences(r)
    BY <1>3, <1>4, <2>2, <2>4, ChildDiffersBy
  <2>6. PICK t \in SlotsOf(set, r) : d = SlotDifference(t)
    BY <2>5, SlotDifferencesAre
  <2>7. SaysWhy(d, t)
    BY <2>6, SlotDifferenceSays
  <2>8. t \in set.slots /\ IsPending(t)
    BY <1>1, <2>7 DEF SaysWhy, SlotsOf
  <2>9. t = s
    BY <1>1, <2>7, <2>8, ReasonsAreOfOneSlot DEF SaysWhy
  <2> QED
    BY <2>8, <2>9
<1> QED
  BY <1>2, <1>5, <1>6

LEMMA ToldIsOfDeclared ==
  ASSUME Reviewable, NEW c, c.res \in Declared(set)
  PROVE  Told(PlanID, c) = OfDeclared(c)
BY FieldsAreTold, HoldsAreTold DEF Told, OfDeclared

LEMMA DeferredAreTold ==
  ASSUME Reviewable
  PROVE  DeferredTold(PlanID) = DeferredChanges
<1> DEFINE new(s) == Change("create", s.target, s.col, NoKey, "")
           told(s) == [Told(PlanID, new(s))
                         EXCEPT !.slot = s, !.after = AfterTold(PlanID, s),
                                !.covered = CoveredTold(PlanID, s)]
           made(s) == [OfDeclared(new(s))
                         EXCEPT !.slot = s, !.after = After(s),
                                !.covered = {li \in LiveChildren(s.target, s.col) : MatchesAll(li, s.match)}]
           shown == {t \in set.slots : ~IsFieldSlot(t) /\ WaitsShown(PlanID, t)}
           waiting == {t \in set.slots : ~IsFieldSlot(t) /\ IsPending(t) /\ Readable(t.target)}
<1>1. \A s \in set.slots : s.target \in Declared(set) /\ Readable(s.target)
  BY SetsAreLoaded, NothingFailed DEF LoadChecked, Reviewable, EverythingRead
<1>2. shown = waiting
  BY <1>1, WaitingIsShown
<1>3. ASSUME NEW s \in set.slots PROVE told(s) = made(s)
  <2>1. new(s).res \in Declared(set)
    BY <1>1 DEF Change
  <2>2. Told(PlanID, new(s)) = OfDeclared(new(s))
    <3> HIDE DEF new
    <3> QED
      BY <2>1, ToldIsOfDeclared
  <2>3. AfterTold(PlanID, s) = After(s)
    BY IdentifierHolds DEF AfterTold, After, Created
  <2>4. CoveredTold(PlanID, s) = {li \in LiveChildren(s.target, s.col) : MatchesAll(li, s.match)}
    BY IdentifierHolds DEF CoveredTold, LiveChildren, IsLive
  <2> QED
    BY <2>2, <2>3, <2>4
<1>4. DeferredTold(PlanID) = {told(s) : s \in shown}
  BY IdentifierHolds, Zenon DEF DeferredTold
<1>5. DeferredChanges = {made(s) : s \in waiting}
  BY Zenon DEF DeferredChanges
<1>6. \A s \in waiting : s \in set.slots
  OBVIOUS
<1> HIDE DEF told, made, shown, waiting
<1> QED
  BY <1>2, <1>3, <1>4, <1>5, <1>6

NotUnclaimed(d) == d.status # "unclaimed"

LEMMA ResourcesAreNeverUnclaimed ==
  ASSUME Reviewable, NEW r \in Declared(set), NEW d \in ResourceDifferences(r)
  PROVE  NotUnclaimed(d)
<1>1. ASSUME NEW status \in {"missing", "unresolved", "changed", "unexpected"}
      PROVE  \A q, col, key, field, was, is, source :
               NotUnclaimed(Difference(status, q, col, key, field, was, is, source))
  BY DEF NotUnclaimed, Difference
<1>2. CASE d.col = ""
  <2>1. d.key = NoKey
    BY <1>2, ResourceDifferencesAreKeyed, SetsAreLoaded
       DEF KeyedByCollection, Reviewable, EverythingRead
  <2>2. d \in Shown(PlanID, r, "", NoKey)
    BY <1>2, <2>1, ShownOfItsFields
  <2>3. CASE IsLive(r)
    <3>1. d \in ResourceFieldDifferences(r)
      BY <2>2, <2>3, ShownOfFields
    <3>2. OfAField(r, d)
      BY <2>3, <3>1, NothingFailed, FieldDifferencesAreOfFields DEF Reviewable
    <3> QED
      BY <3>2 DEF OfAField, NotUnclaimed
  <2>4. CASE ~IsLive(r)
    <3> DEFINE expected == ExpectedFields(r)
               status == IF HasUnresolved(expected) THEN "unresolved" ELSE "missing"
               children == UNION {{col} \X ExpectedChildren(r, col) : col \in CollectionsOf(r)}
               own == Difference(status, r, "", NoKey, "", expected, NoKey, r)
               others == {MissingChild(r, p[1], p[2], status) : p \in children}
    <3>1. d \in SlotDifferences(r) \cup ({own} \cup others)
      BY <2>4, NothingFailed, Zenon DEF ResourceDifferences, MissingDifferences
    <3>2. d \notin SlotDifferences(r)
      BY <1>2, SlotDifferencesSit
    <3>3. status \in {"missing", "unresolved", "changed", "unexpected"}
      OBVIOUS
    <3> HIDE DEF status
    <3>4. d \notin others
      <4>1. ASSUME NEW p \in children PROVE MissingChild(r, p[1], p[2], status).col # ""
        <5>1. p[1] \in CollectionsOf(r)
          OBVIOUS
        <5>2. Sits(MissingChild(r, p[1], p[2], status), r, p[1], ItemKey(p[1], p[2].item))
          BY DifferencesSit
        <5> QED
          BY <5>1, <5>2, CollectionsAreNamed DEF Sits
      <4> QED
        BY <1>2, <4>1
    <3>5. NotUnclaimed(own)
      BY <3>3 DEF NotUnclaimed, Difference
    <3> HIDE DEF others, own
    <3> QED
      BY <3>1, <3>2, <3>4, <3>5
  <2> QED
    BY <2>3, <2>4
<1>3. CASE d \in SlotDifferences(r)
  BY <1>1, <1>3, Zenon DEF SlotDifferences
<1>4. CASE ChildDiffers(r, d.col, d)
  <2> DEFINE col == d.col
  <2> HIDE DEF col
  <2>1. ASSUME NEW e, d \in ChildFieldDifferences(r, col, e) PROVE NotUnclaimed(d)
    BY <2>1, ChildFieldHolds DEF NotUnclaimed
  <2>2. ASSUME NEW e, NEW status \in {"missing", "unresolved"}, d = MissingChild(r, col, e, status)
        PROVE  NotUnclaimed(d)
    <3> DEFINE item == e.item
    <3>1. OfMissing(d, col, item, status)
      BY <2>2, MissingHolds
    <3> HIDE DEF item
    <3> QED
      BY <3>1 DEF OfMissing, NotUnclaimed
  <2>3. ASSUME NEW li, d = UnexpectedChild(r, col, li) PROVE NotUnclaimed(d)
    BY <2>3, UnexpectedHolds DEF OfUnexpected, NotUnclaimed
  <2>4. ChildDiffers(r, col, d)
    BY <1>4 DEF col
  <2> QED
    BY <2>1, <2>2, <2>3, <2>4 DEF ChildDiffers
<1> QED
  BY <1>2, <1>3, <1>4, ChildDiffersBy

\* The changes of a project's plan are a function of its identifier.
LEMMA ChangesAreTold ==
  ASSUME Reviewable
  PROVE  ChangesFor(Differences) = ChangesTold(PlanID)
<1> DEFINE calling == {e \in Differences : /\ e.status \in {"missing", "changed", "unexpected"}
                                           /\ ~IsSlotDifference(e)}
<1>1. \A d \in Differences : \E r \in Declared(set) : d \in ResourceDifferences(r)
  BY OnlyResourcesDiffer
<1>2. {e \in Differences : e.status = "unclaimed"} = {}
  BY <1>1, ResourcesAreNeverUnclaimed DEF NotUnclaimed
<1>3. ChangesFor(Differences) = DeferredChanges \cup {ChangeFor(d) : d \in calling}
  <2>1. ~Account
    BY DEF Reviewable
  <2> QED
    BY <1>2, <2>1 DEF ChangesFor
<1>4. ChangesTold(PlanID) = DeferredTold(PlanID) \cup {ChangeTold(PlanID, d) : d \in calling}
  BY IdentifierHolds, Zenon DEF ChangesTold
<1>5. ASSUME NEW d \in calling
      PROVE  ChangeTold(PlanID, d) = ChangeFor(d)
  <2> DEFINE new == Change(ActionOf(d.status), d.res, d.col, d.key, d.field)
  <2>1. PICK r \in Declared(set) : d \in ResourceDifferences(r)
    BY <1>1
  <2>2. d.res = r
    BY <2>1, DifferencesNameTheirResource
  <2>3. new.res \in Declared(set)
    BY <2>2 DEF Change
  <2>4. Told(PlanID, new) = OfDeclared(new)
    <3> HIDE DEF new
    <3> QED
      BY <2>3, ToldIsOfDeclared
  <2>5. d.col # "" => ItemTold(PlanID, d) = ItemFor(d)
    BY <2>1, ItemIsTold DEF IsSlotDifference
  <2> HIDE DEF new
  <2>6. /\ ChangeTold(PlanID, d) = IF d.col = "" THEN Told(PlanID, new)
                                   ELSE [Told(PlanID, new) EXCEPT !.item = ItemTold(PlanID, d)]
        /\ ChangeFor(d) = IF d.col = "" THEN OfDeclared(new)
                          ELSE [OfDeclared(new) EXCEPT !.item = ItemFor(d)]
    BY Zenon DEF ChangeTold, ChangeFor, new
  <2> QED
    BY <2>4, <2>5, <2>6
<1> HIDE DEF calling
<1>6. {ChangeTold(PlanID, d) : d \in calling} = {ChangeFor(d) : d \in calling}
  BY <1>5
<1> QED
  BY <1>3, <1>4, <1>6, DeferredAreTold

-------------------------------------------------------------------------------
(***************************************************************************)
(* What the command does between the comparison and the changes.           *)
(***************************************************************************)
LEMMA FieldsDifferAlike ==
  ASSUME UNCHANGED memory
  PROVE  \A r : /\ SlotDifferences(r)' = SlotDifferences(r)
                /\ ResourceFieldDifferences(r)' = ResourceFieldDifferences(r)
BY SMTT(60) DEF memory, SlotDifferences, SlotsOf, ResourceFieldDifferences, FieldSlots, LiveFields,
     ExpectedFields, Resolve, FieldSlotValue, Resolved, IsPending, Unresolved, Skipped, Derives,
     CausedBy, SlotRead, After, Created, Declared

LEMMA MissingDifferAlike ==
  ASSUME UNCHANGED memory
  PROVE  \A r : MissingDifferences(r)' = MissingDifferences(r)
BY SMTT(60) DEF memory, MissingDifferences, MissingChild, ExpectedFields, FieldSlots,
     ExpectedChildren, SlotsOn, SlotsOf, ResolveItem, Resolve, FieldSlotValue, Resolved,
     IsPending, Unresolved, Skipped, Derives, CausedBy, SlotRead, After, Created, Declared

LEMMA ChildrenDifferAlike ==
  ASSUME UNCHANGED memory
  PROVE  \A r, col : CollectionDifferences(r, col)' = CollectionDifferences(r, col)
BY SMTT(60) DEF memory, CollectionDifferences, Matched, Unmatched, MissingChild,
     ChildFieldDifferences, UnexpectedChild, SourceOfLive, Covering, LeftAlone, Unexpected,
     LiveAt, LiveChildren, IsLive, ExpectedChildren, SlotsOn, SlotsOf, ResolveItem, Resolve,
     Resolved, Skipped, Derives, CausedBy, SlotRead, Created, Declared

LEMMA ClaimsDifferAlike ==
  ASSUME UNCHANGED memory
  PROVE  ClaimDifferences' = ClaimDifferences
BY SMTT(60) DEF memory, ClaimDifferences, Unclaimed, StaleClaims, Misclaimed, LiveCandidates,
     Candidates, Listed, IsOwned, OwnerUnknown, ListRead, ClaimedResources, IsLive, Declared

LEMMA ResourcesDifferAlike ==
  ASSUME UNCHANGED memory
  PROVE  \A r : ResourceDifferences(r)' = ResourceDifferences(r)
<1> SUFFICES ASSUME NEW r PROVE ResourceDifferences(r)' = ResourceDifferences(r)
  OBVIOUS
<1>1. Readable(r)' = Readable(r) /\ IsLive(r)' = IsLive(r)
  BY DEF memory, Readable, RefersTo, DeclaredValues, IsLive
<1> DEFINE children == UNION {CollectionDifferences(r, col) : col \in CollectionsOf(r)}
<1>2. children' = children
  BY ChildrenDifferAlike
<1>3. /\ SlotDifferences(r)' = SlotDifferences(r)
      /\ ResourceFieldDifferences(r)' = ResourceFieldDifferences(r)
      /\ MissingDifferences(r)' = MissingDifferences(r)
  BY FieldsDifferAlike, MissingDifferAlike
<1>4. ResourceDifferences(r)
        = IF ~Readable(r) THEN {}
          ELSE SlotDifferences(r) \cup (IF ~IsLive(r) THEN MissingDifferences(r)
                                        ELSE ResourceFieldDifferences(r) \cup children)
  BY Zenon DEF ResourceDifferences
<1>5. ResourceDifferences(r)'
        = IF ~Readable(r)' THEN {}
          ELSE SlotDifferences(r)' \cup (IF ~IsLive(r)' THEN MissingDifferences(r)'
                                         ELSE ResourceFieldDifferences(r)' \cup children')
  BY Zenon DEF ResourceDifferences
<1> HIDE DEF children
<1> QED
  BY <1>1, <1>2, <1>3, <1>4, <1>5

\* The identifier is of what is remembered.
LEMMA WhatIsRememberedIsIdentified ==
  ASSUME UNCHANGED memory
  PROVE  PlanID' = PlanID
<1> DEFINE resources == UNION {ResourceDifferences(r) : r \in Declared(set)}
<1>1. set' = set /\ reads' = reads
  BY DEF memory
<1>2. resources' = resources
  BY <1>1, ResourcesDifferAlike DEF Declared
<1>3. Differences = resources \cup ClaimDifferences /\ Differences' = resources' \cup ClaimDifferences'
  BY DEF Differences
<1> QED
  BY <1>1, <1>2, <1>3, ClaimsDifferAlike DEF PlanID

LEMMA ToldAlike ==
  ASSUME UNCHANGED memory
  PROVE  ChangesTold(PlanID)' = ChangesTold(PlanID)
BY WhatIsRememberedIsIdentified

-------------------------------------------------------------------------------
(***************************************************************************)
(* A plan holds every change: what is put in place is what was there.      *)
(***************************************************************************)
LEMMA PuttingInPlaceKeepsEveryChange ==
  ASSUME OrderInv, PlacingInv, AllPlaced, PutInPlace
  PROVE  Range(plan') = Range(plan)
<1>1. /\ plan' = [i \in DOMAIN plan |-> IF i \in Places THEN placed[i] ELSE plan[i]]
      /\ DOMAIN placed = Places /\ Places \subseteq DOMAIN plan
      /\ DOMAIN plan = 1..Len(plan) /\ Len(plan) \in Nat
  BY DEF PutInPlace, AllPlaced, Places, OrderInv
<1>2. \A n \in Places : IsWholeDelete(placed[n]) /\ \E k \in DOMAIN plan : plan[k] = placed[n]
  BY <1>1 DEF OrderInv, DeletesPlaced
<1>3. ASSUME NEW i \in Places
      PROVE  \E n \in Places : placed[n] = plan[i]
  <2> SUFFICES ASSUME \A n \in Places : placed[n] # plan[i]
               PROVE  FALSE
    OBVIOUS
  <2> DEFINE from == [n \in Places |-> CHOOSE k \in DOMAIN plan : plan[k] = placed[n]]
  <2>1. \A n \in Places : from[n] \in DOMAIN plan /\ plan[from[n]] = placed[n]
    BY <1>2
  <2>2. \A n \in Places : from[n] \in Places \ {i}
    BY <1>2, <2>1 DEF Places
  <2>3. from \in [Places -> Places \ {i}]
    BY <2>2
  <2>4. IsFiniteSet(Places)
    <3> DEFINE all == 1..Len(plan)
    <3>1. IsFiniteSet(all)
      BY <1>1, FS_Interval
    <3>2. Places \in SUBSET all
      BY <1>1
    <3> HIDE DEF all
    <3> QED
      BY <3>1, <3>2, FS_Subset
  <2>5. /\ IsFiniteSet(Places \ {i})
        /\ Cardinality(Places \ {i}) < Cardinality(Places)
    <3>1. Cardinality(Places) \in Nat
      BY <2>4, FS_CardinalityType
    <3>2. IsFiniteSet(Places \ {i}) /\ Cardinality(Places \ {i}) = Cardinality(Places) - 1
      BY <2>4, FS_RemoveElement
    <3> QED
      BY <3>1, <3>2
  <2> HIDE DEF from
  <2>6. PICK x \in Places, y \in Places : x # y /\ from[x] = from[y]
    BY <2>3, <2>4, <2>5, FS_PigeonHole
  <2> QED
    BY <1>1, <2>1, <2>6 DEF PlacingInv, PlacedOnce
<1>4. \A i \in DOMAIN plan : \E k \in DOMAIN plan : plan'[i] = plan[k]
  BY <1>1, <1>2
<1>5. \A i \in DOMAIN plan : \E k \in DOMAIN plan : plan'[k] = plan[i]
  <2> TAKE i \in DOMAIN plan
  <2>1. CASE i \in Places
    BY <1>1, <1>3, <2>1
  <2>2. CASE i \notin Places
    BY <1>1, <2>2
  <2> QED
    BY <2>1, <2>2
<1>6. DOMAIN plan' = DOMAIN plan
  BY <1>1
<1> QED
  BY <1>4, <1>5, <1>6 DEF Range

(***************************************************************************)
(* The invariant: from the comparison to the acceptance, the changes are   *)
(* what the identifier tells, as those reviewed are what theirs tells.     *)
(***************************************************************************)
Planning == pc \in {"ordering", "placing", "planned"}

ReviewInv ==
  /\ Planning => changes = ChangesTold(PlanID)
  /\ reviewed # NoReview => reviewed.changes = ChangesTold(reviewed.id)
  /\ mode = "apply" /\ pc # "idle" => reviewed # NoReview
  /\ Executing => changes = reviewed.changes
  /\ Complete => Range(plan) = changes

\* A step after which the command is where it was, or has yet to plan.
LEMMA NothingReviewed ==
  ASSUME ReviewInv, UNCHANGED reviewed, ~Planning', ~Executing', mode' = mode \/ mode' = "after",
         pc # "idle"
  PROVE  ReviewInv'
BY DEF ReviewInv, Planning, Executing, Complete

LEMMA ReviewKept ==
  ASSUME ReviewInv, UNCHANGED <<changes, plan, reviewed, mode, pc>>,
         Planning => UNCHANGED memory
  PROVE  ReviewInv'
BY ToldAlike DEF ReviewInv, Planning, Executing, Complete

LEMMA ReviewDropped ==
  ASSUME ReviewInv, UNCHANGED reviewed, pc' = "idle"
  PROVE  ReviewInv'
BY DEF ReviewInv, Planning, Executing, Complete

LEMMA EveryStepKeepsTheReview ==
  ASSUME ~Account, WhatRefersIsCompared,
         ReviewInv, DataInv, PlacingInv, OrderInv, OrderInv', [Next]_vars
  PROVE  ReviewInv'
<1>1. CASE \E how : Return(how)
  <2>1. pc' = "idle"
    BY <1>1 DEF Return
  <2>2. CASE Show
    <3>1. UNCHANGED reviewed \/ (reviewed' = [id |-> PlanID, changes |-> changes] /\ pc = "planned")
      BY <2>2 DEF Show
    <3>2. CASE UNCHANGED reviewed
      BY <2>1, <3>2, ReviewDropped
    <3>3. CASE reviewed' = [id |-> PlanID, changes |-> changes] /\ pc = "planned"
      <4>1. reviewed'.id = PlanID /\ reviewed'.changes = changes
        BY <3>3
      <4>2. changes = ChangesTold(PlanID)
        BY <3>3 DEF ReviewInv, Planning
      <4>3. reviewed'.changes = ChangesTold(reviewed'.id)
        BY <4>1, <4>2
      <4> QED
        BY <2>1, <4>3 DEF ReviewInv, Planning, Executing, Complete
    <3> QED
      BY <3>1, <3>2, <3>3
  <2>3. CASE ~Show
    <3>1. UNCHANGED reviewed
      BY <2>3 DEF Next, Command, Load, CheckGit, ReadNext, Compared, Order, OrderStuck, Ordered,
                  Place, PlaceRefused, Placed, Accept, RealizeNext, RealizeFails, Write, WriteStops,
                  CompareAgain, Report, Environment, Assign, Drift, Edit, Commit, CreatorCreates,
                  CreatorClaims, CreatorDeletes, CreatorUnclaims, Elsewhere, vars
    <3> QED
      BY <2>1, <3>1, ReviewDropped
  <2> QED
    BY <2>2, <2>3
<1>2. CASE ~\E how : Return(how)
  <2>1. CASE \E m \in {"dry", "apply"} : Load(m)
    <3>1. /\ pc' = "loaded" /\ UNCHANGED reviewed
          /\ mode' = "apply" => reviewed # NoReview
      BY <2>1 DEF Load
    <3> QED
      BY <3>1 DEF ReviewInv, Planning, Executing, Complete
  <2>2. CASE CheckGit
    BY <1>2, <2>2, NothingReviewed DEF CheckGit, Planning, Executing
  <2>3. CASE Compared
    <3>1. /\ pc = "reading" /\ pc' = "ordering" /\ mode' = mode /\ UNCHANGED <<memory, reviewed>>
          /\ Outstanding = {} /\ ~PlanRefused /\ changes' = ChangesFor(Differences)
      BY <1>2, <2>3 DEF Compared
    <3>2. Reviewable
      BY <3>1 DEF Reviewable, EverythingRead, DataInv
    <3>3. changes' = ChangesTold(PlanID)'
      BY <3>1, <3>2, ChangesAreTold, ToldAlike
    <3> QED
      BY <3>1, <3>3 DEF ReviewInv, Planning, Executing, Complete
  <2>4. CASE Order
    <3>1. UNCHANGED <<changes, memory, reviewed, mode, pc>> /\ pc = "ordering"
      BY <2>4 DEF Order, TakeEarliest
    <3> QED
      BY <3>1, ToldAlike DEF ReviewInv, Planning, Executing, Complete
  <2>5. CASE Ordered
    <3>1. /\ UNCHANGED <<changes, plan, memory, reviewed, mode>>
          /\ pc = "ordering" /\ pc' = "placing" /\ ToTake = {}
      BY <2>5 DEF Ordered, planning
    <3>2. Range(plan) = changes
      BY <3>1 DEF OrderInv, ToTake, Taken, Range
    <3> QED
      BY <3>1, <3>2, ToldAlike DEF ReviewInv, Planning, Executing, Complete
  <2>6. CASE Place
    <3>1. UNCHANGED <<changes, plan, memory, reviewed, mode, pc>>
      BY <2>6 DEF Place, PlaceDelete
    <3> QED
      BY <3>1, ReviewKept
  <2>7. CASE Placed
    <3>1. /\ UNCHANGED <<changes, memory, reviewed, mode>>
          /\ pc = "placing" /\ pc' = "planned" /\ AllPlaced /\ PutInPlace
      BY <2>7 DEF Placed, PutInPlace
    <3>2. Range(plan') = Range(plan)
      BY <3>1, PuttingInPlaceKeepsEveryChange
    <3> QED
      BY <3>1, <3>2, ToldAlike DEF ReviewInv, Planning, Executing, Complete
  <2>8. CASE Accept
    <3>1. /\ UNCHANGED <<changes, plan, reviewed, mode>> /\ mode = "apply"
          /\ pc = "planned" /\ pc' = "realizing" /\ reviewed.id = PlanID
      BY <1>2, <2>8 DEF Accept, planning
    <3>2. changes = reviewed.changes
      BY <3>1 DEF ReviewInv, Planning
    <3> QED
      BY <3>1, <3>2 DEF ReviewInv, Planning, Executing, Complete
  <2>9. CASE RealizeNext \/ Write
    <3>1. /\ UNCHANGED <<changes, plan, reviewed, mode>>
          /\ Executing /\ Executing'
      BY <1>2, <2>9 DEF RealizeNext, Write, Advance, planning, Executing
    <3> QED
      BY <3>1 DEF ReviewInv, Planning, Executing, Complete
  <2>10. CASE CompareAgain
    BY <2>10, NothingReviewed DEF CompareAgain, Planning, Executing
  <2>11. CASE ReadNext
    BY <2>11, NothingReviewed DEF ReadNext, Planning, Executing
  <2>12. CASE Environment
    <3>1. UNCHANGED <<changes, plan, reviewed, mode, pc, memory>>
      BY <2>12 DEF Environment, Elsewhere, Assign, Drift, Edit, Commit, CreatorCreates,
                   CreatorClaims, CreatorDeletes, CreatorUnclaims, planning
    <3> QED
      BY <3>1, ReviewKept
  <2>13. CASE UNCHANGED vars
    BY <2>13, ReviewKept DEF vars, memory
  <2>14. CASE OrderStuck \/ PlaceRefused \/ Show \/ RealizeFails \/ WriteStops \/ Report
    BY <1>2, <2>14 DEF OrderStuck, PlaceRefused, Show, RealizeFails, WriteStops, Report
  <2> QED
    BY <2>1, <2>2, <2>3, <2>4, <2>5, <2>6, <2>7, <2>8, <2>9, <2>10, <2>11, <2>12, <2>13, <2>14
       DEF Next, Command
<1> QED
  BY <1>1, <1>2

LEMMA ReviewInvAlways ==
  ASSUME ~Account, WhatRefersIsCompared
  PROVE  Spec => []ReviewInv
<1>1. Init => ReviewInv
  BY DEF Init, ReviewInv, Planning, Executing, Complete
<1>2. /\ ReviewInv /\ DataInv /\ PlacingInv /\ OrderInv /\ OrderInv' /\ [Next]_vars
      => ReviewInv'
  BY EveryStepKeepsTheReview
<1> QED
  BY <1>1, <1>2, DataInvAlways, PlacingInvAlways, PlansStayInOrder, PTL DEF Spec

\* A project's apply makes the changes the last dry run printed, all of them and
\* no others, though the identifier it checks holds no exposed value: whatever the
\* provider assigned or reassigned in between shows in a read or in a difference.
\* It needs what holds a reference to be compared.
THEOREM WhatRunsWasReviewed ==
  ASSUME ~Account, WhatRefersIsCompared
  PROVE  Spec => []ExecutesWhatWasReviewed
<1>1. ReviewInv => ExecutesWhatWasReviewed
  BY DEF ReviewInv, ExecutesWhatWasReviewed, Executing, Complete
<1> QED
  BY <1>1, ReviewInvAlways, PTL
===============================================================================
