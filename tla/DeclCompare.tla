----------------------------- MODULE DeclCompare ------------------------------
(***************************************************************************)
(* Compare (go/declarations/compare.go): the reads one comparison makes,   *)
(* each answered once and remembered (the recorder), and the differences   *)
(* it reports from what it remembers.                                      *)
(*                                                                         *)
(* A read answers what is live at that moment, and the live state may      *)
(* change between two reads, so the differences are of a memory that need  *)
(* never have been the live state at any one time.                         *)
(***************************************************************************)
EXTENDS Declarations

CONSTANTS
  Account,      \* BOOLEAN: the project's root is the account repository
  ProjectName,  \* project.toml's name
  OwnerOf       \* [Resources -> Resources \cup {""}]: Owning.Owner, "" for none

\* "" stands for no owner: a resource has a name.
ASSUME ResourcesHaveNames == "" \notin Resources

VARIABLES
  live,     \* [live resources -> [fields, children]]: the provider's state
  exposed,  \* [assigned exposed values -> value]: the provider's state
  set,      \* the declaration set loaded
  given,    \* the claims loaded: [claims, unmanaged]
  reads,    \* recorder.reads
  values,   \* recorder.exposed
  lists     \* the result of each List

memory == <<set, given, reads, values, lists>>

NoResource == [fields |-> NoKey, children |-> NoKey]

Found(what, v)   == [found |-> what, is |-> v]
ReadNow(r)       == IF r \in DOMAIN live THEN Found("live", live[r])
                    ELSE Found("absent", NoResource)
ExposedNow(x)    == IF x \in DOMAIN exposed THEN Found("live", exposed[x])
                    ELSE Found("absent", Unread)
ListNow(t)       == Found("live", {r \in DOMAIN live : TypeOf[r] = t})

IsLive(r)        == reads[r].found = "live"

-------------------------------------------------------------------------------
(***************************************************************************)
(* Derivations.                                                            *)
(***************************************************************************)
Answered(what, of) ==
  CASE what = "resource" -> of \in DOMAIN reads
    [] what = "value"    -> of \in DOMAIN values
    [] what = "list"     -> of \in DOMAIN lists

SlotReadKind(s) == IF s.reads \in ExposedValues THEN "value" ELSE "resource"
SlotRead(s)     == IF s.reads \in ExposedValues THEN values[s.reads]
                   ELSE reads[s.reads]

\* Derive gives every slot of its source or an error for all of them.
Derives(r)    == \A s \in CausedBy(set, r) : SlotRead(s).found # "failed"
Skipped(s)    == ~Derives(s.source)
Unresolved(s) == ~Skipped(s) /\ SlotRead(s).found = "absent"
Resolved(s)   == ~Skipped(s) /\ SlotRead(s).found = "live"

\* created: those of R the plan creates.
Created(R) == {r \in R \cap Declared(set) : reads[r].found = "absent"}

\* slotState.after and slotState.pending.
After(s)     == Created({s.source, s.target})
IsPending(s) == Unresolved(s) /\ After(s) # {}

-------------------------------------------------------------------------------
(***************************************************************************)
(* The order of reads: every derivation with the reads created() makes for *)
(* it; then each declared resource, the values it refers to, and the       *)
(* resources exposing those that are not there; then, in the account       *)
(* repository, each type's list and the resources on it nothing accounts   *)
(* for.  turn numbers a read's place.                                      *)
(***************************************************************************)
Request(what, of, turn) == [what |-> what, of |-> of, turn |-> turn]

RefersTo(r) == ReferencesIn(DeclaredValues(set, r))

DerivationRequests ==
  {Request(SlotReadKind(s), s.reads, 10 * NameOrder[s.source]) : s \in set.slots}
  \cup
  UNION {{Request("resource", r, 10 * NameOrder[s.source] + 1)
            : r \in {s.source, s.target}}
           : s \in {t \in set.slots :
                      /\ \A u \in CausedBy(set, t.source) :
                            Answered(SlotReadKind(u), u.reads)
                      /\ Unresolved(t)}}

ComparisonRequests ==
  {Request("resource", r, 1000 + 10 * NameOrder[r]) : r \in Declared(set)}
  \cup
  (UNION {{Request("value", x, 1000 + 10 * NameOrder[r] + 1) : x \in RefersTo(r)}
            : r \in {q \in Declared(set) :
                       /\ Answered("resource", q)
                       /\ reads[q].found # "failed"
                       /\ \A x \in RefersTo(q) \cap DOMAIN values :
                             values[x].found # "failed"}})
  \cup
  UNION {{Request("resource", ExposedBy[x], 1000 + 10 * NameOrder[r] + 1)
            : x \in {y \in RefersTo(r) \cap DOMAIN values :
                       values[y].found = "absent"}}
           : r \in {q \in Declared(set) : Answered("resource", q)}}

\* Listed, and neither declared here, claimed nor unmanaged.
ClaimedResources == {cl.res : cl \in given.claims}
Listed == UNION {lists[t].is : t \in {u \in DOMAIN lists : lists[u].found = "live"}}

\* A mutant: the creators' claims are not looked at.
UnclaimedByProjects ==
  Listed \ (Declared(set) \cup {cl.res : cl \in {c \in given.claims : c.project # ""}}
              \cup given.unmanaged)
Candidates == Listed \ (Declared(set) \cup ClaimedResources \cup given.unmanaged)

AccountRequests ==
  {Request("list", t, 2000 + 10 * Stage[t]) : t \in ResourceTypes}
  \cup
  {Request("resource", r, 2001 + 10 * Stage[TypeOf[r]]) : r \in Candidates}

Requests == DerivationRequests \cup ComparisonRequests
              \cup (IF Account THEN AccountRequests ELSE {})
Outstanding == {q \in Requests : ~Answered(q.what, q.of)}
NextRequest == CHOOSE q \in Outstanding : \A p \in Outstanding : q.turn <= p.turn

ForgetNothing == UNCHANGED <<reads, values, lists>>  \* a mutant: one recorder for all

\* What run starts with: nothing read.
Forget ==
  /\ reads' = NoKey
  /\ values' = NoKey
  /\ lists' = NoKey

Answer(q, failed) ==
  LET heard(now) == IF failed THEN [now EXCEPT !.found = "failed"] ELSE now
  IN \/ /\ q.what = "resource"
        /\ reads' = With(reads, q.of, heard(ReadNow(q.of)))
        /\ UNCHANGED <<values, lists>>
     \/ /\ q.what = "value"
        /\ values' = With(values, q.of, heard(ExposedNow(q.of)))
        /\ UNCHANGED <<reads, lists>>
     \/ /\ q.what = "list"
        /\ lists' = With(lists, q.of, heard(ListNow(q.of)))
        /\ UNCHANGED <<reads, values>>

-------------------------------------------------------------------------------
(***************************************************************************)
(* Expected values.                                                        *)
(***************************************************************************)
Resolve(v) ==
  IF v.kind # "reference" THEN v
  ELSE IF values[v.of].found = "live" THEN values[v.of].is
  ELSE IF Created({ExposedBy[v.of]}) # {} THEN Pending(v.of, {ExposedBy[v.of]})
  ELSE v

ResolveItem(it) == [f \in DOMAIN it |-> Resolve(it[f])]

\* A field slot waits on its source only: its target's own create writes it.
FieldSlotValue(s) ==
  IF Resolved(s) THEN SlotRead(s).is
  ELSE IF IsPending(s) /\ After(s) \ {s.target} # {}
       THEN Pending(s.name, After(s) \ {s.target})
  ELSE Reason(s)

FieldSlots(r)       == {s \in SlotsOf(set, r) : IsFieldSlot(s)}
SlotsOn(r, col)     == {s \in SlotsOf(set, r) : s.col = col /\ ~IsFieldSlot(s)}

\* expected's ok: the resource and every value it refers to were read.
Readable(r) ==
  /\ reads[r].found # "failed"
  /\ \A x \in RefersTo(r) : x \in DOMAIN values /\ values[x].found # "failed"

ExpectedFields(r) ==
  LET hand == set.resources[r].fields
      derived == {s \in FieldSlots(r) : ~Skipped(s)}
      fieldSlot(f) == CHOOSE s \in derived : s.field = f
  IN [f \in DOMAIN hand \cup {s.field : s \in derived} |->
        IF f \in DOMAIN hand THEN Resolve(hand[f])
        ELSE FieldSlotValue(fieldSlot(f))]

\* Expected children, as they are declared or derived, with the file each comes from.
ExpectedChildren(r, col) ==
  {[item |-> ResolveItem(it), declared |-> it, source |-> r]
     : it \in set.resources[r].children[col]}
    \cup UNION {{[item |-> it, declared |-> it, source |-> s.source] : it \in s.gives}
                  : s \in {t \in SlotsOn(r, col) : Resolved(t)}}

\* sameKeys refuses the comparison.
SameKeys ==
  \E r \in Declared(set) : /\ Readable(r)
    /\ \E col \in CollectionsOf(r) : \E e, o \in ExpectedChildren(r, col) :
         /\ e # o
         /\ ~KeyUnresolved(col, e.item) /\ ~KeyUnresolved(col, o.item)
         /\ ItemKey(col, e.item) = ItemKey(col, o.item)

-------------------------------------------------------------------------------
(***************************************************************************)
(* Differences.                                                            *)
(***************************************************************************)
Difference(status, r, col, key, field, declared, liveValue, source) ==
  [status |-> status, res |-> r, col |-> col, key |-> key, field |-> field,
   declared |-> declared, live |-> liveValue, source |-> source]

\* f's value as declared or live, nothing when it has none.
Only(fields, f) == Restrict(fields, {f} \cap DOMAIN fields)

LiveFields(r)        == reads[r].is.fields
LiveChildren(r, col) == IF IsLive(r) THEN reads[r].is.children[col] ELSE {}
HasUnresolved(item)  == \E f \in DOMAIN item : IsUnresolved(item[f])

\* Unresolved and pending collection slots: one difference each.
SlotDifferences(r) ==
  {Difference(IF IsPending(s) THEN "missing" ELSE "unresolved", r, s.col, NoKey,
              "", With(NoKey, "why", Reason(s)), NoKey, s.source)
     : s \in {t \in SlotsOf(set, r) : ~IsFieldSlot(t) /\ Unresolved(t)}}

\* The fields among compared in which two sets of fields differ, and how.
FieldStatuses(compared, declared, liveFields) ==
  LET differs(f) ==
        \/ (f \in DOMAIN declared) # (f \in DOMAIN liveFields)
        \/ f \in DOMAIN declared /\ declared[f] # liveFields[f]
      waits(f) == f \in DOMAIN declared /\ IsUnresolved(declared[f])
  IN {[field |-> f, status |-> IF waits(f) THEN "unresolved" ELSE "changed"]
        : f \in {g \in compared : waits(g) \/ differs(g)}}

\* A field whose derivation failed is not compared.
ResourceFieldDifferences(r) ==
  LET failed == {s.field : s \in {t \in FieldSlots(r) : Skipped(t)}}
      expected == ExpectedFields(r)
      source(f) == IF \E s \in FieldSlots(r) : s.field = f
                   THEN (CHOOSE s \in FieldSlots(r) : s.field = f).source ELSE r
  IN {Difference(fs.status, r, "", NoKey, fs.field, Only(expected, fs.field),
                 Only(LiveFields(r), fs.field), source(fs.field))
        : fs \in FieldStatuses(Fields[TypeOf[r]] \ failed, expected, LiveFields(r))}

\* An expected child that is not live.
MissingChild(r, col, e, status) ==
  Difference(IF HasUnresolved(e.item) THEN "unresolved" ELSE status, r, col,
             ItemKey(col, e.item), "", NonKeyFields(col, e.item), NoKey, e.source)

\* missingResource: the resource and each of its children.
MissingDifferences(r) ==
  LET expected == ExpectedFields(r)
      status == IF HasUnresolved(expected) THEN "unresolved" ELSE "missing"
  IN {Difference(status, r, "", NoKey, "", expected, NoKey, r)}
       \cup {MissingChild(r, p[1], p[2], status)
               : p \in UNION {{col} \X ExpectedChildren(r, col) : col \in CollectionsOf(r)}}

\* The slot covering a live child, if any, and the unmanaged entries leaving it alone.
Covering(r, col, li)  == {s \in SlotsOn(r, col) : MatchesAll(li, s.match)}
LeftAlone(r, col, li) ==
  \E u \in set.resources[r].unmanaged : u.col = col /\ MatchesAll(li, u.match)

\* A mutant: unmanaged entries are not looked at.
UnexpectedUnlessCovered(r, col, li) ==
  \A s \in Covering(r, col, li) : Resolved(s)

\* A live child nothing expects: the slot covering it decides, when it is
\* resolved; else an unmanaged entry may leave it alone.
Unexpected(r, col, li) ==
  IF Covering(r, col, li) # {} THEN \A s \in Covering(r, col, li) : Resolved(s)
  ELSE ~LeftAlone(r, col, li)

\* The file deriving it, or the resource's own.
SourceOfLive(r, col, li) ==
  IF Covering(r, col, li) = {} THEN r ELSE (CHOOSE s \in Covering(r, col, li) : TRUE).source

UnexpectedChild(r, col, li) ==
  Difference("unexpected", r, col, ItemKey(col, li), "", NoKey, NonKeyFields(col, li),
             SourceOfLive(r, col, li))

\* The live child with an item's key, if any.
LiveAt(r, col, it) ==
  {li \in LiveChildren(r, col) :
     ~KeyUnresolved(col, it) /\ ItemKey(col, li) = ItemKey(col, it)}

ChildFieldDifferences(r, col, e) ==
  {Difference(fs.status, r, col, ItemKey(col, e.item), fs.field, Only(e.item, fs.field),
              Only(CHOOSE li \in LiveAt(r, col, e.item) : TRUE, fs.field), e.source)
     : fs \in FieldStatuses(ItemFields[col], e.item, CHOOSE li \in LiveAt(r, col, e.item) : TRUE)}

Matched(r, col)   == {e \in ExpectedChildren(r, col) : LiveAt(r, col, e.item) # {}}
Unmatched(r, col) ==
  LiveChildren(r, col) \ UNION {LiveAt(r, col, e.item) : e \in Matched(r, col)}

CollectionDifferences(r, col) ==
  (UNION {ChildFieldDifferences(r, col, e) : e \in Matched(r, col)})
    \cup {MissingChild(r, col, e, "missing") : e \in ExpectedChildren(r, col) \ Matched(r, col)}
    \cup {UnexpectedChild(r, col, li) : li \in {l \in Unmatched(r, col) : Unexpected(r, col, l)}}

\* compareResource.
ResourceDifferences(r) ==
  IF ~Readable(r) THEN {}
  ELSE SlotDifferences(r)
         \cup (IF ~IsLive(r) THEN MissingDifferences(r)
               ELSE ResourceFieldDifferences(r)
                      \cup UNION {CollectionDifferences(r, col) : col \in CollectionsOf(r)})

-------------------------------------------------------------------------------
(***************************************************************************)
(* Claims.                                                                 *)
(***************************************************************************)
ListRead(t) == lists[t].found = "live"

\* Candidates still live when read; one owned by a listed resource goes with it.
LiveCandidates   == {r \in Candidates : IsLive(r)}
IsOwned(r)       == OwnerOf[r] # "" /\ OwnerOf[r] \in Listed
OwnerUnknown(r)  == OwnerOf[r] # "" /\ ~ListRead(TypeOf[OwnerOf[r]])
Owned(r)         == {o \in LiveCandidates : OwnerOf[o] = r}
Unclaimed        == {r \in LiveCandidates : ~IsOwned(r) /\ ~OwnerUnknown(r)}

\* A mutant: a project's claim is stale too.
StaleClaimsOfAnyone ==
  {cl \in given.claims : ListRead(TypeOf[cl.res]) /\ cl.res \notin Listed}

\* A creator's claim of a resource its type's list does not name.
StaleClaims == {cl \in given.claims :
                  cl.creator # "" /\ ListRead(TypeOf[cl.res]) /\ cl.res \notin Listed}

Misclaimed ==
  {r \in Declared(set) :
     ~\E cl \in given.claims : cl.res = r /\ cl.project = ProjectName}

ClaimDifferences ==
  IF Account
  THEN {Difference("unclaimed", r, "", NoKey, "", NoKey, NoKey, "") : r \in Unclaimed}
         \cup {Difference("stale-claim", cl.res, "", NoKey, "", NoKey, NoKey, "claims.toml")
                 : cl \in StaleClaims}
  ELSE {Difference("misclaimed", r, "", NoKey, "", NoKey, NoKey, r) : r \in Misclaimed}

-------------------------------------------------------------------------------
Differences == (UNION {ResourceDifferences(r) : r \in Declared(set)}) \cup ClaimDifferences

\* Report.Unreadable is not empty.
SomethingUnreadable ==
  \/ \E r \in DOMAIN reads : reads[r].found = "failed"
  \/ \E x \in DOMAIN values : values[x].found = "failed"
  \/ \E t \in DOMAIN lists : lists[t].found = "failed"
  \/ Account /\ \E r \in LiveCandidates : ~IsOwned(r) /\ OwnerUnknown(r)

\* Mutants: identifiers that leave out the differences, or all that was read.
FilesAndReads == [files |-> set, reads |-> reads]
FilesOnly     == [files |-> set]

\* planID: every file, every resource read and its answer, the differences.
\* Exposed values are left out: they show only in the differences.
PlanID == [files |-> set, reads |-> reads, differences |-> Differences]
===============================================================================
