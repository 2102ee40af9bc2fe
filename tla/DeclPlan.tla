------------------------------- MODULE DeclPlan -------------------------------
(***************************************************************************)
(* PlanApply's plan (go/declarations/apply.go and pending.go): the changes *)
(* the differences call for, their order by stage, the moves that put each *)
(* change after the creations it waits on, and the moves that put each     *)
(* resource-level delete after the deletes of its users.                   *)
(*                                                                         *)
(* The two orderings are loops over the changes; each iteration is a step. *)
(***************************************************************************)
EXTENDS DeclCompare

CONSTANT
  UsersOf  \* [Resources -> set of resources]: UsageReader.Users

VARIABLES
  changes,  \* the changes the differences call for
  plan,     \* the changes taken by orderByNeeds, in order
  placed    \* the resource-level deletes orderDeletesByUses has placed

planning == <<changes, plan, placed>>

-------------------------------------------------------------------------------
(***************************************************************************)
(* Changes.  fields and holds are what the change carries of its expected  *)
(* resource: the top-level fields a writer writes, and every pending value *)
(* anywhere in it.  slot is a deferred change's, after what it waits on.   *)
(***************************************************************************)
NoSlot == [name |-> ""]

Change(action, r, col, key, field) ==
  [action |-> action, res |-> r, col |-> col, key |-> key, field |-> field,
   item |-> NoKey, fields |-> NoKey, holds |-> {}, slot |-> NoSlot, after |-> {},
   covered |-> {}, owned |-> {}, claim |-> {}]

IsDeferred(c)    == c.slot # NoSlot
IsUpsert(c)      == c.action \in {"create", "update"}
IsCreation(c)    == c.action = "create" /\ c.col = "" /\ c.field = ""
IsWholeDelete(c) == c.action = "delete" /\ c.col = "" /\ c.field = ""

\* resolvedItem: the expected child, the live one's values for what it waits on.
ResolvedItem(item, li) ==
  [f \in {g \in DOMAIN item : IsUnresolved(item[g]) => g \in DOMAIN li} |->
     IF IsUnresolved(item[f]) THEN li[f] ELSE item[f]]

ResolvedChildren(r, col) ==
  UNION {IF ~HasUnresolved(e.item) THEN {e.item}
         ELSE {ResolvedItem(e.item, li) : li \in LiveAt(r, col, e.item)}
           : e \in ExpectedChildren(r, col)}

\* expectedResource: what the change carries, minus what is unresolved.
ResolvedFields(r) ==
  LET e == ExpectedFields(r)
  IN Restrict(e, {f \in DOMAIN e : ~IsUnresolved(e[f])})

PendingsOf(r) ==
  PendingsIn(Range(ResolvedFields(r))
               \cup UNION {ValuesOf(ResolvedChildren(r, col)) : col \in CollectionsOf(r)})

OfDeclared(c) == [c EXCEPT !.fields = ResolvedFields(c.res), !.holds = PendingsOf(c.res)]

\* The deferred changes: pending collection slots.
DeferredChanges ==
  {[OfDeclared(Change("create", s.target, s.col, NoKey, ""))
      EXCEPT !.slot = s, !.after = After(s),
             !.covered = {li \in LiveChildren(s.target, s.col) : MatchesAll(li, s.match)}]
     : s \in {t \in set.slots : /\ ~IsFieldSlot(t)
                                /\ IsPending(t)
                                /\ Readable(t.target)}}

\* itemFor: the live child for a delete, else the expected one at the key.
ItemFor(d) ==
  IF d.status = "unexpected" THEN Overridden(d.key, d.live)
  ELSE LET at == {it \in ResolvedChildren(d.res, d.col) : ItemKey(d.col, it) = d.key}
       IN IF at = {} THEN NoKey ELSE CHOOSE it \in at : TRUE

ActionOf(status) ==
  CASE status = "missing" -> "create"
    [] status = "changed" -> "update"
    [] status = "unexpected" -> "delete"

ChangeFor(d) ==
  LET c == OfDeclared(Change(ActionOf(d.status), d.res, d.col, d.key, d.field))
  IN IF d.col = "" THEN c ELSE [c EXCEPT !.item = ItemFor(d)]

UnclaimedDelete(r) ==
  [Change("delete", r, "", NoKey, "") EXCEPT !.fields = LiveFields(r), !.owned = Owned(r)]

\* comparison.changes: unresolved and misclaimed differences give none.
IsSlotDifference(d) == d.col # "" /\ d.key = NoKey
ChangesFor(differences) ==
  DeferredChanges
    \cup {ChangeFor(d) : d \in {e \in differences :
                                  /\ e.status \in {"missing", "changed", "unexpected"}
                                  /\ ~IsSlotDifference(e)}}
    \cup {UnclaimedDelete(d.res) : d \in {e \in differences : e.status = "unclaimed"}}
    \cup (IF ~Account THEN {}
          ELSE {[Change("unclaim", cl.res, "", NoKey, "") EXCEPT !.claim = {cl}]
                  : cl \in StaleClaims})

-------------------------------------------------------------------------------
(***************************************************************************)
(* The order by stage: creates and updates ascending, a resource before    *)
(* its children and those by collection; deletes the other way around;     *)
(* unclaims last.  Changes it leaves tied keep the report's order, here    *)
(* any order.                                                              *)
(***************************************************************************)
Class(c) == IF IsUpsert(c) THEN 0 ELSE IF c.action = "delete" THEN 1 ELSE 2

\* -1 for a resource-level change; a deferred change comes before its peers.
Rank(c) ==
  IF c.col = "" THEN -1
  ELSE LET cols == Collections[TypeOf[c.res]]
       IN CHOOSE i \in DOMAIN cols : cols[i] = c.col

Direction(c) == IF c.action = "delete" THEN -1 ELSE 1
StageKey(c) ==
  <<Direction(c) * Stage[TypeOf[c.res]], NameOrder[c.res], Direction(c) * Rank(c),
    IF IsDeferred(c) THEN 0 ELSE 1>>

Smaller(s, t) ==
  \E i \in 1..4 : s[i] < t[i] /\ \A j \in 1..(i - 1) : s[j] = t[j]

\* A mutant: stages only.
PrecedesByStage(a, b) == Smaller(StageKey(a), StageKey(b))

Precedes(a, b) ==
  \/ Class(a) < Class(b)
  \/ Class(a) = Class(b) /\ Class(a) # 2 /\ Smaller(StageKey(a), StageKey(b))

-------------------------------------------------------------------------------
(***************************************************************************)
(* orderByNeeds.                                                           *)
(***************************************************************************)
Creations(cs) == {c.res : c \in {d \in cs : IsCreation(d)}}

WaitsOn(vals) == UNION {v.after : v \in PendingsIn(vals)}

\* A mutant: a child's key is not looked at.
WrittenBesideKey(c) ==
  IF c.col # "" THEN Range(NonKeyFields(c.col, c.item))
  ELSE IF c.field # "" THEN Range(Only(c.fields, c.field))
  ELSE Range(c.fields)

\* Change.needs: the creations of what the change writes.
WrittenBy(c) ==
  IF c.col # "" THEN Range(c.key) \cup Range(c.item)
  ELSE IF c.field # "" THEN Range(Only(c.fields, c.field))
  ELSE Range(c.fields)

Needs(c) == IF IsDeferred(c) THEN c.after ELSE WaitsOn(WrittenBy(c))

\* A child or field of a resource the plan creates waits on that creation too.
OwnNeeds(c) ==
  IF c.res \in Creations(changes) /\ c.action # "delete" /\ ~IsCreation(c)
  THEN {c.res} ELSE {}

AllNeeds(c) == Needs(c) \cup OwnNeeds(c)

Taken   == Range(plan)
ToTake  == changes \ Taken
Done    == Creations(Taken)

\* A mutant: the plan makes the creation, at whatever place.
ReadyOnceMade == {c \in ToTake : AllNeeds(c) \subseteq Creations(changes)}
Ready   == {c \in ToTake : AllNeeds(c) \subseteq Done}

\* Refused at once: a change waiting on a creation the plan does not make.
WaitsOutsideThePlan == \E c \in changes : ~(AllNeeds(c) \subseteq Creations(changes))

\* One iteration: the earliest change whose creations are taken.
TakeEarliest ==
  \E c \in Ready :
    /\ \A d \in Ready : ~Precedes(d, c)
    /\ plan' = Append(plan, c)
    /\ UNCHANGED <<changes, placed>>

-------------------------------------------------------------------------------
(***************************************************************************)
(* orderDeletesByUses: the places of the resource-level deletes are filled *)
(* again, each with the earliest whose users are placed.                   *)
(***************************************************************************)
Places == {i \in DOMAIN plan : IsWholeDelete(plan[i])}

UsersDeleted(c) ==
  {u \in UsersOf[c.res] : u # c.res /\ \E i \in Places : plan[i].res = u}

PlacedResources == {placed[i].res : i \in DOMAIN placed}

\* A mutant: what is deleted alongside does not matter.
PlaceableAnytime == {i \in Places : plan[i].res \notin PlacedResources}
Placeable ==
  {i \in Places : /\ plan[i].res \notin PlacedResources
                  /\ UsersDeleted(plan[i]) \subseteq PlacedResources}

PlaceDelete ==
  \E n \in Places \ DOMAIN placed, i \in Placeable :
    /\ \A m \in Places \ DOMAIN placed : n <= m
    /\ \A j \in Placeable : i <= j
    /\ placed' = [m \in DOMAIN placed \cup {n} |-> IF m = n THEN plan[i] ELSE placed[m]]
    /\ UNCHANGED <<changes, plan>>

AllPlaced == DOMAIN placed = Places

\* What it returns: the same changes, each place holding the delete placed there.
PutInPlace ==
  /\ plan' = [i \in DOMAIN plan |-> IF i \in Places THEN placed[i] ELSE plan[i]]
  /\ placed' = [i \in {} |-> NoSlot]
  /\ UNCHANGED changes
===============================================================================
