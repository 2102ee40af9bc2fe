------------------------------ MODULE DeclApply -------------------------------
(***************************************************************************)
(* A tool's dry run and apply (go/declarations/apply.go and pending.go):   *)
(* PlanApply, Accept and Execute, run against a provider that assigns      *)
(* values late, changes on its own, and fails; operators who edit and      *)
(* commit declarations and run either command again; and, in the account   *)
(* repository, the creators that claim what they create.                   *)
(***************************************************************************)
EXTENDS DeclPlan

CONSTANTS
  Sets,            \* the declaration sets operators write; each passes Load
  Worlds,          \* the live states to start from: [live, exposed, claims]
  Unmanaged,       \* the resources claims.toml lists unmanaged
  Unsupported,     \* <<action, resource, collection>> the writer refuses
  AssignedValues,  \* [ExposedValues -> the values a provider may assign]
  Recycles,        \* BOOLEAN: it may assign one that a live child still names
  Vanishing,       \* resources that may be deleted behind the tool's back
  Strays,          \* [res, col, item]: children that may appear
  FieldDrifts,     \* [res, field, value]: fields that may be changed
  Reassigned,      \* [name, value]: exposed values that may change
  Creators,        \* [name, res]: a creator and the resource it may create
  MaxDrift, MaxFailures, MaxEdits, MaxCreations  \* bounds on the environment

ASSUME SetsAreLoaded == \A s \in Sets : LoadChecked(s) /\ Declared(s) \subseteq Resources

ASSUME ProviderHoldsResources ==
  /\ \A w \in Worlds : DOMAIN w.live \subseteq Resources
                       /\ DOMAIN w.exposed \subseteq ExposedValues
  /\ \A k \in Creators : k.res \in Resources

\* What is live is data, in the collections its type has.
AllLiteral(fields) == \A f \in DOMAIN fields : fields[f].kind = "literal"
IsItem(it)         == it = [f \in DOMAIN it |-> it[f]]

IsData(r, is) ==
  /\ DOMAIN is = {"fields", "children"} /\ DOMAIN is.children = CollectionsOf(r)
  /\ AllLiteral(is.fields)
  /\ \A col \in CollectionsOf(r) : \A li \in is.children[col] : AllLiteral(li)

ASSUME ProviderHoldsData ==
  /\ \A w \in Worlds : /\ \A r \in DOMAIN w.live : IsData(r, w.live[r])
                       /\ AllLiteral(w.exposed)
  /\ \A s \in Strays : AllLiteral(s.item)

\* A declaration writes data and references; a derivation gives data, of a field one that
\* is compared (DerivableFields are Fields).  A slot is known by its name.
ASSUME SetsHoldValues ==
  \A s \in Sets :
    /\ \A r \in Declared(s) :
         \A v \in DeclaredValues(s, r) : v.kind \in {"literal", "reference"}
    /\ \A d \in s.slots :
         /\ d # NoSlot /\ \A e \in s.slots : d.name = e.name => d = e
         /\ IF IsFieldSlot(d) THEN d.reads \in ExposedValues /\ d.field \in Fields[TypeOf[d.target]]
            ELSE \A it \in d.gives : IsItem(it) /\ AllLiteral(it)

\* Every child has its key (checkItems, of what is declared, derived and live), and a
\* live one its own; a reference names an exposed value, and a slot none.
ASSUME ChildrenHaveKeys ==
  /\ \A s \in Sets : \A r \in Declared(s) : \A col \in CollectionsOf(r) :
       \A it \in s.resources[r].children[col]
                   \cup UNION {d.gives : d \in {e \in SlotsOf(s, r) : e.col = col}} : HasKey(col, it)
  /\ \A w \in Worlds : \A r \in DOMAIN w.live : \A col \in CollectionsOf(r) :
       /\ \A li \in w.live[r].children[col] : HasKey(col, li)
       /\ Apart(col, w.live[r].children[col])
  /\ \A s \in Strays : HasKey(s.col, s.item)

ASSUME ReferencesNameExposedValues ==
  /\ \A s \in Sets :
       /\ \A r \in Declared(s) : ReferencesIn(DeclaredValues(s, r)) \subseteq ExposedValues
       /\ \A d \in s.slots : d.name \notin ExposedValues
  /\ \A w \in Worlds : \A x \in DOMAIN w.exposed : ExposedBy[x] \in DOMAIN w.live

VARIABLES
  declared,   \* the declarations on disk
  claims,     \* the claims on disk
  committed,  \* git status of the declaration directory is clean
  pc,         \* where the command is
  mode,       \* "dry" or "apply"; "after" while Execute compares again
  at,         \* Execute: the index of the change being made
  writes,     \* Execute: the writes of that change not yet made
  created,    \* realizer.created
  reviewed,   \* what the last dry run printed: [id, changes]
  outcome,    \* how the last command ended
  calm,       \* nothing but this command has touched what it compares
  spent       \* how much of each bound is used

disk      == <<declared, claims, committed>>
provider  == <<live, exposed>>
execution == <<at, writes, created>>
vars == <<live, exposed, set, given, reads, values, lists, changes, plan, placed,
          declared, claims, committed, pc, mode, at, writes, created,
          reviewed, outcome, calm, spent>>

NoSet    == [resources |-> NoKey, slots |-> {}]
NoClaims == [claims |-> {}, unmanaged |-> {}]
NoReview == [id |-> NoSet, changes |-> {}]

Init ==
  /\ \E w \in Worlds :
       live = w.live /\ exposed = w.exposed /\ claims = w.claims
  /\ declared \in Sets /\ committed = TRUE
  /\ set = NoSet /\ given = NoClaims
  /\ reads = NoKey /\ values = NoKey /\ lists = NoKey
  /\ changes = {} /\ plan = <<>> /\ placed = [i \in {} |-> NoSlot]
  /\ pc = "idle" /\ mode = "dry"
  /\ at = 1 /\ writes = {} /\ created = {}
  /\ reviewed = NoReview /\ outcome = "none" /\ calm = TRUE
  /\ spent = [drift |-> 0, failures |-> 0, edits |-> 0, creations |-> 0]

MayFail == spent.failures < MaxFailures
Spend(what) == spent' = [spent EXCEPT ![what] = @ + 1]

\* The command returns: nothing of it is kept but what it printed.
Return(how) ==
  /\ pc' = "idle" /\ outcome' = how
  /\ set' = NoSet /\ given' = NoClaims /\ Forget
  /\ changes' = {} /\ plan' = <<>> /\ placed' = [i \in {} |-> NoSlot]
  /\ at' = 1 /\ writes' = {} /\ created' = {}
  /\ UNCHANGED <<mode, calm>>

-------------------------------------------------------------------------------
(***************************************************************************)
(* PlanApply.                                                              *)
(***************************************************************************)
\* The tool's command line: Load and LoadClaims, before PlanApply.
Load(m) ==
  /\ pc = "idle"
  /\ m = "apply" => reviewed # NoReview
  /\ pc' = "loaded" /\ mode' = m /\ outcome' = "none" /\ calm' = TRUE
  /\ set' = declared
  /\ given' = [claims |-> claims, unmanaged |-> Unmanaged]
  /\ UNCHANGED <<provider, reads, values, lists, planning, disk, execution,
                 reviewed, spent>>

\* checkClaimsPlacement.
ClaimsMisplaced ==
  Account /\ Declared(set) \cap (ClaimedResources \cup given.unmanaged) # {}

\* git status, then what run checks before the first read.
CheckGit ==
  /\ pc = "loaded"
  /\ IF committed /\ ~ClaimsMisplaced
     THEN /\ pc' = "reading"
          /\ UNCHANGED <<memory, planning, execution, mode, outcome, calm>>
     ELSE Return("refused")
  /\ UNCHANGED <<provider, disk, reviewed, spent>>

ReadNext ==
  /\ pc = "reading" /\ Outstanding # {}
  /\ \/ Answer(NextRequest, FALSE) /\ UNCHANGED spent
     \/ Answer(NextRequest, TRUE) /\ MayFail /\ Spend("failures")
  /\ UNCHANGED <<provider, set, given, planning, disk, execution, pc, mode,
                 reviewed, outcome, calm>>

\* Everything is read: the refusals in PlanApply's order, then the changes.
PlanRefused ==
  \/ SameKeys
  \/ ~Account /\ Misclaimed # {}
  \/ SomethingUnreadable

Compared ==
  /\ pc = "reading" /\ Outstanding = {} /\ mode # "after"
  /\ IF PlanRefused THEN Return("refused")
     ELSE /\ pc' = "ordering"
          /\ changes' = ChangesFor(Differences)
          /\ plan' = <<>> /\ placed' = [i \in {} |-> NoSlot]
          /\ calm' = (calm /\ \A d \in Differences : d.status # "unresolved")
          /\ UNCHANGED <<memory, execution, mode, outcome>>
  /\ UNCHANGED <<provider, disk, reviewed, spent>>

Order ==
  /\ pc = "ordering" /\ ~WaitsOutsideThePlan
  /\ TakeEarliest
  /\ UNCHANGED <<provider, memory, disk, execution, pc, mode, reviewed, outcome,
                 calm, spent>>

OrderStuck ==
  /\ pc = "ordering"
  /\ WaitsOutsideThePlan \/ (ToTake # {} /\ Ready = {})
  /\ Return("refused")
  /\ UNCHANGED <<provider, disk, reviewed, spent>>

Ordered ==
  /\ pc = "ordering" /\ ~WaitsOutsideThePlan /\ ToTake = {}
  /\ pc' = "placing"
  /\ UNCHANGED <<provider, memory, planning, disk, execution, mode, reviewed,
                 outcome, calm, spent>>

Place ==
  /\ pc = "placing"
  /\ PlaceDelete
  /\ UNCHANGED <<provider, memory, disk, execution, pc, mode, reviewed, outcome,
                 calm, spent>>

\* Resources that use each other, or a usage read that fails.
PlaceRefused ==
  /\ pc = "placing" /\ ~AllPlaced
  /\ \/ Placeable = {} /\ UNCHANGED spent
     \/ placed = [i \in {} |-> NoSlot] /\ MayFail /\ Spend("failures")
  /\ Return("refused")
  /\ UNCHANGED <<provider, disk, reviewed>>

Placed ==
  /\ pc = "placing" /\ AllPlaced
  /\ PutInPlace
  /\ pc' = "planned"
  /\ UNCHANGED <<provider, memory, disk, execution, mode, reviewed, outcome,
                 calm, spent>>

\* Writer.Refuse.
Refuses(c) == <<c.action, c.res, c.col>> \in Unsupported
PlanUnsupported == \E c \in changes : ~IsDeferred(c) /\ Refuses(c)

\* A dry run prints its plan and the identifier.
Show ==
  /\ pc = "planned" /\ mode = "dry"
  /\ IF PlanUnsupported THEN Return("refused") /\ UNCHANGED reviewed
     ELSE Return("shown") /\ reviewed' = [id |-> PlanID, changes |-> changes]
  /\ UNCHANGED <<provider, disk, spent>>

\* An apply goes on only with the identifier it was given.
Accept ==
  /\ pc = "planned" /\ mode = "apply"
  /\ IF PlanUnsupported \/ reviewed.id # PlanID THEN Return("refused")
     ELSE /\ pc' = "realizing"
          /\ UNCHANGED <<memory, planning, execution, mode, outcome, calm>>
  /\ UNCHANGED <<provider, disk, reviewed, spent>>

-------------------------------------------------------------------------------
(***************************************************************************)
(* Execute: the realizer reads live state itself, not the plan's memory.   *)
(***************************************************************************)
Current == plan[at]

HasRun(v) == v.kind = "pending" => v.after \subseteq created

\* The exposed value a pending value stands for, by name or by derivation.
StandsFor(v) ==
  IF v.of \in ExposedValues THEN v.of
  ELSE (CHOOSE s \in set.slots : s.name = v.of).reads
Available(v) == v.kind = "pending" => StandsFor(v) \in DOMAIN exposed

RealizeNothing(v) == v  \* a mutant: the pending value itself is written
Realize(v) == IF v.kind = "pending" THEN exposed[StandsFor(v)] ELSE v

RealizeAll(fields) ==
  LET run == {f \in DOMAIN fields : HasRun(fields[f])}
  IN [f \in run |-> Realize(fields[f])]

\* A value still missing after its creations stops the apply.
StillMissing(c) ==
  \E v \in c.holds \cup PendingsIn(Range(c.key) \cup Range(c.item)) :
     HasRun(v) /\ ~Available(v)

\* must, and realize's check of a field update: "a bug in the plan's order".
WritesTooEarly(c)  == \E v \in Range(c.key) \cup Range(c.item) : ~HasRun(v)
LeavesOutField(c) ==
  c.field # "" /\ c.col = "" /\ c.field \notin DOMAIN RealizeAll(c.fields)

Realized(c) ==
  [c EXCEPT !.key = RealizeAll(c.key), !.item = RealizeAll(c.item),
            !.fields = RealizeAll(c.fields), !.holds = {}]

\* expand: the writes making the slot's live children match the derivation.
SlotDerives(s)    == IF s.reads \in ExposedValues THEN s.reads \in DOMAIN exposed
                     ELSE s.reads \in DOMAIN live
CanExpand(c)      == SlotDerives(c.slot) /\ c.res \in DOMAIN live

CoveredNow(c) ==
  {li \in live[c.res].children[c.col] : MatchesAll(li, c.slot.match)}

SameKey(c, a, b)  == ItemKey(c.col, a) = ItemKey(c.col, b)
TwinsNow(c, it)   == {li \in CoveredNow(c) : SameKey(c, it, li)}

ChildWrite(c, action, field, it) ==
  [Change(action, c.res, c.col, ItemKey(c.col, it), field)
     EXCEPT !.item = it, !.slot = c.slot]

ChangedNow(c, it) ==
  {f \in ItemFields[c.col] : \E li \in TwinsNow(c, it) : Only(it, f) # Only(li, f)}

ExpandedCreates(c) ==
  {ChildWrite(c, "create", "", it) : it \in {g \in c.slot.gives : TwinsNow(c, g) = {}}}
ExpandedUpdates(c) ==
  UNION {{ChildWrite(c, "update", f, it) : f \in ChangedNow(c, it)} : it \in c.slot.gives}

NoDeletes(c) == {}  \* a mutant: what no longer derives is left behind
ExpandedDeletes(c) ==
  {ChildWrite(c, "delete", "", li)
     : li \in {l \in CoveredNow(c) : ~\E it \in c.slot.gives : SameKey(c, it, l)}}

Expansion(c) == ExpandedCreates(c) \cup ExpandedUpdates(c) \cup ExpandedDeletes(c)

(***************************************************************************)
(* Mutants of Advance, which each property about an execution must catch:  *)
(* a write that stays, a creation not noted, an unclaimed claim kept.      *)
(***************************************************************************)
AdvanceKeepingWrites ==
  /\ pc' = "realizing" /\ at' = at + 1
  /\ created' = created \cup Creations({Current})
  /\ given' = [given EXCEPT !.claims = @ \ Current.claim]
  /\ UNCHANGED writes

AdvanceWithoutCreation ==
  /\ pc' = "realizing" /\ at' = at + 1 /\ writes' = {}
  /\ given' = [given EXCEPT !.claims = @ \ Current.claim]
  /\ UNCHANGED created

AdvanceKeepingClaim ==
  /\ pc' = "realizing" /\ at' = at + 1 /\ writes' = {}
  /\ created' = created \cup Creations({Current})
  /\ UNCHANGED given

\* The change is made: on to the next.
Advance ==
  /\ pc' = "realizing" /\ at' = at + 1 /\ writes' = {}
  /\ created' = created \cup Creations({Current})
  /\ given' = [given EXCEPT !.claims = @ \ Current.claim]

RealizeNext ==
  /\ pc = "realizing" /\ at <= Len(plan)
  /\ LET c == Current
         ready == IF IsDeferred(c) THEN Expansion(c) ELSE {Realized(c)}
     IN IF WritesTooEarly(c) THEN Return("out of order")
        ELSE IF StillMissing(c) \/ (IsDeferred(c) /\ ~CanExpand(c)) THEN Return("stopped")
        ELSE IF LeavesOutField(c) THEN Return("out of order")
        ELSE /\ IF ready = {} THEN Advance
                ELSE pc' = "writing" /\ writes' = ready /\ UNCHANGED <<at, created, given>>
             /\ UNCHANGED <<set, reads, values, lists, planning, mode, outcome, calm>>
  /\ UNCHANGED <<provider, disk, reviewed, spent>>

\* A live read of the realizer fails.
RealizeFails ==
  /\ pc = "realizing" /\ at <= Len(plan)
  /\ IsDeferred(Current) \/ Current.holds # {}
  /\ MayFail /\ Spend("failures")
  /\ Return("stopped")
  /\ UNCHANGED <<provider, disk, reviewed>>

\* expand lists creates and updates before deletes.
NextWrites == IF \E w \in writes : IsUpsert(w) THEN {w \in writes : IsUpsert(w)} ELSE writes

(***************************************************************************)
(* The writer, external: what a provider does with one change.             *)
(***************************************************************************)
WithChild(children, col, k, new) ==
  [children EXCEPT ![col] = {li \in @ : ItemKey(col, li) # k} \cup new]

SetChildField(children, w) ==
  LET k == w.key
      old == {li \in children[w.col] : ItemKey(w.col, li) = k}
      set1(li) == [f \in (DOMAIN li \ {w.field}) \cup (DOMAIN w.item \cap {w.field}) |->
                     IF f = w.field THEN w.item[f] ELSE li[f]]
  IN WithChild(children, w.col, k, {set1(li) : li \in old})

Without(f, R) == Restrict(f, DOMAIN f \ R)
ExposedWithout(R) == Restrict(exposed, {x \in DOMAIN exposed : ExposedBy[x] \notin R})

\* Whether the provider can make the write at all.
Makeable(w) ==
  CASE w.action = "unclaim" -> TRUE
    [] IsCreation(w)        -> w.res \notin DOMAIN live
    [] OTHER                -> w.res \in DOMAIN live

Effect(w) ==
  \/ /\ IsCreation(w)
     /\ live' = With(live, w.res, [fields |-> w.fields, children |-> Childless(w.res)])
     /\ UNCHANGED <<exposed, claims, committed>>
  \/ /\ IsWholeDelete(w)
     /\ live' = Without(live, {w.res} \cup w.owned)
     /\ exposed' = ExposedWithout({w.res} \cup w.owned)
     /\ UNCHANGED <<claims, committed>>
  \/ /\ w.action = "unclaim"
     /\ claims' = claims \ w.claim /\ committed' = FALSE
     /\ UNCHANGED provider
  \/ /\ w.action = "update" /\ w.col = ""
     /\ live' = [live EXCEPT ![w.res].fields = Overridden(@, Only(w.fields, w.field))]
     /\ UNCHANGED <<exposed, claims, committed>>
  \/ /\ w.action = "update" /\ w.col # ""
     /\ live' = [live EXCEPT ![w.res].children = SetChildField(@, w)]
     /\ UNCHANGED <<exposed, claims, committed>>
  \/ /\ w.action = "create" /\ w.col # ""
     /\ live' = [live EXCEPT ![w.res].children = WithChild(@, w.col, w.key, {w.item})]
     /\ UNCHANGED <<exposed, claims, committed>>
  \/ /\ w.action = "delete" /\ w.col # ""
     /\ live' = [live EXCEPT ![w.res].children = WithChild(@, w.col, w.key, {})]
     /\ UNCHANGED <<exposed, claims, committed>>

\* An expanded write is asked about only now; a deferred change's children share its slot.
RefusedNow(w) == IsDeferred(Current) /\ Refuses(w)

Write ==
  /\ pc = "writing"
  /\ \E w \in NextWrites :
       /\ ~RefusedNow(w) /\ Makeable(w)
       /\ Effect(w)
       /\ IF writes = {w} THEN Advance
          ELSE writes' = writes \ {w} /\ UNCHANGED <<pc, at, created, given>>
  /\ UNCHANGED <<set, reads, values, lists, planning, declared, mode, reviewed,
                 outcome, calm, spent>>

\* The writer refuses, cannot make it, or fails: without or with its effect.
WriteStops ==
  /\ pc = "writing"
  /\ \E w \in NextWrites :
       \/ /\ RefusedNow(w) \/ ~Makeable(w)
          /\ UNCHANGED <<provider, claims, committed, spent>>
       \/ /\ MayFail /\ Spend("failures")
          /\ UNCHANGED <<provider, claims, committed>>
       \/ /\ MayFail /\ Spend("failures")
          /\ ~RefusedNow(w) /\ Makeable(w) /\ Effect(w)
  /\ Return("stopped")
  /\ UNCHANGED <<declared, reviewed>>

\* Every change is made: Execute compares again, reading everything anew.
CompareAgain ==
  /\ pc = "realizing" /\ at > Len(plan)
  /\ pc' = "reading" /\ mode' = "after" /\ Forget
  /\ UNCHANGED <<provider, set, given, planning, disk, execution, reviewed,
                 outcome, calm, spent>>

Report ==
  /\ pc = "reading" /\ Outstanding = {} /\ mode = "after"
  /\ Return(IF SameKeys \/ ClaimsMisplaced THEN "refused"
            ELSE IF SomethingUnreadable THEN "unreadable"
            ELSE IF Differences # {} THEN "differences" ELSE "matching")
  /\ UNCHANGED <<provider, disk, reviewed, spent>>

Command ==
  \/ \E m \in {"dry", "apply"} : Load(m)
  \/ CheckGit \/ ReadNext \/ Compared
  \/ Order \/ OrderStuck \/ Ordered
  \/ Place \/ PlaceRefused \/ Placed
  \/ Show \/ Accept
  \/ RealizeNext \/ RealizeFails \/ Write \/ WriteStops
  \/ CompareAgain \/ Report

-------------------------------------------------------------------------------
(***************************************************************************)
(* Everyone else.  They act at any time at which the command looks at what *)
(* they change: never between the steps that only compute the plan.        *)
(***************************************************************************)
Elsewhere ==
  /\ pc \notin {"ordering", "placing", "planned"}
  /\ UNCHANGED <<memory, planning, execution, pc, mode, reviewed, outcome>>

\* The provider assigns a value to a live resource, at once or late.
LiveChildValues ==
  UNION {UNION {ValuesOf(live[r].children[col]) : col \in CollectionsOf(r)}
           : r \in DOMAIN live}

Assign(x) ==
  /\ Elsewhere /\ ExposedBy[x] \in DOMAIN live /\ x \notin DOMAIN exposed
  /\ \E v \in AssignedValues[x] :
       /\ Recycles \/ Literal(v) \notin LiveChildValues
       /\ exposed' = With(exposed, x, Literal(v))
  /\ UNCHANGED <<live, disk, calm, spent>>

Drift ==
  /\ Elsewhere /\ spent.drift < MaxDrift /\ Spend("drift") /\ calm' = FALSE
  /\ UNCHANGED disk
  /\ \/ \E r \in Vanishing \cap DOMAIN live :
          live' = Without(live, {r}) /\ exposed' = ExposedWithout({r})
     \/ \E s \in Strays :
          /\ s.res \in DOMAIN live
          /\ live' = [live EXCEPT ![s.res].children =
                        WithChild(@, s.col, ItemKey(s.col, s.item), {s.item})]
          /\ UNCHANGED exposed
     \/ \E d \in FieldDrifts :
          /\ d.res \in DOMAIN live
          /\ live' = [live EXCEPT ![d.res].fields = With(@, d.field, Literal(d.value))]
          /\ UNCHANGED exposed
     \/ \E d \in Reassigned :
          /\ d.name \in DOMAIN exposed
          /\ exposed' = [exposed EXCEPT ![d.name] = Literal(d.value)]
          /\ UNCHANGED live

Edit ==
  /\ Elsewhere /\ spent.edits < MaxEdits /\ Spend("edits")
  /\ declared' \in Sets \ {declared} /\ committed' = FALSE /\ calm' = FALSE
  /\ UNCHANGED <<provider, claims>>

Commit ==
  /\ Elsewhere /\ ~committed /\ committed' = TRUE
  /\ UNCHANGED <<provider, declared, claims, calm, spent>>

(***************************************************************************)
(* A creator (creator.go): it creates a resource, claims it, and later     *)
(* deletes it and removes the claim, each a step of its own.               *)
(***************************************************************************)
ClaimOf(k) == [res |-> k.res, project |-> "", creator |-> k.name]
ListedOtherwise(k) ==
  k.res \in Unmanaged \/ \E cl \in claims : cl.res = k.res /\ cl # ClaimOf(k)

CreatorCreates(k) ==
  /\ Elsewhere /\ k.res \notin DOMAIN live
  /\ spent.creations < MaxCreations /\ Spend("creations")
  /\ live' = With(live, k.res, [fields |-> NoKey, children |-> Childless(k.res)])
  /\ calm' = FALSE
  /\ UNCHANGED <<exposed, disk>>

\* ClaimCreated.
CreatorClaims(k) ==
  /\ Elsewhere /\ k.res \in DOMAIN live
  /\ ~ListedOtherwise(k) /\ ClaimOf(k) \notin claims
  /\ claims' = claims \cup {ClaimOf(k)} /\ committed' = FALSE /\ calm' = FALSE
  /\ UNCHANGED <<provider, declared, spent>>

\* CreatorDeletes: only what its own claim covers.
CreatorDeletes(k) ==
  /\ Elsewhere /\ k.res \in DOMAIN live /\ ClaimOf(k) \in claims
  /\ live' = Without(live, {k.res}) /\ exposed' = ExposedWithout({k.res})
  /\ calm' = FALSE
  /\ UNCHANGED <<disk, spent>>

\* UnclaimCreated.
CreatorUnclaims(k) ==
  /\ Elsewhere /\ k.res \notin DOMAIN live /\ ClaimOf(k) \in claims
  /\ claims' = claims \ {ClaimOf(k)} /\ committed' = FALSE /\ calm' = FALSE
  /\ UNCHANGED <<provider, declared, spent>>

Environment ==
  \/ \E x \in ExposedValues : Assign(x)
  \/ Drift \/ Edit \/ Commit
  \/ \E k \in Creators : \/ CreatorCreates(k) \/ CreatorClaims(k)
                         \/ CreatorDeletes(k) \/ CreatorUnclaims(k)

Next == Command \/ Environment

Spec == Init /\ [][Next]_vars

-------------------------------------------------------------------------------
(***************************************************************************)
(* Properties.                                                             *)
(***************************************************************************)
Phases == {"idle", "loaded", "reading", "ordering", "placing", "planned",
           "realizing", "writing"}
Outcomes == {"none", "shown", "refused", "stopped", "out of order", "unreadable",
             "differences", "matching"}

\* The shape of every variable: what is live and assigned, where the command
\* is, and that an execution never runs past the end of its plan.
TypeOK ==
  /\ DOMAIN live \subseteq Resources /\ DOMAIN exposed \subseteq ExposedValues
  /\ pc \in Phases /\ mode \in {"dry", "apply", "after"} /\ outcome \in Outcomes
  /\ declared \in Sets /\ committed \in BOOLEAN /\ calm \in BOOLEAN
  /\ set \in Sets \cup {NoSet}
  /\ Range(plan) \subseteq changes
  /\ at \in 1..(Len(plan) + 1)
  /\ created \subseteq Resources
  /\ writes # {} <=> pc = "writing"

\* A plan runs only if the last dry run printed exactly its changes: the
\* identifier tells apart any two plans with different writes, exposed values
\* it does not hash included (planID, Plan.Accept).
ExecutesWhatWasReviewed ==
  pc \in {"realizing", "writing"} =>
    changes = reviewed.changes /\ Range(plan) = changes

\* A fact of the constants: what is not compared (CreateOnly, and a child's fields beside
\* its key and the compared ones) refers to nothing.
WhatRefersIsCompared ==
  \A s \in Sets : \A r \in Declared(s) :
    /\ \A f \in DOMAIN s.resources[r].fields :
         f \in Fields[TypeOf[r]] \/ s.resources[r].fields[f].kind = "literal"
    /\ \A col \in CollectionsOf(r) :
         \A it \in s.resources[r].children[col]
                     \cup UNION {d.gives : d \in {e \in SlotsOf(s, r) : e.col = col}} :
           DOMAIN it \subseteq KeyFields(col, it) \cup ItemFields[col]

\* Facts of the constants: an unmanaged entry matches key fields, as a slot does, and
\* what a slot matches of a declared child is written there, not referred to.
UnmanagedMatchesKeys ==
  \A s \in Sets : \A r \in Declared(s) : \A u \in s.resources[r].unmanaged :
    DOMAIN u.match \subseteq Key[u.col]
WhatSlotsMatchIsWritten ==
  \A s \in Sets : \A d \in {e \in s.slots : ~IsFieldSlot(e)} :
    \A it \in s.resources[d.target].children[d.col] :
      \A f \in DOMAIN d.match \cap DOMAIN it : it[f].kind = "literal"

Complete == pc \in {"placing", "planned", "realizing", "writing"}

\* Every change of a plan comes after the creations it waits on, its own
\* resource's among them (orderByNeeds, kept by orderDeletesByUses).
CreationsFirst ==
  Complete =>
    \A i \in DOMAIN plan :
      AllNeeds(plan[i]) \subseteq Creations({plan[j] : j \in 1..(i - 1)})

\* Every create and update of a plan runs before every delete and unclaim,
\* wherever waiting on creations has moved it.
UpsertsFirst ==
  Complete =>
    \A i, j \in DOMAIN plan : i < j /\ IsUpsert(plan[j]) => IsUpsert(plan[i])

\* The fields a declaration gives, itself or by a derivation, and those a live resource
\* may have: given by some declarations, there to begin with, or set by hand.
FieldSlotsOf(s, r) == {d \in s.slots : d.target = r /\ IsFieldSlot(d)}
GivenBy(s, r)      == DOMAIN s.resources[r].fields \cup {d.field : d \in FieldSlotsOf(s, r)}
KnownFields(r) ==
  (UNION {GivenBy(s, r) : s \in {t \in Sets : r \in Declared(t)}})
    \cup (UNION {DOMAIN w.live[r].fields : w \in {v \in Worlds : r \in DOMAIN v.live}})
    \cup {d.field : d \in {e \in FieldDrifts : e.res = r}}

\* A fact of the constants: no optional field is left out that may have been set.
FieldsAreAlwaysGiven ==
  \A s \in Sets : \A r \in Declared(s) :
    Fields[TypeOf[r]] \cap KnownFields(r) \subseteq GivenBy(s, r)

\* Execute never meets "a bug in the plan's order": what it writes waits on
\* nothing that has not run, and an updated field is one the change carries.
NeverOutOfOrder == outcome # "out of order"

\* What Execute writes of a child is never a value whose creation it has yet to
\* run: the plan's order is enough for every change, whatever fails in between.
WritesInTime == pc = "realizing" /\ at <= Len(plan) => ~WritesTooEarly(Current)

\* No placeholder, reference or reason ever reaches the provider.
NothingWaitingIsWritten ==
  \A r \in DOMAIN live :
    /\ \A v \in Range(live[r].fields) : v.kind = "literal"
    /\ \A col \in CollectionsOf(r) :
         \A v \in ValuesOf(live[r].children[col]) : v.kind = "literal"

\* One apply runs everything: when it ran to its end undisturbed and nothing
\* was unresolved when it was planned, no difference is left.
OneApplySuffices == calm => outcome # "differences"

\* A step of the command that changes what is live.
CommandWrites == pc = "writing" /\ (pc' # pc \/ writes' # writes)

\* In a project, an apply deletes no resource, and of its children none that an
\* unmanaged entry leaves alone, none that a slot covers whose derivation gave
\* nothing, and none it expects.
LeavesTheRestAlone ==
  [][CommandWrites /\ ~Account =>
       \A r \in DOMAIN live :
         /\ r \in DOMAIN live'
         /\ \A col \in CollectionsOf(r) : \A li \in live[r].children[col] :
              (\A new \in live'[r].children[col] : ItemKey(col, new) # ItemKey(col, li))
              => /\ ~LeftAlone(r, col, li)
                 /\ \A s \in Covering(r, col, li) : Resolved(s) \/ IsPending(s)
                 /\ \A e \in ExpectedChildren(r, col) :
                      ItemKey(col, e.item) # ItemKey(col, li)]_vars

\* In the account repository, an apply deletes only what it found unclaimed when it
\* compared: nothing declared there, claimed or unmanaged as it loaded the claims,
\* and what a listed resource owns only together with it (unclaimed).
DeletesOnlyUnclaimed ==
  [][CommandWrites /\ Account =>
       \A r \in DOMAIN live \ DOMAIN live' :
         /\ r \notin Declared(set) \cup ClaimedResources \cup given.unmanaged
         /\ OwnerOf[r] \in Listed => OwnerOf[r] \notin DOMAIN live']_vars

\* What Owning's comment says of a resource whose owner is declared there, claimed
\* or listed unmanaged: it is not unclaimed, whether its owner is live or not.
OwnedStayWithTheirOwner ==
  [][CommandWrites /\ Account =>
       \A r \in DOMAIN live \ DOMAIN live' :
         OwnerOf[r] \notin Declared(set) \cup ClaimedResources \cup given.unmanaged]_vars

\* Of two resources a plan deletes, one using the other, the user goes first
\* (orderDeletesByUses), whatever their stages.
UsersGoFirst ==
  pc \in {"planned", "realizing", "writing"} =>
    \A i, j \in Places :
      i # j /\ plan[i].res \in UsersOf[plan[j].res] => i < j

\* The claims an apply takes out of claims.toml are creators', of resources their
\* type's list, read, did not name: a project's claim may come before its resource,
\* and a list that failed says nothing.
UnclaimsOnlyStale ==
  [][CommandWrites =>
       \A cl \in claims \ claims' :
         /\ cl.creator # ""
         /\ ListRead(TypeOf[cl.res]) /\ cl.res \notin Listed]_vars

\* No resource a creator claims when the apply deletes is deleted.
NeverDeletesClaimed ==
  [][CommandWrites /\ Account =>
       \A cl \in claims : cl.creator # "" =>
         ~(cl.res \in DOMAIN live /\ cl.res \notin DOMAIN live')]_vars

\* Every child an apply deletes is one its dry run showed deleted: in a change of
\* its own, or among those a deferred change covers.
DeletesOnlyWhatWasShown ==
  [][CommandWrites =>
       \A r \in DOMAIN live \cap DOMAIN live' : \A col \in CollectionsOf(r) :
         \A li \in live[r].children[col] :
           (\A new \in live'[r].children[col] : ItemKey(col, new) # ItemKey(col, li))
           => \E c \in reviewed.changes :
                /\ c.res = r /\ c.col = col
                /\ \/ c.action = "delete" /\ c.key = ItemKey(col, li)
                   \/ \E shown \in c.covered : ItemKey(col, shown) = ItemKey(col, li)]_vars

(***************************************************************************)
(* Operators run the dry run and the apply again and again and commit what *)
(* they edit; a command that can go on does; a provider assigns values.    *)
(***************************************************************************)
Fairness ==
  /\ WF_vars(Command /\ pc # "idle")
  /\ \A m \in {"dry", "apply"} : SF_vars(Load(m))
  /\ SF_vars(Commit)
  /\ \A x \in ExposedValues : SF_vars(Assign(x))

FairSpec == Spec /\ Fairness

\* Whatever drift, failures and stopped applies came before, applies keep
\* ending in a report with no difference once the drift and failures are over.
KeepsMatching == []<>(outcome = "matching")
===============================================================================
