-------------------------- MODULE DeclExecute_proofs --------------------------
(***************************************************************************)
(* The order of every plan, for every tool, declaration set, live state    *)
(* and bound: UpsertsFirst, CreationsFirst and UsersGoFirst as theorems of *)
(* Spec.  Then TypeOK, and what it rests on: an apply creates nothing that *)
(* is not declared.                                                        *)
(*                                                                         *)
(* Then that Execute runs a plan in an order that suffices: WritesInTime,  *)
(* from CreationsFirst and from what realizer.created holds at each        *)
(* change.  Only data is written: what is live is followed through a       *)
(* comparison, its differences, the changes of the plan and the writes     *)
(* made of them.  From both: Execute never meets a bug in the plan's       *)
(* order.                                                                  *)
(*                                                                         *)
(* Then what an apply may take away.  Of the account repository: the       *)
(* resources nobody claims and the claims nothing stands behind            *)
(* (DeletesOnlyUnclaimed and UnclaimsOnlyStale).  Of a project: no         *)
(* resource, and no child but those found unexpected or no longer derived  *)
(* (LeavesTheRestAlone).                                                   *)
(***************************************************************************)
EXTENDS DeclApply, TLAPS

-------------------------------------------------------------------------------
(***************************************************************************)
(* The order of a plan.  UpsertsFirst and CreationsFirst speak of complete *)
(* plans; what holds of every prefix orderByNeeds builds is stronger.      *)
(***************************************************************************)
NeedsMet ==
  \A i \in DOMAIN plan :
    AllNeeds(plan[i]) \subseteq Creations({plan[j] : j \in 1..(i - 1)})

UpsertsLead ==
  \A i, j \in DOMAIN plan : i < j /\ IsUpsert(plan[j]) => IsUpsert(plan[i])

\* Once a delete or an unclaim is taken no create or update is ready, and as
\* neither creates anything none becomes ready: what waits then waits for ever.
UpsertsStuck ==
  pc = "ordering" =>
    \A i \in DOMAIN plan : ~IsUpsert(plan[i]) => \A c \in Ready : ~IsUpsert(c)

DeletesPlaced ==
  \A n \in DOMAIN placed :
    /\ n \in Places
    /\ IsWholeDelete(placed[n])
    /\ \E i \in DOMAIN plan : plan[i] = placed[n]

OrderInv ==
  /\ plan \in Seq(changes)
  /\ NeedsMet
  /\ UpsertsLead
  /\ UpsertsStuck
  /\ DeletesPlaced

\* A step that leaves the plan alone keeps the invariant.
LEMMA PlanKept ==
  ASSUME OrderInv, UNCHANGED planning, pc' = "ordering" => pc = "ordering"
  PROVE  OrderInv'
<1>1. plan' = plan /\ changes' = changes /\ placed' = placed
  BY DEF planning
<1>2. Ready' = Ready
  BY <1>1 DEF Ready, ToTake, Taken, Done, AllNeeds, OwnNeeds, Creations
<1>3. NeedsMet'
  BY <1>1 DEF OrderInv, NeedsMet, AllNeeds, OwnNeeds, Creations
<1>4. UpsertsStuck'
  BY <1>1, <1>2 DEF OrderInv, UpsertsStuck
<1>5. DeletesPlaced'
  BY <1>1 DEF OrderInv, DeletesPlaced, Places
<1> QED
  BY <1>1, <1>3, <1>4, <1>5 DEF OrderInv, UpsertsLead

\* So does one that starts a plan afresh or drops it.
LEMMA PlanEmptied ==
  ASSUME plan' = <<>>, placed' = [i \in {} |-> NoSlot]
  PROVE  OrderInv'
BY DEF OrderInv, NeedsMet, UpsertsLead, UpsertsStuck, DeletesPlaced

\* One iteration of orderByNeeds.
LEMMA RangeOfAppend ==
  ASSUME NEW S, NEW s \in Seq(S), NEW e
  PROVE  Range(Append(s, e)) = Range(s) \cup {e}
<1>1. Len(s) \in Nat /\ DOMAIN s = 1..Len(s)
  OBVIOUS
<1>2. DOMAIN Append(s, e) = 1..(Len(s) + 1)
  OBVIOUS
<1>3. Append(s, e)[Len(s) + 1] = e
  OBVIOUS
<1>4. \A i \in 1..Len(s) : Append(s, e)[i] = s[i]
  OBVIOUS
<1> QED
  BY <1>1, <1>2, <1>3, <1>4 DEF Range

LEMMA DeletesCreateNothing ==
  ASSUME NEW c, ~IsUpsert(c)
  PROVE  ~IsCreation(c)
BY DEF IsCreation, IsUpsert

LEMMA UpsertsPrecede ==
  ASSUME NEW c, NEW d, IsUpsert(d), ~IsUpsert(c)
  PROVE  Precedes(d, c)
BY DEF Precedes, Class

LEMMA TakingKeepsTheOrder ==
  ASSUME OrderInv, pc = "ordering", pc' = pc, TakeEarliest
  PROVE  OrderInv'
<1>1. PICK c \in Ready : /\ \A d \in Ready : ~Precedes(d, c)
                         /\ plan' = Append(plan, c)
                         /\ UNCHANGED <<changes, placed>>
  BY DEF TakeEarliest
<1> DEFINE n == Len(plan) + 1
<1>2. /\ plan \in Seq(changes) /\ c \in changes
      /\ plan' \in Seq(changes)
      /\ DOMAIN plan = 1..Len(plan) /\ DOMAIN plan' = 1..n
      /\ Len(plan) \in Nat
      /\ plan'[n] = c
      /\ \A i \in DOMAIN plan : i \in DOMAIN plan' /\ plan'[i] = plan[i]
  BY <1>1 DEF OrderInv, Ready, ToTake
<1>3. \A x : AllNeeds(x)' = AllNeeds(x)
  BY <1>1 DEF AllNeeds, OwnNeeds, Creations
<1>4. AllNeeds(c) \subseteq Creations({plan[j] : j \in 1..(n - 1)})
  <2>1. AllNeeds(c) \subseteq Creations(Range(plan))
    BY <1>1 DEF Ready, Done, Taken
  <2>2. Range(plan) = {plan[j] : j \in 1..(n - 1)}
    BY <1>2 DEF Range
  <2> QED
    BY <2>1, <2>2
<1>5. NeedsMet'
  <2> SUFFICES ASSUME NEW i \in DOMAIN plan'
               PROVE  AllNeeds(plan'[i]) \subseteq Creations({plan'[j] : j \in 1..(i - 1)})
    BY <1>3 DEF NeedsMet, Creations
  <2>1. {plan'[j] : j \in 1..(i - 1)} = {plan[j] : j \in 1..(i - 1)}
    BY <1>2
  <2>2. CASE i \in DOMAIN plan
    BY <1>2, <2>1, <2>2 DEF OrderInv, NeedsMet
  <2>3. CASE i = n
    BY <1>2, <1>4, <2>1, <2>3
  <2> QED
    BY <1>2, <2>2, <2>3
<1>6. \A i \in DOMAIN plan : ~IsUpsert(plan[i]) => ~IsUpsert(c)
  BY <1>1 DEF OrderInv, UpsertsStuck
<1>7. UpsertsLead'
  <2> SUFFICES ASSUME NEW i \in DOMAIN plan', NEW j \in DOMAIN plan',
                      i < j, IsUpsert(plan'[j])
               PROVE  IsUpsert(plan'[i])
    BY DEF UpsertsLead, IsUpsert
  <2>1. CASE j \in DOMAIN plan
    BY <1>2, <2>1 DEF OrderInv, UpsertsLead
  <2>2. CASE j = n
    BY <1>2, <1>6, <2>2
  <2> QED
    BY <1>2, <2>1, <2>2
<1>8. UpsertsStuck'
  <2> SUFFICES ASSUME NEW i \in DOMAIN plan', ~IsUpsert(plan'[i])
               PROVE  \A d \in Ready' : ~IsUpsert(d)
    BY DEF UpsertsStuck, IsUpsert
  <2>1. ~IsUpsert(c)
    BY <1>2, <1>6
  <2>2. \A d \in Ready : ~IsUpsert(d)
    BY <1>1, <2>1, UpsertsPrecede
  <2>3. Range(plan') = Range(plan) \cup {c}
    BY <1>1, <1>2, RangeOfAppend
  <2>4. Creations(Range(plan')) = Creations(Range(plan))
    BY <2>1, <2>3, DeletesCreateNothing DEF Creations
  <2>5. Ready' \subseteq Ready
    BY <1>1, <1>3, <2>3, <2>4 DEF Ready, ToTake, Taken, Done
  <2> QED
    BY <2>2, <2>5
<1>9. DeletesPlaced'
  BY <1>1, <1>2 DEF OrderInv, DeletesPlaced, Places
<1> QED
  BY <1>1, <1>2, <1>5, <1>7, <1>8, <1>9 DEF OrderInv

\* One iteration of orderDeletesByUses, and what it returns.
LEMMA PlacingKeepsTheOrder ==
  ASSUME OrderInv, pc' # "ordering", PlaceDelete
  PROVE  OrderInv'
<1>1. PICK n \in Places \ DOMAIN placed, i \in Placeable :
        /\ placed' = [m \in DOMAIN placed \cup {n} |-> IF m = n THEN plan[i] ELSE placed[m]]
        /\ UNCHANGED <<changes, plan>>
  BY DEF PlaceDelete
<1>2. i \in Places /\ Places' = Places
  BY <1>1 DEF Placeable, Places
<1>3. DeletesPlaced'
  <2> SUFFICES ASSUME NEW m \in DOMAIN placed'
               PROVE  /\ m \in Places'
                      /\ IsWholeDelete(placed'[m])
                      /\ \E k \in DOMAIN plan' : plan'[k] = placed'[m]
    BY DEF DeletesPlaced, IsWholeDelete
  <2>1. CASE m = n
    BY <1>1, <1>2, <2>1 DEF Places
  <2>2. CASE m # n
    BY <1>1, <1>2, <2>2 DEF OrderInv, DeletesPlaced
  <2> QED
    BY <2>1, <2>2
<1>4. NeedsMet'
  BY <1>1 DEF OrderInv, NeedsMet, AllNeeds, OwnNeeds, Creations
<1> QED
  BY <1>1, <1>3, <1>4 DEF OrderInv, UpsertsLead, UpsertsStuck

LEMMA DeletesAreNotUpserts ==
  ASSUME NEW c, IsWholeDelete(c)
  PROVE  ~IsUpsert(c) /\ ~IsCreation(c)
BY DEF IsWholeDelete, IsUpsert, IsCreation

\* The deletes change places among themselves, and every creation comes before
\* all of them: so each keeps the creations it had before it.
LEMMA PuttingInPlaceKeepsTheOrder ==
  ASSUME OrderInv, pc' # "ordering", AllPlaced, PutInPlace
  PROVE  OrderInv'
<1>1. /\ plan \in Seq(changes) /\ DOMAIN plan = 1..Len(plan) /\ Len(plan) \in Nat
      /\ DOMAIN placed = Places /\ Places \subseteq DOMAIN plan
  BY DEF OrderInv, AllPlaced, Places
<1>2. /\ changes' = changes
      /\ plan' = [i \in DOMAIN plan |-> IF i \in Places THEN placed[i] ELSE plan[i]]
      /\ placed' = [i \in {} |-> NoSlot]
  BY DEF PutInPlace
<1>3. \A i \in Places : /\ IsWholeDelete(plan[i]) /\ IsWholeDelete(placed[i])
                        /\ \E k \in DOMAIN plan : plan[k] = placed[i]
  BY <1>1 DEF OrderInv, DeletesPlaced, Places
<1>4. \A i \in DOMAIN plan : plan'[i] \in changes
  BY <1>1, <1>2, <1>3
<1>5. plan' \in Seq(changes)
  <2>1. plan' \in [1..Len(plan) -> changes]
    BY <1>1, <1>2, <1>4
  <2> QED
    BY <1>1, <2>1
<1>6. \A i \in DOMAIN plan : /\ IsUpsert(plan'[i]) <=> IsUpsert(plan[i])
                             /\ IsCreation(plan[i]) \/ IsCreation(plan'[i])
                                  => i \notin Places /\ plan'[i] = plan[i]
  BY <1>2, <1>3, DeletesAreNotUpserts
<1>7. UpsertsLead'
  BY <1>1, <1>2, <1>6 DEF OrderInv, UpsertsLead, IsUpsert
<1>8. ASSUME NEW i \in DOMAIN plan
      PROVE  Creations({plan[j] : j \in 1..(i - 1)}) \subseteq Creations({plan'[j] : j \in 1..(i - 1)})
  <2>1. 1..(i - 1) \subseteq DOMAIN plan
    BY <1>1
  <2> QED
    BY <1>6, <2>1 DEF Creations
<1>9. ASSUME NEW i \in Places, NEW k \in DOMAIN plan
      PROVE  Creations({plan[j] : j \in 1..(k - 1)}) \subseteq Creations({plan[j] : j \in 1..(i - 1)})
  <2> SUFFICES ASSUME NEW j \in 1..(k - 1), IsCreation(plan[j])
               PROVE  j \in 1..(i - 1)
    BY DEF Creations
  <2>1. j \in DOMAIN plan /\ i \in DOMAIN plan
    BY <1>1
  <2>2. IsUpsert(plan[j]) /\ ~IsUpsert(plan[i])
    BY <1>3, DeletesCreateNothing, DeletesAreNotUpserts
  <2>3. ~(i < j) /\ i # j
    BY <2>1, <2>2 DEF OrderInv, UpsertsLead
  <2> QED
    BY <1>1, <2>1, <2>3
<1>10. NeedsMet'
  <2>1. \A x : AllNeeds(x)' = AllNeeds(x)
    BY <1>2 DEF AllNeeds, OwnNeeds, Creations
  <2> SUFFICES ASSUME NEW i \in DOMAIN plan
               PROVE  AllNeeds(plan'[i]) \subseteq Creations({plan'[j] : j \in 1..(i - 1)})
    BY <1>2, <2>1 DEF NeedsMet, Creations
  <2>2. CASE i \in Places
    <3>1. PICK k \in DOMAIN plan : plan[k] = placed[i]
      BY <1>3, <2>2
    <3>2. AllNeeds(plan'[i]) \subseteq Creations({plan[j] : j \in 1..(k - 1)})
      BY <1>2, <2>2, <3>1 DEF OrderInv, NeedsMet
    <3> QED
      BY <1>8, <1>9, <2>2, <3>2
  <2>3. CASE i \notin Places
    BY <1>2, <1>8, <2>3 DEF OrderInv, NeedsMet
  <2> QED
    BY <2>2, <2>3
<1> QED
  BY <1>2, <1>5, <1>7, <1>10 DEF OrderInv, UpsertsStuck, DeletesPlaced

-------------------------------------------------------------------------------
(***************************************************************************)
(* Every step keeps it.                                                    *)
(***************************************************************************)
LEMMA ReturnEmptiesThePlan ==
  ASSUME NEW how, Return(how)
  PROVE  OrderInv'
BY PlanEmptied DEF Return

\* The steps that leave the plan alone, whatever else they do.
LEMMA EnvironmentLeavesThePlan ==
  ASSUME OrderInv, Environment
  PROVE  OrderInv'
<1>1. UNCHANGED planning /\ pc' = pc
  BY DEF Environment, Assign, Drift, Edit, Commit, CreatorCreates, CreatorClaims,
         CreatorDeletes, CreatorUnclaims, Elsewhere
<1> QED
  BY <1>1, PlanKept

LEMMA PlanningKeepsTheOrder ==
  ASSUME OrderInv,
         Compared \/ Order \/ OrderStuck \/ Ordered \/ Place \/ PlaceRefused \/ Placed
  PROVE  OrderInv'
<1>1. CASE Compared
  <2>1. CASE \E how : Return(how)
    BY <2>1, ReturnEmptiesThePlan
  <2>2. CASE ~\E how : Return(how)
    BY <1>1, <2>2, PlanEmptied DEF Compared
  <2> QED
    BY <2>1, <2>2
<1>2. CASE Order
  BY <1>2, TakingKeepsTheOrder DEF Order
<1>3. CASE OrderStuck
  BY <1>3, ReturnEmptiesThePlan DEF OrderStuck
<1>4. CASE Ordered
  BY <1>4, PlanKept DEF Ordered
<1>5. CASE Place
  BY <1>5, PlacingKeepsTheOrder DEF Place
<1>6. CASE PlaceRefused
  BY <1>6, ReturnEmptiesThePlan DEF PlaceRefused
<1>7. CASE Placed
  BY <1>7, PuttingInPlaceKeepsTheOrder DEF Placed
<1> QED
  BY <1>1, <1>2, <1>3, <1>4, <1>5, <1>6, <1>7

LEMMA OtherCommandsKeepTheOrder ==
  ASSUME OrderInv,
         \/ \E m \in {"dry", "apply"} : Load(m)
         \/ CheckGit \/ ReadNext \/ Show \/ Accept
         \/ RealizeNext \/ RealizeFails \/ Write \/ WriteStops
         \/ CompareAgain \/ Report
  PROVE  OrderInv'
<1>1. CASE \E how : Return(how)
  BY <1>1, ReturnEmptiesThePlan
<1>2. CASE ~\E how : Return(how)
  <2>1. UNCHANGED planning /\ (pc' = "ordering" => pc = "ordering")
    <3>1. CASE \E m \in {"dry", "apply"} : Load(m)
      BY <3>1 DEF Load
    <3>2. CASE CheckGit
      BY <1>2, <3>2 DEF CheckGit
    <3>3. CASE ReadNext
      BY <3>3 DEF ReadNext
    <3>4. CASE Show
      BY <1>2, <3>4 DEF Show
    <3>5. CASE Accept
      BY <1>2, <3>5 DEF Accept
    <3>6. CASE RealizeNext
      BY <1>2, <3>6 DEF RealizeNext, Advance
    <3>7. CASE RealizeFails
      BY <1>2, <3>7 DEF RealizeFails
    <3>8. CASE Write
      BY <3>8 DEF Write, Advance
    <3>9. CASE WriteStops
      BY <1>2, <3>9 DEF WriteStops
    <3>10. CASE CompareAgain
      BY <3>10 DEF CompareAgain
    <3>11. CASE Report
      BY <1>2, <3>11 DEF Report
    <3> QED
      BY <3>1, <3>2, <3>3, <3>4, <3>5, <3>6, <3>7, <3>8, <3>9, <3>10, <3>11
  <2> QED
    BY <2>1, PlanKept
<1> QED
  BY <1>1, <1>2

\* Every prefix orderByNeeds builds, and what orderDeletesByUses makes of the
\* whole, is in order: the invariant the next two theorems follow from.
THEOREM PlansStayInOrder == Spec => []OrderInv
<1>1. Init => OrderInv
  <2> SUFFICES ASSUME Init PROVE OrderInv
    OBVIOUS
  <2> QED
    BY DEF Init, OrderInv, NeedsMet, UpsertsLead, UpsertsStuck, DeletesPlaced
<1>2. OrderInv /\ [Next]_vars => OrderInv'
  <2> SUFFICES ASSUME OrderInv, [Next]_vars PROVE OrderInv'
    OBVIOUS
  <2>1. CASE Command
    BY <2>1, PlanningKeepsTheOrder, OtherCommandsKeepTheOrder DEF Command
  <2>2. CASE Environment
    BY <2>2, EnvironmentLeavesThePlan
  <2>3. CASE UNCHANGED vars
    BY <2>3, PlanKept DEF vars, planning
  <2> QED
    BY <2>1, <2>2, <2>3 DEF Next
<1> QED
  BY <1>1, <1>2, PTL DEF Spec

\* In every plan, the creates and updates come before the deletes and unclaims.
THEOREM UpsertsAlwaysFirst == Spec => []UpsertsFirst
<1>1. OrderInv => UpsertsFirst
  BY DEF OrderInv, UpsertsLead, UpsertsFirst
<1> QED
  BY <1>1, PlansStayInOrder, PTL

\* In every plan, each change comes after the creations it waits on.
THEOREM CreationsAlwaysFirst == Spec => []CreationsFirst
<1>1. OrderInv => CreationsFirst
  BY DEF OrderInv, NeedsMet, CreationsFirst
<1> QED
  BY <1>1, PlansStayInOrder, PTL


-------------------------------------------------------------------------------
(***************************************************************************)
(* The order of a plan's resource-level deletes: UsersGoFirst.             *)
(***************************************************************************)
(***************************************************************************)
(* While orderDeletesByUses runs, the places filled come before the others *)
(* and hold deletes of distinct resources, each after its users.           *)
(***************************************************************************)
FilledFromTheStart ==
  \A m \in DOMAIN placed, n \in Places \ DOMAIN placed : m < n

PlacedOnce ==
  \A m, n \in DOMAIN placed : placed[m].res = placed[n].res => m = n

UsersPlacedBefore ==
  \A n \in DOMAIN placed : \A u \in UsersDeleted(placed[n]) :
    \E m \in DOMAIN placed : m < n /\ placed[m].res = u

PlacingInv ==
  /\ FilledFromTheStart /\ PlacedOnce /\ UsersPlacedBefore
  /\ pc # "placing" => placed = [i \in {} |-> NoSlot]
  /\ UsersGoFirst

LEMMA NothingPlaced ==
  ASSUME placed' = [i \in {} |-> NoSlot]
  PROVE  FilledFromTheStart' /\ PlacedOnce' /\ UsersPlacedBefore'
BY DEF FilledFromTheStart, PlacedOnce, UsersPlacedBefore

\* One iteration: the earliest delete whose users are placed takes the next place.
LEMMA PlacingADelete ==
  ASSUME PlacingInv, OrderInv, pc = "placing", pc' = pc, PlaceDelete
  PROVE  PlacingInv'
<1>1. PICK n \in Places \ DOMAIN placed, i \in Placeable :
        /\ \A m \in Places \ DOMAIN placed : n <= m
        /\ placed' = [m \in DOMAIN placed \cup {n} |-> IF m = n THEN plan[i] ELSE placed[m]]
        /\ UNCHANGED <<changes, plan>>
  BY DEF PlaceDelete
<1>2. /\ DOMAIN placed' = DOMAIN placed \cup {n} /\ placed'[n] = plan[i]
      /\ \A m \in DOMAIN placed : placed'[m] = placed[m] /\ m # n /\ m < n
      /\ Places' = Places /\ plan' = plan
      /\ Places \subseteq Nat /\ DOMAIN placed \subseteq Places
  BY <1>1 DEF PlacingInv, FilledFromTheStart, OrderInv, DeletesPlaced, Places
<1>3. \A m \in DOMAIN placed \cup {n}, k \in Places \ (DOMAIN placed \cup {n}) : m < k
  <2> SUFFICES ASSUME NEW k \in Places, k \notin DOMAIN placed, k # n
               PROVE  n < k /\ \A m \in DOMAIN placed : m < k
    OBVIOUS
  <2>1. n < k
    BY <1>1, <1>2
  <2>2. \A m \in DOMAIN placed : m < k
    BY DEF PlacingInv, FilledFromTheStart
  <2> QED
    BY <2>1, <2>2
<1>4. FilledFromTheStart'
  BY <1>2, <1>3 DEF FilledFromTheStart
<1>5. plan[i].res \notin PlacedResources /\ UsersDeleted(plan[i]) \subseteq PlacedResources
  BY DEF Placeable
<1>6. PlacedOnce'
  <2>1. \A m \in DOMAIN placed : placed[m].res # plan[i].res
    BY <1>5 DEF PlacedResources
  <2> QED
    BY <1>2, <2>1 DEF PlacingInv, PlacedOnce
<1>7. \A c : UsersDeleted(c)' = UsersDeleted(c)
  BY <1>2 DEF UsersDeleted
<1>8. UsersPlacedBefore'
  <2> SUFFICES ASSUME NEW k \in DOMAIN placed \cup {n}, NEW u \in UsersDeleted(placed'[k])
               PROVE  \E m \in DOMAIN placed \cup {n} : m < k /\ placed'[m].res = u
    BY <1>2, <1>7 DEF UsersPlacedBefore
  <2>1. CASE k = n
    <3>1. PICK m \in DOMAIN placed : placed[m].res = u
      BY <1>2, <1>5, <2>1 DEF PlacedResources
    <3> QED
      BY <1>2, <2>1, <3>1
  <2>2. CASE k \in DOMAIN placed
    <3>1. PICK m \in DOMAIN placed : m < k /\ placed[m].res = u
      BY <1>2, <2>2 DEF PlacingInv, UsersPlacedBefore
    <3> QED
      BY <1>2, <3>1
  <2> QED
    BY <2>1, <2>2
<1> QED
  BY <1>6, <1>8, <1>4 DEF PlacingInv, UsersGoFirst

\* What it returns: every place filled.
LEMMA EveryPlaceFilled ==
  ASSUME PlacingInv, OrderInv, pc' = "planned", AllPlaced, PutInPlace
  PROVE  PlacingInv'
<1>1. /\ plan' = [i \in DOMAIN plan |-> IF i \in Places THEN placed[i] ELSE plan[i]]
      /\ placed' = [i \in {} |-> NoSlot]
      /\ DOMAIN placed = Places /\ Places \subseteq DOMAIN plan
      /\ Places \subseteq Nat
  BY DEF PutInPlace, AllPlaced, Places, OrderInv
<1>2. Places' = Places
  <2>1. \A i \in Places : IsWholeDelete(placed[i]) /\ plan'[i] = placed[i]
    BY <1>1 DEF OrderInv, DeletesPlaced
  <2>2. \A i \in DOMAIN plan \ Places : ~IsWholeDelete(plan[i]) /\ plan'[i] = plan[i]
    BY <1>1 DEF Places
  <2>3. DOMAIN plan' = DOMAIN plan
    BY <1>1
  <2>4. Places' = {i \in DOMAIN plan' : IsWholeDelete(plan'[i])}
    BY DEF Places, IsWholeDelete
  <2> QED
    BY <1>1, <2>1, <2>2, <2>3, <2>4
<1>3. UsersGoFirst'
  <2> SUFFICES ASSUME NEW i \in Places, NEW j \in Places, i # j,
                      placed[i].res \in UsersOf[placed[j].res]
               PROVE  i < j
    BY <1>1, <1>2 DEF UsersGoFirst
  <2>1. placed[i].res # placed[j].res
    BY <1>1 DEF PlacingInv, PlacedOnce
  <2>2. \E k \in Places : plan[k].res = placed[i].res
    BY <1>1 DEF OrderInv, DeletesPlaced, Places
  <2>3. placed[i].res \in UsersDeleted(placed[j])
    BY <2>1, <2>2 DEF UsersDeleted
  <2>4. PICK m \in Places : m < j /\ placed[m].res = placed[i].res
    BY <1>1, <2>3 DEF PlacingInv, UsersPlacedBefore
  <2> QED
    BY <1>1, <2>4 DEF PlacingInv, PlacedOnce
<1> QED
  BY <1>1, <1>3, NothingPlaced DEF PlacingInv

\* A step that leaves the plan alone, or empties it.
LEMMA DeletesKept ==
  ASSUME PlacingInv, UNCHANGED planning,
         pc' \in {"planned", "realizing", "writing"} => pc \in {"planned", "realizing", "writing"},
         pc = "placing" => pc' = "placing"
  PROVE  PlacingInv'
BY DEF PlacingInv, FilledFromTheStart, PlacedOnce, UsersPlacedBefore, UsersDeleted, Places,
       UsersGoFirst, planning

LEMMA DeletesDropped ==
  ASSUME placed' = [i \in {} |-> NoSlot],
         pc' \notin {"planned", "realizing", "writing"}
  PROVE  PlacingInv'
BY NothingPlaced DEF PlacingInv, UsersGoFirst

LEMMA EveryStepPlaces ==
  ASSUME PlacingInv, OrderInv, [Next]_vars
  PROVE  PlacingInv'
<1>1. CASE \E how : Return(how)
  BY <1>1, DeletesDropped DEF Return
<1>2. CASE ~\E how : Return(how)
  <2>1. CASE Compared
    BY <1>2, <2>1, DeletesDropped DEF Compared
  <2>2. CASE Order
    BY <2>2, DeletesDropped DEF Order, TakeEarliest, PlacingInv
  <2>3. CASE Place
    BY <2>3, PlacingADelete DEF Place
  <2>4. CASE Placed
    BY <2>4, EveryPlaceFilled DEF Placed
  <2>5. CASE Environment \/ UNCHANGED vars
    <3>1. UNCHANGED planning /\ pc' = pc
      BY <2>5 DEF Environment, Assign, Drift, Edit, Commit, CreatorCreates, CreatorClaims,
                  CreatorDeletes, CreatorUnclaims, Elsewhere, vars, planning
    <3> QED
      BY <3>1, DeletesKept
  <2>6. CASE \/ \E m \in {"dry", "apply"} : Load(m)
             \/ CheckGit \/ ReadNext \/ Ordered
    <3>1. UNCHANGED planning /\ pc # "placing" /\ pc' \notin {"planned", "realizing", "writing"}
      BY <1>2, <2>6 DEF Load, CheckGit, ReadNext, Ordered
    <3> QED
      BY <3>1, DeletesKept
  <2>7. CASE Accept \/ RealizeNext \/ Write \/ CompareAgain
    <3>1. UNCHANGED planning /\ pc \in {"planned", "realizing", "writing"}
      BY <1>2, <2>7 DEF Accept, RealizeNext, Write, CompareAgain
    <3> QED
      BY <3>1, DeletesKept
  <2>8. CASE OrderStuck \/ PlaceRefused \/ Show \/ RealizeFails \/ WriteStops \/ Report
    BY <1>2, <2>8 DEF OrderStuck, PlaceRefused, Show, RealizeFails, WriteStops, Report
  <2> QED
    BY <2>1, <2>2, <2>3, <2>4, <2>5, <2>6, <2>7, <2>8 DEF Next, Command
<1> QED
  BY <1>1, <1>2

LEMMA PlacingInvAlways == Spec => []PlacingInv
<1>1. Init => PlacingInv
  BY DEF Init, PlacingInv, FilledFromTheStart, PlacedOnce, UsersPlacedBefore, UsersGoFirst
<1>2. PlacingInv /\ OrderInv /\ [Next]_vars => PlacingInv'
  BY EveryStepPlaces
<1> QED
  BY <1>1, <1>2, PlansStayInOrder, PTL DEF Spec

\* Of two resources a plan deletes, one using the other, the user goes first.
THEOREM UsersAlwaysGoFirst == Spec => []UsersGoFirst
<1>1. PlacingInv => UsersGoFirst
  BY DEF PlacingInv
<1> QED
  BY <1>1, PlacingInvAlways, PTL

-------------------------------------------------------------------------------
(***************************************************************************)
(* Changes.  Every create and update, and every change a derivation gives, *)
(* is of a declared resource.                                              *)
(***************************************************************************)
ChangeShape == {"action", "res", "col", "field", "slot", "key", "item", "fields",
                "holds", "after", "covered", "owned", "claim"}

OfDeclaredResource(c) ==
  /\ ChangeShape \subseteq DOMAIN c
  /\ IsUpsert(c) \/ IsDeferred(c) => c.res \in Declared(set)

IsOf(r, d) ==
  \E status, col, key, field, was, is, source :
     d = Difference(status, r, col, key, field, was, is, source)

LEMMA ChildDifferences ==
  ASSUME NEW r, NEW col, NEW e
  PROVE  /\ \A status : IsOf(r, MissingChild(r, col, e, status))
         /\ IsOf(r, UnexpectedChild(r, col, e))
         /\ \A d \in ChildFieldDifferences(r, col, e) : IsOf(r, d)
<1>1. \A status : IsOf(r, MissingChild(r, col, e, status))
  BY Zenon DEF IsOf, MissingChild
<1>2. IsOf(r, UnexpectedChild(r, col, e))
  BY Zenon DEF IsOf, UnexpectedChild
<1>3. ASSUME NEW d \in ChildFieldDifferences(r, col, e) PROVE IsOf(r, d)
  <2>1. PICK fs :
          d = Difference(fs.status, r, col, ItemKey(col, e.item), fs.field,
                        Only(e.item, fs.field),
                        Only(CHOOSE li \in LiveAt(r, col, e.item) : TRUE, fs.field), e.source)
    BY ZenonT(60) DEF ChildFieldDifferences
  <2> QED
    BY <2>1, Zenon DEF IsOf
<1> QED
  BY <1>1, <1>2, <1>3

LEMMA DifferencesNameTheirResource ==
  ASSUME NEW r, NEW d \in ResourceDifferences(r)
  PROVE  d.res = r
<1>1. ASSUME NEW e \in SlotDifferences(r) PROVE IsOf(r, e)
  BY Zenon DEF SlotDifferences, IsOf
<1>2. ASSUME NEW e \in ResourceFieldDifferences(r) PROVE IsOf(r, e)
  BY Zenon DEF ResourceFieldDifferences, IsOf
<1>3. ASSUME NEW e \in MissingDifferences(r) PROVE IsOf(r, e)
  <2> DEFINE expected == ExpectedFields(r)
             status == IF HasUnresolved(expected) THEN "unresolved" ELSE "missing"
  <2>1. CASE e = Difference(status, r, "", NoKey, "", expected, NoKey, r)
    BY Zenon, <2>1 DEF IsOf
  <2>2. CASE \E p : e = MissingChild(r, p[1], p[2], status)
    BY <2>2, ChildDifferences
  <2> QED
    BY Zenon, <2>1, <2>2 DEF MissingDifferences
<1>4. ASSUME NEW col, NEW e \in CollectionDifferences(r, col) PROVE IsOf(r, e)
  <2>1. CASE \E x : e \in ChildFieldDifferences(r, col, x)
    BY <2>1, ChildDifferences
  <2>2. CASE \E x : e = MissingChild(r, col, x, "missing")
    BY <2>2, ChildDifferences
  <2>3. CASE \E li : e = UnexpectedChild(r, col, li)
    BY <2>3, ChildDifferences
  <2> QED
    BY Zenon, <2>1, <2>2, <2>3 DEF CollectionDifferences
<1>5. IsOf(r, d)
  BY Zenon, <1>1, <1>2, <1>3, <1>4 DEF ResourceDifferences
<1> QED
  BY <1>5 DEF IsOf, Difference

LEMMA ClaimDifferencesChangeNothing ==
  ASSUME NEW d \in ClaimDifferences
  PROVE  d.status \in {"unclaimed", "stale-claim", "misclaimed"}
<1> DEFINE Reports(status) ==
      \E r, source : d = Difference(status, r, "", NoKey, "", NoKey, NoKey, source)
<1>1. Reports("unclaimed") \/ Reports("stale-claim") \/ Reports("misclaimed")
  <2>1. CASE Account
    BY Zenon, <2>1 DEF ClaimDifferences
  <2>2. CASE ~Account
    BY Zenon, <2>2 DEF ClaimDifferences
  <2> QED
    BY <2>1, <2>2
<1>2. ASSUME NEW status, Reports(status) PROVE d.status = status
  <2>1. PICK r, source : d = Difference(status, r, "", NoKey, "", NoKey, NoKey, source)
    BY <1>2
  <2> QED
    BY <2>1 DEF Difference
<1> QED
  BY <1>1, <1>2

LEMMA ChangesAreOfDeclared ==
  ASSUME set \in Sets \cup {NoSet}, NEW c \in ChangesFor(Differences)
  PROVE  OfDeclaredResource(c)
<1>1. \A s \in set.slots : s.target \in Declared(set)
  BY SetsAreLoaded DEF LoadChecked, NoSet
<1>2. ASSUME NEW s \in set.slots,
             c = [OfDeclared(Change("create", s.target, s.col, NoKey, ""))
                    EXCEPT !.slot = s, !.after = After(s),
                           !.covered = {li \in LiveChildren(s.target, s.col) : MatchesAll(li, s.match)}]
      PROVE  OfDeclaredResource(c)
  BY <1>1, <1>2 DEF OfDeclaredResource, ChangeShape, OfDeclared, Change
<1>3. ASSUME NEW d \in Differences, d.status \in {"missing", "changed", "unexpected"},
             c = ChangeFor(d)
      PROVE  OfDeclaredResource(c)
  <2>1. d.res \in Declared(set)
    BY <1>3, DifferencesNameTheirResource, ClaimDifferencesChangeNothing DEF Differences
  <2>2. ChangeShape \subseteq DOMAIN c /\ c.res = d.res
    BY <1>3 DEF ChangeFor, ChangeShape, OfDeclared, Change
  <2> QED
    BY <2>1, <2>2 DEF OfDeclaredResource
<1>4. ASSUME NEW r, c = UnclaimedDelete(r)
      PROVE  OfDeclaredResource(c)
  BY <1>4 DEF OfDeclaredResource, ChangeShape, UnclaimedDelete, Change, IsUpsert, IsDeferred
<1>5. ASSUME NEW cl, c = [Change("unclaim", cl.res, "", NoKey, "") EXCEPT !.claim = {cl}]
      PROVE  OfDeclaredResource(c)
  BY <1>5 DEF OfDeclaredResource, ChangeShape, Change, IsUpsert, IsDeferred
<1> QED
  BY <1>2, <1>3, <1>4, <1>5 DEF ChangesFor, DeferredChanges

-------------------------------------------------------------------------------
(***************************************************************************)
(* The invariant: what an apply writes comes from the plan, what it plans  *)
(* from differences of the set it loaded, and "at" moves only in Execute.  *)
(***************************************************************************)
ExternalOK ==
  /\ DOMAIN live \subseteq Resources /\ DOMAIN exposed \subseteq ExposedValues
  /\ declared \in Sets /\ committed \in BOOLEAN

ChangesOK ==
  /\ \A c \in changes : OfDeclaredResource(c)
  /\ \A w \in writes : OfDeclaredResource(w)
  /\ pc = "idle" => changes = {}

AtOK ==
  /\ pc = "writing" => at <= Len(plan)
  /\ \/ at = 1
     \/ pc \in {"realizing", "writing"}
     \/ pc = "reading" /\ mode = "after"

TypeInv == TypeOK /\ ChangesOK /\ AtOK

\* What a command's return leaves is well typed whatever it was doing.
LEMMA ReturnTyped ==
  ASSUME TypeInv, ExternalOK', NEW how \in Outcomes, Return(how)
  PROVE  TypeInv'
<1>1. /\ pc' = "idle" /\ outcome' = how /\ set' = NoSet
      /\ changes' = {} /\ plan' = <<>>
      /\ at' = 1 /\ writes' = {} /\ created' = {}
      /\ mode' = mode /\ calm' = calm
  BY DEF Return
<1>2. TypeOK'
  BY <1>1 DEF TypeInv, TypeOK, ExternalOK, Range, Phases
<1> QED
  BY <1>1, <1>2 DEF TypeInv, ChangesOK, AtOK

\* What stays the same in a step that is not of Execute.
LEMMA ExecutionKept ==
  ASSUME TypeInv, ExternalOK', OrderInv', UNCHANGED <<set, execution>>,
         pc' \in Phases \ {"realizing", "writing", "idle"},
         pc \in Phases \ {"realizing", "writing"},
         mode' = mode, outcome' \in Outcomes, calm' \in BOOLEAN,
         at = 1 \/ (plan' = plan /\ pc' = pc),
         \A c \in changes' : OfDeclaredResource(c)
  PROVE  TypeInv'
<1>1. Len(plan') \in Nat /\ Range(plan') \subseteq changes'
  BY DEF OrderInv, Range
<1>2. at' = at /\ writes' = writes /\ created' = created /\ set' = set
  BY DEF execution
<1>3. TypeOK'
  BY <1>1, <1>2 DEF TypeInv, TypeOK, ExternalOK
<1>4. \A c : OfDeclaredResource(c)' <=> OfDeclaredResource(c)
  BY <1>2 DEF OfDeclaredResource
<1> QED
  BY <1>2, <1>3, <1>4 DEF TypeInv, ChangesOK, AtOK, TypeOK

-------------------------------------------------------------------------------
(***************************************************************************)
(* The provider, the writer and the environment.                           *)
(***************************************************************************)
LEMMA DeclaredAreResources ==
  ASSUME TypeInv
  PROVE  Declared(set) \subseteq Resources
BY SetsAreLoaded DEF TypeInv, TypeOK, Declared, NoSet, NoKey

LEMMA RestrictedDomain ==
  ASSUME NEW f, NEW S
  PROVE  DOMAIN Restrict(f, S) = S
BY DEF Restrict

LEMMA ProviderShrinks ==
  ASSUME NEW R
  PROVE  /\ DOMAIN Without(live, R) \subseteq DOMAIN live
         /\ DOMAIN ExposedWithout(R) \subseteq DOMAIN exposed
BY DEF Without, ExposedWithout, Restrict

LEMMA AddedDomain ==
  ASSUME NEW f, NEW x, NEW y
  PROVE  DOMAIN With(f, x, y) = {x} \cup DOMAIN f
BY DEF With

LEMMA EffectTyped ==
  ASSUME TypeInv, NEW w \in writes, Effect(w), declared' = declared
  PROVE  ExternalOK'
<1>1. ExternalOK
  BY DEF TypeInv, TypeOK, ExternalOK
<1>2. CASE IsCreation(w) /\ exposed' = exposed /\ committed' = committed
           /\ live' = With(live, w.res, [fields |-> w.fields, children |-> Childless(w.res)])
  <2>1. w.res \in Resources
    BY <1>2, DeclaredAreResources
       DEF TypeInv, ChangesOK, OfDeclaredResource, IsCreation, IsUpsert
  <2>2. DOMAIN live' = {w.res} \cup DOMAIN live
    BY <1>2, AddedDomain
  <2> QED
    BY <1>1, <1>2, <2>1, <2>2 DEF ExternalOK
<1>3. CASE \E R : /\ live' = Without(live, R) /\ exposed' = ExposedWithout(R)
                 /\ committed' = committed
  BY <1>1, <1>3, ProviderShrinks DEF ExternalOK
<1>4. CASE UNCHANGED provider /\ committed' = FALSE
  BY <1>1, <1>4 DEF ExternalOK, provider
<1>5. CASE \E s : live' = [live EXCEPT ![w.res] = s] /\ exposed' = exposed /\ committed' = committed
  BY <1>1, <1>5 DEF ExternalOK
<1> QED
  BY <1>2, <1>3, <1>4, <1>5 DEF Effect

LEMMA EnvironmentTyped ==
  ASSUME TypeInv, Environment
  PROVE  ExternalOK'
<1>1. ExternalOK
  BY DEF TypeInv, TypeOK, ExternalOK
<1>2. CASE \E x \in ExposedValues : Assign(x)
  <2>1. PICK x \in ExposedValues : \E v : exposed' = With(exposed, x, Literal(v))
    BY Zenon, <1>2 DEF Assign
  <2>2. live' = live /\ declared' = declared /\ committed' = committed
    BY <1>2 DEF Assign, disk
  <2>3. DOMAIN exposed' = {x} \cup DOMAIN exposed
    BY <2>1, AddedDomain
  <2> QED
    BY <1>1, <2>2, <2>3 DEF ExternalOK
<1>3. CASE Drift
  <2>1. declared' = declared /\ committed' = committed
    BY <1>3 DEF Drift, disk
  <2>2. CASE \E R : live' = Without(live, R) /\ exposed' = ExposedWithout(R)
    BY <1>1, <2>1, <2>2, ProviderShrinks DEF ExternalOK
  <2>3. CASE \E r, s : live' = [live EXCEPT ![r] = s] /\ exposed' = exposed
    BY <1>1, <2>1, <2>3 DEF ExternalOK
  <2>4. CASE \E x, v : exposed' = [exposed EXCEPT ![x] = v] /\ live' = live
    BY <1>1, <2>1, <2>4 DEF ExternalOK
  <2> QED
    BY Zenon, <1>3, <2>2, <2>3, <2>4 DEF Drift
<1>4. CASE Edit \/ Commit
  BY <1>1, <1>4 DEF Edit, Commit, ExternalOK, provider
<1>5. CASE \E k \in Creators : \/ CreatorCreates(k) \/ CreatorClaims(k)
                              \/ CreatorDeletes(k) \/ CreatorUnclaims(k)
  <2> PICK k \in Creators : \/ CreatorCreates(k) \/ CreatorClaims(k)
                           \/ CreatorDeletes(k) \/ CreatorUnclaims(k)
    BY <1>5
  <2>1. CASE CreatorCreates(k)
    BY <1>1, <2>1, AddedDomain, ProviderHoldsResources DEF CreatorCreates, ExternalOK, disk
  <2>2. CASE CreatorClaims(k) \/ CreatorUnclaims(k)
    BY <1>1, <2>2 DEF CreatorClaims, CreatorUnclaims, ExternalOK, provider
  <2>3. CASE CreatorDeletes(k)
    BY <1>1, <2>3, ProviderShrinks DEF CreatorDeletes, ExternalOK, disk
  <2> QED
    BY <2>1, <2>2, <2>3
<1> QED
  BY <1>2, <1>3, <1>4, <1>5 DEF Environment

-------------------------------------------------------------------------------
(***************************************************************************)
(* Execute.                                                                *)
(***************************************************************************)
LEMMA CurrentIsAChange ==
  ASSUME TypeInv, OrderInv, at <= Len(plan)
  PROVE  /\ OfDeclaredResource(Current)
         /\ at \in 1..Len(plan) /\ Len(plan) \in Nat
<1>1. Len(plan) \in Nat /\ at \in 1..Len(plan)
  BY DEF OrderInv, TypeInv, TypeOK
<1>2. Current \in changes
  BY <1>1 DEF OrderInv, Current
<1> QED
  BY <1>1, <1>2 DEF TypeInv, ChangesOK

LEMMA RealizedTyped ==
  ASSUME NEW c, OfDeclaredResource(c)
  PROVE  OfDeclaredResource(Realized(c))
BY DEF OfDeclaredResource, ChangeShape, Realized, IsUpsert, IsDeferred

LEMMA ChildWriteTyped ==
  ASSUME NEW c, OfDeclaredResource(c), IsDeferred(c), NEW action, NEW field, NEW it
  PROVE  OfDeclaredResource(ChildWrite(c, action, field, it))
BY DEF OfDeclaredResource, ChangeShape, ChildWrite, Change

LEMMA ExpansionTyped ==
  ASSUME NEW c, OfDeclaredResource(c), IsDeferred(c), NEW w \in Expansion(c)
  PROVE  OfDeclaredResource(w)
<1>1. \E action, field, it : w = ChildWrite(c, action, field, it)
  BY Zenon DEF Expansion, ExpandedCreates, ExpandedUpdates, ExpandedDeletes
<1> QED
  BY <1>1, ChildWriteTyped

LEMMA AdvanceTyped ==
  ASSUME TypeInv, OrderInv, OrderInv', ExternalOK', at <= Len(plan), Advance,
         UNCHANGED <<set, changes, plan, mode, outcome, calm>>
  PROVE  TypeInv'
<1>1. /\ pc' = "realizing" /\ at' = at + 1 /\ writes' = {}
      /\ created' = created \cup Creations({Current})
  BY DEF Advance
<1>2. Creations({Current}) \subseteq Resources
  BY CurrentIsAChange, DeclaredAreResources
     DEF Creations, OfDeclaredResource, IsCreation, IsUpsert
<1>3. at' \in 1..(Len(plan') + 1)
  BY <1>1, CurrentIsAChange
<1>4. Range(plan') \subseteq changes'
  BY DEF OrderInv, Range
<1>5. TypeOK'
  BY <1>1, <1>2, <1>3, <1>4 DEF TypeInv, TypeOK, ExternalOK, Phases
<1>6. ChangesOK'
  BY <1>1 DEF TypeInv, ChangesOK, OfDeclaredResource
<1> QED
  BY <1>1, <1>5, <1>6 DEF TypeInv, AtOK

-------------------------------------------------------------------------------
(***************************************************************************)
(* Every step of the command.                                              *)
(***************************************************************************)
LEMMA PlanningTyped ==
  ASSUME TypeInv, OrderInv, OrderInv',
         \/ \E m \in {"dry", "apply"} : Load(m)
         \/ CheckGit \/ ReadNext \/ Compared \/ Order \/ OrderStuck \/ Ordered
         \/ Place \/ PlaceRefused \/ Placed \/ Show
  PROVE  TypeInv'
<1>1. ExternalOK'
  <2>1. ExternalOK
    BY DEF TypeInv, TypeOK, ExternalOK
  <2>2. UNCHANGED <<provider, declared, committed>>
    BY DEF Load, CheckGit, ReadNext, Compared, Order, OrderStuck, Ordered, Place,
           PlaceRefused, Placed, Show, disk
  <2> QED
    BY <2>1, <2>2 DEF ExternalOK, provider
<1>2. CASE \E how \in Outcomes : Return(how)
  BY <1>1, <1>2, ReturnTyped
<1>3. CASE \E m \in {"dry", "apply"} : Load(m)
  <2> PICK m \in {"dry", "apply"} : Load(m)
    BY <1>3
  <2>1. /\ pc = "idle" /\ pc' = "loaded" /\ mode' = m /\ outcome' = "none" /\ calm' = TRUE
        /\ set' = declared /\ UNCHANGED <<changes, plan, at, writes, created>>
    BY DEF Load, planning, execution
  <2>2. changes = {} /\ at = 1 /\ writes = {}
    BY <2>1 DEF TypeInv, ChangesOK, AtOK, TypeOK
  <2>3. TypeOK'
    BY <1>1, <2>1, <2>2 DEF TypeInv, TypeOK, ExternalOK, Phases, Outcomes
  <2> QED
    BY <2>1, <2>2, <2>3 DEF TypeInv, ChangesOK, AtOK
<1>4. CASE ~\E how \in Outcomes : Return(how)
  <2>1. \A c \in changes : OfDeclaredResource(c)
    BY DEF TypeInv, ChangesOK
  <2>2. outcome \in Outcomes /\ calm \in BOOLEAN /\ pc \in Phases /\ set \in Sets \cup {NoSet}
    BY DEF TypeInv, TypeOK
  <2>3. CASE CheckGit
    BY <1>1, <1>4, <2>1, <2>2, <2>3, ExecutionKept
       DEF CheckGit, TypeInv, AtOK, Phases, Outcomes, planning, memory
  <2>4. CASE ReadNext
    BY <1>1, <2>1, <2>2, <2>4, ExecutionKept DEF ReadNext, Phases, planning
  <2>5. CASE Compared
    <3>1. changes' = ChangesFor(Differences) /\ pc' = "ordering" /\ calm' \in BOOLEAN
      BY <1>4, <2>2, <2>5 DEF Compared, Outcomes
    <3>2. \A c \in changes' : OfDeclaredResource(c)
      BY <2>2, <3>1, ChangesAreOfDeclared
    <3> QED
      BY <1>1, <1>4, <2>2, <2>5, <3>1, <3>2, ExecutionKept
         DEF Compared, TypeInv, AtOK, Phases, Outcomes, memory
  <2>6. CASE Order \/ Place \/ Placed \/ Ordered
    <3>1. /\ changes' = changes
          /\ pc \in {"ordering", "placing"} /\ pc' \in {"ordering", "placing", "planned"}
          /\ UNCHANGED <<set, execution, mode, outcome, calm>>
      BY <2>6 DEF Order, TakeEarliest, Place, PlaceDelete, Placed, PutInPlace, Ordered,
                  planning, memory
    <3>2. at = 1
      BY <3>1 DEF TypeInv, AtOK
    <3> QED
      BY <1>1, <2>1, <2>2, <3>1, <3>2, ExecutionKept DEF Phases
  <2>7. CASE OrderStuck \/ PlaceRefused \/ Show
    BY <1>4, <2>7 DEF OrderStuck, PlaceRefused, Show, Outcomes
  <2> QED
    BY <1>3, <2>3, <2>4, <2>5, <2>6, <2>7
<1> QED
  BY <1>2, <1>4

\* Between the changes of a plan nothing but pc and the writes may change.
LEMMA StartedTyped ==
  ASSUME TypeInv, OrderInv, OrderInv', ExternalOK', pc' \in {"realizing", "writing"},
         UNCHANGED <<set, changes, plan, at, created, mode, outcome, calm>>,
         \A w \in writes' : OfDeclaredResource(w),
         writes' # {} <=> pc' = "writing",
         pc' = "writing" => at <= Len(plan)
  PROVE  TypeInv'
<1>1. TypeOK'
  BY DEF TypeInv, TypeOK, ExternalOK, OrderInv, Range, Phases
<1>2. ChangesOK'
  BY DEF TypeInv, ChangesOK, OfDeclaredResource
<1> QED
  BY <1>1, <1>2 DEF TypeInv, AtOK

LEMMA ExecuteTyped ==
  ASSUME TypeInv, OrderInv, OrderInv',
         Accept \/ RealizeNext \/ RealizeFails \/ Write \/ WriteStops \/ CompareAgain \/ Report
  PROVE  TypeInv'
<1>1. ExternalOK
  BY DEF TypeInv, TypeOK, ExternalOK
<1>2. CASE Write
  <2>1. PICK w \in NextWrites :
          /\ Effect(w)
          /\ IF writes = {w} THEN Advance
             ELSE writes' = writes \ {w} /\ UNCHANGED <<pc, at, created, given>>
    BY <1>2 DEF Write
  <2>2. /\ UNCHANGED <<set, changes, plan, declared, mode, outcome, calm>>
        /\ pc = "writing" /\ at <= Len(plan) /\ w \in writes
    BY <1>2, <2>1 DEF Write, TypeInv, AtOK, planning, NextWrites
  <2>3. ExternalOK'
    BY <2>1, <2>2, EffectTyped
  <2>4. CASE writes = {w}
    BY <2>1, <2>2, <2>3, <2>4, AdvanceTyped
  <2>5. CASE writes # {w}
    BY <2>1, <2>2, <2>3, <2>5, StartedTyped DEF TypeInv, ChangesOK
  <2> QED
    BY <2>4, <2>5
<1>3. CASE WriteStops
  <2>1. Return("stopped") /\ declared' = declared
    BY <1>3 DEF WriteStops
  <2>2. ExternalOK'
    <3>1. PICK w \in NextWrites :
            UNCHANGED <<provider, claims, committed>> \/ Effect(w)
      BY <1>3 DEF WriteStops
    <3>2. CASE UNCHANGED <<provider, claims, committed>>
      BY <1>1, <2>1, <3>2 DEF ExternalOK, provider
    <3>3. CASE Effect(w)
      BY <2>1, <3>1, <3>3, EffectTyped DEF NextWrites
    <3> QED
      BY <3>1, <3>2, <3>3
  <2> QED
    BY <2>1, <2>2, ReturnTyped DEF Outcomes
<1>4. CASE Accept \/ RealizeNext \/ RealizeFails \/ CompareAgain \/ Report
  <2>1. ExternalOK'
    BY <1>1, <1>4 DEF Accept, RealizeNext, RealizeFails, CompareAgain, Report,
                      ExternalOK, provider, disk
  <2>2. CASE \E how \in Outcomes : Return(how)
    BY <2>1, <2>2, ReturnTyped
  <2>3. CASE Accept /\ ~\E how \in Outcomes : Return(how)
    <3>1. /\ pc = "planned" /\ pc' = "realizing"
          /\ UNCHANGED <<set, changes, plan, at, writes, created, mode, outcome, calm>>
      BY <2>3 DEF Accept, Outcomes, memory, planning, execution
    <3> QED
      BY <2>1, <3>1, StartedTyped DEF TypeInv, TypeOK
  <2>4. CASE RealizeNext /\ ~\E how \in Outcomes : Return(how)
    <3> DEFINE ready == IF IsDeferred(Current) THEN Expansion(Current) ELSE {Realized(Current)}
    <3>1. /\ pc = "realizing" /\ at <= Len(plan)
          /\ IF ready = {} THEN Advance
             ELSE pc' = "writing" /\ writes' = ready /\ UNCHANGED <<at, created, given>>
          /\ UNCHANGED <<set, changes, plan, mode, outcome, calm>>
      BY <2>4 DEF RealizeNext, Outcomes, planning
    <3>2. \A w \in ready : OfDeclaredResource(w)
      BY <3>1, CurrentIsAChange, RealizedTyped, ExpansionTyped
    <3> HIDE DEF ready
    <3>3. CASE ready = {}
      BY <2>1, <3>1, <3>3, AdvanceTyped
    <3>4. CASE ready # {}
      BY <2>1, <3>1, <3>2, <3>4, StartedTyped
    <3> QED
      BY <3>3, <3>4
  <2>5. CASE CompareAgain
    <3>1. /\ pc = "realizing" /\ pc' = "reading" /\ mode' = "after"
          /\ UNCHANGED <<set, changes, plan, at, writes, created, outcome, calm>>
      BY <2>5 DEF CompareAgain, planning, execution
    <3>2. TypeOK'
      BY <2>1, <3>1 DEF TypeInv, TypeOK, ExternalOK, Phases
    <3> QED
      BY <3>1, <3>2 DEF TypeInv, ChangesOK, OfDeclaredResource, AtOK
  <2>6. RealizeFails \/ Report => \E how \in Outcomes : Return(how)
    BY DEF RealizeFails, Report, Outcomes
  <2> QED
    BY <1>4, <2>2, <2>3, <2>4, <2>5, <2>6
<1> QED
  BY <1>2, <1>3, <1>4

LEMMA ElsewhereTyped ==
  ASSUME TypeInv, Environment
  PROVE  TypeInv'
<1>1. /\ UNCHANGED <<set, changes, plan, at, writes, created, pc, mode, outcome>>
      /\ calm' \in BOOLEAN
  BY DEF Environment, Elsewhere, Assign, Drift, Edit, Commit, CreatorCreates,
         CreatorClaims, CreatorDeletes, CreatorUnclaims, memory, planning, execution,
         TypeInv, TypeOK
<1>2. ExternalOK'
  BY EnvironmentTyped
<1>3. TypeOK'
  BY <1>1, <1>2 DEF TypeInv, TypeOK, ExternalOK
<1> QED
  BY <1>1, <1>3 DEF TypeInv, ChangesOK, OfDeclaredResource, AtOK

LEMMA TypeInvAlways == Spec => [](TypeInv /\ OrderInv)
<1>1. Init => TypeInv
  <2> SUFFICES ASSUME Init PROVE TypeInv
    OBVIOUS
  <2>1. ExternalOK
    BY ProviderHoldsResources DEF Init, ExternalOK
  <2>2. TypeOK
    BY <2>1 DEF Init, TypeOK, ExternalOK, Phases, Outcomes, Range
  <2> QED
    BY <2>2 DEF Init, TypeInv, ChangesOK, AtOK
<1>2. TypeInv /\ OrderInv /\ OrderInv' /\ [Next]_vars => TypeInv'
  <2> SUFFICES ASSUME TypeInv, OrderInv, OrderInv', [Next]_vars PROVE TypeInv'
    OBVIOUS
  <2>1. CASE Command
    BY <2>1, PlanningTyped, ExecuteTyped DEF Command
  <2>2. CASE Environment
    BY <2>2, ElsewhereTyped
  <2>3. CASE UNCHANGED vars
    BY <2>3 DEF vars, TypeInv, TypeOK, ChangesOK, OfDeclaredResource, AtOK
  <2> QED
    BY <2>1, <2>2, <2>3 DEF Next
<1> QED
  BY <1>1, <1>2, PlansStayInOrder, PTL DEF Spec

\* Every variable keeps its shape: what is live and assigned stays among what can
\* be, and an execution never runs past the end of its plan.
THEOREM TypeCorrect == Spec => []TypeOK
<1>1. TypeInv /\ OrderInv => TypeOK
  BY DEF TypeInv
<1> QED
  BY <1>1, TypeInvAlways, PTL

\* What an apply is about to write is a change of a declared resource, a delete of
\* an undeclared one, or an unclaim: it never creates what nothing declares.
CreatesOnlyDeclared ==
  \A w \in writes : IsUpsert(w) => w.res \in Declared(set)

THEOREM AppliesCreateOnlyDeclared == Spec => []CreatesOnlyDeclared
<1>1. TypeInv /\ OrderInv => CreatesOnlyDeclared
  BY DEF TypeInv, ChangesOK, OfDeclaredResource, CreatesOnlyDeclared
<1> QED
  BY <1>1, TypeInvAlways, PTL

-------------------------------------------------------------------------------

(***************************************************************************)
(* A change that is not of one child carries no key and no item, so what a *)
(* change writes of a child is what orderByNeeds looks at.                 *)
(***************************************************************************)
NoChild(c) == c.col = "" \/ IsDeferred(c) => c.key = NoKey /\ c.item = NoKey

Executing == pc \in {"realizing", "writing"}

ExecuteInv ==
  /\ \A c \in changes : NoChild(c)
  /\ Executing => created = Creations({plan[j] : j \in 1..(at - 1)})
  /\ ~Executing /\ ~(pc = "reading" /\ mode = "after") => created = {}

-------------------------------------------------------------------------------
KeyedByCollection(d) == d.col = "" => d.key = NoKey

LEMMA ChildDifferencesAreKeyed ==
  ASSUME NEW r, NEW col, col # "", NEW e
  PROVE  /\ \A status : KeyedByCollection(MissingChild(r, col, e, status))
         /\ KeyedByCollection(UnexpectedChild(r, col, e))
         /\ \A d \in ChildFieldDifferences(r, col, e) : KeyedByCollection(d)
<1>1. \A status, k, field, was, is, source :
         KeyedByCollection(Difference(status, r, col, k, field, was, is, source))
  BY DEF KeyedByCollection, Difference
<1>2. \A status : KeyedByCollection(MissingChild(r, col, e, status))
  BY <1>1, Zenon DEF MissingChild
<1>3. KeyedByCollection(UnexpectedChild(r, col, e))
  BY <1>1, Zenon DEF UnexpectedChild
<1>4. ASSUME NEW d \in ChildFieldDifferences(r, col, e) PROVE KeyedByCollection(d)
  <2>1. PICK fs :
          d = Difference(fs.status, r, col, ItemKey(col, e.item), fs.field,
                        Only(e.item, fs.field),
                        Only(CHOOSE li \in LiveAt(r, col, e.item) : TRUE, fs.field), e.source)
    BY ZenonT(60) DEF ChildFieldDifferences
  <2> QED
    BY <1>1, <2>1, Zenon
<1> QED
  BY <1>2, <1>3, <1>4

LEMMA ResourceDifferencesAreKeyed ==
  ASSUME NEW r \in Resources, NEW d \in ResourceDifferences(r)
  PROVE  KeyedByCollection(d)
<1>1. \A col \in CollectionsOf(r) : col # ""
  BY CollectionsHaveNames, StagesAreNumbers DEF CollectionsOf
<1>2. \A status, col, field, was, is, source :
         KeyedByCollection(Difference(status, r, col, NoKey, field, was, is, source))
  BY DEF KeyedByCollection, Difference
<1>3. ASSUME NEW e \in SlotDifferences(r) PROVE KeyedByCollection(e)
  BY <1>2, Zenon DEF SlotDifferences
<1>4. ASSUME NEW e \in ResourceFieldDifferences(r) PROVE KeyedByCollection(e)
  BY <1>2, Zenon DEF ResourceFieldDifferences
<1>5. ASSUME NEW e \in MissingDifferences(r) PROVE KeyedByCollection(e)
  <2> DEFINE expected == ExpectedFields(r)
             status == IF HasUnresolved(expected) THEN "unresolved" ELSE "missing"
             children == UNION {{col} \X ExpectedChildren(r, col) : col \in CollectionsOf(r)}
  <2>1. CASE e = Difference(status, r, "", NoKey, "", expected, NoKey, r)
    BY <1>2, <2>1
  <2>2. CASE \E p \in children : e = MissingChild(r, p[1], p[2], status)
    <3>1. PICK p \in children : e = MissingChild(r, p[1], p[2], status)
      BY <2>2
    <3>2. p[1] \in CollectionsOf(r)
      OBVIOUS
    <3> QED
      BY <1>1, <3>1, <3>2, ChildDifferencesAreKeyed
  <2> QED
    BY Zenon, <2>1, <2>2 DEF MissingDifferences
<1>6. ASSUME NEW col \in CollectionsOf(r), NEW e \in CollectionDifferences(r, col)
      PROVE  KeyedByCollection(e)
  <2>1. CASE \E x : e \in ChildFieldDifferences(r, col, x)
    BY <1>1, <2>1, ChildDifferencesAreKeyed
  <2>2. CASE \E x : e = MissingChild(r, col, x, "missing")
    BY <1>1, <2>2, ChildDifferencesAreKeyed
  <2>3. CASE \E li : e = UnexpectedChild(r, col, li)
    BY <1>1, <2>3, ChildDifferencesAreKeyed
  <2> QED
    BY Zenon, <2>1, <2>2, <2>3 DEF CollectionDifferences
<1> QED
  BY Zenon, <1>3, <1>4, <1>5, <1>6 DEF ResourceDifferences

LEMMA ChangesCarryOneChild ==
  ASSUME set \in Sets \cup {NoSet}, NEW c \in ChangesFor(Differences)
  PROVE  NoChild(c)
<1>1. Declared(set) \subseteq Resources
  BY SetsAreLoaded DEF Declared, NoSet, NoKey
<1>2. ASSUME NEW s,
             c = [OfDeclared(Change("create", s.target, s.col, NoKey, ""))
                    EXCEPT !.slot = s, !.after = After(s),
                           !.covered = {li \in LiveChildren(s.target, s.col) : MatchesAll(li, s.match)}]
      PROVE  NoChild(c)
  BY <1>2 DEF NoChild, OfDeclared, Change
<1>3. ASSUME NEW d \in Differences, d.status \in {"missing", "changed", "unexpected"},
             c = ChangeFor(d)
      PROVE  NoChild(c)
  <2>1. PICK r \in Declared(set) : d \in ResourceDifferences(r)
    BY <1>3, ClaimDifferencesChangeNothing DEF Differences
  <2>2. KeyedByCollection(d)
    BY <1>1, <2>1, ResourceDifferencesAreKeyed
  <2>3. /\ c.col = d.col /\ c.key = d.key /\ c.slot = NoSlot
        /\ d.col = "" => c.item = NoKey
    BY <1>3 DEF ChangeFor, OfDeclared, Change
  <2> QED
    BY <2>2, <2>3 DEF NoChild, KeyedByCollection, IsDeferred
<1>4. ASSUME NEW r, c = UnclaimedDelete(r)
      PROVE  NoChild(c)
  BY <1>4 DEF NoChild, UnclaimedDelete, Change
<1>5. ASSUME NEW cl, c = [Change("unclaim", cl.res, "", NoKey, "") EXCEPT !.claim = {cl}]
      PROVE  NoChild(c)
  BY <1>5 DEF NoChild, Change
<1> QED
  BY <1>2, <1>3, <1>4, <1>5 DEF ChangesFor, DeferredChanges

-------------------------------------------------------------------------------
\* The change at hand is made: its creation is noted.
LEMMA AdvanceNotesCreations ==
  ASSUME ExecuteInv, TypeInv, OrderInv, Executing, at <= Len(plan), Advance,
         UNCHANGED <<plan, changes>>
  PROVE  ExecuteInv'
<1>1. /\ at \in 1..Len(plan) /\ Len(plan) \in Nat
      /\ at' = at + 1 /\ created' = created \cup Creations({plan[at]})
  BY CurrentIsAChange DEF Advance, Current
<1>2. 1..(at' - 1) = 1..(at - 1) \cup {at}
  BY <1>1
<1>3. {plan[j] : j \in 1..(at' - 1)} = {plan[j] : j \in 1..(at - 1)} \cup {plan[at]}
  BY <1>2
<1>4. Creations({plan[j] : j \in 1..(at - 1)} \cup {plan[at]})
        = Creations({plan[j] : j \in 1..(at - 1)}) \cup Creations({plan[at]})
  BY DEF Creations
<1>5. created' = Creations({plan'[j] : j \in 1..(at' - 1)})
  BY <1>1, <1>3, <1>4 DEF ExecuteInv
<1> QED
  BY <1>5 DEF ExecuteInv, Executing, Advance, NoChild, Creations

LEMMA ExecutionKeepsItsPlace ==
  ASSUME ExecuteInv, UNCHANGED <<changes, plan, at, created>>, Executing' <=> Executing,
         Executing \/ (pc' = pc /\ mode' = mode)
  PROVE  ExecuteInv'
BY DEF ExecuteInv, NoChild, Creations, Executing

LEMMA NotExecutingYet ==
  ASSUME ExecuteInv, ~Executing, ~Executing', ~(pc = "reading" /\ mode = "after"),
         created' = created, \A c \in changes' : NoChild(c)
  PROVE  ExecuteInv'
BY DEF ExecuteInv, NoChild

LEMMA NothingExecuted ==
  ASSUME changes' = {}, created' = {}, pc' = "idle"
  PROVE  ExecuteInv'
BY DEF ExecuteInv, Executing

LEMMA EveryStepNotesCreations ==
  ASSUME ExecuteInv, TypeInv, OrderInv, [Next]_vars
  PROVE  ExecuteInv'
<1>1. CASE \E how : Return(how)
  BY <1>1, NothingExecuted DEF Return
<1>2. CASE ~\E how : Return(how)
  <2>0. \A c \in changes : NoChild(c)
    BY DEF ExecuteInv
  <2>1. CASE \E m \in {"dry", "apply"} : Load(m)
    BY <2>0, <2>1, NotExecutingYet DEF Load, planning, execution, Executing
  <2>2. CASE CheckGit
    BY <1>2, <2>0, <2>2, NotExecutingYet DEF CheckGit, planning, execution, Executing
  <2>3. CASE Compared
    <3>1. set \in Sets \cup {NoSet} /\ changes' = ChangesFor(Differences)
      BY <1>2, <2>3 DEF Compared, TypeInv, TypeOK
    <3>2. \A c \in changes' : NoChild(c)
      BY <3>1, ChangesCarryOneChild
    <3> QED
      BY <1>2, <2>3, <3>2, NotExecutingYet DEF Compared, execution, Executing
  <2>4. CASE Order \/ Ordered \/ Place \/ Placed
    BY <2>0, <2>4, NotExecutingYet
       DEF Order, TakeEarliest, Ordered, Place, PlaceDelete, Placed, PutInPlace,
           planning, execution, Executing
  <2>5. CASE Accept
    <3>1. /\ pc = "planned" /\ pc' = "realizing" /\ UNCHANGED <<changes, plan, at, created>>
      BY <1>2, <2>5 DEF Accept, planning, execution
    <3>2. at = 1 /\ created = {}
      BY <3>1 DEF TypeInv, AtOK, ExecuteInv, Executing
    <3>3. {plan'[j] : j \in 1..(at' - 1)} = {}
      BY <3>1, <3>2
    <3>4. Creations({}) = {}
      BY DEF Creations
    <3>5. created' = Creations({plan'[j] : j \in 1..(at' - 1)})
      BY <3>1, <3>2, <3>3, <3>4
    <3> QED
      BY <2>0, <3>1, <3>5 DEF ExecuteInv, Executing, Creations
  <2>6. CASE RealizeNext
    <3>1. /\ pc = "realizing" /\ at <= Len(plan) /\ UNCHANGED <<changes, plan>>
          /\ Advance \/ (pc' = "writing" /\ UNCHANGED <<at, created>>)
      BY <1>2, <2>6 DEF RealizeNext, planning
    <3> QED
      BY <3>1, AdvanceNotesCreations, ExecutionKeepsItsPlace DEF Executing
  <2>7. CASE Write
    <3>1. /\ pc = "writing" /\ UNCHANGED <<changes, plan>>
          /\ Advance \/ UNCHANGED <<pc, at, created>>
      BY <2>7 DEF Write, planning
    <3>2. at <= Len(plan)
      BY <3>1 DEF TypeInv, AtOK
    <3> QED
      BY <3>1, <3>2, AdvanceNotesCreations, ExecutionKeepsItsPlace DEF Executing
  <2>8. CASE CompareAgain
    BY <2>0, <2>8 DEF CompareAgain, planning, ExecuteInv, Executing, NoChild
  <2>9. CASE ReadNext \/ Environment \/ UNCHANGED vars
    <3>1. UNCHANGED <<changes, plan, at, created, pc, mode>>
      BY <2>9 DEF ReadNext, Environment, Elsewhere, Assign, Drift, Edit, Commit, CreatorCreates,
                  CreatorClaims, CreatorDeletes, CreatorUnclaims, vars, planning, execution
    <3> QED
      BY <3>1, ExecutionKeepsItsPlace DEF Executing
  <2>10. CASE OrderStuck \/ PlaceRefused \/ Show \/ RealizeFails \/ WriteStops \/ Report
    BY <1>2, <2>10 DEF OrderStuck, PlaceRefused, Show, RealizeFails, WriteStops, Report
  <2> QED
    BY <2>1, <2>2, <2>3, <2>4, <2>5, <2>6, <2>7, <2>8, <2>9, <2>10 DEF Next, Command
<1> QED
  BY <1>1, <1>2

\* A value a child's key or fields hold is among those its change waits on.
LEMMA OrderSuffices ==
  ASSUME ExecuteInv, TypeInv, OrderInv, pc = "realizing", at <= Len(plan)
  PROVE  ~WritesTooEarly(Current)
<1>1. at \in DOMAIN plan /\ Current = plan[at] /\ Current \in changes
  BY CurrentIsAChange DEF Current, OrderInv
<1>2. SUFFICES ASSUME NEW v \in Range(Current.key) \cup Range(Current.item), ~HasRun(v)
               PROVE  FALSE
  BY DEF WritesTooEarly
<1>3. v.kind = "pending" /\ ~(v.after \subseteq created)
  BY <1>2 DEF HasRun
<1>4. Range(NoKey) = {}
  BY DEF NoKey, Range
<1>5. Current.col # "" /\ ~IsDeferred(Current)
  BY <1>1, <1>2, <1>4 DEF ExecuteInv, NoChild
<1>6. v.after \subseteq AllNeeds(Current)
  BY <1>2, <1>3, <1>5 DEF AllNeeds, Needs, WrittenBy, WaitsOn, PendingsIn
<1>7. AllNeeds(Current) \subseteq created
  BY <1>1 DEF OrderInv, NeedsMet, ExecuteInv, Executing
<1> QED
  BY <1>3, <1>6, <1>7

LEMMA ExecuteInvAlways == Spec => []ExecuteInv
<1>1. Init => ExecuteInv
  BY DEF Init, ExecuteInv, Executing
<1>2. ExecuteInv /\ TypeInv /\ OrderInv /\ [Next]_vars => ExecuteInv'
  BY EveryStepNotesCreations
<1> QED
  BY <1>1, <1>2, TypeInvAlways, PTL DEF Spec

\* Whatever the tool, the declarations and the live state, an execution comes to
\* no child whose values wait on a creation it has not run: the message "a bug in
\* the plan's order" never has that cause.
THEOREM ValuesAreWrittenInTime == Spec => []WritesInTime
<1>1. ExecuteInv /\ TypeInv /\ OrderInv => WritesInTime
  BY OrderSuffices DEF WritesInTime
<1> QED
  BY <1>1, ExecuteInvAlways, TypeInvAlways, PTL

-------------------------------------------------------------------------------
(***************************************************************************)
(* What is written is data, and a field that is updated is carried: what   *)
(* the provider holds, what is remembered of it, what each change carries, *)
(* and what the writes made of a change hold.                              *)
(***************************************************************************)
Settled(fields)  == \A f \in DOMAIN fields : fields[f].kind \in {"literal", "pending"}
HoldsData(r, is) == IsData(r, is) /\ DOMAIN is.fields \subseteq KnownFields(r)

ProviderInv ==
  /\ \A r \in DOMAIN live : HoldsData(r, live[r])
  /\ AllLiteral(exposed)

MemoryInv ==
  /\ \A r \in DOMAIN reads : IsLive(r) => HoldsData(r, reads[r].is)
  /\ \A x \in DOMAIN values : values[x].found = "live" => values[x].is.kind = "literal"

\* A top-level field that is updated is carried, unless nothing declares it.
UpdatesWhatItCarries(c) ==
  c.col = "" /\ c.field # "" =>
    /\ IsUpsert(c) /\ c.field \in Fields[TypeOf[c.res]] \cap KnownFields(c.res)
    /\ c.field \in DOMAIN c.fields \/ c.field \notin GivenBy(set, c.res)

CarriesValues(c) ==
  IsUpsert(c) =>
    /\ Settled(c.fields) /\ Settled(c.item)
    /\ PendingsIn(Range(c.fields)) \subseteq c.holds
    /\ DOMAIN c.fields \subseteq KnownFields(c.res)

Carries(c) ==
  IF IsDeferred(c) THEN c.col # "" /\ c.slot \in set.slots /\ ~IsFieldSlot(c.slot)
  ELSE CarriesValues(c) /\ UpdatesWhatItCarries(c)

WritesData(w) ==
  IsUpsert(w) => /\ AllLiteral(w.fields) /\ AllLiteral(w.item)
                 /\ DOMAIN w.fields \subseteq KnownFields(w.res)

DataInv ==
  /\ ProviderInv /\ MemoryInv
  /\ IF pc = "idle" THEN changes = {} ELSE set \in Sets
  /\ \A c \in changes : Carries(c)
  /\ \A w \in writes : WritesData(w)

(***************************************************************************)
(* The provider.                                                           *)
(***************************************************************************)
LEMMA ProviderLoses ==
  ASSUME ProviderInv, NEW R, live' = Without(live, R), exposed' = ExposedWithout(R)
  PROVE  ProviderInv'
<1>1. \A r \in DOMAIN live' : r \in DOMAIN live /\ live'[r] = live[r]
  BY DEF Without, Restrict
<1>2. \A x \in DOMAIN exposed' : x \in DOMAIN exposed /\ exposed'[x] = exposed[x]
  BY DEF ExposedWithout, Restrict
<1> QED
  BY <1>1, <1>2 DEF ProviderInv, AllLiteral

LEMMA ResourceChanged ==
  ASSUME ProviderInv, exposed' = exposed, NEW r, NEW is, live' = [live EXCEPT ![r] = is],
         r \in DOMAIN live => HoldsData(r, is)
  PROVE  ProviderInv'
<1>1. \A q \in DOMAIN live' : q \in DOMAIN live /\ (live'[q] = live[q] \/ (q = r /\ live'[q] = is))
  OBVIOUS
<1> QED
  BY <1>1 DEF ProviderInv

LEMMA ResourceAdded ==
  ASSUME ProviderInv, exposed' = exposed, NEW r, NEW is, live' = With(live, r, is),
         HoldsData(r, is)
  PROVE  ProviderInv'
<1>1. \A q \in DOMAIN live' : (q \in DOMAIN live /\ live'[q] = live[q]) \/ (q = r /\ live'[q] = is)
  BY DEF With
<1> QED
  BY <1>1 DEF ProviderInv

LEMMA ChildrenChanged ==
  ASSUME NEW r, NEW is, HoldsData(r, is), NEW col, NEW k, NEW new, \A it \in new : AllLiteral(it)
  PROVE  HoldsData(r, [is EXCEPT !.children = WithChild(is.children, col, k, new)])
<1> DEFINE children == WithChild(is.children, col, k, new)
           now == [is EXCEPT !.children = children]
<1>1. DOMAIN is = {"fields", "children"} /\ DOMAIN is.children = CollectionsOf(r)
  BY DEF HoldsData, IsData
<1>2. DOMAIN children = CollectionsOf(r)
  BY <1>1 DEF WithChild
<1>3. ASSUME NEW c \in CollectionsOf(r), NEW li \in children[c]
      PROVE  AllLiteral(li)
  <2>1. li \in is.children[c] \/ li \in new
    BY <1>1 DEF WithChild
  <2> QED
    BY <2>1 DEF HoldsData, IsData
<1> HIDE DEF children
<1>4. DOMAIN now = {"fields", "children"} /\ now.fields = is.fields /\ now.children = children
  BY <1>1
<1>5. IsData(r, now)
  <2> HIDE DEF now
  <2> QED
    BY <1>2, <1>3, <1>4 DEF HoldsData, IsData
<1> QED
  BY <1>4, <1>5 DEF HoldsData, children

\* Of the children of one resource, those at a key become others.
ChildrenBecome(r, col, k, new) ==
  /\ live' = [live EXCEPT ![r] =
                [live[r] EXCEPT !.children = WithChild(live[r].children, col, k, new)]]
  /\ exposed' = exposed

LEMMA ChildrenBecomeData ==
  ASSUME ProviderInv, NEW r, NEW col, NEW k, NEW new, ChildrenBecome(r, col, k, new),
         r \in DOMAIN live => \A it \in new : AllLiteral(it)
  PROVE  ProviderInv'
<1> DEFINE is == [live[r] EXCEPT !.children = WithChild(live[r].children, col, k, new)]
<1>1. r \in DOMAIN live => HoldsData(r, is)
  BY ChildrenChanged DEF ProviderInv
<1>2. live' = [live EXCEPT ![r] = is] /\ exposed' = exposed
  BY DEF ChildrenBecome
<1> HIDE DEF is
<1> QED
  BY <1>1, <1>2, ResourceChanged

LEMMA FieldsChanged ==
  ASSUME NEW r, NEW is, HoldsData(r, is), NEW fields, AllLiteral(fields),
         DOMAIN fields \subseteq KnownFields(r)
  PROVE  HoldsData(r, [is EXCEPT !.fields = fields])
<1> DEFINE now == [is EXCEPT !.fields = fields]
<1>1. DOMAIN now = {"fields", "children"} /\ now.fields = fields /\ now.children = is.children
  BY DEF HoldsData, IsData
<1> HIDE DEF now
<1>2. IsData(r, now)
  BY <1>1 DEF HoldsData, IsData
<1> QED
  BY <1>1, <1>2 DEF HoldsData, now

LEMMA NewResourceHoldsData ==
  ASSUME NEW r, NEW fields, AllLiteral(fields), DOMAIN fields \subseteq KnownFields(r)
  PROVE  HoldsData(r, [fields |-> fields, children |-> Childless(r)])
BY DEF HoldsData, IsData, Childless

\* What a write leaves is data.
LEMMA EffectHoldsData ==
  ASSUME ProviderInv, NEW w, WritesData(w), Effect(w)
  PROVE  ProviderInv'
<1>1. CASE IsCreation(w) /\ exposed' = exposed
           /\ live' = With(live, w.res, [fields |-> w.fields, children |-> Childless(w.res)])
  BY <1>1, NewResourceHoldsData, ResourceAdded DEF WritesData, IsCreation, IsUpsert
<1>2. CASE \E R : live' = Without(live, R) /\ exposed' = ExposedWithout(R)
  BY <1>2, ProviderLoses
<1>3. CASE UNCHANGED provider
  BY <1>3 DEF provider, ProviderInv
<1>4. CASE /\ w.action = "update" /\ w.col = "" /\ exposed' = exposed
           /\ live' = [live EXCEPT ![w.res] =
                [live[w.res] EXCEPT !.fields = Overridden(live[w.res].fields, Only(w.fields, w.field))]]
  <2> DEFINE was == live[w.res].fields
             fields == Overridden(was, Only(w.fields, w.field))
  <2>1. AllLiteral(w.fields) /\ DOMAIN w.fields \subseteq KnownFields(w.res)
    BY <1>4 DEF WritesData, IsUpsert
  <2>2. ASSUME w.res \in DOMAIN live
        PROVE  HoldsData(w.res, [live[w.res] EXCEPT !.fields = fields])
    <3>1. HoldsData(w.res, live[w.res])
      BY <2>2 DEF ProviderInv
    <3>2. AllLiteral(was) /\ DOMAIN was \subseteq KnownFields(w.res)
      BY <3>1 DEF HoldsData, IsData
    <3> HIDE DEF was
    <3>3. AllLiteral(fields) /\ DOMAIN fields \subseteq KnownFields(w.res)
      BY <2>1, <3>2 DEF AllLiteral, Overridden, Only, Restrict
    <3> HIDE DEF fields
    <3> QED
      BY <3>1, <3>3, FieldsChanged
  <2> HIDE DEF fields
  <2> QED
    BY <1>4, <2>2, ResourceChanged DEF fields
<1>5. CASE w.action = "delete" /\ w.col # "" /\ ChildrenBecome(w.res, w.col, w.key, {})
  <2> DEFINE none == {}
  <2>1. ChildrenBecome(w.res, w.col, w.key, none) /\ \A it \in none : AllLiteral(it)
    BY <1>5
  <2> HIDE DEF none
  <2> QED
    BY <2>1, ChildrenBecomeData
<1>6. CASE /\ w.action = "update" /\ w.col # "" /\ exposed' = exposed
           /\ live' = [live EXCEPT ![w.res] =
                [live[w.res] EXCEPT !.children = SetChildField(live[w.res].children, w)]]
  <2> DEFINE old == {li \in live[w.res].children[w.col] : ItemKey(w.col, li) = w.key}
             set1(li) == [f \in (DOMAIN li \ {w.field}) \cup (DOMAIN w.item \cap {w.field}) |->
                            IF f = w.field THEN w.item[f] ELSE li[f]]
             new == {set1(li) : li \in old}
  <2>1. ChildrenBecome(w.res, w.col, w.key, new)
    BY <1>6 DEF SetChildField, ChildrenBecome
  <2>2. CASE w.res \in DOMAIN live /\ w.col \in CollectionsOf(w.res)
    <3>1. \A li \in old : AllLiteral(li)
      BY <2>2 DEF ProviderInv, HoldsData, IsData
    <3>2. AllLiteral(w.item)
      BY <1>6 DEF WritesData, IsUpsert
    <3> HIDE DEF old
    <3>3. \A li \in old : AllLiteral(set1(li))
      BY <3>1, <3>2 DEF AllLiteral
    <3>4. \A it \in new : AllLiteral(it)
      BY <3>3, Zenon
    <3> HIDE DEF new
    <3> QED
      BY <2>1, <3>4, ChildrenBecomeData
  <2>3. CASE w.res \in DOMAIN live /\ w.col \notin CollectionsOf(w.res)
    <3>1. DOMAIN live[w.res].children = CollectionsOf(w.res)
      BY <2>3 DEF ProviderInv, HoldsData, IsData
    <3>2. WithChild(live[w.res].children, w.col, w.key, new)
            = WithChild(live[w.res].children, w.col, w.key, {})
      <4> HIDE DEF new
      <4> QED
        BY <2>3, <3>1 DEF WithChild
    <3> HIDE DEF new
    <3>3. ChildrenBecome(w.res, w.col, w.key, {})
      BY <2>1, <3>2 DEF ChildrenBecome
    <3> QED
      BY <3>3, ChildrenBecomeData
  <2>4. CASE w.res \notin DOMAIN live
    <3> HIDE DEF new
    <3> QED
      BY <2>1, <2>4, ChildrenBecomeData
  <2> QED
    BY <2>2, <2>3, <2>4
<1>7. CASE w.action = "create" /\ w.col # "" /\ ChildrenBecome(w.res, w.col, w.key, {w.item})
  BY <1>7, ChildrenBecomeData DEF WritesData, IsUpsert
<1> QED
  BY <1>1, <1>2, <1>3, <1>4, <1>5, <1>6, <1>7 DEF Effect, ChildrenBecome

LEMMA DriftsAreKnown ==
  ASSUME NEW d \in FieldDrifts
  PROVE  d.field \in KnownFields(d.res)
<1>1. d.field \in {e.field : e \in {g \in FieldDrifts : g.res = d.res}}
  OBVIOUS
<1> QED
  BY <1>1 DEF KnownFields

\* What comes of the provider by itself, and of creators, is data.
LEMMA EnvironmentHoldsData ==
  ASSUME ProviderInv, Environment
  PROVE  ProviderInv'
<1>1. CASE \E x, v : exposed' = With(exposed, x, Literal(v)) /\ live' = live
  BY <1>1 DEF ProviderInv, AllLiteral, With, Literal
<1>2. CASE \E R : live' = Without(live, R) /\ exposed' = ExposedWithout(R)
  BY <1>2, ProviderLoses
<1>3. CASE \E s \in Strays : ChildrenBecome(s.res, s.col, ItemKey(s.col, s.item), {s.item})
  BY <1>3, ChildrenBecomeData, ProviderHoldsData
<1>4. CASE \E d \in FieldDrifts :
             /\ d.res \in DOMAIN live /\ exposed' = exposed
             /\ live' = [live EXCEPT ![d.res] =
                  [live[d.res] EXCEPT !.fields = With(live[d.res].fields, d.field, Literal(d.value))]]
  <2> PICK d \in FieldDrifts :
             /\ d.res \in DOMAIN live /\ exposed' = exposed
             /\ live' = [live EXCEPT ![d.res] =
                  [live[d.res] EXCEPT !.fields = With(live[d.res].fields, d.field, Literal(d.value))]]
    BY <1>4
  <2> DEFINE was == live[d.res].fields
             fields == With(was, d.field, Literal(d.value))
  <2>1. HoldsData(d.res, live[d.res])
    BY DEF ProviderInv
  <2>2. d.field \in KnownFields(d.res)
    BY DriftsAreKnown
  <2>3. AllLiteral(was) /\ DOMAIN was \subseteq KnownFields(d.res)
    BY <2>1 DEF HoldsData, IsData
  <2>4. live' = [live EXCEPT ![d.res] = [live[d.res] EXCEPT !.fields = fields]]
    OBVIOUS
  <2> HIDE DEF was
  <2>5. AllLiteral(fields) /\ DOMAIN fields \subseteq KnownFields(d.res)
    BY <2>2, <2>3 DEF AllLiteral, With, Literal
  <2> HIDE DEF fields
  <2> QED
    BY <2>1, <2>4, <2>5, FieldsChanged, ResourceChanged
<1>5. CASE \E x, v : exposed' = [exposed EXCEPT ![x] = Literal(v)] /\ live' = live
  BY <1>5 DEF ProviderInv, AllLiteral, Literal
<1>6. CASE UNCHANGED provider
  BY <1>6 DEF provider, ProviderInv
<1>7. CASE Drift
  BY <1>2, <1>3, <1>4, <1>5, <1>7, Zenon DEF Drift, ChildrenBecome
<1>8. CASE \E k \in Creators : CreatorCreates(k)
  <2> PICK k \in Creators : CreatorCreates(k)
    BY <1>8
  <2>1. AllLiteral(NoKey) /\ DOMAIN NoKey \subseteq KnownFields(k.res)
    BY DEF AllLiteral, NoKey
  <2> QED
    BY <2>1, NewResourceHoldsData, ResourceAdded DEF CreatorCreates
<1>9. CASE \E k \in Creators : CreatorDeletes(k)
  BY <1>2, <1>9 DEF CreatorDeletes
<1>10. CASE \E x \in ExposedValues : Assign(x)
  BY <1>1, <1>10, Zenon DEF Assign
<1> QED
  BY <1>6, <1>7, <1>8, <1>9, <1>10 DEF Environment, Edit, Commit, CreatorClaims, CreatorUnclaims

(***************************************************************************)
(* What a comparison, once everything is read, expects.                    *)
(***************************************************************************)
EverythingRead == set \in Sets /\ MemoryInv /\ Outstanding = {}

Waits == {"reference", "reason"}
Values == {"literal", "pending"} \cup Waits

LEMMA ReadWhatIsAsked ==
  ASSUME EverythingRead
  PROVE  /\ \A r \in Declared(set) : r \in DOMAIN reads
         /\ \A s \in set.slots : s.reads \in ExposedValues => s.reads \in DOMAIN values
<1>1. \A q \in Requests : Answered(q.what, q.of)
  BY DEF EverythingRead, Outstanding
<1>2. ASSUME NEW r \in Declared(set)
      PROVE  r \in DOMAIN reads
  <2> DEFINE q == Request("resource", r, 1000 + 10 * NameOrder[r])
  <2>1. q \in {Request("resource", p, 1000 + 10 * NameOrder[p]) : p \in Declared(set)}
    OBVIOUS
  <2>2. q.what = "resource" /\ q.of = r
    BY DEF Request
  <2> HIDE DEF q
  <2>3. q \in Requests
    <3>1. q \in ComparisonRequests
      BY <2>1, Zenon DEF ComparisonRequests
    <3> QED
      BY <3>1, Zenon DEF Requests
  <2> QED
    BY <1>1, <2>2, <2>3 DEF Answered
<1>3. ASSUME NEW s \in set.slots, s.reads \in ExposedValues
      PROVE  s.reads \in DOMAIN values
  <2> DEFINE q == Request(SlotReadKind(s), s.reads, 10 * NameOrder[s.source])
  <2>1. q \in Requests
    BY Zenon DEF Requests, DerivationRequests
  <2>2. q.what = "value" /\ q.of = s.reads
    BY <1>3 DEF Request, SlotReadKind
  <2> QED
    BY <1>1, <2>1, <2>2 DEF Answered
<1> QED
  BY <1>2, <1>3

LEMMA ResolvedIsAValue ==
  ASSUME EverythingRead, NEW r \in Declared(set), Readable(r), NEW v \in DeclaredValues(set, r)
  PROVE  Resolve(v).kind \in Values
<1>1. v.kind \in {"literal", "reference"}
  BY SetsHoldValues DEF EverythingRead
<1>2. v.kind = "reference" => v.of \in DOMAIN values
  BY DEF Readable, RefersTo, ReferencesIn
<1> QED
  BY <1>1, <1>2 DEF Resolve, EverythingRead, MemoryInv, Values, Waits, Pending

LEMMA FieldSlotGivesAValue ==
  ASSUME EverythingRead, NEW s \in set.slots, IsFieldSlot(s)
  PROVE  FieldSlotValue(s).kind \in Values
<1>1. s.reads \in ExposedValues /\ s.reads \in DOMAIN values
  BY ReadWhatIsAsked, SetsHoldValues DEF EverythingRead
<1>2. Resolved(s) => SlotRead(s).is.kind = "literal"
  BY <1>1 DEF Resolved, SlotRead, EverythingRead, MemoryInv
<1> QED
  BY <1>2 DEF FieldSlotValue, Values, Waits, Pending, Reason

LEMMA ExpectedFieldsAreGiven ==
  ASSUME EverythingRead, NEW r \in Declared(set), Readable(r)
  PROVE  /\ \A f \in DOMAIN ExpectedFields(r) :
              ExpectedFields(r)[f].kind \in Values /\ f \in GivenBy(set, r)
         /\ \A f \in GivenBy(set, r) :
              f \in DOMAIN ExpectedFields(r) \/ \E s \in FieldSlots(r) : s.field = f /\ Skipped(s)
<1> DEFINE hand == set.resources[r].fields
           derived == {s \in FieldSlots(r) : ~Skipped(s)}
           fieldSlot(f) == CHOOSE s \in derived : s.field = f
<1>1. ExpectedFields(r) = [f \in DOMAIN hand \cup {s.field : s \in derived} |->
                             IF f \in DOMAIN hand THEN Resolve(hand[f]) ELSE FieldSlotValue(fieldSlot(f))]
  BY DEF ExpectedFields
<1>2. \A s \in derived : s \in FieldSlotsOf(set, r) /\ s \in set.slots /\ IsFieldSlot(s)
  BY DEF FieldSlots, SlotsOf, FieldSlotsOf
<1>3. ASSUME NEW f \in DOMAIN hand PROVE Resolve(hand[f]).kind \in Values
  <2>1. hand[f] \in DeclaredValues(set, r)
    BY DEF DeclaredValues, Range
  <2> QED
    BY <2>1, ResolvedIsAValue
<1>4. ASSUME NEW f \in {s.field : s \in derived} PROVE FieldSlotValue(fieldSlot(f)).kind \in Values
  <2>1. \E s \in derived : s.field = f
    BY <1>4
  <2> HIDE DEF derived
  <2>2. fieldSlot(f) \in derived
    BY <2>1
  <2> HIDE DEF fieldSlot
  <2> QED
    BY <1>2, <2>2, FieldSlotGivesAValue
<1>5. \A d \in FieldSlotsOf(set, r) : d \in derived \/ (d \in FieldSlots(r) /\ Skipped(d))
  BY DEF FieldSlots, SlotsOf, FieldSlotsOf
<1>6. \A f : f \in {s.field : s \in derived} => f \in GivenBy(set, r)
  BY <1>2 DEF GivenBy
<1> HIDE DEF derived, fieldSlot
<1>7. \A f \in DOMAIN ExpectedFields(r) : ExpectedFields(r)[f].kind \in Values /\ f \in GivenBy(set, r)
  BY <1>1, <1>3, <1>4, <1>6 DEF GivenBy
<1>8. \A f \in GivenBy(set, r) : f \in DOMAIN hand \/ \E d \in FieldSlotsOf(set, r) : d.field = f
  BY DEF GivenBy
<1> QED
  BY <1>1, <1>5, <1>7, <1>8

\* The children a change may carry: what is unresolved is as it is live, or not there.
LEMMA ResolvedChildrenAreSettled ==
  ASSUME EverythingRead, NEW r \in Declared(set), Readable(r), NEW col \in CollectionsOf(r),
         NEW it \in ResolvedChildren(r, col)
  PROVE  Settled(it)
<1>1. ASSUME NEW e \in ExpectedChildren(r, col), NEW f \in DOMAIN e.item
      PROVE  e.item[f].kind \in Values
  <2>1. CASE \E given_ \in set.resources[r].children[col] : e = [item |-> ResolveItem(given_), declared |-> given_, source |-> r]
    <3>1. PICK given_ \in set.resources[r].children[col] : e.item = ResolveItem(given_)
      BY <2>1
    <3>2. f \in DOMAIN given_ /\ e.item[f] = Resolve(given_[f])
      BY <3>1 DEF ResolveItem
    <3>3. given_[f] \in Range(given_)
      BY <3>2 DEF Range
    <3>4. given_[f] \in ValuesOf(set.resources[r].children[col])
      BY <3>3, Zenon DEF ValuesOf
    <3>5. given_[f] \in UNION {ValuesOf(set.resources[r].children[c]) : c \in CollectionsOf(r)}
      BY <3>4, Zenon
    <3>6. given_[f] \in DeclaredValues(set, r)
      BY <3>5, Zenon DEF DeclaredValues
    <3> QED
      BY <3>2, <3>6, ResolvedIsAValue
  <2>2. CASE \E s \in SlotsOn(r, col) : \E given_ \in s.gives : e = [item |-> given_, declared |-> given_, source |-> s.source]
    <3>1. PICK s \in SlotsOn(r, col) : \E given_ \in s.gives : e.item = given_
      BY <2>2
    <3>2. AllLiteral(e.item)
      BY <3>1, SetsHoldValues DEF SlotsOn, SlotsOf, EverythingRead
    <3> QED
      BY <3>2 DEF AllLiteral, Values
  <2> QED
    BY <2>1, <2>2, Zenon DEF ExpectedChildren
<1>2. ASSUME NEW li \in LiveChildren(r, col)
      PROVE  AllLiteral(li)
  BY ReadWhatIsAsked DEF LiveChildren, EverythingRead, MemoryInv, HoldsData, IsData
<1>3. PICK e \in ExpectedChildren(r, col) :
        it \in IF ~HasUnresolved(e.item) THEN {e.item}
               ELSE {ResolvedItem(e.item, li) : li \in LiveAt(r, col, e.item)}
  BY Zenon DEF ResolvedChildren
<1>4. CASE ~HasUnresolved(e.item)
  BY <1>1, <1>3, <1>4 DEF HasUnresolved, IsUnresolved, Settled, Values, Waits
<1>5. CASE HasUnresolved(e.item)
  <2>1. PICK li \in LiveAt(r, col, e.item) : it = ResolvedItem(e.item, li)
    BY <1>3, <1>5
  <2>2. AllLiteral(li)
    BY <1>2 DEF LiveAt
  <2>3. \A f \in DOMAIN it : /\ f \in DOMAIN e.item /\ (IsUnresolved(e.item[f]) => f \in DOMAIN li)
                             /\ it[f] = IF IsUnresolved(e.item[f]) THEN li[f] ELSE e.item[f]
    BY <2>1, Zenon DEF ResolvedItem
  <2> QED
    BY <1>1, <2>2, <2>3 DEF AllLiteral, IsUnresolved, Settled, Values, Waits
<1> QED
  BY <1>4, <1>5

(***************************************************************************)
(* The differences: where each is, and of a field why.                     *)
(***************************************************************************)
InACollection(r, d) == d.col \in CollectionsOf(r)

OfNoField(d) == d.col = "" /\ d.field = ""

OfAField(r, d) ==
  /\ d.col = "" /\ d.field \in Fields[TypeOf[r]] \cap KnownFields(r)
  /\ d.status \in {"unresolved", "changed"}
  /\ d.status = "changed" =>
       d.field \in DOMAIN ResolvedFields(r) \/ d.field \notin GivenBy(set, r)

IsAbout(d, status, col, field) == d.status = status /\ d.col = col /\ d.field = field

LEMMA DifferencesSayWhatTheyAreOf ==
  ASSUME NEW status, NEW r, NEW col, NEW key, NEW field, NEW was, NEW is, NEW source
  PROVE  IsAbout(Difference(status, r, col, key, field, was, is, source), status, col, field)
BY DEF IsAbout, Difference

LEMMA FieldsDifferForAReason ==
  ASSUME NEW compared, NEW was, NEW is, NEW fs \in FieldStatuses(compared, was, is)
  PROVE  /\ fs.field \in compared /\ fs.status \in {"unresolved", "changed"}
         /\ fs.status = "changed" => ~(fs.field \in DOMAIN was /\ IsUnresolved(was[fs.field]))
         /\ fs.field \in DOMAIN was \/ fs.field \in DOMAIN is
<1> DEFINE waits(f) == f \in DOMAIN was /\ IsUnresolved(was[f])
           differs(f) == \/ (f \in DOMAIN was) # (f \in DOMAIN is)
                         \/ f \in DOMAIN was /\ was[f] # is[f]
           status(f) == IF waits(f) THEN "unresolved" ELSE "changed"
<1>1. PICK f \in {g \in compared : waits(g) \/ differs(g)} :
        fs = [field |-> f, status |-> status(f)]
  BY Zenon DEF FieldStatuses
<1>2. fs.field = f /\ fs.status = status(f)
  BY <1>1
<1>3. f \in DOMAIN was \/ f \in DOMAIN is
  BY <1>1
<1> QED
  BY <1>1, <1>2, <1>3

LEMMA FieldDifferencesAreOfFields ==
  ASSUME EverythingRead, NEW r \in Declared(set), Readable(r), IsLive(r),
         NEW d \in ResourceFieldDifferences(r)
  PROVE  OfAField(r, d)
<1> DEFINE failed == {s.field : s \in {t \in FieldSlots(r) : Skipped(t)}}
           expected == ExpectedFields(r)
           compared == Fields[TypeOf[r]] \ failed
<1>1. PICK fs \in FieldStatuses(compared, expected, LiveFields(r)) :
        \E was, is, source : d = Difference(fs.status, r, "", NoKey, fs.field, was, is, source)
  BY Zenon DEF ResourceFieldDifferences
<1>2. d.col = "" /\ d.field = fs.field /\ d.status = fs.status
  <2>1. IsAbout(d, fs.status, "", fs.field)
    BY <1>1, DifferencesSayWhatTheyAreOf, Zenon
  <2> QED
    BY <2>1 DEF IsAbout
<1>3. DOMAIN LiveFields(r) \subseteq KnownFields(r)
  BY ReadWhatIsAsked DEF EverythingRead, MemoryInv, HoldsData, LiveFields
<1>4. set \in Sets
  BY DEF EverythingRead
<1>5. GivenBy(set, r) \subseteq KnownFields(r)
  BY <1>4, Zenon DEF KnownFields
<1>6. \A f \in DOMAIN expected : f \in GivenBy(set, r)
  BY ExpectedFieldsAreGiven
<1>7. \A f \in GivenBy(set, r) : f \in DOMAIN expected \/ f \in failed
  BY ExpectedFieldsAreGiven
<1>8. \A f \in DOMAIN expected : ~IsUnresolved(expected[f]) => f \in DOMAIN ResolvedFields(r)
  BY RestrictedDomain DEF ResolvedFields
<1> HIDE DEF expected, failed
<1>9. /\ fs.field \in compared /\ fs.status \in {"unresolved", "changed"}
      /\ fs.status = "changed" => ~(fs.field \in DOMAIN expected /\ IsUnresolved(expected[fs.field]))
      /\ fs.field \in DOMAIN expected \/ fs.field \in DOMAIN LiveFields(r)
  <2> HIDE DEF compared
  <2> QED
    BY <1>1, FieldsDifferForAReason
<1>10. fs.field \in Fields[TypeOf[r]] \cap KnownFields(r)
  BY <1>3, <1>5, <1>6, <1>9
<1>11. fs.field \notin failed
  BY <1>9
<1>12. fs.status = "changed" => fs.field \in DOMAIN ResolvedFields(r) \/ fs.field \notin GivenBy(set, r)
  BY <1>7, <1>8, <1>9, <1>11
<1> QED
  BY <1>2, <1>9, <1>10, <1>12 DEF OfAField

LEMMA DifferencesAreInTheirPlace ==
  ASSUME EverythingRead, NEW r \in Declared(set), NEW d \in ResourceDifferences(r)
  PROVE  Readable(r) /\ (InACollection(r, d) \/ OfNoField(d) \/ OfAField(r, d))
<1>1. Readable(r)
  BY DEF ResourceDifferences
<1>2. ASSUME d \in SlotDifferences(r) PROVE InACollection(r, d)
  <2>1. PICK s \in SlotsOf(set, r) :
          ~IsFieldSlot(s) /\ \E status, was, source : d = Difference(status, r, s.col, NoKey, "", was, NoKey, source)
    BY <1>2, Zenon DEF SlotDifferences
  <2>2. s.col \in CollectionsOf(r)
    BY <2>1, SetsAreLoaded DEF LoadChecked, SlotsOf, EverythingRead
  <2>3. \E status : IsAbout(d, status, s.col, "")
    BY <2>1, DifferencesSayWhatTheyAreOf, Zenon
  <2> QED
    BY <2>2, <2>3 DEF InACollection, IsAbout
<1>3. ASSUME NEW col \in CollectionsOf(r), NEW e
      PROVE  /\ \A status : InACollection(r, MissingChild(r, col, e, status))
             /\ InACollection(r, UnexpectedChild(r, col, e))
             /\ \A x \in ChildFieldDifferences(r, col, e) : InACollection(r, x)
  <2>1. \A status, key, field, was, is, source :
           InACollection(r, Difference(status, r, col, key, field, was, is, source))
    BY DifferencesSayWhatTheyAreOf DEF InACollection, IsAbout
  <2>2. \A status : InACollection(r, MissingChild(r, col, e, status))
    BY <2>1, Zenon DEF MissingChild
  <2>3. InACollection(r, UnexpectedChild(r, col, e))
    BY <2>1, Zenon DEF UnexpectedChild
  <2>4. ASSUME NEW x \in ChildFieldDifferences(r, col, e) PROVE InACollection(r, x)
    <3>1. \E status, key, field, was, is, source :
             x = Difference(status, r, col, key, field, was, is, source)
      BY ZenonT(60) DEF ChildFieldDifferences
    <3> QED
      BY <2>1, <3>1
  <2> QED
    BY <2>2, <2>3, <2>4
<1>4. ASSUME d \in MissingDifferences(r) PROVE InACollection(r, d) \/ OfNoField(d)
  <2> DEFINE expected == ExpectedFields(r)
             status == IF HasUnresolved(expected) THEN "unresolved" ELSE "missing"
             children == UNION {{col} \X ExpectedChildren(r, col) : col \in CollectionsOf(r)}
  <2>1. CASE d = Difference(status, r, "", NoKey, "", expected, NoKey, r)
    <3>1. IsAbout(d, status, "", "")
      BY <2>1, DifferencesSayWhatTheyAreOf, Zenon
    <3> QED
      BY <3>1 DEF OfNoField, IsAbout
  <2>2. CASE \E p \in children : d = MissingChild(r, p[1], p[2], status)
    <3>1. PICK p \in children : d = MissingChild(r, p[1], p[2], status)
      BY <2>2
    <3>2. p[1] \in CollectionsOf(r)
      OBVIOUS
    <3> QED
      BY <1>3, <3>1, <3>2
  <2> QED
    BY Zenon, <1>4, <2>1, <2>2 DEF MissingDifferences
<1>5. ASSUME NEW col \in CollectionsOf(r), d \in CollectionDifferences(r, col)
      PROVE  InACollection(r, d)
  <2>1. CASE \E x : d \in ChildFieldDifferences(r, col, x)
    BY <1>3, <2>1
  <2>2. CASE \E x : d = MissingChild(r, col, x, "missing")
    BY <1>3, <2>2
  <2>3. CASE \E li : d = UnexpectedChild(r, col, li)
    BY <1>3, <2>3
  <2> QED
    BY Zenon, <1>5, <2>1, <2>2, <2>3 DEF CollectionDifferences
<1>6. ASSUME IsLive(r), d \in ResourceFieldDifferences(r) PROVE OfAField(r, d)
  BY <1>1, <1>6, FieldDifferencesAreOfFields
<1> QED
  BY Zenon, <1>1, <1>2, <1>4, <1>5, <1>6 DEF ResourceDifferences

(***************************************************************************)
(* The changes, and the writes made of them.                               *)
(***************************************************************************)
LEMMA ChangesOfDifferencesCarryData ==
  ASSUME EverythingRead, NEW r \in Declared(set), NEW d \in ResourceDifferences(r),
         d.status \in {"missing", "changed", "unexpected"}
  PROVE  Carries(ChangeFor(d))
<1> DEFINE c == ChangeFor(d)
<1>1. d.res = r
  BY DifferencesNameTheirResource
<1>2. /\ c.action = ActionOf(d.status) /\ c.res = r /\ c.col = d.col /\ c.field = d.field
      /\ c.fields = ResolvedFields(r) /\ c.holds = PendingsOf(r) /\ c.slot = NoSlot
      /\ c.item = IF d.col = "" THEN NoKey ELSE ItemFor(d)
  BY <1>1 DEF ChangeFor, OfDeclared, Change
<1>3. Readable(r) /\ (InACollection(r, d) \/ OfNoField(d) \/ OfAField(r, d))
  BY DifferencesAreInTheirPlace
<1> HIDE DEF c
<1>4. CarriesValues(c)
  <2>1. \A f \in DOMAIN ResolvedFields(r) :
          /\ ~IsUnresolved(ResolvedFields(r)[f])
          /\ ResolvedFields(r)[f].kind \in Values /\ f \in GivenBy(set, r)
    <3> DEFINE expected == ExpectedFields(r)
    <3>1. \A f \in DOMAIN expected : expected[f].kind \in Values /\ f \in GivenBy(set, r)
      BY <1>3, ExpectedFieldsAreGiven
    <3>2. ResolvedFields(r) = Restrict(expected, {f \in DOMAIN expected : ~IsUnresolved(expected[f])})
      BY DEF ResolvedFields
    <3> HIDE DEF expected
    <3> QED
      BY <3>1, <3>2 DEF Restrict
  <2>2. Settled(c.fields)
    BY <1>2, <2>1 DEF Settled, IsUnresolved, Values, Waits
  <2>3. PendingsIn(Range(c.fields)) \subseteq c.holds
    BY <1>2 DEF PendingsOf, PendingsIn
  <2>4. GivenBy(set, r) \subseteq KnownFields(r)
    BY Zenon DEF KnownFields, EverythingRead
  <2>5. IsUpsert(c) => Settled(c.item)
    <3>1. CASE d.col = ""
      BY <1>2, <3>1 DEF Settled, NoKey
    <3>2. CASE d.col # "" /\ d.status = "unexpected"
      BY <1>2, <3>2 DEF ActionOf, IsUpsert
    <3>3. CASE d.col # "" /\ d.status # "unexpected"
      <4> DEFINE here == {it \in ResolvedChildren(r, d.col) : ItemKey(d.col, it) = d.key}
      <4>1. c.item = IF here = {} THEN NoKey ELSE CHOOSE it \in here : TRUE
        BY <1>1, <1>2, <3>3 DEF ItemFor
      <4>2. d.col \in CollectionsOf(r)
        BY <1>3, <3>3 DEF InACollection, OfNoField, OfAField
      <4>3. \A it \in here : Settled(it)
        BY <1>3, <4>2, ResolvedChildrenAreSettled
      <4> HIDE DEF here
      <4> QED
        BY <4>1, <4>3 DEF Settled, NoKey
    <3> QED
      BY <3>1, <3>2, <3>3
  <2> QED
    BY <1>2, <2>1, <2>2, <2>3, <2>4, <2>5 DEF CarriesValues
<1>5. UpdatesWhatItCarries(c)
  <2> SUFFICES ASSUME c.col = "", c.field # "" PROVE UpdatesWhatItCarries(c)
    BY DEF UpdatesWhatItCarries
  <2>1. r \in Resources
    BY SetsAreLoaded DEF EverythingRead
  <2>2. "" \notin CollectionsOf(r)
    BY <2>1, CollectionsHaveNames, StagesAreNumbers DEF CollectionsOf
  <2>3. OfAField(r, d)
    BY <1>2, <1>3, <2>2 DEF InACollection, OfNoField
  <2>4. d.status = "changed" /\ IsUpsert(c)
    BY <1>2, <2>3 DEF OfAField, ActionOf, IsUpsert
  <2> QED
    BY <1>2, <2>3, <2>4 DEF OfAField, UpdatesWhatItCarries
<1>6. Carries(c)
  BY <1>2, <1>4, <1>5 DEF Carries, IsDeferred
<1> QED
  BY <1>6 DEF c

LEMMA ChangesCarryData ==
  ASSUME EverythingRead, NEW c \in ChangesFor(Differences)
  PROVE  Carries(c)
<1>1. Declared(set) \subseteq Resources /\ LoadChecked(set)
  BY SetsAreLoaded DEF EverythingRead
<1>2. ASSUME NEW s \in set.slots, ~IsFieldSlot(s),
             c = [OfDeclared(Change("create", s.target, s.col, NoKey, ""))
                    EXCEPT !.slot = s, !.after = After(s),
                           !.covered = {li \in LiveChildren(s.target, s.col) : MatchesAll(li, s.match)}]
      PROVE  Carries(c)
  <2>1. c.slot = s /\ c.col = s.col /\ c.field = "" /\ c.action = "create"
    BY <1>2 DEF OfDeclared, Change
  <2>2. s.target \in Resources /\ s.col \in CollectionsOf(s.target)
    BY <1>1, <1>2 DEF LoadChecked
  <2>3. s.col # ""
    BY <2>2, CollectionsHaveNames, StagesAreNumbers DEF CollectionsOf
  <2>4. s # NoSlot
    BY <1>2, SetsHoldValues DEF EverythingRead
  <2> QED
    BY <1>2, <2>1, <2>3, <2>4 DEF Carries, IsDeferred
<1>3. ASSUME NEW d \in Differences, d.status \in {"missing", "changed", "unexpected"},
             c = ChangeFor(d)
      PROVE  Carries(c)
  <2>1. PICK r \in Declared(set) : d \in ResourceDifferences(r)
    BY <1>3, ClaimDifferencesChangeNothing DEF Differences
  <2> QED
    BY <1>3, <2>1, ChangesOfDifferencesCarryData
<1>4. ASSUME c.action \in {"delete", "unclaim"}, c.slot = NoSlot, c.field = ""
      PROVE  Carries(c)
  BY <1>4 DEF Carries, CarriesValues, UpdatesWhatItCarries, IsDeferred, IsUpsert
<1>5. ASSUME NEW r, c = UnclaimedDelete(r)
      PROVE  Carries(c)
  BY <1>4, <1>5 DEF UnclaimedDelete, Change
<1>6. ASSUME NEW cl, c = [Change("unclaim", cl.res, "", NoKey, "") EXCEPT !.claim = {cl}]
      PROVE  Carries(c)
  BY <1>4, <1>6 DEF Change
<1> QED
  BY <1>2, <1>3, <1>5, <1>6 DEF ChangesFor, DeferredChanges

\* What a value stands for once its creations have run is data.
LEMMA RealizedIsData ==
  ASSUME NEW c, OfDeclaredResource(c), CarriesValues(c), AllLiteral(exposed), ~StillMissing(c)
  PROVE  WritesData(Realized(c))
<1> DEFINE w == Realized(c)
<1>1. /\ w.action = c.action /\ w.res = c.res
      /\ w.fields = RealizeAll(c.fields) /\ w.item = RealizeAll(c.item)
  BY DEF Realized, OfDeclaredResource, ChangeShape
<1>2. ASSUME NEW fields, Settled(fields), PendingsIn(Range(fields)) \subseteq c.holds \cup PendingsIn(Range(c.key) \cup Range(c.item))
      PROVE  AllLiteral(RealizeAll(fields)) /\ DOMAIN RealizeAll(fields) \subseteq DOMAIN fields
  <2>1. ASSUME NEW f \in DOMAIN fields, HasRun(fields[f])
        PROVE  Realize(fields[f]).kind = "literal"
    <3>1. CASE fields[f].kind = "pending"
      <4>1. fields[f] \in PendingsIn(Range(fields))
        BY <3>1 DEF PendingsIn, Range
      <4>2. Available(fields[f])
        BY <1>2, <2>1, <4>1 DEF StillMissing
      <4> QED
        BY <3>1, <4>2 DEF Available, Realize, AllLiteral
    <3>2. CASE fields[f].kind # "pending"
      BY <1>2, <3>2 DEF Settled, Realize
    <3> QED
      BY <3>1, <3>2
  <2> QED
    BY <2>1 DEF RealizeAll, AllLiteral
<1>3. PendingsIn(Range(c.item)) \subseteq PendingsIn(Range(c.key) \cup Range(c.item))
  BY DEF PendingsIn
<1> HIDE DEF w
<1>4. IsUpsert(c) => WritesData(w)
  BY <1>1, <1>2, <1>3 DEF CarriesValues, WritesData
<1> QED
  BY <1>1, <1>4 DEF WritesData, IsUpsert, w

LEMMA ExpansionIsData ==
  ASSUME NEW c, set \in Sets, c.slot \in set.slots, ~IsFieldSlot(c.slot), NEW x \in Expansion(c)
  PROVE  WritesData(x)
<1>1. \A it \in c.slot.gives : AllLiteral(it)
  BY SetsHoldValues
<1>2. ASSUME NEW action, NEW field, NEW it, action = "delete" \/ AllLiteral(it)
      PROVE  WritesData(ChildWrite(c, action, field, it))
  BY <1>2 DEF ChildWrite, Change, WritesData, IsUpsert, AllLiteral, NoKey
<1>3. \E action, field, it : /\ action = "delete" \/ it \in c.slot.gives
                             /\ x = ChildWrite(c, action, field, it)
  BY Zenon DEF Expansion, ExpandedCreates, ExpandedUpdates, ExpandedDeletes
<1> QED
  BY <1>1, <1>2, <1>3

\* What is read is what there was at that moment.
LEMMA AnswersRememberData ==
  ASSUME ProviderInv, MemoryInv, NEW q, NEW failed \in BOOLEAN, Answer(q, failed)
  PROVE  MemoryInv'
<1> DEFINE heard(now) == IF failed THEN [now EXCEPT !.found = "failed"] ELSE now
<1>1. ASSUME NEW now, DOMAIN now = {"found", "is"}
      PROVE  heard(now).found = "live" => now.found = "live" /\ heard(now) = now
  BY <1>1
<1>2. \A r : DOMAIN ReadNow(r) = {"found", "is"} /\ (ReadNow(r).found = "live" => HoldsData(r, ReadNow(r).is))
  BY DEF ReadNow, Found, ProviderInv
<1>3. \A x : DOMAIN ExposedNow(x) = {"found", "is"} /\ (ExposedNow(x).found = "live" => ExposedNow(x).is.kind = "literal")
  BY DEF ExposedNow, Found, ProviderInv, AllLiteral
<1> HIDE DEF heard
<1>4. CASE reads' = With(reads, q.of, heard(ReadNow(q.of))) /\ values' = values
  <2>1. \A r \in DOMAIN reads' : (r \in DOMAIN reads /\ reads'[r] = reads[r])
                                   \/ (r = q.of /\ reads'[r] = heard(ReadNow(r)))
    BY <1>4 DEF With
  <2> QED
    BY <1>1, <1>2, <1>4, <2>1 DEF MemoryInv, IsLive
<1>5. CASE values' = With(values, q.of, heard(ExposedNow(q.of))) /\ reads' = reads
  <2>1. \A x \in DOMAIN values' : (x \in DOMAIN values /\ values'[x] = values[x])
                                   \/ (x = q.of /\ values'[x] = heard(ExposedNow(x)))
    BY <1>5 DEF With
  <2> QED
    BY <1>1, <1>3, <1>5, <2>1 DEF MemoryInv, IsLive
<1>6. CASE reads' = reads /\ values' = values
  BY <1>6 DEF MemoryInv, IsLive
<1> QED
  BY <1>4, <1>5, <1>6 DEF Answer, heard

LEMMA NothingIsRemembered ==
  ASSUME Forget
  PROVE  MemoryInv'
BY DEF Forget, MemoryInv, NoKey

\* The command computes, and the changes and writes are those it had or fewer.
LEMMA NothingNewIsCarried ==
  ASSUME DataInv, ProviderInv', MemoryInv', set' = set, changes' = changes,
         (pc # "idle" /\ pc' # "idle") \/ pc' = pc, \A w \in writes' : WritesData(w)
  PROVE  DataInv'
<1>1. \A c \in changes' : Carries(c)'
  BY DEF DataInv, Carries, CarriesValues, UpdatesWhatItCarries, FieldSlotsOf, GivenBy
<1> QED
  BY <1>1 DEF DataInv, WritesData

LEMMA ReturningHoldsData ==
  ASSUME ProviderInv', NEW how, Return(how)
  PROVE  DataInv'
BY NothingIsRemembered DEF Return, DataInv

\* The change to be made is one that carries what it should.
LEMMA CurrentCarriesData ==
  ASSUME DataInv, TypeInv, OrderInv, pc = "realizing", at <= Len(plan)
  PROVE  Current \in changes /\ Carries(Current) /\ OfDeclaredResource(Current) /\ set \in Sets
<1>1. Current \in changes
  BY CurrentIsAChange DEF Current, OrderInv
<1> QED
  BY <1>1 DEF DataInv, TypeInv, ChangesOK

LEMMA WhatIsRealizedIsData ==
  ASSUME DataInv, TypeInv, OrderInv, pc = "realizing", at <= Len(plan), ~StillMissing(Current),
         NEW w \in IF IsDeferred(Current) THEN Expansion(Current) ELSE {Realized(Current)}
  PROVE  WritesData(w)
<1>1. Carries(Current) /\ OfDeclaredResource(Current) /\ set \in Sets
  BY CurrentCarriesData
<1>2. CASE IsDeferred(Current)
  BY <1>1, <1>2, ExpansionIsData DEF Carries
<1>3. CASE ~IsDeferred(Current)
  BY <1>1, <1>3, RealizedIsData DEF Carries, DataInv, ProviderInv
<1> QED
  BY <1>2, <1>3

LEMMA EveryStepHoldsData ==
  ASSUME DataInv, TypeInv, OrderInv, [Next]_vars
  PROVE  DataInv'
<1>0. /\ ProviderInv /\ MemoryInv /\ \A w \in writes : WritesData(w)
      /\ declared \in Sets
  BY DEF DataInv, TypeInv, TypeOK
<1>1. CASE UNCHANGED provider
  <2>1. ProviderInv'
    BY <1>0, <1>1 DEF provider, ProviderInv
  <2>2. CASE \E how : Return(how)
    BY <2>1, <2>2, ReturningHoldsData
  <2>3. CASE ~\E how : Return(how)
    <3>1. CASE \E m \in {"dry", "apply"} : Load(m)
      <4>1. /\ pc = "idle" /\ pc' = "loaded" /\ set' = declared
            /\ UNCHANGED <<reads, values, changes, writes>>
        BY <3>1 DEF Load, planning, execution
      <4>2. changes = {}
        BY <4>1 DEF DataInv
      <4>3. MemoryInv'
        BY <1>0, <4>1 DEF MemoryInv, IsLive
      <4> QED
        BY <1>0, <2>1, <4>1, <4>2, <4>3 DEF DataInv
    <3>2. CASE CheckGit \/ Order \/ Ordered \/ Place \/ Placed \/ Accept \/ UNCHANGED vars
      <4>1. /\ (pc # "idle" /\ pc' # "idle") \/ pc' = pc
            /\ UNCHANGED <<set, reads, values, changes, writes>>
        BY <2>3, <3>2
           DEF CheckGit, Order, TakeEarliest, Ordered, Place, PlaceDelete, Placed, PutInPlace,
               Accept, vars, memory, planning, execution
      <4>2. MemoryInv'
        BY <1>0, <4>1 DEF MemoryInv, IsLive
      <4> QED
        BY <1>0, <2>1, <4>1, <4>2, NothingNewIsCarried
    <3>3. CASE ReadNext
      <4>1. UNCHANGED <<pc, set, changes, writes>>
        BY <3>3 DEF ReadNext, planning, execution
      <4>2. MemoryInv'
        BY <1>0, <3>3, AnswersRememberData DEF ReadNext
      <4> QED
        BY <1>0, <2>1, <4>1, <4>2, NothingNewIsCarried
    <3>4. CASE Compared
      <4>1. /\ pc = "reading" /\ pc' = "ordering" /\ Outstanding = {}
            /\ changes' = ChangesFor(Differences)
            /\ UNCHANGED <<set, reads, values, writes>>
        BY <2>3, <3>4 DEF Compared, memory, execution
      <4>2. EverythingRead
        BY <1>0, <4>1 DEF DataInv, EverythingRead
      <4>3. \A c \in changes' : Carries(c)
        BY <4>1, <4>2, ChangesCarryData
      <4>4. \A c \in changes' : Carries(c)'
        BY <4>1, <4>3 DEF Carries, CarriesValues, UpdatesWhatItCarries, FieldSlotsOf, GivenBy
      <4>5. MemoryInv'
        BY <1>0, <4>1 DEF MemoryInv, IsLive
      <4>6. set' \in Sets
        BY <4>1, <4>2 DEF EverythingRead
      <4>7. \A w \in writes' : WritesData(w)
        BY <1>0, <4>1
      <4> QED
        BY <2>1, <4>1, <4>4, <4>5, <4>6, <4>7 DEF DataInv
    <3>5. CASE RealizeNext
      <4>1. /\ pc = "realizing" /\ at <= Len(plan) /\ ~StillMissing(Current)
            /\ pc' \in {"realizing", "writing"}
            /\ UNCHANGED <<set, reads, values, changes>>
            /\ \/ writes' = {}
               \/ writes' = IF IsDeferred(Current) THEN Expansion(Current) ELSE {Realized(Current)}
        BY <2>3, <3>5 DEF RealizeNext, Advance, planning
      <4>2. \A w \in writes' : WritesData(w)
        BY <4>1, WhatIsRealizedIsData
      <4>3. MemoryInv'
        BY <1>0, <4>1 DEF MemoryInv, IsLive
      <4> QED
        BY <2>1, <4>1, <4>2, <4>3, NothingNewIsCarried
    <3>6. CASE Write
      <4>1. /\ pc = "writing" /\ pc' \in {"realizing", "writing"} /\ writes' \subseteq writes
            /\ UNCHANGED <<set, reads, values, changes>>
        BY <3>6 DEF Write, Advance, planning
      <4>2. MemoryInv'
        BY <1>0, <4>1 DEF MemoryInv, IsLive
      <4> QED
        BY <1>0, <2>1, <4>1, <4>2, NothingNewIsCarried
    <3>7. CASE CompareAgain
      BY <1>0, <2>1, <3>7, NothingIsRemembered, NothingNewIsCarried
         DEF CompareAgain, planning, execution
    <3>8. CASE Environment
      <4>1. UNCHANGED <<pc, set, reads, values, changes, writes>>
        BY <3>8 DEF Environment, Elsewhere, Assign, Drift, Edit, Commit, CreatorCreates,
                    CreatorClaims, CreatorDeletes, CreatorUnclaims, memory, planning, execution
      <4>2. MemoryInv'
        BY <1>0, <4>1 DEF MemoryInv, IsLive
      <4> QED
        BY <1>0, <2>1, <4>1, <4>2, NothingNewIsCarried
    <3>9. CASE OrderStuck \/ PlaceRefused \/ Show \/ RealizeFails \/ WriteStops \/ Report
      BY <2>3, <3>9 DEF OrderStuck, PlaceRefused, Show, RealizeFails, WriteStops, Report
    <3> QED
      BY <3>1, <3>2, <3>3, <3>4, <3>5, <3>6, <3>7, <3>8, <3>9 DEF Next, Command
  <2> QED
    BY <2>2, <2>3
<1>2. CASE Write
  <2>1. PICK w \in writes : /\ Effect(w)
                            /\ \/ Advance
                               \/ writes' = writes \ {w} /\ pc' = pc
    BY <1>2 DEF Write, NextWrites
  <2>2. ProviderInv'
    BY <1>0, <2>1, EffectHoldsData
  <2>3. /\ pc = "writing" /\ pc' \in {"realizing", "writing"} /\ writes' \subseteq writes
        /\ UNCHANGED <<set, reads, values, changes>>
    BY <1>2, <2>1 DEF Write, Advance, planning
  <2>4. MemoryInv'
    BY <1>0, <2>3 DEF MemoryInv, IsLive
  <2> QED
    BY <1>0, <2>2, <2>3, <2>4, NothingNewIsCarried
<1>3. CASE WriteStops /\ ~UNCHANGED provider
  <2>1. PICK w \in writes : Effect(w)
    BY <1>3 DEF WriteStops, NextWrites
  <2>2. ProviderInv'
    BY <1>0, <2>1, EffectHoldsData
  <2> QED
    BY <1>3, <2>2, ReturningHoldsData DEF WriteStops
<1>4. CASE Environment
  <2>1. ProviderInv'
    BY <1>0, <1>4, EnvironmentHoldsData
  <2>2. UNCHANGED <<pc, set, reads, values, changes, writes>>
    BY <1>4 DEF Environment, Elsewhere, Assign, Drift, Edit, Commit, CreatorCreates,
                CreatorClaims, CreatorDeletes, CreatorUnclaims, memory, planning, execution
  <2>3. MemoryInv'
    BY <1>0, <2>2 DEF MemoryInv, IsLive
  <2> QED
    BY <1>0, <2>1, <2>2, <2>3, NothingNewIsCarried
<1> QED
  BY <1>1, <1>2, <1>3, <1>4
     DEF Next, Command, Load, CheckGit, ReadNext, Compared, Order, OrderStuck, Ordered, Place,
         PlaceRefused, Placed, Show, Accept, RealizeNext, RealizeFails, CompareAgain, Report, vars,
         provider

LEMMA DataInvAlways == Spec => []DataInv
<1>1. Init => DataInv
  <2> SUFFICES ASSUME Init PROVE DataInv
    OBVIOUS
  <2>1. PICK w \in Worlds : live = w.live /\ exposed = w.exposed
    BY DEF Init
  <2>2. \A r \in DOMAIN live : IsData(r, live[r]) /\ AllLiteral(exposed)
    BY <2>1, ProviderHoldsData
  <2>3. ASSUME NEW r \in DOMAIN live
        PROVE  DOMAIN live[r].fields \subseteq KnownFields(r)
    <3>1. w \in {v \in Worlds : r \in DOMAIN v.live}
      BY <2>1
    <3> QED
      BY <2>1, <3>1, Zenon DEF KnownFields
  <2>4. ProviderInv
    BY <2>1, <2>2, <2>3, ProviderHoldsData DEF ProviderInv, HoldsData
  <2> QED
    BY <2>4 DEF Init, DataInv, MemoryInv, NoKey
<1>2. DataInv /\ TypeInv /\ OrderInv /\ [Next]_vars => DataInv'
  BY EveryStepHoldsData
<1> QED
  BY <1>1, <1>2, TypeInvAlways, PTL DEF Spec

\* No placeholder, reference or reason reaches the provider, whatever is declared: a
\* reference resolves to what was read, and a pending value is looked up when it is
\* written or the apply stops (realizer.realize).
THEOREM OnlyDataIsWritten == Spec => []NothingWaitingIsWritten
<1>1. ASSUME ProviderInv, NEW r \in DOMAIN live
      PROVE  /\ \A v \in Range(live[r].fields) : v.kind = "literal"
             /\ \A col \in CollectionsOf(r) :
                  \A v \in ValuesOf(live[r].children[col]) : v.kind = "literal"
  <2>1. IsData(r, live[r])
    BY <1>1 DEF ProviderInv, HoldsData
  <2>2. ASSUME NEW col \in CollectionsOf(r), NEW v \in ValuesOf(live[r].children[col])
        PROVE  v.kind = "literal"
    <3>1. PICK li \in live[r].children[col] : v \in Range(li)
      BY <2>2 DEF ValuesOf
    <3> QED
      BY <2>1, <3>1 DEF IsData, AllLiteral, Range
  <2> QED
    BY <2>1, <2>2 DEF IsData, AllLiteral, Range
<1>2. DataInv => NothingWaitingIsWritten
  BY <1>1 DEF DataInv, NothingWaitingIsWritten
<1> QED
  BY <1>2, DataInvAlways, PTL

-------------------------------------------------------------------------------
(***************************************************************************)
(* Nothing is out of order.                                                *)
(***************************************************************************)
OrderSufficesInv == DataInv /\ ExecuteInv /\ TypeInv /\ OrderInv /\ NeverOutOfOrder

LEMMA UpdatedFieldsAreCarried ==
  ASSUME FieldsAreAlwaysGiven, OrderSufficesInv, pc = "realizing", at <= Len(plan)
  PROVE  ~LeavesOutField(Current)
<1> DEFINE c == Current
<1>1. c \in changes /\ Carries(c) /\ OfDeclaredResource(c) /\ set \in Sets
  BY CurrentCarriesData DEF OrderSufficesInv
<1> HIDE DEF c
<1>2. SUFFICES ASSUME c.field # "", c.col = "" PROVE c.field \in DOMAIN RealizeAll(c.fields)
  BY DEF LeavesOutField, c
<1>3. ~IsDeferred(c) /\ UpdatesWhatItCarries(c)
  BY <1>1, <1>2 DEF Carries
<1>4. IsUpsert(c) /\ c.res \in Declared(set)
  BY <1>1, <1>2, <1>3 DEF UpdatesWhatItCarries, OfDeclaredResource
<1>5. c.field \in DOMAIN c.fields
  BY <1>1, <1>2, <1>3, <1>4 DEF UpdatesWhatItCarries, FieldsAreAlwaysGiven
<1>6. ASSUME c.fields[c.field].kind = "pending"
      PROVE  c.fields[c.field].after \subseteq created
  <2> DEFINE v == c.fields[c.field]
  <2>1. v \in WrittenBy(c)
    BY <1>2, <1>5 DEF WrittenBy, Only, Restrict, Range
  <2>2. v.after \subseteq AllNeeds(c)
    BY <1>3, <1>6, <2>1 DEF AllNeeds, Needs, WaitsOn, PendingsIn
  <2>3. AllNeeds(c) \subseteq created
    <3>1. at \in DOMAIN plan /\ c = plan[at]
      BY CurrentIsAChange DEF OrderSufficesInv, OrderInv, Current, c
    <3> QED
      BY <3>1 DEF OrderSufficesInv, OrderInv, NeedsMet, ExecuteInv, Executing
  <2> QED
    BY <2>2, <2>3
<1> QED
  BY <1>5, <1>6 DEF RealizeAll, HasRun

\* Where every field of a type that something may have set is given by what is declared,
\* an apply never ends in "a bug in the plan's order": a field that differs is carried by
\* its change, and every value of a change waits on creations that have run.  The
\* hypothesis is needed: an optional field that is not declared and was set by hand
\* makes the apply end that way.
THEOREM OrderIsEnough ==
  ASSUME FieldsAreAlwaysGiven
  PROVE  Spec => []NeverOutOfOrder
<1>1. OrderSufficesInv /\ [Next]_vars => NeverOutOfOrder'
  <2> SUFFICES ASSUME OrderSufficesInv, [Next]_vars, outcome' = "out of order" PROVE FALSE
    BY DEF NeverOutOfOrder
  <2>1. outcome # "out of order"
    BY DEF OrderSufficesInv, NeverOutOfOrder
  <2>2. CASE RealizeNext
    <3>1. /\ pc = "realizing" /\ at <= Len(plan)
          /\ WritesTooEarly(Current) \/ LeavesOutField(Current)
      BY <2>1, <2>2 DEF RealizeNext, Return
    <3> QED
      BY <3>1, OrderSuffices, UpdatedFieldsAreCarried DEF OrderSufficesInv
  <2>3. CASE ~RealizeNext
    BY <2>1, <2>3
       DEF Next, Command, Environment, Load, CheckGit, ReadNext, Compared, Order, OrderStuck,
           Ordered, Place, PlaceRefused, Placed, Show, Accept, RealizeFails, Write, WriteStops,
           CompareAgain, Report, Return, Elsewhere, Assign, Drift, Edit, Commit, CreatorCreates,
           CreatorClaims, CreatorDeletes, CreatorUnclaims, vars
  <2> QED
    BY <2>2, <2>3
<1>2. Init => NeverOutOfOrder
  BY DEF Init, NeverOutOfOrder
<1> QED
  BY <1>1, <1>2, DataInvAlways, ExecuteInvAlways, TypeInvAlways, PTL DEF Spec, OrderSufficesInv

-------------------------------------------------------------------------------

(***************************************************************************)
(* A change, or a write made of one, that takes something away is          *)
(* justified by what the comparison remembers.  Advance drops the claims   *)
(* unclaimed from that memory, and with fewer claims it stays justified.   *)
(***************************************************************************)
ClaimsAreStale(c) ==
  \A cl \in c.claim :
    cl.creator # "" /\ ListRead(TypeOf[cl.res]) /\ cl.res \notin Listed

DeletesUnclaimed(c) ==
  IsWholeDelete(c) =>
    \A r \in {c.res} \cup c.owned :
      /\ r \notin Declared(set) \cup ClaimedResources \cup given.unmanaged
      /\ OwnerOf[r] \in Listed => OwnerOf[r] = c.res

\* What a deferred change becomes are writes of children.
DefersAChild(c) == IsDeferred(c) => c.col # ""

Justified(c) == ClaimsAreStale(c) /\ DeletesUnclaimed(c) /\ DefersAChild(c)

Planned == pc \in {"ordering", "placing", "planned", "realizing", "writing"}

ListsResources == \A t \in DOMAIN lists : lists[t].is \subseteq Resources

ClaimsInv ==
  /\ ListsResources
  /\ DOMAIN given = {"claims", "unmanaged"}
  /\ Planned => \A c \in changes \cup writes : Justified(c)

-------------------------------------------------------------------------------
(***************************************************************************)
(* No difference of a declared resource deletes it.                        *)
(***************************************************************************)
KeepsTheResource(d) ==
  \/ d.status \in {"missing", "changed", "unresolved"}
  \/ d.status = "unexpected" /\ d.col # ""

LEMMA DifferencesKeep ==
  ASSUME NEW status, NEW r, NEW col, NEW key, NEW field, NEW was, NEW is, NEW source,
         \/ status \in {"missing", "changed", "unresolved"}
         \/ status = "unexpected" /\ col # ""
  PROVE  KeepsTheResource(Difference(status, r, col, key, field, was, is, source))
BY DEF KeepsTheResource, Difference

LEMMA FieldStatusesKeep ==
  ASSUME NEW compared, NEW was, NEW is, NEW fs \in FieldStatuses(compared, was, is)
  PROVE  fs.status \in {"missing", "changed", "unresolved"}
BY DEF FieldStatuses

LEMMA MissingChildrenKeep ==
  ASSUME NEW r, NEW col, NEW e, NEW status \in {"missing", "unresolved"}
  PROVE  KeepsTheResource(MissingChild(r, col, e, status))
<1> DEFINE given_ == IF HasUnresolved(e.item) THEN "unresolved" ELSE status
<1>1. given_ \in {"missing", "changed", "unresolved"}
  OBVIOUS
<1> HIDE DEF given_
<1>2. \A key, was, is, source :
         KeepsTheResource(Difference(given_, r, col, key, "", was, is, source))
  BY <1>1, DifferencesKeep
<1> QED
  BY <1>2, Zenon DEF MissingChild, given_

LEMMA CollectionDifferencesKeep ==
  ASSUME NEW r, NEW col, col # "", NEW d \in CollectionDifferences(r, col)
  PROVE  KeepsTheResource(d)
<1>1. ASSUME NEW e, d \in ChildFieldDifferences(r, col, e) PROVE KeepsTheResource(d)
  <2>1. PICK fs, key, was, is, source, compared, fields, others :
          /\ fs \in FieldStatuses(compared, fields, others)
          /\ d = Difference(fs.status, r, col, key, fs.field, was, is, source)
    BY <1>1, ZenonT(60) DEF ChildFieldDifferences
  <2> QED
    BY <2>1, FieldStatusesKeep, DifferencesKeep
<1>2. ASSUME NEW e, d = MissingChild(r, col, e, "missing") PROVE KeepsTheResource(d)
  BY <1>2, MissingChildrenKeep
<1>3. ASSUME NEW li, d = UnexpectedChild(r, col, li) PROVE KeepsTheResource(d)
  <2>1. \A key, was, is, source :
          KeepsTheResource(Difference("unexpected", r, col, key, "", was, is, source))
    BY DifferencesKeep
  <2> QED
    BY <1>3, <2>1, Zenon DEF UnexpectedChild
<1> QED
  BY Zenon, <1>1, <1>2, <1>3 DEF CollectionDifferences

LEMMA ResourceDifferencesKeep ==
  ASSUME NEW r \in Resources, NEW d \in ResourceDifferences(r)
  PROVE  KeepsTheResource(d)
<1>1. \A col \in CollectionsOf(r) : col # ""
  BY CollectionsHaveNames, StagesAreNumbers DEF CollectionsOf
<1>2. ASSUME d \in SlotDifferences(r) PROVE KeepsTheResource(d)
  <2>1. PICK s, was : d = Difference(IF IsPending(s) THEN "missing" ELSE "unresolved",
                                     r, s.col, NoKey, "", was, NoKey, s.source)
    BY <1>2, Zenon DEF SlotDifferences
  <2>2. CASE IsPending(s)
    BY <2>1, <2>2, DifferencesKeep
  <2>3. CASE ~IsPending(s)
    BY <2>1, <2>3, DifferencesKeep
  <2> QED
    BY <2>2, <2>3
<1>3. ASSUME d \in ResourceFieldDifferences(r) PROVE KeepsTheResource(d)
  <2>1. PICK fs, was, is, source, compared, fields, others :
          /\ fs \in FieldStatuses(compared, fields, others)
          /\ d = Difference(fs.status, r, "", NoKey, fs.field, was, is, source)
    BY <1>3, Zenon DEF ResourceFieldDifferences
  <2> QED
    BY <2>1, FieldStatusesKeep, DifferencesKeep
<1>4. ASSUME d \in MissingDifferences(r) PROVE KeepsTheResource(d)
  <2> DEFINE expected == ExpectedFields(r)
             status == IF HasUnresolved(expected) THEN "unresolved" ELSE "missing"
  <2>1. status \in {"missing", "unresolved"}
    OBVIOUS
  <2>2. d = Difference(status, r, "", NoKey, "", expected, NoKey, r)
          \/ \E p : d = MissingChild(r, p[1], p[2], status)
    BY <1>4, Zenon DEF MissingDifferences
  <2> HIDE DEF status, expected
  <2> QED
    BY <2>1, <2>2, DifferencesKeep, MissingChildrenKeep
<1>5. ASSUME NEW col \in CollectionsOf(r), d \in CollectionDifferences(r, col)
      PROVE  KeepsTheResource(d)
  BY <1>1, <1>5, CollectionDifferencesKeep
<1> QED
  BY Zenon, <1>2, <1>3, <1>4, <1>5 DEF ResourceDifferences

-------------------------------------------------------------------------------
(***************************************************************************)
(* Every change of a plan is justified.                                    *)
(***************************************************************************)
LEMMA ListedAreResources ==
  ASSUME ListsResources
  PROVE  Listed \subseteq Resources
BY DEF ListsResources, Listed

\* What nobody claims, and what goes with it.
LEMMA UnclaimedDeletesAreJustified ==
  ASSUME ListsResources, NEW r \in Unclaimed
  PROVE  Justified(UnclaimedDelete(r))
<1> DEFINE c == UnclaimedDelete(r)
<1>1. c.res = r /\ c.owned = Owned(r) /\ c.claim = {}
  BY DEF UnclaimedDelete, Change
<1>6. c.slot = NoSlot
  BY DEF UnclaimedDelete, Change
<1>2. "" \notin Listed
  BY ListedAreResources, ResourcesHaveNames
<1>3. \A o \in {r} \cup Owned(r) : o \in Candidates
  BY DEF Unclaimed, Owned, LiveCandidates
<1>4. OwnerOf[r] \notin Listed
  BY <1>2 DEF Unclaimed, IsOwned
<1>5. \A o \in Owned(r) : OwnerOf[o] = r
  BY DEF Owned
<1> QED
  BY <1>1, <1>3, <1>4, <1>5, <1>6
     DEF Justified, ClaimsAreStale, DeletesUnclaimed, DefersAChild, IsDeferred, Candidates

LEMMA ChangesAreJustified ==
  ASSUME set \in Sets \cup {NoSet}, ListsResources, NEW c \in ChangesFor(Differences)
  PROVE  Justified(c)
<1>1. Declared(set) \subseteq Resources
  BY SetsAreLoaded DEF Declared, NoSet, NoKey
<1>2. ASSUME NEW s \in set.slots, ~IsFieldSlot(s),
             c = [OfDeclared(Change("create", s.target, s.col, NoKey, ""))
                    EXCEPT !.slot = s, !.after = After(s),
                           !.covered = {li \in LiveChildren(s.target, s.col) : MatchesAll(li, s.match)}]
      PROVE  Justified(c)
  <2>1. s.target \in Resources /\ s.col \in CollectionsOf(s.target)
    BY <1>1, <1>2, SetsAreLoaded DEF LoadChecked, NoSet
  <2>2. s.col # ""
    BY <2>1, CollectionsHaveNames, StagesAreNumbers DEF CollectionsOf
  <2>3. c.col = s.col /\ c.claim = {} /\ c.action = "create"
    BY <1>2 DEF OfDeclared, Change
  <2> QED
    BY <2>2, <2>3 DEF Justified, ClaimsAreStale, DeletesUnclaimed, DefersAChild, IsWholeDelete
<1>3. ASSUME NEW d \in Differences, d.status \in {"missing", "changed", "unexpected"},
             c = ChangeFor(d)
      PROVE  Justified(c)
  <2>1. PICK r \in Declared(set) : d \in ResourceDifferences(r)
    BY <1>3, ClaimDifferencesChangeNothing DEF Differences
  <2>2. KeepsTheResource(d)
    BY <1>1, <2>1, ResourceDifferencesKeep
  <2>3. c.col = d.col /\ c.action = ActionOf(d.status) /\ c.claim = {} /\ c.slot = NoSlot
    BY <1>3 DEF ChangeFor, OfDeclared, Change
  <2> QED
    BY <1>3, <2>2, <2>3
       DEF Justified, ClaimsAreStale, DeletesUnclaimed, DefersAChild, IsDeferred, IsWholeDelete,
           ActionOf, KeepsTheResource
<1>4. ASSUME NEW d \in Differences, d.status = "unclaimed", c = UnclaimedDelete(d.res)
      PROVE  Justified(c)
  <2>1. d.res \in Unclaimed
    <3>1. d \in ClaimDifferences
      <4>1. ASSUME NEW r \in Declared(set), d \in ResourceDifferences(r)
            PROVE  FALSE
        BY <1>1, <1>4, <4>1, ResourceDifferencesKeep DEF KeepsTheResource
      <4> QED
        BY <4>1 DEF Differences
    <3>2. ASSUME NEW status, NEW q, NEW source,
                 d = Difference(status, q, "", NoKey, "", NoKey, NoKey, source)
          PROVE  d.res = q /\ status = "unclaimed"
      BY <1>4, <3>2 DEF Difference
    <3>3. \/ \E q \in Unclaimed : d = Difference("unclaimed", q, "", NoKey, "", NoKey, NoKey, "")
          \/ \E q, source : d = Difference("stale-claim", q, "", NoKey, "", NoKey, NoKey, source)
          \/ \E q, source : d = Difference("misclaimed", q, "", NoKey, "", NoKey, NoKey, source)
      <4>1. CASE Account
        BY Zenon, <3>1, <4>1 DEF ClaimDifferences
      <4>2. CASE ~Account
        BY Zenon, <3>1, <4>2 DEF ClaimDifferences
      <4> QED
        BY <4>1, <4>2
    <3> QED
      BY <3>2, <3>3, Zenon
  <2> QED
    BY <1>4, <2>1, UnclaimedDeletesAreJustified
<1>5. ASSUME NEW cl \in StaleClaims,
             c = [Change("unclaim", cl.res, "", NoKey, "") EXCEPT !.claim = {cl}]
      PROVE  Justified(c)
  BY <1>5 DEF Justified, ClaimsAreStale, DeletesUnclaimed, DefersAChild, IsDeferred, IsWholeDelete,
              Change, StaleClaims
<1> QED
  BY <1>2, <1>3, <1>4, <1>5 DEF ChangesFor, DeferredChanges

(***************************************************************************)
(* And every write: a realized change takes away what the change does, and *)
(* what a deferred change becomes are writes of children.                  *)
(***************************************************************************)
LEMMA RealizedIsJustified ==
  ASSUME NEW c, OfDeclaredResource(c), Justified(c)
  PROVE  Justified(Realized(c))
BY DEF OfDeclaredResource, ChangeShape, Justified, ClaimsAreStale, DeletesUnclaimed,
       DefersAChild, IsDeferred, IsWholeDelete, Realized

LEMMA ExpansionIsJustified ==
  ASSUME NEW c, c.col # "", NEW w \in Expansion(c)
  PROVE  Justified(w)
<1>1. \E action, field, it : w = ChildWrite(c, action, field, it)
  BY Zenon DEF Expansion, ExpandedCreates, ExpandedUpdates, ExpandedDeletes
<1>2. w.col # "" /\ w.claim = {}
  BY <1>1 DEF ChildWrite, Change
<1> QED
  BY <1>2 DEF Justified, ClaimsAreStale, DeletesUnclaimed, DefersAChild, IsWholeDelete

-------------------------------------------------------------------------------
(***************************************************************************)
(* Every step.                                                             *)
(***************************************************************************)
LEMMA SameMemoryJustifiesTheSame ==
  ASSUME UNCHANGED <<set, given, lists>>
  PROVE  \A c : Justified(c)' <=> Justified(c)
BY DEF Justified, ClaimsAreStale, DeletesUnclaimed, DefersAChild, ListRead, Listed,
       ClaimedResources, Declared

LEMMA FewerClaimsJustify ==
  ASSUME ClaimsInv, Advance, UNCHANGED <<set, lists>>
  PROVE  /\ DOMAIN given' = {"claims", "unmanaged"}
         /\ \A c : Justified(c) => Justified(c)'
<1>1. given' = [given EXCEPT !.claims = @ \ Current.claim]
  BY DEF Advance
<1>2. /\ DOMAIN given' = {"claims", "unmanaged"}
      /\ given'.unmanaged = given.unmanaged /\ given'.claims \subseteq given.claims
  BY <1>1 DEF ClaimsInv
<1>3. Listed' = Listed /\ \A t : ListRead(t)' <=> ListRead(t)
  BY DEF Listed, ListRead
<1>4. ClaimedResources' \subseteq ClaimedResources
  BY <1>2 DEF ClaimedResources
<1>5. Declared(set)' = Declared(set)
  BY DEF Declared
<1>6. ASSUME NEW c, ClaimsAreStale(c) PROVE ClaimsAreStale(c)'
  BY <1>3, <1>6 DEF ClaimsAreStale
<1>7. ASSUME NEW c, DeletesUnclaimed(c) PROVE DeletesUnclaimed(c)'
  BY <1>2, <1>3, <1>4, <1>5, <1>7 DEF DeletesUnclaimed
<1> QED
  BY <1>2, <1>6, <1>7 DEF Justified, DefersAChild

\* Writes of one change leave the plan and its memory alone, or are its last.
LEMMA ExecutionIsJustified ==
  ASSUME ClaimsInv, Planned, UNCHANGED <<set, lists, changes>>,
         \/ Advance
         \/ given' = given /\ \A w \in writes' : Justified(w)
  PROVE  ClaimsInv'
<1>1. CASE Advance
  BY <1>1, FewerClaimsJustify DEF ClaimsInv, ListsResources, Advance
<1>2. CASE given' = given /\ \A w \in writes' : Justified(w)
  <2>1. \A c : Justified(c)' <=> Justified(c)
    BY <1>2, SameMemoryJustifiesTheSame
  <2> QED
    BY <1>2, <2>1 DEF ClaimsInv, ListsResources
<1> QED
  BY <1>1, <1>2

LEMMA MemoryStaysJustified ==
  ASSUME ClaimsInv, UNCHANGED <<set, given, lists, changes, writes>>, Planned' => Planned
  PROVE  ClaimsInv'
<1>1. \A c : Justified(c)' <=> Justified(c)
  BY SameMemoryJustifiesTheSame
<1> QED
  BY <1>1 DEF ClaimsInv, ListsResources

LEMMA NothingPlanned ==
  ASSUME ListsResources', DOMAIN given' = {"claims", "unmanaged"}, ~Planned'
  PROVE  ClaimsInv'
BY DEF ClaimsInv

LEMMA EveryStepIsJustified ==
  ASSUME ClaimsInv, TypeInv, OrderInv, [Next]_vars
  PROVE  ClaimsInv'
<1>1. CASE \E how : Return(how)
  BY <1>1, NothingPlanned DEF Return, Forget, NoKey, NoClaims, ListsResources, Planned
<1>2. CASE ~\E how : Return(how)
  <2>1. CASE \E m \in {"dry", "apply"} : Load(m)
    BY <2>1, NothingPlanned DEF Load, ClaimsInv, ListsResources, Planned
  <2>2. CASE CheckGit
    BY <1>2, <2>2, MemoryStaysJustified DEF CheckGit, memory, planning, execution, Planned
  <2>3. CASE ReadNext
    <3>1. /\ pc = "reading" /\ pc' = pc /\ given' = given
          /\ \E failed \in BOOLEAN : Answer(NextRequest, failed)
      BY <2>3 DEF ReadNext
    <3>2. ListsResources'
      <4>1. CASE lists' = lists
        BY <4>1 DEF ClaimsInv, ListsResources
      <4>2. CASE lists' # lists
        <5>0. PICK failed \in BOOLEAN : Answer(NextRequest, failed)
          BY <3>1
        <5> DEFINE of == NextRequest.of
                   now == IF failed THEN [ListNow(of) EXCEPT !.found = "failed"] ELSE ListNow(of)
        <5>1. lists' = With(lists, of, now)
          BY <4>2, <5>0 DEF Answer
        <5>2. now.is \subseteq Resources
          BY DEF ListNow, Found, TypeInv, TypeOK
        <5> HIDE DEF of, now
        <5> QED
          BY <5>1, <5>2 DEF ClaimsInv, ListsResources, With
      <4> QED
        BY <4>1, <4>2
    <3> QED
      BY <3>1, <3>2, NothingPlanned DEF ClaimsInv, Planned
  <2>4. CASE Compared
    <3>1. /\ pc = "reading" /\ changes' = ChangesFor(Differences)
          /\ UNCHANGED <<set, given, lists, writes>>
      BY <1>2, <2>4 DEF Compared, memory, execution
    <3>2. set \in Sets \cup {NoSet} /\ writes = {}
      BY <3>1 DEF TypeInv, TypeOK
    <3>3. \A c \in changes' \cup writes' : Justified(c)
      BY <3>1, <3>2, ChangesAreJustified DEF ClaimsInv
    <3>4. \A c : Justified(c)' <=> Justified(c)
      BY <3>1, SameMemoryJustifiesTheSame
    <3> QED
      BY <3>1, <3>3, <3>4 DEF ClaimsInv, ListsResources
  <2>5. CASE Order \/ Ordered \/ Place \/ Placed \/ Accept
    BY <1>2, <2>5, MemoryStaysJustified
       DEF Order, TakeEarliest, Ordered, Place, PlaceDelete, Placed, PutInPlace, Accept,
           memory, planning, execution, Planned
  <2>6. CASE RealizeNext
    <3>1. /\ pc = "realizing" /\ at <= Len(plan) /\ UNCHANGED <<set, lists, changes>>
          /\ \/ Advance
             \/ /\ given' = given
                /\ writes' = IF IsDeferred(Current) THEN Expansion(Current) ELSE {Realized(Current)}
      BY <1>2, <2>6 DEF RealizeNext, planning
    <3>2. Current \in changes /\ OfDeclaredResource(Current)
      BY <3>1, CurrentIsAChange DEF Current, OrderInv
    <3>3. Justified(Current)
      BY <3>1, <3>2 DEF ClaimsInv, Planned
    <3>4. CASE IsDeferred(Current)
      BY <3>1, <3>3, <3>4, ExpansionIsJustified, ExecutionIsJustified
         DEF Justified, DefersAChild, Planned
    <3>5. CASE ~IsDeferred(Current)
      BY <3>1, <3>2, <3>3, <3>5, RealizedIsJustified, ExecutionIsJustified DEF Planned
    <3> QED
      BY <3>4, <3>5
  <2>7. CASE Write
    <3>1. /\ pc = "writing" /\ UNCHANGED <<set, lists, changes>>
          /\ Advance \/ (given' = given /\ writes' \subseteq writes)
      BY <2>7 DEF Write, planning
    <3>2. \A w \in writes : Justified(w)
      BY <3>1 DEF ClaimsInv, Planned
    <3> QED
      BY <3>1, <3>2, ExecutionIsJustified DEF Planned
  <2>8. CASE CompareAgain
    BY <2>8, NothingPlanned DEF CompareAgain, Forget, NoKey, ClaimsInv, ListsResources, Planned
  <2>9. CASE Environment \/ UNCHANGED vars
    <3>1. UNCHANGED <<set, given, lists, changes, writes, pc>>
      BY <2>9 DEF Environment, Elsewhere, Assign, Drift, Edit, Commit, CreatorCreates,
                  CreatorClaims, CreatorDeletes, CreatorUnclaims, vars, memory, planning, execution
    <3> QED
      BY <3>1, MemoryStaysJustified DEF Planned
  <2>10. CASE OrderStuck \/ PlaceRefused \/ Show \/ RealizeFails \/ WriteStops \/ Report
    BY <1>2, <2>10 DEF OrderStuck, PlaceRefused, Show, RealizeFails, WriteStops, Report
  <2> QED
    BY <2>1, <2>2, <2>3, <2>4, <2>5, <2>6, <2>7, <2>8, <2>9, <2>10 DEF Next, Command
<1> QED
  BY <1>1, <1>2

LEMMA ClaimsInvAlways == Spec => []ClaimsInv
<1>1. Init => ClaimsInv
  BY DEF Init, ClaimsInv, ListsResources, Planned, NoKey, NoClaims
<1>2. ClaimsInv /\ TypeInv /\ OrderInv /\ [Next]_vars => ClaimsInv'
  BY EveryStepIsJustified
<1> QED
  BY <1>1, <1>2, TypeInvAlways, PTL DEF Spec

-------------------------------------------------------------------------------
(***************************************************************************)
(* What a write does.                                                      *)
(***************************************************************************)
LEMMA WritesAreEffects ==
  ASSUME [Next]_vars, CommandWrites
  PROVE  /\ pc = "writing"
         /\ UNCHANGED <<live, claims>> \/ \E w \in writes : Effect(w) /\ Makeable(w)
<1>1. pc = "writing" /\ (pc' # pc \/ writes' # writes)
  BY DEF CommandWrites
<1>2. Write \/ WriteStops
  BY <1>1 DEF Next, Command, Load, CheckGit, ReadNext, Compared, Order, OrderStuck, Ordered,
              Place, PlaceRefused, Placed, Show, Accept, RealizeNext, RealizeFails,
              CompareAgain, Report, Environment, Elsewhere, Assign, Drift, Edit, Commit,
              CreatorCreates, CreatorClaims, CreatorDeletes, CreatorUnclaims, vars, execution
<1>3. NextWrites \subseteq writes
  BY DEF NextWrites
<1>4. CASE Write
  BY <1>1, <1>3, <1>4 DEF Write
<1>5. CASE WriteStops
  BY <1>1, <1>3, <1>5 DEF WriteStops, provider
<1> QED
  BY <1>2, <1>4, <1>5

LEMMA OnlyWholeDeletesDelete ==
  ASSUME NEW w, Effect(w), NEW r \in DOMAIN live \ DOMAIN live'
  PROVE  IsWholeDelete(w) /\ r \in {w.res} \cup w.owned /\ w.res \notin DOMAIN live'
<1>1. IsWholeDelete(w) /\ live' = Without(live, {w.res} \cup w.owned)
  <2>1. CASE IsCreation(w) /\ live' = With(live, w.res, [fields |-> w.fields, children |-> Childless(w.res)])
    BY <2>1, AddedDomain
  <2>2. CASE DOMAIN live' = DOMAIN live
    BY <2>2
  <2> QED
    BY <2>1, <2>2 DEF Effect, provider
<1>2. DOMAIN live' = DOMAIN live \ ({w.res} \cup w.owned)
  BY <1>1, RestrictedDomain DEF Without
<1> QED
  BY <1>1, <1>2

\* Whatever is declared, claimed or live, and however reads fail and others act while
\* it runs, an apply of the account repository deletes no resource it found declared,
\* claimed or unmanaged, and none that a listed resource owns unless that goes with it.
THEOREM AppliesDeleteOnlyUnclaimed == Spec => DeletesOnlyUnclaimed
<1> DEFINE Only_ ==
      CommandWrites /\ Account =>
        \A r \in DOMAIN live \ DOMAIN live' :
          /\ r \notin Declared(set) \cup ClaimedResources \cup given.unmanaged
          /\ OwnerOf[r] \in Listed => OwnerOf[r] \notin DOMAIN live'
<1>1. ClaimsInv /\ [Next]_vars => Only_
  <2> SUFFICES ASSUME ClaimsInv, [Next]_vars, CommandWrites,
                      NEW r \in DOMAIN live \ DOMAIN live'
               PROVE  /\ r \notin Declared(set) \cup ClaimedResources \cup given.unmanaged
                      /\ OwnerOf[r] \in Listed => OwnerOf[r] \notin DOMAIN live'
    OBVIOUS
  <2>1. pc = "writing" /\ \E w \in writes : Effect(w)
    BY WritesAreEffects
  <2>2. PICK w \in writes : Effect(w)
    BY <2>1
  <2>3. DeletesUnclaimed(w)
    BY <2>1 DEF ClaimsInv, Planned, Justified
  <2> QED
    BY <2>2, <2>3, OnlyWholeDeletesDelete DEF DeletesUnclaimed
<1>2. ClaimsInv /\ [Next]_vars => [Only_]_vars
  BY <1>1
<1> QED
  BY <1>2, ClaimsInvAlways, PTL DEF Spec, DeletesOnlyUnclaimed

\* The claims an apply takes out are creators', of resources their type's list, which
\* was read, does not name, whatever happened since it was read.
THEOREM AppliesUnclaimOnlyStale == Spec => UnclaimsOnlyStale
<1> DEFINE Only_ ==
      CommandWrites =>
        \A cl \in claims \ claims' :
          /\ cl.creator # ""
          /\ ListRead(TypeOf[cl.res]) /\ cl.res \notin Listed
<1>1. ClaimsInv /\ [Next]_vars => Only_
  <2> SUFFICES ASSUME ClaimsInv, [Next]_vars, CommandWrites, NEW cl \in claims \ claims'
               PROVE  /\ cl.creator # ""
                      /\ ListRead(TypeOf[cl.res]) /\ cl.res \notin Listed
    OBVIOUS
  <2>1. pc = "writing" /\ \E w \in writes : Effect(w)
    BY WritesAreEffects
  <2>2. PICK w \in writes : Effect(w)
    BY <2>1
  <2>3. ClaimsAreStale(w)
    BY <2>1 DEF ClaimsInv, Planned, Justified
  <2>4. cl \in w.claim
    BY <2>2 DEF Effect
  <2> QED
    BY <2>3, <2>4 DEF ClaimsAreStale
<1>2. ClaimsInv /\ [Next]_vars => [Only_]_vars
  BY <1>1
<1> QED
  BY <1>2, ClaimsInvAlways, PTL DEF Spec, UnclaimsOnlyStale
-------------------------------------------------------------------------------
(***************************************************************************)
(* What is to be left alone.  A child is written by its key, and what is   *)
(* live at that key may have changed since it was read; so whether it may  *)
(* go is to be said of the key.                                            *)
(***************************************************************************)
MayGo(r, col, k) ==
  \A li : ItemKey(col, li) = k =>
    /\ ~LeftAlone(r, col, li)
    /\ \A s \in Covering(r, col, li) : Resolved(s) \/ IsPending(s)
    /\ \A e \in ExpectedChildren(r, col) : ItemKey(col, e.item) # k

\* A created child has the key it is created at, and an update changes no key.
KeepsItsKey(c) ==
  c.col # "" =>
    /\ c.action = "create" => ItemKey(c.col, c.item) = c.key
    /\ c.action = "update" => /\ c.field \notin KeyFields(c.col, c.key)
                              /\ c.field \notin Key[c.col] \cap DOMAIN c.item

Spares(c) ==
  /\ ~IsWholeDelete(c) /\ KeepsItsKey(c)
  /\ c.action = "delete" => c.col # "" /\ MayGo(c.res, c.col, c.key)

\* Nothing is to be looked up in the key a delete has.
RealizesAsItIs(c) == c.action = "delete" => IsItem(c.key) /\ AllLiteral(c.key)

DefersAPendingSlot(c) == IsPending(c.slot) /\ c.slot \in SlotsOn(c.res, c.col)

ChangeSpares(c) ==
  IF IsDeferred(c) THEN DefersAPendingSlot(c) ELSE Spares(c) /\ RealizesAsItIs(c)

RestInv ==
  Planned /\ ~Account =>
    (\A c \in changes : ChangeSpares(c)) /\ (\A w \in writes : Spares(w))

(***************************************************************************)
(* Keys.                                                                   *)
(***************************************************************************)
LEMMA KeyIsPart ==
  ASSUME NEW col, NEW it
  PROVE  /\ DOMAIN ItemKey(col, it) = KeyFields(col, it) \cap DOMAIN it
         /\ \A f \in DOMAIN ItemKey(col, it) : ItemKey(col, it)[f] = it[f]
         /\ KeyFields(col, ItemKey(col, it)) = KeyFields(col, it)
         /\ IsItem(ItemKey(col, it))
<1>1. /\ DOMAIN ItemKey(col, it) = KeyFields(col, it) \cap DOMAIN it
      /\ \A f \in DOMAIN ItemKey(col, it) : ItemKey(col, it)[f] = it[f]
      /\ IsItem(ItemKey(col, it))
  BY DEF ItemKey, Restrict, IsItem
<1>2. KeyFields(col, ItemKey(col, it)) = KeyFields(col, it)
  BY <1>1 DEF KeyFields
<1> QED
  BY <1>1, <1>2

IsKeyOf(col, it, k) ==
  /\ DOMAIN k = KeyFields(col, it) \cap DOMAIN it
  /\ \A f \in DOMAIN k : k[f] = it[f]

LEMMA PartsOfAKey ==
  ASSUME NEW col, NEW it, NEW k, ItemKey(col, it) = k
  PROVE  IsKeyOf(col, it, k)
BY KeyIsPart DEF IsKeyOf

\* What has one key has its key fields in common.
LEMMA SameKeySameFields ==
  ASSUME NEW col, NEW a, NEW b, ItemKey(col, a) = ItemKey(col, b)
  PROVE  /\ KeyFields(col, a) = KeyFields(col, b)
         /\ \A f \in KeyFields(col, a) : /\ f \in DOMAIN a <=> f \in DOMAIN b
                                         /\ f \in DOMAIN a => a[f] = b[f]
<1>1. KeyFields(col, a) = KeyFields(col, b)
  BY KeyIsPart
<1>2. ASSUME NEW f \in KeyFields(col, a)
      PROVE  /\ f \in DOMAIN a <=> f \in DOMAIN b
             /\ f \in DOMAIN a => a[f] = b[f]
  <2> DEFINE k == ItemKey(col, a)
  <2>1. /\ DOMAIN k = KeyFields(col, a) \cap DOMAIN a
        /\ DOMAIN k = KeyFields(col, b) \cap DOMAIN b
        /\ \A g \in DOMAIN k : k[g] = a[g] /\ k[g] = b[g]
    <3>1. ItemKey(col, a) = k /\ ItemKey(col, b) = k
      OBVIOUS
    <3> HIDE DEF k
    <3>2. IsKeyOf(col, a, k) /\ IsKeyOf(col, b, k)
      BY <3>1, PartsOfAKey
    <3> QED
      BY <3>2 DEF IsKeyOf
  <2> HIDE DEF k
  <2> QED
    BY <1>1, <2>1
<1> QED
  BY <1>1, <1>2

LEMMA WhatDiffersIsNoKey ==
  ASSUME NEW col, NEW a, NEW b, ItemKey(col, a) = ItemKey(col, b),
         NEW f, Only(a, f) # Only(b, f)
  PROVE  f \notin KeyFields(col, a)
<1> SUFFICES ASSUME f \in KeyFields(col, a) PROVE FALSE
  OBVIOUS
<1>1. /\ f \in DOMAIN a <=> f \in DOMAIN b
      /\ f \in DOMAIN a => a[f] = b[f]
  BY SameKeySameFields
<1> QED
  BY <1>1 DEF Only, Restrict

\* What matches key fields matches all that is at a key, or none.
LEMMA KeysDecide ==
  ASSUME NEW col, NEW a, NEW b, ItemKey(col, a) = ItemKey(col, b),
         NEW match, DOMAIN match \subseteq Key[col], MatchesAll(a, match)
  PROVE  MatchesAll(b, match)
<1> SUFFICES ASSUME NEW f \in DOMAIN match
             PROVE  f \in DOMAIN b /\ b[f].kind = "literal" /\ b[f].of \in match[f]
  BY DEF MatchesAll
<1>1. f \in DOMAIN a /\ a[f].kind = "literal" /\ a[f].of \in match[f] /\ f \in Key[col]
  BY DEF MatchesAll
<1>2. f \in KeyFields(col, a)
  BY <1>1 DEF KeyFields
<1> QED
  BY <1>1, <1>2, SameKeySameFields

LEMMA KeysHaveKeyFields ==
  ASSUME NEW col, NEW it
  PROVE  KeyFields(col, ItemKey(col, it)) = KeyFields(col, it)
BY KeyIsPart

LEMMA UpdatesKeepKeys ==
  ASSUME NEW col, NEW li, NEW item, NEW field,
         field \notin KeyFields(col, ItemKey(col, li)), field \notin Key[col] \cap DOMAIN item
  PROVE  ItemKey(col, [f \in (DOMAIN li \ {field}) \cup (DOMAIN item \cap {field}) |->
                         IF f = field THEN item[f] ELSE li[f]]) = ItemKey(col, li)
<1> DEFINE new == [f \in (DOMAIN li \ {field}) \cup (DOMAIN item \cap {field}) |->
                     IF f = field THEN item[f] ELSE li[f]]
<1>1. field \notin KeyFields(col, li)
  BY KeyIsPart
<1>2. /\ \A f : f # field => (f \in DOMAIN new <=> f \in DOMAIN li)
      /\ \A f \in DOMAIN new : f # field => new[f] = li[f]
      /\ field \in DOMAIN new => field \in DOMAIN item
  OBVIOUS
<1> HIDE DEF new
<1>3. KeyFields(col, new) = KeyFields(col, li)
  <2>1. CASE FallbackKey[col] = {} \/ Key[col] \cap DOMAIN li # {}
    BY <1>1, <1>2, <2>1 DEF KeyFields
  <2>2. CASE ~(FallbackKey[col] = {} \/ Key[col] \cap DOMAIN li # {})
    <3>1. Key[col] \cap DOMAIN new = {}
      BY <1>2, <2>2
    <3> QED
      BY <2>2, <3>1 DEF KeyFields
  <2> QED
    BY <2>1, <2>2
<1>4. KeyFields(col, new) \cap DOMAIN new = KeyFields(col, li) \cap DOMAIN li
  BY <1>1, <1>2, <1>3
<1>5. ItemKey(col, new) = ItemKey(col, li)
  BY <1>1, <1>2, <1>3, <1>4 DEF ItemKey, Restrict
<1> QED
  BY <1>5 DEF new

(***************************************************************************)
(* What may go: a child a pending slot covers and no longer derives, and   *)
(* a child the comparison found unexpected.                                *)
(***************************************************************************)
LEMMA OneSlotCovers ==
  ASSUME LoadChecked(set), NEW r, NEW col, NEW s \in SlotsOn(r, col), NEW t \in SlotsOn(r, col),
         NEW li, MatchesAll(li, s.match), MatchesAll(li, t.match)
  PROVE  s = t
<1>1. s \in set.slots /\ t \in set.slots /\ s.target = t.target /\ s.col = t.col
      /\ ~IsFieldSlot(s) /\ ~IsFieldSlot(t)
  BY DEF SlotsOn, SlotsOf
<1>2. Overlap(s, t)
  BY <1>1 DEF Overlap, MatchesAll
<1> QED
  BY <1>1, <1>2 DEF LoadChecked

LEMMA CoveredIsNotLeftAlone ==
  ASSUME LoadChecked(set), NEW r, NEW col, NEW s \in SlotsOn(r, col),
         NEW li, MatchesAll(li, s.match)
  PROVE  ~LeftAlone(r, col, li)
<1>1. s \in set.slots /\ s.target = r /\ s.col = col /\ ~IsFieldSlot(s)
  BY DEF SlotsOn, SlotsOf
<1>2. \A u \in set.resources[r].unmanaged :
        u.col = col => \E f \in DOMAIN u.match \cap DOMAIN s.match : u.match[f] \cap s.match[f] = {}
  BY <1>1 DEF LoadChecked
<1> QED
  BY <1>2 DEF LeftAlone, MatchesAll

LEMMA WhatASlotCoversMayGo ==
  ASSUME set \in Sets, WhatSlotsMatchIsWritten, NEW r, NEW col, NEW s \in SlotsOn(r, col), IsPending(s),
         NEW l, MatchesAll(l, s.match)
  PROVE  MayGo(r, col, ItemKey(col, l))
<1>1. /\ LoadChecked(set)
      /\ s \in set.slots /\ s.target = r /\ s.col = col /\ ~IsFieldSlot(s)
  BY SetsAreLoaded DEF SlotsOn, SlotsOf
<1>2. DOMAIN s.match \subseteq Key[col] /\ col \in CollectionsOf(r)
  BY <1>1 DEF LoadChecked
<1> SUFFICES ASSUME NEW li, ItemKey(col, li) = ItemKey(col, l)
             PROVE  /\ ~LeftAlone(r, col, li)
                    /\ \A t \in Covering(r, col, li) : Resolved(t) \/ IsPending(t)
                    /\ \A e \in ExpectedChildren(r, col) : ItemKey(col, e.item) # ItemKey(col, l)
  BY DEF MayGo
<1>3. MatchesAll(li, s.match)
  BY <1>2, KeysDecide
<1>4. ~LeftAlone(r, col, li)
  BY <1>1, <1>3, CoveredIsNotLeftAlone
<1>5. \A t \in Covering(r, col, li) : Resolved(t) \/ IsPending(t)
  BY <1>1, <1>3, OneSlotCovers DEF Covering
<1>6. ASSUME NEW e \in ExpectedChildren(r, col), ItemKey(col, e.item) = ItemKey(col, l) PROVE FALSE
  <2>1. MatchesAll(e.item, s.match)
    BY <1>2, <1>6, KeysDecide
  <2>2. CASE \E given_ \in set.resources[r].children[col] : e = [item |-> ResolveItem(given_), declared |-> given_, source |-> r]
    <3>1. PICK given_ \in set.resources[r].children[col] : e.item = ResolveItem(given_)
      BY <2>2
    <3>2. ~MatchesAll(given_, s.match)
      BY <1>1, <3>1 DEF LoadChecked
    <3>3. \A f \in DOMAIN s.match : f \in DOMAIN given_ /\ e.item[f] = Resolve(given_[f])
      BY <2>1, <3>1 DEF ResolveItem, MatchesAll
    <3>4. \A f \in DOMAIN s.match : given_[f].kind = "literal"
      BY <1>1, <3>1, <3>3 DEF WhatSlotsMatchIsWritten
    <3>5. \A f \in DOMAIN s.match : e.item[f] = given_[f]
      BY <3>3, <3>4 DEF Resolve
    <3> QED
      BY <2>1, <3>2, <3>3, <3>5 DEF MatchesAll
  <2>3. CASE \E t \in SlotsOn(r, col) : Resolved(t) /\ e.item \in t.gives
    <3>1. PICK t \in SlotsOn(r, col) : Resolved(t) /\ e.item \in t.gives
      BY <2>3
    <3>2. MatchesAll(e.item, t.match)
      BY <1>1, <3>1 DEF LoadChecked, SlotsOn, SlotsOf
    <3>3. s = t
      BY <1>1, <2>1, <3>1, <3>2, OneSlotCovers
    <3> QED
      BY <3>1, <3>3 DEF IsPending, Unresolved, Resolved
  <2>4. \/ \E given_ \in set.resources[r].children[col] : e = [item |-> ResolveItem(given_), declared |-> given_, source |-> r]
        \/ \E t \in SlotsOn(r, col) : Resolved(t) /\ e.item \in t.gives
    <3>1. \/ \E given_ \in set.resources[r].children[col] : e = [item |-> ResolveItem(given_), declared |-> given_, source |-> r]
          \/ \E t \in SlotsOn(r, col) : Resolved(t) /\ \E it \in t.gives : e = [item |-> it, declared |-> it, source |-> t.source]
      BY Zenon DEF ExpectedChildren
    <3> QED
      BY <3>1
  <2> QED
    BY <2>2, <2>3, <2>4
<1> QED
  BY <1>4, <1>5, <1>6

LEMMA WhatIsUnexpectedMayGo ==
  ASSUME EverythingRead, UnmanagedMatchesKeys, NEW r \in Declared(set), NEW col \in CollectionsOf(r),
         NEW l \in Unmatched(r, col), Unexpected(r, col, l)
  PROVE  AllLiteral(ItemKey(col, l)) /\ MayGo(r, col, ItemKey(col, l))
<1> DEFINE k == ItemKey(col, l)
<1>0. LoadChecked(set) /\ set \in Sets
  BY SetsAreLoaded DEF EverythingRead
<1>1. l \in LiveChildren(r, col) /\ \A e \in Matched(r, col) : l \notin LiveAt(r, col, e.item)
  BY DEF Unmatched
<1>2. AllLiteral(l)
  BY <1>1, ReadWhatIsAsked DEF LiveChildren, EverythingRead, MemoryInv, HoldsData, IsData
<1>3. AllLiteral(k)
  <2>1. DOMAIN k \subseteq DOMAIN l /\ \A f \in DOMAIN k : k[f] = l[f]
    BY KeyIsPart
  <2> HIDE DEF k
  <2> QED
    BY <1>2, <2>1 DEF AllLiteral
<1>4. ASSUME NEW e \in ExpectedChildren(r, col), ItemKey(col, e.item) = k PROVE FALSE
  <2> DEFINE it == e.item
  <2>3. ItemKey(col, it) = k
    BY <1>4
  <2> HIDE DEF k, it
  <2>4. /\ DOMAIN k = KeyFields(col, it) \cap DOMAIN it
        /\ \A f \in DOMAIN k : k[f] = it[f]
    <3>1. IsKeyOf(col, it, k)
      BY <2>3, PartsOfAKey
    <3> QED
      BY <3>1 DEF IsKeyOf
  <2>5. ~KeyUnresolved(col, it)
    BY <1>3, <2>3, <2>4 DEF KeyUnresolved, IsUnresolved, AllLiteral
  <2>1. ~KeyUnresolved(col, e.item)
    BY <2>5 DEF it
  <2>2. l \in LiveAt(r, col, e.item)
    BY <1>1, <2>1, <2>3 DEF LiveAt, k, it
  <2> QED
    BY <1>1, <1>4, <2>2 DEF Matched
<1>5. \A s \in SlotsOn(r, col) : DOMAIN s.match \subseteq Key[col]
  BY <1>0 DEF LoadChecked, SlotsOn, SlotsOf
<1>6. ASSUME NEW li, ItemKey(col, li) = k
      PROVE  /\ ~LeftAlone(r, col, li)
             /\ \A s \in Covering(r, col, li) : Resolved(s)
  <2>1. Covering(r, col, li) = Covering(r, col, l)
    BY <1>5, <1>6, KeysDecide DEF Covering
  <2>2. LeftAlone(r, col, li) => LeftAlone(r, col, l)
    <3>1. \A u \in set.resources[r].unmanaged : u.col = col => DOMAIN u.match \subseteq Key[col]
      BY <1>0 DEF UnmanagedMatchesKeys
    <3> QED
      BY <1>6, <3>1, KeysDecide DEF LeftAlone
  <2>3. Covering(r, col, l) # {} => ~LeftAlone(r, col, l)
    BY <1>0, CoveredIsNotLeftAlone DEF Covering
  <2> QED
    BY <2>1, <2>2, <2>3 DEF Unexpected
<1> HIDE DEF k
<1>7. MayGo(r, col, k)
  BY <1>4, <1>6 DEF MayGo
<1> QED
  BY <1>3, <1>7 DEF k
-------------------------------------------------------------------------------
(***************************************************************************)
(* What a plan changes is spared.                                          *)
(***************************************************************************)
SparesChild(d) ==
  d.col # "" /\ d.key # NoKey =>
    /\ d.status = "missing" => ItemKey(d.col, ItemFor(d)) = d.key
    /\ d.status = "changed" => /\ d.field \notin KeyFields(d.col, d.key)
                               /\ d.field \notin Key[d.col] \cap DOMAIN ItemFor(d)
    /\ d.status = "unexpected" => IsItem(d.key) /\ AllLiteral(d.key) /\ MayGo(d.res, d.col, d.key)

LEMMA ItemsForAKey ==
  ASSUME NEW d, d.status # "unexpected"
  PROVE  /\ ItemFor(d) = NoKey \/ ItemKey(d.col, ItemFor(d)) = d.key
         /\ \A it \in ResolvedChildren(d.res, d.col) :
              ItemKey(d.col, it) = d.key => ItemKey(d.col, ItemFor(d)) = d.key
<1> DEFINE at_ == {it \in ResolvedChildren(d.res, d.col) : ItemKey(d.col, it) = d.key}
<1>1. ItemFor(d) = IF at_ = {} THEN NoKey ELSE CHOOSE it \in at_ : TRUE
  BY DEF ItemFor
<1>2. at_ # {} => (CHOOSE it \in at_ : TRUE) \in at_
  OBVIOUS
<1>3. \A x \in at_ : ItemKey(d.col, x) = d.key
  OBVIOUS
<1>4. \A it \in ResolvedChildren(d.res, d.col) : ItemKey(d.col, it) = d.key => it \in at_
  OBVIOUS
<1> HIDE DEF at_
<1> QED
  BY <1>1, <1>2, <1>3, <1>4

LEMMA FieldsOfAKeyStay ==
  ASSUME NEW col, NEW key, NEW field, NEW it, it = NoKey \/ ItemKey(col, it) = key,
         field \notin KeyFields(col, key)
  PROVE  field \notin Key[col] \cap DOMAIN it
<1>1. CASE it = NoKey
  BY <1>1 DEF NoKey
<1>2. CASE ItemKey(col, it) = key
  <2>1. KeyFields(col, key) = KeyFields(col, it)
    BY <1>2, KeyIsPart
  <2> QED
    BY <2>1 DEF KeyFields
<1> QED
  BY <1>1, <1>2

LEMMA ChangedFieldsDiffer ==
  ASSUME NEW compared, NEW was, NEW is, NEW fs \in FieldStatuses(compared, was, is)
  PROVE  \/ (fs.field \in DOMAIN was /\ IsUnresolved(was[fs.field]) /\ fs.status = "unresolved")
         \/ ~(fs.field \in DOMAIN was <=> fs.field \in DOMAIN is)
         \/ (fs.field \in DOMAIN was /\ was[fs.field] # is[fs.field])
<1> DEFINE waits(f) == f \in DOMAIN was /\ IsUnresolved(was[f])
           differs(f) == \/ (f \in DOMAIN was) # (f \in DOMAIN is)
                         \/ f \in DOMAIN was /\ was[f] # is[f]
           status(f) == IF waits(f) THEN "unresolved" ELSE "changed"
<1>1. PICK f \in {g \in compared : waits(g) \/ differs(g)} :
        fs = [field |-> f, status |-> status(f)]
  BY Zenon DEF FieldStatuses
<1>2. fs.field = f /\ fs.status = status(f)
  BY <1>1
<1> QED
  BY <1>1, <1>2

\* A child that is not live.
LEMMA MissingChildrenSpare ==
  ASSUME NEW r, NEW col, NEW e \in ExpectedChildren(r, col), NEW status \in {"missing", "unresolved"}
  PROVE  SparesChild(MissingChild(r, col, e, status))
<1> DEFINE d == MissingChild(r, col, e, status)
           item == e.item
<1>1. /\ d.status = (IF HasUnresolved(item) THEN "unresolved" ELSE status)
      /\ d.res = r /\ d.col = col /\ d.key = ItemKey(col, item)
  BY DEF MissingChild, Difference
<1>2. ~HasUnresolved(item) => item \in ResolvedChildren(r, col)
  BY DEF ResolvedChildren
<1> HIDE DEF d, item
<1>3. d.status \in {"missing", "unresolved"} /\ (d.status = "missing" => ~HasUnresolved(item))
  BY <1>1
<1>4. d.status = "missing" => ItemKey(d.col, ItemFor(d)) = d.key
  BY <1>1, <1>2, <1>3, ItemsForAKey
<1>5. SparesChild(d)
  BY <1>3, <1>4 DEF SparesChild
<1> QED
  BY <1>5 DEF d

\* A field of a child that is live.
LEMMA ChildFieldsSpare ==
  ASSUME NEW r, NEW col, NEW e \in Matched(r, col), NEW d \in ChildFieldDifferences(r, col, e)
  PROVE  SparesChild(d)
<1> DEFINE item == e.item
           li   == CHOOSE l \in LiveAt(r, col, e.item) : TRUE
<1>1. li \in LiveAt(r, col, e.item)
  BY DEF Matched
<1>2. ItemKey(col, li) = ItemKey(col, item)
  BY <1>1 DEF LiveAt
<1>3. PICK fs, was, is, source :
        /\ fs \in FieldStatuses(ItemFields[col], item, li)
        /\ d = Difference(fs.status, r, col, ItemKey(col, item), fs.field, was, is, source)
  BY ZenonT(60) DEF ChildFieldDifferences
<1> HIDE DEF item, li
<1>4. /\ d.status = fs.status /\ d.res = r /\ d.col = col
      /\ d.key = ItemKey(col, item) /\ d.field = fs.field
  BY <1>3 DEF Difference
<1>5. fs.status \in {"unresolved", "changed"}
  BY <1>3, FieldsDifferForAReason
<1>6. KeyFields(col, d.key) = KeyFields(col, item)
  BY <1>4, KeysHaveKeyFields
<1>7. fs.status = "changed" => fs.field \notin KeyFields(col, item)
  BY <1>2, <1>3, ChangedFieldsDiffer, SameKeySameFields
<1>8. fs.status = "changed" => d.field \notin Key[d.col] \cap DOMAIN ItemFor(d)
  BY <1>4, <1>6, <1>7, ItemsForAKey, FieldsOfAKeyStay
<1> QED
  BY <1>4, <1>5, <1>6, <1>7, <1>8 DEF SparesChild

LEMMA UnexpectedChildrenSpare ==
  ASSUME EverythingRead, UnmanagedMatchesKeys, NEW r \in Declared(set), NEW col \in CollectionsOf(r),
         NEW l \in Unmatched(r, col), Unexpected(r, col, l)
  PROVE  SparesChild(UnexpectedChild(r, col, l))
<1> DEFINE d == UnexpectedChild(r, col, l)
<1>1. d.status = "unexpected" /\ d.res = r /\ d.col = col /\ d.key = ItemKey(col, l)
  BY DEF UnexpectedChild, Difference
<1>2. AllLiteral(ItemKey(col, l)) /\ MayGo(r, col, ItemKey(col, l)) /\ IsItem(ItemKey(col, l))
  BY WhatIsUnexpectedMayGo, KeyIsPart
<1> HIDE DEF d
<1>3. SparesChild(d)
  BY <1>1, <1>2 DEF SparesChild
<1> QED
  BY <1>3 DEF d

LEMMA DifferencesSpare ==
  ASSUME EverythingRead, UnmanagedMatchesKeys, NEW r \in Declared(set), NEW d \in ResourceDifferences(r)
  PROVE  SparesChild(d)
<1>1. ASSUME NEW status, NEW field, NEW was, NEW is, NEW source, NEW col,
             d = Difference(status, r, col, NoKey, field, was, is, source)
      PROVE  SparesChild(d)
  BY <1>1 DEF SparesChild, Difference
<1>2. CASE d \in SlotDifferences(r)
  BY <1>1, <1>2, Zenon DEF SlotDifferences
<1>3. CASE d \in ResourceFieldDifferences(r)
  BY <1>1, <1>3, Zenon DEF ResourceFieldDifferences
<1>4. CASE d \in MissingDifferences(r)
  <2> DEFINE expected == ExpectedFields(r)
             status == IF HasUnresolved(expected) THEN "unresolved" ELSE "missing"
             children == UNION {{col} \X ExpectedChildren(r, col) : col \in CollectionsOf(r)}
  <2>1. CASE d = Difference(status, r, "", NoKey, "", expected, NoKey, r)
    BY <1>1, <2>1
  <2>2. CASE \E p \in children : d = MissingChild(r, p[1], p[2], status)
    <3>1. PICK p \in children : d = MissingChild(r, p[1], p[2], status)
      BY <2>2
    <3>2. p[2] \in ExpectedChildren(r, p[1])
      OBVIOUS
    <3>3. status \in {"missing", "unresolved"}
      OBVIOUS
    <3> HIDE DEF status, children
    <3>4. PICK col, e : col = p[1] /\ e = p[2]
      OBVIOUS
    <3>5. e \in ExpectedChildren(r, col) /\ d = MissingChild(r, col, e, status)
      BY <3>1, <3>2, <3>4
    <3> QED
      BY <3>3, <3>5, MissingChildrenSpare
  <2> QED
    BY Zenon, <1>4, <2>1, <2>2 DEF MissingDifferences
<1>5. ASSUME NEW col \in CollectionsOf(r), d \in CollectionDifferences(r, col)
      PROVE  SparesChild(d)
  <2>1. CASE \E e \in Matched(r, col) : d \in ChildFieldDifferences(r, col, e)
    BY <2>1, ChildFieldsSpare
  <2>2. CASE \E e \in ExpectedChildren(r, col) : d = MissingChild(r, col, e, "missing")
    BY <2>2, MissingChildrenSpare
  <2>3. CASE \E l \in Unmatched(r, col) : Unexpected(r, col, l) /\ d = UnexpectedChild(r, col, l)
    BY <2>3, UnexpectedChildrenSpare
  <2> QED
    BY Zenon, <1>5, <2>1, <2>2, <2>3 DEF CollectionDifferences
<1> QED
  BY Zenon, <1>2, <1>3, <1>4, <1>5 DEF ResourceDifferences

LEMMA ChangesSpare ==
  ASSUME EverythingRead, UnmanagedMatchesKeys, ~Account, NEW c \in ChangesFor(Differences)
  PROVE  ChangeSpares(c)
<1>0. Declared(set) \subseteq Resources /\ LoadChecked(set)
  BY SetsAreLoaded DEF EverythingRead
<1>1. ASSUME NEW s \in set.slots, ~IsFieldSlot(s), IsPending(s),
             c = [OfDeclared(Change("create", s.target, s.col, NoKey, ""))
                    EXCEPT !.slot = s, !.after = After(s),
                           !.covered = {li \in LiveChildren(s.target, s.col) : MatchesAll(li, s.match)}]
      PROVE  ChangeSpares(c)
  <2>1. c.slot = s /\ c.res = s.target /\ c.col = s.col
    BY <1>1 DEF OfDeclared, Change
  <2>2. s # NoSlot
    BY <1>1, SetsHoldValues DEF EverythingRead
  <2> QED
    BY <1>1, <2>1, <2>2 DEF ChangeSpares, IsDeferred, DefersAPendingSlot, SlotsOn, SlotsOf
<1>2. ASSUME NEW d \in Differences, d.status \in {"missing", "changed", "unexpected"},
             ~IsSlotDifference(d), c = ChangeFor(d)
      PROVE  ChangeSpares(c)
  <2>1. PICK r \in Declared(set) : d \in ResourceDifferences(r)
    BY <1>2, ClaimDifferencesChangeNothing DEF Differences
  <2>2. SparesChild(d) /\ KeepsTheResource(d)
    BY <1>0, <2>1, DifferencesSpare, ResourceDifferencesKeep
  <2>3. /\ c.res = d.res /\ c.col = d.col /\ c.key = d.key /\ c.field = d.field
        /\ c.action = ActionOf(d.status) /\ c.slot = NoSlot
        /\ d.col # "" => c.item = ItemFor(d)
    BY <1>2 DEF ChangeFor, OfDeclared, Change
  <2>4. d.col # "" => d.key # NoKey
    BY <1>2 DEF IsSlotDifference
  <2>5. ~IsWholeDelete(c) /\ KeepsItsKey(c)
    BY <1>2, <2>2, <2>3, <2>4 DEF SparesChild, KeepsTheResource, KeepsItsKey, IsWholeDelete, ActionOf
  <2>6. c.action = "delete" => d.status = "unexpected" /\ d.col # ""
    BY <1>2, <2>2, <2>3 DEF ActionOf, KeepsTheResource
  <2> QED
    BY <2>2, <2>3, <2>4, <2>5, <2>6 DEF ChangeSpares, IsDeferred, Spares, SparesChild, RealizesAsItIs
<1>3. ASSUME NEW d \in Differences, d.status = "unclaimed" PROVE FALSE
  <2>1. ASSUME NEW r \in Declared(set), d \in ResourceDifferences(r) PROVE FALSE
    BY <1>0, <1>3, <2>1, ResourceDifferencesKeep DEF KeepsTheResource
  <2>2. d \in ClaimDifferences
    BY <2>1 DEF Differences
  <2>3. PICK q, source : d = Difference("misclaimed", q, "", NoKey, "", NoKey, NoKey, source)
    BY Zenon, <2>2 DEF ClaimDifferences
  <2>4. d.status = "misclaimed"
    BY <2>3 DEF Difference
  <2> QED
    BY <1>3, <2>4
<1> QED
  BY <1>1, <1>2, <1>3 DEF ChangesFor, DeferredChanges

(***************************************************************************)
(* And what it writes.                                                     *)
(***************************************************************************)
\* Fields that all have run are all realized, and so is their key.
LEMMA AllRealized ==
  ASSUME NEW fields, \A f \in DOMAIN fields : HasRun(fields[f])
  PROVE  /\ DOMAIN RealizeAll(fields) = DOMAIN fields
         /\ \A f \in DOMAIN fields : RealizeAll(fields)[f] = Realize(fields[f])
         /\ \A col : KeyFields(col, RealizeAll(fields)) = KeyFields(col, fields)
         /\ \A col : ItemKey(col, RealizeAll(fields)) = RealizeAll(ItemKey(col, fields))
<1>1. /\ DOMAIN RealizeAll(fields) = DOMAIN fields
      /\ \A f \in DOMAIN fields : RealizeAll(fields)[f] = Realize(fields[f])
  BY DEF RealizeAll
<1>2. \A col : KeyFields(col, RealizeAll(fields)) = KeyFields(col, fields)
  BY <1>1 DEF KeyFields
<1>3. ASSUME NEW col PROVE ItemKey(col, RealizeAll(fields)) = RealizeAll(ItemKey(col, fields))
  <2> DEFINE here == KeyFields(col, fields) \cap DOMAIN fields
             k    == ItemKey(col, fields)
  <2>1. k = [f \in here |-> fields[f]]
    BY DEF ItemKey, Restrict
  <2>2. ItemKey(col, RealizeAll(fields)) = [f \in here |-> RealizeAll(fields)[f]]
    BY <1>1, <1>2 DEF ItemKey, Restrict
  <2> HIDE DEF k
  <2>3. DOMAIN k = here /\ \A f \in here : k[f] = fields[f] /\ HasRun(k[f])
    BY <2>1
  <2>4. RealizeAll(k) = [f \in here |-> Realize(fields[f])]
    BY <2>3 DEF RealizeAll
  <2>5. [f \in here |-> RealizeAll(fields)[f]] = [f \in here |-> Realize(fields[f])]
    BY <1>1
  <2> QED
    BY <2>2, <2>4, <2>5 DEF k
<1> QED
  BY <1>1, <1>2, <1>3

LEMMA RealizedSpares ==
  ASSUME NEW c, OfDeclaredResource(c), Spares(c), RealizesAsItIs(c), ~WritesTooEarly(c)
  PROVE  Spares(Realized(c))
<1> DEFINE w == Realized(c)
<1>1. /\ w.action = c.action /\ w.res = c.res /\ w.col = c.col /\ w.field = c.field
      /\ w.key = RealizeAll(c.key) /\ w.item = RealizeAll(c.item)
  BY DEF Realized, OfDeclaredResource, ChangeShape
<1> HIDE DEF w
<1>2. /\ \A f \in DOMAIN c.key : HasRun(c.key[f])
      /\ \A f \in DOMAIN c.item : HasRun(c.item[f])
  BY DEF WritesTooEarly, Range
<1>3. KeepsItsKey(w)
  <2> DEFINE key  == c.key
             item == c.item
  <2>1. /\ \A f \in DOMAIN key : HasRun(key[f])
        /\ \A f \in DOMAIN item : HasRun(item[f])
    BY <1>2
  <2>2. c.col # "" => /\ c.action = "create" => ItemKey(c.col, item) = key
                      /\ c.action = "update" => /\ c.field \notin KeyFields(c.col, key)
                                                /\ c.field \notin Key[c.col] \cap DOMAIN item
    BY DEF Spares, KeepsItsKey
  <2>3. w.key = RealizeAll(key) /\ w.item = RealizeAll(item)
    BY <1>1
  <2> HIDE DEF key, item
  <2>4. \A col : ItemKey(col, w.item) = RealizeAll(ItemKey(col, item))
    BY AllRealized, <2>1, <2>3
  <2>5. DOMAIN w.item = DOMAIN item /\ \A col : KeyFields(col, w.key) = KeyFields(col, key)
    BY AllRealized, <2>1, <2>3
  <2> QED
    BY <1>1, <2>2, <2>3, <2>4, <2>5 DEF KeepsItsKey
<1>4. c.action = "delete" => w.key = c.key
  BY <1>1 DEF RealizesAsItIs, RealizeAll, Realize, HasRun, AllLiteral, IsItem
<1>5. Spares(w)
  BY <1>1, <1>3, <1>4 DEF Spares, IsWholeDelete
<1> QED
  BY <1>5 DEF w

LEMMA ExpansionSpares ==
  ASSUME set \in Sets, WhatSlotsMatchIsWritten, NEW c, c.col # "", DefersAPendingSlot(c),
         NEW w \in Expansion(c)
  PROVE  Spares(w)
<1>1. ASSUME NEW action, NEW field, NEW it, w = ChildWrite(c, action, field, it)
      PROVE  /\ w.action = action /\ w.res = c.res /\ w.col = c.col /\ w.field = field
             /\ w.key = ItemKey(c.col, it) /\ w.item = it
  BY <1>1 DEF ChildWrite, Change
<1>2. CASE w \in ExpandedCreates(c)
  <2>1. PICK it : w = ChildWrite(c, "create", "", it)
    BY <1>2, Zenon DEF ExpandedCreates
  <2>2. w.action = "create" /\ w.key = ItemKey(w.col, w.item)
    BY <1>1, <2>1
  <2> QED
    BY <2>2 DEF Spares, KeepsItsKey, IsWholeDelete
<1>3. CASE w \in ExpandedUpdates(c)
  <2>1. PICK it : \E f \in ChangedNow(c, it) : w = ChildWrite(c, "update", f, it)
    <3> DEFINE updates(i) == {ChildWrite(c, "update", f, i) : f \in ChangedNow(c, i)}
    <3>1. PICK it \in c.slot.gives : w \in updates(it)
      BY <1>3, Zenon DEF ExpandedUpdates
    <3> QED
      BY <3>1
  <2>8. PICK f \in ChangedNow(c, it) : w = ChildWrite(c, "update", f, it)
    BY <2>1
  <2>2. PICK li \in TwinsNow(c, it) : Only(it, f) # Only(li, f)
    BY DEF ChangedNow
  <2>3. ItemKey(c.col, it) = ItemKey(c.col, li)
    BY DEF TwinsNow, SameKey
  <2>4. f \notin KeyFields(c.col, it)
    <3> DEFINE col == c.col
    <3>1. ItemKey(col, it) = ItemKey(col, li)
      BY <2>3
    <3> HIDE DEF col
    <3>2. f \notin KeyFields(col, it)
      BY <2>2, <3>1, WhatDiffersIsNoKey
    <3> QED
      BY <3>2 DEF col
  <2>5. KeyFields(c.col, ItemKey(c.col, it)) = KeyFields(c.col, it)
    BY KeyIsPart
  <2>6. f \notin Key[c.col] \cap DOMAIN it
    BY <2>4 DEF KeyFields
  <2>7. w.action = "update" /\ w.col = c.col /\ w.field = f /\ w.key = ItemKey(c.col, it) /\ w.item = it
    BY <1>1, <2>8
  <2> QED
    BY <2>4, <2>5, <2>6, <2>7 DEF Spares, KeepsItsKey, IsWholeDelete
<1>4. CASE w \in ExpandedDeletes(c)
  <2>1. PICK l \in CoveredNow(c) : w = ChildWrite(c, "delete", "", l)
    BY <1>4, Zenon DEF ExpandedDeletes
  <2>2. /\ w.action = "delete" /\ w.res = c.res /\ w.col = c.col /\ w.key = ItemKey(c.col, l)
    BY <1>1, <2>1
  <2>3. MatchesAll(l, c.slot.match)
    BY DEF CoveredNow
  <2>4. MayGo(c.res, c.col, ItemKey(c.col, l))
    <3> DEFINE s == c.slot
               r == c.res
               col == c.col
    <3>1. s \in SlotsOn(r, col) /\ IsPending(s) /\ MatchesAll(l, s.match)
      BY <2>3 DEF DefersAPendingSlot
    <3> HIDE DEF s, r, col
    <3>2. MayGo(r, col, ItemKey(col, l))
      BY <3>1, WhatASlotCoversMayGo
    <3> QED
      BY <3>2 DEF r, col
  <2> QED
    BY <2>2, <2>4 DEF Spares, KeepsItsKey, IsWholeDelete
<1> QED
  BY <1>2, <1>3, <1>4 DEF Expansion
-------------------------------------------------------------------------------
(***************************************************************************)
(* What a write does to the children of a resource.                        *)
(***************************************************************************)
KeepsTheRest ==
  \A r \in DOMAIN live :
    /\ r \in DOMAIN live'
    /\ \A col \in CollectionsOf(r) : \A li \in live[r].children[col] :
         \/ \E new \in live'[r].children[col] : ItemKey(col, new) = ItemKey(col, li)
         \/ MayGo(r, col, ItemKey(col, li))

LEMMA SameChildrenKeepTheRest ==
  ASSUME \A r \in DOMAIN live : r \in DOMAIN live' /\ live'[r].children = live[r].children
  PROVE  KeepsTheRest
BY DEF KeepsTheRest

LEMMA OthersStay ==
  ASSUME ProviderInv, NEW r, NEW col, NEW k, NEW new, ChildrenBecome(r, col, k, new),
         r \in DOMAIN live /\ col \in CollectionsOf(r) =>
           \A li \in live[r].children[col] :
             ItemKey(col, li) = k => (\E x \in new : ItemKey(col, x) = k) \/ MayGo(r, col, k)
  PROVE  KeepsTheRest
<1> SUFFICES ASSUME NEW q \in DOMAIN live
             PROVE  /\ q \in DOMAIN live'
                    /\ \A c \in CollectionsOf(q) : \A li \in live[q].children[c] :
                         \/ \E x \in live'[q].children[c] : ItemKey(c, x) = ItemKey(c, li)
                         \/ MayGo(q, c, ItemKey(c, li))
  BY DEF KeepsTheRest
<1>1. DOMAIN live[q] = {"fields", "children"} /\ DOMAIN live[q].children = CollectionsOf(q)
  BY DEF ProviderInv, HoldsData, IsData
<1> DEFINE now == WithChild(live[r].children, col, k, new)
<1>2. DOMAIN live' = DOMAIN live /\ live'[q].children = IF q = r THEN now ELSE live[q].children
  BY <1>1 DEF ChildrenBecome
<1>3. ASSUME NEW c \in CollectionsOf(q), NEW li \in live[q].children[c]
      PROVE  \/ \E x \in live'[q].children[c] : ItemKey(c, x) = ItemKey(c, li)
             \/ MayGo(q, c, ItemKey(c, li))
  <2>1. CASE q # r
    BY <1>2, <1>3, <2>1
  <2>2. CASE q = r /\ c # col
    <3>1. now[c] = live[q].children[c]
      BY <1>1, <2>2 DEF WithChild
    <3> QED
      BY <1>2, <1>3, <2>2, <3>1
  <2>3. CASE q = r /\ c = col
    <3>1. now[c] = {l \in live[q].children[c] : ItemKey(c, l) # k} \cup new
      BY <1>1, <2>3 DEF WithChild
    <3> HIDE DEF now
    <3>2. CASE ItemKey(c, li) # k
      BY <1>2, <1>3, <2>3, <3>1, <3>2
    <3>3. CASE ItemKey(c, li) = k
      <4>1. (\E x \in new : ItemKey(c, x) = k) \/ MayGo(q, c, k)
        BY <2>3, <3>3
      <4> QED
        BY <1>2, <2>3, <3>1, <3>3, <4>1
    <3> QED
      BY <3>2, <3>3
  <2> QED
    BY <2>1, <2>2, <2>3
<1> QED
  BY <1>2, <1>3

LEMMA EffectsSpare ==
  ASSUME ProviderInv, NEW w, Effect(w), Makeable(w), Spares(w)
  PROVE  KeepsTheRest
<1>1. CASE IsCreation(w) /\ live' = With(live, w.res, [fields |-> w.fields, children |-> Childless(w.res)])
  <2>1. w.res \notin DOMAIN live
    BY <1>1 DEF Makeable, IsCreation
  <2>2. \A r \in DOMAIN live : r \in DOMAIN live' /\ live'[r] = live[r]
    BY <1>1, <2>1 DEF With
  <2> QED
    BY <2>2, SameChildrenKeepTheRest
<1>2. CASE live' = live
  BY <1>2, SameChildrenKeepTheRest
<1>3. CASE \E fields : live' = [live EXCEPT ![w.res] = [live[w.res] EXCEPT !.fields = fields]]
  <2>1. PICK fields : live' = [live EXCEPT ![w.res] = [live[w.res] EXCEPT !.fields = fields]]
    BY <1>3
  <2>2. \A r \in DOMAIN live : DOMAIN live[r] = {"fields", "children"}
    BY DEF ProviderInv, HoldsData, IsData
  <2>3. \A r \in DOMAIN live : r \in DOMAIN live' /\ live'[r].children = live[r].children
    BY <2>1, <2>2
  <2> QED
    BY <2>3, SameChildrenKeepTheRest
<1>4. CASE w.action = "delete" /\ w.col # "" /\ ChildrenBecome(w.res, w.col, w.key, {})
  <2> DEFINE r == w.res
             col == w.col
             k == w.key
             none == {}
  <2>1. ChildrenBecome(r, col, k, none) /\ MayGo(r, col, k)
    BY <1>4 DEF Spares
  <2> HIDE DEF r, col, k, none
  <2> QED
    BY <2>1, OthersStay
<1>5. CASE w.action = "create" /\ w.col # "" /\ ChildrenBecome(w.res, w.col, w.key, {w.item})
  <2> DEFINE r == w.res
             col == w.col
             k == w.key
             new == {w.item}
  <2>1. ItemKey(w.col, w.item) = w.key
    BY <1>5 DEF Spares, KeepsItsKey
  <2>2. ChildrenBecome(r, col, k, new) /\ \E x \in new : ItemKey(col, x) = k
    BY <1>5, <2>1
  <2> HIDE DEF r, col, k, new
  <2> QED
    BY <2>2, OthersStay
<1>6. CASE /\ w.action = "update" /\ w.col # "" /\ exposed' = exposed
           /\ live' = [live EXCEPT ![w.res] =
                [live[w.res] EXCEPT !.children = SetChildField(live[w.res].children, w)]]
  <2> DEFINE r == w.res
             col == w.col
             k == w.key
             field == w.field
             item == w.item
             old == {li \in live[r].children[col] : ItemKey(col, li) = k}
             set1(li) == [f \in (DOMAIN li \ {field}) \cup (DOMAIN item \cap {field}) |->
                            IF f = field THEN item[f] ELSE li[f]]
             new == {set1(li) : li \in old}
  <2>1. ChildrenBecome(r, col, k, new)
    BY <1>6 DEF SetChildField, ChildrenBecome
  <2>2. field \notin KeyFields(col, k) /\ field \notin Key[col] \cap DOMAIN item
    BY <1>6 DEF Spares, KeepsItsKey
  <2> HIDE DEF r, col, k, field, item
  <2>3. ASSUME NEW li \in live[r].children[col], ItemKey(col, li) = k
        PROVE  \E x \in new : ItemKey(col, x) = k
    <3>1. ItemKey(col, set1(li)) = ItemKey(col, li)
      BY <2>2, <2>3, UpdatesKeepKeys
    <3>2. set1(li) \in new
      BY <2>3
    <3> QED
      BY <2>3, <3>1, <3>2
  <2> HIDE DEF new
  <2> QED
    BY <2>1, <2>3, OthersStay
<1> QED
  BY <1>1, <1>2, <1>3, <1>4, <1>5, <1>6 DEF Effect, ChildrenBecome, Spares, provider

-------------------------------------------------------------------------------
(***************************************************************************)
(* Every step.                                                             *)
(***************************************************************************)
LEMMA SameMemorySparesTheSame ==
  ASSUME UNCHANGED <<set, reads, values>>
  PROVE  \A c : /\ Spares(c)' <=> Spares(c)
                /\ ChangeSpares(c)' <=> ChangeSpares(c)
<1>1. /\ \A s : IsPending(s)' <=> IsPending(s)
      /\ \A s : Resolved(s)' <=> Resolved(s)
  BY DEF IsPending, Resolved, Unresolved, Skipped, Derives, CausedBy, SlotRead, After, Created, Declared
<1>2. /\ \A r, col : SlotsOn(r, col)' = SlotsOn(r, col)
      /\ \A r, col, li : Covering(r, col, li)' = Covering(r, col, li)
      /\ \A r, col, li : LeftAlone(r, col, li)' <=> LeftAlone(r, col, li)
  BY DEF SlotsOn, SlotsOf, Covering, LeftAlone
<1>3. \A r, col : ExpectedChildren(r, col)' = ExpectedChildren(r, col)
  <2>1. \A v : Resolve(v)' = Resolve(v)
    BY DEF Resolve, Created, Declared
  <2>2. \A it : ResolveItem(it)' = ResolveItem(it)
    BY <2>1 DEF ResolveItem
  <2>3. ASSUME NEW r, NEW col
        PROVE  {t \in SlotsOn(r, col) : Resolved(t)}' = {t \in SlotsOn(r, col) : Resolved(t)}
    BY <1>1, <1>2
  <2> QED
    BY <2>2, <2>3 DEF ExpectedChildren
<1>4. \A r, col, k : MayGo(r, col, k)' <=> MayGo(r, col, k)
  BY <1>1, <1>2, <1>3 DEF MayGo
<1> QED
  BY <1>1, <1>2, <1>4 DEF Spares, ChangeSpares, DefersAPendingSlot

LEMMA MemoryStaysSpared ==
  ASSUME RestInv, UNCHANGED <<set, reads, values, changes, writes>>, Planned' => Planned
  PROVE  RestInv'
BY SameMemorySparesTheSame DEF RestInv

LEMMA ExecutionSpares ==
  ASSUME RestInv, Planned, UNCHANGED <<set, reads, values, changes>>,
         ~Account => \A w \in writes' : Spares(w)
  PROVE  RestInv'
BY SameMemorySparesTheSame DEF RestInv

LEMMA NothingPlannedIsSpared ==
  ASSUME ~Planned' \/ Account
  PROVE  RestInv'
BY DEF RestInv

LEMMA EveryStepSpares ==
  ASSUME UnmanagedMatchesKeys, WhatSlotsMatchIsWritten,
         RestInv, DataInv, TypeInv, OrderInv, [Next]_vars
  PROVE  RestInv'
<1>1. CASE \E how : Return(how)
  BY <1>1, NothingPlannedIsSpared DEF Return, Planned
<1>2. CASE ~\E how : Return(how)
  <2>1. CASE \E m \in {"dry", "apply"} : Load(m)
    BY <2>1, NothingPlannedIsSpared DEF Load, Planned
  <2>2. CASE CheckGit
    BY <1>2, <2>2, NothingPlannedIsSpared DEF CheckGit, Planned
  <2>3. CASE ReadNext
    BY <2>3, NothingPlannedIsSpared DEF ReadNext, Planned
  <2>4. CASE Compared
    <3>1. /\ pc = "reading" /\ changes' = ChangesFor(Differences) /\ Outstanding = {}
          /\ UNCHANGED <<set, reads, values, writes>>
      BY <1>2, <2>4 DEF Compared, memory, execution
    <3>2. writes = {}
      BY <3>1 DEF TypeInv, TypeOK
    <3>3. EverythingRead
      BY <3>1 DEF DataInv, EverythingRead
    <3>4. ~Account => \A c \in changes' : ChangeSpares(c)
      BY <3>1, <3>3, ChangesSpare
    <3>5. \A c : ChangeSpares(c)' <=> ChangeSpares(c)
      BY <3>1, SameMemorySparesTheSame
    <3> QED
      BY <3>1, <3>2, <3>4, <3>5 DEF RestInv
  <2>5. CASE Order \/ Ordered \/ Place \/ Placed \/ Accept
    BY <1>2, <2>5, MemoryStaysSpared
       DEF Order, TakeEarliest, Ordered, Place, PlaceDelete, Placed, PutInPlace, Accept,
           memory, planning, execution, Planned
  <2>6. CASE RealizeNext
    <3>1. /\ pc = "realizing" /\ at <= Len(plan) /\ ~WritesTooEarly(Current)
          /\ UNCHANGED <<set, reads, values, changes>>
          /\ \/ writes' = {}
             \/ writes' = IF IsDeferred(Current) THEN Expansion(Current) ELSE {Realized(Current)}
      BY <1>2, <2>6 DEF RealizeNext, Advance, planning
    <3>2. Current \in changes /\ Carries(Current) /\ OfDeclaredResource(Current) /\ set \in Sets
      BY <3>1, CurrentCarriesData
    <3>3. ~Account => ChangeSpares(Current)
      BY <3>1, <3>2 DEF RestInv, Planned
    <3>4. CASE IsDeferred(Current)
      <4>1. Current.col # "" /\ (~Account => DefersAPendingSlot(Current))
        BY <3>2, <3>3, <3>4 DEF Carries, ChangeSpares
      <4>2. ~Account => \A w \in writes' : Spares(w)
        BY <3>1, <3>2, <3>4, <4>1, ExpansionSpares
      <4> QED
        BY <3>1, <4>2, ExecutionSpares DEF Planned
    <3>5. CASE ~IsDeferred(Current)
      <4>1. ~Account => Spares(Realized(Current))
        BY <3>1, <3>2, <3>3, <3>5, RealizedSpares DEF ChangeSpares
      <4> QED
        BY <3>1, <3>5, <4>1, ExecutionSpares DEF Planned
    <3> QED
      BY <3>4, <3>5
  <2>7. CASE Write
    <3>1. /\ pc = "writing" /\ UNCHANGED <<set, reads, values, changes>>
          /\ writes' \subseteq writes
      BY <2>7 DEF Write, Advance, planning
    <3>2. ~Account => \A w \in writes : Spares(w)
      BY <3>1 DEF RestInv, Planned
    <3> QED
      BY <3>1, <3>2, ExecutionSpares DEF Planned
  <2>8. CASE CompareAgain
    BY <2>8, NothingPlannedIsSpared DEF CompareAgain, Planned
  <2>9. CASE Environment \/ UNCHANGED vars
    <3>1. UNCHANGED <<set, reads, values, changes, writes, pc>>
      BY <2>9 DEF Environment, Elsewhere, Assign, Drift, Edit, Commit, CreatorCreates,
                  CreatorClaims, CreatorDeletes, CreatorUnclaims, vars, memory, planning, execution
    <3> QED
      BY <3>1, MemoryStaysSpared DEF Planned
  <2>10. CASE OrderStuck \/ PlaceRefused \/ Show \/ RealizeFails \/ WriteStops \/ Report
    BY <1>2, <2>10 DEF OrderStuck, PlaceRefused, Show, RealizeFails, WriteStops, Report
  <2> QED
    BY <2>1, <2>2, <2>3, <2>4, <2>5, <2>6, <2>7, <2>8, <2>9, <2>10 DEF Next, Command
<1> QED
  BY <1>1, <1>2

LEMMA RestInvAlways ==
  ASSUME UnmanagedMatchesKeys, WhatSlotsMatchIsWritten
  PROVE  Spec => []RestInv
<1>1. Init => RestInv
  BY DEF Init, RestInv, Planned
<1>2. RestInv /\ DataInv /\ TypeInv /\ OrderInv /\ [Next]_vars => RestInv'
  BY EveryStepSpares
<1> QED
  BY <1>1, <1>2, TypeInvAlways, DataInvAlways, PTL DEF Spec

\* Where what is left alone is told by key fields and what slots cover is written out,
\* an apply of a project deletes no resource, and no child a declaration leaves alone,
\* expects, or leaves to a derivation that gave nothing to go by.
THEOREM AppliesLeaveTheRestAlone ==
  ASSUME UnmanagedMatchesKeys, WhatSlotsMatchIsWritten
  PROVE  Spec => LeavesTheRestAlone
<1> DEFINE Rest ==
      CommandWrites /\ ~Account =>
       \A r \in DOMAIN live :
         /\ r \in DOMAIN live'
         /\ \A col \in CollectionsOf(r) : \A li \in live[r].children[col] :
              (\A new \in live'[r].children[col] : ItemKey(col, new) # ItemKey(col, li))
              => /\ ~LeftAlone(r, col, li)
                 /\ \A s \in Covering(r, col, li) : Resolved(s) \/ IsPending(s)
                 /\ \A e \in ExpectedChildren(r, col) :
                      ItemKey(col, e.item) # ItemKey(col, li)
<1>1. RestInv /\ DataInv /\ [Next]_vars => Rest
  <2> SUFFICES ASSUME RestInv, DataInv, [Next]_vars, CommandWrites, ~Account
               PROVE  Rest
    OBVIOUS
  <2>1. pc = "writing" /\ (UNCHANGED <<live, claims>> \/ \E w \in writes : Effect(w) /\ Makeable(w))
    BY WritesAreEffects
  <2>2. KeepsTheRest
    <3>1. CASE UNCHANGED <<live, claims>>
      BY <3>1, SameChildrenKeepTheRest
    <3>2. CASE \E w \in writes : Effect(w) /\ Makeable(w)
      <4>1. PICK w \in writes : Effect(w) /\ Makeable(w)
        BY <3>2
      <4>2. Spares(w) /\ ProviderInv
        BY <2>1, <4>1 DEF RestInv, Planned, DataInv
      <4> QED
        BY <4>1, <4>2, EffectsSpare
    <3> QED
      BY <2>1, <3>1, <3>2
  <2> QED
    BY <2>2, Zenon DEF KeepsTheRest, MayGo
<1>2. RestInv /\ DataInv /\ [Next]_vars => [Rest]_vars
  BY <1>1
<1> QED
  BY <1>2, RestInvAlways, DataInvAlways, PTL DEF Spec, LeavesTheRestAlone
===============================================================================
