------------------------- MODULE DeclSuffices_proofs --------------------------
(***************************************************************************)
(* One apply suffices: OneApplySuffices as a theorem of Spec, for          *)
(* projects.  An apply that ran to its end undisturbed left nothing to     *)
(* report: its comparison sets it on the course of DeclCourse_proofs,      *)
(* every step keeps it there, and at its end nothing is left to do.        *)
(***************************************************************************)
EXTENDS DeclCourse_proofs

(***************************************************************************)
(* The invariant: as long as nothing else interferes, a command that       *)
(* compared is on course.  What a comparison read too early is known to    *)
(* the next only.                                                          *)
(***************************************************************************)
Known == {x \in DOMAIN exposed : pc = "reading" /\ x \in DOMAIN values => values[x].found # "absent"}
KnownNow == [x \in Known |-> exposed[x]]

Remaining(i) == {plan[j] : j \in i..Len(plan)}
Left ==
  CASE Planning         -> changes
    [] pc = "realizing" -> Remaining(at)
    [] pc = "writing"   -> Remaining(at + 1)
    [] OTHER            -> {}
AtOnce(C)    == {c \in C : ~IsDeferred(c)}
WaitingIn(C) == {c.slot : c \in {d \in C : IsDeferred(d)}}
Doing        == AtOnce(Left) \cup writes

Engaged == Planning \/ Executing \/ (pc = "reading" /\ mode = "after")

WrittenOnce(X, C, w) ==
  /\ Clash(X) \/ (w.action = "delete" => w \notin AtOnce(C))
  /\ w.col = "" /\ w.action = "update" => w.field \in DOMAIN w.fields

MendsInv ==
  /\ pc = "loaded" => mode # "after"
  /\ Engaged /\ calm =>
       /\ Misclaimed = {} /\ \A c \in changes : c.claim = {}
       /\ OnCourse(live, KnownNow, Doing, WaitingIn(Left))
       /\ \A w \in writes : WrittenOnce(KnownNow, Left, w)

\* What is known of the state a command runs in.
SoFar ==
  /\ TypeInv /\ OrderInv /\ DataInv /\ ExecuteInv /\ ReviewInv /\ RestInv /\ PlacingInv
  /\ KeysInv /\ ReadInv /\ PlanInv /\ ClaimsInv

LEMMA SameCourse ==
  ASSUME UNCHANGED set
  PROVE  /\ \A L, X, D, W : OnCourse(L, X, D, W)' <=> OnCourse(L, X, D, W)
         /\ \A X, C, w : WrittenOnce(X, C, w)' <=> WrittenOnce(X, C, w)
<1>1. \A L, X, W : SlotsDerive(L, X, W)' <=> SlotsDerive(L, X, W)
  BY DEF SlotsDerive
<1>2. \A L, X, D, W : OnCourse(L, X, D, W)' <=> OnCourse(L, X, D, W)
  BY <1>1, SameDeclarations DEF OnCourse
<1>3. \A X, C, w : WrittenOnce(X, C, w)' <=> WrittenOnce(X, C, w)
  BY SameDeclarations DEF WrittenOnce
<1> QED
  BY <1>2, <1>3

LEMMA CourseKept ==
  ASSUME MendsInv, Engaged, calm, set' = set, given'.claims = given.claims, changes' = changes,
         pc' # "loaded", OnCourse(live', KnownNow', Doing', WaitingIn(Left')),
         \A w \in writes' : WrittenOnce(KnownNow', Left', w)
  PROVE  MendsInv'
<1>1. Misclaimed' = Misclaimed
  BY DEF Misclaimed
<1>2. OnCourse(live, KnownNow, Doing, WaitingIn(Left))'
  BY SameCourse
<1>3. \A w \in writes' : WrittenOnce(KnownNow, Left, w)'
  BY SameCourse
<1> QED
  BY <1>1, <1>2, <1>3 DEF MendsInv

LEMMA WhatIsKnown ==
  ASSUME TypeInv, DataInv, KeysInv
  PROVE  /\ AllLiteral(KnownNow) /\ Sound(live, KnownNow)
         /\ pc # "reading" => AsExposed(KnownNow)
         /\ AllLiteral(exposed) /\ ProviderInv
<1>1. ProviderInv /\ AllLiteral(exposed) /\ ProviderKeyed
  BY DEF DataInv, ProviderInv, KeysInv
<1>2. AllLiteral(KnownNow)
  BY <1>1 DEF AllLiteral, KnownNow, Known
<1>3. Sound(live, KnownNow)
  BY <1>1, <1>2 DEF Sound, ProviderInv, ProviderKeyed
<1>4. pc # "reading" => AsExposed(KnownNow)
  BY DEF AsExposed, KnownNow, Known
<1> QED
  BY <1>1, <1>2, <1>3, <1>4

\* Writes: none outside of "writing".
LEMMA NothingBeingWritten ==
  ASSUME TypeInv, pc # "writing"
  PROVE  writes = {}
BY DEF TypeInv, TypeOK

(***************************************************************************)
(* One change made ready, or expanded into none.                           *)
(***************************************************************************)
LEMMA WhatRemains ==
  ASSUME TypeInv, OrderInv, PlanInv, at <= Len(plan)
  PROVE  /\ Current \in changes /\ Current \notin Remaining(at + 1)
         /\ Remaining(at) = {Current} \cup Remaining(at + 1)
         /\ Remaining(at + 1) \subseteq changes
<1>1. Len(plan) \in Nat /\ at \in 1..Len(plan) /\ plan \in Seq(changes)
  BY CurrentIsAChange DEF OrderInv
<1>2. DOMAIN plan = 1..Len(plan) /\ \A i \in 1..Len(plan) : plan[i] \in changes
  BY <1>1
<1>3. at..Len(plan) = {at} \cup ((at + 1)..Len(plan))
  BY <1>1
<1>4. at \notin (at + 1)..Len(plan) /\ at..Len(plan) \subseteq DOMAIN plan
  BY <1>1, <1>2
<1>5. Remaining(at) = {Current} \cup Remaining(at + 1)
  BY <1>3 DEF Remaining, Current
<1>6. Current \notin Remaining(at + 1)
  <2> SUFFICES ASSUME NEW j \in (at + 1)..Len(plan), plan[j] = plan[at] PROVE FALSE
    BY DEF Remaining, Current
  <2>1. j \in DOMAIN plan /\ at \in DOMAIN plan /\ j # at
    BY <1>1, <1>2
  <2> QED
    BY <2>1 DEF PlanInv
<1>7. Current \in changes /\ Remaining(at + 1) \subseteq changes
  BY <1>1, <1>2, <1>4, <1>3 DEF Remaining, Current
<1> QED
  BY <1>5, <1>6, <1>7

LEMMA CurrentIsPlanned ==
  ASSUME TypeInv, OrderInv, at <= Len(plan)
  PROVE  at \in DOMAIN plan /\ Current = plan[at] /\ Current \in changes
<1>1. at \in 1..Len(plan) /\ Len(plan) \in Nat
  BY CurrentIsAChange
<1>2. DOMAIN plan = 1..Len(plan) /\ \A i \in 1..Len(plan) : plan[i] \in changes
  BY <1>1 DEF OrderInv
<1> QED
  BY <1>1, <1>2 DEF Current

LEMMA CreatedWhole ==
  ASSUME ExecuteInv, TypeInv, OrderInv, pc = "realizing", at <= Len(plan), ~IsDeferred(Current),
         Current.col = "", Current.field = ""
  PROVE  \A f \in DOMAIN Current.fields : HasRun(Current.fields[f])
<1>1. at \in DOMAIN plan /\ Current = plan[at] /\ Current \in changes
  BY CurrentIsPlanned
<1>2. AllNeeds(Current) \subseteq created
  BY <1>1 DEF OrderInv, NeedsMet, ExecuteInv, Executing
<1>3. ASSUME NEW f \in DOMAIN Current.fields PROVE HasRun(Current.fields[f])
  <2>1. Current.fields[f] \in Range(Current.fields)
    BY DEF Range
  <2>2. Current.fields[f].kind = "pending" => Current.fields[f].after \subseteq AllNeeds(Current)
    BY <2>1 DEF AllNeeds, Needs, WrittenBy, WaitsOn, PendingsIn
  <2> QED
    BY <1>2, <2>2 DEF HasRun
<1> QED
  BY <1>3

\* What RealizeNext does when the command goes on.
Readies(c, ready) ==
  /\ ~WritesTooEarly(c) /\ ~StillMissing(c) /\ (IsDeferred(c) => CanExpand(c)) /\ ~LeavesOutField(c)
  /\ ready = IF IsDeferred(c) THEN Expansion(c) ELSE {Realized(c)}
  /\ UNCHANGED <<provider, set, reads, values, changes, plan, calm>>
  /\ writes' = ready
  /\ \/ ready = {} /\ pc' = "realizing" /\ at' = at + 1
        /\ given' = [given EXCEPT !.claims = @ \ c.claim]
     \/ ready # {} /\ pc' = "writing" /\ UNCHANGED <<at, given>>

LEMMA RealizeNextReadies ==
  ASSUME RealizeNext, pc' # "idle"
  PROVE  /\ pc = "realizing" /\ at <= Len(plan)
         /\ \E ready : Readies(Current, ready)
<1> DEFINE c == Current
           ready == IF IsDeferred(c) THEN Expansion(c) ELSE {Realized(c)}
<1>0. \A how : ~Return(how)
  BY DEF Return
<1>1. /\ ~WritesTooEarly(c) /\ ~StillMissing(c) /\ (IsDeferred(c) => CanExpand(c)) /\ ~LeavesOutField(c)
      /\ IF ready = {} THEN Advance
         ELSE pc' = "writing" /\ writes' = ready /\ UNCHANGED <<at, created, given>>
      /\ UNCHANGED <<set, reads, values, lists, planning, mode, outcome, calm>>
      /\ UNCHANGED <<provider, disk, reviewed, spent>>
      /\ pc = "realizing" /\ at <= Len(plan)
  BY <1>0 DEF RealizeNext
<1> HIDE DEF ready
<1>2. UNCHANGED <<provider, set, reads, values, changes, plan, calm>>
  BY <1>1 DEF provider, planning
<1>3. CASE ready = {}
  <2>1. /\ pc' = "realizing" /\ at' = at + 1 /\ writes' = {}
        /\ given' = [given EXCEPT !.claims = @ \ c.claim]
    BY <1>1, <1>3 DEF Advance
  <2> QED
    BY <1>1, <1>2, <1>3, <2>1 DEF Readies, ready
<1>4. CASE ready # {}
  BY <1>1, <1>2, <1>4 DEF Readies, ready
<1> QED
  BY <1>3, <1>4

LEMMA LeftOnceReady ==
  ASSUME NEW ready, Readies(Current, ready), pc = "realizing"
  PROVE  /\ Left = Remaining(at) /\ Left' = Remaining(at + 1)
         /\ pc' \in {"realizing", "writing"}
<1>1. Left = Remaining(at)
  BY DEF Left, Planning
<1>2. CASE pc' = "realizing" /\ at' = at + 1
  <2>1. Left' = Remaining(at)'
    BY <1>2 DEF Left, Planning
  <2>2. Remaining(at)' = Remaining(at + 1)
    BY <1>2 DEF Remaining, Readies
  <2> QED
    BY <1>1, <1>2, <2>1, <2>2
<1>3. CASE pc' = "writing" /\ at' = at
  <2>1. Left' = Remaining(at + 1)'
    BY <1>3 DEF Left, Planning
  <2>2. Remaining(at + 1)' = Remaining(at + 1)
    BY <1>3 DEF Remaining, Readies
  <2> QED
    BY <1>1, <1>3, <2>1, <2>2
<1> QED
  BY <1>2, <1>3 DEF Readies

LEMMA RealizingKeepsCourse ==
  ASSUME ~Account, WhatSlotsMatchIsWritten, SoFar, MendsInv, calm, RealizeNext, pc' # "idle"
  PROVE  MendsInv'
<1> DEFINE c == Current
           X == KnownNow
           rest == Remaining(at + 1)
           D == Doing
           W == WaitingIn(Left)
<1>1. pc = "realizing" /\ at <= Len(plan) /\ \E ready : Readies(c, ready)
  BY RealizeNextReadies
<1>2. PICK ready : Readies(c, ready)
  BY <1>1
<1>3. /\ c \in changes /\ c \notin rest /\ rest \subseteq changes
      /\ Left = {c} \cup rest /\ Left' = rest /\ pc' \in {"realizing", "writing"}
  BY <1>1, <1>2, WhatRemains, LeftOnceReady DEF SoFar
<1>4. /\ set \in Sets /\ set' = set /\ changes' = changes /\ live' = live /\ exposed' = exposed
      /\ writes = {} /\ writes' = ready
  BY <1>1, <1>2, NothingBeingWritten DEF SoFar, DataInv, Readies, provider
<1>5. X' = X /\ AsExposed(X) /\ AllLiteral(exposed) /\ Sound(live, X)
  <2>1. Known' = Known
    BY <1>1, <1>3, <1>4 DEF Known
  <2>2. X' = X
    BY <1>4, <2>1 DEF KnownNow
  <2> QED
    BY <1>1, <2>2, WhatIsKnown DEF SoFar
<1>6. Engaged /\ OnCourse(live, X, D, W) /\ c.claim = {}
  BY <1>1, <1>3 DEF MendsInv, Engaged, Executing
<1>7. given'.claims = given.claims
  BY <1>2, <1>6 DEF Readies, SoFar, ClaimsInv
<1>8. ASSUME OnCourse(live, X, AtOnce(rest) \cup ready, WaitingIn(rest)),
             \A w \in ready : WrittenOnce(X, rest, w)
      PROVE  MendsInv'
  <2>1. Doing' = AtOnce(rest) \cup ready
    BY <1>3, <1>4 DEF Doing, AtOnce
  <2>2. WaitingIn(Left') = WaitingIn(rest)
    BY <1>3
  <2>3. OnCourse(live', KnownNow', Doing', WaitingIn(Left'))
    BY <1>4, <1>5, <1>8, <2>1, <2>2
  <2>4. \A w \in writes' : WrittenOnce(KnownNow', Left', w)
    BY <1>3, <1>4, <1>5, <1>8
  <2> QED
    BY <1>3, <1>4, <1>6, <1>7, <2>3, <2>4, CourseKept
<1>9. CASE ~IsDeferred(c)
  <2> DEFINE w == Realized(c)
  <2>1. ready = {w}
    BY <1>2, <1>9 DEF Readies
  <2>2. /\ D = {c} \cup AtOnce(rest) /\ W = WaitingIn(rest) /\ c \notin AtOnce(rest)
    BY <1>3, <1>4, <1>9 DEF Doing, AtOnce, WaitingIn
  <2>3. Faithful(X, W, c)
    BY <1>6, <2>2 DEF OnCourse
  <2>4. MayBeRealized(c, X, W)
    <3>1. OfDeclaredResource(c) /\ CarriesValues(c)
      BY <1>1, <1>9, CurrentCarriesData DEF SoFar, Carries
    <3>2. RealizesAsItIs(c)
      BY <1>1, <1>3, <1>9 DEF SoFar, RestInv, Planned, ChangeSpares
    <3>3. ~WritesTooEarly(c) /\ ~StillMissing(c)
      BY <1>2 DEF Readies
    <3>4. ASSUME c.col = "", c.action = "create"
          PROVE  \A f \in DOMAIN c.fields : HasRun(c.fields[f])
      <4>1. c.field = ""
        BY <2>3, <3>4 DEF Faithful, FieldsFaithful
      <4> QED
        BY <1>1, <1>9, <3>4, <4>1, CreatedWhole DEF SoFar
    <3> QED
      BY <2>3, <3>1, <3>2, <3>3, <3>4 DEF MayBeRealized
  <2>5. /\ OnCourse(live, X, (D \ {c}) \cup {w}, W)
        /\ c.action = "delete" /\ ~Clash(X) => w \notin D \ {c}
    BY <1>4, <1>5, <1>6, <2>2, <2>4, RealizingStaysOnCourse
  <2>6. (D \ {c}) \cup {w} = AtOnce(rest) \cup ready /\ D \ {c} = AtOnce(rest)
    BY <2>1, <2>2
  <2>7. OnCourse(live, X, AtOnce(rest) \cup ready, WaitingIn(rest))
    BY <2>2, <2>5, <2>6
  <2>8. w.action = c.action /\ w.col = c.col /\ w.field = c.field /\ w.fields = RealizeAll(c.fields)
    BY <2>4, RealizedIs DEF MayBeRealized
  <2>9. WrittenOnce(X, rest, w)
    <3>1. Clash(X) \/ (w.action = "delete" => w \notin AtOnce(rest))
      BY <2>5, <2>6, <2>8
    <3>2. ASSUME w.col = "", w.action = "update" PROVE w.field \in DOMAIN w.fields
      <4>1. c.field # ""
        BY <2>3, <2>8, <3>2 DEF Faithful, FieldsFaithful
      <4> QED
        BY <1>2, <2>8, <3>2, <4>1 DEF Readies, LeavesOutField
    <3> QED
      BY <3>1, <3>2 DEF WrittenOnce
  <2> QED
    BY <1>8, <2>1, <2>7, <2>9
<1>10. CASE IsDeferred(c)
  <2>1. ready = Expansion(c) /\ CanExpand(c)
    BY <1>2, <1>10 DEF Readies
  <2>2. Defers(c) /\ \A d \in rest : IsDeferred(d) => d.slot # c.slot
    BY <1>3, <1>10 DEF SoFar, PlanInv
  <2>3. D = AtOnce(rest)
    BY <1>3, <1>4, <1>10 DEF Doing, AtOnce
  <2>4. W = {c.slot} \cup WaitingIn(rest) /\ c.slot \notin WaitingIn(rest)
    BY <1>3, <1>10, <2>2 DEF WaitingIn
  <2>5. /\ OnCourse(live, X, D \cup Expansion(c), W \ {c.slot})
        /\ Clash(X) \/ \A w \in Expansion(c) : w.action = "delete" => w \notin D
    BY <1>4, <1>5, <1>6, <2>1, <2>2, <2>4, ExpandingStaysOnCourse
  <2>6. W \ {c.slot} = WaitingIn(rest)
    BY <2>4
  <2>7. OnCourse(live, X, AtOnce(rest) \cup ready, WaitingIn(rest))
    BY <2>1, <2>3, <2>5, <2>6
  <2>8. \A w \in ready : WrittenOnce(X, rest, w)
    <3>1. c.slot \in W /\ MayExpand(c, X, W)
      BY <1>4, <1>5, <2>1, <2>2, <2>4 DEF MayExpand, CanExpand
    <3>2. c.col # ""
      BY <3>1, SlotsAre
    <3>3. \A w \in ready : w.col # ""
      BY <2>1, <3>2, ExpansionIs DEF IsWrite
    <3> QED
      BY <2>1, <2>3, <2>5, <3>3 DEF WrittenOnce
  <2> QED
    BY <1>8, <2>7, <2>8
<1> QED
  BY <1>9, <1>10

LEMMA WriteDoes ==
  ASSUME Write
  PROVE  /\ pc = "writing"
         /\ \E w \in writes :
              /\ Effect(w) /\ Makeable(w) /\ writes' = writes \ {w}
              /\ \/ pc' = "realizing" /\ at' = at + 1
                    /\ given' = [given EXCEPT !.claims = @ \ Current.claim]
                 \/ pc' = "writing" /\ UNCHANGED <<at, given>>
         /\ UNCHANGED <<set, reads, values, changes, plan, calm>>
<1>1. /\ pc = "writing"
      /\ UNCHANGED <<set, reads, values, changes, plan, calm>>
  BY DEF Write, planning
<1>2. PICK w \in NextWrites :
        /\ Makeable(w) /\ Effect(w)
        /\ IF writes = {w} THEN Advance
           ELSE writes' = writes \ {w} /\ UNCHANGED <<pc, at, created, given>>
  BY DEF Write
<1>3. w \in writes
  BY DEF NextWrites
<1>4. CASE writes = {w}
  BY <1>1, <1>2, <1>3, <1>4 DEF Advance
<1>5. CASE writes # {w}
  BY <1>1, <1>2, <1>3, <1>5
<1> QED
  BY <1>4, <1>5

LEMMA LeftWhileWriting ==
  ASSUME pc = "writing", UNCHANGED plan,
         (pc' = "realizing" /\ at' = at + 1) \/ (pc' = "writing" /\ at' = at)
  PROVE  Left = Remaining(at + 1) /\ Left' = Left
<1>1. Left = Remaining(at + 1)
  BY DEF Left, Planning
<1>2. CASE pc' = "realizing" /\ at' = at + 1
  <2>1. Left' = Remaining(at)'
    BY <1>2 DEF Left, Planning
  <2>2. Remaining(at)' = Remaining(at + 1)
    BY <1>2 DEF Remaining
  <2> QED
    BY <1>1, <2>1, <2>2
<1>3. CASE pc' = "writing" /\ at' = at
  <2>1. Left' = Remaining(at + 1)'
    BY <1>3 DEF Left, Planning
  <2>2. Remaining(at + 1)' = Remaining(at + 1)
    BY <1>3 DEF Remaining
  <2> QED
    BY <1>1, <2>1, <2>2
<1> QED
  BY <1>2, <1>3

LEMMA WritingKeepsCourse ==
  ASSUME ~Account, SoFar, MendsInv, calm, Write
  PROVE  MendsInv'
<1> DEFINE X == KnownNow
           D == Doing
           W == WaitingIn(Left)
<1>1. /\ pc = "writing"
      /\ UNCHANGED <<set, reads, values, changes, plan, calm>>
  BY WriteDoes
<1>2. PICK w \in writes :
        /\ Effect(w) /\ Makeable(w) /\ writes' = writes \ {w}
        /\ \/ pc' = "realizing" /\ at' = at + 1
              /\ given' = [given EXCEPT !.claims = @ \ Current.claim]
           \/ pc' = "writing" /\ UNCHANGED <<at, given>>
  BY WriteDoes
<1>3. Left' = Left /\ pc' # "reading"
  BY <1>1, <1>2, LeftWhileWriting
<1>4. /\ Engaged /\ OnCourse(live, X, D, W) /\ \A v \in writes : WrittenOnce(X, Left, v)
      /\ \A c \in changes : c.claim = {}
  BY <1>1 DEF MendsInv, Engaged, Executing
<1>5. set \in Sets /\ ProviderInv /\ AllLiteral(X)
  BY <1>1, WhatIsKnown DEF SoFar, DataInv
<1>6. given'.claims = given.claims
  <2>1. Current \in changes
    BY <1>1, CurrentIsPlanned DEF SoFar, TypeInv, AtOK
  <2> QED
    BY <1>2, <1>4, <2>1 DEF SoFar, ClaimsInv
<1>7. Holds(w) /\ Spares(w)
  BY <1>1 DEF SoFar, DataInv, WritesData, Holds, RestInv, Planned
<1>8. w \in D /\ Doing' = AtOnce(Left) \cup (writes \ {w})
  <2>1. AtOnce(Left)' = AtOnce(Left)
    BY <1>3 DEF AtOnce
  <2> QED
    BY <1>2, <2>1 DEF Doing
<1>9. Leaves(D, w, Doing')
  BY <1>8 DEF Leaves, Doing
<1>10. Clash(X) \/ (w.action = "delete" => w \notin Doing')
  BY <1>4, <1>8 DEF WrittenOnce
<1>11. w.action # "unclaim"
  <2>1. Faithful(X, W, w)
    BY <1>4, <1>8 DEF OnCourse
  <2> QED
    BY <2>1 DEF Faithful, FieldsFaithful, ChildFaithful, Makes, Mends
<1>12. w.col = "" /\ w.action = "update" => w.field \in DOMAIN w.fields
  BY <1>4 DEF WrittenOnce
<1>13. OnCourse(live', X, Doing', W) /\ exposed' = exposed
  <2> DEFINE E == Doing'
  <2> HIDE DEF E
  <2>1. Leaves(D, w, E) /\ (Clash(X) \/ (w.action = "delete" => w \notin E))
    BY <1>9, <1>10 DEF E
  <2>2. OnCourse(live', X, E, W) /\ exposed' = exposed
    BY <1>2, <1>4, <1>5, <1>7, <1>11, <1>12, <2>1, AWriteStaysOnCourse
  <2> QED
    BY <2>2 DEF E
<1>14. KnownNow' = X
  <2>1. Known' = Known
    BY <1>1, <1>3, <1>13 DEF Known
  <2> QED
    BY <1>13, <2>1 DEF KnownNow
<1>15. WaitingIn(Left') = W
  BY <1>3
<1>16. OnCourse(live', KnownNow', Doing', WaitingIn(Left'))
  BY <1>13, <1>14, <1>15
<1>17. \A v \in writes' : WrittenOnce(KnownNow', Left', v)
  BY <1>2, <1>3, <1>4, <1>14
<1> QED
  BY <1>1, <1>2, <1>4, <1>6, <1>16, <1>17, CourseKept

(***************************************************************************)
(* The steps that write nothing.                                           *)
(***************************************************************************)
LEMMA NothingMoves ==
  ASSUME MendsInv, Engaged, calm, UNCHANGED <<set, given, changes, live, writes>>, pc' # "loaded",
         KnownNow' = KnownNow, Left' = Left
  PROVE  MendsInv'
<1>1. /\ OnCourse(live, KnownNow, Doing, WaitingIn(Left))
      /\ \A w \in writes : WrittenOnce(KnownNow, Left, w)
  BY DEF MendsInv
<1>2. AtOnce(Left') = AtOnce(Left)
  OBVIOUS
<1>3. Doing' = Doing
  BY <1>2 DEF Doing
<1>4. OnCourse(live', KnownNow', Doing', WaitingIn(Left'))
  BY <1>1, <1>3
<1> QED
  BY <1>1, <1>4, CourseKept

LEMMA PlanningKeepsCourse ==
  ASSUME MendsInv, calm, Order \/ Ordered \/ Place \/ Placed
  PROVE  MendsInv'
<1>1. /\ Planning /\ Planning' /\ UNCHANGED <<set, given, changes, live, exposed, writes>>
  BY DEF Order, Ordered, Place, Placed, Planning, TakeEarliest, PlaceDelete, PutInPlace,
         memory, provider, execution, planning
<1>2. pc # "reading" /\ pc' # "reading" /\ pc' # "loaded"
  BY <1>1 DEF Planning
<1>3. Known' = Known
  BY <1>1, <1>2 DEF Known
<1>4. KnownNow' = KnownNow
  BY <1>1, <1>3 DEF KnownNow
<1>5. Left' = Left
  BY <1>1 DEF Left
<1> QED
  BY <1>1, <1>2, <1>4, <1>5, NothingMoves DEF Engaged

LEMMA AcceptingKeepsCourse ==
  ASSUME SoFar, MendsInv, calm, Accept, pc' # "idle"
  PROVE  MendsInv'
<1>0. \A how : ~Return(how)
  BY DEF Return
<1>1. /\ pc = "planned" /\ pc' = "realizing"
      /\ UNCHANGED <<memory, planning, execution, mode, outcome, calm>> /\ UNCHANGED provider
  BY <1>0 DEF Accept
<1>2. UNCHANGED <<set, given, changes, plan, at, live, exposed, writes>>
  BY <1>1 DEF memory, planning, execution, provider
<1>3. Known' = Known
  BY <1>1, <1>2 DEF Known
<1>4. KnownNow' = KnownNow
  BY <1>2, <1>3 DEF KnownNow
<1>5. Left = changes
  BY <1>1 DEF Left, Planning
<1>6. Left' = Remaining(1)
  <2>1. at = 1
    BY <1>1 DEF SoFar, TypeInv, AtOK
  <2>2. Left' = Remaining(at)'
    BY <1>1 DEF Left, Planning
  <2>3. Remaining(at)' = Remaining(1)
    BY <1>2, <2>1 DEF Remaining
  <2> QED
    BY <2>2, <2>3
<1>7. Remaining(1) = changes
  <2>1. Range(plan) = changes
    BY <1>1 DEF SoFar, ReviewInv, Complete
  <2>2. plan \in Seq(changes)
    BY DEF SoFar, OrderInv
  <2>3. DOMAIN plan = 1..Len(plan)
    BY <2>2
  <2> QED
    BY <2>1, <2>3 DEF Remaining, Range
<1> QED
  BY <1>1, <1>2, <1>4, <1>5, <1>6, <1>7, NothingMoves DEF Engaged, Planning

LEMMA ComparingAgainKeepsCourse ==
  ASSUME SoFar, MendsInv, calm, CompareAgain
  PROVE  MendsInv'
<1>1. /\ pc = "realizing" /\ at > Len(plan) /\ pc' = "reading" /\ mode' = "after"
      /\ UNCHANGED <<set, given, changes, plan, at, live, exposed, writes>> /\ values' = NoKey
  BY DEF CompareAgain, Forget, planning, execution, provider
<1>2. Known' = Known
  <2>1. DOMAIN values' = {}
    BY <1>1 DEF NoKey
  <2> QED
    BY <1>1, <2>1 DEF Known
<1>3. KnownNow' = KnownNow
  BY <1>1, <1>2 DEF KnownNow
<1>4. Left' = Left
  <2>1. Len(plan) \in Nat /\ at \in Nat
    BY DEF SoFar, TypeInv, TypeOK, OrderInv
  <2>2. at..Len(plan) = {}
    BY <1>1, <2>1
  <2>3. Left = {}
    BY <1>1, <2>2 DEF Left, Planning, Remaining
  <2>4. Left' = {}
    BY <1>1 DEF Left, Planning
  <2> QED
    BY <2>3, <2>4
<1> QED
  BY <1>1, <1>3, <1>4, NothingMoves DEF Engaged, Executing

LEMMA MoreGetsKnown ==
  ASSUME SoFar, MendsInv, Engaged, calm, UNCHANGED <<set, given, changes, live, writes>>, pc' # "loaded",
         Left' = Left, Extends(KnownNow, KnownNow'), AllLiteral(KnownNow'),
         NewToChildren(live, KnownNow, KnownNow') \/ Doing = {}
  PROVE  MendsInv'
<1> DEFINE X == KnownNow
           Y == KnownNow'
           D == Doing
           W == WaitingIn(Left)
<1>1. /\ OnCourse(live, X, D, W)
      /\ \A w \in writes : WrittenOnce(X, Left, w)
  BY DEF MendsInv
<1>2. /\ AllLiteral(X) /\ Sound(live, X) /\ set \in Sets
  <2>1. pc # "idle"
    BY DEF Engaged, Planning, Executing
  <2> QED
    BY <2>1, WhatIsKnown DEF SoFar, DataInv
<1>3. AtOnce(Left') = AtOnce(Left)
  OBVIOUS
<1>4. Doing' = Doing
  BY <1>3 DEF Doing
<1>5. Extends(X, Y) /\ AllLiteral(Y) /\ (NewToChildren(live, X, Y) \/ D = {})
  OBVIOUS
<1> HIDE DEF X, Y, D, W
<1>6. OnCourse(live, Y, D, W)
  BY <1>1, <1>2, <1>5, MoreIsKnown
<1>7. Clash(X) => Clash(Y)
  BY <1>2, <1>5, MoreClash
<1>8. \A w \in writes : WrittenOnce(Y, Left, w)
  BY <1>1, <1>7 DEF WrittenOnce
<1>9. OnCourse(live', KnownNow', Doing', WaitingIn(Left'))
  BY <1>4, <1>6 DEF Y, D, W
<1>10. \A w \in writes' : WrittenOnce(KnownNow', Left', w)
  BY <1>8 DEF Y
<1> QED
  BY <1>9, <1>10, CourseKept

LEMMA ReadingKeepsCourse ==
  ASSUME SoFar, MendsInv, ReadNext, calm, Engaged
  PROVE  MendsInv'
<1>1. /\ pc = "reading" /\ pc' = pc /\ UNCHANGED <<set, given, changes, live, exposed, writes>>
  BY DEF ReadNext, planning, provider, execution
<1>2. PICK q, failed : Answer(q, failed)
  BY DEF ReadNext
<1> DEFINE v == IF failed THEN [ExposedNow(q.of) EXCEPT !.found = "failed"] ELSE ExposedNow(q.of)
           of == q.of
<1>3. values' = values \/ values' = With(values, of, v)
  BY <1>2 DEF Answer
<1>4. v.found = "absent" => of \notin DOMAIN exposed
  BY DEF ExposedNow, Found
<1> HIDE DEF v, of
<1>5. Known \subseteq Known'
  <2>1. CASE values' = values
    BY <1>1, <2>1 DEF Known
  <2>2. CASE values' = With(values, of, v)
    <3>1. DOMAIN values' = DOMAIN values \cup {of}
          /\ \A x \in DOMAIN values' : values'[x] = IF x = of THEN v ELSE values[x]
      BY <2>2 DEF With
    <3> QED
      BY <1>1, <1>4, <3>1 DEF Known
  <2> QED
    BY <1>3, <2>1, <2>2
<1>6. Extends(KnownNow, KnownNow')
  BY <1>1, <1>5 DEF Extends, KnownNow
<1>7. AllLiteral(KnownNow')
  BY <1>1, WhatIsKnown DEF SoFar, AllLiteral, KnownNow, Known
<1>8. Left' = Left
  BY <1>1 DEF Left, Planning
<1>9. Doing = {}
  BY <1>1, NothingBeingWritten DEF Doing, Left, Planning, AtOnce, SoFar
<1> QED
  BY <1>1, <1>6, <1>7, <1>8, <1>9, MoreGetsKnown

LEMMA AssigningKeepsCourse ==
  ASSUME ~Recycles, SoFar, MendsInv, calm, Engaged, NEW x, Assign(x)
  PROVE  MendsInv'
<1>1. /\ UNCHANGED <<set, given, changes, plan, at, live, writes, values, pc, mode>>
      /\ pc \notin {"ordering", "placing", "planned"} /\ x \notin DOMAIN exposed
  BY DEF Assign, Elsewhere, memory, planning, execution
<1>2. PICK v : Literal(v) \notin LiveChildValues /\ exposed' = With(exposed, x, Literal(v))
  BY DEF Assign
<1> DEFINE lit == Literal(v)
<1>3. lit.kind = "literal" /\ lit \notin LiveChildValues
  BY <1>2 DEF Literal
<1> HIDE DEF lit
<1>4. /\ DOMAIN exposed' = DOMAIN exposed \cup {x} /\ exposed'[x] = lit
      /\ \A y \in DOMAIN exposed : exposed'[y] = exposed[y]
  BY <1>1, <1>2 DEF With, lit
<1>5. Known \subseteq Known' /\ Known' \subseteq Known \cup {x} /\ Known \subseteq DOMAIN exposed
  BY <1>1, <1>4 DEF Known
<1>6. Extends(KnownNow, KnownNow')
  BY <1>4, <1>5 DEF Extends, KnownNow
<1>7. AllLiteral(KnownNow')
  BY <1>3, <1>4, <1>5, WhatIsKnown DEF SoFar, AllLiteral, KnownNow
<1>8. Left' = Left
  <2>1. \A i : Remaining(i)' = Remaining(i)
    BY <1>1 DEF Remaining
  <2> QED
    BY <1>1, <2>1 DEF Left, Planning
<1>9. NewToChildren(live, KnownNow, KnownNow')
  <2>1. ASSUME NEW r \in DOMAIN live, NEW col \in CollectionsOf(r), NEW li \in live[r].children[col],
               NEW f \in DOMAIN li
        PROVE  li[f] # lit
    <3>1. li[f] \in Range(li)
      BY DEF Range
    <3>2. li[f] \in ValuesOf(live[r].children[col])
      BY <3>1 DEF ValuesOf
    <3>3. li[f] \in LiveChildValues
      <4>1. li[f] \in UNION {ValuesOf(live[r].children[c]) : c \in CollectionsOf(r)}
        BY <3>2
      <4> QED
        BY <4>1 DEF LiveChildValues
    <3> QED
      BY <1>3, <3>3
  <2>2. \A y \in DOMAIN KnownNow' \ DOMAIN KnownNow : KnownNow'[y] = lit
    BY <1>4, <1>5 DEF KnownNow
  <2> QED
    BY <2>1, <2>2 DEF NewToChildren
<1> QED
  BY <1>1, <1>6, <1>7, <1>8, <1>9, MoreGetsKnown DEF Engaged, Planning, Executing

(***************************************************************************)
(* A comparison of what is so: what it read is live, or known.             *)
(***************************************************************************)
Comparing ==
  /\ Reviewable /\ pc = "reading" /\ MemoryNow /\ ProviderInv /\ ProviderKeyed
  /\ \A r \in DOMAIN reads : reads[r].found \in Answers
  /\ \A x \in DOMAIN values : values[x].found \in Answers

LEMMA ReadsAreSo ==
  ASSUME Comparing, NEW r \in Declared(set)
  PROVE  /\ r \in DOMAIN reads /\ reads[r].found \in {"live", "absent"}
         /\ IsLive(r) <=> r \in DOMAIN live
         /\ IsLive(r) => reads[r].is = live[r]
         /\ \A col : LiveChildren(r, col) = IF r \in DOMAIN live THEN live[r].children[col] ELSE {}
<1>1. r \in DOMAIN reads /\ reads[r].found \in {"live", "absent"}
  BY NothingFailed DEF Comparing, Readable, Answers
<1> QED
  BY <1>1 DEF Comparing, MemoryNow, IsLive, LiveChildren

LEMMA ValuesAreSo ==
  ASSUME Comparing, NEW x \in DOMAIN values
  PROVE  /\ values[x].found \in {"live", "absent"}
         /\ values[x].found = "live" <=> x \in DOMAIN KnownNow
         /\ values[x].found = "live" => values[x].is = KnownNow[x]
<1>1. values[x].found \in {"live", "absent"}
  BY DEF Comparing, Answers, Reviewable, PlanRefused, SomethingUnreadable
<1> QED
  BY <1>1 DEF Comparing, MemoryNow, KnownNow, Known

LEMMA SourcesAreRead ==
  ASSUME EverythingRead, NEW s \in set.slots, s.reads \notin ExposedValues
  PROVE  s.reads \in DOMAIN reads
<1> DEFINE q == Request(SlotReadKind(s), s.reads, 10 * NameOrder[s.source])
<1>1. q \in Requests
  BY Zenon DEF Requests, DerivationRequests
<1>2. q.what = "resource" /\ q.of = s.reads
  BY DEF Request, SlotReadKind
<1> HIDE DEF q
<1> QED
  BY <1>1, <1>2 DEF Answered, EverythingRead, Outstanding

\* A slot gives what it derives when that is known, or live.
LEMMA SlotsAreSo ==
  ASSUME Comparing, NEW s \in set.slots
  PROVE  /\ ~Skipped(s) /\ (Unresolved(s) <=> ~Resolved(s))
         /\ s.reads \in ExposedValues =>
              /\ Resolved(s) <=> s.reads \in DOMAIN KnownNow
              /\ Resolved(s) => SlotRead(s).is = KnownNow[s.reads]
         /\ s.reads \notin ExposedValues => (Resolved(s) <=> s.reads \in DOMAIN live)
<1>0. EverythingRead /\ ~Skipped(s)
  BY NothingFailed DEF Comparing, Reviewable
<1>1. CASE s.reads \in ExposedValues
  <2>1. s.reads \in DOMAIN values
    BY <1>0, <1>1, ReadWhatIsAsked
  <2>2. SlotRead(s) = values[s.reads]
    BY <1>1 DEF SlotRead
  <2> QED
    BY <1>0, <1>1, <2>1, <2>2, ValuesAreSo DEF Unresolved, Resolved
<1>2. CASE s.reads \notin ExposedValues
  <2>1. s.reads \in DOMAIN reads
    BY <1>0, <1>2, SourcesAreRead
  <2>2. SlotRead(s) = reads[s.reads]
    BY <1>2 DEF SlotRead
  <2>3. reads[s.reads].found \in {"live", "absent"}
    BY <2>1 DEF Comparing, Answers, Reviewable, PlanRefused, SomethingUnreadable
  <2> QED
    BY <1>0, <1>2, <2>1, <2>2, <2>3 DEF Unresolved, Resolved, Comparing, MemoryNow
<1> QED
  BY <1>1, <1>2

(***************************************************************************)
(* What a declared value is resolved to.                                   *)
(***************************************************************************)
ResolvesTo(X, w, v) ==
  IF v.kind = "reference" /\ v.of \notin DOMAIN X
  THEN w = v \/ (w.kind = "pending" /\ w.of = v.of)
  ELSE w = Now(X, v)

LEMMA ValuesResolve ==
  ASSUME Comparing, NEW r \in Declared(set), NEW v \in DeclaredValues(set, r)
  PROVE  ResolvesTo(KnownNow, Resolve(v), v)
<1>1. CASE v.kind # "reference"
  BY <1>1 DEF ResolvesTo, Resolve, Now
<1>2. CASE v.kind = "reference"
  <2>1. v.of \in RefersTo(r)
    BY <1>2 DEF RefersTo, ReferencesIn
  <2>2. v.of \in DOMAIN values
    BY <2>1, NothingFailed DEF Comparing, Readable
  <2>3. CASE values[v.of].found = "live"
    <3>1. Resolve(v) = KnownNow[v.of] /\ v.of \in DOMAIN KnownNow
      BY <1>2, <2>2, <2>3, ValuesAreSo DEF Resolve
    <3> QED
      BY <1>2, <3>1 DEF ResolvesTo, Now
  <2>4. CASE values[v.of].found # "live"
    <3>1. v.of \notin DOMAIN KnownNow
      BY <2>2, <2>4, ValuesAreSo
    <3>2. Resolve(v) = v \/ Resolve(v) = Pending(v.of, {ExposedBy[v.of]})
      BY <1>2, <2>4 DEF Resolve
    <3> QED
      BY <1>2, <3>1, <3>2 DEF ResolvesTo, Pending
  <2> QED
    BY <2>3, <2>4
<1> QED
  BY <1>1, <1>2

\* The slots not resolved: what a comparison leaves out.
Awaits(W) == \A s \in set.slots : ~IsFieldSlot(s) => (s \in W <=> ~Resolved(s))

Expects(X, item, it) ==
  DOMAIN item = DOMAIN it /\ \A f \in DOMAIN it : ResolvesTo(X, item[f], it[f])

LEMMA ExpectedAreDeclared ==
  ASSUME Comparing, NEW W, Awaits(W), NEW r \in Declared(set), NEW col \in CollectionsOf(r),
         NEW e \in ExpectedChildren(r, col)
  PROVE  e.declared \in Items(W, r, col) /\ Expects(KnownNow, e.item, e.declared)
<1>1. CASE \E it \in set.resources[r].children[col] :
             e = [item |-> ResolveItem(it), declared |-> it, source |-> r]
  <2>1. PICK it \in set.resources[r].children[col] :
             e = [item |-> ResolveItem(it), declared |-> it, source |-> r]
    BY <1>1
  <2>2. ASSUME NEW f \in DOMAIN it PROVE ResolvesTo(KnownNow, Resolve(it[f]), it[f])
    <3>1. it[f] \in DeclaredValues(set, r)
      BY DEF DeclaredValues, ValuesOf, Range
    <3> QED
      BY <3>1, ValuesResolve
  <2>3. /\ DOMAIN ResolveItem(it) = DOMAIN it
        /\ \A f \in DOMAIN it : ResolveItem(it)[f] = Resolve(it[f])
    BY DEF ResolveItem
  <2>4. e.item = ResolveItem(it) /\ e.declared = it
    BY <2>1
  <2> QED
    BY <2>2, <2>3, <2>4 DEF Items, Expects
<1>2. CASE \E s \in SlotsOn(r, col) : Resolved(s) /\ \E it \in s.gives :
             e = [item |-> it, declared |-> it, source |-> s.source]
  <2>1. PICK s \in SlotsOn(r, col) : Resolved(s) /\ \E it \in s.gives :
             e = [item |-> it, declared |-> it, source |-> s.source]
    BY <1>2
  <2>2. PICK it \in s.gives : e = [item |-> it, declared |-> it, source |-> s.source]
    BY <2>1
  <2>3. s \in set.slots /\ ~IsFieldSlot(s)
    BY DEF SlotsOn, SlotsOf
  <2>4. s \notin W
    BY <2>1, <2>3 DEF Awaits
  <2>5. AllLiteral(it)
    BY <2>3, SetsHoldValues DEF Comparing, Reviewable, EverythingRead
  <2>6. Expects(KnownNow, it, it)
    BY <2>5 DEF Expects, ResolvesTo, Now, AllLiteral
  <2> QED
    BY <2>2, <2>4, <2>6 DEF Items
<1> QED
  BY <1>1, <1>2 DEF ExpectedChildren

LEMMA DeclaredAreExpected ==
  ASSUME NEW W, Awaits(W), NEW r, NEW col, NEW it \in Items(W, r, col)
  PROVE  \E e \in ExpectedChildren(r, col) : e.declared = it
<1>1. CASE it \in set.resources[r].children[col]
  <2> DEFINE e == [item |-> ResolveItem(it), declared |-> it, source |-> r]
  <2>1. e \in ExpectedChildren(r, col)
    BY <1>1 DEF ExpectedChildren
  <2> QED
    BY <2>1
<1>2. CASE \E s \in SlotsOn(r, col) \ W : it \in s.gives
  <2>1. PICK s \in SlotsOn(r, col) \ W : it \in s.gives
    BY <1>2
  <2>2. s \in set.slots /\ ~IsFieldSlot(s)
    BY DEF SlotsOn, SlotsOf
  <2>3. Resolved(s)
    BY <2>1, <2>2 DEF Awaits
  <2> DEFINE e == [item |-> it, declared |-> it, source |-> s.source]
             given1(t) == {[item |-> x, declared |-> x, source |-> t.source] : x \in t.gives}
  <2>4. e \in given1(s)
    BY <2>1
  <2>5. s \in {t \in SlotsOn(r, col) : Resolved(t)}
    BY <2>3
  <2>6. e \in UNION {given1(t) : t \in {u \in SlotsOn(r, col) : Resolved(u)}}
    BY <2>4, <2>5
  <2>7. e \in ExpectedChildren(r, col)
    BY <2>6 DEF ExpectedChildren
  <2> QED
    BY <2>7
<1> QED
  BY <1>1, <1>2 DEF Items

LEMMA ResolvedSays ==
  ASSUME NEW X, NEW w, NEW v, ResolvesTo(X, w, v), ~IsUnresolved(w) \/ v.kind # "reference"
  PROVE  Says(X, w, v)
BY DEF ResolvesTo, Says, Now, IsUnresolved

LEMMA ExpectedSays ==
  ASSUME NEW X, NEW item, NEW it, Expects(X, item, it), ~HasUnresolved(item)
  PROVE  SaysItem(X, item, it)
<1>1. ASSUME NEW f \in DOMAIN it PROVE Says(X, item[f], it[f])
  BY ResolvedSays DEF Expects, HasUnresolved
<1> QED
  BY <1>1 DEF SaysItem, Expects

\* The key of an expected child, when it is known, is the declared one's.
LEMMA ExpectedKeys ==
  ASSUME NEW X, AllLiteral(X), NEW col, NEW item, NEW it, Expects(X, item, it), IsWritten(it), HasKey(col, it)
  PROVE  /\ KeyKnown(X, col, it) <=> \A f \in DOMAIN ItemKey(col, item) : item[f].kind = "literal"
         /\ KeyKnown(X, col, it) => KeyNow(X, col, it) = ItemKey(col, item) /\ ~KeyUnresolved(col, item)
<1>1. DOMAIN item = DOMAIN it /\ KeyFields(col, item) = KeyFields(col, it) /\ HasKey(col, item)
  BY KeyedAlike DEF Expects
<1>2. DOMAIN ItemKey(col, item) = KeyFields(col, it) /\ KeyFields(col, it) \subseteq DOMAIN it
  <2>1. DOMAIN ItemKey(col, item) = KeyFields(col, item) \cap DOMAIN item
    BY KeyIsPart
  <2>2. KeyFields(col, it) \subseteq DOMAIN it
    BY DEF HasKey
  <2> QED
    BY <1>1, <2>1, <2>2
<1>3. ASSUME NEW f \in KeyFields(col, it)
      PROVE  /\ item[f].kind = "literal" <=> (it[f].kind = "reference" => it[f].of \in DOMAIN X)
             /\ item[f].kind = "literal" => item[f] = Now(X, it[f])
  <2>1. f \in DOMAIN it /\ ResolvesTo(X, item[f], it[f]) /\ it[f].kind \in {"literal", "reference"}
    BY <1>2 DEF Expects, IsWritten
  <2>2. it[f].kind = "reference" /\ it[f].of \in DOMAIN X => X[it[f].of].kind = "literal"
    BY DEF AllLiteral
  <2> QED
    BY <2>1, <2>2 DEF ResolvesTo, Now
<1>4. KeyKnown(X, col, it) <=> \A f \in DOMAIN ItemKey(col, item) : item[f].kind = "literal"
  BY <1>2, <1>3 DEF KeyKnown
<1>5. ASSUME KeyKnown(X, col, it) PROVE KeyNow(X, col, it) = ItemKey(col, item) /\ ~KeyUnresolved(col, item)
  <2> DEFINE now == NowItem(X, it)
  <2>1. \A f \in KeyFields(col, it) : item[f].kind = "literal" /\ item[f] = Now(X, it[f])
    BY <1>2, <1>3, <1>4, <1>5
  <2>2. DOMAIN now = DOMAIN it /\ \A f \in DOMAIN it : now[f] = Now(X, it[f])
    BY NowHolds
  <2>3. KeyFields(col, now) = KeyFields(col, it)
    BY <2>2, KeyedAlike
  <2> HIDE DEF now
  <2>4. ItemKey(col, now) = ItemKey(col, item)
    BY <1>1, <1>2, <2>1, <2>2, <2>3, KeysAgree
  <2>5. ~KeyUnresolved(col, item)
    BY <1>2, <2>1 DEF KeyUnresolved, IsUnresolved
  <2> QED
    BY <2>4, <2>5 DEF KeyNow, now
<1> QED
  BY <1>4, <1>5

(***************************************************************************)
(* The fields expected of a resource.                                      *)
(***************************************************************************)
LEMMA FieldSlotSays ==
  ASSUME Comparing, NEW r \in Declared(set), NEW s \in FieldSlots(r), ~IsUnresolved(FieldSlotValue(s))
  PROVE  \/ s.reads \in DOMAIN KnownNow /\ FieldSlotValue(s) = KnownNow[s.reads]
         \/ FieldSlotValue(s).kind = "pending" /\ FieldSlotValue(s).of = s.name
<1>1. s \in set.slots /\ IsFieldSlot(s)
  BY DEF FieldSlots, SlotsOf
<1>2. s.reads \in ExposedValues
  BY <1>1, SetsHoldValues DEF Comparing, Reviewable, EverythingRead
<1>3. CASE Resolved(s)
  BY <1>1, <1>2, <1>3, SlotsAreSo DEF FieldSlotValue
<1>4. CASE ~Resolved(s)
  <2>1. FieldSlotValue(s) = Pending(s.name, After(s) \ {s.target}) \/ FieldSlotValue(s) = Reason(s)
    BY <1>4 DEF FieldSlotValue
  <2>2. ~IsUnresolved(Reason(s)) => FALSE
    BY DEF IsUnresolved, Reason
  <2> QED
    BY <2>1, <2>2 DEF Pending
<1> QED
  BY <1>3, <1>4

LEMMA ExpectedFieldsSay ==
  ASSUME Comparing, NEW r \in Declared(set)
  PROVE  /\ DOMAIN ExpectedFields(r) = GivenBy(set, r)
         /\ \A f \in DOMAIN ExpectedFields(r) :
              ~IsUnresolved(ExpectedFields(r)[f]) => SaysField(KnownNow, ExpectedFields(r)[f], r, f)
<1> DEFINE hand == set.resources[r].fields
           derived == {s \in FieldSlots(r) : ~Skipped(s)}
           slot(f) == CHOOSE s \in derived : s.field = f
<1>1. derived = FieldSlots(r)
  BY NothingFailed DEF Comparing, FieldSlots, SlotsOf
<1>2. FieldSlots(r) = FieldSlotsOf(set, r)
  BY DEF FieldSlots, FieldSlotsOf, SlotsOf
<1>3. DOMAIN ExpectedFields(r) = DOMAIN hand \cup {s.field : s \in derived}
  BY DEF ExpectedFields
<1>4. DOMAIN ExpectedFields(r) = GivenBy(set, r)
  BY <1>1, <1>2, <1>3 DEF GivenBy
<1>5. ASSUME NEW f \in DOMAIN ExpectedFields(r)
      PROVE  ExpectedFields(r)[f] = IF f \in DOMAIN hand THEN Resolve(hand[f]) ELSE FieldSlotValue(slot(f))
  BY <1>3 DEF ExpectedFields
<1>6. ASSUME NEW f \in DOMAIN ExpectedFields(r), f \in DOMAIN hand, ~IsUnresolved(ExpectedFields(r)[f])
      PROVE  SaysField(KnownNow, ExpectedFields(r)[f], r, f)
  <2>1. hand[f] \in DeclaredValues(set, r)
    BY <1>6 DEF DeclaredValues, Range
  <2>2. ResolvesTo(KnownNow, ExpectedFields(r)[f], hand[f])
    BY <1>5, <1>6, <2>1, ValuesResolve
  <2>3. Says(KnownNow, ExpectedFields(r)[f], hand[f])
    BY <1>6, <2>2, ResolvedSays
  <2> QED
    BY <1>6, <2>3 DEF SaysField
<1>7. ASSUME NEW f \in DOMAIN ExpectedFields(r), f \notin DOMAIN hand, ~IsUnresolved(ExpectedFields(r)[f])
      PROVE  SaysField(KnownNow, ExpectedFields(r)[f], r, f)
  <2>1. \E s \in derived : s.field = f
    BY <1>3, <1>7
  <2>2. slot(f) \in derived /\ slot(f).field = f
    BY <2>1
  <2> DEFINE s == slot(f)
  <2>3. s \in FieldSlots(r) /\ s \in FieldSlotsOf(set, r) /\ s.field = f
    BY <1>1, <1>2, <2>2
  <2>4. ExpectedFields(r)[f] = FieldSlotValue(s)
    BY <1>5, <1>7
  <2> HIDE DEF s
  <2>5. \/ s.reads \in DOMAIN KnownNow /\ FieldSlotValue(s) = KnownNow[s.reads]
        \/ FieldSlotValue(s).kind = "pending" /\ FieldSlotValue(s).of = s.name
    BY <1>7, <2>3, <2>4, FieldSlotSays
  <2> QED
    BY <1>7, <2>3, <2>4, <2>5 DEF SaysField
<1> QED
  BY <1>4, <1>6, <1>7

\* A field in which a live resource does not differ is right.
LEMMA FieldsAreRight ==
  ASSUME Comparing, NEW r \in Declared(set), r \in DOMAIN live, NEW f \in Fields[TypeOf[r]],
         \A d \in ResourceFieldDifferences(r) : d.field # f
  PROVE  FieldRight(live, KnownNow, r, f)
<1> DEFINE expected == ExpectedFields(r)
           is == LiveFields(r)
           shown == Shown(PlanID, r, "", NoKey)
<1>1. Reviewable /\ IsLive(r)
  BY ReadsAreSo DEF Comparing
<1>2. Tells(shown, Fields[TypeOf[r]], expected, is) /\ shown = ResourceFieldDifferences(r)
  BY <1>1, FieldsTell, ShownOfFields
<1>3. ASSUME NEW fs \in FieldStatuses(Fields[TypeOf[r]], expected, is) PROVE fs.field # f
  BY <1>2 DEF Tells
<1>4. is = live[r].fields /\ AllLiteral(is)
  <2>1. reads[r].is = live[r]
    BY ReadsAreSo
  <2> QED
    BY <2>1 DEF LiveFields, Comparing, ProviderInv, HoldsData, IsData
<1> HIDE DEF expected, is, shown
<1>5. /\ f \in DOMAIN expected <=> f \in DOMAIN is
      /\ f \in DOMAIN expected => ~IsUnresolved(expected[f]) /\ expected[f] = is[f]
  BY <1>3, StatusesSay
<1>6. CASE f \in DOMAIN expected
  <2>1. SaysField(KnownNow, expected[f], r, f)
    BY <1>5, <1>6, ExpectedFieldsSay DEF expected
  <2>2. expected[f].kind = "literal" /\ f \in DOMAIN live[r].fields /\ live[r].fields[f] = expected[f]
    BY <1>4, <1>5, <1>6 DEF AllLiteral
  <2> DEFINE v == expected[f]
  <2> HIDE DEF v
  <2>3. SaysField(KnownNow, v, r, f) /\ v.kind = "literal" /\ live[r].fields[f] = v
    BY <2>1, <2>2 DEF v
  <2> QED
    BY <2>2, <2>3, SaidFieldIsSo DEF Comparing, Reviewable, EverythingRead
<1>7. CASE f \notin DOMAIN expected
  <2>1. f \notin GivenBy(set, r) /\ f \notin DOMAIN live[r].fields
    BY <1>4, <1>5, <1>7, ExpectedFieldsSay DEF expected
  <2>2. f \notin DOMAIN set.resources[r].fields
    BY <2>1 DEF GivenBy
  <2> QED
    BY <2>1, <2>2 DEF FieldRight
<1> QED
  BY <1>6, <1>7

(***************************************************************************)
(* A comparison in which nothing is unresolved.                            *)
(***************************************************************************)
NothingUnresolved == \A r \in Declared(set) : \A d \in ResourceDifferences(r) : d.status # "unresolved"

LEMMA KeysAreSome ==
  ASSUME NEW col, NEW it, HasKey(col, it)
  PROVE  ItemKey(col, it) # NoKey
<1>1. DOMAIN ItemKey(col, it) # {}
  BY KeyIsPart DEF HasKey
<1>2. DOMAIN NoKey = {}
  BY DEF NoKey
<1> QED
  BY <1>1, <1>2

LEMMA ChildFieldsSay ==
  ASSUME Comparing, NEW r \in Declared(set), NEW col \in CollectionsOf(r), NEW e \in Matched(r, col)
  PROVE  /\ IsLive(r) /\ e \in ExpectedChildren(r, col) /\ ~KeyUnresolved(col, e.item)
         /\ Tells(ChildFieldDifferences(r, col, e), ItemFields[col], e.item,
                  CHOOSE li \in LiveAt(r, col, e.item) : TRUE)
         /\ \A d \in ChildFieldDifferences(r, col, e) : d \in ResourceDifferences(r)
<1>1. Reviewable /\ set \in Sets /\ e \in ExpectedChildren(r, col) /\ ~KeyUnresolved(col, e.item)
  BY MatchedAreLive DEF Comparing, Reviewable, EverythingRead
<1>2. IsLive(r) /\ \A d \in ChildFieldDifferences(r, col, e) : d \in ResourceDifferences(r)
  BY <1>1, ChildrenDiffer
<1>3. ItemKey(col, e.item) # NoKey
  BY <1>1, ExpectedHaveKeys, KeysAreSome
<1>4. Shown(PlanID, r, col, ItemKey(col, e.item)) = ChildFieldDifferences(r, col, e)
  BY <1>1, <1>2, <1>3, ShownOfAChild
<1>5. Tells(Shown(PlanID, r, col, ItemKey(col, e.item)), ItemFields[col], e.item,
               CHOOSE li \in LiveAt(r, col, e.item) : TRUE)
  BY <1>1, <1>2, <1>3, ChildFieldsTell
<1> QED
  BY <1>1, <1>2, <1>4, <1>5

LEMMA ChildrenAreResolved ==
  ASSUME Comparing, NothingUnresolved, NEW r \in Declared(set), NEW col \in CollectionsOf(r),
         NEW e \in ExpectedChildren(r, col)
  PROVE  ~HasUnresolved(e.item)
<1> SUFFICES ASSUME NEW f \in DOMAIN e.item, IsUnresolved(e.item[f]) PROVE FALSE
  BY DEF HasUnresolved
<1>1. Reviewable
  BY DEF Comparing
<1>2. CASE e \notin Matched(r, col)
  <2>1. PICK status : MissingChild(r, col, e, status) \in ResourceDifferences(r)
    BY <1>1, <1>2, ChildrenDiffer
  <2> DEFINE d == MissingChild(r, col, e, status)
  <2>2. OfMissing(d, col, e.item, status) /\ d \in ResourceDifferences(r)
    BY <2>1, MissingHolds
  <2> HIDE DEF d
  <2> QED
    BY <2>2 DEF OfMissing, HasUnresolved, NothingUnresolved
<1>3. CASE e \in Matched(r, col)
  <2> DEFINE li == CHOOSE l \in LiveAt(r, col, e.item) : TRUE
             item == e.item
             diffs == ChildFieldDifferences(r, col, e)
  <2>1. /\ ~KeyUnresolved(col, item) /\ Tells(diffs, ItemFields[col], item, li)
        /\ \A d \in diffs : d \in ResourceDifferences(r)
    BY <1>3, ChildFieldsSay
  <2>2. DOMAIN item \subseteq KeyFields(col, item) \cup ItemFields[col]
    BY <1>1, ExpectedChildrenAre
  <2>3. f \in DOMAIN item /\ IsUnresolved(item[f])
    OBVIOUS
  <2> HIDE DEF li, item, diffs
  <2>4. f \notin KeyFields(col, item)
    <3>1. DOMAIN ItemKey(col, item) = KeyFields(col, item) \cap DOMAIN item
      BY KeyIsPart
    <3> QED
      BY <2>1, <2>3, <3>1 DEF KeyUnresolved
  <2>5. f \in ItemFields[col]
    BY <2>2, <2>3, <2>4
  <2>6. \E fs \in FieldStatuses(ItemFields[col], item, li) : fs.field = f
    BY <2>3, <2>5, StatusesSay
  <2>7. PICK d \in diffs : d.field = f
    BY <2>1, <2>6 DEF Tells
  <2>8. d.status = "unresolved"
    BY <2>1, <2>3, <2>5, <2>7, StatusesSay DEF Tells
  <2> QED
    BY <2>1, <2>7, <2>8 DEF NothingUnresolved
<1> QED
  BY <1>2, <1>3

LEMMA FieldsAreResolved ==
  ASSUME Comparing, NothingUnresolved, NEW r \in Declared(set)
  PROVE  /\ ~HasUnresolved(ExpectedFields(r)) /\ ResolvedFields(r) = ExpectedFields(r)
         /\ \A f \in DOMAIN ResolvedFields(r) : SaysField(KnownNow, ResolvedFields(r)[f], r, f)
         /\ DOMAIN ResolvedFields(r) = GivenBy(set, r)
<1> DEFINE expected == ExpectedFields(r)
<1>0. Reviewable
  BY DEF Comparing
<1>1. ASSUME NEW f \in DOMAIN expected, IsUnresolved(expected[f]) PROVE FALSE
  <2>1. CASE IsLive(r)
    <3>1. Tells(ResourceFieldDifferences(r), Fields[TypeOf[r]], expected, LiveFields(r))
      BY <1>0, <2>1, FieldsTell, ShownOfFields
    <3>2. f \in Fields[TypeOf[r]]
      <4>1. DOMAIN expected \subseteq DOMAIN set.resources[r].fields \cup Fields[TypeOf[r]]
        BY <1>0, ExpectedFieldsAre
      <4>2. \A g \in DOMAIN set.resources[r].fields \ Fields[TypeOf[r]] : ~IsUnresolved(expected[g])
        BY <1>0, ExpectedFieldsAre
      <4> QED
        BY <1>1, <4>1, <4>2
    <3> HIDE DEF expected
    <3>3. \E fs \in FieldStatuses(Fields[TypeOf[r]], expected, LiveFields(r)) : fs.field = f
      BY <1>1, <3>2, StatusesSay
    <3>4. PICK d \in ResourceFieldDifferences(r) : d.field = f
      BY <3>1, <3>3 DEF Tells
    <3>5. d.status = "unresolved"
      BY <1>1, <3>1, <3>2, <3>4, StatusesSay DEF Tells
    <3>6. d \in ResourceDifferences(r)
      BY <1>0, <2>1, NothingFailed DEF ResourceDifferences
    <3> QED
      BY <3>5, <3>6 DEF NothingUnresolved
  <2>2. CASE ~IsLive(r)
    <3> DEFINE status == IF HasUnresolved(expected) THEN "unresolved" ELSE "missing"
               d == Difference(status, r, "", NoKey, "", expected, NoKey, r)
    <3>1. d \in ResourceDifferences(r)
      BY <1>0, <2>2, NothingFailed DEF ResourceDifferences, MissingDifferences
    <3>2. d.status = "unresolved"
      BY <1>1 DEF HasUnresolved, Difference
    <3> QED
      BY <3>1, <3>2 DEF NothingUnresolved
  <2> QED
    BY <2>1, <2>2
<1>2. {f \in DOMAIN expected : ~IsUnresolved(expected[f])} = DOMAIN expected
  BY <1>1
<1>3. expected = [f \in DOMAIN expected |-> expected[f]]
  BY DEF ExpectedFields
<1>4. ResolvedFields(r) = expected
  BY <1>2, <1>3 DEF ResolvedFields, Restrict
<1> QED
  BY <1>1, <1>4, ExpectedFieldsSay DEF HasUnresolved

LEMMA SlotsAreResolvedOrPending ==
  ASSUME Comparing, NothingUnresolved, NEW s \in set.slots, ~IsFieldSlot(s), ~Resolved(s)
  PROVE  IsPending(s)
<1> DEFINE r == s.target
           d == SlotDifference(s)
<1>1. Unresolved(s) /\ Reviewable
  BY SlotsAreSo DEF Comparing
<1>2. r \in Declared(set)
  BY SetsAreLoaded DEF LoadChecked, Comparing, Reviewable, EverythingRead
<1>3. s \in SlotsOf(set, r)
  BY DEF SlotsOf
<1>4. d \in SlotDifferences(r)
  BY <1>1, <1>3, SlotDifferencesAre
<1>5. d \in ResourceDifferences(r)
  BY <1>1, <1>2, <1>4, NothingFailed DEF ResourceDifferences
<1>6. d.status = IF IsPending(s) THEN "missing" ELSE "unresolved"
  BY DEF SlotDifference, Difference
<1> QED
  BY <1>2, <1>5, <1>6 DEF NothingUnresolved

(***************************************************************************)
(* What the changes of such a comparison are, each with its difference.    *)
(***************************************************************************)
Compares == Comparing /\ NothingUnresolved

LEMMA ChangeForHolds ==
  ASSUME NEW d
  PROVE  LET c == ChangeFor(d) IN
         /\ c.action = ActionOf(d.status) /\ c.res = d.res /\ c.col = d.col /\ c.key = d.key
         /\ c.field = d.field /\ c.claim = {} /\ c.slot = NoSlot /\ c.fields = ResolvedFields(d.res)
         /\ d.col # "" => c.item = ItemFor(d)
BY DEF ChangeFor, OfDeclared, Change

LEMMA DifferencesAreChanged ==
  ASSUME Compares, NEW r \in Declared(set), NEW d \in ResourceDifferences(r),
         d.status \in {"missing", "changed", "unexpected"}, d.key # NoKey \/ d.col = ""
  PROVE  ChangeFor(d) \in AtOnce(ChangesFor(Differences))
<1>1. d \in Differences /\ ~IsSlotDifference(d)
  BY OnlyResourcesDiffer DEF IsSlotDifference, Compares, Comparing
<1>2. ChangeFor(d) \in ChangesFor(Differences)
  <2>1. ChangeFor(d) \in {ChangeFor(o) : o \in {e \in Differences :
                                  /\ e.status \in {"missing", "changed", "unexpected"}
                                  /\ ~IsSlotDifference(e)}}
    BY <1>1
  <2> QED
    BY <2>1, Zenon DEF ChangesFor
<1>3. ~IsDeferred(ChangeFor(d))
  BY ChangeForHolds DEF IsDeferred
<1> QED
  BY <1>2, <1>3 DEF AtOnce

\* The child a change of an expected one carries.
LEMMA ItemForExpected ==
  ASSUME Compares, NEW r \in Declared(set), NEW col \in CollectionsOf(r),
         NEW e \in ExpectedChildren(r, col), NEW d, d.res = r, d.col = col, d.key = ItemKey(col, e.item),
         d.status # "unexpected"
  PROVE  ItemFor(d) = e.item
<1>0. Reviewable
  BY DEF Compares, Comparing
<1>1. ~HasUnresolved(e.item)
  BY ChildrenAreResolved DEF Compares
<1>2. ~KeyUnresolved(col, e.item)
  BY <1>1, ResolvedHaveKeys
<1> DEFINE those == {it \in ResolvedChildren(r, col) : ItemKey(col, it) = d.key}
<1>3. ResolvedAs(r, col, e) = {e.item}
  BY <1>1 DEF ResolvedAs
<1>4. those = {e.item}
  BY <1>0, <1>2, <1>3, ResolvedAtAKey
<1>5. ItemFor(d) = CHOOSE it \in those : TRUE
  BY <1>4 DEF ItemFor
<1> QED
  BY <1>4, <1>5

\* What is expected, with what is declared.
LEMMA ExpectedAre ==
  ASSUME Compares, NEW W, Awaits(W), NEW r \in Declared(set), NEW col \in CollectionsOf(r),
         NEW e \in ExpectedChildren(r, col)
  PROVE  /\ e.declared \in Items(W, r, col) /\ e.declared \in Items({}, r, col)
         /\ SaysItem(KnownNow, e.item, e.declared) /\ ItemKey(col, e.item) # NoKey
         /\ KeyKnown(KnownNow, col, e.declared)
              <=> \A f \in DOMAIN ItemKey(col, e.item) : e.item[f].kind = "literal"
         /\ KeyKnown(KnownNow, col, e.declared)
              => KeyNow(KnownNow, col, e.declared) = ItemKey(col, e.item) /\ ~KeyUnresolved(col, e.item)
<1>1. Comparing /\ set \in Sets /\ AllLiteral(KnownNow)
  BY DEF Compares, Comparing, Reviewable, EverythingRead, ProviderInv, AllLiteral, KnownNow, Known
<1>2. e.declared \in Items(W, r, col) /\ Expects(KnownNow, e.item, e.declared)
  BY <1>1, ExpectedAreDeclared
<1>3. e.declared \in Items({}, r, col)
  BY <1>2 DEF Items
<1>4. HasKey(col, e.declared) /\ IsWritten(e.declared)
  BY <1>1, <1>3, ItemsAreWritten
<1>5. ~HasUnresolved(e.item)
  BY ChildrenAreResolved DEF Compares
<1>6. SaysItem(KnownNow, e.item, e.declared)
  BY <1>2, <1>5, ExpectedSays
<1>7. ItemKey(col, e.item) # NoKey
  BY <1>1, ExpectedHaveKeys, KeysAreSome
<1> DEFINE item == e.item
           it == e.declared
           X == KnownNow
<1>8. AllLiteral(X) /\ Expects(X, item, it) /\ IsWritten(it) /\ HasKey(col, it)
  BY <1>1, <1>2, <1>4
<1> HIDE DEF item, it, X
<1>9. /\ KeyKnown(X, col, it) <=> \A f \in DOMAIN ItemKey(col, item) : item[f].kind = "literal"
      /\ KeyKnown(X, col, it) => KeyNow(X, col, it) = ItemKey(col, item) /\ ~KeyUnresolved(col, item)
  BY <1>8, ExpectedKeys
<1> QED
  BY <1>2, <1>3, <1>6, <1>7, <1>9 DEF item, it, X

\* The children of a collection that differ, and how.
ExpectedDiffers(r, col, d) ==
  \E e \in ExpectedChildren(r, col) :
    /\ d.key = ItemKey(col, e.item)
    /\ \/ d.status = "missing"
       \/ d.status = "changed" /\ e \in Matched(r, col) /\ d.field \in ItemFields[col]
IsUnexpected(r, col, d) ==
  \E li \in Unmatched(r, col) : Unexpected(r, col, li) /\ d = UnexpectedChild(r, col, li)

LEMMA ChildrenDifferSo ==
  ASSUME Compares, NEW r \in Declared(set), NEW d \in ResourceDifferences(r), d.col # "", d.key # NoKey
  PROVE  d.col \in CollectionsOf(r) /\ (ExpectedDiffers(r, d.col, d) \/ IsUnexpected(r, d.col, d))
<1> DEFINE col == d.col
<1>0. Reviewable /\ Comparing /\ d.status # "unresolved"
  BY DEF Compares, Comparing, NothingUnresolved
<1>1. d \notin SlotDifferences(r)
  BY <1>0, SlotDifferencesSit
<1>2. col \in CollectionsOf(r) /\ ChildDiffers(r, col, d)
  BY <1>0, <1>1, ChildDiffersBy
<1> HIDE DEF col
<1>3. ASSUME NEW e \in Matched(r, col), d \in ChildFieldDifferences(r, col, e)
      PROVE  ExpectedDiffers(r, col, d)
  <2> DEFINE li == CHOOSE l \in LiveAt(r, col, e.item) : TRUE
  <2>1. /\ e \in ExpectedChildren(r, col)
        /\ Tells(ChildFieldDifferences(r, col, e), ItemFields[col], e.item, li)
    BY <1>0, <1>2, ChildFieldsSay
  <2> HIDE DEF li
  <2>2. PICK fs \in FieldStatuses(ItemFields[col], e.item, li) :
          d.field = fs.field /\ d.status = fs.status
    BY <1>3, <2>1 DEF Tells
  <2>3. d.field \in ItemFields[col] /\ d.status = "changed"
    BY ONLY <1>0, <2>2, FieldsDifferForAReason, ZenonT(40)
  <2>4. d.key = ItemKey(col, e.item)
    BY <1>3, ChildFieldHolds, ZenonT(40)
  <2> QED
    BY <2>1, <2>3, <2>4 DEF ExpectedDiffers
<1>4. ASSUME NEW e \in ExpectedChildren(r, col), NEW status \in {"missing", "unresolved"},
             d = MissingChild(r, col, e, status)
      PROVE  ExpectedDiffers(r, col, d)
  <2>1. OfMissing(d, col, e.item, status)
    BY <1>4, MissingHolds
  <2> QED
    BY <1>0, <2>1 DEF OfMissing, ExpectedDiffers
<1>5. ASSUME NEW li \in LiveChildren(r, col), d = UnexpectedChild(r, col, li)
      PROVE  ExpectedDiffers(r, col, d) \/ IsUnexpected(r, col, d)
  <2>1. d.status = "unexpected" /\ li \in LiveChildren(r, col) /\ IsLive(r)
    BY <1>5, UnexpectedHolds DEF OfUnexpected, LiveChildren
  <2>2. d \in CollectionDifferences(r, col)
    <3>1. d \notin ResourceFieldDifferences(r)
      <4>1. d \in ResourceFieldDifferences(r) => d.col = ""
        BY DifferencesSit DEF Sits
      <4> QED
        BY <4>1
    <3>2. PICK c \in CollectionsOf(r) : d \in CollectionDifferences(r, c)
      <4>1. d \in UNION {CollectionDifferences(r, c) : c \in CollectionsOf(r)}
        BY <1>1, <2>1, <3>1, Zenon DEF ResourceDifferences
      <4> QED
        BY <4>1
    <3>3. d.col = c
      BY <3>2, ChildrenDifferInTheirCollection
    <3> QED
      BY <3>2, <3>3 DEF col
  <2> DEFINE diffs(e) == ChildFieldDifferences(r, col, e)
             missing == {MissingChild(r, col, e, "missing") : e \in ExpectedChildren(r, col) \ Matched(r, col)}
             unexpected == {UnexpectedChild(r, col, l) : l \in {m \in Unmatched(r, col) : Unexpected(r, col, m)}}
  <2>3. d \in (UNION {diffs(e) : e \in Matched(r, col)}) \cup missing \cup unexpected
    BY <2>2, Zenon DEF CollectionDifferences
  <2>4. CASE d \in UNION {diffs(e) : e \in Matched(r, col)}
    BY <1>3, <2>4
  <2>5. CASE d \in missing
    BY <1>4, <2>5
  <2>6. CASE d \in unexpected
    BY <2>6 DEF IsUnexpected
  <2> HIDE DEF diffs, missing, unexpected
  <2> QED
    BY <2>3, <2>4, <2>5, <2>6
<1> QED
  BY <1>2, <1>3, <1>4, <1>5 DEF ChildDiffers, col

(***************************************************************************)
(* The changes of such a comparison make what is declared so.              *)
(***************************************************************************)
ToDo    == AtOnce(ChangesFor(Differences))
ToAwait == WaitingIn(ChangesFor(Differences))

LEMMA PlanAwaits ==
  ASSUME Compares
  PROVE  Awaits(ToAwait)
<1>0. Reviewable /\ Comparing /\ set \in Sets
  BY DEF Compares, Comparing, Reviewable, EverythingRead
<1>1. ASSUME NEW s \in ToAwait PROVE ~Resolved(s)
  <2>1. PICK c \in ChangesFor(Differences) : IsDeferred(c) /\ c.slot = s
    BY DEF ToAwait, WaitingIn
  <2>2. c \in DeferredChanges
    BY <1>0, <2>1, ChangesAre
  <2>3. IsPending(s)
    BY <2>1, <2>2, DeferredAre
  <2> QED
    BY <2>3 DEF IsPending, Unresolved, Resolved
<1>2. ASSUME NEW s \in set.slots, ~IsFieldSlot(s), ~Resolved(s) PROVE s \in ToAwait
  <2>1. IsPending(s)
    BY <1>2, SlotsAreResolvedOrPending DEF Compares
  <2>2. s.target \in Declared(set)
    BY <1>0, SetsAreLoaded DEF LoadChecked
  <2>3. Readable(s.target)
    <3>1. \A r \in Declared(set) : Readable(r)
      BY ONLY <1>0, NothingFailed, ZenonT(40)
    <3> QED
      BY <2>2, <3>1
  <2> DEFINE of(t) == [OfDeclared(Change("create", t.target, t.col, NoKey, ""))
                   EXCEPT !.slot = t, !.after = After(t),
                     !.covered = {li \in LiveChildren(t.target, t.col) : MatchesAll(li, t.match)}]
  <2>4. of(s) \in DeferredChanges
    BY <1>2, <2>1, <2>3 DEF DeferredChanges
  <2>5. of(s).slot = s
    BY DEF OfDeclared, Change
  <2> HIDE DEF of
  <2>6. of(s) \in ChangesFor(Differences) /\ IsDeferred(of(s))
    BY <1>0, <2>4, <2>5, SetsHoldValues DEF ChangesFor, IsDeferred
  <2> QED
    BY <2>5, <2>6 DEF ToAwait, WaitingIn
<1> QED
  BY <1>1, <1>2 DEF Awaits

LEMMA OnlyAgree ==
  ASSUME NEW a, NEW b, NEW f, f \in DOMAIN a <=> f \in DOMAIN b, f \in DOMAIN a => a[f] = b[f]
  PROVE  Only(a, f) = Only(b, f)
<1>1. {f} \cap DOMAIN a = {f} \cap DOMAIN b
  OBVIOUS
<1> QED
  BY <1>1 DEF Only, Restrict

LEMMA MatchedAreKnown ==
  ASSUME Compares, NEW W, Awaits(W), NEW r \in Declared(set), NEW col \in CollectionsOf(r),
         NEW e \in Matched(r, col)
  PROVE  /\ r \in DOMAIN live /\ e \in ExpectedChildren(r, col)
         /\ KeyKnown(KnownNow, col, e.declared) /\ KeyNow(KnownNow, col, e.declared) = ItemKey(col, e.item)
         /\ LiveAt(r, col, e.item) = LiveWith(live, r, col, ItemKey(col, e.item))
         /\ LiveAt(r, col, e.item) # {}
         /\ \A a, b \in LiveAt(r, col, e.item) : a = b
<1>1. Comparing /\ Reviewable
  BY DEF Compares, Comparing
<1>2. /\ e \in ExpectedChildren(r, col) /\ ~KeyUnresolved(col, e.item) /\ LiveAt(r, col, e.item) # {}
      /\ \A li : li \in LiveAt(r, col, e.item)
                      <=> li \in LiveChildren(r, col) /\ ItemKey(col, li) = ItemKey(col, e.item)
  BY MatchedAreLive
<1>3. r \in DOMAIN live /\ LiveChildren(r, col) = live[r].children[col]
  BY <1>1, <1>2, ReadsAreSo
<1>4. LiveAt(r, col, e.item) = LiveWith(live, r, col, ItemKey(col, e.item))
  BY <1>2, <1>3 DEF LiveWith
<1>5. KeyKnown(KnownNow, col, e.declared)
  BY <1>1, <1>2, MatchedKeysAreData, ExpectedAre
<1>6. KeyNow(KnownNow, col, e.declared) = ItemKey(col, e.item)
  BY <1>2, <1>5, ExpectedAre
<1>7. \A a, b \in LiveAt(r, col, e.item) : a = b
  BY <1>1, <1>2, <1>3 DEF Comparing, ProviderKeyed, ChildrenKeyed, Apart
<1> QED
  BY <1>2, <1>3, <1>4, <1>5, <1>6, <1>7

\* A field in which a child there does not differ is as declared.
LEMMA ChildFieldsAreRight ==
  ASSUME Compares, NEW W, Awaits(W), NEW r \in Declared(set), NEW col \in CollectionsOf(r),
         NEW e \in Matched(r, col), NEW f \in ItemFields[col],
         \A d \in ChildFieldDifferences(r, col, e) : d.field # f, NEW li \in LiveAt(r, col, e.item)
  PROVE  Only(li, f) = Only(NowItem(KnownNow, e.declared), f)
<1>1. Comparing /\ Reviewable /\ set \in Sets /\ AllLiteral(KnownNow)
  BY DEF Compares, Comparing, Reviewable, EverythingRead, ProviderInv, AllLiteral, KnownNow, Known
<1> DEFINE one == CHOOSE l \in LiveAt(r, col, e.item) : TRUE
           item == e.item
           it == e.declared
           X == KnownNow
<1>2. one = li
  BY MatchedAreKnown
<1>3. Tells(ChildFieldDifferences(r, col, e), ItemFields[col], item, one) /\ e \in ExpectedChildren(r, col)
  BY <1>1, ChildFieldsSay
<1>4. AllLiteral(li)
  <2>1. li \in LiveChildren(r, col)
    BY DEF LiveAt
  <2> QED
    BY <1>1, <2>1, LiveChildrenAreData
<1>5. SaysItem(X, item, it) /\ IsWritten(it) /\ AllLiteral(X)
  <2>1. it \in Items({}, r, col) /\ SaysItem(X, item, it)
    BY <1>3, ExpectedAre
  <2> QED
    BY <1>1, <2>1, ItemsAreWritten
<1> HIDE DEF one, item, it, X
<1>6. \A fs \in FieldStatuses(ItemFields[col], item, one) : fs.field # f
  BY <1>3 DEF Tells
<1>7. /\ f \in DOMAIN item <=> f \in DOMAIN li
      /\ f \in DOMAIN item => item[f] = li[f]
  BY <1>2, <1>6, StatusesSay
<1>8. f \in DOMAIN item => item[f] = Now(X, it[f])
  <2> SUFFICES ASSUME f \in DOMAIN item PROVE item[f] = Now(X, it[f])
    OBVIOUS
  <2>1. Says(X, item[f], it[f])
    BY <1>5 DEF SaysItem
  <2>2. item[f].kind = "literal"
    BY <1>4, <1>7 DEF AllLiteral
  <2> QED
    BY <2>1, <2>2, SaidIsSo
<1> DEFINE now == NowItem(X, it)
<1>9. DOMAIN now = DOMAIN item /\ \A g \in DOMAIN it : now[g] = Now(X, it[g])
  BY <1>5, NowHolds DEF SaysItem
<1> HIDE DEF now
<1>10. (f \in DOMAIN li <=> f \in DOMAIN now) /\ (f \in DOMAIN li => li[f] = now[f])
  BY <1>5, <1>7, <1>8, <1>9 DEF SaysItem
<1>11. Only(li, f) = Only(now, f)
  BY <1>10, OnlyAgree
<1> QED
  BY <1>11 DEF now, X, it

LEMMA ItemsAreToBe ==
  ASSUME Compares, NEW W, Awaits(W), NEW r \in Declared(set), NEW col \in CollectionsOf(r),
         NEW it \in Items(W, r, col)
  PROVE  ItemToBe(live, KnownNow, ToDo, r, col, it)
<1>1. Comparing /\ Reviewable
  BY DEF Compares, Comparing
<1>2. PICK e \in ExpectedChildren(r, col) : e.declared = it
  BY DeclaredAreExpected
<1>3. SaysItem(KnownNow, e.item, it) /\ ItemKey(col, e.item) # NoKey
  BY <1>2, ExpectedAre
<1>4. CASE e \notin Matched(r, col)
  <2>1. PICK status \in {"missing", "unresolved"} : MissingChild(r, col, e, status) \in ResourceDifferences(r)
    BY <1>1, <1>4, ChildrenDiffer
  <2> DEFINE d == MissingChild(r, col, e, status)
  <2>2. OfMissing(d, col, e.item, status) /\ Sits(d, r, col, ItemKey(col, e.item)) /\ d.field = ""
    BY MissingHolds, DifferencesSit DEF MissingChild, Difference
  <2>3. d \in ResourceDifferences(r)
    BY <2>1
  <2> HIDE DEF d
  <2>4. d.status = "missing" /\ d.res = r /\ d.col = col /\ d.key = ItemKey(col, e.item)
    BY <2>2, <2>3 DEF OfMissing, Sits, Compares, NothingUnresolved
  <2> DEFINE c == ChangeFor(d)
  <2>5. c \in ToDo
    BY <1>3, <2>3, <2>4, DifferencesAreChanged DEF ToDo
  <2>6. col # ""
    BY <1>1, CollectionsAreNamed
  <2>7. c.action = "create" /\ c.res = r /\ c.col = col /\ c.key = ItemKey(col, e.item) /\ c.item = ItemFor(d)
    BY <2>4, <2>6, ChangeForHolds DEF ActionOf
  <2>8. ItemFor(d) = e.item
    BY <2>4, ItemForExpected
  <2> HIDE DEF c
  <2>9. Makes(KnownNow, c, r, col, it)
    BY <1>3, <2>7, <2>8 DEF Makes, On
  <2> QED
    BY <2>5, <2>9 DEF ItemToBe
<1>5. CASE e \in Matched(r, col)
  <2>1. /\ r \in DOMAIN live /\ KeyKnown(KnownNow, col, it) /\ KeyNow(KnownNow, col, it) = ItemKey(col, e.item)
        /\ LiveAt(r, col, e.item) = LiveWith(live, r, col, KeyNow(KnownNow, col, it))
        /\ LiveAt(r, col, e.item) # {}
    BY <1>2, <1>5, MatchedAreKnown
  <2>2. ASSUME NEW li \in LiveAt(r, col, e.item), NEW f \in ItemFields[col]
        PROVE  \/ Only(li, f) = Only(NowItem(KnownNow, it), f)
               \/ \E c \in ToDo : Mends(KnownNow, c, r, col, it, f)
    <3>1. CASE \A d \in ChildFieldDifferences(r, col, e) : d.field # f
      BY <1>2, <1>5, <2>2, <3>1, ChildFieldsAreRight
    <3>2. CASE \E d \in ChildFieldDifferences(r, col, e) : d.field = f
      <4>1. PICK d \in ChildFieldDifferences(r, col, e) : d.field = f
        BY <3>2
      <4>2. d \in ResourceDifferences(r)
        BY <1>1, <1>5, ChildFieldsSay
      <4>3. /\ d.res = r /\ d.col = col /\ d.key = ItemKey(col, e.item) /\ d.status = "changed"
        <5>1. Sits(d, r, col, ItemKey(col, e.item))
          BY <4>1, DifferencesSit
        <5>2. d.status \in {"unresolved", "changed"}
          BY <4>1, ChildFieldHolds
        <5>3. d.status # "unresolved"
          BY <4>2 DEF Compares, NothingUnresolved
        <5> QED
          BY <5>1, <5>2, <5>3 DEF Sits
      <4> DEFINE c == ChangeFor(d)
      <4>4. c \in ToDo
        BY <1>3, <4>2, <4>3, DifferencesAreChanged DEF ToDo
      <4>5. col # ""
        BY <1>1, CollectionsAreNamed
      <4>6. c.action = "update" /\ c.res = r /\ c.col = col /\ c.key = ItemKey(col, e.item)
            /\ c.item = ItemFor(d) /\ c.field = f
        BY <4>1, <4>3, <4>5, ChangeForHolds DEF ActionOf
      <4>7. ItemFor(d) = e.item
        BY <4>3, ItemForExpected
      <4> HIDE DEF c
      <4>8. Mends(KnownNow, c, r, col, it, f)
        BY <1>3, <2>1, <4>6, <4>7 DEF Mends, On
      <4> QED
        BY <4>4, <4>8
    <3> QED
      BY <3>1, <3>2
  <2>3. ItemThere(live, KnownNow, ToDo, r, col, it)
    BY <2>1, <2>2 DEF ItemThere
  <2> QED
    BY <2>3 DEF ItemToBe
<1> QED
  BY <1>4, <1>5

(***************************************************************************)
(* What they remove is what nothing declares or leaves alone.              *)
(***************************************************************************)
LEMMA LiveKeyed ==
  ASSUME Comparing, NEW r \in Declared(set), NEW col \in CollectionsOf(r), NEW li \in LiveChildren(r, col)
  PROVE  /\ IsLive(r) /\ r \in DOMAIN live /\ li \in live[r].children[col]
         /\ HasKey(col, li) /\ ItemKey(col, li) # NoKey
         /\ \A other \in live[r].children[col] : ItemKey(col, other) = ItemKey(col, li) => other = li
<1>1. r \in DOMAIN live /\ li \in live[r].children[col] /\ IsLive(r)
  BY ReadsAreSo
<1>2. HasKey(col, li) /\ Apart(col, live[r].children[col])
  BY <1>1 DEF Comparing, ProviderKeyed, ChildrenKeyed
<1> QED
  BY <1>1, <1>2, KeysAreSome DEF Apart

LEMMA UnexpectedAreDropped ==
  ASSUME Compares, NEW r \in Declared(set), NEW col \in CollectionsOf(r), NEW li \in Unmatched(r, col),
         Unexpected(r, col, li)
  PROVE  \E c \in ToDo : Drops(c, r, col, ItemKey(col, li))
<1> DEFINE d == UnexpectedChild(r, col, li)
<1>0. Reviewable /\ Comparing
  BY DEF Compares, Comparing
<1>1. li \in LiveChildren(r, col)
  BY DEF Unmatched
<1>2. IsLive(r) /\ ItemKey(col, li) # NoKey
  BY <1>0, <1>1, LiveKeyed
<1>3. d \in CollectionDifferences(r, col)
  <2>1. d \in {UnexpectedChild(r, col, l) : l \in {m \in Unmatched(r, col) : Unexpected(r, col, m)}}
    OBVIOUS
  <2> QED
    BY <2>1, Zenon DEF CollectionDifferences
<1>4. d \in ResourceDifferences(r)
  <2>1. d \in UNION {CollectionDifferences(r, c) : c \in CollectionsOf(r)}
    BY <1>3
  <2>2. Readable(r)
    BY <1>0, NothingFailed
  <2> QED
    BY <1>2, <2>1, <2>2, Zenon DEF ResourceDifferences
<1>5. d.status = "unexpected" /\ d.res = r /\ d.col = col /\ d.key = ItemKey(col, li)
  <2>1. OfUnexpected(d, col, li)
    BY UnexpectedHolds
  <2>2. Sits(d, r, col, ItemKey(col, li))
    BY DifferencesSit
  <2> QED
    BY <2>1, <2>2 DEF OfUnexpected, Sits
<1> HIDE DEF d
<1>6. ChangeFor(d) \in ToDo
  BY <1>2, <1>4, <1>5, DifferencesAreChanged DEF ToDo
<1> DEFINE c == ChangeFor(d)
<1>7. Drops(c, r, col, ItemKey(col, li))
  BY <1>5, ChangeForHolds DEF ActionOf, Drops, On
<1> HIDE DEF c
<1> QED
  BY <1>6, <1>7 DEF c

LEMMA ChildrenComeRight ==
  ASSUME Compares, NEW r \in Declared(set), r \in DOMAIN live, NEW col \in CollectionsOf(r),
         NEW li \in live[r].children[col]
  PROVE  ChildToBe(KnownNow, ToDo, ToAwait, r, col, li)
<1>0. Comparing /\ Awaits(ToAwait)
  BY PlanAwaits DEF Compares
<1>1. li \in LiveChildren(r, col)
  BY <1>0, ReadsAreSo
<1>2. CASE li \notin Unmatched(r, col)
  <2>1. PICK e \in Matched(r, col) : li \in LiveAt(r, col, e.item)
    BY <1>1, <1>2 DEF Unmatched
  <2>2. KeyKnown(KnownNow, col, e.declared) /\ KeyNow(KnownNow, col, e.declared) = ItemKey(col, e.item)
        /\ e \in ExpectedChildren(r, col)
    BY <1>0, MatchedAreKnown
  <2>3. ItemKey(col, li) = ItemKey(col, e.item)
    BY <2>1 DEF LiveAt
  <2>4. e.declared \in Items(ToAwait, r, col)
    BY <1>0, <2>2, ExpectedAre
  <2> QED
    BY <2>2, <2>3, <2>4 DEF ChildToBe
<1>3. CASE li \in Unmatched(r, col) /\ Unexpected(r, col, li)
  BY <1>3, UnexpectedAreDropped DEF ChildToBe
<1>4. CASE ~Unexpected(r, col, li)
  <2>1. CASE Covering(r, col, li) = {}
    BY <1>4, <2>1 DEF Unexpected, ChildToBe
  <2>2. CASE Covering(r, col, li) # {}
    <3>1. PICK s \in Covering(r, col, li) : ~Resolved(s)
      BY <1>4, <2>2 DEF Unexpected
    <3>2. s \in SlotsOn(r, col) /\ MatchesAll(li, s.match) /\ s \in set.slots /\ ~IsFieldSlot(s)
      BY DEF Covering, SlotsOn, SlotsOf
    <3>3. s \in ToAwait
      BY <1>0, <3>1, <3>2 DEF Awaits
    <3> QED
      BY <3>2, <3>3 DEF ChildToBe
  <2> QED
    BY <2>1, <2>2
<1> QED
  BY <1>2, <1>3, <1>4

\* How a resource itself differs.
LEMMA ResourceDiffersSo ==
  ASSUME Compares, NEW r \in Declared(set), NEW d \in ResourceDifferences(r), d.col = ""
  PROVE  /\ d.res = r
         /\ \/ IsLive(r) /\ d.status = "changed" /\ d.field \in Fields[TypeOf[r]]
            \/ ~IsLive(r) /\ d.status = "missing" /\ d.field = ""
<1>0. Reviewable /\ Comparing /\ d.status # "unresolved" /\ Readable(r)
  BY NothingFailed DEF Compares, Comparing, NothingUnresolved
<1>1. d \notin SlotDifferences(r)
  BY <1>0, SlotDifferencesSit
<1>2. CASE IsLive(r)
  <2>1. ASSUME NEW col \in CollectionsOf(r), d \in CollectionDifferences(r, col) PROVE FALSE
    BY <1>0, <2>1, CollectionsAreNamed, ChildrenDifferInTheirCollection
  <2>2. d \in ResourceFieldDifferences(r)
    <3>1. d \notin UNION {CollectionDifferences(r, col) : col \in CollectionsOf(r)}
      BY <2>1
    <3> QED
      BY <1>0, <1>1, <1>2, <3>1, Zenon DEF ResourceDifferences
  <2>3. Sits(d, r, "", NoKey)
    BY <2>2, DifferencesSit
  <2>4. PICK fs \in FieldStatuses(Fields[TypeOf[r]], ExpectedFields(r), LiveFields(r)) :
          d.field = fs.field /\ d.status = fs.status
    BY <1>0, <1>2, <2>2, FieldsTell, ShownOfFields DEF Tells
  <2>5. fs.field \in Fields[TypeOf[r]] /\ fs.status \in {"unresolved", "changed"}
    BY FieldsDifferForAReason
  <2> QED
    BY <1>0, <1>2, <2>3, <2>4, <2>5 DEF Sits
<1>3. CASE ~IsLive(r)
  <2> DEFINE expected == ExpectedFields(r)
             status == IF HasUnresolved(expected) THEN "unresolved" ELSE "missing"
             children == UNION {{col} \X ExpectedChildren(r, col) : col \in CollectionsOf(r)}
             own == Difference(status, r, "", NoKey, "", expected, NoKey, r)
             others == {MissingChild(r, p[1], p[2], status) : p \in children}
  <2>1. d \in {own} \cup others
    BY <1>0, <1>1, <1>3, Zenon DEF ResourceDifferences, MissingDifferences
  <2>2. d \notin others
    <3>1. ASSUME NEW p \in children PROVE MissingChild(r, p[1], p[2], status).col # ""
      <4>1. p[1] \in CollectionsOf(r)
        <5>1. PICK col \in CollectionsOf(r) : p \in {col} \X ExpectedChildren(r, col)
          OBVIOUS
        <5> QED
          BY <5>1
      <4>2. Sits(MissingChild(r, p[1], p[2], status), r, p[1], ItemKey(p[1], p[2].item))
        <5> HIDE DEF status
        <5> QED
          BY DifferencesSit
      <4> QED
        BY <1>0, <4>1, <4>2, CollectionsAreNamed DEF Sits
    <3> QED
      BY <3>1
  <2>3. d = own
    BY <2>1, <2>2
  <2>4. d.status = status /\ d.res = r /\ d.field = ""
    BY <2>3 DEF Difference
  <2> QED
    BY <1>0, <1>3, <2>4
<1> QED
  BY <1>2, <1>3

\* The changes a comparison calls for at once, each with its difference.
Calls(c, r, d) ==
  /\ d \in ResourceDifferences(r) /\ d.status \in {"missing", "changed", "unexpected"}
  /\ d.res = r /\ ~IsSlotDifference(d) /\ c = ChangeFor(d)

LEMMA ToDoAre ==
  ASSUME Compares, NEW c \in ToDo
  PROVE  \E r \in Declared(set) : \E d \in ResourceDifferences(r) : Calls(c, r, d)
<1>1. c \in ChangesFor(Differences) /\ ~IsDeferred(c)
  BY DEF ToDo, AtOnce
<1>2. Reviewable
  BY DEF Compares, Comparing
<1> QED
  BY <1>1, <1>2, ChangesAre DEF Calls

DropsLive(c, r, col, li) ==
  /\ li \in Unmatched(r, col) /\ Unexpected(r, col, li)
  /\ c.res = r /\ c.col = col /\ c.key = ItemKey(col, li)
  /\ c = ChangeFor(UnexpectedChild(r, col, li))

LEMMA DropsAre ==
  ASSUME Compares, NEW c \in ToDo, c.action = "delete"
  PROVE  /\ c.res \in Declared(set) /\ c.col \in CollectionsOf(c.res)
         /\ \E li \in Unmatched(c.res, c.col) : DropsLive(c, c.res, c.col, li)
<1>1. PICK r \in Declared(set) : \E d \in ResourceDifferences(r) : Calls(c, r, d)
  BY ToDoAre
<1>2. PICK d \in ResourceDifferences(r) : Calls(c, r, d)
  BY <1>1
<1>3. c.action = ActionOf(d.status) /\ c.res = r /\ c.col = d.col /\ c.key = d.key
  BY <1>2, ChangeForHolds DEF Calls
<1>4. d.status = "unexpected"
  BY <1>2, <1>3 DEF Calls, ActionOf
<1>5. d.col # "" /\ d.key # NoKey
  <2>1. d.col # ""
    BY <1>4, ResourceDiffersSo
  <2> QED
    BY <1>2, <2>1 DEF Calls, IsSlotDifference
<1>6. d.col \in CollectionsOf(r) /\ (ExpectedDiffers(r, d.col, d) \/ IsUnexpected(r, d.col, d))
  BY <1>5, ChildrenDifferSo
<1>7. PICK li \in Unmatched(r, d.col) : Unexpected(r, d.col, li) /\ d = UnexpectedChild(r, d.col, li)
  BY <1>4, <1>6 DEF ExpectedDiffers, IsUnexpected
<1>8. d.key = ItemKey(d.col, li)
  BY <1>7, UnexpectedHolds DEF OfUnexpected
<1>9. DropsLive(c, r, d.col, li)
  BY <1>2, <1>3, <1>7, <1>8 DEF DropsLive, Calls
<1> QED
  BY <1>3, <1>6, <1>7, <1>9

LEMMA DropsAreRight ==
  ASSUME Compares, NEW c \in ToDo, c.action = "delete"
  PROVE  DropsRightly(live, KnownNow, ToDo, ToAwait, c)
<1>0. Comparing /\ Awaits(ToAwait) /\ set \in Sets /\ AllLiteral(KnownNow)
  BY PlanAwaits DEF Compares, Comparing, Reviewable, EverythingRead, ProviderInv, AllLiteral, KnownNow, Known
<1> DEFINE r == c.res
           col == c.col
           X == KnownNow
<1>1. r \in Declared(set) /\ col \in CollectionsOf(r)
  BY DropsAre
<1>2. PICK li \in Unmatched(r, col) : DropsLive(c, r, col, li)
  BY DropsAre
<1>3. li \in LiveChildren(r, col) /\ Unexpected(r, col, li) /\ c.key = ItemKey(col, li)
  BY <1>2 DEF Unmatched, DropsLive
<1>4. /\ r \in DOMAIN live /\ li \in live[r].children[col]
      /\ \A other \in live[r].children[col] : ItemKey(col, other) = ItemKey(col, li) => other = li
  BY <1>0, <1>1, <1>3, LiveKeyed
<1>5. LiveWith(live, r, col, c.key) = {li}
  BY <1>3, <1>4 DEF LiveWith
<1> HIDE DEF r, col
<1>6. ASSUME NEW s \in ToAwait \cap SlotsOn(r, col), MatchesAll(li, s.match) PROVE FALSE
  <2>1. s \in Covering(r, col, li)
    BY <1>6 DEF Covering
  <2>2. Resolved(s)
    BY <1>3, <2>1 DEF Unexpected
  <2>3. s \in set.slots /\ ~IsFieldSlot(s)
    BY <1>6 DEF SlotsOn, SlotsOf
  <2> QED
    BY <1>0, <1>6, <2>2, <2>3 DEF Awaits
<1>7. ASSUME NEW it \in Items({}, r, col), KeyKnown(X, col, it), KeyNow(X, col, it) = ItemKey(col, li)
      PROVE  FALSE
  <2>1. CASE it \in Items(ToAwait, r, col)
    <3>1. PICK e \in ExpectedChildren(r, col) : e.declared = it
      BY <1>0, <2>1, DeclaredAreExpected
    <3>2. KeyNow(X, col, it) = ItemKey(col, e.item) /\ ~KeyUnresolved(col, e.item)
      BY <1>0, <1>1, <1>7, <3>1, ExpectedAre DEF r, col
    <3>3. li \in LiveAt(r, col, e.item)
      BY <1>3, <1>7, <3>2 DEF LiveAt
    <3>4. e \in Matched(r, col)
      BY <3>1, <3>3 DEF Matched
    <3> QED
      BY <1>2, <3>3, <3>4 DEF Unmatched
  <2>2. CASE it \notin Items(ToAwait, r, col)
    <3>1. PICK s \in SlotsOn(r, col) : s \in ToAwait /\ it \in s.gives
      BY <2>2 DEF Items
    <3>2. s \in set.slots /\ ~IsFieldSlot(s) /\ s.target = r /\ s.col = col
      BY DEF SlotsOn, SlotsOf
    <3>3. AllLiteral(it)
      BY <1>0, <3>1, <3>2, SetsHoldValues
    <3>4. HasKey(col, it)
      BY <1>0, <1>1, <1>7, ItemsAreWritten DEF r, col
    <3>5. ItemKey(col, it) = ItemKey(col, li)
      <4> HIDE DEF X
      <4> QED
        BY <1>0, <1>7, <3>3, <3>4, DerivedAreKnown DEF X
    <3>6. MatchesAll(it, s.match) /\ DOMAIN s.match \subseteq Key[col]
      BY <1>0, <3>1, <3>2, SetsAreLoaded DEF LoadChecked
    <3>7. MatchesAll(li, s.match)
      BY <3>5, <3>6, KeysDecide
    <3> QED
      BY <1>6, <3>1, <3>7
  <2> QED
    BY <2>1, <2>2
<1>8. ASSUME NEW d \in ToDo, Drops(d, r, col, c.key) PROVE d = c
  <2>1. d.res = r /\ d.col = col /\ d.action = "delete" /\ d.key = c.key
    BY <1>8 DEF Drops, On
  <2>2. PICK m \in Unmatched(r, col) : DropsLive(d, r, col, m)
    BY <2>1, DropsAre
  <2>3. m \in LiveChildren(r, col) /\ ItemKey(col, m) = ItemKey(col, li)
    BY <1>3, <2>1, <2>2 DEF DropsLive, Unmatched
  <2>4. m \in live[r].children[col]
    BY <1>0, <1>1, <1>4, <2>3, ReadsAreSo DEF r, col
  <2>5. m = li
    BY <1>4, <2>3, <2>4 DEF r, col
  <2> QED
    BY <1>2, <2>2, <2>5 DEF DropsLive
<1> QED
  BY <1>1, <1>3, <1>4, <1>5, <1>6, <1>7, <1>8 DEF DropsRightly, r, col, X

(***************************************************************************)
(* A command on course from its comparison on.                             *)
(***************************************************************************)
LEMMA ResourcesAreMade ==
  ASSUME Compares, NEW r \in Declared(set), r \notin DOMAIN live
  PROVE  IsMade(ToDo, r)
<1>0. Reviewable /\ Comparing
  BY DEF Compares, Comparing
<1>1. ~IsLive(r)
  BY <1>0, ReadsAreSo
<1>2. PICK status : Shown(PlanID, r, "", NoKey)
                      = {Difference(status, r, "", NoKey, "", ExpectedFields(r), NoKey, r)}
  BY <1>0, <1>1, ShownOfAbsent
<1> DEFINE d == Difference(status, r, "", NoKey, "", ExpectedFields(r), NoKey, r)
<1>3. d \in Shown(PlanID, r, "", NoKey)
  BY <1>2
<1> HIDE DEF d
<1>4. d \in ResourceDifferences(r) /\ d.col = ""
  BY <1>0, <1>3, ShownOfItsFields
<1>5. d.res = r /\ d.status = "missing" /\ d.field = ""
  BY <1>1, <1>4, ResourceDiffersSo
<1> DEFINE c == ChangeFor(d)
<1>6. c \in ToDo
  BY <1>4, <1>5, DifferencesAreChanged DEF ToDo
<1>7. c.res = r /\ c.action = "create" /\ c.col = "" /\ c.field = ""
  BY <1>4, <1>5, ChangeForHolds DEF ActionOf
<1> HIDE DEF c
<1> QED
  BY <1>6, <1>7 DEF IsMade, IsCreation

LEMMA FieldsComeRight ==
  ASSUME Compares, NEW r \in Declared(set), NEW f \in Fields[TypeOf[r]]
  PROVE  FieldToBe(live, KnownNow, ToDo, r, f)
<1>0. Reviewable /\ Comparing
  BY DEF Compares, Comparing
<1>1. CASE r \notin DOMAIN live
  BY <1>1, ResourcesAreMade DEF FieldToBe
<1>2. CASE r \in DOMAIN live /\ \A d \in ResourceFieldDifferences(r) : d.field # f
  BY <1>0, <1>2, FieldsAreRight DEF FieldToBe
<1>3. CASE r \in DOMAIN live /\ \E d \in ResourceFieldDifferences(r) : d.field = f
  <2>1. PICK d \in ResourceFieldDifferences(r) : d.field = f
    BY <1>3
  <2>2. IsLive(r)
    BY <1>0, <1>3, ReadsAreSo
  <2>3. d \in ResourceDifferences(r)
    BY <1>0, <2>2, ShownOfFields, ShownOfItsFields
  <2>4. d.col = ""
    BY DifferencesSit DEF Sits
  <2>5. d.res = r /\ d.status = "changed"
    BY <2>2, <2>3, <2>4, ResourceDiffersSo
  <2> DEFINE c == ChangeFor(d)
  <2>6. c \in ToDo
    BY <2>3, <2>4, <2>5, DifferencesAreChanged DEF ToDo
  <2>7. c.res = r /\ c.action = "update" /\ c.col = "" /\ c.field = f
    BY <2>1, <2>4, <2>5, ChangeForHolds DEF ActionOf
  <2> HIDE DEF c
  <2> QED
    BY <2>6, <2>7 DEF FieldToBe, IsSet
<1> QED
  BY <1>1, <1>2, <1>3

LEMMA FieldsAreNamed ==
  ASSUME Reviewable, NEW r \in Declared(set)
  PROVE  "" \notin Fields[TypeOf[r]]
<1>1. r \in Resources
  BY SetsAreLoaded DEF Reviewable, EverythingRead
<1>2. TypeOf[r] \in ResourceTypes
  BY <1>1, StagesAreNumbers
<1> QED
  BY <1>2, FieldsHaveNames

LEMMA ChangesAreFaithful ==
  ASSUME Compares, NEW c \in ToDo
  PROVE  Faithful(KnownNow, ToAwait, c)
<1>0. Reviewable /\ Comparing /\ NothingUnresolved /\ Awaits(ToAwait)
  BY PlanAwaits DEF Compares, Comparing
<1>1. PICK r \in Declared(set) : \E d \in ResourceDifferences(r) : Calls(c, r, d)
  BY ToDoAre
<1>2. PICK d \in ResourceDifferences(r) : Calls(c, r, d)
  BY <1>1
<1>3. /\ d.status \in {"missing", "changed", "unexpected"} /\ ~IsSlotDifference(d)
      /\ c.action = ActionOf(d.status) /\ c.res = r /\ c.col = d.col /\ c.key = d.key
      /\ c.field = d.field /\ c.claim = {} /\ c.fields = ResolvedFields(r)
      /\ c.col # "" => c.item = ItemFor(d)
  BY <1>2, ChangeForHolds DEF Calls
<1>4. CASE c.col = ""
  <2>1. /\ DOMAIN c.fields = GivenBy(set, r)
        /\ \A f \in DOMAIN c.fields : SaysField(KnownNow, c.fields[f], r, f)
    BY <1>0, <1>3, FieldsAreResolved
  <2>2. \/ c.action = "update" /\ c.field \in Fields[TypeOf[r]]
        \/ c.action = "create" /\ c.field = ""
    BY <1>3, <1>4, ResourceDiffersSo DEF ActionOf
  <2>3. FieldsFaithful(KnownNow, c)
    BY <1>0, <1>3, <2>1, <2>2, FieldsAreNamed DEF FieldsFaithful
  <2> QED
    BY <1>3, <1>4, <2>3 DEF Faithful
<1>5. CASE c.col # ""
  <2> DEFINE col == c.col
  <2>1. d.col = col /\ d.key # NoKey /\ d.res = r
    BY <1>2, <1>3, <1>5 DEF IsSlotDifference, Calls
  <2>2. col \in CollectionsOf(r) /\ (ExpectedDiffers(r, col, d) \/ IsUnexpected(r, col, d))
    BY <1>5, <2>1, ChildrenDifferSo
  <2>3. CASE IsUnexpected(r, col, d)
    <3>1. d.status = "unexpected"
      BY <2>3, UnexpectedHolds DEF IsUnexpected, OfUnexpected
    <3>2. c.action = "delete"
      BY <1>3, <3>1 DEF ActionOf
    <3> QED
      BY <1>3, <1>5, <2>2, <3>2 DEF Faithful, ChildFaithful
  <2>4. CASE ExpectedDiffers(r, col, d)
    <3>1. PICK e \in ExpectedChildren(r, col) :
            /\ d.key = ItemKey(col, e.item)
            /\ \/ d.status = "missing"
               \/ d.status = "changed" /\ e \in Matched(r, col) /\ d.field \in ItemFields[col]
      BY <2>4 DEF ExpectedDiffers
    <3>2. /\ e.declared \in Items(ToAwait, r, col) /\ SaysItem(KnownNow, e.item, e.declared)
      BY <1>0, <2>2, ExpectedAre
    <3>3. c.item = e.item /\ c.key = ItemKey(col, e.item)
      BY <1>3, <1>5, <2>1, <2>2, <3>1, ItemForExpected
    <3>4. CASE d.status = "missing"
      <4>1. Makes(KnownNow, c, r, col, e.declared)
        BY <1>3, <3>2, <3>3, <3>4 DEF Makes, On, ActionOf
      <4> QED
        BY <1>3, <1>5, <2>2, <3>2, <4>1 DEF Faithful, ChildFaithful
    <3>5. CASE d.status = "changed" /\ e \in Matched(r, col) /\ d.field \in ItemFields[col]
      <4>1. KeyKnown(KnownNow, col, e.declared) /\ KeyNow(KnownNow, col, e.declared) = ItemKey(col, e.item)
        BY <1>0, <2>2, <3>5, MatchedAreKnown
      <4>2. Mends(KnownNow, c, r, col, e.declared, c.field)
        BY <1>3, <3>2, <3>3, <3>5, <4>1 DEF Mends, On, ActionOf
      <4> QED
        BY <1>3, <1>5, <2>2, <3>2, <3>5, <4>2 DEF Faithful, ChildFaithful
    <3> QED
      BY <3>1, <3>4, <3>5
  <2> QED
    BY <2>2, <2>3, <2>4
<1> QED
  BY <1>4, <1>5

LEMMA ResolvedDerive ==
  ASSUME Comparing, NEW W, Awaits(W)
  PROVE  SlotsDerive(live, KnownNow, W)
<1> SUFFICES ASSUME NEW s \in set.slots, ~IsFieldSlot(s), s \notin W
             PROVE  IF s.reads \in ExposedValues THEN s.reads \in DOMAIN KnownNow ELSE s.reads \in DOMAIN live
  BY DEF SlotsDerive
<1>1. Resolved(s)
  BY DEF Awaits
<1> QED
  BY <1>1, SlotsAreSo

LEMMA CourseBegins ==
  ASSUME Compares
  PROVE  OnCourse(live, KnownNow, ToDo, ToAwait)
<1>0. Comparing /\ Awaits(ToAwait)
  BY PlanAwaits DEF Compares
<1>1. SlotsDerive(live, KnownNow, ToAwait)
  BY <1>0, ResolvedDerive
<1>2. \A c \in ToDo : Faithful(KnownNow, ToAwait, c)
  BY ChangesAreFaithful
<1>3. ComesRight(live, KnownNow, ToDo, ToAwait)
  <2>1. ASSUME NEW r \in Declared(set)
        PROVE  /\ r \in DOMAIN live \/ IsMade(ToDo, r)
               /\ \A f \in Fields[TypeOf[r]] : FieldToBe(live, KnownNow, ToDo, r, f)
    BY ResourcesAreMade, FieldsComeRight
  <2>2. ASSUME NEW r \in Declared(set), NEW col \in CollectionsOf(r)
        PROVE  /\ \A it \in Items(ToAwait, r, col) : ItemToBe(live, KnownNow, ToDo, r, col, it)
               /\ r \in DOMAIN live =>
                    \A li \in live[r].children[col] : ChildToBe(KnownNow, ToDo, ToAwait, r, col, li)
    BY <1>0, ItemsAreToBe, ChildrenComeRight
  <2>3. \A c \in ToDo : c.action = "delete" => DropsRightly(live, KnownNow, ToDo, ToAwait, c)
    BY DropsAreRight
  <2> QED
    BY <2>1, <2>2, <2>3 DEF ComesRight
<1> QED
  BY <1>1, <1>2, <1>3 DEF OnCourse

LEMMA NothingIsClaimed ==
  ASSUME Reviewable, NEW c \in ChangesFor(Differences)
  PROVE  c.claim = {}
<1>1. CASE c \in DeferredChanges
  BY <1>1, DeferredAre DEF Defers
<1>2. CASE \E d : c = ChangeFor(d)
  BY <1>2, ChangeForHolds
<1> QED
  BY <1>1, <1>2, ChangesAre

\* What a comparison read too early is in no live child.
LEMMA ReadTooEarly ==
  ASSUME LateAreNew, NEW Y, \A x \in DOMAIN Y : x \in DOMAIN exposed /\ Y[x] = exposed[x]
  PROVE  NewToChildren(live, KnownNow, Y)
<1> SUFFICES ASSUME NEW r \in DOMAIN live, NEW col \in CollectionsOf(r), NEW li \in live[r].children[col],
                    NEW f \in DOMAIN li, NEW x \in DOMAIN Y \ DOMAIN KnownNow
             PROVE  li[f] # Y[x]
  BY DEF NewToChildren
<1>1. x \in DOMAIN values \cap DOMAIN exposed /\ values[x].found = "absent" /\ Y[x] = exposed[x]
  BY DEF KnownNow, Known
<1>2. exposed[x] \notin LiveChildValues
  BY <1>1 DEF LateAreNew
<1>3. li[f] \in LiveChildValues
  <2>1. li[f] \in ValuesOf(live[r].children[col])
    BY DEF ValuesOf, Range
  <2>2. li[f] \in UNION {ValuesOf(live[r].children[c]) : c \in CollectionsOf(r)}
    BY <2>1
  <2> QED
    BY <2>2 DEF LiveChildValues
<1> QED
  BY <1>1, <1>2, <1>3

LEMMA ComparingSetsTheCourse ==
  ASSUME ~Account, WhatRefersIsCompared, SoFar, Compared, calm, pc' # "idle"
  PROVE  MendsInv'
<1>0. \A how : ~Return(how)
  BY DEF Return
<1>1. /\ pc = "reading" /\ pc' = "ordering" /\ Outstanding = {} /\ ~PlanRefused
      /\ changes' = ChangesFor(Differences)
      /\ calm' = (calm /\ \A d \in Differences : d.status # "unresolved")
      /\ UNCHANGED memory /\ UNCHANGED execution /\ UNCHANGED provider
  BY <1>0 DEF Compared
<1>2. UNCHANGED <<set, given, live, exposed, writes>>
  BY <1>1 DEF memory, execution, provider
<1>3. Comparing /\ Reviewable
  <2>1. Reviewable
    BY <1>1 DEF Reviewable, EverythingRead, SoFar, DataInv
  <2> QED
    BY <1>1, <2>1 DEF Comparing, SoFar, ReadInv, DataInv, KeysInv
<1>4. Misclaimed = {}
  BY <1>1 DEF PlanRefused
<1>5. Misclaimed' = {}
  BY <1>2, <1>4 DEF Misclaimed
<1>6. \A c \in changes' : c.claim = {}
  BY <1>1, <1>3, NothingIsClaimed
<1>7. writes' = {}
  BY <1>1, <1>2, NothingBeingWritten DEF SoFar
<1>8. SUFFICES ASSUME calm' PROVE OnCourse(live, KnownNow, Doing, WaitingIn(Left))'
  BY <1>1, <1>5, <1>6, <1>7 DEF MendsInv
<1>9. Compares
  <2>1. \A d \in Differences : d.status # "unresolved"
    BY <1>1, <1>8
  <2>2. NothingUnresolved
    BY <1>3, <2>1, OnlyResourcesDiffer DEF NothingUnresolved
  <2> QED
    BY <1>3, <2>2 DEF Compares
<1>10. OnCourse(live, KnownNow, ToDo, ToAwait)
  BY <1>9, CourseBegins
<1> DEFINE X == KnownNow
           Y == KnownNow'
<1>11. Extends(X, Y) /\ NewToChildren(live, X, Y) /\ AllLiteral(Y)
  <2>1. DOMAIN Y = DOMAIN exposed /\ \A x \in DOMAIN Y : Y[x] = exposed[x]
    BY <1>1, <1>2 DEF KnownNow, Known
  <2>2. Extends(X, Y)
    BY <2>1 DEF Extends, KnownNow, Known
  <2>3. AllLiteral(Y)
    BY <2>1, WhatIsKnown DEF SoFar, AllLiteral
  <2>4. LateAreNew
    BY <1>1 DEF SoFar, ReadInv
  <2> HIDE DEF Y
  <2>5. NewToChildren(live, X, Y)
    BY <2>1, <2>4, ReadTooEarly
  <2> QED
    BY <2>2, <2>3, <2>5
<1>12. set \in Sets /\ Sound(live, X)
  BY <1>1, WhatIsKnown DEF SoFar, DataInv
<1> HIDE DEF X, Y
<1>13. OnCourse(live, Y, ToDo, ToAwait)
  BY <1>10, <1>11, <1>12, MoreIsKnown DEF X
<1>14. Left' = ChangesFor(Differences)
  BY <1>1 DEF Left, Planning
<1>15. AtOnce(Left') = ToDo /\ WaitingIn(Left') = ToAwait
  BY <1>14 DEF ToDo, ToAwait
<1>16. Doing' = ToDo
  BY <1>7, <1>15 DEF Doing
<1>17. OnCourse(live', KnownNow', Doing', WaitingIn(Left'))
  BY <1>2, <1>13, <1>15, <1>16 DEF Y
<1> QED
  BY <1>2, <1>17, SameCourse

\* Steps that leave all of it as it is, or have no course to keep.
LEMMA CourseStays ==
  ASSUME MendsInv, UNCHANGED <<set, given, changes, plan, at, live, exposed, writes, values, pc, mode, calm>>
  PROVE  MendsInv'
<1>1. CASE Engaged /\ calm
  <2>1. Known' = Known
    BY DEF Known
  <2>2. KnownNow' = KnownNow
    BY <2>1 DEF KnownNow
  <2>3. \A i : Remaining(i)' = Remaining(i)
    BY DEF Remaining
  <2>4. Left' = Left
    BY <2>3 DEF Left, Planning
  <2>5. pc' # "loaded"
    BY <1>1 DEF Engaged, Planning, Executing
  <2> QED
    BY <1>1, <2>2, <2>4, <2>5, NothingMoves
<1>2. CASE ~(Engaged /\ calm)
  BY <1>2 DEF MendsInv, Engaged, Planning, Executing
<1> QED
  BY <1>1, <1>2

LEMMA NoCourseToKeep ==
  ASSUME pc' = "loaded" => mode' # "after", ~Engaged' \/ ~calm'
  PROVE  MendsInv'
BY DEF MendsInv

LEMMA EveryStepKeepsCourse ==
  ASSUME ~Account, ~Recycles, WhatSlotsMatchIsWritten, WhatRefersIsCompared,
         SoFar, MendsInv, [Next]_vars
  PROVE  MendsInv'
<1>1. CASE pc' = "idle"
  BY <1>1, NoCourseToKeep DEF Engaged, Planning, Executing
<1>2. CASE pc' # "idle"
  <2>0. \A how : ~Return(how)
    BY <1>2 DEF Return
  <2>1. CASE \E m \in {"dry", "apply"} : Load(m)
    <3>1. pc' = "loaded" /\ mode' # "after"
      BY <2>1 DEF Load
    <3> QED
      BY <3>1, NoCourseToKeep DEF Engaged, Planning, Executing
  <2>2. CASE CheckGit
    <3>1. pc = "loaded" /\ pc' = "reading" /\ mode' = mode
      BY <2>0, <2>2 DEF CheckGit
    <3> QED
      BY <3>1, NoCourseToKeep DEF Engaged, Planning, Executing, MendsInv
  <2>3. CASE ReadNext
    <3>1. pc = "reading" /\ pc' = pc /\ mode' = mode /\ calm' = calm
      BY <2>3 DEF ReadNext
    <3>2. CASE Engaged /\ calm
      BY <2>3, <3>2, ReadingKeepsCourse
    <3>3. CASE ~(Engaged /\ calm)
      BY <3>1, <3>3, NoCourseToKeep DEF Engaged, Planning, Executing
    <3> QED
      BY <3>2, <3>3
  <2>4. CASE Compared
    <3>1. pc' = "ordering" /\ (calm' => calm)
      BY <2>0, <2>4 DEF Compared
    <3>2. CASE calm
      BY <1>2, <2>4, <3>2, ComparingSetsTheCourse
    <3> QED
      BY <3>1, <3>2, NoCourseToKeep
  <2>5. CASE Order \/ Ordered \/ Place \/ Placed
    <3>1. calm' = calm /\ pc' # "loaded"
      BY <2>5 DEF Order, Ordered, Place, Placed
    <3> QED
      BY <2>5, <3>1, PlanningKeepsCourse, NoCourseToKeep
  <2>6. CASE Accept
    <3>1. calm' = calm /\ pc' # "loaded"
      BY <2>0, <2>6 DEF Accept
    <3> QED
      BY <1>2, <2>6, <3>1, AcceptingKeepsCourse, NoCourseToKeep
  <2>7. CASE RealizeNext
    <3>1. calm' = calm /\ pc' # "loaded"
      BY <2>0, <2>7 DEF RealizeNext, Advance
    <3> QED
      BY <1>2, <2>7, <3>1, RealizingKeepsCourse, NoCourseToKeep
  <2>8. CASE Write
    <3>1. calm' = calm /\ pc' # "loaded"
      BY <2>8 DEF Write, Advance
    <3> QED
      BY <2>8, <3>1, WritingKeepsCourse, NoCourseToKeep
  <2>9. CASE CompareAgain
    <3>1. calm' = calm /\ pc' # "loaded"
      BY <2>9 DEF CompareAgain
    <3> QED
      BY <2>9, <3>1, ComparingAgainKeepsCourse, NoCourseToKeep
  <2>10. CASE OrderStuck \/ PlaceRefused \/ Show \/ RealizeFails \/ WriteStops \/ Report
    BY <2>0, <2>10 DEF OrderStuck, PlaceRefused, Show, RealizeFails, WriteStops, Report
  <2>11. CASE \E x \in ExposedValues : Assign(x)
    <3>1. PICK x \in ExposedValues : Assign(x)
      BY <2>11
    <3>2. pc' = pc /\ mode' = mode /\ calm' = calm
      BY <3>1 DEF Assign, Elsewhere
    <3>3. CASE Engaged /\ calm
      BY <3>1, <3>3, AssigningKeepsCourse
    <3>4. CASE ~(Engaged /\ calm)
      BY <3>2, <3>4, NoCourseToKeep DEF Engaged, Planning, Executing, MendsInv
    <3> QED
      BY <3>3, <3>4
  <2>12. CASE \/ Drift \/ Edit
              \/ \E k \in Creators : \/ CreatorCreates(k) \/ CreatorClaims(k)
                                     \/ CreatorDeletes(k)
    <3>1. pc' = pc /\ mode' = mode /\ ~calm'
      BY <2>12 DEF Drift, Edit, CreatorCreates, CreatorClaims, CreatorDeletes, Elsewhere
    <3> QED
      BY <3>1, NoCourseToKeep DEF MendsInv
  <2>13. CASE Commit \/ \E k \in Creators : CreatorUnclaims(k)
    <3>1. /\ UNCHANGED <<set, given, changes, plan, at, live, exposed, writes, values, pc, mode>>
          /\ calm' = calm \/ ~calm'
      BY <2>13 DEF Commit, CreatorUnclaims, Elsewhere, memory, planning, execution, provider
    <3> QED
      BY <3>1, CourseStays, NoCourseToKeep DEF MendsInv
  <2>14. CASE UNCHANGED vars
    BY <2>14, CourseStays DEF vars
  <2> QED
    BY <2>1, <2>2, <2>3, <2>4, <2>5, <2>6, <2>7, <2>8, <2>9, <2>10, <2>11, <2>12, <2>13, <2>14
       DEF Next, Command, Environment
<1> QED
  BY <1>1, <1>2

(***************************************************************************)
(* The closing comparison: with nothing left to do it finds no difference. *)
(***************************************************************************)
Closing == Comparing /\ Awaits({}) /\ ComesRight(live, KnownNow, {}, {})

LEMMA ExpectedAtItsKey ==
  ASSUME Comparing, Awaits({}), NEW r \in Declared(set), NEW col \in CollectionsOf(r),
         NEW e \in ExpectedChildren(r, col)
  PROVE  /\ e.declared \in Items({}, r, col) /\ Expects(KnownNow, e.item, e.declared)
         /\ KeyKnown(KnownNow, col, e.declared)
              => KeyNow(KnownNow, col, e.declared) = ItemKey(col, e.item) /\ ~KeyUnresolved(col, e.item)
<1>1. set \in Sets /\ AllLiteral(KnownNow)
  BY DEF Comparing, Reviewable, EverythingRead, ProviderInv, AllLiteral, KnownNow, Known
<1>2. e.declared \in Items({}, r, col) /\ Expects(KnownNow, e.item, e.declared)
  BY ExpectedAreDeclared
<1> DEFINE item == e.item
           it == e.declared
           X == KnownNow
<1>3. AllLiteral(X) /\ Expects(X, item, it) /\ HasKey(col, it) /\ IsWritten(it)
  BY <1>1, <1>2, ItemsAreWritten
<1> HIDE DEF item, it, X
<1>4. KeyKnown(X, col, it) => KeyNow(X, col, it) = ItemKey(col, item) /\ ~KeyUnresolved(col, item)
  BY <1>3, ExpectedKeys
<1> QED
  BY <1>2, <1>4 DEF item, it, X

LEMMA ExpectedAtAKey ==
  ASSUME Comparing, Awaits({}), NEW r \in Declared(set), NEW col \in CollectionsOf(r),
         NEW it \in Items({}, r, col), KeyKnown(KnownNow, col, it)
  PROVE  \E e \in ExpectedChildren(r, col) :
           /\ e.declared = it /\ ~KeyUnresolved(col, e.item)
           /\ ItemKey(col, e.item) = KeyNow(KnownNow, col, it)
BY DeclaredAreExpected, ExpectedAtItsKey

\* A comparison that went on found no two children of one key.
LEMMA NoneClash ==
  ASSUME Comparing, Awaits({})
  PROVE  ~Clash(KnownNow)
<1> SUFFICES ASSUME NEW r \in Declared(set), NEW col \in CollectionsOf(r),
                    NEW a \in Items({}, r, col), NEW b \in Items({}, r, col), a # b,
                    KeyKnown(KnownNow, col, a), KeyKnown(KnownNow, col, b),
                    KeyNow(KnownNow, col, a) = KeyNow(KnownNow, col, b)
             PROVE  FALSE
  BY DEF Clash
<1>1. PICK e \in ExpectedChildren(r, col) :
        e.declared = a /\ ~KeyUnresolved(col, e.item) /\ ItemKey(col, e.item) = KeyNow(KnownNow, col, a)
  BY ExpectedAtAKey
<1>2. PICK o \in ExpectedChildren(r, col) :
        o.declared = b /\ ~KeyUnresolved(col, o.item) /\ ItemKey(col, o.item) = KeyNow(KnownNow, col, b)
  BY ExpectedAtAKey
<1>3. e = o
  BY <1>1, <1>2, OneExpectedPerKey DEF Comparing
<1> QED
  BY <1>1, <1>2, <1>3

LEMMA ClosingComesRight ==
  ASSUME Comparing, OnCourse(live, KnownNow, {}, {})
  PROVE  Closing
<1>1. \A s \in set.slots : ~IsFieldSlot(s) => Resolved(s)
  BY SlotsAreSo DEF OnCourse, SlotsDerive
<1>2. Awaits({})
  BY <1>1 DEF Awaits
<1> QED
  BY <1>2, NoneClash DEF OnCourse, Closing

Agree(was, is, f) ==
  /\ f \in DOMAIN was <=> f \in DOMAIN is
  /\ f \in DOMAIN was => ~IsUnresolved(was[f]) /\ was[f] = is[f]

LEMMA AgreeingDoNotDiffer ==
  ASSUME NEW compared, NEW was, NEW is, NEW fs \in FieldStatuses(compared, was, is)
  PROVE  fs.field \in compared /\ ~Agree(was, is, fs.field)
<1> DEFINE waits(g) == g \in DOMAIN was /\ IsUnresolved(was[g])
           differs(g) == \/ (g \in DOMAIN was) # (g \in DOMAIN is)
                         \/ g \in DOMAIN was /\ was[g] # is[g]
           entry(g) == [field |-> g, status |-> IF waits(g) THEN "unresolved" ELSE "changed"]
<1>1. PICK g \in {h \in compared : waits(h) \/ differs(h)} : fs = entry(g)
  BY Zenon DEF FieldStatuses
<1>2. fs.field = g
  BY <1>1
<1> QED
  BY <1>1, <1>2 DEF Agree

LEMMA ExpectedFieldIs ==
  ASSUME Comparing, NEW r \in Declared(set), NEW f \in DOMAIN ExpectedFields(r)
  PROVE  LET hand == set.resources[r].fields IN
         /\ f \in DOMAIN hand => ResolvesTo(KnownNow, ExpectedFields(r)[f], hand[f])
         /\ f \notin DOMAIN hand => \E s \in FieldSlots(r) : /\ s.field = f
                                                             /\ ExpectedFields(r)[f] = FieldSlotValue(s)
<1> DEFINE hand == set.resources[r].fields
           derived == {s \in FieldSlots(r) : ~Skipped(s)}
           slot == CHOOSE s \in derived : s.field = f
<1>1. f \in DOMAIN hand \cup {s.field : s \in derived}
  BY DEF ExpectedFields
<1>2. ExpectedFields(r)[f] = IF f \in DOMAIN hand THEN Resolve(hand[f]) ELSE FieldSlotValue(slot)
  BY <1>1 DEF ExpectedFields
<1>3. CASE f \in DOMAIN hand
  <2>1. hand[f] \in DeclaredValues(set, r)
    BY <1>3 DEF DeclaredValues, Range
  <2> QED
    BY <1>2, <1>3, <2>1, ValuesResolve
<1>4. CASE f \notin DOMAIN hand
  <2>1. \E s \in derived : s.field = f
    BY <1>1, <1>4
  <2>2. slot \in derived /\ slot.field = f
    BY <2>1
  <2> QED
    BY <1>2, <1>4, <2>2
<1> QED
  BY <1>3, <1>4

LEMMA RightFieldsAgree ==
  ASSUME Comparing, NEW r \in Declared(set), r \in DOMAIN live, NEW f, FieldRight(live, KnownNow, r, f)
  PROVE  Agree(ExpectedFields(r), live[r].fields, f)
<1> DEFINE hand == set.resources[r].fields
           is == live[r].fields
           expected == ExpectedFields(r)
<1>1. AllLiteral(is) /\ AllLiteral(KnownNow)
  BY DEF Comparing, ProviderInv, HoldsData, IsData, AllLiteral, KnownNow, Known
<1>2. DOMAIN expected = GivenBy(set, r)
  BY ExpectedFieldsSay
<1>3. CASE f \in DOMAIN hand
  <2>1. f \in DOMAIN expected
    BY <1>2, <1>3 DEF GivenBy
  <2>2. f \in DOMAIN is /\ is[f] = Now(KnownNow, hand[f])
    BY <1>3 DEF FieldRight
  <2>3. is[f].kind = "literal"
    BY <1>1, <2>2 DEF AllLiteral
  <2>4. ResolvesTo(KnownNow, expected[f], hand[f])
    BY <1>3, <2>1, ExpectedFieldIs
  <2>5. expected[f] = is[f]
    BY <2>2, <2>3, <2>4 DEF ResolvesTo, Now
  <2> QED
    BY <2>1, <2>2, <2>3, <2>5 DEF Agree, IsUnresolved
<1>4. CASE f \notin DOMAIN hand /\ f \in GivenBy(set, r)
  <2>1. PICK s \in FieldSlots(r) : s.field = f /\ expected[f] = FieldSlotValue(s)
    BY <1>2, <1>4, ExpectedFieldIs
  <2>2. s \in FieldSlotsOf(set, r) /\ s \in set.slots /\ IsFieldSlot(s)
    BY DEF FieldSlots, FieldSlotsOf, SlotsOf
  <2>3. s.reads \in DOMAIN KnownNow /\ f \in DOMAIN is /\ is[f] = KnownNow[s.reads]
    BY <1>4, <2>1, <2>2 DEF FieldRight
  <2>4. s.reads \in ExposedValues
    BY <2>2, SetsHoldValues DEF Comparing, Reviewable, EverythingRead
  <2>5. Resolved(s) /\ SlotRead(s).is = KnownNow[s.reads]
    BY <2>2, <2>3, <2>4, SlotsAreSo
  <2>6. expected[f] = is[f]
    BY <2>1, <2>3, <2>5 DEF FieldSlotValue
  <2>7. is[f].kind = "literal"
    BY <1>1, <2>3 DEF AllLiteral
  <2> QED
    BY <1>2, <1>4, <2>3, <2>6, <2>7 DEF Agree, IsUnresolved
<1>5. CASE f \notin DOMAIN hand /\ f \notin GivenBy(set, r)
  BY <1>2, <1>5 DEF FieldRight, Agree
<1> QED
  BY <1>3, <1>4, <1>5

LEMMA ResourcesAreThere ==
  ASSUME Closing, NEW r \in Declared(set)
  PROVE  /\ r \in DOMAIN live /\ IsLive(r) /\ reads[r].is = live[r]
         /\ \A f \in Fields[TypeOf[r]] : FieldRight(live, KnownNow, r, f)
<1>1. /\ r \in DOMAIN live \/ IsMade({}, r)
      /\ \A f \in Fields[TypeOf[r]] : FieldToBe(live, KnownNow, {}, r, f)
  BY DEF Closing, ComesRight
<1>2. r \in DOMAIN live
  BY <1>1 DEF IsMade
<1>3. \A f \in Fields[TypeOf[r]] : FieldRight(live, KnownNow, r, f)
  BY <1>1 DEF FieldToBe, IsMade, IsSet
<1> QED
  BY <1>2, <1>3, ReadsAreSo DEF Closing

LEMMA FieldsDoNotDiffer ==
  ASSUME Closing, NEW r \in Declared(set)
  PROVE  ResourceFieldDifferences(r) = {}
<1>1. Reviewable /\ Comparing /\ r \in DOMAIN live /\ IsLive(r) /\ LiveFields(r) = live[r].fields
  BY ResourcesAreThere DEF Closing, Comparing, LiveFields
<1>2. ASSUME NEW fs \in FieldStatuses(Fields[TypeOf[r]], ExpectedFields(r), LiveFields(r)) PROVE FALSE
  <2>1. fs.field \in Fields[TypeOf[r]] /\ ~Agree(ExpectedFields(r), LiveFields(r), fs.field)
    BY AgreeingDoNotDiffer
  <2>2. FieldRight(live, KnownNow, r, fs.field)
    BY <2>1, ResourcesAreThere
  <2> QED
    BY <1>1, <2>1, <2>2, RightFieldsAgree
<1> QED
  BY <1>1, <1>2, FieldsTell, ShownOfFields DEF Tells

\* What holds the same of a field agrees on it.
LEMMA OnlyTells ==
  ASSUME NEW a, NEW b, NEW f, Only(a, f) = Only(b, f)
  PROVE  /\ f \in DOMAIN a <=> f \in DOMAIN b
         /\ f \in DOMAIN a => a[f] = b[f]
<1>1. /\ DOMAIN Only(a, f) = {f} \cap DOMAIN a /\ DOMAIN Only(b, f) = {f} \cap DOMAIN b
      /\ f \in DOMAIN a => Only(a, f)[f] = a[f]
      /\ f \in DOMAIN b => Only(b, f)[f] = b[f]
  BY DEF Only, Restrict
<1>2. f \in DOMAIN a <=> f \in DOMAIN b
  <2>1. f \in {f} \cap DOMAIN a <=> f \in {f} \cap DOMAIN b
    BY <1>1
  <2> QED
    BY <2>1
<1>3. f \in DOMAIN a => a[f] = b[f]
  BY <1>1, <1>2
<1> QED
  BY <1>2, <1>3

LEMMA RightItemsAgree ==
  ASSUME NEW X, NEW item, NEW it, Expects(X, item, it), NEW li, AllLiteral(li), NEW f,
         Only(li, f) = Only(NowItem(X, it), f)
  PROVE  Agree(item, li, f)
<1>1. /\ f \in DOMAIN li <=> f \in DOMAIN it
      /\ f \in DOMAIN it => li[f] = Now(X, it[f])
  <2>1. DOMAIN NowItem(X, it) = DOMAIN it /\ \A g \in DOMAIN it : NowItem(X, it)[g] = Now(X, it[g])
    BY DEF NowItem
  <2> QED
    BY <2>1, OnlyTells
<1>2. DOMAIN item = DOMAIN it
  BY DEF Expects
<1>3. ASSUME f \in DOMAIN it PROVE item[f] = li[f] /\ item[f].kind = "literal"
  <2>1. li[f].kind = "literal"
    BY <1>1, <1>3 DEF AllLiteral
  <2>2. ResolvesTo(X, item[f], it[f])
    BY <1>3 DEF Expects
  <2>3. ~(it[f].kind = "reference" /\ it[f].of \notin DOMAIN X)
    BY <1>1, <1>3, <2>1 DEF Now
  <2>4. item[f] = Now(X, it[f])
    BY <2>2, <2>3 DEF ResolvesTo
  <2> QED
    BY <1>1, <1>3, <2>1, <2>4
<1> QED
  BY <1>1, <1>2, <1>3 DEF Agree, IsUnresolved

\* An expected child is there, with the fields it is to have.
LEMMA ItemsAreThere ==
  ASSUME Closing, NEW r \in Declared(set), NEW col \in CollectionsOf(r),
         NEW e \in ExpectedChildren(r, col)
  PROVE  /\ LiveAt(r, col, e.item) # {}
         /\ \A li \in LiveAt(r, col, e.item) : \A f \in ItemFields[col] : Agree(e.item, li, f)
<1> DEFINE item == e.item
           it == e.declared
           X == KnownNow
<1>1. /\ it \in Items({}, r, col) /\ Expects(X, item, it)
      /\ KeyKnown(X, col, it) => KeyNow(X, col, it) = ItemKey(col, item) /\ ~KeyUnresolved(col, item)
  BY ExpectedAtItsKey DEF Closing
<1>2. ItemToBe(live, X, {}, r, col, it)
  BY <1>1 DEF Closing, ComesRight
<1> HIDE DEF item, it, X
<1>3. ItemThere(live, X, {}, r, col, it)
  BY <1>2 DEF ItemToBe
<1>4. /\ r \in DOMAIN live /\ KeyKnown(X, col, it)
      /\ LiveWith(live, r, col, ItemKey(col, item)) # {}
      /\ \A li \in LiveWith(live, r, col, ItemKey(col, item)) : \A f \in ItemFields[col] :
           Only(li, f) = Only(NowItem(X, it), f)
  BY <1>1, <1>3 DEF ItemThere
<1>5. LiveChildren(r, col) = live[r].children[col] /\ ~KeyUnresolved(col, item)
  BY <1>1, <1>4, ReadsAreSo DEF Closing
<1>6. LiveAt(r, col, item) = LiveWith(live, r, col, ItemKey(col, item))
  BY <1>5 DEF LiveAt, LiveWith
<1>7. ASSUME NEW li \in LiveAt(r, col, item), NEW f \in ItemFields[col] PROVE Agree(item, li, f)
  <2>1. AllLiteral(li)
    BY LiveChildrenAreData DEF LiveAt, Closing, Comparing
  <2>2. Only(li, f) = Only(NowItem(X, it), f)
    BY <1>4, <1>6
  <2> QED
    BY <1>1, <2>1, <2>2, RightItemsAgree
<1>8. LiveAt(r, col, item) # {}
  BY <1>4, <1>6
<1> QED
  BY <1>7, <1>8 DEF item

LEMMA NoneUnexpected ==
  ASSUME Closing, NEW r \in Declared(set), NEW col \in CollectionsOf(r), NEW li \in Unmatched(r, col)
  PROVE  ~Unexpected(r, col, li)
<1>0. Comparing /\ Awaits({})
  BY DEF Closing
<1>1. li \in LiveChildren(r, col)
  BY DEF Unmatched
<1>2. r \in DOMAIN live /\ li \in live[r].children[col]
  BY <1>0, <1>1, LiveKeyed
<1>3. ChildToBe(KnownNow, {}, {}, r, col, li)
  BY <1>2 DEF Closing, ComesRight
<1>4. CASE \E it \in Items({}, r, col) :
              KeyKnown(KnownNow, col, it) /\ KeyNow(KnownNow, col, it) = ItemKey(col, li)
  <2>1. PICK it \in Items({}, r, col) :
               KeyKnown(KnownNow, col, it) /\ KeyNow(KnownNow, col, it) = ItemKey(col, li)
    BY <1>4
  <2>2. PICK e \in ExpectedChildren(r, col) :
          ~KeyUnresolved(col, e.item) /\ ItemKey(col, e.item) = KeyNow(KnownNow, col, it)
    BY <1>0, <2>1, ExpectedAtAKey
  <2>3. li \in LiveAt(r, col, e.item)
    BY <1>1, <2>1, <2>2 DEF LiveAt
  <2>4. e \in Matched(r, col)
    BY <2>3 DEF Matched
  <2> QED
    BY <2>3, <2>4 DEF Unmatched
<1>5. CASE Covering(r, col, li) = {} /\ LeftAlone(r, col, li)
  BY <1>5 DEF Unexpected
<1> QED
  BY <1>3, <1>4, <1>5 DEF ChildToBe

LEMMA ChildrenDoNotDiffer ==
  ASSUME Closing, NEW r \in Declared(set), NEW col \in CollectionsOf(r)
  PROVE  CollectionDifferences(r, col) = {}
<1>0. Comparing /\ Reviewable
  BY DEF Closing, Comparing
<1> DEFINE diffs(e) == ChildFieldDifferences(r, col, e)
           missing == {MissingChild(r, col, e, "missing") : e \in ExpectedChildren(r, col) \ Matched(r, col)}
           unexpected == {UnexpectedChild(r, col, l) : l \in {m \in Unmatched(r, col) : Unexpected(r, col, m)}}
<1>1. CollectionDifferences(r, col) = (UNION {diffs(e) : e \in Matched(r, col)}) \cup missing \cup unexpected
  BY Zenon DEF CollectionDifferences
<1>2. ASSUME NEW e \in Matched(r, col) PROVE diffs(e) = {}
  <2> DEFINE li == CHOOSE l \in LiveAt(r, col, e.item) : TRUE
  <2>1. /\ e \in ExpectedChildren(r, col)
        /\ Tells(diffs(e), ItemFields[col], e.item, li)
    BY <1>0, ChildFieldsSay
  <2>2. li \in LiveAt(r, col, e.item)
    BY DEF Matched
  <2> HIDE DEF li, diffs
  <2>3. \A f \in ItemFields[col] : Agree(e.item, li, f)
    BY <2>1, <2>2, ItemsAreThere
  <2>4. FieldStatuses(ItemFields[col], e.item, li) = {}
    <3>1. ASSUME NEW fs \in FieldStatuses(ItemFields[col], e.item, li) PROVE FALSE
      <4> DEFINE item == e.item
      <4>1. fs \in FieldStatuses(ItemFields[col], item, li)
        BY <3>1
      <4> HIDE DEF item
      <4>2. fs.field \in ItemFields[col] /\ ~Agree(item, li, fs.field)
        BY <4>1, AgreeingDoNotDiffer
      <4> QED
        BY <2>3, <4>2 DEF item
    <3> QED
      BY <3>1
  <2> QED
    BY <2>1, <2>4 DEF Tells
<1>3. missing = {}
  <2>1. ASSUME NEW e \in ExpectedChildren(r, col) PROVE e \in Matched(r, col)
    BY ItemsAreThere DEF Matched
  <2> QED
    BY <2>1
<1>4. unexpected = {}
  BY NoneUnexpected
<1> HIDE DEF diffs, missing, unexpected
<1> QED
  BY <1>1, <1>2, <1>3, <1>4

LEMMA NothingDiffers ==
  ASSUME Closing
  PROVE  Differences = {}
<1>0. Comparing /\ Reviewable
  BY DEF Closing, Comparing
<1>1. ASSUME NEW r \in Declared(set) PROVE ResourceDifferences(r) = {}
  <2>1. SlotDifferences(r) = {}
    <3>1. ASSUME NEW d \in SlotDifferences(r) PROVE FALSE
      <4>1. PICK s \in SlotsOf(set, r) : ~IsFieldSlot(s) /\ Unresolved(s)
        BY <3>1, SlotDifferencesAre
      <4>2. s \in set.slots
        BY DEF SlotsOf
      <4>3. Resolved(s)
        BY <4>1, <4>2 DEF Closing, Awaits
      <4> QED
        BY <1>0, <4>1, <4>2, <4>3, SlotsAreSo
    <3> QED
      BY <3>1
  <2>2. IsLive(r) /\ ResourceFieldDifferences(r) = {}
    BY ResourcesAreThere, FieldsDoNotDiffer
  <2>3. UNION {CollectionDifferences(r, col) : col \in CollectionsOf(r)} = {}
    BY ChildrenDoNotDiffer
  <2>4. ResourceDifferences(r)
          = SlotDifferences(r) \cup (ResourceFieldDifferences(r)
              \cup UNION {CollectionDifferences(r, col) : col \in CollectionsOf(r)})
    BY <1>0, <2>2, NothingFailed, Zenon DEF ResourceDifferences
  <2> QED
    BY <2>1, <2>2, <2>3, <2>4
<1>2. Differences = UNION {ResourceDifferences(r) : r \in Declared(set)}
  BY <1>0, OnlyResourcesDiffer
<1> QED
  BY <1>1, <1>2

\* The report of an apply nothing disturbed finds no difference.
LEMMA ReportFindsNothing ==
  ASSUME ~Account, WhatRefersIsCompared, SoFar, MendsInv, Report, calm
  PROVE  outcome' # "differences"
<1>1. pc = "reading" /\ Outstanding = {} /\ mode = "after"
  BY DEF Report
<1>2. SUFFICES ASSUME ~SameKeys, ~SomethingUnreadable PROVE Differences = {}
  BY DEF Report, Return
<1>3. Misclaimed = {} /\ OnCourse(live, KnownNow, Doing, WaitingIn(Left))
  BY <1>1 DEF MendsInv, Engaged
<1>4. Doing = {} /\ WaitingIn(Left) = {}
  <2>1. Left = {}
    BY <1>1 DEF Left, Planning
  <2>2. writes = {}
    BY <1>1, NothingBeingWritten DEF SoFar
  <2> QED
    BY <2>1, <2>2 DEF Doing, AtOnce, WaitingIn
<1>5. OnCourse(live, KnownNow, {}, {})
  BY <1>3, <1>4
<1>6. Comparing
  <2>1. Reviewable
    BY <1>1, <1>2, <1>3 DEF Reviewable, EverythingRead, SoFar, DataInv, PlanRefused
  <2> QED
    BY <1>1, <2>1 DEF Comparing, SoFar, ReadInv, DataInv, KeysInv
<1> QED
  BY <1>5, <1>6, ClosingComesRight, NothingDiffers

LEMMA MendsInvAlways ==
  ASSUME ~Account, ~Recycles, UnmanagedMatchesKeys, WhatSlotsMatchIsWritten, WhatRefersIsCompared
  PROVE  Spec => [](SoFar /\ MendsInv)
<1>1. Init => MendsInv
  BY DEF Init, MendsInv, Engaged, Planning, Executing
<1>2. SoFar /\ MendsInv /\ [Next]_vars => MendsInv'
  BY EveryStepKeepsCourse
<1>3. /\ TypeInv /\ OrderInv /\ DataInv /\ ExecuteInv /\ ReviewInv /\ RestInv /\ PlacingInv
      /\ KeysInv /\ ReadInv /\ PlanInv /\ ClaimsInv
      => SoFar
  BY DEF SoFar
<1>4. Spec => []RestInv
  BY RestInvAlways
<1>5. Spec => []KeysInv
  BY KeysInvAlways
<1>6. Spec => []ReadInv
  BY ReadInvAlways
<1>7. Spec => []PlanInv
  BY PlanInvAlways
<1>8. Spec => []ReviewInv
  BY ReviewInvAlways
<1>9. Spec => []SoFar
  BY <1>3, <1>4, <1>5, <1>6, <1>7, <1>8, TypeInvAlways, DataInvAlways, ExecuteInvAlways,
     PlacingInvAlways, ClaimsInvAlways, PTL
<1> QED
  BY <1>1, <1>2, <1>9, PTL DEF Spec

\* One apply of a project that runs to its end undisturbed, with nothing unresolved when it
\* was planned, leaves no difference for Execute's closing Compare to report: every change,
\* pending value and deferred slot of the plan made what the declarations ask, with the values
\* the provider assigned in the meantime.  A provider must not assign a new resource a value
\* already written in a child (Recycles).
THEOREM OneApplyIsEnough ==
  ASSUME ~Account, ~Recycles, UnmanagedMatchesKeys, WhatSlotsMatchIsWritten, WhatRefersIsCompared
  PROVE  Spec => []OneApplySuffices
<1>1. Init => OneApplySuffices
  BY DEF Init, OneApplySuffices
<1>2. ASSUME SoFar, MendsInv, OneApplySuffices, [Next]_vars
      PROVE  OneApplySuffices'
  <2>1. CASE Report
    <3>1. calm' = calm
      BY <2>1 DEF Report, Return
    <3> QED
      BY <2>1, <3>1, <1>2, ReportFindsNothing DEF OneApplySuffices
  <2>2. CASE \E m \in {"dry", "apply"} : Load(m)
    BY <2>2 DEF Load, OneApplySuffices
  <2>3. CASE OrderStuck \/ PlaceRefused \/ Show \/ RealizeFails \/ WriteStops
    BY <2>3 DEF OrderStuck, PlaceRefused, Show, RealizeFails, WriteStops, Return, OneApplySuffices
  <2>4. CASE CheckGit \/ Compared \/ Accept \/ RealizeNext
    BY <1>2, <2>4 DEF CheckGit, Compared, Accept, RealizeNext, Return, Advance, OneApplySuffices
  <2>5. CASE ReadNext \/ Order \/ Ordered \/ Place \/ Placed \/ Write \/ CompareAgain
    BY <1>2, <2>5 DEF ReadNext, Order, Ordered, Place, Placed, Write, CompareAgain, Advance, OneApplySuffices
  <2>6. CASE Environment
    BY <1>2, <2>6 DEF Environment, Elsewhere, Assign, Drift, Edit, Commit, CreatorCreates, CreatorClaims,
       CreatorDeletes, CreatorUnclaims, OneApplySuffices
  <2>7. CASE UNCHANGED vars
    BY <1>2, <2>7 DEF vars, OneApplySuffices
  <2> QED
    BY <1>2, <2>1, <2>2, <2>3, <2>4, <2>5, <2>6, <2>7 DEF Next, Command
<1>3. Spec => [](SoFar /\ MendsInv)
  BY MendsInvAlways
<1> QED
  BY <1>1, <1>2, <1>3, PTL DEF Spec
===============================================================================
