-------------------------- MODULE DeclCourse_proofs ---------------------------
(***************************************************************************)
(* The course of a project's apply: what is not yet as declared a change   *)
(* still to be made will make so.  Here is what that says of a situation   *)
(* (OnCourse), and that it stays said when more values are known, when a   *)
(* change is realized or expanded, and when a write is made.  Before it,   *)
(* what it rests on: children keep their keys, an undisturbed comparison's *)
(* memory is still so when it is used, a plan has each change once.        *)
(***************************************************************************)
EXTENDS DeclReview_proofs

(***************************************************************************)
(* Every child has its key, and a live one its own; what is assigned is of *)
(* a resource that is live.                                                *)
(***************************************************************************)
ChildrenKeyed(r, children) ==
  \A col \in CollectionsOf(r) :
    Apart(col, children[col]) /\ \A li \in children[col] : HasKey(col, li)

ProviderKeyed ==
  /\ \A r \in DOMAIN live : ChildrenKeyed(r, live[r].children)
  /\ \A x \in DOMAIN exposed : ExposedBy[x] \in DOMAIN live

CreatesKeyed(c) == c.col # "" /\ c.action = "create" => IsDeferred(c) \/ HasKey(c.col, c.key)
WritesKeyed(w)  == w.col # "" /\ w.action = "create" => HasKey(w.col, w.key)

KeysInv ==
  /\ ProviderKeyed
  /\ \A c \in changes : CreatesKeyed(c)
  /\ \A w \in writes : WritesKeyed(w)

LEMMA KeyedByKey ==
  ASSUME NEW col, NEW a, NEW b, ItemKey(col, a) = ItemKey(col, b), HasKey(col, a)
  PROVE  HasKey(col, b)
BY SameKeySameFields DEF HasKey

LEMMA KeyedAlike ==
  ASSUME NEW col, NEW a, NEW b, DOMAIN a = DOMAIN b
  PROVE  KeyFields(col, a) = KeyFields(col, b) /\ (HasKey(col, a) => HasKey(col, b))
BY DEF HasKey, KeyFields

LEMMA KeyIsKeyed ==
  ASSUME NEW col, NEW it
  PROVE  HasKey(col, ItemKey(col, it)) <=> HasKey(col, it)
BY KeyIsPart DEF HasKey

\* What becomes of the children when those at a key become others.
OneBecomes(r, col, k, new) ==
  /\ DOMAIN live' = DOMAIN live /\ exposed' = exposed
  /\ \A q \in DOMAIN live :
       /\ live'[q].fields = live[q].fields
       /\ \A c \in CollectionsOf(q) :
            live'[q].children[c] =
              IF q = r /\ c = col THEN {li \in live[q].children[c] : ItemKey(c, li) # k} \cup new
              ELSE live[q].children[c]

LEMMA OneCollectionBecomes ==
  ASSUME ProviderInv, NEW r, NEW col, NEW k, NEW new, ChildrenBecome(r, col, k, new)
  PROVE  OneBecomes(r, col, k, new)
<1> DEFINE now == WithChild(live[r].children, col, k, new)
<1>1. DOMAIN live' = DOMAIN live /\ exposed' = exposed
  BY DEF ChildrenBecome
<1>2. ASSUME NEW q \in DOMAIN live
      PROVE  /\ live'[q].fields = live[q].fields
             /\ \A c \in CollectionsOf(q) :
                  live'[q].children[c] =
                    IF q = r /\ c = col THEN {li \in live[q].children[c] : ItemKey(c, li) # k} \cup new
                    ELSE live[q].children[c]
  <2>1. DOMAIN live[q] = {"fields", "children"} /\ DOMAIN live[q].children = CollectionsOf(q)
    BY DEF ProviderInv, HoldsData, IsData
  <2>2. /\ live'[q].fields = live[q].fields
        /\ live'[q].children = IF q = r THEN now ELSE live[q].children
    BY <2>1 DEF ChildrenBecome
  <2>3. ASSUME NEW c \in CollectionsOf(q), q = r
        PROVE  now[c] = IF c = col THEN {li \in live[q].children[c] : ItemKey(c, li) # k} \cup new
                        ELSE live[q].children[c]
    BY <2>1, <2>3 DEF WithChild
  <2> HIDE DEF now
  <2> QED
    BY <2>2, <2>3
<1> QED
  BY <1>1, <1>2 DEF OneBecomes

(***************************************************************************)
(* A write, by what it does.                                               *)
(***************************************************************************)
MakesResource(w) ==
  /\ IsCreation(w) /\ w.res \notin DOMAIN live /\ exposed' = exposed
  /\ live' = With(live, w.res, [fields |-> w.fields, children |-> Childless(w.res)])
SetsField(w) ==
  /\ w.action = "update" /\ w.col = "" /\ w.res \in DOMAIN live /\ exposed' = exposed
  /\ DOMAIN live' = DOMAIN live
  /\ \A q \in DOMAIN live :
       /\ live'[q].children = live[q].children
       /\ live'[q].fields = IF q = w.res THEN Overridden(live[q].fields, Only(w.fields, w.field))
                            ELSE live[q].fields
Updated(w, li) == [f \in (DOMAIN li \ {w.field}) \cup (DOMAIN w.item \cap {w.field}) |->
                     IF f = w.field THEN w.item[f] ELSE li[f]]
SetsChild(w) ==
  /\ w.col # "" /\ w.res \in DOMAIN live
  /\ \/ w.action = "create" /\ OneBecomes(w.res, w.col, w.key, {w.item})
     \/ w.action = "delete" /\ OneBecomes(w.res, w.col, w.key, {})
     \/ /\ w.action = "update"
        /\ OneBecomes(w.res, w.col, w.key,
                      {Updated(w, li) : li \in {l \in live[w.res].children[w.col] :
                                                  ItemKey(w.col, l) = w.key}})

LEMMA WhatAWriteDoes ==
  ASSUME ProviderInv, NEW w, Effect(w), Makeable(w), ~IsWholeDelete(w)
  PROVE  (w.action = "unclaim" /\ UNCHANGED provider) \/ MakesResource(w) \/ SetsField(w) \/ SetsChild(w)
<1> DEFINE r == w.res
           col == w.col
           k == w.key
<1>1. CASE IsCreation(w) /\ UNCHANGED exposed
             /\ live' = With(live, w.res, [fields |-> w.fields, children |-> Childless(w.res)])
  BY <1>1 DEF MakesResource, Makeable, IsCreation
<1>2. CASE w.action = "unclaim" /\ UNCHANGED provider
  BY <1>2
<1>3. CASE /\ w.action = "update" /\ w.col = "" /\ UNCHANGED exposed
           /\ live' = [live EXCEPT ![w.res].fields = Overridden(@, Only(w.fields, w.field))]
  <2>1. w.res \in DOMAIN live
    BY <1>3 DEF Makeable, IsCreation
  <2>2. \A q \in DOMAIN live : DOMAIN live[q] = {"fields", "children"}
    BY DEF ProviderInv, HoldsData, IsData
  <2> QED
    BY <1>3, <2>1, <2>2 DEF SetsField
<1>4. ASSUME w.col # "", w.action \in {"update", "create", "delete"} PROVE w.res \in DOMAIN live
  BY <1>4 DEF Makeable, IsCreation
<1>5. CASE w.action = "create" /\ w.col # "" /\ ChildrenBecome(w.res, w.col, w.key, {w.item})
  <2> DEFINE new == {w.item}
  <2>1. ChildrenBecome(r, col, k, new)
    BY <1>5
  <2> HIDE DEF r, col, k, new
  <2>2. OneBecomes(r, col, k, new)
    BY <2>1, OneCollectionBecomes
  <2> USE DEF r, col, k, new
  <2> QED
    BY <1>4, <1>5, <2>2 DEF SetsChild
<1>6. CASE w.action = "delete" /\ w.col # "" /\ ChildrenBecome(w.res, w.col, w.key, {})
  <2> DEFINE new == {}
  <2>1. ChildrenBecome(r, col, k, new)
    BY <1>6
  <2> HIDE DEF r, col, k, new
  <2>2. OneBecomes(r, col, k, new)
    BY <2>1, OneCollectionBecomes
  <2> USE DEF r, col, k, new
  <2> QED
    BY <1>4, <1>6, <2>2 DEF SetsChild
<1>7. CASE /\ w.action = "update" /\ w.col # "" /\ exposed' = exposed
           /\ live' = [live EXCEPT ![w.res] =
                [live[w.res] EXCEPT !.children = SetChildField(live[w.res].children, w)]]
  <2> DEFINE new == {Updated(w, li) : li \in {l \in live[w.res].children[w.col] : ItemKey(w.col, l) = w.key}}
  <2>1. ChildrenBecome(r, col, k, new)
    BY <1>7 DEF SetChildField, ChildrenBecome, Updated
  <2> HIDE DEF r, col, k, new
  <2>2. OneBecomes(r, col, k, new)
    BY <2>1, OneCollectionBecomes
  <2> USE DEF r, col, k, new
  <2> QED
    BY <1>4, <1>7, <2>2 DEF SetsChild
<1> QED
  BY <1>1, <1>2, <1>3, <1>5, <1>6, <1>7 DEF Effect, ChildrenBecome, provider

LEMMA ChildrenStayKeyed ==
  ASSUME ProviderKeyed, NEW r, NEW col, NEW k, NEW new, OneBecomes(r, col, k, new),
         r \in DOMAIN live /\ col \in CollectionsOf(r) =>
           Apart(col, new) /\ \A a \in new : ItemKey(col, a) = k /\ HasKey(col, a)
  PROVE  ProviderKeyed'
<1>1. ASSUME NEW q \in DOMAIN live, NEW c \in CollectionsOf(q)
      PROVE  /\ Apart(c, live'[q].children[c])
             /\ \A li \in live'[q].children[c] : HasKey(c, li)
  <2>1. Apart(c, live[q].children[c]) /\ \A li \in live[q].children[c] : HasKey(c, li)
    BY DEF ProviderKeyed, ChildrenKeyed
  <2>2. live'[q].children[c] =
          IF q = r /\ c = col THEN {li \in live[q].children[c] : ItemKey(c, li) # k} \cup new
          ELSE live[q].children[c]
    BY DEF OneBecomes
  <2> QED
    BY <2>1, <2>2 DEF Apart
<1> QED
  BY <1>1 DEF ProviderKeyed, ChildrenKeyed, OneBecomes

LEMMA KeysAgree ==
  ASSUME NEW col, NEW a, NEW b, KeyFields(col, a) = KeyFields(col, b),
         \A f \in KeyFields(col, a) : /\ f \in DOMAIN a <=> f \in DOMAIN b
                                      /\ f \in DOMAIN a => a[f] = b[f]
  PROVE  ItemKey(col, a) = ItemKey(col, b)
<1>1. KeyFields(col, a) \cap DOMAIN a = KeyFields(col, b) \cap DOMAIN b
  OBVIOUS
<1> QED
  BY <1>1 DEF ItemKey, Restrict

LEMMA UpdatedKeepsItsKey ==
  ASSUME NEW w, KeepsItsKey(w), w.col # "", w.action = "update", NEW li,
         ItemKey(w.col, li) = w.key
  PROVE  ItemKey(w.col, Updated(w, li)) = w.key
<1> DEFINE col == w.col
           now == Updated(w, li)
<1>1. w.field \notin KeyFields(col, li) /\ w.field \notin Key[col] \cap DOMAIN w.item
  <2>1. KeyFields(col, ItemKey(col, li)) = KeyFields(col, li)
    BY KeyIsPart
  <2> QED
    BY <2>1 DEF KeepsItsKey
<1>2. /\ \A f : f # w.field => (f \in DOMAIN now <=> f \in DOMAIN li)
      /\ \A f \in DOMAIN li : f # w.field => now[f] = li[f]
      /\ w.field \in DOMAIN now <=> w.field \in DOMAIN w.item
  BY DEF Updated
<1> HIDE DEF now
<1>3. KeyFields(col, now) = KeyFields(col, li)
  <2>1. CASE w.field \in Key[col]
    <3>1. Key[col] \cap DOMAIN now = (Key[col] \cap DOMAIN li) \ {w.field}
      BY <1>1, <1>2, <2>1
    <3> QED
      BY <1>1, <2>1, <3>1 DEF KeyFields
  <2>2. CASE w.field \notin Key[col]
    <3>1. Key[col] \cap DOMAIN now = Key[col] \cap DOMAIN li
      BY <1>2, <2>2
    <3> QED
      BY <3>1 DEF KeyFields
  <2> QED
    BY <2>1, <2>2
<1>4. ItemKey(col, now) = ItemKey(col, li)
  BY <1>1, <1>2, <1>3, KeysAgree
<1> QED
  BY <1>4 DEF now

LEMMA WritesKeepKeys ==
  ASSUME ProviderKeyed, ProviderInv, NEW w, Effect(w), Makeable(w), Spares(w), WritesKeyed(w)
  PROVE  ProviderKeyed'
<1>1. CASE UNCHANGED provider
  BY <1>1 DEF provider, ProviderKeyed
<1>2. CASE MakesResource(w)
  <2> DEFINE r == w.res
             is == [fields |-> w.fields, children |-> Childless(w.res)]
  <2>1. \A q \in DOMAIN live' : q = r \/ (q \in DOMAIN live /\ live'[q] = live[q])
    BY <1>2 DEF MakesResource, With
  <2>2. DOMAIN live \subseteq DOMAIN live' /\ live'[r] = is /\ exposed' = exposed
    BY <1>2 DEF MakesResource, With
  <2>3. ChildrenKeyed(r, is.children)
    BY DEF ChildrenKeyed, Childless, Apart
  <2> HIDE DEF r, is
  <2> QED
    BY <2>1, <2>2, <2>3 DEF ProviderKeyed
<1>3. CASE SetsField(w)
  BY <1>3 DEF SetsField, ProviderKeyed
<1>4. CASE SetsChild(w)
  <2> DEFINE r == w.res
             col == w.col
             k == w.key
             old == {l \in live[r].children[col] : ItemKey(col, l) = k}
             updated == {Updated(w, li) : li \in old}
             one == {w.item}
             none == {}
  <2>0. KeepsItsKey(w) /\ w.col # "" /\ w.res \in DOMAIN live
    BY <1>4 DEF Spares, SetsChild
  <2>1. CASE w.action = "create" /\ OneBecomes(r, col, k, one)
    <3>1. ItemKey(col, w.item) = k
      BY <2>0, <2>1 DEF KeepsItsKey
    <3>2. HasKey(col, k)
      BY <2>0, <2>1 DEF WritesKeyed
    <3>3. HasKey(col, w.item)
      BY <3>1, <3>2, KeyIsKeyed
    <3>4. Apart(col, one) /\ \A a \in one : ItemKey(col, a) = k /\ HasKey(col, a)
      BY <3>1, <3>3 DEF Apart
    <3>5. OneBecomes(r, col, k, one)
      BY <2>1
    <3> HIDE DEF r, col, k, one
    <3> QED
      BY <3>4, <3>5, ChildrenStayKeyed
  <2>2. CASE w.action = "delete" /\ OneBecomes(r, col, k, none)
    <3>4. Apart(col, none) /\ \A a \in none : ItemKey(col, a) = k /\ HasKey(col, a)
      BY DEF Apart
    <3>5. OneBecomes(r, col, k, none)
      BY <2>2
    <3> HIDE DEF r, col, k, none
    <3> QED
      BY <3>4, <3>5, ChildrenStayKeyed
  <2>3. CASE w.action = "update" /\ OneBecomes(r, col, k, updated)
    <3>1. ASSUME NEW li \in old PROVE ItemKey(col, Updated(w, li)) = k
      BY <2>0, <2>3, UpdatedKeepsItsKey
    <3>2. ASSUME r \in DOMAIN live, col \in CollectionsOf(r)
          PROVE  Apart(col, updated) /\ \A a \in updated : ItemKey(col, a) = k /\ HasKey(col, a)
      <4>1. Apart(col, live[r].children[col]) /\ \A li \in live[r].children[col] : HasKey(col, li)
        BY <3>2 DEF ProviderKeyed, ChildrenKeyed
      <4>2. \A li \in old : /\ ItemKey(col, Updated(w, li)) = ItemKey(col, li)
                            /\ HasKey(col, Updated(w, li))
        BY <3>1, <4>1, KeyedByKey
      <4>3. \A li, lj \in old : li = lj
        BY <4>1 DEF Apart
      <4> HIDE DEF r, col, k
      <4> QED
        BY <3>1, <4>2, <4>3 DEF Apart
    <3>5. OneBecomes(r, col, k, updated)
      BY <2>3
    <3> HIDE DEF r, col, k, updated
    <3> QED
      BY <3>2, <3>5, ChildrenStayKeyed
  <2> QED
    BY <1>4, <2>1, <2>2, <2>3 DEF SetsChild
<1> QED
  BY <1>1, <1>2, <1>3, <1>4, WhatAWriteDoes DEF Spares

(***************************************************************************)
(* Everyone else's steps.                                                  *)
(***************************************************************************)
\* A step after which every live resource has the children it had, or none.
LEMMA ResourcesStayKeyed ==
  ASSUME ProviderKeyed,
         \A r \in DOMAIN live' : \/ r \in DOMAIN live /\ live'[r].children = live[r].children
                                 \/ live'[r].children = Childless(r),
         \A x \in DOMAIN exposed' : ExposedBy[x] \in DOMAIN live'
  PROVE  ProviderKeyed'
<1>1. ASSUME NEW r PROVE ChildrenKeyed(r, Childless(r))
  BY DEF ChildrenKeyed, Childless, Apart
<1>2. ASSUME NEW r \in DOMAIN live', live'[r].children = Childless(r)
      PROVE  ChildrenKeyed(r, live'[r].children)
  BY <1>1, <1>2
<1>3. ASSUME NEW r \in DOMAIN live', r \in DOMAIN live, live'[r].children = live[r].children
      PROVE  ChildrenKeyed(r, live'[r].children)
  BY <1>3 DEF ProviderKeyed
<1> QED
  BY <1>2, <1>3 DEF ProviderKeyed

LEMMA ResourcesGone ==
  ASSUME ProviderKeyed, NEW R, live' = Without(live, R), exposed' = ExposedWithout(R)
  PROVE  ProviderKeyed'
<1>1. \A r \in DOMAIN live' : r \in DOMAIN live /\ live'[r] = live[r]
  BY DEF Without, Restrict
<1>2. \A x \in DOMAIN exposed' : ExposedBy[x] \in DOMAIN live'
  BY DEF ExposedWithout, Without, Restrict, ProviderKeyed
<1> QED
  BY <1>1, <1>2, ResourcesStayKeyed

LEMMA EnvironmentKeepsKeys ==
  ASSUME ProviderInv, ProviderKeyed, Environment
  PROVE  ProviderKeyed'
<1>1. CASE \E x, v : exposed' = With(exposed, x, Literal(v)) /\ live' = live /\ ExposedBy[x] \in DOMAIN live
  BY <1>1 DEF ProviderKeyed, With
<1>2. CASE \E R : live' = Without(live, R) /\ exposed' = ExposedWithout(R)
  BY <1>2, ResourcesGone
<1>3. CASE \E s \in Strays : ChildrenBecome(s.res, s.col, ItemKey(s.col, s.item), {s.item})
  <2> PICK s \in Strays : ChildrenBecome(s.res, s.col, ItemKey(s.col, s.item), {s.item})
    BY <1>3
  <2> DEFINE r == s.res
             col == s.col
             k == ItemKey(col, s.item)
             new == {s.item}
  <2>1. Apart(col, new) /\ \A a \in new : ItemKey(col, a) = k /\ HasKey(col, a)
    BY ChildrenHaveKeys DEF Apart
  <2>2. ChildrenBecome(r, col, k, new)
    OBVIOUS
  <2> HIDE DEF r, col, k, new
  <2>3. OneBecomes(r, col, k, new)
    BY <2>2, OneCollectionBecomes
  <2> QED
    BY <2>1, <2>3, ChildrenStayKeyed
<1>4. CASE \E r, fields : /\ r \in DOMAIN live /\ exposed' = exposed
                          /\ live' = [live EXCEPT ![r] = [live[r] EXCEPT !.fields = fields]]
  <2> PICK r, fields : /\ r \in DOMAIN live /\ exposed' = exposed
                       /\ live' = [live EXCEPT ![r] = [live[r] EXCEPT !.fields = fields]]
    BY <1>4
  <2>1. \A q \in DOMAIN live : DOMAIN live[q] = {"fields", "children"}
    BY DEF ProviderInv, HoldsData, IsData
  <2>2. \A q \in DOMAIN live' : q \in DOMAIN live /\ live'[q].children = live[q].children
    BY <2>1
  <2> QED
    BY <2>2, ResourcesStayKeyed DEF ProviderKeyed
<1>5. CASE \E x, v : exposed' = [exposed EXCEPT ![x] = Literal(v)] /\ live' = live
  BY <1>5 DEF ProviderKeyed
<1>6. CASE UNCHANGED provider
  BY <1>6 DEF provider, ProviderKeyed
<1>7. CASE Drift
  BY <1>2, <1>3, <1>4, <1>5, <1>7, Zenon DEF Drift, ChildrenBecome
<1>8. CASE \E k \in Creators : CreatorCreates(k)
  <2> PICK k \in Creators : CreatorCreates(k)
    BY <1>8
  <2> DEFINE is == [fields |-> NoKey, children |-> Childless(k.res)]
  <2>1. live' = With(live, k.res, is) /\ exposed' = exposed /\ is.children = Childless(k.res)
    BY DEF CreatorCreates
  <2> HIDE DEF is
  <2>2. /\ DOMAIN live' = DOMAIN live \cup {k.res}
        /\ \A r \in DOMAIN live' : live'[r] = IF r = k.res THEN is ELSE live[r]
    BY <2>1 DEF With
  <2> QED
    BY <2>1, <2>2, ResourcesStayKeyed DEF ProviderKeyed
<1>9. CASE \E k \in Creators : CreatorDeletes(k)
  BY <1>2, <1>9 DEF CreatorDeletes
<1>10. CASE \E x \in ExposedValues : Assign(x)
  BY <1>1, <1>10, Zenon DEF Assign
<1> QED
  BY <1>6, <1>7, <1>8, <1>9, <1>10 DEF Environment, Edit, Commit, CreatorClaims, CreatorUnclaims

(***************************************************************************)
(* What a plan creates has its key.                                        *)
(***************************************************************************)
LEMMA ExpectedHaveKeys ==
  ASSUME set \in Sets, NEW r \in Declared(set), NEW col \in CollectionsOf(r),
         NEW e \in ExpectedChildren(r, col)
  PROVE  HasKey(col, e.declared) /\ HasKey(col, e.item)
<1>1. CASE \E it \in set.resources[r].children[col] :
             e = [item |-> ResolveItem(it), declared |-> it, source |-> r]
  <2>1. PICK it \in set.resources[r].children[col] :
             e = [item |-> ResolveItem(it), declared |-> it, source |-> r]
    BY <1>1
  <2>2. HasKey(col, it)
    BY ChildrenHaveKeys
  <2>3. DOMAIN ResolveItem(it) = DOMAIN it
    BY DEF ResolveItem
  <2> QED
    BY <2>1, <2>2, <2>3, KeyedAlike
<1>2. CASE \E s \in SlotsOn(r, col) : \E it \in s.gives :
             e = [item |-> it, declared |-> it, source |-> s.source]
  <2>0. PICK s \in SlotsOn(r, col) : \E it \in s.gives :
             e = [item |-> it, declared |-> it, source |-> s.source]
    BY <1>2
  <2>1. PICK it \in s.gives : e = [item |-> it, declared |-> it, source |-> s.source]
    BY <2>0
  <2>2. s \in {d \in SlotsOf(set, r) : d.col = col}
    BY DEF SlotsOn
  <2>3. HasKey(col, it)
    BY <2>1, <2>2, ChildrenHaveKeys
  <2> QED
    BY <2>1, <2>3
<1> QED
  BY <1>1, <1>2 DEF ExpectedChildren

LEMMA ChangesAreKeyed ==
  ASSUME Reviewable, NEW c \in ChangesFor(Differences)
  PROVE  CreatesKeyed(c)
<1>1. CASE c \in DeferredChanges
  <2>1. PICK s \in set.slots : c.slot = s
    BY <1>1 DEF DeferredChanges, OfDeclared, Change
  <2> QED
    BY <2>1, SetsHoldValues DEF CreatesKeyed, IsDeferred, Reviewable, EverythingRead
<1>2. ASSUME NEW d \in Differences, d.status \in {"missing", "changed", "unexpected"},
             ~IsSlotDifference(d), c = ChangeFor(d), c.col # "", c.action = "create"
      PROVE  HasKey(c.col, c.key)
  <2>1. PICK r \in Declared(set) : d \in ResourceDifferences(r)
    BY OnlyResourcesDiffer
  <2>2. c.col = d.col /\ c.key = d.key /\ c.action = ActionOf(d.status)
    BY <1>2 DEF ChangeFor, OfDeclared, Change
  <2>3. d.status = "missing" /\ d.key # NoKey
    BY <1>2, <2>2 DEF ActionOf, IsSlotDifference
  <2>4. d.col \in CollectionsOf(r) /\ ChildDiffers(r, d.col, d)
    BY <1>2, <2>1, <2>2, <2>3, ChildDiffersBy, SlotDifferencesSit
  <2> DEFINE col == d.col
  <2> HIDE DEF col
  <2>5. ChildDiffers(r, col, d)
    BY <2>4 DEF col
  <2>6. PICK e \in ExpectedChildren(r, col) : d.key = ItemKey(col, e.item)
    <3>1. ASSUME NEW e \in Matched(r, col), d \in ChildFieldDifferences(r, col, e) PROVE FALSE
      BY <2>3, <3>1, ChildFieldHolds
    <3>2. ASSUME NEW li, d = UnexpectedChild(r, col, li) PROVE FALSE
      BY <2>3, <3>2, UnexpectedHolds DEF OfUnexpected
    <3>3. PICK e \in ExpectedChildren(r, col) : \E status : d = MissingChild(r, col, e, status)
      BY <2>5, <3>1, <3>2 DEF ChildDiffers
    <3>4. PICK status : d = MissingChild(r, col, e, status)
      BY <3>3
    <3> QED
      BY <3>4, MissingHolds DEF OfMissing
  <2>7. HasKey(col, e.item)
    BY <2>4, ExpectedHaveKeys DEF col, Reviewable, EverythingRead
  <2>8. HasKey(col, ItemKey(col, e.item))
    BY <2>7, KeyIsKeyed
  <2> QED
    BY <2>2, <2>6, <2>8 DEF col
<1>3. ASSUME NEW d \in Differences, d.status = "unclaimed" PROVE FALSE
  BY <1>3, OnlyResourcesDiffer, ResourcesAreNeverUnclaimed DEF NotUnclaimed
<1> QED
  BY <1>1, <1>2, <1>3 DEF ChangesFor, CreatesKeyed, Reviewable

LEMMA EveryStepKeepsKeys ==
  ASSUME ~Account, WhatRefersIsCompared,
         KeysInv, RestInv, DataInv, TypeInv, OrderInv, [Next]_vars
  PROVE  KeysInv'
<1>1. CASE UNCHANGED provider /\ changes' \subseteq changes /\ writes' \subseteq writes
  BY <1>1 DEF KeysInv, ProviderKeyed, provider, CreatesKeyed, WritesKeyed
<1>2. CASE Compared /\ ~\E how : Return(how)
  <2>1. /\ pc = "reading" /\ Outstanding = {} /\ ~PlanRefused /\ changes' = ChangesFor(Differences)
        /\ UNCHANGED <<provider, writes>>
    BY <1>2 DEF Compared, execution
  <2>2. Reviewable
    BY <2>1 DEF Reviewable, EverythingRead, DataInv
  <2>3. \A c \in changes' : CreatesKeyed(c)
    BY <2>1, <2>2, ChangesAreKeyed
  <2> QED
    BY <2>1, <2>3 DEF KeysInv, ProviderKeyed, provider, CreatesKeyed, WritesKeyed
<1>3. CASE RealizeNext /\ ~\E how : Return(how)
  <2>1. /\ pc = "realizing" /\ at <= Len(plan) /\ ~WritesTooEarly(Current)
        /\ UNCHANGED <<provider, changes>>
        /\ \/ writes' = {}
           \/ writes' = IF IsDeferred(Current) THEN Expansion(Current) ELSE {Realized(Current)}
    BY <1>3 DEF RealizeNext, Advance, planning
  <2>2. Current \in changes /\ Carries(Current) /\ OfDeclaredResource(Current) /\ set \in Sets
    BY <2>1, CurrentCarriesData
  <2> DEFINE c == Current
  <2>3. ASSUME IsDeferred(c), NEW w \in Expansion(c) PROVE WritesKeyed(w)
    <3>1. c.slot \in SlotsOn(c.res, c.col) /\ ~IsFieldSlot(c.slot) /\ c.slot \in set.slots
      BY <2>1, <2>2, <2>3 DEF RestInv, Planned, ChangeSpares, DefersAPendingSlot, Carries
    <3>2. c.res \in Declared(set) /\ c.col \in CollectionsOf(c.res)
      BY <2>2, <3>1, SetsAreLoaded DEF LoadChecked, SlotsOn, SlotsOf
    <3>3. ASSUME NEW it \in c.slot.gives PROVE HasKey(c.col, it)
      <4>1. c.slot \in {d \in SlotsOf(set, c.res) : d.col = c.col}
        BY <3>1 DEF SlotsOn
      <4> QED
        BY <2>2, <3>2, <4>1, ChildrenHaveKeys
    <3>4. ASSUME NEW it \in c.slot.gives, w = ChildWrite(c, "create", "", it) PROVE WritesKeyed(w)
      <4>1. w.col = c.col /\ w.key = ItemKey(c.col, it)
        BY <3>4 DEF ChildWrite, Change
      <4> HIDE DEF c
      <4>2. HasKey(c.col, ItemKey(c.col, it))
        BY <3>3, KeyIsKeyed
      <4> QED
        BY <4>1, <4>2 DEF WritesKeyed
    <3>5. ASSUME NEW field, NEW it, w = ChildWrite(c, "update", field, it) PROVE WritesKeyed(w)
      BY <3>5 DEF WritesKeyed, ChildWrite, Change
    <3>6. ASSUME NEW li, w = ChildWrite(c, "delete", "", li) PROVE WritesKeyed(w)
      BY <3>6 DEF WritesKeyed, ChildWrite, Change
    <3> HIDE DEF c
    <3> QED
      BY <2>3, <3>4, <3>5, <3>6 DEF Expansion, ExpandedCreates, ExpandedUpdates, ExpandedDeletes
  <2>4. ASSUME ~IsDeferred(c) PROVE WritesKeyed(Realized(c))
    <3> DEFINE w == Realized(c)
    <3>1. w.action = c.action /\ w.col = c.col /\ w.key = RealizeAll(c.key)
      BY <2>2 DEF Realized, OfDeclaredResource, ChangeShape
    <3>2. \A f \in DOMAIN c.key : HasRun(c.key[f])
      BY <2>1 DEF WritesTooEarly, Range
    <3>3. DOMAIN RealizeAll(c.key) = DOMAIN c.key
      BY <3>2 DEF RealizeAll
    <3> HIDE DEF w
    <3>4. CreatesKeyed(c)
      BY <2>2 DEF KeysInv
    <3>5. w.col # "" /\ w.action = "create" => HasKey(w.col, w.key)
      BY <2>4, <3>1, <3>3, <3>4, KeyedAlike DEF CreatesKeyed
    <3> QED
      BY <3>5 DEF WritesKeyed, w
  <2>5. \A w \in writes' : WritesKeyed(w)
    BY <2>1, <2>3, <2>4
  <2> HIDE DEF c
  <2> QED
    BY <2>1, <2>5 DEF KeysInv, ProviderKeyed, provider, CreatesKeyed, WritesKeyed
<1>4. ASSUME NEW w \in writes, Effect(w), Makeable(w), changes' \subseteq changes, writes' \subseteq writes
      PROVE  KeysInv'
  <2>1. pc = "writing"
    BY DEF TypeInv, TypeOK
  <2>2. Spares(w) /\ WritesKeyed(w) /\ ProviderInv
    BY <2>1 DEF RestInv, Planned, KeysInv, DataInv
  <2>3. ProviderKeyed'
    BY <1>4, <2>2, WritesKeepKeys DEF KeysInv
  <2> QED
    BY <1>4, <2>3 DEF KeysInv, CreatesKeyed, WritesKeyed
<1>5. CASE Environment
  <2>1. UNCHANGED <<changes, writes>>
    BY <1>5 DEF Environment, Elsewhere, Assign, Drift, Edit, Commit, CreatorCreates,
                CreatorClaims, CreatorDeletes, CreatorUnclaims, planning, execution
  <2>2. ProviderKeyed'
    BY <1>5, EnvironmentKeepsKeys DEF KeysInv, DataInv
  <2> QED
    BY <2>1, <2>2 DEF KeysInv, CreatesKeyed, WritesKeyed
<1>6. ASSUME NEW how, Return(how) PROVE changes' \subseteq changes /\ writes' \subseteq writes
  BY <1>6 DEF Return
<1>7. CASE Write \/ WriteStops
  <2>0. NextWrites \subseteq writes
    BY DEF NextWrites
  <2>1. ASSUME Write
        PROVE  /\ changes' = changes /\ writes' \subseteq writes
               /\ \E w \in writes : Effect(w) /\ Makeable(w)
    BY <2>0, <2>1 DEF Write, Advance, planning
  <2>2. ASSUME WriteStops
        PROVE  /\ \E how : Return(how)
               /\ UNCHANGED provider \/ \E w \in writes : Effect(w) /\ Makeable(w)
    BY <2>0, <2>2 DEF WriteStops
  <2> QED
    BY <1>1, <1>4, <1>6, <1>7, <2>1, <2>2
<1>8. CASE Compared \/ RealizeNext
  BY <1>1, <1>2, <1>3, <1>6, <1>8 DEF Compared, RealizeNext
<1>9. CASE \/ \E m \in {"dry", "apply"} : Load(m)
           \/ CheckGit \/ ReadNext
           \/ Order \/ OrderStuck \/ Ordered \/ Place \/ PlaceRefused \/ Placed
           \/ Show \/ Accept \/ RealizeFails \/ CompareAgain \/ Report \/ UNCHANGED vars
  <2>1. UNCHANGED provider /\ changes' \subseteq changes /\ writes' \subseteq writes
    BY <1>6, <1>9 DEF Load, CheckGit, ReadNext, Order, TakeEarliest, OrderStuck, Ordered, Place, PlaceDelete,
          PlaceRefused, Placed, PutInPlace, Show, Accept, RealizeFails, CompareAgain, Report,
          vars, planning, execution, provider
  <2> QED
    BY <1>1, <2>1
<1> QED
  BY <1>5, <1>7, <1>8, <1>9 DEF Next, Command

LEMMA KeysInvAlways ==
  ASSUME ~Account, UnmanagedMatchesKeys, WhatSlotsMatchIsWritten, WhatRefersIsCompared
  PROVE  Spec => []KeysInv
<1>1. Init => KeysInv
  BY ChildrenHaveKeys, ReferencesNameExposedValues
     DEF Init, KeysInv, ProviderKeyed, ChildrenKeyed, CreatesKeyed, WritesKeyed
<1>2. KeysInv /\ RestInv /\ DataInv /\ TypeInv /\ OrderInv /\ [Next]_vars => KeysInv'
  BY EveryStepKeepsKeys
<1> QED
  BY <1>1, <1>2, RestInvAlways, TypeInvAlways, DataInvAlways, PTL DEF Spec

(***************************************************************************)
(* What a comparison remembers is so, while nothing else interferes: an    *)
(* exposed value read too early is the one exception, and then it is none  *)
(* a live child had.                                                       *)
(***************************************************************************)
Answers == {"live", "absent", "failed"}

MemoryNow ==
  /\ \A r \in DOMAIN reads :
       /\ reads[r].found = "live" => r \in DOMAIN live /\ reads[r].is = live[r]
       /\ reads[r].found = "absent" => r \notin DOMAIN live
  /\ \A x \in DOMAIN values :
       values[x].found = "live" => x \in DOMAIN exposed /\ values[x].is = exposed[x]

LateAreNew ==
  \A x \in DOMAIN values \cap DOMAIN exposed :
    values[x].found = "absent" => exposed[x] \notin LiveChildValues

ReadInv ==
  /\ \A r \in DOMAIN reads : reads[r].found \in Answers
  /\ \A x \in DOMAIN values : values[x].found \in Answers
  /\ pc \in {"idle", "loaded"} => reads = NoKey /\ values = NoKey
  /\ calm /\ pc = "reading" => MemoryNow /\ LateAreNew

LEMMA EveryStepRemembers ==
  ASSUME ~Recycles, ReadInv, [Next]_vars
  PROVE  ReadInv'
<1>0. DOMAIN NoKey = {}
  BY DEF NoKey
<1>1. ASSUME reads' = NoKey, values' = NoKey PROVE ReadInv'
  BY <1>0, <1>1, Zenon DEF ReadInv, MemoryNow, LateAreNew
<1>2. ASSUME UNCHANGED <<reads, values>>, pc' \notin {"idle", "loaded", "reading"} PROVE ReadInv'
  BY <1>2 DEF ReadInv
<1>3. ASSUME UNCHANGED <<reads, values, provider, pc, calm>> PROVE ReadInv'
  BY <1>3 DEF ReadInv, MemoryNow, LateAreNew, LiveChildValues, provider
<1>4. CASE \E how : Return(how)
  BY <1>1, <1>4 DEF Return, Forget
<1>5. CASE ReadNext
  <2>0. Answer(NextRequest, FALSE) \/ Answer(NextRequest, TRUE)
    BY <1>5 DEF ReadNext
  <2>1. PICK q, failed : Answer(q, failed)
    BY <2>0
  <2>2. UNCHANGED <<provider, pc, calm>> /\ pc = "reading"
    BY <1>5 DEF ReadNext
  <2> DEFINE of == q.of
             hearing(now) == IF failed THEN [now EXCEPT !.found = "failed"] ELSE now
             r0 == hearing(ReadNow(of))
             x0 == hearing(ExposedNow(of))
  <2>3. /\ r0.found = "live" => of \in DOMAIN live /\ r0.is = live[of]
        /\ r0.found = "absent" => of \notin DOMAIN live
        /\ r0.found \in Answers
    BY DEF ReadNow, Found, Answers
  <2>4. /\ x0.found = "live" => of \in DOMAIN exposed /\ x0.is = exposed[of]
        /\ x0.found = "absent" => of \notin DOMAIN exposed
        /\ x0.found \in Answers
    BY DEF ExposedNow, Found, Answers
  <2>5. \/ reads' = With(reads, of, r0) /\ values' = values
        \/ values' = With(values, of, x0) /\ reads' = reads
        \/ UNCHANGED <<reads, values>>
    BY <2>1 DEF Answer
  <2> HIDE DEF r0, x0, of
  <2>6. CASE reads' = With(reads, of, r0) /\ values' = values
    <3>1. DOMAIN reads' = DOMAIN reads \cup {of}
          /\ \A r \in DOMAIN reads' : reads'[r] = IF r = of THEN r0 ELSE reads[r]
      BY <2>6 DEF With
    <3> QED
      BY <2>2, <2>3, <2>6, <3>1 DEF ReadInv, MemoryNow, LateAreNew, LiveChildValues, provider
  <2>7. CASE values' = With(values, of, x0) /\ reads' = reads
    <3>1. DOMAIN values' = DOMAIN values \cup {of}
          /\ \A x \in DOMAIN values' : values'[x] = IF x = of THEN x0 ELSE values[x]
      BY <2>7 DEF With
    <3> QED
      BY <2>2, <2>4, <2>7, <3>1 DEF ReadInv, MemoryNow, LateAreNew, LiveChildValues, provider
  <2> QED
    BY <1>3, <2>2, <2>5, <2>6, <2>7
<1>6. CASE Environment
  <2>1. UNCHANGED <<reads, values, pc>>
    BY <1>6 DEF Environment, Elsewhere, Assign, Drift, Edit, Commit, CreatorCreates,
                CreatorClaims, CreatorDeletes, CreatorUnclaims, memory
  <2>2. CASE calm' = FALSE
    BY <2>1, <2>2 DEF ReadInv
  <2>3. CASE UNCHANGED <<provider, calm>>
    BY <1>3, <2>1, <2>3
  <2>4. CASE \E x : Assign(x)
    <3>1. PICK x, v : /\ exposed' = With(exposed, x, Literal(v)) /\ Literal(v) \notin LiveChildValues
                      /\ x \notin DOMAIN exposed /\ UNCHANGED <<live, calm>>
      BY <2>4 DEF Assign
    <3> DEFINE lit == Literal(v)
    <3> HIDE DEF lit
    <3>2. /\ DOMAIN exposed' = DOMAIN exposed \cup {x} /\ exposed'[x] = lit
          /\ \A y \in DOMAIN exposed : exposed'[y] = exposed[y]
      BY <3>1 DEF With, lit
    <3>3. LiveChildValues' = LiveChildValues /\ lit \notin LiveChildValues
      BY <3>1 DEF LiveChildValues, lit
    <3>4. MemoryNow => MemoryNow'
      BY <2>1, <3>1, <3>2 DEF MemoryNow
    <3>5. LateAreNew => LateAreNew'
      BY <2>1, <3>1, <3>2, <3>3 DEF LateAreNew
    <3> QED
      BY <2>1, <3>1, <3>4, <3>5 DEF ReadInv
  <2> QED
    BY <1>6, <2>2, <2>3, <2>4 DEF Environment, Drift, Edit, Commit, CreatorCreates,
                CreatorClaims, CreatorDeletes, CreatorUnclaims, provider
<1>7. CASE \/ \E m \in {"dry", "apply"} : Load(m)
           \/ CheckGit \/ CompareAgain
  BY <1>1, <1>4, <1>7 DEF Load, CheckGit, CompareAgain, Forget, ReadInv, memory
<1>8. CASE \/ Compared \/ Order \/ OrderStuck \/ Ordered \/ Place \/ PlaceRefused \/ Placed
           \/ Show \/ Accept \/ RealizeFails \/ RealizeNext \/ Write \/ WriteStops \/ Report
  BY <1>2, <1>4, <1>8 DEF Compared, Order, OrderStuck, Ordered, Place, PlaceRefused, Placed, Show, Accept,
        RealizeFails, RealizeNext, Write, WriteStops, Report, Advance, memory
<1>9. CASE UNCHANGED vars
  BY <1>3, <1>9 DEF vars, provider
<1> QED
  BY <1>5, <1>6, <1>7, <1>8, <1>9 DEF Next, Command

LEMMA ReadInvAlways ==
  ASSUME ~Recycles
  PROVE  Spec => []ReadInv
<1>1. Init => ReadInv
  BY DEF Init, ReadInv, NoKey
<1>2. ReadInv /\ [Next]_vars => ReadInv'
  BY EveryStepRemembers
<1> QED
  BY <1>1, <1>2, PTL DEF Spec

(***************************************************************************)
(* A plan holds each change once, and a slot waits in one change.          *)
(***************************************************************************)
Defers(c) ==
  /\ c.slot \in set.slots /\ ~IsFieldSlot(c.slot)
  /\ c.res = c.slot.target /\ c.col = c.slot.col /\ c.action = "create" /\ c.claim = {}

PlanInv ==
  /\ \A i, j \in DOMAIN plan : plan[i] = plan[j] => i = j
  /\ \A c \in changes : IsDeferred(c) => Defers(c)
  /\ \A c, d \in changes : IsDeferred(c) /\ IsDeferred(d) /\ c.slot = d.slot => c = d

LEMMA DeferredAre ==
  ASSUME NEW c \in DeferredChanges
  PROVE  /\ Defers(c) /\ IsPending(c.slot)
         /\ c = [OfDeclared(Change("create", c.slot.target, c.slot.col, NoKey, ""))
                   EXCEPT !.slot = c.slot, !.after = After(c.slot),
                     !.covered = {li \in LiveChildren(c.slot.target, c.slot.col) :
                                    MatchesAll(li, c.slot.match)}]
<1>1. PICK s \in set.slots :
        /\ ~IsFieldSlot(s) /\ IsPending(s)
        /\ c = [OfDeclared(Change("create", s.target, s.col, NoKey, ""))
                  EXCEPT !.slot = s, !.after = After(s),
                    !.covered = {li \in LiveChildren(s.target, s.col) : MatchesAll(li, s.match)}]
  BY DEF DeferredChanges
<1>2. /\ c.slot = s /\ c.res = s.target /\ c.col = s.col /\ c.action = "create" /\ c.claim = {}
  BY <1>1 DEF OfDeclared, Change
<1> QED
  BY <1>1, <1>2 DEF Defers

LEMMA ChangesAre ==
  ASSUME Reviewable, NEW c \in ChangesFor(Differences)
  PROVE  \/ c \in DeferredChanges /\ IsDeferred(c)
         \/ /\ ~IsDeferred(c)
            /\ \E r \in Declared(set) : \E d \in ResourceDifferences(r) :
                 /\ d.status \in {"missing", "changed", "unexpected"} /\ d.res = r
                 /\ ~IsSlotDifference(d) /\ c = ChangeFor(d)
<1>1. CASE c \in DeferredChanges
  <2>1. c.slot \in set.slots
    BY <1>1, DeferredAre DEF Defers
  <2> QED
    BY <1>1, <2>1, SetsHoldValues DEF IsDeferred, Reviewable, EverythingRead
<1>2. ASSUME NEW d \in Differences, d.status \in {"missing", "changed", "unexpected"},
             ~IsSlotDifference(d), c = ChangeFor(d)
      PROVE  /\ ~IsDeferred(c)
             /\ \E r \in Declared(set) : d \in ResourceDifferences(r) /\ d.res = r
  <2>1. PICK r \in Declared(set) : d \in ResourceDifferences(r)
    BY OnlyResourcesDiffer
  <2>2. c.slot = NoSlot
    BY <1>2 DEF ChangeFor, OfDeclared, Change
  <2> QED
    BY <2>1, <2>2, DifferencesNameTheirResource DEF IsDeferred
<1>3. ASSUME NEW d \in Differences, d.status = "unclaimed" PROVE FALSE
  BY <1>3, OnlyResourcesDiffer, ResourcesAreNeverUnclaimed DEF NotUnclaimed
<1> QED
  BY <1>1, <1>2, <1>3 DEF ChangesFor, Reviewable

LEMMA NothingWhollyDeleted ==
  ASSUME ~Account, PlanInv, RestInv, OrderInv, Planned
  PROVE  Places = {}
<1> SUFFICES ASSUME NEW i \in Places PROVE FALSE
  OBVIOUS
<1>1. plan[i] \in changes /\ IsWholeDelete(plan[i])
  BY DEF Places, OrderInv
<1>2. ~IsDeferred(plan[i])
  BY <1>1 DEF PlanInv, Defers, IsWholeDelete
<1> QED
  BY <1>1, <1>2 DEF RestInv, ChangeSpares, Spares

LEMMA EveryStepPlansOnce ==
  ASSUME ~Account, WhatRefersIsCompared, PlanInv, RestInv, DataInv, OrderInv, [Next]_vars
  PROVE  PlanInv'
<1>1. CASE UNCHANGED <<set, changes, plan>>
  BY <1>1 DEF PlanInv, Defers
<1>2. CASE changes' = {} /\ plan' = <<>>
  BY <1>2 DEF PlanInv
<1>3. CASE \E how : Return(how)
  BY <1>2, <1>3 DEF Return
<1>4. CASE Compared /\ ~\E how : Return(how)
  <2>1. /\ pc = "reading" /\ Outstanding = {} /\ ~PlanRefused /\ changes' = ChangesFor(Differences)
        /\ set' = set /\ plan' = <<>>
    BY <1>4 DEF Compared, memory
  <2>2. Reviewable
    BY <2>1 DEF Reviewable, EverythingRead, DataInv
  <2>3. \A c \in changes' : IsDeferred(c) => c \in DeferredChanges
    BY <2>1, <2>2, ChangesAre
  <2>4. \A c \in changes' : IsDeferred(c) => Defers(c)
    BY <2>3, DeferredAre
  <2>5. \A c, d \in changes' : IsDeferred(c) /\ IsDeferred(d) /\ c.slot = d.slot => c = d
    <3> TAKE c \in changes', d \in changes'
    <3> HAVE IsDeferred(c) /\ IsDeferred(d) /\ c.slot = d.slot
    <3> DEFINE of(s) == [OfDeclared(Change("create", s.target, s.col, NoKey, ""))
                   EXCEPT !.slot = s, !.after = After(s),
                     !.covered = {li \in LiveChildren(s.target, s.col) : MatchesAll(li, s.match)}]
    <3>1. c = of(c.slot) /\ d = of(d.slot)
      BY <2>3, DeferredAre
    <3> HIDE DEF of
    <3> QED
      BY <3>1
  <2> QED
    BY <2>1, <2>4, <2>5 DEF PlanInv, Defers
<1>5. CASE Order
  <2>1. PICK c \in Ready : plan' = Append(plan, c)
    BY <1>5 DEF Order, TakeEarliest
  <2>2. plan \in Seq(changes) /\ \A i \in DOMAIN plan : plan[i] # c
    BY DEF Ready, ToTake, Taken, Range, OrderInv
  <2>3. UNCHANGED <<set, changes>>
    BY <1>5 DEF Order, TakeEarliest, memory
  <2>4. \A i, j \in DOMAIN plan' : plan'[i] = plan'[j] => i = j
    BY <2>1, <2>2 DEF PlanInv
  <2> QED
    BY <2>3, <2>4 DEF PlanInv, Defers
<1>6. CASE Placed
  <2>1. Places = {}
    BY <1>6, NothingWhollyDeleted DEF Placed, Planned
  <2>2. plan' = [i \in DOMAIN plan |-> plan[i]] /\ UNCHANGED <<set, changes>>
    BY <1>6, <2>1 DEF Placed, PutInPlace, memory
  <2> QED
    BY <2>2 DEF PlanInv, Defers
<1>7. CASE \E m \in {"dry", "apply"} : Load(m)
  <2>1. changes = {} /\ UNCHANGED <<changes, plan>>
    BY <1>7 DEF Load, DataInv, planning
  <2> QED
    BY <2>1 DEF PlanInv
<1>8. CASE Environment
  BY <1>1, <1>8 DEF Environment, Elsewhere, Assign, Drift, Edit, Commit, CreatorCreates,
                    CreatorClaims, CreatorDeletes, CreatorUnclaims, memory, planning
<1>9. CASE CheckGit \/ Show \/ Accept \/ RealizeNext \/ PlaceRefused \/ OrderStuck \/ Compared
  BY <1>1, <1>3, <1>4, <1>9 DEF CheckGit, Show, Accept, RealizeNext, PlaceRefused, OrderStuck, Compared,
     memory, planning
<1>10. CASE \/ ReadNext \/ Ordered \/ Place \/ RealizeFails \/ Write \/ WriteStops
            \/ CompareAgain \/ Report \/ UNCHANGED vars
  BY <1>1, <1>3, <1>10 DEF ReadNext, Ordered, Place, PlaceDelete, RealizeFails, Write, WriteStops,
       CompareAgain, Report, vars, memory, planning
<1> QED
  BY <1>5, <1>6, <1>7, <1>8, <1>9, <1>10 DEF Next, Command

LEMMA PlanInvAlways ==
  ASSUME ~Account, UnmanagedMatchesKeys, WhatSlotsMatchIsWritten, WhatRefersIsCompared
  PROVE  Spec => []PlanInv
<1>1. Init => PlanInv
  BY DEF Init, PlanInv
<1>2. PlanInv /\ RestInv /\ DataInv /\ OrderInv /\ [Next]_vars => PlanInv'
  BY EveryStepPlansOnce
<1> QED
  BY <1>1, <1>2, RestInvAlways, TypeInvAlways, DataInvAlways, PTL DEF Spec

(***************************************************************************)
(* What is declared, in a situation: the provider's resources L, the       *)
(* exposed values X known, the changes D still to be made, their pending   *)
(* values as the plan has them, and the slots W that changes still defer.  *)
(* A declared value now is what it refers to, when that is known.          *)
(***************************************************************************)
Now(X, v)         == IF v.kind = "reference" /\ v.of \in DOMAIN X THEN X[v.of] ELSE v
NowItem(X, it)    == [f \in DOMAIN it |-> Now(X, it[f])]
KeyNow(X, col, it) == ItemKey(col, NowItem(X, it))
KeyKnown(X, col, it) ==
  \A f \in KeyFields(col, it) : it[f].kind = "reference" => it[f].of \in DOMAIN X

Items(W, r, col) ==
  set.resources[r].children[col] \cup UNION {s.gives : s \in SlotsOn(r, col) \ W}

\* Two children of one key, which no comparison that knows it accepts.
Clash(X) ==
  \E r \in Declared(set) : \E col \in CollectionsOf(r) : \E a, b \in Items({}, r, col) :
    /\ a # b /\ KeyKnown(X, col, a) /\ KeyKnown(X, col, b)
    /\ KeyNow(X, col, a) = KeyNow(X, col, b)

(***************************************************************************)
(* What a change says of what is declared.                                 *)
(***************************************************************************)
Says(X, v, w) ==
  IF w.kind = "reference"
  THEN \/ w.of \in DOMAIN X /\ v = X[w.of]
       \/ v.kind = "pending" /\ v.of = w.of
  ELSE v = w
SaysItem(X, item, it) ==
  DOMAIN item = DOMAIN it /\ \A f \in DOMAIN it : Says(X, item[f], it[f])
SaysField(X, v, r, f) ==
  LET hand == set.resources[r].fields
  IN IF f \in DOMAIN hand THEN Says(X, v, hand[f])
     ELSE \E s \in FieldSlotsOf(set, r) :
            /\ s.field = f
            /\ \/ s.reads \in DOMAIN X /\ v = X[s.reads]
               \/ v.kind = "pending" /\ v.of = s.name

On(c, r, col) == c.res = r /\ c.col = col
Makes(X, c, r, col, it) ==
  /\ On(c, r, col) /\ c.action = "create"
  /\ SaysItem(X, c.item, it) /\ c.key = ItemKey(col, c.item)
Mends(X, c, r, col, it, f) ==
  /\ On(c, r, col) /\ c.action = "update" /\ c.field = f
  /\ SaysItem(X, c.item, it) /\ KeyKnown(X, col, it) /\ c.key = KeyNow(X, col, it)
Drops(c, r, col, k) == On(c, r, col) /\ c.action = "delete" /\ c.key = k

\* Every change is of something declared, and says what that declares.
ChildFaithful(X, W, c) ==
  \/ \E it \in Items(W, c.res, c.col) :
       \/ Makes(X, c, c.res, c.col, it)
       \/ c.field \in ItemFields[c.col] /\ Mends(X, c, c.res, c.col, it, c.field)
  \/ c.action = "delete"
FieldsFaithful(X, c) ==
  /\ \A f \in DOMAIN c.fields : SaysField(X, c.fields[f], c.res, f)
  /\ \/ c.action = "create" /\ c.field = "" /\ DOMAIN c.fields = GivenBy(set, c.res)
     \/ c.action = "update" /\ c.field # ""
Faithful(X, W, c) ==
  /\ c.res \in Declared(set) /\ c.claim = {}
  /\ IF c.col = "" THEN FieldsFaithful(X, c)
     ELSE c.col \in CollectionsOf(c.res) /\ ChildFaithful(X, W, c)

(***************************************************************************)
(* Whatever is declared is so, or a change still to be made makes it so;   *)
(* whatever is live and not declared stays, or a change removes it; and    *)
(* what a change removes nothing asks for.                                 *)
(***************************************************************************)
LiveWith(L, r, col, k) == {li \in L[r].children[col] : ItemKey(col, li) = k}

FieldRight(L, X, r, f) ==
  LET hand == set.resources[r].fields
      is == L[r].fields
  IN IF f \in DOMAIN hand THEN f \in DOMAIN is /\ is[f] = Now(X, hand[f])
     ELSE IF f \in GivenBy(set, r)
     THEN \A s \in FieldSlotsOf(set, r) :
            s.field = f => /\ s.reads \in DOMAIN X /\ f \in DOMAIN is /\ is[f] = X[s.reads]
     ELSE f \notin DOMAIN is

IsMade(D, r)       == \E c \in D : c.res = r /\ IsCreation(c)
IsSet(D, r, f)     == \E c \in D : c.res = r /\ c.col = "" /\ c.action = "update" /\ c.field = f
FieldToBe(L, X, D, r, f) ==
  (r \in DOMAIN L /\ FieldRight(L, X, r, f)) \/ IsSet(D, r, f) \/ IsMade(D, r)

ItemThere(L, X, D, r, col, it) ==
  /\ r \in DOMAIN L /\ KeyKnown(X, col, it)
  /\ LiveWith(L, r, col, KeyNow(X, col, it)) # {}
  /\ \A li \in LiveWith(L, r, col, KeyNow(X, col, it)) : \A f \in ItemFields[col] :
       Only(li, f) = Only(NowItem(X, it), f) \/ \E c \in D : Mends(X, c, r, col, it, f)
ItemToBe(L, X, D, r, col, it) ==
  (\E c \in D : Makes(X, c, r, col, it)) \/ ItemThere(L, X, D, r, col, it)

ChildToBe(X, D, W, r, col, li) ==
  \/ \E it \in Items(W, r, col) : KeyKnown(X, col, it) /\ KeyNow(X, col, it) = ItemKey(col, li)
  \/ \E c \in D : Drops(c, r, col, ItemKey(col, li))
  \/ \E s \in W \cap SlotsOn(r, col) : MatchesAll(li, s.match)
  \/ Covering(r, col, li) = {} /\ LeftAlone(r, col, li)

DropsRightly(L, X, D, W, c) ==
  /\ c.res \in Declared(set) /\ c.res \in DOMAIN L /\ c.col \in CollectionsOf(c.res)
  /\ LiveWith(L, c.res, c.col, c.key) # {}
  /\ \A it \in Items({}, c.res, c.col) : KeyKnown(X, c.col, it) => KeyNow(X, c.col, it) # c.key
  /\ \A li \in LiveWith(L, c.res, c.col, c.key) :
       \A s \in W \cap SlotsOn(c.res, c.col) : ~MatchesAll(li, s.match)
  /\ \A d \in D : Drops(d, c.res, c.col, c.key) => d = c

ComesRight(L, X, D, W) ==
  /\ \A r \in Declared(set) :
       /\ r \in DOMAIN L \/ IsMade(D, r)
       /\ \A f \in Fields[TypeOf[r]] : FieldToBe(L, X, D, r, f)
       /\ \A col \in CollectionsOf(r) :
            /\ \A it \in Items(W, r, col) : ItemToBe(L, X, D, r, col, it)
            /\ r \in DOMAIN L => \A li \in L[r].children[col] : ChildToBe(X, D, W, r, col, li)
  /\ \A c \in D : c.action = "delete" => DropsRightly(L, X, D, W, c)

\* What is live, or known, is data, and every child has its key.
Sound(L, X) ==
  /\ AllLiteral(X)
  /\ \A r \in DOMAIN L : HoldsData(r, L[r]) /\ ChildrenKeyed(r, L[r].children)

(***************************************************************************)
(* What is declared is data or refers to some.                             *)
(***************************************************************************)
IsWritten(it) == \A f \in DOMAIN it : it[f].kind \in {"literal", "reference"}

LEMMA ItemsAreWritten ==
  ASSUME set \in Sets, NEW r \in Declared(set), NEW col \in CollectionsOf(r), NEW it \in Items({}, r, col)
  PROVE  /\ HasKey(col, it) /\ IsWritten(it)
         /\ it \in set.resources[r].children[col] \/ (AllLiteral(it) /\ IsItem(it))
<1>1. CASE it \in set.resources[r].children[col]
  <2>1. \A f \in DOMAIN it : it[f] \in DeclaredValues(set, r)
    BY <1>1 DEF DeclaredValues, ValuesOf, Range
  <2> QED
    BY <1>1, <2>1, ChildrenHaveKeys, SetsHoldValues DEF IsWritten
<1>2. CASE \E s \in SlotsOn(r, col) : it \in s.gives
  <2>1. PICK s \in SlotsOn(r, col) : it \in s.gives
    BY <1>2
  <2>2. s \in set.slots /\ ~IsFieldSlot(s) /\ s \in {d \in SlotsOf(set, r) : d.col = col}
    BY DEF SlotsOn, SlotsOf
  <2>3. AllLiteral(it) /\ IsItem(it)
    BY <2>1, <2>2, SetsHoldValues
  <2> QED
    BY <2>1, <2>2, <2>3, ChildrenHaveKeys DEF IsWritten, AllLiteral
<1> QED
  BY <1>1, <1>2 DEF Items

LEMMA FewerWait ==
  ASSUME NEW W, NEW V, V \subseteq W, NEW r, NEW col
  PROVE  Items(W, r, col) \subseteq Items(V, r, col)
BY DEF Items

LEMMA NowHolds ==
  ASSUME NEW X, NEW it, IsWritten(it), AllLiteral(X)
  PROVE  /\ DOMAIN NowItem(X, it) = DOMAIN it
         /\ \A f \in DOMAIN it : /\ NowItem(X, it)[f] = Now(X, it[f])
                                 /\ Now(X, it[f]).kind = "literal"
                                      <=> (it[f].kind = "reference" => it[f].of \in DOMAIN X)
BY DEF NowItem, Now, IsWritten, AllLiteral

LEMMA KeyNowHolds ==
  ASSUME NEW X, NEW col, NEW it, IsWritten(it), AllLiteral(X), HasKey(col, it)
  PROVE  /\ DOMAIN KeyNow(X, col, it) = KeyFields(col, it) /\ IsItem(KeyNow(X, col, it))
         /\ \A f \in KeyFields(col, it) : KeyNow(X, col, it)[f] = Now(X, it[f])
         /\ KeyKnown(X, col, it) <=> AllLiteral(KeyNow(X, col, it))
<1> DEFINE now == NowItem(X, it)
<1>1. DOMAIN now = DOMAIN it /\ \A f \in DOMAIN it : now[f] = Now(X, it[f])
  BY NowHolds
<1>2. KeyFields(col, now) = KeyFields(col, it) /\ KeyFields(col, it) \subseteq DOMAIN it
  BY <1>1, KeyedAlike DEF HasKey
<1> HIDE DEF now
<1>3. /\ DOMAIN ItemKey(col, now) = KeyFields(col, it) /\ IsItem(ItemKey(col, now))
      /\ \A f \in KeyFields(col, it) : ItemKey(col, now)[f] = now[f]
  <2>1. KeyFields(col, now) \cap DOMAIN now = KeyFields(col, it)
    BY <1>1, <1>2
  <2>2. /\ DOMAIN ItemKey(col, now) = KeyFields(col, now) \cap DOMAIN now
        /\ \A f \in DOMAIN ItemKey(col, now) : ItemKey(col, now)[f] = now[f]
        /\ IsItem(ItemKey(col, now))
    BY KeyIsPart
  <2> QED
    BY <2>1, <2>2
<1>4. \A f \in KeyFields(col, it) :
        Now(X, it[f]).kind = "literal" <=> (it[f].kind = "reference" => it[f].of \in DOMAIN X)
  BY <1>2, NowHolds
<1>5. KeyNow(X, col, it) = ItemKey(col, now)
  BY DEF KeyNow, now
<1> QED
  BY <1>1, <1>2, <1>3, <1>4, <1>5 DEF AllLiteral, KeyKnown

(***************************************************************************)
(* Knowing more values.                                                    *)
(***************************************************************************)
Extends(X, Y) == \A x \in DOMAIN X : x \in DOMAIN Y /\ Y[x] = X[x]

LEMMA KnownStay ==
  ASSUME NEW X, NEW Y, Extends(X, Y), AllLiteral(X), AllLiteral(Y), NEW col, NEW it,
         IsWritten(it), HasKey(col, it), KeyKnown(X, col, it)
  PROVE  KeyKnown(Y, col, it) /\ KeyNow(Y, col, it) = KeyNow(X, col, it)
<1>1. KeyKnown(Y, col, it)
  BY DEF KeyKnown, Extends
<1> DEFINE a == NowItem(X, it)
           b == NowItem(Y, it)
<1>2. /\ DOMAIN a = DOMAIN it /\ DOMAIN b = DOMAIN it
      /\ \A f \in DOMAIN it : a[f] = Now(X, it[f]) /\ b[f] = Now(Y, it[f])
  BY NowHolds
<1>3. KeyFields(col, a) = KeyFields(col, it) /\ KeyFields(col, b) = KeyFields(col, it)
  BY <1>2, KeyedAlike
<1>4. \A f \in KeyFields(col, it) : f \in DOMAIN it /\ Now(X, it[f]) = Now(Y, it[f])
  BY DEF KeyKnown, Extends, Now, HasKey
<1> HIDE DEF a, b
<1>5. ItemKey(col, a) = ItemKey(col, b)
  BY <1>2, <1>3, <1>4, KeysAgree
<1> QED
  BY <1>1, <1>5 DEF KeyNow, a, b

LEMMA SaidStays ==
  ASSUME NEW X, NEW Y, Extends(X, Y)
  PROVE  /\ \A v, w : Says(X, v, w) => Says(Y, v, w)
         /\ \A item, it : SaysItem(X, item, it) => SaysItem(Y, item, it)
         /\ \A v, r, f : SaysField(X, v, r, f) => SaysField(Y, v, r, f)
<1>1. \A v, w : Says(X, v, w) => Says(Y, v, w)
  BY DEF Says, Extends
<1>2. \A item, it : SaysItem(X, item, it) => SaysItem(Y, item, it)
  BY <1>1 DEF SaysItem
<1>3. \A v, r, f : SaysField(X, v, r, f) => SaysField(Y, v, r, f)
  BY <1>1 DEF SaysField, Extends
<1> QED
  BY <1>1, <1>2, <1>3

LEMMA ChangesStay ==
  ASSUME NEW X, NEW Y, Extends(X, Y), AllLiteral(X), AllLiteral(Y), NEW c, NEW r, NEW col, NEW it,
         IsWritten(it), HasKey(col, it)
  PROVE  /\ Makes(X, c, r, col, it) => Makes(Y, c, r, col, it)
         /\ \A f : Mends(X, c, r, col, it, f) => Mends(Y, c, r, col, it, f)
BY SaidStays, KnownStay DEF Makes, Mends

LEMMA FaithfulStays ==
  ASSUME set \in Sets, NEW X, NEW Y, Extends(X, Y), AllLiteral(X), AllLiteral(Y),
         NEW W, NEW V, V \subseteq W, NEW c, Faithful(X, W, c)
  PROVE  Faithful(Y, V, c)
<1>1. CASE c.col = ""
  BY <1>1, SaidStays DEF Faithful, FieldsFaithful
<1>2. CASE c.col # ""
  <2>1. c.res \in Declared(set) /\ c.claim = {} /\ c.col \in CollectionsOf(c.res)
    BY <1>2 DEF Faithful
  <2> DEFINE r == c.res
             col == c.col
  <2>2. ASSUME NEW it \in Items(W, r, col)
        PROVE  /\ it \in Items(V, r, col)
               /\ Makes(X, c, r, col, it) => Makes(Y, c, r, col, it)
               /\ \A f : Mends(X, c, r, col, it, f) => Mends(Y, c, r, col, it, f)
    <3>1. it \in Items(V, r, col) /\ it \in Items({}, r, col)
      BY FewerWait DEF Items
    <3>2. HasKey(col, it) /\ IsWritten(it)
      BY <2>1, <3>1, ItemsAreWritten
    <3> QED
      BY <3>1, <3>2, ChangesStay
  <2>3. ChildFaithful(X, W, c)
    BY <1>2 DEF Faithful
  <2>4. ChildFaithful(Y, V, c)
    BY <2>2, <2>3 DEF ChildFaithful
  <2> QED
    BY <1>2, <2>1, <2>4 DEF Faithful
<1> QED
  BY <1>1, <1>2

\* No live child has what Y knows and X does not.
NewToChildren(L, X, Y) ==
  \A r \in DOMAIN L : \A col \in CollectionsOf(r) : \A li \in L[r].children[col] :
    \A f \in DOMAIN li : \A x \in DOMAIN Y \ DOMAIN X : li[f] # Y[x]

LEMMA KnowingMore ==
  ASSUME set \in Sets, NEW L, NEW X, NEW Y, NEW D, NEW W,
         Extends(X, Y), Sound(L, X), AllLiteral(Y),
         NewToChildren(L, X, Y) \/ D = {}, ComesRight(L, X, D, W)
  PROVE  ComesRight(L, Y, D, W)
<1>0. AllLiteral(X)
  BY DEF Sound
<1>1. ASSUME NEW r \in Declared(set), NEW f \in Fields[TypeOf[r]] PROVE FieldToBe(L, Y, D, r, f)
  <2>1. FieldToBe(L, X, D, r, f)
    BY DEF ComesRight
  <2>2. ASSUME r \in DOMAIN L, FieldRight(L, X, r, f) PROVE FieldRight(L, Y, r, f)
    <3>1. AllLiteral(L[r].fields)
      BY <2>2 DEF Sound, HoldsData, IsData
    <3>2. \A v : Now(X, v).kind = "literal" => Now(Y, v) = Now(X, v)
      BY DEF Now, Extends
    <3> QED
      BY <2>2, <3>1, <3>2 DEF FieldRight, AllLiteral, Extends
  <2> QED
    BY <2>1, <2>2 DEF FieldToBe
<1>2. ASSUME NEW r \in Declared(set), NEW col \in CollectionsOf(r), NEW it \in Items({}, r, col)
      PROVE  /\ HasKey(col, it) /\ IsWritten(it)
             /\ KeyKnown(X, col, it) => KeyKnown(Y, col, it) /\ KeyNow(Y, col, it) = KeyNow(X, col, it)
             /\ \A c : Makes(X, c, r, col, it) => Makes(Y, c, r, col, it)
             /\ \A c, f : Mends(X, c, r, col, it, f) => Mends(Y, c, r, col, it, f)
  BY <1>0, ItemsAreWritten, KnownStay, ChangesStay
<1>3. ASSUME NEW r \in Declared(set), NEW col \in CollectionsOf(r), NEW it \in Items(W, r, col)
      PROVE  ItemToBe(L, Y, D, r, col, it)
  <2>1. it \in Items({}, r, col)
    BY FewerWait DEF Items
  <2>2. ItemToBe(L, X, D, r, col, it)
    BY DEF ComesRight
  <2>3. ASSUME ItemThere(L, X, D, r, col, it) PROVE ItemThere(L, Y, D, r, col, it)
    <3>1. r \in DOMAIN L /\ KeyKnown(Y, col, it) /\ KeyNow(Y, col, it) = KeyNow(X, col, it)
      BY <1>2, <2>1, <2>3 DEF ItemThere
    <3>2. ASSUME NEW li \in LiveWith(L, r, col, KeyNow(X, col, it)), NEW f \in ItemFields[col],
                 Only(li, f) = Only(NowItem(X, it), f)
          PROVE  Only(li, f) = Only(NowItem(Y, it), f)
      <4>1. AllLiteral(li)
        BY <3>1, <3>2 DEF LiveWith, Sound, HoldsData, IsData
      <4>2. /\ DOMAIN NowItem(X, it) = DOMAIN it /\ DOMAIN NowItem(Y, it) = DOMAIN it
            /\ f \in DOMAIN it => NowItem(X, it)[f] = Now(X, it[f]) /\ NowItem(Y, it)[f] = Now(Y, it[f])
        BY DEF NowItem
      <4>3. \A v : Now(X, v).kind = "literal" => Now(Y, v) = Now(X, v)
        BY DEF Now, Extends
      <4> DEFINE a == NowItem(X, it)
                 b == NowItem(Y, it)
      <4> HIDE DEF a, b
      <4>4. /\ f \in DOMAIN li <=> f \in DOMAIN a
            /\ f \in DOMAIN li => li[f] = a[f]
        BY <3>2 DEF Only, Restrict, a
      <4>5. /\ f \in DOMAIN li <=> f \in DOMAIN b
            /\ f \in DOMAIN li => li[f] = b[f]
        BY <4>1, <4>2, <4>3, <4>4 DEF AllLiteral, a, b
      <4>6. Only(li, f) = Only(b, f)
        BY <4>5 DEF Only, Restrict
      <4> QED
        BY <4>6 DEF b
    <3> QED
      BY <1>2, <2>1, <2>3, <3>1, <3>2 DEF ItemThere
  <2> QED
    BY <1>2, <2>1, <2>2, <2>3 DEF ItemToBe
<1>4. ASSUME NEW r \in Declared(set), NEW col \in CollectionsOf(r), r \in DOMAIN L,
             NEW li \in L[r].children[col]
      PROVE  ChildToBe(Y, D, W, r, col, li)
  <2>1. ChildToBe(X, D, W, r, col, li)
    BY <1>4 DEF ComesRight
  <2>2. \A it \in Items(W, r, col) : it \in Items({}, r, col)
    BY FewerWait DEF Items
  <2> QED
    BY <1>2, <2>1, <2>2 DEF ChildToBe
<1>5. ASSUME NEW c \in D, c.action = "delete" PROVE DropsRightly(L, Y, D, W, c)
  <2>1. DropsRightly(L, X, D, W, c) /\ NewToChildren(L, X, Y)
    BY <1>5 DEF ComesRight
  <2> DEFINE r == c.res
             col == c.col
  <2>2. r \in Declared(set) /\ r \in DOMAIN L /\ col \in CollectionsOf(r)
    BY <2>1 DEF DropsRightly
  <2>3. ASSUME NEW it \in Items({}, r, col), KeyKnown(Y, col, it), KeyNow(Y, col, it) = c.key
        PROVE  FALSE
    <3>1. HasKey(col, it) /\ IsWritten(it)
      BY <1>2, <2>2
    <3>2. ~KeyKnown(X, col, it)
      BY <1>2, <2>1, <2>2, <2>3 DEF DropsRightly
    <3>3. PICK f \in KeyFields(col, it) : it[f].kind = "reference" /\ it[f].of \notin DOMAIN X
      BY <3>2 DEF KeyKnown
    <3>4. it[f].of \in DOMAIN Y \ DOMAIN X /\ Now(Y, it[f]) = Y[it[f].of]
      BY <2>3, <3>3 DEF KeyKnown, Now
    <3>5. f \in DOMAIN c.key /\ c.key[f] = Y[it[f].of]
      BY <2>3, <3>1, <3>4, KeyNowHolds
    <3>6. PICK li \in L[r].children[col] : ItemKey(col, li) = c.key
      BY <2>1 DEF DropsRightly, LiveWith
    <3>7. f \in DOMAIN ItemKey(col, li) /\ ItemKey(col, li)[f] = c.key[f]
      BY <3>5, <3>6
    <3>8. f \in DOMAIN li /\ li[f] = c.key[f]
      BY <3>7 DEF ItemKey, Restrict
    <3> QED
      BY <2>1, <2>2, <3>4, <3>5, <3>8 DEF NewToChildren
  <2> QED
    BY <2>1, <2>3 DEF DropsRightly
<1> QED
  BY <1>1, <1>3, <1>4, <1>5 DEF ComesRight

(***************************************************************************)
(* A change that stands for another: with what is pending put in.          *)
(***************************************************************************)
InPlaceOf(X, c, d) ==
  /\ d.res = c.res /\ d.col = c.col /\ d.action = c.action /\ d.field = c.field
  /\ c.action = "delete" => d.key = c.key
  /\ \A r \in Declared(set) : \A col \in CollectionsOf(r) : \A it \in Items({}, r, col) :
       /\ Makes(X, c, r, col, it) => Makes(X, d, r, col, it)
       /\ \A f : Mends(X, c, r, col, it, f) => Mends(X, d, r, col, it, f)

LEMMA OneInPlaceOfAnother ==
  ASSUME NEW L, NEW X, NEW D, NEW W, NEW c \in D, NEW d, InPlaceOf(X, c, d), ComesRight(L, X, D, W)
  PROVE  ComesRight(L, X, (D \ {c}) \cup {d}, W)
<1> DEFINE E == (D \ {c}) \cup {d}
<1>1. ASSUME NEW r \in Declared(set)
      PROVE  /\ r \in DOMAIN L \/ IsMade(E, r)
             /\ \A f \in Fields[TypeOf[r]] : FieldToBe(L, X, E, r, f)
  <2>1. /\ r \in DOMAIN L \/ IsMade(D, r)
        /\ \A f \in Fields[TypeOf[r]] : FieldToBe(L, X, D, r, f)
    BY DEF ComesRight
  <2>2. IsMade(D, r) => IsMade(E, r)
    BY DEF IsMade, IsCreation, InPlaceOf
  <2>3. \A f : IsSet(D, r, f) => IsSet(E, r, f)
    BY DEF IsSet, InPlaceOf
  <2> HIDE DEF E
  <2> QED
    BY <2>1, <2>2, <2>3 DEF FieldToBe
<1>2. ASSUME NEW r \in Declared(set), NEW col \in CollectionsOf(r), NEW it \in Items(W, r, col)
      PROVE  ItemToBe(L, X, E, r, col, it)
  <2>1. it \in Items({}, r, col)
    BY FewerWait DEF Items
  <2>2. ItemToBe(L, X, D, r, col, it)
    BY DEF ComesRight
  <2>3. ASSUME NEW e \in D
        PROVE  /\ Makes(X, e, r, col, it) => \E g \in E : Makes(X, g, r, col, it)
               /\ \A f : Mends(X, e, r, col, it, f) => \E g \in E : Mends(X, g, r, col, it, f)
    BY <2>1 DEF InPlaceOf
  <2> HIDE DEF E
  <2> QED
    BY <2>2, <2>3 DEF ItemToBe, ItemThere
<1>3. ASSUME NEW r \in Declared(set), NEW col \in CollectionsOf(r), r \in DOMAIN L,
             NEW li \in L[r].children[col]
      PROVE  ChildToBe(X, E, W, r, col, li)
  <2>1. ChildToBe(X, D, W, r, col, li)
    BY <1>3 DEF ComesRight
  <2>2. \A e \in D : \A k : Drops(e, r, col, k) => \E g \in E : Drops(g, r, col, k)
    BY DEF Drops, On, InPlaceOf
  <2> HIDE DEF E
  <2> QED
    BY <2>1, <2>2 DEF ChildToBe
<1>4. ASSUME NEW e \in E, e.action = "delete" PROVE DropsRightly(L, X, E, W, e)
  <2>1. CASE e = d
    <3>1. DropsRightly(L, X, D, W, c) /\ e.res = c.res /\ e.col = c.col /\ e.key = c.key
      BY <1>4, <2>1 DEF ComesRight, InPlaceOf
    <3>2. \A g \in E : Drops(g, c.res, c.col, c.key) => g = d
      BY <3>1 DEF DropsRightly
    <3> HIDE DEF E
    <3> QED
      BY <2>1, <3>1, <3>2 DEF DropsRightly
  <2>2. CASE e \in D \ {c}
    <3>1. DropsRightly(L, X, D, W, e)
      BY <1>4, <2>2 DEF ComesRight
    <3>2. ASSUME NEW g \in E, Drops(g, e.res, e.col, e.key) PROVE g = e
      <4>1. CASE g \in D
        BY <3>1, <3>2, <4>1 DEF DropsRightly
      <4>2. CASE g = d
        <5>1. Drops(c, e.res, e.col, e.key)
          BY <3>2, <4>2 DEF Drops, On, InPlaceOf
        <5> QED
          BY <2>2, <3>1, <5>1 DEF DropsRightly
      <4> QED
        BY <4>1, <4>2
    <3> HIDE DEF E
    <3> QED
      BY <3>1, <3>2 DEF DropsRightly
  <2> QED
    BY <2>1, <2>2
<1> HIDE DEF E
<1>5. ComesRight(L, X, E, W)
  BY <1>1, <1>2, <1>3, <1>4 DEF ComesRight
<1> QED
  BY <1>5 DEF E

(***************************************************************************)
(* One write.                                                              *)
(***************************************************************************)
Holds(w) == IsUpsert(w) => AllLiteral(w.fields) /\ AllLiteral(w.item)

\* What is left to do once w is done.
Leaves(D, w, E) == w \in D /\ D \ {w} \subseteq E /\ E \subseteq D

LEMMA SaidIsSo ==
  ASSUME NEW X, NEW v, NEW u, v.kind = "literal", Says(X, v, u)
  PROVE  v = Now(X, u) /\ (u.kind = "reference" => u.of \in DOMAIN X)
BY DEF Says, Now

LEMMA SaidFieldIsSo ==
  ASSUME set \in Sets, NEW r \in Declared(set), NEW f, NEW X, NEW v, v.kind = "literal",
         SaysField(X, v, r, f), NEW L, f \in DOMAIN L[r].fields, L[r].fields[f] = v
  PROVE  FieldRight(L, X, r, f)
<1> DEFINE hand == set.resources[r].fields
<1>1. CASE f \in DOMAIN hand
  <2>1. Says(X, v, hand[f])
    BY <1>1 DEF SaysField
  <2>2. v = Now(X, hand[f])
    BY <2>1, SaidIsSo
  <2> QED
    BY <1>1, <2>2 DEF FieldRight
<1>2. CASE f \notin DOMAIN hand
  <2>1. PICK s \in FieldSlotsOf(set, r) : s.field = f /\ s.reads \in DOMAIN X /\ v = X[s.reads]
    BY <1>2 DEF SaysField
  <2>2. \A t \in FieldSlotsOf(set, r) : t.field = f => t = s
    BY <2>1, SetsAreLoaded DEF LoadChecked, FieldSlotsOf, Overlap
  <2> QED
    BY <1>2, <2>1, <2>2 DEF FieldRight, GivenBy, FieldSlotsOf
<1> QED
  BY <1>1, <1>2

LEMMA SaidItemIsSo ==
  ASSUME NEW X, AllLiteral(X), NEW col, NEW item, NEW it, AllLiteral(item), IsWritten(it), HasKey(col, it),
         SaysItem(X, item, it)
  PROVE  /\ KeyKnown(X, col, it) /\ KeyNow(X, col, it) = ItemKey(col, item)
         /\ \A f : Only(item, f) = Only(NowItem(X, it), f)
<1> DEFINE now == NowItem(X, it)
<1>1. DOMAIN now = DOMAIN it /\ \A f \in DOMAIN it : now[f] = Now(X, it[f])
  BY DEF NowItem
<1>2. DOMAIN item = DOMAIN it
  BY DEF SaysItem
<1>3. \A f \in DOMAIN it : item[f] = now[f] /\ (it[f].kind = "reference" => it[f].of \in DOMAIN X)
  BY <1>1, <1>2, SaidIsSo DEF SaysItem, AllLiteral
<1>4. KeyKnown(X, col, it)
  BY <1>3 DEF KeyKnown, HasKey
<1> HIDE DEF now
<1>5. KeyFields(col, now) = KeyFields(col, item)
  BY <1>1, <1>2, KeyedAlike
<1>6. ItemKey(col, now) = ItemKey(col, item)
  BY <1>1, <1>2, <1>3, <1>5, KeysAgree
<1>7. ASSUME NEW f PROVE Only(item, f) = Only(now, f)
  <2>1. {f} \cap DOMAIN item = {f} \cap DOMAIN now
    BY <1>1, <1>2
  <2>2. \A g \in {f} \cap DOMAIN item : item[g] = now[g]
    BY <1>2, <1>3
  <2> QED
    BY <2>1, <2>2 DEF Only, Restrict
<1> QED
  BY <1>4, <1>6, <1>7 DEF KeyNow, now

(***************************************************************************)
(* A resource made.                                                        *)
(***************************************************************************)
LEMMA AResourceMade ==
  ASSUME set \in Sets, NEW L, NEW M, NEW X, NEW D, NEW W, NEW w, NEW E, Leaves(D, w, E),
         ComesRight(L, X, D, W), Faithful(X, W, w), Holds(w), IsCreation(w), w.res \notin DOMAIN L,
         M = With(L, w.res, [fields |-> w.fields, children |-> Childless(w.res)])
  PROVE  ComesRight(M, X, E, W)
<1> DEFINE r == w.res
           is == [fields |-> w.fields, children |-> Childless(w.res)]
<1>0. /\ E \subseteq D /\ \A c \in D : c \in E \/ c = w
      /\ w.action = "create" /\ w.col = "" /\ w.field = ""
  BY DEF Leaves, IsCreation
<1>1. /\ DOMAIN M = DOMAIN L \cup {r} /\ M[r] = is
      /\ \A q \in DOMAIN L : q # r /\ M[q] = L[q]
  BY DEF With
<1>2. /\ r \in Declared(set) /\ DOMAIN w.fields = GivenBy(set, r) /\ AllLiteral(w.fields)
      /\ \A f \in DOMAIN w.fields : SaysField(X, w.fields[f], r, f)
  BY <1>0 DEF Faithful, FieldsFaithful, Holds, IsUpsert
<1>3. ASSUME NEW q \in Declared(set), NEW col \in CollectionsOf(q) PROVE col # ""
  BY <1>3, SetsAreLoaded, CollectionsHaveNames, StagesAreNumbers DEF CollectionsOf
<1>4. ASSUME NEW f PROVE FieldRight(M, X, r, f)
  <2>1. CASE f \in DOMAIN w.fields
    <3>1. f \in DOMAIN M[r].fields /\ M[r].fields[f] = w.fields[f]
      BY <1>1, <2>1
    <3> QED
      BY <1>2, <2>1, <3>1, SaidFieldIsSo DEF AllLiteral
  <2>2. CASE f \notin DOMAIN w.fields
    BY <1>1, <1>2, <2>2 DEF FieldRight, GivenBy
  <2> QED
    BY <2>1, <2>2
<1> HIDE DEF is
<1>5. ASSUME NEW q \in Declared(set)
      PROVE  /\ q \in DOMAIN M \/ IsMade(E, q)
             /\ \A f \in Fields[TypeOf[q]] : FieldToBe(M, X, E, q, f)
  <2>1. CASE q = r
    BY <1>1, <1>4, <2>1 DEF FieldToBe
  <2>2. CASE q # r
    <3>1. /\ q \in DOMAIN L \/ IsMade(D, q)
          /\ \A f \in Fields[TypeOf[q]] : FieldToBe(L, X, D, q, f)
      BY DEF ComesRight
    <3>2. IsMade(D, q) => IsMade(E, q)
      BY <1>0, <2>2 DEF IsMade
    <3>3. \A f : IsSet(D, q, f) => IsSet(E, q, f)
      BY <1>0, <2>2 DEF IsSet
    <3>4. \A f : q \in DOMAIN L /\ FieldRight(L, X, q, f) => q \in DOMAIN M /\ FieldRight(M, X, q, f)
      BY <1>1 DEF FieldRight
    <3> QED
      BY <1>1, <3>1, <3>2, <3>3, <3>4 DEF FieldToBe
  <2> QED
    BY <2>1, <2>2
<1>6. ASSUME NEW q \in Declared(set), NEW col \in CollectionsOf(q), NEW it \in Items(W, q, col)
      PROVE  ItemToBe(M, X, E, q, col, it)
  <2>1. ItemToBe(L, X, D, q, col, it)
    BY DEF ComesRight
  <2>2. ~On(w, q, col)
    BY <1>0, <1>3 DEF On
  <2>3. ASSUME NEW c \in D
        PROVE  /\ Makes(X, c, q, col, it) => c \in E
               /\ \A f : Mends(X, c, q, col, it, f) => c \in E
    BY <1>0, <2>2 DEF Makes, Mends
  <2>4. q \in DOMAIN L => q \in DOMAIN M /\ \A k : LiveWith(M, q, col, k) = LiveWith(L, q, col, k)
    BY <1>1 DEF LiveWith
  <2> QED
    BY <2>1, <2>3, <2>4 DEF ItemToBe, ItemThere
<1>7. ASSUME NEW q \in Declared(set), NEW col \in CollectionsOf(q), q \in DOMAIN M,
             NEW li \in M[q].children[col]
      PROVE  ChildToBe(X, E, W, q, col, li)
  <2>1. q # r
    <3>1. is.children = Childless(r)
      BY DEF is
    <3>2. \A p \in CollectionsOf(r) : Childless(r)[p] = {}
      BY DEF Childless
    <3> QED
      BY <1>1, <1>7, <3>1, <3>2
  <2>2. q \in DOMAIN L /\ li \in L[q].children[col]
    BY <1>1, <1>7, <2>1
  <2>3. ChildToBe(X, D, W, q, col, li)
    BY <2>2 DEF ComesRight
  <2>4. \A c \in D : \A k : Drops(c, q, col, k) => c \in E
    BY <1>0, <1>3 DEF Drops, On
  <2> QED
    BY <2>3, <2>4 DEF ChildToBe
<1>8. ASSUME NEW c \in E, c.action = "delete" PROVE DropsRightly(M, X, E, W, c)
  <2>1. DropsRightly(L, X, D, W, c)
    BY <1>0, <1>8 DEF ComesRight
  <2>2. c.res \in DOMAIN M /\ LiveWith(M, c.res, c.col, c.key) = LiveWith(L, c.res, c.col, c.key)
    BY <1>1, <2>1 DEF DropsRightly, LiveWith
  <2> QED
    BY <1>0, <2>1, <2>2 DEF DropsRightly
<1> QED
  BY <1>5, <1>6, <1>7, <1>8 DEF ComesRight

(***************************************************************************)
(* A field set.                                                            *)
(***************************************************************************)
FieldBecomes(L, M, w) ==
  /\ w.res \in DOMAIN L /\ DOMAIN M = DOMAIN L
  /\ \A q \in DOMAIN L :
       /\ M[q].children = L[q].children
       /\ M[q].fields = IF q = w.res THEN Overridden(L[q].fields, Only(w.fields, w.field))
                        ELSE L[q].fields

LEMMA AFieldSet ==
  ASSUME set \in Sets, NEW L, NEW M, NEW X, NEW D, NEW W, NEW w, NEW E, Leaves(D, w, E),
         ComesRight(L, X, D, W), Faithful(X, W, w), Holds(w),
         w.action = "update", w.col = "", w.field \in DOMAIN w.fields, FieldBecomes(L, M, w)
  PROVE  ComesRight(M, X, E, W)
<1> DEFINE r == w.res
           g == w.field
<1>0. E \subseteq D /\ \A c \in D : c \in E \/ c = w
  BY DEF Leaves
<1>1. r \in Declared(set) /\ AllLiteral(w.fields) /\ SaysField(X, w.fields[g], r, g)
  BY DEF Faithful, FieldsFaithful, Holds, IsUpsert
<1>2. ASSUME NEW q \in Declared(set), NEW col \in CollectionsOf(q) PROVE col # ""
  BY <1>2, SetsAreLoaded, CollectionsHaveNames, StagesAreNumbers DEF CollectionsOf
<1>3. ASSUME NEW f
      PROVE  /\ f \in DOMAIN M[r].fields <=> f = g \/ f \in DOMAIN L[r].fields
             /\ f \in DOMAIN M[r].fields => M[r].fields[f] = IF f = g THEN w.fields[f] ELSE L[r].fields[f]
  <2> DEFINE one == Only(w.fields, g)
  <2>1. DOMAIN one = {g} /\ one[g] = w.fields[g]
    BY DEF Only, Restrict
  <2> HIDE DEF one
  <2>2. M[r].fields = Overridden(L[r].fields, one)
    BY DEF one, FieldBecomes
  <2> QED
    BY <2>1, <2>2 DEF Overridden
<1>4. ASSUME NEW q \in Declared(set)
      PROVE  /\ q \in DOMAIN M \/ IsMade(E, q)
             /\ \A f \in Fields[TypeOf[q]] : FieldToBe(M, X, E, q, f)
  <2>1. /\ q \in DOMAIN L \/ IsMade(D, q)
        /\ \A f \in Fields[TypeOf[q]] : FieldToBe(L, X, D, q, f)
    BY DEF ComesRight
  <2>2. IsMade(D, q) => IsMade(E, q)
    BY <1>0 DEF IsMade, IsCreation
  <2>3. ASSUME NEW f, f # g \/ q # r PROVE IsSet(D, q, f) => IsSet(E, q, f)
    BY <1>0, <2>3 DEF IsSet
  <2>4. ASSUME NEW f, f # g \/ q # r, q \in DOMAIN L, FieldRight(L, X, q, f) PROVE FieldRight(M, X, q, f)
    <3>1. /\ f \in DOMAIN M[q].fields <=> f \in DOMAIN L[q].fields
          /\ f \in DOMAIN L[q].fields => M[q].fields[f] = L[q].fields[f]
      BY <1>3, <2>4 DEF FieldBecomes
    <3> QED
      BY <2>4, <3>1 DEF FieldRight
  <2>5. FieldRight(M, X, r, g)
    BY <1>1, <1>3, SaidFieldIsSo DEF AllLiteral
  <2> QED
    BY <2>1, <2>2, <2>3, <2>4, <2>5 DEF FieldToBe, FieldBecomes
<1>5. ASSUME NEW q, NEW col, NEW k, q \in DOMAIN L
      PROVE  q \in DOMAIN M /\ LiveWith(M, q, col, k) = LiveWith(L, q, col, k)
  BY <1>5 DEF LiveWith, FieldBecomes
<1>6. ASSUME NEW q \in Declared(set), NEW col \in CollectionsOf(q), NEW c \in D, On(c, q, col)
      PROVE  c \in E
  BY <1>0, <1>2, <1>6 DEF On
<1>7. ASSUME NEW q \in Declared(set), NEW col \in CollectionsOf(q), NEW it \in Items(W, q, col)
      PROVE  ItemToBe(M, X, E, q, col, it)
  <2>1. ItemToBe(L, X, D, q, col, it)
    BY DEF ComesRight
  <2>2. ASSUME NEW c \in D
        PROVE  /\ Makes(X, c, q, col, it) => c \in E
               /\ \A f : Mends(X, c, q, col, it, f) => c \in E
    BY <1>6 DEF Makes, Mends
  <2>3. q \in DOMAIN L =>
          q \in DOMAIN M /\ LiveWith(M, q, col, KeyNow(X, col, it)) = LiveWith(L, q, col, KeyNow(X, col, it))
    BY <1>5
  <2> QED
    BY <2>1, <2>2, <2>3 DEF ItemToBe, ItemThere
<1>8. ASSUME NEW q \in Declared(set), NEW col \in CollectionsOf(q), q \in DOMAIN M,
             NEW li \in M[q].children[col]
      PROVE  ChildToBe(X, E, W, q, col, li)
  <2>1. ChildToBe(X, D, W, q, col, li)
    BY <1>8 DEF ComesRight, FieldBecomes
  <2>2. \A c \in D : \A k : Drops(c, q, col, k) => c \in E
    BY <1>6 DEF Drops
  <2> QED
    BY <2>1, <2>2 DEF ChildToBe
<1>9. ASSUME NEW c \in E, c.action = "delete" PROVE DropsRightly(M, X, E, W, c)
  <2>1. DropsRightly(L, X, D, W, c)
    BY <1>0, <1>9 DEF ComesRight
  <2>2. c.res \in DOMAIN M /\ LiveWith(M, c.res, c.col, c.key) = LiveWith(L, c.res, c.col, c.key)
    BY <1>5, <2>1 DEF DropsRightly
  <2> QED
    BY <1>0, <2>1, <2>2 DEF DropsRightly
<1> QED
  BY <1>4, <1>7, <1>8, <1>9 DEF ComesRight

(***************************************************************************)
(* The children at one key become others.                                  *)
(***************************************************************************)
Becomes(L, M, r, col, k, new) ==
  /\ r \in DOMAIN L /\ DOMAIN M = DOMAIN L
  /\ \A q \in DOMAIN L :
       /\ M[q].fields = L[q].fields
       /\ \A c \in CollectionsOf(q) :
            M[q].children[c] =
              IF q = r /\ c = col THEN {li \in L[q].children[c] : ItemKey(c, li) # k} \cup new
              ELSE L[q].children[c]

\* The items of that key, or that the write makes, are as they should be.
LEMMA ChildrenBecomeRight ==
  ASSUME set \in Sets, NEW L, NEW M, NEW X, NEW D, NEW W, NEW w, NEW E, Leaves(D, w, E),
         ComesRight(L, X, D, W), w.res \in Declared(set), w.col \in CollectionsOf(w.res),
         NEW new, Becomes(L, M, w.res, w.col, w.key, new),
         \A a \in new : ItemKey(w.col, a) = w.key,
         new = {} \/ \E it \in Items(W, w.res, w.col) :
                       KeyKnown(X, w.col, it) /\ KeyNow(X, w.col, it) = w.key,
         \A it \in Items(W, w.res, w.col) :
           \/ (KeyKnown(X, w.col, it) /\ KeyNow(X, w.col, it) = w.key)
           \/ Makes(X, w, w.res, w.col, it)
           => ItemToBe(M, X, E, w.res, w.col, it),
         \A c \in E : c.action = "delete" /\ On(c, w.res, w.col) => c.key # w.key
  PROVE  ComesRight(M, X, E, W)
<1> DEFINE r == w.res
           col == w.col
           k == w.key
<1>0. E \subseteq D /\ \A c \in D : c \in E \/ c = w
  BY DEF Leaves
<1>1. col # ""
  BY SetsAreLoaded, CollectionsHaveNames, StagesAreNumbers DEF CollectionsOf
<1>2. ASSUME NEW q \in DOMAIN L, NEW p \in CollectionsOf(q), NEW j, ~(q = r /\ p = col /\ j = k)
      PROVE  LiveWith(M, q, p, j) = LiveWith(L, q, p, j)
  <2>1. CASE q = r /\ p = col
    <3>1. M[q].children[p] = {li \in L[q].children[p] : ItemKey(p, li) # k} \cup new
      BY <2>1 DEF Becomes
    <3>2. j # k /\ \A a \in new : ItemKey(p, a) # j
      BY <1>2, <2>1
    <3> QED
      BY <3>1, <3>2 DEF LiveWith
  <2>2. CASE ~(q = r /\ p = col)
    BY <2>2 DEF LiveWith, Becomes
  <2> QED
    BY <2>1, <2>2
<1>3. ASSUME NEW q \in Declared(set)
      PROVE  /\ q \in DOMAIN M \/ IsMade(E, q)
             /\ \A f \in Fields[TypeOf[q]] : FieldToBe(M, X, E, q, f)
  <2>1. /\ q \in DOMAIN L \/ IsMade(D, q)
        /\ \A f \in Fields[TypeOf[q]] : FieldToBe(L, X, D, q, f)
    BY DEF ComesRight
  <2>2. IsMade(D, q) => IsMade(E, q)
    BY <1>0, <1>1 DEF IsMade, IsCreation
  <2>3. \A f : IsSet(D, q, f) => IsSet(E, q, f)
    BY <1>0, <1>1 DEF IsSet
  <2>4. \A f : q \in DOMAIN L /\ FieldRight(L, X, q, f) => FieldRight(M, X, q, f)
    BY DEF FieldRight, Becomes
  <2>5. DOMAIN M = DOMAIN L
    BY DEF Becomes
  <2> QED
    BY <2>1, <2>2, <2>3, <2>4, <2>5 DEF FieldToBe
<1>4. ASSUME NEW q \in Declared(set), NEW p \in CollectionsOf(q), NEW it \in Items(W, q, p)
      PROVE  ItemToBe(M, X, E, q, p, it)
  <2>1. ItemToBe(L, X, D, q, p, it)
    BY DEF ComesRight
  <2>2. CASE /\ q = r /\ p = col
             /\ (KeyKnown(X, p, it) /\ KeyNow(X, p, it) = k) \/ Makes(X, w, q, p, it)
    BY <2>2
  <2>3. CASE ~(/\ q = r /\ p = col
               /\ (KeyKnown(X, p, it) /\ KeyNow(X, p, it) = k) \/ Makes(X, w, q, p, it))
    <3>1. \A c \in D : Makes(X, c, q, p, it) => c \in E
      BY <1>0, <2>3 DEF Makes, On
    <3>2. ASSUME ItemThere(L, X, D, q, p, it) PROVE ItemThere(M, X, E, q, p, it)
      <4>1. q \in DOMAIN L /\ KeyKnown(X, p, it) /\ ~(q = r /\ p = col /\ KeyNow(X, p, it) = k)
        BY <2>3, <3>2 DEF ItemThere
      <4>2. LiveWith(M, q, p, KeyNow(X, p, it)) = LiveWith(L, q, p, KeyNow(X, p, it))
        BY <1>2, <4>1
      <4>3. \A c \in D : \A f : Mends(X, c, q, p, it, f) => c \in E
        BY <1>0, <4>1 DEF Mends, On
      <4>4. q \in DOMAIN M
        BY <4>1 DEF Becomes
      <4> QED
        BY <3>2, <4>2, <4>3, <4>4 DEF ItemThere
    <3> QED
      BY <2>1, <3>1, <3>2 DEF ItemToBe
  <2> QED
    BY <2>2, <2>3
<1>5. ASSUME NEW q \in Declared(set), NEW p \in CollectionsOf(q), q \in DOMAIN M,
             NEW li \in M[q].children[p]
      PROVE  ChildToBe(X, E, W, q, p, li)
  <2>1. q \in DOMAIN L
    BY <1>5 DEF Becomes
  <2>2. CASE q = r /\ p = col /\ li \in new
    BY <2>2 DEF ChildToBe
  <2>3. CASE li \in L[q].children[p] /\ ~(q = r /\ p = col /\ ItemKey(p, li) = k)
    <3>1. ChildToBe(X, D, W, q, p, li)
      BY <2>1, <2>3 DEF ComesRight
    <3>2. \A c \in D : Drops(c, q, p, ItemKey(p, li)) => c \in E
      BY <1>0, <2>3 DEF Drops, On
    <3> QED
      BY <3>1, <3>2 DEF ChildToBe
  <2> QED
    BY <1>5, <2>1, <2>2, <2>3 DEF Becomes
<1>6. ASSUME NEW c \in E, c.action = "delete" PROVE DropsRightly(M, X, E, W, c)
  <2>1. DropsRightly(L, X, D, W, c)
    BY <1>0, <1>6 DEF ComesRight
  <2>2. c.res \in DOMAIN L /\ c.col \in CollectionsOf(c.res)
    BY <2>1 DEF DropsRightly
  <2>3. LiveWith(M, c.res, c.col, c.key) = LiveWith(L, c.res, c.col, c.key)
    BY <1>2, <1>6, <2>2 DEF On
  <2>4. c.res \in DOMAIN M
    BY <2>2 DEF Becomes
  <2> QED
    BY <1>0, <2>1, <2>3, <2>4 DEF DropsRightly
<1> QED
  BY <1>3, <1>4, <1>5, <1>6 DEF ComesRight

(***************************************************************************)
(* A child made, mended or dropped.                                        *)
(***************************************************************************)
MayBeDone(L, X, D, W, w, E) ==
  /\ AllLiteral(X) /\ Leaves(D, w, E) /\ ComesRight(L, X, D, W)
  /\ Faithful(X, W, w) /\ Holds(w) /\ w.col # ""

\* Two items of one key are one, unless they clash.
LEMMA OnePerKey ==
  ASSUME set \in Sets, NEW X, ~Clash(X), NEW W, NEW r \in Declared(set), NEW col \in CollectionsOf(r),
         NEW a \in Items(W, r, col), NEW b \in Items(W, r, col),
         KeyKnown(X, col, a), KeyKnown(X, col, b), KeyNow(X, col, a) = KeyNow(X, col, b)
  PROVE  a = b
<1>1. a \in Items({}, r, col) /\ b \in Items({}, r, col)
  BY DEF Items
<1> QED
  BY <1>1 DEF Clash

LEMMA UpsertsDropNothing ==
  ASSUME NEW L, NEW X, NEW D, NEW W, NEW w, NEW E, MayBeDone(L, X, D, W, w, E),
         NEW it \in Items(W, w.res, w.col), KeyKnown(X, w.col, it), KeyNow(X, w.col, it) = w.key,
         NEW c \in E, c.action = "delete", On(c, w.res, w.col)
  PROVE  c.key # w.key
<1>1. DropsRightly(L, X, D, W, c)
  BY DEF MayBeDone, ComesRight, Leaves
<1>2. it \in Items({}, c.res, c.col)
  BY DEF Items, On
<1> QED
  BY <1>1, <1>2 DEF DropsRightly, On

LEMMA AChildMade ==
  ASSUME set \in Sets, NEW L, NEW M, NEW X, NEW D, NEW W, NEW w, NEW E, MayBeDone(L, X, D, W, w, E),
         ~Clash(X), w.action = "create", Becomes(L, M, w.res, w.col, w.key, {w.item})
  PROVE  ComesRight(M, X, E, W)
<1> DEFINE r == w.res
           col == w.col
           k == w.key
<1>0. /\ AllLiteral(X) /\ Leaves(D, w, E) /\ ComesRight(L, X, D, W) /\ AllLiteral(w.item)
      /\ r \in Declared(set) /\ col \in CollectionsOf(r) /\ ChildFaithful(X, W, w)
  BY DEF MayBeDone, Faithful, Holds, IsUpsert
<1>1. PICK it \in Items(W, r, col) : Makes(X, w, r, col, it)
  BY <1>0 DEF ChildFaithful, Mends
<1>2. ASSUME NEW o \in Items(W, r, col)
      PROVE  HasKey(col, o) /\ IsWritten(o)
  <2>1. o \in Items({}, r, col)
    BY DEF Items
  <2> QED
    BY <1>0, <2>1, ItemsAreWritten
<1>3. ASSUME NEW o \in Items(W, r, col), Makes(X, w, r, col, o)
      PROVE  /\ KeyKnown(X, col, o) /\ KeyNow(X, col, o) = k
             /\ \A f : Only(w.item, f) = Only(NowItem(X, o), f)
  BY <1>0, <1>2, <1>3, SaidItemIsSo DEF Makes
<1>4. k = ItemKey(col, w.item)
  BY <1>1 DEF Makes
<1>5. LiveWith(M, r, col, k) = {w.item} /\ r \in DOMAIN M
  <2>1. /\ r \in DOMAIN L /\ DOMAIN M = DOMAIN L
        /\ M[r].children[col] = {li \in L[r].children[col] : ItemKey(col, li) # k} \cup {w.item}
    BY <1>0 DEF Becomes
  <2> QED
    BY <1>4, <2>1 DEF LiveWith
<1>6. ASSUME NEW o \in Items(W, r, col),
             (KeyKnown(X, col, o) /\ KeyNow(X, col, o) = k) \/ Makes(X, w, r, col, o)
      PROVE  ItemToBe(M, X, E, r, col, o)
  <2>1. KeyKnown(X, col, o) /\ KeyNow(X, col, o) = k
    BY <1>3, <1>6
  <2>2. o = it
    BY <1>0, <1>1, <1>3, <2>1, OnePerKey
  <2>3. \A f : Only(w.item, f) = Only(NowItem(X, o), f)
    BY <1>1, <1>3, <2>2
  <2> QED
    BY <1>5, <2>1, <2>3 DEF ItemToBe, ItemThere
<1>7. ASSUME NEW c \in E, c.action = "delete", On(c, r, col) PROVE c.key # k
  BY <1>1, <1>3, <1>7, UpsertsDropNothing
<1> DEFINE new == {w.item}
<1>8. /\ Becomes(L, M, r, col, k, new) /\ \A a \in new : ItemKey(col, a) = k
      /\ \E o \in Items(W, r, col) : KeyKnown(X, col, o) /\ KeyNow(X, col, o) = k
  BY <1>1, <1>3, <1>4
<1> HIDE DEF new
<1> QED
  BY <1>0, <1>6, <1>7, <1>8, ChildrenBecomeRight

LEMMA AChildDropped ==
  ASSUME set \in Sets, NEW L, NEW M, NEW X, NEW D, NEW W, NEW w, NEW E, MayBeDone(L, X, D, W, w, E),
         w.action = "delete", w \notin E, Becomes(L, M, w.res, w.col, w.key, {})
  PROVE  ComesRight(M, X, E, W)
<1> DEFINE r == w.res
           col == w.col
           k == w.key
           new == {}
<1>0. /\ Leaves(D, w, E) /\ ComesRight(L, X, D, W)
      /\ r \in Declared(set) /\ col \in CollectionsOf(r)
  BY DEF MayBeDone, Faithful
<1>1. DropsRightly(L, X, D, W, w)
  BY <1>0 DEF ComesRight, Leaves
<1>2. ASSUME NEW o \in Items(W, r, col)
      PROVE  ~((KeyKnown(X, col, o) /\ KeyNow(X, col, o) = k) \/ Makes(X, w, r, col, o))
  <2>1. o \in Items({}, r, col)
    BY DEF Items
  <2> QED
    BY <1>1, <2>1 DEF DropsRightly, Makes
<1>3. ASSUME NEW c \in E, c.action = "delete", On(c, r, col) PROVE c.key # k
  BY <1>0, <1>1, <1>3 DEF Leaves, DropsRightly, Drops, On
<1>4. Becomes(L, M, r, col, k, new) /\ \A a \in new : ItemKey(col, a) = k
  OBVIOUS
<1>5. new = {}
  OBVIOUS
<1> HIDE DEF new
<1> QED
  BY <1>0, <1>2, <1>3, <1>4, <1>5, ChildrenBecomeRight

LEMMA AChildMended ==
  ASSUME set \in Sets, NEW L, NEW M, NEW X, NEW D, NEW W, NEW w, NEW E, MayBeDone(L, X, D, W, w, E),
         ~Clash(X), w.action = "update", KeepsItsKey(w),
         Becomes(L, M, w.res, w.col, w.key,
                 {Updated(w, li) : li \in {l \in L[w.res].children[w.col] : ItemKey(w.col, l) = w.key}})
  PROVE  ComesRight(M, X, E, W)
<1> DEFINE r == w.res
           col == w.col
           k == w.key
           g == w.field
           old == {l \in L[r].children[col] : ItemKey(col, l) = k}
           new == {Updated(w, li) : li \in old}
<1>0. /\ AllLiteral(X) /\ Leaves(D, w, E) /\ ComesRight(L, X, D, W) /\ AllLiteral(w.item) /\ col # ""
      /\ r \in Declared(set) /\ col \in CollectionsOf(r) /\ ChildFaithful(X, W, w)
  BY DEF MayBeDone, Faithful, Holds, IsUpsert
<1>1. PICK it \in Items(W, r, col) : Mends(X, w, r, col, it, g)
  BY <1>0 DEF ChildFaithful, Makes
<1>2. HasKey(col, it) /\ IsWritten(it)
  <2>1. it \in Items({}, r, col)
    BY DEF Items
  <2> QED
    BY <1>0, <2>1, ItemsAreWritten
<1>3. /\ KeyKnown(X, col, it) /\ KeyNow(X, col, it) = k
      /\ \A f : Only(w.item, f) = Only(NowItem(X, it), f)
  <2>1. KeyKnown(X, col, it) /\ KeyNow(X, col, it) = k /\ SaysItem(X, w.item, it)
    BY <1>1 DEF Mends
  <2> DEFINE item == w.item
  <2>2. AllLiteral(X) /\ AllLiteral(item) /\ IsWritten(it) /\ HasKey(col, it) /\ SaysItem(X, item, it)
    BY <1>0, <1>2, <2>1
  <2> HIDE DEF item, col
  <2>3. /\ KeyKnown(X, col, it) /\ KeyNow(X, col, it) = ItemKey(col, item)
        /\ \A f : Only(item, f) = Only(NowItem(X, it), f)
    BY ONLY <2>2, SaidItemIsSo, SMTT(30)
  <2> USE DEF item, col
  <2> QED
    BY <2>1, <2>3
<1>4. \A a \in new : ItemKey(col, a) = k
  BY <1>0, UpdatedKeepsItsKey
<1>5. /\ LiveWith(M, r, col, k) = new /\ r \in DOMAIN M /\ LiveWith(L, r, col, k) = old
  <2>1. /\ r \in DOMAIN L /\ DOMAIN M = DOMAIN L
        /\ M[r].children[col] = {li \in L[r].children[col] : ItemKey(col, li) # k} \cup new
    BY <1>0 DEF Becomes
  <2> HIDE DEF new
  <2> QED
    BY <1>4, <2>1 DEF LiveWith
<1>6. ASSUME NEW li, NEW f
      PROVE  Only(Updated(w, li), f) = IF f = g THEN Only(w.item, f) ELSE Only(li, f)
  <2> DEFINE a == Updated(w, li)
  <2>1. /\ f \in DOMAIN a <=> f \in DOMAIN (IF f = g THEN w.item ELSE li)
        /\ f \in DOMAIN a => a[f] = IF f = g THEN w.item[f] ELSE li[f]
    BY DEF Updated
  <2> HIDE DEF a
  <2>2. CASE f = g
    <3>1. {f} \cap DOMAIN a = {f} \cap DOMAIN w.item
      BY <2>1, <2>2
    <3>2. \A h \in {f} \cap DOMAIN a : a[h] = w.item[h]
      BY <2>1, <2>2
    <3>3. Only(a, f) = Only(w.item, f)
      BY <3>1, <3>2 DEF Only, Restrict
    <3> QED
      BY <2>2, <3>3 DEF a
  <2>3. CASE f # g
    <3>1. {f} \cap DOMAIN a = {f} \cap DOMAIN li
      BY <2>1, <2>3
    <3>2. \A h \in {f} \cap DOMAIN a : a[h] = li[h]
      BY <2>1, <2>3
    <3>3. Only(a, f) = Only(li, f)
      BY <3>1, <3>2 DEF Only, Restrict
    <3> QED
      BY <2>3, <3>3 DEF a
  <2> QED
    BY <2>2, <2>3
<1>7. ASSUME NEW o \in Items(W, r, col),
             (KeyKnown(X, col, o) /\ KeyNow(X, col, o) = k) \/ Makes(X, w, r, col, o)
      PROVE  ItemToBe(M, X, E, r, col, o)
  <2>1. KeyKnown(X, col, o) /\ KeyNow(X, col, o) = k
    BY <1>7 DEF Makes
  <2>2. o = it
    BY <1>0, <1>1, <1>3, <2>1, OnePerKey
  <2>3. ItemToBe(L, X, D, r, col, it)
    BY <1>0 DEF ComesRight
  <2>4. CASE \E c \in D : Makes(X, c, r, col, it)
    BY <1>0, <2>2, <2>4 DEF ItemToBe, Makes, Leaves
  <2>5. CASE ItemThere(L, X, D, r, col, it)
    <3>1. ASSUME NEW a \in new, NEW f \in ItemFields[col]
          PROVE  Only(a, f) = Only(NowItem(X, it), f) \/ \E c \in E : Mends(X, c, r, col, it, f)
      <4>1. PICK li \in old : a = Updated(w, li)
        OBVIOUS
      <4>2. CASE f = g
        BY <1>3, <1>6, <4>1, <4>2
      <4>3. CASE f # g
        <5>1. \/ Only(li, f) = Only(NowItem(X, it), f)
              \/ \E c \in D : Mends(X, c, r, col, it, f)
          BY <1>3, <1>5, <2>5, <4>1 DEF ItemThere
        <5>2. \A c \in D : Mends(X, c, r, col, it, f) => c \in E
          BY <1>0, <4>3 DEF Mends, Leaves
        <5> QED
          BY <1>6, <4>1, <4>3, <5>1, <5>2
      <4> QED
        BY <4>2, <4>3
    <3>2. new # {}
      <4>1. PICK li : li \in old
        BY <1>3, <1>5, <2>5 DEF ItemThere
      <4>2. Updated(w, li) \in new
        BY <4>1
      <4> QED
        BY <4>2
    <3> HIDE DEF new
    <3> QED
      BY <1>3, <1>5, <2>2, <3>1, <3>2 DEF ItemToBe, ItemThere
  <2> QED
    BY <2>3, <2>4, <2>5 DEF ItemToBe
<1>8. ASSUME NEW c \in E, c.action = "delete", On(c, r, col) PROVE c.key # k
  BY <1>1, <1>3, <1>8, UpsertsDropNothing
<1>9. Becomes(L, M, r, col, k, new)
  OBVIOUS
<1> HIDE DEF new
<1> QED
  BY <1>0, <1>3, <1>4, <1>7, <1>8, <1>9, ChildrenBecomeRight

(***************************************************************************)
(* Any write of an apply.                                                  *)
(***************************************************************************)
LEMMA AWriteMakesIt ==
  ASSUME set \in Sets, ProviderInv, NEW X, AllLiteral(X), NEW D, NEW W, NEW w, NEW E, Leaves(D, w, E),
         w.action = "delete" => w \notin E, ~Clash(X), ComesRight(live, X, D, W),
         Faithful(X, W, w), Holds(w), KeepsItsKey(w), Effect(w), Makeable(w),
         w.col = "" /\ w.action = "update" => w.field \in DOMAIN w.fields
  PROVE  ComesRight(live', X, E, W) /\ exposed' = exposed
<1>1. /\ w.action # "unclaim" /\ ~IsWholeDelete(w)
      /\ w.col # "" => MayBeDone(live, X, D, W, w, E)
  BY DEF Faithful, FieldsFaithful, ChildFaithful, Makes, Mends, IsWholeDelete, MayBeDone
<1>2. CASE MakesResource(w)
  <2> DEFINE M == live'
  <2>1. /\ IsCreation(w) /\ w.res \notin DOMAIN live /\ exposed' = exposed
        /\ M = With(live, w.res, [fields |-> w.fields, children |-> Childless(w.res)])
    BY <1>2 DEF MakesResource
  <2> HIDE DEF M
  <2>2. ComesRight(M, X, E, W)
    BY <2>1, AResourceMade
  <2> QED
    BY <2>1, <2>2 DEF M
<1>3. CASE SetsField(w)
  <2> DEFINE M == live'
  <2>1. w.action = "update" /\ w.col = "" /\ exposed' = exposed /\ FieldBecomes(live, M, w)
    BY <1>3 DEF SetsField, FieldBecomes
  <2> HIDE DEF M
  <2>2. ComesRight(M, X, E, W)
    BY <2>1, AFieldSet
  <2> QED
    BY <2>1, <2>2 DEF M
<1>4. CASE SetsChild(w)
  <2> DEFINE M == live'
             updated == {Updated(w, li) : li \in {l \in live[w.res].children[w.col] :
                                                    ItemKey(w.col, l) = w.key}}
  <2>1. w.col # "" /\ w.res \in DOMAIN live
    BY <1>4 DEF SetsChild
  <2>2. ASSUME NEW new, OneBecomes(w.res, w.col, w.key, new)
        PROVE  Becomes(live, M, w.res, w.col, w.key, new) /\ exposed' = exposed
    BY <2>1, <2>2 DEF OneBecomes, Becomes
  <2> HIDE DEF M
  <2>3. CASE w.action = "create" /\ OneBecomes(w.res, w.col, w.key, {w.item})
    <3>1. ComesRight(M, X, E, W)
      BY <1>1, <2>1, <2>2, <2>3, AChildMade
    <3> QED
      BY <2>2, <2>3, <3>1 DEF M
  <2>4. CASE w.action = "delete" /\ OneBecomes(w.res, w.col, w.key, {})
    <3>1. ComesRight(M, X, E, W)
      BY <1>1, <2>1, <2>2, <2>4, AChildDropped
    <3> QED
      BY <2>2, <2>4, <3>1 DEF M
  <2>5. CASE w.action = "update" /\ OneBecomes(w.res, w.col, w.key, updated)
    <3>1. Becomes(live, M, w.res, w.col, w.key, updated) /\ exposed' = exposed
      <4> HIDE DEF updated
      <4> QED
        BY <2>2, <2>5
    <3>2. ComesRight(M, X, E, W)
      BY <1>1, <2>1, <2>5, <3>1, AChildMended
    <3> QED
      BY <3>1, <3>2 DEF M
  <2> QED
    BY <1>4, <2>3, <2>4, <2>5 DEF SetsChild
<1> QED
  BY <1>1, <1>2, <1>3, <1>4, WhatAWriteDoes

(***************************************************************************)
(* A slot's children, once it derives.                                     *)
(***************************************************************************)
IsWrite(w, c, action, field, it) ==
  /\ w.action = action /\ w.res = c.res /\ w.col = c.col /\ w.field = field
  /\ w.key = ItemKey(c.col, it) /\ w.item = it /\ w.claim = {}

LEMMA ChildWriteIs ==
  ASSUME NEW c, NEW action, NEW field, NEW it
  PROVE  IsWrite(ChildWrite(c, action, field, it), c, action, field, it)
BY DEF IsWrite, ChildWrite, Change

LEMMA ExpansionHas ==
  ASSUME NEW c
  PROVE  /\ \A it \in c.slot.gives :
              TwinsNow(c, it) = {} => \E w \in Expansion(c) : IsWrite(w, c, "create", "", it)
         /\ \A it \in c.slot.gives : \A f \in ChangedNow(c, it) :
              \E w \in Expansion(c) : IsWrite(w, c, "update", f, it)
         /\ \A li \in CoveredNow(c) :
              (\A it \in c.slot.gives : ~SameKey(c, it, li))
              => \E w \in Expansion(c) : IsWrite(w, c, "delete", "", li)
<1>1. ASSUME NEW it \in c.slot.gives, TwinsNow(c, it) = {}
      PROVE  ChildWrite(c, "create", "", it) \in Expansion(c)
  BY <1>1 DEF Expansion, ExpandedCreates
<1>2. ASSUME NEW it \in c.slot.gives, NEW f \in ChangedNow(c, it)
      PROVE  ChildWrite(c, "update", f, it) \in Expansion(c)
  <2> DEFINE updates(i) == {ChildWrite(c, "update", g, i) : g \in ChangedNow(c, i)}
  <2>1. ChildWrite(c, "update", f, it) \in updates(it)
    OBVIOUS
  <2> HIDE DEF updates
  <2>2. ChildWrite(c, "update", f, it) \in UNION {updates(i) : i \in c.slot.gives}
    BY <2>1
  <2> QED
    BY <2>2, Zenon DEF Expansion, ExpandedUpdates, updates
<1>3. ASSUME NEW li \in CoveredNow(c), \A it \in c.slot.gives : ~SameKey(c, it, li)
      PROVE  ChildWrite(c, "delete", "", li) \in Expansion(c)
  BY <1>3 DEF Expansion, ExpandedDeletes
<1> QED
  BY <1>1, <1>2, <1>3, ChildWriteIs

LEMMA ExpansionIs ==
  ASSUME NEW c, NEW w \in Expansion(c)
  PROVE  \/ \E it \in c.slot.gives : IsWrite(w, c, "create", "", it)
         \/ \E it \in c.slot.gives : \E f \in ItemFields[c.col] : IsWrite(w, c, "update", f, it)
         \/ \E li \in CoveredNow(c) : /\ IsWrite(w, c, "delete", "", li)
                                      /\ w = ChildWrite(c, "delete", "", li)
                                      /\ \A it \in c.slot.gives : ~SameKey(c, it, li)
<1>1. CASE w \in ExpandedCreates(c)
  <2>1. PICK it \in c.slot.gives : w = ChildWrite(c, "create", "", it)
    BY <1>1, Zenon DEF ExpandedCreates
  <2> QED
    BY <2>1, ChildWriteIs
<1>2. CASE w \in ExpandedUpdates(c)
  <2> DEFINE updates(i) == {ChildWrite(c, "update", f, i) : f \in ChangedNow(c, i)}
  <2>1. PICK it \in c.slot.gives : w \in updates(it)
    BY <1>2, Zenon DEF ExpandedUpdates
  <2>2. PICK f \in ChangedNow(c, it) : w = ChildWrite(c, "update", f, it)
    BY <2>1
  <2>3. f \in ItemFields[c.col]
    BY DEF ChangedNow
  <2> QED
    BY <2>2, <2>3, ChildWriteIs
<1>3. CASE w \in ExpandedDeletes(c)
  <2>1. PICK li \in CoveredNow(c) : /\ w = ChildWrite(c, "delete", "", li)
                                    /\ ~\E it \in c.slot.gives : SameKey(c, it, li)
    BY <1>3, Zenon DEF ExpandedDeletes
  <2> QED
    BY <2>1, ChildWriteIs
<1> QED
  BY <1>1, <1>2, <1>3 DEF Expansion

\* What a derivation gives is so as it is.
LEMMA DerivedAreKnown ==
  ASSUME NEW X, AllLiteral(X), NEW col, NEW it, AllLiteral(it), HasKey(col, it)
  PROVE  /\ KeyKnown(X, col, it) /\ KeyNow(X, col, it) = ItemKey(col, it)
         /\ \A f : Only(it, f) = Only(NowItem(X, it), f)
         /\ SaysItem(X, it, it)
<1>1. IsWritten(it) /\ SaysItem(X, it, it)
  BY DEF IsWritten, AllLiteral, SaysItem, Says
<1> QED
  BY <1>1, SaidItemIsSo

(***************************************************************************)
(* What a slot's expansion relies on.                                      *)
(***************************************************************************)
MayExpand(c, X, W) ==
  /\ set \in Sets /\ WhatSlotsMatchIsWritten /\ Defers(c) /\ c.slot \in W
  /\ c.res \in DOMAIN live /\ Sound(live, X)
Expands(c, X, D, W) == MayExpand(c, X, W) /\ ComesRight(live, X, D, W)

LEMMA SlotsAre ==
  ASSUME NEW c, NEW X, NEW W, MayExpand(c, X, W)
  PROVE  /\ c.slot \in SlotsOn(c.res, c.col) /\ c.res \in Declared(set) /\ c.col \in CollectionsOf(c.res)
         /\ AllLiteral(X) /\ c.col # "" /\ LoadChecked(set)
         /\ \A t \in SlotsOn(c.res, c.col) :
              /\ DOMAIN t.match \subseteq Key[c.col]
              /\ \A it \in t.gives : /\ MatchesAll(it, t.match) /\ AllLiteral(it) /\ HasKey(c.col, it)
                                     /\ KeyKnown(X, c.col, it) /\ KeyNow(X, c.col, it) = ItemKey(c.col, it)
<1>1. LoadChecked(set) /\ AllLiteral(X)
  BY SetsAreLoaded DEF MayExpand, Sound
<1>2. c.slot \in SlotsOn(c.res, c.col) /\ c.res \in Declared(set) /\ c.col \in CollectionsOf(c.res)
  BY <1>1 DEF MayExpand, Defers, SlotsOn, SlotsOf, LoadChecked
<1>3. c.col # ""
  BY <1>2, SetsAreLoaded, CollectionsHaveNames, StagesAreNumbers DEF CollectionsOf, MayExpand
<1>4. ASSUME NEW t \in SlotsOn(c.res, c.col)
      PROVE  /\ DOMAIN t.match \subseteq Key[c.col]
             /\ \A it \in t.gives : MatchesAll(it, t.match) /\ AllLiteral(it) /\ HasKey(c.col, it)
  <2>1. t \in set.slots /\ ~IsFieldSlot(t) /\ t.target = c.res /\ t.col = c.col
    BY DEF SlotsOn, SlotsOf
  <2>2. \A it \in t.gives : it \in Items({}, c.res, c.col)
    BY DEF Items
  <2>3. \A it \in t.gives : HasKey(c.col, it)
    BY <1>2, <2>2, ItemsAreWritten DEF MayExpand
  <2> QED
    BY <1>1, <2>1, <2>3, SetsHoldValues DEF LoadChecked, MayExpand
<1> QED
  BY <1>1, <1>2, <1>3, <1>4, DerivedAreKnown

LEMMA ExpansionIsFaithful ==
  ASSUME NEW c, NEW X, NEW W, MayExpand(c, X, W), NEW w \in Expansion(c)
  PROVE  Faithful(X, W \ {c.slot}, w)
<1> DEFINE s == c.slot
           r == c.res
           col == c.col
           V == W \ {s}
<1>1. /\ s \in SlotsOn(r, col) /\ r \in Declared(set) /\ col \in CollectionsOf(r) /\ AllLiteral(X) /\ col # ""
      /\ \A it \in s.gives : /\ AllLiteral(it) /\ HasKey(col, it)
                             /\ KeyKnown(X, col, it) /\ KeyNow(X, col, it) = ItemKey(col, it)
  BY SlotsAre
<1>2. \A it \in s.gives : it \in Items(V, r, col) /\ SaysItem(X, it, it)
  BY <1>1, DerivedAreKnown DEF Items
<1>3. w.res = r /\ w.col = col /\ w.claim = {}
  BY ExpansionIs DEF IsWrite
<1>4. ChildFaithful(X, V, w)
  <2>1. CASE \E it \in c.slot.gives : IsWrite(w, c, "create", "", it)
    BY <1>2, <2>1 DEF IsWrite, ChildFaithful, Makes, On
  <2>2. CASE \E it \in c.slot.gives : \E f \in ItemFields[c.col] : IsWrite(w, c, "update", f, it)
    <3>1. PICK it \in s.gives : \E f \in ItemFields[col] : IsWrite(w, c, "update", f, it)
      BY <2>2
    <3>2. Mends(X, w, w.res, w.col, it, w.field) /\ w.field \in ItemFields[w.col]
      BY <1>1, <1>2, <3>1 DEF IsWrite, Mends, On
    <3> QED
      BY <1>2, <1>3, <3>2 DEF ChildFaithful
  <2>3. CASE w.action = "delete"
    BY <2>3 DEF ChildFaithful
  <2> QED
    BY <2>1, <2>2, <2>3, ExpansionIs DEF IsWrite
<1> QED
  BY <1>1, <1>3, <1>4 DEF Faithful

LEMMA ItemsOnceExpanded ==
  ASSUME NEW c, NEW W, NEW q, NEW p, NEW it \in Items(W \ {c.slot}, q, p)
  PROVE  it \in Items(W, q, p) \/ (c.slot \in SlotsOn(q, p) /\ it \in c.slot.gives)
BY DEF Items

LEMMA WhatIsDerivedIsToBe ==
  ASSUME NEW c, NEW X, NEW D, NEW W, Expands(c, X, D, W), NEW it \in c.slot.gives
  PROVE  ItemToBe(live, X, D \cup Expansion(c), c.res, c.col, it)
<1> DEFINE s == c.slot
           r == c.res
           col == c.col
           E == D \cup Expansion(c)
<1>1. /\ s \in SlotsOn(r, col) /\ AllLiteral(X) /\ DOMAIN s.match \subseteq Key[col]
      /\ MatchesAll(it, s.match) /\ AllLiteral(it) /\ HasKey(col, it)
      /\ KeyKnown(X, col, it) /\ KeyNow(X, col, it) = ItemKey(col, it)
  BY SlotsAre DEF Expands
<1>2. SaysItem(X, it, it) /\ \A f : Only(it, f) = Only(NowItem(X, it), f)
  BY <1>1, DerivedAreKnown
<1>3. \A w : w \in Expansion(c) => w \in E
  OBVIOUS
<1> HIDE DEF E
<1>4. CASE TwinsNow(c, it) = {}
  <2>1. PICK w \in Expansion(c) : IsWrite(w, c, "create", "", it)
    BY <1>4, ExpansionHas
  <2>2. Makes(X, w, r, col, it)
    BY <1>2, <2>1 DEF IsWrite, Makes, On
  <2>3. ItemToBe(live, X, E, r, col, it)
    BY <1>3, <2>1, <2>2 DEF ItemToBe
  <2> QED
    BY <2>3 DEF E
<1>5. CASE TwinsNow(c, it) # {}
  <2>1. r \in DOMAIN live
    BY DEF Expands, MayExpand
  <2>2. \A li : li \in LiveWith(live, r, col, ItemKey(col, it)) <=> li \in TwinsNow(c, it)
    <3>1. ASSUME NEW li \in live[r].children[col], ItemKey(col, li) = ItemKey(col, it)
          PROVE  MatchesAll(li, s.match)
      BY <1>1, <3>1, KeysDecide
    <3> QED
      BY <3>1 DEF LiveWith, TwinsNow, CoveredNow, SameKey
  <2>3. ASSUME NEW li \in TwinsNow(c, it), NEW f \in ItemFields[col]
        PROVE  Only(li, f) = Only(NowItem(X, it), f) \/ \E w \in E : Mends(X, w, r, col, it, f)
    <3>1. CASE Only(it, f) = Only(li, f)
      BY <1>2, <3>1
    <3>2. CASE Only(it, f) # Only(li, f)
      <4>1. f \in ChangedNow(c, it)
        BY <3>2 DEF ChangedNow
      <4>2. PICK w \in Expansion(c) : IsWrite(w, c, "update", f, it)
        BY <4>1, ExpansionHas
      <4>3. Mends(X, w, r, col, it, f)
        BY <1>1, <1>2, <4>2 DEF IsWrite, Mends, On
      <4> QED
        BY <1>3, <4>3
    <3> QED
      BY <3>1, <3>2
  <2>4. ItemThere(live, X, E, r, col, it)
    <3> DEFINE k == KeyNow(X, col, it)
    <3>1. LiveWith(live, r, col, k) # {} /\ \A li \in LiveWith(live, r, col, k) : li \in TwinsNow(c, it)
      BY <1>1, <1>5, <2>2
    <3> QED
      BY <1>1, <2>1, <2>3, <3>1 DEF ItemThere
  <2> QED
    BY <2>4 DEF ItemToBe, E
<1> QED
  BY <1>4, <1>5

\* What an expansion removes, nothing declared or derived has the key of.
LEMMA NothingAsksForIt ==
  ASSUME NEW c, NEW X, NEW D, NEW W, Expands(c, X, D, W), NEW li, MatchesAll(li, c.slot.match),
         \A it \in c.slot.gives : ~SameKey(c, it, li),
         NEW it \in Items({}, c.res, c.col), KeyKnown(X, c.col, it), KeyNow(X, c.col, it) = ItemKey(c.col, li)
  PROVE  FALSE
<1> DEFINE s == c.slot
           r == c.res
           col == c.col
<1>1. /\ s \in SlotsOn(r, col) /\ r \in Declared(set) /\ col \in CollectionsOf(r) /\ AllLiteral(X)
      /\ DOMAIN s.match \subseteq Key[col] /\ LoadChecked(set)
      /\ \A t \in SlotsOn(r, col) :
           /\ DOMAIN t.match \subseteq Key[col]
           /\ \A g \in t.gives : MatchesAll(g, t.match) /\ KeyNow(X, col, g) = ItemKey(col, g)
  BY SlotsAre DEF Expands
<1>2. CASE it \in set.resources[r].children[col]
  <2> DEFINE now == NowItem(X, it)
  <2>1. ItemKey(col, now) = ItemKey(col, li)
    BY DEF KeyNow
  <2>2. MatchesAll(now, s.match)
    <3> HIDE DEF now
    <3> QED
      BY <1>1, <2>1, KeysDecide
  <2>3. s \in set.slots /\ ~IsFieldSlot(s) /\ s.target = r /\ s.col = col
    BY <1>1 DEF SlotsOn, SlotsOf
  <2>4. \A f \in DOMAIN s.match \cap DOMAIN it : it[f].kind = "literal"
    BY <1>2, <2>3 DEF WhatSlotsMatchIsWritten, Expands, MayExpand
  <2>5. MatchesAll(it, s.match)
    BY <2>2, <2>4 DEF MatchesAll, NowItem, Now
  <2> QED
    BY <1>1, <1>2, <2>3, <2>5 DEF LoadChecked
<1>3. CASE \E t \in SlotsOn(r, col) : it \in t.gives
  <2>1. PICK t \in SlotsOn(r, col) : it \in t.gives
    BY <1>3
  <2>2. ItemKey(col, it) = ItemKey(col, li)
    BY <1>1, <2>1
  <2>3. t # s
    BY <2>1, <2>2 DEF SameKey
  <2>4. MatchesAll(li, t.match)
    BY <1>1, <2>1, <2>2, KeysDecide
  <2> QED
    BY <1>1, <2>3, <2>4, OneSlotCovers
<1> QED
  BY <1>2, <1>3 DEF Items

LEMMA AnExpandedDropIsRight ==
  ASSUME NEW c, NEW X, NEW D, NEW W, Expands(c, X, D, W), NEW w \in Expansion(c), w.action = "delete"
  PROVE  w \notin D /\ DropsRightly(live, X, D \cup Expansion(c), W \ {c.slot}, w)
<1> DEFINE s == c.slot
           r == c.res
           col == c.col
           E == D \cup Expansion(c)
<1>1. PICK li \in CoveredNow(c) : IsWrite(w, c, "delete", "", li) /\ \A it \in s.gives : ~SameKey(c, it, li)
  BY ExpansionIs DEF IsWrite
<1>2. /\ s \in SlotsOn(r, col) /\ r \in Declared(set) /\ col \in CollectionsOf(r) /\ r \in DOMAIN live
      /\ DOMAIN s.match \subseteq Key[col] /\ LoadChecked(set) /\ s \in W
  BY SlotsAre DEF Expands, MayExpand
<1>3. li \in live[r].children[col] /\ MatchesAll(li, s.match)
  BY DEF CoveredNow
<1>4. w.res = r /\ w.col = col /\ w.key = ItemKey(col, li)
  BY <1>1 DEF IsWrite
<1>5. li \in LiveWith(live, r, col, w.key)
  BY <1>3, <1>4 DEF LiveWith
<1>6. ASSUME NEW it \in Items({}, r, col), KeyKnown(X, col, it), KeyNow(X, col, it) = w.key PROVE FALSE
  BY <1>1, <1>3, <1>4, <1>6, NothingAsksForIt
<1>7. ASSUME NEW lj \in LiveWith(live, r, col, w.key), NEW t \in (W \ {s}) \cap SlotsOn(r, col)
      PROVE  ~MatchesAll(lj, t.match)
  <2>1. ItemKey(col, li) = ItemKey(col, lj)
    BY <1>4 DEF LiveWith
  <2>2. MatchesAll(lj, s.match)
    BY <1>2, <1>3, <2>1, KeysDecide
  <2> QED
    BY <1>2, <2>2, OneSlotCovers
<1>8. ASSUME NEW d \in D, Drops(d, r, col, w.key) PROVE FALSE
  <2>1. DropsRightly(live, X, D, W, d)
    BY <1>8 DEF Expands, ComesRight, Drops
  <2> QED
    BY <1>2, <1>3, <1>5, <1>8, <2>1 DEF DropsRightly, Drops, On
<1>9. ASSUME NEW d \in Expansion(c), Drops(d, r, col, w.key) PROVE d = w
  <2>1. PICK lj \in CoveredNow(c) : d = ChildWrite(c, "delete", "", lj) /\ IsWrite(d, c, "delete", "", lj)
    BY <1>9, ExpansionIs DEF IsWrite, Drops
  <2>2. PICK lk \in CoveredNow(c) : w = ChildWrite(c, "delete", "", lk) /\ IsWrite(w, c, "delete", "", lk)
    BY ExpansionIs DEF IsWrite
  <2>3. ItemKey(col, lj) = ItemKey(col, lk)
    <3>1. d.key = ItemKey(col, lj) /\ w.key = ItemKey(col, lk)
      BY <2>1, <2>2 DEF IsWrite
    <3> QED
      BY <1>9, <3>1 DEF Drops
  <2>4. lj \in live[r].children[col] /\ lk \in live[r].children[col]
    BY DEF CoveredNow
  <2>5. Apart(col, live[r].children[col])
    BY <1>2 DEF Expands, MayExpand, Sound, ChildrenKeyed
  <2> QED
    BY <2>1, <2>2, <2>3, <2>4, <2>5 DEF Apart
<1>10. w \notin D
  BY <1>4, <1>8 DEF Drops, On
<1>11. \A d \in E : Drops(d, r, col, w.key) => d = w
  BY <1>8, <1>9
<1> HIDE DEF E
<1>12. DropsRightly(live, X, E, W \ {s}, w)
  BY <1>2, <1>4, <1>5, <1>6, <1>7, <1>11 DEF DropsRightly
<1> QED
  BY <1>10, <1>12 DEF E

LEMMA ExpandingComesRight ==
  ASSUME NEW c, NEW X, NEW D, NEW W, Expands(c, X, D, W)
  PROVE  ComesRight(live, X, D \cup Expansion(c), W \ {c.slot})
<1> DEFINE s == c.slot
           E == D \cup Expansion(c)
           V == W \ {s}
<1>0. ComesRight(live, X, D, W) /\ Sound(live, X)
  BY DEF Expands, MayExpand
<1>1. \A d : d \in D => d \in E
  OBVIOUS
<1> HIDE DEF E
<1>2. ASSUME NEW r \in Declared(set)
      PROVE  /\ r \in DOMAIN live \/ IsMade(E, r)
             /\ \A f \in Fields[TypeOf[r]] : FieldToBe(live, X, E, r, f)
  <2>1. /\ r \in DOMAIN live \/ IsMade(D, r)
        /\ \A f \in Fields[TypeOf[r]] : FieldToBe(live, X, D, r, f)
    BY <1>0 DEF ComesRight
  <2>2. (IsMade(D, r) => IsMade(E, r)) /\ \A f : IsSet(D, r, f) => IsSet(E, r, f)
    BY <1>1 DEF IsMade, IsSet
  <2> QED
    BY <2>1, <2>2 DEF FieldToBe
<1>3. ASSUME NEW r \in Declared(set), NEW col \in CollectionsOf(r), NEW it \in Items(V, r, col)
      PROVE  ItemToBe(live, X, E, r, col, it)
  <2>1. CASE it \in Items(W, r, col)
    <3>1. ItemToBe(live, X, D, r, col, it)
      BY <1>0, <2>1 DEF ComesRight
    <3> QED
      BY <1>1, <3>1 DEF ItemToBe, ItemThere
  <2>2. CASE s \in SlotsOn(r, col) /\ it \in s.gives
    <3>1. c.res = r /\ c.col = col
      BY <2>2 DEF SlotsOn, SlotsOf, Expands, MayExpand, Defers
    <3> QED
      BY <2>2, <3>1, WhatIsDerivedIsToBe DEF E
  <2> QED
    BY <2>1, <2>2, ItemsOnceExpanded
<1>4. ASSUME NEW r \in Declared(set), NEW col \in CollectionsOf(r), r \in DOMAIN live,
             NEW li \in live[r].children[col]
      PROVE  ChildToBe(X, E, V, r, col, li)
  <2>1. ChildToBe(X, D, W, r, col, li)
    BY <1>0, <1>4 DEF ComesRight
  <2>2. \A it : it \in Items(W, r, col) => it \in Items(V, r, col)
    BY DEF Items
  <2>3. CASE s \in SlotsOn(r, col) /\ MatchesAll(li, s.match)
    <3>1. c.res = r /\ c.col = col
      BY <2>3 DEF SlotsOn, SlotsOf, Expands, MayExpand, Defers
    <3>2. li \in CoveredNow(c)
      BY <1>4, <2>3, <3>1 DEF CoveredNow
    <3>3. CASE \E it \in s.gives : SameKey(c, it, li)
      <4>1. PICK it \in s.gives : ItemKey(col, it) = ItemKey(col, li)
        BY <3>1, <3>3 DEF SameKey
      <4>2. it \in Items(V, r, col)
        BY <2>3 DEF Items
      <4>3. KeyKnown(X, col, it) /\ KeyNow(X, col, it) = ItemKey(col, it)
        BY <3>1, SlotsAre DEF Expands
      <4> QED
        BY <4>1, <4>2, <4>3 DEF ChildToBe
    <3>4. CASE \A it \in s.gives : ~SameKey(c, it, li)
      <4>1. PICK w \in Expansion(c) : IsWrite(w, c, "delete", "", li)
        BY <3>2, <3>4, ExpansionHas
      <4>2. Drops(w, r, col, ItemKey(col, li)) /\ w \in E
        BY <3>1, <4>1 DEF IsWrite, Drops, On, E
      <4> QED
        BY <4>2 DEF ChildToBe
    <3> QED
      BY <3>3, <3>4
  <2>4. CASE ~(s \in SlotsOn(r, col) /\ MatchesAll(li, s.match))
    BY <1>1, <2>1, <2>2, <2>4 DEF ChildToBe
  <2> QED
    BY <2>3, <2>4
<1>5. ASSUME NEW d \in E, d.action = "delete" PROVE DropsRightly(live, X, E, V, d)
  <2>1. CASE d \in Expansion(c)
    BY <1>5, <2>1, AnExpandedDropIsRight DEF E
  <2>2. CASE d \in D
    <3>1. DropsRightly(live, X, D, W, d)
      BY <1>0, <1>5, <2>2 DEF ComesRight
    <3>2. ASSUME NEW w \in Expansion(c), Drops(w, d.res, d.col, d.key) PROVE FALSE
      <4>1. DropsRightly(live, X, E, V, w) /\ w \notin D
        BY <3>2, AnExpandedDropIsRight DEF E, Drops
      <4>2. Drops(d, w.res, w.col, w.key)
        BY <1>5, <3>2 DEF Drops, On
      <4> QED
        BY <1>1, <2>2, <4>1, <4>2 DEF DropsRightly
    <3>3. \A w \in E : Drops(w, d.res, d.col, d.key) => w = d
      BY <3>1, <3>2 DEF DropsRightly, E
    <3> QED
      BY <3>1, <3>3 DEF DropsRightly
  <2> QED
    BY <2>1, <2>2 DEF E
<1>6. ComesRight(live, X, E, V)
  BY <1>2, <1>3, <1>4, <1>5 DEF ComesRight
<1> QED
  BY <1>6 DEF E

(***************************************************************************)
(* What a change becomes when it is realized says the same of what is      *)
(* declared, with the values assigned now.                                 *)
(***************************************************************************)
AsExposed(X) == DOMAIN X = DOMAIN exposed /\ \A x \in DOMAIN exposed : X[x] = exposed[x]

LEMMA NamesAreApart ==
  ASSUME set \in Sets, NEW s \in set.slots
  PROVE  s.name \notin ExposedValues /\ (CHOOSE t \in set.slots : t.name = s.name) = s
<1>1. \A t \in set.slots : t.name = s.name => t = s
  BY SetsHoldValues
<1>2. (CHOOSE t \in set.slots : t.name = s.name) \in set.slots
      /\ (CHOOSE t \in set.slots : t.name = s.name).name = s.name
  OBVIOUS
<1> QED
  BY <1>1, <1>2, ReferencesNameExposedValues

LEMMA SaysRealized ==
  ASSUME NEW X, AsExposed(X), AllLiteral(exposed), NEW v, NEW u, Says(X, v, u), Available(v),
         u.kind = "literal" \/ (u.kind = "reference" /\ u.of \in ExposedValues)
  PROVE  Says(X, Realize(v), u)
BY DEF Says, Realize, Available, StandsFor, AsExposed, AllLiteral

LEMMA SaysFieldRealized ==
  ASSUME set \in Sets, NEW r \in Declared(set), NEW f, NEW X, AsExposed(X), AllLiteral(exposed),
         NEW v, SaysField(X, v, r, f), Available(v)
  PROVE  SaysField(X, Realize(v), r, f)
<1> DEFINE hand == set.resources[r].fields
<1>1. CASE f \in DOMAIN hand
  <2> DEFINE u == hand[f]
  <2>1. u \in DeclaredValues(set, r)
    BY <1>1 DEF DeclaredValues, Range
  <2>2. u.kind = "reference" => u.of \in ReferencesIn(DeclaredValues(set, r))
    BY <2>1 DEF ReferencesIn
  <2>3. u.kind = "literal" \/ (u.kind = "reference" /\ u.of \in ExposedValues)
    BY <2>1, <2>2, SetsHoldValues, ReferencesNameExposedValues
  <2>4. Says(X, v, u)
    BY <1>1 DEF SaysField
  <2> HIDE DEF u
  <2>5. Says(X, Realize(v), u)
    BY <2>3, <2>4, SaysRealized
  <2> QED
    BY <1>1, <2>5 DEF SaysField, u
<1>2. CASE f \notin DOMAIN hand
  <2>1. PICK s \in FieldSlotsOf(set, r) :
          s.field = f /\ (\/ s.reads \in DOMAIN X /\ v = X[s.reads]
                          \/ v.kind = "pending" /\ v.of = s.name)
    BY <1>2 DEF SaysField
  <2>2. s \in set.slots
    BY DEF FieldSlotsOf
  <2>3. s.name \notin ExposedValues /\ (CHOOSE t \in set.slots : t.name = s.name) = s
    BY <2>2, NamesAreApart
  <2>4. CASE s.reads \in DOMAIN X /\ v = X[s.reads]
    <3>1. Realize(v) = v
      BY <2>4 DEF AsExposed, AllLiteral, Realize
    <3> QED
      BY <3>1
  <2>5. CASE v.kind = "pending" /\ v.of = s.name
    <3>1. StandsFor(v) = s.reads
      BY <2>3, <2>5 DEF StandsFor
    <3>2. s.reads \in DOMAIN X /\ Realize(v) = X[s.reads]
      BY <2>5, <3>1 DEF Available, Realize, AsExposed
    <3> QED
      BY <1>2, <2>1, <3>2 DEF SaysField
  <2> QED
    BY <2>1, <2>4, <2>5
<1> QED
  BY <1>1, <1>2

LEMMA SaysItemRealized ==
  ASSUME set \in Sets, NEW r \in Declared(set), NEW col \in CollectionsOf(r), NEW it \in Items({}, r, col),
         NEW X, AsExposed(X), AllLiteral(exposed), NEW item, SaysItem(X, item, it),
         \A f \in DOMAIN item : HasRun(item[f]) /\ Available(item[f])
  PROVE  SaysItem(X, RealizeAll(item), it)
<1>1. /\ DOMAIN RealizeAll(item) = DOMAIN item
      /\ \A f \in DOMAIN item : RealizeAll(item)[f] = Realize(item[f])
  BY AllRealized
<1>2. ASSUME NEW f \in DOMAIN it
      PROVE  it[f].kind = "literal" \/ (it[f].kind = "reference" /\ it[f].of \in ExposedValues)
  <2>1. IsWritten(it) /\ (it \in set.resources[r].children[col] \/ AllLiteral(it))
    BY ItemsAreWritten
  <2>2. CASE it \in set.resources[r].children[col]
    <3>1. it[f] \in DeclaredValues(set, r)
      BY <2>2 DEF DeclaredValues, ValuesOf, Range
    <3>2. it[f].kind = "reference" => it[f].of \in ReferencesIn(DeclaredValues(set, r))
      BY <3>1 DEF ReferencesIn
    <3> QED
      BY <2>1, <3>2, ReferencesNameExposedValues DEF IsWritten
  <2> QED
    BY <2>1, <2>2 DEF AllLiteral
<1>3. \A f \in DOMAIN it : Says(X, RealizeAll(item)[f], it[f])
  <2> SUFFICES ASSUME NEW f \in DOMAIN it PROVE Says(X, RealizeAll(item)[f], it[f])
    OBVIOUS
  <2> DEFINE v == item[f]
             u == it[f]
  <2>1. f \in DOMAIN item /\ Says(X, v, u) /\ Available(v) /\ RealizeAll(item)[f] = Realize(v)
    BY <1>1 DEF SaysItem
  <2>2. u.kind = "literal" \/ (u.kind = "reference" /\ u.of \in ExposedValues)
    BY <1>2
  <2> HIDE DEF u, v
  <2>3. Says(X, Realize(v), u)
    BY <2>1, <2>2, SaysRealized
  <2> QED
    BY <2>1, <2>3 DEF u
<1> QED
  BY <1>1, <1>3 DEF SaysItem

LEMMA LiteralsStay ==
  ASSUME NEW k, IsItem(k), AllLiteral(k)
  PROVE  RealizeAll(k) = k
BY DEF RealizeAll, Realize, HasRun, AllLiteral, IsItem

MayBeRealized(c, X, W) ==
  /\ OfDeclaredResource(c) /\ Faithful(X, W, c) /\ CarriesValues(c) /\ RealizesAsItIs(c)
  /\ ~WritesTooEarly(c) /\ ~StillMissing(c)
  /\ c.col = "" /\ c.action = "create" => \A f \in DOMAIN c.fields : HasRun(c.fields[f])

LEMMA RealizedIs ==
  ASSUME NEW c, OfDeclaredResource(c), ~WritesTooEarly(c), ~StillMissing(c)
  PROVE  /\ Realized(c).action = c.action /\ Realized(c).res = c.res /\ Realized(c).col = c.col
         /\ Realized(c).field = c.field /\ Realized(c).claim = c.claim
         /\ Realized(c).key = RealizeAll(c.key) /\ Realized(c).item = RealizeAll(c.item)
         /\ Realized(c).fields = RealizeAll(c.fields)
         /\ \A f \in DOMAIN c.item : HasRun(c.item[f]) /\ Available(c.item[f])
         /\ \A f \in DOMAIN c.key : HasRun(c.key[f])
<1>1. \A f \in DOMAIN c.item : c.item[f] \in Range(c.item)
  BY DEF Range
<1>2. \A f \in DOMAIN c.key : c.key[f] \in Range(c.key)
  BY DEF Range
<1>3. \A f \in DOMAIN c.item : HasRun(c.item[f]) /\ Available(c.item[f])
  <2>1. \A f \in DOMAIN c.item : HasRun(c.item[f])
    BY <1>1 DEF WritesTooEarly
  <2> SUFFICES ASSUME NEW f \in DOMAIN c.item, c.item[f].kind = "pending" PROVE Available(c.item[f])
    BY <2>1 DEF Available
  <2>2. c.item[f] \in PendingsIn(Range(c.key) \cup Range(c.item))
    BY <1>1 DEF PendingsIn
  <2> QED
    BY <2>1, <2>2 DEF StillMissing
<1>4. \A f \in DOMAIN c.key : HasRun(c.key[f])
  BY <1>2 DEF WritesTooEarly
<1>5. /\ Realized(c).action = c.action /\ Realized(c).res = c.res /\ Realized(c).col = c.col
      /\ Realized(c).field = c.field /\ Realized(c).claim = c.claim
      /\ Realized(c).key = RealizeAll(c.key) /\ Realized(c).item = RealizeAll(c.item)
      /\ Realized(c).fields = RealizeAll(c.fields)
  BY DEF Realized, OfDeclaredResource, ChangeShape
<1> QED
  BY <1>3, <1>4, <1>5

LEMMA RealizedSaysTheSame ==
  ASSUME set \in Sets, NEW X, AsExposed(X), AllLiteral(exposed), NEW W, NEW c, MayBeRealized(c, X, W)
  PROVE  InPlaceOf(X, c, Realized(c)) /\ Faithful(X, W, Realized(c))
<1> DEFINE w == Realized(c)
<1>1. /\ w.action = c.action /\ w.res = c.res /\ w.col = c.col /\ w.field = c.field /\ w.claim = c.claim
      /\ w.key = RealizeAll(c.key) /\ w.item = RealizeAll(c.item) /\ w.fields = RealizeAll(c.fields)
      /\ \A f \in DOMAIN c.item : HasRun(c.item[f]) /\ Available(c.item[f])
      /\ \A f \in DOMAIN c.key : HasRun(c.key[f])
  BY RealizedIs DEF MayBeRealized
<1> HIDE DEF w
<1>2. AllLiteral(X)
  BY DEF AsExposed, AllLiteral
<1>3. ASSUME NEW r \in Declared(set), NEW col \in CollectionsOf(r), NEW it \in Items({}, r, col)
      PROVE  /\ Makes(X, c, r, col, it) => Makes(X, w, r, col, it)
             /\ \A f : Mends(X, c, r, col, it, f) => Mends(X, w, r, col, it, f)
  <2> DEFINE item == c.item
             key  == c.key
  <2>1. /\ w.item = RealizeAll(item) /\ w.key = RealizeAll(key)
        /\ \A f \in DOMAIN item : HasRun(item[f]) /\ Available(item[f])
        /\ \A f \in DOMAIN key : HasRun(key[f])
    BY <1>1
  <2>2. Makes(X, c, r, col, it) => /\ On(c, r, col) /\ c.action = "create"
                                   /\ SaysItem(X, item, it) /\ key = ItemKey(col, item)
    BY DEF Makes
  <2>3. \A f : Mends(X, c, r, col, it, f) =>
                 /\ On(c, r, col) /\ c.action = "update" /\ c.field = f
                 /\ SaysItem(X, item, it) /\ KeyKnown(X, col, it) /\ key = KeyNow(X, col, it)
    BY DEF Mends
  <2> HIDE DEF item, key
  <2>4. SaysItem(X, item, it) => SaysItem(X, w.item, it)
    BY <2>1, SaysItemRealized
  <2>5. key = ItemKey(col, item) => w.key = ItemKey(col, w.item)
    BY <2>1, AllRealized
  <2>6. KeyKnown(X, col, it) /\ key = KeyNow(X, col, it) => w.key = key
    <3>1. HasKey(col, it) /\ IsWritten(it)
      BY ItemsAreWritten
    <3>2. IsItem(KeyNow(X, col, it)) /\ (KeyKnown(X, col, it) <=> AllLiteral(KeyNow(X, col, it)))
      BY <1>2, <3>1, KeyNowHolds
    <3> QED
      BY <2>1, <3>2, LiteralsStay
  <2> QED
    BY <1>1, <2>2, <2>3, <2>4, <2>5, <2>6 DEF Makes, Mends, On
<1>4. c.action = "delete" => w.key = c.key
  BY <1>1, LiteralsStay DEF MayBeRealized, RealizesAsItIs
<1>5. InPlaceOf(X, c, w)
  BY <1>1, <1>3, <1>4 DEF InPlaceOf
<1>6. c.res \in Declared(set) /\ c.claim = {}
  BY DEF MayBeRealized, Faithful
<1>7. CASE c.col = ""
  <2> DEFINE fields == c.fields
             r      == c.res
  <2>1. /\ \A f \in DOMAIN fields : SaysField(X, fields[f], r, f)
        /\ \/ c.action = "create" /\ c.field = "" /\ DOMAIN fields = GivenBy(set, r)
           \/ c.action = "update" /\ c.field # ""
    BY <1>7 DEF MayBeRealized, Faithful, FieldsFaithful
  <2>2. PendingsIn(Range(fields)) \subseteq c.holds
    BY <2>1 DEF MayBeRealized, CarriesValues, IsUpsert
  <2>3. \A f \in DOMAIN fields : HasRun(fields[f]) => Available(fields[f])
    BY <2>2 DEF MayBeRealized, StillMissing, PendingsIn, Range, Available
  <2>4. c.action = "create" => \A f \in DOMAIN fields : HasRun(fields[f])
    BY <1>7 DEF MayBeRealized
  <2>5. w.fields = RealizeAll(fields) /\ r \in Declared(set)
    BY <1>1, <1>6
  <2> HIDE DEF fields
  <2>6. DOMAIN w.fields = {f \in DOMAIN fields : HasRun(fields[f])}
        /\ \A f \in DOMAIN w.fields : w.fields[f] = Realize(fields[f])
    BY <2>5 DEF RealizeAll
  <2> HIDE DEF r
  <2>7. \A f \in DOMAIN w.fields : SaysField(X, w.fields[f], r, f)
    BY <2>1, <2>3, <2>5, <2>6, SaysFieldRealized
  <2>8. c.action = "create" => DOMAIN w.fields = DOMAIN fields
    BY <2>4, <2>6
  <2> QED
    BY <1>1, <1>5, <1>6, <1>7, <2>1, <2>7, <2>8 DEF Faithful, FieldsFaithful, w, r
<1>8. CASE c.col # ""
  <2>1. c.col \in CollectionsOf(c.res) /\ ChildFaithful(X, W, c)
    BY <1>8 DEF MayBeRealized, Faithful
  <2>2. Items(W, c.res, c.col) \subseteq Items({}, c.res, c.col)
    BY FewerWait
  <2>3. ChildFaithful(X, W, w)
    BY <1>1, <1>3, <1>6, <2>1, <2>2 DEF ChildFaithful
  <2> QED
    BY <1>1, <1>5, <1>6, <1>8, <2>1, <2>3 DEF Faithful, w
<1> QED
  BY <1>7, <1>8

(***************************************************************************)
(* The same declarations say the same.                                     *)
(***************************************************************************)
LEMMA SameDeclarations ==
  ASSUME UNCHANGED set
  PROVE  /\ \A L, X, D, W : ComesRight(L, X, D, W)' <=> ComesRight(L, X, D, W)
         /\ \A X, W, c : Faithful(X, W, c)' <=> Faithful(X, W, c)
         /\ \A X : Clash(X)' <=> Clash(X)
         /\ \A c : Defers(c)' <=> Defers(c)
<1>1. \A r, col : SlotsOn(r, col)' = SlotsOn(r, col)
  BY DEF SlotsOn
<1>2. \A W, r, col : Items(W, r, col)' = Items(W, r, col)
  BY <1>1 DEF Items
<1>3. \A L, X, D, r, f : FieldToBe(L, X, D, r, f)' <=> FieldToBe(L, X, D, r, f)
  BY DEF FieldToBe, FieldRight
<1>4. \A X, D, W, r, col, li : ChildToBe(X, D, W, r, col, li)' <=> ChildToBe(X, D, W, r, col, li)
  <2>1. \A r, col, li : /\ Covering(r, col, li)' = Covering(r, col, li)
                        /\ LeftAlone(r, col, li)' <=> LeftAlone(r, col, li)
    BY <1>1 DEF Covering, LeftAlone
  <2> QED
    BY <1>1, <1>2, <2>1 DEF ChildToBe
<1>5. \A L, X, D, W, c : DropsRightly(L, X, D, W, c)' <=> DropsRightly(L, X, D, W, c)
  BY <1>1, <1>2 DEF DropsRightly
<1>6. \A L, X, D, r, col, it : ItemToBe(L, X, D, r, col, it)' <=> ItemToBe(L, X, D, r, col, it)
  OBVIOUS
<1>7. \A X, W, c : Faithful(X, W, c)' <=> Faithful(X, W, c)
  <2>1. \A X, v, r, f : SaysField(X, v, r, f)' <=> SaysField(X, v, r, f)
    BY DEF SaysField
  <2>2. \A X, W, c : ChildFaithful(X, W, c)' <=> ChildFaithful(X, W, c)
    BY <1>2 DEF ChildFaithful
  <2>3. \A X, c : FieldsFaithful(X, c)' <=> FieldsFaithful(X, c)
    BY <2>1 DEF FieldsFaithful
  <2> QED
    BY <2>2, <2>3 DEF Faithful
<1>8. ASSUME NEW L, NEW X, NEW D, NEW W
      PROVE  ComesRight(L, X, D, W)' <=> ComesRight(L, X, D, W)
  BY <1>2, <1>3, <1>4, <1>5, <1>6 DEF ComesRight
<1>9. \A X : Clash(X)' <=> Clash(X)
  BY <1>2 DEF Clash
<1>10. \A c : Defers(c)' <=> Defers(c)
  BY DEF Defers
<1> QED
  BY <1>7, <1>8, <1>9, <1>10

(***************************************************************************)
(* A command on course: what it still does makes everything declared so.   *)
(***************************************************************************)
SlotsDerive(L, X, W) ==
  \A s \in set.slots : \/ IsFieldSlot(s) \/ s \in W
                       \/ IF s.reads \in ExposedValues THEN s.reads \in DOMAIN X
                          ELSE s.reads \in DOMAIN L
OnCourse(L, X, D, W) ==
  /\ SlotsDerive(L, X, W)
  /\ \A c \in D : Faithful(X, W, c)
  /\ Clash(X) \/ ComesRight(L, X, D, W)

LEMMA MoreClash ==
  ASSUME set \in Sets, NEW X, NEW Y, Extends(X, Y), AllLiteral(X), AllLiteral(Y), Clash(X)
  PROVE  Clash(Y)
<1>1. PICK r \in Declared(set) : \E col \in CollectionsOf(r) : \E a, b \in Items({}, r, col) :
        a # b /\ KeyKnown(X, col, a) /\ KeyKnown(X, col, b) /\ KeyNow(X, col, a) = KeyNow(X, col, b)
  BY DEF Clash
<1>2. PICK col \in CollectionsOf(r) : \E a, b \in Items({}, r, col) :
        a # b /\ KeyKnown(X, col, a) /\ KeyKnown(X, col, b) /\ KeyNow(X, col, a) = KeyNow(X, col, b)
  BY <1>1
<1>3. PICK a \in Items({}, r, col) : \E b \in Items({}, r, col) :
        a # b /\ KeyKnown(X, col, a) /\ KeyKnown(X, col, b) /\ KeyNow(X, col, a) = KeyNow(X, col, b)
  BY <1>2
<1>4. PICK b \in Items({}, r, col) :
        a # b /\ KeyKnown(X, col, a) /\ KeyKnown(X, col, b) /\ KeyNow(X, col, a) = KeyNow(X, col, b)
  BY <1>3
<1>5. /\ HasKey(col, a) /\ IsWritten(a) /\ HasKey(col, b) /\ IsWritten(b)
  BY ItemsAreWritten
<1>6. /\ KeyKnown(Y, col, a) /\ KeyNow(Y, col, a) = KeyNow(X, col, a)
      /\ KeyKnown(Y, col, b) /\ KeyNow(Y, col, b) = KeyNow(X, col, b)
  BY <1>4, <1>5, KnownStay
<1> QED
  BY <1>4, <1>6 DEF Clash

LEMMA MoreIsKnown ==
  ASSUME set \in Sets, NEW L, NEW X, NEW Y, NEW D, NEW W,
         Extends(X, Y), Sound(L, X), AllLiteral(Y),
         NewToChildren(L, X, Y) \/ D = {}, OnCourse(L, X, D, W)
  PROVE  OnCourse(L, Y, D, W)
<1>0. AllLiteral(X)
  BY DEF Sound
<1>1. \A c \in D : Faithful(Y, W, c)
  BY <1>0, FaithfulStays DEF OnCourse
<1>2. Clash(X) => Clash(Y)
  BY <1>0, MoreClash
<1>3. ComesRight(L, X, D, W) => ComesRight(L, Y, D, W)
  BY KnowingMore
<1>4. SlotsDerive(L, Y, W)
  BY DEF OnCourse, SlotsDerive, Extends
<1> QED
  BY <1>1, <1>2, <1>3, <1>4 DEF OnCourse

LEMMA AWriteStaysOnCourse ==
  ASSUME set \in Sets, ProviderInv, NEW X, AllLiteral(X), NEW D, NEW W, NEW w, NEW E, Leaves(D, w, E),
         Clash(X) \/ (w.action = "delete" => w \notin E),
         OnCourse(live, X, D, W), Holds(w), Spares(w), Effect(w), Makeable(w), w.action # "unclaim",
         w.col = "" /\ w.action = "update" => w.field \in DOMAIN w.fields
  PROVE  OnCourse(live', X, E, W) /\ exposed' = exposed
<1>1. MakesResource(w) \/ SetsField(w) \/ SetsChild(w)
  BY WhatAWriteDoes DEF Spares
<1>2. exposed' = exposed
  BY <1>1 DEF MakesResource, SetsField, SetsChild, OneBecomes
<1>3. DOMAIN live \subseteq DOMAIN live'
  BY <1>1 DEF MakesResource, SetsField, SetsChild, OneBecomes, With
<1>4. SlotsDerive(live', X, W)
  BY <1>3 DEF OnCourse, SlotsDerive
<1>5. \A c \in E : Faithful(X, W, c)
  BY DEF OnCourse, Leaves
<1>6. Clash(X) \/ ComesRight(live', X, E, W)
  <2>1. Faithful(X, W, w) /\ KeepsItsKey(w)
    BY DEF OnCourse, Leaves, Spares
  <2> QED
    BY <2>1, AWriteMakesIt DEF OnCourse
<1> QED
  BY <1>2, <1>4, <1>5, <1>6 DEF OnCourse

LEMMA RealizingStaysOnCourse ==
  ASSUME set \in Sets, NEW X, AsExposed(X), AllLiteral(exposed), NEW D, NEW W, NEW c \in D,
         OnCourse(live, X, D, W), MayBeRealized(c, X, W)
  PROVE  /\ OnCourse(live, X, (D \ {c}) \cup {Realized(c)}, W)
         /\ c.action = "delete" /\ ~Clash(X) => Realized(c) \notin D \ {c}
<1>1. InPlaceOf(X, c, Realized(c)) /\ Faithful(X, W, Realized(c))
  BY RealizedSaysTheSame
<1>2. ComesRight(live, X, D, W) => ComesRight(live, X, (D \ {c}) \cup {Realized(c)}, W)
  BY <1>1, OneInPlaceOfAnother
<1>3. ASSUME c.action = "delete", ~Clash(X), Realized(c) \in D \ {c} PROVE FALSE
  <2>1. ComesRight(live, X, D, W)
    BY <1>3 DEF OnCourse
  <2>2. DropsRightly(live, X, D, W, c)
    BY <1>3, <2>1 DEF ComesRight
  <2>3. Drops(Realized(c), c.res, c.col, c.key)
    BY <1>1, <1>3 DEF InPlaceOf, Drops, On
  <2> QED
    BY <1>3, <2>2, <2>3 DEF DropsRightly
<1> QED
  BY <1>1, <1>2, <1>3 DEF OnCourse

LEMMA ExpandingStaysOnCourse ==
  ASSUME set \in Sets, WhatSlotsMatchIsWritten, NEW X, Sound(live, X), NEW D, NEW W,
         NEW c, Defers(c), c.slot \in W, AsExposed(X), CanExpand(c), OnCourse(live, X, D, W)
  PROVE  /\ OnCourse(live, X, D \cup Expansion(c), W \ {c.slot})
         /\ Clash(X) \/ \A w \in Expansion(c) : w.action = "delete" => w \notin D
<1>1. SlotsDerive(live, X, W \ {c.slot})
  BY DEF OnCourse, SlotsDerive, CanExpand, SlotDerives, AsExposed
<1>2. ASSUME ComesRight(live, X, D, W) PROVE Expands(c, X, D, W)
  BY <1>2 DEF Expands, MayExpand, CanExpand
<1>3. ASSUME NEW d \in D PROVE Faithful(X, W \ {c.slot}, d)
  <2>1. Extends(X, X) /\ AllLiteral(X) /\ Faithful(X, W, d)
    BY DEF Extends, OnCourse, Sound
  <2> QED
    BY <2>1, FaithfulStays
<1>4. ASSUME NEW w \in Expansion(c) PROVE Faithful(X, W \ {c.slot}, w)
  <2>1. MayExpand(c, X, W)
    BY DEF MayExpand, CanExpand
  <2> QED
    BY <2>1, ExpansionIsFaithful
<1>5. ComesRight(live, X, D, W) => ComesRight(live, X, D \cup Expansion(c), W \ {c.slot})
  BY <1>2, ExpandingComesRight
<1>6. ComesRight(live, X, D, W) => \A w \in Expansion(c) : w.action = "delete" => w \notin D
  BY <1>2, AnExpandedDropIsRight
<1>7. Clash(X) \/ ComesRight(live, X, D, W)
  BY DEF OnCourse
<1> QED
  BY <1>1, <1>3, <1>4, <1>5, <1>6, <1>7 DEF OnCourse
===============================================================================
