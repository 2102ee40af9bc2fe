----------------------------- MODULE Declarations -----------------------------
(***************************************************************************)
(* The data of the declarations engine (go/declarations): what a tool      *)
(* describes of its resource types, declaration sets as Load returns them, *)
(* values, children, keys, slots and matchers.  There is no state here.    *)
(*                                                                         *)
(* A resource is named as reports name it, "<type>/<name>", and an exposed *)
(* value "<type>/<name>/<value>".  Strings stand for scalar values.        *)
(***************************************************************************)
EXTENDS Integers, FiniteSets, Sequences, Functions

CONSTANTS
  Resources,      \* every resource that can be declared or live
  ResourceTypes,  \* the resource types the tool supplies
  TypeOf,         \* [Resources -> ResourceTypes]
  NameOrder,      \* [Resources -> Nat]: the order by type, then name
  Stage,          \* [ResourceTypes -> Int]: Descriptor.Stage
  Fields,         \* [ResourceTypes -> set of fields]: Descriptor.Fields
  Collections,    \* [ResourceTypes -> sequence of collections]
  Key,            \* [collection -> set of fields]: Collection.Key
  FallbackKey,    \* [collection -> set of fields]: Collection.FallbackKey
  ItemFields,     \* [collection -> set of fields]: Collection.Fields
  ExposedValues,  \* every provider-assigned value a reference may read
  ExposedBy       \* [ExposedValues -> Resources]

ASSUME StagesAreNumbers ==
  /\ TypeOf \in [Resources -> ResourceTypes]
  /\ Stage \in [ResourceTypes -> Int]
  /\ NameOrder \in [Resources -> Nat]

\* "" stands for no collection, and for no field: a descriptor names both.
ASSUME CollectionsHaveNames == \A t \in ResourceTypes : "" \notin Range(Collections[t])
ASSUME FieldsHaveNames == \A t \in ResourceTypes : "" \notin Fields[t]

(***************************************************************************)
(* Values.  A literal is canonical data; a reference names an exposed      *)
(* value; a pending value stands for one an earlier change of the plan     *)
(* creates (after: the resources whose creation it waits on); a reason is  *)
(* what a derivation that cannot give its value yet says instead.          *)
(***************************************************************************)
Literal(v)       == [kind |-> "literal",   of |-> v, after |-> {}]
Reference(x)     == [kind |-> "reference", of |-> x, after |-> {}]
Pending(of, R)   == [kind |-> "pending",   of |-> of, after |-> R]
Reason(slot)     == [kind |-> "reason",    of |-> slot.name, after |-> {}]
Unread           == [kind |-> "unread",    of |-> "", after |-> {}]

\* A value the plan cannot supply: a reference as written, or a reason.
IsUnresolved(v) == v.kind \in {"reference", "reason"}

\* The values a set of items holds, and the references and pendings in them.
ValuesOf(items)     == UNION {Range(it) : it \in items}
ReferencesIn(vals)  == {v.of : v \in {w \in vals : w.kind = "reference"}}
PendingsIn(vals)    == {v \in vals : v.kind = "pending"}

(***************************************************************************)
(* Children: an item is a function from its fields to values.              *)
(***************************************************************************)
KeyFields(col, it) ==
  IF FallbackKey[col] = {} \/ Key[col] \cap DOMAIN it # {}
  THEN Key[col] ELSE FallbackKey[col]

\* A child has its key fields (checkItems, of what is declared, derived and live).
ItemKey(col, it)      == Restrict(it, KeyFields(col, it) \cap DOMAIN it)
NonKeyFields(col, it) == Restrict(it, DOMAIN it \ KeyFields(col, it))

\* What checkItems asks of a child and of the children of a collection.
HasKey(col, it)     == KeyFields(col, it) # {} /\ KeyFields(col, it) \subseteq DOMAIN it
Apart(col, items)  == \A a, b \in items : ItemKey(col, a) = ItemKey(col, b) => a = b

KeyUnresolved(col, it) == \E f \in DOMAIN ItemKey(col, it) : IsUnresolved(it[f])

\* A matcher accepts a set of scalars: one for Exact, many for Prefix.
MatchesAll(it, match) ==
  \A f \in DOMAIN match :
     f \in DOMAIN it /\ it[f].kind = "literal" /\ it[f].of \in match[f]

CollectionsOf(r) == Range(Collections[TypeOf[r]])

\* f with x mapped to v, and f overridden by g.
With(f, x, v)    == [y \in DOMAIN f \cup {x} |-> IF y = x THEN v ELSE f[y]]
Overridden(f, g) == [y \in DOMAIN f \cup DOMAIN g |-> IF y \in DOMAIN g THEN g[y] ELSE f[y]]

\* No resource-level or field-level key; no children.
NoKey == [f \in {} |-> {}]
Childless(r) == [col \in CollectionsOf(r) |-> {}]

(***************************************************************************)
(* Declaration sets.  set.resources maps each declared resource to         *)
(*   [fields, children, unmanaged]: unmanaged holds [col, match] entries.  *)
(* set.slots holds the slots kept by Load:                                 *)
(*   [name, source, target, field, col, match, reads, gives]               *)
(* where field = "" for a collection slot and col = "" for a field slot,   *)
(* reads is the resource or exposed value its derivation reads, and gives  *)
(* the children it derives once that is live.                              *)
(***************************************************************************)
Declared(set) == DOMAIN set.resources

SlotsOf(set, r)   == {s \in set.slots : s.target = r}
CausedBy(set, r)  == {s \in set.slots : s.source = r}
IsFieldSlot(s)    == s.field # ""

\* compatible, overlap: two slots of a target covering a common child.
Overlap(a, b) ==
  IF IsFieldSlot(a) \/ IsFieldSlot(b) THEN a.field = b.field
  ELSE /\ a.col = b.col
       /\ \A f \in DOMAIN a.match \cap DOMAIN b.match :
             a.match[f] \cap b.match[f] # {}

DeclaredValues(set, r) ==
  Range(set.resources[r].fields)
    \cup UNION {ValuesOf(set.resources[r].children[c]) : c \in CollectionsOf(r)}

\* What Load guarantees of a set (Set.check), as far as it is modelled here.
LoadChecked(set) ==
  /\ \A r \in Declared(set) :
       \A x \in ReferencesIn(DeclaredValues(set, r)) :
          ExposedBy[x] \in Declared(set)
  /\ \A s \in set.slots :
       /\ {s.source, s.target} \subseteq Declared(set)
       /\ IsFieldSlot(s) => s.field \notin DOMAIN set.resources[s.target].fields
       /\ ~IsFieldSlot(s) =>
            /\ s.col \in CollectionsOf(s.target)
            /\ DOMAIN s.match \subseteq Key[s.col]
            /\ \A it \in s.gives : MatchesAll(it, s.match)
            /\ \A it \in set.resources[s.target].children[s.col] :
                  ~MatchesAll(it, s.match)
            /\ \A u \in set.resources[s.target].unmanaged :
                  u.col = s.col =>
                    \E f \in DOMAIN u.match \cap DOMAIN s.match :
                       u.match[f] \cap s.match[f] = {}
       /\ \A t \in set.slots \ {s} : s.target = t.target => ~Overlap(s, t)
  /\ \A r \in Declared(set) : \A u \in set.resources[r].unmanaged :
       \A it \in set.resources[r].children[u.col] : ~MatchesAll(it, u.match)
===============================================================================
