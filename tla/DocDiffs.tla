------------------------------- MODULE DocDiffs --------------------------------
(***************************************************************************)
(* doc-diff (go/internal/docdiff): what changed between two documents of   *)
(* one schema, as a set of deltas.  The elements of an array are matched   *)
(* by a key where the record that has the array, or the array's type,      *)
(* declares them unique by it, and by their place otherwise.               *)
(*                                                                         *)
(* The second document is the one of Validation, the first what it was     *)
(* before its edits.  Values render apart exactly when they differ; the    *)
(* order of the deltas and the line of a JSONL stream are left out.        *)
(***************************************************************************)
EXTENDS Validation

VARIABLE original  \* the first document

docDiffVars == <<validationVars, original>>

\* An operand Execute reports something of is refused.
Compared2(s, d, e) == Execute(s, d) = {} /\ Execute(s, e) = {}

\* fieldType: by a field's name, never its aliases; nothing is known of the members of
\* a union, a nullable type or a tuple.
NoType == ""
Resolved(types, t) == Dereferenced(types, t)
FieldType(types, t, key) ==
  LET type == TypeNamed(types, t)
      named == IF type.kind = Record THEN {f \in type.fields : f.name = key} ELSE {}
  IN IF named # {} THEN (CHOOSE f \in named : TRUE).type
     ELSE IF type.kind = "map" THEN type.value ELSE NoType
ItemType(types, t) == IF TypeNamed(types, t).kind = Array THEN types[t].item ELSE NoType

\* recordUniqueBy, of a field of a record, and uniqueByKey, of an array by itself: by what
\* the elements are declared unique.  Validation enforces only what a record declares.
UniqueBys(types, t) ==
  {c \in ConstraintsOf(TypeNamed(types, t)) : c.form = "unique-by" /\ c.field # ""}
UniqueKeys(types, t, key) == {c.field : c \in {k \in UniqueBys(types, t) : k.collection = key}}
UniqueWithin(types, t) == {c.field : c \in UniqueBys(types, t)}

Added(d, p)      == [op |-> "added", path |-> p, new |-> Subtree(d, p), old |-> <<>>, from |-> 0]
Removed(d, p, q) == [op |-> "removed", path |-> q, new |-> <<>>, old |-> Subtree(d, p), from |-> 0]
Changed(d, p, e, q) ==
  [op |-> "changed", path |-> q, new |-> Subtree(e, q), old |-> Subtree(d, p), from |-> 0]
Moved(q, from)   == [op |-> "moved", path |-> q, new |-> <<>>, old |-> <<>>, from |-> from]

\* elemKey; of two elements with one key the last is the one that is found.
Keyed(d, p, key) == {n \in 1 .. Length(d, p) : Has(d, p \o <<Index(n), KeyStep(key)>>)}
KeyAt(d, p, n, key) == d[p \o <<Index(n), KeyStep(key)>>]
FoundBy(d, p, key, value) == {n \in Keyed(d, p, key) : KeyAt(d, p, n, key) = value}
LastOf(numbers) == CHOOSE n \in numbers : \A m \in numbers : m <= n

\* The pairs of places of elements that are one element.
Matches(d, p, e, q, key) ==
  {<<i, n>> \in Keyed(d, p, key) \X Keyed(e, q, key) :
     LET found == FoundBy(d, p, key, KeyAt(e, q, n, key)) IN found # {} /\ LastOf(found) = i}

\* A mutant: of an element that moved only the move is reported.
MatchesInPlace(d, p, e, q, key) == {m \in Matches(d, p, e, q, key) : m[1] = m[2]}

\* Whose contents are compared: of all that match, those that moved included.
Followed(d, p, e, q, key) == Matches(d, p, e, q, key)

RECURSIVE Walk(_, _, _, _, _, _)

\* walkArrayKeyed: an old element without a key is not reported.
WalkKeyed(types, t, d, p, e, q, key) ==
  LET matches == Matches(d, p, e, q, key)
      arrived == {m[2] : m \in matches}
      values == {KeyAt(e, q, n, key) : n \in Keyed(e, q, key)}
  IN {Added(e, Append(q, Index(n))) : n \in (1 .. Length(e, q)) \ arrived}
     \cup {Moved(Append(q, Index(m[2])), m[1]) : m \in {k \in matches : k[1] # k[2]}}
     \cup (UNION {Walk(types, ItemType(types, t), d, Append(p, Index(m[1])), e, Append(q, Index(m[2]))) :
                    m \in Followed(d, p, e, q, key)})
     \cup {Removed(d, Append(p, Index(n)), Append(q, Index(n))) :
             n \in {i \in Keyed(d, p, key) : KeyAt(d, p, i, key) \notin values}}

WalkInPlace(types, t, d, p, e, q) ==
  LET old == 1 .. Length(d, p)
      new == 1 .. Length(e, q)
      At(path, n) == Append(path, Index(n))
  IN UNION {Walk(types, ItemType(types, t), d, At(p, n), e, At(q, n)) : n \in old \cap new}
     \cup {Removed(d, At(p, n), At(q, n)) : n \in old \ new}
     \cup {Added(e, At(q, n)) : n \in new \ old}

WalkArray(types, t, d, p, e, q) ==
  LET unique == UniqueWithin(types, t)
  IN IF unique # {} THEN WalkKeyed(types, t, d, p, e, q, CHOOSE k \in unique : TRUE)
     ELSE WalkInPlace(types, t, d, p, e, q)

\* A field of a record: p and q are its paths, and what the record declares comes first.
WalkField(types, t, key, d, p, e, q) ==
  LET unique == UniqueKeys(types, t, key)
      type == FieldType(types, t, key)
  IN IF unique # {} /\ IsArrayAt(d, p) /\ IsArrayAt(e, q)
     THEN WalkKeyed(types, Resolved(types, type), d, p, e, q, CHOOSE k \in unique : TRUE)
     ELSE Walk(types, type, d, p, e, q)

WalkRecord(types, t, d, p, e, q) ==
  LET old == KeysOf(d, p)
      new == KeysOf(e, q)
  IN {Removed(d, Field(p, k), Field(q, k)) : k \in old \ new}
     \cup {Added(e, Field(q, k)) : k \in new \ old}
     \cup UNION {WalkField(types, t, k, d, Field(p, k), e, Field(q, k)) : k \in old \cap new}

\* The node at p of d against the node at q of e; q is the path that is reported.
Walk(types, type, d, p, e, q) ==
  LET t == Resolved(types, type)
  IN CASE Kind(d[p]) # Kind(e[q]) -> {Changed(d, p, e, q)}
       [] IsRecordAt(d, p) /\ IsRecordAt(e, q) -> WalkRecord(types, t, d, p, e, q)
       [] IsArrayAt(d, p) /\ IsArrayAt(e, q)   -> WalkArray(types, t, d, p, e, q)
       [] OTHER -> IF d[p] = e[q] THEN {} ELSE {Changed(d, p, e, q)}

DocDiff(s, d, e) == Walk(Types(s), s.root, d, <<>>, e, <<>>)

DocDiffInit == ValidationInit /\ original = document
DocDiffNext == ValidationNext /\ UNCHANGED original

-------------------------------------------------------------------------------
(***************************************************************************)
(* Reading a diff back.  From the first document and the deltas a reader   *)
(* makes the document the deltas speak of.                                 *)
(***************************************************************************)
Tells(deltas, op, q) == {g \in deltas : g.op = op /\ g.path = q}

\* The places of the array at q: as many as before, less and more what the deltas say.
NewLength(deltas, d, p, q) ==
  LET here(op) == {g \in deltas : g.op = op /\ Len(g.path) = Len(q) + 1 /\ IsPrefix(q, g.path)}
  IN Length(d, p) - Cardinality(here("removed")) + Cardinality(here("added"))

\* Where the node that is now at q was: the deltas may say that an element moved.
Origin(deltas, p, q) ==
  LET moves == Tells(deltas, "moved", q)
  IN IF moves = {} THEN Append(p, Last(q)) ELSE Append(p, Index((CHOOSE g \in moves : TRUE).from))

RECURSIVE ReadBack(_, _, _, _)
ReadBack(deltas, d, p, q) ==
  LET told == Tells(deltas, "changed", q) \cup Tells(deltas, "added", q)
      keys == (KeysOf(d, p) \ {Last(g.path)[1] : g \in UNION {Tells(deltas, "removed", Field(q, k)) : k \in KeysOf(d, p)}})
                \cup {Last(g.path)[1] : g \in {h \in deltas : h.op = "added" /\ Len(h.path) = Len(q) + 1 /\ IsPrefix(q, h.path)}}
      steps == IF Kind(d[p]) = Record THEN {KeyStep(k) : k \in keys}
               ELSE {Index(n) : n \in 1 .. NewLength(deltas, d, p, q)}
  IN IF told # {} THEN Placed(q, (CHOOSE g \in told : TRUE).new)
     ELSE IF ~Has(d, p) THEN q :> "nothing"
     ELSE IF Kind(d[p]) = "scalar" THEN q :> d[p]
     ELSE FoldSet(LAMBDA step, tree : Merged(tree, ReadBack(deltas, d, Origin(deltas, p, Append(q, step)), Append(q, step))),
                  q :> d[p], steps)

\* The arrays at and below p whose elements are matched by a key, each with that key: what
\* the record says of the array, or else the array's type.
ChosenOf(keys) == IF keys = {} THEN {} ELSE {CHOOSE k \in keys : TRUE}
RECURSIVE KeyedArrays(_, _, _, _, _)
KeyedArrays(types, type, unique, d, p) ==
  LET t == Resolved(types, type)
      keys == IF unique # {} THEN unique ELSE UniqueWithin(types, t)
  IN CASE IsRecordAt(d, p) ->
            UNION {KeyedArrays(types, FieldType(types, t, k), UniqueKeys(types, t, k), d, Field(p, k)) : k \in KeysOf(d, p)}
       [] IsArrayAt(d, p)  ->
            ({p} \X ChosenOf(keys)) \cup UNION {KeyedArrays(types, ItemType(types, t), {}, d, q) : q \in ItemPaths(d, p)}
       [] OTHER -> {}

\* Validation does not see to it: what an array's type declares it never asks, a record's
\* declaration only of strings, and an element may lack its key.
KeysTellApart(s, d) ==
  \A a \in KeyedArrays(Types(s), s.root, {}, d, <<>>) :
    /\ Keyed(d, a[1], a[2]) = 1 .. Length(d, a[1])
    /\ \A i, j \in Keyed(d, a[1], a[2]) : i # j => KeyAt(d, a[1], i, a[2]) # KeyAt(d, a[1], j, a[2])

\* Of two documents of a schema in which keys tell elements apart, the diff leaves nothing
\* out and invents nothing: whoever has the first and the deltas has the second, moved
\* elements that also changed included.
NothingIsLeftOut ==
  Compared2(schema, original, document) /\ KeysTellApart(schema, original) /\ KeysTellApart(schema, document) =>
    ReadBack(DocDiff(schema, original, document), original, <<>>, <<>>) = document
===============================================================================
