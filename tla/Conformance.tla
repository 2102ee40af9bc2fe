------------------------------ MODULE Conformance ------------------------------
(***************************************************************************)
(* What validation is for: the documents a schema accepts, as              *)
(* appendix-semantics.md says which they are: of the arms of a union some, *)
(* of a map each value, and of the constraints of every record all, each   *)
(* as 3.24 and 3.25 state it.  What the code is known to part from it in   *)
(* is named beside it, and only there is the walk asked.                   *)
(***************************************************************************)
EXTENDS Validation

-------------------------------------------------------------------------------
(***************************************************************************)
(* The constraints (3.24, 3.25).                                           *)
(***************************************************************************)
WrittenAt(d, p) == {d[q] : q \in {p} \cap DOMAIN d}
Gated(d, p, when) ==
  LET written == WrittenAt(d, Field(p, when.field))
  IN CASE when.predicate = "present" -> written # {}
       [] when.predicate = "absent"  -> written = {}
       [] when.predicate \in {"equals", "in"} -> written \cap when.values # {}
       [] when.predicate \in {"not-equals", "not-in"} -> written \ when.values # {}

ElementsAt(d, p) == IF IsArrayAt(d, p) THEN ItemPaths(d, p) ELSE {}
KeysIn(d, p, field) == {Field(q, field) : q \in ElementsAt(d, p)} \cap DOMAIN d

\* Values are one when they are equal trees, or strings that are compared as one.
ValueAt(d, q, c) == IF IsString(d, q) THEN <<>> :> Compared(c, d[q]) ELSE Subtree(d, q)
AllDiffer(d, nodes, c) == \A q, r \in nodes : q # r => ValueAt(d, q, c) # ValueAt(d, r, c)

\* Half-open ranges of whole numbers; the sum is not one of a width.
EndsAt(d, q, c) == StartOf(d, q, c) + NumberOf[d[Field(q, c.length)]]
AreApart(d, ranges, c) ==
  /\ \A q \in ranges : StartOf(d, q, c) < EndsAt(d, q, c)
  /\ \A q, r \in ranges : q # r => EndsAt(d, q, c) <= StartOf(d, r, c) \/ EndsAt(d, r, c) <= StartOf(d, q, c)

\* The nodes of a reference; the null of a nullable one refers to nothing.
Referring(d, p, c) ==
  LET at == Field(p, c.reference)
      nodes == IF c.element # "" THEN KeysIn(d, Field(<<>>, c.reference), c.element)
               ELSE IF IsArrayAt(d, at) THEN ItemPaths(d, at) ELSE {at} \cap DOMAIN d
  IN {q \in nodes : ClassAt(d, q) # "null"}
NamesIn(d, nodes) == UNION {IF IsRecordAt(d, q) THEN KeysOf(d, q) ELSE {d[q]} : q \in nodes}

\* Relative to the evidence: of a source that was not asked nothing is said.
Supplied(source, field) == {e[field] : e \in {x \in Range(Evidence[source]) : field \in DOMAIN x}}
WithinLimit(c, n) == IF c.compare = "<=" THEN n <= c.limit ELSE n >= c.limit
SumIsWithin(c) ==
  LET summed == Evidence[c.selection]
  IN /\ \A e \in Range(summed) : ~LacksNumber(e, c.sum_field)
     /\ WithinLimit(c, Total([i \in DOMAIN summed |-> NumberOf[summed[i][c.sum_field]]]))

\* A field is looked for by its name, as it is written in the constraint.
Meets(d, p, c) ==
  LET Given(k) == Has(d, Field(p, k))
  IN CASE c.form = "conditional-required" -> Gated(d, p, c.when) => Given(c.field)
       [] c.form = "forbidden-when"       -> Gated(d, p, c.when) => ~Given(c.field)
       [] c.form = "conditional-value"    -> Gated(d, p, c.when) => WrittenAt(d, Field(p, c.field)) \subseteq {c.value}
       [] c.form = "exactly-one-of"   -> \E k \in c.fields : \A j \in c.fields : Given(j) <=> j = k
       [] c.form = "at-least-one-of"  -> \E k \in c.fields : Given(k)
       [] c.form = "co-presence"      -> \A j, k \in c.fields : Given(j) => Given(k)
       [] c.form = "mutual-exclusion" -> \A j, k \in c.fields : Given(j) /\ Given(k) => j = k
       [] c.form = "collections-disjoint" ->
            \A q \in ElementsAt(d, Field(p, c.left)), r \in ElementsAt(d, Field(p, c.right)) :
              ValueAt(d, q, c) # ValueAt(d, r, c)
       [] c.form = "unique-by"         -> AllDiffer(d, KeysIn(d, Field(p, c.collection), c.field), c)
       [] c.form = "pairwise-distinct" -> AllDiffer(d, ElementsAt(d, Field(p, c.collection)), c)
       [] c.form = "ranges-disjoint"   -> AreApart(d, RangesAt(d, Field(p, c.collection), c), c)
       [] c.form = "ordered-pair" ->
            Given(c.less) /\ Given(c.than) => NumberOf[d[Field(p, c.less)]] < NumberOf[d[Field(p, c.than)]]
       [] c.form = "intra-document-references" -> NamesIn(d, Referring(d, p, c)) \subseteq RootKeyset(d, c.into)
       [] c.form = "count-limit" ->
            c.selection \in DOMAIN Evidence => WithinLimit(c, Len(Evidence[c.selection]))
       [] c.form = "sum-limit"   -> c.selection \in DOMAIN Evidence => SumIsWithin(c)
       [] c.form = "named-reference-must-resolve" ->
            c.source \in DOMAIN Evidence => NamesIn(d, Referring(d, p, c)) \subseteq Supplied(c.source, "name")
       [] c.form = "set-coverage" ->
            c.source \in DOMAIN Evidence => Supplied(c.source, "name") \subseteq NamesIn(d, ElementsAt(d, Field(p, c.collection)))
       [] c.form = "cross-collection-unique" ->
            c.source \in DOMAIN Evidence => WrittenAt(d, Field(p, c.field)) \cap Supplied(c.source, c.field) = {}

-------------------------------------------------------------------------------
(***************************************************************************)
(* The types (3.1 to 3.21).                                                *)
(***************************************************************************)
RECURSIVE Fits(_, _, _, _)
FitsRecord(types, d, t, p) ==
  LET undeclared == KeysOf(d, p) \ UNION {{f.name} \cup f.aliases : f \in t.fields}
  IN /\ IsRecordAt(d, p)
     /\ undeclared \subseteq (IF p = <<>> THEN {"format_version"} ELSE {})
     /\ \A f \in t.fields :
          /\ Cardinality(Spellings(d, p, f)) \in (IF f.required THEN {1} ELSE {0, 1})
          /\ \A k \in Spellings(d, p, f) : Fits(types, d, f.type, Field(p, k))
     /\ \A c \in t.constraints : Meets(d, p, c)

Fits(types, d, name, p) ==
  LET t == TypeNamed(types, name)
  IN /\ Len(p) < MaxDepth
     /\ CASE t.kind = "ref"      -> Fits(types, d, t.to, p)
          [] t.kind = "nullable" -> d[p] = "null" \/ Fits(types, d, t.inner, p)
          [] t.kind = "discriminated-union" ->
               \E i \in DOMAIN t.arms :
                 /\ Fits(types, d, t.arms[i], p)
                 /\ d[Field(p, t.discriminator)] = ArmDiscriminator(types, t.arms[i], t.discriminator)
          [] t.kind = "node-kind-union" -> \E i \in DOMAIN t.arms : Fits(types, d, t.arms[i], p)
          [] t.kind = Record     -> FitsRecord(types, d, t, p)
          [] t.kind = "map"      ->
               /\ IsRecordAt(d, p) /\ KeysOf(d, p) \subseteq t.keys
               /\ \A k \in KeysOf(d, p) : Fits(types, d, t.value, Field(p, k))
          [] t.kind = Array      ->
               /\ IsArrayAt(d, p) /\ Length(d, p) \in t.lengths
               /\ \A q \in ItemPaths(d, p) : Fits(types, d, t.item, q)
          [] t.kind = "tuple"    ->
               /\ IsArrayAt(d, p) /\ Length(d, p) = Len(t.elements)
               /\ \A n \in DOMAIN t.elements : Fits(types, d, t.elements[n], Append(p, Index(n)))
          [] t.kind = "scalar"   -> d[p] \in t.values
          [] t.kind = "literal"  -> d[p] = t.value
          [] t.kind = "opaque"   -> TRUE
          [] t.kind = "unknown"  -> FALSE

-------------------------------------------------------------------------------
(***************************************************************************)
(* Where the code is known to part from the appendix.                      *)
(***************************************************************************)
NotStrings(d, nodes) == {q \in nodes : ~IsString(d, q)}

\* A constraint is not asked of everything it is about (the appendix's own words):
\*   3.25: three forms are never run;
\*   unique-by, "excludes trees with a duplicate key", and pairwise-distinct, "any repeat",
\*   and collections-disjoint: only strings are compared;
\*   ranges-disjoint, "each range is FIRST well-formed": a range is never asked that;
\*   ordered-pair, "the scalars' natural order": only numbers are compared;
\*   intra-document references, "excludes trees with a dangling in-document reference":
\*   nothing is looked up in a collection that is absent, nor what is no string.
Overlooked(d, p, c) ==
  CASE c.form \in NeverRun -> TRUE
    [] c.form = "unique-by" -> Cardinality(NotStrings(d, KeysIn(d, Field(p, c.collection), c.field))) > 1
    [] c.form = "pairwise-distinct" -> Cardinality(NotStrings(d, ElementsAt(d, Field(p, c.collection)))) > 1
    [] c.form = "collections-disjoint" ->
         {} \notin {NotStrings(d, ElementsAt(d, Field(p, side))) : side \in {c.left, c.right}}
    [] c.form = "ranges-disjoint" ->
         \E q \in RangesAt(d, Field(p, c.collection), c) : EndOf(d, q, c) <= StartOf(d, q, c)
    [] c.form = "ordered-pair" ->
         LET sides == {Field(p, c.less), Field(p, c.than)}
         IN sides \subseteq DOMAIN d /\ \E q \in sides : ~IsNumber(d, q)
    [] c.form = "intra-document-references" ->
         LET nodes == Referring(d, p, c)
         IN \/ ~Has(d, Field(<<>>, c.into)) /\ nodes # {}
            \/ \E q \in NotStrings(d, nodes) : ~IsRecordAt(d, q)
    [] OTHER -> FALSE

\* And a name that no type has (3.3): what stands there is not looked at.
NothingOverlooked(types, d, visits) ==
  \A v \in visits :
    /\ v.type \in DOMAIN types
    /\ IsRecordAt(d, v.path) => \A c \in ConstraintsOf(types[v.type]) : ~Overlooked(d, v.path, c)

\* 3.6, "the disjoint union of arm sets": arms are categorised through references only,
\* as a scalar's where none is left, and what else such an arm accepts finds no arm.
IsCategorised(types, arm) ==
  TypeNamed(types, Dereferenced(types, arm)).kind
    \notin {"nullable", "discriminated-union", "node-kind-union", "opaque"}

\* No node is left at such a union, and the root, whose version no field declares, is a
\* record by itself.
WalkedAsMeant(types, root, visits) ==
  /\ TypeNamed(types, Dereferenced(types, root)).kind = Record
  /\ \A v \in visits : v.type \in NodeKindUnions(types) =>
       \A i \in DOMAIN types[v.type].arms : IsCategorised(types, types[v.type].arms[i])

-------------------------------------------------------------------------------
(***************************************************************************)
(* Properties.                                                             *)
(***************************************************************************)
IsAccepted == Execute(schema, document) = {}
IsMeant == Fits(Types(schema), document, schema.root, <<>>)

\* One pass that stops at no error, passes over the constraints of records it found
\* wrong and dispatches by category accepts, of the documents the gate lets through, all
\* that the appendix means, and no others where there is nothing it overlooks.
AcceptedDocumentsConform ==
  LET types == Types(schema)
      visits == Visits(types, document, schema.root)
  IN GateOpen(schema, document) /\ WalkedAsMeant(types, schema.root, visits) =>
       /\ IsMeant => IsAccepted
       /\ IsAccepted /\ NothingOverlooked(types, document, visits) => IsMeant
================================================================================
