------------------------------ MODULE Migrations -------------------------------
(***************************************************************************)
(* The migration engine (go/internal/migrate): documents, the thirteen     *)
(* ops, a migration up and down, the chain of migrations of one document   *)
(* and of a JSONL stream.                                                  *)
(*                                                                         *)
(* A document is a tree, given as a function: from the path of every node  *)
(* to its kind, or, of a scalar, its value.  Spans and bytes are left out, *)
(* and with them the order of a record's fields.  Documents are JSON; of a *)
(* TOML document the trees are the same and some splices fail.             *)
(***************************************************************************)
EXTENDS Integers, FiniteSets, Sequences, SequencesExt, Functions, TLC

CONSTANTS
  Accepted(_),   \* external: whether the target schema accepts a document
  TargetVersion  \* the target schema's format version

Record == "record"
Array  == "array"
Kind(value) == IF value \in {Record, Array} THEN value ELSE "scalar"

\* A step of a path: of a record its key, of an array its index, from 1.
KeyStep(name) == <<name, 0>>
Index(n)  == <<"", n>>
IsKey(step) == step[2] = 0

-------------------------------------------------------------------------------
(***************************************************************************)
(* Trees.                                                                  *)
(***************************************************************************)
Has(d, p)    == p \in DOMAIN d
Under(d, p)  == {q \in DOMAIN d : IsPrefix(p, q)}
Below(p, q)  == SubSeq(q, Len(p) + 1, Len(q))
Subtree(d, p) ==
  LET paths == {Below(p, q) : q \in Under(d, p)} IN [r \in paths |-> d[p \o r]]
Cut(d, p)    == Restrict(d, DOMAIN d \ Under(d, p))
Placed(p, t) == LET paths == {p \o r : r \in DOMAIN t} IN [q \in paths |-> t[Below(p, q)]]
Merged(d, e) == [q \in DOMAIN d \cup DOMAIN e |-> IF q \in DOMAIN e THEN e[q] ELSE d[q]]
Members(d, p) == {q \in DOMAIN d : Len(q) = Len(p) + 1 /\ IsPrefix(p, q)}
Put(d, p, t) == Merged(Cut(d, p), Placed(p, t))

IsRecordAt(d, p) == Has(d, p) /\ Kind(d[p]) = Record
IsArrayAt(d, p)  == Has(d, p) /\ Kind(d[p]) = Array
Length(d, p)     == Cardinality(Members(d, p))

\* removeArrayElem: the elements after it move up by one.
Elements(d, p) == [n \in 1 .. Length(d, p) |-> Subtree(d, Append(p, Index(n)))]
ArrayOf(elements) ==
  LET paths == UNION {{<<Index(n)>> \o r : r \in DOMAIN elements[n]} : n \in DOMAIN elements}
  IN [q \in {<<>>} \cup paths |-> IF q = <<>> THEN Array ELSE elements[Head(q)[2]][Tail(q)]]
PutElements(d, p, elements) == Put(d, p, ArrayOf(elements))

\* What every document is: a node but the root lies in one that is there, and the
\* elements of an array are numbered from 1.
Steps == ({""} \cup STRING) \X Nat
NodePaths == Seq(Steps)
IsNumbered(d, p) ==
  /\ Length(d, p) \in Nat
  /\ Members(d, p) = {Append(p, Index(n)) : n \in 1 .. Length(d, p)}
IsTree(d) ==
  /\ d = [q \in DOMAIN d |-> d[q]] /\ DOMAIN d \subseteq NodePaths /\ Has(d, <<>>)
  /\ \A q \in DOMAIN d \ {<<>>} :
       Has(d, Front(q)) /\ d[Front(q)] = IF IsKey(Last(q)) THEN Record ELSE Array
  /\ \A q \in DOMAIN d : d[q] = Array => IsNumbered(d, q)

-------------------------------------------------------------------------------
(***************************************************************************)
(* matchCond, over the elements of an array.                               *)
(***************************************************************************)
Holds(cond, element) ==
  LET field == <<KeyStep(cond.field)>>
      present == Kind(element[<<>>]) = Record /\ Has(element, field)
      equals == present /\ element[field] \in cond.values
  IN CASE cond.predicate = "present"                 -> present
       [] cond.predicate = "absent"                  -> ~present
       [] cond.predicate \in {"equals", "in"}         -> equals
       [] cond.predicate \in {"not-equals", "not-in"} -> ~equals

\* remove_where: the elements it holds of are removed.
Remaining(cond, elements) ==
  FoldLeft(LAMBDA kept, e : IF Holds(cond, e) THEN kept ELSE Append(kept, e), <<>>, elements)

-------------------------------------------------------------------------------
(***************************************************************************)
(* The ops: what each requires, and the document it makes.                 *)
(***************************************************************************)
FieldAt(d, p) == p # <<>> /\ IsKey(Last(p)) /\ Has(d, p)

\* A mutant: a field that is there is written over.
AnyFieldAt(d, p) == p # <<>> /\ IsKey(Last(p)) /\ IsRecordAt(d, Front(p))
FreeAt(d, p)     == p # <<>> /\ IsKey(Last(p)) /\ IsRecordAt(d, Front(p)) /\ ~Has(d, p)

\* rename_field keeps the parent, whatever `to` says of it.
RenamedPath(op) == Append(Front(op.from), Last(op.to))

Absent(d, op) == {k \in DOMAIN op.defaults : ~Has(d, Append(op.path, KeyStep(k)))}

Matching(d, op)   == {n \in 1 .. Length(d, op.path) : Holds(op.where, Elements(d, op.path)[n])}
RecordsAt(d, op)      == {n \in Matching(d, op) : Kind(d[Append(op.path, Index(n))]) = Record}
FieldsToSet(d, op) == {op.path \o <<Index(n), KeyStep(op.field)>> : n \in RecordsAt(d, op)}

OpAllowed(d, op) ==
  CASE op.kind = "rename_field" ->
         FieldAt(d, op.from) /\ op.to # <<>> /\ IsKey(Last(op.to)) /\ ~Has(d, RenamedPath(op))
    [] op.kind = "move_field" ->
         FieldAt(d, op.from) /\ FreeAt(d, op.to) /\ FreeAt(Cut(d, op.from), op.to)
    [] op.kind \in {"wrap_in_array", "set_value"} -> Has(d, op.path)
    [] op.kind = "unwrap_singleton" -> IsArrayAt(d, op.path) /\ Length(d, op.path) = 1
    [] op.kind \in {"add_field", "add_collection"} -> FreeAt(d, op.path)
    [] op.kind = "remove_field"    -> FieldAt(d, op.path)
    [] op.kind = "drop_collection" -> FieldAt(d, op.path) /\ IsArrayAt(d, op.path)
    [] op.kind = "append"          -> IsArrayAt(d, op.path)
    [] op.kind = "merge_defaults"  -> IsRecordAt(d, op.path)
    [] op.kind \in {"remove_where", "set_value_where"} -> IsArrayAt(d, op.path)

OpResult(d, op) ==
  CASE op.kind = "rename_field"  -> Put(Cut(d, op.from), RenamedPath(op), Subtree(d, op.from))
    [] op.kind = "move_field"    -> Put(Cut(d, op.from), op.to, Subtree(d, op.from))
    [] op.kind = "wrap_in_array" -> PutElements(d, op.path, <<Subtree(d, op.path)>>)
    [] op.kind = "unwrap_singleton" -> Put(d, op.path, Elements(d, op.path)[1])
    [] op.kind \in {"set_value", "add_field", "add_collection"} -> Put(d, op.path, op.value)
    [] op.kind \in {"remove_field", "drop_collection"} -> Cut(d, op.path)
    [] op.kind = "append" -> PutElements(d, op.path, Append(Elements(d, op.path), op.value))
    [] op.kind = "merge_defaults" ->
         Merged(d, [q \in {Append(op.path, KeyStep(k)) : k \in Absent(d, op)} |-> op.defaults[Last(q)[1]]])
    [] op.kind = "remove_where" -> PutElements(d, op.path, Remaining(op.where, Elements(d, op.path)))
    [] op.kind = "set_value_where" ->
         LET kept == {q \in DOMAIN d : \A f \in FieldsToSet(d, op) : ~IsPrefix(f, q)}
         IN Merged(Restrict(d, kept), [f \in FieldsToSet(d, op) |-> op.value[<<>>]])

-------------------------------------------------------------------------------
(***************************************************************************)
(* Migrations.  An outcome is a document, or the step that was refused.    *)
(***************************************************************************)
VersionPath == <<KeyStep("format_version")>>
VersionOf(d) == d[VersionPath]
Versioned(d) == IsRecordAt(d, <<>>) /\ Has(d, VersionPath)

Migrated(d) == [ok |-> TRUE, document |-> d]
Failed      == [ok |-> FALSE, document |-> <<>>]

Step(outcome, op) ==
  IF outcome.ok /\ OpAllowed(outcome.document, op)
  THEN Migrated(OpResult(outcome.document, op)) ELSE Failed

WithVersion(outcome, version) ==
  IF outcome.ok /\ Versioned(outcome.document)
  THEN Migrated([outcome.document EXCEPT ![VersionPath] = version]) ELSE Failed

ApplyUp(m, d) == WithVersion(FoldLeft(Step, Migrated(d), m.ops), m.to)

DeclaredTaxonomy(m) ==
  LET downs == {m.ops[i].down : i \in DOMAIN m.ops}
  IN IF "irreversible" \in downs THEN "irreversible"
     ELSE IF "partial" \in downs THEN "partial" ELSE "total"

ApplyDown(m, d) ==
  IF DeclaredTaxonomy(m) = "irreversible" THEN Failed
  ELSE WithVersion(FoldLeft(Step, Migrated(d), m.down_ops), m.from)

Through(chain, d) ==
  FoldLeft(LAMBDA o, m : IF o.ok THEN ApplyUp(m, o.document) ELSE o, Migrated(d), chain)

\* A mutant: what the chain makes of a document is not validated again.
MigrateUnchecked(chain, d) == Through(chain, d)

\* The chain, and then the target schema.
MigrateDocument(chain, d) ==
  LET outcome == Through(chain, d)
  IN IF outcome.ok /\ Accepted(outcome.document) THEN outcome ELSE Failed

\* MigrateJSONL: each line that is not blank, all through the chain chosen for the
\* first.
MigrateLines(chain, lines) ==
  LET outcomes == [i \in DOMAIN lines |-> MigrateDocument(chain, lines[i])]
  IN [ok |-> \A i \in DOMAIN lines : outcomes[i].ok,
      lines |-> [i \in DOMAIN lines |-> outcomes[i].document]]

\* selectChain: the first migration from each version, in the directory's order.
Follow(migrations, to, found, i) ==
  LET next == SelectInSeq(migrations, LAMBDA m : m.from = found.version)
  IN IF found.version = to \/ next = 0 THEN found
     ELSE [version |-> migrations[next].to, chain |-> Append(found.chain, migrations[next])]

SelectChain(migrations, from, to) ==
  FoldLeft(LAMBDA found, i : Follow(migrations, to, found, i),
           [version |-> from, chain |-> <<>>],
           [i \in 1 .. Len(migrations) + 1 |-> i])
Bridged(migrations, from, to) == SelectChain(migrations, from, to).version = to

\* migrateHandler, of one file: it is refused at the current version, without a chain,
\* or as one of its lines is.  Its version is its first line's.
MigrateFile(migrations, lines) ==
  LET from == VersionOf(lines[1])
  IN IF Versioned(lines[1]) /\ from # TargetVersion /\ Bridged(migrations, from, TargetVersion)
     THEN MigrateLines(SelectChain(migrations, from, TargetVersion).chain, lines)
     ELSE [ok |-> FALSE, lines |-> <<>>]
===============================================================================
