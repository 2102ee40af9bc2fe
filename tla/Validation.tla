------------------------------ MODULE Validation -------------------------------
(***************************************************************************)
(* Validation (go/internal/ir) of a document against a schema whose        *)
(* imports are resolved (go/internal/schema): the gate, the structural     *)
(* walk, and the constraints of the records whose walk was clean.          *)
(*                                                                         *)
(* A document is a tree as in Migrations.  Every type has a name, and a    *)
(* field, an item or an arm names its type.  A type of scalars is a class  *)
(* and the values its refinements, its enum or its literal leave of it.    *)
(* Diagnostics are a set of codes and nodes: their order and wording, and  *)
(* the line of a JSONL stream, are left out.                               *)
(***************************************************************************)
EXTENDS Migrations

CONSTANTS
  Schemas,       \* [root, version, own, imports]: what a document is validated by
  TypeFiles,     \* of every type-definition file [types, imports]
  Class,         \* of every scalar its class: "string", "integer", "null", ...
  NumberOf,      \* of every number its value, of every date its place in their order
  Folded,        \* of every string what its constraints compare
  IntegerWidth,  \* the bits of an integer
  Evidence,      \* of each resolver asked for its documents, each the scalars of its fields
  MaxDepth,      \* MaxValidationDepth
  FirstDocuments, DocumentEdits, MaxDocumentEdits  \* what hands write, and a bound

\* Schemas and type-definition files as they are decoded.
UnionsAreFormed(types) ==
  \A t \in DOMAIN types : types[t].kind = "node-kind-union" =>
    types[t] = [kind |-> "node-kind-union", arms |-> types[t].arms] /\ types[t].arms \in Seq(STRING)
ASSUME SchemasAreFormed ==
  /\ \A s \in Schemas :
       /\ s = [root |-> s.root, version |-> s.version, own |-> s.own, imports |-> s.imports]
       /\ s.imports \in Seq([file : STRING, names : SUBSET STRING]) /\ UnionsAreFormed(s.own)
  /\ \A f \in DOMAIN TypeFiles : UnionsAreFormed(TypeFiles[f].types)

VARIABLES
  schema,    \* the schema
  document,  \* the document
  edited     \* how often it was edited

validationVars == <<schema, document, edited>>

ClassAt(d, p) == IF d[p] \in {Record, Array} THEN d[p] ELSE Class[d[p]]
KeysOf(d, p)  == {Last(q)[1] : q \in Members(d, p)}
Field(p, k)   == Append(p, KeyStep(k))
ItemPaths(d, p) == {Append(p, Index(n)) : n \in 1 .. Length(d, p)}

-------------------------------------------------------------------------------
(***************************************************************************)
(* The schema.  ResolveImports takes every type of an imported file, those *)
(* the import does not name included, unless an earlier one has its name.  *)
(***************************************************************************)
Types(s) ==
  FoldLeft(LAMBDA pool, i : IF i.file \in DOMAIN TypeFiles THEN Merged(TypeFiles[i.file].types, pool) ELSE pool,
           s.own, s.imports)

\* A name no type has is walked as a scalar that nothing is asked of.
Unknown == [kind |-> "unknown"]
TypeNamed(types, name) == IF name \in DOMAIN types THEN types[name] ELSE Unknown

\* parseConstraints: any type may state some.
ConstraintsOf(t) == IF "constraints" \in DOMAIN t THEN t.constraints ELSE {}

\* ReadSchema, of a schema and of a type-definition file.
OpaqueHaveStances(types) == \A t \in DOMAIN types : types[t].kind = "opaque" => types[t].stance
TypeFileRead(f) ==
  /\ f.imports = <<>> /\ OpaqueHaveStances(f.types)
  /\ \A t \in DOMAIN f.types : ConstraintsOf(f.types[t]) = {}
SchemaRead(s) == s.version # "" /\ OpaqueHaveStances(s.own)

ImportsResolve(s) ==
  \A i \in Range(s.imports) :
    /\ i.file \in DOMAIN TypeFiles /\ TypeFileRead(TypeFiles[i.file])
    /\ i.names \subseteq DOMAIN TypeFiles[i.file].types

\* ArmCategory: through references; neither a union nor a nullable type is looked into.
Dereferenced(types, t) ==
  FoldSet(LAMBDA step, at : IF TypeNamed(types, at).kind = "ref" THEN types[at].to ELSE at, t, DOMAIN types)
ArmCategory(types, t) ==
  LET kind == TypeNamed(types, Dereferenced(types, t)).kind
  IN CASE kind \in {"record", "map"}  -> Record
       [] kind \in {"array", "tuple"} -> Array
       [] OTHER -> "scalar"

\* A mutant: only arms of one kind of type are taken for one another.
NodeKindsDiffer(types, arms) ==
  \A i, j \in DOMAIN arms :
    i # j => types[Dereferenced(types, arms[i])].kind # types[Dereferenced(types, arms[j])].kind

\* checkNodeKindUnions
NodeKindsDistinct(types, arms) ==
  \A i, j \in DOMAIN arms : i # j => ArmCategory(types, arms[i]) # ArmCategory(types, arms[j])
NodeKindUnions(types) == {t \in DOMAIN types : types[t].kind = "node-kind-union"}
SchemaAccepted(s) ==
  /\ SchemaRead(s) /\ ImportsResolve(s)
  /\ \A t \in NodeKindUnions(Types(s)) : NodeKindsDistinct(Types(s), Types(s)[t].arms)

-------------------------------------------------------------------------------
(***************************************************************************)
(* The walk.  A visit is a type walked at a node, in an arm of a           *)
(* discriminated union or not.                                             *)
(***************************************************************************)
Visit(type, path, inArm) == [type |-> type, path |-> path, inArm |-> inArm]

\* armDiscriminator: the literal of the arm's discriminator field, or its name.
ArmDiscriminator(types, arm, discriminator) ==
  LET t == TypeNamed(types, Dereferenced(types, arm))
      fields == IF t.kind # Record THEN {}
                ELSE {f \in t.fields : f.name = discriminator /\ TypeNamed(types, f.type).kind = "literal"}
  IN IF fields = {} THEN arm ELSE types[(CHOOSE f \in fields : TRUE).type].value

DiscriminatedArm(types, t, d, p) ==
  LET at == Field(p, t.discriminator)
  IN IF ~IsRecordAt(d, p) \/ ~Has(d, at) THEN 0
     ELSE SelectInSeq(t.arms, LAMBDA a : ArmDiscriminator(types, a, t.discriminator) = d[at])
NodeKindArm(types, t, d, p) ==
  SelectInSeq(t.arms, LAMBDA a : ArmCategory(types, a) = Kind(d[p]))

\* walkInner, walkNullable, walkDiscriminated, walkNodeKind: to the type the node is
\* walked by in the end.
Dispatch(types, d, v) ==
  LET t == TypeNamed(types, v.type)
      byLiteral == DiscriminatedArm(types, t, d, v.path)
      byKind == NodeKindArm(types, t, d, v.path)
  IN CASE t.kind = "ref" -> [v EXCEPT !.type = t.to]
       [] t.kind = "nullable" /\ ClassAt(d, v.path) # "null" -> [v EXCEPT !.type = t.inner]
       [] t.kind = "discriminated-union" /\ byLiteral # 0 -> Visit(t.arms[byLiteral], v.path, TRUE)
       [] t.kind = "node-kind-union" /\ byKind # 0 -> [v EXCEPT !.type = t.arms[byKind]]
       [] OTHER -> v
Arrived(types, d, v) == FoldSet(LAMBDA step, at : Dispatch(types, d, at), v, DOMAIN types)

\* The spellings of a field a record has.
Spellings(d, p, f) == ({f.name} \cup f.aliases) \cap KeysOf(d, p)

\* walkRecord, walkMap, walkArray, walkTuple: what is walked next.
Children(types, d, v) ==
  LET t == TypeNamed(types, v.type)
      p == v.path
  IN CASE t.kind = Record /\ IsRecordAt(d, p) ->
            UNION {{Visit(f.type, Field(p, k), FALSE) : k \in {x \in KeysOf(d, p) : Spellings(d, p, f) = {x}}} :
                     f \in t.fields}
       [] t.kind = "map" /\ IsRecordAt(d, p) -> {Visit(t.value, Field(p, k), FALSE) : k \in KeysOf(d, p)}
       [] t.kind = Array /\ IsArrayAt(d, p)  -> {Visit(t.item, q, FALSE) : q \in ItemPaths(d, p)}
       [] t.kind = "tuple" /\ IsArrayAt(d, p) /\ Length(d, p) = Len(t.elements) ->
            {Visit(t.elements[n], Append(p, Index(n)), FALSE) : n \in DOMAIN t.elements}
       [] OTHER -> {}

IsTooDeep(v) == Len(v.path) >= MaxDepth

\* The visits, level by level; below the depth limit nothing is visited.
Visits(types, d, root) ==
  LET Level(at) ==
        UNION {{Arrived(types, d, c) : c \in Children(types, d, v)} : v \in {u \in at : ~IsTooDeep(u)}}
      first == {Arrived(types, d, Visit(root, <<>>, FALSE))}
  IN FoldLeft(LAMBDA seen, n : seen \cup Level(seen), first, [n \in 1 .. MaxDepth |-> n])

\* What the walk of a node reports of the node itself.
IsRootRecord(v) == v.path = <<>> /\ ~v.inArm
RecordCodes(t, d, v) ==
  LET p == v.path
      known == UNION {Spellings(d, p, f) : f \in t.fields}
      exempt == IF IsRootRecord(v) THEN {"format_version"} ELSE {}
  IN {c \in {"MISSING_REQUIRED", "ALIAS_BOTH_PRESENT", "KEY_UNKNOWN"} :
        CASE c = "MISSING_REQUIRED" -> \E f \in t.fields : f.required /\ Spellings(d, p, f) = {}
          [] c = "ALIAS_BOTH_PRESENT" -> \E f \in t.fields : Cardinality(Spellings(d, p, f)) > 1
          [] c = "KEY_UNKNOWN" -> KeysOf(d, p) \ (known \cup exempt) # {}}

\* walkScalar, walkEnum, walkLiteral: the class is checked first.
ScalarCodes(t, d, p) ==
  IF ClassAt(d, p) # t.class THEN {"NOT_" \o t.class}
  ELSE IF d[p] \notin t.values THEN {"VALUE_OF_" \o t.class} ELSE {}

Codes(types, d, v) ==
  LET t == TypeNamed(types, v.type)
      p == v.path
  IN IF IsTooDeep(v) THEN {"DEPTH_EXCEEDED"}
     ELSE CASE t.kind = Record -> IF IsRecordAt(d, p) THEN RecordCodes(t, d, v) ELSE {"NOT_RECORD"}
          [] t.kind = "map" ->
               IF ~IsRecordAt(d, p) THEN {"NOT_MAP"}
               ELSE IF KeysOf(d, p) \subseteq t.keys THEN {} ELSE {"MAP_KEY"}
          [] t.kind = Array ->
               IF ~IsArrayAt(d, p) THEN {"NOT_ARRAY"}
               ELSE IF Length(d, p) \in t.lengths THEN {} ELSE {"ARRAY_LENGTH"}
          [] t.kind = "tuple" ->
               IF ~IsArrayAt(d, p) THEN {"NOT_TUPLE"}
               ELSE IF Length(d, p) = Len(t.elements) THEN {} ELSE {"TUPLE_ARITY"}
          [] t.kind = "scalar" -> ScalarCodes(t, d, p)
          [] t.kind = "literal" -> IF d[p] = t.value THEN {} ELSE {"NOT_LITERAL"}
          [] t.kind \in {"discriminated-union", "node-kind-union"} -> {"NO_ARM"}
          [] t.kind \in {"nullable", "opaque", "ref", "unknown"} -> {}

Diagnostic(code, path) == [code |-> code, path |-> path]
StructuralDiagnostics(types, d, visits) ==
  UNION {{Diagnostic(c, v.path) : c \in Codes(types, d, v)} : v \in visits}

-------------------------------------------------------------------------------
(***************************************************************************)
(* The constraints.                                                        *)
(***************************************************************************)
EvalCondition(d, p, when) ==
  LET at == Field(p, when.field)
      among == Has(d, at) /\ d[at] \in when.values
  IN CASE when.predicate = "present" -> Has(d, at)
       [] when.predicate = "absent"  -> ~Has(d, at)
       [] when.predicate \in {"equals", "in"} -> among
       [] when.predicate \in {"not-equals", "not-in"} -> Has(d, at) /\ ~among

Compared(c, v) == IF c.folded THEN Folded[v] ELSE v
IsString(d, p) == Has(d, p) /\ ClassAt(d, p) = "string"
IsNumber(d, p) == Has(d, p) /\ ClassAt(d, p) \in {"integer", "float"}
IsInteger(d, p) == Has(d, p) /\ ClassAt(d, p) = "integer"
PresentOf(d, p, names) == {k \in names : Has(d, Field(p, k))}
Strings(d, p) == IF IsArrayAt(d, p) THEN {q \in ItemPaths(d, p) : IsString(d, q)} ELSE {}
RecordItems(d, p) == IF IsArrayAt(d, p) THEN {q \in ItemPaths(d, p) : IsRecordAt(d, q)} ELSE {}

\* rangesDisjoint: an end is computed in the width of an integer.
Wrapped(n) == ((n + 2^(IntegerWidth - 1)) % 2^IntegerWidth) - 2^(IntegerWidth - 1)
RangesAt(d, p, c) ==
  {q \in RecordItems(d, p) : IsInteger(d, Field(q, c.start)) /\ IsInteger(d, Field(q, c.length))}
StartOf(d, q, c) == NumberOf[d[Field(q, c.start)]]
EndOf(d, q, c)   == Wrapped(StartOf(d, q, c) + NumberOf[d[Field(q, c.length)]])

\* rootKeyset: the keys of a map, the strings and the names of an array, of the root.
RootKeyset(d, name) ==
  LET p == Field(<<>>, name)
  IN IF IsRecordAt(d, p) THEN KeysOf(d, p)
     ELSE {d[q] : q \in Strings(d, p) \cup
             {Field(r, "name") : r \in {i \in RecordItems(d, p) : IsString(d, Field(i, "name"))}}}
\* intraReferences: what a reference names, which is a string, the strings of an array or
\* the keys of a map; or, of the form collection[].field, the strings at that field of the
\* elements of a collection of the root.
References(d, p) ==
  IF ~Has(d, p) THEN {}
  ELSE IF IsRecordAt(d, p) THEN KeysOf(d, p)
  ELSE {d[q] : q \in Strings(d, p) \cup {r \in {p} : IsString(d, r)}}
Projected(d, p, element) ==
  {d[q] : q \in {Field(r, element) : r \in {i \in RecordItems(d, p) : IsString(d, Field(i, element))}}}
Referred(d, p, c) ==
  IF c.element = "" THEN References(d, Field(p, c.reference)) ELSE Projected(d, Field(<<>>, c.reference), c.element)

\* countLimit, sumLimit: without evidence an aggregate is not asked about, and a sum is
\* refused when one document has no number to add.
Total(numbers) == FoldLeft(LAMBDA n, m : n + m, 0, numbers)
BeyondLimit(c, n) == IF c.compare = "<=" THEN n > c.limit ELSE n < c.limit
LacksNumber(e, field) == field \notin DOMAIN e \/ Class[e[field]] \notin {"integer", "float"}
SumFieldMissing(c) ==
  c.selection \in DOMAIN Evidence /\ \E e \in Range(Evidence[c.selection]) : LacksNumber(e, c.sum_field)
SumViolated(c) ==
  /\ c.selection \in DOMAIN Evidence
  /\ \/ SumFieldMissing(c)
     \/ LET summed == Evidence[c.selection]
        IN BeyondLimit(c, Total([i \in DOMAIN summed |-> NumberOf[summed[i][c.sum_field]]]))

\* The forms that runConstraints has no case for.
NeverRun == {"named-reference-must-resolve", "set-coverage", "cross-collection-unique"}

\* runConstraints
Violated(d, p, c) ==
  CASE c.form = "conditional-required" -> EvalCondition(d, p, c.when) /\ ~Has(d, Field(p, c.field))
    [] c.form = "forbidden-when"       -> EvalCondition(d, p, c.when) /\ Has(d, Field(p, c.field))
    [] c.form = "conditional-value" ->
         EvalCondition(d, p, c.when) /\ Has(d, Field(p, c.field)) /\ d[Field(p, c.field)] # c.value
    [] c.form = "exactly-one-of"   -> Cardinality(PresentOf(d, p, c.fields)) # 1
    [] c.form = "at-least-one-of"  -> PresentOf(d, p, c.fields) = {}
    [] c.form = "co-presence"      -> PresentOf(d, p, c.fields) \notin {{}, c.fields}
    [] c.form = "mutual-exclusion" -> Cardinality(PresentOf(d, p, c.fields)) > 1
    [] c.form = "collections-disjoint" ->
         \E q \in Strings(d, Field(p, c.left)), r \in Strings(d, Field(p, c.right)) :
           Compared(c, d[q]) = Compared(c, d[r])
    [] c.form = "unique-by" ->
         \E q, r \in {i \in RecordItems(d, Field(p, c.collection)) : IsString(d, Field(i, c.field))} :
           q # r /\ Compared(c, d[Field(q, c.field)]) = Compared(c, d[Field(r, c.field)])
    [] c.form = "pairwise-distinct" ->
         \E q, r \in Strings(d, Field(p, c.collection)) : q # r /\ Compared(c, d[q]) = Compared(c, d[r])
    [] c.form = "ranges-disjoint" ->
         \E q, r \in RangesAt(d, Field(p, c.collection), c) :
           q # r /\ StartOf(d, q, c) < EndOf(d, r, c) /\ StartOf(d, r, c) < EndOf(d, q, c)
    [] c.form = "ordered-pair" ->
         /\ IsNumber(d, Field(p, c.less)) /\ IsNumber(d, Field(p, c.than))
         /\ NumberOf[d[Field(p, c.less)]] >= NumberOf[d[Field(p, c.than)]]
    [] c.form = "intra-document-references" ->
         Has(d, Field(<<>>, c.into)) /\ Referred(d, p, c) \ RootKeyset(d, c.into) # {}
    [] c.form = "count-limit" ->
         c.selection \in DOMAIN Evidence /\ BeyondLimit(c, Len(Evidence[c.selection]))
    [] c.form = "sum-limit"   -> SumViolated(c)
    [] c.form \in NeverRun    -> FALSE
ConstraintCode(c) == IF c.form = "sum-limit" /\ SumFieldMissing(c) THEN "SUM_FIELD_MISSING" ELSE c.form

\* A mutant: of a document that is not clean no constraint is looked at, and of the
\* others only the root's.
CleanRootOnly(structural, p) == p = <<>> /\ structural = {}

\* A record's constraints run when the walk below it reported nothing.
IsClean(structural, p) == \A g \in structural : ~IsPrefix(p, g.path)

ConstraintDiagnostics(types, d, visits, structural) ==
  UNION {{Diagnostic(ConstraintCode(c), v.path) : c \in {k \in types[v.type].constraints : Violated(d, v.path, k)}} :
           v \in {u \in visits : /\ TypeNamed(types, u.type).kind = Record /\ IsRecordAt(d, u.path)
                                 /\ IsClean(structural, u.path)}}

-------------------------------------------------------------------------------
(***************************************************************************)
(* Execute.  The gate comes first, and what it refuses is not looked at.   *)
(***************************************************************************)
GateOpen(s, d) == Versioned(d) /\ VersionOf(d) = s.version

WithConstraints(types, d, visits, structural) ==
  structural \cup ConstraintDiagnostics(types, d, visits, structural)
Walked(types, d, visits) ==
  WithConstraints(types, d, visits, StructuralDiagnostics(types, d, visits))

Execute(s, d) ==
  IF GateOpen(s, d) THEN Walked(Types(s), d, Visits(Types(s), d, s.root))
  ELSE {Diagnostic("GATE", <<>>)}

ValidationInit ==
  /\ schema \in {s \in Schemas : SchemaAccepted(s)} /\ document \in FirstDocuments /\ edited = 0

EditDocument ==
  /\ edited < MaxDocumentEdits /\ edited' = edited + 1
  /\ \E op \in DocumentEdits : OpAllowed(document, op) /\ document' = OpResult(document, op)
  /\ UNCHANGED schema

ValidationNext == EditDocument

ValidationSpec == ValidationInit /\ [][ValidationNext]_validationVars

-------------------------------------------------------------------------------
(***************************************************************************)
(* Properties.                                                             *)
(***************************************************************************)
\* In a schema that was accepted no node could go to two arms: what is reported of any
\* document does not depend on the order its node-kind unions list their arms in.
Turned(types) ==
  [t \in DOMAIN types |-> IF types[t].kind = "node-kind-union"
                          THEN [types[t] EXCEPT !.arms = Reverse(types[t].arms)] ELSE types[t]]
ArmOrderIsImmaterial ==
  Execute(schema, document) = Execute([schema EXCEPT !.own = Turned(Types(schema))], document)
===============================================================================
