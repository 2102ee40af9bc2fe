------------------------------ MODULE MCDocuments ------------------------------
(***************************************************************************)
(* Values for the components that work on documents and their schemas:     *)
(* validation, doc-diff, the migration ops, migrate and diff.  What a      *)
(* migrated document must be is what Execute accepts of the schema at the  *)
(* target version.                                                         *)
(***************************************************************************)
EXTENDS MigrateOps, MigrateCommand, Diffs, DocDiffs, MCSchemas

\* Types.
SpanFields == {Member("from", "number", TRUE, {}), Member("len", "number", FALSE, {}), Member("name", "text", TRUE, {})}
SpanType ==
  RecordOf(SpanFields,
           {[form |-> "ordered-pair", less |-> "from", than |-> "len"],
            [form |-> "conditional-required", when |-> When("from", "not-equals", {"1"}), field |-> "len"]})
MarkType ==
  RecordOf({Member("at", "number", FALSE, {}), Member("name", "text", FALSE, {}), Member("of", "text", FALSE, {})}, {})
MarksType ==
  ListOf("mark", 0 .. 3) @@
    [constraints |-> {[form |-> "unique-by", collection |-> "", field |-> "at", folded |-> FALSE]}]
ExtraType == RecordOf({}, {[form |-> "sum-limit", selection |-> "all", sum_field |-> "name", compare |-> "<=", limit |-> 9]})
ImportedTypes ==
  [text |-> Texts_, number |-> Numbers_, any |-> [kind |-> "opaque", stance |-> TRUE],
   note |-> LiteralType("note"), page |-> LiteralType("page"),
   texts |-> ListOf("text", 1 .. 2), pair |-> [kind |-> "tuple", elements |-> <<"text", "number">>],
   spans |-> ListOf("span", 0 .. 3), maybe |-> [kind |-> "nullable", inner |-> "spans"],
   noted |-> RecordOf({Member("kind", "note", TRUE, {}), Member("text", "text", TRUE, {"txt"})}, {}),
   paged |-> RecordOf({Member("kind", "page", TRUE, {}), Member("texts", "texts", FALSE, {})}, {}),
   shape |-> [kind |-> "discriminated-union", discriminator |-> "kind", arms |-> <<"noted", "paged">>],
   either |-> [kind |-> "node-kind-union", arms |-> <<"shapes", "textref", "texts">>],
   textref |-> Ref("text"),
   shapes |-> [kind |-> "map", keys |-> {"a", "b"}, value |-> "shape"],
   tree |-> RecordOf({Member("next", "tree", FALSE, {}), Member("it", "either", FALSE, {})}, {})]
RootConstraints ==
  {[form |-> "exactly-one-of", fields |-> {"spans", "either"}],
   [form |-> "unique-by", collection |-> "spans", field |-> "name", folded |-> TRUE],
   [form |-> "ranges-disjoint", collection |-> "spans", start |-> "from", length |-> "len"],
   [form |-> "intra-document-references", reference |-> "refs", element |-> "", into |-> "marks"],
   [form |-> "intra-document-references", reference |-> "marks", element |-> "of", into |-> "spans"],
   [form |-> "collections-disjoint", left |-> "refs", right |-> "either", folded |-> FALSE],
   [form |-> "pairwise-distinct", collection |-> "refs", folded |-> FALSE],
   [form |-> "forbidden-when", when |-> When("either", "absent", {}), field |-> "pair"],
   [form |-> "conditional-value", when |-> When("pair", "present", {}), field |-> "either", value |-> "a"],
   [form |-> "count-limit", selection |-> "all", compare |-> "<=", limit |-> 2],
   [form |-> "sum-limit", selection |-> "all", sum_field |-> "size", compare |-> "<=", limit |-> 3],
   [form |-> "sum-limit", selection |-> "none", sum_field |-> "size", compare |-> ">=", limit |-> 9],
   [form |-> "at-least-one-of", fields |-> {"spans", "either", "pair"}],
   [form |-> "co-presence", fields |-> {"pair", "refs"}],
   [form |-> "mutual-exclusion", fields |-> {"spans", "pair"}]}
RootType ==
  RecordOf({Member("spans", "maybe", FALSE, {"ranges"}), Member("either", "either", FALSE, {}),
            Member("refs", "texts", FALSE, {}), Member("pair", "pair", FALSE, {}),
            Member("tree", "tree", FALSE, {}), Member("any", "any", FALSE, {}),
            Member("marks", "marks", FALSE, {}), Member("extra", "extra", FALSE, {})}, RootConstraints)

\* Types of a schema that states, and accepts documents of, what the code overlooks.
PlainTypes ==
  [text |-> Texts_, number |-> [Numbers_ EXCEPT !.values = @ \cup {"0"}], texts |-> ListOf("text", 0 .. 2),
   date |-> [kind |-> "scalar", class |-> "date-local", values |-> {"may", "june"}], note |-> LiteralType("note"),
   any |-> [kind |-> "opaque", stance |-> TRUE], anys |-> ListOf("any", 0 .. 3),
   noted |-> RecordOf({Member("kind", "note", TRUE, {})}, {}),
   shape |-> [kind |-> "discriminated-union", discriminator |-> "kind", arms |-> <<"noted">>],
   either |-> [kind |-> "node-kind-union", arms |-> <<"shape", "texts">>],
   bare |-> RecordOf({Member("from", "number", FALSE, {}), Member("len", "number", FALSE, {}), Member("id", "any", TRUE, {})}, {}),
   bares |-> ListOf("bare", 0 .. 3)]
CoverType ==
  RecordOf({Member("names", "texts", FALSE, {}), Member("name", "text", FALSE, {})},
           {[form |-> "set-coverage", collection |-> "names", source |-> "all"],
            [form |-> "named-reference-must-resolve", reference |-> "names", element |-> "", source |-> "all"],
            [form |-> "cross-collection-unique", field |-> "name", source |-> "all"]})
PlainRoot ==
  RecordOf({Member("bares", "bares", FALSE, {}), Member("names", "texts", FALSE, {}), Member("links", "anys", FALSE, {}),
            Member("picks", "anys", FALSE, {}), Member("others", "anys", FALSE, {}), Member("choice", "either", FALSE, {}),
            Member("from", "date", FALSE, {}), Member("until", "date", FALSE, {}), Member("kept", "any", FALSE, {}),
            Member("cover", "cover", FALSE, {}), Member("lost", "tpyo", FALSE, {})},
           {[form |-> "ranges-disjoint", collection |-> "bares", start |-> "from", length |-> "len"],
            [form |-> "unique-by", collection |-> "bares", field |-> "id", folded |-> FALSE],
            [form |-> "pairwise-distinct", collection |-> "picks", folded |-> FALSE],
            [form |-> "collections-disjoint", left |-> "picks", right |-> "others", folded |-> FALSE],
            [form |-> "ordered-pair", less |-> "from", than |-> "until"],
            [form |-> "intra-document-references", reference |-> "links", element |-> "", into |-> "names"]})

\* Schemas: two that are accepted, the second of which names a type there is not; one with
\* a union two arms of which are one category; and one whose type-definition file states
\* constraints.
MCTypeFiles ==
  [small  |-> [types |-> ImportedTypes, imports |-> <<>>],
   plain  |-> [types |-> PlainTypes, imports |-> <<>>],
   strict |-> [types |-> ImportedTypes @@ ("span" :> SpanType), imports |-> <<>>]]
OwnTypes == [doc |-> RootType, span |-> SpanType, mark |-> MarkType, marks |-> MarksType, extra |-> ExtraType]
Ambiguous == [kind |-> "node-kind-union", arms |-> <<"noted", "shapes">>]
Importing(file) == <<[file |-> file, names |-> {}]>>
PlainSchema ==
  [Schema([doc |-> PlainRoot, cover |-> CoverType], Importing("plain")) EXCEPT !.version = "2"]
MCSchemas == {Schema(OwnTypes, FromSmall), PlainSchema,
              Schema(OwnTypes @@ [either |-> Ambiguous], FromSmall), Schema("doc" :> RootType, Importing("strict"))}

\* The documents of that schema, and what hands do to them.
SpanA == (<<>> :> Record) @@ (At("from") :> "1") @@ (At("len") :> "2") @@ (At("name") :> "a")
SpanB == (<<>> :> Record) @@ (At("from") :> "1") @@ (At("name") :> "b")
SpansDoc == PutElements(RootDoc, At("spans"), <<SpanA>>)
Mark(at, name) == (<<>> :> Record) @@ (At("at") :> at) @@ (At("name") :> name)
MarksDoc == PutElements(SpansDoc, At("marks"), <<Mark("1", "a") @@ (At("of") :> "a"), Mark("2", "b")>>)
TwoSpans == PutElements(RootDoc, At("spans"), <<SpanA, SpanB>>)
Shape == (<<>> :> Record) @@ (At("kind") :> "note") @@ (At("text") :> "b")
MapDoc == Put(Put(RootDoc, At("either"), <<>> :> Record), Field(At("either"), "a"), Shape)
TreeNode == (<<>> :> Record) @@ (At("it") :> "b")
PairDoc == Put(Put(Put(RootDoc, At("either"), <<>> :> "a"), At("pair"), ListOfTexts("a") @@ (<<Index(2)>> :> "1")),
               At("refs"), ListOfTexts("b"))
TreeDoc == PutElements(Put(PairDoc, At("tree"), TreeNode), At("marks"), <<Mark("1", "b")>>)
Bare(from, len, id) == (<<>> :> Record) @@ (At("from") :> from) @@ (At("len") :> len) @@ (At("id") :> id)
PlainFields ==
  [names |-> ListOfTexts("a"), links |-> ListOfTexts("a"), choice |-> ListOfTexts("a"), picks |-> ListOfTexts("a"),
   others |-> ListOfTexts("b"), kept |-> Put(<<>> :> Record, At("names"), ListOfTexts("b"))]
PlainHead == (<<>> :> Record) @@ (VersionPath :> "2")
PlainDoc ==
  PutElements(FoldSet(LAMBDA k, d : Put(d, At(k), PlainFields[k]), PlainHead, DOMAIN PlainFields),
              At("bares"), <<Bare("1", "1", "a")>>)
DatedDoc == PlainHead @@ (At("from") :> "may") @@ (At("until") :> "june")
MCFirstDocuments == {TwoSpans, SpansDoc, MarksDoc, MapDoc, TreeDoc, PlainDoc, DatedDoc, RootDoc, <<>> :> Array}

SpanAt(n, k) == Field(ItemAt(At("spans"), n), k)
MarkAt(n, k) == Field(ItemAt(At("marks"), n), k)
ShapeAt(k) == Field(Field(At("either"), "a"), k)
MCDocumentEdits ==
  {SetTo(VersionPath, "2"), Drop(VersionPath), SetTo(At("spans"), "null"), SetTo(At("either"), "null"),
   Renamed(At("spans"), "ranges"), AppendAt(At("spans"), SpanA), AppendAt(At("spans"), SpanB),
   [kind |-> "remove_where", path |-> At("spans"),
    where |-> [field |-> "name", predicate |-> "equals", values |-> {"a"}]],
   SetTo(SpanAt(1, "from"), "2"), SetTo(SpanAt(2, "from"), "3"), SetTo(SpanAt(2, "name"), "A"),
   Drop(SpanAt(1, "len")), Drop(SpanAt(2, "len")), Drop(SpanAt(2, "name")),
   AddAt(At("spans"), <<>> :> Array), AddAt(At("refs"), ListOfTexts("a")),
   SetTo(MarkAt(1, "at"), "2"), Drop(MarkAt(1, "at")), SetTo(MarkAt(1, "of"), "b"), Drop(At("marks")),
   AppendAt(At("marks"), Mark("3", "A")), SetTo(MarkAt(2, "name"), "a"),
   [kind |-> "remove_where", path |-> At("marks"),
    where |-> [field |-> "at", predicate |-> "equals", values |-> {"1"}]],
   AddAt(At("extra"), <<>> :> Record), AddAt(At("x"), <<>> :> "a"), AddAt(At("any"), MapDoc),
   SetTo(ShapeAt("kind"), "page"), SetTo(ShapeAt("kind"), "a"), Renamed(ShapeAt("text"), "txt"),
   AddAt(ShapeAt("text"), <<>> :> "a"), Renamed(Field(At("either"), "a"), "c"),
   SetTo(Field(At("tree"), "it"), "note"), AddAt(Field(At("tree"), "next"), TreeNode),
   AddAt(Field(Field(At("tree"), "next"), "next"), TreeNode),
   AppendAt(At("bares"), Bare("2", "0", "b")), AppendAt(At("bares"), (<<>> :> Record) @@ (At("id") :> "1")),
   AppendAt(At("picks"), <<>> :> "1"), AppendAt(At("others"), <<>> :> "1"), AppendAt(At("links"), <<>> :> "1"),
   SetTo(At("from"), "june"), SetTo(ItemAt(At("links"), 1), "b"), Drop(At("names")), Renamed(At("kept"), "lost"),
   Renamed(At("kept"), "cover"), [SetTo(At("choice"), "a") EXCEPT !.value = (<<>> :> Record) @@ (At("kind") :> "note")],
   SetTo(ItemAt(At("refs"), 1), "a"), SetTo(ItemAt(At("pair"), 2), "a"), AppendAt(At("pair"), <<>> :> "a")}

\* Documents to migrate: notes of three versions.
Title == At("title")
Name  == At("name")
Tags  == At("tags")
NoteOf(version, fields) == (<<>> :> Record) @@ (VersionPath :> version) @@ fields
V1 == NoteOf("1", Name :> "a")
V1Bare == NoteOf("1", <<>> :> Record)
V1Both == NoteOf("1", (Name :> "a") @@ (Title :> "b"))
V2 == NoteOf("2", Title :> "a")
V3 == Put(NoteOf("3", <<>> :> Record), Title, ListOfTexts("a"))
V3Two == Put(NoteOf("3", <<>> :> Record), Title, ListOfTexts("a") @@ (<<Index(2)>> :> "b"))
Unversioned == (<<>> :> Record) @@ (Name :> "a")
NoteTypes == [text |-> Texts_, texts |-> ListOf("text", 1 .. 2)]
NotesBefore ==
  [root |-> "note", version |-> "1", imports |-> <<>>,
   own |-> NoteTypes @@ ("note" :> RecordOf({Member("name", "text", TRUE, {}), Member("title", "text", FALSE, {})}, {}))]
Notes ==
  [root |-> "note", version |-> "3", imports |-> <<>>,
   own |-> NoteTypes @@ ("note" :> RecordOf({Member("title", "texts", TRUE, {})}, {}))]
MCAccepted(d) == Execute(Notes, d) = {}
MCAcceptedBefore(d) == Execute(NotesBefore, d) = {}

RenameOp(from, to, down) == [kind |-> "rename_field", from |-> from, to |-> to, down |-> down]
MoveOp(from, to) == [kind |-> "move_field", from |-> from, to |-> to]
WrapOp(p, down) == [kind |-> "wrap_in_array", path |-> p, down |-> down]
UnwrapOp(p) == [kind |-> "unwrap_singleton", path |-> p]
Migration(from, to, ops, downs) == [set |-> "notes", from |-> from, to |-> to, ops |-> ops, down_ops |-> downs]
M12 == Migration("1", "2", <<RenameOp(Name, Title, "total")>>, <<RenameOp(Title, Name, "")>>)
M23 == Migration("2", "3", <<WrapOp(Title, "total")>>, <<UnwrapOp(Title)>>)
M19 == Migration("1", "9", <<>>, <<>>)
M21 == Migration("2", "1", <<RenameOp(Title, Name, "irreversible")>>, <<>>)
M13 == Migration("1", "3", <<RenameOp(Name, Title, "total"), WrapOp(Title, "total")>>,
                 <<UnwrapOp(Title), RenameOp(Title, Name, "")>>)
M13Forgets == Migration("1", "3", <<RenameOp(Name, Title, "partial")>>, <<>>)
MCDocuments_ == <<"p", "q">>
MCDirectories == {<<M12, M23>>, <<M19, M12, M23>>, <<M21, M23, M12>>, <<M12, M21>>, <<M13Forgets>>}
FileOf(format, lines) == [format |-> format, lines |-> lines]
MCInitialFiles == {FileOf("json", <<V1>>), FileOf("json", <<V2>>), FileOf("jsonl", <<V1, V1Bare>>),
                   FileOf("jsonl", <<V1, V1>>)}
MCEditedFiles == {FileOf("json", <<V3>>), FileOf("json", <<Unversioned>>), FileOf("jsonl", <<V2, V2>>)}

\* A corpus and what may be adjudicated.
CorpusFile(p, d) == [path |-> p, readable |-> TRUE, document |-> d]
MCCorpusFiles ==
  {CorpusFile("a", V1), CorpusFile("b", V1Both), CorpusFile("c", V3), CorpusFile("d", V3Two),
   CorpusFile("e", V1Bare), [path |-> "f", readable |-> FALSE, document |-> V1]}
M23Misdated == [M13 EXCEPT !.from = "2"]
MCDiffMigrations == {M13, M13Forgets, M23Misdated}
Kinds == {"flip-scan", "migrate-round-trip-completeness", "migrate-round-trip-soundness", "down-taxonomy"}
MCAdjudications == {[entries |-> e] : e \in SUBSET Kinds}

\* Ops on one document.
Cond(p, values) == [field |-> "k", predicate |-> p, values |-> values]
SetWhere(cond, k) ==
  [kind |-> "set_value_where", path |-> Tags, where |-> cond, field |-> k, value |-> (<<>> :> "z")]
Tag(v) == (<<>> :> Record) @@ (At("k") :> v)
MCFirstTrees == {V1, PutElements(NoteOf("1", <<>> :> Record), Tags, <<Tag("a"), Tag("b"), <<>> :> "a">>)}
MCOps ==
  {RenameOp(Name, Title, ""), RenameOp(Tags, Name, ""), MoveOp(Tags, Field(ItemAt(Tags, 1), "t")),
   MoveOp(Name, Field(Tags, "n")), MoveOp(Title, Name), WrapOp(Name, ""), WrapOp(ItemAt(Tags, 1), ""), UnwrapOp(Name),
   SetTo(ItemAt(Tags, 3), "c"), AddAt(Title, <<>> :> "n"), AddAt(Tags, <<>> :> Record),
   [AddAt(Tags, <<>> :> Array) EXCEPT !.kind = "add_collection"], Drop(Name),
   [Drop(Tags) EXCEPT !.kind = "drop_collection"], AppendAt(Tags, <<>> :> "a"),
   [kind |-> "merge_defaults", path |-> <<>>, defaults |-> [k \in {"name", "title"} |-> "d"]],
   [kind |-> "remove_where", path |-> Tags, where |-> Cond("equals", {"a"})],
   [kind |-> "remove_where", path |-> Tags, where |-> Cond("absent", {})],
   SetWhere(Cond("not-in", {"z"}), "k"), SetWhere(Cond("present", {}), "m")}
===============================================================================
