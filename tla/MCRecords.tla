------------------------------- MODULE MCRecords -------------------------------
(***************************************************************************)
(* Values for the components that keep a repository's records: the         *)
(* lifecycle-and-license record, the resolutions of confidential hits, the *)
(* options, and the generated files.                                       *)
(***************************************************************************)
EXTENDS Lifecycle, Resolutions, Options, Generated

\* The record: two subjects, a name moved between versions, a license that closes.
Period(s, v, d) == [subject |-> s, value |-> v, from |-> d, until |-> 0]
Identity(v, reg, tags, d, version) ==
  [subject |-> "lib", facet |-> "package-name", value |-> v, registry |-> reg, tags |-> tags,
   from |-> d, until |-> 0, version |-> version]
MCDays == 1 .. 2
MCLifecyclePeriods == {Period("lib", "active", 1)}
MCLicensePeriods == {Period("lib", "proprietary", 1), Period("app", "proprietary", 2)}
MCIdentities == {Identity("a", "npm", {"v1"}, 1, ""), Identity("b", "npm", {"v1"}, 0, "2"),
                 Identity("a", "pypi", {}, 1, "")}
MCRegistryNames == {[registry |-> "npm", name |-> "a", subject |-> "lib"]}

\* The resolutions: a term in a path, in a line, before and after it is reworded.
Listed(k, f, m, x) ==
  [key |-> k, form |-> f, matches |-> m, reason |-> TRUE, everywhere |-> x = {}, except |-> x]
MCEntries == {Listed("acme", "term", {"acme"}, {}), Listed("ours", "term", {"plan"}, {"ours"}),
              Listed("any", "pattern", {"", "acme"}, {})}
MCTexts == {[where |-> <<"notes">>, lines |-> <<<<"acme", "plan">>>>],
            [where |-> <<"acme", "notes">>, lines |-> <<<<"acme", "plan">>, <<"at", "acme", "u1">>>>]}
MCReasons == {<<>>, <<"a", "word">>, <<"acme">>}

\* The options: three that require one another in every way, and registries at fault.
MCFiles == <<"build", "docs">>
OnOff == <<<<"on">>, <<"warn", "off">>>>
Declares(n, values, default, scope, requires) ==
  [name |-> n, subject |-> "build", values |-> values, default |-> default, scope |-> scope, requires |-> requires]
MCRegistries ==
  {<<Declares("a", OnOff, "on", "file", r1), Declares("b", OnOff, "off", "file", r2),
     Declares("c", OnOff, "on", "file", r3)>> :
     r1 \in {<<>>, <<"c">>}, r2 \in {<<"a">>, <<"c">>, <<"a", "c">>}, r3 \in {<<"a">>, <<"b">>, <<"a", "b">>}}
  \cup {<<Declares("a", OnOff, "on", NoScope, <<>>), Declares("b", OnOff, "on", "file", <<"a", "a">>)>>,
        <<Declares("a", OnOff, "on", NoScope, <<>>), Declares("b", OnOff, "on", "file", <<"x">>)>>,
        <<Declares("a", <<<<"on">>, <<"off", "on">>>>, "on", NoScope, <<>>)>>,
        <<Declares("a", OnOff, "dim", NoScope, <<>>)>>}
Sets(o, scope, current, ideal) ==
  [id |-> <<"t", o>>, scope |-> scope, current |-> current, ideal |-> ideal, reason |-> TRUE]
MCWrittenEntries ==
  {Sets("a", "", "off", "off"), Sets("a", "s", "off", "on"), Sets("b", "", "on", "on"),
   Sets("c", "", "off", "off"), Sets("c", "", "off", "non-existent"), Sets("c", "s", "off", "off")}

\* The generated files: an import from another directory, one that registers a scalar
\* another file registers too, outputs one of which is the end of another.
Source(imports, scalars) ==
  [authored |-> TRUE, imports |-> imports, scalars |-> scalars, removed |-> FALSE]
Unreadable == [Source({}, <<>>) EXCEPT !.authored = FALSE]
TargetOf(lang, o) == [lang |-> lang, output |-> o, package |-> "p"]
SchemaEntry(p, targets) == [path |-> p, targets |-> targets]
MCFirstManifests ==
  {[there |-> FALSE, schemas |-> <<>>],
   [there |-> TRUE, schemas |-> <<SchemaEntry("a", <<TargetOf("go", "x")>>)>>]}
MCManifestEdits ==
  {<<SchemaEntry("a", <<TargetOf("go", "x"), TargetOf("go", "sub/x")>>), SchemaEntry("b", <<TargetOf("go", "y")>>)>>,
   <<SchemaEntry("a", <<TargetOf("python", "x")>>)>>}
MCFirstSources ==
  {("a" :> Source({"types", "geo"}, <<>>)) @@ ("types" :> Source({}, "s" :> "r1"))
     @@ ("geo" :> Source({}, <<>>)) @@ ("scalars" :> Source({}, "s" :> "r2")) @@ ("b" :> Source({}, <<>>))}
MCSourceEdits ==
  {[file |-> "scalars", to |-> Source({}, "s" :> "r3")], [file |-> "a", to |-> Source({"types"}, <<>>)],
   [file |-> "types", to |-> Unreadable], [file |-> "m", to |-> Unreadable],
   [file |-> "scalars", to |-> [Source({}, <<>>) EXCEPT !.removed = TRUE]]}
MCFilesInOrder == <<"a", "b", "geo", "m", "scalars", "types">>
MCBeside == {"a", "b", "m", "scalars", "types"}
MCSuffixOf(p, q) == p = q \/ (p = "x" /\ q = "sub/x")

\* The instance meets what its theorems ask of the constants.
ASSUME PlaceholderIsFree == PlaceholderIsNoTerm
ASSUME ScalarsAreFound   == ScalarsAreBeside
===============================================================================
