------------------------------- MODULE MCSchemas -------------------------------
(***************************************************************************)
(* The words the values of schemas, documents and edits are written in,    *)
(* and the scalars there are.                                              *)
(***************************************************************************)
EXTENDS Conformance

\* Scalars.
MCClass ==
  [v \in {"a", "A", "b", "c", "d", "n", "z", "1", "2", "3", "9", "0", "may", "june", "null", "note", "page"} |->
     CASE v \in {"0", "1", "2", "3", "9"} -> "integer" [] v \in {"may", "june"} -> "date-local"
       [] v = "null" -> "null" [] OTHER -> "string"]
MCNumberOf ==
  [v \in {"0", "1", "2", "3", "9", "may", "june"} |->
     CASE v = "0" -> 0 [] v = "1" -> 1 [] v = "2" -> 2 [] v = "3" -> 3 [] v = "9" -> 9
       [] v = "may" -> 5 [] v = "june" -> 6]
MCFolded == [v \in DOMAIN MCClass |-> IF v = "A" THEN "a" ELSE v]
MCEvidence == [c \in {"all"} |-> <<[size |-> "1", name |-> "a"], [size |-> "2"]>>]

\* Types, and their schemas.
Texts_ == [kind |-> "scalar", class |-> "string", values |-> {"a", "A", "b"}]
Numbers_ == [kind |-> "scalar", class |-> "integer", values |-> {"1", "2", "3"}]
LiteralType(v) == [kind |-> "literal", value |-> v]
Ref(t) == [kind |-> "ref", to |-> t]
Member(n, t, required, aliases) == [name |-> n, type |-> t, required |-> required, aliases |-> aliases]
RecordOf(fields, constraints) == [kind |-> Record, fields |-> fields, constraints |-> constraints]
ListOf(t, lengths) == [kind |-> Array, item |-> t, lengths |-> lengths]
When(f, p, vs) == [field |-> f, predicate |-> p, values |-> vs]
FromSmall == <<[file |-> "small", names |-> {"text"}]>>
Schema(own, imports) == [root |-> "doc", version |-> "1", own |-> own, imports |-> imports]

\* Documents, and what hands do to them.
At(k) == Field(<<>>, k)
ItemAt(p, n) == Append(p, Index(n))
RootDoc == (<<>> :> Record) @@ (VersionPath :> "1")
ListOfTexts(v) == (<<>> :> Array) @@ (<<Index(1)>> :> v)
SetTo(p, v) == [kind |-> "set_value", path |-> p, value |-> (<<>> :> v)]
AddAt(p, v) == [kind |-> "add_field", path |-> p, value |-> v]
Drop(p) == [kind |-> "remove_field", path |-> p]
AppendAt(p, v) == [kind |-> "append", path |-> p, value |-> v]
Renamed(p, k) == [kind |-> "rename_field", from |-> p, to |-> Field(Front(p), k)]
===============================================================================
