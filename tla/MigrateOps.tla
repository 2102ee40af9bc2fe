------------------------------ MODULE MigrateOps -------------------------------
(***************************************************************************)
(* The ops applied one after another to one document, as the ops of a      *)
(* migration are (go/internal/migrate, ApplyUp and ApplyDown).             *)
(***************************************************************************)
EXTENDS Migrations

CONSTANTS
  FirstTrees,  \* the documents it begins with
  Ops,         \* the ops that may be applied
  MaxOps       \* how many are: a bound

KnownOps == {"add_field", "remove_field", "rename_field", "move_field", "set_value",
  "set_value_where", "wrap_in_array", "unwrap_singleton", "add_collection",
  "drop_collection", "append", "merge_defaults", "remove_where"}

\* What a migration file states of an op, parsed.
OpIsWellFormed(op) ==
  /\ op.kind \in KnownOps
  /\ CASE op.kind \in {"rename_field", "move_field"} -> op.from \in NodePaths /\ op.to \in NodePaths
       [] OTHER -> op.path \in NodePaths
  /\ op.kind \in {"set_value", "add_field", "add_collection", "append"} => IsTree(op.value)
  /\ op.kind = "merge_defaults"  => DOMAIN op.defaults \subseteq STRING
  /\ op.kind = "set_value_where" => op.field \in STRING

ASSUME DocumentsAreTrees == \A d \in FirstTrees : IsTree(d)
ASSUME OpsAreWellFormed  == \A op \in Ops : OpIsWellFormed(op)

VARIABLES
  tree,    \* the document
  applied  \* how many ops were applied

opsVars == <<tree, applied>>

OpsInit == tree \in FirstTrees /\ applied = 0

ApplyOp ==
  \E op \in Ops :
    /\ applied < MaxOps /\ applied' = applied + 1
    /\ OpAllowed(tree, op) /\ tree' = OpResult(tree, op)

OpsNext == ApplyOp

OpsSpec == OpsInit /\ [][OpsNext]_opsVars

-------------------------------------------------------------------------------
(***************************************************************************)
(* The ops that have an inverse among the ops: what an author writes under *)
(* down_ops for a migration declared "total".  A rename keeps the parent,  *)
(* so its inverse is of the field as it was renamed.                       *)
(***************************************************************************)
AddsCollection(op) == op.kind = "add_collection" /\ op.value[<<>>] = Array
Invertible == {op \in Ops : AddsCollection(op) \/ op.kind \in
  {"rename_field", "move_field", "wrap_in_array", "unwrap_singleton", "add_field"}}

InverseOf(op) ==
  CASE op.kind = "rename_field"     -> [kind |-> "rename_field", from |-> RenamedPath(op), to |-> op.from]
    [] op.kind = "move_field"       -> [kind |-> "move_field", from |-> op.to, to |-> op.from]
    [] op.kind = "wrap_in_array"    -> [kind |-> "unwrap_singleton", path |-> op.path]
    [] op.kind = "unwrap_singleton" -> [kind |-> "wrap_in_array", path |-> op.path]
    [] op.kind = "add_field"        -> [kind |-> "remove_field", path |-> op.path]
    [] op.kind = "add_collection"   -> [kind |-> "drop_collection", path |-> op.path]

\* An op that was not refused is undone by its inverse, whatever ops came before: it
\* never writes over, drops or moves anything but what it names.
InversesRestore ==
  \A op \in Invertible :
    OpAllowed(tree, op) =>
      LET made == OpResult(tree, op)
      IN OpAllowed(made, InverseOf(op)) /\ OpResult(made, InverseOf(op)) = tree
===============================================================================
