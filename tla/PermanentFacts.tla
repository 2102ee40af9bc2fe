---- MODULE PermanentFacts ----
(***************************************************************************)
(* What the permanent rules of a repository's record promise, whatever     *)
(* tools and hands do to the file: a ledger of facts.  Facts are entered,  *)
(* never taken out and never changed, and no two of them contradict each   *)
(* other.  Lifecycle implements it (ReleasesAreALedger).                   *)
(***************************************************************************)
CONSTANT Contradict(_, _)  \* whether two facts cannot both be so

VARIABLE facts

Consistent(entered) == \A f, g \in entered : ~Contradict(f, g)

NothingEntered == facts = {}

Enter ==
  /\ facts \subseteq facts'
  /\ Consistent(facts')

OnlyEntered == NothingEntered /\ [][Enter]_facts
====
