------------------------------- MODULE DeclLoad --------------------------------
(***************************************************************************)
(* Load and LoadForImport (go/declarations/load.go): what is checked       *)
(* across the files of a declaration directory, and which of the slots     *)
(* their resource types give are kept.  What a loaded set is, LoadChecked  *)
(* of Declarations, is here a result.                                      *)
(*                                                                         *)
(* A file is the resource it declares, decoded: [fields, children,         *)
(* unmanaged].  Files a schema refuses and companions are left out, and so *)
(* is what only a bug in Decode gives.                                     *)
(***************************************************************************)
EXTENDS Declarations

CONSTANTS
  SlotsGiven(_, _),  \* external, ResourceType.Slots: the slots of a resource and its file,
                     \* [name, target, field, col, match, yields, reads, gives]
  Derivable,         \* [ResourceTypes -> set of fields]: Descriptor.DerivableFields
  Written,           \* [Resources -> the files hands may write]
  NotImporting,      \* no resource
  MaxWrites          \* a bound

VARIABLES
  declarations,   \* the declaration directory: of each resource declared its file
  loaded,         \* the last load: [set, importing], or NotLoaded
  writes          \* how often a hand wrote

loadVars == <<declarations, loaded, writes>>

NotLoaded == [set |-> [resources |-> <<>>, slots |-> {}], importing |-> NotImporting, ok |-> FALSE]

-------------------------------------------------------------------------------
(***************************************************************************)
(* Each file for itself: parseUnmanaged, checkItems, and the references.   *)
(***************************************************************************)
Compatible(m, n) == \A f \in DOMAIN m \cap DOMAIN n : m[f] \cap n[f] # {}

UnmanagedFormed(r, file) ==
  \A u \in file.unmanaged :
    /\ u.col \in CollectionsOf(r) /\ DOMAIN u.match # {}
    /\ DOMAIN u.match \subseteq Key[u.col] \cup ItemFields[u.col]

ChildrenFormed(r, file) ==
  \A col \in CollectionsOf(r) : \A it \in file.children[col] :
    /\ KeyFields(col, it) \subseteq DOMAIN it
    /\ \A jt \in file.children[col] \ {it} : ItemKey(col, it) # ItemKey(col, jt)

ReferencesResolve(tree, r) ==
  \A x \in ReferencesIn(DeclaredValues([resources |-> tree], r)) :
    x \in ExposedValues /\ ExposedBy[x] \in DOMAIN tree

-------------------------------------------------------------------------------
(***************************************************************************)
(* Slots.  checkSlot refuses those a resource type got wrong.  One that    *)
(* yields to the type of another covering what it covers is dropped, and   *)
(* of those that yield to each other none.                                 *)
(***************************************************************************)
Cause(r, s) ==
  [name |-> s.name, source |-> r, target |-> s.target, field |-> s.field, col |-> s.col,
   match |-> s.match, yields |-> s.yields, reads |-> s.reads, gives |-> s.gives]
Causes(tree) == UNION {{Cause(r, s) : s \in SlotsGiven(r, tree[r])} : r \in DOMAIN tree}

\* A mutant: a slot matches any fields of its children.
SlotFormedLoosely(s) ==
  /\ s.target \in Resources /\ IsFieldSlot(s) # (s.col # "")
  /\ IF IsFieldSlot(s) THEN s.field \in Derivable[TypeOf[s.target]]
     ELSE /\ s.col \in CollectionsOf(s.target)
          /\ DOMAIN s.match \subseteq Key[s.col] \cup ItemFields[s.col]

SlotFormed(s) ==
  /\ s.target \in Resources /\ IsFieldSlot(s) # (s.col # "")
  /\ IF IsFieldSlot(s) THEN s.field \in Derivable[TypeOf[s.target]]
     ELSE s.col \in CollectionsOf(s.target) /\ DOMAIN s.match \subseteq Key[s.col]

\* Two slots of a target that could give one field or child.
Contend(a, b) == a # b /\ a.target = b.target /\ Overlap(a, b)

\* A mutant: a slot yields also to one that yields to it.
YieldsEvenBack(a, b) == Contend(a, b) /\ TypeOf[b.source] \in a.yields

GivesWay(a, b) ==
  Contend(a, b) /\ TypeOf[b.source] \in a.yields /\ TypeOf[a.source] \notin b.yields

Kept(causes) == {a \in causes : \A b \in causes : ~GivesWay(a, b)}

-------------------------------------------------------------------------------
(***************************************************************************)
(* Set.check, over the slots kept.                                         *)
(***************************************************************************)
NoneContend(slots) == \A a, b \in slots : ~Contend(a, b)

DeclaredIsNotDerived(tree, s) ==
  s.target \in DOMAIN tree =>
    IF IsFieldSlot(s) THEN s.field \notin DOMAIN tree[s.target].fields
    ELSE \A it \in tree[s.target].children[s.col] : ~MatchesAll(it, s.match)

\* A mutant: an unmanaged entry is compared with the children of the file only.
UnmanagedIsNotDeclared(tree, slots, r) ==
  \A u \in tree[r].unmanaged : \A it \in tree[r].children[u.col] : ~MatchesAll(it, u.match)

UnmanagedIsNoOnes(tree, slots, r) ==
  \A u \in tree[r].unmanaged :
    /\ \A it \in tree[r].children[u.col] : ~MatchesAll(it, u.match)
    /\ \A s \in slots : s.target = r /\ s.col = u.col => ~Compatible(u.match, s.match)

DerivableAreSupplied(tree, slots, r) ==
  \A f \in Derivable[TypeOf[r]] :
    f \in DOMAIN tree[r].fields \/ \E s \in slots : s.target = r /\ s.field = f

\* A slot's target is declared, or is the resource being imported.
SlotAccepted(tree, importing, s) == SlotFormed(s) /\ s.target \in DOMAIN tree \cup {importing}

Accepts(tree, importing) ==
  /\ \A r \in DOMAIN tree :
       UnmanagedFormed(r, tree[r]) /\ ChildrenFormed(r, tree[r]) /\ ReferencesResolve(tree, r)
  /\ \A s \in Causes(tree) : SlotAccepted(tree, importing, s)
  /\ LET kept == Kept(Causes(tree))
     IN /\ NoneContend(kept)
        /\ \A s \in kept : DeclaredIsNotDerived(tree, s)
        /\ \A r \in DOMAIN tree : UnmanagedIsNoOnes(tree, kept, r) /\ DerivableAreSupplied(tree, kept, r)

-------------------------------------------------------------------------------
(***************************************************************************)
(* Hands write and remove files; a command loads them.                     *)
(***************************************************************************)
LoadInit == declarations = <<>> /\ loaded = NotLoaded /\ writes = 0

Hand(tree) == declarations' = tree /\ loaded' = NotLoaded /\ writes < MaxWrites /\ writes' = writes + 1

WriteFile == \E r \in Resources : \E file \in Written[r] : Hand(With(declarations, r, file))

RemoveFile == \E r \in DOMAIN declarations : Hand(Restrict(declarations, DOMAIN declarations \ {r}))

Load ==
  \E importing \in Resources \cup {NotImporting} :
    /\ Accepts(declarations, importing)
    /\ loaded' = [set |-> [resources |-> declarations, slots |-> Kept(Causes(declarations))],
                  importing |-> importing, ok |-> TRUE]
    /\ UNCHANGED <<declarations, writes>>

LoadNext == WriteFile \/ RemoveFile \/ Load
LoadSpec == LoadInit /\ [][LoadNext]_loadVars

-------------------------------------------------------------------------------
(***************************************************************************)
(* Properties.                                                             *)
(***************************************************************************)
\* What a resource type derives has its key and matches its slot (checkDerived refuses
\* the rest).
DerivationsMatch ==
  \A r \in Resources : \A file \in Written[r] : \A s \in SlotsGiven(r, file) :
    ~IsFieldSlot(s) =>
      \A it \in s.gives : KeyFields(s.col, it) \subseteq DOMAIN it /\ MatchesAll(it, s.match)

\* A set that Load accepts is one the engine can compare and apply, and all of it that
\* import loosens is where the slots of the imported resource lead.
LoadedSetsAreChecked ==
  LET set == loaded.set
  IN /\ LoadChecked([resources |-> set.resources,
                     slots |-> {s \in set.slots : s.target \in Declared(set)}])
     /\ \A s \in set.slots : s.target \in Declared(set) \cup {loaded.importing}

\* DESIGN.md: "Every field has one owning file", and the comment in checkSlot: because
\* slots match key fields only, no child's key is both declared and derived, or derived
\* twice, and none derived is left to others, whatever else the children hold.
EverythingHasOneSource ==
  LET set == loaded.set IN
  \A s \in set.slots :
    /\ IsFieldSlot(s) =>
         \A t \in set.slots \ {s} : t.target # s.target \/ t.field # s.field
    /\ ~IsFieldSlot(s) => \A it \in s.gives :
         /\ \A t \in set.slots \ {s} : t.target = s.target /\ t.col = s.col =>
              \A jt \in t.gives : ItemKey(s.col, it) # ItemKey(s.col, jt)
         /\ s.target \in Declared(set) =>
              /\ \A jt \in set.resources[s.target].children[s.col] :
                   ItemKey(s.col, it) # ItemKey(s.col, jt)
              /\ \A u \in set.resources[s.target].unmanaged :
                   u.col = s.col => ~MatchesAll(it, u.match)

\* DESIGN.md: "one fixed owner rule decides which file owns a record two services would
\* derive".  Of two slots that could give one child exactly one is kept, save where a
\* third is in it: the one that is given way to may give way to that itself.
ContendersLeaveOneOwner ==
  loaded.ok =>
    LET causes == Causes(declarations) IN
    \A a, b \in causes : Contend(a, b) =>
      \/ Cardinality({a, b} \cap Kept(causes)) = 1
      \/ \E c \in causes \ {a, b} : GivesWay(a, c) \/ GivesWay(b, c)
===============================================================================
