-------------------------------- MODULE Options --------------------------------
(***************************************************************************)
(* The options of a repository (go/strictspec, options.go and              *)
(* options_rules.go): a tool's registry of options, which require one      *)
(* another; the subject documents, whose entries say what an option is set *)
(* to and what it should be; and the rules a registry and a tool's         *)
(* namespace of entries are judged by.                                     *)
(*                                                                         *)
(* A ranking is a sequence of levels, strongest first, of values of equal  *)
(* rank, and <<>> is a string that is none.  An entry's id is its tool and *)
(* its option; its scope is "" when it has none; its reason is whether     *)
(* there is one.                                                           *)
(***************************************************************************)
EXTENDS Integers, FiniteSets, FiniteSetsExt, Sequences, SequencesExt

CONSTANTS
  Tool,             \* the tool that judges
  Registries,       \* the registries it may ship: sequences of declarations
  SubjectFiles,     \* the stems of the documents there may be, in name order
  WrittenEntries,   \* [id, scope, current, ideal, reason]: what a hand may write
  IllFormedNames,   \* the value names outside the grammar
  IllFormedStems,   \* the subjects that name no subject document
  MaxEntries        \* a bound

ASSUME RegistriesAreSequences == \A reg \in Registries : reg \in Seq(Range(reg))
ASSUME SubjectFilesAreListed == SubjectFiles \in Seq(Range(SubjectFiles))
ASSUME IdsArePairs           == \A e \in WrittenEntries : e.id = <<e.id[1], e.id[2]>>

VARIABLES
  registry,  \* the options the tool declares
  subjects,  \* per document its entries
  invalid    \* the documents that are not shape-valid

optionsVars == <<registry, subjects, invalid>>

Off         == "off"
NonExistent == "non-existent"
NoScope     == "none"

-------------------------------------------------------------------------------
(***************************************************************************)
(* Rankings.                                                               *)
(***************************************************************************)
ValuesDeclared(ranking) == UNION {Range(ranking[i]) : i \in DOMAIN ranking}
LevelOf(ranking, v) == CHOOSE i \in DOMAIN ranking : v \in Range(ranking[i])

RankingParses(ranking) ==
  /\ ranking # <<>>
  /\ IsInjective(FlattenSeq(ranking))
  /\ ValuesDeclared(ranking) \cap (IllFormedNames \cup {NonExistent}) = {}

-------------------------------------------------------------------------------
(***************************************************************************)
(* The registry.  Of two declarations of a name the first counts, and the  *)
(* requirements followed are those on other names it declares.             *)
(***************************************************************************)
Names(reg) == {reg[i].name : i \in DOMAIN reg}
Position(reg, n) == CHOOSE i \in DOMAIN reg : reg[i].name = n /\ \A j \in 1 .. i - 1 : reg[j].name # n
Declaration(reg, n) == reg[Position(reg, n)]
Edges(reg, n) == (Range(Declaration(reg, n).requires) \cap Names(reg)) \ {n}

\* A mutant: what a requirement itself requires is not followed.
ReachOnce(reg, n) == Edges(reg, n)

\* optionsReach
Reach(reg, n) ==
  FoldSet(LAMBDA m, seen : seen \cup UNION {Edges(reg, s) : s \in seen}, Edges(reg, n), Names(reg))

Dependents(reg, n) == {m \in Names(reg) : n \in Reach(reg, m)}

\* The cycles, each reported once, as the options that depend on one another.
CycleOf(reg, n) == {m \in Names(reg) : m = n \/ (m \in Reach(reg, n) /\ n \in Reach(reg, m))}
Cycles(reg) == {CycleOf(reg, n) : n \in {m \in Names(reg) : m \in Reach(reg, m)}}

DeclarationAccepted(reg, o) ==
  /\ RankingParses(o.values) /\ o.default \in ValuesDeclared(o.values)
  /\ o.subject \notin IllFormedStems
  /\ IsInjective(o.requires)
  /\ Range(o.requires) \subseteq Names(reg) \ {o.name}

RegistryAccepted(reg) ==
  /\ Cardinality(Names(reg)) = Len(reg)
  /\ \A i \in DOMAIN reg : DeclarationAccepted(reg, reg[i])
  /\ Cycles(reg) = {}

-------------------------------------------------------------------------------
(***************************************************************************)
(* The entries: those of the shape-valid documents.                        *)
(***************************************************************************)
LoadOptionsEntries ==
  UNION {{[file |-> f, index |-> i, entry |-> subjects[f][i]] : i \in DOMAIN subjects[f]} :
           f \in DOMAIN SubjectFiles \ invalid}

\* Of two entries with one id and scope the second is refused for it.
Earlier(g, e) == g.file < e.file \/ (g.file = e.file /\ g.index < e.index)
IsRepeated(e) ==
  \E g \in LoadOptionsEntries :
    Earlier(g, e) /\ g.entry.id = e.entry.id /\ g.entry.scope = e.entry.scope

IsOffIn(field, e) == e.entry[field] = Off

\* A mutant: what other entries set a dependent to does not count.
DependentOffByDefault(e, decl, field, dep) ==
  LET entries == {f \in LoadOptionsEntries : f.entry.id = <<Tool, dep>>}
      reaches(f) == f.entry.scope = "" \/ (f.entry.scope = e.entry.scope /\
                      Declaration(registry, dep).scope = decl.scope)
  IN \/ \E f \in entries : IsOffIn(field, f) /\ reaches(f)
     \/ Declaration(registry, dep).default = Off

\* missing, of one dependent, turned round: it is off too, by an entry that has no
\* scope or the same, or by its default when no entry says otherwise.
DependentOff(e, decl, field, dep) ==
  LET entries == {f \in LoadOptionsEntries : f.entry.id = <<Tool, dep>>}
      reaches(f) == f.entry.scope = "" \/ (f.entry.scope = e.entry.scope /\
                      Declaration(registry, dep).scope = decl.scope)
  IN \/ \E f \in entries : IsOffIn(field, f) /\ reaches(f)
     \/ Declaration(registry, dep).default = Off /\ \A f \in entries : IsOffIn(field, f)

DependentsOff(e, decl, field) ==
  IsOffIn(field, e) => \A dep \in Dependents(registry, decl.name) : DependentOff(e, decl, field, dep)

ValuesAccepted(entry, decl) ==
  /\ entry.current \in ValuesDeclared(decl.values)
  /\ entry.ideal \in ValuesDeclared(decl.values) \cup {NonExistent}
  /\ ~(entry.current = decl.default /\ entry.ideal = decl.default)
  /\ entry.ideal # NonExistent =>
       LevelOf(decl.values, entry.current) >= LevelOf(decl.values, entry.ideal)

OptionEntryAccepted(e) ==
  LET decl == Declaration(registry, e.entry.id[2])
  IN /\ ~IsRepeated(e) /\ e.entry.reason
     /\ e.entry.id[2] \in Names(registry)
     /\ SubjectFiles[e.file] = decl.subject
     /\ e.entry.scope # "" => decl.scope # NoScope
     /\ ValuesAccepted(e.entry, decl)
     /\ DependentsOff(e, decl, "current") /\ DependentsOff(e, decl, "ideal")

Namespace == {e \in LoadOptionsEntries : e.entry.id[1] = Tool}
NamespaceAccepted == \A e \in Namespace : OptionEntryAccepted(e)

-------------------------------------------------------------------------------
(***************************************************************************)
(* A repository: hands in the documents of a tool's options.               *)
(***************************************************************************)
OptionsInit ==
  /\ registry \in Registries
  /\ subjects = [f \in DOMAIN SubjectFiles |-> <<>>] /\ invalid = {}

Entered == Len(FlattenSeq(subjects))

WriteEntry ==
  \E f \in DOMAIN SubjectFiles, entry \in WrittenEntries :
    /\ RegistryAccepted(registry) /\ Entered < MaxEntries
    /\ subjects' = [subjects EXCEPT ![f] = Append(@, entry)]
    /\ UNCHANGED <<registry, invalid>>

SpoilDocument ==
  \E f \in DOMAIN SubjectFiles \ invalid :
    /\ subjects[f] # <<>>
    /\ invalid' = invalid \cup {f}
    /\ UNCHANGED <<registry, subjects>>

OptionsNext == WriteEntry \/ SpoilDocument
OptionsSpec == OptionsInit /\ [][OptionsNext]_optionsVars

-------------------------------------------------------------------------------
(***************************************************************************)
(* Properties.                                                             *)
(***************************************************************************)
Setting(field, n) ==
  LET entries == {e \in Namespace : e.entry.id = <<Tool, n>> /\ e.entry.scope = ""}
  IN IF entries = {} THEN Declaration(registry, n).default
     ELSE (CHOOSE e \in entries : TRUE).entry[field]

\* appendix-options.md: "Nothing is switched off silently".  In a namespace no entry of
\* which is refused, an option an entry switches off, or would ideally, has switched
\* off, by an entry of its own or by default, all that depends on it however far.
DependentsAreOffToo ==
  RegistryAccepted(registry) /\ NamespaceAccepted =>
    \A e \in {f \in Namespace : f.entry.scope = ""}, field \in {"current", "ideal"} :
      IsOffIn(field, e) =>
        \E off \in SUBSET Names(registry) :
          /\ e.entry.id[2] \in off
          /\ \A n \in off : Setting(field, n) = Off
          /\ \A i \in DOMAIN registry :
               Range(registry[i].requires) \cap off # {} => registry[i].name \in off

\* An accepted registry can be put in an order in which each option comes after what it
\* requires.  The cycles a refused one is told of share no option, and every ring of
\* requirements, long ones and ones that touch, runs through one of them.
RegistriesAreOrdered ==
  /\ RegistryAccepted(registry) =>
       \E rank \in [Names(registry) -> 1 .. Len(registry)] :
         \A i \in DOMAIN registry : \A r \in Range(registry[i].requires) :
           rank[r] < rank[registry[i].name]
  /\ \A c, d \in Cycles(registry) : c = d \/ c \cap d = {}
  /\ \A ring \in (SUBSET Names(registry)) \ {{}} :
       (\A n \in ring : Edges(registry, n) \cap ring # {}) =>
         \E c \in Cycles(registry) : c \cap ring # {}
===============================================================================
