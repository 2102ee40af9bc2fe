--------------------------------- MODULE Diffs ---------------------------------
(***************************************************************************)
(* strictspec diff (go/internal/diffeng, diffHandler): two schemas, a      *)
(* migration between them or none, and a corpus of documents; the claims   *)
(* made of them, the certificate, and the adjudications that discharge     *)
(* what the corpus does not support.                                       *)
(***************************************************************************)
EXTENDS Migrations

CONSTANTS
  AcceptedBefore(_), \* external: whether the old schema accepts a document
  CorpusFiles,       \* [path, readable, document]: what a corpus may hold
  CorpusSize,        \* how many of them at most: a bound
  DiffMigrations,    \* what --migration may name
  OldVersions,       \* the versions of the old schema
  Adjudications      \* what --adjudication may name, or no entries

\* The gate of Execute: what a schema accepts states the schema's version, and the new
\* schema is one, at TargetVersion.
ASSUME ValidityIsGated ==
  \A f \in CorpusFiles :
    /\ AcceptedBefore(f.document) => Versioned(f.document)
    /\ \A m \in DiffMigrations :
         LET up == ApplyUp(m, f.document)
         IN up.ok /\ Accepted(up.document) => VersionOf(up.document) = TargetVersion

VARIABLES
  asked,   \* what the command was asked
  verdict  \* its certificate, and its exit code once that is adjudicated

diffVars == <<asked, verdict>>

NoMigration == [set |-> "", from |-> "", to |-> "", ops |-> <<>>, down_ops |-> <<>>]
NoVerdict   == [claims |-> {}, exit |-> -1]
HasMigration == asked.migration.set # ""

-------------------------------------------------------------------------------
(***************************************************************************)
(* The corpus.  A file that cannot be read, or parsed as one document, as  *)
(* a JSONL stream cannot, is valid under no schema.                        *)
(***************************************************************************)
ValidOld(f) == f.readable /\ AcceptedBefore(f.document)
ValidNew(f) == f.readable /\ Accepted(f.document)
CorpusAtOld == {f \in asked.corpus : ValidOld(f)}
CorpusAtNew == {f \in asked.corpus : ValidNew(f)}

-------------------------------------------------------------------------------
(***************************************************************************)
(* The claims.  Without a migration one is made of no document.            *)
(***************************************************************************)
Claim(kind, tried, Refuted(_)) ==
  LET counterexamples == {f.path : f \in {g \in tried : Refuted(g)}}
  IN [kind |-> kind, supported |-> tried # {}, counterexamples |-> counterexamples,
      grade |-> IF counterexamples = {} THEN "corpus-supported" ELSE "violated"]

FlipScan == Claim("flip-scan", CorpusAtOld, LAMBDA f : ~ValidNew(f))

Up(f)   == ApplyUp(asked.migration, f.document)
Down(f) == ApplyDown(asked.migration, f.document)
WithMigration(corpus) == IF HasMigration THEN corpus ELSE {}

Completeness ==
  Claim("migrate-round-trip-completeness", WithMigration(CorpusAtOld), LAMBDA f : ~Up(f).ok)

\* A mutant: what comes of a document is validated as what it was.
SoundnessBefore ==
  Claim("migrate-round-trip-soundness", {f \in WithMigration(CorpusAtOld) : Up(f).ok},
        LAMBDA f : ~AcceptedBefore(f.document))

Soundness ==
  Claim("migrate-round-trip-soundness", {f \in WithMigration(CorpusAtOld) : Up(f).ok},
        LAMBDA f : ~Accepted(Up(f).document))

\* Only a declaration of "total" can be disproved.
DownTaxonomy ==
  LET declared == DeclaredTaxonomy(asked.migration)
  IN Claim("down-taxonomy", WithMigration(IF declared = "irreversible" THEN {} ELSE CorpusAtNew),
           LAMBDA f : declared = "total" /\ ~Down(f).ok)

\* diffHandler: the flag, or one version of both schemas and no migration.
SameVersion == asked.same_version \/ (~HasMigration /\ asked.old_version = TargetVersion)

Claims == IF SameVersion THEN {FlipScan} ELSE {Completeness, Soundness, DownTaxonomy}

-------------------------------------------------------------------------------
(***************************************************************************)
(* Adjudicate: an entry is matched by the claim's kind and its statement,  *)
(* which the kind fixes.                                                   *)
(***************************************************************************)
Unsupported(claims) == {c \in claims : c.grade = "corpus-supported" /\ ~c.supported}
Discharged(claims, entries) == {c \in Unsupported(claims) : c.kind \in entries}
Dangling(claims, entries)   == entries \ {c.kind : c \in Unsupported(claims)}

\* A mutant: the claims no document is a witness of are let through.
BlocksOnWitness(claims, entries) ==
  (\E c \in claims : c.grade = "violated") \/ Dangling(claims, entries) # {}

Blocks(claims, entries) ==
  \/ \E c \in claims : c.grade = "violated"
  \/ Discharged(claims, entries) # Unsupported(claims)
  \/ Dangling(claims, entries) # {}

DiffInit ==
  /\ asked \in [corpus: {c \in SUBSET CorpusFiles : Cardinality(c) \in 1 .. CorpusSize},
                migration: DiffMigrations \cup {NoMigration}, old_version: OldVersions,
                same_version: BOOLEAN, adjudication: Adjudications]
  /\ verdict = NoVerdict

\* Run, and then Adjudicate: no claim is made but of what was asked.
Certify ==
  /\ verdict = NoVerdict /\ verdict' = [NoVerdict EXCEPT !.claims = Claims]
  /\ UNCHANGED asked
Adjudicate ==
  /\ verdict.claims # {} /\ verdict.exit = NoVerdict.exit
  /\ verdict' = [verdict EXCEPT !.exit = IF Blocks(verdict.claims, asked.adjudication.entries) THEN 1 ELSE 0]
  /\ UNCHANGED asked

DiffNext == Certify \/ Adjudicate
DiffSpec == DiffInit /\ [][DiffNext]_diffVars

-------------------------------------------------------------------------------
(***************************************************************************)
(* Properties.                                                             *)
(***************************************************************************)
Green == verdict.exit = 0

\* What a run of strictspec migrate makes of a file of the corpus in a directory that has
\* this migration.
Carried(f) == MigrateFile(<<asked.migration>>, <<f.document>>)

\* The versions the migration is for; diff never looks whether they are the documents'.
IsItsSource(f) ==
  asked.migration.from = VersionOf(f.document) /\ VersionOf(f.document) # TargetVersion

\* What strictspec diff lets through, a run of strictspec migrate that has this migration
\* carries out: of the documents of the corpus valid at the old version it refuses none
\* that is of the version the migration is from, neither for want of a chain nor for what
\* an op or the new schema says; and where "total" is declared none of those valid at the
\* new version is refused by the inverse.
GreenCorporaMigrate ==
  Green /\ HasMigration /\ ~SameVersion =>
    /\ \A f \in CorpusAtOld : IsItsSource(f) => Carried(f).ok
    /\ DeclaredTaxonomy(asked.migration) = "total" => \A f \in CorpusAtNew : Down(f).ok

\* DESIGN.md: "The green light is `corpus-supported` over the consumer's DECLARED AT-REST
\* CORPUS (the documents the migration will actually meet)".  A migration from another
\* version is let through too, and meets none of them: migrate finds no chain.
GreenCorporaAreMet ==
  Green /\ HasMigration /\ ~SameVersion => \A f \in CorpusAtOld : Carried(f).ok

\* At one version nothing that was valid is rejected by what is let through, and
\* what no document is a witness of was adjudicated, claim by claim.
GreenIsEarned ==
  Green =>
    /\ SameVersion => CorpusAtOld \subseteq CorpusAtNew
    /\ \A c \in verdict.claims : c.supported \/ c.kind \in asked.adjudication.entries
===============================================================================
