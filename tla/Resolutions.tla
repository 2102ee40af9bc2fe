------------------------------ MODULE Resolutions ------------------------------
(***************************************************************************)
(* Confidential terms (go/confidential): the owner's list, found through   *)
(* the settings file; the matcher of the entries that apply to one         *)
(* repository; the hits it finds in a text; and the repository's file of   *)
(* resolutions, which two tools read and add to, and which a tool asks     *)
(* before it publishes.                                                    *)
(*                                                                         *)
(* A text is a name and lines of words, lowered; an entry is known by its  *)
(* key and by the words it matches.                                        *)
(***************************************************************************)
EXTENDS Integers, FiniteSets, FiniteSetsExt, Sequences, SequencesExt

CONSTANTS
  Tools,            \* the tools that resolve hits and publish
  Texts,            \* [where, lines]: what there may be to publish
  Entries,          \* [key, form, matches, reason, everywhere, except]: what the owner may list
  RepositoryNames,  \* the names of the repository: its directory's and its origin's
  Reasons,          \* what the agent or the owner may give as a reason
  Certainties,      \* percentages
  MinimumCertainty, \* below it a hit goes to the owner
  FollowingWords,   \* how many words after a match enter its id
  MaxListed, MaxJudged, MaxTampered, MaxTextEdits  \* bounds

ASSUME PercentagesAreNumbers == MinimumCertainty \in 1 .. 100 /\ Certainties \subseteq 1 .. 100
ASSUME TextsAreWords ==
  /\ \A t \in Texts : t.where \in Seq(STRING)
  /\ Reasons \subseteq Seq(STRING)

VARIABLES
  settings,    \* what the settings file names: "a list", or how it is wrong
  list,        \* the list: its state, "there", "missing" or "unreadable", and its entries
  text,        \* what is to be published
  store,       \* the resolutions in the file; a file that is not there holds none
  storeOwner,  \* the owner the directory's manifest names, or "none"
  tool,        \* per tool what it has read: its phase, entries and resolutions
  judged,      \* every resolution made, with the entries it was made under
  published,   \* the hits of what was published
  spent        \* how much of each bound is used

resolutionsVars == <<settings, list, text, store, storeOwner, tool, judged, published, spent>>

-------------------------------------------------------------------------------
(***************************************************************************)
(* The list.  parseScope and check: what Parse refuses.                    *)
(***************************************************************************)
EntryAccepted(e) ==
  /\ e.form \in {"term", "pattern"}
  /\ e.reason
  /\ e.everywhere <=> e.except = {}
  /\ e.matches # {} /\ "" \notin e.matches

ListAccepted(entries) == \A e \in entries : EntryAccepted(e)

EntriesFor(entries, names) == {e \in entries : e.except \cap names = {}}

\* Load: a list that does not exist holds no terms, and needs no identity.
ListLoads == list.state = "missing" \/ (list.state = "there" /\ ListAccepted(list.entries))

-------------------------------------------------------------------------------
(***************************************************************************)
(* Hits.                                                                   *)
(***************************************************************************)
Phrase(line, i)   == SubSeq(line, i, Min({i + FollowingWords, Len(line)}))
\* A mutant: the words after the match do not enter the id.
HitIDOfTheMatch(e, line, i) == <<e.key, <<line[i]>>>>

HitID(e, line, i) == <<e.key, Phrase(line, i)>>

Scan(entries, t) ==
  UNION {{[id |-> HitID(e, t.lines[l], i), entry |-> e.key, phrase |-> Phrase(t.lines[l], i),
            where |-> t.where, line |-> l] :
             i \in {j \in DOMAIN t.lines[l] : t.lines[l][j] \in e.matches}} :
           e \in entries, l \in DOMAIN t.lines}

Matched(entries) == UNION {e.matches : e \in entries}
CarriesATerm(entries, words) == Range(words) \cap Matched(entries) # {}
\* A mutant: the location is recorded as it is.
Unredacted(entries, words) == words

Redact(entries, words) ==
  [i \in DOMAIN words |-> IF words[i] \in Matched(entries) THEN "[confidential]" ELSE words[i]]

-------------------------------------------------------------------------------
(***************************************************************************)
(* Resolutions: NewFalsePositive, NewApproval, ParseResolutions.           *)
(***************************************************************************)
Approval == 0  \* an approval carries no certainty

NewResolution(entries, hit, certainty, reason) ==
  [hit |-> hit.id, location |-> Redact(entries, hit.where), certainty |-> certainty, reason |-> reason]

\* A mutant: a certainty is not read again from the file.
ResolutionFormed(r) == r.reason # <<>>

ResolutionAccepted(r) ==
  /\ r.certainty = Approval \/ r.certainty \in MinimumCertainty .. 100
  /\ r.reason # <<>>

StoreAccepted(rs) ==
  /\ \A r \in rs : ResolutionAccepted(r)
  /\ \A r, s \in rs : r.hit = s.hit => r = s

Unresolved(hits, rs) == {h \in hits : \A r \in rs : r.hit # h.id}
Resolving(h, rs)     == CHOOSE r \in rs : r.hit = h.id

-------------------------------------------------------------------------------
(***************************************************************************)
(* The tools.                                                              *)
(***************************************************************************)
Idle == [phase |-> "idle", entries |-> {}, resolutions |-> {}]

ResolutionsInit ==
  /\ settings \in {"a list", "no setting", "a relative path"} /\ list = [state |-> "missing", entries |-> {}]
  /\ text \in Texts
  /\ store = {} /\ storeOwner \in {"none", "another tool"}
  /\ tool = [c \in Tools |-> Idle]
  /\ judged = {} /\ published = {}
  /\ spent = [listed |-> 0, judged |-> 0, tampered |-> 0, texts |-> 0]

Spend(what) == spent' = [spent EXCEPT ![what] = @ + 1]

\* A tool starts: the settings name the list, the list loads, the file parses.
ReadAll(c) ==
  /\ tool[c].phase = "idle"
  /\ settings = "a list" /\ ListLoads /\ StoreAccepted(store)
  /\ tool' = [tool EXCEPT ![c] = [phase |-> "read", resolutions |-> store,
                                  entries |-> EntriesFor(list.entries, RepositoryNames)]]
  /\ UNCHANGED <<settings, list, text, store, storeOwner, judged, published, spent>>

\* AddResolution: the hit is not resolved in the resolutions the tool read; the
\* manifest is written first, and then the whole file.
Judge(c, hit, certainty, reason) ==
  LET r == NewResolution(tool[c].entries, hit, certainty, reason)
      all == tool[c].resolutions \cup {r}
  IN /\ tool[c].phase = "read" /\ spent.judged < MaxJudged
     /\ ResolutionAccepted(r) /\ ~CarriesATerm(tool[c].entries, reason)
     /\ Unresolved({hit}, tool[c].resolutions) # {} /\ StoreAccepted(all)
     /\ storeOwner # "another tool" /\ storeOwner' = "strictspec"
     /\ tool' = [tool EXCEPT ![c].phase = "adding", ![c].resolutions = all]
     /\ judged' = judged \cup {[entry |-> hit.entry, phrase |-> hit.phrase, entries |-> tool[c].entries,
                                location |-> r.location, reason |-> r.reason]}
     /\ Spend("judged")
     /\ UNCHANGED <<settings, list, text, store, published>>

JudgeOne(c) ==
  \E hit \in Scan(tool[c].entries, text), certainty \in Certainties \cup {Approval}, reason \in Reasons :
    Judge(c, hit, certainty, reason)

WriteStore(c) ==
  /\ tool[c].phase = "adding"
  /\ store' = tool[c].resolutions
  /\ tool' = [tool EXCEPT ![c] = Idle]
  /\ UNCHANGED <<settings, list, text, storeOwner, judged, published, spent>>

\* Outcome.Refusal: what a publishing step asks.  The tool writes what it scanned.
Publish(c) ==
  LET hits == Scan(tool[c].entries, text)
  IN /\ tool[c].phase = "read"
     /\ Unresolved(hits, tool[c].resolutions) = {}
     /\ published' = published \cup
          {[entry |-> h.entry, phrase |-> h.phrase, certainty |-> Resolving(h, tool[c].resolutions).certainty] :
             h \in hits}
     /\ tool' = [tool EXCEPT ![c] = Idle]
     /\ UNCHANGED <<settings, list, text, store, storeOwner, judged, spent>>

GiveUp(c) ==
  /\ tool[c].phase # "idle"
  /\ tool' = [tool EXCEPT ![c] = Idle]
  /\ UNCHANGED <<settings, list, text, store, storeOwner, judged, published, spent>>

\* The owner writes the list anew, encrypts it to another identity, or loses it.
ListAn(e) ==
  /\ list.state # "unreadable" /\ spent.listed < MaxListed /\ Spend("listed")
  /\ list' = [state |-> "there", entries |-> list.entries \cup {e}]
  /\ UNCHANGED <<settings, text, store, storeOwner, tool, judged, published>>
ListLost ==
  /\ list.state = "there" /\ spent.tampered < MaxTampered /\ Spend("tampered")
  /\ \E state \in {"missing", "unreadable"} : list' = [state |-> state, entries |-> {}]
  /\ UNCHANGED <<settings, text, store, storeOwner, tool, judged, published>>

\* A hand in the file of resolutions, which is only ever written by commands.
Tamper ==
  /\ spent.tampered < MaxTampered /\ Spend("tampered")
  /\ \E r \in store, certainty \in Certainties :
        store' = (store \ {r}) \cup {[r EXCEPT !.certainty = certainty]}
  /\ UNCHANGED <<settings, list, text, storeOwner, tool, judged, published>>

Rewrite ==
  /\ spent.texts < MaxTextEdits /\ Spend("texts")
  /\ text' \in Texts \ {text}
  /\ UNCHANGED <<settings, list, store, storeOwner, tool, judged, published>>

ResolutionsNext ==
  \/ \E c \in Tools : ReadAll(c) \/ JudgeOne(c) \/ WriteStore(c) \/ Publish(c) \/ GiveUp(c)
  \/ \E e \in Entries : ListAn(e)
  \/ ListLost \/ Tamper \/ Rewrite
ResolutionsSpec == ResolutionsInit /\ [][ResolutionsNext]_resolutionsVars

-------------------------------------------------------------------------------
(***************************************************************************)
(* Properties.                                                             *)
(***************************************************************************)
\* Every hit of what was published, by whichever tool and whatever additions the
\* tools overwrote, was judged for the very words it stands among, and the
\* resolution it was passed over by is an approval or certain enough, also when a
\* hand was in the file.
PublishedHitsWereJudged ==
  \A p \in published :
    /\ p.certainty = Approval \/ p.certainty >= MinimumCertainty
    /\ \E j \in judged : j.entry = p.entry /\ j.phrase = p.phrase

\* A fact of the constants: no entry matches what a term is replaced by.
PlaceholderIsNoTerm == \A e \in Entries : "[confidential]" \notin e.matches

\* No resolution, committed to the repository it protects, carries a term of the
\* entries it was made under.
NoTermIsCommitted ==
  \A j \in judged : ~CarriesATerm(j.entries, j.location \o j.reason)
===============================================================================
