---------------------------- MODULE Documents_proofs ---------------------------
(***************************************************************************)
(* Theorems of documents.  A document stays a tree whatever ops are        *)
(* applied to it, and an op that was not refused is undone by its inverse. *)
(* What validation reports of a document does not depend on the order an   *)
(* accepted schema's unions list their arms in.                            *)
(***************************************************************************)
EXTENDS MigrateOps, Validation, SequenceTheorems, FiniteSetTheorems, TLAPS

\* What remove_where keeps, step by step.
KeptStep(p, kept, i) == IF Holds(p.cond, p.elements[i]) THEN kept ELSE Append(kept, p.elements[i])
KeptFold == INSTANCE FoldTheory WITH Op <- KeptStep, Pick <- Max

-------------------------------------------------------------------------------
(***************************************************************************)
(* Paths.  The provers know sequences over a set they need not look into:  *)
(* each lemma is of the paths, and is proved of the sequences over S.      *)
(***************************************************************************)
LEMMA PrefixIsConcat ==
  \A p, q \in NodePaths : IsPrefix(p, q) <=> \E r \in NodePaths : q = p \o r
<1> DEFINE S == Steps
<1> HIDE DEF S
<1> SUFFICES ASSUME NEW p \in Seq(S), NEW q \in Seq(S)
             PROVE  IsPrefix(p, q) <=> \E r \in Seq(S) : q = p \o r
  BY DEF NodePaths, S
<1>1. ASSUME IsPrefix(p, q) PROVE \E r \in Seq(S) : q = p \o r
  <2>1. Len(p) =< Len(q) /\ p = SubSeq(q, 1, Len(p)) /\ Len(p) \in Nat /\ Len(q) \in Nat
    BY <1>1, SubSeqFull, LenProperties DEF IsPrefix
  <2> DEFINE r == SubSeq(q, Len(p) + 1, Len(q))
  <2>2. r \in Seq(S)
    BY <2>1
  <2>3. SubSeq(q, 1, Len(p)) \o r = q
    <3> DEFINE k == Len(p)
    <3>1. 1 \in 1 .. Len(q) + 1 /\ k \in (1 - 1) .. Len(q) /\ Len(q) \in k .. Len(q)
      BY <2>1
    <3> HIDE DEF k
    <3>2. SubSeq(q, 1, k) \o SubSeq(q, k + 1, Len(q)) = SubSeq(q, 1, Len(q))
      BY <3>1, ConcatAdjacentSubSeq, Zenon
    <3> QED
      BY <3>2, SubSeqFull DEF k
  <2> QED
    BY <2>1, <2>2, <2>3
<1>2. ASSUME NEW r \in Seq(S), q = p \o r PROVE IsPrefix(p, q)
  <2>1. Len(p) \in Nat /\ Len(r) \in Nat /\ Len(q) = Len(p) + Len(r)
    BY <1>2
  <2>2. SubSeq(q, 1, Len(p)) = p
    BY <1>2, <2>1
  <2>3. SubSeq(p, 1, Len(p)) = p
    BY <2>1
  <2> QED
    BY <2>1, <2>2, <2>3 DEF IsPrefix
<1> QED
  BY <1>1, <1>2

LEMMA BelowConcat ==
  \A p, r \in NodePaths : Below(p, p \o r) = r
<1> DEFINE S == Steps
<1> HIDE DEF S
<1> SUFFICES ASSUME NEW p \in Seq(S), NEW r \in Seq(S)
             PROVE  SubSeq(p \o r, Len(p) + 1, Len(p \o r)) = r
  BY DEF NodePaths, S, Below
<1> QED
  OBVIOUS

LEMMA ConcatCancels ==
  \A p, r, s \in NodePaths : p \o r = p \o s => r = s
  BY BelowConcat

LEMMA ConcatFacts ==
  \A p, r, s \in NodePaths : p \o r \in NodePaths /\ (p \o r) \o s = p \o (r \o s)
<1> DEFINE S == Steps
<1> HIDE DEF S
<1> SUFFICES ASSUME NEW p \in Seq(S), NEW r \in Seq(S), NEW s \in Seq(S)
             PROVE  p \o r \in Seq(S) /\ (p \o r) \o s = p \o (r \o s)
  BY DEF NodePaths, S
<1> QED
  OBVIOUS

LEMMA RootFacts ==
  /\ <<>> \in NodePaths
  /\ \A p \in NodePaths : p \o <<>> = p /\ <<>> \o p = p
  /\ \A p, r \in NodePaths : p \o r = p <=> r = <<>>
<1> DEFINE S == Steps
<1> HIDE DEF S
<1>1. \A p \in Seq(S) : p \o <<>> = p /\ <<>> \o p = p
  OBVIOUS
<1>2. \A p, r \in Seq(S) : p \o r = p => r = <<>>
  BY LenProperties
<1> QED
  BY <1>1, <1>2 DEF NodePaths, S

LEMMA FrontAndLast ==
  \A p \in NodePaths \ {<<>>} :
    Front(p) \in NodePaths /\ Last(p) \in Steps /\ p = Append(Front(p), Last(p))
<1> DEFINE S == Steps
<1> HIDE DEF S
<1> SUFFICES ASSUME NEW p \in Seq(S), p # <<>>
             PROVE  Front(p) \in Seq(S) /\ Last(p) \in S /\ p = Append(Front(p), Last(p))
  BY DEF NodePaths, S
<1> QED
  BY DEF Front, Last

LEMMA AppendFacts ==
  \A p \in NodePaths, s \in Steps :
    /\ Append(p, s) \in NodePaths /\ Append(p, s) # <<>> /\ Len(Append(p, s)) = Len(p) + 1
    /\ Front(Append(p, s)) = p /\ Last(Append(p, s)) = s
<1> DEFINE S == Steps
<1> HIDE DEF S
<1> SUFFICES ASSUME NEW p \in Seq(S), NEW s \in S
             PROVE  /\ Append(p, s) \in Seq(S) /\ Append(p, s) # <<>> /\ Len(Append(p, s)) = Len(p) + 1
                    /\ Front(Append(p, s)) = p /\ Last(Append(p, s)) = s
  BY DEF NodePaths, S
<1> QED
  BY DEF Front, Last

LEMMA AppendInjects ==
  \A p, q \in NodePaths, s, t \in Steps : Append(p, s) = Append(q, t) => p = q /\ s = t
<1> SUFFICES ASSUME NEW p \in NodePaths, NEW q \in NodePaths, NEW s \in Steps, NEW t \in Steps,
                    Append(p, s) = Append(q, t)
             PROVE  p = q /\ s = t
  OBVIOUS
<1>1. Front(Append(p, s)) = p /\ Last(Append(p, s)) = s
  BY AppendFacts
<1>2. Front(Append(q, t)) = q /\ Last(Append(q, t)) = t
  BY AppendFacts
<1> QED
  BY <1>1, <1>2

LEMMA LastOfConcat ==
  \A p, r \in NodePaths :
    r # <<>> => Front(p \o r) = p \o Front(r) /\ Last(p \o r) = Last(r) /\ p \o r # <<>>
<1> DEFINE S == Steps
<1> HIDE DEF S
<1> SUFFICES ASSUME NEW p \in Seq(S), NEW r \in Seq(S), r # <<>>
             PROVE  Front(p \o r) = p \o Front(r) /\ Last(p \o r) = Last(r) /\ p \o r # <<>>
  BY DEF NodePaths, S
<1>1. Len(r) \in Nat \ {0} /\ Len(p \o r) = Len(p) + Len(r)
  OBVIOUS
<1>2. Front(p \o r) = p \o Front(r)
  BY <1>1 DEF Front
<1>3. Last(p \o r) = Last(r)
  BY <1>1 DEF Last
<1> QED
  BY <1>1, <1>2, <1>3

LEMMA AppendToConcat ==
  \A p, r \in NodePaths, s \in Steps : Append(p \o r, s) = p \o Append(r, s)
<1> DEFINE S == Steps
<1> HIDE DEF S
<1> SUFFICES ASSUME NEW p \in Seq(S), NEW r \in Seq(S), NEW s \in S
             PROVE  Append(p \o r, s) = p \o Append(r, s)
  BY DEF NodePaths, S
<1> QED
  OBVIOUS

LEMMA OneStep ==
  /\ \A s \in Steps : <<s>> \in NodePaths /\ Append(<<>>, s) = <<s>>
  /\ \A p \in NodePaths, s \in Steps : Append(p, s) = p \o <<s>>
<1> DEFINE S == Steps
<1> HIDE DEF S
<1> SUFFICES /\ \A s \in S : <<s>> \in Seq(S) /\ Append(<<>>, s) = <<s>>
             /\ \A p \in Seq(S), s \in S : Append(p, s) = p \o <<s>>
  BY DEF NodePaths, S
<1> QED
  OBVIOUS

LEMMA StepsThenOthers ==
  \A p, r \in NodePaths, t \in Steps :
    /\ <<t>> \o r \in NodePaths /\ Append(p, t) \in NodePaths
    /\ Append(p, t) \o r = p \o (<<t>> \o r)
<1> SUFFICES ASSUME NEW p \in NodePaths, NEW r \in NodePaths, NEW t \in Steps
             PROVE  /\ <<t>> \o r \in NodePaths /\ Append(p, t) \in NodePaths
                    /\ Append(p, t) \o r = p \o (<<t>> \o r)
  OBVIOUS
<1> DEFINE u == <<t>>
<1>1. u \in NodePaths /\ Append(p, t) = p \o u
  BY OneStep
<1> HIDE DEF u
<1>2. u \o r \in NodePaths /\ p \o u \in NodePaths /\ (p \o u) \o r = p \o (u \o r)
  BY <1>1, ConcatFacts
<1> QED
  BY <1>1, <1>2 DEF u

LEMMA OneMoreStep ==
  \A p, r \in NodePaths : Len(p \o r) = Len(p) + 1 => \E s \in Steps : r = <<s>>
<1> DEFINE S == Steps
<1> HIDE DEF S
<1> SUFFICES ASSUME NEW p \in Seq(S), NEW r \in Seq(S), Len(p \o r) = Len(p) + 1
             PROVE  \E s \in S : r = <<s>>
  BY DEF NodePaths, S
<1>1. Len(r) = 1
  OBVIOUS
<1>2. r[1] \in S
  BY <1>1
<1>3. <<r[1]>> \in Seq(S) /\ Len(<<r[1]>>) = 1 /\ <<r[1]>>[1] = r[1]
  BY <1>2
<1>4. r = <<r[1]>>
  BY <1>1, <1>3, SeqEqual
<1> QED
  BY <1>2, <1>4

LEMMA IndexIsStep ==
  /\ \A k \in Nat : Index(k) \in Steps /\ (k # 0 => ~IsKey(Index(k)))
  /\ \A name \in STRING : KeyStep(name) \in Steps /\ IsKey(KeyStep(name))
  /\ \A j, k \in Nat : Index(j) = Index(k) => j = k
  /\ \A x, y \in STRING : KeyStep(x) = KeyStep(y) => x = y
  BY DEF Index, KeyStep, Steps, IsKey

-------------------------------------------------------------------------------
(***************************************************************************)
(* Documents as functions of paths: two are equal when they have the same  *)
(* nodes, and what Cut, Subtree and Put leave and make is said node by     *)
(* node.                                                                   *)
(***************************************************************************)
IsNodes(d) == d = [q \in DOMAIN d |-> d[q]] /\ DOMAIN d \subseteq NodePaths

LEMMA NodesEqual ==
  ASSUME NEW d, IsNodes(d), NEW e, IsNodes(e),
         \A q \in NodePaths : (Has(d, q) <=> Has(e, q)) /\ (Has(d, q) => d[q] = e[q])
  PROVE  d = e
<1>1. DOMAIN d = DOMAIN e
  BY DEF IsNodes, Has
<1>2. \A q \in DOMAIN d : d[q] = e[q]
  BY DEF IsNodes, Has
<1> QED
  BY <1>1, <1>2 DEF IsNodes

CutFrom(d, p, e) ==
  /\ IsNodes(e)
  /\ \A q \in NodePaths : (Has(e, q) <=> Has(d, q) /\ ~IsPrefix(p, q)) /\ (Has(e, q) => e[q] = d[q])

SubtreeOf(d, p, t) ==
  /\ IsNodes(t)
  /\ \A r \in NodePaths : (Has(t, r) <=> Has(d, p \o r)) /\ (Has(t, r) => t[r] = d[p \o r])

PutInto(d, p, t, e) ==
  /\ SubtreeOf(e, p, t) /\ IsNodes(e)
  /\ \A q \in NodePaths : ~IsPrefix(p, q) => (Has(e, q) <=> Has(d, q)) /\ (Has(d, q) => e[q] = d[q])

LEMMA CutNodes ==
  ASSUME NEW d, IsNodes(d), NEW p \in NodePaths
  PROVE  CutFrom(d, p, Cut(d, p))
<1> DEFINE D == DOMAIN d \ Under(d, p)
<1>1. Cut(d, p) = [q \in D |-> d[q]]
  BY DEF Cut, Restrict
<1>2. D = {q \in DOMAIN d : ~IsPrefix(p, q)}
  BY DEF Under
<1> HIDE DEF D
<1> QED
  BY <1>1, <1>2 DEF CutFrom, IsNodes, Has

LEMMA SubtreeNodes ==
  ASSUME NEW d, IsNodes(d), NEW p \in NodePaths
  PROVE  SubtreeOf(d, p, Subtree(d, p))
<1> DEFINE R == {Below(p, q) : q \in Under(d, p)}
<1>1. Subtree(d, p) = [r \in R |-> d[p \o r]]
  BY DEF Subtree
<1>2. \A r \in NodePaths : r \in R <=> p \o r \in DOMAIN d
  <2>1. ASSUME NEW r \in R PROVE r \in NodePaths /\ p \o r \in DOMAIN d
    <3>1. PICK q \in DOMAIN d : IsPrefix(p, q) /\ r = Below(p, q)
      BY DEF Under
    <3>2. PICK s \in NodePaths : q = p \o s
      BY <3>1, PrefixIsConcat DEF IsNodes
    <3> QED
      BY <3>1, <3>2, BelowConcat
  <2>2. ASSUME NEW r \in NodePaths, p \o r \in DOMAIN d PROVE r \in R
    <3>1. IsPrefix(p, p \o r) /\ Below(p, p \o r) = r
      BY <2>2, PrefixIsConcat, BelowConcat, ConcatFacts
    <3>2. p \o r \in Under(d, p)
      BY <2>2, <3>1 DEF Under
    <3> QED
      BY <3>1, <3>2
  <2> QED
    BY <2>1, <2>2
<1>3. R \subseteq NodePaths
  <2> SUFFICES ASSUME NEW q \in Under(d, p) PROVE Below(p, q) \in NodePaths
    OBVIOUS
  <2>1. PICK s \in NodePaths : q = p \o s
    BY PrefixIsConcat DEF IsNodes, Under
  <2> QED
    BY <2>1, BelowConcat
<1> HIDE DEF R
<1> QED
  BY <1>1, <1>2, <1>3 DEF SubtreeOf, IsNodes, Has

LEMMA PutNodes ==
  ASSUME NEW d, IsNodes(d), NEW t, IsNodes(t), NEW p \in NodePaths
  PROVE  PutInto(d, p, t, Put(d, p, t))
<1> DEFINE P == {p \o r : r \in DOMAIN t}
           C == Cut(d, p)
           placed == [q \in P |-> t[Below(p, q)]]
           e == [q \in DOMAIN C \cup DOMAIN placed |-> IF q \in DOMAIN placed THEN placed[q] ELSE C[q]]
<1>1. Put(d, p, t) = e
  BY DEF Put, Merged, Placed
<1>2. P \subseteq NodePaths /\ \A q \in P : IsPrefix(p, q)
  <2> SUFFICES ASSUME NEW r \in DOMAIN t PROVE p \o r \in NodePaths /\ IsPrefix(p, p \o r)
    OBVIOUS
  <2>1. r \in NodePaths
    BY DEF IsNodes
  <2> QED
    BY <2>1, PrefixIsConcat, ConcatFacts
<1>3. \A r \in NodePaths : p \o r \in P <=> r \in DOMAIN t
  BY ConcatCancels DEF IsNodes
<1>4. \A r \in DOMAIN t : placed[p \o r] = t[r]
  BY BelowConcat DEF IsNodes
<1>5. \A r \in NodePaths : p \o r \in NodePaths /\ IsPrefix(p, p \o r)
  BY PrefixIsConcat, ConcatFacts
<1>6. CutFrom(d, p, C)
  BY CutNodes
<1>7. DOMAIN placed = P
  OBVIOUS
<1> HIDE DEF P, C, placed
<1>8. e = [q \in DOMAIN e |-> e[q]] /\ DOMAIN e = DOMAIN C \cup P
  BY <1>7
<1>9. \A q \in DOMAIN C \cup P : e[q] = IF q \in P THEN placed[q] ELSE C[q]
  BY <1>7
<1> HIDE DEF e
<1>10. IsNodes(e)
  BY <1>2, <1>6, <1>8 DEF IsNodes, CutFrom
<1>11. ASSUME NEW q \in NodePaths, ~IsPrefix(p, q)
      PROVE  (Has(e, q) <=> Has(d, q)) /\ (Has(d, q) => e[q] = d[q])
  BY <1>2, <1>6, <1>8, <1>9, <1>11 DEF Has, CutFrom
<1>12. ASSUME NEW r \in NodePaths
      PROVE  (Has(t, r) <=> Has(e, p \o r)) /\ (Has(t, r) => t[r] = e[p \o r])
  BY <1>3, <1>4, <1>5, <1>6, <1>8, <1>9 DEF Has, CutFrom
<1>13. PutInto(d, p, t, e)
  BY <1>10, <1>11, <1>12 DEF PutInto, SubtreeOf
<1> QED
  BY <1>1, <1>13

LEMMA SubtreesEqual ==
  ASSUME NEW d, NEW p, NEW s, SubtreeOf(d, p, s), NEW t, SubtreeOf(d, p, t)
  PROVE  s = t
  BY NodesEqual DEF SubtreeOf

LEMMA CutsEqual ==
  ASSUME NEW d, NEW p, NEW e, CutFrom(d, p, e), NEW f, CutFrom(d, p, f)
  PROVE  e = f
  BY NodesEqual DEF CutFrom

LEMMA PutsEqual ==
  ASSUME NEW p \in NodePaths, NEW d, NEW t, NEW e, PutInto(d, p, t, e), NEW f, PutInto(d, p, t, f)
  PROVE  e = f
<1>1. \A q \in NodePaths : IsPrefix(p, q) => \E r \in NodePaths : q = p \o r
  BY PrefixIsConcat
<1>2. ASSUME NEW q \in NodePaths
      PROVE  (Has(e, q) <=> Has(f, q)) /\ (Has(e, q) => e[q] = f[q])
  <2>1. CASE ~IsPrefix(p, q)
    BY <2>1 DEF PutInto
  <2>2. CASE IsPrefix(p, q)
    <3>1. PICK r \in NodePaths : q = p \o r
      BY <1>1, <2>2
    <3> QED
      BY <3>1 DEF PutInto, SubtreeOf
  <2> QED
    BY <2>1, <2>2
<1> QED
  BY <1>2, NodesEqual DEF PutInto

\* What lies at a path can be taken and put back, and what was put there taken.
LEMMA PutBack ==
  ASSUME NEW d, IsNodes(d), NEW p \in NodePaths
  PROVE  Put(d, p, Subtree(d, p)) = d
<1> DEFINE s == Subtree(d, p)
<1>1. SubtreeOf(d, p, s)
  BY SubtreeNodes
<1> HIDE DEF s
<1>2. PutInto(d, p, s, Put(d, p, s))
  BY <1>1, PutNodes DEF SubtreeOf
<1>3. PutInto(d, p, s, d)
  BY <1>1 DEF PutInto
<1> QED
  BY <1>2, <1>3, PutsEqual DEF s

LEMMA PutThenTake ==
  ASSUME NEW d, IsNodes(d), NEW t, IsNodes(t), NEW p \in NodePaths
  PROVE  /\ Subtree(Put(d, p, t), p) = t
         /\ Cut(Put(d, p, t), p) = Cut(d, p)
         /\ \A u : Put(Put(d, p, t), p, u) = Put(d, p, u)
<1> DEFINE e == Put(d, p, t)
<1>1. PutInto(d, p, t, e)
  BY PutNodes
<1> HIDE DEF e
<1>2. Subtree(e, p) = t
  BY <1>1, SubtreeNodes, SubtreesEqual DEF PutInto
<1>3. Cut(e, p) = Cut(d, p)
  <2>1. CutFrom(e, p, Cut(e, p)) /\ CutFrom(d, p, Cut(d, p))
    BY <1>1, CutNodes DEF PutInto
  <2>2. CutFrom(d, p, Cut(e, p))
    BY <1>1, <2>1 DEF PutInto, CutFrom
  <2> QED
    BY <2>1, <2>2, CutsEqual
<1>4. \A u : Put(e, p, u) = Put(d, p, u)
  BY <1>3 DEF Put
<1> QED
  BY <1>2, <1>3, <1>4 DEF e

-------------------------------------------------------------------------------
(***************************************************************************)
(* Trees.  IsTree speaks of fronts and of counts; TreesAre says the same   *)
(* of the steps out of each node, and cutting a field, taking a subtree    *)
(* and putting one in keep it.                                             *)
(***************************************************************************)
Numbers(n) == {Index(k) : k \in 1 .. n}
StepsAt(d, p) == {s \in Steps : Has(d, Append(p, s))}
KindOver(s) == IF IsKey(s) THEN Record ELSE Array

LEMMA PrefixOfAppend ==
  \A p, q \in NodePaths, s \in Steps :
    (IsPrefix(p, Append(q, s)) <=> IsPrefix(p, q) \/ p = Append(q, s)) /\ ~IsPrefix(Append(q, s), q)
<1> SUFFICES ASSUME NEW p \in NodePaths, NEW q \in NodePaths, NEW s \in Steps
             PROVE  (IsPrefix(p, Append(q, s)) <=> IsPrefix(p, q) \/ p = Append(q, s)) /\ ~IsPrefix(Append(q, s), q)
  OBVIOUS
<1>1. Append(q, s) \in NodePaths /\ Front(Append(q, s)) = q /\ Last(Append(q, s)) = s
  BY AppendFacts
<1>2. ASSUME IsPrefix(p, Append(q, s)) PROVE IsPrefix(p, q) \/ p = Append(q, s)
  <2>1. PICK r \in NodePaths : Append(q, s) = p \o r
    BY <1>1, <1>2, PrefixIsConcat
  <2>2. CASE r = <<>>
    BY <2>1, <2>2, RootFacts
  <2>3. CASE r # <<>>
    <3>1. q = p \o Front(r) /\ Front(r) \in NodePaths
      BY <1>1, <2>1, <2>3, LastOfConcat, FrontAndLast
    <3> QED
      BY <3>1, PrefixIsConcat
  <2> QED
    BY <2>2, <2>3
<1>3. ASSUME IsPrefix(p, q) PROVE IsPrefix(p, Append(q, s))
  <2>1. PICK r \in NodePaths : q = p \o r
    BY <1>3, PrefixIsConcat
  <2>2. Append(q, s) = p \o Append(r, s) /\ Append(r, s) \in NodePaths
    BY <2>1, AppendFacts, AppendToConcat
  <2> QED
    BY <1>1, <2>2, PrefixIsConcat
<1>4. IsPrefix(p, p)
  BY RootFacts, PrefixIsConcat
<1>5. ~IsPrefix(Append(q, s), q)
  <2>1. Len(q) \in Nat /\ Len(Append(q, s)) = Len(q) + 1
    BY AppendFacts, LenProperties DEF NodePaths
  <2> QED
    BY <2>1 DEF IsPrefix
<1> QED
  BY <1>2, <1>3, <1>4, <1>5

LEMMA MembersAre ==
  ASSUME NEW d, IsNodes(d), NEW p \in NodePaths
  PROVE  Members(d, p) = {Append(p, s) : s \in StepsAt(d, p)}
<1>1. ASSUME NEW q \in Members(d, p) PROVE \E s \in StepsAt(d, p) : q = Append(p, s)
  <2>1. q \in NodePaths /\ Has(d, q) /\ Len(q) = Len(p) + 1 /\ IsPrefix(p, q)
    BY DEF Members, IsNodes, Has
  <2>2. PICK r \in NodePaths : q = p \o r
    BY <2>1, PrefixIsConcat
  <2>3. PICK s \in Steps : r = <<s>>
    BY <2>1, <2>2, OneMoreStep
  <2>4. q = Append(p, s)
    BY <2>2, <2>3, OneStep
  <2> QED
    BY <2>1, <2>4 DEF StepsAt
<1>2. ASSUME NEW s \in StepsAt(d, p) PROVE Append(p, s) \in Members(d, p)
  <2>1. IsPrefix(p, Append(p, s))
    BY PrefixOfAppend, RootFacts, PrefixIsConcat DEF StepsAt
  <2>2. Len(Append(p, s)) = Len(p) + 1
    BY AppendFacts DEF StepsAt
  <2> QED
    BY <2>1, <2>2 DEF Members, StepsAt, Has
<1> QED
  BY <1>1, <1>2

LEMMA NumbersCount ==
  ASSUME NEW d, IsNodes(d), NEW p \in NodePaths, NEW n \in Nat, StepsAt(d, p) = Numbers(n)
  PROVE  Length(d, p) = n /\ IsNumbered(d, p)
<1>1. Members(d, p) = {Append(p, Index(k)) : k \in 1 .. n}
  BY MembersAre DEF Numbers
<1> DEFINE f == [k \in 1 .. n |-> Append(p, Index(k))]
<1>2. f \in Bijection(1 .. n, Members(d, p))
  <2>1. \A k \in 1 .. n : k \in Nat
    OBVIOUS
  <2>2. \A j, k \in 1 .. n : Append(p, Index(j)) = Append(p, Index(k)) => j = k
    BY <2>1, AppendInjects, IndexIsStep
  <2>3. f \in [1 .. n -> Members(d, p)]
    BY <1>1
  <2>4. f \in Injection(1 .. n, Members(d, p))
    BY <2>2, <2>3 DEF Injection, IsInjective
  <2>5. f \in Surjection(1 .. n, Members(d, p))
    BY <1>1, <2>3 DEF Surjection
  <2> QED
    BY <2>4, <2>5 DEF Bijection
<1>4. Cardinality(Members(d, p)) = n
  BY <1>2, FS_CountingElements DEF ExistsBijection
<1> QED
  BY <1>1, <1>4 DEF Length, IsNumbered

LEMMA NumberedSteps ==
  ASSUME NEW d, IsNodes(d), NEW p \in NodePaths, IsNumbered(d, p)
  PROVE  Length(d, p) \in Nat /\ StepsAt(d, p) = Numbers(Length(d, p))
<1> DEFINE n == Length(d, p)
<1>1. n \in Nat /\ {Append(p, s) : s \in StepsAt(d, p)} = {Append(p, Index(k)) : k \in 1 .. n}
  BY MembersAre DEF IsNumbered
<1>2. \A k \in 1 .. n : Index(k) \in Steps
  BY <1>1, IndexIsStep
<1>3. \A s, t \in Steps : Append(p, s) = Append(p, t) => s = t
  BY AppendFacts
<1> HIDE DEF n
<1>4. ASSUME NEW s \in StepsAt(d, p) PROVE s \in Numbers(n)
  <2>1. PICK k \in 1 .. n : Append(p, s) = Append(p, Index(k))
    BY <1>1
  <2> QED
    BY <1>2, <1>3, <2>1 DEF StepsAt, Numbers
<1>5. ASSUME NEW s \in Numbers(n) PROVE s \in StepsAt(d, p)
  <2>1. PICK k \in 1 .. n : s = Index(k)
    BY DEF Numbers
  <2>2. PICK t \in StepsAt(d, p) : Append(p, s) = Append(p, t)
    BY <1>1, <2>1
  <2> QED
    BY <1>2, <1>3, <2>1, <2>2 DEF StepsAt
<1> QED
  BY <1>1, <1>4, <1>5 DEF n

IsRooted(d) == IsNodes(d) /\ Has(d, <<>>)
NodesLieInNodes(d) ==
  \A p \in NodePaths, s \in Steps : Has(d, Append(p, s)) => Has(d, p) /\ d[p] = KindOver(s)
ArraysAreNumbered(d) ==
  \A p \in NodePaths : Has(d, p) /\ d[p] = Array => \E n \in Nat : StepsAt(d, p) = Numbers(n)

LEMMA TreesAre ==
  ASSUME NEW d
  PROVE  IsTree(d) <=> IsRooted(d) /\ NodesLieInNodes(d) /\ ArraysAreNumbered(d)
<1>1. ASSUME IsTree(d) PROVE IsRooted(d) /\ NodesLieInNodes(d) /\ ArraysAreNumbered(d)
  <2>1. IsRooted(d)
    BY <1>1 DEF IsTree, IsRooted, IsNodes
  <2>2. NodesLieInNodes(d)
    <3> SUFFICES ASSUME NEW p \in NodePaths, NEW s \in Steps, Has(d, Append(p, s))
                 PROVE  Has(d, p) /\ d[p] = KindOver(s)
      BY DEF NodesLieInNodes
    <3>1. Append(p, s) \in DOMAIN d \ {<<>>} /\ Front(Append(p, s)) = p /\ Last(Append(p, s)) = s
      BY AppendFacts DEF Has, Steps
    <3> QED
      BY <1>1, <3>1 DEF IsTree, KindOver
  <2>3. ArraysAreNumbered(d)
    <3> SUFFICES ASSUME NEW p \in NodePaths, Has(d, p), d[p] = Array
                 PROVE  \E n \in Nat : StepsAt(d, p) = Numbers(n)
      BY DEF ArraysAreNumbered
    <3>1. IsNumbered(d, p)
      BY <1>1 DEF IsTree, Has
    <3> QED
      BY <2>1, <3>1, NumberedSteps DEF IsRooted
  <2> QED
    BY <2>1, <2>2, <2>3
<1>2. ASSUME IsRooted(d), NodesLieInNodes(d), ArraysAreNumbered(d) PROVE IsTree(d)
  <2>1. ASSUME NEW q \in DOMAIN d \ {<<>>}
        PROVE  Has(d, Front(q)) /\ d[Front(q)] = IF IsKey(Last(q)) THEN Record ELSE Array
    <3>1. Front(q) \in NodePaths /\ Last(q) \in Steps /\ q = Append(Front(q), Last(q))
      BY <1>2, FrontAndLast DEF IsRooted, IsNodes, Steps
    <3>2. Has(d, Append(Front(q), Last(q)))
      BY <3>1 DEF Has
    <3> QED
      BY <1>2, <3>1, <3>2 DEF NodesLieInNodes, KindOver
  <2>2. ASSUME NEW q \in DOMAIN d, d[q] = Array PROVE IsNumbered(d, q)
    <3>1. q \in NodePaths
      BY <1>2 DEF IsRooted, IsNodes
    <3>2. PICK n \in Nat : StepsAt(d, q) = Numbers(n)
      BY <1>2, <2>2, <3>1 DEF ArraysAreNumbered, Has
    <3> QED
      BY <1>2, <3>1, <3>2, NumbersCount DEF IsRooted
  <2> QED
    BY <1>2, <2>1, <2>2 DEF IsTree, IsRooted, IsNodes
<1> QED
  BY <1>1, <1>2

\* Whatever lies below a path lies in a node there.
LEMMA PrefixesAreThere ==
  ASSUME NEW d, IsTree(d)
  PROVE  \A p, r \in NodePaths : Has(d, p \o r) => Has(d, p)
<1> DEFINE There(r) == \A p \in NodePaths : Has(d, p \o r) => Has(d, p)
           T == {n \in Nat : \A r \in NodePaths : Len(r) = n => There(r)}
<1>1. 0 \in T
  <2>1. \A r \in NodePaths : Len(r) = 0 => r = <<>>
    BY DEF NodePaths
  <2>2. There(<<>>)
    BY RootFacts
  <2> QED
    BY <2>1, <2>2
<1>2. ASSUME NEW n \in T PROVE n + 1 \in T
  <2> SUFFICES ASSUME NEW r \in NodePaths, Len(r) = n + 1, NEW p \in NodePaths, Has(d, p \o r)
               PROVE  Has(d, p)
    OBVIOUS
  <2>1. n \in Nat /\ \A s \in NodePaths : Len(s) = n => There(s)
    OBVIOUS
  <2>2. r # <<>>
    BY <2>1
  <2> HIDE DEF T, There
  <2> DEFINE f == Front(r)
             s == Last(r)
  <2>3. f \in NodePaths /\ s \in Steps /\ r = Append(f, s)
    BY <2>2, FrontAndLast
  <2> HIDE DEF f, s
  <2>4. Len(f) = n
    <3>1. Len(r) = Len(f) + 1 /\ Len(f) \in Nat
      BY <2>3, AppendFacts, LenProperties DEF NodePaths
    <3> QED
      BY <2>1, <3>1
  <2>5. Append(p \o f, s) = p \o Append(f, s) /\ p \o f \in NodePaths
    BY <2>3, AppendToConcat, ConcatFacts
  <2>6. Has(d, Append(p \o f, s))
    BY <2>3, <2>5
  <2>7. Has(d, p \o f)
    BY <2>3, <2>5, <2>6, TreesAre DEF NodesLieInNodes
  <2> QED
    BY <2>1, <2>3, <2>4, <2>7 DEF There
<1> HIDE DEF T
<1>3. T = Nat
  <2>1. T \in SUBSET Nat
    BY DEF T
  <2> QED
    BY <1>1, <1>2, <2>1, KeptFold!InductionOverNumbers
<1> QED
  <2> SUFFICES ASSUME NEW r \in NodePaths PROVE There(r)
    OBVIOUS
  <2>1. Len(r) \in T
    BY <1>3, LenProperties DEF NodePaths
  <2> QED
    BY <2>1 DEF T

LEMMA CutKeepsTrees ==
  ASSUME NEW d, IsTree(d), NEW p \in NodePaths, FieldAt(d, p), NEW e, CutFrom(d, p, e)
  PROVE  IsTree(e)
<1>1. IsRooted(d) /\ NodesLieInNodes(d) /\ ArraysAreNumbered(d)
  BY TreesAre
<1>2. p # <<>> /\ Has(d, p) /\ Front(p) \in NodePaths /\ Last(p) \in Steps /\ p = Append(Front(p), Last(p))
  BY FrontAndLast DEF FieldAt
<1>3. d[Front(p)] = Record
  BY <1>1, <1>2 DEF NodesLieInNodes, KindOver, FieldAt
<1>4. ~IsPrefix(p, <<>>) /\ <<>> \in NodePaths
  <2>1. <<>> \in NodePaths /\ \A r \in NodePaths : p \o r = <<>> => p = <<>>
    BY RootFacts, ConcatSimplifications DEF NodePaths
  <2> QED
    BY <1>2, <2>1, PrefixIsConcat
<1>5. IsRooted(e)
  BY <1>1, <1>4 DEF CutFrom, IsRooted
<1>6. NodesLieInNodes(e)
  <2> SUFFICES ASSUME NEW q \in NodePaths, NEW s \in Steps, Has(e, Append(q, s))
               PROVE  Has(e, q) /\ e[q] = KindOver(s)
    BY DEF NodesLieInNodes
  <2>1. Append(q, s) \in NodePaths /\ Has(d, Append(q, s)) /\ ~IsPrefix(p, Append(q, s))
    BY AppendFacts DEF CutFrom
  <2>2. Has(d, q) /\ d[q] = KindOver(s) /\ ~IsPrefix(p, q)
    BY <1>1, <2>1, PrefixOfAppend DEF NodesLieInNodes
  <2> QED
    BY <2>2 DEF CutFrom
<1>7. ArraysAreNumbered(e)
  <2> SUFFICES ASSUME NEW q \in NodePaths, Has(e, q), e[q] = Array
               PROVE  \E n \in Nat : StepsAt(e, q) = Numbers(n)
    BY DEF ArraysAreNumbered
  <2>1. Has(d, q) /\ d[q] = Array /\ ~IsPrefix(p, q)
    BY DEF CutFrom
  <2>2. ASSUME NEW s \in Steps PROVE Has(e, Append(q, s)) <=> Has(d, Append(q, s))
    <3>1. p # Append(q, s)
      BY <1>2, <1>3, <2>1, AppendFacts DEF Record, Array
    <3>2. ~IsPrefix(p, Append(q, s)) /\ Append(q, s) \in NodePaths
      BY <2>1, <3>1, PrefixOfAppend, AppendFacts
    <3> QED
      BY <3>2 DEF CutFrom
  <2>3. StepsAt(e, q) = StepsAt(d, q)
    BY <2>2 DEF StepsAt
  <2> QED
    BY <1>1, <2>1, <2>3 DEF ArraysAreNumbered
<1> QED
  BY <1>5, <1>6, <1>7, TreesAre

LEMMA SubtreesAreTrees ==
  ASSUME NEW d, IsTree(d), NEW p \in NodePaths, Has(d, p), NEW t, SubtreeOf(d, p, t)
  PROVE  IsTree(t)
<1>1. IsRooted(d) /\ NodesLieInNodes(d) /\ ArraysAreNumbered(d)
  BY TreesAre
<1>2. IsRooted(t)
  BY RootFacts DEF SubtreeOf, IsRooted
<1>3. ASSUME NEW r \in NodePaths, NEW s \in Steps
      PROVE  /\ Append(r, s) \in NodePaths /\ p \o r \in NodePaths
             /\ p \o Append(r, s) = Append(p \o r, s)
             /\ Has(t, Append(r, s)) <=> Has(d, Append(p \o r, s))
  <2>1. Append(r, s) \in NodePaths /\ p \o r \in NodePaths
    BY AppendFacts, ConcatFacts
  <2>2. p \o Append(r, s) = Append(p \o r, s)
    BY AppendToConcat
  <2>3. Has(t, Append(r, s)) <=> Has(d, p \o Append(r, s))
    BY <2>1 DEF SubtreeOf
  <2> QED
    BY <2>1, <2>2, <2>3
<1>4. NodesLieInNodes(t)
  <2> SUFFICES ASSUME NEW r \in NodePaths, NEW s \in Steps, Has(t, Append(r, s))
               PROVE  Has(t, r) /\ t[r] = KindOver(s)
    BY DEF NodesLieInNodes
  <2>1. Has(d, p \o r) /\ d[p \o r] = KindOver(s)
    BY <1>1, <1>3 DEF NodesLieInNodes
  <2> QED
    BY <2>1 DEF SubtreeOf
<1>5. ArraysAreNumbered(t)
  <2> SUFFICES ASSUME NEW r \in NodePaths, Has(t, r), t[r] = Array
               PROVE  \E n \in Nat : StepsAt(t, r) = Numbers(n)
    BY DEF ArraysAreNumbered
  <2>1. p \o r \in NodePaths /\ Has(d, p \o r) /\ d[p \o r] = Array
    BY ConcatFacts DEF SubtreeOf
  <2>2. StepsAt(t, r) = StepsAt(d, p \o r)
    BY <1>3 DEF StepsAt
  <2> QED
    BY <1>1, <2>1, <2>2 DEF ArraysAreNumbered
<1> QED
  BY <1>2, <1>4, <1>5, TreesAre

LEMMA PutKeepsTrees ==
  ASSUME NEW d, IsTree(d), NEW t, IsTree(t), NEW p \in NodePaths, Has(d, p) \/ FreeAt(d, p),
         NEW e, PutInto(d, p, t, e)
  PROVE  IsTree(e)
<1>1. IsRooted(d) /\ NodesLieInNodes(d) /\ ArraysAreNumbered(d)
  BY TreesAre
<1>2. IsRooted(t) /\ NodesLieInNodes(t) /\ ArraysAreNumbered(t)
  BY TreesAre
<1>3. ASSUME NEW q \in NodePaths, IsPrefix(p, q) PROVE \E r \in NodePaths : q = p \o r
  BY <1>3, PrefixIsConcat
<1>4. Has(e, p)
  BY <1>2, RootFacts DEF PutInto, SubtreeOf, IsRooted
<1>5. ASSUME p # <<>>
      PROVE  /\ Front(p) \in NodePaths /\ Last(p) \in Steps /\ p = Append(Front(p), Last(p))
             /\ Has(d, Front(p)) /\ d[Front(p)] = KindOver(Last(p)) /\ ~IsPrefix(p, Front(p))
  <2>1. Front(p) \in NodePaths /\ Last(p) \in Steps /\ p = Append(Front(p), Last(p))
    BY <1>5, FrontAndLast
  <2>4. ~IsPrefix(p, Front(p))
    BY <2>1, PrefixOfAppend
  <2>2. CASE Has(d, p)
    <3> DEFINE f == Front(p)
               s == Last(p)
    <3>1. f \in NodePaths /\ s \in Steps /\ p = Append(f, s)
      BY <2>1
    <3> HIDE DEF f, s
    <3>2. Has(d, f) /\ d[f] = KindOver(s)
      BY <1>1, <2>2, <3>1 DEF NodesLieInNodes
    <3> QED
      BY <2>1, <2>4, <3>2 DEF f, s
  <2>3. CASE FreeAt(d, p)
    <3>1. IsKey(Last(p)) /\ Has(d, Front(p)) /\ Kind(d[Front(p)]) = Record
      BY <2>3 DEF FreeAt, IsRecordAt
    <3>2. d[Front(p)] = KindOver(Last(p))
      BY <3>1 DEF KindOver, Kind, Record, Array
    <3> QED
      BY <2>1, <2>4, <3>1, <3>2
  <2> QED
    BY <2>2, <2>3
<1>6. IsRooted(e)
  <2>1. CASE p = <<>>
    BY <1>4, <2>1 DEF IsRooted, PutInto
  <2>2. CASE p # <<>>
    <3>1. <<>> \in NodePaths /\ \A r \in NodePaths : p \o r = <<>> => p = <<>>
      BY RootFacts, ConcatSimplifications DEF NodePaths
    <3>2. ~IsPrefix(p, <<>>)
      BY <1>3, <2>2, <3>1
    <3> QED
      BY <1>1, <3>1, <3>2 DEF IsRooted, PutInto
  <2> QED
    BY <2>1, <2>2
<1>7. ASSUME NEW r \in NodePaths, NEW s \in Steps
      PROVE  /\ Append(r, s) \in NodePaths /\ p \o r \in NodePaths /\ p \o Append(r, s) = Append(p \o r, s)
             /\ Has(t, Append(r, s)) <=> Has(e, Append(p \o r, s))
  <2>1. Append(r, s) \in NodePaths /\ p \o r \in NodePaths
    BY AppendFacts, ConcatFacts
  <2>2. p \o Append(r, s) = Append(p \o r, s)
    BY AppendToConcat
  <2>3. Has(t, Append(r, s)) <=> Has(e, p \o Append(r, s))
    BY <2>1 DEF SubtreeOf, PutInto
  <2> QED
    BY <2>1, <2>2, <2>3
<1>8. NodesLieInNodes(e)
  <2> SUFFICES ASSUME NEW q \in NodePaths, NEW s \in Steps, Has(e, Append(q, s))
               PROVE  Has(e, q) /\ e[q] = KindOver(s)
    BY DEF NodesLieInNodes
  <2>0. Append(q, s) \in NodePaths /\ Append(q, s) # <<>> /\ Front(Append(q, s)) = q /\ Last(Append(q, s)) = s
    BY AppendFacts
  <2>1. CASE p = Append(q, s)
    BY <1>5, <2>0, <2>1 DEF PutInto
  <2>2. CASE IsPrefix(p, q)
    <3>1. PICK r \in NodePaths : q = p \o r
      BY <1>3, <2>2
    <3>2. Has(t, r) /\ t[r] = KindOver(s)
      BY <1>2, <1>7, <3>1 DEF NodesLieInNodes
    <3> QED
      BY <3>1, <3>2 DEF PutInto, SubtreeOf
  <2>3. CASE ~IsPrefix(p, q) /\ p # Append(q, s)
    <3>1. ~IsPrefix(p, Append(q, s))
      BY <2>3, PrefixOfAppend
    <3>2. Has(d, q) /\ d[q] = KindOver(s)
      BY <1>1, <2>0, <3>1 DEF NodesLieInNodes, PutInto
    <3> QED
      BY <2>3, <3>2 DEF PutInto
  <2> QED
    BY <2>1, <2>2, <2>3
<1>9. ArraysAreNumbered(e)
  <2> SUFFICES ASSUME NEW q \in NodePaths, Has(e, q), e[q] = Array
               PROVE  \E n \in Nat : StepsAt(e, q) = Numbers(n)
    BY DEF ArraysAreNumbered
  <2>1. CASE IsPrefix(p, q)
    <3>1. PICK r \in NodePaths : q = p \o r
      BY <1>3, <2>1
    <3>2. Has(t, r) /\ t[r] = Array
      BY <3>1 DEF PutInto, SubtreeOf
    <3>3. StepsAt(t, r) = StepsAt(e, q)
      BY <1>7, <3>1 DEF StepsAt
    <3> QED
      BY <1>2, <3>2, <3>3 DEF ArraysAreNumbered
  <2>2. CASE ~IsPrefix(p, q)
    <3>1. Has(d, q) /\ d[q] = Array
      BY <2>2 DEF PutInto
    <3>2. ASSUME NEW s \in Steps PROVE Has(e, Append(q, s)) <=> Has(d, Append(q, s))
      <4>0. Append(q, s) \in NodePaths /\ Append(q, s) # <<>> /\ Front(Append(q, s)) = q
        BY AppendFacts
      <4>1. CASE p = Append(q, s)
        <5>1. ~FreeAt(d, p)
          BY <3>1, <4>0, <4>1 DEF FreeAt, IsRecordAt, Kind, Record, Array
        <5> QED
          BY <1>4, <4>1, <5>1
      <4>2. CASE p # Append(q, s)
        <5>1. ~IsPrefix(p, Append(q, s))
          BY <2>2, <4>2, PrefixOfAppend
        <5> QED
          BY <4>0, <5>1 DEF PutInto
      <4> QED
        BY <4>1, <4>2
    <3>3. StepsAt(e, q) = StepsAt(d, q)
      BY <3>2 DEF StepsAt
    <3> QED
      BY <1>1, <3>1, <3>3 DEF ArraysAreNumbered
  <2> QED
    BY <2>1, <2>2
<1> QED
  BY <1>6, <1>8, <1>9, TreesAre

-------------------------------------------------------------------------------
(***************************************************************************)
(* Arrays.  What ArrayOf makes of trees is a tree.                         *)
(***************************************************************************)
LEMMA FirstStep ==
  /\ \A p \in NodePaths : p # <<>> => Head(p) \in Steps /\ Tail(p) \in NodePaths /\ p = <<Head(p)>> \o Tail(p)
  /\ \A s \in Steps, r \in NodePaths : Head(<<s>> \o r) = s /\ Tail(<<s>> \o r) = r /\ <<s>> \o r # <<>>
<1> DEFINE S == Steps
<1> HIDE DEF S
<1>1. ASSUME NEW p \in Seq(S), p # <<>>
      PROVE  Head(p) \in S /\ Tail(p) \in Seq(S) /\ p = <<Head(p)>> \o Tail(p)
  BY <1>1
<1>2. ASSUME NEW s \in S, NEW r \in Seq(S)
      PROVE  Head(<<s>> \o r) = s /\ Tail(<<s>> \o r) = r /\ <<s>> \o r # <<>>
  <2>1. Len(<<s>> \o r) = Len(r) + 1 /\ (<<s>> \o r)[1] = s /\ <<s>> \o r \in Seq(S)
    OBVIOUS
  <2>2. Tail(<<s>> \o r) \in Seq(S) /\ Len(Tail(<<s>> \o r)) = Len(r)
    BY <2>1
  <2>3. \A i \in 1 .. Len(r) : Tail(<<s>> \o r)[i] = r[i]
    BY <2>1, <2>2
  <2>4. Tail(<<s>> \o r) = r
    BY <2>2, <2>3, SeqEqual
  <2> QED
    BY <2>1, <2>4
<1> QED
  BY <1>1, <1>2 DEF NodePaths, S

ArrayWith(es, a) ==
  /\ IsNodes(a) /\ Has(a, <<>>) /\ a[<<>>] = Array
  /\ \A s \in Steps, r \in NodePaths :
       Has(a, <<s>> \o r) <=> \E k \in DOMAIN es : s = Index(k) /\ Has(es[k], r)
  /\ \A k \in DOMAIN es : \A r \in NodePaths : Has(es[k], r) => a[<<Index(k)>> \o r] = es[k][r]

LEMMA ArrayNodes ==
  ASSUME NEW es, DOMAIN es \subseteq Nat \ {0}, \A k \in DOMAIN es : IsNodes(es[k])
  PROVE  ArrayWith(es, ArrayOf(es))
<1> DEFINE P == UNION {{<<Index(n)>> \o r : r \in DOMAIN es[n]} : n \in DOMAIN es}
           D == {<<>>} \cup P
           a == [q \in D |-> IF q = <<>> THEN Array ELSE es[Head(q)[2]][Tail(q)]]
<1>1. ArrayOf(es) = a
  BY DEF ArrayOf
<1>2. \A k \in DOMAIN es : Index(k) \in Steps /\ Index(k)[2] = k
  BY IndexIsStep DEF Index
<1>3. \A q : q \in P <=> \E k \in DOMAIN es : \E r \in DOMAIN es[k] : q = <<Index(k)>> \o r
  <2> HIDE DEF D, a
  <2> DEFINE Of(n) == {<<Index(n)>> \o r : r \in DOMAIN es[n]}
  <2>1. \A q : \A n : q \in Of(n) <=> \E r \in DOMAIN es[n] : q = <<Index(n)>> \o r
    OBVIOUS
  <2>2. P = UNION {Of(n) : n \in DOMAIN es}
    OBVIOUS
  <2> HIDE DEF P
  <2>3. \A q : q \in P <=> \E n \in DOMAIN es : q \in Of(n)
    <3> HIDE DEF Of
    <3> QED
      BY <2>2
  <2> HIDE DEF Of
  <2> SUFFICES ASSUME NEW q
               PROVE  q \in P <=> \E k \in DOMAIN es : \E r \in DOMAIN es[k] : q = <<Index(k)>> \o r
    OBVIOUS
  <2>4. q \in P <=> \E n \in DOMAIN es : q \in Of(n)
    BY <2>3
  <2>5. \A n : q \in Of(n) <=> \E r \in DOMAIN es[n] : q = <<Index(n)>> \o r
    BY <2>1
  <2> QED
    BY <2>4, <2>5
<1> HIDE DEF P
<1>4. \A k \in DOMAIN es : DOMAIN es[k] \subseteq NodePaths
  BY DEF IsNodes
<1>5. \A k \in DOMAIN es : <<Index(k)>> \in NodePaths
  BY <1>2, OneStep
<1>6. D \subseteq NodePaths
  <2>1. ASSUME NEW q \in P PROVE q \in NodePaths
    <3>1. PICK k \in DOMAIN es : \E r \in DOMAIN es[k] : q = <<Index(k)>> \o r
      BY <1>3
    <3>2. PICK r \in DOMAIN es[k] : q = <<Index(k)>> \o r
      BY <3>1
    <3> QED
      BY <1>4, <1>5, <3>2, ConcatFacts
  <2> QED
    BY <2>1, RootFacts
<1>7. \A k \in DOMAIN es : \A r \in NodePaths :
        /\ Head(<<Index(k)>> \o r)[2] = k
        /\ Tail(<<Index(k)>> \o r) = r
        /\ <<Index(k)>> \o r # <<>>
  BY <1>2, FirstStep
<1>8. ASSUME NEW s \in Steps, NEW r \in NodePaths
      PROVE  <<s>> \o r \in D <=> \E k \in DOMAIN es : s = Index(k) /\ r \in DOMAIN es[k]
  <2>1. Head(<<s>> \o r) = s /\ Tail(<<s>> \o r) = r /\ <<s>> \o r # <<>>
    BY FirstStep
  <2>2. ASSUME <<s>> \o r \in D PROVE \E k \in DOMAIN es : s = Index(k) /\ r \in DOMAIN es[k]
    <3>1. PICK k \in DOMAIN es : \E u \in DOMAIN es[k] : <<s>> \o r = <<Index(k)>> \o u
      BY <1>3, <2>1, <2>2
    <3>2. PICK u \in DOMAIN es[k] : <<s>> \o r = <<Index(k)>> \o u
      BY <3>1
    <3>3. u \in NodePaths /\ Index(k) \in Steps
      BY <1>2, <1>4
    <3>4. Head(<<Index(k)>> \o u) = Index(k) /\ Tail(<<Index(k)>> \o u) = u
      BY <3>3, FirstStep
    <3> QED
      BY <2>1, <3>2, <3>4
  <2>3. ASSUME NEW k \in DOMAIN es, s = Index(k), r \in DOMAIN es[k] PROVE <<s>> \o r \in D
    BY <1>3, <2>3
  <2> QED
    BY <2>2, <2>3
<1>9. <<>> \in D
  OBVIOUS
<1> HIDE DEF D
<1>10. DOMAIN a = D /\ a = [q \in DOMAIN a |-> a[q]] /\ a[<<>>] = Array
  BY <1>9
<1>11. \A q \in D : q # <<>> => a[q] = es[Head(q)[2]][Tail(q)]
  OBVIOUS
<1> HIDE DEF a
<1>12. ASSUME NEW k \in DOMAIN es, NEW r \in NodePaths, Has(es[k], r)
       PROVE  a[<<Index(k)>> \o r] = es[k][r]
  <2>1. <<Index(k)>> \o r \in D
    BY <1>2, <1>8, <1>12 DEF Has
  <2> QED
    BY <1>7, <1>11, <2>1
<1>13. ArrayWith(es, a)
  BY <1>6, <1>8, <1>9, <1>10, <1>12 DEF ArrayWith, Has, IsNodes
<1> QED
  BY <1>1, <1>13

LEMMA ArraysAreTrees ==
  ASSUME NEW n \in Nat, NEW es, DOMAIN es = 1 .. n, \A k \in 1 .. n : IsTree(es[k]),
         NEW a, ArrayWith(es, a)
  PROVE  IsTree(a) /\ StepsAt(a, <<>>) = Numbers(n)
<1>1. \A k \in 1 .. n : IsRooted(es[k]) /\ NodesLieInNodes(es[k]) /\ ArraysAreNumbered(es[k])
  BY TreesAre
<1>2. \A k \in 1 .. n : Index(k) \in Steps /\ ~IsKey(Index(k))
  BY IndexIsStep
<1>3. \A k \in 1 .. n : Has(es[k], <<>>)
  BY <1>1 DEF IsRooted
<1>4. \A s \in Steps : <<s>> \o <<>> = Append(<<>>, s) /\ <<s>> \in NodePaths
  BY OneStep, RootFacts
<1>5. \A s \in Steps : Has(a, Append(<<>>, s)) <=> \E k \in 1 .. n : s = Index(k)
  <2> SUFFICES ASSUME NEW s \in Steps PROVE Has(a, Append(<<>>, s)) <=> \E k \in 1 .. n : s = Index(k)
    OBVIOUS
  <2>1. Has(a, <<s>> \o <<>>) <=> \E k \in 1 .. n : s = Index(k) /\ Has(es[k], <<>>)
    BY RootFacts DEF ArrayWith
  <2> QED
    BY <1>3, <1>4, <2>1
<1>6. StepsAt(a, <<>>) = Numbers(n)
  BY <1>2, <1>5 DEF StepsAt, Numbers
<1>7. IsRooted(a)
  BY DEF ArrayWith, IsRooted
<1>8. ASSUME NEW h \in Steps, NEW u \in NodePaths, NEW s \in Steps
      PROVE  /\ Append(<<h>> \o u, s) = <<h>> \o Append(u, s)
             /\ Append(u, s) \in NodePaths
  BY <1>4, AppendToConcat, AppendFacts
<1>9. NodesLieInNodes(a)
  <2> SUFFICES ASSUME NEW q \in NodePaths, NEW s \in Steps, Has(a, Append(q, s))
               PROVE  Has(a, q) /\ a[q] = KindOver(s)
    BY DEF NodesLieInNodes
  <2>1. CASE q = <<>>
    <3>1. PICK k \in 1 .. n : s = Index(k)
      BY <1>5, <2>1
    <3> QED
      BY <1>2, <2>1, <3>1 DEF ArrayWith, KindOver
  <2>2. CASE q # <<>>
    <3>1. PICK h \in Steps : \E u \in NodePaths : q = <<h>> \o u
      BY <2>2, FirstStep
    <3>2. PICK u \in NodePaths : q = <<h>> \o u
      BY <3>1
    <3>3. Has(a, <<h>> \o Append(u, s)) /\ Append(u, s) \in NodePaths
      BY <1>8, <3>2
    <3>4. PICK k \in 1 .. n : h = Index(k) /\ Has(es[k], Append(u, s))
      BY <3>3 DEF ArrayWith
    <3>5. Has(es[k], u) /\ es[k][u] = KindOver(s)
      BY <1>1, <3>4 DEF NodesLieInNodes
    <3> QED
      BY <3>2, <3>4, <3>5 DEF ArrayWith
  <2> QED
    BY <2>1, <2>2
<1>10. ArraysAreNumbered(a)
  <2> SUFFICES ASSUME NEW q \in NodePaths, Has(a, q), a[q] = Array
               PROVE  \E m \in Nat : StepsAt(a, q) = Numbers(m)
    BY DEF ArraysAreNumbered
  <2>1. CASE q = <<>>
    BY <1>6, <2>1
  <2>2. CASE q # <<>>
    <3>1. PICK h \in Steps : \E u \in NodePaths : q = <<h>> \o u
      BY <2>2, FirstStep
    <3>2. PICK u \in NodePaths : q = <<h>> \o u
      BY <3>1
    <3>3. PICK k \in 1 .. n : h = Index(k) /\ Has(es[k], u)
      BY <3>2 DEF ArrayWith
    <3>4. es[k][u] = Array
      BY <3>2, <3>3 DEF ArrayWith
    <3>5. ASSUME NEW s \in Steps PROVE Has(a, Append(q, s)) <=> Has(es[k], Append(u, s))
      <4>1. Append(q, s) = <<h>> \o Append(u, s) /\ Append(u, s) \in NodePaths
        BY <1>8, <3>2
      <4>2. \A j \in 1 .. n : Index(j) = h => j = k
        BY <3>3, IndexIsStep
      <4> QED
        BY <3>3, <4>1, <4>2 DEF ArrayWith
    <3>6. StepsAt(a, q) = StepsAt(es[k], u)
      BY <3>5 DEF StepsAt
    <3> QED
      BY <1>1, <3>3, <3>4, <3>6 DEF ArraysAreNumbered
  <2> QED
    BY <2>1, <2>2
<1> QED
  BY <1>6, <1>7, <1>9, <1>10, TreesAre

-------------------------------------------------------------------------------
(***************************************************************************)
(* Elements, of an array taken apart and put together again.               *)
(***************************************************************************)
LEMMA SequencesOfTrees ==
  ASSUME NEW X, \A t \in X : IsTree(t), NEW es \in Seq(X)
  PROVE  /\ ArrayWith(es, ArrayOf(es)) /\ IsTree(ArrayOf(es))
         /\ StepsAt(ArrayOf(es), <<>>) = Numbers(Len(es))
<1> DEFINE n == Len(es)
<1>1. n \in Nat /\ DOMAIN es = 1 .. n /\ \A k \in 1 .. n : es[k] \in X
  OBVIOUS
<1> HIDE DEF n
<1>2. DOMAIN es \subseteq Nat \ {0} /\ \A k \in 1 .. n : IsTree(es[k])
  BY <1>1
<1>3. \A k \in DOMAIN es : IsNodes(es[k])
  BY <1>1, <1>2, TreesAre DEF IsRooted
<1>4. ArrayWith(es, ArrayOf(es))
  BY <1>2, <1>3, ArrayNodes
<1> QED
  BY <1>1, <1>2, <1>4, ArraysAreTrees DEF n

\* The elements of an array.
LEMMA ElementsAre ==
  ASSUME NEW d, IsTree(d), NEW p \in NodePaths, IsArrayAt(d, p)
  PROVE  LET n == Length(d, p)
             es == Elements(d, p)
         IN /\ n \in Nat /\ StepsAt(d, p) = Numbers(n)
            /\ es \in Seq({es[k] : k \in 1 .. n}) /\ Len(es) = n
            /\ \A k \in 1 .. n :
                 /\ Append(p, Index(k)) \in NodePaths /\ Has(d, Append(p, Index(k)))
                 /\ SubtreeOf(d, Append(p, Index(k)), es[k]) /\ IsTree(es[k])
<1> DEFINE n == Length(d, p)
           es == Elements(d, p)
<1>1. Has(d, p) /\ d[p] = Array
  BY DEF IsArrayAt, Kind, Record, Array
<1>2. IsNumbered(d, p) /\ IsNodes(d)
  BY <1>1, TreesAre DEF IsTree, Has, IsRooted
<1>3. n \in Nat /\ StepsAt(d, p) = Numbers(n)
  BY <1>2, NumberedSteps
<1>4. es = [k \in 1 .. n |-> Subtree(d, Append(p, Index(k)))]
  BY DEF Elements
<1> HIDE DEF es
<1>5. ASSUME NEW k \in 1 .. n
      PROVE  /\ Append(p, Index(k)) \in NodePaths /\ Has(d, Append(p, Index(k)))
             /\ SubtreeOf(d, Append(p, Index(k)), es[k]) /\ IsTree(es[k])
  <2> HIDE DEF n
  <2>1. Index(k) \in StepsAt(d, p)
    BY <1>3 DEF Numbers
  <2> DEFINE q == Append(p, Index(k))
  <2>2. q \in NodePaths /\ Has(d, q)
    BY <2>1, AppendFacts DEF StepsAt
  <2>3. es[k] = Subtree(d, q)
    BY <1>4
  <2> HIDE DEF q
  <2>4. SubtreeOf(d, q, es[k])
    BY <1>2, <2>2, <2>3, SubtreeNodes
  <2>5. IsTree(es[k])
    BY <2>2, <2>4, SubtreesAreTrees
  <2> QED
    BY <2>2, <2>4, <2>5 DEF q
<1> HIDE DEF n
<1>6. es \in Seq({es[k] : k \in 1 .. n}) /\ Len(es) = n
  <2> DEFINE X == {es[k] : k \in 1 .. n}
  <2>1. \A k \in 1 .. n : es[k] \in X
    OBVIOUS
  <2>2. es = [k \in 1 .. n |-> es[k]]
    BY <1>4
  <2> HIDE DEF X
  <2>3. es \in [1 .. n -> X]
    BY <2>1, <2>2
  <2> QED
    BY <1>3, <2>3 DEF X
<1> QED
  BY <1>3, <1>5, <1>6 DEF n, es

LEMMA PutElementsKeepsTrees ==
  ASSUME NEW d, IsTree(d), NEW p \in NodePaths, Has(d, p),
         NEW X, \A t \in X : IsTree(t), NEW es \in Seq(X)
  PROVE  IsTree(PutElements(d, p, es))
<1> DEFINE a == ArrayOf(es)
<1>1. IsTree(a)
  BY SequencesOfTrees
<1> HIDE DEF a
<1>2. PutInto(d, p, a, Put(d, p, a))
  BY <1>1, PutNodes, TreesAre DEF IsRooted
<1>3. IsTree(Put(d, p, a))
  BY <1>1, <1>2, PutKeepsTrees
<1> QED
  BY <1>3 DEF PutElements, a

\* remove_where keeps some of the elements.
LEMMA RemainingAreElements ==
  ASSUME NEW X, NEW es \in Seq(X), NEW cond
  PROVE  Remaining(cond, es) \in Seq(X)
<1> DEFINE n == Len(es)
           p == [cond |-> cond, elements |-> es]
           kept == KeptFold!Iter(p, <<>>, 1 .. n)
           T == {k \in Nat : k =< n => kept[1 .. k] \in Seq(X)}
<1>1. n \in Nat /\ DOMAIN es = 1 .. n /\ \A k \in 1 .. n : es[k] \in X
  OBVIOUS
<1>2. Remaining(cond, es) = kept[1 .. n]
  BY <1>1 DEF Remaining, FoldLeft, MapThenFoldSet, KeptFold!Iter, KeptFold!Equation, KeptStep
<1>3. KeptFold!GoesInOrder(p, <<>>, n)
  BY <1>1, KeptFold!IntervalsUnroll DEF Max
<1>4. kept[1 .. 0] = <<>>
  BY <1>3 DEF KeptFold!GoesInOrder
<1>5. \A k \in 1 .. n : kept[1 .. k] = KeptStep(p, kept[1 .. (k - 1)], k)
  BY <1>3 DEF KeptFold!GoesInOrder
<1> HIDE DEF kept, n
<1>6. 0 \in T
  <2>1. <<>> \in Seq(X)
    OBVIOUS
  <2>2. kept[1 .. 0] \in Seq(X)
    BY <1>4, <2>1
  <2> HIDE DEF p
  <2> QED
    BY <2>2
<1>7. ASSUME NEW k \in T PROVE k + 1 \in T
  <2> SUFFICES ASSUME k + 1 =< n PROVE kept[1 .. (k + 1)] \in Seq(X)
    OBVIOUS
  <2>1. kept[1 .. k] \in Seq(X) /\ k + 1 \in 1 .. n /\ (k + 1) - 1 = k
    BY <1>1
  <2>2. kept[1 .. (k + 1)] = KeptStep(p, kept[1 .. k], k + 1)
    BY <1>5, <2>1
  <2> QED
    BY <1>1, <2>1, <2>2 DEF KeptStep
<1>8. T = Nat
  <2>1. T \in SUBSET Nat
    OBVIOUS
  <2> HIDE DEF T
  <2> QED
    BY <1>6, <1>7, <2>1, KeptFold!InductionOverNumbers
<1> QED
  BY <1>1, <1>2, <1>8

-------------------------------------------------------------------------------
(***************************************************************************)
(* The ops.  Each keeps trees, and those that have inverses are undone.    *)
(***************************************************************************)
\* Values written at fields of records, over whatever was there.
FieldsWritten(d, F, e) ==
  /\ IsNodes(e)
  /\ \A q \in NodePaths : Has(e, q) <=> q \in F \/ (Has(d, q) /\ \A f \in F : ~IsPrefix(f, q))
  /\ \A q \in NodePaths \ F : Has(e, q) => e[q] = d[q]

LEMMA WrittenFieldsKeepTrees ==
  ASSUME NEW d, IsTree(d), NEW F, NEW e, FieldsWritten(d, F, e),
         \A f \in F : \E q \in NodePaths, s \in Steps :
           /\ f = Append(q, s) /\ IsKey(s) /\ Has(d, q) /\ d[q] = Record
           /\ \A g \in F : ~IsPrefix(g, q)
  PROVE  IsTree(e)
<1>1. IsRooted(d) /\ NodesLieInNodes(d) /\ ArraysAreNumbered(d)
  BY TreesAre
<1>2. ASSUME NEW f \in F
      PROVE  f \in NodePaths /\ f # <<>> /\ IsPrefix(f, f)
  <2>1. PICK q \in NodePaths, s \in Steps : f = Append(q, s)
    OBVIOUS
  <2>2. f \in NodePaths /\ f # <<>>
    BY <2>1, AppendFacts
  <2> QED
    BY <2>2, RootFacts, PrefixIsConcat
<1>3. ASSUME NEW f \in F PROVE ~IsPrefix(f, <<>>)
  <2>1. <<>> \in NodePaths /\ \A p, r \in NodePaths : p \o r = <<>> => p = <<>>
    BY RootFacts, ConcatSimplifications DEF NodePaths
  <2> QED
    BY <1>2, <2>1, PrefixIsConcat
<1>4. ASSUME NEW q \in NodePaths, NEW s \in Steps, NEW f \in F
      PROVE  IsPrefix(f, Append(q, s)) <=> IsPrefix(f, q) \/ f = Append(q, s)
  BY <1>2, PrefixOfAppend
<1>5. IsRooted(e)
  BY <1>1, <1>3, RootFacts DEF IsRooted, FieldsWritten
<1>6. ASSUME NEW q \in NodePaths, NEW s \in Steps, Append(q, s) \in F
      PROVE  IsKey(s) /\ Has(d, q) /\ d[q] = Record /\ \A g \in F : ~IsPrefix(g, q)
  <2>1. PICK p \in NodePaths, t \in Steps :
           /\ Append(q, s) = Append(p, t) /\ IsKey(t) /\ Has(d, p) /\ d[p] = Record
           /\ \A g \in F : ~IsPrefix(g, p)
    BY <1>6
  <2>2. q = p /\ s = t
    BY <2>1, AppendInjects
  <2> QED
    BY <2>1, <2>2
<1>7. ASSUME NEW q \in NodePaths, \A f \in F : ~IsPrefix(f, q)
      PROVE  q \notin F /\ (Has(d, q) => Has(e, q) /\ e[q] = d[q])
  BY <1>2, <1>7 DEF FieldsWritten
<1>8. NodesLieInNodes(e)
  <2> SUFFICES ASSUME NEW q \in NodePaths, NEW s \in Steps, Has(e, Append(q, s))
               PROVE  Has(e, q) /\ e[q] = KindOver(s)
    BY DEF NodesLieInNodes
  <2>1. CASE Append(q, s) \in F
    BY <1>6, <1>7, <2>1 DEF KindOver
  <2>2. CASE Append(q, s) \notin F
    <3>1. Append(q, s) \in NodePaths
      BY AppendFacts
    <3>2. Has(d, Append(q, s)) /\ \A f \in F : ~IsPrefix(f, Append(q, s))
      BY <2>2, <3>1 DEF FieldsWritten
    <3>3. Has(d, q) /\ d[q] = KindOver(s)
      BY <1>1, <3>2 DEF NodesLieInNodes
    <3>4. \A f \in F : ~IsPrefix(f, q)
      BY <1>4, <3>2
    <3> QED
      BY <1>7, <3>3, <3>4
  <2> QED
    BY <2>1, <2>2
<1>9. ArraysAreNumbered(e)
  <2> SUFFICES ASSUME NEW q \in NodePaths, Has(e, q), e[q] = Array
               PROVE  \E n \in Nat : StepsAt(e, q) = Numbers(n)
    BY DEF ArraysAreNumbered
  <2>1. CASE q \in F
    <3>1. ASSUME NEW s \in Steps, Has(e, Append(q, s)) PROVE FALSE
      <4>1. Append(q, s) \in NodePaths /\ IsPrefix(q, q) /\ IsPrefix(q, Append(q, s))
        BY <1>2, <1>4, <2>1, AppendFacts
      <4>2. Append(q, s) \in F
        BY <2>1, <3>1, <4>1 DEF FieldsWritten
      <4> QED
        BY <1>6, <2>1, <4>1, <4>2
    <3>2. StepsAt(e, q) = {}
      BY <3>1 DEF StepsAt
    <3>3. Numbers(0) = {}
      BY DEF Numbers
    <3> QED
      BY <3>2, <3>3
  <2>2. CASE q \notin F
    <3>1. Has(d, q) /\ d[q] = Array /\ \A f \in F : ~IsPrefix(f, q)
      BY <2>2 DEF FieldsWritten
    <3>2. ASSUME NEW s \in Steps PROVE Has(e, Append(q, s)) <=> Has(d, Append(q, s))
      <4>1. Append(q, s) \in NodePaths
        BY AppendFacts
      <4>2. Append(q, s) \notin F
        BY <1>6, <3>1 DEF Record, Array
      <4>3. \A f \in F : ~IsPrefix(f, Append(q, s))
        BY <1>4, <3>1, <4>2
      <4> QED
        BY <4>1, <4>2, <4>3 DEF FieldsWritten
    <3>3. StepsAt(e, q) = StepsAt(d, q)
      BY <3>2 DEF StepsAt
    <3> QED
      BY <1>1, <3>1, <3>3 DEF ArraysAreNumbered
  <2> QED
    BY <2>1, <2>2
<1> QED
  BY <1>5, <1>8, <1>9, TreesAre

\* Nothing is cut where nothing is.
LEMMA NothingToCut ==
  ASSUME NEW d, IsTree(d), NEW p \in NodePaths, ~Has(d, p)
  PROVE  Cut(d, p) = d
<1>1. IsNodes(d)
  BY TreesAre DEF IsRooted
<1>2. \A q \in NodePaths : Has(d, q) => ~IsPrefix(p, q)
  <2> SUFFICES ASSUME NEW q \in NodePaths, Has(d, q), IsPrefix(p, q) PROVE FALSE
    OBVIOUS
  <2>1. PICK r \in NodePaths : q = p \o r
    BY PrefixIsConcat
  <2> QED
    BY <2>1, PrefixesAreThere
<1>3. CutFrom(d, p, d)
  BY <1>1, <1>2 DEF CutFrom
<1> QED
  BY <1>1, <1>3, CutNodes, CutsEqual

LEMMA PutIsThere ==
  ASSUME NEW d, NEW p \in NodePaths, NEW t, IsTree(t), NEW e, PutInto(d, p, t, e)
  PROVE  Has(e, p) /\ e[p] = t[<<>>]
<1>1. Has(t, <<>>)
  BY DEF IsTree
<1>2. Has(e, p \o <<>>) /\ e[p \o <<>>] = t[<<>>]
  BY <1>1, RootFacts DEF PutInto, SubtreeOf
<1> QED
  BY <1>2, RootFacts

\* A field moved, and moved back.
LEMMA MovesAreUndone ==
  ASSUME NEW d, IsTree(d), NEW from \in NodePaths, NEW to \in NodePaths,
         FieldAt(d, from), FreeAt(Cut(d, from), to), ~Has(d, to)
  PROVE  LET made == Put(Cut(d, from), to, Subtree(d, from))
         IN /\ IsTree(made) /\ FieldAt(made, to) /\ FreeAt(made, from)
            /\ FreeAt(Cut(made, to), from)
            /\ Put(Cut(made, to), from, Subtree(made, to)) = d
<1> DEFINE e == Cut(d, from)
           s == Subtree(d, from)
           made == Put(e, to, s)
<1>1. IsNodes(d) /\ Has(d, from) /\ from # <<>> /\ IsKey(Last(from))
  BY TreesAre DEF IsRooted, FieldAt
<1>2. CutFrom(d, from, e) /\ SubtreeOf(d, from, s)
  BY <1>1, CutNodes, SubtreeNodes
<1>3. IsTree(e) /\ IsTree(s)
  <2> HIDE DEF e, s
  <2> QED
    BY <1>1, <1>2, CutKeepsTrees, SubtreesAreTrees
<1>4. FreeAt(e, to)
  OBVIOUS
<1>5. to # <<>> /\ IsKey(Last(to)) /\ ~Has(e, to)
  BY <1>4 DEF FreeAt
<1>6. Cut(e, from) = e
  <2> HIDE DEF s, made
  <2>1. IsPrefix(from, from)
    BY RootFacts, PrefixIsConcat
  <2>2. ~Has(e, from)
    BY <1>2, <2>1 DEF CutFrom
  <2> HIDE DEF e
  <2> QED
    BY <1>3, <2>2, NothingToCut
<1>7. Put(e, from, s) = d
  <2>1. Put(e, from, s) = Put(d, from, s)
    BY <1>6 DEF Put
  <2> QED
    BY <1>1, <2>1, PutBack
<1> HIDE DEF e, s
<1>8. IsNodes(e) /\ IsNodes(s)
  BY <1>3, TreesAre DEF IsRooted
<1>9. PutInto(e, to, s, made)
  BY <1>8, PutNodes
<1>10. Subtree(made, to) = s /\ Cut(made, to) = e
  BY <1>3, <1>5, <1>8, PutThenTake, NothingToCut
<1> HIDE DEF made
<1>11. IsTree(made)
  BY <1>3, <1>4, <1>9, PutKeepsTrees
<1>12. FieldAt(made, to)
  <2>1. Has(made, to)
    BY <1>3, <1>9, PutIsThere
  <2> QED
    BY <1>5, <2>1 DEF FieldAt
<1> DEFINE f == Front(from)
           l == Last(from)
<1>13. f \in NodePaths /\ l \in Steps /\ from = Append(f, l) /\ IsKey(l)
  BY <1>1, FrontAndLast
<1> HIDE DEF f, l
<1>14. Has(d, f) /\ d[f] = Record /\ ~IsPrefix(from, f)
  <2>1. ~IsPrefix(from, f)
    BY <1>13, PrefixOfAppend
  <2> QED
    BY <1>1, <1>13, <2>1, TreesAre DEF NodesLieInNodes, KindOver
<1>15. ~IsPrefix(to, f) /\ ~IsPrefix(to, from)
  <2>1. ASSUME NEW q \in NodePaths, Has(d, q) PROVE ~IsPrefix(to, q)
    <3> SUFFICES ASSUME IsPrefix(to, q) PROVE FALSE
      OBVIOUS
    <3>1. PICK r \in NodePaths : q = to \o r
      BY PrefixIsConcat
    <3> QED
      BY <2>1, <3>1, PrefixesAreThere
  <2> QED
    BY <1>1, <1>13, <1>14, <2>1
<1>16. Has(e, f) /\ e[f] = Record /\ ~Has(e, from)
  <2>1. IsPrefix(from, from)
    BY RootFacts, PrefixIsConcat
  <2> QED
    BY <1>2, <1>13, <1>14, <2>1 DEF CutFrom
<1>17. Has(made, f) /\ made[f] = Record /\ ~Has(made, from)
  BY <1>9, <1>13, <1>15, <1>16 DEF PutInto
<1>18. FreeAt(made, from) /\ FreeAt(e, from)
  BY <1>1, <1>16, <1>17 DEF FreeAt, IsRecordAt, Kind, Record, f
<1>19. FreeAt(Cut(made, to), from) /\ Put(Cut(made, to), from, Subtree(made, to)) = d
  BY <1>7, <1>10, <1>18
<1> QED
  BY <1>11, <1>12, <1>18, <1>19 DEF made, e, s

\* A node wrapped in an array, and unwrapped.
LEMMA WrapsAreUndone ==
  ASSUME NEW d, IsTree(d), NEW p \in NodePaths, Has(d, p)
  PROVE  LET made == PutElements(d, p, <<Subtree(d, p)>>)
         IN /\ IsTree(made) /\ IsArrayAt(made, p) /\ Length(made, p) = 1
            /\ Put(made, p, Elements(made, p)[1]) = d
<1> DEFINE s == Subtree(d, p)
           es == <<s>>
           a == ArrayOf(es)
           made == Put(d, p, a)
           X == {s}
<1>1. IsNodes(d)
  BY TreesAre DEF IsRooted
<1>2. SubtreeOf(d, p, s) /\ Put(d, p, s) = d
  BY <1>1, SubtreeNodes, PutBack
<1> HIDE DEF s
<1>3. IsTree(s)
  BY <1>2, SubtreesAreTrees
<1>4. es \in Seq(X) /\ Len(es) = 1 /\ DOMAIN es = {1} /\ es[1] = s
  OBVIOUS
<1>5. \A t \in X : IsTree(t)
  BY <1>3
<1> HIDE DEF es, X
<1>6. IsTree(made)
  BY <1>4, <1>5, PutElementsKeepsTrees DEF PutElements
<1>7. ArrayWith(es, a) /\ IsTree(a) /\ StepsAt(a, <<>>) = Numbers(1)
  BY <1>4, <1>5, SequencesOfTrees
<1> HIDE DEF a
<1>8. IsNodes(a) /\ a[<<>>] = Array
  BY <1>7 DEF ArrayWith
<1>9. PutInto(d, p, a, made)
  BY <1>1, <1>8, PutNodes
<1>10. \A u : Put(made, p, u) = Put(d, p, u)
  BY <1>1, <1>8, PutThenTake
<1> HIDE DEF made
<1>11. IsArrayAt(made, p)
  BY <1>7, <1>8, <1>9, PutIsThere DEF IsArrayAt, Kind
<1>12. ASSUME NEW t \in Steps, NEW r \in NodePaths
       PROVE  /\ <<t>> \o r \in NodePaths /\ Append(p, t) \o r = p \o (<<t>> \o r)
              /\ (Has(made, Append(p, t) \o r) <=> Has(a, <<t>> \o r))
              /\ (Has(a, <<t>> \o r) => made[Append(p, t) \o r] = a[<<t>> \o r])
  <2>1. <<t>> \o r \in NodePaths
    BY StepsThenOthers
  <2>2. Append(p, t) \o r = p \o (<<t>> \o r)
    BY StepsThenOthers
  <2> QED
    BY <1>9, <2>1, <2>2 DEF PutInto, SubtreeOf
<1>13. Length(made, p) = 1
  <2>1. ASSUME NEW t \in Steps PROVE Has(made, Append(p, t)) <=> Has(a, Append(<<>>, t))
    <3>1. Append(p, t) \in NodePaths /\ <<t>> \in NodePaths /\ Append(<<>>, t) = <<t>>
      BY OneStep, AppendFacts
    <3>2. Append(p, t) \o <<>> = Append(p, t) /\ <<t>> \o <<>> = <<t>> /\ <<>> \in NodePaths
      BY <3>1, RootFacts
    <3>3. Has(made, Append(p, t) \o <<>>) <=> Has(a, <<t>> \o <<>>)
      BY <1>12, <3>2
    <3> QED
      BY <3>1, <3>2, <3>3
  <2>2. StepsAt(made, p) = Numbers(1)
    BY <1>7, <2>1 DEF StepsAt
  <2> QED
    BY <1>6, <2>2, NumbersCount, TreesAre DEF IsRooted
<1>14. Elements(made, p)[1] = s
  <2> DEFINE q == Append(p, Index(1))
  <2>1. Index(1) \in Steps /\ q \in NodePaths
    BY IndexIsStep, AppendFacts
  <2>2. Elements(made, p)[1] = Subtree(made, q)
    BY <1>13 DEF Elements
  <2>3. \A r \in NodePaths : Has(a, <<Index(1)>> \o r) <=> Has(s, r)
    BY <1>4, <1>7, <2>1 DEF ArrayWith
  <2>4. \A r \in NodePaths : Has(s, r) => a[<<Index(1)>> \o r] = s[r]
    BY <1>4, <1>7 DEF ArrayWith
  <2>5. SubtreeOf(made, q, s)
    <3>1. ASSUME NEW r \in NodePaths PROVE (Has(s, r) <=> Has(made, q \o r)) /\ (Has(s, r) => s[r] = made[q \o r])
      BY <1>12, <2>1, <2>3, <2>4
    <3> HIDE DEF q
    <3> QED
      BY <1>2, <3>1 DEF SubtreeOf
  <2> HIDE DEF q
  <2>6. SubtreeOf(made, q, Subtree(made, q))
    BY <1>6, <2>1, SubtreeNodes, TreesAre DEF IsRooted
  <2> QED
    BY <2>2, <2>5, <2>6, SubtreesEqual
<1> QED
  BY <1>2, <1>6, <1>10, <1>11, <1>13, <1>14 DEF PutElements, made, a, es, s

\* The one element of an array in its place, and wrapped again.
LEMMA UnwrapsAreUndone ==
  ASSUME NEW d, IsTree(d), NEW p \in NodePaths, IsArrayAt(d, p), Length(d, p) = 1
  PROVE  LET made == Put(d, p, Elements(d, p)[1])
         IN /\ IsTree(made) /\ Has(made, p)
            /\ PutElements(made, p, <<Subtree(made, p)>>) = d
<1> DEFINE s == Elements(d, p)[1]
           q == Append(p, Index(1))
           made == Put(d, p, s)
           es == <<s>>
           a == ArrayOf(es)
           w == Subtree(d, p)
           X == {s}
<1>1. IsNodes(d) /\ Has(d, p) /\ d[p] = Array
  BY TreesAre DEF IsRooted, IsArrayAt, Kind, Record, Array
<1>2. 1 \in 1 .. 1
  OBVIOUS
<1>3. q \in NodePaths /\ SubtreeOf(d, q, s) /\ IsTree(s) /\ StepsAt(d, p) = Numbers(1)
  BY <1>2, ElementsAre
<1> HIDE DEF s
<1>4. IsNodes(s)
  BY <1>3, TreesAre DEF IsRooted
<1>5. PutInto(d, p, s, made)
  BY <1>1, <1>4, PutNodes
<1>6. IsTree(made) /\ Has(made, p)
  <2> HIDE DEF made
  <2> QED
    BY <1>1, <1>3, <1>5, PutKeepsTrees, PutIsThere
<1>7. Subtree(made, p) = s /\ \A u : Put(made, p, u) = Put(d, p, u)
  BY <1>1, <1>4, PutThenTake
<1>8. es \in Seq(X) /\ DOMAIN es = {1} /\ es[1] = s
  OBVIOUS
<1>9. \A t \in X : IsTree(t)
  BY <1>3
<1>10. SubtreeOf(d, p, w) /\ Put(d, p, w) = d
  BY <1>1, SubtreeNodes, PutBack
<1> HIDE DEF es, X, w
<1>11. ArrayWith(es, a) /\ IsTree(a)
  BY <1>8, <1>9, SequencesOfTrees
<1> HIDE DEF a
<1>12. ASSUME NEW t \in Steps, NEW r \in NodePaths
       PROVE  /\ <<t>> \o r \in NodePaths /\ p \o (<<t>> \o r) = Append(p, t) \o r
              /\ Append(p, t) \in NodePaths
  BY StepsThenOthers
<1>13. ASSUME NEW t \in Steps, NEW r \in NodePaths
       PROVE  (Has(a, <<t>> \o r) <=> Has(w, <<t>> \o r)) /\ (Has(a, <<t>> \o r) => a[<<t>> \o r] = w[<<t>> \o r])
  <2>1. Has(w, <<t>> \o r) <=> Has(d, Append(p, t) \o r)
    BY <1>10, <1>12 DEF SubtreeOf
  <2>2. Has(w, <<t>> \o r) => w[<<t>> \o r] = d[Append(p, t) \o r]
    BY <1>10, <1>12 DEF SubtreeOf
  <2>3. Has(a, <<t>> \o r) <=> t = Index(1) /\ Has(s, r)
    BY <1>8, <1>11 DEF ArrayWith
  <2>4. CASE t = Index(1)
    <3>1. Has(s, r) <=> Has(d, q \o r)
      BY <1>3 DEF SubtreeOf
    <3>2. Has(s, r) => s[r] = d[q \o r]
      BY <1>3 DEF SubtreeOf
    <3>3. Has(s, r) => a[<<t>> \o r] = s[r]
      BY <1>8, <1>11, <2>4 DEF ArrayWith
    <3> QED
      BY <2>1, <2>2, <2>3, <2>4, <3>1, <3>2, <3>3
  <2>5. CASE t # Index(1)
    <3>1. t \notin StepsAt(d, p)
      BY <1>3, <2>5 DEF Numbers
    <3>2. ~Has(d, Append(p, t))
      BY <3>1 DEF StepsAt
    <3>3. ~Has(d, Append(p, t) \o r)
      BY <1>12, <3>2, PrefixesAreThere
    <3> QED
      BY <2>1, <2>3, <2>5, <3>3
  <2> QED
    BY <2>4, <2>5
<1>14. Has(a, <<>>) /\ a[<<>>] = Array /\ Has(w, <<>>) /\ w[<<>>] = Array
  <2>1. p \o <<>> = p /\ <<>> \in NodePaths
    BY RootFacts
  <2> QED
    BY <1>1, <1>10, <1>11, <2>1 DEF ArrayWith, SubtreeOf
<1>15. a = w
  <2>1. ASSUME NEW u \in NodePaths PROVE (Has(a, u) <=> Has(w, u)) /\ (Has(a, u) => a[u] = w[u])
    <3>1. CASE u = <<>>
      BY <1>14, <3>1
    <3>2. CASE u # <<>>
      <4>1. PICK t \in Steps : \E r \in NodePaths : u = <<t>> \o r
        BY <3>2, FirstStep
      <4>2. PICK r \in NodePaths : u = <<t>> \o r
        BY <4>1
      <4> QED
        BY <1>13, <4>2
    <3> QED
      BY <3>1, <3>2
  <2>2. IsNodes(a) /\ IsNodes(w)
    BY <1>10, <1>11 DEF ArrayWith, SubtreeOf
  <2> QED
    BY <2>1, <2>2, NodesEqual
<1>16. PutElements(made, p, <<Subtree(made, p)>>) = d
  BY <1>7, <1>10, <1>15 DEF PutElements, a, es
<1> QED
  BY <1>6, <1>16 DEF made, s

LEMMA RenamesAreMoves ==
  ASSUME NEW d, IsTree(d), NEW op, op.from \in NodePaths, op.to \in NodePaths,
         FieldAt(d, op.from), op.to # <<>>, IsKey(Last(op.to)), ~Has(d, RenamedPath(op))
  PROVE  /\ RenamedPath(op) \in NodePaths /\ FreeAt(Cut(d, op.from), RenamedPath(op))
         /\ Front(RenamedPath(op)) = Front(op.from)
<1> DEFINE from == op.from
           f == Front(from)
           l == Last(op.to)
           to == Append(f, l)
           e == Cut(d, from)
<1>1. to = RenamedPath(op) /\ from \in NodePaths /\ from # <<>> /\ IsKey(Last(from)) /\ Has(d, from) /\ IsKey(l)
  BY DEF RenamedPath, FieldAt
<1>2. f \in NodePaths /\ Last(from) \in Steps /\ from = Append(f, Last(from)) /\ l \in Steps
  BY <1>1, FrontAndLast
<1> HIDE DEF f, l
<1>3. to \in NodePaths /\ to # <<>> /\ Front(to) = f /\ Last(to) = l
  BY <1>2, AppendFacts
<1>4. CutFrom(d, from, e)
  BY <1>1, CutNodes, TreesAre DEF IsRooted
<1> HIDE DEF e, from, to
<1> DEFINE s == Last(from)
<1>5. s \in Steps /\ from = Append(f, s) /\ IsKey(s)
  BY <1>1, <1>2
<1> HIDE DEF s
<1>6. Has(d, f) /\ d[f] = Record /\ ~IsPrefix(from, f)
  <2>1. ~IsPrefix(from, f)
    BY <1>1, <1>2, <1>5, PrefixOfAppend
  <2> QED
    BY <1>1, <1>2, <1>5, <2>1, TreesAre DEF NodesLieInNodes, KindOver
<1>7. Has(e, f) /\ e[f] = Record /\ ~Has(e, to)
  BY <1>1, <1>2, <1>3, <1>4, <1>6 DEF CutFrom
<1>8. FreeAt(e, to)
  BY <1>1, <1>3, <1>7 DEF FreeAt, IsRecordAt, Kind, Record
<1> QED
  BY <1>1, <1>3, <1>8 DEF e, from, f

\* merge_defaults writes only fields that are absent.
LEMMA DefaultsKeepTrees ==
  ASSUME NEW d, IsTree(d), NEW op, op.kind = "merge_defaults", op.path \in NodePaths,
         DOMAIN op.defaults \subseteq STRING, IsRecordAt(d, op.path)
  PROVE  IsTree(OpResult(d, op))
<1> DEFINE p == op.path
           F == {Append(p, KeyStep(k)) : k \in Absent(d, op)}
           g == [q \in F |-> op.defaults[Last(q)[1]]]
           e == [q \in DOMAIN d \cup DOMAIN g |-> IF q \in DOMAIN g THEN g[q] ELSE d[q]]
<1>1. OpResult(d, op) = e
  BY DEF OpResult, Merged
<1>2. \A k \in Absent(d, op) : k \in STRING /\ ~Has(d, Append(p, KeyStep(k)))
  BY DEF Absent
<1>3. Has(d, p) /\ d[p] = Record /\ p \in NodePaths /\ IsNodes(d)
  BY TreesAre DEF IsRecordAt, Kind, Record, Array, IsRooted
<1> HIDE DEF p
<1>4. ASSUME NEW f \in F
      PROVE  \E s \in Steps : f = Append(p, s) /\ IsKey(s) /\ f \in NodePaths /\ ~Has(d, f)
  <2>1. PICK k \in Absent(d, op) : f = Append(p, KeyStep(k))
    OBVIOUS
  <2>2. KeyStep(k) \in Steps /\ IsKey(KeyStep(k))
    BY <1>2, IndexIsStep
  <2> QED
    BY <1>2, <1>3, <2>1, <2>2, AppendFacts
<1>5. DOMAIN g = F
  OBVIOUS
<1> HIDE DEF F, g
<1>6. DOMAIN e = DOMAIN d \cup F /\ e = [q \in DOMAIN e |-> e[q]]
  BY <1>5
<1>7. \A q \in DOMAIN d : q \notin F => e[q] = d[q]
  BY <1>5
<1> HIDE DEF e
<1>8. \A f \in F : \A q \in NodePaths : Has(d, q) => ~IsPrefix(f, q)
  <2> SUFFICES ASSUME NEW f \in F, NEW q \in NodePaths, Has(d, q), IsPrefix(f, q) PROVE FALSE
    OBVIOUS
  <2>1. f \in NodePaths /\ ~Has(d, f)
    BY <1>4
  <2>2. PICK r \in NodePaths : q = f \o r
    BY <2>1, PrefixIsConcat
  <2> QED
    BY <2>1, <2>2, PrefixesAreThere
<1>9. FieldsWritten(d, F, e)
  BY <1>3, <1>4, <1>6, <1>7, <1>8 DEF FieldsWritten, IsNodes, Has
<1>10. \A f \in F : \E q \in NodePaths, s \in Steps :
         /\ f = Append(q, s) /\ IsKey(s) /\ Has(d, q) /\ d[q] = Record
         /\ \A h \in F : ~IsPrefix(h, q)
  BY <1>3, <1>4, <1>8
<1> QED
  BY <1>1, <1>9, <1>10, WrittenFieldsKeepTrees

\* set_value_where writes one field of each record that matches.
LEMMA SetsKeepTrees ==
  ASSUME NEW d, IsTree(d), NEW op, op.kind = "set_value_where", op.path \in NodePaths,
         op.field \in STRING, IsArrayAt(d, op.path)
  PROVE  IsTree(OpResult(d, op))
<1> DEFINE p == op.path
           F == FieldsToSet(d, op)
           K == {q \in DOMAIN d : \A f \in F : ~IsPrefix(f, q)}
           c == [q \in K |-> d[q]]
           g == [f \in F |-> op.value[<<>>]]
           e == [q \in DOMAIN c \cup DOMAIN g |-> IF q \in DOMAIN g THEN g[q] ELSE c[q]]
           s == KeyStep(op.field)
           N == RecordsAt(d, op)
<1>1. OpResult(d, op) = e
  BY DEF OpResult, Merged, Restrict
<1>2. s \in Steps /\ IsKey(s) /\ IsNodes(d) /\ p \in NodePaths
  BY IndexIsStep, TreesAre DEF IsRooted
<1>3. ASSUME NEW n \in N
      PROVE  /\ Index(n) \in Steps /\ Append(p, Index(n)) \in NodePaths
             /\ Has(d, Append(p, Index(n))) /\ d[Append(p, Index(n))] = Record
  <2>1. n \in 1 .. Length(d, p) /\ Kind(d[Append(p, Index(n))]) = Record /\ Length(d, p) \in Nat
    BY ElementsAre DEF RecordsAt, Matching
  <2>2. Has(d, Append(p, Index(n))) /\ Append(p, Index(n)) \in NodePaths
    BY <2>1, ElementsAre
  <2>3. Index(n) \in Steps
    BY <2>1, IndexIsStep
  <2> QED
    BY <2>1, <2>2, <2>3 DEF Kind, Record, Array
<1>4. F = {p \o <<Index(n), s>> : n \in N}
  BY DEF FieldsToSet
<1>5. \A f : f \in F <=> \E n \in N : f = p \o <<Index(n), s>>
  BY <1>4
<1> HIDE DEF s, N, F, p
<1>6. ASSUME NEW n \in N
      PROVE  /\ p \o <<Index(n), s>> = Append(Append(p, Index(n)), s)
             /\ Len(p \o <<Index(n), s>>) = Len(p) + 2 /\ Len(Append(p, Index(n))) = Len(p) + 1
             /\ p \o <<Index(n), s>> \in NodePaths
  <2> DEFINE S == Steps
             i == Index(n)
  <2>1. p \in Seq(S) /\ s \in S /\ i \in S
    BY <1>2, <1>3 DEF NodePaths
  <2> HIDE DEF S, i
  <2>2. /\ p \o <<i, s>> = Append(Append(p, i), s) /\ Len(p \o <<i, s>>) = Len(p) + 2
        /\ Len(Append(p, i)) = Len(p) + 1 /\ p \o <<i, s>> \in Seq(S)
    BY <2>1
  <2> QED
    BY <2>2 DEF S, i, NodePaths
<1>7. Len(p) \in Nat
  BY <1>2, LenProperties DEF NodePaths
<1>8. ASSUME NEW f \in F
      PROVE  /\ f \in NodePaths
             /\ \E q \in NodePaths : f = Append(q, s) /\ Has(d, q) /\ d[q] = Record /\ \A h \in F : ~IsPrefix(h, q)
  <2>1. PICK n \in N : f = p \o <<Index(n), s>>
    BY <1>5
  <2> DEFINE q == Append(p, Index(n))
  <2>2. q \in NodePaths /\ f = Append(q, s) /\ Has(d, q) /\ d[q] = Record /\ Len(q) = Len(p) + 1
    BY <1>3, <1>6, <2>1
  <2> HIDE DEF q
  <2>3. \A h \in F : Len(h) = Len(p) + 2
    BY <1>5, <1>6
  <2>4. \A h \in F : ~IsPrefix(h, q)
    BY <1>7, <2>2, <2>3 DEF IsPrefix
  <2>5. f \in NodePaths
    BY <1>6, <2>1
  <2> QED
    BY <2>2, <2>4, <2>5
<1>9. DOMAIN c = K /\ DOMAIN g = F /\ (\A q \in K : c[q] = d[q])
  OBVIOUS
<1>10. \A q : q \in K <=> Has(d, q) /\ \A f \in F : ~IsPrefix(f, q)
  BY DEF Has
<1> HIDE DEF K, c, g
<1>11. DOMAIN e = K \cup F /\ e = [q \in DOMAIN e |-> e[q]] /\ \A q \in K : q \notin F => e[q] = d[q]
  BY <1>9
<1> HIDE DEF e
<1>12. K \subseteq NodePaths
  BY <1>2, <1>10 DEF Has, IsNodes
<1>13. FieldsWritten(d, F, e)
  BY <1>8, <1>10, <1>11, <1>12 DEF FieldsWritten, IsNodes, Has
<1>14. \A f \in F : \E q \in NodePaths, t \in Steps :
         /\ f = Append(q, t) /\ IsKey(t) /\ Has(d, q) /\ d[q] = Record
         /\ \A h \in F : ~IsPrefix(h, q)
  BY <1>2, <1>8
<1> QED
  BY <1>1, <1>13, <1>14, WrittenFieldsKeepTrees

\* Every op keeps the documents trees.
LEMMA OpsKeepTrees ==
  ASSUME NEW d, IsTree(d), NEW op, OpIsWellFormed(op), OpAllowed(d, op)
  PROVE  IsTree(OpResult(d, op))
<1>1. IsNodes(d) /\ NodesLieInNodes(d)
  BY TreesAre DEF IsRooted
<1>2. CASE op.kind \in {"rename_field", "move_field"}
  <2>1. op.from \in NodePaths /\ op.to \in NodePaths
    BY <1>2 DEF OpIsWellFormed
  <2>2. CASE op.kind = "rename_field"
    <3> DEFINE to == RenamedPath(op)
    <3>1. to \in NodePaths /\ FieldAt(d, op.from) /\ FreeAt(Cut(d, op.from), to) /\ ~Has(d, to)
      BY <2>1, <2>2, RenamesAreMoves DEF OpAllowed
    <3>2. OpResult(d, op) = Put(Cut(d, op.from), to, Subtree(d, op.from))
      BY <2>2 DEF OpResult
    <3> HIDE DEF to
    <3> QED
      BY <2>1, <3>1, <3>2, MovesAreUndone
  <2>3. CASE op.kind = "move_field"
    <3>1. FieldAt(d, op.from) /\ FreeAt(Cut(d, op.from), op.to) /\ ~Has(d, op.to)
      BY <2>3 DEF OpAllowed, FreeAt
    <3>2. OpResult(d, op) = Put(Cut(d, op.from), op.to, Subtree(d, op.from))
      BY <2>3 DEF OpResult
    <3> QED
      BY <2>1, <3>1, <3>2, MovesAreUndone
  <2> QED
    BY <1>2, <2>2, <2>3
<1>3. ASSUME op.kind \notin {"rename_field", "move_field"} PROVE op.path \in NodePaths
  BY <1>3 DEF OpIsWellFormed
<1>4. CASE op.kind = "wrap_in_array"
  <2>1. Has(d, op.path) /\ OpResult(d, op) = PutElements(d, op.path, <<Subtree(d, op.path)>>)
    BY <1>4 DEF OpAllowed, OpResult
  <2> QED
    BY <1>3, <1>4, <2>1, WrapsAreUndone
<1>5. CASE op.kind = "unwrap_singleton"
  <2>1. /\ IsArrayAt(d, op.path) /\ Length(d, op.path) = 1
        /\ OpResult(d, op) = Put(d, op.path, Elements(d, op.path)[1])
    BY <1>5 DEF OpAllowed, OpResult
  <2> QED
    BY <1>3, <1>5, <2>1, UnwrapsAreUndone
<1>6. CASE op.kind \in {"set_value", "add_field", "add_collection"}
  <2>1. /\ Has(d, op.path) \/ FreeAt(d, op.path)
        /\ OpResult(d, op) = Put(d, op.path, op.value) /\ IsTree(op.value)
    BY <1>6 DEF OpAllowed, OpResult, OpIsWellFormed
  <2> DEFINE v == op.value
             p == op.path
  <2>2. p \in NodePaths /\ IsTree(v) /\ (Has(d, p) \/ FreeAt(d, p)) /\ OpResult(d, op) = Put(d, p, v)
    BY <1>3, <1>6, <2>1
  <2> HIDE DEF v, p
  <2>3. PutInto(d, p, v, Put(d, p, v))
    BY <1>1, <2>2, PutNodes, TreesAre DEF IsRooted
  <2> QED
    BY <2>2, <2>3, PutKeepsTrees
<1>7. CASE op.kind \in {"remove_field", "drop_collection"}
  <2>1. FieldAt(d, op.path) /\ OpResult(d, op) = Cut(d, op.path)
    BY <1>7 DEF OpAllowed, OpResult
  <2> QED
    BY <1>1, <1>3, <1>7, <2>1, CutNodes, CutKeepsTrees
<1>8. CASE op.kind \in {"append", "remove_where"}
  <2> DEFINE p == op.path
             n == Length(d, p)
             es == Elements(d, p)
             X == {es[k] : k \in 1 .. n}
             Y == X \cup {op.value}
  <2>1. p \in NodePaths /\ IsArrayAt(d, p) /\ Has(d, p)
    BY <1>3, <1>8 DEF OpAllowed, IsArrayAt
  <2>2. es \in Seq(X) /\ \A k \in 1 .. n : IsTree(es[k])
    BY <2>1, ElementsAre
  <2>3. \A t \in X : IsTree(t)
    BY <2>2
  <2>4. CASE op.kind = "append"
    <3>1. IsTree(op.value) /\ OpResult(d, op) = PutElements(d, p, Append(es, op.value))
      BY <2>4 DEF OpIsWellFormed, OpResult
    <3> HIDE DEF p, n, es
    <3>2. \A t \in Y : IsTree(t)
      BY <2>3, <3>1
    <3> HIDE DEF X
    <3>3. Append(es, op.value) \in Seq(Y)
      BY <2>2
    <3> HIDE DEF Y
    <3> QED
      BY <2>1, <3>1, <3>2, <3>3, PutElementsKeepsTrees
  <2>5. CASE op.kind = "remove_where"
    <3>1. OpResult(d, op) = PutElements(d, p, Remaining(op.where, es))
      BY <2>5 DEF OpResult
    <3> HIDE DEF p, n, es, X
    <3>2. Remaining(op.where, es) \in Seq(X)
      BY <2>2, RemainingAreElements
    <3> QED
      BY <2>1, <2>3, <3>1, <3>2, PutElementsKeepsTrees
  <2> QED
    BY <1>8, <2>4, <2>5
<1>9. CASE op.kind = "merge_defaults"
  <2> DEFINE p == op.path
  <2>1. IsRecordAt(d, p) /\ DOMAIN op.defaults \subseteq STRING /\ p \in NodePaths
    BY <1>3, <1>9 DEF OpAllowed, OpIsWellFormed
  <2> QED
    BY <1>9, <2>1, DefaultsKeepTrees
<1>10. CASE op.kind = "set_value_where"
  <2>1. IsArrayAt(d, op.path) /\ op.field \in STRING /\ op.path \in NodePaths
    BY <1>3, <1>10 DEF OpAllowed, OpIsWellFormed
  <2> QED
    BY <1>10, <2>1, SetsKeepTrees
<1>11. op.kind \in {"rename_field", "move_field", "wrap_in_array", "unwrap_singleton", "set_value",
         "add_field", "add_collection", "remove_field", "drop_collection", "append", "remove_where",
         "merge_defaults", "set_value_where"}
  BY DEF OpIsWellFormed, KnownOps
<1> QED
  BY <1>2, <1>4, <1>5, <1>6, <1>7, <1>8, <1>9, <1>10, <1>11

\* Every op that has an inverse is undone by it.
LEMMA InversesUndo ==
  ASSUME NEW d, IsTree(d), NEW op \in Invertible, OpIsWellFormed(op), OpAllowed(d, op)
  PROVE  LET made == OpResult(d, op)
         IN OpAllowed(made, InverseOf(op)) /\ OpResult(made, InverseOf(op)) = d
<1> DEFINE made == OpResult(d, op)
           inv == InverseOf(op)
<1>1. IsNodes(d)
  BY TreesAre DEF IsRooted
<1>2. CASE op.kind \in {"rename_field", "move_field"}
  <2>1. op.from \in NodePaths /\ op.to \in NodePaths /\ FieldAt(d, op.from)
    BY <1>2 DEF OpIsWellFormed, OpAllowed
  <2>2. CASE op.kind = "rename_field"
    <3> DEFINE to == RenamedPath(op)
    <3>1. to \in NodePaths /\ FreeAt(Cut(d, op.from), to) /\ ~Has(d, to) /\ Front(to) = Front(op.from)
      BY <2>1, <2>2, RenamesAreMoves DEF OpAllowed
    <3>2. made = Put(Cut(d, op.from), to, Subtree(d, op.from))
      BY <2>2 DEF OpResult
    <3>3. inv.kind = "rename_field" /\ inv.from = to /\ inv.to = op.from
      BY <2>2 DEF InverseOf
    <3> HIDE DEF to, made, inv
    <3>4. /\ FieldAt(made, to) /\ FreeAt(made, op.from)
          /\ Put(Cut(made, to), op.from, Subtree(made, to)) = d
      BY <2>1, <3>1, <3>2, MovesAreUndone
    <3>5. RenamedPath(inv) = op.from /\ op.from # <<>> /\ IsKey(Last(op.from))
      <4>1. op.from # <<>> /\ IsKey(Last(op.from))
        BY <2>1 DEF FieldAt
      <4>2. op.from = Append(Front(op.from), Last(op.from))
        BY <2>1, <4>1, FrontAndLast
      <4> QED
        BY <3>1, <3>3, <4>1, <4>2 DEF RenamedPath
    <3>6. OpAllowed(made, inv)
      BY <3>3, <3>4, <3>5 DEF OpAllowed, FreeAt
    <3>7. OpResult(made, inv) = d
      BY <3>3, <3>4, <3>5 DEF OpResult
    <3> QED
      BY <3>6, <3>7 DEF made, inv
  <2>3. CASE op.kind = "move_field"
    <3>1. FreeAt(Cut(d, op.from), op.to) /\ ~Has(d, op.to)
      BY <2>3 DEF OpAllowed, FreeAt
    <3>2. made = Put(Cut(d, op.from), op.to, Subtree(d, op.from))
      BY <2>3 DEF OpResult
    <3>3. inv.kind = "move_field" /\ inv.from = op.to /\ inv.to = op.from
      BY <2>3 DEF InverseOf
    <3> HIDE DEF made, inv
    <3>4. /\ FieldAt(made, op.to) /\ FreeAt(made, op.from) /\ FreeAt(Cut(made, op.to), op.from)
          /\ Put(Cut(made, op.to), op.from, Subtree(made, op.to)) = d
      BY <2>1, <3>1, <3>2, MovesAreUndone
    <3>5. OpAllowed(made, inv)
      BY <3>3, <3>4 DEF OpAllowed
    <3>6. OpResult(made, inv) = d
      BY <3>3, <3>4 DEF OpResult
    <3> QED
      BY <3>5, <3>6 DEF made, inv
  <2> QED
    BY <1>2, <2>2, <2>3
<1> DEFINE p == op.path
<1>3. ASSUME op.kind \notin {"rename_field", "move_field"} PROVE p \in NodePaths
  BY <1>3 DEF OpIsWellFormed
<1>4. CASE op.kind = "wrap_in_array"
  <2>1. Has(d, p) /\ made = PutElements(d, p, <<Subtree(d, p)>>)
    BY <1>4 DEF OpAllowed, OpResult
  <2>2. inv.kind = "unwrap_singleton" /\ inv.path = p
    BY <1>4 DEF InverseOf
  <2>3. p \in NodePaths
    BY <1>3, <1>4
  <2> HIDE DEF p, made, inv
  <2>4. IsArrayAt(made, p) /\ Length(made, p) = 1 /\ Put(made, p, Elements(made, p)[1]) = d
    BY <2>1, <2>3, WrapsAreUndone
  <2>5. OpAllowed(made, inv) /\ OpResult(made, inv) = d
    BY <2>2, <2>4 DEF OpAllowed, OpResult
  <2> QED
    BY <2>5 DEF made, inv
<1>5. CASE op.kind = "unwrap_singleton"
  <2>1. IsArrayAt(d, p) /\ Length(d, p) = 1 /\ made = Put(d, p, Elements(d, p)[1])
    BY <1>5 DEF OpAllowed, OpResult
  <2>2. inv.kind = "wrap_in_array" /\ inv.path = p
    BY <1>5 DEF InverseOf
  <2>3. p \in NodePaths
    BY <1>3, <1>5
  <2> HIDE DEF p, made, inv
  <2>4. Has(made, p) /\ PutElements(made, p, <<Subtree(made, p)>>) = d
    BY <2>1, <2>3, UnwrapsAreUndone
  <2>5. OpAllowed(made, inv) /\ OpResult(made, inv) = d
    BY <2>2, <2>4 DEF OpAllowed, OpResult
  <2> QED
    BY <2>5 DEF made, inv
<1>6. CASE op.kind \in {"add_field", "add_collection"}
  <2> DEFINE v == op.value
  <2>1. FreeAt(d, p) /\ made = Put(d, p, v) /\ IsTree(v)
    BY <1>6 DEF OpAllowed, OpResult, OpIsWellFormed
  <2>2. op.kind = "add_collection" => v[<<>>] = Array
    BY DEF Invertible, AddsCollection
  <2>3. inv.kind = (IF op.kind = "add_field" THEN "remove_field" ELSE "drop_collection") /\ inv.path = p
    BY <1>6 DEF InverseOf
  <2>4. p \in NodePaths
    BY <1>3, <1>6
  <2> HIDE DEF p, made, inv, v
  <2>5. ~Has(d, p) /\ p # <<>> /\ IsKey(Last(p)) /\ IsNodes(v)
    BY <2>1, TreesAre DEF FreeAt, IsRooted
  <2>6. Has(made, p) /\ made[p] = v[<<>>]
    BY <1>1, <2>1, <2>4, <2>5, PutNodes, PutIsThere
  <2>7. FieldAt(made, p) /\ (op.kind = "add_collection" => IsArrayAt(made, p))
    BY <2>2, <2>5, <2>6 DEF FieldAt, IsArrayAt, Kind
  <2>8. Cut(made, p) = d
    BY <1>1, <2>1, <2>4, <2>5, PutThenTake, NothingToCut
  <2>9. OpAllowed(made, inv) /\ OpResult(made, inv) = d
    BY <1>6, <2>3, <2>7, <2>8 DEF OpAllowed, OpResult
  <2> QED
    BY <2>9 DEF made, inv
<1>7. op.kind \in {"rename_field", "move_field", "wrap_in_array", "unwrap_singleton", "add_field", "add_collection"}
  BY DEF Invertible, AddsCollection
<1> QED
  BY <1>2, <1>4, <1>5, <1>6, <1>7

LEMMA DocumentsStayTrees == OpsSpec => []IsTree(tree)
<1>1. OpsInit => IsTree(tree)
  BY DocumentsAreTrees DEF OpsInit
<1>2. IsTree(tree) /\ [OpsNext]_opsVars => IsTree(tree)'
  <2> SUFFICES ASSUME IsTree(tree), [OpsNext]_opsVars PROVE IsTree(tree')
    OBVIOUS
  <2>1. CASE ApplyOp
    <3>1. PICK op \in Ops : OpAllowed(tree, op) /\ tree' = OpResult(tree, op)
      BY <2>1 DEF ApplyOp
    <3>2. OpIsWellFormed(op)
      BY OpsAreWellFormed
    <3> QED
      BY <3>1, <3>2, OpsKeepTrees
  <2>2. CASE UNCHANGED opsVars
    BY <2>2 DEF opsVars
  <2> QED
    BY <2>1, <2>2 DEF OpsNext
<1> QED
  BY <1>1, <1>2, PTL DEF OpsSpec

\* An op that was not refused is undone by its inverse, of every document, whatever ops
\* came before.
THEOREM OpsAreUndone == OpsSpec => []InversesRestore
<1>1. IsTree(tree) => InversesRestore
  <2> SUFFICES ASSUME IsTree(tree), NEW op \in Invertible, OpAllowed(tree, op)
               PROVE  /\ OpAllowed(OpResult(tree, op), InverseOf(op))
                      /\ OpResult(OpResult(tree, op), InverseOf(op)) = tree
    BY DEF InversesRestore
  <2>1. OpIsWellFormed(op)
    BY OpsAreWellFormed DEF Invertible
  <2> QED
    BY <2>1, InversesUndo
<1> QED
  BY <1>1, DocumentsStayTrees, PTL
-------------------------------------------------------------------------------
(***************************************************************************)
(* Validation.  Where no two arms of a union are of one category, a union  *)
(* and the same union turned round are walked alike: so is every node, and *)
(* nothing else looks at arms.                                             *)
(***************************************************************************)
PoolStep(imports, pool, i) ==
  IF imports[i].file \in DOMAIN TypeFiles THEN Merged(TypeFiles[imports[i].file].types, pool) ELSE pool
PoolFold == INSTANCE FoldTheory WITH Op <- PoolStep, Pick <- Max

AnyOf(S) == CHOOSE x \in S : TRUE
DereferenceStep(types, at, step) == IF TypeNamed(types, at).kind = "ref" THEN types[at].to ELSE at
DereferenceFold == INSTANCE FoldTheory WITH Op <- DereferenceStep, Pick <- AnyOf

ArriveStep(p, at, step) == Dispatch(p.types, p.d, at)
ArriveFold == INSTANCE FoldTheory WITH Op <- ArriveStep, Pick <- AnyOf

NextVisits(types, d, at) ==
  UNION {{Arrived(types, d, c) : c \in Children(types, d, v)} : v \in {u \in at : ~IsTooDeep(u)}}
VisitStep(p, seen, n) == seen \cup NextVisits(p.types, p.d, seen)
VisitFold == INSTANCE FoldTheory WITH Op <- VisitStep, Pick <- Max

\* A pool of types takes in what an import brings and loses nothing.
PoolOf(s, k) == PoolFold!Iter(s.imports, s.own, 1 .. Len(s.imports))[1 .. k]

LEMMA TypesArePools ==
  ASSUME NEW s, NEW X, s.imports \in Seq(X)
  PROVE  /\ Types(s) = PoolOf(s, Len(s.imports)) /\ PoolOf(s, 0) = s.own
         /\ \A k \in 1 .. Len(s.imports) : PoolOf(s, k) = PoolStep(s.imports, PoolOf(s, k - 1), k)
<1> DEFINE n == Len(s.imports)
           pool == PoolFold!Iter(s.imports, s.own, 1 .. n)
<1>1. n \in Nat /\ DOMAIN s.imports = 1 .. n
  OBVIOUS
<1>2. Types(s) = pool[1 .. n]
  BY <1>1 DEF Types, FoldLeft, MapThenFoldSet, PoolFold!Iter, PoolFold!Equation, PoolStep
<1>3. PoolFold!GoesInOrder(s.imports, s.own, n)
  BY <1>1, PoolFold!IntervalsUnroll DEF Max
<1> QED
  BY <1>2, <1>3 DEF PoolFold!GoesInOrder, PoolOf

HoldsOfPools(s, k) ==
  /\ UnionsAreFormed(PoolOf(s, k)) /\ DOMAIN s.own \subseteq DOMAIN PoolOf(s, k)
  /\ \A i \in 1 .. k : s.imports[i].file \in DOMAIN TypeFiles =>
       DOMAIN TypeFiles[s.imports[i].file].types \subseteq DOMAIN PoolOf(s, k)

LEMMA PoolsGrow ==
  ASSUME NEW s \in Schemas
  PROVE  HoldsOfPools(s, Len(s.imports)) /\ Types(s) = PoolOf(s, Len(s.imports))
<1> DEFINE n == Len(s.imports)
           T == {k \in Nat : k =< n => HoldsOfPools(s, k)}
           X == [file : STRING, names : SUBSET STRING]
<1>1. s.imports \in Seq(X)
  BY SchemasAreFormed
<1>2. n \in Nat
  BY <1>1
<1>3. /\ Types(s) = PoolOf(s, n) /\ PoolOf(s, 0) = s.own
      /\ \A k \in 1 .. n : PoolOf(s, k) = PoolStep(s.imports, PoolOf(s, k - 1), k)
  BY <1>1, TypesArePools
<1> HIDE DEF n, X
<1>4. HoldsOfPools(s, 0)
  BY <1>3, SchemasAreFormed DEF HoldsOfPools
<1>5. ASSUME NEW k \in Nat, k + 1 =< n, HoldsOfPools(s, k) PROVE HoldsOfPools(s, k + 1)
  <2> DEFINE pool == PoolOf(s, k)
             next == PoolOf(s, k + 1)
             file == s.imports[k + 1].file
             m == k + 1
  <2>1. m \in 1 .. n /\ m - 1 = k
    BY <1>2, <1>5
  <2>2. next = PoolStep(s.imports, pool, m)
    BY <1>3, <2>1
  <2>3. next = IF file \in DOMAIN TypeFiles THEN Merged(TypeFiles[file].types, pool) ELSE pool
    BY <2>2 DEF PoolStep
  <2>4. UnionsAreFormed(pool) /\ DOMAIN s.own \subseteq DOMAIN pool
    BY <1>5 DEF HoldsOfPools
  <2>5. \A i \in 1 .. k : s.imports[i].file \in DOMAIN TypeFiles =>
          DOMAIN TypeFiles[s.imports[i].file].types \subseteq DOMAIN pool
    BY <1>5 DEF HoldsOfPools
  <2>6. \A i \in 1 .. k + 1 : i \in 1 .. k \/ i = k + 1
    OBVIOUS
  <2> HIDE DEF pool, next, file
  <2>7. CASE file \notin DOMAIN TypeFiles
    <3>1. next = pool
      BY <2>3, <2>7
    <3> QED
      BY <2>4, <2>5, <2>6, <2>7, <3>1 DEF HoldsOfPools, next, file
  <2>8. CASE file \in DOMAIN TypeFiles
    <3> DEFINE types == TypeFiles[file].types
    <3>1. next = Merged(types, pool) /\ UnionsAreFormed(types)
      BY <2>3, <2>8, SchemasAreFormed
    <3> HIDE DEF types
    <3>2. DOMAIN next = DOMAIN types \cup DOMAIN pool
      BY <3>1 DEF Merged
    <3>3. \A t \in DOMAIN next : next[t] = IF t \in DOMAIN pool THEN pool[t] ELSE types[t]
      BY <3>1 DEF Merged
    <3>4. UnionsAreFormed(next)
      BY <2>4, <3>1, <3>2, <3>3 DEF UnionsAreFormed
    <3>5. DOMAIN pool \subseteq DOMAIN next /\ DOMAIN TypeFiles[file].types \subseteq DOMAIN next
      BY <3>2 DEF types
    <3> QED
      BY <2>4, <2>5, <2>6, <3>4, <3>5 DEF HoldsOfPools, next, file
  <2> QED
    BY <2>7, <2>8
<1>6. T = Nat
  <2>1. 0 \in T
    BY <1>4
  <2>2. \A k \in T : k + 1 \in T
    BY <1>2, <1>5
  <2>3. T \in SUBSET Nat
    OBVIOUS
  <2> HIDE DEF T
  <2> QED
    BY <2>1, <2>2, <2>3, PoolFold!InductionOverNumbers
<1> QED
  BY <1>2, <1>3, <1>6 DEF n

\* Of a schema whose own types are all there are, with its unions turned, these are its types.
LEMMA TurnedTypesAreOwn ==
  ASSUME NEW s \in Schemas
  PROVE  Types([s EXCEPT !.own = Turned(Types(s))]) = Turned(Types(s))
<1> DEFINE types == Types(s)
           own == Turned(types)
           r == [s EXCEPT !.own = own]
           n == Len(s.imports)
           X == [file : STRING, names : SUBSET STRING]
           T == {k \in Nat : k =< n => PoolOf(r, k) = own}
<1>1. s.imports \in Seq(X) /\ s = [root |-> s.root, version |-> s.version, own |-> s.own, imports |-> s.imports]
  BY SchemasAreFormed
<1>2. r.own = own /\ r.imports = s.imports
  <2> HIDE DEF own
  <2> QED
    BY <1>1
<1>3. DOMAIN own = DOMAIN types /\ own = [t \in DOMAIN own |-> own[t]]
  BY DEF Turned
<1>4. \A i \in 1 .. n : s.imports[i].file \in DOMAIN TypeFiles =>
        DOMAIN TypeFiles[s.imports[i].file].types \subseteq DOMAIN own
  BY <1>3, PoolsGrow DEF HoldsOfPools
<1> HIDE DEF types, own, r
<1>5. n \in Nat
  BY <1>1
<1>6. /\ Types(r) = PoolOf(r, n) /\ PoolOf(r, 0) = own
      /\ \A k \in 1 .. n : PoolOf(r, k) = PoolStep(s.imports, PoolOf(r, k - 1), k)
  BY <1>1, <1>2, TypesArePools
<1> HIDE DEF n, X
<1>7. ASSUME NEW k \in Nat, k + 1 =< n, PoolOf(r, k) = own PROVE PoolOf(r, k + 1) = own
  <2> DEFINE m == k + 1
  <2>1. m \in 1 .. n /\ m - 1 = k
    BY <1>5, <1>7
  <2>2. PoolOf(r, m) = PoolStep(s.imports, own, m)
    BY <1>6, <1>7, <2>1
  <2> HIDE DEF m
  <2> DEFINE brought == TypeFiles[s.imports[m].file].types
  <2>3. s.imports[m].file \in DOMAIN TypeFiles => Merged(brought, own) = own
    <3> SUFFICES ASSUME s.imports[m].file \in DOMAIN TypeFiles PROVE Merged(brought, own) = own
      OBVIOUS
    <3>1. DOMAIN brought \subseteq DOMAIN own
      BY <1>4, <2>1
    <3> HIDE DEF brought
    <3> QED
      BY <1>3, <3>1 DEF Merged
  <2> QED
    BY <2>2, <2>3 DEF PoolStep, m
<1>8. T = Nat
  <2>1. 0 \in T
    BY <1>6
  <2>2. \A k \in T : k + 1 \in T
    BY <1>5, <1>7
  <2>3. T \in SUBSET Nat
    OBVIOUS
  <2> HIDE DEF T
  <2> QED
    BY <2>1, <2>2, <2>3, PoolFold!InductionOverNumbers
<1> QED
  BY <1>5, <1>6, <1>8 DEF own, r, types

\* One type and its turned self: of one kind, and the same but for the arms of a union
\* of kinds of node.
TurnedAlike(t, u) ==
  /\ u.kind = t.kind /\ (t.kind # "node-kind-union" => u = t)
  /\ t.kind = "node-kind-union" => u.arms = Reverse(t.arms)

LEMMA TurnedNames ==
  ASSUME NEW T, UnionsAreFormed(T), NEW n
  PROVE  /\ TurnedAlike(TypeNamed(T, n), TypeNamed(Turned(T), n))
         /\ TypeNamed(T, n).kind # "unknown" => n \in DOMAIN T
         /\ n \in DOMAIN T => n \in DOMAIN Turned(T) /\ TypeNamed(T, n) = T[n] /\ TypeNamed(Turned(T), n) = Turned(T)[n]
<1>1. DOMAIN Turned(T) = DOMAIN T
  BY DEF Turned
<1>2. CASE n \notin DOMAIN T
  BY <1>1, <1>2 DEF TypeNamed, Unknown, TurnedAlike
<1>3. CASE n \in DOMAIN T /\ T[n].kind # "node-kind-union"
  BY <1>1, <1>3 DEF TypeNamed, Unknown, TurnedAlike, Turned
<1>4. CASE n \in DOMAIN T /\ T[n].kind = "node-kind-union"
  <2> DEFINE t == T[n]
             u == Turned(T)[n]
  <2>1. t = [kind |-> "node-kind-union", arms |-> t.arms]
    BY <1>4 DEF UnionsAreFormed
  <2>2. u = [t EXCEPT !.arms = Reverse(t.arms)]
    BY <1>4 DEF Turned
  <2>3. u.kind = t.kind /\ u.arms = Reverse(t.arms)
    <3> HIDE DEF t, u
    <3> QED
      BY <2>1, <2>2
  <2> QED
    BY <1>1, <1>4, <2>3 DEF TypeNamed, TurnedAlike
<1> QED
  BY <1>2, <1>3, <1>4

LEMMA DereferencedIsFold ==
  ASSUME NEW T, NEW t
  PROVE  Dereferenced(T, t) = DereferenceFold!Iter(T, t, DOMAIN T)[DOMAIN T]
BY DEF Dereferenced, FoldSet, MapThenFoldSet, DereferenceFold!Iter, DereferenceFold!Equation, DereferenceStep, AnyOf

LEMMA TurnedDereference ==
  ASSUME NEW T, UnionsAreFormed(T), NEW t
  PROVE  Dereferenced(Turned(T), t) = Dereferenced(T, t)
<1> DEFINE U == Turned(T)
<1>1. DOMAIN U = DOMAIN T
  BY DEF Turned
<1>2. ASSUME NEW at, NEW step PROVE DereferenceStep(T, at, step) = DereferenceStep(U, at, step)
  <2>1. TurnedAlike(TypeNamed(T, at), TypeNamed(U, at))
    BY TurnedNames
  <2>2. CASE TypeNamed(T, at).kind = "ref"
    <3>1. at \in DOMAIN T /\ TypeNamed(T, at) = T[at] /\ TypeNamed(U, at) = U[at]
      BY <2>2, TurnedNames
    <3> QED
      BY <2>1, <2>2, <3>1 DEF TurnedAlike, DereferenceStep
  <2>3. CASE TypeNamed(T, at).kind # "ref"
    BY <2>1, <2>3 DEF TurnedAlike, DereferenceStep
  <2> QED
    BY <2>2, <2>3
<1> HIDE DEF U
<1>3. DereferenceFold!Iter(T, t, DOMAIN T) = DereferenceFold!Iter(U, t, DOMAIN T)
  <2>1. \A at, step : DereferenceStep(T, at, step) = DereferenceStep(U, at, step)
    BY <1>2
  <2> DEFINE S == DOMAIN T
  <2> HIDE DEF S
  <2>2. DereferenceFold!Iter(T, t, S) = DereferenceFold!Iter(U, t, S)
    BY <2>1, DereferenceFold!FoldsAgree
  <2> QED
    BY <2>2 DEF S
<1> QED
  BY <1>1, <1>3, DereferencedIsFold DEF U

LEMMA TurnedCategory ==
  ASSUME NEW T, UnionsAreFormed(T), NEW t
  PROVE  ArmCategory(Turned(T), t) = ArmCategory(T, t)
<1> DEFINE at == Dereferenced(T, t)
<1>1. Dereferenced(Turned(T), t) = at
  BY TurnedDereference
<1>2. TypeNamed(Turned(T), at).kind = TypeNamed(T, at).kind
  BY TurnedNames DEF TurnedAlike
<1> HIDE DEF at
<1> QED
  BY <1>1, <1>2 DEF ArmCategory, at

LEMMA TurnedDiscriminator ==
  ASSUME NEW T, UnionsAreFormed(T), NEW arm, NEW name
  PROVE  ArmDiscriminator(Turned(T), arm, name) = ArmDiscriminator(T, arm, name)
<1> DEFINE U == Turned(T)
           at == Dereferenced(T, arm)
           FieldsOf(types, t) ==
             IF t.kind # Record THEN {}
             ELSE {f \in t.fields : f.name = name /\ TypeNamed(types, f.type).kind = "literal"}
           fields == FieldsOf(T, TypeNamed(T, at))
           f == CHOOSE f \in fields : TRUE
<1>1. Dereferenced(U, arm) = at
  BY TurnedDereference
<1>2. TurnedAlike(TypeNamed(T, at), TypeNamed(U, at))
  BY TurnedNames
<1>3. FieldsOf(U, TypeNamed(U, at)) = fields
  <2>1. \A g : TypeNamed(U, g).kind = TypeNamed(T, g).kind
    BY TurnedNames DEF TurnedAlike
  <2> HIDE DEF U, at
  <2>2. CASE TypeNamed(T, at).kind # Record
    BY <1>2, <2>2 DEF TurnedAlike
  <2>3. CASE TypeNamed(T, at).kind = Record
    <3>1. TypeNamed(U, at) = TypeNamed(T, at)
      BY <1>2, <2>3 DEF TurnedAlike, Record
    <3> QED
      BY <2>1, <3>1
  <2> QED
    BY <2>2, <2>3
<1>4. ArmDiscriminator(U, arm, name) = IF fields = {} THEN arm ELSE U[f.type].value
  <2> HIDE DEF fields
  <2>1. ArmDiscriminator(U, arm, name) =
          IF FieldsOf(U, TypeNamed(U, at)) = {} THEN arm
          ELSE U[(CHOOSE g \in FieldsOf(U, TypeNamed(U, at)) : TRUE).type].value
    BY <1>1 DEF ArmDiscriminator
  <2> QED
    BY <1>3, <2>1
<1>5. ArmDiscriminator(T, arm, name) = IF fields = {} THEN arm ELSE T[f.type].value
  BY DEF ArmDiscriminator
<1>6. fields # {} => U[f.type] = T[f.type]
  <2> SUFFICES ASSUME fields # {} PROVE U[f.type] = T[f.type]
    OBVIOUS
  <2>1. TypeNamed(T, f.type).kind = "literal"
    <3>1. f \in fields
      <4> HIDE DEF fields
      <4> QED
        OBVIOUS
    <3> HIDE DEF f
    <3> QED
      BY <3>1
  <2> DEFINE n == f.type
  <2> HIDE DEF n, f, fields
  <2>2. TypeNamed(T, n).kind = "literal"
    BY <2>1 DEF n
  <2>3. TypeNamed(T, n) = T[n] /\ TypeNamed(U, n) = U[n] /\ TypeNamed(U, n) = TypeNamed(T, n)
    BY <2>2, TurnedNames DEF TurnedAlike
  <2> QED
    BY <2>3 DEF n
<1> QED
  BY <1>4, <1>5, <1>6

LEMMA TurnedLiteralArm ==
  ASSUME NEW T, UnionsAreFormed(T), NEW t, NEW d, NEW p
  PROVE  DiscriminatedArm(Turned(T), t, d, p) = DiscriminatedArm(T, t, d, p)
<1> DEFINE at == Field(p, t.discriminator)
           Arms(types) == {i \in 1 .. Len(t.arms) : ArmDiscriminator(types, t.arms[i], t.discriminator) = d[at]}
           ArmOf(I) == IF ~IsRecordAt(d, p) \/ ~Has(d, at) THEN 0 ELSE IF I # {} THEN Min(I) ELSE 0
<1>1. \A arm : ArmDiscriminator(Turned(T), arm, t.discriminator) = ArmDiscriminator(T, arm, t.discriminator)
  BY TurnedDiscriminator
<1>2. Arms(Turned(T)) = Arms(T)
  BY <1>1
<1>3. ASSUME NEW types PROVE DiscriminatedArm(types, t, d, p) = ArmOf(Arms(types))
  BY DEF DiscriminatedArm, SelectInSeq
<1> HIDE DEF Arms, ArmOf
<1> QED
  BY <1>2, <1>3

LEMMA OnlyIndexIsFirst ==
  ASSUME NEW I \in SUBSET Nat, NEW i \in I, \A j \in I : j = i
  PROVE  Min(I) = i
<1>1. I = {i}
  OBVIOUS
<1> QED
  BY <1>1 DEF Min

\* Where no two arms are of one category, the arm a node goes to is the same in a union and
\* in the union turned round.
LEMMA TurnedKindArm ==
  ASSUME NEW T, UnionsAreFormed(T), NEW t, NEW u, NEW d, NEW p,
         t.arms \in Seq(STRING), u.arms = Reverse(t.arms), NodeKindsDistinct(T, t.arms),
         NEW m, m = NodeKindArm(T, t, d, p), NEW n, n = NodeKindArm(Turned(T), u, d, p)
  PROVE  (m = 0 <=> n = 0) /\ (m # 0 => t.arms[m] = u.arms[n])
<1> DEFINE r == u.arms
           arms == t.arms
           k == Len(t.arms)
           Chosen(a) == ArmCategory(T, a) = Kind(d[p])
           I == {i \in 1 .. k : Chosen(arms[i])}
           J == {j \in 1 .. k : Chosen(r[j])}
<1>1. /\ k \in Nat /\ DOMAIN arms = 1 .. k /\ Len(r) = k
      /\ \A i \in 1 .. k : r[i] = arms[k - i + 1] /\ k - i + 1 \in 1 .. k
  <2>1. r = [i \in 1 .. k |-> arms[(k - i) + 1]] /\ k \in Nat /\ DOMAIN arms = 1 .. k
    BY DEF Reverse
  <2> HIDE DEF r, k, arms
  <2> QED
    BY <2>1
<1>2. \A a : ArmCategory(Turned(T), a) = ArmCategory(T, a)
  BY TurnedCategory
<1>3. m = IF I # {} THEN Min(I) ELSE 0
  BY DEF NodeKindArm, SelectInSeq
<1>4. n = IF J # {} THEN Min(J) ELSE 0
  <2>1. n = IF {i \in 1 .. Len(r) : ArmCategory(Turned(T), r[i]) = Kind(d[p])} # {}
            THEN Min({i \in 1 .. Len(r) : ArmCategory(Turned(T), r[i]) = Kind(d[p])}) ELSE 0
    BY DEF NodeKindArm, SelectInSeq
  <2>2. {i \in 1 .. Len(r) : ArmCategory(Turned(T), r[i]) = Kind(d[p])} = J
    BY <1>1, <1>2
  <2> QED
    BY <2>1, <2>2
<1>5. \A i, j \in I : i = j
  BY <1>1 DEF NodeKindsDistinct
<1> HIDE DEF Chosen, r, arms, k
<1>6. \A i \in I : k - i + 1 \in J
  <2> SUFFICES ASSUME NEW i \in I PROVE k - i + 1 \in J
    OBVIOUS
  <2>1. k - i + 1 \in 1 .. k /\ k - (k - i + 1) + 1 = i
    BY <1>1
  <2> QED
    BY <1>1, <2>1
<1>7. \A j \in J : k - j + 1 \in I
  BY <1>1
<1>8. CASE I = {}
  BY <1>3, <1>4, <1>7, <1>8
<1>9. CASE I # {}
  <2> PICK i \in I : TRUE
    BY <1>9
  <2> DEFINE j == k - i + 1
  <2>1. j \in J /\ j \in Nat /\ i \in Nat /\ j # 0 /\ i # 0
    BY <1>1, <1>6
  <2>2. \A h \in J : h = j
    <3> SUFFICES ASSUME NEW h \in J PROVE h = j
      OBVIOUS
    <3>1. k - h + 1 = i
      BY <1>5, <1>7
    <3> QED
      BY <1>1, <3>1
  <2>3. m = i
    <3>1. I \in SUBSET Nat
      BY <1>1
    <3> HIDE DEF I
    <3> QED
      BY <1>3, <1>5, <1>9, <3>1, OnlyIndexIsFirst
  <2>4. n = j
    <3>1. J \in SUBSET Nat
      BY <1>1
    <3> HIDE DEF J, j
    <3> QED
      BY <1>4, <2>1, <2>2, <3>1, OnlyIndexIsFirst
  <2>5. r[j] = arms[i]
    <3>1. j \in 1 .. k /\ k - j + 1 = i
      BY <1>1
    <3> HIDE DEF j
    <3> QED
      BY <1>1, <3>1
  <2> QED
    BY <2>1, <2>3, <2>4, <2>5 DEF r, arms
<1> QED
  BY <1>8, <1>9

\* Types whose unions are formed and whose arms are told apart by their categories.
ArmsAreApart(T) ==
  UnionsAreFormed(T) /\ \A t \in NodeKindUnions(T) : NodeKindsDistinct(T, T[t].arms)

LEMMA TurnedDispatch ==
  ASSUME NEW T, ArmsAreApart(T), NEW d, NEW v
  PROVE  Dispatch(Turned(T), d, v) = Dispatch(T, d, v)
<1> DEFINE U == Turned(T)
           t == TypeNamed(T, v.type)
           u == TypeNamed(U, v.type)
<1>1. UnionsAreFormed(T)
  BY DEF ArmsAreApart
<1>2. TurnedAlike(t, u)
  BY <1>1, TurnedNames
<1>3. CASE t.kind # "node-kind-union"
  <2>1. u = t /\ DiscriminatedArm(U, t, d, v.path) = DiscriminatedArm(T, t, d, v.path)
    BY <1>1, <1>2, <1>3, TurnedLiteralArm DEF TurnedAlike
  <2> HIDE DEF t, u, U
  <2> QED
    BY <1>3, <2>1 DEF Dispatch, t, u, U
<1>4. CASE t.kind = "node-kind-union"
  <2> DEFINE m == NodeKindArm(T, t, d, v.path)
             n == NodeKindArm(U, u, d, v.path)
  <2>1. v.type \in DOMAIN T /\ t = T[v.type]
    BY <1>1, <1>4, TurnedNames
  <2>2. t.arms \in Seq(STRING) /\ NodeKindsDistinct(T, t.arms)
    BY <1>1, <1>4, <2>1 DEF ArmsAreApart, UnionsAreFormed, NodeKindUnions
  <2>3. u.kind = "node-kind-union" /\ u.arms = Reverse(t.arms)
    BY <1>2, <1>4 DEF TurnedAlike
  <2> HIDE DEF t, u
  <2>4. (m = 0 <=> n = 0) /\ (m # 0 => t.arms[m] = u.arms[n])
    BY <1>1, <2>2, <2>3, TurnedKindArm
  <2>5. Dispatch(T, d, v) = IF m # 0 THEN [v EXCEPT !.type = t.arms[m]] ELSE v
    <3> HIDE DEF m
    <3> QED
      BY <1>4 DEF Dispatch, t, m
  <2>6. Dispatch(U, d, v) = IF n # 0 THEN [v EXCEPT !.type = u.arms[n]] ELSE v
    <3> HIDE DEF n
    <3> QED
      BY <2>3 DEF Dispatch, u, n
  <2> HIDE DEF m, n
  <2> QED
    BY <2>4, <2>5, <2>6
<1> QED
  BY <1>3, <1>4

LEMMA ArrivedIsFold ==
  ASSUME NEW T, NEW d, NEW v
  PROVE  Arrived(T, d, v) = ArriveFold!Iter([types |-> T, d |-> d], v, DOMAIN T)[DOMAIN T]
BY DEF Arrived, FoldSet, MapThenFoldSet, ArriveFold!Iter, ArriveFold!Equation, ArriveStep, AnyOf

LEMMA TurnedArrival ==
  ASSUME NEW T, ArmsAreApart(T), NEW d, NEW v
  PROVE  Arrived(Turned(T), d, v) = Arrived(T, d, v)
<1> DEFINE U == Turned(T)
           p == [types |-> T, d |-> d]
           q == [types |-> U, d |-> d]
           S == DOMAIN T
<1>1. DOMAIN U = S
  BY DEF Turned
<1>2. \A at, step : ArriveStep(p, at, step) = ArriveStep(q, at, step)
  BY TurnedDispatch DEF ArriveStep
<1>3. Arrived(T, d, v) = ArriveFold!Iter(p, v, S)[S] /\ Arrived(U, d, v) = ArriveFold!Iter(q, v, S)[S]
  BY <1>1, ArrivedIsFold
<1> HIDE DEF U, p, q, S
<1>4. ArriveFold!Iter(p, v, S) = ArriveFold!Iter(q, v, S)
  BY <1>2, ArriveFold!FoldsAgree
<1> QED
  BY <1>3, <1>4 DEF U

LEMMA TurnedChildren ==
  ASSUME NEW T, UnionsAreFormed(T), NEW d, NEW v
  PROVE  Children(Turned(T), d, v) = Children(T, d, v)
<1> DEFINE t == TypeNamed(T, v.type)
           u == TypeNamed(Turned(T), v.type)
<1>1. TurnedAlike(t, u)
  BY TurnedNames
<1> HIDE DEF t, u
<1>2. CASE t.kind # "node-kind-union"
  <2>1. u = t
    BY <1>1, <1>2 DEF TurnedAlike
  <2> QED
    BY <2>1 DEF Children, t, u
<1>3. CASE t.kind = "node-kind-union"
  <2>1. u.kind = "node-kind-union"
    BY <1>1, <1>3 DEF TurnedAlike
  <2>2. Children(T, d, v) = {}
    BY <1>3 DEF Children, t, Record, Array
  <2>3. Children(Turned(T), d, v) = {}
    BY <2>1 DEF Children, u, Record, Array
  <2> QED
    BY <2>2, <2>3
<1> QED
  BY <1>2, <1>3

LEMMA TurnedVisits ==
  ASSUME NEW T, ArmsAreApart(T), NEW d, NEW root
  PROVE  Visits(Turned(T), d, root) = Visits(T, d, root)
<1> DEFINE U == Turned(T)
           p == [types |-> T, d |-> d]
           q == [types |-> U, d |-> d]
           First(types) == {Arrived(types, d, Visit(root, <<>>, FALSE))}
           S == DOMAIN [n \in 1 .. MaxDepth |-> n]
<1>1. UnionsAreFormed(T)
  BY DEF ArmsAreApart
<1>2. \A v : Arrived(U, d, v) = Arrived(T, d, v) /\ Children(U, d, v) = Children(T, d, v)
  BY <1>1, TurnedArrival, TurnedChildren
<1>3. First(U) = First(T)
  BY <1>2
<1>4. \A at : NextVisits(U, d, at) = NextVisits(T, d, at)
  <2> HIDE DEF U
  <2> QED
    BY <1>2 DEF NextVisits
<1>5. \A seen, n : VisitStep(p, seen, n) = VisitStep(q, seen, n)
  BY <1>4 DEF VisitStep
<1>6. ASSUME NEW types
      PROVE  Visits(types, d, root) = VisitFold!Iter([types |-> types, d |-> d], First(types), S)[S]
  BY DEF Visits, FoldLeft, MapThenFoldSet, VisitFold!Iter, VisitFold!Equation, VisitStep, NextVisits
<1> DEFINE first == First(T)
<1>7. Visits(T, d, root) = VisitFold!Iter(p, first, S)[S] /\ Visits(U, d, root) = VisitFold!Iter(q, first, S)[S]
  <2> HIDE DEF First, S
  <2> QED
    BY <1>3, <1>6
<1> HIDE DEF U, p, q, S, first
<1>8. VisitFold!Iter(p, first, S) = VisitFold!Iter(q, first, S)
  BY <1>5, VisitFold!FoldsAgree
<1> QED
  BY <1>7, <1>8 DEF U

LEMMA TurnedCodes ==
  ASSUME NEW T, UnionsAreFormed(T), NEW d, NEW v
  PROVE  Codes(Turned(T), d, v) = Codes(T, d, v)
<1> DEFINE t == TypeNamed(T, v.type)
           u == TypeNamed(Turned(T), v.type)
<1>1. TurnedAlike(t, u)
  BY TurnedNames
<1> HIDE DEF t, u
<1>2. CASE t.kind # "node-kind-union"
  <2>1. u = t
    BY <1>1, <1>2 DEF TurnedAlike
  <2> QED
    BY <2>1 DEF Codes, t, u
<1>3. CASE t.kind = "node-kind-union"
  <2>1. u.kind = "node-kind-union"
    BY <1>1, <1>3 DEF TurnedAlike
  <2>2. Codes(T, d, v) = IF IsTooDeep(v) THEN {"DEPTH_EXCEEDED"} ELSE {"NO_ARM"}
    BY <1>3 DEF Codes, t, Record, Array
  <2>3. Codes(Turned(T), d, v) = IF IsTooDeep(v) THEN {"DEPTH_EXCEEDED"} ELSE {"NO_ARM"}
    BY <2>1 DEF Codes, u, Record, Array
  <2> QED
    BY <2>2, <2>3
<1> QED
  BY <1>2, <1>3

LEMMA TurnedConstraints ==
  ASSUME NEW T, UnionsAreFormed(T), NEW d, NEW visits, NEW structural
  PROVE  ConstraintDiagnostics(Turned(T), d, visits, structural) = ConstraintDiagnostics(T, d, visits, structural)
<1> DEFINE U == Turned(T)
           Looked(types) == {v \in visits : /\ TypeNamed(types, v.type).kind = Record /\ IsRecordAt(d, v.path)
                                            /\ IsClean(structural, v.path)}
           Reported(types, v) ==
             {Diagnostic(ConstraintCode(c), v.path) : c \in {k \in types[v.type].constraints : Violated(d, v.path, k)}}
<1>1. \A n : TypeNamed(U, n).kind = TypeNamed(T, n).kind
  BY TurnedNames DEF TurnedAlike
<1>2. \A n : TypeNamed(T, n).kind = Record => U[n] = T[n]
  BY TurnedNames DEF TurnedAlike, Record
<1> HIDE DEF U
<1>3. Looked(U) = Looked(T)
  BY <1>1
<1>4. \A v \in Looked(T) : Reported(U, v) = Reported(T, v)
  BY <1>2
<1>5. \A types : ConstraintDiagnostics(types, d, visits, structural) = UNION {Reported(types, v) : v \in Looked(types)}
  BY DEF ConstraintDiagnostics
<1> HIDE DEF Looked, Reported
<1>6. {Reported(U, v) : v \in Looked(U)} = {Reported(T, v) : v \in Looked(T)}
  BY <1>3, <1>4
<1> QED
  BY <1>5, <1>6 DEF U

LEMMA TurnedWalk ==
  ASSUME NEW T, ArmsAreApart(T), NEW d, NEW root
  PROVE  Walked(Turned(T), d, Visits(Turned(T), d, root)) = Walked(T, d, Visits(T, d, root))
<1> DEFINE U == Turned(T)
           visits == Visits(T, d, root)
<1>1. UnionsAreFormed(T) /\ Visits(U, d, root) = visits
  BY TurnedVisits DEF ArmsAreApart
<1> HIDE DEF visits
<1>2. \A v : Codes(U, d, v) = Codes(T, d, v)
  BY <1>1, TurnedCodes
<1> HIDE DEF U
<1>3. StructuralDiagnostics(U, d, visits) = StructuralDiagnostics(T, d, visits)
  BY <1>2 DEF StructuralDiagnostics
<1> DEFINE structural == StructuralDiagnostics(T, d, visits)
<1> HIDE DEF structural
<1>4. ConstraintDiagnostics(U, d, visits, structural) = ConstraintDiagnostics(T, d, visits, structural)
  BY <1>1, TurnedConstraints DEF U
<1> QED
  BY <1>1, <1>3, <1>4 DEF Walked, WithConstraints, U, visits, structural

LEMMA AcceptedSchemasTurn ==
  ASSUME NEW s \in Schemas, SchemaAccepted(s), NEW d
  PROVE  Execute([s EXCEPT !.own = Turned(Types(s))], d) = Execute(s, d)
<1> DEFINE T == Types(s)
           own == Turned(T)
           r == [s EXCEPT !.own = own]
<1>1. ArmsAreApart(T)
  <2>1. UnionsAreFormed(T)
    BY PoolsGrow DEF HoldsOfPools
  <2> QED
    BY <2>1 DEF SchemaAccepted, ArmsAreApart
<1>2. Types(r) = own
  BY TurnedTypesAreOwn
<1>3. r.root = s.root /\ r.version = s.version
  <2>1. s = [root |-> s.root, version |-> s.version, own |-> s.own, imports |-> s.imports]
    BY SchemasAreFormed
  <2> HIDE DEF own
  <2> QED
    BY <2>1
<1> HIDE DEF T, own, r
<1>4. Walked(own, d, Visits(own, d, s.root)) = Walked(T, d, Visits(T, d, s.root))
  <2> DEFINE root == s.root
  <2> HIDE DEF root
  <2>1. Walked(own, d, Visits(own, d, root)) = Walked(T, d, Visits(T, d, root))
    BY <1>1, TurnedWalk DEF own
  <2> QED
    BY <2>1 DEF root
<1>5. GateOpen(r, d) = GateOpen(s, d)
  BY <1>3 DEF GateOpen
<1> QED
  BY <1>2, <1>3, <1>4, <1>5 DEF Execute, T, own, r

\* A schema whose unions were found to have no two arms of one category reports of a document
\* the same diagnostics when those unions list their arms the other way round: which arm of
\* checkNodeKindUnions' unions comes first never decides what Execute finds.
THEOREM ArmsComeInAnyOrder == ValidationSpec => []ArmOrderIsImmaterial
<1> DEFINE Inv == schema \in Schemas /\ SchemaAccepted(schema)
<1>1. ValidationInit => Inv
  BY DEF ValidationInit
<1>2. Inv /\ [ValidationNext]_validationVars => Inv'
  <2> SUFFICES ASSUME Inv, [ValidationNext]_validationVars PROVE schema' = schema
    OBVIOUS
  <2> QED
    BY DEF ValidationNext, EditDocument, validationVars
<1>3. Inv => ArmOrderIsImmaterial
  BY AcceptedSchemasTurn DEF ArmOrderIsImmaterial
<1> QED
  BY <1>1, <1>2, <1>3, PTL DEF ValidationSpec
===============================================================================
