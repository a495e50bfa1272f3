--------------------------- MODULE GovernanceProofs ---------------------------
(* Theorems about Governance, for any number of texts, likenesses, candidates, *)
(* workers and learnings, however handlers, sweeps and restarts interleave.    *)
EXTENDS Governance, WellFoundedInduction, TLAPS

DB == [rows : [Ids -> Rows], docs : [Texts -> Docs]]

\* The tables after n committed learnings.
WellFormed(d, n) ==
    /\ d \in DB
    /\ \A l \in Stored(d) : /\ l <= n
                            /\ d.rows[l].by \in Stored(d) \cup {None}
                            /\ d.rows[l].contra \in Stored(d) \cup {None}

\* No marks are lost but those in T.
Keeps(d, e, T) == Marks(d, Stored(d)) \subseteq Marks(e, Stored(e)) \cup T

-----------------------------------------------------------------------------
(* The operators.                                                            *)

LEMMA RowParts ==
    ASSUME NEW d \in DB, NEW l \in Ids
    PROVE  /\ d.rows[l] \in Rows
           /\ d.rows[l].text \in Texts \cup {None} /\ d.rows[l].open \in BOOLEAN
           /\ d.rows[l].by \in Ids \cup {None} /\ d.rows[l].contra \in Ids \cup {None}
           /\ d.rows[l].mapped \in BOOLEAN
<1>1. d.rows \in [Ids -> Rows]
  BY Zenon DEF DB
<1>2. d.rows[l] \in Rows
  BY <1>1
<1> QED
  BY <1>2 DEF Rows

LEMMA DocParts ==
    ASSUME NEW d \in DB, NEW x \in Texts
    PROVE  /\ d.docs[x] \in Docs
           /\ d.docs[x].page \in {"none", "open", "closed"}
           /\ d.docs[x].succ \in Texts \cup {None, Gone} /\ d.docs[x].fts \in BOOLEAN
<1>1. d.docs \in [Texts -> Docs]
  BY Zenon DEF DB
<1>2. d.docs[x] \in Docs
  BY <1>1
<1> QED
  BY <1>2 DEF Docs

\* A set of learnings has a greatest one.
LEMMA MaxIsMember ==
    ASSUME NEW S \in SUBSET Ids, S # {}
    PROVE  Max(S) \in S
<1> DEFINE T == {MaxLearnings - l : l \in S}
<1>1. MaxLearnings \in Nat
  BY GovernanceAssumption
<1>2. T \subseteq Nat /\ T # {}
  <2>1. \A l \in Ids : MaxLearnings - l \in Nat
    BY <1>1 DEF Ids
  <2> QED
    BY <2>1
<1>3. PICK x \in T : \A y \in T : ~ (<<y, x>> \in OpToRel(<, Nat))
  BY <1>2, WFMin, NatLessThanWellFounded, Zenon
<1>4. \A y \in T : ~ (y < x)
  BY <1>2, <1>3, Zenon DEF OpToRel
<1>5. PICK l \in S : x = MaxLearnings - l
  BY <1>3
<1>6. \A k \in S : l >= k
  <2> SUFFICES ASSUME NEW k \in S PROVE l >= k
    OBVIOUS
  <2>1. ~ (MaxLearnings - k < x)
    BY <1>4
  <2> QED
    BY <1>1, <1>5, <2>1 DEF Ids
<1> QED
  BY <1>6, Zenon DEF Max

LEMMA SuccessorType ==
    ASSUME NEW d \in DB, NEW x
    PROVE  Successor(d, x) \in Texts \cup {None}
<1> DEFINE by == {d.rows[l].by : l \in Mapped(d, x)} \ {None}
<1>1. by \subseteq Ids
  BY RowParts DEF Mapped, Stored
<1>2. CASE by # {} /\ d.rows[Max(by)].mapped
  <2>1. Max(by) \in Ids
    BY <1>1, <1>2, MaxIsMember
  <2>2. d.rows[Max(by)].text \in Texts \cup {None}
    BY <2>1, RowParts
  <2> QED
    BY <1>2, <2>2, Zenon DEF Successor
<1>3. CASE ~ (by # {} /\ d.rows[Max(by)].mapped)
  BY <1>3, Zenon DEF Successor
<1> QED
  BY <1>2, <1>3

\* The row and the document of a new learning.
LEMMA NewLearning ==
    ASSUME NEW d \in DB, NEW l \in Ids, NEW x \in Texts, NEW contra \in Ids \cup {None}
    PROVE  /\ Insert(d, l, x, contra) \in DB
           /\ Insert(d, l, x, contra).docs = d.docs
           /\ Insert(d, l, x, contra).rows[l] =
                [text |-> x, open |-> TRUE, by |-> None, contra |-> contra, mapped |-> FALSE]
           /\ \A k \in Ids \ {l} : Insert(d, l, x, contra).rows[k] = d.rows[k]
<1> DEFINE r == [text |-> x, open |-> TRUE, by |-> None, contra |-> contra, mapped |-> FALSE]
           e == Insert(d, l, x, contra)
<1>1. d.rows \in [Ids -> Rows] /\ d.docs \in [Texts -> Docs]
  BY Zenon DEF DB
<1>2. r \in Rows
  BY DEF Rows
<1>3. e.rows = [d.rows EXCEPT ![l] = r] /\ e.docs = d.docs
  BY <1>1, Zenon DEF Insert, DB
<1>4. [d.rows EXCEPT ![l] = r] \in [Ids -> Rows]
  BY <1>1, <1>2, Zenon
<1>5. e \in DB
  BY <1>1, <1>4, Zenon DEF Insert, DB
<1> HIDE DEF r, e
<1>6. e.rows[l] = r /\ \A k \in Ids \ {l} : e.rows[k] = d.rows[k]
  BY <1>1, <1>3, Zenon
<1> QED
  BY <1>3, <1>5, <1>6, Zenon DEF e, r

LEMMA NodeOf ==
    ASSUME NEW d \in DB, NEW l \in Ids, d.rows[l].text \in Texts
    PROVE  /\ MapNode(d, l) \in DB
           /\ MapNode(d, l).rows[l] = [d.rows[l] EXCEPT !.mapped = TRUE]
           /\ \A k \in Ids \ {l} : MapNode(d, l).rows[k] = d.rows[k]
           /\ \A y \in Texts : /\ MapNode(d, l).docs[y].fts = d.docs[y].fts
                               /\ MapNode(d, l).docs[y].page \in {d.docs[y].page, "open"}
<1> DEFINE x   == d.rows[l].text
           r   == [d.rows[l] EXCEPT !.mapped = TRUE]
           new == IF d.docs[x].page = "none" \/ Reopens(d, x)
                  THEN [page |-> "open", succ |-> None, fts |-> d.docs[x].fts] ELSE d.docs[x]
           e   == MapNode(d, l)
<1>1. d.rows \in [Ids -> Rows] /\ d.docs \in [Texts -> Docs]
  BY Zenon DEF DB
<1>2. r \in Rows
  BY RowParts, Zenon DEF Rows
<1>3. new \in Docs /\ new.fts = d.docs[x].fts /\ new.page \in {d.docs[x].page, "open"}
  <2>1. d.docs[x] \in Docs /\ d.docs[x].fts \in BOOLEAN
    BY DocParts
  <2>2. [page |-> "open", succ |-> None, fts |-> d.docs[x].fts] \in Docs
    BY <2>1 DEF Docs
  <2>3. CASE d.docs[x].page = "none" \/ Reopens(d, x)
    BY <2>2, <2>3
  <2>4. CASE ~ (d.docs[x].page = "none" \/ Reopens(d, x))
    BY <2>1, <2>4
  <2> QED
    BY <2>3, <2>4
<1>4. e.rows = [d.rows EXCEPT ![l].mapped = TRUE] /\ e.docs = [d.docs EXCEPT ![x] = new]
  BY <1>1, Zenon DEF MapNode, DB
<1>5. [d.rows EXCEPT ![l].mapped = TRUE] = [d.rows EXCEPT ![l] = r]
  BY <1>1, Zenon
<1>6. [d.rows EXCEPT ![l] = r] \in [Ids -> Rows] /\ [d.docs EXCEPT ![x] = new] \in [Texts -> Docs]
  BY <1>1, <1>2, <1>3, Zenon
<1>11. e \in DB
  <2>1. [d.rows EXCEPT ![l].mapped = TRUE] \in [Ids -> Rows]
    BY <1>5, <1>6
  <2> QED
    BY <1>1, <1>6, <2>1, Zenon DEF MapNode, DB
<1> HIDE DEF r, e, new
<1>7. e.rows = [d.rows EXCEPT ![l] = r] /\ e.docs = [d.docs EXCEPT ![x] = new]
  BY <1>4, <1>5
<1>8. e.rows[l] = r /\ \A k \in Ids \ {l} : e.rows[k] = d.rows[k]
  BY <1>1, <1>7, Zenon
<1>9. e.docs[x] = new /\ \A y \in Texts \ {x} : e.docs[y] = d.docs[y]
  BY <1>1, <1>7, Zenon
<1>10. \A y \in Texts : /\ e.docs[y].fts = d.docs[y].fts
                        /\ e.docs[y].page \in {d.docs[y].page, "open"}
  BY <1>3, <1>9
<1> QED
  BY <1>7, <1>8, <1>10, <1>11, Zenon DEF e, r

\* A new learning that closes another.
Superseding(d, old, l) == IF old = None THEN d ELSE [d EXCEPT !.rows[old].by = l]
Added(d, l, x, old, contra) == MapNode(Superseding(Insert(d, l, x, contra), old, l), l)

\* In e there is a row more than in d.
NewRow(d, e, l, x, old, contra) ==
    /\ e.rows[l].text = x /\ e.rows[l].open /\ e.rows[l].by = None
    /\ e.rows[l].contra = contra
    /\ \A k \in Ids \ {l, old} : e.rows[k] = d.rows[k]
    /\ old # None => /\ e.rows[old].text = d.rows[old].text /\ e.rows[old].open = d.rows[old].open
                     /\ e.rows[old].contra = d.rows[old].contra /\ e.rows[old].by = l

\* What search finds is the same in both.
SameDocs(d, e) == \A y \in Texts : /\ e.docs[y].fts = d.docs[y].fts
                                   /\ e.docs[y].page \in {d.docs[y].page, "open"}

LEMMA AddedRows ==
    ASSUME NEW d \in DB, NEW l \in Ids, NEW x \in Texts, NEW contra \in Ids \cup {None},
           NEW old \in (Ids \ {l}) \cup {None}
    PROVE  /\ Added(d, l, x, old, contra) \in DB
           /\ NewRow(d, Added(d, l, x, old, contra), l, x, old, contra)
           /\ SameDocs(d, Added(d, l, x, old, contra))
<1> DEFINE i == Insert(d, l, x, contra)
           s == Superseding(i, old, l)
           e == Added(d, l, x, old, contra)
<1>1. None \notin Ids /\ None \notin Texts
  BY GovernanceAssumption
<1>2. /\ i \in DB /\ i.docs = d.docs
      /\ i.rows[l] = [text |-> x, open |-> TRUE, by |-> None, contra |-> contra, mapped |-> FALSE]
      /\ \A k \in Ids \ {l} : i.rows[k] = d.rows[k]
  BY NewLearning, Zenon
<1> HIDE DEF i
<1>3. /\ s \in DB /\ s.docs = d.docs /\ s.rows[l] = i.rows[l]
      /\ \A k \in Ids \ {old} : s.rows[k] = i.rows[k]
      /\ old # None => s.rows[old] = [i.rows[old] EXCEPT !.by = l]
  <2>1. CASE old = None
    BY <1>2, <2>1 DEF Superseding
  <2>2. CASE old # None
    <3>1. old \in Ids /\ i.rows \in [Ids -> Rows] /\ i.docs \in [Texts -> Docs]
      BY <1>2, <2>2, Zenon DEF DB
    <3>2. [i.rows[old] EXCEPT !.by = l] \in Rows
      <4>1. i.rows[old] \in Rows
        BY <3>1
      <4> QED
        BY <3>1, <4>1, Zenon DEF Rows
    <3>3. s = [i EXCEPT !.rows[old].by = l]
      BY <2>2 DEF Superseding
    <3>4. s.rows = [i.rows EXCEPT ![old].by = l] /\ s.docs = i.docs
      BY <1>2, <3>3, Zenon DEF DB
    <3>5. [i.rows EXCEPT ![old].by = l] = [i.rows EXCEPT ![old] = [i.rows[old] EXCEPT !.by = l]]
      BY <3>1, Zenon
    <3>6. [i.rows EXCEPT ![old].by = l] \in [Ids -> Rows]
      BY <3>1, <3>2, <3>5, Zenon
    <3>7. s \in DB
      BY <1>2, <3>1, <3>3, <3>6, Zenon DEF DB
    <3>8. \A k \in Ids \ {old} : s.rows[k] = i.rows[k]
      BY <3>1, <3>4, <3>5, Zenon
    <3>9. s.rows[old] = [i.rows[old] EXCEPT !.by = l]
      BY <3>1, <3>4, <3>5, Zenon
    <3> QED
      BY <1>2, <2>2, <3>1, <3>4, <3>7, <3>8, <3>9
  <2> QED
    BY <2>1, <2>2
<1> HIDE DEF s
<1>4. s.rows[l].text = x
  BY <1>2, <1>3
<1>5. e = MapNode(s, l)
  BY Zenon DEF e, Added, s, i
<1> HIDE DEF e
<1>6. /\ e \in DB /\ e.rows[l] = [s.rows[l] EXCEPT !.mapped = TRUE]
      /\ \A k \in Ids \ {l} : e.rows[k] = s.rows[k]
      /\ \A y \in Texts : /\ e.docs[y].fts = s.docs[y].fts
                          /\ e.docs[y].page \in {s.docs[y].page, "open"}
  BY <1>3, <1>4, <1>5, NodeOf
<1>7. /\ e.rows[l].text = x /\ e.rows[l].open /\ e.rows[l].by = None /\ e.rows[l].contra = contra
  BY <1>2, <1>3, <1>6
<1>8. \A k \in Ids \ {l, old} : e.rows[k] = d.rows[k]
  BY <1>2, <1>3, <1>6
<1>9. old # None => /\ e.rows[old].text = d.rows[old].text /\ e.rows[old].open = d.rows[old].open
                       /\ e.rows[old].contra = d.rows[old].contra /\ e.rows[old].by = l
  <2>1. old # None => d.rows[old] \in Rows
    BY RowParts
  <2>2. old # None => e.rows[old] = [d.rows[old] EXCEPT !.by = l]
    BY <1>2, <1>3, <1>6
  <2> QED
    BY <2>1, <2>2 DEF Rows
<1>10. \A y \in Texts : /\ e.docs[y].fts = d.docs[y].fts
                        /\ e.docs[y].page \in {d.docs[y].page, "open"}
  BY <1>3, <1>6
<1> QED
  BY <1>6, <1>7, <1>8, <1>9, <1>10, Zenon DEF e, NewRow, SameDocs

\* Tables with one more learning lose nothing, and take none but the one it
\* supersedes from what is active.
LEMMA RowAdded ==
    ASSUME NEW n \in Nat, n < MaxLearnings, NEW d, WellFormed(d, n), NEW x \in Texts,
           NEW contra \in Stored(d) \cup {None}, NEW old \in Stored(d) \cup {None},
           NEW e \in DB,
           NewRow(d, e, n + 1, x, old, contra)
    PROVE  /\ WellFormed(e, n + 1)
           /\ Stored(e) = Stored(d) \cup {n + 1}
           /\ Marks(e, Stored(e)) = Marks(d, Stored(d)) \cup {<<n + 1, x>>}
           /\ \A y \in Texts : Saying(d, y) \subseteq Saying(e, y) \cup {old}
           /\ n + 1 \in Saying(e, x)
<1> DEFINE l == n + 1
<1>1. None \notin Ids /\ None \notin Texts /\ MaxLearnings \in Nat
  BY GovernanceAssumption
<1>2. l \in Ids /\ l \notin Stored(d) /\ d \in DB
  BY <1>1 DEF WellFormed, Ids
<1>4. /\ e.rows[l].text = x /\ e.rows[l].open /\ e.rows[l].by = None
      /\ e.rows[l].contra = contra
      /\ \A k \in Ids \ {l, old} : e.rows[k] = d.rows[k]
      /\ old # None => /\ e.rows[old].text = d.rows[old].text /\ e.rows[old].open = d.rows[old].open
                       /\ e.rows[old].contra = d.rows[old].contra /\ e.rows[old].by = l
  BY Zenon DEF NewRow
<1>3. Stored(d) \subseteq Ids
  BY DEF Stored
<1>6. \A k \in Ids \ {l} : /\ e.rows[k].text = d.rows[k].text
                           /\ e.rows[k].open = d.rows[k].open
                           /\ e.rows[k].contra = d.rows[k].contra
                           /\ e.rows[k].by = IF k = old THEN l ELSE d.rows[k].by
  <2> SUFFICES ASSUME NEW k \in Ids \ {l}
               PROVE  /\ e.rows[k].text = d.rows[k].text
                      /\ e.rows[k].open = d.rows[k].open
                      /\ e.rows[k].contra = d.rows[k].contra
                      /\ e.rows[k].by = IF k = old THEN l ELSE d.rows[k].by
    OBVIOUS
  <2>2. CASE k = old
    BY <1>1, <1>4, <2>2
  <2>3. CASE k # old
    BY <1>4, <2>3
  <2> QED
    BY <2>2, <2>3
<1>7. Stored(e) = Stored(d) \cup {l}
  BY <1>1, <1>2, <1>4, <1>6 DEF Stored
<1>8. WellFormed(e, l)
  <2> SUFFICES ASSUME NEW k \in Stored(e)
               PROVE  k <= l /\ e.rows[k].by \in Stored(e) \cup {None}
                      /\ e.rows[k].contra \in Stored(e) \cup {None}
    BY DEF WellFormed
  <2>1. CASE k = l
    BY <1>2, <1>4, <1>7, <2>1 DEF Ids
  <2>2. CASE k # l
    <3>1. k \in Stored(d) /\ k \in Ids
      BY <1>3, <1>7, <2>2
    <3>2. k <= n /\ d.rows[k].by \in Stored(d) \cup {None} /\ d.rows[k].contra \in Stored(d) \cup {None}
      BY <3>1 DEF WellFormed
    <3> QED
      BY <1>6, <1>7, <2>2, <3>1, <3>2 DEF Ids
  <2> QED
    BY <2>1, <2>2
<1>9. Marks(e, Stored(e)) = Marks(d, Stored(d)) \cup {<<l, x>>}
  BY <1>2, <1>3, <1>4, <1>6, <1>7 DEF Marks
<1>10. ASSUME NEW y \in Texts PROVE Saying(d, y) \subseteq Saying(e, y) \cup {old}
  <2> SUFFICES ASSUME NEW k \in Saying(d, y), k # old PROVE k \in Saying(e, y)
    OBVIOUS
  <2>1. k \in Stored(d) /\ k \in Ids \ {l} /\ d.rows[k].open /\ d.rows[k].by = None /\ d.rows[k].text = y
    BY <1>2, <1>3 DEF Saying, Active
  <2> QED
    BY <1>6, <1>7, <2>1 DEF Saying, Active
<1>11. l \in Saying(e, x)
  BY <1>4, <1>7 DEF Saying, Active
<1> QED
  BY <1>7, <1>8, <1>9, <1>10, <1>11, Zenon

LEMMA NextIdentity ==
    ASSUME NEW n \in Nat, n < MaxLearnings, NEW d, WellFormed(d, n)
    PROVE  n + 1 \in Ids /\ n + 1 \notin Stored(d) /\ d \in DB /\ Stored(d) \subseteq Ids
  BY GovernanceAssumption DEF WellFormed, Ids, Stored

LEMMA AddedKeeps ==
    ASSUME NEW n \in Nat, n < MaxLearnings, NEW d, WellFormed(d, n), NEW x \in Texts,
           NEW contra \in Stored(d) \cup {None}, NEW old \in Stored(d) \cup {None}
    PROVE  /\ WellFormed(Added(d, n + 1, x, old, contra), n + 1)
           /\ Stored(Added(d, n + 1, x, old, contra)) = Stored(d) \cup {n + 1}
           /\ Marks(Added(d, n + 1, x, old, contra), Stored(Added(d, n + 1, x, old, contra)))
                = Marks(d, Stored(d)) \cup {<<n + 1, x>>}
           /\ \A y \in Texts : Saying(d, y) \subseteq Saying(Added(d, n + 1, x, old, contra), y) \cup {old}
           /\ n + 1 \in Saying(Added(d, n + 1, x, old, contra), x)
           /\ SameDocs(d, Added(d, n + 1, x, old, contra))
<1> DEFINE e == Added(d, n + 1, x, old, contra)
<1>1. n + 1 \in Ids /\ n + 1 \notin Stored(d) /\ d \in DB /\ Stored(d) \subseteq Ids
  BY NextIdentity
<1>2. contra \in Ids \cup {None} /\ old \in (Ids \ {n + 1}) \cup {None}
  BY <1>1
<1>3. e \in DB /\ NewRow(d, e, n + 1, x, old, contra) /\ SameDocs(d, e)
  BY <1>1, <1>2, AddedRows, Zenon
<1> HIDE DEF e
<1>4. /\ WellFormed(e, n + 1)
      /\ Stored(e) = Stored(d) \cup {n + 1}
      /\ Marks(e, Stored(e)) = Marks(d, Stored(d)) \cup {<<n + 1, x>>}
      /\ \A y \in Texts : Saying(d, y) \subseteq Saying(e, y) \cup {old}
      /\ n + 1 \in Saying(e, x)
  BY <1>3, RowAdded, Zenon
<1> QED
  BY <1>3, <1>4, Zenon DEF e

LEMMA AddedPlain ==
    ASSUME NEW d, NEW l, NEW x, NEW contra
    PROVE  Added(d, l, x, None, contra) = MapNode(Insert(d, l, x, contra), l)
  BY DEF Added, Superseding

\* Changes of documents leave the learnings alone.
LEMMA DocsOnly ==
    ASSUME NEW n, NEW d, WellFormed(d, n), NEW e \in DB, e.rows = d.rows
    PROVE  /\ WellFormed(e, n) /\ Marks(e, Stored(e)) = Marks(d, Stored(d))
           /\ \A y : Saying(e, y) = Saying(d, y) /\ Mapped(e, y) = Mapped(d, y)
           /\ Active(e) = Active(d)
<1>1. Stored(e) = Stored(d)
  BY DEF Stored
<1>2. Active(e) = Active(d)
  BY <1>1 DEF Active
<1> QED
  BY <1>1, <1>2 DEF WellFormed, Marks, Saying, Mapped

LEMMA DocSet ==
    ASSUME NEW d \in DB, NEW x \in Texts, NEW v \in Docs
    PROVE  /\ [d EXCEPT !.docs[x] = v] \in DB
           /\ [d EXCEPT !.docs[x] = v].rows = d.rows
           /\ [d EXCEPT !.docs[x] = v].docs[x] = v
           /\ \A y \in Texts \ {x} : [d EXCEPT !.docs[x] = v].docs[y] = d.docs[y]
<1> DEFINE e == [d EXCEPT !.docs[x] = v]
<1>1. d.docs \in [Texts -> Docs]
  BY Zenon DEF DB
<1>2. e.rows = d.rows /\ e.docs = [d.docs EXCEPT ![x] = v]
  BY Zenon DEF DB
<1>3. [d.docs EXCEPT ![x] = v] \in [Texts -> Docs]
  BY <1>1, Zenon
<1>4. e \in DB
  BY <1>3, Zenon DEF DB
<1> HIDE DEF e
<1>5. e.docs[x] = v /\ \A y \in Texts \ {x} : e.docs[y] = d.docs[y]
  BY <1>1, <1>2, Zenon
<1> QED
  BY <1>2, <1>4, <1>5, Zenon DEF e

\* An eviction takes the rows of D, reopens what they superseded, and takes the
\* documents nothing maps to any more.
LEMMA EvictRowsAndDocs ==
    ASSUME NEW d \in DB, NEW D \in SUBSET Ids
    PROVE  /\ Evict(d, D) \in DB
           /\ \A l \in D : Evict(d, D).rows[l] = NoRow
           /\ \A l \in Ids \ D :
                /\ Evict(d, D).rows[l].text = d.rows[l].text
                /\ Evict(d, D).rows[l].open = d.rows[l].open
                /\ Evict(d, D).rows[l].contra = d.rows[l].contra
                /\ Evict(d, D).rows[l].mapped = d.rows[l].mapped
                /\ Evict(d, D).rows[l].by = IF d.rows[l].by \in D THEN None ELSE d.rows[l].by
           /\ \A x \in Texts :
                IF x \in TextsOf(d, D) /\ Mapped(Evict(d, D), x) = {}
                THEN Evict(d, D).docs[x] = NoDoc
                ELSE /\ Evict(d, D).docs[x].fts = d.docs[x].fts
                     /\ Evict(d, D).docs[x].page = d.docs[x].page
<1> DEFINE row(l) == [d.rows[l] EXCEPT !.by = IF @ \in D THEN None ELSE @]
           left == [l \in Ids |-> IF l \in D THEN NoRow ELSE row(l)]
           e    == [d EXCEPT !.rows = left]
           drop == {x \in TextsOf(d, D) : Mapped(e, x) = {}}
           doc(x) == [d.docs[x] EXCEPT !.succ = IF @ \in drop THEN Gone ELSE @]
           docs == [x \in Texts |-> IF x \in drop THEN NoDoc ELSE doc(x)]
           f    == Evict(d, D)
<1>1. NoRow \in Rows /\ NoDoc \in Docs
  BY DEF NoRow, NoDoc, Rows, Docs
<1>2. ASSUME NEW l \in Ids
      PROVE  /\ row(l) \in Rows
             /\ row(l).text = d.rows[l].text /\ row(l).open = d.rows[l].open
             /\ row(l).contra = d.rows[l].contra /\ row(l).mapped = d.rows[l].mapped
             /\ row(l).by = IF d.rows[l].by \in D THEN None ELSE d.rows[l].by
  <2>1. d.rows[l] \in Rows
    BY RowParts
  <2> QED
    BY <2>1 DEF Rows
<1>3. left \in [Ids -> Rows]
  BY <1>1, <1>2
<1>4. e \in DB /\ e.rows = left /\ e.docs = d.docs
  BY <1>3 DEF DB
<1>5. ASSUME NEW x \in Texts
      PROVE  doc(x) \in Docs /\ doc(x).fts = d.docs[x].fts /\ doc(x).page = d.docs[x].page
  <2>1. d.docs[x] \in Docs
    BY DocParts
  <2> QED
    BY <2>1 DEF Docs
<1>6. docs \in [Texts -> Docs]
  BY <1>1, <1>5
<1>7. f = [e EXCEPT !.docs = docs]
  BY <1>4, Zenon DEF Evict
<1> HIDE DEF left, docs, f, e
<1>8. f \in DB /\ f.rows = left /\ f.docs = docs
  BY <1>4, <1>6, <1>7 DEF DB
<1>9. \A x : Mapped(f, x) = Mapped(e, x)
  BY <1>4, <1>8 DEF Mapped, Stored
<1>10. \A l \in D : f.rows[l] = NoRow
  BY <1>8 DEF left
<1>11. \A l \in Ids \ D : f.rows[l] = row(l)
  BY <1>8 DEF left
<1>12. \A x \in Texts : f.docs[x] = IF x \in TextsOf(d, D) /\ Mapped(f, x) = {} THEN NoDoc ELSE doc(x)
  BY <1>8, <1>9 DEF docs
<1> HIDE DEF row, doc
<1> QED
  BY <1>2, <1>5, <1>8, <1>10, <1>11, <1>12 DEF f

\* An eviction that nothing refers to keeps the tables well formed; what it takes
\* is what the cold archive gets.
LEMMA EvictKeeps ==
    ASSUME NEW n, NEW d, WellFormed(d, n), NEW D \in SUBSET Ids, Referred(d, D) = {}
    PROVE  /\ WellFormed(Evict(d, D), n)
           /\ Stored(Evict(d, D)) = Stored(d) \ D
           /\ Keeps(d, Evict(d, D), Marks(d, D))
           /\ \A l \in Stored(d) \ D : <<l, d.rows[l].text>> \in Marks(Evict(d, D), Stored(Evict(d, D)))
           /\ \A y \in Texts : Saying(d, y) \ D \subseteq Saying(Evict(d, D), y)
           /\ \A y \in Texts : y \notin TextsOf(d, D) => Saying(d, y) \subseteq Saying(Evict(d, D), y)
<1> DEFINE e == Evict(d, D)
<1>1. d \in DB /\ Stored(d) \subseteq Ids /\ None \notin D
  BY GovernanceAssumption DEF WellFormed, Stored
<1>2. /\ e \in DB
      /\ \A l \in D : e.rows[l] = NoRow
      /\ \A l \in Ids \ D :
           /\ e.rows[l].text = d.rows[l].text /\ e.rows[l].open = d.rows[l].open
           /\ e.rows[l].contra = d.rows[l].contra
           /\ e.rows[l].by = IF d.rows[l].by \in D THEN None ELSE d.rows[l].by
  BY <1>1, EvictRowsAndDocs
<1> HIDE DEF e
<1>3. Stored(e) = Stored(d) \ D
  BY <1>2 DEF Stored, NoRow
<1>4. WellFormed(e, n)
  <2> SUFFICES ASSUME NEW l \in Stored(e)
               PROVE  l <= n /\ e.rows[l].by \in Stored(e) \cup {None}
                      /\ e.rows[l].contra \in Stored(e) \cup {None}
    BY <1>2 DEF WellFormed
  <2>1. l \in Stored(d) /\ l \in Ids \ D
    BY <1>1, <1>3
  <2>2. l <= n /\ d.rows[l].by \in Stored(d) \cup {None} /\ d.rows[l].contra \in Stored(d) \cup {None}
    BY <2>1 DEF WellFormed
  <2>3. d.rows[l].contra \notin D
    BY <2>1 DEF Referred
  <2> QED
    BY <1>2, <1>3, <2>1, <2>2, <2>3
<1>5. \A l \in Stored(d) \ D : <<l, d.rows[l].text>> \in Marks(e, Stored(e))
  BY <1>1, <1>2, <1>3 DEF Marks
<1>6. Keeps(d, e, Marks(d, D))
  BY <1>5 DEF Keeps, Marks
<1>7. ASSUME NEW y \in Texts PROVE Saying(d, y) \ D \subseteq Saying(e, y)
  <2> SUFFICES ASSUME NEW k \in Saying(d, y), k \notin D PROVE k \in Saying(e, y)
    OBVIOUS
  <2>1. k \in Stored(d) /\ k \in Ids \ D /\ d.rows[k].open /\ d.rows[k].by = None /\ d.rows[k].text = y
    BY <1>1 DEF Saying, Active
  <2> QED
    BY <1>1, <1>2, <1>3, <2>1 DEF Saying, Active
<1>8. ASSUME NEW y \in Texts, y \notin TextsOf(d, D) PROVE Saying(d, y) \subseteq Saying(e, y)
  <2>1. \A k \in Saying(d, y) : k \notin D
    BY <1>8 DEF Saying, TextsOf
  <2> QED
    BY <1>7, <2>1
<1> QED
  BY <1>3, <1>4, <1>5, <1>6, <1>7, <1>8, Zenon DEF e

LEMMA CloseKeeps ==
    ASSUME NEW n, NEW d, WellFormed(d, n), NEW S \in SUBSET Stored(d), NEW l \in Stored(d)
    PROVE  /\ WellFormed(Close(d, S, l), n)
           /\ Close(d, S, l).docs = d.docs
           /\ Stored(Close(d, S, l)) = Stored(d)
           /\ Marks(Close(d, S, l), Stored(Close(d, S, l))) = Marks(d, Stored(d))
           /\ \A y \in Texts : y \notin TextsOf(d, S) => Saying(d, y) \subseteq Saying(Close(d, S, l), y)
<1> DEFINE row(k) == [d.rows[k] EXCEPT !.open = FALSE, !.by = l]
           rows == [k \in Ids |-> IF k \in S THEN row(k) ELSE d.rows[k]]
           e == Close(d, S, l)
<1>1. d \in DB /\ Stored(d) \subseteq Ids
  BY DEF WellFormed, Stored
<1>2. ASSUME NEW k \in Ids
      PROVE  /\ d.rows[k] \in Rows /\ row(k) \in Rows /\ row(k).text = d.rows[k].text
             /\ row(k).by = l /\ row(k).contra = d.rows[k].contra
  <2>1. d.rows[k] \in Rows /\ l \in Ids
    BY <1>1, RowParts
  <2> QED
    BY <2>1 DEF Rows
<1>3. rows \in [Ids -> Rows]
  BY <1>2
<1>4. e = [d EXCEPT !.rows = rows]
  BY DEF Close
<1> HIDE DEF rows, e
<1>5. e \in DB /\ e.rows = rows /\ e.docs = d.docs
  BY <1>1, <1>3, <1>4 DEF DB
<1>6. \A k \in Ids : e.rows[k] = IF k \in S THEN row(k) ELSE d.rows[k]
  BY <1>5 DEF rows
<1> HIDE DEF row
<1>7. \A k \in Ids : /\ e.rows[k].text = d.rows[k].text /\ e.rows[k].contra = d.rows[k].contra
                     /\ e.rows[k].by \in {l, d.rows[k].by}
  BY <1>2, <1>6
<1>8. Stored(e) = Stored(d)
  BY <1>7 DEF Stored
<1>9. WellFormed(e, n)
  BY <1>1, <1>5, <1>7, <1>8 DEF WellFormed
<1>10. Marks(e, Stored(e)) = Marks(d, Stored(d))
  BY <1>1, <1>7, <1>8 DEF Marks
<1>11. ASSUME NEW y \in Texts, y \notin TextsOf(d, S) PROVE Saying(d, y) \subseteq Saying(e, y)
  <2>1. \A k \in Saying(d, y) : k \in Ids /\ k \notin S
    BY <1>1, <1>11 DEF Saying, Active, TextsOf
  <2> QED
    BY <1>1, <1>6, <1>8, <2>1 DEF Saying, Active
<1> QED
  BY <1>5, <1>8, <1>9, <1>10, <1>11, Zenon DEF e

LEMMA InsertKeeps ==
    ASSUME NEW n \in Nat, n < MaxLearnings, NEW d, WellFormed(d, n), NEW x \in Texts
    PROVE  /\ WellFormed(Insert(d, n + 1, x, None), n + 1)
           /\ Stored(Insert(d, n + 1, x, None)) = Stored(d) \cup {n + 1}
           /\ Marks(Insert(d, n + 1, x, None), Stored(Insert(d, n + 1, x, None)))
                = Marks(d, Stored(d)) \cup {<<n + 1, x>>}
           /\ \A y \in Texts : Saying(d, y) \subseteq Saying(Insert(d, n + 1, x, None), y) \cup {None}
           /\ Insert(d, n + 1, x, None).docs = d.docs
           /\ \A k \in Stored(d) : Insert(d, n + 1, x, None).rows[k].text = d.rows[k].text
<1> DEFINE e == Insert(d, n + 1, x, None)
<1>1. n + 1 \in Ids /\ n + 1 \notin Stored(d) /\ d \in DB /\ Stored(d) \subseteq Ids
  BY NextIdentity
<1>6. None \in Ids \cup {None} /\ None \in Stored(d) \cup {None}
  OBVIOUS
<1>2. /\ e \in DB /\ e.docs = d.docs
      /\ e.rows[n + 1] = [text |-> x, open |-> TRUE, by |-> None, contra |-> None, mapped |-> FALSE]
      /\ \A k \in Ids \ {n + 1} : e.rows[k] = d.rows[k]
  BY <1>1, <1>6, NewLearning
<1> HIDE DEF e
<1>3. NewRow(d, e, n + 1, x, None, None)
  BY <1>2 DEF NewRow
<1>4. /\ WellFormed(e, n + 1)
      /\ Stored(e) = Stored(d) \cup {n + 1}
      /\ Marks(e, Stored(e)) = Marks(d, Stored(d)) \cup {<<n + 1, x>>}
      /\ \A y \in Texts : Saying(d, y) \subseteq Saying(e, y) \cup {None}
  BY <1>2, <1>3, <1>6, RowAdded
<1>5. \A k \in Stored(d) : e.rows[k].text = d.rows[k].text
  BY <1>1, <1>2
<1> QED
  BY <1>2, <1>4, <1>5, Zenon DEF e

-----------------------------------------------------------------------------
(* The invariant.                                                            *)

\* A candidate that was staged says something.
Phrased == \A c \in Candidates : cands[c].status # "none" => cands[c].text \in Texts

MintedType == minted \in [Candidates -> SUBSET Ids]

\* What was accepted in the name of another candidate stays accepted.
MisledInv == /\ misled \subseteq Candidates
             /\ \A c \in misled : cands[c].status = "accepted"

\* What search finds is open, and is said by an active learning, or about to be
\* purged, or known to be stale.
Shown == \A x \in Texts : db.docs[x].fts =>
            /\ db.docs[x].page = "open"
            /\ \/ x \in stale
               \/ Saying(db, x) # {}
               \/ \E t \in Threads : x \in calls[t].purge

IInv ==
    /\ TypeOK
    /\ Phrased
    /\ MintedType
    /\ MisledInv
    /\ AnsweredIsKept
    /\ AcceptedHasOneLearning
    /\ Shown

(* What a step does to the tables, to the queue, and to the work in hand.     *)

Queue == [Candidates -> [status : {"none", "proposed", "accepted", "rejected"}, text : Texts \cup {None}]]
Calls == [Threads -> [purge : SUBSET Texts, index : Texts \cup {None}, accept : Candidates \cup {None}]]
Passes == [pc : {"idle", "apply", "index", "dups"}, plan : [Candidates -> Verdicts], lid : Ids \cup {None}]

NothingLost ==
    /\ Keeps(db, db', tombs') /\ tombs \subseteq tombs' /\ lost \subseteq lost'
    /\ answered' \subseteq answered \cup Marks(db', Stored(db')) \cup lost'

StaysFound == \A x \in Texts : db.docs[x].fts /\ ~ db'.docs[x].fts => Mapped(db', x) \cap Active(db') = {}

TablesStep ==
    /\ seq' \in 0 .. MaxLearnings /\ WellFormed(db', seq')
    /\ NothingLost /\ Shown' /\ StaysFound

QueueStep ==
    /\ cands' \in Queue /\ fences' \subseteq Candidates
    /\ Phrased' /\ MintedType' /\ MisledInv' /\ AcceptedHasOneLearning'

WorkStep == calls' \in Calls /\ afm' \in Passes /\ repair' \in Texts \cup {None}

\* Purges in hand are done, or remembered.
PurgesKept == /\ stale \subseteq stale'
              /\ \A t \in Threads : \A x \in calls[t].purge :
                    x \in stale' \/ \E u \in Threads : x \in calls'[u].purge

LEMMA Parts ==
    ASSUME IInv
    PROVE  /\ seq \in Nat /\ seq \in 0 .. MaxLearnings /\ WellFormed(db, seq) /\ db \in DB
           /\ cands \in Queue /\ fences \subseteq Candidates /\ repair \in Texts \cup {None}
           /\ calls \in Calls /\ afm \in Passes /\ MaxLearnings \in Nat
<1>1. /\ seq \in 0 .. MaxLearnings /\ db \in DB
      /\ cands \in Queue /\ fences \subseteq Candidates /\ repair \in Texts \cup {None}
      /\ calls \in Calls /\ afm \in Passes
  BY Zenon DEF IInv, TypeOK, DB, Queue, Calls, Passes
<1>2. \A l \in Stored(db) : /\ l <= seq
                            /\ {db.rows[l].by, db.rows[l].contra} \subseteq Stored(db) \cup {None}
  BY Zenon DEF IInv, TypeOK
<1>3. WellFormed(db, seq)
  BY <1>1, <1>2 DEF WellFormed
<1> QED
  BY <1>1, <1>3, GovernanceAssumption

LEMMA Together ==
    ASSUME IInv, TablesStep, QueueStep, WorkStep, UNCHANGED near
    PROVE  IInv' /\ StaysFound
<1>1. TypeOK'
  <2>1. \A l \in Stored(db') : /\ l <= seq'
                               /\ {db'.rows[l].by, db'.rows[l].contra} \subseteq Stored(db') \cup {None}
    BY DEF TablesStep, WellFormed
  <2>2. /\ db' \in [rows : [Ids -> Rows], docs : [Texts -> Docs]] /\ seq' \in 0 .. MaxLearnings
    BY Zenon DEF TablesStep, WellFormed, DB
  <2>3. \A p \in near' : p \subseteq Texts
    BY Zenon DEF IInv, TypeOK
  <2> QED
    BY <2>1, <2>2, <2>3, Zenon DEF TypeOK, QueueStep, WorkStep, Queue, Calls, Passes
<1>2. AnsweredIsKept'
  <2>1. answered \subseteq Marks(db, Stored(db)) \cup tombs \cup lost
    BY DEF IInv, AnsweredIsKept
  <2>2. /\ Marks(db, Stored(db)) \subseteq Marks(db', Stored(db')) \cup tombs'
        /\ tombs \subseteq tombs' /\ lost \subseteq lost'
        /\ answered' \subseteq answered \cup Marks(db', Stored(db')) \cup lost'
    BY DEF TablesStep, NothingLost, Keeps
  <2>3. answered' \subseteq Marks(db', Stored(db')) \cup tombs' \cup lost'
    BY <2>1, <2>2
  <2> QED
    BY <2>3, Zenon DEF AnsweredIsKept
<1> QED
  BY <1>1, <1>2, Zenon DEF IInv, QueueStep, TablesStep

-----------------------------------------------------------------------------
(* The queue.                                                                *)

LEMMA QueueMoves ==
    ASSUME IInv, Keeps(db, db', tombs'), tombs \subseteq tombs',
           NEW c \in Candidates, cands[c].status \in {"none", "proposed"},
           cands' \in Queue, minted' \in [Candidates -> SUBSET Ids], fences' \subseteq Candidates,
           misled' = misled,
           \A b \in Candidates \ {c} : cands'[b] = cands[b] /\ minted'[b] = minted[b],
           cands'[c].text \in Texts,
           \/ cands'[c].status \in {"proposed", "rejected"} /\ minted'[c] = minted[c]
           \/ cands'[c].status = "accepted" /\ \E l \in Ids :
                minted'[c] = minted[c] \cup {l} /\ <<l, cands'[c].text>> \in Marks(db', Stored(db'))
    PROVE  QueueStep
<1>1. Phrased'
  BY DEF IInv, Phrased
<1>2. minted[c] = {} /\ c \notin misled /\ MisledInv'
  BY DEF IInv, AcceptedHasOneLearning, MisledInv
<1>3. AcceptedHasOneLearning'
  <2> SUFFICES ASSUME NEW b \in Candidates
               PROVE  /\ cands'[b].status # "accepted" \/ b \in misled' => minted'[b] = {}
                      /\ cands'[b].status = "accepted" /\ b \notin misled' =>
                            \E l \in Ids : /\ minted'[b] = {l}
                                          /\ <<l, cands'[b].text>> \in Marks(db', Stored(db')) \cup tombs'
    BY Zenon DEF AcceptedHasOneLearning
  <2>1. CASE b = c
    BY <1>2, <2>1
  <2>2. CASE b # c
    <3>1. cands'[b] = cands[b] /\ minted'[b] = minted[b]
      BY <2>2
    <3>2. /\ cands[b].status # "accepted" \/ b \in misled => minted[b] = {}
          /\ cands[b].status = "accepted" /\ b \notin misled =>
                \E l \in Ids : /\ minted[b] = {l}
                              /\ <<l, cands[b].text>> \in Marks(db, Stored(db)) \cup tombs
      BY Zenon DEF IInv, AcceptedHasOneLearning
    <3> QED
      BY <3>1, <3>2 DEF Keeps
  <2> QED
    BY <2>1, <2>2
<1> QED
  BY <1>1, <1>2, <1>3, Zenon DEF QueueStep, MintedType

LEMMA QueueSame ==
    ASSUME IInv, Keeps(db, db', tombs'), tombs \subseteq tombs',
           fences' \subseteq Candidates, UNCHANGED <<cands, minted, misled>>
    PROVE  QueueStep
<1>1. \A b \in Candidates :
          /\ cands[b].status # "accepted" \/ b \in misled => minted[b] = {}
          /\ cands[b].status = "accepted" /\ b \notin misled =>
                \E l \in Ids : /\ minted[b] = {l}
                              /\ <<l, cands[b].text>> \in Marks(db, Stored(db)) \cup tombs
  BY Zenon DEF IInv, AcceptedHasOneLearning
<1>2. AcceptedHasOneLearning'
  BY <1>1 DEF AcceptedHasOneLearning, Keeps
<1>3. Phrased' /\ MintedType' /\ MisledInv'
  BY DEF IInv, Phrased, MintedType, MisledInv
<1> QED
  BY <1>2, <1>3, Parts DEF QueueStep

LEMMA SetParts ==
    ASSUME IInv, NEW c \in Candidates, NEW s \in {"proposed", "accepted", "rejected"}, Set(c, s)
    PROVE  /\ cands' \in Queue /\ cands'[c].status = s /\ cands'[c].text = cands[c].text
           /\ \A b \in Candidates \ {c} : cands'[b] = cands[b]
<1>1. cands \in [Candidates -> [status : {"none", "proposed", "accepted", "rejected"}, text : Texts \cup {None}]]
  BY Parts DEF Queue
<1>2. cands' = [cands EXCEPT ![c].status = s]
  BY DEF Set
<1>3. cands'[c] = [cands[c] EXCEPT !.status = s] /\ \A b \in Candidates \ {c} : cands'[b] = cands[b]
  BY <1>1, <1>2, Zenon
<1>4. cands[c] \in [status : {"none", "proposed", "accepted", "rejected"}, text : Texts \cup {None}]
  BY <1>1
<1>5. cands'[c].status = s /\ cands'[c].text = cands[c].text
  BY <1>3, <1>4
<1>6. cands' \in Queue
  BY <1>1, <1>2, Zenon DEF Queue
<1> QED
  BY <1>3, <1>5, <1>6

\* A candidate that is declined, by whomever.
LEMMA QueueDeclined ==
    ASSUME IInv, Keeps(db, db', tombs'), tombs \subseteq tombs',
           NEW c \in Candidates, cands[c].status = "proposed", Set(c, "rejected"),
           fences' \subseteq Candidates, minted' = minted, misled' = misled
    PROVE  QueueStep
<1>1. /\ cands' \in Queue /\ cands'[c].status = "rejected" /\ cands'[c].text = cands[c].text
      /\ \A b \in Candidates \ {c} : cands'[b] = cands[b]
  BY SetParts
<1>2. cands'[c].text \in Texts
  BY <1>1 DEF IInv, Phrased
<1>3. minted' \in [Candidates -> SUBSET Ids]
  BY DEF IInv, MintedType
<1> QED
  BY <1>1, <1>2, <1>3, QueueMoves

LEMMA QueueAccepted ==
    ASSUME IInv, Keeps(db, db', tombs'), tombs \subseteq tombs',
           NEW c \in Candidates, cands[c].status \in {"none", "proposed"},
           cands' \in Queue, cands'[c].status = "accepted", cands'[c].text \in Texts,
           \A b \in Candidates \ {c} : cands'[b] = cands[b],
           fences' \subseteq Candidates, misled' = misled, NEW l \in Ids,
           minted' = [minted EXCEPT ![c] = @ \cup {l}],
           <<l, cands'[c].text>> \in Marks(db', Stored(db'))
    PROVE  QueueStep
<1>1. minted \in [Candidates -> SUBSET Ids]
  BY DEF IInv, MintedType
<1>2. /\ minted' \in [Candidates -> SUBSET Ids] /\ minted'[c] = minted[c] \cup {l}
      /\ \A b \in Candidates \ {c} : minted'[b] = minted[b]
  BY <1>1
<1> QED
  BY <1>2, QueueMoves

-----------------------------------------------------------------------------
(* The tables.                                                               *)

\* Documents that are still found have what they had.
LEMMA ShownKept ==
    ASSUME IInv, PurgesKept,
           \A x \in Texts : db'.docs[x].fts =>
              /\ db.docs[x].fts /\ db'.docs[x].page \in {db.docs[x].page, "open"}
              /\ Saying(db, x) # {} => \/ Saying(db', x) # {}
                                       \/ x \in stale' \/ \E u \in Threads : x \in calls'[u].purge
    PROVE  Shown'
<1> SUFFICES ASSUME NEW x \in Texts, db'.docs[x].fts
             PROVE  /\ db'.docs[x].page = "open"
                    /\ \/ x \in stale'
                       \/ Saying(db', x) # {}
                       \/ \E t \in Threads : x \in calls'[t].purge
  BY Zenon DEF Shown
<1>1. /\ db.docs[x].page = "open"
      /\ \/ x \in stale
         \/ Saying(db, x) # {}
         \/ \E t \in Threads : x \in calls[t].purge
  BY DEF IInv, Shown
<1> QED
  BY <1>1 DEF PurgesKept

LEMMA TablesSame ==
    ASSUME IInv, PurgesKept, UNCHANGED <<db, seq>>, tombs \subseteq tombs', lost \subseteq lost',
           answered' \subseteq answered \cup lost'
    PROVE  TablesStep /\ Keeps(db, db', tombs')
<1>1. Keeps(db, db', tombs')
  BY DEF Keeps
<1>2. \A x : Saying(db', x) = Saying(db, x)
  OBVIOUS
<1>3. Shown'
  BY <1>2, ShownKept
<1>4. StaysFound
  BY DEF StaysFound
<1>5. NothingLost
  BY <1>1 DEF NothingLost
<1>6. WellFormed(db', seq') /\ seq' \in 0 .. MaxLearnings
  BY Parts
<1> QED
  BY <1>1, <1>3, <1>4, <1>5, <1>6, Zenon DEF TablesStep

LEMMA TablesAdded ==
    ASSUME IInv, PurgesKept, Room, NEW x \in Texts,
           NEW contra \in Stored(db) \cup {None}, NEW old \in Stored(db) \cup {None},
           db' = Added(db, NextId, x, old, contra), seq' = NextId,
           tombs \subseteq tombs', lost \subseteq lost',
           answered' \subseteq answered \cup {<<NextId, x>>},
           old # None => db.rows[old].text \in stale'
    PROVE  /\ TablesStep /\ Keeps(db, db', tombs')
           /\ NextId \in Ids /\ <<NextId, x>> \in Marks(db', Stored(db'))
<1>1. seq \in Nat /\ seq < MaxLearnings /\ WellFormed(db, seq) /\ MaxLearnings \in Nat
  BY Parts DEF Room
<1>2. NextId = seq + 1 /\ NextId \in Ids /\ NextId \in 0 .. MaxLearnings
  BY <1>1 DEF NextId, Ids
<1>3. /\ WellFormed(db', seq')
      /\ Marks(db', Stored(db')) = Marks(db, Stored(db)) \cup {<<NextId, x>>}
      /\ \A y \in Texts : Saying(db, y) \subseteq Saying(db', y) \cup {old}
      /\ SameDocs(db, db')
  <2> DEFINE e == Added(db, seq + 1, x, old, contra)
  <2>1. /\ WellFormed(e, seq + 1)
        /\ Marks(e, Stored(e)) = Marks(db, Stored(db)) \cup {<<seq + 1, x>>}
        /\ \A y \in Texts : Saying(db, y) \subseteq Saying(e, y) \cup {old}
        /\ SameDocs(db, e)
    BY <1>1, AddedKeeps
  <2>2. db' = e
    BY <1>2
  <2> HIDE DEF e
  <2> QED
    BY <1>2, <2>1, <2>2, Zenon
<1>4. \A y \in Texts : Saying(db, y) # {} => Saying(db', y) # {} \/ y \in stale'
  <2> SUFFICES ASSUME NEW y \in Texts, NEW k \in Saying(db, y), Saying(db', y) = {}
               PROVE  y \in stale'
    OBVIOUS
  <2>1. k = old /\ db.rows[k].text = y /\ k \in Ids
    BY <1>3 DEF Saying, Active, Stored
  <2> QED
    BY <2>1, GovernanceAssumption
<1>5. Shown'
  BY <1>3, <1>4, ShownKept DEF SameDocs
<1>6. StaysFound
  BY <1>3 DEF SameDocs, StaysFound
<1>7. Keeps(db, db', tombs') /\ NothingLost
  BY <1>3 DEF Keeps, NothingLost
<1> QED
  BY <1>2, <1>3, <1>5, <1>6, <1>7 DEF TablesStep

LEMMA TablesEvicted ==
    ASSUME IInv, PurgesKept, NEW d, seq' \in 0 .. MaxLearnings, WellFormed(d, seq'),
           SameDocs(db, d), Marks(db, Stored(db)) \subseteq Marks(d, Stored(d)),
           \A y \in Texts : Saying(db, y) \subseteq Saying(d, y),
           NEW D \in SUBSET Stored(d), Referred(d, D) = {}, db' = Evict(d, D),
           tombs \cup Marks(d, D) \subseteq tombs', lost \subseteq lost',
           answered' \subseteq answered \cup Marks(db', Stored(db')),
           \A y \in TextsOf(d, D) : Mapped(db', y) # {} =>
              Saying(db', y) # {} \/ y \in stale' \/ \E u \in Threads : y \in calls'[u].purge
    PROVE  TablesStep /\ Keeps(db, db', tombs')
<1>1. D \in SUBSET Ids /\ d \in DB
  BY DEF Stored, WellFormed
<1>2. /\ WellFormed(db', seq') /\ Keeps(d, db', Marks(d, D))
      /\ \A y \in Texts : y \notin TextsOf(d, D) => Saying(d, y) \subseteq Saying(db', y)
  BY <1>1, EvictKeeps, Zenon
<1>3. \A y \in Texts : IF y \in TextsOf(d, D) /\ Mapped(db', y) = {}
                       THEN db'.docs[y] = NoDoc
                       ELSE db'.docs[y].fts = d.docs[y].fts /\ db'.docs[y].page = d.docs[y].page
  <2>1. \A y \in Texts : IF y \in TextsOf(d, D) /\ Mapped(Evict(d, D), y) = {}
                         THEN Evict(d, D).docs[y] = NoDoc
                         ELSE /\ Evict(d, D).docs[y].fts = d.docs[y].fts
                              /\ Evict(d, D).docs[y].page = d.docs[y].page
    BY <1>1, EvictRowsAndDocs
  <2> QED
    BY <2>1
<1>4. ~ NoDoc.fts
  BY DEF NoDoc
<1>5. Keeps(db, db', tombs')
  BY <1>2 DEF Keeps
<1>6. Shown'
  <2> SUFFICES ASSUME NEW x \in Texts, db'.docs[x].fts
               PROVE  /\ db.docs[x].fts /\ db'.docs[x].page \in {db.docs[x].page, "open"}
                      /\ Saying(db, x) # {} => \/ Saying(db', x) # {}
                                               \/ x \in stale' \/ \E u \in Threads : x \in calls'[u].purge
    BY ShownKept
  <2>1. x \notin TextsOf(d, D) \/ Mapped(db', x) # {}
    BY <1>3, <1>4
  <2>2. db'.docs[x].fts = d.docs[x].fts /\ db'.docs[x].page = d.docs[x].page
    BY <1>3, <2>1
  <2>3. d.docs[x].fts = db.docs[x].fts /\ d.docs[x].page \in {db.docs[x].page, "open"}
    BY DEF SameDocs
  <2> QED
    BY <1>2, <2>1, <2>2, <2>3
<1>7. StaysFound
  <2> SUFFICES ASSUME NEW x \in Texts, db.docs[x].fts, ~ db'.docs[x].fts
               PROVE  Mapped(db', x) = {}
    BY DEF StaysFound
  <2>1. d.docs[x].fts = db.docs[x].fts
    BY DEF SameDocs
  <2> QED
    BY <1>3, <2>1
<1>8. NothingLost
  BY <1>5 DEF NothingLost
<1> QED
  BY <1>2, <1>5, <1>6, <1>7, <1>8, Zenon DEF TablesStep

LEMMA TablesDocs ==
    ASSUME IInv, db' \in DB, db'.rows = db.rows, Shown', StaysFound,
           UNCHANGED <<seq, answered, lost, misled, tombs>>
    PROVE  TablesStep /\ Keeps(db, db', tombs')
<1>1. WellFormed(db', seq') /\ Marks(db', Stored(db')) = Marks(db, Stored(db))
  BY Parts, DocsOnly
<1>2. Keeps(db, db', tombs')
  BY <1>1 DEF Keeps
<1>3. NothingLost
  BY <1>2 DEF NothingLost
<1> QED
  BY <1>1, <1>2, <1>3, Parts DEF TablesStep

\* A resting worker that takes up work has no purge in hand to forget.
LEMMA OwesParts ==
    ASSUME IInv, NEW t \in Threads, Resting(t), NEW P \in SUBSET Texts, NEW x \in Texts \cup {None},
           NEW c \in Candidates \cup {None}, Owes(t, P, x, c), stale \subseteq stale'
    PROVE  /\ calls' \in Calls /\ PurgesKept /\ calls'[t].purge = P
<1>1. calls \in [Threads -> [purge : SUBSET Texts, index : Texts \cup {None}, accept : Candidates \cup {None}]]
  BY Parts DEF Calls
<1>2. calls' = [calls EXCEPT ![t] = [purge |-> P, index |-> x, accept |-> c]]
  BY DEF Owes
<1>3. calls' \in Calls /\ calls'[t].purge = P /\ \A u \in Threads \ {t} : calls'[u] = calls[u]
  BY <1>1, <1>2 DEF Calls
<1>4. calls[t].purge = {}
  BY DEF Resting, Rest
<1> QED
  BY <1>3, <1>4 DEF PurgesKept

LEMMA CallsSame ==
    ASSUME IInv, UNCHANGED calls, stale \subseteq stale'
    PROVE  PurgesKept /\ calls' \in Calls
  BY Parts DEF PurgesKept

-----------------------------------------------------------------------------
(* The callers.                                                              *)

StepKept == TablesStep /\ QueueStep /\ WorkStep

LEMMA StageStep ==
    ASSUME IInv, NEW c \in Candidates, NEW x \in Texts, Stage(c, x)
    PROVE  StepKept
<1>1. /\ cands[c].status = "none"
      /\ cands' = [cands EXCEPT ![c] = [status |-> "proposed", text |-> x]]
      /\ UNCHANGED <<db, seq, fences, tombs, calls, afm, repair, answered, lost, misled, minted, stale>>
  BY Zenon DEF Stage
<1>2. TablesStep /\ Keeps(db, db', tombs') /\ calls' \in Calls
  BY <1>1, CallsSame, TablesSame
<1>3. /\ cands' \in Queue /\ cands'[c].status = "proposed" /\ cands'[c].text \in Texts
      /\ \A b \in Candidates \ {c} : cands'[b] = cands[b]
  <2>1. cands \in Queue
    BY Parts
  <2> QED
    BY <1>1, <2>1 DEF Queue
<1>4. QueueStep
  <2>1. minted' \in [Candidates -> SUBSET Ids]
    BY <1>1 DEF IInv, MintedType
  <2> QED
    BY <1>1, <1>2, <1>3, <2>1, Parts, QueueMoves
<1> QED
  BY <1>1, <1>2, <1>4, Parts DEF StepKept, WorkStep

\* A transaction that was undone, or that failed.
LEMMA UndoneStep ==
    ASSUME IInv, NEW t \in Threads, Resting(t), NEW d, NEW l, NEW x \in Texts,
           NEW c \in Candidates \cup {None}, Undone(t, d, l, x, c), UNCHANGED <<db, seq, cands, fences, minted, afm, repair>>
    PROVE  StepKept
<1>1. /\ answered' = answered \cup {<<l, x>>} /\ lost' = lost \cup {<<l, x>>}
      /\ tombs \subseteq tombs' /\ stale \subseteq stale' /\ Owes(t, {}, x, c) /\ UNCHANGED misled
  BY Zenon DEF Undone
<1>2. PurgesKept /\ calls' \in Calls
  BY <1>1, OwesParts
<1>3. TablesStep /\ Keeps(db, db', tombs')
  BY <1>1, <1>2, TablesSame
<1> QED
  BY <1>1, <1>2, <1>3, QueueSame, Parts DEF StepKept, WorkStep

LEMMA FailedStep ==
    ASSUME IInv, tombs \subseteq tombs',
           UNCHANGED <<db, seq, cands, fences, calls, minted, answered, lost, misled, stale, afm, repair>>
    PROVE  StepKept
<1>1. TablesStep /\ Keeps(db, db', tombs') /\ calls' \in Calls
  BY CallsSame, TablesSame
<1> QED
  BY <1>1, QueueSame, Parts DEF StepKept, WorkStep

LEMMA StageAutoStep ==
    ASSUME IInv, NEW t \in Threads, NEW c \in Candidates, NEW x \in Texts, StageAuto(t, c, x)
    PROVE  StepKept
<1> DEFINE l == NextId
           d == MapNode(Insert(db, l, x, None), l)
           D == NearDuplicates(d, l, x)
<1>1. cands[c].status = "none" /\ Resting(t) /\ Room /\ UNCHANGED <<afm, repair>>
  BY Zenon DEF StageAuto
<1>2. CASE /\ db' = d /\ seq' = l
           /\ cands' = [cands EXCEPT ![c] = [status |-> "accepted", text |-> x]]
           /\ fences' = fences \ {c}
           /\ minted' = [minted EXCEPT ![c] = @ \cup {l}]
           /\ answered' = answered \cup {<<l, x>>}
           /\ Owes(t, {}, x, None)
           /\ UNCHANGED <<tombs, lost, misled, stale>>
  <2>1. PurgesKept /\ calls' \in Calls
    BY <1>1, <1>2, OwesParts
  <2>2. db' = Added(db, NextId, x, None, None)
    BY <1>2, AddedPlain
  <2>3. TablesStep /\ Keeps(db, db', tombs') /\ l \in Ids /\ <<l, x>> \in Marks(db', Stored(db'))
    <3> None \in Stored(db) \cup {None}
      OBVIOUS
    <3> QED
      BY <1>1, <1>2, <2>1, <2>2, TablesAdded
  <2>4. /\ cands' \in Queue /\ cands'[c].status = "accepted" /\ cands'[c].text = x
        /\ \A b \in Candidates \ {c} : cands'[b] = cands[b]
    <3>1. cands \in Queue
      BY Parts
    <3> QED
      BY <1>2, <3>1 DEF Queue
  <2> HIDE DEF l, d
  <2>5. QueueStep
    BY <1>1, <1>2, <2>3, <2>4, Parts, QueueAccepted
  <2> QED
    BY <1>1, <2>1, <2>3, <2>5, Parts DEF StepKept, WorkStep
<1>3. CASE Undone(t, d, l, x, c) /\ UNCHANGED <<db, seq, cands, fences, minted>>
  BY <1>1, <1>3, UndoneStep
<1>4. CASE /\ tombs' = tombs \cup Appended(d, D, Referred(d, D))
           /\ UNCHANGED <<db, seq, cands, fences, calls, minted, answered, lost, misled, stale>>
  BY <1>1, <1>4, FailedStep
<1> QED
  BY <1>2, <1>3, <1>4, Zenon DEF StageAuto

\* The rest of an undone call: what it accepts has no learning.
LEMMA AcceptRolledBackStep ==
    ASSUME IInv, NEW t \in Threads, AcceptRolledBack(t)
    PROVE  StepKept
<1> DEFINE c == calls[t].accept
<1>1. /\ c # None
      /\ calls' = [calls EXCEPT ![t].accept = None]
      /\ cands' = [cands EXCEPT ![c].status = IF @ = "none" THEN "none" ELSE "accepted"]
      /\ fences' = fences \ {c}
      /\ misled' = IF cands[c].status \in {"proposed", "rejected"} THEN misled \cup {c} ELSE misled
      /\ UNCHANGED <<db, seq, tombs, afm, repair, answered, lost, minted, stale>>
  BY Zenon DEF AcceptRolledBack
<1>2. calls \in [Threads -> [purge : SUBSET Texts, index : Texts \cup {None}, accept : Candidates \cup {None}]]
  BY Parts DEF Calls
<1>3. c \in Candidates
  BY <1>1, <1>2
<1>4. calls' \in Calls /\ \A u \in Threads : calls'[u].purge = calls[u].purge
  BY <1>1, <1>2 DEF Calls
<1>5. PurgesKept
  BY <1>1, <1>4 DEF PurgesKept
<1>6. TablesStep /\ Keeps(db, db', tombs')
  BY <1>1, <1>5, TablesSame
<1>7. cands \in [Candidates -> [status : {"none", "proposed", "accepted", "rejected"}, text : Texts \cup {None}]]
  BY Parts DEF Queue
<1> HIDE DEF c
<1>8. /\ cands' \in Queue /\ cands'[c].text = cands[c].text
      /\ cands'[c].status = IF cands[c].status = "none" THEN "none" ELSE "accepted"
      /\ \A b \in Candidates \ {c} : cands'[b] = cands[b]
  <2>1. cands[c] \in [status : {"none", "proposed", "accepted", "rejected"}, text : Texts \cup {None}]
    BY <1>3, <1>7
  <2>2. cands'[c] = [cands[c] EXCEPT !.status = IF @ = "none" THEN "none" ELSE "accepted"]
    BY <1>1, <1>3, <1>7
  <2>3. /\ cands'[c] \in [status : {"none", "proposed", "accepted", "rejected"}, text : Texts \cup {None}]
        /\ cands'[c].text = cands[c].text
        /\ cands'[c].status = IF cands[c].status = "none" THEN "none" ELSE "accepted"
    BY <2>1, <2>2
  <2>4. \A b \in Candidates \ {c} : cands'[b] = cands[b]
    BY <1>1, <1>7
  <2>5. cands' = [cands EXCEPT ![c] = cands'[c]]
    BY <1>1, <1>3, <1>7
  <2>6. cands' \in Queue
    BY <1>7, <2>3, <2>5 DEF Queue
  <2> QED
    BY <2>3, <2>4, <2>6
<1>9. Phrased'
  BY <1>8 DEF IInv, Phrased
<1>10. MisledInv'
  BY <1>1, <1>3, <1>8 DEF IInv, MisledInv
<1>11. AcceptedHasOneLearning'
  <2> SUFFICES ASSUME NEW b \in Candidates
               PROVE  /\ cands'[b].status # "accepted" \/ b \in misled' => minted'[b] = {}
                      /\ cands'[b].status = "accepted" /\ b \notin misled' =>
                            \E l \in Ids : /\ minted'[b] = {l}
                                          /\ <<l, cands'[b].text>> \in Marks(db', Stored(db')) \cup tombs'
    BY Zenon DEF AcceptedHasOneLearning
  <2>1. /\ cands[b].status # "accepted" \/ b \in misled => minted[b] = {}
        /\ cands[b].status = "accepted" /\ b \notin misled =>
              \E l \in Ids : /\ minted[b] = {l}
                            /\ <<l, cands[b].text>> \in Marks(db, Stored(db)) \cup tombs
    BY Zenon DEF IInv, AcceptedHasOneLearning
  <2>2. Marks(db', Stored(db')) = Marks(db, Stored(db)) /\ tombs' = tombs /\ minted' = minted
    BY <1>1
  <2>3. CASE b = c
    <3>1. cands[c].status \in {"none", "proposed", "accepted", "rejected"}
      BY <1>3, <1>7
    <3> QED
      BY <1>1, <1>8, <2>1, <2>2, <2>3, <3>1
  <2>4. CASE b # c
    <3>1. cands'[b] = cands[b] /\ (b \in misled' <=> b \in misled)
      BY <1>1, <1>8, <2>4
    <3> QED
      BY <2>1, <2>2, <3>1
  <2> QED
    BY <2>3, <2>4
<1>12. QueueStep
  BY <1>1, <1>8, <1>9, <1>10, <1>11, Parts DEF QueueStep, IInv, MintedType
<1> QED
  BY <1>1, <1>4, <1>6, <1>12, Parts DEF StepKept, WorkStep

LEMMA LearnStep ==
    ASSUME IInv, NEW t \in Threads, NEW x \in Texts, NEW old \in Ids \cup {None},
           NEW contra \in Ids \cup {None}, Learn(t, x, old, contra)
    PROVE  StepKept
<1> DEFINE l == NextId
           i == Insert(db, l, x, contra)
           s == IF old = None THEN i ELSE [i EXCEPT !.rows[old].by = l]
           d == MapNode(s, l)
           D == NearDuplicates(d, l, x) \ {old}
           kept == {k \in Referred(d, D) : k \in Referred(db, D) \/ k = Min(D)}
<1>1. /\ Resting(t) /\ Room /\ {old, contra} \ {None} \subseteq Stored(db)
      /\ UNCHANGED <<cands, fences, afm, repair, minted>>
  BY Zenon DEF Learn
<1>2. CASE /\ db' = d /\ seq' = l
           /\ answered' = answered \cup {<<l, x>>}
           /\ stale' = stale \cup TextsOf(db, {old} \ {None})
           /\ Owes(t, {}, x, None)
           /\ UNCHANGED <<tombs, lost, misled>>
  <2>1. PurgesKept /\ calls' \in Calls
    BY <1>1, <1>2, OwesParts
  <2>2. db' = Added(db, NextId, x, old, contra)
    BY <1>2, Zenon DEF Added, Superseding
  <2>3. old \in Stored(db) \cup {None} /\ contra \in Stored(db) \cup {None}
    BY <1>1
  <2>4. old # None => db.rows[old].text \in stale'
    BY <1>2 DEF TextsOf
  <2>5. answered' = answered \cup {<<NextId, x>>} /\ seq' = NextId
        /\ tombs' = tombs /\ lost' = lost /\ misled' = misled
    BY <1>2
  <2> HIDE DEF l, d
  <2>6. TablesStep /\ Keeps(db, db', tombs')
    BY <1>1, <2>1, <2>2, <2>3, <2>4, <2>5, TablesAdded
  <2> QED
    BY <1>1, <2>1, <2>5, <2>6, QueueSame, Parts DEF StepKept, WorkStep
<1>3. CASE Undone(t, d, l, x, None) /\ UNCHANGED <<db, seq>>
  BY <1>1, <1>3, UndoneStep
<1>4. CASE /\ tombs' = tombs \cup Appended(d, D, kept)
           /\ UNCHANGED <<db, seq, answered, lost, misled, stale, calls>>
  BY <1>1, <1>4, FailedStep
<1> QED
  BY <1>2, <1>3, <1>4, Zenon DEF Learn

LEMMA DeclineStep ==
    ASSUME IInv, NEW c \in Candidates, Decline(c)
    PROVE  StepKept
<1>1. /\ cands[c].status = "proposed" /\ Set(c, "rejected") /\ fences' = fences \ {c}
      /\ UNCHANGED <<db, seq, tombs, calls, afm, repair, answered, lost, misled, minted, stale>>
  BY Zenon DEF Decline
<1>2. TablesStep /\ Keeps(db, db', tombs') /\ calls' \in Calls
  BY <1>1, CallsSame, TablesSame
<1>3. QueueStep
  BY <1>1, <1>2, Parts, QueueDeclined
<1> QED
  BY <1>1, <1>2, <1>3, Parts DEF StepKept, WorkStep

LEMMA TextsOfStored ==
    ASSUME NEW d \in DB, NEW D \in SUBSET Stored(d)
    PROVE  TextsOf(d, D) \subseteq Texts
<1>1. \A k \in D : d.rows[k].text \in Texts
  BY RowParts DEF Stored
<1> QED
  BY <1>1 DEF TextsOf

LEMMA AcceptStep ==
    ASSUME IInv, NEW t \in Threads, NEW c \in Candidates, NEW named \in SUBSET Ids, Accept(t, c, named)
    PROVE  StepKept
<1> DEFINE l == NextId
           x == cands[c].text
           d == MapNode(Insert(db, l, x, None), l)
           D == (named \cup NearDuplicates(d, l, x)) \ {l}
<1>1. /\ cands[c].status = "proposed" /\ Resting(t) /\ Room /\ named \subseteq Stored(db)
      /\ tombs' = tombs \cup Appended(d, D, Referred(d, D))
      /\ UNCHANGED <<afm, repair, lost, misled, stale>>
  BY Zenon DEF Accept
<1>2. CASE /\ Referred(d, D) = {}
           /\ db' = Evict(d, D) /\ seq' = l
           /\ Set(c, "accepted") /\ fences' = fences \ {c}
           /\ minted' = [minted EXCEPT ![c] = @ \cup {l}]
           /\ answered' = answered \cup {<<l, x>>}
           /\ Owes(t, TextsOf(d, D), x, None)
  <2>1. x \in Texts
    BY <1>1 DEF IInv, Phrased
  <2>2. seq \in Nat /\ seq < MaxLearnings /\ WellFormed(db, seq) /\ l = seq + 1 /\ MaxLearnings \in Nat
    BY <1>1, Parts DEF Room, NextId
  <2>3. d = Added(db, seq + 1, x, None, None)
    BY <2>2, AddedPlain
  <2> HIDE DEF d, x
  <2>4. /\ WellFormed(d, l) /\ Stored(d) = Stored(db) \cup {l}
        /\ Marks(d, Stored(d)) = Marks(db, Stored(db)) \cup {<<l, x>>}
        /\ \A y \in Texts : Saying(db, y) \subseteq Saying(d, y) \cup {None}
        /\ l \in Saying(d, x) /\ SameDocs(db, d)
    <3>1. None \in Stored(db) \cup {None}
      OBVIOUS
    <3> QED
      BY <2>1, <2>2, <2>3, <3>1, AddedKeeps
  <2>5. l \in Ids /\ l \in 0 .. MaxLearnings
    BY <2>2 DEF Ids
  <2>6. D \in SUBSET Stored(d) /\ l \notin D
    BY <1>1, <2>4 DEF NearDuplicates, Active
  <2>7. \A y \in Texts : Saying(db, y) \subseteq Saying(d, y)
    BY <2>4, GovernanceAssumption DEF Saying, Active, Stored
  <2>8. tombs \cup Marks(d, D) \subseteq tombs'
    BY <1>1, <1>2 DEF Appended
  <2> HIDE DEF D, l
  <2>9. PurgesKept /\ calls' \in Calls /\ calls'[t].purge = TextsOf(d, D)
    <3>1. TextsOf(d, D) \subseteq Texts
      BY <2>4, <2>6, TextsOfStored DEF WellFormed
    <3> QED
      BY <1>1, <1>2, <2>1, <3>1, OwesParts
  <2>10. <<l, x>> \in Marks(db', Stored(db'))
    <3>1. \A k \in Stored(d) \ D : <<k, d.rows[k].text>> \in Marks(Evict(d, D), Stored(Evict(d, D)))
      <4>1. D \in SUBSET Ids
        BY <2>6 DEF Stored
      <4> QED
        BY <1>2, <2>4, <4>1, EvictKeeps
    <3>2. d.rows[l].text = x /\ l \in Stored(d) \ D
      BY <2>4, <2>6 DEF Saying, Active
    <3> QED
      BY <1>2, <3>1, <3>2
  <2>11. TablesStep /\ Keeps(db, db', tombs')
    <3>1. seq' \in 0 .. MaxLearnings /\ WellFormed(d, seq')
      BY <1>2, <2>4, <2>5
    <3>2. Marks(db, Stored(db)) \subseteq Marks(d, Stored(d)) /\ SameDocs(db, d)
      BY <2>4
    <3>3. answered' \subseteq answered \cup Marks(db', Stored(db')) /\ lost \subseteq lost'
      BY <1>1, <1>2, <2>10
    <3>4. \A y \in TextsOf(d, D) : Mapped(db', y) # {} =>
              Saying(db', y) # {} \/ y \in stale' \/ \E u \in Threads : y \in calls'[u].purge
      BY <2>9
    <3>5. Referred(d, D) = {} /\ db' = Evict(d, D) /\ D \in SUBSET Stored(d)
      BY <1>2, <2>6
    <3> QED
      BY <2>7, <2>8, <2>9, <3>1, <3>2, <3>3, <3>4, <3>5, TablesEvicted, Zenon
  <2>12. /\ cands' \in Queue /\ cands'[c].status = "accepted" /\ cands'[c].text = x
         /\ \A b \in Candidates \ {c} : cands'[b] = cands[b]
    BY <1>2, SetParts DEF x
  <2>13. tombs \subseteq tombs'
    BY <1>1
  <2>14. fences' \subseteq Candidates
    BY <1>2, Parts
  <2>15. QueueStep
    BY <1>1, <1>2, <2>1, <2>5, <2>10, <2>11, <2>12, <2>13, <2>14, QueueAccepted
  <2> QED
    BY <1>1, <2>9, <2>11, <2>15, Parts DEF StepKept, WorkStep
<1>3. CASE UNCHANGED <<db, seq, cands, fences, minted, answered, calls>>
  BY <1>1, <1>3, FailedStep
<1> QED
  BY <1>2, <1>3, Zenon DEF Accept

LEMMA ContradictStep ==
    ASSUME IInv, NEW t \in Threads, NEW x \in Texts, NEW S \in SUBSET Ids, Contradict(t, x, S)
    PROVE  StepKept
<1> DEFINE l == NextId
           i == Insert(db, l, x, None)
<1>1. /\ Resting(t) /\ Room /\ S \subseteq Stored(db)
      /\ db' = Close(i, S, l) /\ seq' = l
      /\ answered' = answered \cup {<<l, x>>}
      /\ Owes(t, TextsOf(db, S), None, None)
      /\ UNCHANGED <<cands, fences, tombs, afm, repair, lost, misled, minted, stale>>
  BY Zenon DEF Contradict
<1>2. seq \in Nat /\ seq < MaxLearnings /\ WellFormed(db, seq) /\ l = seq + 1 /\ MaxLearnings \in Nat
      /\ db \in DB
  BY <1>1, Parts DEF Room, NextId
<1>3. /\ WellFormed(i, l) /\ Stored(i) = Stored(db) \cup {l}
      /\ Marks(i, Stored(i)) = Marks(db, Stored(db)) \cup {<<l, x>>}
      /\ \A y \in Texts : Saying(db, y) \subseteq Saying(i, y) \cup {None}
      /\ i.docs = db.docs
      /\ \A k \in Stored(db) : i.rows[k].text = db.rows[k].text
  <2>1. i = Insert(db, seq + 1, x, None)
    BY <1>2
  <2> HIDE DEF i
  <2> QED
    BY <1>2, <2>1, InsertKeeps
<1>4. l \in 0 .. MaxLearnings
  BY <1>2
<1> HIDE DEF i, l
<1>5. /\ WellFormed(db', l) /\ db'.docs = db.docs
      /\ Marks(db', Stored(db')) = Marks(db, Stored(db)) \cup {<<l, x>>}
      /\ \A y \in Texts : y \notin TextsOf(i, S) => Saying(i, y) \subseteq Saying(db', y)
  <2>1. S \in SUBSET Stored(i) /\ l \in Stored(i)
    BY <1>1, <1>3
  <2> DEFINE e == Close(i, S, l)
  <2>2. /\ WellFormed(e, l) /\ e.docs = i.docs
        /\ Marks(e, Stored(e)) = Marks(i, Stored(i))
        /\ \A y \in Texts : y \notin TextsOf(i, S) => Saying(i, y) \subseteq Saying(e, y)
    <3>1. WellFormed(i, l)
      BY <1>3
    <3>2. WellFormed(e, l)
      BY <2>1, <3>1, CloseKeeps, Zenon
    <3>3. e.docs = i.docs
      BY <2>1, <3>1, CloseKeeps, Zenon
    <3>4. Marks(e, Stored(e)) = Marks(i, Stored(i))
      BY <2>1, <3>1, CloseKeeps, Zenon
    <3>5. \A y \in Texts : y \notin TextsOf(i, S) => Saying(i, y) \subseteq Saying(e, y)
      BY <2>1, <3>1, CloseKeeps, Zenon
    <3> QED
      BY <3>2, <3>3, <3>4, <3>5
  <2>3. db' = e
    BY <1>1
  <2> HIDE DEF e
  <2> QED
    BY <1>3, <2>2, <2>3
<1>6. TextsOf(i, S) = TextsOf(db, S)
  BY <1>1, <1>3 DEF TextsOf
<1>7. PurgesKept /\ calls' \in Calls /\ calls'[t].purge = TextsOf(db, S)
  <2>1. TextsOf(db, S) \subseteq Texts
    BY <1>1, <1>2, TextsOfStored
  <2> QED
    BY <1>1, <2>1, OwesParts
<1>8. Keeps(db, db', tombs') /\ NothingLost
  BY <1>1, <1>5 DEF Keeps, NothingLost
<1>9. Shown'
  <2> SUFFICES ASSUME NEW y \in Texts, db'.docs[y].fts
               PROVE  /\ db.docs[y].fts /\ db'.docs[y].page \in {db.docs[y].page, "open"}
                      /\ Saying(db, y) # {} => \/ Saying(db', y) # {}
                                               \/ y \in stale' \/ \E u \in Threads : y \in calls'[u].purge
    BY <1>7, ShownKept
  <2>1. \A k \in Saying(db, y) : k # None
    BY GovernanceAssumption DEF Saying, Active, Stored
  <2> QED
    BY <1>3, <1>5, <1>6, <1>7, <2>1
<1>10. StaysFound
  BY <1>5 DEF StaysFound
<1>11. TablesStep
  BY <1>1, <1>4, <1>5, <1>8, <1>9, <1>10, Zenon DEF TablesStep
<1>12. QueueStep
  BY <1>1, <1>8, Parts, QueueSame
<1> QED
  BY <1>1, <1>7, <1>11, <1>12, Parts DEF StepKept, WorkStep

-----------------------------------------------------------------------------
(* What follows a commit.                                                    *)

LEMMA PurgeStep ==
    ASSUME IInv, NEW t \in Threads, NEW x \in Texts, Purge(t, x)
    PROVE  StepKept
<1> DEFINE doc  == db.docs[x]
           kept == Mapped(db, x) \cap Active(db) # {} /\ doc.page # "closed"
           gone == IF Mapped(db, x) = {} THEN NoDoc
                   ELSE IF doc.page = "closed" THEN [doc EXCEPT !.fts = FALSE]
                   ELSE [page |-> "closed", succ |-> Successor(db, x), fts |-> FALSE]
<1>1. /\ calls' = [calls EXCEPT ![t].purge = @ \ {x}]
      /\ db' = IF doc.page = "none" \/ kept THEN db ELSE [db EXCEPT !.docs[x] = gone]
      /\ UNCHANGED <<seq, cands, fences, tombs, afm, repair, answered, lost, misled, minted, stale>>
  BY Zenon DEF Purge
<1>2. db \in DB /\ doc \in Docs
  BY Parts, DocParts
<1>3. gone \in Docs /\ ~ gone.fts
  <2>1. NoDoc \in Docs /\ ~ NoDoc.fts
    BY DEF NoDoc, Docs
  <2>2. [page |-> "closed", succ |-> Successor(db, x), fts |-> FALSE] \in Docs
    BY <1>2, SuccessorType DEF Docs
  <2>3. [doc EXCEPT !.fts = FALSE] \in Docs /\ ~ [doc EXCEPT !.fts = FALSE].fts
    BY <1>2 DEF Docs
  <2> QED
    BY <2>1, <2>2, <2>3
<1>4. /\ calls' \in Calls
      /\ \A u \in Threads : calls[u].purge \ {x} \subseteq calls'[u].purge
  <2>1. calls \in [Threads -> [purge : SUBSET Texts, index : Texts \cup {None}, accept : Candidates \cup {None}]]
    BY Parts DEF Calls
  <2>2. calls' \in [Threads -> [purge : SUBSET Texts, index : Texts \cup {None}, accept : Candidates \cup {None}]]
    <3>1. \A u \in Threads : calls[u].purge \in SUBSET Texts /\ calls[u] \in [purge : SUBSET Texts, index : Texts \cup {None}, accept : Candidates \cup {None}]
      BY <2>1
    <3>2. calls[t].purge \ {x} \in SUBSET Texts
      BY <3>1
    <3>3. [calls[t] EXCEPT !.purge = @ \ {x}] \in [purge : SUBSET Texts, index : Texts \cup {None}, accept : Candidates \cup {None}]
      BY <3>1, <3>2, Zenon
    <3>4. calls' = [calls EXCEPT ![t] = [calls[t] EXCEPT !.purge = @ \ {x}]]
      BY <1>1, <2>1, Zenon
    <3> QED
      BY <2>1, <3>3, <3>4, Zenon
  <2>3. calls'[t].purge = calls[t].purge \ {x}
    BY <1>1, <2>1
  <2>4. \A u \in Threads \ {t} : calls'[u] = calls[u]
    BY <1>1, <2>1
  <2> QED
    BY <2>2, <2>3, <2>4 DEF Calls
<1>5. doc.fts => /\ doc.page = "open"
                 /\ \/ x \in stale
                    \/ Saying(db, x) # {}
                    \/ \E u \in Threads : x \in calls[u].purge
  BY DEF IInv, Shown
<1>6. \A y \in Texts \ {x} : db.docs[y].fts =>
          /\ db.docs[y].page = "open"
          /\ \/ y \in stale'
             \/ Saying(db, y) # {}
             \/ \E u \in Threads : y \in calls'[u].purge
  <2> SUFFICES ASSUME NEW y \in Texts \ {x}, db.docs[y].fts
               PROVE  /\ db.docs[y].page = "open"
                      /\ \/ y \in stale'
                         \/ Saying(db, y) # {}
                         \/ \E u \in Threads : y \in calls'[u].purge
    OBVIOUS
  <2>1. /\ db.docs[y].page = "open"
        /\ \/ y \in stale
           \/ Saying(db, y) # {}
           \/ \E u \in Threads : y \in calls[u].purge
    BY DEF IInv, Shown
  <2> QED
    BY <1>1, <1>4, <2>1
<1> HIDE DEF gone
<1>7. CASE doc.page = "none" \/ kept
  <2>1. db' = db
    BY <1>1, <1>7
  <2>2. doc.fts => Saying(db, x) # {}
    BY <1>5, <1>7 DEF Saying, Mapped
  <2>3. Shown'
    <3>1. \A y \in Texts : db.docs[y].fts =>
            /\ db.docs[y].page = "open"
            /\ \/ y \in stale'
               \/ Saying(db, y) # {}
               \/ \E u \in Threads : y \in calls'[u].purge
      BY <1>5, <1>6, <2>2
    <3> QED
      BY <2>1, <3>1, Zenon DEF Shown
  <2>4. StaysFound
    BY <2>1 DEF StaysFound
  <2>5. TablesStep /\ Keeps(db, db', tombs')
    BY <1>1, <1>2, <2>1, <2>3, <2>4, TablesDocs
  <2>6. QueueStep
    BY <1>1, <2>5, Parts, QueueSame
  <2> QED
    BY <1>1, <1>4, <2>5, <2>6, Parts DEF StepKept, WorkStep
<1>8. CASE ~ (doc.page = "none" \/ kept)
  <2>1. /\ db' \in DB /\ db'.rows = db.rows /\ db'.docs[x] = gone
        /\ \A y \in Texts \ {x} : db'.docs[y] = db.docs[y]
    BY <1>1, <1>2, <1>3, <1>8, DocSet
  <2>2. \A y : Saying(db', y) = Saying(db, y) /\ Mapped(db', y) = Mapped(db, y)
    BY <2>1, Parts, DocsOnly
  <2>3. Active(db') = Active(db)
    BY <2>1, Parts, DocsOnly
  <2>4. Shown'
    <3>1. \A y \in Texts : db'.docs[y].fts =>
            /\ db'.docs[y].page = "open"
            /\ \/ y \in stale'
               \/ Saying(db', y) # {}
               \/ \E u \in Threads : y \in calls'[u].purge
      BY <1>3, <1>6, <2>1, <2>2
    <3> QED
      BY <3>1, Zenon DEF Shown
  <2>5. StaysFound
    <3>1. doc.fts => Mapped(db', x) \cap Active(db') = {}
      BY <1>5, <1>8, <2>2, <2>3
    <3> QED
      BY <2>1, <3>1 DEF StaysFound
  <2>6. TablesStep /\ Keeps(db, db', tombs')
    BY <1>1, <2>1, <2>4, <2>5, TablesDocs
  <2>7. QueueStep
    BY <1>1, <2>6, Parts, QueueSame
  <2> QED
    BY <1>1, <1>4, <2>6, <2>7, Parts DEF StepKept, WorkStep
<1> QED
  BY <1>7, <1>8

\* A document that is put into the index.
LEMMA OpenedKeeps ==
    ASSUME IInv, NEW x \in Texts, PurgesKept,
           db' = [db EXCEPT !.docs[x] = [@ EXCEPT !.page = "open", !.fts = TRUE]],
           x \in stale' \/ Saying(db, x) # {},
           UNCHANGED <<seq, tombs, answered, lost, misled>>
    PROVE  TablesStep /\ Keeps(db, db', tombs')
<1> DEFINE v == [db.docs[x] EXCEPT !.page = "open", !.fts = TRUE]
<1>1. db \in DB /\ db.docs[x] \in Docs
  BY Parts, DocParts
<1>2. v \in Docs /\ v.page = "open" /\ v.fts
  BY <1>1 DEF Docs
<1>3. db' = [db EXCEPT !.docs[x] = v]
  BY Zenon
<1> HIDE DEF v
<1>4. /\ db' \in DB /\ db'.rows = db.rows /\ db'.docs[x] = v
      /\ \A y \in Texts \ {x} : db'.docs[y] = db.docs[y]
  <2> DEFINE e == [db EXCEPT !.docs[x] = v]
  <2>1. /\ e \in DB /\ e.rows = db.rows /\ e.docs[x] = v
        /\ \A y \in Texts \ {x} : e.docs[y] = db.docs[y]
    BY <1>1, <1>2, DocSet, Zenon
  <2>2. db' = e
    BY <1>3
  <2> HIDE DEF e
  <2> QED
    BY <2>1, <2>2, Zenon
<1>5. \A y : Saying(db', y) = Saying(db, y)
  BY <1>4, Parts, DocsOnly
<1>6. Shown'
  <2>1. ASSUME NEW y \in Texts, db'.docs[y].fts
        PROVE  /\ db'.docs[y].page = "open"
               /\ \/ y \in stale'
                  \/ Saying(db', y) # {}
                  \/ \E u \in Threads : y \in calls'[u].purge
    <3>1. CASE y = x
      BY <1>2, <1>4, <1>5, <3>1
    <3>2. CASE y # x
      <4>1. /\ db.docs[y].fts => db.docs[y].page = "open"
            /\ db.docs[y].fts => \/ y \in stale
                                 \/ Saying(db, y) # {}
                                 \/ \E u \in Threads : y \in calls[u].purge
        BY DEF IInv, Shown
      <4> QED
        BY <1>4, <1>5, <2>1, <3>2, <4>1 DEF PurgesKept
    <3> QED
      BY <3>1, <3>2
  <2> QED
    BY <2>1, Zenon DEF Shown
<1>7. StaysFound
  BY <1>2, <1>4 DEF StaysFound
<1> QED
  BY <1>4, <1>6, <1>7, TablesDocs

LEMMA IndexedKeeps ==
    ASSUME IInv, NEW x \in Texts, Indexed(x),
           \A u \in Threads : \A y \in calls[u].purge : \E w \in Threads : y \in calls'[w].purge,
           UNCHANGED <<seq, tombs, answered, lost, misled>>
    PROVE  TablesStep /\ Keeps(db, db', tombs')
<1>1. CASE /\ db' = [db EXCEPT !.docs[x] = [@ EXCEPT !.page = "open", !.fts = TRUE]]
           /\ stale' = IF Saying(db, x) = {} THEN stale \cup {x} ELSE stale
  <2>1. PurgesKept /\ (x \in stale' \/ Saying(db, x) # {})
    BY <1>1 DEF PurgesKept
  <2> QED
    BY <1>1, <2>1, OpenedKeeps
<1>2. CASE UNCHANGED <<db, stale>>
  <2>1. PurgesKept
    BY <1>2 DEF PurgesKept
  <2> QED
    BY <1>2, <2>1, TablesSame
<1> QED
  BY <1>1, <1>2, Zenon DEF Indexed

LEMMA IndexStep ==
    ASSUME IInv, NEW t \in Threads, Index(t)
    PROVE  StepKept
<1>1. /\ calls[t].purge = {} /\ calls[t].index # None /\ Indexed(calls[t].index)
      /\ calls' = [calls EXCEPT ![t] = Rest]
      /\ UNCHANGED <<seq, cands, fences, tombs, afm, repair, answered, lost, misled, minted>>
  BY Zenon DEF Index
<1>2. calls \in [Threads -> [purge : SUBSET Texts, index : Texts \cup {None}, accept : Candidates \cup {None}]]
  BY Parts DEF Calls
<1>3. calls[t].index \in Texts
  BY <1>1, <1>2
<1>4. /\ calls' \in Calls /\ \A u \in Threads \ {t} : calls'[u] = calls[u]
  BY <1>1, <1>2 DEF Calls, Rest
<1>5. TablesStep /\ Keeps(db, db', tombs')
  BY <1>1, <1>3, <1>4, IndexedKeeps
<1>6. QueueStep
  BY <1>1, <1>5, Parts, QueueSame
<1> QED
  BY <1>1, <1>4, <1>5, <1>6, Parts DEF StepKept, WorkStep

LEMMA RepairStep ==
    ASSUME IInv, \/ \E x \in Texts : RepairReads(x)
                 \/ RepairWrites
    PROVE  StepKept
<1>1. ASSUME NEW x \in Texts, RepairReads(x) PROVE StepKept
  <2>1. /\ repair' = x
        /\ UNCHANGED <<db, seq, cands, fences, tombs, calls, afm, answered, lost, misled, minted, stale>>
    BY <1>1, Zenon DEF RepairReads
  <2>2. TablesStep /\ Keeps(db, db', tombs') /\ calls' \in Calls
    BY <2>1, CallsSame, TablesSame
  <2>3. QueueStep
    BY <2>1, <2>2, Parts, QueueSame
  <2> QED
    BY <2>1, <2>2, <2>3, Parts DEF StepKept, WorkStep
<1>2. CASE RepairWrites
  <2>1. /\ repair # None /\ repair' = None
        /\ db' = IF Saying(db, repair) = {} \/ db.docs[repair].fts \/ db.docs[repair].page = "closed" THEN db
                 ELSE [db EXCEPT !.docs[repair] = [@ EXCEPT !.page = "open", !.fts = TRUE]]
        /\ UNCHANGED <<seq, cands, fences, tombs, calls, afm, answered, lost, misled, minted, stale>>
    BY <1>2, Zenon DEF RepairWrites
  <2>2. repair \in Texts
    BY <2>1, Parts
  <2>3. PurgesKept /\ calls' \in Calls
    BY <2>1, CallsSame
  <2>4. TablesStep /\ Keeps(db, db', tombs')
    <3>1. CASE db' = db
      BY <2>1, <2>3, <3>1, TablesSame
    <3>2. CASE /\ Saying(db, repair) # {}
               /\ db' = [db EXCEPT !.docs[repair] = [@ EXCEPT !.page = "open", !.fts = TRUE]]
      BY <2>1, <2>2, <2>3, <3>2, OpenedKeeps
    <3> QED
      BY <2>1, <3>1, <3>2
  <2>5. QueueStep
    BY <2>1, <2>4, Parts, QueueSame
  <2> QED
    BY <2>1, <2>3, <2>4, <2>5, Parts DEF StepKept, WorkStep
<1> QED
  BY <1>1, <1>2

-----------------------------------------------------------------------------
(* The pass, the sweeps and the restart.                                     *)

LEMMA TakenParts ==
    ASSUME IInv, NEW c \in Candidates, Taken(c)
    PROVE  afm' \in Passes
<1> DEFINE rest == [afm.plan EXCEPT ![c] = "none"]
<1>1. afm \in [pc : {"idle", "apply", "index", "dups"}, plan : [Candidates -> Verdicts], lid : Ids \cup {None}]
  BY Parts DEF Passes
<1>2. afm.plan \in [Candidates -> Verdicts] /\ "none" \in Verdicts
  BY <1>1 DEF Verdicts
<1>3. rest \in [Candidates -> Verdicts]
  BY <1>2
<1>4. Idle \in Passes
  BY <1>2 DEF Idle, Passes
<1>5. afm' = IF rest = Idle.plan THEN Idle ELSE [afm EXCEPT !.plan = rest]
  BY Zenon DEF Taken
<1> HIDE DEF rest
<1>6. [afm EXCEPT !.plan = rest] \in Passes
  BY <1>1, <1>3 DEF Passes
<1> QED
  BY <1>4, <1>5, <1>6

LEMMA SelectStep ==
    ASSUME IInv, NEW plan \in [Candidates -> Verdicts], Select(plan)
    PROVE  StepKept
<1>1. /\ afm' = [Idle EXCEPT !.pc = "apply", !.plan = plan]
      /\ UNCHANGED <<db, seq, cands, fences, tombs, calls, repair, answered, lost, misled, minted, stale>>
  BY Zenon DEF Select
<1>2. afm' \in Passes
  BY <1>1 DEF Idle, Passes
<1>3. TablesStep /\ Keeps(db, db', tombs') /\ calls' \in Calls
  BY <1>1, CallsSame, TablesSame
<1> QED
  BY <1>1, <1>2, <1>3, QueueSame, Parts DEF StepKept, WorkStep

\* A verdict that declines a candidate, or leaves it alone.
LEMMA VerdictStep ==
    ASSUME IInv, NEW c \in Candidates, Taken(c),
           \/ cands[c].status = "proposed" /\ Set(c, "rejected")
           \/ UNCHANGED cands,
           fences' \subseteq Candidates,
           UNCHANGED <<db, seq, tombs, calls, repair, answered, lost, misled, minted, stale>>
    PROVE  StepKept
<1>1. TablesStep /\ Keeps(db, db', tombs') /\ calls' \in Calls
  BY CallsSame, TablesSame
<1>2. QueueStep
  <2>1. CASE cands[c].status = "proposed" /\ Set(c, "rejected")
    BY <1>1, <2>1, QueueDeclined
  <2>2. CASE UNCHANGED cands
    BY <1>1, <2>2, QueueSame
  <2> QED
    BY <2>1, <2>2
<1> QED
  BY <1>1, <1>2, TakenParts, Parts DEF StepKept, WorkStep

LEMMA VerdictsStep ==
    ASSUME IInv, NEW c \in Candidates, Deduplicate(c) \/ Judge(c) \/ Mark(c)
    PROVE  StepKept
<1>1. fences \subseteq Candidates
  BY Parts
<1>2. CASE Deduplicate(c)
  <2>1. /\ Taken(c)
        /\ IF cands[c].status = "proposed" /\ Saying(db, cands[c].text) # {}
           THEN Set(c, "rejected") /\ fences' = fences \ {c}
           ELSE UNCHANGED <<cands, fences>>
        /\ UNCHANGED <<db, seq, tombs, calls, repair, answered, lost, misled, minted, stale>>
    BY <1>2, Zenon DEF Deduplicate
  <2>2. /\ fences' \subseteq Candidates
        /\ \/ cands[c].status = "proposed" /\ Set(c, "rejected")
           \/ UNCHANGED cands
    BY <1>1, <2>1
  <2> QED
    BY <2>1, <2>2, VerdictStep
<1>3. CASE Judge(c)
  <2>1. /\ Taken(c)
        /\ IF cands[c].status = "proposed" THEN Set(c, "rejected") /\ fences' = fences \ {c}
                                           ELSE UNCHANGED <<cands, fences>>
        /\ UNCHANGED <<db, seq, tombs, calls, repair, answered, lost, misled, minted, stale>>
    BY <1>3, Zenon DEF Judge
  <2>2. /\ fences' \subseteq Candidates
        /\ \/ cands[c].status = "proposed" /\ Set(c, "rejected")
           \/ UNCHANGED cands
    BY <1>1, <2>1
  <2> QED
    BY <2>1, <2>2, VerdictStep
<1>4. CASE Mark(c)
  <2>1. /\ Taken(c)
        /\ fences' = IF cands[c].status = "proposed" THEN fences \cup {c} ELSE fences
        /\ UNCHANGED <<db, seq, cands, tombs, calls, repair, answered, lost, misled, minted, stale>>
    BY <1>4, Zenon DEF Mark
  <2>2. fences' \subseteq Candidates
    BY <1>1, <2>1
  <2> QED
    BY <2>1, <2>2, VerdictStep
<1> QED
  BY <1>2, <1>3, <1>4

LEMMA PromoteStep ==
    ASSUME IInv, NEW c \in Candidates, Promote(c)
    PROVE  StepKept
<1> DEFINE x == cands[c].text
<1>1. UNCHANGED <<tombs, calls, repair, answered, lost, misled, stale>>
  BY Zenon DEF Promote
<1>2. PurgesKept /\ calls' \in Calls
  BY <1>1, CallsSame
<1>3. CASE /\ cands[c].status = "proposed" /\ Room
           /\ db' = MapNode(Insert(db, NextId, x, None), NextId) /\ seq' = NextId
           /\ Set(c, "accepted") /\ fences' = fences \ {c}
           /\ minted' = [minted EXCEPT ![c] = @ \cup {NextId}]
           /\ afm' = [afm EXCEPT !.plan[c] = "none", !.pc = "index", !.lid = NextId]
  <2>1. x \in Texts
    BY <1>3 DEF IInv, Phrased
  <2>2. db' = Added(db, NextId, x, None, None)
    BY <1>3, AddedPlain, Zenon
  <2> HIDE DEF x
  <2>3. /\ TablesStep /\ Keeps(db, db', tombs')
        /\ NextId \in Ids /\ <<NextId, x>> \in Marks(db', Stored(db'))
    <3>1. None \in Stored(db) \cup {None}
      OBVIOUS
    <3> QED
      BY <1>1, <1>2, <1>3, <2>1, <2>2, <3>1, TablesAdded
  <2>4. /\ cands' \in Queue /\ cands'[c].status = "accepted" /\ cands'[c].text = x
        /\ \A b \in Candidates \ {c} : cands'[b] = cands[b]
    BY <1>3, SetParts DEF x
  <2>5. fences' \subseteq Candidates
    BY <1>3, Parts
  <2>6. QueueStep
    BY <1>1, <1>3, <2>1, <2>3, <2>4, <2>5, QueueAccepted
  <2>7. afm' \in Passes
    <3>1. afm \in [pc : {"idle", "apply", "index", "dups"}, plan : [Candidates -> Verdicts], lid : Ids \cup {None}]
      BY Parts DEF Passes
    <3>2. "none" \in Verdicts /\ "index" \in {"idle", "apply", "index", "dups"} /\ NextId \in Ids \cup {None}
      BY <2>3 DEF Verdicts
    <3> QED
      BY <1>3, <3>1, <3>2, Zenon DEF Passes
  <2> QED
    BY <1>1, <1>2, <2>3, <2>6, <2>7, Parts DEF StepKept, WorkStep
<1>4. CASE Taken(c) /\ UNCHANGED <<db, seq, cands, fences, minted>>
  <2>1. fences' \subseteq Candidates
    BY <1>4, Parts
  <2> QED
    BY <1>1, <1>4, <2>1, VerdictStep
<1> QED
  BY <1>3, <1>4, Zenon DEF Promote

LEMMA PromotedIndexStep ==
    ASSUME IInv, PromotedIndex
    PROVE  StepKept
<1>1. PICK x \in Texts : Indexed(x)
  BY Zenon DEF PromotedIndex
<1>2. /\ afm' = [afm EXCEPT !.pc = "dups"]
      /\ UNCHANGED <<seq, cands, fences, tombs, calls, repair, answered, lost, misled, minted>>
  BY Zenon DEF PromotedIndex
<1>3. TablesStep /\ Keeps(db, db', tombs')
  <2>1. \A u \in Threads : \A y \in calls[u].purge : \E w \in Threads : y \in calls'[w].purge
    BY <1>2
  <2> QED
    BY <1>1, <1>2, <2>1, IndexedKeeps
<1>4. afm' \in Passes
  BY <1>2, Parts DEF Passes
<1> QED
  BY <1>2, <1>3, <1>4, QueueSame, Parts DEF StepKept, WorkStep

\* An eviction after which no document is purged.
LEMMA SweptTables ==
    ASSUME IInv, NEW D \in SUBSET Stored(db),
           tombs' = tombs \cup Appended(db, D, Referred(db, D)),
           IF Referred(db, D) = {}
           THEN db' = Evict(db, D) /\ stale' = stale \cup Leftover(db, D)
           ELSE UNCHANGED <<db, stale>>,
           UNCHANGED <<seq, calls, answered, lost, misled>>
    PROVE  TablesStep /\ Keeps(db, db', tombs') /\ calls' \in Calls
<1>1. PurgesKept /\ calls' \in Calls
  BY CallsSame
<1>2. CASE Referred(db, D) = {}
  <2>1. Appended(db, D, Referred(db, D)) = Marks(db, D)
    BY <1>2 DEF Appended
  <2>2. \A y \in TextsOf(db, D) : Mapped(db', y) # {} =>
              Saying(db', y) # {} \/ y \in stale' \/ \E u \in Threads : y \in calls'[u].purge
    BY <1>2 DEF Leftover
  <2>3. WellFormed(db, seq') /\ seq' \in 0 .. MaxLearnings
    BY Parts
  <2>4. SameDocs(db, db)
    BY Parts DEF SameDocs
  <2>5. tombs \cup Marks(db, D) \subseteq tombs'
    BY <2>1
  <2> QED
    BY <1>1, <1>2, <2>2, <2>3, <2>4, <2>5, TablesEvicted
<1>3. CASE Referred(db, D) # {}
  BY <1>1, <1>3, TablesSame
<1> QED
  BY <1>2, <1>3

LEMMA SweptStep ==
    ASSUME IInv, NEW D \in SUBSET Stored(db), Swept(D)
    PROVE  StepKept
<1>1. /\ tombs' = tombs \cup Appended(db, D, Referred(db, D))
      /\ IF Referred(db, D) = {}
         THEN db' = Evict(db, D) /\ stale' = stale \cup Leftover(db, D)
         ELSE UNCHANGED <<db, stale>>
      /\ UNCHANGED <<seq, cands, fences, calls, afm, repair, answered, lost, misled, minted>>
  BY Zenon DEF Swept
<1>2. TablesStep /\ Keeps(db, db', tombs') /\ calls' \in Calls
  BY <1>1, SweptTables, Zenon
<1> QED
  BY <1>1, <1>2, QueueSame, Parts DEF StepKept, WorkStep

LEMMA SweepsStep ==
    ASSUME IInv, Dedup \/ \E l \in Ids : Decay(l)
    PROVE  StepKept
<1>1. Active(db) \subseteq Stored(db)
  BY DEF Active
<1>2. ASSUME NEW l \in Ids, Decay(l) PROVE StepKept
  <2>1. {l} \in SUBSET Stored(db) /\ Swept({l})
    BY <1>1, <1>2 DEF Decay
  <2> QED
    BY <2>1, SweptStep
<1>3. CASE Dedup
  <2>1. PICK D \in SUBSET Active(db) : Swept(D)
    BY <1>3, Zenon DEF Dedup
  <2> QED
    BY <1>1, <2>1, SweptStep
<1> QED
  BY <1>2, <1>3

LEMMA PromotedDuplicatesStep ==
    ASSUME IInv, PromotedDuplicates
    PROVE  StepKept
<1> DEFINE D == IF afm.lid \in Stored(db) THEN NearDuplicates(db, afm.lid, db.rows[afm.lid].text) ELSE {}
<1>1. D \in SUBSET Stored(db)
  BY DEF NearDuplicates, Active
<1>2. /\ tombs' = tombs \cup Appended(db, D, Referred(db, D))
      /\ IF Referred(db, D) = {}
         THEN db' = Evict(db, D) /\ stale' = stale \cup Leftover(db, D)
         ELSE UNCHANGED <<db, stale>>
      /\ afm' = IF afm.plan = Idle.plan THEN Idle ELSE [afm EXCEPT !.pc = "apply", !.lid = None]
      /\ UNCHANGED <<seq, cands, fences, calls, repair, answered, lost, misled, minted>>
  BY Zenon DEF PromotedDuplicates
<1> HIDE DEF D
<1>3. TablesStep /\ Keeps(db, db', tombs') /\ calls' \in Calls
  BY <1>1, <1>2, SweptTables, Zenon
<1>4. afm' \in Passes
  <2>1. Idle \in Passes
    BY DEF Idle, Passes, Verdicts
  <2>2. [afm EXCEPT !.pc = "apply", !.lid = None] \in Passes
    BY Parts DEF Passes
  <2> QED
    BY <1>2, <2>1, <2>2
<1> QED
  BY <1>2, <1>3, <1>4, QueueSame, Parts DEF StepKept, WorkStep

LEMMA CrashStep ==
    ASSUME IInv, Crash
    PROVE  StepKept
<1>1. /\ stale' = stale \cup UNION {calls[t].purge : t \in Threads}
      /\ calls' = [t \in Threads |-> Rest] /\ afm' = Idle /\ repair' = None
      /\ UNCHANGED <<db, seq, cands, fences, tombs, answered, lost, misled, minted>>
  BY Zenon DEF Crash
<1>2. PurgesKept
  BY <1>1 DEF PurgesKept
<1>3. calls' \in Calls /\ afm' \in Passes /\ repair' \in Texts \cup {None}
  BY <1>1 DEF Calls, Rest, Passes, Idle, Verdicts
<1>4. TablesStep /\ Keeps(db, db', tombs')
  BY <1>1, <1>2, TablesSame
<1> QED
  BY <1>1, <1>3, <1>4, QueueSame, Parts DEF StepKept, WorkStep

-----------------------------------------------------------------------------
(* The theorems.                                                             *)

LEMMA InitInv == Init => IInv
<1> SUFFICES ASSUME Init PROVE IInv
  OBVIOUS
<1>1. /\ near \in SUBSET {p \in SUBSET Texts : Cardinality(p) = 2}
      /\ db = [rows |-> [l \in Ids |-> NoRow], docs |-> [x \in Texts |-> NoDoc]]
      /\ seq = 0
      /\ cands = [c \in Candidates |-> [status |-> "none", text |-> None]]
      /\ fences = {} /\ tombs = {}
      /\ calls = [t \in Threads |-> Rest] /\ afm = Idle /\ repair = None
      /\ answered = {} /\ lost = {} /\ minted = [c \in Candidates |-> {}]
      /\ misled = {} /\ stale = {}
  BY Zenon DEF Init
<1>2. NoRow \in Rows /\ NoDoc \in Docs
  BY DEF NoRow, NoDoc, Rows, Docs
<1>3. db \in DB /\ Stored(db) = {} /\ \A x \in Texts : ~ db.docs[x].fts
  <2>1. db.rows = [l \in Ids |-> NoRow] /\ db.docs = [x \in Texts |-> NoDoc]
    BY <1>1
  <2>2. db \in DB
    BY <1>1, <1>2 DEF DB
  <2>3. \A l \in Ids : db.rows[l].text = None
    BY <2>1 DEF NoRow
  <2>4. \A x \in Texts : ~ db.docs[x].fts
    BY <2>1 DEF NoDoc
  <2> QED
    BY <2>2, <2>3, <2>4 DEF Stored
<1>4. cands \in Queue /\ \A c \in Candidates : cands[c].status = "none"
  BY <1>1 DEF Queue
<1>5. calls \in Calls /\ afm \in Passes
  BY <1>1 DEF Calls, Rest, Passes, Idle, Verdicts
<1>6. TypeOK
  <2>1. seq \in 0 .. MaxLearnings
    BY <1>1, GovernanceAssumption
  <2>2. \A p \in near : p \subseteq Texts
    BY <1>1
  <2>3. db \in [rows : [Ids -> Rows], docs : [Texts -> Docs]]
    BY <1>3 DEF DB
  <2>4. \A l \in Stored(db) : /\ l <= seq
                              /\ {db.rows[l].by, db.rows[l].contra} \subseteq Stored(db) \cup {None}
    BY <1>3
  <2>5. fences \subseteq Candidates /\ repair \in Texts \cup {None}
    BY <1>1
  <2> QED
    BY <1>4, <1>5, <2>1, <2>2, <2>3, <2>4, <2>5, Zenon DEF TypeOK, Queue, Calls, Passes
<1>7. MintedType /\ MisledInv /\ AcceptedHasOneLearning
  BY <1>1, <1>4 DEF MintedType, MisledInv, AcceptedHasOneLearning
<1>8. Phrased
  BY <1>4 DEF Phrased
<1>9. AnsweredIsKept /\ Shown
  BY <1>1, <1>3 DEF AnsweredIsKept, Shown
<1> QED
  BY <1>6, <1>7, <1>8, <1>9, Zenon DEF IInv

LEMMA StepInv == IInv /\ [Next]_vars => IInv' /\ StaysFound
<1> SUFFICES ASSUME IInv, [Next]_vars PROVE IInv' /\ StaysFound
  OBVIOUS
<1>1. CASE Next
  <2>1. UNCHANGED near
    BY <1>1, Zenon DEF Next
  <2>2. ASSUME NEW c \in Candidates, NEW x \in Texts, Stage(c, x) PROVE StepKept
    BY <2>2, StageStep
  <2>3. ASSUME NEW t \in Threads, NEW c \in Candidates, NEW x \in Texts, StageAuto(t, c, x) PROVE StepKept
    BY <2>3, StageAutoStep
  <2>4. ASSUME NEW t \in Threads, NEW x \in Texts, NEW old \in Ids \cup {None},
               NEW contra \in Ids \cup {None}, Learn(t, x, old, contra)
        PROVE  StepKept
    BY <2>4, LearnStep
  <2>5. ASSUME NEW t \in Threads, NEW c \in Candidates, NEW named \in SUBSET Ids, Accept(t, c, named)
        PROVE  StepKept
    BY <2>5, AcceptStep
  <2>6. ASSUME NEW c \in Candidates, Decline(c) PROVE StepKept
    BY <2>6, DeclineStep
  <2>7. ASSUME NEW t \in Threads, NEW x \in Texts, NEW S \in SUBSET Ids, Contradict(t, x, S) PROVE StepKept
    BY <2>7, ContradictStep
  <2>8. ASSUME NEW t \in Threads, NEW x \in Texts, Purge(t, x) PROVE StepKept
    BY <2>8, PurgeStep
  <2>9. ASSUME NEW t \in Threads, Index(t) \/ AcceptRolledBack(t) PROVE StepKept
    BY <2>9, IndexStep, AcceptRolledBackStep
  <2>10. ASSUME RepairWrites \/ \E x \in Texts : RepairReads(x) PROVE StepKept
    BY <2>10, RepairStep
  <2>11. ASSUME NEW plan \in [Candidates -> Verdicts], Select(plan) PROVE StepKept
    BY <2>11, SelectStep
  <2>12. ASSUME NEW c \in Candidates, Promote(c) PROVE StepKept
    BY <2>12, PromoteStep
  <2>13. ASSUME NEW c \in Candidates, Deduplicate(c) \/ Judge(c) \/ Mark(c) PROVE StepKept
    BY <2>13, VerdictsStep
  <2>14. ASSUME PromotedIndex \/ PromotedDuplicates PROVE StepKept
    BY <2>14, PromotedIndexStep, PromotedDuplicatesStep
  <2>15. ASSUME Dedup \/ \E l \in Ids : Decay(l) PROVE StepKept
    BY <2>15, SweepsStep
  <2>16. ASSUME Crash PROVE StepKept
    BY <2>16, CrashStep
  <2>17. StepKept
    BY <1>1, <2>2, <2>3, <2>4, <2>5, <2>6, <2>7, <2>8, <2>9, <2>10, <2>11, <2>12, <2>13,
       <2>14, <2>15, <2>16, Zenon DEF Next
  <2> QED
    BY <2>1, <2>17, Together DEF StepKept
<1>2. CASE UNCHANGED vars
  <2>1. /\ UNCHANGED <<near, db, seq, cands, fences, tombs, calls, afm, repair, answered, lost, misled, minted, stale>>
        /\ fences' \subseteq Candidates
    BY <1>2, Parts DEF vars
  <2>2. TablesStep /\ Keeps(db, db', tombs') /\ calls' \in Calls
    BY <2>1, CallsSame, TablesSame
  <2>3. QueueStep
    BY <2>1, <2>2, QueueSame
  <2>4. WorkStep
    BY <2>1, Parts DEF WorkStep
  <2> QED
    BY <2>1, <2>2, <2>3, <2>4, Together
<1> QED
  BY <1>1, <1>2

LEMMA Invariant == Spec => []IInv
  BY InitInv, StepInv, PTL DEF Spec

\* The tables, the queue and the work in hand keep their shapes, and a row refers
\* only to learnings that were committed.
THEOREM GovernanceTypeCorrect == Spec => []TypeOK
<1>1. IInv => TypeOK
  BY Zenon DEF IInv
<1> QED
  BY <1>1, Invariant, PTL

\* What a caller was told is stored stays stored or is in the cold archive, but for
\* the answers a nested transaction undid.
THEOREM AnswersKept == Spec => []AnsweredIsKept
<1>1. IInv => AnsweredIsKept
  BY Zenon DEF IInv
<1> QED
  BY <1>1, Invariant, PTL

\* An accepted candidate has exactly one learning and a declined one none, however
\* the pass, operators and restarts interleave; one that was accepted in the name of
\* a candidate that was undone never has any.
THEOREM OneLearning == Spec => []AcceptedHasOneLearning
<1>1. IInv => AcceptedHasOneLearning
  BY Zenon DEF IInv
<1> QED
  BY <1>1, Invariant, PTL

\* Search finds no text that only closed learnings state once the purges in hand are
\* done, and loses no document an active learning maps to.
THEOREM SearchFollows == Spec => SearchFollowsLearnings
<1>1. IInv /\ [Next]_vars =>
        [\A x \in Texts :
           /\ db'.docs[x].fts => \/ x \in stale'
                                 \/ Saying(db', x) # {}
                                 \/ \E t \in Threads : x \in calls'[t].purge
           /\ db.docs[x].fts /\ ~ db'.docs[x].fts => Mapped(db', x) \cap Active(db') = {}]_vars
  <2> SUFFICES ASSUME IInv, [Next]_vars, NEW x \in Texts
               PROVE  /\ db'.docs[x].fts => \/ x \in stale'
                                            \/ Saying(db', x) # {}
                                            \/ \E t \in Threads : x \in calls'[t].purge
                      /\ db.docs[x].fts /\ ~ db'.docs[x].fts => Mapped(db', x) \cap Active(db') = {}
    OBVIOUS
  <2>1. Shown' /\ StaysFound
    BY StepInv DEF IInv
  <2> QED
    BY <2>1 DEF Shown, StaysFound
<1> QED
  BY <1>1, Invariant, PTL DEF Spec, SearchFollowsLearnings

\* The pass rejects a candidate as a duplicate only while an active learning says
\* the same.
THEOREM Replacement == Spec => DuplicateHasReplacement
<1>1. IInv /\ [Next]_vars =>
        [\A c \in Candidates :
           /\ afm.plan[c] = "dedup" /\ afm'.plan[c] = "none" /\ afm.pc = "apply"
           /\ cands[c].status = "proposed" /\ cands'[c].status = "rejected"
           => Saying(db, cands[c].text) # {}]_vars
  <2> SUFFICES ASSUME IInv, Next, NEW c \in Candidates,
                      afm.plan[c] = "dedup", afm'.plan[c] = "none", afm.pc = "apply",
                      cands[c].status = "proposed", cands'[c].status = "rejected"
               PROVE  Saying(db, cands[c].text) # {}
    BY DEF vars
  <2>1. ASSUME NEW b \in Candidates, NEW s \in {"proposed", "accepted", "rejected"}, Set(b, s)
        PROVE  b = c /\ s = "rejected"
    BY <2>1, SetParts
  <2>2. ASSUME NEW b \in Candidates, Promote(b) PROVE FALSE
    <3>1. cands' = cands \/ Set(b, "accepted")
      BY <2>2, Zenon DEF Promote
    <3> QED
      BY <2>1, <3>1
  <2>3. ASSUME NEW b \in Candidates, Deduplicate(b) PROVE Saying(db, cands[c].text) # {}
    <3>1. cands' = cands \/ (Set(b, "rejected") /\ Saying(db, cands[b].text) # {})
      BY <2>3, Zenon DEF Deduplicate
    <3> QED
      BY <2>1, <3>1
  <2>4. ASSUME NEW b \in Candidates, Judge(b) PROVE FALSE
    <3>1. cands' = cands \/ Set(b, "rejected")
      BY <2>4, Zenon DEF Judge
    <3>2. b = c
      BY <2>1, <3>1
    <3>3. afm.plan[b] = "reject"
      BY <2>4, Zenon DEF Judge
    <3> QED
      BY <3>2, <3>3
  <2>5. afm' = afm \/ cands' = cands \/ \E b \in Candidates : Promote(b) \/ Deduplicate(b) \/ Judge(b)
    <3>1. ASSUME NEW b \in Candidates, NEW x \in Texts, Stage(b, x) PROVE afm' = afm
      BY <3>1, Zenon DEF Stage
    <3>2. ASSUME NEW t \in Threads, NEW b \in Candidates, NEW x \in Texts, StageAuto(t, b, x) PROVE afm' = afm
      BY <3>2, Zenon DEF StageAuto
    <3>3. ASSUME NEW t \in Threads, NEW x \in Texts, NEW old \in Ids \cup {None},
                 NEW contra \in Ids \cup {None}, Learn(t, x, old, contra)
          PROVE  afm' = afm
      BY <3>3, Zenon DEF Learn
    <3>4. ASSUME NEW t \in Threads, NEW b \in Candidates, NEW named \in SUBSET Ids, Accept(t, b, named)
          PROVE  afm' = afm
      BY <3>4, Zenon DEF Accept
    <3>5. ASSUME NEW b \in Candidates, Decline(b) PROVE afm' = afm
      BY <3>5, Zenon DEF Decline
    <3>6. ASSUME NEW t \in Threads, NEW x \in Texts, NEW S \in SUBSET Ids, Contradict(t, x, S)
          PROVE  cands' = cands
      BY <3>6, Zenon DEF Contradict
    <3>7. ASSUME NEW t \in Threads, (\E x \in Texts : Purge(t, x)) \/ Index(t) PROVE cands' = cands
      BY <3>7, Zenon DEF Purge, Index
    <3>14. ASSUME NEW t \in Threads, AcceptRolledBack(t) PROVE afm' = afm
      BY <3>14, Zenon DEF AcceptRolledBack
    <3>8. ASSUME RepairWrites \/ \E x \in Texts : RepairReads(x) PROVE cands' = cands
      BY <3>8, Zenon DEF RepairWrites, RepairReads
    <3>9. ASSUME NEW plan \in [Candidates -> Verdicts], Select(plan) PROVE cands' = cands
      BY <3>9, Zenon DEF Select
    <3>10. ASSUME NEW b \in Candidates, Mark(b) PROVE cands' = cands
      BY <3>10, Zenon DEF Mark
    <3>11. ASSUME PromotedIndex \/ PromotedDuplicates PROVE cands' = cands
      BY <3>11, Zenon DEF PromotedIndex, PromotedDuplicates
    <3>12. ASSUME Dedup \/ \E l \in Ids : Decay(l) PROVE cands' = cands
      BY <3>12, Zenon DEF Dedup, Decay, Swept
    <3>13. ASSUME Crash PROVE cands' = cands
      BY <3>13, Zenon DEF Crash
    <3> QED
      BY <3>1, <3>2, <3>3, <3>4, <3>5, <3>6, <3>7, <3>8, <3>9, <3>10, <3>11, <3>12, <3>13, <3>14, Zenon DEF Next
  <2> QED
    BY <2>2, <2>3, <2>4, <2>5
<1> QED
  BY <1>1, Invariant, PTL DEF Spec, DuplicateHasReplacement
=============================================================================
