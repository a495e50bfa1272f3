------------------------------ MODULE Governance ------------------------------
(***************************************************************************)
(* The lifecycle of learnings in the daemon (src/minni/minnid_runtime):    *)
(* candidates staged and resolved by callers, by operators and by the AFM  *)
(* consolidation pass, learnings written, superseded and evicted, and the  *)
(* documents through which search finds them.                              *)
(*                                                                         *)
(* SQLite serialises the transactions, so one is one step.  What a handler *)
(* does after its commit (purge the documents of what it closed, index the *)
(* new one) is a step of its own, and the process may die before it.  All  *)
(* learnings are of one agent and one category; a learning is the text it  *)
(* states, and near is the likeness the 5-gram and cosine thresholds find. *)
(* Left out: who may call, flagged and private candidates (they only ever  *)
(* reach review), the length of the queue, embeddings, files in the vault. *)
(***************************************************************************)
EXTENDS Integers, FiniteSets, FiniteSetsExt

CONSTANTS
    Texts,         \* what a learning can say
    Candidates,    \* candidate packets that are ever staged
    Threads,       \* workers that serve the handlers
    MaxLearnings,  \* bound: learnings ever committed
    MaxUndone,     \* bound: answers given for a transaction that was undone
    Gone,          \* the document a closed one points to no longer exists
    None

Ids == 1 .. MaxLearnings

ASSUME GovernanceAssumption ==
    /\ MaxLearnings \in Nat /\ MaxUndone \in Nat
    /\ None \notin Texts \cup Ids \cup Candidates /\ Gone \notin Texts \cup {None}

VARIABLES
    near,      \* the pairs of texts above the similarity thresholds, never changed
    db,        \* the tables learnings (with learning_documents) and documents
    seq,       \* the last learning_id of a committed transaction
    cands,     \* candidate_packets: status and text
    fences,    \* candidates with an active afm_review marker
    tombs,     \* learnings in the cold archive, as <<learning_id, text>>
    calls,     \* of each worker: documents still to purge, the one to index, and the
               \* candidate it is yet to accept, though its transaction was undone
    afm,       \* the consolidation pass: its verdicts and where it is
    repair,    \* the text the projection repair is about to index
    answered,  \* learnings a caller was told are stored (history)
    lost,      \* those of them whose transaction was undone under the handler (history)
    minted,    \* the learnings each candidate became (history)
    misled,    \* those accepted by a call whose own candidate of that id was undone (history)
    stale      \* texts left in the index by a known path (history)

vars == <<near, db, seq, cands, fences, tombs, calls, afm, repair, answered, lost, minted, misled, stale>>

NoRow == [text |-> None, open |-> FALSE, by |-> None, contra |-> None, mapped |-> FALSE]
NoDoc == [page |-> "none", succ |-> None, fts |-> FALSE]
Rest  == [purge |-> {}, index |-> None, accept |-> None]
Idle  == [pc |-> "idle", plan |-> [c \in Candidates |-> "none"], lid |-> None]

Rows == [text : Texts \cup {None}, open : BOOLEAN, by : Ids \cup {None}, contra : Ids \cup {None}, mapped : BOOLEAN]
Docs == [page : {"none", "open", "closed"}, succ : Texts \cup {None, Gone}, fts : BOOLEAN]
Verdicts == {"none", "promote", "dedup", "reject", "review"}

Init ==
    /\ near \in SUBSET {p \in SUBSET Texts : Cardinality(p) = 2}
    /\ db = [rows |-> [l \in Ids |-> NoRow], docs |-> [x \in Texts |-> NoDoc]]
    /\ seq = 0
    /\ cands = [c \in Candidates |-> [status |-> "none", text |-> None]]
    /\ fences = {} /\ tombs = {}
    /\ calls = [t \in Threads |-> Rest] /\ afm = Idle /\ repair = None
    /\ answered = {} /\ lost = {} /\ minted = [c \in Candidates |-> {}]
    /\ misled = {} /\ stale = {}

Alike(x, y) == x = y \/ {x, y} \in near

Stored(d)      == {l \in Ids : d.rows[l].text # None}
Active(d)      == {l \in Stored(d) : d.rows[l].open /\ d.rows[l].by = None}
Saying(d, x)   == {l \in Active(d) : d.rows[l].text = x}
Mapped(d, x)   == {l \in Stored(d) : d.rows[l].text = x /\ d.rows[l].mapped}
TextsOf(d, D)  == {d.rows[l].text : l \in D}
Marks(d, D)    == {<<l, d.rows[l].text>> : l \in D}

\* Active learnings a new one repeats, itself excluded.
NearDuplicates(d, l, x) == {k \in Active(d) \ {l} : Alike(d.rows[k].text, x)}

\* The document that replaces one whose learnings are all closed.
Successor(d, x) ==
    LET by == {d.rows[l].by : l \in Mapped(d, x)} \ {None}
    IN  IF by # {} /\ d.rows[Max(by)].mapped THEN d.rows[Max(by)].text ELSE None

Insert(d, l, x, contra) ==
    [d EXCEPT !.rows[l] = [text |-> x, open |-> TRUE, by |-> None, contra |-> contra, mapped |-> FALSE]]

\* A closed document is reopened for a new learning only when it is closed exactly
\* the way its closed learnings say.
Reopens(d, x) ==
    /\ d.docs[x].page = "closed" /\ d.docs[x].succ = Successor(d, x)
    /\ Mapped(d, x) # {} /\ Mapped(d, x) \cap Active(d) = {}

\* The canonical node: a new document, or the one at the same path.
MapNode(d, l) ==
    LET x   == d.rows[l].text
        new == IF d.docs[x].page = "none" \/ Reopens(d, x)
               THEN [page |-> "open", succ |-> None, fts |-> d.docs[x].fts] ELSE d.docs[x]
    IN  [d EXCEPT !.rows[l].mapped = TRUE, !.docs[x] = new]

\* Mutant: only the rows go, not what refers to them.
EvictRows(d, D) == [d EXCEPT !.rows = [l \in Ids |-> IF l \in D THEN NoRow ELSE d.rows[l]]]

\* Cold archive: the rows go, and with them every document no other learning maps to.
Evict(d, D) ==
    LET left == [l \in Ids |-> IF l \in D THEN NoRow
                               ELSE [d.rows[l] EXCEPT !.by = IF @ \in D THEN None ELSE @]]
        e    == [d EXCEPT !.rows = left]
        drop == {x \in TextsOf(d, D) : Mapped(e, x) = {}}
    IN  [e EXCEPT !.docs = [x \in Texts |->
            IF x \in drop THEN NoDoc
            ELSE [d.docs[x] EXCEPT !.succ = IF @ \in drop THEN Gone ELSE @]]]

\* The foreign key contradicts_id has no ON DELETE: the row it names cannot be
\* deleted, and the transaction that tries fails.
Referred(d, D) == {l \in D : \E k \in Stored(d) : d.rows[k].contra = l}

\* Tombstones are appended to a file as the eviction proceeds, whatever becomes
\* of the transaction.
Appended(d, D, kept) == IF kept = {} THEN Marks(d, D) ELSE Marks(d, {l \in D : l <= Min(kept)})

\* Documents that survive the eviction of D, though nothing active maps to them.
Leftover(d, D) == {x \in TextsOf(d, D) : Mapped(Evict(d, D), x) # {} /\ Saying(Evict(d, D), x) = {}}

Close(d, S, l) == [d EXCEPT !.rows = [k \in Ids |->
    IF k \in S THEN [d.rows[k] EXCEPT !.open = FALSE, !.by = l] ELSE d.rows[k]]]

Resting(t) == calls[t] = Rest
NextId == seq + 1
Room == seq < MaxLearnings

Set(c, s) == cands' = [cands EXCEPT ![c].status = s]
Owes(t, P, x, c) == calls' = [calls EXCEPT ![t] = [purge |-> P, index |-> x, accept |-> c]]

\* A nested BEGIN IMMEDIATE fails, and its handler rolls the connection back: what
\* the outer transaction wrote is gone, ids included, though the handler goes on and
\* answers.  What it goes on with is c, the candidate it staged, if it did.
Undone(t, d, l, x, c) ==
    /\ Cardinality(lost) < MaxUndone
    /\ answered' = answered \cup {<<l, x>>} /\ lost' = lost \cup {<<l, x>>}
    /\ tombs' = tombs \cup Marks(d, NearDuplicates(d, l, x))
    /\ stale' = stale \cup {x}
    /\ Owes(t, {}, x, c)
    /\ UNCHANGED misled

----------------------------------------------------------------------------
\* stage_candidate without auto_accept_own, or with a reason to withhold it.
Stage(c, x) ==
    /\ cands[c].status = "none"
    /\ cands' = [cands EXCEPT ![c] = [status |-> "proposed", text |-> x]]
    /\ UNCHANGED <<db, seq, fences, tombs, calls, afm, repair, answered, lost, misled, minted, stale>>

\* stage_candidate with auto_accept_own, the embedder and the canonical node
\* available and no equal learning (else the candidate is staged as proposed).
StageAuto(t, c, x) ==
    LET l == NextId
        d == MapNode(Insert(db, l, x, None), l)
        D == NearDuplicates(d, l, x)
    IN  /\ cands[c].status = "none" /\ Resting(t) /\ Room /\ Saying(db, x) = {}
        /\ \/ /\ D = {}
              /\ db' = d /\ seq' = l
              /\ cands' = [cands EXCEPT ![c] = [status |-> "accepted", text |-> x]]
              /\ fences' = fences \ {c}
              /\ minted' = [minted EXCEPT ![c] = @ \cup {l}]
              /\ answered' = answered \cup {<<l, x>>}
              /\ Owes(t, {}, x, None)
              /\ UNCHANGED <<tombs, lost, misled, stale>>
           \/ /\ D # {} /\ Referred(d, D) = {}
              /\ Undone(t, d, l, x, c)
              /\ UNCHANGED <<db, seq, cands, fences, minted>>
           \/ /\ Referred(d, D) # {}
              /\ tombs' = tombs \cup Appended(d, D, Referred(d, D))
              /\ UNCHANGED <<db, seq, cands, fences, calls, minted, answered, lost, misled, stale>>
        /\ UNCHANGED <<afm, repair>>

\* The rest of an undone stage_candidate, in a transaction of its own: the candidate
\* that has the id by now is accepted, whoever staged it and whatever became of it.
AcceptRolledBack(t) ==
    LET c == calls[t].accept IN
    /\ c # None
    /\ calls' = [calls EXCEPT ![t].accept = None]
    /\ cands' = [cands EXCEPT ![c].status = IF @ = "none" THEN "none" ELSE "accepted"]
    /\ fences' = fences \ {c}
    /\ misled' = IF cands[c].status \in {"proposed", "rejected"} THEN misled \cup {c} ELSE misled
    /\ UNCHANGED <<db, seq, tombs, afm, repair, answered, lost, minted, stale>>

\* handle_learn with force; without it the call stages a candidate.  A learning
\* it supersedes keeps its status and its document.  With neither old nor contra
\* an equal active learning is answered instead.
Learn(t, x, old, contra) ==
    LET l == NextId
        i == Insert(db, l, x, contra)
        s == IF old = None THEN i ELSE [i EXCEPT !.rows[old].by = l]
        d == MapNode(s, l)
        D == NearDuplicates(d, l, x) \ {old}
        \* The first eviction meets the reference of the new row; then it is undone.
        kept == {k \in Referred(d, D) : k \in Referred(db, D) \/ k = Min(D)}
    IN  /\ Resting(t) /\ Room
        /\ {old, contra} \ {None} \subseteq Stored(db)
        /\ old = None /\ contra = None => Saying(db, x) = {}
        /\ \/ /\ D = {}
              /\ db' = d /\ seq' = l
              /\ answered' = answered \cup {<<l, x>>}
              /\ stale' = stale \cup TextsOf(db, {old} \ {None})
              /\ Owes(t, {}, x, None)
              /\ UNCHANGED <<tombs, lost, misled>>
           \/ /\ D # {} /\ kept = {}
              /\ Undone(t, d, l, x, None)
              /\ UNCHANGED <<db, seq>>
           \/ /\ kept # {}
              /\ tombs' = tombs \cup Appended(d, D, kept)
              /\ UNCHANGED <<db, seq, answered, lost, misled, stale, calls>>
        /\ UNCHANGED <<cands, fences, afm, repair, minted>>

\* Mutant: the purge is back inside the transaction.
AcceptNested(t, c, named) ==
    LET l == NextId
        x == cands[c].text
        d == MapNode(Insert(db, l, x, None), l)
        D == (named \cup NearDuplicates(d, l, x)) \ {l}
    IN  /\ cands[c].status = "proposed" /\ Resting(t) /\ Room /\ named \subseteq Stored(db)
        /\ Referred(d, D) = {} /\ D # {}
        /\ answered' = answered \cup {<<l, x>>} /\ tombs' = tombs \cup Marks(d, D)
        /\ UNCHANGED <<db, seq, cands, fences, calls, afm, repair, lost, misled, minted, stale>>

\* resolve_candidate, accepted: equal, near and named learnings are evicted in the
\* transaction, their documents purged after it.
Accept(t, c, named) ==
    LET l == NextId
        x == cands[c].text
        d == MapNode(Insert(db, l, x, None), l)
        D == (named \cup NearDuplicates(d, l, x)) \ {l}
    IN  /\ cands[c].status = "proposed" /\ Resting(t) /\ Room /\ named \subseteq Stored(db)
        /\ tombs' = tombs \cup Appended(d, D, Referred(d, D))
        /\ \/ /\ Referred(d, D) = {}
              /\ db' = Evict(d, D) /\ seq' = l
              /\ Set(c, "accepted") /\ fences' = fences \ {c}
              /\ minted' = [minted EXCEPT ![c] = @ \cup {l}]
              /\ answered' = answered \cup {<<l, x>>}
              /\ Owes(t, TextsOf(d, D), x, None)
           \/ /\ Referred(d, D) # {}
              /\ UNCHANGED <<db, seq, cands, fences, minted, answered, calls>>
        /\ UNCHANGED <<afm, repair, lost, misled, stale>>

\* resolve_candidate with any other decision.
Decline(c) ==
    /\ cands[c].status = "proposed"
    /\ Set(c, "rejected") /\ fences' = fences \ {c}
    /\ UNCHANGED <<db, seq, tombs, calls, afm, repair, answered, lost, misled, minted, stale>>

\* handle_resolve_contradiction: no canonical node, no index, a purge of each
\* superseded text after the commit.
Contradict(t, x, S) ==
    LET l == NextId IN
    /\ Resting(t) /\ Room /\ S # {} /\ S \subseteq Stored(db)
    /\ db' = Close(Insert(db, l, x, None), S, l) /\ seq' = l
    /\ answered' = answered \cup {<<l, x>>}
    /\ Owes(t, TextsOf(db, S), None, None)
    /\ UNCHANGED <<cands, fences, tombs, afm, repair, lost, misled, minted, stale>>

----------------------------------------------------------------------------
\* Mutant: a learning that still states the text is not asked for.
PurgeAny(t, x) ==
    /\ x \in calls[t].purge
    /\ calls' = [calls EXCEPT ![t].purge = @ \ {x}]
    /\ db' = [db EXCEPT !.docs[x] = IF @.page = "none" THEN @ ELSE [@ EXCEPT !.fts = FALSE]]
    /\ UNCHANGED <<seq, cands, fences, tombs, afm, repair, answered, lost, misled, minted, stale>>

\* purge_durable_document: kept while a mapped learning is active.  A mapped
\* document is closed, another one is deleted.
Purge(t, x) ==
    LET doc  == db.docs[x]
        kept == Mapped(db, x) \cap Active(db) # {} /\ doc.page # "closed"
        gone == IF Mapped(db, x) = {} THEN NoDoc
                ELSE IF doc.page = "closed" THEN [doc EXCEPT !.fts = FALSE]
                ELSE [page |-> "closed", succ |-> Successor(db, x), fts |-> FALSE]
    IN  /\ x \in calls[t].purge
        /\ calls' = [calls EXCEPT ![t].purge = @ \ {x}]
        /\ db' = IF doc.page = "none" \/ kept THEN db ELSE [db EXCEPT !.docs[x] = gone]
        /\ UNCHANGED <<seq, cands, fences, tombs, afm, repair, answered, lost, misled, minted, stale>>

\* index_durable_document, from the handler's or the pass's settlement: it asks
\* nothing of the learning.  It may fail, and the answer then says so.
Indexed(x) ==
    \/ /\ db' = [db EXCEPT !.docs[x] = [@ EXCEPT !.page = "open", !.fts = TRUE]]
       /\ stale' = IF Saying(db, x) = {} THEN stale \cup {x} ELSE stale
    \/ UNCHANGED <<db, stale>>

Index(t) ==
    /\ calls[t].purge = {} /\ calls[t].accept = None /\ calls[t].index # None
    /\ Indexed(calls[t].index)
    /\ calls' = [calls EXCEPT ![t] = Rest]
    /\ UNCHANGED <<seq, cands, fences, tombs, afm, repair, answered, lost, misled, minted>>

\* backfill_learning_projections reads the learnings it will repair ...
RepairReads(x) ==
    /\ repair = None /\ Saying(db, x) # {}
    /\ ~ db.docs[x].fts /\ db.docs[x].page # "closed"
    /\ repair' = x
    /\ UNCHANGED <<db, seq, cands, fences, tombs, calls, afm, answered, lost, misled, minted, stale>>

\* Mutant: what it read is not read again.
RepairBlindly ==
    /\ repair # None /\ repair' = None
    /\ db' = [db EXCEPT !.docs[repair] = [@ EXCEPT !.page = "open", !.fts = TRUE]]
    /\ UNCHANGED <<seq, cands, fences, tombs, calls, afm, answered, lost, misled, minted, stale>>

\* ... and index_durable_document asks again inside its transaction.
RepairWrites ==
    LET x == repair IN
    /\ repair # None /\ repair' = None
    /\ db' = IF Saying(db, x) = {} \/ db.docs[x].fts \/ db.docs[x].page = "closed" THEN db
             ELSE [db EXCEPT !.docs[x] = [@ EXCEPT !.page = "open", !.fts = TRUE]]
    /\ UNCHANGED <<seq, cands, fences, tombs, calls, afm, answered, lost, misled, minted, stale>>

----------------------------------------------------------------------------
\* The pass reads the queue and decides: duplicates of a learning, or of a
\* candidate it promotes, are deduplicated; the rest by content and judge.
Select(plan) ==
    /\ afm = Idle
    /\ LET open == {c \in Candidates \ fences : cands[c].status = "proposed"}
           first(c) == \E b \in open \ {c} : plan[b] = "promote" /\ cands[b].text = cands[c].text
       IN  /\ open # {}
           /\ \A c \in Candidates \ open : plan[c] = "none"
           /\ \E c \in open : plan[c] # "none"
           /\ \A c \in open :
                /\ plan[c] = "promote" => Saying(db, cands[c].text) = {} /\ ~ first(c)
                /\ plan[c] = "dedup" => Saying(db, cands[c].text) # {} \/ first(c)
    /\ afm' = [Idle EXCEPT !.pc = "apply", !.plan = plan]
    /\ UNCHANGED <<db, seq, cands, fences, tombs, calls, repair, answered, lost, misled, minted, stale>>

\* apply_consolidation_result takes the verdicts kind by kind.
Order == <<"promote", "dedup", "reject", "review">>
Turn(c) ==
    /\ afm.pc = "apply" /\ afm.plan[c] # "none"
    /\ \E i \in 1 .. 4 : /\ afm.plan[c] = Order[i]
                         /\ \A b \in Candidates, j \in 1 .. (i - 1) : afm.plan[b] # Order[j]
Taken(c) == LET rest == [afm.plan EXCEPT ![c] = "none"]
            IN  afm' = IF rest = Idle.plan THEN Idle ELSE [afm EXCEPT !.plan = rest]

\* Mutant: the row is not matched again inside the transaction.
PromoteUnmatched(c) ==
    LET l == NextId
        x == cands[c].text
    IN  /\ Turn(c) /\ afm.plan[c] = "promote" /\ Room
        /\ db' = MapNode(Insert(db, l, x, None), l) /\ seq' = l
        /\ Set(c, "accepted") /\ fences' = fences \ {c}
        /\ minted' = [minted EXCEPT ![c] = @ \cup {l}]
        /\ afm' = [afm EXCEPT !.plan[c] = "none", !.pc = "index", !.lid = l]
        /\ UNCHANGED <<tombs, calls, repair, answered, lost, misled, stale>>

\* promote_candidate_durable: equal learnings are not looked for again.
Promote(c) ==
    LET l == NextId
        x == cands[c].text
    IN  /\ Turn(c) /\ afm.plan[c] = "promote"
        /\ \/ /\ cands[c].status = "proposed" /\ Room
              /\ db' = MapNode(Insert(db, l, x, None), l) /\ seq' = l
              /\ Set(c, "accepted") /\ fences' = fences \ {c}
              /\ minted' = [minted EXCEPT ![c] = @ \cup {l}]
              /\ afm' = [afm EXCEPT !.plan[c] = "none", !.pc = "index", !.lid = l]
           \/ /\ cands[c].status # "proposed" \/ ~ Room
              /\ Taken(c) /\ UNCHANGED <<db, seq, cands, fences, minted>>
        /\ UNCHANGED <<tombs, calls, repair, answered, lost, misled, stale>>

PromotedIndex ==
    LET l == afm.lid IN
    /\ afm.pc = "index"
    /\ \E x \in Texts : /\ <<l, x>> \in Marks(db, {l}) \cup tombs
                        /\ Indexed(x)
    /\ afm' = [afm EXCEPT !.pc = "dups"]
    /\ UNCHANGED <<seq, cands, fences, tombs, calls, repair, answered, lost, misled, minted>>

\* A transaction of its own then evicts what the promoted learning repeats; a
\* failure of it is swallowed, and no document is purged.
PromotedDuplicates ==
    LET l == afm.lid
        D == IF l \in Stored(db) THEN NearDuplicates(db, l, db.rows[l].text) ELSE {}
    IN  /\ afm.pc = "dups"
        /\ tombs' = tombs \cup Appended(db, D, Referred(db, D))
        /\ IF Referred(db, D) = {}
           THEN db' = Evict(db, D) /\ stale' = stale \cup Leftover(db, D)
           ELSE UNCHANGED <<db, stale>>
        /\ afm' = IF afm.plan = Idle.plan THEN Idle ELSE [afm EXCEPT !.pc = "apply", !.lid = None]
        /\ UNCHANGED <<seq, cands, fences, calls, repair, answered, lost, misled, minted>>

\* Mutant: the replacement is the one the pass saw.
DeduplicateUnproved(c) ==
    /\ Turn(c) /\ afm.plan[c] = "dedup" /\ Taken(c)
    /\ IF cands[c].status = "proposed" THEN Set(c, "rejected") /\ fences' = fences \ {c}
                                       ELSE UNCHANGED <<cands, fences>>
    /\ UNCHANGED <<db, seq, tombs, calls, repair, answered, lost, misled, minted, stale>>

\* reject_candidate_dedup: only while an active learning says the same.
Deduplicate(c) ==
    /\ Turn(c) /\ afm.plan[c] = "dedup" /\ Taken(c)
    /\ IF cands[c].status = "proposed" /\ Saying(db, cands[c].text) # {}
       THEN Set(c, "rejected") /\ fences' = fences \ {c}
       ELSE UNCHANGED <<cands, fences>>
    /\ UNCHANGED <<db, seq, tombs, calls, repair, answered, lost, misled, minted, stale>>

\* reject_candidate_judge and redact_candidate_judge.
Judge(c) ==
    /\ Turn(c) /\ afm.plan[c] = "reject" /\ Taken(c)
    /\ IF cands[c].status = "proposed" THEN Set(c, "rejected") /\ fences' = fences \ {c}
                                       ELSE UNCHANGED <<cands, fences>>
    /\ UNCHANGED <<db, seq, tombs, calls, repair, answered, lost, misled, minted, stale>>

\* mark_candidate_review.
Mark(c) ==
    /\ Turn(c) /\ afm.plan[c] = "review" /\ Taken(c)
    /\ fences' = IF cands[c].status = "proposed" THEN fences \cup {c} ELSE fences
    /\ UNCHANGED <<db, seq, cands, tombs, calls, repair, answered, lost, misled, minted, stale>>

----------------------------------------------------------------------------
\* An eviction by a sweep: all or nothing, no document purged after it.
Swept(D) ==
    /\ D # {}
    /\ tombs' = tombs \cup Appended(db, D, Referred(db, D))
    /\ IF Referred(db, D) = {}
       THEN db' = Evict(db, D) /\ stale' = stale \cup Leftover(db, D)
       ELSE UNCHANGED <<db, stale>>
    /\ UNCHANGED <<seq, cands, fences, calls, afm, repair, answered, lost, misled, minted>>

\* run_decay: a learning the use ledger finds unreferenced.
Decay(l) == l \in Active(db) /\ Swept({l})

\* dedup_active_learnings: of each cluster the newest stays.
Dedup ==
    \E D \in SUBSET Active(db) :
        /\ \A l \in Active(db) :
             l \in D <=> \E k \in Active(db) \ D : k > l /\ Alike(db.rows[k].text, db.rows[l].text)
        /\ Swept(D)

\* The daemon dies: what followed the last commit never happens.
Crash ==
    /\ \/ \E t \in Threads : ~ Resting(t)
       \/ afm # Idle
    /\ stale' = stale \cup UNION {calls[t].purge : t \in Threads}
    /\ calls' = [t \in Threads |-> Rest] /\ afm' = Idle /\ repair' = None
    /\ UNCHANGED <<db, seq, cands, fences, tombs, answered, lost, misled, minted>>

Next ==
    /\ \/ \E c \in Candidates, x \in Texts : Stage(c, x)
       \/ \E t \in Threads, c \in Candidates, x \in Texts : StageAuto(t, c, x)
       \/ \E t \in Threads, x \in Texts, old, contra \in Ids \cup {None} : Learn(t, x, old, contra)
       \/ \E t \in Threads, c \in Candidates, named \in SUBSET Ids : Accept(t, c, named)
       \/ \E c \in Candidates : Decline(c)
       \/ \E t \in Threads, x \in Texts, S \in SUBSET Ids : Contradict(t, x, S)
       \/ \E t \in Threads, x \in Texts : Purge(t, x)
       \/ \E t \in Threads : Index(t) \/ AcceptRolledBack(t)
       \/ \E x \in Texts : RepairReads(x)
       \/ RepairWrites
       \/ \E plan \in [Candidates -> Verdicts] : Select(plan)
       \/ \E c \in Candidates : Promote(c) \/ Deduplicate(c) \/ Judge(c) \/ Mark(c)
       \/ PromotedIndex \/ PromotedDuplicates
       \/ \E l \in Ids : Decay(l)
       \/ Dedup \/ Crash
    /\ UNCHANGED near

Spec == Init /\ [][Next]_vars

----------------------------------------------------------------------------
\* The tables, the queue and the work in hand have the shapes the code relies on;
\* a row refers only to learnings that were committed.
TypeOK ==
    /\ \A p \in near : p \subseteq Texts
    /\ db \in [rows : [Ids -> Rows], docs : [Texts -> Docs]]
    /\ seq \in 0 .. MaxLearnings
    /\ \A l \in Stored(db) : /\ l <= seq
                             /\ {db.rows[l].by, db.rows[l].contra} \subseteq Stored(db) \cup {None}
    /\ cands \in [Candidates -> [status : {"none", "proposed", "accepted", "rejected"}, text : Texts \cup {None}]]
    /\ fences \subseteq Candidates /\ repair \in Texts \cup {None}
    /\ calls \in [Threads -> [purge : SUBSET Texts, index : Texts \cup {None}, accept : Candidates \cup {None}]]
    /\ afm \in [pc : {"idle", "apply", "index", "dups"}, plan : [Candidates -> Verdicts], lid : Ids \cup {None}]

\* What a caller was told is stored stays stored or is in the cold archive, except
\* for the answers that Undone gives (handle_learn, stage_candidate, resolve_candidate).
AnsweredIsKept == answered \subseteq Marks(db, Stored(db)) \cup tombs \cup lost

\* However the pass, an operator and a restart interleave, an accepted candidate
\* has exactly one learning, in the table or in the cold archive, and one that was
\* declined has none: no packet is accepted twice, and none is accepted while what
\* it said is dropped (the transactions of resolve_candidate and
\* promote_candidate_durable).  Those accepted in the name of a candidate that was
\* undone have no learning, then or later.
AcceptedHasOneLearning ==
    \A c \in Candidates :
        /\ cands[c].status # "accepted" \/ c \in misled => minted[c] = {}
        /\ cands[c].status = "accepted" /\ c \notin misled =>
               \E l \in Ids : /\ minted[c] = {l}
                             /\ <<l, cands[c].text>> \in Marks(db, Stored(db)) \cup tombs

\* Search follows the learnings.  It finds no text that only closed learnings
\* state, once the purges in hand are done: neither a late purge, nor a repair
\* racing a supersession, nor a shared document brings one back (the texts of
\* `stale` were left by a path that has no purge, or were indexed after their
\* learning had gone).  And a document it finds is taken away only when no active
\* learning maps to it any more, whatever was superseded or evicted under the same
\* text (the liveness test of purge_durable_document, the joins of the archive).
SearchFollowsLearnings ==
    [][\A x \in Texts :
         /\ db'.docs[x].fts => \/ x \in stale'
                               \/ Saying(db', x) # {}
                               \/ \E t \in Threads : x \in calls'[t].purge
         /\ db.docs[x].fts /\ ~ db'.docs[x].fts => Mapped(db', x) \cap Active(db') = {}]_vars

\* The pass rejects a candidate as a duplicate only while an active learning says
\* the same: a replacement that was superseded or evicted since the pass chose
\* does not count (reject_candidate_dedup).
DuplicateHasReplacement ==
    [][\A c \in Candidates :
         /\ afm.plan[c] = "dedup" /\ afm'.plan[c] = "none" /\ afm.pc = "apply"
         /\ cands[c].status = "proposed" /\ cands'[c].status = "rejected"
         => Saying(db, cands[c].text) # {}]_vars

\* The row is committed by the time the handler settles and answers, the comment
\* of settle_accepted_candidate says: what a caller is told is stored is stored.
AnsweredIsStored == answered \subseteq Marks(db, Stored(db)) \cup tombs
=============================================================================
