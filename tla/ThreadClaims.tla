----------------------------- MODULE ThreadClaims -----------------------------
(* Claims, their secrets and the receipts of worker updates:                 *)
(* thread-worker.ts, thread-claims.ts, the journal of thread-events.ts and   *)
(* the orchestrator's handlers of server.ts, for one slice of one plan.      *)
(*                                                                           *)
(* Every handler runs under the plan lock (ThreadLock), so what others see   *)
(* of it is what it leaves behind.  A handler is one action, and how far it  *)
(* came is its outcome: the note, the secrets, the receipts and the journal  *)
(* are four stores that it writes one after the other.                       *)
EXTENDS Naturals, FiniteSets

CONSTANTS Workers, ClaimKeys, UpdateKeys, Kinds, None, Faults, MaxRev, MaxTokens

\* Blind    a claim's write fails after the note has landed, and the reread
\*          does not recognise it, as the secret was staged for another revision
\* LostScar the write of a scar fails or its process dies before it
\* KeyReuse a key that has an event is used again in a later generation
\* Drop     a slice that a restore has taken out of the plan is added again
AllFaults == {"Blind", "LostScar", "KeyReuse", "Drop"}

AllKinds == {"start", "progress", "block", "scar", "complete"}

ASSUME ThreadClaimsAssumption ==
    /\ None \notin Workers \cup UpdateKeys
    /\ Kinds \subseteq AllKinds
    /\ Faults \subseteq AllFaults
    /\ MaxRev \in Nat
    /\ MaxTokens \in Nat

VARIABLES
    rev,       \* of the plan
    slice,     \* in the note
    past,      \* the slices the note has ever held: the history snapshots
    secrets,   \* claim envelopes, private to the store
    receipts,  \* of worker updates
    jrev,      \* the highest revision in the ordered journal
    jkeys,     \* the workers' operations that have an event there
    minted,    \* tokens made so far
    lapsed,    \* tokens whose lease is over
    told,      \* who has been given which token
    revoked,   \* history: tokens of claims taken away
    last,      \* history: the update that last wrote the slice
    scars,     \* history: the scars that have landed
    acked      \* history: the highest revision a caller has been told of

vars == <<rev, slice, past, secrets, receipts, jrev, jkeys, minted, lapsed, told,
          revoked, last, scars, acked>>

Open == {"pending", "in_progress", "blocked"}
Statuses == Open \cup {"done", "superseded", "absent"}

NoClaim == [key |-> None, tok |-> 0]

\* A slice as a plan creates it: no owner, generation zero.
Fresh  == [status |-> "pending", owner |-> None, gen |-> 0, claim |-> NoClaim, mark |-> None]
Absent == [Fresh EXCEPT !.status = "absent"]

Claimed(sl) == sl.claim # NoClaim
Live == Claimed(slice) /\ slice.claim.tok \notin lapsed

\* A claim is named by generation and key.
Name(sl) == IF Claimed(sl) THEN {<<sl.gen, sl.claim.key>>} ELSE {}
At(names) == {s \in secrets : <<s.gen, s.key>> \in names}

Init ==
    /\ rev = 1
    /\ slice \in {Fresh, Absent}
    /\ past = {slice}
    /\ secrets = {}
    /\ receipts = {}
    /\ jrev = 0
    /\ jkeys = {}
    /\ minted = 0
    /\ lapsed = {}
    /\ told = {}
    /\ revoked = {}
    /\ last = None
    /\ scars = {}
    /\ acked = 0

-----------------------------------------------------------------------------
(* How far a mutation comes.                                                 *)

\* never    dead before the note is written
\* lost     the write fails, the handler cleans up
\* late     the note has landed, then its index or audit fails: a bare error
\* history  the note has landed, its snapshot fails: an error that says so
\* cut      dead right after the note has landed
\* behind   all done but the events, or the receipt's commit
\* ok       answered
Outcomes == {"never", "lost", "late", "history", "cut", "behind", "ok"}
Wrote   == {"late", "history", "cut", "behind", "ok"}
Typed   == {"history", "behind", "ok"}
Carried == {"behind", "ok"}

Write(new, o) ==
    /\ rev < MaxRev
    /\ rev' = IF o \in Wrote THEN rev + 1 ELSE rev
    /\ slice' = IF o \in Wrote THEN new ELSE slice
    /\ past' = IF o \in Wrote THEN past \cup {new} ELSE past

\* Mutant: the events go to the journal before the note is written.
JournalFirst(keys, o) ==
    /\ jrev' = IF o # "never" /\ (keys = {} \/ ~ keys \subseteq jkeys) THEN rev + 1 ELSE rev
    /\ jkeys' = IF o = "ok" THEN jkeys \cup keys ELSE jkeys
    /\ acked' = IF o = "ok" THEN rev + 1 ELSE acked

\* prepareThreadMutation brings the journal up to the note before anything is
\* done.  Afterwards the operation's events are appended, unless its key has one.
Journal(keys, o) ==
    /\ jrev' = IF o = "ok" /\ (keys = {} \/ ~ keys \subseteq jkeys) THEN rev + 1 ELSE rev
    /\ jkeys' = IF o = "ok" THEN jkeys \cup keys ELSE jkeys
    /\ acked' = IF o = "ok" THEN rev + 1 ELSE acked

\* Best effort: any of the deletions may fail.
Delete(staged, names) ==
    \E kept \in SUBSET {s \in staged : <<s.gen, s.key>> \in names} :
        secrets' = {s \in staged : <<s.gen, s.key>> \notin names} \cup kept

\* Best effort: the receipts of a generation go with their directory.
Prune(gens) ==
    \E gone \in SUBSET gens : receipts' = {r \in receipts : r.gen \notin gone}

\* The slice is written by somebody other than its worker.  The secrets named
\* are deleted after the outcomes in drops, the old generation's receipts after
\* those in prunes.
Revise(new, names, drops, prunes) ==
    \E o \in Outcomes :
        /\ Write(new, o)
        /\ Journal({}, o)
        /\ IF o \in drops THEN Delete(secrets, names) ELSE UNCHANGED secrets
        /\ IF o \in prunes /\ new.gen > slice.gen THEN Prune({slice.gen}) ELSE UNCHANGED receipts
        /\ revoked' = IF o \in Wrote /\ Claimed(slice) /\ ~Claimed(new)
                      THEN revoked \cup {slice.claim.tok} ELSE revoked
        /\ last' = IF o \in Wrote THEN None ELSE last
        /\ UNCHANGED <<minted, lapsed, told, scars>>

Invalidated(sl) == [sl EXCEPT !.gen = @ + 1, !.claim = NoClaim]

-----------------------------------------------------------------------------
(* The orchestrator.                                                         *)

\* minni_thread_assign.  A slice that had an owner gets a new generation.
Assign(w) ==
    /\ slice.status \in Open
    /\ Revise([slice EXCEPT !.owner = w, !.claim = NoClaim,
                            !.gen = IF slice.owner = None THEN @ ELSE @ + 1],
              Name(slice), Wrote \ {"cut"}, Wrote \ {"cut"})

\* Mutant: a claim is taken away without a new generation.
OrchestrateKeep(to) ==
    /\ slice.status # "absent"
    /\ Revise([slice EXCEPT !.status = to, !.claim = NoClaim,
                            !.mark = IF to = "done" THEN None ELSE @],
              Name(slice), Typed, Typed)

\* minni_thread_update: any status to any other, and a claim is taken away.
Orchestrate(to) ==
    /\ slice.status # "absent"
    /\ LET moved == [slice EXCEPT !.status = to, !.mark = IF to = "done" THEN None ELSE @]
       IN  Revise(IF Claimed(slice) THEN Invalidated(moved) ELSE moved,
                  Name(slice), Typed, Typed)

\* minni_thread_replan: an open slice is left out of the new plan, or what a
\* slice means is changed, or a slice that is not there is added.
Supersede ==
    /\ slice.status \in Open
    /\ Revise(Invalidated([slice EXCEPT !.status = "superseded"]), Name(slice), Typed, Carried)

Redefine ==
    /\ slice.status \in Open \cup {"done"}
    /\ Revise(Invalidated(slice), Name(slice), Typed, Carried)

Add ==
    /\ slice.status = "absent"
    /\ past = {Absent} \/ "Drop" \in Faults
    /\ Revise(Fresh, {}, Typed, Carried)

\* minni_thread_restore: the generation goes beyond everything seen.  That of a
\* slice that is not there stands for the one the other slices have got.
Floor(p) == CHOOSE g \in {rev + 1, slice.gen + 1, p.gen + 1} :
                \A h \in {rev + 1, slice.gen + 1, p.gen + 1} : h <= g

Restore(p) ==
    Revise([p EXCEPT !.gen = Floor(p), !.claim = NoClaim], Name(slice) \cup Name(p), Typed,
           IF "absent" \in {slice.status, p.status} THEN {} ELSE Carried)

\* A mutation of another slice of the plan.
Elsewhere ==
    \E o \in Outcomes :
        /\ Write(slice, o)
        /\ Journal({}, o)
        /\ UNCHANGED <<secrets, receipts, minted, lapsed, told, revoked, last, scars>>

-----------------------------------------------------------------------------
(* Leases.                                                                   *)

Lapse(t) ==
    /\ t \notin lapsed
    /\ lapsed' = lapsed \cup {t}
    /\ UNCHANGED <<rev, slice, past, secrets, receipts, jrev, jkeys, minted, told,
                   revoked, last, scars, acked>>

\* The sweep, alone or at the start of a claim or an update.
Expire ==
    /\ Claimed(slice)
    /\ ~Live
    /\ Revise(Invalidated(slice), Name(slice), Wrote \ {"cut"}, Carried)

\* Mutant: an envelope does not say whose it is.
EnvelopeOfNobody(w, k, g) ==
    IF \E s \in secrets : s.gen = g /\ s.key = k
    THEN CHOOSE s \in secrets : s.gen = g /\ s.key = k
    ELSE [gen |-> g, key |-> k, worker |-> None, tok |-> minted + 1, rev |-> rev + 1]

\* createClaimSecret finds an envelope of that name, or makes one.
Envelope(w, k, g) ==
    IF \E s \in secrets : s.gen = g /\ s.key = k
    THEN CHOOSE s \in secrets : s.gen = g /\ s.key = k
    ELSE [gen |-> g, key |-> k, worker |-> w, tok |-> minted + 1, rev |-> rev + 1]

\* The first generation from the slice's on whose envelope is not an expired one.
Probed(k, g) ==
    /\ \A h \in slice.gen .. g - 1 : \E s \in secrets :
           s.gen = h /\ s.key = k /\ s.tok \in lapsed
    /\ \A s \in secrets : s.gen = g /\ s.key = k => s.tok \notin lapsed

\* Mutant: only the reread is believed, not the error that says the note landed.
RecognisedRereadOnly(e, o) == o \in Carried \/ (o = "late" /\ e.rev = rev + 1)

\* The handler knows that its claim is in the note.  A bare error is judged by a
\* reread, which wants the revision the envelope was made for.
Recognised(e, o) == o \in Typed \/ (o = "late" /\ e.rev = rev + 1)

\* minni_thread_claim, where there is no claim.
Claim(w, k) ==
    /\ slice.status \in Open
    /\ slice.owner = w
    /\ ~Claimed(slice)
    /\ <<w, k>> \notin jkeys \/ "KeyReuse" \in Faults
    /\ \E g \in {slice.gen} \cup {s.gen + 1 : s \in secrets} : \E o \in Outcomes :
        LET e     == Envelope(w, k, g)
            stale == {<<h, k>> : h \in slice.gen .. g - 1}
            own   == {<<g, k>>}
        IN  /\ e \in secrets \/ minted < MaxTokens
            /\ g >= slice.gen
            /\ Probed(k, g)
            /\ \A s \in secrets : <<s.gen, s.key>> \in stale \cup own => s.worker = w
            /\ o = "late" /\ ~Recognised(e, o) => "Blind" \in Faults
            /\ Write([slice EXCEPT !.gen = g, !.claim = [key |-> k, tok |-> e.tok]], o)
            /\ Journal({<<w, k>>}, o)
            /\ \/ o \in {"never", "cut"} /\ secrets' = secrets \cup {e}
               \/ o \notin {"never", "cut"} /\ Recognised(e, o)
                  /\ Delete(secrets \cup {e}, stale)
               \/ o \notin {"never", "cut"} /\ ~Recognised(e, o)
                  /\ Delete(secrets \cup {e}, stale \cup own)
            /\ IF Recognised(e, o) THEN Prune(slice.gen .. g - 1) ELSE UNCHANGED receipts
            /\ minted' = IF e \in secrets THEN minted ELSE minted + 1
            /\ told' = IF o = "ok" THEN told \cup {<<w, e.tok>>} ELSE told
            /\ last' = IF o \in Wrote THEN None ELSE last
    /\ UNCHANGED <<lapsed, revoked, scars>>

\* minni_thread_claim, where the same call has made the claim: its token is given
\* again, and its event made up for.
Replay(w, k) ==
    /\ Live
    /\ slice.owner = w
    /\ slice.claim.key = k
    /\ \E s \in At(Name(slice)) :
        /\ s.worker = w
        /\ s.tok = slice.claim.tok
        /\ told' = told \cup {<<w, s.tok>>}
    /\ jrev' = rev
    /\ jkeys' = jkeys \cup {<<w, k>>}
    /\ UNCHANGED <<rev, slice, past, secrets, receipts, minted, lapsed, revoked, last,
                   scars, acked>>

-----------------------------------------------------------------------------
(* The worker's updates.                                                     *)

ReceiptOf(w, u) == {r \in receipts : r.worker = w /\ r.gen = slice.gen /\ r.key = u}

Authoritative(r) == IF Claimed(slice) THEN slice.claim.key = r.ckey ELSE slice = r.slice

\* Mutant: a pending receipt is believed as soon as its revision is there.
LooksCommittedByRev(r) == rev >= r.rev

\* A pending receipt is believed if the slice is as it says.
LooksCommitted(r) == rev >= r.rev /\ slice = r.slice

\* The retry of an update that has a receipt: answered, and nothing done again.
Retry(w, u, kind, t) ==
    /\ <<w, t>> \in told
    /\ \E r \in ReceiptOf(w, u) :
        /\ r.kind = kind
        /\ r.tok = t
        /\ \/ r.status = "committed" /\ Authoritative(r)
           \/ r.status = "pending" /\ (Claimed(slice) => Live) /\ LooksCommitted(r)
        /\ receipts' = (receipts \ {r}) \cup {[r EXCEPT !.status = "committed"]}
    /\ jrev' = rev
    /\ UNCHANGED <<rev, slice, past, secrets, jkeys, minted, lapsed, told, revoked, last,
                   scars, acked>>

\* applyWorkerAction.  A scar is written elsewhere in the plan.
Applied(u, kind) ==
    CASE kind = "start"    -> [slice EXCEPT !.status = "in_progress"]
      [] kind = "progress" -> [slice EXCEPT !.status = "in_progress", !.mark = u]
      [] kind = "block"    -> [slice EXCEPT !.status = "blocked", !.mark = u]
      [] kind = "complete" -> [slice EXCEPT !.status = "done", !.mark = u, !.claim = NoClaim]
      [] kind = "scar"     -> slice

\* verifyClaimToken and the comparison with the note.
Verified(w, t) ==
    /\ Live
    /\ slice.owner = w
    /\ slice.claim.tok = t
    /\ \E s \in At(Name(slice)) : s.worker = w /\ s.tok = t

\* An update that has no receipt it could be answered from.
Perform(w, u, kind, t) ==
    /\ <<w, t>> \in told
    /\ Verified(w, t)
    /\ slice.status \in Open
    /\ kind = "complete" => slice.status # "pending"
    /\ \A r \in ReceiptOf(w, u) :
           r.kind = kind /\ r.tok = t /\ r.status = "pending" /\ ~LooksCommitted(r)
    /\ <<w, u>> \notin jkeys \/ "KeyReuse" \in Faults
    /\ \E o \in Outcomes :
        LET new       == Applied(u, kind)
            pending   == [worker |-> w, gen |-> slice.gen, key |-> u, kind |-> kind, tok |-> t,
                          ckey |-> slice.claim.key, status |-> "pending", rev |-> rev + 1,
                          slice |-> new]
            committed == [pending EXCEPT !.status = "committed"]
            others    == receipts \ ReceiptOf(w, u)
        IN  /\ kind = "scar" /\ o \notin Wrote => "LostScar" \in Faults
            /\ Write(new, o)
            /\ Journal({<<w, u>>}, o)
            /\ \/ o # "ok" /\ receipts' = others \cup {pending}
               \/ o \in Wrote \ {"cut"} /\ receipts' = others \cup {committed}
            /\ IF kind = "complete" /\ o \in Wrote \ {"cut"}
               THEN Delete(secrets, Name(slice)) ELSE UNCHANGED secrets
            /\ last' = IF o \in Wrote THEN [worker |-> w, key |-> u, tok |-> t] ELSE last
            /\ scars' = IF kind = "scar" /\ o \in Wrote
                        THEN scars \cup {<<w, slice.gen, u>>} ELSE scars
    /\ UNCHANGED <<minted, lapsed, told, revoked>>

-----------------------------------------------------------------------------
Next ==
    \/ \E w \in Workers : Assign(w)
    \/ \E to \in Statuses \ {"absent"} : Orchestrate(to)
    \/ Supersede \/ Redefine \/ Add
    \/ \E p \in past \cup {Absent} : Restore(p)
    \/ Elsewhere
    \/ \E t \in 1 .. minted : Lapse(t)
    \/ Expire
    \/ \E w \in Workers, k \in ClaimKeys : Claim(w, k) \/ Replay(w, k)
    \/ \E w \in Workers, u \in UpdateKeys, kind \in Kinds, t \in 1 .. minted :
           Retry(w, u, kind, t) \/ Perform(w, u, kind, t)

Spec == Init /\ [][Next]_vars

-----------------------------------------------------------------------------
(* Properties.                                                               *)

Claims == [key : ClaimKeys, tok : Nat] \cup {NoClaim}
Slices == [status : Statuses, owner : Workers \cup {None}, gen : Nat, claim : Claims,
           mark : UpdateKeys \cup {None}]
Envelopes == [gen : Nat, key : ClaimKeys, worker : Workers, tok : Nat, rev : Nat]
Receipts == [worker : Workers, gen : Nat, key : UpdateKeys, kind : Kinds, tok : Nat,
             ckey : ClaimKeys, status : {"pending", "committed"}, rev : Nat, slice : Slices]

\* The types of the variables.
TypeOK ==
    /\ rev \in Nat
    /\ slice \in Slices
    /\ past \subseteq Slices
    /\ secrets \subseteq Envelopes
    /\ receipts \subseteq Receipts
    /\ jrev \in Nat
    /\ jkeys \subseteq Workers \X (ClaimKeys \cup UpdateKeys)
    /\ minted \in Nat
    /\ lapsed \subseteq Nat
    /\ told \subseteq Workers \X Nat
    /\ revoked \subseteq Nat
    /\ last \in [worker : Workers, key : UpdateKeys, tok : Nat] \cup {None}
    /\ scars \subseteq Workers \X Nat \X UpdateKeys
    /\ acked \in Nat

\* A token whose claim was taken away, by a lapsed lease, another owner, the
\* orchestrator, a replan or a restore, never authorises an update again, though
\* its envelope may survive (applyOrchestratorSliceUpdate, restorePlan,
\* invalidateSliceGeneration, the probing of claimSlice).
RevokedStaysRevoked == \A w \in Workers, t \in revoked : ~Verified(w, t)

\* A live claim in the note can be used: its envelope is there, so the worker, or
\* the retry of its call, has the token (claimSlice's clean-up after an error).
LiveClaimCanBeUsed == Live => \E w \in Workers : Verified(w, slice.claim.tok)

\* A committed receipt says what the note once held, and the retry of the
\* update that last wrote the slice finds its receipt (writePendingWorkerUpdateReceipt
\* before the note, the commit after it, the pruning only after a durable advance).
ReceiptsTellTheTruth ==
    /\ \A r \in receipts : r.status = "committed" =>
           /\ r.slice \in past
           /\ r.kind = "scar" => <<r.worker, r.gen, r.key>> \in scars
    /\ last # None => \E r \in ReceiptOf(last.worker, last.key) :
           r.tok = last.tok /\ r.slice = slice /\ r.rev <= rev

\* The journal is never ahead of the note, which would refuse every later
\* mutation, and has whatever a caller was told of ("success and cursor-moved are
\* the same moment", recordThreadMutationEvents, reconcileThreadJournal).
JournalKeepsUp == acked <= jrev /\ jrev <= rev
=============================================================================
