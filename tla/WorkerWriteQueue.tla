-------------------------- MODULE WorkerWriteQueue --------------------------
(***************************************************************************)
(* Worker updates of one slice of one plan: updateClaimedSlice and the     *)
(* dump-and-return queue behind it (plugins/minni/src/thread-worker.ts,    *)
(* thread-write-queue.ts), with its two drains and the replan they yield   *)
(* to.                                                                     *)
(*                                                                         *)
(* A step is what the code does between two looks at state others change.  *)
(* The plan lock is PlanLock, which ThreadLock implements, and the replan  *)
(* reservation a flag (ReplanReservation): a dead owner's are free.  The   *)
(* calls and the in-process kick live in the worker's process, the         *)
(* standing drain and the replan in processes of their own.                *)
(*                                                                         *)
(* A call stands for its idempotency key, so the same call made again is a *)
(* retry.  Its token is that of one claim, and each generation of the slice*)
(* has one claim, live until the slice is done or superseded.  Tickets of  *)
(* other slices and the contents of evidence are left out.                 *)
(***************************************************************************)
EXTENDS Integers, Sequences, SequencesExt

CONSTANTS
    Calls,      \* worker calls, by idempotency key
    Act,        \* the action of a call: start, progress, block or complete
    Gen,        \* the generation of the claim a call presents
    QueueMax,   \* capacity of the queue
    MaxGen,     \* bound: generations of the slice
    MaxTries,   \* bound: attempts of each call
    MaxReplans, \* bound: replans
    MaxCrashes, \* bound: process deaths
    None

Drains == {"kick", "tick"}
Actors == Calls \cup Drains \cup {"replan"}
Procs  == {"worker", "minnid", "orchestrator"}

Statuses == {"pending", "in_progress", "blocked", "done", "superseded"}
Slices   == [gen : 0 .. MaxGen, status : Statuses, by : Calls \cup {None}]
Tickets  == [call : Calls, gen : 0 .. MaxGen]
Receipts == [committed : BOOLEAN, slice : Slices, rev : Nat]

ASSUME QueueAssumption ==
    /\ None \notin Actors \cup Receipts
    /\ Calls \cap (Drains \cup {"replan"}) = {}
    /\ Act \in [Calls -> {"start", "progress", "block", "complete"}]
    /\ Gen \in [Calls -> 0 .. MaxGen]
    /\ {QueueMax, MaxGen} \subseteq Nat \ {0}
    /\ {MaxTries, MaxReplans, MaxCrashes} \subseteq Nat

VARIABLES
    slice,      \* the slice in the plan note; "by" wrote its evidence
    rev,        \* revision of the plan note
    started,    \* whether the journal has a start of this generation
    queue,      \* the queued tickets, oldest first
    young,      \* tickets whose acceptor lives and that are younger than 5 s
    stamp,      \* generations with a start-accepted receipt still pending
    rcpt,       \* each call's update receipt, or None
    lock,       \* the actor that holds the plan lock, or None
    reserved,   \* whether a live replan reservation stands
    pc,         \* where each actor stands
    item,       \* the ticket a call is about to queue or a drain has picked
    kick,       \* the kick's entry: oneShot, its pending yield, followUpFull
    accepted,   \* tickets a caller has been told of (history)
    persisted,  \* how often each call's action was persisted (history)
    tries, replans, crashes  \* counts for the bounds

bounds == <<tries, replans, crashes>>
note   == <<slice, rev, started, stamp, rcpt, persisted>>
vars   == <<note, queue, young, lock, reserved, pc, item, kick, accepted, bounds>>

Lock == INSTANCE PlanLock WITH Callers <- Actors, holder <- lock

NoTicket == [call |-> None, gen |-> 0]
FullKick == [oneShot |-> FALSE, yield |-> FALSE, follow |-> FALSE]

Init ==
    /\ slice = [gen |-> 0, status |-> "pending", by |-> None]
    /\ rev = 0
    /\ started = FALSE
    /\ queue = <<>>
    /\ young = {}
    /\ stamp = {}
    /\ rcpt = [c \in Calls |-> None]
    /\ lock = None
    /\ reserved = FALSE
    /\ pc = [a \in Actors |-> "idle"]
    /\ item = [a \in Calls \cup Drains |-> NoTicket]
    /\ kick = FullKick
    /\ accepted = {}
    /\ persisted = [c \in Calls |-> 0]
    /\ tries = [c \in Calls |-> 0]
    /\ replans = 0
    /\ crashes = 0

-----------------------------------------------------------------------------
Goto(a, step) == pc' = [pc EXCEPT ![a] = step]
Open          == slice.status \notin {"done", "superseded"}
Live(t)       == Open /\ t.gen = slice.gen
Queued(c)     == \E t \in ToSet(queue) : t.call = c
TicketOf(c)   == CHOOSE t \in ToSet(queue) : t.call = c
StartQueued   == \E t \in ToSet(queue) : Act[t.call] = "start" /\ t.gen = slice.gen

\* pickNextQueuedWorkerWrite: the oldest, but no complete before a start.
Picked ==
    LET holdBack == \E t \in ToSet(queue) : Act[t.call] = "start"
        first    == SelectInSeq(queue, LAMBDA t : Act[t.call] = "complete" => ~holdBack)
    IN  queue[first]

\* kickWorkerWriteDrain, as part of the return of call c.  A drain under way
\* is not restarted; a full kick makes a one-shot one be followed by another.
ReturnAndKick(c, oneShot) ==
    IF pc["kick"] = "idle"
    THEN /\ pc' = [pc EXCEPT ![c] = "idle", !["kick"] = "top"]
         /\ kick' = [oneShot |-> oneShot, yield |-> oneShot, follow |-> FALSE]
    ELSE /\ Goto(c, "idle")
         /\ kick' = [kick EXCEPT !.follow = @ \/ (kick.oneShot /\ ~oneShot)]

Accept(c, t, oneShot) ==
    /\ accepted' = accepted \cup {t}
    /\ item' = [item EXCEPT ![c] = NoTicket]
    /\ ReturnAndKick(c, oneShot)

-----------------------------------------------------------------------------
(* updateClaimedSlice *)

Call(c) ==
    /\ pc[c] = "idle"
    /\ tries[c] < MaxTries
    /\ Gen[c] <= slice.gen
    /\ tries' = [tries EXCEPT ![c] = @ + 1]
    /\ Goto(c, "find")
    /\ UNCHANGED <<note, queue, young, lock, reserved, item, kick, accepted, replans, crashes>>

\* stampAcceptedStart; a stamp of a slice in progress counts as applied.
Stamped == IF slice.status = "in_progress" THEN stamp \ {slice.gen}
           ELSE stamp \cup {slice.gen}

\* The key is queued already: the answer is the same, and a live start is
\* stamped again.
Find(c) ==
    /\ pc[c] = "find"
    /\ IF Queued(c)
       THEN /\ stamp' = IF Act[c] = "start" /\ Live(TicketOf(c)) THEN Stamped ELSE stamp
            /\ Accept(c, TicketOf(c), Act[c] = "start")
       ELSE /\ Goto(c, IF Act[c] = "complete" /\ StartQueued THEN "enqueue" ELSE "look")
            /\ UNCHANGED <<stamp, item, kick, accepted>>
    /\ UNCHANGED <<slice, rev, started, rcpt, persisted, queue, young, lock, reserved, bounds>>

Look(c) ==
    /\ pc[c] = "look"
    /\ Goto(c, IF reserved THEN "refuse" ELSE "tryLock")
    /\ UNCHANGED <<note, queue, young, lock, reserved, item, kick, accepted, bounds>>

TryLock(c) ==
    /\ pc[c] = "tryLock"
    /\ IF lock = None
       THEN /\ Lock!Acquire(c)
            /\ item' = [item EXCEPT ![c] = [call |-> c, gen |-> slice.gen]]
            /\ Goto(c, "recheck")
       ELSE Goto(c, "refuse") /\ UNCHANGED <<lock, item>>
    /\ UNCHANGED <<note, queue, young, reserved, kick, accepted, bounds>>

\* Mutant: only a start that is still to be applied stands in the way.
StartMissingIfAccepted == slice.status # "in_progress" /\ (StartQueued \/ slice.gen \in stamp)

\* requireJournaledStartBeforeComplete throws.
StartMissing ==
    /\ slice.status # "in_progress"
    /\ StartQueued \/ slice.gen \in stamp \/ slice.status = "pending" \/ ~started

\* refuseCompleteUntilStartApplied.
Refuse(c) ==
    /\ pc[c] = "refuse"
    /\ Goto(c, IF Act[c] = "complete" /\ (slice.status = "superseded" \/ StartMissing)
               THEN "idle" ELSE "enqueue")
    /\ UNCHANGED <<note, queue, young, lock, reserved, item, kick, accepted, bounds>>

\* enqueueAcceptedWorkerWrite reads the generation the ticket will carry.
ReadGeneration(c) ==
    /\ pc[c] = "enqueue"
    /\ item' = [item EXCEPT ![c] = [call |-> c, gen |-> slice.gen]]
    /\ Goto(c, IF Act[c] = "start" THEN "stamp" ELSE "room")
    /\ UNCHANGED <<note, queue, young, lock, reserved, kick, accepted, bounds>>

StampStart(c) ==
    /\ pc[c] = "stamp"
    /\ stamp' = IF Open THEN Stamped ELSE stamp
    /\ Goto(c, "room")
    /\ UNCHANGED <<slice, rev, started, rcpt, persisted, queue, young, lock, reserved, item,
                   kick, accepted, bounds>>

\* Full, or the drain looks stuck behind a live lock: THREAD_BUSY.
Room(c) ==
    /\ pc[c] = "room"
    /\ \/ Len(queue) < QueueMax /\ Goto(c, "link") /\ UNCHANGED item
       \/ /\ Len(queue) >= QueueMax \/ (queue # <<>> /\ lock # None)
          /\ Goto(c, "idle")
          /\ item' = [item EXCEPT ![c] = NoTicket]
    /\ UNCHANGED <<note, queue, young, lock, reserved, kick, accepted, bounds>>

\* link does not replace a ticket of the same key.  A complete kicks one-shot
\* if it was queued behind a start, which is left open here.
Link(c) ==
    /\ pc[c] = "link"
    /\ queue' = IF Queued(c) THEN queue ELSE Append(queue, item[c])
    /\ young' = IF Queued(c) THEN young ELSE young \cup {item[c]}
    /\ \E oneShot \in BOOLEAN :
          /\ Act[c] # "complete" => oneShot = (Act[c] = "start")
          /\ Accept(c, IF Queued(c) THEN TicketOf(c) ELSE item[c], oneShot)
    /\ UNCHANGED <<note, lock, reserved, bounds>>

-----------------------------------------------------------------------------
(* applyClaimedSliceWithClaimFs, under the lock, for a call or a drain *)

Unlock(a) == Lock!Release(a) /\ item' = [item EXCEPT ![a] = NoTicket]
Its(a)    == item[a].call

\* The look at the reservation; ThreadBusyError if it stands.
Recheck(a) ==
    /\ pc[a] = "recheck"
    /\ IF reserved THEN Goto(a, IF a \in Drains THEN "top" ELSE "refuse") /\ Unlock(a)
       ELSE Goto(a, "apply") /\ UNCHANGED <<lock, item>>
    /\ UNCHANGED <<note, queue, young, reserved, kick, accepted, bounds>>

\* The slice as the action of call c leaves it.
Updated(c) ==
    CASE Act[c] = "start"    -> [slice EXCEPT !.status = "in_progress"]
      [] Act[c] = "progress" -> [slice EXCEPT !.status = "in_progress", !.by = c]
      [] Act[c] = "block"    -> [slice EXCEPT !.status = "blocked", !.by = c]
      [] Act[c] = "complete" -> [slice EXCEPT !.status = "done", !.by = c]

\* A receipt of the slice's current generation.
Receipt(c) == IF rcpt[c] # None /\ rcpt[c].slice.gen = slice.gen THEN rcpt[c] ELSE None

\* A committed receipt answers a retry while its claim is live or the slice
\* is what it says; a pending one is committed if the plan has come to its
\* revision and the slice is what it says.
Answered(c) ==
    /\ Receipt(c) # None
    /\ \/ Receipt(c).committed /\ Open
       \/ Receipt(c).slice = slice /\ (Receipt(c).committed \/ Receipt(c).rev <= rev)

Pending(c) == [committed |-> FALSE, slice |-> Updated(c), rev |-> rev + 1]

\* Mutant: the token is not compared with the slice's claim.
RefusedAnyToken(c) ==
    \/ Receipt(c) # None /\ Receipt(c).committed
    \/ ~Open
    \/ Act[c] = "complete" /\ StartMissing

Refused(c) ==
    \/ Receipt(c) # None /\ Receipt(c).committed
    \/ ~Open \/ Gen[c] # slice.gen
    \/ Act[c] = "complete" /\ StartMissing

\* Mutant: a pending receipt is not compared with the slice.
ApplyForgetsPending(a) ==
    /\ pc[a] = "apply"
    /\ LET c == Its(a) IN
       IF Answered(c) /\ Receipt(c).committed
       THEN Goto(a, "finish") /\ UNCHANGED rcpt
       ELSE IF Refused(c) THEN Goto(a, "fail") /\ UNCHANGED rcpt
       ELSE /\ rcpt' = [rcpt EXCEPT ![c] = Pending(c)]
            /\ Goto(a, "persist")
    /\ UNCHANGED <<slice, rev, started, stamp, persisted, queue, young, lock, reserved, item,
                   kick, accepted, bounds>>

\* Receipts first, then the claim and the guards of the action, then the
\* pending receipt.
Apply(a) ==
    /\ pc[a] = "apply"
    /\ LET c == Its(a) IN
       IF Answered(c)
       THEN Goto(a, "finish") /\ rcpt' = [rcpt EXCEPT ![c].committed = TRUE]
       ELSE IF Refused(c) THEN Goto(a, "fail") /\ UNCHANGED rcpt
       ELSE /\ rcpt' = [rcpt EXCEPT ![c] = Pending(c)]
            /\ Goto(a, "persist")
    /\ UNCHANGED <<slice, rev, started, stamp, persisted, queue, young, lock, reserved, item,
                   kick, accepted, bounds>>

Persist(a) ==
    /\ pc[a] = "persist"
    /\ slice' = Updated(Its(a))
    /\ rev' = rev + 1
    /\ persisted' = [persisted EXCEPT ![Its(a)] = @ + 1]
    /\ Goto(a, "commit")
    /\ UNCHANGED <<started, stamp, rcpt, queue, young, lock, reserved, item, kick, accepted,
                   bounds>>

Commit(a) ==
    /\ pc[a] = "commit"
    /\ rcpt' = [rcpt EXCEPT ![Its(a)].committed = TRUE]
    /\ Goto(a, "journal")
    /\ UNCHANGED <<slice, rev, started, stamp, persisted, queue, young, lock, reserved, item,
                   kick, accepted, bounds>>

Journal(a) ==
    /\ pc[a] = "journal"
    /\ started' = (started \/ Act[Its(a)] \in {"start", "progress"})
    /\ Goto(a, "finish")
    /\ UNCHANGED <<slice, rev, stamp, rcpt, persisted, queue, young, lock, reserved, item,
                   kick, accepted, bounds>>

\* Each of these writes may fail, and the update with it.  A note written
\* whose history line fails is a receipt committed and a journal that fails.
StoreFails(a) ==
    /\ pc[a] \in {"persist", "commit", "journal"}
    /\ Goto(a, "fail")
    /\ UNCHANGED <<note, queue, young, lock, reserved, item, kick, accepted, bounds>>

\* A call that has applied its update kicks a full drain.
Applied(c) ==
    /\ pc[c] = "finish"
    /\ Unlock(c)
    /\ ReturnAndKick(c, FALSE)
    /\ UNCHANGED <<note, queue, young, reserved, accepted, bounds>>

Rejected(c) ==
    /\ pc[c] = "fail"
    /\ Unlock(c)
    /\ Goto(c, "idle")
    /\ UNCHANGED <<note, queue, young, reserved, kick, accepted, bounds>>

-----------------------------------------------------------------------------
(* drainWorkerWrites *)

\* The end of a drain.  A kick asked for meanwhile follows in full, unless
\* this one has yielded live work.
End(d, yielded) ==
    IF d = "kick" /\ kick.follow /\ ~yielded
    THEN Goto(d, "top") /\ kick' = FullKick
    ELSE Goto(d, "idle") /\ kick' = IF d = "kick" THEN FullKick ELSE kick

\* Mutant: the ticket is left in the set of the young ones.
DiscardFromQueue(t) == queue' = RemoveFirstMatch(queue, LAMBDA u : u.call = t.call) /\ UNCHANGED young

Discard(t) == queue' = RemoveFirstMatch(queue, LAMBDA u : u.call = t.call) /\ young' = young \ {t}

\* minnid's tick and the start of a later server run the standing drain.
Tick ==
    /\ pc["tick"] = "idle"
    /\ queue # <<>>
    /\ Goto("tick", "top")
    /\ UNCHANGED <<note, queue, young, lock, reserved, item, kick, accepted, bounds>>

\* standingDrainShouldYieldLiveStart.
Deferred(t) == Act[t.call] = "start" /\ Live(t) /\ t \in young

Top(d) ==
    /\ pc[d] = "top"
    /\ IF queue = <<>> \/ (d = "tick" /\ ~reserved /\ Deferred(Picked))
       THEN End(d, FALSE)
       ELSE Goto(d, IF reserved THEN "wait" ELSE "drainLock") /\ UNCHANGED kick
    /\ UNCHANGED <<note, queue, young, lock, reserved, item, accepted, bounds>>

\* 25 ms, or the end of the drain's 60 s.
Wait(d) ==
    /\ pc[d] = "wait"
    /\ \/ Goto(d, "top") /\ UNCHANGED kick
       \/ End(d, FALSE)
    /\ UNCHANGED <<note, queue, young, lock, reserved, item, accepted, bounds>>

DrainLock(d) ==
    /\ pc[d] = "drainLock"
    /\ IF lock = None THEN Lock!Acquire(d) /\ Goto(d, "pick")
       ELSE Goto(d, "wait") /\ UNCHANGED lock
    /\ UNCHANGED <<note, queue, young, reserved, item, kick, accepted, bounds>>

\* The first pass of a one-shot kick leaves live work alone.
YieldOnce ==
    /\ pc["kick"] = "pick" /\ kick.yield /\ queue # <<>>
    /\ Live(Picked)
    /\ Lock!Release("kick")
    /\ End("kick", TRUE)
    /\ UNCHANGED <<note, queue, young, reserved, item, accepted, bounds>>

Yielding(d) == d = "kick" /\ kick.yield /\ queue # <<>> /\ Live(Picked)

PickNothing(d) ==
    /\ pc[d] = "pick" /\ queue = <<>>
    /\ Lock!Release(d)
    /\ End(d, FALSE)
    /\ UNCHANGED <<note, queue, young, reserved, item, accepted, bounds>>

PickReserved(d) ==
    /\ pc[d] = "pick" /\ queue # <<>> /\ ~Yielding(d) /\ reserved
    /\ Lock!Release(d)
    /\ Goto(d, "top")
    /\ kick' = IF d = "kick" THEN [kick EXCEPT !.yield = FALSE] ELSE kick
    /\ UNCHANGED <<note, queue, young, reserved, item, accepted, bounds>>

\* Mutant: a dead ticket stays in the queue.
DropKeeps(d) ==
    /\ pc[d] = "pick" /\ queue # <<>> /\ ~reserved /\ ~Live(Picked)
    /\ Lock!Release(d)
    /\ Goto(d, "top")
    /\ kick' = IF d = "kick" THEN [kick EXCEPT !.yield = FALSE] ELSE kick
    /\ UNCHANGED <<note, queue, young, reserved, item, accepted, bounds>>

\* A ticket of a dead generation is dropped, and the receipts of its
\* generation with it.
Drop(d) ==
    /\ pc[d] = "pick" /\ queue # <<>> /\ ~reserved /\ ~Live(Picked)
    /\ Discard(Picked)
    /\ stamp' = stamp \ {Picked.gen}
    /\ rcpt' = [c \in Calls |-> IF rcpt[c] # None /\ rcpt[c].slice.gen = Picked.gen
                                THEN None ELSE rcpt[c]]
    /\ Lock!Release(d)
    /\ Goto(d, "top")
    /\ kick' = IF d = "kick" THEN [kick EXCEPT !.yield = FALSE] ELSE kick
    /\ UNCHANGED <<slice, rev, started, persisted, reserved, item, accepted, bounds>>

\* claimTokenFromExistingStore refuses a ticket accepted with the token of
\* another claim.
Pick(d) ==
    /\ pc[d] = "pick" /\ queue # <<>> /\ ~Yielding(d) /\ ~reserved /\ Live(Picked)
    /\ item' = [item EXCEPT ![d] = Picked]
    /\ Goto(d, IF Gen[Picked.call] = slice.gen THEN "recheck" ELSE "fail")
    /\ UNCHANGED <<note, queue, young, lock, reserved, kick, accepted, bounds>>

\* The update is applied: its ticket goes, and the next one is looked at.
Drained(d) ==
    /\ pc[d] = "finish"
    /\ Discard(item[d])
    /\ Unlock(d)
    /\ Goto(d, "top")
    /\ UNCHANGED <<note, reserved, kick, accepted, bounds>>

\* Mutant: a failed apply drops its ticket.
ParkDrops(d) ==
    /\ pc[d] = "fail"
    /\ Discard(item[d])
    /\ Unlock(d)
    /\ End(d, FALSE)
    /\ UNCHANGED <<note, reserved, accepted, bounds>>

\* A failed apply keeps the ticket and ends the drain.
Park(d) ==
    /\ pc[d] = "fail"
    /\ Unlock(d)
    /\ End(d, FALSE)
    /\ UNCHANGED <<note, queue, young, reserved, accepted, bounds>>

-----------------------------------------------------------------------------
(* The orchestrator: replans, assignments *)

Reserve ==
    /\ pc["replan"] = "idle" /\ ~reserved
    /\ replans < MaxReplans
    /\ replans' = replans + 1
    /\ reserved' = TRUE
    /\ Goto("replan", "lock")
    /\ UNCHANGED <<note, queue, young, lock, item, kick, accepted, tries, crashes>>

\* withThreadPlanLock waits, up to its deadline.
ReplanLock ==
    /\ pc["replan"] = "lock"
    /\ \/ Lock!Acquire("replan") /\ Goto("replan", "supersede")
       \/ Goto("replan", "withdraw") /\ UNCHANGED lock
    /\ UNCHANGED <<note, queue, young, reserved, item, kick, accepted, bounds>>

\* The generation is invalidated, its claim revoked, its receipts pruned.
NextGeneration(status) ==
    /\ slice' = [slice EXCEPT !.gen = @ + 1, !.status = status]
    /\ rev' = rev + 1
    /\ stamp' = stamp \ {slice.gen}
    /\ rcpt' = [c \in Calls |-> IF rcpt[c] # None /\ rcpt[c].slice.gen = slice.gen
                                THEN None ELSE rcpt[c]]
    /\ UNCHANGED persisted

Supersede ==
    /\ pc["replan"] = "supersede"
    /\ IF Open THEN NextGeneration("superseded") ELSE UNCHANGED <<slice, rev, stamp, rcpt, persisted>>
    /\ Lock!Release("replan")
    /\ Goto("replan", "withdraw")
    /\ UNCHANGED <<started, queue, young, reserved, item, kick, accepted, bounds>>

Withdraw ==
    /\ pc["replan"] = "withdraw"
    /\ reserved' = FALSE
    /\ Goto("replan", "idle")
    /\ UNCHANGED <<note, queue, young, lock, item, kick, accepted, bounds>>

\* assignSlice and the worker's claim of the new generation, under the lock.
\* The slice keeps its status; the journal forgets its start.
\* The last generation of the bound is left to Supersede.
Reassign ==
    /\ lock = None /\ Open /\ slice.gen + 1 < MaxGen
    /\ NextGeneration(slice.status)
    /\ started' = FALSE
    /\ UNCHANGED <<queue, young, lock, reserved, pc, item, kick, accepted, bounds>>

-----------------------------------------------------------------------------
(* Time and processes *)

Age ==
    /\ \E t \in young : young' = young \ {t}
    /\ UNCHANGED <<note, queue, lock, reserved, pc, item, kick, accepted, bounds>>

ActorsOf(p) == CASE p = "worker" -> Calls \cup {"kick"}
                 [] p = "minnid" -> {"tick"}
                 [] p = "orchestrator" -> {"replan"}

Crash(p) ==
    /\ crashes < MaxCrashes
    /\ crashes' = crashes + 1
    /\ pc' = [a \in Actors |-> IF a \in ActorsOf(p) THEN "idle" ELSE pc[a]]
    /\ item' = [a \in DOMAIN item |-> IF a \in ActorsOf(p) THEN NoTicket ELSE item[a]]
    /\ lock' = IF lock \in ActorsOf(p) THEN None ELSE lock
    /\ reserved' = (reserved /\ p # "orchestrator")
    /\ young' = IF p = "worker" THEN {} ELSE young
    /\ kick' = IF p = "worker" THEN FullKick ELSE kick
    /\ UNCHANGED <<note, queue, accepted, tries, replans>>

CallStep(c) ==
    \/ Find(c) \/ Look(c) \/ TryLock(c) \/ Refuse(c) \/ ReadGeneration(c) \/ StampStart(c)
    \/ Room(c) \/ Link(c) \/ Applied(c) \/ Rejected(c)

DrainStep(d) ==
    \/ Top(d) \/ Wait(d) \/ DrainLock(d) \/ PickNothing(d) \/ PickReserved(d) \/ Drop(d)
    \/ Pick(d) \/ Drained(d) \/ Park(d)

LockedStep(a) == Recheck(a) \/ Apply(a) \/ Persist(a) \/ Commit(a) \/ Journal(a) \/ StoreFails(a)

ReplanStep == ReplanLock \/ Supersede \/ Withdraw

Finished ==
    /\ \A a \in Actors : pc[a] = "idle"
    /\ UNCHANGED vars

Next ==
    \/ \E c \in Calls : Call(c) \/ CallStep(c)
    \/ \E d \in Drains : DrainStep(d)
    \/ \E a \in Calls \cup Drains : LockedStep(a)
    \/ Tick \/ YieldOnce
    \/ Reserve \/ ReplanStep \/ Reassign
    \/ Age \/ \E p \in Procs : Crash(p)
    \/ Finished

Spec == Init /\ [][Next]_vars

\* Processes keep running, minnid ticks for ever, tickets age; the standing
\* drain gets a lock that is freed again and again, and its writes do not fail
\* for ever.
FairSpec ==
    /\ Spec
    /\ \A c \in Calls : WF_vars(CallStep(c) \/ LockedStep(c))
    /\ \A d \in Drains : WF_vars(DrainStep(d) \/ LockedStep(d))
    /\ SF_vars(lock = None /\ DrainLock("tick"))
    /\ SF_vars(Persist("tick") \/ Commit("tick") \/ Journal("tick"))
    /\ WF_vars(Tick) /\ WF_vars(YieldOnce) /\ WF_vars(ReplanStep) /\ WF_vars(Age)

-----------------------------------------------------------------------------
(* Properties *)

\* The note, the queue, the receipts and what each actor carries are well
\* formed, and only queued tickets are young.
TypeOK ==
    /\ slice \in Slices
    /\ rev \in Nat
    /\ started \in BOOLEAN
    /\ queue \in Seq(Tickets)
    /\ young \subseteq ToSet(queue)
    /\ stamp \subseteq 0 .. MaxGen
    /\ \A c \in Calls : rcpt[c] \in Receipts \cup {None}
    /\ lock \in Actors \cup {None}
    /\ reserved \in BOOLEAN
    /\ DOMAIN pc = Actors
    /\ \A a \in DOMAIN item : item[a] \in Tickets \cup {NoTicket}
    /\ accepted \subseteq Tickets

\* An accepted write is not lost (thread-write-queue.ts:8-15): until it has
\* been persisted its ticket stays in the queue, through every crash and
\* retry, unless its generation has died.
AcceptedIsKept ==
    \A t \in accepted : t \in ToSet(queue) \/ persisted[t.call] > 0 \/ ~Live(t)

\* However often a call is repeated, and wherever the process applying it
\* dies, its action is persisted once.
AppliedOnce == \A c \in Calls : persisted[c] <= 1

\* A worker's update reaches the slice only while the generation its token is
\* a claim of lives, whenever it was queued and whoever applies it.
OnlyItsGeneration ==
    [][\A c \in Calls : persisted'[c] # persisted[c] => Gen[c] = slice.gen /\ Open]_vars

\* "complete cannot persist done without start" (thread-worker.ts:341): a
\* slice is done only after a start or progress of its generation was
\* persisted, however the calls and the drains overtake each other.
CompleteNeedsStart ==
    [][slice'.status = "done" /\ slice.status # "done" =>
          \E c \in Calls : /\ Act[c] \in {"start", "progress"} /\ Gen[c] = slice.gen
                           /\ persisted[c] > 0]_vars

\* Every ticket leaves the queue: it is applied, or dropped with its
\* generation, by this process or a later one (thread-write-queue.ts:11-15).
TicketsSettle == \A c \in Calls : Queued(c) ~> ~Queued(c)
=============================================================================
