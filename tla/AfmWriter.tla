------------------------------ MODULE AfmWriter ------------------------------
(* The consolidation pass and its draft writer: minnid_runtime/afm.py,       *)
(* afm_passes/consolidation.py and afm_writer.py.  A compile selects open    *)
(* candidates, has a verdict on each, hands the review drafts to the writer  *)
(* thread and waits.  Whoever is still there when the drafts have landed     *)
(* applies the verdicts: the compile, or the worker after a timeout.  An     *)
(* application the worker could not finish is held, in memory and in the     *)
(* vault, and made again before the next batch is let in.                    *)
EXTENDS Naturals, FiniteSets, Sequences

CONSTANTS Candidates, Compiles, None, Faults, MaxCrashes

AllFaults == {"Write", "Apply", "Persist", "Crash"}

ASSUME AfmWriterAssumption ==
    /\ None \notin Compiles
    /\ Faults \subseteq AllFaults
    /\ MaxCrashes \in Nat

VARIABLES
    status,   \* the candidate: open, fenced for an operator, or closed
    verdict,  \* what each compile decided of each candidate
    pc,       \* where each compile is
    lock,     \* the compile that has taken the consolidation lock
    queue,    \* batches submitted to the worker
    writer,   \* the batch the worker is at
    wpc,      \* what the worker does with it
    todo,     \* the candidates an application has not come to yet, by actor
    erred,    \* whether that application met an error
    worked,   \* ... and whether it changed anything
    busy,     \* the batch whose event is unset: the pass is in flight
    left,     \* batches whose waiter has gone and left the verdicts to the worker
    out,      \* the outcome the worker left for the waiter
    pages,    \* drafts on disk: <<candidate, compile>>
    again,    \* the held batch a compile is applying again
    sticky,   \* in memory: the batch whose verdicts are held
    stored,   \* in the vault: the same, for the next process
    crashes,
    excused   \* history: batches an unguarded window may have doubled

vars == <<status, verdict, pc, lock, queue, writer, wpc, todo, erred, worked,
          busy, left, out, pages, again, sticky, stored, crashes, excused>>

Worker == "worker"
Actors == Compiles \cup {Worker}

Verdicts == {"none", "review", "promote", "judged", "reject"}

Nothing  == [c \in Candidates |-> "none"]

Of(t, kinds) == {c \in Candidates : verdict[t][c] \in kinds}
Drafts(t)    == Of(t, {"review"})

\* What the pass applies itself, and what it hands to the writer: the verdicts
\* of the judge, accepts apart, are not in the lifecycle it submits.
Whole(t)    == Of(t, {"review", "promote", "judged", "reject"})
Deferred(t) == Of(t, {"review", "promote", "judged"})

Open(c)     == status[c] = "open"
Proposed(c) == status[c] \in {"open", "fenced"}

\* What an application has left to do: a promotion until the candidate is
\* closed, a review until it is fenced or closed.
Remaining(t, ids) == {c \in ids : IF verdict[t][c] = "review" THEN Open(c)
                                                              ELSE Proposed(c)}

Init ==
    /\ status = [c \in Candidates |-> "open"]
    /\ verdict = [t \in Compiles |-> Nothing]
    /\ pc = [t \in Compiles |-> "idle"]
    /\ lock = None
    /\ queue = <<>>
    /\ writer = None
    /\ wpc = "idle"
    /\ todo = [a \in Actors |-> {}]
    /\ erred = [a \in Actors |-> FALSE]
    /\ worked = [a \in Actors |-> FALSE]
    /\ busy = None
    /\ left = {}
    /\ out = [t \in Compiles |-> "none"]
    /\ pages = {}
    /\ again = None
    /\ sticky = None
    /\ stored = None
    /\ crashes = 0
    /\ excused = {}

writerVars == <<queue, writer, wpc, busy, left, out, pages>>
heldVars   == <<again, sticky, stored>>
applyVars  == <<todo, erred, worked>>

-----------------------------------------------------------------------------
(* The compile.                                                              *)

\* The lock is taken, the open candidates are read and each gets its verdict.
\* A candidate beyond the judge's budget gets none.
Select(t) ==
    /\ pc[t] = "idle"
    /\ lock = None
    /\ \E v \in [Candidates -> Verdicts] :
        /\ \A c \in Candidates : Open(c) \/ v[c] = "none"
        /\ verdict' = [verdict EXCEPT ![t] = v]
    /\ pc' = [pc EXCEPT ![t] = "picked"]
    /\ lock' = t
    /\ UNCHANGED <<status, writerVars, heldVars, applyVars, crashes, excused>>

\* Another compile has the lock.
Busy(t) ==
    /\ pc[t] = "idle"
    /\ lock # None
    /\ pc' = [pc EXCEPT ![t] = "done"]
    /\ UNCHANGED <<status, verdict, lock, writerVars, heldVars, applyVars, crashes, excused>>

\* The gates after the lock (operator, vault root, loop enabled) return before
\* the try whose finally gives the lock back: it stays taken.
GateRefused(t) ==
    /\ pc[t] = "idle"
    /\ lock = None
    /\ pc' = [pc EXCEPT ![t] = "done"]
    /\ lock' = t
    /\ UNCHANGED <<status, verdict, writerVars, heldVars, applyVars, crashes, excused>>

Begin(a, ids) ==
    /\ todo' = [todo EXCEPT ![a] = ids]
    /\ erred' = [erred EXCEPT ![a] = FALSE]
    /\ worked' = [worked EXCEPT ![a] = FALSE]

End(a) == Begin(a, {})

Leave(t) ==
    /\ pc' = [pc EXCEPT ![t] = "done"]
    /\ lock' = None

\* A batch that was never queued goes with its compile.
Forget(t) == verdict' = [verdict EXCEPT ![t] = Nothing]

\* No drafts: nothing to submit, the verdicts are applied.  A batch of nothing
\* but rejections is not applied at all.
NoDrafts(t) ==
    /\ pc[t] = "picked"
    /\ Drafts(t) = {}
    /\ IF Deferred(t) # {}
       THEN /\ pc' = [pc EXCEPT ![t] = "apply"]
            /\ Begin(t, Whole(t))
            /\ UNCHANGED <<lock, verdict>>
       ELSE Leave(t) /\ Forget(t) /\ UNCHANGED applyVars
    /\ UNCHANGED <<status, writerVars, heldVars, crashes, excused>>

\* Mutant: the pass is marked busy without saying for which batch.
EnqueueFlag(t) ==
    /\ queue' = Append(queue, t)
    /\ busy' = TRUE
    /\ pc' = [pc EXCEPT ![t] = "wait"]
    /\ UNCHANGED verdict

\* The batch is queued.
Enqueue(t) ==
    /\ queue' = Append(queue, t)
    /\ busy' = t
    /\ pc' = [pc EXCEPT ![t] = "wait"]
    /\ UNCHANGED verdict

\* A selection that is no longer open when it is submitted: the code does not look.
Stale(t) == {u \in {t} : \E c \in Drafts(t) : ~Open(c)}

\* Mutant: after a restart nobody looks into the vault.
HydratedNever == sticky

\* submit_drafts, under the in-flight lock: a hold found in the vault is taken
\* into memory unless memory has one.
Hydrated == IF sticky = None THEN stored ELSE sticky

Submit(t) ==
    /\ pc[t] = "picked"
    /\ Drafts(t) # {}
    /\ sticky' = Hydrated
    /\ \/ /\ Hydrated # None                    \* first make the held application
          /\ pc' = [pc EXCEPT ![t] = "reapply"]
          /\ again' = Hydrated
          /\ Begin(t, Deferred(Hydrated))
          /\ UNCHANGED <<verdict, lock, queue, busy, excused>>
       \/ /\ Hydrated = None
          /\ busy # None \/ "Write" \in Faults   \* write_in_flight, or queue full
          /\ Leave(t)
          /\ Forget(t)
          /\ UNCHANGED <<again, applyVars, queue, busy, excused>>
       \/ /\ Hydrated = None
          /\ busy = None
          /\ Enqueue(t)
          /\ excused' = excused \cup Stale(t)
          /\ UNCHANGED <<again, applyVars, lock>>
    /\ UNCHANGED <<status, writer, wpc, left, out, pages, stored, crashes>>

\* The judge's word does not reach an application that only has the lifecycle
\* submitted with the drafts: the promotion is then left to an operator.
Wordless(t, c, whole) == verdict[t][c] = "judged" /\ ~whole

\* The verdict on one candidate is applied: a review fences it, the others
\* close it.  A promotion may find the candidate changed or its replacement
\* gone and leave it.  Reviews come last.
ApplyOne(a, t, whole) ==
    \E c \in todo[a] :
        /\ verdict[t][c] = "review" => todo[a] \subseteq Drafts(t)
        /\ todo' = [todo EXCEPT ![a] = @ \ {c}]
        /\ \/ /\ c \in Remaining(t, {c})
              /\ status' = [status EXCEPT ![c] =
                    IF verdict[t][c] = "review" \/ Wordless(t, c, whole)
                    THEN "fenced" ELSE "closed"]
              /\ worked' = [worked EXCEPT ![a] = @ \/ ~Wordless(t, c, whole)]
              /\ UNCHANGED erred
           \/ /\ c \notin Remaining(t, {c}) \/ verdict[t][c] = "promote"
              /\ UNCHANGED <<status, worked, erred>>
           \/ /\ "Apply" \in Faults
              /\ erred' = [erred EXCEPT ![a] = TRUE]
              /\ UNCHANGED <<status, worked>>

Complete(a, t) == ~erred[a] /\ Remaining(t, Deferred(t)) = {}

\* The vault's copy is written, or cleared, under the in-flight lock; a write
\* that fails is logged and passed over.
Store(p) == stored' = p \/ ("Persist" \in Faults /\ stored' = stored)

DirectStep(t) ==
    /\ pc[t] = "apply"
    /\ ApplyOne(t, t, TRUE)
    /\ UNCHANGED <<verdict, pc, lock, writerVars, heldVars, crashes, excused>>

\* The compile's own application is over.  What it could not do is not held.
DirectEnd(t) ==
    /\ pc[t] = "apply"
    /\ todo[t] = {}
    /\ Leave(t)
    /\ IF Drafts(t) = {} THEN Forget(t) ELSE UNCHANGED verdict
    /\ excused' = IF Remaining(t, Drafts(t)) = {} THEN excused ELSE excused \cup {t}
    /\ End(t)
    /\ UNCHANGED <<status, writerVars, heldVars, crashes>>

ReapplyStep(t) ==
    /\ pc[t] = "reapply"
    /\ ApplyOne(t, again, FALSE)
    /\ UNCHANGED <<verdict, pc, lock, writerVars, heldVars, crashes, excused>>

\* A batch whose hold or flight ends with another's application: a hold whose
\* vault copy could not be cleared is taken up while a later batch is in flight.
Dropped(s) == s \ {again, None}

\* Not all done: the hold stays and the new batch is refused.
ReapplyFailed(t) ==
    /\ pc[t] = "reapply"
    /\ todo[t] = {}
    /\ ~Complete(t, again)
    /\ sticky' = again
    /\ Store(again)
    /\ again' = None
    /\ excused' = excused \cup Dropped({sticky})
    /\ Leave(t)
    /\ Forget(t)
    /\ End(t)
    /\ UNCHANGED <<status, writerVars, crashes>>

\* All done: the hold ends, whichever batch it is of by now, and with it the
\* flight of whichever batch is busy.  If that changed anything the new batch is
\* dropped, otherwise it is queued in the same step.
ReapplyDone(t) ==
    /\ pc[t] = "reapply"
    /\ todo[t] = {}
    /\ Complete(t, again)
    /\ sticky' = None
    /\ Store(None)
    /\ again' = None
    /\ \/ /\ worked[t] \/ "Write" \in Faults
          /\ Leave(t)
          /\ Forget(t)
          /\ busy' = None
          /\ excused' = excused \cup Dropped({sticky, busy})
          /\ UNCHANGED queue
       \/ /\ ~worked[t]
          /\ Enqueue(t)
          /\ excused' = excused \cup Stale(t) \cup Dropped({sticky, busy})
          /\ UNCHANGED lock
    /\ End(t)
    /\ UNCHANGED <<status, writer, wpc, left, out, pages, crashes>>

\* The waiter sees the outcome, in time or on its last look under the lock.
Receive(t) ==
    /\ pc[t] = "wait"
    /\ out[t] # "none"
    /\ IF out[t] = "written"
       THEN /\ pc' = [pc EXCEPT ![t] = "apply"]
            /\ Begin(t, Whole(t))
            /\ UNCHANGED lock
       ELSE Leave(t) /\ UNCHANGED applyVars
    /\ out' = [out EXCEPT ![t] = "none"]
    /\ UNCHANGED <<status, verdict, queue, writer, wpc, busy, left, pages, heldVars,
                   crashes, excused>>

\* Mutant: no last look at the outcome under the lock.
TimeoutBlind(t) ==
    /\ pc[t] = "wait"
    /\ left' = left \cup {t}
    /\ Leave(t)
    /\ UNCHANGED <<status, verdict, queue, writer, wpc, busy, out, pages, heldVars,
                   applyVars, crashes, excused>>

\* The wait ends without an outcome: the verdicts are left to the worker.
Timeout(t) ==
    /\ pc[t] = "wait"
    /\ out[t] = "none"
    /\ left' = left \cup {t}
    /\ Leave(t)
    /\ UNCHANGED <<status, verdict, queue, writer, wpc, busy, out, pages, heldVars,
                   applyVars, crashes, excused>>

-----------------------------------------------------------------------------
(* The worker.                                                               *)

Take ==
    /\ writer = None
    /\ queue # <<>>
    /\ writer' = Head(queue)
    /\ queue' = Tail(queue)
    /\ wpc' = "write"
    /\ UNCHANGED <<status, verdict, pc, lock, busy, left, out, pages, heldVars,
                   applyVars, crashes, excused>>

Paged(t)  == \E c \in Candidates : <<c, t>> \in pages
Landed(t) == \A c \in Drafts(t) : <<c, t>> \in pages

WritePage ==
    /\ wpc = "write"
    /\ \E c \in Drafts(writer) :
        /\ <<c, writer>> \notin pages
        /\ pages' = pages \cup {<<c, writer>>}
    /\ UNCHANGED <<status, verdict, pc, lock, queue, writer, wpc, busy, left, out,
                   heldVars, applyVars, crashes, excused>>

\* The event of the batch is set.
Land(t) == busy' = IF busy = t THEN None ELSE busy

\* The batch fails; pages already there stay, and the next compile of their
\* candidates names its pages anew.
WriteFails ==
    /\ wpc = "write"
    /\ "Write" \in Faults
    /\ out' = [out EXCEPT ![writer] = "error"]
    /\ Land(writer)
    /\ writer' = None
    /\ wpc' = "idle"
    /\ excused' = excused \cup {t \in {writer} : Paged(t)}
    /\ UNCHANGED <<status, verdict, pc, lock, queue, left, pages, heldVars, applyVars, crashes>>

WriteEnds ==
    /\ wpc = "write"
    /\ Landed(writer)
    /\ out' = [out EXCEPT ![writer] = "written"]
    /\ wpc' = "landed"
    /\ UNCHANGED <<status, verdict, pc, lock, queue, writer, busy, left, pages,
                   heldVars, applyVars, crashes, excused>>

\* Under the lock: the waiter is still there, and the event is set ...
HandOver ==
    /\ wpc = "landed"
    /\ writer \notin left
    /\ Land(writer)
    /\ writer' = None
    /\ wpc' = "idle"
    /\ UNCHANGED <<status, verdict, pc, lock, queue, left, out, pages, heldVars,
                   applyVars, crashes, excused>>

\* ... or it has left, and the worker applies before the event is set.
TakeOver ==
    /\ wpc = "landed"
    /\ writer \in left
    /\ wpc' = "apply"
    /\ Begin(Worker, Deferred(writer))
    /\ UNCHANGED <<status, verdict, pc, lock, queue, writer, busy, left, out, pages,
                   heldVars, crashes, excused>>

WorkerStep ==
    /\ wpc = "apply"
    /\ ApplyOne(Worker, writer, FALSE)
    /\ UNCHANGED <<verdict, pc, lock, writerVars, heldVars, crashes, excused>>

\* Complete: nothing is held and the event is set.  Otherwise the verdicts are
\* held and the event stays unset.
WorkerEnd ==
    /\ wpc = "apply"
    /\ todo[Worker] = {}
    /\ IF Complete(Worker, writer)
       THEN sticky' = None /\ Store(None) /\ Land(writer)
       ELSE sticky' = writer /\ Store(writer) /\ UNCHANGED busy
    /\ writer' = None
    /\ wpc' = "idle"
    /\ left' = left \ {writer}
    /\ out' = [out EXCEPT ![writer] = "none"]
    /\ End(Worker)
    /\ UNCHANGED <<status, verdict, pc, lock, queue, pages, again, crashes, excused>>

-----------------------------------------------------------------------------
(* What happens around them.                                                 *)

\* An operator, or another caller, settles a candidate.
Resolve(c) ==
    /\ Proposed(c)
    /\ status' = [status EXCEPT ![c] = "closed"]
    /\ UNCHANGED <<verdict, pc, lock, writerVars, heldVars, applyVars, crashes, excused>>

\* The daemon dies and comes back with what the vault and the database hold.
\* Batches it had landed and not yet settled are lost unless they were stored.
Crash ==
    /\ "Crash" \in Faults
    /\ crashes < MaxCrashes
    /\ crashes' = crashes + 1
    /\ pc' = [t \in Compiles |-> IF pc[t] = "idle" THEN "idle" ELSE "done"]
    /\ lock' = None
    /\ queue' = <<>>
    /\ writer' = None
    /\ wpc' = "idle"
    /\ todo' = [a \in Actors |-> {}]
    /\ erred' = [a \in Actors |-> FALSE]
    /\ worked' = [a \in Actors |-> FALSE]
    /\ busy' = None
    /\ left' = {}
    /\ out' = [t \in Compiles |-> "none"]
    /\ again' = None
    /\ sticky' = None
    /\ verdict' = [t \in Compiles |-> IF t = stored \/ Paged(t) THEN verdict[t] ELSE Nothing]
    /\ excused' = excused \cup {t \in Compiles \ {stored} : Paged(t)}
    /\ UNCHANGED <<status, pages, stored>>

Next ==
    \/ \E t \in Compiles :
        \/ Select(t) \/ Busy(t) \/ GateRefused(t) \/ NoDrafts(t) \/ Submit(t)
        \/ DirectStep(t) \/ DirectEnd(t)
        \/ ReapplyStep(t) \/ ReapplyFailed(t) \/ ReapplyDone(t)
        \/ Receive(t) \/ Timeout(t)
    \/ Take \/ WritePage \/ WriteFails \/ WriteEnds \/ HandOver \/ TakeOver
    \/ WorkerStep \/ WorkerEnd
    \/ \E c \in Candidates : Resolve(c)
    \/ Crash

Spec == Init /\ [][Next]_vars

-----------------------------------------------------------------------------
(* Properties.                                                               *)

\* The types of the variables.
TypeOK ==
    /\ status \in [Candidates -> {"open", "fenced", "closed"}]
    /\ verdict \in [Compiles -> [Candidates -> Verdicts]]
    /\ pc \in [Compiles -> {"idle", "picked", "reapply", "wait", "apply", "done"}]
    /\ lock \in Compiles \cup {None}
    /\ queue \in Seq(Compiles)
    /\ writer \in Compiles \cup {None}
    /\ wpc \in {"idle", "write", "landed", "apply"}
    /\ todo \in [Actors -> SUBSET Candidates]
    /\ erred \in [Actors -> BOOLEAN]
    /\ worked \in [Actors -> BOOLEAN]
    /\ busy \in Compiles \cup {None}
    /\ left \subseteq Compiles
    /\ out \in [Compiles -> {"none", "written", "error"}]
    /\ pages \subseteq Candidates \X Compiles
    /\ again \in Compiles \cup {None}
    /\ sticky \in Compiles \cup {None}
    /\ stored \in Compiles \cup {None}
    /\ crashes \in Nat
    /\ excused \subseteq Compiles

\* No verdict is applied, or held to be applied, before every draft that explains
\* the batch to an operator is on disk (handle_daemon_compile does not apply a
\* refused or timed out batch, the worker applies after _write_batch).  And
\* a batch that landed and whose reviews are still open is in exactly one hand:
\* its waiter, the worker, or the hold, in memory or in the vault (submit_drafts'
\* last look under the lock, _maybe_apply_deferred_lifecycle, hydration).
DecisionHasOneOwner ==
    /\ \A t \in Compiles :
           pc[t] = "apply" \/ (writer = t /\ wpc = "apply") \/ sticky = t \/ stored = t
           => Landed(t)
    /\ \A t \in Compiles \ excused :
           Drafts(t) # {} /\ Landed(t) /\ Remaining(t, Drafts(t)) # {}
           => Cardinality({h \in {"waiter", "worker", "hold"} :
                  \/ h = "waiter" /\ pc[t] \in {"wait", "apply"}
                  \/ h = "worker" /\ writer = t /\ t \in left
                  \/ h = "hold" /\ Hydrated = t}) = 1

\* A candidate gets a second set of drafts only if a batch was excused: submitted
\* with a selection no longer open, lost by a death before it was held, broken
\* off between two pages, or not wholly applied by its own compile (_IN_FLIGHT_PER_PASS,
\* the sticky hold and its vault copy are there to prevent it).
NoSecondDraft ==
    \A c \in Candidates, t, u \in Compiles \ excused :
        <<c, t>> \in pages /\ <<c, u>> \in pages => t = u
=============================================================================
