--------------------------- MODULE AfmWriterProofs ---------------------------
(* Theorems about AfmWriter, for any candidates and compiles and any number of *)
(* restarts.                                                                   *)
EXTENDS AfmWriter, FiniteSetTheorems, SequenceTheorems, TLAPS

\* What an application has left to do keeps its type.
ApplyType == /\ todo \in [Actors -> SUBSET Candidates]
             /\ erred \in [Actors -> BOOLEAN]
             /\ worked \in [Actors -> BOOLEAN]

\* The worker is idle when it has no batch.
WorkInv == wpc = "idle" <=> writer = None

LEMMA BeginType ==
    ASSUME TypeOK, NEW a \in Actors, NEW ids \in SUBSET Candidates, Begin(a, ids)
    PROVE  ApplyType'
BY DEF TypeOK, Begin, ApplyType

LEMMA EndType ==
    ASSUME TypeOK, NEW a \in Actors, End(a)
    PROVE  ApplyType'
<1>1. Begin(a, {})
  BY DEF End
<1> QED
  BY <1>1, BeginType

LEMMA StillType ==
    ASSUME TypeOK, UNCHANGED applyVars
    PROVE  ApplyType'
BY DEF TypeOK, applyVars, ApplyType

LEMMA ApplyOneType ==
    ASSUME TypeOK, NEW a \in Actors, NEW t, NEW whole \in BOOLEAN, ApplyOne(a, t, whole)
    PROVE  ApplyType' /\ (status \in [Candidates -> {"open", "fenced", "closed"}])'
<1>1. PICK c \in todo[a] :
        /\ todo' = [todo EXCEPT ![a] = @ \ {c}]
        /\ \/ status' = [status EXCEPT ![c] = "fenced"]
           \/ status' = [status EXCEPT ![c] = "closed"]
           \/ UNCHANGED status
        /\ \/ worked' = [worked EXCEPT ![a] = @ \/ ~Wordless(t, c, whole)]
           \/ UNCHANGED worked
        /\ \/ erred' = [erred EXCEPT ![a] = TRUE]
           \/ UNCHANGED erred
  BY DEF ApplyOne
<1>2. todo' \in [Actors -> SUBSET Candidates] /\ erred' \in [Actors -> BOOLEAN]
  BY <1>1 DEF TypeOK
<1>3. Wordless(t, c, whole) \in BOOLEAN
  BY DEF Wordless
<1>4. worked' \in [Actors -> BOOLEAN]
  BY <1>1, <1>3 DEF TypeOK
<1>5. status' \in [Candidates -> {"open", "fenced", "closed"}]
  BY <1>1 DEF TypeOK
<1> QED
  BY <1>2, <1>4, <1>5 DEF ApplyType

\* A compile's own steps keep the types.
LEMMA CompileType ==
    ASSUME TypeOK, NEW t \in Compiles,
           \/ Select(t) \/ Busy(t) \/ GateRefused(t) \/ NoDrafts(t) \/ Submit(t)
           \/ DirectStep(t) \/ DirectEnd(t) \/ ReapplyStep(t) \/ ReapplyFailed(t) \/ ReapplyDone(t)
           \/ Receive(t) \/ Timeout(t)
    PROVE  TypeOK'
<1>1. t \in Actors
  BY DEF Actors
<1>2. Nothing \in [Candidates -> Verdicts]
  BY DEF Nothing, Verdicts
<1>3. \A u : Whole(u) \subseteq Candidates /\ Deferred(u) \subseteq Candidates
  BY DEF Whole, Deferred, Of
<1>4. Hydrated \in Compiles \cup {None}
  BY DEF Hydrated, TypeOK
<1>5. Stale(t) \subseteq Compiles
  BY DEF Stale
<1>6. ASSUME NEW a, NEW b, a \in Compiles \cup {None}, b \in Compiles \cup {None}
      PROVE  Dropped({a, b}) \subseteq Compiles /\ Dropped({a}) \subseteq Compiles
  BY <1>6 DEF Dropped
<1>7. CASE Select(t)
  BY <1>7 DEF Select, TypeOK, writerVars, heldVars, applyVars
<1>8. CASE Busy(t) \/ GateRefused(t) \/ Timeout(t)
  BY <1>8 DEF Busy, GateRefused, Timeout, Leave, TypeOK, writerVars, heldVars, applyVars
<1>9. CASE NoDrafts(t)
  <2>1. ApplyType'
    BY <1>1, <1>3, <1>9, BeginType, StillType DEF NoDrafts
  <2> QED
    BY <1>2, <1>9, <2>1 DEF NoDrafts, Leave, Forget, ApplyType, TypeOK, writerVars, heldVars
<1>10. CASE Submit(t)
  <2>1. ApplyType'
    BY <1>1, <1>3, <1>10, BeginType, StillType DEF Submit
  <2>2. /\ pc' \in [Compiles -> {"idle", "picked", "reapply", "wait", "apply", "done"}]
        /\ verdict' \in [Compiles -> [Candidates -> Verdicts]]
    BY <1>2, <1>10 DEF Submit, Leave, Forget, Enqueue, TypeOK
  <2>3. /\ queue' \in Seq(Compiles) /\ busy' \in Compiles \cup {None}
        /\ lock' \in Compiles \cup {None} /\ excused' \subseteq Compiles
    <3>1. queue' = queue \/ queue' = Append(queue, t)
      BY <1>10 DEF Submit, Enqueue
    <3>2. queue' \in Seq(Compiles)
      <4>1. queue \in Seq(Compiles)
        BY DEF TypeOK
      <4>2. Append(queue, t) \in Seq(Compiles)
        BY <4>1
      <4> QED
        BY <3>1, <4>1, <4>2
    <3>3. excused' = excused \/ excused' = excused \cup Stale(t)
      BY <1>10 DEF Submit
    <3>4. (busy' = busy \/ busy' = t) /\ (lock' = lock \/ lock' = None)
      BY <1>10 DEF Submit, Enqueue, Leave
    <3> QED
      BY <1>5, <3>2, <3>3, <3>4 DEF TypeOK
  <2>4. sticky' \in Compiles \cup {None} /\ again' \in Compiles \cup {None}
    BY <1>4, <1>10 DEF Submit, TypeOK
  <2>5. UNCHANGED <<status, writer, wpc, left, out, pages, stored, crashes>>
    BY <1>10 DEF Submit
  <2> QED
    BY <2>1, <2>2, <2>3, <2>4, <2>5 DEF ApplyType, TypeOK
<1>11. CASE DirectStep(t)
  <2>1. ApplyType' /\ (status \in [Candidates -> {"open", "fenced", "closed"}])'
    BY <1>1, <1>11, ApplyOneType DEF DirectStep
  <2> QED
    BY <1>11, <2>1 DEF DirectStep, ApplyType, TypeOK, writerVars, heldVars
<1>12. CASE DirectEnd(t)
  <2>1. ApplyType'
    BY <1>1, <1>12, EndType DEF DirectEnd
  <2> QED
    BY <1>2, <1>12, <2>1 DEF DirectEnd, Leave, Forget, ApplyType, TypeOK, writerVars, heldVars
<1>13. CASE ReapplyStep(t)
  <2>1. ApplyType' /\ (status \in [Candidates -> {"open", "fenced", "closed"}])'
    BY <1>1, <1>13, ApplyOneType DEF ReapplyStep
  <2> QED
    BY <1>13, <2>1 DEF ReapplyStep, ApplyType, TypeOK, writerVars, heldVars
<1>14. CASE ReapplyFailed(t)
  <2>1. ApplyType'
    BY <1>1, <1>14, EndType DEF ReapplyFailed
  <2>2. Dropped({sticky}) \subseteq Compiles
    BY <1>6 DEF TypeOK
  <2> QED
    BY <1>2, <1>14, <2>1, <2>2 DEF ReapplyFailed, Leave, Forget, Store, ApplyType, TypeOK, writerVars
<1>15. CASE ReapplyDone(t)
  <2>1. ApplyType'
    BY <1>1, <1>15, EndType DEF ReapplyDone
  <2>2. Dropped({sticky, busy}) \subseteq Compiles
    BY <1>6 DEF TypeOK
  <2>3. /\ pc' \in [Compiles -> {"idle", "picked", "reapply", "wait", "apply", "done"}]
        /\ verdict' \in [Compiles -> [Candidates -> Verdicts]]
    BY <1>2, <1>15 DEF ReapplyDone, Leave, Forget, Enqueue, TypeOK
  <2>4. /\ queue' \in Seq(Compiles) /\ busy' \in Compiles \cup {None}
        /\ lock' \in Compiles \cup {None} /\ excused' \subseteq Compiles
    <3>1. queue' = queue \/ queue' = Append(queue, t)
      BY <1>15 DEF ReapplyDone, Enqueue
    <3>2. queue' \in Seq(Compiles)
      <4>1. queue \in Seq(Compiles)
        BY DEF TypeOK
      <4>2. Append(queue, t) \in Seq(Compiles)
        BY <4>1
      <4> QED
        BY <3>1, <4>1, <4>2
    <3>3. \/ excused' = excused \cup Dropped({sticky, busy})
          \/ excused' = excused \cup Stale(t) \cup Dropped({sticky, busy})
      BY <1>15 DEF ReapplyDone
    <3>4. (busy' = None \/ busy' = t) /\ (lock' = lock \/ lock' = None)
      BY <1>15 DEF ReapplyDone, Enqueue, Leave
    <3> QED
      BY <1>5, <2>2, <3>2, <3>3, <3>4 DEF TypeOK
  <2>5. sticky' = None /\ again' = None /\ stored' \in Compiles \cup {None}
    BY <1>15 DEF ReapplyDone, Store, TypeOK
  <2>6. UNCHANGED <<status, writer, wpc, left, out, pages, crashes>>
    BY <1>15 DEF ReapplyDone
  <2> QED
    BY <2>1, <2>3, <2>4, <2>5, <2>6 DEF ApplyType, TypeOK
<1>16. CASE Receive(t)
  <2>1. ApplyType'
    BY <1>1, <1>3, <1>16, BeginType, StillType DEF Receive
  <2> QED
    BY <1>16, <2>1 DEF Receive, Leave, ApplyType, TypeOK, heldVars
<1> QED
  BY <1>7, <1>8, <1>9, <1>10, <1>11, <1>12, <1>13, <1>14, <1>15, <1>16


\* So do the worker's, and what happens around them.
LEMMA WorkerType ==
    ASSUME TypeOK, WorkInv,
           Take \/ WritePage \/ WriteFails \/ WriteEnds \/ HandOver \/ TakeOver \/ WorkerStep \/ WorkerEnd
    PROVE  TypeOK'
<1>1. Worker \in Actors
  BY DEF Actors
<1>2. \A u : Deferred(u) \subseteq Candidates
  BY DEF Deferred, Of
<1>3. CASE Take
  <2>1. queue # <<>> /\ queue \in Seq(Compiles)
    BY <1>3 DEF Take, TypeOK
  <2>2. Head(queue) \in Compiles /\ Tail(queue) \in Seq(Compiles)
    BY <2>1
  <2> QED
    BY <1>3, <2>2 DEF Take, TypeOK, heldVars, applyVars
<1>4. CASE WritePage \/ WriteEnds \/ HandOver
  <2>1. WritePage => pages' \subseteq Candidates \X Compiles
    <3> SUFFICES ASSUME WritePage PROVE pages' \subseteq Candidates \X Compiles
      OBVIOUS
    <3>1. PICK c \in Drafts(writer) : pages' = pages \cup {<<c, writer>>} /\ c \in Candidates
      BY DEF WritePage, Drafts, Of
    <3>2. wpc = "write"
      BY DEF WritePage
    <3> QED
      BY <3>1, <3>2 DEF TypeOK, WorkInv
  <2> QED
    BY <1>4, <2>1 DEF WritePage, WriteEnds, HandOver, Land, TypeOK, heldVars, applyVars
<1>5. CASE WriteFails
  <2>1. excused' \subseteq Compiles
    <3>1. excused' = excused \cup {t \in {writer} : Paged(t)} /\ writer # None
      BY <1>5 DEF WriteFails, WorkInv
    <3> QED
      BY <3>1 DEF TypeOK
  <2> QED
    BY <1>5, <2>1 DEF WriteFails, Land, TypeOK, heldVars, applyVars
<1>6. CASE TakeOver
  <2>1. ApplyType'
    BY <1>1, <1>2, <1>6, BeginType DEF TakeOver
  <2> QED
    BY <1>6, <2>1 DEF TakeOver, ApplyType, TypeOK, heldVars
<1>7. CASE WorkerStep
  <2>1. ApplyType' /\ (status \in [Candidates -> {"open", "fenced", "closed"}])'
    BY <1>1, <1>7, ApplyOneType DEF WorkerStep
  <2> QED
    BY <1>7, <2>1 DEF WorkerStep, ApplyType, TypeOK, writerVars, heldVars
<1>8. CASE WorkerEnd
  <2>1. ApplyType'
    BY <1>1, <1>8, EndType DEF WorkerEnd
  <2> QED
    BY <1>8, <2>1 DEF WorkerEnd, Land, Store, ApplyType, TypeOK
<1> QED
  BY <1>3, <1>4, <1>5, <1>6, <1>7, <1>8

LEMMA AroundType ==
    ASSUME TypeOK, (\E c \in Candidates : Resolve(c)) \/ Crash \/ UNCHANGED vars
    PROVE  TypeOK'
<1>1. Nothing \in [Candidates -> Verdicts]
  BY DEF Nothing, Verdicts
<1>2. CASE \E c \in Candidates : Resolve(c)
  BY <1>2 DEF Resolve, TypeOK, writerVars, heldVars, applyVars
<1>3. CASE Crash
  <2>1. verdict' \in [Compiles -> [Candidates -> Verdicts]]
    BY <1>1, <1>3 DEF Crash, TypeOK
  <2>2. pc' \in [Compiles -> {"idle", "picked", "reapply", "wait", "apply", "done"}]
    BY <1>3 DEF Crash
  <2>3. /\ todo' \in [Actors -> SUBSET Candidates] /\ erred' \in [Actors -> BOOLEAN]
        /\ worked' \in [Actors -> BOOLEAN] /\ out' \in [Compiles -> {"none", "written", "error"}]
    BY <1>3 DEF Crash
  <2>4. excused' \subseteq Compiles /\ left' \subseteq Compiles /\ queue' \in Seq(Compiles) /\ crashes' \in Nat
    BY <1>3 DEF Crash, TypeOK
  <2>5. /\ lock' = None /\ writer' = None /\ busy' = None /\ again' = None /\ sticky' = None /\ wpc' = "idle"
        /\ UNCHANGED <<status, pages, stored>>
    BY <1>3 DEF Crash
  <2> QED
    BY <2>1, <2>2, <2>3, <2>4, <2>5 DEF TypeOK
<1>4. CASE UNCHANGED vars
  BY <1>4 DEF TypeOK, vars
<1> QED
  BY <1>2, <1>3, <1>4

LEMMA WorkStep ==
    ASSUME TypeOK, WorkInv, [Next]_vars
    PROVE  WorkInv'
<1>1. CASE UNCHANGED <<writer, wpc>>
  BY <1>1 DEF WorkInv
<1>2. CASE Take
  <2>1. writer' = Head(queue) /\ wpc' = "write" /\ queue # <<>> /\ queue \in Seq(Compiles)
    BY <1>2 DEF Take, TypeOK
  <2>2. writer' \in Compiles
    BY <2>1
  <2> QED
    BY <2>1, <2>2, AfmWriterAssumption DEF WorkInv
<1>3. CASE WriteFails \/ WriteEnds \/ HandOver \/ TakeOver \/ WorkerEnd \/ Crash
  BY <1>3 DEF WorkInv, WriteFails, WriteEnds, HandOver, TakeOver, WorkerEnd, Crash
<1>4. \/ UNCHANGED <<writer, wpc>> \/ Take
      \/ WriteFails \/ WriteEnds \/ HandOver \/ TakeOver \/ WorkerEnd \/ Crash
  BY DEF Next, Select, Busy, GateRefused, NoDrafts, Submit, DirectStep, DirectEnd, ReapplyStep, ReapplyFailed,
     ReapplyDone, Receive, Timeout, WritePage, WorkerStep, Resolve, vars, writerVars
<1> QED
  BY <1>1, <1>2, <1>3, <1>4

LEMMA TypeStep == TypeOK /\ WorkInv /\ [Next]_vars => TypeOK' /\ WorkInv'
<1> SUFFICES ASSUME TypeOK, WorkInv, [Next]_vars PROVE TypeOK'
  BY WorkStep
<1>1. ASSUME NEW t \in Compiles,
             \/ Select(t) \/ Busy(t) \/ GateRefused(t) \/ NoDrafts(t) \/ Submit(t)
             \/ DirectStep(t) \/ DirectEnd(t) \/ ReapplyStep(t) \/ ReapplyFailed(t) \/ ReapplyDone(t)
             \/ Receive(t) \/ Timeout(t)
      PROVE  TypeOK'
  BY <1>1, CompileType
<1>2. ASSUME Take \/ WritePage \/ WriteFails \/ WriteEnds \/ HandOver \/ TakeOver \/ WorkerStep \/ WorkerEnd
      PROVE  TypeOK'
  BY <1>2, WorkerType
<1>3. ASSUME (\E c \in Candidates : Resolve(c)) \/ Crash \/ UNCHANGED vars PROVE TypeOK'
  BY <1>3, AroundType
<1> QED
  BY Zenon, <1>1, <1>2, <1>3 DEF Next

LEMMA InitType == Init => TypeOK /\ WorkInv
<1> SUFFICES ASSUME Init PROVE TypeOK
  BY DEF Init, WorkInv
<1>1. Nothing \in [Candidates -> Verdicts]
  BY DEF Nothing, Verdicts
<1> QED
  BY <1>1, AfmWriterAssumption DEF Init, TypeOK

\* Batches, verdicts and holds keep their types.
THEOREM AfmTypeCorrect == Spec => []TypeOK
<1> QED
  BY InitType, TypeStep, PTL DEF Spec

-----------------------------------------------------------------------------
\* The batches the worker has, at hand or in its queue.
Queued(t)   == \E i \in 1 .. Len(queue) : queue[i] = t
InFlight(t) == writer = t \/ Queued(t)

\* The batches held, or taken up from the hold.
Held(t) == t \in {sticky, stored, again}

\* A batch whose reviews are still to be made, and no exception.
Settled(t) == \A c \in Drafts(t) : ~Open(c)
Live(t)    == t \notin excused /\ ~Settled(t)

\* A batch is queued once, and behind one that is no exception there is nothing.
QueueInv ==
    /\ \A i, j \in 1 .. Len(queue) : i # j => queue[i] # queue[j]
    /\ \A i \in 1 .. Len(queue) : queue[i] # writer /\ (queue[i] \notin excused => i = Len(queue))
    /\ writer # None /\ writer \notin excused => queue = <<>>

\* Where a compile stands says where its batch is.
LockInv(t) ==
    /\ pc[t] \in {"picked", "reapply", "wait", "apply"} => lock = t
    /\ pc[t] = "reapply" => again # None
FreshInv(t) ==
    pc[t] \in {"idle", "picked", "reapply"} =>
        ~InFlight(t) /\ ~Held(t) /\ out[t] = "none" /\ t \notin left /\ ~Paged(t)
GoneInv(t) ==
    /\ t \in left => pc[t] = "done"
    /\ Held(t) => pc[t] = "done" /\ ~InFlight(t)
WaitInv(t) ==
    /\ Queued(t) \/ (writer = t /\ wpc = "write") => out[t] = "none" /\ (pc[t] = "wait" \/ t \in left)
    /\ writer = t /\ wpc = "landed" /\ pc[t] = "wait" => out[t] = "written"
    /\ writer = t /\ wpc = "apply" => t \in left
    /\ pc[t] = "wait" /\ out[t] = "none" => InFlight(t)

\* Which pages are there, and that none is missing where one acts on them.
PageInv(t) ==
    /\ \A c \in Candidates : <<c, t>> \in pages => c \in Drafts(t)
    /\ Queued(t) => ~Paged(t)
    /\ Paged(t) /\ t \notin excused => Landed(t) \/ (writer = t /\ wpc = "write")
LandInv(t) ==
    /\ pc[t] = "apply" \/ out[t] = "written" \/ Held(t) => Landed(t)
    /\ writer = t /\ wpc \in {"landed", "apply"} => Landed(t)
    /\ out[t] = "error" => ~InFlight(t) /\ (t \in excused \/ ~Paged(t))

\* One batch at a time is in flight or held.
FlightInv(t) == InFlight(t) /\ t \notin excused => busy = t
HoldInv(t) ==
    Live(t) =>
        /\ Hydrated = t => \A u \in Compiles : ~InFlight(u)
        /\ t \in {again, stored} => Hydrated = t
        /\ stored = t /\ again \notin {None, t} => sticky = t

OwnInv(t) ==
    Live(t) /\ Landed(t) => \/ pc[t] \in {"wait", "apply"}
                            \/ writer = t /\ t \in left
                            \/ Hydrated = t

\* Two batches that are no exceptions have no draft of the same candidate.
Claims(t, c) == c \in Drafts(t) /\ (InFlight(t) \/ <<c, t>> \in pages)
ClaimInv == \A c \in Candidates : \A t, u \in Compiles \ excused : Claims(t, c) /\ Claims(u, c) => t = u

BatchInv(t) == /\ LockInv(t) /\ FreshInv(t) /\ GoneInv(t) /\ WaitInv(t)
               /\ PageInv(t) /\ LandInv(t) /\ FlightInv(t) /\ HoldInv(t) /\ OwnInv(t)

Rest == QueueInv /\ ClaimInv /\ \A t \in Compiles : BatchInv(t)
IInv == TypeOK /\ WorkInv /\ Rest

\* What a step leaves of the batch of u: its drafts, and its pages; what is
\* settled stays so.
SameBatch(u) ==
    /\ Drafts(u)' = Drafts(u)
    /\ Paged(u)' <=> Paged(u)
    /\ Landed(u)' <=> Landed(u)
    /\ Live(u)' => Live(u)
    /\ \A c \in Candidates : <<c, u>> \in pages' <=> <<c, u>> \in pages

\* No candidate is opened again, and an exception stays one.
Onward == /\ \A c \in Candidates : status'[c] = "open" => status[c] = "open"
          /\ excused \subseteq excused'

LEMMA Batches ==
    ASSUME Onward, NEW u, verdict'[u] = verdict[u],
           \A c \in Candidates : <<c, u>> \in pages' <=> <<c, u>> \in pages
    PROVE  SameBatch(u)
<1>1. Drafts(u)' = Drafts(u)
  BY DEF Drafts, Of
<1>2. Drafts(u) \subseteq Candidates
  BY DEF Drafts, Of
<1>3. Paged(u)' <=> Paged(u)
  BY DEF Paged
<1>4. Landed(u)' <=> Landed(u)
  BY <1>1, <1>2 DEF Landed
<1>5. Live(u)' => Live(u)
  BY <1>1, <1>2 DEF Live, Settled, Open, Onward
<1> QED
  BY <1>1, <1>3, <1>4, <1>5 DEF SameBatch

\* Nothing moves between queue and worker.
LEMMA QueueStill ==
    ASSUME QueueInv, UNCHANGED <<queue, writer>>, excused \subseteq excused'
    PROVE  QueueInv' /\ \A u : (Queued(u)' <=> Queued(u)) /\ (InFlight(u)' <=> InFlight(u))
<1>1. QueueInv'
  BY DEF QueueInv
<1>2. \A u : (Queued(u)' <=> Queued(u)) /\ (InFlight(u)' <=> InFlight(u))
  BY DEF Queued, InFlight
<1> QED
  BY <1>1, <1>2

\* Nobody claims what he did not.
LEMMA ClaimStill ==
    ASSUME ClaimInv, excused \subseteq excused',
           \A u \in Compiles \ excused' : \A c \in Candidates : Claims(u, c)' => Claims(u, c)
    PROVE  ClaimInv'
BY DEF ClaimInv

LEMMA ClaimSame ==
    ASSUME ClaimInv, excused \subseteq excused', UNCHANGED <<queue, writer>>,
           \A u \in Compiles : SameBatch(u) \/ Drafts(u)' = {}
    PROVE  ClaimInv'
<1>1. ASSUME NEW u \in Compiles, NEW c \in Candidates, Claims(u, c)' PROVE Claims(u, c)
  BY <1>1 DEF Claims, SameBatch, InFlight, Queued
<1> QED
  BY <1>1, ClaimStill

\* Candidates change, and nothing else.
LEMMA StatusStep ==
    ASSUME IInv, Onward, UNCHANGED <<verdict, pc, lock, writerVars, heldVars, excused>>
    PROVE  Rest'
<1>1. UNCHANGED <<queue, writer, wpc, busy, left, out, pages, again, sticky, stored>>
  BY DEF writerVars, heldVars
<1>2. \A u \in Compiles : SameBatch(u)
  BY <1>1, Batches
<1>3. QueueInv' /\ \A u : (Queued(u)' <=> Queued(u)) /\ (InFlight(u)' <=> InFlight(u))
  BY <1>1, QueueStill DEF IInv, Rest
<1>4. ClaimInv'
  BY <1>1, <1>2, ClaimSame DEF IInv, Rest, Onward
<1>5. ASSUME NEW u \in Compiles PROVE BatchInv(u)'
  <2>1. BatchInv(u) /\ SameBatch(u)
    BY <1>2 DEF IInv, Rest
  <2>2. (Held(u)' <=> Held(u)) /\ Hydrated' = Hydrated
    BY <1>1 DEF Held, Hydrated
  <2>3. LockInv(u)' /\ FreshInv(u)' /\ GoneInv(u)' /\ WaitInv(u)'
    BY <1>1, <1>3, <2>1, <2>2 DEF BatchInv, SameBatch, LockInv, FreshInv, GoneInv, WaitInv
  <2>4. PageInv(u)' /\ LandInv(u)' /\ FlightInv(u)'
    BY <1>1, <1>3, <2>1, <2>2 DEF BatchInv, SameBatch, PageInv, LandInv, FlightInv
  <2>5. HoldInv(u)' /\ OwnInv(u)'
    BY <1>1, <1>3, <2>1, <2>2 DEF BatchInv, SameBatch, HoldInv, OwnInv
  <2> QED
    BY <2>3, <2>4, <2>5 DEF BatchInv
<1> QED
  BY <1>3, <1>4, <1>5 DEF Rest

\* Of a batch that is to be reviewed and has landed there are pages.
LEMMA LandedPaged ==
    ASSUME NEW t
    PROVE  /\ Live(t) /\ Landed(t) => Paged(t)
           /\ Live(t)' /\ Landed(t)' => Paged(t)'
BY DEF Live, Settled, Landed, Paged, Drafts, Of

\* A compile moves, and what it leaves to the others.
LEMMA CompileMoves ==
    ASSUME IInv, Onward, NEW t \in Compiles,
           UNCHANGED <<queue, writer, wpc, busy, pages, again, sticky, stored>>,
           \A u \in Compiles \ {t} : /\ verdict'[u] = verdict[u] /\ pc'[u] = pc[u] /\ out'[u] = out[u]
                                     /\ u \in left' <=> u \in left,
           lock' = lock \/ lock \in {t, None},
           SameBatch(t) \/ Drafts(t)' = {} \/ (~InFlight(t) /\ ~Paged(t)),
           BatchInv(t)'
    PROVE  Rest'
<1>1. \A u \in Compiles \ {t} : SameBatch(u)
  BY Batches
<1>2. QueueInv' /\ \A u : (Queued(u)' <=> Queued(u)) /\ (InFlight(u)' <=> InFlight(u))
  BY QueueStill DEF IInv, Rest, Onward
<1>3. ClaimInv'
  <2>1. ASSUME NEW c \in Candidates, Claims(t, c)' PROVE Claims(t, c)
    BY <1>2, <2>1 DEF Claims, SameBatch, Paged
  <2>2. ASSUME NEW u \in Compiles, NEW c \in Candidates, u # t, Claims(u, c)' PROVE Claims(u, c)
    BY <1>1, <1>2, <2>2 DEF Claims, SameBatch
  <2> QED
    BY <2>1, <2>2, ClaimStill DEF IInv, Rest, Onward
<1>4. ASSUME NEW u \in Compiles \ {t} PROVE BatchInv(u)'
  <2>1. BatchInv(u) /\ SameBatch(u) /\ u # None /\ u # t
    BY <1>1, AfmWriterAssumption DEF IInv, Rest
  <2>2. (Held(u)' <=> Held(u)) /\ Hydrated' = Hydrated
    BY DEF Held, Hydrated
  <2>3. LockInv(u)' /\ FreshInv(u)' /\ GoneInv(u)' /\ WaitInv(u)'
    BY <1>2, <2>1, <2>2 DEF BatchInv, SameBatch, LockInv, FreshInv, GoneInv, WaitInv
  <2>4. PageInv(u)' /\ LandInv(u)' /\ FlightInv(u)'
    BY <1>2, <2>1, <2>2 DEF BatchInv, SameBatch, PageInv, LandInv, FlightInv, Onward
  <2>5. HoldInv(u)' /\ OwnInv(u)'
    BY <1>2, <2>1, <2>2 DEF BatchInv, SameBatch, HoldInv, OwnInv
  <2> QED
    BY <2>3, <2>4, <2>5 DEF BatchInv
<1> QED
  BY <1>2, <1>3, <1>4 DEF Rest

\* A compile whose batch is nowhere yet selects it or gives it up.
LEMMA FreshMoves ==
    ASSUME IInv, Onward, NEW t \in Compiles, pc[t] \in {"idle", "picked", "reapply"},
           UNCHANGED <<writerVars, heldVars>>,
           \A u \in Compiles \ {t} : verdict'[u] = verdict[u] /\ pc'[u] = pc[u],
           lock' = lock \/ lock \in {t, None},
           \/ pc'[t] = "done"
           \/ pc'[t] = "picked" /\ lock' = t
           \/ pc'[t] = "apply" /\ lock' = t /\ Drafts(t)' = {}
    PROVE  Rest'
<1>1. UNCHANGED <<queue, writer, wpc, busy, left, out, pages, again, sticky, stored>>
  BY DEF writerVars, heldVars
<1>2. /\ ~InFlight(t) /\ ~Held(t) /\ out[t] = "none" /\ t \notin left /\ ~Paged(t)
  BY DEF IInv, Rest, BatchInv, FreshInv
<1>3. QueueInv' /\ \A u : (Queued(u)' <=> Queued(u)) /\ (InFlight(u)' <=> InFlight(u))
  BY <1>1, QueueStill DEF IInv, Rest, Onward
<1>4. ~InFlight(t)' /\ ~Queued(t)' /\ writer' # t
  BY <1>1, <1>2, <1>3 DEF InFlight
<1>5. ~Paged(t)' /\ \A c \in Candidates : <<c, t>> \notin pages'
  BY <1>1, <1>2 DEF Paged
<1>6. ~Held(t)' /\ Hydrated' # t /\ again' # t /\ stored' # t
  BY <1>1, <1>2 DEF Held, Hydrated
<1>7. Drafts(t)' = {} => Landed(t)'
  BY DEF Landed
<1>8. out'[t] = "none" /\ t \notin left'
  BY <1>1, <1>2
<1>9. BatchInv(t)'
  <2>1. LockInv(t)' /\ FreshInv(t)' /\ GoneInv(t)' /\ WaitInv(t)'
    BY <1>4, <1>5, <1>6, <1>8 DEF LockInv, FreshInv, GoneInv, WaitInv
  <2>2. PageInv(t)' /\ LandInv(t)' /\ FlightInv(t)' /\ HoldInv(t)'
    BY <1>4, <1>5, <1>6, <1>7, <1>8 DEF PageInv, LandInv, FlightInv, HoldInv
  <2>3. OwnInv(t)'
    BY <1>5, LandedPaged DEF OwnInv
  <2> QED
    BY <2>1, <2>2, <2>3 DEF BatchInv
<1> QED
  BY <1>1, <1>2, <1>9, CompileMoves

\* The hold moves, by a compile whose batch is nowhere yet.
LEMMA HoldMoves ==
    ASSUME IInv, Onward, NEW t \in Compiles, pc[t] \in {"picked", "reapply"},
           UNCHANGED <<queue, writer, wpc, left, out, pages>>,
           \A u \in Compiles \ {t} : verdict'[u] = verdict[u] /\ pc'[u] = pc[u],
           \/ pc'[t] = "done"
           \/ pc'[t] = "reapply" /\ lock' = t /\ again' # None,
           \A u \in Compiles : Held(u)' => Held(u),
           \A u \in Compiles : HoldInv(u)' /\ FlightInv(u)',
           \A u \in Compiles \ {t} : OwnInv(u)'
    PROVE  Rest'
<1>1. /\ ~InFlight(t) /\ ~Held(t) /\ out[t] = "none" /\ t \notin left /\ ~Paged(t) /\ lock = t
  BY DEF IInv, Rest, BatchInv, FreshInv, LockInv
<1>2. QueueInv' /\ \A u : (Queued(u)' <=> Queued(u)) /\ (InFlight(u)' <=> InFlight(u))
  BY QueueStill DEF IInv, Rest, Onward
<1>3. \A u \in Compiles \ {t} : SameBatch(u)
  BY Batches
<1>4. ~Paged(t)' /\ \A c \in Candidates : <<c, t>> \notin pages'
  BY <1>1 DEF Paged
<1>5. ClaimInv'
  <2>1. ASSUME NEW c \in Candidates, Claims(t, c)' PROVE Claims(t, c)
    BY <1>1, <1>2, <1>4, <2>1 DEF Claims
  <2>2. ASSUME NEW u \in Compiles, NEW c \in Candidates, u # t, Claims(u, c)' PROVE Claims(u, c)
    BY <1>2, <1>3, <2>2 DEF Claims, SameBatch
  <2> QED
    BY <2>1, <2>2, ClaimStill DEF IInv, Rest, Onward
<1>6. BatchInv(t)'
  <2>1. ~InFlight(t)' /\ ~Queued(t)' /\ writer' # t /\ ~Held(t)' /\ out'[t] = "none" /\ t \notin left'
    BY <1>1, <1>2 DEF InFlight
  <2>2. LockInv(t)' /\ FreshInv(t)' /\ GoneInv(t)' /\ WaitInv(t)'
    BY <1>4, <2>1 DEF LockInv, FreshInv, GoneInv, WaitInv
  <2>3. PageInv(t)' /\ LandInv(t)'
    BY <1>4, <2>1 DEF PageInv, LandInv
  <2>4. OwnInv(t)'
    BY <1>4, LandedPaged DEF OwnInv
  <2> QED
    BY <2>2, <2>3, <2>4 DEF BatchInv
<1>7. ASSUME NEW u \in Compiles \ {t} PROVE BatchInv(u)'
  <2>1. BatchInv(u) /\ SameBatch(u) /\ u # t
    BY <1>3 DEF IInv, Rest
  <2>2. LockInv(u)'
    BY <1>1, <2>1 DEF BatchInv, LockInv
  <2>3. FreshInv(u)' /\ GoneInv(u)' /\ WaitInv(u)'
    BY <1>2, <2>1 DEF BatchInv, SameBatch, FreshInv, GoneInv, WaitInv
  <2>4. PageInv(u)' /\ LandInv(u)'
    BY <1>2, <2>1 DEF BatchInv, SameBatch, PageInv, LandInv, Onward
  <2> QED
    BY <2>2, <2>3, <2>4 DEF BatchInv
<1> QED
  BY <1>2, <1>5, <1>6, <1>7 DEF Rest

\* The queue, with one more batch.
LEMMA AppendQueue ==
    ASSUME NEW t, NEW q, q \in Seq(Compiles), t \in Compiles
    PROVE  /\ Append(q, t) \in Seq(Compiles) /\ Len(Append(q, t)) = Len(q) + 1
           /\ \A i \in 1 .. Len(q) + 1 : Append(q, t)[i] = IF i = Len(q) + 1 THEN t ELSE q[i]
OBVIOUS

LEMMA QueueMore ==
    ASSUME TypeOK, QueueInv, NEW t \in Compiles, queue' = Append(queue, t), UNCHANGED writer,
           excused \subseteq excused', ~InFlight(t), \A u \in Compiles : InFlight(u) => u \in excused'
    PROVE  QueueInv' /\ \A u : /\ Queued(u)' <=> Queued(u) \/ u = t
                               /\ InFlight(u)' <=> InFlight(u) \/ u = t
<1> DEFINE n == Len(queue)
<1>1. queue \in Seq(Compiles) /\ writer \in Compiles \cup {None} /\ n \in Nat
  BY DEF TypeOK
<1>2. Len(queue') = n + 1 /\ \A i \in 1 .. n + 1 : queue'[i] = IF i = n + 1 THEN t ELSE queue[i]
  BY <1>1, AppendQueue
<1>3. \A i \in 1 .. n : queue[i] \in Compiles /\ Queued(queue[i])
  BY <1>1 DEF Queued
<1> HIDE DEF n
<1>4. ASSUME NEW i \in 1 .. n PROVE queue[i] # t /\ queue[i] \in excused' /\ queue[i] # writer
  BY <1>3 DEF InFlight, QueueInv, n
<1>5. t # writer /\ (writer # None => writer \in excused')
  BY <1>1 DEF InFlight
<1>6. QueueInv'
  <2>1. \A i, j \in 1 .. n + 1 : i # j => queue'[i] # queue'[j]
    <3> SUFFICES ASSUME NEW i \in 1 .. n + 1, NEW j \in 1 .. n + 1, i # j PROVE queue'[i] # queue'[j]
      OBVIOUS
    <3>1. i = n + 1 \/ i \in 1 .. n
      BY <1>1
    <3>2. j = n + 1 \/ j \in 1 .. n
      BY <1>1
    <3>3. \A k, l \in 1 .. n : k # l => queue[k] # queue[l]
      BY DEF QueueInv, n
    <3> QED
      BY <1>1, <1>2, <1>4, <3>1, <3>2, <3>3
  <2>2. \A i \in 1 .. n + 1 : queue'[i] # writer' /\ (queue'[i] \notin excused' => i = n + 1)
    <3> SUFFICES ASSUME NEW i \in 1 .. n + 1 PROVE queue'[i] # writer /\ (queue'[i] \notin excused' => i = n + 1)
      OBVIOUS
    <3>1. i = n + 1 \/ i \in 1 .. n
      BY <1>1
    <3> QED
      BY <1>1, <1>2, <1>4, <1>5, <3>1
  <2> QED
    BY <1>2, <1>5, <2>1, <2>2 DEF QueueInv
<1>7. ASSUME NEW u PROVE Queued(u)' <=> Queued(u) \/ u = t
  <2>1. Queued(u)' <=> \E i \in 1 .. n + 1 : queue'[i] = u
    BY <1>2 DEF Queued
  <2>2. Queued(u) <=> \E i \in 1 .. n : queue[i] = u
    BY DEF Queued, n
  <2>3. 1 .. n \subseteq 1 .. n + 1 /\ n + 1 \in 1 .. n + 1 /\ \A i \in 1 .. n + 1 : i # n + 1 => i \in 1 .. n
    BY <1>1
  <2>4. queue'[n + 1] = t /\ \A i \in 1 .. n : queue'[i] = queue[i]
    BY <1>1, <1>2
  <2> QED
    BY <2>1, <2>2, <2>3, <2>4
<1> QED
  BY <1>6, <1>7 DEF InFlight

\* A batch is queued when no batch that is no exception is in flight or held.
LEMMA EnqueueMoves ==
    ASSUME IInv, Onward, NEW t \in Compiles, pc[t] \in {"picked", "reapply"}, Enqueue(t),
           UNCHANGED <<status, writer, wpc, left, out, pages, lock>>,
           Stale(t) \subseteq excused',
           \A u \in Compiles : Held(u)' => Held(u),
           \A u \in Compiles : InFlight(u) => u \in excused',
           \A u \in Compiles : Live(u)' => u \notin {Hydrated, Hydrated', again', stored'}
    PROVE  Rest'
<1>1. /\ ~InFlight(t) /\ ~Held(t) /\ out[t] = "none" /\ t \notin left /\ ~Paged(t) /\ lock = t
  BY DEF IInv, Rest, BatchInv, FreshInv, LockInv
<1>2. /\ queue' = Append(queue, t) /\ busy' = t /\ verdict' = verdict
      /\ pc'[t] = "wait" /\ \A u \in Compiles \ {t} : pc'[u] = pc[u]
  BY DEF Enqueue, IInv, TypeOK
<1>3. QueueInv' /\ \A u : (Queued(u)' <=> Queued(u) \/ u = t) /\ (InFlight(u)' <=> InFlight(u) \/ u = t)
  BY <1>1, <1>2, QueueMore DEF IInv, Rest, Onward
<1>4. \A u \in Compiles : SameBatch(u)
  BY <1>2, Batches
<1>5. writer # t /\ ~Queued(t)
  BY <1>1 DEF InFlight
<1>6. ClaimInv'
  <2>1. ASSUME NEW c \in Candidates, NEW u \in Compiles, u # t, t \notin excused', u \notin excused',
               Claims(t, c)', Claims(u, c)'
        PROVE  FALSE
    <3>1. ~InFlight(u) /\ ~InFlight(u)'
      BY <1>3, <2>1
    <3>2. c \in Drafts(t) /\ c \in Drafts(u) /\ <<c, u>> \in pages
      BY <1>4, <2>1, <3>1 DEF Claims, SameBatch
    <3>3. Open(c)
      BY <2>1, <3>2 DEF Stale
    <3>4. Live(u) /\ Live(u)'
      BY <1>2, <2>1, <3>2, <3>3 DEF Live, Settled, Open, Drafts, Of, Onward
    <3>5. Landed(u)
      BY <3>1, <3>2, <3>4 DEF IInv, Rest, BatchInv, PageInv, Paged, InFlight, Live
    <3>6. pc[u] \in {"wait", "apply"} \/ writer = u \/ Hydrated = u
      BY <3>4, <3>5 DEF IInv, Rest, BatchInv, OwnInv
    <3>7. pc[u] \notin {"wait", "apply"}
      BY <1>1, <2>1 DEF IInv, Rest, BatchInv, LockInv
    <3> QED
      BY <3>1, <3>4, <3>6, <3>7 DEF InFlight
  <2>2. ASSUME NEW c \in Candidates, NEW u \in Compiles, NEW v \in Compiles, u # t, v # t,
               u \notin excused', v \notin excused', Claims(u, c)', Claims(v, c)'
        PROVE  u = v
    <3>1. Claims(u, c) /\ Claims(v, c)
      BY <1>3, <1>4, <2>2 DEF Claims, SameBatch
    <3> QED
      BY <2>2, <3>1 DEF IInv, Rest, ClaimInv, Onward
  <2> QED
    BY <2>1, <2>2 DEF ClaimInv
<1>7. BatchInv(t)'
  <2>1. ~Paged(t)' /\ \A c \in Candidates : <<c, t>> \notin pages'
    BY <1>1 DEF Paged
  <2>2. ~Held(t)' /\ out'[t] = "none" /\ t \notin left' /\ writer' # t /\ lock' = t
    BY <1>1, <1>5
  <2>3. InFlight(t)'
    BY <1>3
  <2>4. LockInv(t)' /\ FreshInv(t)' /\ GoneInv(t)' /\ WaitInv(t)'
    BY <1>2, <2>1, <2>2, <2>3 DEF LockInv, FreshInv, GoneInv, WaitInv
  <2>5. PageInv(t)' /\ LandInv(t)'
    BY <1>2, <2>1, <2>2 DEF PageInv, LandInv
  <2>6. FlightInv(t)' /\ HoldInv(t)' /\ OwnInv(t)'
    BY <1>2 DEF FlightInv, HoldInv, OwnInv
  <2> QED
    BY <2>4, <2>5, <2>6 DEF BatchInv
<1>8. ASSUME NEW u \in Compiles \ {t} PROVE BatchInv(u)'
  <2>1. BatchInv(u) /\ SameBatch(u) /\ u # t
    BY <1>4 DEF IInv, Rest
  <2>2. LockInv(u)'
    BY <1>1, <1>2, <2>1 DEF BatchInv, LockInv
  <2>3. FreshInv(u)' /\ GoneInv(u)' /\ WaitInv(u)'
    BY <1>2, <1>3, <2>1 DEF BatchInv, SameBatch, FreshInv, GoneInv, WaitInv
  <2>4. PageInv(u)' /\ LandInv(u)'
    BY <1>2, <1>3, <2>1 DEF BatchInv, SameBatch, PageInv, LandInv, Onward
  <2>5. FlightInv(u)' /\ HoldInv(u)'
    BY <1>3, <2>1 DEF FlightInv, HoldInv
  <2>6. OwnInv(u)'
    BY <1>2, <2>1 DEF BatchInv, SameBatch, OwnInv
  <2> QED
    BY <2>2, <2>3, <2>4, <2>5, <2>6 DEF BatchInv
<1> QED
  BY <1>3, <1>6, <1>7, <1>8 DEF Rest

\* The worker takes the oldest batch.
LEMMA TailQueue ==
    ASSUME NEW q, q \in Seq(Compiles), q # <<>>
    PROVE  /\ Head(q) = q[1] /\ Head(q) \in Compiles /\ Len(q) \in Nat \ {0}
           /\ Len(Tail(q)) = Len(q) - 1
           /\ \A i \in 1 .. Len(q) - 1 : Tail(q)[i] = q[i + 1]
OBVIOUS

LEMMA QueueLess ==
    ASSUME TypeOK, QueueInv, queue # <<>>, writer = None, queue' = Tail(queue), writer' = Head(queue),
           UNCHANGED excused
    PROVE  /\ QueueInv'
           /\ \A u \in Compiles : /\ InFlight(u)' <=> InFlight(u)
                                  /\ Queued(u) <=> Queued(u)' \/ writer' = u
<1> DEFINE n == Len(queue)
<1>1. queue \in Seq(Compiles)
  BY DEF TypeOK
<1>2. /\ n \in Nat \ {0} /\ Len(queue') = n - 1 /\ writer' = queue[1]
      /\ \A i \in 1 .. n - 1 : queue'[i] = queue[i + 1]
  BY <1>1, TailQueue
<1>3. /\ \A i, j \in 1 .. n : i # j => queue[i] # queue[j]
      /\ \A i \in 1 .. n : queue[i] \notin excused => i = n
  BY DEF QueueInv
<1>4. \A u : Queued(u) <=> \E i \in 1 .. n : queue[i] = u
  BY DEF Queued
<1>5. \A u : Queued(u)' <=> \E i \in 1 .. n - 1 : queue'[i] = u
  BY <1>2 DEF Queued
<1>6. queue' \in Seq(Compiles)
  BY <1>1
<1> HIDE DEF n
<1>7. \A i \in 1 .. n - 1 : i + 1 \in 1 .. n /\ i + 1 # 1
  BY <1>2
<1>8. \A i \in 1 .. n : i = 1 \/ (i - 1 \in 1 .. n - 1 /\ (i - 1) + 1 = i)
  BY <1>2
<1>9. ASSUME NEW u PROVE Queued(u) <=> Queued(u)' \/ writer' = u
  <2>1. Queued(u)' \/ writer' = u => Queued(u)
    BY <1>2, <1>4, <1>5, <1>7
  <2>2. ASSUME NEW i \in 1 .. n, queue[i] = u, i # 1 PROVE Queued(u)'
    <3>1. queue'[i - 1] = u /\ i - 1 \in 1 .. n - 1
      BY <1>2, <1>8, <2>2
    <3> QED
      BY <1>5, <3>1
  <2>3. Queued(u) => Queued(u)' \/ writer' = u
    BY <1>2, <1>4, <2>2
  <2> QED
    BY <2>1, <2>3
<1>10. QueueInv'
  <2>1. \A i, j \in 1 .. n - 1 : i # j => queue'[i] # queue'[j]
    <3> SUFFICES ASSUME NEW i \in 1 .. n - 1, NEW j \in 1 .. n - 1, i # j PROVE queue'[i] # queue'[j]
      OBVIOUS
    <3>1. i + 1 # j + 1
      BY <1>2
    <3> QED
      BY <1>2, <1>3, <1>7, <3>1
  <2>2. \A i \in 1 .. n - 1 : queue'[i] # writer' /\ (queue'[i] \notin excused' => i = n - 1)
    <3> SUFFICES ASSUME NEW i \in 1 .. n - 1
                 PROVE  queue'[i] # writer' /\ (queue'[i] \notin excused => i = n - 1)
      OBVIOUS
    <3>1. queue'[i] = queue[i + 1] /\ i + 1 \in 1 .. n /\ i + 1 # 1 /\ 1 \in 1 .. n
      BY <1>2, <1>7
    <3>2. queue[i + 1] # queue[1] /\ (queue[i + 1] \notin excused => i + 1 = n)
      BY <1>3, <3>1
    <3>3. i + 1 = n => i = n - 1
      BY <1>2
    <3> QED
      BY <1>2, <3>1, <3>2, <3>3
  <2>3. writer' \notin excused' => queue' = <<>>
    <3>1. writer' \notin excused' => n = 1
      BY <1>2, <1>3
    <3>2. n = 1 => queue' = <<>>
      BY <1>2, <1>6, EmptySeq
    <3> QED
      BY <3>1, <3>2
  <2> QED
    BY <1>2, <2>1, <2>2, <2>3 DEF QueueInv
<1>11. ASSUME NEW u \in Compiles PROVE InFlight(u)' <=> InFlight(u)
  BY <1>9, AfmWriterAssumption DEF InFlight
<1> QED
  BY <1>9, <1>10, <1>11

\* The worker lets its batch go, or keeps it.
LEMMA QueueLeft ==
    ASSUME TypeOK, QueueInv, UNCHANGED queue, excused \subseteq excused', writer' \in {writer, None}
    PROVE  /\ QueueInv'
           /\ \A u \in Compiles : /\ Queued(u)' <=> Queued(u)
                                  /\ InFlight(u)' => InFlight(u)
                                  /\ Queued(u) => writer # u
<1>1. queue \in Seq(Compiles) /\ None \notin Compiles
  BY AfmWriterAssumption DEF TypeOK
<1>2. \A i \in 1 .. Len(queue) : queue[i] # None
  BY <1>1
<1>3. \A u : (Queued(u)' <=> Queued(u)) /\ (Queued(u) => writer # u)
  BY DEF Queued, QueueInv
<1>4. QueueInv'
  BY <1>2 DEF QueueInv
<1>5. ASSUME NEW u \in Compiles, InFlight(u)' PROVE InFlight(u)
  BY <1>1, <1>3, <1>5 DEF InFlight
<1> QED
  BY <1>3, <1>4, <1>5

\* The worker moves with the batch w it has at hand.
LEMMA WorkerMoves ==
    ASSUME IInv, Onward, NEW w \in Compiles, writer = w, writer' \in {w, None},
           UNCHANGED <<verdict, pc, lock, queue, again>>,
           \A u \in Compiles \ {w} : /\ out'[u] = out[u]
                                     /\ u \in left' <=> u \in left
                                     /\ Held(u)' => Held(u)
                                     /\ Live(u) /\ Hydrated = u => Hydrated' = u
                                     /\ \A c \in Candidates : <<c, u>> \in pages' <=> <<c, u>> \in pages,
           busy' = busy \/ busy = w,
           \A c \in Candidates : Claims(w, c)' => Claims(w, c),
           \A u \in Compiles : HoldInv(u)',
           LockInv(w)' /\ FreshInv(w)' /\ GoneInv(w)' /\ WaitInv(w)' /\ PageInv(w)' /\ LandInv(w)' /\ OwnInv(w)',
           InFlight(w)' => busy' = busy
    PROVE  Rest'
<1>1. \A u \in Compiles \ {w} : SameBatch(u)
  BY Batches
<1>2. QueueInv' /\ \A u \in Compiles : /\ Queued(u)' <=> Queued(u)
                                       /\ InFlight(u)' => InFlight(u)
                                       /\ Queued(u) => writer # u
  BY QueueLeft DEF IInv, Rest, Onward
<1>3. ClaimInv'
  <2>1. ASSUME NEW u \in Compiles, NEW c \in Candidates, u # w, Claims(u, c)' PROVE Claims(u, c)
    BY <1>1, <1>2, <2>1 DEF Claims, SameBatch
  <2> QED
    BY <2>1, ClaimStill DEF IInv, Rest, Onward
<1>4. ASSUME NEW u \in Compiles \ {w} PROVE BatchInv(u)'
  <2>1. BatchInv(u) /\ SameBatch(u) /\ u # w /\ u # None
    BY <1>1, AfmWriterAssumption DEF IInv, Rest
  <2>2. writer # u /\ writer' # u /\ (InFlight(u) <=> Queued(u)) /\ (InFlight(u)' <=> Queued(u))
    BY <1>2, <2>1 DEF InFlight
  <2>3. LockInv(u)' /\ FreshInv(u)' /\ GoneInv(u)' /\ WaitInv(u)'
    BY <1>2, <2>1, <2>2 DEF BatchInv, SameBatch, LockInv, FreshInv, GoneInv, WaitInv
  <2>4. PageInv(u)' /\ LandInv(u)'
    BY <1>2, <2>1, <2>2 DEF BatchInv, SameBatch, PageInv, LandInv, Onward
  <2>5. FlightInv(u)'
    BY <1>2, <2>1, <2>2 DEF BatchInv, FlightInv, Onward
  <2>6. OwnInv(u)'
    BY <2>1, <2>2 DEF BatchInv, SameBatch, OwnInv
  <2> QED
    BY <2>3, <2>4, <2>5, <2>6 DEF BatchInv
<1>5. FlightInv(w)'
  BY <1>2 DEF IInv, Rest, BatchInv, FlightInv, Onward
<1>6. BatchInv(w)'
  BY <1>5 DEF BatchInv
<1> QED
  BY <1>2, <1>3, <1>4, <1>6 DEF Rest

\* What is the same for the hold when nobody touches it.
LEMMA HoldSame ==
    ASSUME IInv, UNCHANGED heldVars, NEW u \in Compiles, Live(u)' => Live(u),
           \A v \in Compiles : InFlight(v)' => InFlight(v)
    PROVE  HoldInv(u)' /\ Hydrated' = Hydrated /\ \A v : Held(v)' <=> Held(v)
<1>1. UNCHANGED <<again, sticky, stored>> /\ Hydrated' = Hydrated /\ \A v : Held(v)' <=> Held(v)
  BY DEF heldVars, Hydrated, Held
<1>2. HoldInv(u)
  BY DEF IInv, Rest, BatchInv
<1> QED
  BY <1>1, <1>2 DEF HoldInv

LEMMA TakeStep ==
    ASSUME IInv, Take
    PROVE  Rest'
<1>1. /\ writer = None /\ queue # <<>> /\ writer' = Head(queue) /\ queue' = Tail(queue) /\ wpc' = "write"
      /\ UNCHANGED <<status, verdict, pc, lock, busy, left, out, pages, heldVars, excused>>
  BY DEF Take
<1>2. /\ QueueInv'
      /\ \A u \in Compiles : /\ InFlight(u)' <=> InFlight(u)
                             /\ Queued(u) <=> Queued(u)' \/ writer' = u
  BY <1>1, QueueLess DEF IInv, Rest
<1>3. Onward
  BY <1>1 DEF Onward
<1>4. \A u \in Compiles : SameBatch(u)
  BY <1>1, <1>3, Batches
<1>5. ClaimInv'
  <2>1. ASSUME NEW u \in Compiles, NEW c \in Candidates, Claims(u, c)' PROVE Claims(u, c)
    BY <1>2, <1>4, <2>1 DEF Claims, SameBatch
  <2> QED
    BY <1>3, <2>1, ClaimStill DEF IInv, Rest, Onward
<1>6. ASSUME NEW u \in Compiles PROVE BatchInv(u)'
  <2>1. BatchInv(u) /\ SameBatch(u) /\ writer # u
    BY <1>1, <1>4, AfmWriterAssumption DEF IInv, Rest
  <2>2. Live(u)' => Live(u)
    BY <2>1 DEF SameBatch
  <2>3. HoldInv(u)' /\ Hydrated' = Hydrated /\ \A v : Held(v)' <=> Held(v)
    BY <1>1, <1>2, <2>2, HoldSame
  <2>4. LockInv(u)' /\ FreshInv(u)' /\ GoneInv(u)' /\ WaitInv(u)'
    BY <1>1, <1>2, <2>1, <2>3 DEF BatchInv, SameBatch, LockInv, FreshInv, GoneInv, WaitInv, heldVars
  <2>5. PageInv(u)' /\ LandInv(u)' /\ FlightInv(u)'
    BY <1>1, <1>2, <2>1, <2>3 DEF BatchInv, SameBatch, PageInv, LandInv, FlightInv
  <2>6. OwnInv(u)'
    BY <1>1, <2>1, <2>3 DEF BatchInv, SameBatch, OwnInv
  <2> QED
    BY <2>3, <2>4, <2>5, <2>6 DEF BatchInv
<1> QED
  BY <1>2, <1>5, <1>6 DEF Rest

LEMMA WritePageStep ==
    ASSUME IInv, NEW w \in Compiles, writer = w, WritePage
    PROVE  Rest'
<1>1. /\ wpc = "write"
      /\ UNCHANGED <<status, verdict, pc, lock, queue, writer, wpc, busy, left, out, heldVars, excused>>
  BY DEF WritePage
<1>2. PICK d \in Drafts(w) : pages' = pages \cup {<<d, w>>}
  BY DEF WritePage
<1>3. w \in Compiles /\ writer = w
  OBVIOUS
<1>4. Onward
  BY <1>1 DEF Onward
<1>5. BatchInv(w) /\ writer = w /\ InFlight(w)
  BY <1>3 DEF IInv, Rest, InFlight
<1>6. Drafts(w)' = Drafts(w)
  BY <1>1 DEF Drafts, Of
<1>7. /\ \A u \in Compiles \ {w} : \A c \in Candidates : <<c, u>> \in pages' <=> <<c, u>> \in pages
      /\ \A c \in Candidates : <<c, w>> \in pages' => c \in Drafts(w)
  BY <1>2, <1>5 DEF BatchInv, PageInv
<1>8. \A u \in Compiles : (InFlight(u)' <=> InFlight(u)) /\ (Queued(u)' <=> Queued(u))
  BY <1>1 DEF InFlight, Queued
<1>9. \A u \in Compiles : Live(u)' <=> Live(u)
  BY <1>1 DEF Live, Settled, Drafts, Of, Open
<1>10. \A u \in Compiles : HoldInv(u)' /\ Hydrated' = Hydrated /\ \A v : Held(v)' <=> Held(v)
  BY <1>1, <1>8, <1>9, HoldSame
<1>11. pc[w] = "wait" \/ (w \in left /\ pc[w] = "done")
  BY <1>1, <1>5 DEF BatchInv, WaitInv, GoneInv
<1>12. ~Queued(w)
  BY <1>5, <1>3, QueueLeft DEF IInv, Rest, Onward, Queued, QueueInv
<1>13. LockInv(w)' /\ FreshInv(w)' /\ GoneInv(w)' /\ WaitInv(w)'
  BY <1>1, <1>5, <1>8, <1>10, <1>11, <1>3 DEF BatchInv, LockInv, FreshInv, GoneInv, WaitInv, heldVars
<1>14. PageInv(w)' /\ LandInv(w)'
  BY <1>1, <1>3, <1>5, <1>6, <1>7, <1>8, <1>10, <1>11, <1>12 DEF BatchInv, PageInv, LandInv, WaitInv, GoneInv
<1>15. OwnInv(w)'
  BY <1>1, <1>3, <1>5, <1>11 DEF OwnInv
<1>16. \A c \in Candidates : Claims(w, c)' => Claims(w, c)
  BY <1>5, <1>6 DEF Claims
<1>17. UNCHANGED again
  BY <1>1 DEF heldVars
<1> QED
  BY <1>1, <1>3, <1>4, <1>5, <1>7, <1>10, <1>13, <1>14, <1>15, <1>16, <1>17, WorkerMoves

\* The other steps of the worker write no page.
LEMMA WorkerKeeps ==
    ASSUME IInv, Onward, NEW w \in Compiles, writer = w, writer' \in {w, None},
           UNCHANGED <<verdict, pages, queue>>
    PROVE  /\ SameBatch(w)
           /\ \A u \in Compiles : SameBatch(u) /\ (Live(u)' => Live(u))
           /\ \A u \in Compiles : (InFlight(u)' => InFlight(u)) /\ (Queued(u)' <=> Queued(u))
           /\ ~Queued(w) /\ BatchInv(w) /\ InFlight(w)
           /\ writer' = None => ~InFlight(w)' /\ writer' # w
           /\ \A c \in Candidates : Claims(w, c)' => Claims(w, c)
<1>1. \A u \in Compiles : SameBatch(u) /\ (Live(u)' => Live(u))
  BY Batches DEF SameBatch
<1>2. \A u \in Compiles : /\ Queued(u)' <=> Queued(u)
                          /\ InFlight(u)' => InFlight(u)
                          /\ Queued(u) => writer # u
  BY QueueLeft DEF IInv, Rest, Onward
<1>3. BatchInv(w) /\ w # None
  BY AfmWriterAssumption DEF IInv, Rest
<1>4. writer' = None => ~InFlight(w)' /\ writer' # w
  BY <1>2, <1>3 DEF InFlight
<1>5. \A c \in Candidates : Claims(w, c)' => Claims(w, c)
  BY <1>1, <1>2 DEF Claims, SameBatch
<1> QED
  BY <1>1, <1>2, <1>3, <1>4, <1>5 DEF InFlight

LEMMA WriteFailsStep ==
    ASSUME IInv, NEW w \in Compiles, writer = w, WriteFails
    PROVE  Rest'
<1>1. /\ wpc = "write" /\ writer' = None /\ wpc' = "idle"
      /\ out' = [out EXCEPT ![w] = "error"] /\ busy' = IF busy = w THEN None ELSE busy
      /\ excused' = excused \cup {t \in {w} : Paged(t)}
      /\ UNCHANGED <<status, verdict, pc, lock, queue, left, pages, heldVars>>
  BY DEF WriteFails, Land
<1>2. w \in Compiles
  OBVIOUS
<1>3. writer = w
  OBVIOUS
<1>4. Onward /\ UNCHANGED again
  BY <1>1 DEF Onward, heldVars
<1>5. /\ \A u \in Compiles : SameBatch(u) /\ (Live(u)' => Live(u))
      /\ \A u \in Compiles : (InFlight(u)' => InFlight(u)) /\ (Queued(u)' <=> Queued(u))
      /\ ~Queued(w) /\ BatchInv(w) /\ InFlight(w) /\ ~InFlight(w)' /\ writer' # w
      /\ \A c \in Candidates : Claims(w, c)' => Claims(w, c)
  BY <1>1, <1>2, <1>3, <1>4, WorkerKeeps
<1>6. \A u \in Compiles : HoldInv(u)' /\ Hydrated' = Hydrated /\ \A v : Held(v)' <=> Held(v)
  BY <1>1, <1>5, HoldSame
<1>7. out'[w] = "error" /\ \A u \in Compiles \ {w} : out'[u] = out[u]
  BY <1>1, <1>2 DEF IInv, TypeOK
<1>8. pc[w] = "wait" \/ (w \in left /\ pc[w] = "done")
  BY <1>1, <1>3, <1>5 DEF BatchInv, WaitInv, GoneInv
<1>9. Paged(w)' => w \in excused'
  BY <1>1, <1>5, <1>2 DEF SameBatch
<1>10. LockInv(w)' /\ FreshInv(w)' /\ GoneInv(w)' /\ WaitInv(w)'
  BY <1>1, <1>2, <1>5, <1>6, <1>7, <1>8, <1>4 DEF BatchInv, LockInv, FreshInv, GoneInv, WaitInv
<1>11. PageInv(w)' /\ LandInv(w)'
  BY <1>1, <1>2, <1>5, <1>6, <1>7, <1>8, <1>9 DEF BatchInv, SameBatch, PageInv, LandInv
<1>12. OwnInv(w)'
  BY <1>9, LandedPaged DEF OwnInv, Live
<1>13. /\ \A u \in Compiles \ {w} : \A c \in Candidates : <<c, u>> \in pages' <=> <<c, u>> \in pages
       /\ busy' = busy \/ busy = w
  BY <1>1
<1> QED
  BY <1>1, <1>2, <1>3, <1>4, <1>5, <1>6, <1>7, <1>10, <1>11, <1>12, <1>13, WorkerMoves

LEMMA WriteEndsStep ==
    ASSUME IInv, NEW w \in Compiles, writer = w, WriteEnds
    PROVE  Rest'
<1>1. /\ wpc = "write" /\ wpc' = "landed" /\ writer' = w /\ Landed(w)
      /\ out' = [out EXCEPT ![w] = "written"]
      /\ UNCHANGED <<status, verdict, pc, lock, queue, busy, left, pages, heldVars, excused>>
  BY DEF WriteEnds
<1>2. w \in Compiles
  OBVIOUS
<1>3. writer = w
  OBVIOUS
<1>4. Onward /\ UNCHANGED again
  BY <1>1 DEF Onward, heldVars
<1>5. /\ \A u \in Compiles : SameBatch(u) /\ (Live(u)' => Live(u))
      /\ \A u \in Compiles : (InFlight(u)' => InFlight(u)) /\ (Queued(u)' <=> Queued(u))
      /\ ~Queued(w) /\ BatchInv(w) /\ InFlight(w)
      /\ \A c \in Candidates : Claims(w, c)' => Claims(w, c)
  BY <1>1, <1>2, <1>3, <1>4, WorkerKeeps
<1>6. \A u \in Compiles : HoldInv(u)' /\ Hydrated' = Hydrated /\ \A v : Held(v)' <=> Held(v)
  BY <1>1, <1>5, HoldSame
<1>7. out'[w] = "written" /\ \A u \in Compiles \ {w} : out'[u] = out[u]
  BY <1>1, <1>2 DEF IInv, TypeOK
<1>8. pc[w] = "wait" \/ (w \in left /\ pc[w] = "done")
  BY <1>1, <1>3, <1>5 DEF BatchInv, WaitInv, GoneInv
<1>9. Landed(w)'
  BY <1>1, <1>2, <1>5 DEF SameBatch
<1>10. LockInv(w)' /\ FreshInv(w)' /\ GoneInv(w)' /\ WaitInv(w)'
  BY <1>1, <1>2, <1>5, <1>6, <1>7, <1>8, <1>4 DEF BatchInv, LockInv, FreshInv, GoneInv, WaitInv
<1>11. PageInv(w)' /\ LandInv(w)'
  BY <1>1, <1>2, <1>5, <1>6, <1>7, <1>8, <1>9 DEF BatchInv, SameBatch, PageInv, LandInv
<1>12. OwnInv(w)'
  BY <1>1, <1>8 DEF OwnInv
<1> QED
  BY <1>1, <1>2, <1>3, <1>4, <1>5, <1>6, <1>7, <1>10, <1>11, <1>12, WorkerMoves

LEMMA HandOverStep ==
    ASSUME IInv, NEW w \in Compiles, writer = w, HandOver
    PROVE  Rest'
<1>1. /\ wpc = "landed" /\ w \notin left /\ wpc' = "idle" /\ writer' = None
      /\ busy' = IF busy = w THEN None ELSE busy
      /\ UNCHANGED <<status, verdict, pc, lock, queue, out, left, pages, heldVars, excused>>
  BY DEF HandOver, Land
<1>2. w \in Compiles
  OBVIOUS
<1>3. writer = w
  OBVIOUS
<1>4. Onward /\ UNCHANGED again
  BY <1>1 DEF Onward, heldVars
<1>5. /\ \A u \in Compiles : SameBatch(u) /\ (Live(u)' => Live(u))
      /\ \A u \in Compiles : (InFlight(u)' => InFlight(u)) /\ (Queued(u)' <=> Queued(u))
      /\ ~Queued(w) /\ BatchInv(w) /\ InFlight(w) /\ ~InFlight(w)' /\ writer' # w
      /\ \A c \in Candidates : Claims(w, c)' => Claims(w, c)
  BY <1>1, <1>2, <1>3, <1>4, WorkerKeeps
<1>6. \A u \in Compiles : HoldInv(u)' /\ Hydrated' = Hydrated /\ \A v : Held(v)' <=> Held(v)
  BY <1>1, <1>5, HoldSame
<1>7. LockInv(w)' /\ FreshInv(w)' /\ GoneInv(w)' /\ WaitInv(w)'
  BY <1>1, <1>2, <1>3, <1>5, <1>6, <1>4 DEF BatchInv, SameBatch, LockInv, FreshInv, GoneInv, WaitInv
<1>8. PageInv(w)' /\ LandInv(w)'
  BY <1>1, <1>2, <1>3, <1>5, <1>6 DEF BatchInv, SameBatch, PageInv, LandInv
<1>9. OwnInv(w)'
  BY <1>1, <1>2, <1>5, <1>6 DEF BatchInv, SameBatch, OwnInv
<1>10. busy' = busy \/ busy = w
  BY <1>1
<1> QED
  BY <1>1, <1>2, <1>3, <1>4, <1>5, <1>6, <1>7, <1>8, <1>9, <1>10, WorkerMoves

LEMMA TakeOverStep ==
    ASSUME IInv, NEW w \in Compiles, writer = w, TakeOver
    PROVE  Rest'
<1>1. /\ wpc = "landed" /\ w \in left /\ wpc' = "apply" /\ writer' = w
      /\ UNCHANGED <<status, verdict, pc, lock, queue, busy, out, left, pages, heldVars, excused>>
  BY DEF TakeOver
<1>2. w \in Compiles
  OBVIOUS
<1>3. writer = w
  OBVIOUS
<1>4. Onward /\ UNCHANGED again
  BY <1>1 DEF Onward, heldVars
<1>5. /\ \A u \in Compiles : SameBatch(u) /\ (Live(u)' => Live(u))
      /\ \A u \in Compiles : (InFlight(u)' => InFlight(u)) /\ (Queued(u)' <=> Queued(u))
      /\ ~Queued(w) /\ BatchInv(w) /\ InFlight(w)
      /\ \A c \in Candidates : Claims(w, c)' => Claims(w, c)
  BY <1>1, <1>2, <1>3, <1>4, WorkerKeeps
<1>6. \A u \in Compiles : HoldInv(u)' /\ Hydrated' = Hydrated /\ \A v : Held(v)' <=> Held(v)
  BY <1>1, <1>5, HoldSame
<1>7. LockInv(w)' /\ FreshInv(w)' /\ GoneInv(w)' /\ WaitInv(w)'
  BY <1>1, <1>2, <1>3, <1>5, <1>6, <1>4 DEF BatchInv, SameBatch, LockInv, FreshInv, GoneInv, WaitInv, InFlight
<1>8. PageInv(w)' /\ LandInv(w)'
  BY <1>1, <1>2, <1>3, <1>5, <1>6 DEF BatchInv, SameBatch, PageInv, LandInv
<1>9. OwnInv(w)'
  BY <1>1, <1>2, <1>3, <1>5, <1>6 DEF BatchInv, SameBatch, OwnInv
<1> QED
  BY <1>1, <1>2, <1>3, <1>4, <1>5, <1>6, <1>7, <1>8, <1>9, WorkerMoves

\* An application that is complete has settled the batch.
LEMMA CompleteSettles ==
    ASSUME NEW a, NEW t, Complete(a, t)
    PROVE  Settled(t)
BY DEF Complete, Remaining, Settled, Drafts, Deferred, Of, Open

LEMMA WorkerEndStep ==
    ASSUME IInv, NEW w \in Compiles, writer = w, WorkerEnd
    PROVE  Rest'
<1>1. /\ wpc = "apply" /\ wpc' = "idle" /\ writer' = None
      /\ left' = left \ {w} /\ out' = [out EXCEPT ![w] = "none"]
      /\ \/ /\ Settled(w) /\ sticky' = None /\ stored' \in {None, stored}
            /\ busy' = IF busy = w THEN None ELSE busy
         \/ sticky' = w /\ stored' \in {w, stored} /\ busy' = busy
      /\ UNCHANGED <<status, verdict, pc, lock, queue, pages, again, excused>>
  BY CompleteSettles DEF WorkerEnd, Land, Store
<1>2. Onward
  BY <1>1 DEF Onward
<1>3. /\ \A u \in Compiles : SameBatch(u) /\ (Live(u)' => Live(u))
      /\ \A u \in Compiles : (InFlight(u)' => InFlight(u)) /\ (Queued(u)' <=> Queued(u))
      /\ ~Queued(w) /\ BatchInv(w) /\ InFlight(w) /\ ~InFlight(w)' /\ writer' # w
      /\ \A c \in Candidates : Claims(w, c)' => Claims(w, c)
  BY <1>1, <1>2, WorkerKeeps
<1>4. w \in left /\ pc[w] = "done" /\ Landed(w) /\ w # None
  BY <1>1, <1>3, AfmWriterAssumption DEF BatchInv, WaitInv, GoneInv, LandInv
<1>5. out'[w] = "none" /\ \A u \in Compiles \ {w} : out'[u] = out[u]
  BY <1>1 DEF IInv, TypeOK
<1>6. \A u \in Compiles : Live(u) => Hydrated # u /\ again # u /\ stored # u
  BY <1>3 DEF IInv, Rest, BatchInv, HoldInv
<1>7. \A u \in Compiles : Held(u)' => Held(u) \/ u = w
  BY <1>1, AfmWriterAssumption DEF Held
<1>8. \A u \in Compiles : Live(u)' => /\ again' # u
                                      /\ stored' = u => u = w /\ sticky' = w
                                      /\ Hydrated' = u => u = w /\ sticky' = w
  BY <1>1, <1>3, <1>6, <1>4, AfmWriterAssumption DEF Hydrated
<1>9. Live(w)' => \A u \in Compiles : ~InFlight(u)'
  <2> SUFFICES ASSUME Live(w)' PROVE \A u \in Compiles : ~InFlight(u)'
    OBVIOUS
  <2>1. w \notin excused
    BY <1>1 DEF Live
  <2>2. queue = <<>>
    BY <1>4, <2>1 DEF IInv, Rest, QueueInv
  <2>3. \A u \in Compiles : ~Queued(u)
    BY <2>2 DEF Queued
  <2> QED
    BY <1>1, <1>3, <2>3, AfmWriterAssumption DEF InFlight
<1>10. \A u \in Compiles : HoldInv(u)'
  <2> SUFFICES ASSUME NEW u \in Compiles, Live(u)' PROVE HoldInv(u)'
    BY DEF HoldInv
  <2>1. sticky' = w => Hydrated' = w
    BY <1>4 DEF Hydrated
  <2> QED
    BY <1>8, <1>9, <2>1 DEF HoldInv
<1>11. LockInv(w)' /\ FreshInv(w)' /\ GoneInv(w)' /\ WaitInv(w)'
  BY <1>1, <1>3, <1>4, <1>5 DEF BatchInv, LockInv, FreshInv, GoneInv, WaitInv
<1>12. PageInv(w)' /\ LandInv(w)'
  BY <1>1, <1>3, <1>4, <1>5 DEF BatchInv, SameBatch, PageInv, LandInv
<1>13. OwnInv(w)'
  <2>1. CASE Settled(w)
    BY <1>3, <2>1 DEF Live, OwnInv
  <2>2. CASE sticky' = w
    BY <1>4, <2>2 DEF OwnInv, Hydrated
  <2> QED
    BY <1>1, <2>1, <2>2
<1>14. /\ \A u \in Compiles \ {w} : \A c \in Candidates : <<c, u>> \in pages' <=> <<c, u>> \in pages
       /\ busy' = busy \/ busy = w
       /\ \A u \in Compiles \ {w} : u \in left' <=> u \in left
  BY <1>1
<1> QED
  BY <1>1, <1>2, <1>3, <1>5, <1>6, <1>7, <1>10, <1>11, <1>12, <1>13, <1>14, WorkerMoves

\* A compile that has submitted its batch, or applied it, leaves it.
LEMMA DirectEndStep ==
    ASSUME IInv, NEW t \in Compiles, DirectEnd(t)
    PROVE  Rest'
<1>1. /\ pc[t] = "apply" /\ pc' = [pc EXCEPT ![t] = "done"] /\ lock' = None
      /\ verdict' = verdict \/ (Drafts(t) = {} /\ verdict' = [verdict EXCEPT ![t] = Nothing])
      /\ excused \subseteq excused' /\ (t \in excused' \/ Remaining(t, Drafts(t)) = {})
      /\ UNCHANGED <<status, writerVars, heldVars>>
  BY DEF DirectEnd, Leave, Forget
<1>2. UNCHANGED <<queue, writer, wpc, busy, left, out, pages, again, sticky, stored>>
  BY <1>1 DEF writerVars, heldVars
<1>3. Onward
  BY <1>1 DEF Onward
<1>4. /\ pc'[t] = "done" /\ \A u \in Compiles \ {t} : verdict'[u] = verdict[u] /\ pc'[u] = pc[u]
  BY <1>1 DEF IInv, TypeOK
<1>5. BatchInv(t) /\ lock = t
  BY <1>1 DEF IInv, Rest, BatchInv, LockInv
<1>6. QueueInv' /\ \A u : (Queued(u)' <=> Queued(u)) /\ (InFlight(u)' <=> InFlight(u))
  BY <1>2, <1>3, QueueStill DEF IInv, Rest, Onward
<1>7. SameBatch(t) \/ (Drafts(t)' = {} /\ ~Paged(t))
  <2>1. CASE verdict' = verdict
    BY <1>2, <1>3, <2>1, Batches
  <2>2. CASE Drafts(t) = {} /\ verdict' = [verdict EXCEPT ![t] = Nothing]
    <3>1. verdict'[t] = Nothing
      BY <2>2 DEF IInv, TypeOK
    <3>2. Drafts(t)' = {}
      BY <3>1 DEF Drafts, Of, Nothing
    <3>3. ~Paged(t)
      BY <1>5, <2>2 DEF BatchInv, PageInv, Paged
    <3> QED
      BY <3>2, <3>3
  <2> QED
    BY <1>1, <2>1, <2>2
<1>8. ~Live(t)'
  <2>1. Remaining(t, Drafts(t)) = {} => Settled(t)
    BY DEF Remaining, Settled, Drafts, Of
  <2>2. Drafts(t)' = {} => Settled(t)'
    BY DEF Settled
  <2> QED
    BY <1>1, <1>7, <2>1, <2>2 DEF SameBatch, Live
<1>9. Drafts(t)' = {} => Landed(t)'
  BY DEF Landed
<1>10. Paged(t)' <=> Paged(t)
  BY <1>2 DEF Paged
<1>11. BatchInv(t)'
  <2>1. (Held(t)' <=> Held(t))
    BY <1>2 DEF Held
  <2>2. LockInv(t)' /\ FreshInv(t)' /\ GoneInv(t)' /\ WaitInv(t)'
    BY <1>1, <1>2, <1>4, <1>5, <1>6, <2>1 DEF BatchInv, LockInv, FreshInv, GoneInv, WaitInv
  <2>3. Landed(t) => Landed(t)'
    BY <1>7, <1>9 DEF SameBatch
  <2>4. \A c \in Candidates : <<c, t>> \in pages' => c \in Drafts(t)'
    BY <1>2, <1>5, <1>7 DEF BatchInv, PageInv, SameBatch, Paged
  <2>5. PageInv(t)' /\ LandInv(t)' /\ FlightInv(t)'
    BY <1>2, <1>3, <1>4, <1>5, <1>6, <1>10, <2>1, <2>3, <2>4 DEF BatchInv, PageInv, LandInv, FlightInv, Onward
  <2>6. HoldInv(t)' /\ OwnInv(t)'
    BY <1>8 DEF HoldInv, OwnInv
  <2> QED
    BY <2>2, <2>5, <2>6 DEF BatchInv
<1> QED
  BY <1>2, <1>3, <1>4, <1>5, <1>7, <1>11, CompileMoves

LEMMA ReceiveStep ==
    ASSUME IInv, NEW t \in Compiles, Receive(t)
    PROVE  Rest'
<1>1. /\ pc[t] = "wait" /\ out[t] # "none" /\ out' = [out EXCEPT ![t] = "none"]
      /\ \/ out[t] = "written" /\ pc' = [pc EXCEPT ![t] = "apply"] /\ lock' = lock
         \/ out[t] # "written" /\ pc' = [pc EXCEPT ![t] = "done"] /\ lock' = None
      /\ UNCHANGED <<status, verdict, queue, writer, wpc, busy, left, pages, heldVars, excused>>
  BY DEF Receive, Leave
<1>2. UNCHANGED <<again, sticky, stored>>
  BY <1>1 DEF heldVars
<1>3. Onward
  BY <1>1 DEF Onward
<1>4. /\ \/ out[t] = "written" /\ pc'[t] = "apply" /\ lock' = lock
         \/ out[t] = "error" /\ pc'[t] = "done"
      /\ out'[t] = "none"
      /\ \A u \in Compiles \ {t} : pc'[u] = pc[u] /\ out'[u] = out[u]
  BY <1>1 DEF IInv, TypeOK
<1>5. BatchInv(t) /\ lock = t
  BY <1>1 DEF IInv, Rest, BatchInv, LockInv
<1>6. SameBatch(t)
  BY <1>1, <1>3, Batches
<1>7. QueueInv' /\ \A u : (Queued(u)' <=> Queued(u)) /\ (InFlight(u)' <=> InFlight(u))
  BY <1>1, <1>3, QueueStill DEF IInv, Rest, Onward
<1>8. BatchInv(t)'
  <2>1. (Held(t)' <=> Held(t)) /\ Hydrated' = Hydrated
    BY <1>2 DEF Held, Hydrated
  <2>2. LockInv(t)' /\ FreshInv(t)' /\ GoneInv(t)' /\ WaitInv(t)'
    BY <1>1, <1>2, <1>4, <1>5, <1>7, <2>1 DEF BatchInv, LockInv, FreshInv, GoneInv, WaitInv
  <2>3. PageInv(t)' /\ LandInv(t)' /\ FlightInv(t)'
    BY <1>1, <1>4, <1>5, <1>6, <1>7, <2>1 DEF BatchInv, SameBatch, PageInv, LandInv, FlightInv, GoneInv
  <2>4. HoldInv(t)'
    BY <1>1, <1>2, <1>5, <1>6, <1>7, <2>1 DEF BatchInv, SameBatch, HoldInv
  <2>5. Live(t)' /\ Landed(t)' => out[t] # "error"
    BY <1>1, <1>5, <1>6, LandedPaged DEF BatchInv, LandInv, SameBatch, Live
  <2>6. OwnInv(t)'
    BY <1>4, <2>5 DEF OwnInv
  <2> QED
    BY <2>2, <2>3, <2>4, <2>6 DEF BatchInv
<1>9. lock' = lock \/ lock \in {t, None}
  BY <1>5
<1> QED
  BY <1>1, <1>2, <1>3, <1>4, <1>6, <1>8, <1>9, CompileMoves

LEMMA TimeoutStep ==
    ASSUME IInv, NEW t \in Compiles, Timeout(t)
    PROVE  Rest'
<1>1. /\ pc[t] = "wait" /\ out[t] = "none" /\ left' = left \cup {t}
      /\ pc' = [pc EXCEPT ![t] = "done"] /\ lock' = None
      /\ UNCHANGED <<status, verdict, queue, writer, wpc, busy, out, pages, heldVars, excused>>
  BY DEF Timeout, Leave
<1>2. UNCHANGED <<again, sticky, stored>>
  BY <1>1 DEF heldVars
<1>3. Onward
  BY <1>1 DEF Onward
<1>4. /\ pc'[t] = "done" /\ t \in left'
      /\ \A u \in Compiles \ {t} : pc'[u] = pc[u] /\ (u \in left' <=> u \in left)
  BY <1>1 DEF IInv, TypeOK
<1>5. BatchInv(t) /\ lock = t
  BY <1>1 DEF IInv, Rest, BatchInv, LockInv
<1>6. SameBatch(t)
  BY <1>1, <1>3, Batches
<1>7. QueueInv' /\ \A u : (Queued(u)' <=> Queued(u)) /\ (InFlight(u)' <=> InFlight(u))
  BY <1>1, <1>3, QueueStill DEF IInv, Rest, Onward
<1>8. BatchInv(t)'
  <2>1. (Held(t)' <=> Held(t)) /\ Hydrated' = Hydrated
    BY <1>2 DEF Held, Hydrated
  <2>2. LockInv(t)' /\ FreshInv(t)' /\ GoneInv(t)' /\ WaitInv(t)'
    BY <1>1, <1>2, <1>4, <1>5, <1>7, <2>1 DEF BatchInv, LockInv, FreshInv, GoneInv, WaitInv
  <2>3. PageInv(t)' /\ LandInv(t)' /\ FlightInv(t)'
    BY <1>1, <1>4, <1>5, <1>6, <1>7, <2>1 DEF BatchInv, SameBatch, PageInv, LandInv, FlightInv
  <2>4. HoldInv(t)'
    BY <1>1, <1>2, <1>5, <1>6, <1>7, <2>1 DEF BatchInv, SameBatch, HoldInv
  <2>5. Live(t)' /\ Landed(t)' => writer = t
    BY <1>1, <1>5, <1>6, LandedPaged DEF BatchInv, WaitInv, PageInv, SameBatch, InFlight
  <2>6. OwnInv(t)'
    BY <1>1, <1>4, <2>5 DEF OwnInv
  <2> QED
    BY <2>2, <2>3, <2>4, <2>6 DEF BatchInv
<1>9. lock' = lock \/ lock \in {t, None}
  BY <1>5
<1> QED
  BY <1>1, <1>2, <1>3, <1>4, <1>6, <1>8, <1>9, CompileMoves

\* Before a batch is submitted.
LEMMA SelectSteps ==
    ASSUME IInv, NEW t \in Compiles, Select(t) \/ Busy(t) \/ GateRefused(t) \/ NoDrafts(t)
    PROVE  Rest'
<1>1. /\ pc[t] \in {"idle", "picked"} /\ UNCHANGED <<status, writerVars, heldVars, excused>>
      /\ verdict' = verdict \/ \E v : verdict' = [verdict EXCEPT ![t] = v]
      /\ \E p : pc' = [pc EXCEPT ![t] = p]
  BY DEF Select, Busy, GateRefused, NoDrafts, Leave, Forget
<1>2. \A u \in Compiles \ {t} : verdict'[u] = verdict[u] /\ pc'[u] = pc[u]
  BY <1>1 DEF IInv, TypeOK
<1>3. Onward
  BY <1>1 DEF Onward
<1>4. pc[t] = "picked" => lock = t
  BY DEF IInv, Rest, BatchInv, LockInv
<1>5. CASE Select(t) \/ Busy(t) \/ GateRefused(t)
  <2>1. /\ lock' = lock \/ lock \in {t, None}
        /\ pc'[t] = "done" \/ (pc'[t] = "picked" /\ lock' = t)
    BY <1>5 DEF Select, Busy, GateRefused, IInv, TypeOK
  <2> QED
    BY <1>1, <1>2, <1>3, <2>1, FreshMoves
<1>6. CASE NoDrafts(t)
  <2>1. pc[t] = "picked" /\ Drafts(t) = {}
    BY <1>6 DEF NoDrafts
  <2>2. \/ pc'[t] = "done"
        \/ pc'[t] = "apply" /\ lock' = lock /\ verdict' = verdict
    BY <1>6 DEF NoDrafts, Leave, IInv, TypeOK
  <2>3. verdict' = verdict => Drafts(t)' = {}
    BY <2>1 DEF Drafts, Of
  <2> QED
    BY <1>1, <1>2, <1>3, <1>4, <2>1, <2>2, <2>3, FreshMoves
<1> QED
  BY <1>5, <1>6

\* What Hydrated says of the hold.
LEMMA HydratedIs ==
    /\ Hydrated = None => sticky = None /\ stored = None
    /\ sticky = None => Hydrated = stored
    /\ sticky # None => Hydrated = sticky
BY DEF Hydrated

LEMMA SubmitStep ==
    ASSUME IInv, NEW t \in Compiles, Submit(t)
    PROVE  Rest'
<1>1. /\ pc[t] = "picked" /\ sticky' = Hydrated
      /\ UNCHANGED <<status, writer, wpc, left, out, pages, stored>>
  BY DEF Submit
<1>2. lock = t /\ t # None
  BY <1>1, AfmWriterAssumption DEF IInv, Rest, BatchInv, LockInv
<1>3. CASE /\ Hydrated # None /\ pc' = [pc EXCEPT ![t] = "reapply"] /\ again' = Hydrated
           /\ UNCHANGED <<verdict, lock, queue, busy, excused>>
  <2>1. Onward
    BY <1>1, <1>3 DEF Onward
  <2>2. Hydrated' = Hydrated
    BY <1>1, <1>3 DEF Hydrated
  <2>3. \A u \in Compiles : Held(u)' => Held(u)
    BY <1>1, <1>3 DEF Held, Hydrated
  <2>4. \A u \in Compiles : (Queued(u)' <=> Queued(u)) /\ (InFlight(u)' <=> InFlight(u))
    BY <1>1, <1>3, <2>1, QueueStill DEF IInv, Rest, Onward
  <2>5. pc'[t] = "reapply" /\ \A u \in Compiles \ {t} : pc'[u] = pc[u]
    BY <1>3 DEF IInv, TypeOK
  <2>6. \A u \in Compiles : SameBatch(u)
    BY <1>1, <1>3, <2>1, Batches
  <2>7. \A u \in Compiles : HoldInv(u)' /\ FlightInv(u)'
    <3> SUFFICES ASSUME NEW u \in Compiles PROVE HoldInv(u)' /\ FlightInv(u)'
      OBVIOUS
    <3>1. BatchInv(u)
      BY DEF IInv, Rest
    <3>2. HoldInv(u)'
      BY <1>1, <1>3, <2>2, <2>4, <2>6, <3>1 DEF BatchInv, HoldInv, SameBatch
    <3>3. FlightInv(u)'
      BY <1>3, <2>4, <3>1 DEF BatchInv, FlightInv
    <3> QED
      BY <3>2, <3>3
  <2>8. \A u \in Compiles \ {t} : OwnInv(u)'
    BY <1>1, <2>2, <2>5, <2>6 DEF IInv, Rest, BatchInv, OwnInv, SameBatch
  <2>9. again' # None /\ lock' = t
    BY <1>2, <1>3
  <2> QED
    BY <1>1, <1>3, <2>1, <2>3, <2>5, <2>7, <2>8, <2>9, HoldMoves
<1>4. CASE Hydrated = None /\ Leave(t) /\ Forget(t) /\ UNCHANGED <<again, queue, busy, excused>>
  <2>1. UNCHANGED <<writerVars, heldVars>> /\ Onward
    BY <1>1, <1>4, HydratedIs DEF writerVars, heldVars, Onward
  <2>2. pc'[t] = "done" /\ \A u \in Compiles \ {t} : verdict'[u] = verdict[u] /\ pc'[u] = pc[u]
    BY <1>4 DEF Leave, Forget, IInv, TypeOK
  <2>3. lock \in {t, None}
    BY <1>2
  <2> QED
    BY <1>1, <2>1, <2>2, <2>3, FreshMoves
<1>5. CASE Hydrated = None /\ busy = None /\ Enqueue(t) /\ excused' = excused \cup Stale(t) /\ UNCHANGED <<again, lock>>
  <2>1. Onward
    BY <1>1, <1>5 DEF Onward
  <2>2. sticky = None /\ stored = None /\ sticky' = None /\ stored' = None
    BY <1>1, <1>5, HydratedIs
  <2>3. Hydrated' = None
    BY <2>2 DEF Hydrated
  <2>4. \A u \in Compiles : Held(u)' => Held(u)
    BY <1>5, <2>2 DEF Held
  <2>5. \A u \in Compiles : InFlight(u) => u \in excused'
    BY <1>5, AfmWriterAssumption DEF IInv, Rest, BatchInv, FlightInv
  <2>6. verdict' = verdict
    BY <1>5 DEF Enqueue
  <2>7. \A u \in Compiles : Live(u)' => Live(u)
    BY <1>1, <2>1, <2>6, Batches DEF SameBatch
  <2>8. \A u \in Compiles : Live(u)' => u \notin {Hydrated, Hydrated', again', stored'}
    BY <1>5, <2>2, <2>3, <2>7, AfmWriterAssumption DEF IInv, Rest, BatchInv, HoldInv
  <2> QED
    BY <1>1, <1>5, <2>1, <2>4, <2>5, <2>8, EnqueueMoves
<1> QED
  BY <1>3, <1>4, <1>5 DEF Submit

\* The held application has been made again, wholly or not.
LEMMA ReapplyFailedStep ==
    ASSUME IInv, NEW t \in Compiles, ReapplyFailed(t)
    PROVE  Rest'
<1>1. /\ pc[t] = "reapply" /\ sticky' = again /\ stored' \in {again, stored} /\ again' = None
      /\ excused' = excused \cup Dropped({sticky})
      /\ Leave(t) /\ Forget(t)
      /\ UNCHANGED <<status, queue, writer, wpc, busy, left, out, pages>>
  BY DEF ReapplyFailed, Store, writerVars
<1>2. again # None
  BY <1>1 DEF IInv, Rest, BatchInv, LockInv
<1>3. Onward
  BY <1>1 DEF Onward
<1>4. pc'[t] = "done" /\ \A u \in Compiles \ {t} : verdict'[u] = verdict[u] /\ pc'[u] = pc[u]
  BY <1>1 DEF Leave, Forget, IInv, TypeOK
<1>5. \A u \in Compiles : Held(u)' => Held(u)
  BY <1>1, AfmWriterAssumption DEF Held
<1>6. Hydrated' = again
  BY <1>1, <1>2 DEF Hydrated
<1>7. \A u \in Compiles : (Queued(u)' <=> Queued(u)) /\ (InFlight(u)' <=> InFlight(u))
  BY <1>1, <1>3, QueueStill DEF IInv, Rest, Onward
<1>8. \A u \in Compiles \ {t} : SameBatch(u)
  BY <1>1, <1>3, <1>4, Batches
<1>9. ASSUME NEW u \in Compiles, u # t, Live(u)', u # again PROVE sticky # u /\ stored # u
  <2>1. Live(u)
    BY <1>8, <1>9 DEF SameBatch
  <2>2. sticky # u
    BY <1>1, <1>9, AfmWriterAssumption DEF Live, Dropped
  <2>3. stored = u => sticky = u
    BY <1>2, <1>9, <2>1 DEF IInv, Rest, BatchInv, HoldInv
  <2> QED
    BY <2>2, <2>3
<1>10. \A u \in Compiles : HoldInv(u)' /\ FlightInv(u)'
  <2> SUFFICES ASSUME NEW u \in Compiles PROVE HoldInv(u)' /\ FlightInv(u)'
    OBVIOUS
  <2>1. BatchInv(u)
    BY DEF IInv, Rest
  <2>2. FlightInv(u)'
    BY <1>1, <1>7, <2>1 DEF BatchInv, FlightInv
  <2>3. ~Held(t) /\ t # None
    BY <1>1, AfmWriterAssumption DEF IInv, Rest, BatchInv, FreshInv
  <2>4. CASE u = t
    <3>1. Hydrated' # t /\ again' # t /\ stored' # t
      BY <1>1, <1>6, <2>3 DEF Held
    <3> QED
      BY <2>2, <2>4, <3>1 DEF HoldInv
  <2>5. CASE u # t /\ u # again
    <3>1. Live(u)' => Hydrated' # u /\ again' # u /\ stored' # u
      BY <1>1, <1>6, <1>9, <2>5, AfmWriterAssumption
    <3> QED
      BY <2>2, <3>1 DEF HoldInv
  <2>6. CASE u # t /\ u = again
    <3>1. Live(u)' => Live(u)
      BY <1>8, <2>6 DEF SameBatch
    <3>2. Live(u)' => \A v \in Compiles : ~InFlight(v)'
      BY <1>7, <2>1, <2>6, <3>1 DEF BatchInv, HoldInv
    <3>3. HoldInv(u)'
      BY <1>1, <1>6, <2>6, <3>2 DEF HoldInv
    <3> QED
      BY <2>2, <3>3
  <2> QED
    BY <2>4, <2>5, <2>6
<1>11. ASSUME NEW u \in Compiles \ {t} PROVE OwnInv(u)'
  <2>1. OwnInv(u) /\ SameBatch(u)
    BY <1>8 DEF IInv, Rest, BatchInv
  <2>2. Live(u)' /\ Hydrated = u => Hydrated' = u
    BY <1>6, <1>9 DEF Hydrated
  <2> QED
    BY <1>1, <1>4, <2>1, <2>2 DEF OwnInv, SameBatch
<1> QED
  BY <1>1, <1>3, <1>4, <1>5, <1>10, <1>11, HoldMoves

LEMMA ReapplyDoneStep ==
    ASSUME IInv, NEW t \in Compiles, ReapplyDone(t)
    PROVE  Rest'
<1>1. /\ pc[t] = "reapply" /\ Settled(again)
      /\ sticky' = None /\ stored' \in {None, stored} /\ again' = None
      /\ \/ /\ Leave(t) /\ Forget(t) /\ busy' = None /\ UNCHANGED queue
            /\ excused' = excused \cup Dropped({sticky, busy})
         \/ /\ Enqueue(t) /\ UNCHANGED lock
            /\ excused' = excused \cup Stale(t) \cup Dropped({sticky, busy})
      /\ UNCHANGED <<status, writer, wpc, left, out, pages>>
  BY CompleteSettles DEF ReapplyDone, Store
<1>2. /\ again # None /\ again \in Compiles /\ None \notin Compiles
      /\ ~Held(t) /\ ~InFlight(again)
  BY <1>1, AfmWriterAssumption DEF IInv, TypeOK, Rest, BatchInv, LockInv, FreshInv, GoneInv, Held
<1>3. Onward
  BY <1>1 DEF Onward
<1>4. \A u \in Compiles : Held(u)' => Held(u)
  BY <1>1, <1>2 DEF Held
<1>5. \A u \in Compiles : InFlight(u) => u \in excused'
  <2> SUFFICES ASSUME NEW u \in Compiles, InFlight(u), u \notin excused' PROVE FALSE
    OBVIOUS
  <2>1. busy = u /\ u # again
    BY <1>1, <1>2 DEF IInv, Rest, BatchInv, FlightInv
  <2> QED
    BY <1>1, <1>2, <2>1 DEF Dropped
<1>6. ASSUME NEW u \in Compiles, u # t \/ verdict'[t] = verdict[t], Live(u)'
      PROVE  sticky # u /\ stored # u /\ Hydrated # u /\ stored' # u
  <2>1. verdict'[u] = verdict[u]
    BY <1>1, <1>6 DEF Forget, Enqueue, IInv, TypeOK
  <2>2. Live(u)
    BY <1>1, <1>3, <1>6, <2>1, Batches DEF SameBatch
  <2>3. u # again
    BY <1>1, <2>2 DEF Live
  <2>4. sticky # u
    BY <1>1, <1>2, <1>6, <2>3 DEF Live, Dropped
  <2>5. stored # u
    BY <1>2, <2>2, <2>3, <2>4 DEF IInv, Rest, BatchInv, HoldInv
  <2> QED
    BY <1>1, <1>2, <2>4, <2>5 DEF Hydrated
<1>7. Hydrated' = stored'
  BY <1>1 DEF Hydrated
<1>8. CASE Leave(t) /\ Forget(t) /\ busy' = None /\ UNCHANGED queue
  <2>1. pc'[t] = "done" /\ \A u \in Compiles \ {t} : verdict'[u] = verdict[u] /\ pc'[u] = pc[u]
    BY <1>8 DEF Leave, Forget, IInv, TypeOK
  <2>2. \A u \in Compiles : (Queued(u)' <=> Queued(u)) /\ (InFlight(u)' <=> InFlight(u))
    BY <1>1, <1>3, <1>8, QueueStill DEF IInv, Rest, Onward
  <2>3. stored # t /\ t # None
    BY <1>2 DEF Held
  <2>4. \A u \in Compiles : HoldInv(u)' /\ FlightInv(u)'
    <3> SUFFICES ASSUME NEW u \in Compiles PROVE HoldInv(u)' /\ FlightInv(u)'
      OBVIOUS
    <3>1. Live(u)' => stored' # u /\ again' # u
      BY <1>1, <1>2, <1>6, <2>3
    <3> QED
      BY <1>5, <1>7, <2>2, <3>1 DEF HoldInv, FlightInv
  <2>5. ASSUME NEW u \in Compiles \ {t} PROVE OwnInv(u)'
    <3>1. OwnInv(u) /\ SameBatch(u)
      BY <1>1, <1>3, <2>1, Batches DEF IInv, Rest, BatchInv
    <3> QED
      BY <1>1, <1>6, <2>1, <3>1 DEF OwnInv, SameBatch
  <2> QED
    BY <1>1, <1>3, <1>4, <1>8, <2>1, <2>4, <2>5, HoldMoves
<1>9. CASE /\ Enqueue(t) /\ UNCHANGED lock
           /\ excused' = excused \cup Stale(t) \cup Dropped({sticky, busy})
  <2>1. verdict'[t] = verdict[t]
    BY <1>9 DEF Enqueue
  <2>2. \A u \in Compiles : Live(u)' => u \notin {Hydrated, Hydrated', again', stored'}
    BY <1>1, <1>2, <1>6, <1>7, <2>1
  <2>3. Stale(t) \subseteq excused'
    BY <1>9
  <2> QED
    BY <1>1, <1>3, <1>4, <1>5, <1>9, <2>2, <2>3, EnqueueMoves
<1> QED
  BY <1>1, <1>8, <1>9

\* A death: what is not stored and has no pages is gone.
LEMMA CrashStep ==
    ASSUME IInv, Crash
    PROVE  Rest'
<1>1. /\ lock' = None /\ queue' = <<>> /\ writer' = None /\ wpc' = "idle" /\ busy' = None /\ left' = {}
      /\ again' = None /\ sticky' = None
      /\ pc' = [t \in Compiles |-> IF pc[t] = "idle" THEN "idle" ELSE "done"]
      /\ out' = [t \in Compiles |-> "none"]
      /\ verdict' = [t \in Compiles |-> IF t = stored \/ Paged(t) THEN verdict[t] ELSE Nothing]
      /\ excused' = excused \cup {t \in Compiles \ {stored} : Paged(t)}
      /\ UNCHANGED <<status, pages, stored>>
  BY DEF Crash
<1>2. \A u \in Compiles : ~InFlight(u)' /\ ~Queued(u)' /\ writer' # u
  BY <1>1, AfmWriterAssumption DEF InFlight, Queued
<1>3. QueueInv'
  BY <1>1 DEF QueueInv
<1>4. Hydrated' = stored' /\ \A u \in Compiles : (Held(u)' <=> stored = u) /\ (Held(u)' => Held(u))
  BY <1>1, AfmWriterAssumption DEF Hydrated, Held
<1>5. Onward
  BY <1>1 DEF Onward
<1>6. ASSUME NEW u \in Compiles PROVE IF u = stored \/ Paged(u) THEN SameBatch(u) ELSE Drafts(u)' = {}
  <2>1. CASE u = stored \/ Paged(u)
    <3>1. verdict'[u] = verdict[u]
      BY <1>1, <2>1
    <3> QED
      BY <1>1, <1>5, <2>1, <3>1, Batches
  <2>2. CASE ~(u = stored \/ Paged(u))
    <3>1. verdict'[u] = Nothing
      BY <1>1, <2>2
    <3>2. Drafts(u)' = {}
      BY <3>1 DEF Drafts, Of, Nothing
    <3> QED
      BY <2>2, <3>2
  <2> QED
    BY <2>1, <2>2
<1>7. ClaimInv'
  <2>1. ASSUME NEW u \in Compiles, NEW c \in Candidates, Claims(u, c)' PROVE Claims(u, c)
    BY <1>2, <1>6, <2>1 DEF Claims, SameBatch
  <2> QED
    BY <1>5, <2>1, ClaimStill DEF IInv, Rest, Onward
<1>8. ASSUME NEW u \in Compiles PROVE BatchInv(u)'
  <2>1. BatchInv(u)
    BY DEF IInv, Rest
  <2>2. /\ out'[u] = "none" /\ u \notin left' /\ (pc'[u] = "idle" <=> pc[u] = "idle")
        /\ pc'[u] \in {"idle", "done"}
    BY <1>1
  <2>3. Paged(u)' <=> Paged(u)
    BY <1>1 DEF Paged
  <2>4. Paged(u)' => u \in excused' \/ u = stored
    BY <1>1, <2>3
  <2>5. u = stored => Landed(u)' /\ pc[u] = "done"
    BY <1>4, <1>6, <2>1 DEF BatchInv, GoneInv, LandInv, SameBatch
  <2>6. LockInv(u)' /\ FreshInv(u)' /\ GoneInv(u)' /\ WaitInv(u)'
    BY <1>1, <1>2, <1>4, <2>1, <2>2, <2>3, <2>5 DEF BatchInv, LockInv, FreshInv, GoneInv, WaitInv
  <2>7. \A c \in Candidates : <<c, u>> \in pages' => c \in Drafts(u)'
    BY <1>1, <1>6, <2>1 DEF BatchInv, PageInv, SameBatch, Paged
  <2>8. PageInv(u)' /\ LandInv(u)' /\ FlightInv(u)'
    BY <1>1, <1>2, <1>4, <2>2, <2>4, <2>5, <2>7 DEF PageInv, LandInv, FlightInv
  <2>9. HoldInv(u)'
    BY <1>1, <1>2, <1>4, AfmWriterAssumption DEF HoldInv
  <2>10. OwnInv(u)'
    BY <1>1, <1>4, <2>4, LandedPaged DEF OwnInv, Live
  <2> QED
    BY <2>6, <2>8, <2>9, <2>10 DEF BatchInv
<1> QED
  BY <1>3, <1>7, <1>8 DEF Rest

\* A verdict is applied, or an operator settles a candidate.
LEMMA OneApplied ==
    ASSUME IInv, NEW a \in Actors, NEW t, NEW whole, ApplyOne(a, t, whole), UNCHANGED excused
    PROVE  Onward
<1>1. \/ UNCHANGED status
      \/ \E c \in todo[a], v \in {"fenced", "closed"} : status' = [status EXCEPT ![c] = v]
  BY DEF ApplyOne
<1> QED
  BY <1>1 DEF Onward, IInv, TypeOK

LEMMA StatusSteps ==
    ASSUME IInv,
           \/ \E t \in Compiles : DirectStep(t) \/ ReapplyStep(t)
           \/ WorkerStep \/ (\E c \in Candidates : Resolve(c)) \/ UNCHANGED vars
    PROVE  Rest'
<1>1. UNCHANGED <<verdict, pc, lock, writerVars, heldVars, excused>>
  BY DEF DirectStep, ReapplyStep, WorkerStep, Resolve, vars, writerVars, heldVars
<1>2. Onward
  <2>1. ASSUME NEW t \in Compiles, DirectStep(t) PROVE Onward
    BY <1>1, <2>1, OneApplied DEF DirectStep, Actors
  <2>2. ASSUME NEW t \in Compiles, ReapplyStep(t) PROVE Onward
    BY <1>1, <2>2, OneApplied DEF ReapplyStep, Actors
  <2>3. ASSUME WorkerStep PROVE Onward
    BY <1>1, <2>3, OneApplied DEF WorkerStep, Actors
  <2>4. ASSUME NEW c \in Candidates, Resolve(c) PROVE Onward
    BY <1>1, <2>4 DEF Resolve, Onward, IInv, TypeOK
  <2>5. ASSUME UNCHANGED vars PROVE Onward
    BY <2>5 DEF vars, Onward
  <2> QED
    BY <2>1, <2>2, <2>3, <2>4, <2>5
<1> QED
  BY <1>1, <1>2, StatusStep

LEMMA OwnerStep ==
    ASSUME IInv, [Next]_vars
    PROVE  Rest'
<1>1. ASSUME NEW t \in Compiles, Select(t) \/ Busy(t) \/ GateRefused(t) \/ NoDrafts(t) PROVE Rest'
  BY <1>1, SelectSteps
<1>2. ASSUME NEW t \in Compiles, Submit(t) \/ DirectEnd(t) \/ ReapplyFailed(t) \/ ReapplyDone(t) PROVE Rest'
  BY <1>2, SubmitStep, DirectEndStep, ReapplyFailedStep, ReapplyDoneStep
<1>3. ASSUME NEW t \in Compiles, Receive(t) \/ Timeout(t) PROVE Rest'
  BY <1>3, ReceiveStep, TimeoutStep
<1>4. ASSUME Take PROVE Rest'
  BY <1>4, TakeStep
<1>5. ASSUME WritePage \/ WriteFails \/ WriteEnds \/ HandOver \/ TakeOver \/ WorkerEnd PROVE Rest'
  <2>1. wpc # "idle"
    BY <1>5 DEF WritePage, WriteFails, WriteEnds, HandOver, TakeOver, WorkerEnd
  <2>2. writer \in Compiles
    BY <2>1 DEF IInv, TypeOK, WorkInv
  <2>3. PICK w \in Compiles : writer = w
    BY <2>2
  <2> QED
    BY <1>5, <2>3, WritePageStep, WriteFailsStep, WriteEndsStep, HandOverStep, TakeOverStep, WorkerEndStep
<1>6. ASSUME Crash PROVE Rest'
  BY <1>6, CrashStep
<1>7. ASSUME \/ \E t \in Compiles : DirectStep(t) \/ ReapplyStep(t)
             \/ WorkerStep \/ (\E c \in Candidates : Resolve(c)) \/ UNCHANGED vars
      PROVE  Rest'
  BY <1>7, StatusSteps
<1> QED
  BY Zenon, <1>1, <1>2, <1>3, <1>4, <1>5, <1>6, <1>7 DEF Next

LEMMA OwnerInvariant == Spec => []IInv
<1>1. Init => IInv
  <2> SUFFICES ASSUME Init PROVE IInv
    OBVIOUS
  <2>1. TypeOK /\ WorkInv
    BY InitType
  <2>2. QueueInv
    BY DEF Init, QueueInv
  <2>3. \A u \in Compiles : ~InFlight(u) /\ ~Queued(u) /\ ~Held(u) /\ ~Paged(u) /\ Hydrated # u
    BY AfmWriterAssumption DEF Init, InFlight, Queued, Held, Paged, Hydrated
  <2>4. ClaimInv
    BY <2>3 DEF Init, ClaimInv, Claims
  <2>5. ASSUME NEW u \in Compiles PROVE BatchInv(u)
    <3>1. LockInv(u) /\ FreshInv(u) /\ GoneInv(u) /\ WaitInv(u)
      BY <2>3 DEF Init, LockInv, FreshInv, GoneInv, WaitInv
    <3>2. PageInv(u) /\ LandInv(u) /\ FlightInv(u)
      BY <2>3, AfmWriterAssumption DEF Init, PageInv, LandInv, FlightInv
    <3>3. HoldInv(u)
      BY <2>3, AfmWriterAssumption DEF Init, HoldInv
    <3>4. OwnInv(u)
      BY <2>3, LandedPaged DEF OwnInv
    <3> QED
      BY <3>1, <3>2, <3>3, <3>4 DEF BatchInv
  <2> QED
    BY <2>1, <2>2, <2>4, <2>5 DEF IInv, Rest
<1>2. IInv /\ [Next]_vars => IInv'
  BY TypeStep, OwnerStep DEF IInv
<1> QED
  BY <1>1, <1>2, PTL DEF Spec

\* No verdict is applied, or held to be applied, before every draft of its batch
\* is on disk; and a landed batch whose reviews are still to be made is in exactly
\* one hand: its waiter's, the worker's or the hold's, unless it is excused.
THEOREM OneOwner == Spec => []DecisionHasOneOwner
<1>1. IInv => DecisionHasOneOwner
  <2> SUFFICES ASSUME IInv PROVE DecisionHasOneOwner
    OBVIOUS
  <2>1. ASSUME NEW t \in Compiles, pc[t] = "apply" \/ (writer = t /\ wpc = "apply") \/ sticky = t \/ stored = t
        PROVE  Landed(t)
    BY <2>1 DEF IInv, Rest, BatchInv, LandInv, Held
  <2>2. ASSUME NEW t \in Compiles \ excused, Landed(t), Remaining(t, Drafts(t)) # {}
        PROVE  Cardinality({h \in {"waiter", "worker", "hold"} :
                   \/ h = "waiter" /\ pc[t] \in {"wait", "apply"}
                   \/ h = "worker" /\ writer = t /\ t \in left
                   \/ h = "hold" /\ Hydrated = t}) = 1
    <3> DEFINE hands == {h \in {"waiter", "worker", "hold"} :
                            \/ h = "waiter" /\ pc[t] \in {"wait", "apply"}
                            \/ h = "worker" /\ writer = t /\ t \in left
                            \/ h = "hold" /\ Hydrated = t}
    <3>1. BatchInv(t)
      BY DEF IInv, Rest
    <3>2. Live(t)
      BY <2>2 DEF Live, Settled, Remaining, Drafts, Of
    <3>3. pc[t] \in {"wait", "apply"} \/ (writer = t /\ t \in left) \/ Hydrated = t
      BY <2>2, <3>1, <3>2 DEF BatchInv, OwnInv
    <3>4. t \in left => pc[t] = "done"
      BY <3>1 DEF BatchInv, GoneInv
    <3>5. Hydrated = t => pc[t] = "done" /\ writer # t
      BY <3>1 DEF BatchInv, GoneInv, Held, Hydrated, InFlight
    <3>6. \E h : hands = {h}
      BY <3>3, <3>4, <3>5
    <3> QED
      BY <3>6, FS_Singleton
  <2> QED
    BY <2>1, <2>2 DEF DecisionHasOneOwner
<1> QED
  BY <1>1, OwnerInvariant, PTL

\* A candidate gets a second set of drafts only if a batch was excused.
THEOREM NoDoubles == Spec => []NoSecondDraft
<1>1. IInv => NoSecondDraft
  <2> SUFFICES ASSUME IInv, NEW c \in Candidates, NEW t \in Compiles \ excused, NEW u \in Compiles \ excused,
                      <<c, t>> \in pages, <<c, u>> \in pages
               PROVE  t = u
    BY DEF NoSecondDraft
  <2>1. Claims(t, c) /\ Claims(u, c)
    BY DEF IInv, Rest, BatchInv, PageInv, Claims
  <2> QED
    BY <2>1 DEF IInv, Rest, ClaimInv
<1> QED
  BY <1>1, OwnerInvariant, PTL
=============================================================================
