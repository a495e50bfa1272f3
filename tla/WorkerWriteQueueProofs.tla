---------------------- MODULE WorkerWriteQueueProofs ----------------------
(* Theorems about WorkerWriteQueue, for any calls, actions, generations,      *)
(* replans and deaths.                                                         *)
EXTENDS WorkerWriteQueue, WellFoundedInduction, SequenceTheorems, TLAPS

Appliers == Calls \cup Drains

\* Where an actor works under the plan lock.
Locked  == {"pick", "recheck", "apply", "persist", "commit", "journal", "finish", "fail"}
Guarded == Locked \cup {"supersede"}

\* Each actor stands somewhere, each applier carries something.
Shape == DOMAIN pc = Actors /\ DOMAIN item = Appliers /\ DOMAIN persisted = Calls

\* Whoever works under the plan lock holds it.
HolderInv == \A a \in Actors : pc[a] \in Guarded => lock = a

\* What was checked under the lock still holds at the write.
Due(c)     == Gen[c] = slice.gen /\ Open
DueThen(c) == Gen[c] = slice'.gen /\ slice'.status \notin {"done", "superseded"}
ApplyInv == \A a \in Appliers : pc[a] = "persist" => Due(item[a].call)

Inv == Shape /\ HolderInv /\ ApplyInv

\* An actor that is not to write moves; the slice stays.
LEMMA Move ==
    ASSUME Inv, NEW a \in Actors, UNCHANGED slice,
           DOMAIN pc' = Actors, DOMAIN item' = Appliers, DOMAIN persisted' = Calls,
           \A b \in Actors \ {a} : pc'[b] = pc[b] \/ pc'[b] \notin Guarded,
           \A b \in Appliers \ {a} : item'[b] = item[b],
           pc'[a] # "persist",
           \/ lock' = lock /\ (pc[a] \in Guarded \/ pc'[a] \notin Guarded)
           \/ lock = None /\ lock' = a
           \/ lock = a /\ lock' = None /\ pc'[a] \notin Guarded
    PROVE  Inv'
<1>1. None \notin Actors /\ Appliers \subseteq Actors
  BY QueueAssumption DEF Actors, Appliers
<1>2. Shape'
  BY DEF Shape
<1>3. HolderInv'
  <2> SUFFICES ASSUME NEW b \in Actors, pc'[b] \in Guarded PROVE lock' = b
    BY DEF HolderInv
  <2>1. b # a => lock = b
    BY DEF Inv, HolderInv
  <2>2. pc[a] \in Guarded => lock = a
    BY DEF Inv, HolderInv
  <2> QED
    BY <1>1, <2>1, <2>2
<1>4. ApplyInv'
  <2> SUFFICES ASSUME NEW b \in Appliers, pc'[b] = "persist" PROVE DueThen(item'[b].call)
    BY DEF ApplyInv, Due, DueThen, Open
  <2>1. b # a /\ b \in Actors /\ pc[b] = "persist" /\ item'[b] = item[b]
    BY <1>1 DEF Guarded, Locked
  <2>2. Due(item[b].call)
    BY <2>1 DEF Inv, ApplyInv
  <2> QED
    BY <2>1, <2>2 DEF Due, DueThen, Open
<1> QED
  BY <1>2, <1>3, <1>4 DEF Inv

\* A call, short of the lock and after it.
LEMMA CallMoves ==
    ASSUME Inv, NEW c \in Calls, Call(c) \/ CallStep(c)
    PROVE  Inv' /\ persisted' = persisted
<1>1. c \in Actors /\ c \in Appliers /\ DOMAIN pc = Actors /\ DOMAIN item = Appliers /\ DOMAIN persisted = Calls
  BY DEF Actors, Appliers, Inv, Shape
<1>2. "kick" \in Actors
  BY DEF Actors, Drains
<1>3. UNCHANGED <<slice, persisted>>
  BY DEF Call, CallStep, Find, Look, TryLock, Refuse, ReadGeneration, StampStart, Room, Link, Applied, Rejected, note
<1>4. DOMAIN pc' = Actors /\ \A b \in Actors \ {c} : pc'[b] = pc[b] \/ pc'[b] \notin Guarded
  BY <1>1, <1>2 DEF Call, CallStep, Find, Look, TryLock, Refuse, ReadGeneration, StampStart, Room, Link,
     Applied, Rejected, Goto, Accept, ReturnAndKick, Guarded, Locked
<1>5. DOMAIN item' = Appliers /\ \A b \in Appliers \ {c} : item'[b] = item[b]
  BY <1>1 DEF Call, CallStep, Find, Look, TryLock, Refuse, ReadGeneration, StampStart, Room, Link,
     Applied, Rejected, Accept, Unlock
<1>6. /\ pc'[c] # "persist"
      /\ \/ lock' = lock /\ pc'[c] \notin Guarded
         \/ lock = None /\ lock' = c
         \/ lock = c /\ lock' = None /\ pc'[c] \notin Guarded
  BY <1>1, <1>2 DEF Call, CallStep, Find, Look, TryLock, Refuse, ReadGeneration, StampStart, Room, Link,
     Applied, Rejected, Goto, Accept, ReturnAndKick, Unlock, Lock!Acquire, Lock!Release, Guarded, Locked
<1> QED
  BY <1>1, <1>3, <1>4, <1>5, <1>6, Move

\* A drain, but for the work it shares with the calls.
LEMMA DrainMoves ==
    ASSUME Inv, NEW d \in Drains, DrainStep(d) \/ (d = "tick" /\ Tick) \/ (d = "kick" /\ YieldOnce)
    PROVE  Inv' /\ persisted' = persisted
<1>1. d \in Actors /\ d \in Appliers /\ DOMAIN pc = Actors /\ DOMAIN item = Appliers /\ DOMAIN persisted = Calls
  BY DEF Actors, Appliers, Inv, Shape
<1>2. UNCHANGED <<slice, persisted>>
  BY DEF DrainStep, Tick, YieldOnce, Top, Wait, DrainLock, PickNothing, PickReserved, Drop, Pick, Drained, Park, note
<1>3. DOMAIN pc' = Actors /\ \A b \in Actors \ {d} : pc'[b] = pc[b]
  BY <1>1 DEF DrainStep, Tick, YieldOnce, Top, Wait, DrainLock, PickNothing, PickReserved, Drop, Pick, Drained, Park,
     Goto, End
<1>4. DOMAIN item' = Appliers /\ \A b \in Appliers \ {d} : item'[b] = item[b]
  BY <1>1 DEF DrainStep, Tick, YieldOnce, Top, Wait, DrainLock, PickNothing, PickReserved, Drop, Pick, Drained, Park,
     Unlock
<1>5. /\ pc'[d] # "persist"
      /\ \/ lock' = lock /\ (pc[d] \in Guarded \/ pc'[d] \notin Guarded)
         \/ lock = None /\ lock' = d
         \/ lock = d /\ lock' = None /\ pc'[d] \notin Guarded
  BY <1>1 DEF DrainStep, Tick, YieldOnce, Top, Wait, DrainLock, PickNothing, PickReserved, Drop, Pick, Drained, Park,
     Goto, End, Unlock, Lock!Acquire, Lock!Release, Guarded, Locked
<1> QED
  BY <1>1, <1>2, <1>3, <1>4, <1>5, Move

\* Under the lock, short of the write itself.
LEMMA LockedMoves ==
    ASSUME Inv, NEW a \in Appliers, Recheck(a) \/ Commit(a) \/ Journal(a) \/ StoreFails(a)
    PROVE  Inv' /\ persisted' = persisted
<1>1. a \in Actors /\ DOMAIN pc = Actors /\ DOMAIN item = Appliers /\ DOMAIN persisted = Calls
  BY DEF Actors, Appliers, Inv, Shape
<1>2. UNCHANGED <<slice, persisted>>
  BY DEF Recheck, Commit, Journal, StoreFails, note
<1>3. DOMAIN pc' = Actors /\ \A b \in Actors \ {a} : pc'[b] = pc[b]
  BY <1>1 DEF Recheck, Commit, Journal, StoreFails, Goto
<1>4. DOMAIN item' = Appliers /\ \A b \in Appliers \ {a} : item'[b] = item[b]
  BY <1>1 DEF Recheck, Commit, Journal, StoreFails, Unlock
<1>5. /\ pc'[a] # "persist"
      /\ \/ lock' = lock /\ pc[a] \in Guarded
         \/ lock = a /\ lock' = None /\ pc'[a] \notin Guarded
  BY <1>1 DEF Recheck, Commit, Journal, StoreFails, Goto, Unlock, Lock!Release, Guarded, Locked
<1> QED
  BY <1>1, <1>2, <1>3, <1>4, <1>5, Move

\* The checks, under the lock, that allow the write.
LEMMA ApplyChecks ==
    ASSUME Inv, NEW a \in Appliers, Apply(a)
    PROVE  Inv' /\ persisted' = persisted
<1> DEFINE c == item[a].call
<1>1. a \in Actors /\ DOMAIN pc = Actors /\ None \notin Actors /\ Appliers \subseteq Actors
  BY QueueAssumption DEF Actors, Appliers, Inv, Shape
<1>2. UNCHANGED <<slice, persisted, item, lock>> /\ pc[a] = "apply"
  BY DEF Apply
<1>3. \E step \in {"finish", "fail", "persist"} : Goto(a, step) /\ (step = "persist" => ~Refused(c))
  BY DEF Apply, Its
<1>4. DOMAIN pc' = Actors /\ \A b \in Actors \ {a} : pc'[b] = pc[b]
  BY <1>1, <1>3 DEF Goto
<1>5. pc'[a] = "persist" => Due(c)
  BY <1>1, <1>3 DEF Goto, Refused, Due
<1>6. lock = a
  BY <1>1, <1>2 DEF Inv, HolderInv, Guarded, Locked
<1>7. Shape'
  BY <1>2, <1>4 DEF Inv, Shape
<1>8. HolderInv'
  BY <1>2, <1>4, <1>6 DEF Inv, HolderInv
<1>9. ApplyInv'
  <2> SUFFICES ASSUME NEW b \in Appliers, pc'[b] = "persist" PROVE DueThen(item'[b].call)
    BY DEF ApplyInv, Due, DueThen, Open
  <2>1. b = a => Due(item[b].call)
    BY <1>5
  <2>2. b # a => Due(item[b].call)
    BY <1>1, <1>4 DEF Inv, ApplyInv
  <2> QED
    BY <1>2, <2>1, <2>2 DEF Due, DueThen, Open
<1> QED
  BY <1>2, <1>7, <1>8, <1>9 DEF Inv

\* Nobody else stands where the lock's holder may write.
LEMMA Alone ==
    ASSUME Inv, NEW a, NEW b \in Appliers, lock = a, a # b
    PROVE  pc[b] \notin Guarded
BY DEF Inv, HolderInv, Actors, Appliers

\* The write: only of the call whose generation lives.
LEMMA PersistWrites ==
    ASSUME Inv, NEW a \in Appliers, Persist(a)
    PROVE  /\ Inv'
           /\ \A c \in Calls : persisted'[c] # persisted[c] => Due(c)
<1>1. a \in Actors /\ Appliers \subseteq Actors
  BY DEF Actors, Appliers
<1>2. /\ pc[a] = "persist" /\ pc' = [pc EXCEPT ![a] = "commit"]
      /\ persisted' = [persisted EXCEPT ![item[a].call] = @ + 1]
      /\ UNCHANGED <<item, lock>>
  BY DEF Persist, Goto, Its
<1>3. lock = a /\ Due(item[a].call)
  BY <1>1, <1>2 DEF Inv, HolderInv, ApplyInv, Guarded, Locked
<1>4. DOMAIN pc' = Actors /\ pc'[a] = "commit" /\ \A b \in Actors \ {a} : pc'[b] = pc[b]
  BY <1>1, <1>2 DEF Inv, Shape
<1>5. Shape'
  BY <1>2, <1>4 DEF Inv, Shape
<1>6. HolderInv'
  BY <1>2, <1>3, <1>4 DEF Inv, HolderInv
<1>7. \A b \in Appliers : pc'[b] # "persist"
  BY <1>1, <1>3, <1>4, Alone DEF Guarded, Locked
<1>8. ApplyInv'
  BY <1>7 DEF ApplyInv
<1>9. \A c \in Calls : persisted'[c] # persisted[c] => c = item[a].call
  BY <1>2 DEF Inv, Shape
<1> QED
  BY <1>3, <1>5, <1>6, <1>8, <1>9 DEF Inv

\* The generation dies under the lock, when nobody is about to write.
LEMMA ReplanMoves ==
    ASSUME Inv, Reserve \/ ReplanStep \/ Reassign
    PROVE  Inv' /\ persisted' = persisted
<1>1. "replan" \in Actors /\ None \notin Actors /\ Appliers \subseteq Actors
      /\ DOMAIN pc = Actors /\ DOMAIN item = Appliers /\ DOMAIN persisted = Calls
  BY QueueAssumption DEF Actors, Appliers, Inv, Shape
<1>2. UNCHANGED <<persisted, item>>
  BY DEF Reserve, ReplanStep, ReplanLock, Supersede, Withdraw, Reassign, NextGeneration, note
<1>3. CASE Reserve \/ ReplanLock \/ Withdraw
  <2>1. UNCHANGED slice
    BY <1>3 DEF Reserve, ReplanLock, Withdraw, note
  <2>2. /\ DOMAIN pc' = Actors /\ \A b \in Actors \ {"replan"} : pc'[b] = pc[b]
        /\ pc'["replan"] # "persist"
        /\ \/ lock' = lock /\ pc'["replan"] \notin Guarded
           \/ lock = None /\ lock' = "replan"
    BY <1>1, <1>3 DEF Reserve, ReplanLock, Withdraw, Goto, Lock!Acquire, Guarded, Locked
  <2> QED
    BY <1>1, <1>2, <2>1, <2>2, Move
<1>4. CASE Supersede \/ Reassign
  <2>1. \/ /\ lock = "replan" /\ lock' = None /\ pc["replan"] = "supersede"
           /\ pc' = [pc EXCEPT !["replan"] = "withdraw"]
        \/ lock = None /\ UNCHANGED <<lock, pc>>
    BY <1>4 DEF Supersede, Reassign, Goto, Lock!Release
  <2>2. DOMAIN pc' = Actors /\ \A b \in Actors : pc'[b] = pc[b] \/ pc'[b] = "withdraw"
    BY <1>1, <2>1
  <2>3. \A b \in Actors : pc'[b] \notin Guarded
    BY <1>1, <2>1, <2>2 DEF Inv, HolderInv, Guarded, Locked
  <2> QED
    BY <1>1, <1>2, <2>2, <2>3 DEF Inv, Shape, HolderInv, ApplyInv, Guarded, Locked
<1> QED
  BY <1>3, <1>4 DEF ReplanStep

\* A process dies and takes the lock its actors hold.
LEMMA CrashMoves ==
    ASSUME Inv, NEW p \in Procs, Crash(p)
    PROVE  Inv' /\ persisted' = persisted
<1>1. /\ pc' = [a \in Actors |-> IF a \in ActorsOf(p) THEN "idle" ELSE pc[a]]
      /\ item' = [a \in DOMAIN item |-> IF a \in ActorsOf(p) THEN NoTicket ELSE item[a]]
      /\ lock' = IF lock \in ActorsOf(p) THEN None ELSE lock
      /\ UNCHANGED <<slice, persisted>>
  BY Zenon DEF Crash, note
<1>2. Appliers \subseteq Actors
  BY DEF Actors, Appliers
<1> HIDE DEF Actors, Appliers
<1>3. Shape'
  BY <1>1 DEF Inv, Shape
<1>4. HolderInv'
  BY <1>1 DEF Inv, HolderInv, Guarded, Locked
<1>5. ApplyInv'
  <2> SUFFICES ASSUME NEW b \in Appliers, pc'[b] = "persist" PROVE DueThen(item'[b].call)
    BY DEF ApplyInv, Due, DueThen, Open
  <2>1. b \in Actors /\ pc[b] = "persist" /\ item'[b] = item[b]
    BY <1>1, <1>2 DEF Inv, Shape
  <2>2. Due(item[b].call)
    BY <2>1 DEF Inv, ApplyInv
  <2> QED
    BY <1>1, <2>1, <2>2 DEF Due, DueThen, Open
<1> QED
  BY <1>1, <1>3, <1>4, <1>5 DEF Inv

\* Nobody moves.
LEMMA StillMoves ==
    ASSUME Inv, Age \/ Finished \/ UNCHANGED vars
    PROVE  Inv' /\ persisted' = persisted
<1>1. UNCHANGED <<slice, persisted, pc, item, lock>>
  BY DEF Age, Finished, vars, note
<1> QED
  BY <1>1 DEF Inv, Shape, HolderInv, ApplyInv, Due, Open

LEMMA StepKeeps ==
    ASSUME Inv, [Next]_vars
    PROVE  /\ Inv'
           /\ \A c \in Calls : persisted'[c] # persisted[c] => Due(c)
<1>1. ASSUME NEW c \in Calls, Call(c) \/ CallStep(c) PROVE Inv' /\ persisted' = persisted
  BY <1>1, CallMoves
<1>2. ASSUME NEW d \in Drains, DrainStep(d) \/ (d = "tick" /\ Tick) \/ (d = "kick" /\ YieldOnce)
      PROVE  Inv' /\ persisted' = persisted
  BY <1>2, DrainMoves
<1>3. ASSUME NEW a \in Appliers, LockedStep(a)
      PROVE  Inv' /\ \A c \in Calls : persisted'[c] # persisted[c] => Due(c)
  <2>1. CASE Persist(a)
    BY <2>1, PersistWrites
  <2>2. CASE Apply(a)
    BY <2>2, ApplyChecks
  <2>3. CASE Recheck(a) \/ Commit(a) \/ Journal(a) \/ StoreFails(a)
    BY <2>3, LockedMoves
  <2> QED
    BY <1>3, <2>1, <2>2, <2>3 DEF LockedStep
<1>4. ASSUME Reserve \/ ReplanStep \/ Reassign PROVE Inv' /\ persisted' = persisted
  BY <1>4, ReplanMoves
<1>5. ASSUME NEW p \in Procs, Crash(p) PROVE Inv' /\ persisted' = persisted
  BY <1>5, CrashMoves
<1>6. ASSUME Age \/ Finished \/ UNCHANGED vars PROVE Inv' /\ persisted' = persisted
  BY <1>6, StillMoves
<1>7. "tick" \in Drains /\ "kick" \in Drains
  BY DEF Drains
<1> QED
  BY <1>1, <1>2, <1>3, <1>4, <1>5, <1>6, <1>7 DEF Next, Appliers

LEMMA QueueInvariant == Spec => []Inv
<1>1. Init => Inv
  BY DEF Init, Inv, Shape, HolderInv, ApplyInv, Appliers, Actors, Guarded, Locked
<1>2. Inv /\ [Next]_vars => Inv'
  BY StepKeeps
<1> QED
  BY <1>1, <1>2, PTL DEF Spec

\* A worker's update reaches the slice only while the generation its token is
\* a claim of lives, whenever it was queued, whoever applies it and whatever the
\* actions of the calls are.
THEOREM OwnGeneration == Spec => OnlyItsGeneration
<1>1. Inv /\ [Next]_vars => [\A c \in Calls : persisted'[c] # persisted[c] => Gen[c] = slice.gen /\ Open]_vars
  BY StepKeeps DEF Due
<1> QED
  BY <1>1, QueueInvariant, PTL DEF Spec, OnlyItsGeneration

-----------------------------------------------------------------------------
(* The queue as a sequence *)

\* One ticket per key.
Distinct(q) == \A i, j \in 1 .. Len(q) : q[i].call = q[j].call => i = j

LEMMA LeastIndex ==
    ASSUME NEW n \in Nat, NEW I, I \subseteq 1 .. n, I # {}
    PROVE  Min(I) \in I
<1> DEFINE R == OpToRel(<, Nat)
<1>1. I \subseteq Nat
  OBVIOUS
<1>2. \E x \in I : \A y \in I : ~(<<y, x>> \in R)
  BY <1>1, WFMin, NatLessThanWellFounded
<1>3. \A a, b \in Nat : a < b => <<a, b>> \in R
  <2> SUFFICES ASSUME NEW a \in Nat, NEW b \in Nat, a < b PROVE <<a, b>> \in R
    OBVIOUS
  <2>1. <<a, b>> \in {ss \in Nat \X Nat : ss[1] < ss[2]}
    OBVIOUS
  <2> QED
    BY ONLY <2>1, Zenon DEF OpToRel
<1> HIDE DEF R
<1>4. \A x, y \in I : ~(y < x) => x =< y
  BY <1>1
<1>5. \E x \in I : \A y \in I : ~(y < x)
  BY <1>1, <1>2, <1>3, Zenon
<1> QED
  BY <1>4, <1>5, Zenon DEF Min

\* The ticket a drain picks is in the queue.
LEMMA PickedIsQueued ==
    ASSUME queue \in Seq(Tickets), queue # <<>>
    PROVE  Picked \in ToSet(queue)
<1> DEFINE holdBack == \E t \in ToSet(queue) : Act[t.call] = "start"
           Ready(t) == Act[t.call] = "complete" => ~holdBack
           I == {i \in 1 .. Len(queue) : Ready(queue[i])}
<1>1. I # {}
  <2>1. CASE holdBack
    <3>1. PICK t \in ToSet(queue) : Act[t.call] = "start"
      BY <2>1
    <3> QED
      BY <3>1 DEF ToSet
  <2>2. CASE ~holdBack
    <3>1. 1 \in 1 .. Len(queue)
      OBVIOUS
    <3> QED
      BY <2>2, <3>1
  <2> QED
    BY <2>1, <2>2
<1>2. Picked = queue[Min(I)]
  BY <1>1 DEF Picked, SelectInSeq
<1> HIDE DEF I
<1>3. Min(I) \in I
  BY <1>1, LeastIndex DEF I
<1>4. Min(I) \in DOMAIN queue
  BY <1>3 DEF I
<1> QED
  BY <1>2, <1>4 DEF ToSet

LEMMA QueuedTicket ==
    ASSUME NEW c, Queued(c)
    PROVE  TicketOf(c) \in ToSet(queue) /\ TicketOf(c).call = c
BY DEF Queued, TicketOf

\* A ticket linked at the end of the queue.
LEMMA Linked ==
    ASSUME queue \in Seq(Tickets), Distinct(queue), NEW t \in Tickets, ~Queued(t.call)
    PROVE  /\ Append(queue, t) \in Seq(Tickets)
           /\ ToSet(Append(queue, t)) = ToSet(queue) \cup {t}
           /\ Distinct(Append(queue, t))
<1>1. /\ Append(queue, t) \in Seq(Tickets)
      /\ Len(Append(queue, t)) = Len(queue) + 1
      /\ \A i \in 1 .. Len(queue) : Append(queue, t)[i] = queue[i]
      /\ Append(queue, t)[Len(queue) + 1] = t
  BY AppendProperties
<1>2. DOMAIN queue = 1 .. Len(queue) /\ DOMAIN Append(queue, t) = 1 .. Len(queue) + 1
  BY <1>1
<1>3. ToSet(Append(queue, t)) = ToSet(queue) \cup {t}
  BY <1>1, <1>2 DEF ToSet
<1>4. \A i \in 1 .. Len(queue) : queue[i].call # t.call
  BY <1>2 DEF Queued, ToSet
<1>5. Distinct(Append(queue, t))
  BY <1>1, <1>4 DEF Distinct
<1> QED
  BY <1>1, <1>3, <1>5

\* The ticket of one key is where it is in the queue.
LEMMA FirstMatch ==
    ASSUME queue \in Seq(Tickets), Distinct(queue), NEW k \in 1 .. Len(queue), NEW t, queue[k] = t, Discard(t)
    PROVE  queue' = RemoveAt(queue, k) /\ young' = young \ {t}
<1> DEFINE I == {i \in 1 .. Len(queue) : queue[i].call = t.call}
<1>1. I = {k} /\ I # {} /\ I \subseteq 1 .. Len(queue) /\ Len(queue) \in Nat
  BY DEF Distinct
<1>2. Min(I) = k
  <2> HIDE DEF I
  <2>1. Min(I) \in I
    BY <1>1, LeastIndex
  <2> QED
    BY <1>1, <2>1
<1>3. \E i \in 1 .. Len(queue) : queue[i].call = t.call
  OBVIOUS
<1> QED
  BY <1>1, <1>2, <1>3, Zenon DEF Discard, RemoveFirstMatch, SelectInSeq

\* A ticket taken out of the queue.
LEMMA Removed ==
    ASSUME queue \in Seq(Tickets), Distinct(queue), NEW k \in 1 .. Len(queue),
           NEW q, q = RemoveAt(queue, k)
    PROVE  q \in Seq(Tickets) /\ ToSet(q) = ToSet(queue) \ {queue[k]} /\ Distinct(q)
<1> DEFINE n == Len(queue)
           a == SubSeq(queue, 1, k - 1)
           b == SubSeq(queue, k + 1, n)
<1>1. n \in Nat /\ k \in 1 .. n /\ \A i \in 1 .. n : queue[i] \in Tickets
  OBVIOUS
<1>2. a \in Seq(Tickets) /\ Len(a) = k - 1 /\ \A i \in 1 .. k - 1 : a[i] = queue[i]
  BY <1>1, SubSeqProperties
<1>3. b \in Seq(Tickets) /\ Len(b) = n - k /\ \A i \in 1 .. n - k : b[i] = queue[k + i]
  <2>1. CASE k < n
    BY <1>1, <2>1
  <2>2. CASE k = n
    BY <1>1, <2>2
  <2> QED
    BY <1>1, <2>1, <2>2
<1>4. q = a \o b
  BY DEF RemoveAt
<1> HIDE DEF a, b
<1>5. q \in Seq(Tickets) /\ Len(q) = n - 1
  BY <1>1, <1>2, <1>3, <1>4, ConcatProperties
<1>6. \A i \in 1 .. n - 1 : q[i] = IF i < k THEN queue[i] ELSE queue[i + 1]
  BY <1>1, <1>2, <1>3, <1>4
<1> HIDE DEF n
<1>7. DOMAIN q = 1 .. n - 1 /\ DOMAIN queue = 1 .. n
  BY <1>5 DEF n
<1>8. \A i, j \in 1 .. n : queue[i].call = queue[j].call => i = j
  BY DEF Distinct, n
<1>9. ToSet(q) = ToSet(queue) \ {queue[k]}
  <2>1. ASSUME NEW i \in 1 .. n - 1 PROVE q[i] \in ToSet(queue) /\ q[i] # queue[k]
    BY <1>1, <1>6, <1>7, <1>8 DEF ToSet
  <2>2. ASSUME NEW j \in 1 .. n, queue[j] # queue[k] PROVE \E i \in 1 .. n - 1 : q[i] = queue[j]
    <3>1. CASE j < k
      BY <1>1, <1>6, <3>1
    <3>2. CASE j > k
      <4>1. j - 1 \in 1 .. n - 1 /\ q[j - 1] = queue[j]
        BY <1>1, <1>6, <3>2
      <4> QED
        BY <4>1
    <3> QED
      BY <1>1, <2>2, <3>1, <3>2
  <2>3. ToSet(q) = {q[i] : i \in 1 .. n - 1} /\ ToSet(queue) = {queue[j] : j \in 1 .. n}
    BY <1>7 DEF ToSet
  <2> QED
    BY <2>1, <2>2, <2>3
<1>10. \A i, j \in 1 .. n - 1 : q[i].call = q[j].call => i = j
  BY <1>1, <1>6, <1>8
<1>11. Distinct(q)
  BY <1>5, <1>10 DEF Distinct
<1> QED
  BY <1>5, <1>9, <1>11

-----------------------------------------------------------------------------
(* Types *)

Carrying == Locked \ {"pick"}

\* A live generation may end within the bound.
BoundInv == Open => slice.gen < MaxGen

\* No ticket is of a generation to come.
AgeInv == \A t \in ToSet(queue) \cup accepted : t.gen <= slice.gen

\* What a call is about to queue or to apply is its own; what a drain applies
\* is in the queue.
CarryInv ==
    /\ \A c \in Calls : pc[c] \in {"stamp", "room", "link"} \cup Carrying =>
          item[c].call = c /\ item[c].gen \in 0 .. slice.gen
    /\ \A d \in Drains : pc[d] \in Carrying => item[d] \in ToSet(queue)

\* A receipt is of the call's own generation and names the call, if the action does.
ReceiptInv == \A c \in Calls : rcpt[c] # None =>
    /\ Gen[c] = rcpt[c].slice.gen /\ Gen[c] <= slice.gen
    /\ Act[c] # "start" => rcpt[c].slice.by = c

\* The receipt of the update under way, and what is known once it is persisted.
WriteInv == \A a \in Appliers : LET c == item[a].call IN
    /\ pc[a] = "persist" => rcpt[c] = Pending(c)
    /\ pc[a] = "commit" => rcpt[c] = [committed |-> FALSE, slice |-> slice, rev |-> rev]
    /\ pc[a] \in {"commit", "journal"} => Gen[c] = slice.gen /\ persisted[c] > 0

Types == /\ TypeOK /\ DOMAIN rcpt = Calls /\ persisted \in [Calls -> Nat]
         /\ Distinct(queue) /\ BoundInv /\ AgeInv /\ CarryInv /\ ReceiptInv /\ WriteInv

\* A ticket leaves the queue.
LEMMA Discarded ==
    ASSUME Types, NEW t \in ToSet(queue), Discard(t)
    PROVE  /\ queue' \in Seq(Tickets) /\ ToSet(queue') = ToSet(queue) \ {t}
           /\ Distinct(queue') /\ young' \subseteq ToSet(queue')
<1>1. queue \in Seq(Tickets) /\ Distinct(queue) /\ young \subseteq ToSet(queue)
  BY DEF Types, TypeOK
<1>2. PICK k \in 1 .. Len(queue) : queue[k] = t
  BY <1>1 DEF ToSet
<1>3. queue' = RemoveAt(queue, k) /\ young' = young \ {t}
  BY <1>1, <1>2, FirstMatch
<1> QED
  BY <1>1, <1>2, <1>3, Removed

\* The queue loses what a drain dropped or applied, and gains what a call links.
LEMMA QueueMoves ==
    ASSUME Inv, Types, [Next]_vars
    PROVE  \/ UNCHANGED queue /\ young' \subseteq young
           \/ \E c \in Calls : Link(c)
           \/ \E d \in Drains : Drop(d) \/ Drained(d)
<1>1. ASSUME NEW c \in Calls, Call(c) \/ CallStep(c), ~Link(c) PROVE UNCHANGED <<queue, young>>
  BY <1>1 DEF Call, CallStep, Find, Look, TryLock, Refuse, ReadGeneration, StampStart, Room, Applied, Rejected
<1>2. ASSUME NEW d \in Drains, DrainStep(d), ~Drop(d), ~Drained(d) PROVE UNCHANGED <<queue, young>>
  BY <1>2 DEF DrainStep, Top, Wait, DrainLock, PickNothing, PickReserved, Pick, Park
<1>3. ASSUME NEW a \in Appliers, LockedStep(a) PROVE UNCHANGED <<queue, young>>
  BY <1>3 DEF LockedStep, Recheck, Apply, Persist, Commit, Journal, StoreFails
<1>4. ASSUME Tick \/ YieldOnce \/ Reserve \/ ReplanStep \/ Reassign PROVE UNCHANGED <<queue, young>>
  BY <1>4 DEF Tick, YieldOnce, Reserve, ReplanStep, ReplanLock, Supersede, Withdraw, Reassign
<1>5. ASSUME Age \/ Finished \/ UNCHANGED vars PROVE UNCHANGED queue /\ young' \subseteq young
  BY <1>5 DEF Age, Finished, vars
<1>6. ASSUME NEW p \in Procs, Crash(p) PROVE UNCHANGED queue /\ young' \subseteq young
  BY <1>6 DEF Crash
<1> QED
  BY <1>1, <1>2, <1>3, <1>4, <1>5, <1>6 DEF Next, Appliers

\* The note and the receipts change in five ways only.
LEMMA NoteMoves ==
    ASSUME [Next]_vars
    PROVE  \/ UNCHANGED <<slice, rev, rcpt, persisted>>
           \/ \E a \in Appliers : Apply(a) \/ Persist(a) \/ Commit(a)
           \/ \E d \in Drains : Drop(d)
           \/ Supersede \/ Reassign
<1>1. ASSUME NEW c \in Calls, Call(c) \/ CallStep(c) PROVE UNCHANGED <<slice, rev, rcpt, persisted>>
  BY <1>1 DEF Call, CallStep, Find, Look, TryLock, Refuse, ReadGeneration, StampStart, Room, Link, Applied, Rejected, note
<1>2. ASSUME NEW d \in Drains, DrainStep(d), ~Drop(d) PROVE UNCHANGED <<slice, rev, rcpt, persisted>>
  BY <1>2 DEF DrainStep, Top, Wait, DrainLock, PickNothing, PickReserved, Pick, Drained, Park, note
<1>3. ASSUME NEW a \in Appliers, LockedStep(a), ~Apply(a), ~Persist(a), ~Commit(a)
      PROVE  UNCHANGED <<slice, rev, rcpt, persisted>>
  BY <1>3 DEF LockedStep, Recheck, Journal, StoreFails, note
<1>4. ASSUME Tick \/ YieldOnce \/ Reserve \/ ReplanLock \/ Withdraw PROVE UNCHANGED <<slice, rev, rcpt, persisted>>
  BY <1>4 DEF Tick, YieldOnce, Reserve, ReplanLock, Withdraw, note
<1>5. ASSUME Age \/ Finished \/ UNCHANGED vars PROVE UNCHANGED <<slice, rev, rcpt, persisted>>
  BY <1>5 DEF Age, Finished, vars, note
<1>6. ASSUME NEW p \in Procs, Crash(p) PROVE UNCHANGED <<slice, rev, rcpt, persisted>>
  BY <1>6 DEF Crash, note
<1> QED
  BY <1>1, <1>2, <1>3, <1>4, <1>5, <1>6 DEF Next, Appliers, ReplanStep

\* Whoever applies carries a ticket of a key, not of a generation to come.
LEMMA Carries ==
    ASSUME Inv, Types, NEW a \in Appliers, pc[a] \in Carrying
    PROVE  item[a] \in Tickets /\ item[a].call \in Calls /\ item[a].gen <= slice.gen
<1>1. CASE a \in Calls
  <2>1. item[a].call = a /\ item[a].gen \in 0 .. slice.gen /\ slice.gen \in 0 .. MaxGen /\ MaxGen \in Nat
    BY <1>1, QueueAssumption DEF Types, CarryInv, TypeOK, Slices
  <2>2. item[a] # NoTicket
    BY <1>1, <2>1, QueueAssumption DEF NoTicket, Actors
  <2>3. item[a] \in Tickets
    <3>1. CASE a \in DOMAIN item
      BY <2>2, <3>1 DEF Types, TypeOK
    <3>2. a \in DOMAIN item
      BY <1>1 DEF Inv, Shape, Appliers
    <3> QED
      BY <3>1, <3>2
  <2> QED
    BY <1>1, <2>1, <2>3
<1>2. CASE a \in Drains
  <2>1. item[a] \in ToSet(queue) /\ queue \in Seq(Tickets)
    BY <1>2 DEF Types, CarryInv, TypeOK
  <2>2. item[a] \in Tickets
    BY <2>1 DEF ToSet
  <2> QED
    BY <2>1, <2>2 DEF Types, AgeInv, Tickets
<1> QED
  BY <1>1, <1>2 DEF Appliers

LEMMA UpdateTypes ==
    ASSUME Types, NEW c \in Calls
    PROVE  /\ Updated(c) \in Slices /\ Updated(c).gen = slice.gen
           /\ Act[c] # "start" => Updated(c).by = c
           /\ Act[c] = "start" => Updated(c).by = slice.by
           /\ Act[c] = "complete" <=> Updated(c).status = "done"
           /\ Updated(c).status # "superseded"
           /\ Act[c] \in {"start", "progress"} <=> Updated(c).status = "in_progress"
           /\ Updated(c).status # "pending"
<1>1. slice = [gen |-> slice.gen, status |-> slice.status, by |-> slice.by]
      /\ slice.gen \in 0 .. MaxGen /\ slice.by \in Calls \cup {None}
  BY DEF Types, TypeOK, Slices
<1>2. Act[c] \in {"start", "progress", "block", "complete"}
  BY QueueAssumption
<1>3. CASE Act[c] = "start"
  <2>1. Updated(c) = [gen |-> slice.gen, status |-> "in_progress", by |-> slice.by]
    BY <1>1, <1>3 DEF Updated
  <2> QED
    BY <1>1, <1>3, <2>1 DEF Slices, Statuses
<1>4. CASE Act[c] = "progress"
  <2>1. Updated(c) = [gen |-> slice.gen, status |-> "in_progress", by |-> c]
    BY <1>1, <1>4 DEF Updated
  <2> QED
    BY <1>1, <1>4, <2>1 DEF Slices, Statuses
<1>5. CASE Act[c] = "block"
  <2>1. Updated(c) = [gen |-> slice.gen, status |-> "blocked", by |-> c]
    BY <1>1, <1>5 DEF Updated
  <2> QED
    BY <1>1, <1>5, <2>1 DEF Slices, Statuses
<1>6. CASE Act[c] = "complete"
  <2>1. Updated(c) = [gen |-> slice.gen, status |-> "done", by |-> c]
    BY <1>1, <1>6 DEF Updated
  <2> QED
    BY <1>1, <1>6, <2>1 DEF Slices, Statuses
<1> QED
  BY <1>2, <1>3, <1>4, <1>5, <1>6

LEMMA CommittedReceipt ==
    ASSUME NEW r \in Receipts
    PROVE  /\ [r EXCEPT !.committed = TRUE] = [committed |-> TRUE, slice |-> r.slice, rev |-> r.rev]
           /\ [committed |-> TRUE, slice |-> r.slice, rev |-> r.rev] \in Receipts
<1>1. r \in [committed : BOOLEAN, slice : Slices, rev : Nat]
  BY DEF Receipts
<1>2. \A v \in BOOLEAN : [r EXCEPT !.committed = v] = [committed |-> v, slice |-> r.slice, rev |-> r.rev]
  BY <1>1
<1>3. [committed |-> TRUE, slice |-> r.slice, rev |-> r.rev] \in Receipts
  BY <1>1 DEF Receipts
<1> QED
  BY <1>2, <1>3

\* The three ways an apply goes.
LEMMA ApplyWays ==
    ASSUME Inv, Types, NEW a \in Appliers, NEW c, c = item[a].call, Apply(a)
    PROVE  /\ c \in Calls /\ UNCHANGED <<slice, rev, persisted, item, lock, started>>
           /\ \/ pc'[a] = "fail" /\ rcpt' = rcpt
              \/ /\ pc'[a] = "finish" /\ Answered(c)
                 /\ rcpt' = [rcpt EXCEPT ![c] = [committed |-> TRUE, slice |-> rcpt[c].slice, rev |-> rcpt[c].rev]]
              \/ pc'[a] = "persist" /\ ~Refused(c) /\ ~Answered(c) /\ rcpt' = [rcpt EXCEPT ![c] = Pending(c)]
<1>1. a \in Actors /\ DOMAIN pc = Actors /\ pc[a] = "apply"
  BY DEF Actors, Appliers, Inv, Shape, Apply
<1>2. c \in Calls
  BY <1>1, Carries DEF Carrying, Locked
<1>3. UNCHANGED <<slice, rev, persisted, item, lock, started>>
  BY DEF Apply
<1>4. CASE Answered(c)
  <2>1. pc' = [pc EXCEPT ![a] = "finish"] /\ rcpt' = [rcpt EXCEPT ![c].committed = TRUE]
    BY <1>4 DEF Apply, Its, Goto
  <2>2. rcpt[c] \in Receipts
    BY <1>2, <1>4 DEF Types, TypeOK, Answered, Receipt
  <2>3. [rcpt[c] EXCEPT !.committed = TRUE] = [committed |-> TRUE, slice |-> rcpt[c].slice, rev |-> rcpt[c].rev]
    BY <2>2, CommittedReceipt
  <2>4. rcpt' = [rcpt EXCEPT ![c] = [rcpt[c] EXCEPT !.committed = TRUE]]
    BY <2>1
  <2> QED
    BY <1>1, <1>2, <1>3, <1>4, <2>1, <2>3, <2>4
<1>5. CASE ~Answered(c) /\ Refused(c)
  BY <1>1, <1>2, <1>3, <1>5 DEF Apply, Its, Goto
<1>6. CASE ~Answered(c) /\ ~Refused(c)
  BY <1>1, <1>2, <1>3, <1>6 DEF Apply, Its, Goto
<1> QED
  BY <1>4, <1>5, <1>6

\* The note, the receipts and the bound.
NoteGoal ==
    /\ slice' \in Slices /\ rev' \in Nat /\ persisted' \in [Calls -> Nat]
    /\ DOMAIN rcpt' = Calls /\ \A c \in Calls : rcpt'[c] \in Receipts \cup {None}
    /\ BoundInv' /\ ReceiptInv' /\ slice.gen <= slice'.gen

\* A receipt of the live generation is put.
LEMMA ReceiptPut ==
    ASSUME Types, UNCHANGED <<slice, rev, persisted>>,
           NEW c \in Calls, NEW r \in Receipts, rcpt' = [rcpt EXCEPT ![c] = r],
           Gen[c] = r.slice.gen, Gen[c] <= slice.gen, Act[c] # "start" => r.slice.by = c
    PROVE  NoteGoal
<1>1. /\ slice \in Slices /\ rev \in Nat /\ persisted \in [Calls -> Nat] /\ slice.gen \in 0 .. MaxGen
      /\ DOMAIN rcpt = Calls /\ (\A b \in Calls : rcpt[b] \in Receipts \cup {None}) /\ BoundInv /\ ReceiptInv
      /\ MaxGen \in Nat
  BY QueueAssumption DEF Types, TypeOK, Slices
<1> QED
  BY <1>1 DEF NoteGoal, BoundInv, ReceiptInv, Open

LEMMA NoteTypes ==
    ASSUME Inv, Types, [Next]_vars
    PROVE  NoteGoal
<1>1. /\ slice \in Slices /\ rev \in Nat /\ persisted \in [Calls -> Nat] /\ slice.gen \in 0 .. MaxGen
      /\ DOMAIN rcpt = Calls /\ (\A c \in Calls : rcpt[c] \in Receipts \cup {None}) /\ BoundInv /\ ReceiptInv
      /\ MaxGen \in Nat
  BY QueueAssumption DEF Types, TypeOK, Slices
<1>2. CASE UNCHANGED <<slice, rev, rcpt, persisted>>
  BY <1>1, <1>2 DEF NoteGoal, BoundInv, ReceiptInv, Open
<1>4. ASSUME NEW a \in Appliers, Apply(a)
      PROVE  NoteGoal
  <2> DEFINE c == item[a].call
  <2>1. c \in Calls /\ UNCHANGED <<slice, rev, persisted>>
    BY <1>4, ApplyWays
  <2>2. CASE rcpt' = rcpt
    BY <1>2, <2>1, <2>2
  <2>3. CASE Answered(c) /\ rcpt' = [rcpt EXCEPT ![c] = [committed |-> TRUE, slice |-> rcpt[c].slice, rev |-> rcpt[c].rev]]
    <3>1. rcpt[c] # None /\ rcpt[c] \in Receipts
      BY <1>1, <2>1, <2>3 DEF Answered, Receipt
    <3>2. [committed |-> TRUE, slice |-> rcpt[c].slice, rev |-> rcpt[c].rev] \in Receipts
      BY <3>1 DEF Receipts
    <3> QED
      BY <1>1, <2>1, <2>3, <3>1, <3>2, ReceiptPut DEF ReceiptInv
  <2>4. CASE ~Refused(c) /\ rcpt' = [rcpt EXCEPT ![c] = Pending(c)]
    <3>1. Gen[c] = slice.gen
      BY <2>4 DEF Refused
    <3>2. Pending(c) = [committed |-> FALSE, slice |-> Updated(c), rev |-> rev + 1]
      BY DEF Pending
    <3>3. Updated(c) \in Slices /\ Updated(c).gen = slice.gen /\ (Act[c] # "start" => Updated(c).by = c)
      BY <2>1, UpdateTypes
    <3>4. Pending(c) \in Receipts /\ Pending(c).slice = Updated(c)
      BY <1>1, <3>2, <3>3 DEF Receipts
    <3> DEFINE r == Pending(c)
    <3>5. r \in Receipts /\ rcpt' = [rcpt EXCEPT ![c] = r] /\ Gen[c] = r.slice.gen
          /\ Gen[c] <= slice.gen /\ (Act[c] # "start" => r.slice.by = c)
      BY <1>1, <2>4, <3>1, <3>3, <3>4
    <3> HIDE DEF r, c
    <3> QED
      BY <2>1, <3>5, ReceiptPut
  <2> QED
    BY <1>4, <2>2, <2>3, <2>4, ApplyWays
<1>5. ASSUME NEW a \in Appliers, Persist(a)
      PROVE  NoteGoal
  <2> DEFINE c == item[a].call
  <2>1. c \in Calls /\ pc[a] = "persist"
    BY <1>5, Carries DEF Persist, Carrying, Locked
  <2>2. slice' = Updated(c) /\ rev' = rev + 1 /\ persisted' = [persisted EXCEPT ![c] = @ + 1] /\ rcpt' = rcpt
    BY <1>5 DEF Persist, Its
  <2>3. Open /\ slice'.gen = slice.gen /\ slice' \in Slices
    BY <2>1, <2>2, UpdateTypes DEF Inv, ApplyInv, Due
  <2> QED
    BY <1>1, <2>1, <2>2, <2>3 DEF NoteGoal, BoundInv, ReceiptInv, Open
<1>6. ASSUME NEW a \in Appliers, Commit(a)
      PROVE  NoteGoal
  <2> DEFINE c == item[a].call
  <2>1. c \in Calls /\ pc[a] = "commit"
    BY <1>6, Carries DEF Commit, Carrying, Locked
  <2>2. rcpt' = [rcpt EXCEPT ![c].committed = TRUE] /\ UNCHANGED <<slice, rev, persisted>>
    BY <1>6 DEF Commit, Its
  <2>3. rcpt[c] # None /\ rcpt[c] \in Receipts
    <3>1. rcpt[c] = [committed |-> FALSE, slice |-> slice, rev |-> rev]
      BY <2>1 DEF Types, WriteInv
    <3>2. rcpt[c] \in Receipts
      BY <1>1, <3>1 DEF Receipts
    <3> QED
      BY <3>2, QueueAssumption
  <2>4. rcpt' = [rcpt EXCEPT ![c] = [committed |-> TRUE, slice |-> rcpt[c].slice, rev |-> rcpt[c].rev]]
        /\ [committed |-> TRUE, slice |-> rcpt[c].slice, rev |-> rcpt[c].rev] \in Receipts
    <3>1. rcpt' = [rcpt EXCEPT ![c] = [rcpt[c] EXCEPT !.committed = TRUE]]
      BY <2>2
    <3> QED
      BY <2>3, <3>1, CommittedReceipt
  <2> DEFINE r == [committed |-> TRUE, slice |-> rcpt[c].slice, rev |-> rcpt[c].rev]
  <2>5. r \in Receipts /\ rcpt' = [rcpt EXCEPT ![c] = r] /\ Gen[c] = r.slice.gen
        /\ Gen[c] <= slice.gen /\ (Act[c] # "start" => r.slice.by = c)
    BY <1>1, <2>1, <2>3, <2>4 DEF ReceiptInv
  <2> HIDE DEF r, c
  <2> QED
    BY <2>1, <2>2, <2>5, ReceiptPut
<1>7. ASSUME NEW d \in Drains, Drop(d) PROVE NoteGoal
  <2>1. UNCHANGED <<slice, rev, persisted>>
        /\ rcpt' = [c \in Calls |-> IF rcpt[c] # None /\ rcpt[c].slice.gen = Picked.gen THEN None ELSE rcpt[c]]
    BY <1>7 DEF Drop
  <2> QED
    BY <1>1, <2>1 DEF NoteGoal, BoundInv, ReceiptInv, Open
<1>8. ASSUME NEW status \in {"superseded", slice.status}, NextGeneration(status), Open,
             status = "superseded" \/ slice.gen + 1 < MaxGen
      PROVE  NoteGoal
  <2>1. /\ slice' = [slice EXCEPT !.gen = @ + 1, !.status = status] /\ rev' = rev + 1 /\ persisted' = persisted
        /\ rcpt' = [c \in Calls |-> IF rcpt[c] # None /\ rcpt[c].slice.gen = slice.gen THEN None ELSE rcpt[c]]
    BY <1>8 DEF NextGeneration
  <2>2. slice = [gen |-> slice.gen, status |-> slice.status, by |-> slice.by]
        /\ slice.status \in Statuses /\ slice.by \in Calls \cup {None}
    BY <1>1 DEF Slices
  <2>3. slice' = [gen |-> slice.gen + 1, status |-> status, by |-> slice.by]
    BY <2>1, <2>2
  <2>4. slice.gen < MaxGen /\ status \in Statuses
    BY <1>1, <1>8, <2>2 DEF BoundInv, Statuses
  <2>5. slice' \in Slices /\ BoundInv' /\ slice'.gen = slice.gen + 1
    BY <1>1, <1>8, <2>2, <2>3, <2>4 DEF Slices, BoundInv, Open
  <2>6. DOMAIN rcpt' = Calls
        /\ \A c \in Calls : rcpt'[c] = None \/ rcpt'[c] = rcpt[c]
    BY <2>1
  <2>7. ReceiptInv'
    BY <1>1, <2>5, <2>6, QueueAssumption DEF ReceiptInv
  <2> QED
    BY <1>1, <2>1, <2>5, <2>6, <2>7 DEF NoteGoal
<1>9. Supersede => NoteGoal
  <2>1. Supersede => (Open /\ NextGeneration("superseded")) \/ UNCHANGED <<slice, rev, rcpt, persisted>>
    BY DEF Supersede
  <2> QED
    BY <1>2, <1>8, <2>1
<1>10. Reassign => NoteGoal
  BY <1>8 DEF Reassign
<1> QED
  BY <1>2, <1>4, <1>5, <1>6, <1>7, <1>9, <1>10, NoteMoves

\* A call carries its own ticket until it is queued or applied.
LEMMA CarriesOwn ==
    ASSUME Inv, Types, NEW c \in Calls, pc[c] \in {"stamp", "room", "link"} \cup Carrying
    PROVE  item[c] \in Tickets /\ item[c].call = c /\ item[c].gen <= slice.gen
<1>1. item[c].call = c /\ item[c].gen \in 0 .. slice.gen /\ slice.gen \in 0 .. MaxGen /\ MaxGen \in Nat
  BY QueueAssumption DEF Types, CarryInv, TypeOK, Slices
<1>2. item[c] # NoTicket /\ c \in DOMAIN item
  BY <1>1, QueueAssumption DEF NoTicket, Actors, Inv, Shape, Appliers
<1> QED
  BY <1>1, <1>2 DEF Types, TypeOK

\* What a caller is told of is queued then.
LEMMA AcceptedMoves ==
    ASSUME [Next]_vars, NEW t \in accepted', t \notin accepted
    PROVE  \E c \in Calls : \/ Find(c) /\ Queued(c) /\ t = TicketOf(c)
                            \/ Link(c) /\ t = (IF Queued(c) THEN TicketOf(c) ELSE item[c])
<1>1. ASSUME NEW c \in Calls, Call(c) \/ CallStep(c), ~Find(c), ~Link(c) PROVE UNCHANGED accepted
  BY <1>1 DEF Call, CallStep, Look, TryLock, Refuse, ReadGeneration, StampStart, Room, Applied, Rejected
<1>2. ASSUME NEW d \in Drains, DrainStep(d) PROVE UNCHANGED accepted
  BY <1>2 DEF DrainStep, Top, Wait, DrainLock, PickNothing, PickReserved, Pick, Drop, Drained, Park
<1>3. ASSUME NEW a \in Appliers, LockedStep(a) PROVE UNCHANGED accepted
  BY <1>3 DEF LockedStep, Recheck, Apply, Persist, Commit, Journal, StoreFails
<1>4. ASSUME Tick \/ YieldOnce \/ Reserve \/ ReplanStep \/ Reassign PROVE UNCHANGED accepted
  BY <1>4 DEF Tick, YieldOnce, Reserve, ReplanStep, ReplanLock, Supersede, Withdraw, Reassign
<1>5. ASSUME Age \/ Finished \/ UNCHANGED vars \/ \E p \in Procs : Crash(p) PROVE UNCHANGED accepted
  BY <1>5 DEF Age, Finished, vars, Crash
<1>6. ASSUME NEW c \in Calls, Find(c) PROVE Queued(c) /\ t = TicketOf(c)
  BY <1>6 DEF Find, Accept
<1>7. ASSUME NEW c \in Calls, Link(c) PROVE t = (IF Queued(c) THEN TicketOf(c) ELSE item[c])
  BY <1>7 DEF Link, Accept
<1> QED
  BY <1>1, <1>2, <1>3, <1>4, <1>5, <1>6, <1>7 DEF Next, Appliers

\* The queue stays a sequence of tickets, one per key.
LEMMA QueueTypes ==
    ASSUME Inv, Types, [Next]_vars
    PROVE  /\ queue' \in Seq(Tickets) /\ young' \subseteq ToSet(queue') /\ Distinct(queue')
           /\ \A t \in ToSet(queue) :
                 t \in ToSet(queue') \/ \E d \in Drains : (Drop(d) /\ t = Picked) \/ (Drained(d) /\ t = item[d])
           /\ \A t \in ToSet(queue') : t \in ToSet(queue) \/ \E c \in Calls : Link(c) /\ ~Queued(c) /\ t = item[c]
<1>1. queue \in Seq(Tickets) /\ young \subseteq ToSet(queue) /\ Distinct(queue)
  BY DEF Types, TypeOK
<1>2. CASE UNCHANGED queue /\ young' \subseteq young
  BY <1>1, <1>2
<1>3. ASSUME NEW c \in Calls, Link(c)
      PROVE  /\ queue' \in Seq(Tickets) /\ young' \subseteq ToSet(queue') /\ Distinct(queue')
             /\ ToSet(queue) \subseteq ToSet(queue')
             /\ \A t \in ToSet(queue') : t \in ToSet(queue) \/ (~Queued(c) /\ t = item[c])
  <2>1. CASE Queued(c)
    BY <1>1, <1>3, <2>1 DEF Link
  <2>2. CASE ~Queued(c)
    <3>1. queue' = Append(queue, item[c]) /\ young' = young \cup {item[c]} /\ pc[c] = "link"
      BY <1>3, <2>2 DEF Link
    <3>2. item[c] \in Tickets /\ item[c].call = c
      BY <3>1, CarriesOwn
    <3> QED
      BY <1>1, <2>2, <3>1, <3>2, Linked
  <2> QED
    BY <2>1, <2>2
<1>4. ASSUME NEW t \in ToSet(queue), Discard(t)
      PROVE  /\ queue' \in Seq(Tickets) /\ young' \subseteq ToSet(queue') /\ Distinct(queue')
             /\ ToSet(queue') = ToSet(queue) \ {t}
  BY <1>4, Discarded
<1>5. ASSUME NEW d \in Drains, Drop(d) PROVE Picked \in ToSet(queue) /\ Discard(Picked)
  BY <1>1, <1>5, PickedIsQueued DEF Drop
<1>6. ASSUME NEW d \in Drains, Drained(d) PROVE item[d] \in ToSet(queue) /\ Discard(item[d])
  BY <1>6 DEF Drained, Types, CarryInv, Carrying, Locked
<1> QED
  BY <1>2, <1>3, <1>4, <1>5, <1>6, QueueMoves

LEMMA AgeKept ==
    ASSUME Inv, Types, [Next]_vars
    PROVE  AgeInv'
<1>1. slice.gen <= slice'.gen /\ slice.gen \in Nat /\ slice'.gen \in Nat
  BY NoteTypes, QueueAssumption DEF NoteGoal, Types, TypeOK, Slices
<1>2. ASSUME NEW c \in Calls, Link(c) PROVE item[c] \in Tickets /\ item[c].gen <= slice.gen
  BY <1>2, CarriesOwn DEF Link
<1>3. queue \in Seq(Tickets) /\ accepted \subseteq Tickets /\ \A t \in ToSet(queue) : t \in Tickets
  BY DEF Types, TypeOK, ToSet
<1>4. \A t \in ToSet(queue) \cup accepted : t.gen \in Nat /\ t.gen <= slice.gen
  BY <1>3, QueueAssumption DEF Types, AgeInv, Tickets
<1>5. ASSUME NEW t \in ToSet(queue') PROVE t.gen <= slice'.gen
  <2>1. t \in ToSet(queue) \/ \E c \in Calls : Link(c) /\ t = item[c]
    BY QueueTypes
  <2>2. t.gen \in Nat /\ t.gen <= slice.gen
    BY <1>2, <1>4, <2>1, QueueAssumption DEF Tickets
  <2> QED
    BY <1>1, <2>2
<1>6. ASSUME NEW t \in accepted' PROVE t.gen <= slice'.gen
  <2>1. CASE t \in accepted
    BY <1>1, <1>4, <2>1
  <2>2. CASE t \notin accepted
    <3>1. t \in ToSet(queue) \/ \E c \in Calls : Link(c) /\ t = item[c]
      BY <2>2, AcceptedMoves, QueuedTicket
    <3>2. t.gen \in Nat /\ t.gen <= slice.gen
      BY <1>2, <1>4, <3>1, QueueAssumption DEF Tickets
    <3> QED
      BY <1>1, <3>2
  <2> QED
    BY <2>1, <2>2
<1> QED
  BY <1>5, <1>6 DEF AgeInv

\* Where an applier stands changes by its own step, by a death, or by a kick.
LEMMA Steps ==
    ASSUME Inv, [Next]_vars, NEW a \in Appliers
    PROVE  \/ pc'[a] = pc[a] /\ item'[a] = item[a]
           \/ pc'[a] = "idle"
           \/ a = "kick" /\ pc[a] = "idle" /\ pc'[a] = "top"
           \/ a \in Calls /\ (Call(a) \/ CallStep(a))
           \/ a \in Drains /\ DrainStep(a)
           \/ a = "tick" /\ Tick
           \/ a = "kick" /\ YieldOnce
           \/ LockedStep(a)
<1>1. /\ a \in Actors /\ DOMAIN pc = Actors /\ DOMAIN item = Appliers /\ Appliers \subseteq Actors
      /\ "replan" \in Actors /\ "kick" \in Actors /\ "replan" \notin Appliers
  BY QueueAssumption DEF Actors, Appliers, Inv, Shape, Drains
<1>2. ASSUME NEW c \in Calls, Call(c) \/ CallStep(c), c # a
      PROVE  item'[a] = item[a] /\ (pc'[a] = pc[a] \/ (a = "kick" /\ pc[a] = "idle" /\ pc'[a] = "top"))
  BY <1>1, <1>2 DEF Call, CallStep, Find, Look, TryLock, Refuse, ReadGeneration, StampStart, Room, Link, Applied,
     Rejected, Goto, Accept, ReturnAndKick, Unlock
<1>3. ASSUME NEW d \in Drains, DrainStep(d) \/ (d = "tick" /\ Tick) \/ (d = "kick" /\ YieldOnce), d # a
      PROVE  item'[a] = item[a] /\ pc'[a] = pc[a]
  BY <1>1, <1>3 DEF DrainStep, Tick, YieldOnce, Top, Wait, DrainLock, PickNothing, PickReserved, Drop, Pick, Drained,
     Park, Goto, End, Unlock
<1>4. ASSUME NEW b \in Appliers, LockedStep(b), b # a PROVE item'[a] = item[a] /\ pc'[a] = pc[a]
  BY <1>1, <1>4 DEF LockedStep, Recheck, Apply, Persist, Commit, Journal, StoreFails, Goto, Unlock
<1>5. ASSUME Reserve \/ ReplanStep \/ Reassign PROVE item'[a] = item[a] /\ pc'[a] = pc[a]
  BY <1>1, <1>5 DEF Reserve, ReplanStep, ReplanLock, Supersede, Withdraw, Reassign, Goto
<1>6. ASSUME Age \/ Finished \/ UNCHANGED vars PROVE item'[a] = item[a] /\ pc'[a] = pc[a]
  BY <1>6 DEF Age, Finished, vars
<1>7. ASSUME NEW p \in Procs, Crash(p) PROVE pc'[a] = "idle" \/ (pc'[a] = pc[a] /\ item'[a] = item[a])
  <2>1. /\ pc' = [b \in Actors |-> IF b \in ActorsOf(p) THEN "idle" ELSE pc[b]]
        /\ item' = [b \in DOMAIN item |-> IF b \in ActorsOf(p) THEN NoTicket ELSE item[b]]
    BY <1>7, Zenon DEF Crash
  <2> QED
    BY <1>1, <2>1
<1>8. "tick" \in Drains /\ "kick" \in Drains
  BY DEF Drains
<1> QED
  BY <1>1, <1>2, <1>3, <1>4, <1>5, <1>6, <1>7, <1>8 DEF Next, Appliers

\* The steps of an actor under the lock.
LockedAct(a) ==
    \/ LockedStep(a)
    \/ a \in Calls /\ (Applied(a) \/ Rejected(a))
    \/ a \in Drains /\ (PickNothing(a) \/ PickReserved(a) \/ Drop(a) \/ Pick(a) \/ Drained(a) \/ Park(a))
    \/ a = "kick" /\ YieldOnce

\* While an actor works under the lock the others leave the note, the receipts
\* and its ticket alone.
LEMMA Undisturbed ==
    ASSUME Inv, Types, [Next]_vars, NEW a \in Appliers, pc[a] \in Locked
    PROVE  \/ LockedAct(a)
           \/ /\ UNCHANGED <<slice, rev, rcpt, persisted>>
              /\ ToSet(queue) \subseteq ToSet(queue')
              /\ pc'[a] = "idle" \/ (pc'[a] = pc[a] /\ item'[a] = item[a])
<1>1. /\ lock = a /\ a \in Actors /\ a # None /\ a # "replan"
      /\ \A b \in Actors : b # a => pc[b] \notin Guarded
  BY QueueAssumption DEF Inv, HolderInv, Actors, Appliers, Guarded, Drains
<1>2. "replan" \in Actors /\ Appliers \subseteq Actors /\ Drains \subseteq Appliers
  BY DEF Actors, Appliers
<1>3. ASSUME NEW b \in Appliers, Apply(b) \/ Persist(b) \/ Commit(b) PROVE LockedAct(a)
  <2>1. pc[b] \in Guarded
    BY <1>3 DEF Apply, Persist, Commit, Guarded, Locked
  <2> QED
    BY <1>1, <1>2, <1>3, <2>1 DEF LockedAct, LockedStep
<1>4. ASSUME NEW d \in Drains, Drop(d) \/ Drained(d) PROVE LockedAct(a)
  <2>1. pc[d] \in Guarded
    BY <1>4 DEF Drop, Drained, Guarded, Locked
  <2> QED
    BY <1>1, <1>2, <1>4, <2>1 DEF LockedAct
<1>5. ~Supersede /\ ~Reassign
  BY <1>1, <1>2 DEF Supersede, Reassign, Guarded
<1>6. LockedAct(a) \/ UNCHANGED <<slice, rev, rcpt, persisted>>
  BY <1>3, <1>4, <1>5, NoteMoves
<1>7. LockedAct(a) \/ ToSet(queue) \subseteq ToSet(queue')
  BY <1>4, QueueTypes
<1>8. LockedAct(a) \/ pc'[a] = "idle" \/ (pc'[a] = pc[a] /\ item'[a] = item[a])
  <2>1. a \in Calls /\ (Call(a) \/ CallStep(a)) => LockedAct(a)
    BY DEF Call, CallStep, Find, Look, TryLock, Refuse, ReadGeneration, StampStart, Room, Link, LockedAct, Locked
  <2>2. a \in Drains /\ DrainStep(a) => LockedAct(a)
    BY DEF DrainStep, Top, Wait, DrainLock, LockedAct, Locked
  <2>3. ~(a = "tick" /\ Tick)
    BY DEF Tick, Locked
  <2>4. pc[a] # "idle"
    BY DEF Locked
  <2> QED
    BY <2>1, <2>2, <2>3, <2>4, Steps DEF LockedAct
<1> QED
  BY <1>6, <1>7, <1>8

LEMMA CarryKept ==
    ASSUME Inv, Types, [Next]_vars
    PROVE  CarryInv'
<1>1. slice.gen <= slice'.gen /\ slice.gen \in Nat /\ slice'.gen \in Nat
  BY NoteTypes, QueueAssumption DEF NoteGoal, Types, TypeOK, Slices
<1>2. DOMAIN pc = Actors /\ DOMAIN item = Appliers /\ Calls \subseteq Appliers /\ Drains \subseteq Appliers
      /\ Appliers \subseteq Actors /\ "kick" \in Actors
  BY DEF Inv, Shape, Appliers, Actors, Drains
<1>3. ASSUME NEW c \in Calls, pc'[c] \in {"stamp", "room", "link"} \cup Carrying
      PROVE  item'[c].call = c /\ item'[c].gen \in 0 .. slice'.gen
  <2>1. c # "kick" /\ c # "tick" /\ c \notin Drains
    BY QueueAssumption DEF Drains
  <2>2. ASSUME pc[c] \in {"stamp", "room", "link"} \cup Carrying, item'[c] = item[c]
        PROVE  item'[c].call = c /\ item'[c].gen \in 0 .. slice'.gen
    BY <1>1, <2>2 DEF Types, CarryInv
  <2>3. ASSUME item'[c] = [call |-> c, gen |-> slice.gen]
        PROVE  item'[c].call = c /\ item'[c].gen \in 0 .. slice'.gen
    BY <1>1, <2>3
  <2>4. CASE CallStep(c)
    <3>1. CASE TryLock(c)
      <4>1. pc'[c] = "refuse" \/ item'[c] = [call |-> c, gen |-> slice.gen]
        BY <1>2, <3>1 DEF TryLock, Goto
      <4> QED
        BY <1>3, <2>3, <4>1 DEF Carrying, Locked
    <3>2. CASE ReadGeneration(c)
      BY <1>2, <2>3, <3>2 DEF ReadGeneration
    <3>3. CASE StampStart(c)
      BY <2>2, <3>3 DEF StampStart
    <3>4. CASE Room(c)
      <4>1. pc[c] = "room" /\ (item'[c] = item[c] \/ pc'[c] = "idle")
        BY <1>2, <3>4 DEF Room, Goto
      <4> QED
        BY <1>3, <2>2, <4>1 DEF Carrying, Locked
    <3>5. CASE Find(c) \/ Look(c) \/ Refuse(c) \/ Link(c) \/ Applied(c) \/ Rejected(c)
      <4>1. pc'[c] \in {"idle", "enqueue", "look", "refuse", "tryLock"}
        BY <1>2, <2>1, <3>5 DEF Find, Look, Refuse, Link, Applied, Rejected, Accept, ReturnAndKick, Goto
      <4> QED
        BY <1>3, <4>1 DEF Carrying, Locked
    <3> QED
      BY <2>4, <3>1, <3>2, <3>3, <3>4, <3>5 DEF CallStep
  <2>5. CASE LockedStep(c)
    <3>1. pc[c] \in Carrying /\ (item'[c] = item[c] \/ pc'[c] = "refuse")
      BY <1>2, <2>1, <2>5 DEF LockedStep, Recheck, Apply, Persist, Commit, Journal, StoreFails, Goto, Carrying, Locked
    <3> QED
      BY <1>3, <2>2, <3>1 DEF Carrying, Locked
  <2>6. ~Call(c)
    BY <1>2, <1>3 DEF Call, Goto, Carrying, Locked
  <2> QED
    BY <1>2, <1>3, <2>1, <2>2, <2>4, <2>5, <2>6, Steps DEF Carrying, Locked
<1>4. ASSUME NEW d \in Drains, pc'[d] \in Carrying
      PROVE  item'[d] \in ToSet(queue')
  <2>1. ~(d \in Calls)
    BY QueueAssumption
  <2>2. ASSUME pc[d] \in Carrying, item'[d] = item[d], ToSet(queue) \subseteq ToSet(queue')
        PROVE  item'[d] \in ToSet(queue')
    BY <2>2 DEF Types, CarryInv
  <2>3. CASE Pick(d)
    BY <1>2, <2>3, PickedIsQueued DEF Pick, Types, TypeOK
  <2>4. CASE LockedStep(d)
    <3>1. pc[d] \in Carrying /\ (item'[d] = item[d] \/ pc'[d] = "top") /\ UNCHANGED queue
      BY <1>2, <2>4 DEF LockedStep, Recheck, Apply, Persist, Commit, Journal, StoreFails, Goto, Carrying, Locked
    <3> QED
      BY <1>4, <2>2, <3>1 DEF Carrying, Locked
  <2>5. ~PickNothing(d) /\ ~PickReserved(d) /\ ~Drop(d) /\ ~Drained(d) /\ ~Park(d) /\ ~(d = "kick" /\ YieldOnce)
        /\ ~Top(d) /\ ~Wait(d) /\ ~DrainLock(d) /\ ~(d = "tick" /\ Tick)
    BY <1>2, <1>4 DEF PickNothing, PickReserved, Drop, Drained, Park, YieldOnce, Top, Wait, DrainLock, Tick, Goto, End,
       Carrying, Locked
  <2>6. CASE pc[d] \in Locked
    <3>1. \/ LockedAct(d)
          \/ /\ ToSet(queue) \subseteq ToSet(queue')
             /\ pc'[d] = "idle" \/ (pc'[d] = pc[d] /\ item'[d] = item[d])
      BY <1>2, <2>6, Undisturbed
    <3>2. LockedAct(d) => LockedStep(d) \/ Pick(d)
      BY <2>1, <2>5 DEF LockedAct
    <3>3. "idle" \notin Carrying
      BY DEF Carrying, Locked
    <3> QED
      BY <1>4, <2>2, <2>3, <2>4, <3>1, <3>2, <3>3
  <2>7. CASE pc[d] \notin Locked
    <3>1. ~LockedStep(d) /\ ~Pick(d)
      BY <2>7 DEF LockedStep, Recheck, Apply, Persist, Commit, Journal, StoreFails, Pick, Locked
    <3>2. ~DrainStep(d)
      BY <2>5, <3>1 DEF DrainStep
    <3>3. pc'[d] # "idle" /\ pc'[d] # "top" /\ pc'[d] # pc[d]
      BY <1>4, <2>7 DEF Carrying, Locked
    <3> QED
      BY <1>2, <2>1, <2>5, <3>1, <3>2, <3>3, Steps
  <2> QED
    BY <2>6, <2>7
<1> QED
  BY <1>3, <1>4 DEF CarryInv

\* Where an update stands is reached under the lock only.
Writing == {"persist", "commit", "journal", "finish"}

LEMMA WritesLocked ==
    ASSUME Inv, Types, [Next]_vars, NEW a \in Appliers, pc'[a] \in Writing
    PROVE  \/ Apply(a) \/ Persist(a) \/ Commit(a) \/ Journal(a)
           \/ /\ pc'[a] = pc[a] /\ item'[a] = item[a]
              /\ UNCHANGED <<slice, rev, rcpt, persisted>>
<1>1. DOMAIN pc = Actors /\ a \in Actors
  BY DEF Inv, Shape, Appliers, Actors
<1>2. a \in Calls => a # "kick"
  BY QueueAssumption DEF Drains
<1>3. CASE pc[a] \notin Locked
  <2>1. ~LockedStep(a) /\ ~(a \in Calls /\ (Applied(a) \/ Rejected(a)))
    BY <1>3 DEF LockedStep, Recheck, Apply, Persist, Commit, Journal, StoreFails, Applied, Rejected, Locked
  <2>2. ~(a \in Calls /\ Call(a)) /\ ~(a \in Drains /\ DrainStep(a)) /\ ~(a = "tick" /\ Tick) /\ ~(a = "kick" /\ YieldOnce)
    BY <1>1 DEF Call, DrainStep, Top, Wait, DrainLock, PickNothing, PickReserved, Pick, Drop, Drained, Park,
       Tick, YieldOnce, Goto, End, Writing
  <2>3. ~(a \in Calls /\ CallStep(a))
    BY <1>1, <1>2, <2>1 DEF CallStep, Find, Look, TryLock, Refuse, ReadGeneration, StampStart, Room, Link,
       Accept, ReturnAndKick, Goto, Writing
  <2>4. pc'[a] # pc[a] /\ pc'[a] # "idle" /\ pc'[a] # "top"
    BY <1>3 DEF Locked, Writing
  <2> QED
    BY <2>1, <2>2, <2>3, <2>4, Steps
<1>4. CASE LockedAct(a)
  BY <1>1, <1>2, <1>4 DEF LockedAct, LockedStep, Recheck, StoreFails, Applied, Rejected, PickNothing, PickReserved,
     Drop, Pick, Drained, Park, YieldOnce, ReturnAndKick, Goto, End, Writing
<1>5. CASE pc[a] \in Locked /\ ~LockedAct(a)
  BY <1>5, Undisturbed DEF Writing
<1> QED
  BY <1>3, <1>4, <1>5

\* The update under way keeps its receipt.
LEMMA WriteKept ==
    ASSUME Inv, Types, [Next]_vars
    PROVE  WriteInv'
<1> SUFFICES ASSUME NEW a \in Appliers, NEW c, c = item'[a].call
             PROVE  /\ pc'[a] = "persist" => rcpt'[c] = [committed |-> FALSE, slice |-> Updated(c)', rev |-> rev' + 1]
                    /\ pc'[a] = "commit" => rcpt'[c] = [committed |-> FALSE, slice |-> slice', rev |-> rev']
                    /\ pc'[a] \in {"commit", "journal"} => Gen[c] = slice'.gen /\ persisted'[c] > 0
  BY DEF WriteInv, Pending
<1>1. DOMAIN pc = Actors /\ a \in Actors /\ DOMAIN item = Appliers
  BY DEF Inv, Shape, Appliers, Actors
<1>2. CASE pc'[a] \notin {"persist", "commit", "journal"}
  BY <1>2
<1>3. CASE UNCHANGED <<slice, rev, rcpt, persisted>> /\ pc'[a] = pc[a] /\ item'[a] = item[a]
  BY <1>3 DEF Types, WriteInv, Pending, Updated
<1>4. CASE Journal(a)
  <2>1. pc'[a] = "finish"
    BY <1>1, <1>4 DEF Journal, Goto
  <2> QED
    BY <2>1
<1>5. CASE pc'[a] \in {"persist", "commit", "journal"} /\ (Apply(a) \/ Persist(a) \/ Commit(a))
  <2>1. Apply(a) \/ Persist(a) \/ Commit(a)
    BY <1>5
  <2>2. pc[a] \in Carrying /\ item'[a] = item[a]
    BY <2>1 DEF Apply, Persist, Commit, Carrying, Locked
  <2>3. c = item[a].call /\ c \in Calls
    BY <2>2, Carries
  <2>4. /\ DOMAIN rcpt = Calls /\ persisted \in [Calls -> Nat] /\ rev \in Nat
    BY DEF Types, TypeOK
  <2>5. CASE Apply(a)
    <3>1. pc'[a] = "persist" /\ rcpt' = [rcpt EXCEPT ![c] = Pending(c)] /\ UNCHANGED <<slice, rev>>
      BY <1>5, <2>3, <2>5, ApplyWays
    <3> QED
      BY <2>3, <2>4, <3>1 DEF Pending, Updated
  <2>6. CASE Persist(a)
    <3>1. /\ pc[a] = "persist" /\ pc'[a] = "commit" /\ slice' = Updated(c) /\ rev' = rev + 1 /\ rcpt' = rcpt
          /\ persisted' = [persisted EXCEPT ![c] = @ + 1]
      BY <1>1, <2>3, <2>6 DEF Persist, Its, Goto
    <3>2. rcpt[c] = Pending(c) /\ Due(c)
      BY <2>3, <3>1 DEF Types, WriteInv, Inv, ApplyInv
    <3>3. slice'.gen = slice.gen
      BY <2>3, <3>1, UpdateTypes
    <3> QED
      BY <2>3, <2>4, <3>1, <3>2, <3>3 DEF Pending, Due
  <2>7. CASE Commit(a)
    <3>1. pc[a] = "commit" /\ pc'[a] = "journal" /\ UNCHANGED <<slice, persisted>>
      BY <1>1, <2>7 DEF Commit, Goto
    <3> QED
      BY <2>3, <3>1 DEF Types, WriteInv
  <2> QED
    BY <2>1, <2>5, <2>6, <2>7
<1> QED
  BY <1>2, <1>3, <1>4, <1>5, WritesLocked DEF Writing

\* The plan lock and the reservation, the start of the generation and its stamps.
LEMMA SmallTypes ==
    ASSUME Inv, Types, [Next]_vars
    PROVE  started' \in BOOLEAN /\ reserved' \in BOOLEAN /\ lock' \in Actors \cup {None}
<1>1. started \in BOOLEAN /\ reserved \in BOOLEAN /\ lock \in Actors \cup {None}
  BY DEF Types, TypeOK
<1>2. ASSUME NEW c \in Calls, Call(c) \/ CallStep(c)
      PROVE  started' = started /\ reserved' = reserved /\ lock' \in {lock, None, c}
  BY <1>2 DEF Call, CallStep, Find, Look, TryLock, Refuse, ReadGeneration, StampStart, Room, Link, Applied, Rejected,
     note, Unlock, Lock!Acquire, Lock!Release
<1>3. ASSUME NEW d \in Drains, DrainStep(d)
      PROVE  started' = started /\ reserved' = reserved /\ lock' \in {lock, None, d}
  BY <1>3 DEF DrainStep, Top, Wait, DrainLock, PickNothing, PickReserved, Pick, Drop, Drained, Park, note, Unlock,
     Lock!Acquire, Lock!Release
<1>4. ASSUME NEW a \in Appliers, LockedStep(a)
      PROVE  /\ started' = started \/ \E c \in {item[a].call} : started' = (started \/ Act[c] \in {"start", "progress"})
             /\ reserved' = reserved /\ lock' \in {lock, None}
  BY <1>4 DEF LockedStep, Recheck, Apply, Persist, Commit, Journal, StoreFails, note, Unlock, Lock!Release, Its
<1>5. ASSUME Tick \/ YieldOnce \/ Reserve \/ ReplanStep \/ Reassign
      PROVE  started' \in {started, FALSE} /\ reserved' \in {reserved, TRUE, FALSE} /\ lock' \in {lock, None, "replan"}
  BY <1>5 DEF Tick, YieldOnce, Reserve, ReplanStep, ReplanLock, Supersede, Withdraw, Reassign, note, Lock!Acquire,
     Lock!Release
<1>6. ASSUME Age \/ Finished \/ UNCHANGED vars PROVE UNCHANGED <<started, reserved, lock>>
  BY <1>6 DEF Age, Finished, vars, note
<1>7. ASSUME NEW p \in Procs, Crash(p)
      PROVE  started' = started /\ reserved' \in BOOLEAN /\ lock' \in {lock, None}
  <2>1. started' = started /\ lock' \in {lock, None}
    BY <1>7 DEF Crash, note
  <2>2. reserved' \in BOOLEAN
    BY <1>7, Zenon DEF Crash
  <2> QED
    BY <2>1, <2>2
<1>8. Calls \subseteq Actors /\ Drains \subseteq Actors /\ "replan" \in Actors
  BY DEF Actors
<1>9. started' \in BOOLEAN
  <2>1. \A c : (started \/ Act[c] \in {"start", "progress"}) \in BOOLEAN
    OBVIOUS
  <2> QED
    BY <1>1, <1>2, <1>3, <1>4, <1>5, <1>6, <1>7, <2>1 DEF Next, Appliers
<1>10. reserved' \in BOOLEAN
  BY <1>1, <1>2, <1>3, <1>4, <1>5, <1>6, <1>7 DEF Next, Appliers
<1>11. lock' \in Actors \cup {None}
  BY <1>1, <1>2, <1>3, <1>4, <1>5, <1>6, <1>7, <1>8 DEF Next, Appliers
<1> QED
  BY <1>9, <1>10, <1>11

LEMMA StampTypes ==
    ASSUME Inv, Types, [Next]_vars
    PROVE  stamp' \subseteq 0 .. MaxGen
<1>1. stamp \subseteq 0 .. MaxGen /\ slice.gen \in 0 .. MaxGen
  BY DEF Types, TypeOK, Slices
<1>2. ASSUME NEW c \in Calls, Call(c) \/ CallStep(c) PROVE stamp' \in {stamp, Stamped}
  BY <1>2 DEF Call, CallStep, Find, Look, TryLock, Refuse, ReadGeneration, StampStart, Room, Link, Applied, Rejected, note
<1>3. ASSUME NEW d \in Drains, DrainStep(d) PROVE stamp' \subseteq stamp
  BY <1>3 DEF DrainStep, Top, Wait, DrainLock, PickNothing, PickReserved, Pick, Drop, Drained, Park, note
<1>4. ASSUME NEW a \in Appliers, LockedStep(a) PROVE stamp' = stamp
  BY <1>4 DEF LockedStep, Recheck, Apply, Persist, Commit, Journal, StoreFails, note
<1>5. ASSUME Tick \/ YieldOnce \/ Reserve \/ ReplanStep \/ Reassign PROVE stamp' \subseteq stamp
  BY <1>5 DEF Tick, YieldOnce, Reserve, ReplanStep, ReplanLock, Supersede, Withdraw, Reassign, NextGeneration, note
<1>6. ASSUME Age \/ Finished \/ UNCHANGED vars \/ \E p \in Procs : Crash(p) PROVE stamp' = stamp
  BY <1>6 DEF Age, Finished, vars, note, Crash
<1>7. Stamped \subseteq 0 .. MaxGen
  BY <1>1 DEF Stamped
<1> QED
  BY <1>1, <1>2, <1>3, <1>4, <1>5, <1>6, <1>7 DEF Next, Appliers

\* What the actors carry are tickets.
LEMMA ItemTypes ==
    ASSUME Inv, Types, [Next]_vars
    PROVE  \A a \in DOMAIN item' : item'[a] \in Tickets \cup {NoTicket}
<1>1. /\ DOMAIN item = Appliers /\ DOMAIN item' = Appliers
      /\ \A a \in Appliers : item[a] \in Tickets \cup {NoTicket}
  BY StepKeeps DEF Inv, Shape, Types, TypeOK
<1>2. ASSUME NEW c \in Calls, Call(c) \/ CallStep(c)
      PROVE  \A a \in Appliers : item'[a] \in {item[a], NoTicket, [call |-> c, gen |-> slice.gen]}
  BY <1>1, <1>2 DEF Call, CallStep, Find, Look, TryLock, Refuse, ReadGeneration, StampStart, Room, Link, Applied,
     Rejected, Accept, Unlock
<1>3. ASSUME NEW d \in Drains, DrainStep(d)
      PROVE  \A a \in Appliers : item'[a] \in {item[a], NoTicket} \/ (queue # <<>> /\ item'[a] = Picked)
  BY <1>1, <1>3 DEF DrainStep, Top, Wait, DrainLock, PickNothing, PickReserved, Pick, Drop, Drained, Park, Unlock
<1>4. ASSUME NEW b \in Appliers, LockedStep(b) PROVE \A a \in Appliers : item'[a] \in {item[a], NoTicket}
  BY <1>1, <1>4 DEF LockedStep, Recheck, Apply, Persist, Commit, Journal, StoreFails, Unlock
<1>5. ASSUME Tick \/ YieldOnce \/ Reserve \/ ReplanStep \/ Reassign \/ Age \/ Finished \/ UNCHANGED vars
      PROVE  item' = item
  BY <1>5 DEF Tick, YieldOnce, Reserve, ReplanStep, ReplanLock, Supersede, Withdraw, Reassign, Age, Finished, vars
<1>6. ASSUME NEW p \in Procs, Crash(p) PROVE \A a \in Appliers : item'[a] \in {item[a], NoTicket}
  <2>1. item' = [b \in DOMAIN item |-> IF b \in ActorsOf(p) THEN NoTicket ELSE item[b]]
    BY <1>6, Zenon DEF Crash
  <2> QED
    BY <1>1, <2>1
<1>7. \A c \in Calls : [call |-> c, gen |-> slice.gen] \in Tickets
  BY DEF Types, TypeOK, Slices, Tickets
<1>8. queue # <<>> => Picked \in Tickets
  BY PickedIsQueued DEF Types, TypeOK, ToSet
<1> QED
  BY <1>1, <1>2, <1>3, <1>4, <1>5, <1>6, <1>7, <1>8 DEF Next, Appliers

LEMMA AcceptedTypes ==
    ASSUME Inv, Types, [Next]_vars
    PROVE  accepted' \subseteq Tickets
<1> SUFFICES ASSUME NEW t \in accepted', t \notin accepted PROVE t \in Tickets
  BY DEF Types, TypeOK
<1>1. \A u \in ToSet(queue) : u \in Tickets
  BY DEF Types, TypeOK, ToSet
<1>2. \A c \in Calls : Link(c) => item[c] \in Tickets
  BY CarriesOwn DEF Link
<1> QED
  BY <1>1, <1>2, AcceptedMoves, QueuedTicket

LEMMA TypesInit == Init => Types
<1> SUFFICES ASSUME Init PROVE Types
  OBVIOUS
<1> USE QueueAssumption DEF Init
<1>1. TypeOK
  <2>1. slice \in Slices /\ rev \in Nat /\ started \in BOOLEAN /\ reserved \in BOOLEAN
    <3>1. 0 \in 0 .. MaxGen /\ "pending" \in Statuses
      BY DEF Statuses
    <3>2. slice \in Slices
      BY <3>1 DEF Slices
    <3> QED
      BY <3>2
  <2>2. queue \in Seq(Tickets) /\ young \subseteq ToSet(queue) /\ stamp \subseteq 0 .. MaxGen /\ accepted \subseteq Tickets
    OBVIOUS
  <2>3. \A c \in Calls : rcpt[c] \in Receipts \cup {None}
    OBVIOUS
  <2>4. lock \in Actors \cup {None} /\ DOMAIN pc = Actors
    OBVIOUS
  <2>5. \A a \in DOMAIN item : item[a] \in Tickets \cup {NoTicket}
    OBVIOUS
  <2> QED
    BY ONLY <2>1, <2>2, <2>3, <2>4, <2>5 DEF TypeOK
<1>2. Distinct(queue) /\ BoundInv /\ AgeInv
  BY DEF Distinct, BoundInv, AgeInv, ToSet
<1>3. CarryInv /\ ReceiptInv /\ WriteInv
  BY DEF CarryInv, ReceiptInv, WriteInv, Carrying, Locked, Appliers, Actors
<1>4. DOMAIN rcpt = Calls /\ persisted \in [Calls -> Nat]
  OBVIOUS
<1> QED
  BY <1>1, <1>2, <1>3, <1>4 DEF Types

LEMMA TypesKept ==
    ASSUME Inv, Types, [Next]_vars
    PROVE  Types'
<1>1. TypeOK'
  <2>1. /\ slice' \in Slices /\ rev' \in Nat /\ \A c \in Calls : rcpt'[c] \in Receipts \cup {None}
    BY NoteTypes DEF NoteGoal
  <2>2. queue' \in Seq(Tickets) /\ young' \subseteq ToSet(queue')
    BY QueueTypes
  <2>3. DOMAIN pc' = Actors
    BY StepKeeps DEF Inv, Shape
  <2>4. started' \in BOOLEAN /\ reserved' \in BOOLEAN /\ lock' \in Actors \cup {None}
    BY SmallTypes
  <2>5. stamp' \subseteq 0 .. MaxGen /\ accepted' \subseteq Tickets
    BY StampTypes, AcceptedTypes
  <2>6. \A a \in DOMAIN item' : item'[a] \in Tickets \cup {NoTicket}
    BY ItemTypes
  <2> QED
    BY <2>1, <2>2, <2>3, <2>4, <2>5, <2>6 DEF TypeOK
<1>2. DOMAIN rcpt' = Calls /\ persisted' \in [Calls -> Nat] /\ BoundInv' /\ ReceiptInv'
  BY NoteTypes DEF NoteGoal
<1>3. Distinct(queue)'
  BY QueueTypes
<1> QED
  BY <1>1, <1>2, <1>3, AgeKept, CarryKept, WriteKept DEF Types

\* The note, the queue, the receipts and what each actor carries are well
\* formed, and only queued tickets are young.
THEOREM QueueTypeCorrect == Spec => []TypeOK
<1>1. Init => Types
  BY TypesInit
<1>2. Inv /\ Types /\ [Next]_vars => Types'
  BY TypesKept
<1>3. Types => TypeOK
  BY DEF Types
<1> QED
  BY <1>1, <1>2, <1>3, QueueInvariant, PTL DEF Spec

-----------------------------------------------------------------------------
(* No complete without a start *)

\* A start or a progress of the current generation was persisted.
Witness == \E c \in Calls : Act[c] \in {"start", "progress"} /\ Gen[c] = slice.gen /\ persisted[c] > 0

\* Some call completes a generation.
Completable(g) == \E c \in Calls : Act[c] = "complete" /\ Gen[c] = g

\* A slice in progress is not assigned anew to a worker that completes it.
Settled == slice.status = "in_progress" /\ slice'.status = "in_progress" /\ slice'.gen # slice.gen
           => ~Completable(slice'.gen)

\* What lets a complete through: the journal's start, or the status.
StartInv == Completable(slice.gen) /\ ((Open /\ started) \/ slice.status = "in_progress") => Witness
ReadyInv == \A a \in Appliers : pc[a] = "persist" /\ Act[item[a].call] = "complete" => Witness

\* The slice is updated by a call, or comes to its next generation.
LEMMA SliceMoves ==
    ASSUME Inv, Types, [Next]_vars
    PROVE  \/ slice' = slice
           \/ \E a \in Appliers : Persist(a)
           \/ /\ slice'.gen = slice.gen + 1 /\ persisted' = persisted
              /\ slice'.status = "superseded" \/ (slice'.status = slice.status /\ started' = FALSE)
<1>1. slice \in Slices
  BY DEF Types, TypeOK
<1>2. ASSUME NEW status, NextGeneration(status)
      PROVE  slice'.gen = slice.gen + 1 /\ slice'.status = status /\ persisted' = persisted
  <2>1. slice = [gen |-> slice.gen, status |-> slice.status, by |-> slice.by]
    BY <1>1 DEF Slices
  <2>2. slice' = [gen |-> slice.gen + 1, status |-> status, by |-> slice.by]
    BY <1>2, <2>1 DEF NextGeneration
  <2> QED
    BY <1>2, <2>2 DEF NextGeneration
<1>3. Supersede => slice' = slice \/ NextGeneration("superseded")
  BY DEF Supersede
<1>4. Reassign => NextGeneration(slice.status) /\ started' = FALSE
  BY DEF Reassign
<1>5. \A a \in Appliers : Apply(a) \/ Commit(a) => slice' = slice
  BY DEF Apply, Commit
<1>6. \A d \in Drains : Drop(d) => slice' = slice
  BY DEF Drop
<1> QED
  BY <1>2, <1>3, <1>4, <1>5, <1>6, NoteMoves

\* The journal gains a start from the update of a start or progress only.
LEMMA StartMoves ==
    ASSUME [Next]_vars, started', ~started
    PROVE  \E a \in Appliers : Journal(a) /\ Act[item[a].call] \in {"start", "progress"}
<1>1. ASSUME NEW c \in Calls, Call(c) \/ CallStep(c) PROVE started' = started
  BY <1>1 DEF Call, CallStep, Find, Look, TryLock, Refuse, ReadGeneration, StampStart, Room, Link, Applied, Rejected, note
<1>2. ASSUME NEW d \in Drains, DrainStep(d) PROVE started' = started
  BY <1>2 DEF DrainStep, Top, Wait, DrainLock, PickNothing, PickReserved, Pick, Drop, Drained, Park, note
<1>3. ASSUME NEW a \in Appliers, LockedStep(a), ~Journal(a) PROVE started' = started
  BY <1>3 DEF LockedStep, Recheck, Apply, Persist, Commit, StoreFails, note
<1>4. ASSUME NEW a \in Appliers, Journal(a) PROVE Act[item[a].call] \in {"start", "progress"}
  BY <1>4 DEF Journal, Its
<1>5. ASSUME Tick \/ YieldOnce \/ Reserve \/ ReplanStep PROVE started' = started
  BY <1>5 DEF Tick, YieldOnce, Reserve, ReplanStep, ReplanLock, Supersede, Withdraw, note
<1>6. Reassign => started' = FALSE
  BY DEF Reassign
<1>7. ASSUME Age \/ Finished \/ UNCHANGED vars \/ \E p \in Procs : Crash(p) PROVE started' = started
  BY <1>7 DEF Age, Finished, vars, note, Crash
<1> QED
  BY <1>1, <1>2, <1>3, <1>4, <1>5, <1>6, <1>7 DEF Next, Appliers

\* A persist is the update of its call; what the others persisted stays.
LEMMA PersistStep ==
    ASSUME Inv, Types, NEW a \in Appliers, NEW c, c = item[a].call, Persist(a)
    PROVE  /\ c \in Calls /\ Due(c) /\ pc[a] = "persist" /\ pc'[a] = "commit" /\ lock = a
           /\ slice' = Updated(c) /\ slice'.gen = slice.gen /\ slice' \in Slices /\ rev' = rev + 1
           /\ persisted' = [persisted EXCEPT ![c] = @ + 1] /\ persisted'[c] = persisted[c] + 1
           /\ \A b \in Calls : persisted'[b] \in Nat /\ persisted'[b] >= persisted[b]
                               /\ (b # c => persisted'[b] = persisted[b])
           /\ UNCHANGED <<started, rcpt, item, lock, queue, accepted>>
<1>1. a \in Actors /\ DOMAIN pc = Actors
  BY DEF Inv, Shape, Appliers, Actors
<1>2. /\ pc[a] = "persist" /\ pc' = [pc EXCEPT ![a] = "commit"] /\ slice' = Updated(c) /\ rev' = rev + 1
      /\ persisted' = [persisted EXCEPT ![c] = @ + 1] /\ UNCHANGED <<started, rcpt, item, lock, queue, accepted>>
  BY DEF Persist, Goto, Its
<1>3. c \in Calls /\ Due(c) /\ lock = a
  BY <1>1, <1>2, Carries DEF Carrying, Locked, Guarded, Inv, ApplyInv, HolderInv
<1>4. persisted \in [Calls -> Nat]
  BY DEF Types
<1> QED
  BY <1>1, <1>2, <1>3, <1>4, UpdateTypes

\* What has been persisted stays so.
LEMMA PersistedGrows ==
    ASSUME Inv, Types, [Next]_vars
    PROVE  \A c \in Calls : persisted[c] \in Nat /\ persisted'[c] \in Nat /\ persisted'[c] >= persisted[c]
<1>1. persisted \in [Calls -> Nat]
  BY DEF Types
<1>2. persisted' = persisted \/ \E a \in Appliers : Persist(a)
  BY NoteMoves DEF Apply, Commit, Drop, Supersede, Reassign, NextGeneration
<1> QED
  BY <1>1, <1>2, PersistStep

LEMMA WitnessKept ==
    ASSUME Inv, Types, [Next]_vars, Witness, slice'.gen = slice.gen
    PROVE  Witness'
<1>1. PICK c \in Calls : Act[c] \in {"start", "progress"} /\ Gen[c] = slice.gen /\ persisted[c] > 0
  BY DEF Witness
<1>2. persisted'[c] > 0
  BY <1>1, PersistedGrows
<1> QED
  BY <1>1, <1>2 DEF Witness

LEMMA StartKept ==
    ASSUME Inv, Types, StartInv, ReadyInv, [Next]_vars, Settled
    PROVE  StartInv'
<1> DEFINE Starts == (Open /\ started) \/ slice.status = "in_progress"
<1> SUFFICES ASSUME Completable(slice.gen)', Starts' PROVE Witness'
  BY DEF StartInv
<1>1. slice \in Slices /\ slice.gen \in Nat
  BY QueueAssumption DEF Types, TypeOK, Slices
<1>2. CASE slice' = slice
  <2>1. CASE Starts
    BY <1>2, <2>1, WitnessKept DEF StartInv, Completable
  <2>2. CASE ~Starts
    <3>1. started' /\ ~started
      BY <1>2, <2>2 DEF Open
    <3>2. PICK a \in Appliers : Journal(a) /\ Act[item[a].call] \in {"start", "progress"}
      BY <3>1, StartMoves
    <3>3. pc[a] = "journal" /\ item[a].call \in Calls
      BY <3>2, Carries DEF Journal, Carrying, Locked
    <3>4. Gen[item[a].call] = slice.gen /\ persisted[item[a].call] > 0
      BY <3>3 DEF Types, WriteInv
    <3>5. Witness
      BY <3>2, <3>3, <3>4 DEF Witness
    <3> QED
      BY <1>2, <3>5, WitnessKept
  <2> QED
    BY <2>1, <2>2
<1>3. ASSUME NEW a \in Appliers, Persist(a) PROVE Witness'
  <2> DEFINE c == item[a].call
  <2>1. c \in Calls /\ Due(c) /\ slice' = Updated(c) /\ slice'.gen = slice.gen /\ persisted'[c] = persisted[c] + 1
        /\ started' = started /\ persisted[c] \in Nat
    BY <1>3, PersistStep, PersistedGrows
  <2>2. CASE slice'.status = "in_progress"
    <3>1. Act[c] \in {"start", "progress"} /\ persisted'[c] > 0
      BY <2>1, <2>2, UpdateTypes
    <3> QED
      BY <2>1, <3>1 DEF Witness, Due
  <2>3. CASE slice'.status # "in_progress"
    <3>1. Completable(slice.gen) /\ Open /\ started
      BY <2>1, <2>3 DEF Due, Completable
    <3> QED
      BY <2>1, <3>1, WitnessKept DEF StartInv
  <2> QED
    BY <2>2, <2>3
<1>4. CASE /\ slice'.gen = slice.gen + 1
           /\ slice'.status = "superseded" \/ (slice'.status = slice.status /\ started' = FALSE)
  BY <1>1, <1>4 DEF Settled, Completable, Open
<1> QED
  BY <1>2, <1>3, <1>4, SliceMoves

\* Nobody is about to write while the generation changes.
LEMMA GenStands ==
    ASSUME Inv, Types, [Next]_vars, NEW a \in Appliers, pc'[a] = "persist"
    PROVE  /\ slice' = slice /\ persisted' = persisted
           /\ Apply(a) \/ (pc[a] = "persist" /\ item'[a] = item[a])
<1>1. DOMAIN pc = Actors /\ a \in Actors
  BY DEF Inv, Shape, Appliers, Actors
<1>2. ~Persist(a) /\ ~Commit(a) /\ ~Journal(a)
  BY <1>1 DEF Persist, Commit, Journal, Goto
<1>3. Apply(a) => UNCHANGED <<slice, persisted>>
  BY DEF Apply
<1> QED
  BY <1>2, <1>3, WritesLocked DEF Writing

LEMMA ReadyKept ==
    ASSUME Inv, Types, StartInv, ReadyInv, [Next]_vars
    PROVE  ReadyInv'
<1> SUFFICES ASSUME NEW a \in Appliers, pc'[a] = "persist", Act[item'[a].call] = "complete" PROVE Witness'
  BY DEF ReadyInv
<1>1. slice' = slice
  BY GenStands
<1>2. CASE pc[a] = "persist" /\ item'[a] = item[a]
  BY <1>1, <1>2, WitnessKept DEF ReadyInv
<1>3. CASE Apply(a)
  <2> DEFINE c == item[a].call
  <2>1. c \in Calls /\ ~Refused(c) /\ item' = item
    BY <1>3, ApplyWays
  <2>2. Gen[c] = slice.gen /\ Open /\ ~StartMissing /\ Act[c] = "complete"
    BY <2>1 DEF Refused
  <2>3. (Open /\ started) \/ slice.status = "in_progress"
    BY <2>2 DEF StartMissing
  <2>4. Completable(slice.gen)
    BY <2>1, <2>2 DEF Completable
  <2> QED
    BY <1>1, <2>3, <2>4, WitnessKept DEF StartInv
<1> QED
  BY <1>2, <1>3, GenStands

LEMMA StartsInit == Init => StartInv /\ ReadyInv
BY DEF Init, StartInv, ReadyInv, Appliers, Actors

LEMMA DoneAfterStart ==
    ASSUME Inv, Types, StartInv, ReadyInv, [Next]_vars, slice'.status = "done", slice.status # "done"
    PROVE  Witness
<1>1. PICK a \in Appliers : Persist(a)
  BY SliceMoves
<1>2. item[a].call \in Calls /\ pc[a] = "persist" /\ slice' = Updated(item[a].call)
  BY <1>1, PersistStep
<1>3. Act[item[a].call] = "complete"
  BY <1>2, UpdateTypes
<1> QED
  BY <1>2, <1>3 DEF ReadyInv

\* "complete cannot persist done without start" (thread-worker.ts:341): however
\* calls and drains overtake each other, and whatever dies, a slice is done only
\* after a start or progress of its generation was persisted - as long as no slice
\* in progress is assigned anew to a worker that completes it, whose status the
\* code takes for that start.
THEOREM CompleteAfterStart == Spec /\ [][Settled]_vars => CompleteNeedsStart
<1>1. Init => StartInv /\ ReadyInv
  BY StartsInit
<1>2. Inv /\ Types /\ StartInv /\ ReadyInv /\ [Next]_vars /\ [Settled]_vars => (StartInv /\ ReadyInv)'
  <2> SUFFICES ASSUME Inv, Types, StartInv, ReadyInv, [Next]_vars, [Settled]_vars PROVE (StartInv /\ ReadyInv)'
    OBVIOUS
  <2>1. Settled
    BY DEF Settled, vars, note
  <2> QED
    BY <2>1, StartKept, ReadyKept
<1>3. Inv /\ Types /\ StartInv /\ ReadyInv /\ [Next]_vars =>
        [slice'.status = "done" /\ slice.status # "done" =>
            \E c \in Calls : /\ Act[c] \in {"start", "progress"} /\ Gen[c] = slice.gen
                             /\ persisted[c] > 0]_vars
  BY DoneAfterStart DEF Witness
<1>4. Spec => []Types
  BY TypesInit, TypesKept, QueueInvariant, PTL DEF Spec
<1> QED
  BY <1>1, <1>2, <1>3, <1>4, QueueInvariant, PTL DEF Spec, CompleteNeedsStart

\* So it is for calls of the first generation, as in the run.
COROLLARY FirstCompleteAfterStart ==
    ASSUME \A c \in Calls : Gen[c] = 0
    PROVE  Spec => CompleteNeedsStart
<1>1. Inv /\ Types /\ [Next]_vars => [Settled]_vars
  <2> SUFFICES ASSUME Inv, Types, [Next]_vars PROVE Settled
    OBVIOUS
  <2>1. slice.gen \in Nat /\ slice'.gen \in Nat /\ slice.gen <= slice'.gen
    BY NoteTypes, QueueAssumption DEF NoteGoal, Types, TypeOK, Slices
  <2> QED
    BY <2>1 DEF Settled, Completable
<1>2. Spec => []Types
  BY TypesInit, TypesKept, QueueInvariant, PTL DEF Spec
<1> QED
  BY <1>1, <1>2, QueueInvariant, CompleteAfterStart, PTL DEF Spec

-----------------------------------------------------------------------------
(* Once, and kept *)

\* No update but a complete may follow c in its generation.
Sole(c) == Act[c] = "complete" \/ \A d \in Calls \ {c} : Gen[d] = Gen[c] => Act[d] = "complete"

\* No other start is of the generation of a start.
SoleStart(c) == Act[c] = "start" => \A d \in Calls \ {c} : Act[d] = "start" => Gen[d] # Gen[c]

\* A write fails, or its process dies in it, only where no other update could
\* make the receipt left pending look applied, or hide that it was.
Intact == \A a \in Appliers :
    /\ pc[a] = "persist" /\ pc'[a] \notin {"persist", "commit"} => SoleStart(item[a].call)
    /\ pc[a] = "commit" /\ pc'[a] \notin {"commit", "journal"} => Sole(item[a].call)

At(a, step, c) == pc[a] = step /\ item[a].call = c
Current(c)     == rcpt[c] # None /\ rcpt[c].slice.gen = slice.gen

\* What is about to be persisted has not been, what is past that has.
FreshInv  == \A a \in Appliers : pc[a] = "persist" => persisted[item[a].call] = 0
FinishInv == \A a \in Appliers : pc[a] \in {"commit", "journal", "finish"} => persisted[item[a].call] > 0

\* The receipt of an update that was persisted answers a retry.
Recalled(c) ==
    /\ Current(c)
    /\ \/ rcpt[c].committed
       \/ /\ rcpt[c].slice = slice /\ rcpt[c].rev <= rev
          /\ Sole(c) \/ \E a \in Appliers : At(a, "commit", c)
DoneInv == \A c \in Calls : persisted[c] > 0 => Gen[c] < slice.gen \/ ~Open \/ Recalled(c)

\* Evidence is that of a persisted update, and so is a committed receipt.
ByInv        == slice.by \in Calls => persisted[slice.by] > 0
CommittedInv == \A c \in Calls : Current(c) /\ rcpt[c].committed => persisted[c] > 0
CompleteInv  == \A c \in Calls : rcpt[c] # None /\ Act[c] = "complete" => rcpt[c].slice.status = "done"

\* The receipt of a start that was not persisted does not look applied.
Unlike(c) ==
    /\ rcpt[c].slice.by \in Calls => persisted[rcpt[c].slice.by] > 0
    /\ rcpt[c].rev <= rev => slice.by # rcpt[c].slice.by
    /\ SoleStart(c) \/ \E a \in Appliers : At(a, "persist", c)
PendingInv == \A c \in Calls : Current(c) /\ persisted[c] = 0 /\ Act[c] = "start" => Unlike(c)

Once == FreshInv /\ FinishInv /\ DoneInv /\ ByInv /\ CommittedInv /\ CompleteInv /\ PendingInv /\ AppliedOnce

LEMMA OnceInit == Init => Once
<1> SUFFICES ASSUME Init PROVE Once
  OBVIOUS
<1>1. \A a \in Appliers : pc[a] = "idle"
  BY DEF Init, Appliers, Actors
<1>2. \A c \in Calls : rcpt[c] = None /\ persisted[c] = 0
  BY DEF Init
<1>3. slice.by \notin Calls
  BY QueueAssumption DEF Init, Actors
<1> QED
  BY <1>1, <1>2, <1>3 DEF Once, FreshInv, FinishInv, DoneInv, ByInv, CommittedInv, CompleteInv, PendingInv, AppliedOnce,
     Current

\* A receipt that answers a call is that of an update that was persisted.
LEMMA AnsweredIsPersisted ==
    ASSUME Inv, Types, Once, NEW c \in Calls, Answered(c)
    PROVE  persisted[c] > 0
<1>1. Current(c) /\ (rcpt[c].committed \/ (rcpt[c].slice = slice /\ rcpt[c].rev <= rev))
  BY DEF Answered, Receipt, Current
<1>2. persisted[c] \in Nat
  BY DEF Types
<1>3. CASE rcpt[c].committed
  BY <1>1, <1>3 DEF Once, CommittedInv
<1>4. CASE rcpt[c].slice = slice /\ rcpt[c].rev <= rev /\ Act[c] # "start"
  <2>1. slice.by = c
    BY <1>1, <1>4 DEF Current, Types, ReceiptInv
  <2> QED
    BY <2>1 DEF Once, ByInv
<1>5. CASE rcpt[c].slice = slice /\ rcpt[c].rev <= rev /\ Act[c] = "start"
  <2>1. ~(persisted[c] = 0)
    BY <1>1, <1>5 DEF Once, PendingInv, Unlike
  <2> QED
    BY <1>2, <2>1
<1> QED
  BY <1>1, <1>3, <1>4, <1>5

\* A call that is neither answered nor refused has not been persisted.
LEMMA FreshApply ==
    ASSUME Inv, Types, Once, NEW c \in Calls, ~Answered(c), ~Refused(c)
    PROVE  persisted[c] = 0
<1>1. persisted[c] \in Nat /\ slice.gen \in Nat
  BY QueueAssumption DEF Types, TypeOK, Slices
<1>2. Gen[c] = slice.gen /\ Open
  BY DEF Refused
<1>3. ~Recalled(c)
  BY <1>2 DEF Recalled, Current, Answered, Receipt
<1> QED
  BY <1>1, <1>2, <1>3 DEF Once, DoneInv

\* Where an applier that is about to write, or has written, goes from there.
LEMMA Leaves ==
    ASSUME Inv, Types, [Next]_vars, NEW a \in Appliers
    PROVE  /\ pc[a] = "persist" => \/ Persist(a) \/ pc'[a] \notin {"persist", "commit"}
                                   \/ (pc'[a] = "persist" /\ item'[a] = item[a])
           /\ pc[a] = "commit" => \/ Commit(a) \/ pc'[a] \notin {"commit", "journal"}
                                  \/ (pc'[a] = "commit" /\ item'[a] = item[a])
           /\ pc[a] \in {"persist", "commit"} /\ LockedAct(a) => Persist(a) \/ Commit(a) \/ StoreFails(a)
<1>1. DOMAIN pc = Actors /\ a \in Actors
  BY DEF Inv, Shape, Appliers, Actors
<1>2. pc[a] \in {"persist", "commit"} /\ LockedAct(a) => Persist(a) \/ Commit(a) \/ StoreFails(a)
  BY DEF LockedAct, LockedStep, Recheck, Apply, Journal, Applied, Rejected, PickNothing, PickReserved, Drop, Pick,
     Drained, Park, YieldOnce
<1>3. StoreFails(a) => pc'[a] = "fail"
  BY <1>1 DEF StoreFails, Goto
<1>4. Persist(a) => pc[a] = "persist"
  BY DEF Persist
<1>5. Commit(a) => pc[a] = "commit"
  BY DEF Commit
<1>6. pc[a] \in {"persist", "commit"} => pc[a] \in Locked
  BY DEF Locked
<1>7. pc[a] \in {"persist", "commit"} => LockedAct(a) \/ pc'[a] = "idle" \/ (pc'[a] = pc[a] /\ item'[a] = item[a])
  BY <1>6, Undisturbed
<1> QED
  BY <1>2, <1>3, <1>4, <1>5, <1>7

LEMMA FreshKept ==
    ASSUME Inv, Types, Once, [Next]_vars
    PROVE  FreshInv'
<1> SUFFICES ASSUME NEW a \in Appliers, pc'[a] = "persist" PROVE persisted'[item'[a].call] = 0
  BY DEF FreshInv
<1>1. CASE pc[a] = "persist" /\ item'[a] = item[a] /\ persisted' = persisted
  BY <1>1 DEF Once, FreshInv
<1>2. CASE Apply(a)
  BY <1>2, ApplyWays, FreshApply
<1> QED
  BY <1>1, <1>2, GenStands

LEMMA FinishKept ==
    ASSUME Inv, Types, Once, [Next]_vars
    PROVE  FinishInv'
<1> SUFFICES ASSUME NEW a \in Appliers, pc'[a] \in {"commit", "journal", "finish"} PROVE persisted'[item'[a].call] > 0
  BY DEF FinishInv
<1>2. ASSUME pc[a] \in {"commit", "journal", "finish"}, item'[a] = item[a]
      PROVE  persisted'[item'[a].call] > 0
  <2>1. item[a].call \in Calls
    BY <1>2, Carries DEF Carrying, Locked
  <2> QED
    BY <1>2, <2>1, PersistedGrows DEF Once, FinishInv
<1>3. CASE Commit(a) \/ Journal(a)
  BY <1>2, <1>3 DEF Commit, Journal
<1>4. CASE Persist(a)
  BY <1>4, PersistStep, PersistedGrows
<1>5. CASE Apply(a)
  BY <1>5, ApplyWays, AnsweredIsPersisted
<1> QED
  BY <1>2, <1>3, <1>4, <1>5, WritesLocked DEF Writing

\* What the receipts become, and when.
LEMMA ReceiptMoves ==
    ASSUME Inv, Types, Once, [Next]_vars, NEW c \in Calls
    PROVE  \/ rcpt'[c] = rcpt[c]
           \/ rcpt'[c] = None /\ ~(slice' = slice /\ Open /\ Current(c))
           \/ /\ rcpt[c] # None /\ rcpt'[c] = [committed |-> TRUE, slice |-> rcpt[c].slice, rev |-> rcpt[c].rev]
              /\ slice' = slice /\ persisted' = persisted /\ rev' = rev /\ persisted[c] > 0
           \/ /\ rcpt'[c] = [committed |-> FALSE, slice |-> Updated(c), rev |-> rev + 1]
              /\ slice' = slice /\ persisted' = persisted /\ rev' = rev /\ persisted[c] = 0 /\ Due(c)
              /\ \E a \in Appliers : At(a, "persist", c)'
<1>1. DOMAIN rcpt = Calls /\ slice \in Slices
  BY DEF Types, TypeOK
<1>2. ASSUME NEW a \in Appliers, Apply(a), rcpt'[c] # rcpt[c]
      PROVE  \/ /\ rcpt[c] # None /\ rcpt'[c] = [committed |-> TRUE, slice |-> rcpt[c].slice, rev |-> rcpt[c].rev]
                /\ slice' = slice /\ persisted' = persisted /\ rev' = rev /\ persisted[c] > 0
             \/ /\ rcpt'[c] = [committed |-> FALSE, slice |-> Updated(c), rev |-> rev + 1]
                /\ slice' = slice /\ persisted' = persisted /\ rev' = rev /\ persisted[c] = 0 /\ Due(c)
                /\ \E b \in Appliers : At(b, "persist", c)'
  <2> DEFINE d == item[a].call
  <2>1. /\ d \in Calls /\ UNCHANGED <<slice, rev, persisted, item>>
        /\ \/ pc'[a] = "fail" /\ rcpt' = rcpt
           \/ /\ Answered(d)
              /\ rcpt' = [rcpt EXCEPT ![d] = [committed |-> TRUE, slice |-> rcpt[d].slice, rev |-> rcpt[d].rev]]
           \/ pc'[a] = "persist" /\ ~Refused(d) /\ ~Answered(d) /\ rcpt' = [rcpt EXCEPT ![d] = Pending(d)]
    BY <1>2, ApplyWays
  <2>2. d = c
    BY <1>1, <1>2, <2>1
  <2>3. CASE Answered(c)
    <3>1. rcpt[c] # None /\ persisted[c] > 0
      BY <2>3, AnsweredIsPersisted DEF Answered, Receipt
    <3> QED
      BY <1>1, <1>2, <2>1, <2>2, <2>3, <3>1
  <2>4. CASE ~Answered(c) /\ ~Refused(c) /\ pc'[a] = "persist" /\ rcpt' = [rcpt EXCEPT ![c] = Pending(c)]
    <3>1. persisted[c] = 0 /\ Due(c)
      BY <2>4, FreshApply DEF Refused, Due
    <3>2. At(a, "persist", c)'
      BY <2>1, <2>2, <2>4 DEF At
    <3> QED
      BY <1>1, <2>1, <2>4, <3>1, <3>2 DEF Pending
  <2> QED
    BY <1>2, <2>1, <2>2, <2>3, <2>4
<1>3. ASSUME NEW a \in Appliers, Commit(a), rcpt'[c] # rcpt[c]
      PROVE  /\ rcpt[c] # None /\ rcpt'[c] = [committed |-> TRUE, slice |-> rcpt[c].slice, rev |-> rcpt[c].rev]
             /\ slice' = slice /\ persisted' = persisted /\ rev' = rev /\ persisted[c] > 0
  <2> DEFINE d == item[a].call
  <2>1. rcpt' = [rcpt EXCEPT ![d].committed = TRUE] /\ UNCHANGED <<slice, rev, persisted>> /\ pc[a] = "commit"
    BY <1>3 DEF Commit, Its
  <2>2. d = c
    BY <1>1, <1>3, <2>1
  <2>3. rcpt[c] = [committed |-> FALSE, slice |-> slice, rev |-> rev] /\ persisted[c] > 0
    BY <2>1, <2>2 DEF Types, WriteInv
  <2>4. rcpt[c] \in Receipts
    BY <1>1, <2>3 DEF Receipts, Types, TypeOK
  <2>5. rcpt'[c] = [rcpt[c] EXCEPT !.committed = TRUE]
    BY <1>1, <2>1, <2>2
  <2> QED
    BY <2>1, <2>3, <2>4, <2>5, CommittedReceipt, QueueAssumption
<1>4. ASSUME NEW d \in Drains, Drop(d), rcpt'[c] # rcpt[c]
      PROVE  rcpt'[c] = None /\ ~(slice' = slice /\ Open /\ Current(c))
  <2>1. /\ ~Live(Picked) /\ slice' = slice
        /\ rcpt' = [b \in Calls |-> IF rcpt[b] # None /\ rcpt[b].slice.gen = Picked.gen THEN None ELSE rcpt[b]]
    BY <1>4 DEF Drop
  <2>2. rcpt'[c] = None /\ rcpt[c].slice.gen = Picked.gen
    BY <1>4, <2>1
  <2> QED
    BY <2>1, <2>2 DEF Live, Current
<1>5. ASSUME Supersede \/ Reassign, rcpt'[c] # rcpt[c]
      PROVE  rcpt'[c] = None /\ ~(slice' = slice /\ Open /\ Current(c))
  <2>1. \E status : NextGeneration(status)
    BY <1>5 DEF Supersede, Reassign
  <2>2. /\ slice' # slice
        /\ rcpt' = [b \in Calls |-> IF rcpt[b] # None /\ rcpt[b].slice.gen = slice.gen THEN None ELSE rcpt[b]]
    <3>1. slice = [gen |-> slice.gen, status |-> slice.status, by |-> slice.by] /\ slice.gen \in Nat
      BY <1>1, QueueAssumption DEF Slices
    <3>2. slice'.gen = slice.gen + 1
      BY <2>1, <3>1 DEF NextGeneration
    <3>3. slice' # slice
      BY <3>1, <3>2
    <3>4. rcpt' = [b \in Calls |-> IF rcpt[b] # None /\ rcpt[b].slice.gen = slice.gen THEN None ELSE rcpt[b]]
      BY <2>1 DEF NextGeneration
    <3> QED
      BY <3>3, <3>4
  <2> QED
    BY <1>5, <2>2
<1>6. \A a \in Appliers : Persist(a) => rcpt' = rcpt
  BY DEF Persist
<1> QED
  BY <1>2, <1>3, <1>4, <1>5, <1>6, NoteMoves

\* The slice and what was persisted, from one step to the next.
LEMMA NoteSteps ==
    ASSUME Inv, Types, [Next]_vars
    PROVE  \/ UNCHANGED <<slice, rev, persisted>>
           \/ \E a \in Appliers : Persist(a)
           \/ Open /\ slice'.gen = slice.gen + 1 /\ slice'.by = slice.by /\ persisted' = persisted
<1>1. slice \in Slices /\ rev \in Nat
  BY DEF Types, TypeOK
<1>2. ASSUME NEW status, NextGeneration(status)
      PROVE  slice'.gen = slice.gen + 1 /\ slice'.by = slice.by /\ persisted' = persisted
  <2>1. slice = [gen |-> slice.gen, status |-> slice.status, by |-> slice.by]
    BY <1>1 DEF Slices
  <2>2. slice' = [gen |-> slice.gen + 1, status |-> status, by |-> slice.by]
    BY <1>2, <2>1 DEF NextGeneration
  <2> QED
    BY <1>2, <2>2 DEF NextGeneration
<1>3. Supersede => UNCHANGED <<slice, rev, persisted>> \/ (Open /\ NextGeneration("superseded"))
  BY DEF Supersede
<1>4. Reassign => Open /\ NextGeneration(slice.status)
  BY DEF Reassign
<1>5. \A a \in Appliers : Apply(a) \/ Commit(a) => UNCHANGED <<slice, rev, persisted>>
  BY DEF Apply, Commit
<1>6. \A d \in Drains : Drop(d) => UNCHANGED <<slice, rev, persisted>>
  BY DEF Drop
<1> QED
  BY <1>1, <1>2, <1>3, <1>4, <1>5, <1>6, NoteMoves

LEMMA ByKept ==
    ASSUME Inv, Types, Once, [Next]_vars
    PROVE  ByInv'
<1>1. ASSUME NEW a \in Appliers, Persist(a) PROVE ByInv'
  <2> DEFINE c == item[a].call
  <2>1. c \in Calls /\ slice' = Updated(c) /\ persisted'[c] = persisted[c] + 1 /\ persisted[c] \in Nat
    BY <1>1, PersistStep, PersistedGrows
  <2>2. slice'.by = c \/ slice'.by = slice.by
    BY <2>1, UpdateTypes
  <2> QED
    BY <2>1, <2>2, PersistedGrows DEF Once, ByInv
<1>2. ASSUME slice'.by = slice.by, persisted' = persisted PROVE ByInv'
  BY <1>2 DEF Once, ByInv
<1> QED
  BY <1>1, <1>2, NoteSteps

LEMMA CompleteKept ==
    ASSUME Inv, Types, Once, [Next]_vars
    PROVE  CompleteInv'
<1> SUFFICES ASSUME NEW c \in Calls, rcpt'[c] # None, Act[c] = "complete" PROVE rcpt'[c].slice.status = "done"
  BY DEF CompleteInv
<1>1. rcpt[c] # None => rcpt[c].slice.status = "done"
  BY DEF Once, CompleteInv
<1>2. Updated(c).status = "done"
  BY UpdateTypes
<1>3. \/ rcpt'[c] = rcpt[c] \/ rcpt'[c] = None
      \/ rcpt[c] # None /\ rcpt'[c] = [committed |-> TRUE, slice |-> rcpt[c].slice, rev |-> rcpt[c].rev]
      \/ rcpt'[c] = [committed |-> FALSE, slice |-> Updated(c), rev |-> rev + 1]
  BY ReceiptMoves
<1> QED
  BY <1>1, <1>2, <1>3

\* A receipt of the generation that has just begun is none.
LEMMA NewGeneration ==
    ASSUME Inv, Types, Once, [Next]_vars, NEW c \in Calls, slice'.gen = slice.gen + 1, Open, persisted' = persisted
    PROVE  ~Current(c)' /\ (persisted[c] > 0 => Gen[c] < slice'.gen)
<1>1. slice.gen \in Nat /\ slice \in Slices /\ Gen[c] \in Nat /\ slice' # slice
  BY QueueAssumption DEF Types, TypeOK, Slices
<1>2. rcpt[c] # None => rcpt[c].slice.gen <= slice.gen /\ Gen[c] = rcpt[c].slice.gen
  BY DEF Types, ReceiptInv
<1>3. rcpt'[c] = rcpt[c] \/ rcpt'[c] = None
  BY <1>1, ReceiptMoves
<1>4. persisted[c] > 0 => Gen[c] <= slice.gen
  BY <1>1, <1>2 DEF Once, DoneInv, Recalled, Current
<1> QED
  BY <1>1, <1>2, <1>3, <1>4 DEF Current

LEMMA CommittedKept ==
    ASSUME Inv, Types, Once, [Next]_vars
    PROVE  CommittedInv'
<1> SUFFICES ASSUME NEW c \in Calls, Current(c)', rcpt'[c].committed PROVE persisted'[c] > 0
  BY DEF CommittedInv
<1>1. persisted[c] > 0 => persisted'[c] > 0
  BY PersistedGrows
<1>2. CASE slice'.gen = slice.gen
  <2>1. rcpt'[c] # None /\ rcpt'[c].slice.gen = slice.gen
    BY <1>2 DEF Current
  <2>2. \/ rcpt'[c] = rcpt[c] \/ persisted[c] > 0
        \/ rcpt'[c] = [committed |-> FALSE, slice |-> Updated(c), rev |-> rev + 1]
    BY <2>1, ReceiptMoves
  <2>3. CASE rcpt'[c] = rcpt[c]
    BY <1>1, <2>1, <2>3 DEF Once, CommittedInv, Current
  <2> QED
    BY <1>1, <2>2, <2>3
<1>3. CASE Open /\ slice'.gen = slice.gen + 1 /\ persisted' = persisted
  BY <1>3, NewGeneration
<1> QED
  BY <1>2, <1>3, NoteSteps, PersistStep

LEMMA DoneKept ==
    ASSUME Inv, Types, Once, [Next]_vars, Intact
    PROVE  DoneInv'
<1> SUFFICES ASSUME NEW c \in Calls, persisted'[c] > 0 PROVE Gen[c] < slice'.gen \/ ~Open' \/ Recalled(c)'
  BY DEF DoneInv
<1>1. slice \in Slices /\ rev \in Nat /\ slice.gen \in Nat /\ DOMAIN pc = Actors /\ Appliers \subseteq Actors
  BY QueueAssumption DEF Types, TypeOK, Slices, Inv, Shape, Actors, Appliers
<1>2. CASE UNCHANGED <<slice, rev, persisted>>
  <2>1. Gen[c] < slice.gen \/ ~Open \/ Recalled(c)
    BY <1>2 DEF Once, DoneInv
  <2>2. CASE Gen[c] < slice.gen \/ ~Open
    BY <1>2, <2>2 DEF Open
  <2>3. CASE Open /\ Recalled(c)
    <3>1. Current(c) /\ rcpt[c] \in Receipts
      BY <2>3 DEF Recalled, Current, Types, TypeOK
    <3>2. CASE rcpt'[c] = rcpt[c] /\ rcpt[c].committed
      BY <1>2, <3>1, <3>2 DEF Recalled, Current
    <3>3. CASE rcpt'[c] = rcpt[c] /\ ~rcpt[c].committed
      <4>1. rcpt[c].slice = slice /\ rcpt[c].rev <= rev /\ (Sole(c) \/ \E a \in Appliers : At(a, "commit", c))
        BY <2>3, <3>3 DEF Recalled
      <4>2. rcpt'[c].slice = slice' /\ rcpt'[c].rev <= rev' /\ Current(c)'
        <5>1. rcpt[c].rev \in Nat
          BY <3>1 DEF Receipts
        <5> QED
          BY <1>1, <1>2, <3>1, <3>3, <4>1, <5>1 DEF Current
      <4>3. CASE Sole(c)
        BY <4>2, <4>3 DEF Recalled, Sole
      <4>4. ASSUME NEW a \in Appliers, At(a, "commit", c) PROVE Recalled(c)'
        <5>1. CASE Commit(a)
          <6>1. rcpt' = [rcpt EXCEPT ![c].committed = TRUE]
            BY <4>4, <5>1 DEF Commit, Its, At
          <6>2. rcpt' = [rcpt EXCEPT ![c] = [rcpt[c] EXCEPT !.committed = TRUE]] /\ DOMAIN rcpt = Calls
            BY <6>1 DEF Types
          <6>3. rcpt'[c] = [committed |-> TRUE, slice |-> rcpt[c].slice, rev |-> rcpt[c].rev]
            BY <3>1, <6>2, CommittedReceipt
          <6> QED
            BY <3>3, <6>3
        <5>2. CASE pc'[a] \notin {"commit", "journal"}
          <6>1. Sole(c)
            BY <4>4, <5>2 DEF Intact, At
          <6> QED
            BY <4>2, <6>1 DEF Recalled, Sole
        <5>3. CASE pc'[a] = "commit" /\ item'[a] = item[a]
          <6>1. At(a, "commit", c)'
            BY <4>4, <5>3 DEF At
          <6> QED
            BY <4>2, <6>1 DEF Recalled
        <5> QED
          BY <4>4, <5>1, <5>2, <5>3, Leaves DEF At
      <4> QED
        BY <4>1, <4>3, <4>4
    <3>4. CASE rcpt'[c] = [committed |-> TRUE, slice |-> rcpt[c].slice, rev |-> rcpt[c].rev]
      <4>1. rcpt'[c] # None
        <5>1. rcpt'[c] \in Receipts
          BY <3>1, <3>4, CommittedReceipt
        <5> QED
          BY <5>1, QueueAssumption
      <4> QED
        BY <1>2, <3>1, <3>4, <4>1 DEF Recalled, Current
    <3>5. persisted[c] # 0 /\ slice' = slice /\ Open /\ Current(c)
      BY <1>2, <2>3, <3>1
    <3>6. \/ rcpt'[c] = rcpt[c]
          \/ rcpt'[c] = [committed |-> TRUE, slice |-> rcpt[c].slice, rev |-> rcpt[c].rev]
      BY <3>5, ReceiptMoves
    <3> QED
      BY <3>2, <3>3, <3>4, <3>6
  <2> QED
    BY <2>1, <2>2, <2>3
<1>3. ASSUME NEW a \in Appliers, Persist(a)
      PROVE  Gen[c] < slice'.gen \/ ~Open' \/ Recalled(c)'
  <2> DEFINE d == item[a].call
  <2>1. /\ d \in Calls /\ Due(d) /\ pc[a] = "persist" /\ pc'[a] = "commit" /\ lock = a /\ UNCHANGED <<rcpt, item>>
        /\ slice' = Updated(d) /\ slice'.gen = slice.gen /\ slice' \in Slices /\ rev' = rev + 1
        /\ \A b \in Calls : b # d => persisted'[b] = persisted[b]
    BY <1>3, PersistStep
  <2>2. CASE c = d
    <3>1. rcpt[c] = [committed |-> FALSE, slice |-> slice', rev |-> rev']
      BY <2>1, <2>2 DEF Types, WriteInv, Pending
    <3>2. rcpt'[c] \in Receipts
      BY <1>1, <2>1, <3>1 DEF Receipts
    <3>3. rcpt'[c] # None /\ rcpt'[c].slice = slice' /\ rcpt'[c].rev <= rev'
      <4>1. rcpt'[c] # None
        BY <3>2, QueueAssumption
      <4>2. rcpt'[c].slice = slice' /\ rcpt'[c].rev = rev'
        BY <2>1, <3>1
      <4>3. rev' <= rev'
        BY <1>1, <2>1
      <4> QED
        BY <4>1, <4>2, <4>3
    <3>4. At(a, "commit", c)'
      BY <2>1, <2>2 DEF At
    <3> QED
      BY <3>3, <3>4 DEF Recalled, Current
  <2>3. CASE c # d
    <3>1. Gen[c] < slice.gen \/ Recalled(c)
      BY <2>1, <2>3 DEF Once, DoneInv, Due
    <3>2. CASE Gen[c] < slice.gen
      BY <2>1, <3>2
    <3>3. CASE Recalled(c) /\ rcpt[c].committed
      BY <2>1, <3>3 DEF Recalled, Current
    <3>4. CASE Recalled(c) /\ ~rcpt[c].committed
      <4>1. rcpt[c] # None /\ rcpt[c].slice = slice /\ (Sole(c) \/ \E b \in Appliers : At(b, "commit", c))
        BY <3>4 DEF Recalled, Current
      <4>2. Sole(c)
        <5> SUFFICES ASSUME NEW b \in Appliers, At(b, "commit", c) PROVE FALSE
          BY <4>1
        <5>1. b # a /\ pc[b] \in Guarded
          BY <2>1 DEF At, Guarded, Locked
        <5> QED
          BY <2>1, <5>1, Alone
      <4>3. Act[c] # "complete"
        BY <2>1, <4>1 DEF Once, CompleteInv, Due, Open
      <4>4. Gen[d] = Gen[c]
        BY <2>1, <4>1 DEF Types, ReceiptInv, Due
      <4>5. Act[d] = "complete"
        BY <2>1, <2>3, <4>2, <4>3, <4>4 DEF Sole
      <4>6. slice'.status = "done"
        BY <2>1, <4>5, UpdateTypes
      <4> QED
        BY <4>6 DEF Open
    <3> QED
      BY <3>1, <3>2, <3>3, <3>4
  <2> QED
    BY <2>2, <2>3
<1>4. CASE Open /\ slice'.gen = slice.gen + 1 /\ persisted' = persisted
  BY <1>4, NewGeneration
<1> QED
  BY <1>2, <1>3, <1>4, NoteSteps

LEMMA PendingKept ==
    ASSUME Inv, Types, Once, [Next]_vars, Intact
    PROVE  PendingInv'
<1> SUFFICES ASSUME NEW c \in Calls, Current(c)', persisted'[c] = 0, Act[c] = "start" PROVE Unlike(c)'
  BY DEF PendingInv
<1>1. /\ slice \in Slices /\ rev \in Nat /\ slice.gen \in Nat /\ DOMAIN pc = Actors /\ Appliers \subseteq Actors
      /\ slice.by \in Calls \cup {None} /\ None \notin Calls
  BY QueueAssumption DEF Types, TypeOK, Slices, Inv, Shape, Actors, Appliers
<1>2. persisted[c] = 0
  BY PersistedGrows
<1>3. CASE UNCHANGED <<slice, rev, persisted>>
  <2>1. CASE rcpt'[c] = rcpt[c]
    <3>1. Current(c) /\ Unlike(c)
      BY <1>2, <1>3, <2>1 DEF Current, Once, PendingInv
    <3>2. SoleStart(c) \/ \E a \in Appliers : At(a, "persist", c)'
      <4> SUFFICES ASSUME NEW a \in Appliers, At(a, "persist", c) PROVE SoleStart(c) \/ At(a, "persist", c)'
        BY <3>1 DEF Unlike
      <4>1. ~Persist(a)
        BY <1>2, <1>3, PersistStep DEF At
      <4> QED
        BY <4>1, Leaves DEF At, Intact
    <3> QED
      BY <1>3, <2>1, <3>1, <3>2 DEF Unlike, SoleStart
  <2>2. CASE /\ rcpt'[c] = [committed |-> FALSE, slice |-> Updated(c), rev |-> rev + 1] /\ rev' = rev
             /\ \E a \in Appliers : At(a, "persist", c)'
    <3>1. rcpt'[c].slice.by = slice.by /\ rcpt'[c].rev = rev + 1
      BY <2>2, UpdateTypes
    <3> QED
      BY <1>1, <1>3, <2>2, <3>1 DEF Unlike, Once, ByInv
  <2>3. rcpt'[c] # None /\ ~(persisted[c] > 0)
    BY <1>2 DEF Current
  <2>4. \/ rcpt'[c] = rcpt[c]
        \/ /\ rcpt'[c] = [committed |-> FALSE, slice |-> Updated(c), rev |-> rev + 1] /\ rev' = rev
           /\ \E a \in Appliers : At(a, "persist", c)'
    BY <2>3, ReceiptMoves
  <2> QED
    BY <2>1, <2>2, <2>4
<1>4. ASSUME NEW a \in Appliers, Persist(a) PROVE Unlike(c)'
  <2> DEFINE d == item[a].call
  <2>1. /\ d \in Calls /\ Due(d) /\ pc[a] = "persist" /\ lock = a /\ UNCHANGED <<rcpt, item>>
        /\ slice' = Updated(d) /\ slice'.gen = slice.gen /\ rev' = rev + 1
        /\ persisted'[d] = persisted[d] + 1 /\ persisted[d] \in Nat
    BY <1>4, PersistStep, PersistedGrows
  <2>2. c # d /\ persisted[d] = 0
    BY <2>1 DEF Once, FreshInv
  <2>3. Current(c) /\ Unlike(c) /\ rcpt[c] \in Receipts
    BY <1>2, <2>1 DEF Current, Once, PendingInv, Types, TypeOK
  <2>4. SoleStart(c)
    <3> SUFFICES ASSUME NEW b \in Appliers, At(b, "persist", c) PROVE FALSE
      BY <2>3 DEF Unlike
    <3>1. b # a /\ pc[b] \in Guarded
      BY <2>2 DEF At, Guarded, Locked
    <3> QED
      BY <2>1, <3>1, Alone
  <2>5. Gen[d] = Gen[c]
    BY <2>1, <2>3 DEF Types, ReceiptInv, Due, Current
  <2>6. slice'.by = d
    BY <2>1, <2>2, <2>4, <2>5, UpdateTypes DEF SoleStart
  <2>7. rcpt[c].slice.by \in Calls => persisted[rcpt[c].slice.by] > 0
    BY <2>3 DEF Unlike
  <2>8. rcpt[c].slice.by # d
    BY <2>1, <2>2, <2>7
  <2>9. rcpt[c].slice.by \in Calls => persisted'[rcpt[c].slice.by] > 0
    BY <2>7, PersistedGrows
  <2> QED
    BY <2>1, <2>4, <2>6, <2>8, <2>9 DEF Unlike, SoleStart
<1>5. CASE Open /\ slice'.gen = slice.gen + 1 /\ persisted' = persisted
  BY <1>5, NewGeneration
<1> QED
  BY <1>3, <1>4, <1>5, NoteSteps

LEMMA AppliedKept ==
    ASSUME Inv, Types, Once, [Next]_vars
    PROVE  AppliedOnce'
<1>1. CASE persisted' = persisted
  BY <1>1 DEF Once, AppliedOnce
<1>2. ASSUME NEW a \in Appliers, Persist(a) PROVE AppliedOnce'
  BY <1>2, PersistStep DEF Once, FreshInv, AppliedOnce
<1> QED
  BY <1>1, <1>2, NoteSteps

LEMMA OnceKept ==
    ASSUME Inv, Types, Once, [Next]_vars, Intact
    PROVE  Once'
BY FreshKept, FinishKept, DoneKept, ByKept, CommittedKept, CompleteKept, PendingKept, AppliedKept DEF Once

\* A ticket that is not live does not come to life.
LEMMA DeadStays ==
    ASSUME Inv, Types, [Next]_vars, NEW t, t.gen \in Nat, t.gen <= slice.gen, ~Live(t)
    PROVE  ~Live(t)'
<1>1. slice.gen \in Nat
  BY QueueAssumption DEF Types, TypeOK, Slices
<1>2. CASE slice' = slice
  BY <1>2 DEF Live, Open
<1>3. ASSUME NEW a \in Appliers, Persist(a) PROVE ~Live(t)'
  BY <1>3, PersistStep DEF Live, Open, Due
<1>4. CASE slice'.gen = slice.gen + 1
  BY <1>1, <1>4 DEF Live
<1> QED
  BY <1>2, <1>3, <1>4, NoteSteps

LEMMA KeptKept ==
    ASSUME Inv, Types, Once, AcceptedIsKept, [Next]_vars
    PROVE  AcceptedIsKept'
<1> SUFFICES ASSUME NEW t \in accepted' PROVE t \in ToSet(queue') \/ persisted'[t.call] > 0 \/ ~Live(t)'
  BY DEF AcceptedIsKept
<1>1. t \in Tickets /\ t.call \in Calls /\ t.gen \in Nat
  BY AcceptedTypes, QueueAssumption DEF Tickets
<1>2. CASE t \in ToSet(queue) /\ t \notin ToSet(queue')
  <2>1. PICK d \in Drains : (Drop(d) /\ t = Picked) \/ (Drained(d) /\ t = item[d])
    BY <1>2, QueueTypes
  <2>2. CASE Drop(d) /\ t = Picked
    BY <2>2 DEF Drop, Live, Open
  <2>3. CASE Drained(d) /\ t = item[d]
    <3>1. persisted[t.call] > 0
      BY <2>3 DEF Drained, Once, FinishInv, Appliers
    <3> QED
      BY <1>1, <3>1, PersistedGrows
  <2> QED
    BY <2>1, <2>2, <2>3
<1>3. CASE t \in accepted /\ t \notin ToSet(queue)
  <2>1. t.gen <= slice.gen
    BY <1>3 DEF Types, AgeInv
  <2> QED
    BY <1>1, <1>3, <2>1, DeadStays, PersistedGrows DEF AcceptedIsKept
<1>4. CASE t \notin accepted /\ t \notin ToSet(queue)
  <2>1. PICK c \in Calls : Link(c) /\ ~Queued(c) /\ t = item[c]
    BY <1>4, AcceptedMoves, QueuedTicket
  <2>2. queue' = Append(queue, t)
    BY <2>1 DEF Link
  <2>3. queue \in Seq(Tickets) /\ Distinct(queue)
    BY DEF Types, TypeOK
  <2>4. item[c].call = c
    BY <2>1, CarriesOwn DEF Link
  <2> QED
    BY <1>1, <2>1, <2>2, <2>3, <2>4, Linked
<1> QED
  BY <1>2, <1>3, <1>4

LEMMA OnceInvariant == Spec /\ [][Intact]_vars => [](Once /\ AcceptedIsKept)
<1>1. Init => Once /\ AcceptedIsKept
  BY OnceInit DEF Init, AcceptedIsKept
<1>2. Inv /\ Types /\ Once /\ AcceptedIsKept /\ [Next]_vars /\ [Intact]_vars => (Once /\ AcceptedIsKept)'
  <2> SUFFICES ASSUME Inv, Types, Once, AcceptedIsKept, [Next]_vars, [Intact]_vars PROVE (Once /\ AcceptedIsKept)'
    OBVIOUS
  <2>1. Intact
    BY DEF Intact, vars
  <2> QED
    BY <2>1, OnceKept, KeptKept
<1>3. Spec => []Types
  BY TypesInit, TypesKept, QueueInvariant, PTL DEF Spec
<1> QED
  BY <1>1, <1>2, <1>3, QueueInvariant, PTL DEF Spec

\* However often a call is repeated, and whoever applies it and dies doing so, its
\* action is persisted once - as long as the receipt a failed write leaves pending
\* cannot be mistaken for that of another update.
THEOREM PersistedOnce == Spec /\ [][Intact]_vars => []AppliedOnce
BY OnceInvariant, PTL DEF Once

\* An accepted write is not lost (thread-write-queue.ts:8-15): until it has been
\* persisted its ticket stays in the queue, unless its generation has died - on
\* the same condition.
THEOREM AcceptedKept == Spec /\ [][Intact]_vars => []AcceptedIsKept
BY OnceInvariant, PTL

\* Both hold, with any failures and deaths, for a worker that starts a generation
\* under one key and then only completes it, as in the run.
COROLLARY StartThenComplete ==
    ASSUME \A c, d \in Calls : c # d /\ Gen[c] = Gen[d] => Act[c] = "complete" \/ Act[d] = "complete"
    PROVE  Spec => [](AppliedOnce /\ AcceptedIsKept)
<1>1. \A c \in Calls : Sole(c) /\ SoleStart(c)
  BY DEF Sole, SoleStart
<1>2. Inv /\ Types => [Intact]_vars
  <2> SUFFICES ASSUME Inv, Types PROVE Intact
    OBVIOUS
  <2>1. \A a \in Appliers : pc[a] \in {"persist", "commit"} => item[a].call \in Calls
    BY Carries DEF Carrying, Locked
  <2> QED
    BY <1>1, <2>1 DEF Intact
<1>3. Spec => []Types
  BY TypesInit, TypesKept, QueueInvariant, PTL DEF Spec
<1> QED
  BY <1>2, <1>3, QueueInvariant, OnceInvariant, PTL DEF Spec, Once

=============================================================================
