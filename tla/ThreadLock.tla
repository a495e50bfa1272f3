----------------------------- MODULE ThreadLock -----------------------------
(***************************************************************************)
(* The cross-process Thread mutation lock: withThreadLock and              *)
(* releaseOwnLock of plugins/minni/src/thread-lock.ts, for one plan.       *)
(*                                                                         *)
(* The lock is a directory; whoever mkdir's it writes owner.json into it.  *)
(* Every step below is one file-system call of the code with the checks    *)
(* that follow it up to the next await, because any two calls of any two   *)
(* processes may interleave there.  An actor is a sequence of calls of     *)
(* withThreadLock; several actors may live in one process.                 *)
(*                                                                         *)
(* Time is abstracted to two facts: whether the directory's mtime is older *)
(* than staleMs and whether the reap lock's is older than 5 s.  What may   *)
(* make a file age while somebody still works on it is named in Faults, so *)
(* that a run or a theorem says exactly which of these it tolerates:       *)
(*   SlowCreator  a live call stalls staleMs between mkdir and owner.json, *)
(*                or between the removals of owner.json and the directory  *)
(*   LongHold     a live holder keeps the lock longer than staleMs         *)
(*   SlowReaper   a live call stalls 5 s between reap lock and its removal *)
(*   ReaperCrash  a process dies while one of its calls has the reap lock  *)
(*   InodeReuse   a new directory may get the inode number of a removed one*)
(*   ReadFault    reading owner.json may fail although it is there         *)
(* Holders, creators and waiters may die at any time in every case.        *)
(***************************************************************************)
EXTENDS Naturals

CONSTANTS
    Actors,     \* callers of withThreadLock
    Pids,       \* process ids
    PidOf,      \* the process an actor runs in
    OpIds,      \* operation ids
    OpOf,       \* the operation id an actor passes
    Inodes,     \* (dev, ino) identities of lock directories
    Markers,    \* whether process start markers (/proc) can be read
    Faults,     \* which of AllFaults may happen
    MaxCalls,   \* bound: calls of withThreadLock, or None: they never cease
    MaxInc,     \* bound: incarnations of a pid
    None

AllFaults == {"SlowCreator", "LongHold", "SlowReaper", "ReaperCrash",
              "InodeReuse", "ReadFault"}

Owners == [op : OpIds, pid : Pids, inc : Nat]
Dirs   == [ino : Inodes, by : Actors, owner : Owners \cup {None}, aged : BOOLEAN]
Reaps  == [by : Actors, aged : BOOLEAN]

ASSUME LockAssumption ==
    /\ PidOf \in [Actors -> Pids]
    /\ OpOf \in [Actors -> OpIds]
    /\ Markers \in BOOLEAN
    /\ Faults \subseteq AllFaults
    /\ MaxCalls \in Nat \cup {None}
    /\ MaxInc \in Nat

ASSUME NoneAssumption ==
    /\ None \notin Actors
    /\ None \notin Inodes
    /\ None \notin Owners
    /\ None \notin Dirs
    /\ None \notin Reaps

VARIABLES
    lock,   \* the lock directory, or None; "by" (its creator) is auxiliary
    used,   \* inode numbers a mkdir cannot get
    reap,   \* the reap lock file, or None; "by" is auxiliary
    pc,     \* where each actor's call stands
    after,  \* where the shared removal steps of an actor continue
    seen,   \* beforeLockStat and observedOwner of the loop's iteration
    mine,   \* acquiredIdentity
    alive,  \* which processes run
    inc,    \* the incarnation (start marker) of each process
    calls   \* calls so far, counted for the bound MaxCalls only

vars == <<lock, used, reap, pc, after, seen, mine, alive, inc, calls>>

Seen   == [ino : Inodes \cup {None}, aged : BOOLEAN, owner : Owners \cup {None}]
Unseen == [ino |-> None, aged |-> FALSE, owner |-> None]

\* Where a call makes or removes its directory, holds it with its owner.json
\* in it, and has the reap lock.
Changing  == {"write", "unlink", "rmdir"}
Holding   == {"ident", "cs", "relRead", "relStat"}
Reaping   == {"recheck", "reread", "rename", "unreap"}
Steps     == {"idle", "mkdir", "stat", "observe", "wait", "reapLock", "reapAge",
              "dropReap"} \cup Changing \cup Holding \cup Reaping

Init ==
    /\ lock = None
    /\ used = {}
    /\ reap = None
    /\ pc = [a \in Actors |-> "idle"]
    /\ after = [a \in Actors |-> "idle"]
    /\ seen = [a \in Actors |-> Unseen]
    /\ mine = [a \in Actors |-> None]
    /\ alive = [p \in Pids |-> TRUE]
    /\ inc = [p \in Pids |-> 0]
    /\ calls = 0

-----------------------------------------------------------------------------
Goto(a, step)       == pc' = [pc EXCEPT ![a] = step]
ThenGoto(a, s, k)   == Goto(a, s) /\ after' = [after EXCEPT ![a] = k]
Return(a)           == Goto(a, "idle") /\ mine' = [mine EXCEPT ![a] = None]
Saw(a, s)           == seen' = [seen EXCEPT ![a] = s]
System              == <<alive, inc, calls>>

Self(a) == [op |-> OpOf[a], pid |-> PidOf[a], inc |-> inc[PidOf[a]]]

\* A live pid under another start marker is not the owner; without markers
\* a live pid is.
OwnerLooksLive(o) == alive[o.pid] /\ (Markers => o.inc = inc[o.pid])

\* The owner.json at the lock path, if any.
RecordedOwner == IF lock = None THEN None ELSE lock.owner

\* What a read of it gives: the acquire path takes every failure
\* for "no observable owner"; missing and unparseable are told apart only
\* for the audit.
OwnerReads ==
    {RecordedOwner} \cup (IF "ReadFault" \in Faults THEN {None} ELSE {})

\* The inode numbers that stay taken when directory i is gone.
UsedWithout(i) == IF "InodeReuse" \in Faults THEN used \ {i} ELSE used

-----------------------------------------------------------------------------
(* Acquire *)

Start(a) ==
    /\ pc[a] = "idle"
    /\ alive[PidOf[a]]
    /\ MaxCalls # None => calls < MaxCalls
    /\ calls' = IF MaxCalls = None THEN calls ELSE calls + 1
    /\ Goto(a, "mkdir")
    /\ UNCHANGED <<lock, used, reap, after, seen, mine, alive, inc>>

\* Mutant: a recursive mkdir, which succeeds on an existing directory.
MkdirRecursive(a) ==
    /\ pc[a] = "mkdir"
    /\ Goto(a, "write")
    /\ IF lock # None THEN UNCHANGED <<lock, used>>
       ELSE \E i \in Inodes \ used :
              /\ lock' = [ino |-> i, by |-> a, owner |-> None, aged |-> FALSE]
              /\ used' = used \cup {i}
    /\ UNCHANGED <<reap, after, seen, mine, System>>

\* EEXIST goes on to the stat; any other error, here of a full file system,
\* is rethrown.
Mkdir(a) ==
    /\ pc[a] = "mkdir"
    /\ \/ /\ lock = None
          /\ \E i \in Inodes \ used :
                /\ lock' = [ino |-> i, by |-> a, owner |-> None, aged |-> FALSE]
                /\ used' = used \cup {i}
          /\ Goto(a, "write")
       \/ /\ lock # None
          /\ Goto(a, "stat")
          /\ UNCHANGED <<lock, used>>
       \/ /\ lock = None /\ Inodes \subseteq used
          /\ Goto(a, "idle")
          /\ UNCHANGED <<lock, used>>
    /\ UNCHANGED <<reap, after, seen, mine, System>>

WriteOwner(a) ==
    /\ pc[a] = "write"
    /\ lock # None
    /\ lock.owner = None
    /\ lock' = [lock EXCEPT !.owner = Self(a), !.aged = FALSE]
    /\ Goto(a, "ident")
    /\ UNCHANGED <<used, reap, after, seen, mine, System>>

\* EEXIST on owner.json is swallowed by the mkdir's own EEXIST test, so the
\* loop goes on; the directory is removed by path in either case.
WriteOwnerFails(a) ==
    /\ pc[a] = "write"
    /\ ThenGoto(a, "unlink", IF RecordedOwner # None THEN "stat" ELSE "idle")
    /\ UNCHANGED <<lock, used, reap, seen, mine, System>>

Stat(a) ==
    /\ pc[a] = "stat"
    /\ \/ lock = None /\ Goto(a, "mkdir") /\ UNCHANGED seen
       \/ /\ lock # None
          /\ Saw(a, [ino |-> lock.ino, aged |-> lock.aged, owner |-> None])
          /\ Goto(a, "observe")
    /\ UNCHANGED <<lock, used, reap, after, mine, System>>

\* Mutant: a dead owner too is left alone until its lock is old.
ObserveByAge(a) ==
    /\ pc[a] = "observe"
    /\ \E o \in OwnerReads :
          LET stale == seen[a].aged /\ (o # None => ~OwnerLooksLive(o))
          IN  /\ Goto(a, IF stale THEN "reapLock" ELSE "wait")
              /\ Saw(a, IF stale THEN [seen[a] EXCEPT !.owner = o] ELSE Unseen)
    /\ UNCHANGED <<lock, used, reap, after, mine, System>>

Observe(a) ==
    /\ pc[a] = "observe"
    /\ \E o \in OwnerReads :
          LET stale == IF o # None THEN ~OwnerLooksLive(o) ELSE seen[a].aged
          IN  /\ Goto(a, IF stale THEN "reapLock" ELSE "wait")
              /\ Saw(a, IF stale THEN [seen[a] EXCEPT !.owner = o] ELSE Unseen)
    /\ UNCHANGED <<lock, used, reap, after, mine, System>>

\* sleep and try again.
Poll(a) ==
    /\ pc[a] = "wait"
    /\ Goto(a, "mkdir")
    /\ UNCHANGED <<lock, used, reap, after, seen, mine, System>>

\* Mutant: the deadline is only looked at when nobody has the lock.
BusyIfFree(a) ==
    /\ pc[a] = "wait"
    /\ lock = None
    /\ Goto(a, "idle")
    /\ UNCHANGED <<lock, used, reap, after, seen, mine, System>>

\* The deadline has passed: ThreadBusyError.
Busy(a) ==
    /\ pc[a] = "wait"
    /\ Goto(a, "idle")
    /\ UNCHANGED <<lock, used, reap, after, seen, mine, System>>

-----------------------------------------------------------------------------
(* Stale recovery *)

\* Mutant: the reap lock is written without the exclusive flag.
TakeReapLockShared(a) ==
    /\ pc[a] = "reapLock"
    /\ reap' = [by |-> a, aged |-> FALSE]
    /\ Goto(a, "recheck")
    /\ UNCHANGED <<lock, used, after, seen, mine, System>>

TakeReapLock(a) ==
    /\ pc[a] = "reapLock"
    /\ \/ /\ reap = None
          /\ reap' = [by |-> a, aged |-> FALSE]
          /\ Goto(a, "recheck")
       \/ reap # None /\ Goto(a, "reapAge") /\ UNCHANGED reap
    /\ UNCHANGED <<lock, used, after, seen, mine, System>>

StatReapLock(a) ==
    /\ pc[a] = "reapAge"
    /\ Goto(a, IF reap # None /\ reap.aged THEN "dropReap" ELSE "wait")
    /\ Saw(a, Unseen)
    /\ UNCHANGED <<lock, used, reap, after, mine, System>>

DropReapLock(a) ==
    /\ pc[a] = "dropReap"
    /\ reap' = None
    /\ Goto(a, "wait")
    /\ UNCHANGED <<lock, used, after, seen, mine, System>>

\* Mutant: the directory is not compared with the one observed.
RecheckExistsOnly(a) ==
    /\ pc[a] = "recheck"
    /\ IF lock # None
       THEN /\ Goto(a, IF seen[a].owner = None THEN "rename" ELSE "reread")
            /\ UNCHANGED after
       ELSE ThenGoto(a, "unreap", "wait")
    /\ UNCHANGED <<lock, used, reap, seen, mine, System>>

Recheck(a) ==
    /\ pc[a] = "recheck"
    /\ IF lock # None /\ lock.ino = seen[a].ino
       THEN /\ Goto(a, IF seen[a].owner = None THEN "rename" ELSE "reread")
            /\ UNCHANGED after
       ELSE ThenGoto(a, "unreap", "wait")
    /\ UNCHANGED <<lock, used, reap, seen, mine, System>>

SameOwner(o, p) == o # None /\ o.op = p.op /\ o.pid = p.pid

RecheckOwner(a) ==
    /\ pc[a] = "reread"
    /\ \E o \in OwnerReads :
          IF SameOwner(o, seen[a].owner)
          THEN Goto(a, "rename") /\ UNCHANGED after
          ELSE ThenGoto(a, "unreap", "wait")
    /\ UNCHANGED <<lock, used, reap, seen, mine, System>>

\* rename is by path: it takes whatever directory is there now.
Rename(a) ==
    /\ pc[a] = "rename"
    /\ lock' = None
    /\ Saw(a, [Unseen EXCEPT !.ino = IF lock = None THEN None ELSE lock.ino])
    /\ ThenGoto(a, "unreap", "mkdir")
    /\ UNCHANGED <<used, reap, mine, System>>

\* The reap lock is removed, then the quarantined directory if there is one.
\* The audit line appended after that is best-effort and not modelled.
DropOwnReapLock(a) ==
    /\ pc[a] = "unreap"
    /\ reap' = None
    /\ used' = IF after[a] = "mkdir" THEN UsedWithout(seen[a].ino) ELSE used
    /\ Saw(a, Unseen)
    /\ ThenGoto(a, after[a], "idle")
    /\ UNCHANGED <<lock, mine, System>>

-----------------------------------------------------------------------------
(* Holding and release *)

\* Mutant: the directory is identified by the operation.
IdentifyByOperation(a) ==
    /\ pc[a] = "ident"
    /\ mine' = [mine EXCEPT ![a] = IF lock = None THEN None ELSE OpOf[a]]
    /\ Goto(a, "cs")
    /\ UNCHANGED <<lock, used, reap, after, seen, System>>

Identify(a) ==
    /\ pc[a] = "ident"
    /\ mine' = [mine EXCEPT ![a] = IF lock = None THEN None ELSE lock.ino]
    /\ Goto(a, "cs")
    /\ UNCHANGED <<lock, used, reap, after, seen, System>>

\* fn has returned or thrown; the lock is released in both cases.
Leave(a) ==
    /\ pc[a] = "cs"
    /\ Goto(a, "relRead")
    /\ UNCHANGED <<lock, used, reap, after, seen, mine, System>>

ReleaseRead(a) ==
    /\ pc[a] = "relRead"
    /\ IF RecordedOwner # None /\ RecordedOwner.op = OpOf[a]
       THEN /\ ThenGoto(a, IF mine[a] = None THEN "unlink" ELSE "relStat", "idle")
            /\ UNCHANGED mine
       ELSE Return(a) /\ UNCHANGED after
    /\ UNCHANGED <<lock, used, reap, seen, System>>

\* RELEASE_OWNER_READ_ATTEMPTS reads have failed: the error is surfaced and
\* the directory stays.
ReleaseReadFails(a) ==
    /\ pc[a] = "relRead"
    /\ "ReadFault" \in Faults
    /\ Return(a)
    /\ UNCHANGED <<lock, used, reap, after, seen, System>>

ReleaseStat(a) ==
    /\ pc[a] = "relStat"
    /\ IF lock # None /\ lock.ino = mine[a]
       THEN Goto(a, "unlink") /\ UNCHANGED mine
       ELSE Return(a)
    /\ UNCHANGED <<lock, used, reap, after, seen, System>>

\* rm -r of the lock path: owner.json first, then the directory if empty.
Unlink(a) ==
    /\ pc[a] = "unlink"
    /\ lock' = IF RecordedOwner = None THEN lock
               ELSE [lock EXCEPT !.owner = None, !.aged = FALSE]
    /\ Goto(a, "rmdir")
    /\ UNCHANGED <<used, reap, after, seen, mine, System>>

Rmdir(a) ==
    /\ pc[a] = "rmdir"
    /\ IF lock # None /\ lock.owner = None
       THEN lock' = None /\ used' = UsedWithout(lock.ino)
       ELSE UNCHANGED <<lock, used>>
    /\ ThenGoto(a, after[a], "idle")
    /\ mine' = [mine EXCEPT ![a] = None]
    /\ UNCHANGED <<reap, seen, System>>

-----------------------------------------------------------------------------
(* Processes and time *)

Crash(p) ==
    /\ alive[p]
    /\ "ReaperCrash" \in Faults \/ \A a \in Actors : PidOf[a] = p => pc[a] \notin Reaping
    /\ inc[p] < MaxInc
    /\ alive' = [alive EXCEPT ![p] = FALSE]
    /\ pc' = [a \in Actors |-> IF PidOf[a] = p THEN "idle" ELSE pc[a]]
    /\ seen' = [a \in Actors |-> IF PidOf[a] = p THEN Unseen ELSE seen[a]]
    /\ mine' = [a \in Actors |-> IF PidOf[a] = p THEN None ELSE mine[a]]
    /\ after' = [a \in Actors |-> IF PidOf[a] = p THEN "idle" ELSE after[a]]
    /\ UNCHANGED <<lock, used, reap, inc, calls>>

\* A new process under the same pid has another start marker.
Restart(p) ==
    /\ ~alive[p]
    /\ alive' = [alive EXCEPT ![p] = TRUE]
    /\ inc' = [inc EXCEPT ![p] = @ + 1]
    /\ UNCHANGED <<lock, used, reap, pc, after, seen, mine, calls>>

AgeLock ==
    /\ lock # None
    /\ ~lock.aged
    /\ "SlowCreator" \in Faults \/ pc[lock.by] \notin Changing
    /\ "LongHold" \in Faults \/ pc[lock.by] \notin Holding
    /\ lock' = [lock EXCEPT !.aged = TRUE]
    /\ UNCHANGED <<used, reap, pc, after, seen, mine, System>>

AgeReapLock ==
    /\ reap # None
    /\ ~reap.aged
    /\ "SlowReaper" \in Faults \/ pc[reap.by] \notin Reaping
    /\ reap' = [reap EXCEPT !.aged = TRUE]
    /\ UNCHANGED <<lock, used, pc, after, seen, mine, System>>

\* All MaxCalls calls have returned.
Finished ==
    /\ calls = MaxCalls
    /\ \A a \in Actors : pc[a] = "idle"
    /\ UNCHANGED vars

Step(a) ==
    \/ Mkdir(a) \/ WriteOwner(a) \/ WriteOwnerFails(a) \/ Stat(a) \/ Observe(a)
    \/ Poll(a) \/ Busy(a)
    \/ TakeReapLock(a) \/ StatReapLock(a) \/ DropReapLock(a)
    \/ Recheck(a) \/ RecheckOwner(a) \/ Rename(a) \/ DropOwnReapLock(a)
    \/ Identify(a) \/ Leave(a) \/ ReleaseRead(a) \/ ReleaseReadFails(a)
    \/ ReleaseStat(a) \/ Unlink(a) \/ Rmdir(a)

Next ==
    \/ \E a \in Actors : Start(a) \/ Step(a)
    \/ \E p \in Pids : Crash(p) \/ Restart(p)
    \/ AgeLock \/ AgeReapLock
    \/ Finished

Spec == Init /\ [][Next]_vars

\* A running process goes on with its calls, and a caller that keeps being
\* turned away passes its deadline (a wall-clock time fixed at the start of
\* the call).  Crashes, restarts and new calls are never forced.
Fairness ==
    \A a \in Actors : WF_vars(Step(a)) /\ SF_vars(Busy(a))

FairSpec == Spec /\ Fairness

-----------------------------------------------------------------------------
(* Properties *)

\* The directory, the reap lock and what each call remembers of them are well
\* formed: a remembered identity is an inode, a recorded owner an owner record.
TypeOK ==
    /\ lock \in Dirs \cup {None}
    /\ used \subseteq Inodes
    /\ reap \in Reaps \cup {None}
    /\ pc \in [Actors -> Steps]
    /\ after \in [Actors -> {"idle", "stat", "wait", "mkdir"}]
    /\ seen \in [Actors -> Seen]
    /\ mine \in [Actors -> Inodes \cup {None}]
    /\ alive \in [Pids -> BOOLEAN]
    /\ inc \in [Pids -> Nat]
    /\ calls \in Nat

\* Two calls never run their fn at once: neither the acquire loop nor the
\* recovery of a stale lock (thread-lock.ts:383-459) lets a second one in.
MutualExclusion ==
    \A a, b \in Actors : pc[a] = "cs" /\ pc[b] = "cs" => a = b

\* "Do not steal a live owner" (thread-lock.ts:15): while a call runs its fn
\* the directory it made, with its owner.json, is still in place, so that
\* nobody has quarantined or removed it and its own release will find it.
HolderKeepsItsLock ==
    \A a \in Actors : pc[a] = "cs" =>
        lock # None /\ lock.by = a /\ lock.owner = Self(a) /\ lock.ino = mine[a]

\* The reap lock serialises recovery: at most one call stands between its
\* exclusive create and its removal, so the check of the stale directory and
\* its rename are not interleaved with another recovery.
OneReaper ==
    \A a, b \in Actors : pc[a] \in Reaping /\ pc[b] \in Reaping => a = b

\* A removal by path only ever takes the caller's own directory: neither
\* release nor the cleanup after a failed owner write deletes a lock made by
\* another call (thread-lock.ts:203-209).
RemovesOnlyItsOwn ==
    [][\A a \in Actors :
          pc[a] \in {"unlink", "rmdir"} /\ pc'[a] # pc[a] /\ lock' # lock
              => lock.by = a]_vars

\* The directory protocol implements the plan lock that the callers of
\* withThreadLock rely on: the call that runs its fn holds it, nobody gets it
\* before that call has left its fn or died, and it is never passed on
\* directly.
Holder == IF \E a \in Actors : pc[a] = "cs" THEN CHOOSE a \in Actors : pc[a] = "cs"
          ELSE None
Lock   == INSTANCE PlanLock WITH Callers <- Actors, holder <- Holder

ImplementsPlanLock == Lock!Spec

\* Every call of withThreadLock returns, whatever the others do and whichever
\* of them die: it runs its fn, or it reports ThreadBusyError or a failure.
\* What can keep it is one thing, other calls that make the lock anew without
\* end: the loop goes on at 352 and 458 without looking at its deadline.
OvertakenForEver(a) ==
    []<><<\E b \in Actors \ {a} : pc[b] = "mkdir" /\ pc'[b] = "write">>_vars

EveryCallReturns ==
    \A a \in Actors : (pc[a] # "idle" ~> pc[a] = "idle") \/ OvertakenForEver(a)

\* A recorded owner that is dead is recovered by the calls at hand, without
\* waiting out staleMs: a call that begins its attempt while such a lock
\* stands sees it gone, unless the caller dies too.
DeadOwnerIsRecovered ==
    \A a \in Actors : \A i \in Inodes :
        (/\ pc[a] = "mkdir"
         /\ lock # None /\ lock.ino = i
         /\ lock.owner # None /\ ~OwnerLooksLive(lock.owner))
            ~> (lock = None \/ lock.ino # i \/ ~alive[PidOf[a]])
=============================================================================
