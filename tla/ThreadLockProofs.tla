-------------------------- MODULE ThreadLockProofs --------------------------
(***************************************************************************)
(* Proofs about ThreadLock, for any number of actors, processes and inodes *)
(* and any bounds.  Type correctness needs no assumption on Faults; mutual *)
(* exclusion needs the five faults of Timely to be absent, and holds with  *)
(* ReadFault and with processes dying outside of a recovery.               *)
(***************************************************************************)
EXTENDS ThreadLock, TLAPS

-----------------------------------------------------------------------------
(* Type correctness *)

LEMMA InitTypeOK == Init => TypeOK
BY LockAssumption, NoneAssumption
DEF Init, TypeOK, Steps, Seen, Unseen

\* Every owner record a call writes is one.
LEMMA SelfIsOwner == \A a \in Actors : TypeOK => Self(a) \in Owners
BY LockAssumption DEF TypeOK, Self, Owners

LEMMA StepTypeOK ==
    ASSUME TypeOK, NEW a \in Actors, Start(a) \/ Step(a)
    PROVE  TypeOK'
<1> USE LockAssumption, NoneAssumption DEF TypeOK, Goto, ThenGoto, Saw, Return, System
<1> USE DEF Steps, Holding, Changing, Reaping
<1>1. CASE Start(a)
  BY <1>1 DEF Start
<1>2. CASE Mkdir(a)
  <2>1. CASE lock = None /\ Goto(a, "write")
    <3>1. PICK i \in Inodes \ used :
            /\ lock' = [ino |-> i, by |-> a, owner |-> None, aged |-> FALSE]
            /\ used' = used \cup {i}
      BY <1>2, <2>1 DEF Mkdir, Goto
    <3>2. lock' \in Dirs
      BY <3>1 DEF Dirs
    <3> QED
      BY <1>2, <2>1, <3>1, <3>2 DEF Mkdir
  <2>2. CASE UNCHANGED <<lock, used>>
    BY <1>2, <2>2 DEF Mkdir
  <2> QED
    BY <1>2, <2>1, <2>2 DEF Mkdir
<1>3. CASE WriteOwner(a)
  BY <1>3, SelfIsOwner DEF WriteOwner, Dirs
<1>4. CASE WriteOwnerFails(a)
  BY <1>4 DEF WriteOwnerFails
<1>5. CASE Stat(a)
  <2>1. CASE lock = None
    BY <1>5, <2>1 DEF Stat
  <2>2. CASE lock # None
    <3>1. lock.ino \in Inodes /\ lock.aged \in BOOLEAN
      BY <2>2 DEF Dirs
    <3>2. [ino |-> lock.ino, aged |-> lock.aged, owner |-> None] \in Seen
      BY <3>1 DEF Seen
    <3> QED
      BY <1>5, <2>2, <3>2 DEF Stat
  <2> QED
    BY <2>1, <2>2
<1>6. CASE Observe(a)
  <2>1. OwnerReads \subseteq Owners \cup {None}
    BY DEF OwnerReads, RecordedOwner, Dirs
  <2>2. PICK s \in Seen, step \in {"reapLock", "wait"} : Saw(a, s) /\ Goto(a, step)
    <3>1. Unseen \in Seen
      BY DEF Seen, Unseen
    <3>2. \A o \in OwnerReads : [seen[a] EXCEPT !.owner = o] \in Seen
      BY <2>1 DEF Seen
    <3> QED
      BY <1>6, <3>1, <3>2 DEF Observe
  <2>3. UNCHANGED <<lock, used, reap, after, mine, System>>
    BY <1>6 DEF Observe
  <2> QED
    BY <2>2, <2>3
<1>7. CASE Poll(a) \/ Busy(a)
  BY <1>7 DEF Poll, Busy
<1>8. CASE TakeReapLock(a)
  <2>1. [by |-> a, aged |-> FALSE] \in Reaps
    BY DEF Reaps
  <2> QED
    BY <1>8, <2>1 DEF TakeReapLock
<1>9. CASE StatReapLock(a) \/ DropReapLock(a)
  <2>1. Unseen \in Seen
    BY DEF Seen, Unseen
  <2> QED
    BY <1>9, <2>1 DEF StatReapLock, DropReapLock
<1>10. CASE Recheck(a)
  BY <1>10 DEF Recheck
<1>11. CASE RecheckOwner(a)
  BY <1>11 DEF RecheckOwner
<1>12. CASE Rename(a)
  BY <1>12 DEF Rename, Seen, Unseen, Dirs
<1>13. CASE DropOwnReapLock(a)
  BY <1>13 DEF DropOwnReapLock, Seen, Unseen, UsedWithout
<1>14. CASE Identify(a)
  BY <1>14 DEF Identify, Dirs
<1>15. CASE Leave(a)
  BY <1>15 DEF Leave
<1>16. CASE ReleaseRead(a) \/ ReleaseReadFails(a) \/ ReleaseStat(a)
  BY <1>16 DEF ReleaseRead, ReleaseReadFails, ReleaseStat
<1>17. CASE Unlink(a)
  BY <1>17 DEF Unlink, RecordedOwner, Dirs
<1>18. CASE Rmdir(a)
  BY <1>18 DEF Rmdir, UsedWithout, Dirs
<1> QED
  BY <1>1, <1>2, <1>3, <1>4, <1>5, <1>6, <1>7, <1>8, <1>9, <1>10, <1>11,
     <1>12, <1>13, <1>14, <1>15, <1>16, <1>17, <1>18 DEF Step

LEMMA NextTypeOK == TypeOK /\ [Next]_vars => TypeOK'
<1> SUFFICES ASSUME TypeOK, [Next]_vars PROVE TypeOK'
  OBVIOUS
<1>1. CASE \E a \in Actors : Start(a) \/ Step(a)
  BY <1>1, StepTypeOK
<1>2. ASSUME NEW p \in Pids, Crash(p) PROVE TypeOK'
  BY <1>2, LockAssumption DEF TypeOK, Crash, Steps, Seen, Unseen
<1>3. ASSUME NEW p \in Pids, Restart(p) PROVE TypeOK'
  BY <1>3, LockAssumption DEF TypeOK, Restart
<1>4. CASE AgeLock
  BY <1>4, NoneAssumption DEF TypeOK, AgeLock, System, Dirs
<1>5. CASE AgeReapLock
  BY <1>5, NoneAssumption DEF TypeOK, AgeReapLock, System, Reaps
<1>6. CASE UNCHANGED vars
  BY <1>6 DEF TypeOK, vars
<1> QED
  BY <1>1, <1>2, <1>3, <1>4, <1>5, <1>6 DEF Next, Finished

\* Every variable keeps its type, whatever faults happen.
THEOREM TypeCorrect == Spec => []TypeOK
BY InitTypeOK, NextTypeOK, PTL DEF Spec

-----------------------------------------------------------------------------
(* Mutual exclusion *)

\* No call is overtaken by a time limit while it changes, holds or recovers
\* the lock, no process dies during a recovery, and inode numbers are fresh.
Timely ==
    Faults \cap {"SlowCreator", "LongHold", "SlowReaper", "ReaperCrash", "InodeReuse"} = {}

Claiming == Changing \cup Holding

\* A call that has made the directory and not removed it has it, young, with
\* the owner.json its step implies.
Claims(a) ==
    /\ lock # None /\ lock.by = a /\ ~lock.aged
    /\ pc[a] \in {"write", "rmdir"} => lock.owner = None
    /\ pc[a] \in Holding => lock.owner = Self(a)
    /\ pc[a] = "unlink" => lock.owner \in {None, Self(a)}
    /\ pc[a] \in {"cs", "relRead", "relStat"} => mine[a] = lock.ino

ClaimInv == \A a \in Actors : pc[a] \in Claiming => Claims(a)

RunningInv == \A a \in Actors : pc[a] # "idle" => alive[PidOf[a]]

\* Every identity anybody remembers is one no mkdir can get again.
UsedInv ==
    /\ lock # None => lock.ino \in used
    /\ \A a \in Actors : seen[a].ino \in used \cup {None}

\* Nobody works on the directory with inode i any more.
Abandoned(i) == lock # None /\ lock.ino = i => pc[lock.by] \notin Claiming

\* What a call judged stale stays abandoned, and from its recheck on is what
\* the lock path names.
Judged == {"reapLock", "recheck", "reread", "rename"}
Judges(a) ==
    /\ pc[a] \in {"observe"} \cup Judged => seen[a].ino # None
    /\ pc[a] = "observe" /\ seen[a].aged => Abandoned(seen[a].ino)
    /\ pc[a] \in Judged => Abandoned(seen[a].ino)
    /\ pc[a] \in {"reread", "rename"} => lock # None /\ lock.ino = seen[a].ino

StaleInv == \A a \in Actors : Judges(a)

ReapInv ==
    /\ \A a \in Actors : pc[a] \in Reaping => reap # None /\ reap.by = a
    /\ \A a \in Actors : pc[a] # "dropReap"
    /\ reap # None => ~reap.aged /\ pc[reap.by] \in Reaping

IInv == TypeOK /\ ClaimInv /\ RunningInv /\ UsedInv /\ StaleInv /\ ReapInv

LEMMA InitIInv == Init => IInv
BY InitTypeOK, LockAssumption
DEF Init, IInv, ClaimInv, RunningInv, UsedInv, StaleInv, Judges, ReapInv, Claiming,
    Changing, Holding, Reaping, Judged, Unseen, Abandoned

\* The directory has one creator, so two calls cannot both claim it.
LEMMA OneClaimer ==
    ClaimInv => \A a, b \in Actors :
                   pc[a] \in Claiming /\ pc[b] \in Claiming => a = b
BY DEF ClaimInv, Claims

LEMMA ClaimStep ==
    ASSUME Timely, IInv, NEW a \in Actors, Start(a) \/ Step(a)
    PROVE  ClaimInv'
<1> USE LockAssumption DEF IInv, TypeOK, Goto, ThenGoto, Saw, Return, System
<1> SUFFICES ASSUME NEW b \in Actors, pc'[b] \in Claiming PROVE Claims(b)'
  BY DEF ClaimInv
<1> USE DEF Claiming, Changing, Holding
<1>0. pc[b] \in Claiming => Claims(b)
  BY DEF ClaimInv
<1>1. CASE Mkdir(a)
  <2>1. CASE lock = None /\ Goto(a, "write")
    <3>1. PICK i \in Inodes \ used :
            lock' = [ino |-> i, by |-> a, owner |-> None, aged |-> FALSE]
      BY <1>1, <2>1 DEF Mkdir, Goto
    <3>2. b = a /\ pc'[a] = "write"
      BY <1>0, <1>1, <2>1 DEF Mkdir, Claims
    <3>3. lock' \in Dirs
      BY <3>1 DEF Dirs
    <3> QED
      BY <3>1, <3>2, <3>3, NoneAssumption DEF Claims
  <2>2. CASE UNCHANGED <<lock, used>> /\ pc'[a] # "write"
    BY <1>0, <1>1, <2>2 DEF Mkdir, Claims, Self
  <2> QED
    BY <1>1, <2>1, <2>2 DEF Mkdir, Goto
<1>2. CASE WriteOwner(a)
  <2>1. b = a
    BY <1>2, OneClaimer DEF WriteOwner
  <2>2. pc'[a] = "ident" /\ lock.by = a /\ lock \in Dirs
    BY <1>0, <1>2, <2>1 DEF WriteOwner, Claims
  <2>3. lock' = [lock EXCEPT !.owner = Self(a), !.aged = FALSE]
    BY <1>2 DEF WriteOwner
  <2>4. lock'.by = a /\ lock'.owner = Self(a) /\ ~lock'.aged /\ lock' \in Dirs
    BY <2>2, <2>3, SelfIsOwner DEF Dirs
  <2>5. Self(a)' = Self(a)
    BY <1>2 DEF WriteOwner, Self
  <2> QED
    BY <2>1, <2>2, <2>4, <2>5, NoneAssumption DEF Claims
<1>3. CASE Rename(a)
  <2>1. lock # None /\ pc[lock.by] \notin Claiming
    BY <1>3 DEF Rename, StaleInv, Judges, Abandoned, Judged
  <2>2. pc[b] \notin Claiming
    BY <1>0, <2>1 DEF Claims
  <2> QED
    BY <1>3, <2>2 DEF Rename
<1>4. CASE Unlink(a)
  <2>1. b = a
    BY <1>4, OneClaimer DEF Unlink
  <2>2. pc'[a] = "rmdir" /\ lock \in Dirs /\ lock # None /\ lock.by = a /\ ~lock.aged
    BY <1>0, <1>4, <2>1 DEF Unlink, Claims
  <2>3. lock' \in Dirs /\ lock'.by = a /\ ~lock'.aged /\ lock'.owner = None
    BY <1>4, <2>2 DEF Unlink, RecordedOwner, Dirs
  <2> QED
    BY <2>1, <2>2, <2>3, NoneAssumption DEF Claims
<1>5. CASE Rmdir(a)
  <2>1. pc[b] \notin Claiming \/ b = a
    BY <1>5, OneClaimer DEF Rmdir
  <2>2. pc'[a] \notin Claiming
    BY <1>5 DEF Rmdir
  <2> QED
    BY <1>5, <2>1, <2>2 DEF Rmdir
<1>6. CASE \/ Start(a) \/ WriteOwnerFails(a) \/ Identify(a) \/ Leave(a)
           \/ ReleaseRead(a) \/ ReleaseReadFails(a) \/ ReleaseStat(a)
  BY <1>0, <1>6 DEF Start, WriteOwnerFails, Identify, Leave, ReleaseRead,
     ReleaseReadFails, ReleaseStat, RecordedOwner, Claims, Self
<1>7. CASE \/ Stat(a) \/ Observe(a) \/ Poll(a) \/ Busy(a) \/ TakeReapLock(a)
           \/ StatReapLock(a) \/ DropReapLock(a) \/ Recheck(a)
           \/ RecheckOwner(a) \/ DropOwnReapLock(a)
  <2>1. /\ UNCHANGED <<lock, mine, alive, inc>>
        /\ pc' = [pc EXCEPT ![a] = pc'[a]]
        /\ pc'[a] \notin Claiming
    BY <1>7 DEF Stat, Observe, Poll, Busy, TakeReapLock, StatReapLock,
       DropReapLock, Recheck, RecheckOwner, DropOwnReapLock
  <2> QED
    BY <1>0, <2>1 DEF Claims, Self
<1> QED
  BY <1>1, <1>2, <1>3, <1>4, <1>5, <1>6, <1>7 DEF Step

LEMMA RunningStep ==
    ASSUME IInv, NEW a \in Actors, Start(a) \/ Step(a)
    PROVE  RunningInv'
<1>1. alive' = alive /\ alive[PidOf[a]] /\ \E s : Goto(a, s)
  BY DEF IInv, RunningInv, Step, System, Return, ThenGoto, Start, Mkdir,
     WriteOwner, WriteOwnerFails, Stat, Observe, Poll, Busy,
     TakeReapLock, StatReapLock, DropReapLock, Recheck, RecheckOwner, Rename,
     DropOwnReapLock, Identify, Leave, ReleaseRead, ReleaseReadFails,
     ReleaseStat, Unlink, Rmdir
<1> QED
  BY <1>1 DEF IInv, TypeOK, RunningInv, Goto

LEMMA UsedStep ==
    ASSUME Timely, IInv, NEW a \in Actors, Start(a) \/ Step(a)
    PROVE  UsedInv'
<1> USE DEF IInv, TypeOK, UsedInv
<1>1. \A i : UsedWithout(i) = used
  BY DEF UsedWithout, Timely
<1>2. CASE Mkdir(a)
  BY <1>2 DEF Mkdir
<1>3. CASE Stat(a)
  BY <1>3 DEF Stat, Saw, Seen, Dirs
<1>4. CASE Observe(a)
  BY <1>4 DEF Observe, Saw, Seen, Unseen
<1>5. CASE Rename(a)
  BY <1>5 DEF Rename, Saw, Seen, Unseen
<1>6. CASE DropOwnReapLock(a) \/ StatReapLock(a)
  BY <1>1, <1>6 DEF DropOwnReapLock, StatReapLock, Saw, Seen, Unseen
<1>7. CASE WriteOwner(a)
  BY <1>7 DEF WriteOwner, Dirs
<1>8. CASE Unlink(a)
  BY <1>8 DEF Unlink, RecordedOwner, Dirs
<1>9. CASE Rmdir(a)
  BY <1>1, <1>9 DEF Rmdir
<1>10. CASE \/ Start(a) \/ WriteOwnerFails(a) \/ Poll(a) \/ Busy(a) \/ TakeReapLock(a)
            \/ DropReapLock(a) \/ Recheck(a) \/ RecheckOwner(a) \/ Identify(a)
            \/ Leave(a) \/ ReleaseRead(a) \/ ReleaseReadFails(a) \/ ReleaseStat(a)
  BY <1>10 DEF Start, WriteOwnerFails, Poll, Busy, TakeReapLock, DropReapLock,
     Recheck, RecheckOwner, Identify, Leave, ReleaseRead, ReleaseReadFails, ReleaseStat
<1> QED
  BY <1>2, <1>3, <1>4, <1>5, <1>6, <1>7, <1>8, <1>9, <1>10 DEF Step

\* Only a mkdir makes a directory or lets a call claim one.
LEMMA ClaimsBeginWithMkdir ==
    ASSUME IInv, NEW a \in Actors, Start(a) \/ Step(a)
    PROVE  /\ \E step : pc' = [pc EXCEPT ![a] = step]
           /\ ~Mkdir(a) =>
                 /\ pc'[a] \in Claiming => pc[a] \in Claiming
                 /\ lock' = None \/ (lock # None /\ lock'.ino = lock.ino /\ lock'.by = lock.by)
<1> USE DEF IInv, TypeOK, Goto, ThenGoto, Return, Claiming, Changing, Holding
<1>1. CASE Mkdir(a)
  BY <1>1 DEF Mkdir
<1>2. CASE WriteOwner(a)
  BY <1>2 DEF WriteOwner, Dirs
<1>3. CASE Unlink(a)
  BY <1>3 DEF Unlink, RecordedOwner, Dirs
<1>4. CASE Rename(a) \/ Rmdir(a)
  <2>1. after[a] \notin Claiming
    OBVIOUS
  <2> QED
    BY <1>4, <2>1 DEF Rename, Rmdir
<1>5. CASE DropOwnReapLock(a)
  <2>1. after[a] \notin Claiming
    OBVIOUS
  <2> QED
    BY <1>5, <2>1 DEF DropOwnReapLock
<1>6. CASE \/ Start(a) \/ WriteOwnerFails(a) \/ Stat(a) \/ Observe(a) \/ Poll(a)
           \/ Busy(a) \/ TakeReapLock(a) \/ StatReapLock(a) \/ DropReapLock(a)
           \/ Recheck(a) \/ RecheckOwner(a) \/ Identify(a) \/ Leave(a)
           \/ ReleaseRead(a) \/ ReleaseReadFails(a) \/ ReleaseStat(a)
  BY <1>6 DEF Start, WriteOwnerFails, Stat, Observe, Poll, Busy, TakeReapLock,
     StatReapLock, DropReapLock, Recheck, RecheckOwner, Identify, Leave,
     ReleaseRead, ReleaseReadFails, ReleaseStat
<1> QED
  BY <1>1, <1>2, <1>3, <1>4, <1>5, <1>6 DEF Step

\* What is abandoned stays abandoned: its inode is never given out again.
LEMMA AbandonedStays ==
    ASSUME IInv, NEW a \in Actors, Start(a) \/ Step(a),
           NEW i \in used, Abandoned(i)
    PROVE  lock' # None /\ lock'.ino = i => pc'[lock'.by] \notin Claiming
<1> USE DEF IInv, TypeOK
<1>1. CASE Mkdir(a)
  <2>1. CASE lock = None
    BY <1>1, <2>1 DEF Mkdir, Abandoned
  <2>2. CASE lock # None
    <3>1. lock.by \in Actors
      BY <2>2 DEF Dirs
    <3> QED
      BY <1>1, <2>2, <3>1 DEF Mkdir, Abandoned, Goto, Claiming, Changing, Holding
  <2> QED
    BY <2>1, <2>2
<1>2. CASE ~Mkdir(a)
  <2> SUFFICES ASSUME lock' # None, lock'.ino = i PROVE pc'[lock'.by] \notin Claiming
    OBVIOUS
  <2>1. lock # None /\ lock'.ino = lock.ino /\ lock'.by = lock.by /\ lock.by \in Actors
    BY <1>2, ClaimsBeginWithMkdir DEF Dirs
  <2>2. pc[lock.by] \notin Claiming
    BY <2>1 DEF Abandoned
  <2> QED
    BY <1>2, <2>1, <2>2, ClaimsBeginWithMkdir
<1> QED
  BY <1>1, <1>2

LEMMA StaleStep ==
    ASSUME Timely, IInv, NEW a \in Actors, Start(a) \/ Step(a)
    PROVE  StaleInv'
<1> SUFFICES ASSUME NEW b \in Actors PROVE Judges(b)'
  BY DEF StaleInv
<1> USE DEF IInv, TypeOK, Goto, ThenGoto, Saw, Return, Judged
<1>0. /\ Judges(b)
      /\ seen[b] \in Seen
      /\ seen[b].ino # None => seen[b].ino \in used
  BY DEF StaleInv, UsedInv
<1> DEFINE Left(i) == lock' # None /\ lock'.ino = i => pc'[lock'.by] \notin Claiming
<1>1. seen[b].ino # None /\ Abandoned(seen[b].ino) => Left(seen[b].ino)
  BY <1>0, AbandonedStays
<1>2. CASE b # a
  <2>1. pc'[b] = pc[b]
    BY <1>2, ClaimsBeginWithMkdir
  <2>2. seen'[b] = seen[b]
    BY <1>2 DEF Start, Step, Mkdir, WriteOwner, WriteOwnerFails, Stat, Observe, Poll, Busy,
     TakeReapLock, StatReapLock, DropReapLock, Recheck, RecheckOwner, Rename,
     DropOwnReapLock, Identify, Leave, ReleaseRead, ReleaseReadFails,
     ReleaseStat, Unlink, Rmdir
  <2>3. pc[b] \in {"reread", "rename"} => lock' # None /\ lock'.ino = seen[b].ino
    <3> SUFFICES ASSUME pc[b] \in {"reread", "rename"}, lock # None, lock.ino = seen[b].ino,
                        pc[lock.by] \notin Claiming
                 PROVE  lock' # None /\ lock'.ino = seen[b].ino
      BY <1>0 DEF Judges, Abandoned
    <3>1. ~Rename(a)
      BY <1>2 DEF Rename, ReapInv, Reaping
    <3>2. ~Rmdir(a)
      BY DEF Rmdir, ClaimInv, Claims, Claiming, Changing
    <3>3. lock' # None
      <4>1. CASE WriteOwner(a)
        BY <4>1, SelfIsOwner, NoneAssumption DEF WriteOwner, Dirs
      <4>2. CASE Unlink(a)
        BY <4>2, NoneAssumption DEF Unlink, RecordedOwner, Dirs
      <4>3. CASE ~(WriteOwner(a) \/ Unlink(a))
        BY <3>1, <3>2, <4>3 DEF Start, Step, Mkdir, WriteOwnerFails, Stat, Observe,
           Poll, Busy, TakeReapLock, StatReapLock, DropReapLock, Recheck,
           RecheckOwner, DropOwnReapLock, Identify, Leave, ReleaseRead,
           ReleaseReadFails, ReleaseStat
      <4> QED
        BY <4>1, <4>2, <4>3
    <3>4. CASE Mkdir(a)
      BY <3>4 DEF Mkdir
    <3> QED
      BY <3>3, <3>4, ClaimsBeginWithMkdir
  <2> QED
    BY <1>0, <1>1, <2>1, <2>2, <2>3 DEF Judges, Abandoned
<1>3. CASE b = a
  <2>1. CASE Stat(a)
    <3>1. CASE lock = None
      BY <1>3, <2>1, <3>1 DEF Stat, Judges
    <3>2. CASE lock # None
      <4>1. lock.ino \in Inodes /\ lock.by \in Actors
        BY <3>2 DEF Dirs
      <4>2. lock.aged => pc[lock.by] \notin Claiming
        BY <4>1 DEF ClaimInv, Claims
      <4>3. /\ seen'[a] = [ino |-> lock.ino, aged |-> lock.aged, owner |-> None]
            /\ pc' = [pc EXCEPT ![a] = "observe"]
            /\ lock' = lock
        BY <2>1, <3>2 DEF Stat
      <4>4. "observe" \notin Claiming
        BY DEF Claiming, Changing, Holding
      <4> QED
        BY <1>3, <4>1, <4>2, <4>3, <4>4, NoneAssumption DEF Judges, Abandoned
    <3> QED
      BY <3>1, <3>2
  <2>2. CASE Observe(a)
    <3>1. PICK o \in OwnerReads :
            LET stale == IF o # None THEN ~OwnerLooksLive(o) ELSE seen[a].aged
            IN  /\ Goto(a, IF stale THEN "reapLock" ELSE "wait")
                /\ Saw(a, IF stale THEN [seen[a] EXCEPT !.owner = o] ELSE Unseen)
      BY <2>2 DEF Observe
    <3>2. CASE o # None /\ ~OwnerLooksLive(o)
      <4>1. lock # None /\ lock.owner = o /\ lock.by \in Actors
        BY <3>2, NoneAssumption DEF OwnerReads, RecordedOwner, Dirs
      <4>2. ASSUME pc[lock.by] \in Claiming PROVE FALSE
        <5>1. o = Self(lock.by) /\ alive[PidOf[lock.by]]
          BY <3>2, <4>1, <4>2 DEF ClaimInv, Claims, RunningInv, Claiming, Changing, Holding
        <5> QED
          BY <3>2, <5>1 DEF OwnerLooksLive, Self
      <4>3. Abandoned(seen[a].ino)
        BY <4>2 DEF Abandoned
      <4>4. seen'[a].ino = seen[a].ino /\ pc'[a] = "reapLock" /\ seen[a].ino # None
        BY <1>0, <1>3, <2>2, <3>1, <3>2 DEF Judges, Seen, Observe
      <4> QED
        BY <1>1, <1>3, <4>3, <4>4 DEF Judges, Abandoned
    <3>3. CASE o = None /\ seen[a].aged
      <4>1. seen'[a].ino = seen[a].ino /\ pc'[a] = "reapLock" /\ seen[a].ino # None
        BY <1>0, <1>3, <2>2, <3>1, <3>3 DEF Judges, Seen, Observe
      <4>2. Abandoned(seen[a].ino)
        BY <1>0, <1>3, <2>2, <3>3 DEF Judges, Observe
      <4> QED
        BY <1>1, <1>3, <4>1, <4>2 DEF Judges, Abandoned
    <3>4. CASE pc'[a] = "wait"
      BY <1>3, <3>4 DEF Judges
    <3> QED
      BY <3>1, <3>2, <3>3, <3>4
  <2>3. CASE TakeReapLock(a)
    <3>1. seen' = seen /\ pc[a] = "reapLock" /\ pc'[a] \in {"recheck", "reapAge"}
      BY <2>3 DEF TakeReapLock
    <3> QED
      BY <1>0, <1>1, <1>3, <3>1 DEF Judges, Abandoned
  <2>4. CASE Recheck(a)
    <3>1. /\ seen' = seen /\ lock' = lock /\ pc[a] = "recheck"
          /\ \/ pc'[a] = "unreap"
             \/ pc'[a] \in {"rename", "reread"} /\ lock # None /\ lock.ino = seen[a].ino
      BY <2>4 DEF Recheck
    <3> QED
      BY <1>0, <1>1, <1>3, <3>1 DEF Judges, Abandoned
  <2>5. CASE RecheckOwner(a)
    <3>1. /\ seen' = seen /\ lock' = lock /\ pc[a] = "reread"
          /\ pc'[a] \in {"rename", "unreap"}
      BY <2>5 DEF RecheckOwner
    <3> QED
      BY <1>0, <1>1, <1>3, <3>1 DEF Judges, Abandoned
  <2>6. CASE ~(Stat(a) \/ Observe(a) \/ TakeReapLock(a) \/ Recheck(a) \/ RecheckOwner(a))
    <3>1. pc'[a] \notin {"observe"} \cup Judged
      BY <2>6 DEF Start, Step, Mkdir, WriteOwner, WriteOwnerFails, Poll, Busy,
         StatReapLock, DropReapLock, Rename, DropOwnReapLock, Identify, Leave,
         ReleaseRead, ReleaseReadFails, ReleaseStat, Unlink, Rmdir
    <3> QED
      BY <1>3, <3>1 DEF Judges
  <2> QED
    BY <2>1, <2>2, <2>3, <2>4, <2>5, <2>6
<1> QED
  BY <1>2, <1>3

LEMMA ReapStep ==
    ASSUME Timely, IInv, NEW a \in Actors, Start(a) \/ Step(a)
    PROVE  ReapInv'
<1> USE DEF IInv, TypeOK, ReapInv, Goto, ThenGoto, Return, Reaping
<1>1. CASE TakeReapLock(a)
  <2>1. CASE reap = None
    <3>1. /\ reap' = [by |-> a, aged |-> FALSE] /\ pc' = [pc EXCEPT ![a] = "recheck"]
      BY <1>1, <2>1 DEF TakeReapLock
    <3>2. \A b \in Actors : pc[b] \notin Reaping
      BY <2>1
    <3>3. reap' \in Reaps
      BY <3>1 DEF Reaps
    <3> QED
      BY <3>1, <3>2, <3>3, NoneAssumption
  <2>2. CASE reap # None
    BY <1>1, <2>2 DEF TakeReapLock, Reaps
  <2> QED
    BY <2>1, <2>2
<1>2. CASE DropOwnReapLock(a)
  <2>1. \A b \in Actors : pc[b] \in Reaping => b = a
    BY <1>2 DEF DropOwnReapLock
  <2> QED
    BY <1>2, <2>1 DEF DropOwnReapLock
<1>3. CASE ~(TakeReapLock(a) \/ DropOwnReapLock(a))
  <2>1. /\ reap' = reap
        /\ pc'[a] \in Reaping <=> pc[a] \in Reaping
        /\ pc'[a] # "dropReap"
    BY <1>3 DEF Start, Step, Mkdir, WriteOwner, WriteOwnerFails, Stat, Observe, Poll,
       Busy, StatReapLock, DropReapLock, Recheck, RecheckOwner, Rename, Identify,
       Leave, ReleaseRead, ReleaseReadFails, ReleaseStat, Unlink, Rmdir, Reaps
  <2>2. \E step : pc' = [pc EXCEPT ![a] = step]
    BY ClaimsBeginWithMkdir
  <2> QED
    BY <2>1, <2>2 DEF Reaps
<1> QED
  BY <1>1, <1>2, <1>3

LEMMA NextIInv == Timely /\ IInv /\ [Next]_vars => IInv'
<1> SUFFICES ASSUME Timely, IInv, [Next]_vars PROVE IInv'
  OBVIOUS
<1>0. TypeOK'
  BY NextTypeOK DEF IInv
<1>1. CASE \E a \in Actors : Start(a) \/ Step(a)
  BY <1>0, <1>1, ClaimStep, RunningStep, UsedStep, StaleStep, ReapStep DEF IInv
<1>2. ASSUME NEW p \in Pids, Crash(p) PROVE IInv'
  <2> USE LockAssumption, <1>2 DEF Crash, IInv, TypeOK
  <2>1. \A a \in Actors : PidOf[a] = p => pc'[a] = "idle"
    OBVIOUS
  <2>2. \A a \in Actors : PidOf[a] # p =>
          pc'[a] = pc[a] /\ seen'[a] = seen[a] /\ mine'[a] = mine[a]
    OBVIOUS
  <2>3. ClaimInv'
    BY <2>1, <2>2 DEF ClaimInv, Claims, Self, Claiming, Changing, Holding
  <2>4. RunningInv'
    BY <2>1, <2>2 DEF RunningInv
  <2>5. UsedInv'
    BY <2>2 DEF UsedInv, Unseen
  <2>6. StaleInv'
    <3> SUFFICES ASSUME NEW b \in Actors PROVE Judges(b)'
      BY DEF StaleInv
    <3>1. CASE PidOf[b] = p
      BY <2>1, <3>1 DEF Judges, Judged
    <3>2. CASE PidOf[b] # p
      <4>1. lock # None => lock.by \in Actors
        BY DEF Dirs
      <4>2. lock # None /\ pc[lock.by] \notin Claiming => pc'[lock.by] \notin Claiming
        BY <2>1, <2>2, <4>1 DEF Claiming, Changing, Holding
      <4> QED
        BY <2>2, <3>2, <4>2 DEF StaleInv, Judges, Abandoned
    <3> QED
      BY <3>1, <3>2
  <2>7. ReapInv'
    <3>1. \A a \in Actors : PidOf[a] = p => pc[a] \notin Reaping
      BY DEF Timely
    <3> QED
      BY <2>1, <2>2, <3>1 DEF ReapInv, Reaps, Reaping
  <2> QED
    BY <1>0, <2>3, <2>4, <2>5, <2>6, <2>7
<1>3. ASSUME NEW p \in Pids, Restart(p) PROVE IInv'
  <2>1. \A a \in Actors : PidOf[a] = p => pc[a] = "idle"
    BY <1>3 DEF Restart, IInv, RunningInv
  <2>2. ClaimInv'
    BY <1>3, <2>1, LockAssumption
    DEF IInv, TypeOK, Restart, ClaimInv, Claims, Self, Claiming, Changing, Holding
  <2>3. RunningInv'
    BY <1>3, LockAssumption DEF IInv, TypeOK, Restart, RunningInv
  <2> QED
    BY <1>0, <1>3, <2>2, <2>3
    DEF IInv, Restart, UsedInv, StaleInv, Judges, Abandoned, ReapInv
<1>4. CASE AgeLock
  <2>1. lock \in Dirs /\ lock.by \in Actors /\ pc[lock.by] \notin Claiming
    BY <1>4 DEF AgeLock, IInv, TypeOK, Dirs, Timely, Claiming
  <2>2. /\ lock' # None /\ lock'.ino = lock.ino /\ lock'.by = lock.by
    BY <1>4, <2>1, NoneAssumption DEF AgeLock, Dirs
  <2>3. \A a \in Actors : pc[a] \notin Claiming
    BY <2>1 DEF IInv, ClaimInv, Claims
  <2>4. ClaimInv' /\ RunningInv' /\ UsedInv' /\ StaleInv' /\ ReapInv'
    BY <1>4, <2>1, <2>2, <2>3
    DEF AgeLock, System, IInv, ClaimInv, RunningInv, UsedInv, StaleInv, Judges,
        Abandoned, ReapInv
  <2> QED
    BY <1>0, <2>4 DEF IInv
<1>5. CASE AgeReapLock
  BY <1>5 DEF AgeReapLock, IInv, ReapInv, Timely
<1>6. CASE UNCHANGED vars
  BY <1>0, <1>6
  DEF vars, IInv, ClaimInv, Claims, Self, RunningInv, UsedInv, StaleInv, Judges,
      Abandoned, ReapInv
<1> QED
  BY <1>1, <1>2, <1>3, <1>4, <1>5, <1>6 DEF Next, Finished

LEMMA Invariant == Timely => (Spec => []IInv)
<1> SUFFICES ASSUME Timely PROVE Spec => []IInv
  OBVIOUS
<1>1. IInv /\ [Next]_vars => IInv'
  BY NextIInv
<1> QED
  BY <1>1, InitIInv, PTL DEF Spec

\* Two calls never run their fn at once (thread-lock.ts:485-491), for any
\* number of callers and processes, with processes dying outside a recovery.
THEOREM Exclusion == Timely => (Spec => []MutualExclusion)
<1>1. IInv => MutualExclusion
  BY OneClaimer DEF IInv, MutualExclusion, Claiming, Holding
<1> QED
  BY <1>1, Invariant, PTL

\* Nobody steals a live owner's lock (thread-lock.ts:15).
THEOREM NoTheft == Timely => (Spec => []HolderKeepsItsLock)
<1>1. IInv => HolderKeepsItsLock
  BY DEF IInv, ClaimInv, Claims, HolderKeepsItsLock, Claiming, Holding
<1> QED
  BY <1>1, Invariant, PTL

\* The reap lock admits one recovery at a time.
THEOREM SingleReaper == Timely => (Spec => []OneReaper)
<1>1. IInv => OneReaper
  BY DEF IInv, ReapInv, OneReaper
<1> QED
  BY <1>1, Invariant, PTL

\* No removal by path takes another call's directory.
THEOREM OwnRemovals == Timely => (Spec => RemovesOnlyItsOwn)
<1>1. IInv => \A a \in Actors : pc[a] \in {"unlink", "rmdir"} => lock.by = a
  BY DEF IInv, ClaimInv, Claims, Claiming, Changing
<1>2. IInv => [\A a \in Actors :
                 pc[a] \in {"unlink", "rmdir"} /\ pc'[a] # pc[a] /\ lock' # lock
                     => lock.by = a]_vars
  BY <1>1
<1> QED
  BY <1>2, Invariant, PTL DEF RemovesOnlyItsOwn

-----------------------------------------------------------------------------
(* ThreadLock implements PlanLock *)

LEMMA InitPlanLock == Init => Lock!Init
BY DEF Init, Holder, Lock!Init

\* A step changes where one call stands, or takes calls out of their fn.
LEMMA OneMoves ==
    TypeOK /\ [Next]_vars =>
        \/ \E a \in Actors : \A b \in Actors \ {a} : pc'[b] = pc[b]
        \/ \A b \in Actors : pc'[b] = "cs" => pc[b] = "cs"
<1> SUFFICES ASSUME TypeOK, [Next]_vars
             PROVE  \/ \E a \in Actors : \A b \in Actors \ {a} : pc'[b] = pc[b]
                    \/ \A b \in Actors : pc'[b] = "cs" => pc[b] = "cs"
  OBVIOUS
<1>a. pc \in [Actors -> Steps]
  BY DEF TypeOK
<1>1. ASSUME NEW a \in Actors, Start(a) \/ Step(a)
      PROVE  \A b \in Actors \ {a} : pc'[b] = pc[b]
  <2> USE <1>a DEF Goto, ThenGoto, Return
  <2>1. CASE Start(a) \/ Mkdir(a) \/ WriteOwner(a) \/ WriteOwnerFails(a) \/ Stat(a) \/ Observe(a)
    BY <2>1 DEF Start, Mkdir, WriteOwner, WriteOwnerFails, Stat, Observe
  <2>2. CASE \/ Poll(a) \/ Busy(a) \/ TakeReapLock(a) \/ StatReapLock(a) \/ DropReapLock(a)
             \/ Recheck(a) \/ RecheckOwner(a) \/ Rename(a) \/ DropOwnReapLock(a)
    BY <2>2 DEF Poll, Busy, TakeReapLock, StatReapLock, DropReapLock, Recheck, RecheckOwner,
       Rename, DropOwnReapLock
  <2>3. CASE \/ Identify(a) \/ Leave(a) \/ ReleaseRead(a) \/ ReleaseReadFails(a)
             \/ ReleaseStat(a) \/ Unlink(a) \/ Rmdir(a)
    BY <2>3 DEF Identify, Leave, ReleaseRead, ReleaseReadFails, ReleaseStat, Unlink, Rmdir
  <2> QED
    BY <1>1, <2>1, <2>2, <2>3 DEF Step
<1>2. ASSUME NEW p \in Pids, Crash(p)
      PROVE  \A b \in Actors : pc'[b] = "cs" => pc[b] = "cs"
  BY <1>2 DEF Crash
<1>3. ASSUME NEW p \in Pids, Restart(p) PROVE UNCHANGED pc
  BY <1>3 DEF Restart
<1>4. CASE AgeLock \/ AgeReapLock \/ Finished \/ UNCHANGED vars
  BY <1>4 DEF AgeLock, AgeReapLock, Finished, vars
<1> QED
  BY <1>1, <1>2, <1>3, <1>4 DEF Next

LEMMA StepPlanLock ==
    TypeOK /\ MutualExclusion /\ MutualExclusion' /\ [Next]_vars => [Lock!Next]_Holder
<1> SUFFICES ASSUME TypeOK, MutualExclusion, MutualExclusion', [Next]_vars
             PROVE  [Lock!Next]_Holder
  OBVIOUS
<1>1. /\ \A a \in Actors : pc[a] = "cs" => Holder = a
      /\ (\A a \in Actors : pc[a] # "cs") => Holder = None
  BY DEF Holder, MutualExclusion
<1>2. /\ \A a \in Actors : pc'[a] = "cs" => Holder' = a
      /\ (\A a \in Actors : pc'[a] # "cs") => Holder' = None
  BY DEF Holder, MutualExclusion
<1>3. ASSUME NEW a \in Actors, pc[a] = "cs", pc'[a] # "cs"
      PROVE  Lock!Release(a)
  <2>1. \A b \in Actors : pc'[b] # "cs"
    BY <1>3, OneMoves DEF MutualExclusion
  <2> QED
    BY <1>1, <1>2, <1>3, <2>1 DEF Lock!Release
<1>4. ASSUME NEW a \in Actors, pc'[a] = "cs", \A b \in Actors : pc[b] # "cs"
      PROVE  Lock!Acquire(a)
  BY <1>1, <1>2, <1>4 DEF Lock!Acquire
<1>5. ASSUME NEW a \in Actors, pc[a] = "cs", pc'[a] = "cs"
      PROVE  UNCHANGED Holder
  BY <1>1, <1>2, <1>5
<1>6. CASE \A a \in Actors : pc[a] # "cs" /\ pc'[a] # "cs"
  BY <1>1, <1>2, <1>6
<1> QED
  BY <1>3, <1>4, <1>5, <1>6 DEF Lock!Next

\* The directory, owner.json and the reap lock together are the plan lock that
\* the queue, the drains and the replan build on (thread-lock.ts:296-510).
THEOREM Refinement == Timely => (Spec => ImplementsPlanLock)
<1>1. Timely => (Spec => []TypeOK /\ []MutualExclusion)
  BY TypeCorrect, Exclusion
<1> QED
  BY <1>1, InitPlanLock, StepPlanLock, PTL DEF Spec, ImplementsPlanLock, Lock!Spec
=============================================================================
