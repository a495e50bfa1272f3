------------------------------ MODULE PlanLock ------------------------------
(***************************************************************************)
(* What withThreadLock of plugins/minni/src/thread-lock.ts promises of one *)
(* plan's lock: a call runs its fn only when nobody else does, from        *)
(* Acquire to Release, and Release is also what the death of its process   *)
(* comes to.  How long a dead caller's lock is in the way is not said here.*)
(***************************************************************************)
CONSTANTS
    Callers,    \* calls that take the lock
    None

VARIABLE holder \* the call that runs its fn, or None

Init == holder = None

Acquire(c) == holder = None /\ holder' = c

Release(c) == holder = c /\ holder' = None

Next == \E c \in Callers : Acquire(c) \/ Release(c)

Spec == Init /\ [][Next]_holder
=============================================================================
