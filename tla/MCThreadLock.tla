---------------------------- MODULE MCThreadLock ----------------------------
(* A small instance of ThreadLock: two calls in one process, a third in     *)
(* another.                                                                 *)
EXTENDS ThreadLock, TLC

CONSTANTS a1, a2, a3, p1, p2, o1, o2

MCActors == {a1, a2, a3}
MCPids   == {p1, p2}
MCPidOf  == (a1 :> p1) @@ (a2 :> p1) @@ (a3 :> p2)
MCOpOf   == (a1 :> o1) @@ (a2 :> o2) @@ (a3 :> o1)

\* One call in each process, for the run with every fault.
TwoActors == {a1, a3}
TwoPidOf  == (a1 :> p1) @@ (a3 :> p2)
TwoOpOf   == (a1 :> o1) @@ (a3 :> o1)
=============================================================================
