------------------------- MODULE MCWorkerWriteQueue -------------------------
(* A small instance of WorkerWriteQueue: a start and a complete of the first *)
(* generation.                                                               *)
EXTENDS WorkerWriteQueue, TLC

CONSTANTS s1, c1

StartComplete   == (s1 :> "start") @@ (c1 :> "complete")
FirstGeneration == [c \in Calls |-> 0]
=============================================================================
