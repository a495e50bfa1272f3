------------------------ MODULE MCReplanReservation ------------------------
(* A small instance of ReplanReservation. *)
EXTENDS ReplanReservation
=============================================================================
