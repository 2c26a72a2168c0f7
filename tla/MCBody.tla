------------------------------- MODULE MCBody -------------------------------
(* Body with room for two events on the bus and two phases of a long press. *)
EXTENDS Body
=============================================================================
