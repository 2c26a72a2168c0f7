------------------------------ MODULE MCAgenda ------------------------------
(* Agenda with one id more than there are slots, and times to fire at      *)
(* before and after the hour a reset goes back to.                         *)
EXTENDS Agenda
=============================================================================
