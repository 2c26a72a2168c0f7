------------------------------- MODULE MCMind -------------------------------
(* Mind with five events from outside and a breaker that opens at once.    *)
EXTENDS Mind
=============================================================================
