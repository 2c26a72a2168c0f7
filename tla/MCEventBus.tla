----------------------------- MODULE MCEventBus -----------------------------
(* Small instances of EventBus: every ring wraps and every pool runs dry. *)
EXTENDS EventBus
=============================================================================
