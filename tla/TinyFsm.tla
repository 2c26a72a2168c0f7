------------------------------ MODULE TinyFsm ------------------------------
(***************************************************************************)
(* The state machine of the body (autonomic/tiny_fsm), a pure function of  *)
(* the state, the modes and the event.  The picture that goes with a state *)
(* (gaze, icons) is not modelled: nothing reads it.                        *)
(***************************************************************************)
EXTENDS Integers

FsmStates == {"BOOT", "IDLE", "ATTENTIVE", "RESPONDING", "TOUCH_REACTING",
              "SLEEPING", "ERROR", "SAFE_MODE"}

(* The edges of the switch in nb_tiny_fsm_apply_event, without faults:     *)
(* those of a robot on its own, then those of a turn of the mind.          *)
OwnEdges ==
  {<<"BOOT", "BOOT_OK", "IDLE">>,
   <<"BOOT", "BOOT_FAIL_CRITICAL", "SAFE_MODE">>,
   <<"IDLE", "WAKE", "ATTENTIVE">>,
   <<"IDLE", "TOUCH", "TOUCH_REACTING">>,
   <<"IDLE", "SLEEP", "SLEEPING">>,
   <<"ATTENTIVE", "ATTENTIVE_TIMEOUT", "IDLE">>,
   <<"ATTENTIVE", "TOUCH", "TOUCH_REACTING">>,
   <<"RESPONDING", "TOUCH", "TOUCH_REACTING">>,
   <<"TOUCH_REACTING", "TOUCH_END", "IDLE">>,
   <<"SLEEPING", "TOUCH", "IDLE">>,
   <<"SLEEPING", "WAKE_HOUR", "IDLE">>,
   <<"SLEEPING", "WAKE", "ATTENTIVE">>,
   <<"ERROR", "RECOVER", "IDLE">>}

(* Mutant: a drop of the server is not known to RESPONDING. *)
SayEdgesWithoutDrop ==
  {<<"IDLE", "SAY_START", "RESPONDING">>,
   <<"ATTENTIVE", "SAY_START", "RESPONDING">>,
   <<"RESPONDING", "SAY_END", "IDLE">>,
   <<"RESPONDING", "SAY_FOLLOWUP", "ATTENTIVE">>}
SayEdges ==
  {<<"IDLE", "SAY_START", "RESPONDING">>,
   <<"ATTENTIVE", "SAY_START", "RESPONDING">>,
   <<"RESPONDING", "SAY_END", "IDLE">>,
   <<"RESPONDING", "SAY_FOLLOWUP", "ATTENTIVE">>,
   <<"RESPONDING", "SERVER_DROPPED", "IDLE">>}

Edges == OwnEdges \cup SayEdges

(* Faults win over every state but SAFE_MODE; an event without an edge is  *)
(* ignored, and so is the wake word to a sleeper in quiet mode.            *)
After(state, modes, event) ==
  CASE event = "FAULT_CRITICAL" /\ state # "SAFE_MODE" -> "SAFE_MODE"
    [] event = "FAULT" /\ state # "SAFE_MODE" -> "ERROR"
    [] state = "SLEEPING" /\ event = "WAKE" /\ "QUIET" \in modes -> state
    [] OTHER -> IF \E to \in FsmStates : <<state, event, to>> \in Edges
                THEN CHOOSE to \in FsmStates : <<state, event, to>> \in Edges
                ELSE state
=============================================================================
