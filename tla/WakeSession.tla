---------------------------- MODULE WakeSession ----------------------------
(***************************************************************************)
(* The listening session (wake_service.c) as the audio task runs it, and   *)
(* what its sink (main.c) hands to the mind link.  The durations that end  *)
(* a session may be over at any time; the audio is its number of chunks.   *)
(* A step is a call of the service; the frames it hands over are pushed    *)
(* one by one, before the next call.                                       *)
(***************************************************************************)
EXTENDS Naturals, Sequences

CONSTANTS MaxSessions,    \* bound: sessions armed
          MaxChunks,      \* NB_WAKE_SERVICE_MAX_UTTERANCE_SAMPLES, in chunks
          VadAvailable    \* CONFIG_NB_WAKE_BENCH_HARNESS

ASSUME WakeAssumption ==
  /\ MaxSessions \in Nat /\ MaxChunks \in Nat \ {0}
  /\ VadAvailable \in BOOLEAN

VARIABLES wake,      \* state of the service
          active,    \* active_session_id, 0 if none
          chunks,    \* audio_samples_sent
          sessions,  \* next_session_id - 1
          routed,    \* mind_connected
          outbox     \* what the sink still has to push

wvars == <<wake, active, chunks, sessions, routed, outbox>>

Item(kind, session, n) == [kind |-> kind, session |-> session, n |-> n]
Items == [kind: {"wake", "start", "audio", "end"}, session: Nat, n: Nat]

WakeInit ==
  /\ wake = "IDLE" /\ active = 0 /\ chunks = 0
  /\ sessions = 0 /\ routed = FALSE /\ outbox = <<>>

Reset == wake' = "IDLE" /\ active' = 0 /\ chunks' = 0
Calls == outbox = <<>>

(* nb_wake_service_on_wake: main.c triggers it in IDLE only; without voice *)
(* activity detection, or a route, it gives feedback and stays there.      *)
Arms ==
  /\ Calls /\ wake = "IDLE"
  /\ VadAvailable /\ routed
  /\ sessions < MaxSessions /\ sessions' = sessions + 1
  /\ wake' = "ARMED" /\ active' = sessions'
  /\ outbox' = <<Item("wake", 0, 0)>>
  /\ UNCHANGED <<chunks, routed>>

(* nb_wake_service_on_audio_frame, of a frame with speech.                 *)
Begins ==
  /\ Calls /\ wake = "ARMED" /\ routed
  /\ wake' = "LISTENING" /\ chunks' = 1
  /\ outbox' = <<Item("start", active, 0), Item("audio", active, 1)>>
  /\ UNCHANGED <<active, sessions, routed>>

Hears ==
  /\ Calls /\ wake = "LISTENING" /\ routed
  /\ chunks < MaxChunks   \* the tick before it ends the session
  /\ chunks' = chunks + 1
  /\ outbox' = <<Item("audio", active, chunks')>>
  /\ UNCHANGED <<wake, active, sessions, routed>>

(* Mutant: an armed session that hears nothing ends like any other. *)
EndableArmed == wake \in {"ARMED", "LISTENING"}
Endable == wake = "LISTENING"

(* nb_wake_service_tick: silence, or the longest utterance.                *)
Ends ==
  /\ Calls /\ Endable /\ routed
  /\ outbox' = <<Item("end", active, 0)>>
  /\ Reset
  /\ UNCHANGED <<sessions, routed>>

(* The tick, or a frame, finds no route: feedback, and no LISTEN_END.      *)
GivesUp ==
  /\ Calls /\ wake \in {"ARMED", "LISTENING"} /\ ~routed
  /\ Reset
  /\ UNCHANGED <<sessions, routed, outbox>>

Audio == Arms \/ Begins \/ Hears \/ Ends \/ GivesUp

(* The loop of app_main asks the link now and then.                        *)
SetRoutes(ready) ==
  /\ routed # ready /\ routed' = ready
  /\ UNCHANGED <<wake, active, chunks, sessions, outbox>>

WakeType ==
  /\ wake \in {"IDLE", "ARMED", "LISTENING"}
  /\ active \in 0..MaxSessions /\ sessions \in 0..MaxSessions
  /\ chunks \in 0..MaxChunks
  /\ routed \in BOOLEAN /\ outbox \in Seq(Items)
=============================================================================
