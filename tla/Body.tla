-------------------------------- MODULE Body --------------------------------
(***************************************************************************)
(* The body's reactions: the face task (main.c) runs, once a frame, the    *)
(* circadian shell, the reflex shell (drain the bus, look at the touch     *)
(* pad, tick the reflex engine) and the timers, all on one state machine;  *)
(* meanwhile the touch task, the mind link task and the audio task post    *)
(* events on the bus.  Time is abstract: a claim lapses at some tick.      *)
(***************************************************************************)
EXTENDS TinyFsm, Sequences, SequencesExt

CONSTANTS LaneRoom,     \* normal events the bus holds: NB_EVENT_BUS_NORMAL_SLOTS
          Phases        \* durations of a long press the engine tells apart

ASSUME BodyAssumption ==
  /\ LaneRoom \in Nat \ {0}
  /\ Phases \in Nat \ {0}

VARIABLES fsm,
          claims,         \* bands of the engine that are claimed
          wasPressed,     \* touch_was_pressed
          touchPhase,     \* touch_current_phase, or Off
          step,           \* what the face task does next
          sawPressed,     \* what it read of the pad, before "tick"
          pad,            \* how long the pad is pressed: service state, press_ms
          pressEvent,     \* the touch task has an event to publish
          looked,         \* the face task looked at the pad since pad changed
          lane,           \* the events waiting on the bus
          sayActive,      \* s_downlink_say_active
          (* History: what the properties look back at. *)
          refused,        \* the bus refused the latest hint that ends speech
          forgot          \* force_clear wiped wasPressed since the last press

engine == <<claims, wasPressed, touchPhase, forgot>>
touch == <<pad, pressEvent, looked>>
mind == <<sayActive, refused>>
vars == <<fsm, engine, step, sawPressed, touch, lane, mind>>

(* "OTHER": SAY_AUDIO, LISTEN_*, TIME_SYNC, TIMER and DEVICE_CONFIG, which *)
(* take room on the bus and do nothing to the body.                        *)
Hints == {"SAY_BEGIN", "SAY_END", "SERVER_DROPPED"}
BusEvents == Hints \cup {"TOUCH", "VOICE_WAKE", "OTHER"}
Endings == {"SAY_END", "SERVER_DROPPED"}
(* How long the pad is pressed: not at all, too briefly for a tap, a tap,  *)
(* a long press, and then through the phases of a sustained one.           *)
Off == 0
Brief == 1
Long == 3
FirstPhase == Long + 1
LastPhase == Long + Phases
Pads == Off..LastPhase
Steps == {"circadian", "drain", "tick", "timers"}
Bands == {"touch", "hint"}   \* no stimulus that is raised claims the other two
modes == {}                  \* nor does anything send a MODE_* event

-----------------------------------------------------------------------------
(* Mutant: the engine is wiped on the way into IDLE only. *)
ReactOnEntry(event, c, pressed, tp, forgotten) ==
  /\ fsm' = After(fsm, modes, event)
  /\ IF fsm' = "IDLE" /\ fsm # "IDLE"
     THEN /\ claims' = {} /\ wasPressed' = FALSE /\ touchPhase' = Off
          /\ forgot' = (forgotten \/ pressed)
     ELSE /\ claims' = c /\ wasPressed' = pressed /\ touchPhase' = tp
          /\ forgot' = forgotten
(* apply_reaction and the hint branch of the drain: give the event to the  *)
(* state machine and wipe the engine if that leaves it in IDLE.            *)
(* nb_reflex_engine_force_clear drops every claim and what the engine      *)
(* knows of the press.                                                     *)
React(event, c, pressed, tp, forgotten) ==
  /\ fsm' = After(fsm, modes, event)
  /\ IF fsm' = "IDLE"
     THEN /\ claims' = {} /\ wasPressed' = FALSE /\ touchPhase' = Off
          /\ forgot' = (forgotten \/ pressed)
     ELSE /\ claims' = c /\ wasPressed' = pressed /\ touchPhase' = tp
          /\ forgot' = forgotten

Init ==
  /\ fsm = After("BOOT", modes, "BOOT_OK")
  /\ claims = {} /\ wasPressed = FALSE /\ touchPhase = Off
  /\ step = "circadian" /\ sawPressed = FALSE
  /\ pad = Off /\ pressEvent = FALSE /\ looked = FALSE
  /\ lane = <<>>
  /\ sayActive = FALSE
  /\ refused = FALSE /\ forgot = FALSE

-----------------------------------------------------------------------------
(* The face task. *)

(* nb_circadian_core_shell_tick sends what is pending: SLEEP at nightfall  *)
(* (later, if the body was busy), WAKE_HOUR at dawn.  Which is pending is  *)
(* the clock's business, not looked at here: either, both or none may be.   *)
(* There is no force_clear here.                                           *)
CircadianTick ==
  /\ step = "circadian" /\ step' = "drain"
  /\ \E sleep, wake \in BOOLEAN :
       LET slept == IF sleep THEN After(fsm, modes, "SLEEP") ELSE fsm
       IN  fsm' = IF wake THEN After(slept, modes, "WAKE_HOUR") ELSE slept
  /\ UNCHANGED <<engine, sawPressed, touch, lane, mind>>

Polled(kinds) ==
  /\ step = "drain" /\ lane # <<>> /\ Head(lane) \in kinds
  /\ lane' = Tail(lane)
  /\ UNCHANGED <<step, sawPressed, touch, mind>>

DrainTouch ==
  /\ Polled({"TOUCH"})
  /\ React("TOUCH", claims \cup {"touch"}, wasPressed, touchPhase, forgot)

DrainVoice ==
  /\ Polled({"VOICE_WAKE"})
  /\ React("WAKE", claims, wasPressed, touchPhase, forgot)

(* map_mind_hint_event *)
HintEvent(h) == CASE h = "SAY_BEGIN" -> "SAY_START"
                  [] h = "SAY_END" -> "SAY_END"
                  [] h = "SERVER_DROPPED" -> "SERVER_DROPPED"
DrainHint ==
  /\ Polled(Hints)
  /\ React(HintEvent(Head(lane)), claims, wasPressed, touchPhase, forgot)

DrainOther == Polled({"OTHER"}) /\ UNCHANGED <<fsm, engine>>

(* The poll that finds the bus empty, then is_pressed: no tick of the pad  *)
(* (20 ms) separates them.  The duration is read apart, in EngineTick.     *)
Look ==
  /\ step = "drain" /\ lane = <<>> /\ step' = "tick"
  /\ sawPressed' = (pad # Off)
  /\ looked' = TRUE
  /\ UNCHANGED <<fsm, engine, pad, pressEvent, lane, mind>>

(* nb_reflex_engine_tick and apply_reaction.  Claims lapse after the       *)
(* stimulus of this tick, and before the reaction is applied.              *)
Duration == IF pad >= FirstPhase THEN pad ELSE Off
(* Mutant: a press is remembered only once it has a phase. *)
PressedTickForgets ==
  \E lapsed \in SUBSET claims :
    /\ sawPressed
    /\ IF Duration # Off /\ Duration # touchPhase
       THEN React("TOUCH", (claims \ lapsed) \cup {"touch"}, TRUE, Duration, FALSE)
       ELSE /\ claims' = claims \ lapsed
            /\ UNCHANGED <<fsm, wasPressed, touchPhase, forgot>>
PressedTick ==
  \E lapsed \in SUBSET claims, pulse \in BOOLEAN :
    LET stimulus == Duration # Off /\ (Duration # touchPhase \/ (pulse /\ Duration = FirstPhase))
        now == IF Duration = Off THEN touchPhase ELSE Duration
    IN  /\ sawPressed
        /\ IF stimulus
           THEN React("TOUCH", (claims \ lapsed) \cup {"touch"}, TRUE, now, FALSE)
           ELSE /\ claims' = claims \ lapsed
                /\ wasPressed' = TRUE /\ touchPhase' = now /\ forgot' = FALSE
                /\ UNCHANGED fsm

ReleasedTick ==
  \E lapsed \in SUBSET claims :
    /\ ~sawPressed
    /\ IF wasPressed
       THEN React("TOUCH_END", (claims \ lapsed) \cup {"touch"}, FALSE, Off, forgot)
       ELSE /\ claims' = claims \ lapsed /\ touchPhase' = Off
            /\ UNCHANGED <<fsm, wasPressed, forgot>>

EngineTick ==
  /\ step = "tick" /\ step' = "timers"
  /\ PressedTick \/ ReleasedTick
  /\ sawPressed' = FALSE
  /\ UNCHANGED <<touch, lane, mind>>

(* nb_schedule_core_shell_tick: a timer that fires claims the hint band.   *)
Timers ==
  /\ step = "timers" /\ step' = "circadian"
  /\ claims' \in {claims, claims \cup {"hint"}}
  /\ UNCHANGED <<fsm, wasPressed, touchPhase, forgot, sawPressed, touch,
                 lane, mind>>

Face == \/ CircadianTick \/ DrainTouch \/ DrainVoice \/ DrainHint \/ DrainOther
        \/ Look \/ EngineTick \/ Timers
-----------------------------------------------------------------------------
(* The publishers.  An event the bus has no room for is lost.              *)
Post(e) == lane' = IF Len(lane) < LaneRoom THEN Append(lane, e) ELSE lane

(* nb_touch_service_tick; the pad moves on to the next duration only once  *)
(* a frame looked at it: each lasts 100 ms or more, a frame 33 ms.         *)
Press ==
  /\ pad = Off /\ ~pressEvent
  /\ pad' = Brief /\ looked' = FALSE
  /\ UNCHANGED <<fsm, engine, step, sawPressed, pressEvent, lane, mind>>

Hold ==
  /\ ~pressEvent /\ looked
  /\ pad \in Brief..LastPhase - 1 /\ pad' = pad + 1
  /\ pressEvent' = (IF pad <= Long THEN TRUE ELSE FALSE)  \* TAP, LONG_PRESS, SUSTAINED
  /\ looked' = FALSE
  /\ UNCHANGED <<fsm, engine, step, sawPressed, lane, mind>>

(* The finger leaves, or a press that never ends is taken for drift.       *)
Release ==
  /\ pad # Off /\ ~pressEvent
  /\ pad' = Off /\ looked' = FALSE
  /\ UNCHANGED <<fsm, engine, step, sawPressed, pressEvent, lane, mind>>

PublishTouch ==
  /\ pressEvent /\ pressEvent' = FALSE
  /\ Post("TOUCH")
  /\ UNCHANGED <<fsm, engine, step, sawPressed, pad, looked, mind>>

(* wake_service publishes the wake word. *)
PublishWake ==
  /\ Post("VOICE_WAKE")
  /\ UNCHANGED <<fsm, engine, step, sawPressed, touch, mind>>

(* Whoever posts what the body ignores: mind_link, wake_service. *)
PublishOther ==
  /\ Post("OTHER")
  /\ UNCHANGED <<fsm, engine, step, sawPressed, touch, mind>>

(* mind_link: the frames of a turn (SAY_CANCEL is a SAY_END for the body), *)
(* and the end of a connection.                                            *)
ReceiveSayBegin ==
  /\ Post("SAY_BEGIN")
  /\ sayActive' = TRUE
  /\ UNCHANGED <<fsm, engine, step, sawPressed, touch, refused>>

ReceiveSayAudio ==
  /\ Post("OTHER")
  /\ sayActive' = TRUE
  /\ UNCHANGED <<fsm, engine, step, sawPressed, touch, refused>>

ReceiveSayEnd ==
  /\ Post("SAY_END")
  /\ sayActive' = FALSE
  /\ refused' = (IF Len(lane) < LaneRoom THEN FALSE ELSE TRUE)
  /\ UNCHANGED <<fsm, engine, step, sawPressed, touch>>

(* Mutant: the connection ends without a word to the body. *)
LinkLostSilently ==
  /\ sayActive' = FALSE
  /\ UNCHANGED <<fsm, engine, step, sawPressed, touch, lane, refused>>
LinkLost ==
  /\ sayActive' = FALSE
  /\ IF sayActive
     THEN /\ Post("SERVER_DROPPED")
          /\ refused' = (IF Len(lane) < LaneRoom THEN FALSE ELSE TRUE)
     ELSE UNCHANGED <<lane, refused>>
  /\ UNCHANGED <<fsm, engine, step, sawPressed, touch>>

Touch == Press \/ Hold \/ Release \/ PublishTouch
Mind == ReceiveSayBegin \/ ReceiveSayAudio \/ ReceiveSayEnd \/ LinkLost

Next == Face \/ Touch \/ PublishWake \/ PublishOther \/ Mind
Spec == Init /\ [][Next]_vars

(* The face task and the touch task loop for ever.  Nothing is assumed of  *)
(* the finger, the room or the mind.                                       *)
FairSpec == Spec /\ WF_vars(Face) /\ WF_vars(PublishTouch)
-----------------------------------------------------------------------------
TypeOK ==
  /\ fsm \in FsmStates \ {"BOOT", "ERROR", "SAFE_MODE"}
  /\ claims \in SUBSET Bands /\ wasPressed \in BOOLEAN
  /\ touchPhase \in Pads
  /\ step \in Steps /\ sawPressed \in BOOLEAN
  /\ pad \in Pads /\ pressEvent \in BOOLEAN /\ looked \in BOOLEAN
  /\ lane \in Seq(BusEvents) /\ Len(lane) <= LaneRoom
  /\ sayActive \in BOOLEAN
  /\ refused \in BOOLEAN /\ forgot \in BOOLEAN

(* A body that speaks is always about to hear the end of it: the mind link *)
(* knows of a turn, or the hint that ends it is on the bus, or the bus     *)
(* refused that hint.  Whatever the order of turns, drops and touches.     *)
EndOnTheWay == \E i \in 1..Len(lane) : lane[i] \in Endings
RespondingHasAnEnd ==
  fsm = "RESPONDING" => sayActive \/ refused \/ EndOnTheWay

(* Its strengthening, inductive (BodyProofs): what a turn on the bus       *)
(* promises.                                                               *)
TurnsEnd ==
  /\ fsm = "RESPONDING" => sayActive \/ refused \/ EndOnTheWay
  /\ \A i \in 1..Len(lane) :
       lane[i] = "SAY_BEGIN" =>
         \/ sayActive \/ refused
         \/ \E j \in 1..Len(lane) : i < j /\ lane[j] \in Endings

(* At the end of a frame, a body that reacts to touch has an engine that   *)
(* waits for the release: the finger may come and go between any two steps *)
(* of the frame.  The one way out is a force_clear during the press.       *)
ReactionWaitsForRelease ==
  step = "circadian" /\ fsm = "TOUCH_REACTING" => wasPressed \/ forgot

(* Its strengthening: a press that posted, or may post, an event was seen  *)
(* by the engine, or is about to be.                                       *)
Noticed == wasPressed \/ forgot \/ (step = "tick" /\ sawPressed)
PressesNoticed ==
  /\ pressEvent => pad > Brief
  /\ pad > Brief \/ (pad = Brief /\ looked) => Noticed
  /\ "TOUCH" \in Range(lane) \/ fsm = "TOUCH_REACTING" => Noticed
  /\ step = "tick" /\ ~sawPressed =>
       /\ pad = Off \/ (pad = Brief /\ ~looked)
       /\ "TOUCH" \notin Range(lane)

(* A body at rest is not claimed by touch: only waking up by the clock,    *)
(* which does not clear the engine, brings a claim into IDLE.              *)
IdleUnclaimed ==
  [][fsm' = "IDLE" /\ "touch" \in claims' =>
       step = "circadian" \/ (fsm = "IDLE" /\ "touch" \in claims)]_vars

(* A body that speaks stops once the turn is over, in spite of posts that  *)
(* never pause, unless the bus refused the hint that says so.              *)
RespondingEnds ==
  (fsm = "RESPONDING" /\ ~sayActive) ~>
    (fsm # "RESPONDING" \/ sayActive \/ refused)

(* BEHAVIOR.md, 1.2, says that a drop of the server never leaves the body  *)
(* frozen in RESPONDING; a full bus does, and nothing tells it again.      *)
NeverFrozen ==
  (fsm = "RESPONDING" /\ ~sayActive) ~> (fsm # "RESPONDING" \/ sayActive)
=============================================================================
