-------------------------------- MODULE Night --------------------------------
(***************************************************************************)
(* The robot's day: the clock and its phases (circadian_core and its       *)
(* shell), what they send to the state machine, and the rare behaviours    *)
(* of the night (rarity_core).  A frame of the face task ticks the clock,  *)
(* then the body, then the rarities; the time of day is in hours.  Each    *)
(* start is at the bench's 20 h: the clock is saved every 30 s under a key *)
(* of 16 characters, one more than NVS takes, so that none ever is.        *)
(***************************************************************************)
EXTENDS TinyFsm

CONSTANTS Stride,       \* hours a frame may advance the clock by
          SneezePause   \* NB_RARITY_SNEEZE_MIN_INTERVAL_MS, in frames

ASSUME NightAssumption == Stride \in {1, 2} /\ SneezePause \in Nat

VARIABLES now,          \* the hour nb_circadian_core_now_unix_ms stands for
          lastPhase, pendingSleep, pendingWake,
          body,         \* the state of tiny_fsm
          sneezeAge,    \* frames since the last sneeze; past the pause: long ago
          wasSleeping, dreamReady, wasNight, gazeReady,
          (* History: what the properties look back at. *)
          dreams,         \* so far in this sleep
          late,           \* a sleep was still waiting when a day dawned
          jumped          \* TIME_SYNC moved the clock since dawn was last seen

clock == <<now, lastPhase, pendingSleep, pendingWake>>
rarity == <<sneezeAge, wasSleeping, dreamReady, wasNight, gazeReady>>
nightVars == <<clock, body, rarity, dreams, late, jumped>>

Hours == 0..23
DawnStart == 6
DayStart == 8
DuskStart == 20
NightStart == 22
NightBrightness == 5     \* hundredths
DayBrightness == 100

(* Mutant: the day begins with the dawn. *)
PhaseForHourNoDawn(h) ==
  CASE h >= NightStart \/ h < DawnStart -> "NIGHT"
    [] h >= DawnStart /\ h < DuskStart -> "DAY"
    [] h >= DuskStart /\ h < NightStart -> "DUSK"
PhaseForHour(h) ==
  CASE h >= NightStart \/ h < DawnStart -> "NIGHT"
    [] h >= DawnStart /\ h < DayStart -> "DAWN"
    [] h >= DayStart /\ h < DuskStart -> "DAY"
    [] h >= DuskStart /\ h < NightStart -> "DUSK"

(* resolve_output: a ramp at dawn and one at dusk join the two levels.     *)
Ramp(h, from, to) == ((DayBrightness - NightBrightness) * (h - from)) \div (to - from)
Brightness(h) ==
  CASE PhaseForHour(h) = "NIGHT" -> NightBrightness
    [] PhaseForHour(h) = "DAY" -> DayBrightness
    [] PhaseForHour(h) = "DAWN" -> NightBrightness + Ramp(h, DawnStart, DayStart)
    [] PhaseForHour(h) = "DUSK" -> DayBrightness - Ramp(h, DuskStart, NightStart)

(* What a frame's events of touch, voice and mind can make of the body.    *)
BodyEvents == {"TOUCH", "TOUCH_END", "WAKE", "SAY_START", "SAY_END", "SERVER_DROPPED"}
Once(s) == {s} \cup {After(s, {}, e) : e \in BodyEvents}
Moved(s) == UNION {Once(t) : t \in Once(s)}

-----------------------------------------------------------------------------
FreshRarity ==
  /\ sneezeAge' = SneezePause
  /\ wasSleeping' = FALSE /\ dreamReady' = FALSE
  /\ wasNight' = FALSE /\ gazeReady' = FALSE

(* nb_circadian_core_shell_init: NB_CIRCADIAN_SHELL_BOOTSTRAP_UNIX_S.      *)
NightInit ==
  /\ now = DuskStart /\ lastPhase = PhaseForHour(DuskStart)
  /\ pendingSleep = FALSE /\ pendingWake = FALSE
  /\ body = "IDLE"
  /\ sneezeAge = SneezePause
  /\ wasSleeping = FALSE /\ dreamReady = FALSE /\ wasNight = FALSE /\ gazeReady = FALSE
  /\ dreams = 0 /\ late = FALSE /\ jumped = FALSE

(* nb_circadian_core_shell_tick at hour h: a sleep or a wake-up that is    *)
(* due is offered to the body until it is taken.                           *)
SleepDue(h) == pendingSleep \/ (PhaseForHour(h) = "NIGHT" /\ lastPhase # "NIGHT")
WakeDue(h) == pendingWake \/ (PhaseForHour(h) = "DAWN" /\ lastPhase # "DAWN")
Slept(h) == IF SleepDue(h) THEN After(body, {}, "SLEEP") ELSE body
Woken(h) == IF WakeDue(h) THEN After(Slept(h), {}, "WAKE_HOUR") ELSE Slept(h)

CircadianFrame(h) ==
  /\ now' = h
  /\ lastPhase' = PhaseForHour(h)
  /\ pendingSleep' = IF Slept(h) = "SLEEPING" THEN FALSE ELSE SleepDue(h)
  /\ pendingWake' = IF Woken(h) = "SLEEPING" THEN WakeDue(h) ELSE FALSE
  /\ late' = IF PhaseForHour(h) = "DAWN" /\ lastPhase # "DAWN" THEN pendingSleep ELSE late
  /\ jumped' = IF PhaseForHour(h) = "DAWN" THEN FALSE ELSE jumped

(* nb_rarity_core_tick_*: each may happen when its hour is right and it    *)
(* has not yet; whether it does is a throw of the dice.                    *)
SneezeTick(eligible) ==
  \E sneezes \in BOOLEAN :
    IF sneezes /\ eligible /\ sneezeAge = SneezePause
    THEN sneezeAge' = 0
    ELSE sneezeAge' = IF sneezeAge < SneezePause THEN sneezeAge + 1 ELSE SneezePause

(* Mutant: every frame of sleep makes a dream possible again. *)
DreamTickRearmed(sleeping) ==
  \E dreamt \in BOOLEAN :
    /\ wasSleeping' = sleeping /\ dreamReady' = TRUE
    /\ dreams' = IF ~sleeping THEN 0 ELSE IF dreamt THEN dreams + 1 ELSE dreams
    /\ dreams < 3
DreamTick(sleeping) ==
  LET ready == ~sleeping \/ ~wasSleeping \/ dreamReady
  IN  /\ wasSleeping' = sleeping
      /\ \E dreamt \in BOOLEAN :
           /\ dreamt => sleeping /\ ready
           /\ dreamReady' = (ready /\ ~dreamt)
           /\ dreams' = IF ~sleeping THEN 0 ELSE IF dreamt THEN dreams + 1 ELSE dreams

StargazeTick(night) ==
  LET ready == ~night \/ ~wasNight \/ gazeReady
  IN  /\ wasNight' = night
      /\ \E gazed \in BOOLEAN : (gazed => night /\ ready) /\ gazeReady' = (ready /\ ~gazed)

RarityTick(h) ==
  /\ SneezeTick(body' = "IDLE" /\ PhaseForHour(h) # "NIGHT")
  /\ DreamTick(body' = "SLEEPING")
  /\ StargazeTick(PhaseForHour(h) = "NIGHT" /\ body' = "IDLE")

(* One frame of the face task.  In the quiet mode of the user there is no  *)
(* sneeze either, which is one of the throws.                              *)
NightFrame ==
  \E hours \in {0, Stride} :
    LET h == (now + hours) % 24
    IN  /\ CircadianFrame(h)
        /\ body' \in Moved(Woken(h))
        /\ RarityTick(h)

(* TIME_SYNC, drained from the bus: a new anchor.                          *)
TimeSync ==
  /\ \E h \in Hours : h % Stride = 0 /\ now' = h
  /\ jumped' = TRUE
  /\ UNCHANGED <<lastPhase, pendingSleep, pendingWake, body, rarity, dreams, late>>

(* Power off and on again: nothing is left of the day.                     *)
Restart ==
  /\ now' = DuskStart /\ lastPhase' = PhaseForHour(DuskStart)
  /\ pendingSleep' = FALSE /\ pendingWake' = FALSE
  /\ body' = "IDLE" /\ FreshRarity
  /\ dreams' = 0 /\ late' = FALSE /\ jumped' = FALSE

NightNext == NightFrame \/ TimeSync \/ Restart
NightSpec == NightInit /\ [][NightNext]_nightVars

-----------------------------------------------------------------------------
(* The robot sleeps in the dark, as the end of the dusk and of the dawn    *)
(* promise (circadian_core.h).  In the light it does for one of two        *)
(* reasons only: TIME_SYNC took it past the dawn, or the body was busy all *)
(* night and took its sleep when that was over.                            *)
LightSleepHasACause ==
  body = "SLEEPING" /\ Brightness(now) # NightBrightness => late \/ jumped

(* One dream a sleep (rarity_core.h), however the night is interrupted.    *)
DreamsOnce == dreams <= 1
=============================================================================
