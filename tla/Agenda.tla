------------------------------- MODULE Agenda -------------------------------
(***************************************************************************)
(* The timers and the clock they go by, in the face task (main.c): each    *)
(* frame ticks the clock, drains the bus (which may hold a TIME_SYNC,      *)
(* TIMER_SET or TIMER_CANCEL of the mind), ticks the timers, and then has  *)
(* each one that fired take effect.  The robot may reset between any two   *)
(* of these steps.  The unit of time is what a frame adds to the clock     *)
(* (33 ms, 240 times accelerated); the clock is an anchor and what went by *)
(* since.  A reset always finds it at 20:00: it is saved every 30 s, under *)
(* a key one character longer than NVS takes, so that each write fails.    *)
(***************************************************************************)
EXTENDS Schedule, FiniteSets

CONSTANTS MaxTime,        \* bound of the clock
          Bootstrap       \* NB_CIRCADIAN_SHELL_BOOTSTRAP_UNIX_S

ASSUME AgendaAssumption == MaxTime \in Nat /\ Bootstrap \in 0..MaxTime

VARIABLES now,            \* nb_circadian_core_now_unix_ms
          step,           \* what the face task does next
          hand            \* fired_timer_ids, by the slot they were in

vars == <<svars, now, step, hand>>

Times == 0..MaxTime
Steps == {"clock", "drain", "schedule", "ring"}

Init ==
  /\ ScheduleInit
  /\ now = Bootstrap
  /\ step = "clock" /\ hand = Empty

-----------------------------------------------------------------------------
(* nb_circadian_core_shell_tick: the time a frame adds may round to none.  *)
ClockTick ==
  /\ step = "clock" /\ step' = "drain"
  /\ now' \in {now, now + 1} \cap Times
  /\ UNCHANGED <<svars, hand>>

(* The drain of nb_reflex_engine_shell_tick, event by event. *)
TimeSync(t) ==
  /\ step = "drain"
  /\ now' = t
  /\ UNCHANGED <<svars, step, hand>>

TimerSet(id, at) ==
  /\ step = "drain" /\ HandleSet(id, at)
  /\ UNCHANGED <<now, step, hand>>

TimerCancel(id) ==
  /\ step = "drain" /\ HandleCancel(id)
  /\ UNCHANGED <<now, step, hand>>

Drained ==
  /\ step = "drain" /\ step' = "schedule"
  /\ UNCHANGED <<svars, now, hand>>

FireDue ==
  /\ step = "schedule" /\ step' = "ring"
  /\ ScheduleTick(now) /\ hand' = Fired(now)
  /\ UNCHANGED now

(* The body of the loop over what fired: the reflex, and the word to the   *)
(* mind.                                                                   *)
InHand == {i \in Slots : hand[i] # Free}
Ring ==
  /\ step = "ring"
  /\ \E i \in First(InHand) : hand' = [hand EXCEPT ![i] = Free]
  /\ UNCHANGED <<svars, now, step>>

FrameEnds ==
  /\ step = "ring" /\ InHand = {} /\ step' = "clock"
  /\ UNCHANGED <<svars, now, hand>>

(* A reset, and the two init calls of app_main: no time is saved. *)
Restart ==
  /\ ScheduleRestart
  /\ now' = Bootstrap /\ step' = "clock" /\ hand' = Empty

Face == ClockTick \/ Drained \/ FireDue \/ Ring \/ FrameEnds

Next ==
  \/ Face
  \/ \E t \in Times : TimeSync(t)
  \/ \E id \in Ids : TimerCancel(id) \/ \E at \in FireTimes : TimerSet(id, at)
  \/ Restart

Spec == Init /\ [][Next]_vars

(* The face task loops for ever, whatever the bus holds. *)
FairSpec == Spec /\ WF_vars(Face)
-----------------------------------------------------------------------------
TypeOK ==
  /\ ScheduleType
  /\ now \in Times /\ step \in Steps
  /\ hand \in [Slots -> Timer \cup {Free}]

(* Flash holds what memory holds, unless the flash itself just failed:     *)
(* whatever is set, cancelled or fired, a restart finds it so.             *)
FlashAgrees == ~stale => flash = slots

(* The timers implement the abstract alarm clock, across restarts: none is *)
(* early, doubled, or forgotten by anything but its ring.                  *)
TimeOf(array, id) ==
  IF \E i \in Slots : array[i].id = id
  THEN array[CHOOSE i \in Slots : array[i].id = id].at ELSE -1
Alarms == INSTANCE AlarmClock WITH
            Room <- MaxTimers, time <- now,
            pending <- [id \in Ids |-> TimeOf(slots, id)],
            saved <- [id \in Ids |-> TimeOf(flash, id)],
            ringing <- {hand[i].id : i \in InHand}
KeepsAlarms == Alarms!Spec

(* A timer that is due leaves the array, whatever the mind goes on sending *)
(* and however long the clock stands still, once resets stop.              *)
Overdue(i) == slots[i] # Free /\ slots[i].at <= now
DueFires ==
  <>[][~Restart]_vars => \A i \in Slots : Overdue(i) ~> ~Overdue(i)
=============================================================================
