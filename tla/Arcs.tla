-------------------------------- MODULE Arcs --------------------------------
(***************************************************************************)
(* The small stories the face task tells over the body's states: the       *)
(* outburst after three taps (grumpy_forgive), the peace made by a caress  *)
(* (reconcile), both in three acts (arc_core), and the glyph at a peak of  *)
(* feeling (peak_core).  Each operator below is what one of them does in   *)
(* one frame of main.c; times are in the unit of Dt, one frame.            *)
(***************************************************************************)
EXTENDS Integers, FiniteSets

(* arc_core: the clock of an arc is kept as what is left of it, the time   *)
(* spent in the act and the time its cooldown still lasts.  A plan gives   *)
(* the length of each act and of the cooldown; the code keeps it in the    *)
(* arc from start to end.                                                  *)
Acts == {"ORIENT", "EXECUTE", "OUTCOME"}
Following == [ORIENT |-> "EXECUTE", EXECUTE |-> "OUTCOME"]
Plan(orient, execute, outcome, cooldown) ==
  [ORIENT |-> orient, EXECUTE |-> execute, OUTCOME |-> outcome, REST |-> cooldown]

IdleArc == [phase |-> "IDLE", spent |-> 0, rest |-> 0]
Running(arc) == arc.phase # "IDLE"
InCooldown(arc) == ~Running(arc) /\ arc.rest > 0

StartArc(arc) ==
  IF Running(arc) \/ InCooldown(arc) THEN arc ELSE [IdleArc EXCEPT !.phase = "ORIENT"]

(* One turn of the loop of nb_arc_core_tick: what an act did not use is    *)
(* carried into the next; the end of the outcome arms the cooldown.        *)
Passed(arc, plan) ==
  IF ~Running(arc) \/ arc.spent < plan[arc.phase] THEN arc
  ELSE IF arc.phase = "OUTCOME" THEN [IdleArc EXCEPT !.rest = plan.REST]
  ELSE [arc EXCEPT !.phase = Following[@], !.spent = @ - plan[arc.phase]]

TickArc(arc, plan, dt) ==
  LET later == IF Running(arc) THEN [arc EXCEPT !.spent = @ + dt]
               ELSE [arc EXCEPT !.rest = IF @ > dt THEN @ - dt ELSE 0]
  IN  Passed(Passed(Passed(later, plan), plan), plan)

AbortArc(arc) == [arc EXCEPT !.phase = "IDLE", !.spent = 0]

-----------------------------------------------------------------------------
CONSTANTS Dt,            \* NB_APP_MAIN_FACE_DEMO_TICK_MS
          TapWindow,     \* NB_GRUMPY_FORGIVE_TAP_WINDOW_MS
          GrumpyPlan,                       \* NB_GRUMPY_FORGIVE_*_MS
          ReconcilePlan,                    \* NB_RECONCILE_*_MS
          PeakHold       \* NB_PEAK_HOLD_MS

ASSUME ArcsAssumption ==
  /\ Dt \in Nat \ {0} /\ TapWindow \in Nat /\ PeakHold \in Nat
  /\ \A plan \in {GrumpyPlan, ReconcilePlan} : plan \in [Acts \cup {"REST"} -> Nat]
  /\ GrumpyPlan.EXECUTE > Dt /\ ReconcilePlan.ORIENT > Dt
  /\ ReconcilePlan.OUTCOME > Dt /\ ReconcilePlan.REST = 0

Threshold == 3    \* NB_GRUMPY_FORGIVE_TAP_THRESHOLD
(* Ages stop counting once they are past what they are compared with.      *)
Upto(n, limit) == IF n > limit THEN limit ELSE n
Older(age, limit) == Upto(age + Dt, limit + 1)

-----------------------------------------------------------------------------
(* grumpy_forgive: a ring of the ages of the last taps, and the arc.       *)
Calm == [arc |-> IdleArc, ages |-> [i \in 0..Threshold - 1 |-> 0], count |-> 0, slot |-> 0]

(* Mutant: the age is compared before the slot moves on to the oldest.     *)
OnTapLatest(g) ==
  LET ages == [g.ages EXCEPT ![g.slot] = 0]
      count == IF g.count < Threshold THEN g.count + 1 ELSE g.count
  IN  [arc |-> IF count = Threshold /\ ages[g.slot] <= TapWindow THEN StartArc(g.arc) ELSE g.arc,
       ages |-> ages, count |-> count, slot |-> (g.slot + 1) % Threshold]
OnTap(g) ==
  LET ages == [g.ages EXCEPT ![g.slot] = 0]
      count == IF g.count < Threshold THEN g.count + 1 ELSE g.count
      slot == (g.slot + 1) % Threshold
  IN  [arc |-> IF count = Threshold /\ ages[slot] <= TapWindow THEN StartArc(g.arc) ELSE g.arc,
       ages |-> ages, count |-> count, slot |-> slot]

(* The taps the reflex shell drains in a frame, at most two, then the tick.*)
GrumpyFrame(g, taps) ==
  LET aged == [g EXCEPT !.ages = [i \in DOMAIN @ |-> Older(@[i], TapWindow)]]
      hit == CASE taps = 0 -> aged [] taps = 1 -> OnTap(aged)
               [] taps = 2 -> OnTap(OnTap(aged))
  IN  [hit EXCEPT !.arc = TickArc(@, GrumpyPlan, Dt)]

-----------------------------------------------------------------------------
(* reconcile: started by a caress in a bad mood, dropped if the caress     *)
(* stops before the outcome; whether it goes on is looked at on the way in.*)
AtPeace == [arc |-> IdleArc, heart |-> FALSE]

(* Mutant: the caress may stop once the smoothing has begun.               *)
ReconcileTickLenient(r, negative, caress) ==
  LET ticked == TickArc(r.arc, ReconcilePlan, Dt)
  IN  IF ~Running(r.arc)
      THEN [r EXCEPT !.arc = TickArc(IF negative /\ caress THEN StartArc(@) ELSE @,
                                     ReconcilePlan, Dt)]
      ELSE IF ticked.phase # "OUTCOME"
      THEN [r EXCEPT !.arc = IF ~caress /\ ticked.phase = "ORIENT" THEN AbortArc(ticked)
                             ELSE ticked]
      ELSE [arc |-> ticked, heart |-> IF r.arc.phase # "OUTCOME" THEN caress ELSE r.heart]
ReconcileTick(r, negative, caress) ==
  LET ticked == TickArc(r.arc, ReconcilePlan, Dt)
  IN  IF ~Running(r.arc)
      THEN [r EXCEPT !.arc = TickArc(IF negative /\ caress THEN StartArc(@) ELSE @,
                                     ReconcilePlan, Dt)]
      ELSE IF ticked.phase # "OUTCOME"
      THEN [r EXCEPT !.arc = IF caress THEN ticked ELSE AbortArc(ticked)]
      ELSE [arc |-> ticked, heart |-> IF r.arc.phase # "OUTCOME" THEN caress ELSE r.heart]

(* nb_reconcile_current_beat = NB_RECONCILE_BEAT_CONTENT_SLOW_BLINK_HEART *)
Heart(r) == r.arc.phase = "OUTCOME" /\ r.heart

-----------------------------------------------------------------------------
(* peak_core: one slot; the glyph of sleep stays while it is asked for,    *)
(* any other for PeakHold, and nothing else enters meanwhile.              *)
NoPeak == [active |-> "NONE", shown |-> 0]

PeakTick(p, requested) ==
  LET shown == p.shown + Dt
  IN  CASE p.active = "NONE" -> [active |-> requested, shown |-> 0]
        [] p.active = "ZZZ" -> IF requested = "ZZZ" THEN p ELSE NoPeak
        [] OTHER -> IF shown >= PeakHold THEN NoPeak ELSE [p EXCEPT !.shown = shown]

(* nb_peak_tears_trigger_tick: intensity is "low" under the exit, "high"   *)
(* from the entry on.                                                      *)
Intensities == {"low", "between", "high"}
Rearmed(armed, intensity) == armed \/ intensity = "low"
TearsDue(armed, sad, intensity) == Rearmed(armed, intensity) /\ sad /\ intensity = "high"

PeakRequested(r, tears, state) ==
  CASE Heart(r) -> "HEART"
    [] ~Heart(r) /\ tears -> "TEARS"
    [] ~Heart(r) /\ ~tears /\ state = "SLEEPING" -> "ZZZ"
    [] OTHER -> "NONE"

(* main.c: entering IDLE clears the slot, in the frame it happens.         *)
PeakFrame(p, requested, before, after) ==
  IF after = "IDLE" /\ before # "IDLE" THEN NoPeak ELSE PeakTick(p, requested)

-----------------------------------------------------------------------------
VARIABLES grumpy,   \* the ring and the arc of grumpy_forgive
          tapped,   \* history: the taps of the last TapWindow
          reconcile, peak, armed,  \* their states; armed is that of the tears
          awake,    \* the state of the body
          held, sinceHeld  \* history: how long the caress has lasted; since
                           \* when it had lasted for the whole of the peace

outburstVars == <<grumpy, tapped>>
peaceVars == <<reconcile, peak, armed, awake, held, sinceHeld>>

OutburstInit == grumpy = Calm /\ tapped = {}

(* A tap is its age and its number in its frame. *)
Recent(taps) == {tap \in taps : tap[1] + Dt <= TapWindow}
OlderTaps(taps) == {<<tap[1] + Dt, tap[2]>> : tap \in Recent(taps)}

OutburstFrame ==
  \E taps \in 0..2 :
    /\ grumpy' = GrumpyFrame(grumpy, taps)
    /\ tapped' = OlderTaps(tapped) \cup {<<0, n>> : n \in 1..taps}

OutburstSpec == OutburstInit /\ [][OutburstFrame]_outburstVars

(* The outburst comes exactly when it was earned: in the frame of a tap    *)
(* that makes three within the window, and never while it runs or rests.   *)
OutburstIsEarned ==
  [][~Running(grumpy.arc) =>
       (Running(grumpy'.arc) <=>
          <<0, 1>> \in tapped' /\ Cardinality(tapped') >= Threshold /\ ~InCooldown(grumpy.arc))]_outburstVars

-----------------------------------------------------------------------------
(* The part of the peace a caress must last through. *)
Whole == ReconcilePlan.ORIENT + ReconcilePlan.EXECUTE
Bodies == {"IDLE", "SLEEPING", "TOUCH_REACTING"}

PeaceInit ==
  /\ reconcile = AtPeace /\ peak = NoPeak /\ armed = TRUE /\ awake = "IDLE"
  /\ held = 0 /\ sinceHeld = Whole + 1

PeaceFrame ==
  \E negative, caress, sad \in BOOLEAN, intensity \in Intensities, body \in Bodies :
    LET r == ReconcileTick(reconcile, negative, caress)
        tears == TearsDue(armed, sad, intensity)
    IN  /\ reconcile' = r
        /\ armed' = (Rearmed(armed, intensity) /\ ~tears)
        /\ awake' = body
        /\ peak' = PeakFrame(peak, PeakRequested(r, tears, body), awake, body)
        /\ held' = IF caress THEN Upto(held + Dt, Whole) ELSE 0
        /\ sinceHeld' = IF held' = Whole THEN 0 ELSE Older(sinceHeld, Whole)

PeaceSpec == PeaceInit /\ [][PeaceFrame]_peaceVars

(* The heart is shown only for a caress that lasted, without a pause,      *)
(* through the whole of the peace, and before its last act is over.        *)
HeartIsEarned ==
  [][peak'.active = "HEART" /\ peak.active # "HEART" => sinceHeld' <= ReconcilePlan.OUTCOME]_peaceVars
=============================================================================
