-------------------------------- MODULE Idle --------------------------------
(***************************************************************************)
(* The small life of a face at rest (autonomic/idle_engine): a gaze that   *)
(* rests and leaps, and one slot for a motif of the lids.  A blink is due  *)
(* when the clock, 32 bits of milliseconds, has reached a deadline, or     *)
(* because the gaze leaps.  A named gesture, whose clock is its own, may   *)
(* come at any tick.  The posture is left out: it only moves the face.     *)
(***************************************************************************)
EXTENDS Integers

CONSTANTS Tick,        \* dt_ms
          Wrap,        \* 2^32 ms: now_ms + 1 of the greatest is 0
          BlinkPauses, \* what sample_next_blink_ms may draw
          MinPause, LongestPause,      \* its bounds, drowsy or quiet
          BlinkBar, DoubleBlink,       \* how long each kind of blink may last
          CheckIn, SlowBlink, Sigh,    \* NB_IDLE_*_DURATION_MS
          Fixation, SaccadeTime,       \* NB_ATTENTION_*
          Openings     \* hundredths that mood, breath and drowsiness leave

ASSUME IdleAssumption ==
  /\ Tick \in 1..49
  /\ BlinkBar \subseteq 80..119 /\ DoubleBlink \subseteq 600..1199
  /\ {MinPause, LongestPause, Wrap} \subseteq Nat
  /\ \A lasts \in BlinkBar \cup DoubleBlink : lasts + Tick <= MinPause
  /\ \A pause \in BlinkPauses : pause \in Nat /\ MinPause <= pause /\ pause <= LongestPause
  /\ Tick <= MinPause /\ MinPause <= LongestPause /\ LongestPause < Wrap
  /\ CheckIn \in Nat /\ CheckIn > 150 /\ SlowBlink \in 200..650
  /\ {Sigh, Fixation, SaccadeTime} \subseteq Nat /\ SaccadeTime > 0
  /\ Openings \subseteq 30..100

VARIABLES motif,      \* active_motif, the time in it and how long it lasts
          nowMs,      \* now_ms
          nextBlink,  \* next_blink_at_ms
          gaze,       \* attention_v2
          shutFrames  \* history: frames in a row with the eyes shut

idleVars == <<motif, nowMs, nextBlink, gaze, shutFrames>>

Motif(kind, lasts) == [kind |-> kind, elapsed |-> 0, lasts |-> lasts]
NoMotif == Motif("NONE", 0)
Blinks == {Motif("BLINK_BAR", t) : t \in BlinkBar}
          \cup {Motif("DOUBLE_BLINK", t) : t \in DoubleBlink}
Gestures == {Motif("CHECK_IN", CheckIn), Motif("SLOW_BLINK", SlowBlink), Motif("SIGH", Sigh)}

(* An addition of two times, in 32 bits. *)
Wrapped(time) == IF time >= Wrap THEN time - Wrap ELSE time
(* sample_next_blink_ms, at a time t. *)
Deadlines(t) == {Wrapped(t + pause) : pause \in BlinkPauses}

-----------------------------------------------------------------------------
(* nb_attention: rest, then leap to a new target.  It reads the clock only *)
(* as a difference, so an age is as good.  Where the gaze is on the way is *)
(* left out: it only moves the face.                                       *)
Still == [moving |-> FALSE, age |-> 0]
Leap == [moving |-> TRUE, age |-> 0]

(* What a tick can make of it; the time of rest is drawn at random.        *)
Gazes ==
  LET limit == IF gaze.moving THEN SaccadeTime ELSE Fixation
      age == IF gaze.age + Tick > limit THEN limit ELSE gaze.age + Tick
      on == [gaze EXCEPT !.age = age]
  IN  CASE age < limit -> {on}
        [] age >= limit /\ gaze.moving -> {Still}
        [] OTHER -> {on, Leap}

-----------------------------------------------------------------------------
(* compute_output: what a motif makes of the opening of the lids, in       *)
(* hundredths.  The gestures come and go along 3x^2 - 2x^3; the slow blink *)
(* along a parabola, which closes no less around its middle than the sine. *)
Smooth(x) == (x * x * (3000 - 2 * x)) \div 1000000
Least(a, b) == IF a < b THEN a ELSE b
Envelope(m) == LET edge == Least(m.elapsed, m.lasts - m.elapsed)
               IN  IF edge < 200 THEN Smooth(5 * edge) ELSE 1000
Openness(m) ==
  LET left == m.lasts - m.elapsed
  IN  CASE m.kind = "BLINK_BAR" -> 0
        [] m.kind = "DOUBLE_BLINK" -> IF m.elapsed < 100 \/ left <= 100 THEN 0 ELSE 100
        [] m.kind = "CHECK_IN" ->
             IF left \in 51..150 THEN 0 ELSE 100 + (8 * Envelope(m)) \div 1000
        [] m.kind = "SLOW_BLINK" -> 100 - (400 * m.elapsed * left) \div (m.lasts * m.lasts)
        [] OTHER -> 100

(* What is drawn as a line: under three hundredths of an eye, once the     *)
(* motif has multiplied the opening that mood, breath and drowsiness leave.*)
Shut(m, open) == Openness(m) * open < 300

(* A single blink takes 80 ms and up to 40 more; a slow blink is a line    *)
(* for under a third of its 650 ms, even on the most closed of moods.      *)
LongestClosure(m) == IF m.kind = "SLOW_BLINK" THEN 200 ELSE 120

-----------------------------------------------------------------------------
IdleInit ==
  /\ motif = NoMotif /\ nowMs = 0 /\ nextBlink \in Deadlines(0)
  /\ gaze = Still
  /\ shutFrames = 0

(* Mutant: a blink that a leap of the gaze starts draws no new pause. *)
SaccadeBlinkForgets(m, at, t, leaps) ==
  IF leaps /\ m.kind = "NONE" THEN Blinks \X {at} ELSE {<<m, at>>}
(* on_attention_saccade: the slot, and the deadline, after a leap.         *)
SaccadeBlink(m, at, t, leaps) ==
  IF leaps /\ m.kind = "NONE" THEN Blinks \X Deadlines(t) ELSE {<<m, at>>}

(* A free slot is for the blink that is due, then for a gesture.           *)
NextMotif(m, at, t) ==
  CASE m.kind # "NONE" -> {<<m, at>>}
    [] m.kind = "NONE" /\ t >= at -> Blinks \X Deadlines(t)
    [] OTHER -> ({m} \cup Gestures) \X {at}

Expired(m) == IF m.kind # "NONE" /\ m.elapsed >= m.lasts THEN NoMotif ELSE m

(* nb_idle_engine_tick: the clock; the gaze, and its blink, before a motif *)
(* expires; then the slot.                                                 *)
IdleTick ==
  LET on == IF motif.kind = "NONE" THEN motif ELSE [motif EXCEPT !.elapsed = @ + Tick]
  IN  /\ nowMs' = Wrapped(nowMs + Tick)
      /\ gaze' \in Gazes
      /\ \E leapt \in SaccadeBlink(on, nextBlink, nowMs', gaze' = Leap) :
           \E chosen \in NextMotif(Expired(leapt[1]), leapt[2], nowMs') :
             motif' = chosen[1] /\ nextBlink' = chosen[2]
      /\ \E open \in Openings :
           shutFrames' = IF Shut(motif', open) THEN shutFrames + 1 ELSE 0

-----------------------------------------------------------------------------
IdleSpec == IdleInit /\ [][IdleTick]_idleVars

(* A blink that began where the next deadline may be past the end of the   *)
(* clock: compared as it is with now_ms, that deadline is due at once.     *)
Began == nowMs - motif.elapsed
BeganAtWrap ==
  motif.kind \in {"BLINK_BAR", "DOUBLE_BLINK"} /\ (Began < 0 \/ Began + LongestPause >= Wrap)

(* The eyes open again: no chain of blinks and gestures, whatever starts   *)
(* the next one, keeps them shut for longer than a single closure.  Only   *)
(* the blinks of the last moments before the clock wraps may, as one of    *)
(* them may follow another.                                                *)
EyesReopen == (shutFrames - 1) * Tick < LongestClosure(motif) \/ BeganAtWrap
=============================================================================
