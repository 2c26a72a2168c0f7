------------------------------- MODULE Emotion -------------------------------
(***************************************************************************)
(* A mood and the face it gives (autonomic/emotion_core).  A mood is a     *)
(* point, valence and arousal in hundredths, on a grid of Grid hundredths; *)
(* stimuli push it, time draws it back to the temperament, and the face is *)
(* the blend of five expressions, each weighed by how near its anchor is.  *)
(***************************************************************************)
EXTENDS Face

CONSTANT Grid
ASSUME EmotionAssumption == Grid \in 1..20 /\ 100 % Grid = 0

VARIABLES valence, arousal,
          hub, variant,   \* dominant_hub and the variant drawn when it took over
          mouthActive

moodVars == <<valence, arousal, hub, variant, mouthActive>>

Hubs == <<"NEUTRAL", "HAPPY", "SAD", "ANGRY", "CONTENT">>
Anchors == <<<<0, 0>>, <<70, 30>>, <<-60, -40>>, <<-80, 60>>, <<60, -50>>>>
Temperament == <<10, 5>>

(* The deltas of the stimuli something raises (the reflex table): those of *)
(* touch, voice and timers.                                                *)
Deltas == {<<20, 15>>, <<45, 20>>, <<45, 0>>, <<65, -20>>, <<85, -35>>,
           <<10, 40>>, <<-20, 60>>, <<15, 15>>, <<30, 35>>}

Points == {x \in -100..100 : x % Grid = 0}
OnGrid(x) == CHOOSE y \in Points : y <= x /\ x < y + Grid
Stimulated(x, delta) == OnGrid(ClampF(x + delta, -100, 100))
(* nb_emotion_core_tick: how far a while takes it is not told apart.       *)
Decayed(x, rest) ==
  {y \in Points : \/ x <= y /\ y <= OnGrid(rest)
                  \/ OnGrid(rest) <= y /\ y <= x}

-----------------------------------------------------------------------------
Square(x) == x * x
Distance(i, v, a) == Square(v - Anchors[i][1]) + Square(a - Anchors[i][2])
Dominant(v, a) ==
  CHOOSE i \in DOMAIN Hubs :
    \A j \in DOMAIN Hubs : /\ Distance(i, v, a) <= Distance(j, v, a)
                           /\ j < i => Distance(i, v, a) < Distance(j, v, a)

(* Shepard's weights, in hundredths; on an anchor it is that one alone.    *)
Nearness(i, v, a) == 1000000 \div Distance(i, v, a)
Weights(v, a) ==
  [i \in DOMAIN Hubs |->
     IF Distance(Dominant(v, a), v, a) = 0 THEN IF i = Dominant(v, a) THEN 100 ELSE 0
     ELSE (100 * Nearness(i, v, a)) \div Total([j \in DOMAIN Hubs |-> Nearness(j, v, a)])]

(* apply_variant: a touch of one of two characters on the dominant hub.    *)
Tempered(face, h, way, w) ==
  LET lids(by) == [face EXCEPT !.open_l = @ - Percent(by, w), !.open_r = @ - Percent(by, w)]
      look(by) == [face EXCEPT !.y_l = @ + Percent(by, w), !.y_r = @ + Percent(by, w)]
      mouth(by) == [face EXCEPT !.mouth_open = @ + Percent(by, w)]
      scowl(by) == [face EXCEPT !.squint_l = @ + by, !.squint_r = @ + by]
      f == CASE h = "NEUTRAL" -> IF way = "A" THEN lids(5) ELSE look(-5)
             [] h = "HAPPY"   -> IF way = "A" THEN mouth(15) ELSE mouth(-15)
             [] h = "SAD"     -> IF way = "A" THEN look(5)
                                 ELSE [face EXCEPT !.x_off = @ + Percent(10, w)]
             [] h = "ANGRY"   -> IF way = "A" THEN scowl(-Percent(face.squint_l, Percent(30, w)))
                                 ELSE scowl(Percent(15, w))
             [] h = "CONTENT" -> IF way = "A" THEN lids(10) ELSE mouth(10)
  IN  [f EXCEPT !.open_l = ClampF(@, 0, 100), !.open_r = ClampF(@, 0, 100),
                !.mouth_open = ClampF(@, 0, 100),
                !.squint_l = ClampF(@, 0, 200), !.squint_r = ClampF(@, 0, 200)]

(* apply_mouth_gate: the mouth comes at .40 of feeling and goes under .30. *)
Feeling(v, a) == CHOOSE n \in 0..142 : Square(n) <= Square(v) + Square(a)
                                       /\ Square(v) + Square(a) < Square(n + 1)
GateOpen(open, v, a) ==
  IF open THEN Feeling(v, a) >= 30 ELSE Feeling(v, a) >= 40
MouthScale(open, v, a) ==
  IF open THEN ClampF(((Feeling(v, a) - 30) * 100) \div 40, 0, 100) ELSE 0

(* nb_emotion_core_resolve_face *)
ResolvedFace ==
  LET w == Weights(valence, arousal)
      blend == Blend([i \in DOMAIN Hubs |-> Expression(Hubs[i])], w)
      scale == MouthScale(mouthActive, valence, arousal)
  IN  [Tempered(blend, Hubs[hub], variant, w[hub])
         EXCEPT !.mouth_open = Percent(@, scale), !.mouth_curve = Percent(@, scale)]

-----------------------------------------------------------------------------
Unresolved == 0   \* ~has_dominant_hub: no frame was drawn yet
MoodInit ==
  /\ valence = 0 /\ arousal = 0
  /\ hub = Unresolved /\ variant = "A" /\ mouthActive = FALSE

(* A frame: what was raised, then the face, which keeps the hub and mouth. *)
Resolve ==
  /\ hub' = Dominant(valence', arousal')
  /\ variant' \in IF hub' = hub THEN {variant} ELSE {"A", "B"}
  /\ mouthActive' = GateOpen(mouthActive, valence', arousal')

MoodStimulus ==
  /\ \E d \in Deltas : /\ valence' = Stimulated(valence, d[1])
                       /\ arousal' = Stimulated(arousal, d[2])
  /\ Resolve
MoodDecay ==
  /\ valence' \in Decayed(valence, Temperament[1])
  /\ arousal' \in Decayed(arousal, Temperament[2])
  /\ Resolve

MoodNext == MoodStimulus \/ MoodDecay
MoodSpec == MoodInit /\ [][MoodNext]_moodVars

-----------------------------------------------------------------------------
(* Everything laid over the mood before it is drawn: the lids of the idle  *)
(* engine, a beat of an arc and how far it has gone, where the head looks. *)
Beats == {<<"NONE", 0>>, <<"ANGRY", 0>>, <<"BLINK_GAZE_AWAY", 0>>, <<"BLINK_GAZE_AWAY", 50>>,
          <<"NEUTRAL_HAPPY", 0>>, <<"GAZE_FRONT", 50>>, <<"SMOOTHING", 50>>,
          <<"CONTENT_SLOW_BLINK", 0>>, <<"ORIENT", 0>>, <<"FOUND", 0>>, <<"NOT_FOUND_SIGH", 50>>}
Pose(mood, lids, beat, side) ==
  [face |-> Overlay(Lids(mood, lids), beat[1], beat[2]),
   gaze_x |-> side * 40, gaze_y |-> -55 * side, tilt |-> side * 8,
   width_l |-> 100 + 3 * side, width_r |-> 100 - 3 * side]

Inside(a, b) ==
  IsEmpty(a) \/ (b.x <= a.x /\ b.y <= a.y /\ Right(a) <= Right(b) /\ Bottom(a) <= Bottom(b))

(* Whatever is drawn is inside the rectangle the renderer gives for it,    *)
(* and each of those inside the dirty rectangle of the frame.              *)
DrawnInside(mood) ==
  \A beat \in Beats, lids \in {100, 110}, side \in {-1, 1} :
    LET pose == Pose(mood, lids, beat, side)
        dirty == FaceDirty(pose)
    IN  /\ \A s \in {"l", "r"} : LET eye == EyeDirty(Eye(pose, s))
                                IN  Inside(EyeBox(pose, s), eye) /\ Inside(eye, dirty)
        /\ Inside(MouthBox(pose), MouthDirty(Mouth(pose)))
        /\ Inside(MouthDirty(Mouth(pose)), dirty)

(* Whatever the mood, the arc and the gaze, the face is drawn inside the   *)
(* dirty rectangle of the renderer: nothing of it escapes the flush.       *)
FaceInsideDirty == hub # Unresolved => DrawnInside(ResolvedFace)
=============================================================================
