----------------------------- MODULE MCCharacter -----------------------------
(***************************************************************************)
(* The character of the robot: what the face task runs in every frame      *)
(* beside the reflexes (main.c, nb_app_main_face_demo_task): the day, the  *)
(* idle motifs, the outburst, the peace and the mood.  They do not share   *)
(* state: what one reads of another, of the body or of the user is an      *)
(* input that each takes from all it could be.  A behaviour therefore      *)
(* moves one of them, `part`, and the states of a run are their union.     *)
(***************************************************************************)
EXTENDS Night, Idle, Arcs, Emotion

VARIABLE part
vars == <<part, nightVars, idleVars, outburstVars, peaceVars, moodVars>>

Parts == {"night", "idle", "outburst", "peace", "mood"}

Init ==
  /\ part \in Parts
  /\ NightInit /\ IdleInit /\ OutburstInit /\ PeaceInit /\ MoodInit

Day == part = "night" /\ NightNext /\ UNCHANGED <<idleVars, outburstVars, peaceVars, moodVars>>
AtRest == part = "idle" /\ IdleTick /\ UNCHANGED <<nightVars, outburstVars, peaceVars, moodVars>>
Outburst == part = "outburst" /\ OutburstFrame /\ UNCHANGED <<nightVars, idleVars, peaceVars, moodVars>>
Peace == part = "peace" /\ PeaceFrame /\ UNCHANGED <<nightVars, idleVars, outburstVars, moodVars>>
Mood == part = "mood" /\ MoodNext /\ UNCHANGED <<nightVars, idleVars, outburstVars, peaceVars>>

Next == (Day \/ AtRest \/ Outburst \/ Peace \/ Mood) /\ UNCHANGED part
Spec == Init /\ [][Next]_vars

-----------------------------------------------------------------------------
(* The durations of the idle engine and the sizes of the panel are those   *)
(* of the code; the rests of the gaze, the sigh and the lengths of the     *)
(* arcs are a few ticks, so that they meet each other in every order, and  *)
(* the clock of the lids wraps after a pause and a half.                   *)
MCGrumpyPlan == Plan(0, 2, 2, 3)
MCReconcilePlan == Plan(2, 3, 2, 0)
=============================================================================
