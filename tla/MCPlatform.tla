----------------------------- MODULE MCPlatform ------------------------------
(***************************************************************************)
(* What carries the robot: the display, the boot with its settings, the    *)
(* log and the watchdog.  They share no state; a behaviour moves one of    *)
(* them, `part`, and the states of a run are their union.                  *)
(***************************************************************************)
EXTENDS Display, Boot, Upkeep

VARIABLE part
platformVars == <<part, vars, bootVars, loggerVars, watchdogVars>>

PlatformInit ==
  /\ part \in {"panel", "boot", "log", "watchdog"}
  /\ Init /\ BootInit /\ LoggerInit /\ WatchdogInit

Panel(A) == part = "panel" /\ A /\ UNCHANGED <<part, bootVars, loggerVars, watchdogVars>>
Booting == part = "boot" /\ BootNext /\ UNCHANGED <<part, vars, loggerVars, watchdogVars>>
Logging == part = "log" /\ LoggerNext /\ UNCHANGED <<part, vars, bootVars, watchdogVars>>
Watching == part = "watchdog" /\ WatchdogNext /\ UNCHANGED <<part, vars, bootVars, loggerVars>>

PlatformNext == Panel(Next) \/ Booting \/ Logging \/ Watching

(* The fairness of the display: FairSpec. *)
PlatformSpec ==
  /\ PlatformInit /\ [][PlatformNext]_platformVars
  /\ WF_platformVars(Panel(Flush)) /\ WF_platformVars(Panel(TransDone))

-----------------------------------------------------------------------------
(* Values: a clock of seven milliseconds, so that it wraps twice; a ring of *)
(* three lines; a volume of nothing, of a half and of all.                 *)
(* A panel of 8 x 6 pixels, cache lines of two, a staging buffer of two    *)
(* full rows, and three faces: two overlap, one lies at the edge, and the  *)
(* rectangle of one reaches past the cells it lights.                      *)
Box(x, y, w, h) == [x |-> x, y |-> y, w |-> w, h |-> h]
MCDirtyBy == [high |-> Box(1, 0, 5, 3), low |-> Box(3, 2, 2, 3), edge |-> Box(7, 4, 3, 4)]
MCPoses == DOMAIN MCDirtyBy
MCLitBy == [high |-> Touched(Box(2, 1, 3, 1)), low |-> Touched(Box(3, 2, 2, 3)),
            edge |-> Touched(Box(7, 4, 1, 2))]
MCPowerOn == {{}, Cells, Touched(Box(0, 0, 2, 6))}
=============================================================================
