----------------------------- MODULE BodyProofs -----------------------------
(***************************************************************************)
(* What goes through the state machine of the body: its reactions, for     *)
(* every size of the bus and every division of a press into phases, and    *)
(* its nights, for every stride of the clock and pause between sneezes;    *)
(* then what its face does meanwhile, for every length of its gestures,    *)
(* and what it draws, for every grid of the mood and every panel.          *)
(***************************************************************************)
EXTENDS Body, Night, Idle, Arcs, Emotion,
        SequenceTheorems, FiniteSetTheorems, WellFoundedInduction, TLAPS

IInv == TypeOK /\ TurnsEnd /\ PressesNoticed

Alive == FsmStates \ {"BOOT", "ERROR", "SAFE_MODE"}
Sent == {"WAKE", "TOUCH", "TOUCH_END", "SAY_START", "SAY_END",
         "SERVER_DROPPED", "SLEEP", "WAKE_HOUR"}

-----------------------------------------------------------------------------
(* The state machine. *)

(* A state and an event have at most one edge. *)
LEMMA OneEdge ==
  ASSUME NEW s, NEW e, NEW a, NEW b, <<s, e, a>> \in Edges, <<s, e, b>> \in Edges
  PROVE  a = b
BY DEF Edges, OwnEdges, SayEdges

LEMMA AfterEdge ==
  ASSUME NEW s \in Alive, NEW e \in Sent
  PROVE  /\ \A to \in FsmStates : <<s, e, to>> \in Edges => After(s, modes, e) = to
         /\ (\A to \in FsmStates : <<s, e, to>> \notin Edges) => After(s, modes, e) = s
<1>1. /\ ~(e = "FAULT_CRITICAL" /\ s # "SAFE_MODE")
      /\ ~(e = "FAULT" /\ s # "SAFE_MODE")
      /\ ~(s = "SLEEPING" /\ e = "WAKE" /\ "QUIET" \in modes)
  BY DEF Sent, modes
<1>2. After(s, modes, e) =
        IF \E to \in FsmStates : <<s, e, to>> \in Edges
        THEN CHOOSE to \in FsmStates : <<s, e, to>> \in Edges
        ELSE s
  BY <1>1 DEF After
<1>3. ASSUME NEW to \in FsmStates, <<s, e, to>> \in Edges
      PROVE  After(s, modes, e) = to
  <2> DEFINE picked == CHOOSE t \in FsmStates : <<s, e, t>> \in Edges
  <2>1. <<s, e, picked>> \in Edges  BY <1>3, Zenon
  <2>2. picked = to  BY <2>1, <1>3, OneEdge
  <2>3. QED  BY <2>2, <1>2, <1>3, Zenon
<1>4. QED  BY <1>2, <1>3, Zenon

(* What the body may come to be in: nothing sends it to BOOT, ERROR or     *)
(* SAFE_MODE, only the start of a turn makes it speak, and only a touch    *)
(* makes it react to touch.                                                *)
LEMMA AfterLands ==
  ASSUME NEW s \in Alive, NEW e \in Sent
  PROVE  /\ After(s, modes, e) \in Alive
         /\ After(s, modes, e) = "RESPONDING" =>
              e = "SAY_START" \/ (s = "RESPONDING" /\ e \notin {"SAY_END", "SERVER_DROPPED"})
         /\ After(s, modes, e) = "TOUCH_REACTING" =>
              e = "TOUCH" \/ (s = "TOUCH_REACTING" /\ e # "TOUCH_END")
<1>1. CASE \E to \in FsmStates : <<s, e, to>> \in Edges
  <2>1. PICK to \in FsmStates : <<s, e, to>> \in Edges  BY <1>1
  <2>2. After(s, modes, e) = to  BY <2>1, AfterEdge
  <2>3. /\ to \in Alive
        /\ to = "RESPONDING" => e = "SAY_START"
        /\ to = "TOUCH_REACTING" => e = "TOUCH"
    BY <2>1 DEF Edges, OwnEdges, SayEdges, Alive, FsmStates, Sent
  <2>4. QED  BY <2>2, <2>3
<1>2. CASE \A to \in FsmStates : <<s, e, to>> \notin Edges
  <2>1. After(s, modes, e) = s  BY <1>2, AfterEdge
  <2>2. ~(s = "RESPONDING" /\ e \in {"SAY_END", "SERVER_DROPPED"})
    BY <1>2 DEF Edges, SayEdges, FsmStates
  <2>3. ~(s = "TOUCH_REACTING" /\ e = "TOUCH_END")
    BY <1>2 DEF Edges, OwnEdges, FsmStates
  <2>4. QED  BY <2>1, <2>2, <2>3
<1>3. QED  BY <1>1, <1>2

-----------------------------------------------------------------------------
(* The bus: what a publisher adds and what the face task takes away. *)
LEMMA Posting ==
  ASSUME TypeOK, NEW e \in BusEvents, Post(e)
  PROVE  /\ lane' \in Seq(BusEvents) /\ Len(lane') <= LaneRoom
         /\ Len(lane') = IF Len(lane) < LaneRoom THEN Len(lane) + 1 ELSE Len(lane)
         /\ \A i \in 1..Len(lane) : lane'[i] = lane[i]
         /\ Len(lane) < LaneRoom => lane'[Len(lane) + 1] = e
  BY BodyAssumption DEF TypeOK, Post

LEMMA Taking ==
  ASSUME TypeOK, lane # <<>>, lane' = Tail(lane)
  PROVE  /\ lane' \in Seq(BusEvents) /\ Len(lane') <= LaneRoom
         /\ Len(lane') = Len(lane) - 1
         /\ \A i \in 1..Len(lane') : lane'[i] = lane[i + 1]
         /\ Head(lane) = lane[1] /\ Head(lane) \in BusEvents
         /\ Len(lane) \in Nat \ {0}
  BY BodyAssumption DEF TypeOK

LEMMA Padding ==
  /\ Phases \in Nat \ {0} /\ Off \in Pads /\ Brief \in Pads
  /\ \A p \in Pads : p \in Int
  /\ \A p \in Brief..LastPhase - 1 : p + 1 \in Pads
  BY BodyAssumption DEF Pads, Off, Brief, Long, LastPhase

-----------------------------------------------------------------------------
(* The type invariant. *)
LEMMA ReactType ==
  ASSUME TypeOK, NEW e \in Sent, NEW c \in SUBSET Bands, NEW p \in BOOLEAN,
         NEW tp \in Pads, NEW f \in BOOLEAN,
         React(e, c, p, tp, f)
  PROVE  /\ fsm' \in Alive
         /\ claims' \in SUBSET Bands /\ wasPressed' \in BOOLEAN
         /\ touchPhase' \in Pads
         /\ forgot' \in BOOLEAN
<1>1. fsm \in Alive  BY DEF TypeOK, Alive
<1>2. fsm' \in Alive  BY <1>1, AfterLands DEF React
<1>3. CASE fsm' = "IDLE"  BY <1>2, <1>3, Padding DEF React
<1>4. CASE fsm' # "IDLE"  BY <1>2, <1>4 DEF React
<1>5. QED  BY <1>3, <1>4

LEMMA InitInv == Init => IInv
<1> SUFFICES ASSUME Init PROVE IInv  OBVIOUS
<1>1. fsm = "IDLE"
  <2>1. After("BOOT", modes, "BOOT_OK") =
          IF \E to \in FsmStates : <<"BOOT", "BOOT_OK", to>> \in Edges
          THEN CHOOSE to \in FsmStates : <<"BOOT", "BOOT_OK", to>> \in Edges
          ELSE "BOOT"
    BY DEF After
  <2> DEFINE picked == CHOOSE t \in FsmStates : <<"BOOT", "BOOT_OK", t>> \in Edges
  <2>2. "IDLE" \in FsmStates /\ <<"BOOT", "BOOT_OK", "IDLE">> \in Edges
    BY DEF FsmStates, Edges, OwnEdges
  <2>3. <<"BOOT", "BOOT_OK", picked>> \in Edges  BY <2>2, Zenon
  <2>4. picked = "IDLE"  BY <2>2, <2>3, OneEdge
  <2>5. After("BOOT", modes, "BOOT_OK") = picked  BY <2>1, <2>2, Zenon
  <2>6. QED  BY <2>4, <2>5 DEF Init
<1>2. TypeOK
  <2>1. lane \in Seq(BusEvents) /\ Len(lane) <= LaneRoom
    BY BodyAssumption DEF Init
  <2>2. pad \in Pads /\ touchPhase \in Pads  BY Padding DEF Init
  <2>3. QED  BY <1>1, <2>1, <2>2 DEF Init, TypeOK, FsmStates, Bands, Steps
<1>3. TurnsEnd  BY <1>1 DEF Init, TurnsEnd
<1>4. PressesNoticed  BY <1>1 DEF Init, PressesNoticed, Range, Off, Brief
<1>5. QED  BY <1>2, <1>3, <1>4 DEF IInv

LEMMA DurationType == TypeOK => Duration \in Pads
  BY Padding DEF Duration, TypeOK

LEMMA EngineType ==
  ASSUME TypeOK, PressedTick \/ ReleasedTick
  PROVE  /\ fsm' \in Alive
         /\ claims' \in SUBSET Bands /\ wasPressed' \in BOOLEAN
         /\ touchPhase' \in Pads
         /\ forgot' \in BOOLEAN
<1>1. /\ fsm \in Alive /\ claims \in SUBSET Bands /\ "touch" \in Bands
      /\ wasPressed \in BOOLEAN /\ forgot \in BOOLEAN
      /\ touchPhase \in Pads
      /\ "TOUCH" \in Sent /\ "TOUCH_END" \in Sent /\ Off \in Pads
  BY Padding DEF TypeOK, Alive, Bands, Sent
<1>2. CASE PressedTick
  <2>1. PICK lapsed \in SUBSET claims, reached \in {touchPhase, Duration} :
          \/ React("TOUCH", (claims \ lapsed) \cup {"touch"}, TRUE, reached, FALSE)
          \/ /\ claims' = claims \ lapsed
             /\ wasPressed' = TRUE /\ touchPhase' = reached /\ forgot' = FALSE
             /\ UNCHANGED fsm
    BY <1>2, Zenon DEF PressedTick
  <2>2. reached \in Pads  BY <1>1, <2>1, DurationType
  <2>3. (claims \ lapsed) \cup {"touch"} \in SUBSET Bands  BY <1>1
  <2>4. CASE React("TOUCH", (claims \ lapsed) \cup {"touch"}, TRUE, reached, FALSE)
    BY <2>2, <2>3, <2>4, <1>1, ReactType
  <2>5. QED  BY <2>1, <2>2, <2>4, <1>1
<1>3. CASE ReleasedTick
  <2>1. PICK lapsed \in SUBSET claims :
          \/ React("TOUCH_END", (claims \ lapsed) \cup {"touch"}, FALSE, Off, forgot)
          \/ /\ claims' = claims \ lapsed /\ touchPhase' = Off
             /\ UNCHANGED <<fsm, wasPressed, forgot>>
    BY <1>3 DEF ReleasedTick
  <2>2. (claims \ lapsed) \cup {"touch"} \in SUBSET Bands  BY <1>1
  <2>3. CASE React("TOUCH_END", (claims \ lapsed) \cup {"touch"}, FALSE, Off, forgot)
    BY <2>2, <2>3, <1>1, ReactType
  <2>4. QED  BY <2>1, <2>3, <1>1
<1>4. QED  BY <1>2, <1>3

LEMMA TypeStep == TypeOK /\ [Next]_vars => TypeOK'
<1> SUFFICES ASSUME TypeOK, [Next]_vars PROVE TypeOK'  OBVIOUS
<1> USE DEF engine, touch, mind
<1>1. /\ fsm \in Alive /\ claims \in SUBSET Bands
      /\ wasPressed \in BOOLEAN /\ forgot \in BOOLEAN
      /\ touchPhase \in Pads
  BY DEF TypeOK, Alive
<1>2. {"TOUCH", "WAKE", "SAY_START", "SAY_END", "SERVER_DROPPED", "SLEEP", "WAKE_HOUR"} \subseteq Sent
  BY DEF Sent
<1>3. CASE CircadianTick
  <2>1. PICK sleep \in BOOLEAN, wake \in BOOLEAN :
          \E slept : /\ slept = IF sleep THEN After(fsm, modes, "SLEEP") ELSE fsm
                    /\ fsm' = IF wake THEN After(slept, modes, "WAKE_HOUR") ELSE slept
    BY <1>3 DEF CircadianTick
  <2>2. PICK slept : /\ slept = IF sleep THEN After(fsm, modes, "SLEEP") ELSE fsm
                     /\ fsm' = IF wake THEN After(slept, modes, "WAKE_HOUR") ELSE slept
    BY <2>1
  <2>3. slept \in Alive  BY <2>2, <1>1, <1>2, AfterLands
  <2>4. fsm' \in Alive  BY <2>2, <2>3, <1>2, AfterLands
  <2>5. QED  BY <2>4, <1>3 DEF CircadianTick, TypeOK, Alive, Steps
<1>4. CASE DrainTouch
  <2>1. React("TOUCH", claims \cup {"touch"}, wasPressed, touchPhase, forgot)
    BY <1>4 DEF DrainTouch
  <2>2. claims \cup {"touch"} \in SUBSET Bands  BY <1>1 DEF Bands
  <2>3. /\ fsm' \in Alive /\ claims' \in SUBSET Bands /\ wasPressed' \in BOOLEAN
        /\ touchPhase' \in Pads /\ forgot' \in BOOLEAN
    BY <2>1, <2>2, <1>1, <1>2, ReactType
  <2>4. lane' \in Seq(BusEvents) /\ Len(lane') <= LaneRoom
    BY <1>4, Taking DEF DrainTouch, Polled
  <2>5. QED  BY <2>3, <2>4, <1>4 DEF DrainTouch, Polled, TypeOK, Alive
<1>5. CASE DrainVoice
  <2>1. React("WAKE", claims, wasPressed, touchPhase, forgot)
    BY <1>5 DEF DrainVoice
  <2>2. /\ fsm' \in Alive /\ claims' \in SUBSET Bands /\ wasPressed' \in BOOLEAN
        /\ touchPhase' \in Pads /\ forgot' \in BOOLEAN
    BY <2>1, <1>1, <1>2, ReactType
  <2>3. lane' \in Seq(BusEvents) /\ Len(lane') <= LaneRoom
    BY <1>5, Taking DEF DrainVoice, Polled
  <2>4. QED  BY <2>2, <2>3, <1>5 DEF DrainVoice, Polled, TypeOK, Alive
<1>6. CASE DrainHint
  <2>1. React(HintEvent(Head(lane)), claims, wasPressed, touchPhase, forgot)
    BY <1>6 DEF DrainHint
  <2>2. HintEvent(Head(lane)) \in Sent
    BY <1>6, <1>2 DEF DrainHint, Polled, Hints, HintEvent
  <2>3. /\ fsm' \in Alive /\ claims' \in SUBSET Bands /\ wasPressed' \in BOOLEAN
        /\ touchPhase' \in Pads /\ forgot' \in BOOLEAN
    BY <2>1, <2>2, <1>1, ReactType
  <2>4. lane' \in Seq(BusEvents) /\ Len(lane') <= LaneRoom
    BY <1>6, Taking DEF DrainHint, Polled
  <2>5. QED  BY <2>3, <2>4, <1>6 DEF DrainHint, Polled, TypeOK, Alive
<1>7. CASE DrainOther
  <2>1. lane' \in Seq(BusEvents) /\ Len(lane') <= LaneRoom
    BY <1>7, Taking DEF DrainOther, Polled
  <2>2. QED  BY <2>1, <1>7 DEF DrainOther, Polled, TypeOK
<1>8. CASE Look  BY <1>8 DEF Look, TypeOK, Steps
<1>9. CASE EngineTick
  <2>1. PressedTick \/ ReleasedTick  BY <1>9 DEF EngineTick
  <2>2. /\ fsm' \in Alive /\ claims' \in SUBSET Bands /\ wasPressed' \in BOOLEAN
        /\ touchPhase' \in Pads /\ forgot' \in BOOLEAN
    BY <2>1, EngineType
  <2>3. QED  BY <2>2, <1>9 DEF EngineTick, TypeOK, Alive, Steps
<1>10. CASE Timers  BY <1>10 DEF Timers, TypeOK, Steps, Bands
<1>11. CASE Press  BY <1>11, Padding DEF Press, TypeOK
<1>12. CASE Hold  BY <1>12, Padding DEF Hold, TypeOK
<1>13. CASE Release  BY <1>13, Padding DEF Release, TypeOK
<1>14. CASE PublishTouch
  BY <1>14, Posting, "TOUCH" \in BusEvents DEF PublishTouch, TypeOK, BusEvents
<1>15. CASE PublishWake
  BY <1>15, Posting, "VOICE_WAKE" \in BusEvents DEF PublishWake, TypeOK, BusEvents
<1>16. CASE PublishOther
  BY <1>16, Posting, "OTHER" \in BusEvents DEF PublishOther, TypeOK, BusEvents
<1>17. CASE ReceiveSayBegin
  BY <1>17, Posting, "SAY_BEGIN" \in BusEvents DEF ReceiveSayBegin, TypeOK, BusEvents, Hints
<1>18. CASE ReceiveSayAudio
  BY <1>18, Posting, "OTHER" \in BusEvents DEF ReceiveSayAudio, TypeOK, BusEvents
<1>19. CASE ReceiveSayEnd
  <2>1. lane' \in Seq(BusEvents) /\ Len(lane') <= LaneRoom
    BY <1>19, Posting, "SAY_END" \in BusEvents DEF ReceiveSayEnd, BusEvents, Hints
  <2>2. refused' \in BOOLEAN  BY <1>19 DEF ReceiveSayEnd
  <2>3. QED  BY <2>1, <2>2, <1>19 DEF ReceiveSayEnd, TypeOK
<1>20. CASE LinkLost
  <2>1. lane' \in Seq(BusEvents) /\ Len(lane') <= LaneRoom
    BY <1>20, Posting, "SERVER_DROPPED" \in BusEvents DEF LinkLost, TypeOK, BusEvents, Hints
  <2>2. refused' \in BOOLEAN
    <3>1. CASE sayActive  BY <1>20, <3>1 DEF LinkLost
    <3>2. CASE ~sayActive  BY <1>20, <3>2 DEF LinkLost, TypeOK
    <3>3. QED  BY <3>1, <3>2
  <2>3. QED  BY <2>1, <2>2, <1>20 DEF LinkLost, TypeOK
<1>21. CASE UNCHANGED vars  BY <1>21 DEF vars, TypeOK
<1>22. QED
  BY <1>3, <1>4, <1>5, <1>6, <1>7, <1>8, <1>9, <1>10, <1>11, <1>12, <1>13, <1>14,
     <1>15, <1>16, <1>17, <1>18, <1>19, <1>20, <1>21
  DEF Next, Face, Touch, Mind

-----------------------------------------------------------------------------
(* Every turn on the bus has an end. *)

(* A post keeps what is on its way, and adds to it. *)
LEMMA PostKeeps ==
  ASSUME TypeOK, TurnsEnd, NEW e \in BusEvents, Post(e)
  PROVE  /\ EndOnTheWay => EndOnTheWay'
         /\ e \in Endings /\ Len(lane) < LaneRoom => EndOnTheWay'
         /\ \A i \in 1..Len(lane) :
              (\E j \in 1..Len(lane) : i < j /\ lane[j] \in Endings) =>
                \E j \in 1..Len(lane') : i < j /\ lane'[j] \in Endings
         /\ \A i \in 1..Len(lane') :
              lane'[i] = "SAY_BEGIN" =>
                \/ i \in 1..Len(lane) /\ lane[i] = "SAY_BEGIN"
                \/ e = "SAY_BEGIN"
         /\ e \in Endings /\ Len(lane) < LaneRoom =>
              \A i \in 1..Len(lane) : \E j \in 1..Len(lane') : i < j /\ lane'[j] \in Endings
<1> DEFINE n == Len(lane)
<1>1. /\ n \in Nat
      /\ Len(lane') = IF n < LaneRoom THEN n + 1 ELSE n
      /\ \A i \in 1..n : lane'[i] = lane[i]
      /\ n < LaneRoom => lane'[n + 1] = e
      /\ LaneRoom \in Nat
  BY Posting, BodyAssumption DEF TypeOK
<1>2. EndOnTheWay => EndOnTheWay'  BY <1>1 DEF EndOnTheWay
<1>3. e \in Endings /\ n < LaneRoom => EndOnTheWay'  BY <1>1 DEF EndOnTheWay
<1>4. \A i \in 1..n :
        (\E j \in 1..n : i < j /\ lane[j] \in Endings) =>
          \E j \in 1..Len(lane') : i < j /\ lane'[j] \in Endings
  BY <1>1
<1>5. \A i \in 1..Len(lane') :
        lane'[i] = "SAY_BEGIN" =>
          (i \in 1..n /\ lane[i] = "SAY_BEGIN") \/ e = "SAY_BEGIN"
  BY <1>1
<1>6. e \in Endings /\ n < LaneRoom =>
        \A i \in 1..n : \E j \in 1..Len(lane') : i < j /\ lane'[j] \in Endings
  BY <1>1
<1>7. QED  BY <1>2, <1>3, <1>4, <1>5, <1>6

LEMMA TurnsEndAnyhow ==
  ASSUME sayActive' \/ refused' PROVE TurnsEnd'
  BY DEF TurnsEnd

(* A step that leaves the bus and the mind link alone. *)
LEMMA TurnsEndAside ==
  ASSUME TurnsEnd, UNCHANGED <<lane, sayActive, refused>>,
         fsm' = "RESPONDING" => fsm = "RESPONDING"
  PROVE  TurnsEnd'
  BY DEF TurnsEnd, EndOnTheWay

(* The face task takes an event and gives e to the state machine. *)
LEMMA TurnsEndDrained ==
  ASSUME TypeOK, TurnsEnd, NEW e \in Sent,
         lane # <<>>, lane' = Tail(lane), UNCHANGED <<sayActive, refused>>,
         \/ fsm' = After(fsm, modes, e)
         \/ fsm' = fsm,
         fsm' = fsm \/ e # "SAY_START" \/ Head(lane) = "SAY_BEGIN",
         Head(lane) \in Endings => fsm' = After(fsm, modes, e) /\ e \in {"SAY_END", "SERVER_DROPPED"}
  PROVE  TurnsEnd'
<1> DEFINE n == Len(lane)
<1>1. /\ Len(lane') = n - 1 /\ n \in Nat \ {0}
      /\ \A i \in 1..Len(lane') : lane'[i] = lane[i + 1]
      /\ Head(lane) = lane[1]
  BY Taking
<1>2. SUFFICES ASSUME ~sayActive', ~refused' PROVE TurnsEnd'
  BY TurnsEndAnyhow
<1>3. ~sayActive /\ ~refused  BY <1>2
<1>4. ASSUME NEW i \in 1..n, NEW j \in 1..n, i < j, lane[j] \in Endings
      PROVE  j - 1 \in 1..Len(lane') /\ lane'[j - 1] \in Endings /\ i - 1 < j - 1
  BY <1>1, <1>4
<1>5. ASSUME NEW i \in 1..n, lane[i] = "SAY_BEGIN"
      PROVE  \E j \in 1..n : i < j /\ lane[j] \in Endings
  BY <1>3, <1>5 DEF TurnsEnd
<1>6. ASSUME fsm' = "RESPONDING" PROVE EndOnTheWay'
  <2>1. fsm \in Alive  BY DEF TypeOK, Alive
  <2>2. CASE lane[1] = "SAY_BEGIN"
    <3>1. PICK j \in 1..n : 1 < j /\ lane[j] \in Endings  BY <2>2, <1>1, <1>5
    <3>2. QED  BY <3>1, <1>1, <1>4 DEF EndOnTheWay
  <2>3. CASE lane[1] # "SAY_BEGIN"
    <3>1. fsm = "RESPONDING" /\ lane[1] \notin Endings
      BY <1>1, <1>6, <2>1, <2>3, AfterLands
    <3>2. PICK j \in 1..n : lane[j] \in Endings
      BY <3>1, <1>3 DEF TurnsEnd, EndOnTheWay
    <3>3. 1 < j  BY <3>1, <3>2
    <3>4. QED  BY <3>2, <3>3, <1>1, <1>4 DEF EndOnTheWay
  <2>4. QED  BY <2>2, <2>3
<1>7. ASSUME NEW i \in 1..Len(lane'), lane'[i] = "SAY_BEGIN"
      PROVE  \E j \in 1..Len(lane') : i < j /\ lane'[j] \in Endings
  <2>1. i + 1 \in 1..n /\ lane[i + 1] = "SAY_BEGIN"  BY <1>1, <1>7
  <2>2. PICK j \in 1..n : i + 1 < j /\ lane[j] \in Endings  BY <2>1, <1>5
  <2>3. j - 1 \in 1..Len(lane') /\ lane'[j - 1] \in Endings  BY <2>1, <2>2, <1>4
  <2>4. i < j - 1  BY <2>2
  <2>5. QED  BY <2>3, <2>4, Zenon
<1>8. QED  BY <1>6, <1>7 DEF TurnsEnd

(* A publisher posts something that neither starts nor ends a turn. *)
LEMMA TurnsEndPosted ==
  ASSUME TypeOK, TurnsEnd, NEW e \in BusEvents \ {"SAY_BEGIN"}, Post(e),
         UNCHANGED <<fsm, sayActive, refused>>
  PROVE  TurnsEnd'
  BY PostKeeps DEF TurnsEnd

(* A publisher posts the end of a turn, and the bus has room for it. *)
LEMMA TurnsEndEnded ==
  ASSUME TypeOK, TurnsEnd, NEW e \in Endings, Post(e), Len(lane) < LaneRoom
  PROVE  TurnsEnd'
<1>1. e \in BusEvents /\ e # "SAY_BEGIN"  BY DEF Endings, BusEvents, Hints
<1>2. EndOnTheWay'  BY <1>1, PostKeeps
<1>3. \A i \in 1..Len(lane') : lane'[i] = "SAY_BEGIN" =>
        \E j \in 1..Len(lane') : i < j /\ lane'[j] \in Endings
  BY <1>1, PostKeeps
<1>4. QED  BY <1>2, <1>3 DEF TurnsEnd

LEMMA TurnsStep == TypeOK /\ TurnsEnd /\ [Next]_vars => TurnsEnd'
<1> SUFFICES ASSUME TypeOK, TurnsEnd, [Next]_vars PROVE TurnsEnd'  OBVIOUS
<1> USE DEF engine, touch, mind
<1>1. fsm \in Alive  BY DEF TypeOK, Alive
<1>2. {"TOUCH", "TOUCH_END", "WAKE", "SAY_START", "SAY_END", "SERVER_DROPPED", "SLEEP", "WAKE_HOUR"} \subseteq Sent
  BY DEF Sent
<1>3. CASE CircadianTick
  <2>1. PICK sleep \in BOOLEAN, wake \in BOOLEAN :
          \E slept : /\ slept = IF sleep THEN After(fsm, modes, "SLEEP") ELSE fsm
                    /\ fsm' = IF wake THEN After(slept, modes, "WAKE_HOUR") ELSE slept
    BY <1>3 DEF CircadianTick
  <2>2. PICK slept : /\ slept = IF sleep THEN After(fsm, modes, "SLEEP") ELSE fsm
                     /\ fsm' = IF wake THEN After(slept, modes, "WAKE_HOUR") ELSE slept
    BY <2>1
  <2>3. slept \in Alive /\ (slept = "RESPONDING" => fsm = "RESPONDING")
    BY <2>2, <1>1, <1>2, AfterLands
  <2>4. fsm' = "RESPONDING" => slept = "RESPONDING"
    BY <2>2, <2>3, <1>2, AfterLands
  <2>5. QED  BY <2>3, <2>4, <1>3, TurnsEndAside DEF CircadianTick
<1>4. CASE DrainTouch
  BY <1>4, <1>2, TurnsEndDrained DEF DrainTouch, Polled, React, Endings
<1>5. CASE DrainVoice
  BY <1>5, <1>2, TurnsEndDrained DEF DrainVoice, Polled, React, Endings
<1>6. CASE DrainHint
  <2>1. /\ HintEvent(Head(lane)) \in Sent
        /\ HintEvent(Head(lane)) # "SAY_START" \/ Head(lane) = "SAY_BEGIN"
        /\ Head(lane) \in Endings => HintEvent(Head(lane)) \in {"SAY_END", "SERVER_DROPPED"}
    BY <1>6, <1>2 DEF DrainHint, Polled, Hints, HintEvent, Endings
  <2>2. QED  BY <1>6, <2>1, TurnsEndDrained DEF DrainHint, Polled, React
<1>7. CASE DrainOther
  BY <1>7, <1>2, TurnsEndDrained DEF DrainOther, Polled, Endings
<1>8. CASE Look  BY <1>8, TurnsEndAside DEF Look
<1>9. CASE EngineTick
  <2>1. \/ fsm' = fsm
        \/ \E e \in {"TOUCH", "TOUCH_END"} : fsm' = After(fsm, modes, e)
    BY <1>9 DEF EngineTick, PressedTick, ReleasedTick, React
  <2>2. fsm' = "RESPONDING" => fsm = "RESPONDING"
    BY <2>1, <1>1, <1>2, AfterLands
  <2>3. QED  BY <2>2, <1>9, TurnsEndAside DEF EngineTick
<1>10. CASE Timers  BY <1>10, TurnsEndAside DEF Timers
<1>11. CASE Press \/ Hold \/ Release
  BY <1>11, TurnsEndAside DEF Press, Hold, Release
<1>12. CASE PublishTouch
  BY <1>12, TurnsEndPosted, "TOUCH" \in BusEvents \ {"SAY_BEGIN"} DEF PublishTouch, BusEvents
<1>13. CASE PublishWake
  BY <1>13, TurnsEndPosted, "VOICE_WAKE" \in BusEvents \ {"SAY_BEGIN"} DEF PublishWake, BusEvents
<1>14. CASE PublishOther
  BY <1>14, TurnsEndPosted, "OTHER" \in BusEvents \ {"SAY_BEGIN"} DEF PublishOther, BusEvents
<1>15. CASE ReceiveSayBegin \/ ReceiveSayAudio
  BY <1>15, TurnsEndAnyhow DEF ReceiveSayBegin, ReceiveSayAudio
<1>16. CASE ReceiveSayEnd
  <2>1. CASE Len(lane) < LaneRoom
    BY <2>1, <1>16, TurnsEndEnded, "SAY_END" \in Endings DEF ReceiveSayEnd, Endings
  <2>2. CASE ~(Len(lane) < LaneRoom)
    BY <2>2, <1>16, TurnsEndAnyhow DEF ReceiveSayEnd
  <2>3. QED  BY <2>1, <2>2
<1>17. CASE LinkLost
  <2>1. CASE sayActive /\ Len(lane) < LaneRoom
    BY <2>1, <1>17, TurnsEndEnded, "SERVER_DROPPED" \in Endings DEF LinkLost, Endings
  <2>2. CASE sayActive /\ ~(Len(lane) < LaneRoom)
    BY <2>2, <1>17, TurnsEndAnyhow DEF LinkLost
  <2>3. CASE ~sayActive
    <3>1. sayActive' = sayActive  BY <2>3, <1>17 DEF LinkLost, TypeOK
    <3>2. QED  BY <2>3, <3>1, <1>17, TurnsEndAside DEF LinkLost
  <2>4. QED  BY <2>1, <2>2, <2>3
<1>18. CASE UNCHANGED vars  BY <1>18, TurnsEndAside DEF vars
<1>19. QED
  BY <1>3, <1>4, <1>5, <1>6, <1>7, <1>8, <1>9, <1>10, <1>11, <1>12, <1>13, <1>14,
     <1>15, <1>16, <1>17, <1>18
  DEF Next, Face, Touch, Mind


-----------------------------------------------------------------------------
(* Every press is noticed. *)

(* "TOUCH" is on the bus because it was, or because it was posted. *)
LEMMA PostTouch ==
  ASSUME TypeOK, NEW e \in BusEvents, Post(e)
  PROVE  "TOUCH" \in Range(lane)' => e = "TOUCH" \/ "TOUCH" \in Range(lane)
<1>1. lane' \in Seq(BusEvents) /\ lane \in Seq(BusEvents)  BY Posting DEF TypeOK
<1>2. SUFFICES ASSUME "TOUCH" \in Range(lane') PROVE e = "TOUCH" \/ "TOUCH" \in Range(lane)
  OBVIOUS
<1>3. PICK i \in 1..Len(lane') : lane'[i] = "TOUCH"  BY <1>1, <1>2 DEF Range
<1>4. CASE i \in 1..Len(lane)
  <2>1. lane[i] = "TOUCH"  BY <1>3, <1>4, Posting
  <2>2. QED  BY <2>1, <1>1, <1>4 DEF Range
<1>5. CASE i \notin 1..Len(lane)
  <2>1. i = Len(lane) + 1 /\ Len(lane) < LaneRoom  BY <1>1, <1>3, <1>5, Posting
  <2>2. QED  BY <2>1, <1>3, Posting
<1>6. QED  BY <1>4, <1>5

LEMMA TakeTouch ==
  ASSUME TypeOK, lane # <<>>, lane' = Tail(lane)
  PROVE  /\ "TOUCH" \in Range(lane)' => "TOUCH" \in Range(lane)
         /\ Head(lane) \in Range(lane)
<1>1. lane' \in Seq(BusEvents) /\ lane \in Seq(BusEvents)  BY Taking DEF TypeOK
<1>2. ASSUME "TOUCH" \in Range(lane') PROVE "TOUCH" \in Range(lane)
  <2>1. PICK i \in 1..Len(lane') : lane'[i] = "TOUCH"  BY <1>1, <1>2 DEF Range
  <2>2. i + 1 \in 1..Len(lane) /\ lane[i + 1] = "TOUCH"  BY <2>1, <1>1, Taking
  <2>3. QED  BY <2>2, <1>1 DEF Range
<1>3. Head(lane) \in Range(lane)
  BY <1>1, Taking, 1 \in 1..Len(lane) DEF Range
<1>4. QED  BY <1>2, <1>3

Armed == wasPressed \/ forgot

(* Wiping the engine turns a press it knew of into one it forgot. *)
LEMMA ReactArmed ==
  ASSUME NEW e, NEW c, NEW p \in BOOLEAN, NEW tp, NEW f \in BOOLEAN,
         React(e, c, p, tp, f), p \/ f
  PROVE  Armed'
  BY DEF React, Armed

LEMMA PressesStep == TypeOK /\ PressesNoticed /\ [Next]_vars => PressesNoticed'
<1> SUFFICES ASSUME TypeOK, PressesNoticed, [Next]_vars PROVE PressesNoticed'  OBVIOUS
<1> USE DEF engine, touch, mind
<1>1. fsm \in Alive /\ wasPressed \in BOOLEAN /\ forgot \in BOOLEAN
  BY DEF TypeOK, Alive
<1>2. {"TOUCH", "TOUCH_END", "WAKE", "SAY_START", "SAY_END", "SERVER_DROPPED", "SLEEP", "WAKE_HOUR"} \subseteq Sent
  BY DEF Sent
<1>3. CASE CircadianTick
  <2>1. PICK sleep \in BOOLEAN, wake \in BOOLEAN :
          \E slept : /\ slept = IF sleep THEN After(fsm, modes, "SLEEP") ELSE fsm
                    /\ fsm' = IF wake THEN After(slept, modes, "WAKE_HOUR") ELSE slept
    BY <1>3 DEF CircadianTick
  <2>2. PICK slept : /\ slept = IF sleep THEN After(fsm, modes, "SLEEP") ELSE fsm
                     /\ fsm' = IF wake THEN After(slept, modes, "WAKE_HOUR") ELSE slept
    BY <2>1
  <2>3. slept \in Alive /\ (slept = "TOUCH_REACTING" => fsm = "TOUCH_REACTING")
    BY <2>2, <1>1, <1>2, AfterLands
  <2>4. fsm' = "TOUCH_REACTING" => slept = "TOUCH_REACTING"
    BY <2>2, <2>3, <1>2, AfterLands
  <2>5. QED  BY <2>3, <2>4, <1>3 DEF CircadianTick, PressesNoticed, Noticed
<1>4. CASE DrainTouch
  <2>1. "TOUCH" \in Range(lane)  BY <1>4, TakeTouch DEF DrainTouch, Polled
  <2>2. Armed  BY <1>4, <2>1 DEF DrainTouch, Polled, PressesNoticed, Noticed, Armed
  <2>3. Armed'  BY <1>4, <1>1, <2>2, ReactArmed DEF DrainTouch, Armed
  <2>4. QED  BY <1>4, <2>3 DEF DrainTouch, Polled, PressesNoticed, Noticed, Armed
<1>5. ASSUME Polled({"VOICE_WAKE"} \cup Hints \cup {"OTHER"}), Armed => Armed',
             fsm' = "TOUCH_REACTING" => fsm = "TOUCH_REACTING"
      PROVE  PressesNoticed'
  <2>1. "TOUCH" \in Range(lane)' => "TOUCH" \in Range(lane)
    BY <1>5, TakeTouch DEF Polled
  <2>2. QED  BY <1>5, <2>1 DEF Polled, PressesNoticed, Noticed, Armed
<1>6. CASE DrainVoice
  <2>1. React("WAKE", claims, wasPressed, touchPhase, forgot)  BY <1>6 DEF DrainVoice
  <2>2. Armed => Armed'  BY <1>1, <2>1, ReactArmed DEF Armed
  <2>3. fsm' = "TOUCH_REACTING" => fsm = "TOUCH_REACTING"
    BY <2>1, <1>1, <1>2, AfterLands DEF React
  <2>4. QED  BY <1>6, <2>2, <2>3, <1>5 DEF DrainVoice, Polled
<1>7. CASE DrainHint
  <2>1. React(HintEvent(Head(lane)), claims, wasPressed, touchPhase, forgot)
    BY <1>7 DEF DrainHint
  <2>2. Armed => Armed'  BY <1>1, <2>1, ReactArmed DEF Armed
  <2>3. HintEvent(Head(lane)) \in Sent \ {"TOUCH"}
    BY <1>7, <1>2 DEF DrainHint, Polled, Hints, HintEvent
  <2>4. fsm' = "TOUCH_REACTING" => fsm = "TOUCH_REACTING"
    BY <2>1, <2>3, <1>1, AfterLands DEF React
  <2>5. QED  BY <1>7, <2>2, <2>4, <1>5 DEF DrainHint, Polled
<1>8. CASE DrainOther  BY <1>8, <1>5 DEF DrainOther, Polled, Armed
<1>9. CASE Look
  <2>1. "TOUCH" \notin Range(lane)'  BY <1>9 DEF Look, Range
  <2>2. pad \in Int  BY Padding DEF TypeOK
  <2>3. sawPressed' <=> pad # Off  BY <1>9 DEF Look
  <2>4. QED
    BY <1>9, <2>1, <2>2, <2>3 DEF Look, PressesNoticed, Noticed, Off, Brief
<1>10. CASE EngineTick /\ PressedTick
  <2>1. Armed'
    <3>1. PICK c, reached :
            \/ React("TOUCH", c, TRUE, reached, FALSE)
            \/ wasPressed' = TRUE
      BY <1>10, Zenon DEF PressedTick
    <3>2. CASE React("TOUCH", c, TRUE, reached, FALSE)  BY <3>2, ReactArmed
    <3>3. QED  BY <3>1, <3>2 DEF Armed
  <2>2. QED  BY <1>10, <2>1 DEF EngineTick, PressesNoticed, Noticed, Armed
<1>11. CASE EngineTick /\ ReleasedTick
  <2>1. ~sawPressed /\ step = "tick"  BY <1>11 DEF EngineTick, ReleasedTick
  <2>2. fsm' = "TOUCH_REACTING" => forgot'
    <3>1. CASE wasPressed
      <4>1. fsm' = After(fsm, modes, "TOUCH_END")
        BY <1>11, <3>1 DEF ReleasedTick, React
      <4>2. QED  BY <4>1, <1>1, <1>2, AfterLands
    <3>2. CASE ~wasPressed
      <4>1. fsm' = fsm /\ forgot' = forgot  BY <1>11, <3>2 DEF ReleasedTick
      <4>2. QED  BY <4>1, <3>2, <2>1 DEF PressesNoticed, Noticed
    <3>3. QED  BY <3>1, <3>2
  <2>3. QED
    BY <1>11, <2>1, <2>2 DEF EngineTick, PressesNoticed, Noticed, Off, Brief
<1>12. CASE Timers  BY <1>12 DEF Timers, PressesNoticed, Noticed
<1>13. CASE Press
  BY <1>13 DEF Press, PressesNoticed, Noticed, Off, Brief
<1>14. CASE Hold
  <2>1. pad \in Int /\ Brief \in Int /\ pad >= Brief  BY <1>14, Padding DEF Hold, TypeOK, Brief, LastPhase, Long
  <2>2. Noticed /\ ~(step = "tick" /\ ~sawPressed)
    BY <1>14, <2>1 DEF Hold, PressesNoticed, Off, Brief
  <2>3. pad' > Brief  BY <1>14, <2>1 DEF Hold
  <2>4. QED  BY <1>14, <2>2, <2>3 DEF Hold, PressesNoticed, Noticed
<1>15. CASE Release  BY <1>15 DEF Release, PressesNoticed, Noticed, Off, Brief
<1>16. CASE PublishTouch
  <2>1. pad \in Int /\ pad > Brief /\ pad # Off /\ pad # Brief
    BY <1>16, Padding DEF PublishTouch, PressesNoticed, TypeOK, Off, Brief
  <2>2. Noticed /\ ~(step = "tick" /\ ~sawPressed)
    BY <1>16, <2>1 DEF PublishTouch, PressesNoticed
  <2>3. QED  BY <1>16, <2>1, <2>2 DEF PublishTouch, PressesNoticed, Noticed
<1>17. ASSUME NEW e \in BusEvents \ {"TOUCH"}, Post(e) \/ UNCHANGED lane,
              UNCHANGED <<fsm, engine, step, sawPressed, touch>>
       PROVE  PressesNoticed'
  <2>1. "TOUCH" \in Range(lane)' => "TOUCH" \in Range(lane)
    BY <1>17, PostTouch
  <2>2. QED  BY <1>17, <2>1 DEF PressesNoticed, Noticed
<1>18. BusEvents \ {"TOUCH"} = {"SAY_BEGIN", "SAY_END", "SERVER_DROPPED", "VOICE_WAKE", "OTHER"}
  BY DEF BusEvents, Hints
<1>19. CASE PublishWake \/ PublishOther
  BY <1>17, <1>18, <1>19 DEF PublishWake, PublishOther
<1>20. CASE Mind
  BY <1>17, <1>18, <1>20
  DEF Mind, ReceiveSayBegin, ReceiveSayAudio, ReceiveSayEnd, LinkLost
<1>21. CASE UNCHANGED vars  BY <1>21 DEF vars, PressesNoticed, Noticed
<1>22. QED
  BY <1>3, <1>4, <1>6, <1>7, <1>8, <1>9, <1>10, <1>11, <1>12, <1>13, <1>14,
     <1>15, <1>16, <1>19, <1>20, <1>21
  DEF Next, Face, Touch, EngineTick

-----------------------------------------------------------------------------
THEOREM Invariance == Spec => []IInv
<1>1. Init => IInv  BY InitInv
<1>2. IInv /\ [Next]_vars => IInv'  BY TypeStep, TurnsStep, PressesStep DEF IInv
<1>3. QED  BY <1>1, <1>2, PTL DEF Spec

(* Nothing that is sent brings the body to BOOT, ERROR or SAFE_MODE, and   *)
(* the bus never holds more than it has room for.                          *)
THEOREM TypeCorrect == Spec => []TypeOK
<1>1. IInv => TypeOK  BY DEF IInv
<1>2. QED  BY <1>1, Invariance, PTL

(* A body that speaks hears the end of it, unless the bus refused it,      *)
(* however turns, drops, touches and posts interleave: of the states the   *)
(* mind link and the bus keep, one always remembers the end.               *)
THEOREM SpeechHasAnEnd == Spec => []RespondingHasAnEnd
<1>1. IInv => RespondingHasAnEnd  BY DEF IInv, TurnsEnd, RespondingHasAnEnd
<1>2. QED  BY <1>1, Invariance, PTL

(* Between two frames a body that reacts to touch has an engine that waits *)
(* for the release, or that was wiped during the press.                    *)
THEOREM ReactionWaits == Spec => []ReactionWaitsForRelease
<1>1. IInv => ReactionWaitsForRelease
  BY DEF IInv, PressesNoticed, Noticed, ReactionWaitsForRelease
<1>2. QED  BY <1>1, Invariance, PTL

(* Whatever lands the body in IDLE but the clock wipes the engine, and     *)
(* only a touch that leaves IDLE claims the touch band.                    *)
THEOREM RestIsUnclaimed == Spec => IdleUnclaimed
<1>1. ASSUME Next, fsm' = "IDLE", "touch" \in claims'
      PROVE  step = "circadian" \/ (fsm = "IDLE" /\ "touch" \in claims)
  <2> USE DEF engine, touch, mind
  <2>1. CASE CircadianTick  BY <2>1 DEF CircadianTick
  <2>2. CASE DrainTouch \/ DrainVoice \/ DrainHint
    BY <1>1, <2>2 DEF DrainTouch, DrainVoice, DrainHint, React
  <2>3. CASE DrainOther  BY <1>1, <2>3 DEF DrainOther
  <2>4. CASE Look  BY <1>1, <2>4 DEF Look
  <2>5. CASE EngineTick
    BY <1>1, <2>5 DEF EngineTick, PressedTick, ReleasedTick, React
  <2>6. CASE Timers  BY <1>1, <2>6 DEF Timers
  <2>7. CASE Touch
    BY <1>1, <2>7 DEF Touch, Press, Hold, Release, PublishTouch
  <2>8. CASE PublishWake \/ PublishOther
    BY <1>1, <2>8 DEF PublishWake, PublishOther
  <2>9. CASE Mind
    BY <1>1, <2>9 DEF Mind, ReceiveSayBegin, ReceiveSayAudio, ReceiveSayEnd, LinkLost
  <2>10. QED
    BY <1>1, <2>1, <2>2, <2>3, <2>4, <2>5, <2>6, <2>7, <2>8, <2>9 DEF Next, Face
<1>2. [Next]_vars =>
        [fsm' = "IDLE" /\ "touch" \in claims' =>
           step = "circadian" \/ (fsm = "IDLE" /\ "touch" \in claims)]_vars
  BY <1>1
<1>3. QED  BY <1>2, PTL DEF Spec, IdleUnclaimed

-----------------------------------------------------------------------------
PhaseNames == {"NIGHT", "DAWN", "DAY", "DUSK"}
Sleepy == body = "SLEEPING" \/ pendingSleep

Types ==
  /\ now \in Hours
  /\ lastPhase \in PhaseNames
  /\ body \in Alive
  /\ pendingSleep \in BOOLEAN /\ late \in BOOLEAN /\ jumped \in BOOLEAN

(* LightSleepHasACause looks at the hour; the code looks only at edges of  *)
(* the phase.  What links them: without a jump the phase it remembers is   *)
(* that of the hour, and whoever sleeps, or is to sleep, when the night is *)
(* over has one of the two reasons.                                        *)
PhaseIsKnown == ~jumped => lastPhase = PhaseForHour(now)
DawnIsLate == lastPhase = "DAWN" /\ Sleepy => late
DayHasACause == lastPhase \in {"DAY", "DUSK"} /\ Sleepy => late \/ jumped
NInv == Types /\ PhaseIsKnown /\ DawnIsLate /\ DayHasACause

(* A dream uses up the readiness that only another sleep brings back.      *)
DInv ==
  /\ dreams \in {0, 1}
  /\ wasSleeping \in BOOLEAN /\ dreamReady \in BOOLEAN
  /\ dreams = 1 => wasSleeping /\ ~dreamReady

-----------------------------------------------------------------------------
(* The state machine: an event of the day or the night keeps the robot     *)
(* alive; only SLEEP puts it to sleep, and WAKE_HOUR always wakes it.      *)
LEMMA NightStep ==
  ASSUME NEW s \in Alive, NEW e \in Sent
  PROVE  /\ After(s, {}, e) \in Alive
         /\ After(s, {}, e) = "SLEEPING" => s = "SLEEPING" \/ e = "SLEEP"
         /\ After(s, {}, "WAKE_HOUR") # "SLEEPING"
<1>1. After(s, {}, e) \in Alive
  BY AfterLands DEF modes
<1>2. ASSUME After(s, {}, e) = "SLEEPING"
      PROVE  s = "SLEEPING" \/ e = "SLEEP"
  <2>1. CASE \E to \in FsmStates : <<s, e, to>> \in Edges
    <3>1. <<s, e, "SLEEPING">> \in Edges
      BY <1>2, <2>1, AfterEdge DEF modes
    <3>2. QED  BY <3>1 DEF Edges, OwnEdges, SayEdges
  <2>2. CASE \A to \in FsmStates : <<s, e, to>> \notin Edges
    BY <1>2, <2>2, AfterEdge DEF modes
  <2>3. QED  BY <2>1, <2>2
<1>3. After(s, {}, "WAKE_HOUR") # "SLEEPING"
  <2>1. "WAKE_HOUR" \in Sent
    BY DEF Sent
  <2>2. CASE s = "SLEEPING"
    <3>1. <<s, "WAKE_HOUR", "IDLE">> \in Edges /\ "IDLE" \in FsmStates
      BY <2>2 DEF Edges, OwnEdges, FsmStates
    <3>2. QED  BY <2>1, <3>1, AfterEdge DEF modes
  <2>3. CASE s # "SLEEPING"
    <3>1. \A to \in FsmStates : <<s, "WAKE_HOUR", to>> \notin Edges
      BY <2>3 DEF Edges, OwnEdges, SayEdges
    <3>2. QED  BY <2>1, <2>3, <3>1, AfterEdge DEF modes
  <2>4. QED  BY <2>2, <2>3
<1>4. QED  BY <1>1, <1>2, <1>3

LEMMA MovedStep ==
  ASSUME NEW s \in Alive, NEW t \in Moved(s)
  PROVE  t \in Alive /\ (t = "SLEEPING" => s = "SLEEPING")
<1>1. ASSUME NEW a \in Alive, NEW b \in Once(a)
      PROVE  b \in Alive /\ (b = "SLEEPING" => a = "SLEEPING")
  <2>1. CASE b = a  BY <2>1, <1>1
  <2>2. ASSUME NEW e \in BodyEvents, b = After(a, {}, e)
        PROVE  b \in Alive /\ (b = "SLEEPING" => a = "SLEEPING")
    <3>1. e \in Sent /\ e # "SLEEP"  BY DEF Sent, BodyEvents
    <3>2. QED  BY <3>1, <2>2, NightStep
  <2>3. QED  BY <2>1, <2>2, <1>1 DEF Once
<1>2. PICK u \in Once(s) : t \in Once(u)  BY DEF Moved
<1>3. QED  BY <1>1, <1>2

(* What a tick of the clock makes of the body. *)
LEMMA TickStep ==
  ASSUME Types, NEW h \in Hours
  PROVE  /\ Slept(h) \in Alive /\ Woken(h) \in Alive
         /\ Slept(h) = "SLEEPING" => body = "SLEEPING" \/ SleepDue(h)
         /\ Woken(h) = "SLEEPING" => Slept(h) = "SLEEPING" /\ ~WakeDue(h)
<1>1. body \in Alive  BY DEF Types
<1>2. "SLEEP" \in Sent /\ "WAKE_HOUR" \in Sent  BY DEF Sent
<1>3. Slept(h) \in Alive /\ (Slept(h) = "SLEEPING" => body = "SLEEPING" \/ SleepDue(h))
  BY <1>1, <1>2, NightStep DEF Slept
<1>4. CASE WakeDue(h)
  <2>1. Woken(h) = After(Slept(h), {}, "WAKE_HOUR")  BY <1>4 DEF Woken
  <2>2. QED  BY <2>1, <1>2, <1>3, NightStep
<1>5. CASE ~WakeDue(h)
  <2>1. Woken(h) = Slept(h)  BY <1>5 DEF Woken
  <2>2. QED  BY <2>1, <1>3, <1>5
<1>6. QED  BY <1>4, <1>5

-----------------------------------------------------------------------------
(* The hours of the day. *)
LEMMA PhaseNamed == ASSUME NEW h \in Hours PROVE PhaseForHour(h) \in PhaseNames
BY DEF PhaseForHour, Hours, PhaseNames, NightStart, DawnStart, DayStart, DuskStart

LEMMA HourLater ==
  ASSUME NEW a \in Hours, NEW d \in {0, Stride}
  PROVE  /\ (a + d) % 24 \in Hours
         /\ PhaseForHour(a) = "NIGHT" => PhaseForHour((a + d) % 24) \in {"NIGHT", "DAWN"}
<1>1. d \in 0..2  BY NightAssumption
<1>2. (a + d) % 24 = IF a + d < 24 THEN a + d ELSE a + d - 24
  BY <1>1 DEF Hours
<1>3. QED
  BY <1>1, <1>2 DEF Hours, PhaseForHour, NightStart, DawnStart, DayStart, DuskStart

LEMMA SeedHour == DuskStart \in Hours
BY DEF Hours, DuskStart

LEMMA SameNight ==
  ASSUME NInv, UNCHANGED <<now, lastPhase, pendingSleep, body, late, jumped>>
  PROVE  NInv'
BY DEF NInv, Types, PhaseIsKnown, DawnIsLate, DayHasACause, Sleepy, PhaseForHour,
       NightStart, DawnStart, DayStart, DuskStart

LEMMA FrameKeepsNight ==
  ASSUME NInv, NEW d \in {0, Stride},
         CircadianFrame((now + d) % 24), body' \in Moved(Woken((now + d) % 24))
  PROVE  NInv'
<1> DEFINE h == (now + d) % 24
<1>1. Types  BY DEF NInv
<1>2. h \in Hours /\ (PhaseForHour(now) = "NIGHT" => PhaseForHour(h) \in {"NIGHT", "DAWN"})
  BY <1>1, HourLater DEF Types
<1>3. /\ now' = h /\ lastPhase' = PhaseForHour(h)
      /\ pendingSleep' = IF Slept(h) = "SLEEPING" THEN FALSE ELSE SleepDue(h)
      /\ late' = IF PhaseForHour(h) = "DAWN" /\ lastPhase # "DAWN" THEN pendingSleep ELSE late
      /\ jumped' = IF PhaseForHour(h) = "DAWN" THEN FALSE ELSE jumped
  BY Zenon DEF CircadianFrame
<1>h. HIDE DEF h
<1>4. /\ body' \in Alive
      /\ body' = "SLEEPING" => Slept(h) = "SLEEPING" /\ ~WakeDue(h)
      /\ Slept(h) = "SLEEPING" => body = "SLEEPING" \/ SleepDue(h)
  BY <1>1, <1>2, TickStep, MovedStep DEF h
<1>5. PhaseForHour(h) \in PhaseNames  BY <1>2, PhaseNamed
<1>6. SleepDue(h) \in BOOLEAN  BY <1>1, Zenon DEF SleepDue, Types
<1>7. Types'
  <2>1. pendingSleep' \in BOOLEAN  BY <1>3, <1>6, Zenon
  <2>2. late' \in BOOLEAN /\ jumped' \in BOOLEAN  BY <1>1, <1>3, Zenon DEF Types
  <2>3. now' \in Hours /\ lastPhase' \in PhaseNames  BY <1>2, <1>3, <1>5
  <2>4. QED  BY <2>1, <2>2, <2>3, <1>4 DEF Types
<1>8. PhaseForHour(now)' = PhaseForHour(h)
  BY <1>3 DEF PhaseForHour, NightStart, DawnStart, DayStart, DuskStart
<1>9. PhaseIsKnown'  BY <1>3, <1>8 DEF PhaseIsKnown
<1>10. PhaseForHour(h) # "NIGHT" => (SleepDue(h) <=> pendingSleep)
  BY DEF SleepDue
<1>11. PhaseForHour(h) # "NIGHT" /\ Sleepy' => Sleepy
  BY <1>3, <1>4, <1>10, Zenon DEF Sleepy
<1>12. DawnIsLate'
  <2> SUFFICES ASSUME lastPhase' = "DAWN", Sleepy' PROVE late'
    BY DEF DawnIsLate
  <2>1. PhaseForHour(h) = "DAWN"  BY <1>3
  <2>2. CASE lastPhase # "DAWN"
    <3>1. WakeDue(h)  BY <2>1, <2>2 DEF WakeDue
    <3>2. pendingSleep'  BY <3>1, <1>4 DEF Sleepy
    <3>3. SleepDue(h)  BY <3>2, <1>3, Zenon
    <3>4. pendingSleep  BY <3>3, <1>10, <2>1
    <3>5. QED  BY <3>4, <1>3, <2>1, <2>2, Zenon
  <2>3. CASE lastPhase = "DAWN"
    <3>1. late  BY <2>1, <2>3, <1>11 DEF NInv, DawnIsLate
    <3>2. QED  BY <3>1, <1>3, <2>3, Zenon
  <2>4. QED  BY <2>2, <2>3
<1>13. DayHasACause'
  <2> SUFFICES ASSUME lastPhase' \in {"DAY", "DUSK"}, Sleepy' PROVE late' \/ jumped'
    BY DEF DayHasACause
  <2>1. PhaseForHour(h) \in {"DAY", "DUSK"}  BY <1>3
  <2>2. PhaseForHour(h) # "DAWN" /\ PhaseForHour(h) # "NIGHT"  BY <2>1
  <2>3. Sleepy  BY <2>2, <1>11
  <2>4. late \/ jumped
    <3>1. CASE lastPhase = "NIGHT"
      <4>1. PhaseForHour(now) # "NIGHT"  BY <1>2, <2>1
      <4>2. QED  BY <4>1, <3>1 DEF NInv, PhaseIsKnown
    <3>2. CASE lastPhase # "NIGHT"
      BY <3>2, <2>3, <1>1 DEF NInv, DawnIsLate, DayHasACause, Types, PhaseNames
    <3>3. QED  BY <3>1, <3>2
  <2>5. QED  BY <2>4, <2>2, <1>3, Zenon
<1>14. QED  BY <1>7, <1>9, <1>12, <1>13 DEF NInv

LEMMA NightStepInv == NInv /\ [NightNext]_nightVars => NInv'
<1> SUFFICES ASSUME NInv, [NightNext]_nightVars PROVE NInv'  OBVIOUS
<1>1. CASE NightFrame
  <2>1. PICK d \in {0, Stride} : /\ CircadianFrame((now + d) % 24)
                                 /\ body' \in Moved(Woken((now + d) % 24))
    BY <1>1 DEF NightFrame
  <2>2. QED  BY <2>1, FrameKeepsNight
<1>2. CASE TimeSync
  BY <1>2 DEF TimeSync, NInv, Types, PhaseIsKnown, DawnIsLate, DayHasACause, Sleepy
<1>3. CASE Restart
  <2>1. DuskStart \in Hours  BY SeedHour
  <2>2. PhaseForHour(DuskStart) \in PhaseNames  BY <2>1, PhaseNamed
  <2>3. /\ now' = DuskStart /\ lastPhase' = PhaseForHour(DuskStart)
        /\ body' = "IDLE" /\ pendingSleep' = FALSE /\ late' = FALSE /\ jumped' = FALSE
    BY <1>3 DEF Restart
  <2>4. PhaseForHour(now)' = PhaseForHour(DuskStart)
    BY <2>3 DEF PhaseForHour, NightStart, DawnStart, DayStart, DuskStart
  <2>5. Types'  BY <2>1, <2>2, <2>3 DEF NInv, Types, Alive, FsmStates
  <2>6. PhaseIsKnown'  BY <2>3, <2>4 DEF PhaseIsKnown
  <2>7. ~Sleepy'  BY <2>3 DEF Sleepy
  <2>8. QED  BY <2>5, <2>6, <2>7 DEF NInv, DawnIsLate, DayHasACause
<1>4. CASE UNCHANGED nightVars
  BY <1>4, SameNight DEF nightVars, clock
<1>5. QED  BY <1>1, <1>2, <1>3, <1>4 DEF NightNext

LEMMA NightInitInv == NightInit => NInv
<1> SUFFICES ASSUME NightInit PROVE NInv  OBVIOUS
<1>1. /\ now = DuskStart /\ lastPhase = PhaseForHour(DuskStart)
      /\ body = "IDLE" /\ pendingSleep = FALSE /\ late = FALSE /\ jumped = FALSE
  BY DEF NightInit
<1>2. DuskStart \in Hours  BY SeedHour
<1>3. PhaseForHour(DuskStart) \in PhaseNames  BY <1>2, PhaseNamed
<1>4. Types  BY <1>1, <1>2, <1>3 DEF Types, Alive, FsmStates
<1>5. ~Sleepy  BY <1>1 DEF Sleepy
<1>6. QED  BY <1>1, <1>4, <1>5 DEF NInv, PhaseIsKnown, DawnIsLate, DayHasACause

(* A robot asleep in the light was moved there by TIME_SYNC or was too     *)
(* busy to sleep before (circadian_core.h, tick of the circadian shell).   *)
THEOREM SleepIsExplained == NightSpec => []LightSleepHasACause
<1>1. ASSUME NInv PROVE LightSleepHasACause
  <2> SUFFICES ASSUME body = "SLEEPING", Brightness(now) # NightBrightness, ~jumped
               PROVE  late
    BY DEF LightSleepHasACause
  <2>1. PhaseForHour(now) # "NIGHT"  BY DEF Brightness
  <2>2. lastPhase # "NIGHT"  BY <2>1, <1>1 DEF NInv, PhaseIsKnown
  <2>3. QED
    BY <2>2, <1>1 DEF NInv, DawnIsLate, DayHasACause, Types, PhaseNames, Sleepy
<1>2. QED  BY <1>1, NightInitInv, NightStepInv, PTL DEF NightSpec

-----------------------------------------------------------------------------
(* Dreams. *)
LEMMA DreamStep ==
  ASSUME DInv, NEW sleeping \in BOOLEAN, DreamTick(sleeping)
  PROVE  DInv'
<1> DEFINE ready == ~sleeping \/ ~wasSleeping \/ dreamReady
<1>1. PICK dreamt \in BOOLEAN :
        /\ dreamt => sleeping /\ ready
        /\ dreamReady' = (ready /\ ~dreamt)
        /\ dreams' = IF ~sleeping THEN 0 ELSE IF dreamt THEN dreams + 1 ELSE dreams
  BY Zenon DEF DreamTick
<1>2. wasSleeping' = sleeping  BY DEF DreamTick
<1>3. ready \in BOOLEAN  BY Zenon
<1>4. wasSleeping' \in BOOLEAN /\ dreamReady' \in BOOLEAN  BY <1>1, <1>2, <1>3, Zenon
<1>5. CASE ~sleeping
  <2>1. dreams' = 0  BY <1>1, <1>5, Zenon
  <2>2. QED  BY <2>1, <1>4 DEF DInv
<1>6. CASE sleeping /\ dreamt
  <2>1. dreams # 1  BY <1>1, <1>6, Zenon DEF DInv
  <2>2. dreams = 0  BY <2>1 DEF DInv
  <2>3. dreams' = dreams + 1  BY <1>1, <1>6, Zenon
  <2>4. wasSleeping' /\ ~dreamReady'  BY <1>1, <1>2, <1>6, Zenon
  <2>5. dreams' = 1  BY <2>2, <2>3
  <2>6. QED  BY <2>4, <2>5, <1>4 DEF DInv
<1>7. CASE sleeping /\ ~dreamt
  <2>1. dreams' = dreams  BY <1>1, <1>7, Zenon
  <2>2. ASSUME dreams = 1 PROVE wasSleeping' /\ ~dreamReady'
    BY <2>2, <1>1, <1>2, <1>7, Zenon DEF DInv
  <2>3. QED  BY <2>1, <2>2, <1>4 DEF DInv
<1>8. QED  BY <1>5, <1>6, <1>7

(* One dream a sleep, however often it is interrupted (rarity_core.c).     *)
THEOREM OneDream == NightSpec => []DreamsOnce
<1>1. ASSUME NightInit PROVE DInv
  <2>1. dreams = 0 /\ wasSleeping = FALSE /\ dreamReady = FALSE  BY <1>1 DEF NightInit
  <2>2. wasSleeping \in BOOLEAN /\ dreamReady \in BOOLEAN  BY <2>1, Zenon
  <2>3. QED  BY <2>1, <2>2 DEF DInv
<1>2. DInv /\ [NightNext]_nightVars => DInv'
  <2> SUFFICES ASSUME DInv, [NightNext]_nightVars PROVE DInv'  OBVIOUS
  <2>1. CASE NightFrame
    <3>1. PICK h : RarityTick(h)  BY <2>1 DEF NightFrame
    <3>2. DreamTick(body' = "SLEEPING")  BY <3>1 DEF RarityTick
    <3>3. QED  BY <3>2, DreamStep
  <2>2. CASE TimeSync  BY <2>2 DEF TimeSync, rarity, DInv
  <2>3. CASE Restart
    <3>1. dreams' = 0 /\ wasSleeping' = FALSE /\ dreamReady' = FALSE
      BY <2>3 DEF Restart, FreshRarity
    <3>2. wasSleeping' \in BOOLEAN /\ dreamReady' \in BOOLEAN  BY <3>1, Zenon
    <3>3. QED  BY <3>1, <3>2 DEF DInv
  <2>4. CASE UNCHANGED nightVars  BY <2>4 DEF nightVars, rarity, DInv
  <2>5. QED  BY <2>1, <2>2, <2>3, <2>4 DEF NightNext
<1>3. DInv => DreamsOnce  BY DEF DInv, DreamsOnce
<1>4. QED  BY <1>1, <1>2, <1>3, PTL DEF NightSpec

-----------------------------------------------------------------------------
(* The peace.  While the arc runs the caress has lasted as long as it; and *)
(* from its last act on, the heart is no older than that act.              *)
ArcStates == [phase : Acts \cup {"IDLE"}, spent : Nat, rest : Nat]
PeaceTypes ==
  /\ reconcile \in [arc : ArcStates, heart : BOOLEAN]
  /\ held \in 0..Whole /\ sinceHeld \in Nat
CaressLasts ==
  /\ reconcile.arc.phase = "ORIENT" => held >= reconcile.arc.spent
  /\ reconcile.arc.phase = "EXECUTE" => held >= ReconcilePlan.ORIENT + reconcile.arc.spent
HeartIsFresh == Heart(reconcile) => sinceHeld <= reconcile.arc.spent
WithinAct(arc) == Running(arc) => arc.spent < ReconcilePlan[arc.phase]
PeaceInv == PeaceTypes /\ CaressLasts /\ HeartIsFresh /\ WithinAct(reconcile.arc)

LEMMA PeaceLengths ==
  /\ Dt \in Nat \ {0} /\ Whole \in Nat
  /\ ReconcilePlan.ORIENT \in Nat /\ ReconcilePlan.EXECUTE \in Nat
  /\ ReconcilePlan.OUTCOME \in Nat /\ ReconcilePlan.REST = 0
  /\ ReconcilePlan.ORIENT > Dt /\ ReconcilePlan.OUTCOME > Dt
  /\ Whole = ReconcilePlan.ORIENT + ReconcilePlan.EXECUTE
<1>1. ReconcilePlan \in [Acts \cup {"REST"} -> Nat]  BY ArcsAssumption
<1>2. /\ ReconcilePlan.ORIENT \in Nat /\ ReconcilePlan.EXECUTE \in Nat
      /\ ReconcilePlan.OUTCOME \in Nat
  BY <1>1 DEF Acts
<1>3. QED  BY <1>2, ArcsAssumption DEF Whole

(* What a frame makes of the arc, act by act.                              *)
LEMMA PeaceTicks ==
  ASSUME NEW arc \in ArcStates, Running(arc), WithinAct(arc)
  PROVE  LET next == TickArc(arc, ReconcilePlan, Dt)
             s == arc.spent + Dt
             O == ReconcilePlan.ORIENT
             E == ReconcilePlan.EXECUTE
         IN  /\ next \in ArcStates /\ WithinAct(next)
             /\ arc.phase = "ORIENT" =>
                  \/ next.phase = "ORIENT" /\ next.spent = s
                  \/ next.phase = "EXECUTE" /\ next.spent = s - O
                  \/ next.phase = "OUTCOME" /\ next.spent = s - O - E /\ s >= O + E
             /\ arc.phase = "EXECUTE" =>
                  \/ next.phase = "EXECUTE" /\ next.spent = s
                  \/ next.phase = "OUTCOME" /\ next.spent = s - E /\ s >= E
             /\ arc.phase = "OUTCOME" =>
                  \/ next.phase = "OUTCOME" /\ next.spent = s
                  \/ next.phase = "IDLE"
<1> DEFINE O == ReconcilePlan.ORIENT  E == ReconcilePlan.EXECUTE  F == ReconcilePlan.OUTCOME
           later == [arc EXCEPT !.spent = @ + Dt]
<1>1. /\ Dt \in Nat \ {0} /\ O \in Nat /\ E \in Nat /\ F \in Nat /\ O > Dt /\ F > Dt
      /\ ReconcilePlan.REST = 0
      /\ ReconcilePlan["ORIENT"] = O /\ ReconcilePlan["EXECUTE"] = E /\ ReconcilePlan["OUTCOME"] = F
  BY PeaceLengths
<1>2. /\ arc.phase \in Acts /\ arc.spent \in Nat /\ arc.rest \in Nat
      /\ arc = [phase |-> arc.phase, spent |-> arc.spent, rest |-> arc.rest]
      /\ arc.spent < ReconcilePlan[arc.phase]
  BY DEF ArcStates, Running, WithinAct
<1>3. later = [phase |-> arc.phase, spent |-> arc.spent + Dt, rest |-> arc.rest]
  BY <1>2
<1>4. TickArc(arc, ReconcilePlan, Dt)
        = Passed(Passed(Passed(later, ReconcilePlan), ReconcilePlan), ReconcilePlan)
  BY DEF TickArc
<1> DEFINE Arc(p, n) == [phase |-> p, spent |-> n, rest |-> arc.rest]
           s == arc.spent + Dt
           Idle == [phase |-> "IDLE", spent |-> 0, rest |-> 0]
<1>5. ASSUME NEW p, NEW n, p # "IDLE" => n < ReconcilePlan[p]
      PROVE  Passed(Arc(p, n), ReconcilePlan) = Arc(p, n)
  BY <1>5 DEF Passed, Running
<1>6. ASSUME NEW n \in Nat, n >= O
      PROVE  Passed(Arc("ORIENT", n), ReconcilePlan) = Arc("EXECUTE", n - O)
  <2>1. ~(n < ReconcilePlan["ORIENT"])  BY <1>1, <1>6
  <2>2. Following["ORIENT"] = "EXECUTE"  BY DEF Following
  <2>3. QED  BY <1>1, <2>1, <2>2 DEF Passed, Running
<1>7. ASSUME NEW n \in Nat, n >= E
      PROVE  Passed(Arc("EXECUTE", n), ReconcilePlan) = Arc("OUTCOME", n - E)
  <2>1. ~(n < ReconcilePlan["EXECUTE"])  BY <1>1, <1>7
  <2>2. Following["EXECUTE"] = "OUTCOME"  BY DEF Following
  <2>3. QED  BY <1>1, <2>1, <2>2 DEF Passed, Running
<1>8. ASSUME NEW n \in Nat, n >= F
      PROVE  Passed(Arc("OUTCOME", n), ReconcilePlan) = Idle
  <2>1. ~(n < ReconcilePlan["OUTCOME"])  BY <1>1, <1>8
  <2>2. QED  BY <1>1, <2>1 DEF Passed, Running, IdleArc
<1>9. Passed(Idle, ReconcilePlan) = Idle  BY DEF Passed, Running
<1>10. s \in Nat /\ later = Arc(arc.phase, s)  BY <1>1, <1>2, <1>3
<1> HIDE DEF O, E, F
<1>11. CASE arc.phase = "ORIENT"
  <2>1. CASE s < O
    <3>1. TickArc(arc, ReconcilePlan, Dt) = Arc("ORIENT", s)
      BY <1>1, <1>5, <1>4, <1>10, <1>11, <2>1
    <3>2. QED  BY <1>1, <1>2, <1>10, <1>11, <2>1, <3>1 DEF ArcStates, WithinAct, Acts, O
  <2>2. CASE s >= O /\ s - O < E
    <3>1. s - O \in Nat  BY <1>1, <1>10, <2>2
    <3>2. Passed(later, ReconcilePlan) = Arc("EXECUTE", s - O)
      BY <1>6, <1>10, <1>11, <2>2
    <3>3. Passed(Arc("EXECUTE", s - O), ReconcilePlan) = Arc("EXECUTE", s - O)
      BY <1>1, <1>5, <2>2, <3>1
    <3>4. TickArc(arc, ReconcilePlan, Dt) = Arc("EXECUTE", s - O)
      BY <1>4, <3>2, <3>3
    <3>5. QED  BY <1>1, <1>2, <1>11, <2>2, <3>1, <3>4 DEF ArcStates, WithinAct, Acts, O
  <2>3. CASE s >= O /\ s - O >= E
    <3>1. s - O \in Nat /\ s - O - E \in Nat /\ s - O - E < F /\ s >= O + E
      BY <1>1, <1>2, <1>10, <1>11, <2>3 DEF O
    <3>2. Passed(later, ReconcilePlan) = Arc("EXECUTE", s - O)
      BY <1>6, <1>10, <1>11, <2>3
    <3>3. Passed(Arc("EXECUTE", s - O), ReconcilePlan) = Arc("OUTCOME", s - O - E)
      BY <1>7, <2>3, <3>1
    <3>4. Passed(Arc("OUTCOME", s - O - E), ReconcilePlan) = Arc("OUTCOME", s - O - E)
      BY <1>1, <1>5, <3>1
    <3>5. TickArc(arc, ReconcilePlan, Dt) = Arc("OUTCOME", s - O - E)
      BY <1>4, <3>2, <3>3, <3>4
    <3>6. QED  BY <1>1, <1>2, <1>11, <3>1, <3>5 DEF ArcStates, WithinAct, Acts, O, E
  <2>4. QED  BY <1>1, <1>10, <2>1, <2>2, <2>3
<1>12. CASE arc.phase = "EXECUTE"
  <2>1. CASE s < E
    <3>1. TickArc(arc, ReconcilePlan, Dt) = Arc("EXECUTE", s)
      BY <1>1, <1>5, <1>4, <1>10, <1>12, <2>1
    <3>2. QED  BY <1>1, <1>2, <1>10, <1>12, <2>1, <3>1 DEF ArcStates, WithinAct, Acts, E
  <2>2. CASE s >= E
    <3>1. s - E \in Nat /\ s - E < F
      BY <1>1, <1>2, <1>10, <1>12, <2>2
    <3>2. Passed(later, ReconcilePlan) = Arc("OUTCOME", s - E)
      BY <1>7, <1>10, <1>12, <2>2
    <3>3. Passed(Arc("OUTCOME", s - E), ReconcilePlan) = Arc("OUTCOME", s - E)
      BY <1>1, <1>5, <3>1
    <3>4. TickArc(arc, ReconcilePlan, Dt) = Arc("OUTCOME", s - E)
      BY <1>4, <3>2, <3>3
    <3>5. QED  BY <1>1, <1>2, <1>12, <2>2, <3>1, <3>4 DEF ArcStates, WithinAct, Acts, E
  <2>3. QED  BY <1>1, <1>10, <2>1, <2>2
<1>13. CASE arc.phase = "OUTCOME"
  <2>1. CASE s < F
    <3>1. TickArc(arc, ReconcilePlan, Dt) = Arc("OUTCOME", s)
      BY <1>1, <1>5, <1>4, <1>10, <1>13, <2>1
    <3>2. QED  BY <1>1, <1>2, <1>10, <1>13, <2>1, <3>1 DEF ArcStates, WithinAct, Acts
  <2>2. CASE s >= F
    <3>1. Passed(later, ReconcilePlan) = Idle  BY <1>8, <1>10, <1>13, <2>2
    <3>3. TickArc(arc, ReconcilePlan, Dt) = Idle  BY <1>4, <1>9, <3>1
    <3>4. QED  BY <1>13, <3>3 DEF ArcStates, WithinAct, Running
  <2>3. QED  BY <1>1, <1>10, <2>1, <2>2
<1>14. QED  BY <1>2, <1>11, <1>12, <1>13 DEF Acts

LEMMA PeaceOpens ==
  ASSUME NEW arc \in ArcStates, arc.phase = "ORIENT", arc.spent = 0
  PROVE  LET next == TickArc(arc, ReconcilePlan, Dt)
         IN  /\ next \in ArcStates /\ WithinAct(next)
             /\ next.phase = "ORIENT" /\ next.spent = Dt
<1> DEFINE next == TickArc(arc, ReconcilePlan, Dt)
           O == ReconcilePlan.ORIENT
           E == ReconcilePlan.EXECUTE
           s == arc.spent + Dt
<1>1. /\ Dt \in Nat \ {0} /\ O \in Nat /\ E \in Nat /\ O > Dt /\ ReconcilePlan["ORIENT"] = O
  BY PeaceLengths
<1>2. Running(arc) /\ WithinAct(arc)  BY <1>1 DEF Running, WithinAct
<1>3. /\ next \in ArcStates /\ WithinAct(next)
      /\ arc.phase = "ORIENT" =>
           \/ next.phase = "ORIENT" /\ next.spent = s
           \/ next.phase = "EXECUTE" /\ next.spent = s - O
           \/ next.phase = "OUTCOME" /\ next.spent = s - O - E /\ s >= O + E
  BY <1>2, PeaceTicks
<1>4. s = Dt  BY <1>1
<1> HIDE DEF next, O, E, s
<1>5. next.spent \in Nat  BY <1>3 DEF ArcStates
<1>6. QED  BY <1>1, <1>3, <1>4, <1>5 DEF next

(* An arc at rest stays, or, started by a caress, is one frame into it.    *)
LEMMA PeaceBegins ==
  ASSUME NEW arc \in ArcStates, ~Running(arc)
  PROVE  /\ TickArc(arc, ReconcilePlan, Dt) \in ArcStates
         /\ ~Running(TickArc(arc, ReconcilePlan, Dt))
         /\ \/ StartArc(arc) = arc
            \/ StartArc(arc) \in ArcStates /\ Running(StartArc(arc)) /\ WithinAct(StartArc(arc))
               /\ StartArc(arc).phase = "ORIENT" /\ StartArc(arc).spent = 0
<1>1. /\ arc.phase = "IDLE" /\ arc.spent \in Nat /\ arc.rest \in Nat /\ Dt \in Nat
  BY PeaceLengths DEF ArcStates, Running
<1> DEFINE later == [arc EXCEPT !.rest = IF @ > Dt THEN @ - Dt ELSE 0]
<1>2. later \in ArcStates /\ ~Running(later)  BY <1>1 DEF ArcStates, Running
<1>3. Passed(later, ReconcilePlan) = later  BY <1>2 DEF Passed
<1>4. TickArc(arc, ReconcilePlan, Dt) = later  BY <1>3 DEF TickArc
<1>5. [IdleArc EXCEPT !.phase = "ORIENT"] = [phase |-> "ORIENT", spent |-> 0, rest |-> 0]
  BY DEF IdleArc
<1>6. StartArc(arc) = arc \/ StartArc(arc) = [phase |-> "ORIENT", spent |-> 0, rest |-> 0]
  BY <1>5 DEF StartArc
<1>7. QED
  BY <1>2, <1>4, <1>6, PeaceLengths DEF ArcStates, Running, WithinAct, Acts

-----------------------------------------------------------------------------
(* A frame: the caress that lasts, and the peace it makes.                 *)
Caressed(caress) ==
  /\ held' = IF caress THEN Upto(held + Dt, Whole) ELSE 0
  /\ sinceHeld' = IF held' = Whole THEN 0 ELSE Older(sinceHeld, Whole)

LEMMA CaressFacts ==
  ASSUME PeaceTypes, NEW caress \in BOOLEAN, Caressed(caress)
  PROVE  /\ held' \in 0..Whole /\ sinceHeld' \in Nat
         /\ caress => held' = Whole \/ held' = held + Dt
         /\ held' = Whole => sinceHeld' = 0
         /\ sinceHeld' <= sinceHeld + Dt
<1>1. /\ Dt \in Nat \ {0} /\ Whole \in Nat /\ held \in 0..Whole /\ sinceHeld \in Nat
  BY PeaceLengths DEF PeaceTypes
<1>2. held' \in 0..Whole /\ (caress => held' = Whole \/ held' = held + Dt)
  BY <1>1 DEF Caressed, Upto
<1>3. /\ sinceHeld' \in Nat /\ (held' = Whole => sinceHeld' = 0)
      /\ sinceHeld' <= sinceHeld + Dt
  BY <1>1, <1>2 DEF Caressed, Older, Upto
<1>4. QED  BY <1>2, <1>3

LEMMA PeaceStep ==
  ASSUME PeaceInv, NEW negative \in BOOLEAN, NEW caress \in BOOLEAN,
         reconcile' = ReconcileTick(reconcile, negative, caress), Caressed(caress)
  PROVE  PeaceInv'
<1> DEFINE arc == reconcile.arc
           ticked == TickArc(arc, ReconcilePlan, Dt)
           O == ReconcilePlan.ORIENT
           E == ReconcilePlan.EXECUTE
<1>1. /\ Dt \in Nat \ {0} /\ Whole \in Nat /\ O \in Nat /\ E \in Nat /\ O > Dt
      /\ Whole = O + E /\ ReconcilePlan["ORIENT"] = O /\ ReconcilePlan["EXECUTE"] = E
  BY PeaceLengths
<1>2. /\ arc \in ArcStates /\ WithinAct(arc) /\ held \in 0..Whole /\ sinceHeld \in Nat
      /\ arc.phase \in Acts \cup {"IDLE"} /\ arc.spent \in Nat
  BY DEF PeaceInv, PeaceTypes, ArcStates
<1>3. /\ held' \in 0..Whole /\ sinceHeld' \in Nat
      /\ caress => held' = Whole \/ held' = held + Dt
      /\ held' = Whole => sinceHeld' = 0
      /\ sinceHeld' <= sinceHeld + Dt
  BY CaressFacts DEF PeaceInv
<1>4. /\ reconcile = [arc |-> arc, heart |-> reconcile.heart] /\ reconcile.heart \in BOOLEAN
  BY DEF PeaceInv, PeaceTypes
<1>5. ASSUME NEW next \in ArcStates, NEW heart \in BOOLEAN, WithinAct(next),
             reconcile' = [arc |-> next, heart |-> heart],
             next.phase = "ORIENT" => held' >= next.spent,
             next.phase = "EXECUTE" => held' >= O + next.spent,
             next.phase = "OUTCOME" /\ heart => sinceHeld' <= next.spent
      PROVE  PeaceInv'
  <2>1. reconcile'.arc = next /\ reconcile'.heart = heart  BY <1>5
  <2>2. PeaceTypes'  BY <1>3, <1>5 DEF PeaceTypes
  <2>3. CaressLasts'  BY <1>5, <2>1 DEF CaressLasts
  <2>4. HeartIsFresh'  BY <1>5, <2>1 DEF HeartIsFresh, Heart
  <2>5. WithinAct(reconcile.arc)'  BY <1>5, <2>1 DEF WithinAct, Running
  <2>6. QED  BY <2>2, <2>3, <2>4, <2>5 DEF PeaceInv
<1>6. ASSUME NEW next \in ArcStates, ~Running(next), NEW heart \in BOOLEAN,
             reconcile' = [arc |-> next, heart |-> heart]
      PROVE  PeaceInv'
  BY <1>5, <1>6 DEF Running, WithinAct
<1>7. CASE ~Running(arc)
  <2>1. reconcile' = [reconcile EXCEPT !.arc =
          TickArc(IF negative /\ caress THEN StartArc(arc) ELSE arc, ReconcilePlan, Dt)]
    BY <1>7 DEF ReconcileTick
  <2>2. CASE reconcile' = [reconcile EXCEPT !.arc = ticked]
    <3>1. reconcile' = [arc |-> ticked, heart |-> reconcile.heart]  BY <1>4, <2>2
    <3>2. ticked \in ArcStates /\ ~Running(ticked)  BY <1>2, <1>7, PeaceBegins
    <3>3. QED  BY <1>4, <1>6, <3>1, <3>2
  <2>3. CASE caress /\ StartArc(arc) # arc
             /\ reconcile' = [reconcile EXCEPT !.arc = TickArc(StartArc(arc), ReconcilePlan, Dt)]
    <3> DEFINE started == StartArc(arc)
               next == TickArc(started, ReconcilePlan, Dt)
    <3>1. /\ started \in ArcStates /\ Running(started) /\ WithinAct(started)
          /\ started.phase = "ORIENT" /\ started.spent = 0
      BY <1>2, <1>7, <2>3, PeaceBegins
    <3>2. reconcile' = [arc |-> next, heart |-> reconcile.heart]  BY <1>4, <2>3
    <3> HIDE DEF started
    <3>3. /\ next \in ArcStates /\ WithinAct(next)
          /\ next.phase = "ORIENT" /\ next.spent = Dt
      BY <3>1, PeaceOpens
    <3> HIDE DEF next, ticked, arc
    <3>4. held' >= Dt  BY <1>1, <1>2, <1>3, <2>3
    <3>5. QED  BY <1>4, <1>5, <3>2, <3>3, <3>4
  <2>4. QED  BY <2>1, <2>2, <2>3
<1>8. CASE Running(arc)
  <2> DEFINE s == arc.spent + Dt
  <2>1. /\ ticked \in ArcStates /\ WithinAct(ticked)
        /\ arc.phase = "ORIENT" =>
             \/ ticked.phase = "ORIENT" /\ ticked.spent = s
             \/ ticked.phase = "EXECUTE" /\ ticked.spent = s - O
             \/ ticked.phase = "OUTCOME" /\ ticked.spent = s - O - E /\ s >= O + E
        /\ arc.phase = "EXECUTE" =>
             \/ ticked.phase = "EXECUTE" /\ ticked.spent = s
             \/ ticked.phase = "OUTCOME" /\ ticked.spent = s - E /\ s >= E
        /\ arc.phase = "OUTCOME" =>
             \/ ticked.phase = "OUTCOME" /\ ticked.spent = s
             \/ ticked.phase = "IDLE"
    BY <1>2, <1>8, PeaceTicks
  <2>2. /\ arc.phase = "ORIENT" => held >= arc.spent
        /\ arc.phase = "EXECUTE" => held >= O + arc.spent
        /\ arc.phase = "OUTCOME" /\ reconcile.heart => sinceHeld <= arc.spent
        /\ arc.phase \in Acts
    BY <1>2, <1>8 DEF PeaceInv, CaressLasts, HeartIsFresh, Heart, Running
  <2>3. /\ ticked.phase = "ORIENT" => ticked.spent < O
        /\ ticked.phase = "EXECUTE" => ticked.spent < E
        /\ ticked.spent \in Nat
    BY <1>1, <2>1 DEF WithinAct, Running, ArcStates
  <2>4. reconcile' = IF ticked.phase # "OUTCOME"
                     THEN [reconcile EXCEPT !.arc = IF caress THEN ticked ELSE AbortArc(ticked)]
                     ELSE [arc |-> ticked,
                           heart |-> IF arc.phase # "OUTCOME" THEN caress ELSE reconcile.heart]
    BY <1>8 DEF ReconcileTick
  <2>5. AbortArc(ticked) \in ArcStates /\ ~Running(AbortArc(ticked))
    BY <2>1 DEF AbortArc, ArcStates, Running
  <2>6. s \in Nat /\ s = arc.spent + Dt  BY <1>1, <1>2
  <2> HIDE DEF ticked, s
  <2>7. CASE ticked.phase # "OUTCOME" /\ ~caress
    <3>1. reconcile' = [arc |-> AbortArc(ticked), heart |-> reconcile.heart]
      BY <1>4, <2>4, <2>7
    <3>2. QED  BY <1>4, <1>6, <2>5, <3>1
  <2>8. CASE ticked.phase # "OUTCOME" /\ caress
    <3>1. reconcile' = [arc |-> ticked, heart |-> reconcile.heart]  BY <1>4, <2>4, <2>8
    <3>2. ticked.phase = "ORIENT" => held' >= ticked.spent
      BY <1>1, <1>2, <1>3, <2>1, <2>2, <2>3, <2>6, <2>8 DEF Acts
    <3>3. ticked.phase = "EXECUTE" => held' >= O + ticked.spent
      BY <1>1, <1>2, <1>3, <2>1, <2>2, <2>3, <2>6, <2>8 DEF Acts
    <3>4. QED  BY <1>4, <1>5, <2>1, <2>8, <3>1, <3>2, <3>3
  <2>9. CASE ticked.phase = "OUTCOME"
    <3> DEFINE heart == IF arc.phase # "OUTCOME" THEN caress ELSE reconcile.heart
    <3>1. reconcile' = [arc |-> ticked, heart |-> heart] /\ heart \in BOOLEAN
      BY <1>4, <2>4, <2>9
    <3>2. CASE arc.phase = "OUTCOME"
      <4>1. ticked.spent = s /\ (heart => sinceHeld <= arc.spent)  BY <2>1, <2>2, <2>9, <3>2
      <4>2. heart => sinceHeld' <= ticked.spent  BY <1>1, <1>2, <1>3, <2>6, <4>1
      <4>3. QED  BY <1>5, <2>1, <2>9, <3>1, <4>2
    <3>3. CASE arc.phase # "OUTCOME"
      <4>1. held + Dt >= Whole  BY <1>1, <1>2, <2>1, <2>2, <2>6, <2>9, <3>3 DEF Acts
      <4>2. caress => sinceHeld' = 0  BY <1>1, <1>2, <1>3, <4>1
      <4>3. heart => sinceHeld' <= ticked.spent  BY <2>3, <3>3, <4>2
      <4>4. QED  BY <1>5, <2>1, <2>9, <3>1, <4>3
    <3>4. QED  BY <3>2, <3>3
  <2>10. QED  BY <2>7, <2>8, <2>9
<1>9. QED  BY <1>7, <1>8

LEMMA PeaceStart == PeaceInit => PeaceInv
<1> SUFFICES ASSUME PeaceInit PROVE PeaceInv  OBVIOUS
<1>1. reconcile = [arc |-> [phase |-> "IDLE", spent |-> 0, rest |-> 0], heart |-> FALSE]
  BY DEF PeaceInit, AtPeace, IdleArc
<1>2. PeaceTypes  BY <1>1, PeaceLengths DEF PeaceInit, PeaceTypes, ArcStates
<1>3. QED
  BY <1>1, <1>2 DEF PeaceInv, CaressLasts, HeartIsFresh, Heart, WithinAct, Running

LEMMA PeaceNext == PeaceInv /\ [PeaceFrame]_peaceVars => PeaceInv'
<1>1. ASSUME PeaceInv, PeaceFrame PROVE PeaceInv'
  <2>1. PICK negative \in BOOLEAN, caress \in BOOLEAN :
          reconcile' = ReconcileTick(reconcile, negative, caress) /\ Caressed(caress)
    BY <1>1 DEF PeaceFrame, Caressed
  <2>2. QED  BY <1>1, <2>1, PeaceStep
<1>2. ASSUME PeaceInv, UNCHANGED peaceVars PROVE PeaceInv'
  BY <1>2 DEF peaceVars, PeaceInv, PeaceTypes, CaressLasts, HeartIsFresh, Heart, WithinAct,
     Running
<1>3. QED  BY <1>1, <1>2

(* The heart comes only of a caress that lasted through the peace, before  *)
(* its last act is over (nb_reconcile_tick, the frame task of main.c).     *)
THEOREM HeartsAreEarned == PeaceSpec => HeartIsEarned
<1>1. ASSUME PeaceInv, PeaceInv', PeaceFrame,
             peak'.active = "HEART", peak.active # "HEART"
      PROVE  sinceHeld' <= ReconcilePlan.OUTCOME
  <2>1. PICK negative \in BOOLEAN, caress \in BOOLEAN, sad \in BOOLEAN,
             intensity \in Intensities, face \in Bodies :
          /\ reconcile' = ReconcileTick(reconcile, negative, caress)
          /\ peak' = PeakFrame(peak, PeakRequested(reconcile', TearsDue(armed, sad, intensity), face),
                               awake, face)
    BY <1>1 DEF PeaceFrame
  <2>2. PeakRequested(reconcile', TearsDue(armed, sad, intensity), face) = "HEART"
    BY <1>1, <2>1 DEF PeakFrame, PeakTick, NoPeak
  <2>3. Heart(reconcile')
    BY <2>2 DEF PeakRequested
  <2>4. /\ sinceHeld' <= reconcile'.arc.spent /\ reconcile'.arc.spent < ReconcilePlan["OUTCOME"]
        /\ reconcile'.arc.spent \in Nat /\ sinceHeld' \in Nat
    BY <1>1, <2>3 DEF PeaceInv, PeaceTypes, ArcStates, HeartIsFresh, Heart, WithinAct, Running
  <2>5. QED  BY <2>4, PeaceLengths
<1>2. PeaceInv /\ PeaceInv' /\ [PeaceFrame]_peaceVars
        => [peak'.active = "HEART" /\ peak.active # "HEART"
              => sinceHeld' <= ReconcilePlan.OUTCOME]_peaceVars
  BY <1>1 DEF peaceVars
<1>3. QED  BY <1>2, PeaceStart, PeaceNext, PTL DEF PeaceSpec, HeartIsEarned

-----------------------------------------------------------------------------
(* The outburst.  The ring knows the last three taps only; what ties it to *)
(* all of them is that for every age up to the window, the ring tells as   *)
(* well as the history whether three, two or one were no older.            *)
Rings == [arc : ArcStates, ages : [0..2 -> 0..TapWindow + 1], count : 0..3, slot : 0..2]
TapSets == SUBSET ((0..TapWindow) \X (1..2))
Since(taps, age) == {tap \in taps : tap[1] <= age}
(* Where in the ring the last tap but k - 1 is. *)
Behind(slot, k) == (slot + 3 - k) % 3
RingTells(g, taps) ==
  \A age \in 0..TapWindow, k \in 1..3 :
    Cardinality(Since(taps, age)) >= k <=> k <= g.count /\ g.ages[Behind(g.slot, k)] <= age
TapsInv == grumpy \in Rings /\ tapped \in TapSets /\ RingTells(grumpy, tapped)

LEMMA OutburstLengths ==
  /\ Dt \in Nat \ {0} /\ TapWindow \in Nat
  /\ \A act \in Acts \cup {"REST"} : GrumpyPlan[act] \in Nat
  /\ GrumpyPlan["EXECUTE"] > Dt
BY ArcsAssumption

LEMMA TapsCount ==
  ASSUME NEW taps \in TapSets
  PROVE  /\ IsFiniteSet(taps)
         /\ \A age : IsFiniteSet(Since(taps, age)) /\ Cardinality(Since(taps, age)) \in Nat
         /\ Since(taps, TapWindow) = taps
<1>1. IsFiniteSet(0..TapWindow) /\ IsFiniteSet(1..2)
  <2>1. \A a, b \in Int : IsFiniteSet(a..b)  BY FS_Interval
  <2>2. 0 \in Int /\ 1 \in Int /\ 2 \in Int /\ TapWindow \in Int  BY OutburstLengths
  <2>3. QED  BY <2>1, <2>2
<1>2. IsFiniteSet((0..TapWindow) \X (1..2))  BY <1>1, FS_Product
<1>3. \A some \in TapSets : IsFiniteSet(some) /\ Cardinality(some) \in Nat
  BY <1>2, FS_Subset, FS_CardinalityType DEF TapSets
<1>4. \A age : Since(taps, age) \in TapSets  BY DEF Since, TapSets
<1>5. Since(taps, TapWindow) = taps  BY DEF Since, TapSets
<1>6. QED  BY <1>3, <1>4, <1>5

(* One step of the slot: what was k - 1 behind is k behind.                *)
LEMMA SlotMoves ==
  ASSUME NEW slot \in 0..2
  PROVE  LET next == (slot + 1) % 3
         IN  /\ next \in 0..2 /\ Behind(next, 1) = slot /\ Behind(next, 3) = next
             /\ \A k \in 2..3 : Behind(next, k) = Behind(slot, k - 1)
             /\ \A k \in 1..2 : Behind(slot, k) # slot
             /\ \A k \in 1..3 : Behind(slot, k) \in 0..2
<1>1. CASE slot = 0  BY <1>1 DEF Behind
<1>2. CASE slot = 1  BY <1>2 DEF Behind
<1>3. CASE slot = 2  BY <1>3 DEF Behind
<1>4. QED  BY <1>1, <1>2, <1>3

(* What a start makes of an arc; to start it twice is to start it once.    *)
LEMMA Starts ==
  ASSUME NEW arc \in ArcStates
  PROVE  /\ StartArc(arc) \in ArcStates /\ StartArc(StartArc(arc)) = StartArc(arc)
         /\ Running(arc) \/ InCooldown(arc) => StartArc(arc) = arc
         /\ ~Running(arc) /\ ~InCooldown(arc) =>
              StartArc(arc).phase = "ORIENT" /\ StartArc(arc).spent = 0
<1>1. [IdleArc EXCEPT !.phase = "ORIENT"] = [phase |-> "ORIENT", spent |-> 0, rest |-> 0]
  BY DEF IdleArc
<1>2. CASE Running(arc) \/ InCooldown(arc)  BY <1>2 DEF StartArc
<1>3. CASE ~Running(arc) /\ ~InCooldown(arc)
  <2>1. StartArc(arc) = [phase |-> "ORIENT", spent |-> 0, rest |-> 0]
    BY <1>1, <1>3 DEF StartArc
  <2>2. Running(StartArc(arc))  BY <2>1 DEF Running
  <2>3. StartArc(StartArc(arc)) = StartArc(arc)  BY <2>2 DEF StartArc
  <2>4. QED  BY <2>1, <2>3, <1>3 DEF ArcStates, Acts
<1>4. QED  BY <1>2, <1>3

(* A tap: one more in the history and in the ring, and the arc starts when *)
(* it is the third within the window.                                      *)
LEMMA RingTaps ==
  ASSUME NEW g \in Rings, NEW taps \in TapSets, RingTells(g, taps),
         NEW n \in 1..2, <<0, n>> \notin taps
  PROVE  /\ taps \cup {<<0, n>>} \in TapSets /\ OnTap(g) \in Rings
         /\ RingTells(OnTap(g), taps \cup {<<0, n>>})
         /\ OnTap(g).arc = IF Cardinality(taps \cup {<<0, n>>}) >= 3 THEN StartArc(g.arc)
                                                                    ELSE g.arc
<1> DEFINE all == taps \cup {<<0, n>>}
           ages == [g.ages EXCEPT ![g.slot] = 0]
           count == IF g.count < 3 THEN g.count + 1 ELSE g.count
           slot == (g.slot + 1) % 3
           arc == IF count = 3 /\ ages[slot] <= TapWindow THEN StartArc(g.arc) ELSE g.arc
<1>1. /\ g.arc \in ArcStates /\ g.ages \in [0..2 -> 0..TapWindow + 1]
      /\ g.count \in 0..3 /\ g.slot \in 0..2 /\ TapWindow \in Nat
  BY OutburstLengths DEF Rings
<1>2. OnTap(g) = [arc |-> arc, ages |-> ages, count |-> count, slot |-> slot]
  BY DEF OnTap, Threshold
<1>3. /\ ages \in [0..2 -> 0..TapWindow + 1] /\ ages[g.slot] = 0
      /\ \A i \in 0..2 : i # g.slot => ages[i] = g.ages[i]
  BY <1>1
<1>4. count \in 0..3 /\ \A k \in 2..3 : k <= count <=> k - 1 <= g.count
  BY <1>1
<1>5. 1 <= count  BY <1>1
<1>6. all \in TapSets  BY <1>1 DEF TapSets
<1>7. /\ slot \in 0..2 /\ Behind(slot, 1) = g.slot /\ Behind(slot, 3) = slot
      /\ \A k \in 2..3 : Behind(slot, k) = Behind(g.slot, k - 1)
      /\ \A k \in 1..2 : Behind(g.slot, k) # g.slot
      /\ \A k \in 1..3 : Behind(g.slot, k) \in 0..2
  BY <1>1, SlotMoves
<1>8. ASSUME NEW age \in 0..TapWindow
      PROVE  Cardinality(Since(all, age)) = Cardinality(Since(taps, age)) + 1
  <2>1. Since(all, age) = Since(taps, age) \cup {<<0, n>>}  BY DEF Since
  <2>2. <<0, n>> \notin Since(taps, age)  BY DEF Since
  <2>3. IsFiniteSet(Since(taps, age))  BY TapsCount
  <2>4. QED  BY <2>1, <2>2, <2>3, FS_AddElement
<1> HIDE DEF all, ages, count, slot, arc
<1>9. ASSUME NEW age \in 0..TapWindow, NEW k \in 1..3
      PROVE  Cardinality(Since(all, age)) >= k <=> k <= count /\ ages[Behind(slot, k)] <= age
  <2>1. Cardinality(Since(taps, age)) \in Nat  BY TapsCount
  <2>2. CASE k = 1
    <3>1. ages[Behind(slot, k)] = 0  BY <2>2, <1>7, <1>3
    <3>2. QED  BY <3>1, <2>1, <2>2, <1>8, <1>5, <1>4
  <2>3. CASE k \in 2..3
    <3>1. k - 1 \in 1..3 /\ k - 1 \in 1..2  BY <2>3
    <3>2. ages[Behind(slot, k)] = g.ages[Behind(g.slot, k - 1)]
      BY <3>1, <2>3, <1>7, <1>3
    <3>3. Cardinality(Since(taps, age)) >= k - 1
            <=> k - 1 <= g.count /\ g.ages[Behind(g.slot, k - 1)] <= age
      BY <3>1, Zenon DEF RingTells
    <3>4. k <= count <=> k - 1 <= g.count  BY <1>4, <2>3
    <3>5. Cardinality(Since(all, age)) >= k <=> Cardinality(Since(taps, age)) >= k - 1
      BY <1>8, <2>1
    <3>6. QED  BY <3>2, <3>3, <3>4, <3>5
  <2>4. QED  BY <2>2, <2>3
<1>10. RingTells(OnTap(g), all)
  BY <1>2, <1>9 DEF RingTells
<1>11. arc \in ArcStates  BY <1>1, Starts DEF arc
<1>12. OnTap(g) \in Rings
  BY <1>2, <1>1, <1>3, <1>4, <1>7, <1>11 DEF Rings
<1>13. count = 3 /\ ages[slot] <= TapWindow <=> Cardinality(all) >= 3
  <2>1. Since(all, TapWindow) = all  BY <1>6, TapsCount
  <2>2. TapWindow \in 0..TapWindow /\ 3 \in 1..3  BY <1>1
  <2>3. Cardinality(Since(all, TapWindow)) >= 3
          <=> 3 <= count /\ ages[Behind(slot, 3)] <= TapWindow
    BY <2>2, <1>9
  <2>4. QED  BY <2>1, <2>3, <1>7, <1>4
<1>14. OnTap(g).arc = IF Cardinality(all) >= 3 THEN StartArc(g.arc) ELSE g.arc
  BY <1>2, <1>13 DEF arc
<1>15. QED  BY <1>6, <1>10, <1>12, <1>14 DEF all

(* A frame of time: taps that leave the window are those whose age is      *)
(* capped in the ring.                                                     *)
LEMMA RingAges ==
  ASSUME NEW g \in Rings, NEW taps \in TapSets, RingTells(g, taps)
  PROVE  LET aged == [g EXCEPT !.ages = [i \in DOMAIN @ |-> Older(@[i], TapWindow)]]
         IN  /\ OlderTaps(taps) \in TapSets /\ RingTells(aged, OlderTaps(taps))
             /\ aged \in Rings /\ aged.arc = g.arc
             /\ \A n : <<0, n>> \notin OlderTaps(taps)
<1> DEFINE ages == [i \in 0..2 |-> Older(g.ages[i], TapWindow)]
           aged == [g EXCEPT !.ages = [i \in DOMAIN @ |-> Older(@[i], TapWindow)]]
<1>1. /\ g.arc \in ArcStates /\ g.ages \in [0..2 -> 0..TapWindow + 1]
      /\ g.count \in 0..3 /\ g.slot \in 0..2 /\ TapWindow \in Nat /\ Dt \in Nat \ {0}
      /\ g = [arc |-> g.arc, ages |-> g.ages, count |-> g.count, slot |-> g.slot]
  BY OutburstLengths DEF Rings
<1>2. aged = [arc |-> g.arc, ages |-> ages, count |-> g.count, slot |-> g.slot]
  BY <1>1
<1>3. ASSUME NEW i \in 0..2
      PROVE  /\ ages[i] \in 0..TapWindow + 1
             /\ \A age \in 0..TapWindow : ages[i] <= age <=> g.ages[i] + Dt <= age
  <2>1. g.ages[i] \in 0..TapWindow + 1  BY <1>1
  <2>2. QED  BY <2>1, <1>1 DEF Older, Upto
<1>4. ages \in [0..2 -> 0..TapWindow + 1]  BY <1>3
<1> HIDE DEF ages, aged
<1>5. aged \in Rings /\ aged.arc = g.arc  BY <1>1, <1>2, <1>4 DEF Rings
<1>6. /\ \A tap \in taps : tap \in (0..TapWindow) \X (1..2) /\ tap = <<tap[1], tap[2]>>
                             /\ tap[1] \in Nat
      /\ \A tap \in OlderTaps(taps) : tap[1] >= Dt
  <2>1. \A tap \in taps : tap \in (0..TapWindow) \X (1..2)  BY DEF TapSets
  <2>2. QED  BY <2>1, <1>1 DEF OlderTaps, Recent
<1>7. OlderTaps(taps) \in TapSets
  BY <1>6, <1>1 DEF TapSets, OlderTaps, Recent
<1>8. \A n : <<0, n>> \notin OlderTaps(taps)
  BY <1>6, <1>1
<1>9. ASSUME NEW age \in 0..TapWindow, age >= Dt
      PROVE  Cardinality(Since(OlderTaps(taps), age)) = Cardinality(Since(taps, age - Dt))
  <2> DEFINE S == Since(taps, age - Dt)
             T == Since(OlderTaps(taps), age)
             f == [tap \in S |-> <<tap[1] + Dt, tap[2]>>]
  <2>1. \A tap \in S : tap \in taps /\ tap[1] <= age - Dt  BY DEF Since
  <2>2. \A tap \in S : f[tap] \in T
    BY <2>1, <1>1, <1>6 DEF Since, OlderTaps, Recent
  <2>3. \A a, b \in S : f[a] = f[b] => a = b
    <3>1. SUFFICES ASSUME NEW a \in S, NEW b \in S, f[a] = f[b] PROVE a = b  OBVIOUS
    <3>2. a[1] + Dt = b[1] + Dt /\ a[2] = b[2]  BY <3>1
    <3>3. a[1] \in Nat /\ b[1] \in Nat /\ a = <<a[1], a[2]>> /\ b = <<b[1], b[2]>>
      BY <2>1, <1>6
    <3>4. a[1] = b[1]  BY <3>2, <3>3, <1>1
    <3>5. QED  BY <3>2, <3>3, <3>4
  <2>4. \A u \in T : \E tap \in S : f[tap] = u
    <3>1. SUFFICES ASSUME NEW u \in T PROVE \E tap \in S : f[tap] = u  OBVIOUS
    <3>2. PICK tap \in taps : u = <<tap[1] + Dt, tap[2]>>
      BY DEF Since, OlderTaps, Recent
    <3>3. u[1] <= age  BY DEF Since
    <3>4. tap[1] <= age - Dt  BY <3>2, <3>3, <1>1, <1>6
    <3>5. tap \in S  BY <3>4 DEF Since
    <3>6. QED  BY <3>5, <3>2
  <2>5. IsFiniteSet(S)  BY TapsCount
  <2> HIDE DEF S, T
  <2>6. f \in Bijection(S, T)
    BY <2>2, <2>3, <2>4 DEF Bijection, Injection, Surjection, IsInjective
  <2>7. ExistsBijection(S, T)  BY <2>6 DEF ExistsBijection
  <2>8. Cardinality(T) = Cardinality(S)  BY <2>5, <2>7, FS_Bijection
  <2>9. QED  BY <2>8 DEF S, T
<1>10. ASSUME NEW age \in 0..TapWindow, age < Dt
       PROVE  Cardinality(Since(OlderTaps(taps), age)) = 0
  <2>1. \A tap \in OlderTaps(taps) : tap[1] >= Dt /\ tap[1] \in Nat
    BY <1>6, <1>7 DEF TapSets
  <2>2. Since(OlderTaps(taps), age) = {}  BY <2>1, <1>1, <1>10 DEF Since
  <2>3. QED  BY <2>2, FS_EmptySet
<1>11. ASSUME NEW age \in 0..TapWindow, NEW k \in 1..3
       PROVE  Cardinality(Since(OlderTaps(taps), age)) >= k
                <=> k <= g.count /\ ages[Behind(g.slot, k)] <= age
  <2> DEFINE i == Behind(g.slot, k)
  <2>1. i \in 0..2 /\ g.ages[i] \in Nat  BY <1>1, SlotMoves
  <2>2. ages[i] <= age <=> g.ages[i] + Dt <= age  BY <2>1, <1>3
  <2> HIDE DEF i
  <2>3. CASE age < Dt  BY <2>3, <1>10, <2>1, <2>2, <1>1 DEF i
  <2>4. CASE age >= Dt
    <3>1. age - Dt \in 0..TapWindow  BY <2>4, <1>1
    <3>2. Cardinality(Since(taps, age - Dt)) >= k <=> k <= g.count /\ g.ages[i] <= age - Dt
      BY <3>1, Zenon DEF RingTells, i
    <3>3. g.ages[i] <= age - Dt <=> g.ages[i] + Dt <= age  BY <2>1, <1>1
    <3>4. Cardinality(Since(OlderTaps(taps), age)) = Cardinality(Since(taps, age - Dt))
      BY <2>4, <1>9
    <3>5. QED  BY <3>2, <3>3, <3>4, <2>2 DEF i
  <2>5. QED  BY <2>3, <2>4, <1>1
<1>12. RingTells(aged, OlderTaps(taps))  BY <1>2, <1>11 DEF RingTells
<1>13. QED  BY <1>5, <1>7, <1>8, <1>12 DEF aged

(* The arc of the outburst: one that rests stays at rest for the frame,    *)
(* one that has just started lasts longer than a frame.                    *)
LEMMA OutburstTicks ==
  ASSUME NEW arc \in ArcStates
  PROVE  /\ TickArc(arc, GrumpyPlan, Dt) \in ArcStates
         /\ ~Running(arc) => ~Running(TickArc(arc, GrumpyPlan, Dt))
         /\ arc.phase = "ORIENT" /\ arc.spent = 0 => Running(TickArc(arc, GrumpyPlan, Dt))
<1>1. /\ arc.phase \in Acts \cup {"IDLE"} /\ arc.spent \in Nat /\ arc.rest \in Nat
      /\ arc = [phase |-> arc.phase, spent |-> arc.spent, rest |-> arc.rest]
  BY DEF ArcStates
<1>2. ASSUME NEW a \in ArcStates
      PROVE  Passed(a, GrumpyPlan) \in ArcStates
  <2>1. a.phase \in Acts \cup {"IDLE"} /\ a.spent \in Nat /\ a.rest \in Nat
    BY DEF ArcStates
  <2>2. CASE ~Running(a) \/ a.spent < GrumpyPlan[a.phase]  BY <2>2 DEF Passed
  <2>3. CASE /\ Running(a) /\ ~(a.spent < GrumpyPlan[a.phase]) /\ a.phase = "OUTCOME"
    <3>1. Passed(a, GrumpyPlan) = [IdleArc EXCEPT !.rest = GrumpyPlan.REST]
      BY <2>3 DEF Passed
    <3>2. GrumpyPlan["REST"] \in Nat  BY OutburstLengths
    <3>3. QED  BY <3>1, <3>2 DEF IdleArc, ArcStates
  <2>4. CASE /\ Running(a) /\ ~(a.spent < GrumpyPlan[a.phase]) /\ a.phase # "OUTCOME"
    <3>1. a.phase \in {"ORIENT", "EXECUTE"}  BY <2>4, <2>1 DEF Running, Acts
    <3>2. GrumpyPlan[a.phase] \in Nat  BY <3>1, OutburstLengths DEF Acts
    <3>3. a.spent - GrumpyPlan[a.phase] \in Nat  BY <2>4, <3>2, <2>1
    <3>4. Following[a.phase] \in Acts  BY <3>1 DEF Following, Acts
    <3>5. Passed(a, GrumpyPlan)
            = [a EXCEPT !.phase = Following[@], !.spent = @ - GrumpyPlan[a.phase]]
      BY <2>4 DEF Passed
    <3>6. QED  BY <3>3, <3>4, <3>5 DEF ArcStates
  <2>5. QED  BY <2>2, <2>3, <2>4
<1> DEFINE later == IF Running(arc) THEN [arc EXCEPT !.spent = @ + Dt]
                    ELSE [arc EXCEPT !.rest = IF @ > Dt THEN @ - Dt ELSE 0]
<1>3. TickArc(arc, GrumpyPlan, Dt)
        = Passed(Passed(Passed(later, GrumpyPlan), GrumpyPlan), GrumpyPlan)
  BY DEF TickArc
<1>4. later \in ArcStates /\ later.phase = arc.phase
  BY <1>1, OutburstLengths DEF ArcStates, Running
<1>5. Running(arc) => later.spent = arc.spent + Dt  BY <1>1
<1> HIDE DEF later
<1>6. TickArc(arc, GrumpyPlan, Dt) \in ArcStates  BY <1>2, <1>3, <1>4
<1>7. ASSUME ~Running(arc) PROVE ~Running(TickArc(arc, GrumpyPlan, Dt))
  <2>1. ~Running(later)  BY <1>4, <1>7 DEF Running
  <2>2. Passed(later, GrumpyPlan) = later  BY <2>1 DEF Passed
  <2>3. QED  BY <2>1, <2>2, <1>3
<1>8. ASSUME arc.phase = "ORIENT", arc.spent = 0
      PROVE  Running(TickArc(arc, GrumpyPlan, Dt))
  <2> DEFINE O == GrumpyPlan["ORIENT"]
             E == GrumpyPlan["EXECUTE"]
  <2>1. O \in Nat /\ E \in Nat /\ E > Dt /\ Dt \in Nat  BY OutburstLengths DEF Acts
  <2>2. later.phase = "ORIENT" /\ later.spent = Dt
    BY <1>8, <1>4, <1>5, <2>1 DEF Running
  <2>3. CASE Dt < O
    <3>1. Passed(later, GrumpyPlan) = later  BY <2>2, <2>3 DEF Passed
    <3>2. QED  BY <3>1, <1>3, <2>2 DEF Running
  <2>4. CASE Dt >= O
    <3> DEFINE onset == Passed(later, GrumpyPlan)
    <3>1. onset = [later EXCEPT !.phase = Following[@], !.spent = @ - O]
      BY <2>1, <2>2, <2>4 DEF Passed, Running
    <3>2. onset.phase = "EXECUTE" /\ onset.spent = Dt - O
      BY <3>1, <2>2, <1>4 DEF ArcStates, Following
    <3> HIDE DEF onset
    <3>3. onset.spent < GrumpyPlan[onset.phase]  BY <3>2, <2>1
    <3>4. Passed(onset, GrumpyPlan) = onset  BY <3>3 DEF Passed
    <3>5. QED  BY <3>2, <3>4, <1>3 DEF onset, Running
  <2>5. QED  BY <2>1, <2>3, <2>4
<1>9. QED  BY <1>6, <1>7, <1>8

(* The taps of a frame, one after the other.                               *)
LEMMA FrameTaps ==
  ASSUME NEW g \in Rings, NEW taps \in TapSets, RingTells(g, taps),
         \A n : <<0, n>> \notin taps, NEW n \in 0..2
  PROVE  \A hit, all :
           /\ hit = CASE n = 0 -> g [] n = 1 -> OnTap(g) [] n = 2 -> OnTap(OnTap(g))
           /\ all = taps \cup {<<0, m>> : m \in 1..n}
           => /\ hit \in Rings /\ all \in TapSets /\ RingTells(hit, all)
              /\ hit.arc = IF <<0, 1>> \in all /\ Cardinality(all) >= Threshold
                           THEN StartArc(g.arc) ELSE g.arc
<1> SUFFICES ASSUME NEW hit, NEW all,
                    hit = CASE n = 0 -> g [] n = 1 -> OnTap(g) [] n = 2 -> OnTap(OnTap(g)),
                    all = taps \cup {<<0, m>> : m \in 1..n}
             PROVE  /\ hit \in Rings /\ all \in TapSets /\ RingTells(hit, all)
                    /\ hit.arc = IF <<0, 1>> \in all /\ Cardinality(all) >= Threshold
                                 THEN StartArc(g.arc) ELSE g.arc
  OBVIOUS
<1> DEFINE first == taps \cup {<<0, 1>>}
           both == first \cup {<<0, 2>>}
<1>1. CASE n = 0
  <2>1. all = taps /\ hit = g /\ <<0, 1>> \notin all  BY <1>1
  <2>2. QED  BY <2>1
<1>2. /\ first \in TapSets /\ RingTells(OnTap(g), first) /\ OnTap(g) \in Rings
      /\ OnTap(g).arc = IF Cardinality(first) >= 3 THEN StartArc(g.arc) ELSE g.arc
  <2>1. 1 \in 1..2 /\ <<0, 1>> \notin taps  OBVIOUS
  <2>2. QED  BY <2>1, RingTaps, Zenon
<1>3. CASE n = 1
  <2>1. all = first /\ hit = OnTap(g) /\ <<0, 1>> \in all  BY <1>3
  <2>2. QED  BY <1>2, <2>1 DEF Threshold
<1>4. CASE n = 2
  <2>1. <<0, 2>> \notin first  OBVIOUS
  <2>2. /\ both \in TapSets /\ RingTells(OnTap(OnTap(g)), both) /\ OnTap(OnTap(g)) \in Rings
        /\ OnTap(OnTap(g)).arc = IF Cardinality(both) >= 3
                                 THEN StartArc(OnTap(g).arc) ELSE OnTap(g).arc
    <3> HIDE DEF first
    <3>1. 2 \in 1..2  OBVIOUS
    <3>2. QED  BY <1>2, <2>1, <3>1, RingTaps, Zenon
  <2>3. 1..2 = {1, 2}  OBVIOUS
  <2>4. all = both /\ hit = OnTap(OnTap(g)) /\ <<0, 1>> \in all  BY <1>4, <2>3
  <2>5. Cardinality(both) = Cardinality(first) + 1 /\ Cardinality(first) \in Nat
    <3>1. IsFiniteSet(first)  BY <1>2, TapsCount
    <3>2. QED  BY <3>1, <2>1, FS_AddElement, FS_CardinalityType
  <2>6. g.arc \in ArcStates  BY DEF Rings
  <2>7. StartArc(StartArc(g.arc)) = StartArc(g.arc)  BY <2>6, Starts
  <2> HIDE DEF both, first
  <2>8. OnTap(OnTap(g)).arc = IF Cardinality(both) >= 3 THEN StartArc(g.arc) ELSE g.arc
    BY <2>2, <1>2, <2>5, <2>7
  <2>9. QED  BY <2>2, <2>4, <2>8 DEF Threshold
<1>5. QED  BY <1>1, <1>3, <1>4

LEMMA OutburstStep ==
  ASSUME TapsInv, OutburstFrame
  PROVE  /\ TapsInv'
         /\ ~Running(grumpy.arc) =>
              (Running(grumpy'.arc) <=> /\ <<0, 1>> \in tapped' /\ Cardinality(tapped') >= Threshold
                                        /\ ~InCooldown(grumpy.arc))
<1>1. PICK n \in 0..2 : /\ grumpy' = GrumpyFrame(grumpy, n)
                        /\ tapped' = OlderTaps(tapped) \cup {<<0, m>> : m \in 1..n}
  BY DEF OutburstFrame
<1> DEFINE aged == [grumpy EXCEPT !.ages = [i \in DOMAIN @ |-> Older(@[i], TapWindow)]]
           hit == CASE n = 0 -> aged [] n = 1 -> OnTap(aged) [] n = 2 -> OnTap(OnTap(aged))
           due == <<0, 1>> \in tapped' /\ Cardinality(tapped') >= Threshold
<1>2. /\ OlderTaps(tapped) \in TapSets /\ RingTells(aged, OlderTaps(tapped))
      /\ aged \in Rings /\ aged.arc = grumpy.arc
      /\ \A m : <<0, m>> \notin OlderTaps(tapped)
  BY RingAges DEF TapsInv
<1>3. grumpy' = [hit EXCEPT !.arc = TickArc(@, GrumpyPlan, Dt)]
  BY <1>1 DEF GrumpyFrame
<1> HIDE DEF aged
<1>4. hit = CASE n = 0 -> aged [] n = 1 -> OnTap(aged) [] n = 2 -> OnTap(OnTap(aged))
  OBVIOUS
<1> HIDE DEF hit
<1>5. /\ hit \in Rings /\ tapped' \in TapSets /\ RingTells(hit, tapped')
      /\ hit.arc = IF due THEN StartArc(grumpy.arc) ELSE grumpy.arc
  BY <1>1, <1>2, <1>4, FrameTaps
<1> HIDE DEF due
<1>6. /\ hit.arc \in ArcStates /\ grumpy.arc \in ArcStates
      /\ grumpy'.arc = TickArc(hit.arc, GrumpyPlan, Dt)
      /\ grumpy'.ages = hit.ages /\ grumpy'.count = hit.count /\ grumpy'.slot = hit.slot
  BY <1>3, <1>5 DEF Rings, TapsInv
<1>7. grumpy' \in Rings
  BY <1>3, <1>5, <1>6, OutburstTicks DEF Rings
<1>8. RingTells(grumpy', tapped')
  BY <1>5, <1>6 DEF RingTells
<1>9. ASSUME ~Running(grumpy.arc)
      PROVE  Running(grumpy'.arc) <=> due /\ ~InCooldown(grumpy.arc)
  <2>1. CASE due /\ ~InCooldown(grumpy.arc)
    <3>1. hit.arc.phase = "ORIENT" /\ hit.arc.spent = 0
      BY <1>5, <1>6, <1>9, <2>1, Starts
    <3>2. QED  BY <3>1, <1>6, <2>1, OutburstTicks
  <2>2. CASE ~(due /\ ~InCooldown(grumpy.arc))
    <3>1. hit.arc = grumpy.arc  BY <1>5, <1>6, <2>2, Starts
    <3>2. QED  BY <3>1, <1>6, <1>9, <2>2, OutburstTicks
  <2>3. QED  BY <2>1, <2>2
<1>10. QED  BY <1>5, <1>7, <1>8, <1>9 DEF TapsInv, due

LEMMA OutburstStart == OutburstInit => TapsInv
<1> SUFFICES ASSUME OutburstInit PROVE TapsInv  OBVIOUS
<1>1. /\ grumpy = [arc |-> [phase |-> "IDLE", spent |-> 0, rest |-> 0],
                   ages |-> [i \in 0..2 |-> 0], count |-> 0, slot |-> 0]
      /\ tapped = {}
  BY DEF OutburstInit, Calm, IdleArc, Threshold
<1>2. grumpy \in Rings /\ tapped \in TapSets
  BY <1>1, OutburstLengths DEF Rings, ArcStates, TapSets
<1>3. \A age : Since(tapped, age) = {}  BY <1>1 DEF Since
<1>4. RingTells(grumpy, tapped)  BY <1>1, <1>3, FS_EmptySet DEF RingTells
<1>5. QED  BY <1>2, <1>4 DEF TapsInv

(* An outburst comes in the frame of the tap that makes three within the   *)
(* window, whatever three, and of no other (nb_grumpy_forgive_on_tap).     *)
THEOREM OutburstsAreEarned == OutburstSpec => OutburstIsEarned
<1>1. TapsInv /\ [OutburstFrame]_outburstVars => TapsInv'
  <2>1. TapsInv /\ UNCHANGED outburstVars => TapsInv'
    BY DEF outburstVars, TapsInv, RingTells, Since
  <2>2. QED  BY <2>1, OutburstStep
<1>2. TapsInv /\ [OutburstFrame]_outburstVars
        => [~Running(grumpy.arc) =>
              (Running(grumpy'.arc) <=> /\ <<0, 1>> \in tapped' /\ Cardinality(tapped') >= Threshold
                                        /\ ~InCooldown(grumpy.arc))]_outburstVars
  BY OutburstStep DEF outburstVars
<1>3. QED  BY <1>1, <1>2, OutburstStart, PTL DEF OutburstSpec, OutburstIsEarned

-----------------------------------------------------------------------------
(* The lids.  When each kind of motif has them shut.                       *)
Left(m) == m.lasts - m.elapsed
MotifType(m) == m.elapsed \in Nat /\ m.lasts \in Nat
ShutNow(m) ==
  \/ m.kind = "BLINK_BAR"
  \/ m.kind = "DOUBLE_BLINK" /\ (m.elapsed < 100 \/ Left(m) <= 100)
  \/ m.kind = "CHECK_IN" /\ Left(m) \in 51..150
  \/ m.kind = "SLOW_BLINK" /\ 20 * m.elapsed >= 7 * m.lasts /\ 20 * m.elapsed <= 13 * m.lasts

LEMMA WideEnvelope ==
  ASSUME NEW m, MotifType(m), m.elapsed <= m.lasts
  PROVE  Envelope(m) \in Nat
<1> DEFINE edge == Least(m.elapsed, m.lasts - m.elapsed)
<1>1. edge \in Nat  BY DEF MotifType, Least
<1> HIDE DEF edge
<1>2. CASE edge >= 200
  <2>1. Envelope(m) = 1000  BY <1>1, <1>2 DEF Envelope, edge
  <2>2. QED  BY <2>1
<1>3. CASE edge < 200
  <2> DEFINE x == 5 * edge
             p == x * x * (3000 - 2 * x)
  <2>1. x \in Nat /\ x <= 1000 /\ x * x \in Nat /\ 3000 - 2 * x \in Nat  BY <1>1, <1>3
  <2> DEFINE y == x * x  z == 3000 - 2 * x
  <2>2. p = y * z /\ y \in Nat /\ z \in Nat  BY <2>1
  <2> HIDE DEF y, z, p
  <2>3. p \in Nat  BY <2>2
  <2>4. p \div 1000000 \in Nat  BY <2>3
  <2>5. Envelope(m) = p \div 1000000  BY <1>3 DEF Envelope, Smooth, edge, p
  <2>6. QED  BY <2>4, <2>5
<1>4. QED  BY <1>1, <1>2, <1>3

(* The parabola of the slow blink is under ten hundredths for three tenths *)
(* of its length around the middle.                                        *)
LEMMA SlowMiddle ==
  ASSUME NEW e \in Nat, NEW l \in Nat \ {0}, e <= l,
         100 - (400 * e * (l - e)) \div (l * l) < 10
  PROVE  20 * e >= 7 * l /\ 20 * e <= 13 * l
<1> DEFINE a == 400 * e * (l - e)
           b == l * l
           u == 2 * e - l
<1>1. u \in Int /\ l - e \in Nat /\ b \in Nat \ {0} /\ a \in Nat /\ u * u \in Nat  OBVIOUS
<1>2. a = 100 * b - 100 * (u * u)  OBVIOUS
<1>3. a \div b >= 91  BY <1>1
<1>4. a >= 91 * b
  <2> HIDE DEF a, b
  <2> DEFINE q == a \div b
  <2>1. q \in Nat /\ a >= b * q  BY <1>1
  <2>2. q >= 91  BY <1>3
  <2> HIDE DEF q
  <2>3. b * q >= b * 91  BY <1>1, <2>1, <2>2
  <2>4. QED  BY <1>1, <2>1, <2>3
<1>5. 100 * (u * u) <= 9 * b
  <2> DEFINE w == u * u
  <2> HIDE DEF a, b, w
  <2>1. QED  BY <1>1, <1>2, <1>4 DEF w
<1>6. 10 * u <= 3 * l /\ -(10 * u) <= 3 * l
  <2>1. ASSUME NEW v \in Nat, v * v = u * u, 10 * v > 3 * l PROVE FALSE
    <3>1. (10 * v) * (10 * v) > (3 * l) * (3 * l)  BY <2>1
    <3>2. (10 * v) * (10 * v) = 100 * (u * u)  BY <2>1
    <3>3. (3 * l) * (3 * l) = 9 * b  OBVIOUS
    <3>4. QED  BY <1>1, <1>5, <3>1, <3>2, <3>3
  <2>2. CASE u >= 0
    <3>1. ~(10 * u > 3 * l)  BY <1>1, <2>1, <2>2
    <3>2. QED  BY <1>1, <2>2, <3>1
  <2>3. CASE u < 0
    <3>1. -u \in Nat /\ (-u) * (-u) = u * u  BY <1>1, <2>3
    <3>2. ~(10 * (-u) > 3 * l)  BY <2>1, <3>1
    <3>3. QED  BY <1>1, <2>3, <3>2
  <2>4. QED  BY <1>1, <2>2, <2>3
<1>7. QED  BY <1>6

(* On no mood is a lid of ten hundredths or more a line.                   *)
LEMMA OpenEnough ==
  ASSUME NEW v \in Int, NEW open \in Openings, v * open < 300
  PROVE  v < 10
<1>1. open \in Int /\ open >= 30  BY IdleAssumption
<1>2. SUFFICES ASSUME v >= 10 PROVE FALSE  OBVIOUS
<1>3. v * open >= 10 * open  BY <1>1, <1>2
<1>4. QED  BY <1>1, <1>3

LEMMA LidsShut ==
  ASSUME NEW m, MotifType(m), m.elapsed <= m.lasts, NEW open \in Openings, Shut(m, open),
         m.kind = "SLOW_BLINK" => m.lasts # 0
  PROVE  ShutNow(m)
<1>1. Openness(m) * open < 300 /\ m.elapsed \in Nat /\ m.lasts \in Nat
  BY DEF Shut, MotifType
<1>2. CASE m.kind = "BLINK_BAR"  BY <1>2 DEF ShutNow
<1>3. CASE m.kind = "DOUBLE_BLINK"
  <2>1. Openness(m) = IF m.elapsed < 100 \/ m.lasts - m.elapsed <= 100 THEN 0 ELSE 100
    BY <1>3 DEF Openness
  <2>2. Openness(m) < 10  BY <1>1, <2>1, OpenEnough
  <2>3. QED  BY <1>3, <2>1, <2>2 DEF ShutNow, Left
<1>4. CASE m.kind = "CHECK_IN"
  <2>1. Openness(m) = IF m.lasts - m.elapsed \in 51..150 THEN 0
                      ELSE 100 + (8 * Envelope(m)) \div 1000
    BY <1>4 DEF Openness
  <2>2. Envelope(m) \in Nat  BY WideEnvelope
  <2>3. 8 * Envelope(m) \in Nat  BY <2>2
  <2>4. (8 * Envelope(m)) \div 1000 \in Nat  BY <2>3
  <2>5. Openness(m) < 10  BY <1>1, <2>1, <2>4, OpenEnough
  <2>6. m.lasts - m.elapsed \in 51..150  BY <2>1, <2>4, <2>5
  <2>7. QED  BY <1>4, <2>6 DEF ShutNow, Left
<1>5. CASE m.kind = "SLOW_BLINK"
  <2>1. Openness(m) = 100 - (400 * m.elapsed * (m.lasts - m.elapsed)) \div (m.lasts * m.lasts)
    BY <1>5 DEF Openness
  <2>2. Openness(m) \in Int
    <3> DEFINE a == 400 * m.elapsed * (m.lasts - m.elapsed)  b == m.lasts * m.lasts
    <3>1. a \in Int /\ b \in Nat \ {0}  BY <1>1, <1>5
    <3> HIDE DEF a, b
    <3>2. a \div b \in Int  BY <3>1
    <3>3. QED  BY <2>1, <3>2 DEF a, b
  <2>3. Openness(m) < 10  BY <1>1, <2>2, OpenEnough
  <2>4. 20 * m.elapsed >= 7 * m.lasts /\ 20 * m.elapsed <= 13 * m.lasts
    BY <1>1, <1>5, <2>1, <2>3, SlowMiddle
  <2>5. QED  BY <1>5, <2>4 DEF ShutNow
<1>6. CASE m.kind \notin {"BLINK_BAR", "DOUBLE_BLINK", "CHECK_IN", "SLOW_BLINK"}
  <2>1. Openness(m) = 100  BY <1>6 DEF Openness
  <2>2. Openness(m) < 10  BY <1>1, <2>1, OpenEnough
  <2>3. QED  BY <2>1, <2>2
<1>7. QED  BY <1>2, <1>3, <1>4, <1>5, <1>6

(* For how long, at most, the motif has had them shut.                     *)
Kinds == {"NONE", "BLINK_BAR", "DOUBLE_BLINK", "CHECK_IN", "SLOW_BLINK", "SIGH"}
BlinkKinds == {"BLINK_BAR", "DOUBLE_BLINK"}
ShutFor(frames) == (frames - 1) * Tick
LidTypes ==
  /\ motif \in [kind : Kinds, elapsed : Nat, lasts : Nat]
  /\ motif.kind = "NONE" => motif = NoMotif
  /\ motif.kind = "BLINK_BAR" => motif.lasts \in BlinkBar
  /\ motif.kind = "DOUBLE_BLINK" => motif.lasts \in DoubleBlink
  /\ motif.kind = "CHECK_IN" => motif.lasts = CheckIn
  /\ motif.kind = "SLOW_BLINK" => motif.lasts = SlowBlink
  /\ nowMs \in Nat /\ nowMs < Wrap /\ nextBlink \in Nat /\ shutFrames \in Nat
WithinMotif == motif.elapsed = 0 \/ motif.elapsed < motif.lasts

(* A blink drew its deadline when it began, so the next is not due while   *)
(* it lasts, unless the deadline is past the wrap and the clock is not.    *)
Ahead(began, deadline) ==
  \/ deadline >= began + MinPause
  \/ began + LongestPause >= Wrap /\ deadline >= began + MinPause - Wrap
BlinkIsAhead == motif.kind \in BlinkKinds => Ahead(Began, nextBlink)

ShutIsCounted ==
  shutFrames > 0 =>
    /\ ShutNow(motif)
    /\ motif.kind = "BLINK_BAR" => BeganAtWrap \/ ShutFor(shutFrames) <= motif.elapsed
    /\ motif.kind = "DOUBLE_BLINK" =>
         \/ BeganAtWrap
         \/ ShutFor(shutFrames) <= IF motif.elapsed < 100 THEN motif.elapsed ELSE 100 - Left(motif)
    /\ motif.kind = "CHECK_IN" => ShutFor(shutFrames) <= 150 - Left(motif)
    /\ motif.kind = "SLOW_BLINK" =>
         20 * ShutFor(shutFrames) <= 20 * motif.elapsed - 7 * motif.lasts
LidsInv == LidTypes /\ WithinMotif /\ BlinkIsAhead /\ ShutIsCounted

LEMMA LidLengths ==
  /\ Tick \in 1..49 /\ BlinkBar \subseteq 80..119 /\ DoubleBlink \subseteq 600..1199
  /\ \A lasts \in BlinkBar \cup DoubleBlink : lasts + Tick <= MinPause
  /\ CheckIn \in Nat /\ CheckIn > 150 /\ SlowBlink \in 200..650
  /\ Sigh \in Nat
BY IdleAssumption

LEMMA GestureLengths ==
  /\ CheckIn \in Nat /\ CheckIn > 150 /\ Sigh \in Nat
  /\ SlowBlink \in Nat /\ SlowBlink >= 200 /\ SlowBlink <= 650
BY IdleAssumption

LEMMA BlinkLengths ==
  ASSUME NEW lasts \in BlinkBar \cup DoubleBlink
  PROVE  lasts \in Nat \ {0}
BY IdleAssumption

LEMMA ClockLengths ==
  /\ Tick \in Nat /\ Tick > 0 /\ MinPause \in Nat /\ LongestPause \in Nat /\ Wrap \in Nat
  /\ Tick <= MinPause /\ MinPause <= LongestPause /\ LongestPause < Wrap
  /\ \A pause \in BlinkPauses : pause \in Nat /\ MinPause <= pause /\ pause <= LongestPause
BY IdleAssumption

(* A time drawn ahead is a time, and ahead. *)
LEMMA DrawnAhead ==
  ASSUME NEW t \in Nat, t < Wrap, NEW at \in Deadlines(t)
  PROVE  at \in Nat /\ Ahead(t, at)
<1>1. PICK pause \in BlinkPauses : at = Wrapped(t + pause)  BY DEF Deadlines
<1>2. pause \in Nat /\ MinPause <= pause /\ pause <= LongestPause /\ LongestPause < Wrap
      /\ Wrap \in Nat /\ MinPause \in Nat /\ LongestPause \in Nat
  BY ClockLengths
<1>3. CASE t + pause >= Wrap
  <2>1. at = t + pause - Wrap  BY <1>1, <1>2, <1>3 DEF Wrapped
  <2>2. QED  BY <1>2, <1>3, <2>1 DEF Ahead
<1>4. CASE t + pause < Wrap
  <2>1. at = t + pause  BY <1>1, <1>2, <1>4 DEF Wrapped
  <2>2. QED  BY <1>2, <2>1 DEF Ahead
<1>5. QED  BY <1>2, <1>3, <1>4

(* A tick of the clock. *)
LEMMA ClockTicks ==
  ASSUME NEW t \in Nat, t < Wrap
  PROVE  /\ Wrapped(t + Tick) \in Nat /\ Wrapped(t + Tick) < Wrap
         /\ Wrapped(t + Tick) = t + Tick \/ Wrapped(t + Tick) = t + Tick - Wrap
BY ClockLengths DEF Wrapped

LEMMA OneMore ==
  ASSUME NEW n \in Nat
  PROVE  /\ ShutFor(n + 1) = ShutFor(n) + Tick /\ ShutFor(n) \in Int
         /\ ShutFor(1) = 0 /\ ShutFor(0) = -Tick
BY LidLengths DEF ShutFor

LEMMA EyesStart == IdleInit => LidsInv
<1> SUFFICES ASSUME IdleInit PROVE LidsInv  OBVIOUS
<1>1. motif = NoMotif /\ nowMs = 0 /\ shutFrames = 0 /\ nextBlink \in Deadlines(0)
  BY DEF IdleInit
<1>2. 0 < Wrap /\ Wrap \in Nat  BY ClockLengths
<1>3. nextBlink \in Nat  BY <1>1, <1>2, DrawnAhead
<1>4. LidTypes  BY <1>1, <1>2, <1>3 DEF LidTypes, NoMotif, Motif, Kinds
<1>5. WithinMotif /\ BlinkIsAhead /\ ShutIsCounted
  BY <1>1 DEF WithinMotif, BlinkIsAhead, ShutIsCounted, NoMotif, Motif, BlinkKinds
<1>6. QED  BY <1>4, <1>5 DEF LidsInv

-----------------------------------------------------------------------------
(* A tick: the motif goes on; or a blink begins, in a free slot, when it is*)
(* due or the gaze leaps; or the slot is left to another.                  *)
GoesOn ==
  /\ motif.kind # "NONE" /\ motif' = [motif EXCEPT !.elapsed = @ + Tick]
  /\ motif'.elapsed < motif'.lasts /\ nextBlink' = nextBlink
BlinkBegins ==
  /\ motif' \in Blinks /\ nextBlink' \in Deadlines(nowMs')
  /\ \/ motif.kind = "NONE"
     \/ motif.elapsed + Tick >= motif.lasts /\ nowMs' >= nextBlink
OtherBegins == motif' \in Gestures \cup {NoMotif} /\ nextBlink' = nextBlink
FramesGoOn ==
  /\ nowMs' = Wrapped(nowMs + Tick)
  /\ \E open \in Openings : shutFrames' = IF Shut(motif', open) THEN shutFrames + 1 ELSE 0

LEMMA LeaptIs ==
  ASSUME NEW m, NEW at, NEW t, NEW leaps, NEW leapt \in SaccadeBlink(m, at, t, leaps)
  PROVE  \/ leapt[1] = m /\ leapt[2] = at
         \/ m.kind = "NONE" /\ leapt[1] \in Blinks /\ leapt[2] \in Deadlines(t)
BY DEF SaccadeBlink

LEMMA ChosenIs ==
  ASSUME NEW m, NEW at, NEW t, NEW chosen \in NextMotif(m, at, t)
  PROVE  \/ m.kind # "NONE" /\ chosen[1] = m /\ chosen[2] = at
         \/ m.kind = "NONE" /\ t >= at /\ chosen[1] \in Blinks /\ chosen[2] \in Deadlines(t)
         \/ m.kind = "NONE" /\ chosen[1] \in Gestures \cup {m} /\ chosen[2] = at
<1>1. CASE m.kind # "NONE"
  <2>1. NextMotif(m, at, t) = {<<m, at>>}  BY <1>1 DEF NextMotif
  <2>2. QED  BY <1>1, <2>1
<1>2. CASE m.kind = "NONE" /\ t >= at
  <2>1. NextMotif(m, at, t) = Blinks \X Deadlines(t)  BY <1>2 DEF NextMotif
  <2>2. QED  BY <1>2, <2>1
<1>3. CASE m.kind = "NONE" /\ ~(t >= at)
  <2>1. NextMotif(m, at, t) = ({m} \cup Gestures) \X {at}  BY <1>3 DEF NextMotif
  <2>2. QED  BY <1>3, <2>1
<1>4. QED  BY <1>1, <1>2, <1>3

LEMMA IdleMoves ==
  ASSUME LidsInv, IdleTick
  PROVE  (GoesOn \/ BlinkBegins \/ OtherBegins) /\ FramesGoOn
<1> DEFINE on == IF motif.kind = "NONE" THEN motif ELSE [motif EXCEPT !.elapsed = @ + Tick]
           leaps == gaze' = Leap
<1>1a. \E leapt \in SaccadeBlink(on, nextBlink, nowMs', leaps) :
         \E chosen \in NextMotif(Expired(leapt[1]), leapt[2], nowMs') :
           motif' = chosen[1] /\ nextBlink' = chosen[2]
  BY Zenon DEF IdleTick
<1>1. PICK leapt \in SaccadeBlink(on, nextBlink, nowMs', leaps) :
         \E chosen \in NextMotif(Expired(leapt[1]), leapt[2], nowMs') :
           motif' = chosen[1] /\ nextBlink' = chosen[2]
  BY <1>1a, Zenon
<1>2. PICK chosen \in NextMotif(Expired(leapt[1]), leapt[2], nowMs') :
        motif' = chosen[1] /\ nextBlink' = chosen[2]
  BY <1>1, Zenon
<1>3. FramesGoOn  BY DEF IdleTick, FramesGoOn
<1>4. /\ motif \in [kind : Kinds, elapsed : Nat, lasts : Nat]
      /\ motif.kind = "NONE" => motif = NoMotif
      /\ Tick \in Nat /\ Tick > 0
  BY LidLengths DEF LidsInv, LidTypes
<1> DEFINE m == Expired(leapt[1])
<1>6. \/ leapt[1] = on /\ leapt[2] = nextBlink
      \/ on.kind = "NONE" /\ leapt[1] \in Blinks /\ leapt[2] \in Deadlines(nowMs')
  <2> HIDE DEF on, leaps
  <2>1. leapt \in SaccadeBlink(on, nextBlink, nowMs', leaps)  BY <1>1
  <2>2. QED  BY <2>1, LeaptIs
<1>7. \/ m.kind # "NONE" /\ motif' = m /\ nextBlink' = leapt[2]
      \/ m.kind = "NONE" /\ nowMs' >= leapt[2] /\ motif' \in Blinks /\ nextBlink' \in Deadlines(nowMs')
      \/ m.kind = "NONE" /\ motif' \in Gestures \cup {m} /\ nextBlink' = leapt[2]
  BY <1>2, ChosenIs
<1>8. NoMotif.kind = "NONE"  BY DEF NoMotif, Motif
<1>9. /\ on.kind = motif.kind /\ on.lasts = motif.lasts
      /\ motif.kind # "NONE" => on.elapsed = motif.elapsed + Tick /\ on = [motif EXCEPT !.elapsed = @ + Tick]
      /\ motif.kind = "NONE" => on = NoMotif
  BY <1>4
<1> HIDE DEF on
<1>10. CASE leapt[1] = on /\ leapt[2] = nextBlink
  <2>1. CASE motif.kind # "NONE" /\ on.elapsed < on.lasts
    <3>1. m = on  BY <1>4, <1>9, <1>10, <2>1 DEF Expired
    <3>2. motif' = on /\ nextBlink' = nextBlink  BY <1>7, <1>9, <1>10, <2>1, <3>1
    <3>3. GoesOn  BY <1>9, <2>1, <3>2 DEF GoesOn
    <3>4. QED  BY <1>3, <3>3
  <2>2. CASE motif.kind = "NONE" \/ ~(on.elapsed < on.lasts)
    <3>1. m = NoMotif
      <4>1. CASE motif.kind = "NONE"  BY <1>8, <1>9, <1>10, <4>1 DEF Expired
      <4>2. CASE motif.kind # "NONE"
        <5>1. on.elapsed >= on.lasts  BY <1>4, <1>9, <2>2, <4>2
        <5>2. QED  BY <1>9, <1>10, <4>2, <5>1 DEF Expired
      <4>3. QED  BY <4>1, <4>2
    <3> HIDE DEF m
    <3>2. \/ nowMs' >= nextBlink /\ motif' \in Blinks /\ nextBlink' \in Deadlines(nowMs')
          \/ motif' \in Gestures \cup {NoMotif} /\ nextBlink' = nextBlink
      BY <1>7, <1>8, <1>10, <3>1
    <3>3. motif.kind = "NONE" \/ motif.elapsed + Tick >= motif.lasts  BY <1>4, <1>9, <2>2
    <3>4. QED  BY <1>3, <3>2, <3>3 DEF BlinkBegins, OtherBegins
  <2>3. QED  BY <2>1, <2>2
<1>11. CASE on.kind = "NONE" /\ leapt[1] \in Blinks /\ leapt[2] \in Deadlines(nowMs')
  <2>1. leapt[1].kind # "NONE" /\ leapt[1].elapsed = 0 /\ leapt[1].lasts \in Nat \ {0}
    <3>1. CASE \E t \in BlinkBar : leapt[1] = Motif("BLINK_BAR", t)
      BY <3>1, BlinkLengths DEF Motif
    <3>2. CASE \E t \in DoubleBlink : leapt[1] = Motif("DOUBLE_BLINK", t)
      BY <3>2, BlinkLengths DEF Motif
    <3>3. QED  BY <1>11, <3>1, <3>2 DEF Blinks
  <2>2. m = leapt[1]  BY <2>1 DEF Expired
  <2>3. motif' = leapt[1] /\ nextBlink' \in Deadlines(nowMs')  BY <1>7, <1>11, <2>1, <2>2
  <2>4. BlinkBegins  BY <1>9, <1>11, <2>3 DEF BlinkBegins
  <2>5. QED  BY <1>3, <2>4
<1>12. QED  BY <1>6, <1>10, <1>11

-----------------------------------------------------------------------------
(* What each of the three does to the invariant.                           *)

(* When it began stays the same, or falls back with the clock.             *)
LEMMA SameBeginning ==
  ASSUME LidTypes, GoesOn, FramesGoOn
  PROVE  /\ Began \in Int /\ Began' \in Int /\ Began < Wrap
         /\ Began' = Began \/ Began' = Began - Wrap
         /\ nowMs' \in Nat /\ nowMs' < Wrap
<1>1. nowMs \in Nat /\ nowMs < Wrap /\ Wrap \in Nat /\ Tick \in Nat  BY ClockLengths DEF LidTypes
<1>2. motif.elapsed \in Nat /\ motif'.elapsed = motif.elapsed + Tick
  BY <1>1 DEF LidTypes, GoesOn
<1>3. /\ nowMs' \in Nat /\ nowMs' < Wrap
      /\ nowMs' = nowMs + Tick \/ nowMs' = nowMs + Tick - Wrap
  BY <1>1, ClockTicks DEF FramesGoOn
<1>4. QED  BY <1>1, <1>2, <1>3 DEF Began

LEMMA StillAhead ==
  ASSUME LidsInv, GoesOn, FramesGoOn
  PROVE  BlinkIsAhead' /\ (BeganAtWrap => BeganAtWrap')
<1>1. /\ Began \in Int /\ Began' \in Int /\ Began < Wrap
      /\ Began' = Began \/ Began' = Began - Wrap
  BY SameBeginning DEF LidsInv
<1>2. motif'.kind = motif.kind /\ nextBlink' = nextBlink /\ nextBlink \in Nat
  BY DEF LidsInv, LidTypes, GoesOn
<1>3. MinPause \in Nat /\ LongestPause \in Nat /\ Wrap \in Nat  BY ClockLengths
<1>4. BlinkIsAhead'
  <2> SUFFICES ASSUME motif'.kind \in BlinkKinds PROVE Ahead(Began', nextBlink')
    BY DEF BlinkIsAhead, Ahead
  <2>1. Ahead(Began, nextBlink)  BY <1>2 DEF LidsInv, BlinkIsAhead
  <2> DEFINE b == Began  c == Began'
  <2>2. b \in Int /\ c \in Int /\ b < Wrap /\ (c = b \/ c = b - Wrap) /\ Ahead(b, nextBlink)
    BY <1>1, <2>1
  <2> HIDE DEF b, c
  <2>3. Ahead(c, nextBlink)  BY <1>2, <1>3, <2>2 DEF Ahead
  <2>4. QED  BY <1>2, <2>3 DEF c
<1>5. ASSUME BeganAtWrap PROVE BeganAtWrap'
  <2> DEFINE b == Began  c == Began'
  <2>1. motif'.kind \in {"BLINK_BAR", "DOUBLE_BLINK"} /\ (b < 0 \/ b + LongestPause >= Wrap)
    BY <1>2, <1>5 DEF BeganAtWrap
  <2>2. b \in Int /\ c \in Int /\ b < Wrap /\ (c = b \/ c = b - Wrap)  BY <1>1
  <2> HIDE DEF b, c
  <2>3. c < 0 \/ c + LongestPause >= Wrap  BY <1>3, <2>1, <2>2
  <2>4. QED  BY <2>1, <2>3 DEF BeganAtWrap, c
<1>6. QED  BY <1>4, <1>5

LEMMA StillCounted ==
  ASSUME LidsInv, GoesOn, FramesGoOn
  PROVE  LidsInv'
<1> DEFINE m == motif'
<1>1. /\ motif \in [kind : Kinds, elapsed : Nat, lasts : Nat]
      /\ motif.kind \in Kinds /\ motif.elapsed \in Nat /\ motif.lasts \in Nat
      /\ nextBlink \in Nat /\ shutFrames \in Nat
  BY DEF LidsInv, LidTypes
<1>2. /\ m \in [kind : Kinds, elapsed : Nat, lasts : Nat]
      /\ m.kind = motif.kind /\ m.lasts = motif.lasts /\ m.elapsed = motif.elapsed + Tick
      /\ m.kind # "NONE" /\ m.elapsed < m.lasts /\ m.elapsed \in Nat /\ m.lasts \in Nat
  BY <1>1, LidLengths DEF GoesOn
<1>3. /\ m.kind = "BLINK_BAR" => m.lasts \in BlinkBar
      /\ m.kind = "DOUBLE_BLINK" => m.lasts \in DoubleBlink
      /\ m.kind = "CHECK_IN" => m.lasts = CheckIn
      /\ m.kind = "SLOW_BLINK" => m.lasts = SlowBlink
  BY <1>2 DEF LidsInv, LidTypes
<1>4. nextBlink' \in Nat /\ nowMs' \in Nat /\ nowMs' < Wrap
  BY <1>1, SameBeginning DEF GoesOn, LidsInv
<1>5a. PICK open \in Openings : shutFrames' = IF Shut(m, open) THEN shutFrames + 1 ELSE 0
  BY DEF FramesGoOn
<1>5. shutFrames' \in Nat /\ (shutFrames' > 0 => Shut(m, open) /\ shutFrames' = shutFrames + 1)
  <2>1. CASE Shut(m, open)  BY <2>1, <1>1, <1>5a
  <2>2. CASE ~Shut(m, open)  BY <2>2, <1>1, <1>5a
  <2>3. QED  BY <2>1, <2>2
<1>6. ShutFor(shutFrames + 1) = ShutFor(shutFrames) + Tick /\ ShutFor(shutFrames) \in Int
      /\ ShutFor(0) = -Tick
  BY <1>1, OneMore
<1>7. shutFrames' > 0 => ShutNow(m)  BY <1>2, <1>3, <1>5, LidsShut, LidLengths DEF MotifType
<1>8. LidTypes'
  BY <1>2, <1>3, <1>4, <1>5 DEF LidTypes
<1>9. WithinMotif' /\ BlinkIsAhead'  BY <1>2, StillAhead DEF WithinMotif
<1>10. ShutIsCounted'
  <2> DEFINE shut == ShutFor(shutFrames')
             before == ShutFor(shutFrames)
             atWrap == BeganAtWrap'
  <2> SUFFICES ASSUME shutFrames' > 0
               PROVE  /\ ShutNow(m)
                      /\ m.kind = "BLINK_BAR" => atWrap \/ shut <= m.elapsed
                      /\ m.kind = "DOUBLE_BLINK" =>
                           \/ atWrap
                           \/ shut <= IF m.elapsed < 100 THEN m.elapsed ELSE 100 - Left(m)
                      /\ m.kind = "CHECK_IN" => shut <= 150 - Left(m)
                      /\ m.kind = "SLOW_BLINK" => 20 * shut <= 20 * m.elapsed - 7 * m.lasts
    BY DEF ShutIsCounted, ShutFor, Left, ShutNow
  <2>1. ShutNow(m) /\ shut = before + Tick /\ before \in Int  BY <1>5, <1>6, <1>7
  <2>2. shutFrames = 0 => before = -Tick  BY <1>6
  <2>3. shutFrames > 0 =>
          /\ ShutNow(motif)
          /\ motif.kind = "BLINK_BAR" => BeganAtWrap \/ before <= motif.elapsed
          /\ motif.kind = "DOUBLE_BLINK" =>
               \/ BeganAtWrap
               \/ before <= IF motif.elapsed < 100 THEN motif.elapsed ELSE 100 - Left(motif)
          /\ motif.kind = "CHECK_IN" => before <= 150 - Left(motif)
          /\ motif.kind = "SLOW_BLINK" => 20 * before <= 20 * motif.elapsed - 7 * motif.lasts
    BY DEF LidsInv, ShutIsCounted
  <2>4. shutFrames = 0 \/ shutFrames > 0  BY <1>1
  <2>5. Tick \in 1..49  BY LidLengths
  <2>5a. BeganAtWrap => atWrap  BY StillAhead
  <2> HIDE DEF shut, before, m, atWrap
  <2>6. ASSUME m.kind = "BLINK_BAR", ~atWrap PROVE shut <= m.elapsed
    <3>1. ~BeganAtWrap  BY <2>5a, <2>6
    <3>2. shutFrames > 0 => before <= motif.elapsed  BY <1>2, <2>3, <2>6, <3>1
    <3>3. QED  BY <1>1, <1>2, <2>1, <2>2, <2>4, <2>5, <3>2
  <2>7. ASSUME m.kind = "DOUBLE_BLINK", ~atWrap
        PROVE  shut <= IF m.elapsed < 100 THEN m.elapsed ELSE 100 - Left(m)
    <3>1. m.lasts >= 600
      <4>1. m.lasts \in DoubleBlink  BY <1>3, <2>7 DEF m
      <4>2. \A t \in DoubleBlink : t \in 600..1199  BY LidLengths
      <4>3. QED  BY <4>1, <4>2
    <3>2. m.elapsed < 100 \/ (m.elapsed >= 100 /\ Left(m) <= 100)
      BY <1>2, <2>1, <2>7 DEF ShutNow
    <3>3. CASE shutFrames = 0
      BY <1>2, <2>1, <2>2, <2>5, <3>2, <3>3 DEF Left
    <3>4. CASE shutFrames > 0
      <4>0. ~BeganAtWrap  BY <2>5a, <2>7
      <4>1. /\ motif.elapsed < 100 \/ Left(motif) <= 100
            /\ before <= IF motif.elapsed < 100 THEN motif.elapsed ELSE 100 - Left(motif)
        BY <1>2, <2>3, <2>7, <3>4, <4>0 DEF ShutNow
      <4>2. CASE motif.elapsed < 100
        BY <1>1, <1>2, <2>1, <2>5, <3>1, <3>2, <4>1, <4>2 DEF Left
      <4>3. CASE motif.elapsed >= 100
        BY <1>1, <1>2, <2>1, <2>5, <3>1, <3>2, <4>1, <4>3 DEF Left
      <4>4. QED  BY <1>1, <4>2, <4>3
    <3>5. QED  BY <2>4, <3>3, <3>4
  <2>8. m.kind = "CHECK_IN" => shut <= 150 - Left(m)
    BY <1>1, <1>2, <2>1, <2>2, <2>3, <2>4, <2>5 DEF Left, ShutNow
  <2>9. m.kind = "SLOW_BLINK" => 20 * shut <= 20 * m.elapsed - 7 * m.lasts
    BY <1>1, <1>2, <2>1, <2>2, <2>3, <2>4, <2>5 DEF ShutNow
  <2>10. QED  BY <2>1, <2>6, <2>7, <2>8, <2>9
<1>11. QED  BY <1>8, <1>9, <1>10 DEF LidsInv

(* A blink that follows a motif at once finds the eyes open, or follows a  *)
(* blink whose deadline was past the wrap: then so may its own be.         *)
LEMMA BlinkFollows ==
  ASSUME LidsInv, BlinkBegins, nowMs' = Wrapped(nowMs + Tick), shutFrames > 0
  PROVE  nowMs' + LongestPause >= Wrap
<1>1. /\ motif.kind \in Kinds /\ motif.elapsed \in Nat /\ motif.lasts \in Nat
      /\ nextBlink \in Nat /\ nowMs \in Nat /\ nowMs < Wrap
      /\ motif.kind = "BLINK_BAR" => motif.lasts \in BlinkBar
      /\ motif.kind = "DOUBLE_BLINK" => motif.lasts \in DoubleBlink
      /\ motif.kind = "SLOW_BLINK" => motif.lasts = SlowBlink
  BY DEF LidsInv, LidTypes
<1>2. ShutNow(motif)  BY DEF LidsInv, ShutIsCounted
<1>3. motif.elapsed + Tick >= motif.lasts /\ nowMs' >= nextBlink
  BY <1>2 DEF BlinkBegins, ShutNow
<1>4. CASE motif.kind \in BlinkKinds
  <2>1. Ahead(Began, nextBlink) /\ (motif.elapsed = 0 \/ motif.elapsed < motif.lasts)
    BY <1>4 DEF LidsInv, BlinkIsAhead, WithinMotif
  <2>2. motif.lasts + Tick <= MinPause /\ motif.lasts > 0
    BY <1>1, <1>4, LidLengths DEF BlinkKinds
  <2>3. /\ MinPause \in Nat /\ LongestPause \in Nat /\ Wrap \in Nat /\ Tick \in Nat
        /\ nowMs' = nowMs + Tick \/ nowMs' = nowMs + Tick - Wrap
    BY <1>1, ClockLengths, ClockTicks
  <2> DEFINE b == Began  t == nowMs'  at == nextBlink
  <2>4. b \in Int /\ nowMs = b + motif.elapsed /\ motif.elapsed + Tick < MinPause
    BY <1>1, <2>1, <2>2, <2>3 DEF Began
  <2>5. Ahead(b, at) /\ at \in Nat /\ t >= at /\ (t = nowMs + Tick \/ t = nowMs + Tick - Wrap)
    BY <1>1, <1>3, <2>1, <2>3
  <2> HIDE DEF b, t, at
  <2>6. t + LongestPause >= Wrap  BY <1>1, <2>3, <2>4, <2>5 DEF Ahead
  <2>7. QED  BY <2>6 DEF t
<1>5. CASE motif.kind = "CHECK_IN"
  BY <1>1, <1>2, <1>3, <1>5, LidLengths DEF ShutNow, Left
<1>6. CASE motif.kind = "SLOW_BLINK"
  <2>1. motif.lasts >= 200  BY <1>1, <1>6, GestureLengths
  <2>2. 20 * motif.elapsed <= 13 * motif.lasts  BY <1>2, <1>6 DEF ShutNow
  <2>3. motif.elapsed + Tick >= motif.lasts /\ Tick <= 49 /\ Tick \in Nat  BY <1>3, LidLengths
  <2>4. QED  BY <1>1, <2>1, <2>2, <2>3
<1>7. QED  BY <1>2, <1>4, <1>5, <1>6 DEF ShutNow, BlinkKinds

LEMMA BlinkFindsThemOpen ==
  ASSUME LidsInv, BlinkBegins, FramesGoOn
  PROVE  LidsInv'
<1>1. shutFrames \in Nat /\ nowMs \in Nat /\ nowMs < Wrap  BY DEF LidsInv, LidTypes
<1>2. nowMs' = Wrapped(nowMs + Tick) /\ nowMs' \in Nat /\ nowMs' < Wrap
  BY <1>1, ClockTicks DEF FramesGoOn
<1>3. /\ motif' \in [kind : Kinds, elapsed : Nat, lasts : Nat]
      /\ motif'.elapsed = 0 /\ motif'.kind \in {"BLINK_BAR", "DOUBLE_BLINK"}
      /\ motif'.kind = "BLINK_BAR" => motif'.lasts \in BlinkBar
      /\ motif'.kind = "DOUBLE_BLINK" => motif'.lasts \in DoubleBlink
  <2>1. CASE \E t \in BlinkBar : motif' = Motif("BLINK_BAR", t)
    BY <2>1, LidLengths DEF Motif, Kinds
  <2>2. CASE \E t \in DoubleBlink : motif' = Motif("DOUBLE_BLINK", t)
    BY <2>2, LidLengths DEF Motif, Kinds
  <2>3. QED  BY <2>1, <2>2 DEF BlinkBegins, Blinks
<1>4. Began' = nowMs'  BY <1>2, <1>3 DEF Began
<1>5. nextBlink' \in Nat /\ Ahead(nowMs', nextBlink')
  <2>1. nextBlink' \in Deadlines(nowMs')  BY DEF BlinkBegins
  <2> DEFINE t == nowMs'  at == nextBlink'
  <2>2. t \in Nat /\ t < Wrap /\ at \in Deadlines(t)  BY <1>2, <2>1
  <2> HIDE DEF t, at
  <2>3. at \in Nat /\ Ahead(t, at)  BY <2>2, DrawnAhead
  <2>4. QED  BY <2>3 DEF t, at
<1>6. shutFrames' \in Nat /\ (shutFrames = 0 => shutFrames' \in {0, 1})
  <2>1. PICK open \in Openings : shutFrames' = IF Shut(motif', open) THEN shutFrames + 1 ELSE 0
    BY DEF FramesGoOn
  <2>2. CASE Shut(motif', open)  BY <1>1, <2>1, <2>2
  <2>3. CASE ~Shut(motif', open)  BY <1>1, <2>1, <2>3
  <2>4. QED  BY <2>2, <2>3
<1>7. LidTypes'  BY <1>2, <1>3, <1>5, <1>6 DEF LidTypes
<1>8. WithinMotif' /\ BlinkIsAhead'
  <2>1. WithinMotif'  BY <1>3 DEF WithinMotif
  <2>2. BlinkIsAhead'  BY <1>4, <1>5 DEF BlinkIsAhead, Ahead
  <2>3. QED  BY <2>1, <2>2
<1>9. ShutIsCounted'
  <2> SUFFICES ASSUME shutFrames' > 0
               PROVE  /\ ShutNow(motif')
                      /\ BeganAtWrap' \/ ShutFor(shutFrames') = 0
    BY <1>3 DEF ShutIsCounted, ShutFor, Left, ShutNow
  <2>1. ShutNow(motif')  BY <1>3 DEF ShutNow
  <2>2. CASE shutFrames = 0  BY <1>6, <2>1, <2>2, OneMore
  <2>3. CASE shutFrames > 0
    <3>1. nowMs' + LongestPause >= Wrap  BY <1>2, <2>3, BlinkFollows
    <3>2. BeganAtWrap'  BY <1>3, <1>4, <3>1 DEF BeganAtWrap
    <3>3. QED  BY <2>1, <3>2
  <2>4. QED  BY <1>1, <2>2, <2>3
<1>10. QED  BY <1>7, <1>8, <1>9 DEF LidsInv

LEMMA GestureBeginsOpen ==
  ASSUME LidsInv, OtherBegins, FramesGoOn
  PROVE  LidsInv'
<1>1. /\ motif' \in [kind : Kinds, elapsed : Nat, lasts : Nat]
      /\ motif'.elapsed = 0 /\ motif'.lasts \in Nat
      /\ motif'.kind \notin {"BLINK_BAR", "DOUBLE_BLINK"}
      /\ motif'.kind = "NONE" => motif' = NoMotif
      /\ motif'.kind = "CHECK_IN" => motif'.lasts = CheckIn
      /\ motif'.kind = "SLOW_BLINK" => motif'.lasts = SlowBlink
  BY GestureLengths DEF OtherBegins, Gestures, NoMotif, Motif, Kinds
<1>2. ~ShutNow(motif')  BY <1>1, LidLengths DEF ShutNow, Left
<1>3. PICK open \in Openings : shutFrames' = IF Shut(motif', open) THEN shutFrames + 1 ELSE 0
  BY DEF FramesGoOn
<1>4. ~Shut(motif', open)  BY <1>1, <1>2, LidsShut, LidLengths DEF MotifType
<1>5. shutFrames' = 0  BY <1>3, <1>4
<1>6. nextBlink' \in Nat /\ nowMs' \in Nat /\ nowMs' < Wrap
  BY ClockTicks DEF OtherBegins, FramesGoOn, LidsInv, LidTypes
<1>7. LidTypes'  BY <1>1, <1>5, <1>6 DEF LidTypes
<1>8. WithinMotif' /\ BlinkIsAhead'  BY <1>1 DEF WithinMotif, BlinkIsAhead, BlinkKinds
<1>9. ShutIsCounted'  BY <1>5 DEF ShutIsCounted
<1>10. QED  BY <1>7, <1>8, <1>9 DEF LidsInv

LEMMA EyesStep == LidsInv /\ [IdleTick]_idleVars => LidsInv'
<1> SUFFICES ASSUME LidsInv, [IdleTick]_idleVars PROVE LidsInv'  OBVIOUS
<1>1. CASE IdleTick
  BY <1>1, IdleMoves, StillCounted, BlinkFindsThemOpen, GestureBeginsOpen
<1>2. CASE UNCHANGED idleVars
  BY <1>2 DEF idleVars, LidsInv, LidTypes, WithinMotif, BlinkIsAhead, Ahead, Began, BeganAtWrap,
              ShutIsCounted, ShutFor, ShutNow, Left
<1>3. QED  BY <1>1, <1>2

(* No gesture shuts them for as long as a single blink may last.           *)
LEMMA ShutBriefly == LidsInv => EyesReopen
<1> SUFFICES ASSUME LidsInv, ~BeganAtWrap PROVE ShutFor(shutFrames) < LongestClosure(motif)
  BY DEF EyesReopen, ShutFor
<1>1. /\ motif.kind \in Kinds /\ motif.elapsed \in Nat /\ motif.lasts \in Nat
      /\ shutFrames \in Nat
      /\ motif.kind = "BLINK_BAR" => motif.lasts \in BlinkBar
      /\ motif.kind = "DOUBLE_BLINK" => motif.lasts \in DoubleBlink
      /\ motif.kind = "SLOW_BLINK" => motif.lasts = SlowBlink
      /\ motif.elapsed = 0 \/ motif.elapsed < motif.lasts
  BY DEF LidsInv, LidTypes, WithinMotif
<1>2. /\ motif.kind = "SLOW_BLINK" => LongestClosure(motif) = 200
      /\ motif.kind # "SLOW_BLINK" => LongestClosure(motif) = 120
  BY DEF LongestClosure
<1>3. ShutFor(shutFrames) \in Int  BY <1>1, OneMore
<1>4. CASE shutFrames = 0
  <2>1. ShutFor(0) = -Tick  BY LidLengths DEF ShutFor
  <2>2. QED  BY <1>2, <1>4, <2>1, LidLengths
<1>5. CASE shutFrames > 0
  <2>1. /\ ShutNow(motif)
        /\ motif.kind = "BLINK_BAR" => ShutFor(shutFrames) <= motif.elapsed
        /\ motif.kind = "DOUBLE_BLINK" =>
             ShutFor(shutFrames) <= IF motif.elapsed < 100 THEN motif.elapsed ELSE 100 - Left(motif)
        /\ motif.kind = "CHECK_IN" => ShutFor(shutFrames) <= 150 - Left(motif)
        /\ motif.kind = "SLOW_BLINK" =>
             20 * ShutFor(shutFrames) <= 20 * motif.elapsed - 7 * motif.lasts
    BY <1>5 DEF LidsInv, ShutIsCounted
  <2>2. CASE motif.kind = "BLINK_BAR"  BY <1>1, <1>2, <1>3, <2>1, <2>2, LidLengths
  <2>3. CASE motif.kind = "DOUBLE_BLINK"  BY <1>1, <1>2, <1>3, <2>1, <2>3, LidLengths DEF Left
  <2>4. CASE motif.kind = "CHECK_IN"  BY <1>1, <1>2, <1>3, <2>1, <2>4 DEF ShutNow, Left
  <2>5. CASE motif.kind = "SLOW_BLINK"
    <3>1. motif.lasts \in Nat /\ motif.lasts <= 650  BY <1>1, <2>5, GestureLengths
    <3>2. 20 * ShutFor(shutFrames) <= 6 * motif.lasts  BY <1>1, <1>3, <2>1, <2>5 DEF ShutNow
    <3>3. QED  BY <1>2, <1>3, <2>5, <3>1, <3>2
  <2>6. QED  BY <2>1, <2>2, <2>3, <2>4, <2>5 DEF ShutNow
<1>6. QED  BY <1>1, <1>4, <1>5

(* Whatever the motifs and their order, for every pause drawn between the  *)
(* blinks and every opening the mood leaves, the eyes never stay shut for  *)
(* as long as the longest single closure, but for the blinks that begin    *)
(* where the clock is about to wrap (nb_idle_engine_tick).                 *)
(* Whatever the motifs and their order, the eyes never stay shut for as    *)
(* long as the longest single blink (nb_idle_engine_tick).                 *)
THEOREM EyesOpenAgain == IdleSpec => []EyesReopen
<1>1. IdleInit => LidsInv  BY EyesStart
<1>2. LidsInv /\ [IdleTick]_idleVars => LidsInv'  BY EyesStep
<1>3. LidsInv => EyesReopen  BY ShutBriefly
<1>4. QED  BY <1>1, <1>2, <1>3, PTL DEF IdleSpec

-----------------------------------------------------------------------------
(* The face it draws.  What is drawn of a face lies in the rectangle the   *)
(* renderer gives for it, whatever the fields of the face in these ranges; *)
(* and every mood, beat and pose leaves them there.                        *)
Corner == {"tl_l", "tr_l", "bl_l", "br_l", "tl_r", "tr_r", "bl_r", "br_r"}
Open == {"open_l", "open_r"}
Squint == {"squint_l", "squint_r"}
Round == {"round_top", "round_bottom"}
Curve == {"curve_top", "curve_bottom", "mouth_curve"}
Place == {"y_l", "y_r", "x_off"}
Within(v, lo, hi) == v \in Int /\ lo <= v /\ v <= hi
Fits(face, open, bend) ==
  /\ \A f \in Corner \cup {"mouth_open"} : Within(face[f], 0, 100)
  /\ \A f \in Open : Within(face[f], 0, open)
  /\ \A f \in Squint \cup Round : Within(face[f], 0, 200)
  /\ \A f \in Curve : Within(face[f], bend, 100)
  /\ \A f \in Place : face[f] \in Int
Drawable(face) == Fits(face, 100, -105)
Names == Corner \cup Open \cup Squint \cup Round \cup Curve \cup Place \cup {"mouth_open"}

LEMMA FieldNames == Range(Fields) = Names
<1>1. DOMAIN Fields = 1..21  BY DEF Fields
<1>2. \A i \in 1..21 : Fields[i] \in Names
  BY DEF Fields, Names, Corner, Open, Squint, Round, Curve, Place
<1>3. \A f \in Names : \E i \in 1..21 : Fields[i] = f
  BY DEF Fields, Names, Corner, Open, Squint, Round, Curve, Place
<1>4. QED  BY <1>1, <1>2, <1>3 DEF Range

LEMMA FieldsApart == \A i, j \in 1..21 : Fields[i] = Fields[j] => i = j
BY DEF Fields

-----------------------------------------------------------------------------
(* Rectangles on the panel, and the boxes around the rows of a drawing.    *)
OnPanel(r) == Right(r) <= Width /\ Bottom(r) <= Height
Shown(r) == r \in Rect /\ OnPanel(r) /\ (IsEmpty(r) => r = EmptyRect)

LEMMA BoundsShown ==
  ASSUME NEW x0 \in Int, NEW y0 \in Int, NEW x1 \in Int, NEW y1 \in Int
  PROVE  Shown(FromBounds(x0, y0, x1, y1))
BY RectsAssumption DEF FromBounds, Corners, EmptyRect, Upper, Lower, Shown, OnPanel, Rect, Right, Bottom, IsEmpty

LEMMA BoundsNest ==
  ASSUME NEW x0 \in Int, NEW y0 \in Int, NEW x1 \in Int, NEW y1 \in Int,
         NEW u0 \in Int, NEW v0 \in Int, NEW u1 \in Int, NEW v1 \in Int,
         u0 <= x0, v0 <= y0, x1 <= u1, y1 <= v1
  PROVE  Inside(FromBounds(x0, y0, x1, y1), FromBounds(u0, v0, u1, v1))
<1> DEFINE a == FromBounds(x0, y0, x1, y1)  b == FromBounds(u0, v0, u1, v1)
           l == Upper(x0, 0)  t == Upper(y0, 0)  r == Lower(x1, Width)  d == Lower(y1, Height)
           ll == Upper(u0, 0)  tt == Upper(v0, 0)  rr == Lower(u1, Width)  dd == Lower(v1, Height)
<1>1. /\ l \in Nat /\ t \in Nat /\ r \in Int /\ d \in Int
      /\ ll \in Nat /\ tt \in Nat /\ rr \in Int /\ dd \in Int
      /\ ll <= l /\ tt <= t /\ r <= rr /\ d <= dd
  BY RectsAssumption DEF Upper, Lower
<1>2. a = IF r <= l \/ d <= t THEN EmptyRect ELSE [x |-> l, y |-> t, w |-> r - l, h |-> d - t]
  BY DEF FromBounds, Corners
<1>3. b = IF rr <= ll \/ dd <= tt THEN EmptyRect
          ELSE [x |-> ll, y |-> tt, w |-> rr - ll, h |-> dd - tt]
  BY DEF FromBounds, Corners
<1> HIDE DEF a, b, l, t, r, d, ll, tt, rr, dd
<1>4. CASE r <= l \/ d <= t  BY <1>2, <1>4 DEF Inside, IsEmpty, EmptyRect, a, b
<1>5. CASE ~(r <= l \/ d <= t)
  <2>1. ~(rr <= ll \/ dd <= tt)  BY <1>1, <1>5
  <2>2. Inside(a, b)  BY <1>1, <1>2, <1>3, <1>5, <2>1 DEF Inside, Right, Bottom
  <2>3. QED  BY <2>2 DEF a, b
<1>6. QED  BY <1>4, <1>5

LEMMA UnionShown ==
  ASSUME NEW a, NEW b, Shown(a), Shown(b)
  PROVE  /\ Shown(RectUnion(a, b))
         /\ Inside(a, RectUnion(a, b)) /\ Inside(b, RectUnion(a, b))
<1>1. ASSUME NEW r, Shown(r) PROVE Clamp(r) = r
  <2>1. r \in Rect /\ OnPanel(r)  BY <1>1 DEF Shown
  <2>2. CASE ~IsEmpty(r)
    <3>1. Clamp(r) = Corners(r.x, r.y, Right(r), Bottom(r))
      BY <2>1, <2>2, RectsAssumption DEF Clamp, Rect, OnPanel, Lower, Right, Bottom, IsEmpty
    <3>2. QED  BY <2>1, <3>1 DEF Rect, Corners, Right, Bottom
  <2>3. CASE IsEmpty(r)  BY <2>3, <1>1 DEF Shown, Clamp
  <2>4. QED  BY <2>2, <2>3
<1>2. Clamp(a) = a /\ Clamp(b) = b  BY <1>1
<1>3. RectUnion(a, b) = IF IsEmpty(a) THEN b ELSE IF IsEmpty(b) THEN a
                        ELSE Corners(Lower(a.x, b.x), Lower(a.y, b.y),
                                     Upper(Right(a), Right(b)), Upper(Bottom(a), Bottom(b)))
  BY <1>2 DEF RectUnion
<1> DEFINE u == RectUnion(a, b)
<1>4. CASE IsEmpty(a) \/ IsEmpty(b)
  <2>1. \A r : Shown(r) => Inside(r, r)  BY DEF Shown, Inside, Rect, Right, Bottom
  <2>2. QED  BY <1>3, <1>4, <2>1 DEF Inside
<1>5. CASE ~IsEmpty(a) /\ ~IsEmpty(b)
  <2> HIDE DEF u
  <2>1. u = Corners(Lower(a.x, b.x), Lower(a.y, b.y),
                    Upper(Right(a), Right(b)), Upper(Bottom(a), Bottom(b)))
    BY <1>3, <1>5 DEF u
  <2>2. a \in Rect /\ b \in Rect /\ OnPanel(a) /\ OnPanel(b)  BY DEF Shown
  <2>3. /\ u \in Rect /\ OnPanel(u) /\ ~IsEmpty(u) /\ Inside(a, u) /\ Inside(b, u)
    BY <2>1, <2>2, <1>5, RectsAssumption
      DEF Rect, OnPanel, IsEmpty, Inside, Corners, Right, Bottom, Lower, Upper
  <2>4. QED  BY <2>3 DEF Shown, u
<1>6. QED  BY <1>4, <1>5

LEMMA InsideAll ==
  ASSUME NEW a, NEW b, NEW c, Shown(a), Shown(b), Inside(a, b), Inside(b, c), Shown(c)
  PROVE  Inside(a, c)
BY DEF Shown, Inside, IsEmpty, Rect, Right, Bottom

LEMMA LeastOf ==
  ASSUME NEW S, S \subseteq Nat, S # {}
  PROVE  \E m \in S : \A k \in S : m <= k
<1> DEFINE below == {ss \in Nat \X Nat : ss[1] < ss[2]}
<1>1. IsWellFoundedOn(below, Nat)  BY NatLessThanWellFounded DEF OpToRel
<1>2. PICK m \in S : \A k \in S : <<k, m>> \notin below  BY <1>1, WFMin
<1>3. ASSUME NEW k \in S PROVE m <= k
  <2>1. m \in Nat /\ k \in Nat /\ <<k, m>> \notin below  BY <1>2
  <2>2. ~(k < m)  BY <2>1
  <2>3. QED  BY <2>1, <2>2
<1>4. QED  BY <1>3

(* The box around rows that lie in a range.                                *)
LEMMA RowsBound ==
  ASSUME NEW lo \in Int, NEW hi \in Int, NEW rows, rows \subseteq lo..hi, rows # {}
  PROVE  /\ \E a \in rows : \A b \in rows : a <= b
         /\ \E a \in rows : \A b \in rows : a >= b
<1> DEFINE up == {k \in Nat : lo + k \in rows}  down == {k \in Nat : hi - k \in rows}
<1>1. PICK r \in rows : r \in lo..hi  OBVIOUS
<1>2. r - lo \in up /\ hi - r \in down
  <2>1. lo + (r - lo) = r /\ hi - (hi - r) = r /\ r - lo \in Nat /\ hi - r \in Nat  BY <1>1
  <2>2. QED  BY <2>1
<1>3. \E m \in up : \A k \in up : m <= k  BY <1>2, LeastOf
<1>4. \E m \in down : \A k \in down : m <= k  BY <1>2, LeastOf
<1>5. PICK m \in up : \A k \in up : m <= k  BY <1>3
<1>6. PICK n \in down : \A k \in down : n <= k  BY <1>4
<1>7. ASSUME NEW b \in rows PROVE lo + m <= b /\ hi - n >= b
  <2>1. b \in lo..hi  OBVIOUS
  <2>2. lo + (b - lo) = b /\ hi - (hi - b) = b /\ b - lo \in Nat /\ hi - b \in Nat  BY <2>1
  <2>3. b - lo \in up /\ hi - b \in down  BY <2>2
  <2>4. m <= b - lo /\ n <= hi - b /\ m \in Nat /\ n \in Nat  BY <2>3, <1>5, <1>6
  <2>5. QED  BY <2>1, <2>4
<1>8. lo + m \in rows /\ hi - n \in rows  BY <1>5, <1>6
<1>9. QED  BY <1>7, <1>8

LEMMA BoxInside ==
  ASSUME NEW x \in Int, NEW half \in Int, NEW rows, NEW y \in Int, NEW by \in Nat, NEW side \in Nat,
         rows \subseteq (y - by)..(y + by)
  PROVE  /\ Shown(Box(x, half, rows))
         /\ Inside(Box(x, half, rows),
                   FromBounds(x - half - side, y - by, x + half + 1 + side, y + by + 1))
<1>1. CASE rows = {}
  BY <1>1, RectsAssumption
    DEF Box, Inside, IsEmpty, EmptyRect, Shown, OnPanel, Rect, Right, Bottom
<1>2. CASE rows # {}
  <2> DEFINE lo == CHOOSE a \in rows : \A b \in rows : a <= b
             hi == CHOOSE a \in rows : \A b \in rows : a >= b
  <2>1. lo \in rows /\ hi \in rows
    <3>1. y - by \in Int /\ y + by \in Int  OBVIOUS
    <3>2. /\ \E a \in rows : \A b \in rows : a <= b
          /\ \E a \in rows : \A b \in rows : a >= b
      BY <3>1, <1>2, RowsBound
    <3>3. QED  BY <3>2, Zenon
  <2>2. Box(x, half, rows) = FromBounds(x - half, lo, x + half + 1, 1 + hi)
    BY <1>2 DEF Box
  <2> HIDE DEF lo, hi
  <2>3. lo \in (y - by)..(y + by) /\ hi \in (y - by)..(y + by)  BY <2>1
  <2>4. /\ x - half \in Int /\ x + half + 1 \in Int /\ lo \in Int /\ 1 + hi \in Int
        /\ x - half - side \in Int /\ x + half + 1 + side \in Int
        /\ y - by \in Int /\ y + by + 1 \in Int
        /\ x - half - side <= x - half /\ x + half + 1 <= x + half + 1 + side
        /\ y - by <= lo /\ 1 + hi <= y + by + 1
    BY <2>3
  <2> DEFINE x0 == x - half  x1 == x + half + 1  y1 == 1 + hi
             u0 == x - half - side  u1 == x + half + 1 + side  v0 == y - by  v1 == y + by + 1
  <2>5. /\ x0 \in Int /\ lo \in Int /\ x1 \in Int /\ y1 \in Int
        /\ u0 \in Int /\ v0 \in Int /\ u1 \in Int /\ v1 \in Int
        /\ u0 <= x0 /\ v0 <= lo /\ x1 <= u1 /\ y1 <= v1
    BY <2>4
  <2>6. Box(x, half, rows) = FromBounds(x0, lo, x1, y1)  BY <2>2
  <2> HIDE DEF x0, x1, y1, u0, u1, v0, v1
  <2>7. Inside(FromBounds(x0, lo, x1, y1), FromBounds(u0, v0, u1, v1))  BY <2>5, BoundsNest
  <2>8. Shown(FromBounds(x0, lo, x1, y1))  BY <2>5, BoundsShown
  <2>9. QED  BY <2>6, <2>7, <2>8 DEF u0, u1, v0, v1
<1>3. QED  BY <1>1, <1>2

-----------------------------------------------------------------------------
(* Percentages, cut as C cuts them.                                        *)
LEMMA Product ==
  ASSUME NEW a \in Int, NEW lo \in Int, NEW hi \in Int, lo <= a, a <= hi, NEW b \in Nat
  PROVE  a * b \in Int /\ lo * b <= a * b /\ a * b <= hi * b
<1>1. /\ a * b \in Int /\ lo * b \in Int /\ hi * b \in Int
      /\ (a - lo) * b = a * b - lo * b /\ (hi - a) * b = hi * b - a * b
  OBVIOUS
<1>2. \A m, n \in Nat : m * n \in Nat  OBVIOUS
<1>3. (a - lo) * b \in Nat /\ (hi - a) * b \in Nat  BY <1>2
<1>4. QED  BY <1>1, <1>3

LEMMA PercentPositive ==
  ASSUME NEW a \in Nat, NEW b \in Nat
  PROVE  Percent(a, b) \in Nat
<1>1. a * b \in Nat  OBVIOUS
<1>2. QED  BY <1>1 DEF Percent

LEMMA Positions ==
  ASSUME NEW q \in 0..4
  PROVE  Within(Parabola(q), 0, 100)
<1>1. q \in {0, 1, 2, 3, 4}  OBVIOUS
<1>2. QED  BY <1>1 DEF Parabola, Within

(* An edge of an eye lies between its middle and half its opening, however *)
(* its corners slope.                                                      *)
Lid(hh, a) == Percent(hh, 100 - a)
Slope(hh, a, b, q) == (Percent(hh, b - a) * q) \div 4

LEMMA SlopeBounded ==
  ASSUME NEW hh \in Nat, NEW a, NEW b, Within(a, 0, 100), Within(b, 0, 100), NEW q \in 0..4
  PROVE  /\ Lid(hh, a) \in Int /\ Slope(hh, a, b, q) \in Int
         /\ -2 <= Lid(hh, a) - Slope(hh, a, b, q)
         /\ Lid(hh, a) - Slope(hh, a, b, q) <= hh + 2
<1> DEFINE x == a * hh  z == b * hh
           lid == Percent(hh, 100 - a)  rise == Percent(hh, b - a)  slope == (rise * q) \div 4
<1>1. /\ x \in Int /\ 0 <= x /\ x <= 100 * hh
      /\ z \in Int /\ 0 <= z /\ z <= 100 * hh
  <2>1. /\ x \in Int /\ 0 * hh <= x /\ x <= 100 * hh
        /\ z \in Int /\ 0 * hh <= z /\ z <= 100 * hh
    BY Product DEF Within
  <2>2. QED  BY <2>1
<1>2. hh * (100 - a) = 100 * hh - x /\ hh * (b - a) = z - x  BY DEF Within
<1>3. lid = (100 * hh - x) \div 100 /\ rise = (z - x) \div 100  BY <1>2 DEF Percent
<1>4. q \in {0, 1, 2, 3, 4}  OBVIOUS
<1> HIDE DEF x, z
<1>5. rise \in Int /\ 100 * rise <= z - x /\ z - x < 100 * rise + 100
      /\ lid \in Int /\ 100 * lid <= 100 * hh - x /\ 100 * hh - x < 100 * lid + 100
  BY <1>1, <1>3
<1> HIDE DEF lid, rise
<1>6. slope \in Int /\ 4 * slope <= rise * q /\ rise * q < 4 * slope + 4
  BY <1>4, <1>5
<1> HIDE DEF slope
<1>7. q = 0 => -2 <= lid - slope /\ lid - slope <= hh + 2  BY <1>1, <1>5, <1>6
<1>8. q = 1 => -2 <= lid - slope /\ lid - slope <= hh + 2  BY <1>1, <1>5, <1>6
<1>9. q = 2 => -2 <= lid - slope /\ lid - slope <= hh + 2  BY <1>1, <1>5, <1>6
<1>10. q = 3 => -2 <= lid - slope /\ lid - slope <= hh + 2  BY <1>1, <1>5, <1>6
<1>11. q = 4 => -2 <= lid - slope /\ lid - slope <= hh + 2  BY <1>1, <1>5, <1>6
<1>12. -2 <= lid - slope /\ lid - slope <= hh + 2
  BY <1>4, <1>7, <1>8, <1>9, <1>10, <1>11
<1>13. QED  BY <1>5, <1>6, <1>12 DEF lid, slope, rise, Slope, Lid

Bend(n, c, p) == Percent(n * c, p)

LEMMA CurveBounded ==
  ASSUME NEW n \in Nat, NEW c, Within(c, -105, 100), NEW p, Within(p, 0, 100)
  PROVE  /\ Bend(n, c, p) \in Int
         /\ -105 * n - 1 <= Bend(n, c, p) /\ Bend(n, c, p) <= 105 * n
<1>1. n * c \in Int /\ n * c <= 105 * n /\ -105 * n <= n * c
  <2>1. c \in Int /\ -105 \in Int /\ 105 \in Int /\ -105 <= c /\ c <= 105  BY DEF Within
  <2>2. c * n \in Int /\ -105 * n <= c * n /\ c * n <= 105 * n  BY <2>1, Product
  <2>3. c * n = n * c  BY <2>1
  <2>4. QED  BY <2>2, <2>3
<1> DEFINE m == n * c  l == 105 * n
<1>2. l \in Nat /\ -105 * n = -l /\ -l \in Int /\ m \in Int /\ -l <= m /\ m <= l
  BY <1>1
<1> HIDE DEF m, l
<1>3. p \in Nat /\ p <= 100  BY DEF Within
<1>4. m * p \in Int /\ (-l) * p <= m * p /\ m * p <= l * p
  BY <1>2, <1>3, Product
<1>5. l * p <= 100 * l /\ l * p \in Nat /\ (-l) * p = -(l * p)
  <2>1. p * l <= 100 * l /\ p * l \in Int /\ 0 * l <= p * l  BY <1>2, <1>3, Product
  <2>2. p * l = l * p  BY <1>2, <1>3
  <2>3. QED  BY <2>1, <2>2, <1>2, <1>3
<1>6. m * p <= 100 * l /\ -(100 * l) <= m * p  BY <1>4, <1>5, <1>2
<1>7. Bend(n, c, p) = (m * p) \div 100  BY DEF Bend, Percent, m
<1> DEFINE k == m * p
<1>8. k \in Int /\ k <= 100 * l /\ -(100 * l) <= k  BY <1>4, <1>6
<1> HIDE DEF k
<1>9. k \div 100 \in Int /\ k \div 100 <= l /\ -l - 1 <= k \div 100  BY <1>2, <1>8
<1>10. QED  BY <1>7, <1>9, <1>2 DEF k, l

LEMMA Rounds ==
  ASSUME NEW v \in Int
  PROVE  /\ Ceil(v) \in Int /\ v <= 100 * Ceil(v) /\ 100 * Ceil(v) < v + 100
         /\ Floor(v) \in Int /\ 100 * Floor(v) <= v /\ v < 100 * Floor(v) + 100
         /\ Truncated(v) \in Int /\ v - 100 < 100 * Truncated(v) /\ 100 * Truncated(v) < v + 100
BY DEF Ceil, Floor, Truncated

(* Whatever is drawn between a top and a bottom is between them, widened   *)
(* by an edge pixel.                                                       *)
LEMMA EdgeWithin ==
  ASSUME NEW top \in Int, NEW bottom \in Int, NEW lo \in Int, NEW hi \in Int,
         lo <= top, bottom <= hi, NEW a \in Edge(top, bottom)
  PROVE  a \in Int /\ lo - 100 <= 100 * a /\ 100 * a <= hi + 100
<1>1. /\ Ceil(top) \in Int /\ top <= 100 * Ceil(top) /\ 100 * Ceil(top) < top + 100
      /\ Floor(bottom) \in Int /\ 100 * Floor(bottom) <= bottom
      /\ bottom < 100 * Floor(bottom) + 100
  BY Rounds
<1>2. /\ ~(top >= bottom - 50)
      /\ a \in {Ceil(top) - (IF Ceil(top) * 100 - top > 4 THEN 1 ELSE 0),
                Floor(bottom) + (IF bottom - Floor(bottom) * 100 > 4 THEN 1 ELSE 0)}
  BY DEF Edge
<1>3. a \in {Ceil(top), Ceil(top) - 1, Floor(bottom), Floor(bottom) + 1}  BY <1>1, <1>2
<1>4. QED  BY <1>1, <1>2, <1>3

EyeOk(eye) ==
  /\ eye.half \in Nat /\ eye.x \in Int /\ eye.y \in Int /\ eye.squint \in Nat
  /\ Within(eye.open, 0, 100) /\ Within(eye.tl, 0, 100) /\ Within(eye.tr, 0, 100)
  /\ Within(eye.bl, 0, 100) /\ Within(eye.br, 0, 100)
PoseOk(pose) ==
  /\ Drawable(pose.face)
  /\ pose.gaze_x \in Int /\ pose.gaze_y \in Int /\ pose.tilt \in Int
  /\ pose.width_l \in Int /\ pose.width_r \in Int

LEMMA Shifts ==
  ASSUME NEW pose, PoseOk(pose)
  PROVE  /\ XOffset(pose) \in Int /\ GazeShift(pose) \in Int /\ GazeY(pose) \in Int
         /\ \A n \in Int : ClampF(n, -55, 55) \in Int /\ ClampF(n, 50, 150) \in Nat
<1>1. \A n \in Int : /\ ClampF(n, -55, 55) \in Int /\ ClampF(n, -100, 100) \in Int
                     /\ ClampF(n, 50, 150) \in Nat
  BY DEF ClampF
<1> DEFINE a == pose.face.x_off * 18 + 50  b == ClampF(pose.gaze_x, -100, 100) * 26 + 50
<1>2. a \in Int
  <2>1. pose.face.x_off \in Int  BY DEF PoseOk, Drawable, Fits, Place
  <2>2. QED  BY <2>1
<1>3. b \in Int
  <2>1. ClampF(pose.gaze_x, -100, 100) \in Int  BY <1>1 DEF PoseOk
  <2>2. QED  BY <2>1
<1>4. XOffset(pose) = Truncated(a) /\ GazeShift(pose) = Truncated(b)
  BY DEF XOffset, GazeShift
<1> HIDE DEF a, b
<1>5. Truncated(a) \in Int /\ Truncated(b) \in Int  BY <1>2, <1>3, Rounds
<1>6. GazeY(pose) \in Int  BY <1>1 DEF GazeY, PoseOk
<1>7. QED  BY <1>1, <1>4, <1>5, <1>6

LEMMA EyeTyped ==
  ASSUME NEW pose, PoseOk(pose), NEW s \in {"l", "r"}
  PROVE  EyeOk(Eye(pose, s))
<1> DEFINE f == pose.face
<1>1. /\ \A n \in Corner \cup Open : Within(f[n], 0, 100)
      /\ \A n \in Squint : f[n] \in Nat
      /\ \A n \in Place : f[n] \in Int
  BY DEF PoseOk, Drawable, Fits, Within
<1>2. /\ Within(f.open_l, 0, 100) /\ Within(f.open_r, 0, 100)
      /\ Within(f.tl_l, 0, 100) /\ Within(f.tr_l, 0, 100)
      /\ Within(f.bl_l, 0, 100) /\ Within(f.br_l, 0, 100)
      /\ Within(f.tl_r, 0, 100) /\ Within(f.tr_r, 0, 100)
      /\ Within(f.bl_r, 0, 100) /\ Within(f.br_r, 0, 100)
      /\ f.open_l \in Int /\ f.open_r \in Int
      /\ f.squint_l \in Nat /\ f.squint_r \in Nat
      /\ f.y_l \in Int /\ f.y_r \in Int /\ f.x_off \in Int
  BY <1>1 DEF Corner, Open, Squint, Place, Within
<1>3. \A n \in Int : ClampF(n, -55, 55) \in Int /\ ClampF(n, 50, 150) \in Nat
  BY Shifts
<1>4. XOffset(pose) \in Int  BY Shifts
<1>5. GazeShift(pose) \in Int /\ GazeY(pose) \in Int  BY Shifts
<1>6. \A n \in Int : Truncated(46 * ClampF(n, 50, 150)) \in Nat
  BY <1>3 DEF Truncated
<1> DEFINE eye == Eye(pose, s)
<1> HIDE DEF f
<1>7. CASE s = "l"
  <2>1. /\ eye.half = Truncated(46 * ClampF(pose.width_l, 50, 150))
        /\ eye.x = 96 + XOffset(pose) + GazeShift(pose)
        /\ eye.y = 12200 + (100 - f.open_l) * 46
                   + ClampF(f.y_l + GazeY(pose), -55, 55) * 55 + pose.tilt * 80
        /\ eye.open = f.open_l /\ eye.tl = f.tl_l /\ eye.tr = f.tr_l
        /\ eye.bl = f.bl_l /\ eye.br = f.br_l /\ eye.squint = f.squint_l
    BY <1>7 DEF Eye, f
  <2> HIDE DEF eye
  <2>2. ClampF(f.y_l + GazeY(pose), -55, 55) \in Int  BY <1>2, <1>3, <1>5
  <2>3. EyeOk(eye)  BY <2>1, <2>2, <1>2, <1>4, <1>5, <1>6 DEF EyeOk, PoseOk
  <2>4. QED  BY <2>3 DEF eye
<1>8. CASE s = "r"
  <2>1. /\ eye.half = Truncated(46 * ClampF(pose.width_r, 50, 150))
        /\ eye.x = 224 - XOffset(pose) + GazeShift(pose)
        /\ eye.y = 12200 + (100 - f.open_r) * 46
                   + ClampF(f.y_r + GazeY(pose), -55, 55) * 55 + (-pose.tilt) * 80
        /\ eye.open = f.open_r /\ eye.tl = f.tl_r /\ eye.tr = f.tr_r
        /\ eye.bl = f.bl_r /\ eye.br = f.br_r /\ eye.squint = f.squint_r
    BY <1>8 DEF Eye, f
  <2> HIDE DEF eye
  <2>2. ClampF(f.y_r + GazeY(pose), -55, 55) \in Int  BY <1>2, <1>3, <1>5
  <2>3. EyeOk(eye)  BY <2>1, <2>2, <1>2, <1>4, <1>5, <1>6 DEF EyeOk, PoseOk
  <2>4. QED  BY <2>3 DEF eye
<1>9. QED  BY <1>7, <1>8

EyeRow(eye) == Truncated(eye.y + IF eye.y >= 0 THEN 50 ELSE -50)

LEMMA NearestRow ==
  ASSUME NEW y \in Int
  PROVE  LET r == Truncated(y + IF y >= 0 THEN 50 ELSE -50)
         IN  r \in Int /\ y - 50 <= 100 * r /\ 100 * r <= y + 50
<1>1. CASE y >= 0
  <2> DEFINE n == y + 50
  <2>1. n \in Nat  BY <1>1
  <2>2. Truncated(n) = n \div 100  BY <2>1 DEF Truncated
  <2>3. QED  BY <2>1, <2>2, <1>1
<1>2. CASE y < 0
  <2> DEFINE n == y + (-50)  m == 50 - y
  <2>1. n \in Int /\ n < 0 /\ m \in Nat /\ -n = m  BY <1>2
  <2>2. Truncated(n) = -((-n) \div 100)  BY <2>1 DEF Truncated
  <2>3. Truncated(n) = -(m \div 100)  BY <2>1, <2>2
  <2> DEFINE k == m \div 100
  <2>4. k \in Int /\ 100 * k <= m /\ m < 100 * k + 100  BY <2>1
  <2>5. Truncated(n) = -k  BY <2>3
  <2> HIDE DEF k
  <2>6. QED  BY <2>4, <2>5, <1>2
<1>3. QED  BY <1>1, <1>2

LidTop(y, hh, a, b, q, c) == y - Lid(hh, a) + Slope(hh, a, b, q) - Bend(10, c, Parabola(q))
LidBottom(y, hh, a, b, q, c) == y + Lid(hh, a) - Slope(hh, a, b, q) + Bend(10, c, Parabola(q))

LEMMA LidsWithin ==
  ASSUME NEW y \in Int, NEW hh \in Nat, hh <= 4600, NEW q \in 0..4, NEW a, NEW b, NEW c,
         Within(a, 0, 100), Within(b, 0, 100), Within(c, -105, 100)
  PROVE  /\ LidTop(y, hh, a, b, q, c) \in Int /\ y - 5702 <= LidTop(y, hh, a, b, q, c)
         /\ LidBottom(y, hh, a, b, q, c) \in Int /\ LidBottom(y, hh, a, b, q, c) <= y + 5702
<1> DEFINE p == Parabola(q)  lid == Lid(hh, a)  slope == Slope(hh, a, b, q)  bend == Bend(10, c, p)
<1>1. lid \in Int /\ slope \in Int /\ -2 <= lid - slope /\ lid - slope <= hh + 2
  BY SlopeBounded
<1>2. Within(p, 0, 100)  BY Positions
<1> HIDE DEF p
<1>3. bend \in Int /\ -1051 <= bend /\ bend <= 1050
  <2>1. bend \in Int /\ -105 * 10 - 1 <= bend /\ bend <= 105 * 10  BY <1>2, CurveBounded
  <2>2. QED  BY <2>1
<1> HIDE DEF lid, slope, bend
<1>4. /\ y - lid + slope - bend \in Int /\ y - 5702 <= y - lid + slope - bend
      /\ y + lid - slope + bend \in Int /\ y + lid - slope + bend <= y + 5702
  BY <1>1, <1>3
<1>5. QED  BY <1>4 DEF LidTop, LidBottom, lid, slope, bend, p

LEMMA EyeRows ==
  ASSUME NEW face, Drawable(face), NEW eye, EyeOk(eye), NEW q \in 0..4
  PROVE  EyeColumn(face, eye, q) \subseteq (EyeRow(eye) - 62)..(EyeRow(eye) + 62)
<1> DEFINE y == eye.y  r == EyeRow(eye)  hh == eye.open * 46
           Corner0(round) == IF q \in {0, 4} THEN Lower(Percent(round * 68, eye.half), hh) ELSE 0
           over == Corner0(face.round_top)  under == Corner0(face.round_bottom)
           squint == Percent(Percent(hh, eye.squint), 65)
           top == LidTop(y, hh, eye.tl, eye.tr, q, face.curve_top)
           bottom == LidBottom(y, hh, eye.bl, eye.br, q, face.curve_bottom)
           lid == Lid(hh, eye.bl)  slope == Slope(hh, eye.bl, eye.br, q)
           bend == Bend(10, face.curve_bottom, Parabola(q))
<1>1. y \in Int /\ r \in Int /\ y - 50 <= 100 * r /\ 100 * r <= y + 50
  BY NearestRow DEF EyeOk, EyeRow
<1>2. ASSUME eye.open < 3
      PROVE  EyeColumn(face, eye, q) \subseteq (r - 62)..(r + 62)
  <2>1. EyeColumn(face, eye, q) = {Truncated(y)}  BY <1>2 DEF EyeColumn
  <2>2. Truncated(y) \in Int /\ y - 100 < 100 * Truncated(y) /\ 100 * Truncated(y) < y + 100
    BY <1>1, Rounds
  <2> HIDE DEF y, r
  <2>3. Truncated(y) \in (r - 62)..(r + 62)  BY <1>1, <2>2
  <2>4. QED  BY <2>1, <2>3
<1>3. ASSUME ~(eye.open < 3)
      PROVE  EyeColumn(face, eye, q) \subseteq (r - 62)..(r + 62)
  <2>1. EyeColumn(face, eye, q) = Edge(top + over + squint, y + lid - slope + bend - under)
    BY <1>3, Zenon DEF EyeColumn, Slope, Lid, Bend, LidTop
  <2>2. hh \in Nat /\ hh <= 4600  BY DEF EyeOk, Within
  <2>3. /\ Within(face.curve_top, -105, 100) /\ Within(face.curve_bottom, -105, 100)
        /\ face.round_top \in Nat /\ face.round_bottom \in Nat
    BY DEF Drawable, Fits, Curve, Round, Within
  <2>4. ASSUME NEW n \in Nat PROVE Corner0(n) \in Nat
    <3> DEFINE p == Percent(n * 68, eye.half)
    <3>1. n * 68 \in Nat /\ eye.half \in Nat  BY DEF EyeOk
    <3>2. p \in Nat  BY <3>1, PercentPositive
    <3>3. Corner0(n) = IF q \in {0, 4} THEN Lower(p, hh) ELSE 0  OBVIOUS
    <3> HIDE DEF hh, p, Corner0
    <3>4. Lower(p, hh) \in Nat  BY <2>2, <3>2 DEF Lower
    <3>5. QED  BY <3>3, <3>4
  <2>5. over \in Nat /\ under \in Nat  BY <2>3, <2>4
  <2>6. squint \in Nat
    <3>1. eye.squint \in Nat /\ hh \in Nat  BY <2>2 DEF EyeOk
    <3>2. Percent(hh, eye.squint) \in Nat  BY <3>1, PercentPositive
    <3>3. QED  BY <3>2, PercentPositive
  <2>7. /\ Within(eye.tl, 0, 100) /\ Within(eye.tr, 0, 100)
        /\ Within(eye.bl, 0, 100) /\ Within(eye.br, 0, 100)
    BY DEF EyeOk
  <2> HIDE DEF y, r, hh, over, under, squint
  <2>8. /\ lid \in Int /\ slope \in Int /\ bend \in Int
        /\ bottom = y + lid - slope + bend
    <3>1. lid \in Int /\ slope \in Int  BY <2>2, <2>7, SlopeBounded
    <3>2. Within(Parabola(q), 0, 100)  BY Positions
    <3>3. bend \in Int  BY <3>2, <2>3, CurveBounded
    <3>4. QED  BY <3>1, <3>3 DEF LidBottom
  <2>9. top \in Int /\ y - 5702 <= top  BY <1>1, <2>2, <2>3, <2>7, LidsWithin
  <2>10. bottom \in Int /\ bottom <= y + 5702  BY <1>1, <2>2, <2>3, <2>7, LidsWithin
  <2> DEFINE t == top + over + squint  b == bottom - under  lo == y - 5702  hi == y + 5702
  <2> HIDE DEF top, bottom, lid, slope, bend
  <2>11. t \in Int /\ b \in Int /\ lo \in Int /\ hi \in Int /\ lo <= t /\ b <= hi
    BY <1>1, <2>5, <2>6, <2>9, <2>10
  <2>12. EyeColumn(face, eye, q) = Edge(t, b)
    <3>1. y + lid - slope + bend - under = b  BY <2>8, <2>5, <1>1
    <3>2. QED  BY <2>1, <3>1
  <2> HIDE DEF t, b, lo, hi
  <2>13. ASSUME NEW a \in Edge(t, b) PROVE a \in (r - 62)..(r + 62)
    <3>1. a \in Int /\ lo - 100 <= 100 * a /\ 100 * a <= hi + 100
      BY <2>11, EdgeWithin
    <3>2. QED  BY <3>1, <1>1 DEF lo, hi
  <2>14. QED  BY <2>12, <2>13
<1>4. QED  BY <1>2, <1>3

LEMMA MouthRows ==
  ASSUME NEW face, Drawable(face), NEW m, m.y \in Int, NEW q \in 0..4
  PROVE  MouthColumn(face, m, q) \subseteq
           (Truncated(m.y + 50) - 40)..(Truncated(m.y + 50) + 40)
<1> DEFINE y == m.y  r == Truncated(y + 50)  bend == Bend(14, face.mouth_curve, 100 - Parabola(q))
           hh == face.mouth_open * 20
<1>1. r \in Int /\ y - 50 < 100 * r /\ 100 * r < y + 150
  <2> DEFINE n == y + 50
  <2>1. n \in Int /\ y \in Int  OBVIOUS
  <2>2. r = Truncated(n)  OBVIOUS
  <2> HIDE DEF n, y, r
  <2>3. Truncated(n) \in Int /\ n - 100 < 100 * Truncated(n) /\ 100 * Truncated(n) < n + 100
    BY <2>1, Rounds
  <2>4. n = y + 50  BY DEF n
  <2>5. QED  BY <2>1, <2>2, <2>3, <2>4
<1>2. CASE face.mouth_open <= 0  BY <1>2 DEF MouthColumn
<1>3. CASE ~(face.mouth_open <= 0)
  <2>1. MouthColumn(face, m, q) = Edge(y - bend - hh, y - bend + hh)
    BY <1>3, Zenon DEF MouthColumn, Bend
  <2>2. Within(face.mouth_curve, -105, 100) /\ Within(face.mouth_open, 0, 100)
    BY DEF Drawable, Fits, Curve
  <2>3. hh \in Nat /\ hh <= 2000  BY <2>2 DEF Within
  <2>4. bend \in Int /\ -1471 <= bend /\ bend <= 1470
    <3>1. Within(Parabola(q), 0, 100)  BY Positions
    <3>2. Within(100 - Parabola(q), 0, 100)  BY <3>1 DEF Within
    <3>3. bend \in Int /\ -105 * 14 - 1 <= bend /\ bend <= 105 * 14  BY <3>2, <2>2, CurveBounded
    <3>4. QED  BY <3>3
  <2> HIDE DEF y, r, hh, bend
  <2> DEFINE t == y - bend - hh  b == y - bend + hh  lo == y - 3471  hi == y + 3471
  <2>5. t \in Int /\ b \in Int /\ lo \in Int /\ hi \in Int /\ lo <= t /\ b <= hi
    <3>1. y \in Int  BY DEF y
    <3>2. QED  BY <3>1, <2>3, <2>4
  <2>6. MouthColumn(face, m, q) = Edge(t, b)  BY <2>1
  <2> HIDE DEF t, b, lo, hi
  <2>7. ASSUME NEW a \in Edge(t, b) PROVE a \in (r - 40)..(r + 40)
    <3>1. a \in Int /\ lo - 100 <= 100 * a /\ 100 * a <= hi + 100
      BY <2>5, EdgeWithin
    <3>2. y \in Int  BY DEF y
    <3>3. QED  BY <3>1, <3>2, <1>1 DEF lo, hi
  <2>8. MouthColumn(face, m, q) \subseteq (r - 40)..(r + 40)  BY <2>6, <2>7
  <2>9. QED  BY <2>8 DEF r, y
<1>4. QED  BY <1>2, <1>3

LEMMA MouthTyped ==
  ASSUME NEW pose, PoseOk(pose)
  PROVE  Mouth(pose).x \in Int /\ Mouth(pose).y \in Int
<1>1. XOffset(pose) \in Int /\ GazeShift(pose) \in Int /\ GazeY(pose) \in Int  BY Shifts
<1> DEFINE n == GazeY(pose) * 55 * 60
<1>2. n \in Int  BY <1>1
<1>3. Percent(GazeY(pose) * 55, 60) = n \div 100  BY DEF Percent
<1> HIDE DEF n
<1>4. n \div 100 \in Int  BY <1>2
<1>5. QED  BY <1>1, <1>3, <1>4 DEF Mouth

LEMMA EyeInside ==
  ASSUME NEW pose, PoseOk(pose), NEW s \in {"l", "r"}
  PROVE  /\ Inside(EyeBox(pose, s), EyeDirty(Eye(pose, s)))
         /\ Shown(EyeDirty(Eye(pose, s)))
<1> DEFINE eye == Eye(pose, s)  rows == UNION {EyeColumn(pose.face, eye, q) : q \in 0..4}
           y == EyeRow(eye)  x == eye.x  half == eye.half
<1>1. EyeOk(eye)  BY EyeTyped
<1>2. Drawable(pose.face)  BY DEF PoseOk
<1>3. EyeBox(pose, s) = Box(x, half, rows)  BY DEF EyeBox
<1>4. EyeDirty(eye) = FromBounds(x - half - 3, y - 62, x + half + 4, y + 63)
  BY DEF EyeDirty, EyeRow
<1> HIDE DEF eye
<1>5. x \in Int /\ half \in Int /\ y \in Int
  <2>1. x \in Int /\ half \in Int /\ eye.y \in Int  BY <1>1 DEF EyeOk
  <2>2. y \in Int  BY <2>1, NearestRow DEF EyeRow
  <2>3. QED  BY <2>1, <2>2
<1>6. \A q \in 0..4 : EyeColumn(pose.face, eye, q) \subseteq (y - 62)..(y + 62)
  BY <1>1, <1>2, EyeRows
<1>7. rows \subseteq (y - 62)..(y + 62)  BY <1>6
<1> HIDE DEF rows, x, half, y
<1>8. Inside(Box(x, half, rows),
             FromBounds(x - half - 3, y - 62, x + half + 1 + 3, y + 62 + 1))
  <2> DEFINE by == 62  side == 3
  <2>1. by \in Nat /\ side \in Nat /\ rows \subseteq (y - by)..(y + by)  BY <1>7
  <2> HIDE DEF by, side
  <2>2. Inside(Box(x, half, rows),
               FromBounds(x - half - side, y - by, x + half + 1 + side, y + by + 1))
    BY <1>5, <2>1, BoxInside
  <2>3. QED  BY <2>2 DEF by, side
<1>9. x + half + 1 + 3 = x + half + 4 /\ y + 62 + 1 = y + 63  BY <1>5
<1>10. Inside(EyeBox(pose, s), EyeDirty(eye))  BY <1>3, <1>4, <1>8, <1>9
<1>11. Shown(EyeDirty(eye))
  <2>1. /\ x - half - 3 \in Int /\ y - 62 \in Int /\ x + half + 4 \in Int /\ y + 63 \in Int
    BY <1>5
  <2>2. QED  BY <2>1, <1>4, BoundsShown
<1>12. QED  BY <1>10, <1>11 DEF eye

LEMMA MouthInside ==
  ASSUME NEW pose, PoseOk(pose)
  PROVE  /\ Inside(MouthBox(pose), MouthDirty(Mouth(pose)))
         /\ Shown(MouthDirty(Mouth(pose)))
<1> DEFINE m == Mouth(pose)  rows == UNION {MouthColumn(pose.face, m, q) : q \in 0..4}
           y == Truncated(m.y + 50)  x == m.x
<1>1. m.x \in Int /\ m.y \in Int  BY MouthTyped
<1>2. Drawable(pose.face)  BY DEF PoseOk
<1>3. MouthBox(pose) = Box(x, 32, rows)  BY DEF MouthBox
<1>4. MouthDirty(m) = FromBounds(x - 35, y - 40, x + 36, y + 41)
  BY DEF MouthDirty
<1> HIDE DEF m
<1>5. x \in Int /\ y \in Int
  <2>1. m.y + 50 \in Int  BY <1>1
  <2>2. QED  BY <1>1, <2>1, Rounds
<1>6. \A q \in 0..4 : MouthColumn(pose.face, m, q) \subseteq (y - 40)..(y + 40)
  BY <1>1, <1>2, MouthRows
<1>7. rows \subseteq (y - 40)..(y + 40)  BY <1>6
<1> HIDE DEF rows, x, y
<1>8. Inside(Box(x, 32, rows),
             FromBounds(x - 32 - 3, y - 40, x + 32 + 1 + 3, y + 40 + 1))
  <2> DEFINE h == 32  by == 40  side == 3
  <2>1. h \in Int /\ by \in Nat /\ side \in Nat /\ rows \subseteq (y - by)..(y + by)  BY <1>7
  <2> HIDE DEF h, by, side
  <2>2. Inside(Box(x, h, rows),
               FromBounds(x - h - side, y - by, x + h + 1 + side, y + by + 1))
    BY <1>5, <2>1, BoxInside
  <2>3. QED  BY <2>2 DEF h, by, side
<1>9. x - 32 - 3 = x - 35 /\ x + 32 + 1 + 3 = x + 36 /\ y + 40 + 1 = y + 41  BY <1>5
<1>10. Inside(MouthBox(pose), MouthDirty(m))  BY <1>3, <1>4, <1>8, <1>9
<1>11. Shown(MouthDirty(m))
  <2>1. /\ x - 35 \in Int /\ y - 40 \in Int /\ x + 36 \in Int /\ y + 41 \in Int
    BY <1>5
  <2>2. QED  BY <2>1, <1>4, BoundsShown
<1>12. QED  BY <1>10, <1>11 DEF m

(* What is drawn of any pose lies in the rectangle given for it, and that  *)
(* one in the dirty rectangle of the frame.                                *)
LEMMA PoseInside ==
  ASSUME NEW pose, PoseOk(pose)
  PROVE  /\ \A s \in {"l", "r"} : /\ Inside(EyeBox(pose, s), EyeDirty(Eye(pose, s)))
                                  /\ Inside(EyeDirty(Eye(pose, s)), FaceDirty(pose))
         /\ Inside(MouthBox(pose), MouthDirty(Mouth(pose)))
         /\ Inside(MouthDirty(Mouth(pose)), FaceDirty(pose))
<1> DEFINE l == EyeDirty(Eye(pose, "l"))  r == EyeDirty(Eye(pose, "r"))
           m == MouthDirty(Mouth(pose))  u == RectUnion(l, r)
<1>1. /\ Shown(l) /\ Shown(r) /\ Shown(m)
      /\ \A s \in {"l", "r"} : Inside(EyeBox(pose, s), EyeDirty(Eye(pose, s)))
      /\ Inside(MouthBox(pose), m)
  BY EyeInside, MouthInside
<1>2. FaceDirty(pose) = RectUnion(u, m)  BY DEF FaceDirty
<1> HIDE DEF l, r, m, u
<1>3. Shown(u) /\ Inside(l, u) /\ Inside(r, u)  BY <1>1, UnionShown DEF u
<1> DEFINE d == RectUnion(u, m)
<1>4. Shown(d) /\ Inside(u, d) /\ Inside(m, d)  BY <1>1, <1>3, UnionShown
<1> HIDE DEF d
<1>5. Inside(l, d) /\ Inside(r, d)  BY <1>1, <1>3, <1>4, InsideAll
<1>6. d = FaceDirty(pose)  BY <1>2 DEF d
<1>7. \A s \in {"l", "r"} : Inside(EyeDirty(Eye(pose, s)), d)  BY <1>5 DEF l, r
<1>8. QED  BY <1>1, <1>4, <1>6, <1>7 DEF m

-----------------------------------------------------------------------------
(* The faces of the table: a row gives each field, and no field twice.     *)
FitsRow(row) ==
  /\ \A i \in 1..8 : Within(row[i], 0, 100)
  /\ Within(row[9], 0, 88) /\ Within(row[10], 0, 88)
  /\ row[11] \in Int /\ row[12] \in Int /\ row[13] \in Int
  /\ Within(row[14], 0, 200) /\ Within(row[15], 0, 200)
  /\ Within(row[16], -100, 100) /\ Within(row[17], -100, 100)
  /\ Within(row[18], 0, 200) /\ Within(row[19], 0, 200)
  /\ Within(row[20], 0, 100) /\ Within(row[21], -100, 100)

LEMMA RowField ==
  ASSUME NEW row, NEW i \in 1..21
  PROVE  Fields[i] \in Names /\ FaceOf(row)[Fields[i]] = row[i]
<1>1. DOMAIN Fields = 1..21  BY DEF Fields
<1>2. Fields[i] \in Range(Fields)  BY <1>1 DEF Range
<1> DEFINE k == CHOOSE j \in DOMAIN Fields : Fields[j] = Fields[i]
<1>3. k \in DOMAIN Fields /\ Fields[k] = Fields[i]  BY <1>1
<1>4. FaceOf(row)[Fields[i]] = row[k]  BY <1>2 DEF FaceOf
<1> HIDE DEF k
<1>5. k = i  BY <1>1, <1>3, FieldsApart
<1>6. QED  BY <1>2, <1>4, <1>5, FieldNames

LEMMA RowFits ==
  ASSUME NEW row, FitsRow(row)
  PROVE  Fits(FaceOf(row), 88, -100)
<1> DEFINE face == FaceOf(row)
<1>1. \A i \in 1..21 : face[Fields[i]] = row[i]  BY RowField
<1> HIDE DEF face
<1>2. /\ face["tl_l"] = row[1] /\ face["tr_l"] = row[2] /\ face["bl_l"] = row[3]
      /\ face["br_l"] = row[4] /\ face["tl_r"] = row[5] /\ face["tr_r"] = row[6]
      /\ face["bl_r"] = row[7] /\ face["br_r"] = row[8] /\ face["open_l"] = row[9]
      /\ face["open_r"] = row[10] /\ face["y_l"] = row[11] /\ face["y_r"] = row[12]
      /\ face["x_off"] = row[13] /\ face["round_top"] = row[14]
      /\ face["round_bottom"] = row[15] /\ face["curve_top"] = row[16]
      /\ face["curve_bottom"] = row[17] /\ face["squint_l"] = row[18]
      /\ face["squint_r"] = row[19] /\ face["mouth_open"] = row[20]
      /\ face["mouth_curve"] = row[21]
  BY <1>1 DEF Fields
<1>3. Fits(face, 88, -100)
  <2>1. \A f \in Corner : Within(face[f], 0, 100)  BY <1>2 DEF FitsRow, Corner
  <2>2. Within(face["mouth_open"], 0, 100)  BY <1>2 DEF FitsRow
  <2>3. \A f \in Open : Within(face[f], 0, 88)  BY <1>2 DEF FitsRow, Open
  <2>4. \A f \in Squint \cup Round : Within(face[f], 0, 200)
    BY <1>2 DEF FitsRow, Squint, Round
  <2>5. \A f \in Curve : Within(face[f], -100, 100)  BY <1>2 DEF FitsRow, Curve
  <2>6. \A f \in Place : face[f] \in Int  BY <1>2 DEF FitsRow, Place
  <2>7. QED  BY <2>1, <2>2, <2>3, <2>4, <2>5, <2>6 DEF Fits
<1>4. QED  BY <1>3 DEF face

(* A face of the table, or one made from them.                             *)
Faces == [Names -> Int]

LEMMA ExpressionFits ==
  ASSUME NEW e
  PROVE  Expression(e) \in Faces /\ Fits(Expression(e), 88, -100)
<1>1. Expression(e) \in {Expressions.NEUTRAL, Expressions.HAPPY, Expressions.SAD,
                         Expressions.ANGRY, Expressions.CONTENT}
  BY DEF Expression, Expressions
<1>2. Fits(Expressions.NEUTRAL, 88, -100)  BY RowFits DEF Expressions, FitsRow, Within
<1>3. Fits(Expressions.HAPPY, 88, -100)  BY RowFits DEF Expressions, FitsRow, Within
<1>4. Fits(Expressions.SAD, 88, -100)  BY RowFits DEF Expressions, FitsRow, Within
<1>5. Fits(Expressions.ANGRY, 88, -100)  BY RowFits DEF Expressions, FitsRow, Within
<1>6. Fits(Expressions.CONTENT, 88, -100)  BY RowFits DEF Expressions, FitsRow, Within
<1>7. Fits(Expression(e), 88, -100)  BY <1>1, <1>2, <1>3, <1>4, <1>5, <1>6
<1>8. \E row : Expression(e) = FaceOf(row)
  <2>1. /\ \E row : Expressions.NEUTRAL = FaceOf(row)
        /\ \E row : Expressions.HAPPY = FaceOf(row)
        /\ \E row : Expressions.SAD = FaceOf(row)
        /\ \E row : Expressions.ANGRY = FaceOf(row)
        /\ \E row : Expressions.CONTENT = FaceOf(row)
    BY DEF Expressions
  <2>2. QED  BY <1>1, <2>1
<1>9. PICK row : Expression(e) = FaceOf(row)  BY <1>8
<1>10. \A f \in Names : Expression(e)[f] \in Int  BY <1>7 DEF Fits, Within, Names
<1>11. Expression(e) \in Faces  BY <1>9, <1>10, FieldNames DEF FaceOf, Faces
<1>12. QED  BY <1>7, <1>11

(* A part of a number lies between nothing and all of it.                  *)
LEMMA PartOf ==
  ASSUME NEW d \in Int, NEW t, Within(t, 0, 100)
  PROVE  /\ Percent(d, t) \in Int
         /\ d >= 0 => 0 <= Percent(d, t) /\ Percent(d, t) <= d
         /\ d <= 0 => d <= Percent(d, t) /\ Percent(d, t) <= 0
<1>1. t \in Int /\ 0 <= t /\ t <= 100 /\ 0 \in Int /\ 100 \in Int  BY DEF Within
<1> DEFINE k == d * t
<1>2. Percent(d, t) = k \div 100  BY DEF Percent
<1>3. k \in Int  BY <1>1
<1>4. d >= 0 => 0 <= k /\ k <= 100 * d
  <2>1. d >= 0 => t * d \in Int /\ 0 * d <= t * d /\ t * d <= 100 * d
    <3>1. d >= 0 => d \in Nat  OBVIOUS
    <3>2. QED  BY <3>1, <1>1, Product
  <2>2. t * d = k /\ 0 * d = 0  BY <1>1
  <2>3. QED  BY <2>1, <2>2
<1>5. d <= 0 => k <= 0 /\ 100 * d <= k
  <2> DEFINE e == -d
  <2>1. d <= 0 => e \in Nat  OBVIOUS
  <2> HIDE DEF e
  <2>2. d <= 0 => t * e \in Int /\ 0 * e <= t * e /\ t * e <= 100 * e
    BY <2>1, <1>1, Product
  <2>3. e \in Int /\ t * e = -k /\ e = -d  BY <1>1 DEF e
  <2> HIDE DEF k
  <2>4. QED  BY <2>2, <2>3, <1>3
<1> HIDE DEF k
<1>6. QED  BY <1>2, <1>3, <1>4, <1>5

LEMMA Lerped ==
  ASSUME NEW lo \in Int, NEW hi \in Int, NEW a, NEW b, NEW t,
         Within(a, lo, hi), Within(b, lo, hi), Within(t, 0, 100)
  PROVE  Within(a + Percent(b - a, t), lo, hi)
<1> DEFINE d == b - a
<1>1. a \in Int /\ b \in Int /\ d \in Int /\ lo <= a /\ a <= hi /\ lo <= b /\ b <= hi /\ b = a + d
  BY DEF Within
<1> HIDE DEF d
<1>2. /\ Percent(d, t) \in Int
      /\ d >= 0 => 0 <= Percent(d, t) /\ Percent(d, t) <= d
      /\ d <= 0 => d <= Percent(d, t) /\ Percent(d, t) <= 0
  BY <1>1, PartOf
<1>3. Within(a + Percent(d, t), lo, hi)  BY <1>1, <1>2 DEF Within
<1>4. QED  BY <1>3 DEF d

(* A blend by shares of at most the whole leaves the range of the faces    *)
(* blended by less than the five roundings.                                *)
Shares(w) == (\A i \in 1..5 : Within(w[i], 0, 100)) /\ Total(w) <= 100
Mix(w, v) == Total([i \in 1..5 |-> Percent(w[i], v[i])])

LEMMA Mixed ==
  ASSUME NEW w, Shares(w), NEW lo \in Int, NEW hi \in Nat, lo <= 0,
         NEW v, \A i \in 1..5 : Within(v[i], lo, hi)
  PROVE  Within(Mix(w, v), lo - 5, hi) /\ (lo = 0 => 0 <= Mix(w, v))
<1>1. ASSUME NEW i \in 1..5
      PROVE  /\ w[i] \in Nat /\ Percent(w[i], v[i]) \in Int
             /\ lo * w[i] - 100 < 100 * Percent(w[i], v[i])
             /\ 100 * Percent(w[i], v[i]) <= hi * w[i]
             /\ lo = 0 => 0 <= Percent(w[i], v[i])
  <2> DEFINE a == v[i]  b == w[i]  k == b * a
  <2>1. a \in Int /\ lo <= a /\ a <= hi /\ b \in Nat  BY DEF Within, Shares
  <2>2. Percent(w[i], v[i]) = k \div 100  BY DEF Percent
  <2>3. k \in Int /\ lo * b <= k /\ k <= hi * b
    <3> HIDE DEF a, b
    <3>1. a * b \in Int /\ lo * b <= a * b /\ a * b <= hi * b  BY <2>1, Product
    <3>2. a * b = b * a  BY <2>1
    <3>3. QED  BY <3>1, <3>2
  <2>4. lo = 0 => 0 <= lo * b  BY <2>1
  <2> DEFINE l == lo * b  h == hi * b
  <2>5. l \in Int /\ h \in Int  BY <2>1
  <2>6. l <= k /\ k <= h /\ (lo = 0 => 0 <= l)  BY <2>3, <2>4
  <2> HIDE DEF k, l, h
  <2>7. /\ k \div 100 \in Int /\ l - 100 < 100 * (k \div 100) /\ 100 * (k \div 100) <= h
        /\ lo = 0 => 0 <= k \div 100
    BY <2>3, <2>5, <2>6
  <2>8. QED  BY <2>1, <2>2, <2>7 DEF l, h
<1> DEFINE W(i) == w[i]  P(i) == Percent(w[i], v[i])  L(i) == lo * w[i]  H(i) == hi * w[i]
           sum == W(1) + W(2) + W(3) + W(4) + W(5)
<1>2. Mix(w, v) = P(1) + P(2) + P(3) + P(4) + P(5)  BY DEF Mix, Total
<1>3. sum <= 100  BY DEF Shares, Total
<1>4. /\ W(1) \in Nat /\ W(2) \in Nat /\ W(3) \in Nat /\ W(4) \in Nat /\ W(5) \in Nat
      /\ L(1) - 100 < 100 * P(1) /\ L(2) - 100 < 100 * P(2) /\ L(3) - 100 < 100 * P(3)
      /\ L(4) - 100 < 100 * P(4) /\ L(5) - 100 < 100 * P(5)
      /\ 100 * P(1) <= H(1) /\ 100 * P(2) <= H(2) /\ 100 * P(3) <= H(3)
      /\ 100 * P(4) <= H(4) /\ 100 * P(5) <= H(5)
      /\ P(1) \in Int /\ P(2) \in Int /\ P(3) \in Int /\ P(4) \in Int /\ P(5) \in Int
      /\ lo = 0 => 0 <= P(1) /\ 0 <= P(2) /\ 0 <= P(3) /\ 0 <= P(4) /\ 0 <= P(5)
  BY <1>1
<1> HIDE DEF W, P
<1>5. sum \in Nat  BY <1>4
<1>6. /\ L(1) \in Int /\ L(2) \in Int /\ L(3) \in Int /\ L(4) \in Int /\ L(5) \in Int
      /\ H(1) \in Int /\ H(2) \in Int /\ H(3) \in Int /\ H(4) \in Int /\ H(5) \in Int
      /\ L(1) + L(2) + L(3) + L(4) + L(5) = lo * sum
      /\ H(1) + H(2) + H(3) + H(4) + H(5) = hi * sum
  <2>1. \A i \in 1..5 : L(i) = lo * W(i) /\ H(i) = hi * W(i)  BY DEF W
  <2> HIDE DEF L, H
  <2>2. /\ L(1) = lo * W(1) /\ L(2) = lo * W(2) /\ L(3) = lo * W(3) /\ L(4) = lo * W(4)
        /\ L(5) = lo * W(5)
        /\ H(1) = hi * W(1) /\ H(2) = hi * W(2) /\ H(3) = hi * W(3) /\ H(4) = hi * W(4)
        /\ H(5) = hi * W(5)
    BY <2>1
  <2>3. QED  BY <2>2, <1>4
<1> HIDE DEF L, H, sum
<1>7. hi * sum <= 100 * hi /\ 100 * lo <= lo * sum
  <2>1. sum * hi <= 100 * hi
    <3>1. 0 <= sum /\ sum \in Int /\ 0 \in Int /\ 100 \in Int  BY <1>5
    <3>2. QED  BY <3>1, <1>3, Product
  <2> DEFINE m == -lo
  <2>2. m \in Nat  OBVIOUS
  <2> HIDE DEF m
  <2>3. sum * m <= 100 * m
    <3>1. 0 <= sum /\ sum \in Int /\ 0 \in Int /\ 100 \in Int  BY <1>5
    <3>2. QED  BY <3>1, <1>3, <2>2, Product
  <2>4. lo = -m  BY DEF m
  <2>5. QED  BY <2>1, <2>2, <2>3, <2>4, <1>5
<1> DEFINE hs == hi * sum  ls == lo * sum
<1>8. hs \in Int /\ ls \in Int  BY <1>5
<1> HIDE DEF hs, ls
<1>9. /\ L(1) + L(2) + L(3) + L(4) + L(5) = ls /\ H(1) + H(2) + H(3) + H(4) + H(5) = hs
      /\ hs <= 100 * hi /\ 100 * lo <= ls
  BY <1>6, <1>7 DEF hs, ls
<1>10. Mix(w, v) \in Int /\ lo - 5 <= Mix(w, v) /\ Mix(w, v) <= hi /\ (lo = 0 => 0 <= Mix(w, v))
  BY <1>2, <1>4, <1>6, <1>8, <1>9
<1>11. QED  BY <1>10 DEF Within

LEMMA PercentTyped ==
  ASSUME NEW a \in Int, NEW b \in Int
  PROVE  Percent(a, b) \in Int
<1> DEFINE n == a * b
<1>1. n \in Int  OBVIOUS
<1> HIDE DEF n
<1>2. n \div 100 \in Int  BY <1>1
<1>3. QED  BY <1>2 DEF n, Percent

LEMMA BlendFits ==
  ASSUME NEW w, Shares(w),
         NEW faces, \A i \in 1..5 : faces[i] \in Faces /\ Fits(faces[i], 88, -100)
  PROVE  Blend(faces, w) \in Faces /\ Fits(Blend(faces, w), 88, -105)
<1> DEFINE b == Blend(faces, w)  v(f) == [i \in 1..5 |-> faces[i][f]]
<1>1. b = [f \in Names |-> Mix(w, v(f))]
  <2>1. \A f : [i \in 1..5 |-> Percent(w[i], faces[i][f])] = [i \in 1..5 |-> Percent(w[i], v(f)[i])]
    OBVIOUS
  <2>2. QED  BY <2>1, FieldNames DEF Blend, Mix
<1>2. \A f \in Names : b[f] = Mix(w, v(f))  BY <1>1
<1>3. ASSUME NEW f, NEW lo \in Int, NEW hi \in Nat, lo <= 0,
             \A i \in 1..5 : Within(faces[i][f], lo, hi)
      PROVE  Within(Mix(w, v(f)), lo - 5, hi) /\ (lo = 0 => 0 <= Mix(w, v(f)))
  <2> DEFINE c == v(f)
  <2>1. \A i \in 1..5 : Within(c[i], lo, hi)  BY <1>3
  <2> HIDE DEF c
  <2>2. Within(Mix(w, c), lo - 5, hi) /\ (lo = 0 => 0 <= Mix(w, c))  BY <2>1, <1>3, Mixed
  <2>3. QED  BY <2>2 DEF c
<1>4. ASSUME NEW f, NEW hi \in Nat, \A i \in 1..5 : Within(faces[i][f], 0, hi)
      PROVE  Within(Mix(w, v(f)), 0, hi)
  <2> DEFINE z == 0
  <2>1. z \in Int /\ z <= 0 /\ z = 0 /\ \A i \in 1..5 : Within(faces[i][f], z, hi)  BY <1>4
  <2> HIDE DEF z
  <2>2. Within(Mix(w, v(f)), z - 5, hi) /\ (z = 0 => 0 <= Mix(w, v(f)))  BY <2>1, <1>3
  <2> HIDE DEF v
  <2>3. QED  BY <2>1, <2>2 DEF Within
<1> HIDE DEF b
<1>5. \A f \in Corner \cup {"mouth_open"} : Within(b[f], 0, 100)
  <2> SUFFICES ASSUME NEW f \in Corner \cup {"mouth_open"} PROVE Within(b[f], 0, 100)  OBVIOUS
  <2>1. \A i \in 1..5 : Within(faces[i][f], 0, 100)  BY DEF Fits
  <2>2. f \in Names  BY DEF Names
  <2>3. Within(Mix(w, v(f)), 0, 100)  BY <2>1, <1>4
  <2>4. QED  BY <2>2, <2>3, <1>2
<1>6. \A f \in Open : Within(b[f], 0, 88)
  <2> SUFFICES ASSUME NEW f \in Open PROVE Within(b[f], 0, 88)  OBVIOUS
  <2>1. \A i \in 1..5 : Within(faces[i][f], 0, 88)  BY DEF Fits
  <2>2. f \in Names  BY DEF Names
  <2>3. Within(Mix(w, v(f)), 0, 88)  BY <2>1, <1>4
  <2>4. QED  BY <2>2, <2>3, <1>2
<1>7. \A f \in Squint \cup Round : Within(b[f], 0, 200)
  <2> SUFFICES ASSUME NEW f \in Squint \cup Round PROVE Within(b[f], 0, 200)  OBVIOUS
  <2>1. \A i \in 1..5 : Within(faces[i][f], 0, 200)  BY DEF Fits
  <2>2. f \in Names  BY DEF Names
  <2>3. Within(Mix(w, v(f)), 0, 200)  BY <2>1, <1>4
  <2>4. QED  BY <2>2, <2>3, <1>2
<1>8. \A f \in Curve : Within(b[f], -105, 100)
  <2> SUFFICES ASSUME NEW f \in Curve PROVE Within(b[f], -105, 100)  OBVIOUS
  <2>1. \A i \in 1..5 : Within(faces[i][f], -100, 100)  BY DEF Fits
  <2>2. f \in Names  BY DEF Names
  <2>3. Within(Mix(w, v(f)), -100 - 5, 100)  BY <2>1, <1>3
  <2>4. QED  BY <2>2, <2>3, <1>2
<1>9. \A f \in Place : b[f] \in Int
  <2> SUFFICES ASSUME NEW f \in Place PROVE b[f] \in Int  OBVIOUS
  <2>1. \A i \in 1..5 : faces[i][f] \in Int  BY DEF Fits
  <2>2. \A i \in 1..5 : Percent(w[i], v(f)[i]) \in Int
    <3>1. \A i \in 1..5 : w[i] \in Int  BY DEF Shares, Within
    <3>2. QED  BY <2>1, <3>1, PercentTyped
  <2>3. Mix(w, v(f)) \in Int  BY <2>2 DEF Mix, Total
  <2>4. f \in Names  BY DEF Names
  <2>5. QED  BY <2>3, <2>4, <1>2
<1>10. Fits(b, 88, -105)  BY <1>5, <1>6, <1>7, <1>8, <1>9 DEF Fits
<1>11. \A f \in Names : b[f] \in Int  BY <1>10 DEF Fits, Within, Names
<1>12. b \in Faces  BY <1>1, <1>2, <1>11 DEF Faces
<1>13. QED  BY <1>10, <1>12 DEF b

LEMMA LerpFits ==
  ASSUME NEW a \in Faces, NEW b, NEW t, Drawable(a), Drawable(b), Within(t, 0, 100)
  PROVE  Lerp(a, b, t) \in Faces /\ Drawable(Lerp(a, b, t))
<1> DEFINE c == Lerp(a, b, t)
<1>1. c = [f \in Names |-> a[f] + Percent(b[f] - a[f], t)]  BY DEF Lerp, Faces
<1> HIDE DEF c
<1>2. \A f \in Names : c[f] = a[f] + Percent(b[f] - a[f], t)  BY <1>1
<1>3. ASSUME NEW f \in Names, NEW lo \in Int, NEW hi \in Int,
             Within(a[f], lo, hi), Within(b[f], lo, hi)
      PROVE  Within(c[f], lo, hi)
  BY <1>2, <1>3, Lerped
<1>4. \A f \in Corner \cup Open \cup {"mouth_open"} : Within(c[f], 0, 100)
  BY <1>3 DEF Drawable, Fits, Names
<1>5. \A f \in Squint \cup Round : Within(c[f], 0, 200)
  BY <1>3 DEF Drawable, Fits, Names
<1>6. \A f \in Curve : Within(c[f], -105, 100)
  BY <1>3 DEF Drawable, Fits, Names
<1>7. \A f \in Place : c[f] \in Int
  <2> SUFFICES ASSUME NEW f \in Place PROVE c[f] \in Int  OBVIOUS
  <2>1. a[f] \in Int /\ b[f] \in Int /\ t \in Int /\ f \in Names
    BY DEF Drawable, Fits, Within, Names
  <2> DEFINE d == b[f] - a[f]
  <2>2. d \in Int  BY <2>1
  <2> HIDE DEF d
  <2>3. Percent(d, t) \in Int  BY <2>1, <2>2, PercentTyped
  <2>4. QED  BY <2>1, <2>3, <1>2 DEF d
<1>8. Drawable(c)  BY <1>4, <1>5, <1>6, <1>7 DEF Drawable, Fits
<1>9. \A f \in Names : c[f] \in Int  BY <1>8 DEF Drawable, Fits, Within, Names
<1>10. c \in Faces  BY <1>1, <1>2, <1>9 DEF Faces
<1>11. QED  BY <1>8, <1>10 DEF c

LEMMA LidsFields ==
  ASSUME NEW face \in Faces, NEW k
  PROVE  Lids(face, k) = [f \in Names |-> IF f = "open_r" THEN Percent(face.open_r, k)
                                         ELSE IF f = "open_l" THEN Percent(face.open_l, k)
                                         ELSE face[f]]
<1> DEFINE l == Percent(face.open_l, k)  r == Percent(face.open_r, k)  c == Lids(face, k)
<1>1. c = [face EXCEPT !.open_l = l, !.open_r = r]  BY DEF Lids
<1>2. face = [f \in Names |-> face[f]]  BY DEF Faces
<1> HIDE DEF c, l, r
<1>3. c = [f \in Names |-> c[f]]  BY <1>1, <1>2
<1>4. \A f \in Names : c[f] = IF f = "open_r" THEN r ELSE IF f = "open_l" THEN l ELSE face[f]
  BY <1>1, <1>2
<1>5. c = [f \in Names |-> IF f = "open_r" THEN r ELSE IF f = "open_l" THEN l ELSE face[f]]
  BY <1>3, <1>4
<1>6. QED  BY <1>5 DEF c, l, r

(* Lids are drawn over a face that leaves room for them.                   *)
LEMMA LidsFit ==
  ASSUME NEW face \in Faces, NEW open \in Nat, Fits(face, open, -105),
         NEW k \in Nat, open * k <= 10000
  PROVE  Lids(face, k) \in Faces /\ Drawable(Lids(face, k))
<1> DEFINE c == Lids(face, k)
<1>1. DOMAIN face = Names /\ Open \subseteq Names  BY DEF Faces, Names
<1>2. /\ c.open_l = Percent(face.open_l, k) /\ c.open_r = Percent(face.open_r, k)
      /\ \A f \in Names \ Open : c[f] = face[f]
      /\ c = [f \in Names |-> c[f]]
  <2>1. c = [f \in Names |-> IF f = "open_r" THEN Percent(face.open_r, k)
                            ELSE IF f = "open_l" THEN Percent(face.open_l, k) ELSE face[f]]
    BY LidsFields
  <2> HIDE DEF c
  <2>2. "open_l" \in Names /\ "open_r" \in Names  BY DEF Names, Open
  <2>3. \A f \in Names \ Open : f # "open_l" /\ f # "open_r"  BY DEF Open
  <2>4. QED  BY <2>1, <2>2, <2>3
<1> HIDE DEF c
<1>3. ASSUME NEW v, Within(v, 0, open) PROVE Within(Percent(v, k), 0, 100)
  <2>1. v \in Int /\ 0 <= v /\ v <= open /\ 0 \in Int  BY <1>3 DEF Within
  <2>2. v * k \in Int /\ 0 * k <= v * k /\ v * k <= open * k  BY <2>1, Product
  <2> DEFINE n == v * k
  <2>3. n \in Int /\ 0 <= n /\ n <= 10000
    <3>1. 0 * k = 0 /\ open * k \in Int  OBVIOUS
    <3>2. QED  BY <2>2, <3>1
  <2> HIDE DEF n
  <2>4. n \div 100 \in Int /\ 0 <= n \div 100 /\ n \div 100 <= 100  BY <2>3
  <2>5. QED  BY <2>4 DEF n, Percent, Within
<1>4. \A f \in Open : Within(c[f], 0, 100)  BY <1>2, <1>3 DEF Fits, Open
<1>5. \A f \in Corner \cup {"mouth_open"} : Within(c[f], 0, 100)
  <2>1. \A f \in Corner \cup {"mouth_open"} : f \in Names \ Open
    BY DEF Corner, Names, Open
  <2>2. QED  BY <2>1, <1>2 DEF Fits
<1>6. \A f \in Squint \cup Round : Within(c[f], 0, 200)
  <2>1. \A f \in Squint \cup Round : f \in Names \ Open
    BY DEF Squint, Round, Names, Open
  <2>2. QED  BY <2>1, <1>2 DEF Fits
<1>7. \A f \in Curve : Within(c[f], -105, 100)
  <2>1. \A f \in Curve : f \in Names \ Open  BY DEF Curve, Names, Open
  <2>2. QED  BY <2>1, <1>2 DEF Fits
<1>8. \A f \in Place : c[f] \in Int
  <2>1. \A f \in Place : f \in Names \ Open  BY DEF Place, Names, Open
  <2>2. QED  BY <2>1, <1>2 DEF Fits
<1>9. Drawable(c)  BY <1>4, <1>5, <1>6, <1>7, <1>8 DEF Drawable, Fits
<1>10. \A f \in Names : c[f] \in Int  BY <1>9 DEF Drawable, Fits, Within, Names
<1>11. c \in Faces  BY <1>2, <1>10 DEF Faces
<1>12. QED  BY <1>9, <1>11 DEF c

LEMMA PlaceFits ==
  ASSUME NEW face, Drawable(face), NEW c,
         \A f \in Names \ Place : c[f] = face[f], \A f \in Place : c[f] \in Int
  PROVE  Drawable(c)
<1>1. \A f \in Corner \cup Open \cup Squint \cup Round \cup Curve \cup {"mouth_open"} : f \in Names \ Place
  BY DEF Names, Corner, Open, Squint, Round, Curve, Place
<1>2. \A f \in Corner \cup Open \cup Squint \cup Round \cup Curve \cup {"mouth_open"} : c[f] = face[f]
  BY <1>1
<1>3. QED  BY <1>2 DEF Drawable, Fits

LEMMA ShutFits ==
  ASSUME NEW face \in Faces, Drawable(face), NEW t \in {0, 50}
  PROVE  /\ Lids(face, 100 - BlinkClose(t)) \in Faces
         /\ Drawable(Lids(face, 100 - BlinkClose(t)))
<1> DEFINE k == 100 - BlinkClose(t)
<1>1. k \in Nat /\ k <= 100  BY DEF BlinkClose
<1> HIDE DEF k
<1> DEFINE n == 100
<1>2. n \in Nat /\ n * k <= 10000  BY <1>1
<1>3. Fits(face, n, -105)  BY DEF Drawable
<1> HIDE DEF n
<1>4. Lids(face, k) \in Faces /\ Drawable(Lids(face, k))  BY <1>2, <1>3, <1>1, LidsFit
<1>5. QED  BY <1>4 DEF k

LEMMA OrientFits ==
  ASSUME NEW face \in Faces, Drawable(face), NEW c,
         c = [face EXCEPT !.open_l = Lower(Percent(@, 105), 100),
                          !.open_r = Lower(Percent(@, 105), 100)]
  PROVE  Drawable(c)
<1> DEFINE l == Lower(Percent(face.open_l, 105), 100)  r == Lower(Percent(face.open_r, 105), 100)
<1>1. c = [face EXCEPT !.open_l = l, !.open_r = r]  OBVIOUS
<1>2. face = [f \in Names |-> face[f]] /\ "open_l" \in Names /\ "open_r" \in Names
  BY DEF Faces, Names, Open
<1>3. Within(face.open_l, 0, 100) /\ Within(face.open_r, 0, 100)
  BY DEF Drawable, Fits, Open
<1>4. ASSUME NEW v, Within(v, 0, 100) PROVE Within(Lower(Percent(v, 105), 100), 0, 100)
  BY <1>4 DEF Within, Lower, Percent
<1>5. Within(l, 0, 100) /\ Within(r, 0, 100)  BY <1>3, <1>4
<1> HIDE DEF l, r
<1>6. /\ c.open_l = l /\ c.open_r = r
      /\ \A f \in Names : f # "open_l" /\ f # "open_r" => c[f] = face[f]
  BY <1>1, <1>2
<1>7. \A f \in Corner \cup Squint \cup Round \cup Curve \cup Place \cup {"mouth_open"} :
         f \in Names /\ f # "open_l" /\ f # "open_r"
  BY DEF Names, Corner, Squint, Round, Curve, Place
<1>8. \A f \in Corner \cup Squint \cup Round \cup Curve \cup Place \cup {"mouth_open"} : c[f] = face[f]
  BY <1>6, <1>7
<1>9. \A f \in Open : Within(c[f], 0, 100)  BY <1>5, <1>6 DEF Open
<1>10. QED  BY <1>8, <1>9 DEF Drawable, Fits

(* Every beat of an arc leaves a face that can be drawn.                   *)
LEMMA OverlayFits ==
  ASSUME NEW face \in Faces, Drawable(face), NEW beat \in Beats
  PROVE  Drawable(Overlay(face, beat[1], beat[2]))
<1>1. \A e : Drawable(Expression(e))
  <2>1. \A e : Fits(Expression(e), 88, -100)  BY ExpressionFits
  <2>2. QED  BY <2>1 DEF Drawable, Fits, Within
<1>2. face = [f \in Names |-> face[f]] /\ Place \subseteq Names /\ \A f \in Place : face[f] \in Int
  BY DEF Faces, Names, Drawable, Fits
<1>3. Drawable(Overlay(face, "NONE", 0))  BY DEF Overlay
<1>4. Drawable(Overlay(face, "ANGRY", 0))
  <2>1. Within(60, 0, 100)  BY DEF Within
  <2>2. Drawable(Lerp(face, Expression("ANGRY"), 60))  BY <1>1, <2>1, LerpFits
  <2>3. QED  BY <2>2 DEF Overlay
<1>5. ASSUME NEW t \in {0, 50} PROVE Drawable(Overlay(face, "BLINK_GAZE_AWAY", t))
  <2> DEFINE g == Lids(face, 100 - BlinkClose(t))  x == g.x_off + 15  c == [g EXCEPT !.x_off = x]
  <2>1. Overlay(face, "BLINK_GAZE_AWAY", t) = c  BY DEF Overlay
  <2>2. g \in Faces /\ Drawable(g)  BY ShutFits
  <2> HIDE DEF g
  <2>3. g = [f \in Names |-> g[f]] /\ \A f \in Place : g[f] \in Int
    BY <2>2 DEF Faces, Drawable, Fits
  <2>4. x \in Int  BY <2>3 DEF Place
  <2> HIDE DEF x
  <2>5. (\A f \in Names \ Place : c[f] = g[f]) /\ \A f \in Place : c[f] \in Int
    BY <2>3, <2>4 DEF Place, Names
  <2> HIDE DEF c
  <2>6. Drawable(c)  BY <2>2, <2>5, PlaceFits
  <2>7. QED  BY <2>1, <2>6
<1>6. Drawable(Overlay(face, "NEUTRAL_HAPPY", 0))
  <2>1. Within(30, 0, 100)  BY DEF Within
  <2>2. Drawable(Lerp(face, Expression("HAPPY"), 30))  BY <1>1, <2>1, LerpFits
  <2>3. QED  BY <2>2 DEF Overlay
<1>7. Drawable(Overlay(face, "GAZE_FRONT", 50))
  <2> DEFINE x == Percent(face.x_off, 100 - 50)  c == [face EXCEPT !.x_off = x]
  <2>1. Overlay(face, "GAZE_FRONT", 50) = c  BY DEF Overlay
  <2>2. x \in Int
    <3>1. face.x_off \in Int /\ 100 - 50 \in Int  BY <1>2 DEF Place
    <3>2. QED  BY <3>1, PercentTyped
  <2> HIDE DEF x
  <2>3. (\A f \in Names \ Place : c[f] = face[f]) /\ \A f \in Place : c[f] \in Int
    BY <1>2, <2>2 DEF Place, Names
  <2> HIDE DEF c
  <2>4. Drawable(c)  BY <2>3, PlaceFits
  <2>5. QED  BY <2>1, <2>4
<1>8. Drawable(Overlay(face, "SMOOTHING", 50))
  <2>1. Within(50, 0, 100)  BY DEF Within
  <2>2. Drawable(Lerp(face, Expression("CONTENT"), 50))  BY <1>1, <2>1, LerpFits
  <2>3. QED  BY <2>2 DEF Overlay
<1>9. Drawable(Overlay(face, "CONTENT_SLOW_BLINK", 0))
  <2> DEFINE g == Lerp(face, Expression("CONTENT"), 100)
  <2>1. Within(100, 0, 100)  BY DEF Within
  <2>2. g \in Faces /\ Drawable(g)  BY <1>1, <2>1, LerpFits
  <2> HIDE DEF g
  <2>3. Drawable(Lids(g, 100 - BlinkClose(0)))  BY <2>2, ShutFits
  <2>4. QED  BY <2>3 DEF Overlay, g
<1>10. Drawable(Overlay(face, "ORIENT", 0))
  <2> DEFINE c == Overlay(face, "ORIENT", 0)
  <2>1. c = [face EXCEPT !.open_l = Lower(Percent(@, 105), 100),
                         !.open_r = Lower(Percent(@, 105), 100)]
    BY DEF Overlay
  <2> HIDE DEF c
  <2>2. Drawable(c)  BY <2>1, OrientFits
  <2>3. QED  BY <2>2 DEF c
<1>11. Drawable(Overlay(face, "FOUND", 0))
  <2>1. Within(40, 0, 100)  BY DEF Within
  <2>2. Drawable(Lerp(face, Expression("HAPPY"), 40))  BY <1>1, <2>1, LerpFits
  <2>3. QED  BY <2>2 DEF Overlay
<1>12. Drawable(Overlay(face, "NOT_FOUND_SIGH", 50))
  <2> DEFINE down == Percent(20, BlinkClose(50))  l == face.y_l + down  r == face.y_r + down
             c == [face EXCEPT !.y_l = l, !.y_r = r]
  <2>1. Overlay(face, "NOT_FOUND_SIGH", 50) = c  BY DEF Overlay
  <2>2. down \in Int  BY DEF Percent, BlinkClose
  <2> HIDE DEF down
  <2>3. l \in Int /\ r \in Int  BY <1>2, <2>2 DEF Place
  <2> HIDE DEF l, r
  <2>4. (\A f \in Names \ Place : c[f] = face[f]) /\ \A f \in Place : c[f] \in Int
    BY <1>2, <2>3 DEF Place, Names
  <2> HIDE DEF c
  <2>5. Drawable(c)  BY <2>4, PlaceFits
  <2>6. QED  BY <2>1, <2>5
<1>13. QED  BY <1>3, <1>4, <1>5, <1>6, <1>7, <1>8, <1>9, <1>10, <1>11, <1>12 DEF Beats

LEMMA MoodDrawn ==
  ASSUME NEW mood \in Faces, Fits(mood, 88, -105)
  PROVE  DrawnInside(mood)
<1> SUFFICES ASSUME NEW beat \in Beats, NEW lids \in {100, 110}, NEW side \in {-1, 1}
             PROVE  LET pose == Pose(mood, lids, beat, side)
                        dirty == FaceDirty(pose)
                    IN  /\ \A s \in {"l", "r"} : LET eye == EyeDirty(Eye(pose, s))
                                                IN  Inside(EyeBox(pose, s), eye) /\ Inside(eye, dirty)
                        /\ Inside(MouthBox(pose), MouthDirty(Mouth(pose)))
                        /\ Inside(MouthDirty(Mouth(pose)), dirty)
  BY DEF DrawnInside
<1> DEFINE pose == Pose(mood, lids, beat, side)  n == 88  face == Lids(mood, lids)
<1>1. n \in Nat /\ lids \in Nat /\ n * lids <= 10000 /\ Fits(mood, n, -105)  OBVIOUS
<1> HIDE DEF n
<1>2. face \in Faces /\ Drawable(face)  BY <1>1, LidsFit
<1> HIDE DEF face
<1>3. Drawable(Overlay(face, beat[1], beat[2]))  BY <1>2, OverlayFits
<1>4. PoseOk(pose)  BY <1>3 DEF Pose, PoseOk, face
<1> HIDE DEF pose
<1>5. /\ \A s \in {"l", "r"} : /\ Inside(EyeBox(pose, s), EyeDirty(Eye(pose, s)))
                               /\ Inside(EyeDirty(Eye(pose, s)), FaceDirty(pose))
      /\ Inside(MouthBox(pose), MouthDirty(Mouth(pose)))
      /\ Inside(MouthDirty(Mouth(pose)), FaceDirty(pose))
  BY <1>4, PoseInside
<1>6. QED  BY <1>5 DEF pose

-----------------------------------------------------------------------------
(* The touch of the variant keeps the lids no wider than the blend had     *)
(* them; it moves nothing but them, the place of the eyes, the mouth and   *)
(* the squint, and what has bounds is cut to them.                         *)
Loose == Open \cup Place \cup Squint \cup {"mouth_open"}
Retouched(g, face) ==
  /\ g \in Faces
  /\ \A f \in Corner \cup Round \cup Curve : g[f] = face[f]
  /\ \A f \in Open : g[f] <= 88

LEMMA RetouchedBy ==
  ASSUME NEW face \in Faces, NEW g, g = [f \in Names |-> g[f]],
         \A f \in Names \ Loose : g[f] = face[f], \A f \in Loose : g[f] \in Int,
         \A f \in Open : g[f] <= 88
  PROVE  Retouched(g, face)
<1>1. \A f \in Corner \cup Round \cup Curve : f \in Names \ Loose
  BY DEF Names, Corner, Round, Curve, Loose, Open, Place, Squint
<1>2. \A f \in Names : g[f] \in Int  BY DEF Faces
<1>3. g \in Faces  BY <1>2 DEF Faces
<1>4. QED  BY <1>1, <1>3 DEF Retouched

LEMMA FaceBasics ==
  ASSUME NEW face \in Faces
  PROVE  /\ face = [f \in Names |-> face[f]] /\ \A f \in Names : face[f] \in Int
         /\ Loose \subseteq Names
BY DEF Faces, Loose, Names

Cut(g) == [g EXCEPT !.open_l = ClampF(@, 0, 100), !.open_r = ClampF(@, 0, 100),
                    !.mouth_open = ClampF(@, 0, 100),
                    !.squint_l = ClampF(@, 0, 200), !.squint_r = ClampF(@, 0, 200)]

LEMMA Clamped ==
  ASSUME NEW g \in Faces
  PROVE  Cut(g) = [f \in Names |-> IF f \in Open \cup {"mouth_open"} THEN ClampF(g[f], 0, 100)
                             ELSE IF f \in Squint THEN ClampF(g[f], 0, 200) ELSE g[f]]
<1> DEFINE c == Cut(g)
           a == ClampF(g.open_l, 0, 100)  b == ClampF(g.open_r, 0, 100)
           m == ClampF(g.mouth_open, 0, 100)
           p == ClampF(g.squint_l, 0, 200)  q == ClampF(g.squint_r, 0, 200)
<1>1. c = [g EXCEPT !.open_l = a, !.open_r = b, !.mouth_open = m, !.squint_l = p, !.squint_r = q]
  BY DEF Cut
<1> HIDE DEF a, b, m, p, q, c
<1>2. c = [f \in Names |-> c[f]]  BY <1>1, FaceBasics
<1> DEFINE x == [g EXCEPT !.open_l = a, !.open_r = b, !.mouth_open = m]
<1>3. x = [f \in Names |-> x[f]]  BY FaceBasics
<1>4. \A f \in Names : x[f] = IF f = "mouth_open" THEN m
                              ELSE IF f = "open_r" THEN b ELSE IF f = "open_l" THEN a ELSE g[f]
  BY FaceBasics
<1>5. c = [x EXCEPT !.squint_l = p, !.squint_r = q]  BY <1>1
<1> HIDE DEF x
<1>6. \A f \in Names : c[f] = IF f = "squint_r" THEN q ELSE IF f = "squint_l" THEN p ELSE x[f]
  BY <1>3, <1>5
<1>7. \A f \in Names : c[f] = IF f = "squint_r" THEN q ELSE IF f = "squint_l" THEN p
                              ELSE IF f = "mouth_open" THEN m
                              ELSE IF f = "open_r" THEN b ELSE IF f = "open_l" THEN a ELSE g[f]
  BY <1>4, <1>6
<1>8. \A f \in Names : c[f] = IF f \in Open \cup {"mouth_open"} THEN ClampF(g[f], 0, 100)
                              ELSE IF f \in Squint THEN ClampF(g[f], 0, 200) ELSE g[f]
  BY <1>7 DEF Open, Squint, a, b, m, p, q
<1>9. QED  BY <1>2, <1>8 DEF c

LEMMA LidsLowered ==
  ASSUME NEW face \in Faces, \A f \in Open : face[f] <= 88, NEW by \in Nat
  PROVE  Retouched([face EXCEPT !.open_l = @ - by, !.open_r = @ - by], face)
<1> DEFINE l == face.open_l - by  r == face.open_r - by
           g == [face EXCEPT !.open_l = l, !.open_r = r]
<1>1. l \in Int /\ r \in Int /\ l <= 88 /\ r <= 88  BY FaceBasics DEF Open, Loose
<1> HIDE DEF l, r
<1>2. g = [f \in Names |-> g[f]]  BY FaceBasics
<1>3. \A f \in Names : g[f] = IF f = "open_r" THEN r ELSE IF f = "open_l" THEN l ELSE face[f]
  BY FaceBasics
<1> HIDE DEF g
<1>4. /\ \A f \in Names \ Loose : g[f] = face[f]
      /\ \A f \in Loose : g[f] \in Int
      /\ \A f \in Open : g[f] <= 88
  BY <1>1, <1>3, FaceBasics DEF Loose, Open
<1>5. Retouched(g, face)  BY <1>2, <1>4, RetouchedBy
<1>6. QED  BY <1>5 DEF g, l, r

LEMMA EyesMoved ==
  ASSUME NEW face \in Faces, \A f \in Open : face[f] <= 88, NEW by \in Int
  PROVE  Retouched([face EXCEPT !.y_l = @ + by, !.y_r = @ + by], face)
<1> DEFINE l == face.y_l + by  r == face.y_r + by
           g == [face EXCEPT !.y_l = l, !.y_r = r]
<1>1. l \in Int /\ r \in Int  BY FaceBasics DEF Place, Loose
<1> HIDE DEF l, r
<1>2. g = [f \in Names |-> g[f]]  BY FaceBasics
<1>3. \A f \in Names : g[f] = IF f = "y_r" THEN r ELSE IF f = "y_l" THEN l ELSE face[f]
  BY FaceBasics
<1> HIDE DEF g
<1>4. /\ \A f \in Names \ Loose : g[f] = face[f]
      /\ \A f \in Loose : g[f] \in Int
      /\ \A f \in Open : g[f] <= 88
  BY <1>1, <1>3, FaceBasics DEF Loose, Open, Place
<1>5. Retouched(g, face)  BY <1>2, <1>4, RetouchedBy
<1>6. QED  BY <1>5 DEF g, l, r

LEMMA Squinted ==
  ASSUME NEW face \in Faces, \A f \in Open : face[f] <= 88, NEW by \in Int
  PROVE  Retouched([face EXCEPT !.squint_l = @ + by, !.squint_r = @ + by], face)
<1> DEFINE l == face.squint_l + by  r == face.squint_r + by
           g == [face EXCEPT !.squint_l = l, !.squint_r = r]
<1>1. l \in Int /\ r \in Int  BY FaceBasics DEF Squint, Loose
<1> HIDE DEF l, r
<1>2. g = [f \in Names |-> g[f]]  BY FaceBasics
<1>3. \A f \in Names : g[f] = IF f = "squint_r" THEN r ELSE IF f = "squint_l" THEN l ELSE face[f]
  BY FaceBasics
<1> HIDE DEF g
<1>4. /\ \A f \in Names \ Loose : g[f] = face[f]
      /\ \A f \in Loose : g[f] \in Int
      /\ \A f \in Open : g[f] <= 88
  BY <1>1, <1>3, FaceBasics DEF Loose, Open, Squint
<1>5. Retouched(g, face)  BY <1>2, <1>4, RetouchedBy
<1>6. QED  BY <1>5 DEF g, l, r

LEMMA OneMoved ==
  ASSUME NEW face \in Faces, \A f \in Open : face[f] <= 88, NEW by \in Int
  PROVE  /\ Retouched([face EXCEPT !.mouth_open = @ + by], face)
         /\ Retouched([face EXCEPT !.x_off = @ + by], face)
<1> DEFINE m == face.mouth_open + by  x == face.x_off + by
           g == [face EXCEPT !.mouth_open = m]  k == [face EXCEPT !.x_off = x]
<1>1. m \in Int /\ x \in Int  BY FaceBasics DEF Place, Loose
<1> HIDE DEF m, x
<1>2. g = [f \in Names |-> g[f]] /\ k = [f \in Names |-> k[f]]  BY FaceBasics
<1>3. \A f \in Names : /\ g[f] = IF f = "mouth_open" THEN m ELSE face[f]
                       /\ k[f] = IF f = "x_off" THEN x ELSE face[f]
  BY FaceBasics
<1> HIDE DEF g, k
<1>4. /\ \A f \in Names \ Loose : g[f] = face[f] /\ k[f] = face[f]
      /\ \A f \in Loose : g[f] \in Int /\ k[f] \in Int
      /\ \A f \in Open : g[f] <= 88 /\ k[f] <= 88
  BY <1>1, <1>3, FaceBasics DEF Loose, Open, Place
<1>5. Retouched(g, face) /\ Retouched(k, face)  BY <1>2, <1>4, RetouchedBy
<1>6. QED  BY <1>5 DEF g, m, k, x

LEMMA TemperedFits ==
  ASSUME NEW face \in Faces, Fits(face, 88, -105), NEW h \in Range(Hubs), NEW way,
         NEW w, Within(w, 0, 100)
  PROVE  Tempered(face, h, way, w) \in Faces /\ Fits(Tempered(face, h, way, w), 88, -105)
<1> DEFINE lids(by) == [face EXCEPT !.open_l = @ - Percent(by, w), !.open_r = @ - Percent(by, w)]
           look(by) == [face EXCEPT !.y_l = @ + Percent(by, w), !.y_r = @ + Percent(by, w)]
           mouth(by) == [face EXCEPT !.mouth_open = @ + Percent(by, w)]
           scowl(by) == [face EXCEPT !.squint_l = @ + by, !.squint_r = @ + by]
           aside == [face EXCEPT !.x_off = @ + Percent(10, w)]
           more == Percent(15, w)  less == -Percent(face.squint_l, Percent(30, w))
           g == CASE h = "NEUTRAL" -> IF way = "A" THEN lids(5) ELSE look(-5)
                  [] h = "HAPPY"   -> IF way = "A" THEN mouth(15) ELSE mouth(-15)
                  [] h = "SAD"     -> IF way = "A" THEN look(5) ELSE aside
                  [] h = "ANGRY"   -> IF way = "A" THEN scowl(less) ELSE scowl(more)
                  [] h = "CONTENT" -> IF way = "A" THEN lids(10) ELSE mouth(10)
           c == Tempered(face, h, way, w)
<1>1. c = Cut(g)  BY DEF Tempered, Cut
<1> HIDE DEF c, g
<1>2. \A f \in Open : face[f] <= 88  BY DEF Fits, Within
<1>3. w \in Nat /\ \A n \in Int : Percent(n, w) \in Int
  <2>1. w \in Nat /\ w \in Int  BY DEF Within
  <2>2. QED  BY <2>1, PercentTyped
<1>4. /\ Retouched(lids(5), face) /\ Retouched(lids(10), face)
  <2>1. Percent(5, w) \in Nat /\ Percent(10, w) \in Nat  BY <1>3, PercentPositive
  <2>2. QED  BY <2>1, <1>2, LidsLowered
<1>5. Retouched(look(-5), face) /\ Retouched(look(5), face)
  <2>1. Percent(-5, w) \in Int /\ Percent(5, w) \in Int  BY <1>3
  <2>2. QED  BY <2>1, <1>2, EyesMoved
<1>6. Retouched(mouth(15), face) /\ Retouched(mouth(-15), face) /\ Retouched(mouth(10), face)
      /\ Retouched(aside, face)
  <2>1. /\ Percent(15, w) \in Int /\ Percent(-15, w) \in Int /\ Percent(10, w) \in Int
    BY <1>3
  <2>2. QED  BY <2>1, <1>2, OneMoved
<1>7. Retouched(scowl(more), face) /\ Retouched(scowl(less), face)
  <2>1. Percent(30, w) \in Int /\ Percent(15, w) \in Int  BY <1>3
  <2>2. face.squint_l \in Int  BY FaceBasics DEF Squint, Loose
  <2>3. Percent(face.squint_l, Percent(30, w)) \in Int  BY <2>1, <2>2, PercentTyped
  <2>4. more \in Int /\ less \in Int  BY <2>1, <2>3
  <2> HIDE DEF more, less
  <2>5. QED  BY <2>4, <1>2, Squinted
<1>8. Retouched(g, face)
  <2>1. h \in {"NEUTRAL", "HAPPY", "SAD", "ANGRY", "CONTENT"}  BY DEF Hubs, Range
  <2> HIDE DEF lids, look, mouth, scowl, aside, more, less
  <2>2. QED  BY <2>1, <1>4, <1>5, <1>6, <1>7 DEF g
<1> HIDE DEF lids, look, mouth, scowl, aside, more, less
<1>9. /\ g \in Faces /\ \A f \in Names : g[f] \in Int
      /\ \A f \in Corner \cup Round \cup Curve : g[f] = face[f]
      /\ \A f \in Open : g[f] <= 88
  BY <1>8, FaceBasics DEF Retouched
<1>10. c = [f \in Names |-> IF f \in Open \cup {"mouth_open"} THEN ClampF(g[f], 0, 100)
                           ELSE IF f \in Squint THEN ClampF(g[f], 0, 200) ELSE g[f]]
  BY <1>1, <1>9, Clamped
<1>11. \A f \in Names : c[f] = IF f \in Open \cup {"mouth_open"} THEN ClampF(g[f], 0, 100)
                             ELSE IF f \in Squint THEN ClampF(g[f], 0, 200) ELSE g[f]
  BY <1>10
<1>12. \A f \in Open : Within(c[f], 0, 88)
  <2> SUFFICES ASSUME NEW f \in Open PROVE Within(c[f], 0, 88)  OBVIOUS
  <2>1. f \in Names /\ c[f] = ClampF(g[f], 0, 100)  BY <1>11 DEF Names
  <2>2. g[f] \in Int /\ g[f] <= 88  BY <2>1, <1>9
  <2>3. QED  BY <2>1, <2>2 DEF ClampF, Within
<1>13. Within(c["mouth_open"], 0, 100)
  <2>1. "mouth_open" \in Names  BY DEF Names
  <2>2. c["mouth_open"] = ClampF(g["mouth_open"], 0, 100) /\ g["mouth_open"] \in Int
    BY <2>1, <1>9, <1>11
  <2>3. QED  BY <2>2 DEF ClampF, Within
<1>14. \A f \in Squint : Within(c[f], 0, 200)
  <2> SUFFICES ASSUME NEW f \in Squint PROVE Within(c[f], 0, 200)  OBVIOUS
  <2>1. f \in Names /\ f \notin Open \cup {"mouth_open"}  BY DEF Names, Squint, Open
  <2>2. c[f] = ClampF(g[f], 0, 200) /\ g[f] \in Int  BY <2>1, <1>9, <1>11
  <2>3. QED  BY <2>2 DEF ClampF, Within
<1>15. \A f \in Corner \cup Round \cup Curve : c[f] = face[f]
  <2>1. \A f \in Corner \cup Round \cup Curve :
           f \in Names /\ f \notin Open \cup {"mouth_open"} /\ f \notin Squint
    BY DEF Names, Corner, Round, Curve, Open, Squint
  <2>2. QED  BY <2>1, <1>9, <1>11
<1>16. \A f \in Place : c[f] \in Int
  <2>1. \A f \in Place : f \in Names /\ f \notin Open \cup {"mouth_open"} /\ f \notin Squint
    BY DEF Names, Place, Open, Squint
  <2>2. QED  BY <2>1, <1>9, <1>11
<1>17. Fits(c, 88, -105)  BY <1>12, <1>13, <1>14, <1>15, <1>16 DEF Fits
<1>18. \A f \in Names : c[f] \in Int  BY <1>17 DEF Fits, Within, Names
<1>19. c = [f \in Names |-> c[f]]  BY <1>10
<1>20. c \in Faces  BY <1>18, <1>19 DEF Faces
<1>21. QED  BY <1>17, <1>20 DEF c

-----------------------------------------------------------------------------
(* The mood.  It is always a point of the plane of valence and arousal;    *)
(* somewhere on it there is a nearest anchor, and the weights of the five  *)
(* anchors are shares of a whole.                                          *)
Felt(x) == Within(x, -100, 100)

LEMMA AnchorsNear ==
  ASSUME NEW v, NEW a, Felt(v), Felt(a), NEW i \in 1..5
  PROVE  Distance(i, v, a) \in Nat /\ Distance(i, v, a) <= 100000
<1> DEFINE x == v - Anchors[i][1]  y == a - Anchors[i][2]
<1>1. /\ Anchors[i][1] \in Int /\ -80 <= Anchors[i][1] /\ Anchors[i][1] <= 80
      /\ Anchors[i][2] \in Int /\ -80 <= Anchors[i][2] /\ Anchors[i][2] <= 80
  BY DEF Anchors
<1>2. v \in Int /\ -100 <= v /\ v <= 100 /\ a \in Int /\ -100 <= a /\ a <= 100
  BY DEF Felt, Within
<1>3. x \in Int /\ -180 <= x /\ x <= 180 /\ y \in Int /\ -180 <= y /\ y <= 180
  BY <1>1, <1>2
<1>4. Distance(i, v, a) = x * x + y * y  BY DEF Distance, Square
<1> HIDE DEF x, y
<1>5. ASSUME NEW z \in Int, -180 <= z, z <= 180 PROVE z * z \in Nat /\ z * z <= 32400
  <2>1. CASE z >= 0
    <3>1. z \in Nat /\ 0 \in Int /\ 180 \in Int /\ 0 <= z  BY <2>1
    <3>2. z * z \in Int /\ 0 * z <= z * z /\ z * z <= 180 * z  BY <3>1, <1>5, Product
    <3>3. QED  BY <3>1, <3>2, <1>5
  <2>2. CASE z < 0
    <3> DEFINE n == -z
    <3>1. n \in Nat /\ n <= 180 /\ 0 \in Int /\ 180 \in Int /\ n \in Int /\ 0 <= n  BY <2>2, <1>5
    <3>2. z * z = n * n  OBVIOUS
    <3> HIDE DEF n
    <3>3. n * n \in Int /\ 0 * n <= n * n /\ n * n <= 180 * n  BY <3>1, Product
    <3>4. QED  BY <3>1, <3>2, <3>3
  <2>3. QED  BY <2>1, <2>2
<1> DEFINE p == x * x  q == y * y
<1>6. p \in Nat /\ p <= 32400 /\ q \in Nat /\ q <= 32400  BY <1>3, <1>5
<1> HIDE DEF p, q
<1>7. p + q \in Nat /\ p + q <= 100000  BY <1>6
<1>8. QED  BY <1>4, <1>7 DEF p, q

LEMMA NearestAnchor ==
  ASSUME NEW v, NEW a, Felt(v), Felt(a)
  PROVE  /\ Dominant(v, a) \in 1..5
         /\ \A j \in 1..5 : Distance(Dominant(v, a), v, a) <= Distance(j, v, a)
<1> DEFINE D(i) == Distance(i, v, a)  S == {D(i) : i \in 1..5}
<1>1. \A i \in 1..5 : D(i) \in Nat  BY AnchorsNear
<1> HIDE DEF D
<1>2. S \subseteq Nat /\ D(1) \in S  BY <1>1
<1>3. \E m \in S : \A k \in S : m <= k  BY <1>2, LeastOf
<1>4. PICK m \in S : \A k \in S : m <= k  BY <1>3
<1> DEFINE T == {i \in 1..5 : D(i) = m}
<1>5. T \subseteq Nat /\ T # {}  BY <1>4
<1>6. \E n \in T : \A k \in T : n <= k  BY <1>5, LeastOf
<1>7. PICK n \in T : \A k \in T : n <= k  BY <1>6
<1>8. \A j \in 1..5 : D(n) <= D(j) /\ (j < n => D(n) < D(j))
  <2> SUFFICES ASSUME NEW j \in 1..5 PROVE D(n) <= D(j) /\ (j < n => D(n) < D(j))  OBVIOUS
  <2>1. D(n) = m /\ m <= D(j) /\ n \in 1..5 /\ D(j) \in Nat /\ m \in Nat
    BY <1>1, <1>2, <1>4, <1>7
  <2>2. j < n => D(j) # m  BY <1>7, <2>1
  <2>3. QED  BY <2>1, <2>2
<1>9. \E i \in 1..5 : \A j \in 1..5 : D(i) <= D(j) /\ (j < i => D(i) < D(j))
  <2>1. n \in 1..5  BY <1>7
  <2>2. QED  BY <1>8, <2>1
<1>10. DOMAIN Hubs = 1..5  BY DEF Hubs
<1>11. Dominant(v, a) = CHOOSE i \in 1..5 : \A j \in 1..5 : D(i) <= D(j) /\ (j < i => D(i) < D(j))
  BY <1>10 DEF Dominant, D
<1> DEFINE d == Dominant(v, a)
<1> HIDE DEF d
<1>12. d = CHOOSE i \in 1..5 : \A j \in 1..5 : D(i) <= D(j) /\ (j < i => D(i) < D(j))
  BY <1>11 DEF d
<1>13. d \in 1..5 /\ \A j \in 1..5 : D(d) <= D(j) /\ (j < d => D(d) < D(j))
  BY <1>9, <1>12, Zenon
<1>14. QED  BY <1>13 DEF d, D

(* Quotients of parts of a sum do not add up to more than the whole.       *)
LEMMA QuotientPart ==
  ASSUME NEW a \in Nat, NEW n \in Nat \ {0}
  PROVE  a \div n \in Nat /\ (a \div n) * n <= a
<1>1. a \div n \in Nat /\ a % n \in 0..(n - 1)  OBVIOUS
<1>2. a = n * (a \div n) + (a % n)  OBVIOUS
<1>3. n * (a \div n) = (a \div n) * n  BY <1>1
<1> DEFINE m == (a \div n) * n  k == a % n
<1>4. a = m + k /\ m \in Nat  BY <1>1, <1>2, <1>3
<1>5. k \in Nat  BY <1>1
<1> HIDE DEF m, k
<1>6. m <= a  BY <1>4, <1>5
<1>7. QED  BY <1>1, <1>6 DEF m

LEMMA QuotientsShare ==
  ASSUME NEW n, \A i \in 1..5 : n[i] \in Nat, Total(n) > 0,
         NEW q, \A i \in 1..5 : q[i] = (100 * n[i]) \div Total(n)
  PROVE  Shares(q)
<1> DEFINE t == Total(n)
<1>1. t = n[1] + n[2] + n[3] + n[4] + n[5]  BY DEF Total
<1>2. n[1] \in Nat /\ n[2] \in Nat /\ n[3] \in Nat /\ n[4] \in Nat /\ n[5] \in Nat  OBVIOUS
<1>3. t \in Nat \ {0}  BY <1>1, <1>2
<1> HIDE DEF t
<1>4. ASSUME NEW i \in 1..5 PROVE q[i] \in Nat /\ q[i] * t <= 100 * n[i]
  <2>1. 100 * n[i] \in Nat  OBVIOUS
  <2>2. q[i] = (100 * n[i]) \div t  BY DEF t
  <2> DEFINE a == 100 * n[i]
  <2> HIDE DEF a
  <2>3. a \in Nat /\ q[i] = a \div t  BY <2>1, <2>2 DEF a
  <2>4. a \div t \in Nat /\ (a \div t) * t <= a  BY <2>3, <1>3, QuotientPart
  <2>5. QED  BY <2>3, <2>4 DEF a
<1> DEFINE P(i) == q[i]  M(i) == n[i]  R(i) == q[i] * t
           s == P(1) + P(2) + P(3) + P(4) + P(5)
<1>5. /\ P(1) \in Nat /\ P(2) \in Nat /\ P(3) \in Nat /\ P(4) \in Nat /\ P(5) \in Nat
      /\ R(1) = P(1) * t /\ R(2) = P(2) * t /\ R(3) = P(3) * t /\ R(4) = P(4) * t /\ R(5) = P(5) * t
      /\ R(1) <= 100 * M(1) /\ R(2) <= 100 * M(2) /\ R(3) <= 100 * M(3)
      /\ R(4) <= 100 * M(4) /\ R(5) <= 100 * M(5)
      /\ M(1) \in Nat /\ M(2) \in Nat /\ M(3) \in Nat /\ M(4) \in Nat /\ M(5) \in Nat
      /\ t = M(1) + M(2) + M(3) + M(4) + M(5)
  BY <1>1, <1>2, <1>4
<1>6. Total(q) = s  BY DEF Total
<1> HIDE DEF P, M, R
<1>7. s \in Nat /\ s * t = R(1) + R(2) + R(3) + R(4) + R(5)  BY <1>5, <1>3
<1> HIDE DEF s
<1>8. s * t <= 100 * t
  <2>1. R(1) \in Int /\ R(2) \in Int /\ R(3) \in Int /\ R(4) \in Int /\ R(5) \in Int  BY <1>5, <1>3
  <2>2. QED  BY <2>1, <1>5, <1>7
<1>9. s <= 100
  <2> SUFFICES ASSUME s >= 101 PROVE FALSE  BY <1>7
  <2>1. s \in Int /\ 101 \in Int /\ 101 <= s /\ s <= s /\ t \in Nat  BY <1>7, <1>3
  <2>2. 101 * t <= s * t  BY <2>1, Product
  <2> DEFINE k == s * t
  <2>3. k \in Int /\ 101 * t <= k /\ k <= 100 * t  BY <2>1, <2>2, <1>8
  <2> HIDE DEF k
  <2>4. QED  BY <2>3, <1>3
<1>10. \A i \in 1..5 : P(i) \in Nat /\ P(i) <= 100
  <2>1. P(1) <= 100 /\ P(2) <= 100 /\ P(3) <= 100 /\ P(4) <= 100 /\ P(5) <= 100
    BY <1>5, <1>9 DEF s
  <2>2. \A i \in 1..5 : i = 1 \/ i = 2 \/ i = 3 \/ i = 4 \/ i = 5  OBVIOUS
  <2>3. QED  BY <2>1, <2>2, <1>5
<1>11. QED  BY <1>6, <1>9, <1>10 DEF Shares, Within, P

LEMMA WeightsShare ==
  ASSUME NEW v, NEW a, Felt(v), Felt(a)
  PROVE  Shares(Weights(v, a))
<1> DEFINE d == Dominant(v, a)  D(i) == Distance(i, v, a)  w == Weights(v, a)
           n == [j \in 1..5 |-> Nearness(j, v, a)]
<1>1. d \in 1..5 /\ (\A j \in 1..5 : D(d) <= D(j)) /\ \A j \in 1..5 : D(j) \in Nat /\ D(j) <= 100000
  BY NearestAnchor, AnchorsNear
<1>2. DOMAIN Hubs = 1..5  BY DEF Hubs
<1>3. w = [i \in 1..5 |-> IF D(d) = 0 THEN IF i = d THEN 100 ELSE 0
                          ELSE (100 * Nearness(i, v, a)) \div Total(n)]
  BY <1>2 DEF Weights
<1>4. \A i \in 1..5 : Nearness(i, v, a) = 1000000 \div D(i)  BY DEF Nearness
<1> HIDE DEF d, D, w
<1>5. CASE D(d) = 0
  <2>1. \A i \in 1..5 : w[i] = IF i = d THEN 100 ELSE 0  BY <1>3, <1>5
  <2>2. d = 1 \/ d = 2 \/ d = 3 \/ d = 4 \/ d = 5  BY <1>1
  <2>3. Total(w) = 100  BY <2>1, <2>2 DEF Total
  <2>4. QED  BY <2>1, <2>3 DEF Shares, Within, w
<1>6. CASE D(d) # 0
  <2>1. \A i \in 1..5 : D(i) \in Nat /\ D(i) > 0 /\ D(i) <= 100000  BY <1>1, <1>6
  <2>2. ASSUME NEW m \in Nat, m > 0, m <= 100000 PROVE 1000000 \div m \in Nat /\ 1000000 \div m > 0
    <3> DEFINE k == 1000000 \div m  r == 1000000 % m
    <3>1. k \in Nat /\ r \in 0..(m - 1) /\ 1000000 = m * k + r  BY <2>2
    <3> HIDE DEF k, r
    <3>2. k # 0  BY <3>1, <2>2
    <3>3. k \in Nat /\ k > 0  BY <3>1, <3>2
    <3>4. QED  BY <3>3 DEF k
  <2>3. \A i \in 1..5 : n[i] \in Nat /\ n[i] > 0  BY <2>1, <2>2, <1>4
  <2>4. \A i \in 1..5 : w[i] = (100 * n[i]) \div Total(n)  BY <1>3, <1>6
  <2> HIDE DEF n
  <2>5. n[1] \in Nat /\ n[2] \in Nat /\ n[3] \in Nat /\ n[4] \in Nat /\ n[5] \in Nat /\ n[1] > 0
    BY <2>3
  <2>6. Total(n) > 0  BY <2>5 DEF Total
  <2>7. Shares(w)  BY <2>3, <2>4, <2>6, QuotientsShare
  <2>8. QED  BY <2>7 DEF w
<1>7. QED  BY <1>5, <1>6

(* How strong the feeling is: the root of the sum of the squares exists.   *)
LEMMA FeelingTyped ==
  ASSUME NEW v, NEW a, Felt(v), Felt(a)
  PROVE  Feeling(v, a) \in Int
<1> DEFINE s == Square(v) + Square(a)
<1>1. ASSUME NEW z, Felt(z) PROVE Square(z) \in Nat /\ Square(z) <= 10000
  <2>1. z \in Int /\ -100 <= z /\ z <= 100  BY <1>1 DEF Felt, Within
  <2>2. CASE z >= 0
    <3>1. z \in Nat /\ 0 \in Int /\ 100 \in Int /\ 0 <= z  BY <2>1, <2>2
    <3>2. z * z \in Int /\ 0 * z <= z * z /\ z * z <= 100 * z  BY <3>1, <2>1, Product
    <3>3. QED  BY <3>1, <3>2, <2>1 DEF Square
  <2>3. CASE z < 0
    <3> DEFINE n == -z
    <3>1. n \in Nat /\ n <= 100 /\ 0 \in Int /\ 100 \in Int /\ n \in Int /\ 0 <= n  BY <2>1, <2>3
    <3>2. z * z = n * n  BY <2>1
    <3> HIDE DEF n
    <3>3. n * n \in Int /\ 0 * n <= n * n /\ n * n <= 100 * n  BY <3>1, Product
    <3>4. QED  BY <3>1, <3>2, <3>3 DEF Square
  <2>4. QED  BY <2>1, <2>2, <2>3
<1>2. s \in Nat /\ s <= 20000  BY <1>1
<1> HIDE DEF s
<1> DEFINE S == {n \in Nat : s < Square(n + 1)}
<1>3. 142 \in S
  <2>1. 142 \in Nat /\ Square(142 + 1) = 20449  BY DEF Square
  <2>2. QED  BY <2>1, <1>2
<1>4. S \subseteq Nat /\ S # {}  BY <1>3
<1>5. \E m \in S : \A k \in S : m <= k  BY <1>4, LeastOf
<1>6. PICK m \in S : \A k \in S : m <= k  BY <1>5
<1>7. m \in Nat /\ m <= 142 /\ s < Square(m + 1)  BY <1>3, <1>6
<1>8. Square(m) <= s
  <2>1. CASE m = 0  BY <2>1, <1>2 DEF Square
  <2>2. CASE m # 0
    <3> DEFINE k == m - 1
    <3>1. k \in Nat /\ k < m /\ k + 1 = m  BY <1>7, <2>2
    <3> HIDE DEF k
    <3>2. k \notin S  BY <3>1, <1>6, <1>7
    <3>3. ~(s < Square(k + 1))  BY <3>1, <3>2
    <3>4. Square(m) \in Int  BY <1>7 DEF Square
    <3>5. QED  BY <3>1, <3>3, <3>4, <1>2
  <2>3. QED  BY <2>1, <2>2
<1> DEFINE R == 0..142
<1>9. m \in R  BY <1>7
<1>10. Feeling(v, a) = CHOOSE n \in R : Square(n) <= s /\ s < Square(n + 1)  BY DEF Feeling, s
<1>11. R \subseteq Int  OBVIOUS
<1> HIDE DEF R
<1>12. Feeling(v, a) \in R
  <2>1. \E n \in R : Square(n) <= s /\ s < Square(n + 1)  BY <1>7, <1>8, <1>9
  <2>2. QED  BY <2>1, <1>10, Zenon
<1>13. QED  BY <1>11, <1>12

LEMMA ScaleTyped ==
  ASSUME NEW open, NEW v, NEW a, Felt(v), Felt(a)
  PROVE  Within(MouthScale(open, v, a), 0, 100)
<1> DEFINE n == (Feeling(v, a) - 30) * 100
<1>1. n \in Int  BY FeelingTyped
<1>2. MouthScale(open, v, a) = IF open THEN ClampF(n \div 40, 0, 100) ELSE 0
  BY DEF MouthScale
<1> HIDE DEF n
<1>3. n \div 40 \in Int  BY <1>1
<1>4. Within(ClampF(n \div 40, 0, 100), 0, 100)  BY <1>3 DEF ClampF, Within
<1>5. Within(0, 0, 100)  BY DEF Within
<1>6. QED  BY <1>2, <1>4, <1>5

MoodTypes ==
  /\ Felt(valence) /\ Felt(arousal)
  /\ hub # Unresolved => hub \in 1..5

LEMMA ResolvedFits ==
  ASSUME MoodTypes, hub # Unresolved
  PROVE  ResolvedFace \in Faces /\ Fits(ResolvedFace, 88, -105)
<1> DEFINE w == Weights(valence, arousal)
           faces == [i \in DOMAIN Hubs |-> Expression(Hubs[i])]
           blend == Blend(faces, w)
           scale == MouthScale(mouthActive, valence, arousal)
           g == Tempered(blend, Hubs[hub], variant, w[hub])
           m == Percent(g.mouth_open, scale)  k == Percent(g.mouth_curve, scale)
           c == [g EXCEPT !.mouth_open = m, !.mouth_curve = k]
<1>1. ResolvedFace = c  BY DEF ResolvedFace
<1>2. Felt(valence) /\ Felt(arousal) /\ hub \in 1..5  BY DEF MoodTypes
<1>3. Shares(w)  BY <1>2, WeightsShare
<1>4. DOMAIN Hubs = 1..5 /\ Hubs[hub] \in Range(Hubs)
  <2>1. DOMAIN Hubs = 1..5  BY DEF Hubs
  <2>2. QED  BY <2>1, <1>2 DEF Range
<1>5. \A i \in 1..5 : faces[i] \in Faces /\ Fits(faces[i], 88, -100)
  BY <1>4, ExpressionFits
<1>6. Within(scale, 0, 100)  BY <1>2, ScaleTyped
<1> HIDE DEF w, faces, scale
<1>7. blend \in Faces /\ Fits(blend, 88, -105)  BY <1>3, <1>5, BlendFits
<1>8. Within(w[hub], 0, 100)  BY <1>2, <1>3 DEF Shares
<1> HIDE DEF blend
<1>9. g \in Faces /\ Fits(g, 88, -105)  BY <1>4, <1>7, <1>8, TemperedFits
<1> HIDE DEF g
<1>10. Within(m, 0, 100)
  <2>1. Within(g.mouth_open, 0, 100)  BY <1>9 DEF Fits
  <2>2. g.mouth_open \in Int /\ g.mouth_open >= 0 /\ g.mouth_open <= 100  BY <2>1 DEF Within
  <2>3. m \in Int /\ 0 <= m /\ m <= g.mouth_open  BY <2>2, <1>6, PartOf
  <2> HIDE DEF m
  <2>4. QED  BY <2>2, <2>3 DEF Within
<1>11. Within(k, -105, 100)
  <2>1. Within(g.mouth_curve, -105, 100)  BY <1>9 DEF Fits, Curve
  <2> DEFINE n == g.mouth_curve
  <2>2. n \in Int /\ -105 <= n /\ n <= 100  BY <2>1 DEF Within
  <2> HIDE DEF n
  <2>3. /\ Percent(n, scale) \in Int
        /\ n >= 0 => 0 <= Percent(n, scale) /\ Percent(n, scale) <= n
        /\ n <= 0 => n <= Percent(n, scale) /\ Percent(n, scale) <= 0
    BY <2>2, <1>6, PartOf
  <2>4. k = Percent(n, scale)  BY DEF n
  <2> HIDE DEF k
  <2>5. QED  BY <2>2, <2>3, <2>4 DEF Within
<1> HIDE DEF m, k
<1>12. c = [f \in Names |-> c[f]]  BY <1>9, FaceBasics
<1>13. "mouth_open" \in Names /\ "mouth_curve" \in Names  BY DEF Names, Curve
<1>14. \A f \in Names : c[f] = IF f = "mouth_curve" THEN k ELSE IF f = "mouth_open" THEN m ELSE g[f]
  BY <1>9, FaceBasics
<1> HIDE DEF c
<1>15. Within(c["mouth_open"], 0, 100) /\ Within(c["mouth_curve"], -105, 100)
  BY <1>10, <1>11, <1>13, <1>14
<1>16. \A f \in Corner \cup Open \cup Squint \cup Round \cup Place \cup {"curve_top", "curve_bottom"} :
          c[f] = g[f]
  <2>1. \A f \in Corner \cup Open \cup Squint \cup Round \cup Place \cup {"curve_top", "curve_bottom"} :
          f \in Names /\ f # "mouth_curve" /\ f # "mouth_open"
    BY DEF Names, Corner, Open, Squint, Round, Place, Curve
  <2>2. QED  BY <2>1, <1>14
<1>17. \A f \in Curve : Within(c[f], -105, 100)
  <2>1. Within(c["curve_top"], -105, 100) /\ Within(c["curve_bottom"], -105, 100)
    BY <1>9, <1>16 DEF Fits, Curve
  <2>2. QED  BY <2>1, <1>15 DEF Curve
<1>18. Fits(c, 88, -105)  BY <1>9, <1>15, <1>16, <1>17 DEF Fits
<1>19. \A f \in Names : c[f] \in Int  BY <1>18 DEF Fits, Within, Names
<1>20. c \in Faces  BY <1>12, <1>19 DEF Faces
<1>21. QED  BY <1>1, <1>18, <1>20

-----------------------------------------------------------------------------
(* A stimulus moves the mood to the point of the grid below it.            *)
LEMMA Multiple ==
  ASSUME NEW g \in Nat \ {0}, NEW k \in Int
  PROVE  (g * k) % g = 0
<1> DEFINE z == g * k  h == z \div g  r == z % g
<1>1. z \in Int  OBVIOUS
<1> HIDE DEF z
<1>2. h \in Int /\ r \in 0..(g - 1) /\ z = g * h + r  BY <1>1
<1> HIDE DEF h, r
<1>3. g * k = g * h + r  BY <1>2 DEF z
<1> DEFINE d == k - h
<1>4. d \in Int /\ g * d = r /\ r \in Int /\ 0 <= r /\ r < g
  <2>1. g * (k - h) = g * k - g * h  BY <1>2
  <2>2. g * k \in Int /\ g * h \in Int  BY <1>2
  <2>3. QED  BY <2>1, <2>2, <1>2, <1>3
<1> HIDE DEF d
<1>5. CASE d >= 1
  <2>1. 1 \in Int /\ 1 <= d /\ d <= d /\ g \in Nat  BY <1>4, <1>5
  <2>2. 1 * g <= d * g  BY <1>4, <2>1, Product
  <2>3. d * g = g * d  BY <1>4
  <2>4. QED  BY <2>2, <2>3, <1>4
<1>6. CASE d <= -1
  <2>1. -1 \in Int /\ d <= -1 /\ d <= d /\ g \in Nat  BY <1>4, <1>6
  <2>2. d * g <= (-1) * g  BY <1>4, <2>1, Product
  <2>3. d * g = g * d  BY <1>4
  <2>4. QED  BY <2>2, <2>3, <1>4
<1>7. CASE d = 0
  <2>1. g * 0 = 0  OBVIOUS
  <2>2. QED  BY <2>1, <1>4, <1>7 DEF r, z
<1>8. QED  BY <1>4, <1>5, <1>6, <1>7

LEMMA GridPoint ==
  ASSUME NEW x, Felt(x)
  PROVE  Felt(OnGrid(x))
<1>1. Grid \in Nat \ {0} /\ 100 % Grid = 0  BY EmotionAssumption
<1>2. x \in Int /\ -100 <= x /\ x <= 100  BY DEF Felt, Within
<1> DEFINE n == x + 100  r == n % Grid  q == n \div Grid  c == 100 \div Grid  y == x - r
           P == -100..100
<1>3. n \in Nat /\ n <= 200  BY <1>2
<1> HIDE DEF n
<1>4. r \in 0..(Grid - 1) /\ q \in Nat /\ n = Grid * q + r  BY <1>1, <1>3
<1>5. c \in Nat /\ 100 = Grid * c  BY <1>1
<1> HIDE DEF r, q, c
<1>6. y = Grid * (q - c) /\ -100 <= y
  <2>1. Grid * (q - c) = Grid * q - Grid * c  BY <1>1, <1>4, <1>5
  <2>2. Grid * q \in Nat  BY <1>1, <1>4
  <2> DEFINE a == Grid * q  b == Grid * c  d == Grid * (q - c)
  <2>3. d = a - b /\ a \in Nat /\ b = 100 /\ n = a + r  BY <2>1, <2>2, <1>4, <1>5
  <2> HIDE DEF a, b, d
  <2>4. y = d /\ -100 <= y  BY <2>3, <1>2, <1>4 DEF n
  <2>5. QED  BY <2>4 DEF d
<1>7. y % Grid = 0
  <2>1. q - c \in Int  BY <1>4, <1>5
  <2> DEFINE k == q - c
  <2> HIDE DEF k
  <2>2. k \in Int  BY <2>1 DEF k
  <2>3. (Grid * k) % Grid = 0  BY <2>2, <1>1, Multiple
  <2>4. QED  BY <2>3, <1>6 DEF k
<1>8. y \in Int /\ y <= x /\ x < y + Grid /\ y <= 100  BY <1>1, <1>2, <1>4
<1> HIDE DEF y
<1>9. y \in P  BY <1>6, <1>8
<1>10. \A p \in P : Felt(p)  BY DEF Felt, Within
<1>11. Points = {p \in P : p % Grid = 0}  BY DEF Points
<1> HIDE DEF P
<1>12. \E p \in Points : p <= x /\ x < p + Grid  BY <1>7, <1>8, <1>9, <1>11
<1>13. OnGrid(x) \in Points  BY <1>12, Zenon DEF OnGrid
<1>14. QED  BY <1>10, <1>11, <1>13

LEMMA PointsFelt == \A y \in Points : Felt(y)
BY DEF Points, Felt, Within

LEMMA MoodStart == MoodInit => MoodTypes
BY DEF MoodInit, MoodTypes, Felt, Within

LEMMA MoodStep ==
  ASSUME MoodTypes, [MoodNext]_moodVars
  PROVE  MoodTypes'
<1>1. ASSUME Felt(valence'), Felt(arousal'), Resolve PROVE MoodTypes'
  <2>1. Dominant(valence', arousal') \in 1..5  BY <1>1, NearestAnchor
  <2>2. QED  BY <1>1, <2>1 DEF Resolve, MoodTypes
<1>2. CASE MoodStimulus
  <2>1. PICK d \in Deltas : /\ valence' = Stimulated(valence, d[1])
                            /\ arousal' = Stimulated(arousal, d[2])
    BY <1>2 DEF MoodStimulus
  <2>2. d[1] \in Int /\ d[2] \in Int  BY DEF Deltas
  <2>3. ASSUME NEW x, Felt(x), NEW n \in Int PROVE Felt(Stimulated(x, n))
    <3>1. Felt(ClampF(x + n, -100, 100))  BY <2>3 DEF Felt, Within, ClampF
    <3>2. QED  BY <3>1, GridPoint DEF Stimulated
  <2>4. Felt(valence') /\ Felt(arousal')  BY <2>1, <2>2, <2>3 DEF MoodTypes
  <2>5. QED  BY <2>4, <1>1, <1>2 DEF MoodStimulus
<1>3. CASE MoodDecay
  <2>1. valence' \in Points /\ arousal' \in Points  BY <1>3 DEF MoodDecay, Decayed
  <2>2. Felt(valence') /\ Felt(arousal')  BY <2>1, PointsFelt
  <2>3. QED  BY <2>2, <1>1, <1>3 DEF MoodDecay
<1>4. CASE UNCHANGED moodVars  BY <1>4 DEF moodVars, MoodTypes
<1>5. QED  BY <1>2, <1>3, <1>4 DEF MoodNext

(* Whatever the stimuli and the decay, the face of the mood is drawn       *)
(* inside the dirty rectangle of its frame, whatever beat lies over it and *)
(* wherever the head looks (nb_emotion_core_resolve_face, the renderer).   *)
THEOREM FaceStaysInside == MoodSpec => []FaceInsideDirty
<1>1. MoodTypes => FaceInsideDirty
  <2>1. MoodTypes /\ hub # Unresolved => DrawnInside(ResolvedFace)
    BY ResolvedFits, MoodDrawn
  <2>2. QED  BY <2>1 DEF FaceInsideDirty
<1>2. MoodSpec => []MoodTypes  BY MoodStart, MoodStep, PTL DEF MoodSpec
<1>3. QED  BY <1>1, <1>2, PTL
=============================================================================
