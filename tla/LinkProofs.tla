----------------------------- MODULE LinkProofs -----------------------------
(***************************************************************************)
(* The link for any number of connections, any buffers, any queue and any  *)
(* number of losses: types, speech that ends with its link, the server's   *)
(* client, and the voice of a session from the sink to the server.         *)
(***************************************************************************)
EXTENDS Link, SequenceTheorems, TLAPS

(* Types, a buffer that is empty but while its frames are handled, and a   *)
(* connection wherever the task uses one.                                  *)
Typed ==
  /\ TypeOK
  /\ step # "frames" => buf = <<>>
  /\ step # "connect" => conn # NoConn

-----------------------------------------------------------------------------
(* What each use of a connection leaves of it. *)

LEMMA FramesKnown ==
  ASSUME MindLinkAssumption, LinkType
  PROVE  /\ Hello(boot) \in Frames /\ Beat \in Frames
         /\ \A n \in Nat : \A k \in {"ack", "begin", "say", "hush", "cmd", "voice"} : <<k, n>> \in Frames
         /\ Hello(boot)[1] = "hello" /\ Beat[1] # "hello"
BY DEF MindLinkAssumption, LinkType, Frames, Hello, Beat

LEMMA OpensTyped ==
  ASSUME StreamsAssumption, StreamsType, NEW c \in Conns, Opens(c)
  PROVE  StreamsType' /\ conn' = c /\ conn' # NoConn
BY DEF StreamsAssumption, StreamsType, Opens, NoConn

LEMMA Emptied ==
  ASSUME StreamsAssumption, NEW s \in [Conns -> Seq(Frames)], NEW d,
         \A c \in Conns : Len(s[c]) <= StreamCap,
         NEW t, t = [s EXCEPT ![d] = <<>>]
  PROVE  t \in [Conns -> Seq(Frames)] /\ \A c \in Conns : Len(t[c]) <= StreamCap
<1>1. <<>> \in Seq(Frames) /\ Len(<<>>) = 0  OBVIOUS
<1>2. 0 <= StreamCap  BY DEF StreamsAssumption
<1>3. \A c \in Conns : t[c] = s[c] \/ t[c] = <<>>  OBVIOUS
<1>4. QED  BY <1>1, <1>2, <1>3

LEMMA HangsUpTyped ==
  ASSUME StreamsAssumption, StreamsType, HangsUp
  PROVE  StreamsType' /\ conn' = NoConn
<1>1. up' \in [Conns -> Seq(Frames)] /\ \A c \in Conns : Len(up'[c]) <= StreamCap
  <2>1. CASE up' = up
    BY <2>1 DEF StreamsType
  <2>2. CASE up' = [up EXCEPT ![conn] = <<>>]
    BY <2>2, Emptied DEF StreamsType
  <2>3. QED  BY <2>1, <2>2 DEF HangsUp
<1>2. down' \in [Conns -> Seq(Frames)] /\ \A c \in Conns : Len(down'[c]) <= StreamCap
  BY Emptied DEF StreamsType, HangsUp
<1>3. QED  BY <1>1, <1>2 DEF StreamsType, HangsUp

LEMMA RobotSendsTyped ==
  ASSUME StreamsAssumption, StreamsType, NEW f \in Frames, RobotSends(f)
  PROVE  StreamsType' /\ conn' = conn
<1>1. CASE UNCHANGED up
  BY <1>1 DEF StreamsType, RobotSends
<1>2. CASE Len(up[conn]) < StreamCap /\ up' = [up EXCEPT ![conn] = Append(@, f)]
  <2>1. \A c \in Conns : up'[c] \in Seq(Frames) /\ Len(up'[c]) <= StreamCap
    BY <1>2 DEF StreamsAssumption, StreamsType
  <2>2. up' \in [Conns -> Seq(Frames)]
    BY <1>2, <2>1 DEF StreamsType
  <2>3. QED  BY <2>1, <2>2 DEF StreamsType, RobotSends
<1>3. QED  BY <1>1, <1>2 DEF RobotSends

LEMMA ServerSendsTyped ==
  ASSUME StreamsAssumption, StreamsType, NEW c \in Conns, NEW f \in Frames,
         ServerSends(c, f), UNCHANGED <<conn, shut, ghost>>,
         up' \in [Conns -> Seq(Frames)], \A d \in Conns : Len(up'[d]) <= StreamCap
  PROVE  StreamsType'
<1>1. \A d \in Conns : down'[d] \in Seq(Frames) /\ Len(down'[d]) <= StreamCap
  BY DEF StreamsAssumption, StreamsType, ServerSends
<1>2. down' \in [Conns -> Seq(Frames)]
  BY <1>1 DEF StreamsType, ServerSends
<1>3. QED  BY <1>1, <1>2 DEF StreamsType

LEMMA ReadsTyped ==
  ASSUME StreamsAssumption, StreamsType, NEW c \in Conns, NEW kind, Reads(c, kind)
  PROVE  /\ up' \in [Conns -> Seq(Frames)]
         /\ \A d \in Conns : Len(up'[d]) <= StreamCap
         /\ Head(up[c]) \in Frames
<1>1. \A d \in Conns : up'[d] \in Seq(Frames) /\ Len(up'[d]) <= StreamCap
  BY DEF StreamsAssumption, StreamsType, Reads
<1>2. QED  BY <1>1 DEF StreamsType, Reads

-----------------------------------------------------------------------------
LEMMA TypedInit ==
  ASSUME StreamsAssumption, WakeAssumption, MindLinkAssumption, LinkAssumption, Init
  PROVE  Typed
<1>1. StreamsType
  BY DEF Init, StreamsInit, StreamsType, Empty, NoConn, StreamsAssumption
<1>2. LinkType
  <2>1. buf \in Seq(Frames) /\ Len(buf) = 0 /\ Len(queue) = 0
    BY DEF Init, LinkInit
  <2>2. age \in [sent: 0..1, heard: 0..MaxMissed]
    BY DEF Init, LinkInit, Fresh, MindLinkAssumption
  <2>3. saying \in BOOLEAN /\ playing \in Nat /\ stray \in BOOLEAN
    BY Zenon DEF Init, LinkInit
  <2>4. sess \in States /\ step \in Steps /\ boot \in Boots \cup {0}
    BY DEF Init, LinkInit, States, Steps
  <2>5. 0 <= StreamCap /\ 0 <= QueueCap
    BY DEF MindLinkAssumption, StreamsAssumption
  <2>6. QED  BY <2>1, <2>2, <2>3, <2>4, <2>5 DEF LinkType
<1>3. TransportType /\ WakeType
  <2>1. TransportType
    BY DEF Init, TransportInit, TransportType, HandlerSteps, NoConn
  <2>2. outbox \in Seq(Items)
    BY DEF Init, WakeInit
  <2>3. routed \in BOOLEAN
    BY Zenon DEF Init, WakeInit
  <2>4. 0 \in 0..MaxSessions /\ 0 \in 0..MaxChunks
    BY DEF WakeAssumption
  <2>5. QED  BY <2>1, <2>2, <2>3, <2>4 DEF Init, WakeInit, WakeType
<1>4. QED
  BY <1>1, <1>2, <1>3 DEF Init, LinkInit, Typed, TypeOK, LinkAssumption

-----------------------------------------------------------------------------
LEMMA StreamsSame == StreamsType /\ UNCHANGED nvars => StreamsType'
BY DEF StreamsType, nvars

LEMMA LinkSame ==
  LinkType /\ UNCHANGED <<sess, boot, age, step, buf, saying, playing, stray, queue>> => LinkType'
BY DEF LinkType

LEMMA TransportSame == TransportType /\ UNCHANGED tvars => TransportType'
BY DEF TransportType, tvars

LEMMA WakeSame == WakeType /\ UNCHANGED wvars => WakeType'
BY DEF WakeType, wvars

(* The variables of the link task alone. *)
TaskTyped ==
  /\ StreamsType /\ LinkType
  /\ step # "frames" => buf = <<>>
  /\ step # "connect" => conn # NoConn

LEMMA ConnectTyped ==
  ASSUME StreamsAssumption, MindLinkAssumption, TaskTyped, NEW c \in Conns, Connect(c)
  PROVE  TaskTyped'
<1>1. StreamsType' /\ conn' # NoConn
  BY OpensTyped DEF TaskTyped, Connect
<1>2. buf' \in Seq(Frames) /\ Len(buf') = 0 /\ 0 <= StreamCap
  BY DEF Connect, StreamsAssumption
<1>3. age' \in [sent: 0..1, heard: 0..MaxMissed]
  BY DEF Connect, Fresh, MindLinkAssumption
<1>4. saying' \in BOOLEAN /\ playing' \in Nat /\ stray' \in BOOLEAN
  BY Zenon DEF TaskTyped, LinkType, Connect
<1>5. sess' \in States /\ step' \in Steps /\ boot' \in Boots /\ Len(queue') <= QueueCap
  BY DEF TaskTyped, LinkType, Connect, States, Steps, Goes
<1>6. LinkType'  BY <1>2, <1>3, <1>4, <1>5 DEF LinkType
<1>7. QED  BY <1>1, <1>2, <1>6 DEF TaskTyped, Connect

LEMMA TaskKeepsTypes ==
  ASSUME StreamsAssumption, MindLinkAssumption, TaskTyped, LinkTask
  PROVE  TaskTyped'
<1> USE DEF TaskTyped
<1>1. CASE SendHello
  <2>1. StreamsType' /\ conn' = conn
    BY <1>1, FramesKnown, RobotSendsTyped DEF SendHello
  <2>2. LinkType'
    BY <1>1 DEF SendHello, LinkType, Goes, Steps, qvars
  <2>3. QED  BY <1>1, <2>1, <2>2 DEF SendHello, Goes
<1>2. CASE HelloFails
  <2>1. StreamsType'
    BY <1>2, HangsUpTyped DEF HelloFails
  <2>2. LinkType'
    BY <1>2 DEF HelloFails, LinkType, Dies, Goes, States, Steps, qvars
  <2>3. QED  BY <1>2, <2>1, <2>2 DEF HelloFails, Dies, Goes
<1>3. CASE Idles
  <2>1. StreamsType' /\ conn' = conn
    BY <1>3, StreamsSame DEF Idles, nvars
  <2>2. LinkType'
    BY <1>3 DEF Idles, LinkType, Goes, Steps, qvars
  <2>3. QED  BY <1>3, <2>1, <2>2 DEF Idles, Goes
<1>4. CASE TimesOut
  <2>1. StreamsType' /\ conn' = conn
    BY <1>4, StreamsSame DEF TimesOut, nvars
  <2>2. LinkType'
    BY <1>4 DEF TimesOut, LinkType, Dies, Goes, States, Steps, qvars
  <2>3. QED  BY <1>4, <2>1, <2>2 DEF TimesOut, Dies, Goes
<1>5. CASE SendHeartbeat
  <2>1. StreamsType' /\ conn' = conn
    BY <1>5, FramesKnown, RobotSendsTyped, StreamsSame DEF SendHeartbeat, nvars
  <2>2. age' \in [sent: 0..1, heard: 0..MaxMissed]
    BY <1>5 DEF SendHeartbeat, LinkType, MarkSent
  <2>3. LinkType'
    BY <1>5, <2>2 DEF SendHeartbeat, LinkType, Dies, Goes, States, Steps, qvars
  <2>4. QED  BY <1>5, <2>1, <2>3 DEF SendHeartbeat, Dies, Goes
<1>6. CASE SendVoice
  <2>1. <<"voice", 0>> \in Frames
    BY FramesKnown
  <2>2. StreamsType' /\ conn' = conn
    BY <1>6, <2>1, RobotSendsTyped, StreamsSame DEF SendVoice, nvars
  <2>3. LinkType'
    BY <1>6 DEF SendVoice, LinkType, Dies, Goes, States, Steps
  <2>4. QED  BY <1>6, <2>2, <2>3 DEF SendVoice, Dies, Goes
<1>7. CASE VoiceDone
  <2>1. StreamsType' /\ conn' = conn
    BY <1>7, StreamsSame DEF VoiceDone, nvars
  <2>2. LinkType'
    BY <1>7 DEF VoiceDone, LinkType, Goes, Steps, qvars
  <2>3. QED  BY <1>7, <2>1, <2>2 DEF VoiceDone, Goes
<1>8. CASE Receive
  <2> PICK n \in 1..Len(down[conn]) :
        /\ buf' = buf \o SubSeq(down[conn], 1, n)
        /\ down' = [down EXCEPT ![conn] = SubSeq(@, n + 1, Len(@))]
    BY <1>8 DEF Receive
  <2> DEFINE q == down[conn]
  <2>1. conn \in Conns /\ q \in Seq(Frames) /\ Len(q) <= StreamCap /\ buf = <<>>
    BY <1>8 DEF Receive, Goes, StreamsType, NoConn
  <2>2. /\ SubSeq(q, 1, n) \in Seq(Frames) /\ Len(SubSeq(q, 1, n)) <= StreamCap
        /\ SubSeq(q, n + 1, Len(q)) \in Seq(Frames)
        /\ Len(SubSeq(q, n + 1, Len(q))) <= StreamCap
    BY <2>1 DEF StreamsAssumption
  <2>3. StreamsType' /\ conn' = conn
    BY <1>8, <2>1, <2>2 DEF StreamsType, Receive
  <2>4. buf' = SubSeq(q, 1, n)
    BY <2>1, <2>2
  <2>5. LinkType'
    BY <1>8, <2>2, <2>4 DEF Receive, LinkType, Goes, Steps, qvars
  <2>6. QED  BY <1>8, <2>3, <2>5 DEF Receive, Goes
<1>9. CASE WouldBlock
  <2>1. StreamsType' /\ conn' = conn
    BY <1>9, StreamsSame DEF WouldBlock, nvars
  <2>2. LinkType'
    BY <1>9 DEF WouldBlock, LinkType, Goes, Steps, qvars
  <2>3. QED  BY <1>9, <2>1, <2>2 DEF WouldBlock, Goes
<1>10. CASE Loses
  <2>1. StreamsType' /\ conn' = conn
    BY <1>10, StreamsSame DEF Loses, nvars
  <2>2. LinkType'
    BY <1>10 DEF Loses, LinkType, Dies, Goes, States, Steps, qvars
  <2>3. QED  BY <1>10, <2>1, <2>2 DEF Loses, Dies, Goes
<1>11. ASSUME step = "frames", buf # <<>>, Handled,
              sess' \in States, age' \in [sent: 0..1, heard: 0..MaxMissed],
              saying' \in BOOLEAN, playing' \in Nat, stray' \in BOOLEAN
       PROVE  TaskTyped'
  <2>1. StreamsType' /\ conn' = conn
    BY <1>11, StreamsSame DEF Handled, nvars
  <2>2. buf' \in Seq(Frames) /\ Len(buf') <= StreamCap
    BY <1>11 DEF Handled, LinkType, StreamsAssumption
  <2>3. LinkType'
    BY <1>11, <2>2 DEF Handled, LinkType, qvars
  <2>4. QED  BY <1>11, <2>1, <2>3 DEF Handled
<1>12. CASE HandleHelloAck
  <2>1. sess' \in States /\ age' \in [sent: 0..1, heard: 0..MaxMissed]
    BY <1>12 DEF HandleHelloAck, LinkType, States, Fresh, MindLinkAssumption
  <2>2. saying' \in BOOLEAN /\ playing' \in Nat /\ stray' \in BOOLEAN
    BY <1>12 DEF HandleHelloAck, LinkType
  <2>3. QED  BY <1>11, <1>12, <2>1, <2>2 DEF HandleHelloAck, Arrives
<1>13. CASE HandleHeartbeat
  <2>1. sess' \in States /\ age' \in [sent: 0..1, heard: 0..MaxMissed]
    BY <1>13 DEF HandleHeartbeat, LinkType, MindLinkAssumption
  <2>2. saying' \in BOOLEAN /\ playing' \in Nat /\ stray' \in BOOLEAN
    BY <1>13 DEF HandleHeartbeat, LinkType
  <2>3. QED  BY <1>11, <1>13, <2>1, <2>2 DEF HandleHeartbeat, Arrives
<1>14. ASSUME buf # <<>>
       PROVE  Turn(Head(buf)) \in Nat
  <2>1. Head(buf) \in Frames
    BY <1>14 DEF LinkType
  <2>2. QED  BY <2>1 DEF Turn, Frames
<1>15. CASE HandleBegin
  <2>1. saying' = TRUE /\ playing' \in Nat /\ stray' = FALSE
    BY <1>14, <1>15 DEF HandleBegin, Arrives
  <2>2. saying' \in BOOLEAN /\ playing' \in Nat /\ stray' \in BOOLEAN
    BY <2>1, Zenon
  <2>3. QED  BY <1>11, <1>15, <2>2 DEF HandleBegin, Arrives, LinkType
<1>16. CASE HandleAudio
  <2>1. saying' \in BOOLEAN /\ playing' \in Nat /\ stray' \in BOOLEAN
    BY <1>16, Zenon DEF HandleAudio, LinkType
  <2>2. QED  BY <1>11, <1>16, <2>1 DEF HandleAudio, Arrives, LinkType
<1>17. CASE HandleHush
  <2>1. playing' \in Nat
    BY <1>17 DEF HandleHush, LinkType
  <2>2. saying' \in BOOLEAN /\ stray' \in BOOLEAN
    BY <1>17, Zenon DEF HandleHush
  <2>3. QED  BY <1>11, <1>17, <2>1, <2>2 DEF HandleHush, Arrives, LinkType
<1>18. CASE HandleCommand
  BY <1>11, <1>18 DEF HandleCommand, Arrives, LinkType
<1>19. CASE FramesDone
  <2>1. StreamsType' /\ conn' = conn
    BY <1>19, StreamsSame DEF FramesDone, nvars
  <2>2. LinkType'
    BY <1>19 DEF FramesDone, LinkType, Steps, qvars
  <2>3. QED  BY <1>19, <2>1, <2>2 DEF FramesDone
<1>20. CASE Close
  <2>1. StreamsType'
    BY <1>20, HangsUpTyped DEF Close
  <2>2. saying' \in BOOLEAN /\ playing' \in Nat /\ stray' \in BOOLEAN
    <3>1. playing' \in Nat
      BY <1>20 DEF Close, DropTurn, LinkType
    <3>2. QED  BY <1>20, <3>1, Zenon DEF Close, LinkType
  <2>3. LinkType'
    BY <1>20, <2>2 DEF Close, LinkType, Goes, Steps
  <2>4. QED  BY <1>20, <2>1, <2>3 DEF Close, Goes
<1>21. QED
  BY <1>1, <1>2, <1>3, <1>4, <1>5, <1>6, <1>7, <1>8, <1>9, <1>10, <1>12, <1>13,
     <1>15, <1>16, <1>17, <1>18, <1>19, <1>20 DEF LinkTask

-----------------------------------------------------------------------------
LEMMA HandlersKeepTypes ==
  ASSUME StreamsAssumption, MindLinkAssumption, StreamsType, LinkType, TransportType,
         NEW c \in Conns, Handles(c)
  PROVE  StreamsType' /\ TransportType' /\ conn' = conn
<1>1. CASE ReadHello(c)
  <2>1. Head(up[c])[2] \in Nat
    BY <1>1, ReadsTyped DEF ReadHello, Frames
  <2>2. Ack(Head(up[c])[2]) \in Frames
    BY <2>1, FramesKnown DEF Ack
  <2>3. StreamsType'
    BY <1>1, <2>2, ReadsTyped, ServerSendsTyped DEF ReadHello
  <2>4. QED  BY <1>1, <2>3 DEF ReadHello, Moves, TransportType, HandlerSteps
<1>2. CASE ReadHeartbeat(c)
  <2>1. StreamsType'
    BY <1>2, FramesKnown, ReadsTyped, ServerSendsTyped DEF ReadHeartbeat
  <2>2. QED  BY <1>2, <2>1, TransportSame DEF ReadHeartbeat
<1>3. CASE ReadOther(c)
  <2>1. StreamsType'
    BY <1>3, ReadsTyped DEF ReadOther, StreamsType
  <2>2. QED  BY <1>3, <2>1, TransportSame DEF ReadOther
<1>4. CASE ReadFails(c)
  BY <1>4, StreamsSame DEF ReadFails, Moves, TransportType, HandlerSteps, nvars
<1>5. CASE TakesOver(c)
  BY <1>5, StreamsSame DEF TakesOver, Moves, TransportType, HandlerSteps, nvars
<1>6. CASE Evicts(c)
  <2>1. StreamsType'
    BY <1>6 DEF Evicts, StreamsType
  <2>2. QED  BY <1>6, <2>1 DEF Evicts, Moves, TransportType, HandlerSteps
<1>7. CASE Evicted(c)
  BY <1>7, StreamsSame DEF Evicted, Moves, TransportType, HandlerSteps, nvars
<1>8. CASE Finally(c)
  <2>1. StreamsType'
    BY <1>8 DEF Finally, StreamsType
  <2>2. QED  BY <1>8, <2>1 DEF Finally, Moves, Without, TransportType, HandlerSteps
<1>9. QED
  BY <1>1, <1>2, <1>3, <1>4, <1>5, <1>6, <1>7, <1>8 DEF Handles

LEMMA CommandsKeepTypes ==
  ASSUME StreamsAssumption, MindLinkAssumption, LinkAssumption,
         StreamsType, LinkType, TransportType, Commands
  PROVE  StreamsType' /\ TransportType' /\ conn' = conn
<1>1. CASE SendCommand
  <2>1. client \in Conns /\ Order \in Frames
    BY <1>1, FramesKnown DEF Order, SendCommand, TransportType
  <2>2. StreamsType'
    BY <1>1, <2>1, ServerSendsTyped DEF SendCommand, StreamsType
  <2>3. sender' \in BOOLEAN
    BY <1>1, Zenon DEF SendCommand, TransportType
  <2>4. QED  BY <1>1, <2>2, <2>3 DEF SendCommand, TransportType
<1>2. ASSUME NEW f \in Downlink \ {Order}, SendSay(f)
      PROVE  StreamsType' /\ TransportType' /\ conn' = conn
  <2>1. client \in Conns /\ f \in Frames
    BY <1>2 DEF SendSay, TransportType, LinkAssumption, Frames
  <2>2. StreamsType'
    BY <1>2, <2>1, ServerSendsTyped DEF SendSay, StreamsType
  <2>3. QED  BY <1>2, <2>2, TransportSame DEF SendSay
<1>3. QED  BY <1>1, <1>2 DEF Commands

LEMMA SessionsKeepTypes ==
  ASSUME WakeAssumption, WakeType, Audio
  PROVE  WakeType'
<1>1. CASE Arms
  <2>1. outbox' \in Seq(Items)
    BY <1>1 DEF Arms, Item, Items
  <2>2. QED  BY <1>1, <2>1 DEF Arms, WakeType, WakeAssumption
<1>2. CASE Begins
  <2>1. active \in Nat
    BY DEF WakeType, WakeAssumption
  <2>2. outbox' \in Seq(Items)
    BY <1>2, <2>1 DEF Begins, Item, Items
  <2>3. QED  BY <1>2, <2>2 DEF Begins, WakeType, WakeAssumption
<1>3. CASE Hears
  <2>1. active \in Nat /\ chunks' \in 0..MaxChunks
    BY <1>3 DEF Hears, WakeType, WakeAssumption
  <2>2. outbox' \in Seq(Items)
    BY <1>3, <2>1 DEF Hears, Item, Items
  <2>3. QED  BY <1>3, <2>1, <2>2 DEF Hears, WakeType
<1>4. CASE Ends
  <2>1. active \in Nat
    BY DEF WakeType, WakeAssumption
  <2>2. outbox' \in Seq(Items)
    BY <1>4, <2>1 DEF Ends, Item, Items
  <2>3. QED  BY <1>4, <2>2 DEF Ends, Reset, WakeType, WakeAssumption
<1>5. CASE GivesUp
  BY <1>5 DEF GivesUp, Reset, WakeType, WakeAssumption
<1>6. QED  BY <1>1, <1>2, <1>3, <1>4, <1>5 DEF Audio

-----------------------------------------------------------------------------
LEMMA TypedNext ==
  ASSUME StreamsAssumption, WakeAssumption, MindLinkAssumption, LinkAssumption,
         Typed, [Next]_vars
  PROVE  Typed'
<1> USE DEF Typed, TypeOK
<1>0. TaskTyped
  BY DEF TaskTyped
<1>1. CASE RobotActs
  <2>1. CASE LinkTask /\ UNCHANGED <<tvars, wvars>>
    <3>1. TaskTyped'  BY <1>0, <2>1, TaskKeepsTypes
    <3>2. QED
      BY <1>1, <2>1, <3>1, TransportSame, WakeSame DEF RobotActs, TaskTyped
  <2>2. ASSUME NEW c \in Conns, Connect(c), Accept(c), UNCHANGED wvars
        PROVE  Typed'
    <3>1. TaskTyped'  BY <1>0, <2>2, ConnectTyped
    <3>2. TransportType'
      BY <2>2 DEF Accept, TransportType, HandlerSteps
    <3>3. QED  BY <1>1, <2>2, <3>1, <3>2, WakeSame DEF RobotActs, TaskTyped
  <2>3. QED  BY <1>1, <2>1, <2>2 DEF RobotActs
<1>2. CASE Refuses
  <2>1. StreamsType' /\ conn' = conn
    BY <1>2, StreamsSame DEF Refuses, ConnectFails, nvars
  <2>2. LinkType'
    BY <1>2 DEF Refuses, ConnectFails, Dies, Goes, LinkType, States, Steps, qvars
  <2>3. QED
    BY <1>2, <2>1, <2>2, TransportSame, WakeSame DEF Refuses, ConnectFails, Dies, Goes
<1>3. CASE Interval
  <2>1. StreamsType' /\ conn' = conn
    BY <1>3, StreamsSame DEF Interval, Clock, nvars
  <2>2. age' \in [sent: 0..1, heard: 0..MaxMissed]
    BY <1>3 DEF Interval, Clock, Missed, LinkType, MindLinkAssumption
  <2>3. LinkType'
    BY <1>3, <2>2 DEF Interval, Clock, LinkType, qvars
  <2>4. QED
    BY <1>3, <2>1, <2>3, TransportSame, WakeSame DEF Interval, Clock
<1>4. CASE Notify
  <2>1. StreamsType' /\ TransportType' /\ conn' = conn
    BY <1>4, StreamsSame, TransportSame DEF Notify, nvars
  <2>2. Len(queue') <= QueueCap
    <3>1. CASE queue' = queue
      BY <3>1 DEF LinkType
    <3>2. CASE Len(queue) < QueueCap /\ queue' = Append(queue, Head(outbox))
      <4>1. QED  BY <3>2
    <3>3. QED  BY <1>4, <3>1, <3>2 DEF Notify, Push, HasRoom
  <2>3. LinkType'
    BY <1>4, <2>2 DEF Notify, LinkType, mvars
  <2>4. WakeType'
    BY <1>4 DEF Notify, WakeType
  <2>5. QED  BY <1>4, <2>1, <2>3, <2>4 DEF Notify, mvars
<1>5. CASE Audio /\ UNCHANGED <<nvars, mvars, qvars, tvars, losses>>
  BY <1>5, SessionsKeepTypes, StreamsSame, LinkSame, TransportSame DEF nvars, mvars, qvars
<1>6. CASE MainActs
  <2>1. routed' \in BOOLEAN
    BY <1>6, Zenon DEF MainActs, SetRoutes
  <2>2. WakeType'
    BY <1>6, <2>1 DEF MainActs, SetRoutes, WakeType
  <2>3. QED
    BY <1>6, <2>2, StreamsSame, LinkSame, TransportSame DEF MainActs, nvars, mvars, qvars
<1>7. ASSUME NEW c \in Conns, ServerActs(c)
      PROVE  Typed'
  <2>1. StreamsType' /\ TransportType' /\ conn' = conn
    BY <1>7, HandlersKeepTypes DEF ServerActs
  <2>2. QED
    BY <1>7, <2>1, LinkSame, WakeSame DEF ServerActs, mvars, qvars
<1>8. CASE Commands
  <2>1. StreamsType' /\ TransportType' /\ conn' = conn
    BY <1>8, CommandsKeepTypes
  <2>2. QED
    BY <1>8, <2>1, LinkSame, WakeSame DEF Commands, mvars, qvars
<1>9. CASE RobotResets
  <2>1. StreamsType'
    BY <1>9 DEF RobotResets, StreamsType
  <2>2. LinkType'
    <3>1. buf' \in Seq(Frames) /\ Len(buf') = 0 /\ Len(queue') = 0
      BY <1>9 DEF RobotResets
    <3>2. age' \in [sent: 0..1, heard: 0..MaxMissed]
      BY <1>9 DEF RobotResets, Fresh, MindLinkAssumption
    <3>3. saying' \in BOOLEAN /\ playing' = 0 /\ stray' \in BOOLEAN
      BY <1>9, Zenon DEF RobotResets
    <3>4. sess' \in States /\ step' \in Steps /\ boot' \in Boots \cup {0}
      BY <1>9 DEF RobotResets, States, Steps
    <3>5. 0 <= StreamCap /\ 0 <= QueueCap
      BY DEF MindLinkAssumption, StreamsAssumption
    <3>6. QED  BY <3>1, <3>2, <3>3, <3>4, <3>5 DEF LinkType
  <2>3. WakeType'
    <3>1. outbox' \in Seq(Items)
      BY <1>9 DEF RobotResets
    <3>2. routed' \in BOOLEAN
      BY <1>9, Zenon DEF RobotResets
    <3>3. 0 \in 0..MaxSessions /\ 0 \in 0..MaxChunks
      BY DEF WakeAssumption
    <3>4. QED  BY <1>9, <3>1, <3>2, <3>3 DEF RobotResets, WakeType
  <2>4. losses' \in 0..MaxLosses
    BY <1>9 DEF RobotResets, LinkAssumption
  <2>5. QED
    BY <1>9, <2>1, <2>2, <2>3, <2>4, TransportSame DEF RobotResets
<1>10. CASE ServerLost
  <2>1. Empty \in [Conns -> Seq(Frames)] /\ \A c \in Conns : Len(Empty[c]) <= StreamCap
    <3>1. <<>> \in Seq(Frames) /\ Len(<<>>) = 0  OBVIOUS
    <3>2. QED  BY <3>1 DEF Empty, StreamsAssumption
  <2>2. shut' \in [Conns -> BOOLEAN] /\ ghost' \subseteq Conns
    <3>1. CASE shut' = [c \in Conns |-> TRUE] /\ UNCHANGED ghost
      BY <3>1 DEF StreamsType
    <3>2. CASE ghost' = ghost \cup ({conn} \ {NoConn}) /\ UNCHANGED shut
      BY <3>2 DEF StreamsType
    <3>3. QED  BY <1>10, <3>1, <3>2 DEF ServerLost
  <2>3. StreamsType'
    BY <1>10, <2>1, <2>2 DEF ServerLost, StreamsType
  <2>4. srv' \in [Conns -> HandlerSteps] /\ client' = NoConn
    BY <1>10 DEF ServerLost, HandlerSteps
  <2>5. sender' \in BOOLEAN
    BY <1>10, Zenon DEF ServerLost
  <2>6. losses' \in 0..MaxLosses
    BY <1>10 DEF ServerLost, LinkAssumption
  <2>7. QED
    BY <1>10, <2>3, <2>4, <2>5, <2>6, LinkSame, WakeSame
       DEF ServerLost, TransportType, mvars, qvars
<1>11. CASE UNCHANGED vars
  BY <1>11, StreamsSame, LinkSame, TransportSame, WakeSame DEF vars, mvars, qvars, nvars
<1>12. QED
  BY <1>1, <1>2, <1>3, <1>4, <1>5, <1>6, <1>7, <1>8, <1>9, <1>10, <1>11
     DEF Next, AudioActs

(* Types: every buffer and queue stays within its size, whatever comes,    *)
(* goes or is lost.                                                        *)
THEOREM TypeCorrect == Spec => []TypeOK
<1>1. Init => Typed
  BY TypedInit, StreamsAssumption, WakeAssumption, MindLinkAssumption, LinkAssumption
<1>2. Typed /\ [Next]_vars => Typed'
  BY TypedNext, StreamsAssumption, WakeAssumption, MindLinkAssumption, LinkAssumption
<1>3. Typed => TypeOK
  BY DEF Typed
<1>4. QED  BY <1>1, <1>2, <1>3, PTL DEF Spec

-----------------------------------------------------------------------------
(* The turn the playback has, the link remembers to take back, as long as  *)
(* nothing but its own end came after it.                                  *)
TurnTied ==
  /\ playing = 0 \/ saying \/ stray
  /\ step \in {"connect", "hello"} => playing = 0 \/ stray

LEMMA TaskKeepsTied ==
  ASSUME TurnTied, LinkTask
  PROVE  TurnTied'
<1> USE DEF TurnTied
<1>1. CASE Close
  BY <1>1, Zenon DEF Close, Goes, DropTurn
<1>2. CASE HandleBegin \/ HandleAudio
  BY <1>2, Zenon DEF HandleBegin, HandleAudio, Handled, Arrives
<1>3. CASE HandleHush
  BY <1>3, Zenon DEF HandleHush, Handled, Arrives
<1>4. ASSUME UNCHANGED <<saying, playing, stray>>,
             step' \in {"connect", "hello"} => step \in {"connect", "hello"}
      PROVE  TurnTied'
  BY <1>4
<1>5. CASE SendHello
  BY <1>5, <1>4 DEF SendHello, Goes
<1>6. CASE HelloFails
  BY <1>6, <1>4 DEF HelloFails, Dies, Goes
<1>7. CASE Idles \/ TimesOut \/ SendHeartbeat
  BY <1>7, <1>4 DEF Idles, TimesOut, SendHeartbeat, Dies, Goes
<1>8. CASE SendVoice \/ VoiceDone
  BY <1>8, <1>4 DEF SendVoice, VoiceDone, Dies, Goes
<1>9. CASE Receive \/ WouldBlock \/ Loses
  BY <1>9, <1>4 DEF Receive, WouldBlock, Loses, Dies, Goes
<1>10. CASE HandleHelloAck \/ HandleHeartbeat \/ HandleCommand
  BY <1>10, <1>4 DEF HandleHelloAck, HandleHeartbeat, HandleCommand, Handled
<1>11. CASE FramesDone
  BY <1>11, <1>4 DEF FramesDone
<1>12. QED
  BY <1>1, <1>2, <1>3, <1>5, <1>6, <1>7, <1>8, <1>9, <1>10, <1>11 DEF LinkTask

LEMMA TiedNext ==
  ASSUME TurnTied, [Next]_vars
  PROVE  TurnTied'
<1>1. ASSUME UNCHANGED <<step, saying, playing, stray>>
      PROVE  TurnTied'
  BY <1>1 DEF TurnTied
<1>2. CASE RobotActs
  <2>1. ASSUME NEW c \in Conns, Connect(c)
        PROVE  TurnTied'
    BY <2>1 DEF Connect, Goes, TurnTied
  <2>2. QED  BY <1>2, <2>1, TaskKeepsTied DEF RobotActs
<1>3. CASE Refuses
  BY <1>3 DEF Refuses, ConnectFails, Dies, Goes, TurnTied
<1>4. CASE Interval
  BY <1>4, <1>1 DEF Interval, Clock
<1>5. CASE AudioActs
  BY <1>5, <1>1 DEF AudioActs, Notify, mvars
<1>6. CASE MainActs
  BY <1>6, <1>1 DEF MainActs, mvars
<1>7. ASSUME NEW c \in Conns, ServerActs(c)
      PROVE  TurnTied'
  BY <1>7, <1>1 DEF ServerActs, mvars
<1>8. CASE Commands
  BY <1>8, <1>1 DEF Commands, mvars
<1>9. CASE RobotResets
  BY <1>9, Zenon DEF RobotResets, TurnTied
<1>10. CASE ServerLost
  BY <1>10, <1>1 DEF ServerLost, mvars
<1>11. CASE UNCHANGED vars
  BY <1>11, <1>1 DEF vars, mvars
<1>12. QED
  BY <1>2, <1>3, <1>4, <1>5, <1>6, <1>7, <1>8, <1>9, <1>10, <1>11 DEF Next

(* What the mind was saying ends with the link it came by, unless the last *)
(* that came of it was the end of another turn.                            *)
THEOREM SpeechEndsWithLink == Spec => []NoTurnOutlivesItsLink
<1>1. Init => TurnTied
  BY Zenon DEF Init, LinkInit, TurnTied
<1>2. TurnTied /\ [Next]_vars => TurnTied'
  BY TiedNext
<1>3. TurnTied => NoTurnOutlivesItsLink
  BY DEF TurnTied, NoTurnOutlivesItsLink
<1>4. QED  BY <1>1, <1>2, <1>3, PTL DEF Spec

-----------------------------------------------------------------------------
(* The client: a connection is greeted once.                               *)

NoHello(s) == \A i \in 1..Len(s) : s[i][1] # "hello"
OneHello(s) ==
  \A i, j \in 1..Len(s) : s[i][1] = "hello" /\ s[j][1] = "hello" => i = j

(* Whoever is the client, or about to be, will not greet again; and until  *)
(* the robot greets, its new connection is no client.                      *)
Greeted(c) == c = client \/ srv[c] \in {"greeted", "evicting"}
GreetsOnce ==
  /\ \A c \in Conns : OneHello(up[c]) /\ (Greeted(c) => NoHello(up[c]))
  /\ step = "hello" => ~Greeted(conn) /\ NoHello(up[conn])
HandlerInv == ClientHasHandler /\ GreetsOnce

LEMMA Nothing == NoHello(<<>>) /\ OneHello(<<>>)
BY DEF NoHello, OneHello

LEMMA HelloAppended ==
  ASSUME NEW s \in Seq(Frames), NEW f \in Frames
  PROVE  /\ NoHello(s) => OneHello(Append(s, f))
         /\ f[1] # "hello" /\ NoHello(s) => NoHello(Append(s, f))
         /\ f[1] # "hello" /\ OneHello(s) => OneHello(Append(s, f))
<1>1. /\ Len(Append(s, f)) = Len(s) + 1 /\ Append(s, f)[Len(s) + 1] = f
      /\ \A i \in 1..Len(s) : Append(s, f)[i] = s[i]
  OBVIOUS
<1>2. \A i \in 1..Len(Append(s, f)) : i \in 1..Len(s) \/ i = Len(s) + 1
  BY <1>1
<1>3. QED  BY <1>1, <1>2 DEF NoHello, OneHello

LEMMA HelloRead ==
  ASSUME NEW s \in Seq(Frames), s # <<>>
  PROVE  /\ NoHello(s) => Head(s)[1] # "hello" /\ NoHello(Tail(s))
         /\ OneHello(s) => OneHello(Tail(s))
         /\ OneHello(s) /\ Head(s)[1] = "hello" => NoHello(Tail(s))
<1>1. /\ Len(s) \in Nat /\ Len(s) >= 1
      /\ Head(s) = s[1] /\ Len(Tail(s)) = Len(s) - 1
      /\ \A i \in 1..Len(Tail(s)) : Tail(s)[i] = s[i + 1]
  OBVIOUS
<1>2. 1 \in 1..Len(s) /\ \A i \in 1..Len(Tail(s)) : i + 1 \in 1..Len(s) /\ i + 1 # 1
  BY <1>1
<1>3. QED  BY <1>1, <1>2 DEF NoHello, OneHello

(* The streams to the server and where the task is: all the other steps    *)
(* leave alone what the invariant looks at.                                *)
LEMMA HandlersSame ==
  ASSUME HandlerInv, UNCHANGED <<srv, client>>,
         \A c \in Conns : up'[c] = up[c] \/ up'[c] = <<>>,
         step' = "hello" => step = "hello" /\ conn' = conn /\ conn \in Conns
  PROVE  HandlerInv'
<1>1. \A c \in Conns : Greeted(c)' <=> Greeted(c)
  BY DEF Greeted
<1>2. ASSUME NEW c \in Conns
      PROVE  (OneHello(up[c]) => OneHello(up'[c])) /\ (NoHello(up[c]) => NoHello(up'[c]))
  BY Nothing
<1>3. \A c \in Conns : OneHello(up'[c]) /\ (Greeted(c)' => NoHello(up'[c]))
  BY <1>1, <1>2 DEF HandlerInv, GreetsOnce
<1>4. step' = "hello" => ~Greeted(conn)' /\ NoHello(up'[conn'])
  BY <1>2 DEF HandlerInv, GreetsOnce, Greeted
<1>5. ClientHasHandler'
  BY DEF HandlerInv, ClientHasHandler
<1>6. QED  BY <1>3, <1>4, <1>5 DEF HandlerInv, GreetsOnce

(* A frame of the robot that is no HELLO.                                  *)
LEMMA RobotSendsOn ==
  ASSUME StreamsType, HandlerInv, NEW f \in Frames, f[1] # "hello",
         RobotSends(f), UNCHANGED <<srv, client>>, step' # "hello"
  PROVE  HandlerInv'
<1>1. \A c \in Conns : up[c] \in Seq(Frames)
  BY DEF StreamsType
<1>2. \A c \in Conns : up'[c] = up[c] \/ up'[c] = Append(up[c], f)
  BY DEF RobotSends, StreamsType
<1>3. ASSUME NEW c \in Conns
      PROVE  (OneHello(up[c]) => OneHello(up'[c])) /\ (NoHello(up[c]) => NoHello(up'[c]))
  BY <1>1, <1>2, HelloAppended
<1>4. \A c \in Conns : Greeted(c)' <=> Greeted(c)
  BY DEF Greeted
<1>5. \A c \in Conns : OneHello(up'[c]) /\ (Greeted(c)' => NoHello(up'[c]))
  BY <1>3, <1>4 DEF HandlerInv, GreetsOnce
<1>6. ClientHasHandler'
  BY DEF HandlerInv, ClientHasHandler
<1>7. QED  BY <1>5, <1>6 DEF HandlerInv, GreetsOnce

LEMMA TaskKeepsHandlers ==
  ASSUME MindLinkAssumption, TaskTyped, HandlerInv, LinkTask, UNCHANGED tvars
  PROVE  HandlerInv'
<1> USE DEF TaskTyped
<1>0. UNCHANGED <<srv, client>>
  BY DEF tvars
<1>1. CASE SendHello
  <2>1. /\ NoHello(up[conn]) /\ ~Greeted(conn) /\ conn \in Conns /\ step' # "hello"
        /\ \A c \in Conns : up[c] \in Seq(Frames)
    BY <1>1 DEF SendHello, Goes, HandlerInv, GreetsOnce, StreamsType
  <2>2. \A c \in Conns : up'[c] = up[c] \/ (c = conn /\ up'[c] = Append(up[c], Hello(boot)))
    BY <1>1 DEF SendHello, RobotSends, StreamsType
  <2>3. Hello(boot) \in Frames
    BY FramesKnown
  <2>4. \A c \in Conns : Greeted(c)' <=> Greeted(c)
    BY <1>0 DEF Greeted
  <2>5. ASSUME NEW c \in Conns
        PROVE  OneHello(up'[c]) /\ (Greeted(c)' => NoHello(up'[c]))
    <3>1. CASE up'[c] = up[c]
      BY <3>1, <2>4 DEF HandlerInv, GreetsOnce
    <3>2. CASE c = conn /\ up'[c] = Append(up[c], Hello(boot))
      BY <3>2, <2>1, <2>3, <2>4, HelloAppended
    <3>3. QED  BY <2>2, <3>1, <3>2
  <2>6. ClientHasHandler'
    BY <1>0 DEF HandlerInv, ClientHasHandler
  <2>7. QED  BY <2>1, <2>5, <2>6 DEF HandlerInv, GreetsOnce
<1>2. CASE SendHeartbeat
  <2>1. CASE RobotSends(Beat)
    BY <1>0, <1>2, <2>1, RobotSendsOn, FramesKnown DEF SendHeartbeat, Dies, Goes
  <2>2. CASE UNCHANGED nvars
    BY <1>0, <1>2, <2>2, HandlersSame DEF SendHeartbeat, Dies, Goes, nvars
  <2>3. QED  BY <1>2, <2>1, <2>2 DEF SendHeartbeat
<1>3. CASE SendVoice
  <2>1. CASE RobotSends(<<"voice", 0>>)
    <3>1. <<"voice", 0>> \in Frames /\ <<"voice", 0>>[1] # "hello"
      BY FramesKnown
    <3>2. QED
      BY <1>0, <1>3, <2>1, <3>1, RobotSendsOn DEF SendVoice, Dies, Goes
  <2>2. CASE UNCHANGED nvars
    BY <1>0, <1>3, <2>2, HandlersSame DEF SendVoice, Dies, Goes, nvars
  <2>3. QED  BY <1>3, <2>1, <2>2 DEF SendVoice
<1>4. CASE HelloFails \/ Close
  <2>1. HangsUp /\ step' # "hello" /\ conn \in Conns
    BY <1>4 DEF HelloFails, Close, Dies, Goes, StreamsType
  <2>2. up' = up \/ up' = [up EXCEPT ![conn] = <<>>]
    BY <2>1 DEF HangsUp
  <2>3. \A c \in Conns : up'[c] = up[c] \/ up'[c] = <<>>
    BY <2>1, <2>2 DEF StreamsType
  <2>4. QED  BY <1>0, <2>1, <2>3, HandlersSame
<1>5. ASSUME up' = up, conn' = conn, step' # "hello"
      PROVE  HandlerInv'
  BY <1>0, <1>5, HandlersSame
<1>6. CASE Idles \/ TimesOut \/ VoiceDone
  BY <1>6, <1>5 DEF Idles, TimesOut, VoiceDone, Dies, Goes, nvars
<1>7. CASE Receive \/ WouldBlock \/ Loses
  BY <1>7, <1>5 DEF Receive, WouldBlock, Loses, Dies, Goes, nvars
<1>8. CASE HandleHelloAck \/ HandleHeartbeat \/ HandleCommand
          \/ HandleBegin \/ HandleAudio \/ HandleHush
  BY <1>8, <1>5 DEF HandleHelloAck, HandleHeartbeat, HandleCommand,
                    HandleBegin, HandleAudio, HandleHush,
                    Handled, Arrives, nvars
<1>9. CASE FramesDone
  BY <1>9, <1>5 DEF FramesDone, nvars
<1>10. QED
  BY <1>1, <1>2, <1>3, <1>4, <1>6, <1>7, <1>8, <1>9 DEF LinkTask

LEMMA ConnectKeepsHandlers ==
  ASSUME StreamsType, TransportType, HandlerInv, NEW c \in Conns, Connect(c), Accept(c)
  PROVE  HandlerInv'
<1>1. /\ conn' = c /\ up' = [up EXCEPT ![c] = <<>>] /\ srv[c] = "none"
      /\ srv' = [srv EXCEPT ![c] = "read"] /\ client' = client
  BY DEF Connect, Opens, Accept
<1>2. client # c /\ ~Greeted(c)'
  BY <1>1 DEF HandlerInv, ClientHasHandler, Greeted, TransportType, StreamsAssumption, NoConn
<1>3. \A d \in Conns \ {c} : up'[d] = up[d] /\ srv'[d] = srv[d]
  BY <1>1 DEF StreamsType, TransportType
<1>4. up'[c] = <<>>
  BY <1>1 DEF StreamsType
<1>5. \A d \in Conns : OneHello(up'[d]) /\ (Greeted(d)' => NoHello(up'[d]))
  BY <1>1, <1>3, <1>4, Nothing DEF HandlerInv, GreetsOnce, Greeted
<1>6. ClientHasHandler'
  BY <1>1, <1>2, <1>3 DEF HandlerInv, ClientHasHandler, TransportType
<1>7. QED  BY <1>1, <1>2, <1>4, <1>5, <1>6, Nothing DEF HandlerInv, GreetsOnce

LEMMA ServerKeepsHandlers ==
  ASSUME StreamsAssumption, StreamsType, TransportType, HandlerInv,
         NEW c \in Conns, Handles(c), UNCHANGED step,
         step # "connect" => conn # NoConn
  PROVE  HandlerInv'
<1>0. /\ conn' = conn /\ NoConn \notin Conns
      /\ step = "hello" => conn \in Conns
      /\ \A d \in Conns : up[d] \in Seq(Frames)
  BY DEF Handles, ReadHello, ReadHeartbeat, ReadOther, ReadFails, TakesOver, Evicts,
         Evicted, Finally, nvars, StreamsType, StreamsAssumption, NoConn
<1> USE DEF HandlerInv, GreetsOnce, ClientHasHandler, Greeted, TransportType, Moves
<1>1. ASSUME NEW kind, Reads(c, kind)
      PROVE  /\ up[c] # <<>> /\ Head(up[c])[1] = kind /\ srv[c] = "read"
             /\ up'[c] = Tail(up[c]) /\ \A d \in Conns \ {c} : up'[d] = up[d]
             /\ \A d \in Conns : /\ OneHello(up'[d])
                                 /\ NoHello(up[d]) => NoHello(up'[d])
  <2>1. /\ up[c] # <<>> /\ Head(up[c])[1] = kind /\ srv[c] = "read"
        /\ up'[c] = Tail(up[c]) /\ \A d \in Conns \ {c} : up'[d] = up[d]
    BY <1>1 DEF Reads, StreamsType
  <2>2. QED  BY <1>0, <2>1, HelloRead
<1>2. CASE ReadHello(c)
  <2>1. /\ up[c] # <<>> /\ Head(up[c])[1] = "hello" /\ srv[c] = "read"
        /\ up'[c] = Tail(up[c]) /\ \A d \in Conns \ {c} : up'[d] = up[d]
        /\ \A d \in Conns : OneHello(up'[d]) /\ (NoHello(up[d]) => NoHello(up'[d]))
    BY <1>1, <1>2 DEF ReadHello
  <2>2. NoHello(up'[c]) /\ ~NoHello(up[c])
    BY <1>0, <2>1, HelloRead
  <2>3. srv' = [srv EXCEPT ![c] = "greeted"] /\ client' = client
    BY <1>2 DEF ReadHello
  <2>4. client # c /\ (step = "hello" => conn # c)
    BY <1>0, <2>2
  <2>5. \A d \in Conns : Greeted(d)' <=> Greeted(d) \/ d = c
    BY <2>1, <2>3
  <2>6. \A d \in Conns : OneHello(up'[d]) /\ (Greeted(d)' => NoHello(up'[d]))
    BY <2>1, <2>2, <2>5
  <2>7. step' = "hello" => ~Greeted(conn)' /\ NoHello(up'[conn'])
    BY <1>0, <2>1, <2>4, <2>5
  <2>8. ClientHasHandler'
    BY <2>3, <2>4
  <2>9. QED  BY <2>6, <2>7, <2>8
<1>3. CASE ReadHeartbeat(c) \/ ReadOther(c)
  <2>1. \A d \in Conns : OneHello(up'[d]) /\ (NoHello(up[d]) => NoHello(up'[d]))
    BY <1>1, <1>3 DEF ReadHeartbeat, ReadOther
  <2>2. UNCHANGED <<srv, client>>
    BY <1>3 DEF ReadHeartbeat, ReadOther, tvars
  <2>3. QED  BY <1>0, <2>1, <2>2
<1>4. CASE ReadFails(c)
  <2>1. up' = up /\ client' = client /\ srv[c] = "read" /\ srv' = [srv EXCEPT ![c] = "finally"]
    BY <1>4 DEF ReadFails, nvars
  <2>2. QED  BY <1>0, <2>1
<1>5. CASE TakesOver(c)
  <2>1. up' = up /\ client' = c /\ srv[c] = "greeted" /\ srv' = [srv EXCEPT ![c] = "read"]
    BY <1>5 DEF TakesOver, nvars
  <2>2. \A d \in Conns : Greeted(d)' => Greeted(d)
    BY <2>1
  <2>3. QED  BY <1>0, <2>1, <2>2
<1>6. CASE Evicts(c)
  <2>1. up' = up /\ client' = client /\ srv[c] = "greeted" /\ srv' = [srv EXCEPT ![c] = "evicting"]
    BY <1>6 DEF Evicts
  <2>2. \A d \in Conns : Greeted(d)' => Greeted(d)
    BY <2>1
  <2>3. QED  BY <1>0, <2>1, <2>2
<1>7. CASE Evicted(c)
  <2>1. up' = up /\ srv[c] = "evicting"
    BY <1>7 DEF Evicted, nvars
  <2>2. CASE srv' = [srv EXCEPT ![c] = "read"] /\ client' = c
    <3>1. \A d \in Conns : Greeted(d)' => Greeted(d)
      BY <2>1, <2>2
    <3>2. QED  BY <1>0, <2>1, <2>2, <3>1
  <2>3. CASE srv' = [srv EXCEPT ![c] = "finally"] /\ client' = client
    BY <1>0, <2>1, <2>3
  <2>4. QED  BY <1>7, <2>2, <2>3 DEF Evicted
<1>8. CASE Finally(c)
  <2>1. /\ up' = up /\ srv[c] = "finally" /\ srv' = [srv EXCEPT ![c] = "none"]
        /\ client' = IF client = c THEN NoConn ELSE client
    BY <1>8 DEF Finally, Without
  <2>2. QED  BY <1>0, <2>1
<1>9. QED
  BY <1>2, <1>3, <1>4, <1>5, <1>6, <1>7, <1>8 DEF Handles

LEMMA HandlersNext ==
  ASSUME StreamsAssumption, MindLinkAssumption, Typed, HandlerInv, [Next]_vars
  PROVE  HandlerInv'
<1>0. /\ TaskTyped /\ StreamsType /\ TransportType /\ LinkType
      /\ step = "hello" => conn \in Conns
      /\ step # "connect" => conn # NoConn
  BY DEF Typed, TypeOK, TaskTyped, StreamsType
<1>1. ASSUME UNCHANGED <<up, conn, step, srv, client>>
      PROVE  HandlerInv'
  BY <1>0, <1>1, HandlersSame
<1>2. CASE RobotActs
  BY <1>0, <1>2, TaskKeepsHandlers, ConnectKeepsHandlers DEF RobotActs
<1>3. CASE Refuses
  <2>1. UNCHANGED <<up, srv, client>> /\ step' # "hello"
    BY <1>3 DEF Refuses, ConnectFails, Dies, Goes, nvars, tvars
  <2>2. QED  BY <2>1, HandlersSame
<1>4. CASE Interval
  BY <1>1, <1>4 DEF Interval, Clock, nvars, tvars
<1>5. CASE AudioActs
  BY <1>1, <1>5 DEF AudioActs, Notify, nvars, mvars, tvars
<1>6. CASE MainActs
  BY <1>1, <1>6 DEF MainActs, nvars, mvars, tvars
<1>7. ASSUME NEW c \in Conns, ServerActs(c)
      PROVE  HandlerInv'
  BY <1>0, <1>7, ServerKeepsHandlers DEF ServerActs, mvars
<1>8. CASE Commands
  <2>1. UNCHANGED <<up, conn, srv, client>>
    BY <1>8 DEF Commands, SendCommand, SendSay, tvars
  <2>2. QED  BY <1>1, <1>8, <2>1 DEF Commands, mvars
<1>9. CASE RobotResets
  <2>1. UNCHANGED <<up, srv, client>> /\ step' # "hello"
    BY <1>9 DEF RobotResets, tvars
  <2>2. QED  BY <2>1, HandlersSame
<1>10. CASE ServerLost
  <2>1. /\ conn' = conn /\ step' = step /\ client' = NoConn
        /\ srv' = [c \in Conns |-> "none"] /\ (up' = up \/ up' = Empty)
    BY <1>10 DEF ServerLost, mvars
  <2>2. NoConn \notin Conns
    BY DEF StreamsAssumption, NoConn
  <2>3. \A c \in Conns : ~Greeted(c)'
    BY <2>1, <2>2 DEF Greeted
  <2>4. ASSUME NEW c \in Conns
        PROVE  OneHello(up'[c]) /\ (NoHello(up[c]) => NoHello(up'[c]))
    BY <2>1, Nothing DEF Empty, HandlerInv, GreetsOnce
  <2>5. QED
    BY <1>0, <2>1, <2>3, <2>4 DEF HandlerInv, GreetsOnce, ClientHasHandler
<1>11. CASE UNCHANGED vars
  BY <1>1, <1>11 DEF vars, nvars, mvars, tvars
<1>12. QED
  BY <1>2, <1>3, <1>4, <1>5, <1>6, <1>7, <1>8, <1>9, <1>10, <1>11 DEF Next

(* The client the server sends commands to is a connection whose handler   *)
(* has not ended, in whatever order connections come, greet and go.        *)
THEOREM ClientIsHandled == Spec => []ClientHasHandler
<1>1. Init => Typed /\ HandlerInv
  <2>1. Init => Typed
    BY TypedInit, StreamsAssumption, WakeAssumption, MindLinkAssumption, LinkAssumption
  <2>2. ASSUME Init
        PROVE  HandlerInv
    <3>1. /\ up = Empty /\ client = NoConn /\ srv = [c \in Conns |-> "none"]
          /\ step = "connect" /\ NoConn \notin Conns
      BY <2>2, StreamsAssumption
         DEF Init, StreamsInit, TransportInit, LinkInit, StreamsAssumption, NoConn
    <3>2. \A c \in Conns : OneHello(up[c]) /\ NoHello(up[c])
      BY <3>1, Nothing DEF Empty
    <3>3. QED  BY <3>1, <3>2 DEF HandlerInv, GreetsOnce, ClientHasHandler
  <2>3. QED  BY <2>1, <2>2
<1>2. Typed /\ HandlerInv /\ [Next]_vars => (Typed /\ HandlerInv)'
  BY TypedNext, HandlersNext,
     StreamsAssumption, WakeAssumption, MindLinkAssumption, LinkAssumption
<1>3. HandlerInv => ClientHasHandler
  BY DEF HandlerInv
<1>4. QED  BY <1>1, <1>2, <1>3, PTL DEF Spec

-----------------------------------------------------------------------------
(* The voice on its way: what the server has of it, what waits for the     *)
(* link and what the sink has not pushed yet, one sequence.  Each item     *)
(* goes on from the one before it, opens a session, or is of a session     *)
(* that is maimed already.                                                 *)
Pipe == wire \o (queue \o outbox)
Free(item, M) == item.kind \in {"wake", "start"} \/ item.session \in M
Linked(p, M) ==
  \A i \in 1..Len(p) : Free(p[i], M) \/ (i > 1 /\ Follows(p[i - 1], p[i]))
Rising(p) ==
  \A j \in 1..Len(p) : p[j].kind = "start" =>
    \A i \in 1..(j - 1) : p[i].session < p[j].session
Known(p) ==
  \A i \in 1..Len(p) : p[i].session <= sessions /\ (wake = "ARMED" => p[i].session < active)
GoesOnFrom(p, M) ==
  wake = "LISTENING" =>
    active \in M \/ (Len(p) > 0 /\ p[Len(p)] = Item("audio", active, chunks))
Hearing ==
  /\ active \in Nat /\ sessions \in Nat /\ chunks \in Nat
  /\ wake \in {"ARMED", "LISTENING"} => active = sessions /\ active > 0
NoWakes == \A i \in 1..Len(wire) : wire[i].kind # "wake"
Closed ==
  /\ step = "connect" =>
       \A i \in 1..Len(wire) :
         wire[i].session \in maimed \/ wire[Len(wire)] = Item("end", wire[i].session, 0)
  /\ step = "hello" => wire = <<>>
VoiceInv ==
  /\ wire \in Seq(Items) /\ queue \in Seq(Items) /\ outbox \in Seq(Items)
  /\ Linked(Pipe, maimed) /\ Rising(Pipe) /\ Known(Pipe) /\ GoesOnFrom(Pipe, maimed)
  /\ Hearing /\ NoWakes /\ Closed

(* What is in the pipe, place by place.                                    *)
Places(p, w, q, o) ==
  /\ Len(p) = Len(w) + Len(q) + Len(o)
  /\ \A i \in 1..Len(p) : i <= Len(w) => p[i] = w[i]
  /\ \A i \in 1..Len(p) : i > Len(w) /\ i <= Len(w) + Len(q) => p[i] = q[i - Len(w)]
  /\ \A i \in 1..Len(p) : i > Len(w) + Len(q) => p[i] = o[i - (Len(w) + Len(q))]

LEMMA PipePlaces ==
  ASSUME NEW S, NEW w \in Seq(S), NEW q \in Seq(S), NEW o \in Seq(S)
  PROVE  w \o (q \o o) \in Seq(S) /\ Places(w \o (q \o o), w, q, o)
<1> DEFINE r == q \o o
           p == w \o r
<1>1. /\ r \in Seq(S) /\ Len(r) = Len(q) + Len(o)
      /\ \A i \in 1..(Len(q) + Len(o)) : r[i] = IF i <= Len(q) THEN q[i] ELSE o[i - Len(q)]
  BY ConcatProperties
<1>1a. r \in Seq(S)  BY <1>1
<1> HIDE DEF r
<1>2. /\ p \in Seq(S) /\ Len(p) = Len(w) + Len(r)
      /\ \A i \in 1..(Len(w) + Len(r)) : p[i] = IF i <= Len(w) THEN w[i] ELSE r[i - Len(w)]
  BY <1>1a, ConcatProperties
<1>3. Len(w) \in Nat /\ Len(q) \in Nat /\ Len(o) \in Nat  BY LenProperties
<1> HIDE DEF p
<1>4. ASSUME NEW i \in 1..Len(p)
      PROVE  /\ i <= Len(w) => p[i] = w[i]
             /\ i > Len(w) /\ i <= Len(w) + Len(q) => p[i] = q[i - Len(w)]
             /\ i > Len(w) + Len(q) => p[i] = o[i - (Len(w) + Len(q))]
  <2>1. p[i] = IF i <= Len(w) THEN w[i] ELSE r[i - Len(w)]  BY <1>1, <1>2, <1>3
  <2>2. i > Len(w) => r[i - Len(w)] = IF i - Len(w) <= Len(q) THEN q[i - Len(w)]
                                      ELSE o[(i - Len(w)) - Len(q)]
    <3> SUFFICES ASSUME i > Len(w)
                 PROVE  r[i - Len(w)] = IF i - Len(w) <= Len(q) THEN q[i - Len(w)]
                                        ELSE o[(i - Len(w)) - Len(q)]
      OBVIOUS
    <3> DEFINE j == i - Len(w)
    <3>1. j \in 1..(Len(q) + Len(o))  BY <1>1, <1>2, <1>3
    <3> HIDE DEF j
    <3>2. r[j] = IF j <= Len(q) THEN q[j] ELSE o[j - Len(q)]  BY <1>1, <3>1
    <3>3. QED  BY <3>2 DEF j
  <2>3. (i - Len(w)) - Len(q) = i - (Len(w) + Len(q))
        /\ (i - Len(w) <= Len(q) <=> i <= Len(w) + Len(q))
    BY <1>3
  <2>4. QED  BY <1>3, <2>1, <2>2, <2>3
<1>5. Len(p) = Len(w) + Len(q) + Len(o)  BY <1>1, <1>2, <1>3
<1>6. QED  BY <1>2, <1>4, <1>5 DEF Places, p, r

LEMMA FirstAndRest ==
  ASSUME NEW S, NEW q \in Seq(S), q # <<>>
  PROVE  /\ Head(q) \in S /\ Tail(q) \in Seq(S) /\ <<Head(q)>> \in Seq(S)
         /\ <<Head(q)>> \o Tail(q) = q
<1> DEFINE h == Head(q)
           tl == Tail(q)
           one == <<h>>
           s == one \o tl
<1>1. /\ h \in S /\ tl \in Seq(S) /\ Len(tl) = Len(q) - 1 /\ h = q[1]
      /\ \A i \in 1..Len(tl) : tl[i] = q[i + 1]
  BY HeadTailProperties
<1>2. one \in Seq(S) /\ Len(one) = 1 /\ one[1] = h  BY <1>1
<1>3. Len(q) \in Nat /\ Len(q) > 0  BY EmptySeq, LenProperties
<1>4. tl \in Seq(S) /\ one \in Seq(S)  BY <1>1, <1>2
<1> HIDE DEF tl, one
<1>5. /\ s \in Seq(S) /\ Len(s) = Len(one) + Len(tl)
      /\ \A i \in 1..(Len(one) + Len(tl)) :
           s[i] = IF i <= Len(one) THEN one[i] ELSE tl[i - Len(one)]
  BY <1>4, ConcatProperties
<1> HIDE DEF s, h
<1>6. Len(s) = Len(q)  BY <1>1, <1>2, <1>3, <1>5
<1>7. ASSUME NEW i \in 1..Len(s) PROVE s[i] = q[i]
  <2>1. CASE i = 1  BY <1>1, <1>2, <1>3, <1>5, <1>6, <2>1
  <2>2. CASE i > 1
    <3>1. i - 1 \in 1..Len(tl) /\ (i - 1) + 1 = i  BY <1>1, <1>3, <1>6, <2>2
    <3>2. s[i] = tl[i - 1]  BY <1>1, <1>2, <1>3, <1>5, <1>6, <2>2
    <3>3. tl[i - 1] = q[(i - 1) + 1]  BY <1>1, <3>1
    <3>4. QED  BY <3>1, <3>2, <3>3
  <2>3. QED  BY <1>3, <1>6, <2>1, <2>2
<1>8. s = q  BY <1>5, <1>6, <1>7, SeqEqual
<1>9. QED  BY <1>1, <1>2, <1>8 DEF s, one, tl, h

LEMMA Regroup ==
  ASSUME NEW S, NEW h \in S, NEW a \in Seq(S), NEW b \in Seq(S)
  PROVE  (<<h>> \o a) \o b = <<h>> \o (a \o b)
<1>1. ASSUME NEW one \in Seq(S) PROVE (one \o a) \o b = one \o (a \o b)
  BY ConcatAssociative
<1>2. <<h>> \in Seq(S)  OBVIOUS
<1>3. QED  BY <1>1, <1>2, Zenon

LEMMA Joined ==
  ASSUME NEW S, NEW a \in Seq(S), NEW h \in S, NEW b \in Seq(S)
  PROVE  Append(a, h) \o b = a \o (<<h>> \o b)
<1>1. ASSUME NEW one \in Seq(S) PROVE (a \o one) \o b = a \o (one \o b)
  BY ConcatAssociative
<1>2. <<h>> \in Seq(S)  OBVIOUS
<1>3. Append(a, h) = a \o <<h>>  BY AppendIsConcat
<1>4. (a \o <<h>>) \o b = a \o (<<h>> \o b)  BY <1>1, <1>2, Zenon
<1>5. QED  BY <1>3, <1>4, Zenon

(* An item that moves on inside it changes nothing.                        *)
LEMMA MovesUp ==
  ASSUME NEW S, NEW w \in Seq(S), NEW q \in Seq(S), NEW o \in Seq(S)
  PROVE  /\ o # <<>> => Append(q, Head(o)) \o Tail(o) = q \o o
         /\ q # <<>> => Append(w, Head(q)) \o (Tail(q) \o o) = w \o (q \o o)
         /\ q # <<>> => <<Head(q)>> \o (Tail(q) \o o) = q \o o
<1>1. ASSUME NEW a \in Seq(S), NEW b \in Seq(S), b # <<>>
      PROVE  Append(a, Head(b)) \o Tail(b) = a \o b
  <2>1. Head(b) \in S /\ Tail(b) \in Seq(S) /\ <<Head(b)>> \o Tail(b) = b
    BY <1>1, FirstAndRest
  <2>2. Head(b) \in S /\ Tail(b) \in Seq(S)  BY <2>1
  <2>3. \A h \in S, t \in Seq(S) : Append(a, h) \o t = a \o (<<h>> \o t)  BY Joined
  <2>4. Append(a, Head(b)) \o Tail(b) = a \o (<<Head(b)>> \o Tail(b))
    BY <2>2, <2>3, Zenon
  <2>5. QED  BY <2>1, <2>4, Zenon
<1>2. ASSUME q # <<>>
      PROVE  /\ Append(w, Head(q)) \o (Tail(q) \o o) = w \o (q \o o)
             /\ <<Head(q)>> \o (Tail(q) \o o) = q \o o
  <2> DEFINE h == Head(q)
             tl == Tail(q)
             t == tl \o o
  <2>1. h \in S /\ tl \in Seq(S) /\ <<h>> \in Seq(S) /\ <<h>> \o tl = q
    BY <1>2, FirstAndRest
  <2> HIDE DEF h, tl
  <2>2. t \in Seq(S)  BY <2>1, ConcatProperties
  <2>3. <<h>> \o t = q \o o
    <3>1. (<<h>> \o tl) \o o = <<h>> \o (tl \o o)  BY <2>1, Regroup
    <3>2. QED  BY <2>1, <3>1, Zenon DEF t
  <2> HIDE DEF t
  <2>4. Append(w, h) \o t = w \o (<<h>> \o t)
    <3>1. \A g \in S, r \in Seq(S) : Append(w, g) \o r = w \o (<<g>> \o r)  BY Joined
    <3>2. QED  BY <2>1, <2>2, <3>1, Zenon
  <2>5. QED  BY <2>3, <2>4, Zenon DEF t, tl, h
<1>3. QED  BY <1>1, <1>2

(* One item less, at one place; or none of the first.                      *)
Skips(p, s, k) ==
  /\ Len(p) = Len(s) + 1 /\ k \in 0..Len(s)
  /\ \A i \in 1..Len(s) : i <= k => s[i] = p[i]
  /\ \A i \in 1..Len(s) : i > k => s[i] = p[i + 1]
StartsAt(p, s, k) ==
  Len(p) = Len(s) + k /\ k \in Nat /\ \A i \in 1..Len(s) : s[i] = p[i + k]

LEMMA Shorter ==
  ASSUME NEW S, NEW a \in Seq(S), NEW h \in S, NEW b \in Seq(S)
  PROVE  Skips(a \o (<<h>> \o b), a \o b, Len(a)) /\ (a \o (<<h>> \o b))[Len(a) + 1] = h
<1> DEFINE one == <<h>>
           p == a \o (one \o b)
           s == a \o b
<1>1. one \in Seq(S) /\ Len(one) = 1 /\ one[1] = h  OBVIOUS
<1>2. one \in Seq(S)  BY <1>1
<1>3. Len(a) \in Nat /\ Len(b) \in Nat  BY LenProperties
<1> HIDE DEF one
<1>4. p \in Seq(S) /\ Places(p, a, one, b)  BY <1>2, PipePlaces
<1>5. /\ s \in Seq(S) /\ Len(s) = Len(a) + Len(b)
      /\ \A i \in 1..(Len(a) + Len(b)) : s[i] = IF i <= Len(a) THEN a[i] ELSE b[i - Len(a)]
  BY ConcatProperties
<1> HIDE DEF p, s
<1>6. Len(p) = Len(s) + 1  BY <1>1, <1>3, <1>4, <1>5 DEF Places
<1>7. p[Len(a) + 1] = h
  <2>1. /\ Len(a) + 1 \in 1..Len(p) /\ (Len(a) + 1) - Len(a) = 1
        /\ Len(a) + 1 > Len(a) /\ Len(a) + 1 <= Len(a) + Len(one)
    BY <1>1, <1>3, <1>5, <1>6
  <2>2. p[Len(a) + 1] = one[(Len(a) + 1) - Len(a)]
    BY <1>4, <2>1, Zenon DEF Places
  <2>3. QED  BY <1>1, <2>1, <2>2
<1>8. ASSUME NEW i \in 1..Len(s), i <= Len(a) PROVE s[i] = p[i]
  <2>0. i \in 1..(Len(a) + Len(b)) /\ i <= Len(a)  BY <1>3, <1>5, <1>8
  <2>1. s[i] = a[i]  BY <1>5, <2>0, Zenon
  <2>2. i \in 1..Len(p)  BY <1>3, <1>5, <1>6
  <2>3. p[i] = a[i]  BY <1>4, <1>8, <2>2 DEF Places
  <2>4. QED  BY <2>1, <2>3
<1>9. ASSUME NEW i \in 1..Len(s), i > Len(a) PROVE s[i] = p[i + 1]
  <2>0. i \in 1..(Len(a) + Len(b)) /\ ~(i <= Len(a))  BY <1>3, <1>5, <1>9
  <2>1. s[i] = b[i - Len(a)]  BY <1>5, <2>0, Zenon
  <2>2. i + 1 \in 1..Len(p) /\ i + 1 > Len(a) + Len(one)  BY <1>1, <1>3, <1>5, <1>6, <1>9
  <2>3. p[i + 1] = b[(i + 1) - (Len(a) + Len(one))]  BY <1>4, <2>2 DEF Places
  <2>4. (i + 1) - (Len(a) + Len(one)) = i - Len(a)  BY <1>1, <1>3
  <2>5. QED  BY <2>1, <2>3, <2>4
<1>10. Skips(p, s, Len(a))  BY <1>3, <1>5, <1>6, <1>8, <1>9 DEF Skips
<1>11. QED  BY <1>7, <1>10 DEF p, s, one

LEMMA LosesAll ==
  ASSUME NEW S, NEW w \in Seq(S), NEW r \in Seq(S)
  PROVE  StartsAt(w \o r, r, Len(w))
<1> DEFINE p == w \o r
<1>1. Len(w) \in Nat /\ Len(r) \in Nat  BY LenProperties
<1>2. /\ Len(p) = Len(w) + Len(r)
      /\ \A i \in 1..(Len(w) + Len(r)) : p[i] = IF i <= Len(w) THEN w[i] ELSE r[i - Len(w)]
  BY ConcatProperties
<1> HIDE DEF p
<1>3. ASSUME NEW i \in 1..Len(r) PROVE r[i] = p[i + Len(w)]
  <2>1. i + Len(w) \in 1..(Len(w) + Len(r)) /\ (i + Len(w)) - Len(w) = i /\ ~(i + Len(w) <= Len(w))
    BY <1>1
  <2>2. QED  BY <1>2, <2>1
<1>4. QED  BY <1>1, <1>2, <1>3 DEF StartsAt, p

(* What may be lost: an item whose session is maimed by it, or a wake.     *)
Sound(p, M) == Linked(p, M) /\ Rising(p) /\ Known(p) /\ GoesOnFrom(p, M)

LEMMA ItemFields ==
  ASSUME NEW item \in Items
  PROVE  item.session \in Nat /\ item.n \in Nat
         /\ item.kind \in {"wake", "start", "audio", "end"}
BY DEF Items

LEMMA LossIsSound ==
  ASSUME NEW p \in Seq(Items), NEW s \in Seq(Items), NEW k \in Nat,
         NEW M, NEW N, M \subseteq N, Skips(p, s, k), Sound(p, M),
         p[k + 1].kind = "wake" \/ p[k + 1].session \in N
  PROVE  Sound(s, N)
<1>1. Len(p) \in Nat /\ Len(s) \in Nat /\ Len(p) = Len(s) + 1 /\ k <= Len(s)
  BY LenProperties DEF Skips
<1>2. ASSUME NEW i \in 1..Len(s)
      PROVE  /\ i <= k => s[i] = p[i] /\ i \in 1..Len(p)
             /\ i > k => s[i] = p[i + 1] /\ i + 1 \in 1..Len(p)
  BY <1>1 DEF Skips
<1>3. Linked(s, N)
  <2> SUFFICES ASSUME NEW i \in 1..Len(s), ~Free(s[i], N)
               PROVE  i > 1 /\ Follows(s[i - 1], s[i])
    BY DEF Linked
  <2>0. ASSUME NEW j \in 1..Len(p), p[j] = s[i] PROVE j > 1 /\ Follows(p[j - 1], p[j])
    <3>1. ~Free(p[j], M)  BY <2>0 DEF Free
    <3>2. QED  BY <3>1 DEF Sound, Linked
  <2>1. CASE i <= k
    <3>1. i > 1 /\ Follows(p[i - 1], p[i]) /\ s[i] = p[i]  BY <1>2, <2>0, <2>1
    <3>2. i - 1 \in 1..Len(s) /\ i - 1 <= k  BY <2>1, <3>1
    <3>3. s[i - 1] = p[i - 1]  BY <1>2, <3>2
    <3>4. QED  BY <3>1, <3>3
  <2>2. CASE i > k + 1
    <3>0. i > k  BY <1>1, <2>2
    <3>1. i + 1 \in 1..Len(p) /\ p[i + 1] = s[i]  BY <1>2, <3>0
    <3>2. Follows(p[(i + 1) - 1], s[i])  BY <2>0, <3>1
    <3>3. i - 1 \in 1..Len(s) /\ i - 1 > k /\ (i - 1) + 1 = (i + 1) - 1  BY <1>1, <2>2
    <3>4. s[i - 1] = p[(i - 1) + 1]  BY <1>2, <3>3
    <3>5. QED  BY <1>1, <2>2, <3>2, <3>3, <3>4
  <2>3. CASE i = k + 1
    <3>0. i > k /\ (i + 1) - 1 = k + 1  BY <1>1, <2>3
    <3>1. i + 1 \in 1..Len(p) /\ p[i + 1] = s[i] /\ (i + 1) - 1 = k + 1  BY <1>2, <3>0
    <3>2. Follows(p[k + 1], s[i])  BY <2>0, <3>1
    <3>3. p[k + 1].kind # "wake" /\ p[k + 1].session = s[i].session  BY <3>2 DEF Follows
    <3>4. Free(s[i], N)  BY <3>3 DEF Free
    <3>5. QED  BY <3>4
  <2>4. QED  BY <1>1, <2>1, <2>2, <2>3
<1>4. Rising(s)
  <2> SUFFICES ASSUME NEW j \in 1..Len(s), s[j].kind = "start", NEW i \in 1..(j - 1)
               PROVE  s[i].session < s[j].session
    BY DEF Rising
  <2>0. \A a \in 1..Len(p) : p[a].kind = "start" =>
          \A b \in 1..(a - 1) : p[b].session < p[a].session
    BY DEF Sound, Rising
  <2>1. i \in 1..Len(s)  BY <1>1
  <2>2. CASE j <= k
    <3>1. s[j] = p[j] /\ s[i] = p[i] /\ j \in 1..Len(p)  BY <1>2, <2>1, <2>2
    <3>2. QED  BY <2>0, <3>1
  <2>3. CASE j > k /\ i <= k
    <3>1. s[j] = p[j + 1] /\ s[i] = p[i] /\ j + 1 \in 1..Len(p) /\ i \in 1..((j + 1) - 1)
      BY <1>2, <2>1, <2>3
    <3>2. QED  BY <2>0, <3>1
  <2>4. CASE j > k /\ i > k
    <3>1. s[j] = p[j + 1] /\ s[i] = p[i + 1] /\ j + 1 \in 1..Len(p) /\ i + 1 \in 1..((j + 1) - 1)
      BY <1>2, <2>1, <2>4
    <3>2. QED  BY <2>0, <3>1
  <2>5. QED  BY <1>1, <2>1, <2>2, <2>3, <2>4
<1>5. Known(s)
  <2> SUFFICES ASSUME NEW i \in 1..Len(s)
               PROVE  s[i].session <= sessions /\ (wake = "ARMED" => s[i].session < active)
    BY DEF Known
  <2>1. \E j \in 1..Len(p) : s[i] = p[j]  BY <1>1, <1>2
  <2>2. QED  BY <2>1 DEF Sound, Known
<1>6. GoesOnFrom(s, N)
  <2> SUFFICES ASSUME wake = "LISTENING", active \notin N
               PROVE  Len(s) > 0 /\ s[Len(s)] = Item("audio", active, chunks)
    BY DEF GoesOnFrom
  <2>1. Len(p) > 0 /\ p[Len(p)] = Item("audio", active, chunks)  BY DEF Sound, GoesOnFrom
  <2>2. CASE k = Len(s)
    <3>1. p[k + 1] = Item("audio", active, chunks)  BY <1>1, <2>1, <2>2
    <3>2. p[k + 1].kind = "audio" /\ p[k + 1].session = active  BY <3>1 DEF Item
    <3>3. QED  BY <3>2
  <2>3. CASE k < Len(s)
    <3>1. Len(s) \in 1..Len(s) /\ Len(s) > k  BY <1>1, <2>3
    <3>2. s[Len(s)] = p[Len(s) + 1]  BY <1>2, <3>1
    <3>3. QED  BY <1>1, <2>1, <3>1, <3>2
  <2>4. QED  BY <1>1, <2>2, <2>3
<1>7. QED  BY <1>3, <1>4, <1>5, <1>6 DEF Sound

(* A connection starts where the last item before it, if a session went on *)
(* from it, is of a session that is maimed.                                *)
LEMMA FreshStartIsSound ==
  ASSUME NEW p \in Seq(Items), NEW s \in Seq(Items), NEW k \in Nat, NEW M,
         StartsAt(p, s, k), Sound(p, M),
         k > 0 => p[k].session \in M \/ p[k].kind = "end"
  PROVE  Sound(s, M)
<1>1. Len(p) \in Nat /\ Len(s) \in Nat /\ Len(p) = Len(s) + k
  BY LenProperties DEF StartsAt
<1>2. ASSUME NEW i \in 1..Len(s) PROVE s[i] = p[i + k] /\ i + k \in 1..Len(p)
  BY <1>1 DEF StartsAt
<1>3. Linked(s, M)
  <2> SUFFICES ASSUME NEW i \in 1..Len(s), ~Free(s[i], M)
               PROVE  i > 1 /\ Follows(s[i - 1], s[i])
    BY DEF Linked
  <2>1. s[i] = p[i + k] /\ i + k \in 1..Len(p)  BY <1>2
  <2>2. i + k > 1 /\ Follows(p[(i + k) - 1], s[i])
    BY <2>1 DEF Sound, Linked
  <2>3. CASE i = 1
    <3>1. k > 0 /\ (i + k) - 1 = k  BY <2>2, <2>3
    <3>2. Follows(p[k], s[i])  BY <2>2, <3>1
    <3>3. p[k].kind # "end" /\ p[k].session = s[i].session  BY <3>2 DEF Follows
    <3>4. Free(s[i], M)  BY <3>1, <3>3 DEF Free
    <3>5. QED  BY <3>4
  <2>4. CASE i > 1
    <3>1. i - 1 \in 1..Len(s) /\ (i - 1) + k = (i + k) - 1  BY <1>1, <2>4
    <3>2. s[i - 1] = p[(i - 1) + k]  BY <1>2, <3>1
    <3>3. QED  BY <2>2, <2>4, <3>1, <3>2
  <2>5. QED  BY <1>1, <2>3, <2>4
<1>4. Rising(s)
  <2> SUFFICES ASSUME NEW j \in 1..Len(s), s[j].kind = "start", NEW i \in 1..(j - 1)
               PROVE  s[i].session < s[j].session
    BY DEF Rising
  <2>1. \A a \in 1..Len(p) : p[a].kind = "start" =>
          \A b \in 1..(a - 1) : p[b].session < p[a].session
    BY DEF Sound, Rising
  <2>2. i \in 1..Len(s) /\ i + k \in 1..((j + k) - 1)  BY <1>1
  <2>3. s[j] = p[j + k] /\ s[i] = p[i + k] /\ j + k \in 1..Len(p)  BY <1>2, <2>2
  <2>4. QED  BY <2>1, <2>2, <2>3
<1>5. Known(s)
  <2> SUFFICES ASSUME NEW i \in 1..Len(s)
               PROVE  s[i].session <= sessions /\ (wake = "ARMED" => s[i].session < active)
    BY DEF Known
  <2>1. s[i] = p[i + k] /\ i + k \in 1..Len(p)  BY <1>2
  <2>2. QED  BY <2>1 DEF Sound, Known
<1>6. GoesOnFrom(s, M)
  <2> SUFFICES ASSUME wake = "LISTENING", active \notin M
               PROVE  Len(s) > 0 /\ s[Len(s)] = Item("audio", active, chunks)
    BY DEF GoesOnFrom
  <2>1. Len(p) > 0 /\ p[Len(p)] = Item("audio", active, chunks)  BY DEF Sound, GoesOnFrom
  <2>2. CASE Len(s) = 0
    <3>1. k > 0 /\ p[k] = Item("audio", active, chunks)  BY <1>1, <2>1, <2>2
    <3>2. p[k].kind = "audio" /\ p[k].session = active  BY <3>1 DEF Item
    <3>3. QED  BY <3>1, <3>2
  <2>3. CASE Len(s) > 0
    <3>1. Len(s) \in 1..Len(s)  BY <1>1, <2>3
    <3>2. s[Len(s)] = p[Len(s) + k]  BY <1>2, <3>1
    <3>3. QED  BY <1>1, <2>1, <2>3, <3>2
  <2>4. QED  BY <1>1, <2>2, <2>3
<1>7. QED  BY <1>3, <1>4, <1>5, <1>6 DEF Sound

(* More items maimed leaves it sound.                                      *)
LEMMA MoreMaimed ==
  ASSUME NEW p, NEW M, NEW N, M \subseteq N, Sound(p, M)
  PROVE  Sound(p, N)
BY DEF Sound, Linked, Free, GoesOnFrom

(* One item more, behind the rest.                                         *)
LEMMA MoreIsLinked ==
  ASSUME NEW p \in Seq(Items), NEW item \in Items, NEW M, Linked(p, M), Rising(p),
         Free(item, M) \/ (Len(p) > 0 /\ Follows(p[Len(p)], item)),
         item.kind = "start" => \A i \in 1..Len(p) : p[i].session < item.session
  PROVE  /\ Append(p, item) \in Seq(Items) /\ Len(Append(p, item)) = Len(p) + 1
         /\ Append(p, item)[Len(p) + 1] = item
         /\ \A i \in 1..Len(p) : Append(p, item)[i] = p[i]
         /\ Linked(Append(p, item), M) /\ Rising(Append(p, item))
<1> DEFINE s == Append(p, item)
<1>1. /\ s \in Seq(Items) /\ Len(s) = Len(p) + 1 /\ s[Len(p) + 1] = item
      /\ \A i \in 1..Len(p) : s[i] = p[i]
  BY AppendProperties
<1>2. Len(p) \in Nat  BY LenProperties
<1> HIDE DEF s
<1>3. Linked(s, M)
  <2> SUFFICES ASSUME NEW i \in 1..Len(s)
               PROVE  Free(s[i], M) \/ (i > 1 /\ Follows(s[i - 1], s[i]))
    BY DEF Linked
  <2>1. CASE i <= Len(p)
    <3>1. i \in 1..Len(p)  BY <1>1, <1>2, <2>1
    <3>2. Free(p[i], M) \/ (i > 1 /\ Follows(p[i - 1], p[i]))  BY <3>1 DEF Linked
    <3>3. i > 1 => i - 1 \in 1..Len(p)  BY <3>1, <1>2
    <3>4. s[i] = p[i] /\ (i > 1 => s[i - 1] = p[i - 1])  BY <1>1, <3>1, <3>3
    <3>5. QED  BY <3>2, <3>4
  <2>2. CASE i = Len(p) + 1
    <3>1. s[i] = item /\ i - 1 = Len(p)  BY <1>1, <1>2, <2>2
    <3>2. Len(p) > 0 => s[i - 1] = p[Len(p)]  BY <1>1, <1>2, <3>1
    <3>3. Len(p) > 0 => i > 1  BY <1>2, <2>2
    <3>4. QED  BY <3>1, <3>2, <3>3
  <2>3. QED  BY <1>1, <1>2, <2>1, <2>2
<1>4. Rising(s)
  <2> SUFFICES ASSUME NEW j \in 1..Len(s), s[j].kind = "start", NEW i \in 1..(j - 1)
               PROVE  s[i].session < s[j].session
    BY DEF Rising
  <2>1. i \in 1..Len(p)  BY <1>1, <1>2
  <2>2. s[i] = p[i]  BY <1>1, <2>1
  <2>3. CASE j <= Len(p)
    <3>1. j \in 1..Len(p)  BY <1>1, <1>2, <2>3
    <3>2. s[j] = p[j]  BY <1>1, <3>1
    <3>3. QED  BY <2>2, <3>1, <3>2 DEF Rising
  <2>4. CASE j = Len(p) + 1
    <3>1. s[j] = item  BY <1>1, <2>4
    <3>2. QED  BY <2>1, <2>2, <3>1
  <2>5. QED  BY <1>1, <1>2, <2>3, <2>4
<1>5. QED  BY <1>1, <1>3, <1>4 DEF s

-----------------------------------------------------------------------------
(* The link's steps.                                                       *)
LEMMA CarriesOver ==
  ASSUME Sound(Pipe', maimed'), UNCHANGED <<wake, active, chunks, sessions>>
  PROVE  (Sound(Pipe, maimed))'
BY DEF Sound, Linked, Rising, Known, GoesOnFrom, Free, Follows, Item

LEMMA VoiceParts ==
  VoiceInv <=> /\ wire \in Seq(Items) /\ queue \in Seq(Items) /\ outbox \in Seq(Items)
               /\ Sound(Pipe, maimed) /\ Hearing /\ NoWakes /\ Closed
BY DEF VoiceInv, Sound

LEMMA VoiceRests ==
  ASSUME VoiceInv,
         UNCHANGED <<wire, queue, maimed, wake, active, chunks, sessions, outbox>>,
         step' = "connect" => step \in {"connect", "hello"}, step' = "hello" => step = "hello"
  PROVE  VoiceInv'
<1>1. Sound(Pipe, maimed) /\ Hearing /\ NoWakes /\ Closed
      /\ wire \in Seq(Items) /\ queue \in Seq(Items) /\ outbox \in Seq(Items)
  BY VoiceParts
<1>2. Pipe' = Pipe  BY DEF Pipe
<1>3. Sound(Pipe', maimed')  BY <1>1, <1>2
<1>4. (Sound(Pipe, maimed))'  BY <1>3, CarriesOver
<1>5. Hearing' /\ NoWakes'  BY <1>1 DEF Hearing, NoWakes
<1>6. Closed'
  <2>1. CASE step' = "hello"  BY <1>1, <2>1 DEF Closed
  <2>2. CASE step' = "connect" /\ step = "connect"  BY <1>1, <2>2 DEF Closed
  <2>3. CASE step' = "connect" /\ step = "hello"
    <3>1. wire' = <<>>  BY <1>1, <2>3 DEF Closed
    <3>2. 1..Len(wire') = {}  BY <3>1
    <3>3. QED  BY <2>3, <3>2 DEF Closed
  <2>4. CASE step' \notin {"connect", "hello"}  BY <2>4 DEF Closed
  <2>5. QED  BY <2>1, <2>2, <2>3, <2>4
<1>7. QED  BY <1>1, <1>4, <1>5, <1>6 DEF VoiceInv, Sound

(* The last of the wire is where the rest of the pipe goes on.             *)
LEMMA WireEnds ==
  ASSUME wire \in Seq(Items), queue \in Seq(Items), outbox \in Seq(Items), Len(wire) > 0
  PROVE  Pipe[Len(wire)] = wire[Len(wire)]
<1>1. queue \o outbox \in Seq(Items)  BY ConcatProperties
<1> DEFINE r == queue \o outbox
<1> HIDE DEF r
<1>2. Len(r) \in Nat /\ Len(wire) \in Nat  BY <1>1, LenProperties DEF r
<1>3. \A i \in 1..(Len(wire) + Len(r)) :
        (wire \o r)[i] = IF i <= Len(wire) THEN wire[i] ELSE r[i - Len(wire)]
  BY <1>1, ConcatProperties DEF r
<1>4. Len(wire) \in 1..(Len(wire) + Len(r))  BY <1>2
<1>5. (wire \o r)[Len(wire)] = wire[Len(wire)]  BY <1>2, <1>3, <1>4
<1>6. QED  BY <1>5 DEF Pipe, r

LEMMA FreshPipe ==
  ASSUME VoiceInv,
         Len(wire) > 0 => \/ wire[Len(wire)].session \in maimed
                          \/ wire[Len(wire)].kind = "end"
  PROVE  queue \o outbox \in Seq(Items) /\ Sound(queue \o outbox, maimed)
<1>1. wire \in Seq(Items) /\ queue \in Seq(Items) /\ outbox \in Seq(Items) /\ Sound(Pipe, maimed)
  BY VoiceParts
<1>2. queue \o outbox \in Seq(Items)  BY <1>1, ConcatProperties
<1> DEFINE r == queue \o outbox
<1>3. r \in Seq(Items) /\ Pipe = wire \o r  BY <1>2 DEF Pipe
<1>4. Len(wire) > 0 => Pipe[Len(wire)] = wire[Len(wire)]  BY <1>1, WireEnds
<1> HIDE DEF r
<1>5. StartsAt(wire \o r, r, Len(wire))  BY <1>1, <1>3, LosesAll
<1>6. wire \o r \in Seq(Items) /\ Len(wire) \in Nat  BY <1>1, <1>3, ConcatProperties, LenProperties
<1>7. Sound(r, maimed)
  <2>1. Pipe \in Seq(Items) /\ StartsAt(Pipe, r, Len(wire))  BY <1>3, <1>5, <1>6
  <2>2. Len(wire) > 0 => Pipe[Len(wire)].session \in maimed \/ Pipe[Len(wire)].kind = "end"
    BY <1>4
  <2>3. QED  BY <1>1, <1>3, <1>6, <2>1, <2>2, FreshStartIsSound
<1>8. QED  BY <1>2, <1>7 DEF r

LEMMA ConnectKeepsVoice ==
  ASSUME VoiceInv, NEW c \in Conns, Connect(c), UNCHANGED wvars
  PROVE  VoiceInv'
<1>1. /\ step = "connect" /\ step' = "hello" /\ wire' = <<>>
      /\ UNCHANGED <<queue, maimed, wake, active, chunks, sessions, outbox>>
  BY DEF Connect, Goes, wvars
<1>2. Hearing /\ Closed /\ wire \in Seq(Items) /\ queue \in Seq(Items) /\ outbox \in Seq(Items)
  BY VoiceParts
<1>3. Len(wire) > 0 => wire[Len(wire)].session \in maimed \/ wire[Len(wire)].kind = "end"
  <2> SUFFICES ASSUME Len(wire) > 0
               PROVE  wire[Len(wire)].session \in maimed \/ wire[Len(wire)].kind = "end"
    OBVIOUS
  <2>1. Len(wire) \in 1..Len(wire)  BY <1>2, LenProperties
  <2>2. wire[Len(wire)].session \in maimed
        \/ wire[Len(wire)] = Item("end", wire[Len(wire)].session, 0)
    BY <1>1, <1>2, <2>1 DEF Closed
  <2>3. QED  BY <2>2 DEF Item
<1>4. queue \o outbox \in Seq(Items) /\ Sound(queue \o outbox, maimed)  BY <1>3, FreshPipe
<1>5. Pipe' = queue \o outbox
  <2> DEFINE r == queue \o outbox
  <2>1. r \in Seq(Items)  BY <1>4
  <2>2. Pipe' = <<>> \o r  BY <1>1 DEF Pipe
  <2> HIDE DEF r
  <2>3. <<>> \o r = r  BY <2>1, ConcatEmptySeq
  <2>4. QED  BY <2>2, <2>3 DEF r
<1>6. (Sound(Pipe, maimed))'  BY <1>1, <1>4, <1>5, CarriesOver
<1>7. wire' \in Seq(Items) /\ queue' \in Seq(Items) /\ outbox' \in Seq(Items)  BY <1>1, <1>2
<1>8. Hearing' /\ Closed'  BY <1>1, <1>2 DEF Hearing, Closed
<1>9. NoWakes'  BY <1>1 DEF NoWakes
<1>10. QED  BY <1>6, <1>7, <1>8, <1>9 DEF VoiceInv, Sound

LEMMA CloseKeepsVoice ==
  ASSUME VoiceInv, Close, UNCHANGED wvars
  PROVE  VoiceInv'
<1>1. /\ step' = "connect" /\ maimed' = maimed \cup Cut
      /\ UNCHANGED <<wire, queue, wake, active, chunks, sessions, outbox>>
  BY DEF Close, Goes, wvars
<1>2. /\ Sound(Pipe, maimed) /\ Hearing /\ NoWakes
      /\ wire \in Seq(Items) /\ queue \in Seq(Items) /\ outbox \in Seq(Items)
  BY VoiceParts
<1>3. Pipe' = Pipe /\ maimed \subseteq maimed'  BY <1>1 DEF Pipe
<1>4. Sound(Pipe', maimed')
  <2>1. Sound(Pipe, maimed')  BY <1>2, <1>3, MoreMaimed
  <2>2. QED  BY <1>3, <2>1
<1>5. (Sound(Pipe, maimed))'  BY <1>1, <1>4, CarriesOver
<1>6. Hearing' /\ NoWakes'  BY <1>1, <1>2 DEF Hearing, NoWakes
<1>7. Closed'
  <2>1. ASSUME NEW i \in 1..Len(wire), wire[i].session \notin maimed'
        PROVE  wire[Len(wire)] = Item("end", wire[i].session, 0)
    BY <1>1, <2>1 DEF Cut, Begun
  <2>2. QED  BY <1>1, <2>1 DEF Closed, Item
<1>8. QED  BY <1>1, <1>2, <1>5, <1>6, <1>7 DEF VoiceInv, Sound

LEMMA LosesPushed ==
  ASSUME wire \in Seq(Items), queue \in Seq(Items), outbox \in Seq(Items), outbox # <<>>
  PROVE  \E k \in Nat : /\ Skips(Pipe, wire \o (queue \o Tail(outbox)), k)
                        /\ Pipe[k + 1] = Head(outbox)
<1> DEFINE h == Head(outbox)
           tl == Tail(outbox)
           one == <<h>>
           a == wire \o queue
<1>1. h \in Items /\ tl \in Seq(Items) /\ one \in Seq(Items) /\ one \o tl = outbox
  BY FirstAndRest
<1>2. h \in Items /\ tl \in Seq(Items)  BY <1>1
<1>3. a \in Seq(Items) /\ Len(a) \in Nat  BY ConcatProperties, LenProperties
<1>4. a \o outbox = wire \o (queue \o outbox)  BY ConcatAssociative
<1> HIDE DEF h, tl
<1>5. a \o tl = wire \o (queue \o tl)  BY <1>2, ConcatAssociative
<1> HIDE DEF a
<1>6. Skips(a \o (<<h>> \o tl), a \o tl, Len(a)) /\ (a \o (<<h>> \o tl))[Len(a) + 1] = h
  BY <1>2, <1>3, Shorter
<1>7. QED  BY <1>1, <1>3, <1>4, <1>5, <1>6 DEF h, tl, Pipe

LEMMA LosesPopped ==
  ASSUME wire \in Seq(Items), queue \in Seq(Items), outbox \in Seq(Items), queue # <<>>
  PROVE  \E k \in Nat : /\ Skips(Pipe, wire \o (Tail(queue) \o outbox), k)
                        /\ Pipe[k + 1] = Head(queue)
<1> DEFINE h == Head(queue)
           tl == Tail(queue)
           b == tl \o outbox
<1>1. h \in Items /\ tl \in Seq(Items)  BY FirstAndRest
<1>2. <<h>> \o (tl \o outbox) = queue \o outbox  BY MovesUp
<1> HIDE DEF h, tl
<1>3. b \in Seq(Items)  BY <1>1, ConcatProperties
<1>4. Len(wire) \in Nat  BY LenProperties
<1> HIDE DEF b
<1>5. Skips(wire \o (<<h>> \o b), wire \o b, Len(wire)) /\ (wire \o (<<h>> \o b))[Len(wire) + 1] = h
  BY <1>1, <1>3, Shorter
<1>6. QED  BY <1>2, <1>4, <1>5 DEF b, h, tl, Pipe

LEMMA SendKeepsVoice ==
  ASSUME VoiceInv, SendVoice, UNCHANGED wvars
  PROVE  VoiceInv'
<1> DEFINE h == Head(queue)
<1>1. /\ queue # <<>> /\ queue' = Tail(queue)
      /\ UNCHANGED <<wake, active, chunks, sessions, outbox>>
      /\ \/ step' = "voice" /\ wire' = OnWire(h) /\ maimed' = maimed
         \/ step' = "close" /\ wire' = wire /\ maimed' = maimed \cup {h.session}
  BY DEF SendVoice, Goes, Dies, wvars
<1>2. /\ Sound(Pipe, maimed) /\ Hearing /\ NoWakes
      /\ wire \in Seq(Items) /\ queue \in Seq(Items) /\ outbox \in Seq(Items)
  BY VoiceParts
<1>3. h \in Items /\ queue' \in Seq(Items)  BY <1>1, <1>2, HeadTailProperties
<1>4. Hearing' /\ Closed'  BY <1>1, <1>2 DEF Hearing, Closed
<1>5. Pipe \in Seq(Items)  BY <1>2, PipePlaces DEF Pipe
<1>6. SUFFICES wire' \in Seq(Items) /\ NoWakes' /\ Sound(Pipe', maimed')
  <2>1. (Sound(Pipe, maimed))'  BY <1>1, <1>6, CarriesOver
  <2>2. QED  BY <1>1, <1>2, <1>3, <1>4, <1>6, <2>1 DEF VoiceInv, Sound
<1>7. ASSUME wire' = wire, maimed \subseteq maimed', h.kind = "wake" \/ h.session \in maimed'
      PROVE  wire' \in Seq(Items) /\ NoWakes' /\ Sound(Pipe', maimed')
  <2>1. wire' \in Seq(Items) /\ NoWakes'  BY <1>2, <1>7 DEF NoWakes
  <2>2. Pipe' = wire \o (Tail(queue) \o outbox)  BY <1>1, <1>7 DEF Pipe
  <2>3. PICK k \in Nat : /\ Skips(Pipe, wire \o (Tail(queue) \o outbox), k)
                         /\ Pipe[k + 1] = Head(queue)
    BY <1>1, <1>2, LosesPopped
  <2>4. Skips(Pipe, Pipe', k) /\ Pipe[k + 1] = h  BY <2>2, <2>3
  <2>5. Pipe' \in Seq(Items)
    <3>1. Tail(queue) \in Seq(Items)  BY <1>1, <1>3
    <3>2. QED  BY <1>2, <2>2, <3>1, PipePlaces
  <2>6. Sound(Pipe', maimed')
    <3> DEFINE p == Pipe
               s == Pipe'
               N == maimed'
    <3>1. /\ p \in Seq(Items) /\ s \in Seq(Items) /\ maimed \subseteq N /\ Skips(p, s, k)
          /\ Sound(p, maimed) /\ (p[k + 1].kind = "wake" \/ p[k + 1].session \in N)
      BY <1>2, <1>5, <1>7, <2>4, <2>5
    <3> HIDE DEF p, s, N
    <3>2. Sound(s, N)  BY <3>1, LossIsSound
    <3>3. QED  BY <3>2 DEF s, N
  <2>7. QED  BY <2>1, <2>6
<1>8. CASE step' = "close"
  BY <1>1, <1>7, <1>8
<1>9. CASE step' = "voice" /\ h.kind = "wake"
  BY <1>1, <1>7, <1>9 DEF OnWire
<1>10. CASE step' = "voice" /\ h.kind # "wake" /\ wire # <<>> /\ wire[Len(wire)].kind = "end"
  <2>1. wire' = Append(<<>>, h) /\ maimed' = maimed  BY <1>1, <1>10 DEF OnWire
  <2>2. wire' = <<h>>  BY <1>3, <2>1
  <2>3. Pipe' = <<h>> \o (Tail(queue) \o outbox)  BY <1>1, <2>2 DEF Pipe
  <2>4. Pipe' = queue \o outbox  BY <1>1, <1>2, <2>3, MovesUp
  <2>5. Sound(queue \o outbox, maimed)  BY <1>10, FreshPipe
  <2>6. wire' \in Seq(Items) /\ NoWakes'  BY <1>3, <1>10, <2>2 DEF NoWakes
  <2>7. QED  BY <2>1, <2>4, <2>5, <2>6
<1>11. CASE step' = "voice" /\ h.kind # "wake" /\ ~(wire # <<>> /\ wire[Len(wire)].kind = "end")
  <2>1. wire' = Append(wire, h) /\ maimed' = maimed  BY <1>1, <1>11 DEF OnWire
  <2>2. Pipe' = Append(wire, h) \o (Tail(queue) \o outbox)  BY <1>1, <2>1 DEF Pipe
  <2>3. Append(wire, Head(queue)) \o (Tail(queue) \o outbox) = wire \o (queue \o outbox)
    BY <1>1, <1>2, MovesUp
  <2>4. Pipe' = Pipe  BY <2>2, <2>3 DEF Pipe
  <2>5. /\ wire' \in Seq(Items) /\ Len(wire') = Len(wire) + 1 /\ wire'[Len(wire) + 1] = h
        /\ \A i \in 1..Len(wire) : wire'[i] = wire[i]
    BY <1>2, <1>3, <2>1, AppendProperties
  <2>6. NoWakes'
    <3>1. ASSUME NEW i \in 1..Len(wire') PROVE wire'[i].kind # "wake"
      <4>1. Len(wire) \in Nat  BY <1>2, LenProperties
      <4>2. CASE i = Len(wire) + 1  BY <1>11, <2>5, <4>2
      <4>3. CASE i <= Len(wire)
        <5>1. i \in 1..Len(wire)  BY <2>5, <4>1, <4>3
        <5>2. QED  BY <1>2, <2>5, <5>1 DEF NoWakes
      <4>4. QED  BY <2>5, <4>1, <4>2, <4>3
    <3>2. QED  BY <3>1 DEF NoWakes
  <2>7. QED  BY <1>2, <2>1, <2>4, <2>5, <2>6
<1>12. QED  BY <1>1, <1>8, <1>9, <1>10, <1>11

LEMMA NotifyKeepsVoice ==
  ASSUME VoiceInv, Notify
  PROVE  VoiceInv'
<1> DEFINE h == Head(outbox)
<1>1. /\ outbox # <<>> /\ outbox' = Tail(outbox)
      /\ UNCHANGED <<wire, step, wake, active, chunks, sessions>>
      /\ \/ queue' = Append(queue, h) /\ maimed' = maimed
         \/ queue' = queue /\ maimed' = maimed \cup {h.session}
  BY DEF Notify, Push, HasRoom, mvars
<1>2. /\ Sound(Pipe, maimed) /\ Hearing /\ NoWakes /\ Closed
      /\ wire \in Seq(Items) /\ queue \in Seq(Items) /\ outbox \in Seq(Items)
  BY VoiceParts
<1>3. h \in Items /\ outbox' \in Seq(Items)  BY <1>1, <1>2, HeadTailProperties
<1>4. Hearing' /\ NoWakes' /\ maimed \subseteq maimed'  BY <1>1, <1>2 DEF Hearing, NoWakes
<1>5. Closed'
  <2>1. step = "hello" => wire = <<>>  BY <1>2 DEF Closed
  <2>2. step = "connect" => \A i \in 1..Len(wire) :
          wire[i].session \in maimed' \/ wire[Len(wire)] = Item("end", wire[i].session, 0)
    BY <1>2, <1>4 DEF Closed
  <2>3. QED  BY <1>1, <2>1, <2>2 DEF Closed, Item
<1>6. SUFFICES queue' \in Seq(Items) /\ Sound(Pipe', maimed')
  <2>1. (Sound(Pipe, maimed))'  BY <1>1, <1>6, CarriesOver
  <2>2. QED  BY <1>1, <1>2, <1>3, <1>4, <1>5, <1>6, <2>1 DEF VoiceInv, Sound
<1>7. CASE queue' = Append(queue, h) /\ maimed' = maimed
  <2>1. queue' \in Seq(Items)  BY <1>2, <1>3, <1>7, AppendProperties
  <2>2. Append(queue, Head(outbox)) \o Tail(outbox) = queue \o outbox
    BY <1>1, <1>2, MovesUp
  <2>3. Pipe' = Pipe  BY <1>1, <1>7, <2>2 DEF Pipe
  <2>4. QED  BY <1>2, <1>7, <2>1, <2>3
<1>8. CASE queue' = queue /\ maimed' = maimed \cup {h.session}
  <2>1. Pipe' = wire \o (queue \o Tail(outbox))  BY <1>1, <1>8 DEF Pipe
  <2>2. PICK k \in Nat : /\ Skips(Pipe, wire \o (queue \o Tail(outbox)), k)
                         /\ Pipe[k + 1] = Head(outbox)
    BY <1>1, <1>2, LosesPushed
  <2>3. Pipe \in Seq(Items)  BY <1>2, PipePlaces DEF Pipe
  <2>4. Pipe' \in Seq(Items)
    <3>1. Tail(outbox) \in Seq(Items)  BY <1>1, <1>3
    <3>2. QED  BY <1>2, <2>1, <3>1, PipePlaces
  <2>5. Sound(Pipe', maimed')
    <3> DEFINE p == Pipe
               s == Pipe'
               N == maimed'
    <3>1. /\ p \in Seq(Items) /\ s \in Seq(Items) /\ maimed \subseteq N /\ Skips(p, s, k)
          /\ Sound(p, maimed) /\ p[k + 1].session \in N
      BY <1>2, <1>8, <2>1, <2>2, <2>3, <2>4
    <3> HIDE DEF p, s, N
    <3>2. Sound(s, N)  BY <3>1, LossIsSound
    <3>3. QED  BY <3>2 DEF s, N
  <2>6. QED  BY <1>2, <1>8, <2>5
<1>9. QED  BY <1>1, <1>7, <1>8

-----------------------------------------------------------------------------
(* The sessions: what a call of the service adds.                          *)
LEMMA OneMoreBehind ==
  ASSUME NEW w \in Seq(Items), NEW q \in Seq(Items), NEW x \in Items
  PROVE  w \o (q \o <<x>>) = Append(w \o (q \o <<>>), x)
<1>1. q \o <<x>> = Append(q, x)  BY AppendIsConcat
<1>2. q \o <<>> = q  BY ConcatEmptySeq
<1>3. w \o q \in Seq(Items)  BY ConcatProperties
<1>4. Append(w \o q, x) = (w \o q) \o <<x>>  BY <1>3, AppendIsConcat
<1>5. ASSUME NEW one \in Seq(Items) PROVE (w \o q) \o one = w \o (q \o one)
  BY ConcatAssociative
<1>6. <<x>> \in Seq(Items)  OBVIOUS
<1>7. (w \o q) \o <<x>> = w \o (q \o <<x>>)  BY <1>5, <1>6, Zenon
<1>8. QED  BY <1>2, <1>4, <1>7

LEMMA TwoMoreBehind ==
  ASSUME NEW w \in Seq(Items), NEW q \in Seq(Items), NEW x \in Items, NEW y \in Items
  PROVE  w \o (q \o <<x, y>>) = Append(Append(w \o (q \o <<>>), x), y)
<1> DEFINE p == w \o q
<1>1. q \o <<>> = q  BY ConcatEmptySeq
<1>2. p \in Seq(Items)  BY ConcatProperties
<1>3. ASSUME NEW two \in Seq(Items) PROVE p \o two = w \o (q \o two)
  BY ConcatAssociative
<1> HIDE DEF p
<1>4. Append(p, x) \in Seq(Items) /\ <<x>> \in Seq(Items) /\ <<y>> \in Seq(Items)
  BY <1>2, AppendProperties
<1>5. <<x, y>> \in Seq(Items) /\ <<x, y>> = Append(<<x>>, y)  OBVIOUS
<1>6. Append(<<x>>, y) = <<x>> \o <<y>>
  <2>1. ASSUME NEW one \in Seq(Items) PROVE Append(one, y) = one \o <<y>>  BY AppendIsConcat
  <2>2. QED  BY <1>4, <2>1, Zenon
<1>7. Append(Append(p, x), y) = Append(p, x) \o <<y>>
  <2>1. ASSUME NEW s \in Seq(Items) PROVE Append(s, y) = s \o <<y>>  BY AppendIsConcat
  <2>2. QED  BY <1>4, <2>1, Zenon
<1>8. Append(p, x) \o <<y>> = p \o (<<x>> \o <<y>>)
  <2>1. ASSUME NEW one \in Seq(Items) PROVE Append(p, x) \o one = p \o (<<x>> \o one)
    BY <1>2, Joined
  <2>2. QED  BY <1>4, <2>1, Zenon
<1>9. p \o <<x, y>> = w \o (q \o <<x, y>>)  BY <1>3, <1>5, Zenon
<1>10. p \o <<x, y>> = Append(Append(p, x), y)  BY <1>5, <1>6, <1>7, <1>8, Zenon
<1>11. QED  BY <1>1, <1>9, <1>10, Zenon DEF p

LEMMA AudioKeepsVoice ==
  ASSUME VoiceInv, Audio, UNCHANGED <<wire, queue, maimed, step>>
  PROVE  VoiceInv'
<1>1. /\ Linked(Pipe, maimed) /\ Rising(Pipe) /\ Known(Pipe) /\ GoesOnFrom(Pipe, maimed)
      /\ Hearing /\ NoWakes /\ Closed
      /\ wire \in Seq(Items) /\ queue \in Seq(Items) /\ outbox \in Seq(Items)
  BY DEF VoiceInv
<1>2. NoWakes' /\ Closed'  BY <1>1 DEF NoWakes, Closed, Item
<1>3. active \in Nat /\ sessions \in Nat /\ chunks \in Nat  BY <1>1 DEF Hearing
<1>4. Pipe \in Seq(Items) /\ Len(Pipe) \in Nat
  <2>1. Pipe \in Seq(Items)  BY <1>1, PipePlaces DEF Pipe
  <2>2. QED  BY <2>1, LenProperties
<1>5. \A i \in 1..Len(Pipe) : Pipe[i] \in Items /\ Pipe[i].session \in Nat
  <2>1. ASSUME NEW i \in 1..Len(Pipe) PROVE Pipe[i] \in Items  BY <1>4, <2>1, ElementOfSeq
  <2>2. QED  BY <2>1, ItemFields
<1>6. SUFFICES /\ outbox' \in Seq(Items) /\ Hearing' /\ Linked(Pipe', maimed) /\ Rising(Pipe')
               /\ \A i \in 1..Len(Pipe') :
                    /\ Pipe'[i].session <= sessions'
                    /\ wake' = "ARMED" => Pipe'[i].session < active'
               /\ wake' = "LISTENING" =>
                    \/ active' \in maimed
                    \/ Len(Pipe') > 0 /\ Pipe'[Len(Pipe')] = Item("audio", active', chunks')
  BY <1>1, <1>2, <1>6 DEF VoiceInv, Linked, Rising, Known, GoesOnFrom, Free, Follows, Item
<1>7. Item("wake", 0, 0) \in Items /\ Item("wake", 0, 0).kind = "wake"
      /\ Item("wake", 0, 0).session = 0
  BY DEF Item, Items
<1>8. \A n \in Nat, s \in Nat :
        /\ {Item("start", s, n), Item("audio", s, n), Item("end", s, n)} \subseteq Items
        /\ Item("start", s, n).kind = "start" /\ Item("start", s, n).session = s
        /\ Item("start", s, n).n = n
        /\ Item("audio", s, n).kind = "audio" /\ Item("audio", s, n).session = s
        /\ Item("audio", s, n).n = n
        /\ Item("end", s, n).kind = "end" /\ Item("end", s, n).session = s
  BY DEF Item, Items
<1>9. ASSUME outbox = <<>>, NEW x \in Items
      PROVE  /\ wire \o (queue \o <<x>>) = Append(Pipe, x)
             /\ \A y \in Items : wire \o (queue \o <<x, y>>) = Append(Append(Pipe, x), y)
  <2>1. Pipe = wire \o (queue \o <<>>)  BY <1>9 DEF Pipe
  <2>2. wire \o (queue \o <<x>>) = Append(wire \o (queue \o <<>>), x)
    BY <1>1, OneMoreBehind
  <2>3. ASSUME NEW y \in Items
        PROVE  wire \o (queue \o <<x, y>>) = Append(Append(wire \o (queue \o <<>>), x), y)
    BY <1>1, TwoMoreBehind
  <2>4. QED  BY <2>1, <2>2, <2>3, Zenon
<1> DEFINE p == Pipe
           s == Pipe'
<1>10. CASE Arms
  <2> DEFINE x == Item("wake", 0, 0)
  <2>1. /\ outbox = <<>> /\ outbox' = <<x>> /\ sessions' = sessions + 1 /\ wake' = "ARMED"
        /\ active' = sessions + 1 /\ chunks' = chunks
    BY <1>10 DEF Arms, Calls
  <2>2. s = Append(p, x)
    <3>1. s = wire \o (queue \o <<x>>)  BY <2>1 DEF Pipe
    <3>2. QED  BY <1>7, <1>9, <2>1, <3>1, Zenon
  <2>3. x \in Items /\ x.kind = "wake" /\ x.session = 0  BY <1>7
  <2>4. outbox' \in Seq(Items)  BY <2>1, <2>3
  <2>5. Hearing'  BY <1>3, <2>1 DEF Hearing
  <2> HIDE DEF x, s
  <2>6. Free(x, maimed)  BY <2>3 DEF Free
  <2>7. /\ Len(s) = Len(p) + 1 /\ s[Len(p) + 1] = x /\ \A i \in 1..Len(p) : s[i] = p[i]
        /\ Linked(s, maimed) /\ Rising(s)
    BY <1>1, <1>4, <2>2, <2>3, <2>6, MoreIsLinked
  <2>8. ASSUME NEW i \in 1..Len(s)
        PROVE  s[i].session <= sessions' /\ (wake' = "ARMED" => s[i].session < active')
    <3>1. CASE i = Len(p) + 1  BY <1>3, <2>1, <2>3, <2>7, <3>1
    <3>2. CASE i <= Len(p)
      <4>1. i \in 1..Len(p)  BY <1>4, <2>7, <3>2
      <4>2. s[i] = p[i] /\ p[i].session \in Nat /\ p[i].session <= sessions
        BY <1>1, <1>5, <2>7, <4>1 DEF Known
      <4>3. QED  BY <1>3, <2>1, <4>2
    <3>3. QED  BY <1>4, <2>7, <3>1, <3>2
  <2>9. QED  BY <2>1, <2>4, <2>5, <2>7, <2>8 DEF s
<1>11. CASE Begins
  <2> DEFINE x == Item("start", active, 0)
             y == Item("audio", active, 1)
             m == Append(p, x)
  <2>1. /\ outbox = <<>> /\ outbox' = <<x, y>> /\ sessions' = sessions /\ wake = "ARMED"
        /\ wake' = "LISTENING" /\ active' = active /\ chunks' = 1
    BY <1>11 DEF Begins, Calls
  <2>2. /\ x \in Items /\ x.kind = "start" /\ x.session = active /\ x.n = 0
        /\ y \in Items /\ y.kind = "audio" /\ y.session = active /\ y.n = 1
    BY <1>3, <1>8
  <2>3. s = Append(m, y)
    <3>1. s = wire \o (queue \o <<x, y>>)  BY <2>1 DEF Pipe
    <3>2. QED  BY <1>9, <2>1, <2>2, <3>1, Zenon DEF m
  <2>4. outbox' \in Seq(Items)  BY <2>1, <2>2
  <2>5. active = sessions /\ active > 0  BY <1>1, <2>1 DEF Hearing
  <2>6. Hearing'  BY <1>3, <2>1, <2>5 DEF Hearing
  <2>7. \A i \in 1..Len(p) : p[i].session < active  BY <1>1, <2>1 DEF Known
  <2>8. y = Item("audio", active', chunks')  BY <2>1
  <2> HIDE DEF x, y, m, s
  <2>9. Free(x, maimed)  BY <2>2 DEF Free
  <2>10. /\ m \in Seq(Items) /\ Len(m) = Len(p) + 1 /\ m[Len(p) + 1] = x
         /\ \A i \in 1..Len(p) : m[i] = p[i]
         /\ Linked(m, maimed) /\ Rising(m)
    BY <1>1, <1>4, <2>2, <2>7, <2>9, MoreIsLinked DEF m
  <2>11. Len(m) > 0 /\ Follows(m[Len(m)], y)  BY <1>4, <2>2, <2>10 DEF Follows
  <2>12. /\ Len(s) = Len(m) + 1 /\ s[Len(m) + 1] = y /\ \A i \in 1..Len(m) : s[i] = m[i]
         /\ Linked(s, maimed) /\ Rising(s)
    BY <2>2, <2>3, <2>10, <2>11, MoreIsLinked
  <2>13. ASSUME NEW i \in 1..Len(s) PROVE s[i].session <= sessions'
    <3>1. CASE i = Len(p) + 2  BY <1>3, <1>4, <2>1, <2>2, <2>5, <2>10, <2>12, <3>1
    <3>2. CASE i = Len(p) + 1  BY <1>3, <1>4, <2>1, <2>2, <2>5, <2>10, <2>12, <3>2
    <3>3. CASE i <= Len(p)
      <4>1. i \in 1..Len(p) /\ i \in 1..Len(m)  BY <1>4, <2>10, <2>12, <3>3
      <4>2. s[i] = p[i] /\ p[i].session <= sessions
        BY <1>1, <2>10, <2>12, <4>1 DEF Known
      <4>3. QED  BY <2>1, <4>2
    <3>4. QED  BY <1>4, <2>10, <2>12, <3>1, <3>2, <3>3
  <2>14. Len(s) > 0 /\ s[Len(s)] = Item("audio", active', chunks')  BY <1>4, <2>8, <2>10, <2>12
  <2>15. QED  BY <2>1, <2>4, <2>6, <2>12, <2>13, <2>14 DEF s
<1>12. CASE Hears
  <2> DEFINE x == Item("audio", active, chunks + 1)
  <2>1. /\ outbox = <<>> /\ outbox' = <<x>> /\ sessions' = sessions /\ wake = "LISTENING"
        /\ wake' = "LISTENING" /\ active' = active /\ chunks' = chunks + 1
    BY <1>12 DEF Hears, Calls
  <2>2. x \in Items /\ x.kind = "audio" /\ x.session = active /\ x.n = chunks + 1
    BY <1>3, <1>8
  <2>3. s = Append(p, x)
    <3>1. s = wire \o (queue \o <<x>>)  BY <2>1 DEF Pipe
    <3>2. QED  BY <1>9, <2>1, <2>2, <3>1, Zenon
  <2>4. outbox' \in Seq(Items)  BY <2>1, <2>2
  <2>5. active = sessions /\ active > 0  BY <1>1, <2>1 DEF Hearing
  <2>6. Hearing'  BY <1>3, <2>1, <2>5 DEF Hearing
  <2>7. x = Item("audio", active', chunks')  BY <2>1
  <2> HIDE DEF x, s
  <2>8. Free(x, maimed) \/ (Len(p) > 0 /\ Follows(p[Len(p)], x))
    <3>1. CASE active \in maimed  BY <2>2, <3>1 DEF Free
    <3>2. CASE Len(p) > 0 /\ p[Len(p)] = Item("audio", active, chunks)
      <4>1. p[Len(p)].kind = "audio" /\ p[Len(p)].session = active /\ p[Len(p)].n = chunks
        BY <1>3, <1>8, <3>2
      <4>2. QED  BY <2>2, <3>2, <4>1 DEF Follows
    <3>3. QED  BY <1>1, <2>1, <3>1, <3>2 DEF GoesOnFrom
  <2>9. /\ Len(s) = Len(p) + 1 /\ s[Len(p) + 1] = x /\ \A i \in 1..Len(p) : s[i] = p[i]
        /\ Linked(s, maimed) /\ Rising(s)
    BY <1>1, <1>4, <2>2, <2>3, <2>8, MoreIsLinked
  <2>10. ASSUME NEW i \in 1..Len(s) PROVE s[i].session <= sessions'
    <3>1. CASE i = Len(p) + 1  BY <1>3, <2>1, <2>2, <2>5, <2>9, <3>1
    <3>2. CASE i <= Len(p)
      <4>1. i \in 1..Len(p)  BY <1>4, <2>9, <3>2
      <4>2. s[i] = p[i] /\ p[i].session <= sessions  BY <1>1, <2>9, <4>1 DEF Known
      <4>3. QED  BY <2>1, <4>2
    <3>3. QED  BY <1>4, <2>9, <3>1, <3>2
  <2>11. Len(s) > 0 /\ s[Len(s)] = Item("audio", active', chunks')  BY <1>4, <2>7, <2>9
  <2>12. QED  BY <2>1, <2>4, <2>6, <2>9, <2>10, <2>11 DEF s
<1>13. CASE Ends
  <2> DEFINE x == Item("end", active, 0)
  <2>1. /\ outbox = <<>> /\ outbox' = <<x>> /\ sessions' = sessions /\ wake = "LISTENING"
        /\ wake' = "IDLE" /\ active' = 0 /\ chunks' = 0
    BY <1>13 DEF Ends, Calls, Endable, Reset
  <2>2. x \in Items /\ x.kind = "end" /\ x.session = active  BY <1>3, <1>8
  <2>3. s = Append(p, x)
    <3>1. s = wire \o (queue \o <<x>>)  BY <2>1 DEF Pipe
    <3>2. QED  BY <1>9, <2>1, <2>2, <3>1, Zenon
  <2>4. outbox' \in Seq(Items)  BY <2>1, <2>2
  <2>5. active = sessions  BY <1>1, <2>1 DEF Hearing
  <2>6. Hearing'  BY <1>3, <2>1 DEF Hearing
  <2> HIDE DEF x, s
  <2>7. Free(x, maimed) \/ (Len(p) > 0 /\ Follows(p[Len(p)], x))
    <3>1. CASE active \in maimed  BY <2>2, <3>1 DEF Free
    <3>2. CASE Len(p) > 0 /\ p[Len(p)] = Item("audio", active, chunks)
      <4>1. p[Len(p)].kind = "audio" /\ p[Len(p)].session = active  BY <1>3, <1>8, <3>2
      <4>2. QED  BY <2>2, <3>2, <4>1 DEF Follows
    <3>3. QED  BY <1>1, <2>1, <3>1, <3>2 DEF GoesOnFrom
  <2>8. /\ Len(s) = Len(p) + 1 /\ s[Len(p) + 1] = x /\ \A i \in 1..Len(p) : s[i] = p[i]
        /\ Linked(s, maimed) /\ Rising(s)
    BY <1>1, <1>4, <2>2, <2>3, <2>7, MoreIsLinked
  <2>9. ASSUME NEW i \in 1..Len(s) PROVE s[i].session <= sessions'
    <3>1. CASE i = Len(p) + 1  BY <1>3, <2>1, <2>2, <2>5, <2>8, <3>1
    <3>2. CASE i <= Len(p)
      <4>1. i \in 1..Len(p)  BY <1>4, <2>8, <3>2
      <4>2. s[i] = p[i] /\ p[i].session <= sessions  BY <1>1, <2>8, <4>1 DEF Known
      <4>3. QED  BY <2>1, <4>2
    <3>3. QED  BY <1>4, <2>8, <3>1, <3>2
  <2>10. QED  BY <2>1, <2>4, <2>6, <2>8, <2>9 DEF s
<1>14. CASE GivesUp
  <2>1. /\ outbox' = outbox /\ sessions' = sessions /\ wake' = "IDLE" /\ active' = 0 /\ chunks' = 0
    BY <1>14 DEF GivesUp, Reset
  <2>2. s = p  BY <2>1 DEF Pipe
  <2>3. Hearing'  BY <1>3, <2>1 DEF Hearing
  <2>4. \A i \in 1..Len(p) : p[i].session <= sessions  BY <1>1 DEF Known
  <2>5. QED  BY <1>1, <2>1, <2>2, <2>3, <2>4
<1>15. QED  BY <1>10, <1>11, <1>12, <1>13, <1>14 DEF Audio

-----------------------------------------------------------------------------
LEMMA LinkKeepsVoice ==
  ASSUME VoiceInv, LinkTask, UNCHANGED wvars
  PROVE  VoiceInv'
<1>1. CASE SendVoice  BY <1>1, SendKeepsVoice
<1>2. CASE Close  BY <1>2, CloseKeepsVoice
<1>3. ASSUME UNCHANGED qvars, step' \notin {"connect", "hello"}
      PROVE  VoiceInv'
  BY <1>3, VoiceRests DEF qvars, wvars
<1>4. CASE HelloFails
  BY <1>4, VoiceRests DEF HelloFails, Dies, Goes, qvars, wvars
<1>5. CASE SendHello \/ VoiceDone
  BY <1>5, <1>3 DEF SendHello, VoiceDone, Goes
<1>6. CASE Idles \/ TimesOut \/ SendHeartbeat
  BY <1>6, <1>3 DEF Idles, TimesOut, SendHeartbeat, Dies, Goes
<1>7. CASE Receive \/ WouldBlock \/ Loses
  BY <1>7, <1>3 DEF Receive, WouldBlock, Loses, Dies, Goes
<1>8. CASE HandleHelloAck \/ HandleHeartbeat \/ HandleCommand
          \/ HandleBegin \/ HandleAudio \/ HandleHush
  <2>1. UNCHANGED qvars /\ step = "frames" /\ step' = step
    BY <1>8 DEF HandleHelloAck, HandleHeartbeat, HandleCommand,
                    HandleBegin, HandleAudio, HandleHush, Handled,
                Arrives
  <2>2. QED  BY <1>3, <2>1
<1>9. CASE FramesDone
  <2>1. UNCHANGED qvars /\ step' \in {"close", "tick"}  BY <1>9 DEF FramesDone
  <2>2. QED  BY <1>3, <2>1
<1>10. QED
  BY <1>1, <1>2, <1>4, <1>5, <1>6, <1>7, <1>8, <1>9 DEF LinkTask

LEMMA VoiceStart == Init => VoiceInv
<1> SUFFICES ASSUME Init PROVE VoiceInv  OBVIOUS
<1>1. /\ wire = <<>> /\ queue = <<>> /\ outbox = <<>> /\ wake = "IDLE" /\ active = 0
      /\ chunks = 0 /\ sessions = 0
  BY DEF Init, LinkInit, WakeInit
<1>2. Pipe = <<>>  BY <1>1 DEF Pipe
<1>3. 1..Len(Pipe) = {} /\ 1..Len(wire) = {}  BY <1>1, <1>2
<1>4. Linked(Pipe, maimed) /\ Rising(Pipe) /\ Known(Pipe) /\ NoWakes
  BY <1>3 DEF Linked, Rising, Known, NoWakes
<1>5. GoesOnFrom(Pipe, maimed) /\ Hearing  BY <1>1 DEF GoesOnFrom, Hearing
<1>6. Closed  BY <1>1, <1>3 DEF Closed
<1>7. wire \in Seq(Items) /\ queue \in Seq(Items) /\ outbox \in Seq(Items)  BY <1>1
<1>8. QED  BY <1>4, <1>5, <1>6, <1>7 DEF VoiceInv

LEMMA VoiceNext ==
  ASSUME VoiceInv, [Next]_vars
  PROVE  VoiceInv'
<1>1. ASSUME UNCHANGED <<wire, queue, maimed, wake, active, chunks, sessions, outbox, step>>
      PROVE  VoiceInv'
  BY <1>1, VoiceRests
<1>2. CASE RobotActs
  <2>1. ASSUME NEW c \in Conns, Connect(c), UNCHANGED wvars PROVE VoiceInv'
    BY <2>1, ConnectKeepsVoice
  <2>2. QED  BY <1>2, <2>1, LinkKeepsVoice DEF RobotActs
<1>3. CASE Refuses
  BY <1>3, <1>1 DEF Refuses, ConnectFails, Dies, Goes, qvars, wvars
<1>4. CASE Interval
  BY <1>4, <1>1 DEF Interval, Clock, qvars, wvars
<1>5. CASE Notify  BY <1>5, NotifyKeepsVoice
<1>6. CASE Audio /\ UNCHANGED <<nvars, mvars, qvars, tvars, losses>>
  BY <1>6, AudioKeepsVoice DEF mvars, qvars
<1>7. CASE MainActs
  BY <1>7, <1>1 DEF MainActs, SetRoutes, mvars, qvars
<1>8. ASSUME NEW c \in Conns, ServerActs(c)
      PROVE  VoiceInv'
  BY <1>8, <1>1 DEF ServerActs, mvars, qvars, wvars
<1>9. CASE Commands
  BY <1>9, <1>1 DEF Commands, mvars, qvars, wvars
<1>10. CASE RobotResets
  <2>1. /\ wire' = <<>> /\ queue' = <<>> /\ outbox' = <<>> /\ wake' = "IDLE" /\ active' = 0
        /\ chunks' = 0 /\ sessions' = 0
    BY <1>10 DEF RobotResets
  <2>2. Pipe' = <<>>  BY <2>1 DEF Pipe
  <2>3. 1..Len(Pipe') = {} /\ 1..Len(wire') = {}  BY <2>1, <2>2
  <2>4. (Linked(Pipe, maimed))' /\ (Rising(Pipe))' /\ (Known(Pipe))' /\ NoWakes'
    BY <2>3 DEF Linked, Rising, Known, NoWakes
  <2>5. (GoesOnFrom(Pipe, maimed))' /\ Hearing'  BY <2>1 DEF GoesOnFrom, Hearing
  <2>6. Closed'  BY <2>1, <2>3 DEF Closed
  <2>7. wire' \in Seq(Items) /\ queue' \in Seq(Items) /\ outbox' \in Seq(Items)  BY <2>1
  <2>8. QED  BY <2>4, <2>5, <2>6, <2>7 DEF VoiceInv
<1>11. CASE ServerLost
  BY <1>11, <1>1 DEF ServerLost, mvars, qvars, wvars
<1>12. CASE UNCHANGED vars
  BY <1>12, <1>1 DEF vars, mvars, qvars, wvars
<1>13. QED
  BY <1>2, <1>3, <1>4, <1>5, <1>6, <1>7, <1>8, <1>9, <1>10, <1>11, <1>12
     DEF Next, AudioActs

LEMMA WholeFromInv == VoiceInv => VoiceIsWhole
<1> SUFFICES ASSUME VoiceInv, NEW i \in 1..Len(wire), wire[i].session \notin maimed
             PROVE  IF wire[i].kind = "start"
                    THEN \A j \in 1..(i - 1) : wire[j].session # wire[i].session
                    ELSE i > 1 /\ Follows(wire[i - 1], wire[i])
  BY DEF VoiceIsWhole
<1>1. /\ wire \in Seq(Items) /\ queue \in Seq(Items) /\ outbox \in Seq(Items)
      /\ Linked(Pipe, maimed) /\ Rising(Pipe) /\ NoWakes
  BY DEF VoiceInv
<1>2. ASSUME NEW j \in 1..Len(wire) PROVE Pipe[j] = wire[j] /\ j \in 1..Len(Pipe)
  <2>1. Places(Pipe, wire, queue, outbox) /\ Pipe \in Seq(Items)  BY <1>1, PipePlaces DEF Pipe
  <2>2. Len(wire) \in Nat /\ Len(queue) \in Nat /\ Len(outbox) \in Nat  BY <1>1, LenProperties
  <2>3. j \in 1..Len(Pipe) /\ j <= Len(wire)  BY <2>1, <2>2 DEF Places
  <2>4. QED  BY <2>1, <2>3 DEF Places
<1>3. Len(wire) \in Nat  BY <1>1, LenProperties
<1>4. CASE wire[i].kind = "start"
  <2>1. ASSUME NEW j \in 1..(i - 1) PROVE wire[j].session # wire[i].session
    <3>1. j \in 1..Len(wire)  BY <1>3
    <3>2. Pipe[j].session < Pipe[i].session  BY <1>1, <1>2, <1>4 DEF Rising
    <3>3. wire[j].session \in Nat /\ wire[i].session \in Nat
      <4>1. wire[j] \in Items /\ wire[i] \in Items  BY <1>1, <3>1, ElementOfSeq
      <4>2. QED  BY <4>1, ItemFields
    <3>4. QED  BY <1>2, <3>1, <3>2, <3>3
  <2>2. QED  BY <1>4, <2>1
<1>5. CASE wire[i].kind # "start"
  <2>1. wire[i].kind # "wake"  BY <1>1 DEF NoWakes
  <2>2. ~Free(wire[i], maimed)  BY <1>5, <2>1 DEF Free
  <2>3. i > 1 /\ Follows(Pipe[i - 1], wire[i])  BY <1>1, <1>2, <2>2 DEF Linked
  <2>4. i - 1 \in 1..Len(wire)  BY <1>3, <2>3
  <2>5. QED  BY <1>2, <1>5, <2>3, <2>4
<1>6. QED  BY <1>4, <1>5

(* Of a session nothing was lost of, the server hears the start once, then *)
(* every chunk in its place, and the end behind the last                   *)
(* (nb_mind_link_shell_voice_queue_push, nb_mind_link_shell_task).         *)
THEOREM VoiceComesWhole == Spec => []VoiceIsWhole
<1>1. Init => VoiceInv  BY VoiceStart
<1>2. VoiceInv /\ [Next]_vars => VoiceInv'  BY VoiceNext
<1>3. VoiceInv => VoiceIsWhole  BY WholeFromInv
<1>4. QED  BY <1>1, <1>2, <1>3, PTL DEF Spec
=============================================================================
