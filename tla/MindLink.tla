------------------------------ MODULE MindLink ------------------------------
(***************************************************************************)
(* The link task of the robot (mind_link): one connection after another,   *)
(* each greeted, kept alive by heartbeats and given up when they stop, and *)
(* the queue of voice frames that other tasks leave for it to send.  Age   *)
(* is counted in heartbeat intervals.                                      *)
(***************************************************************************)
EXTENDS Streams, WakeSession

CONSTANTS Boots,       \* what esp_random() may return
          MaxMissed,   \* NB_MIND_LINK_MAX_MISSED_HEARTBEATS
          QueueCap     \* NB_MIND_LINK_VOICE_QUEUE_CAP

ASSUME MindLinkAssumption ==
  /\ Boots \subseteq Nat \ {0}
  /\ MaxMissed \in Nat \ {0} /\ QueueCap \in Nat \ {0}

VARIABLES sess,     \* s_session.state
          boot,     \* s_session.boot_id
          age,      \* intervals since the last heartbeat sent, and received
          step,     \* where the task is
          buf,      \* frames received, not handled
          saying,   \* s_downlink_say_active
          playing,  \* the playback's turn whose end has not come, 0: none
          queue,    \* s_voice_queue: an Item each
          stray,    \* history: the last SAY_END or SAY_CANCEL named another turn
                    \* than the open one, and no SAY_BEGIN or SAY_AUDIO came since
          wire,     \* history: the LISTEN_* sent on this connection since
                    \* the last LISTEN_END, and it
          maimed    \* history: sessions an item of which was lost, or that a
                    \* connection began and did not end

mvars == <<sess, boot, age, step, buf, saying, playing, stray>>
qvars == <<queue, wire, maimed>>

States == {"IDLE", "AWAITING_HELLO_ACK", "READY", "DEAD"}
Steps == {"connect", "hello", "tick", "voice", "recv", "frames", "close"}

Fresh == [sent |-> 0, heard |-> 0]

LinkInit ==
  /\ sess = "IDLE" /\ boot = 0 /\ age = Fresh
  /\ step = "connect" /\ buf = <<>>
  /\ saying = FALSE /\ playing = 0 /\ stray = FALSE
  /\ queue = <<>> /\ wire = <<>>

Goes(from, to) == step = from /\ step' = to
Dies(from, to) == Goes(from, to) /\ sess' = "DEAD"

-----------------------------------------------------------------------------
Connect(c) ==
  /\ Goes("connect", "hello") /\ Opens(c)
  /\ boot' \in Boots /\ buf' = <<>> /\ saying' = FALSE
  /\ sess' = "AWAITING_HELLO_ACK" /\ age' = Fresh
  /\ wire' = <<>>
  /\ UNCHANGED <<playing, stray, queue, maimed>>

ConnectFails ==
  /\ Dies("connect", "connect")
  /\ UNCHANGED <<nvars, boot, age, buf, saying, playing, stray, qvars>>

SendHello ==
  /\ Goes("hello", "tick") /\ RobotSends(Hello(boot))
  /\ UNCHANGED <<sess, boot, age, buf, saying, playing, stray, qvars>>

HelloFails ==
  /\ Dies("hello", "connect") /\ SendFails /\ HangsUp
  /\ UNCHANGED <<boot, age, buf, saying, playing, stray, qvars>>

-----------------------------------------------------------------------------
(* nb_mind_link_session_tick.                                              *)
(* Mutant: the heartbeat that is sent counts as one received. *)
MarkBoth(a) == Fresh
MarkSent(a) == [a EXCEPT !.sent = 0]
Missed == age.heard >= MaxMissed
IsDue == age.sent > 0

Idles ==
  /\ sess = "READY" => ~Missed /\ ~IsDue
  /\ Goes("tick", "voice")
  /\ UNCHANGED <<nvars, sess, boot, age, buf, saying, playing, stray, qvars>>

(* The loop goes on to its end with a dead session. *)
TimesOut ==
  /\ sess = "READY" /\ Missed /\ Dies("tick", "voice")
  /\ UNCHANGED <<nvars, boot, age, buf, saying, playing, stray, qvars>>

SendHeartbeat ==
  /\ sess = "READY" /\ ~Missed /\ IsDue
  /\ age' = MarkSent(age)
  /\ \/ Goes("tick", "voice") /\ RobotSends(Beat) /\ UNCHANGED sess
     \/ Dies("tick", "close") /\ SendFails /\ UNCHANGED nvars
  /\ UNCHANGED <<boot, buf, saying, playing, stray, qvars>>

(* An interval goes by. *)
Clock ==
  /\ sess = "READY"
  /\ age' = [sent |-> 1, heard |-> IF Missed THEN MaxMissed ELSE age.heard + 1]
  /\ UNCHANGED <<nvars, sess, boot, step, buf, saying, playing, stray, qvars>>

-----------------------------------------------------------------------------
OnWire(item) ==
  IF item.kind = "wake" THEN wire
  ELSE Append(IF wire # <<>> /\ wire[Len(wire)].kind = "end" THEN <<>> ELSE wire, item)

HasRoom == Len(queue) < QueueCap

(* The voice queue: who fills it finds it full, or not, whatever the link  *)
(* does; an item that is popped and not sent is lost with the session.     *)
Push(item) ==
  IF HasRoom
  THEN queue' = Append(queue, item) /\ UNCHANGED <<wire, maimed>>
  ELSE maimed' = maimed \cup {item.session} /\ UNCHANGED <<queue, wire>>

SendVoice ==
  /\ sess = "READY" /\ queue # <<>> /\ queue' = Tail(queue)
  /\ \/ /\ Goes("voice", "voice") /\ RobotSends(<<"voice", 0>>)
        /\ wire' = OnWire(Head(queue))
        /\ UNCHANGED <<sess, maimed>>
     \/ /\ Dies("voice", "close") /\ SendFails
        /\ maimed' = maimed \cup {Head(queue).session}
        /\ UNCHANGED <<nvars, wire>>
  /\ UNCHANGED <<boot, age, buf, saying, playing, stray>>

VoiceDone ==
  /\ sess = "READY" => queue = <<>>
  /\ Goes("voice", "recv")
  /\ UNCHANGED <<nvars, sess, boot, age, buf, saying, playing, stray, qvars>>

-----------------------------------------------------------------------------
(* recv, of what has come; of nothing; of the end, or an error.            *)
Receive ==
  /\ Goes("recv", "frames")
  /\ \E n \in 1..Len(down[conn]) :
       /\ buf' = buf \o SubSeq(down[conn], 1, n)
       /\ down' = [down EXCEPT ![conn] = SubSeq(@, n + 1, Len(@))]
  /\ UNCHANGED <<conn, up, shut, ghost, sess, boot, age, saying, playing, stray, qvars>>

WouldBlock ==
  /\ Goes("recv", "frames")
  /\ down[conn] = <<>> /\ ~shut[conn]
  /\ UNCHANGED <<nvars, sess, boot, age, buf, saying, playing, stray, qvars>>

(* The server closed, or what was sent to it comes back unanswered.        *)
Loses ==
  /\ Dies("recv", "close")
  /\ down[conn] = <<>>
  /\ shut[conn] \/ (conn \in ghost /\ up[conn] # <<>>)
  /\ UNCHANGED <<nvars, boot, age, buf, saying, playing, stray, qvars>>

-----------------------------------------------------------------------------
(* nb_mind_link_shell_handle_frame, whatever the state of the session.     *)
Arrives(kind) == step = "frames" /\ buf # <<>> /\ Head(buf)[1] = kind
Handled ==
  /\ buf' = Tail(buf)
  /\ UNCHANGED <<nvars, boot, step, qvars>>

HandleHelloAck ==
  /\ Arrives("ack") /\ Handled
  /\ IF sess # "AWAITING_HELLO_ACK" THEN UNCHANGED <<sess, age>>
     ELSE IF Head(buf)[2] = boot THEN sess' = "READY" /\ age' = Fresh
     ELSE sess' = "DEAD" /\ UNCHANGED age
  /\ UNCHANGED <<saying, playing, stray>>

HandleHeartbeat ==
  /\ Arrives("beat") /\ Handled
  /\ age' = IF sess = "READY" THEN [age EXCEPT !.heard = 0] ELSE age
  /\ UNCHANGED <<sess, saying, playing, stray>>

(* SAY_BEGIN takes the playback over; SAY_AUDIO does not, of whatever turn *)
(* it is; both have the shell remember that something is being said.       *)
HandleBegin ==
  /\ Arrives("begin") /\ Handled
  /\ saying' = TRUE /\ playing' = Turn(Head(buf)) /\ stray' = FALSE
  /\ UNCHANGED <<sess, age>>

HandleAudio ==
  /\ Arrives("say") /\ Handled
  /\ saying' = TRUE /\ stray' = FALSE
  /\ UNCHANGED <<sess, age, playing>>

(* SAY_END, SAY_CANCEL: the shell forgets, whatever turn is named; the     *)
(* playback ends its turn if it is the one named.                          *)
HandleHush ==
  /\ Arrives("hush") /\ Handled
  /\ saying' = FALSE
  /\ playing' = IF playing = Turn(Head(buf)) THEN 0 ELSE playing
  /\ stray' = (playing' # 0)
  /\ UNCHANGED <<sess, age>>

(* TIMER_*, VOLUME_SET, QUIET_MODE_SET: an event on the body's bus.        *)
HandleCommand ==
  /\ Arrives("cmd") /\ Handled
  /\ UNCHANGED <<sess, age, saying, playing, stray>>

FramesDone ==
  /\ step = "frames" /\ buf = <<>>
  /\ step' = IF sess = "DEAD" THEN "close" ELSE "tick"
  /\ UNCHANGED <<nvars, sess, boot, age, buf, saying, playing, stray, qvars>>

-----------------------------------------------------------------------------
(* Mutant: the turn is not told that its link is gone. *)
ForgetTurn == UNCHANGED playing
DropTurn == playing' = IF saying THEN 0 ELSE playing

(* Sessions that the server has heard the beginning of, and not the end.   *)
Begun == {wire[i].session : i \in 1..Len(wire)}
Cut == {s \in Begun : wire[Len(wire)] # Item("end", s, 0)}

Close ==
  /\ Goes("close", "connect") /\ HangsUp
  /\ DropTurn /\ saying' = FALSE
  /\ maimed' = maimed \cup Cut
  /\ UNCHANGED <<sess, boot, age, buf, stray, queue, wire>>

LinkTask ==
  \/ SendHello \/ HelloFails \/ Idles \/ TimesOut \/ SendHeartbeat
  \/ SendVoice \/ VoiceDone \/ Receive \/ WouldBlock \/ Loses
  \/ HandleHelloAck \/ HandleHeartbeat \/ HandleBegin \/ HandleAudio
  \/ HandleHush \/ HandleCommand \/ FramesDone \/ Close

LinkType ==
  /\ sess \in States /\ boot \in Boots \cup {0}
  /\ age \in [sent: 0..1, heard: 0..MaxMissed]
  /\ step \in Steps
  /\ buf \in Seq(Frames) /\ Len(buf) <= StreamCap
  /\ saying \in BOOLEAN /\ playing \in Nat /\ stray \in BOOLEAN
  /\ Len(queue) <= QueueCap
=============================================================================
