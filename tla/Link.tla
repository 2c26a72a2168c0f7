-------------------------------- MODULE Link --------------------------------
(***************************************************************************)
(* The robot and the mind server over their connections: the link task,    *)
(* the audio task that feeds it, and the handlers of the server, with      *)
(* either end going away, with a word or without.                          *)
(***************************************************************************)
EXTENDS MindLink, Transport

CONSTANTS MaxLosses,   \* bound: resets of the robot and losses of the server
          Downlink     \* bound: the frames the mind sends of its own accord

ASSUME LinkAssumption ==
  /\ MaxLosses \in Nat
  /\ Downlink \subseteq {"begin", "say", "hush", "cmd"} \X Nat
  /\ <<"begin", 0>> \notin Downlink   \* the playback refuses it

VARIABLE losses

vars == <<nvars, mvars, qvars, tvars, wvars, losses>>

Init ==
  /\ StreamsInit /\ LinkInit /\ maimed = {} /\ TransportInit /\ WakeInit
  /\ losses = 0

RobotActs ==
  /\ \/ LinkTask /\ UNCHANGED <<tvars, wvars>>
     \/ \E c \in Conns : Connect(c) /\ Accept(c) /\ UNCHANGED wvars
  /\ UNCHANGED losses

Refuses == ConnectFails /\ UNCHANGED <<tvars, wvars, losses>>
Interval == Clock /\ UNCHANGED <<tvars, wvars, losses>>

(* nb_app_main_voice_sink: one notify call after another.                  *)
Notify ==
  /\ outbox # <<>> /\ Push(Head(outbox)) /\ outbox' = Tail(outbox)
  /\ UNCHANGED <<nvars, mvars, tvars, wake, active, chunks, sessions, routed, losses>>

AudioActs ==
  \/ Notify
  \/ Audio /\ UNCHANGED <<nvars, mvars, qvars, tvars, losses>>

MainActs ==
  SetRoutes(sess = "READY") /\ UNCHANGED <<nvars, mvars, qvars, tvars, losses>>

ServerActs(c) == Handles(c) /\ UNCHANGED <<mvars, qvars, wvars, losses>>
Commands ==
  /\ \/ Order \in Downlink /\ SendCommand
     \/ \E f \in Downlink \ {Order} : SendSay(f)
  /\ UNCHANGED <<mvars, qvars, wvars, losses>>

-----------------------------------------------------------------------------
(* The robot resets: nothing it knew is left, and the server is not told.  *)
RobotResets ==
  /\ losses < MaxLosses /\ losses' = losses + 1
  /\ conn # NoConn /\ conn' = NoConn /\ ghost' = ghost \cup {conn}
  /\ sess' = "IDLE" /\ boot' = 0 /\ age' = Fresh
  /\ step' = "connect" /\ buf' = <<>> /\ saying' = FALSE /\ playing' = 0 /\ stray' = FALSE
  /\ queue' = <<>> /\ wire' = <<>> /\ maimed' = {}
  /\ wake' = "IDLE" /\ active' = 0 /\ chunks' = 0 /\ sessions' = 0
  /\ routed' = FALSE /\ outbox' = <<>>
  /\ UNCHANGED <<up, down, shut, tvars>>

(* The server starts anew, and its connections end with it; or its host    *)
(* is gone and they just fall silent.  What it had read, or had not sent,  *)
(* is gone too.                                                            *)
ServerLost ==
  /\ losses < MaxLosses /\ losses' = losses + 1
  /\ srv' = [c \in Conns |-> "none"] /\ client' = NoConn /\ sender' = TRUE
  /\ \/ shut' = [c \in Conns |-> TRUE] /\ UNCHANGED ghost
     \/ ghost' = ghost \cup ({conn} \ {NoConn}) /\ UNCHANGED shut
  /\ up' \in {up, Empty} /\ down' \in {down, Empty}
  /\ UNCHANGED <<conn, mvars, qvars, wvars>>

Next ==
  \/ RobotActs \/ Refuses \/ Interval \/ AudioActs \/ MainActs
  \/ \E c \in Conns : ServerActs(c)
  \/ Commands \/ RobotResets \/ ServerLost

Spec == Init /\ [][Next]_vars

(* Each task gets its turn, a handler also at the mutex, which is handed   *)
(* over in order; time goes by; while no heartbeat watches the connection, *)
(* the error of what is never acknowledged comes in the end.               *)
FairSpec ==
  /\ Spec
  /\ WF_vars(RobotActs) /\ WF_vars(Interval)
  /\ WF_vars(AudioActs) /\ WF_vars(MainActs)
  /\ SF_vars(sess # "READY" /\ Loses /\ UNCHANGED <<tvars, wvars, losses>>)
  /\ \A c \in Conns : SF_vars(ServerActs(c))
-----------------------------------------------------------------------------
TypeOK ==
  /\ StreamsType /\ LinkType /\ TransportType /\ WakeType
  /\ losses \in 0..MaxLosses

(* The client the server sends commands to is a connection whose handler   *)
(* has not ended, in whatever order old and new connections come and go.   *)
ClientHasHandler == client # NoConn => srv[client] \in {"read", "finally"}

(* What the mind was saying ends with the link it came by; unless the last *)
(* that came of it was the end of another turn.                            *)
NoTurnOutlivesItsLink == step = "connect" => playing = 0 \/ stray

(* A link whose other end is gone is given up within the heartbeats.       *)
SilenceIsNoticed == sess = "READY" /\ conn \in ghost ~> sess # "READY"

(* Once the server answers within an interval, the robot is ready and the  *)
(* mind's commands go to it, again and again, whatever was lost before;    *)
(* unless the server went without a word in the middle of the greeting.    *)
Prompt ==
  /\ age.sent = 0 /\ down[conn] = <<>> /\ buf = <<>>
  /\ \A c \in Conns : srv[c] \in {"none", "read"} /\ (srv[c] = "read" => up[c] = <<>>)
Abandoned == sess = "AWAITING_HELLO_ACK" /\ conn \in ghost
LinkComesBack ==
  <>[][Interval => Prompt]_vars =>
    <>[]Abandoned \/ []<>(sess = "READY" /\ client = conn)

(* The server's silence does not hold the robot: what the heartbeats of    *)
(* PROTOCOL.md, 3, and the non-blocking socket of the shell are there for. *)
SilenceIsLeft == conn \in ghost ~> conn \notin ghost

(* V-4 where nothing was lost: what the server is sent of a session begins *)
(* with LISTEN_START, once; each LISTEN_AUDIO goes on from the one before, *)
(* with nothing in between; and only audio comes before LISTEN_END.        *)
Follows(before, item) ==
  /\ before.session = item.session
  /\ \/ item.kind = "audio" /\ before.kind \in {"start", "audio"} /\ item.n = before.n + 1
     \/ item.kind = "end" /\ before.kind = "audio"
VoiceIsWhole ==
  \A i \in 1..Len(wire) : wire[i].session \notin maimed =>
    IF wire[i].kind = "start" THEN \A j \in 1..(i - 1) : wire[j].session # wire[i].session
    ELSE i > 1 /\ Follows(wire[i - 1], wire[i])
=============================================================================
