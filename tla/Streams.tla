------------------------------ MODULE Streams ------------------------------
(***************************************************************************)
(* TCP connections between the robot, which opens them one at a time, and  *)
(* the mind server: each direction delivers in order and loses nothing     *)
(* unless an end goes away.  A slot of Conns is a connection until both    *)
(* ends have let go of it; then it stands for another.                     *)
(***************************************************************************)
EXTENDS Naturals, Sequences

CONSTANTS Conns,      \* bound: connections at a time, one more than the stale ones
          StreamCap   \* bound: frames under way in a direction (socket buffers)

ASSUME StreamsAssumption ==
  /\ Conns \subseteq Nat \ {0}
  /\ StreamCap \in Nat \ {0}

VARIABLES conn,    \* the connection the robot has open, or NoConn
          up,      \* of each connection, frames to the server
          down,    \* and to the robot
          shut,    \* the server closed its end
          ghost    \* connections an end of which is gone without a word

nvars == <<conn, up, down, shut, ghost>>

NoConn == 0
Hello(boot) == <<"hello", boot>>
Ack(boot) == <<"ack", boot>>   \* and the TIME_SYNC right behind it
Beat == <<"beat", 0>>
Order == <<"cmd", 0>>
Turn(frame) == frame[2]        \* of a SAY_ frame
Frames == {"hello", "ack", "beat", "begin", "say", "hush", "cmd", "voice"} \X Nat

Empty == [c \in Conns |-> <<>>]

StreamsInit ==
  /\ conn = NoConn /\ up = Empty /\ down = Empty
  /\ shut = [c \in Conns |-> TRUE] /\ ghost = {}

Opens(c) ==
  /\ conn' = c
  /\ up' = [up EXCEPT ![c] = <<>>] /\ down' = [down EXCEPT ![c] = <<>>]
  /\ shut' = [shut EXCEPT ![c] = FALSE] /\ ghost' = ghost \ {c}

(* The robot closes; what the server has not read may be thrown away.      *)
HangsUp ==
  /\ conn' = NoConn
  /\ up' \in {up, [up EXCEPT ![conn] = <<>>]}
  /\ down' = [down EXCEPT ![conn] = <<>>]
  /\ UNCHANGED <<shut, ghost>>

(* What nobody reads any more only fills a buffer of the robot, and that   *)
(* takes many more frames than the bound.                                  *)
RobotSends(f) ==
  /\ \/ Len(up[conn]) < StreamCap /\ up' = [up EXCEPT ![conn] = Append(@, f)]
     \/ Len(up[conn]) = StreamCap /\ conn \in ghost /\ UNCHANGED up
  /\ UNCHANGED <<conn, down, shut, ghost>>

(* send() on a socket that does not block: EAGAIN, or an error.            *)
SendFails == Len(up[conn]) = StreamCap \/ shut[conn] \/ conn \in ghost

ServerSends(c, f) ==
  /\ Len(down[c]) < StreamCap
  /\ down' = [down EXCEPT ![c] = Append(@, f)]

StreamsType ==
  /\ conn \in Conns \cup {NoConn}
  /\ up \in [Conns -> Seq(Frames)] /\ down \in [Conns -> Seq(Frames)]
  /\ \A c \in Conns : Len(up[c]) <= StreamCap /\ Len(down[c]) <= StreamCap
  /\ shut \in [Conns -> BOOLEAN] /\ ghost \subseteq Conns
=============================================================================
