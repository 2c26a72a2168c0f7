----------------------------- MODULE Transport -----------------------------
(***************************************************************************)
(* The NBP/2 server of the mind (nbp2_server.py): a handler for each       *)
(* connection, and the task that sends commands to the client.  A step is  *)
(* what runs between two awaits that wait.  The client mutex is held       *)
(* across an await only while the writer of the old client closes.         *)
(***************************************************************************)
EXTENDS Streams

VARIABLES srv,      \* of each connection, what its handler does
          client,   \* _client, or NoConn
          sender    \* the task of _run still runs

tvars == <<srv, client, sender>>

(* Reads; greeted, waits for the mutex; has it, waits for the old writer   *)
(* to close; in its finally.                                               *)
HandlerSteps == {"none", "read", "greeted", "evicting", "finally"}

TransportInit ==
  /\ srv = [c \in Conns |-> "none"] /\ client = NoConn
  /\ sender = TRUE

Accept(c) ==
  /\ srv[c] = "none" /\ srv' = [srv EXCEPT ![c] = "read"]
  /\ UNCHANGED <<client, sender>>

MutexFree == \A c \in Conns : srv[c] # "evicting"
Moves(c, from, to) == srv[c] = from /\ srv' = [srv EXCEPT ![c] = to]

(* The next frame is of this kind.  After its writer is closed a handler   *)
(* reads what it had, to no effect, and then the end.                      *)
Reads(c, kind) ==
  /\ srv[c] = "read" /\ ~shut[c]
  /\ up[c] # <<>> /\ Head(up[c])[1] = kind
  /\ up' = [up EXCEPT ![c] = Tail(@)]

ReadHello(c) ==
  /\ Reads(c, "hello") /\ Moves(c, "read", "greeted")
  /\ ServerSends(c, Ack(Head(up[c])[2]))
  /\ UNCHANGED <<conn, shut, ghost, client, sender>>

ReadHeartbeat(c) ==
  /\ Reads(c, "beat") /\ ServerSends(c, Beat)
  /\ UNCHANGED <<conn, shut, ghost, tvars>>

(* EVENT_* and LISTEN_* are read and left at that. *)
ReadOther(c) ==
  /\ Reads(c, "voice")
  /\ UNCHANGED <<conn, down, shut, ghost, tvars>>

(* The end of the stream, or an error: the robot closed, or came back      *)
(* without knowing of this connection, or the writer was closed here.      *)
RobotClosed(c) == c # conn /\ c \notin ghost /\ up[c] = <<>>
Refused(c) == c # conn /\ down[c] # <<>>
ReadFails(c) ==
  /\ Moves(c, "read", "finally")
  /\ RobotClosed(c) \/ Refused(c) \/ shut[c]
  /\ UNCHANGED <<nvars, client, sender>>

(* The new session becomes the client; an old one is closed first.         *)
TakesOver(c) ==
  /\ MutexFree /\ client \in {NoConn, c}
  /\ Moves(c, "greeted", "read") /\ client' = c
  /\ UNCHANGED <<nvars, sender>>

Evicts(c) ==
  /\ MutexFree /\ client \notin {NoConn, c}
  /\ Moves(c, "greeted", "evicting")
  /\ shut' = [shut EXCEPT ![client] = TRUE]
  /\ UNCHANGED <<conn, up, down, ghost, client, sender>>

(* wait_closed raises what the old connection was lost to, if it was.      *)
Evicted(c) ==
  /\ \/ Moves(c, "evicting", "read") /\ client' = c
     \/ Moves(c, "evicting", "finally") /\ Refused(client) /\ UNCHANGED client
  /\ UNCHANGED <<nvars, sender>>

(* Mutant: a handler that ends takes the client with it, whoever it is. *)
WithoutAnyone(c) == NoConn
(* Mutant: a handler that ends leaves the client as it is. *)
WithEveryone(c) == client
Without(c) == IF client = c THEN NoConn ELSE client

Finally(c) ==
  /\ MutexFree /\ Moves(c, "finally", "none")
  /\ client' = Without(c)
  /\ shut' = [shut EXCEPT ![c] = TRUE]
  /\ UNCHANGED <<conn, up, down, ghost, sender>>

Handles(c) ==
  \/ ReadHello(c) \/ ReadHeartbeat(c) \/ ReadOther(c) \/ ReadFails(c)
  \/ TakesOver(c) \/ Evicts(c) \/ Evicted(c) \/ Finally(c)

(* A command of the mind goes to the client if there is one.  If its       *)
(* connection is lost and its handler does not know yet, drain raises and  *)
(* the sender is gone.                                                     *)
SendCommand ==
  /\ sender /\ MutexFree /\ client # NoConn
  /\ \/ ServerSends(client, Order) /\ UNCHANGED sender
     \/ Refused(client) /\ sender' = FALSE /\ UNCHANGED down
  /\ UNCHANGED <<conn, up, shut, ghost, srv, client>>

(* What the mind says (no code of the server sends it yet). *)
SendSay(f) ==
  /\ MutexFree /\ client # NoConn
  /\ ServerSends(client, f)
  /\ UNCHANGED <<conn, up, shut, ghost, tvars>>

TransportType ==
  /\ srv \in [Conns -> HandlerSteps]
  /\ client \in Conns \cup {NoConn}
  /\ sender \in BOOLEAN
=============================================================================
