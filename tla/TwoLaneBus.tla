----------------------------- MODULE TwoLaneBus -----------------------------
(***************************************************************************)
(* What the event bus promises its users, without slots or rings: two      *)
(* FIFO lanes, safety events delivered before normal ones, a bound on      *)
(* what waits, a share of it that only safety events may use, and a log    *)
(* of the latest calls in the order they were made.                        *)
(***************************************************************************)
EXTENDS Integers, Sequences

CONSTANTS Room,      \* events the bus can hold
          SafeRoom,  \* events of that room normal traffic can never take
          LogLength, \* calls the log remembers
          Types

VARIABLES normal, safety, log

avars == <<normal, safety, log>>

Lane(p) == IF p = "safety" THEN safety ELSE normal
Waiting == Len(normal) + Len(safety)

Note(entry) ==
  LET longer == Append(log, entry)
  IN  log' = IF Len(longer) > LogLength THEN Tail(longer) ELSE longer

Call(t, p, action, status) ==
  [action |-> action, status |-> status, type |-> t, priority |-> p]

Init == normal = <<>> /\ safety = <<>> /\ log = <<>>

(* An accepted event waits at the end of its lane. *)
Accept(t, p) ==
  /\ Waiting < Room
  /\ p = "normal" => Len(normal) < Room - SafeRoom
  /\ IF p = "safety"
     THEN safety' = Append(safety, [type |-> t, priority |-> p])
          /\ UNCHANGED normal
     ELSE normal' = Append(normal, [type |-> t, priority |-> p])
          /\ UNCHANGED safety
  /\ Note(Call(t, p, "published", "ok"))

(* A safety event is refused only by a bus that is full; a normal one only *)
(* once everything outside the safety share may be taken.                  *)
Refuse(t, p) ==
  /\ p = "safety" => Waiting = Room
  /\ p = "normal" => Waiting >= Room - SafeRoom
  /\ Note(Call(t, p, "dropped", "full"))
  /\ UNCHANGED <<normal, safety>>

Malformed(t, p, status) ==
  /\ Note(Call(t, p, "dropped", status))
  /\ UNCHANGED <<normal, safety>>

Take(lane) == Note(Call(Head(lane).type, Head(lane).priority, "polled", "ok"))

DeliverSafety ==
  /\ safety # <<>>
  /\ safety' = Tail(safety)
  /\ UNCHANGED normal
  /\ Take(safety)

DeliverNormal ==
  /\ safety = <<>> /\ normal # <<>>
  /\ normal' = Tail(normal)
  /\ UNCHANGED safety
  /\ Take(normal)

Next ==
  \/ \E t \in Types, p \in {"normal", "safety"} :
       Accept(t, p) \/ Refuse(t, p) \/ Malformed(t, p, "payload_too_large")
  \/ \E t \in Types : Malformed(t, "unknown", "invalid_arg")
  \/ DeliverSafety
  \/ DeliverNormal

Spec == Init /\ [][Next]_avars
=============================================================================
