----------------------------- MODULE AlarmClock -----------------------------
(***************************************************************************)
(* What the timers promise: each id is set for one time or not at all; an  *)
(* alarm goes off no sooner than that, with all that are due, and only     *)
(* what rings is forgotten; a restart is back at what was last saved (or   *)
(* at nothing, if the memory cannot be read) and at no alarm.              *)
(***************************************************************************)
EXTENDS Integers, FiniteSets

CONSTANTS Ids, FireTimes, Room

VARIABLES pending,   \* pending[id]: its time, or None
          saved,     \* what a restart finds
          ringing,   \* ids whose alarm goes off
          time

avars == <<pending, saved, ringing, time>>

None == -1
Nothing == [id \in Ids |-> None]
Pending == {id \in Ids : pending[id] # None}
DueIds == {id \in Pending : pending[id] <= time}

Init ==
  /\ pending = Nothing /\ saved = Nothing /\ ringing = {}
  /\ time \in Nat

Save == saved' \in {saved, pending'}

Set(id, at) ==
  /\ ringing = {}
  /\ id \in Pending \/ Cardinality(Pending) < Room
  /\ pending' = [pending EXCEPT ![id] = at] /\ Save
  /\ UNCHANGED <<ringing, time>>

Cancel(id) ==
  /\ id \in Pending /\ ringing = {}
  /\ pending' = [pending EXCEPT ![id] = None] /\ Save
  /\ UNCHANGED <<ringing, time>>

Alarm ==
  /\ DueIds # {} /\ ringing = {}
  /\ ringing' = DueIds
  /\ pending' = [id \in Ids |-> IF id \in DueIds THEN None ELSE pending[id]]
  /\ Save
  /\ UNCHANGED time

Ring(id) ==
  /\ id \in ringing /\ ringing' = ringing \ {id}
  /\ UNCHANGED <<pending, saved, time>>

Clock == time' \in Nat /\ UNCHANGED <<pending, saved, ringing>>

Restart ==
  /\ pending' \in {saved, Nothing} /\ saved' \in {saved, pending'}
  /\ ringing' = {} /\ time' \in Nat

Next ==
  \/ \E id \in Ids : Cancel(id) \/ Ring(id) \/ \E at \in FireTimes : Set(id, at)
  \/ Alarm \/ Clock \/ Restart

Spec == Init /\ [][Next]_avars
=============================================================================
