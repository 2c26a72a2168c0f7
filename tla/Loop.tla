-------------------------------- MODULE Loop --------------------------------
(***************************************************************************)
(* The event loop of the mind server and its bus (bus.py).  A task runs    *)
(* one slice at a time, to its next await that has to wait; the tasks that *)
(* can run wait in line.  An actor reads its own queue: get() does not     *)
(* give up the slice while there is an event, nor does publish() ever.     *)
(***************************************************************************)
EXTENDS Naturals, Sequences, SequencesExt

CONSTANTS QueueCap,   \* default_maxsize of the bus
          MaxInputs   \* bound: events from outside; each begins one turn at most

ASSUME LoopAssumption == QueueCap \in Nat \ {0} /\ MaxInputs \in Nat

Turns == 1..MaxInputs   \* turn ids

VARIABLES ready,      \* the tasks that can run, in line
          running,    \* the actor in the middle of its slice, or Nobody
          cancelled,  \* tasks that get CancelledError when they run next
          queue,      \* of each actor, the events it has not taken
          at          \* of each actor, what it waits for

lvars == <<ready, running, cancelled, queue, at>>

Nobody == <<"nobody", 0>>
Engine == <<"engine", 0>>   \* TurnEngine.run
Output == <<"output", 0>>   \* MindOutput.run
Actors == {Engine, Output}

(* An actor is awake, waits for an event, or waits for a task it cancelled *)
(* to end; "joined": that task has ended, the actor has not gone on yet.   *)
Waits == {"no", "get", "join", "joined"}

LoopInit ==
  /\ ready = <<Engine, Output>> /\ running = Nobody
  /\ cancelled = {}
  /\ queue = [a \in Actors |-> <<>>]
  /\ at = [a \in Actors |-> "no"]

-----------------------------------------------------------------------------
(* publish_nowait: an event the queue has no room for is dropped; a reader *)
(* that waits is put in line.                                              *)
Put(q, e) == IF Len(q) < QueueCap THEN Append(q, e) ELSE q
Woken(a) == IF at[a] = "get" THEN <<a>> ELSE <<>>
Publish(a, e) ==
  /\ queue' = [queue EXCEPT ![a] = Put(@, e)]
  /\ at' = [at EXCEPT ![a] = IF @ = "get" THEN "no" ELSE @]

InLine(task) == task \in Range(ready)
(* Task.cancel: a task that waits is put in line, one that is in line      *)
(* stays where it is; either way it finds CancelledError.                  *)
Rushed(task) == IF InLine(task) THEN <<>> ELSE <<task>>

(* The slice of a task that is not an actor. *)
Slice(task) == running = Nobody /\ ready # <<>> /\ Head(ready) = task

(* The actor takes its turn in line. *)
Resumes(a) ==
  /\ Slice(a) /\ running' = a
  /\ ready' = Tail(ready)
  /\ UNCHANGED <<cancelled, queue, at>>

Awake(a) == running = a /\ at[a] = "no"
(* The event the actor takes next from its queue. *)
NextEvent(a) == Head(queue[a])
Takes(a, kind) == Awake(a) /\ queue[a] # <<>> /\ NextEvent(a)[1] = kind
Rest(a) == [queue EXCEPT ![a] = Tail(@)]

(* The queue is empty: get() waits, and the slice is over.                 *)
WaitsForEvent(a) ==
  /\ Awake(a) /\ queue[a] = <<>>
  /\ at' = [at EXCEPT ![a] = "get"] /\ running' = Nobody
  /\ UNCHANGED <<ready, cancelled, queue>>

(* A task ends; the actor that cancelled it and waits for it is put in     *)
(* line.                                                                   *)
Joiner(a, awaited) == IF at[a] = "join" /\ awaited THEN <<a>> ELSE <<>>
Joined(a, awaited) == IF at[a] = "join" /\ awaited THEN [at EXCEPT ![a] = "joined"] ELSE at
=============================================================================
