------------------------------ MODULE Schedule ------------------------------
(***************************************************************************)
(* The timers of the robot (autonomic/schedule_core): a fixed array of     *)
(* slots, and its copy in flash, written as a whole after every change.    *)
(* The shell looks at no result of a write, and the labels of timers that  *)
(* come from the mind are empty.                                           *)
(***************************************************************************)
EXTENDS Integers

CONSTANTS MaxTimers,   \* NB_SCHEDULE_MAX_TIMERS
          Ids,         \* timer ids (numbers above 0, the mark of a free slot)
          FireTimes    \* when a timer may be set for

ASSUME ScheduleAssumption ==
  /\ MaxTimers \in Nat \ {0}
  /\ Ids \subseteq Nat \ {0} /\ FireTimes \subseteq Nat

VARIABLES slots,   \* s_core: in the order of the array
          flash,   \* the blob in NVS, or an empty array if there is none
          stale    \* history: the latest write, or read, of the blob failed

svars == <<slots, flash, stale>>

Slots == 1..MaxTimers
Timer == [id: Ids, at: FireTimes]
Free == [id |-> 0, at |-> 0]
Empty == [i \in Slots |-> Free]

ScheduleInit == slots = Empty /\ flash = Empty /\ stale = FALSE

-----------------------------------------------------------------------------
(* persist: open, set and commit may each fail; the blob that is there     *)
(* then stays.                                                             *)
Persist ==
  \/ flash' = slots' /\ stale' = FALSE
  \/ flash' = flash /\ stale' = TRUE

(* find_slot, find_free_slot: of these, the call finds the first. *)
Holding(id) == {i \in Slots : slots[i].id = id}
FreeSlots == {i \in Slots : slots[i] = Free}
First(S) == {i \in S : \A j \in S : i <= j}

(* Mutant: a timer that is set again takes a second slot. *)
PlacesWithoutUpsert(id) == First(FreeSlots)
(* Where nb_schedule_core_create puts a timer: in the slot of its id, or   *)
(* in the first free one; nowhere if the array is full.                    *)
Places(id) == IF Holding(id) # {} THEN First(Holding(id)) ELSE First(FreeSlots)

HandleSet(id, at) ==
  IF Places(id) = {}
  THEN UNCHANGED svars
  ELSE /\ \E i \in Places(id) :
            slots' = [slots EXCEPT ![i] = [id |-> id, at |-> at]]
       /\ Persist

(* Mutant: a timer is cancelled in memory only. *)
HandleCancelUnsaved(id) ==
  IF Holding(id) = {}
  THEN UNCHANGED svars
  ELSE /\ \E i \in First(Holding(id)) : slots' = [slots EXCEPT ![i] = Free]
       /\ UNCHANGED <<flash, stale>>
HandleCancel(id) ==
  IF Holding(id) = {}
  THEN UNCHANGED svars
  ELSE /\ \E i \in First(Holding(id)) : slots' = [slots EXCEPT ![i] = Free]
       /\ Persist

(* Mutant: the scan stops at the first free slot. *)
DueUpToGap(now) ==
  {i \in Slots : slots[i].at <= now /\ \A j \in 1..i : slots[j] # Free}
Due(now) == {i \in Slots : slots[i] # Free /\ slots[i].at <= now}

(* nb_schedule_core_shell_tick: every timer that is due leaves the array   *)
(* (the caller has room for all of them), and then the rest is written.    *)
Fired(now) == [i \in Slots |-> IF i \in Due(now) THEN slots[i] ELSE Free]
ScheduleTick(now) ==
  IF Due(now) = {}
  THEN UNCHANGED svars
  ELSE /\ slots' = [i \in Slots |-> IF i \in Due(now) THEN Free ELSE slots[i]]
       /\ Persist

(* nb_schedule_core_shell_init: NVS is erased if it has no free page, and  *)
(* a blob that cannot be read leaves the array empty.                      *)
ScheduleRestart ==
  \/ slots' = flash /\ flash' = flash /\ stale' = FALSE
  \/ slots' = Empty /\ flash' = Empty /\ stale' = FALSE
  \/ slots' = Empty /\ flash' = flash /\ stale' = TRUE
-----------------------------------------------------------------------------
ScheduleType ==
  /\ slots \in [Slots -> Timer \cup {Free}]
  /\ flash \in [Slots -> Timer \cup {Free}]
  /\ stale \in BOOLEAN

(* An id is in one slot at most, in memory and in flash.                   *)
OneSlotEach(array) ==
  \A i, j \in Slots : array[i] # Free /\ array[i].id = array[j].id => i = j
=============================================================================
