---------------------------- MODULE AgendaProofs ----------------------------
(***************************************************************************)
(* The agenda keeps its types, an id has one slot, flash agrees with       *)
(* memory, and the timers are an alarm clock, for every number of timers   *)
(* and bound of the clock.                                                 *)
(***************************************************************************)
EXTENDS Agenda, FiniteSetTheorems, TLAPS

Array == [Slots -> Timer \cup {Free}]

IInv ==
  /\ TypeOK /\ FlashAgrees
  /\ OneSlotEach(slots) /\ OneSlotEach(flash)

-----------------------------------------------------------------------------
(* Arrays of slots. *)

(* An empty array is an array, and holds no id twice. *)
LEMMA EmptyIsArray == Empty \in Array /\ OneSlotEach(Empty)
BY DEF Empty, Array, OneSlotEach, Free

(* Putting a timer in the slot of its id, or in another one if it has      *)
(* none, keeps ids apart.                                                  *)
LEMMA PutKeepsApart ==
  ASSUME NEW array \in Array, OneSlotEach(array),
         NEW id \in Ids, NEW at \in FireTimes, NEW i \in Slots,
         array[i].id = id \/ \A j \in Slots : array[j].id # id
  PROVE  LET new == [array EXCEPT ![i] = [id |-> id, at |-> at]]
         IN  new \in Array /\ OneSlotEach(new)
BY ScheduleAssumption DEF Array, OneSlotEach, Timer, Free

(* Taking timers away keeps ids apart. *)
LEMMA ClearKeepsApart ==
  ASSUME NEW array \in Array, OneSlotEach(array), NEW S
  PROVE  LET new == [i \in Slots |-> IF i \in S THEN Free ELSE array[i]]
         IN  new \in Array /\ OneSlotEach(new)
<1> DEFINE new == [i \in Slots |-> IF i \in S THEN Free ELSE array[i]]
<1>1. new \in Array
  BY DEF Array
<1>2. \A i \in Slots : new[i] # Free => new[i] = array[i]
  OBVIOUS
<1> HIDE DEF new
<1>3. OneSlotEach(new)
  BY <1>1, <1>2, ScheduleAssumption DEF OneSlotEach, Array, Timer, Free
<1> QED
  BY <1>1, <1>3 DEF new

-----------------------------------------------------------------------------
(* The timers. *)
TimersRight == ScheduleType /\ FlashAgrees /\ OneSlotEach(slots) /\ OneSlotEach(flash)

(* persist keeps what holds of memory true of flash. *)
LEMMA PersistKeeps ==
  ASSUME TimersRight, slots' \in Array, OneSlotEach(slots)', Persist
  PROVE  TimersRight'
BY DEF TimersRight, ScheduleType, FlashAgrees, OneSlotEach, Persist, Array

(* TIMER_SET: an upsert, or nothing when the array is full.               *)
LEMMA SetKeeps ==
  ASSUME TimersRight, NEW id \in Ids, NEW at \in FireTimes, HandleSet(id, at)
  PROVE  TimersRight'
<1>1. CASE UNCHANGED svars
  BY <1>1 DEF TimersRight, ScheduleType, FlashAgrees, OneSlotEach, svars
<1>2. CASE ~UNCHANGED svars
  <2>1. PICK i \in Places(id) : slots' = [slots EXCEPT ![i] = [id |-> id, at |-> at]]
    BY <1>2 DEF HandleSet
  <2>2. Persist
    BY <1>2 DEF HandleSet
  <2>3. i \in Slots /\ (slots[i].id = id \/ \A j \in Slots : slots[j].id # id)
    BY <2>1 DEF Places, First, Holding, FreeSlots
  <2>4. slots' \in Array /\ OneSlotEach(slots)'
    BY <2>1, <2>3, PutKeepsApart DEF TimersRight, ScheduleType, Array, OneSlotEach
  <2> QED
    BY <2>2, <2>4, PersistKeeps
<1> QED
  BY <1>1, <1>2

(* TIMER_CANCEL frees a slot, or finds none.                              *)
LEMMA CancelKeeps ==
  ASSUME TimersRight, NEW id \in Ids, HandleCancel(id)
  PROVE  TimersRight'
<1>1. CASE UNCHANGED svars
  BY <1>1 DEF TimersRight, ScheduleType, FlashAgrees, OneSlotEach, svars
<1>2. CASE ~UNCHANGED svars
  <2>1. PICK i \in First(Holding(id)) : slots' = [slots EXCEPT ![i] = Free]
    BY <1>2 DEF HandleCancel
  <2>2. Persist
    BY <1>2 DEF HandleCancel
  <2> DEFINE S == {i}
             new == [j \in Slots |-> IF j \in S THEN Free ELSE slots[j]]
  <2>3. slots' = new
    BY <2>1 DEF TimersRight, ScheduleType
  <2>a. slots \in Array /\ OneSlotEach(slots)
    BY DEF TimersRight, ScheduleType, Array
  <2> HIDE DEF S
  <2>b. new \in Array /\ OneSlotEach(new)
    BY <2>a, ClearKeepsApart
  <2> HIDE DEF new
  <2>4. slots' \in Array /\ OneSlotEach(slots)'
    BY <2>3, <2>b DEF OneSlotEach
  <2> QED
    BY <2>2, <2>4, PersistKeeps
<1> QED
  BY <1>1, <1>2

(* The tick of the timers frees the slots of all that are due.            *)
LEMMA TickKeeps ==
  ASSUME TimersRight, ScheduleTick(now)
  PROVE  TimersRight'
<1>1. CASE UNCHANGED svars
  BY <1>1 DEF TimersRight, ScheduleType, FlashAgrees, OneSlotEach, svars
<1>2. CASE ~UNCHANGED svars
  <2>1. slots' = [i \in Slots |-> IF i \in Due(now) THEN Free ELSE slots[i]]
    BY <1>2 DEF ScheduleTick
  <2>2. Persist
    BY <1>2 DEF ScheduleTick
  <2>3. slots' \in Array /\ OneSlotEach(slots)'
    BY <2>1, ClearKeepsApart DEF TimersRight, ScheduleType, Array, OneSlotEach
  <2> QED
    BY <2>2, <2>3, PersistKeeps
<1> QED
  BY <1>1, <1>2

(* A restart takes the array from flash, or starts with none.             *)
LEMMA RestartKeeps ==
  ASSUME TimersRight, ScheduleRestart
  PROVE  TimersRight'
BY EmptyIsArray
   DEF TimersRight, ScheduleType, FlashAgrees, OneSlotEach, ScheduleRestart, Array

-----------------------------------------------------------------------------
(* The frame. *)

(* What the timers that fired leave in the hand is an array. *)
LEMMA FiredIsArray ==
  ASSUME ScheduleType
  PROVE  Fired(now) \in Array
BY DEF ScheduleType, Fired, Array

(* The first boot satisfies the invariant.                                *)
LEMMA InitInv == Init => IInv
<1> SUFFICES ASSUME Init PROVE IInv
  OBVIOUS
<1>1. ScheduleType /\ FlashAgrees /\ OneSlotEach(slots) /\ OneSlotEach(flash)
  BY EmptyIsArray DEF Init, ScheduleInit, ScheduleType, FlashAgrees, Array
<1>2. hand \in [Slots -> Timer \cup {Free}]
  BY EmptyIsArray DEF Init, Array
<1>3. now \in Times
  BY AgendaAssumption DEF Init, Times
<1> QED
  BY <1>1, <1>2, <1>3 DEF Init, IInv, TypeOK, Steps

(* Every step of the frame, of the bus, and a restart, preserve it.       *)
LEMMA NextInv == IInv /\ [Next]_vars => IInv'
<1> SUFFICES ASSUME IInv, [Next]_vars PROVE IInv'
  OBVIOUS
<1> USE DEF IInv, TypeOK, Times, Steps
<1>a. TimersRight
  BY DEF TimersRight
<1>1. CASE ClockTick
  <2>1. TimersRight' /\ hand' \in [Slots -> Timer \cup {Free}]
    BY <1>1, <1>a DEF ClockTick, TimersRight, ScheduleType, FlashAgrees, OneSlotEach, svars
  <2> QED
    BY <1>1, <2>1 DEF ClockTick, TimersRight
<1>2. ASSUME NEW t \in Times, TimeSync(t) PROVE IInv'
  BY <1>2, <1>a DEF TimeSync, ScheduleType, FlashAgrees, OneSlotEach, svars
<1>3. ASSUME NEW id \in Ids, NEW at \in FireTimes, TimerSet(id, at) PROVE IInv'
  <2>1. TimersRight'
    BY <1>3, <1>a, SetKeeps DEF TimerSet
  <2> QED
    BY <1>3, <2>1 DEF TimerSet, TimersRight
<1>4. ASSUME NEW id \in Ids, TimerCancel(id) PROVE IInv'
  <2>1. TimersRight'
    BY <1>4, <1>a, CancelKeeps DEF TimerCancel
  <2> QED
    BY <1>4, <2>1 DEF TimerCancel, TimersRight
<1>5. CASE Drained
  BY <1>5 DEF Drained, ScheduleType, FlashAgrees, OneSlotEach, svars
<1>6. CASE FireDue
  <2>1. TimersRight'
    BY <1>6, <1>a, TickKeeps DEF FireDue
  <2>2. hand' \in Array
    BY <1>6, FiredIsArray DEF FireDue
  <2> QED
    BY <1>6, <2>1, <2>2 DEF FireDue, TimersRight, Array
<1>7. CASE Ring
  BY <1>7 DEF Ring, ScheduleType, FlashAgrees, OneSlotEach, svars
<1>8. CASE FrameEnds
  BY <1>8 DEF FrameEnds, ScheduleType, FlashAgrees, OneSlotEach, svars
<1>9. CASE Restart
  <2>1. TimersRight'
    BY <1>9, <1>a, RestartKeeps DEF Restart
  <2>2. hand' \in [Slots -> Timer \cup {Free}]
    BY <1>9, EmptyIsArray DEF Restart, Array
  <2>3. now' \in Times /\ step' \in Steps
    BY <1>9, AgendaAssumption DEF Restart
  <2> QED
    BY <2>1, <2>2, <2>3 DEF TimersRight
<1>10. CASE UNCHANGED vars
  BY <1>10 DEF vars, svars, ScheduleType, FlashAgrees, OneSlotEach
<1> QED
  BY <1>1, <1>2, <1>3, <1>4, <1>5, <1>6, <1>7, <1>8, <1>9, <1>10 DEF Next, Face

(* The inductive invariant holds always.                                  *)
LEMMA Invariance == Spec => []IInv
<1> QED
  BY InitInv, NextInv, PTL DEF Spec

-----------------------------------------------------------------------------
(* The agenda keeps its types: slots of the array, the frame's steps, the  *)
(* clock (schedule_core.c, circadian_core's shell).                        *)
THEOREM TypeCorrect == Spec => []TypeOK
<1>1. IInv => TypeOK
  BY DEF IInv
<1> QED
  BY <1>1, Invariance, PTL

(* No id is in two slots, in memory or in flash: TIMER_SET is an upsert,   *)
(* whatever fails and whenever the robot restarts.                         *)
THEOREM IdsStayApart == Spec => [](OneSlotEach(slots) /\ OneSlotEach(flash))
<1>1. IInv => OneSlotEach(slots) /\ OneSlotEach(flash)
  BY DEF IInv
<1> QED
  BY <1>1, Invariance, PTL

(* Flash holds what memory holds unless the flash just failed, for every   *)
(* number of slots: each handler of the shell persists what it changes.    *)
THEOREM FlashIsTrue == Spec => []FlashAgrees
<1>1. IInv => FlashAgrees
  BY DEF IInv
<1> QED
  BY <1>1, Invariance, PTL

-----------------------------------------------------------------------------
(* The refinement.  Timers are in the hand only while they ring, each id   *)
(* once.                                                                   *)
HandInv ==
  /\ step # "ring" => hand = Empty
  /\ OneSlotEach(hand)

(* What fired leaves its slots, so the hand holds no id twice either.      *)
LEMMA HandInvariance == Spec => []HandInv
<1>1. Init => HandInv
  BY EmptyIsArray DEF Init, HandInv
<1>2. IInv /\ HandInv /\ [Next]_vars => HandInv'
  <2> SUFFICES ASSUME IInv, HandInv, [Next]_vars PROVE HandInv'
    OBVIOUS
  <2>1. CASE FireDue
    <3> DEFINE F == Fired(now)
    <3>1. hand' = F /\ step' = "ring"
      BY <2>1 DEF FireDue
    <3>2. \A i \in Slots : F[i] # Free => F[i] = slots[i]
      BY DEF Fired
    <3>3. F \in Array
      BY FiredIsArray DEF IInv, TypeOK
    <3> HIDE DEF F
    <3>4. OneSlotEach(F)
      <4> SUFFICES ASSUME NEW i \in Slots, NEW j \in Slots, F[i] # Free, F[i].id = F[j].id
                 PROVE  i = j
      BY DEF OneSlotEach
    <4>1. F[i].id # 0 /\ F[j] # Free
      BY <3>3, ScheduleAssumption DEF Array, Timer, Free
    <4>2. F[i] = slots[i] /\ F[j] = slots[j]
      BY <3>2, <4>1
    <4>3. OneSlotEach(slots)
      BY DEF IInv
    <4>4. slots[i] # Free /\ slots[i].id = slots[j].id
      BY <4>2
    <4> QED
      BY <4>3, <4>4 DEF OneSlotEach
    <3> QED
      BY <3>1, <3>4 DEF HandInv, OneSlotEach
  <2>2. CASE Ring
    <3>1. PICK i \in First(InHand) : hand' = [hand EXCEPT ![i] = Free]
      BY <2>2 DEF Ring
    <3>2. hand \in Array /\ i \in Slots
      BY <2>2, <3>1 DEF IInv, TypeOK, Array, First, InHand
    <3>3. OneSlotEach(hand)'
      <4> SUFFICES ASSUME NEW j \in Slots, NEW k \in Slots,
                          hand'[j] # Free, hand'[j].id = hand'[k].id
                   PROVE  j = k
        BY DEF OneSlotEach
      <4>1. hand' \in Array
        BY <3>1, <3>2 DEF Array
      <4>2. hand'[j].id # 0
        BY <4>1, ScheduleAssumption DEF Array, Timer, Free
      <4>3. j # i /\ k # i
        BY <3>1, <3>2, <4>2 DEF Array, Free
      <4>4. hand'[j] = hand[j] /\ hand'[k] = hand[k]
        BY <3>1, <3>2, <4>3 DEF Array
      <4> QED
        BY <4>4 DEF HandInv, OneSlotEach
    <3> QED
      BY <2>2, <3>3 DEF Ring, HandInv
  <2>3. CASE FrameEnds
    <3>1. hand = Empty /\ hand' = hand
      BY <2>3 DEF FrameEnds, InHand, IInv, TypeOK, Empty
    <3> QED
      BY <3>1, EmptyIsArray DEF HandInv, OneSlotEach
  <2>4. CASE Restart
    BY <2>4, EmptyIsArray DEF Restart, HandInv
  <2>5. CASE hand' = hand /\ (step' = step \/ (step # "ring" /\ step' # "ring"))
    BY <2>5 DEF HandInv, OneSlotEach
  <2> QED
    BY <2>1, <2>2, <2>3, <2>4, <2>5
    DEF Next, Face, ClockTick, TimeSync, TimerSet, TimerCancel, Drained, vars
<1> QED
  BY <1>1, <1>2, Invariance, PTL DEF Spec

-----------------------------------------------------------------------------
(* What an array of slots says of an id. *)

(* The id of a slot that is taken is set for the time in that slot. *)
LEMMA TimeOfHeld ==
  ASSUME NEW array \in Array, OneSlotEach(array), NEW i \in Slots, array[i] # Free
  PROVE  /\ array[i].id \in Ids /\ array[i].at \in FireTimes
         /\ TimeOf(array, array[i].id) = array[i].at
<1>1. array[i].id \in Ids /\ array[i].at \in FireTimes
  BY DEF Array, Timer
<1> DEFINE c == CHOOSE j \in Slots : array[j].id = array[i].id
<1>2. c \in Slots /\ array[c].id = array[i].id
  OBVIOUS
<1>3. array[i].id # 0
  BY <1>1, ScheduleAssumption
<1>4. array[c] # Free
  BY <1>2, <1>3 DEF Free
<1>5. c = i
  BY <1>2, <1>4 DEF OneSlotEach
<1> QED
  BY <1>1, <1>5 DEF TimeOf

(* An id in no slot is not set. *)
LEMMA TimeOfNone ==
  ASSUME NEW array, NEW id, \A i \in Slots : array[i].id # id
  PROVE  TimeOf(array, id) = -1
BY DEF TimeOf

(* The slot of an id is taken. *)
LEMMA HeldIsTaken ==
  ASSUME NEW array \in Array, NEW id \in Ids, NEW i \in Slots, array[i].id = id
  PROVE  array[i] # Free
BY ScheduleAssumption DEF Free

(* Two arrays that hold an id alike agree on it. *)
LEMMA TimeOfSame ==
  ASSUME NEW a \in Array, NEW b \in Array, OneSlotEach(a), OneSlotEach(b), NEW id \in Ids,
         \A i \in Slots : a[i].id = id \/ b[i].id = id => a[i] = b[i]
  PROVE  TimeOf(a, id) = TimeOf(b, id)
<1>1. CASE \E i \in Slots : a[i].id = id
  <2>1. PICK i \in Slots : a[i].id = id
    BY <1>1
  <2>2. a[i] = b[i] /\ a[i] # Free
    BY <2>1, HeldIsTaken
  <2>3. TimeOf(a, id) = a[i].at
    BY <2>1, <2>2, TimeOfHeld
  <2>4. TimeOf(b, id) = b[i].at
    BY <2>1, <2>2, TimeOfHeld
  <2> QED
    BY <2>2, <2>3, <2>4
<1>2. CASE ~\E i \in Slots : a[i].id = id
  <2>1. \A i \in Slots : b[i].id # id
    BY <1>2
  <2> QED
    BY <1>2, <2>1 DEF TimeOf
<1> QED
  BY <1>1, <1>2

(* An id is set if and only if it has a slot. *)
LEMMA SetIsHeld ==
  ASSUME NEW array \in Array, OneSlotEach(array), NEW id \in Ids
  PROVE  TimeOf(array, id) # -1 <=> \E i \in Slots : array[i].id = id
<1>1. ASSUME NEW i \in Slots, array[i].id = id
      PROVE  TimeOf(array, id) # -1
  <2>1. TimeOf(array, id) \in FireTimes
    BY <1>1, HeldIsTaken, TimeOfHeld
  <2> QED
    BY <2>1, ScheduleAssumption
<1> QED
  BY <1>1 DEF TimeOf

AlarmsOf(array) == [id \in Ids |-> TimeOf(array, id)]

(* An empty array sets nothing. *)
LEMMA EmptySetsNothing == AlarmsOf(Empty) = Alarms!Nothing
<1>1. \A id \in Ids, i \in Slots : Empty[i].id # id
  BY ScheduleAssumption DEF Empty, Free
<1>2. \A id \in Ids : TimeOf(Empty, id) = -1
  BY <1>1, TimeOfNone
<1> QED
  BY <1>2 DEF AlarmsOf, Alarms!Nothing, Alarms!None

(* A timer put in the slot of its id, or in a free one if it has none,     *)
(* sets that id and no other.                                              *)
LEMMA PutSets ==
  ASSUME NEW array \in Array, OneSlotEach(array),
         NEW id \in Ids, NEW at \in FireTimes, NEW i \in Slots,
         \/ array[i].id = id
         \/ array[i] = Free /\ \A j \in Slots : array[j].id # id
  PROVE  AlarmsOf([array EXCEPT ![i] = [id |-> id, at |-> at]])
           = [AlarmsOf(array) EXCEPT ![id] = at]
<1> DEFINE new == [array EXCEPT ![i] = [id |-> id, at |-> at]]
<1>1. new \in Array /\ OneSlotEach(new)
  BY PutKeepsApart
<1>2. new[i].id = id /\ new[i].at = at /\ \A j \in Slots \ {i} : new[j] = array[j]
  BY DEF Array
<1> HIDE DEF new
<1>3. TimeOf(new, id) = at
  <2>1. new[i] # Free
    BY <1>1, <1>2, HeldIsTaken
  <2> QED
    BY <1>1, <1>2, <2>1, TimeOfHeld
<1>4. ASSUME NEW x \in Ids, x # id PROVE TimeOf(new, x) = TimeOf(array, x)
  <2>1. array[i].id # x /\ new[i].id # x
    BY <1>2, <1>4, ScheduleAssumption DEF Free
  <2>2. \A j \in Slots : array[j].id = x \/ new[j].id = x => array[j] = new[j]
    BY <1>2, <2>1
  <2> QED
    BY <1>1, <2>2, TimeOfSame
<1>5. AlarmsOf(new) = [AlarmsOf(array) EXCEPT ![id] = at]
  BY <1>3, <1>4 DEF AlarmsOf
<1> QED
  BY <1>5 DEF new

(* Slots that are cleared forget their ids and no other. *)
LEMMA ClearForgets ==
  ASSUME NEW array \in Array, OneSlotEach(array), NEW S \in SUBSET Slots, NEW id \in Ids
  PROVE  TimeOf([i \in Slots |-> IF i \in S THEN Free ELSE array[i]], id)
           = IF \E i \in S : array[i].id = id THEN -1 ELSE TimeOf(array, id)
<1> DEFINE new == [i \in Slots |-> IF i \in S THEN Free ELSE array[i]]
<1>1. new \in Array /\ OneSlotEach(new)
  BY ClearKeepsApart
<1>2. \A i \in Slots : new[i] = IF i \in S THEN Free ELSE array[i]
  OBVIOUS
<1> HIDE DEF new
<1>3. Free.id # id
  BY ScheduleAssumption DEF Free
<1>4. CASE \E i \in S : array[i].id = id
  <2>1. PICK i \in S : array[i].id = id
    BY <1>4
  <2>2. array[i] # Free
    BY <2>1, HeldIsTaken
  <2>3. \A j \in Slots : new[j].id # id
    BY <1>2, <1>3, <2>1, <2>2 DEF OneSlotEach
  <2> QED
    BY <1>4, <2>3, TimeOfNone DEF new
<1>5. CASE ~\E i \in S : array[i].id = id
  <2>1. \A j \in Slots : array[j].id = id \/ new[j].id = id => array[j] = new[j]
    BY <1>2, <1>3, <1>5
  <2>2. TimeOf(new, id) = TimeOf(array, id)
    BY <1>1, <2>1, TimeOfSame
  <2> QED
    BY <1>5, <2>2 DEF new
<1> QED
  BY <1>4, <1>5

(* While a slot is free, fewer ids are set than there are slots: each is   *)
(* in a slot of its own.                                                   *)
LEMMA FreeSlotMeansRoom ==
  ASSUME NEW array \in Array, OneSlotEach(array), NEW i \in Slots, array[i] = Free
  PROVE  Cardinality({id \in Ids : AlarmsOf(array)[id] # -1}) < MaxTimers
<1> DEFINE set == {id \in Ids : AlarmsOf(array)[id] # -1}
           taken == {j \in Slots : array[j] # Free}
           idOf == [j \in taken |-> array[j].id]
<1>1. \A id \in Ids : id \in set <=> \E j \in Slots : array[j].id = id
  BY SetIsHeld DEF AlarmsOf
<1>2. idOf \in [taken -> set]
  <2>1. \A j \in taken : array[j].id \in Ids
    BY TimeOfHeld
  <2> QED
    BY <1>1, <2>1
<1>3. \A id \in set : \E j \in taken : idOf[j] = id
  BY <1>1, HeldIsTaken
<1>4. idOf \in Surjection(taken, set)
  BY <1>2, <1>3 DEF Surjection
<1>5. IsFiniteSet(Slots) /\ Cardinality(Slots) = MaxTimers
  BY FS_Interval, ScheduleAssumption DEF Slots
<1>6. IsFiniteSet(Slots \ {i}) /\ Cardinality(Slots \ {i}) = MaxTimers - 1
  BY <1>5, FS_RemoveElement
<1>7. taken \in SUBSET (Slots \ {i})
  OBVIOUS
<1> HIDE DEF taken, set, idOf
<1>8. IsFiniteSet(taken) /\ Cardinality(taken) <= MaxTimers - 1
  BY <1>6, <1>7, FS_Subset
<1>9. IsFiniteSet(set) /\ Cardinality(set) <= Cardinality(taken)
  BY <1>4, <1>8, FS_Surjection
<1>10. Cardinality(set) \in Nat /\ Cardinality(taken) \in Nat
  BY <1>8, <1>9, FS_CardinalityType
<1>11. Cardinality(set) < MaxTimers
  BY <1>8, <1>9, <1>10, ScheduleAssumption
<1> QED
  BY <1>11 DEF set

-----------------------------------------------------------------------------
(* Each step of the agenda is a step of the alarm clock, or a stutter.     *)

RingingIds == {hand[i].id : i \in InHand}

(* What the alarm clock sees. *)
LEMMA SeenThrough ==
  ASSUME NEW X, X = AlarmsOf(slots)
  PROVE  /\ Alarms!Pending = {id \in Ids : X[id] # -1}
         /\ Alarms!DueIds = {id \in Ids : X[id] # -1 /\ X[id] <= now}
BY DEF Alarms!Pending, Alarms!DueIds, Alarms!None, AlarmsOf

(* No timer is in the hand: nothing rings. *)
LEMMA EmptyHand == hand = Empty => RingingIds = {}
BY DEF RingingIds, InHand, Empty

(* persist saves what is in memory, or leaves what was saved. *)
LEMMA PersistSaves ==
  ASSUME Persist
  PROVE  AlarmsOf(flash)' \in {AlarmsOf(flash), AlarmsOf(slots)'}
BY DEF Persist, AlarmsOf

(* TIMER_SET sets an alarm, or does nothing when there is no room.         *)
LEMMA SetMaps ==
  ASSUME TimersRight, RingingIds = {}, NEW id \in Ids, NEW at \in FireTimes,
         HandleSet(id, at), UNCHANGED <<hand, now>>
  PROVE  Alarms!Set(id, at) \/ UNCHANGED Alarms!avars
<1>1. CASE UNCHANGED svars
  BY <1>1 DEF Alarms!avars, svars, InHand
<1>2. CASE ~UNCHANGED svars
  <2>1. PICK i \in Places(id) : slots' = [slots EXCEPT ![i] = [id |-> id, at |-> at]]
    BY <1>2 DEF HandleSet
  <2>2. Persist
    BY <1>2 DEF HandleSet
  <2>3. /\ i \in Slots
        /\ \/ slots[i].id = id
           \/ slots[i] = Free /\ \A j \in Slots : slots[j].id # id
    BY <2>1 DEF Places, First, Holding, FreeSlots
  <2>4. slots \in Array /\ OneSlotEach(slots)
    BY DEF TimersRight, ScheduleType, Array
  <2>5. AlarmsOf(slots)' = [AlarmsOf(slots) EXCEPT ![id] = at]
    <3>1. AlarmsOf([slots EXCEPT ![i] = [id |-> id, at |-> at]])
            = [AlarmsOf(slots) EXCEPT ![id] = at]
      BY <2>3, <2>4, PutSets
    <3>2. AlarmsOf(slots)' = AlarmsOf(slots')
      BY DEF AlarmsOf, TimeOf
    <3> QED
      BY <2>1, <3>1, <3>2
  <2>6. id \in Alarms!Pending \/ Cardinality(Alarms!Pending) < MaxTimers
    <3>1. CASE slots[i].id = id
      <4>1. TimeOf(slots, id) # -1
        BY <2>3, <2>4, <3>1, SetIsHeld
      <4>2. Alarms!Pending = {x \in Ids : AlarmsOf(slots)[x] # -1}
        BY SeenThrough
      <4> QED
        BY <4>1, <4>2 DEF AlarmsOf
    <3>2. CASE slots[i] = Free
      BY <2>3, <2>4, <3>2, FreeSlotMeansRoom, SeenThrough
    <3> QED
      BY <2>3, <3>1, <3>2
  <2>7. AlarmsOf(flash)' \in {AlarmsOf(flash), AlarmsOf(slots)'}
    BY <2>2, PersistSaves
  <2>8. RingingIds' = RingingIds
    BY DEF RingingIds, InHand
  <2>9. Alarms!Save
    BY <2>7 DEF Alarms!Save, AlarmsOf
  <2>10. Alarms!Set(id, at)
    <3>1. Alarms!Cardinality(Alarms!Pending) = Cardinality(Alarms!Pending)
      BY DEF Alarms!Cardinality, Cardinality
    <3> QED
      BY <2>5, <2>6, <2>8, <2>9, <3>1 DEF Alarms!Set, AlarmsOf, RingingIds
  <2> QED
    BY <2>10
<1> QED
  BY <1>1, <1>2

(* TIMER_CANCEL forgets an alarm that is set, or does nothing.             *)
LEMMA CancelMaps ==
  ASSUME TimersRight, RingingIds = {}, NEW id \in Ids,
         HandleCancel(id), UNCHANGED <<hand, now>>
  PROVE  Alarms!Cancel(id) \/ UNCHANGED Alarms!avars
<1>1. CASE UNCHANGED svars
  BY <1>1 DEF Alarms!avars, svars, InHand
<1>2. CASE ~UNCHANGED svars
  <2>1. PICK i \in First(Holding(id)) : slots' = [slots EXCEPT ![i] = Free]
    BY <1>2 DEF HandleCancel
  <2>2. Persist
    BY <1>2 DEF HandleCancel
  <2>3. i \in Slots /\ slots[i].id = id
    BY <2>1 DEF First, Holding
  <2>4. slots \in Array /\ OneSlotEach(slots)
    BY DEF TimersRight, ScheduleType, Array
  <2> DEFINE S == {i}
  <2>5. slots' = [j \in Slots |-> IF j \in S THEN Free ELSE slots[j]]
    BY <2>1, <2>4 DEF Array
  <2>6. S \in SUBSET Slots /\ \A x \in Ids : (\E j \in S : slots[j].id = x) <=> x = id
    BY <2>3
  <2> HIDE DEF S
  <2>7. \A x \in Ids : TimeOf(slots, x)' = IF x = id THEN -1 ELSE TimeOf(slots, x)
    <3> SUFFICES ASSUME NEW x \in Ids
                 PROVE  TimeOf(slots, x)' = IF x = id THEN -1 ELSE TimeOf(slots, x)
      OBVIOUS
    <3>1. TimeOf([j \in Slots |-> IF j \in S THEN Free ELSE slots[j]], x)
            = IF \E j \in S : slots[j].id = x THEN -1 ELSE TimeOf(slots, x)
      BY <2>4, <2>6, ClearForgets
    <3>2. TimeOf(slots, x)' = TimeOf(slots', x)
      BY DEF TimeOf
    <3> QED
      BY <2>5, <2>6, <3>1, <3>2
  <2>8. AlarmsOf(slots)' = [AlarmsOf(slots) EXCEPT ![id] = -1]
    BY <2>7 DEF AlarmsOf
  <2>9. id \in Alarms!Pending
    <3>1. TimeOf(slots, id) # -1
      BY <2>3, <2>4, SetIsHeld
    <3>2. Alarms!Pending = {x \in Ids : AlarmsOf(slots)[x] # -1}
      BY SeenThrough
    <3> QED
      BY <3>1, <3>2 DEF AlarmsOf
  <2>10. AlarmsOf(flash)' \in {AlarmsOf(flash), AlarmsOf(slots)'}
    BY <2>2, PersistSaves
  <2>11. RingingIds' = RingingIds
    BY DEF RingingIds, InHand
  <2> QED
    BY <2>8, <2>9, <2>10, <2>11
    DEF Alarms!Cancel, Alarms!Save, Alarms!None, AlarmsOf, RingingIds
<1> QED
  BY <1>1, <1>2

(* All that is due leaves the array and is taken in hand: the alarm. *)
LEMMA FireMaps ==
  ASSUME TimersRight, now \in Nat, RingingIds = {},
         ScheduleTick(now), hand' = Fired(now), UNCHANGED now
  PROVE  Alarms!Alarm \/ UNCHANGED Alarms!avars
<1>1. slots \in Array /\ OneSlotEach(slots)
  BY DEF TimersRight, ScheduleType, Array
<1>2. RingingIds' = {slots[i].id : i \in Due(now)}
  <2>1. InHand' = Due(now)
    BY DEF InHand, Fired, Due
  <2>2. \A i \in Due(now) : hand'[i] = slots[i]
    BY DEF Fired, Due
  <2> QED
    BY <2>1, <2>2 DEF RingingIds
<1>3. CASE Due(now) = {}
  <2>1. UNCHANGED svars
    BY <1>3 DEF ScheduleTick
  <2>2. RingingIds' = RingingIds
    BY <1>2, <1>3
  <2> QED
    BY <2>1, <2>2 DEF Alarms!avars, svars, RingingIds
<1>4. CASE Due(now) # {}
  <2>1. Persist /\ slots' = [i \in Slots |-> IF i \in Due(now) THEN Free ELSE slots[i]]
    BY <1>4 DEF ScheduleTick
  <2>2. Due(now) \in SUBSET Slots
    BY DEF Due
  <2>3. \A id \in Ids : (\E i \in Due(now) : slots[i].id = id)
                       <=> TimeOf(slots, id) # -1 /\ TimeOf(slots, id) <= now
    <3> SUFFICES ASSUME NEW id \in Ids
                 PROVE  (\E i \in Due(now) : slots[i].id = id)
                        <=> TimeOf(slots, id) # -1 /\ TimeOf(slots, id) <= now
      OBVIOUS
    <3>1. ASSUME NEW i \in Due(now), slots[i].id = id
          PROVE  TimeOf(slots, id) # -1 /\ TimeOf(slots, id) <= now
      <4>1. i \in Slots /\ slots[i] # Free /\ slots[i].at <= now
        BY DEF Due
      <4>2. TimeOf(slots, id) = slots[i].at
        BY <1>1, <3>1, <4>1, TimeOfHeld
      <4> QED
        BY <1>1, <3>1, <4>1, <4>2, SetIsHeld
    <3>2. ASSUME TimeOf(slots, id) # -1, TimeOf(slots, id) <= now
          PROVE  \E i \in Due(now) : slots[i].id = id
      <4>1. PICK i \in Slots : slots[i].id = id
        BY <1>1, <3>2, SetIsHeld
      <4>2. slots[i] # Free
        BY <1>1, <4>1, HeldIsTaken
      <4>3. TimeOf(slots, id) = slots[i].at
        BY <1>1, <4>1, <4>2, TimeOfHeld
      <4>4. i \in Due(now)
        BY <3>2, <4>2, <4>3 DEF Due
      <4> QED
        BY <4>1, <4>4
    <3> QED
      BY <3>1, <3>2
  <2>4. \A id \in Ids : id \in Alarms!DueIds <=> \E i \in Due(now) : slots[i].id = id
    <3>1. Alarms!DueIds
            = {id \in Ids : AlarmsOf(slots)[id] # -1 /\ AlarmsOf(slots)[id] <= now}
      BY SeenThrough
    <3> QED
      BY <2>3, <3>1 DEF AlarmsOf
  <2>5. \A i \in Due(now) : slots[i].id \in Ids
    BY <1>1, TimeOfHeld DEF Due
  <2>6. Alarms!DueIds = RingingIds' /\ Alarms!DueIds # {}
    <3>1. Alarms!DueIds \subseteq Ids
      BY SeenThrough
    <3> QED
      BY <1>2, <1>4, <2>4, <2>5, <3>1
  <2>7. AlarmsOf(slots)'
          = [id \in Ids |-> IF id \in Alarms!DueIds THEN -1 ELSE AlarmsOf(slots)[id]]
    <3>1. ASSUME NEW id \in Ids
          PROVE  TimeOf(slots', id) = IF id \in Alarms!DueIds THEN -1 ELSE TimeOf(slots, id)
      <4>1. TimeOf([i \in Slots |-> IF i \in Due(now) THEN Free ELSE slots[i]], id)
              = IF \E i \in Due(now) : slots[i].id = id THEN -1 ELSE TimeOf(slots, id)
        BY <1>1, <2>2, ClearForgets
      <4> QED
        BY <2>1, <2>4, <4>1
    <3>2. AlarmsOf(slots)' = AlarmsOf(slots')
      BY DEF AlarmsOf, TimeOf
    <3> QED
      BY <3>1, <3>2 DEF AlarmsOf
  <2>8. Alarms!Save
    BY <2>1, PersistSaves DEF Alarms!Save, AlarmsOf
  <2>9. Alarms!Alarm
    BY <2>6, <2>7, <2>8 DEF Alarms!Alarm, Alarms!None, AlarmsOf, RingingIds
  <2> QED
    BY <2>9
<1> QED
  BY <1>3, <1>4

(* What takes effect leaves the hand: a ring. *)
LEMMA RingMaps ==
  ASSUME hand \in Array, OneSlotEach(hand), Ring
  PROVE  \E id \in Ids : Alarms!Ring(id)
<1>1. PICK i \in First(InHand) : hand' = [hand EXCEPT ![i] = Free]
  BY DEF Ring
<1>2. i \in Slots /\ hand[i] # Free
  BY <1>1 DEF First, InHand
<1>3. PICK id \in Ids : id = hand[i].id
  BY <1>2 DEF Array, Timer
<1>4. id \in Ids /\ id \in RingingIds
  BY <1>2, <1>3 DEF RingingIds, InHand
<1>5. InHand' = InHand \ {i}
  BY <1>1, <1>2 DEF InHand, Array
<1>6. \A j \in InHand \ {i} : hand'[j] = hand[j] /\ hand[j].id # id
  BY <1>1, <1>2, <1>3 DEF InHand, Array, OneSlotEach
<1>7. RingingIds' = RingingIds \ {id}
  <2>1. RingingIds' = {hand'[j].id : j \in InHand \ {i}}
    BY <1>5 DEF RingingIds
  <2> QED
    BY <1>2, <1>6, <1>3, <2>1 DEF RingingIds, InHand
<1>8. UNCHANGED <<slots, flash, now>>
  BY DEF Ring, svars
<1>9. Alarms!Ring(id)
  BY <1>4, <1>7, <1>8 DEF Alarms!Ring, RingingIds
<1> QED
  BY <1>4, <1>9

(* A restart is back at what was saved, or at nothing. *)
LEMMA RestartMaps ==
  ASSUME Restart, now' \in Nat
  PROVE  Alarms!Restart
<1>1. AlarmsOf(slots)' = AlarmsOf(slots') /\ AlarmsOf(flash)' = AlarmsOf(flash')
  BY DEF AlarmsOf, TimeOf
<1>2. \/ AlarmsOf(slots') = AlarmsOf(flash) /\ AlarmsOf(flash') = AlarmsOf(flash)
      \/ AlarmsOf(slots') = Alarms!Nothing /\ AlarmsOf(flash') = Alarms!Nothing
      \/ AlarmsOf(slots') = Alarms!Nothing /\ AlarmsOf(flash') = AlarmsOf(flash)
  BY EmptySetsNothing DEF Restart, ScheduleRestart
<1>3. RingingIds' = {}
  BY DEF Restart, RingingIds, InHand, Empty
<1> QED
  BY <1>1, <1>2, <1>3 DEF Alarms!Restart, AlarmsOf, RingingIds

(* The first boot is a clock with no alarm. *)
LEMMA InitMaps == Init => Alarms!Init
<1> SUFFICES ASSUME Init PROVE Alarms!Init
  OBVIOUS
<1>1. AlarmsOf(slots) = Alarms!Nothing /\ AlarmsOf(flash) = Alarms!Nothing
  BY EmptySetsNothing DEF Init, ScheduleInit
<1>2. RingingIds = {}
  BY EmptyHand DEF Init
<1>3. now \in Nat
  BY AgendaAssumption DEF Init
<1> QED
  BY <1>1, <1>2, <1>3 DEF Alarms!Init, AlarmsOf, RingingIds

(* Every step maps to a step of the clock or a stutter. *)
LEMMA NextMaps == IInv /\ IInv' /\ HandInv /\ [Next]_vars => [Alarms!Next]_(Alarms!avars)
<1> SUFFICES ASSUME IInv, IInv', HandInv, [Next]_vars
             PROVE  Alarms!Next \/ UNCHANGED Alarms!avars
  OBVIOUS
<1>a. TimersRight
  BY DEF TimersRight, IInv, TypeOK
<1>b. now \in Nat /\ now' \in Nat
  BY AgendaAssumption DEF IInv, TypeOK, Times
<1>c. step # "ring" => RingingIds = {}
  BY EmptyHand DEF HandInv
<1>d. ASSUME UNCHANGED <<slots, flash, hand>> PROVE Alarms!Clock
  BY <1>b, <1>d DEF Alarms!Clock, InHand
<1>1. CASE ClockTick \/ Drained \/ FrameEnds \/ UNCHANGED vars
  <2>1. UNCHANGED <<slots, flash, hand>>
    BY <1>1 DEF ClockTick, Drained, FrameEnds, svars, vars
  <2> QED
    BY <1>d, <2>1 DEF Alarms!Next
<1>2. ASSUME NEW t \in Times, TimeSync(t) PROVE Alarms!Next
  BY <1>2, <1>d DEF TimeSync, svars, Alarms!Next
<1>3. ASSUME NEW id \in Ids, NEW at \in FireTimes, TimerSet(id, at)
      PROVE  Alarms!Next \/ UNCHANGED Alarms!avars
  <2>1. HandleSet(id, at) /\ UNCHANGED <<hand, now>> /\ RingingIds = {}
    BY <1>3, <1>c DEF TimerSet
  <2>2. Alarms!Set(id, at) \/ UNCHANGED Alarms!avars
    BY <1>a, <2>1, SetMaps
  <2> QED
    BY <2>2 DEF Alarms!Next
<1>4. ASSUME NEW id \in Ids, TimerCancel(id)
      PROVE  Alarms!Next \/ UNCHANGED Alarms!avars
  <2>1. HandleCancel(id) /\ UNCHANGED <<hand, now>> /\ RingingIds = {}
    BY <1>4, <1>c DEF TimerCancel
  <2>2. Alarms!Cancel(id) \/ UNCHANGED Alarms!avars
    BY <1>a, <2>1, CancelMaps
  <2> QED
    BY <2>2 DEF Alarms!Next
<1>5. CASE FireDue
  <2>1. ScheduleTick(now) /\ hand' = Fired(now) /\ UNCHANGED now /\ RingingIds = {}
    BY <1>5, <1>c DEF FireDue
  <2>2. Alarms!Alarm \/ UNCHANGED Alarms!avars
    BY <1>a, <1>b, <2>1, FireMaps
  <2> QED
    BY <2>2 DEF Alarms!Next
<1>6. CASE Ring
  <2>1. hand \in Array /\ OneSlotEach(hand)
    BY DEF IInv, TypeOK, HandInv, Array
  <2>2. \E id \in Ids : Alarms!Ring(id)
    BY <1>6, <2>1, RingMaps
  <2> QED
    BY <2>2 DEF Alarms!Next
<1>7. CASE Restart
  BY <1>7, <1>b, RestartMaps DEF Alarms!Next
<1> QED
  BY <1>1, <1>2, <1>3, <1>4, <1>5, <1>6, <1>7 DEF Next, Face

(* The timers of the robot implement the alarm clock, for every number of  *)
(* slots, of ids and of times: none is early, doubled, or forgotten but    *)
(* by its ring, whatever fails and whenever it restarts.                   *)
THEOREM AgendaKeepsAlarms == Spec => KeepsAlarms
<1> QED
  BY InitMaps, NextMaps, Invariance, HandInvariance, PTL DEF Spec, KeepsAlarms, Alarms!Spec
=============================================================================
