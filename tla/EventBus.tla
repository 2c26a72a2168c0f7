------------------------------ MODULE EventBus ------------------------------
(***************************************************************************)
(* The event bus of the firmware (infra/event_bus): a pool of slots, some  *)
(* of them reserved for safety events, two rings of slot indices and a     *)
(* ring of audit entries.  The shell runs each call inside one critical    *)
(* section, so a call is one step, and calls of different tasks            *)
(* interleave.                                                             *)
(***************************************************************************)
EXTENDS Ring, FiniteSets

CONSTANTS MaxSlots,       \* NB_EVENT_BUS_MAX_SLOTS
          ReservedSlots,  \* NB_EVENT_BUS_SAFETY_RESERVED_SLOTS
          AuditCapacity,  \* NB_EVENT_BUS_AUDIT_CAPACITY
          CounterMod,     \* the counters of the statistics are uint32_t: 2^32
          Types           \* event types (the payload is not looked at)

ASSUME BusAssumption ==
  /\ MaxSlots \in Nat /\ ReservedSlots \in Nat
  /\ ReservedSlots > 0 /\ ReservedSlots < MaxSlots
  /\ AuditCapacity \in Nat \ {0}
  /\ CounterMod \in Nat \ {0}
  /\ Types # {}

VARIABLES slots,                     \* slots[i]: its event, or Free
          normalQueue, safetyQueue,  \* rings of slot indices
          stats,                     \* nb_event_bus_stats_t, but dropped_*
          audit                      \* audit entries, write index and count

vars == <<slots, normalQueue, safetyQueue, stats, audit>>

Slot == 0..MaxSlots-1
Reserved == 0..ReservedSlots-1       \* slots[i].safety_reserved
NormalSlots == MaxSlots - ReservedSlots
Priority == {"normal", "safety"}
Event == [type: Types, priority: Priority]

(* slots[i].in_use is FALSE; the event last stored there is out of reach.  *)
Free == [type |-> "none", priority |-> "none"]

AuditEntry == [action: {"published", "dropped", "polled"},
               status: {"ok", "full", "payload_too_large", "invalid_arg"},
               type: Types \cup {"none"},
               priority: Priority \cup {"unknown", "none"}]

Bump(n) == (n + 1) % CounterMod

-----------------------------------------------------------------------------
(* The two rings, seen through a priority. *)
Capacity(p) == IF p = "safety" THEN MaxSlots ELSE NormalSlots
Queue(p) == IF p = "safety" THEN safetyQueue ELSE normalQueue

(* nb_event_bus_alloc_slot: the free slots a priority may take now.  A     *)
(* safety event takes a reserved slot while there is one; the call picks   *)
(* the lowest index.                                                       *)
InUse == {i \in Slot : slots[i] # Free}
Pool(p) == IF p = "safety" /\ Reserved \ InUse # {}
           THEN Reserved \ InUse
           ELSE (Slot \ Reserved) \ InUse
Lowest(S) == {i \in S : \A j \in S : i <= j}

(* nb_event_bus_refresh_free_counts, on the values the call leaves. *)
Refresh(s, pool, nq, sq) ==
  [s EXCEPT !.freeNormal = Cardinality({i \in Slot \ Reserved : pool[i] = Free}),
            !.freeSafety = Cardinality({i \in Reserved : pool[i] = Free}),
            !.pending    = [p \in Priority |->
                              IF p = "safety" THEN sq.count ELSE nq.count]]

(* nb_event_bus_audit: overwrite the oldest entry once the ring is full. *)
Record(a, entry) ==
  [entries |-> [a.entries EXCEPT ![a.head] = entry],
   head    |-> Wrap(a.head + 1, AuditCapacity),
   count   |-> IF a.count < AuditCapacity THEN a.count + 1 ELSE a.count]

Entry(e, action, status) ==
  [action |-> action, status |-> status, type |-> e.type,
   priority |-> e.priority]

(* nb_event_bus_copy_audit with room for every entry. *)
CopyAudit(a) ==
  LET start == IF a.count = AuditCapacity THEN a.head ELSE 0
  IN  [i \in 1..a.count |-> a.entries[Wrap(start + i - 1, AuditCapacity)]]

-----------------------------------------------------------------------------
Init ==
  /\ slots = [i \in Slot |-> Free]
  /\ normalQueue = EmptyRing(NormalSlots, 0)
  /\ safetyQueue = EmptyRing(MaxSlots, 0)
  /\ stats = [published  |-> [p \in Priority |-> 0],
              polled     |-> [p \in Priority |-> 0],
              pending    |-> [p \in Priority |-> 0],
              freeNormal |-> NormalSlots,
              freeSafety |-> ReservedSlots]
  /\ audit = [entries |-> [i \in 0..AuditCapacity-1 |->
                             Entry(Free, "published", "ok")],
              head |-> 0, count |-> 0]

(* nb_event_bus_publish refuses a malformed event and records only that. *)
Reject(t, p, status) ==
  /\ audit' = Record(audit, [action |-> "dropped", status |-> status,
                             type |-> t, priority |-> p])
  /\ UNCHANGED <<slots, normalQueue, safetyQueue, stats>>

PublishTooLarge(e) == Reject(e.type, e.priority, "payload_too_large")
PublishBadPriority(t) == Reject(t, "unknown", "invalid_arg")

(* No slot (or, in the branch after queue_push, no room in the ring). *)
PublishFull(e) ==
  /\ Pool(e.priority) = {} \/ Queue(e.priority).count >= Capacity(e.priority)
  /\ stats' = Refresh(stats, slots, normalQueue, safetyQueue)
  /\ audit' = Record(audit, Entry(e, "dropped", "full"))
  /\ UNCHANGED <<slots, normalQueue, safetyQueue>>

Publish(e) ==
  /\ Queue(e.priority).count < Capacity(e.priority)
  /\ \E i \in Lowest(Pool(e.priority)) :
       /\ slots' = [slots EXCEPT ![i] = e]
       /\ safetyQueue' = IF e.priority = "safety"
                         THEN RingPush(safetyQueue, MaxSlots, i)
                         ELSE safetyQueue
       /\ normalQueue' = IF e.priority = "safety"
                         THEN normalQueue
                         ELSE RingPush(normalQueue, NormalSlots, i)
  /\ stats' = Refresh([stats EXCEPT !.published[e.priority] = Bump(@)],
                      slots', normalQueue', safetyQueue')
  /\ audit' = Record(audit, Entry(e, "published", "ok"))

(* Mutant: in_use is not cleared. *)
DeliverKeepsSlot(i) ==
  /\ stats' = Refresh([stats EXCEPT !.polled[slots[i].priority] = Bump(@)],
                      slots, normalQueue', safetyQueue')
  /\ audit' = Record(audit, Entry(slots[i], "polled", "ok"))
  /\ UNCHANGED slots
(* nb_event_bus_poll gives slot i back; its event goes to the caller. *)
Deliver(i) ==
  /\ slots' = [slots EXCEPT ![i] = Free]
  /\ stats' = Refresh([stats EXCEPT !.polled[slots[i].priority] = Bump(@)],
                      slots', normalQueue', safetyQueue')
  /\ audit' = Record(audit, Entry(slots[i], "polled", "ok"))

(* Mutant: the two queues are tried in the other order. *)
PollSafetyLast ==
  /\ normalQueue.count = 0
  /\ safetyQueue.count > 0
  /\ safetyQueue' = RingPop(safetyQueue, MaxSlots)
  /\ UNCHANGED normalQueue
  /\ Deliver(RingFront(safetyQueue))
PollSafety ==
  /\ safetyQueue.count > 0
  /\ safetyQueue' = RingPop(safetyQueue, MaxSlots)
  /\ UNCHANGED normalQueue
  /\ Deliver(RingFront(safetyQueue))

(* Mutant: the safety queue is not tried first. *)
PollNormalAnyTime ==
  /\ normalQueue.count > 0
  /\ normalQueue' = RingPop(normalQueue, NormalSlots)
  /\ UNCHANGED safetyQueue
  /\ Deliver(RingFront(normalQueue))
PollNormal ==
  /\ safetyQueue.count = 0
  /\ normalQueue.count > 0
  /\ normalQueue' = RingPop(normalQueue, NormalSlots)
  /\ UNCHANGED safetyQueue
  /\ Deliver(RingFront(normalQueue))

Poll == PollSafety \/ PollNormal

Next ==
  \/ \E e \in Event : Publish(e) \/ PublishFull(e) \/ PublishTooLarge(e)
  \/ \E t \in Types : PublishBadPriority(t)
  \/ Poll

Spec == Init /\ [][Next]_vars

(* The face task drains the bus on every frame and never stops. *)
FairSpec == Spec /\ WF_vars(Poll)
-----------------------------------------------------------------------------
TypeOK ==
  /\ slots \in [Slot -> Event \cup {Free}]
  /\ RingType(normalQueue, NormalSlots, Slot)
  /\ RingType(safetyQueue, MaxSlots, Slot)
  /\ stats \in [published: [Priority -> 0..CounterMod-1],
                polled:    [Priority -> 0..CounterMod-1],
                pending:   [Priority -> 0..MaxSlots],
                freeNormal: 0..MaxSlots, freeSafety: 0..MaxSlots]
  /\ audit \in [entries: [0..AuditCapacity-1 -> AuditEntry],
                head: 0..AuditCapacity-1, count: 0..AuditCapacity]

(* Ring q holds the slots of priority p: every one of them, each once, and *)
(* nothing else.                                                           *)
HoldsExactly(q, cap, p) ==
  LET held == RingContents(q, cap)
  IN  /\ \A k \in 1..q.count : slots[held[k]].priority = p
      /\ \A k, l \in 1..q.count : held[k] = held[l] => k = l
      /\ \A i \in Slot : slots[i].priority = p => \E k \in 1..q.count : held[k] = i

(* No slot leaks and none is queued twice or under the wrong priority: the *)
(* slots in use are those the two rings hold (publish and poll together).  *)
SlotsAccountedFor ==
  /\ HoldsExactly(normalQueue, NormalSlots, "normal")
  /\ HoldsExactly(safetyQueue, MaxSlots, "safety")

(* The reserved slots are out of reach of normal traffic whatever was      *)
(* published before: README.md of event_bus.                               *)
NormalSparesReserve ==
  \A i \in Reserved : slots[i].priority # "normal"

(* Whenever a slot can be had, its ring has room for the index: the two    *)
(* capacities (28 and 32) fit the pool, and the branch that undoes the     *)
(* allocation after a failed queue_push is never taken.                    *)
RingsFitThePool ==
  \A p \in Priority : Pool(p) # {} => Queue(p).count < Capacity(p)

(* The counters and the snapshot a caller of get_stats sees agree with the *)
(* bus, across wrap-around of the counters.                                *)
StatsAgree ==
  /\ \A p \in Priority :
       /\ stats.pending[p] = Queue(p).count
       /\ stats.published[p] = (stats.polled[p] + Queue(p).count) % CounterMod
  /\ stats.freeNormal = Cardinality((Slot \ Reserved) \ InUse)
  /\ stats.freeSafety = Cardinality(Reserved \ InUse)

(* The bus with its slots, rings and audit ring does what TwoLaneBus says. *)
LaneOf(pool, q, cap) == [k \in 1..q.count |-> pool[RingContents(q, cap)[k]]]
Lanes == INSTANCE TwoLaneBus WITH
           Room <- MaxSlots, SafeRoom <- ReservedSlots,
           LogLength <- AuditCapacity,
           normal <- LaneOf(slots, normalQueue, NormalSlots),
           safety <- LaneOf(slots, safetyQueue, MaxSlots),
           log <- CopyAudit(audit)
TwoLanes == Lanes!Spec

(* Every reserved slot comes back while the face task keeps polling, even  *)
(* if publishers never pause: the reserve cannot be used up for good.      *)
ReserveComesBack == \A i \in Reserved : (i \in InUse) ~> (i \notin InUse)
=============================================================================
