--------------------------- MODULE EventBusProofs ---------------------------
(***************************************************************************)
(* The event bus for every pool size, every reserve, every audit capacity  *)
(* and every counter width.                                                *)
(***************************************************************************)
EXTENDS EventBus, RingProofs, FiniteSetTheorems, SequenceTheorems

(* A pool as a function, so that the lemmas speak of the slots before and  *)
(* after a call in the same words.                                         *)
Pools == [Slot -> Event \cup {Free}]
HeldBy(pool, p) == {i \in Slot : pool[i].priority = p}
FreeIn(pool, S) == {i \in S : pool[i] = Free}

LaneInv(q, cap, p, pool) ==
  /\ RingType(q, cap, Slot)
  /\ RingCoherent(q, cap)
  /\ \A k \in 1..q.count : pool[RingContents(q, cap)[k]].priority = p
  /\ \A k, l \in 1..q.count :
       RingContents(q, cap)[k] = RingContents(q, cap)[l] => k = l
  /\ \A i \in Slot : pool[i].priority = p =>
       \E k \in 1..q.count : RingContents(q, cap)[k] = i
  /\ q.count = Cardinality(HeldBy(pool, p))

LEMMA Constants ==
  /\ MaxSlots \in Nat \ {0} /\ NormalSlots \in Nat \ {0}
  /\ ReservedSlots \in 1..MaxSlots-1
  /\ NormalSlots + ReservedSlots = MaxSlots
  /\ IsFiniteSet(Slot) /\ Cardinality(Slot) = MaxSlots
  /\ IsFiniteSet(Reserved) /\ Reserved \subseteq Slot
  /\ IsFiniteSet(Slot \ Reserved) /\ Cardinality(Slot \ Reserved) = NormalSlots
<1>1. /\ MaxSlots \in Nat \ {0} /\ NormalSlots \in Nat \ {0}
      /\ ReservedSlots \in 1..MaxSlots-1
      /\ NormalSlots + ReservedSlots = MaxSlots
  BY BusAssumption DEF NormalSlots
<1>2. IsFiniteSet(Slot) /\ Cardinality(Slot) = MaxSlots
  BY <1>1, FS_Interval DEF Slot
<1>3. Slot \ Reserved = ReservedSlots..MaxSlots-1
  BY <1>1 DEF Slot, Reserved
<1>4. /\ IsFiniteSet(Slot \ Reserved)
      /\ Cardinality(Slot \ Reserved) = NormalSlots
  <2>1. /\ IsFiniteSet(ReservedSlots..MaxSlots-1)
        /\ Cardinality(ReservedSlots..MaxSlots-1) = (MaxSlots - 1) - ReservedSlots + 1
    BY <1>1, FS_Interval
  <2>2. (MaxSlots - 1) - ReservedSlots + 1 = NormalSlots  BY <1>1
  <2>3. QED  BY <2>1, <2>2, <1>3
<1>5. IsFiniteSet(Reserved) /\ Reserved \subseteq Slot
  BY <1>1, FS_Interval DEF Slot, Reserved
<1>6. QED  BY <1>1, <1>2, <1>4, <1>5

(* A slot whose event has another priority before and after a call does    *)
(* not touch the lane.                                                     *)
LEMMA LaneFrame ==
  ASSUME NEW q, NEW cap \in Nat \ {0}, NEW p \in Priority,
         NEW pool \in Pools, LaneInv(q, cap, p, pool),
         NEW i \in Slot, pool[i].priority # p,
         NEW v \in Event \cup {Free}, v.priority # p
  PROVE  LaneInv(q, cap, p, [pool EXCEPT ![i] = v])
<1> DEFINE after == [pool EXCEPT ![i] = v]
<1>1. \A j \in Slot : after[j].priority = p <=> pool[j].priority = p
  BY DEF Pools
<1>2. HeldBy(after, p) = HeldBy(pool, p)
  BY <1>1 DEF HeldBy
<1>3. RingContents(q, cap) \in [1..q.count -> Slot]
  BY ContentsTyped DEF LaneInv
<1>4. QED  BY <1>1, <1>2, <1>3 DEF LaneInv

(* Publishing into a free slot extends the lane of the event's priority.   *)
LEMMA LanePush ==
  ASSUME NEW q, NEW cap \in Nat \ {0}, NEW p \in Priority,
         NEW pool \in Pools, LaneInv(q, cap, p, pool), q.count < cap,
         NEW i \in Slot, pool[i] = Free,
         NEW v \in Event, v.priority = p
  PROVE  LaneInv(RingPush(q, cap, i), cap, p, [pool EXCEPT ![i] = v])
<1> DEFINE after == [pool EXCEPT ![i] = v]
           r == RingPush(q, cap, i)
<1>1. /\ RingType(r, cap, Slot) /\ RingCoherent(r, cap)
      /\ r.count = q.count + 1
      /\ \A k \in 1..q.count : RingContents(r, cap)[k] = RingContents(q, cap)[k]
      /\ RingContents(r, cap)[q.count + 1] = i
  BY PushAppends DEF LaneInv
<1>2. q.count \in Nat  BY DEF LaneInv, RingType
<1>3. pool[i].priority # p  BY DEF Free, Priority
<1>4. /\ after[i].priority = p
      /\ \A j \in Slot \ {i} : after[j] = pool[j]
  BY DEF Pools
<1>5. RingContents(q, cap) \in [1..q.count -> Slot]
  BY ContentsTyped DEF LaneInv
<1>6. \A k \in 1..q.count : RingContents(q, cap)[k] # i
  BY <1>3, <1>5 DEF LaneInv
<1>7. \A k \in 1..r.count : k \in 1..q.count \/ k = q.count + 1
  BY <1>1, <1>2
<1>8. \A k \in 1..r.count : after[RingContents(r, cap)[k]].priority = p
  BY <1>1, <1>4, <1>5, <1>6, <1>7 DEF LaneInv
<1>9. \A k, l \in 1..r.count :
         RingContents(r, cap)[k] = RingContents(r, cap)[l] => k = l
  BY <1>1, <1>6, <1>7 DEF LaneInv
<1>10. \A j \in Slot : after[j].priority = p =>
         \E k \in 1..r.count : RingContents(r, cap)[k] = j
  <2> SUFFICES ASSUME NEW j \in Slot, after[j].priority = p
               PROVE  \E k \in 1..r.count : RingContents(r, cap)[k] = j
    OBVIOUS
  <2>1. CASE j = i
    BY <2>1, <1>1, <1>2
  <2>2. CASE j # i
    <3>1. PICK k \in 1..q.count : RingContents(q, cap)[k] = j
      BY <2>2, <1>4 DEF LaneInv
    <3>2. k \in 1..r.count  BY <1>1, <1>2
    <3>3. QED  BY <3>1, <3>2, <1>1
  <2>3. QED  BY <2>1, <2>2
<1>11. r.count = Cardinality(HeldBy(after, p))
  <2>1. HeldBy(after, p) = HeldBy(pool, p) \cup {i}
    BY <1>4 DEF HeldBy
  <2>2. i \notin HeldBy(pool, p)  BY <1>3 DEF HeldBy
  <2>3. IsFiniteSet(HeldBy(pool, p))
    BY Constants, FS_Subset DEF HeldBy
  <2>4. Cardinality(HeldBy(pool, p) \cup {i}) = Cardinality(HeldBy(pool, p)) + 1
    BY <2>2, <2>3, FS_AddElement
  <2>5. q.count = Cardinality(HeldBy(pool, p))  BY DEF LaneInv
  <2>6. QED  BY <2>1, <2>4, <2>5, <1>1
<1>12. QED  BY <1>1, <1>8, <1>9, <1>10, <1>11 DEF LaneInv

(* Polling frees the slot the lane gives up, and only that one.            *)
LEMMA LanePop ==
  ASSUME NEW q, NEW cap \in Nat \ {0}, NEW p \in Priority,
         NEW pool \in Pools, LaneInv(q, cap, p, pool), q.count > 0
  PROVE  /\ RingFront(q) \in Slot
         /\ pool[RingFront(q)].priority = p
         /\ LaneInv(RingPop(q, cap), cap, p, [pool EXCEPT ![RingFront(q)] = Free])
<1> DEFINE i == RingFront(q)
           after == [pool EXCEPT ![i] = Free]
           r == RingPop(q, cap)
<1>1. /\ RingType(r, cap, Slot) /\ RingCoherent(r, cap)
      /\ r.count = q.count - 1
      /\ i = RingContents(q, cap)[1]
      /\ \A k \in 1..(q.count - 1) :
           RingContents(r, cap)[k] = RingContents(q, cap)[k + 1]
  BY PopRemovesOldest DEF LaneInv
<1>2. q.count \in Nat \ {0} /\ 1 \in 1..q.count  BY DEF LaneInv, RingType
<1>3. RingContents(q, cap) \in [1..q.count -> Slot]
  BY ContentsTyped DEF LaneInv
<1>4. i \in Slot /\ pool[i].priority = p
  BY <1>1, <1>2, <1>3 DEF LaneInv
<1>5. /\ after[i].priority # p
      /\ \A j \in Slot \ {i} : after[j] = pool[j]
  BY <1>4 DEF Pools, Free, Priority
<1>6. \A k \in 1..r.count : k + 1 \in 1..q.count /\ k + 1 # 1
  BY <1>1, <1>2
<1>7. \A k \in 1..r.count : RingContents(r, cap)[k] \in Slot \ {i}
  BY <1>1, <1>2, <1>3, <1>6 DEF LaneInv
<1>8. \A k \in 1..r.count : after[RingContents(r, cap)[k]].priority = p
  BY <1>1, <1>5, <1>6, <1>7 DEF LaneInv
<1>9. \A k, l \in 1..r.count :
         RingContents(r, cap)[k] = RingContents(r, cap)[l] => k = l
  <2> SUFFICES ASSUME NEW k \in 1..r.count, NEW l \in 1..r.count,
                      RingContents(r, cap)[k] = RingContents(r, cap)[l]
               PROVE  k = l
    OBVIOUS
  <2>1. RingContents(q, cap)[k + 1] = RingContents(q, cap)[l + 1]  BY <1>1
  <2>2. k + 1 = l + 1  BY <2>1, <1>6 DEF LaneInv
  <2>3. QED  BY <2>2
<1>10. \A j \in Slot : after[j].priority = p =>
         \E k \in 1..r.count : RingContents(r, cap)[k] = j
  <2> SUFFICES ASSUME NEW j \in Slot, after[j].priority = p
               PROVE  \E k \in 1..r.count : RingContents(r, cap)[k] = j
    OBVIOUS
  <2>1. j # i  BY <1>5
  <2>2. PICK k \in 1..q.count : RingContents(q, cap)[k] = j
    BY <2>1, <1>5 DEF LaneInv
  <2>3. k # 1  BY <2>1, <2>2, <1>1
  <2>4. k - 1 \in 1..r.count /\ (k - 1) + 1 = k  BY <2>3, <1>1, <1>2
  <2>5. RingContents(r, cap)[k - 1] = j  BY <2>2, <2>4, <1>1
  <2>6. QED  BY <2>4, <2>5
<1>11. r.count = Cardinality(HeldBy(after, p))
  <2>1. HeldBy(after, p) = HeldBy(pool, p) \ {i}
    BY <1>4, <1>5 DEF HeldBy
  <2>2. i \in HeldBy(pool, p)  BY <1>4 DEF HeldBy
  <2>3. IsFiniteSet(HeldBy(pool, p))
    BY Constants, FS_Subset DEF HeldBy
  <2>4. Cardinality(HeldBy(pool, p) \ {i}) = Cardinality(HeldBy(pool, p)) - 1
    BY <2>2, <2>3, FS_RemoveElement
  <2>5. q.count = Cardinality(HeldBy(pool, p))  BY DEF LaneInv
  <2>6. QED  BY <2>1, <2>4, <2>5, <1>1
<1>12. QED  BY <1>1, <1>4, <1>8, <1>9, <1>10, <1>11 DEF LaneInv

-----------------------------------------------------------------------------
(* The counters: the difference of two counters modulo their width is kept *)
(* by bumping one of them, across wrap-around.                             *)
LEMMA Division ==
  ASSUME NEW m \in Nat \ {0}, NEW a \in Nat
  PROVE  /\ a \div m \in Nat /\ a % m \in 0..m-1
         /\ a = m * (a \div m) + (a % m)
OBVIOUS

LEMMA Remainder ==
  ASSUME NEW m \in Nat \ {0}, NEW d \in Nat, NEW r \in 0..m-1
  PROVE  (m * d + r) % m = r
OBVIOUS

LEMMA BumpAfter ==
  ASSUME NEW a \in Nat, NEW m \in Nat \ {0}
  PROVE  ((a % m) + 1) % m = (a + 1) % m
<1> DEFINE d == a \div m
           r == a % m
<1>1. d \in Nat /\ r \in 0..m-1 /\ a = m * d + r  BY Division
<1> HIDE DEF d, r
<1>2. CASE r + 1 < m
  <2>1. r + 1 \in 0..m-1 /\ a + 1 = m * d + (r + 1)  BY <1>1, <1>2
  <2>2. (a + 1) % m = r + 1  BY <2>1, <1>1, Remainder
  <2>3. (r + 1) % m = r + 1  BY <2>1
  <2>4. QED  BY <2>2, <2>3 DEF r
<1>3. CASE r + 1 = m
  <2>1. d + 1 \in Nat /\ 0 \in 0..m-1 /\ a + 1 = m * (d + 1) + 0  BY <1>1, <1>3
  <2>2. (a + 1) % m = 0  BY <2>1, Remainder
  <2>3. (r + 1) % m = 0  BY <1>3
  <2>4. QED  BY <2>2, <2>3 DEF r
<1>4. QED  BY <1>1, <1>2, <1>3

LEMMA BumpBefore ==
  ASSUME NEW m \in Nat \ {0}, NEW x \in 0..m-1, NEW y \in Nat
  PROVE  (((x + 1) % m) + y) % m = (x + (y + 1)) % m
<1>1. CASE x + 1 < m
  BY <1>1
<1>2. CASE x + 1 = m
  <2>1. (x + 1) % m = 0  BY <1>2
  <2>2. x + (y + 1) = m + y  BY <1>2
  <2>3. (m + y) % m = y % m
    <3> DEFINE d == y \div m
               r == y % m
    <3>1. d \in Nat /\ r \in 0..m-1 /\ y = m * d + r  BY Division
    <3> HIDE DEF d, r
    <3>2. m + y = m * (d + 1) + r /\ d + 1 \in Nat  BY <3>1
    <3>3. (m + y) % m = r  BY <3>1, <3>2, Remainder
    <3>4. QED  BY <3>3 DEF r
  <2>4. QED  BY <2>1, <2>2, <2>3
<1>3. QED  BY <1>1, <1>2

-----------------------------------------------------------------------------
StatsType ==
  [published: [Priority -> 0..CounterMod-1], polled: [Priority -> 0..CounterMod-1],
   pending: [Priority -> 0..MaxSlots], freeNormal: 0..MaxSlots, freeSafety: 0..MaxSlots]

AuditType ==
  [entries: [0..AuditCapacity-1 -> AuditEntry],
   head: 0..AuditCapacity-1, count: 0..AuditCapacity]

AuditInv(a) ==
  /\ a \in AuditType
  /\ a.count < AuditCapacity => a.head = a.count

IInv ==
  /\ slots \in Pools
  /\ LaneInv(normalQueue, NormalSlots, "normal", slots)
  /\ LaneInv(safetyQueue, MaxSlots, "safety", slots)
  /\ NormalSparesReserve
  /\ stats \in StatsType
  /\ StatsAgree
  /\ AuditInv(audit)

LEMMA RecordKeeps ==
  ASSUME NEW a, AuditInv(a), NEW e \in AuditEntry
  PROVE  AuditInv(Record(a, e))
<1>1. /\ a.entries \in [0..AuditCapacity-1 -> AuditEntry]
      /\ a.head \in 0..AuditCapacity-1 /\ a.count \in 0..AuditCapacity
      /\ AuditCapacity \in Nat \ {0}
  BY BusAssumption DEF AuditInv, AuditType
<1>2. Wrap(a.head + 1, AuditCapacity) = IF a.head + 1 < AuditCapacity
                                     THEN a.head + 1 ELSE 0
  BY <1>1, WrapOnce
<1>3. Record(a, e).entries \in [0..AuditCapacity-1 -> AuditEntry]
  BY <1>1 DEF Record
<1>4. /\ Record(a, e).head \in 0..AuditCapacity-1
      /\ Record(a, e).count \in 0..AuditCapacity
  BY <1>1, <1>2 DEF Record
<1>5. Record(a, e).count < AuditCapacity => Record(a, e).head = Record(a, e).count
  BY <1>1, <1>2 DEF Record, AuditInv
<1>6. Record(a, e) \in AuditType
  BY <1>3, <1>4 DEF AuditType, Record
<1>7. QED  BY <1>5, <1>6 DEF AuditInv

(* Every slot in use is counted by exactly one of the two rings.           *)
LEMMA Occupancy ==
  ASSUME IInv
  PROVE  /\ IsFiniteSet(InUse)
         /\ normalQueue.count + safetyQueue.count = Cardinality(InUse)
         /\ Cardinality(InUse) \in 0..MaxSlots
         /\ normalQueue.count \in 0..NormalSlots
         /\ safetyQueue.count \in 0..MaxSlots
         /\ HeldBy(slots, "normal") \subseteq Slot \ Reserved
<1> DEFINE N == HeldBy(slots, "normal")
           S == HeldBy(slots, "safety")
<1>1. N \subseteq Slot /\ S \subseteq Slot /\ N \cap S = {}
  BY DEF HeldBy
<1>2. IsFiniteSet(N) /\ IsFiniteSet(S)
  BY <1>1, Constants, FS_Subset
<1>3. InUse = N \cup S
  BY DEF InUse, HeldBy, IInv, Pools, Event, Free, Priority
<1>4. Cardinality(N \cup S) = Cardinality(N) + Cardinality(S) - Cardinality(N \cap S)
  BY <1>2, FS_Union
<1>5. Cardinality(N \cap S) = 0  BY <1>1, FS_EmptySet
<1>6. Cardinality(N) = normalQueue.count /\ Cardinality(S) = safetyQueue.count
  BY DEF IInv, LaneInv
<1>7. normalQueue.count \in 0..NormalSlots /\ safetyQueue.count \in 0..MaxSlots
  BY DEF IInv, LaneInv, RingType
<1>8. IsFiniteSet(InUse) /\ Cardinality(InUse) <= MaxSlots
  BY <1>1, <1>3, Constants, FS_Subset
<1>9. N \subseteq Slot \ Reserved
  BY <1>1 DEF HeldBy, IInv, NormalSparesReserve
<1>10. normalQueue.count + safetyQueue.count = Cardinality(InUse)
  BY <1>3, <1>4, <1>5, <1>6, <1>7, Constants
<1>11. QED  BY <1>7, <1>8, <1>9, <1>10, Constants

(* The slots a priority may take are free, and of the right kind.          *)
LEMMA PoolIsFree ==
  ASSUME NEW p \in Priority, NEW i \in Pool(p)
  PROVE  /\ i \in Slot /\ slots[i] = Free
         /\ p = "normal" => i \notin Reserved
BY Constants DEF Pool, InUse, Priority

(* A free slot leaves room in its ring: the pool and the rings fit.        *)
LEMMA FreeMeansRoom ==
  ASSUME IInv, NEW p \in Priority, Pool(p) # {}
  PROVE  /\ Queue(p).count < Capacity(p)
         /\ normalQueue.count + safetyQueue.count < MaxSlots
<1>1. PICK i \in Slot : slots[i] = Free /\ (p = "normal" => i \notin Reserved)
  BY PoolIsFree
<1>2. InUse \subseteq Slot \ {i}  BY <1>1 DEF InUse
<1>3. IsFiniteSet(Slot \ {i}) /\ Cardinality(Slot \ {i}) = MaxSlots - 1
  BY Constants, FS_RemoveElement
<1>4. Cardinality(InUse) <= MaxSlots - 1
  BY <1>2, <1>3, FS_Subset
<1>5. normalQueue.count + safetyQueue.count < MaxSlots
  BY <1>4, Occupancy, Constants
<1>6. CASE p = "safety"
  BY <1>5, <1>6, Occupancy, Constants DEF Queue, Capacity
<1>7. CASE p = "normal"
  <2>1. HeldBy(slots, "normal") \subseteq (Slot \ Reserved) \ {i}
    BY <1>1, Occupancy DEF HeldBy, Free
  <2>2. /\ IsFiniteSet((Slot \ Reserved) \ {i})
        /\ Cardinality((Slot \ Reserved) \ {i}) = NormalSlots - 1
    BY <1>1, <1>7, Constants, FS_RemoveElement
  <2>3. Cardinality(HeldBy(slots, "normal")) <= NormalSlots - 1
    BY <2>1, <2>2, FS_Subset
  <2>4. normalQueue.count <= NormalSlots - 1
    BY <2>3 DEF IInv, LaneInv
  <2>5. QED  BY <2>4, <1>5, <1>7, Occupancy, Constants DEF Queue, Capacity
<1>8. QED  BY <1>6, <1>7 DEF Priority

-----------------------------------------------------------------------------
(* The part of StatsAgree that every call re-establishes in the same way.  *)
LEMMA StatsAfter ==
  ASSUME NEW s \in StatsType, NEW pool \in Pools, NEW nq, NEW sq,
         nq.count \in 0..MaxSlots, sq.count \in 0..MaxSlots,
         slots' = pool, normalQueue' = nq, safetyQueue' = sq,
         stats' = Refresh(s, pool, nq, sq),
         s.published["normal"] = (s.polled["normal"] + nq.count) % CounterMod,
         s.published["safety"] = (s.polled["safety"] + sq.count) % CounterMod
  PROVE  stats' \in StatsType /\ StatsAgree'
<1> DEFINE t == Refresh(s, pool, nq, sq)
<1>0. /\ t \in StatsType
      /\ t.published = s.published /\ t.polled = s.polled
      /\ t.pending["normal"] = nq.count /\ t.pending["safety"] = sq.count
      /\ t.freeNormal = Cardinality(FreeIn(pool, Slot \ Reserved))
      /\ t.freeSafety = Cardinality(FreeIn(pool, Reserved))
  <2>1. ASSUME NEW S \in SUBSET Slot PROVE Cardinality(FreeIn(pool, S)) \in 0..MaxSlots
    <3>1. FreeIn(pool, S) \in SUBSET Slot  BY DEF FreeIn
    <3>2. QED  BY <3>1, Constants, FS_Subset, FS_CardinalityType
  <2>2. /\ Cardinality(FreeIn(pool, Slot \ Reserved)) \in 0..MaxSlots
        /\ Cardinality(FreeIn(pool, Reserved)) \in 0..MaxSlots
    BY <2>1, Constants
  <2>3. QED  BY <2>2 DEF StatsType, Refresh, Priority, FreeIn
<1> HIDE DEF t
<1>1. /\ stats' \in StatsType
      /\ stats'.published = s.published /\ stats'.polled = s.polled
      /\ stats'.pending["normal"] = nq.count /\ stats'.pending["safety"] = sq.count
      /\ stats'.freeNormal = Cardinality(FreeIn(pool, Slot \ Reserved))
      /\ stats'.freeSafety = Cardinality(FreeIn(pool, Reserved))
  <2>1. stats' = t  BY DEF t
  <2>2. QED  BY <1>0, <2>1, Zenon
<1>2. /\ FreeIn(pool, Slot \ Reserved) = (Slot \ Reserved) \ InUse'
      /\ FreeIn(pool, Reserved) = Reserved \ InUse'
  BY Constants DEF InUse, FreeIn
<1>3. Queue("normal")' = nq /\ Queue("safety")' = sq
  BY DEF Queue
<1>4. QED  BY <1>1, <1>2, <1>3 DEF StatsAgree, Priority

LEMMA InitInv == Init => IInv
<1> SUFFICES ASSUME Init PROVE IInv  OBVIOUS
<1> USE DEF Init
<1>1. slots \in Pools /\ \A i \in Slot : slots[i] = Free
  BY DEF Pools
<1>2. ASSUME NEW p \in Priority PROVE HeldBy(slots, p) = {}
  BY <1>1 DEF HeldBy, Free, Priority
<1>3. Cardinality({}) = 0  BY FS_EmptySet
<1>4. ASSUME NEW cap \in Nat \ {0}, NEW p \in Priority, cap <= MaxSlots
      PROVE  LaneInv(EmptyRing(cap, 0), cap, p, slots)
  <2> DEFINE q == EmptyRing(cap, 0)
  <2>1. 0 \in Slot  BY Constants DEF Slot
  <2>2. q.count = 0 /\ RingType(q, cap, Slot)
    BY <2>1 DEF EmptyRing, RingType
  <2>3. RingCoherent(q, cap)
    BY WrapOnce DEF EmptyRing, RingCoherent
  <2>4. \A i \in Slot : slots[i].priority # p
    BY <1>1 DEF Free, Priority
  <2>5. 1..q.count = {}  BY <2>2
  <2> HIDE DEF q
  <2>6. q.count = Cardinality(HeldBy(slots, p))  BY <1>2, <1>3, <2>2
  <2>7. LaneInv(q, cap, p, slots)
    BY <2>2, <2>3, <2>4, <2>5, <2>6 DEF LaneInv
  <2>8. QED  BY <2>7 DEF q
<1>5. /\ LaneInv(normalQueue, NormalSlots, "normal", slots)
      /\ LaneInv(safetyQueue, MaxSlots, "safety", slots)
  BY <1>4, Constants DEF Priority
<1>6. NormalSparesReserve  BY <1>1, Constants DEF NormalSparesReserve, Free
<1>7. stats \in StatsType
  BY Constants, BusAssumption DEF StatsType, Priority
<1>8. StatsAgree
  <2>1. normalQueue.count = 0 /\ safetyQueue.count = 0  BY DEF EmptyRing
  <2>2. InUse = {}  BY <1>1 DEF InUse
  <2>3. (Slot \ Reserved) \ InUse = Slot \ Reserved /\ Reserved \ InUse = Reserved
    BY <2>2
  <2>4. Cardinality(Reserved) = ReservedSlots
    BY Constants, FS_Interval DEF Reserved
  <2>5. (0 + 0) % CounterMod = 0  BY BusAssumption
  <2>6. QED  BY <2>1, <2>3, <2>4, <2>5, Constants DEF StatsAgree, Priority, Queue
<1>9. AuditInv(audit)
  BY BusAssumption DEF AuditInv, AuditType, AuditEntry, Entry, Free
<1>10. QED  BY <1>1, <1>5, <1>6, <1>7, <1>8, <1>9 DEF IInv

LEMMA RejectKeeps ==
  ASSUME IInv, NEW t \in Types, NEW p \in Priority \cup {"unknown"},
         NEW status \in {"payload_too_large", "invalid_arg"}, Reject(t, p, status)
  PROVE  IInv'
<1>1. AuditInv(audit')
  <2>1. [action |-> "dropped", status |-> status, type |-> t, priority |-> p]
          \in AuditEntry
    BY DEF AuditEntry
  <2>2. QED  BY <2>1, RecordKeeps DEF IInv, Reject
<1>2. UNCHANGED <<slots, normalQueue, safetyQueue, stats>>  BY DEF Reject
<1>3. StatsAgree' /\ NormalSparesReserve'
  BY <1>2 DEF IInv, StatsAgree, NormalSparesReserve, InUse, Queue
<1>4. QED  BY <1>1, <1>2, <1>3 DEF IInv

LEMMA PublishFullKeeps ==
  ASSUME IInv, NEW e \in Event, PublishFull(e)
  PROVE  IInv'
<1>1. AuditInv(audit')
  <2>1. Entry(e, "dropped", "full") \in AuditEntry
    BY DEF AuditEntry, Entry, Event
  <2>2. QED  BY <2>1, RecordKeeps DEF IInv, PublishFull
<1>2. UNCHANGED <<slots, normalQueue, safetyQueue>>  BY DEF PublishFull
<1>3. stats' \in StatsType /\ StatsAgree'
  <2>1. /\ stats \in StatsType /\ slots \in Pools
        /\ stats' = Refresh(stats, slots, normalQueue, safetyQueue)
        /\ stats.published["normal"] =
              (stats.polled["normal"] + normalQueue.count) % CounterMod
        /\ stats.published["safety"] =
              (stats.polled["safety"] + safetyQueue.count) % CounterMod
    BY DEF PublishFull, IInv, StatsAgree, Priority, Queue
  <2>2. normalQueue.count \in 0..MaxSlots /\ safetyQueue.count \in 0..MaxSlots
    BY Occupancy, Constants
  <2>3. QED  BY <1>2, <2>1, <2>2, StatsAfter
<1>4. NormalSparesReserve'  BY <1>2 DEF IInv, NormalSparesReserve
<1>5. QED  BY <1>1, <1>2, <1>3, <1>4 DEF IInv

LEMMA PublishKeeps ==
  ASSUME IInv, NEW e \in Event, Publish(e)
  PROVE  IInv'
<1> DEFINE p == e.priority
<1>1. PICK i \in Pool(p) :
        /\ slots' = [slots EXCEPT ![i] = e]
        /\ safetyQueue' = IF p = "safety"
                          THEN RingPush(safetyQueue, MaxSlots, i) ELSE safetyQueue
        /\ normalQueue' = IF p = "safety"
                          THEN normalQueue ELSE RingPush(normalQueue, NormalSlots, i)
  BY DEF Publish, Lowest
<1>2. p \in Priority  BY DEF Event
<1>3. i \in Slot /\ slots[i] = Free /\ (p = "normal" => i \notin Reserved)
  BY <1>2, PoolIsFree
<1>4. AuditInv(audit')
  <2>1. Entry(e, "published", "ok") \in AuditEntry
    BY DEF AuditEntry, Entry, Event
  <2>2. QED  BY <2>1, RecordKeeps DEF IInv, Publish
<1>5. slots' \in Pools
  BY <1>1, <1>3 DEF IInv, Pools
<1>6. slots[i].priority \notin Priority  BY <1>3 DEF Free, Priority
<1>7. /\ LaneInv(normalQueue', NormalSlots, "normal", slots')
      /\ LaneInv(safetyQueue', MaxSlots, "safety", slots')
      /\ normalQueue'.count = normalQueue.count + (IF p = "normal" THEN 1 ELSE 0)
      /\ safetyQueue'.count = safetyQueue.count + (IF p = "safety" THEN 1 ELSE 0)
  <2>1. CASE p = "safety"
    <3>1. safetyQueue.count < MaxSlots
      BY <2>1 DEF Publish, Queue, Capacity
    <3>2. LaneInv(safetyQueue', MaxSlots, "safety", slots')
      BY <1>1, <1>2, <1>3, <2>1, <3>1, LanePush, Constants DEF IInv
    <3>3. LaneInv(normalQueue', NormalSlots, "normal", slots')
      BY <1>1, <1>3, <1>6, <2>1, LaneFrame, Constants DEF IInv, Priority
    <3>4. QED  BY <1>1, <2>1, <3>2, <3>3, Occupancy DEF RingPush
  <2>2. CASE p = "normal"
    <3>1. normalQueue.count < NormalSlots
      BY <2>2 DEF Publish, Queue, Capacity
    <3>2. LaneInv(normalQueue', NormalSlots, "normal", slots')
      BY <1>1, <1>2, <1>3, <2>2, <3>1, LanePush, Constants DEF IInv
    <3>3. LaneInv(safetyQueue', MaxSlots, "safety", slots')
      BY <1>1, <1>3, <1>6, <2>2, LaneFrame, Constants DEF IInv, Priority
    <3>4. QED  BY <1>1, <2>2, <3>2, <3>3, Occupancy DEF RingPush
  <2>3. QED  BY <1>2, <2>1, <2>2 DEF Priority
<1>8. NormalSparesReserve'
  BY <1>1, <1>3, Constants DEF IInv, NormalSparesReserve, Pools
<1>9. stats' \in StatsType /\ StatsAgree'
  <2> DEFINE s == [stats EXCEPT !.published[p] = Bump(@)]
  <2>1. /\ stats \in StatsType
        /\ stats.published["normal"] =
              (stats.polled["normal"] + normalQueue.count) % CounterMod
        /\ stats.published["safety"] =
              (stats.polled["safety"] + safetyQueue.count) % CounterMod
    BY DEF IInv, StatsAgree, Priority, Queue
  <2>2. stats' = Refresh(s, slots', normalQueue', safetyQueue')
    BY DEF Publish
  <2>3. \A n \in 0..CounterMod-1 : Bump(n) \in 0..CounterMod-1
    BY BusAssumption DEF Bump
  <2>4. s \in StatsType
    BY <1>2, <2>1, <2>3 DEF StatsType
  <2>5. /\ normalQueue'.count \in 0..MaxSlots /\ safetyQueue'.count \in 0..MaxSlots
    BY <1>7, Constants DEF LaneInv, RingType
  <2>6. /\ s.polled = stats.polled
        /\ \A r \in Priority : s.published[r] =
              IF r = p THEN Bump(stats.published[r]) ELSE stats.published[r]
    BY <1>2, <2>1 DEF StatsType
  <2>7. ASSUME NEW a \in 0..CounterMod-1, NEW c \in Nat
        PROVE  Bump((a + c) % CounterMod) = (a + (c + 1)) % CounterMod
    <3>1. a + c \in Nat /\ (a + c) + 1 = a + (c + 1)  BY BusAssumption
    <3>2. (((a + c) % CounterMod) + 1) % CounterMod = ((a + c) + 1) % CounterMod
      BY <3>1, BumpAfter, BusAssumption
    <3>3. QED  BY <3>1, <3>2 DEF Bump
  <2>8. /\ stats.polled["normal"] \in 0..CounterMod-1
        /\ stats.polled["safety"] \in 0..CounterMod-1
        /\ normalQueue.count \in Nat /\ safetyQueue.count \in Nat
    BY <2>1, Occupancy DEF StatsType, Priority
  <2>9. s.published["normal"] = (s.polled["normal"] + normalQueue'.count) % CounterMod
    BY <1>7, <2>1, <2>6, <2>7, <2>8 DEF Priority
  <2>10. s.published["safety"] = (s.polled["safety"] + safetyQueue'.count) % CounterMod
    BY <1>7, <2>1, <2>6, <2>7, <2>8 DEF Priority
  <2> HIDE DEF s
  <2>11. QED  BY <1>5, <2>2, <2>4, <2>5, <2>9, <2>10, StatsAfter
<1>10. QED  BY <1>4, <1>5, <1>7, <1>8, <1>9 DEF IInv

(* Polling a lane: what the two poll actions have in common.               *)
LEMMA DeliverKeeps ==
  ASSUME IInv, NEW p \in Priority, NEW i \in Slot, slots[i].priority = p,
         Deliver(i),
         LaneInv(normalQueue', NormalSlots, "normal", [slots EXCEPT ![i] = Free]),
         LaneInv(safetyQueue', MaxSlots, "safety", [slots EXCEPT ![i] = Free]),
         normalQueue.count = normalQueue'.count + (IF p = "normal" THEN 1 ELSE 0),
         safetyQueue.count = safetyQueue'.count + (IF p = "safety" THEN 1 ELSE 0)
  PROVE  IInv'
<1>1. slots' = [slots EXCEPT ![i] = Free]  BY DEF Deliver
<1>2. slots' \in Pools  BY <1>1 DEF IInv, Pools
<1>3. slots[i] \in Event
  BY DEF IInv, Pools, Free, Priority
<1>4. AuditInv(audit')
  <2>1. Entry(slots[i], "polled", "ok") \in AuditEntry
    BY <1>3 DEF AuditEntry, Entry, Event
  <2>2. QED  BY <2>1, RecordKeeps DEF IInv, Deliver
<1>5. NormalSparesReserve'
  BY <1>1, Constants DEF IInv, NormalSparesReserve, Pools, Free
<1>6. stats' \in StatsType /\ StatsAgree'
  <2> DEFINE s == [stats EXCEPT !.polled[p] = Bump(@)]
  <2>1. /\ stats \in StatsType
        /\ stats.published["normal"] =
              (stats.polled["normal"] + normalQueue.count) % CounterMod
        /\ stats.published["safety"] =
              (stats.polled["safety"] + safetyQueue.count) % CounterMod
    BY DEF IInv, StatsAgree, Priority, Queue
  <2>2. stats' = Refresh(s, slots', normalQueue', safetyQueue')
    BY DEF Deliver
  <2>3. \A n \in 0..CounterMod-1 : Bump(n) \in 0..CounterMod-1
    BY BusAssumption DEF Bump
  <2>4. s \in StatsType
    BY <2>1, <2>3 DEF StatsType
  <2>5. normalQueue'.count \in 0..MaxSlots /\ safetyQueue'.count \in 0..MaxSlots
    <3>1. normalQueue'.count \in 0..NormalSlots  BY DEF LaneInv, RingType
    <3>2. safetyQueue'.count \in 0..MaxSlots  BY DEF LaneInv, RingType
    <3>3. QED  BY <3>1, <3>2, Constants
  <2>6. /\ s.published = stats.published
        /\ \A r \in Priority : s.polled[r] =
              IF r = p THEN Bump(stats.polled[r]) ELSE stats.polled[r]
    BY <2>1 DEF StatsType
  <2>7. ASSUME NEW a \in 0..CounterMod-1, NEW c \in Nat
        PROVE  (Bump(a) + c) % CounterMod = (a + (c + 1)) % CounterMod
    BY BumpBefore, BusAssumption DEF Bump
  <2>8. /\ stats.polled["normal"] \in 0..CounterMod-1
        /\ stats.polled["safety"] \in 0..CounterMod-1
        /\ normalQueue'.count \in Nat /\ safetyQueue'.count \in Nat
    BY <2>1, <2>5 DEF StatsType, Priority
  <2>9. s.published["normal"] = (s.polled["normal"] + normalQueue'.count) % CounterMod
    BY <2>1, <2>6, <2>7, <2>8 DEF Priority
  <2>10. s.published["safety"] = (s.polled["safety"] + safetyQueue'.count) % CounterMod
    BY <2>1, <2>6, <2>7, <2>8 DEF Priority
  <2> HIDE DEF s
  <2>11. QED  BY <1>2, <2>2, <2>4, <2>5, <2>9, <2>10, StatsAfter
<1>7. QED  BY <1>1, <1>2, <1>4, <1>5, <1>6 DEF IInv

LEMMA PollKeeps ==
  ASSUME IInv, Poll
  PROVE  IInv'
<1>1. CASE PollSafety
  <2> DEFINE i == RingFront(safetyQueue)
  <2>1. /\ safetyQueue.count > 0 /\ Deliver(i)
        /\ safetyQueue' = RingPop(safetyQueue, MaxSlots)
        /\ normalQueue' = normalQueue
    BY <1>1 DEF PollSafety
  <2>2. /\ i \in Slot /\ slots[i].priority = "safety"
        /\ LaneInv(safetyQueue', MaxSlots, "safety", [slots EXCEPT ![i] = Free])
    BY <2>1, LanePop, Constants DEF IInv, Priority
  <2>3. LaneInv(normalQueue', NormalSlots, "normal", [slots EXCEPT ![i] = Free])
    BY <2>1, <2>2, LaneFrame, Constants DEF IInv, Priority, Free
  <2>4. safetyQueue.count = safetyQueue'.count + 1 /\ normalQueue.count = normalQueue'.count + 0
    BY <2>1, Occupancy DEF RingPop
  <2> HIDE DEF i
  <2>5. QED  BY <2>1, <2>2, <2>3, <2>4, DeliverKeeps DEF Priority
<1>2. CASE PollNormal
  <2> DEFINE i == RingFront(normalQueue)
  <2>1. /\ normalQueue.count > 0 /\ Deliver(i)
        /\ normalQueue' = RingPop(normalQueue, NormalSlots)
        /\ safetyQueue' = safetyQueue
    BY <1>2 DEF PollNormal
  <2>2. /\ i \in Slot /\ slots[i].priority = "normal"
        /\ LaneInv(normalQueue', NormalSlots, "normal", [slots EXCEPT ![i] = Free])
    BY <2>1, LanePop, Constants DEF IInv, Priority
  <2>3. LaneInv(safetyQueue', MaxSlots, "safety", [slots EXCEPT ![i] = Free])
    BY <2>1, <2>2, LaneFrame, Constants DEF IInv, Priority, Free
  <2>4. normalQueue.count = normalQueue'.count + 1 /\ safetyQueue.count = safetyQueue'.count + 0
    BY <2>1, Occupancy DEF RingPop
  <2> HIDE DEF i
  <2>5. QED  BY <2>1, <2>2, <2>3, <2>4, DeliverKeeps DEF Priority
<1>3. QED  BY <1>1, <1>2 DEF Poll

LEMMA NextInv == IInv /\ [Next]_vars => IInv'
<1> SUFFICES ASSUME IInv, [Next]_vars PROVE IInv'  OBVIOUS
<1>1. ASSUME NEW e \in Event, Publish(e) PROVE IInv'
  BY <1>1, PublishKeeps
<1>2. ASSUME NEW e \in Event, PublishFull(e) PROVE IInv'
  BY <1>2, PublishFullKeeps
<1>3. ASSUME NEW e \in Event, PublishTooLarge(e) PROVE IInv'
  BY <1>3, RejectKeeps DEF PublishTooLarge, Event
<1>4. ASSUME NEW t \in Types, PublishBadPriority(t) PROVE IInv'
  BY <1>4, RejectKeeps DEF PublishBadPriority
<1>5. CASE Poll
  BY <1>5, PollKeeps
<1>6. CASE UNCHANGED vars
  <2>1. UNCHANGED <<slots, normalQueue, safetyQueue, stats, audit>>
    BY <1>6 DEF vars
  <2>2. StatsAgree' /\ NormalSparesReserve'
    BY <2>1 DEF IInv, StatsAgree, NormalSparesReserve, InUse, Queue
  <2>3. QED  BY <2>1, <2>2 DEF IInv
<1>7. QED  BY <1>1, <1>2, <1>3, <1>4, <1>5, <1>6 DEF Next

LEMMA Inductive == Spec => []IInv
<1>1. QED  BY InitInv, NextInv, PTL DEF Spec

-----------------------------------------------------------------------------
(* Every variable keeps its type for every pool, reserve, audit capacity   *)
(* and counter width.                                                      *)
THEOREM TypeCorrect == Spec => []TypeOK
<1>1. IInv => TypeOK
  BY DEF IInv, TypeOK, LaneInv, Pools, StatsType, AuditInv, AuditType
<1>2. QED  BY <1>1, Inductive, PTL

(* The slots in use are exactly those the rings hold, each once: polling   *)
(* and publishing in any order never leak or double a slot.                *)
THEOREM NoSlotLeaks == Spec => []SlotsAccountedFor
<1>1. IInv => SlotsAccountedFor
  BY DEF IInv, LaneInv, SlotsAccountedFor, HoldsExactly
<1>2. QED  BY <1>1, Inductive, PTL

(* No sequence of calls puts a normal event into a reserved slot.          *)
THEOREM ReserveIsSpared == Spec => []NormalSparesReserve
<1>1. IInv => NormalSparesReserve  BY DEF IInv
<1>2. QED  BY <1>1, Inductive, PTL

(* The branch of publish after a failed queue_push is dead code.           *)
THEOREM PushNeverFails == Spec => []RingsFitThePool
<1>1. IInv => RingsFitThePool
  BY FreeMeansRoom DEF RingsFitThePool
<1>2. QED  BY <1>1, Inductive, PTL

(* What get_stats returns agrees with the bus, modulo the counters' width. *)
THEOREM StatsCorrect == Spec => []StatsAgree
<1>1. IInv => StatsAgree  BY DEF IInv
<1>2. QED  BY <1>1, Inductive, PTL

-----------------------------------------------------------------------------
(* Refinement.  The lanes of TwoLaneBus are the events behind the indices  *)
(* of a ring, its log is what copy_audit returns.                          *)
LEMMA LaneTyped ==
  ASSUME NEW q, NEW cap \in Nat \ {0}, NEW p \in Priority,
         NEW pool \in Pools, LaneInv(q, cap, p, pool)
  PROVE  /\ LaneOf(pool, q, cap) \in Seq(Event)
         /\ Len(LaneOf(pool, q, cap)) = q.count
         /\ \A k \in 1..q.count :
              LaneOf(pool, q, cap)[k] = pool[RingContents(q, cap)[k]]
<1>1. q.count \in Nat  BY DEF LaneInv, RingType
<1>2. RingContents(q, cap) \in [1..q.count -> Slot]
  BY ContentsTyped DEF LaneInv
<1>3. \A k \in 1..q.count : pool[RingContents(q, cap)[k]] \in Event
  BY <1>2 DEF LaneInv, Pools, Free, Priority
<1>4. LaneOf(pool, q, cap) \in [1..q.count -> Event]
  BY <1>3 DEF LaneOf
<1>5. LaneOf(pool, q, cap) \in Seq(Event)  BY <1>1, <1>4, SeqDef
<1>6. QED  BY <1>1, <1>4, <1>5, LenProperties DEF LaneOf

(* A call on the other lane leaves this one as it was.                     *)
LEMMA LaneUntouched ==
  ASSUME NEW q, NEW cap \in Nat \ {0}, NEW p \in Priority,
         NEW pool \in Pools, LaneInv(q, cap, p, pool),
         NEW i \in Slot, pool[i].priority # p, NEW v
  PROVE  LaneOf([pool EXCEPT ![i] = v], q, cap) = LaneOf(pool, q, cap)
<1>1. RingContents(q, cap) \in [1..q.count -> Slot]
  BY ContentsTyped DEF LaneInv
<1>2. \A k \in 1..q.count : RingContents(q, cap)[k] # i
  BY DEF LaneInv
<1>3. \A k \in 1..q.count : [pool EXCEPT ![i] = v][RingContents(q, cap)[k]]
                              = pool[RingContents(q, cap)[k]]
  BY <1>1, <1>2 DEF Pools
<1>4. QED  BY <1>3 DEF LaneOf

(* after is the pool once v is stored in slot i, r the ring once i is in. *)
Pushed(q, cap, i, r) == r = RingPush(q, cap, i)
Stored(pool, i, v, after) ==
  after[i] = v /\ \A j \in Slot : j # i => after[j] = pool[j]

(* A publish appends its event to the lane of the event's priority.        *)
LEMMA LaneGrows ==
  ASSUME NEW q, NEW cap \in Nat \ {0}, NEW p \in Priority,
         NEW pool \in Pools, LaneInv(q, cap, p, pool), q.count < cap,
         NEW i \in Slot, pool[i] = Free,
         NEW v \in Event, v.priority = p,
         NEW after \in Pools, Stored(pool, i, v, after),
         NEW r, Pushed(q, cap, i, r)
  PROVE  LaneOf(after, r, cap) = Append(LaneOf(pool, q, cap), v)
<1> DEFINE old == LaneOf(pool, q, cap)
           new == LaneOf(after, r, cap)
<1>0. after = [pool EXCEPT ![i] = v]  BY DEF Pools, Stored
<1>1. LaneInv(r, cap, p, after)
  BY <1>0, LanePush DEF Pushed
<1>2. /\ r.count = q.count + 1 /\ q.count \in Nat
      /\ \A k \in 1..q.count : RingContents(r, cap)[k] = RingContents(q, cap)[k]
      /\ RingContents(r, cap)[q.count + 1] = i
  <2>1. q.count \in Nat  BY DEF LaneInv, RingType
  <2>2. QED  BY <2>1, PushAppends DEF LaneInv, Pushed
<1>3. /\ old \in Seq(Event) /\ Len(old) = q.count
      /\ \A k \in 1..q.count : old[k] = pool[RingContents(q, cap)[k]]
  BY LaneTyped
<1>4. /\ new \in Seq(Event) /\ Len(new) = r.count
      /\ \A k \in 1..r.count : new[k] = after[RingContents(r, cap)[k]]
  BY <1>1, LaneTyped
<1> HIDE DEF old, new
<1>5. /\ Append(old, v) \in Seq(Event) /\ Len(Append(old, v)) = q.count + 1
      /\ \A k \in 1..q.count : Append(old, v)[k] = old[k]
      /\ Append(old, v)[q.count + 1] = v
  BY <1>3, AppendProperties
<1>6. pool[i].priority # p  BY DEF Free, Priority
<1>7. RingContents(q, cap) \in [1..q.count -> Slot]
  BY ContentsTyped DEF LaneInv
<1>8. ASSUME NEW k \in 1..Len(new) PROVE new[k] = Append(old, v)[k]
  <2>1. k \in 1..r.count /\ (k \in 1..q.count \/ k = q.count + 1)
    BY <1>2, <1>4
  <2>2. CASE k = q.count + 1
    BY <2>1, <2>2, <1>2, <1>4, <1>5 DEF Pools, Stored
  <2>3. CASE k \in 1..q.count
    <3>1. RingContents(q, cap)[k] \in Slot \ {i}
      BY <2>3, <1>6, <1>7 DEF LaneInv
    <3>2. after[RingContents(q, cap)[k]] = pool[RingContents(q, cap)[k]]
      BY <3>1 DEF Pools, Stored
    <3>3. QED  BY <2>1, <2>3, <3>2, <1>2, <1>3, <1>4, <1>5
  <2>4. QED  BY <2>1, <2>2, <2>3
<1>9. new = Append(old, v)
  <2>1. Len(new) = Len(Append(old, v))  BY <1>2, <1>4, <1>5
  <2>2. QED  BY <2>1, <1>4, <1>5, <1>8, SeqEqual
<1>10. QED  BY <1>9 DEF new, old

LEMMA LaneShrinks ==
  ASSUME NEW q, NEW cap \in Nat \ {0}, NEW p \in Priority,
         NEW pool \in Pools, LaneInv(q, cap, p, pool), q.count > 0
  PROVE  /\ LaneOf(pool, q, cap) # <<>>
         /\ Head(LaneOf(pool, q, cap)) = pool[RingFront(q)]
         /\ LaneOf([pool EXCEPT ![RingFront(q)] = Free], RingPop(q, cap), cap)
              = Tail(LaneOf(pool, q, cap))
<1> DEFINE i == RingFront(q)
           after == [pool EXCEPT ![i] = Free]
           r == RingPop(q, cap)
           old == LaneOf(pool, q, cap)
           new == LaneOf(after, r, cap)
<1>1. LaneInv(r, cap, p, after) /\ i \in Slot
  BY LanePop
<1>2. /\ r.count = q.count - 1 /\ q.count \in Nat \ {0}
      /\ i = RingContents(q, cap)[1]
      /\ \A k \in 1..(q.count - 1) :
           RingContents(r, cap)[k] = RingContents(q, cap)[k + 1]
  <2>1. q.count \in Nat \ {0}  BY DEF LaneInv, RingType
  <2>2. RingType(q, cap, Slot) /\ RingCoherent(q, cap) /\ q.count > 0
    BY DEF LaneInv
  <2>3. QED  BY <2>1, <2>2, PopRemovesOldest
<1>3. /\ old \in Seq(Event) /\ Len(old) = q.count
      /\ \A k \in 1..q.count : old[k] = pool[RingContents(q, cap)[k]]
  BY LaneTyped
<1>4. after \in Pools  BY <1>1 DEF Pools
<1>5. RingContents(q, cap) \in [1..q.count -> Slot]
  BY ContentsTyped DEF LaneInv
<1> HIDE DEF after, r, i
<1>6. /\ new \in Seq(Event) /\ Len(new) = r.count
      /\ \A k \in 1..r.count : new[k] = after[RingContents(r, cap)[k]]
  BY <1>1, <1>4, LaneTyped
<1> HIDE DEF old, new
<1>7. /\ old # <<>> /\ Tail(old) \in Seq(Event) /\ Len(Tail(old)) = q.count - 1
      /\ \A k \in 1..(q.count - 1) : Tail(old)[k] = old[k + 1]
      /\ Head(old) = old[1]
  <2>1. old # <<>>  BY <1>2, <1>3, EmptySeq
  <2>2. QED  BY <2>1, <1>3, HeadTailProperties
<1>8. ASSUME NEW k \in 1..Len(new) PROVE new[k] = Tail(old)[k]
  <2>1. k \in 1..(q.count - 1) /\ k + 1 \in 1..q.count /\ k + 1 # 1 /\ 1 \in 1..q.count
    BY <1>2, <1>6
  <2>2. RingContents(q, cap)[k + 1] \in Slot \ {i}
    BY <2>1, <1>2, <1>5 DEF LaneInv
  <2>3. after[RingContents(q, cap)[k + 1]] = pool[RingContents(q, cap)[k + 1]]
    BY <2>2 DEF after, Pools
  <2>4. QED  BY <2>1, <2>3, <1>2, <1>3, <1>6, <1>7
<1>9. new = Tail(old)  BY <1>2, <1>6, <1>7, <1>8, SeqEqual
<1>10. Head(old) = pool[i]  BY <1>2, <1>3, <1>7
<1>11. QED  BY <1>7, <1>9, <1>10 DEF new, old, after, r, i

LEMMA LogTyped ==
  ASSUME NEW a, AuditInv(a)
  PROVE  /\ CopyAudit(a) \in Seq(AuditEntry)
         /\ Len(CopyAudit(a)) = a.count
         /\ \A k \in 1..a.count : CopyAudit(a)[k] =
              a.entries[IF a.count < AuditCapacity THEN k - 1
                        ELSE IF a.head + k - 1 < AuditCapacity
                             THEN a.head + k - 1
                             ELSE a.head + k - 1 - AuditCapacity]
<1> DEFINE start == IF a.count = AuditCapacity THEN a.head ELSE 0
<1>1. /\ a.entries \in [0..AuditCapacity-1 -> AuditEntry]
      /\ a.head \in 0..AuditCapacity-1 /\ a.count \in 0..AuditCapacity
      /\ AuditCapacity \in Nat \ {0}
  BY BusAssumption DEF AuditInv, AuditType
<1>2. start \in 0..AuditCapacity-1  BY <1>1
<1>3. ASSUME NEW k \in 1..a.count
      PROVE  /\ Wrap(start + k - 1, AuditCapacity) \in 0..AuditCapacity-1
             /\ Wrap(start + k - 1, AuditCapacity) =
                   IF a.count < AuditCapacity THEN k - 1
                        ELSE IF a.head + k - 1 < AuditCapacity
                             THEN a.head + k - 1
                             ELSE a.head + k - 1 - AuditCapacity
  <2>1. CASE a.count < AuditCapacity
    <3>1. start + k - 1 = k - 1 /\ k - 1 \in 0..AuditCapacity-1  BY <2>1, <1>1
    <3>2. Wrap(k - 1, AuditCapacity) = k - 1  BY <3>1, <1>1, WrapOnce
    <3>3. QED  BY <2>1, <3>1, <3>2
  <2>2. CASE a.count = AuditCapacity
    <3>1. start = a.head /\ a.head + k - 1 \in 0..(2 * AuditCapacity - 1)
      BY <2>2, <1>1
    <3>2. Wrap(a.head + k - 1, AuditCapacity) =
            IF a.head + k - 1 < AuditCapacity
            THEN a.head + k - 1 ELSE a.head + k - 1 - AuditCapacity
      BY <3>1, <1>1, WrapOnce
    <3>3. QED  BY <2>2, <3>1, <3>2, <1>1
  <2>3. QED  BY <2>1, <2>2, <1>1
<1>4. CopyAudit(a) \in [1..a.count -> AuditEntry]
  BY <1>1, <1>3 DEF CopyAudit
<1>5. CopyAudit(a) \in Seq(AuditEntry)  BY <1>1, <1>4, SeqDef
<1>6. Len(CopyAudit(a)) = a.count  BY <1>1, <1>4, <1>5, LenProperties
<1>7. ASSUME NEW k \in 1..a.count
      PROVE  CopyAudit(a)[k] = a.entries[Wrap(start + k - 1, AuditCapacity)]
  BY DEF CopyAudit
<1>8. QED  BY <1>3, <1>5, <1>6, <1>7

(* Recording an entry is what TwoLaneBus calls Note.                       *)
LEMMA RecordIsNote ==
  ASSUME AuditInv(audit), NEW e \in AuditEntry, audit' = Record(audit, e)
  PROVE  Lanes!Note(e)
<1> DEFINE old == CopyAudit(audit)
           new == CopyAudit(audit')
           longer == Append(old, e)
           b == audit'
<1>1. /\ audit.entries \in [0..AuditCapacity-1 -> AuditEntry]
      /\ audit.head \in 0..AuditCapacity-1 /\ audit.count \in 0..AuditCapacity
      /\ AuditCapacity \in Nat \ {0}
      /\ audit.count < AuditCapacity => audit.head = audit.count
  BY BusAssumption DEF AuditInv, AuditType
<1>2. /\ b.entries = [audit.entries EXCEPT ![audit.head] = e]
      /\ b.head = IF audit.head + 1 < AuditCapacity THEN audit.head + 1 ELSE 0
      /\ b.count = IF audit.count < AuditCapacity THEN audit.count + 1 ELSE audit.count
  <2>1. Wrap(audit.head + 1, AuditCapacity) =
          IF audit.head + 1 < AuditCapacity THEN audit.head + 1 ELSE 0
    BY <1>1, WrapOnce
  <2>2. audit' = [entries |-> [audit.entries EXCEPT ![audit.head] = e],
                  head |-> Wrap(audit.head + 1, AuditCapacity),
                  count |-> IF audit.count < AuditCapacity
                            THEN audit.count + 1 ELSE audit.count]
    BY DEF Record
  <2>3. QED  BY <2>1, <2>2
<1>3. AuditInv(b)  BY RecordKeeps
<1>4. /\ old \in Seq(AuditEntry) /\ Len(old) = audit.count
      /\ \A k \in 1..audit.count : old[k] =
              audit.entries[IF audit.count < AuditCapacity THEN k - 1
                        ELSE IF audit.head + k - 1 < AuditCapacity
                             THEN audit.head + k - 1
                             ELSE audit.head + k - 1 - AuditCapacity]
  BY LogTyped
<1>5. /\ new \in Seq(AuditEntry) /\ Len(new) = b.count
      /\ \A k \in 1..b.count : new[k] =
              b.entries[IF b.count < AuditCapacity THEN k - 1
                        ELSE IF b.head + k - 1 < AuditCapacity
                             THEN b.head + k - 1
                             ELSE b.head + k - 1 - AuditCapacity]
  BY <1>3, LogTyped
<1>6. /\ longer \in Seq(AuditEntry) /\ longer # <<>> /\ Len(longer) = audit.count + 1
      /\ \A k \in 1..audit.count : longer[k] = old[k]
      /\ longer[audit.count + 1] = e
  BY <1>4, AppendProperties
<1> HIDE DEF old, new, longer, b
<1>7. CASE audit.count < AuditCapacity
  <2>1. Len(new) = Len(longer)  BY <1>2, <1>5, <1>6, <1>7
  <2>2. ASSUME NEW k \in 1..Len(new) PROVE new[k] = longer[k]
    <3>1. k \in 1..audit.count \/ k = audit.count + 1  BY <2>1, <1>1, <1>6
    <3>2. CASE k = audit.count + 1
      BY <3>2, <1>1, <1>2, <1>5, <1>6, <1>7
    <3>3. CASE k \in 1..audit.count
      <4>1. longer[k] = audit.entries[k - 1]  BY <3>3, <1>4, <1>6, <1>7
      <4>2. k - 1 \in 0..AuditCapacity-1 /\ k - 1 # audit.head  BY <3>3, <1>1, <1>7
      <4>3. b.entries[k - 1] = audit.entries[k - 1]  BY <4>2, <1>1, <1>2
      <4>4. CASE b.count < AuditCapacity
        <5>1. new[k] = b.entries[k - 1]  BY <4>4, <1>5
        <5>2. QED  BY <5>1, <4>1, <4>3
      <4>5. CASE ~(b.count < AuditCapacity)
        <5>1. b.head = 0 /\ k - 1 < AuditCapacity
          BY <4>5, <4>2, <1>1, <1>2, <1>7
        <5>2. new[k] = b.entries[b.head + k - 1]  BY <4>5, <5>1, <1>5
        <5>3. QED  BY <5>1, <5>2, <4>1, <4>2, <4>3
      <4>6. QED  BY <4>4, <4>5
    <3>4. QED  BY <3>1, <3>2, <3>3
  <2>3. new = longer  BY <1>5, <1>6, <2>1, <2>2, SeqEqual
  <2>4. ~(Len(longer) > AuditCapacity)  BY <1>1, <1>6, <1>7
  <2>5. QED  BY <2>3, <2>4 DEF Lanes!Note, old, new, longer, b
<1>8. CASE audit.count = AuditCapacity
  <2>1. /\ Tail(longer) \in Seq(AuditEntry)
        /\ Len(Tail(longer)) = audit.count
        /\ \A k \in 1..audit.count : Tail(longer)[k] = longer[k + 1]
    BY <1>1, <1>6, HeadTailProperties
  <2>2. ASSUME NEW k \in 1..Len(new) PROVE new[k] = Tail(longer)[k]
    <3>1. k \in 1..audit.count /\ b.count = AuditCapacity
      BY <1>1, <1>2, <1>5, <1>8
    <3>2. Tail(longer)[k] = longer[k + 1]  BY <2>1, <3>1
    <3>3. CASE k = audit.count
      BY <3>1, <3>2, <3>3, <1>1, <1>2, <1>5, <1>6, <1>8
    <3>4. CASE k # audit.count
      <4>1. k + 1 \in 1..audit.count  BY <3>1, <3>4, <1>1
      <4>2. longer[k + 1] = old[k + 1]  BY <4>1, <1>6
      <4> DEFINE at == IF audit.head + k < AuditCapacity
                       THEN audit.head + k ELSE audit.head + k - AuditCapacity
      <4>3. old[k + 1] = audit.entries[at]
        BY <4>1, <1>1, <1>4, <1>8
      <4>4. at \in 0..AuditCapacity-1 /\ at # audit.head
        BY <3>1, <4>1, <1>1, <1>8
      <4>5. new[k] = b.entries[IF b.head + k - 1 < AuditCapacity
                               THEN b.head + k - 1 ELSE b.head + k - 1 - AuditCapacity]
        BY <3>1, <1>5
      <4>6. (IF b.head + k - 1 < AuditCapacity
             THEN b.head + k - 1 ELSE b.head + k - 1 - AuditCapacity) = at
        BY <3>1, <4>1, <1>1, <1>2, <1>8
      <4> HIDE DEF at
      <4>7. b.entries[at] = audit.entries[at]  BY <4>4, <1>1, <1>2
      <4>8. QED  BY <3>2, <4>2, <4>3, <4>5, <4>6, <4>7
    <3>5. QED  BY <3>3, <3>4
  <2>3. new = Tail(longer)
    <3>1. new \in Seq(AuditEntry) /\ Len(new) = audit.count
      BY <1>1, <1>2, <1>5, <1>8
    <3>2. QED  BY <3>1, <2>1, <2>2, SeqEqual
  <2>4. Len(longer) > AuditCapacity  BY <1>1, <1>6, <1>8
  <2>5. QED  BY <2>3, <2>4 DEF Lanes!Note, old, new, longer, b
<1>9. QED  BY <1>1, <1>7, <1>8

LEMMA InitMaps == Init => Lanes!Init
<1> SUFFICES ASSUME Init PROVE Lanes!Init  OBVIOUS
<1>1. normalQueue.count = 0 /\ safetyQueue.count = 0 /\ audit.count = 0
  BY DEF Init, EmptyRing
<1>2. AuditInv(audit) /\ slots \in Pools
      /\ LaneInv(normalQueue, NormalSlots, "normal", slots)
      /\ LaneInv(safetyQueue, MaxSlots, "safety", slots)
  BY InitInv DEF IInv
<1> DEFINE N == LaneOf(slots, normalQueue, NormalSlots)
           S == LaneOf(slots, safetyQueue, MaxSlots)
<1>0. /\ N \in Seq(Event) /\ Len(N) = 0
      /\ S \in Seq(Event) /\ Len(S) = 0
  BY <1>1, <1>2, LaneTyped, Constants DEF Priority
<1> HIDE DEF N, S
<1>3. N = <<>>
  BY <1>0, EmptySeq
<1>4. S = <<>>
  BY <1>0, EmptySeq
<1>5. CopyAudit(audit) = <<>>
  BY <1>1, <1>2, LogTyped, EmptySeq
<1>6. QED  BY <1>3, <1>4, <1>5 DEF Lanes!Init, N, S

LEMMA RejectMaps ==
  ASSUME IInv, NEW t \in Types, NEW p \in Priority \cup {"unknown"},
         NEW status \in {"payload_too_large", "invalid_arg"}, Reject(t, p, status)
  PROVE  Lanes!Malformed(t, p, status)
<1> DEFINE e == [action |-> "dropped", status |-> status, type |-> t, priority |-> p]
<1>1. e \in AuditEntry /\ audit' = Record(audit, e)
  BY DEF AuditEntry, Reject
<1>2. Lanes!Note(e)
  BY <1>1, RecordIsNote DEF IInv
<1>3. UNCHANGED <<slots, normalQueue, safetyQueue>>  BY DEF Reject
<1>4. /\ UNCHANGED LaneOf(slots, normalQueue, NormalSlots)
      /\ UNCHANGED LaneOf(slots, safetyQueue, MaxSlots)
  BY <1>3 DEF LaneOf
<1>5. QED  BY <1>2, <1>4 DEF Lanes!Malformed, Lanes!Call

LEMMA PublishFullMaps ==
  ASSUME IInv, NEW e \in Event, PublishFull(e)
  PROVE  Lanes!Refuse(e.type, e.priority)
<1> DEFINE p == e.priority
           entry == Entry(e, "dropped", "full")
           N == LaneOf(slots, normalQueue, NormalSlots)
           S == LaneOf(slots, safetyQueue, MaxSlots)
<1>1. entry \in AuditEntry /\ audit' = Record(audit, entry) /\ p \in Priority
  BY DEF AuditEntry, Entry, Event, PublishFull
<1>2. Lanes!Note(entry)
  BY <1>1, RecordIsNote DEF IInv
<1>3. UNCHANGED N /\ UNCHANGED S
  BY DEF LaneOf, PublishFull
<1>4. Len(N) = normalQueue.count /\ Len(S) = safetyQueue.count
  BY LaneTyped, Constants DEF IInv, Priority
<1>5. /\ normalQueue.count + safetyQueue.count = Cardinality(InUse)
      /\ normalQueue.count \in 0..NormalSlots /\ safetyQueue.count \in 0..MaxSlots
      /\ normalQueue.count + safetyQueue.count <= MaxSlots
      /\ IsFiniteSet(InUse)
  BY Occupancy, Constants
<1>6. Pool(p) = {} \/ Queue(p).count >= Capacity(p)
  BY DEF PublishFull
<1>7. p = "safety" => Len(N) + Len(S) = MaxSlots
  <2>1. CASE p = "safety" /\ Pool(p) = {}
    <3>1. Slot \subseteq InUse  BY <2>1 DEF Pool
    <3>2. InUse = Slot  BY <3>1 DEF InUse
    <3>3. QED  BY <3>2, <1>4, <1>5, Constants
  <2>2. CASE p = "safety" /\ Queue(p).count >= Capacity(p)
    <3>1. safetyQueue.count >= MaxSlots  BY <2>2 DEF Queue, Capacity
    <3>2. QED  BY <3>1, <1>4, <1>5, Constants
  <2>3. QED  BY <2>1, <2>2, <1>6
<1>8. p = "normal" => Len(N) + Len(S) >= MaxSlots - ReservedSlots
  <2>1. CASE p = "normal" /\ Pool(p) = {}
    <3>1. Slot \ Reserved \subseteq InUse  BY <2>1 DEF Pool
    <3>2. NormalSlots <= Cardinality(InUse)
      BY <3>1, <1>5, Constants, FS_Subset
    <3>3. QED  BY <3>2, <1>4, <1>5, Constants
  <2>2. CASE p = "normal" /\ Queue(p).count >= Capacity(p)
    <3>1. normalQueue.count >= NormalSlots  BY <2>2 DEF Queue, Capacity
    <3>2. QED  BY <3>1, <1>4, <1>5, Constants
  <2>3. QED  BY <2>1, <2>2, <1>6
<1>9. entry = Lanes!Call(e.type, p, "dropped", "full")
  BY DEF Entry, Lanes!Call
<1>10. QED  BY <1>2, <1>3, <1>7, <1>8, <1>9, Zenon DEF Lanes!Refuse, Lanes!Waiting

LEMMA PublishMaps ==
  ASSUME IInv, NEW e \in Event, Publish(e)
  PROVE  Lanes!Accept(e.type, e.priority)
<1> DEFINE p == e.priority
           entry == Entry(e, "published", "ok")
           N == LaneOf(slots, normalQueue, NormalSlots)
           S == LaneOf(slots, safetyQueue, MaxSlots)
<1>0. /\ slots \in Pools
      /\ LaneInv(normalQueue, NormalSlots, "normal", slots)
      /\ LaneInv(safetyQueue, MaxSlots, "safety", slots)
      /\ "normal" \in Priority /\ "safety" \in Priority
      /\ NormalSlots \in Nat \ {0} /\ MaxSlots \in Nat \ {0}
  BY Constants DEF IInv, Priority
<1>1. entry \in AuditEntry /\ audit' = Record(audit, entry) /\ p \in Priority
  BY DEF AuditEntry, Entry, Event, Publish
<1>2. Lanes!Note(entry)
  BY <1>1, RecordIsNote DEF IInv
<1>3. PICK i \in Pool(p) :
        /\ slots' = [slots EXCEPT ![i] = e]
        /\ safetyQueue' = IF p = "safety"
                          THEN RingPush(safetyQueue, MaxSlots, i) ELSE safetyQueue
        /\ normalQueue' = IF p = "safety"
                          THEN normalQueue ELSE RingPush(normalQueue, NormalSlots, i)
  BY DEF Publish, Lowest
<1>4. i \in Slot /\ slots[i] = Free
  BY <1>1, PoolIsFree
<1>5. slots[i].priority \notin Priority  BY <1>4 DEF Free, Priority
<1>6. Len(N) = normalQueue.count /\ Len(S) = safetyQueue.count
  BY LaneTyped, Constants DEF IInv, Priority
<1>7. /\ normalQueue.count + safetyQueue.count < MaxSlots
      /\ Queue(p).count < Capacity(p)
  BY <1>1, FreeMeansRoom
<1>8. Len(N) + Len(S) < MaxSlots  BY <1>6, <1>7
<1>9. p = "normal" => Len(N) < MaxSlots - ReservedSlots
  BY <1>6, <1>7 DEF Queue, Capacity, NormalSlots
<1>10. e = [type |-> e.type, priority |-> p]  BY DEF Event
<1>11. p = "safety" => S' = Append(S, e) /\ N' = N
  <2> SUFFICES ASSUME p = "safety" PROVE S' = Append(S, e) /\ N' = N
    OBVIOUS
  <2>0. e \in Event /\ e.priority = "safety"  OBVIOUS
  <2>1. safetyQueue.count < MaxSlots  BY <1>7 DEF Queue, Capacity
  <2>2. LaneOf([slots EXCEPT ![i] = e], RingPush(safetyQueue, MaxSlots, i), MaxSlots)
          = Append(S, e)
    <3> DEFINE after == [slots EXCEPT ![i] = e]
               r == RingPush(safetyQueue, MaxSlots, i)
    <3>1. after \in Pools /\ Stored(slots, i, e, after)
      BY <1>0, <1>4 DEF Pools, Stored
    <3>2. Pushed(safetyQueue, MaxSlots, i, r)  BY DEF Pushed
    <3> HIDE DEF after, r, p, entry
    <3>3. LaneOf(after, r, MaxSlots) = Append(LaneOf(slots, safetyQueue, MaxSlots), e)
      BY <1>0, <1>4, <2>0, <2>1, <3>1, <3>2, LaneGrows
    <3>4. QED  BY <3>3 DEF after, r
  <2>3. LaneOf([slots EXCEPT ![i] = e], normalQueue, NormalSlots) = N
    BY <1>4, <1>5, <1>0, LaneUntouched
  <2>4. /\ S' = LaneOf(slots', safetyQueue', MaxSlots)
        /\ N' = LaneOf(slots', normalQueue', NormalSlots)
    BY DEF LaneOf
  <2>5. QED  BY <1>3, <2>2, <2>3, <2>4
<1>12. p = "normal" => N' = Append(N, e) /\ S' = S
  <2> SUFFICES ASSUME p = "normal" PROVE N' = Append(N, e) /\ S' = S
    OBVIOUS
  <2>0. e \in Event /\ e.priority = "normal"  OBVIOUS
  <2>1. normalQueue.count < NormalSlots  BY <1>7 DEF Queue, Capacity
  <2>2. LaneOf([slots EXCEPT ![i] = e], RingPush(normalQueue, NormalSlots, i), NormalSlots)
          = Append(N, e)
    <3> DEFINE after == [slots EXCEPT ![i] = e]
               r == RingPush(normalQueue, NormalSlots, i)
    <3>1. after \in Pools /\ Stored(slots, i, e, after)
      BY <1>0, <1>4 DEF Pools, Stored
    <3>2. Pushed(normalQueue, NormalSlots, i, r)  BY DEF Pushed
    <3> HIDE DEF after, r, p, entry
    <3>3. LaneOf(after, r, NormalSlots) = Append(LaneOf(slots, normalQueue, NormalSlots), e)
      BY <1>0, <1>4, <2>0, <2>1, <3>1, <3>2, LaneGrows
    <3>4. QED  BY <3>3 DEF after, r
  <2>3. LaneOf([slots EXCEPT ![i] = e], safetyQueue, MaxSlots) = S
    BY <1>4, <1>5, <1>0, LaneUntouched
  <2>4. /\ S' = LaneOf(slots', safetyQueue', MaxSlots)
        /\ N' = LaneOf(slots', normalQueue', NormalSlots)
    BY DEF LaneOf
  <2>5. QED  BY <1>3, <2>2, <2>3, <2>4
<1>13. entry = Lanes!Call(e.type, p, "published", "ok")
  BY DEF Entry, Lanes!Call
<1> HIDE DEF p, entry, N, S
<1>14. p = "normal" \/ p = "safety"  BY <1>1 DEF Priority
<1>15. /\ Lanes!Waiting < MaxSlots
       /\ p = "normal" => Len(N) < MaxSlots - ReservedSlots
       /\ IF p = "safety"
          THEN S' = Append(S, [type |-> e.type, priority |-> p]) /\ UNCHANGED N
          ELSE N' = Append(N, [type |-> e.type, priority |-> p]) /\ UNCHANGED S
       /\ Lanes!Note(Lanes!Call(e.type, p, "published", "ok"))
  <2>1. Lanes!Waiting < MaxSlots  BY <1>8 DEF Lanes!Waiting, N, S
  <2>2. CASE p = "safety"
    BY <2>1, <2>2, <1>2, <1>9, <1>10, <1>11, <1>13
  <2>3. CASE p = "normal"
    BY <2>1, <2>3, <1>2, <1>9, <1>10, <1>12, <1>13
  <2>4. QED  BY <1>14, <2>2, <2>3
<1>16. QED  BY <1>15, Zenon DEF Lanes!Accept, p, N, S

LEMMA PollMaps ==
  ASSUME IInv, Poll
  PROVE  Lanes!DeliverSafety \/ Lanes!DeliverNormal
<1> DEFINE N == LaneOf(slots, normalQueue, NormalSlots)
           S == LaneOf(slots, safetyQueue, MaxSlots)
<1>0. /\ slots \in Pools
      /\ LaneInv(normalQueue, NormalSlots, "normal", slots)
      /\ LaneInv(safetyQueue, MaxSlots, "safety", slots)
      /\ "normal" \in Priority /\ "safety" \in Priority
      /\ NormalSlots \in Nat \ {0} /\ MaxSlots \in Nat \ {0}
  BY Constants DEF IInv, Priority
<1>1. /\ S' = LaneOf(slots', safetyQueue', MaxSlots)
      /\ N' = LaneOf(slots', normalQueue', NormalSlots)
  BY DEF LaneOf
<1>2. ASSUME NEW i \in Slot, slots[i] \in Event, Deliver(i)
      PROVE  Lanes!Note(Lanes!Call(slots[i].type, slots[i].priority, "polled", "ok"))
  <2> DEFINE entry == Entry(slots[i], "polled", "ok")
  <2>1. entry \in AuditEntry /\ audit' = Record(audit, entry)
    BY <1>2 DEF AuditEntry, Entry, Event, Deliver
  <2>2. Lanes!Note(entry)
    BY <2>1, RecordIsNote DEF IInv
  <2>3. QED  BY <2>2 DEF Entry, Lanes!Call
<1>3. CASE PollSafety
  <2> DEFINE i == RingFront(safetyQueue)
  <2>1. /\ safetyQueue.count > 0 /\ Deliver(i)
        /\ safetyQueue' = RingPop(safetyQueue, MaxSlots)
        /\ normalQueue' = normalQueue /\ slots' = [slots EXCEPT ![i] = Free]
    BY <1>3 DEF PollSafety, Deliver
  <2>2. i \in Slot /\ slots[i].priority = "safety"
    BY <2>1, <1>0, LanePop
  <2>3. S # <<>> /\ Head(S) = slots[i]
        /\ LaneOf([slots EXCEPT ![i] = Free], RingPop(safetyQueue, MaxSlots), MaxSlots)
             = Tail(S)
    BY <2>1, <1>0, LaneShrinks
  <2>4. LaneOf([slots EXCEPT ![i] = Free], normalQueue, NormalSlots) = N
    BY <2>2, <1>0, LaneUntouched
  <2>5. slots[i] \in Event  BY <2>2 DEF IInv, Pools, Free
  <2> HIDE DEF i
  <2>6. Lanes!Note(Lanes!Call(Head(S).type, Head(S).priority, "polled", "ok"))
    BY <1>2, <2>1, <2>2, <2>3, <2>5
  <2>7. S' = Tail(S) /\ N' = N  BY <1>1, <2>1, <2>3, <2>4
  <2>8. QED  BY <2>3, <2>6, <2>7, Zenon DEF Lanes!DeliverSafety, Lanes!Take
<1>4. CASE PollNormal
  <2> DEFINE i == RingFront(normalQueue)
  <2>1. /\ normalQueue.count > 0 /\ safetyQueue.count = 0 /\ Deliver(i)
        /\ normalQueue' = RingPop(normalQueue, NormalSlots)
        /\ safetyQueue' = safetyQueue /\ slots' = [slots EXCEPT ![i] = Free]
    BY <1>4 DEF PollNormal, Deliver
  <2>2. i \in Slot /\ slots[i].priority = "normal"
    BY <2>1, <1>0, LanePop
  <2>3. N # <<>> /\ Head(N) = slots[i]
        /\ LaneOf([slots EXCEPT ![i] = Free], RingPop(normalQueue, NormalSlots), NormalSlots)
             = Tail(N)
    BY <2>1, <1>0, LaneShrinks
  <2>4. LaneOf([slots EXCEPT ![i] = Free], safetyQueue, MaxSlots) = S
    BY <2>2, <1>0, LaneUntouched
  <2>5. slots[i] \in Event  BY <2>2 DEF IInv, Pools, Free
  <2>6. S \in Seq(Event) /\ Len(S) = 0
    BY <2>1, LaneTyped, Constants DEF IInv, Priority
  <2> HIDE DEF i, S
  <2>7. S = <<>>  BY <2>6, EmptySeq
  <2>8. Lanes!Note(Lanes!Call(Head(N).type, Head(N).priority, "polled", "ok"))
    BY <1>2, <2>1, <2>2, <2>3, <2>5
  <2>9. N' = Tail(N) /\ S' = S  BY <1>1, <2>1, <2>3, <2>4
  <2>10. QED  BY <2>3, <2>7, <2>8, <2>9, Zenon DEF Lanes!DeliverNormal, Lanes!Take, S
<1>5. QED  BY <1>3, <1>4 DEF Poll

LEMMA NextMaps == IInv /\ [Next]_vars => [Lanes!Next]_(Lanes!avars)
<1> SUFFICES ASSUME IInv, [Next]_vars PROVE Lanes!Next \/ UNCHANGED Lanes!avars
  OBVIOUS
<1>1. ASSUME NEW e \in Event, Publish(e) PROVE Lanes!Next
  BY <1>1, PublishMaps DEF Event, Priority, Lanes!Next
<1>2. ASSUME NEW e \in Event, PublishFull(e) PROVE Lanes!Next
  BY <1>2, PublishFullMaps DEF Event, Priority, Lanes!Next
<1>3. ASSUME NEW e \in Event, PublishTooLarge(e) PROVE Lanes!Next
  BY <1>3, RejectMaps DEF PublishTooLarge, Event, Priority, Lanes!Next
<1>4. ASSUME NEW t \in Types, PublishBadPriority(t) PROVE Lanes!Next
  BY <1>4, RejectMaps DEF PublishBadPriority, Lanes!Next
<1>5. CASE Poll
  BY <1>5, PollMaps DEF Lanes!Next
<1>6. CASE UNCHANGED vars
  BY <1>6 DEF vars, Lanes!avars, LaneOf, CopyAudit
<1>7. QED  BY <1>1, <1>2, <1>3, <1>4, <1>5, <1>6 DEF Next

(* The bus implements two FIFO lanes with safety first, a reserve normal   *)
(* events never use up, refusals only when the room a priority may use is  *)
(* gone, and an audit log of the latest calls in order.                    *)
THEOREM BusImplementsLanes == Spec => TwoLanes
<1>1. QED  BY InitMaps, NextMaps, Inductive, PTL DEF Spec, TwoLanes, Lanes!Spec
=============================================================================
