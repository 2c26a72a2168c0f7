----------------------------- MODULE RingProofs -----------------------------
(***************************************************************************)
(* What storing and taking do to the contents of a ring, for every         *)
(* capacity and every element type.                                        *)
(***************************************************************************)
EXTENDS Ring, TLAPS

(* The index arithmetic never goes round more than once: % is a comparison *)
(* and a subtraction.                                                      *)
LEMMA WrapOnce ==
  ASSUME NEW cap \in Nat \ {0}, NEW i \in 0..(2 * cap - 1)
  PROVE  Wrap(i, cap) = IF i < cap THEN i ELSE i - cap
BY DEF Wrap

(* The cells of the waiting elements are valid indices.                    *)
LEMMA ContentsTyped ==
  ASSUME NEW cap \in Nat \ {0}, NEW S, NEW q, RingType(q, cap, S)
  PROVE  RingContents(q, cap) \in [1..q.count -> S]
<1>1. /\ q.buf \in [0..cap-1 -> S] /\ q.head \in 0..cap-1 /\ q.count \in 0..cap
  BY DEF RingType
<1>2. ASSUME NEW k \in 1..q.count
      PROVE  Wrap(q.head + k - 1, cap) \in 0..cap-1
  <2>1. q.head + k - 1 \in 0..(2 * cap - 1)  BY <1>1
  <2>2. QED  BY <2>1, <1>1, WrapOnce
<1>3. QED  BY <1>1, <1>2 DEF RingContents

(* Storing (audio samples, slot indices) appends to the contents and       *)
(* disturbs nothing that waits, also when tail wraps.                      *)
LEMMA PushAppends ==
  ASSUME NEW cap \in Nat \ {0}, NEW S, NEW x \in S, NEW q,
         RingType(q, cap, S), RingCoherent(q, cap), q.count < cap
  PROVE  LET r == RingPush(q, cap, x)
         IN  /\ RingType(r, cap, S)
             /\ RingCoherent(r, cap)
             /\ r.count = q.count + 1
             /\ \A k \in 1..q.count :
                  RingContents(r, cap)[k] = RingContents(q, cap)[k]
             /\ RingContents(r, cap)[q.count + 1] = x
<1> DEFINE r == RingPush(q, cap, x)
<1>1. /\ q.buf \in [0..cap-1 -> S] /\ q.head \in 0..cap-1
      /\ q.tail \in 0..cap-1 /\ q.count \in 0..cap-1
  BY DEF RingType
<1>2. q.tail = IF q.head + q.count < cap
               THEN q.head + q.count ELSE q.head + q.count - cap
  BY <1>1, WrapOnce DEF RingCoherent
<1>3. /\ r.buf = [q.buf EXCEPT ![q.tail] = x] /\ r.head = q.head
      /\ r.tail = IF q.tail + 1 < cap THEN q.tail + 1 ELSE 0
      /\ r.count = q.count + 1
  BY <1>1, WrapOnce DEF RingPush
<1>4. RingType(r, cap, S)
  BY <1>1, <1>3 DEF RingType, RingPush
<1>5. RingCoherent(r, cap)
  <2>1. Wrap(r.head + r.count, cap) = IF r.head + r.count < cap
           THEN r.head + r.count ELSE r.head + r.count - cap
    BY <1>1, <1>3, WrapOnce
  <2>2. QED  BY <1>1, <1>2, <1>3, <2>1 DEF RingCoherent
<1>6. ASSUME NEW k \in 1..(q.count + 1)
      PROVE  RingContents(r, cap)[k] =
                IF k = q.count + 1 THEN x ELSE RingContents(q, cap)[k]
  <2>1. k \in 1..q.count \/ k = q.count + 1  BY <1>1
  <2>2. Wrap(q.head + k - 1, cap) = IF q.head + k - 1 < cap
           THEN q.head + k - 1 ELSE q.head + k - 1 - cap
    BY <1>1, WrapOnce
  <2>3. RingContents(r, cap)[k] = r.buf[Wrap(q.head + k - 1, cap)]
    BY <1>3 DEF RingContents
  <2>4. Wrap(q.head + k - 1, cap) \in 0..cap-1
    BY <2>2, <1>1
  <2>5. CASE k = q.count + 1
    BY <2>2, <2>3, <2>5, <1>1, <1>2, <1>3
  <2>6. CASE k # q.count + 1
    <3>1. Wrap(q.head + k - 1, cap) # q.tail
      BY <2>1, <2>2, <2>6, <1>1, <1>2
    <3>2. RingContents(q, cap)[k] = q.buf[Wrap(q.head + k - 1, cap)]
      BY <2>6, <1>1 DEF RingContents
    <3>3. QED  BY <3>1, <3>2, <2>3, <2>4, <2>6, <1>1, <1>3
  <2>7. QED  BY <2>5, <2>6
<1>7. QED  BY <1>1, <1>3, <1>4, <1>5, <1>6

(* Taking removes the oldest element and shifts the others, also when head *)
(* wraps.                                                                  *)
LEMMA PopRemovesOldest ==
  ASSUME NEW cap \in Nat \ {0}, NEW S, NEW q,
         RingType(q, cap, S), RingCoherent(q, cap), q.count > 0
  PROVE  LET r == RingPop(q, cap)
         IN  /\ RingType(r, cap, S)
             /\ RingCoherent(r, cap)
             /\ r.count = q.count - 1
             /\ RingFront(q) = RingContents(q, cap)[1]
             /\ \A k \in 1..(q.count - 1) :
                  RingContents(r, cap)[k] = RingContents(q, cap)[k + 1]
<1> DEFINE r == RingPop(q, cap)
<1>1. /\ q.buf \in [0..cap-1 -> S] /\ q.head \in 0..cap-1
      /\ q.tail \in 0..cap-1 /\ q.count \in 1..cap
  BY DEF RingType
<1>2. /\ r.buf = q.buf /\ r.tail = q.tail /\ r.count = q.count - 1
      /\ r.head = IF q.head + 1 < cap THEN q.head + 1 ELSE 0
  BY <1>1, WrapOnce DEF RingPop
<1>3. RingType(r, cap, S)
  BY <1>1, <1>2 DEF RingType, RingPop
<1>4. RingCoherent(r, cap)
  <2>1. q.tail = IF q.head + q.count < cap
                 THEN q.head + q.count ELSE q.head + q.count - cap
    BY <1>1, WrapOnce DEF RingCoherent
  <2>2. Wrap(r.head + r.count, cap) = IF r.head + r.count < cap
           THEN r.head + r.count ELSE r.head + r.count - cap
    BY <1>1, <1>2, WrapOnce
  <2>3. QED  BY <1>1, <1>2, <2>1, <2>2 DEF RingCoherent
<1>5. RingFront(q) = RingContents(q, cap)[1]
  <2>1. Wrap(q.head + 1 - 1, cap) = q.head  BY <1>1, WrapOnce
  <2>2. QED  BY <2>1, <1>1 DEF RingFront, RingContents
<1>6. ASSUME NEW k \in 1..(q.count - 1)
      PROVE  RingContents(r, cap)[k] = RingContents(q, cap)[k + 1]
  <2>1. Wrap(r.head + k - 1, cap) = IF r.head + k - 1 < cap
           THEN r.head + k - 1 ELSE r.head + k - 1 - cap
    BY <1>1, <1>2, WrapOnce
  <2>2. Wrap(q.head + (k + 1) - 1, cap) = IF q.head + k < cap
           THEN q.head + k ELSE q.head + k - cap
    BY <1>1, WrapOnce
  <2>3. Wrap(r.head + k - 1, cap) = Wrap(q.head + (k + 1) - 1, cap)
    BY <2>1, <2>2, <1>1, <1>2
  <2>4. QED  BY <2>3, <1>1, <1>2 DEF RingContents
<1>7. QED  BY <1>2, <1>3, <1>4, <1>5, <1>6
=============================================================================
