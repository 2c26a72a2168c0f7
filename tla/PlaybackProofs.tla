--------------------------- MODULE PlaybackProofs ---------------------------
(***************************************************************************)
(* Playback for every ring, fade, block and batch size, every set of turns *)
(* and every set of amplitudes.                                            *)
(***************************************************************************)
EXTENDS Playback, RingProofs, SequenceTheorems

(* What the invariants rest on: the indices of the ring agree, and a task  *)
(* that saw IDLE finds IDLE or a turn nothing was played of.               *)
SawIdle == seen = "IDLE" => state = "IDLE" \/ ~played
IInv == TypeOK /\ NothingStuck /\ RingCoherent(ring, RingCapacity) /\ SawIdle

LEMMA Sizes == /\ RingCapacity \in Nat \ {0} /\ FadeTotal \in Nat \ {0}
               /\ Block \in Nat \ {0} /\ 0 \in Samples /\ Samples \subseteq Int
               /\ 0 \notin Turns
  BY PlaybackAssumption

(* An index that has gone round at most once, and where the cell i lies    *)
(* counted from the write index.                                           *)
Once(i, cap) == IF i < cap THEN i ELSE i - cap
After(i, tail, cap) == IF i < tail THEN i + cap - tail + 1 ELSE i - tail + 1

(* The three facts about indices WriteAppends needs: the write index moves *)
(* by n, the waiting cells lie outside the n written, and the j-th written *)
(* cell is the j-th after the waiting ones.                                *)
LEMMA Indices ==
  ASSUME NEW cap \in Nat \ {0}, NEW h \in 0..cap-1, NEW c \in 0..cap,
         NEW n \in 0..cap, c + n <= cap
  PROVE  /\ Once(Once(h + c, cap) + n, cap) = Once(h + (c + n), cap)
         /\ \A j \in 1..c : After(Once(h + j - 1, cap), Once(h + c, cap), cap) > n
         /\ \A j \in 1..n :
              After(Once(h + (c + j) - 1, cap), Once(h + c, cap), cap) = j
BY DEF Once, After

LEMMA WrapIsOnce ==
  ASSUME NEW cap \in Nat \ {0}, NEW a \in 0..cap-1, NEW b \in 0..cap
  PROVE  Wrap(a + b, cap) = Once(a + b, cap) /\ Wrap(a + b, cap) \in 0..cap-1
<1>1. a + b \in 0..(2 * cap - 1)  OBVIOUS
<1>2. Wrap(a + b, cap) = IF a + b < cap THEN a + b ELSE a + b - cap
  BY <1>1, WrapOnce
<1>3. QED  BY <1>2 DEF Once

(* The loop of on_say_audio: a batch that fits is appended to what waits.  *)
LEMMA WriteAppends ==
  ASSUME NEW cap \in Nat \ {0}, NEW S, NEW q, RingType(q, cap, S),
         RingCoherent(q, cap), NEW s \in Seq(S), q.count + Len(s) <= cap
  PROVE  LET r == RingWrite(q, cap, s)
         IN  /\ RingType(r, cap, S)
             /\ RingCoherent(r, cap)
             /\ r.count = q.count + Len(s)
             /\ \A k \in 1..q.count :
                  RingContents(r, cap)[k] = RingContents(q, cap)[k]
             /\ \A k \in 1..Len(s) :
                  RingContents(r, cap)[q.count + k] = s[k]
<1> DEFINE r == RingWrite(q, cap, s)
           n == Len(s)
           at(i) == Wrap(i + cap - q.tail, cap) + 1
           oldest(k) == Once(q.head + k - 1, cap)
<1>1. /\ q.buf \in [0..cap-1 -> S] /\ q.head \in 0..cap-1
      /\ q.tail \in 0..cap-1 /\ q.count \in 0..cap /\ n \in 0..cap
      /\ q.count + n <= cap
  BY LenProperties DEF RingType
<1>2. q.tail = Once(q.head + q.count, cap)
  BY <1>1, WrapIsOnce DEF RingCoherent
<1>3. /\ r.buf = [i \in 0..cap-1 |-> IF at(i) <= n THEN s[at(i)] ELSE q.buf[i]]
      /\ r.head = q.head
      /\ r.tail = Wrap(q.tail + n, cap)
      /\ r.count = q.count + n
      /\ r = [buf |-> r.buf, head |-> r.head, tail |-> r.tail, count |-> r.count]
  BY DEF RingWrite
<1>4. r.tail = Once(q.tail + n, cap) /\ r.tail \in 0..cap-1
  BY <1>1, <1>3, WrapIsOnce
<1>5. ASSUME NEW i \in 0..cap-1
      PROVE  at(i) = After(i, q.tail, cap) /\ at(i) \in 1..cap
  <2>1. i + cap - q.tail \in 0..(2 * cap - 1)  BY <1>1
  <2>2. Wrap(i + cap - q.tail, cap) = IF i + cap - q.tail < cap
           THEN i + cap - q.tail ELSE i + cap - q.tail - cap
    BY <1>1, <2>1, WrapOnce
  <2>3. QED  BY <2>2, <1>1 DEF After
<1> HIDE DEF r, n, at
<1>6. RingType(r, cap, S)
  <2>1. ASSUME NEW i \in 0..cap-1, at(i) <= n PROVE s[at(i)] \in S
    BY <2>1, <1>1, <1>5, ElementOfSeq DEF n
  <2>2. r.buf \in [0..cap-1 -> S]  BY <1>1, <1>3, <2>1
  <2>3. r.head \in 0..cap-1 /\ r.count \in 0..cap  BY <1>1, <1>3
  <2>4. QED  BY <1>3, <1>4, <2>2, <2>3 DEF RingType
<1>7. RingCoherent(r, cap)
  <2>1. q.count + n \in 0..cap  BY <1>1
  <2>2. Wrap(q.head + (q.count + n), cap) = Once(q.head + (q.count + n), cap)
    BY <1>1, <2>1, WrapIsOnce
  <2>3. Once(q.tail + n, cap) = Once(q.head + (q.count + n), cap)
    BY <1>1, <1>2, Indices
  <2>4. QED  BY <1>3, <1>4, <2>2, <2>3 DEF RingCoherent
<1>8. ASSUME NEW k \in 1..(q.count + n)
      PROVE  /\ RingContents(r, cap)[k] = r.buf[oldest(k)]
             /\ Wrap(q.head + k - 1, cap) = oldest(k)
             /\ oldest(k) \in 0..cap-1
  <2>1. k - 1 \in 0..cap /\ q.head + (k - 1) = q.head + k - 1  BY <1>1
  <2>2. Wrap(q.head + k - 1, cap) = oldest(k) /\ oldest(k) \in 0..cap-1
    BY <1>1, <2>1, WrapIsOnce
  <2>3. RingContents(r, cap)[k] = r.buf[Wrap(q.head + k - 1, cap)]
    BY <1>3 DEF RingContents
  <2>4. QED  BY <2>2, <2>3
<1>9. ASSUME NEW k \in 1..q.count
      PROVE  RingContents(r, cap)[k] = RingContents(q, cap)[k]
  <2>1. k \in 1..(q.count + n)  BY <1>1
  <2>2. RingContents(q, cap)[k] = q.buf[oldest(k)]
    BY <2>1, <1>8 DEF RingContents
  <2>3. After(oldest(k), q.tail, cap) > n
    BY <1>1, <1>2, Indices
  <2> HIDE DEF oldest
  <2>4. ~(at(oldest(k)) <= n)
    BY <2>1, <2>3, <1>1, <1>5, <1>8
  <2>5. QED  BY <2>1, <2>2, <2>4, <1>3, <1>8
<1>10. ASSUME NEW k \in 1..n
       PROVE  RingContents(r, cap)[q.count + k] = s[k]
  <2>1. q.count + k \in 1..(q.count + n)  BY <1>1
  <2>2. After(oldest(q.count + k), q.tail, cap) = k
    <3>1. \A j \in 1..n :
            After(Once(q.head + (q.count + j) - 1, cap),
                  Once(q.head + q.count, cap), cap) = j
      BY <1>1, Indices
    <3>2. QED  BY <3>1, <1>2
  <2> HIDE DEF oldest
  <2>3. at(oldest(q.count + k)) = k
    BY <2>1, <2>2, <1>5, <1>8
  <2>4. /\ oldest(q.count + k) \in 0..cap-1
        /\ RingContents(r, cap)[q.count + k] = r.buf[oldest(q.count + k)]
    BY <2>1, <1>8
  <2>5. r.buf[oldest(q.count + k)] = s[at(oldest(q.count + k))]
    BY <2>3, <2>4, <1>1, <1>3
  <2>6. QED  BY <2>3, <2>4, <2>5
<1>11. QED  BY <1>3, <1>6, <1>7, <1>9, <1>10 DEF r, n

(* The loop of consume: n samples less, the others in their order.         *)
LEMMA DropRemoves ==
  ASSUME NEW cap \in Nat \ {0}, NEW S, NEW q, RingType(q, cap, S),
         RingCoherent(q, cap), NEW n \in 0..q.count
  PROVE  LET r == RingDrop(q, cap, n)
         IN  /\ RingType(r, cap, S)
             /\ RingCoherent(r, cap)
             /\ r.count = q.count - n
             /\ \A k \in 1..(q.count - n) :
                  RingContents(r, cap)[k] = RingContents(q, cap)[n + k]
<1> DEFINE r == RingDrop(q, cap, n)
<1>1. /\ q \in [buf: [0..cap-1 -> S], head: 0..cap-1, tail: 0..cap-1,
                count: 0..cap]
      /\ q.buf \in [0..cap-1 -> S] /\ q.head \in 0..cap-1
      /\ q.tail \in 0..cap-1 /\ q.count \in 0..cap /\ n \in 0..cap
      /\ n <= q.count
  BY DEF RingType
<1>2. q.tail = IF q.head + q.count < cap
               THEN q.head + q.count ELSE q.head + q.count - cap
  BY <1>1, WrapOnce DEF RingCoherent
<1>3. /\ r.buf = q.buf /\ r.tail = q.tail /\ r.count = q.count - n
      /\ r.head = Wrap(q.head + n, cap)
      /\ r = [buf |-> r.buf, head |-> r.head, tail |-> r.tail, count |-> r.count]
  BY <1>1 DEF RingDrop
<1>4. r.head = IF q.head + n < cap THEN q.head + n ELSE q.head + n - cap
  BY <1>1, <1>3, WrapOnce
<1> HIDE DEF r
<1>5. RingType(r, cap, S)
  <2>1. r.head \in 0..cap-1 /\ r.count \in 0..cap  BY <1>1, <1>3, <1>4
  <2>2. QED  BY <2>1, <1>1, <1>3 DEF RingType
<1>6. RingCoherent(r, cap)
  <2>1. Wrap(r.head + r.count, cap) = IF r.head + r.count < cap
           THEN r.head + r.count ELSE r.head + r.count - cap
    <3>1. r.head \in 0..cap-1 /\ r.count \in 0..cap  BY <1>1, <1>3, <1>4
    <3>2. QED  BY <3>1, WrapOnce
  <2>2. QED  BY <1>1, <1>2, <1>3, <1>4, <2>1 DEF RingCoherent
<1>7. ASSUME NEW k \in 1..(q.count - n)
      PROVE  RingContents(r, cap)[k] = RingContents(q, cap)[n + k]
  <2>1. Wrap(r.head + k - 1, cap) = IF r.head + k - 1 < cap
           THEN r.head + k - 1 ELSE r.head + k - 1 - cap
    BY <1>1, <1>4, WrapOnce
  <2>2. Wrap(q.head + (n + k) - 1, cap) = IF q.head + n + k - 1 < cap
           THEN q.head + n + k - 1 ELSE q.head + n + k - 1 - cap
    BY <1>1, WrapOnce
  <2>3. Wrap(r.head + k - 1, cap) = Wrap(q.head + (n + k) - 1, cap)
    BY <2>1, <2>2, <1>1, <1>4
  <2>4. RingContents(q, cap)[n + k] = q.buf[Wrap(q.head + (n + k) - 1, cap)]
    BY <1>1 DEF RingContents
  <2>5. RingContents(r, cap)[k] = r.buf[Wrap(r.head + k - 1, cap)]
    BY <1>1, <1>3 DEF RingContents
  <2>6. QED  BY <2>3, <2>4, <2>5, <1>3
<1>8. QED  BY <1>3, <1>5, <1>6, <1>7 DEF r

(* A ring whose indices go back to 0 is empty and sound.                   *)
LEMMA EmptiedRing ==
  ASSUME NEW cap \in Nat \ {0}, NEW S, NEW q, RingType(q, cap, S)
  PROVE  /\ RingType(Emptied(q), cap, S)
         /\ RingCoherent(Emptied(q), cap)
         /\ Emptied(q).count = 0
<1>1. /\ q \in [buf: [0..cap-1 -> S], head: 0..cap-1, tail: 0..cap-1,
                count: 0..cap]
  BY DEF RingType
<1>2. /\ Emptied(q).buf = q.buf /\ Emptied(q).head = 0
      /\ Emptied(q).tail = 0 /\ Emptied(q).count = 0
  BY <1>1 DEF Emptied
<1>3. Wrap(0, cap) = 0  BY WrapOnce
<1>4. RingCoherent(Emptied(q), cap)  BY <1>2, <1>3 DEF RingCoherent
<1>5. RingType(Emptied(q), cap, S)  BY <1>1 DEF RingType, Emptied
<1>6. QED  BY <1>2, <1>4, <1>5

-----------------------------------------------------------------------------
LEMMA InitInv == Init => IInv
<1> SUFFICES ASSUME Init PROVE IInv  OBVIOUS
<1>1. RingType(ring, RingCapacity, Samples)
  BY Sizes DEF Init, EmptyRing, RingType
<1>2. RingCoherent(ring, RingCapacity)
  <2>1. Wrap(0, RingCapacity) = 0  BY Sizes, WrapOnce
  <2>2. QED  BY <2>1 DEF Init, EmptyRing, RingCoherent
<1>3. ring.count = 0  BY DEF Init, EmptyRing
<1>4. /\ state = "IDLE" /\ stopReason = "NONE" /\ activeTurn = 0
      /\ fadeLeft = 0 /\ last = 0 /\ played = FALSE /\ seen = "none"
  BY DEF Init
<1>5. fadeLeft \in 0..FadeTotal /\ last \in Samples  BY <1>4, Sizes
<1>6. TypeOK  BY <1>1, <1>4, <1>5 DEF TypeOK, States
<1>7. NothingStuck /\ SawIdle  BY <1>3, <1>4 DEF NothingStuck, SawIdle
<1>8. QED  BY <1>2, <1>6, <1>7 DEF IInv

(* The part of the invariant that speaks of the ring, for its value after  *)
(* a call.                                                                 *)
Sound(q) == RingType(q, RingCapacity, Samples) /\ RingCoherent(q, RingCapacity)

LEMMA EmptiedSound ==
  ASSUME IInv PROVE Sound(Emptied(ring)) /\ Emptied(ring).count = 0
BY EmptiedRing, Sizes DEF IInv, TypeOK, Sound

(* Everything but the ring, as one predicate.                              *)
LEMMA Assemble ==
  ASSUME state' \in States,
         stopReason' \in {"NONE", "CANCELLED", "SERVER_DROPPED"},
         activeTurn' \in Turns \cup {0},
         Sound(ring)', fadeLeft' \in 0..FadeTotal, last' \in Samples,
         played' \in BOOLEAN, seen' \in States \cup {"none"},
         NothingStuck', SawIdle'
  PROVE  IInv'
BY DEF IInv, TypeOK, Sound

(* clear_runtime, for the two states it is left in.                        *)
LEMMA ClearKeeps ==
  ASSUME IInv, NEW to \in {"IDLE", "BUFFERING"}, NEW t \in Turns \cup {0},
         to = "IDLE" => t = 0, ClearRuntime(to, t), UNCHANGED <<seen, out>>
  PROVE  IInv'
<1>1. Sound(ring)' /\ ring'.count = 0
  BY EmptiedSound DEF ClearRuntime, Sound
<1>2. NothingStuck' /\ SawIdle'
  BY <1>1 DEF ClearRuntime, NothingStuck, SawIdle
<1>3. /\ state' \in States /\ stopReason' = "NONE" /\ activeTurn' = t
      /\ fadeLeft' = 0 /\ last' = 0 /\ played' = FALSE /\ seen' = seen
  BY DEF ClearRuntime, States
<1>4. fadeLeft' \in 0..FadeTotal /\ last' \in Samples  BY <1>3, Sizes
<1>5. seen \in States \cup {"none"}  BY DEF IInv, TypeOK
<1>6. QED  BY <1>1, <1>2, <1>3, <1>4, <1>5, Assemble

(* start_fade, whatever the ring q it finds.                               *)
LEMMA FadeKeeps ==
  ASSUME IInv, NEW reason \in {"CANCELLED", "SERVER_DROPPED"}, NEW q,
         Sound(q), StartFade(reason, q), last' \in Samples,
         seen' \in States \cup {"none"}, seen' # "none" => seen' = seen
  PROVE  IInv'
<1>1. Sound(Emptied(q)) /\ Emptied(q).count = 0
  BY EmptiedRing, Sizes DEF Sound
<1>2. Sound(ring)' /\ ring'.count = 0
  BY <1>1 DEF StartFade, Sound
<1>3. /\ state' \in {"IDLE", "FADING"} /\ activeTurn' = 0 /\ played' = FALSE
      /\ stopReason' = reason
      /\ state' = "FADING" => fadeLeft' = FadeTotal /\ last' # 0
      /\ state' = "IDLE" => fadeLeft' = 0
  BY DEF StartFade
<1>4. NothingStuck' /\ SawIdle'
  BY <1>2, <1>3, Sizes DEF NothingStuck, SawIdle
<1>5. fadeLeft' \in 0..FadeTotal  BY <1>3, Sizes
<1>6. QED  BY <1>2, <1>3, <1>4, <1>5, Assemble DEF States

LEMMA SayAudioKeeps ==
  ASSUME IInv, NEW t \in Turns, NEW s \in Batch, SayAudio(t, s)
  PROVE  IInv'
<1> DEFINE n == Least(Len(s), Room)
           part == SubSeq(s, 1, n)
<1>1. ring.count \in 0..RingCapacity /\ RingCapacity \in Nat
  BY Sizes DEF IInv, TypeOK, RingType
<1>2. PICK len \in 1..MaxBatch : s \in [1..len -> Samples]
  BY DEF Batch
<1>3. s \in Seq(Samples) /\ Len(s) = len /\ len \in Nat
  BY <1>2, PlaybackAssumption
<1>4. n \in 0..Len(s) /\ ring.count + n <= RingCapacity
  BY <1>1, <1>3 DEF Least, Room
<1>5. part \in Seq(Samples) /\ Len(part) = n
  BY <1>3, <1>4, SubSeqProperties
<1> HIDE DEF n, part
<1>6. ring' = RingWrite(ring, RingCapacity, part)
  BY DEF SayAudio, part, n
<1>7. /\ RingType(ring, RingCapacity, Samples)
      /\ RingCoherent(ring, RingCapacity)
      /\ ring.count + Len(part) <= RingCapacity
  BY <1>4, <1>5 DEF IInv, TypeOK
<1>8. Sound(RingWrite(ring, RingCapacity, part))
  BY <1>5, <1>7, WriteAppends, Sizes DEF Sound
<1>9. Sound(ring)'  BY <1>6, <1>8 DEF Sound
<1>10. /\ state = "BUFFERING"
       /\ UNCHANGED <<state, stopReason, activeTurn, fadeLeft, last, played, seen>>
  BY DEF SayAudio
<1>11. NothingStuck' /\ SawIdle'
  BY <1>10 DEF NothingStuck, SawIdle, IInv
<1>12. QED  BY <1>9, <1>10, <1>11, Assemble DEF IInv, TypeOK

LEMMA ConsumeKeeps ==
  ASSUME IInv, Consume PROVE IInv'
<1>1. seen' = "none"  BY DEF Consume
<1>2. CASE ConsumeSpeech
  <2> DEFINE n == Least(ring.count, Block)
             rest == RingDrop(ring, RingCapacity, n)
             held == RingContents(ring, RingCapacity)
  <2>1. /\ RingType(ring, RingCapacity, Samples)
        /\ RingCoherent(ring, RingCapacity)
        /\ ring.count \in 1..RingCapacity /\ RingCapacity \in Nat \ {0}
    BY <1>2, Sizes DEF IInv, TypeOK, RingType, ConsumeSpeech
  <2>2. n \in 1..ring.count  BY <2>1, Sizes DEF Least
  <2>3. Sound(rest) /\ rest.count = ring.count - n
    BY <2>1, <2>2, DropRemoves DEF Sound
  <2>4. held \in [1..ring.count -> Samples]
    BY <2>1, ContentsTyped
  <2>5. held \in Seq(Samples) /\ Len(held) = ring.count
    BY <2>1, <2>4
  <2>6. SubSeq(held, 1, n)[n] \in Samples
    <3>1. SubSeq(held, 1, n)[n] = held[n]
      BY <2>2, <2>5, SubSeqProperties
    <3>2. QED  BY <3>1, <2>2, <2>4
  <2>7. last' \in Samples
    BY <2>6, <1>2 DEF ConsumeSpeech
  <2> HIDE DEF n, rest, held
  <2>8. /\ state \in {"BUFFERING", "DRAINING"}
        /\ IF state = "DRAINING" /\ rest.count = 0
           THEN Drained(rest)
           ELSE /\ ring' = rest /\ played' = TRUE
                /\ UNCHANGED <<state, stopReason, activeTurn, fadeLeft>>
    BY <1>2 DEF ConsumeSpeech, n, rest
  <2>9. rest.count \in 0..RingCapacity  BY <2>3 DEF Sound, RingType
  <2>10. CASE state = "DRAINING" /\ rest.count = 0 /\ stopReason = "SERVER_DROPPED"
    <3>1. StartFade("SERVER_DROPPED", rest)  BY <2>8, <2>10 DEF Drained
    <3>2. QED  BY <3>1, <2>3, <2>7, <1>1, FadeKeeps
  <2>11. CASE state = "DRAINING" /\ rest.count = 0 /\ stopReason # "SERVER_DROPPED"
    <3>1. /\ state' = "IDLE" /\ stopReason' = "NONE" /\ activeTurn' = 0
          /\ ring' = rest /\ played' = TRUE /\ UNCHANGED fadeLeft
      BY <2>8, <2>11 DEF Drained
    <3>2. Sound(ring)' /\ ring'.count = 0  BY <3>1, <2>3, <2>11 DEF Sound
    <3>3. NothingStuck' /\ SawIdle'
      BY <3>1, <3>2, <2>11 DEF NothingStuck, SawIdle, IInv
    <3>4. QED
      BY <3>1, <3>2, <3>3, <2>7, <1>1, Assemble DEF IInv, TypeOK, States
  <2>12. CASE ~(state = "DRAINING" /\ rest.count = 0)
    <3>1. /\ ring' = rest /\ played' = TRUE
          /\ UNCHANGED <<state, stopReason, activeTurn, fadeLeft>>
      BY <2>8, <2>12
    <3>2. Sound(ring)'  BY <3>1, <2>3 DEF Sound
    <3>3. NothingStuck'
      BY <3>1, <2>8, <2>9, <2>12 DEF NothingStuck, IInv
    <3>4. SawIdle'  BY <1>1 DEF SawIdle
    <3>5. QED
      BY <3>1, <3>2, <3>3, <3>4, <2>7, <1>1, Assemble DEF IInv, TypeOK
  <2>13. QED  BY <2>10, <2>11, <2>12
<1>3. CASE ConsumeFade
  <2>1. /\ state = "FADING" /\ fadeLeft \in 1..FadeTotal /\ Block \in Nat \ {0}
        /\ fadeLeft' = fadeLeft - Least(fadeLeft, Block)
        /\ IF fadeLeft' = 0
           THEN last' = 0 /\ state' = "IDLE" /\ stopReason' = "NONE"
           ELSE UNCHANGED <<last, state, stopReason>>
        /\ UNCHANGED <<activeTurn, ring, played>>
    BY <1>3, Sizes DEF ConsumeFade, IInv, TypeOK
  <2>2. fadeLeft' \in 0..FadeTotal
    <3>1. Least(fadeLeft, Block) \in 1..fadeLeft  BY <2>1 DEF Least
    <3>2. fadeLeft' = fadeLeft - Least(fadeLeft, Block)  BY <2>1
    <3>3. FadeTotal \in Nat /\ fadeLeft \in 1..FadeTotal  BY <2>1, Sizes
    <3> HIDE <2>1
    <3>4. QED  BY <3>1, <3>2, <3>3
  <2>3. Sound(ring)'  BY <2>1 DEF Sound, IInv, TypeOK
  <2>4. NothingStuck'
    BY <2>1, <2>2 DEF NothingStuck, IInv
  <2>5. SawIdle'  BY <1>1 DEF SawIdle
  <2>6. QED
    BY <2>1, <2>2, <2>3, <2>4, <2>5, <1>1, Sizes, Assemble
    DEF IInv, TypeOK, States
<1>4. CASE ConsumeNothing
  BY <1>1, <1>4 DEF ConsumeNothing, core, IInv, TypeOK, NothingStuck, SawIdle
<1>5. QED  BY <1>2, <1>3, <1>4 DEF Consume

LEMMA NextInv == IInv /\ [Next]_vars => IInv'
<1> SUFFICES ASSUME IInv, [Next]_vars PROVE IInv'  OBVIOUS
<1>1. ASSUME NEW t \in Turns, SayBegin(t) PROVE IInv'
  BY <1>1, ClearKeeps DEF SayBegin
<1>2. ASSUME NEW t \in Turns, SayEnd(t) PROVE IInv'
  <2>1. CASE ring.count = 0
    BY <1>2, <2>1, ClearKeeps DEF SayEnd
  <2>2. CASE ring.count # 0
    BY <1>2, <2>2
    DEF SayEnd, HasActiveTurn, IInv, TypeOK, NothingStuck, SawIdle, States,
        RingType
  <2>3. QED  BY <2>1, <2>2
<1>3. ASSUME NEW t \in Turns, SayCancel(t) PROVE IInv'
  BY <1>3, FadeKeeps DEF SayCancel, IInv, TypeOK, Sound
<1>4. ASSUME NEW t \in Turns, NEW s \in Batch, SayAudio(t, s) PROVE IInv'
  BY <1>4, SayAudioKeeps
<1>5. CASE ServerDrop
  <2>1. CASE ring.count > 0
    BY <1>5, <2>1
    DEF ServerDrop, IInv, TypeOK, NothingStuck, SawIdle, States
  <2>2. CASE ~(ring.count > 0)
    BY <1>5, <2>2, FadeKeeps DEF ServerDrop, IInv, TypeOK, Sound
  <2>3. QED  BY <2>1, <2>2
<1>6. CASE Look
  BY <1>6 DEF Look, core, IInv, TypeOK, NothingStuck, SawIdle
<1>7. CASE Consume  BY <1>7, ConsumeKeeps
<1>8. CASE UNCHANGED vars
  BY <1>8 DEF vars, core, IInv, TypeOK, NothingStuck, SawIdle
<1>9. QED  BY <1>1, <1>2, <1>3, <1>4, <1>5, <1>6, <1>7, <1>8 DEF Next

THEOREM Invariance == Spec => []IInv
BY InitInv, NextInv, PTL DEF Spec

(* Every call leaves values of the declared ranges: the indices stay       *)
(* inside the ring, a fade never has more samples left than it started     *)
(* with.                                                                   *)
THEOREM TypeCorrect == Spec => []TypeOK
<1>1. IInv => TypeOK  BY DEF IInv
<1>2. QED  BY <1>1, Invariance, PTL

(* No state the audio task cannot leave, whatever calls the link makes and *)
(* in whatever order.                                                      *)
THEOREM NeverStuck == Spec => []NothingStuck
<1>1. IInv => NothingStuck  BY DEF IInv
<1>2. QED  BY <1>1, Invariance, PTL

(* The bench tone never comes out between two blocks of one turn.          *)
THEOREM ToneStaysOut == Spec => ToneNeverSplitsSpeech
<1>1. IInv /\ [Next]_vars =>
        [Consume /\ out'.kind = "tone" => state = "IDLE" \/ ~played]_vars
  <2> SUFFICES ASSUME IInv, Consume, out'.kind = "tone"
               PROVE  state = "IDLE" \/ ~played
    OBVIOUS
  <2>1. ~ConsumeSpeech  BY DEF ConsumeSpeech
  <2>2. ~ConsumeFade  BY DEF ConsumeFade
  <2>3. seen = "IDLE"  BY <2>1, <2>2 DEF Consume, ConsumeNothing
  <2>4. QED  BY <2>3 DEF IInv, SawIdle
<1>2. QED  BY <1>1, Invariance, PTL DEF Spec, ToneNeverSplitsSpeech

-----------------------------------------------------------------------------
(* The fade.  C's division towards zero, for a voice x and m of the total  *)
(* samples: it shrinks with m, keeps the sign of x and starts at x.        *)
LEMMA DivShrinks ==
  ASSUME NEW F \in Nat \ {0}, NEW a \in Nat, NEW b \in Nat, a <= b
  PROVE  a \div F \in Nat /\ a \div F <= b \div F
<1>1. /\ a \div F \in Nat /\ F * (a \div F) <= a
      /\ b \div F \in Nat /\ b < F * (b \div F) + F
  OBVIOUS
<1> DEFINE p == a \div F
           q == b \div F
<1>2. p \in Nat /\ q \in Nat /\ F * p < F * q + F  BY <1>1
<1> HIDE DEF p, q
<1>3. p <= q  BY <1>2
<1>4. QED  BY <1>1, <1>3 DEF p, q

LEMMA QuotientOf ==
  ASSUME NEW F \in Nat \ {0}, NEW a \in Nat, NEW m \in Nat
  PROVE  /\ a * m \in Nat
         /\ Quotient(a * m, F) = (a * m) \div F
         /\ Quotient((-a) * m, F) = -((a * m) \div F)
<1>1. a * m \in Nat /\ (-a) * m = -(a * m)  OBVIOUS
<1>2. ASSUME NEW p \in Nat PROVE Quotient(p, F) = p \div F /\ Quotient(-p, F) = -(p \div F)
  <2>1. CASE p > 0
    <3>1. -p < 0 /\ ~(p < 0) /\ -(-p) = p  BY <2>1
    <3>2. QED  BY <3>1 DEF Quotient
  <2>2. CASE p = 0
    <3>1. p \div F \in Nat /\ F * (p \div F) <= p  OBVIOUS
    <3>2. p \div F = 0
      <4>1. ASSUME NEW r \in Nat, F * r <= 0 PROVE r = 0  BY <4>1
      <4>2. QED  BY <3>1, <4>1, <2>2
    <3>3. \A r \in Nat : r <= 0 => -r = r /\ ~(r < 0)  OBVIOUS
    <3>4. -p = p /\ ~(p < 0)
      <4>1. p <= 0  BY <2>2
      <4>2. QED  BY <4>1, <3>3
    <3>5. -(p \div F) = p \div F
      <4>1. p \div F \in Nat /\ p \div F <= 0  BY <3>1, <3>2
      <4>2. QED  BY <4>1, <3>3
    <3>6. QED  BY <3>4, <3>5 DEF Quotient
  <2>3. QED  BY <2>1, <2>2
<1>3. QED  BY <1>1, <1>2

LEMMA FadesDown ==
  ASSUME NEW F \in Nat \ {0}, NEW x \in Int, NEW m \in Nat, NEW n \in Nat, m <= n
  PROVE  /\ Quotient(x * m, F) \in Int
         /\ Magnitude(Quotient(x * m, F)) <= Magnitude(Quotient(x * n, F))
         /\ Quotient(x * m, F) * x >= 0
<1>1. ASSUME NEW a \in Nat PROVE a * m \in Nat /\ a * n \in Nat /\ a * m <= a * n
  OBVIOUS
<1>2. ASSUME NEW a \in Nat
      PROVE  (a * m) \div F \in Nat /\ (a * n) \div F \in Nat /\ (a * m) \div F <= (a * n) \div F
  BY <1>1, DivShrinks
<1>3. ASSUME NEW p \in Nat, NEW a \in Nat
      PROVE  Magnitude(p) = p /\ Magnitude(-p) = p /\ p * a >= 0 /\ (-p) * (-a) >= 0
  BY DEF Magnitude
<1>4. CASE x \in Nat
  <2> DEFINE p == (x * m) \div F
             q == (x * n) \div F
  <2>1. p \in Nat /\ q \in Nat /\ p <= q  BY <1>2, <1>4
  <2>2. Quotient(x * m, F) = p /\ Quotient(x * n, F) = q
    BY <1>4, QuotientOf
  <2> HIDE DEF p, q
  <2>3. Magnitude(p) = p /\ Magnitude(q) = q /\ p * x >= 0
    BY <2>1, <1>3, <1>4
  <2>4. QED  BY <2>1, <2>2, <2>3
<1>5. CASE x \notin Nat
  <2>1. -x \in Nat /\ -(-x) = x  BY <1>5
  <2> DEFINE a == -x
             p == (a * m) \div F
             q == (a * n) \div F
  <2>2. p \in Nat /\ q \in Nat /\ p <= q  BY <2>1, <1>2
  <2>3. Quotient((-a) * m, F) = -p /\ Quotient((-a) * n, F) = -q
    BY <2>1, QuotientOf
  <2>4. a \in Nat /\ -a = x  BY <2>1
  <2> HIDE DEF a, p, q
  <2>5. Magnitude(-p) = p /\ Magnitude(-q) = q /\ (-p) * (-a) >= 0 /\ -p \in Int
    BY <2>2, <2>4, <1>3
  <2>6. Quotient(x * m, F) = -p /\ Quotient(x * n, F) = -q  BY <2>3, <2>4
  <2>7. QED  BY <2>2, <2>4, <2>5, <2>6
<1>6. QED  BY <1>4, <1>5

LEMMA FadesFrom ==
  ASSUME NEW F \in Nat \ {0}, NEW x \in Int PROVE Quotient(x * F, F) = x
<1>1. ASSUME NEW a \in Nat PROVE (a * F) \div F = a  OBVIOUS
<1>2. CASE x \in Nat  BY <1>1, <1>2, QuotientOf
<1>3. CASE x \notin Nat
  <2>1. -x \in Nat /\ -(-x) = x  BY <1>3
  <2>2. Quotient((-(-x)) * F, F) = -(((-x) * F) \div F)  BY <2>1, QuotientOf
  <2>3. ((-x) * F) \div F = -x  BY <2>1, <1>1
  <2>4. QED  BY <2>1, <2>2, <2>3
<1>4. QED  BY <1>2, <1>3

(* A fade that has begun is what came out last, down to where it is.       *)
FadeGoesOn ==
  state = "FADING" /\ fadeLeft < FadeTotal =>
    /\ out.kind = "fade" /\ Len(out.samples) > 0
    /\ out.samples[Len(out.samples)] = Quotient(last * (fadeLeft + 1), FadeTotal)

(* The block of a fade. *)
LEMMA FadeBlock ==
  ASSUME IInv, ConsumeFade
  PROVE  LET n == Least(fadeLeft, Block)
         IN  /\ state = "FADING" /\ fadeLeft \in 1..FadeTotal /\ last \in Int
             /\ n \in 1..fadeLeft /\ fadeLeft' = fadeLeft - n
             /\ out' = [kind |-> "fade", samples |-> [k \in 1..n |-> FadeSample(k)]]
             /\ Len([k \in 1..n |-> FadeSample(k)]) = n
<1> DEFINE n == Least(fadeLeft, Block)
<1>1. state = "FADING" /\ fadeLeft \in 1..FadeTotal /\ last \in Int
  BY Sizes DEF ConsumeFade, IInv, TypeOK
<1>2. n \in 1..fadeLeft  BY <1>1, Sizes DEF Least
<1> HIDE DEF n
<1>3. [k \in 1..n |-> FadeSample(k)] \in Seq(Int)
  <2>1. ASSUME NEW k \in 1..n PROVE FadeSample(k) \in Int
    <3> DEFINE m == fadeLeft - k + 1
    <3>1. m \in Nat /\ m <= m  BY <1>1, <1>2
    <3> HIDE DEF m
    <3>2. Quotient(last * m, FadeTotal) \in Int  BY <3>1, <1>1, Sizes, FadesDown
    <3>3. QED  BY <3>2 DEF FadeSample, m
  <2>2. n \in Nat  BY <1>1, <1>2
  <2>3. [k \in 1..n |-> FadeSample(k)] \in [1..n -> Int]  BY <2>1
  <2>4. QED  BY <2>2, <2>3
<1>4. Len([k \in 1..n |-> FadeSample(k)]) = n
  <2>1. n \in Nat  BY <1>1, <1>2
  <2>2. DOMAIN [k \in 1..n |-> FadeSample(k)] = 1..n  OBVIOUS
  <2>3. QED  BY <1>3, <2>1, <2>2, LenProperties
<1>5. /\ out' = [kind |-> "fade", samples |-> [k \in 1..n |-> FadeSample(k)]]
      /\ fadeLeft' = fadeLeft - n
  BY DEF ConsumeFade, n
<1>6. QED  BY <1>1, <1>2, <1>4, <1>5 DEF n

LEMMA FadeKept == IInv /\ FadeGoesOn /\ [Next]_vars => FadeGoesOn'
<1> SUFFICES ASSUME IInv, FadeGoesOn, [Next]_vars, state' = "FADING", fadeLeft' < FadeTotal
             PROVE  /\ out'.kind = "fade" /\ Len(out'.samples) > 0
                    /\ out'.samples[Len(out'.samples)]
                         = Quotient(last' * (fadeLeft' + 1), FadeTotal)
  BY DEF FadeGoesOn
<1>1. ASSUME NEW reason, NEW q, StartFade(reason, q) PROVE FALSE
  BY <1>1, Sizes DEF StartFade
<1>2. ASSUME NEW t \in Turns, SayBegin(t) PROVE FALSE
  BY <1>2 DEF SayBegin, ClearRuntime
<1>3. ASSUME NEW t \in Turns, SayEnd(t) PROVE FALSE
  BY <1>3 DEF SayEnd, ClearRuntime
<1>4. ASSUME NEW t \in Turns, SayCancel(t) PROVE FALSE
  BY <1>4, <1>1 DEF SayCancel
<1>5. ASSUME NEW t \in Turns, NEW s \in Batch, SayAudio(t, s) PROVE FALSE
  BY <1>5 DEF SayAudio
<1>6. ~ServerDrop  BY <1>1 DEF ServerDrop
<1>7. ~ConsumeSpeech
  <2> SUFFICES ASSUME ConsumeSpeech PROVE FALSE  OBVIOUS
  <2>1. state \in {"BUFFERING", "DRAINING"}
        /\ (state' = state \/ \E q : Drained(q))
    BY DEF ConsumeSpeech
  <2>2. PICK q : Drained(q)  BY <2>1
  <2>3. QED  BY <2>2, <1>1 DEF Drained
<1>8. ~ConsumeNothing
  <2> SUFFICES ASSUME ConsumeNothing PROVE FALSE  OBVIOUS
  <2>1. state = "FADING" /\ fadeLeft = 0  BY DEF ConsumeNothing, core
  <2>2. QED  BY <2>1, Sizes DEF IInv, NothingStuck
<1>9. CASE ConsumeFade
  <2> DEFINE n == Least(fadeLeft, Block)
  <2>1. /\ fadeLeft \in 1..FadeTotal /\ n \in 1..fadeLeft /\ fadeLeft' = fadeLeft - n
        /\ out' = [kind |-> "fade", samples |-> [k \in 1..n |-> FadeSample(k)]]
        /\ Len([k \in 1..n |-> FadeSample(k)]) = n
    BY <1>9, FadeBlock
  <2>2. last' = last
    BY <1>9 DEF ConsumeFade
  <2> HIDE DEF n
  <2>3. out'.kind = "fade" /\ Len(out'.samples) = n /\ out'.samples[n] = FadeSample(n)
    BY <2>1
  <2>4. fadeLeft - n + 1 = fadeLeft' + 1 /\ n > 0  BY <2>1, Sizes
  <2>5. QED  BY <2>2, <2>3, <2>4 DEF FadeSample
<1>10. CASE UNCHANGED <<core, out>>
  BY <1>10 DEF core, FadeGoesOn
<1>11. QED
  BY <1>2, <1>3, <1>4, <1>5, <1>6, <1>7, <1>8, <1>9, <1>10 DEF Next, vars, Look, Consume

(* README, "sem click duro": a fade goes down from the last sample heard,  *)
(* across its blocks, and never through zero (start_fade, consume).        *)
THEOREM FadeComesDown == Spec => FadeIsSmooth
<1> DEFINE Down(k) ==
      LET x == out'.samples[k]
          y == IF k > 1 THEN out'.samples[k - 1]
               ELSE IF out.kind = "fade" /\ fadeLeft < FadeTotal
                    THEN out.samples[Len(out.samples)] ELSE last
      IN  Magnitude(x) <= Magnitude(y) /\ x * last >= 0
<1>1. ASSUME IInv, FadeGoesOn, ConsumeFade, NEW k \in DOMAIN out'.samples PROVE Down(k)
  <2> DEFINE n == Least(fadeLeft, Block)
  <2>1. /\ state = "FADING" /\ fadeLeft \in 1..FadeTotal /\ n \in 1..fadeLeft /\ last \in Int
        /\ out'.samples = [j \in 1..n |-> FadeSample(j)]
    BY <1>1, FadeBlock
  <2> HIDE DEF n
  <2>2. k \in 1..n  BY <1>1, <2>1
  <2>3. fadeLeft - k + 1 \in Nat /\ fadeLeft - k + 1 <= FadeTotal  BY <2>1, <2>2, Sizes
  <2>4. out'.samples[k] = Quotient(last * (fadeLeft - k + 1), FadeTotal)
    BY <2>1, <2>2 DEF FadeSample
  <2>5. out'.samples[k] * last >= 0
    BY <2>1, <2>3, <2>4, Sizes, FadesDown
  <2>6. CASE k > 1
    <3>1. k - 1 \in 1..n /\ fadeLeft - (k - 1) + 1 \in Nat
          /\ fadeLeft - k + 1 <= fadeLeft - (k - 1) + 1
      BY <2>1, <2>2, <2>6
    <3>2. out'.samples[k - 1] = Quotient(last * (fadeLeft - (k - 1) + 1), FadeTotal)
      BY <2>1, <3>1 DEF FadeSample
    <3>3. Magnitude(out'.samples[k]) <= Magnitude(out'.samples[k - 1])
      BY <2>1, <2>3, <2>4, <3>1, <3>2, Sizes, FadesDown
    <3>4. QED  BY <2>5, <2>6, <3>3
  <2>7. CASE ~(k > 1) /\ fadeLeft < FadeTotal
    <3>1. out.kind = "fade"
          /\ out.samples[Len(out.samples)] = Quotient(last * (fadeLeft + 1), FadeTotal)
      BY <1>1, <2>1, <2>7 DEF FadeGoesOn
    <3>2. fadeLeft + 1 \in Nat /\ fadeLeft - k + 1 <= fadeLeft + 1  BY <2>1, <2>2
    <3>3. Magnitude(out'.samples[k]) <= Magnitude(out.samples[Len(out.samples)])
      BY <2>1, <2>3, <2>4, <3>1, <3>2, Sizes, FadesDown
    <3>4. QED  BY <2>5, <2>7, <3>1, <3>3
  <2>8. CASE ~(k > 1) /\ ~(fadeLeft < FadeTotal)
    <3>1. Quotient(last * FadeTotal, FadeTotal) = last  BY <2>1, Sizes, FadesFrom
    <3>2. FadeTotal \in Nat  BY Sizes
    <3>3. Magnitude(out'.samples[k]) <= Magnitude(last)
      BY <2>1, <2>3, <2>4, <3>1, <3>2, Sizes, FadesDown
    <3>4. QED  BY <2>5, <2>8, <3>3
  <2>9. QED  BY <2>6, <2>7, <2>8
<1>2. ASSUME IInv, [Next]_vars, out'.kind = "fade", out' # out PROVE ConsumeFade
  <2>1. ~ConsumeSpeech /\ ~ConsumeNothing  BY <1>2 DEF ConsumeSpeech, ConsumeNothing
  <2>2. QED
    BY <1>2, <2>1
    DEF Next, SayBegin, SayEnd, SayCancel, SayAudio, ServerDrop, Look, Consume, vars
<1> HIDE DEF Down
<1>3. IInv /\ FadeGoesOn /\ [Next]_vars
        => [out'.kind = "fade" /\ out' # out => \A k \in DOMAIN out'.samples : Down(k)]_vars
  BY <1>1, <1>2
<1>4. Init => FadeGoesOn  BY DEF Init, FadeGoesOn
<1>5. Spec => [][out'.kind = "fade" /\ out' # out => \A k \in DOMAIN out'.samples : Down(k)]_vars
  BY <1>3, <1>4, FadeKept, Invariance, PTL DEF Spec
<1>6. QED  BY <1>5 DEF FadeIsSmooth, Down

-----------------------------------------------------------------------------
(* The refinement of SpeechLine.  A turn that may still be fed, ended or   *)
(* cut has not lost its link.                                              *)
ReasonKnown ==
  /\ state = "BUFFERING" => stopReason = "NONE"
  /\ state = "DRAINING" /\ stopReason = "SERVER_DROPPED" => activeTurn = 0

(* What waits in a ring, as the line of samples it stands for.             *)
Waits(q) == RingContents(q, RingCapacity)

LEMMA WaitsTyped ==
  ASSUME NEW q, Sound(q)
  PROVE  /\ Waits(q) \in Seq(Samples) /\ Len(Waits(q)) = q.count
         /\ q.count \in 0..RingCapacity /\ RingCapacity \in Nat
         /\ Waits(q) = <<>> <=> q.count = 0
<1>1. /\ Waits(q) \in [1..q.count -> Samples] /\ q.count \in 0..RingCapacity
      /\ RingCapacity \in Nat
  BY ContentsTyped, Sizes DEF Sound, Waits, RingType
<1> HIDE DEF Waits
<1>2. Waits(q) \in Seq(Samples) /\ Len(Waits(q)) = q.count  BY <1>1
<1>3. Waits(q) = <<>> <=> q.count = 0  BY <1>1, <1>2, EmptySeq
<1>4. QED  BY <1>1, <1>2, <1>3

LEMMA WaitsEmptied ==
  ASSUME NEW q, Sound(q) PROVE Waits(Emptied(q)) = <<>> /\ Sound(Emptied(q))
<1>1. Sound(Emptied(q)) /\ Emptied(q).count = 0  BY EmptiedRing, Sizes DEF Sound
<1>2. QED  BY <1>1, WaitsTyped

(* What is written comes after what waits.                                 *)
LEMMA WaitsWritten ==
  ASSUME NEW q, Sound(q), NEW s \in Seq(Samples), q.count + Len(s) <= RingCapacity
  PROVE  /\ Waits(RingWrite(q, RingCapacity, s)) = Waits(q) \o s
         /\ Sound(RingWrite(q, RingCapacity, s))
<1> DEFINE r == RingWrite(q, RingCapacity, s)
<1>1. /\ Sound(r) /\ r.count = q.count + Len(s)
      /\ \A k \in 1..q.count : Waits(r)[k] = Waits(q)[k]
      /\ \A k \in 1..Len(s) : Waits(r)[q.count + k] = s[k]
  BY WriteAppends, Sizes DEF Sound, Waits
<1> HIDE DEF r, Waits
<1>2. /\ Waits(r) \in Seq(Samples) /\ Len(Waits(r)) = q.count + Len(s)
      /\ Waits(q) \in Seq(Samples) /\ Len(Waits(q)) = q.count
      /\ q.count \in Nat /\ Len(s) \in Nat
  BY <1>1, WaitsTyped, LenProperties
<1>3. /\ Waits(q) \o s \in Seq(Samples) /\ Len(Waits(q) \o s) = q.count + Len(s)
      /\ \A i \in 1..(q.count + Len(s)) :
           (Waits(q) \o s)[i] = IF i <= q.count THEN Waits(q)[i] ELSE s[i - q.count]
  <2>1. /\ Waits(q) \o s \in Seq(Samples)
        /\ Len(Waits(q) \o s) = Len(Waits(q)) + Len(s)
        /\ \A i \in 1..Len(Waits(q)) + Len(s) :
             (Waits(q) \o s)[i] = IF i <= Len(Waits(q)) THEN Waits(q)[i] ELSE s[i - Len(Waits(q))]
    <3>1. \A u, v \in Seq(Samples) :
            /\ u \o v \in Seq(Samples)
            /\ Len(u \o v) = Len(u) + Len(v)
            /\ \A i \in 1..Len(u) + Len(v) :
                 (u \o v)[i] = IF i <= Len(u) THEN u[i] ELSE v[i - Len(u)]
      BY ConcatProperties
    <3>2. QED  BY <1>2, <3>1, Zenon
  <2>2. Len(Waits(q)) = q.count  BY <1>2
  <2>3. QED  BY <2>1, <2>2
<1>4. ASSUME NEW i \in 1..(q.count + Len(s)) PROVE Waits(r)[i] = (Waits(q) \o s)[i]
  <2>1. CASE i <= q.count
    BY <1>1, <1>2, <1>3, <2>1
  <2>2. CASE i > q.count
    <3>1. i - q.count \in 1..Len(s) /\ q.count + (i - q.count) = i  BY <1>2, <2>2
    <3>2. Waits(r)[i] = s[i - q.count]  BY <1>1, <3>1
    <3>3. QED  BY <1>2, <1>3, <2>2, <3>2
  <2>3. QED  BY <1>2, <2>1, <2>2
<1>5. Waits(r) = Waits(q) \o s  BY <1>2, <1>3, <1>4, SeqEqual
<1>6. QED  BY <1>1, <1>5 DEF r

(* What is read is taken from the front.                                   *)
LEMMA WaitsDropped ==
  ASSUME NEW q, Sound(q), NEW n \in 1..q.count
  PROVE  /\ Waits(RingDrop(q, RingCapacity, n)) = SubSeq(Waits(q), n + 1, Len(Waits(q)))
         /\ Sound(RingDrop(q, RingCapacity, n))
         /\ RingDrop(q, RingCapacity, n).count = q.count - n
         /\ SubSeq(Waits(q), 1, n)[n] = Waits(q)[n]
<1> DEFINE r == RingDrop(q, RingCapacity, n)
           w == Waits(q)
<1>1. w \in Seq(Samples) /\ Len(w) = q.count /\ q.count \in Nat /\ n \in Nat
  BY WaitsTyped
<1>2. /\ Sound(r) /\ r.count = q.count - n
      /\ \A k \in 1..(q.count - n) : Waits(r)[k] = w[n + k]
  BY <1>1, DropRemoves, Sizes DEF Sound, Waits
<1> HIDE DEF r
<1>3. Waits(r) \in Seq(Samples) /\ Len(Waits(r)) = q.count - n
  BY <1>2, WaitsTyped
<1> HIDE DEF w
<1>4. \A i \in 1..Len(w) : w[i] \in Samples  BY <1>1, ElementOfSeq
<1>5. /\ SubSeq(w, n + 1, Len(w)) \in Seq(Samples)
      /\ Len(SubSeq(w, n + 1, Len(w))) = q.count - n
      /\ \A i \in 1..(q.count - n) : SubSeq(w, n + 1, Len(w))[i] = w[n + i]
  <2>1. \A i \in (n + 1)..Len(w) : w[i] \in Samples  BY <1>1, <1>4
  <2>2. /\ SubSeq(w, n + 1, Len(w)) \in Seq(Samples)
        /\ Len(SubSeq(w, n + 1, Len(w)))
             = IF n + 1 <= Len(w) THEN Len(w) - (n + 1) + 1 ELSE 0
        /\ \A i \in 1..(Len(w) - (n + 1) + 1) :
             SubSeq(w, n + 1, Len(w))[i] = w[n + 1 + i - 1]
    <3>1. n + 1 \in Int /\ Len(w) \in Int  BY <1>1
    <3>2. QED  BY <2>1, <3>1, SubSeqProperties
  <2>3. Len(w) - (n + 1) + 1 = q.count - n /\ \A i \in Int : n + 1 + i - 1 = n + i
    BY <1>1
  <2>4. QED  BY <1>1, <2>2, <2>3
<1>6. Waits(r) = SubSeq(w, n + 1, Len(w))
  BY <1>2, <1>3, <1>5, SeqEqual
<1>7. SubSeq(w, 1, n)[n] = w[n]
  <2>1. \A i \in 1..n : w[i] \in Samples  BY <1>1, <1>4
  <2>2. \A i \in 1..(n - 1 + 1) : SubSeq(w, 1, n)[i] = w[1 + i - 1]
    <3>1. 1 \in Int /\ n \in Int  BY <1>1
    <3>2. QED  BY <2>1, <3>1, SubSeqProperties
  <2>3. n \in 1..(n - 1 + 1) /\ 1 + n - 1 = n  BY <1>1
  <2>4. QED  BY <2>2, <2>3
<1>8. QED  BY <1>2, <1>6, <1>7 DEF r, w

(* The state that stands for the line's phase, and a link that was lost.   *)
Phase ==
  CASE state = "IDLE" -> "idle" [] state = "BUFFERING" -> "open"
    [] state = "DRAINING" -> "closing" [] OTHER -> "fading"
LinkLost == state = "DRAINING" /\ stopReason = "SERVER_DROPPED"

OInv == IInv /\ ReasonKnown

LEMMA WhatIsMapped ==
  ASSUME OInv
  PROVE  /\ state \in States /\ Sound(ring) /\ fadeLeft \in 0..FadeTotal
         /\ Waits(ring) \in Seq(Samples) /\ Len(Waits(ring)) = ring.count
         /\ ring.count \in 0..RingCapacity
         /\ Waits(ring) = <<>> <=> ring.count = 0
         /\ state = "DRAINING" => ring.count > 0
BY WaitsTyped DEF OInv, IInv, TypeOK, NothingStuck, Sound

LEMMA BeginMaps ==
  ASSUME OInv, NEW t \in Turns, SayBegin(t) PROVE Line!Begin(t)
<1>1. RingContents(ring', RingCapacity) = <<>>
  BY WhatIsMapped, WaitsEmptied DEF SayBegin, ClearRuntime, Waits
<1>2. /\ state' = "BUFFERING" /\ stopReason' = "NONE" /\ activeTurn' = t
      /\ last' = 0 /\ fadeLeft' = 0
  BY DEF SayBegin, ClearRuntime
<1>3. QED  BY <1>1, <1>2 DEF Line!Begin

LEMMA EndMaps ==
  ASSUME OInv, NEW t \in Turns, SayEnd(t) PROVE Line!End(t)
<1>1. activeTurn = t /\ state \in {"BUFFERING", "DRAINING"}
  BY DEF SayEnd, HasActiveTurn
<1>2. Line!Ours(t)  BY <1>1 DEF Line!Ours
<1>3. CASE ring.count = 0
  <2>1. RingContents(ring, RingCapacity) = <<>>  BY <1>3, WhatIsMapped DEF Waits
  <2>2. RingContents(ring', RingCapacity) = <<>>
    BY <1>3, WhatIsMapped, WaitsEmptied DEF SayEnd, ClearRuntime, Waits
  <2>3. state' = "IDLE" /\ activeTurn' = 0 /\ last' = 0 /\ fadeLeft' = 0
    BY <1>3 DEF SayEnd, ClearRuntime
  <2>4. QED  BY <1>2, <2>1, <2>2, <2>3 DEF Line!End, Line!Quiet
<1>4. CASE ring.count # 0
  <2>1. RingContents(ring, RingCapacity) # <<>>  BY <1>4, WhatIsMapped DEF Waits
  <2>2. /\ state' = "DRAINING"
        /\ UNCHANGED <<stopReason, activeTurn, ring, fadeLeft, last>>
    BY <1>4 DEF SayEnd
  <2>3. LinkLost' <=> LinkLost
    BY <1>1, <2>2 DEF OInv, ReasonKnown, LinkLost
  <2>4. QED  BY <1>2, <2>1, <2>2, <2>3 DEF Line!End, LinkLost
<1>5. QED  BY <1>3, <1>4

LEMMA StopMaps ==
  ASSUME OInv, NEW reason, StartFade(reason, ring), UNCHANGED last, ~LinkLost
  PROVE  Line!Stop /\ (LinkLost' <=> LinkLost)
<1>1. RingContents(ring', RingCapacity) = <<>>
  BY WhatIsMapped, WaitsEmptied DEF StartFade, Waits
<1>2. /\ activeTurn' = 0 /\ last' = last
      /\ IF last' = 0 THEN state' = "IDLE" /\ fadeLeft' = 0
                      ELSE state' = "FADING" /\ fadeLeft' = FadeTotal
  BY DEF StartFade
<1>3. Line!Stop  BY <1>1, <1>2 DEF Line!Stop
<1>4. ~LinkLost'  BY <1>2 DEF LinkLost
<1>5. QED  BY <1>3, <1>4

LEMMA CutMaps ==
  ASSUME OInv, NEW t \in Turns, SayCancel(t) PROVE Line!Cut(t)
<1>1. activeTurn = t /\ t # 0 /\ state \in {"BUFFERING", "DRAINING"}
  BY Sizes DEF SayCancel, HasActiveTurn
<1>2. Line!Ours(t)  BY <1>1 DEF Line!Ours
<1>3. ~LinkLost  BY <1>1 DEF LinkLost, OInv, ReasonKnown
<1>4. Line!Stop /\ (LinkLost' <=> LinkLost)
  BY <1>3, StopMaps DEF SayCancel
<1>5. QED  BY <1>2, <1>4 DEF Line!Cut, LinkLost

LEMMA DropMaps ==
  ASSUME OInv, ServerDrop PROVE Line!Drop
<1>1. state \in {"BUFFERING", "DRAINING"}  BY DEF ServerDrop
<1>2. CASE ring.count > 0
  <2>1. RingContents(ring, RingCapacity) # <<>>  BY <1>2, WhatIsMapped DEF Waits
  <2>2. /\ state' = "DRAINING" /\ stopReason' = "SERVER_DROPPED" /\ activeTurn' = 0
        /\ UNCHANGED <<ring, fadeLeft, last>>
    BY <1>2 DEF ServerDrop
  <2>3. QED  BY <1>1, <2>1, <2>2 DEF Line!Drop
<1>3. CASE ~(ring.count > 0)
  <2>1. RingContents(ring, RingCapacity) = <<>> /\ state = "BUFFERING"
    BY <1>1, <1>3, WhatIsMapped DEF Waits
  <2>2. Line!Stop /\ (LinkLost' <=> LinkLost)
    BY <1>3, <2>1, StopMaps DEF ServerDrop, LinkLost
  <2>3. QED  BY <1>1, <2>1, <2>2 DEF Line!Drop, LinkLost
<1>4. QED  BY <1>2, <1>3

(* A batch longer than the line of SpeechLine may be is cut to one that    *)
(* loses as much to the full ring.                                         *)
LEMMA FeedMaps ==
  ASSUME OInv, NEW t \in Turns, NEW s \in Batch, SayAudio(t, s)
  PROVE  \E u \in Line!Batch : Line!Feed(t, u)
<1> DEFINE n == Least(Len(s), Room)
           m == Least(Len(s), RingCapacity + 1)
           u == SubSeq(s, 1, m)
<1>1. PICK len \in 1..MaxBatch : s \in [1..len -> Samples]
  BY DEF Batch
<1>2. /\ s \in Seq(Samples) /\ Len(s) = len /\ len \in Nat \ {0}
      /\ \A i \in 1..len : s[i] \in Samples
  BY <1>1, PlaybackAssumption
<1>3. ring.count \in 0..RingCapacity /\ RingCapacity \in Nat \ {0}
  BY WhatIsMapped, Sizes
<1>4. /\ n \in 0..len /\ ring.count + n <= RingCapacity
      /\ n = len \/ ring.count + n = RingCapacity
      /\ m \in 1..len /\ m <= RingCapacity + 1 /\ n <= m
      /\ n = m \/ ring.count + n = RingCapacity
  BY <1>2, <1>3 DEF Least, Room
<1>5. u \in [1..m -> Samples] /\ u \in Seq(Samples) /\ Len(u) = m
      /\ \A i \in 1..m : u[i] = s[i]
  <2>1. 1 \in Int /\ m \in Int /\ \A i \in 1..m : s[i] \in Samples  BY <1>2, <1>4
  <2>2. /\ u \in Seq(Samples) /\ Len(u) = IF 1 <= m THEN m - 1 + 1 ELSE 0
        /\ \A i \in 1..(m - 1 + 1) : u[i] = s[1 + i - 1]
    BY <2>1, SubSeqProperties
  <2> HIDE DEF u, m
  <2>3. Len(u) = m /\ m - 1 + 1 = m /\ \A i \in Int : 1 + i - 1 = i  BY <2>2, <1>4
  <2>4. u \in [1..Len(u) -> Samples]  BY <2>2, LenProperties
  <2>5. \A i \in 1..m : u[i] = s[i]  BY <2>2, <2>3
  <2>6. QED  BY <2>2, <2>3, <2>4, <2>5
<1>6. SubSeq(u, 1, n) = SubSeq(s, 1, n) /\ SubSeq(s, 1, n) \in Seq(Samples)
      /\ Len(SubSeq(s, 1, n)) = n
  <2> HIDE DEF u, m, n
  <2>1. ASSUME NEW v, \A i \in 1..n : v[i] \in Samples
        PROVE  /\ SubSeq(v, 1, n) \in Seq(Samples) /\ Len(SubSeq(v, 1, n)) = n
               /\ \A i \in 1..n : SubSeq(v, 1, n)[i] = v[i]
    <3>1. 1 \in Int /\ n \in Int  BY <1>4
    <3>2. /\ SubSeq(v, 1, n) \in Seq(Samples)
          /\ Len(SubSeq(v, 1, n)) = IF 1 <= n THEN n - 1 + 1 ELSE 0
          /\ \A i \in 1..(n - 1 + 1) : SubSeq(v, 1, n)[i] = v[1 + i - 1]
      BY <2>1, <3>1, SubSeqProperties
    <3>3. n \in Nat /\ n - 1 + 1 = n /\ (IF 1 <= n THEN n - 1 + 1 ELSE 0) = n
          /\ \A i \in Int : 1 + i - 1 = i
      BY <1>2, <1>4
    <3>4. QED  BY <3>2, <3>3
  <2>2. \A i \in 1..n : i \in 1..m /\ i \in 1..len  BY <1>2, <1>4
  <2>3. \A i \in 1..n : s[i] \in Samples /\ u[i] \in Samples /\ u[i] = s[i]
    BY <2>2, <1>2, <1>5
  <2>4. /\ SubSeq(s, 1, n) \in Seq(Samples) /\ Len(SubSeq(s, 1, n)) = n
        /\ \A i \in 1..n : SubSeq(s, 1, n)[i] = s[i]
    BY <2>1, <2>3
  <2>5. /\ SubSeq(u, 1, n) \in Seq(Samples) /\ Len(SubSeq(u, 1, n)) = n
        /\ \A i \in 1..n : SubSeq(u, 1, n)[i] = u[i]
    BY <2>1, <2>3
  <2>6. \A i \in 1..n : SubSeq(u, 1, n)[i] = SubSeq(s, 1, n)[i]  BY <2>3, <2>4, <2>5
  <2>7. SubSeq(u, 1, n) = SubSeq(s, 1, n)  BY <2>4, <2>5, <2>6, SeqEqual
  <2>8. QED  BY <2>4, <2>7
<1>7. ring' = RingWrite(ring, RingCapacity, SubSeq(s, 1, n))
  BY DEF SayAudio
<1> HIDE DEF u, n
<1>8. Waits(ring') = Waits(ring) \o SubSeq(u, 1, n)
  BY <1>4, <1>6, <1>7, WhatIsMapped, WaitsWritten
<1>9. u \in Line!Batch
  <2>1. u # <<>>  BY <1>4, <1>5, EmptySeq
  <2>2. m \in 0..(RingCapacity + 1)  BY <1>2, <1>3, <1>4
  <2> HIDE DEF m
  <2>3. u \in UNION {[1..k -> Samples] : k \in 0..(RingCapacity + 1)}
    BY <1>5, <2>2
  <2>4. QED  BY <2>1, <2>3 DEF Line!Batch, Line!BoundedSeq, Line!SeqOf
<1>10. /\ n \in 0..Len(u)
       /\ Len(Waits(ring)) + n <= RingCapacity
       /\ n = Len(u) \/ Len(Waits(ring)) + n = RingCapacity
  BY <1>4, <1>5, WhatIsMapped
<1>11. /\ state = "BUFFERING" /\ activeTurn = t
       /\ UNCHANGED <<state, stopReason, activeTurn, fadeLeft, last>>
  BY DEF SayAudio, HasActiveTurn
<1>12. Line!Feed(t, u)
  BY <1>8, <1>10, <1>11 DEF Line!Feed, Waits
<1>13. QED  BY <1>9, <1>12

LEMMA PlayMaps ==
  ASSUME OInv, ConsumeSpeech PROVE Line!Play
<1> DEFINE n == Least(ring.count, Block)
           rest == RingDrop(ring, RingCapacity, n)
           w == Waits(ring)
           tail == SubSeq(w, n + 1, Len(w))
<1>1. ring.count > 0 /\ state \in {"BUFFERING", "DRAINING"}  BY DEF ConsumeSpeech
<1>2. n \in 1..ring.count  BY <1>1, WhatIsMapped, Sizes DEF Least
<1>3. /\ Waits(rest) = tail /\ Sound(rest) /\ rest.count = ring.count - n
      /\ SubSeq(w, 1, n)[n] = w[n]
  BY <1>2, WhatIsMapped, WaitsDropped
<1>4. last' = w[n]
  BY <1>3 DEF ConsumeSpeech, Waits
<1>5. /\ w # <<>> /\ Len(w) = ring.count
      /\ n = IF Len(w) < Block THEN Len(w) ELSE Block
  BY <1>1, WhatIsMapped, Sizes DEF Least
<1>6. IF state = "DRAINING" /\ rest.count = 0
      THEN Drained(rest)
      ELSE ring' = rest /\ UNCHANGED <<state, stopReason, activeTurn, fadeLeft>>
  BY DEF ConsumeSpeech
<1>7. rest.count = 0 <=> tail = <<>>
  BY <1>3, WaitsTyped
<1> HIDE DEF n, rest, w, tail
<1> DEFINE Rest ==
      IF Phase = "open" \/ tail # <<>>
      THEN UNCHANGED <<Phase, activeTurn, LinkLost, fadeLeft>>
      ELSE /\ activeTurn' = 0 /\ ~LinkLost'
           /\ IF LinkLost /\ last' # 0
              THEN Phase' = "fading" /\ fadeLeft' = FadeTotal
              ELSE Phase' = "idle" /\ fadeLeft' = 0
<1>8. CASE state = "DRAINING" /\ rest.count = 0 /\ stopReason = "SERVER_DROPPED"
  <2>1. StartFade("SERVER_DROPPED", rest)  BY <1>6, <1>8 DEF Drained
  <2>2. Waits(ring') = <<>>  BY <1>3, <2>1, WaitsEmptied DEF StartFade
  <2>3. /\ activeTurn' = 0
        /\ IF last' = 0 THEN state' = "IDLE" /\ fadeLeft' = 0
                        ELSE state' = "FADING" /\ fadeLeft' = FadeTotal
    BY <2>1 DEF StartFade
  <2>4. Waits(ring') = tail  BY <1>7, <1>8, <2>2
  <2>5. tail = <<>> /\ Phase # "open" /\ LinkLost  BY <1>7, <1>8 DEF Phase, LinkLost
  <2>6. ~LinkLost'  BY <2>3 DEF LinkLost
  <2>7. IF last' = 0 THEN Phase' = "idle" ELSE Phase' = "fading"  BY <2>3 DEF Phase
  <2>8. Waits(ring') = tail /\ Rest
    BY <2>3, <2>4, <2>5, <2>6, <2>7
  <2>9. QED
    BY <1>1, <1>4, <1>5, <2>8 DEF Line!Play, Waits, w, tail, Phase, LinkLost
<1>9. CASE state = "DRAINING" /\ rest.count = 0 /\ stopReason # "SERVER_DROPPED"
  <2>1. /\ state' = "IDLE" /\ activeTurn' = 0 /\ ring' = rest /\ fadeLeft' = fadeLeft
    BY <1>6, <1>9 DEF Drained
  <2>2. fadeLeft = 0  BY <1>9 DEF OInv, IInv, NothingStuck
  <2>3. Waits(ring') = tail  BY <1>3, <2>1
  <2>4. tail = <<>> /\ Phase # "open" /\ ~LinkLost  BY <1>7, <1>9 DEF Phase, LinkLost
  <2>5. ~LinkLost' /\ Phase' = "idle"  BY <2>1 DEF LinkLost, Phase
  <2>6. Waits(ring') = tail /\ Rest  BY <2>1, <2>2, <2>3, <2>4, <2>5
  <2>7. QED
    BY <1>1, <1>4, <1>5, <2>6 DEF Line!Play, Waits, w, tail, Phase, LinkLost
<1>10. CASE ~(state = "DRAINING" /\ rest.count = 0)
  <2>1. ring' = rest /\ UNCHANGED <<state, stopReason, activeTurn, fadeLeft>>
    BY <1>6, <1>10
  <2>2. Waits(ring') = tail  BY <1>3, <2>1
  <2>3. Phase = "open" \/ tail # <<>>  BY <1>1, <1>7, <1>10 DEF Phase
  <2>4. Phase' = Phase /\ (LinkLost' <=> LinkLost)  BY <2>1 DEF LinkLost, Phase
  <2>5. QED
    BY <1>1, <1>4, <1>5, <2>1, <2>2, <2>3, <2>4
    DEF Line!Play, Waits, w, tail, Phase, LinkLost
<1>11. QED  BY <1>8, <1>9, <1>10

LEMMA FadeMaps ==
  ASSUME OInv, ConsumeFade PROVE Line!FadeOut
<1>1. state = "FADING" /\ fadeLeft \in 1..FadeTotal /\ Block \in Nat \ {0}
  BY WhatIsMapped, Sizes DEF ConsumeFade, OInv, IInv, TypeOK
<1>2. fadeLeft' = IF fadeLeft < Block THEN 0 ELSE fadeLeft - Block
  BY <1>1, Sizes DEF ConsumeFade, Least
<1>3. /\ IF fadeLeft' = 0 THEN last' = 0 /\ state' = "IDLE" /\ stopReason' = "NONE"
         ELSE UNCHANGED <<last, state, stopReason>>
      /\ UNCHANGED <<activeTurn, ring>>
  BY DEF ConsumeFade
<1>4. ~LinkLost /\ ~LinkLost'  BY <1>1, <1>3 DEF LinkLost
<1>5. IF fadeLeft' = 0 THEN Phase' = "idle" /\ last' = 0
                      ELSE Phase' = Phase /\ last' = last
  BY <1>1, <1>3 DEF Phase
<1>6. Phase = "fading"  BY <1>1 DEF Phase
<1>7. QED  BY <1>2, <1>3, <1>4, <1>5, <1>6 DEF Line!FadeOut, LinkLost, Phase

LEMMA ReasonKept == OInv /\ [Next]_vars => ReasonKnown'
<1> SUFFICES ASSUME OInv, [Next]_vars PROVE ReasonKnown'  OBVIOUS
<1>1. ASSUME NEW reason, NEW q, StartFade(reason, q) PROVE ReasonKnown'
  BY <1>1 DEF StartFade, ReasonKnown
<1>2. ASSUME NEW t \in Turns, SayBegin(t) \/ SayEnd(t) \/ SayCancel(t) PROVE ReasonKnown'
  BY <1>1, <1>2
  DEF SayBegin, SayEnd, SayCancel, HasActiveTurn, ClearRuntime, OInv, ReasonKnown
<1>3. ASSUME NEW t \in Turns, NEW s \in Batch, SayAudio(t, s) PROVE ReasonKnown'
  BY <1>3 DEF SayAudio, OInv, ReasonKnown
<1>4. CASE ServerDrop  BY <1>1, <1>4 DEF ServerDrop, ReasonKnown
<1>5. CASE ConsumeSpeech
  <2>1. \/ UNCHANGED <<state, stopReason, activeTurn>>
        \/ \E q : Drained(q)
    BY <1>5 DEF ConsumeSpeech
  <2>2. ASSUME NEW q, Drained(q) PROVE ReasonKnown'
    BY <2>2, <1>1 DEF Drained, ReasonKnown
  <2>3. QED  BY <2>1, <2>2 DEF OInv, ReasonKnown
<1>6. CASE ConsumeFade
  BY <1>6 DEF ConsumeFade, OInv, ReasonKnown
<1>7. CASE UNCHANGED core
  BY <1>7 DEF core, OInv, ReasonKnown
<1>8. QED  BY <1>2, <1>3, <1>4, <1>5, <1>6, <1>7
  DEF Next, Look, Consume, ConsumeNothing, vars

LEMMA NothingMaps == UNCHANGED core => UNCHANGED Line!lvars
BY DEF core, Line!lvars, RingContents, Wrap

LEMMA NextMaps == OInv /\ [Next]_vars => [Line!Next]_(Line!lvars)
<1> SUFFICES ASSUME OInv, [Next]_vars PROVE Line!Next \/ UNCHANGED Line!lvars
  OBVIOUS
<1>1. ASSUME NEW t \in Turns, SayBegin(t) \/ SayEnd(t) \/ SayCancel(t) PROVE Line!Next
  BY <1>1, BeginMaps, EndMaps, CutMaps DEF Line!Next
<1>2. ASSUME NEW t \in Turns, NEW s \in Batch, SayAudio(t, s) PROVE Line!Next
  BY <1>2, FeedMaps DEF Line!Next
<1>3. CASE ServerDrop  BY <1>3, DropMaps DEF Line!Next
<1>4. CASE ConsumeSpeech  BY <1>4, PlayMaps DEF Line!Next
<1>5. CASE ConsumeFade  BY <1>5, FadeMaps DEF Line!Next
<1>6. CASE UNCHANGED core  BY <1>6, NothingMaps
<1>7. QED  BY <1>1, <1>2, <1>3, <1>4, <1>5, <1>6
  DEF Next, Look, Consume, ConsumeNothing, vars

(* The samples accepted for a turn come out in order, each once, none of   *)
(* them in another turn; a cut turn leaves only its fade, and one whose    *)
(* link drops plays out (the calls of audio_playback_service.c).           *)
THEOREM SpeechIsALine == Spec => PlaysInOrder
<1>1. Init => OInv
  BY InitInv DEF OInv, ReasonKnown, Init
<1>2. OInv /\ [Next]_vars => OInv'
  BY NextInv, ReasonKept DEF OInv
<1>3. Init => Line!Init
  <2> SUFFICES ASSUME Init PROVE Line!Init  OBVIOUS
  <2>1. ring.count = 0  BY DEF Init, EmptyRing
  <2>2. RingContents(ring, RingCapacity) = <<>>
    BY <1>1, <2>1, WhatIsMapped DEF Waits
  <2>3. QED  BY <2>2 DEF Init, Line!Init
<1>4. QED  BY <1>1, <1>2, <1>3, NextMaps, PTL DEF Spec, PlaysInOrder, Line!Spec
=============================================================================
