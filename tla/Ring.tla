-------------------------------- MODULE Ring --------------------------------
(***************************************************************************)
(* The fixed-capacity circular buffer the firmware writes out by hand: an  *)
(* array, the index to read (head), the index to write (tail) and a count. *)
(* event_bus.c keeps two of them (slot indices waiting to be polled) and   *)
(* audio_playback_service.c one (PCM samples).                             *)
(***************************************************************************)
EXTENDS Integers, Sequences

Wrap(i, cap) == i % cap

EmptyRing(cap, zero) ==
  [buf |-> [i \in 0..cap-1 |-> zero], head |-> 0, tail |-> 0, count |-> 0]

(* Store x at the tail; the caller has checked count < capacity. *)
RingPush(q, cap, x) ==
  [buf   |-> [q.buf EXCEPT ![q.tail] = x],
   head  |-> q.head,
   tail  |-> Wrap(q.tail + 1, cap),
   count |-> q.count + 1]

RingFront(q) == q.buf[q.head]

(* Drop the oldest element; the caller has checked count > 0. *)
RingPop(q, cap) ==
  [buf   |-> q.buf,
   head  |-> Wrap(q.head + 1, cap),
   tail  |-> q.tail,
   count |-> q.count - 1]

-----------------------------------------------------------------------------
(* What the fields stand for: the waiting elements, oldest first. *)
RingContents(q, cap) ==
  [i \in 1..q.count |-> q.buf[Wrap(q.head + i - 1, cap)]]

RingType(q, cap, S) ==
  q \in [buf: [0..cap-1 -> S], head: 0..cap-1, tail: 0..cap-1, count: 0..cap]

(* head, tail and count agree with each other. *)
RingCoherent(q, cap) == q.tail = Wrap(q.head + q.count, cap)
=============================================================================
