------------------------------ MODULE Playback ------------------------------
(***************************************************************************)
(* Playback of speech (services/audio_playback_service): the mind link     *)
(* task writes the samples of a turn into a ring, the audio task reads     *)
(* them a block at a time.  The shell runs each call inside one critical   *)
(* section; the audio task looks at the state in one section and consumes  *)
(* in the next (main.c), so a call of the link can fall between the two.   *)
(***************************************************************************)
EXTENDS Ring, SequencesExt

CONSTANTS RingCapacity,  \* NB_AUDIO_PLAYBACK_SHELL_RING_SAMPLES
          FadeTotal,     \* NB_AUDIO_PLAYBACK_DEFAULT_FADE_SAMPLES
          Block,         \* NB_APP_MAIN_AUDIO_TONE_SAMPLES, asked for at a time
          MaxBatch,      \* NB_AUDIO_PLAYBACK_SHELL_CONVERT_SAMPLES
          Turns,         \* turn ids that are not 0
          Samples        \* int16_t amplitudes, 0 among them

ASSUME PlaybackAssumption ==
  /\ RingCapacity \in Nat \ {0} /\ FadeTotal \in Nat \ {0}
  /\ Block \in Nat \ {0} /\ MaxBatch \in Nat \ {0}
  /\ Turns \subseteq Nat \ {0}
  /\ Samples \subseteq Int /\ 0 \in Samples

VARIABLES state, stopReason, activeTurn,
          ring, fadeLeft, last,  \* fade_remaining_samples, last_output_sample
          played,                \* played_samples > 0
          seen,                  \* the state the audio task looked at, or "none"
          out                    \* the block it wrote last: what it is, samples

core == <<state, stopReason, activeTurn, ring, fadeLeft, last, played>>
vars == <<core, seen, out>>

States == {"IDLE", "BUFFERING", "DRAINING", "FADING"}
Batch == UNION {[1..n -> Samples] : n \in 1..MaxBatch}
Room == RingCapacity - ring.count

-----------------------------------------------------------------------------
(* Several samples at a time: the loops around RingPush and RingPop.       *)
RingWrite(q, cap, s) ==
  LET n == Len(s)
      at(i) == Wrap(i + cap - q.tail, cap) + 1
  IN  [buf   |-> [i \in 0..cap-1 |-> IF at(i) <= n THEN s[at(i)] ELSE q.buf[i]],
       head  |-> q.head,
       tail  |-> Wrap(q.tail + n, cap),
       count |-> q.count + n]

RingDrop(q, cap, n) ==
  [buf   |-> q.buf,
   head  |-> Wrap(q.head + n, cap),
   tail  |-> q.tail,
   count |-> q.count - n]

Least(a, b) == IF a < b THEN a ELSE b

(* C division: towards zero. *)
Quotient(a, b) == IF a < 0 THEN -((-a) \div b) ELSE a \div b

(* ring_head, ring_tail and ring_count go back to 0; the samples stay.     *)
Emptied(q) == [buf |-> q.buf, head |-> 0, tail |-> 0, count |-> 0]

(* Mutant: the samples of the turn before are left in the ring. *)
ClearRuntimeKeepsRing(to, t) ==
  /\ state' = to /\ stopReason' = "NONE" /\ activeTurn' = t
  /\ fadeLeft' = 0 /\ last' = 0 /\ played' = FALSE
  /\ UNCHANGED ring
(* nb_audio_playback_service_clear_runtime, then the state and turn set.   *)
ClearRuntime(to, t) ==
  /\ state' = to /\ stopReason' = "NONE" /\ activeTurn' = t
  /\ ring' = Emptied(ring)
  /\ fadeLeft' = 0 /\ last' = 0 /\ played' = FALSE

(* nb_audio_playback_service_start_fade; last' is given. *)
StartFade(reason, q) ==
  /\ ring' = Emptied(q)
  /\ stopReason' = reason /\ activeTurn' = 0 /\ played' = FALSE
  /\ IF last' = 0 THEN state' = "IDLE" /\ fadeLeft' = 0
                  ELSE state' = "FADING" /\ fadeLeft' = FadeTotal

HasActiveTurn(t) == activeTurn = t /\ state \in {"BUFFERING", "DRAINING"}

-----------------------------------------------------------------------------
Init ==
  /\ state = "IDLE" /\ stopReason = "NONE" /\ activeTurn = 0
  /\ ring = EmptyRing(RingCapacity, 0)
  /\ fadeLeft = 0 /\ last = 0 /\ played = FALSE
  /\ seen = "none" /\ out = [kind |-> "none", samples |-> <<>>]

(* The calls of the mind link.  A new turn takes over from any state.      *)
SayBegin(t) == ClearRuntime("BUFFERING", t) /\ UNCHANGED <<seen, out>>

(* What does not fit is dropped. *)
SayAudio(t, s) ==
  /\ HasActiveTurn(t) /\ state = "BUFFERING"
  /\ ring' = RingWrite(ring, RingCapacity, SubSeq(s, 1, Least(Len(s), Room)))
  /\ UNCHANGED <<state, stopReason, activeTurn, fadeLeft, last, played, seen, out>>

SayEnd(t) ==
  /\ HasActiveTurn(t)
  /\ IF ring.count = 0
     THEN ClearRuntime("IDLE", 0)
     ELSE /\ state' = "DRAINING"
          /\ UNCHANGED <<stopReason, activeTurn, ring, fadeLeft, last, played>>
  /\ UNCHANGED <<seen, out>>

SayCancel(t) ==
  /\ HasActiveTurn(t)
  /\ UNCHANGED last
  /\ StartFade("CANCELLED", ring)
  /\ UNCHANGED <<seen, out>>

ServerDrop ==
  /\ state \in {"BUFFERING", "DRAINING"}
  /\ UNCHANGED last
  /\ IF ring.count > 0
     THEN /\ state' = "DRAINING" /\ stopReason' = "SERVER_DROPPED"
          /\ activeTurn' = 0
          /\ UNCHANGED <<ring, fadeLeft, played>>
     ELSE StartFade("SERVER_DROPPED", ring)
  /\ UNCHANGED <<seen, out>>

-----------------------------------------------------------------------------
(* The audio task: nb_audio_playback_service_shell_get_state, then         *)
(* nb_audio_playback_service_consume and the block that goes to the        *)
(* speaker: speech, or silence while a turn is there, or the bench tone.   *)
Look == seen = "none" /\ seen' = state /\ UNCHANGED <<core, out>>

(* Mutant: the drained turn is never closed. *)
DrainedNever(q) ==
  ring' = q /\ UNCHANGED <<state, stopReason, activeTurn, fadeLeft>> /\ played' = TRUE
(* The turn that was draining is over: played out, or faded if the link    *)
(* dropped.                                                                *)
Drained(q) ==
  IF stopReason = "SERVER_DROPPED"
  THEN StartFade("SERVER_DROPPED", q)
  ELSE /\ state' = "IDLE" /\ stopReason' = "NONE" /\ activeTurn' = 0
       /\ ring' = q /\ played' = TRUE
       /\ UNCHANGED fadeLeft

ConsumeSpeech ==
  LET n == Least(ring.count, Block)
      rest == RingDrop(ring, RingCapacity, n)
      heard == SubSeq(RingContents(ring, RingCapacity), 1, n)
  IN  /\ ring.count > 0 /\ state \in {"BUFFERING", "DRAINING"}
      /\ last' = heard[n]
      /\ out' = [kind |-> "speech", samples |-> heard]
      /\ IF state = "DRAINING" /\ rest.count = 0
         THEN Drained(rest)
         ELSE /\ ring' = rest /\ played' = TRUE
              /\ UNCHANGED <<state, stopReason, activeTurn, fadeLeft>>

(* Mutant: the fade restarts from the full amplitude in each block. *)
FadeSampleRestarts(k) == Quotient(last * (FadeTotal - k + 1), FadeTotal)
(* The k-th sample of the block of a fade. *)
FadeSample(k) == Quotient(last * (fadeLeft - k + 1), FadeTotal)

ConsumeFade ==
  LET n == Least(fadeLeft, Block)
  IN  /\ state = "FADING" /\ fadeLeft > 0
      /\ out' = [kind |-> "fade", samples |-> [k \in 1..n |-> FadeSample(k)]]
      /\ fadeLeft' = fadeLeft - n
      /\ IF fadeLeft' = 0
         THEN last' = 0 /\ state' = "IDLE" /\ stopReason' = "NONE"
         ELSE UNCHANGED <<last, state, stopReason>>
      /\ UNCHANGED <<activeTurn, ring, played>>

(* Mutant: the bench tone fills every block without speech. *)
NothingPlaysTone ==
  /\ ring.count = 0 \/ state \notin {"BUFFERING", "DRAINING"}
  /\ state # "FADING" \/ fadeLeft = 0
  /\ out' = [kind |-> "tone", samples |-> <<>>]
  /\ UNCHANGED core
ConsumeNothing ==
  /\ ring.count = 0 \/ state \notin {"BUFFERING", "DRAINING"}
  /\ state # "FADING" \/ fadeLeft = 0
  /\ out' = [kind |-> IF seen = "IDLE" THEN "tone" ELSE "silence",
             samples |-> <<>>]
  /\ UNCHANGED core

Consume ==
  /\ seen # "none" /\ seen' = "none"
  /\ ConsumeSpeech \/ ConsumeFade \/ ConsumeNothing

Next ==
  \/ \E t \in Turns : SayBegin(t) \/ SayEnd(t) \/ SayCancel(t)
  \/ \E t \in Turns, s \in Batch : SayAudio(t, s)
  \/ ServerDrop
  \/ Look
  \/ Consume

Spec == Init /\ [][Next]_vars

(* The audio task loops for ever: read, write and no other wait (main.c).  *)
FairSpec == Spec /\ WF_vars(Look) /\ WF_vars(Consume)
-----------------------------------------------------------------------------
TypeOK ==
  /\ state \in States
  /\ stopReason \in {"NONE", "CANCELLED", "SERVER_DROPPED"}
  /\ activeTurn \in Turns \cup {0}
  /\ RingType(ring, RingCapacity, Samples)
  /\ fadeLeft \in 0..FadeTotal /\ last \in Samples /\ played \in BOOLEAN
  /\ seen \in States \cup {"none"}

(* No state the audio task cannot leave: draining has a sample to drain,   *)
(* fading a voice and a fade to play, idle no sample, turn or fade behind  *)
(* it.  Every call must keep it, whichever call comes next.                *)
NothingStuck ==
  /\ state = "DRAINING" => ring.count > 0
  /\ state = "FADING" => fadeLeft > 0 /\ last # 0
  /\ state \in {"IDLE", "FADING"} => ring.count = 0 /\ activeTurn = 0
  /\ state # "FADING" => fadeLeft = 0

(* The samples accepted for a turn come out in order, each once, none of   *)
(* them in another turn, and a cut turn leaves only its fade.              *)
Line == INSTANCE SpeechLine WITH
          Room <- RingCapacity, Fade <- FadeTotal, Chunk <- Block,
          phase <- CASE state = "IDLE" -> "idle" [] state = "BUFFERING" -> "open"
                     [] state = "DRAINING" -> "closing" [] OTHER -> "fading",
          turn <- activeTurn,
          lost <- state = "DRAINING" /\ stopReason = "SERVER_DROPPED",
          line <- RingContents(ring, RingCapacity),
          loud <- last, left <- fadeLeft
PlaysInOrder == Line!Spec

(* The tone of the bench never comes out in the middle of speech, though   *)
(* the state is looked at before, not with, the samples it goes with.      *)
ToneNeverSplitsSpeech ==
  [][Consume /\ out'.kind = "tone" => state = "IDLE" \/ ~played]_vars

(* A fade goes down from the last sample heard, block after block, without *)
(* a step up or across zero: README "sem click duro".                      *)
Magnitude(x) == IF x < 0 THEN -x ELSE x
FadeIsSmooth ==
  [][out'.kind = "fade" /\ out' # out =>
       \A k \in DOMAIN out'.samples :
         LET x == out'.samples[k]
             y == IF k > 1 THEN out'.samples[k - 1]
                  ELSE IF out.kind = "fade" /\ fadeLeft < FadeTotal
                       THEN out.samples[Len(out.samples)] ELSE last
         IN  Magnitude(x) <= Magnitude(y) /\ x * last >= 0]_vars

(* A turn that is ended, cut or dropped falls silent, or gives way to a    *)
(* new one, if the audio task runs: no stop is left pending.               *)
FallsSilent == state \in {"DRAINING", "FADING"} ~> state \in {"IDLE", "BUFFERING"}
=============================================================================
