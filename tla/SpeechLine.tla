----------------------------- MODULE SpeechLine -----------------------------
(***************************************************************************)
(* What the playback of speech promises: one turn at a time, the samples   *)
(* accepted for it come out in order and each once, a turn that is cut     *)
(* leaves nothing but a fade of at most Fade samples, and a turn whose     *)
(* link drops first plays what it had.                                     *)
(***************************************************************************)
EXTENDS Integers, Sequences, SequencesExt

CONSTANTS Room,     \* samples that can wait
          Fade,     \* samples of a fade
          Chunk,    \* samples the speaker asks for at a time
          Turns,    \* turn ids, but 0: "no turn"
          Samples   \* amplitudes, 0 among them

VARIABLES phase,  \* "idle", "open", "closing" or "fading"
          turn,   \* the turn that may be fed, ended or cut; 0: none
          lost,   \* the link dropped while the line was being played
          line,   \* the samples that wait, oldest first
          loud,   \* the last sample of speech that came out
          left    \* samples of fade still to come

lvars == <<phase, turn, lost, line, loud, left>>

Init ==
  /\ phase = "idle" /\ turn = 0 /\ lost = FALSE
  /\ line = <<>> /\ loud = 0 /\ left = 0

Quiet == phase' = "idle" /\ turn' = 0 /\ left' = 0

(* The line is emptied; a voice that was heard fades, silence just stops. *)
Stop ==
  /\ line' = <<>>
  /\ turn' = 0
  /\ IF loud = 0 THEN phase' = "idle" /\ left' = 0
                 ELSE phase' = "fading" /\ left' = Fade
  /\ UNCHANGED loud

Begin(t) ==
  /\ phase' = "open" /\ turn' = t /\ lost' = FALSE
  /\ line' = <<>> /\ loud' = 0 /\ left' = 0

(* What does not fit is lost, from the end. *)
Feed(t, s) ==
  /\ phase = "open" /\ turn = t
  /\ \E k \in 0..Len(s) :
       /\ Len(line) + k <= Room
       /\ k = Len(s) \/ Len(line) + k = Room
       /\ line' = line \o SubSeq(s, 1, k)
  /\ UNCHANGED <<phase, turn, lost, loud, left>>

Ours(t) == turn = t /\ phase \in {"open", "closing"}

End(t) ==
  /\ Ours(t)
  /\ IF line = <<>> THEN Quiet /\ lost' = FALSE /\ line' = <<>> /\ loud' = 0
                    ELSE phase' = "closing" /\ UNCHANGED <<turn, lost, line, loud, left>>

Cut(t) == Ours(t) /\ Stop /\ UNCHANGED lost

Drop ==
  /\ phase \in {"open", "closing"}
  /\ IF line = <<>>
     THEN Stop /\ UNCHANGED lost
     ELSE phase' = "closing" /\ turn' = 0 /\ lost' = TRUE
          /\ UNCHANGED <<line, loud, left>>

(* The last sample of a closing turn ends it. *)
Play ==
  /\ phase \in {"open", "closing"} /\ line # <<>>
  /\ LET n == IF Len(line) < Chunk THEN Len(line) ELSE Chunk
     IN  /\ line' = SubSeq(line, n + 1, Len(line))
         /\ loud' = line[n]
         /\ IF phase = "open" \/ line' # <<>>
            THEN UNCHANGED <<phase, turn, lost, left>>
            ELSE /\ turn' = 0 /\ lost' = FALSE
                 /\ IF lost /\ loud' # 0
                    THEN phase' = "fading" /\ left' = Fade
                    ELSE phase' = "idle" /\ left' = 0

FadeOut ==
  /\ phase = "fading"
  /\ left' = IF left < Chunk THEN 0 ELSE left - Chunk
  /\ IF left' = 0 THEN phase' = "idle" /\ loud' = 0 ELSE UNCHANGED <<phase, loud>>
  /\ UNCHANGED <<turn, lost, line>>

Batch == {s \in BoundedSeq(Samples, Room + 1) : s # <<>>}

Next ==
  \/ \E t \in Turns : Begin(t) \/ End(t) \/ Cut(t)
  \/ \E t \in Turns, s \in Batch : Feed(t, s)
  \/ Drop
  \/ Play
  \/ FadeOut

Spec == Init /\ [][Next]_lvars
=============================================================================
