------------------------------- MODULE MCLink -------------------------------
(* Link twice: MCLink.cfg has two connections at a time, so that an old    *)
(* one can meet the new, one loss of either end, and no voice;             *)
(* MCLinkVoice.cfg one connection at a time, and both directions: two      *)
(* sessions of the robot's voice, orders, and speech of two turns, which   *)
(* begin and end in any order, until the second session.                   *)
EXTENDS Link, SequencesExt

Speech == {"begin", "hush"} \X {1, 2} \cup {<<"say", 1>>}
Talk == Speech \cup {Order}

Hushed ==
  /\ ~saying /\ playing = 0
  /\ \A f \in Speech : f \notin Range(buf) /\ \A c \in Conns : f \notin Range(down[c])
SpeaksToTheFirst == sessions > 1 => Hushed
=============================================================================
