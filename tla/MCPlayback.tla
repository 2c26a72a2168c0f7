----------------------------- MODULE MCPlayback -----------------------------
(* Playback with a ring of two samples, two turns and two amplitudes. *)
EXTENDS Playback
MCSamples == {-3, 0}
=============================================================================
