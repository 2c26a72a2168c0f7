------------------------------- MODULE Voice --------------------------------
(***************************************************************************)
(* What the mind promises to whoever plays its speech: one turn at a time, *)
(* each turn once, and none after a later one.                             *)
(***************************************************************************)
EXTENDS Naturals

CONSTANT Turns

VARIABLES voices,  \* the turns between their SAY_BEGIN and SAY_END or SAY_CANCEL
          last     \* the last turn that began, 0: none

Init == voices = {} /\ last = 0

Begin(t) == voices = {} /\ t > last /\ voices' = {t} /\ last' = t
End == voices # {} /\ voices' = {} /\ UNCHANGED last
Whole(t) == voices = {} /\ t > last /\ last' = t /\ UNCHANGED voices

Next == End \/ \E t \in Turns : Begin(t) \/ Whole(t)
Spec == Init /\ [][Next]_<<voices, last>>
=============================================================================
