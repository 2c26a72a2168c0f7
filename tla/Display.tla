------------------------------ MODULE Display ------------------------------
(***************************************************************************)
(* From a frame to the panel (hal/display_hal, its shell, the shell of the *)
(* renderer and the end of a frame in main.c).  The face task draws in the *)
(* back buffer, copies the dirty rectangle band by band into one staging   *)
(* buffer, and starts the transfer of each band; an interrupt says that    *)
(* the transfer is over.  A good flush swaps the buffers; a flush that     *)
(* fails leaves them, and what is on the panel.                            *)
(***************************************************************************)
EXTENDS Rects

CONSTANTS Poses,        \* what may be drawn
          LitBy,        \* LitBy[p]: the cells a frame of p lights
          DirtyBy,      \* DirtyBy[p]: current_dirty of a frame of p
          PowerOn,      \* what the memory of the panel may hold at power on
          StagePixels,  \* NB_DISPLAY_HAL_MAX_STAGING_BYTES, in pixels
          MaxFailures   \* bound: transfers that cannot be queued

(* The renderer's rectangle is never empty and covers what it draws.       *)
ASSUME DisplayAssumption ==
  /\ StagePixels \in Nat \ {0} /\ MaxFailures \in Nat
  /\ "none" \notin Poses
  /\ PowerOn \subseteq SUBSET Cells
  /\ DirtyBy \in [Poses -> Rect]
  /\ \A p \in Poses : /\ ~IsEmpty(Clamp(DirtyBy[p]))
                      /\ LitBy[p] \subseteq Touched(Clamp(DirtyBy[p]))

VARIABLES front,     \* front_index
          buffers,   \* buffers[i]: the pose drawn in framebuffer i
          bound,     \* the framebuffer s_sprite writes to
          lastDirty, \* s_last_dirty
          hasLast,   \* s_has_last_dirty
          task,      \* where the face task is
          rect, row, \* the rectangle being flushed, the first row of the band
          stage,     \* s_flush_stage: the pose and the cells copied last
          token,     \* s_trans_done can be taken
          dma,       \* a transfer is under way
          panel,     \* the lit cells of the panel
          failures   \* transfers that were not queued so far

vars == <<front, buffers, bound, lastDirty, hasLast, task, rect, row, stage, token, dma,
          panel, failures>>
flushing == <<front, buffers, bound, lastDirty, hasLast, rect>>

Back == 1 - front
Band(n) == [rect EXCEPT !.y = row, !.h = n]

(* max_rows *)
MaxRows == IF StagePixels \div rect.w = 0 THEN 1 ELSE StagePixels \div rect.w
BandRows == Lower(MaxRows, Bottom(rect) - row)

(* shell_init, and the first bind of the face task.  The memory of the     *)
(* panel is not cleared: what it shows before the first flush is anything. *)
Init ==
  /\ front = 0 /\ bound = 1
  /\ buffers = [i \in {0, 1} |-> "none"]
  /\ lastDirty = EmptyRect /\ hasLast = FALSE
  /\ task = "draw"
  /\ rect = EmptyRect /\ row = 0
  /\ stage = [pose |-> "none", cells |-> {}]
  /\ token = TRUE /\ dma = FALSE
  /\ panel \in PowerOn
  /\ failures = 0

(* draw_dirty, and the head of flush_rect_and_swap: nothing to send is no  *)
(* flush and no swap.                                                      *)
Draw(p) ==
  LET dirty == IF hasLast THEN RectUnion(lastDirty, DirtyBy[p]) ELSE FullRect
  IN  /\ task = "draw"
      /\ buffers' = [buffers EXCEPT ![bound] = p]
      /\ lastDirty' = DirtyBy[p] /\ hasLast' = TRUE
      /\ rect' = Aligned(dirty)
      /\ row' = Aligned(dirty).y
      /\ task' = IF IsEmpty(Aligned(dirty)) THEN "bind" ELSE "copy"
      /\ UNCHANGED <<front, bound, stage, token, dma, panel, failures>>

(* The wait for the band before, then the copy of this one.                *)
(* Mutant: the copy does not wait for the band before. *)
CopyBandAtOnce ==
  /\ task = "copy" /\ row < Bottom(rect)
  /\ token' = FALSE
  /\ stage' = [pose |-> buffers[Back], cells |-> Touched(Band(BandRows))]
  /\ task' = "send"
  /\ UNCHANGED <<flushing, row, dma, panel, failures>>
CopyBand ==
  /\ task = "copy" /\ row < Bottom(rect) /\ token
  /\ token' = FALSE
  /\ stage' = [pose |-> buffers[Back], cells |-> Touched(Band(BandRows))]
  /\ task' = "send"
  /\ UNCHANGED <<flushing, row, dma, panel, failures>>

(* draw_bitmap: queued, or not and then the token goes back and the flush  *)
(* ends with the error, before any swap.                                   *)
(* Mutant: the next band starts one row too low. *)
SendBandSkipsARow ==
  /\ task = "send"
  /\ dma' = TRUE
  /\ row' = row + MaxRows + 1
  /\ task' = "copy"
  /\ UNCHANGED <<flushing, stage, token, panel, failures>>
SendBand ==
  /\ task = "send"
  /\ dma' = TRUE
  /\ row' = row + MaxRows
  /\ task' = "copy"
  /\ UNCHANGED <<flushing, stage, token, panel, failures>>

(* Mutant: a transfer that is not queued keeps the token. *)
SendFailsKeepsToken ==
  /\ task = "send" /\ failures < MaxFailures
  /\ task' = "bind"
  /\ failures' = failures + 1
  /\ UNCHANGED <<flushing, row, stage, token, dma, panel>>
SendFails ==
  /\ task = "send" /\ failures < MaxFailures
  /\ token' = TRUE
  /\ task' = "bind"
  /\ failures' = failures + 1
  /\ UNCHANGED <<flushing, row, stage, dma, panel>>

(* The transfer has read the stage to its end: on_color_trans_done.        *)
TransDone ==
  /\ dma
  /\ dma' = FALSE
  /\ token' = TRUE
  /\ panel' = (panel \ stage.cells) \union (LitBy[stage.pose] \intersect stage.cells)
  /\ UNCHANGED <<flushing, task, row, stage, failures>>

(* The last band is out: take, swap, give.                                 *)
Swap ==
  /\ task = "copy" /\ row >= Bottom(rect) /\ token
  /\ front' = 1 - front
  /\ task' = "bind"
  /\ UNCHANGED <<buffers, bound, lastDirty, hasLast, rect, row, stage, token, dma, panel, failures>>

(* main.c binds the sprite to the back buffer, whatever the flush said.    *)
Bind ==
  /\ task = "bind"
  /\ bound' = Back
  /\ task' = "draw"
  /\ UNCHANGED <<front, buffers, lastDirty, hasLast, rect, row, stage, token, dma, panel, failures>>

(* The rest of a frame, once it is drawn. *)
Flush == CopyBand \/ SendBand \/ SendFails \/ Swap \/ Bind
Next == (\E p \in Poses : Draw(p)) \/ Flush \/ TransDone

Spec == Init /\ [][Next]_vars

(* The face task runs when it can and a transfer that was queued ends.     *)
FairSpec == Spec /\ WF_vars(Flush) /\ WF_vars(TransDone)

-----------------------------------------------------------------------------
TypeOK ==
  /\ front \in {0, 1} /\ bound \in {0, 1}
  /\ buffers \in [{0, 1} -> Poses \union {"none"}]
  /\ lastDirty \in Rect /\ hasLast \in BOOLEAN
  /\ task \in {"draw", "copy", "send", "bind"}
  /\ rect \in Rect /\ row \in Nat
  /\ stage \in [pose : Poses \union {"none"}, cells : SUBSET Cells]
  /\ token \in BOOLEAN /\ dma \in BOOLEAN
  /\ panel \in SUBSET Cells
  /\ failures \in 0..MaxFailures

(* The staging buffer is not written while a transfer reads it, and the    *)
(* framebuffer the panel is fed from is not drawn into (s_trans_done).     *)
StageIsStable ==
  [][/\ stage' # stage => ~dma
     /\ buffers' # buffers => ~dma]_vars

(* Between two frames, once one has been sent and while every transfer was *)
(* queued, the panel shows the front buffer and nothing of the frames      *)
(* before it: the union of two dirty rectangles erases the old face, band  *)
(* by band and to the last cell.                                           *)
PanelShowsFront ==
  task = "draw" /\ failures = 0 /\ buffers[front] # "none"
    => panel = LitBy[buffers[front]]

(* After a failed transfer too, the frame that follows a swap is whole     *)
(* inside its rectangle: a ghost can only be left outside of it.           *)
FaceIsWhole ==
  task = "bind" /\ row >= Bottom(rect) /\ ~IsEmpty(rect)
    => panel \intersect Touched(rect) = LitBy[buffers[front]] \intersect Touched(rect)

(* A frame ends: the task comes back to draw the next.                     *)
FrameEnds == task # "draw" ~> task = "draw"
=============================================================================
