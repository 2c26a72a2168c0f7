------------------------------- MODULE Rects -------------------------------
(***************************************************************************)
(* The rectangles of the display (hal/display_hal/display_hal.c): clamp,   *)
(* union, and the widening that keeps every copy of the DMA staging buffer *)
(* a whole number of cache lines.  A cell is one row high and Align pixels *)
(* wide: what one cache line of a row holds.                               *)
(***************************************************************************)
EXTENDS Integers

CONSTANTS Width, Height,  \* NB_DISPLAY_HAL_WIDTH, NB_DISPLAY_HAL_HEIGHT
          Align           \* NB_DISPLAY_HAL_FLUSH_ALIGN_PIXELS

ASSUME RectsAssumption ==
  /\ Width \in Nat \ {0} /\ Height \in Nat \ {0} /\ Align \in Nat \ {0}
  /\ Width % Align = 0

Rect == [x : Nat, y : Nat, w : Nat, h : Nat]
EmptyRect == [x |-> 0, y |-> 0, w |-> 0, h |-> 0]
FullRect == [x |-> 0, y |-> 0, w |-> Width, h |-> Height]

Right(r) == r.x + r.w
Bottom(r) == r.y + r.h
Corners(x0, y0, x1, y1) == [x |-> x0, y |-> y0, w |-> x1 - x0, h |-> y1 - y0]

Lower(a, b) == IF a < b THEN a ELSE b
Upper(a, b) == IF a > b THEN a ELSE b

IsEmpty(r) == r.w = 0 \/ r.h = 0

Clamp(r) ==
  IF r.x >= Width \/ r.y >= Height \/ IsEmpty(r) THEN EmptyRect
  ELSE Corners(r.x, r.y, Lower(Right(r), Width), Lower(Bottom(r), Height))

(* Mutant: the union forgets the rectangle of the frame before. *)
RectUnionForgets(a, b) == Clamp(b)
RectUnion(a, b) ==
  LET p == Clamp(a)  q == Clamp(b)
  IN  IF IsEmpty(p) THEN q
      ELSE IF IsEmpty(q) THEN p
      ELSE Corners(Lower(p.x, q.x), Lower(p.y, q.y),
                   Upper(Right(p), Right(q)), Upper(Bottom(p), Bottom(q)))

(* rect_align_for_flush: x0 rounds down and x1 up to a multiple of Align.  *)
Aligned(r) ==
  LET p == Clamp(r)
      x1 == ((Right(p) + Align - 1) \div Align) * Align
  IN  IF IsEmpty(p) THEN p
      ELSE Corners((p.x \div Align) * Align, p.y, Lower(x1, Width), Bottom(p))

-----------------------------------------------------------------------------
Columns == Width \div Align
Cells == (0..Columns - 1) \X (0..Height - 1)

(* The cells a rectangle touches. *)
Touched(r) ==
  {c \in Cells : /\ c[1] * Align < Right(r) /\ (c[1] + 1) * Align > r.x
                 /\ r.y <= c[2] /\ c[2] < Bottom(r)}
=============================================================================
