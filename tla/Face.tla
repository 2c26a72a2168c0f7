-------------------------------- MODULE Face --------------------------------
(***************************************************************************)
(* What a frame draws and the rectangle the renderer says it touched       *)
(* (services/face/renderer).  A face is a function from the names of the   *)
(* fields of nb_face_state_t to hundredths, and a height is in hundredths  *)
(* of a pixel: the floats of the code to two places.  Colours and the      *)
(* transparency of the edge pixels are left out; which pixels are touched  *)
(* is not.                                                                 *)
(***************************************************************************)
EXTENDS Rects, Functions

Fields == <<"tl_l", "tr_l", "bl_l", "br_l", "tl_r", "tr_r", "bl_r", "br_r",
            "open_l", "open_r", "y_l", "y_r", "x_off", "round_top",
            "round_bottom", "curve_top", "curve_bottom", "squint_l",
            "squint_r", "mouth_open", "mouth_curve">>

FaceOf(row) == [f \in Range(Fields) |-> row[CHOOSE i \in DOMAIN Fields : Fields[i] = f]]

(* s_expressions *)
Expressions ==
  [NEUTRAL |-> FaceOf(<<0, 0, 0, 0, 0, 0, 0, 0, 88, 88, 0, 0, 60, 64, 64, 0, 0,
                        0, 0, 0, 5>>),
   HAPPY   |-> FaceOf(<<0, 0, 72, 72, 0, 0, 72, 72, 41, 41, 0, 0, 60, 27, 52,
                        100, -100, 22, 22, 25, 70>>),
   SAD     |-> FaceOf(<<70, 13, 0, 44, 0, 70, 44, 0, 68, 68, 20, 20, 60, 64, 64,
                        -16, 8, 8, 8, 0, -50>>),
   ANGRY   |-> FaceOf(<<0, 88, 93, 60, 88, 0, 60, 93, 82, 82, 0, 0, 60, 26, 14,
                        6, -10, 0, 0, 0, -70>>),
   CONTENT |-> FaceOf(<<0, 0, 35, 35, 0, 0, 35, 35, 55, 55, 0, 0, 60, 55, 58, 0,
                        30, 0, 0, 12, 45>>)]

(* nb_face_core_get_expression: out of range is NEUTRAL. *)
Expression(e) == IF e \in DOMAIN Expressions THEN Expressions[e] ELSE Expressions.NEUTRAL

ClampF(v, lo, hi) == IF v < lo THEN lo ELSE IF v > hi THEN hi ELSE v
Percent(a, b) == (a * b) \div 100

Lerp(a, b, t) == [f \in DOMAIN a |-> a[f] + Percent(b[f] - a[f], t)]

(* nb_face_core_blend, called with the five hubs of the mood. *)
Total(f) == f[1] + f[2] + f[3] + f[4] + f[5]
Blend(faces, weights) ==
  [f \in Range(Fields) |-> Total([i \in 1..5 |-> Percent(weights[i], faces[i][f])])]

-----------------------------------------------------------------------------
(* The overlay of an arc's beat on the face of the frame (main.c), t the   *)
(* part of the beat that has passed: 0 to 100.                             *)
BlinkClose(t) == IF t < 50 THEN 2 * t ELSE 200 - 2 * t
Lids(face, k) == [face EXCEPT !.open_l = Percent(@, k), !.open_r = Percent(@, k)]

Overlay(face, beat, t) ==
  CASE beat = "ANGRY" -> Lerp(face, Expression("ANGRY"), 60)
    [] beat = "BLINK_GAZE_AWAY" ->
         [Lids(face, 100 - BlinkClose(t)) EXCEPT !.x_off = @ + 15]
    [] beat = "NEUTRAL_HAPPY" -> Lerp(face, Expression("HAPPY"), 30)
    [] beat = "GAZE_FRONT" -> [face EXCEPT !.x_off = Percent(@, 100 - t)]
    [] beat = "SMOOTHING" -> Lerp(face, Expression("CONTENT"), t)
    [] beat = "CONTENT_SLOW_BLINK" ->
         Lids(Lerp(face, Expression("CONTENT"), 100), 100 - BlinkClose(t))
    [] beat = "ORIENT" -> [face EXCEPT !.open_l = Lower(Percent(@, 105), 100),
                                       !.open_r = Lower(Percent(@, 105), 100)]
    [] beat = "FOUND" -> Lerp(face, Expression("HAPPY"), 40)
    [] beat = "NOT_FOUND_BLINK" -> Lids(face, 100 - BlinkClose(t))
    [] beat = "NOT_FOUND_SIGH" ->
         [face EXCEPT !.y_l = @ + Percent(20, BlinkClose(t)),
                      !.y_r = @ + Percent(20, BlinkClose(t))]
    [] OTHER -> face

-----------------------------------------------------------------------------
(* static_cast<int16_t>: towards zero; floorf and ceilf.                   *)
Truncated(v) == IF v < 0 THEN -((-v) \div 100) ELSE v \div 100
Floor(v) == v \div 100
Ceil(v) == -((-v) \div 100)

(* The eye of side s: its half width, the column of its centre, the height *)
(* of its centre.  A pose is a face with the gaze, widths and tilt of the  *)
(* idle engine.                                                            *)
GazeY(pose) == ClampF(pose.gaze_y, -55, 55)
GazeShift(pose) == Truncated(ClampF(pose.gaze_x, -100, 100) * 26 + 50)
XOffset(pose) == Truncated(pose.face.x_off * 18 + 50)

Eye(pose, s) ==
  LET f == pose.face
      left == s = "l"
      v(l, r) == IF left THEN f[l] ELSE f[r]
      open == v("open_l", "open_r")
      width == IF left THEN pose.width_l ELSE pose.width_r
  IN  [half |-> Truncated(46 * ClampF(width, 50, 150)),
       x    |-> IF left THEN 96 + XOffset(pose) + GazeShift(pose)
                ELSE 224 - XOffset(pose) + GazeShift(pose),
       y    |-> 12200 + (100 - open) * 46
                + ClampF(v("y_l", "y_r") + GazeY(pose), -55, 55) * 55
                + (IF left THEN pose.tilt ELSE -pose.tilt) * 80,
       open |-> open,
       tl   |-> v("tl_l", "tl_r"),  tr |-> v("tr_l", "tr_r"),
       bl   |-> v("bl_l", "bl_r"),  br |-> v("br_l", "br_r"),
       squint |-> v("squint_l", "squint_r")]

Mouth(pose) ==
  [x |-> 160 + XOffset(pose) + GazeShift(pose),
   y |-> 18800 + Percent(GazeY(pose) * 55, 60)]

(* rect_from_bounds: cut to the panel. *)
FromBounds(x0, y0, x1, y1) ==
  LET a == Upper(x0, 0)  b == Upper(y0, 0)
      c == Lower(x1, Width)  d == Lower(y1, Height)
  IN  IF c <= a \/ d <= b THEN EmptyRect ELSE Corners(a, b, c, d)

(* Mutant: the height of the eye is that of a face that looks ahead. *)
EyeDirtyLevel(eye) == FromBounds(eye.x - eye.half - 3, 60, eye.x + eye.half + 4, 185)
EyeDirty(eye) ==
  LET y == Truncated(eye.y + IF eye.y >= 0 THEN 50 ELSE -50)
  IN  FromBounds(eye.x - eye.half - 3, y - 62, eye.x + eye.half + 4, y + 63)

MouthDirty(m) ==
  LET y == Truncated(m.y + 50)
  IN  FromBounds(m.x - 35, y - 40, m.x + 36, y + 41)

FaceDirty(pose) ==
  RectUnion(RectUnion(EyeDirty(Eye(pose, "l")), EyeDirty(Eye(pose, "r"))),
            MouthDirty(Mouth(pose)))

-----------------------------------------------------------------------------
(* A column of an eye or of the mouth, q quarters of the way across: the   *)
(* rows between its first and its last pixel, or none.  The corners round  *)
(* only the outermost columns of these (round_top is below .73).           *)
Parabola(q) == 25 * q * (4 - q)
Edge(top, bottom) ==
  IF top >= bottom - 50 THEN {}
  ELSE {Ceil(top) - (IF Ceil(top) * 100 - top > 4 THEN 1 ELSE 0),
        Floor(bottom) + (IF bottom - Floor(bottom) * 100 > 4 THEN 1 ELSE 0)}

EyeColumn(face, eye, q) ==
  LET hh == eye.open * 46
      corner(round) == IF q \in {0, 4} THEN Lower(Percent(round * 68, eye.half), hh) ELSE 0
      slope(a, b) == (Percent(hh, b - a) * q) \div 4
      top == eye.y - Percent(hh, 100 - eye.tl) + slope(eye.tl, eye.tr)
             - Percent(10 * face.curve_top, Parabola(q))
             + corner(face.round_top) + Percent(Percent(hh, eye.squint), 65)
      bottom == eye.y + Percent(hh, 100 - eye.bl) - slope(eye.bl, eye.br)
                + Percent(10 * face.curve_bottom, Parabola(q))
                - corner(face.round_bottom)
  IN  IF eye.open < 3 THEN {Truncated(eye.y)} ELSE Edge(top, bottom)

MouthColumn(face, m, q) ==
  LET mid == m.y - Percent(14 * face.mouth_curve, 100 - Parabola(q))
      hh == face.mouth_open * 20
  IN  IF face.mouth_open <= 0 THEN {} ELSE Edge(mid - hh, mid + hh)

(* The smallest rectangle around the pixels of one of them.                *)
Box(x, half, rows) ==
  IF rows = {} THEN EmptyRect
  ELSE FromBounds(x - half, CHOOSE a \in rows : \A b \in rows : a <= b,
                  x + half + 1, 1 + CHOOSE a \in rows : \A b \in rows : a >= b)

EyeBox(pose, s) ==
  LET eye == Eye(pose, s)
  IN  Box(eye.x, eye.half, UNION {EyeColumn(pose.face, eye, q) : q \in 0..4})
MouthBox(pose) ==
  LET m == Mouth(pose)
  IN  Box(m.x, 32, UNION {MouthColumn(pose.face, m, q) : q \in 0..4})
=============================================================================
