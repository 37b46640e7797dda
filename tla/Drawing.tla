------------------------------- MODULE Drawing -------------------------------
(* Images: what screenshot.annotate draws into one and how screenshot.diff   *)
(* compares two.  An image is the set of its drawn pixels here; colour and   *)
(* alpha are left out, a pixel is drawn or is not.                           *)
EXTENDS EditorSession, Integers, FiniteSets, FiniteSetsExt

CONSTANTS
  Width, Height,  \* of the image
  Shown           \* the coordinates that requests name, outside the image too

ASSUME ShownAreNumbers == Shown \subseteq Int

VARIABLES
  canvas,         \* the drawn pixels
  shape           \* the last annotation and its ends

drawVars == <<canvas, shape>>

NoShape == [kind |-> "none"]

DrawInit ==
  /\ canvas = {}
  /\ shape = NoShape

Image == (0 .. Width - 1) \X (0 .. Height - 1)

AbsOf(x) == IF x < 0 THEN -x ELSE x
Clamped(x, hi) == IF x < 0 THEN 0 ELSE IF x > hi THEN hi ELSE x
Least(a, b) == IF a < b THEN a ELSE b
Most(a, b)  == IF a < b THEN b ELSE a

\* DrawHLine and DrawVLine: a row or column outside of the image is left out,
\* the ends are clamped into it.
HLine(x0, x1, y) ==
  IF y \notin 0 .. Height - 1 THEN {}
  ELSE {<<x, y>> : x \in Clamped(Least(x0, x1), Width - 1) .. Clamped(Most(x0, x1), Width - 1)}
VLine(x, y0, y1) ==
  IF x \notin 0 .. Width - 1 THEN {}
  ELSE {<<x, y>> : y \in Clamped(Least(y0, y1), Height - 1) .. Clamped(Most(y0, y1), Height - 1)}

\* Mutant: the error is not doubled before it is compared.
StepUndoubled(p, dx, dy, sx, sy) ==
  LET inX == p.err >= dy
      inY == p.err <= dx
  IN  [x |-> IF inX THEN p.x + sx ELSE p.x, y |-> IF inY THEN p.y + sy ELSE p.y,
       err |-> p.err + (IF inX THEN dy ELSE 0) + (IF inY THEN dx ELSE 0)]

\* A round of DrawLine's loop.
Step(p, dx, dy, sx, sy) ==
  LET e2 == 2 * p.err
      inX == e2 >= dy
      inY == e2 <= dx
  IN  [x |-> IF inX THEN p.x + sx ELSE p.x, y |-> IF inY THEN p.y + sy ELSE p.y,
       err |-> p.err + (IF inX THEN dy ELSE 0) + (IF inY THEN dx ELSE 0)]

\* The loop of DrawLine, from a until it stands on b.
Round(p, a, b) ==
  IF <<p.x, p.y>> = b THEN p
  ELSE Step(p, AbsOf(b[1] - a[1]), -AbsOf(b[2] - a[2]),
            IF a[1] < b[1] THEN 1 ELSE -1, IF a[2] < b[2] THEN 1 ELSE -1)

Rounds(a, b) ==
  LET dx == AbsOf(b[1] - a[1])
      dy == -AbsOf(b[2] - a[2])
      at[k \in 0 .. dx - dy] ==
        IF k = 0 THEN [x |-> a[1], y |-> a[2], err |-> dx + dy] ELSE Round(at[k - 1], a, b)
  IN  at

\* DrawLine of thickness 1: the points of the loop, of which those inside of
\* the image are drawn.
LinePoints(a, b) ==
  LET at == Rounds(a, b)
  IN  {<<at[k].x, at[k].y>> : k \in DOMAIN at}

\* DrawBox: filled, or its outline.
BoxPoints(a, b, thickness) ==
  IF thickness <= 0
  THEN UNION {HLine(a[1], b[1], y) : y \in Clamped(Least(a[2], b[2]), Height - 1) .. Clamped(Most(a[2], b[2]), Height - 1)}
  ELSE UNION {HLine(a[1], b[1], Least(a[2], b[2]) + t) \cup HLine(a[1], b[1], Most(a[2], b[2]) - t)
              \cup VLine(Least(a[1], b[1]) + t, a[2], b[2]) \cup VLine(Most(a[1], b[1]) - t, a[2], b[2])
              : t \in 0 .. thickness - 1}

\* DrawCircle, filled: a row of the circle is a line between its ends, which
\* DrawHLine clamps into the image even if the whole row lies beside it.
RowHalf(r, y) == Max({d \in 0 .. r : d * d <= r * r - y * y})
DiscPoints(c, r) == UNION {HLine(c[1] - RowHalf(r, y), c[1] + RowHalf(r, y), c[2] + y) : y \in -r .. r}

\* An annotation wholly outside of the image is skipped.
Outside(a, b) ==
  \/ Most(a[1], b[1]) < 0 \/ Least(a[1], b[1]) >= Width
  \/ Most(a[2], b[2]) < 0 \/ Least(a[2], b[2]) >= Height

\* screenshot.annotate with one annotation, onto the image that the request
\* names; the result goes to a file of its own.  Bound: one per behaviour.
Annotate ==
  /\ shape = NoShape
  /\ \E a, b \in Shown \X Shown :
       /\ ~Outside(a, b)
       /\ \/ canvas' = LinePoints(a, b) \cap Image /\ shape' = [kind |-> "line", from |-> a, to |-> b]
          \/ \E t \in 0 .. 1 : canvas' = BoxPoints(a, b, t) /\ shape' = [kind |-> "box", from |-> a, to |-> b]
          \/ \E r \in 1 .. 2 :
               /\ ~Outside(<<a[1] - r, a[2] - r>>, <<a[1] + r, a[2] + r>>)
               /\ canvas' = DiscPoints(a, r)
               /\ shape' = [kind |-> "disc", from |-> a, to |-> <<r, r>>]
  /\ Look

\* screenshot.diff on lane B, of two images as functions of the pixels.  Its
\* threshold, in percent, is a share of the pixels up to 100 and the tolerance
\* of a channel above; 5 is the tolerance then.  Images of two sizes are refused.
Tolerance(threshold) == IF threshold > 100 THEN threshold \div 100 ELSE 5
Changed(a, b, tolerance) == {i \in DOMAIN a : AbsOf(a[i] - b[i]) > tolerance}
Identical(a, b, threshold) ==
  LET changed == Cardinality(Changed(a, b, Tolerance(threshold)))
  IN  changed = 0 \/ (threshold <= 100 /\ 100 * changed <= threshold * Cardinality(DOMAIN a))

\* The picture of the difference: the changed pixels, the differences, or both
\* images beside each other.
Overlay(a, b, mode, threshold) ==
  CASE mode = "highlight"    -> [i \in DOMAIN a |-> i \in Changed(a, b, Tolerance(threshold))]
    [] mode = "raw_abs"      -> [i \in DOMAIN a |-> AbsOf(a[i] - b[i])]
    [] mode = "side_by_side" -> <<a, b>>
Diff(a, b, mode, threshold) ==
  IF DOMAIN a # DOMAIN b THEN "refused"
  ELSE [identical |-> Identical(a, b, threshold), image |-> Overlay(a, b, mode, threshold)]

DrawNext == Annotate

------------------------------------------------------------------------------
(* Properties.                                                               *)

\* The line between two pixels: in each column, or each row if it is steep, the
\* pixel nearest to the line, so there are no gaps and nothing beside it; only
\* what the image holds of it is drawn.
Off(a, b, p) == AbsOf((p[1] - a[1]) * (b[2] - a[2]) - (p[2] - a[2]) * (b[1] - a[1]))
NearLine(a, b) ==
  {p \in (Least(a[1], b[1]) .. Most(a[1], b[1])) \X (Least(a[2], b[2]) .. Most(a[2], b[2])) :
     2 * Off(a, b, p) <= Most(AbsOf(b[1] - a[1]), AbsOf(b[2] - a[2]))}
LineDrawn ==
  shape.kind = "line" =>
    LET a == shape.from
        b == shape.to
        long == IF AbsOf(b[1] - a[1]) >= AbsOf(b[2] - a[2]) THEN 1 ELSE 2
        Column(c) == {p \in NearLine(a, b) : p[long] = c}
    IN  /\ canvas \subseteq NearLine(a, b) \cap Image
        /\ \A c \in Least(a[long], b[long]) .. Most(a[long], b[long]) :
             Column(c) \subseteq Image => Cardinality(Column(c) \cap canvas) = 1
=============================================================================
