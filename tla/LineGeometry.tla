---------------------------- MODULE LineGeometry ----------------------------
(***************************************************************************)
(* Which way a centroid that moved between two frames crossed a line of    *)
(* the layout (pipeline/entry_exit.py, classify_crossing).  Points have    *)
(* integer coordinates, y grows downwards, and normals are not scaled to   *)
(* length one: only signs are looked at, and no product of integers lies   *)
(* between zero and the code's epsilons.                                   *)
(***************************************************************************)
EXTENDS Integers

\* Of a line [p1, p2, inward]; point = <<x, y>>.
CrossSign(line, p) ==
  (line.p2[1] - line.p1[1]) * (p[2] - line.p1[2]) - (line.p2[2] - line.p1[2]) * (p[1] - line.p1[1])

Sign(n) == IF n > 0 THEN 1 ELSE IF n < 0 THEN -1 ELSE 0

Dot(v, w) == v[1] * w[1] + v[2] * w[2]

Normal(line) == <<line.p1[2] - line.p2[2], line.p2[1] - line.p1[1]>>

\* The normal on which "inward" lies; a line that is parallel to that direction
\* takes the right normal, and one without length points upwards.
InwardLeft(line) == IF line.p1 = line.p2 THEN <<0, -1>> ELSE Normal(line)

Inward(line) ==
  LET n  == Normal(line)
      at == [bottom |-> n[2] < 0, top |-> n[2] > 0, left |-> n[1] < 0, right |-> n[1] > 0, other |-> TRUE]
  IN  IF line.p1 = line.p2 THEN <<0, -1>>
      ELSE IF at[line.inward] THEN n ELSE <<-n[1], -n[2]>>

\* Each segment has its ends strictly on both sides of the other.
SegmentsIntersect(from, to, line) ==
  /\ CrossSign([p1 |-> from, p2 |-> to], line.p1) * CrossSign([p1 |-> from, p2 |-> to], line.p2) < 0
  /\ CrossSign(line, from) * CrossSign(line, to) < 0

Classify(from, to, line) ==
  LET before == Sign(CrossSign(line, from))
      after  == Sign(CrossSign(line, to))
      moved  == Dot(<<to[1] - from[1], to[2] - from[2]>>, Inward(line))
  IN  IF \/ ~SegmentsIntersect(from, to, line) /\ 0 \in {before, after}
         \/ before = after
         \/ moved = 0
      THEN "none"
      ELSE IF moved > 0 THEN "entry" ELSE "exit"

----------------------------------------------------------------------------
(* What a crossing is *)

Opposite == [entry |-> "exit", exit |-> "entry", none |-> "none"]

\* On which side of a line the store is, where the configured direction says so:
\* above it, below it, or to one side.
Indoors(line, p) ==
  LET dx == line.p2[1] - line.p1[1]
      dy == line.p2[2] - line.p1[2]
  IN  CASE line.inward = "bottom" -> CrossSign(line, p) * dx < 0
        [] line.inward = "top" -> CrossSign(line, p) * dx > 0
        [] line.inward = "left" -> CrossSign(line, p) * dy > 0
        [] line.inward = "right" -> CrossSign(line, p) * dy < 0

Oriented(line) ==
  \/ line.inward \in {"bottom", "top"} /\ line.p1[1] # line.p2[1]
  \/ line.inward \in {"left", "right"} /\ line.p1[2] # line.p2[2]

\* A crossing is a change from one side of the infinite line to the other,
\* wherever it happens, also past the ends of the drawn segment: the detectors
\* may look at a single coordinate.  (The code's comments, entry_exit.py:202 and
\* 253, speak of the intersection of segments; and test_entry_exit.py:31-41 wants
\* an ENTRY of a walk along the line itself, which changes no side.)  Walking back is the opposite crossing; and
\* where the line is not parallel to its direction, who enters ends up on the
\* side of the line that the direction names.
SideChange(from, to, line) ==
  LET is == Classify(from, to, line)
  IN  /\ is # "none" <=> Sign(CrossSign(line, from)) * Sign(CrossSign(line, to)) = -1
      /\ Classify(to, from, line) = Opposite[is]
      /\ is # "none" /\ Oriented(line) => (is = "entry" <=> Indoors(line, to))
=============================================================================
