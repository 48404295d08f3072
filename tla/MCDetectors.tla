------------------------------ MODULE MCDetectors ------------------------------
(***************************************************************************)
(* Detectors for TLC: a floor with two doors, a position being <<x, y>>.   *)
(* The first line lies at x = 0 and the second, that of a side door, at    *)
(* y = 0; a zone and the queue of the checkout are behind the first.  A    *)
(* stride of 2 over a line is too short to count, and a long one straight  *)
(* through the side door is too short for the first line.                  *)
(***************************************************************************)
EXTENDS Detectors

CONSTANTS t1, t2, z1, q1

MCPosition == {<<x, 2>> : x \in {-1, 0, 1, 3}} \cup {<<3, -1>>}

MCCoord == [k \in 1..2 |-> [p \in MCPosition |-> p[k]]]

MCArea == [a \in {z1, q1} |-> IF a = z1 THEN {<<1, 2>>, <<3, 2>>} ELSE {<<3, 2>>}]

\* One person walks about; the other waits at the first door and goes in
\* together with the first, for crossings in a group.
MCScene ==
  {[t \in Track |-> IF t = t1 THEN p ELSE <<-1, 2>>] : p \in MCPosition \cup {Unseen}}
  \cup {[t \in Track |-> <<3, 2>>]}
===============================================================================
