------------------------------ MODULE ShelfGrid ------------------------------
(***************************************************************************)
(* What a frame says about each cell of a shelf: detected boxes are named  *)
(* by the sku model, clustered into rows by height, sorted within a row,   *)
(* and each row is aligned with the row of the planogram that has the same *)
(* index (usecases/detection_processing.py, grid/clustering.py,            *)
(* grid/grid_detector.py, cell_state_computation.py).  The planogram is    *)
(* itself such a grid, taken from a reference picture.                     *)
(*                                                                         *)
(* A detection has the coordinates of its box, the sku its crop would be   *)
(* recognised as, whether the clamped box has an area, and whether its     *)
(* confidence reaches the threshold.                                       *)
(***************************************************************************)
EXTENDS Integers, FiniteSets, Sequences, SequencesExt

CONSTANTS
  Eps,          \* vertical distance that joins two boxes to one row
  RowSamples    \* boxes that make a row

\* With more than two, a box may border on two rows at once, which is left out.
ASSUME GridAssumption == Eps \in Nat /\ RowSamples \in 1..2

\* The elements of a set from the first on.
Listed(S, Before(_, _)) ==
  [n \in 1..Cardinality(S) |->
     CHOOSE x \in S : Cardinality({y \in S \ {x} : Before(y, x)}) = n - 1]

----------------------------------------------------------------------------
(* Naming: the sku model sees the crops of the boxes that have an area; its
   answers are written onto the detections from the first one on, though the
   list keeps the boxes without an area. *)

Crops(dets) == Listed({i \in DOMAIN dets : dets[i].area}, <)

NameOf(dets, i) ==
  LET crops == Crops(dets)
  IN  IF i <= Len(crops) THEN dets[crops[i]].sku
      ELSE IF dets[i].area THEN "unknown_sku" ELSE "invalid_bbox"

Named(dets) == {[x |-> dets[i].x, y |-> dets[i].y, sku |-> NameOf(dets, i), sure |-> dets[i].sure] :
                i \in DOMAIN dets}

----------------------------------------------------------------------------
(* Rows *)

Near(a, b) == a.y - b.y \in -Eps..Eps

\* The boxes DBSCAN does not call noise.
Core(items) == {a \in items : Cardinality({b \in items : Near(a, b)}) >= RowSamples}

\* One row: no gap of more than Eps between the two.
Joined(core, a, b) ==
  \A c \in core : (a.y <= c.y /\ c.y < b.y) => \E d \in core : d.y > c.y /\ d.y <= c.y + Eps

RowSets(items) ==
  LET core == Core(items)
  IN  {{b \in core : Joined(core, a, b) /\ Joined(core, b, a)} : a \in core}

Above(r, s) == \E a \in r, b \in s : a.y < b.y

LeftOf(a, b) == a.x < b.x

\* GridDetector.detect_grid: rows from top to bottom, items from left to right.
\* No rows stand for the ValueError it raises.
Grid(items) ==
  LET rows == Listed(RowSets(items), Above)
  IN  [r \in DOMAIN rows |-> Listed(rows[r], LeftOf)]

\* generate_planogram_from_reference: each box of the reference picture is named
\* by its own crop, one without an area by the class of the detector.
Planogram(dets) ==
  Grid({[x |-> d.x, y |-> d.y, sku |-> IF d.area THEN d.sku ELSE "sku_0", sure |-> d.sure] :
        d \in Range(dets)})

----------------------------------------------------------------------------
(* Alignment: difflib.SequenceMatcher, which takes the longest common block,
   the earliest in the reference and then in the current row, and goes on to
   the left and to the right of it. *)

\* The blocks of a[al..ah] and b[bl..bh] that agree, as <<start, start, size>>.
Blocks(a, al, ah, b, bl, bh) ==
  {k \in (al..ah) \X (bl..bh) \X (1..Len(a)) :
     /\ k[1] + k[3] - 1 <= ah
     /\ k[2] + k[3] - 1 <= bh
     /\ \A n \in 0..(k[3] - 1) : a[k[1] + n] = b[k[2] + n]}

BetterBlock(k, m) ==
  \/ k[3] > m[3]
  \/ k[3] = m[3] /\ k[1] < m[1]
  \/ k[3] = m[3] /\ k[1] = m[1] /\ k[2] <= m[2]

\* Mutant of Aligned: rows are compared place by place.
ByPlace(a, b) == {<<i, i>> : i \in {j \in DOMAIN a \cap DOMAIN b : a[j] = b[j]}}

\* The pairs of indices that are matched.
Aligned(a, b) ==
  LET match[q \in (1..Len(a) + 1) \X (0..Len(a)) \X (1..Len(b) + 1) \X (0..Len(b))] ==
        LET found == Blocks(a, q[1], q[2], b, q[3], q[4])
            k     == CHOOSE k \in found : \A m \in found : BetterBlock(k, m)
        IN  IF found = {} THEN {}
            ELSE {<<k[1] + n, k[2] + n>> : n \in 0..(k[3] - 1)}
                 \cup match[<<q[1], k[1] - 1, q[3], k[2] - 1>>]
                 \cup match[<<k[1] + k[3], q[2], k[2] + k[3], q[4]>>]
  IN  match[<<1, Len(a), 1, Len(b)>>]

\* GridDetector._match_rows: an unmatched cell is paired with the next box that
\* is unmatched at the same place between two matches; without one it is empty.
CellState(a, b, pairs, i) ==
  LET before == {p \in pairs \cup {<<0, 0>>} : p[1] < i}
      after  == {p \in pairs \cup {<<Len(a) + 1, Len(b) + 1>>} : p[1] > i}
      prev   == CHOOSE p \in before : \A q \in before : q[1] <= p[1]
      next   == CHOOSE p \in after : \A q \in after : q[1] >= p[1]
  IN  IF \E p \in pairs : p[1] = i THEN "ok"
      ELSE IF prev[2] + i - prev[1] < next[2] THEN "misplaced" ELSE "empty"

Skus(row) == [i \in DOMAIN row |-> row[i].sku]

MatchRow(ref, cur) ==
  LET pairs == Aligned(Skus(ref), Skus(cur))
  IN  [i \in DOMAIN ref |-> CellState(ref, cur, pairs, i)]

\* GridDetector.match_grids: rows are paired by their index; a row of the
\* planogram without a detected row is empty.
MatchGrids(planogram, cur) ==
  [r \in DOMAIN planogram |->
     IF r \in DOMAIN cur THEN MatchRow(planogram[r], cur[r])
     ELSE [i \in DOMAIN planogram[r] |-> "empty"]]

\* CellStateComputation.compute_cell_states: the state of every cell of the
\* planogram.
CellStates(planogram, dets) == MatchGrids(planogram, Grid({d \in Named(dets) : d.sure}))
=============================================================================
