---------------------------- MODULE ShelfTracker ----------------------------
(***************************************************************************)
(* SortTracker: boxes of a shelf followed from keyframe to keyframe        *)
(* (adaptors/tracking/sort.py).  The trackers are a function from their    *)
(* ids, which a counter hands out, to their ages: the predictions since    *)
(* they were last matched.  The Kalman filter is left out: where a         *)
(* prediction lands is given by its overlap with each detection, and       *)
(* whether it is still a box of the frame by the set of lost trackers.     *)
(***************************************************************************)
EXTENDS Integers, FiniteSets, FiniteSetsExt, Sequences, SequencesExt

CONSTANTS
  MaxAge,   \* predictions a tracker survives without a match
  Overlap,  \* least overlap of a match (iou_threshold)
  KeyInterval  \* frames from keyframe to keyframe: 30 in the code

ASSUME TrackerAssumption ==
  /\ MaxAge \in 0..998
  /\ Overlap \in Nat \ {0}
  /\ KeyInterval \in Nat \ {0}

\* A box that left the frame, in predictions since the last match.
Gone == 999

Predicted(trackers, lost) ==
  [t \in DOMAIN trackers |-> IF t \in lost THEN Gone ELSE trackers[t] + 1]

\* predict(): the boxes shown for a frame that is no keyframe; nothing is removed.
Shown(trackers) == {t \in DOMAIN trackers : trackers[t] <= MaxAge}

Living(trackers) == [t \in Shown(trackers) |-> trackers[t]]

----------------------------------------------------------------------------
(* Assignment: as many pairs as there can be, of the greatest total overlap. *)

Pairings(dets, trks) ==
  {m \in SUBSET (dets \X trks) :
     /\ \A p, q \in m : (p[1] = q[1] \/ p[2] = q[2]) => p = q
     /\ Cardinality(m) = Min({Cardinality(dets), Cardinality(trks)})}

Total(m, iou) == MapThenSumSet(LAMBDA p : iou[p[1]][p[2]], m)

Assignments(dets, trks, iou) ==
  LET all == Pairings(dets, trks)
  IN  {m \in all : \A n \in all : Total(n, iou) <= Total(m, iou)}

EveryPair(m, iou) == m

Overlapping(m, iou) == {p \in m : iou[p[1]][p[2]] >= Overlap}

----------------------------------------------------------------------------

\* update(): a detection whose assigned tracker overlaps too little is unmatched
\* once for the pair and once more because it is in no match, so two trackers
\* start from it; the detection carries the id of the second.
Update(trackers, dets, iou, m, nextId) ==
  LET matched == Overlapping(m, iou)
      low     == m \ matched
      open    == dets \ {p[1] : p \in matched}
      next    == nextId + Cardinality(low) + Cardinality(open)
      Rank(d) == Cardinality({e \in open : e <= d})
  IN  [trackers |-> Living([t \in DOMAIN trackers \cup (nextId..next - 1) |->
                              IF t \in DOMAIN trackers /\ ~(\E p \in matched : p[2] = t)
                              THEN trackers[t] ELSE 0]),
       next |-> next,
       ids |-> [d \in dets |->
                  IF d \in open THEN nextId + Cardinality(low) + Rank(d) - 1
                  ELSE (CHOOSE p \in matched : p[1] = d)[2]]]

----------------------------------------------------------------------------
(* The frames of a camera (StreamProcessingUseCase.process_detections, called *)
(* by InferenceThread for every frame it takes from the queue).  A frame says *)
(* whether the detector fails on it and which trackers, by their ids, each of *)
(* its boxes overlaps; between keyframes the picture is not looked at.        *)

NewStream == [index |-> 0, framed |-> FALSE, trackers |-> <<>>, nextId |-> 1, answers |-> <<>>]

IsKeyframe(index) == index % KeyInterval = 0

OverlapsOf(boxes, trackers) ==
  [d \in DOMAIN boxes |-> [t \in DOMAIN trackers |-> IF t \in boxes[d] THEN Overlap ELSE 0]]

\* The frame counts, whatever becomes of it, and the thread goes on after an error.
Answered(s, answer) == [s EXCEPT !.index = @ + 1, !.answers = Append(@, answer)]

Error == [ok |-> FALSE, shown |-> {}]

\* Boxes stand still here.  A keyframe without boxes leaves the trackers alone, their age included.
Keyframe(s, frame) ==
  IF frame.fails THEN Answered(s, Error)
  ELSE IF frame.boxes = <<>> THEN Answered([s EXCEPT !.framed = TRUE], [ok |-> TRUE, shown |-> {}])
  ELSE LET predicted == Predicted(s.trackers, {})
           iou   == OverlapsOf(frame.boxes, predicted)
           dets  == DOMAIN iou
           after == Update(predicted, dets, iou,
                           CHOOSE m \in Assignments(dets, DOMAIN predicted, iou) : TRUE, s.nextId)
       IN  Answered([s EXCEPT !.framed = TRUE, !.trackers = after.trackers, !.nextId = after.next],
                    [ok |-> TRUE, shown |-> Range(after.ids)])

\* Before the first keyframe that succeeded there is no frame to fall back on.
Between(s) ==
  LET predicted == Predicted(s.trackers, {})
  IN  IF s.framed THEN Answered([s EXCEPT !.trackers = predicted], [ok |-> TRUE, shown |-> Shown(predicted)])
      ELSE Answered(s, Error)

ProcessFrame(s, frame) == IF IsKeyframe(s.index) THEN Keyframe(s, frame) ELSE Between(s)

Stream(frames) == FoldLeft(ProcessFrame, NewStream, frames)
=============================================================================
