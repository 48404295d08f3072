---------------------------- MODULE VideoTracking ----------------------------
(***************************************************************************)
(* One pass over a video: the reader that numbers frames and gives up on   *)
(* unreadable ones (pipeline/utils.py), the registry that follows each     *)
(* track from its first sighting to its end (pipeline/track_state.py,      *)
(* pipeline/tracker.py), and the runners that count what the stages find   *)
(* (detect.py, tracker.py, entry_exit.py, zones.py).                       *)
(*                                                                         *)
(* A video says whether its file is found and what each read of the        *)
(* capture returns: of kind "eof" is a read that fails, "empty" a frame    *)
(* without pixels, "bad" a frame on which inference raises, and any other  *)
(* frame carries the ids the tracker gives its boxes (-1: none yet) and    *)
(* the events the detectors derive from it, chosen by the environment.     *)
(***************************************************************************)
EXTENDS Integers, FiniteSets, Sequences, SequencesExt

CONSTANTS
  MaxDrops,      \* consecutive unreadable frames after which a video is given up
  TrackTimeout,  \* frames a track may be lost before it has ended
  MaxPoints,     \* sightings kept per track
  GroupMin,      \* tracks that make a group
  GroupWindow    \* frames between the first sightings of a group

ASSUME VideoAssumption ==
  /\ MaxDrops \in Nat \ {0} /\ MaxPoints \in Nat \ {0}
  /\ TrackTimeout \in Nat /\ GroupMin \in Nat \ {0} /\ GroupWindow \in Nat

----------------------------------------------------------------------------
(* Reader.  The index counts reads, the dropped ones included. *)

Opened == [index |-> -1, good |-> 0, dropped |-> 0, consecutive |-> 0, over |-> FALSE, frames |-> <<>>]

Drop(v) ==
  [v EXCEPT !.dropped = @ + 1, !.consecutive = @ + 1, !.over = v.consecutive + 1 >= MaxDrops]

\* A good frame that leaves the count of consecutive drops alone.
GoodKeepsCount(v, picture) ==
  [v EXCEPT !.good = @ + 1, !.frames = Append(@, [index |-> v.index, picture |-> picture])]

Good(v, picture) == [GoodKeepsCount(v, picture) EXCEPT !.consecutive = 0]

\* One round of the loop.  A failed read after a good frame is the end of the
\* file; an empty frame, or a failed read before any good one, is dropped.
Read(v, read) ==
  LET next == [v EXCEPT !.index = @ + 1]
  IN  CASE v.over -> v
        [] ~v.over /\ read.kind = "eof" /\ v.good > 0 -> [next EXCEPT !.over = TRUE]
        [] ~v.over /\ (read.kind = "empty" \/ (read.kind = "eof" /\ v.good = 0)) -> Drop(next)
        [] OTHER -> Good(next, read)

ReadAll(video) == FoldLeft(Read, Opened, video.reads)

----------------------------------------------------------------------------
(* Tracks *)

\* Boxes the tracker has not confirmed carry no id and are left out.
Visitors(picture) == {i \in picture.ids : i >= 0}

NewTrack(frame) == [status |-> "active", first |-> frame, last |-> frame, lost |-> -1, points |-> <<>>]

LastOf(s, n) == SubSeq(s, IF Len(s) > n THEN Len(s) - n + 1 ELSE 1, Len(s))

Sighted(track, frame) ==
  [track EXCEPT !.status = "active", !.lost = -1, !.last = frame,
                !.points = LastOf(Append(@, frame), MaxPoints)]

\* A track missed again is lost from now on, whenever it was lost first.
MissedAfresh(track, frame) == [track EXCEPT !.status = "lost", !.lost = frame]

\* Not in this frame.  An ended track was last seen when it was given up.
Missed(track, frame) ==
  CASE track.status = "active" -> [track EXCEPT !.status = "lost", !.lost = frame]
    [] track.status = "lost" /\ frame - track.lost > TrackTimeout ->
         [track EXCEPT !.status = "ended", !.last = frame]
    [] OTHER -> track

UpdateFrame(tracks, frame, seen) ==
  [i \in DOMAIN tracks \cup seen |->
     IF i \in seen
     THEN Sighted(IF i \in DOMAIN tracks THEN tracks[i] ELSE NewTrack(frame), frame)
     ELSE Missed(tracks[i], frame)]

IsNew(track, frame) ==
  track.status = "active" /\ track.first - frame \in -GroupWindow..GroupWindow

GroupEntries(tracks, frame) ==
  LET new == {i \in DOMAIN tracks : IsNew(tracks[i], frame)}
  IN  IF Cardinality(new) < GroupMin THEN {} ELSE {new}

NoTracks == [tracks |-> <<>>, groups |-> {}, instances |-> 0]

\* ByteTrackVisitorTracker.update
TrackFrame(t, frame) ==
  LET seen   == Visitors(frame.picture)
      tracks == UpdateFrame(t.tracks, frame.index, seen)
  IN  [tracks    |-> tracks,
       groups    |-> t.groups \cup {[frame |-> frame.index, ids |-> g] :
                                     g \in GroupEntries(tracks, frame.index)},
       instances |-> t.instances + Cardinality(seen)]

TrackAll(frames) == FoldLeft(TrackFrame, NoTracks, frames)

----------------------------------------------------------------------------
(* Runners.  Inference on a bad frame raises, and the video has no summary. *)

Raises(frames) == \E i \in DOMAIN frames : frames[i].picture.kind = "bad"

\* What the stages find on each frame (iter_detections), and all that they count.
Detections(v) == [i \in DOMAIN v.frames |-> v.frames[i].picture.ids]
Crossings(v)  == [i \in DOMAIN v.frames |-> v.frames[i].picture.crossings]
ZoneEvents(v) == [i \in DOMAIN v.frames |-> v.frames[i].picture.zones]

Only(found, types) == [i \in DOMAIN found |-> found[i] \cap types]
But(found, types)  == [i \in DOMAIN found |-> found[i] \ types]

Tally(found) == FoldLeft(LAMBDA n, s : n + Cardinality(s), 0, found)

DetectionSummary(v) ==
  [processed |-> Len(v.frames), dropped |-> v.dropped, detections |-> Tally(Detections(v))]

TrackingSummary(v) ==
  LET t      == TrackAll(v.frames)
      With(s) == Cardinality({i \in DOMAIN t.tracks : t.tracks[i].status = s})
  IN  [processed |-> Len(v.frames), dropped |-> v.dropped, unique |-> Cardinality(DOMAIN t.tracks),
       active |-> With("active"), ended |-> With("ended"), groups |-> Cardinality(t.groups),
       instances |-> t.instances]

\* Every event of the line detector that is no entry counts as an exit.
CrossingSummary(v) ==
  [processed |-> Len(v.frames),
   entries |-> Tally(Only(Crossings(v), {"entry"})), exits |-> Tally(But(Crossings(v), {"entry"}))]

ZoneSummary(v) ==
  [processed |-> Len(v.frames), enters |-> Tally(Only(ZoneEvents(v), {"enter"})),
   exits |-> Tally(Only(ZoneEvents(v), {"exit"})), dwells |-> Tally(Only(ZoneEvents(v), {"dwell"}))]

\* The batch of a runner: a video that cannot be opened or on which a frame
\* raises is logged and skipped.
Fails(video) == ~video.found \/ Raises(ReadAll(video).frames)

FinishedUntilFailure(videos) ==
  SubSeq(videos, 1, Len(videos) - Cardinality({i \in DOMAIN videos : \E j \in 1..i : Fails(videos[j])}))

Attempted(done, video) == IF Fails(video) THEN done ELSE Append(done, video)

Finished(videos) == FoldLeft(Attempted, <<>>, videos)

\* What the stages summarise, in the order of the list.
RunAll(videos) == LET done == Finished(videos) IN [i \in DOMAIN done |-> ReadAll(done[i])]
=============================================================================
