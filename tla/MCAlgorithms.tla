---------------------------- MODULE MCAlgorithms ----------------------------
(***************************************************************************)
(* The pure algorithms of the system, each called with every input of a    *)
(* small set.  A state is idle or one call with its input; the properties  *)
(* say what the algorithm makes of it.                                     *)
(***************************************************************************)
EXTENDS ShelfGrid, AnomalyRules, Operations, ChallengeFormat, VideoTracking, StoreQueries, ShelfTracker, LineGeometry, TLC

CONSTANTS t1, t2

VARIABLE call

Idle == call = <<>>

----------------------------------------------------------------------------
(* A shelf of two rows that differ in height by more than Eps, the camera
   level or, if Eps allows, tilted.  Each place of the planogram shows its own
   item, nothing, another item, an item the detector is not sure of, or a box so
   flat that its crop has no area. *)

Seen == {"own", "none", "other", "faint", "flat"}

RowsOfShelf == <<<<"a", "b", "c", "d">>, <<"d", "b", "e">>>>

Places == <<<<1, 1>>, <<1, 2>>, <<1, 3>>, <<1, 4>>, <<2, 1>>, <<2, 2>>, <<2, 3>>>>

Tilts == {t \in {0, 1} : 3 * t <= Eps}

Box(p, tilt) ==
  [x |-> p[2], y |-> (Eps + 5) * p[1] + tilt * p[2], sku |-> RowsOfShelf[p[1]][p[2]],
   area |-> TRUE, sure |-> TRUE]

Reference(tilt) == [k \in DOMAIN Places |-> Box(Places[k], tilt)]

SeenAt(in, p) == in.seen[p[1]][p[2]]

BoxSeen(in, p) ==
  [Box(p, in.tilt) EXCEPT !.sku = IF SeenAt(in, p) = "other" THEN "z" ELSE @,
                          !.sure = SeenAt(in, p) # "faint",
                          !.area = SeenAt(in, p) # "flat"]

Frame(in) ==
  LET shown == Listed({k \in DOMAIN Places : SeenAt(in, Places[k]) # "none"}, <)
  IN  [i \in DOMAIN shown |-> BoxSeen(in, Places[shown[i]])]

ReadShelf ==
  /\ Idle
  /\ \E tilt \in Tilts, upper \in [1..4 -> Seen], lower \in [1..3 -> {"own", "none"}] :
       call' = <<"shelf", [tilt |-> tilt, seen |-> <<upper, lower>>]>>

Counted(in, r, kinds) == Cardinality({c \in DOMAIN in.seen[r] : in.seen[r][c] \in kinds})

\* The sku model answers for crops only, so a box without a crop passes the name
\* of the next box on: the frame is legible when such boxes come last.
Legible(in) ==
  /\ \A r \in DOMAIN in.seen : Counted(in, r, {"own", "other", "flat"}) >= RowSamples
  /\ LET frame == Frame(in)
     IN  \A i, j \in DOMAIN frame : i < j /\ ~frame[i].area => ~frame[j].area

\* While every row shows enough boxes and the names stay with their boxes, items
\* that are missing or wrong do not shift the cells beside them: an item in its
\* place is ok, nothing else is, and in each row as many cells are misplaced as
\* wrong items are shown (CellStateComputation.compute_cell_states).
GapsDoNotShift ==
  (~Idle /\ call[1] = "shelf" /\ Legible(call[2])) =>
    LET in     == call[2]
        states == CellStates(Planogram(Reference(in.tilt)), Frame(in))
    IN  \A r \in DOMAIN in.seen :
          /\ \A c \in DOMAIN in.seen[r] : states[r][c] = "ok" <=> in.seen[r][c] = "own"
          /\ Cardinality({c \in DOMAIN states[r] : states[r][c] = "misplaced"})
               = Counted(in, r, {"other", "flat"})

----------------------------------------------------------------------------
(* Queue depths: a steady queue, and then one sample of another length. *)

Samples(n, usual, last) == [i \in 1..n |-> IF i = n THEN last ELSE usual]

ReadQueue ==
  /\ Idle
  /\ \E n \in 1..12, usual \in {0, 3, 6, 40}, last \in 0..DepthAlarm :
       call' = <<"queue", [n |-> n, usual |-> usual, last |-> last]>>

\* One sample among n lies (n - 1) / sqrt(n) deviations from the mean: k or more
\* when n reaches k, which it does for the defaults 2 and 3 with 6 and 11 samples.
Reaches(n, k) == (n - 1) * (n - 1) >= k * k * n

\* A queue that grows after a steady past is seen for its length or for its
\* jump.  Before there is a baseline its length decides: half of DepthAlarm is
\* listed.  With a baseline, growth to DepthAlarm or more is always listed; growth
\* to less is listed if and only if there are enough samples, for one sample among
\* n cannot be further than Reaches says from a mean it is part of, whatever its
\* length; and the severity follows from their number alone.  From BaselineSamples
\* samples until Reaches, then, growth below DepthAlarm goes unseen that would have
\* been listed with fewer samples.  A queue that has not grown and is shorter
\* than DepthAlarm is not listed (detect_queue_spikes and severity_from_z); of a
\* longer one that shrinks nothing is said here.
SpikeSeen(n, usual, last) ==
  LET alarm    == QueueAlarm(Samples(n, usual, last))
      long     == last >= DepthAlarm
      severity == IF Reaches(n, ZCritical) THEN "critical" ELSE IF Reaches(n, ZWarn) THEN "warn" ELSE "info"
  IN  /\ n < BaselineSamples => (alarm # "none" <=> last >= DepthAlarm \div 2)
      /\ n >= BaselineSamples /\ n > 1 =>
           /\ last > usual => alarm = IF severity # "info" \/ long THEN severity ELSE "none"
           /\ last <= usual /\ ~long => alarm = "none"

SpikeIsSeen == (~Idle /\ call[1] = "queue") => SpikeSeen(call[2].n, call[2].usual, call[2].last)

----------------------------------------------------------------------------
(* A store with up to two queues and more shelves than one cycle acts on. *)

AnyQueue == [depth : {0, 5, 7, 8}, arrivals : {0, 2}, service : {1}, counters : {0, 1, 2}]

Shelves == [units : {0, 3, 40}, used : {0, 1}]

RunCycle ==
  /\ Idle
  /\ \E m \in 0..2 : \E queues \in [1..m -> AnyQueue],
        kind \in Shelves, n \in {0, 1, MaxActions + 1}, last \in Shelves :
       call' = <<"store", [queues |-> queues, shelves |-> Append([i \in 1..n |-> kind], last)]>>

\* A congested queue is acted on in the same cycle, however many shelves run
\* out, and a shelf whose stock is low is not acted on before one that is empty
\* or critical.  An incident that lasts is acted on anew in the next cycle: its
\* earlier tasks stay open beside the new ones, and are checked with them
\* (EdgeOrchestrator._stage_act after rank_incidents, and _stage_verify).
Attended(store) ==
  LET all   == Incidents(store)
      acted == ActedOn(all)
  IN  /\ (\E q \in Range(store.queues) :
            /\ \A r \in Range(store.queues) : r.depth < q.depth \/ r = q
            /\ q.depth >= 5)
         => "MOVE_STAFF" \in Range(NewTasks(store))
      /\ (\E i \in DOMAIN acted : acted[i].status = "low")
         => \A i \in DOMAIN all : i \notin DOMAIN acted => all[i].status = "low"
      /\ LET once  == Cycle(NewLoop, store)
             again == Cycle(once, store)
         IN  /\ Len(again.tasks) = 2 * Len(acted)
             /\ \A i \in DOMAIN again.tasks : Open(again.tasks[i])
             /\ again.last[1].checked = Len(again.tasks)

CongestionIsActedOn == (~Idle /\ call[1] = "store") => Attended(call[2])

----------------------------------------------------------------------------
(* Events of the pipeline, exported, stored and exported again. *)

MCTrackName == t1 :> "track-1" @@ t2 :> "track-2"

Events ==
  [type : PipelineType, visitor : {None, "v1"}, person : {None, "v2"}, track : {None} \cup Tracks,
   zone : {None, "z1"}, dwell : {None, 0, 1001}, dwellMs : {None, 7}, depth : {None, 2},
   sku : {None}, sequence : {None, 0, 1}, seq : {None, 2}, staff : {FALSE}]

Emitted == {e \in Events : Consistent(e)}

ExportEvent ==
  /\ Idle
  /\ \E e \in Emitted, short \in {0, 1}, again \in {0, 1} :
       call' = <<"event", [event |-> e, short |-> short, again |-> again]>>

\* Whatever the event, its export is stable (StableExport): export_store,
\* envelope_to_challenge after challenge_to_envelope.
ExportIsStable ==
  (~Idle /\ call[1] = "event") => StableExport(call[2].event, call[2].short, call[2].again)

----------------------------------------------------------------------------
(* Videos of up to MaxReads reads, and batches of them. *)

CONSTANTS MaxReads

Picture(ids) == [kind |-> "frame", ids |-> ids, crossings |-> {}, zones |-> {}]

Nothing(kind) == [kind |-> kind, ids |-> {}, crossings |-> {}, zones |-> {}]

AnyRead == {Nothing("eof"), Nothing("empty")} \cup {Picture(ids) : ids \in (SUBSET {1, 2}) \cup {{-1, 1}}}

PlayVideo ==
  /\ Idle
  /\ \E n \in 1..MaxReads : \E reads \in [1..n -> AnyRead] :
       call' = <<"video", [found |-> TRUE, reads |-> reads]>>

\* A frame with pixels, whatever the stages make of it.
Readable(read) == read.kind \notin {"eof", "empty"}

\* The reads before the one that ends the pass: a failed one after a good frame,
\* or the last of MaxDrops drops in a row.
IsDrop(reads, i) ==
  reads[i].kind = "empty" \/ (reads[i].kind = "eof" /\ \A j \in 1..i : ~Readable(reads[j]))

EndsPass(reads, i) ==
  \/ reads[i].kind = "eof" /\ \E j \in 1..i : Readable(reads[j])
  \/ i >= MaxDrops /\ \A j \in i - MaxDrops + 1..i : IsDrop(reads, j)

PassOf(reads) == {i \in DOMAIN reads : \A j \in 1..i - 1 : ~EndsPass(reads, j)}

ShownOf(reads) == {i \in PassOf(reads) : Readable(reads[i])}

\* Every readable frame before the end of the pass is processed, in order and
\* under the number of its read, and every other read of the pass but a closing
\* end of file is counted as dropped (VideoReader.frames).  The pass ends with
\* drop MaxDrops in a row (`>=`, utils.py:167), where the class comment
\* (utils.py:62-63) lets drops exceed that number first; and the index of a frame
\* counts the dropped reads before it (utils.py:151), where the comment of frames
\* (utils.py:143-144) says that they do not count.
Accounted(video) ==
  LET reads == video.reads
      v     == ReadAll(video)
  IN  /\ {f.index : f \in Range(v.frames)} = {i - 1 : i \in ShownOf(reads)}
      /\ \A m, n \in DOMAIN v.frames : m < n => v.frames[m].index < v.frames[n].index
      /\ \A n \in DOMAIN v.frames : v.frames[n].picture = reads[v.frames[n].index + 1]
      /\ v.dropped = Cardinality({i \in PassOf(reads) : IsDrop(reads, i)})

FramesAccountedFor == (~Idle /\ call[1] = "video") => Accounted(call[2])

\* What a frame shows of a track, and the frames since.
ShownIn(frames, i) == {n \in DOMAIN frames : i \in frames[n].picture.ids}

\* A track starts at its first sighting and keeps the last MaxPoints; it is
\* active while it is in the latest frame, it has ended once a frame comes more
\* than TrackTimeout after the first one without it, and is lost between; a
\* sighting revives it.  Tracks that start in one frame are reported as a group
\* then, and a group is never made of tracks that start more than GroupWindow
\* apart from that frame (TrackHistoryStore).  With a timeout of one frame, which
\* is the one that runs here, a track ends with the third frame without it
\* (`>`, track_state.py:255), where test_track_state.py:23-39 expects the second.
SightingsFollowed(frames) ==
  LET t    == TrackAll(frames)
      last == Len(frames)
      First(i) == frames[Min(ShownIn(frames, i))].index
  IN  /\ DOMAIN t.tracks = {i \in UNION {frames[n].picture.ids : n \in DOMAIN frames} : i >= 0}
      /\ \A i \in DOMAIN t.tracks :
           LET shown == ShownIn(frames, i)
               seen  == Max(shown)
           IN  /\ t.tracks[i].first = First(i)
               /\ Range(t.tracks[i].points) =
                    {frames[n].index : n \in {m \in shown : Cardinality({k \in shown : k > m}) < MaxPoints}}
               /\ t.tracks[i].status =
                    IF seen = last THEN "active"
                    ELSE IF frames[last].index - frames[seen + 1].index > TrackTimeout THEN "ended"
                    ELSE "lost"
      /\ \A g \in t.groups : \A i \in g.ids : g.frame - First(i) \in 0..GroupWindow
      /\ \A n \in DOMAIN frames :
           LET new == {i \in DOMAIN t.tracks : First(i) = frames[n].index}
           IN  Cardinality(new) >= GroupMin => \E g \in t.groups : g.frame = frames[n].index /\ new \subseteq g.ids

TracksFollowSightings == (~Idle /\ call[1] = "video") => SightingsFollowed(ReadAll(call[2]).frames)

Seven == [kind |-> "frame", ids |-> {1, 2}, crossings |-> {"entry", "exit"}, zones |-> {"enter", "dwell", "exit"}]

AnyVideo ==
  {[found |-> FALSE, reads |-> <<>>],
   [found |-> TRUE, reads |-> <<Seven, Nothing("bad"), Seven>>],
   [found |-> TRUE, reads |-> <<Nothing("empty"), Seven, Picture({1}), Nothing("eof")>>],
   [found |-> TRUE, reads |-> <<Picture({-1}), Seven>>]}

RunBatch ==
  /\ Idle
  /\ \E n \in 1..4 : \E videos \in [1..n -> AnyVideo] : call' = <<"batch", videos>>

\* The elements of some of the sets, every set for itself.
Altogether(sets, shown) == MapThenSumSet(LAMBDA i : Cardinality(sets[i]), shown)

Sound(video) == video.found /\ \A i \in PassOf(video.reads) : video.reads[i].kind # "bad"

\* A video that is missing or that fails midway costs its own summary and no
\* other, whatever the stage; the others keep their order, and in each of them
\* every stage counts the same frames and everything that these show, once
\* (the run_all and run_video of the four runners).
FailAlone(videos) ==
  LET sound  == {n \in DOMAIN videos : Sound(videos[n])}
      read   == RunAll(videos)
      found  == [i \in DOMAIN read |-> DetectionSummary(read[i])]
      walked == [i \in DOMAIN read |-> TrackingSummary(read[i])]
      line   == [i \in DOMAIN read |-> CrossingSummary(read[i])]
      zone   == [i \in DOMAIN read |-> ZoneSummary(read[i])]
  IN  /\ Len(read) = Cardinality(sound)
      /\ \A n \in sound :
           LET i     == Cardinality({k \in sound : k <= n})
               reads == videos[n].reads
               shown == ShownOf(reads)
           IN  /\ \A s \in {found[i], walked[i], line[i], zone[i]} : s.processed = Cardinality(shown)
               /\ found[i].detections = Altogether([k \in DOMAIN reads |-> reads[k].ids], shown)
               /\ walked[i].instances = Altogether([k \in DOMAIN reads |-> Visitors(reads[k])], shown)
               /\ line[i].entries + line[i].exits = Altogether([k \in DOMAIN reads |-> reads[k].crossings], shown)
               /\ zone[i].enters + zone[i].exits + zone[i].dwells
                    = Altogether([k \in DOMAIN reads |-> reads[k].zones], shown)

VideosFailAlone == (~Idle /\ call[1] = "batch") => FailAlone(call[2])

----------------------------------------------------------------------------
(* Tables of up to MaxRows rows around a window of one hour: baseline from 0,
   current window from 2 to 3. *)

CONSTANTS MaxRows, z1, q1

AnyRow ==
  [id : {0}, type : {"zone_enter", "zone_dwell", "dwell", "zone_exit"}, at : 0..3, zone : {z1}, queue : {Null},
   depth : {Null}, queueDepth : {Null}, dwell : {5}, staff : {FALSE}]
  \cup [id : {0}, type : {"queue_depth"}, at : 0..3, zone : {Null}, queue : {q1},
        depth : {Null, 4}, queueDepth : {Null}, dwell : {Null}, staff : {FALSE}]
  \cup [id : {0}, type : {"queue_depth"}, at : 1..3, zone : {Null}, queue : {q1},
        depth : {Null}, queueDepth : {2}, dwell : {Null}, staff : BOOLEAN]

Table(shapes) == {[shapes[i] EXCEPT !.id = i] : i \in DOMAIN shapes}

QueryStore ==
  /\ Idle
  /\ \E n \in 0..MaxRows : \E shapes \in [1..n -> AnyRow] : call' = <<"rows", shapes>>

\* Metrics and anomalies read the same table by different queries and agree on
\* it: a queue has the same depth in both while its newest sample is current
\* (unless two are equally new), a zone with a dwell time is not dead, and where
\* the store is called empty every active zone is dead and no queue has a depth.
Agree(rows, from, current, now) ==
  LET metrics == StoreMetrics(rows, current, now)
      signals == Signals(rows, from, current, now)
      before  == ZoneVisits(rows, from, current)
  IN  /\ \A m \in metrics.queues :
           (m.at >= current /\ \A o \in metrics.queues : o.queue = m.queue => o = m)
           => m.queue \in DOMAIN signals.depths /\ signals.depths[m.queue] = m.depth
      /\ DOMAIN metrics.zones \cap signals.dead = {}
      /\ metrics.empty =>
           /\ DOMAIN signals.depths = {}
           /\ \A z \in DOMAIN before : before[z] >= MinVisits => z \in signals.dead

QueriesAgree == (~Idle /\ call[1] = "rows") => Agree(Table(call[2]), 0, 2, 3)

----------------------------------------------------------------------------
(* Samples of the heatmap. *)

CONSTANTS MaxSamples

AnySample ==
  [place : {"bbox"}, x : {2 * Unit * x : x \in {Width \div 3, Width \div 2, Width}},
   y : {2 * Unit * y : y \in {0, Height - 1, Height}}, dwell : {1}]
  \cup [place : {"normalized"}, x : {0, Unit \div 2, Unit}, y : {Unit}, dwell : {0}]
  \cup [place : {"nowhere"}, x : {0}, y : {0}, dwell : {1}]

DrawHeatmap ==
  /\ Idle
  /\ \E n \in 0..MaxSamples : \E samples \in [1..n -> AnySample] : call' = <<"map", samples>>

VisitsOf(cells) == MapThenSumSet(LAMBDA c : cells[c].visits, DOMAIN cells)

\* Every sample with a place is counted in exactly one cell of the grid, its own
\* unless it lies on the far border; the fullest cell has share 100 and a fuller
\* cell never has the smaller share (HeatmapEngine.get_heatmap).
AddsUp(samples) ==
  LET placed == {i \in DOMAIN samples : Placed(samples[i])}
      cells  == Heatmap(samples).cells
      Covers(c, p) == /\ c[1] * Width * Unit <= p.x * Resolution
                      /\ p.x * Resolution <= (c[1] + 1) * Width * Unit
                      /\ c[2] * Height * Unit <= p.y * Resolution
                      /\ p.y * Resolution <= (c[2] + 1) * Height * Unit
  IN  /\ DOMAIN cells \subseteq (0..Resolution - 1) \X (0..Resolution - 1)
      /\ VisitsOf(cells) = Cardinality(placed)
      /\ DwellOf(cells, DOMAIN cells) = DwellOf(samples, placed)
      /\ \A i \in placed : \E c \in DOMAIN cells : Covers(c, OnFrame(Point(samples[i])))
      /\ cells # <<>> => \E c \in DOMAIN cells : cells[c].share = 100
      /\ \A c, d \in DOMAIN cells : cells[c].visits > cells[d].visits => cells[c].share >= cells[d].share

HeatmapAddsUp == (~Idle /\ call[1] = "map") => AddsUp(call[2])

----------------------------------------------------------------------------
(* One keyframe of a shelf with up to two tracked and two detected boxes. *)

Overlaps == {0, Overlap - 1, Overlap, Overlap + 2}

TrackKeyframe ==
  /\ Idle
  /\ \E n, k \in 0..2 : \E ages \in [1..n -> {0, MaxAge - 1, MaxAge} \cap Nat], lost \in SUBSET (1..n),
        iou \in [1..k -> [1..n -> Overlaps]] :
       call' = <<"track", [ages |-> ages, lost |-> lost, iou |-> iou]>>

\* A stream whose detector fails, sees an empty shelf, or one or two boxes that
\* are new or where any earlier box was.
Anywhere == 1..20

AnyPicture ==
  {[fails |-> TRUE, boxes |-> <<>>]}
  \cup [fails : {FALSE}, boxes : {<<>>, <<{}>>, <<Anywhere>>, <<{}, Anywhere>>}]

CONSTANTS MaxKeyframes

StreamFrames ==
  /\ Idle
  /\ \E n \in 1..MaxKeyframes * KeyInterval : \E keys \in [1..((n - 1) \div KeyInterval) + 1 -> AnyPicture] :
       call' = <<"stream", [i \in 1..n |-> keys[((i - 1) \div KeyInterval) + 1]]>>

\* Between keyframes the boxes of the last keyframe that had any are shown, and
\* they are shown for MaxAge more predictions, also when the shelf has been found
\* empty since; only a detector that fails and a stream that has had no good
\* keyframe yet raise.  The boxes of a keyframe have ids of their own, and one
\* that was shown before is that of a box that was there (process_detections).
StreamIsShown(frames) ==
  LET answers == Stream(frames).answers
      Key(i)  == IsKeyframe(i - 1)
      Fine(i) == Key(i) /\ ~frames[i].fails
      Boxes(i) == {j \in 1..i - 1 : Fine(j) /\ frames[j].boxes # <<>>}
      Since(j, i) == Cardinality({k \in j + 1..i : ~Key(k)})
  IN  /\ Len(answers) = Len(frames)
      /\ \A i \in DOMAIN frames :
           /\ answers[i].ok <=> IF Key(i) THEN Fine(i) ELSE \E j \in 1..i - 1 : Fine(j)
           /\ Fine(i) => Cardinality(answers[i].shown) = Len(frames[i].boxes)
           /\ Fine(i) => \A j \in 1..i - 1 : \A t \in answers[i].shown \cap answers[j].shown :
                           \E d \in DOMAIN frames[i].boxes : t \in frames[i].boxes[d]
           /\ ~Key(i) =>
                LET fresh == {j \in Boxes(i) : Since(j, i) <= MaxAge}
                IN  IF fresh = {} THEN answers[i].shown = {}
                    ELSE answers[Max(fresh)].shown \subseteq answers[i].shown

\* A keyframe gives every detection an id of its own: that of the tracker it is
\* assigned to, which has to overlap it enough, or that of a new one.  A detection
\* without a tracker starts one; but one that is assigned a tracker with too little
\* overlap starts two, as it is unmatched for the pair and for itself
\* (sort.py:277-290, 304-309), so that its box is shown twice on the next frame.
\* No other trackers start; those of the keyframe are shown on the next frame, and
\* so is every other one that was seen recently enough, but none that left the
\* frame (SortTracker.update and predict).  The confidence of a detection plays no
\* part.
KeyframeIsTracked(in) ==
  LET ids      == DOMAIN in.ages
      dets     == DOMAIN in.iou
      trackers == Predicted(in.ages, in.lost)
  IN  \A m \in Assignments(dets, ids, in.iou) :
        LET after == Update(trackers, dets, in.iou, m, Len(in.ages) + 1)
            next  == Shown(Predicted(after.trackers, {}))
            new   == DOMAIN after.trackers \ ids
        IN  /\ \A d, e \in dets : after.ids[d] = after.ids[e] => d = e
            /\ \A d \in dets : after.ids[d] \in DOMAIN after.trackers
            /\ \A d \in dets : after.ids[d] \in ids => in.iou[d][after.ids[d]] >= Overlap
            /\ Cardinality(new) = Cardinality({d \in dets : after.ids[d] \notin ids})
                                  + Cardinality(m \ Overlapping(m, in.iou))
            /\ \A t \in new \cup {after.ids[d] : d \in dets} : t \in next <=> MaxAge > 0
            /\ \A t \in ids : t \in next <=>
                 \/ MaxAge > 0 /\ \E d \in dets : after.ids[d] = t
                 \/ t \notin in.lost /\ in.ages[t] + 2 <= MaxAge

\* A keyframe is tracked as KeyframeIsTracked says, and a stream of frames shows
\* the trackers as StreamIsShown says (SortTracker, process_detections).
DetectionsAreTracked ==
  /\ (~Idle /\ call[1] = "track") => KeyframeIsTracked(call[2])
  /\ (~Idle /\ call[1] = "stream") => StreamIsShown(call[2])

----------------------------------------------------------------------------
(* A centroid that moves past a line in the layout. *)

CONSTANTS Coordinates

ASSUME CoordinatesAssumption == Coordinates \subseteq Int

Points == Coordinates \X Coordinates

CrossLine ==
  /\ Idle
  /\ \E p1, p2, from, to \in Points, inward \in {"bottom", "top", "left", "right", "other"} :
       call' = <<"line", [line |-> [p1 |-> p1, p2 |-> p2, inward |-> inward], from |-> from, to |-> to]>>

\* Whatever the line and the step, a crossing is a change of side (SideChange):
\* entry_exit.py, classify_crossing.
CrossingIsSideChange ==
  (~Idle /\ call[1] = "line") => SideChange(call[2].from, call[2].to, call[2].line)

----------------------------------------------------------------------------

Return == ~Idle /\ call' = <<>>

CallInit == Idle

CallNext == ReadShelf \/ ReadQueue \/ RunCycle \/ ExportEvent \/ PlayVideo \/ RunBatch
  \/ QueryStore \/ DrawHeatmap \/ TrackKeyframe \/ StreamFrames \/ CrossLine \/ Return

CallSpec == CallInit /\ [][CallNext]_call
=============================================================================
