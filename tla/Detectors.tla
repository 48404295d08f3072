------------------------------- MODULE Detectors -------------------------------
(***************************************************************************)
(* The detectors between the tracker and the visitor pipeline: line        *)
(* crossings (pipeline/entry_exit.py), zone visits (zones.py), queues      *)
(* (queue_tracking.py) and the life of a track (track_state.py).  One      *)
(* action is one frame that the loop processes; the index of frames may    *)
(* jump, because dropped frames are counted too.                           *)
(*                                                                         *)
(* A position is known by its coordinate along the inward normal of each   *)
(* line, which is what side, displacement and direction are computed from; *)
(* a line lies at 0, and zones and queues are sets of positions.  Engines  *)
(* keep a state per track and line, zone or queue and look at no other,    *)
(* except that a displacement too short for one line is too short for the  *)
(* lines after it.  Ages are counted in frame indices and end at the bound *)
(* they are compared with.                                                 *)
(***************************************************************************)
EXTENDS Integers, FiniteSets, FiniteSetsExt

CONSTANTS
  Track, Zone, Queue,
  Position,       \* set of centroids
  Lines,          \* number of entry_exit_lines, numbered in the layout's order
  Coord,          \* Coord[k][p]: position p along the inward normal of line k
  Nowhere,        \* no centroid yet
  Unseen,         \* the track is not in the frame
  Scene,          \* bound: where the tracks may be seen in a frame
  Area,           \* the positions of each zone and queue
  MinMove,        \* min_crossing_displacement_px
  Debounce,       \* debounce_frames
  Cooldown,       \* cooldown_frames
  Grace,          \* occlusion_grace_frames
  Threshold,      \* dwell_threshold_seconds, in frames
  Interval,       \* dwell_emit_interval_seconds, in frames
  TrackTimeout,   \* track_timeout_frames
  DepthInterval,  \* frames between two samples of the queue depth
  MaxStep,        \* bound on the jump of the frame index
  MaxVisits       \* bound on the visits of a track to a zone, and its joins

LineNo == 1..Lines

ASSUME GeometryAssumption ==
  /\ Lines \in Nat
  /\ Nowhere \notin Position /\ Unseen \notin Position /\ Nowhere # Unseen
  /\ Coord \in [LineNo -> [Position -> Int]]
  /\ Area \in [Zone \cup Queue -> SUBSET Position]
  /\ Scene \subseteq [Track -> Position \cup {Unseen}]

ASSUME TuningAssumption ==
  /\ {MinMove, Debounce, Cooldown, Grace, Threshold, TrackTimeout} \subseteq Nat
  /\ {Interval, DepthInterval, MaxStep, MaxVisits} \subseteq Nat \ {0}

VARIABLES
  line,     \* TrackLineState of each track and line
  visit,    \* ZoneSession of each track and zone
  record,   \* VisitorZoneHistory: visits recorded, and how many are open
  member,   \* _QueueMembership of each track and queue
  track,    \* VisitorTrack: status and age of the loss
  depthAge, \* frames since the last depth sample
  out,      \* events of this frame
  walk,     \* history: where each person was seen last, and how long ago
  stays     \* history: how each person has moved about each line

vars == <<line, visit, record, member, track, depthAge, out, walk, stays>>

Directions == {"entry", "exit"}

Abs(x) == IF x < 0 THEN -x ELSE x

Capped(n, bound) == IF n < bound THEN n ELSE bound

Side(k, p) == IF Coord[k][p] > 0 THEN 1 ELSE IF Coord[k][p] < 0 THEN -1 ELSE 0

Toward(k, from, to) == IF Coord[k][to] > Coord[k][from] THEN "entry" ELSE "exit"

Event(type, t, where, n) == [type |-> type, track |-> t, where |-> where, n |-> n]

-----------------------------------------------------------------------------
(* Line crossings *)

NewLine ==
  [last |-> Nowhere, side |-> 0, frames |-> 0, armed |-> TRUE,
   since |-> [d \in Directions |-> Cooldown]]

\* classify_crossing: the sides differ and neither end is on the line.
Crosses(k, from, to) == from # Nowhere /\ Side(k, from) * Side(k, to) = -1

\* Frames since the last event in this direction.
CooldownOk(r, direction, step) == r.since[direction] + step >= Cooldown

\* displacement_ok when the loop over the lines is at line k: once a line has
\* found the move along its normal too short, no later line sets it again.
FarEnough(s, k, p) ==
  \A j \in 1..k : s[j].last # Nowhere =>
    Abs(Coord[j][p] - Coord[j][s[j].last]) >= MinMove

\* Mutant of Fires: the debounce is not consulted.
FiresUnarmed(s, k, p, step) ==
  /\ Crosses(k, s[k].last, p)
  /\ FarEnough(s, k, p)
  /\ CooldownOk(s[k], Toward(k, s[k].last, p), step)

\* The conditions of process_frame for an event of line k; s holds the line
\* states of the track.
Fires(s, k, p, step) ==
  /\ Crosses(k, s[k].last, p)
  /\ s[k].armed
  /\ FarEnough(s, k, p)
  /\ CooldownOk(s[k], Toward(k, s[k].last, p), step)

\* Mutant of Debounced: a frame on the other side starts at zero.
DebouncedLate(r, side) ==
  LET n == IF side = r.side THEN Capped(r.frames + 1, Debounce) ELSE 0
  IN  IF side = 0 THEN r
      ELSE [r EXCEPT !.side = side, !.frames = n, !.armed = @ \/ n >= Debounce]

\* _update_debounce.
Debounced(r, side) ==
  LET n == IF side = r.side THEN Capped(r.frames + 1, Debounce) ELSE Capped(1, Debounce)
  IN  IF side = 0 THEN r
      ELSE [r EXCEPT !.side = side, !.frames = n, !.armed = @ \/ n >= Debounce]

\* _record_fire.
Fired(r, d) == [r EXCEPT !.since[d] = 0, !.armed = FALSE, !.frames = 0]

\* The state r of line k after a frame in which the line fires or not.
LineStep(r, k, p, step, fires) ==
  LET aged == [r EXCEPT !.since = [d \in Directions |-> Capped(@[d] + step, Cooldown)]]
      fired == IF fires THEN Fired(aged, Toward(k, r.last, p)) ELSE aged
  IN  IF p = Unseen THEN aged ELSE [Debounced(fired, Side(k, p)) EXCEPT !.last = p]

Firing(t, k, obs, step) == obs[t] # Unseen /\ Fires(line[t], k, obs[t], step)

Crossings(k, obs, step) ==
  {[track |-> t, direction |-> Toward(k, line[t][k].last, obs[t])] :
     t \in {u \in Track : Firing(u, k, obs, step)}}

\* _apply_group_crossings: crossings of a line in one direction only, two or
\* more, are a group; n is its size.
LineEvents(obs, step) ==
  UNION {
    LET all == Crossings(k, obs, step)
        size == IF Cardinality({c.direction : c \in all}) = 1 THEN Cardinality(all) ELSE 1
    IN  {Event(c.direction, c.track, k, size) : c \in all}
    : k \in LineNo}

-----------------------------------------------------------------------------
(* Zones *)

Inside(t, a, obs) == obs[t] \in Area[a]

NoVisit == [open |-> FALSE, missed |-> 0, age |-> 0, dwelt |-> FALSE, since |-> 0]

NewVisit == [NoVisit EXCEPT !.open = TRUE]

\* The visit one frame later; since is the time since the last dwell event.
Aged(v, step) ==
  [v EXCEPT !.age = Capped(@ + step, Threshold),
            !.since = IF v.dwelt THEN Capped(@ + step, Interval) ELSE 0]

\* _maybe_emit_dwell, its condition.
DwellDue(v) == v.age >= Threshold /\ (v.dwelt => v.since >= Interval)

Dwelt(v) == [v EXCEPT !.dwelt = TRUE, !.since = 0]

\* Mutant of Expires: one frame early.
ExpiresEarly(v) == v.missed + 1 >= Grace

\* The occlusion grace is over with this frame.
Expires(v) == v.missed + 1 > Grace

\* The visit of a track that is seen inside.
SeenInside(v, step) ==
  IF v.open THEN [Aged(v, step) EXCEPT !.missed = 0] ELSE NewVisit

VisitStep(v, t, z, obs, step) ==
  CASE Inside(t, z, obs) ->
         LET w == SeenInside(v, step) IN IF DwellDue(w) THEN Dwelt(w) ELSE w
    [] obs[t] = Unseen /\ v.open ->
         IF Expires(v) THEN NoVisit ELSE [Aged(v, step) EXCEPT !.missed = @ + 1]
    [] OTHER -> NoVisit

ZoneEvents(obs, step) ==
  UNION {
    LET v == visit[t][z]
        w == visit'[t][z]
    IN  (IF ~v.open /\ w.open THEN {Event("zone_enter", t, z, record'[t][z].visits)} ELSE {})
        \cup (IF v.open /\ ~w.open THEN {Event("zone_exit", t, z, record[t][z].visits)} ELSE {})
        \cup (IF Inside(t, z, obs) /\ DwellDue(SeenInside(v, step))
              THEN {Event("zone_dwell", t, z, record'[t][z].visits)} ELSE {})
    : t \in Track, z \in Zone}

\* _start_session adds a record with the next sequence number, _end_session
\* closes the latest open one.
RecordStep(r, v, w) ==
  CASE ~v.open /\ w.open -> [visits |-> r.visits + 1, open |-> r.open + 1]
    [] v.open /\ ~w.open /\ r.open > 0 -> [r EXCEPT !.open = @ - 1]
    [] OTHER -> r

-----------------------------------------------------------------------------
(* Queues *)

\* A seen track joins or leaves; one that is not seen stays what it was.
MemberStep(m, t, q, obs) ==
  CASE obs[t] = Unseen -> m
    [] Inside(t, q, obs) /\ ~m.inside -> [inside |-> TRUE, joins |-> m.joins + 1]
    [] ~Inside(t, q, obs) -> [m EXCEPT !.inside = FALSE]
    [] OTHER -> m

Depth(q, obs) == Cardinality({t \in Track : Inside(t, q, obs)})

QueueEvents(obs, sampled) ==
  (UNION {
    LET m == member[t][q]
        n == member'[t][q]
    IN  (IF ~m.inside /\ n.inside THEN {Event("queue_join", t, q, Depth(q, obs))} ELSE {})
        \cup (IF m.inside /\ ~n.inside THEN {Event("queue_leave", t, q, m.joins)} ELSE {})
    : t \in Track, q \in Queue})
  \cup (IF sampled THEN {Event("queue_depth", "none", q, Depth(q, obs)) : q \in Queue} ELSE {})

-----------------------------------------------------------------------------
(* Track history *)

\* update_frame: active when seen, lost with the first frame without it,
\* ended after the timeout; an ended track that is seen is active again.
TrackStep(h, t, obs, step) ==
  CASE obs[t] # Unseen -> [status |-> "active", lostFor |-> 0]
    [] obs[t] = Unseen /\ h.status = "active" -> [status |-> "lost", lostFor |-> 0]
    [] obs[t] = Unseen /\ h.status = "lost" ->
         IF h.lostFor + step > TrackTimeout THEN [status |-> "ended", lostFor |-> 0]
         ELSE [h EXCEPT !.lostFor = @ + step]
    [] OTHER -> h

-----------------------------------------------------------------------------
(* History of what the person did, independent of the detectors *)

NewWalk == [at |-> Nowhere, away |-> 0]

WalkStep(w, p) ==
  IF p = Unseen THEN [w EXCEPT !.away = Capped(@ + 1, Grace + 1)] ELSE [at |-> p, away |-> 0]

NewStay ==
  [side |-> 0, stay |-> 0, longest |-> Debounce, since |-> [d \in Directions |-> Cooldown]]

\* stay counts the frames on one side of the line, longest is the longest stay
\* since the last event, since is the time since the last real crossing.
StayStep(w, k, p, step, fired) ==
  LET side == Side(k, p)
      turned == side # 0 /\ w.side # 0 /\ side # w.side
      stay == IF side = 0 THEN w.stay
              ELSE IF side = w.side THEN Capped(w.stay + 1, Debounce) ELSE Capped(1, Debounce)
      aged == [d \in Directions |->
                 IF turned /\ d = (IF side = 1 THEN "entry" ELSE "exit") THEN 0
                 ELSE Capped(w.since[d] + step, Cooldown)]
  IN  IF p = Unseen
      THEN [w EXCEPT !.since = [d \in Directions |-> Capped(@[d] + step, Cooldown)]]
      ELSE [side |-> IF side = 0 THEN w.side ELSE side, stay |-> stay,
            longest |-> IF fired THEN stay ELSE Max({w.longest, stay}), since |-> aged]

-----------------------------------------------------------------------------

Init ==
  /\ line = [t \in Track |-> [k \in LineNo |-> NewLine]]
  /\ visit = [t \in Track |-> [z \in Zone |-> NoVisit]]
  /\ record = [t \in Track |-> [z \in Zone |-> [visits |-> 0, open |-> 0]]]
  /\ member = [t \in Track |-> [q \in Queue |-> [inside |-> FALSE, joins |-> 0]]]
  /\ track = [t \in Track |-> [status |-> "new", lostFor |-> 0]]
  /\ depthAge = DepthInterval
  /\ out = {}
  /\ walk = [t \in Track |-> NewWalk]
  /\ stays = [t \in Track |-> [k \in LineNo |-> NewStay]]

Frame ==
  \E obs \in Scene, step \in 1..MaxStep :
    /\ line' = [t \in Track |-> [k \in LineNo |->
                  LineStep(line[t][k], k, obs[t], step, Firing(t, k, obs, step))]]
    /\ visit' = [t \in Track |-> [z \in Zone |-> VisitStep(visit[t][z], t, z, obs, step)]]
    /\ record' = [t \in Track |-> [z \in Zone |->
                    RecordStep(record[t][z], visit[t][z], visit'[t][z])]]
    /\ member' = [t \in Track |-> [q \in Queue |-> MemberStep(member[t][q], t, q, obs)]]
    /\ \A t \in Track : /\ \A z \in Zone : record'[t][z].visits <= MaxVisits
                        /\ \A q \in Queue : member'[t][q].joins <= MaxVisits
    /\ track' = [t \in Track |-> TrackStep(track[t], t, obs, step)]
    /\ LET sampled == depthAge + step >= DepthInterval
       IN  /\ depthAge' = IF sampled THEN 0 ELSE depthAge + step
           /\ out' = LineEvents(obs, step) \cup ZoneEvents(obs, step) \cup QueueEvents(obs, sampled)
    /\ walk' = [t \in Track |-> WalkStep(walk[t], obs[t])]
    /\ stays' = [t \in Track |-> [k \in LineNo |->
                   StayStep(stays[t][k], k, obs[t], step, Firing(t, k, obs, step))]]

Next == Frame

Spec == Init /\ [][Next]_vars

-----------------------------------------------------------------------------
(* Properties *)

\* The directions of the events that line k reports of a track in this frame.
FiredNow(t, k) == {d \in Directions : \E e \in out' : e.track = t /\ e.type = d /\ e.where = k}

\* The length of the move from one position to another along the normal of
\* line k.
Stride(k, from, to) == Abs(Coord[k][to] - Coord[k][from])

\* A deliberate crossing is not missed: whoever has stayed on one side of a line
\* for the debounce time, crosses it in one stride, not by way of a frame on the
\* line, that is long enough for this line and for those before it in the
\* layout, and has not really crossed it in that direction within the cooldown,
\* fires the event of that direction.  The lines before it matter:
\* displacement_ok is set once per visitor (entry_exit.py:337), so that a stride
\* along a line hides the crossing of every line that comes after it.
DeliberateCrossingFires ==
  [][\A t \in Track, k \in LineNo :
       LET w == stays[t][k]
           from == walk[t].at
           to == walk'[t].at
       IN  /\ walk'[t].away = 0
           /\ from # Nowhere
           /\ Side(k, from) * Side(k, to) = -1
           /\ \A j \in 1..k : Stride(j, from, to) >= MinMove
           /\ w.stay >= Debounce
           /\ w.since[Toward(k, from, to)] >= Cooldown
           => FiredNow(t, k) = {Toward(k, from, to)}]_vars

\* Jitter on a line is one crossing: a track that has not stayed on one side of
\* a line for the debounce time since its last event there, as the person
\* really walked, fires no event of it.
JitterFiresOnce ==
  [][\A t \in Track, k \in LineNo :
       stays[t][k].longest < Debounce => FiredNow(t, k) = {}]_vars

\* A zone visit is open exactly while its track, where last seen, was inside,
\* and has been out of sight for no more than the grace: an occlusion that
\* ends in time is one visit, and no visit outlives its grace.  The history has
\* one open record for it and no other, over any number of visits; and a track
\* that has been ended has no visit left, if the timeout covers the grace also
\* over dropped frames.  The visit ends with frame Grace + 1 out of sight
\* (`missed > grace`, zones.py:476), where test_zones.py:80-102 expects the
\* exit with frame number Grace.
VisitIsPresence ==
  \A t \in Track, z \in Zone :
    /\ visit[t][z].open <=> walk[t].at \in Area[z] /\ walk[t].away <= Grace
    /\ record[t][z].open = IF visit[t][z].open THEN 1 ELSE 0
    /\ Grace * MaxStep <= TrackTimeout =>
         (track[t].status = "ended" => ~visit[t][z].open)

===============================================================================
