---------------------------- MODULE StoreQueries ----------------------------
(***************************************************************************)
(* What the read side of the API makes of the table raw_events: the        *)
(* aggregates of GET /stores/{id}/metrics, the signals of .../anomalies    *)
(* and the grid of .../heatmap (app/repositories.py, app/metrics.py,       *)
(* app/anomalies.py, app/heatmap.py, api/domain/heatmap.py).               *)
(*                                                                         *)
(* The table is a set of rows of one store.  A row has an id, type, time,  *)
(* zone, queue, depth (under either of its two names), dwell and whether   *)
(* it is about staff; Null stands for a key the payload does not have.     *)
(***************************************************************************)
EXTENDS Integers, FiniteSets, FiniteSetsExt, Sequences, SequencesExt

CONSTANTS
  Null,
  SamplesHigh, SamplesMedium,  \* samples for high and for medium confidence
  MinVisits,                   \* visits that make a zone active
  Unit,                        \* coordinates are counted in 1 / Unit
  Width, Height,               \* of the frame, in pixels
  Resolution                   \* cells along each side of the grid

ASSUME QueryAssumption ==
  /\ {SamplesHigh, SamplesMedium, MinVisits, Unit, Width, Height, Resolution} \subseteq Nat \ {0}
  /\ SamplesMedium <= SamplesHigh

----------------------------------------------------------------------------
(* Queries *)

Within(rows, from, to) == {r \in rows : from <= r.at /\ r.at <= to}

OfVisitors(rows) == {r \in rows : ~r.staff}

HasActivity(rows, from, to) == OfVisitors(Within(rows, from, to)) # {}

StaffEvents(rows, from, to) == Cardinality({r \in Within(rows, from, to) : r.staff})

ZoneDwell(rows, from, to) ==
  LET dwells == {r \in OfVisitors(Within(rows, from, to)) :
                   r.type \in {"zone_dwell", "dwell"} /\ r.zone # Null /\ r.dwell # Null}
  IN  [z \in {r.zone : r \in dwells} |->
         LET own == {r \in dwells : r.zone = z}
         IN  [samples |-> Cardinality(own), seconds |-> MapThenSumSet(LAMBDA r : r.dwell, own)]]

DepthOf(r) == IF r.depth # Null THEN r.depth ELSE IF r.queueDepth # Null THEN r.queueDepth ELSE 0

DepthRows(rows) == {r \in OfVisitors(rows) : r.type = "queue_depth" /\ r.queue # Null}

Reading(r) == [queue |-> r.queue, depth |-> DepthOf(r), at |-> r.at]

\* DISTINCT ON in ascending order.
OldestDepths(rows, to) ==
  LET known == {r \in DepthRows(rows) : r.at <= to}
  IN  {Reading(r) : r \in {s \in known : \A u \in known : u.queue = s.queue => u.at >= s.at}}

\* The newest depth of each queue, however old; of equally new ones, any.
LatestDepths(rows, to) ==
  LET known == {r \in DepthRows(rows) : r.at <= to}
  IN  {Reading(r) : r \in {s \in known : \A u \in known : u.queue = s.queue => u.at <= s.at}}

\* The order in time; equally old rows come in any order, here that of their ids.
Earlier(r, s) == r.at < s.at \/ (r.at = s.at /\ r.id < s.id)

DepthSamples(rows, from, to) ==
  LET known  == DepthRows(Within(rows, from, to))
      Nth(i) == CHOOSE r \in known : Cardinality({s \in known : Earlier(s, r)}) = i - 1
  IN  [i \in 1..Cardinality(known) |-> Reading(Nth(i))]

ZoneVisits(rows, from, to) ==
  LET visits == {r \in OfVisitors(Within(rows, from, to)) :
                   r.type \in {"zone_enter", "zone_dwell", "dwell"} /\ r.zone # Null}
  IN  [z \in {r.zone : r \in visits} |-> Cardinality({r \in visits : r.zone = z})]

----------------------------------------------------------------------------
(* Metrics *)

Confidence(count) ==
  CASE count >= SamplesHigh -> "high"
    [] count >= SamplesMedium /\ count < SamplesHigh -> "medium"
    [] count > 0 /\ count < SamplesMedium -> "low"
    [] count = 0 -> "unavailable"

NoMetrics == [empty |-> TRUE, zones |-> <<>>, queues |-> {}, staff |-> 0,
              zonesTrusted |-> "unavailable", queuesTrusted |-> "unavailable"]

SamplesOf(zones) == MapThenSumSet(LAMBDA z : zones[z].samples, DOMAIN zones)

QueueConfidence(queues) == Confidence(Cardinality({q.queue : q \in queues}))

StoreMetrics(rows, from, now) ==
  IF ~HasActivity(rows, from, now) THEN NoMetrics
  ELSE LET zones  == ZoneDwell(rows, from, now)
           queues == LatestDepths(rows, now)
       IN  [empty |-> FALSE, zones |-> zones, queues |-> queues, staff |-> StaffEvents(rows, from, now),
            zonesTrusted |-> Confidence(SamplesOf(zones)),
            queuesTrusted |-> QueueConfidence(queues)]

----------------------------------------------------------------------------
(* Anomalies *)

\* The depth a queue has now: its last sample of the current window.
Noted(latest, s) ==
  [q \in DOMAIN latest \cup {s.queue} |-> IF q = s.queue THEN s.depth ELSE latest[q]]

CurrentDepths(samples, currentFrom) ==
  FoldLeft(LAMBDA latest, s : IF s.at >= currentFrom THEN Noted(latest, s) ELSE latest, <<>>, samples)

DeadZones(now, before) ==
  {z \in DOMAIN before : before[z] >= MinVisits /\ (z \notin DOMAIN now \/ now[z] = 0)}

Signals(rows, baselineFrom, currentFrom, now) ==
  [depths |-> CurrentDepths(DepthSamples(rows, baselineFrom, now), currentFrom),
   dead   |-> DeadZones(ZoneVisits(rows, currentFrom, now), ZoneVisits(rows, baselineFrom, currentFrom))]

----------------------------------------------------------------------------
(* Heatmap.  A sample has a place: the cell_x and cell_y or normalized_x and
   normalized_y of the payload, or the bounding box, given by the sums of its
   opposite corners.  Coordinates that are both at most one are fractions of the
   frame, whatever they come from. *)

Placed(s) == s.place \in {"cell", "normalized", "bbox"}

Point(s) == IF s.place = "bbox" THEN [x |-> s.x \div 2, y |-> s.y \div 2] ELSE [x |-> s.x, y |-> s.y]

OnFrame(p) ==
  IF p.x \in 0..Unit /\ p.y \in 0..Unit THEN [x |-> p.x * Width, y |-> p.y * Height] ELSE p

Least(a, b) == IF a < b THEN a ELSE b

CellUnclamped(p) ==
  <<(p.x * Resolution) \div (Width * Unit), (p.y * Resolution) \div (Height * Unit)>>

NormalizeToCell(p) ==
  <<Least(Resolution - 1, CellUnclamped(p)[1]), Least(Resolution - 1, CellUnclamped(p)[2])>>

\* Python's round of 100 * visits / peak: a half goes to the even neighbour.
Share(visits, peak) ==
  LET up == (200 * visits + peak) \div (2 * peak)
  IN  IF (200 * visits + peak) % (2 * peak) = 0 /\ up % 2 = 1 THEN up - 1 ELSE up

\* The dwell of the samples with these indices.
DwellOf(samples, indices) == MapThenSumSet(LAMBDA i : samples[i].dwell, indices)

Heatmap(samples) ==
  LET placed    == {i \in DOMAIN samples : Placed(samples[i])}
      CellOf(i) == NormalizeToCell(OnFrame(Point(samples[i])))
      In(c)     == {i \in placed : CellOf(i) = c}
      cells     == {CellOf(i) : i \in placed}
      peak      == Max({Cardinality(In(c)) : c \in cells} \cup {0})
  IN  [cells |-> [c \in cells |->
                    [visits |-> Cardinality(In(c)), share |-> Share(Cardinality(In(c)), peak),
                     dwell |-> DwellOf(samples, In(c))]],
       trusted |-> Confidence(Cardinality(placed))]
=============================================================================
