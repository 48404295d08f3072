-------------------------------- MODULE Freshness --------------------------------
(***************************************************************************)
(* Is every camera still reporting?  GET /health (app/health.py) and the   *)
(* stale-feed detector of GET /stores/{id}/anomalies (app/anomalies.py)    *)
(* answer from the newest rows, each query seeing what is committed when   *)
(* it runs, while batches arrive, late, replayed or dated ahead, workers   *)
(* restart and the database fails.                                         *)
(*                                                                         *)
(* Time is counted in one unit for minutes and seconds.  Rows appear only  *)
(* as the maxima that the queries ask for.                                 *)
(***************************************************************************)
EXTENDS Naturals, FiniteSets, FiniteSetsExt, Sequences, SequencesExt

CONSTANTS
  Camera, Store,
  StoreOf,       \* the store of each camera
  StaleWarn,     \* HealthThresholds.stale_feed_minutes_warn
  StaleDown,     \* HealthThresholds.stale_feed_minutes_critical
  LagWarn,       \* ingestion_lag_warn_seconds
  LagDown,       \* ingestion_lag_critical_seconds
  FeedWarn,      \* AnomalyThresholds.stale_feed_minutes_warn
  FeedCritical,  \* AnomalyThresholds.stale_feed_minutes_critical
  Limit,         \* limit of the anomalies
  Others,        \* severities of anomalies of other kinds, as detected
  Skew,          \* how far the clock of a camera may be ahead
  MaxTime        \* bound on the clock

\* No time: nothing has been recorded.
None == 1000000

Rank == [CRITICAL |-> 0, WARN |-> 1, INFO |-> 2]

\* The clock does not reach the number that stands for no time.
ASSUME ThresholdAssumption ==
  /\ IsFiniteSet(Camera) /\ StoreOf \in [Camera -> Store]
  /\ {StaleWarn, StaleDown, LagWarn, LagDown, FeedWarn, FeedCritical, Limit} \subseteq Nat \ {0}
  /\ Others \subseteq Seq(DOMAIN Rank)
  /\ Skew \in Nat /\ MaxTime \in Nat /\ MaxTime + Skew < None

VARIABLES
  now,
  newest,    \* newest occurred_at of each camera
  ingested,  \* newest ingested_at of each store
  batch,     \* newest received_at of ingest_batches
  watermark, \* AppState.pipeline_last_event_at
  dbUp,
  gate,      \* AppState.db_available
  health,    \* a request for /health
  detect,    \* a request for the anomalies of a store
  heard      \* history: when each camera was last heard from

rows == <<newest, ingested, batch, heard>>

vars == <<now, rows, watermark, dbUp, gate, health, detect>>

Latest(times) == IF times \subseteq {None} THEN None ELSE Max(times \ {None})

Since(at, past) == IF past = None THEN None ELSE IF at > past THEN at - past ELSE 0

Cameras(s) == {c \in Camera : StoreOf[c] = s}

-----------------------------------------------------------------------------
(* Classification *)

\* _check_status_from_minutes; stale is degraded or down.
FeedStatus(age) ==
  CASE age = None -> "unknown"
    [] age # None /\ age >= StaleDown -> "down"
    [] age # None /\ age < StaleDown /\ age >= StaleWarn -> "degraded"
    [] OTHER -> "ok"

Bad == {"down", "degraded"}

\* _ingestion_status_from_lag.
LagStatus(lag) ==
  CASE lag = None -> "unknown"
    [] lag # None /\ lag >= LagDown -> "down"
    [] lag # None /\ lag < LagDown /\ lag >= LagWarn -> "degraded"
    [] OTHER -> "ok"

\* Mutant of StaleCameras: only the store as a whole is looked at.
NoStaleCameras(at, cams) == {}

StaleCameras(at, cams) ==
  {c \in Camera : cams[c] # None /\ FeedStatus(Since(at, cams[c])) \in Bad}

\* build_store_health.
StoreStatus(s, at, latest, stored, cams) ==
  LET feed == FeedStatus(Since(at, latest))
      lag == LagStatus(Since(at, stored))
  IN  IF "down" \in {feed, lag} THEN "down"
      ELSE IF "degraded" \in {feed, lag} \/ StaleCameras(at, cams) \cap Cameras(s) # {}
      THEN "degraded"
      ELSE IF feed = "unknown" /\ \A c \in Cameras(s) : cams[c] = None THEN "unknown"
      ELSE "ok"

\* compute_overall_status with the database up: a stale feed and an ingestion
\* that is not ok are the degraded features.
OverallStatus(feed, lag, statuses) ==
  IF feed \in Bad \/ lag # "ok" \/ statuses \cap Bad # {} THEN "degraded" ELSE "ok"

Overall(h, cams) ==
  LET global == FeedStatus(Since(h.at, Latest({h.latest, h.watermark})))
      lags == {Since(h.at, h.ingested), Since(h.at, h.batch)}
  IN  OverallStatus(global, LagStatus(Latest(lags)),
        {StoreStatus(s, h.at, h.stores[s].latest, h.stores[s].ingested, cams) : s \in Store})

-----------------------------------------------------------------------------
(* The world *)

IdleHealth ==
  [pc |-> "idle", at |-> 0, known |-> {}, watermark |-> None, latest |-> None,
   ingested |-> None, batch |-> None,
   stores |-> [s \in Store |-> [latest |-> None, ingested |-> None]], answer |-> "none"]

IdleDetect ==
  [pc |-> "idle", store |-> "none", at |-> 0, others |-> <<>>,
   feeds |-> [c \in Camera |-> None], items |-> <<>>]

\* A batch with an event of a camera, taken by this worker, which keeps a
\* watermark and refuses batches while its gate is closed, or by another.
Ingest(c, at) ==
  /\ dbUp
  /\ at <= now + Skew
  /\ newest' = [newest EXCEPT ![c] = Latest({@, at})]
  /\ ingested' = [ingested EXCEPT ![StoreOf[c]] = now]
  /\ batch' = now
  /\ \/ gate /\ watermark' = Latest({watermark, at})
     \/ UNCHANGED watermark
  /\ heard' = [heard EXCEPT ![c] = now]
  /\ UNCHANGED <<now, dbUp, gate, health, detect>>

\* A batch of duplicates only adds its own row.
IngestDuplicates ==
  /\ dbUp
  /\ batch' = now
  /\ UNCHANGED <<now, newest, ingested, watermark, dbUp, gate, health, detect, heard>>

\* The worker starts anew and probes the database.
Restart ==
  /\ watermark' = None
  /\ gate' = dbUp
  /\ health' = IdleHealth
  /\ detect' = IdleDetect
  /\ UNCHANGED <<now, rows, dbUp>>

DbChange ==
  /\ dbUp' = ~dbUp
  /\ UNCHANGED <<now, rows, watermark, gate, health, detect>>

Tick ==
  /\ now < MaxTime
  /\ now' = now + 1
  /\ UNCHANGED <<rows, watermark, dbUp, gate, health, detect>>

-----------------------------------------------------------------------------
(* GET /health: HealthChecker.check, one query at a time *)

Known == {c \in Camera : newest[c] # None}

\* Requests only read, so that one at a time is enough.
Free == health.pc \in {"idle", "answered"} /\ detect.pc \in {"idle", "answered"}

HealthBegins ==
  /\ Free
  /\ health' = [IdleHealth EXCEPT !.pc = "probe", !.at = now, !.known = Known,
                                  !.watermark = watermark]
  /\ detect' = IdleDetect
  /\ UNCHANGED <<now, rows, watermark, dbUp, gate>>

HealthProbe ==
  /\ health.pc = "probe"
  /\ health' = IF dbUp THEN [health EXCEPT !.pc = "occurred"]
               ELSE [IdleHealth EXCEPT !.pc = "answered", !.answer = "down"]
  /\ gate' = dbUp
  /\ UNCHANGED <<now, rows, watermark, dbUp, detect>>

\* A query of a request; when the database is gone the request fails.
Query(from, h) ==
  /\ health.pc = from
  /\ health' = IF dbUp THEN h ELSE [IdleHealth EXCEPT !.pc = "answered", !.answer = "error"]
  /\ UNCHANGED <<now, rows, watermark, dbUp, gate, detect>>

ReadOccurred ==
  Query("occurred", [health EXCEPT !.pc = "ingested",
                                   !.latest = Latest({newest[c] : c \in Camera})])

ReadIngested ==
  Query("ingested", [health EXCEPT !.pc = "batch",
                                   !.ingested = Latest({ingested[s] : s \in Store})])

ReadBatch == Query("batch", [health EXCEPT !.pc = "stores", !.batch = batch])

ReadStores ==
  Query("stores", [health EXCEPT !.pc = "cameras",
                     !.stores = [s \in Store |-> [latest |-> Latest({newest[c] : c \in Cameras(s)}),
                                                  ingested |-> ingested[s]]]])

ReadCameras ==
  Query("cameras", [IdleHealth EXCEPT !.pc = "answered", !.at = health.at, !.known = health.known,
                                      !.answer = Overall(health, newest)])

-----------------------------------------------------------------------------
(* GET /stores/{id}/anomalies: the end of AnomalyDetectionEngine.detect *)

Severity(age) == IF age >= FeedCritical THEN "CRITICAL" ELSE "WARN"

\* Mutant of StaleFeeds: a store that has events is not looked into.
StaleFeedsOfStore(d, last) ==
  LET age == Since(d.at, last)
  IN  IF last # None
      THEN IF age >= FeedWarn THEN {[about |-> "store", severity |-> Severity(age)]} ELSE {}
      ELSE {[about |-> "store", severity |-> "CRITICAL"]}

\* detect_stale_feeds: the store first, then each of its cameras.
StaleFeeds(d, last) ==
  LET age == Since(d.at, last)
      seen == {c \in Cameras(d.store) : d.feeds[c] # None}
  IN  IF last # None /\ age >= FeedWarn
      THEN {[about |-> "store", severity |-> Severity(age)]}
      ELSE IF seen = {} THEN {[about |-> "store", severity |-> "CRITICAL"]}
      ELSE {[about |-> c, severity |-> Severity(Since(d.at, d.feeds[c]))] :
              c \in {x \in seen : Since(d.at, d.feeds[x]) >= FeedWarn}}

\* sorted() of to_api_items: the places of the items, in the order of the answer.
\* Items of one severity stay as they came.
BySeverity(items) ==
  {p \in SetToSeqs(DOMAIN items) :
     \A i, j \in DOMAIN p : i < j =>
       LET a == Rank[items[p[i]].severity]
           b == Rank[items[p[j]].severity]
       IN  a < b \/ (a = b /\ p[i] < p[j])}

\* to_api_items(...)[:limit]
MostSevere(items) ==
  {[i \in 1..Min({Limit, Len(p)}) |-> items[p[i]]] : p \in BySeverity(items)}

\* While the gate is closed the answer is empty, as if all were well.
DetectNothing(s) ==
  /\ Free
  /\ ~gate
  /\ health' = IdleHealth
  /\ detect' = [IdleDetect EXCEPT !.pc = "answered", !.store = s, !.at = now]
  /\ UNCHANGED <<now, rows, watermark, dbUp, gate>>

\* The other detectors have run; fetch_latest_event_per_camera.
ReadFeeds(s, others) ==
  /\ Free
  /\ gate /\ dbUp
  /\ health' = IdleHealth
  /\ detect' = [IdleDetect EXCEPT !.pc = "last", !.store = s, !.at = now, !.others = others,
                                  !.feeds = [c \in Camera |-> IF StoreOf[c] = s THEN newest[c] ELSE None]]
  /\ UNCHANGED <<now, rows, watermark, dbUp, gate>>

\* fetch_latest_store_event and the answer; camera rows come in any order.
ReadLast ==
  /\ detect.pc = "last"
  /\ IF dbUp
     THEN LET stale == StaleFeeds(detect, Latest({newest[c] : c \in Cameras(detect.store)}))
              others == [i \in DOMAIN detect.others |->
                           [about |-> "other", severity |-> detect.others[i]]]
          IN  \E order \in SetToSeqs(stale) : \E items \in MostSevere(others \o order) :
                detect' = [detect EXCEPT !.pc = "answered", !.items = items]
     ELSE detect' = IdleDetect
  /\ UNCHANGED <<now, rows, watermark, dbUp, gate, health>>

-----------------------------------------------------------------------------

Init ==
  /\ now = 0
  /\ newest = [c \in Camera |-> None]
  /\ ingested = [s \in Store |-> None]
  /\ batch = None
  /\ watermark = None
  /\ dbUp = TRUE
  /\ gate = TRUE
  /\ health = IdleHealth
  /\ detect = IdleDetect
  /\ heard = [c \in Camera |-> None]

Next ==
  \/ \E c \in Camera, at \in 0..(MaxTime + Skew) : Ingest(c, at)
  \/ IngestDuplicates \/ Restart \/ DbChange \/ Tick
  \/ HealthBegins \/ HealthProbe \/ ReadOccurred \/ ReadIngested \/ ReadBatch \/ ReadStores \/ ReadCameras
  \/ \E s \in Store : DetectNothing(s) \/ \E others \in Others : ReadFeeds(s, others)
  \/ ReadLast

Spec == Init /\ [][Next]_vars

-----------------------------------------------------------------------------
(* Properties *)

\* /health never says ok when a camera has stopped (DESIGN.md:308): each camera
\* that was known when the request began has been heard from within the warning
\* time, or, if its clock is ahead, within that much more.
OkMeansHeard ==
  health.pc = "answered" /\ health.answer = "ok" =>
    \A c \in health.known : Since(health.at, heard[c]) < StaleWarn + Skew

\* A camera that is silent for longer than the threshold is in the answer about
\* its store, itself or as part of a silent store; if it is not, the limit has
\* cut it off behind others that are no mere information.  (They need not be as
\* severe as the camera: a store that is silent, WARN, hides a camera that has
\* been silent for a CRITICAL time.)
StaleIsReported ==
  detect.pc = "answered" =>
    \A c \in Cameras(detect.store) :
      LET age == Since(detect.at, detect.feeds[c])
      IN  detect.feeds[c] # None /\ age >= FeedWarn =>
            \/ \E i \in DOMAIN detect.items : detect.items[i].about \in {c, "store"}
            \/ /\ Len(detect.items) = Limit
               /\ \A i \in DOMAIN detect.items :
                    Rank[detect.items[i].severity] <= Rank["WARN"]
===============================================================================
