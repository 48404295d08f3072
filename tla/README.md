# A formal model of Work-up

Work-up watches stores with cameras. An edge pipeline turns video into visitor
events, an HTTP service stores them in PostgreSQL, and analytics read them
back; a separate desktop program watches shelves. This directory holds TLA+
models of the system, the TLC configurations that check them, and TLAPS proofs
of what matters most. `PROJECT.json` ties every definition to the source lines
it stands for, every property to a bug that would break it, and every hazard of
the code to the properties about it.

## 1. Inventory

| Component | State | Operations | Hard behaviours | What makes it correct | Modules |
|---|---|---|---|---|---|
| Ingestion (`app/ingestion.py`, `app/repositories.py`) | tables `raw_events`, `ingest_batches` | `POST /events/ingest` | concurrent requests, stale SELECT, lock waits, deadlock, lost commit answer | a batch is stored whole or not at all; an event is stored and counted once; 200 means stored | `Ingestion`, `EventStore` |
| Process state (`app/state.py`, `app/main.py`) | `AppState` per worker | start, `/health`, watermark | stale probes, restart, outage | the ingest gate reopens; the watermark never lies | `Ingestion` |
| Replay client (`ingest/`) | position, attempt | `post_batch`, `replay_file` | timeout beside a running request, lost answer, retry | what it has passed is stored; it gets through in the end | `Delivery`, `EventLog` |
| Visitor sessions (`pipeline/session.py`) | active, completed ring, track mapping | ENTRY, REENTRY, EXIT, ZONE_*, timeout, close all | track reuse, timeouts between events | one visitor per number; events reach the visitor on the track | `SessionEngine`, `VisitorPipeline` |
| Re-ID (`pipeline/reid.py`) | gallery of exited visitors | register, match, prune, remove | expiry, overflow, wrong matches | nobody re-enters twice from one exit or after the window | `VisitorPipeline`, `Visits` |
| Pipeline loop (`pipeline/orchestrator.py`, `utils.py`) | none of its own | one frame | order inside a frame; dropped frames | emitted events name the right visitor | `VisitorPipeline`, `VideoTracking` |
| Detectors (`pipeline/entry_exit.py`, `zones.py`, `queue_tracking.py`) | per-track automata | `process_frame` | debounce, cooldown, occlusion | one event per physical crossing or visit | `Detectors`, `LineGeometry` |
| Tracks and runners (`track_state.py`, `tracker.py`, `detect.py`) | track records | `update`, `run_video`, `run_all` | lost, recovered, ended; videos that fail | the life of a track; one bad video costs only itself | `Detectors`, `VideoTracking` |
| Emitter (`pipeline/emit.py`) | dedup window, buffer, log files | `emit`, `flush` | bounded window, death before or in a flush | an event is logged once, in order, and can be replayed | `EventLog` |
| Event schemas (`schemas/`) | none | conversions | types without a counterpart | conversions stop changing an event | `ChallengeFormat` |
| Metrics, POS, funnel (`app/metrics.py`, `pos.py`, `funnel.py`) | folds over rows | reads | re-entries, missing and repeated rows | nobody counted twice; the answers agree | `StoreAnalytics`, `StoreQueries` |
| Health, anomalies, heatmap (`app/health.py`, `anomalies.py`, `heatmap.py`) | none | reads | queries of different moments, limits, few samples | a silent camera and a long queue are noticed | `Freshness`, `AnomalyRules`, `StoreQueries` |
| Operations loop (`services/`) | tasks | one cycle | five actions per cycle; what is never verified | the most urgent incidents are acted on | `Operations` |
| Shelf consensus and alerts (`edge/inventory/...`) | counters per cell, alerts in Redis | analyse, poll, confirm, dismiss | three threads on non-atomic Redis commands | an alert is confirmed, open once, shown | `CellConsensus`, `ShelfAlerts` |
| Shelf vision (same) | SORT trackers, frame index | naming, rows, alignment, tracking, streaming | gaps, poor overlaps, failing keyframes | a gap shifts nobody; ids are unique; what is shown is what was seen | `ShelfGrid`, `ShelfTracker` |
| Challenge batch (`scripts/process_challenge_validation.py`, `.ps1`) | output files, markers | run, `--only`, `--fresh`, `--ingest-only` | kills between file, marker and post | a marked camera is whole; a video is stored once | `ChallengeBatch`, `ChallengeScript` |
| Alternate `api/`, dashboard, simulation, other scripts | | | presentation, or not deployed | | not modelled |

Interaction: detectors feed sessions and Re-ID inside one thread, whose events
the emitter logs; the replay client (or the challenge driver) posts the log to
ingestion; ingestion fills `raw_events`; metrics, funnel, anomalies and health
read it; `/health` probes maintain the flag that gates ingestion. The shelf
program has its own Redis and shares nothing with the rest.

## 2. Modules

### Ingestion (`Ingestion`, abstract: `EventStore`)

`rows` and `ledger` are the committed tables. `hs[h]` is one in-flight request:
its program counter names the await it stands at, and one action is the code
from one await to the next, because a coroutine runs alone in between.

| Source | Action |
|---|---|
| gate, validation and batch-size limit (`ingestion.py:111-136`, `schemas/api.py:25-41`) | `Receive` (`RefuseSize`, `Gate`) |
| `find_existing_ids`, partition | `FindExisting`, `FindFails` |
| `insert_events`, one row of the statement at a time | `InsertRow` |
| counting concurrent duplicates, `record_ingest_batch` | `RecordBatch` |
| `commit()` at the server / its return | `Commit` / `Finish` |
| the `except` clause | `Fail` |
| lifespan, death of a worker | `Start`, `Crash` |
| `/health` | `HealthRequest`, `HealthProbe`, `HealthMark` |

PostgreSQL is external and modelled as the code uses it, at READ COMMITTED: an
uncommitted row is invisible but holds its key; a second insert of the key
waits (`WaitsFor`); a cycle of waits costs one member its transaction
(`DeadlockAbort`); a lost connection discards what is not committed
(`LoseConnection`, `DbDown`). `LoseConnection` may strike between the commit at
the server and its return to the handler, which then sees only an exception.
An INSERT takes its keys in list order, one step per row: that is where two
requests deadlock. Which field of an event is wrong is one value `Malformed`.

### Delivery (EXTENDS `Ingestion`)

A client record holds the batch it is at, the attempt, and the handler whose
answer it waits for. `Timeout` only changes the client: the request keeps
running beside its own retry. `ServiceFault` wraps and counts the faults of
`Ingestion`; a crash resets the connections of the clients that wait on that
process. `Rerun` is the operator starting a replay again after it gave up.

### VisitorPipeline (EXTENDS `SessionEngine`; abstract: `Visits`)

The pipeline is one thread, so one action is the whole treatment of one event:
`process_event` (first the timeouts, `CleanedUp`, then the handler), the
gallery, the enrichment and the emission.

| Source | Definition |
|---|---|
| ENTRY, not recognised / recognised (`orchestrator.py:193-227`) | `NewEntry` / `Reentry` |
| EXIT, `on_visitor_exit` | `Exit` |
| ZONE_ENTER, ZONE_EXIT, ZONE_DWELL, queue events | `ZoneEnter`, `ZoneExit`, `ZoneDwell`, `QueueEvent` |
| `VideoReader.frames`, with dropped frames; end of the loop | `NextFrame`; `EndOfVideo` |

The detectors are an environment here, bound by their order in the frame and
by what they report at most once in a frame. A track may enter twice without
an exit, since the line detector drops an exit that is too slow or not armed.
Similarity is arbitrary: any visitor in the window may be the match. Time is
the frame index; a visitor is numbered in the order of creation. `Visits` also
promises that what is told about one stay does not contradict itself (`told`).

### Detectors, LineGeometry

One action, `Frame`, is a frame that reaches the detectors: each track stands
at a position of its route or is out of sight, and the frame index may jump.
Line state, zone visit, queue membership and track record follow it as in the
three engines and the history store; `out` holds the events. A centroid is known
by its coordinate along the inward normal of each line of the layout, and the
lines are worked off in order, because a move too short for one hides the
crossings of those after it (`FarEnough`). `walk` and `stays` record what the
person really did and are only read by the properties. `LineGeometry` is what
that coordinate stands for: the sides and the direction of a move on a plane.

### EventLog

One run of the pipeline emits the numbered events of a video (`EmitNext`, or
`EmitAgain` for a repetition) into the window and the buffer; `Flush` appends
a batch to the file of its first event's day; `Die` ends the process, perhaps
in the middle of a line; `RunAgain` processes the video once more. The two
readers take a whole file at once (`LoadFile`) or line by line (`OpenFile`),
and `Replay` posts batches, which the API dedups by event id.

### StoreAnalytics, StoreQueries, Freshness, AnomalyRules

`StoreAnalytics` reads rows one at a time: a state is what a request whose
window ends there would answer. `visit` is the fold of the metrics, `funnel`
the sessions of the funnel, `billing` and `sales` the two sides of the match;
`past` is the history the properties compare with. `StoreQueries` has the
aggregates of metrics, anomalies and heatmap over one table as operators.
`Freshness` runs `/health` and the stale-feed detector one query at a time
between batches, restarts and outages. `AnomalyRules` has the z-score rule in
integers.

### CellConsensus, ShelfAlerts, ShelfGrid, ShelfTracker

`CellConsensus` has the counters of one cell as operators. `ShelfAlerts` runs
three threads on Redis, one action per command.

| Source | Action |
|---|---|
| a frame: consensus of its cells, generate or clear (`manager.py`) | `Analyze`, `AnalyzeWithoutPlanogram` |
| `generate_alert`: find the cell's alert, change it, write it back | `ReadKey`, `ReadAlert`, `WriteBack` |
| a new alert: record, active set, cell key | `CreateAlert`, `ListAlert`, `IndexCell` |
| confirm, dismiss, clear | `ReadForDecision`, `WriteDecision`, `Unlist`, `Unkey` |
| poll thread: list, read, signal | `PollStart`, `PollRead`, `PollEmit` |
| window: show, click; stop and start | `ShowAlert`, `Click`; `Restart` |
| a command that raises | `LookupFails`, `CommandFails`, `PollFails` |

`ShelfGrid` takes detections to cell states: names, rows, alignment by longest
blocks as `difflib` does. `ShelfTracker` has SORT's matching and ageing (the
trackers are a function from id to age), with the overlap of predictions and detections as an input, and the stream of frames
(`Stream`): every `KeyInterval`-th goes to the detector and may fail there, the
others show predictions (`stream_processing.py:97-152`, `inference_thread.py`).

### ChallengeBatch, ChallengeScript, ChallengeFormat, Operations, VideoTracking

`ChallengeBatch` is one driver process and its pipeline: per camera `Skip` or
`RunVideo`, `Flush`, `PipelineEnds`, `Mark`; then `Merge` and `Ingest` per
store; `RemoveFile` and `RemoveMarker` with `--fresh`. `ChallengeScript` starts
it camera by camera as the PowerShell script does. `ChallengeFormat` has the
two conversions and the export from the table; `Operations` cycles from
prediction to tasks and their verification (`Cycle`, `orchestrator.py:88-148`);
`VideoTracking` the reader, the track registry and the runners.

`MC*` modules give instances for TLC; `MCAlgorithms` calls the pure operators
with every input of a small set and states what each is for. A state of its
specification `CallSpec` is one call: the program is at rest, or an algorithm has
been given one input.

## 3. Runs

| Run | Instance | What it shows |
|---|---|---|
| `Ingestion` | two workers, two events, two batch ids | every row is counted once, 200 means stored, the watermark is the time of an event of a committed request whose id is stored, and the whole implements `EventStore`, under all interleavings with deadlocks, lost connections, outages and crashes |
| `DeliveryLive` | two clients with crossed files, one fault, a health probe | what a client has passed is stored; when faults end every file arrives |
| `Pipeline` | two tracks, three visitors, one zone, five frames, one dropped | events reach the visitor on the track, numbers identify visitors, open visits belong to somebody inside, `Visits` is implemented |
| `Detectors` | a person about two doors, a second one who joins in a group | a deliberate crossing fires, jitter fires once, a zone visit is presence with a grace |
| `EventLog` | five events over midnight, two runs, two repetitions, a death at any point | the log follows the emission, a duplicate is at least a window apart, run again and replay restores every event |
| `StoreAnalytics` | one visitor, six instants, one sale | a return within the window is one visit, metrics and funnel agree, a resumed session keeps its stages, conversions have a sale after a sighting |
| `Freshness` | a store of two cameras, a clock that may run ahead | `ok` means every known camera was heard of; the anomalies list a silent camera or were cut at the limit |
| `ShelfAlerts` | one cell, two alerts, one click, one failing command | listed alerts are open, one open alert per cell, no alert without confirmation, every alert is shown |
| `ChallengeBatch` | three cameras in two stores, two faults, one `--fresh` | a marked camera's file is whole, the service has rows of one pipeline per camera unless the camera was merged incomplete or deleted, no event twice but returns, and every camera gets there |
| `Algorithms` | eleven algorithms, every input of a small set | see below |
| `LogFormat` (violation) | `EventLog` with the format the emitter defaults to | an intact log cannot be replayed |
| `ChallengeScript` (violation) | the per-camera script | the script never gets past its first camera |

The properties of `Algorithms`: a gap or an item of the wrong kind does not shift the states of its row
(`GapsDoNotShift`); a queue that grows after a steady past is listed for its length before there is
a baseline, and with one exactly if it is long or there are enough samples for
the jump to show (`SpikeIsSeen`, see section 5); of a cycle's incidents a congested queue is acted on
and an incident that lasts gets new tasks beside its open ones
(`CongestionIsActedOn`); an event that has been through the export once is not
changed by it again, and the export from the table writes the pipeline's own
rows (`ExportIsStable`); every frame read is shown or dropped and
a pass ends where it should (`FramesAccountedFor`); a track is active, lost or
ended by when it was last seen (`TracksFollowSightings`); one bad video costs
only itself, and every stage of the batch counts, once, all that the others show
(`VideosFailAlone`); metrics and anomalies agree on a table
(`QueriesAgree`); the heatmap loses no sample and stays on its grid
(`HeatmapAddsUp`); ids of trackers are unique, every detection takes over a tracker that
overlaps it enough or starts one, and between keyframes the latest boxes are shown for `MaxAge` predictions
(`DetectionsAreTracked`); a crossing is reported exactly when the side changes
(`CrossingIsSideChange`).

**Bounds.** Each is the smallest with which the case in question happens.
*Ingestion, delivery*: two handlers give every pairwise race and a deadlock; a
longer cycle of waits has no other effect on any handler. Two events give the
crossed orders; requests also hold a repeated id, a malformed item and a list
above the limit. `MaxAttempts = 2` (3 in the code) lets a replay give up; one
fault together with the deadlock the crossed files bring is enough for a retry
beside its own request. *Pipeline*: every store is as small as it can be so
that it overflows (one mapping, a gallery of one, a ring of two), and timeout
and window are one frame, so that five frames hold several timeouts, returns
and expiries; staff areas hold everybody or nobody. *Detectors*: debounce 2,
cooldown 4, grace 1 with steps of up to two frames cover "within" and "just
outside" of each; of two lines the second is the one that another can hide, and
`Scene` keeps the second person to the first door; ages stop at the bound they are compared with, so that the
walk has no end. *EventLog*: a window of two ids and batches of two make ids
be forgotten and batches span midnight. *StoreAnalytics*: rows of one visitor
touch nobody else's fold, and a sale meets each visitor alone. *Freshness*:
thresholds of one and two units separate ok, warning and critical. *ShelfAlerts*:
two frames confirm, one clears, a history of three; two alerts on one cell are
what the cell index can confuse. *ChallengeBatch*: one store with two cameras,
one with one; a video of two events, of which the second is a return, can be cut
between them, and a run of it has one id that another run has as well and one
that it has not. `Pipeline` runs
with `CHECK_DEADLOCK FALSE` because a video ends, `ChallengeScript` because a
script does; every other run checks deadlock. Batch ids are symmetric in
`Ingestion` and tracks in `Pipeline`, where they are only compared; the runs
with liveness use no symmetry.

**Fairness.** *DeliveryLive*: weak fairness on every handler step (the event
loop resumes a coroutine whose await is over), strong on the two lock-taking
steps (PostgreSQL grants a released lock to its waiters in turn), weak on
deadlock detection, on restart (`restart: unless-stopped`), on health requests
(the compose healthcheck calls `/health` every 15 s), on the clients' own
steps and the operator's rerun; strong on posting, which other clients may
disable now and then. It also assumes timing: `LocksHandedOver` says a retry,
which waits at least half a second, is sent only after PostgreSQL has served
the lock waiters. Without it two clients can take turns as deadlock victims
for ever, so eventual delivery does depend on it. *ShelfAlerts*: the three
threads and the delivery of a Qt signal go on; frames, clicks and failures
come or do not. *ChallengeBatch*: a started driver goes on, and a driver for
all cameras is started again whenever one has stopped (strong: it can be
started only while none runs). Faults have no fairness and are bounded.

## 4. Proofs

All are for every value of the constants, under the assumptions named in the
modules. Beside types and bounds these are: requests are sequences of events
and files are made of requests (Ingestion, Delivery); cameras, cells and
visitors are finite sets; a position is none of the two sentinels and has a
whole number as its coordinate for each line (Detectors); the days of a video do not go back (EventLog); times stay below
the sentinel for "no row" (Freshness). One theorem has a hypothesis of its own:
`ConfirmedTheorem` asks for `MaxHistory >= NConfirm` (10 and 3 in the code).

**Ingestion** (`ServiceProofs`). `Invariance` is `Spec => []IInv`; from it
`TypeCorrect`, `KeysStayExclusive`, `EveryRowCountedOnce`,
`AcknowledgedIsStored`, `WatermarkIsBacked`, `WatermarkNeverRecedes` and
`Refinement` (it implements `EventStore`). `AckedStored` is not inductive: a
handler is about to answer 200 because of what it read several awaits ago.
`IInv` therefore says, at each await, what is still true of what was read
before (`Covered`): each valid event of the request is stored, or held
uncommitted by this handler, or still on its list. Stale answers of the SELECT
are harmless because rows are never removed. `KeysExclusive` and
`BatchKeysExclusive` carry the locks: no two open transactions hold one key,
so a commit cannot meet a row it did not see. `WatermarkBacked` needs a history, `heard`, of the valid events of committed
requests, since a handler forgets its request. `IInv` splits into `StoreInv`
(tables and handlers) and `AppInv` (processes and probes); most actions only
release something, which one lemma (`ReleaseStep`) covers.

**Delivery** (`ServiceProofs`). `DeliveryRefinesService` shows that every
behaviour with clients is one of `Ingestion`, so that all of the above holds.
`ReplayedIsStored` and, under the fairness of the liveness run,
`PatientReplayedIsStored` show `PassedIsStored`. `DInv` adds to `IInv` that
the handler a client waits for works on the batch that the client posted
(`Served`) and serves no other (`HandlersApart`): only then is the 200 that
moves a client on worth what `AckedStored` says.

**Pipeline** (`PipelineProofs`). `MappingsTheorem`, `IdentityTheorem`,
`InsideTheorem` and `VisitsTheorem`, the refinement of `Visits`. The invariant
has three parts. The engine is in order (`EngineInv`): mapped tracks lead to
active sessions on those tracks (`OnTrack`), every number in use has been
given out (`Issued`), and two sessions with one number, active or in the ring,
are of one visitor (`OneVisitor`). The bounded ring endangers the last: a
visitor who returns after the ring has forgotten the sessions gets a new
number, which nobody else may have. Nobody in the gallery is active
(`GalleryInv`), so that a return uses one exit up. And open visits are of
tracks that the zone engine has in the zone (`OpenInside`). Under the refinement
mapping `NewEntry` is `Arrive`, `Reentry` is `Return`, `NextFrame` is `Tick`,
and whatever ends sessions is `Leave` or a stutter; each handler that emits also
satisfies the action property of `Visits` on what is told of one stay.

**Event log** (`EventLogProofs`). `LogTheorem`, `DuplicatesTheorem` and
`RestoreTheorem`. None is inductive by itself. `WindowInv` says that the window
holds the last `MaxKeys` events accepted and that copies of one event are
further apart than that; among the nearest copies all events in between differ,
so that counting them gives the distance. `LogInv` says that the lines
of a run in the files, read day by day, followed by the buffer are what the run
accepted; this needs that no file holds a line of a day after that of the
buffer's first event, since a batch that spans midnight goes to the file of its
first event's day. `EmittedInv` says where each event of the video is, and
`ReplayedInv` what a reader has stored of the lines it has passed, also while it
holds a batch back. The lemmas on `FlattenSeq` (`FlattenIs`, `PutsRead`) turn an
append to one file into an append to the whole log.

**Detectors** (`DetectorsProofs`). `PresenceTheorem`, `JitterTheorem` and
`DeliberateTheorem`, the last two on steps. The invariant relates each engine to
the walk itself: `LineFollows` says that the detector of a line counts the stay on
one side of it, is armed after a long enough one and only then, and that no cooldown
lasts too long; `VisitFollows`, `RecordFollows` and `TrackFollows` say which
visits are open and how old a loss is, given where the person was last seen and
how long ago.

**Shelf alerts** (`ShelfAlertsProofs`). `ReferencesTheorem`, `ListedTheorem`,
`OneOpenTheorem` and `ConfirmedTheorem`. `Base` is type correctness and what
each thread holds between two Redis commands. `FreshInv` says that nobody
but the analysis knows an alert before it is listed, so that no
decision can overtake its creation. `KeyInv` is what `OneOpenPerCell` needs:
when no lapse is recorded, the key of a cell leads to its open alert unless
the analysis is about to write it (`KeyLeads`), and what the analysis has read of
the key is still good enough for what it does next (`KeyIsStale`, `KeyWasRead`).

**Freshness** (`FreshnessProofs`). `OkTheorem` and `ReportedTheorem`. Each says
what an answer put together from several queries is still worth. `HeardInv`
is the part that lets rows stand for cameras: a row is dated no later than its
camera was heard plus the skew of its clock. `HealthInv` and `DetectInv` say
what the two requests have read at each query.

**Challenge batch** (`AlgorithmsProofs`). `MarkedWhole` and `StoredOneRun`.
The invariant says what the driver knows while a pipeline runs (`RunOK`: the
file holds what this run has flushed and nothing else), that a marked file is
one whole run, and that every row in memory or in the service that was
collected from complete cameras is still in a marked file (`Backed`). `RunInv`
adds what posting again needs: a file and a post hold rows of one run per camera,
so that ids tell the rows of a post apart, and an id is stored once (`IdsOnce`).

**Algorithms** (`AlgorithmsProofs`, and `AnalyticsProofs` for the queries of the
store). For each algorithm a theorem about every
input, and one of the form `CallSpec => []P` that puts it to the calls of the run
`Algorithms`, for every value of that run's constants (`CallsTyped` and
`TypedQueries`: each call is of the shape that the general theorem asks for).

| Theorems | For | What carries the proof |
|---|---|---|
| `ExportTheorem`, `ExportsTheorem` | every event the pipeline makes (`Consistent`) | types survive both tables (`TypeSurvives`) and so does the visitor (`VisitorSurvives`) |
| `CrossingTheorem`, `CrossingsTheorem` | every line and step on the plane | the move along the normal is the change of the cross product (`NormalIsCross`), so that its sign and the side agree |
| `ReaderTheorem`, `FramesTheorem` | videos of any length, any limit of drops | what the reader knows after each read (`SoFar`, `Standing`): the frames so far are the shown reads one for one, and the drops are those since the last of them |
| `TracksTheorem`, `SightingsTheorem` | any frames of finitely many boxes, any time-out, window and number of points | what a track's record tells of the frames so far (`Tells`): when it was seen first and last, and since when it has been missing |
| `BatchTheorem`, `BatchesTheorem` | any batch of such videos | the sound videos are done in order, each at its rank (`Done`); a sum is added up in any order, and a sum over videos of what each stage counts is the count of the union (`TallyAll`) |
| `RowTheorem`, `GapsTheorem` | a row of any length and different items, whatever is missing or wrong in it; a picture of the run's shelf at any tilt its rows allow | what both rows show is one chain of pairs in the same order, which the alignment finds whatever block it takes first (`AlignedIs`), and between two neighbours of the chain as many places are misplaced as boxes are left (`EachBoxPaired`); rows more than `Eps` apart are the rows of the grid (`RowsAreListed`) |
| `AttendedTheorem`, `CongestionTheorem` | any queues and shelves, any number of actions in a cycle | the incidents by descending severity: whatever is cut off has as many at least as urgent before it |
| `KeyframeTheorem` (ids, takeovers and the number of new trackers) | any overlaps, ages and trackers that left the frame | an assignment exists, and the chosen one is a matching (below); a new id is above all others |
| `StreamTheorem`, `DetectionsTheorem` | any stream, whichever keyframes fail | after each frame (`Streamed`): ids are below the counter, and a tracker is as old as the predictions since the keyframe that last matched it |
| `QueriesTheorem`, `TablesTheorem` | finite tables of rows with distinct ids, any pair of windows | the latest row by time and id exists and is one, and a group's sum is the sum of its parts |
| `SpikeTheorem`, `SpikesTheorem` | any lengths, thresholds and number of samples of a steady queue and one more | the mean and the squared deviation of a steady queue with one jump, in integers |
| `HeatmapTheorem`, `HeatmapsTheorem` | samples on a frame of any size, any resolution | facts on division: a coordinate is in exactly the cell that covers it, and shares are ordered as their counts |

None of these inducts over an operator. The alignment is a recursive function
on pairs of intervals; that it exists, and what it is, is shown by induction on
the length of the interval. A fold over a sequence, which the models use for the
loops of the code, is by definition the last of its partial results, a function
on `0..n` (`FoldExists`): what the fold computes is then an invariant of that
function, proved for every index by induction on the numbers. Sorting by a
key is modelled, and reasoned about, by the rank of an element, the number of
those before it. Sums over a finite set do not depend on the order in which its
elements are picked, which `CHOOSE` leaves open, and matchings exist by induction
on their size.

The hypotheses are what the types of the code say: pictures show finite sets of
boxes and zone events of three kinds (`Shows`, `ShowsEvents`), rows have ids of
their own (`Sheet`, the primary key), and a sample lies on the frame that it was
detected on (`OnScreen`).

**Visits** (`AnalyticsProofs`). `AnswersAgree`, `SalesAreMatched`,
`VisitsAreCounted` and, on steps, `FunnelOnlyGrows`. The invariant relates the
two folds (`SameVisit`), says that a remembered exit has its completed session
(`ExitHasSession`), without which resuming could leave a visitor the metrics
know without any session, and that the billing sighting kept is the latest of
the rows (`LatestSeen`). Counting needs `CountInv`: there is one session more than
returns after a longer absence, and a session's stages are closed downwards
until a sale.

**Only model-checked.** Liveness, which rests on fairness: delivery of every
file, the showing of every alert, the end of the batch. That no state deadlocks.

## 5. Findings

Two documented promises that a run refutes:

* `LogFormat`: the emitter writes the challenge format by default, both readers
  of the log validate envelopes, so replaying an intact log fails at its first
  line. SUBMISSION_README.md:132 documents that very replay.
* `ChallengeScript`: with `--only`, the driver still collects every store and
  raises for a store without files, which stops the "resumable" script at its
  first camera, however often it is started.

Seen while modelling, and part of the models where state is concerned, but not
stated by a violated property:

*Where a test or a docstring says otherwise.* The models follow the code; these
places of the repository disagree with it, and with the property named:

| Source of the claim | It says | The code does | Property |
|---|---|---|---|
| `pipeline/tests/test_zones.py:80-102` | with grace 3, ZONE_EXIT at the third missed frame | at the fourth: `missed > grace` (`zones.py:476`) | `VisitIsPresence` |
| `pipeline/tests/test_track_state.py:23-39` | with a timeout of one frame, ENDED one frame after the loss | one frame later: `>` (`track_state.py:255`) | `TracksFollowSightings` |
| `pipeline/utils.py:62-63` | the reader aborts if consecutive drops exceed the limit | on reaching it | `FramesAccountedFor` |
| `pipeline/utils.py:143-144` | markers of dropped frames do not advance the index | they do | `FramesAccountedFor` |
| `app/pos.py:106-108` | the window before a sale is open at its start | both ends belong to it (`pos.py:120`) | `SalesMatchSightings` |
| `pipeline/tests/test_entry_exit.py:31-41` | a move along the line is an ENTRY or EXIT | no side changes, so neither (`pipeline/entry_exit.py:208-212`) | `CrossingIsSideChange` |
| `pipeline/entry_exit.py:202`, `253` | the path intersects the line segment | a change of side past its ends counts as well | `CrossingIsSideChange` |
| `edge/inventory/tests/unit/adaptors/test_tracker.py:61-76` | a detection of low confidence gets no track | confidence plays no part in `sort.py` | `DetectionsAreTracked` |
| `app/anomalies.py:129` | listed is a depth that exceeds its rolling baseline | one of 15 or more also when it falls, the more severe the further: `severity_from_z` takes the absolute z-score | `SpikeIsSeen` says nothing of a long queue that shrinks |

*Limits of what is promised.* `displacement_ok` is set once per visitor and not per
line (`entry_exit.py:337`, `349-350`), so that with several lines a stride along
one hides the crossing of a later one; `DeliberateCrossingFires` promises an event
only for strides long enough for the lines before. The layouts in `configs/` have
at most one line. A detection assigned to a tracker it hardly overlaps starts two
trackers (`sort.py:277-290`, `304-309`), and its box is shown twice on the next
frame; `DetectionsAreTracked` counts them. The latest depth of a queue is part of
its own baseline: with 3 to 5 samples no jump to less than 15 is listed, while
with fewer samples 7 is.

*Ingestion.* A duplicate with a later `occurred_at` than the stored row advances
the watermark (`ingestion.py:195`). A caller's repeated `batch_id` still gets a 503 on the primary key
of `ingest_batches` (HARDENING.md:14 lists the conflict as fixed). The 503 says
"transaction rolled back" (`ingestion.py:179`) also when only the answer to the
commit was lost.

*Pipeline.* A track that enters twice leaves its older session on the track;
when that one times out it takes the newer one's mapping with it. The staff
flag of a session, set at its entry, overrides what a later event saw
(`orchestrator.py:81`). `resume_visitor` can exceed `max_track_mappings`
(`session.py:305`), and a resumed session's dwell total is overwritten by its
first zone exit (`session.py:301`). `VideoReader` numbers dropped frames
although its docstring says otherwise, so that at the end of such a video
sessions close before their last events; after one good frame a single failed
read ends the video. A track that vanishes inside a queue remains a member of
it. Walking past the end of a line counts as crossing it.

*Event log.* A torn last line blocks the replays that follow and swallows the
first line of the next run; a rerun replays a mixture of two runs' visitor ids.
QUEUE_DEPTH rows leave the export as entries of a random visitor, unknown types
come back as ENTRY, and a dwell loses up to a millisecond.

*Analytics.* EXIT rows carry the key `track-N` and so never end a session of
the metrics. POS sales override purchases, so conversion may exceed one; a
later sighting at the till hides an earlier one that a sale would have
matched; a REENTRY never clears `exited`. A store-level WARN hides a CRITICAL
camera, and the limit can cut stale cameras off. With `db_available` false the
anomalies are empty, as if all were well. A queue that falls from 40 to 15 is
CRITICAL, and one that stays long comes down from CRITICAL to INFO. No code
fills `MetricBucket`, so the rules over it never fire.

*Shelf.* Three lapses break "one open alert per cell"; the model records them
in `lapses` and the invariants hold without them: a blind write-back undoes a
decision, dismissing a stale alert deletes the key of a newer one, and a
failed lookup counts as "no alert". The type of an open alert is not updated.
A missing planogram is cached, and analysis fails until stop and start.
Repeated facings of an item are reported as two empty cells, swapped
neighbours as empty, and a whole missing row shifts all rows below it. A
keyframe that finds an empty shelf does not age the trackers, so that the boxes
seen before come back on the frame after it; no frame before the first good
keyframe can be processed.

*Operations and challenge batch.* "Cap at 5 concurrent actions" is per cycle,
and only the longest queue is looked at. Verification reads `queue_length` and
`shelf_quantity`, which no store state of the API has, so every task stays open
and `active_tasks` grows with every cycle. Where INFO is enabled,
`logger.info(..., cycle_id=...)` (orchestrator.py:142) raises in the standard
logger after the cycle has had its effect. A second run of a
video writes the event ids of the first (`generate_event_id`, uuid5 of store,
camera, type, track and frame), but numbers the visitors anew; only the id of a
REENTRY, which has the visitor in it, differs. So when a camera has been posted
before it was complete (`--only`, `--ingest-only`) or its file was deleted
(`--fresh`), the service keeps the rows of the first run and adds those it lacks:
rows of one camera then name two sets of visitors, and returns are there twice.
`--fresh` killed between files and markers leaves
cameras marked without output; the script's list lacks a camera of store1.

## 6. Not modelled

* Neural detection and ByteTrack, homography, the Kalman filter and image
  similarity: their answers are free inputs of the models.
* The point-in-polygon test, overlays, layout files, rounding and averages.
* Frame queues of the shelf window: they drop pictures, and which picture is
  analysed is free in `ShelfAlerts` anyway. Text and priority of alerts.
* The rules over `MetricBucket`, which no code fills.
* Reports of the batch driver; a driver killed alone, whose pipeline goes on.
* The alternate `api/` skeleton, dashboard, simulation and one-shot scripts:
  presentation, stubs, or no state of their own.

## 7. Plan

Done: all modules of the first plan; liveness of delivery, alerts and batch; and
a theorem for every safety invariant and action property that a run checks. What
is left: `Detectors` composed with `VisitorPipeline`, whose environment they
refine.
