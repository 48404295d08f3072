--------------------------- MODULE ChallengeBatch ---------------------------
(***************************************************************************)
(* scripts/process_challenge_validation.py: one driver runs the pipeline   *)
(* for every camera of every store, marks a camera when its pipeline ended,*)
(* merges the files of each store and posts the rows to the service.  A    *)
(* row is one event of the camera's video as one pipeline wrote it.  The   *)
(* visitor in it was numbered at random by that pipeline; the event id is  *)
(* computed from camera, type, track and frame, so a second run of the     *)
(* video writes the same ids, but for REENTRY, whose id has the visitor in *)
(* it, and the service keeps the row that came first.  The driver, its     *)
(* pipeline and the service can fail at any point; a kill takes driver and *)
(* pipeline together, as Ctrl-C and a lost host do.                        *)
(***************************************************************************)
EXTENDS Integers, Sequences, SequencesExt

CONSTANTS
  Cams,        \* the cameras in the order of the configuration
  Stores,      \* the stores in that order
  StoreOf,     \* the store of a camera
  Size,        \* events of a camera's video, at least one
  Returns,     \* those of them that are a REENTRY
  MaxFaults,   \* bound: kills, failed pipelines, failed posts
  MaxFresh     \* bound: drivers started with --fresh

Camera == Range(Cams)
Store  == Range(Stores)

ASSUME BatchAssumption ==
  /\ Cams \in Seq(Camera)
  /\ Stores \in Seq(Store) \ {<<>>}
  /\ StoreOf \in [Camera -> Store]
  /\ Size \in [Camera -> Nat \ {0}]
  /\ Returns \in [Camera -> SUBSET Nat]
  /\ MaxFaults \in Nat /\ MaxFresh \in Nat

VARIABLES
  file,     \* per camera: the rows of its JSONL file; <<>> is no file
  torn,     \* cameras whose file ends in half a line
  marker,   \* cameras with a .done marker
  driver,   \* the running script, or Off
  exit,     \* exit code of the last driver
  stored,   \* rows the service has stored
  runs,     \* per camera: pipelines started so far
  exposed,  \* cameras merged before they were complete, or deleted by --fresh
  faults, fresh

disk == <<file, torn, marker>>
vars == <<disk, driver, exit, stored, runs, exposed, faults, fresh>>

NoRows == [s \in Store |-> {}]
Off    == [phase |-> "off", only |-> {}, at |-> 0, sent |-> 0, rows |-> NoRows]

Row(c, r, k)   == [cam |-> c, run |-> r, n |-> k]
Run(c, r)      == [k \in 1..Size[c] |-> Row(c, r, k)]
\* generate_event_id, and the subtype of ReentryEventBuilder.
EventIdOf(row) ==
  [cam |-> row.cam, n |-> row.n, run |-> IF row.n \in Returns[row.cam] THEN row.run ELSE 0]
CamsOf(s)      == {c \in Camera : StoreOf[c] = s}
HasFile(c)     == file[c] # <<>> \/ c \in torn
\* What _collect_camera_files lists; events.jsonl is left out.
Files(s)       == {c \in CamsOf(s) : HasFile(c)}

In(phase)   == driver.phase = phase
Go(phase)   == driver' = [driver EXCEPT !.phase = phase, !.at = 1]
Leave(code) == driver' = Off /\ exit' = code

----------------------------------------------------------------------------
(* --fresh: the files of a store, in any order, then its markers. *)

Start(only, clear) ==
  /\ In("off")
  /\ clear => fresh < MaxFresh
  /\ fresh' = fresh + (IF clear THEN 1 ELSE 0)
  /\ driver' = [Off EXCEPT !.only = only, !.at = 1,
                  !.phase = IF clear THEN "clear" ELSE IF only = {} THEN "merge" ELSE "cameras"]
  /\ UNCHANGED <<disk, exit, stored, runs, exposed, faults>>

RemoveFile(c) ==
  /\ In("clear") /\ StoreOf[c] = Stores[driver.at] /\ HasFile(c)
  /\ file' = [file EXCEPT ![c] = <<>>] /\ torn' = torn \ {c}
  /\ exposed' = exposed \cup {c}
  /\ UNCHANGED <<marker, driver, exit, stored, runs, faults, fresh>>

RemoveMarker(c) ==
  /\ In("clear") /\ StoreOf[c] = Stores[driver.at] /\ c \in marker
  /\ \A d \in CamsOf(StoreOf[c]) : ~HasFile(d)
  /\ marker' = marker \ {c}
  /\ UNCHANGED <<file, torn, driver, exit, stored, runs, exposed, faults, fresh>>

StoreCleared ==
  /\ In("clear")
  /\ \A c \in CamsOf(Stores[driver.at]) : ~HasFile(c) /\ c \notin marker
  /\ IF driver.at < Len(Stores)
     THEN driver' = [driver EXCEPT !.at = @ + 1]
     ELSE Go(IF driver.only = {} THEN "merge" ELSE "cameras")
  /\ UNCHANGED <<disk, exit, stored, runs, exposed, faults, fresh>>

----------------------------------------------------------------------------
(* The cameras, one pipeline after the other. *)

This == Cams[driver.at]

\* Not asked for with --only, or complete.
SkipsNone(c) == c \notin driver.only

Skips(c) == c \notin driver.only \/ c \in marker

Skip ==
  /\ In("cameras") /\ driver.at <= Len(Cams) /\ Skips(This)
  /\ driver' = [driver EXCEPT !.at = @ + 1]
  /\ UNCHANGED <<disk, exit, stored, runs, exposed, faults, fresh>>

\* _reset_incomplete_camera_output
ResetNothing(c) == UNCHANGED <<file, torn>>

Reset(c) ==
  IF c \in marker THEN UNCHANGED <<file, torn>>
  ELSE file' = [file EXCEPT ![c] = <<>>] /\ torn' = torn \ {c}

RunVideo ==
  /\ In("cameras") /\ driver.at <= Len(Cams) /\ ~Skips(This)
  /\ Reset(This)
  /\ runs' = [runs EXCEPT ![This] = @ + 1]
  /\ driver' = [driver EXCEPT !.phase = "pipeline", !.sent = 0]
  /\ UNCHANGED <<marker, exit, stored, exposed, faults, fresh>>

Flush ==
  /\ In("pipeline") /\ driver.sent < Size[This]
  /\ file' = [file EXCEPT ![This] = Append(@, Row(This, runs[This], driver.sent + 1))]
  /\ driver' = [driver EXCEPT !.sent = @ + 1]
  /\ UNCHANGED <<torn, marker, exit, stored, runs, exposed, faults, fresh>>

\* subprocess.run(check=True) comes back.
PipelineEnds ==
  /\ In("pipeline") /\ driver.sent = Size[This]
  /\ driver' = [driver EXCEPT !.phase = "mark"]
  /\ UNCHANGED <<disk, exit, stored, runs, exposed, faults, fresh>>

Mark ==
  /\ In("mark")
  /\ marker' = marker \cup {This}
  /\ driver' = [driver EXCEPT !.phase = "cameras", !.at = @ + 1]
  /\ UNCHANGED <<file, torn, exit, stored, runs, exposed, faults, fresh>>

CamerasDone ==
  /\ In("cameras") /\ driver.at > Len(Cams)
  /\ Go("merge")
  /\ UNCHANGED <<disk, exit, stored, runs, exposed, faults, fresh>>

----------------------------------------------------------------------------
(* Merge, post, end. *)

Mergeable(s) == Files(s) # {} /\ Files(s) \cap torn = {}

Merge ==
  /\ In("merge")
  /\ LET s == Stores[driver.at]
     IN  IF Mergeable(s)
         THEN /\ driver' = [driver EXCEPT
                    !.rows[s] = UNION {Range(file[c]) : c \in Files(s)},
                    !.phase = IF driver.at = Len(Stores) THEN "ingest" ELSE @,
                    !.at = IF driver.at = Len(Stores) THEN 1 ELSE @ + 1]
              /\ exposed' = exposed \cup (Files(s) \ marker)
              /\ UNCHANGED exit
         ELSE Leave(1) /\ UNCHANGED exposed
  /\ UNCHANGED <<disk, stored, runs, faults, fresh>>

\* The service drops rows whose id it has; no two rows of a post have one id.
NewRows(posted) == {row \in posted : \A old \in stored : EventIdOf(old) # EventIdOf(row)}

\* The rows of a store are posted and the views of it are fetched.
Ingest ==
  /\ In("ingest")
  /\ stored' = stored \cup NewRows(driver.rows[Stores[driver.at]])
  /\ IF driver.at < Len(Stores)
     THEN driver' = [driver EXCEPT !.at = @ + 1] /\ UNCHANGED exit
     ELSE Leave(0)
  /\ UNCHANGED <<disk, runs, exposed, faults, fresh>>

----------------------------------------------------------------------------
(* Faults. *)

Fault == ~In("off") /\ faults < MaxFaults /\ faults' = faults + 1 /\ Leave(1)

Kill ==
  /\ Fault
  /\ torn' \in {torn} \cup (IF In("pipeline") /\ driver.sent < Size[This] THEN {torn \cup {This}} ELSE {})
  /\ UNCHANGED <<file, marker, stored, runs, exposed, fresh>>

PipelineFails ==
  /\ Fault /\ In("pipeline")
  /\ UNCHANGED <<disk, stored, runs, exposed, fresh>>

\* The rows are posted in chunks; any of them may be the ones that got through.
PostFails ==
  /\ Fault /\ In("ingest")
  /\ \E posted \in SUBSET driver.rows[Stores[driver.at]] : stored' = stored \cup NewRows(posted)
  /\ UNCHANGED <<disk, runs, exposed, fresh>>

----------------------------------------------------------------------------

Init ==
  /\ file = [c \in Camera |-> <<>>] /\ torn = {} /\ marker = {}
  /\ driver = Off /\ exit = 0
  /\ stored = {} /\ runs = [c \in Camera |-> 0] /\ exposed = {}
  /\ faults = 0 /\ fresh = 0

\* All cameras, one of them (--only), or none (--ingest-only).
StartAll  == Start(Camera, FALSE)
StartSome == \E only \in {Camera, {}} \cup {{c} : c \in Camera}, clear \in BOOLEAN : Start(only, clear)

DriverStep ==
  \/ \E c \in Camera : RemoveFile(c) \/ RemoveMarker(c)
  \/ StoreCleared
  \/ Skip \/ RunVideo \/ Flush \/ PipelineEnds \/ Mark \/ CamerasDone
  \/ Merge \/ Ingest

Next == StartSome \/ DriverStep \/ Kill \/ PipelineFails \/ PostFails

Spec == Init /\ [][Next]_vars

\* The scripts run to their end, and somebody who also runs other ones starts
\* the script for all cameras again and again.
FairSpec == Spec /\ WF_vars(DriverStep) /\ SF_vars(StartAll)

----------------------------------------------------------------------------
(* Properties. *)

\* A camera that later drivers skip has in its file the whole output of one
\* pipeline, without remains of the runs that were killed or failed before it,
\* or nothing, when a driver with --fresh was killed between files and markers.
MarkedIsWhole ==
  \A c \in marker : c \notin torn /\ (file[c] = <<>> \/ \E r \in 1..runs[c] : file[c] = Run(c, r))

\* However often drivers are killed and rows are posted again, the rows of a
\* camera that the service has are of one pipeline, so that their visitors are
\* the same people throughout, unless somebody merged the camera before it was
\* complete (--only and --ingest-only do) or deleted its file; and even then no
\* event is there twice, but for the returns, which carry ids of their run.
StoredOnce ==
  \A b, d \in stored :
    b.cam = d.cam /\ b # d =>
      \/ b.run = d.run /\ b.n # d.n
      \/ b.cam \in exposed /\ (b.n = d.n => b.n \in Returns[b.cam])

\* As long as the script for all cameras is started again, every camera ends up
\* marked and the service has the events that its file holds, as this pipeline
\* wrote them or an earlier one; only a store left without files by a killed
\* --fresh keeps all stores from being posted.
EveryCameraReported ==
  <>[](/\ marker = Camera
       /\ \/ \A c \in Camera : \A b \in Range(file[c]) :
                \E d \in stored : EventIdOf(d) = EventIdOf(b)
          \/ \E s \in Store : Files(s) = {})
=============================================================================
