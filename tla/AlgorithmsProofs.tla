--------------------------- MODULE AlgorithmsProofs --------------------------
(***************************************************************************)
(* The challenge batch, for every list of cameras and stores, every length *)
(* of their videos and any number of faults and drivers; and the pure      *)
(* algorithms, for every input: the reader of videos, the track history,   *)
(* the cycle of the autonomous loop, the tracker of the shelf, the grid of *)
(* the shelf, crossings, and the format of the logs.  The theorems of the  *)
(* form CallSpec => [] ... say the same of the calls that are checked on   *)
(* small instances.  The algorithms of the store's queries are in          *)
(* AnalyticsProofs.                                                        *)
(***************************************************************************)
EXTENDS ChallengeBatch, MCAlgorithms, FiniteSetTheorems, WellFoundedInduction, TLAPS

Phases == {"off", "clear", "cameras", "pipeline", "mark", "merge", "ingest"}

Rows == [cam : Camera, run : Nat, n : Nat]

Driver ==
  [phase : Phases, only : SUBSET Camera, at : Nat, sent : Nat,
   rows : [Store -> SUBSET Rows]]

TypeOK ==
  /\ file \in [Camera -> Seq(Rows)]
  /\ torn \subseteq Camera
  /\ marker \subseteq Camera
  /\ driver \in Driver
  /\ stored \subseteq Rows
  /\ runs \in [Camera -> Nat]
  /\ exposed \subseteq Camera

\* The position of the driver means a store or, from the first on, a camera.
PositionOK ==
  /\ driver.phase \in {"clear", "merge", "ingest"} => driver.at \in DOMAIN Stores
  /\ driver.phase \in {"cameras", "pipeline", "mark"} => driver.at >= 1

\* A file holds rows of its own camera.
FilesOwn == \A c \in Camera : \A b \in Range(file[c]) : b.cam = c

\* The first n rows of run r of a camera.
Written(c, r, n) == [k \in 1..n |-> Row(c, r, k)]

Whole(c) ==
  /\ c \notin torn
  /\ file[c] = <<>> \/ \E r \in 1..runs[c] : file[c] = Run(c, r)

\* What the driver knows while the pipeline of a camera runs and until it has
\* set the marker: the file holds what this run has flushed, and nothing else.
RunOK ==
  driver.phase \in {"pipeline", "mark"} =>
    /\ driver.at \in DOMAIN Cams
    /\ This \notin marker
    /\ This \notin torn
    /\ runs[This] >= 1
    /\ driver.sent <= Size[This]
    /\ file[This] = Written(This, runs[This], driver.sent)
    /\ driver.phase = "mark" => driver.sent = Size[This]

\* A row that has left the disk is still there, in a file that has a marker.
Backed(b) ==
  b.cam \notin exposed => b.cam \in marker /\ b \in Range(file[b.cam])

StoredBacked == \A b \in stored : Backed(b)

RowsBacked == \A s \in Store : \A b \in driver.rows[s] : Backed(b)

IInv ==
  /\ TypeOK
  /\ PositionOK
  /\ FilesOwn
  /\ \A c \in marker : Whole(c)
  /\ RunOK
  /\ StoredBacked
  /\ RowsBacked

-----------------------------------------------------------------------------
(* Lemmas on the constants and on what a pipeline writes. *)

LEMMA CameraAt == ASSUME NEW i \in DOMAIN Cams PROVE Cams[i] \in Camera
BY BatchAssumption DEF Camera, Range

LEMMA StoreAt == ASSUME NEW i \in DOMAIN Stores PROVE Stores[i] \in Store
BY BatchAssumption DEF Store, Range

LEMMA RowTyped ==
  ASSUME NEW c \in Camera, NEW r \in Nat, NEW k \in Nat
  PROVE  /\ Row(c, r, k) \in Rows
         /\ Row(c, r, k).cam = c
         /\ Row(c, r, k).run = r
BY DEF Row, Rows

LEMMA WrittenTyped ==
  ASSUME NEW c \in Camera, NEW r \in Nat, NEW n \in Nat
  PROVE  /\ Written(c, r, n) \in Seq(Rows)
         /\ Len(Written(c, r, n)) = n
         /\ \A b \in Range(Written(c, r, n)) : b.cam = c /\ b.run = r
<1>1. \A k \in 1..n : Row(c, r, k) \in Rows
  BY RowTyped
<1>2. \A k \in 1..n : Row(c, r, k).cam = c /\ Row(c, r, k).run = r
  BY RowTyped
<1>. QED
  BY <1>1, <1>2 DEF Written, Range

\* One more flush writes the next batch.
LEMMA WrittenAppend ==
  ASSUME NEW c \in Camera, NEW r \in Nat, NEW n \in Nat
  PROVE  Append(Written(c, r, n), Row(c, r, n + 1)) = Written(c, r, n + 1)
<1>1. Written(c, r, n) \in Seq(Rows) /\ Len(Written(c, r, n)) = n
  BY WrittenTyped
<1>2. Row(c, r, n + 1) \in Rows
  BY RowTyped
<1>. DEFINE longer == Append(Written(c, r, n), Row(c, r, n + 1))
<1>3. longer \in Seq(Rows) /\ Len(longer) = n + 1
  BY <1>1, <1>2
<1>4. \A k \in 1..(n + 1) : longer[k] = Row(c, r, k)
  BY <1>1, <1>2 DEF Written
<1>. QED
  BY <1>3, <1>4 DEF Written

\* Appending to a file adds the batch to what it holds.
LEMMA RangeAppend ==
  ASSUME NEW s \in Seq(Rows), NEW b \in Rows
  PROVE  /\ Append(s, b) \in Seq(Rows)
         /\ Range(Append(s, b)) = Range(s) \cup {b}
<1>. DEFINE longer == Append(s, b)
<1>1. longer \in Seq(Rows) /\ DOMAIN longer = 1..(Len(s) + 1)
  OBVIOUS
<1>2. \A k \in DOMAIN s : k \in DOMAIN longer /\ longer[k] = s[k]
  OBVIOUS
<1>3. longer[Len(s) + 1] = b
  OBVIOUS
<1>4. \A k \in DOMAIN longer : k \in DOMAIN s \/ k = Len(s) + 1
  OBVIOUS
<1>. QED
  BY <1>1, <1>2, <1>3, <1>4 DEF Range

LEMMA RunIsWritten == ASSUME NEW c \in Camera PROVE Run(c, runs[c]) = Written(c, runs[c], Size[c])
BY DEF Run, Written

-----------------------------------------------------------------------------
(* The inductive invariant is one. *)

\* The driver that has left, and one that goes on to another phase.
LEMMA OffTyped == Off \in Driver /\ Off.phase = "off" /\ \A s \in Store : Off.rows[s] = {}
BY DEF Off, NoRows, Driver, Phases

LEMMA GoTyped ==
  ASSUME driver \in Driver, NEW phase \in Phases, Go(phase)
  PROVE  /\ driver' \in Driver
         /\ driver'.phase = phase /\ driver'.at = 1 /\ driver'.rows = driver.rows
BY DEF Go, Driver

LEMMA FirstStore == 1 \in DOMAIN Stores
BY BatchAssumption

LEMMA AdvanceTyped ==
  ASSUME driver \in Driver, driver' = [driver EXCEPT !.at = @ + 1]
  PROVE  /\ driver' \in Driver
         /\ driver'.phase = driver.phase /\ driver'.at = driver.at + 1
         /\ driver'.rows = driver.rows
BY DEF Driver

LEMMA NextStore ==
  ASSUME NEW i \in DOMAIN Stores, i < Len(Stores) PROVE i + 1 \in DOMAIN Stores
BY BatchAssumption

LEMMA InitInv == Init => IInv
<1>1. Init => TypeOK
  BY OffTyped, BatchAssumption DEF Init, TypeOK
<1>2. Init => PositionOK /\ RunOK /\ StoredBacked /\ RowsBacked
  BY OffTyped DEF Init, PositionOK, RunOK, StoredBacked, RowsBacked
<1>3. Init => FilesOwn /\ \A c \in marker : Whole(c)
  BY DEF Init, FilesOwn, Whole, Range
<1>. QED
  BY <1>1, <1>2, <1>3 DEF IInv

\* A step that writes no file, no marker and no run leaves what is known of them.
LEMMA DiskUntouched ==
  ASSUME IInv, UNCHANGED <<disk, runs>>, exposed \subseteq exposed'
  PROVE  /\ FilesOwn'
         /\ (\A c \in marker : Whole(c))'
         /\ \A b : Backed(b) => Backed(b)'
<1>1. FilesOwn'
  BY DEF IInv, FilesOwn, disk
<1>2. (\A c \in marker : Whole(c))'
  BY DEF IInv, Whole, disk
<1>3. \A b : Backed(b) => Backed(b)'
  BY DEF Backed, disk
<1>. QED
  BY <1>1, <1>2, <1>3

\* A driver starts with nothing read.
LEMMA StartStep ==
  ASSUME IInv, NEW only \in SUBSET Camera, NEW clear \in BOOLEAN, Start(only, clear)
  PROVE  IInv'
<1>. USE BatchAssumption, CameraAt, StoreAt, OffTyped DEF Start, disk
<1>1. UNCHANGED <<disk, runs>> /\ exposed \subseteq exposed'
  OBVIOUS
<1>2. TypeOK'
  BY FirstStore DEF IInv, TypeOK, PositionOK, Phases, In, Leave, Driver, Go
<1>3. PositionOK'
  BY FirstStore DEF IInv, TypeOK, PositionOK, Phases, In, Leave, Driver, Go
<1>4. RunOK'
  BY DEF IInv, TypeOK, PositionOK, RunOK, This, In, Leave, Driver, Go
<1>5. StoredBacked'
  BY <1>1, DiskUntouched DEF IInv, StoredBacked, RowsBacked, TypeOK, PositionOK, In, Go, Leave
<1>6. RowsBacked'
  BY <1>1, DiskUntouched DEF IInv, RowsBacked, TypeOK, In, Leave, Driver, Go
<1>. QED
  BY <1>1, <1>2, <1>3, <1>4, <1>5, <1>6, DiskUntouched DEF IInv

\* The next store, or the next phase.
LEMMA StoreClearedStep ==
  ASSUME IInv, StoreCleared
  PROVE  IInv'
<1>. USE DEF StoreCleared, disk
<1>1. UNCHANGED <<disk, runs>> /\ exposed \subseteq exposed'
  OBVIOUS
<1>2. /\ driver' \in Driver
      /\ driver'.rows = driver.rows
      /\ driver'.phase \in {"clear", "merge", "cameras"}
      /\ driver'.phase \in {"clear", "merge"} => driver'.at \in DOMAIN Stores
      /\ driver'.at >= 1
  <2>1. CASE driver.at < Len(Stores)
    <3>1. driver' = [driver EXCEPT !.at = @ + 1]
      BY <2>1
    <3>2. driver.phase = "clear" /\ driver.at \in DOMAIN Stores
      BY DEF In, IInv, PositionOK
    <3>3. driver.at >= 1
      BY <3>2, BatchAssumption
    <3>4. driver \in Driver /\ driver.at \in Nat
      BY DEF IInv, TypeOK, Driver
    <3>5. driver.at + 1 \in DOMAIN Stores /\ driver.at + 1 >= 1
      BY <2>1, <3>2, <3>3, <3>4, NextStore
    <3>. QED
      BY <3>1, <3>2, <3>4, <3>5, AdvanceTyped
  <2>2. CASE ~(driver.at < Len(Stores))
    <3>1. PICK phase \in {"merge", "cameras"} : Go(phase)
      BY <2>2
    <3>2. phase \in Phases
      BY DEF Phases
    <3>. QED
      BY <3>1, <3>2, GoTyped, FirstStore DEF IInv, TypeOK
  <2>. QED
    BY <2>1, <2>2
<1>3. TypeOK'
  BY <1>2 DEF IInv, TypeOK
<1>4. PositionOK' /\ RunOK'
  BY <1>2 DEF PositionOK, RunOK
<1>5. StoredBacked'
  BY <1>1, DiskUntouched DEF IInv, StoredBacked
<1>6. RowsBacked'
  BY <1>1, <1>2, DiskUntouched DEF IInv, RowsBacked
<1>. QED
  BY <1>1, <1>3, <1>4, <1>5, <1>6, DiskUntouched DEF IInv

\* The next camera.
LEMMA SkipStep ==
  ASSUME IInv, Skip
  PROVE  IInv'
<1>. USE DEF Skip, disk
<1>1. UNCHANGED <<disk, runs>> /\ exposed \subseteq exposed'
  OBVIOUS
<1>2. /\ driver' \in Driver /\ driver'.phase = "cameras" /\ driver'.at >= 1
      /\ driver'.rows = driver.rows
  <2>1. driver \in Driver /\ driver' = [driver EXCEPT !.at = @ + 1]
    BY DEF IInv, TypeOK
  <2>2. driver.phase = "cameras" /\ driver.at >= 1 /\ driver.at \in Nat
    BY <2>1 DEF In, IInv, PositionOK, Driver
  <2>. QED
    BY <2>1, <2>2, AdvanceTyped
<1>3. TypeOK'
  BY <1>2 DEF IInv, TypeOK
<1>4. PositionOK' /\ RunOK'
  BY <1>2 DEF PositionOK, RunOK
<1>5. StoredBacked'
  BY <1>1, DiskUntouched DEF IInv, StoredBacked
<1>6. RowsBacked'
  BY <1>1, <1>2, DiskUntouched DEF IInv, RowsBacked
<1>. QED
  BY <1>1, <1>3, <1>4, <1>5, <1>6, DiskUntouched DEF IInv

\* The pipeline has flushed all its batches.
LEMMA PipelineEndsStep ==
  ASSUME IInv, PipelineEnds
  PROVE  IInv'
<1>. USE BatchAssumption, CameraAt, StoreAt, OffTyped DEF PipelineEnds, disk
<1>1. UNCHANGED <<disk, runs>> /\ exposed \subseteq exposed'
  OBVIOUS
<1>2. TypeOK'
  BY FirstStore DEF IInv, TypeOK, PositionOK, Phases, In, Leave, Driver, Go
<1>3. PositionOK'
  BY FirstStore DEF IInv, TypeOK, PositionOK, Phases, In, Leave, Driver, Go
<1>4. RunOK'
  BY DEF IInv, TypeOK, PositionOK, RunOK, This, In, Leave, Driver, Go
<1>5. StoredBacked'
  BY <1>1, DiskUntouched DEF IInv, StoredBacked, RowsBacked, TypeOK, PositionOK, In, Go, Leave
<1>6. RowsBacked'
  BY <1>1, DiskUntouched DEF IInv, RowsBacked, TypeOK, In, Leave, Driver, Go
<1>. QED
  BY <1>1, <1>2, <1>3, <1>4, <1>5, <1>6, DiskUntouched DEF IInv

\* All cameras are done.
LEMMA CamerasDoneStep ==
  ASSUME IInv, CamerasDone
  PROVE  IInv'
<1>. USE BatchAssumption, CameraAt, StoreAt, OffTyped DEF CamerasDone, disk
<1>1. UNCHANGED <<disk, runs>> /\ exposed \subseteq exposed'
  OBVIOUS
<1>2. TypeOK'
  BY FirstStore DEF IInv, TypeOK, PositionOK, Phases, In, Leave, Driver, Go
<1>3. PositionOK'
  BY FirstStore DEF IInv, TypeOK, PositionOK, Phases, In, Leave, Driver, Go
<1>4. RunOK'
  BY DEF IInv, TypeOK, PositionOK, RunOK, This, In, Leave, Driver, Go
<1>5. StoredBacked'
  BY <1>1, DiskUntouched DEF IInv, StoredBacked, RowsBacked, TypeOK, PositionOK, In, Go, Leave
<1>6. RowsBacked'
  BY <1>1, DiskUntouched DEF IInv, RowsBacked, TypeOK, In, Leave, Driver, Go
<1>. QED
  BY <1>1, <1>2, <1>3, <1>4, <1>5, <1>6, DiskUntouched DEF IInv

\* The rows that are stored now were backed when they were read, and still are.
LEMMA IngestStep ==
  ASSUME IInv, Ingest
  PROVE  IInv'
<1>. USE DEF Ingest, disk
<1>1. UNCHANGED <<disk, runs>> /\ exposed \subseteq exposed'
  OBVIOUS
<1>2. Stores[driver.at] \in Store
  BY StoreAt DEF IInv, PositionOK, In
<1>3. /\ driver' \in Driver
      /\ \A s \in Store : driver'.rows[s] \subseteq driver.rows[s]
      /\ \/ driver'.phase = "off"
         \/ driver'.phase = "ingest" /\ driver'.at \in DOMAIN Stores
  <2>1. CASE driver.at < Len(Stores)
    BY <2>1, AdvanceTyped, NextStore DEF IInv, TypeOK, PositionOK, In
  <2>2. CASE ~(driver.at < Len(Stores))
    BY <2>2, OffTyped DEF Leave
  <2>. QED
    BY <2>1, <2>2
<1>4. TypeOK'
  BY <1>2, <1>3 DEF IInv, TypeOK, Driver, NewRows
<1>5. PositionOK' /\ RunOK'
  BY <1>3 DEF PositionOK, RunOK
<1>6. StoredBacked'
  BY <1>1, <1>2, DiskUntouched DEF IInv, StoredBacked, RowsBacked, NewRows
<1>7. RowsBacked'
  BY <1>1, <1>3, DiskUntouched DEF IInv, RowsBacked
<1>. QED
  BY <1>1, <1>4, <1>5, <1>6, <1>7, DiskUntouched DEF IInv

\* The driver leaves; the file stays unmarked.
LEMMA PipelineFailsStep ==
  ASSUME IInv, PipelineFails
  PROVE  IInv'
<1>. USE BatchAssumption, CameraAt, StoreAt, OffTyped DEF PipelineFails, Fault, disk
<1>1. UNCHANGED <<disk, runs>> /\ exposed \subseteq exposed'
  OBVIOUS
<1>2. TypeOK'
  BY FirstStore DEF IInv, TypeOK, PositionOK, Phases, In, Leave, Driver, Go
<1>3. PositionOK'
  BY FirstStore DEF IInv, TypeOK, PositionOK, Phases, In, Leave, Driver, Go
<1>4. RunOK'
  BY DEF IInv, TypeOK, PositionOK, RunOK, This, In, Leave, Driver, Go
<1>5. StoredBacked'
  BY <1>1, DiskUntouched DEF IInv, StoredBacked, RowsBacked, TypeOK, PositionOK, In, Go, Leave
<1>6. RowsBacked'
  BY <1>1, DiskUntouched DEF IInv, RowsBacked, TypeOK, In, Leave, Driver, Go
<1>. QED
  BY <1>1, <1>2, <1>3, <1>4, <1>5, <1>6, DiskUntouched DEF IInv

\* Some rows are stored, all of them backed.
LEMMA PostFailsStep ==
  ASSUME IInv, PostFails
  PROVE  IInv'
<1>. USE BatchAssumption, CameraAt, StoreAt, OffTyped DEF PostFails, Fault, disk, NewRows
<1>1. UNCHANGED <<disk, runs>> /\ exposed \subseteq exposed'
  OBVIOUS
<1>2. TypeOK'
  BY FirstStore DEF IInv, TypeOK, PositionOK, Phases, In, Leave, Driver, Go
<1>3. PositionOK'
  BY FirstStore DEF IInv, TypeOK, PositionOK, Phases, In, Leave, Driver, Go
<1>4. RunOK'
  BY DEF IInv, TypeOK, PositionOK, RunOK, This, In, Leave, Driver, Go
<1>5. StoredBacked'
  BY <1>1, DiskUntouched DEF IInv, StoredBacked, RowsBacked, TypeOK, PositionOK, In, Go, Leave
<1>6. RowsBacked'
  BY <1>1, DiskUntouched DEF IInv, RowsBacked, TypeOK, In, Leave, Driver, Go
<1>. QED
  BY <1>1, <1>2, <1>3, <1>4, <1>5, <1>6, DiskUntouched DEF IInv

\* The rows that are read come from files that have a marker, unless their
\* camera is exposed from now on.
LEMMA MergeStep ==
  ASSUME IInv, Merge
  PROVE  IInv'
<1>. DEFINE s == Stores[driver.at]
            read == UNION {Range(file[c]) : c \in Files(s)}
<1>. USE DEF Merge, disk
<1>1. UNCHANGED <<disk, runs, stored>> /\ exposed \subseteq exposed'
  OBVIOUS
<1>2. driver \in Driver /\ driver.at \in DOMAIN Stores /\ s \in Store
  BY StoreAt DEF IInv, TypeOK, PositionOK, In
<1>3. exposed' \subseteq Camera
  BY DEF IInv, TypeOK, Files, CamsOf
<1>4. \A b \in read : b \in Rows /\ (Mergeable(s) => Backed(b)')
  <2> SUFFICES ASSUME NEW c \in Files(s), NEW b \in Range(file[c])
               PROVE  b \in Rows /\ (Mergeable(s) => Backed(b)')
    OBVIOUS
  <2>1. c \in Camera /\ b.cam = c
    BY DEF Files, CamsOf, IInv, FilesOwn
  <2>2. b \in Rows
    BY <2>1 DEF IInv, TypeOK, Range
  <2>3. Mergeable(s) => c \in exposed' \/ c \in marker
    OBVIOUS
  <2>. QED
    BY <2>1, <2>2, <2>3 DEF Backed
<1>5. /\ driver' \in Driver
      /\ driver'.phase \in {"off", "merge", "ingest"}
      /\ driver'.phase # "off" => driver'.at \in DOMAIN Stores
      /\ \A t \in Store : \A b \in driver'.rows[t] : b \in driver.rows[t] \/ Backed(b)'
  <2>1. CASE ~Mergeable(s)
    BY <2>1, OffTyped DEF Leave
  <2>2. CASE Mergeable(s) /\ driver.at = Len(Stores)
    <3>1. driver' = [driver EXCEPT !.rows[s] = read, !.phase = "ingest", !.at = 1]
      BY <2>2
    <3>2. driver' \in Driver /\ driver'.phase = "ingest" /\ driver'.at = 1
      BY <1>2, <1>4, <3>1 DEF Driver, Phases
    <3>3. \A t \in Store : driver'.rows[t] = IF t = s THEN read ELSE driver.rows[t]
      BY <1>2, <3>1 DEF Driver
    <3>. QED
      BY <1>4, <2>2, <3>2, <3>3, FirstStore
  <2>3. CASE Mergeable(s) /\ driver.at # Len(Stores)
    <3>1. driver' = [driver EXCEPT !.rows[s] = read, !.phase = @, !.at = @ + 1]
      BY <2>3
    <3>2. /\ driver' \in Driver /\ driver'.phase = "merge"
          /\ driver'.at = driver.at + 1
      <4>1. driver.phase = "merge" /\ driver.at + 1 \in Nat
        BY <1>2 DEF In, Driver
      <4>2. read \in SUBSET Rows
        BY <1>4
      <4>. QED
        BY <1>2, <3>1, <4>1, <4>2 DEF Driver
    <3>3. \A t \in Store : driver'.rows[t] = IF t = s THEN read ELSE driver.rows[t]
      BY <1>2, <3>1 DEF Driver
    <3>4. driver.at + 1 \in DOMAIN Stores
      BY <1>2, <2>3, BatchAssumption
    <3>. QED
      BY <1>4, <2>3, <3>2, <3>3, <3>4
  <2>. QED
    BY <2>1, <2>2, <2>3
<1>6. TypeOK'
  BY <1>1, <1>3, <1>5 DEF IInv, TypeOK
<1>7. PositionOK' /\ RunOK'
  BY <1>5 DEF PositionOK, RunOK
<1>8. StoredBacked'
  BY <1>1, DiskUntouched DEF IInv, StoredBacked
<1>9. RowsBacked'
  BY <1>1, <1>5, DiskUntouched DEF IInv, RowsBacked
<1>. QED
  BY <1>1, <1>6, <1>7, <1>8, <1>9, DiskUntouched DEF IInv

\* A file that is deleted exposes its camera.
LEMMA RemoveFileStep ==
  ASSUME IInv, NEW c \in Camera, RemoveFile(c)
  PROVE  IInv'
<1>. USE DEF RemoveFile
<1>1. TypeOK'
  BY DEF IInv, TypeOK
<1>2. PositionOK' /\ RunOK'
  BY DEF IInv, PositionOK, RunOK, In
<1>3. \A d \in Camera : file'[d] = IF d = c THEN <<>> ELSE file[d]
  BY DEF IInv, TypeOK
<1>4. FilesOwn'
  BY <1>3 DEF IInv, FilesOwn, Range
<1>5. (\A d \in marker : Whole(d))'
  BY <1>3 DEF IInv, TypeOK, Whole
<1>6. \A b \in Rows : Backed(b) => Backed(b)'
  BY <1>3 DEF Backed, Rows
<1>7. StoredBacked' /\ RowsBacked'
  BY <1>6 DEF IInv, TypeOK, Driver, StoredBacked, RowsBacked
<1>. QED
  BY <1>1, <1>2, <1>4, <1>5, <1>7 DEF IInv

\* A marker is deleted after its file.
LEMMA RemoveMarkerStep ==
  ASSUME IInv, NEW c \in Camera, RemoveMarker(c)
  PROVE  IInv'
<1>. USE DEF RemoveMarker
<1>1. TypeOK'
  BY DEF IInv, TypeOK
<1>2. PositionOK' /\ RunOK'
  BY DEF IInv, PositionOK, RunOK, In
<1>3. file[c] = <<>>
  BY DEF CamsOf, HasFile
<1>4. FilesOwn' /\ (\A d \in marker : Whole(d))'
  BY DEF IInv, FilesOwn, Whole
<1>5. \A b \in Rows : Backed(b) => Backed(b)'
  BY <1>3 DEF Backed, Rows, Range
<1>6. StoredBacked' /\ RowsBacked'
  BY <1>5 DEF IInv, TypeOK, Driver, StoredBacked, RowsBacked
<1>. QED
  BY <1>1, <1>2, <1>4, <1>6 DEF IInv

\* The remains of an unmarked camera go, and its pipeline starts from nothing.
LEMMA RunVideoStep ==
  ASSUME IInv, RunVideo
  PROVE  IInv'
<1>. USE DEF RunVideo
<1>1. /\ driver \in Driver /\ driver.at \in DOMAIN Cams
      /\ This \in Camera /\ This \notin marker
  <2>1. driver \in Driver /\ driver.at \in Nat /\ driver.at >= 1
    BY DEF IInv, TypeOK, PositionOK, In, Driver
  <2>2. driver.at \in DOMAIN Cams
    BY <2>1, BatchAssumption
  <2>3. This \in Camera
    BY <2>2, CameraAt DEF This
  <2>4. This \notin marker
    BY DEF Skips
  <2>. QED
    BY <2>1, <2>2, <2>3, <2>4
<1>2. file' = [file EXCEPT ![This] = <<>>] /\ torn' = torn \ {This}
  BY <1>1 DEF Reset
<1>3. /\ driver' \in Driver /\ driver'.phase = "pipeline" /\ driver'.sent = 0
      /\ driver'.at = driver.at /\ driver'.rows = driver.rows
  BY <1>1 DEF Driver, Phases
<1>4. This' = This
  BY <1>3 DEF This
<1>5. \A d \in Camera : file'[d] = IF d = This THEN <<>> ELSE file[d]
  BY <1>1, <1>2 DEF IInv, TypeOK
<1>6. \A d \in Camera : runs'[d] = IF d = This THEN runs[d] + 1 ELSE runs[d]
  BY <1>1 DEF IInv, TypeOK
<1>7. TypeOK'
  BY <1>1, <1>2, <1>3 DEF IInv, TypeOK
<1>8. PositionOK'
  BY <1>3 DEF IInv, PositionOK, In
<1>9. RunOK'
  <2>1. file'[This] = Written(This, runs'[This], 0)
    BY <1>1, <1>5 DEF Written
  <2>2. runs'[This] >= 1 /\ 0 <= Size[This]
    <3>1. runs[This] \in Nat /\ runs'[This] = runs[This] + 1
      BY <1>1, <1>6 DEF IInv, TypeOK
    <3>2. Size[This] \in Nat
      BY <1>1, BatchAssumption
    <3>. QED
      BY <3>1, <3>2
  <2>. QED
    BY <1>1, <1>2, <1>3, <1>4, <2>1, <2>2 DEF RunOK
<1>10. FilesOwn'
  BY <1>5 DEF IInv, FilesOwn, Range
<1>11. (\A d \in marker : Whole(d))'
  BY <1>1, <1>2, <1>5, <1>6 DEF IInv, TypeOK, Whole
<1>12. \A b \in Rows : Backed(b) => Backed(b)'
  BY <1>1, <1>5 DEF Backed, Rows
<1>13. StoredBacked' /\ RowsBacked'
  BY <1>3, <1>12 DEF IInv, TypeOK, Driver, StoredBacked, RowsBacked
<1>. QED
  BY <1>7, <1>8, <1>9, <1>10, <1>11, <1>13 DEF IInv

\* The pipeline writes to an unmarked file.
LEMMA FlushStep ==
  ASSUME IInv, Flush
  PROVE  IInv'
<1>. DEFINE b1 == Row(This, runs[This], driver.sent + 1)
<1>. USE DEF Flush
<1>1. /\ driver \in Driver /\ driver.sent \in Nat /\ driver.at \in DOMAIN Cams
      /\ This \notin marker /\ This \notin torn /\ runs[This] >= 1
      /\ file[This] = Written(This, runs[This], driver.sent)
  BY DEF IInv, TypeOK, RunOK, In, Driver
<1>2. This \in Camera
  BY <1>1, CameraAt DEF This
<1>3. runs[This] \in Nat /\ file \in [Camera -> Seq(Rows)]
  BY <1>2 DEF IInv, TypeOK
<1>4. b1 \in Rows /\ b1.cam = This
  <2>1. driver.sent + 1 \in Nat
    BY <1>1
  <2>. QED
    BY <1>2, <1>3, <2>1, RowTyped
<1>5. \A d \in Camera : file'[d] = IF d = This THEN Append(file[d], b1) ELSE file[d]
  BY <1>2, <1>3
<1>6. /\ driver' \in Driver /\ driver'.phase = "pipeline"
      /\ driver'.sent = driver.sent + 1
      /\ driver'.at = driver.at /\ driver'.rows = driver.rows
  BY <1>1 DEF Driver, In
<1>7. This' = This
  BY <1>6 DEF This
<1>8. file'[This] = Written(This, runs[This], driver.sent + 1)
  BY <1>1, <1>2, <1>3, <1>5, WrittenAppend, SMTT(30)
<1>9. /\ Append(file[This], b1) \in Seq(Rows)
      /\ Range(Append(file[This], b1)) = Range(file[This]) \cup {b1}
  BY <1>2, <1>3, <1>4, RangeAppend
<1>10. TypeOK'
  BY <1>2, <1>3, <1>6, <1>9 DEF IInv, TypeOK
<1>11. PositionOK'
  BY <1>6 DEF IInv, PositionOK, In
<1>12. RunOK'
  <2>1. driver.sent + 1 <= Size[This]
    BY <1>1, <1>2, BatchAssumption
  <2>. QED
    BY <1>1, <1>6, <1>7, <1>8, <2>1 DEF RunOK
<1>13. FilesOwn'
  BY <1>4, <1>5, <1>9 DEF IInv, FilesOwn
<1>14. (\A d \in marker : Whole(d))'
  BY <1>1, <1>5 DEF IInv, TypeOK, Whole
<1>15. \A b \in Rows : Backed(b) => Backed(b)'
  BY <1>1, <1>5 DEF Backed, Rows
<1>16. StoredBacked' /\ RowsBacked'
  BY <1>6, <1>15 DEF IInv, TypeOK, Driver, StoredBacked, RowsBacked
<1>. QED
  BY <1>10, <1>11, <1>12, <1>13, <1>14, <1>16 DEF IInv

\* The marker is set on the whole output of the run that has just ended.
LEMMA MarkStep ==
  ASSUME IInv, Mark
  PROVE  IInv'
<1>. USE DEF Mark
<1>1. /\ driver \in Driver /\ driver.at \in DOMAIN Cams /\ driver.at >= 1
      /\ This \notin torn /\ runs[This] >= 1
      /\ file[This] = Written(This, runs[This], Size[This])
  BY DEF IInv, TypeOK, RunOK, PositionOK, In
<1>2. This \in Camera
  BY <1>1, CameraAt DEF This
<1>3. runs[This] \in 1..runs[This]
  BY <1>1, <1>2 DEF IInv, TypeOK
<1>4. Whole(This)
  BY <1>1, <1>2, <1>3, RunIsWritten DEF Whole
<1>5. /\ driver' \in Driver /\ driver'.phase = "cameras"
      /\ driver'.at = driver.at + 1 /\ driver'.rows = driver.rows
  <2>1. driver' = [driver EXCEPT !.phase = "cameras", !.at = @ + 1]
    OBVIOUS
  <2>2. "cameras" \in Phases /\ driver.at + 1 \in Nat
    BY <1>1 DEF Phases, Driver
  <2>. QED
    BY <1>1, <2>1, <2>2 DEF Driver
<1>6. TypeOK'
  BY <1>2, <1>5 DEF IInv, TypeOK
<1>7. PositionOK' /\ RunOK'
  <2>1. driver.at \in Nat
    BY <1>1 DEF Driver
  <2>. QED
    BY <1>1, <1>5, <2>1 DEF PositionOK, RunOK
<1>8. FilesOwn' /\ (\A d \in marker : Whole(d))'
  BY <1>4 DEF IInv, FilesOwn, Whole
<1>9. \A b : Backed(b) => Backed(b)'
  BY DEF Backed
<1>10. StoredBacked' /\ RowsBacked'
  BY <1>5, <1>9 DEF IInv, StoredBacked, RowsBacked
<1>. QED
  BY <1>6, <1>7, <1>8, <1>10 DEF IInv

\* A kill tears the file of a camera that has no marker.
LEMMA KillStep ==
  ASSUME IInv, Kill
  PROVE  IInv'
<1>. USE DEF Kill, Fault, Leave
<1>1. torn' = torn \/ (torn' = torn \cup {This} /\ In("pipeline"))
  OBVIOUS
<1>2. In("pipeline") => This \in Camera /\ This \notin marker
  BY CameraAt DEF IInv, RunOK, In, This
<1>3. TypeOK'
  BY <1>1, <1>2, OffTyped DEF IInv, TypeOK
<1>4. PositionOK' /\ RunOK'
  BY OffTyped DEF PositionOK, RunOK
<1>5. FilesOwn' /\ (\A d \in marker : Whole(d))'
  BY <1>1, <1>2 DEF IInv, FilesOwn, Whole
<1>6. \A b : Backed(b) => Backed(b)'
  BY DEF Backed
<1>7. StoredBacked' /\ RowsBacked'
  BY <1>6, OffTyped DEF IInv, StoredBacked, RowsBacked
<1>. QED
  BY <1>3, <1>4, <1>5, <1>7 DEF IInv

LEMMA StutterStep ==
  ASSUME IInv, UNCHANGED vars
  PROVE  IInv'
BY DEF vars, disk, IInv, TypeOK, PositionOK, FilesOwn, Whole, RunOK, This, StoredBacked,
   RowsBacked, Backed

LEMMA NextInv == IInv /\ [Next]_vars => IInv'
<1> SUFFICES ASSUME IInv, [Next]_vars PROVE IInv'
  OBVIOUS
<1>1. CASE StartSome
  <2>1. PICK only \in SUBSET Camera, clear \in BOOLEAN : Start(only, clear)
    BY <1>1 DEF StartSome
  <2>. QED
    BY <2>1, StartStep
<1>2. CASE DriverStep
  BY <1>2, RemoveFileStep, RemoveMarkerStep, StoreClearedStep, SkipStep, RunVideoStep,
     FlushStep, PipelineEndsStep, MarkStep, CamerasDoneStep, MergeStep, IngestStep
  DEF DriverStep
<1>3. CASE Kill \/ PipelineFails \/ PostFails
  BY <1>3, KillStep, PipelineFailsStep, PostFailsStep
<1>4. CASE UNCHANGED vars
  BY <1>4, StutterStep
<1>. QED
  BY <1>1, <1>2, <1>3, <1>4 DEF Next

-----------------------------------------------------------------------------
(* One run per camera in every file and post, and an id at most once in the   *)
(* service.                                                                    *)

OneRun(rows) == \A b, d \in rows : b.cam = d.cam => b.run = d.run

FilesOneRun == \A c \in Camera : OneRun(Range(file[c]))

RowsOneRun == \A s \in Store : OneRun(driver.rows[s])

IdsOnce == \A b, d \in stored : EventIdOf(b) = EventIdOf(d) => b = d

RunInv == FilesOneRun /\ RowsOneRun /\ IdsOnce

LEMMA InitRunInv == Init => RunInv
BY OffTyped DEF Init, RunInv, FilesOneRun, RowsOneRun, IdsOnce, OneRun, Range

\* Files are left, emptied, or hold what the pipeline that runs has written.
LEMMA FilesStayOneRun ==
  ASSUME IInv, IInv', FilesOneRun, [Next]_vars
  PROVE  FilesOneRun'
<1>1. CASE file' = file
  BY <1>1 DEF FilesOneRun
<1>2. CASE \E d \in Camera : file' = [file EXCEPT ![d] = <<>>]
  <2>1. PICK d \in Camera : file' = [file EXCEPT ![d] = <<>>]
    BY <1>2
  <2>2. \A c \in Camera : Range(file'[c]) = {} \/ file'[c] = file[c]
    BY <2>1 DEF IInv, TypeOK, Range
  <2>. QED
    BY <2>2 DEF FilesOneRun, OneRun
<1>3. CASE Flush
  <2>1. /\ driver \in Driver /\ driver'.phase = "pipeline" /\ driver'.at = driver.at
        /\ file' = [file EXCEPT ![This] = Append(@, Row(This, runs[This], driver.sent + 1))]
    BY <1>3 DEF Flush, In, IInv, TypeOK, Driver
  <2>2. This' = This
    BY <2>1 DEF This
  <2>3. /\ file'[This] = Written(This, runs'[This], driver'.sent)
        /\ driver'.at \in DOMAIN Cams
    BY <2>1, <2>2 DEF IInv, RunOK
  <2>4. This \in Camera /\ runs'[This] \in Nat /\ driver'.sent \in Nat
    BY <2>1, <2>3, CameraAt DEF This, IInv, TypeOK, Driver
  <2>5. \A b \in Range(file'[This]) : b.run = runs'[This]
    BY <2>3, <2>4, WrittenTyped
  <2>6. \A c \in Camera : c = This \/ file'[c] = file[c]
    BY <2>1 DEF IInv, TypeOK
  <2>. QED
    BY <2>5, <2>6 DEF FilesOneRun, OneRun
<1>4. file' = file \/ (\E d \in Camera : file' = [file EXCEPT ![d] = <<>>]) \/ Flush
  <2>1. CASE RunVideo
    <3>1. driver \in Driver /\ driver.at \in Nat /\ driver.at >= 1 /\ driver.at <= Len(Cams)
      BY <2>1 DEF RunVideo, In, IInv, TypeOK, PositionOK, Driver
    <3>3. driver.at \in DOMAIN Cams
      BY <3>1, BatchAssumption
    <3>2. This \in Camera
      BY <3>3, CameraAt DEF This
    <3>. QED
      BY <2>1, <3>2 DEF RunVideo, Reset
  <2>2. CASE ~RunVideo
    BY <2>2 DEF Next, vars, disk, StartSome, Start, DriverStep, RemoveFile, RemoveMarker,
       StoreCleared, Skip, PipelineEnds, Mark, CamerasDone, Merge, Ingest, Kill, PipelineFails,
       PostFails
  <2>. QED
    BY <2>1, <2>2
<1>. QED
  BY <1>1, <1>2, <1>3, <1>4

\* What a driver has read came from files of one run each.
LEMMA RowsStayOneRun ==
  ASSUME IInv, FilesOneRun, RowsOneRun, [Next]_vars
  PROVE  RowsOneRun'
<1>. DEFINE s == Stores[driver.at]
            read == UNION {Range(file[c]) : c \in Files(s)}
<1>1. OneRun(read)
  <2> SUFFICES ASSUME NEW c \in Files(s), NEW e \in Files(s),
                      NEW b \in Range(file[c]), NEW d \in Range(file[e]), b.cam = d.cam
               PROVE  b.run = d.run
    BY DEF OneRun
  <2>1. c \in Camera /\ e \in Camera
    BY DEF Files, CamsOf
  <2>2. b.cam = c /\ d.cam = e
    BY <2>1 DEF IInv, FilesOwn
  <2>3. OneRun(Range(file[c]))
    BY <2>1 DEF FilesOneRun
  <2>4. b \in Range(file[c]) /\ d \in Range(file[c])
    BY <2>2
  <2>. QED
    BY <2>3, <2>4 DEF OneRun
<1>. HIDE DEF s, read
<1>2. CASE Merge
  <2>1. driver \in Driver
    BY DEF IInv, TypeOK
  <2>2. \A t \in Store : driver'.rows[t] \in {{}, read, driver.rows[t]}
    <3>1. CASE driver' = Off
      BY <3>1, OffTyped
    <3>2. CASE \E phase, at : driver' = [driver EXCEPT !.rows[s] = read, !.phase = phase, !.at = at]
      BY <2>1, <3>2 DEF Driver
    <3>. QED
      BY <1>2, <3>1, <3>2 DEF Merge, Leave, s, read
  <2>3. OneRun({})
    BY DEF OneRun
  <2>. QED
    BY <1>1, <2>2, <2>3 DEF RowsOneRun
<1>3. CASE ~Merge
  <2>1. driver' = Off \/ driver'.rows = driver.rows \/ driver'.rows = NoRows
    <3>1. driver \in Driver
      BY DEF IInv, TypeOK
    <3>2. CASE StartSome
      <4>1. PICK only, clear : Start(only, clear)
        BY <3>2 DEF StartSome
      <4>. QED
        BY <4>1 DEF Start, Off
    <3>3. CASE DriverStep
      BY <1>3, <3>1, <3>3 DEF DriverStep, RemoveFile, RemoveMarker, StoreCleared, Go, Skip,
         RunVideo, Flush, PipelineEnds, Mark, CamerasDone, Ingest, Leave, Driver
    <3>4. CASE Kill \/ PipelineFails \/ PostFails
      BY <3>4 DEF Kill, PipelineFails, PostFails, Fault, Leave
    <3>. QED
      BY <3>2, <3>3, <3>4 DEF Next, vars
  <2>2. OneRun({})
    BY DEF OneRun
  <2>. QED
    BY <2>1, <2>2, OffTyped DEF RowsOneRun, NoRows
<1>. QED
  BY <1>2, <1>3

\* Two rows of one id are the same row, if their camera has one run.
LEMMA IdsTell ==
  ASSUME NEW b \in Rows, NEW d \in Rows, EventIdOf(b) = EventIdOf(d), b.run = d.run
  PROVE  b = d
<1>1. b.cam = d.cam /\ b.n = d.n
  BY DEF EventIdOf
<1>. QED
  BY <1>1 DEF Rows

LEMMA IdsStayOnce ==
  ASSUME IInv, RowsOneRun, IdsOnce, [Next]_vars
  PROVE  IdsOnce'
<1>1. CASE stored' = stored
  BY <1>1 DEF IdsOnce
<1>2. ASSUME NEW posted \in SUBSET driver.rows[Stores[driver.at]], In("ingest"),
             stored' = stored \cup NewRows(posted)
      PROVE  IdsOnce'
  <2>1. Stores[driver.at] \in Store
    BY <1>2, StoreAt DEF IInv, PositionOK, In
  <2>2. posted \subseteq Rows /\ OneRun(posted)
    BY <2>1 DEF IInv, TypeOK, Driver, RowsOneRun, OneRun
  <2>3. ASSUME NEW b \in NewRows(posted), NEW d \in NewRows(posted), EventIdOf(b) = EventIdOf(d)
        PROVE  b = d
    <3>1. b \in posted /\ d \in posted
      BY DEF NewRows
    <3>2. b.cam = d.cam
      BY <2>3 DEF EventIdOf
    <3>. QED
      BY <2>2, <2>3, <3>1, <3>2, IdsTell DEF OneRun
  <2>4. \A b \in NewRows(posted), d \in stored : EventIdOf(b) # EventIdOf(d)
    BY DEF NewRows
  <2>. QED
    BY <1>2, <2>3, <2>4 DEF IdsOnce
<1>3. CASE Ingest
  BY <1>2, <1>3 DEF Ingest
<1>4. CASE PostFails
  BY <1>2, <1>4 DEF PostFails, Fault
<1>5. stored' = stored \/ Ingest \/ PostFails
  BY DEF Next, vars, disk, StartSome, Start, DriverStep, RemoveFile, RemoveMarker,
     StoreCleared, Skip, RunVideo, Flush, PipelineEnds, Mark, CamerasDone, Merge, Kill,
     PipelineFails
<1>. QED
  BY <1>1, <1>3, <1>4, <1>5

-----------------------------------------------------------------------------
(* The theorems. *)

\* The state has its types and the driver knows what it needs to, always.
THEOREM Invariance == Spec => []IInv
BY InitInv, NextInv, PTL DEF Spec

\* A camera that later drivers skip has the whole output of one pipeline in its
\* file, or nothing, whatever was killed, failed or cleared before
\* (process_challenge_validation.py:81-99, 342-350).
THEOREM MarkedWhole == Spec => []MarkedIsWhole
<1>1. IInv => MarkedIsWhole
  BY DEF IInv, Whole, MarkedIsWhole
<1>. QED
  BY <1>1, Invariance, PTL

\* The rows of a camera that the service has are of one pipeline, but for cameras
\* that were merged incomplete or deleted, and even of those no event is stored
\* twice but a return, however often rows are posted again.
THEOREM StoredOneRun == Spec => []StoredOnce
<1>1. ASSUME IInv, RunInv, NEW b \in stored, NEW d \in stored, b.cam = d.cam, b # d
      PROVE  \/ b.run = d.run /\ b.n # d.n
             \/ b.cam \in exposed /\ (b.n = d.n => b.n \in Returns[b.cam])
  <2>. DEFINE c == b.cam
  <2>1. b \in Rows /\ d \in Rows
    BY <1>1 DEF IInv, TypeOK
  <2>2. EventIdOf(b) # EventIdOf(d)
    BY <1>1 DEF RunInv, IdsOnce
  <2>3. b.run = d.run => b.n # d.n
    BY <1>1, <2>2 DEF EventIdOf
  <2>4. CASE c \in exposed
    BY <1>1, <2>2, <2>4 DEF EventIdOf
  <2>5. CASE c \notin exposed
    <3>1. c \in marker /\ b \in Range(file[c]) /\ d \in Range(file[c])
      BY <1>1, <2>5 DEF IInv, StoredBacked, Backed
    <3>2. c \in Camera
      BY <2>1 DEF Rows
    <3>. QED
      BY <1>1, <2>3, <3>1, <3>2 DEF RunInv, FilesOneRun, OneRun
  <2>. QED
    BY <2>4, <2>5
<1>2. IInv /\ RunInv => StoredOnce
  BY <1>1 DEF StoredOnce
<1>3. RunInv /\ IInv /\ IInv' /\ [Next]_vars => RunInv'
  BY FilesStayOneRun, RowsStayOneRun, IdsStayOnce DEF RunInv
<1>. QED
  BY <1>2, <1>3, InitRunInv, Invariance, PTL DEF Spec

-----------------------------------------------------------------------------
(* The format of the logs *)

\* The events of the pipeline, with any names, zones, depths and products.
Envelopes(Name, Zone, Depth, Sku) ==
  [type : PipelineType, visitor : Name \cup {None}, person : Name \cup {None},
   track : Tracks \cup {None}, zone : Zone, dwell : Nat \cup {None}, dwellMs : Nat \cup {None},
   depth : Depth, sku : Sku, sequence : Nat \cup {None}, seq : Nat \cup {None}, staff : BOOLEAN]

\* A type goes through the table of the envelopes and back.
LEMMA TypeSurvives ==
  ASSUME NEW e, NEW f, e.type \in PipelineType, Consistent(e),
         f.type = InternalType(ChallengeType(e)), f.depth = e.depth
  PROVE  /\ ChallengeType(f) = ChallengeType(e)
         /\ f.type \in {"zone_dwell", "dwell"} <=> e.type \in {"zone_dwell", "dwell"}
<1>1. CASE e.type = "entry"
  BY <1>1 DEF Consistent, ChallengeType, InternalType, Misclassified
<1>2. CASE e.type = "queue_depth"
  BY <1>2 DEF Consistent, ChallengeType, InternalType, Misclassified
<1>3. CASE e.type \in {"exit", "zone_enter", "zone_exit", "reentry"}
  BY <1>3 DEF Consistent, ChallengeType, InternalType, Misclassified
<1>4. CASE e.type \in {"zone_dwell", "dwell", "queue_join", "queue_leave"}
  BY <1>4 DEF Consistent, ChallengeType, InternalType, Misclassified
<1>. QED
  BY <1>1, <1>2, <1>3, <1>4 DEF PipelineType

\* The visitor that an export names is one, and the key of the analytics if the
\* event has any.
LEMMA VisitorSurvives ==
  ASSUME NEW e, e.track \in Tracks \cup {None}
  PROVE  /\ ExportedVisitor(e, "random") # None
         /\ VisitorKey(e) # None => \A random : ExportedVisitor(e, random) = VisitorKey(e)
BY FormatAssumption DEF ExportedVisitor, VisitorKey, Or

\* Exporting a stored event once more takes a millisecond of its dwell and
\* nothing else, and the analytics know it under the visitor it had, for any
\* events that the pipeline makes (challenge_events.py, export_events_from_db.py).
THEOREM ExportTheorem ==
  ASSUME NEW Name, NEW Zone, NEW Depth, NEW Sku,
         NEW e \in Envelopes(Name, Zone, Depth, Sku), Consistent(e),
         NEW short \in {0, 1}, NEW again \in {0, 1}
  PROVE  StableExport(e, short, again)
<1>. DEFINE row == ToChallenge(e, "random", short)
            event == ToEnvelope(row)
            next == ToChallenge(FromTable(event), "other", again)
<1>1. /\ e.type \in PipelineType /\ e.track \in Tracks \cup {None}
      /\ e.dwell \in Nat \cup {None} /\ e.dwellMs \in Nat \cup {None}
      /\ e.sequence \in Nat \cup {None} /\ e.seq \in Nat \cup {None}
  BY DEF Envelopes
<1>2. /\ row.type = ChallengeType(e) /\ row.visitor = ExportedVisitor(e, "random")
      /\ row.zone = e.zone /\ row.depth = e.depth /\ row.sku = Or(e.sku, e.zone)
      /\ row.seq = OrPositive(e.sequence, e.seq) /\ row.staff = e.staff
  BY DEF ToChallenge
<1>3. row.dwell \in Nat
  <2>1. \A x \in Nat \cup {None} : OrPositive(x, 0) \in Nat
    BY FormatAssumption DEF OrPositive
  <2>2. \A x \in Nat : x > short => x - short \in Nat
    OBVIOUS
  <2>. QED
    BY <1>1, <2>1, <2>2 DEF ToChallenge
<1>4. /\ event.type = InternalType(row.type) /\ event.visitor = row.visitor /\ event.person = row.visitor
      /\ event.zone = row.zone /\ event.dwell = row.dwell /\ event.dwellMs = None
      /\ event.depth = row.depth /\ event.sku = row.sku /\ event.sequence = None
      /\ event.seq = row.seq /\ event.staff = row.staff
  BY DEF ToEnvelope
<1>5. row.visitor # None
  BY <1>1, <1>2, VisitorSurvives
<1>6. FromTable(event) = event
  <2>1. Or(event.visitor, event.person) = event.visitor
    BY <1>4, <1>5 DEF Or
  <2>2. event = [event EXCEPT !.visitor = event.visitor]
    BY DEF ToEnvelope
  <2>. QED
    BY <2>1, <2>2 DEF FromTable
<1>7. /\ next.type = ChallengeType(event) /\ next.visitor = ExportedVisitor(event, "other")
      /\ next.zone = event.zone /\ next.depth = event.depth /\ next.sku = Or(event.sku, event.zone)
      /\ next.seq = OrPositive(event.sequence, event.seq) /\ next.staff = event.staff
  BY <1>6 DEF ToChallenge
<1>8. next.dwell = IF event.dwell # None /\ event.dwell > again THEN event.dwell - again ELSE 0
  <2>1. OrPositive(event.dwellMs, 0) = 0
    BY <1>4 DEF OrPositive
  <2>. QED
    BY <1>6, <2>1 DEF ToChallenge
<1>. HIDE DEF row, event, next
<1>9. next.type = row.type
  BY <1>1, <1>2, <1>4, <1>7, TypeSurvives
<1>10. next.visitor = row.visitor /\ VisitorKey(event) = row.visitor
  BY <1>4, <1>5, <1>7 DEF ExportedVisitor, VisitorKey, Or
<1>11. next.sku = row.sku /\ next.seq = row.seq
  BY <1>2, <1>4, <1>7 DEF Or, OrPositive
<1>12. row.dwell - next.dwell \in 0..1
  BY <1>3, <1>4, <1>8, FormatAssumption
<1>13. WithoutDwell(next) = WithoutDwell(row)
  <2>1. /\ DOMAIN row = {"type", "visitor", "zone", "dwell", "depth", "sku", "seq", "staff"}
        /\ DOMAIN next = DOMAIN row
    BY DEF row, next, ToChallenge
  <2>2. \A f \in DOMAIN row \ {"dwell"} : next[f] = row[f]
    BY <1>2, <1>4, <1>7, <1>9, <1>10, <1>11, <2>1
  <2>. QED
    BY <2>1, <2>2 DEF WithoutDwell
<1>14. VisitorKey(e) # None => VisitorKey(event) = VisitorKey(e)
  BY <1>1, <1>2, <1>10, VisitorSurvives
<1>15. VisitorKey(e) # None => ToChallenge(FromTable(e), "other", short) = row
  <2>. DEFINE f == FromTable(e)
  <2>1. /\ f.type = e.type /\ f.person = e.person /\ f.track = e.track /\ f.zone = e.zone
        /\ f.dwell = e.dwell /\ f.dwellMs = e.dwellMs /\ f.depth = e.depth /\ f.sku = e.sku
        /\ f.sequence = e.sequence /\ f.seq = e.seq /\ f.staff = e.staff
        /\ f.visitor = Or(e.visitor, e.person)
    BY DEF FromTable, Envelopes
  <2>. HIDE DEF f
  <2>2. VisitorKey(e) # None => ExportedVisitor(f, "other") = ExportedVisitor(e, "random")
    BY <2>1 DEF ExportedVisitor, VisitorKey, Or
  <2>3. ChallengeType(f) = ChallengeType(e)
    BY <2>1 DEF ChallengeType, Misclassified
  <2>. QED
    BY <2>1, <2>2, <2>3 DEF row, f, ToChallenge
<1>. QED
  BY <1>12, <1>13, <1>14, <1>15 DEF StableExport, row, event, next

-----------------------------------------------------------------------------
(* What the coordinate stands for: crossings of a line on the plane *)

Plane == Int \X Int

Lines == [p1 : Plane, p2 : Plane, inward : {"bottom", "top", "left", "right", "other"}]

LEMMA ProductSign ==
  ASSUME NEW a \in Int, NEW b \in Int
  PROVE  /\ a * b \in Int
         /\ a * b < 0 <=> (a < 0 /\ b > 0) \/ (a > 0 /\ b < 0)
         /\ a * b > 0 <=> (a > 0 /\ b > 0) \/ (a < 0 /\ b < 0)
OBVIOUS

LEMMA Distributes ==
  ASSUME NEW a \in Int, NEW b \in Int, NEW c \in Int
  PROVE  /\ a * (b - c) = a * b - a * c
         /\ (b - c) * a = a * b - a * c
         /\ a * b \in Int /\ a * c \in Int
OBVIOUS

LEMMA SignIs ==
  ASSUME NEW a \in Int
  PROVE  /\ Sign(a) \in {-1, 0, 1}
         /\ Sign(a) = 1 <=> a > 0
         /\ Sign(a) = 0 <=> a = 0
         /\ Sign(a) = -1 <=> a < 0
BY DEF Sign

\* A step along the normal of a line is the change of the signed side.
LEMMA NormalIsCross ==
  ASSUME NEW ln \in Lines, NEW p \in Plane, NEW q \in Plane
  PROVE  /\ CrossSign(ln, p) \in Int /\ CrossSign(ln, q) \in Int
         /\ Dot(<<q[1] - p[1], q[2] - p[2]>>, Normal(ln)) = CrossSign(ln, q) - CrossSign(ln, p)
<1>. DEFINE dx == ln.p2[1] - ln.p1[1]
            dy == ln.p2[2] - ln.p1[2]
            x == ln.p1[1]
            y == ln.p1[2]
<1>1. /\ x \in Int /\ y \in Int /\ ln.p2[1] \in Int /\ ln.p2[2] \in Int
      /\ p[1] \in Int /\ p[2] \in Int /\ q[1] \in Int /\ q[2] \in Int
  BY DEF Lines, Plane
<1>2. dx \in Int /\ dy \in Int /\ Normal(ln) = <<-dy, dx>>
  BY <1>1 DEF Normal
<1>3. /\ CrossSign(ln, p) = dx * (p[2] - y) - dy * (p[1] - x)
      /\ CrossSign(ln, q) = dx * (q[2] - y) - dy * (q[1] - x)
  BY DEF CrossSign
<1>4. Dot(<<q[1] - p[1], q[2] - p[2]>>, Normal(ln)) = (q[1] - p[1]) * (-dy) + (q[2] - p[2]) * dx
  BY <1>2 DEF Dot
<1>. HIDE DEF dx, dy, x, y
<1>5. /\ dx * (p[2] - y) = dx * p[2] - dx * y /\ dx * (q[2] - y) = dx * q[2] - dx * y
      /\ dy * (p[1] - x) = dy * p[1] - dy * x /\ dy * (q[1] - x) = dy * q[1] - dy * x
      /\ (q[2] - p[2]) * dx = dx * q[2] - dx * p[2]
  BY <1>1, <1>2, Distributes DEF x, y
<1>6. (q[1] - p[1]) * (-dy) = dy * p[1] - dy * q[1]
  <2>1. \A a, b, c \in Int : (b - c) * (-a) = a * c - a * b
    OBVIOUS
  <2>. QED
    BY <1>1, <1>2, <2>1
<1>7. /\ dx * p[2] \in Int /\ dx * q[2] \in Int /\ dx * y \in Int
      /\ dy * p[1] \in Int /\ dy * q[1] \in Int /\ dy * x \in Int
  BY <1>1, <1>2, Distributes DEF x, y
<1>. QED
  BY <1>3, <1>4, <1>5, <1>6, <1>7

\* The inward normal of a line that has a length is one of its two normals, the
\* one on the named side where the line is not parallel to it.
LEMMA InwardIs ==
  ASSUME NEW ln \in Lines, ln.p1 # ln.p2
  PROVE  \E d \in {1, -1} :
           /\ Inward(ln) = <<d * Normal(ln)[1], d * Normal(ln)[2]>>
           /\ \A p \in Plane : Oriented(ln) => (Indoors(ln, p) <=> d * CrossSign(ln, p) > 0)
<1>. DEFINE n == Normal(ln)
            dx == ln.p2[1] - ln.p1[1]
            dy == ln.p2[2] - ln.p1[2]
<1>1. /\ ln.p1[1] \in Int /\ ln.p1[2] \in Int /\ ln.p2[1] \in Int /\ ln.p2[2] \in Int
      /\ ln.inward \in {"bottom", "top", "left", "right", "other"}
  BY DEF Lines, Plane
<1>2. /\ dx \in Int /\ dy \in Int
      /\ n[1] \in Int /\ n[2] \in Int /\ n[1] = -dy /\ n[2] = dx
      /\ n = <<1 * n[1], 1 * n[2]>> /\ <<-n[1], -n[2]>> = <<(-1) * n[1], (-1) * n[2]>>
  BY <1>1 DEF Normal
<1>3. Inward(ln) = IF \/ ln.inward = "bottom" /\ dx < 0
                      \/ ln.inward = "top" /\ dx > 0
                      \/ ln.inward = "left" /\ dy > 0
                      \/ ln.inward = "right" /\ dy < 0
                      \/ ln.inward = "other"
                   THEN n ELSE <<-n[1], -n[2]>>
  <2>. DEFINE at == [bottom |-> n[2] < 0, top |-> n[2] > 0, left |-> n[1] < 0, right |-> n[1] > 0,
                     other |-> TRUE]
  <2>1. Inward(ln) = IF at[ln.inward] THEN n ELSE <<-n[1], -n[2]>>
    BY Zenon DEF Inward
  <2>2. /\ at["bottom"] <=> n[2] < 0
        /\ at["top"] <=> n[2] > 0
        /\ at["left"] <=> n[1] < 0
        /\ at["right"] <=> n[1] > 0
        /\ at["other"]
    OBVIOUS
  <2>. HIDE DEF at, n, dx, dy
  <2>3. /\ n[2] < 0 <=> dx < 0
        /\ n[2] > 0 <=> dx > 0
        /\ n[1] < 0 <=> dy > 0
        /\ n[1] > 0 <=> dy < 0
    BY <1>2
  <2>4. CASE ln.inward = "bottom"
    BY <2>1, <2>2, <2>3, <2>4
  <2>5. CASE ln.inward = "top"
    BY <2>1, <2>2, <2>3, <2>5
  <2>6. CASE ln.inward = "left"
    BY <2>1, <2>2, <2>3, <2>6
  <2>7. CASE ln.inward = "right"
    BY <2>1, <2>2, <2>3, <2>7
  <2>8. CASE ln.inward = "other"
    BY <2>1, <2>2, <2>8
  <2>. QED
    BY <1>1, <2>4, <2>5, <2>6, <2>7, <2>8
<1>4. /\ Oriented(ln) => ln.inward # "other"
      /\ Oriented(ln) /\ ln.inward \in {"bottom", "top"} => dx > 0 \/ dx < 0
      /\ Oriented(ln) /\ ln.inward \in {"left", "right"} => dy > 0 \/ dy < 0
  BY <1>1 DEF Oriented
<1>5. ASSUME NEW p \in Plane
      PROVE  /\ ln.inward = "bottom" => (Indoors(ln, p) <=> CrossSign(ln, p) * dx < 0)
             /\ ln.inward = "top" => (Indoors(ln, p) <=> CrossSign(ln, p) * dx > 0)
             /\ ln.inward = "left" => (Indoors(ln, p) <=> CrossSign(ln, p) * dy > 0)
             /\ ln.inward = "right" => (Indoors(ln, p) <=> CrossSign(ln, p) * dy < 0)
             /\ CrossSign(ln, p) \in Int
  BY NormalIsCross DEF Indoors
<1>. HIDE DEF n, dx, dy
<1>6. ASSUME NEW p \in Plane
      PROVE  /\ CrossSign(ln, p) * dx < 0 <=>
                  \/ CrossSign(ln, p) < 0 /\ dx > 0
                  \/ CrossSign(ln, p) > 0 /\ dx < 0
             /\ CrossSign(ln, p) * dx > 0 <=>
                  \/ CrossSign(ln, p) > 0 /\ dx > 0
                  \/ CrossSign(ln, p) < 0 /\ dx < 0
             /\ CrossSign(ln, p) * dy < 0 <=>
                  \/ CrossSign(ln, p) < 0 /\ dy > 0
                  \/ CrossSign(ln, p) > 0 /\ dy < 0
             /\ CrossSign(ln, p) * dy > 0 <=>
                  \/ CrossSign(ln, p) > 0 /\ dy > 0
                  \/ CrossSign(ln, p) < 0 /\ dy < 0
             /\ 1 * CrossSign(ln, p) > 0 <=> CrossSign(ln, p) > 0
             /\ (-1) * CrossSign(ln, p) > 0 <=> CrossSign(ln, p) < 0
  <2>1. CrossSign(ln, p) \in Int
    BY <1>5
  <2>. QED
    BY <1>2, <2>1, ProductSign
<1>7. CASE Inward(ln) = n
  <2>1. Inward(ln) = <<1 * n[1], 1 * n[2]>>
    BY <1>2, <1>7
  <2>2. ASSUME NEW p \in Plane, Oriented(ln)
        PROVE  Indoors(ln, p) <=> 1 * CrossSign(ln, p) > 0
    <3>1. \/ ln.inward = "bottom" /\ dx < 0
          \/ ln.inward = "top" /\ dx > 0
          \/ ln.inward = "left" /\ dy > 0
          \/ ln.inward = "right" /\ dy < 0
      <4>1. CASE n = <<-n[1], -n[2]>>
        <5>1. dx = 0 /\ dy = 0
          BY <1>2, <4>1
        <5>. QED
          BY <1>1, <1>4, <2>2, <5>1
      <4>2. CASE n # <<-n[1], -n[2]>>
        BY <1>3, <1>4, <1>7, <2>2, <4>2
      <4>. QED
        BY <4>1, <4>2
    <3>2. CrossSign(ln, p) \in Int
      BY <1>5
    <3>. QED
      BY <1>2, <1>5, <1>6, <3>1, <3>2
  <2>. QED
    BY <2>1, <2>2 DEF n
<1>8. CASE Inward(ln) = <<-n[1], -n[2]>> /\ Inward(ln) # n
  <2>1. Inward(ln) = <<(-1) * n[1], (-1) * n[2]>>
    BY <1>2, <1>8
  <2>2. ASSUME NEW p \in Plane, Oriented(ln)
        PROVE  Indoors(ln, p) <=> (-1) * CrossSign(ln, p) > 0
    <3>1. \/ ln.inward = "bottom" /\ dx > 0
          \/ ln.inward = "top" /\ dx < 0
          \/ ln.inward = "left" /\ dy < 0
          \/ ln.inward = "right" /\ dy > 0
      BY <1>1, <1>3, <1>4, <1>8, <2>2
    <3>2. CrossSign(ln, p) \in Int
      BY <1>5
    <3>. QED
      BY <1>2, <1>5, <1>6, <3>1, <3>2
  <2>. QED
    BY <2>1, <2>2 DEF n
<1>. QED
  BY <1>3, <1>7, <1>8

\* Whatever the line and the step, a crossing is reported exactly when the side
\* of the infinite line changes, the way back is the opposite crossing, and who
\* enters is then on the side that the layout names (entry_exit.py,
\* classify_crossing).
THEOREM CrossingTheorem ==
  ASSUME NEW ln \in Lines, NEW p \in Plane, NEW q \in Plane
  PROVE  SideChange(p, q, ln)
<1>. DEFINE cp == CrossSign(ln, p)
            cq == CrossSign(ln, q)
            apart == (cp < 0 /\ cq > 0) \/ (cp > 0 /\ cq < 0)
<1>1. cp \in Int /\ cq \in Int
  BY NormalIsCross
<1>2. /\ SegmentsIntersect(p, q, ln) => apart
      /\ SegmentsIntersect(q, p, ln) => apart
  <2>1. cp * cq < 0 => apart
    BY <1>1, ProductSign
  <2>2. cq * cp < 0 => apart
    BY <1>1, ProductSign
  <2>. QED
    BY <2>1, <2>2 DEF SegmentsIntersect
<1>3. Sign(cp) * Sign(cq) = -1 <=> apart
  BY <1>1, SignIs
<1>4. CASE ~apart
  <2>1. 0 \in {Sign(cp), Sign(cq)} \/ Sign(cp) = Sign(cq)
    BY <1>1, <1>4 DEF Sign
  <2>2. Classify(p, q, ln) = "none" /\ Classify(q, p, ln) = "none"
    BY <1>2, <1>4, <2>1 DEF Classify
  <2>3. Opposite["none"] = "none"
    BY DEF Opposite
  <2>. QED
    BY <1>3, <1>4, <2>2, <2>3 DEF SideChange
<1>5. CASE apart
  <2>1. ln.p1 # ln.p2
    <3> SUFFICES ASSUME ln.p1 = ln.p2 PROVE FALSE
      OBVIOUS
    <3>1. \A o \in Plane : CrossSign(ln, o) = 0
      <4>1. \A a, b, c, d \in Int : (a - a) * (c - b) - (b - b) * (d - a) = 0
        OBVIOUS
      <4>. QED
        BY <4>1 DEF CrossSign, Lines, Plane
    <3>. QED
      BY <1>5, <3>1
  <2>2. PICK d \in {1, -1} :
          /\ Inward(ln) = <<d * Normal(ln)[1], d * Normal(ln)[2]>>
          /\ \A o \in Plane : Oriented(ln) => (Indoors(ln, o) <=> d * CrossSign(ln, o) > 0)
    BY <2>1, InwardIs
  <2>3. ASSUME NEW a \in Plane, NEW b \in Plane
        PROVE  Dot(<<b[1] - a[1], b[2] - a[2]>>, Inward(ln)) = d * (CrossSign(ln, b) - CrossSign(ln, a))
    <3>. DEFINE v == <<b[1] - a[1], b[2] - a[2]>>
                n == Normal(ln)
    <3>1. v[1] \in Int /\ v[2] \in Int /\ n[1] \in Int /\ n[2] \in Int
      BY DEF Plane, Lines, Normal
    <3>2. Dot(v, n) = CrossSign(ln, b) - CrossSign(ln, a)
      BY NormalIsCross
    <3>3. Dot(v, n) = v[1] * n[1] + v[2] * n[2]
      BY DEF Dot
    <3>4. Dot(v, Inward(ln)) = v[1] * (d * n[1]) + v[2] * (d * n[2])
      BY <2>2 DEF Dot
    <3>. HIDE DEF v, n
    <3>5. \A i, j, k, l \in Int : i * (d * k) + j * (d * l) = d * (i * k + j * l)
      BY <2>2
    <3>6. Dot(v, Inward(ln)) = d * Dot(v, n)
      BY <3>1, <3>3, <3>4, <3>5
    <3>. QED
      BY <3>2, <3>6 DEF v
  <2>4. /\ Sign(cp) # 0 /\ Sign(cq) # 0 /\ Sign(cp) # Sign(cq)
    BY <1>1, <1>5, SignIs
  <2>5. /\ Classify(p, q, ln) = IF d * (cq - cp) = 0 THEN "none"
                                ELSE IF d * (cq - cp) > 0 THEN "entry" ELSE "exit"
        /\ Classify(q, p, ln) = IF d * (cp - cq) = 0 THEN "none"
                                ELSE IF d * (cp - cq) > 0 THEN "entry" ELSE "exit"
    BY <2>3, <2>4 DEF Classify
  <2>. HIDE DEF cp, cq
  <2>6. /\ d * (cq - cp) # 0 /\ d * (cp - cq) # 0
        /\ d * (cq - cp) > 0 <=> d * cq > 0
        /\ d * (cp - cq) > 0 <=> ~(d * cq > 0)
    BY <1>1, <1>5, <2>2
  <2>7. Opposite["entry"] = "exit" /\ Opposite["exit"] = "entry"
    BY DEF Opposite
  <2>8. /\ Classify(p, q, ln) = IF d * cq > 0 THEN "entry" ELSE "exit"
        /\ Classify(q, p, ln) = IF d * cq > 0 THEN "exit" ELSE "entry"
    BY <2>5, <2>6
  <2>9. Oriented(ln) => (Indoors(ln, q) <=> d * cq > 0)
    BY <2>2 DEF cq
  <2>. QED
    BY <1>3, <1>5, <2>7, <2>8, <2>9 DEF SideChange, cp, cq
<1>. QED
  BY <1>4, <1>5

-----------------------------------------------------------------------------
(* Natural numbers, in the first-order form that the provers can use *)

\* A set of natural numbers has a least element, which Min chooses.
LEMMA LeastMember ==
  ASSUME NEW S \in SUBSET Nat, S # {}
  PROVE  Min(S) \in S /\ \A m \in S : Min(S) <= m
<1>. DEFINE R == {ss \in Nat \X Nat : ss[1] < ss[2]}
<1>1. IsWellFoundedOn(R, Nat)
  BY NatLessThanWellFounded DEF OpToRel
<1>2. \A m, n \in Nat : m < n => <<m, n>> \in R
  OBVIOUS
<1>3. PICK n \in S : \A m \in S : ~(<<m, n>> \in R)
  <2>. HIDE DEF R
  <2>. QED
    BY <1>1, WFMin
<1>4. ASSUME NEW m \in S PROVE n <= m
  <2>. HIDE DEF R
  <2>1. ~(m < n)
    BY <1>2, <1>3
  <2>. QED
    BY <2>1
<1>. QED
  BY <1>4 DEF Min

\* Induction up to n.
LEMMA UpTo ==
  ASSUME NEW n \in Nat, NEW S, 0 \in S, \A k \in 1..n : k - 1 \in S => k \in S
  PROVE  0..n \subseteq S
<1>. DEFINE missing == (0..n) \ S
<1>. SUFFICES ASSUME missing # {} PROVE FALSE
  OBVIOUS
<1>. DEFINE k == Min(missing)
<1>1. k \in missing /\ \A m \in missing : k <= m
  <2>1. missing \in SUBSET Nat
    OBVIOUS
  <2>. HIDE DEF missing
  <2>. QED
    BY <2>1, LeastMember
<1>. HIDE DEF k
<1>2. k \in 1..n /\ k - 1 \in 0..n
  BY <1>1
<1>3. k - 1 \notin missing
  BY <1>1, <1>2
<1>. QED
  BY <1>1, <1>2, <1>3

\* A bounded set of natural numbers has a greatest element, which Max chooses.
LEMMA GreatestMember ==
  ASSUME NEW n \in Nat, NEW S \in SUBSET (0..n), S # {}
  PROVE  Max(S) \in S /\ \A m \in S : m <= Max(S)
<1>. DEFINE below == {n - m : m \in S}
<1>1. below \in SUBSET Nat /\ below # {}
  <2>1. \A m \in S : n - m \in Nat
    OBVIOUS
  <2>. QED
    BY <2>1
<1>2. PICK b \in below : \A d \in below : b <= d
  <2>. HIDE DEF below
  <2>. QED
    BY <1>1, LeastMember
<1>3. PICK x \in S : b = n - x
  BY <1>2
<1>4. ASSUME NEW m \in S PROVE x >= m
  <2>1. n - m \in below
    OBVIOUS
  <2>2. n - x <= n - m
    <3>. HIDE DEF below
    <3>. QED
      BY <1>2, <1>3, <2>1
  <2>3. x \in 0..n /\ m \in 0..n
    OBVIOUS
  <2>. QED
    BY <2>2, <2>3
<1>5. \A y \in S : Max(S) >= y
  BY <1>4 DEF Max
<1>6. Max(S) \in S
  BY <1>4 DEF Max
<1>. QED
  BY <1>5, <1>6

LEMMA GreatestIs ==
  ASSUME NEW n \in Nat, NEW S \in SUBSET (0..n), NEW x \in S, \A m \in S : m <= x
  PROVE  Max(S) = x
<1>1. Max(S) \in S /\ \A m \in S : m <= Max(S)
  BY GreatestMember
<1>2. Max(S) \in 0..n /\ x \in 0..n
  BY <1>1
<1>3. x <= Max(S) /\ Max(S) <= x
  BY <1>1
<1>. QED
  BY <1>2, <1>3

-----------------------------------------------------------------------------
(* Folds *)

\* The fold of the steps 1 to n, as FoldLeft computes it: on every set of steps,
\* the greatest last.
Folds(it, base, n, step) ==
  \A s \in SUBSET (1..n) : it[s] = IF s = {} THEN base ELSE step[Max(s)][it[s \ {Max(s)}]]

\* Folding is possible over any set of accumulators.
LEMMA FoldExists ==
  ASSUME NEW A, NEW base \in A, NEW n \in Nat, NEW step \in [1..n -> [A -> A]]
  PROVE  \E it \in [SUBSET (1..n) -> A] : Folds(it, base, n, step)
<1>. DEFINE Partial(f, k) ==
              /\ f \in [SUBSET (1..k) -> A]
              /\ Folds(f, base, k, step)
            possible == {k \in 0..n : \E f : Partial(f, k)}
<1>1. 0 \in possible
  <2>1. SUBSET (1..0) = {{}}
    OBVIOUS
  <2>2. Partial([s \in SUBSET (1..0) |-> base], 0)
    BY <2>1 DEF Folds
  <2>. HIDE DEF Partial
  <2>. QED
    BY <2>2
<1>2. ASSUME NEW k \in 1..n, k - 1 \in possible PROVE k \in possible
  <2>1. PICK f : Partial(f, k - 1)
    BY <1>2
  <2>. DEFINE g == [s \in SUBSET (1..k) |-> IF k \in s THEN step[k][f[s \ {k}]] ELSE f[s]]
  <2>2. \A s \in SUBSET (1..k) : s \ {k} \in SUBSET (1..(k - 1))
    OBVIOUS
  <2>3. \A s \in SUBSET (1..k) : k \notin s => s \in SUBSET (1..(k - 1))
    OBVIOUS
  <2>4. g \in [SUBSET (1..k) -> A]
    <3>1. \A a \in A : step[k][a] \in A
      OBVIOUS
    <3>2. \A s \in SUBSET (1..(k - 1)) : f[s] \in A
      BY <2>1
    <3>. QED
      BY <2>2, <2>3, <3>1, <3>2
  <2>5. ASSUME NEW s \in SUBSET (1..k), k \in s
        PROVE  g[s] = IF s = {} THEN base ELSE step[Max(s)][g[s \ {Max(s)}]]
    <3>1. Max(s) = k
      <4>1. k \in Nat /\ s \in SUBSET (0..k) /\ \A m \in s : m <= k
        OBVIOUS
      <4>. QED
        BY <2>5, <4>1, GreatestIs
    <3>2. g[s \ {k}] = f[s \ {k}]
      BY <2>2
    <3>3. g[s] = step[k][f[s \ {k}]]
      BY <2>5
    <3>. QED
      BY <2>5, <3>1, <3>2, <3>3
  <2>6. ASSUME NEW s \in SUBSET (1..k), k \notin s
        PROVE  g[s] = IF s = {} THEN base ELSE step[Max(s)][g[s \ {Max(s)}]]
    <3>1. g[s] = f[s] /\ s \in SUBSET (1..(k - 1))
      BY <2>3, <2>6
    <3>2. k \notin s \ {Max(s)} /\ s \ {Max(s)} \in SUBSET (1..k)
      BY <2>6
    <3>3. g[s \ {Max(s)}] = f[s \ {Max(s)}]
      BY <3>2
    <3>4. f[s] = IF s = {} THEN base ELSE step[Max(s)][f[s \ {Max(s)}]]
      BY <2>1, <3>1 DEF Folds
    <3>. QED
      BY <3>1, <3>3, <3>4
  <2>7. Partial(g, k)
    BY <2>4, <2>5, <2>6 DEF Folds
  <2>. HIDE DEF Partial
  <2>. QED
    BY <2>7
<1>3. 0..n \subseteq possible
  <2>. HIDE DEF possible
  <2>. QED
    BY <1>1, <1>2, UpTo
<1>4. \E f : Partial(f, n)
  <2>1. n \in 0..n
    OBVIOUS
  <2>. HIDE DEF Partial
  <2>. QED
    BY <1>3, <2>1
<1>5. PICK f : Partial(f, n)
  BY <1>4
<1>. QED
  BY <1>5

\* The fold reaches its values one by one.
LEMMA Initial ==
  ASSUME NEW n \in Nat, NEW i \in 1..n
  PROVE  1..i # {} /\ Max(1..i) = i /\ (1..i) \ {i} = 1..(i - 1)
<1>1. i \in Nat /\ 1..i \in SUBSET (0..i) /\ i \in 1..i /\ \A m \in 1..i : m <= i
  OBVIOUS
<1>2. Max(1..i) = i
  BY <1>1, GreatestIs
<1>. QED
  BY <1>2

-----------------------------------------------------------------------------
(* The reader of a video *)

Readers(Pic) ==
  [index : Int, good : Nat, dropped : Nat, consecutive : Nat, over : BOOLEAN,
   frames : Seq([index : Int, picture : Pic])]

\* What one round of the loop makes of the state.
Ended(v, w) ==
  /\ w.index = v.index + 1 /\ w.good = v.good /\ w.dropped = v.dropped
  /\ w.consecutive = v.consecutive /\ w.over /\ w.frames = v.frames

Dropped(v, w) ==
  /\ w.index = v.index + 1 /\ w.good = v.good /\ w.dropped = v.dropped + 1
  /\ w.consecutive = v.consecutive + 1 /\ w.over = (v.consecutive + 1 >= MaxDrops) /\ w.frames = v.frames

Framed(v, w, read) ==
  /\ w.index = v.index + 1 /\ w.good = v.good + 1 /\ w.dropped = v.dropped
  /\ w.consecutive = 0 /\ ~w.over
  /\ w.frames = Append(v.frames, [index |-> v.index + 1, picture |-> read])

IsLost(v, read) == read.kind = "empty" \/ (read.kind = "eof" /\ v.good = 0)

LEMMA ReadIs ==
  ASSUME NEW Pic, NEW v \in Readers(Pic), NEW read \in Pic
  PROVE  /\ Read(v, read) \in Readers(Pic)
         /\ v.over => Read(v, read) = v
         /\ ~v.over /\ read.kind = "eof" /\ v.good > 0 => Ended(v, Read(v, read))
         /\ ~v.over /\ IsLost(v, read) => Dropped(v, Read(v, read))
         /\ ~v.over /\ Readable(read) => Framed(v, Read(v, read), read)
<1>. DEFINE next == [v EXCEPT !.index = v.index + 1]
            w == Read(v, read)
<1>1. /\ v.index \in Int /\ v.good \in Nat /\ v.dropped \in Nat /\ v.consecutive \in Nat
      /\ v.over \in BOOLEAN /\ v.frames \in Seq([index : Int, picture : Pic])
      /\ read.kind \in {"eof", "empty"} \/ Readable(read)
      /\ ~(Readable(read) /\ read.kind \in {"eof", "empty"})
  BY DEF Readers, Readable
<1>2. /\ next \in Readers(Pic) /\ next.index = v.index + 1 /\ next.good = v.good
      /\ next.dropped = v.dropped /\ next.consecutive = v.consecutive /\ next.over = v.over
      /\ next.frames = v.frames
  BY <1>1 DEF Readers
<1>3. w = CASE v.over -> v
            [] ~v.over /\ read.kind = "eof" /\ v.good > 0 -> [next EXCEPT !.over = TRUE]
            [] ~v.over /\ (read.kind = "empty" \/ (read.kind = "eof" /\ v.good = 0)) -> Drop(next)
            [] OTHER -> Good(next, read)
  BY DEF Read
<1>. HIDE DEF next, w
<1>4. CASE v.over
  <2>1. w = v
    BY <1>3, <1>4
  <2>. QED
    BY <1>4, <2>1 DEF w
<1>5. CASE ~v.over /\ read.kind = "eof" /\ v.good > 0
  <2>1. w = [next EXCEPT !.over = TRUE]
    BY <1>3, <1>5
  <2>2. w \in Readers(Pic) /\ Ended(v, w)
    BY <1>2, <2>1 DEF Readers, Ended
  <2>. QED
    BY <1>1, <1>5, <2>2 DEF w, IsLost
<1>6. CASE ~v.over /\ IsLost(v, read)
  <2>1. w = Drop(next)
    BY <1>1, <1>3, <1>6 DEF IsLost
  <2>2. (next.consecutive + 1 >= MaxDrops) \in BOOLEAN
    OBVIOUS
  <2>3. w = [next EXCEPT !.dropped = next.dropped + 1, !.consecutive = next.consecutive + 1,
                         !.over = (next.consecutive + 1 >= MaxDrops)]
    BY <2>1 DEF Drop
  <2>4. next.dropped + 1 \in Nat /\ next.consecutive + 1 \in Nat
    BY <1>1, <1>2
  <2>5. w \in Readers(Pic)
    BY <1>2, <2>2, <2>3, <2>4 DEF Readers
  <2>6. Dropped(v, w)
    BY <1>1, <1>2, <2>3 DEF Readers, Dropped
  <2>. QED
    BY <1>1, <1>6, <2>5, <2>6 DEF w, IsLost
<1>7. CASE ~v.over /\ Readable(read)
  <2>1. w = Good(next, read)
    BY <1>1, <1>3, <1>7
  <2>2. Append(next.frames, [index |-> next.index, picture |-> read]) \in Seq([index : Int, picture : Pic])
    BY <1>1, <1>2
  <2>3. w = [next EXCEPT !.good = next.good + 1, !.consecutive = 0,
                         !.frames = Append(next.frames, [index |-> next.index, picture |-> read])]
    BY <1>2, <2>1 DEF Good, GoodKeepsCount, Readers
  <2>4. w \in Readers(Pic)
    <3>1. next.good + 1 \in Nat /\ 0 \in Nat
      BY <1>1, <1>2
    <3>. QED
      BY <1>2, <2>2, <2>3, <3>1 DEF Readers
  <2>5. Framed(v, w, read)
    BY <1>1, <1>2, <1>7, <2>3 DEF Readers, Framed
  <2>. QED
    BY <1>1, <1>7, <2>4, <2>5 DEF w, IsLost
<1>. QED
  BY <1>1, <1>4, <1>5, <1>6, <1>7 DEF IsLost

LEMMA ReadAllIs ==
  ASSUME NEW Pic, NEW video, video.reads \in Seq(Pic)
  PROVE  \E f : /\ f \in [0..Len(video.reads) -> Readers(Pic)]
                /\ f[0] = Opened
                /\ \A i \in 1..Len(video.reads) : f[i] = Read(f[i - 1], video.reads[i])
                /\ ReadAll(video) = f[Len(video.reads)]
<1>. DEFINE reads == video.reads
            n == Len(reads)
            Rec(it) == it = [s \in SUBSET (DOMAIN reads) |->
                               IF s = {} THEN Opened ELSE Read(it[s \ {Max(s)}], reads[Max(s)])]
            fold == CHOOSE it : Rec(it)
            step == [i \in 1..n |-> [v \in Readers(Pic) |-> Read(v, reads[i])]]
            f == [i \in 0..n |-> fold[1..i]]
<1>1. n \in Nat /\ DOMAIN reads = 1..n /\ \A i \in 1..n : reads[i] \in Pic
  OBVIOUS
<1>2. Opened \in Readers(Pic)
  BY DEF Opened, Readers
<1>3. ReadAll(video) = fold[DOMAIN reads]
  BY DEF ReadAll, FoldLeft, MapThenFoldSet
<1>. HIDE DEF n, reads
<1>4. Rec(fold)
  <2>1. step \in [1..n -> [Readers(Pic) -> Readers(Pic)]]
    BY <1>1, ReadIs
  <2>. HIDE DEF step
  <2>2. PICK it \in [SUBSET (1..n) -> Readers(Pic)] :
          Folds(it, Opened, n, step)
    BY <1>1, <1>2, <2>1, FoldExists
  <2>3. ASSUME NEW s \in SUBSET (1..n), s # {}
        PROVE  step[Max(s)][it[s \ {Max(s)}]] = Read(it[s \ {Max(s)}], reads[Max(s)])
    <3>1. Max(s) \in 1..n
      <4>1. s \in SUBSET (0..n)
        OBVIOUS
      <4>. QED
        BY <1>1, <2>3, <4>1, GreatestMember
    <3>2. it[s \ {Max(s)}] \in Readers(Pic)
      OBVIOUS
    <3>. QED
      BY <3>1, <3>2 DEF step
  <2>4. Rec(it)
    BY <1>1, <2>2, <2>3 DEF Folds
  <2>. HIDE DEF Rec
  <2>. QED
    BY <2>4
<1>. HIDE DEF fold
<1>5. f[0] = Opened
  <2>1. 1..0 = {} /\ {} \in SUBSET (DOMAIN reads)
    OBVIOUS
  <2>2. 0 \in 0..n
    BY <1>1
  <2>. QED
    BY <1>4, <2>1, <2>2
<1>6. ASSUME NEW i \in 1..n PROVE f[i] = Read(f[i - 1], reads[i])
  <2>1. 1..i \in SUBSET (DOMAIN reads) /\ i \in 0..n /\ i - 1 \in 0..n
    BY <1>1
  <2>2. 1..i # {} /\ Max(1..i) = i /\ (1..i) \ {i} = 1..(i - 1)
    BY <1>1, Initial
  <2>3. fold[1..i] = Read(fold[(1..i) \ {Max(1..i)}], reads[Max(1..i)])
    BY <1>4, <2>1, <2>2
  <2>. QED
    BY <2>1, <2>2, <2>3
<1>. HIDE DEF f
<1>. DEFINE typed == {i \in 0..n : f[i] \in Readers(Pic)}
<1>7. 0..n \subseteq typed
  <2>1. 0 \in typed
    BY <1>1, <1>2, <1>5
  <2>2. ASSUME NEW k \in 1..n, k - 1 \in typed PROVE k \in typed
    BY <1>1, <1>6, <2>2, ReadIs
  <2>. HIDE DEF typed
  <2>. QED
    BY <1>1, <2>1, <2>2, UpTo
<1>8. ReadAll(video) = f[n] /\ DOMAIN f = 0..n /\ f = [i \in 0..n |-> f[i]]
  BY <1>1, <1>3 DEF f
<1>9. f \in [0..n -> Readers(Pic)]
  BY <1>7, <1>8
<1>. QED
  BY <1>5, <1>6, <1>8, <1>9 DEF n, reads

\* What the state says of the k reads so far: while the pass goes on, the reads
\* since the last good frame are counted as consecutive drops.
Standing(reads, k, v) ==
  /\ v.index = k - 1
  /\ v.good > 0 <=> \E j \in 1..k : Readable(reads[j])
  /\ v.consecutive \in 0..k /\ v.consecutive < MaxDrops
  /\ \A j \in 1..k : j > k - v.consecutive => IsDrop(reads, j)
  /\ v.consecutive = k \/ ~IsDrop(reads, k - v.consecutive)

FramesUpTo(reads, k) == {i \in PassOf(reads) : i <= k /\ Readable(reads[i])}

DropsUpTo(reads, k) == {i \in PassOf(reads) : i <= k /\ IsDrop(reads, i)}

Counts(reads, k, v) ==
  /\ {f.index : f \in Range(v.frames)} = {i - 1 : i \in FramesUpTo(reads, k)}
  /\ \A m, n \in DOMAIN v.frames : m < n => v.frames[m].index < v.frames[n].index
  /\ \A n \in DOMAIN v.frames : v.frames[n].picture = reads[v.frames[n].index + 1]
  /\ v.dropped = Cardinality(DropsUpTo(reads, k))

SoFar(reads, k, v) ==
  /\ v.over <=> \E j \in 1..k : EndsPass(reads, j)
  /\ ~v.over => Standing(reads, k, v)
  /\ Counts(reads, k, v)

\* One read: which reads are drops and which end the pass can be told from the
\* state before it.
LEMMA ReadingTells ==
  ASSUME NEW Pic, NEW reads \in Seq(Pic), NEW k \in 1..Len(reads),
         NEW v \in Readers(Pic), Standing(reads, k - 1, v)
  PROVE  /\ reads[k].kind = "eof" /\ v.good > 0 => EndsPass(reads, k) /\ ~IsDrop(reads, k)
         /\ IsLost(v, reads[k]) =>
              IsDrop(reads, k) /\ (EndsPass(reads, k) <=> v.consecutive + 1 >= MaxDrops)
         /\ Readable(reads[k]) => ~EndsPass(reads, k) /\ ~IsDrop(reads, k)
<1>. DEFINE c == v.consecutive
<1>1. /\ k \in Nat /\ k > 0 /\ c \in Nat /\ MaxDrops \in Nat /\ v.good \in Nat
      /\ reads[k].kind \in {"eof", "empty"} \/ Readable(reads[k])
      /\ ~(Readable(reads[k]) /\ reads[k].kind \in {"eof", "empty"})
  BY VideoAssumption DEF Readers, Readable
<1>2. /\ v.good > 0 <=> \E j \in 1..(k - 1) : Readable(reads[j])
      /\ c \in 0..(k - 1) /\ c < MaxDrops
      /\ \A j \in 1..(k - 1) : j > k - 1 - c => IsDrop(reads, j)
      /\ c = k - 1 \/ ~IsDrop(reads, k - 1 - c)
  BY DEF Standing
<1>. HIDE DEF c
<1>3. v.good > 0 => \E j \in 1..k : Readable(reads[j])
  BY <1>1, <1>2
<1>4. v.good = 0 /\ ~Readable(reads[k]) => \A j \in 1..k : ~Readable(reads[j])
  BY <1>1, <1>2
<1>5. IsLost(v, reads[k]) => IsDrop(reads, k)
  BY <1>1, <1>4 DEF IsLost, IsDrop
<1>6. IsLost(v, reads[k]) => ~(reads[k].kind = "eof" /\ \E j \in 1..k : Readable(reads[j]))
  BY <1>1, <1>4 DEF IsLost
<1>7. IsDrop(reads, k) /\ c + 1 >= MaxDrops =>
        k >= MaxDrops /\ \A j \in k - MaxDrops + 1..k : IsDrop(reads, j)
  <2>. SUFFICES ASSUME IsDrop(reads, k), c + 1 >= MaxDrops
                PROVE  k >= MaxDrops /\ \A j \in k - MaxDrops + 1..k : IsDrop(reads, j)
    OBVIOUS
  <2>1. k >= MaxDrops
    BY <1>1, <1>2
  <2>2. ASSUME NEW j \in k - MaxDrops + 1..k PROVE IsDrop(reads, j)
    <3>1. j = k \/ (j \in 1..(k - 1) /\ j > k - 1 - c)
      BY <1>1, <1>2, <2>1
    <3>. QED
      BY <1>2, <3>1
  <2>. QED
    BY <2>1, <2>2
<1>8. c + 1 < MaxDrops =>
        ~(k >= MaxDrops /\ \A j \in k - MaxDrops + 1..k : IsDrop(reads, j))
  <2>. SUFFICES ASSUME c + 1 < MaxDrops, k >= MaxDrops, \A j \in k - MaxDrops + 1..k : IsDrop(reads, j)
                PROVE  FALSE
    OBVIOUS
  <2>1. c # k - 1
    BY <1>1, <1>2
  <2>2. k - 1 - c \in k - MaxDrops + 1..k
    BY <1>1, <1>2
  <2>. QED
    BY <1>2, <2>1, <2>2
<1>9. /\ Readable(reads[k]) => ~IsDrop(reads, k)
      /\ reads[k].kind = "eof" /\ (\E j \in 1..k : Readable(reads[j])) => ~IsDrop(reads, k)
  BY <1>1 DEF IsDrop
<1>10. MaxDrops > 0 /\ k \in k - MaxDrops + 1..k
  BY <1>1, VideoAssumption
<1>11. Readable(reads[k]) => ~EndsPass(reads, k)
  BY <1>1, <1>9, <1>10 DEF EndsPass
<1>12. reads[k].kind = "eof" /\ v.good > 0 => EndsPass(reads, k)
  BY <1>3 DEF EndsPass
<1>13. IsLost(v, reads[k]) => (EndsPass(reads, k) <=> c + 1 >= MaxDrops)
  BY <1>1, <1>5, <1>6, <1>7, <1>8 DEF EndsPass
<1>. QED
  BY <1>3, <1>5, <1>9, <1>11, <1>12, <1>13 DEF c

\* Which reads the pass has, one read further.
LEMMA PassGrows ==
  ASSUME NEW Pic, NEW reads \in Seq(Pic), NEW k \in 1..Len(reads), NEW over \in BOOLEAN,
         over <=> \E j \in 1..(k - 1) : EndsPass(reads, j)
  PROVE  /\ FramesUpTo(reads, k) =
              FramesUpTo(reads, k - 1) \cup (IF ~over /\ Readable(reads[k]) THEN {k} ELSE {})
         /\ DropsUpTo(reads, k) =
              DropsUpTo(reads, k - 1) \cup (IF ~over /\ IsDrop(reads, k) THEN {k} ELSE {})
         /\ k \notin DropsUpTo(reads, k - 1)
         /\ \A i \in FramesUpTo(reads, k - 1) : i \in 1..(k - 1)
         /\ IsFiniteSet(DropsUpTo(reads, k - 1))
<1>1. k \in PassOf(reads) <=> ~over
  BY DEF PassOf
<1>2. \A i \in PassOf(reads) : i \in 1..Len(reads) /\ (i <= k <=> i <= k - 1 \/ i = k)
  BY DEF PassOf
<1>3. \A i \in PassOf(reads) : ~(k <= k - 1) /\ (i <= k - 1 => i \in 1..(k - 1))
  BY <1>2
<1>4. IsFiniteSet(DropsUpTo(reads, k - 1))
  <2>1. DropsUpTo(reads, k - 1) \subseteq 1..Len(reads) /\ Len(reads) \in Nat
    BY <1>2 DEF DropsUpTo
  <2>2. IsFiniteSet(1..Len(reads))
    BY <2>1, FS_Interval
  <2>. QED
    BY <2>1, <2>2, FS_Subset
<1>5. FramesUpTo(reads, k) =
        FramesUpTo(reads, k - 1) \cup (IF ~over /\ Readable(reads[k]) THEN {k} ELSE {})
  BY <1>1, <1>2 DEF FramesUpTo
<1>6. DropsUpTo(reads, k) =
        DropsUpTo(reads, k - 1) \cup (IF ~over /\ IsDrop(reads, k) THEN {k} ELSE {})
  BY <1>1, <1>2 DEF DropsUpTo
<1>7. k \notin DropsUpTo(reads, k - 1)
  BY <1>3 DEF DropsUpTo
<1>8. \A i \in FramesUpTo(reads, k - 1) : i \in 1..(k - 1)
  BY <1>3 DEF FramesUpTo
<1>. QED
  BY <1>4, <1>5, <1>6, <1>7, <1>8

LEMMA CountsSame ==
  ASSUME NEW reads, NEW k, NEW v, NEW w, Counts(reads, k - 1, v),
         w.frames = v.frames, w.dropped = v.dropped,
         FramesUpTo(reads, k) = FramesUpTo(reads, k - 1), DropsUpTo(reads, k) = DropsUpTo(reads, k - 1)
  PROVE  Counts(reads, k, w)
BY DEF Counts

LEMMA CountsDrop ==
  ASSUME NEW reads, NEW k, NEW v, NEW w, Counts(reads, k - 1, v),
         w.frames = v.frames, w.dropped = v.dropped + 1, v.dropped \in Nat,
         FramesUpTo(reads, k) = FramesUpTo(reads, k - 1),
         k \notin DropsUpTo(reads, k - 1), IsFiniteSet(DropsUpTo(reads, k - 1)),
         DropsUpTo(reads, k) = DropsUpTo(reads, k - 1) \cup {k}
  PROVE  Counts(reads, k, w)
<1>1. Cardinality(DropsUpTo(reads, k)) = Cardinality(DropsUpTo(reads, k - 1)) + 1
  BY FS_AddElement
<1>. QED
  BY <1>1 DEF Counts

LEMMA CountsFrame ==
  ASSUME NEW P, NEW reads, NEW k \in Nat, NEW v, NEW w, Counts(reads, k - 1, v),
         v.frames \in Seq([index : Int, picture : P]),
         NEW f \in [index : Int, picture : P], f.index = k - 1, f.picture = reads[k],
         w.frames = Append(v.frames, f), w.dropped = v.dropped,
         \A i \in FramesUpTo(reads, k - 1) : i \in 1..(k - 1),
         FramesUpTo(reads, k) = FramesUpTo(reads, k - 1) \cup {k},
         DropsUpTo(reads, k) = DropsUpTo(reads, k - 1)
  PROVE  Counts(reads, k, w)
<1>. DEFINE s == v.frames
            t == w.frames
            n == Len(s)
<1>1. /\ n \in Nat /\ DOMAIN s = 1..n /\ DOMAIN t = 1..(n + 1)
      /\ \A i \in 1..n : t[i] = s[i] /\ s[i].index \in Int
      /\ t[n + 1] = f
  <2>. DEFINE T == [index : Int, picture : P]
  <2>1. s \in Seq(T) /\ f \in T /\ t = Append(s, f) /\ \A x \in T : x.index \in Int
    OBVIOUS
  <2>. HIDE DEF T, s, t
  <2>2. n \in Nat /\ DOMAIN s = 1..n /\ \A i \in 1..n : s[i] \in T
    BY <2>1
  <2>3. DOMAIN t = 1..(n + 1) /\ t[n + 1] = f /\ \A i \in 1..n : t[i] = s[i]
    BY <2>1
  <2>. QED
    BY <2>1, <2>2, <2>3
<1>2. /\ {g.index : g \in Range(s)} = {i - 1 : i \in FramesUpTo(reads, k - 1)}
      /\ \A a, b \in DOMAIN s : a < b => s[a].index < s[b].index
      /\ \A a \in DOMAIN s : s[a].picture = reads[s[a].index + 1]
      /\ v.dropped = Cardinality(DropsUpTo(reads, k - 1))
  BY DEF Counts
<1>. HIDE DEF s, t, n
<1>3. Range(t) = Range(s) \cup {f}
  <2>1. 1..(n + 1) = 1..n \cup {n + 1}
    BY <1>1
  <2>. QED
    BY <1>1, <2>1 DEF Range
<1>4. {g.index : g \in Range(t)} = {i - 1 : i \in FramesUpTo(reads, k)}
  <2>1. {g.index : g \in Range(s)} = {i - 1 : i \in FramesUpTo(reads, k - 1)}
    BY <1>2
  <2>2. {g.index : g \in Range(t)} = {g.index : g \in Range(s)} \cup {f.index}
    BY <1>3
  <2>3. {i - 1 : i \in FramesUpTo(reads, k)} = {i - 1 : i \in FramesUpTo(reads, k - 1)} \cup {k - 1}
    OBVIOUS
  <2>. QED
    BY <2>1, <2>2, <2>3
<1>5. \A a \in 1..n : s[a].index < k - 1
  <2>. SUFFICES ASSUME NEW a \in 1..n PROVE s[a].index < k - 1
    OBVIOUS
  <2>1. s[a].index \in {g.index : g \in Range(s)}
    BY <1>1 DEF Range
  <2>2. PICK i \in FramesUpTo(reads, k - 1) : s[a].index = i - 1
    BY <1>2, <2>1
  <2>. QED
    BY <2>2
<1>6. \A a, b \in DOMAIN t : a < b => t[a].index < t[b].index
  <2>. SUFFICES ASSUME NEW a \in 1..(n + 1), NEW b \in 1..(n + 1), a < b
                PROVE  t[a].index < t[b].index
    BY <1>1
  <2>1. a \in 1..n /\ (b \in 1..n \/ b = n + 1)
    BY <1>1
  <2>. QED
    BY <1>1, <1>2, <1>5, <2>1
<1>7. \A a \in DOMAIN t : t[a].picture = reads[t[a].index + 1]
  <2>1. k - 1 + 1 = k
    OBVIOUS
  <2>2. n \in Nat
    BY <1>1
  <2>3. \A a \in 1..(n + 1) : a \in 1..n \/ a = n + 1
    BY <2>2
  <2>. QED
    BY <1>1, <1>2, <2>1, <2>3
<1>. QED
  BY <1>2, <1>4, <1>6, <1>7 DEF Counts, t, s

\* One read more.
LEMMA ReadingStep ==
  ASSUME NEW Pic, NEW reads \in Seq(Pic), NEW k \in 1..Len(reads),
         NEW v \in Readers(Pic), SoFar(reads, k - 1, v)
  PROVE  SoFar(reads, k, Read(v, reads[k]))
<1>. DEFINE w == Read(v, reads[k])
            r == reads[k]
<1>1. /\ k \in Nat /\ k > 0 /\ k - 1 \in Nat /\ r \in Pic /\ (r.kind \in {"eof", "empty"} \/ Readable(r))
      /\ v.good \in Nat /\ v.over \in BOOLEAN /\ v.dropped \in Nat
      /\ v.frames \in Seq([index : Int, picture : Pic]) /\ MaxDrops \in Nat /\ MaxDrops > 0
  BY VideoAssumption DEF Readers, Readable
<1>2. /\ v.over <=> \E j \in 1..(k - 1) : EndsPass(reads, j)
      /\ ~v.over => Standing(reads, k - 1, v)
      /\ Counts(reads, k - 1, v)
  BY DEF SoFar
<1>3. /\ v.over => w = v
      /\ ~v.over /\ r.kind = "eof" /\ v.good > 0 => Ended(v, w)
      /\ ~v.over /\ IsLost(v, r) => Dropped(v, w)
      /\ ~v.over /\ Readable(r) => Framed(v, w, r)
  BY <1>1, ReadIs
<1>4. /\ FramesUpTo(reads, k) =
              FramesUpTo(reads, k - 1) \cup (IF ~v.over /\ Readable(r) THEN {k} ELSE {})
      /\ DropsUpTo(reads, k) =
              DropsUpTo(reads, k - 1) \cup (IF ~v.over /\ IsDrop(reads, k) THEN {k} ELSE {})
      /\ k \notin DropsUpTo(reads, k - 1)
      /\ \A i \in FramesUpTo(reads, k - 1) : i \in 1..(k - 1)
      /\ IsFiniteSet(DropsUpTo(reads, k - 1))
  BY <1>1, <1>2, PassGrows
<1>5. ~v.over =>
        /\ r.kind = "eof" /\ v.good > 0 => EndsPass(reads, k) /\ ~IsDrop(reads, k)
        /\ IsLost(v, r) => IsDrop(reads, k) /\ (EndsPass(reads, k) <=> v.consecutive + 1 >= MaxDrops)
        /\ Readable(r) => ~EndsPass(reads, k) /\ ~IsDrop(reads, k)
  BY <1>2, ReadingTells
<1>6. \A j : j \in 1..k <=> j \in 1..(k - 1) \/ j = k
  BY <1>1
<1>. HIDE DEF w, r
<1>7. CASE v.over
  BY <1>2, <1>3, <1>4, <1>6, <1>7, CountsSame DEF SoFar, w
<1>8. CASE ~v.over /\ r.kind = "eof" /\ v.good > 0
  <2>1. Ended(v, w) /\ EndsPass(reads, k) /\ ~IsDrop(reads, k)
    BY <1>3, <1>5, <1>8
  <2>2. Counts(reads, k, w)
    <3>1. FramesUpTo(reads, k) = FramesUpTo(reads, k - 1) /\ DropsUpTo(reads, k) = DropsUpTo(reads, k - 1)
      BY <1>4, <1>8, <2>1 DEF Readable
    <3>. QED
      BY <1>2, <2>1, <3>1, CountsSame DEF Ended
  <2>. QED
    BY <1>6, <2>1, <2>2 DEF SoFar, Ended, w, r
<1>9. CASE ~v.over /\ IsLost(v, r)
  <2>1. Dropped(v, w) /\ IsDrop(reads, k) /\ (EndsPass(reads, k) <=> v.consecutive + 1 >= MaxDrops)
    BY <1>3, <1>5, <1>9
  <2>2. ~Readable(r)
    BY <1>9 DEF IsLost, Readable
  <2>3. Counts(reads, k, w)
    <3>1. FramesUpTo(reads, k) = FramesUpTo(reads, k - 1) /\ DropsUpTo(reads, k) = DropsUpTo(reads, k - 1) \cup {k}
      BY <1>4, <1>9, <2>1, <2>2
    <3>. QED
      BY <1>1, <1>2, <1>4, <2>1, <3>1, CountsDrop DEF Dropped
  <2>4. w.over <=> \E j \in 1..k : EndsPass(reads, j)
    BY <1>2, <1>6, <1>9, <2>1 DEF Dropped
  <2>5. ~w.over => Standing(reads, k, w)
    <3>. SUFFICES ASSUME ~w.over PROVE Standing(reads, k, w)
      OBVIOUS
    <3>1. Standing(reads, k - 1, v)
      BY <1>2, <1>9
    <3>. DEFINE c == v.consecutive
    <3>2. /\ v.index = k - 1 - 1
          /\ v.good > 0 <=> \E j \in 1..(k - 1) : Readable(reads[j])
          /\ c \in 0..(k - 1) /\ c < MaxDrops
          /\ \A j \in 1..(k - 1) : j > k - 1 - c => IsDrop(reads, j)
          /\ c = k - 1 \/ ~IsDrop(reads, k - 1 - c)
      BY <3>1 DEF Standing
    <3>3. w.index = v.index + 1 /\ w.good = v.good /\ w.consecutive = c + 1 /\ ~(c + 1 >= MaxDrops)
      BY <2>1 DEF Dropped
    <3>. HIDE DEF c
    <3>4. w.index = k - 1 /\ c + 1 \in 0..k /\ c + 1 < MaxDrops
      BY <1>1, <3>2, <3>3
    <3>5. w.good > 0 <=> \E j \in 1..k : Readable(reads[j])
      BY <1>6, <2>2, <3>2, <3>3 DEF r
    <3>6. k - (c + 1) = k - 1 - c /\ (c = k - 1 => c + 1 = k)
      BY <1>1, <3>2
    <3>7. \A j \in 1..k : j > k - (c + 1) => IsDrop(reads, j)
      BY <1>6, <2>1, <3>2, <3>6
    <3>. QED
      BY <3>2, <3>3, <3>4, <3>5, <3>6, <3>7 DEF Standing
  <2>. QED
    BY <2>3, <2>4, <2>5 DEF SoFar, w, r
<1>10. CASE ~v.over /\ Readable(r)
  <2>1. Framed(v, w, r) /\ ~IsDrop(reads, k) /\ ~EndsPass(reads, k) /\ Standing(reads, k - 1, v)
    BY <1>2, <1>3, <1>5, <1>10
  <2>2. v.index = k - 1 - 1
    BY <2>1 DEF Standing
  <2>3. Counts(reads, k, w)
    <3>. DEFINE f == [index |-> v.index + 1, picture |-> r]
    <3>1. FramesUpTo(reads, k) = FramesUpTo(reads, k - 1) \cup {k} /\ DropsUpTo(reads, k) = DropsUpTo(reads, k - 1)
      BY <1>4, <1>10, <2>1
    <3>2. f \in [index : Int, picture : Pic] /\ f.index = k - 1 /\ f.picture = reads[k]
      BY <1>1, <2>2 DEF r
    <3>3. w.frames = Append(v.frames, f) /\ w.dropped = v.dropped
      BY <2>1 DEF Framed
    <3>. HIDE DEF f
    <3>. QED
      BY <1>1, <1>2, <1>4, <3>1, <3>2, <3>3, CountsFrame
  <2>4. ~w.over /\ ~(\E j \in 1..k : EndsPass(reads, j))
    BY <1>2, <1>6, <1>10, <2>1 DEF Framed
  <2>5. Standing(reads, k, w)
    <3>1. w.index = k - 1 /\ w.good = v.good + 1 /\ w.consecutive = 0
      BY <1>1, <2>1, <2>2 DEF Framed
    <3>2. k - 0 = k /\ 0 \in 0..k /\ (\A j \in 1..k : ~(j > k)) /\ v.good + 1 > 0
      BY <1>1
    <3>3. \E j \in 1..k : Readable(reads[j])
      BY <1>6, <1>10 DEF r
    <3>. QED
      BY <1>1, <2>1, <3>1, <3>2, <3>3 DEF Standing
  <2>. QED
    BY <2>3, <2>4, <2>5 DEF SoFar, w, r
<1>. QED
  BY <1>1, <1>7, <1>8, <1>9, <1>10 DEF IsLost

\* Whatever the capture returns, frame by frame: every readable frame before the
\* end of the pass is processed under its number and in order, and every other
\* read of it but a closing end of file is counted (VideoReader.frames).
THEOREM ReaderTheorem ==
  ASSUME NEW Pic, NEW video, video.reads \in Seq(Pic)
  PROVE  Accounted(video)
<1>. DEFINE reads == video.reads
            n == Len(reads)
<1>1. PICK f : /\ f \in [0..n -> Readers(Pic)]
               /\ f[0] = Opened
               /\ \A i \in 1..n : f[i] = Read(f[i - 1], reads[i])
               /\ ReadAll(video) = f[n]
  BY ReadAllIs
<1>2. n \in Nat /\ DOMAIN reads = 1..n
  OBVIOUS
<1>. HIDE DEF reads
<1>. DEFINE told == {k \in 0..n : SoFar(reads, k, f[k])}
<1>3. 0 \in told
  <2>1. FramesUpTo(reads, 0) = {} /\ DropsUpTo(reads, 0) = {}
    <3>1. \A i \in PassOf(reads) : ~(i <= 0)
      BY <1>2 DEF PassOf
    <3>. QED
      BY <3>1 DEF FramesUpTo, DropsUpTo
  <2>2. /\ f[0].index = -1 /\ f[0].good = 0 /\ f[0].dropped = 0 /\ f[0].consecutive = 0
        /\ f[0].over = FALSE /\ f[0].frames = <<>>
    BY <1>1 DEF Opened
  <2>3. Counts(reads, 0, f[0])
    <3>1. Range(f[0].frames) = {} /\ DOMAIN f[0].frames = {}
      BY <2>2 DEF Range
    <3>. QED
      BY <2>1, <2>2, <3>1, FS_EmptySet DEF Counts
  <2>4. Standing(reads, 0, f[0])
    BY <2>2, VideoAssumption DEF Standing
  <2>5. SoFar(reads, 0, f[0])
    BY <2>2, <2>3, <2>4 DEF SoFar
  <2>. QED
    BY <1>2, <2>5
<1>4. ASSUME NEW k \in 1..n, k - 1 \in told PROVE k \in told
  <2>1. k \in 0..n /\ k - 1 \in 0..n /\ f[k - 1] \in Readers(Pic) /\ SoFar(reads, k - 1, f[k - 1])
    BY <1>1, <1>2, <1>4
  <2>2. SoFar(reads, k, Read(f[k - 1], reads[k]))
    BY <2>1, ReadingStep DEF reads
  <2>. QED
    BY <1>1, <2>1, <2>2
<1>5. SoFar(reads, n, f[n])
  <2>1. 0..n \subseteq told
    <3>. HIDE DEF told
    <3>. QED
      BY <1>2, <1>3, <1>4, UpTo
  <2>. QED
    BY <1>2, <2>1
<1>6. /\ FramesUpTo(reads, n) = ShownOf(reads)
      /\ DropsUpTo(reads, n) = {i \in PassOf(reads) : IsDrop(reads, i)}
  <2>1. \A i \in PassOf(reads) : i <= n
    BY <1>2 DEF PassOf
  <2>. QED
    BY <2>1 DEF FramesUpTo, DropsUpTo, ShownOf
<1>. QED
  BY <1>1, <1>5, <1>6 DEF Accounted, SoFar, Counts, reads

-----------------------------------------------------------------------------
(* The registry of tracks *)

\* A picture shows finitely many boxes.
Shows(Pic) == \A p \in Pic : p.ids \in SUBSET Int /\ IsFiniteSet(p.ids)

FramesOf(Pic) == [index : Nat, picture : Pic]

History ==
  [status : {"active", "lost", "ended"}, first : Nat, last : Nat, lost : Int, points : Seq(Nat)]

Registry ==
  [tracks : UNION {[D -> History] : D \in SUBSET Nat},
   groups : SUBSET [frame : Nat, ids : SUBSET Nat], instances : Nat]

\* What one frame makes of the registry.
Updated(t, w, frame) ==
  LET seen == Visitors(frame.picture)
  IN  /\ DOMAIN w.tracks = DOMAIN t.tracks \cup seen
      /\ \A i \in seen :
           w.tracks[i] = Sighted(IF i \in DOMAIN t.tracks THEN t.tracks[i] ELSE NewTrack(frame.index), frame.index)
      /\ \A i \in DOMAIN t.tracks \ seen : w.tracks[i] = Missed(t.tracks[i], frame.index)
      /\ w.groups = t.groups \cup {[frame |-> frame.index, ids |-> g] : g \in GroupEntries(w.tracks, frame.index)}

LEMMA LastOfTyped ==
  ASSUME NEW T, NEW s \in Seq(T), NEW n \in Nat \ {0}
  PROVE  LastOf(s, n) \in Seq(T)
<1>1. Len(s) \in Nat /\ \A i \in 1..Len(s) : s[i] \in T
  OBVIOUS
<1>2. CASE Len(s) > n
  BY <1>1, <1>2 DEF LastOf
<1>3. CASE ~(Len(s) > n)
  BY <1>1, <1>3 DEF LastOf
<1>. QED
  BY <1>2, <1>3

LEMMA SightedIs ==
  ASSUME NEW track \in History, NEW n \in Nat
  PROVE  /\ Sighted(track, n) \in History
         /\ Sighted(track, n).status = "active"
         /\ Sighted(track, n).first = track.first
         /\ Sighted(track, n).points = LastOf(Append(track.points, n), MaxPoints)
<1>1. Append(track.points, n) \in Seq(Nat)
  BY DEF History
<1>2. LastOf(Append(track.points, n), MaxPoints) \in Seq(Nat)
  BY <1>1, LastOfTyped, VideoAssumption
<1>. DEFINE points == LastOf(Append(track.points, n), MaxPoints)
<1>3. Sighted(track, n) = [track EXCEPT !.status = "active", !.lost = -1, !.last = n, !.points = points]
  BY DEF Sighted, History
<1>. HIDE DEF points
<1>4. -1 \in Int
  OBVIOUS
<1>. QED
  BY <1>2, <1>3, <1>4 DEF History, points

LEMMA NewTrackIs ==
  ASSUME NEW n \in Nat
  PROVE  NewTrack(n) \in History /\ NewTrack(n).first = n /\ NewTrack(n).points = <<>>
<1>1. -1 \in Int /\ <<>> \in Seq(Nat)
  OBVIOUS
<1>. QED
  BY <1>1 DEF NewTrack, History

LEMMA MissedIs ==
  ASSUME NEW track \in History, NEW n \in Nat
  PROVE  /\ Missed(track, n) \in History
         /\ Missed(track, n).first = track.first
         /\ Missed(track, n).points = track.points
         /\ track.status = "active" => Missed(track, n).status = "lost" /\ Missed(track, n).lost = n
         /\ track.status = "lost" =>
              /\ Missed(track, n).lost = track.lost
              /\ Missed(track, n).status = IF n - track.lost > TrackTimeout THEN "ended" ELSE "lost"
         /\ track.status = "ended" => Missed(track, n) = track
<1>1. track.status \in {"active", "lost", "ended"} /\ n \in Int
  BY DEF History
<1>2. CASE track.status = "active"
  <2>1. Missed(track, n) = [track EXCEPT !.status = "lost", !.lost = n]
    BY <1>2 DEF Missed
  <2>. QED
    BY <1>1, <1>2, <2>1 DEF History
<1>3. CASE track.status = "lost" /\ n - track.lost > TrackTimeout
  <2>1. Missed(track, n) = [track EXCEPT !.status = "ended", !.last = n]
    BY <1>3 DEF Missed
  <2>. QED
    BY <1>1, <1>3, <2>1 DEF History
<1>4. CASE track.status = "lost" /\ ~(n - track.lost > TrackTimeout)
  <2>1. Missed(track, n) = track
    BY <1>4 DEF Missed
  <2>. QED
    BY <1>4, <2>1
<1>5. CASE track.status = "ended"
  <2>1. Missed(track, n) = track
    BY <1>5 DEF Missed
  <2>. QED
    BY <1>5, <2>1
<1>. QED
  BY <1>1, <1>2, <1>3, <1>4, <1>5

LEMMA TrackFrameIs ==
  ASSUME NEW Pic, Shows(Pic), NEW t \in Registry, NEW frame \in FramesOf(Pic)
  PROVE  TrackFrame(t, frame) \in Registry /\ Updated(t, TrackFrame(t, frame), frame)
<1>. DEFINE seen == Visitors(frame.picture)
            n == frame.index
            old == t.tracks
            new == UpdateFrame(old, n, seen)
            added == {[frame |-> n, ids |-> g] : g \in GroupEntries(new, n)}
            w == TrackFrame(t, frame)
<1>1. n \in Nat /\ frame.picture \in Pic
  BY DEF FramesOf
<1>2. seen \in SUBSET Nat /\ IsFiniteSet(seen)
  <2>1. seen \subseteq frame.picture.ids /\ frame.picture.ids \in SUBSET Int /\ IsFiniteSet(frame.picture.ids)
    BY <1>1 DEF Shows, Visitors
  <2>2. IsFiniteSet(seen)
    BY <2>1, FS_Subset
  <2>. QED
    BY <2>1, <2>2 DEF Visitors
<1>3. PICK D \in SUBSET Nat : old \in [D -> History]
  BY DEF Registry
<1>4. w = [tracks |-> new, groups |-> t.groups \cup added, instances |-> t.instances + Cardinality(seen)]
  BY DEF TrackFrame
<1>5. t.instances + Cardinality(seen) \in Nat
  <2>1. Cardinality(seen) \in Nat /\ t.instances \in Nat
    BY <1>2, FS_CardinalityType DEF Registry
  <2>. QED
    BY <2>1
<1>. HIDE DEF seen, n, old, w
<1>6. new = [i \in D \cup seen |->
               IF i \in seen THEN Sighted(IF i \in D THEN old[i] ELSE NewTrack(n), n) ELSE Missed(old[i], n)]
  BY <1>3 DEF UpdateFrame
<1>7. new \in [D \cup seen -> History]
  <2>1. \A i \in D : old[i] \in History
    BY <1>3
  <2>2. \A i \in seen : Sighted(IF i \in D THEN old[i] ELSE NewTrack(n), n) \in History
    BY <1>1, <2>1, SightedIs, NewTrackIs
  <2>3. \A i \in D : Missed(old[i], n) \in History
    BY <1>1, <2>1, MissedIs
  <2>. QED
    BY <1>6, <2>2, <2>3
<1>8. \A g \in GroupEntries(new, n) : g \in SUBSET Nat
  BY <1>2, <1>3, <1>7 DEF GroupEntries
<1>. HIDE DEF new
<1>9. added \in SUBSET [frame : Nat, ids : SUBSET Nat]
  BY <1>1, <1>8
<1>10. w \in Registry
  <2>1. D \cup seen \in SUBSET Nat
    BY <1>2
  <2>2. new \in UNION {[E -> History] : E \in SUBSET Nat}
    BY <1>7, <2>1
  <2>3. t.groups \cup added \in SUBSET [frame : Nat, ids : SUBSET Nat]
    BY <1>9 DEF Registry
  <2>. HIDE DEF added
  <2>. QED
    BY <1>4, <1>5, <2>2, <2>3 DEF Registry
<1>11. Updated(t, w, frame)
  <2>1. w.tracks = new /\ w.groups = t.groups \cup added
    BY <1>4
  <2>2. DOMAIN new = D \cup seen /\ DOMAIN old = D
    BY <1>3, <1>7
  <2>. QED
    BY <1>6, <2>1, <2>2 DEF Updated, seen, n, old
<1>. QED
  BY <1>10, <1>11 DEF w

LEMMA NoTracksTyped == NoTracks \in Registry
<1>1. <<>> \in [{} -> History] /\ {} \in SUBSET Nat
  OBVIOUS
<1>2. <<>> \in UNION {[D -> History] : D \in SUBSET Nat}
  BY <1>1
<1>. QED
  BY <1>2 DEF NoTracks, Registry

LEMMA TrackAllIs ==
  ASSUME NEW Pic, Shows(Pic), NEW frames \in Seq(FramesOf(Pic))
  PROVE  \E f : /\ f \in [0..Len(frames) -> Registry]
                /\ f[0] = NoTracks
                /\ \A i \in 1..Len(frames) : f[i] = TrackFrame(f[i - 1], frames[i])
                /\ TrackAll(frames) = f[Len(frames)]
<1>. DEFINE n == Len(frames)
            Rec(it) == it = [s \in SUBSET (DOMAIN frames) |->
                               IF s = {} THEN NoTracks ELSE TrackFrame(it[s \ {Max(s)}], frames[Max(s)])]
            fold == CHOOSE it : Rec(it)
            step == [i \in 1..n |-> [t \in Registry |-> TrackFrame(t, frames[i])]]
            f == [i \in 0..n |-> fold[1..i]]
            typed == {i \in 0..n : f[i] \in Registry}
<1>1. n \in Nat /\ DOMAIN frames = 1..n /\ \A i \in 1..n : frames[i] \in FramesOf(Pic)
  OBVIOUS
<1>2. TrackAll(frames) = fold[DOMAIN frames]
  BY DEF TrackAll, FoldLeft, MapThenFoldSet
<1>. HIDE DEF n
<1>3. Rec(fold)
  <2>1. step \in [1..n -> [Registry -> Registry]]
    BY <1>1, TrackFrameIs
  <2>. HIDE DEF step
  <2>2. PICK it \in [SUBSET (1..n) -> Registry] : Folds(it, NoTracks, n, step)
    BY <1>1, <2>1, FoldExists, NoTracksTyped
  <2>3. ASSUME NEW s \in SUBSET (1..n), s # {}
        PROVE  step[Max(s)][it[s \ {Max(s)}]] = TrackFrame(it[s \ {Max(s)}], frames[Max(s)])
    <3>1. Max(s) \in 1..n
      <4>1. s \in SUBSET (0..n)
        OBVIOUS
      <4>. QED
        BY <1>1, <2>3, <4>1, GreatestMember
    <3>2. it[s \ {Max(s)}] \in Registry
      OBVIOUS
    <3>. QED
      BY <3>1, <3>2 DEF step
  <2>4. Rec(it)
    BY <1>1, <2>2, <2>3 DEF Folds
  <2>. HIDE DEF Rec
  <2>. QED
    BY <2>4
<1>. HIDE DEF fold
<1>4. f[0] = NoTracks
  <2>1. 1..0 = {} /\ {} \in SUBSET (DOMAIN frames)
    OBVIOUS
  <2>2. 0 \in 0..n
    BY <1>1
  <2>. QED
    BY <1>3, <2>1, <2>2
<1>5. ASSUME NEW i \in 1..n PROVE f[i] = TrackFrame(f[i - 1], frames[i])
  <2>1. 1..i \in SUBSET (DOMAIN frames) /\ i \in 0..n /\ i - 1 \in 0..n
    BY <1>1
  <2>2. 1..i # {} /\ Max(1..i) = i /\ (1..i) \ {i} = 1..(i - 1)
    BY <1>1, Initial
  <2>3. fold[1..i] = TrackFrame(fold[(1..i) \ {Max(1..i)}], frames[Max(1..i)])
    BY <1>3, <2>1, <2>2
  <2>. QED
    BY <2>1, <2>2, <2>3
<1>. HIDE DEF f
<1>6. 0..n \subseteq typed
  <2>1. 0 \in typed
    BY <1>1, <1>4, NoTracksTyped
  <2>2. ASSUME NEW k \in 1..n, k - 1 \in typed PROVE k \in typed
    BY <1>1, <1>5, <2>2, TrackFrameIs
  <2>. HIDE DEF typed
  <2>. QED
    BY <1>1, <2>1, <2>2, UpTo
<1>7. TrackAll(frames) = f[n] /\ DOMAIN f = 0..n /\ f = [i \in 0..n |-> f[i]]
  BY <1>1, <1>2 DEF f
<1>8. f \in [0..n -> Registry]
  BY <1>6, <1>7
<1>. QED
  BY <1>4, <1>5, <1>7, <1>8 DEF n

-----------------------------------------------------------------------------
(* What a track remembers: the last sightings *)

\* The sightings among the first k frames.
SeenBy(frames, k, i) == {n \in 1..k : i \in frames[n].picture.ids}

\* q lists the latest of S in their order: all of S, or MaxPoints of it.
Latest(S, q) ==
  /\ Len(q) <= MaxPoints
  /\ \A j \in DOMAIN q : q[j] \in S
  /\ \A a, b \in DOMAIN q : a < b => q[a] < q[b]
  /\ \A m \in S : m \notin Range(q) => Len(q) = MaxPoints /\ \A j \in DOMAIN q : m < q[j]

Remembers(frames, S, points) ==
  \E q \in Seq(Nat) :
    /\ Latest(S, q)
    /\ Len(points) = Len(q)
    /\ \A j \in DOMAIN q : points[j] = frames[q[j]].index

\* The length and the elements of what is kept, t, of n elements s and one more.
Kept(s, n, x, t) ==
  /\ t \in Seq(Nat)
  /\ n < MaxPoints => Len(t) = n + 1 /\ (\A j \in 1..n : t[j] = s[j]) /\ t[n + 1] = x
  /\ n = MaxPoints => Len(t) = n /\ (\A j \in 1..(n - 1) : t[j] = s[j + 1]) /\ t[n] = x

LEMMA LastAppended ==
  ASSUME NEW s \in Seq(Nat), NEW x \in Nat, Len(s) <= MaxPoints
  PROVE  Kept(s, Len(s), x, LastOf(Append(s, x), MaxPoints))
<1>. DEFINE a == Append(s, x)
            n == Len(s)
<1>1. MaxPoints \in Nat /\ MaxPoints > 0 /\ n \in Nat
  BY VideoAssumption
<1>2. a \in Seq(Nat) /\ Len(a) = n + 1 /\ a[n + 1] = x /\ \A j \in 1..n : a[j] = s[j]
  OBVIOUS
<1>3. LastOf(a, MaxPoints) \in Seq(Nat)
  <2>1. MaxPoints \in Nat \ {0} /\ a \in Seq(Nat)
    BY <1>1, <1>2
  <2>. HIDE DEF a
  <2>. QED
    BY <2>1, LastOfTyped
<1>. HIDE DEF a, n
<1>4. CASE n < MaxPoints
  <2>1. LastOf(a, MaxPoints) = SubSeq(a, 1, n + 1)
    BY <1>1, <1>2, <1>4 DEF LastOf
  <2>2. Len(SubSeq(a, 1, n + 1)) = n + 1 /\ \A j \in 1..(n + 1) : SubSeq(a, 1, n + 1)[j] = a[j]
    BY <1>1, <1>2
  <2>. QED
    BY <1>1, <1>2, <1>3, <1>4, <2>1, <2>2 DEF a, n, Kept
<1>5. CASE n = MaxPoints
  <2>1. LastOf(a, MaxPoints) = SubSeq(a, 2, n + 1)
    <3>1. n + 1 > MaxPoints /\ (n + 1) - MaxPoints + 1 = 2
      BY <1>1, <1>5
    <3>2. (Len(a) - MaxPoints) + 1 = 2
      BY <1>1, <1>2, <1>5
    <3>. QED
      BY <1>2, <3>1, <3>2 DEF LastOf
  <2>2. Len(SubSeq(a, 2, n + 1)) = n /\ \A j \in 1..n : SubSeq(a, 2, n + 1)[j] = a[j + 1]
    BY <1>1, <1>2
  <2>3. \A j \in 1..(n - 1) : j \in 1..n /\ j + 1 \in 1..n
    BY <1>1
  <2>4. n \in 1..n
    BY <1>1, <1>5
  <2>. QED
    BY <1>1, <1>2, <1>3, <1>5, <2>1, <2>2, <2>3, <2>4 DEF a, n, Kept
<1>. QED
  BY <1>1, <1>4, <1>5 DEF n

LEMMA RememberedStep ==
  ASSUME NEW frames, NEW k \in Nat \ {0}, NEW S \in SUBSET (1..(k - 1)), NEW points \in Seq(Nat),
         frames[k].index \in Nat, Remembers(frames, S, points)
  PROVE  Remembers(frames, S \cup {k}, LastOf(Append(points, frames[k].index), MaxPoints))
<1>1. PICK q \in Seq(Nat) : /\ Latest(S, q) /\ Len(points) = Len(q)
                            /\ \A j \in DOMAIN q : points[j] = frames[q[j]].index
  BY DEF Remembers
<1>. DEFINE n == Len(q)
            x == frames[k].index
            r == LastOf(Append(q, k), MaxPoints)
            p == LastOf(Append(points, x), MaxPoints)
<1>2. /\ n \in Nat /\ DOMAIN q = 1..n /\ n <= MaxPoints /\ Len(points) = n
      /\ MaxPoints \in Nat /\ MaxPoints > 0 /\ \A j \in 1..n : q[j] \in Nat
  BY <1>1, VideoAssumption DEF Latest
<1>3. /\ \A j \in 1..n : q[j] \in S
      /\ \A a, b \in 1..n : a < b => q[a] < q[b]
      /\ \A m \in S : m \notin Range(q) => n = MaxPoints /\ \A j \in 1..n : m < q[j]
      /\ \A j \in 1..n : points[j] = frames[q[j]].index
  BY <1>1, <1>2 DEF Latest
<1>2a. n \in Nat
  BY <1>2
<1>3a. /\ \A m \in S : m \in Nat /\ m < k
      /\ \A j \in 1..n : q[j] \in Nat /\ q[j] < k
  <2>1. \A m \in 1..(k - 1) : m \in Nat /\ m < k
    OBVIOUS
  <2>2. \A m \in S : m \in Nat /\ m < k
    BY <2>1
  <2>. QED
    BY <1>3, <2>2
<1>3b. Kept(q, n, k, r)
  BY <1>2, LastAppended
<1>3c. Kept(points, n, x, p)
  BY <1>2, LastAppended
<1>. HIDE DEF n, r, p
<1>4. /\ r \in Seq(Nat)
      /\ n < MaxPoints => Len(r) = n + 1 /\ (\A j \in 1..n : r[j] = q[j]) /\ r[n + 1] = k
      /\ n = MaxPoints => Len(r) = n /\ (\A j \in 1..(n - 1) : r[j] = q[j + 1]) /\ r[n] = k
  BY <1>3b DEF Kept
<1>5. /\ p \in Seq(Nat)
      /\ n < MaxPoints => Len(p) = n + 1 /\ (\A j \in 1..n : p[j] = points[j]) /\ p[n + 1] = x
      /\ n = MaxPoints => Len(p) = n /\ (\A j \in 1..(n - 1) : p[j] = points[j + 1]) /\ p[n] = x
  BY <1>3c DEF Kept
<1>6. CASE n < MaxPoints
  <2>1. DOMAIN r = 1..(n + 1) /\ \A j \in 1..(n + 1) : j \in 1..n \/ j = n + 1
    BY <1>2, <1>4, <1>6
  <2>2. \A j \in DOMAIN r : r[j] \in S \cup {k}
    BY <1>3, <1>4, <1>6, <2>1
  <2>3. \A a, b \in DOMAIN r : a < b => r[a] < r[b]
    <3>. SUFFICES ASSUME NEW a \in 1..(n + 1), NEW b \in 1..(n + 1), a < b PROVE r[a] < r[b]
      BY <2>1
    <3>1. a \in 1..n
      BY <1>2
    <3>. QED
      BY <1>3a, <1>3, <1>4, <1>6, <2>1, <3>1
  <2>4. \A m \in S \cup {k} : m \in Range(r)
    <3>1. ASSUME NEW m \in S PROVE m \in Range(r)
      <4>1. m \in Range(q)
        BY <1>2, <1>3, <1>6
      <4>2. PICK j \in 1..n : q[j] = m
        BY <1>2, <4>1 DEF Range
      <4>3. r[j] = m /\ j \in DOMAIN r
        BY <1>2, <1>4, <1>6, <2>1, <4>2
      <4>. QED
        BY <4>3 DEF Range
    <3>2. k \in Range(r)
      <4>1. r[n + 1] = k /\ n + 1 \in DOMAIN r
        BY <1>2, <1>4, <1>6, <2>1
      <4>. QED
        BY <4>1 DEF Range
    <3>. QED
      BY <3>1, <3>2
  <2>5. Latest(S \cup {k}, r)
    BY <1>2, <1>4, <1>6, <2>2, <2>3, <2>4 DEF Latest
  <2>6. Len(p) = Len(r) /\ \A j \in DOMAIN r : p[j] = frames[r[j]].index
    BY <1>3, <1>4, <1>5, <1>6, <2>1
  <2>. QED
    BY <1>4, <2>5, <2>6 DEF Remembers, p
<1>7. CASE n = MaxPoints
  <2>1. DOMAIN r = 1..n /\ \A j \in 1..n : (j \in 1..(n - 1) /\ j + 1 \in 1..n) \/ j = n
    <3>1. DOMAIN r = 1..n
      BY <1>4, <1>7
    <3>2. \A j \in 1..n : (j \in 1..(n - 1) /\ j + 1 \in 1..n) \/ j = n
      BY <1>2a
    <3>. QED
      BY <3>1, <3>2
  <2>2. \A j \in DOMAIN r : r[j] \in S \cup {k}
    BY <1>3, <1>4, <1>7, <2>1
  <2>3. \A a, b \in DOMAIN r : a < b => r[a] < r[b]
    <3>. SUFFICES ASSUME NEW a \in 1..n, NEW b \in 1..n, a < b PROVE r[a] < r[b]
      BY <2>1
    <3>1. a \in 1..(n - 1) /\ a + 1 \in 1..n /\ r[a] = q[a + 1]
      BY <1>2, <1>4, <1>7
    <3>2. CASE b = n
      BY <1>3a, <1>3, <1>4, <1>7, <3>1, <3>2
    <3>3. CASE b \in 1..(n - 1)
      <4>1. b + 1 \in 1..n
        BY <1>2a, <3>3
      <4>1a. a + 1 < b + 1
        BY <1>2a
      <4>2. r[b] = q[b + 1]
        BY <1>4, <1>7, <3>3
      <4>. QED
        BY <1>3, <3>1, <4>1, <4>1a, <4>2
    <3>. QED
      BY <2>1, <3>2, <3>3
  <2>4. ASSUME NEW m \in S \cup {k}, m \notin Range(r) PROVE \A j \in DOMAIN r : m < r[j]
    <3>1. m # k
      <4>1. r[n] = k /\ n \in DOMAIN r
        BY <1>2, <1>4, <1>7, <2>1
      <4>. QED
        BY <2>4, <4>1 DEF Range
    <3>2. m \in S /\ m \in Nat /\ m < k
      BY <1>3a, <3>1
    <3>3. \A j \in 2..n : m # q[j]
      <4>. SUFFICES ASSUME NEW j \in 2..n PROVE m # q[j]
        OBVIOUS
      <4>1. j - 1 \in 1..(n - 1) /\ (j - 1) + 1 = j /\ j - 1 \in 1..n
        BY <1>2a
      <4>2. r[j - 1] = q[j]
        BY <1>4, <1>7, <4>1
      <4>. QED
        BY <2>1, <2>4, <4>1, <4>2 DEF Range
    <3>4. \A j \in 2..n : m < q[j]
      <4>1. CASE m \in Range(q)
        <5>1. PICK i \in 1..n : m = q[i]
          BY <1>2, <4>1 DEF Range
        <5>2. i = 1 \/ i \in 2..n
          BY <1>2
        <5>3. i = 1
          BY <3>3, <5>1, <5>2
        <5>4. \A j \in 2..n : j \in 1..n /\ 1 < j
          OBVIOUS
        <5>5. 1 \in 1..n
          BY <1>2, <1>7
        <5>. QED
          BY <1>3, <5>1, <5>3, <5>4, <5>5
      <4>2. CASE m \notin Range(q)
        <5>1. \A j \in 2..n : j \in 1..n
          OBVIOUS
        <5>. QED
          BY <1>3, <3>2, <4>2, <5>1
      <4>. QED
        BY <4>1, <4>2
    <3>5. \A j \in 1..(n - 1) : j + 1 \in 2..n
      BY <1>2a
    <3>. QED
      BY <1>4, <1>7, <2>1, <3>2, <3>4, <3>5
  <2>5. Latest(S \cup {k}, r)
    BY <1>2, <1>4, <1>7, <2>2, <2>3, <2>4 DEF Latest
  <2>6. Len(p) = Len(r) /\ \A j \in DOMAIN r : p[j] = frames[r[j]].index
    <3>1. ASSUME NEW j \in 1..(n - 1) PROVE p[j] = frames[r[j]].index
      <4>1. j + 1 \in 1..n
        BY <1>2
      <4>. QED
        BY <1>3, <1>4, <1>5, <1>7, <4>1
    <3>2. p[n] = frames[r[n]].index
      BY <1>4, <1>5, <1>7
    <3>. QED
      BY <1>4, <1>5, <1>7, <2>1, <3>1, <3>2
  <2>. QED
    BY <1>4, <2>5, <2>6 DEF Remembers, p
<1>. QED
  BY <1>2, <1>6, <1>7

-----------------------------------------------------------------------------
(* What the registry says of the frames so far *)

\* The frames have the numbers of their reads, which grow.
Numbered(Pic, frames) ==
  /\ frames \in Seq(FramesOf(Pic))
  /\ \A m, n \in DOMAIN frames : m < n => frames[m].index < frames[n].index

\* A track, of which S are the sightings among the first k frames, the latest of
\* them z.
TrackTells(frames, k, S, z, track) ==
  /\ z \in S /\ \A m \in S : m <= z
  /\ \E a \in S : track.first = frames[a].index /\ \A m \in S : a <= m
  /\ z = k => track.status = "active"
  /\ z < k =>
       /\ track.lost = frames[z + 1].index
       /\ track.status = IF frames[k].index - frames[z + 1].index > TrackTimeout THEN "ended" ELSE "lost"
  /\ Remembers(frames, S, track.points)

TracksTell(frames, k, tracks) ==
  /\ DOMAIN tracks = {i \in Nat : SeenBy(frames, k, i) # {}}
  /\ IsFiniteSet(DOMAIN tracks)
  /\ \A i \in DOMAIN tracks : \E z \in 1..k : TrackTells(frames, k, SeenBy(frames, k, i), z, tracks[i])

\* The groups are those of tracks that start together.
StartsAt(frames, tracks, n) == {i \in DOMAIN tracks : tracks[i].first = frames[n].index}

GroupsTell(frames, k, tracks, groups) ==
  /\ \A g \in groups : \A i \in g.ids : i \in DOMAIN tracks /\ g.frame - tracks[i].first \in 0..GroupWindow
  /\ \A n \in 1..k : Cardinality(StartsAt(frames, tracks, n)) >= GroupMin =>
       \E g \in groups : g.frame = frames[n].index /\ StartsAt(frames, tracks, n) \subseteq g.ids

Tells(frames, k, t) ==
  TracksTell(frames, k, t.tracks) /\ GroupsTell(frames, k, t.tracks, t.groups)

\* The sightings, one frame further.
LEMMA SeenByGrows ==
  ASSUME NEW frames, NEW k \in Nat \ {0}, NEW i
  PROVE  /\ SeenBy(frames, k, i) =
              SeenBy(frames, k - 1, i) \cup (IF i \in frames[k].picture.ids THEN {k} ELSE {})
         /\ SeenBy(frames, k - 1, i) \in SUBSET (1..(k - 1))
<1>1. \A j : j \in 1..k <=> j \in 1..(k - 1) \/ j = k
  OBVIOUS
<1>. QED
  BY <1>1 DEF SeenBy

LEMMA FrameNumbers ==
  ASSUME NEW Pic, NEW frames, Numbered(Pic, frames), NEW k \in 1..Len(frames)
  PROVE  /\ k \in Nat \ {0} /\ k \in DOMAIN frames
         /\ frames[k] \in FramesOf(Pic) /\ frames[k].index \in Nat
         /\ \A m \in 1..k : frames[m].index \in Nat /\ frames[m].index <= frames[k].index
         /\ \A m \in 1..(k - 1) : frames[m].index < frames[k].index
<1>1. /\ Len(frames) \in Nat /\ DOMAIN frames = 1..Len(frames)
      /\ \A m \in 1..Len(frames) : frames[m] \in FramesOf(Pic)
  BY DEF Numbered
<1>2. \A m \in 1..Len(frames) : frames[m].index \in Nat
  BY <1>1 DEF FramesOf
<1>3. \A m \in 1..k : m \in 1..Len(frames) /\ (m \in 1..(k - 1) \/ m = k)
  OBVIOUS
<1>4. \A m \in 1..(k - 1) : m \in 1..Len(frames) /\ m < k
  OBVIOUS
<1>5. \A m \in 1..(k - 1) : frames[m].index < frames[k].index
  BY <1>1, <1>4 DEF Numbered
<1>. QED
  BY <1>1, <1>2, <1>3, <1>5

\* A track that is in the frame.
LEMMA SightedTells ==
  ASSUME NEW Pic, NEW frames, Numbered(Pic, frames), NEW k \in 1..Len(frames), NEW track \in History,
         NEW S \in SUBSET (1..(k - 1)), Remembers(frames, S, track.points),
         \/ S = {} /\ track.first = frames[k].index
         \/ \E a \in S : track.first = frames[a].index /\ \A m \in S : a <= m
  PROVE  TrackTells(frames, k, S \cup {k}, k, Sighted(track, frames[k].index))
<1>. DEFINE new == Sighted(track, frames[k].index)
<1>1. k \in Nat \ {0} /\ frames[k].index \in Nat
  BY FrameNumbers
<1>2. new.status = "active" /\ new.first = track.first
      /\ new.points = LastOf(Append(track.points, frames[k].index), MaxPoints)
  BY <1>1, SightedIs
<1>3. Remembers(frames, S \cup {k}, new.points)
  <2>1. track.points \in Seq(Nat)
    BY DEF History
  <2>. QED
    BY <1>1, <1>2, <2>1, RememberedStep
<1>4. \A m \in S : m \in Nat /\ m < k
  <2>1. \A m \in 1..(k - 1) : m \in Nat /\ m < k
    OBVIOUS
  <2>. QED
    BY <2>1
<1>. HIDE DEF new
<1>5. \E a \in S \cup {k} : new.first = frames[a].index /\ \A m \in S \cup {k} : a <= m
  <2>1. CASE S = {} /\ track.first = frames[k].index
    BY <1>1, <1>2, <2>1
  <2>2. CASE \E a \in S : track.first = frames[a].index /\ \A m \in S : a <= m
    BY <1>1, <1>2, <1>4, <2>2
  <2>. QED
    BY <2>1, <2>2
<1>6. \A m \in S \cup {k} : m <= k
  BY <1>1, <1>4
<1>7. ~(k < k)
  BY <1>1
<1>. QED
  BY <1>2, <1>3, <1>5, <1>6, <1>7 DEF TrackTells, new

\* A track that is not.
LEMMA MissedTells ==
  ASSUME NEW Pic, NEW frames, Numbered(Pic, frames), NEW k \in 1..Len(frames), NEW track \in History,
         NEW S \in SUBSET (1..(k - 1)), NEW z \in 1..(k - 1), TrackTells(frames, k - 1, S, z, track)
  PROVE  TrackTells(frames, k, S, z, Missed(track, frames[k].index))
<1>. DEFINE new == Missed(track, frames[k].index)
            x == frames[k].index
            y == frames[z + 1].index
<1>1. k \in Nat \ {0} /\ x \in Nat
  BY FrameNumbers
<1>2. /\ z \in Nat /\ z + 1 \in 1..k /\ z < k /\ z # k /\ y \in Nat
      /\ (z = k - 1 => z + 1 = k) /\ (z # k - 1 => z < k - 1 /\ z + 1 \in 1..(k - 1) /\ k - 1 \in 1..(k - 1))
  <2>1. z + 1 \in 1..k
    BY <1>1
  <2>. QED
    BY <1>1, <2>1, FrameNumbers
<1>3. /\ z \in S /\ \A m \in S : m <= z
      /\ \E a \in S : track.first = frames[a].index /\ \A m \in S : a <= m
      /\ z = k - 1 => track.status = "active"
      /\ z < k - 1 =>
           /\ track.lost = y
           /\ track.status = IF frames[k - 1].index - y > TrackTimeout THEN "ended" ELSE "lost"
      /\ Remembers(frames, S, track.points)
  BY DEF TrackTells
<1>4. /\ new.first = track.first /\ new.points = track.points
      /\ track.status = "active" => new.status = "lost" /\ new.lost = x
      /\ track.status = "lost" =>
           /\ new.lost = track.lost
           /\ new.status = IF x - track.lost > TrackTimeout THEN "ended" ELSE "lost"
      /\ track.status = "ended" => new = track
  BY <1>1, MissedIs
<1>. HIDE DEF new
<1>5. new.lost = y /\ new.status = IF x - y > TrackTimeout THEN "ended" ELSE "lost"
  <2>1. CASE z = k - 1
    <3>1. y = x
      BY <1>2, <2>1
    <3>2. ~(x - x > TrackTimeout)
      BY <1>1, VideoAssumption
    <3>. QED
      BY <1>3, <1>4, <2>1, <3>1, <3>2
  <2>2. CASE z # k - 1
    <3>1. frames[k - 1].index \in Nat /\ frames[k - 1].index < x
      <4>1. k - 1 \in 1..k
        BY <1>2, <2>2
      <4>. QED
        BY <1>2, <2>2, <4>1, FrameNumbers
    <3>2. track.lost = y /\ track.status = IF frames[k - 1].index - y > TrackTimeout THEN "ended" ELSE "lost"
      BY <1>2, <1>3, <2>2
    <3>3. CASE frames[k - 1].index - y > TrackTimeout
      <4>1. x - y > TrackTimeout
        BY <1>1, <1>2, <3>1, <3>3, VideoAssumption
      <4>. QED
        BY <1>4, <3>2, <3>3, <4>1
    <3>4. CASE ~(frames[k - 1].index - y > TrackTimeout)
      BY <1>4, <3>2, <3>4
    <3>. QED
      BY <3>3, <3>4
  <2>. QED
    BY <2>1, <2>2
<1>. QED
  BY <1>2, <1>3, <1>4, <1>5 DEF TrackTells, new

\* All tracks, one frame further.
LEMMA TracksStep ==
  ASSUME NEW Pic, Shows(Pic), NEW frames, Numbered(Pic, frames), NEW k \in 1..Len(frames),
         NEW t \in Registry, TracksTell(frames, k - 1, t.tracks)
  PROVE  TracksTell(frames, k, TrackFrame(t, frames[k]).tracks)
<1>. DEFINE frame == frames[k]
            old == t.tracks
            new == TrackFrame(t, frame).tracks
            seen == Visitors(frame.picture)
            n == frame.index
<1>1. /\ k \in Nat \ {0} /\ frame \in FramesOf(Pic) /\ n \in Nat
      /\ frame.picture.ids \in SUBSET Int /\ IsFiniteSet(frame.picture.ids)
  <2>1. k \in Nat \ {0} /\ frame \in FramesOf(Pic) /\ n \in Nat
    BY FrameNumbers
  <2>. QED
    BY <2>1 DEF FramesOf, Shows
<1>2. /\ DOMAIN new = DOMAIN old \cup seen
      /\ \A i \in seen : new[i] = Sighted(IF i \in DOMAIN old THEN old[i] ELSE NewTrack(n), n)
      /\ \A i \in DOMAIN old \ seen : new[i] = Missed(old[i], n)
  BY <1>1, TrackFrameIs DEF Updated
<1>3. /\ DOMAIN old = {i \in Nat : SeenBy(frames, k - 1, i) # {}} /\ IsFiniteSet(DOMAIN old)
      /\ \A i \in DOMAIN old :
           \E z \in 1..(k - 1) : TrackTells(frames, k - 1, SeenBy(frames, k - 1, i), z, old[i])
  BY DEF TracksTell
<1>4. PICK D \in SUBSET Nat : old \in [D -> History]
  BY DEF Registry
<1>5. \A i \in DOMAIN old : old[i] \in History /\ i \in Nat
  BY <1>4
<1>6. seen = {i \in Nat : i \in frames[k].picture.ids} /\ IsFiniteSet(seen)
  <2>1. seen = {i \in Nat : i \in frames[k].picture.ids}
    BY <1>1 DEF Visitors
  <2>2. seen \subseteq frame.picture.ids
    BY DEF Visitors
  <2>. QED
    BY <1>1, <2>1, <2>2, FS_Subset
<1>. HIDE DEF seen, new, old
<1>7. DOMAIN new = {i \in Nat : SeenBy(frames, k, i) # {}}
  <2>1. \A i : SeenBy(frames, k, i) # {} <=> SeenBy(frames, k - 1, i) # {} \/ i \in frames[k].picture.ids
    <3>. SUFFICES ASSUME NEW i
                  PROVE  SeenBy(frames, k, i) # {} <=> SeenBy(frames, k - 1, i) # {} \/ i \in frames[k].picture.ids
      OBVIOUS
    <3>1. SeenBy(frames, k, i) = SeenBy(frames, k - 1, i) \cup (IF i \in frames[k].picture.ids THEN {k} ELSE {})
      BY <1>1, SeenByGrows
    <3>. QED
      BY <3>1
  <2>2. DOMAIN new = {i \in Nat : SeenBy(frames, k - 1, i) # {}} \cup {i \in Nat : i \in frames[k].picture.ids}
    BY <1>2, <1>3, <1>6
  <2>. QED
    BY <2>1, <2>2
<1>8. IsFiniteSet(DOMAIN new)
  <2>1. IsFiniteSet(DOMAIN old \cup seen)
    BY <1>3, <1>6, FS_Union
  <2>. QED
    BY <1>2, <2>1
<1>9. ASSUME NEW i \in DOMAIN new
      PROVE  \E z \in 1..k : TrackTells(frames, k, SeenBy(frames, k, i), z, new[i])
  <2>. DEFINE S == SeenBy(frames, k - 1, i)
  <2>1. /\ SeenBy(frames, k, i) = S \cup (IF i \in seen THEN {k} ELSE {}) /\ S \in SUBSET (1..(k - 1))
        /\ i \in Nat
    BY <1>1, <1>5, <1>6, <1>7, <1>9, SeenByGrows
  <2>. HIDE DEF S
  <2>2. CASE i \in seen /\ i \in DOMAIN old
    <3>1. PICK z \in 1..(k - 1) : TrackTells(frames, k - 1, S, z, old[i])
      BY <1>3, <2>2 DEF S
    <3>2. Remembers(frames, S, old[i].points) /\ \E a \in S : old[i].first = frames[a].index /\ \A m \in S : a <= m
      BY <3>1 DEF TrackTells
    <3>3. TrackTells(frames, k, S \cup {k}, k, Sighted(old[i], n))
      BY <1>5, <2>1, <2>2, <3>2, SightedTells
    <3>. QED
      BY <1>1, <1>2, <2>1, <2>2, <3>3
  <2>3. CASE i \in seen /\ i \notin DOMAIN old
    <3>1. S = {}
      BY <1>3, <2>1, <2>3 DEF S
    <3>2. NewTrack(n) \in History /\ NewTrack(n).first = n /\ NewTrack(n).points = <<>>
      BY <1>1, NewTrackIs
    <3>3. Remembers(frames, {}, <<>>)
      <4>1. <<>> \in Seq(Nat) /\ Len(<<>>) = 0 /\ DOMAIN <<>> = {} /\ 0 <= MaxPoints
        BY VideoAssumption
      <4>. QED
        BY <4>1 DEF Remembers, Latest
    <3>4. TrackTells(frames, k, S \cup {k}, k, Sighted(NewTrack(n), n))
      BY <2>1, <3>1, <3>2, <3>3, SightedTells
    <3>. QED
      BY <1>1, <1>2, <2>1, <2>3, <3>4
  <2>4. CASE i \notin seen
    <3>1. i \in DOMAIN old
      BY <1>2, <1>9, <2>4
    <3>2. PICK z \in 1..(k - 1) : TrackTells(frames, k - 1, S, z, old[i])
      BY <1>3, <3>1 DEF S
    <3>3. TrackTells(frames, k, S, z, Missed(old[i], n))
      BY <1>5, <2>1, <3>1, <3>2, MissedTells
    <3>4. SeenBy(frames, k, i) = S /\ z \in 1..k
      BY <1>1, <2>1, <2>4
    <3>. QED
      BY <1>2, <2>4, <3>1, <3>3, <3>4
  <2>. QED
    BY <2>2, <2>3, <2>4
<1>. QED
  BY <1>7, <1>8, <1>9 DEF TracksTell, new, frame

\* The groups, one frame further: first sightings stay, and those of this frame
\* are all among its active tracks.
LEMMA GroupsStep ==
  ASSUME NEW Pic, Shows(Pic), NEW frames, Numbered(Pic, frames), NEW k \in 1..Len(frames),
         NEW t \in Registry, Tells(frames, k - 1, t)
  PROVE  LET w == TrackFrame(t, frames[k]) IN GroupsTell(frames, k, w.tracks, w.groups)
<1>. DEFINE frame == frames[k]
            w == TrackFrame(t, frame)
            old == t.tracks
            new == w.tracks
            seen == Visitors(frame.picture)
            n == frame.index
            N == {i \in DOMAIN new : IsNew(new[i], n)}
<1>1. /\ k \in Nat \ {0} /\ frame \in FramesOf(Pic) /\ n \in Nat
      /\ \A m \in 1..k : frames[m].index \in Nat /\ frames[m].index <= n
      /\ \A m \in 1..(k - 1) : frames[m].index < n
  BY FrameNumbers
<1>2. /\ DOMAIN new = DOMAIN old \cup seen
      /\ \A i \in seen : new[i] = Sighted(IF i \in DOMAIN old THEN old[i] ELSE NewTrack(n), n)
      /\ \A i \in DOMAIN old \ seen : new[i] = Missed(old[i], n)
      /\ w.groups = t.groups \cup {[frame |-> n, ids |-> g] : g \in GroupEntries(new, n)}
      /\ w \in Registry
  BY <1>1, TrackFrameIs DEF Updated
<1>3. TracksTell(frames, k - 1, old) /\ TracksTell(frames, k, new) /\ GroupsTell(frames, k - 1, old, t.groups)
  BY TracksStep DEF Tells
<1>4. /\ \A i \in DOMAIN old : old[i] \in History
      /\ \A i \in DOMAIN new : new[i] \in History
  <2>1. PICK D \in SUBSET Nat : old \in [D -> History]
    BY DEF Registry
  <2>2. PICK E \in SUBSET Nat : new \in [E -> History]
    BY <1>2 DEF Registry
  <2>. QED
    BY <2>1, <2>2
<1>. HIDE DEF seen, new, old, w, n
<1>5. \A i \in DOMAIN old : i \in DOMAIN new /\ new[i].first = old[i].first
  <2>. SUFFICES ASSUME NEW i \in DOMAIN old PROVE i \in DOMAIN new /\ new[i].first = old[i].first
    OBVIOUS
  <2>1. old[i] \in History /\ i \in DOMAIN new
    BY <1>2, <1>4
  <2>2. Sighted(old[i], n).first = old[i].first /\ Missed(old[i], n).first = old[i].first
    <3>. DEFINE track == old[i]
    <3>1. track \in History /\ n \in Nat
      BY <1>1, <2>1
    <3>. HIDE DEF track
    <3>2. Sighted(track, n).first = track.first
      BY <3>1, SightedIs
    <3>3. Missed(track, n).first = track.first
      BY <3>1, MissedIs
    <3>. QED
      BY <3>2, <3>3 DEF track
  <2>3. new[i] = Sighted(old[i], n) \/ new[i] = Missed(old[i], n)
    BY <1>2
  <2>. QED
    BY <2>1, <2>2, <2>3
<1>6. \A i \in DOMAIN new \ DOMAIN old : i \in seen /\ new[i].first = n /\ new[i].status = "active"
  <2>. SUFFICES ASSUME NEW i \in DOMAIN new \ DOMAIN old
                PROVE  i \in seen /\ new[i].first = n /\ new[i].status = "active"
    OBVIOUS
  <2>1. NewTrack(n) \in History /\ NewTrack(n).first = n
    BY <1>1, NewTrackIs
  <2>2. i \in seen /\ new[i] = Sighted(NewTrack(n), n)
    BY <1>2
  <2>3. Sighted(NewTrack(n), n).first = NewTrack(n).first /\ Sighted(NewTrack(n), n).status = "active"
    BY <1>1, <2>1, SightedIs
  <2>. QED
    BY <2>1, <2>2, <2>3
<1>7. \A i \in DOMAIN old : \E a \in 1..(k - 1) : old[i].first = frames[a].index
  <2>. SUFFICES ASSUME NEW i \in DOMAIN old PROVE \E a \in 1..(k - 1) : old[i].first = frames[a].index
    OBVIOUS
  <2>1. PICK z \in 1..(k - 1) : TrackTells(frames, k - 1, SeenBy(frames, k - 1, i), z, old[i])
    BY <1>3 DEF TracksTell
  <2>2. SeenBy(frames, k - 1, i) \in SUBSET (1..(k - 1))
    BY DEF SeenBy
  <2>. QED
    BY <2>1, <2>2 DEF TrackTells
<1>8. \A i \in DOMAIN old : old[i].first \in Nat /\ old[i].first < n
  <2>1. \A a \in 1..(k - 1) : a \in 1..k
    BY <1>1
  <2>. QED
    BY <1>1, <1>7, <2>1
<1>9. \A i \in DOMAIN new : new[i].first \in Nat /\ new[i].first <= n
  BY <1>1, <1>5, <1>6, <1>8
<1>10. ASSUME NEW g \in w.groups, NEW i \in g.ids
       PROVE  i \in DOMAIN new /\ g.frame - new[i].first \in 0..GroupWindow
  <2>1. CASE g \in t.groups
    <3>1. i \in DOMAIN old /\ g.frame - old[i].first \in 0..GroupWindow
      BY <1>3, <1>10, <2>1 DEF GroupsTell
    <3>. QED
      BY <1>5, <3>1
  <2>2. CASE g \notin t.groups
    <3>1. g.frame = n /\ g.ids \in GroupEntries(new, n)
      BY <1>2, <1>10, <2>2
    <3>2. g.ids = N
      BY <3>1 DEF GroupEntries
    <3>3. i \in DOMAIN new /\ new[i].first - n \in -GroupWindow..GroupWindow
      BY <1>10, <3>2 DEF IsNew
    <3>4. n - new[i].first \in 0..GroupWindow
      BY <1>1, <1>9, <3>3, VideoAssumption
    <3>. QED
      BY <3>1, <3>3, <3>4
  <2>. QED
    BY <2>1, <2>2
<1>11. ASSUME NEW m \in 1..(k - 1), Cardinality(StartsAt(frames, new, m)) >= GroupMin
       PROVE  \E g \in w.groups : g.frame = frames[m].index /\ StartsAt(frames, new, m) \subseteq g.ids
  <2>1. StartsAt(frames, new, m) = StartsAt(frames, old, m)
    <3>1. frames[m].index # n
      <4>1. m \in 1..k /\ frames[m].index < n
        BY <1>1
      <4>. QED
        BY <1>1, <4>1
    <3>. QED
      BY <1>5, <1>6, <3>1 DEF StartsAt
  <2>2. PICK g \in t.groups : g.frame = frames[m].index /\ StartsAt(frames, old, m) \subseteq g.ids
    BY <1>3, <1>11, <2>1 DEF GroupsTell
  <2>. QED
    BY <1>2, <2>1, <2>2
<1>12. ASSUME Cardinality(StartsAt(frames, new, k)) >= GroupMin
       PROVE  \E g \in w.groups : g.frame = frames[k].index /\ StartsAt(frames, new, k) \subseteq g.ids
  <2>1. StartsAt(frames, new, k) \subseteq N
    <3>. SUFFICES ASSUME NEW i \in StartsAt(frames, new, k) PROVE i \in N
      OBVIOUS
    <3>1. i \in DOMAIN new /\ new[i].first = n
      BY DEF StartsAt, n
    <3>2. i \notin DOMAIN old
      BY <1>1, <1>5, <1>8, <3>1
    <3>3. n - n \in -GroupWindow..GroupWindow
      BY <1>1, VideoAssumption
    <3>. QED
      BY <1>6, <3>1, <3>2, <3>3 DEF IsNew
  <2>2. IsFiniteSet(N)
    <3>1. IsFiniteSet(DOMAIN new)
      BY <1>3 DEF TracksTell
    <3>. QED
      BY <3>1, FS_Subset
  <2>3. Cardinality(StartsAt(frames, new, k)) <= Cardinality(N)
    BY <2>1, <2>2, FS_Subset
  <2>4. ~(Cardinality(N) < GroupMin)
    <3>1. Cardinality(N) \in Nat /\ Cardinality(StartsAt(frames, new, k)) \in Nat /\ GroupMin \in Nat
      BY <2>1, <2>2, FS_Subset, FS_CardinalityType, VideoAssumption
    <3>. HIDE DEF N
    <3>. QED
      BY <1>12, <2>3, <3>1
  <2>5. N \in GroupEntries(new, n)
    BY <2>4 DEF GroupEntries
  <2>6. [frame |-> n, ids |-> N] \in w.groups
    BY <1>2, <2>5
  <2>. HIDE DEF N
  <2>. QED
    BY <2>1, <2>6 DEF n
<1>13. \A m \in 1..k : m \in 1..(k - 1) \/ m = k
  BY <1>1
<1>14. GroupsTell(frames, k, new, w.groups)
  BY <1>10, <1>11, <1>12, <1>13 DEF GroupsTell
<1>. QED
  BY <1>14 DEF new, w, frame

-----------------------------------------------------------------------------
(* What TrackAll makes of all frames *)

Values(q, i, j) == {q[a] : a \in i..j}

\* Elements in growing order are as many as their positions.
LEMMA RisingCount ==
  ASSUME NEW q \in Seq(Nat), \A a, b \in DOMAIN q : a < b => q[a] < q[b],
         NEW i \in Nat, NEW j \in Nat, 1 <= i, j <= Len(q)
  PROVE  /\ IsFiniteSet(Values(q, i, j))
         /\ Cardinality(Values(q, i, j)) = IF i > j THEN 0 ELSE (j - i) + 1
<1>. DEFINE T == Values(q, i, j)
            f == [a \in i..j |-> q[a]]
<1>1. Len(q) \in Nat /\ DOMAIN q = 1..Len(q) /\ \A a \in i..j : a \in 1..Len(q) /\ q[a] \in Nat
  OBVIOUS
<1>2. IsFiniteSet(i..j) /\ Cardinality(i..j) = IF i > j THEN 0 ELSE (j - i) + 1
  BY FS_Interval
<1>3. f \in [i..j -> T] /\ \A t \in T : \E a \in i..j : f[a] = t
  BY DEF Values
<1>4. ASSUME NEW a \in i..j, NEW b \in i..j, f[a] = f[b] PROVE a = b
  <2>1. q[a] = q[b] /\ a \in DOMAIN q /\ b \in DOMAIN q /\ q[a] \in Nat
    BY <1>1, <1>4
  <2>2. ~(a < b) /\ ~(b < a)
    BY <2>1
  <2>. QED
    BY <2>2
<1>. HIDE DEF T, f
<1>5. DOMAIN f = i..j
  BY <1>3
<1>6. f \in Bijection(i..j, T)
  BY <1>3, <1>4, <1>5 DEF Bijection, Injection, Surjection, IsInjective
<1>7. ExistsBijection(i..j, T)
  BY <1>6 DEF ExistsBijection
<1>8. IsFiniteSet(T) /\ Cardinality(T) = Cardinality(i..j)
  BY <1>2, <1>7, FS_Bijection
<1>. QED
  BY <1>2, <1>8 DEF T

LEMMA LatestAre ==
  ASSUME NEW k \in Nat, NEW S \in SUBSET (1..k), NEW q \in Seq(Nat), Latest(S, q)
  PROVE  Range(q) = {m \in S : Cardinality({x \in S : x > m}) < MaxPoints}
<1>. DEFINE n == Len(q)
            After(m) == {x \in S : x > m}
<1>1. n \in Nat /\ DOMAIN q = 1..n /\ MaxPoints \in Nat /\ n <= MaxPoints /\ \A j \in 1..n : q[j] \in Nat
  BY VideoAssumption DEF Latest
<1>2. /\ \A j \in 1..n : q[j] \in S
      /\ \A a, b \in DOMAIN q : a < b => q[a] < q[b]
      /\ \A m \in S : m \notin Range(q) => n = MaxPoints /\ \A j \in 1..n : m < q[j]
  BY <1>1 DEF Latest
<1>3. IsFiniteSet(S) /\ \A m \in S : m \in Nat
  <2>1. IsFiniteSet(1..k)
    BY FS_Interval
  <2>2. IsFiniteSet(S)
    BY <2>1, FS_Subset
  <2>. QED
    BY <2>2
<1>4. \A m : IsFiniteSet(After(m)) /\ Cardinality(After(m)) \in Nat
  BY <1>3, FS_Subset, FS_CardinalityType
<1>. HIDE DEF n
<1>5. ASSUME NEW m \in Range(q) PROVE m \in S /\ Cardinality(After(m)) < MaxPoints
  <2>1. PICK j \in 1..n : q[j] = m
    BY <1>1 DEF Range
  <2>. DEFINE i == j + 1
              T == Values(q, i, n)
  <2>2. m \in S /\ m \in Nat
    BY <1>1, <1>2, <2>1
  <2>3. After(m) \subseteq T
    <3>. SUFFICES ASSUME NEW x \in S, x > m PROVE x \in T
      OBVIOUS
    <3>1. x \in Nat
      BY <1>3
    <3>2. x \in Range(q)
      BY <1>2, <2>1, <2>2, <3>1
    <3>3. PICK a \in 1..n : q[a] = x
      BY <1>1, <3>2 DEF Range
    <3>4. a > j
      <4>1. a < j => x < m
        BY <1>1, <1>2, <2>1, <3>3
      <4>2. a = j => x = m
        BY <2>1, <3>3
      <4>. QED
        BY <1>1, <2>2, <3>1, <4>1, <4>2
    <3>5. a \in i..n
      BY <1>1, <3>4
    <3>. QED
      BY <3>3, <3>5 DEF Values
  <2>4. IsFiniteSet(T) /\ Cardinality(T) = IF i > n THEN 0 ELSE (n - i) + 1
    <3>1. i \in Nat /\ 1 <= i /\ n <= Len(q)
      BY <1>1 DEF n
    <3>. HIDE DEF i
    <3>. QED
      BY <1>1, <1>2, <3>1, RisingCount
  <2>5. Cardinality(T) < n
    <3>1. i > n => j = n
      BY <1>1
    <3>. HIDE DEF T
    <3>. QED
      BY <1>1, <2>4, <3>1
  <2>6. Cardinality(After(m)) <= Cardinality(T)
    BY <2>3, <2>4, FS_Subset
  <2>7. Cardinality(T) \in Nat
    BY <2>4, FS_CardinalityType
  <2>. HIDE DEF T, After
  <2>. QED
    BY <1>1, <1>4, <2>2, <2>5, <2>6, <2>7
<1>6. ASSUME NEW m \in S, m \notin Range(q) PROVE ~(Cardinality(After(m)) < MaxPoints)
  <2>. DEFINE T == Values(q, 1, n)
  <2>1. n = MaxPoints /\ \A j \in 1..n : m < q[j]
    BY <1>2, <1>6
  <2>2. T \subseteq After(m)
    <3>. SUFFICES ASSUME NEW j \in 1..n PROVE q[j] \in S /\ q[j] > m
      BY DEF Values
    <3>. QED
      BY <1>1, <1>2, <1>3, <2>1
  <2>3. IsFiniteSet(T) /\ Cardinality(T) = IF 1 > n THEN 0 ELSE (n - 1) + 1
    <3>1. 1 \in Nat /\ 1 <= 1 /\ n <= Len(q) /\ n \in Nat
      BY <1>1 DEF n
    <3>. QED
      BY <1>2, <3>1, RisingCount
  <2>4. Cardinality(T) = n
    BY <1>1, <2>3
  <2>5. Cardinality(T) <= Cardinality(After(m))
    BY <1>4, <2>2, FS_Subset
  <2>. HIDE DEF T, After
  <2>. QED
    BY <1>1, <1>4, <2>1, <2>4, <2>5
<1>. QED
  BY <1>5, <1>6

LEMMA TrackAllTells ==
  ASSUME NEW Pic, Shows(Pic), NEW frames, Numbered(Pic, frames)
  PROVE  Tells(frames, Len(frames), TrackAll(frames))
<1>. DEFINE n == Len(frames)
<1>1. frames \in Seq(FramesOf(Pic)) /\ n \in Nat
  BY DEF Numbered
<1>2. PICK f : /\ f \in [0..n -> Registry]
               /\ f[0] = NoTracks
               /\ \A i \in 1..n : f[i] = TrackFrame(f[i - 1], frames[i])
               /\ TrackAll(frames) = f[n]
  BY <1>1, TrackAllIs
<1>. DEFINE told == {i \in 0..n : Tells(frames, i, f[i])}
<1>3. 0 \in told
  <2>1. 1..0 = {} /\ \A i : SeenBy(frames, 0, i) = {}
    BY DEF SeenBy
  <2>2. NoTracks.tracks = <<>> /\ NoTracks.groups = {} /\ DOMAIN <<>> = {}
    BY DEF NoTracks
  <2>3. IsFiniteSet({})
    BY FS_EmptySet
  <2>4. TracksTell(frames, 0, NoTracks.tracks)
    BY <2>1, <2>2, <2>3 DEF TracksTell
  <2>5. GroupsTell(frames, 0, NoTracks.tracks, NoTracks.groups)
    BY <2>1, <2>2 DEF GroupsTell
  <2>. QED
    BY <1>1, <1>2, <2>4, <2>5 DEF Tells
<1>4. ASSUME NEW k \in 1..n, k - 1 \in told PROVE k \in told
  <2>. DEFINE t == f[k - 1]
  <2>1. k - 1 \in 0..n /\ k \in 0..n /\ k \in 1..Len(frames)
    BY <1>1
  <2>2. t \in Registry /\ Tells(frames, k - 1, t) /\ f[k] = TrackFrame(t, frames[k])
    BY <1>2, <1>4, <2>1
  <2>. HIDE DEF t
  <2>3. TracksTell(frames, k - 1, t.tracks)
    BY <2>2 DEF Tells
  <2>4. TracksTell(frames, k, TrackFrame(t, frames[k]).tracks)
    BY <2>1, <2>2, <2>3, TracksStep
  <2>5. GroupsTell(frames, k, TrackFrame(t, frames[k]).tracks, TrackFrame(t, frames[k]).groups)
    BY <2>1, <2>2, GroupsStep
  <2>6. Tells(frames, k, f[k])
    BY <2>2, <2>4, <2>5 DEF Tells
  <2>. QED
    BY <2>1, <2>6
<1>5. 0..n \subseteq told
  <2>. HIDE DEF told
  <2>. QED
    BY <1>1, <1>3, <1>4, UpTo
<1>6. n \in told
  BY <1>1, <1>5
<1>. QED
  BY <1>2, <1>6

\* What one track tells is what the sightings say.
Follows(frames, S, z, track) ==
  /\ Max(S) = z
  /\ track.first = frames[Min(S)].index
  /\ Range(track.points) = {frames[n].index : n \in {m \in S : Cardinality({k \in S : k > m}) < MaxPoints}}

LEMMA TrackFollows ==
  ASSUME NEW frames, NEW last \in Nat, NEW S \in SUBSET (1..last), NEW z \in 1..last, NEW track \in History,
         TrackTells(frames, last, S, z, track)
  PROVE  Follows(frames, S, z, track)
<1>1. /\ z \in S /\ \A m \in S : m <= z
      /\ \E a \in S : track.first = frames[a].index /\ \A m \in S : a <= m
      /\ Remembers(frames, S, track.points)
  BY DEF TrackTells
<1>2. S \in SUBSET Nat /\ S \in SUBSET (0..last) /\ S # {}
  BY <1>1
<1>3. Max(S) = z
  BY <1>1, <1>2, GreatestIs
<1>4. track.first = frames[Min(S)].index
  <2>1. PICK a \in S : track.first = frames[a].index /\ \A m \in S : a <= m
    BY <1>1
  <2>2. Min(S) \in S /\ \A m \in S : Min(S) <= m
    BY <1>2, LeastMember
  <2>3. a \in Nat /\ Min(S) \in Nat /\ a <= Min(S) /\ Min(S) <= a
    BY <1>2, <2>1, <2>2
  <2>4. a = Min(S)
    BY <2>3
  <2>. QED
    BY <2>1, <2>4
<1>5. PICK q \in Seq(Nat) : /\ Latest(S, q) /\ Len(track.points) = Len(q)
                            /\ \A j \in DOMAIN q : track.points[j] = frames[q[j]].index
  BY <1>1 DEF Remembers
<1>6. Range(q) = {m \in S : Cardinality({k \in S : k > m}) < MaxPoints}
  BY <1>5, LatestAre
<1>7. DOMAIN track.points = DOMAIN q
  <2>1. track.points \in Seq(Nat)
    BY DEF History
  <2>. QED
    BY <1>5, <2>1
<1>8. Range(track.points) = {frames[n].index : n \in Range(q)}
  BY <1>5, <1>7 DEF Range
<1>. QED
  BY <1>3, <1>4, <1>6, <1>8 DEF Follows

\* Whatever the frames, numbered as they were read, and whatever finite sets of
\* boxes they show: the registry, its tracks and its groups follow the sightings
\* (TrackHistoryStore, update_frame and detect_group_entries).
THEOREM TracksTheorem ==
  ASSUME NEW Pic, Shows(Pic), NEW frames, Numbered(Pic, frames)
  PROVE  SightingsFollowed(frames)
<1>. DEFINE t == TrackAll(frames)
            last == Len(frames)
            First(i) == frames[Min(ShownIn(frames, i))].index
<1>1. /\ last \in Nat /\ DOMAIN frames = 1..last
      /\ \A n \in 1..last : frames[n] \in FramesOf(Pic)
  BY DEF Numbered
<1>2. TracksTell(frames, last, t.tracks) /\ GroupsTell(frames, last, t.tracks, t.groups)
  BY TrackAllTells DEF Tells
<1>3. \A i : ShownIn(frames, i) = SeenBy(frames, last, i)
  BY <1>1 DEF ShownIn, SeenBy
<1>4. \A n \in 1..last : frames[n].picture.ids \subseteq Int
  BY <1>1 DEF FramesOf, Shows
<1>4a. \A i \in DOMAIN t.tracks : t.tracks[i] \in History
  <2>1. t \in Registry
    <3>1. frames \in Seq(FramesOf(Pic))
      BY DEF Numbered
    <3>2. last \in 0..last
      BY <1>1
    <3>. QED
      BY <3>1, <3>2, TrackAllIs
  <2>. HIDE DEF t
  <2>2. PICK D \in SUBSET Nat : t.tracks \in [D -> History]
    BY <2>1 DEF Registry
  <2>. QED
    BY <2>2
<1>. HIDE DEF t, last
<1>5. DOMAIN t.tracks = {i \in UNION {frames[n].picture.ids : n \in DOMAIN frames} : i >= 0}
  <2>1. DOMAIN t.tracks = {i \in Nat : SeenBy(frames, last, i) # {}}
    BY <1>2 DEF TracksTell
  <2>2. ASSUME NEW i PROVE i \in Nat /\ SeenBy(frames, last, i) # {}
                             <=> i \in UNION {frames[n].picture.ids : n \in DOMAIN frames} /\ i >= 0
    <3>1. SeenBy(frames, last, i) # {} <=> \E n \in 1..last : i \in frames[n].picture.ids
      BY DEF SeenBy
    <3>. QED
      BY <1>1, <1>4, <3>1
  <2>. QED
    BY <2>1, <2>2
<1>6. ASSUME NEW i \in DOMAIN t.tracks
      PROVE  LET shown == ShownIn(frames, i)
                 seen  == Max(shown)
             IN  /\ t.tracks[i].first = First(i)
                 /\ Range(t.tracks[i].points) =
                      {frames[n].index : n \in {m \in shown : Cardinality({k \in shown : k > m}) < MaxPoints}}
                 /\ t.tracks[i].status =
                      IF seen = last THEN "active"
                      ELSE IF frames[last].index - frames[seen + 1].index > TrackTimeout THEN "ended"
                      ELSE "lost"
  <2>. DEFINE S == ShownIn(frames, i)
              track == t.tracks[i]
  <2>1. PICK z \in 1..last : TrackTells(frames, last, S, z, track)
    BY <1>2, <1>3 DEF TracksTell
  <2>2. S \in SUBSET (1..last) /\ track \in History
    BY <1>1, <1>4a, <1>6 DEF ShownIn
  <2>. HIDE DEF S, track
  <2>3. Follows(frames, S, z, track)
    BY <1>1, <2>1, <2>2, TrackFollows
  <2>4. track.status = IF z = last THEN "active"
                       ELSE IF frames[last].index - frames[z + 1].index > TrackTimeout THEN "ended"
                       ELSE "lost"
    BY <1>1, <2>1 DEF TrackTells
  <2>. QED
    BY <2>3, <2>4 DEF Follows, S, track
<1>7. ASSUME NEW g \in t.groups, NEW i \in g.ids PROVE g.frame - First(i) \in 0..GroupWindow
  BY <1>2, <1>6, <1>7 DEF GroupsTell
<1>8. ASSUME NEW n \in DOMAIN frames
      PROVE  LET new == {i \in DOMAIN t.tracks : First(i) = frames[n].index}
             IN  Cardinality(new) >= GroupMin => \E g \in t.groups : g.frame = frames[n].index /\ new \subseteq g.ids
  <2>1. {i \in DOMAIN t.tracks : First(i) = frames[n].index} = StartsAt(frames, t.tracks, n)
    BY <1>6 DEF StartsAt
  <2>. HIDE DEF First
  <2>. QED
    BY <1>1, <1>2, <2>1 DEF GroupsTell
<1>. HIDE DEF First
<1>. QED
  BY <1>5, <1>6, <1>7, <1>8 DEF SightingsFollowed, First, t, last

\* The frames that the reader returns have the numbers of their reads.
LEMMA FramesNumbered ==
  ASSUME NEW Pic, NEW video, video.reads \in Seq(Pic)
  PROVE  Numbered(Pic, ReadAll(video).frames)
<1>. DEFINE frames == ReadAll(video).frames
            v == ReadAll(video)
<1>1. v \in Readers(Pic)
  <2>1. Len(video.reads) \in 0..Len(video.reads)
    OBVIOUS
  <2>. QED
    BY <2>1, ReadAllIs
<1>2. frames \in Seq([index : Int, picture : Pic])
  BY <1>1 DEF Readers
<1>3. /\ {f.index : f \in Range(frames)} = {i - 1 : i \in ShownOf(video.reads)}
      /\ \A m, n \in DOMAIN frames : m < n => frames[m].index < frames[n].index
  BY ReaderTheorem DEF Accounted
<1>. HIDE DEF frames
<1>4. Len(frames) \in Nat /\ DOMAIN frames = 1..Len(frames) /\ \A n \in 1..Len(frames) : frames[n] \in [index : Int, picture : Pic]
  <2>. DEFINE T == [index : Int, picture : Pic]
  <2>. HIDE DEF T
  <2>1. frames \in Seq(T)
    BY <1>2 DEF T
  <2>2. Len(frames) \in Nat /\ DOMAIN frames = 1..Len(frames) /\ \A n \in 1..Len(frames) : frames[n] \in T
    BY <2>1
  <2>. QED
    BY <2>2 DEF T
<1>5. ASSUME NEW n \in 1..Len(frames) PROVE frames[n] \in FramesOf(Pic)
  <2>1. frames[n] \in Range(frames)
    BY <1>4 DEF Range
  <2>2. frames[n].index \in {i - 1 : i \in ShownOf(video.reads)}
    BY <1>3, <2>1
  <2>3. PICK i \in DOMAIN video.reads : frames[n].index = i - 1
    BY <2>2 DEF ShownOf, PassOf
  <2>4. i \in Nat /\ i >= 1
    OBVIOUS
  <2>5. frames[n].index \in Nat
    BY <2>3, <2>4
  <2>. QED
    BY <1>4, <2>5 DEF FramesOf
<1>6. frames \in Seq(FramesOf(Pic))
  BY <1>2, <1>4, <1>5
<1>. QED
  BY <1>3, <1>6 DEF Numbered, frames

-----------------------------------------------------------------------------
(* Sorting by rank *)

StrictOrder(S, R) ==
  /\ \A x \in S : <<x, x>> \notin R
  /\ \A x, y \in S : x # y => <<x, y>> \in R \/ <<y, x>> \in R
  /\ \A x, y, z \in S : <<x, y>> \in R /\ <<y, z>> \in R => <<x, z>> \in R

Below(S, R, x) == {y \in S : <<y, x>> \in R}

\* The elements of S in their order, each at its rank.
Lists(S, R, nth) ==
  /\ \A i \in 1..Cardinality(S) : nth[i] \in S
  /\ \A x \in S : \E i \in 1..Cardinality(S) : nth[i] = x
  /\ \A i, j \in 1..Cardinality(S) : i < j => <<nth[i], nth[j]>> \in R

LEMMA RankGrows ==
  ASSUME NEW S, IsFiniteSet(S), NEW R, StrictOrder(S, R), NEW x \in S, NEW y \in S, <<x, y>> \in R
  PROVE  Cardinality(Below(S, R, x)) < Cardinality(Below(S, R, y))
<1>. DEFINE A == Below(S, R, x)
            B == Below(S, R, y)
<1>1. A \in SUBSET B /\ x \in B /\ x \notin A
  BY DEF StrictOrder, Below
<1>2. IsFiniteSet(B)
  BY FS_Subset DEF Below
<1>. HIDE DEF A, B
<1>3. Cardinality(A) <= Cardinality(B) /\ Cardinality(A) # Cardinality(B) /\ IsFiniteSet(A)
  BY <1>1, <1>2, FS_Subset
<1>4. Cardinality(A) \in Nat /\ Cardinality(B) \in Nat
  BY <1>2, <1>3, FS_CardinalityType
<1>. QED
  BY <1>3, <1>4 DEF A, B

LEMMA ListedByRank ==
  ASSUME NEW S, IsFiniteSet(S), NEW R, StrictOrder(S, R),
         NEW nth, \A i \in 1..Cardinality(S) : nth[i] = CHOOSE x \in S : Cardinality(Below(S, R, x)) = i - 1
  PROVE  Lists(S, R, nth)
<1>. DEFINE n == Cardinality(S)
            rank == [x \in S |-> Cardinality(Below(S, R, x)) + 1]
<1>1. n \in Nat /\ IsFiniteSet(1..n) /\ Cardinality(1..n) = n
  <2>1. n \in Nat
    BY FS_CardinalityType
  <2>2. IsFiniteSet(1..n) /\ Cardinality(1..n) = IF 1 > n THEN 0 ELSE (n - 1) + 1
    BY <2>1, FS_Interval
  <2>. HIDE DEF n
  <2>. QED
    BY <2>1, <2>2
<1>2. ASSUME NEW x \in S PROVE Cardinality(Below(S, R, x)) \in Nat /\ rank[x] \in 1..n
  <2>. DEFINE B == Below(S, R, x)
  <2>1. B \in SUBSET S /\ x \notin B
    BY DEF StrictOrder, Below
  <2>. HIDE DEF B
  <2>2. IsFiniteSet(B) /\ Cardinality(B) <= n /\ Cardinality(B) # n
    BY <2>1, FS_Subset
  <2>3. Cardinality(B) \in Nat
    BY <2>2, FS_CardinalityType
  <2>4. rank[x] = Cardinality(B) + 1
    BY DEF B
  <2>. HIDE DEF rank, n
  <2>. QED
    BY <1>1, <2>2, <2>3, <2>4 DEF B
<1>3. ASSUME NEW x \in S, NEW y \in S, <<x, y>> \in R PROVE rank[x] < rank[y]
  BY <1>2, <1>3, RankGrows
<1>4. rank \in [S -> 1..n] /\ \A x, y \in S : rank[x] = rank[y] => x = y
  <2>1. rank \in [S -> 1..n]
    BY <1>2
  <2>2. ASSUME NEW x \in S, NEW y \in S, x # y PROVE rank[x] # rank[y]
    <3>1. <<x, y>> \in R \/ <<y, x>> \in R
      BY <2>2 DEF StrictOrder
    <3>2. rank[x] \in 1..n /\ rank[y] \in 1..n
      BY <1>2
    <3>3. rank[x] < rank[y] \/ rank[y] < rank[x]
      BY <1>3, <3>1
    <3>. HIDE DEF rank, n
    <3>. QED
      BY <3>2, <3>3
  <2>. QED
    BY <2>1, <2>2
<1>5. rank \in Surjection(S, 1..n)
  <2>. HIDE DEF rank, n
  <2>1. DOMAIN rank = S
    BY <1>4
  <2>2. rank \in Injection(S, 1..n)
    BY <1>4, <2>1 DEF Injection, IsInjective
  <2>. QED
    BY <1>1, <2>2, FS_Injection DEF n
<1>6. ASSUME NEW i \in 1..n PROVE nth[i] \in S /\ rank[nth[i]] = i
  <2>1. PICK x \in S : rank[x] = i
    BY <1>5 DEF Surjection
  <2>2. Cardinality(Below(S, R, x)) = i - 1
    BY <1>2, <2>1
  <2>3. nth[i] \in S /\ Cardinality(Below(S, R, nth[i])) = i - 1
    BY <2>2
  <2>. QED
    BY <2>3
<1>7. ASSUME NEW x \in S PROVE \E i \in 1..n : nth[i] = x
  <2>1. rank[x] \in 1..n
    BY <1>2
  <2>2. nth[rank[x]] \in S /\ rank[nth[rank[x]]] = rank[x]
    BY <1>6, <2>1
  <2>3. nth[rank[x]] = x
    BY <1>4, <2>2
  <2>. QED
    BY <2>1, <2>3
<1>8. ASSUME NEW i \in 1..n, NEW j \in 1..n, i < j PROVE <<nth[i], nth[j]>> \in R
  <2>1. nth[i] \in S /\ nth[j] \in S /\ rank[nth[i]] = i /\ rank[nth[j]] = j
    BY <1>6
  <2>. HIDE DEF rank
  <2>2. ~(<<nth[j], nth[i]>> \in R)
    BY <1>3, <1>8, <2>1
  <2>3. nth[i] # nth[j]
    BY <1>8, <2>1
  <2>. QED
    BY <2>1, <2>2, <2>3 DEF StrictOrder
<1>. QED
  BY <1>6, <1>7, <1>8 DEF Lists

-----------------------------------------------------------------------------
(* The operations loop *)

Queues == [depth : Nat, arrivals : Nat, service : Nat, counters : Nat]

ShelfKinds == [units : Nat, used : Nat]

StoreStates == [queues : Seq(Queues), shelves : Seq(ShelfKinds)]

\* What an incident scores.
Scored(i) ==
  \/ i.of = "queue" /\ i.status = "critical" /\ i.score = 64800
  \/ i.of = "queue" /\ i.status = "warning" /\ i.score = 22680
  \/ i.of = "shelf" /\ i.status \in {"out", "critical"} /\ i.score = 20400
  \/ i.of = "shelf" /\ i.status = "low" /\ i.score = 12240
  \/ i.of = "shelf" /\ i.status = "normal" /\ i.score \in Int

Alarms(incidents) == {i \in DOMAIN incidents : Alarming(incidents[i])}

Higher(incidents, i, j) ==
  \/ incidents[i].score > incidents[j].score
  \/ incidents[i].score = incidents[j].score /\ i < j

ByScore(incidents) ==
  {p \in Alarms(incidents) \X Alarms(incidents) : Higher(incidents, p[1], p[2])}

LEMMA RankedIs ==
  ASSUME NEW incidents, NEW n \in Nat, DOMAIN incidents = 1..n, \A i \in 1..n : incidents[i].score \in Int
  PROVE  \E nth : /\ Lists(Alarms(incidents), ByScore(incidents), nth)
                  /\ Cardinality(Alarms(incidents)) \in Nat
                  /\ Ranked(incidents) = [k \in 1..Cardinality(Alarms(incidents)) |-> incidents[nth[k]]]
<1>. DEFINE S == Alarms(incidents)
            R == ByScore(incidents)
            nth == [k \in 1..Cardinality(S) |-> CHOOSE i \in S : Cardinality(Below(S, R, i)) = k - 1]
<1>1. S \in SUBSET (1..n) /\ IsFiniteSet(1..n)
  BY FS_Interval DEF Alarms
<1>2. IsFiniteSet(S) /\ Cardinality(S) \in Nat
  BY <1>1, FS_Subset, FS_CardinalityType
<1>3. \A i \in S : {j \in S : Higher(incidents, j, i)} = Below(S, R, i)
  BY DEF Below, ByScore
<1>4. Ranked(incidents) = [k \in 1..Cardinality(S) |-> incidents[nth[k]]]
  <2>1. \A k : (CHOOSE i \in S : Cardinality({j \in S : Higher(incidents, j, i)}) = k - 1)
             = (CHOOSE i \in S : Cardinality(Below(S, R, i)) = k - 1)
    BY <1>3
  <2>2. Ranked(incidents) =
          [k \in 1..Cardinality(S) |->
             incidents[CHOOSE i \in S : Cardinality({j \in S : Higher(incidents, j, i)}) = k - 1]]
    BY DEF Ranked, Alarms, Higher
  <2>. HIDE DEF S, R
  <2>. QED
    BY <2>1, <2>2
<1>5. StrictOrder(S, R)
  <2>1. \A i \in S : i \in Int /\ incidents[i].score \in Int
    BY <1>1
  <2>2. \A i, j \in S : <<i, j>> \in R <=> Higher(incidents, i, j)
    BY DEF ByScore
  <2>. HIDE DEF S, R
  <2>3. \A i \in S : ~Higher(incidents, i, i)
    BY <2>1 DEF Higher
  <2>4. \A i, j \in S : i # j => Higher(incidents, i, j) \/ Higher(incidents, j, i)
    BY <2>1 DEF Higher
  <2>5. \A i, j, k \in S : Higher(incidents, i, j) /\ Higher(incidents, j, k) => Higher(incidents, i, k)
    BY <2>1 DEF Higher
  <2>. QED
    BY <2>2, <2>3, <2>4, <2>5 DEF StrictOrder
<1>6. Lists(S, R, nth)
  <2>1. \A k \in 1..Cardinality(S) : nth[k] = CHOOSE i \in S : Cardinality(Below(S, R, i)) = k - 1
    OBVIOUS
  <2>. HIDE DEF nth, S, R
  <2>. QED
    BY <1>2, <1>5, <2>1, ListedByRank
<1>. QED
  BY <1>2, <1>4, <1>6

\* The incidents of a store before they are ranked.
Raised(store) ==
  QueueIncidents(store.queues) \o [i \in DOMAIN store.shelves |-> StockIncident(store.shelves[i])]

LEMMA StockScored == ASSUME NEW shelf \in ShelfKinds PROVE Scored(StockIncident(shelf)) /\ StockIncident(shelf).of = "shelf"
<1>. DEFINE s == Stock(shelf)
<1>1. shelf.units \in Nat /\ shelf.used \in Nat
  BY DEF ShelfKinds
<1>2. s \in {"out", "critical", "low", "normal"}
  <2>1. CASE shelf.units = 0
    BY <2>1 DEF Stock
  <2>2. CASE shelf.units > 0 /\ (shelf.units <= 2 \/ shelf.units < 10 * shelf.used)
    BY <2>2 DEF Stock
  <2>3. CASE shelf.units > 2 /\ shelf.units >= 10 * shelf.used
    BY <2>3 DEF Stock
  <2>. QED
    BY <1>1, <2>1, <2>2, <2>3
<1>. HIDE DEF s
<1>3. StockScore(s) = IF s = "low" THEN 12240 ELSE 20400
  BY DEF StockScore, Score
<1>. QED
  BY <1>2, <1>3 DEF StockIncident, Scored, s

LEMMA LongestIs ==
  ASSUME NEW queues \in Seq(Queues), queues # <<>>
  PROVE  /\ LongestQueue(queues) \in DOMAIN queues
         /\ \A j \in DOMAIN queues : queues[j].depth <= queues[LongestQueue(queues)].depth
<1>. DEFINE n == Len(queues)
            Longer(i, j) == \/ queues[i].depth > queues[j].depth
                            \/ queues[i].depth = queues[j].depth /\ i <= j
            known == {k \in 0..n : k = 0 \/ \E i \in 1..k : \A j \in 1..k : Longer(i, j)}
<1>1. n \in Nat /\ n # 0 /\ DOMAIN queues = 1..n /\ \A i \in 1..n : queues[i].depth \in Nat
  <2>1. n \in Nat /\ n # 0 /\ DOMAIN queues = 1..n /\ \A i \in 1..n : queues[i] \in Queues
    OBVIOUS
  <2>. QED
    BY <2>1 DEF Queues
<1>. HIDE DEF n
<1>2. ASSUME NEW k \in 1..n, k - 1 \in known PROVE k \in known
  <2>1. k = 1 \/ k - 1 \in 1..n
    BY <1>1
  <2>2. \A j : j \in 1..k <=> j \in 1..(k - 1) \/ j = k
    BY <1>1
  <2>3. CASE k = 1
    <3>1. Longer(1, 1) /\ 1..1 = {1} /\ 1 \in 0..n
      BY <1>1, <2>3
    <3>. HIDE DEF Longer
    <3>. QED
      BY <2>3, <3>1
  <2>4. CASE k # 1
    <3>1. PICK i \in 1..(k - 1) : \A j \in 1..(k - 1) : Longer(i, j)
      BY <1>1, <1>2, <2>4
    <3>2. /\ i \in 1..n /\ k \in 1..n /\ i < k
          /\ \A j \in 1..(k - 1) : j \in 1..n /\ j < k
      BY <1>1
    <3>3. CASE queues[k].depth > queues[i].depth
      <4>1. \A j \in 1..(k - 1) : Longer(k, j)
        BY <1>1, <3>1, <3>2, <3>3
      <4>2. Longer(k, k)
        OBVIOUS
      <4>. HIDE DEF Longer
      <4>3. k \in 1..k /\ k \in 0..n
        BY <1>1
      <4>. QED
        BY <2>2, <4>1, <4>2, <4>3
    <3>4. CASE ~(queues[k].depth > queues[i].depth)
      <4>1. Longer(i, k)
        BY <1>1, <3>2, <3>4
      <4>. HIDE DEF Longer
      <4>2. i \in 1..k /\ k \in 0..n
        BY <1>1, <2>2
      <4>. QED
        BY <2>2, <3>1, <4>1, <4>2
    <3>. QED
      BY <3>3, <3>4
  <2>. QED
    BY <2>3, <2>4
<1>3. 0 \in known
  BY <1>1
<1>4. 0..n \subseteq known
  <2>. HIDE DEF known
  <2>. QED
    BY <1>1, <1>2, <1>3, UpTo
<1>5. \E i \in DOMAIN queues : \A j \in DOMAIN queues : Longer(i, j)
  <2>1. n \in known
    <3>. HIDE DEF known
    <3>. QED
      BY <1>1, <1>4
  <2>. HIDE DEF Longer
  <2>. QED
    BY <1>1, <2>1
<1>6. /\ LongestQueue(queues) \in DOMAIN queues
      /\ \A j \in DOMAIN queues : Longer(LongestQueue(queues), j)
  BY <1>5 DEF LongestQueue
<1>. QED
  BY <1>1, <1>6

Congestions == {i \in [of : {"queue"}, status : {"critical", "warning"}, score : Int] : Scored(i)}

LEMMA QueueScored ==
  ASSUME NEW queues \in Seq(Queues)
  PROVE  /\ QueueIncidents(queues) \in Seq(Congestions)
         /\ Len(QueueIncidents(queues)) <= 1
         /\ queues # <<>> /\ queues[LongestQueue(queues)].depth >= 5 => Len(QueueIncidents(queues)) = 1
<1>. DEFINE q == queues[LongestQueue(queues)]
            status == Congestion(q)
<1>0. <<>> \in Seq(Congestions) /\ Len(<<>>) = 0
  OBVIOUS
<1>1. CASE queues = <<>>
  <2>1. QueueIncidents(queues) = <<>>
    BY <1>1 DEF QueueIncidents
  <2>2. QueueIncidents(queues) \in Seq(Congestions) /\ Len(QueueIncidents(queues)) = 0
    BY <1>0, <2>1
  <2>. QED
    BY <1>1, <2>2
<1>2. CASE queues # <<>>
  <2>1. q \in Queues
    BY <1>2, LongestIs
  <2>2. status \in {"critical", "warning", "normal"} /\ (q.depth >= 5 => status # "normal")
    <3>. DEFINE growth == q.arrivals - q.service * q.counters
    <3>1. q.counters \in Nat /\ q.depth \in Nat /\ q.arrivals \in Nat /\ q.service \in Nat
      BY <2>1 DEF Queues
    <3>2. growth \in Int
      BY <3>1
    <3>. HIDE DEF q
    <3>3. CASE q.counters = 0 \/ q.depth >= 8
      BY <3>3 DEF Congestion
    <3>4. CASE q.counters > 0 /\ q.depth < 8 /\ growth > 0
      BY <3>4 DEF Congestion
    <3>5. CASE q.counters > 0 /\ q.depth < 8 /\ growth <= 0
      BY <3>5 DEF Congestion
    <3>. HIDE DEF status, growth
    <3>. QED
      BY <3>1, <3>2, <3>3, <3>4, <3>5
  <2>. HIDE DEF status, q
  <2>3. CASE status = "normal"
    <3>1. QueueIncidents(queues) = <<>>
      BY <1>2, <2>3 DEF QueueIncidents, status, q
    <3>2. QueueIncidents(queues) \in Seq(Congestions) /\ Len(QueueIncidents(queues)) = 0
      BY <1>0, <3>1
    <3>. QED
      BY <2>2, <2>3, <3>2 DEF q
  <2>4. CASE status # "normal"
    <3>. DEFINE in == [of |-> "queue", status |-> status, score |-> QueueScore(status)]
    <3>1. QueueIncidents(queues) = <<in>>
      BY <1>2, <2>4 DEF QueueIncidents, status, q
    <3>2. QueueScore(status) = IF status = "critical" THEN 64800 ELSE 22680
      BY DEF QueueScore, Score
    <3>3. in \in Congestions
      BY <2>2, <2>4, <3>2 DEF Scored, Congestions
    <3>. HIDE DEF in
    <3>4. <<in>> \in Seq(Congestions) /\ Len(<<in>>) = 1
      BY <3>3
    <3>. QED
      BY <3>1, <3>3, <3>4
  <2>. QED
    BY <2>3, <2>4
<1>. QED
  BY <1>1, <1>2

Stocks == {StockIncident(shelf) : shelf \in ShelfKinds}

LEMMA RaisedIs ==
  ASSUME NEW store \in StoreStates
  PROVE  /\ Raised(store) \in Seq(Congestions \cup Stocks)
         /\ \A i \in DOMAIN Raised(store) : Scored(Raised(store)[i]) /\ Raised(store)[i].score \in Int
         /\ \A i \in DOMAIN Raised(store) : i # 1 => Raised(store)[i].of = "shelf"
         /\ Len(QueueIncidents(store.queues)) = 1 => 1 \in DOMAIN Raised(store) /\ Raised(store)[1].of = "queue"
<1>. DEFINE a == QueueIncidents(store.queues)
            b == [i \in DOMAIN store.shelves |-> StockIncident(store.shelves[i])]
            T == Congestions \cup Stocks
<1>1. store.queues \in Seq(Queues) /\ store.shelves \in Seq(ShelfKinds)
  BY DEF StoreStates
<1>2. a \in Seq(Congestions) /\ Len(a) \in Nat /\ Len(a) <= 1
  BY <1>1, QueueScored
<1>3. b \in Seq(Stocks)
  <2>1. \A i \in DOMAIN store.shelves : StockIncident(store.shelves[i]) \in Stocks
    BY <1>1 DEF Stocks
  <2>2. Len(store.shelves) \in Nat /\ DOMAIN store.shelves = 1..Len(store.shelves)
    BY <1>1
  <2>3. b \in [1..Len(store.shelves) -> Stocks]
    BY <2>1, <2>2
  <2>. HIDE DEF b
  <2>. QED
    BY <2>2, <2>3
<1>4. Raised(store) = a \o b
  BY DEF Raised
<1>. HIDE DEF a, b
<1>5. a \in Seq(T) /\ b \in Seq(T)
  <2>1. \A i \in 1..Len(a) : a[i] \in T
    BY <1>2
  <2>2. \A i \in 1..Len(b) : b[i] \in T
    BY <1>3
  <2>. HIDE DEF T
  <2>. QED
    BY <1>2, <1>3, <2>1, <2>2
<1>6. a \o b \in Seq(T) /\ Len(a \o b) = Len(a) + Len(b)
  <2>. HIDE DEF T
  <2>. QED
    BY <1>5
<1>7. \A i \in 1..Len(a \o b) : (a \o b)[i] = IF i <= Len(a) THEN a[i] ELSE b[i - Len(a)]
  BY <1>2, <1>3
<1>8. \A x \in Congestions : Scored(x) /\ x.of = "queue" /\ x.score \in Int
  BY DEF Congestions
<1>9. \A x \in Stocks : Scored(x) /\ x.of = "shelf" /\ x.score \in Int
  BY StockScored DEF Stocks, Scored
<1>10. Len(b) \in Nat /\ \A i \in 1..Len(b) : b[i] \in Stocks
  BY <1>3
<1>11. \A i \in 1..Len(a) : a[i] \in Congestions
  BY <1>2
<1>12. DOMAIN (a \o b) = 1..Len(a \o b)
  <2>. HIDE DEF T
  <2>. QED
    BY <1>6
<1>13. ASSUME NEW i \in 1..Len(a \o b)
       PROVE  \/ i = 1 /\ Len(a) = 1 /\ (a \o b)[i] \in Congestions
              \/ (i # 1 \/ Len(a) # 1) /\ (a \o b)[i] \in Stocks
  <2>0. /\ Len(a) \in Nat /\ Len(a) <= 1 /\ Len(b) \in Nat
        /\ i \in Nat /\ 1 <= i /\ i <= Len(a) + Len(b)
    <3>1. Len(a) \in Nat /\ Len(b) \in Nat
      BY <1>2, <1>10
    <3>2. i \in 1..(Len(a) + Len(b))
      BY <1>6
    <3>. QED
      BY <1>2, <3>1, <3>2
  <2>1. CASE i <= Len(a)
    <3>. DEFINE l == Len(a)
    <3>0. l \in Nat /\ l <= 1 /\ i \in Nat /\ 1 <= i /\ i <= l
      BY <2>0, <2>1
    <3>. HIDE DEF l
    <3>1a. i = 1 /\ l = 1 /\ i \in 1..l
      BY <3>0
    <3>1. i = 1 /\ Len(a) = 1 /\ i \in 1..Len(a)
      BY <3>1a DEF l
    <3>. QED
      BY <1>7, <1>11, <2>1, <3>1
  <2>2. CASE ~(i <= Len(a))
    <3>1. i - Len(a) \in 1..Len(b) /\ (i # 1 \/ Len(a) # 1)
      BY <2>0, <2>2
    <3>. QED
      BY <1>7, <1>10, <2>2, <3>1
  <2>. QED
    BY <2>1, <2>2
<1>14. Len(a) = 1 => 1 \in 1..Len(a \o b)
  BY <1>6, <1>10
<1>. HIDE DEF T
<1>. QED
  BY <1>4, <1>6, <1>8, <1>9, <1>12, <1>13, <1>14 DEF a, T

\* acted is the first k of all, and all of them when k is under the limit.
FirstOf(T, all, acted, k) ==
  /\ k <= Len(all) /\ k <= MaxActions
  /\ k < Len(all) => k = MaxActions
  /\ acted \in Seq(T) /\ Len(acted) = k /\ DOMAIN acted = 1..k
  /\ \A i \in 1..k : acted[i] = all[i]

\* The incidents acted on are the first ones.
LEMMA ActedIs ==
  ASSUME NEW T, NEW all \in Seq(T)
  PROVE  \E k \in Nat : FirstOf(T, all, ActedOn(all), k)
<1>. DEFINE k == IF Len(all) > MaxActions THEN MaxActions ELSE Len(all)
<1>1. k \in Nat /\ k <= Len(all) /\ k <= MaxActions /\ (k < Len(all) => k = MaxActions)
  BY OperationsAssumption
<1>2. ActedOn(all) = SubSeq(all, 1, k)
  BY DEF ActedOn
<1>. HIDE DEF k
<1>3. /\ SubSeq(all, 1, k) \in Seq(T) /\ Len(SubSeq(all, 1, k)) = k
      /\ DOMAIN SubSeq(all, 1, k) = 1..k
      /\ \A i \in 1..k : SubSeq(all, 1, k)[i] = all[i]
  <2>1. \A i \in 1..k : i \in 1..Len(all)
    BY <1>1
  <2>. QED
    BY <1>1, <2>1
<1>4. FirstOf(T, all, ActedOn(all), k)
  BY <1>1, <1>2, <1>3 DEF FirstOf
<1>. QED
  BY <1>1, <1>4

\* The incidents of a store by rank.
LEMMA IncidentsAre ==
  ASSUME NEW store \in StoreStates
  PROVE  LET raised == Raised(store)
         IN  \E nth : /\ Lists(Alarms(raised), ByScore(raised), nth)
                      /\ Cardinality(Alarms(raised)) \in Nat
                      /\ Incidents(store) = [k \in 1..Cardinality(Alarms(raised)) |-> raised[nth[k]]]
                      /\ Incidents(store) \in Seq(Congestions \cup Stocks)
                      /\ Len(Incidents(store)) = Cardinality(Alarms(raised))
<1>. DEFINE raised == Raised(store)
            n == Len(raised)
            T == Congestions \cup Stocks
<1>1. raised \in Seq(T) /\ \A i \in DOMAIN raised : raised[i].score \in Int
  BY RaisedIs
<1>2. Incidents(store) = Ranked(raised)
  BY DEF Incidents, Raised
<1>. HIDE DEF raised, T
<1>3. n \in Nat /\ DOMAIN raised = 1..n /\ \A i \in 1..n : raised[i] \in T /\ raised[i].score \in Int
  BY <1>1
<1>4. PICK nth : /\ Lists(Alarms(raised), ByScore(raised), nth)
                 /\ Cardinality(Alarms(raised)) \in Nat
                 /\ Ranked(raised) = [k \in 1..Cardinality(Alarms(raised)) |-> raised[nth[k]]]
  <2>. HIDE DEF n
  <2>. QED
    BY <1>3, RankedIs
<1>5. \A k \in 1..Cardinality(Alarms(raised)) : raised[nth[k]] \in T
  BY <1>3, <1>4 DEF Lists, Alarms
<1>6. Ranked(raised) \in [1..Cardinality(Alarms(raised)) -> T]
  BY <1>4, <1>5
<1>7. Ranked(raised) \in Seq(T) /\ Len(Ranked(raised)) = Cardinality(Alarms(raised))
  BY <1>4, <1>6
<1>. QED
  BY <1>2, <1>4, <1>7 DEF raised, T

\* The longest queue by itself, when it is long, is acted on first.
LEMMA LongestIsFirst ==
  ASSUME NEW store \in StoreStates, Len(QueueIncidents(store.queues)) = 1
  PROVE  "MOVE_STAFF" \in Range(NewTasks(store))
<1>. DEFINE raised == Raised(store)
            S == Alarms(raised)
            all == Incidents(store)
            T == Congestions \cup Stocks
<1>1. PICK nth : /\ Lists(S, ByScore(raised), nth)
                 /\ Cardinality(S) \in Nat
                 /\ all = [k \in 1..Cardinality(S) |-> raised[nth[k]]]
                 /\ all \in Seq(T) /\ Len(all) = Cardinality(S)
  BY IncidentsAre
<1>2. /\ \A i \in DOMAIN raised : Scored(raised[i]) /\ raised[i].score \in Int
      /\ \A i \in DOMAIN raised : i # 1 => raised[i].of = "shelf"
      /\ 1 \in DOMAIN raised /\ raised[1].of = "queue"
  BY RaisedIs
<1>. HIDE DEF raised, all, T
<1>3. 1 \in S /\ raised[1].score >= 22680
  BY <1>2 DEF Alarms, Alarming, Scored
<1>4. \A i \in S : i # 1 => raised[i].score <= 20400
  BY <1>2 DEF Alarms, Alarming, Scored
<1>5. PICK k \in 1..Cardinality(S) : nth[k] = 1
  BY <1>1, <1>3 DEF Lists
<1>6. k = 1
  <2>1. 1 \in 1..Cardinality(S) /\ k \in Nat /\ 1 <= k
    BY <1>1
  <2>2. ASSUME 1 < k PROVE FALSE
    <3>1. <<nth[1], nth[k]>> \in ByScore(raised) /\ nth[1] \in S
      BY <1>1, <1>5, <2>1, <2>2 DEF Lists
    <3>2. Higher(raised, nth[1], 1)
      BY <1>5, <3>1 DEF ByScore
    <3>3. CASE nth[1] = 1
      BY <1>2, <1>3, <3>2, <3>3 DEF Higher
    <3>4. CASE nth[1] # 1
      <4>1. raised[nth[1]].score <= 20400 /\ raised[nth[1]].score \in Int /\ raised[1].score \in Int
        BY <1>2, <1>3, <1>4, <3>1, <3>4 DEF Alarms
      <4>. QED
        BY <1>3, <3>2, <4>1 DEF Higher
    <3>. QED
      BY <3>3, <3>4
  <2>. QED
    BY <2>1, <2>2
<1>7. all[1] = raised[1] /\ Len(all) >= 1
  BY <1>1, <1>5, <1>6
<1>8. PICK m \in Nat : FirstOf(T, all, ActedOn(all), m)
  BY <1>1, ActedIs
<1>9. m >= 1 /\ DOMAIN ActedOn(all) = 1..m /\ ActedOn(all)[1] = all[1]
  <2>1. Len(all) \in Nat
    BY <1>1
  <2>2. m >= 1
    BY <1>7, <1>8, <2>1, OperationsAssumption DEF FirstOf
  <2>. QED
    BY <1>8, <2>2 DEF FirstOf
<1>10. 1 \in DOMAIN ActedOn(all) /\ ActedOn(all)[1] = raised[1]
  BY <1>7, <1>9
<1>11. NewTasks(store) = [i \in DOMAIN ActedOn(all) |-> ActionFor(ActedOn(all)[i])]
  BY DEF NewTasks, all
<1>12. NewTasks(store)[1] = "MOVE_STAFF" /\ 1 \in DOMAIN NewTasks(store)
  BY <1>2, <1>10, <1>11 DEF ActionFor
<1>. QED
  BY <1>12 DEF Range

\* A low shelf is not acted on before anything that is worse.
LEMMA LowIsLast ==
  ASSUME NEW store \in StoreStates, NEW i \in DOMAIN ActedOn(Incidents(store)),
         ActedOn(Incidents(store))[i].status = "low",
         NEW j \in DOMAIN Incidents(store), j \notin DOMAIN ActedOn(Incidents(store))
  PROVE  Incidents(store)[j].status = "low"
<1>. DEFINE raised == Raised(store)
            S == Alarms(raised)
            all == Incidents(store)
            T == Congestions \cup Stocks
<1>1. PICK nth : /\ Lists(S, ByScore(raised), nth)
                 /\ Cardinality(S) \in Nat
                 /\ all = [k \in 1..Cardinality(S) |-> raised[nth[k]]]
                 /\ all \in Seq(T) /\ Len(all) = Cardinality(S)
  BY IncidentsAre
<1>2. \A k \in DOMAIN raised : Scored(raised[k]) /\ raised[k].score \in Int
  BY RaisedIs
<1>. HIDE DEF raised, all, T
<1>3. PICK m \in Nat : FirstOf(T, all, ActedOn(all), m)
  BY <1>1, ActedIs
<1>3a. m <= Len(all) /\ DOMAIN ActedOn(all) = 1..m /\ \A k \in 1..m : ActedOn(all)[k] = all[k]
  BY <1>3 DEF FirstOf
<1>4. i \in 1..m /\ j \in 1..Cardinality(S) /\ j \notin 1..m
  BY <1>1, <1>3a DEF all
<1>5. i \in 1..Cardinality(S) /\ i < j
  BY <1>1, <1>3a, <1>4
<1>6. all[i].status = "low"
  BY <1>3a, <1>4 DEF all
<1>7. nth[i] \in S /\ nth[j] \in S /\ Higher(raised, nth[i], nth[j])
  BY <1>1, <1>4, <1>5 DEF Lists, ByScore
<1>8. all[i] = raised[nth[i]] /\ all[j] = raised[nth[j]]
  BY <1>1, <1>4, <1>5
<1>9. /\ Scored(raised[nth[i]]) /\ raised[nth[i]].score \in Int
      /\ Scored(raised[nth[j]]) /\ raised[nth[j]].score \in Int /\ raised[nth[j]].status # "normal"
  BY <1>2, <1>7 DEF Alarms, Alarming
<1>10. raised[nth[i]].score = 12240
  BY <1>6, <1>8, <1>9 DEF Scored
<1>11. raised[nth[j]].score <= 12240
  BY <1>7, <1>9, <1>10 DEF Higher
<1>12. raised[nth[j]].status = "low"
  BY <1>9, <1>11 DEF Scored
<1>. QED
  BY <1>8, <1>12 DEF all

\* A store state of the API has neither of the fields that could resolve a task.
LEMMA NothingResolved ==
  ASSUME NEW store \in StoreStates, NEW task
  PROVE  ~Resolved(task, store)
<1>1. DOMAIN store = {"queues", "shelves"}
  BY DEF StoreStates
<1>. QED
  BY <1>1 DEF Resolved

Recommendations == [action : {"MOVE_STAFF", "CREATE_RESTOCK_TASK"}, status : {"RECOMMENDED"}]

LEMMA IntervalSize == ASSUME NEW n \in Nat PROVE Cardinality(1..n) = n
<1>1. 1 \in Int /\ n \in Int
  OBVIOUS
<1>2. Cardinality(1..n) = IF 1 > n THEN 0 ELSE n - 1 + 1
  BY <1>1, FS_Interval
<1>. QED
  BY <1>2

\* A cycle adds the new tasks, all open, and verifies none.
LEMMA CycleAdds ==
  ASSUME NEW store \in StoreStates, NEW loop, loop.tasks \in Seq(Recommendations)
  PROVE  LET w == Cycle(loop, store)
         IN  /\ w.tasks \in Seq(Recommendations)
             /\ Len(w.tasks) = Len(loop.tasks) + Len(ActedOn(Incidents(store)))
             /\ w.last[1].checked = Len(w.tasks)
<1>. DEFINE acted == ActedOn(Incidents(store))
            new == NewTasks(store)
            added == [i \in DOMAIN new |-> [action |-> new[i], status |-> "RECOMMENDED"]]
            tasks == loop.tasks \o added
            w == Cycle(loop, store)
<1>1. PICK k \in Nat : Len(acted) = k /\ DOMAIN acted = 1..k
  <2>1. Incidents(store) \in Seq(Congestions \cup Stocks)
    BY IncidentsAre
  <2>. QED
    BY <2>1, ActedIs DEF FirstOf
<1>2. new = [i \in 1..k |-> ActionFor(acted[i])]
  BY <1>1 DEF NewTasks
<1>. HIDE DEF new
<1>3. added \in [1..k -> Recommendations]
  <2>1. \A i \in 1..k : new[i] \in {"MOVE_STAFF", "CREATE_RESTOCK_TASK"}
    BY <1>2 DEF ActionFor
  <2>2. DOMAIN new = 1..k
    BY <1>2
  <2>. QED
    BY <2>1, <2>2 DEF Recommendations
<1>. HIDE DEF added
<1>4. added \in Seq(Recommendations) /\ Len(added) = k
  BY <1>1, <1>3
<1>5. tasks \in Seq(Recommendations) /\ Len(tasks) = Len(loop.tasks) + k
  BY <1>4
<1>6. w.tasks = Verified(tasks, store)
      /\ w.last[1].checked = Cardinality({i \in DOMAIN tasks : Open(tasks[i])})
  BY DEF Cycle, new, added
<1>. HIDE DEF tasks, w, acted
<1>7. DOMAIN tasks = 1..Len(tasks) /\ Len(tasks) \in Nat /\ \A i \in 1..Len(tasks) : tasks[i] \in Recommendations
  BY <1>5
<1>8. Verified(tasks, store) = [i \in 1..Len(tasks) |-> tasks[i]]
  BY <1>7, NothingResolved DEF Verified
<1>9. w.tasks = tasks
  BY <1>5, <1>6, <1>8
<1>10. {i \in DOMAIN tasks : Open(tasks[i])} = 1..Len(tasks)
  BY <1>7 DEF Open, Recommendations
<1>11. Cardinality(1..Len(tasks)) = Len(tasks)
  <2>1. Len(tasks) \in Nat
    BY <1>7
  <2>. QED
    BY <2>1, IntervalSize
<1>. QED
  BY <1>1, <1>5, <1>6, <1>9, <1>10, <1>11 DEF acted, w

\* Whatever the queues and the shelves of a store and however many actions a
\* cycle takes: the longest queue, when it is long, is acted on, a low shelf is
\* not acted on before anything worse, and the tasks of a lasting incident pile
\* up, all of them open (EdgeOrchestrator.run_cycle).
THEOREM AttendedTheorem == ASSUME NEW store \in StoreStates PROVE Attended(store)
<1>. DEFINE all == Incidents(store)
            acted == ActedOn(all)
            once == Cycle(NewLoop, store)
            again == Cycle(once, store)
<1>1. ASSUME NEW q \in Range(store.queues),
             \A r \in Range(store.queues) : r.depth < q.depth \/ r = q, q.depth >= 5
      PROVE  "MOVE_STAFF" \in Range(NewTasks(store))
  <2>. DEFINE queues == store.queues
              l == LongestQueue(queues)
  <2>1. queues \in Seq(Queues)
    BY DEF StoreStates
  <2>. HIDE DEF queues
  <2>2. PICK i \in DOMAIN queues : queues[i] = q
    BY <1>1 DEF Range, queues
  <2>3. queues # <<>>
    <3>1. DOMAIN <<>> = {}
      OBVIOUS
    <3>. QED
      BY <2>2, <3>1
  <2>4. l \in DOMAIN queues /\ q.depth <= queues[l].depth
    BY <2>1, <2>2, <2>3, LongestIs
  <2>5. queues[l].depth >= 5
    <3>1. queues[l] \in Queues /\ q \in Queues
      BY <2>1, <2>2, <2>4
    <3>. QED
      BY <1>1, <2>4, <3>1 DEF Queues
  <2>6. Len(QueueIncidents(queues)) = 1
    BY <2>1, <2>3, <2>5, QueueScored
  <2>. QED
    BY <2>6, LongestIsFirst DEF queues
<1>2. ASSUME NEW i \in DOMAIN acted, acted[i].status = "low", NEW j \in DOMAIN all, j \notin DOMAIN acted
      PROVE  all[j].status = "low"
  BY <1>2, LowIsLast
<1>3. /\ Len(again.tasks) = 2 * Len(acted)
      /\ \A i \in DOMAIN again.tasks : Open(again.tasks[i])
      /\ again.last[1].checked = Len(again.tasks)
  <2>1. NewLoop.tasks \in Seq(Recommendations) /\ Len(NewLoop.tasks) = 0
    BY DEF NewLoop
  <2>2. once.tasks \in Seq(Recommendations) /\ Len(once.tasks) = Len(NewLoop.tasks) + Len(acted)
    BY <2>1, CycleAdds
  <2>3. /\ again.tasks \in Seq(Recommendations)
        /\ Len(again.tasks) = Len(once.tasks) + Len(acted)
        /\ again.last[1].checked = Len(again.tasks)
    <3>. HIDE DEF once
    <3>. QED
      BY <2>2, CycleAdds
  <2>4. Len(acted) \in Nat
    <3>1. all \in Seq(Congestions \cup Stocks)
      BY IncidentsAre
    <3>. HIDE DEF all
    <3>. QED
      BY <3>1, ActedIs DEF FirstOf
  <2>. HIDE DEF once, again, acted
  <2>5. \A i \in DOMAIN again.tasks : Open(again.tasks[i])
    <3>1. \A i \in DOMAIN again.tasks : again.tasks[i] \in Recommendations
      BY <2>3
    <3>. QED
      BY <3>1 DEF Recommendations, Open
  <2>. QED
    BY <2>1, <2>2, <2>3, <2>4, <2>5
<1>. QED
  BY <1>1, <1>2, <1>3 DEF Attended

-----------------------------------------------------------------------------
(* Sums over finite sets *)

\* it adds f up over the subsets of D, the elements taken as they are picked.
Adder(it, f, D) ==
  it = [s \in SUBSET D |-> IF s = {} THEN 0
                           ELSE LET x == CHOOSE y \in s : TRUE IN f[x] + it[s \ {x}]]

\* The sums do not depend on which element is taken first.
Adds(it, f, D) ==
  /\ it \in [SUBSET D -> Int]
  /\ it[{}] = 0
  /\ \A s \in SUBSET D : \A x \in s : it[s] = f[x] + it[s \ {x}]

\* Induction over the subsets of a finite set: here by their size.
LEMMA BySize ==
  ASSUME NEW D, IsFiniteSet(D), NEW P \in SUBSET (SUBSET D),
         \A s \in SUBSET D : (\A x \in s : s \ {x} \in P) => s \in P
  PROVE  P = SUBSET D
<1>. DEFINE n == Cardinality(D)
            sizes == {k \in 0..n : \A s \in SUBSET D : Cardinality(s) = k => s \in P}
<1>1. n \in Nat /\ \A s \in SUBSET D : IsFiniteSet(s) /\ Cardinality(s) \in 0..n
  <2>1. n \in Nat
    BY FS_CardinalityType
  <2>2. ASSUME NEW s \in SUBSET D PROVE IsFiniteSet(s) /\ Cardinality(s) \in Nat /\ Cardinality(s) <= n
    <3>1. IsFiniteSet(s) /\ Cardinality(s) <= n
      BY FS_Subset
    <3>. QED
      BY <3>1, FS_CardinalityType
  <2>. HIDE DEF n
  <2>. QED
    BY <2>1, <2>2
<1>2. ASSUME NEW k \in 0..n, k = 0 \/ k - 1 \in sizes PROVE k \in sizes
  <2>1. ASSUME NEW s \in SUBSET D, Cardinality(s) = k PROVE s \in P
    <3>1. ASSUME NEW x \in s PROVE s \ {x} \in P
      <4>1. Cardinality(s \ {x}) = k - 1
        BY <1>1, <2>1, FS_RemoveElement
      <4>2. Cardinality(s \ {x}) \in 0..n
        BY <1>1
      <4>3. k # 0
        BY <4>1, <4>2
      <4>. QED
        BY <1>2, <4>1, <4>3
    <3>. QED
      BY <3>1
  <2>. QED
    BY <2>1
<1>. HIDE DEF n
<1>3. 0..n \subseteq sizes
  <2>1. 0 \in sizes /\ \A k \in 1..n : k - 1 \in sizes => k \in sizes
    <3>1. 0 \in 0..n /\ \A k \in 1..n : k \in 0..n
      BY <1>1
    <3>. HIDE DEF sizes
    <3>. QED
      BY <1>2, <3>1
  <2>. HIDE DEF sizes
  <2>. QED
    BY <1>1, <2>1, UpTo
<1>4. ASSUME NEW s \in SUBSET D PROVE s \in P
  BY <1>1, <1>3
<1>. QED
  BY <1>4

LEMMA AdderAdds ==
  ASSUME NEW D, IsFiniteSet(D), NEW f \in [D -> Int], NEW it, Adder(it, f, D)
  PROVE  Adds(it, f, D)
<1>. DEFINE Pick(s) == CHOOSE y \in s : TRUE
<1>1. /\ it = [s \in SUBSET D |-> it[s]] /\ it[{}] = 0
      /\ \A s \in SUBSET D : s # {} => Pick(s) \in s /\ it[s] = f[Pick(s)] + it[s \ {Pick(s)}]
  BY DEF Adder
<1>. HIDE DEF Pick
<1>2. ASSUME NEW s \in SUBSET D, NEW x \in s PROVE s \ {x} \in SUBSET D /\ f[x] \in Int
  OBVIOUS
<1>. DEFINE T == {s \in SUBSET D : it[s] \in Int}
<1>3. T = SUBSET D
  <2>1. ASSUME NEW s \in SUBSET D, \A x \in s : s \ {x} \in T PROVE s \in T
    <3>1. CASE s = {}
      BY <1>1, <3>1
    <3>2. CASE s # {}
      <4>1. Pick(s) \in s /\ it[s] = f[Pick(s)] + it[s \ {Pick(s)}]
        BY <1>1, <3>2
      <4>2. f[Pick(s)] \in Int /\ it[s \ {Pick(s)}] \in Int
        BY <1>2, <2>1, <4>1
      <4>. QED
        BY <4>1, <4>2
    <3>. QED
      BY <3>1, <3>2
  <2>2. T \in SUBSET (SUBSET D)
    OBVIOUS
  <2>. HIDE DEF T
  <2>. QED
    BY <2>1, <2>2, BySize
<1>. DEFINE P == {s \in SUBSET D : \A x \in s : it[s] = f[x] + it[s \ {x}]}
<1>4. ASSUME NEW s \in SUBSET D, \A x \in s : s \ {x} \in P PROVE s \in P
  <2>1. ASSUME NEW x \in s PROVE it[s] = f[x] + it[s \ {x}]
    <3>. DEFINE p == Pick(s)
    <3>1. p \in s /\ it[s] = f[p] + it[s \ {p}]
      BY <1>1, <2>1
    <3>. HIDE DEF p
    <3>2. CASE x = p
      BY <3>1, <3>2
    <3>3. CASE x # p
      <4>. DEFINE rest == (s \ {p}) \ {x}
      <4>1. rest = (s \ {x}) \ {p} /\ x \in s \ {p} /\ p \in s \ {x} /\ rest \in SUBSET D
        BY <3>1, <3>3
      <4>2. it[s \ {p}] = f[x] + it[rest]
        BY <1>4, <3>1, <4>1
      <4>3. it[s \ {x}] = f[p] + it[rest]
        BY <1>4, <4>1
      <4>. HIDE DEF rest
      <4>4. f[x] \in Int /\ f[p] \in Int /\ it[rest] \in Int
        BY <1>2, <1>3, <3>1, <4>1
      <4>. QED
        BY <3>1, <4>2, <4>3, <4>4
    <3>. QED
      BY <3>2, <3>3
  <2>. QED
    BY <2>1
<1>5. P = SUBSET D
  <2>1. P \in SUBSET (SUBSET D)
    OBVIOUS
  <2>. HIDE DEF P
  <2>. QED
    BY <1>4, <2>1, BySize
<1>6. it \in [SUBSET D -> Int]
  BY <1>1, <1>3
<1>. QED
  BY <1>1, <1>5, <1>6 DEF Adds

\* A finite set of integers can be added up.
LEMMA SumExists ==
  ASSUME NEW D, IsFiniteSet(D), NEW f \in [D -> Int]
  PROVE  \E it : Adder(it, f, D)
<1>. DEFINE Pick(s) == CHOOSE y \in s : TRUE
            n == Cardinality(D)
            Small(k) == {s \in SUBSET D : Cardinality(s) <= k}
            Sums(g) == \A s \in DOMAIN g : g[s] = IF s = {} THEN 0 ELSE f[Pick(s)] + g[s \ {Pick(s)}]
            possible == {k \in 0..n : \E g : DOMAIN g = Small(k) /\ g = [s \in Small(k) |-> g[s]] /\ Sums(g)}
<1>1. n \in Nat
  BY FS_CardinalityType
<1>2. ASSUME NEW s \in SUBSET D
      PROVE  /\ IsFiniteSet(s) /\ Cardinality(s) \in Nat /\ Cardinality(s) <= n
             /\ Cardinality(s) <= 0 => s = {}
             /\ s # {} => Pick(s) \in s /\ s \ {Pick(s)} \in SUBSET D
                          /\ Cardinality(s \ {Pick(s)}) = Cardinality(s) - 1
  <2>1. IsFiniteSet(s) /\ Cardinality(s) <= n
    BY FS_Subset
  <2>2. Cardinality(s) \in Nat
    BY <2>1, FS_CardinalityType
  <2>3. Cardinality(s) <= 0 => s = {}
    BY <2>1, <2>2, FS_EmptySet
  <2>4. s # {} => Pick(s) \in s
    OBVIOUS
  <2>. HIDE DEF Pick, n
  <2>5. s # {} => Cardinality(s \ {Pick(s)}) = Cardinality(s) - 1
    BY <2>1, <2>4, FS_RemoveElement
  <2>. QED
    BY <2>1, <2>2, <2>3, <2>4, <2>5
<1>. HIDE DEF Pick, n
<1>3. 0 \in possible
  <2>. DEFINE g == [s \in Small(0) |-> 0]
  <2>1. \A s \in Small(0) : s = {}
    BY <1>2
  <2>2. Sums(g)
    BY <2>1
  <2>3. 0 \in 0..n
    BY <1>1
  <2>4. DOMAIN g = Small(0) /\ g = [s \in Small(0) |-> g[s]]
    OBVIOUS
  <2>. HIDE DEF Sums, g, Small
  <2>. QED
    BY <2>2, <2>3, <2>4
<1>4. ASSUME NEW k \in 1..n, k - 1 \in possible PROVE k \in possible
  <2>1. PICK g : DOMAIN g = Small(k - 1) /\ Sums(g)
    BY <1>4
  <2>. DEFINE h == [s \in Small(k) |-> IF s = {} THEN 0 ELSE f[Pick(s)] + g[s \ {Pick(s)}]]
  <2>2. ASSUME NEW s \in Small(k), s # {} PROVE s \ {Pick(s)} \in Small(k - 1) /\ s \ {Pick(s)} \in Small(k)
    <3>1. /\ s \in SUBSET D /\ Cardinality(s) <= k /\ Cardinality(s) \in Nat /\ k \in Nat
          /\ s \ {Pick(s)} \in SUBSET D /\ Cardinality(s \ {Pick(s)}) = Cardinality(s) - 1
      BY <1>2, <2>2
    <3>2. Cardinality(s \ {Pick(s)}) <= k - 1 /\ Cardinality(s \ {Pick(s)}) <= k
      BY <3>1
    <3>. QED
      BY <3>1, <3>2
  <2>3. ASSUME NEW s \in Small(k - 1) PROVE s \in Small(k) /\ h[s] = g[s]
    <3>1. s \in Small(k)
      <4>0. s \in SUBSET D /\ Cardinality(s) <= k - 1
        OBVIOUS
      <4>1a. Cardinality(s) \in Nat
        BY <1>2, <4>0
      <4>1b. k \in Nat
        OBVIOUS
      <4>2. Cardinality(s) <= k
        BY <4>0, <4>1a, <4>1b
      <4>. QED
        BY <4>0, <4>2
    <3>2. g[s] = IF s = {} THEN 0 ELSE f[Pick(s)] + g[s \ {Pick(s)}]
      BY <2>1
    <3>. HIDE DEF Small
    <3>. QED
      BY <3>1, <3>2
  <2>. HIDE DEF Small
  <2>4. Sums(h)
    BY <2>2, <2>3
  <2>5. k \in 0..n /\ DOMAIN h = Small(k) /\ h = [s \in Small(k) |-> h[s]]
    BY <1>1
  <2>. HIDE DEF Sums, h
  <2>. QED
    BY <2>4, <2>5
<1>5. n \in possible
  <2>1. possible \in SUBSET (0..n) /\ n \in 0..n
    BY <1>1
  <2>. HIDE DEF possible
  <2>. QED
    BY <1>1, <1>3, <1>4, <2>1, UpTo
<1>6. Small(n) = SUBSET D
  BY <1>2
<1>. HIDE DEF Small
<1>7. PICK g : g = [s \in SUBSET D |-> g[s]] /\ DOMAIN g = SUBSET D /\ Sums(g)
  BY <1>5, <1>6
<1>8. g = [s \in SUBSET D |-> IF s = {} THEN 0 ELSE f[Pick(s)] + g[s \ {Pick(s)}]]
  BY <1>7
<1>9. Adder(g, f, D)
  BY <1>8 DEF Adder, Pick
<1>. QED
  BY <1>9

-----------------------------------------------------------------------------
(* Division *)

LEMMA Quotient ==
  ASSUME NEW a \in Nat, NEW b \in Nat \ {0}
  PROVE  /\ a \div b \in Nat /\ a % b \in 0..(b - 1)
         /\ a = b * (a \div b) + (a % b)
  OBVIOUS

\* The quotient is where its multiples say.
LEMMA QuotientIs ==
  ASSUME NEW a \in Nat, NEW b \in Nat \ {0}, NEW q \in Nat
  PROVE  /\ q <= a \div b <=> b * q <= a
         /\ q > a \div b <=> b * q > a
<1>. DEFINE d == a \div b
            r == a % b
<1>1. d \in Nat /\ r \in Nat /\ r < b /\ a = b * d + r
  BY Quotient
<1>. HIDE DEF d, r
<1>2. CASE q <= d
  <2>1. b * q <= b * d
    BY <1>1, <1>2
  <2>2. b * q \in Int /\ b * d \in Int
    BY <1>1
  <2>. QED
    BY <1>1, <1>2, <2>1, <2>2 DEF d
<1>3. CASE q > d
  <2>1. b * q >= b * (d + 1)
    BY <1>1, <1>3
  <2>2. b * (d + 1) = b * d + b
    BY <1>1
  <2>3. b * q \in Int /\ b * d \in Int
    BY <1>1
  <2>. QED
    BY <1>1, <1>3, <2>1, <2>2, <2>3 DEF d
<1>. QED
  BY <1>1, <1>2, <1>3

-----------------------------------------------------------------------------
(* What the stages count: Tally adds up as it goes *)

\* The sums of the sizes of the sets found so far.
Tallies(h, found, n) ==
  /\ h \in [0..n -> Nat]
  /\ h[0] = 0
  /\ \A i \in 1..n : h[i] = h[i - 1] + Cardinality(found[i])

\* A list of n finite sets.
ListOfSets(found, n) ==
  n \in Nat /\ DOMAIN found = 1..n /\ \A i \in 1..n : IsFiniteSet(found[i])

LEMMA TallyIs ==
  ASSUME NEW n, NEW found, ListOfSets(found, n)
  PROVE  \E h : Tallies(h, found, n) /\ Tally(found) = h[n]
<1>. DEFINE Rec(it) == it = [s \in SUBSET (DOMAIN found) |->
                               IF s = {} THEN 0 ELSE it[s \ {Max(s)}] + Cardinality(found[Max(s)])]
            fold == CHOOSE it : Rec(it)
            step == [i \in 1..n |-> [a \in Nat |-> a + Cardinality(found[i])]]
            h == [i \in 0..n |-> fold[1..i]]
            typed == {i \in 0..n : h[i] \in Nat}
<1>1. n \in Nat /\ DOMAIN found = 1..n /\ \A i \in 1..n : Cardinality(found[i]) \in Nat
  BY FS_CardinalityType DEF ListOfSets
<1>2. Tally(found) = fold[DOMAIN found]
  BY DEF Tally, FoldLeft, MapThenFoldSet
<1>3. Rec(fold)
  <2>1. step \in [1..n -> [Nat -> Nat]]
    <3>1. \A i \in 1..n : \A a \in Nat : a + Cardinality(found[i]) \in Nat
      BY <1>1
    <3>. QED
      BY <3>1
  <2>. HIDE DEF step
  <2>2. PICK it \in [SUBSET (1..n) -> Nat] : Folds(it, 0, n, step)
    <3>1. 0 \in Nat
      OBVIOUS
    <3>. QED
      BY <1>1, <2>1, <3>1, FoldExists
  <2>3. ASSUME NEW s \in SUBSET (1..n), s # {}
        PROVE  step[Max(s)][it[s \ {Max(s)}]] = it[s \ {Max(s)}] + Cardinality(found[Max(s)])
    <3>1. Max(s) \in 1..n
      <4>1. s \in SUBSET (0..n)
        OBVIOUS
      <4>. QED
        BY <1>1, <2>3, <4>1, GreatestMember
    <3>2. it[s \ {Max(s)}] \in Nat
      OBVIOUS
    <3>. QED
      BY <3>1, <3>2 DEF step
  <2>4. Rec(it)
    BY <1>1, <2>2, <2>3 DEF Folds
  <2>. HIDE DEF Rec
  <2>. QED
    BY <2>4
<1>. HIDE DEF fold
<1>4. h[0] = 0
  <2>1. 1..0 = {} /\ {} \in SUBSET (DOMAIN found)
    OBVIOUS
  <2>2. 0 \in 0..n
    BY <1>1
  <2>. QED
    BY <1>3, <2>1, <2>2
<1>5. ASSUME NEW i \in 1..n PROVE h[i] = h[i - 1] + Cardinality(found[i])
  <2>1. 1..i \in SUBSET (DOMAIN found) /\ i \in 0..n /\ i - 1 \in 0..n
    BY <1>1
  <2>2. 1..i # {} /\ Max(1..i) = i /\ (1..i) \ {i} = 1..(i - 1)
    BY <1>1, Initial
  <2>3. fold[1..i] = fold[(1..i) \ {Max(1..i)}] + Cardinality(found[Max(1..i)])
    BY <1>3, <2>1, <2>2
  <2>. QED
    BY <2>1, <2>2, <2>3
<1>6. Tally(found) = h[n] /\ DOMAIN h = 0..n /\ h = [i \in 0..n |-> h[i]]
  BY <1>1, <1>2
<1>. HIDE DEF h
<1>7. 0..n \subseteq typed
  <2>1. 0 \in typed
    BY <1>1, <1>4
  <2>2. ASSUME NEW k \in 1..n, k - 1 \in typed PROVE k \in typed
    <3>1. h[k - 1] \in Nat /\ Cardinality(found[k]) \in Nat /\ k \in 0..n
      BY <1>1, <2>2
    <3>. QED
      BY <1>5, <3>1
  <2>. HIDE DEF typed
  <2>. QED
    BY <1>1, <2>1, <2>2, UpTo
<1>8. h \in [0..n -> Nat]
  BY <1>6, <1>7
<1>. QED
  BY <1>4, <1>5, <1>6, <1>8 DEF Tallies

\* What is split in two and tallied apart adds up to the tally of all.
LEMMA TalliesSplit ==
  ASSUME NEW n, NEW found, NEW a, NEW b,
         ListOfSets(found, n), ListOfSets(a, n), ListOfSets(b, n),
         \A i \in 1..n : a[i] \cup b[i] = found[i] /\ a[i] \cap b[i] = {}
  PROVE  Tally(a) + Tally(b) = Tally(found) /\ Tally(a) \in Nat /\ Tally(b) \in Nat
<1>1. PICK h : Tallies(h, found, n) /\ Tally(found) = h[n]
  BY TallyIs
<1>2. PICK p : Tallies(p, a, n) /\ Tally(a) = p[n]
  BY TallyIs
<1>3. PICK q : Tallies(q, b, n) /\ Tally(b) = q[n]
  BY TallyIs
<1>. DEFINE same == {i \in 0..n : p[i] + q[i] = h[i]}
<1>4. n \in Nat /\ p[0] = 0 /\ q[0] = 0 /\ h[0] = 0
  BY <1>1, <1>2, <1>3 DEF Tallies, ListOfSets
<1>5. ASSUME NEW i \in 1..n, i - 1 \in same PROVE i \in same
  <2>1. Cardinality(found[i]) = Cardinality(a[i]) + Cardinality(b[i])
    <3>1. IsFiniteSet(a[i]) /\ IsFiniteSet(b[i])
      BY DEF ListOfSets
    <3>2. Cardinality(a[i] \cup b[i]) = Cardinality(a[i]) + Cardinality(b[i]) - Cardinality(a[i] \cap b[i])
      BY <3>1, FS_Union
    <3>3. Cardinality(a[i] \cap b[i]) = 0
      BY FS_EmptySet
    <3>5. found[i] = a[i] \cup b[i]
      OBVIOUS
    <3>4. Cardinality(a[i]) \in Nat /\ Cardinality(b[i]) \in Nat
      BY <3>1, FS_CardinalityType
    <3>. QED
      BY <3>2, <3>3, <3>4, <3>5
  <2>2. /\ h[i] = h[i - 1] + Cardinality(found[i])
        /\ p[i] = p[i - 1] + Cardinality(a[i])
        /\ q[i] = q[i - 1] + Cardinality(b[i])
    BY <1>1, <1>2, <1>3 DEF Tallies
  <2>3. Cardinality(a[i]) \in Nat /\ Cardinality(b[i]) \in Nat
    BY FS_CardinalityType DEF ListOfSets
  <2>4. i - 1 \in 0..n /\ i \in 0..n
    BY <1>4
  <2>5. p[i - 1] \in Nat /\ q[i - 1] \in Nat
    BY <1>2, <1>3, <2>4 DEF Tallies
  <2>6. p[i - 1] + q[i - 1] = h[i - 1]
    BY <1>5
  <2>. HIDE DEF same
  <2>7. p[i] + q[i] = h[i]
    BY <2>1, <2>2, <2>3, <2>5, <2>6
  <2>. QED
    BY <2>4, <2>7 DEF same
<1>6. 0 \in same
  BY <1>4
<1>7. 0..n \subseteq same
  <2>. HIDE DEF same
  <2>. QED
    BY <1>4, <1>5, <1>6, UpTo
<1>8. n \in 0..n
  BY <1>4
<1>9. p[n] \in Nat /\ q[n] \in Nat
  BY <1>2, <1>3, <1>8 DEF Tallies
<1>. QED
  BY <1>1, <1>2, <1>3, <1>7, <1>8, <1>9

\* The positions 1 to n stand for the elements of D, each for its own.
Enlists(x, n, D) ==
  /\ x \in [1..n -> D]
  /\ \A i, j \in 1..n : x[i] = x[j] => i = j
  /\ \A d \in D : \E i \in 1..n : x[i] = d

LEMMA ListedIsFinite ==
  ASSUME NEW n \in Nat, NEW D, NEW x, Enlists(x, n, D)
  PROVE  IsFiniteSet(D) /\ Cardinality(D) = n
<1>1. x \in Bijection(1..n, D)
  BY DEF Enlists, Bijection, Injection, Surjection, IsInjective
<1>2. ExistsBijection(1..n, D)
  BY <1>1 DEF ExistsBijection
<1>3. IsFiniteSet(1..n) /\ Cardinality(1..n) = n
  BY FS_Interval
<1>. QED
  BY <1>2, <1>3, FS_Bijection

LEMMA AltogetherIs ==
  ASSUME NEW D, IsFiniteSet(D), NEW sets, \A d \in D : IsFiniteSet(sets[d])
  PROVE  \E it : Adds(it, [d \in D |-> Cardinality(sets[d])], D) /\ Altogether(sets, D) = it[D]
<1>. DEFINE f == [d \in D |-> Cardinality(sets[d])]
            Rec(j) == j = [s \in SUBSET D |-> IF s = {} THEN 0
                             ELSE LET y == CHOOSE z \in s : TRUE IN Cardinality(sets[y]) + j[s \ {y}]]
            fold == CHOOSE j : Rec(j)
<1>1. f \in [D -> Int]
  <2>1. \A d \in D : Cardinality(sets[d]) \in Int
    BY FS_CardinalityType
  <2>. QED
    BY <2>1
<1>2. Altogether(sets, D) = fold[D]
  BY DEF Altogether, MapThenSumSet, MapThenFoldSet
<1>3. \A s \in SUBSET D : s # {} => (CHOOSE z \in s : TRUE) \in D
  OBVIOUS
<1>4. ASSUME NEW j PROVE Rec(j) <=> Adder(j, f, D)
  BY <1>3 DEF Adder
<1>5. Adder(fold, f, D)
  <2>1. PICK j : Adder(j, f, D)
    <3>. HIDE DEF f
    <3>. QED
      BY <1>1, SumExists
  <2>2. Rec(j)
    BY <1>4, <2>1
  <2>3. Rec(fold)
    <3>. HIDE DEF Rec
    <3>. QED
      BY <2>2
  <2>. HIDE DEF Rec, fold, f
  <2>. QED
    BY <1>4, <2>3
<1>. HIDE DEF fold, f
<1>6. Adds(fold, f, D)
  BY <1>1, <1>5, AdderAdds
<1>. QED
  BY <1>2, <1>6 DEF f

\* What is found in the order of a list adds up to what there is altogether.
LEMMA TallyAll ==
  ASSUME NEW n, NEW found, ListOfSets(found, n), NEW D, NEW sets,
         NEW x, Enlists(x, n, D), \A i \in 1..n : found[i] = sets[x[i]]
  PROVE  Tally(found) = Altogether(sets, D)
<1>. DEFINE f == [d \in D |-> Cardinality(sets[d])]
            Part(k) == {x[i] : i \in 1..k}
<1>1. /\ n \in Nat /\ \A i \in 1..n : x[i] \in D
      /\ \A i, j \in 1..n : x[i] = x[j] => i = j
      /\ \A d \in D : \E i \in 1..n : x[i] = d
  BY DEF ListOfSets, Enlists
<1>2. IsFiniteSet(D) /\ \A d \in D : IsFiniteSet(sets[d])
  <2>1. ASSUME NEW d \in D PROVE IsFiniteSet(sets[d])
    BY <1>1 DEF ListOfSets
  <2>. QED
    BY <1>1, <2>1, ListedIsFinite
<1>3. PICK it : Adds(it, f, D) /\ Altogether(sets, D) = it[D]
  BY <1>2, AltogetherIs
<1>4. PICK h : Tallies(h, found, n) /\ Tally(found) = h[n]
  BY TallyIs
<1>. DEFINE same == {k \in 0..n : h[k] = it[Part(k)]}
<1>5. 0 \in same
  <2>1. Part(0) = {} /\ 0 \in 0..n
    BY <1>1
  <2>2. h[0] = 0 /\ it[{}] = 0
    BY <1>3, <1>4 DEF Adds, Tallies
  <2>. HIDE DEF Part
  <2>. QED
    BY <2>1, <2>2
<1>6. ASSUME NEW k \in 1..n, k - 1 \in same PROVE k \in same
  <2>1. h[k] = h[k - 1] + Cardinality(found[k])
    BY <1>4 DEF Tallies
  <2>2. Part(k) \in SUBSET D /\ x[k] \in Part(k) /\ Part(k) \ {x[k]} = Part(k - 1)
    <3>1. k \in 1..k /\ 1..k \subseteq 1..n
      BY <1>1
    <3>2. \A i : i \in 1..(k - 1) <=> i \in 1..k /\ i # k
      BY <1>1
    <3>. QED
      BY <1>1, <3>1, <3>2
  <2>. HIDE DEF Part
  <2>4. f[x[k]] = Cardinality(found[k])
    BY <1>1
  <2>. HIDE DEF f
  <2>3. it[Part(k)] = f[x[k]] + it[Part(k - 1)]
    <3>1. \A s \in SUBSET D : \A d \in s : it[s] = f[d] + it[s \ {d}]
      BY <1>3 DEF Adds
    <3>. QED
      BY <2>2, <3>1
  <2>5. h[k - 1] = it[Part(k - 1)]
    BY <1>6
  <2>6. Cardinality(found[k]) \in Nat
    BY FS_CardinalityType DEF ListOfSets
  <2>7. h[k - 1] \in Nat
    <3>1. k - 1 \in 0..n
      BY <1>1
    <3>. QED
      BY <1>4, <3>1 DEF Tallies
  <2>8. h[k] = it[Part(k)]
    BY <2>1, <2>3, <2>4, <2>5, <2>6, <2>7
  <2>9. k \in 0..n
    BY <1>1
  <2>. QED
    BY <2>8, <2>9
<1>7. 0..n \subseteq same
  <2>. HIDE DEF same
  <2>. QED
    BY <1>1, <1>5, <1>6, UpTo
<1>8. n \in 0..n /\ Part(n) = D
  BY <1>1
<1>. HIDE DEF Part, f
<1>9. h[n] = it[Part(n)]
  BY <1>7, <1>8
<1>. QED
  BY <1>3, <1>4, <1>8, <1>9

-----------------------------------------------------------------------------
(* What the stages count in one video *)

\* Pictures show finitely many boxes and events, those of the zones of the
\* three types that there are.
ShowsEvents(Pic) ==
  \A p \in Pic : IsFiniteSet(p.crossings) /\ p.zones \subseteq {"enter", "exit", "dwell"}

\* The frames are the shown reads, one for one.
FramesAre(frames, reads, x) ==
  /\ Len(frames) \in Nat /\ DOMAIN frames = 1..Len(frames)
  /\ Enlists(x, Len(frames), ShownOf(reads))
  /\ \A k \in 1..Len(frames) : x[k] \in DOMAIN reads /\ frames[k].picture = reads[x[k]]

LEMMA FramesAreShown ==
  ASSUME NEW Pic, NEW video, video.reads \in Seq(Pic)
  PROVE  \E x : FramesAre(ReadAll(video).frames, video.reads, x)
<1>. DEFINE frames == ReadAll(video).frames
            reads == video.reads
            n == Len(frames)
            x == [k \in 1..n |-> frames[k].index + 1]
<1>1. /\ {f.index : f \in Range(frames)} = {i - 1 : i \in ShownOf(reads)}
      /\ \A k \in DOMAIN frames : frames[k].picture = reads[frames[k].index + 1]
  BY ReaderTheorem DEF Accounted
<1>2. frames \in Seq(FramesOf(Pic)) /\ \A a, b \in DOMAIN frames : a < b => frames[a].index < frames[b].index
  BY FramesNumbered DEF Numbered
<1>. HIDE DEF frames, reads
<1>3. n \in Nat /\ DOMAIN frames = 1..n /\ \A k \in 1..n : frames[k].index \in Nat
  <2>. DEFINE T == FramesOf(Pic)
  <2>1. \A t \in T : t.index \in Nat
    BY DEF FramesOf
  <2>. HIDE DEF T
  <2>2. frames \in Seq(T)
    BY <1>2 DEF T
  <2>3. n \in Nat /\ DOMAIN frames = 1..n /\ \A k \in 1..n : frames[k] \in T
    BY <2>2
  <2>. QED
    BY <2>1, <2>3
<1>. HIDE DEF n
<1>4. \A i \in ShownOf(reads) : i \in DOMAIN reads /\ i \in Nat
  <2>1. DOMAIN reads = 1..Len(reads)
    BY DEF reads
  <2>. QED
    BY <2>1 DEF ShownOf, PassOf
<1>5. ASSUME NEW k \in 1..n PROVE x[k] \in ShownOf(reads)
  <2>1. frames[k].index \in {f.index : f \in Range(frames)}
    BY <1>3 DEF Range
  <2>2. PICK i \in ShownOf(reads) : frames[k].index = i - 1
    BY <1>1, <2>1
  <2>3. i \in Nat /\ x[k] = i - 1 + 1
    BY <1>4, <2>2
  <2>4. x[k] = i
    BY <2>3
  <2>. QED
    BY <2>4
<1>6. ASSUME NEW a \in 1..n, NEW b \in 1..n, x[a] = x[b] PROVE a = b
  <2>1. frames[a].index + 1 = frames[b].index + 1
    BY <1>6
  <2>2. frames[a].index = frames[b].index /\ frames[a].index \in Nat
    BY <1>3, <2>1
  <2>3. ~(a < b) /\ ~(b < a)
    BY <1>2, <1>3, <2>2
  <2>. QED
    BY <1>3, <2>3
<1>7. ASSUME NEW i \in ShownOf(reads) PROVE \E k \in 1..n : x[k] = i
  <2>1. i - 1 \in {f.index : f \in Range(frames)}
    BY <1>1
  <2>2. PICK k \in 1..n : frames[k].index = i - 1
    BY <1>3, <2>1 DEF Range
  <2>3. i \in Nat /\ x[k] = i - 1 + 1
    BY <1>4, <2>2
  <2>4. x[k] = i
    BY <2>3
  <2>. QED
    BY <2>4
<1>8. \A k \in 1..n : frames[k].picture = reads[x[k]]
  BY <1>1, <1>3
<1>9. x \in [1..n -> ShownOf(reads)]
  BY <1>5
<1>. HIDE DEF x
<1>10. Enlists(x, n, ShownOf(reads))
  BY <1>6, <1>7, <1>9 DEF Enlists
<1>11. \A k \in 1..n : x[k] \in DOMAIN reads
  BY <1>4, <1>9
<1>12. FramesAre(frames, reads, x)
  BY <1>3, <1>8, <1>10, <1>11 DEF FramesAre, n
<1>. QED
  BY <1>12 DEF frames, reads

\* The registry tallies the boxes with an id.
LEMMA InstancesAre ==
  ASSUME NEW Pic, Shows(Pic), NEW frames \in Seq(FramesOf(Pic))
  PROVE  TrackAll(frames).instances = Tally([i \in DOMAIN frames |-> Visitors(frames[i].picture)])
<1>. DEFINE n == Len(frames)
            found == [i \in DOMAIN frames |-> Visitors(frames[i].picture)]
<1>1. n \in Nat /\ DOMAIN frames = 1..n /\ \A i \in 1..n : frames[i] \in FramesOf(Pic)
  OBVIOUS
<1>2. PICK f : /\ f \in [0..n -> Registry]
               /\ f[0] = NoTracks
               /\ \A i \in 1..n : f[i] = TrackFrame(f[i - 1], frames[i])
               /\ TrackAll(frames) = f[n]
  BY TrackAllIs
<1>. HIDE DEF n
<1>3. ListOfSets(found, n)
  <2>1. ASSUME NEW i \in 1..n PROVE IsFiniteSet(Visitors(frames[i].picture))
    <3>1. IsFiniteSet(frames[i].picture.ids) /\ Visitors(frames[i].picture) \subseteq frames[i].picture.ids
      BY <1>1 DEF FramesOf, Shows, Visitors
    <3>. QED
      BY <3>1, FS_Subset
  <2>. QED
    BY <1>1, <2>1 DEF ListOfSets
<1>4. PICK h : Tallies(h, found, n) /\ Tally(found) = h[n]
  BY <1>3, TallyIs
<1>. DEFINE same == {k \in 0..n : f[k].instances = h[k]}
<1>5. 0 \in same
  BY <1>1, <1>2, <1>4 DEF NoTracks, Tallies
<1>6. ASSUME NEW k \in 1..n, k - 1 \in same PROVE k \in same
  <2>1. f[k].instances = f[k - 1].instances + Cardinality(Visitors(frames[k].picture))
    <3>1. f[k] = TrackFrame(f[k - 1], frames[k])
      BY <1>2
    <3>2. \A t, frame : TrackFrame(t, frame).instances = t.instances + Cardinality(Visitors(frame.picture))
      BY DEF TrackFrame
    <3>. QED
      BY <3>1, <3>2
  <2>2. h[k] = h[k - 1] + Cardinality(found[k])
    BY <1>4 DEF Tallies
  <2>3. found[k] = Visitors(frames[k].picture) /\ k \in 0..n
    BY <1>1
  <2>. QED
    BY <1>6, <2>1, <2>2, <2>3
<1>7. 0..n \subseteq same
  <2>. HIDE DEF same
  <2>. QED
    BY <1>1, <1>5, <1>6, UpTo
<1>8. n \in 0..n
  BY <1>1
<1>. HIDE DEF found
<1>. QED
  BY <1>2, <1>4, <1>7, <1>8 DEF found

\* Every stage counts all that the shown reads show, and their number.
CountsAll(video) ==
  LET v     == ReadAll(video)
      reads == video.reads
      shown == ShownOf(reads)
  IN  /\ DetectionSummary(v).processed = Cardinality(shown)
      /\ TrackingSummary(v).processed = Cardinality(shown)
      /\ CrossingSummary(v).processed = Cardinality(shown)
      /\ ZoneSummary(v).processed = Cardinality(shown)
      /\ DetectionSummary(v).detections = Altogether([k \in DOMAIN reads |-> reads[k].ids], shown)
      /\ TrackingSummary(v).instances = Altogether([k \in DOMAIN reads |-> Visitors(reads[k])], shown)
      /\ CrossingSummary(v).entries + CrossingSummary(v).exits
           = Altogether([k \in DOMAIN reads |-> reads[k].crossings], shown)
      /\ ZoneSummary(v).enters + ZoneSummary(v).exits + ZoneSummary(v).dwells
           = Altogether([k \in DOMAIN reads |-> reads[k].zones], shown)

LEMMA ZonesAreThree ==
  ASSUME NEW n, NEW found, n \in Nat, DOMAIN found = 1..n,
         \A i \in 1..n : found[i] \subseteq {"enter", "exit", "dwell"}
  PROVE  /\ ListOfSets(found, n)
         /\ Tally(Only(found, {"enter"})) + Tally(Only(found, {"exit"})) + Tally(Only(found, {"dwell"}))
              = Tally(found)
<1>. DEFINE e == Only(found, {"enter"})
            x == Only(found, {"exit"})
            d == Only(found, {"dwell"})
            others == [i \in 1..n |-> found[i] \ {"enter"}]
<1>1. IsFiniteSet({"enter", "exit", "dwell"})
  <2>1. IsFiniteSet({"enter"})
    BY FS_Singleton
  <2>2. IsFiniteSet({"enter"} \cup {"exit"})
    BY <2>1, FS_AddElement
  <2>3. IsFiniteSet(({"enter"} \cup {"exit"}) \cup {"dwell"})
    BY <2>2, FS_AddElement
  <2>4. ({"enter"} \cup {"exit"}) \cup {"dwell"} = {"enter", "exit", "dwell"}
    OBVIOUS
  <2>. QED
    BY <2>3, <2>4
<1>2. ListOfSets(found, n)
  BY <1>1, FS_Subset DEF ListOfSets
<1>3. /\ DOMAIN e = 1..n /\ DOMAIN x = 1..n /\ DOMAIN d = 1..n /\ DOMAIN others = 1..n
      /\ \A i \in 1..n : /\ e[i] = found[i] \cap {"enter"} /\ x[i] = found[i] \cap {"exit"}
                         /\ d[i] = found[i] \cap {"dwell"} /\ others[i] = found[i] \ {"enter"}
  BY DEF Only
<1>. HIDE DEF e, x, d, others
<1>4. ListOfSets(e, n) /\ ListOfSets(x, n) /\ ListOfSets(d, n) /\ ListOfSets(others, n)
  <2>1. ASSUME NEW i \in 1..n
        PROVE  IsFiniteSet(e[i]) /\ IsFiniteSet(x[i]) /\ IsFiniteSet(d[i]) /\ IsFiniteSet(others[i])
    <3>1. IsFiniteSet(found[i])
      BY <1>2 DEF ListOfSets
    <3>2. e[i] \subseteq found[i] /\ x[i] \subseteq found[i] /\ d[i] \subseteq found[i] /\ others[i] \subseteq found[i]
      BY <1>3
    <3>. QED
      BY <3>1, <3>2, FS_Subset
  <2>. QED
    BY <1>3, <2>1 DEF ListOfSets
<1>5. Tally(e) + Tally(others) = Tally(found) /\ Tally(e) \in Nat /\ Tally(others) \in Nat
  <2>1. \A i \in 1..n : e[i] \cup others[i] = found[i] /\ e[i] \cap others[i] = {}
    BY <1>3
  <2>. QED
    BY <1>2, <1>4, <2>1, TalliesSplit
<1>6. Tally(x) + Tally(d) = Tally(others) /\ Tally(x) \in Nat /\ Tally(d) \in Nat
  <2>1. \A i \in 1..n : x[i] \cup d[i] = others[i] /\ x[i] \cap d[i] = {}
    BY <1>3
  <2>. QED
    BY <1>4, <2>1, TalliesSplit
<1>7. Tally(e) + Tally(x) + Tally(d) = Tally(found)
  BY <1>5, <1>6
<1>. QED
  BY <1>2, <1>7 DEF e, x, d

LEMMA CrossingsAreTwo ==
  ASSUME NEW n, NEW found, ListOfSets(found, n)
  PROVE  Tally(Only(found, {"entry"})) + Tally(But(found, {"entry"})) = Tally(found)
<1>. DEFINE e == Only(found, {"entry"})
            x == But(found, {"entry"})
<1>1. /\ DOMAIN e = 1..n /\ DOMAIN x = 1..n /\ n \in Nat
      /\ \A i \in 1..n : e[i] = found[i] \cap {"entry"} /\ x[i] = found[i] \ {"entry"}
  BY DEF Only, But, ListOfSets
<1>. HIDE DEF e, x
<1>2. ASSUME NEW i \in 1..n PROVE IsFiniteSet(e[i]) /\ IsFiniteSet(x[i])
  <2>1. IsFiniteSet(found[i]) /\ e[i] \subseteq found[i] /\ x[i] \subseteq found[i]
    BY <1>1 DEF ListOfSets
  <2>. QED
    BY <2>1, FS_Subset
<1>3. ListOfSets(e, n) /\ ListOfSets(x, n)
  BY <1>1, <1>2 DEF ListOfSets
<1>4. \A i \in 1..n : e[i] \cup x[i] = found[i] /\ e[i] \cap x[i] = {}
  BY <1>1
<1>5. Tally(e) + Tally(x) = Tally(found)
  BY <1>3, <1>4, TalliesSplit
<1>. QED
  BY <1>5 DEF e, x

LEMMA SummariesCount ==
  ASSUME NEW Pic, Shows(Pic), ShowsEvents(Pic), NEW video, video.reads \in Seq(Pic)
  PROVE  CountsAll(video)
<1>. DEFINE v == ReadAll(video)
            frames == v.frames
            reads == video.reads
            shown == ShownOf(reads)
            n == Len(frames)
            ids == [k \in DOMAIN reads |-> reads[k].ids]
            visitors == [k \in DOMAIN reads |-> Visitors(reads[k])]
            crossings == [k \in DOMAIN reads |-> reads[k].crossings]
            zones == [k \in DOMAIN reads |-> reads[k].zones]
            walked == [i \in DOMAIN frames |-> Visitors(frames[i].picture)]
<1>1. PICK x : FramesAre(frames, reads, x)
  BY FramesAreShown
<1>2. frames \in Seq(FramesOf(Pic))
  BY FramesNumbered DEF Numbered
<1>3. TrackAll(frames).instances = Tally(walked)
  <2>. HIDE DEF frames
  <2>. QED
    BY <1>2, InstancesAre
<1>4. \A k \in DOMAIN reads : reads[k] \in Pic
  OBVIOUS
<1>5. /\ DetectionSummary(v).processed = n /\ TrackingSummary(v).processed = n
      /\ CrossingSummary(v).processed = n /\ ZoneSummary(v).processed = n
      /\ DetectionSummary(v).detections = Tally(Detections(v))
      /\ TrackingSummary(v).instances = TrackAll(frames).instances
      /\ CrossingSummary(v).entries = Tally(Only(Crossings(v), {"entry"}))
      /\ CrossingSummary(v).exits = Tally(But(Crossings(v), {"entry"}))
      /\ ZoneSummary(v).enters = Tally(Only(ZoneEvents(v), {"enter"}))
      /\ ZoneSummary(v).exits = Tally(Only(ZoneEvents(v), {"exit"}))
      /\ ZoneSummary(v).dwells = Tally(Only(ZoneEvents(v), {"dwell"}))
  BY DEF DetectionSummary, TrackingSummary, CrossingSummary, ZoneSummary
<1>6. /\ n \in Nat /\ DOMAIN frames = 1..n /\ Enlists(x, n, shown)
      /\ \A k \in 1..n : x[k] \in DOMAIN reads /\ frames[k].picture = reads[x[k]] /\ reads[x[k]] \in Pic
  BY <1>1, <1>4 DEF FramesAre
<1>7. /\ DOMAIN Detections(v) = 1..n /\ DOMAIN walked = 1..n
      /\ DOMAIN Crossings(v) = 1..n /\ DOMAIN ZoneEvents(v) = 1..n
      /\ \A k \in 1..n : /\ Detections(v)[k] = ids[x[k]] /\ walked[k] = visitors[x[k]]
                         /\ Crossings(v)[k] = crossings[x[k]] /\ ZoneEvents(v)[k] = zones[x[k]]
  BY <1>6 DEF Detections, Crossings, ZoneEvents
<1>8. \A k \in 1..n : /\ IsFiniteSet(ids[x[k]]) /\ visitors[x[k]] \subseteq ids[x[k]]
                      /\ IsFiniteSet(crossings[x[k]]) /\ zones[x[k]] \subseteq {"enter", "exit", "dwell"}
  BY <1>6 DEF Shows, ShowsEvents, Visitors
<1>. HIDE DEF v, frames, reads, shown, n, ids, visitors, crossings, zones, walked
<1>9. \A k \in 1..n : IsFiniteSet(visitors[x[k]])
  BY <1>8, FS_Subset
<1>10. Cardinality(shown) = n
  BY <1>6, ListedIsFinite
<1>11. Tally(Detections(v)) = Altogether(ids, shown)
  <2>1. ListOfSets(Detections(v), n)
    BY <1>6, <1>7, <1>8 DEF ListOfSets
  <2>. QED
    BY <1>6, <1>7, <2>1, TallyAll
<1>12. Tally(walked) = Altogether(visitors, shown)
  <2>1. ListOfSets(walked, n)
    BY <1>6, <1>7, <1>9 DEF ListOfSets
  <2>. QED
    BY <1>6, <1>7, <2>1, TallyAll
<1>13. Tally(Only(Crossings(v), {"entry"})) + Tally(But(Crossings(v), {"entry"})) = Altogether(crossings, shown)
  <2>1. ListOfSets(Crossings(v), n)
    BY <1>6, <1>7, <1>8 DEF ListOfSets
  <2>2. Tally(Crossings(v)) = Altogether(crossings, shown)
    BY <1>6, <1>7, <2>1, TallyAll
  <2>. QED
    BY <2>1, <2>2, CrossingsAreTwo
<1>14. Tally(Only(ZoneEvents(v), {"enter"})) + Tally(Only(ZoneEvents(v), {"exit"}))
         + Tally(Only(ZoneEvents(v), {"dwell"})) = Altogether(zones, shown)
  <2>0. \A i \in 1..n : ZoneEvents(v)[i] \subseteq {"enter", "exit", "dwell"}
    BY <1>7, <1>8
  <2>1. /\ ListOfSets(ZoneEvents(v), n)
        /\ Tally(Only(ZoneEvents(v), {"enter"})) + Tally(Only(ZoneEvents(v), {"exit"}))
             + Tally(Only(ZoneEvents(v), {"dwell"})) = Tally(ZoneEvents(v))
    BY <1>6, <1>7, <2>0, ZonesAreThree
  <2>2. Tally(ZoneEvents(v)) = Altogether(zones, shown)
    BY <1>6, <1>7, <2>1, TallyAll
  <2>. QED
    BY <2>1, <2>2
<1>. QED
  BY <1>3, <1>5, <1>10, <1>11, <1>12, <1>13, <1>14
  DEF CountsAll, v, shown, reads, ids, visitors, crossings, zones, frames

-----------------------------------------------------------------------------
(* A batch of videos *)

Videos(Pic) == [found : BOOLEAN, reads : Seq(Pic)]

LEMMA SoundIs ==
  ASSUME NEW Pic, NEW video \in Videos(Pic)
  PROVE  Fails(video) <=> ~Sound(video)
<1>. DEFINE frames == ReadAll(video).frames
            reads == video.reads
<1>1. reads \in Seq(Pic)
  BY DEF Videos
<1>2. PICK x : FramesAre(frames, reads, x)
  BY <1>1, FramesAreShown
<1>. HIDE DEF frames, reads
<1>3a. /\ DOMAIN frames = 1..Len(frames) /\ Enlists(x, Len(frames), ShownOf(reads))
       /\ \A k \in 1..Len(frames) : frames[k].picture = reads[x[k]]
  BY <1>2 DEF FramesAre
<1>3. /\ \A k \in 1..Len(frames) : x[k] \in ShownOf(reads)
      /\ \A i \in ShownOf(reads) : \E k \in 1..Len(frames) : x[k] = i
  BY <1>3a DEF Enlists
<1>4. \A i : reads[i].kind = "bad" => Readable(reads[i])
  BY DEF Readable
<1>5. Raises(frames) <=> \E i \in PassOf(reads) : reads[i].kind = "bad"
  <2>1. ASSUME Raises(frames) PROVE \E i \in PassOf(reads) : reads[i].kind = "bad"
    <3>1. PICK k \in 1..Len(frames) : frames[k].picture.kind = "bad"
      BY <1>3a, <2>1 DEF Raises
    <3>2. x[k] \in PassOf(reads)
      BY <1>3 DEF ShownOf
    <3>. QED
      BY <1>3, <1>3a, <3>1, <3>2
  <2>2. ASSUME NEW i \in PassOf(reads), reads[i].kind = "bad" PROVE Raises(frames)
    <3>1. i \in ShownOf(reads)
      BY <1>4, <2>2 DEF ShownOf
    <3>2. PICK k \in 1..Len(frames) : x[k] = i
      BY <1>3, <3>1
    <3>. QED
      BY <1>3a, <2>2, <3>2 DEF Raises
  <2>. QED
    BY <2>1, <2>2
<1>6. video.found \in BOOLEAN
  BY DEF Videos
<1>. QED
  BY <1>5, <1>6 DEF Fails, Sound, frames, reads

\* The videos that have been summed up, k videos on: those that are sound, each
\* at its rank among them.
SoundUpTo(videos, k) == {n \in 1..k : Sound(videos[n])}

Done(videos, k, s) ==
  /\ Len(s) = Cardinality(SoundUpTo(videos, k))
  /\ \A n \in SoundUpTo(videos, k) : s[Cardinality(SoundUpTo(videos, n))] = videos[n]

LEMMA SoundUpToIs ==
  ASSUME NEW videos, NEW k \in Nat
  PROVE  /\ IsFiniteSet(SoundUpTo(videos, k)) /\ Cardinality(SoundUpTo(videos, k)) \in Nat
         /\ k > 0 => SoundUpTo(videos, k) = SoundUpTo(videos, k - 1) \cup (IF Sound(videos[k]) THEN {k} ELSE {})
         /\ k > 0 /\ Sound(videos[k]) =>
              Cardinality(SoundUpTo(videos, k)) = Cardinality(SoundUpTo(videos, k - 1)) + 1
         /\ k > 0 /\ ~Sound(videos[k]) => SoundUpTo(videos, k) = SoundUpTo(videos, k - 1)
<1>1. IsFiniteSet(1..k) /\ IsFiniteSet(1..(k - 1))
  BY FS_Interval
<1>2. /\ IsFiniteSet(SoundUpTo(videos, k)) /\ IsFiniteSet(SoundUpTo(videos, k - 1))
  <2>1. SoundUpTo(videos, k) \subseteq 1..k /\ SoundUpTo(videos, k - 1) \subseteq 1..(k - 1)
    BY DEF SoundUpTo
  <2>. QED
    BY <1>1, <2>1, FS_Subset
<1>3. Cardinality(SoundUpTo(videos, k)) \in Nat
  BY <1>2, FS_CardinalityType
<1>4. ASSUME k > 0
      PROVE  SoundUpTo(videos, k) = SoundUpTo(videos, k - 1) \cup (IF Sound(videos[k]) THEN {k} ELSE {})
  <2>1. \A n : n \in 1..k <=> n \in 1..(k - 1) \/ n = k
    BY <1>4
  <2>. QED
    BY <2>1 DEF SoundUpTo
<1>5. k \notin SoundUpTo(videos, k - 1)
  BY DEF SoundUpTo
<1>6. ASSUME k > 0, Sound(videos[k])
      PROVE  Cardinality(SoundUpTo(videos, k)) = Cardinality(SoundUpTo(videos, k - 1)) + 1
  <2>1. SoundUpTo(videos, k) = SoundUpTo(videos, k - 1) \cup {k}
    BY <1>4, <1>6
  <2>. QED
    BY <1>2, <1>5, <2>1, FS_AddElement
<1>7. ASSUME k > 0, ~Sound(videos[k]) PROVE SoundUpTo(videos, k) = SoundUpTo(videos, k - 1)
  BY <1>4, <1>7
<1>. QED
  BY <1>2, <1>3, <1>4, <1>6, <1>7

LEMMA FinishedIs ==
  ASSUME NEW V, NEW videos \in Seq(V)
  PROVE  \E f : /\ f \in [0..Len(videos) -> Seq(V)]
                /\ f[0] = <<>>
                /\ \A i \in 1..Len(videos) : f[i] = Attempted(f[i - 1], videos[i])
                /\ Finished(videos) = f[Len(videos)]
<1>. DEFINE n == Len(videos)
            Rec(it) == it = [s \in SUBSET (DOMAIN videos) |->
                               IF s = {} THEN <<>> ELSE Attempted(it[s \ {Max(s)}], videos[Max(s)])]
            fold == CHOOSE it : Rec(it)
            step == [i \in 1..n |-> [t \in Seq(V) |-> Attempted(t, videos[i])]]
            f == [i \in 0..n |-> fold[1..i]]
            typed == {i \in 0..n : f[i] \in Seq(V)}
<1>1. n \in Nat /\ DOMAIN videos = 1..n /\ \A i \in 1..n : videos[i] \in V
  OBVIOUS
<1>2. Finished(videos) = fold[DOMAIN videos]
  BY DEF Finished, FoldLeft, MapThenFoldSet
<1>. HIDE DEF n
<1>3. ASSUME NEW t \in Seq(V), NEW i \in 1..n PROVE Attempted(t, videos[i]) \in Seq(V)
  <2>1. videos[i] \in V
    BY <1>1
  <2>2. Append(t, videos[i]) \in Seq(V)
    BY <2>1
  <2>. QED
    BY <2>2 DEF Attempted
<1>4. Rec(fold)
  <2>1. step \in [1..n -> [Seq(V) -> Seq(V)]]
    BY <1>3
  <2>. HIDE DEF step
  <2>2. PICK it \in [SUBSET (1..n) -> Seq(V)] : Folds(it, <<>>, n, step)
    <3>1. <<>> \in Seq(V)
      OBVIOUS
    <3>. DEFINE A == Seq(V)
    <3>. HIDE DEF A
    <3>2. <<>> \in A /\ step \in [1..n -> [A -> A]]
      BY <2>1, <3>1 DEF A
    <3>3. \E it \in [SUBSET (1..n) -> A] : Folds(it, <<>>, n, step)
      BY <1>1, <3>2, FoldExists
    <3>. QED
      BY <3>3 DEF A
  <2>3. ASSUME NEW s \in SUBSET (1..n), s # {}
        PROVE  step[Max(s)][it[s \ {Max(s)}]] = Attempted(it[s \ {Max(s)}], videos[Max(s)])
    <3>1. Max(s) \in 1..n
      <4>1. s \in SUBSET (0..n)
        OBVIOUS
      <4>. QED
        BY <1>1, <2>3, <4>1, GreatestMember
    <3>2. it[s \ {Max(s)}] \in Seq(V)
      OBVIOUS
    <3>. QED
      BY <3>1, <3>2 DEF step
  <2>4. Rec(it)
    BY <1>1, <2>2, <2>3 DEF Folds
  <2>. HIDE DEF Rec
  <2>. QED
    BY <2>4
<1>. HIDE DEF fold
<1>5. f[0] = <<>>
  <2>1. 1..0 = {} /\ {} \in SUBSET (DOMAIN videos)
    OBVIOUS
  <2>2. 0 \in 0..n
    BY <1>1
  <2>. QED
    BY <1>4, <2>1, <2>2
<1>6. ASSUME NEW i \in 1..n PROVE f[i] = Attempted(f[i - 1], videos[i])
  <2>1. 1..i \in SUBSET (DOMAIN videos) /\ i \in 0..n /\ i - 1 \in 0..n
    BY <1>1
  <2>2. 1..i # {} /\ Max(1..i) = i /\ (1..i) \ {i} = 1..(i - 1)
    BY <1>1, Initial
  <2>3. fold[1..i] = Attempted(fold[(1..i) \ {Max(1..i)}], videos[Max(1..i)])
    BY <1>4, <2>1, <2>2
  <2>. QED
    BY <2>1, <2>2, <2>3
<1>. HIDE DEF f
<1>7. 0..n \subseteq typed
  <2>1. 0 \in typed
    <3>1. <<>> \in Seq(V) /\ 0 \in 0..n
      BY <1>1
    <3>. QED
      BY <1>5, <3>1
  <2>2. ASSUME NEW k \in 1..n, k - 1 \in typed PROVE k \in typed
    BY <1>1, <1>3, <1>6, <2>2
  <2>. HIDE DEF typed
  <2>. QED
    BY <1>1, <2>1, <2>2, UpTo
<1>8. Finished(videos) = f[n] /\ DOMAIN f = 0..n /\ f = [i \in 0..n |-> f[i]]
  BY <1>1, <1>2 DEF f
<1>9. f \in [0..n -> Seq(V)]
  BY <1>7, <1>8
<1>. QED
  BY <1>5, <1>6, <1>8, <1>9 DEF n

LEMMA DoneStep ==
  ASSUME NEW V, NEW s \in Seq(V), NEW videos, NEW k \in Nat \ {0}, videos[k] \in V,
         Fails(videos[k]) <=> ~Sound(videos[k]), Done(videos, k - 1, s)
  PROVE  Done(videos, k, Attempted(s, videos[k]))
<1>1. /\ Len(s) = Cardinality(SoundUpTo(videos, k - 1))
      /\ \A n \in SoundUpTo(videos, k - 1) : s[Cardinality(SoundUpTo(videos, n))] = videos[n]
  BY DEF Done
<1>2. CASE ~Sound(videos[k])
  <2>1. SoundUpTo(videos, k) = SoundUpTo(videos, k - 1)
    BY <1>2, SoundUpToIs
  <2>2. Attempted(s, videos[k]) = s
    BY <1>2 DEF Attempted
  <2>. QED
    BY <1>1, <2>1, <2>2 DEF Done
<1>3. CASE Sound(videos[k])
  <2>. DEFINE w == Append(s, videos[k])
              c == Cardinality(SoundUpTo(videos, k - 1))
  <2>1. /\ Cardinality(SoundUpTo(videos, k)) = c + 1
        /\ SoundUpTo(videos, k) = SoundUpTo(videos, k - 1) \cup {k}
    BY <1>3, SoundUpToIs
  <2>2. Attempted(s, videos[k]) = w
    BY <1>3 DEF Attempted
  <2>3. Len(w) = Len(s) + 1 /\ w[Len(s) + 1] = videos[k] /\ \A i \in 1..Len(s) : w[i] = s[i]
    OBVIOUS
  <2>. HIDE DEF w, c
  <2>4. Len(s) = c
    BY <1>1 DEF c
  <2>5. ASSUME NEW n \in SoundUpTo(videos, k - 1) PROVE Cardinality(SoundUpTo(videos, n)) \in 1..c
    <3>1. n \in 1..(k - 1) /\ Sound(videos[n]) /\ n \in Nat /\ k - 1 \in Nat
      BY DEF SoundUpTo
    <3>2. n \in SoundUpTo(videos, n) /\ SoundUpTo(videos, n) \subseteq SoundUpTo(videos, k - 1)
      BY <3>1 DEF SoundUpTo
    <3>3. /\ IsFiniteSet(SoundUpTo(videos, n)) /\ Cardinality(SoundUpTo(videos, n)) \in Nat
          /\ IsFiniteSet(SoundUpTo(videos, k - 1)) /\ c \in Nat
      BY <3>1, SoundUpToIs DEF c
    <3>4. Cardinality(SoundUpTo(videos, n)) <= c
      BY <3>2, <3>3, FS_Subset DEF c
    <3>5. Cardinality(SoundUpTo(videos, n)) # 0
      BY <3>2, <3>3, FS_EmptySet
    <3>. QED
      BY <3>3, <3>4, <3>5
  <2>6. \A n \in SoundUpTo(videos, k) : w[Cardinality(SoundUpTo(videos, n))] = videos[n]
    <3>1. ASSUME NEW n \in SoundUpTo(videos, k - 1) PROVE w[Cardinality(SoundUpTo(videos, n))] = videos[n]
      BY <1>1, <2>3, <2>4, <2>5
    <3>2. w[Cardinality(SoundUpTo(videos, k))] = videos[k]
      BY <2>1, <2>3, <2>4
    <3>. QED
      BY <2>1, <3>1, <3>2
  <2>. QED
    BY <2>1, <2>2, <2>3, <2>4, <2>6 DEF Done
<1>. QED
  BY <1>2, <1>3

LEMMA FinishedTells ==
  ASSUME NEW Pic, NEW videos \in Seq(Videos(Pic))
  PROVE  Finished(videos) \in Seq(Videos(Pic)) /\ Done(videos, Len(videos), Finished(videos))
<1>. DEFINE V == Videos(Pic)
            n == Len(videos)
<1>1. \A video \in V : Fails(video) <=> ~Sound(video)
  BY SoundIs
<1>. HIDE DEF V
<1>2. videos \in Seq(V)
  BY DEF V
<1>3. n \in Nat /\ DOMAIN videos = 1..n /\ \A i \in 1..n : videos[i] \in V
  BY <1>2
<1>4. PICK f : /\ f \in [0..n -> Seq(V)]
               /\ f[0] = <<>>
               /\ \A i \in 1..n : f[i] = Attempted(f[i - 1], videos[i])
               /\ Finished(videos) = f[n]
  BY <1>2, FinishedIs
<1>. HIDE DEF n
<1>. DEFINE told == {k \in 0..n : Done(videos, k, f[k])}
<1>5. 0 \in told
  <2>1. SoundUpTo(videos, 0) = {}
    BY DEF SoundUpTo
  <2>2. Cardinality({}) = 0 /\ Len(<<>>) = 0
    BY FS_EmptySet
  <2>3. Done(videos, 0, <<>>)
    BY <2>1, <2>2 DEF Done
  <2>. QED
    BY <1>3, <1>4, <2>3
<1>6. ASSUME NEW k \in 1..n, k - 1 \in told PROVE k \in told
  <2>1. k \in 0..n /\ k - 1 \in 0..n /\ k \in Nat \ {0}
    BY <1>3
  <2>2. f[k - 1] \in Seq(V) /\ Done(videos, k - 1, f[k - 1]) /\ f[k] = Attempted(f[k - 1], videos[k])
    BY <1>4, <1>6, <2>1
  <2>3. videos[k] \in V /\ (Fails(videos[k]) <=> ~Sound(videos[k]))
    BY <1>1, <1>3
  <2>4. Done(videos, k, Attempted(f[k - 1], videos[k]))
    BY <2>1, <2>2, <2>3, DoneStep
  <2>. QED
    BY <2>1, <2>2, <2>4
<1>7. 0..n \subseteq told
  <2>. HIDE DEF told
  <2>. QED
    BY <1>3, <1>5, <1>6, UpTo
<1>8. n \in 0..n
  BY <1>3
<1>. QED
  BY <1>4, <1>7, <1>8 DEF V, n

\* Whatever the videos of a batch, with pictures of finitely many boxes and
\* events: one that fails costs its own summary and no other, and every stage
\* counts all that the others show, once (run_all and run_video).
THEOREM BatchTheorem ==
  ASSUME NEW Pic, Shows(Pic), ShowsEvents(Pic), NEW videos \in Seq(Videos(Pic))
  PROVE  FailAlone(videos)
<1>. DEFINE sound == {n \in DOMAIN videos : Sound(videos[n])}
            done == Finished(videos)
            read == RunAll(videos)
            found == [i \in DOMAIN read |-> DetectionSummary(read[i])]
            walked == [i \in DOMAIN read |-> TrackingSummary(read[i])]
            line == [i \in DOMAIN read |-> CrossingSummary(read[i])]
            zone == [i \in DOMAIN read |-> ZoneSummary(read[i])]
<1>1. done \in Seq(Videos(Pic)) /\ Done(videos, Len(videos), done)
  BY FinishedTells
<1>2. Len(videos) \in Nat /\ DOMAIN videos = 1..Len(videos) /\ \A n \in 1..Len(videos) : videos[n] \in Videos(Pic)
  OBVIOUS
<1>3. read = [i \in DOMAIN done |-> ReadAll(done[i])]
  BY DEF RunAll
<1>. HIDE DEF done, read
<1>4. sound = SoundUpTo(videos, Len(videos))
  BY <1>2 DEF SoundUpTo
<1>5. Len(done) \in Nat /\ DOMAIN done = 1..Len(done)
  <2>. DEFINE V == Videos(Pic)
  <2>. HIDE DEF V
  <2>1. done \in Seq(V)
    BY <1>1 DEF V
  <2>. QED
    BY <2>1
<1>6. Len(done) = Cardinality(sound)
  BY <1>1, <1>4 DEF Done
<1>7. Len(read) = Cardinality(sound)
  BY <1>3, <1>5, <1>6
<1>8. ASSUME NEW n \in sound
      PROVE  LET i     == Cardinality({k \in sound : k <= n})
                 reads == videos[n].reads
                 shown == ShownOf(reads)
             IN  /\ \A s \in {found[i], walked[i], line[i], zone[i]} : s.processed = Cardinality(shown)
                 /\ found[i].detections = Altogether([k \in DOMAIN reads |-> reads[k].ids], shown)
                 /\ walked[i].instances = Altogether([k \in DOMAIN reads |-> Visitors(reads[k])], shown)
                 /\ line[i].entries + line[i].exits = Altogether([k \in DOMAIN reads |-> reads[k].crossings], shown)
                 /\ zone[i].enters + zone[i].exits + zone[i].dwells
                      = Altogether([k \in DOMAIN reads |-> reads[k].zones], shown)
  <2>. DEFINE i == Cardinality({k \in sound : k <= n})
              v == ReadAll(videos[n])
  <2>1. n \in 1..Len(videos) /\ Sound(videos[n]) /\ n \in Nat /\ videos[n] \in Videos(Pic)
    BY <1>2
  <2>2. {k \in sound : k <= n} = SoundUpTo(videos, n)
    <3>1. \A k : k \in 1..n <=> k \in 1..Len(videos) /\ k <= n
      BY <1>2, <2>1
    <3>. QED
      BY <1>2, <3>1 DEF SoundUpTo
  <2>3. i = Cardinality(SoundUpTo(videos, n))
    BY <2>2
  <2>. HIDE DEF i
  <2>4. done[i] = videos[n]
    BY <1>1, <1>4, <2>3 DEF Done
  <2>5. i \in DOMAIN done
    <3>1. n \in SoundUpTo(videos, n) /\ SoundUpTo(videos, n) \subseteq sound
      BY <1>2, <2>1 DEF SoundUpTo
    <3>2. IsFiniteSet(sound) /\ IsFiniteSet(SoundUpTo(videos, n)) /\ i \in Nat
      <4>1. IsFiniteSet(SoundUpTo(videos, Len(videos)))
        BY <1>2, SoundUpToIs
      <4>2. IsFiniteSet(SoundUpTo(videos, n)) /\ Cardinality(SoundUpTo(videos, n)) \in Nat
        BY <2>1, SoundUpToIs
      <4>. QED
        BY <1>4, <2>3, <4>1, <4>2
    <3>. HIDE DEF sound
    <3>3. i <= Cardinality(sound)
      BY <2>3, <3>1, <3>2, FS_Subset
    <3>4. i # 0
      BY <2>3, <3>1, <3>2, FS_EmptySet
    <3>. QED
      BY <1>5, <1>6, <3>2, <3>3, <3>4
  <2>6. i \in DOMAIN read /\ read[i] = v
    BY <1>3, <2>4, <2>5
  <2>7. /\ found[i] = DetectionSummary(v) /\ walked[i] = TrackingSummary(v)
        /\ line[i] = CrossingSummary(v) /\ zone[i] = ZoneSummary(v)
    BY <2>6
  <2>8. CountsAll(videos[n])
    <3>1. videos[n].reads \in Seq(Pic)
      BY <2>1 DEF Videos
    <3>. QED
      BY <3>1, SummariesCount
  <2>. HIDE DEF found, walked, line, zone
  <2>. QED
    BY <2>7, <2>8 DEF CountsAll, i
<1>. QED
  BY <1>7, <1>8 DEF FailAlone, read

-----------------------------------------------------------------------------
(* Assignments *)

LEMMA LesserOfTwo ==
  ASSUME NEW a \in Nat, NEW b \in Nat
  PROVE  Min({a, b}) = IF a <= b THEN a ELSE b
<1>1. {a, b} \in SUBSET Nat /\ {a, b} # {}
  OBVIOUS
<1>2. Min({a, b}) \in {a, b} /\ \A m \in {a, b} : Min({a, b}) <= m
  BY <1>1, LeastMember
<1>. QED
  BY <1>2

Matching(m, S, T) ==
  /\ m \in SUBSET (S \X T)
  /\ \A p, q \in m : (p[1] = q[1] \/ p[2] = q[2]) => p = q

Taken(m) == {p[2] : p \in m}

\* A full matching of S with T, that takes as many of T as it has pairs.
Full(m, S, T) ==
  /\ Matching(m, S, T)
  /\ IsFiniteSet(m) /\ IsFiniteSet(Taken(m)) /\ Cardinality(Taken(m)) = Cardinality(m)
  /\ Cardinality(m) = IF Cardinality(S) <= Cardinality(T) THEN Cardinality(S) ELSE Cardinality(T)

\* A matching is extended by a pair of its own.
LEMMA OneMore ==
  ASSUME NEW s, IsFiniteSet(s), NEW T, IsFiniteSet(T), NEW x \in s, NEW m, Full(m, s \ {x}, T)
  PROVE  \E w : Full(w, s, T)
<1>. DEFINE r == s \ {x}
            a == Cardinality(s)
            b == Cardinality(T)
<1>1. a \in Nat /\ b \in Nat /\ Cardinality(r) = a - 1 /\ a > 0
  <2>1. IsFiniteSet(r) /\ Cardinality(r) = a - 1
    BY FS_RemoveElement
  <2>2. Cardinality(r) \in Nat /\ a \in Nat /\ b \in Nat
    BY <2>1, FS_CardinalityType
  <2>. HIDE DEF r, a, b
  <2>. QED
    BY <2>1, <2>2
<1>2. m \in SUBSET (r \X T) /\ \A p, q \in m : (p[1] = q[1] \/ p[2] = q[2]) => p = q
  BY DEF Full, Matching
<1>3. /\ IsFiniteSet(m) /\ IsFiniteSet(Taken(m)) /\ Cardinality(Taken(m)) = Cardinality(m)
      /\ Cardinality(m) = IF a - 1 <= b THEN a - 1 ELSE b
  BY <1>1 DEF Full
<1>4. CASE b <= a - 1
  <2>1. Matching(m, s, T)
    BY <1>2 DEF Matching
  <2>2. Cardinality(m) = IF a <= b THEN a ELSE b
    <3>. HIDE DEF a, b
    <3>. QED
      BY <1>1, <1>3, <1>4
  <2>3. Full(m, s, T)
    BY <1>3, <2>1, <2>2 DEF Full
  <2>. QED
    BY <2>3
<1>5. CASE a - 1 < b
  <2>1. Taken(m) \in SUBSET T
    BY <1>2 DEF Taken
  <2>2. PICK t \in T : t \notin Taken(m)
    <3>1. SUFFICES ASSUME T \in SUBSET Taken(m) PROVE FALSE
      BY <2>1
    <3>2. b <= Cardinality(Taken(m))
      BY <1>3, <3>1, FS_Subset
    <3>. HIDE DEF a, b
    <3>. QED
      BY <1>1, <1>3, <1>5, <3>2
  <2>. DEFINE w == m \cup {<<x, t>>}
  <2>3. <<x, t>> \notin m /\ \A p \in m : p[1] # x /\ p[2] # t
    BY <1>2, <2>2 DEF Taken
  <2>4. Matching(w, s, T)
    <3>1. w \in SUBSET (s \X T)
      BY <1>2
    <3>2. ASSUME NEW p \in w, NEW q \in w, p[1] = q[1] \/ p[2] = q[2] PROVE p = q
      <4>1. p \in m \/ p = <<x, t>>
        OBVIOUS
      <4>2. q \in m \/ q = <<x, t>>
        OBVIOUS
      <4>. QED
        BY <1>2, <2>3, <3>2, <4>1, <4>2
    <3>. QED
      BY <3>1, <3>2 DEF Matching
  <2>5. IsFiniteSet(w) /\ Cardinality(w) = Cardinality(m) + 1
    BY <1>3, <2>3, FS_AddElement
  <2>6. Taken(w) = Taken(m) \cup {t}
    <3>1. \A p : p \in w <=> p \in m \/ p = <<x, t>>
      OBVIOUS
    <3>2. <<x, t>>[2] = t
      OBVIOUS
    <3>. HIDE DEF w
    <3>. QED
      BY <3>1, <3>2, Zenon DEF Taken
  <2>7. IsFiniteSet(Taken(w)) /\ Cardinality(Taken(w)) = Cardinality(Taken(m)) + 1
    BY <1>3, <2>2, <2>6, FS_AddElement
  <2>8. Cardinality(w) = IF a <= b THEN a ELSE b
    <3>. HIDE DEF a, b, w
    <3>. QED
      BY <1>1, <1>3, <1>5, <2>5
  <2>. HIDE DEF w
  <2>9. Full(w, s, T)
    BY <1>3, <2>4, <2>5, <2>7, <2>8 DEF Full
  <2>. QED
    BY <2>9
<1>. QED
  <2>. HIDE DEF a, b
  <2>. QED
    BY <1>1, <1>4, <1>5

LEMMA FullExists ==
  ASSUME NEW S, IsFiniteSet(S), NEW T, IsFiniteSet(T)
  PROVE  \E m : Full(m, S, T)
<1>. DEFINE P == {s \in SUBSET S : \E m : Full(m, s, T)}
<1>1. ASSUME NEW s \in SUBSET S, \A x \in s : s \ {x} \in P PROVE s \in P
  <2>1. CASE s = {}
    <3>1. /\ Matching({}, {}, T) /\ Taken({}) = {} /\ IsFiniteSet({}) /\ Cardinality({}) = 0
          /\ Cardinality(T) \in Nat
      BY FS_EmptySet, FS_CardinalityType DEF Matching, Taken
    <3>2. Full({}, {}, T)
      BY <3>1 DEF Full
    <3>. QED
      BY <2>1, <3>2
  <2>2. CASE s # {}
    <3>1. PICK x \in s : TRUE
      BY <2>2
    <3>2. PICK m : Full(m, s \ {x}, T)
      BY <1>1, <3>1
    <3>3. IsFiniteSet(s)
      BY FS_Subset
    <3>4. \E w : Full(w, s, T)
      BY <3>1, <3>2, <3>3, OneMore
    <3>. QED
      BY <3>4
  <2>. QED
    BY <2>1, <2>2
<1>2. P \in SUBSET (SUBSET S) /\ S \in SUBSET S
  OBVIOUS
<1>3. P = SUBSET S
  <2>. HIDE DEF P
  <2>. QED
    BY <1>1, <1>2, BySize
<1>. QED
  BY <1>2, <1>3

\* Of finitely many things one is worth most.
Best(m, F, g) == m \in F /\ \A n \in F : g[n] <= g[m]

LEMMA BestExists ==
  ASSUME NEW F, IsFiniteSet(F), F # {}, NEW g \in [F -> Int]
  PROVE  \E m : Best(m, F, g)
<1>. DEFINE P == {s \in SUBSET F : s # {} => \E m : Best(m, s, g)}
<1>1. ASSUME NEW s \in SUBSET F, \A x \in s : s \ {x} \in P PROVE s \in P
  <2>1. ASSUME s # {} PROVE \E m : Best(m, s, g)
    <3>1. PICK x \in s : TRUE
      BY <2>1
    <3>2. CASE s \ {x} = {}
      <4>1. Best(x, s, g)
        BY <3>1, <3>2 DEF Best
      <4>. QED
        BY <4>1
    <3>3. CASE s \ {x} # {}
      <4>1. PICK m : Best(m, s \ {x}, g)
        BY <1>1, <3>1, <3>3
      <4>2. m \in s /\ g[m] \in Int /\ g[x] \in Int /\ \A n \in s : g[n] \in Int /\ (n # x => g[n] <= g[m])
        BY <3>1, <4>1 DEF Best
      <4>3. CASE g[x] <= g[m]
        <5>1. Best(m, s, g)
          BY <4>2, <4>3 DEF Best
        <5>. QED
          BY <5>1
      <4>4. CASE ~(g[x] <= g[m])
        <5>1. \A n \in s : g[n] <= g[x]
          BY <4>2, <4>4
        <5>2. Best(x, s, g)
          BY <3>1, <5>1 DEF Best
        <5>. QED
          BY <5>2
      <4>. QED
        BY <4>3, <4>4
    <3>. QED
      BY <3>2, <3>3
  <2>. QED
    BY <2>1
<1>2. P \in SUBSET (SUBSET F) /\ F \in SUBSET F
  OBVIOUS
<1>3. P = SUBSET F
  <2>. HIDE DEF P
  <2>. QED
    BY <1>1, <1>2, BySize
<1>. QED
  BY <1>2, <1>3

LEMMA TotalIs ==
  ASSUME NEW iou, NEW m, IsFiniteSet(m), \A p \in m : iou[p[1]][p[2]] \in Int
  PROVE  Total(m, iou) \in Int
<1>. DEFINE f == [p \in m |-> iou[p[1]][p[2]]]
            Rec(it) == it = [s \in SUBSET m |-> IF s = {} THEN 0
                               ELSE LET x == CHOOSE y \in s : TRUE IN iou[x[1]][x[2]] + it[s \ {x}]]
            sum == CHOOSE it : Rec(it)
<1>1. ASSUME NEW it PROVE Rec(it) <=> Adder(it, f, m)
  <2>1. ASSUME NEW s \in SUBSET m, s # {}
        PROVE  LET x == CHOOSE y \in s : TRUE IN f[x] = iou[x[1]][x[2]]
    <3>1. (CHOOSE y \in s : TRUE) \in s
      BY <2>1
    <3>. QED
      BY <3>1
  <2>2. [s \in SUBSET m |-> IF s = {} THEN 0 ELSE LET x == CHOOSE y \in s : TRUE IN iou[x[1]][x[2]] + it[s \ {x}]]
        = [s \in SUBSET m |-> IF s = {} THEN 0 ELSE LET x == CHOOSE y \in s : TRUE IN f[x] + it[s \ {x}]]
    <3>. HIDE DEF f
    <3>. QED
      BY <2>1
  <2>. HIDE DEF f
  <2>. QED
    BY <2>2 DEF Adder
<1>2. Total(m, iou) = sum[m]
  BY DEF Total, MapThenSumSet, MapThenFoldSet
<1>3. f \in [m -> Int]
  OBVIOUS
<1>. HIDE DEF f, Rec
<1>4. Adder(sum, f, m)
  <2>1. \E it : Rec(it)
    BY <1>1, <1>3, SumExists
  <2>2. Rec(sum)
    BY <2>1
  <2>. QED
    BY <1>1, <2>2
<1>5. Adds(sum, f, m)
  BY <1>3, <1>4, AdderAdds
<1>6. m \in SUBSET m
  OBVIOUS
<1>. QED
  BY <1>2, <1>5, <1>6 DEF Adds

\* There is an assignment, and assignments match.
LEMMA AssignmentsAre ==
  ASSUME NEW dets, IsFiniteSet(dets), NEW trks, IsFiniteSet(trks), NEW iou,
         \A d \in dets : \A t \in trks : iou[d][t] \in Int
  PROVE  /\ Assignments(dets, trks, iou) # {}
         /\ \A m \in Assignments(dets, trks, iou) : Matching(m, dets, trks)
<1>. DEFINE all == Pairings(dets, trks)
            g == [m \in all |-> Total(m, iou)]
<1>1. IsFiniteSet(dets \X trks)
  BY FS_Product
<1>2. \A m \in all : m \in SUBSET (dets \X trks) /\ Matching(m, dets, trks)
  BY DEF Pairings, Matching
<1>3. IsFiniteSet(all)
  <2>1. IsFiniteSet(SUBSET (dets \X trks))
    BY <1>1, FS_SUBSET
  <2>2. all \in SUBSET (SUBSET (dets \X trks))
    BY <1>2
  <2>. HIDE DEF all
  <2>. QED
    BY <2>1, <2>2, FS_Subset
<1>4. all # {}
  <2>1. PICK m : Full(m, dets, trks)
    BY FullExists
  <2>2. Cardinality(dets) \in Nat /\ Cardinality(trks) \in Nat
    BY FS_CardinalityType
  <2>3. Cardinality(m) = Min({Cardinality(dets), Cardinality(trks)})
    BY <2>1, <2>2, LesserOfTwo DEF Full
  <2>4. m \in all
    BY <2>1, <2>3 DEF Full, Matching, Pairings
  <2>. QED
    BY <2>4
<1>5. \A m \in all : Total(m, iou) \in Int
  <2>1. ASSUME NEW m \in all PROVE Total(m, iou) \in Int
    <3>1. IsFiniteSet(m)
      BY <1>1, <1>2, FS_Subset
    <3>2. \A p \in m : iou[p[1]][p[2]] \in Int
      BY <1>2
    <3>. QED
      BY <3>1, <3>2, TotalIs
  <2>. QED
    BY <2>1
<1>. HIDE DEF all
<1>6. g \in [all -> Int]
  BY <1>5
<1>7. PICK m : Best(m, all, g)
  <2>. HIDE DEF g
  <2>. QED
    BY <1>3, <1>4, <1>6, BestExists
<1>8. Assignments(dets, trks, iou) = {n \in all : \A k \in all : Total(k, iou) <= Total(n, iou)}
  BY DEF Assignments, all
<1>9. m \in Assignments(dets, trks, iou)
  BY <1>7, <1>8 DEF Best
<1>. QED
  BY <1>2, <1>8, <1>9

-----------------------------------------------------------------------------
(* The update of the shelf tracker *)

\* The place of d among the members of S.
Place(S, d) == Cardinality({e \in S : e <= d})

LEMMA PlaceIs ==
  ASSUME NEW S \in SUBSET Int, IsFiniteSet(S)
  PROVE  /\ \A d \in S : Place(S, d) \in 1..Cardinality(S)
         /\ \A d, e \in S : Place(S, d) = Place(S, e) => d = e
<1>. DEFINE Upto(d) == {e \in S : e <= d}
<1>1. ASSUME NEW d \in S
      PROVE  IsFiniteSet(Upto(d)) /\ Cardinality(Upto(d)) \in 1..Cardinality(S)
  <2>1. Upto(d) \in SUBSET S /\ d \in Upto(d)
    OBVIOUS
  <2>. HIDE DEF Upto
  <2>2. IsFiniteSet(Upto(d)) /\ Cardinality(Upto(d)) <= Cardinality(S)
    BY <2>1, FS_Subset
  <2>3. Cardinality(Upto(d)) \in Nat /\ Cardinality(S) \in Nat /\ Cardinality(Upto(d)) # 0
    BY <2>1, <2>2, FS_CardinalityType, FS_EmptySet
  <2>. QED
    BY <2>2, <2>3
<1>2. ASSUME NEW d \in S, NEW e \in S, d < e PROVE Cardinality(Upto(d)) # Cardinality(Upto(e))
  <2>0. d \in Int /\ e \in Int /\ \A x \in S : x \in Int
    OBVIOUS
  <2>1. Upto(d) \in SUBSET Upto(e) /\ e \in Upto(e) /\ e \notin Upto(d)
    <3>1. \A x \in S : x <= d => x <= e
      BY <1>2, <2>0
    <3>2. ~(e <= d) /\ e <= e
      BY <1>2, <2>0
    <3>. QED
      BY <3>1, <3>2
  <2>. HIDE DEF Upto
  <2>. QED
    BY <1>1, <2>1, FS_Subset
<1>3. ASSUME NEW d \in S, NEW e \in S, Cardinality(Upto(d)) = Cardinality(Upto(e)) PROVE d = e
  <2>1. d \in Int /\ e \in Int
    OBVIOUS
  <2>2. ~(d < e) /\ ~(e < d)
    BY <1>2, <1>3
  <2>. QED
    BY <2>1, <2>2
<1>. QED
  BY <1>1, <1>3 DEF Place

\* What update() needs to know: detections, trackers with ids from the counter,
\* and a matching of them.
UpdateInput(ages, dets, iou, m, nextId) ==
  /\ dets \in SUBSET Int /\ IsFiniteSet(dets)
  /\ ages = [t \in DOMAIN ages |-> ages[t]]
  /\ DOMAIN ages \in SUBSET Int /\ IsFiniteSet(DOMAIN ages)
  /\ \A t \in DOMAIN ages : ages[t] \in Int /\ t < nextId
  /\ nextId \in Int
  /\ Matching(m, dets, DOMAIN ages)

\* What it makes of them.
UpdatedTo(ages, dets, iou, nextId, u) ==
  /\ u.next \in Int /\ nextId <= u.next
  /\ u.ids = [d \in dets |-> u.ids[d]]
  /\ \A d \in dets : u.ids[d] \in Int /\ u.ids[d] < u.next
  /\ \A d, e \in dets : u.ids[d] = u.ids[e] => d = e
  /\ \A d \in dets : u.ids[d] < nextId => u.ids[d] \in DOMAIN ages /\ iou[d][u.ids[d]] >= Overlap
  /\ u.trackers = [t \in DOMAIN u.trackers |-> u.trackers[t]]
  /\ DOMAIN u.trackers \in SUBSET (DOMAIN ages \cup nextId..u.next - 1)
  /\ \A t \in DOMAIN u.trackers :
       u.trackers[t] = 0 \/ (t \in DOMAIN ages /\ u.trackers[t] = ages[t])
  /\ \A d \in dets : u.ids[d] \in DOMAIN u.trackers /\ u.trackers[u.ids[d]] = 0
  /\ \A t \in DOMAIN ages : (\A d \in dets : u.ids[d] # t) =>
       /\ t \in DOMAIN u.trackers <=> ages[t] <= MaxAge
       /\ t \in DOMAIN u.trackers => u.trackers[t] = ages[t]

\* And how many trackers start: one for each detection that takes over none, and
\* one more for each pair of the matching that overlaps too little.
StartedBy(ages, dets, iou, m, u) ==
  LET new == DOMAIN u.trackers \ DOMAIN ages
  IN  /\ \A t \in new : u.trackers[t] = 0
      /\ Cardinality(new) = Cardinality({d \in dets : u.ids[d] \notin DOMAIN ages})
                            + Cardinality(m \ Overlapping(m, iou))

\* A number of new trackers, each with an id of its own.
LEMMA UpdateIs ==
  ASSUME NEW ages, NEW dets, NEW iou, NEW m, NEW nextId,
         UpdateInput(ages, dets, iou, m, nextId)
  PROVE  /\ UpdatedTo(ages, dets, iou, nextId, Update(ages, dets, iou, m, nextId))
         /\ StartedBy(ages, dets, iou, m, Update(ages, dets, iou, m, nextId))
<1>. DEFINE trks == DOMAIN ages
            matched == Overlapping(m, iou)
            low == m \ matched
            open == dets \ {p[1] : p \in matched}
            a == Cardinality(low)
            b == Cardinality(open)
            next == nextId + a + b
            all == [t \in trks \cup (nextId..next - 1) |->
                      IF t \in trks /\ ~(\E p \in matched : p[2] = t) THEN ages[t] ELSE 0]
            Mine(d) == CHOOSE p \in matched : p[1] = d
            ids == [d \in dets |-> IF d \in open THEN nextId + a + Place(open, d) - 1 ELSE Mine(d)[2]]
            u == Update(ages, dets, iou, m, nextId)
<1>1. u = [trackers |-> Living(all), next |-> next, ids |-> ids]
  BY DEF Update, Place
<1>2. /\ dets \in SUBSET Int /\ IsFiniteSet(dets)
      /\ trks \in SUBSET Int /\ IsFiniteSet(trks)
      /\ \A t \in trks : ages[t] \in Int /\ t < nextId
      /\ nextId \in Int
      /\ m \in SUBSET (dets \X trks)
      /\ \A p, q \in m : (p[1] = q[1] \/ p[2] = q[2]) => p = q
  BY DEF UpdateInput, Matching
<1>3. matched \in SUBSET m /\ \A p \in matched : iou[p[1]][p[2]] >= Overlap
  BY DEF Overlapping
<1>. HIDE DEF matched
<1>4. low \in SUBSET (dets \X trks) /\ open \in SUBSET dets
  BY <1>2
<1>5. a \in Nat /\ b \in Nat
  <2>1. IsFiniteSet(dets \X trks)
    BY <1>2, FS_Product
  <2>. HIDE DEF low, open
  <2>2. IsFiniteSet(low) /\ IsFiniteSet(open)
    BY <1>2, <1>4, <2>1, FS_Subset
  <2>. QED
    BY <2>2, FS_CardinalityType
<1>6. next \in Int /\ nextId <= next
  <2>. HIDE DEF a, b
  <2>. QED
    BY <1>2, <1>5
<1>7. /\ \A d \in open : Place(open, d) \in 1..b
      /\ \A d, e \in open : Place(open, d) = Place(open, e) => d = e
  <2>. HIDE DEF open
  <2>1. open \in SUBSET Int /\ IsFiniteSet(open)
    BY <1>2, <1>4, FS_Subset
  <2>. QED
    BY <2>1, PlaceIs DEF b
<1>8. ASSUME NEW d \in dets, d \notin open
      PROVE  Mine(d) \in matched /\ Mine(d)[1] = d /\ ids[d] = Mine(d)[2] /\ Mine(d)[2] \in trks
  <2>1. \E p \in matched : p[1] = d
    BY <1>8
  <2>2. Mine(d) \in matched /\ Mine(d)[1] = d
    BY <2>1
  <2>. HIDE DEF Mine, open
  <2>. QED
    BY <1>2, <1>3, <1>8, <2>2
<1>9. ASSUME NEW d \in open
      PROVE  ids[d] = nextId + a + Place(open, d) - 1 /\ ids[d] \in nextId..next - 1
  <2>1. ids[d] = nextId + a + Place(open, d) - 1
    BY <1>4
  <2>. HIDE DEF ids, a, b, open
  <2>. QED
    BY <1>2, <1>5, <1>7, <2>1
<1>10. DOMAIN ids = dets /\ ids = [d \in dets |-> ids[d]]
  OBVIOUS
<1>. HIDE DEF Mine, open, low, ids, a, b
<1>11. ASSUME NEW d \in dets
       PROVE  ids[d] \in Int /\ ids[d] < next /\ (ids[d] < nextId <=> d \notin open)
  <2>. DEFINE id == ids[d]
  <2>1. CASE d \in open
    <3>1. id \in nextId..next - 1
      BY <1>9, <2>1
    <3>. HIDE DEF next, id
    <3>2. id \in Int /\ id < next /\ ~(id < nextId)
      BY <1>2, <1>6, <3>1
    <3>. QED
      BY <2>1, <3>2 DEF id
  <2>2. CASE d \notin open
    <3>1. id \in trks
      BY <1>8, <2>2
    <3>2. id \in Int /\ id < nextId
      BY <1>2, <3>1
    <3>. HIDE DEF next, id
    <3>3. id < next
      BY <1>2, <1>6, <3>2
    <3>. QED
      BY <2>2, <3>2, <3>3 DEF id
  <2>. QED
    BY <2>1, <2>2
<1>12. ASSUME NEW d \in dets, NEW e \in dets, ids[d] = ids[e] PROVE d = e
  <2>1. CASE d \in open /\ e \in open
    <3>1. Place(open, d) = Place(open, e)
      BY <1>2, <1>5, <1>7, <1>9, <1>12, <2>1
    <3>. QED
      BY <1>7, <2>1, <3>1
  <2>2. CASE d \notin open /\ e \notin open
    <3>1. Mine(d)[2] = Mine(e)[2] /\ Mine(d) \in m /\ Mine(e) \in m
      BY <1>3, <1>8, <1>12, <2>2
    <3>2. Mine(d) = Mine(e)
      BY <1>2, <3>1
    <3>. QED
      BY <1>8, <2>2, <3>2
  <2>. QED
    BY <1>11, <1>12, <2>1, <2>2
<1>13. ASSUME NEW d \in dets, ids[d] < nextId PROVE ids[d] \in trks /\ iou[d][ids[d]] >= Overlap
  <2>1. d \notin open
    BY <1>11, <1>13
  <2>. QED
    BY <1>3, <1>8, <2>1
<1>14. /\ u.trackers = [t \in DOMAIN u.trackers |-> all[t]]
       /\ \A t : t \in DOMAIN u.trackers <=> t \in trks \cup (nextId..next - 1) /\ all[t] <= MaxAge
  <2>1. DOMAIN all = trks \cup (nextId..next - 1)
    OBVIOUS
  <2>. HIDE DEF all, next
  <2>2. u.trackers = [t \in {x \in trks \cup (nextId..next - 1) : all[x] <= MaxAge} |-> all[t]]
    BY <1>1, <2>1 DEF Living, Shown
  <2>. QED
    BY <2>2
<1>15. MaxAge \in Nat
  BY TrackerAssumption
<1>16. ASSUME NEW d \in dets PROVE ids[d] \in trks \cup (nextId..next - 1) /\ all[ids[d]] = 0
  <2>1. CASE d \in open
    <3>1. ids[d] \in nextId..next - 1 /\ ids[d] \notin trks
      <4>1. ids[d] \in nextId..next - 1
        BY <1>9, <2>1
      <4>. HIDE DEF trks, next
      <4>. QED
        BY <1>2, <1>6, <4>1
    <3>. QED
      BY <3>1
  <2>2. CASE d \notin open
    <3>1. Mine(d) \in matched /\ Mine(d)[2] = ids[d] /\ ids[d] \in trks
      BY <1>8, <2>2
    <3>. QED
      BY <3>1
  <2>. QED
    BY <2>1, <2>2
<1>17. ASSUME NEW t \in trks, \A d \in dets : ids[d] # t PROVE all[t] = ages[t]
  <2>1. ASSUME NEW p \in matched, p[2] = t PROVE FALSE
    <3>1. p \in m /\ p[1] \in dets
      BY <1>2, <1>3
    <3>2. p[1] \notin open
      BY DEF open
    <3>3. Mine(p[1]) \in m /\ Mine(p[1])[1] = p[1] /\ ids[p[1]] = Mine(p[1])[2]
      BY <1>3, <1>8, <3>1, <3>2
    <3>4. Mine(p[1]) = p
      BY <1>2, <3>1, <3>3
    <3>. QED
      BY <1>17, <2>1, <3>1, <3>3, <3>4
  <2>. QED
    BY <2>1
<1>18. \A t \in trks \cup (nextId..next - 1) : all[t] = 0 \/ (t \in trks /\ all[t] = ages[t])
  OBVIOUS
<1>. HIDE DEF all, next, trks
<1>19. u.next = next /\ u.ids = ids
  BY <1>1
<1>. HIDE DEF u
<1>20. \A t \in DOMAIN u.trackers : u.trackers[t] = all[t]
  BY <1>14
<1>21. \A d \in dets : ids[d] \in DOMAIN u.trackers /\ u.trackers[ids[d]] = 0
  BY <1>14, <1>15, <1>16, <1>20
<1>22. \A t \in trks : (\A d \in dets : ids[d] # t) =>
         /\ t \in DOMAIN u.trackers <=> ages[t] <= MaxAge
         /\ t \in DOMAIN u.trackers => u.trackers[t] = ages[t]
  BY <1>14, <1>17, <1>20
<1>23. /\ DOMAIN u.trackers \in SUBSET (trks \cup nextId..next - 1)
       /\ u.trackers = [t \in DOMAIN u.trackers |-> u.trackers[t]]
  BY <1>14
<1>24. \A t \in DOMAIN u.trackers : u.trackers[t] = 0 \/ (t \in trks /\ u.trackers[t] = ages[t])
  BY <1>14, <1>18, <1>20
<1>25. UpdatedTo(ages, dets, iou, nextId, u)
  BY <1>6, <1>10, <1>11, <1>12, <1>13, <1>19, <1>21, <1>22, <1>23, <1>24 DEF UpdatedTo, trks, u
<1>26. StartedBy(ages, dets, iou, m, u)
  <2>1. {d \in dets : u.ids[d] \notin trks} = open
    <3>1. \A d \in open : ids[d] \notin trks
      BY <1>2, <1>4, <1>11
    <3>2. \A d \in dets : d \notin open => ids[d] \in trks
      BY <1>8
    <3>. QED
      BY <1>4, <1>19, <3>1, <3>2
  <2>2. \A t \in nextId..next - 1 : t \notin trks /\ t \in DOMAIN u.trackers /\ u.trackers[t] = 0
    <3> SUFFICES ASSUME NEW t \in nextId..next - 1
                 PROVE  t \notin trks /\ t \in DOMAIN u.trackers /\ u.trackers[t] = 0
      OBVIOUS
    <3>1. t \notin trks
      BY <1>2, <1>6
    <3>2. all[t] = 0
      BY <1>18, <3>1
    <3>. QED
      BY <1>14, <1>15, <1>20, <3>1, <3>2
  <2>3. DOMAIN u.trackers \ trks = nextId..next - 1
    BY <1>14, <2>2
  <2>4. Cardinality(nextId..next - 1) = a + b
    <3>1. next = nextId + a + b
      BY DEF next
    <3>. HIDE DEF next
    <3>2. nextId \in Int /\ next - 1 \in Int
      BY <1>2, <1>6
    <3>3. Cardinality(nextId..next - 1) = IF nextId > next - 1 THEN 0 ELSE next - 1 - nextId + 1
      BY <3>2, FS_Interval
    <3>. QED
      BY <1>2, <1>5, <3>1, <3>2, <3>3
  <2>5. \A t \in DOMAIN u.trackers \ trks : u.trackers[t] = 0
    BY <2>2, <2>3
  <2>6. m \ Overlapping(m, iou) = low
    BY DEF low, matched
  <2>7. Cardinality(DOMAIN u.trackers \ trks) =
          Cardinality({d \in dets : u.ids[d] \notin trks}) + Cardinality(m \ Overlapping(m, iou))
    <3>1. a = Cardinality(low) /\ b = Cardinality(open)
      BY DEF a, b
    <3>2. Cardinality(DOMAIN u.trackers \ trks) = a + b
      BY <2>3, <2>4, Zenon
    <3>3. Cardinality({d \in dets : u.ids[d] \notin trks}) = b
      BY <2>1, <3>1, Zenon
    <3>4. Cardinality(m \ Overlapping(m, iou)) = a
      BY <2>6, <3>1, Zenon
    <3>5. a + b = b + a
      BY <1>5
    <3>. QED
      BY <3>2, <3>3, <3>4, <3>5, Zenon
  <2>. QED
    BY <2>5, <2>7 DEF StartedBy, trks
<1>. QED
  BY <1>25, <1>26 DEF u

\* One call of predict() and update(), as it is checked.
KeyframeInput(in) ==
  \E n, k \in Nat : in.ages \in [1..n -> Nat] /\ in.iou \in [1..k -> [1..n -> Int]]

LEMMA PredictedIs ==
  ASSUME NEW ages, NEW lost
  PROVE  /\ DOMAIN Predicted(ages, lost) = DOMAIN ages
         /\ Predicted(ages, lost) = [t \in DOMAIN ages |-> Predicted(ages, lost)[t]]
         /\ \A t \in DOMAIN ages : Predicted(ages, lost)[t] = IF t \in lost THEN Gone ELSE ages[t] + 1
BY DEF Predicted

LEMMA ShownIs ==
  ASSUME NEW ages
  PROVE  \A t : t \in Shown(Predicted(ages, {})) <=> t \in DOMAIN ages /\ ages[t] + 1 <= MaxAge
<1>. DEFINE p == Predicted(ages, {})
<1>1. DOMAIN p = DOMAIN ages /\ \A t \in DOMAIN ages : p[t] = ages[t] + 1
  BY PredictedIs
<1>. HIDE DEF p
<1>2. \A t : t \in Shown(p) <=> t \in DOMAIN p /\ p[t] <= MaxAge
  BY DEF Shown
<1>. QED
  BY <1>1, <1>2 DEF p

LEMMA UpToN ==
  ASSUME NEW n \in Nat
  PROVE  1..n \in SUBSET Int /\ IsFiniteSet(1..n)
<1>1. n \in Int /\ 1 \in Int /\ 1..n \in SUBSET Int
  OBVIOUS
<1>. QED
  BY <1>1, FS_Interval

\* For every keyframe, whatever the overlaps and however the trackers are
\* assigned: a detection takes over a tracker that overlaps it enough or starts
\* one, and a second one if its assigned tracker overlaps it too little; the new
\* ones and those taken over are shown on the next frame, and every other tracker
\* exactly if it has not left the frame and has been seen recently enough
\* (SortTracker.update and predict).
THEOREM KeyframeTheorem ==
  ASSUME NEW in, KeyframeInput(in)
  PROVE  KeyframeIsTracked(in)
<1>. DEFINE ids == DOMAIN in.ages
            dets == DOMAIN in.iou
            trackers == Predicted(in.ages, in.lost)
            nextId == Len(in.ages) + 1
<1>1. PICK n, k \in Nat : in.ages \in [1..n -> Nat] /\ in.iou \in [1..k -> [1..n -> Int]]
  BY DEF KeyframeInput
<1>2. ids = 1..n /\ dets = 1..k /\ nextId = n + 1
  <2>1. in.ages \in Seq(Nat) /\ Len(in.ages) = n
    BY <1>1
  <2>. QED
    BY <1>1, <2>1
<1>3. /\ dets \in SUBSET Int /\ IsFiniteSet(dets) /\ ids \in SUBSET Int /\ IsFiniteSet(ids)
      /\ nextId \in Int /\ \A t \in ids : t < nextId /\ in.ages[t] \in Nat
  <2>1. 1..k \in SUBSET Int /\ IsFiniteSet(1..k) /\ 1..n \in SUBSET Int /\ IsFiniteSet(1..n)
    BY UpToN
  <2>2. n + 1 \in Int /\ \A t \in 1..n : t < n + 1 /\ in.ages[t] \in Nat
    BY <1>1
  <2>. HIDE DEF ids, dets, nextId
  <2>. QED
    BY <1>2, <2>1, <2>2
<1>4. MaxAge \in 0..998 /\ Gone = 999
  BY TrackerAssumption DEF Gone
<1>5. /\ DOMAIN trackers = ids
      /\ trackers = [t \in ids |-> trackers[t]]
      /\ \A t \in ids : trackers[t] = IF t \in in.lost THEN Gone ELSE in.ages[t] + 1
  BY PredictedIs
<1>. HIDE DEF ids, dets, trackers, nextId
<1>6. \A d \in dets : \A t \in ids : in.iou[d][t] \in Int
  BY <1>1, <1>2
<1>7. ASSUME NEW m \in Assignments(dets, ids, in.iou)
      PROVE  LET after == Update(trackers, dets, in.iou, m, nextId)
                 next  == Shown(Predicted(after.trackers, {}))
                 new   == DOMAIN after.trackers \ ids
             IN  /\ \A d, e \in dets : after.ids[d] = after.ids[e] => d = e
                 /\ \A d \in dets : after.ids[d] \in DOMAIN after.trackers
                 /\ \A d \in dets : after.ids[d] \in ids => in.iou[d][after.ids[d]] >= Overlap
                 /\ Cardinality(new) = Cardinality({d \in dets : after.ids[d] \notin ids})
                                       + Cardinality(m \ Overlapping(m, in.iou))
                 /\ \A t \in new \cup {after.ids[d] : d \in dets} : t \in next <=> MaxAge > 0
                 /\ \A t \in ids : t \in next <=>
                      \/ MaxAge > 0 /\ \E d \in dets : after.ids[d] = t
                      \/ t \notin in.lost /\ in.ages[t] + 2 <= MaxAge
  <2>. DEFINE after == Update(trackers, dets, in.iou, m, nextId)
              next == Shown(Predicted(after.trackers, {}))
  <2>1. Matching(m, dets, ids)
    BY <1>3, <1>6, AssignmentsAre
  <2>2. \A t \in ids : trackers[t] \in Int
    BY <1>3, <1>4, <1>5
  <2>3. UpdateInput(trackers, dets, in.iou, m, nextId)
    BY <1>3, <1>5, <2>1, <2>2 DEF UpdateInput
  <2>4. UpdatedTo(trackers, dets, in.iou, nextId, after) /\ StartedBy(trackers, dets, in.iou, m, after)
    BY <2>3, UpdateIs
  <2>5. \A t : t \in next <=> t \in DOMAIN after.trackers /\ after.trackers[t] + 1 <= MaxAge
    BY ShownIs
  <2>. HIDE DEF after, next
  <2>6. /\ \A d, e \in dets : after.ids[d] = after.ids[e] => d = e
        /\ \A d \in dets : after.ids[d] \in DOMAIN after.trackers /\ after.trackers[after.ids[d]] = 0
        /\ \A d \in dets : after.ids[d] < nextId => in.iou[d][after.ids[d]] >= Overlap
        /\ \A t \in ids : (\A d \in dets : after.ids[d] # t) =>
             /\ t \in DOMAIN after.trackers <=> trackers[t] <= MaxAge
             /\ t \in DOMAIN after.trackers => after.trackers[t] = trackers[t]
    BY <1>5, <2>4 DEF UpdatedTo
  <2>7. \A d \in dets : after.ids[d] \in ids => in.iou[d][after.ids[d]] >= Overlap
    BY <1>3, <2>6
  <2>8. MaxAge > 0 <=> 0 + 1 <= MaxAge
    BY <1>4
  <2>9. \A d \in dets : after.ids[d] \in next <=> MaxAge > 0
    BY <2>5, <2>6, <2>8
  <2>10. ASSUME NEW t \in ids, \A d \in dets : after.ids[d] # t
         PROVE  t \in next <=> t \notin in.lost /\ in.ages[t] + 2 <= MaxAge
    <3>1. t \in next <=> trackers[t] <= MaxAge /\ trackers[t] + 1 <= MaxAge
      BY <2>5, <2>6, <2>10
    <3>2. in.ages[t] \in Int /\ trackers[t] = IF t \in in.lost THEN Gone ELSE in.ages[t] + 1
      BY <1>3, <1>5
    <3>. QED
      BY <1>4, <3>1, <3>2
  <2>11. ASSUME NEW t \in ids, NEW d \in dets, after.ids[d] = t, t \notin in.lost, in.ages[t] + 2 <= MaxAge
         PROVE  t \in next
    <3>1. MaxAge > 0
      <4>1. in.ages[t] \in Nat
        BY <1>3
      <4>. QED
        BY <1>4, <2>11, <4>1
    <3>. QED
      BY <2>9, <2>11, <3>1
  <2>12. /\ Cardinality(DOMAIN after.trackers \ ids) =
              Cardinality({d \in dets : after.ids[d] \notin ids}) + Cardinality(m \ Overlapping(m, in.iou))
         /\ \A t \in DOMAIN after.trackers \ ids : after.trackers[t] = 0
    BY <1>5, <2>4 DEF StartedBy
  <2>13. \A t \in DOMAIN after.trackers \ ids : t \in next <=> MaxAge > 0
    BY <2>5, <2>8, <2>12
  <2>. QED
    BY <2>6, <2>7, <2>9, <2>10, <2>11, <2>12, <2>13 DEF after, next
<1>. QED
  BY <1>7 DEF KeyframeIsTracked, ids, dets, trackers, nextId

-----------------------------------------------------------------------------
(* The frames of a camera *)

AnyTrackers == UNION {[S -> Nat] : S \in {T \in SUBSET Int : IsFiniteSet(T)}}

AnyAnswer == [ok : BOOLEAN, shown : SUBSET Int]

\* The ids of the trackers come from the counter.
Streams ==
  {s \in [index : Nat, framed : BOOLEAN, trackers : AnyTrackers, nextId : Int, answers : Seq(AnyAnswer)] :
     \A t \in DOMAIN s.trackers : t < s.nextId}

AnyFrame == [fails : BOOLEAN, boxes : Seq(SUBSET Int)]

\* What a keyframe with boxes makes of the trackers.
FollowsBoxes(s, frame, w, shown) ==
  /\ Cardinality(shown) = Len(frame.boxes)
  /\ \A t \in shown :
       /\ t < w.nextId /\ t \in DOMAIN w.trackers /\ w.trackers[t] = 0
       /\ t < s.nextId => \E d \in DOMAIN frame.boxes : t \in frame.boxes[d]

\* What a frame makes of the state and what is answered.
Processed(s, frame, w, a) ==
  /\ w.index = s.index + 1 /\ w.answers = Append(s.answers, a) /\ s.nextId <= w.nextId
  /\ a \in AnyAnswer
  /\ IsKeyframe(s.index) => /\ (a.ok <=> ~frame.fails)
                            /\ (w.framed <=> s.framed \/ ~frame.fails)
  /\ IsKeyframe(s.index) /\ (frame.fails \/ frame.boxes = <<>>) => w.trackers = s.trackers /\ a.shown = {}
  /\ IsKeyframe(s.index) /\ ~frame.fails /\ frame.boxes # <<>> => FollowsBoxes(s, frame, w, a.shown)
  /\ ~IsKeyframe(s.index) => (a.ok <=> s.framed) /\ (w.framed <=> s.framed)
  /\ ~IsKeyframe(s.index) /\ s.framed => /\ w.trackers = Predicted(s.trackers, {})
                                         /\ a.shown = Shown(w.trackers)
  /\ ~IsKeyframe(s.index) /\ ~s.framed => w.trackers = s.trackers /\ a.shown = {}

LEMMA TrackersAre ==
  ASSUME NEW T, T = [t \in DOMAIN T |-> T[t]], DOMAIN T \in SUBSET Int, IsFiniteSet(DOMAIN T),
         \A t \in DOMAIN T : T[t] \in Nat
  PROVE  T \in AnyTrackers
<1>1. T \in [DOMAIN T -> Nat]
  OBVIOUS
<1>. QED
  BY <1>1 DEF AnyTrackers

LEMMA AnyTrackersAre ==
  ASSUME NEW T \in AnyTrackers
  PROVE  /\ T = [t \in DOMAIN T |-> T[t]] /\ DOMAIN T \in SUBSET Int /\ IsFiniteSet(DOMAIN T)
         /\ \A t \in DOMAIN T : T[t] \in Nat
<1>1. PICK S \in {X \in SUBSET Int : IsFiniteSet(X)} : T \in [S -> Nat]
  BY DEF AnyTrackers
<1>. QED
  BY <1>1

LEMMA PredictedStays ==
  ASSUME NEW T \in AnyTrackers
  PROVE  /\ Predicted(T, {}) \in AnyTrackers /\ DOMAIN Predicted(T, {}) = DOMAIN T
         /\ \A t \in DOMAIN T : Predicted(T, {})[t] = T[t] + 1
<1>. DEFINE P == Predicted(T, {})
<1>1. DOMAIN P = DOMAIN T /\ P = [t \in DOMAIN T |-> P[t]] /\ \A t \in DOMAIN T : P[t] = T[t] + 1
  BY PredictedIs
<1>. HIDE DEF P
<1>2. DOMAIN T \in SUBSET Int /\ IsFiniteSet(DOMAIN T) /\ \A t \in DOMAIN T : T[t] \in Nat
  BY AnyTrackersAre
<1>3. P = [t \in DOMAIN P |-> P[t]] /\ DOMAIN P \in SUBSET Int /\ IsFiniteSet(DOMAIN P)
  BY <1>1, <1>2
<1>4. \A t \in DOMAIN P : P[t] \in Nat
  BY <1>1, <1>2
<1>5. P \in AnyTrackers
  BY <1>3, <1>4, TrackersAre
<1>. QED
  BY <1>1, <1>5 DEF P

LEMMA AnsweredIs ==
  ASSUME NEW s \in Streams, NEW a \in AnyAnswer
  PROVE  /\ Answered(s, a) \in Streams
         /\ Answered(s, a).index = s.index + 1 /\ Answered(s, a).answers = Append(s.answers, a)
         /\ (Answered(s, a).framed <=> s.framed) /\ Answered(s, a).trackers = s.trackers
         /\ Answered(s, a).nextId = s.nextId
<1>1. /\ s \in [index : Nat, framed : BOOLEAN, trackers : AnyTrackers, nextId : Int, answers : Seq(AnyAnswer)]
      /\ \A t \in DOMAIN s.trackers : t < s.nextId
  BY DEF Streams
<1>2. s.index + 1 \in Nat /\ Append(s.answers, a) \in Seq(AnyAnswer)
  BY <1>1
<1>. DEFINE w == [s EXCEPT !.index = s.index + 1, !.answers = Append(s.answers, a)]
<1>3. w \in [index : Nat, framed : BOOLEAN, trackers : AnyTrackers, nextId : Int, answers : Seq(AnyAnswer)]
  BY <1>1, <1>2
<1>4. /\ w.index = s.index + 1 /\ w.answers = Append(s.answers, a) /\ (w.framed <=> s.framed)
      /\ w.trackers = s.trackers /\ w.nextId = s.nextId
  BY <1>1
<1>5. Answered(s, a) = w
  BY DEF Answered
<1>. HIDE DEF w
<1>. QED
  BY <1>1, <1>3, <1>4, <1>5 DEF Streams

\* The stream with a frame and with other trackers.
Remade(s, T, next, w) ==
  w = [s EXCEPT !.framed = TRUE, !.trackers = T, !.nextId = next]

LEMMA StreamWith ==
  ASSUME NEW s \in Streams, NEW T \in AnyTrackers, NEW next \in Int,
         \A t \in DOMAIN T : t < next,
         NEW w, Remade(s, T, next, w)
  PROVE  /\ w \in Streams /\ w.index = s.index /\ w.answers = s.answers
         /\ w.framed /\ w.trackers = T /\ w.nextId = next
<1>1. s \in [index : Nat, framed : BOOLEAN, trackers : AnyTrackers, nextId : Int, answers : Seq(AnyAnswer)]
  BY DEF Streams
<1>2. /\ w \in [index : Nat, framed : BOOLEAN, trackers : AnyTrackers, nextId : Int, answers : Seq(AnyAnswer)]
      /\ w.index = s.index /\ w.answers = s.answers
      /\ w.framed /\ w.trackers = T /\ w.nextId = next
  BY <1>1 DEF Remade
<1>. QED
  BY <1>2 DEF Streams

LEMMA BetweenIs ==
  ASSUME NEW s \in Streams, NEW frame \in AnyFrame, ~IsKeyframe(s.index)
  PROVE  Between(s) \in Streams /\ \E a : Processed(s, frame, Between(s), a)
<1>1. /\ s.trackers \in AnyTrackers /\ s.nextId \in Int /\ s.framed \in BOOLEAN
      /\ \A t \in DOMAIN s.trackers : t < s.nextId
  BY DEF Streams
<1>2. CASE s.framed
  <2>. DEFINE P == Predicted(s.trackers, {})
              v == [s EXCEPT !.trackers = P]
              a == [ok |-> TRUE, shown |-> Shown(P)]
              w == Answered(v, a)
  <2>1. P \in AnyTrackers /\ DOMAIN P = DOMAIN s.trackers
    BY <1>1, PredictedStays
  <2>2. Between(s) = w
    BY <1>2 DEF Between
  <2>3. Remade(s, P, s.nextId, v)
    BY <1>2 DEF Streams, Remade
  <2>4. Shown(P) \in SUBSET Int
    <3>1. DOMAIN P \in SUBSET Int
      BY <2>1, AnyTrackersAre
    <3>. QED
      BY <3>1 DEF Shown
  <2>5. a \in AnyAnswer /\ a.ok /\ a.shown = Shown(P)
    BY <2>4 DEF AnyAnswer
  <2>. HIDE DEF P, v, a
  <2>6. v \in Streams /\ v.index = s.index /\ v.answers = s.answers /\ v.framed /\ v.trackers = P /\ v.nextId = s.nextId
    BY <1>1, <2>1, <2>3, StreamWith
  <2>7. /\ w \in Streams /\ w.index = v.index + 1 /\ w.answers = Append(v.answers, a) /\ (w.framed <=> v.framed)
        /\ w.trackers = v.trackers /\ w.nextId = v.nextId
    BY <2>5, <2>6, AnsweredIs
  <2>. HIDE DEF w
  <2>8. Processed(s, frame, w, a)
    BY <1>1, <1>2, <2>5, <2>6, <2>7 DEF Processed, P
  <2>. QED
    BY <2>2, <2>7, <2>8
<1>3. CASE ~s.framed
  <2>. DEFINE w == Answered(s, Error)
  <2>1. Between(s) = w
    BY <1>3 DEF Between
  <2>2. Error \in AnyAnswer /\ ~Error.ok /\ Error.shown = {}
    BY DEF Error, AnyAnswer
  <2>3. /\ w \in Streams /\ w.index = s.index + 1 /\ w.answers = Append(s.answers, Error) /\ (w.framed <=> s.framed)
        /\ w.trackers = s.trackers /\ w.nextId = s.nextId
    BY <2>2, AnsweredIs
  <2>. HIDE DEF w
  <2>4. Processed(s, frame, w, Error)
    BY <1>1, <1>3, <2>2, <2>3 DEF Processed
  <2>. QED
    BY <2>1, <2>3, <2>4
<1>. QED
  BY <1>2, <1>3

LEMMA QuietKeyframeIs ==
  ASSUME NEW s \in Streams, NEW frame \in AnyFrame, IsKeyframe(s.index),
         frame.fails \/ frame.boxes = <<>>
  PROVE  Keyframe(s, frame) \in Streams /\ \E a : Processed(s, frame, Keyframe(s, frame), a)
<1>1. /\ s.trackers \in AnyTrackers /\ s.nextId \in Int /\ s.framed \in BOOLEAN
      /\ \A t \in DOMAIN s.trackers : t < s.nextId
  BY DEF Streams
<1>2. frame.fails \in BOOLEAN
  BY DEF AnyFrame
<1>3. CASE frame.fails
  <2>. DEFINE w == Answered(s, Error)
  <2>1. Keyframe(s, frame) = w
    BY <1>3 DEF Keyframe
  <2>2. Error \in AnyAnswer /\ ~Error.ok /\ Error.shown = {}
    BY DEF Error, AnyAnswer
  <2>3. /\ w \in Streams /\ w.index = s.index + 1 /\ w.answers = Append(s.answers, Error) /\ (w.framed <=> s.framed)
        /\ w.trackers = s.trackers /\ w.nextId = s.nextId
    BY <2>2, AnsweredIs
  <2>. HIDE DEF w
  <2>4. Processed(s, frame, w, Error)
    BY <1>1, <1>2, <1>3, <2>2, <2>3 DEF Processed
  <2>. QED
    BY <2>1, <2>3, <2>4
<1>4. CASE ~frame.fails
  <2>. DEFINE v == [s EXCEPT !.framed = TRUE]
              a == [ok |-> TRUE, shown |-> {}]
              w == Answered(v, a)
  <2>1. Keyframe(s, frame) = w
    BY <1>4 DEF Keyframe
  <2>2. Remade(s, s.trackers, s.nextId, v)
    BY DEF Streams, Remade
  <2>3. a \in AnyAnswer /\ a.ok /\ a.shown = {}
    BY DEF AnyAnswer
  <2>. HIDE DEF v, a
  <2>4. v \in Streams /\ v.index = s.index /\ v.answers = s.answers /\ v.framed /\ v.trackers = s.trackers /\ v.nextId = s.nextId
    BY <1>1, <2>2, StreamWith
  <2>5. /\ w \in Streams /\ w.index = v.index + 1 /\ w.answers = Append(v.answers, a) /\ (w.framed <=> v.framed)
        /\ w.trackers = v.trackers /\ w.nextId = v.nextId
    BY <2>3, <2>4, AnsweredIs
  <2>. HIDE DEF w
  <2>6. Processed(s, frame, w, a)
    BY <1>1, <1>2, <1>4, <2>3, <2>4, <2>5 DEF Processed
  <2>. QED
    BY <2>1, <2>5, <2>6
<1>. QED
  BY <1>2, <1>3, <1>4

LEMMA BoxedKeyframeIs ==
  ASSUME NEW s \in Streams, NEW frame \in AnyFrame, IsKeyframe(s.index),
         ~frame.fails, frame.boxes # <<>>
  PROVE  Keyframe(s, frame) \in Streams /\ \E a : Processed(s, frame, Keyframe(s, frame), a)
<1>. DEFINE P == Predicted(s.trackers, {})
            iou == OverlapsOf(frame.boxes, P)
            dets == DOMAIN iou
            m == CHOOSE x \in Assignments(dets, DOMAIN P, iou) : TRUE
            u == Update(P, dets, iou, m, s.nextId)
            v == [s EXCEPT !.framed = TRUE, !.trackers = u.trackers, !.nextId = u.next]
            a == [ok |-> TRUE, shown |-> Range(u.ids)]
            w == Answered(v, a)
            n == Len(frame.boxes)
<1>1. /\ s.trackers \in AnyTrackers /\ s.nextId \in Int /\ s.framed \in BOOLEAN
      /\ \A t \in DOMAIN s.trackers : t < s.nextId
  BY DEF Streams
<1>2. n \in Nat /\ DOMAIN frame.boxes = 1..n
  BY DEF AnyFrame
<1>3. Keyframe(s, frame) = w
  BY DEF Keyframe
<1>4. P \in AnyTrackers /\ DOMAIN P = DOMAIN s.trackers
  BY <1>1, PredictedStays
<1>. HIDE DEF P
<1>5. P = [t \in DOMAIN P |-> P[t]] /\ DOMAIN P \in SUBSET Int /\ IsFiniteSet(DOMAIN P) /\ \A t \in DOMAIN P : P[t] \in Nat
  BY <1>4, AnyTrackersAre
<1>6. dets = DOMAIN frame.boxes
  BY DEF OverlapsOf
<1>7. \A d \in DOMAIN frame.boxes : \A t \in DOMAIN P : iou[d][t] = IF t \in frame.boxes[d] THEN Overlap ELSE 0
  BY DEF OverlapsOf
<1>. HIDE DEF iou, dets, n
<1>8. dets \in SUBSET Int /\ IsFiniteSet(dets)
  BY <1>2, <1>6, UpToN
<1>9. Overlap \in Nat /\ Overlap > 0
  BY TrackerAssumption
<1>10. \A d \in dets : \A t \in DOMAIN P : iou[d][t] \in Int
  BY <1>6, <1>7, <1>9
<1>11. Matching(m, dets, DOMAIN P)
  BY <1>5, <1>8, <1>10, AssignmentsAre
<1>. HIDE DEF m
<1>12. UpdateInput(P, dets, iou, m, s.nextId)
  BY <1>1, <1>4, <1>5, <1>8, <1>11 DEF UpdateInput
<1>13. UpdatedTo(P, dets, iou, s.nextId, u)
  BY <1>12, UpdateIs
<1>. HIDE DEF u
<1>14. /\ u.next \in Int /\ s.nextId <= u.next
       /\ u.ids = [d \in dets |-> u.ids[d]]
       /\ \A d \in dets : u.ids[d] \in Int /\ u.ids[d] < u.next
       /\ \A d, e \in dets : u.ids[d] = u.ids[e] => d = e
       /\ \A d \in dets : u.ids[d] < s.nextId => u.ids[d] \in DOMAIN P /\ iou[d][u.ids[d]] >= Overlap
       /\ u.trackers = [t \in DOMAIN u.trackers |-> u.trackers[t]]
       /\ DOMAIN u.trackers \in SUBSET (DOMAIN P \cup s.nextId..u.next - 1)
       /\ \A t \in DOMAIN u.trackers : u.trackers[t] = 0 \/ (t \in DOMAIN P /\ u.trackers[t] = P[t])
       /\ \A d \in dets : u.ids[d] \in DOMAIN u.trackers /\ u.trackers[u.ids[d]] = 0
  BY <1>13 DEF UpdatedTo
<1>15. u.trackers \in AnyTrackers /\ \A t \in DOMAIN u.trackers : t < u.next
  <2>. DEFINE new == s.nextId..u.next - 1
  <2>1. new \in SUBSET Int /\ IsFiniteSet(new) /\ \A t \in new : t < u.next
    BY <1>1, <1>14, FS_Interval
  <2>2. \A t \in DOMAIN P : t < u.next
    BY <1>1, <1>4, <1>5, <1>14
  <2>. HIDE DEF new
  <2>3. IsFiniteSet(DOMAIN P \cup new)
    BY <1>5, <2>1, FS_Union
  <2>4. DOMAIN u.trackers \in SUBSET (DOMAIN P \cup new)
    BY <1>14 DEF new
  <2>5. DOMAIN u.trackers \in SUBSET Int /\ IsFiniteSet(DOMAIN u.trackers)
    <3>1. IsFiniteSet(DOMAIN u.trackers)
      BY <2>3, <2>4, FS_Subset
    <3>. QED
      BY <1>5, <2>1, <2>4, <3>1
  <2>6. \A t \in DOMAIN u.trackers : u.trackers[t] \in Nat
    <3>1. \A t \in DOMAIN u.trackers : u.trackers[t] = 0 \/ (t \in DOMAIN P /\ u.trackers[t] = P[t])
      BY <1>14
    <3>2. \A t \in DOMAIN P : P[t] \in Nat
      BY <1>5
    <3>. QED
      BY <3>1, <3>2
  <2>7. u.trackers \in AnyTrackers
    BY <1>14, <2>5, <2>6, TrackersAre
  <2>. QED
    BY <2>1, <2>2, <2>4, <2>7
<1>16. a.ok /\ a.shown = Range(u.ids) /\ a \in AnyAnswer
  <2>1. Range(u.ids) \in SUBSET Int
    BY <1>14 DEF Range
  <2>. QED
    BY <2>1 DEF AnyAnswer
<1>. HIDE DEF v, a
<1>17. v \in Streams /\ v.index = s.index /\ v.answers = s.answers /\ v.framed /\ v.trackers = u.trackers /\ v.nextId = u.next
  <2>1. Remade(s, u.trackers, u.next, v)
    BY DEF v, Remade
  <2>2. u.next \in Int
    BY <1>14
  <2>. QED
    BY <1>15, <2>1, <2>2, StreamWith
<1>18. /\ w \in Streams /\ w.index = v.index + 1 /\ w.answers = Append(v.answers, a) /\ (w.framed <=> v.framed)
       /\ w.trackers = v.trackers /\ w.nextId = v.nextId
  BY <1>16, <1>17, AnsweredIs
<1>. HIDE DEF w
<1>19. \A t \in a.shown : \E d \in dets : t = u.ids[d]
  BY <1>14, <1>16 DEF Range
<1>20. Cardinality(a.shown) = n
  <2>. DEFINE S == Range(u.ids)
  <2>1. u.ids \in Bijection(1..n, S)
    <3>1. dets = 1..n
      BY <1>2, <1>6
    <3>2. u.ids \in [1..n -> S] /\ \A t \in S : \E d \in 1..n : u.ids[d] = t
      BY <1>14, <3>1 DEF Range
    <3>. QED
      BY <1>14, <3>1, <3>2 DEF Bijection, Injection, Surjection, IsInjective
  <2>2. ExistsBijection(1..n, S)
    BY <2>1 DEF ExistsBijection
  <2>. QED
    BY <1>2, <1>16, <2>2, FS_CountingElements
<1>21. ASSUME NEW t \in a.shown
       PROVE  /\ t < w.nextId /\ t \in DOMAIN w.trackers /\ w.trackers[t] = 0
              /\ t < s.nextId => \E d \in DOMAIN frame.boxes : t \in frame.boxes[d]
  <2>1. PICK d \in dets : t = u.ids[d]
    BY <1>19
  <2>2. ASSUME t < s.nextId PROVE t \in frame.boxes[d]
    <3>1. t \in DOMAIN P /\ iou[d][t] >= Overlap
      BY <1>14, <2>1, <2>2
    <3>2. iou[d][t] = IF t \in frame.boxes[d] THEN Overlap ELSE 0
      BY <1>6, <1>7, <3>1
    <3>. QED
      BY <1>9, <3>1, <3>2
  <2>3. u.ids[d] < u.next /\ u.ids[d] \in DOMAIN u.trackers /\ u.trackers[u.ids[d]] = 0
    BY <1>14
  <2>4. w.nextId = u.next /\ w.trackers = u.trackers
    BY <1>17, <1>18
  <2>5. t < w.nextId /\ t \in DOMAIN w.trackers /\ w.trackers[t] = 0
    BY <2>1, <2>3, <2>4
  <2>6. d \in DOMAIN frame.boxes
    BY <1>6
  <2>. QED
    BY <2>2, <2>5, <2>6
<1>22. FollowsBoxes(s, frame, w, a.shown)
  BY <1>20, <1>21 DEF FollowsBoxes, n
<1>23. Processed(s, frame, w, a)
  BY <1>1, <1>14, <1>16, <1>17, <1>18, <1>22 DEF Processed
<1>. QED
  BY <1>3, <1>18, <1>23

LEMMA ProcessFrameIs ==
  ASSUME NEW s \in Streams, NEW frame \in AnyFrame
  PROVE  ProcessFrame(s, frame) \in Streams /\ \E a : Processed(s, frame, ProcessFrame(s, frame), a)
<1>1. CASE ~IsKeyframe(s.index)
  BY <1>1, BetweenIs DEF ProcessFrame
<1>2. CASE IsKeyframe(s.index) /\ (frame.fails \/ frame.boxes = <<>>)
  BY <1>2, QuietKeyframeIs DEF ProcessFrame
<1>3. CASE IsKeyframe(s.index) /\ ~frame.fails /\ frame.boxes # <<>>
  BY <1>3, BoxedKeyframeIs DEF ProcessFrame
<1>. QED
  BY <1>1, <1>2, <1>3

\* The states of a stream, frame by frame, and what is answered.
Streamed(f, frames, answers, n) ==
  /\ n \in Nat /\ frames \in Seq(AnyFrame) /\ Len(frames) = n /\ Len(answers) = n
  /\ f[0] = NewStream
  /\ \A i \in 0..n : f[i] \in Streams /\ f[i].index = i
  /\ \A i \in 1..n : frames[i] \in AnyFrame /\ Processed(f[i - 1], frames[i], f[i], answers[i])

LEMMA NewStreamIs ==
  /\ NewStream \in Streams /\ NewStream.index = 0 /\ ~NewStream.framed
  /\ DOMAIN NewStream.trackers = {} /\ NewStream.answers = <<>>
<1>. DEFINE none == NewStream.trackers
<1>1. /\ NewStream.index = 0 /\ ~NewStream.framed /\ NewStream.answers = <<>>
      /\ NewStream.nextId = 1 /\ none = <<>>
      /\ NewStream = [index |-> 0, framed |-> FALSE, trackers |-> none, nextId |-> 1, answers |-> <<>>]
  BY DEF NewStream
<1>2. DOMAIN none = {} /\ none = [t \in {} |-> none[t]]
  BY <1>1
<1>. HIDE DEF none
<1>3. none \in AnyTrackers
  <2>1. DOMAIN none \in SUBSET Int /\ IsFiniteSet(DOMAIN none) /\ \A t \in DOMAIN none : none[t] \in Nat
    BY <1>2, FS_EmptySet
  <2>2. none = [t \in DOMAIN none |-> none[t]]
    BY <1>2
  <2>. QED
    BY <2>1, <2>2, TrackersAre
<1>4. 0 \in Nat /\ 1 \in Int /\ <<>> \in Seq(AnyAnswer) /\ FALSE \in BOOLEAN
  OBVIOUS
<1>5. NewStream \in [index : Nat, framed : BOOLEAN, trackers : AnyTrackers, nextId : Int, answers : Seq(AnyAnswer)]
  BY <1>1, <1>3, <1>4
<1>6. NewStream \in Streams
  BY <1>1, <1>2, <1>5 DEF none, Streams
<1>. QED
  BY <1>1, <1>2, <1>6 DEF none

LEMMA StreamFolds ==
  ASSUME NEW frames \in Seq(AnyFrame)
  PROVE  \E f : /\ f \in [0..Len(frames) -> Streams]
                /\ f[0] = NewStream
                /\ \A i \in 1..Len(frames) : f[i] = ProcessFrame(f[i - 1], frames[i])
                /\ Stream(frames) = f[Len(frames)]
<1>. DEFINE n == Len(frames)
            Rec(it) == it = [s \in SUBSET (DOMAIN frames) |->
                               IF s = {} THEN NewStream ELSE ProcessFrame(it[s \ {Max(s)}], frames[Max(s)])]
            fold == CHOOSE it : Rec(it)
            step == [i \in 1..n |-> [v \in Streams |-> ProcessFrame(v, frames[i])]]
            f == [i \in 0..n |-> fold[1..i]]
<1>1. n \in Nat /\ DOMAIN frames = 1..n /\ \A i \in 1..n : frames[i] \in AnyFrame
  OBVIOUS
<1>2. NewStream \in Streams
  BY NewStreamIs
<1>3. Stream(frames) = fold[DOMAIN frames]
  BY DEF Stream, FoldLeft, MapThenFoldSet
<1>. HIDE DEF n
<1>4. Rec(fold)
  <2>1. step \in [1..n -> [Streams -> Streams]]
    BY <1>1, ProcessFrameIs
  <2>. HIDE DEF step
  <2>2. PICK it \in [SUBSET (1..n) -> Streams] : Folds(it, NewStream, n, step)
    BY <1>1, <1>2, <2>1, FoldExists
  <2>3. ASSUME NEW s \in SUBSET (1..n), s # {}
        PROVE  step[Max(s)][it[s \ {Max(s)}]] = ProcessFrame(it[s \ {Max(s)}], frames[Max(s)])
    <3>1. Max(s) \in 1..n
      <4>1. s \in SUBSET (0..n)
        OBVIOUS
      <4>. QED
        BY <1>1, <2>3, <4>1, GreatestMember
    <3>2. it[s \ {Max(s)}] \in Streams
      OBVIOUS
    <3>. QED
      BY <3>1, <3>2 DEF step
  <2>4. Rec(it)
    BY <1>1, <2>2, <2>3 DEF Folds
  <2>. HIDE DEF Rec
  <2>. QED
    BY <2>4
<1>. HIDE DEF fold
<1>5. f[0] = NewStream
  <2>1. 1..0 = {} /\ {} \in SUBSET (DOMAIN frames)
    OBVIOUS
  <2>2. 0 \in 0..n
    BY <1>1
  <2>. QED
    BY <1>4, <2>1, <2>2
<1>6. ASSUME NEW i \in 1..n PROVE f[i] = ProcessFrame(f[i - 1], frames[i])
  <2>1. 1..i \in SUBSET (DOMAIN frames) /\ i \in 0..n /\ i - 1 \in 0..n
    BY <1>1
  <2>2. 1..i # {} /\ Max(1..i) = i /\ (1..i) \ {i} = 1..(i - 1)
    BY <1>1, Initial
  <2>3. fold[1..i] = ProcessFrame(fold[(1..i) \ {Max(1..i)}], frames[Max(1..i)])
    BY <1>4, <2>1, <2>2
  <2>. QED
    BY <2>1, <2>2, <2>3
<1>. HIDE DEF f
<1>. DEFINE typed == {i \in 0..n : f[i] \in Streams}
<1>7. 0..n \subseteq typed
  <2>1. 0 \in typed
    BY <1>1, <1>2, <1>5
  <2>2. ASSUME NEW k \in 1..n, k - 1 \in typed PROVE k \in typed
    BY <1>1, <1>6, <2>2, ProcessFrameIs
  <2>. HIDE DEF typed
  <2>. QED
    BY <1>1, <2>1, <2>2, UpTo
<1>8. Stream(frames) = f[n] /\ DOMAIN f = 0..n /\ f = [i \in 0..n |-> f[i]]
  BY <1>1, <1>3 DEF f
<1>9. f \in [0..n -> Streams]
  BY <1>7, <1>8
<1>. QED
  BY <1>5, <1>6, <1>8, <1>9 DEF n

LEMMA StreamIs ==
  ASSUME NEW frames \in Seq(AnyFrame)
  PROVE  \E f : Streamed(f, frames, Stream(frames).answers, Len(frames))
<1>. DEFINE n == Len(frames)
            answers == Stream(frames).answers
<1>1. PICK f : /\ f \in [0..n -> Streams]
               /\ f[0] = NewStream
               /\ \A i \in 1..n : f[i] = ProcessFrame(f[i - 1], frames[i])
               /\ Stream(frames) = f[n]
  BY StreamFolds
<1>2. n \in Nat /\ \A i \in 1..n : frames[i] \in AnyFrame
  OBVIOUS
<1>. HIDE DEF n
<1>3. \A i \in 0..n : f[i] \in Streams /\ f[i].answers \in Seq(AnyAnswer)
  BY <1>1 DEF Streams
<1>. DEFINE last == [i \in 1..n |-> f[i].answers[i]]
            kept == {k \in 0..n : /\ f[k].index = k /\ Len(f[k].answers) = k
                                  /\ \A j \in 1..k : f[k].answers[j] = last[j]}
<1>4. ASSUME NEW k \in 1..n
      PROVE  /\ k - 1 \in 0..n
             /\ \E a : Processed(f[k - 1], frames[k], f[k], a)
  <2>1. k - 1 \in 0..n
    BY <1>2
  <2>. QED
    BY <1>1, <1>2, <1>3, <2>1, ProcessFrameIs
<1>5. 0..n \subseteq kept
  <2>1. 0 \in kept
    <3>1. 0 \in 0..n /\ 1..0 = {} /\ Len(<<>>) = 0
      BY <1>2
    <3>. QED
      BY <1>1, <3>1, NewStreamIs
  <2>2. ASSUME NEW k \in 1..n, k - 1 \in kept PROVE k \in kept
    <3>1. PICK a : Processed(f[k - 1], frames[k], f[k], a)
      BY <1>4
    <3>2. /\ f[k].index = f[k - 1].index + 1 /\ f[k].answers = Append(f[k - 1].answers, a)
          /\ f[k - 1].answers \in Seq(AnyAnswer) /\ a \in AnyAnswer
      BY <1>3, <1>4, <3>1 DEF Processed
    <3>3. /\ f[k - 1].index = k - 1 /\ Len(f[k - 1].answers) = k - 1
          /\ \A j \in 1..k - 1 : f[k - 1].answers[j] = last[j]
      BY <2>2
    <3>4. last[k] = f[k].answers[k]
      OBVIOUS
    <3>. HIDE DEF last
    <3>5. f[k].index = k /\ Len(f[k].answers) = k
      BY <3>2, <3>3
    <3>6. ASSUME NEW j \in 1..k PROVE f[k].answers[j] = last[j]
      <4>1. CASE j = k
        BY <3>4, <4>1
      <4>2. CASE j # k
        <5>1. j \in 1..k - 1
          BY <4>2
        <5>2. f[k].answers[j] = f[k - 1].answers[j]
          BY <3>2, <3>3, <5>1
        <5>. QED
          BY <3>3, <5>1, <5>2
      <4>. QED
        BY <4>1, <4>2
    <3>7. k \in 0..n
      BY <1>2
    <3>. QED
      BY <3>5, <3>6, <3>7
  <2>. HIDE DEF kept
  <2>. QED
    BY <1>2, <2>1, <2>2, UpTo
<1>6. ASSUME NEW k \in 0..n
      PROVE  /\ f[k].index = k /\ Len(f[k].answers) = k
             /\ \A j \in 1..k : f[k].answers[j] = last[j]
  BY <1>5
<1>7. answers = f[n].answers
  BY <1>1
<1>. HIDE DEF last, kept, answers
<1>8. n \in 0..n
  BY <1>2
<1>9. Len(answers) = n /\ \A j \in 1..n : answers[j] = last[j]
  BY <1>6, <1>7, <1>8
<1>10. ASSUME NEW i \in 1..n PROVE Processed(f[i - 1], frames[i], f[i], answers[i])
  <2>1. PICK a : Processed(f[i - 1], frames[i], f[i], a)
    BY <1>4
  <2>2. f[i].answers = Append(f[i - 1].answers, a) /\ f[i - 1].answers \in Seq(AnyAnswer) /\ a \in AnyAnswer
    BY <1>3, <1>4, <2>1 DEF Processed
  <2>3. Len(f[i - 1].answers) = i - 1
    BY <1>4, <1>6
  <2>4. f[i].answers[i] = a
    BY <2>2, <2>3
  <2>5. f[i].answers[i] = last[i]
    <3>1. i \in 0..n /\ i \in 1..i
      BY <1>2
    <3>. QED
      BY <1>6, <3>1
  <2>. QED
    BY <1>9, <2>1, <2>4, <2>5
<1>11. Streamed(f, frames, answers, n)
  BY <1>1, <1>2, <1>3, <1>6, <1>9, <1>10 DEF Streamed, n
<1>. QED
  BY <1>11 DEF n, answers

FineAt(frames, j) == IsKeyframe(j - 1) /\ ~frames[j].fails

BoxedAt(frames, j) == FineAt(frames, j) /\ frames[j].boxes # <<>>

\* The predictions between the frames j and i.
SinceThen(j, i) == Cardinality({k \in j + 1..i : ~IsKeyframe(k - 1)})

LEMMA SinceIs ==
  ASSUME NEW j \in Nat, NEW i \in Nat, j <= i
  PROVE  /\ SinceThen(j, i) \in Nat
         /\ j = i => SinceThen(j, i) = 0
         /\ j < i => SinceThen(j, i) = SinceThen(j, i - 1) + IF IsKeyframe(i - 1) THEN 0 ELSE 1
         /\ \A l \in j..i : SinceThen(l, i) \in Nat /\ SinceThen(l, i) <= SinceThen(j, i)
<1>. DEFINE NotKey(l, m) == {k \in l + 1..m : ~IsKeyframe(k - 1)}
<1>1. ASSUME NEW l \in Nat, NEW m \in Nat PROVE IsFiniteSet(NotKey(l, m)) /\ Cardinality(NotKey(l, m)) \in Nat
  <2>1. IsFiniteSet(l + 1..m) /\ NotKey(l, m) \in SUBSET (l + 1..m)
    BY FS_Interval
  <2>. HIDE DEF NotKey
  <2>. QED
    BY <2>1, FS_Subset, FS_CardinalityType
<1>2. ASSUME j = i PROVE Cardinality(NotKey(j, i)) = 0
  <2>1. NotKey(j, i) = {}
    BY <1>2
  <2>. QED
    BY <2>1, FS_EmptySet
<1>3. ASSUME j < i PROVE Cardinality(NotKey(j, i)) = Cardinality(NotKey(j, i - 1)) + IF IsKeyframe(i - 1) THEN 0 ELSE 1
  <2>. DEFINE old == NotKey(j, i - 1)
  <2>1. i - 1 \in Nat
    BY <1>3
  <2>2. IsFiniteSet(old) /\ Cardinality(old) \in Nat
    BY <1>1, <2>1
  <2>3. CASE IsKeyframe(i - 1)
    <3>1. NotKey(j, i) = old
      <4>1. \A k \in Int : k \in j + 1..i <=> k \in j + 1..i - 1 \/ k = i
        BY <1>3
      <4>. QED
        BY <2>3, <4>1
    <3>. HIDE DEF NotKey
    <3>. QED
      BY <2>2, <2>3, <3>1
  <2>4. CASE ~IsKeyframe(i - 1)
    <3>1. NotKey(j, i) = old \cup {i} /\ i \notin old
      <4>1. \A k \in Int : k \in j + 1..i <=> k \in j + 1..i - 1 \/ k = i
        BY <1>3
      <4>. QED
        BY <2>4, <4>1
    <3>. HIDE DEF NotKey
    <3>2. Cardinality(old \cup {i}) = Cardinality(old) + 1
      BY <2>2, <3>1, FS_AddElement
    <3>. QED
      BY <2>4, <3>1, <3>2
  <2>. QED
    BY <2>3, <2>4
<1>4. ASSUME NEW l \in j..i PROVE Cardinality(NotKey(l, i)) \in Nat /\ Cardinality(NotKey(l, i)) <= Cardinality(NotKey(j, i))
  <2>1. l \in Nat /\ NotKey(l, i) \in SUBSET NotKey(j, i)
    OBVIOUS
  <2>. HIDE DEF NotKey
  <2>. QED
    BY <1>1, <2>1, FS_Subset
<1>. QED
  BY <1>1, <1>2, <1>3, <1>4 DEF SinceThen

LEMMA FramedIs ==
  ASSUME NEW f, NEW frames, NEW answers, NEW n, Streamed(f, frames, answers, n), NEW i \in 0..n
  PROVE  f[i].framed <=> \E j \in 1..i : FineAt(frames, j)
<1>. DEFINE good == {k \in 0..n : f[k].framed <=> \E j \in 1..k : FineAt(frames, j)}
<1>1. n \in Nat /\ f[0] = NewStream /\ \A k \in 0..n : f[k] \in Streams /\ f[k].index = k
  BY DEF Streamed
<1>2. 0 \in good
  BY <1>1, NewStreamIs
<1>3. ASSUME NEW k \in 1..n, k - 1 \in good PROVE k \in good
  <2>1. Processed(f[k - 1], frames[k], f[k], answers[k]) /\ frames[k].fails \in BOOLEAN
    BY DEF Streamed, AnyFrame
  <2>2. f[k - 1].index = k - 1 /\ f[k - 1].framed \in BOOLEAN /\ f[k].framed \in BOOLEAN /\ k \in 0..n
    <3>1. k - 1 \in 0..n /\ k \in 0..n
      BY <1>1
    <3>2. f[k - 1] \in Streams /\ f[k - 1].index = k - 1 /\ f[k] \in Streams
      BY <1>1, <3>1
    <3>3. \A s \in Streams : s.framed \in BOOLEAN
      BY DEF Streams
    <3>. QED
      BY <3>1, <3>2, <3>3
  <2>3. f[k].framed <=> f[k - 1].framed \/ FineAt(frames, k)
    BY <2>1, <2>2 DEF Processed, FineAt
  <2>4. \A j \in Int : j \in 1..k <=> j \in 1..k - 1 \/ j = k
    BY <1>1
  <2>5. f[k - 1].framed <=> \E j \in 1..k - 1 : FineAt(frames, j)
    BY <1>3
  <2>6. (\E j \in 1..k : FineAt(frames, j)) <=> (\E j \in 1..k - 1 : FineAt(frames, j)) \/ FineAt(frames, k)
    BY <2>4
  <2>. QED
    BY <2>2, <2>3, <2>5, <2>6
<1>4. 0..n \subseteq good
  <2>. HIDE DEF good
  <2>. QED
    BY <1>1, <1>2, <1>3, UpTo
<1>. QED
  BY <1>4

LEMMA IdsGrow ==
  ASSUME NEW f, NEW frames, NEW answers, NEW n, Streamed(f, frames, answers, n), NEW i \in 0..n
  PROVE  \A j \in 1..i : \A t \in answers[j].shown : t \in Int /\ t < f[i].nextId
<1>. DEFINE good == {k \in 0..n : \A j \in 1..k : \A t \in answers[j].shown : t \in Int /\ t < f[k].nextId}
<1>1. n \in Nat /\ f[0] = NewStream /\ \A k \in 0..n : f[k] \in Streams /\ f[k].index = k
  BY DEF Streamed
<1>2. 0 \in good
  BY <1>1
<1>3. ASSUME NEW k \in 1..n, k - 1 \in good PROVE k \in good
  <2>1. Processed(f[k - 1], frames[k], f[k], answers[k]) /\ frames[k] \in AnyFrame
    BY DEF Streamed
  <2>2. k \in 0..n /\ k - 1 \in 0..n /\ f[k - 1].nextId \in Int /\ f[k].nextId \in Int /\ f[k].trackers \in AnyTrackers
    BY <1>1 DEF Streams
  <2>3. f[k - 1].nextId <= f[k].nextId /\ answers[k].shown \in SUBSET Int
    BY <2>1 DEF Processed, AnyAnswer
  <2>4. \A t \in DOMAIN f[k].trackers : t < f[k].nextId
    BY <1>1, <2>2 DEF Streams
  <2>5. ASSUME NEW t \in answers[k].shown PROVE t < f[k].nextId
    <3>1. f[k - 1].framed \in BOOLEAN /\ frames[k].fails \in BOOLEAN
      BY <1>1, <2>1, <2>2 DEF Streams, AnyFrame
    <3>2. t \in Shown(f[k].trackers) \/ FollowsBoxes(f[k - 1], frames[k], f[k], answers[k].shown)
      BY <2>1, <2>5, <3>1 DEF Processed
    <3>3. Shown(f[k].trackers) \subseteq DOMAIN f[k].trackers
      BY DEF Shown
    <3>. QED
      BY <2>4, <2>5, <3>2, <3>3 DEF FollowsBoxes
  <2>6. ASSUME NEW j \in 1..k - 1, NEW t \in answers[j].shown PROVE t \in Int /\ t < f[k].nextId
    BY <1>3, <2>2, <2>3
  <2>7. ASSUME NEW j \in 1..k, NEW t \in answers[j].shown PROVE t \in Int /\ t < f[k].nextId
    <3>1. j = k \/ j \in 1..k - 1
      BY <1>1
    <3>. QED
      BY <2>3, <2>5, <2>6, <3>1
  <2>. QED
    BY <2>2, <2>7
<1>4. 0..n \subseteq good
  <2>. HIDE DEF good
  <2>. QED
    BY <1>1, <1>2, <1>3, UpTo
<1>. QED
  BY <1>4

\* The ages of the trackers i frames on, when the boxes of frame l are the last.
LastBoxed(s, frames, answers, l, i) ==
  /\ BoxedAt(frames, l) /\ \A j \in l + 1..i : ~BoxedAt(frames, j)
  /\ \A t \in DOMAIN s.trackers : s.trackers[t] >= SinceThen(l, i)
  /\ \A t \in answers[l].shown : t \in DOMAIN s.trackers /\ s.trackers[t] = SinceThen(l, i)

NoneBoxed(s, frames, i) ==
  (\A j \in 1..i : ~BoxedAt(frames, j)) /\ DOMAIN s.trackers = {}

Followed(s, frames, answers, i) ==
  NoneBoxed(s, frames, i) \/ \E l \in 1..i : LastBoxed(s, frames, answers, l, i)

\* A frame without boxes of its own that leaves the trackers alone or predicts them.
LEMMA FollowedOn ==
  ASSUME NEW s, NEW w, NEW frames, NEW answers, NEW i \in Nat \ {0}, s.trackers \in AnyTrackers,
         Followed(s, frames, answers, i - 1), ~BoxedAt(frames, i),
         \/ w.trackers = s.trackers /\ (IsKeyframe(i - 1) \/ NoneBoxed(s, frames, i - 1))
         \/ w.trackers = Predicted(s.trackers, {}) /\ ~IsKeyframe(i - 1)
  PROVE  Followed(w, frames, answers, i)
<1>1. \A l \in Int : \A j \in Int : j \in l..i => j \in l..i - 1 \/ j = i
  OBVIOUS
<1>2. CASE NoneBoxed(s, frames, i - 1)
  <2>1. DOMAIN w.trackers = {}
    <3>1. DOMAIN s.trackers = {}
      BY <1>2 DEF NoneBoxed
    <3>2. w.trackers = s.trackers \/ DOMAIN w.trackers = DOMAIN s.trackers
      BY PredictedIs
    <3>. QED
      BY <3>1, <3>2
  <2>2. \A j \in 1..i : ~BoxedAt(frames, j)
    BY <1>1, <1>2 DEF NoneBoxed
  <2>. QED
    BY <2>1, <2>2 DEF NoneBoxed, Followed
<1>3. ASSUME NEW l \in 1..i - 1, LastBoxed(s, frames, answers, l, i - 1)
      PROVE  Followed(w, frames, answers, i)
  <2>1. BoxedAt(frames, l) /\ l \in 1..i /\ l \in Nat /\ i - 1 \in Nat /\ l <= i /\ l < i /\ l <= i - 1
    BY <1>3 DEF LastBoxed
  <2>2. \A j \in l + 1..i : ~BoxedAt(frames, j)
    <3>1. l + 1 \in Int /\ \A j \in l + 1..i - 1 : ~BoxedAt(frames, j)
      BY <1>3 DEF LastBoxed
    <3>. QED
      BY <1>1, <3>1
  <2>. DEFINE old == SinceThen(l, i - 1)
              new == SinceThen(l, i)
  <2>3. new = old + IF IsKeyframe(i - 1) THEN 0 ELSE 1
    BY <2>1, SinceIs
  <2>4. old \in Nat
    BY <2>1, SinceIs
  <2>5. /\ \A t \in DOMAIN s.trackers : s.trackers[t] >= old /\ s.trackers[t] \in Nat
        /\ \A t \in answers[l].shown : t \in DOMAIN s.trackers /\ s.trackers[t] = old
    BY <1>3, AnyTrackersAre DEF LastBoxed
  <2>6. ~NoneBoxed(s, frames, i - 1)
    BY <1>3, <2>1 DEF NoneBoxed
  <2>. HIDE DEF old, new
  <2>7. CASE w.trackers = s.trackers /\ IsKeyframe(i - 1)
    <3>1. new = old
      BY <2>3, <2>4, <2>7
    <3>. QED
      BY <2>1, <2>2, <2>5, <2>7, <3>1 DEF LastBoxed, Followed, new
  <2>8. CASE w.trackers = Predicted(s.trackers, {}) /\ ~IsKeyframe(i - 1)
    <3>1. new = old + 1
      BY <2>3, <2>8
    <3>2. DOMAIN w.trackers = DOMAIN s.trackers /\ \A t \in DOMAIN s.trackers : w.trackers[t] = s.trackers[t] + 1
      BY <2>8, PredictedStays
    <3>3. \A t \in DOMAIN w.trackers : w.trackers[t] >= new
      BY <2>4, <2>5, <3>1, <3>2
    <3>4. \A t \in answers[l].shown : t \in DOMAIN w.trackers /\ w.trackers[t] = new
      BY <2>5, <3>1, <3>2
    <3>5. LastBoxed(w, frames, answers, l, i)
      BY <2>1, <2>2, <3>3, <3>4 DEF LastBoxed, new
    <3>. QED
      BY <2>1, <3>5 DEF Followed
  <2>. QED
    BY <2>6, <2>7, <2>8
<1>. QED
  BY <1>2, <1>3 DEF Followed

LEMMA FollowedIs ==
  ASSUME NEW f, NEW frames, NEW answers, NEW n, Streamed(f, frames, answers, n), NEW i \in 0..n
  PROVE  Followed(f[i], frames, answers, i)
<1>. DEFINE good == {k \in 0..n : Followed(f[k], frames, answers, k)}
<1>1. n \in Nat /\ f[0] = NewStream /\ \A k \in 0..n : f[k] \in Streams /\ f[k].index = k
  BY DEF Streamed
<1>2. 0 \in good
  <2>1. NoneBoxed(f[0], frames, 0)
    BY <1>1, NewStreamIs DEF NoneBoxed
  <2>. QED
    BY <1>1, <2>1 DEF Followed
<1>3. ASSUME NEW k \in 1..n, k - 1 \in good PROVE k \in good
  <2>1. Processed(f[k - 1], frames[k], f[k], answers[k]) /\ frames[k] \in AnyFrame
    BY DEF Streamed
  <2>2. /\ k \in 0..n /\ k - 1 \in 0..n /\ k \in Nat \ {0} /\ k \in 1..k /\ f[k - 1].index = k - 1
        /\ f[k - 1].trackers \in AnyTrackers /\ f[k].trackers \in AnyTrackers
        /\ f[k - 1].framed \in BOOLEAN /\ frames[k].fails \in BOOLEAN
    BY <1>1, <2>1 DEF Streams, AnyFrame
  <2>3. Followed(f[k - 1], frames, answers, k - 1)
    BY <1>3
  <2>4. CASE BoxedAt(frames, k)
    <3>1. FollowsBoxes(f[k - 1], frames[k], f[k], answers[k].shown)
      BY <2>1, <2>2, <2>4 DEF Processed, BoxedAt, FineAt
    <3>2. SinceThen(k, k) = 0
      BY <2>2, SinceIs
    <3>3. \A j \in k + 1..k : ~BoxedAt(frames, j)
      BY <2>2
    <3>4. \A t \in DOMAIN f[k].trackers : f[k].trackers[t] >= 0
      BY <2>2, AnyTrackersAre
    <3>5. LastBoxed(f[k], frames, answers, k, k)
      BY <2>4, <3>1, <3>2, <3>3, <3>4 DEF LastBoxed, FollowsBoxes
    <3>. QED
      BY <2>2, <3>5 DEF Followed
  <2>5. CASE ~BoxedAt(frames, k)
    <3>1. \/ f[k].trackers = f[k - 1].trackers /\ (IsKeyframe(k - 1) \/ NoneBoxed(f[k - 1], frames, k - 1))
          \/ f[k].trackers = Predicted(f[k - 1].trackers, {}) /\ ~IsKeyframe(k - 1)
      <4>1. CASE IsKeyframe(k - 1)
        <5>1. frames[k].fails \/ frames[k].boxes = <<>>
          BY <2>5, <4>1 DEF BoxedAt, FineAt
        <5>. QED
          BY <2>1, <2>2, <4>1, <5>1 DEF Processed
      <4>2. CASE ~IsKeyframe(k - 1) /\ f[k - 1].framed
        BY <2>1, <2>2, <4>2 DEF Processed
      <4>3. CASE ~IsKeyframe(k - 1) /\ ~f[k - 1].framed
        <5>1. f[k].trackers = f[k - 1].trackers
          BY <2>1, <2>2, <4>3 DEF Processed
        <5>2. \A j \in 1..k - 1 : ~FineAt(frames, j)
          BY <2>2, <4>3, FramedIs
        <5>3. NoneBoxed(f[k - 1], frames, k - 1)
          BY <2>3, <5>2 DEF Followed, LastBoxed, BoxedAt
        <5>. QED
          BY <5>1, <5>3
      <4>. QED
        BY <4>1, <4>2, <4>3
    <3>2. Followed(f[k], frames, answers, k)
      BY <2>2, <2>3, <2>5, <3>1, FollowedOn
    <3>. QED
      BY <2>2, <3>2
  <2>. QED
    BY <2>4, <2>5
<1>4. 0..n \subseteq good
  <2>. HIDE DEF good
  <2>. QED
    BY <1>1, <1>2, <1>3, UpTo
<1>. QED
  BY <1>4

\* What is shown on a frame between keyframes.
ShownBetween(frames, answers, i) ==
  LET recent == {j \in 1..i - 1 : BoxedAt(frames, j) /\ SinceThen(j, i) <= MaxAge}
  IN  IF recent = {} THEN answers[i].shown = {} ELSE answers[Max(recent)].shown \subseteq answers[i].shown

LEMMA ShownBetweenIs ==
  ASSUME NEW f, NEW frames, NEW answers, NEW n, Streamed(f, frames, answers, n),
         NEW i \in 1..n, ~IsKeyframe(i - 1)
  PROVE  ShownBetween(frames, answers, i)
<1>. DEFINE recent == {j \in 1..i - 1 : BoxedAt(frames, j) /\ SinceThen(j, i) <= MaxAge}
            w == f[i]
<1>1. /\ Processed(f[i - 1], frames[i], w, answers[i]) /\ n \in Nat
      /\ f[i - 1].index = i - 1 /\ w.trackers \in AnyTrackers /\ f[i - 1].framed \in BOOLEAN
  <2>1. i - 1 \in 0..n /\ i \in 0..n /\ n \in Nat
    BY DEF Streamed
  <2>. QED
    BY <2>1 DEF Streamed, Streams
<1>2. i \in Nat /\ i - 1 \in Nat /\ i \in 0..n /\ i - 1 \in 0..n
  BY <1>1
<1>3. Followed(w, frames, answers, i)
  BY <1>2, FollowedIs
<1>4. \A j \in 1..i : BoxedAt(frames, j) => j \in 1..i - 1
  BY DEF BoxedAt, FineAt
<1>5. MaxAge \in Nat
  BY TrackerAssumption
<1>6. CASE ~f[i - 1].framed
  <2>1. \A j \in 1..i - 1 : ~FineAt(frames, j)
    BY <1>2, <1>6, FramedIs
  <2>2. recent = {}
    BY <2>1 DEF BoxedAt
  <2>3. answers[i].shown = {}
    BY <1>1, <1>6 DEF Processed
  <2>. QED
    BY <2>2, <2>3 DEF ShownBetween
<1>7. CASE f[i - 1].framed
  <2>1. answers[i].shown = Shown(w.trackers)
    BY <1>1, <1>7 DEF Processed
  <2>2. \A t : t \in answers[i].shown <=> t \in DOMAIN w.trackers /\ w.trackers[t] <= MaxAge
    BY <2>1 DEF Shown
  <2>3. \A t \in DOMAIN w.trackers : w.trackers[t] \in Nat
    BY <1>1, AnyTrackersAre
  <2>. HIDE DEF w
  <2>4. CASE NoneBoxed(w, frames, i)
    <3>1. recent = {}
      BY <1>2, <2>4 DEF NoneBoxed
    <3>2. answers[i].shown = {}
      BY <2>2, <2>4 DEF NoneBoxed
    <3>. QED
      BY <3>1, <3>2 DEF ShownBetween
  <2>5. ASSUME NEW l \in 1..i, LastBoxed(w, frames, answers, l, i) PROVE ShownBetween(frames, answers, i)
    <3>1. /\ BoxedAt(frames, l) /\ \A j \in l + 1..i : ~BoxedAt(frames, j)
          /\ \A t \in DOMAIN w.trackers : w.trackers[t] >= SinceThen(l, i)
          /\ \A t \in answers[l].shown : t \in DOMAIN w.trackers /\ w.trackers[t] = SinceThen(l, i)
      BY <2>5 DEF LastBoxed
    <3>2. l \in 1..i - 1 /\ l \in Nat /\ l <= i
      BY <1>4, <3>1
    <3>3. SinceThen(l, i) \in Nat
      BY <1>2, <3>2, SinceIs
    <3>4. ASSUME NEW j \in 1..i - 1, BoxedAt(frames, j)
          PROVE  j \in Nat /\ j <= l /\ SinceThen(j, i) \in Nat /\ SinceThen(l, i) <= SinceThen(j, i)
      <4>1. j \in Nat /\ j <= i
        BY <1>2
      <4>2. j <= l
        <5>1. j \in l + 1..i \/ j <= l
          BY <1>2, <3>2
        <5>. QED
          BY <3>1, <3>4, <5>1
      <4>3. l \in j..i /\ j \in j..i
        BY <3>2, <4>1, <4>2
      <4>. QED
        BY <1>2, <4>1, <4>2, <4>3, SinceIs
    <3>5. CASE SinceThen(l, i) <= MaxAge
      <4>1. l \in recent /\ recent \in SUBSET (0..i) /\ \A j \in recent : j <= l
        BY <3>1, <3>2, <3>4, <3>5
      <4>. HIDE DEF recent
      <4>2. Max(recent) = l /\ recent # {}
        BY <1>2, <4>1, GreatestIs
      <4>3. answers[l].shown \subseteq answers[i].shown
        BY <2>2, <3>1, <3>5
      <4>. QED
        BY <4>2, <4>3 DEF ShownBetween, recent
    <3>6. CASE ~(SinceThen(l, i) <= MaxAge)
      <4>1. recent = {}
        <5>1. ASSUME NEW j \in 1..i - 1, BoxedAt(frames, j), SinceThen(j, i) <= MaxAge PROVE FALSE
          BY <1>5, <3>3, <3>4, <3>6, <5>1
        <5>. QED
          BY <5>1
      <4>2. \A t \in DOMAIN w.trackers : ~(w.trackers[t] <= MaxAge)
        BY <1>5, <2>3, <3>1, <3>3, <3>6
      <4>3. answers[i].shown = {}
        BY <2>2, <4>2
      <4>. QED
        BY <4>1, <4>3 DEF ShownBetween
    <3>. QED
      BY <3>5, <3>6
  <2>. QED
    BY <1>3, <2>4, <2>5 DEF Followed, w
<1>. QED
  BY <1>1, <1>6, <1>7

\* What is shown on a good keyframe.
LEMMA ShownOnKeyframe ==
  ASSUME NEW f, NEW frames, NEW answers, NEW n, Streamed(f, frames, answers, n),
         NEW i \in 1..n, FineAt(frames, i)
  PROVE  /\ Cardinality(answers[i].shown) = Len(frames[i].boxes)
         /\ \A j \in 1..i - 1 : \A t \in answers[i].shown \cap answers[j].shown :
              \E d \in DOMAIN frames[i].boxes : t \in frames[i].boxes[d]
<1>1. /\ Processed(f[i - 1], frames[i], f[i], answers[i]) /\ f[i - 1].index = i - 1 /\ i - 1 \in 0..n
      /\ IsKeyframe(i - 1) /\ ~frames[i].fails
  <2>1. i - 1 \in 0..n
    BY DEF Streamed
  <2>. QED
    BY <2>1 DEF Streamed, FineAt
<1>2. CASE frames[i].boxes = <<>>
  <2>1. answers[i].shown = {}
    BY <1>1, <1>2 DEF Processed
  <2>. QED
    BY <1>2, <2>1, FS_EmptySet
<1>3. CASE frames[i].boxes # <<>>
  <2>1. FollowsBoxes(f[i - 1], frames[i], f[i], answers[i].shown)
    BY <1>1, <1>3 DEF Processed
  <2>2. ASSUME NEW j \in 1..i - 1, NEW t \in answers[i].shown \cap answers[j].shown
        PROVE  \E d \in DOMAIN frames[i].boxes : t \in frames[i].boxes[d]
    <3>1. t < f[i - 1].nextId
      BY <1>1, IdsGrow
    <3>. QED
      BY <2>1, <3>1 DEF FollowsBoxes
  <2>. QED
    BY <2>1, <2>2 DEF FollowsBoxes
<1>. QED
  BY <1>2, <1>3

\* Any frames, whether the detector fails on them or not and wherever the boxes
\* are: the stream answers as StreamIsShown says (process_detections).
THEOREM StreamTheorem ==
  ASSUME NEW frames \in Seq(AnyFrame)
  PROVE  StreamIsShown(frames)
<1>. DEFINE answers == Stream(frames).answers
            n == Len(frames)
            Fine(i) == IsKeyframe(i - 1) /\ ~frames[i].fails
<1>1. PICK f : Streamed(f, frames, answers, n)
  BY StreamIs
<1>2. n \in Nat /\ DOMAIN frames = 1..n
  OBVIOUS
<1>. HIDE DEF answers, n
<1>3. Len(answers) = n
  BY <1>1 DEF Streamed
<1>4. \A j : FineAt(frames, j) <=> Fine(j)
  BY DEF FineAt
<1>. HIDE DEF Fine
<1>5. ASSUME NEW i \in 1..n
      PROVE  answers[i].ok <=> IF IsKeyframe(i - 1) THEN Fine(i) ELSE \E j \in 1..i - 1 : Fine(j)
  <2>1. /\ Processed(f[i - 1], frames[i], f[i], answers[i]) /\ f[i - 1].index = i - 1 /\ i - 1 \in 0..n
        /\ f[i - 1].framed \in BOOLEAN
    <3>1. i - 1 \in 0..n
      BY <1>2
    <3>. QED
      BY <1>1, <3>1 DEF Streamed, Streams
  <2>2. f[i - 1].framed <=> \E j \in 1..i - 1 : FineAt(frames, j)
    BY <1>1, <2>1, FramedIs
  <2>3. CASE IsKeyframe(i - 1)
    <3>1. answers[i].ok <=> ~frames[i].fails
      BY <2>1, <2>3 DEF Processed
    <3>. QED
      BY <2>3, <3>1 DEF Fine
  <2>4. CASE ~IsKeyframe(i - 1)
    <3>1. answers[i].ok <=> f[i - 1].framed
      BY <2>1, <2>4 DEF Processed
    <3>. QED
      BY <1>4, <2>2, <2>4, <3>1
  <2>. QED
    BY <2>3, <2>4
<1>6. ASSUME NEW i \in 1..n, Fine(i)
      PROVE  /\ Cardinality(answers[i].shown) = Len(frames[i].boxes)
             /\ \A j \in 1..i - 1 : \A t \in answers[i].shown \cap answers[j].shown :
                  \E d \in DOMAIN frames[i].boxes : t \in frames[i].boxes[d]
  BY <1>1, <1>4, <1>6, ShownOnKeyframe
<1>. DEFINE Boxes(i) == {j \in 1..i - 1 : Fine(j) /\ frames[j].boxes # <<>>}
            Since(j, i) == Cardinality({k \in j + 1..i : ~IsKeyframe(k - 1)})
<1>7. ASSUME NEW i \in 1..n, ~IsKeyframe(i - 1)
      PROVE  LET recent == {j \in Boxes(i) : Since(j, i) <= MaxAge}
             IN  IF recent = {} THEN answers[i].shown = {}
                 ELSE answers[Max(recent)].shown \subseteq answers[i].shown
  <2>1. ShownBetween(frames, answers, i)
    BY <1>1, <1>7, ShownBetweenIs
  <2>2. \A j : Since(j, i) = SinceThen(j, i)
    BY DEF SinceThen
  <2>. HIDE DEF Since
  <2>3. {j \in Boxes(i) : Since(j, i) <= MaxAge} = {j \in 1..i - 1 : BoxedAt(frames, j) /\ SinceThen(j, i) <= MaxAge}
    BY <1>4, <2>2 DEF BoxedAt
  <2>. HIDE DEF Boxes
  <2>. QED
    BY <2>1, <2>3 DEF ShownBetween
<1>. QED
  BY <1>2, <1>3, <1>5, <1>6, <1>7 DEF StreamIsShown, answers, n, Fine

LEMMA TrackCalls == ASSUME TrackKeyframe PROVE call'[1] = "track" /\ KeyframeInput(call'[2])
<1>1. PICK n, k \in 0..2 : \E ages \in [1..n -> {0, MaxAge - 1, MaxAge} \cap Nat], lost \in SUBSET (1..n),
        iou \in [1..k -> [1..n -> Overlaps]] :
       call' = <<"track", [ages |-> ages, lost |-> lost, iou |-> iou]>>
  BY DEF TrackKeyframe
<1>2. PICK ages \in [1..n -> {0, MaxAge - 1, MaxAge} \cap Nat], lost \in SUBSET (1..n),
        iou \in [1..k -> [1..n -> Overlaps]] :
       call' = <<"track", [ages |-> ages, lost |-> lost, iou |-> iou]>>
  BY <1>1
<1>3. n \in Nat /\ k \in Nat
  OBVIOUS
<1>4. Overlaps \in SUBSET Int
  BY TrackerAssumption DEF Overlaps
<1>5. ages \in [1..n -> Nat] /\ iou \in [1..k -> [1..n -> Int]]
  BY <1>4
<1>6. call'[1] = "track" /\ call'[2].ages = ages /\ call'[2].iou = iou
  BY <1>2
<1>. QED
  BY <1>3, <1>5, <1>6 DEF KeyframeInput

LEMMA PicturesAreFrames == AnyPicture \subseteq AnyFrame
<1>. DEFINE Shelf == {<<>>, <<{}>>, <<Anywhere>>, <<{}, Anywhere>>}
<1>1. Anywhere \in SUBSET Int /\ {} \in SUBSET Int
  BY DEF Anywhere
<1>2. Shelf \subseteq Seq(SUBSET Int)
  BY <1>1
<1>3. {[fails |-> TRUE, boxes |-> <<>>]} \subseteq AnyFrame
  BY DEF AnyFrame
<1>. HIDE DEF Shelf
<1>4. [fails : {FALSE}, boxes : Shelf] \subseteq AnyFrame
  BY <1>2 DEF AnyFrame
<1>. QED
  BY <1>3, <1>4 DEF AnyPicture, Shelf

LEMMA StreamCalls == ASSUME StreamFrames PROVE call'[1] = "stream" /\ call'[2] \in Seq(AnyFrame)
<1>1. PICK n \in 1..MaxKeyframes * KeyInterval :
        \E keys \in [1..((n - 1) \div KeyInterval) + 1 -> AnyPicture] :
          call' = <<"stream", [i \in 1..n |-> keys[((i - 1) \div KeyInterval) + 1]]>>
  BY DEF StreamFrames
<1>2. PICK keys \in [1..((n - 1) \div KeyInterval) + 1 -> AnyPicture] :
        call' = <<"stream", [i \in 1..n |-> keys[((i - 1) \div KeyInterval) + 1]]>>
  BY <1>1
<1>3. n \in Nat /\ n - 1 \in Nat /\ KeyInterval \in Nat \ {0}
  BY TrackerAssumption
<1>4. ASSUME NEW i \in 1..n PROVE ((i - 1) \div KeyInterval) + 1 \in 1..((n - 1) \div KeyInterval) + 1
  <2>1. i - 1 \in Nat /\ i - 1 <= n - 1
    BY <1>3
  <2>. DEFINE q == (i - 1) \div KeyInterval
              d == (n - 1) \div KeyInterval
  <2>2. q \in Nat /\ q <= q
    <3>1. q \in Nat
      BY <1>3, <2>1, Quotient
    <3>. HIDE DEF q
    <3>. QED
      BY <3>1
  <2>3. KeyInterval * q <= i - 1
    BY <1>3, <2>1, <2>2, QuotientIs
  <2>4. d \in Nat
    BY <1>3, Quotient
  <2>5. KeyInterval * q \in Int /\ KeyInterval * q <= n - 1
    <3>. HIDE DEF q
    <3>. QED
      BY <1>3, <2>1, <2>2, <2>3
  <2>6. q <= d <=> KeyInterval * q <= n - 1
    <3>. HIDE DEF q
    <3>. QED
      BY <1>3, <2>2, QuotientIs
  <2>. HIDE DEF q, d
  <2>7. q + 1 \in 1..d + 1
    BY <2>2, <2>4, <2>5, <2>6
  <2>. QED
    BY <2>7 DEF q, d
<1>. DEFINE frames == [i \in 1..n |-> keys[((i - 1) \div KeyInterval) + 1]]
<1>5. \A i \in 1..n : frames[i] \in AnyFrame
  BY <1>4, PicturesAreFrames
<1>6. DOMAIN frames = 1..n /\ frames = [i \in 1..n |-> frames[i]]
  OBVIOUS
<1>7. call'[1] = "stream" /\ call'[2] = frames
  BY <1>2
<1>. HIDE DEF frames
<1>8. frames \in [1..n -> AnyFrame]
  BY <1>5, <1>6
<1>9. frames \in Seq(AnyFrame)
  BY <1>3, <1>8
<1>. QED
  BY <1>7, <1>9

-----------------------------------------------------------------------------
(* The alignment of a row *)

\* The pairs of places that show the same.
Common(a, b) == {p \in (DOMAIN a) \X (DOMAIN b) : a[p[1]] = b[p[2]]}

\* What both rows show, they show once and in the same order.
SameOrder(a, b) == \A p, q \in Common(a, b) : p[1] < q[1] <=> p[2] < q[2]

Windows(a, b) == (1..Len(a) + 1) \X (0..Len(a)) \X (1..Len(b) + 1) \X (0..Len(b))

InWindow(a, b, q) == {p \in Common(a, b) : p[1] \in q[1]..q[2] /\ p[2] \in q[3]..q[4]}

Longest(found) == CHOOSE k \in found : \A m \in found : BetterBlock(k, m)

LeftWindow(q, k) == <<q[1], k[1] - 1, q[3], k[2] - 1>>

RightWindow(q, k) == <<k[1] + k[3], q[2], k[2] + k[3], q[4]>>

Diagonal(k) == {<<k[1] + n, k[2] + n>> : n \in 0..(k[3] - 1)}

Split(a, b, f, q) ==
  LET found == Blocks(a, q[1], q[2], b, q[3], q[4])
  IN  IF found = {} THEN {}
      ELSE Diagonal(Longest(found)) \cup f[LeftWindow(q, Longest(found))] \cup f[RightWindow(q, Longest(found))]

LEMMA AlignedSplits ==
  ASSUME NEW a, NEW b
  PROVE  Aligned(a, b) = (CHOOSE f : f = [q \in Windows(a, b) |-> Split(a, b, f, q)])[<<1, Len(a), 1, Len(b)>>]
  BY DEF Aligned, Split, Windows, Longest, LeftWindow, RightWindow, Diagonal

\* Of finitely many blocks one is at least as good as all.
LEMMA LongestExists ==
  ASSUME NEW n \in Nat, NEW m \in Nat, NEW found \in SUBSET ((0..n) \X (0..m) \X (0..n)), found # {}
  PROVE  Longest(found) \in found
<1>. DEFINE sizes == {k[3] : k \in found}
            large == {k \in found : k[3] = Max(sizes)}
            firsts == {k[1] : k \in large}
            early == {k \in large : k[1] = Min(firsts)}
            seconds == {k[2] : k \in early}
<1>1. \A k \in found : k[1] \in 0..n /\ k[2] \in 0..m /\ k[3] \in 0..n
  OBVIOUS
<1>2. Max(sizes) \in sizes /\ \A s \in sizes : s <= Max(sizes)
  <2>1. sizes \in SUBSET (0..n) /\ sizes # {}
    BY <1>1
  <2>. HIDE DEF sizes
  <2>. QED
    BY <2>1, GreatestMember
<1>3. Min(firsts) \in firsts /\ \A s \in firsts : Min(firsts) <= s
  <2>1. firsts \in SUBSET Nat /\ firsts # {}
    <3>1. large # {} /\ large \in SUBSET found
      BY <1>2
    <3>. HIDE DEF large
    <3>. QED
      BY <1>1, <3>1
  <2>. HIDE DEF firsts
  <2>. QED
    BY <2>1, LeastMember
<1>4. Min(seconds) \in seconds /\ \A s \in seconds : Min(seconds) <= s
  <2>1. seconds \in SUBSET Nat /\ seconds # {}
    <3>1. early # {} /\ early \in SUBSET found
      BY <1>3
    <3>. HIDE DEF early
    <3>. QED
      BY <1>1, <3>1
  <2>. HIDE DEF seconds
  <2>. QED
    BY <2>1, LeastMember
<1>5. PICK k \in early : k[2] = Min(seconds)
  BY <1>4
<1>6. ASSUME NEW m1 \in found PROVE BetterBlock(k, m1)
  <2>1. k[3] = Max(sizes) /\ k[1] = Min(firsts) /\ k \in found
    BY <1>5
  <2>2. m1[3] <= k[3]
    BY <1>2, <2>1
  <2>3. m1[3] = k[3] => k[1] <= m1[1]
    BY <1>3, <2>1
  <2>4. m1[3] = k[3] /\ m1[1] = k[1] => k[2] <= m1[2]
    BY <1>4, <1>5, <2>1
  <2>. HIDE DEF sizes, large, firsts, early, seconds
  <2>. QED
    BY <1>1, <2>1, <2>2, <2>3, <2>4 DEF BetterBlock
<1>7. k \in found
  BY <1>5
<1>. QED
  BY <1>6, <1>7 DEF Longest

\* A block in a window of two rows of n and m, and the places around it.
Fits(n, m, q, k) ==
  /\ q[1] \in 1..n + 1 /\ q[2] \in 0..n /\ q[3] \in 1..m + 1 /\ q[4] \in 0..m
  /\ k[1] \in q[1]..q[2] /\ k[2] \in q[3]..q[4] /\ k[3] \in 1..n
  /\ k[1] + k[3] - 1 <= q[2] /\ k[2] + k[3] - 1 <= q[4]

Around(n, m, q, k) ==
  /\ k[1] - 1 \in 0..n /\ k[2] - 1 \in 0..m /\ k[1] + k[3] \in 1..n + 1 /\ k[2] + k[3] \in 1..m + 1
  /\ (k[1] - 1) - q[1] < q[2] - q[1] /\ q[2] - (k[1] + k[3]) < q[2] - q[1] /\ q[1] <= q[2]
  /\ 0 \in 0..(k[3] - 1) /\ k[3] - 1 \in 0..(k[3] - 1) /\ k[1] + 0 = k[1] /\ k[2] + 0 = k[2]
  /\ \A i \in 0..(k[3] - 1) : /\ k[1] + i \in 1..n /\ k[2] + i \in 1..m
                             /\ k[1] + i \in q[1]..q[2] /\ k[2] + i \in q[3]..q[4]
  /\ q[1]..(k[1] - 1) \subseteq q[1]..q[2] /\ q[3]..(k[2] - 1) \subseteq q[3]..q[4]
  /\ (k[1] + k[3])..q[2] \subseteq q[1]..q[2] /\ (k[2] + k[3])..q[4] \subseteq q[3]..q[4]
  /\ \A x \in q[1]..q[2] : \/ (x < k[1] /\ x \in q[1]..(k[1] - 1))
                          \/ (k[1] + (k[3] - 1) < x /\ x \in (k[1] + k[3])..q[2])
                          \/ (x - k[1] \in 0..(k[3] - 1) /\ k[1] + (x - k[1]) = x)
  /\ \A y \in q[3]..q[4] : /\ y < k[2] => y \in q[3]..(k[2] - 1)
                          /\ k[2] + (k[3] - 1) < y => y \in (k[2] + k[3])..q[4]

LEMMA BlockFits ==
  ASSUME NEW n \in Nat, NEW m \in Nat, NEW q, NEW k, Fits(n, m, q, k)
  PROVE  Around(n, m, q, k)
<1>. DEFINE w1 == q[1]
            w2 == q[2]
            w3 == q[3]
            w4 == q[4]
            k1 == k[1]
            k2 == k[2]
            k3 == k[3]
<1>1. /\ w1 \in 1..n + 1 /\ w2 \in 0..n /\ w3 \in 1..m + 1 /\ w4 \in 0..m
      /\ k1 \in w1..w2 /\ k2 \in w3..w4 /\ k3 \in 1..n /\ k1 + k3 - 1 <= w2 /\ k2 + k3 - 1 <= w4
  BY DEF Fits
<1>. HIDE DEF w1, w2, w3, w4, k1, k2, k3
<1>2. /\ w1 \in Int /\ w2 \in Int /\ w3 \in Int /\ w4 \in Int /\ k1 \in Int /\ k2 \in Int /\ k3 \in Int
      /\ 1 <= w1 /\ w2 <= n /\ 1 <= w3 /\ w4 <= m /\ w1 <= k1 /\ k1 <= w2 /\ w3 <= k2 /\ k2 <= w4
      /\ 1 <= k3 /\ k1 + k3 - 1 <= w2 /\ k2 + k3 - 1 <= w4
  BY <1>1
<1>3. k1 - 1 \in 0..n /\ k2 - 1 \in 0..m /\ k1 + k3 \in 1..n + 1 /\ k2 + k3 \in 1..m + 1
  BY <1>2
<1>4. (k1 - 1) - w1 < w2 - w1 /\ w2 - (k1 + k3) < w2 - w1 /\ w1 <= w2
  BY <1>2
<1>5. 0 \in 0..(k3 - 1) /\ k3 - 1 \in 0..(k3 - 1) /\ k1 + 0 = k1 /\ k2 + 0 = k2
  BY <1>2
<1>6. \A i \in 0..(k3 - 1) : k1 + i \in 1..n /\ k2 + i \in 1..m /\ k1 + i \in w1..w2 /\ k2 + i \in w3..w4
  BY <1>2
<1>7. /\ w1..(k1 - 1) \subseteq w1..w2 /\ w3..(k2 - 1) \subseteq w3..w4
      /\ (k1 + k3)..w2 \subseteq w1..w2 /\ (k2 + k3)..w4 \subseteq w3..w4
  BY <1>2
<1>8. \A x \in w1..w2 : \/ (x < k1 /\ x \in w1..(k1 - 1))
                       \/ (k1 + (k3 - 1) < x /\ x \in (k1 + k3)..w2)
                       \/ (x - k1 \in 0..(k3 - 1) /\ k1 + (x - k1) = x)
  BY <1>2
<1>9. \A y \in w3..w4 : (y < k2 => y \in w3..(k2 - 1)) /\ (k2 + (k3 - 1) < y => y \in (k2 + k3)..w4)
  BY <1>2
<1>. QED
  BY <1>3, <1>4, <1>5, <1>6, <1>7, <1>8, <1>9 DEF Around, w1, w2, w3, w4, k1, k2, k3

\* The parts of a window beside a block have been matched.
Beside(a, b, f, q) ==
  \A k \in Blocks(a, q[1], q[2], b, q[3], q[4]) :
    /\ f[LeftWindow(q, k)] = InWindow(a, b, LeftWindow(q, k))
    /\ f[RightWindow(q, k)] = InWindow(a, b, RightWindow(q, k))

\* One step: a window whose parts beside the best block have been matched.
LEMMA SplitIs ==
  ASSUME NEW T, NEW a \in Seq(T), NEW b \in Seq(T), SameOrder(a, b), NEW q \in Windows(a, b), NEW f,
         Beside(a, b, f, q)
  PROVE  Split(a, b, f, q) = InWindow(a, b, q)
<1>. DEFINE found == Blocks(a, q[1], q[2], b, q[3], q[4])
            k == Longest(found)
<1>1. /\ Len(a) \in Nat /\ Len(b) \in Nat /\ DOMAIN a = 1..Len(a) /\ DOMAIN b = 1..Len(b)
      /\ q[1] \in 1..Len(a) + 1 /\ q[2] \in 0..Len(a) /\ q[3] \in 1..Len(b) + 1 /\ q[4] \in 0..Len(b)
  BY DEF Windows
<1>2. ASSUME NEW p \in InWindow(a, b, q) PROVE <<p[1], p[2], 1>> \in found
  <2>1. /\ p[1] \in q[1]..q[2] /\ p[2] \in q[3]..q[4] /\ p[1] \in Int /\ p[2] \in Int
        /\ a[p[1]] = b[p[2]]
    BY DEF InWindow, Common
  <2>2. 1 \in 1..Len(a)
    BY <1>1, <2>1
  <2>3. \A n \in 0..(1 - 1) : n = 0
    OBVIOUS
  <2>4. p[1] + 1 - 1 <= q[2] /\ p[2] + 1 - 1 <= q[4] /\ p[1] + 0 = p[1] /\ p[2] + 0 = p[2]
    BY <1>1, <2>1
  <2>5. <<p[1], p[2], 1>> \in (q[1]..q[2]) \X (q[3]..q[4]) \X (1..Len(a))
    BY <2>1, <2>2
  <2>. QED
    BY <2>1, <2>3, <2>4, <2>5 DEF Blocks
<1>3. CASE found = {}
  <2>1. InWindow(a, b, q) = {}
    BY <1>2, <1>3
  <2>. QED
    BY <1>3, <2>1 DEF Split
<1>4. CASE found # {}
  <2>1. \A c \in found : /\ c[1] \in q[1]..q[2] /\ c[2] \in q[3]..q[4] /\ c[3] \in 1..Len(a)
                         /\ c[1] + c[3] - 1 <= q[2] /\ c[2] + c[3] - 1 <= q[4]
                         /\ \A n \in 0..(c[3] - 1) : a[c[1] + n] = b[c[2] + n]
    BY DEF Blocks
  <2>2. k \in found
    <3>1. found \in SUBSET ((0..Len(a)) \X (0..Len(b)) \X (0..Len(a)))
      <4>1. found \in SUBSET ((q[1]..q[2]) \X (q[3]..q[4]) \X (1..Len(a)))
        BY DEF Blocks
      <4>2. q[1]..q[2] \subseteq 0..Len(a) /\ q[3]..q[4] \subseteq 0..Len(b) /\ 1..Len(a) \subseteq 0..Len(a)
        BY <1>1
      <4>. HIDE DEF found
      <4>. QED
        BY <4>1, <4>2
    <3>. HIDE DEF found
    <3>. QED
      BY <1>1, <1>4, <3>1, LongestExists
  <2>3. /\ k[1] \in q[1]..q[2] /\ k[2] \in q[3]..q[4] /\ k[3] \in 1..Len(a)
        /\ k[1] + k[3] - 1 <= q[2] /\ k[2] + k[3] - 1 <= q[4]
        /\ \A n \in 0..(k[3] - 1) : a[k[1] + n] = b[k[2] + n]
    <3>. HIDE DEF found, k
    <3>. QED
      BY <2>1, <2>2
  <2>4. Split(a, b, f, q) = Diagonal(k) \cup InWindow(a, b, LeftWindow(q, k)) \cup InWindow(a, b, RightWindow(q, k))
    <3>1. Split(a, b, f, q) = Diagonal(k) \cup f[LeftWindow(q, k)] \cup f[RightWindow(q, k)]
      BY <1>4 DEF Split
    <3>. HIDE DEF k, found
    <3>2. k \in Blocks(a, q[1], q[2], b, q[3], q[4])
      BY <2>2 DEF found
    <3>. QED
      BY <3>1, <3>2 DEF Beside
  <2>. HIDE DEF k, found
  <2>. DEFINE k1 == k[1]
              k2 == k[2]
              k3 == k[3]
  <2>f. /\ 0 \in 0..(k3 - 1) /\ k3 - 1 \in 0..(k3 - 1) /\ k1 + 0 = k1 /\ k2 + 0 = k2
        /\ \A i \in 0..(k3 - 1) : k1 + i \in 1..Len(a) /\ k2 + i \in 1..Len(b) /\ k1 + i \in q[1]..q[2] /\ k2 + i \in q[3]..q[4]
        /\ q[1]..(k1 - 1) \subseteq q[1]..q[2] /\ q[3]..(k2 - 1) \subseteq q[3]..q[4]
        /\ (k1 + k3)..q[2] \subseteq q[1]..q[2] /\ (k2 + k3)..q[4] \subseteq q[3]..q[4]
        /\ \A x \in q[1]..q[2] : \/ (x < k1 /\ x \in q[1]..(k1 - 1))
                                \/ (k1 + (k3 - 1) < x /\ x \in (k1 + k3)..q[2])
                                \/ (x - k1 \in 0..(k3 - 1) /\ k1 + (x - k1) = x)
        /\ \A y \in q[3]..q[4] : /\ y < k2 => y \in q[3]..(k2 - 1)
                                /\ k2 + (k3 - 1) < y => y \in (k2 + k3)..q[4]
    <3>1. Fits(Len(a), Len(b), q, k)
      BY <1>1, <2>3 DEF Fits
    <3>2. Around(Len(a), Len(b), q, k)
      BY <1>1, <3>1, BlockFits
    <3>. QED
      BY <3>2 DEF Around
  <2>g. \A n \in 0..(k3 - 1) : a[k1 + n] = b[k2 + n]
    BY <2>3
  <2>h. LeftWindow(q, k) = <<q[1], k1 - 1, q[3], k2 - 1>> /\ RightWindow(q, k) = <<k1 + k3, q[2], k2 + k3, q[4]>>
    BY DEF LeftWindow, RightWindow
  <2>i. Diagonal(k) = {<<k1 + n, k2 + n>> : n \in 0..(k3 - 1)}
    BY DEF Diagonal
  <2>. HIDE DEF k1, k2, k3
  <2>5. \A n \in 0..(k3 - 1) : <<k1 + n, k2 + n>> \in InWindow(a, b, q)
    <3>. SUFFICES ASSUME NEW n \in 0..(k3 - 1) PROVE <<k1 + n, k2 + n>> \in InWindow(a, b, q)
      OBVIOUS
    <3>1. k1 + n \in 1..Len(a) /\ k2 + n \in 1..Len(b) /\ k1 + n \in q[1]..q[2] /\ k2 + n \in q[3]..q[4]
      BY <2>f
    <3>2. a[k1 + n] = b[k2 + n]
      BY <2>g
    <3>. QED
      BY <1>1, <3>1, <3>2 DEF InWindow, Common
  <2>6. InWindow(a, b, LeftWindow(q, k)) \subseteq InWindow(a, b, q)
    <3>. SUFFICES ASSUME NEW p \in InWindow(a, b, LeftWindow(q, k)) PROVE p \in InWindow(a, b, q)
      OBVIOUS
    <3>1. p \in Common(a, b) /\ p[1] \in q[1]..(k1 - 1) /\ p[2] \in q[3]..(k2 - 1)
      BY <2>h DEF InWindow
    <3>2. p[1] \in q[1]..q[2] /\ p[2] \in q[3]..q[4]
      BY <2>f, <3>1
    <3>. QED
      BY <3>1, <3>2 DEF InWindow
  <2>7. InWindow(a, b, RightWindow(q, k)) \subseteq InWindow(a, b, q)
    <3>. SUFFICES ASSUME NEW p \in InWindow(a, b, RightWindow(q, k)) PROVE p \in InWindow(a, b, q)
      OBVIOUS
    <3>1. p \in Common(a, b) /\ p[1] \in (k1 + k3)..q[2] /\ p[2] \in (k2 + k3)..q[4]
      BY <2>h DEF InWindow
    <3>2. p[1] \in q[1]..q[2] /\ p[2] \in q[3]..q[4]
      BY <2>f, <3>1
    <3>. QED
      BY <3>1, <3>2 DEF InWindow
  <2>8. ASSUME NEW p \in InWindow(a, b, q)
        PROVE  \/ p \in Diagonal(k) \/ p \in InWindow(a, b, LeftWindow(q, k)) \/ p \in InWindow(a, b, RightWindow(q, k))
    <3>1. p \in Common(a, b) /\ p[1] \in q[1]..q[2] /\ p[2] \in q[3]..q[4]
      BY DEF InWindow
    <3>2. CASE p[1] < k1 /\ p[1] \in q[1]..(k1 - 1)
      <4>1. <<k1, k2>> \in Common(a, b)
        BY <2>5, <2>f DEF InWindow
      <4>2. p[2] < k2
        BY <3>1, <3>2, <4>1 DEF SameOrder
      <4>3. p[2] \in q[3]..(k2 - 1)
        BY <2>f, <3>1, <4>2
      <4>. QED
        BY <2>h, <3>1, <3>2, <4>3 DEF InWindow
    <3>3. CASE k1 + (k3 - 1) < p[1] /\ p[1] \in (k1 + k3)..q[2]
      <4>1. <<k1 + (k3 - 1), k2 + (k3 - 1)>> \in Common(a, b)
        BY <2>5, <2>f DEF InWindow
      <4>2. k2 + (k3 - 1) < p[2]
        BY <3>1, <3>3, <4>1 DEF SameOrder
      <4>3. p[2] \in (k2 + k3)..q[4]
        BY <2>f, <3>1, <4>2
      <4>. QED
        BY <2>h, <3>1, <3>3, <4>3 DEF InWindow
    <3>4. CASE p[1] - k1 \in 0..(k3 - 1) /\ k1 + (p[1] - k1) = p[1]
      <4>. DEFINE n == p[1] - k1
      <4>1. n \in 0..(k3 - 1) /\ k1 + n = p[1]
        BY <3>4
      <4>. HIDE DEF n
      <4>2. <<k1 + n, k2 + n>> \in Common(a, b)
        BY <4>1, <2>5 DEF InWindow
      <4>3. ~(k2 + n < p[2]) /\ ~(p[2] < k2 + n)
        <5>1. ~(p[1] < p[1])
          BY <1>1, <3>1
        <5>. QED
          BY <3>1, <4>1, <4>2, <5>1 DEF SameOrder
      <4>4. p = <<p[1], p[2]>> /\ p[2] \in Int
        BY <1>1, <3>1 DEF Common
      <4>5. k2 + n \in Int
        BY <2>f, <4>1
      <4>6. p[2] = k2 + n
        BY <4>3, <4>4, <4>5
      <4>. QED
        BY <2>i, <4>1, <4>4, <4>6
    <3>. QED
      BY <2>f, <3>1, <3>2, <3>3, <3>4
  <2>9. Diagonal(k) \subseteq InWindow(a, b, q)
    BY <2>5, <2>i
  <2>. QED
    BY <2>4, <2>6, <2>7, <2>8, <2>9
<1>. QED
  BY <1>3, <1>4

\* However much else they show: what two rows show once and in the same order is
\* what the alignment matches (SequenceMatcher.get_matching_blocks).
LEMMA AlignedIs ==
  ASSUME NEW T, NEW a \in Seq(T), NEW b \in Seq(T), SameOrder(a, b)
  PROVE  Aligned(a, b) = Common(a, b)
<1>. DEFINE W == Windows(a, b)
            Solves(f) == f = [q \in W |-> Split(a, b, f, q)]
            F == [q \in W |-> InWindow(a, b, q)]
            match == CHOOSE f : Solves(f)
<1>1. /\ Len(a) \in Nat /\ Len(b) \in Nat /\ DOMAIN a = 1..Len(a) /\ DOMAIN b = 1..Len(b)
      /\ W = (1..Len(a) + 1) \X (0..Len(a)) \X (1..Len(b) + 1) \X (0..Len(b))
  BY DEF Windows
<1>2. ASSUME NEW q \in W, NEW k \in Blocks(a, q[1], q[2], b, q[3], q[4])
      PROVE  /\ LeftWindow(q, k) \in W /\ RightWindow(q, k) \in W
             /\ LeftWindow(q, k)[2] - LeftWindow(q, k)[1] < q[2] - q[1]
             /\ RightWindow(q, k)[2] - RightWindow(q, k)[1] < q[2] - q[1]
             /\ q[1] <= q[2]
  <2>1. q[1] \in 1..Len(a) + 1 /\ q[2] \in 0..Len(a) /\ q[3] \in 1..Len(b) + 1 /\ q[4] \in 0..Len(b)
    BY <1>1
  <2>2. /\ k[1] \in q[1]..q[2] /\ k[2] \in q[3]..q[4] /\ k[3] \in 1..Len(a)
        /\ k[1] + k[3] - 1 <= q[2] /\ k[2] + k[3] - 1 <= q[4]
    BY DEF Blocks
  <2>3. /\ k[1] - 1 \in 0..Len(a) /\ k[2] - 1 \in 0..Len(b)
        /\ k[1] + k[3] \in 1..Len(a) + 1 /\ k[2] + k[3] \in 1..Len(b) + 1
        /\ (k[1] - 1) - q[1] < q[2] - q[1] /\ q[2] - (k[1] + k[3]) < q[2] - q[1] /\ q[1] <= q[2]
    <3>1. Fits(Len(a), Len(b), q, k)
      BY <2>1, <2>2 DEF Fits
    <3>2. Around(Len(a), Len(b), q, k)
      BY <1>1, <3>1, BlockFits
    <3>. QED
      BY <3>2 DEF Around
  <2>. HIDE DEF W
  <2>. QED
    BY <1>1, <2>1, <2>3 DEF LeftWindow, RightWindow
<1>3. Solves(F)
  <2>1. ASSUME NEW q \in W PROVE Split(a, b, F, q) = InWindow(a, b, q)
    <3>1. \A w \in W : F[w] = InWindow(a, b, w)
      OBVIOUS
    <3>2. q \in Windows(a, b)
      OBVIOUS
    <3>. HIDE DEF F, W
    <3>3. Beside(a, b, F, q)
      BY <1>2, <2>1, <3>1 DEF Beside
    <3>. QED
      BY <3>2, <3>3, SplitIs
  <2>. HIDE DEF W
  <2>. QED
    BY <2>1
<1>4. Solves(match)
  <2>. HIDE DEF Solves, F
  <2>. QED
    BY <1>3
<1>5. \A q \in W : match[q] = Split(a, b, match, q)
  <2>1. match = [q \in W |-> Split(a, b, match, q)]
    BY <1>4
  <2>. HIDE DEF match, W
  <2>. QED
    BY <2>1
<1>. HIDE DEF match
<1>6. ASSUME NEW n \in 0..Len(a) + 1
      PROVE  \A q \in W : q[2] - q[1] < n => match[q] = InWindow(a, b, q)
  <2>. DEFINE known == {s \in 0..Len(a) + 1 : \A q \in W : q[2] - q[1] < s => match[q] = InWindow(a, b, q)}
  <2>1. 0 \in known
    <3>1. ASSUME NEW q \in W, q[2] - q[1] < 0 PROVE match[q] = InWindow(a, b, q)
      <4>1. q[1] \in Int /\ q[2] \in Int /\ q \in Windows(a, b)
        BY <1>1
      <4>2. ~(q[1] <= q[2])
        BY <3>1, <4>1
      <4>2a. Beside(a, b, match, q)
        <5>. HIDE DEF W
        <5>. QED
          BY <1>2, <4>2 DEF Beside
      <4>3. Split(a, b, match, q) = InWindow(a, b, q)
        BY <4>1, <4>2a, SplitIs
      <4>. QED
        BY <1>5, <4>3
    <3>. HIDE DEF W
    <3>. QED
      BY <1>1, <3>1
  <2>2. ASSUME NEW s \in 1..Len(a) + 1, s - 1 \in known PROVE s \in known
    <3>1. ASSUME NEW q \in W, q[2] - q[1] < s PROVE match[q] = InWindow(a, b, q)
      <4>1. q[1] \in Int /\ q[2] \in Int /\ q \in Windows(a, b)
        BY <1>1
      <4>2. ASSUME NEW w \in W, w[2] - w[1] < q[2] - q[1] PROVE match[w] = InWindow(a, b, w)
        <5>1. w[1] \in Int /\ w[2] \in Int
          BY <1>1
        <5>2. w[2] - w[1] < s - 1
          BY <3>1, <4>1, <4>2, <5>1
        <5>. HIDE DEF W
        <5>. QED
          BY <2>2, <5>2
      <4>3. Split(a, b, match, q) = InWindow(a, b, q)
        <5>. HIDE DEF W, known
        <5>1. Beside(a, b, match, q)
          BY <1>2, <4>2 DEF Beside
        <5>. QED
          BY <4>1, <5>1, SplitIs
      <4>. QED
        BY <1>5, <4>3
    <3>. HIDE DEF W
    <3>. QED
      BY <1>1, <3>1
  <2>3. 0..Len(a) + 1 \subseteq known
    <3>1. Len(a) + 1 \in Nat
      BY <1>1
    <3>. HIDE DEF known
    <3>. QED
      BY <2>1, <2>2, <3>1, UpTo
  <2>. QED
    BY <2>3
<1>7. match[<<1, Len(a), 1, Len(b)>>] = InWindow(a, b, <<1, Len(a), 1, Len(b)>>)
  <2>1. <<1, Len(a), 1, Len(b)>> \in W /\ Len(a) - 1 < Len(a) + 1 /\ Len(a) + 1 \in 0..Len(a) + 1
    BY <1>1
  <2>. HIDE DEF W
  <2>. QED
    BY <1>6, <2>1
<1>8. InWindow(a, b, <<1, Len(a), 1, Len(b)>>) = Common(a, b)
  BY <1>1 DEF InWindow, Common
<1>9. Aligned(a, b) = match[<<1, Len(a), 1, Len(b)>>]
  BY AlignedSplits DEF match
<1>. QED
  BY <1>7, <1>8, <1>9

-----------------------------------------------------------------------------
(* The cells of a row *)

\* Two finite sets whose elements are paired have the same size.
LEMMA Paired ==
  ASSUME NEW A, NEW B, IsFiniteSet(A), NEW R,
         \A x \in A : \E y \in B : <<x, y>> \in R,
         \A y \in B : \E x \in A : <<x, y>> \in R,
         \A x, x2 \in A, y, y2 \in B : <<x, y>> \in R /\ <<x2, y2>> \in R => (x = x2 <=> y = y2)
  PROVE  Cardinality(A) = Cardinality(B)
<1>. DEFINE f == [x \in A |-> CHOOSE y \in B : <<x, y>> \in R]
<1>1. \A x \in A : f[x] \in B /\ <<x, f[x]>> \in R
  OBVIOUS
<1>2. f \in [A -> B]
  BY <1>1
<1>. HIDE DEF f
<1>3. ASSUME NEW x \in A, NEW x2 \in A, f[x] = f[x2] PROVE x = x2
  <2>1. f[x] \in B /\ <<x, f[x]>> \in R /\ <<x2, f[x]>> \in R
    BY <1>1, <1>3
  <2>. QED
    BY <2>1
<1>4. ASSUME NEW y \in B PROVE \E x \in A : f[x] = y
  <2>1. PICK x \in A : <<x, y>> \in R
    OBVIOUS
  <2>2. f[x] \in B /\ <<x, f[x]>> \in R
    BY <1>1
  <2>. QED
    BY <2>1, <2>2
<1>5. f \in Bijection(A, B)
  BY <1>2, <1>3, <1>4 DEF Bijection, Injection, Surjection, IsInjective
<1>6. ExistsBijection(A, B)
  BY <1>5 DEF ExistsBijection
<1>. QED
  BY <1>6, FS_Bijection

\* The matches of a row of n places with one of m boxes, and its two ends.
Chain(E, n, m) ==
  /\ \A p \in E : p[1] \in 0..n + 1 /\ p[2] \in 0..m + 1 /\ p = <<p[1], p[2]>>
  /\ <<0, 0>> \in E /\ <<n + 1, m + 1>> \in E
  /\ \A p, q \in E : p[1] < q[1] <=> p[2] < q[2]
  /\ \A p, q \in E : p[1] < q[1] => q[2] - p[2] <= q[1] - p[1]

\* Two matches with none between them.
Stretch(E, p, x) == p \in E /\ x \in E /\ p[1] < x[1] /\ \A q \in E : q[1] <= p[1] \/ x[1] <= q[1]

\* The place i of the stretch from p to x is paired with the box j.
PairedIn(E, i, j, p, x) == Stretch(E, p, x) /\ p[1] < i /\ i < x[1] /\ j = p[2] + i - p[1] /\ j < x[2]

PairedPlace(E, i) == \E j, p, x : PairedIn(E, i, j, p, x)

LEMMA StretchOfPlace ==
  ASSUME NEW n \in Nat, NEW m \in Nat, NEW E, Chain(E, n, m), NEW i \in 1..n, \A q \in E : q[1] # i
  PROVE  \E p, x : Stretch(E, p, x) /\ p[1] < i /\ i < x[1]
<1>. DEFINE before == {q[1] : q \in {e \in E : e[1] < i}}
            after == {q[1] : q \in {e \in E : e[1] > i}}
<1>1. \A q \in E : q[1] \in 0..n + 1 /\ q[1] \in Nat
  BY DEF Chain
<1>2. 0 \in before
  <2>1. <<0, 0>> \in E /\ <<0, 0>>[1] = 0 /\ 0 < i
    BY DEF Chain
  <2>. QED
    BY <2>1
<1>3. n + 1 \in after
  <2>1. <<n + 1, m + 1>> \in E /\ <<n + 1, m + 1>>[1] = n + 1 /\ n + 1 > i
    BY DEF Chain
  <2>. QED
    BY <2>1
<1>4. Max(before) \in before /\ \A k \in before : k <= Max(before)
  <2>1. before \in SUBSET (0..n + 1) /\ before # {} /\ n + 1 \in Nat
    BY <1>1, <1>2
  <2>. HIDE DEF before
  <2>. QED
    BY <2>1, GreatestMember
<1>5. Min(after) \in after /\ \A k \in after : Min(after) <= k
  <2>1. after \in SUBSET Nat /\ after # {}
    BY <1>1, <1>3
  <2>. HIDE DEF after
  <2>. QED
    BY <2>1, LeastMember
<1>6. PICK p \in E : p[1] < i /\ p[1] = Max(before)
  BY <1>4
<1>7. PICK x \in E : x[1] > i /\ x[1] = Min(after)
  BY <1>5
<1>8. ASSUME NEW q \in E PROVE q[1] <= p[1] \/ x[1] <= q[1]
  <2>1. q[1] < i \/ q[1] > i
    BY <1>1
  <2>2. q[1] < i => q[1] <= p[1]
    BY <1>4, <1>6
  <2>3. q[1] > i => x[1] <= q[1]
    BY <1>5, <1>7
  <2>. QED
    BY <2>1, <2>2, <2>3
<1>9. p[1] < x[1]
  BY <1>1, <1>6, <1>7
<1>. QED
  BY <1>6, <1>7, <1>8, <1>9 DEF Stretch

\* A row with its places and boxes changed about: a stretch from the side of the
\* boxes.
LEMMA StretchOfBox ==
  ASSUME NEW n \in Nat, NEW m \in Nat, NEW E, Chain(E, n, m), NEW j \in 1..m, \A q \in E : q[2] # j
  PROVE  \E p, x : Stretch(E, p, x) /\ p[2] < j /\ j < x[2]
<1>. DEFINE before == {q[2] : q \in {e \in E : e[2] < j}}
            after == {q[2] : q \in {e \in E : e[2] > j}}
<1>1. \A q \in E : q[1] \in Nat /\ q[2] \in 0..m + 1 /\ q[2] \in Nat
  BY DEF Chain
<1>2. 0 \in before
  <2>1. <<0, 0>> \in E /\ <<0, 0>>[2] = 0 /\ 0 < j
    BY DEF Chain
  <2>. QED
    BY <2>1
<1>3. m + 1 \in after
  <2>1. <<n + 1, m + 1>> \in E /\ <<n + 1, m + 1>>[2] = m + 1 /\ m + 1 > j
    BY DEF Chain
  <2>. QED
    BY <2>1
<1>4. Max(before) \in before /\ \A k \in before : k <= Max(before)
  <2>1. before \in SUBSET (0..m + 1) /\ before # {} /\ m + 1 \in Nat
    BY <1>1, <1>2
  <2>. HIDE DEF before
  <2>. QED
    BY <2>1, GreatestMember
<1>5. Min(after) \in after /\ \A k \in after : Min(after) <= k
  <2>1. after \in SUBSET Nat /\ after # {}
    BY <1>1, <1>3
  <2>. HIDE DEF after
  <2>. QED
    BY <2>1, LeastMember
<1>6. PICK p \in E : p[2] < j /\ p[2] = Max(before)
  BY <1>4
<1>7. PICK x \in E : x[2] > j /\ x[2] = Min(after)
  BY <1>5
<1>8. ASSUME NEW q \in E PROVE q[1] <= p[1] \/ x[1] <= q[1]
  <2>1. q[2] < j \/ q[2] > j
    BY <1>1
  <2>2. q[2] < j => ~(p[2] < q[2])
    <3>1. q[2] < j => q[2] <= p[2]
      BY <1>4, <1>6
    <3>. QED
      BY <1>1, <1>6, <3>1
  <2>3. q[2] > j => ~(q[2] < x[2])
    <3>1. q[2] > j => x[2] <= q[2]
      BY <1>5, <1>7
    <3>. QED
      BY <1>1, <1>7, <3>1
  <2>4. (p[1] < q[1] <=> p[2] < q[2]) /\ (q[1] < x[1] <=> q[2] < x[2])
    BY <1>6, <1>7 DEF Chain
  <2>. QED
    BY <1>1, <2>1, <2>2, <2>3, <2>4
<1>9. p[1] < x[1]
  <2>1. p[2] < x[2]
    BY <1>1, <1>6, <1>7
  <2>. QED
    BY <2>1 DEF Chain
<1>. QED
  BY <1>6, <1>7, <1>8, <1>9 DEF Stretch

\* As many places are paired with a box as there are boxes that match nothing.
LEMMA EachBoxPaired ==
  ASSUME NEW n \in Nat, NEW m \in Nat, NEW E, Chain(E, n, m)
  PROVE  Cardinality({i \in 1..n : PairedPlace(E, i)})
           = Cardinality({j \in 1..m : \A q \in E : q[2] # j})
<1>. DEFINE A == {i \in 1..n : \E j, p, x : PairedIn(E, i, j, p, x)}
            B == {j \in 1..m : \A q \in E : q[2] # j}
            R == {r \in (1..n) \X (1..m) : \E p, x : PairedIn(E, r[1], r[2], p, x)}
<1>1. \A q \in E : q[1] \in 0..n + 1 /\ q[2] \in 0..m + 1 /\ q[1] \in Int /\ q[2] \in Int /\ q = <<q[1], q[2]>>
  BY DEF Chain
<1>2. \A p, q \in E : (p[1] < q[1] <=> p[2] < q[2]) /\ (q[1] < p[1] <=> q[2] < p[2])
  BY DEF Chain
<1>3. IsFiniteSet(A)
  <2>1. A \in SUBSET (1..n) /\ IsFiniteSet(1..n)
    BY FS_Interval
  <2>. HIDE DEF A
  <2>. QED
    BY <2>1, FS_Subset
<1>4. ASSUME NEW i \in 1..n, NEW j, NEW p, NEW x, PairedIn(E, i, j, p, x)
      PROVE  /\ p \in E /\ x \in E /\ p[1] < i /\ i < x[1] /\ j = p[2] + i - p[1] /\ p[2] < j /\ j < x[2]
             /\ j \in 1..m /\ j \in B
  <2>1. p \in E /\ x \in E /\ p[1] < i /\ i < x[1] /\ j = p[2] + i - p[1] /\ j < x[2]
    BY <1>4 DEF PairedIn, Stretch
  <2>2. j \in Int /\ p[2] < j
    BY <1>1, <2>1
  <2>3. j \in 1..m
    BY <1>1, <2>1, <2>2
  <2>4. ASSUME NEW q \in E PROVE q[2] # j
    <3>1. q[1] <= p[1] \/ x[1] <= q[1]
      BY <1>4 DEF PairedIn, Stretch
    <3>2. ~(p[1] < q[1]) \/ ~(q[1] < x[1])
      BY <1>1, <2>1, <3>1
    <3>3. ~(p[2] < q[2]) \/ ~(q[2] < x[2])
      BY <1>2, <2>1, <3>2
    <3>. QED
      BY <2>1, <2>2, <3>3
  <2>. QED
    BY <2>1, <2>2, <2>3, <2>4
<1>5. ASSUME NEW i \in A PROVE \E j \in B : <<i, j>> \in R
  <2>1. PICK j, p, x : PairedIn(E, i, j, p, x)
    OBVIOUS
  <2>2. j \in 1..m /\ j \in B /\ i \in 1..n
    BY <1>4, <2>1
  <2>3. <<i, j>> \in R
    BY <2>1, <2>2
  <2>. QED
    BY <2>2, <2>3
<1>6. ASSUME NEW j \in B PROVE \E i \in A : <<i, j>> \in R
  <2>1. j \in 1..m /\ j \in Int /\ \A q \in E : q[2] # j
    OBVIOUS
  <2>2. PICK p, x : Stretch(E, p, x) /\ p[2] < j /\ j < x[2]
    BY <2>1, StretchOfBox
  <2>3. p \in E /\ x \in E /\ p[1] < x[1] /\ x[2] - p[2] <= x[1] - p[1]
    BY <2>2 DEF Stretch, Chain
  <2>4. PICK i \in Int : i = p[1] + j - p[2]
    BY <1>1, <2>1, <2>3
  <2>5. p[1] < i /\ i < x[1] /\ j = p[2] + i - p[1] /\ i \in 1..n
    BY <1>1, <2>1, <2>2, <2>3, <2>4
  <2>6. PairedIn(E, i, j, p, x)
    BY <2>2, <2>5 DEF PairedIn
  <2>. QED
    BY <2>1, <2>5, <2>6
<1>7. ASSUME NEW i \in A, NEW i2 \in A, NEW j \in B, NEW j2 \in B, <<i, j>> \in R, <<i2, j2>> \in R
      PROVE  i = i2 <=> j = j2
  <2>0. i \in 1..n /\ i2 \in 1..n /\ i \in Int /\ i2 \in Int /\ j \in Int /\ j2 \in Int
    OBVIOUS
  <2>1. PICK p, x : PairedIn(E, i, j, p, x)
    BY <1>7
  <2>2. PICK p2, x2 : PairedIn(E, i2, j2, p2, x2)
    BY <1>7
  <2>. HIDE DEF A, B, R
  <2>3. p \in E /\ x \in E /\ p[1] < i /\ i < x[1] /\ j = p[2] + i - p[1] /\ p[2] < j /\ j < x[2]
    BY <1>4, <2>0, <2>1
  <2>4. p2 \in E /\ x2 \in E /\ p2[1] < i2 /\ i2 < x2[1] /\ j2 = p2[2] + i2 - p2[1] /\ p2[2] < j2 /\ j2 < x2[2]
    BY <1>4, <2>0, <2>2
  <2>5. \A q \in E : (q[1] <= p[1] \/ x[1] <= q[1]) /\ (q[1] <= p2[1] \/ x2[1] <= q[1])
    BY <2>1, <2>2 DEF PairedIn, Stretch
  <2>6. i = i2 \/ j = j2 => p[1] < x2[1] /\ p2[1] < x[1]
    <3>1. i = i2 => p[1] < x2[1] /\ p2[1] < x[1]
      BY <1>1, <2>0, <2>3, <2>4
    <3>2. j = j2 => p[2] < x2[2] /\ p2[2] < x[2]
      BY <1>1, <2>0, <2>3, <2>4
    <3>. QED
      BY <1>2, <2>3, <2>4, <3>1, <3>2
  <2>7. i = i2 \/ j = j2 => p[1] = p2[1]
    BY <1>1, <2>3, <2>4, <2>5, <2>6
  <2>8. p[1] = p2[1] => p[2] = p2[2]
    BY <1>1, <1>2, <2>3, <2>4
  <2>. QED
    BY <1>1, <2>0, <2>3, <2>4, <2>7, <2>8
<1>. HIDE DEF A, B, R
<1>8. Cardinality(A) = Cardinality(B)
  BY <1>3, <1>5, <1>6, <1>7, Paired
<1>. QED
  BY <1>8 DEF A, B, PairedPlace

LEMMA StretchUnique ==
  ASSUME NEW n \in Nat, NEW m \in Nat, NEW E, Chain(E, n, m), NEW i \in 1..n,
         NEW p, NEW x, Stretch(E, p, x), p[1] < i, i < x[1],
         NEW p2, NEW x2, p2 \in E, x2 \in E, p2[1] < i, i < x2[1],
         \A q \in E : q[1] < i => q[1] <= p2[1], \A q \in E : i < q[1] => x2[1] <= q[1]
  PROVE  p = p2 /\ x = x2
<1>1. p \in E /\ x \in E /\ \A q \in E : q[1] <= p[1] \/ x[1] <= q[1]
  BY DEF Stretch
<1>2. \A q \in E : q[1] \in Int /\ q[2] \in Int /\ q = <<q[1], q[2]>>
  BY DEF Chain
<1>3. p[1] = p2[1]
  <2>1. p[1] <= p2[1]
    BY <1>1
  <2>2. p2[1] <= p[1]
    BY <1>1, <1>2
  <2>. QED
    BY <1>1, <1>2, <2>1, <2>2
<1>4. x[1] = x2[1]
  <2>1. x2[1] <= x[1]
    BY <1>1
  <2>2. x[1] <= x2[1]
    BY <1>1, <1>2
  <2>. QED
    BY <1>1, <1>2, <2>1, <2>2
<1>5. \A q, r \in E : q[1] = r[1] => q[2] = r[2]
  <2>1. ASSUME NEW q \in E, NEW r \in E, q[1] = r[1] PROVE q[2] = r[2]
    <3>1. ~(q[1] < r[1]) /\ ~(r[1] < q[1])
      BY <1>2, <2>1
    <3>2. ~(q[2] < r[2]) /\ ~(r[2] < q[2])
      BY <3>1 DEF Chain
    <3>. QED
      BY <1>2, <3>2
  <2>. QED
    BY <2>1
<1>. QED
  BY <1>1, <1>2, <1>3, <1>4, <1>5

\* The matches of the two rows are a chain with its ends.
Chained(ref, cur, pairs, E) ==
  /\ Len(ref) \in Nat /\ Len(cur) \in Nat
  /\ E = pairs \cup {<<0, 0>>, <<Len(ref) + 1, Len(cur) + 1>>}
  /\ Chain(E, Len(ref), Len(cur))
  /\ \A p \in pairs : p[1] \in 1..Len(ref)

\* The state of a cell, in terms of the stretch that it is in.
LEMMA CellIs ==
  ASSUME NEW ref, NEW cur, NEW pairs, NEW ends, Chained(ref, cur, pairs, ends), NEW i \in 1..Len(ref)
  PROVE  /\ CellState(ref, cur, pairs, i) = "ok" <=> \E p \in pairs : p[1] = i
         /\ CellState(ref, cur, pairs, i) = "misplaced" <=> PairedPlace(ends, i)
<1>. DEFINE n == Len(ref)
            m == Len(cur)
            E == pairs \cup {<<0, 0>>, <<n + 1, m + 1>>}
            before == {p \in pairs \cup {<<0, 0>>} : p[1] < i}
            after == {p \in pairs \cup {<<n + 1, m + 1>>} : p[1] > i}
            prev == CHOOSE p \in before : \A q \in before : q[1] <= p[1]
            next == CHOOSE p \in after : \A q \in after : q[1] >= p[1]
<1>1. CellState(ref, cur, pairs, i) =
        IF \E p \in pairs : p[1] = i THEN "ok"
        ELSE IF prev[2] + i - prev[1] < next[2] THEN "misplaced" ELSE "empty"
  BY DEF CellState
<1>0. /\ n \in Nat /\ m \in Nat /\ ends = E /\ Chain(E, n, m) /\ \A p \in pairs : p[1] \in 1..n
      /\ i \in 1..n
  BY DEF Chained
<1>. HIDE DEF n, m
<1>2. \A q \in E : q[1] \in Int /\ q[2] \in Int
  BY <1>0 DEF Chain
<1>3. \A q \in E : (q[1] < i <=> q \in before) /\ (q[1] > i <=> q \in after)
  <2>1. <<0, 0>>[1] = 0 /\ <<n + 1, m + 1>>[1] = n + 1 /\ 0 < i /\ n + 1 > i
    BY <1>0
  <2>2. ~(n + 1 < i) /\ ~(0 > i)
    BY <1>0
  <2>. QED
    BY <2>1, <2>2
<1>4. before \subseteq E /\ after \subseteq E
  OBVIOUS
<1>5. CASE \E p \in pairs : p[1] = i
  <2>1. PICK r \in pairs : r[1] = i
    BY <1>5
  <2>2. ASSUME NEW j, NEW p, NEW x, PairedIn(E, i, j, p, x) PROVE FALSE
    <3>1. p \in E /\ x \in E /\ p[1] < i /\ i < x[1] /\ r \in E /\ (r[1] <= p[1] \/ x[1] <= r[1])
      BY <2>1, <2>2 DEF PairedIn, Stretch
    <3>. QED
      BY <1>2, <2>1, <3>1
  <2>. QED
    BY <1>0, <1>1, <1>5, <2>2 DEF PairedPlace
<1>6. CASE ~\E p \in pairs : p[1] = i
  <2>1. \A q \in E : q[1] # i
    <3>1. <<0, 0>>[1] # i /\ <<n + 1, m + 1>>[1] # i
      BY <1>0
    <3>. QED
      BY <1>6, <3>1
  <2>. HIDE DEF E
  <2>2. PICK p, x : Stretch(E, p, x) /\ p[1] < i /\ i < x[1]
    BY <1>0, <2>1, StretchOfPlace
  <2>3. p \in E /\ x \in E /\ \A q \in E : q[1] <= p[1] \/ x[1] <= q[1]
    BY <2>2 DEF Stretch
  <2>4. prev \in before /\ \A q \in before : q[1] <= prev[1]
    <3>1. p \in before
      BY <1>3, <2>2, <2>3
    <3>2. \A q \in before : q[1] <= p[1]
      BY <1>2, <1>3, <1>4, <2>2, <2>3
    <3>. HIDE DEF before
    <3>. QED
      BY <3>1, <3>2
  <2>5. next \in after /\ \A q \in after : q[1] >= next[1]
    <3>1. x \in after
      BY <1>2, <1>3, <2>2, <2>3
    <3>2. \A q \in after : q[1] >= x[1]
      BY <1>2, <1>3, <1>4, <2>2, <2>3
    <3>. HIDE DEF after
    <3>. QED
      BY <3>1, <3>2
  <2>. HIDE DEF prev, next, before, after
  <2>6. /\ prev \in E /\ next \in E /\ prev[1] < i /\ i < next[1]
        /\ \A q \in E : q[1] < i => q[1] <= prev[1]
        /\ \A q \in E : i < q[1] => next[1] <= q[1]
    BY <1>2, <1>3, <1>4, <2>4, <2>5
  <2>7. Chain(E, n, m)
    BY <1>0
  <2>8. ASSUME NEW p2, NEW x2, Stretch(E, p2, x2), p2[1] < i, i < x2[1] PROVE p2 = prev /\ x2 = next
    BY <1>0, <2>6, <2>7, <2>8, StretchUnique
  <2>9. p = prev /\ x = next
    BY <2>2, <2>8
  <2>10. prev[2] + i - prev[1] < next[2] <=> \E j, p2, x2 : PairedIn(E, i, j, p2, x2)
    <3>1. ASSUME prev[2] + i - prev[1] < next[2] PROVE PairedIn(E, i, prev[2] + i - prev[1], prev, next)
      BY <2>2, <2>9, <3>1 DEF PairedIn
    <3>2. ASSUME NEW j, NEW p2, NEW x2, PairedIn(E, i, j, p2, x2) PROVE prev[2] + i - prev[1] < next[2]
      <4>1. Stretch(E, p2, x2) /\ p2[1] < i /\ i < x2[1] /\ j = p2[2] + i - p2[1] /\ j < x2[2]
        BY <3>2 DEF PairedIn
      <4>. QED
        BY <2>8, <4>1
    <3>. QED
      BY <3>1, <3>2
  <2>. QED
    BY <1>0, <1>1, <1>6, <2>10 DEF PairedPlace
<1>. QED
  BY <1>5, <1>6

\* What a camera may show of a row of different items: the boxes are at places of
\* the row, in order, each with the item of its place or one the row does not have.
ShowsRow(ref, cur, at) ==
  /\ \A i, j \in DOMAIN ref : ref[i].sku = ref[j].sku => i = j
  /\ \A j \in DOMAIN cur : at[j] \in DOMAIN ref
  /\ \A j, l \in DOMAIN cur : j < l => at[j] < at[l]
  /\ \A j \in DOMAIN cur : cur[j].sku = ref[at[j]].sku \/ \A i \in DOMAIN ref : cur[j].sku # ref[i].sku

OwnBoxes(ref, cur, at) == {j \in DOMAIN cur : cur[j].sku = ref[at[j]].sku}

LEMMA RowMatches ==
  ASSUME NEW T, NEW ref \in Seq(T), NEW cur \in Seq(T), NEW at, ShowsRow(ref, cur, at)
  PROVE  Aligned(Skus(ref), Skus(cur)) = {<<at[j], j>> : j \in OwnBoxes(ref, cur, at)}
<1>. DEFINE n == Len(ref)
            m == Len(cur)
            N == {ref[i].sku : i \in DOMAIN ref} \cup {cur[j].sku : j \in DOMAIN cur}
            a == Skus(ref)
            b == Skus(cur)
<1>1. n \in Nat /\ m \in Nat /\ DOMAIN ref = 1..n /\ DOMAIN cur = 1..m
  OBVIOUS
<1>2. a \in Seq(N) /\ b \in Seq(N) /\ DOMAIN a = 1..n /\ DOMAIN b = 1..m
  <2>1. a \in [1..n -> N] /\ b \in [1..m -> N]
    BY <1>1 DEF Skus
  <2>. HIDE DEF a, b, n, m, N
  <2>. QED
    BY <1>1, <2>1
<1>3. (\A i \in 1..n : a[i] = ref[i].sku) /\ (\A j \in 1..m : b[j] = cur[j].sku)
  BY <1>1 DEF Skus
<1>. HIDE DEF a, b, n, m, N
<1>4. Common(a, b) = {<<at[j], j>> : j \in OwnBoxes(ref, cur, at)}
  <2>1. ASSUME NEW p \in Common(a, b) PROVE p[2] \in OwnBoxes(ref, cur, at) /\ p = <<at[p[2]], p[2]>>
    <3>1. p[1] \in 1..n /\ p[2] \in 1..m /\ p = <<p[1], p[2]>> /\ ref[p[1]].sku = cur[p[2]].sku
      BY <1>2, <1>3 DEF Common
    <3>2. cur[p[2]].sku = ref[at[p[2]]].sku /\ at[p[2]] \in 1..n
      BY <1>1, <3>1 DEF ShowsRow
    <3>3. p[1] = at[p[2]]
      BY <1>1, <3>1, <3>2 DEF ShowsRow
    <3>. QED
      BY <1>1, <3>1, <3>2, <3>3 DEF OwnBoxes
  <2>2. ASSUME NEW j \in OwnBoxes(ref, cur, at) PROVE <<at[j], j>> \in Common(a, b)
    <3>1. j \in 1..m /\ at[j] \in 1..n /\ cur[j].sku = ref[at[j]].sku
      BY <1>1 DEF OwnBoxes, ShowsRow
    <3>. QED
      BY <1>2, <1>3, <3>1 DEF Common
  <2>. QED
    BY <2>1, <2>2
<1>5. SameOrder(a, b)
  <2>1. ASSUME NEW j \in OwnBoxes(ref, cur, at), NEW l \in OwnBoxes(ref, cur, at) PROVE at[j] < at[l] <=> j < l
    <3>1. j \in 1..m /\ l \in 1..m /\ at[j] \in 1..n /\ at[l] \in 1..n /\ (j < l => at[j] < at[l]) /\ (l < j => at[l] < at[j])
      BY <1>1 DEF OwnBoxes, ShowsRow
    <3>. QED
      BY <1>1, <3>1
  <2>. QED
    BY <1>4, <2>1 DEF SameOrder
<1>. QED
  BY <1>2, <1>4, <1>5, AlignedIs DEF a, b

\* Places grow at least as fast as boxes.
LEMMA PlacesGrow ==
  ASSUME NEW m \in Nat, NEW at, \A j \in 0..m : at[j] \in Int, \A j, l \in 0..m : j < l => at[j] < at[l],
         NEW j \in 0..m, NEW l \in 0..m, j <= l
  PROVE  l - j <= at[l] - at[j]
<1>. DEFINE good == {k \in 0..m : j + k <= m => k <= at[j + k] - at[j]}
<1>1. 0 \in good
  <2>1. j + 0 = j /\ at[j] \in Int
    OBVIOUS
  <2>. QED
    BY <2>1
<1>2. ASSUME NEW k \in 1..m, k - 1 \in good PROVE k \in good
  <2>1. CASE j + k <= m
    <3>1. j + k \in 0..m /\ j + (k - 1) \in 0..m /\ j + (k - 1) < j + k
      BY <2>1
    <3>2. at[j + (k - 1)] < at[j + k] /\ at[j + k] \in Int /\ at[j + (k - 1)] \in Int /\ at[j] \in Int
      BY <3>1
    <3>3. k - 1 <= at[j + (k - 1)] - at[j]
      BY <1>2, <3>1
    <3>4. k <= at[j + k] - at[j]
      BY <3>2, <3>3
    <3>. QED
      BY <3>4
  <2>2. CASE ~(j + k <= m)
    BY <2>2
  <2>. QED
    BY <2>1, <2>2
<1>3. 0..m \subseteq good
  <2>. HIDE DEF good
  <2>. QED
    BY <1>1, <1>2, UpTo
<1>4. l - j \in 0..m /\ j + (l - j) = l
  OBVIOUS
<1>. QED
  BY <1>3, <1>4

LEMMA RowIsChain ==
  ASSUME NEW T, NEW ref \in Seq(T), NEW cur \in Seq(T), NEW at, ShowsRow(ref, cur, at)
  PROVE  Chain({<<at[j], j>> : j \in OwnBoxes(ref, cur, at)} \cup {<<0, 0>>, <<Len(ref) + 1, Len(cur) + 1>>},
               Len(ref), Len(cur))
<1>. DEFINE n == Len(ref)
            m == Len(cur)
            own == OwnBoxes(ref, cur, at)
            A == [j \in 0..m + 1 |-> IF j = 0 THEN 0 ELSE IF j = m + 1 THEN n + 1 ELSE at[j]]
            J == own \cup {0, m + 1}
            E == {<<at[j], j>> : j \in own} \cup {<<0, 0>>, <<n + 1, m + 1>>}
<1>1. n \in Nat /\ m \in Nat /\ DOMAIN ref = 1..n /\ DOMAIN cur = 1..m
  OBVIOUS
<1>2. (\A j \in 1..m : at[j] \in 1..n) /\ (\A j, l \in 1..m : j < l => at[j] < at[l]) /\ own \subseteq 1..m
  BY <1>1 DEF ShowsRow, OwnBoxes
<1>. HIDE DEF n, m, own
<1>3. A[0] = 0 /\ A[m + 1] = n + 1 /\ \A j \in 1..m : A[j] = at[j]
  BY <1>1
<1>4. \A j \in 0..m + 1 : A[j] \in 0..n + 1 /\ A[j] \in Int
  BY <1>1, <1>2
<1>5. \A j, l \in 0..m + 1 : j < l => A[j] < A[l]
  BY <1>1, <1>2
<1>6. J \subseteq 0..m + 1
  BY <1>1, <1>2
<1>7. E = {<<A[j], j>> : j \in J}
  <2>1. \A j \in own : <<at[j], j>> = <<A[j], j>>
    BY <1>2, <1>3
  <2>2. <<0, 0>> = <<A[0], 0>> /\ <<n + 1, m + 1>> = <<A[m + 1], m + 1>>
    BY <1>3
  <2>. HIDE DEF A
  <2>. QED
    BY <2>1, <2>2
<1>. HIDE DEF A, J
<1>8. ASSUME NEW j \in 0..m + 1, NEW l \in 0..m + 1 PROVE (A[j] < A[l] <=> j < l) /\ (j < l => l - j <= A[l] - A[j])
  <2>1. j < l => A[j] < A[l]
    BY <1>5
  <2>2. l < j => A[l] < A[j]
    BY <1>5
  <2>3. A[j] \in Int /\ A[l] \in Int /\ j \in Int /\ l \in Int
    BY <1>1, <1>4
  <2>4. A[j] < A[l] <=> j < l
    BY <2>1, <2>2, <2>3
  <2>5. m + 1 \in Nat
    BY <1>1
  <2>6. ASSUME j < l PROVE l - j <= A[l] - A[j]
    <3>1. j <= l /\ \A k \in 0..m + 1 : A[k] \in Int
      BY <1>4, <2>3, <2>6
    <3>. QED
      BY <1>5, <2>5, <3>1, PlacesGrow
  <2>. QED
    BY <2>4, <2>6
<1>9. \A p \in E : \E j \in 0..m + 1 : p = <<A[j], j>> /\ p[1] = A[j] /\ p[2] = j
  <2>1. \A p \in E : \E j \in J : p = <<A[j], j>>
    BY <1>7
  <2>. HIDE DEF E
  <2>. QED
    BY <1>6, <2>1
<1>10. <<0, 0>> \in E /\ <<n + 1, m + 1>> \in E
  OBVIOUS
<1>. HIDE DEF E
<1>11. \A p \in E : p[1] \in 0..n + 1 /\ p[2] \in 0..m + 1 /\ p = <<p[1], p[2]>>
  BY <1>4, <1>9
<1>12. ASSUME NEW p \in E, NEW q \in E PROVE (p[1] < q[1] <=> p[2] < q[2]) /\ (p[1] < q[1] => q[2] - p[2] <= q[1] - p[1])
  <2>1. PICK j \in 0..m + 1 : p[1] = A[j] /\ p[2] = j
    BY <1>9
  <2>2. PICK l \in 0..m + 1 : q[1] = A[l] /\ q[2] = l
    BY <1>9
  <2>. QED
    BY <1>8, <2>1, <2>2
<1>. QED
  BY <1>10, <1>11, <1>12 DEF Chain, E, n, m, own

\* However long the row, and whatever is missing or wrong in it, a cell is ok
\* exactly if its own item is at its place, and as many cells are misplaced as
\* boxes show something else (GridDetector._match_rows).
THEOREM RowTheorem ==
  ASSUME NEW T, NEW ref \in Seq(T), NEW cur \in Seq(T), NEW at, ShowsRow(ref, cur, at)
  PROVE  /\ DOMAIN MatchRow(ref, cur) = DOMAIN ref
         /\ \A i \in DOMAIN ref : MatchRow(ref, cur)[i] = "ok" <=> \E j \in OwnBoxes(ref, cur, at) : at[j] = i
         /\ Cardinality({i \in DOMAIN ref : MatchRow(ref, cur)[i] = "misplaced"})
              = Cardinality((DOMAIN cur) \ OwnBoxes(ref, cur, at))
<1>. DEFINE n == Len(ref)
            m == Len(cur)
            own == OwnBoxes(ref, cur, at)
            pairs == {<<at[j], j>> : j \in own}
            E == pairs \cup {<<0, 0>>, <<n + 1, m + 1>>}
<1>1. n \in Nat /\ m \in Nat /\ DOMAIN ref = 1..n /\ DOMAIN cur = 1..m
  OBVIOUS
<1>2. own \subseteq 1..m /\ \A j \in own : at[j] \in 1..n
  BY <1>1 DEF ShowsRow, OwnBoxes
<1>3. Chain(E, n, m)
  BY RowIsChain
<1>4. MatchRow(ref, cur) = [i \in DOMAIN ref |-> CellState(ref, cur, pairs, i)]
  BY RowMatches DEF MatchRow
<1>. HIDE DEF n, m, own
<1>5. ASSUME NEW i \in 1..n
      PROVE  /\ CellState(ref, cur, pairs, i) = "ok" <=> \E p \in pairs : p[1] = i
             /\ CellState(ref, cur, pairs, i) = "misplaced" <=> PairedPlace(E, i)
  <2>1. \A p \in pairs : p[1] \in 1..n
    BY <1>2
  <2>2. E = pairs \cup {<<0, 0>>, <<n + 1, m + 1>>}
    OBVIOUS
  <2>. HIDE DEF pairs, E
  <2>3. Chained(ref, cur, pairs, E)
    BY <1>1, <1>3, <2>1, <2>2 DEF Chained, n, m
  <2>. QED
    BY <2>3, CellIs DEF n
<1>6. \A i : (\E p \in pairs : p[1] = i) <=> \E j \in own : at[j] = i
  <2>1. \A j : <<at[j], j>>[1] = at[j]
    OBVIOUS
  <2>2. \A j \in own : <<at[j], j>> \in pairs
    OBVIOUS
  <2>3. \A p \in pairs : \E j \in own : p = <<at[j], j>>
    OBVIOUS
  <2>. HIDE DEF pairs
  <2>4. ASSUME NEW i, NEW p \in pairs, p[1] = i PROVE \E j \in own : at[j] = i
    BY <2>1, <2>3, <2>4
  <2>5. ASSUME NEW i, NEW j \in own, at[j] = i PROVE \E p \in pairs : p[1] = i
    BY <2>1, <2>2, <2>5
  <2>. QED
    BY <2>4, <2>5
<1>7. {j \in 1..m : \A q \in E : q[2] # j} = (1..m) \ own
  <2>1. ASSUME NEW j \in 1..m PROVE (\A q \in E : q[2] # j) <=> j \notin own
    <3>1. j # 0 /\ j # m + 1 /\ <<0, 0>>[2] = 0 /\ <<n + 1, m + 1>>[2] = m + 1
      BY <1>1
    <3>2. \A l \in own : <<at[l], l>>[2] = l
      OBVIOUS
    <3>3. j \in own => <<at[j], j>> \in E
      OBVIOUS
    <3>. QED
      BY <3>1, <3>2, <3>3
  <2>. HIDE DEF E
  <2>. QED
    BY <2>1
<1>8. Cardinality({i \in 1..n : PairedPlace(E, i)}) = Cardinality((1..m) \ own)
  <2>. HIDE DEF E
  <2>. QED
    BY <1>1, <1>3, <1>7, EachBoxPaired
<1>. HIDE DEF pairs, E
<1>9. {i \in DOMAIN ref : MatchRow(ref, cur)[i] = "misplaced"} = {i \in 1..n : PairedPlace(E, i)}
  BY <1>1, <1>4, <1>5
<1>. QED
  BY <1>1, <1>4, <1>5, <1>6, <1>8, <1>9 DEF own

-----------------------------------------------------------------------------
(* The rows of a picture *)

\* Only the identity counts in order from 1 to n.
LEMMA InOrder ==
  ASSUME NEW n \in Nat, NEW f, \A k \in 1..n : f[k] \in 1..n, \A k, l \in 1..n : k < l => f[k] < f[l]
  PROVE  \A k \in 1..n : f[k] = k
<1>. DEFINE up == {k \in 0..n : k # 0 => k <= f[k]}
            down == {k \in 0..n : k # n => f[n - k] <= n - k}
<1>1. 0..n \subseteq up
  <2>1. 0 \in up
    OBVIOUS
  <2>2. ASSUME NEW k \in 1..n, k - 1 \in up PROVE k \in up
    <3>1. CASE k = 1
      <4>1. f[1] \in 1..n
        BY <3>1
      <4>. QED
        BY <3>1, <4>1
    <3>2. CASE k # 1
      <4>1. k - 1 \in 1..n /\ k - 1 < k
        BY <3>2
      <4>2. k - 1 <= f[k - 1] /\ f[k - 1] < f[k] /\ f[k] \in 1..n /\ f[k - 1] \in 1..n
        BY <2>2, <4>1
      <4>. QED
        BY <4>2
    <3>. QED
      BY <3>1, <3>2
  <2>. HIDE DEF up
  <2>. QED
    BY <2>1, <2>2, UpTo
<1>2. 0..n \subseteq down
  <2>1. 0 \in down
    <3>1. n # 0 => n \in 1..n /\ n - 0 = n
      OBVIOUS
    <3>2. n # 0 => f[n] \in 1..n
      BY <3>1
    <3>. QED
      BY <3>1, <3>2
  <2>2. ASSUME NEW k \in 1..n, k - 1 \in down PROVE k \in down
    <3>1. CASE k = n
      BY <3>1
    <3>2. CASE k # n
      <4>1. n - k \in 1..n /\ n - (k - 1) \in 1..n /\ n - k < n - (k - 1) /\ k - 1 # n /\ k - 1 \in 0..n
        BY <3>2
      <4>2. f[n - (k - 1)] <= n - (k - 1)
        BY <2>2, <4>1
      <4>3. f[n - k] < f[n - (k - 1)] /\ f[n - k] \in 1..n /\ f[n - (k - 1)] \in 1..n
        BY <4>1
      <4>4. f[n - k] <= n - k
        BY <4>2, <4>3
      <4>. QED
        BY <4>4
    <3>. QED
      BY <3>1, <3>2
  <2>. HIDE DEF down
  <2>. QED
    BY <2>1, <2>2, UpTo
<1>3. ASSUME NEW k \in 1..n PROVE f[k] = k
  <2>1. k \in 0..n /\ k # 0 /\ n - k \in 0..n /\ n - k # n /\ n - (n - k) = k
    OBVIOUS
  <2>2. k <= f[k]
    BY <1>1, <2>1
  <2>3. f[n - (n - k)] <= n - (n - k)
    BY <1>2, <2>1
  <2>4. f[k] \in 1..n
    OBVIOUS
  <2>. QED
    BY <2>1, <2>2, <2>3, <2>4
<1>. QED
  BY <1>3

ListedBy(S, R) == [n \in 1..Cardinality(S) |-> CHOOSE x \in S : Cardinality(Below(S, R, x)) = n - 1]

\* A set whose elements are f[1] to f[n], in this order, is listed as f.
Ordered(S, R, n, f) ==
  /\ n \in Nat
  /\ S = {f[i] : i \in 1..n}
  /\ \A i, j \in 1..n : <<f[i], f[j]>> \in R <=> i < j

LEMMA ListedInOrder ==
  ASSUME NEW S, NEW R, NEW n, NEW f, Ordered(S, R, n, f)
  PROVE  /\ IsFiniteSet(S) /\ Cardinality(S) = n
         /\ DOMAIN ListedBy(S, R) = 1..n
         /\ \A i \in 1..n : ListedBy(S, R)[i] = f[i]
<1>. DEFINE g == [i \in 1..n |-> f[i]]
            nth == ListedBy(S, R)
<1>0. n \in Nat /\ S = {f[i] : i \in 1..n} /\ \A i, j \in 1..n : <<f[i], f[j]>> \in R <=> i < j
  BY DEF Ordered
<1>1. \A i, j \in 1..n : f[i] = f[j] => i = j
  <2>1. ASSUME NEW i \in 1..n, NEW j \in 1..n, f[i] = f[j] PROVE i = j
    <3>1. (<<f[i], f[j]>> \in R <=> i < j) /\ (<<f[j], f[i]>> \in R <=> j < i) /\ (<<f[i], f[i]>> \in R <=> i < i)
      BY <1>0
    <3>2. <<f[i], f[j]>> = <<f[i], f[i]>> /\ <<f[j], f[i]>> = <<f[i], f[i]>>
      BY <2>1
    <3>. QED
      BY <3>1, <3>2
  <2>. QED
    BY <2>1
<1>2. IsFiniteSet(S) /\ Cardinality(S) = n
  <2>1. IsFiniteSet(1..n) /\ Cardinality(1..n) = n
    <3>1. IsFiniteSet(1..n) /\ Cardinality(1..n) = IF 1 > n THEN 0 ELSE (n - 1) + 1
      BY <1>0, FS_Interval
    <3>. QED
      BY <1>0, <3>1
  <2>2. g \in Bijection(1..n, S)
    BY <1>0, <1>1 DEF Bijection, Injection, Surjection, IsInjective
  <2>3. ExistsBijection(1..n, S)
    BY <2>2 DEF ExistsBijection
  <2>. QED
    BY <2>1, <2>3, FS_Bijection
<1>3. StrictOrder(S, R)
  <2>1. \A x \in S : \E i \in 1..n : x = f[i]
    BY <1>0
  <2>2. \A x \in S : <<x, x>> \notin R
    BY <1>0, <2>1
  <2>3. \A x, y \in S : x # y => <<x, y>> \in R \/ <<y, x>> \in R
    <3>1. ASSUME NEW x \in S, NEW y \in S, x # y PROVE <<x, y>> \in R \/ <<y, x>> \in R
      <4>1. PICK i \in 1..n, j \in 1..n : x = f[i] /\ y = f[j]
        BY <2>1
      <4>2. i < j \/ j < i
        BY <1>0, <3>1, <4>1
      <4>. QED
        BY <1>0, <4>1, <4>2
    <3>. QED
      BY <3>1
  <2>4. \A x, y, z \in S : <<x, y>> \in R /\ <<y, z>> \in R => <<x, z>> \in R
    <3>1. ASSUME NEW x \in S, NEW y \in S, NEW z \in S, <<x, y>> \in R, <<y, z>> \in R PROVE <<x, z>> \in R
      <4>1. PICK i \in 1..n, j \in 1..n, k \in 1..n : x = f[i] /\ y = f[j] /\ z = f[k]
        BY <2>1
      <4>2. i < j /\ j < k
        BY <1>0, <3>1, <4>1
      <4>3. i < k
        BY <1>0, <4>2
      <4>. QED
        BY <1>0, <4>1, <4>3
    <3>. QED
      BY <3>1
  <2>. QED
    BY <2>2, <2>3, <2>4 DEF StrictOrder
<1>4. Lists(S, R, nth) /\ DOMAIN nth = 1..n
  <2>1. nth = [i \in 1..Cardinality(S) |-> CHOOSE x \in S : Cardinality(Below(S, R, x)) = i - 1]
    BY DEF ListedBy
  <2>2. \A i \in 1..Cardinality(S) : nth[i] = CHOOSE x \in S : Cardinality(Below(S, R, x)) = i - 1
    BY <2>1
  <2>3. DOMAIN nth = 1..n
    BY <1>2, <2>1
  <2>. HIDE DEF nth
  <2>. QED
    BY <1>2, <1>3, <2>2, <2>3, ListedByRank
<1>. HIDE DEF nth
<1>. DEFINE at == [k \in 1..n |-> CHOOSE i \in 1..n : f[i] = nth[k]]
<1>5. ASSUME NEW k \in 1..n PROVE at[k] \in 1..n /\ f[at[k]] = nth[k]
  <2>1. nth[k] \in S
    BY <1>2, <1>4 DEF Lists
  <2>2. \E i \in 1..n : f[i] = nth[k]
    BY <1>0, <2>1
  <2>. QED
    BY <2>2
<1>. HIDE DEF at
<1>6. ASSUME NEW k \in 1..n, NEW l \in 1..n, k < l PROVE at[k] < at[l]
  <2>1. <<nth[k], nth[l]>> \in R
    BY <1>2, <1>4, <1>6 DEF Lists
  <2>. QED
    BY <1>0, <1>5, <2>1
<1>7. \A k \in 1..n : at[k] = k
  BY <1>0, <1>5, <1>6, InOrder
<1>. QED
  BY <1>2, <1>4, <1>5, <1>7 DEF nth

Pairs(S) == {r \in S \X S : r[1] # r[2]}

\* The lists of the model, as lists by the rank in a relation.
AboveIn(S) == {r \in Pairs(S) : Above(r[1], r[2])}

LeftIn(S) == {r \in Pairs(S) : LeftOf(r[1], r[2])}

EarlierAt(S) == {r \in Pairs(S) : r[1] < r[2]}

LEMMA ListsAre ==
  ASSUME NEW S
  PROVE  /\ Listed(S, Above) = ListedBy(S, AboveIn(S))
         /\ Listed(S, LeftOf) = ListedBy(S, LeftIn(S))
         /\ Listed(S, <) = ListedBy(S, EarlierAt(S))
<1>1. \A x \in S : {y \in S \ {x} : Above(y, x)} = Below(S, AboveIn(S), x)
  BY DEF Below, AboveIn, Pairs
<1>2. \A x \in S : {y \in S \ {x} : LeftOf(y, x)} = Below(S, LeftIn(S), x)
  BY DEF Below, LeftIn, Pairs
<1>3. \A x \in S : {y \in S \ {x} : y < x} = Below(S, EarlierAt(S), x)
  BY DEF Below, EarlierAt, Pairs
<1>4. Listed(S, Above) = ListedBy(S, AboveIn(S))
  <2>1. \A n : (CHOOSE x \in S : Cardinality({y \in S \ {x} : Above(y, x)}) = n - 1)
             = (CHOOSE x \in S : Cardinality(Below(S, AboveIn(S), x)) = n - 1)
    BY <1>1
  <2>2. Listed(S, Above) = [n \in 1..Cardinality(S) |-> CHOOSE x \in S : Cardinality({y \in S \ {x} : Above(y, x)}) = n - 1]
    BY DEF Listed
  <2>. QED
    BY <2>1, <2>2 DEF ListedBy
<1>5. Listed(S, LeftOf) = ListedBy(S, LeftIn(S))
  <2>1. \A n : (CHOOSE x \in S : Cardinality({y \in S \ {x} : LeftOf(y, x)}) = n - 1)
             = (CHOOSE x \in S : Cardinality(Below(S, LeftIn(S), x)) = n - 1)
    BY <1>2
  <2>2. Listed(S, LeftOf) = [n \in 1..Cardinality(S) |-> CHOOSE x \in S : Cardinality({y \in S \ {x} : LeftOf(y, x)}) = n - 1]
    BY DEF Listed
  <2>. QED
    BY <2>1, <2>2 DEF ListedBy
<1>6. Listed(S, <) = ListedBy(S, EarlierAt(S))
  <2>1. \A n : (CHOOSE x \in S : Cardinality({y \in S \ {x} : y < x}) = n - 1)
             = (CHOOSE x \in S : Cardinality(Below(S, EarlierAt(S), x)) = n - 1)
    BY <1>3
  <2>2. Listed(S, <) = [n \in 1..Cardinality(S) |-> CHOOSE x \in S : Cardinality({y \in S \ {x} : y < x}) = n - 1]
    BY DEF Listed
  <2>. QED
    BY <2>1, <2>2 DEF ListedBy
<1>. QED
  BY <1>4, <1>5, <1>6

\* The boxes of a picture of n rows: a row shows enough boxes, at different places
\* and with heights that differ by no more than Eps, and lies more than Eps above
\* the next.
Shelved(items, row, n) ==
  /\ n \in Nat
  /\ items = UNION {row[r] : r \in 1..n}
  /\ \A r \in 1..n : IsFiniteSet(row[r]) /\ Cardinality(row[r]) >= RowSamples
  /\ \A r \in 1..n : \A a \in row[r] : a.x \in Int /\ a.y \in Int
  /\ \A r \in 1..n : \A a, b \in row[r] : a.y - b.y \in -Eps..Eps /\ (a.x = b.x => a = b)
  /\ \A r, s \in 1..n : r < s => \A a \in row[r], b \in row[s] : a.y + Eps < b.y

LEMMA Spaced ==
  ASSUME NEW items, NEW row, NEW n, Shelved(items, row, n)
  PROVE  /\ Eps \in Nat /\ RowSamples \in Nat /\ 1 <= RowSamples
         /\ \A a \in items : a.y \in Int /\ \E r \in 1..n : a \in row[r]
         /\ \A r \in 1..n : row[r] \subseteq items
         /\ \A r \in 1..n : row[r] # {}
         /\ \A r, s \in 1..n : row[r] = row[s] => r = s
<1>1. Eps \in Nat /\ RowSamples \in Nat /\ 1 <= RowSamples
  BY GridAssumption
<1>2. (\A a \in items : \E r \in 1..n : a \in row[r]) /\ \A r \in 1..n : row[r] \subseteq items
  BY DEF Shelved
<1>3. \A a \in items : a.y \in Int
  BY <1>2 DEF Shelved
<1>4. \A r \in 1..n : row[r] # {}
  <2>1. Cardinality({}) = 0
    BY FS_EmptySet
  <2>. QED
    BY <1>1, <2>1 DEF Shelved
<1>5. \A r, s \in 1..n : row[r] = row[s] => r = s
  <2>1. ASSUME NEW r \in 1..n, NEW s \in 1..n, r < s PROVE row[r] # row[s]
    <3>1. PICK a \in row[r] : TRUE
      BY <1>4
    <3>2. a.y \in Int /\ (a \in row[s] => a.y + Eps < a.y)
      BY <1>2, <1>3, <2>1 DEF Shelved
    <3>. QED
      BY <1>1, <3>1, <3>2
  <2>2. ASSUME NEW r \in 1..n, NEW s \in 1..n, row[r] = row[s] PROVE r = s
    <3>1. ~(r < s) /\ ~(s < r)
      BY <2>1, <2>2
    <3>. QED
      BY <3>1 DEF Shelved
  <2>. QED
    BY <2>2
<1>. QED
  BY <1>1, <1>2, <1>3, <1>4, <1>5

LEMMA NearIsRow ==
  ASSUME NEW items, NEW row, NEW n, Shelved(items, row, n), NEW r \in 1..n, NEW a \in row[r]
  PROVE  {b \in items : Near(a, b)} = row[r]
<1>1. \A b \in row[r] : Near(a, b) /\ b \in items
  BY Spaced DEF Shelved, Near
<1>2. ASSUME NEW b \in items, Near(a, b) PROVE b \in row[r]
  <2>1. PICK s \in 1..n : b \in row[s]
    BY Spaced
  <2>2. a.y \in Int /\ b.y \in Int /\ Eps \in Nat
    BY Spaced
  <2>3. ~(r < s)
    <3>1. r < s => a.y + Eps < b.y
      BY <2>1 DEF Shelved
    <3>2. a.y - b.y >= -Eps
      BY <1>2, <2>2 DEF Near
    <3>. QED
      BY <2>2, <3>1, <3>2
  <2>4. ~(s < r)
    <3>1. s < r => b.y + Eps < a.y
      BY <2>1 DEF Shelved
    <3>2. a.y - b.y <= Eps
      BY <1>2, <2>2 DEF Near
    <3>. QED
      BY <2>2, <3>1, <3>2
  <2>5. r = s
    BY <2>3, <2>4 DEF Shelved
  <2>. QED
    BY <2>1, <2>5
<1>. QED
  BY <1>1, <1>2

LEMMA AllCore ==
  ASSUME NEW items, NEW row, NEW n, Shelved(items, row, n)
  PROVE  Core(items) = items
<1>1. ASSUME NEW a \in items PROVE Cardinality({b \in items : Near(a, b)}) >= RowSamples
  <2>1. PICK r \in 1..n : a \in row[r]
    BY Spaced
  <2>2. {b \in items : Near(a, b)} = row[r]
    BY <2>1, NearIsRow
  <2>. QED
    BY <2>2 DEF Shelved
<1>. QED
  BY <1>1 DEF Core

\* The lowest box of a row has no box of another row within Eps below it.
LEMMA RowsApart ==
  ASSUME NEW items, NEW row, NEW n, Shelved(items, row, n), NEW r \in 1..n, NEW s \in 1..n, r < s,
         NEW a \in row[r], NEW b \in row[s]
  PROVE  ~Joined(items, a, b)
<1>. DEFINE depths == {c.y - a.y + Eps : c \in row[r]}
<1>0. n \in Nat
  BY DEF Shelved
<1>1. Eps \in Nat /\ n \in Nat /\ \A c \in items : c.y \in Int
  BY <1>0, Spaced
<1>2. row[r] \subseteq items /\ a \in items /\ b \in items
  BY Spaced
<1>3. ASSUME NEW c \in row[r] PROVE c.y - a.y + Eps \in 0..(2 * Eps)
  <2>1. c.y - a.y \in -Eps..Eps /\ c.y \in Int /\ a.y \in Int
    BY <1>1, <1>2 DEF Shelved
  <2>. QED
    BY <1>1, <2>1
<1>4. PICK c \in row[r] : \A d \in row[r] : d.y - a.y + Eps <= c.y - a.y + Eps
  <2>1. depths \in SUBSET (0..(2 * Eps)) /\ depths # {} /\ 2 * Eps \in Nat
    BY <1>1, <1>3
  <2>2. \A m \in depths : \E d \in row[r] : m = d.y - a.y + Eps
    OBVIOUS
  <2>3. \A d \in row[r] : d.y - a.y + Eps \in depths
    OBVIOUS
  <2>. HIDE DEF depths
  <2>4. Max(depths) \in depths /\ \A m \in depths : m <= Max(depths)
    BY <2>1, GreatestMember
  <2>. QED
    BY <2>2, <2>3, <2>4
<1>. HIDE DEF depths
<1>5. a.y \in Int /\ b.y \in Int /\ c.y \in Int /\ c \in items
  BY <1>1, <1>2
<1>6. a.y <= c.y
  <2>1. a.y - a.y + Eps <= c.y - a.y + Eps
    BY <1>4
  <2>. QED
    BY <1>1, <1>5, <2>1
<1>7. c.y < b.y
  <2>1. c.y + Eps < b.y
    BY DEF Shelved
  <2>. QED
    BY <1>1, <1>5, <2>1
<1>8. ASSUME NEW d \in items, d.y > c.y, d.y <= c.y + Eps PROVE FALSE
  <2>1. PICK t \in 1..n : d \in row[t]
    BY Spaced
  <2>2. d.y \in Int /\ t \in Int /\ r \in Int
    BY <1>1
  <2>3. CASE t = r
    <3>1. d.y - a.y + Eps <= c.y - a.y + Eps
      BY <1>4, <2>1, <2>3
    <3>. QED
      BY <1>1, <1>5, <1>8, <2>2, <3>1
  <2>4. CASE t < r
    <3>1. d.y + Eps < c.y
      BY <2>1, <2>4 DEF Shelved
    <3>. QED
      BY <1>1, <1>5, <1>8, <2>2, <3>1
  <2>5. CASE r < t
    <3>1. c.y + Eps < d.y
      BY <2>1, <2>5 DEF Shelved
    <3>. QED
      BY <1>1, <1>5, <1>8, <2>2, <3>1
  <2>. QED
    BY <2>2, <2>3, <2>4, <2>5
<1>. QED
  BY <1>5, <1>6, <1>7, <1>8 DEF Joined

LEMMA RowJoined ==
  ASSUME NEW items, NEW row, NEW n, Shelved(items, row, n), NEW r \in 1..n,
         NEW a \in row[r], NEW b \in row[r]
  PROVE  Joined(items, a, b)
<1>1. Eps \in Nat /\ a \in items /\ b \in items /\ \A c \in items : c.y \in Int
  BY Spaced
<1>2. b.y - a.y \in -Eps..Eps
  BY DEF Shelved
<1>3. \A c \in items : a.y <= c.y /\ c.y < b.y => b.y > c.y /\ b.y <= c.y + Eps
  BY <1>1, <1>2
<1>. QED
  BY <1>1, <1>3 DEF Joined

LEMMA RowSetsAre ==
  ASSUME NEW items, NEW row, NEW n, Shelved(items, row, n)
  PROVE  RowSets(items) = {row[r] : r \in 1..n}
<1>. DEFINE With(a) == {b \in items : Joined(items, a, b) /\ Joined(items, b, a)}
<1>1. ASSUME NEW r \in 1..n, NEW a \in row[r] PROVE With(a) = row[r]
  <2>1. \A b \in row[r] : b \in items /\ Joined(items, a, b) /\ Joined(items, b, a)
    BY Spaced, RowJoined
  <2>2. ASSUME NEW b \in items, Joined(items, a, b), Joined(items, b, a) PROVE b \in row[r]
    <3>1. PICK s \in 1..n : b \in row[s]
      BY Spaced
    <3>2. ~(r < s) /\ ~(s < r)
      BY <2>2, <3>1, RowsApart
    <3>3. r = s
      BY <3>2 DEF Shelved
    <3>. QED
      BY <3>1, <3>3
  <2>. QED
    BY <2>1, <2>2
<1>2. RowSets(items) = {With(a) : a \in items}
  BY AllCore DEF RowSets
<1>. HIDE DEF With
<1>3. ASSUME NEW a \in items PROVE \E r \in 1..n : With(a) = row[r]
  <2>1. PICK r \in 1..n : a \in row[r]
    BY Spaced
  <2>. QED
    BY <1>1, <2>1
<1>4. ASSUME NEW r \in 1..n PROVE \E a \in items : With(a) = row[r]
  <2>1. PICK a \in row[r] : a \in items
    BY Spaced
  <2>. QED
    BY <1>1, <2>1
<1>. QED
  BY <1>2, <1>3, <1>4

\* The grid has the rows of the picture, from top to bottom, and each lists its
\* boxes from left to right (GridDetector.detect_grid).
LEMMA RowsAreListed ==
  ASSUME NEW items, NEW row, NEW n, Shelved(items, row, n)
  PROVE  /\ DOMAIN Grid(items) = 1..n
         /\ \A r \in 1..n : Grid(items)[r] = Listed(row[r], LeftOf)
<1>. DEFINE S == RowSets(items)
            rows == Listed(S, Above)
<1>0. n \in Nat
  BY DEF Shelved
<1>1. S = {row[r] : r \in 1..n} /\ n \in Nat
  BY <1>0, RowSetsAre
<1>2. rows = ListedBy(S, AboveIn(S))
  BY ListsAre
<1>3. ASSUME NEW r \in 1..n, NEW s \in 1..n PROVE <<row[r], row[s]>> \in AboveIn(S) <=> r < s
  <2>1. row[r] \in S /\ row[s] \in S /\ n \in Nat /\ Eps \in Nat
    BY <1>1, Spaced
  <2>2. row[r] # row[s] <=> r # s
    BY Spaced
  <2>3. r < s => Above(row[r], row[s])
    <3>1. SUFFICES ASSUME r < s PROVE Above(row[r], row[s])
      OBVIOUS
    <3>2. PICK a \in row[r], b \in row[s] : a \in items /\ b \in items
      BY Spaced
    <3>3. a.y \in Int /\ b.y \in Int /\ a.y + Eps < b.y
      BY <3>1, <3>2, Spaced DEF Shelved
    <3>4. a.y < b.y
      BY <2>1, <3>3
    <3>. QED
      BY <3>2, <3>4 DEF Above
  <2>4. s < r => ~Above(row[r], row[s])
    <3>1. SUFFICES ASSUME s < r, NEW a \in row[r], NEW b \in row[s], a.y < b.y PROVE FALSE
      BY DEF Above
    <3>2. a.y \in Int /\ b.y \in Int /\ b.y + Eps < a.y
      BY <3>1, Spaced DEF Shelved
    <3>. QED
      BY <2>1, <3>1, <3>2
  <2>. HIDE DEF S
  <2>5. <<row[r], row[s]>> \in AboveIn(S) <=> (row[r] # row[s] /\ Above(row[r], row[s]))
    BY <2>1 DEF AboveIn, Pairs
  <2>6. r = s \/ r < s \/ s < r
    BY <2>1
  <2>7. r < s => r # s
    BY <2>1
  <2>8. s < r => ~(r < s)
    BY <2>1
  <2>. QED
    BY <2>2, <2>3, <2>4, <2>5, <2>6, <2>7, <2>8
<1>. HIDE DEF S
<1>4. Ordered(S, AboveIn(S), n, row)
  BY <1>1, <1>3 DEF Ordered
<1>5. DOMAIN rows = 1..n /\ \A r \in 1..n : rows[r] = row[r]
  BY <1>2, <1>4, ListedInOrder
<1>6. Grid(items) = [r \in DOMAIN rows |-> Listed(rows[r], LeftOf)]
  BY DEF Grid, S
<1>. HIDE DEF rows
<1>. QED
  BY <1>5, <1>6

\* A row of boxes, and the sequence of them.
LEMMA RowListed ==
  ASSUME NEW S, IsFiniteSet(S), \A a \in S : a.x \in Int, \A a, b \in S : a.x = b.x => a = b
  PROVE  /\ Listed(S, LeftOf) \in Seq(S)
         /\ Len(Listed(S, LeftOf)) = Cardinality(S)
         /\ DOMAIN Listed(S, LeftOf) = 1..Cardinality(S)
         /\ Lists(S, LeftIn(S), Listed(S, LeftOf))
<1>. DEFINE list == Listed(S, LeftOf)
            R == LeftIn(S)
<1>1. list = ListedBy(S, R)
  BY ListsAre
<1>2. \A x, y \in S : <<x, y>> \in R <=> x.x < y.x
  <2>1. \A x, y \in S : <<x, y>> \in R <=> (x # y /\ x.x < y.x)
    BY DEF LeftIn, Pairs, LeftOf
  <2>2. \A x \in S : ~(x.x < x.x)
    OBVIOUS
  <2>. HIDE DEF R
  <2>. QED
    BY <2>1, <2>2
<1>. HIDE DEF R
<1>3. StrictOrder(S, R)
  <2>1. \A x \in S : <<x, x>> \notin R
    BY <1>2
  <2>2. \A x, y \in S : x # y => <<x, y>> \in R \/ <<y, x>> \in R
    BY <1>2
  <2>3. \A x, y, z \in S : <<x, y>> \in R /\ <<y, z>> \in R => <<x, z>> \in R
    BY <1>2
  <2>. QED
    BY <2>1, <2>2, <2>3 DEF StrictOrder
<1>4. Cardinality(S) \in Nat /\ DOMAIN list = 1..Cardinality(S)
  BY <1>1, FS_CardinalityType DEF ListedBy
<1>5. Lists(S, R, list)
  <2>1. \A i \in 1..Cardinality(S) : list[i] = CHOOSE x \in S : Cardinality(Below(S, R, x)) = i - 1
    BY <1>1 DEF ListedBy
  <2>. HIDE DEF list
  <2>. QED
    BY <1>3, <2>1, ListedByRank
<1>6. list = [i \in 1..Cardinality(S) |-> list[i]]
  BY <1>1 DEF ListedBy
<1>. HIDE DEF list
<1>7. list \in Seq(S) /\ Len(list) = Cardinality(S)
  <2>1. list \in [1..Cardinality(S) -> S]
    BY <1>5, <1>6 DEF Lists
  <2>. QED
    BY <1>4, <2>1
<1>. QED
  BY <1>4, <1>5, <1>7 DEF list, R

-----------------------------------------------------------------------------
(* The picture of the shelf *)

ShelfWidth(r) == IF r = 1 THEN 4 ELSE 3

Y(t, r, c) == (Eps + 5) * r + t * c

LEMMA Heights ==
  ASSUME NEW t \in Tilts, NEW c \in 1..4, NEW d \in 1..4
  PROVE  /\ \A r \in 1..2 : Y(t, r, c) \in Int /\ Y(t, r, c) - Y(t, r, d) \in -Eps..Eps
         /\ Y(t, 1, c) + Eps < Y(t, 2, d)
<1>1. Eps \in Nat /\ t \in {0, 1} /\ 3 * t <= Eps
  BY GridAssumption DEF Tilts
<1>2. CASE t = 0
  <2>1. \A r \in 1..2 : Y(t, r, c) = (Eps + 5) * r /\ Y(t, r, d) = (Eps + 5) * r
    BY <1>1, <1>2 DEF Y
  <2>2. (Eps + 5) * 1 = Eps + 5 /\ (Eps + 5) * 2 = Eps + Eps + 10
    BY <1>1
  <2>3. \A r \in 1..2 : r = 1 \/ r = 2
    OBVIOUS
  <2>4. \A r \in 1..2 : (Eps + 5) * r \in Int
    BY <1>1, <2>2, <2>3
  <2>5. Y(t, 1, c) = Eps + 5 /\ Y(t, 2, d) = Eps + Eps + 10
    BY <2>1, <2>2
  <2>. QED
    BY <1>1, <2>1, <2>4, <2>5
<1>3. CASE t = 1
  <2>1. \A r \in 1..2 : Y(t, r, c) = (Eps + 5) * r + c /\ Y(t, r, d) = (Eps + 5) * r + d
    BY <1>1, <1>3 DEF Y
  <2>2. (Eps + 5) * 1 = Eps + 5 /\ (Eps + 5) * 2 = Eps + Eps + 10
    BY <1>1
  <2>3. \A r \in 1..2 : r = 1 \/ r = 2
    OBVIOUS
  <2>4. \A r \in 1..2 : (Eps + 5) * r \in Int
    BY <1>1, <2>2, <2>3
  <2>5. Y(t, 1, c) = Eps + 5 + c /\ Y(t, 2, d) = Eps + Eps + 10 + d
    BY <2>1, <2>2
  <2>6. 3 <= Eps
    BY <1>1, <1>3
  <2>. QED
    BY <1>1, <2>1, <2>4, <2>5, <2>6
<1>. QED
  BY <1>1, <1>2, <1>3

LEMMA FirstNumbers ==
  ASSUME NEW n \in Nat
  PROVE  IsFiniteSet(1..n) /\ Cardinality(1..n) = n
<1>1. IsFiniteSet(1..n) /\ Cardinality(1..n) = IF 1 > n THEN 0 ELSE (n - 1) + 1
  BY FS_Interval
<1>. QED
  BY <1>1

\* One box f[c] at each of the places C of a row.
OneBoxEach(S, C, f) ==
  /\ C \in SUBSET (1..4)
  /\ S = {f[c] : c \in C}
  /\ \A c \in C : f[c].x = c

LEMMA OneEach ==
  ASSUME NEW S, NEW C, NEW f, OneBoxEach(S, C, f)
  PROVE  IsFiniteSet(S) /\ Cardinality(S) = Cardinality(C) /\ IsFiniteSet(C)
<1>. DEFINE g == [c \in C |-> f[c]]
<1>0. C \in SUBSET (1..4) /\ S = {f[c] : c \in C} /\ \A c \in C : f[c].x = c
  BY DEF OneBoxEach
<1>1. IsFiniteSet(C)
  BY <1>0, FirstNumbers, FS_Subset
<1>2. \A c, d \in C : f[c] = f[d] => c = d
  <2>1. ASSUME NEW c \in C, NEW d \in C, f[c] = f[d] PROVE c = d
    <3>1. f[c].x = f[d].x
      BY <2>1
    <3>. QED
      BY <1>0, <3>1
  <2>. QED
    BY <2>1
<1>3. g \in Bijection(C, S)
  BY <1>0, <1>2 DEF Bijection, Injection, Surjection, IsInjective
<1>4. ExistsBijection(C, S)
  BY <1>3 DEF ExistsBijection
<1>. QED
  BY <1>1, <1>4, FS_Bijection

\* The picture, tilted by t, of the boxes f at the places C of each row.
RowOf(f, C, r) == {f[r][c] : c \in C[r]}

TwoRows(items, t, C, f) ==
  /\ t \in Tilts
  /\ items = UNION {RowOf(f, C, r) : r \in 1..2}
  /\ \A r \in 1..2 : /\ C[r] \in SUBSET (1..ShelfWidth(r))
                     /\ Cardinality(C[r]) >= RowSamples
                     /\ \A c \in C[r] : f[r][c].x = c /\ f[r][c].y = Y(t, r, c)

LEMMA PictureRows ==
  ASSUME NEW items, NEW t, NEW C, NEW f, TwoRows(items, t, C, f), NEW r \in 1..2
  PROVE  /\ IsFiniteSet(RowOf(f, C, r)) /\ Cardinality(RowOf(f, C, r)) >= RowSamples
         /\ \A a \in RowOf(f, C, r) : \E c \in C[r] : c \in 1..4 /\ a.x = c /\ a = f[r][c] /\ a.y = Y(t, r, c)
<1>. DEFINE fr == f[r]
            Cr == C[r]
<1>1. Cr \in SUBSET (1..4) /\ Cardinality(Cr) >= RowSamples /\ \A c \in Cr : fr[c].x = c /\ fr[c].y = Y(t, r, c)
  <2>1. 1..ShelfWidth(r) \subseteq 1..4
    BY DEF ShelfWidth
  <2>2. /\ Cr \in SUBSET (1..ShelfWidth(r)) /\ Cardinality(Cr) >= RowSamples
        /\ \A c \in Cr : fr[c].x = c /\ fr[c].y = Y(t, r, c)
    BY DEF TwoRows
  <2>. HIDE DEF Cr, fr
  <2>3. Cr \in SUBSET (1..4)
    BY <2>1, <2>2
  <2>. QED
    BY <2>2, <2>3
<1>2. RowOf(f, C, r) = {fr[c] : c \in Cr}
  BY DEF RowOf
<1>. HIDE DEF fr, Cr
<1>3. IsFiniteSet(RowOf(f, C, r)) /\ Cardinality(RowOf(f, C, r)) = Cardinality(Cr)
  <2>1. OneBoxEach(RowOf(f, C, r), Cr, fr)
    BY <1>1, <1>2 DEF OneBoxEach
  <2>. QED
    BY <2>1, OneEach
<1>4. \A a \in RowOf(f, C, r) : \E c \in Cr : c \in 1..4 /\ a.x = c /\ a = fr[c] /\ a.y = Y(t, r, c)
  BY <1>1, <1>2
<1>. QED
  BY <1>1, <1>3, <1>4 DEF fr, Cr

LEMMA PictureShelved ==
  ASSUME NEW items, NEW t, NEW C, NEW f, TwoRows(items, t, C, f)
  PROVE  Shelved(items, [r \in 1..2 |-> RowOf(f, C, r)], 2)
<1>. DEFINE row == [r \in 1..2 |-> RowOf(f, C, r)]
<1>1. items = UNION {row[r] : r \in 1..2} /\ t \in Tilts
  <2>1. \A r \in 1..2 : row[r] = RowOf(f, C, r)
    OBVIOUS
  <2>2. items = UNION {RowOf(f, C, r) : r \in 1..2} /\ t \in Tilts
    BY DEF TwoRows
  <2>. HIDE DEF row
  <2>. QED
    BY <2>1, <2>2
<1>2. ASSUME NEW r \in 1..2
      PROVE  /\ IsFiniteSet(row[r]) /\ Cardinality(row[r]) >= RowSamples
             /\ \A a \in row[r] : \E c \in 1..4 : a.x = c /\ a = f[r][c] /\ a.y = Y(t, r, c)
  BY PictureRows
<1>. HIDE DEF row
<1>3. ASSUME NEW r \in 1..2, NEW a \in row[r] PROVE a.x \in Int /\ a.y \in Int
  BY <1>1, <1>2, Heights
<1>4. ASSUME NEW r \in 1..2, NEW a \in row[r], NEW b \in row[r] PROVE a.y - b.y \in -Eps..Eps /\ (a.x = b.x => a = b)
  <2>1. PICK c \in 1..4 : a.x = c /\ a = f[r][c] /\ a.y = Y(t, r, c)
    BY <1>2
  <2>2. PICK d \in 1..4 : b.x = d /\ b = f[r][d] /\ b.y = Y(t, r, d)
    BY <1>2
  <2>3. Y(t, r, c) - Y(t, r, d) \in -Eps..Eps
    BY <1>1, Heights
  <2>. QED
    BY <2>1, <2>2, <2>3
<1>5. ASSUME NEW r \in 1..2, NEW s \in 1..2, r < s, NEW a \in row[r], NEW b \in row[s] PROVE a.y + Eps < b.y
  <2>1. r = 1 /\ s = 2
    BY <1>5
  <2>2. PICK c \in 1..4 : a.y = Y(t, 1, c)
    BY <1>2, <2>1
  <2>3. PICK d \in 1..4 : b.y = Y(t, 2, d)
    BY <1>2, <2>1
  <2>4. Y(t, 1, c) + Eps < Y(t, 2, d)
    BY <1>1, Heights
  <2>. QED
    BY <2>2, <2>3, <2>4
<1>6. Shelved(items, row, 2)
  BY <1>1, <1>2, <1>3, <1>4, <1>5 DEF Shelved
<1>. QED
  BY <1>6 DEF row

\* The grid of such a picture: in each row the boxes, by their places.
LEMMA PictureGrid ==
  ASSUME NEW items, NEW t, NEW C, NEW f, TwoRows(items, t, C, f)
  PROVE  /\ DOMAIN Grid(items) = 1..2
         /\ \A r \in 1..2 :
              LET list == Grid(items)[r]
                  R    == LeftIn(RowOf(f, C, r))
              IN  /\ list = ListedBy(RowOf(f, C, r), R)
                  /\ list \in Seq(RowOf(f, C, r))
                  /\ Lists(RowOf(f, C, r), R, list)
                  /\ DOMAIN list = 1..Cardinality(RowOf(f, C, r))
                  /\ IsFiniteSet(RowOf(f, C, r))
<1>. DEFINE row == [r \in 1..2 |-> RowOf(f, C, r)]
<1>1. Shelved(items, row, 2)
  BY PictureShelved
<1>. HIDE DEF row
<1>2. DOMAIN Grid(items) = 1..2 /\ \A r \in 1..2 : Grid(items)[r] = Listed(row[r], LeftOf)
  BY <1>1, RowsAreListed
<1>3. ASSUME NEW r \in 1..2
      PROVE  /\ row[r] = RowOf(f, C, r)
             /\ Listed(row[r], LeftOf) = ListedBy(row[r], LeftIn(row[r]))
             /\ Listed(row[r], LeftOf) \in Seq(row[r])
             /\ Lists(row[r], LeftIn(row[r]), Listed(row[r], LeftOf))
             /\ DOMAIN Listed(row[r], LeftOf) = 1..Cardinality(row[r])
             /\ IsFiniteSet(row[r])
  <2>. DEFINE S == row[r]
  <2>1. IsFiniteSet(S) /\ (\A a \in S : a.x \in Int) /\ \A a, b \in S : a.x = b.x => a = b
    BY <1>1 DEF Shelved
  <2>2. S = RowOf(f, C, r)
    BY DEF row
  <2>. HIDE DEF S
  <2>3. /\ Listed(S, LeftOf) \in Seq(S) /\ DOMAIN Listed(S, LeftOf) = 1..Cardinality(S)
        /\ Lists(S, LeftIn(S), Listed(S, LeftOf))
    BY <2>1, RowListed
  <2>4. Listed(S, LeftOf) = ListedBy(S, LeftIn(S))
    BY ListsAre
  <2>. QED
    BY <2>1, <2>2, <2>3, <2>4 DEF S
<1>. QED
  BY <1>2, <1>3

LEMMA PlacesAre ==
  /\ DOMAIN Places = 1..7
  /\ \A k \in 1..7 : /\ Places[k][1] \in 1..2 /\ Places[k][2] \in 1..ShelfWidth(Places[k][1])
                     /\ Places[k] = <<Places[k][1], Places[k][2]>>
  /\ \A r \in 1..2 : \A c \in 1..ShelfWidth(r) : \E k \in 1..7 : Places[k] = <<r, c>>
<1>1. DOMAIN Places = 1..7
  BY DEF Places
<1>2. /\ Places[1] = <<1, 1>> /\ Places[2] = <<1, 2>> /\ Places[3] = <<1, 3>> /\ Places[4] = <<1, 4>>
      /\ Places[5] = <<2, 1>> /\ Places[6] = <<2, 2>> /\ Places[7] = <<2, 3>>
  BY DEF Places
<1>3. ASSUME NEW k \in 1..7
      PROVE  /\ Places[k][1] \in 1..2 /\ Places[k][2] \in 1..ShelfWidth(Places[k][1])
             /\ Places[k] = <<Places[k][1], Places[k][2]>>
  <2>1. k = 1 \/ k = 2 \/ k = 3 \/ k = 4 \/ k = 5 \/ k = 6 \/ k = 7
    OBVIOUS
  <2>. QED
    BY <1>2, <2>1 DEF ShelfWidth
<1>4. ASSUME NEW r \in 1..2, NEW c \in 1..ShelfWidth(r) PROVE \E k \in 1..7 : Places[k] = <<r, c>>
  <2>1. CASE r = 1
    <3>1. c = 1 \/ c = 2 \/ c = 3 \/ c = 4
      BY <2>1 DEF ShelfWidth
    <3>2. 1 \in 1..7 /\ 2 \in 1..7 /\ 3 \in 1..7 /\ 4 \in 1..7
      OBVIOUS
    <3>. QED
      BY <1>2, <2>1, <3>1, <3>2
  <2>2. CASE r = 2
    <3>1. c = 1 \/ c = 2 \/ c = 3
      BY <2>2 DEF ShelfWidth
    <3>2. 5 \in 1..7 /\ 6 \in 1..7 /\ 7 \in 1..7
      OBVIOUS
    <3>. QED
      BY <1>2, <2>2, <3>1, <3>2
  <2>. QED
    BY <2>1, <2>2
<1>. QED
  BY <1>1, <1>3, <1>4

LEMMA SkusAre ==
  ASSUME NEW r \in 1..2
  PROVE  /\ \A c, d \in 1..ShelfWidth(r) : RowsOfShelf[r][c] = RowsOfShelf[r][d] => c = d
         /\ \A c \in 1..ShelfWidth(r) : RowsOfShelf[r][c] # "z" /\ RowsOfShelf[r][c] # "invalid_bbox"
<1>1. /\ RowsOfShelf[1][1] = "a" /\ RowsOfShelf[1][2] = "b" /\ RowsOfShelf[1][3] = "c" /\ RowsOfShelf[1][4] = "d"
      /\ RowsOfShelf[2][1] = "d" /\ RowsOfShelf[2][2] = "b" /\ RowsOfShelf[2][3] = "e"
  BY DEF RowsOfShelf
<1>2. CASE r = 1
  <2>1. \A c \in 1..ShelfWidth(r) : c = 1 \/ c = 2 \/ c = 3 \/ c = 4
    BY <1>2 DEF ShelfWidth
  <2>. QED
    BY <1>1, <1>2, <2>1
<1>3. CASE r = 2
  <2>1. \A c \in 1..ShelfWidth(r) : c = 1 \/ c = 2 \/ c = 3
    BY <1>3 DEF ShelfWidth
  <2>. QED
    BY <1>1, <1>3, <2>1
<1>. QED
  BY <1>2, <1>3

\* The boxes of the reference picture, which shows every item at its place.
Planned == [r \in 1..2 |-> 1..ShelfWidth(r)]

PlannedBox(t, r, c) == [x |-> c, y |-> Y(t, r, c), sku |-> RowsOfShelf[r][c], sure |-> TRUE]

PlannedBoxes(t) == [r \in 1..2 |-> [c \in 1..ShelfWidth(r) |-> PlannedBox(t, r, c)]]

PlannedRow(t, r) == RowOf(PlannedBoxes(t), Planned, r)

PlannedItems(t) ==
  {[x |-> d.x, y |-> d.y, sku |-> IF d.area THEN d.sku ELSE "sku_0", sure |-> d.sure] : d \in Range(Reference(t))}

LEMMA PlannedRowIs ==
  ASSUME NEW t, NEW r \in 1..2
  PROVE  PlannedRow(t, r) = {PlannedBox(t, r, c) : c \in 1..ShelfWidth(r)}
<1>1. Planned[r] = 1..ShelfWidth(r) /\ \A c \in 1..ShelfWidth(r) : PlannedBoxes(t)[r][c] = PlannedBox(t, r, c)
  BY DEF Planned, PlannedBoxes
<1>2. PlannedRow(t, r) = {PlannedBoxes(t)[r][c] : c \in Planned[r]}
  BY DEF PlannedRow, RowOf
<1>. QED
  BY <1>1, <1>2

LEMMA PlannedPicture ==
  ASSUME NEW t \in Tilts
  PROVE  TwoRows(PlannedItems(t), t, Planned, PlannedBoxes(t))
<1>. DEFINE item(d) == [x |-> d.x, y |-> d.y, sku |-> IF d.area THEN d.sku ELSE "sku_0", sure |-> d.sure]
<1>1. \A p : item(Box(p, t)) = PlannedBox(t, p[1], p[2])
  BY DEF Box, PlannedBox, Y
<1>2. PlannedItems(t) = {item(d) : d \in Range(Reference(t))}
  BY DEF PlannedItems
<1>. HIDE DEF item
<1>3. Range(Reference(t)) = {Box(Places[k], t) : k \in 1..7}
  BY PlacesAre DEF Range, Reference
<1>4. PlannedItems(t) = {PlannedBox(t, Places[k][1], Places[k][2]) : k \in 1..7}
  BY <1>1, <1>2, <1>3
<1>5. PlannedItems(t) = UNION {PlannedRow(t, r) : r \in 1..2}
  <2>1. ASSUME NEW a \in PlannedItems(t) PROVE \E r \in 1..2 : a \in PlannedRow(t, r)
    <3>1. PICK k \in 1..7 : a = PlannedBox(t, Places[k][1], Places[k][2])
      BY <1>4
    <3>2. Places[k][1] \in 1..2 /\ Places[k][2] \in 1..ShelfWidth(Places[k][1])
      BY PlacesAre
    <3>. QED
      BY <3>1, <3>2, PlannedRowIs
  <2>2. ASSUME NEW r \in 1..2, NEW a \in PlannedRow(t, r) PROVE a \in PlannedItems(t)
    <3>1. PICK c \in 1..ShelfWidth(r) : a = PlannedBox(t, r, c)
      BY PlannedRowIs
    <3>2. PICK k \in 1..7 : Places[k] = <<r, c>>
      BY PlacesAre
    <3>3. Places[k][1] = r /\ Places[k][2] = c
      BY <3>2
    <3>. QED
      BY <1>4, <3>1, <3>3
  <2>. QED
    BY <2>1, <2>2
<1>6. PlannedItems(t) = UNION {RowOf(PlannedBoxes(t), Planned, r) : r \in 1..2}
  BY <1>5 DEF PlannedRow
<1>7. ASSUME NEW r \in 1..2
      PROVE  /\ Planned[r] \in SUBSET (1..ShelfWidth(r))
             /\ Cardinality(Planned[r]) >= RowSamples
             /\ \A c \in Planned[r] : PlannedBoxes(t)[r][c].x = c /\ PlannedBoxes(t)[r][c].y = Y(t, r, c)
  <2>1. Planned[r] = 1..ShelfWidth(r)
    BY DEF Planned
  <2>2. \A c \in 1..ShelfWidth(r) : PlannedBoxes(t)[r][c] = PlannedBox(t, r, c)
    BY DEF PlannedBoxes
  <2>3. \A c : PlannedBox(t, r, c).x = c /\ PlannedBox(t, r, c).y = Y(t, r, c)
    BY DEF PlannedBox
  <2>4. Cardinality(1..ShelfWidth(r)) >= RowSamples
    <3>1. ShelfWidth(r) \in Nat /\ ShelfWidth(r) >= 3
      BY DEF ShelfWidth
    <3>2. Cardinality(1..ShelfWidth(r)) = ShelfWidth(r)
      BY <3>1, FirstNumbers
    <3>. QED
      BY <3>1, <3>2, GridAssumption
  <2>. QED
    BY <2>1, <2>2, <2>3, <2>4
<1>. QED
  BY <1>6, <1>7 DEF TwoRows

\* The planogram that is taken from it.
LEMMA PlanogramIs ==
  ASSUME NEW t \in Tilts
  PROVE  /\ DOMAIN Planogram(Reference(t)) = 1..2
         /\ \A r \in 1..2 : /\ Planogram(Reference(t))[r] \in Seq(PlannedRow(t, r))
                            /\ DOMAIN Planogram(Reference(t))[r] = 1..ShelfWidth(r)
                            /\ \A c \in 1..ShelfWidth(r) : Planogram(Reference(t))[r][c] = PlannedBox(t, r, c)
<1>1. Planogram(Reference(t)) = Grid(PlannedItems(t))
  BY DEF Planogram, PlannedItems
<1>2. /\ DOMAIN Grid(PlannedItems(t)) = 1..2
      /\ \A r \in 1..2 : /\ Grid(PlannedItems(t))[r] = ListedBy(PlannedRow(t, r), LeftIn(PlannedRow(t, r)))
                         /\ Grid(PlannedItems(t))[r] \in Seq(PlannedRow(t, r))
  BY PlannedPicture, PictureGrid DEF PlannedRow
<1>3. ASSUME NEW r \in 1..2
      PROVE  /\ DOMAIN ListedBy(PlannedRow(t, r), LeftIn(PlannedRow(t, r))) = 1..ShelfWidth(r)
             /\ \A c \in 1..ShelfWidth(r) : ListedBy(PlannedRow(t, r), LeftIn(PlannedRow(t, r)))[c] = PlannedBox(t, r, c)
  <2>. DEFINE S == PlannedRow(t, r)
              n == ShelfWidth(r)
              f == [c \in 1..n |-> PlannedBox(t, r, c)]
  <2>1. n \in Nat
    BY DEF ShelfWidth
  <2>2. S = {PlannedBox(t, r, c) : c \in 1..n}
    BY PlannedRowIs
  <2>. HIDE DEF n
  <2>3. \A c \in 1..n : f[c] = PlannedBox(t, r, c)
    OBVIOUS
  <2>. HIDE DEF f, S
  <2>4. S = {f[c] : c \in 1..n}
    BY <2>2, <2>3
  <2>5. \A c \in 1..n : f[c].x = c /\ f[c] \in S
    <3>1. \A c : PlannedBox(t, r, c).x = c
      BY DEF PlannedBox
    <3>. QED
      BY <2>3, <2>4, <3>1
  <2>6. \A c, d \in 1..n : <<f[c], f[d]>> \in LeftIn(S) <=> c < d
    <3>1. ASSUME NEW c \in 1..n, NEW d \in 1..n PROVE <<f[c], f[d]>> \in LeftIn(S) <=> c < d
      <4>1. <<f[c], f[d]>> \in LeftIn(S) <=> (f[c] # f[d] /\ f[c].x < f[d].x)
        BY <2>5 DEF LeftIn, Pairs, LeftOf
      <4>2. c < d => f[c] # f[d]
        BY <2>5
      <4>. QED
        BY <2>5, <4>1, <4>2
    <3>. QED
      BY <3>1
  <2>7. Ordered(S, LeftIn(S), n, f)
    BY <2>1, <2>4, <2>6 DEF Ordered
  <2>8. DOMAIN ListedBy(S, LeftIn(S)) = 1..n /\ \A c \in 1..n : ListedBy(S, LeftIn(S))[c] = f[c]
    BY <2>7, ListedInOrder
  <2>. QED
    BY <2>3, <2>8 DEF S, n
<1>. QED
  BY <1>1, <1>2, <1>3

\* A frame that shows any of the five things at each place.
AnyShelf(in) ==
  /\ in.tilt \in Tilts
  /\ DOMAIN in.seen = 1..2
  /\ \A r \in 1..2 : /\ DOMAIN in.seen[r] = 1..ShelfWidth(r)
                     /\ \A c \in 1..ShelfWidth(r) : in.seen[r][c] \in Seen

LEMMA BoxSeenIs ==
  ASSUME NEW in, NEW p
  PROVE  /\ BoxSeen(in, p).x = p[2] /\ BoxSeen(in, p).y = Y(in.tilt, p[1], p[2])
         /\ BoxSeen(in, p).sku = IF SeenAt(in, p) = "other" THEN "z" ELSE RowsOfShelf[p[1]][p[2]]
         /\ BoxSeen(in, p).sure = (SeenAt(in, p) # "faint")
         /\ BoxSeen(in, p).area = (SeenAt(in, p) # "flat")
<1>. DEFINE b == Box(p, in.tilt)
<1>1. /\ b = [b EXCEPT !.sku = b.sku]
      /\ b.x = p[2] /\ b.y = Y(in.tilt, p[1], p[2]) /\ b.sku = RowsOfShelf[p[1]][p[2]]
      /\ DOMAIN b = {"x", "y", "sku", "area", "sure"}
  BY DEF Box, Y
<1>. HIDE DEF b
<1>2. BoxSeen(in, p) = [b EXCEPT !.sku = IF SeenAt(in, p) = "other" THEN "z" ELSE b.sku,
                                 !.sure = SeenAt(in, p) # "faint",
                                 !.area = SeenAt(in, p) # "flat"]
  BY DEF BoxSeen, b
<1>. QED
  BY <1>1, <1>2

\* The places that show a box, and the list of the boxes.
ShownPlaces(in) == {k \in 1..7 : SeenAt(in, Places[k]) # "none"}

LEMMA EarlierListed ==
  ASSUME NEW m \in Nat, NEW K \in SUBSET (1..m)
  PROVE  /\ Cardinality(K) \in Nat
         /\ DOMAIN Listed(K, <) = 1..Cardinality(K)
         /\ Lists(K, EarlierAt(K), Listed(K, <))
<1>. DEFINE R == EarlierAt(K)
            list == Listed(K, <)
<1>1. IsFiniteSet(K) /\ Cardinality(K) \in Nat
  BY FirstNumbers, FS_Subset, FS_CardinalityType
<1>2. list = ListedBy(K, R)
  BY ListsAre
<1>3. \A x, y \in K : <<x, y>> \in R <=> x < y
  BY DEF EarlierAt, Pairs
<1>. HIDE DEF R
<1>4. StrictOrder(K, R)
  BY <1>3 DEF StrictOrder
<1>5. DOMAIN list = 1..Cardinality(K) /\ \A i \in 1..Cardinality(K) : list[i] = CHOOSE x \in K : Cardinality(Below(K, R, x)) = i - 1
  BY <1>2 DEF ListedBy
<1>. HIDE DEF list
<1>6. Lists(K, R, list)
  BY <1>1, <1>4, <1>5, ListedByRank
<1>. QED
  BY <1>1, <1>5, <1>6 DEF R, list

LEMMA FrameIs ==
  ASSUME NEW in
  PROVE  /\ \E n \in Nat : DOMAIN Frame(in) = 1..n
         /\ \A i \in DOMAIN Frame(in) : \E k \in ShownPlaces(in) : Frame(in)[i] = BoxSeen(in, Places[k])
         /\ \A k \in ShownPlaces(in) : \E i \in DOMAIN Frame(in) : Frame(in)[i] = BoxSeen(in, Places[k])
<1>. DEFINE K == ShownPlaces(in)
            shown == Listed(K, <)
<1>1. Frame(in) = [i \in DOMAIN shown |-> BoxSeen(in, Places[shown[i]])]
  <2>1. K = {k \in DOMAIN Places : SeenAt(in, Places[k]) # "none"}
    BY PlacesAre DEF ShownPlaces
  <2>2. shown = Listed({k \in DOMAIN Places : SeenAt(in, Places[k]) # "none"}, <)
    BY <2>1 DEF Listed
  <2>. HIDE DEF K, shown
  <2>. QED
    BY <2>2 DEF Frame
<1>2. K \in SUBSET (1..7)
  BY DEF ShownPlaces
<1>. HIDE DEF K
<1>3. Cardinality(K) \in Nat /\ DOMAIN shown = 1..Cardinality(K) /\ Lists(K, EarlierAt(K), shown)
  BY <1>2, EarlierListed
<1>. HIDE DEF shown
<1>4. (\A i \in DOMAIN shown : shown[i] \in K) /\ \A k \in K : \E i \in DOMAIN shown : shown[i] = k
  BY <1>3 DEF Lists
<1>. QED
  BY <1>1, <1>3, <1>4 DEF K

\* Names stay with their boxes if those without an area come last.
LastFlat(dets, n) ==
  /\ n \in Nat /\ DOMAIN dets = 1..n
  /\ \A i \in 1..n : dets[i].area \in BOOLEAN
  /\ \A i, j \in 1..n : i < j /\ ~dets[i].area => ~dets[j].area

LEMMA NamesStay ==
  ASSUME NEW dets, NEW n, LastFlat(dets, n), NEW i \in 1..n
  PROVE  NameOf(dets, i) = IF dets[i].area THEN dets[i].sku ELSE "invalid_bbox"
<1>. DEFINE A == {j \in 1..n : dets[j].area}
            k == IF A = {} THEN 0 ELSE Max(A)
            crops == Listed(A, <)
            id == [j \in 1..k |-> j]
<1>0. /\ n \in Nat /\ DOMAIN dets = 1..n /\ \A j \in 1..n : dets[j].area \in BOOLEAN
      /\ \A j, l \in 1..n : j < l /\ ~dets[j].area => ~dets[l].area
  BY DEF LastFlat
<1>1. A # {} => Max(A) \in A /\ \A j \in A : j <= Max(A)
  <2>1. A \in SUBSET (0..n) /\ n \in Nat
    BY <1>0
  <2>. HIDE DEF A
  <2>. QED
    BY <2>1, GreatestMember
<1>2. k \in 0..n /\ A = 1..k
  <2>1. CASE A = {}
    BY <1>0, <2>1
  <2>2. CASE A # {}
    <3>1. k = Max(A) /\ k \in 1..n /\ dets[k].area
      BY <1>1, <2>2
    <3>2. \A j \in A : j \in 1..k
      BY <1>0, <1>1, <2>2, <3>1
    <3>3. ASSUME NEW j \in 1..k PROVE j \in A
      <4>1. j \in 1..n /\ (j < k \/ j = k)
        BY <1>0, <3>1
      <4>. QED
        BY <1>0, <3>1, <4>1
    <3>4. k \in 0..n
      BY <3>1
    <3>. HIDE DEF A, k
    <3>. QED
      BY <3>2, <3>3, <3>4
  <2>. QED
    BY <2>1, <2>2
<1>3. \A j \in 1..n : dets[j].area <=> j <= k
  <2>1. \A j \in 1..n : dets[j].area <=> j \in A
    OBVIOUS
  <2>. HIDE DEF A, k
  <2>. QED
    BY <1>0, <1>2, <2>1
<1>4. Crops(dets) = crops
  <2>. DEFINE D == {j \in DOMAIN dets : dets[j].area}
  <2>1. D = A
    BY <1>0
  <2>2. Crops(dets) = Listed(D, <)
    BY DEF Crops
  <2>. HIDE DEF A, D
  <2>3. Crops(dets) = ListedBy(D, EarlierAt(D)) /\ crops = ListedBy(A, EarlierAt(A))
    BY <2>2, ListsAre
  <2>. HIDE DEF crops
  <2>. QED
    BY <2>1, <2>3
<1>. HIDE DEF A, k
<1>5. crops = ListedBy(A, EarlierAt(A))
  BY ListsAre
<1>6. Ordered(A, EarlierAt(A), k, id)
  <2>1. k \in Nat
    BY <1>0, <1>2
  <2>2. A = {id[j] : j \in 1..k}
    BY <1>2
  <2>3. \A j, l \in 1..k : <<id[j], id[l]>> \in EarlierAt(A) <=> j < l
    BY <1>2, <2>1 DEF EarlierAt, Pairs
  <2>. QED
    BY <2>1, <2>2, <2>3 DEF Ordered
<1>7. DOMAIN crops = 1..k /\ \A j \in 1..k : crops[j] = j
  <2>. HIDE DEF crops, id
  <2>1. DOMAIN crops = 1..k /\ \A j \in 1..k : crops[j] = id[j]
    BY <1>5, <1>6, ListedInOrder
  <2>. QED
    BY <2>1 DEF id
<1>8. Len(crops) = k
  <2>1. crops = [j \in 1..k |-> crops[j]]
    BY <1>5, <1>7 DEF ListedBy
  <2>2. crops \in [1..k -> A]
    BY <1>2, <1>7, <2>1
  <2>3. k \in Nat
    BY <1>0, <1>2
  <2>. HIDE DEF crops
  <2>4. crops \in Seq(A)
    BY <2>2, <2>3
  <2>. QED
    BY <1>7, <2>3, <2>4
<1>. HIDE DEF crops
<1>9. NameOf(dets, i) = IF i <= Len(crops) THEN dets[crops[i]].sku
                        ELSE IF dets[i].area THEN "unknown_sku" ELSE "invalid_bbox"
  BY <1>4 DEF NameOf
<1>10. i <= k => crops[i] = i
  BY <1>0, <1>2, <1>7
<1>. QED
  BY <1>3, <1>8, <1>9, <1>10

\* What the frame is made of: the boxes the detector is sure of, with their names.
ShownAt(in) == [r \in 1..2 |-> {c \in 1..ShelfWidth(r) : in.seen[r][c] \in {"own", "other", "flat"}}]

ShownSku(s, r, c) == IF s = "flat" THEN "invalid_bbox" ELSE IF s = "other" THEN "z" ELSE RowsOfShelf[r][c]

ShownBox(in, r, c) == [x |-> c, y |-> Y(in.tilt, r, c), sku |-> ShownSku(in.seen[r][c], r, c), sure |-> TRUE]

ShownBoxes(in) == [r \in 1..2 |-> [c \in 1..ShelfWidth(r) |-> ShownBox(in, r, c)]]

ShownRow(in, r) == RowOf(ShownBoxes(in), ShownAt(in), r)

SureItems(in) == {d \in Named(Frame(in)) : d.sure}

LEMMA ShownRowIs ==
  ASSUME NEW in, NEW r \in 1..2
  PROVE  /\ ShownAt(in)[r] = {c \in 1..ShelfWidth(r) : in.seen[r][c] \in {"own", "other", "flat"}}
         /\ ShownAt(in)[r] \in SUBSET (1..ShelfWidth(r))
         /\ \A c \in ShownAt(in)[r] : ShownBoxes(in)[r][c] = ShownBox(in, r, c)
         /\ \A a : a \in ShownRow(in, r) <=> \E c \in ShownAt(in)[r] : a = ShownBox(in, r, c)
<1>1. ShownAt(in)[r] = {c \in 1..ShelfWidth(r) : in.seen[r][c] \in {"own", "other", "flat"}}
  BY DEF ShownAt
<1>2. \A c \in 1..ShelfWidth(r) : ShownBoxes(in)[r][c] = ShownBox(in, r, c)
  BY DEF ShownBoxes
<1>3. ShownRow(in, r) = {ShownBoxes(in)[r][c] : c \in ShownAt(in)[r]}
  BY DEF ShownRow, RowOf
<1>4. \A c \in ShownAt(in)[r] : c \in 1..ShelfWidth(r)
  BY <1>1
<1>. QED
  BY <1>1, <1>2, <1>3, <1>4

LEMMA LegibleFrame ==
  ASSUME NEW in, AnyShelf(in), Legible(in)
  PROVE  \E n : LastFlat(Frame(in), n)
<1>1. PICK n \in Nat : DOMAIN Frame(in) = 1..n
  BY FrameIs
<1>2. \A i \in 1..n : Frame(in)[i].area \in BOOLEAN
  <2>1. ASSUME NEW i \in 1..n PROVE Frame(in)[i].area \in BOOLEAN
    <3>1. PICK k : Frame(in)[i] = BoxSeen(in, Places[k])
      BY <1>1, FrameIs
    <3>2. BoxSeen(in, Places[k]).area = (SeenAt(in, Places[k]) # "flat")
      BY BoxSeenIs
    <3>. QED
      BY <3>1, <3>2
  <2>. QED
    BY <2>1
<1>3. \A i, j \in 1..n : i < j /\ ~Frame(in)[i].area => ~Frame(in)[j].area
  BY <1>1 DEF Legible
<1>. QED
  BY <1>1, <1>2, <1>3 DEF LastFlat

\* The box of a place, named.
LEMMA NamedBox ==
  ASSUME NEW in, AnyShelf(in), Legible(in), NEW i \in DOMAIN Frame(in), NEW k \in ShownPlaces(in),
         Frame(in)[i] = BoxSeen(in, Places[k])
  PROVE  /\ Frame(in)[i].x = Places[k][2]
         /\ Frame(in)[i].y = Y(in.tilt, Places[k][1], Places[k][2])
         /\ NameOf(Frame(in), i) = ShownSku(in.seen[Places[k][1]][Places[k][2]], Places[k][1], Places[k][2])
         /\ Frame(in)[i].sure = (in.seen[Places[k][1]][Places[k][2]] # "faint")
<1>. DEFINE p == Places[k]
            s == in.seen[p[1]][p[2]]
            b == Frame(in)[i]
<1>1. /\ b.x = p[2] /\ b.y = Y(in.tilt, p[1], p[2])
      /\ b.sku = IF s = "other" THEN "z" ELSE RowsOfShelf[p[1]][p[2]]
      /\ b.sure = (s # "faint") /\ b.area = (s # "flat")
  <2>1. SeenAt(in, p) = s
    BY DEF SeenAt
  <2>2. b = BoxSeen(in, p)
    OBVIOUS
  <2>. HIDE DEF p, s, b
  <2>. QED
    BY <2>1, <2>2, BoxSeenIs
<1>2. NameOf(Frame(in), i) = IF b.area THEN b.sku ELSE "invalid_bbox"
  <2>1. PICK n : LastFlat(Frame(in), n)
    BY LegibleFrame
  <2>2. i \in 1..n
    BY <2>1 DEF LastFlat
  <2>. QED
    BY <2>1, <2>2, NamesStay
<1>. HIDE DEF p, s, b
<1>3. NameOf(Frame(in), i) = ShownSku(s, p[1], p[2])
  BY <1>1, <1>2 DEF ShownSku
<1>. QED
  BY <1>1, <1>3 DEF p, s, b

LEMMA SureItemsAre ==
  ASSUME NEW in, AnyShelf(in), Legible(in)
  PROVE  SureItems(in) = UNION {ShownRow(in, r) : r \in 1..2}
<1>. DEFINE F == Frame(in)
            named(i) == [x |-> F[i].x, y |-> F[i].y, sku |-> NameOf(F, i), sure |-> F[i].sure]
<1>1. SureItems(in) = {d \in {named(i) : i \in DOMAIN F} : d.sure}
  BY DEF SureItems, Named
<1>2. \A i : named(i).sure = F[i].sure
  OBVIOUS
<1>3. ASSUME NEW i \in DOMAIN F, NEW k \in ShownPlaces(in), F[i] = BoxSeen(in, Places[k]),
             in.seen[Places[k][1]][Places[k][2]] # "faint"
      PROVE  named(i) = ShownBox(in, Places[k][1], Places[k][2]) /\ F[i].sure
  <2>1. /\ F[i].x = Places[k][2] /\ F[i].y = Y(in.tilt, Places[k][1], Places[k][2])
        /\ NameOf(F, i) = ShownSku(in.seen[Places[k][1]][Places[k][2]], Places[k][1], Places[k][2])
        /\ F[i].sure = (in.seen[Places[k][1]][Places[k][2]] # "faint")
    BY <1>3, NamedBox
  <2>2. F[i].sure = TRUE
    BY <1>3, <2>1
  <2>. HIDE DEF F
  <2>. QED
    BY <2>1, <2>2 DEF ShownBox
<1>. HIDE DEF named
<1>4. ASSUME NEW d \in SureItems(in) PROVE \E r \in 1..2 : d \in ShownRow(in, r)
  <2>1. PICK i \in DOMAIN F : d = named(i) /\ F[i].sure
    BY <1>1, <1>2
  <2>2. PICK k \in ShownPlaces(in) : F[i] = BoxSeen(in, Places[k])
    BY FrameIs
  <2>. DEFINE r == Places[k][1]
              c == Places[k][2]
  <2>3. k \in 1..7 /\ r \in 1..2 /\ c \in 1..ShelfWidth(r) /\ in.seen[r][c] # "none"
    BY PlacesAre DEF ShownPlaces, SeenAt
  <2>4. in.seen[r][c] # "faint"
    BY <2>1, <2>2, NamedBox
  <2>5. d = ShownBox(in, r, c)
    BY <1>3, <2>1, <2>2, <2>4
  <2>. HIDE DEF r, c, F
  <2>6. in.seen[r][c] \in {"own", "other", "flat"}
    BY <2>3, <2>4 DEF AnyShelf, Seen
  <2>7. c \in ShownAt(in)[r]
    BY <2>3, <2>6, ShownRowIs
  <2>. QED
    BY <2>3, <2>5, <2>7, ShownRowIs
<1>5. ASSUME NEW r \in 1..2, NEW d \in ShownRow(in, r) PROVE d \in SureItems(in)
  <2>1. PICK c \in ShownAt(in)[r] : d = ShownBox(in, r, c)
    BY ShownRowIs
  <2>2. c \in 1..ShelfWidth(r) /\ in.seen[r][c] \in {"own", "other", "flat"}
    BY ShownRowIs
  <2>3. PICK k \in 1..7 : Places[k] = <<r, c>>
    BY <2>2, PlacesAre
  <2>4. Places[k][1] = r /\ Places[k][2] = c
    BY <2>3
  <2>5. k \in ShownPlaces(in)
    BY <2>2, <2>4 DEF ShownPlaces, SeenAt
  <2>6. PICK i \in DOMAIN F : F[i] = BoxSeen(in, Places[k])
    BY <2>5, FrameIs
  <2>. HIDE DEF F
  <2>7. named(i) = ShownBox(in, r, c) /\ F[i].sure
    BY <1>3, <2>2, <2>4, <2>5, <2>6
  <2>. QED
    BY <1>1, <1>2, <2>1, <2>7
<1>. QED
  BY <1>4, <1>5

LEMMA ShownPicture ==
  ASSUME NEW in, AnyShelf(in), Legible(in)
  PROVE  TwoRows(SureItems(in), in.tilt, ShownAt(in), ShownBoxes(in))
<1>1. SureItems(in) = UNION {RowOf(ShownBoxes(in), ShownAt(in), r) : r \in 1..2}
  BY SureItemsAre DEF ShownRow
<1>2. ASSUME NEW r \in 1..2
      PROVE  /\ ShownAt(in)[r] \in SUBSET (1..ShelfWidth(r))
             /\ Cardinality(ShownAt(in)[r]) >= RowSamples
             /\ \A c \in ShownAt(in)[r] : ShownBoxes(in)[r][c].x = c /\ ShownBoxes(in)[r][c].y = Y(in.tilt, r, c)
  <2>1. \A c : ShownBox(in, r, c).x = c /\ ShownBox(in, r, c).y = Y(in.tilt, r, c)
    BY DEF ShownBox
  <2>2. Counted(in, r, {"own", "other", "flat"}) >= RowSamples
    BY DEF AnyShelf, Legible
  <2>3. ShownAt(in)[r] = {c \in DOMAIN in.seen[r] : in.seen[r][c] \in {"own", "other", "flat"}}
    <3>1. DOMAIN in.seen[r] = 1..ShelfWidth(r)
      BY DEF AnyShelf
    <3>. QED
      BY <3>1, ShownRowIs
  <2>4. Cardinality(ShownAt(in)[r]) >= RowSamples
    BY <2>2, <2>3 DEF Counted
  <2>. QED
    BY <2>1, <2>4, ShownRowIs
<1>3. in.tilt \in Tilts
  BY DEF AnyShelf
<1>. QED
  BY <1>1, <1>2, <1>3 DEF TwoRows

\* A row of the frame shows the row of the planogram.
ShelfRow(in, r) == Grid(SureItems(in))[r]

PlaceOf(in, r) == [j \in DOMAIN ShelfRow(in, r) |-> ShelfRow(in, r)[j].x]

LEMMA ShelfRowIs ==
  ASSUME NEW in, AnyShelf(in), Legible(in), NEW r \in 1..2
  PROVE  /\ DOMAIN Grid(SureItems(in)) = 1..2
         /\ ShelfRow(in, r) \in Seq(ShownRow(in, r))
         /\ \E n \in Nat : DOMAIN ShelfRow(in, r) = 1..n
         /\ \A j \in DOMAIN ShelfRow(in, r) :
              /\ PlaceOf(in, r)[j] \in 1..ShelfWidth(r)
              /\ in.seen[r][PlaceOf(in, r)[j]] \in {"own", "other", "flat"}
              /\ ShelfRow(in, r)[j].sku = ShownSku(in.seen[r][PlaceOf(in, r)[j]], r, PlaceOf(in, r)[j])
         /\ \A j, l \in DOMAIN ShelfRow(in, r) : j < l => PlaceOf(in, r)[j] < PlaceOf(in, r)[l]
         /\ \A c \in 1..ShelfWidth(r) :
              in.seen[r][c] \in {"own", "other", "flat"} => \E j \in DOMAIN ShelfRow(in, r) : PlaceOf(in, r)[j] = c
<1>. DEFINE S == ShownRow(in, r)
            list == ShelfRow(in, r)
            at == PlaceOf(in, r)
            n == Cardinality(S)
<1>1. /\ DOMAIN Grid(SureItems(in)) = 1..2 /\ list \in Seq(S) /\ Lists(S, LeftIn(S), list)
      /\ DOMAIN list = 1..n /\ IsFiniteSet(S)
  BY ShownPicture, PictureGrid DEF ShelfRow, ShownRow
<1>2. n \in Nat
  BY <1>1, FS_CardinalityType
<1>3. \A j \in 1..n : at[j] = list[j].x
  BY <1>1 DEF PlaceOf
<1>. HIDE DEF S, list, at, n
<1>4. /\ \A j \in 1..n : list[j] \in S
      /\ \A a \in S : \E j \in 1..n : list[j] = a
      /\ \A j, l \in 1..n : j < l => <<list[j], list[l]>> \in LeftIn(S)
  BY <1>1 DEF Lists, n
<1>5. \A c : ShownBox(in, r, c).x = c /\ ShownBox(in, r, c).sku = ShownSku(in.seen[r][c], r, c)
  BY DEF ShownBox
<1>6. ASSUME NEW j \in 1..n
      PROVE  /\ at[j] \in 1..ShelfWidth(r) /\ in.seen[r][at[j]] \in {"own", "other", "flat"}
             /\ list[j].sku = ShownSku(in.seen[r][at[j]], r, at[j])
  <2>1. PICK c \in ShownAt(in)[r] : list[j] = ShownBox(in, r, c)
    BY <1>4, ShownRowIs DEF S
  <2>2. c \in 1..ShelfWidth(r) /\ in.seen[r][c] \in {"own", "other", "flat"}
    BY ShownRowIs
  <2>3. at[j] = c
    BY <1>3, <1>5, <2>1
  <2>. QED
    BY <1>5, <2>1, <2>2, <2>3
<1>7. ASSUME NEW j \in 1..n, NEW l \in 1..n, j < l PROVE at[j] < at[l]
  <2>1. LeftOf(list[j], list[l])
    BY <1>4, <1>7 DEF LeftIn
  <2>. QED
    BY <1>3, <2>1 DEF LeftOf
<1>8. ASSUME NEW c \in 1..ShelfWidth(r), in.seen[r][c] \in {"own", "other", "flat"} PROVE \E j \in 1..n : at[j] = c
  <2>1. c \in ShownAt(in)[r]
    BY <1>8, ShownRowIs
  <2>2. ShownBox(in, r, c) \in S
    BY <2>1, ShownRowIs DEF S
  <2>3. PICK j \in 1..n : list[j] = ShownBox(in, r, c)
    BY <1>4, <2>2
  <2>4. at[j] = c
    BY <1>3, <1>5, <2>3
  <2>. QED
    BY <2>4
<1>. QED
  BY <1>1, <1>2, <1>6, <1>7, <1>8 DEF S, list, at

LEMMA ShelfRowShows ==
  ASSUME NEW in, AnyShelf(in), Legible(in), NEW r \in 1..2, NEW ref,
         DOMAIN ref = 1..ShelfWidth(r), \A c \in 1..ShelfWidth(r) : ref[c] = PlannedBox(in.tilt, r, c)
  PROVE  /\ ShowsRow(ref, ShelfRow(in, r), PlaceOf(in, r))
         /\ \A j \in DOMAIN ShelfRow(in, r) :
              j \in OwnBoxes(ref, ShelfRow(in, r), PlaceOf(in, r)) <=> in.seen[r][PlaceOf(in, r)[j]] = "own"
<1>. DEFINE cur == ShelfRow(in, r)
            at == PlaceOf(in, r)
            w == ShelfWidth(r)
<1>1. \A c \in 1..w : ref[c].sku = RowsOfShelf[r][c]
  BY DEF PlannedBox
<1>2. /\ \A j \in DOMAIN cur : /\ at[j] \in 1..w /\ in.seen[r][at[j]] \in {"own", "other", "flat"}
                               /\ cur[j].sku = ShownSku(in.seen[r][at[j]], r, at[j])
      /\ \A j, l \in DOMAIN cur : j < l => at[j] < at[l]
  BY ShelfRowIs
<1>3. /\ \A c, d \in 1..w : RowsOfShelf[r][c] = RowsOfShelf[r][d] => c = d
      /\ \A c \in 1..w : RowsOfShelf[r][c] # "z" /\ RowsOfShelf[r][c] # "invalid_bbox"
  BY SkusAre
<1>4. DOMAIN ref = 1..w
  OBVIOUS
<1>. HIDE DEF cur, at, w
<1>5. ASSUME NEW j \in DOMAIN cur
      PROVE  /\ in.seen[r][at[j]] = "own" => cur[j].sku = ref[at[j]].sku
             /\ in.seen[r][at[j]] # "own" => \A i \in 1..w : cur[j].sku # ref[i].sku
  <2>1. CASE in.seen[r][at[j]] = "own"
    BY <1>1, <1>2, <2>1 DEF ShownSku
  <2>2. CASE in.seen[r][at[j]] = "other"
    <3>1. cur[j].sku = "z"
      BY <1>2, <2>2 DEF ShownSku
    <3>. QED
      BY <1>1, <1>3, <2>2, <3>1
  <2>3. CASE in.seen[r][at[j]] = "flat"
    <3>1. cur[j].sku = "invalid_bbox"
      BY <1>2, <2>3 DEF ShownSku
    <3>. QED
      BY <1>1, <1>3, <2>3, <3>1
  <2>. QED
    BY <1>2, <2>1, <2>2, <2>3
<1>6. ShowsRow(ref, cur, at)
  <2>1. \A i, j \in 1..w : ref[i].sku = ref[j].sku => i = j
    BY <1>1, <1>3
  <2>2. \A j \in DOMAIN cur : cur[j].sku = ref[at[j]].sku \/ \A i \in 1..w : cur[j].sku # ref[i].sku
    BY <1>5
  <2>. QED
    BY <1>2, <1>4, <2>1, <2>2 DEF ShowsRow
<1>7. \A j \in DOMAIN cur : j \in OwnBoxes(ref, cur, at) <=> in.seen[r][at[j]] = "own"
  BY <1>2, <1>5 DEF OwnBoxes
<1>. QED
  BY <1>6, <1>7 DEF cur, at

\* The places of the row that show something else, and the boxes that do.
LEMMA ForeignBoxes ==
  ASSUME NEW in, AnyShelf(in), Legible(in), NEW r \in 1..2, NEW own,
         \A j \in DOMAIN ShelfRow(in, r) : j \in own <=> in.seen[r][PlaceOf(in, r)[j]] = "own"
  PROVE  Cardinality((DOMAIN ShelfRow(in, r)) \ own) = Counted(in, r, {"other", "flat"})
<1>. DEFINE cur == ShelfRow(in, r)
            at == PlaceOf(in, r)
            w == ShelfWidth(r)
            A == (DOMAIN cur) \ own
            B == {c \in 1..w : in.seen[r][c] \in {"other", "flat"}}
            R == {p \in A \X B : at[p[1]] = p[2]}
<1>1. /\ \E n \in Nat : DOMAIN cur = 1..n
      /\ \A j \in DOMAIN cur : at[j] \in 1..w /\ in.seen[r][at[j]] \in {"own", "other", "flat"}
      /\ \A j, l \in DOMAIN cur : j < l => at[j] < at[l]
      /\ \A c \in 1..w : in.seen[r][c] \in {"own", "other", "flat"} => \E j \in DOMAIN cur : at[j] = c
  BY ShelfRowIs
<1>2. \A j \in DOMAIN cur : j \in own <=> in.seen[r][at[j]] = "own"
  OBVIOUS
<1>3. Counted(in, r, {"other", "flat"}) = Cardinality(B)
  <2>1. DOMAIN in.seen[r] = 1..w
    BY DEF AnyShelf
  <2>. QED
    BY <2>1 DEF Counted
<1>. HIDE DEF cur, at, w
<1>4. IsFiniteSet(A)
  <2>1. IsFiniteSet(DOMAIN cur)
    BY <1>1, FirstNumbers
  <2>. QED
    BY <2>1, FS_Subset
<1>5. \A j \in A : at[j] \in B
  BY <1>1, <1>2
<1>6. \A c \in B : \E j \in A : at[j] = c
  BY <1>1, <1>2
<1>7. \A j, l \in A : at[j] = at[l] => j = l
  <2>1. ASSUME NEW j \in A, NEW l \in A, at[j] = at[l] PROVE j = l
    <3>1. ~(at[j] < at[l]) /\ ~(at[l] < at[j]) /\ j \in Int /\ l \in Int
      BY <1>1, <2>1
    <3>2. ~(j < l) /\ ~(l < j)
      BY <1>1, <3>1
    <3>. QED
      BY <3>1, <3>2
  <2>. QED
    BY <2>1
<1>. HIDE DEF A, B
<1>8. \A j \in A, c \in B : <<j, c>> \in R <=> at[j] = c
  OBVIOUS
<1>. HIDE DEF R
<1>9. /\ \A j \in A : \E c \in B : <<j, c>> \in R
      /\ \A c \in B : \E j \in A : <<j, c>> \in R
      /\ \A j, l \in A, c, d \in B : <<j, c>> \in R /\ <<l, d>> \in R => (j = l <=> c = d)
  BY <1>5, <1>6, <1>7, <1>8
<1>10. Cardinality(A) = Cardinality(B)
  BY <1>4, <1>9, Paired
<1>. QED
  BY <1>3, <1>10 DEF A, cur

\* The theorem about a row, for two rows of a grid.
RowRead(ref, cur, at, states, own) ==
  /\ DOMAIN states = DOMAIN ref
  /\ \A i \in DOMAIN ref : states[i] = "ok" <=> \E j \in own : at[j] = i
  /\ Cardinality({i \in DOMAIN ref : states[i] = "misplaced"}) = Cardinality((DOMAIN cur) \ own)

LEMMA RowIsRead ==
  ASSUME NEW A, NEW B, NEW ref \in Seq(A), NEW cur \in Seq(B), NEW at, ShowsRow(ref, cur, at)
  PROVE  RowRead(ref, cur, at, MatchRow(ref, cur), OwnBoxes(ref, cur, at))
<1>. DEFINE T == A \cup B
<1>1. ref \in Seq(T) /\ cur \in Seq(T)
  OBVIOUS
<1>. HIDE DEF T
<1>. QED
  BY <1>1, RowTheorem DEF RowRead

\* Whatever the places of the shelf show, an item in its place is ok, nothing else
\* is, and each row has as many misplaced cells as wrong items
\* (CellStateComputation.compute_cell_states).
LEMMA ShelfIsRead ==
  ASSUME NEW in, AnyShelf(in), Legible(in), NEW r \in 1..2
  PROVE  LET states == CellStates(Planogram(Reference(in.tilt)), Frame(in))
         IN  /\ DOMAIN states[r] = 1..ShelfWidth(r)
             /\ \A c \in 1..ShelfWidth(r) : states[r][c] = "ok" <=> in.seen[r][c] = "own"
             /\ Cardinality({c \in DOMAIN states[r] : states[r][c] = "misplaced"})
                  = Counted(in, r, {"other", "flat"})
<1>. DEFINE states == CellStates(Planogram(Reference(in.tilt)), Frame(in))
            ref == Planogram(Reference(in.tilt))[r]
            cur == ShelfRow(in, r)
            at == PlaceOf(in, r)
            own == OwnBoxes(ref, cur, at)
            w == ShelfWidth(r)
<1>1. in.tilt \in Tilts
  BY DEF AnyShelf
<1>2. /\ DOMAIN Planogram(Reference(in.tilt)) = 1..2
      /\ ref \in Seq(PlannedRow(in.tilt, r)) /\ DOMAIN ref = 1..w
      /\ \A c \in 1..w : ref[c] = PlannedBox(in.tilt, r, c)
  BY <1>1, PlanogramIs
<1>3. states[r] = MatchRow(ref, cur)
  <2>1. r \in DOMAIN Grid(SureItems(in))
    BY ShelfRowIs
  <2>. QED
    BY <1>2, <2>1 DEF CellStates, MatchGrids, ShelfRow, SureItems
<1>. HIDE DEF states, ref
<1>4. ShowsRow(ref, cur, at) /\ \A j \in DOMAIN cur : j \in own <=> in.seen[r][at[j]] = "own"
  BY <1>2, ShelfRowShows
<1>5. cur \in Seq(ShownRow(in, r))
  BY ShelfRowIs
<1>6. \A c \in 1..w : in.seen[r][c] = "own" => \E j \in DOMAIN cur : at[j] = c
  BY ShelfRowIs
<1>7. Cardinality((DOMAIN cur) \ own) = Counted(in, r, {"other", "flat"})
  BY <1>4, ForeignBoxes
<1>8. own \subseteq DOMAIN cur
  BY DEF OwnBoxes
<1>. HIDE DEF cur, at, w, own
<1>9. RowRead(ref, cur, at, states[r], own)
  BY <1>2, <1>3, <1>4, <1>5, RowIsRead DEF own
<1>10. /\ DOMAIN states[r] = DOMAIN ref
       /\ \A i \in DOMAIN ref : states[r][i] = "ok" <=> \E j \in own : at[j] = i
       /\ Cardinality({i \in DOMAIN ref : states[r][i] = "misplaced"}) = Cardinality((DOMAIN cur) \ own)
  BY <1>9 DEF RowRead
<1>11. ASSUME NEW c \in 1..w PROVE states[r][c] = "ok" <=> in.seen[r][c] = "own"
  <2>1. states[r][c] = "ok" <=> \E j \in own : at[j] = c
    BY <1>2, <1>10
  <2>2. (\E j \in own : at[j] = c) <=> in.seen[r][c] = "own"
    BY <1>4, <1>6, <1>8
  <2>. QED
    BY <2>1, <2>2
<1>12. DOMAIN states[r] = 1..w
  BY <1>2, <1>10
<1>13. Cardinality({c \in DOMAIN states[r] : states[r][c] = "misplaced"}) = Counted(in, r, {"other", "flat"})
  BY <1>7, <1>10
<1>. QED
  BY <1>11, <1>12, <1>13 DEF states, w

\* Every call of the model that reads a shelf.
ShelfCall == [tilt : Tilts, seen : {<<u, l>> : u \in [1..4 -> Seen], l \in [1..3 -> {"own", "none"}]}]

LEMMA CallIsShelf ==
  ASSUME NEW in \in ShelfCall
  PROVE  AnyShelf(in)
<1>1. PICK u \in [1..4 -> Seen], l \in [1..3 -> {"own", "none"}] : in.seen = <<u, l>> /\ in.tilt \in Tilts
  BY DEF ShelfCall
<1>2. DOMAIN in.seen = 1..2 /\ in.seen[1] = u /\ in.seen[2] = l
  BY <1>1
<1>3. ASSUME NEW r \in 1..2
      PROVE  DOMAIN in.seen[r] = 1..ShelfWidth(r) /\ \A c \in 1..ShelfWidth(r) : in.seen[r][c] \in Seen
  <2>1. CASE r = 1
    BY <1>2, <2>1 DEF ShelfWidth
  <2>2. CASE r = 2
    BY <1>2, <2>2 DEF ShelfWidth, Seen
  <2>. QED
    BY <2>1, <2>2
<1>. QED
  BY <1>1, <1>2, <1>3 DEF AnyShelf

-----------------------------------------------------------------------------
(* The calls: what each is made with *)

EventCall == [event : Emitted, short : {0, 1}, again : {0, 1}]

LineCall == [line : Lines, from : Plane, to : Plane]

VideoCall == [found : BOOLEAN, reads : Seq(AnyRead)]

\* The reads of the videos that are run in batches.
BatchReads ==
  {Seven, Picture({1}), Picture({-1}), Nothing("bad"), Nothing("empty"), Nothing("eof")}

\* A call is one of those that an action makes.
CallOK ==
  ~Idle =>
    /\ call[1] = "shelf" => call[2] \in ShelfCall
    /\ call[1] = "event" => call[2] \in EventCall
    /\ call[1] = "line" => call[2] \in LineCall
    /\ call[1] = "video" => call[2] \in VideoCall
    /\ call[1] = "batch" => call[2] \in Seq(Videos(BatchReads))
    /\ call[1] = "store" => call[2] \in StoreStates
    /\ call[1] = "track" => KeyframeInput(call[2])
    /\ call[1] = "stream" => call[2] \in Seq(AnyFrame)

LEMMA LineCalls == CrossLine => CallOK'
<1>. SUFFICES ASSUME CrossLine PROVE CallOK'
  OBVIOUS
<1>1. PICK p1, p2, from, to \in Points, inward \in {"bottom", "top", "left", "right", "other"} :
        call' = <<"line", [line |-> [p1 |-> p1, p2 |-> p2, inward |-> inward], from |-> from, to |-> to]>>
  BY DEF CrossLine
<1>2. Points \subseteq Plane
  BY CoordinatesAssumption DEF Points, Plane
<1>3. call'[1] = "line" /\ call'[2] = [line |-> [p1 |-> p1, p2 |-> p2, inward |-> inward], from |-> from, to |-> to]
  BY <1>1
<1>. QED
  BY <1>2, <1>3 DEF CallOK, LineCall, Lines

LEMMA ReadsArePictures == Shows(AnyRead)
<1>. DEFINE Boxes == (SUBSET {1, 2}) \cup {{-1, 1}}
<1>1. \A ids \in Boxes : ids \in SUBSET Int /\ IsFiniteSet(ids)
  <2>0. \A x, y : IsFiniteSet({x, y})
    <3>. SUFFICES ASSUME NEW x, NEW y PROVE IsFiniteSet({x, y})
      OBVIOUS
    <3>1. IsFiniteSet({x}) /\ {x, y} = {x} \cup {y}
      BY FS_Singleton
    <3>. QED
      BY <3>1, FS_AddElement
  <2>1. {1, 2} \in SUBSET Int /\ IsFiniteSet({1, 2})
    <3>1. {1, 2} \in SUBSET Int
      OBVIOUS
    <3>. QED
      BY <2>0, <3>1, Zenon
  <2>2. {-1, 1} \in SUBSET Int /\ IsFiniteSet({-1, 1})
    <3>1. {-1, 1} \in SUBSET Int
      OBVIOUS
    <3>. QED
      BY <2>0, <3>1, Zenon
  <2>3. \A ids \in SUBSET {1, 2} : IsFiniteSet(ids)
    BY <2>1, FS_Subset
  <2>. QED
    BY <2>1, <2>2, <2>3
<1>2. \A p \in AnyRead : (p.kind \in {"eof", "empty"} /\ p.ids = {}) \/ (p.kind = "frame" /\ p.ids \in Boxes)
  <2>1. \A p \in AnyRead : p = Nothing("eof") \/ p = Nothing("empty") \/ \E ids \in Boxes : p = Picture(ids)
    BY Zenon DEF AnyRead
  <2>. HIDE DEF Boxes
  <2>. QED
    BY <2>1 DEF Nothing, Picture
<1>3. IsFiniteSet({})
  BY FS_EmptySet
<1>. HIDE DEF Boxes
<1>. QED
  BY <1>1, <1>2, <1>3 DEF Shows

LEMMA VideoCalls == ASSUME PlayVideo PROVE call'[1] = "video" /\ call'[2] \in VideoCall
<1>1. PICK n \in 1..MaxReads : \E reads \in [1..n -> AnyRead] :
        call' = <<"video", [found |-> TRUE, reads |-> reads]>>
  BY DEF PlayVideo
<1>2. PICK reads \in [1..n -> AnyRead] : call' = <<"video", [found |-> TRUE, reads |-> reads]>>
  BY <1>1
<1>3. n \in Nat
  OBVIOUS
<1>4. reads \in Seq(AnyRead)
  BY <1>3
<1>. QED
  BY <1>2, <1>4 DEF VideoCall

LEMMA BatchReadsShow == Shows(BatchReads) /\ ShowsEvents(BatchReads)
<1>1. \A x, y : IsFiniteSet({x}) /\ IsFiniteSet({x, y})
  <2>. SUFFICES ASSUME NEW x, NEW y PROVE IsFiniteSet({x}) /\ IsFiniteSet({x, y})
    OBVIOUS
  <2>1. IsFiniteSet({x}) /\ {x, y} = {x} \cup {y}
    BY FS_Singleton
  <2>. QED
    BY <2>1, FS_AddElement
<1>2. IsFiniteSet({})
  BY FS_EmptySet
<1>3. {1, 2} \in SUBSET Int /\ {1} \in SUBSET Int /\ {-1} \in SUBSET Int /\ {} \in SUBSET Int
  OBVIOUS
<1>4. /\ Seven.ids = {1, 2} /\ Seven.crossings = {"entry", "exit"} /\ Seven.zones = {"enter", "dwell", "exit"}
      /\ \A ids : Picture(ids).ids = ids /\ Picture(ids).crossings = {} /\ Picture(ids).zones = {}
      /\ \A kind : Nothing(kind).ids = {} /\ Nothing(kind).crossings = {} /\ Nothing(kind).zones = {}
  BY DEF Seven, Picture, Nothing
<1>5. IsFiniteSet({1, 2}) /\ IsFiniteSet({1}) /\ IsFiniteSet({-1}) /\ IsFiniteSet({"entry", "exit"})
  BY <1>1, Zenon
<1>6. Shows(BatchReads)
  <2>1. \A p \in BatchReads : p.ids \in {{1, 2}, {1}, {-1}, {}}
    BY <1>4 DEF BatchReads
  <2>. QED
    BY <1>2, <1>3, <1>5, <2>1 DEF Shows
<1>7. ShowsEvents(BatchReads)
  <2>1. \A p \in BatchReads : /\ p.crossings = {"entry", "exit"} \/ p.crossings = {}
                              /\ p.zones = {"enter", "dwell", "exit"} \/ p.zones = {}
    BY <1>4 DEF BatchReads
  <2>. QED
    BY <1>2, <1>5, <2>1 DEF ShowsEvents
<1>. QED
  BY <1>6, <1>7

LEMMA BatchCalls == ASSUME RunBatch PROVE call'[1] = "batch" /\ call'[2] \in Seq(Videos(BatchReads))
<1>1. PICK n \in 1..4 : \E videos \in [1..n -> AnyVideo] : call' = <<"batch", videos>>
  BY DEF RunBatch
<1>2. PICK videos \in [1..n -> AnyVideo] : call' = <<"batch", videos>>
  BY <1>1
<1>3. AnyVideo \subseteq Videos(BatchReads)
  <2>1. /\ Seven \in BatchReads /\ Picture({1}) \in BatchReads /\ Picture({-1}) \in BatchReads
        /\ Nothing("bad") \in BatchReads /\ Nothing("empty") \in BatchReads /\ Nothing("eof") \in BatchReads
    BY DEF BatchReads
  <2>2. /\ <<>> \in Seq(BatchReads)
        /\ <<Seven, Nothing("bad"), Seven>> \in Seq(BatchReads)
        /\ <<Nothing("empty"), Seven, Picture({1}), Nothing("eof")>> \in Seq(BatchReads)
        /\ <<Picture({-1}), Seven>> \in Seq(BatchReads)
    <3>. DEFINE B == BatchReads
                a == Seven
                b == Picture({1})
                c == Picture({-1})
                d == Nothing("bad")
                e == Nothing("empty")
                f == Nothing("eof")
    <3>1. a \in B /\ b \in B /\ c \in B /\ d \in B /\ e \in B /\ f \in B
      BY <2>1
    <3>. HIDE DEF B, a, b, c, d, e, f
    <3>2. <<>> \in Seq(B) /\ <<a, d, a>> \in Seq(B) /\ <<e, a, b, f>> \in Seq(B) /\ <<c, a>> \in Seq(B)
      BY <3>1
    <3>. QED
      BY <3>2 DEF B, a, b, c, d, e, f
  <2>. QED
    BY <2>2 DEF AnyVideo, Videos
<1>4. n \in Nat
  OBVIOUS
<1>5. videos \in Seq(Videos(BatchReads))
  BY <1>3, <1>4
<1>. QED
  BY <1>2, <1>5

LEMMA StoreCalls == ASSUME RunCycle PROVE call'[1] = "store" /\ call'[2] \in StoreStates
<1>1. PICK m \in 0..2 : \E queues \in [1..m -> AnyQueue],
        kind \in Shelves, n \in {0, 1, MaxActions + 1}, last \in Shelves :
       call' = <<"store", [queues |-> queues, shelves |-> Append([i \in 1..n |-> kind], last)]>>
  BY DEF RunCycle
<1>2. PICK queues \in [1..m -> AnyQueue], kind \in Shelves, n \in {0, 1, MaxActions + 1}, last \in Shelves :
       call' = <<"store", [queues |-> queues, shelves |-> Append([i \in 1..n |-> kind], last)]>>
  BY <1>1
<1>3. AnyQueue \subseteq Queues /\ Shelves \subseteq ShelfKinds
  BY DEF AnyQueue, Queues, Shelves, ShelfKinds
<1>4. queues \in Seq(Queues)
  <2>1. m \in Nat
    OBVIOUS
  <2>2. queues \in [1..m -> Queues]
    BY <1>3
  <2>. QED
    BY <2>1, <2>2
<1>5. Append([i \in 1..n |-> kind], last) \in Seq(ShelfKinds)
  <2>. DEFINE s == [i \in 1..n |-> kind]
  <2>1. n \in Nat
    BY OperationsAssumption
  <2>2. s \in [1..n -> ShelfKinds] /\ last \in ShelfKinds
    BY <1>3
  <2>. HIDE DEF s
  <2>3. s \in Seq(ShelfKinds)
    BY <2>1, <2>2
  <2>4. Append(s, last) \in Seq(ShelfKinds)
    BY <2>2, <2>3
  <2>. QED
    BY <2>4 DEF s
<1>. QED
  BY <1>2, <1>4, <1>5 DEF StoreStates

LEMMA ShelfCalls == ASSUME ReadShelf PROVE call'[1] = "shelf" /\ call'[2] \in ShelfCall
<1>1. PICK tilt \in Tilts, upper \in [1..4 -> Seen], lower \in [1..3 -> {"own", "none"}] :
        call' = <<"shelf", [tilt |-> tilt, seen |-> <<upper, lower>>]>>
  BY DEF ReadShelf
<1>. QED
  BY <1>1 DEF ShelfCall

LEMMA CallsTyped == CallSpec => []CallOK
<1>1. CallInit => CallOK
  BY DEF CallInit, CallOK
<1>2. CallOK /\ [CallNext]_call => CallOK'
  <2>. SUFFICES ASSUME CallOK, [CallNext]_call PROVE CallOK'
    OBVIOUS
  <2>1. CASE ReadShelf
    BY <2>1, ShelfCalls DEF CallOK
  <2>2. CASE ReadQueue
    BY <2>2 DEF ReadQueue, CallOK
  <2>3. CASE RunCycle
    BY <2>3, StoreCalls DEF CallOK
  <2>4. CASE ExportEvent
    BY <2>4 DEF ExportEvent, CallOK, EventCall
  <2>5. CASE PlayVideo
    BY <2>5, VideoCalls DEF CallOK
  <2>6. CASE RunBatch
    BY <2>6, BatchCalls DEF CallOK
  <2>7. CASE QueryStore
    BY <2>7 DEF QueryStore, CallOK
  <2>8. CASE DrawHeatmap
    BY <2>8 DEF DrawHeatmap, CallOK
  <2>9. CASE TrackKeyframe
    BY <2>9, TrackCalls DEF CallOK
  <2>10. CASE StreamFrames
    BY <2>10, StreamCalls DEF CallOK
  <2>11. CASE CrossLine
    BY <2>11, LineCalls
  <2>12. CASE Return
    BY <2>12 DEF Return, CallOK, Idle
  <2>13. CASE UNCHANGED call
    BY <2>13 DEF CallOK, Idle
  <2>. QED
    BY <2>1, <2>2, <2>3, <2>4, <2>5, <2>6, <2>7, <2>8, <2>9, <2>10, <2>11, <2>12, <2>13 DEF CallNext
<1>. QED
  BY <1>1, <1>2, PTL DEF CallSpec

\* Whatever line and step are tried, a crossing is a change of side
\* (entry_exit.py, classify_crossing).
THEOREM CrossingsTheorem == CallSpec => []CrossingIsSideChange
<1>1. CallOK => CrossingIsSideChange
  BY CrossingTheorem DEF CallOK, CrossingIsSideChange, LineCall
<1>. QED
  BY <1>1, CallsTyped, PTL

\* Whatever event of the pipeline is exported, stored and exported again, the
\* second export is the first but for a millisecond (challenge_events.py).
THEOREM ExportsTheorem == CallSpec => []ExportIsStable
<1>1. CallOK => ExportIsStable
  <2>. SUFFICES ASSUME CallOK, ~Idle, call[1] = "event"
                PROVE  StableExport(call[2].event, call[2].short, call[2].again)
    BY DEF ExportIsStable
  <2>1. call[2] \in EventCall
    BY DEF CallOK
  <2>. DEFINE in == call[2]
  <2>2. in.event \in Emitted /\ in.short \in {0, 1} /\ in.again \in {0, 1}
    BY <2>1 DEF EventCall
  <2>3. in.event \in Events /\ Consistent(in.event)
    BY <2>2 DEF Emitted
  <2>4. Events \subseteq Envelopes({"v1", "v2"}, {None, "z1"}, {None, 2}, {None})
    <3>1. ASSUME NEW e \in Events PROVE e \in Envelopes({"v1", "v2"}, {None, "z1"}, {None, 2}, {None})
      <4>1. /\ e.type \in PipelineType /\ e.visitor \in {None, "v1"} /\ e.person \in {None, "v2"}
            /\ e.track \in {None} \cup Tracks /\ e.zone \in {None, "z1"} /\ e.dwell \in {None, 0, 1001}
            /\ e.dwellMs \in {None, 7} /\ e.depth \in {None, 2} /\ e.sku \in {None}
            /\ e.sequence \in {None, 0, 1} /\ e.seq \in {None, 2} /\ e.staff \in {FALSE}
        BY DEF Events
      <4>2. e = [type |-> e.type, visitor |-> e.visitor, person |-> e.person, track |-> e.track,
                 zone |-> e.zone, dwell |-> e.dwell, dwellMs |-> e.dwellMs, depth |-> e.depth,
                 sku |-> e.sku, sequence |-> e.sequence, seq |-> e.seq, staff |-> e.staff]
        BY DEF Events
      <4>3. e.visitor \in {"v1", "v2"} \cup {None} /\ e.person \in {"v1", "v2"} \cup {None}
        BY <4>1
      <4>4. e.dwell \in Nat \cup {None} /\ e.dwellMs \in Nat \cup {None}
        BY <4>1
      <4>5. e.sequence \in Nat \cup {None} /\ e.seq \in Nat \cup {None}
        BY <4>1
      <4>6. e.track \in Tracks \cup {None} /\ e.staff \in BOOLEAN
        BY <4>1
      <4>. QED
        BY <4>1, <4>2, <4>3, <4>4, <4>5, <4>6, Zenon DEF Envelopes
    <3>. QED
      BY <3>1
  <2>. QED
    BY <2>2, <2>3, <2>4, ExportTheorem
<1>. QED
  BY <1>1, CallsTyped, PTL

LEMMA VideosAccounted ==
  ASSUME call[2] \in VideoCall
  PROVE  Accounted(call[2]) /\ SightingsFollowed(ReadAll(call[2]).frames)
<1>1. call[2].reads \in Seq(AnyRead)
  BY DEF VideoCall
<1>2. Shows(AnyRead)
  BY ReadsArePictures
<1>3. Accounted(call[2])
  BY <1>1, ReaderTheorem
<1>4. Numbered(AnyRead, ReadAll(call[2]).frames)
  BY <1>1, FramesNumbered
<1>5. SightingsFollowed(ReadAll(call[2]).frames)
  BY <1>2, <1>4, TracksTheorem
<1>. QED
  BY <1>3, <1>5

\* Every readable frame of every video is processed, in order and under its
\* number, and every other read of the pass is counted (VideoReader.frames).
THEOREM FramesTheorem == CallSpec => []FramesAccountedFor
<1>1. CallOK => FramesAccountedFor
  BY VideosAccounted DEF CallOK, FramesAccountedFor
<1>. QED
  BY <1>1, CallsTyped, PTL

\* The tracks and the groups of every video are those that its frames show
\* (TrackHistoryStore).
THEOREM SightingsTheorem == CallSpec => []TracksFollowSightings
<1>1. CallOK => TracksFollowSightings
  BY VideosAccounted DEF CallOK, TracksFollowSightings
<1>. QED
  BY <1>1, CallsTyped, PTL

\* A video of a batch that fails costs no other its summary, and the stages count
\* all that the others show (run_all and run_video of the runners).
THEOREM BatchesTheorem == CallSpec => []VideosFailAlone
<1>1. CallOK => VideosFailAlone
  BY BatchTheorem, BatchReadsShow DEF CallOK, VideosFailAlone
<1>. QED
  BY <1>1, CallsTyped, PTL

\* A congested queue is acted on in every store, and the tasks of a lasting
\* incident pile up (EdgeOrchestrator.run_cycle).
THEOREM CongestionTheorem == CallSpec => []CongestionIsActedOn
<1>1. CallOK => CongestionIsActedOn
  BY AttendedTheorem DEF CallOK, CongestionIsActedOn
<1>. QED
  BY <1>1, CallsTyped, PTL

\* Every keyframe with any overlaps and every stream of frames is tracked and
\* shown as the properties of a keyframe and of a stream say (SortTracker,
\* StreamProcessingUseCase.process_detections).
THEOREM DetectionsTheorem == CallSpec => []DetectionsAreTracked
<1>1. CallOK => DetectionsAreTracked
  BY KeyframeTheorem, StreamTheorem DEF CallOK, DetectionsAreTracked
<1>. QED
  BY <1>1, CallsTyped, PTL

\* Items that are missing or wrong do not shift the cells beside them in any
\* legible picture of the shelf (CellStateComputation.compute_cell_states).
THEOREM GapsTheorem == CallSpec => []GapsDoNotShift
<1>1. CallOK => GapsDoNotShift
  <2>. SUFFICES ASSUME CallOK, ~Idle, call[1] = "shelf", Legible(call[2])
                PROVE  LET in     == call[2]
                           states == CellStates(Planogram(Reference(in.tilt)), Frame(in))
                       IN  \A r \in DOMAIN in.seen :
                             /\ \A c \in DOMAIN in.seen[r] : states[r][c] = "ok" <=> in.seen[r][c] = "own"
                             /\ Cardinality({c \in DOMAIN states[r] : states[r][c] = "misplaced"})
                                  = Counted(in, r, {"other", "flat"})
    BY DEF GapsDoNotShift
  <2>. DEFINE in == call[2]
  <2>1. AnyShelf(in)
    BY CallIsShelf DEF CallOK
  <2>2. Legible(in)
    OBVIOUS
  <2>. HIDE DEF in
  <2>3. DOMAIN in.seen = 1..2 /\ \A r \in 1..2 : DOMAIN in.seen[r] = 1..ShelfWidth(r)
    BY <2>1 DEF AnyShelf
  <2>4. ASSUME NEW r \in 1..2
        PROVE  LET states == CellStates(Planogram(Reference(in.tilt)), Frame(in))
               IN  /\ \A c \in DOMAIN in.seen[r] : states[r][c] = "ok" <=> in.seen[r][c] = "own"
                   /\ Cardinality({c \in DOMAIN states[r] : states[r][c] = "misplaced"})
                        = Counted(in, r, {"other", "flat"})
    BY <2>1, <2>2, <2>3, ShelfIsRead
  <2>. QED
    BY <2>3, <2>4 DEF in
<1>. QED
  BY <1>1, CallsTyped, PTL
=============================================================================
