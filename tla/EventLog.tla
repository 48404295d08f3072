-------------------------------- MODULE EventLog --------------------------------
(***************************************************************************)
(* The event log between the pipeline and the API (pipeline/emit.py,       *)
(* ingest/replay.py): one run of the pipeline emits the events of a video  *)
(* through a dedup window and a buffer into append-only files, one per     *)
(* day; the process can die at any moment, also in the middle of a write;  *)
(* an operator runs it again and replays the files into the API.           *)
(*                                                                         *)
(* The events of a video are numbered.  Their ids are computed from the    *)
(* video, so every run emits the same ids, with visitor ids of its own:    *)
(* a line is an event and the run that wrote it.                           *)
(***************************************************************************)
EXTENDS Naturals, FiniteSets, FiniteSetsExt, Sequences, SequencesExt

CONSTANTS
  N,                \* events of the video
  Day,              \* the day of each event
  BatchSize,        \* batch_size
  MaxKeys,          \* max_dedup_keys
  ReplayBatch,      \* batch_size of the replay
  ChallengeFormat,  \* challenge_format, TRUE in the code
  MaxRuns,          \* bound on the runs of the pipeline
  MaxRepeats        \* bound on events that a run emits again

ASSUME LogAssumption ==
  /\ {N, BatchSize, MaxKeys, ReplayBatch, MaxRuns} \subseteq Nat \ {0}
  /\ Day \in [1..N -> Nat \ {0}]
  /\ \A i, j \in 1..N : i <= j => Day[i] <= Day[j]
  /\ ChallengeFormat \in BOOLEAN
  /\ MaxRepeats \in Nat

VARIABLES
  run,       \* the current or last run
  pc,        \* running, dead or finished
  next,      \* next event of the video
  buffer,    \* StructuredEventEmitter._buffer
  seen,      \* EventDedupStore: the keys in order
  repeats,   \* events emitted again in this run
  file,      \* the JSONL file of each day
  reader,    \* the replay of one file
  stored,    \* run whose copy of each event the API has stored, 0 if none
  accepted,  \* history: the events for which emit() returned True, per run
  fresh      \* history: files replayed to their end since they were written

emitter == <<run, pc, next, buffer, seen, repeats>>

vars == <<emitter, file, reader, stored, accepted, fresh>>

Event == 1..N

Days == {Day[e] : e \in Event}

-----------------------------------------------------------------------------
(* Files *)

\* A line is whole, torn off by the death of its writer, or glued to one that
\* was: it then continues the torn line, and neither can be parsed.
Lines(f, events, r) ==
  [i \in DOMAIN events |->
     [event |-> events[i], run |-> r,
      end |-> IF i = 1 /\ f # <<>> /\ Last(f).end = "torn" THEN "glued" ELSE "whole"]]

Whole(f) == \A i \in DOMAIN f : f[i].end = "whole"

Torn(lines) == [lines EXCEPT ![Len(lines)].end = "torn"]

\* path_for: the file of the first event of the batch takes all of it.
Path(events) == Day[Head(events)]

-----------------------------------------------------------------------------
(* The emitter *)

LastOf(s, n) == SubSeq(s, IF Len(s) > n THEN Len(s) - n + 1 ELSE 1, Len(s))

\* Mutant of Remember: the window is one key short.
RememberShort(s, e) == LastOf(Append(s, e), MaxKeys - 1)

\* EventDedupStore.add of a new key.
Remember(s, e) == LastOf(Append(s, e), MaxKeys)

\* Mutant of Flush: the buffer is kept.
FlushKeeping(events) ==
  /\ file' = [file EXCEPT ![Path(events)] = @ \o Lines(@, events, run)]
  /\ buffer' = events
  /\ fresh' = fresh \ {Path(events)}

\* flush of a buffer with events in it.
Flush(events) ==
  /\ file' = [file EXCEPT ![Path(events)] = @ \o Lines(@, events, run)]
  /\ buffer' = <<>>
  /\ fresh' = fresh \ {Path(events)}

\* The process dies while it writes: some lines are in the file, the last of
\* them perhaps in part.
FlushDying(events) ==
  /\ \E n \in 1..Len(events), torn \in BOOLEAN :
       LET lines == Lines(file[Path(events)], SubSeq(events, 1, n), run)
       IN  file' = [file EXCEPT ![Path(events)] = @ \o (IF torn THEN Torn(lines) ELSE lines)]
  /\ buffer' = <<>>
  /\ fresh' = fresh \ {Path(events)}
  /\ pc' = "dead"

\* emit: False for an id in the window, else the event waits in the buffer,
\* which is written when it is full.
Emit(e) ==
  /\ pc = "running"
  /\ IF \E i \in DOMAIN seen : seen[i] = e
     THEN UNCHANGED <<pc, seen, buffer, file, fresh, accepted>>
     ELSE /\ seen' = Remember(seen, e)
          /\ accepted' = [accepted EXCEPT ![run] = Append(@, e)]
          /\ LET waiting == Append(buffer, e)
             IN  \/ /\ Len(waiting) < BatchSize
                    /\ buffer' = waiting
                    /\ UNCHANGED <<pc, file, fresh>>
                 \/ /\ Len(waiting) >= BatchSize
                    /\ Flush(waiting)
                    /\ UNCHANGED pc
                 \/ /\ Len(waiting) >= BatchSize
                    /\ FlushDying(waiting)
  /\ UNCHANGED <<run, reader, stored>>

EmitNext ==
  /\ next <= N
  /\ Emit(next)
  /\ next' = next + 1
  /\ UNCHANGED repeats

\* An id contains the index of its frame, so it can only repeat on that day.
EmitAgain ==
  /\ repeats < MaxRepeats
  /\ \E e \in 1..(next - 1) : Day[e] = Day[next - 1] /\ Emit(e)
  /\ repeats' = repeats + 1
  /\ UNCHANGED next

\* The end of the video: flush, which may be the moment of death, too.
Finish ==
  /\ pc = "running"
  /\ next = N + 1
  /\ \/ buffer = <<>> /\ pc' = "finished" /\ UNCHANGED <<buffer, file, fresh>>
     \/ buffer # <<>> /\ Flush(buffer) /\ pc' = "finished"
     \/ buffer # <<>> /\ FlushDying(buffer)
  /\ UNCHANGED <<run, next, seen, repeats, reader, stored, accepted>>

\* The process dies, also by an exception of the frame loop: nothing flushes.
Die ==
  /\ pc = "running"
  /\ pc' = "dead"
  /\ buffer' = <<>>
  /\ UNCHANGED <<run, next, seen, repeats, file, reader, stored, accepted, fresh>>

\* The operator runs the pipeline on the video again.
RunAgain ==
  /\ pc # "running"
  /\ run < MaxRuns
  /\ run' = run + 1
  /\ pc' = "running"
  /\ next' = 1
  /\ buffer' = <<>>
  /\ seen' = <<>>
  /\ repeats' = 0
  /\ UNCHANGED <<file, reader, stored, accepted, fresh>>

-----------------------------------------------------------------------------
(* Replays *)

NoReader == [mode |-> "idle", day |-> 0, pos |-> 0, last |-> 0]

\* What a reader can parse: both expect the lines of event_to_jsonl_line, not
\* those of the challenge format.
Readable(lines) == Whole(lines) /\ (lines # <<>> => ~ChallengeFormat)

\* load_events of ingest/replay.py: the whole file before the first batch.
LoadFile(d) ==
  /\ reader.mode \in {"idle", "failed"}
  /\ reader' = [mode |-> IF Readable(file[d]) THEN "loaded" ELSE "failed",
                day |-> d, pos |-> 1, last |-> Len(file[d])]
  /\ UNCHANGED <<emitter, file, stored, accepted, fresh>>

\* EventReplayer.replay_path of pipeline/emit.py: lines are read as they are
\* needed.
OpenFile(d) ==
  /\ reader.mode \in {"idle", "failed"}
  /\ reader' = [mode |-> "streaming", day |-> d, pos |-> 1, last |-> 0]
  /\ UNCHANGED <<emitter, file, stored, accepted, fresh>>

End == IF reader.mode = "loaded" THEN reader.last ELSE Len(file[reader.day])

\* Mutant of Exhausted: a batch that is not full is not sent.
ExhaustedEarly == reader.pos + ReplayBatch - 1 > End

\* The loop over the lines is over.
Exhausted == reader.pos > End

\* The lines of the next batch; a short one has met the end of the file, and
\* what is written later is not read.
Chunk == SubSeq(file[reader.day], reader.pos, Min({reader.pos + ReplayBatch - 1, End}))

\* The API keeps the first copy of an event.
Ingest(lines) ==
  stored' = [e \in Event |->
    LET copies == {lines[i].run : i \in {j \in DOMAIN lines : lines[j].event = e}}
    IN  IF stored[e] = 0 /\ copies # {} THEN Min(copies) ELSE stored[e]]

Replay ==
  /\ reader.mode \in {"loaded", "streaming"}
  /\ ~Exhausted
  /\ \/ /\ Readable(Chunk)
        /\ Ingest(Chunk)
        /\ reader' = [reader EXCEPT !.pos = @ + Len(Chunk), !.last = End,
                                     !.mode = IF Len(Chunk) < ReplayBatch THEN "loaded" ELSE @]
     \/ /\ ~Readable(Chunk)
        /\ reader' = [reader EXCEPT !.mode = "failed"]
        /\ UNCHANGED stored
  /\ UNCHANGED <<emitter, file, accepted, fresh>>

ReplayEnds ==
  /\ reader.mode \in {"loaded", "streaming"}
  /\ Exhausted
  /\ reader' = NoReader
  /\ fresh' = IF End = Len(file[reader.day]) THEN fresh \cup {reader.day} ELSE fresh
  /\ UNCHANGED <<emitter, file, stored, accepted>>

-----------------------------------------------------------------------------

Init ==
  /\ run = 1
  /\ pc = "running"
  /\ next = 1
  /\ buffer = <<>>
  /\ seen = <<>>
  /\ repeats = 0
  /\ file = [d \in Days |-> <<>>]
  /\ reader = NoReader
  /\ stored = [e \in Event |-> 0]
  /\ accepted = [r \in 1..MaxRuns |-> <<>>]
  /\ fresh = {}

Next ==
  \/ EmitNext \/ EmitAgain \/ Finish \/ Die \/ RunAgain
  \/ \E d \in Days : LoadFile(d) \/ OpenFile(d)
  \/ Replay \/ ReplayEnds

Spec == Init /\ [][Next]_vars

-----------------------------------------------------------------------------
(* Properties *)

\* The events that run r has written to the file f.
Own(f, r) ==
  FlattenSeq([i \in DOMAIN f |-> IF f[i].run = r THEN <<f[i].event>> ELSE <<>>])

\* The events of a run as one reads them off the files in the order of paths.
Logged(r) ==
  FlattenSeq([d \in 1..Day[N] |-> IF d \in Days THEN Own(file[d], r) ELSE <<>>])

\* Nothing is lost, doubled or reordered between emit() and the files, over
\* batches that span two days: a run that lives has logged or buffered what it
\* accepted, one that finished has logged all of it, and one that died lacks at
\* most one batch at the end.
LogFollowsEmission ==
  \A r \in 1..run :
    CASE r = run /\ pc = "running" -> Logged(r) \o buffer = accepted[r]
      [] r = run /\ pc = "finished" -> Logged(r) = accepted[r]
      [] OTHER -> /\ IsPrefix(Logged(r), accepted[r])
                  /\ Len(accepted[r]) - Len(Logged(r)) <= BatchSize

\* A run logs an event twice only if it forgot it in between: as many other
\* events as the window holds were accepted since.
DuplicatesAreFar ==
  \A r \in 1..MaxRuns : \A i, j \in DOMAIN accepted[r] :
    i < j /\ accepted[r][i] = accepted[r][j] =>
      Cardinality({accepted[r][k] : k \in (i + 1)..(j - 1)}) >= MaxKeys

\* Crash, run again, replay: when a run has finished and every file has been
\* replayed to its end since it was last written, the API has every event,
\* each as the copy of a run that logged it.
ReplayRestores ==
  pc = "finished" /\ fresh = Days =>
    \A e \in Event : \E d \in Days : \E i \in DOMAIN file[d] :
      stored[e] = file[d][i].run /\ file[d][i].event = e

\* Emitted logs can be replayed (emit.py:1, emit.py:115): a replay fails only on a file that
\* a death has damaged.
IntactLogReplays == reader.mode = "failed" => ~Whole(file[reader.day])
===============================================================================
