---------------------------- MODULE SessionEngine ----------------------------
(***************************************************************************)
(* The visitor session engine (pipeline/session.py): its state as a record *)
(* and each of its handlers as a function on that record.  A handler runs  *)
(* to its end between two events of the pipeline, which is one thread.     *)
(*                                                                         *)
(* A visitor is numbered in the order in which uuid4 gives it its id.      *)
(* Times are those of the events, not of a wall clock.                     *)
(***************************************************************************)
EXTENDS Integers, FiniteSets, Sequences, SequencesExt

CONSTANTS
  Track,          \* track ids of the tracker
  Zone,
  Timeout,        \* SESSION_TIMEOUT_SECONDS
  MaxCompleted,   \* size of the ring of completed sessions
  MaxMappings     \* max_track_mappings

ASSUME TimeoutAssumption == Timeout \in Nat
ASSUME RingAssumption == MaxCompleted \in Nat \ {0} /\ MaxMappings \in Nat \ {0}

NoVisitor == 0

EmptyEngine ==
  [active |-> <<>>,      \* visitor -> session
   completed |-> <<>>,   \* the ring, oldest first
   mapping |-> <<>>,     \* track -> visitor
   order |-> <<>>,       \* the mapped tracks, longest mapped first
   lastSeq |-> 0,
   born |-> 0]

Put(f, x, y) == [z \in DOMAIN f \cup {x} |-> IF z = x THEN y ELSE f[z]]

Without(f, S) == [z \in DOMAIN f \ S |-> f[z]]

\* A list with the items that are in S, in their order.
Keep(s, S) ==
  LET kept[n \in 0..Len(s)] == IF n = 0 THEN <<>>
                               ELSE IF s[n] \in S THEN Append(kept[n - 1], s[n])
                               ELSE kept[n - 1]
  IN  kept[Len(s)]

-----------------------------------------------------------------------------
(* Lookups *)

\* _resolve_session: events carry their track both as track_id and as the
\* global person id "track-N", so there is one way to a session.
Resolve(e, t) ==
  IF t \in DOMAIN e.mapping /\ e.mapping[t] \in DOMAIN e.active
  THEN e.mapping[t] ELSE NoVisitor

\* The latest completed sessions of v still in the ring.
Completed(e, v) == {i \in DOMAIN e.completed : e.completed[i].visitor = v}

\* Mutant of NextSequence: the number of sessions instead of a counter.
SequenceByCount(e) == Cardinality(DOMAIN e.active) + 1

NextSequence(e) == e.lastSeq + 1

\* get_session: the session number a returning visitor continues.
PriorSequence(e, v) ==
  IF v \in DOMAIN e.active THEN e.active[v].seq
  ELSE IF Completed(e, v) = {} THEN NextSequence(e)
  ELSE LET last == CHOOSE i \in Completed(e, v) : \A j \in Completed(e, v) : j <= i
       IN  e.completed[last].seq

-----------------------------------------------------------------------------
(* Track mapping *)

MapTrack(e, t, v) ==
  [e EXCEPT !.mapping = Put(@, t, v),
            !.order = IF t \in DOMAIN e.mapping THEN @ ELSE Append(@, t)]

UnmapTracks(e, ts) ==
  [e EXCEPT !.mapping = Without(@, ts),
            !.order = Keep(@, Track \ ts)]

\* _trim_track_mappings: over the limit, first the mappings of sessions that
\* are not active go, then those that were mapped longest ago.
Trim(e) ==
  IF Cardinality(DOMAIN e.mapping) <= MaxMappings THEN e
  ELSE LET dead == {t \in DOMAIN e.mapping : e.mapping[t] \notin DOMAIN e.active}
           live == UnmapTracks(e, dead)
           excess == Cardinality(DOMAIN live.mapping) - MaxMappings
       IN  UnmapTracks(live, {live.order[i] : i \in 1..excess})

-----------------------------------------------------------------------------
(* Completion *)

\* The deque keeps the MaxCompleted sessions appended last.
Recent(s) ==
  IF Len(s) <= MaxCompleted THEN s ELSE SubSeq(s, Len(s) - MaxCompleted + 1, Len(s))

Finished(e, v, at, status) ==
  [visitor |-> v, seq |-> e.active[v].seq, status |-> status,
   entryAt |-> e.active[v].entryAt, exitAt |-> at]

\* Mutant of CompleteAll: the track still leads to the session.
CompleteKeepingTracks(e, vs, at, status) ==
  [e EXCEPT !.active = Without(@, Range(vs)),
            !.completed = Recent(@ \o [i \in DOMAIN vs |-> Finished(e, vs[i], at, status)])]

\* _complete_session of each visitor of the list vs, which closes the open
\* zone visits and takes the session's track out of the mapping, whoever it
\* leads to by now.
CompleteAll(e, vs, at, status) ==
  UnmapTracks(
    [e EXCEPT !.active = Without(@, Range(vs)),
              !.completed = Recent(@ \o [i \in DOMAIN vs |-> Finished(e, vs[i], at, status)])],
    {e.active[v].track : v \in Range(vs)})

\* The orders in which a loop over the active sessions can meet those of vs:
\* the order of entry, left open among the entries of one frame.
EntryOrders(e, vs) ==
  {s \in SetToSeqs(vs) :
     \A i, j \in DOMAIN s : i < j => e.active[s[i]].entryAt <= e.active[s[j]].entryAt}

\* The sessions without an event for longer than the timeout.
Stale(e, now) == {v \in DOMAIN e.active : now - e.active[v].lastSeen > Timeout}

\* _cleanup_stale, the first thing process_event does with any event.
CleanedUp(e, now) ==
  {CompleteAll(e, vs, now, "timed_out") : vs \in EntryOrders(e, Stale(e, now))}

\* close_all_active.
ClosedAll(e, at) ==
  {CompleteAll(e, vs, at, "completed") : vs \in EntryOrders(e, DOMAIN e.active)}

-----------------------------------------------------------------------------
(* Event handlers, on the cleaned-up engine *)

NewSession(seq, t, staff, now) ==
  [seq |-> seq, track |-> t, staff |-> staff, entryAt |-> now, lastSeen |-> now,
   open |-> {}]

\* _handle_entry: a new visitor; the only handler that trims the mapping.
Enter(e, t, staff, now) ==
  LET v == e.born + 1
      seq == NextSequence(e)
  IN  Trim(MapTrack([e EXCEPT !.born = v, !.lastSeq = seq,
                              !.active = Put(@, v, NewSession(seq, t, staff, now))],
                    t, v))

\* resume_visitor: the same visitor and number, a new session.
Resume(e, v, t, staff, now) ==
  LET seq == PriorSequence(e, v)
  IN  MapTrack([e EXCEPT !.lastSeq = IF seq > @ THEN seq ELSE @,
                         !.active = Put(@, v, NewSession(seq, t, staff, now))],
               t, v)

\* _handle_exit.
Leave(e, t, now) ==
  LET v == Resolve(e, t)
  IN  IF v = NoVisitor THEN e ELSE CompleteAll(e, <<v>>, now, "completed")

\* _handle_zone_enter.
EnterZone(e, t, z, now) ==
  LET v == Resolve(e, t)
  IN  IF v = NoVisitor \/ z \in e.active[v].open THEN e
      ELSE MapTrack([e EXCEPT !.active[v].open = @ \cup {z},
                              !.active[v].lastSeen = now], t, v)

\* Mutant of LeaveZone: exited_at is not set.
LeaveZoneStillOpen(e, t, z, now) ==
  LET v == Resolve(e, t)
  IN  IF v = NoVisitor \/ z \notin e.active[v].open THEN e
      ELSE [e EXCEPT !.active[v].lastSeen = now]

\* _handle_zone_exit.
LeaveZone(e, t, z, now) ==
  LET v == Resolve(e, t)
  IN  IF v = NoVisitor \/ z \notin e.active[v].open THEN e
      ELSE [e EXCEPT !.active[v].open = @ \ {z}, !.active[v].lastSeen = now]

\* _handle_zone_dwell: opens a visit if the session has none.
Dwell(e, t, z, now) ==
  LET v == Resolve(e, t)
  IN  IF v = NoVisitor THEN e
      ELSE [e EXCEPT !.active[v].open = @ \cup {z}, !.active[v].lastSeen = now]
===============================================================================
