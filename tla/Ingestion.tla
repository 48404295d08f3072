------------------------------- MODULE Ingestion -------------------------------
(***************************************************************************)
(* The ingestion service: the request handlers of POST /events/ingest      *)
(* (app/ingestion.py), the two tables they write (app/repositories.py),    *)
(* the per-process AppState (app/state.py) and the /health probes that     *)
(* maintain it (app/health.py).                                            *)
(*                                                                         *)
(* A handler is a coroutine: between two awaits it runs alone, so one      *)
(* action is the code from one await to the next.  PostgreSQL is external  *)
(* and is modelled as the code uses it, at READ COMMITTED: rows written by *)
(* an open transaction are invisible to the others but lock their key, a   *)
(* second INSERT of the key waits until the first transaction ends, a      *)
(* cycle of waits is broken by aborting one of its members, and whatever   *)
(* is not committed disappears with the connection.                        *)
(***************************************************************************)
EXTENDS Integers, FiniteSets, Sequences

CONSTANTS
  EventId,     \* values of event_id
  Time,        \* values of occurred_at, positive
  BatchId,     \* values of batch_id, the caller's or a fresh uuid4
  Malformed,   \* an item of a request that fails validation
  Request,     \* the item lists callers send
  MaxBatch,    \* MAX_INGEST_BATCH_SIZE
  Proc,        \* API processes (uvicorn workers)
  Handler,     \* in-flight request slots
  ProcOf,      \* the process a handler slot belongs to
  Poller       \* concurrent GET /health requests

Event == [id : EventId, at : Time]

ASSUME TimeAssumption == Time \subseteq Nat \ {0}
ASSUME MaxBatchAssumption == MaxBatch \in Nat \ {0}
ASSUME MalformedAssumption == Malformed \notin Event
ASSUME RequestAssumption == Request \subseteq Seq(Event \cup {Malformed})
ASSUME ProcAssumption == ProcOf \in [Handler -> Proc]

VARIABLES
  rows,     \* raw_events: the committed event rows
  ledger,   \* ingest_batches: the committed batch rows
  dbUp,     \* PostgreSQL accepts connections
  hs,       \* hs[h]: the state of request handler h
  app,      \* app[p]: the AppState of process p
  poll,     \* poll[q]: the state of health request q
  heard     \* history: the valid events of the requests that were committed

vars == <<rows, heard, ledger, dbUp, hs, app, poll>>

Ids(events) == {e.id : e \in events}

-----------------------------------------------------------------------------
(* The pure parts of a request. *)

\* Positions of the items that validate_event_payload accepts.
Valid(items) == {i \in DOMAIN items : items[i] # Malformed}

\* split_in_batch_duplicates: the first position of every event_id.
FirstCopies(items) ==
  {i \in Valid(items) :
     \A j \in Valid(items) : j < i => items[j].id # items[i].id}

\* partition_for_insert: the first copies whose id the SELECT did not return.
ToInsert(items, existing) ==
  {i \in FirstCopies(items) : items[i].id \notin existing}

\* note_pipeline_events: the later of the watermark (0 before the first
\* event) and the latest occurred_at of the request's valid events.
Advance(watermark, items) ==
  LET times == {items[i].at : i \in Valid(items)} \cup {watermark}
  IN  CHOOSE t \in times : \A u \in times : u <= t

-----------------------------------------------------------------------------
(* Handlers *)

HandlerPC == {"idle", "find", "insert", "commit", "committed", "broken", "reply"}

Exceptions == {"none", "IntegrityError", "DeadlockDetected", "ConnectionLost"}

Statuses == {0, 200, 422, 500, 503}

HandlerRecord ==
  [pc : HandlerPC, batch : BatchId \cup {"none"}, items : Request \cup {<<>>},
   toInsert : SUBSET Nat, todo : SUBSET Nat, pending : SUBSET Event,
   accepted : SUBSET EventId, dups : Int, exc : Exceptions, status : Statuses]

AppRecord == [running : BOOLEAN, dbAvailable : BOOLEAN,
              degraded : SUBSET {"postgres"}, watermark : Nat]

PollRecord == [pc : {"idle", "probe", "mark"}, proc : Proc \cup {"none"}, ok : BOOLEAN]

\* A slot no request occupies.
IdleHandler ==
  [pc |-> "idle", batch |-> "none", items |-> <<>>, toInsert |-> {},
   todo |-> {}, pending |-> {}, accepted |-> {}, dups |-> 0, exc |-> "none", status |-> 0]

IdlePoll == [pc |-> "idle", proc |-> "none", ok |-> FALSE]

StoppedApp == [running |-> FALSE, dbAvailable |-> FALSE, degraded |-> {},
               watermark |-> 0]

\* Mutant of MarkDbUp: clears the feature list and forgets the flag.
MarkDbUpListOnly(a) == [a EXCEPT !.degraded = @ \ {"postgres"}]

\* AppState.mark_db_up and mark_db_down.
MarkDbUp(a) == [a EXCEPT !.dbAvailable = TRUE, !.degraded = @ \ {"postgres"}]

MarkDbDown(a) == [a EXCEPT !.dbAvailable = FALSE, !.degraded = @ \cup {"postgres"}]

Init ==
  /\ rows = {}
  /\ heard = {}
  /\ ledger = {}
  /\ dbUp \in BOOLEAN
  /\ hs = [h \in Handler |-> IdleHandler]
  /\ app = [p \in Proc |-> StoppedApp]
  /\ poll = [q \in Poller |-> IdlePoll]

\* The handlers with an open transaction.
InTransaction == {"insert", "commit"}

\* An error inside a transaction: the server discards its uncommitted rows
\* at once, and the handler sees the exception exc when it resumes.
Broken(r, exc) == [r EXCEPT !.pc = "broken", !.pending = {}, !.exc = exc]

\* The handler answers with an error status.
Refused(r, status) == [r EXCEPT !.pc = "reply", !.status = status, !.pending = {}]

\* The state of a handler that has validated its request.
Validated(b, items) ==
  [IdleHandler EXCEPT !.pc = "find", !.batch = b, !.items = items]

\* EventIngestRequest takes 1 to MAX_INGEST_BATCH_SIZE events: 422 if not.
RefuseSize(h, b, items) ==
  /\ Len(items) \notin 1..MaxBatch
  /\ hs' = [hs EXCEPT ![h] = Refused(Validated(b, items), 422)]

\* ingest() up to its first await: the db_available gate, then validation
\* and the SELECT for the ids that are already stored.
Gate(h, b, items) ==
  /\ Len(items) \in 1..MaxBatch
  /\ hs' = [hs EXCEPT ![h] = IF app[ProcOf[h]].dbAvailable
                             THEN Validated(b, items)
                             ELSE Refused(Validated(b, items), 503)]

Receive(h, b, items) ==
  /\ hs[h].pc = "idle"
  /\ app[ProcOf[h]].running
  /\ RefuseSize(h, b, items) \/ Gate(h, b, items)
  /\ UNCHANGED <<rows, heard, ledger, dbUp, app, poll>>

\* find_existing_ids returns and the batch is partitioned.
FindExisting(h) ==
  /\ hs[h].pc = "find"
  /\ dbUp
  /\ LET items == hs[h].items
         new == ToInsert(items, Ids(rows))
     IN  hs' = [hs EXCEPT ![h] =
           [@ EXCEPT !.pc = "insert", !.toInsert = new, !.todo = new,
                     !.dups = Cardinality(Valid(items)) - Cardinality(new)]]
  /\ UNCHANGED <<rows, heard, ledger, dbUp, app, poll>>

\* The SELECT is outside the try block: a database error leaves ingest()
\* and becomes a 503 (SQLAlchemyError) or a 500 (any other exception).
FindFails(h) ==
  /\ hs[h].pc = "find"
  /\ ~dbUp
  /\ \E status \in {500, 503} :
       hs' = [hs EXCEPT ![h] = Refused(@, status)]
  /\ UNCHANGED <<rows, heard, ledger, dbUp, app, poll>>

\* The row insert_events is at: the statement inserts in list order.
NextRow(r) == CHOOSE i \in r.todo : \A j \in r.todo : i <= j

\* h waits for a key that the open transaction of g has written.
WaitsFor(h, g) ==
  /\ h # g
  /\ hs[h].pc = "insert"
  /\ \/ /\ hs[h].todo # {}
        /\ hs[h].items[NextRow(hs[h])].id \in Ids(hs[g].pending)
     \/ /\ hs[h].todo = {}
        /\ hs[g].pc = "commit"
        /\ hs[g].batch = hs[h].batch

Blocked(h) == \E g \in Handler : WaitsFor(h, g)

\* Mutant of InsertRow: insert_events(commit=True), a transaction of its own.
InsertRowAutocommit(h) ==
  /\ hs[h].pc = "insert"
  /\ hs[h].todo # {}
  /\ LET i == NextRow(hs[h])
         e == hs[h].items[i]
     IN  /\ hs' = [hs EXCEPT ![h].todo = @ \ {i}]
         /\ rows' = IF e.id \in Ids(rows) THEN rows ELSE rows \cup {e}
  /\ UNCHANGED <<heard, ledger, dbUp, app, poll>>

\* Mutant of InsertRow: a key that another transaction holds is skipped.
InsertRowSkipLocked(h) ==
  /\ hs[h].pc = "insert"
  /\ hs[h].todo # {}
  /\ LET i == NextRow(hs[h])
         e == hs[h].items[i]
     IN  hs' = [hs EXCEPT
           ![h].todo = @ \ {i},
           ![h].pending = IF e.id \in Ids(rows) \/ Blocked(h) THEN @ ELSE @ \cup {e}]
  /\ UNCHANGED <<rows, heard, ledger, dbUp, app, poll>>

\* INSERT ... ON CONFLICT DO NOTHING, one row: an id that is stored or that
\* the statement itself has inserted is skipped.
InsertRow(h) ==
  /\ hs[h].pc = "insert"
  /\ hs[h].todo # {}
  /\ ~Blocked(h)
  /\ LET i == NextRow(hs[h])
         e == hs[h].items[i]
     IN  hs' = [hs EXCEPT
           ![h].todo = @ \ {i},
           ![h].pending = IF e.id \in Ids(rows \cup @) THEN @ ELSE @ \cup {e}]
  /\ UNCHANGED <<rows, heard, ledger, dbUp, app, poll>>

\* The rows that ON CONFLICT skipped become duplicates, and the batch row is
\* inserted under its primary key, which has no ON CONFLICT clause.
RecordBatch(h) ==
  /\ hs[h].pc = "insert"
  /\ hs[h].todo = {}
  /\ ~Blocked(h)
  /\ hs' = [hs EXCEPT ![h] =
       IF \E entry \in ledger : entry.batch = @.batch
       THEN Broken(@, "IntegrityError")
       ELSE [@ EXCEPT !.pc = "commit", !.accepted = Ids(hs[h].pending),
                      !.dups = hs[h].dups + Cardinality(hs[h].toInsert)
                                          - Cardinality(hs[h].pending)]]
  /\ UNCHANGED <<rows, heard, ledger, dbUp, app, poll>>

\* PostgreSQL commits; the handler has not resumed yet.
Commit(h) ==
  /\ hs[h].pc = "commit"
  /\ rows' = rows \cup hs[h].pending
  /\ heard' = heard \cup {hs[h].items[i] : i \in Valid(hs[h].items)}
  /\ ledger' = ledger \cup {[batch |-> hs[h].batch, accepted |-> hs[h].accepted]}
  /\ hs' = [hs EXCEPT ![h].pc = "committed", ![h].pending = {}]
  /\ UNCHANGED <<dbUp, app, poll>>

\* commit() returns: the watermark advances and the 200 is built.
Finish(h) ==
  /\ hs[h].pc = "committed"
  /\ hs' = [hs EXCEPT ![h].pc = "reply", ![h].status = 200]
  /\ app' = [app EXCEPT ![ProcOf[h]].watermark = Advance(@, hs[h].items)]
  /\ UNCHANGED <<rows, heard, ledger, dbUp, poll>>

\* Mutant of Fail: the watermark advances in a finally clause.
FailNotes(h) ==
  /\ hs[h].pc = "broken"
  /\ hs' = [hs EXCEPT ![h] = Refused(@, 503)]
  /\ app' = [app EXCEPT ![ProcOf[h]].watermark = Advance(@, hs[h].items)]
  /\ UNCHANGED <<rows, heard, ledger, dbUp, poll>>

\* The except clause: roll back and answer 503.
Fail(h) ==
  /\ hs[h].pc = "broken"
  /\ hs' = [hs EXCEPT ![h] = Refused(@, 503)]
  /\ UNCHANGED <<rows, heard, ledger, dbUp, app, poll>>

\* The response leaves and the slot is free.
Respond(h) ==
  /\ hs[h].pc = "reply"
  /\ hs' = [hs EXCEPT ![h] = IdleHandler]
  /\ UNCHANGED <<rows, heard, ledger, dbUp, app, poll>>

-----------------------------------------------------------------------------
(* PostgreSQL and the network *)

\* The deadlock detector aborts one member of a cycle of waits.
DeadlockAbort(h) ==
  /\ Blocked(h)
  /\ \E cycle \in SUBSET Handler :
       /\ h \in cycle
       /\ cycle = {g \in Handler : \E k \in cycle : WaitsFor(k, g)}
  /\ hs' = [hs EXCEPT ![h] = Broken(@, "DeadlockDetected")]
  /\ UNCHANGED <<rows, heard, ledger, dbUp, app, poll>>

\* A connection drops.  After the server has committed but before the
\* handler resumes, the handler cannot tell this from a failed commit.
LoseConnection(h) ==
  /\ hs[h].pc \in InTransaction \cup {"committed"}
  /\ hs' = [hs EXCEPT ![h] = Broken(@, "ConnectionLost")]
  /\ UNCHANGED <<rows, heard, ledger, dbUp, app, poll>>

DbDown ==
  /\ dbUp
  /\ dbUp' = FALSE
  /\ hs' = [h \in Handler |-> IF hs[h].pc \in InTransaction
                               THEN Broken(hs[h], "ConnectionLost") ELSE hs[h]]
  /\ UNCHANGED <<rows, heard, ledger, app, poll>>

DbUp ==
  /\ ~dbUp
  /\ dbUp' = TRUE
  /\ UNCHANGED <<rows, heard, ledger, hs, app, poll>>

-----------------------------------------------------------------------------
(* Processes and health probes *)

\* lifespan: connect_with_retry ends in success or gives up, and the
\* application starts either way.
Start(p) ==
  /\ ~app[p].running
  /\ app' = [app EXCEPT ![p] =
       LET a == [StoppedApp EXCEPT !.running = TRUE]
       IN  IF dbUp THEN MarkDbUp(a) ELSE MarkDbDown(a)]
  /\ UNCHANGED <<rows, heard, ledger, dbUp, hs, poll>>

\* The process dies with its memory, its requests and their transactions.
Crash(p) ==
  /\ app[p].running
  /\ app' = [app EXCEPT ![p] = StoppedApp]
  /\ hs' = [h \in Handler |-> IF ProcOf[h] = p THEN IdleHandler ELSE hs[h]]
  /\ poll' = [q \in Poller |-> IF poll[q].proc = p THEN IdlePoll ELSE poll[q]]
  /\ UNCHANGED <<rows, heard, ledger, dbUp>>

HealthRequest(q, p) ==
  /\ poll[q].pc = "idle"
  /\ app[p].running
  /\ poll' = [poll EXCEPT ![q] = [IdlePoll EXCEPT !.pc = "probe", !.proc = p]]
  /\ UNCHANGED <<rows, heard, ledger, dbUp, hs, app>>

\* check_db_connection: SELECT 1 on a connection of its own.
HealthProbe(q) ==
  /\ poll[q].pc = "probe"
  /\ poll' = [poll EXCEPT ![q].pc = "mark", ![q].ok = dbUp]
  /\ UNCHANGED <<rows, heard, ledger, dbUp, hs, app>>

\* check() resumes with the result of the probe, which may be old by now.
HealthMark(q) ==
  /\ poll[q].pc = "mark"
  /\ app' = [app EXCEPT ![poll[q].proc] =
       IF poll[q].ok THEN MarkDbUp(@) ELSE MarkDbDown(@)]
  /\ poll' = [poll EXCEPT ![q] = IdlePoll]
  /\ UNCHANGED <<rows, heard, ledger, dbUp, hs>>

-----------------------------------------------------------------------------
HandlerStep(h) ==
  \/ FindExisting(h) \/ FindFails(h) \/ InsertRow(h) \/ RecordBatch(h)
  \/ Commit(h) \/ Finish(h) \/ Fail(h) \/ Respond(h)

Fault ==
  \/ DbDown
  \/ \E h \in Handler : LoseConnection(h)
  \/ \E p \in Proc : Crash(p)

Environment ==
  \/ DbUp
  \/ \E h \in Handler : DeadlockAbort(h)
  \/ \E p \in Proc : Start(p)
  \/ \E q \in Poller : HealthProbe(q) \/ HealthMark(q) \/ \E p \in Proc : HealthRequest(q, p)

Next ==
  \/ \E h \in Handler, b \in BatchId, items \in Request : Receive(h, b, items)
  \/ \E h \in Handler : HandlerStep(h)
  \/ Environment
  \/ Fault

Spec == Init /\ [][Next]_vars

(***************************************************************************)
(* Fairness: the event loop resumes every coroutine whose await is over,   *)
(* PostgreSQL breaks every deadlock and grants a lock to its waiters in    *)
(* turn (hence SF on InsertRow and RecordBatch), the container restarts    *)
(* (restart: unless-stopped) and its healthcheck polls /health every 15 s. *)
(* Nothing forces requests, faults, or the database to come back.          *)
(***************************************************************************)
Fairness ==
  /\ \A h \in Handler :
       /\ WF_vars(FindExisting(h) \/ FindFails(h) \/ Commit(h) \/ Finish(h)
                  \/ Fail(h) \/ Respond(h))
       /\ SF_vars(InsertRow(h))
       /\ SF_vars(RecordBatch(h))
       /\ WF_vars(DeadlockAbort(h))
  /\ \A p \in Proc : WF_vars(Start(p))
  /\ \A q \in Poller :
       /\ WF_vars(HealthProbe(q) \/ HealthMark(q))
       /\ \A p \in Proc : WF_vars(HealthRequest(q, p))

-----------------------------------------------------------------------------
(* Properties *)

\* The shape of the state.
TypeOK ==
  /\ rows \subseteq Event
  /\ heard \subseteq Event
  /\ ledger \subseteq [batch : BatchId, accepted : SUBSET EventId]
  /\ dbUp \in BOOLEAN
  /\ hs \in [Handler -> HandlerRecord]
  /\ app \in [Proc -> AppRecord]
  /\ poll \in [Poller -> PollRecord]

\* Two copies of an event never both become rows, and an event that some
\* batch is about to add is not a row yet and is about to be added by no
\* other batch: what ON CONFLICT DO NOTHING buys (repositories.py:66-70)
\* over the SELECT of find_existing_ids, whose answer may be stale.
KeysExclusive ==
  /\ \A d, e \in rows : d.id = e.id => d = e
  /\ \A h \in Handler : \A d, e \in hs[h].pending : d.id = e.id => d = e
  /\ \A h \in Handler : Ids(hs[h].pending) \cap Ids(rows) = {}
  /\ \A g, h \in Handler : g # h => Ids(hs[g].pending) \cap Ids(hs[h].pending) = {}

\* Every stored row was counted as accepted by exactly one batch, and no
\* batch row claims events that are not stored: the single transaction of
\* ingest() is all-or-nothing, and racing or repeated requests never count
\* an event twice.
LedgerExplainsRows ==
  /\ Ids(rows) = UNION {entry.accepted : entry \in ledger}
  /\ \A d, e \in ledger : d # e => /\ d.batch # e.batch
                                   /\ d.accepted \cap e.accepted = {}

\* Every valid event of the request of r is stored.
Stored(r) == \A i \in Valid(r.items) : r.items[i].id \in Ids(rows)

\* A 200 means every valid event of the request is stored, those this
\* request counted as duplicates of another request's rows included.
AckedStored ==
  \A h \in Handler : hs[h].pc = "reply" /\ hs[h].status = 200 => Stored(hs[h])

\* The watermark of a process never runs ahead of what was committed: it is
\* the time of an event of a committed request, whose id is stored.  The
\* event need not be the row: note_pipeline_events is given all valid events
\* (ingestion.py:195), so that a duplicate with a later occurred_at than the
\* stored copy advances the watermark as well.
WatermarkBacked ==
  \A p \in Proc : app[p].watermark # 0 =>
    \E e \in heard : e.at = app[p].watermark /\ e.id \in Ids(rows)

\* While a process lives its watermark never goes back, although requests
\* finish in any order.
WatermarkMonotone ==
  [][\A p \in Proc : app[p].running /\ app'[p].running =>
                       app[p].watermark <= app'[p].watermark]_vars

\* The handlers together are one atomic, idempotent event store.
Store == INSTANCE EventStore

ImplementsEventStore == Store!Spec

(***************************************************************************)
(* The inductive invariant: what each handler knows at each of its awaits. *)
(***************************************************************************)

\* Every valid event of the request is stored, or about to be by this
\* handler, or still on its list.
Covered(r) ==
  \A i \in Valid(r.items) :
    \/ r.items[i].id \in Ids(rows)
    \/ r.items[i].id \in Ids(r.pending)
    \/ \E j \in r.todo : r.items[j].id = r.items[i].id

HandlerOK(r) ==
  /\ r.pc # "idle" => r.batch \in BatchId
  /\ r.pc \notin InTransaction => r.pending = {}
  /\ IsFiniteSet(r.pending)
  /\ r.toInsert \subseteq DOMAIN r.items
  /\ r.pc = "insert" => r.todo \subseteq Valid(r.items) /\ Covered(r)
  /\ r.pc = "commit" => /\ r.todo = {}
                        /\ Covered(r)
                        /\ r.accepted = Ids(r.pending)
                        /\ \A entry \in ledger : entry.batch # r.batch
  /\ r.pc = "committed" => /\ Stored(r)
                           /\ \A i \in Valid(r.items) : r.items[i] \in heard
  /\ r.pc = "reply" /\ r.status = 200 => Stored(r)

\* Two transactions never hold the same key of ingest_batches.
BatchKeysExclusive ==
  \A g, h \in Handler :
    g # h /\ hs[g].pc = "commit" /\ hs[h].pc = "commit" => hs[g].batch # hs[h].batch

\* All that a handler has read before an await is still true after it, in
\* the weaker form that the rest of ingest() relies on.
IInv ==
  /\ TypeOK
  /\ KeysExclusive
  /\ LedgerExplainsRows
  /\ BatchKeysExclusive
  /\ WatermarkBacked
  /\ \A h \in Handler : HandlerOK(hs[h])

=============================================================================
