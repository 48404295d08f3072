------------------------------- MODULE Delivery -------------------------------
(***************************************************************************)
(* The replay clients (ingest/replay.py, ingest/client.py) against the     *)
(* ingestion service.  A client posts the batches of its JSONL file in     *)
(* order; every attempt carries a fresh batch_id and the same events, and  *)
(* an attempt that is refused, times out or loses its answer is repeated,  *)
(* MaxAttempts times in all, before the replay gives up.  A request that   *)
(* timed out keeps running in the service, next to its own retry.          *)
(*                                                                         *)
(* MaxFaults bounds the faults of a behaviour, so that a replay run again  *)
(* after a failure must get through in the end.                            *)
(***************************************************************************)
EXTENDS Ingestion

CONSTANTS
  Client,
  File,         \* File[c]: the batches of the replayed file, in order
  MaxAttempts,  \* stop_after_attempt
  MaxFaults     \* bound on lost answers, lost connections, outages and crashes

ASSUME FileAssumption == File \in [Client -> Seq(Request) \ {<<>>}]
ASSUME BatchIdAssumption == BatchId \subseteq Nat

VARIABLES
  client,   \* client[c]: the state of replay client c
  faults    \* faults so far

deliveryVars == <<rows, heard, ledger, dbUp, hs, app, poll, client, faults>>

IdleClient == [pc |-> "ready", pos |-> 1, attempt |-> 1, handler |-> "none"]

DeliveryInit ==
  /\ Init
  /\ client = [c \in Client |-> IdleClient]
  /\ faults = 0

\* The next uuid4: an id that no batch row and no running request has.
FreshBatchId ==
  LET busy == {h \in Handler : hs[h].pc # "idle"}
      used == {entry.batch : entry \in ledger} \cup {hs[h].batch : h \in busy}
  IN  {b \in BatchId \ used : \A x \in BatchId \ used : b <= x}

\* An attempt fails: tenacity tries again, or RetryError ends the replay.
AttemptFailed(r) ==
  IF r.attempt < MaxAttempts
  THEN [r EXCEPT !.pc = "ready", !.attempt = @ + 1, !.handler = "none"]
  ELSE [r EXCEPT !.pc = "failed", !.handler = "none"]

\* post_batch returned: the loop of replay_file goes on to the next batch.
BatchDone(c, r) ==
  [r EXCEPT !.pc = IF r.pos = Len(File[c]) THEN "done" ELSE "ready",
            !.pos = @ + 1, !.attempt = 1, !.handler = "none"]

Post(c) ==
  /\ client[c].pc = "ready"
  /\ \E h \in Handler, b \in FreshBatchId :
       /\ Receive(h, b, File[c][client[c].pos])
       /\ client' = [client EXCEPT ![c].pc = "waiting", ![c].handler = h]
  /\ UNCHANGED faults

\* No process listens: the connection is refused.
ConnectionRefused(c) ==
  /\ client[c].pc = "ready"
  /\ \A p \in Proc : ~app[p].running
  /\ client' = [client EXCEPT ![c] = AttemptFailed(@)]
  /\ UNCHANGED <<rows, heard, ledger, dbUp, hs, app, poll, faults>>

\* Mutant of Answer: no raise_for_status.
AnswerAny(c) ==
  /\ client[c].pc = "waiting"
  /\ Respond(client[c].handler)
  /\ client' = [client EXCEPT ![c] = BatchDone(c, @)]
  /\ UNCHANGED faults

\* The answer arrives; raise_for_status makes any error status an attempt
\* that failed.
Answer(c) ==
  /\ client[c].pc = "waiting"
  /\ Respond(client[c].handler)
  /\ client' = [client EXCEPT ![c] =
       IF hs[@.handler].status = 200 THEN BatchDone(c, @) ELSE AttemptFailed(@)]
  /\ UNCHANGED faults

\* The 10 s timeout, or a lost answer: the service knows nothing of it.
Timeout(c) ==
  /\ faults < MaxFaults
  /\ client[c].pc = "waiting"
  /\ client' = [client EXCEPT ![c] = AttemptFailed(@)]
  /\ faults' = faults + 1
  /\ UNCHANGED vars

\* The answer to a request whose client is gone.
Unheard(h) ==
  /\ \A c \in Client : client[c].handler # h
  /\ Respond(h)
  /\ UNCHANGED <<client, faults>>

\* The operator replays the whole file again.
Rerun(c) ==
  /\ client[c].pc = "failed"
  /\ client' = [client EXCEPT ![c] = IdleClient]
  /\ UNCHANGED <<rows, heard, ledger, dbUp, hs, app, poll, faults>>

\* A fault of the service; the connections of a dead process are reset.
ServiceFault ==
  /\ faults < MaxFaults
  /\ faults' = faults + 1
  /\ \/ DbDown /\ UNCHANGED client
     \/ (\E h \in Handler : LoseConnection(h)) /\ UNCHANGED client
     \/ \E p \in Proc :
          /\ Crash(p)
          /\ client' = [c \in Client |->
               IF client[c].pc = "waiting" /\ ProcOf[client[c].handler] = p
               THEN AttemptFailed(client[c]) ELSE client[c]]

ServiceStep(h) ==
  /\ \/ FindExisting(h) \/ FindFails(h) \/ InsertRow(h) \/ RecordBatch(h)
     \/ Commit(h) \/ Finish(h) \/ Fail(h)
  /\ UNCHANGED <<client, faults>>

DeliveryNext ==
  \/ \E c \in Client :
       Post(c) \/ ConnectionRefused(c) \/ Answer(c) \/ Timeout(c) \/ Rerun(c)
  \/ \E h \in Handler : ServiceStep(h) \/ Unheard(h)
  \/ Environment /\ UNCHANGED <<client, faults>>
  \/ ServiceFault

DeliverySpec == DeliveryInit /\ [][DeliveryNext]_deliveryVars

(***************************************************************************)
(* Timing.  A retry comes after a backoff of at least half a second, and a *)
(* replay run again comes later still: by then PostgreSQL has handed every *)
(* released lock to the statement that waited for it.  Without this, two   *)
(* clients can take turns as deadlock victims for ever.                    *)
(***************************************************************************)
LocksHandedOver == \A h \in Handler : hs[h].pc = "insert" => Blocked(h)

Posts(c) == client[c].pc = "ready" /\ client'[c].pc = "waiting"

PatientNext == DeliveryNext /\ ((\E c \in Client : Posts(c)) => LocksHandedOver)

(***************************************************************************)
(* Fairness of the service as in Ingestion, and of the database, which the *)
(* container platform restarts; clients are asyncio programs that take     *)
(* their next step; the operator of a failed replay runs it again.         *)
(***************************************************************************)
DeliveryFairness ==
  /\ Fairness
  /\ WF_deliveryVars(DbUp /\ UNCHANGED <<client, faults>>)
  /\ \A c \in Client :
       /\ SF_deliveryVars(Post(c) /\ LocksHandedOver)
       /\ WF_deliveryVars(ConnectionRefused(c))
       /\ WF_deliveryVars(Answer(c))
       /\ WF_deliveryVars(Rerun(c))

FairDeliverySpec == DeliveryInit /\ [][PatientNext]_deliveryVars /\ DeliveryFairness

-----------------------------------------------------------------------------
(* Properties *)

\* A replay that has moved past a batch has every valid event of it in the
\* store, whatever was lost, refused or retried on the way: replay_file goes
\* on only after a 200 (replay.py:30-33).
PassedIsStored ==
  \A c \in Client : \A k \in 1..(client[c].pos - 1) :
    LET items == File[c][k]
    IN  {items[i].id : i \in Valid(items)} \subseteq Ids(rows)

\* Faults end, so every replay is complete in the end: retries, the
\* db_available gate, deadlock victims and leftovers of attempts that timed
\* out never keep a file out of the store.
EventualDelivery == \A c \in Client : <>(client[c].pc = "done")
=============================================================================
