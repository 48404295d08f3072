----------------------------- MODULE Operations -----------------------------
(***************************************************************************)
(* One cycle of the operations loop (POST /operations/loop/run):           *)
(* predictions from the longest queue and from every shelf, incidents with *)
(* a priority, an action for the first few of them, and the verification   *)
(* of all tasks so far (services/orchestrator.py and the engines it        *)
(* calls).  A store has queues [depth, arrivals, service, counters] and    *)
(* shelves [units, used], rates per minute in whole persons and units.     *)
(***************************************************************************)
EXTENDS Integers, FiniteSets, Sequences, SequencesExt

CONSTANTS
  MaxActions    \* incidents acted on in one cycle: 5 in the code

ASSUME OperationsAssumption == MaxActions \in Nat \ {0}

----------------------------------------------------------------------------
(* Predict *)

\* The first of the longest queues.
LongestQueue(queues) ==
  CHOOSE i \in DOMAIN queues : \A j \in DOMAIN queues :
    \/ queues[i].depth > queues[j].depth
    \/ queues[i].depth = queues[j].depth /\ i <= j

\* QueuePredictor.predict_congestion: 8 persons are critical, 5 a warning, and
\* so is a queue that grows to 8 within five minutes or later.
Congestion(q) ==
  LET growth == q.arrivals - q.service * q.counters
  IN  CASE q.counters = 0 \/ q.depth >= 8 -> "critical"
        [] q.counters > 0 /\ q.depth < 8 /\ growth > 0 ->
             IF 8 - q.depth < 5 * growth THEN "critical" ELSE "warning"
        [] q.counters > 0 /\ q.depth < 8 /\ growth <= 0 ->
             IF q.depth >= 5 THEN "warning" ELSE "normal"

\* InventoryPredictor.predict_stockout: 2 units or ten minutes are critical, 4
\* units or half an hour are low.
Stock(shelf) ==
  CASE shelf.units = 0 -> "out"
    [] shelf.units > 0 /\ (shelf.units <= 2 \/ shelf.units < 10 * shelf.used) -> "critical"
    [] shelf.units > 2 /\ shelf.units >= 10 * shelf.used ->
         IF shelf.units <= 4 \/ shelf.units < 30 * shelf.used THEN "low" ELSE "normal"

----------------------------------------------------------------------------
(* Decide *)

\* PriorityEngine.calculate_priority_score, in units of 10^-5: impact, urgency,
\* confidence and the customers affected over ten.
Score(impact, urgency, confidence, customers) ==
  impact * urgency * confidence * IF customers > 20 THEN 20 ELSE customers

\* Mutant of QueueScore: a warning is no more urgent than a shelf that runs low.
QueueScoreLow(status) == IF status = "critical" THEN Score(9, 10, 90, 8) ELSE Score(9, 6, 90, 4)

QueueScore(status) == IF status = "critical" THEN Score(9, 10, 90, 8) ELSE Score(9, 7, 90, 4)

StockScore(status) == IF status = "low" THEN Score(8, 6, 85, 3) ELSE Score(8, 10, 85, 3)

QueueIncidents(queues) ==
  IF queues = <<>> THEN <<>>
  ELSE LET status == Congestion(queues[LongestQueue(queues)])
       IN  IF status = "normal" THEN <<>>
           ELSE <<[of |-> "queue", status |-> status, score |-> QueueScore(status)]>>

StockIncident(shelf) ==
  [of |-> "shelf", status |-> Stock(shelf), score |-> StockScore(Stock(shelf))]

Alarming(incident) == incident.status # "normal"

\* PriorityEngine.rank_incidents: by falling score, the order kept among equals.
Ranked(incidents) ==
  LET alarms       == {i \in DOMAIN incidents : Alarming(incidents[i])}
      Before(i, j) == \/ incidents[i].score > incidents[j].score
                      \/ incidents[i].score = incidents[j].score /\ i < j
      Nth(n)       == CHOOSE i \in alarms : Cardinality({j \in alarms : Before(j, i)}) = n - 1
  IN  [n \in 1..Cardinality(alarms) |-> incidents[Nth(n)]]

\* EdgeOrchestrator._stage_decide: predictions that call for nothing raise no incident.
Incidents(store) ==
  Ranked(QueueIncidents(store.queues) \o [i \in DOMAIN store.shelves |-> StockIncident(store.shelves[i])])

----------------------------------------------------------------------------
(* Act *)

ActionFor(incident) == IF incident.of = "queue" THEN "MOVE_STAFF" ELSE "CREATE_RESTOCK_TASK"

\* EdgeOrchestrator._stage_act.
ActedOn(incidents) == SubSeq(incidents, 1, IF Len(incidents) > MaxActions THEN MaxActions ELSE Len(incidents))

\* The tasks a cycle adds to ActionManager.active_tasks.
NewTasks(store) ==
  LET acted == ActedOn(Incidents(store)) IN [i \in DOMAIN acted |-> ActionFor(acted[i])]

----------------------------------------------------------------------------
(* Verify *)

Open(task) == task.status # "COMPLETED"

\* ActionManager.verify_action, by two fields that a store state of the API
\* does not have: their defaults, infinity and 0, resolve nothing.
Resolved(task, store) ==
  \/ /\ task.action = "MOVE_STAFF"
     /\ "queue_length" \in DOMAIN store /\ store.queue_length < 5
  \/ /\ task.action = "CREATE_RESTOCK_TASK"
     /\ "shelf_quantity" \in DOMAIN store /\ store.shelf_quantity > 4

\* EdgeOrchestrator._stage_verify, over the tasks of this and of every earlier cycle.
Verified(tasks, store) ==
  [i \in DOMAIN tasks |->
     IF Open(tasks[i]) /\ Resolved(tasks[i], store) THEN [tasks[i] EXCEPT !.status = "COMPLETED"] ELSE tasks[i]]

\* The orchestrator of a new process.
NewLoop == [tasks |-> <<>>, last |-> <<>>]

\* EdgeOrchestrator.run_cycle: active_tasks only grows, and the snapshot that
\* GET /operations/loop/snapshot returns is the latest.
Cycle(loop, store) ==
  LET new   == NewTasks(store)
      tasks == loop.tasks \o [i \in DOMAIN new |-> [action |-> new[i], status |-> "RECOMMENDED"]]
      after == Verified(tasks, store)
  IN  [tasks |-> after,
       last  |-> <<[incidents |-> Len(Incidents(store)), actions |-> Len(new),
                    checked   |-> Cardinality({i \in DOMAIN tasks : Open(tasks[i])}),
                    verified  |-> Cardinality({i \in DOMAIN tasks : after[i] # tasks[i]})]>>]
=============================================================================
