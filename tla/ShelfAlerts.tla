------------------------------ MODULE ShelfAlerts ------------------------------
(***************************************************************************)
(* Alerts about the cells of a shelf.  Three threads work on one Redis     *)
(* database, one command at a time: the analysis thread turns frames into  *)
(* consensus and consensus into alerts, the poll thread looks for alerts   *)
(* to show, and the user interface confirms and dismisses what it shows.   *)
(*                                                                         *)
(* Redis holds a record per alert ("alert:<id>"), the set of active alerts *)
(* ("active_alerts") and the latest alert of each cell ("cell_alert:...").  *)
(* Alerts are numbered in the order of their creation.                     *)
(***************************************************************************)
EXTENDS CellConsensus

CONSTANTS
  Cell,          \* the cells of the planogram
  MaxAlerts,     \* bound on the alerts created
  MaxClicks,     \* bound on the decisions of the staff
  MaxFailures    \* bound on the Redis commands that fail

ASSUME ShelfAssumption ==
  /\ IsFiniteSet(Cell)
  /\ MaxAlerts \in Nat \ {0}
  /\ MaxClicks \in Nat
  /\ MaxFailures \in Nat

VARIABLES
  planogram,   \* StreamProcessingUseCase._planograms: unread, none, loaded
  cell,        \* consensus state of each cell
  alert,       \* alert records, by number
  active,      \* the set active_alerts
  key,         \* the cell index; 0 is no key
  thread,      \* program counter and locals of the threads that write
  tasks,       \* what the current frame still asks of the alerts
  poll,        \* locals of the poll thread
  lastIds,     \* AlertThread._last_alert_ids
  mail,        \* new_alert_signal on its way to the user interface
  panel,       \* alerts shown
  clicks,
  failures,
  lapses       \* history: which known weaknesses have struck

redis == <<alert, active, key>>
screen == <<mail, panel, clicks>>
polling == <<poll, lastIds>>
vars == <<planogram, cell, redis, thread, tasks, polling, screen, failures, lapses>>

NoAlert == 0

Id == 1..MaxAlerts

Alert == [cell : Cell, confirmed : BOOLEAN, dismissed : BOOLEAN]

Thread == {"analysis", "staff"}

Decision == {"confirm", "dismiss"}

Idle == [at |-> "idle", op |-> "none", id |-> NoAlert]

Decided(a) == a.confirmed \/ a.dismissed

Open == {i \in DOMAIN alert : ~Decided(alert[i])}

\* A thread that holds a copy of an alert has it as a field of its state.
At(t, where) == thread[t].at = where

Goto(t, where) == thread' = [thread EXCEPT ![t].at = where]

GotoWith(t, where, id) == thread' = [thread EXCEPT ![t].at = where, ![t].id = id]

Holding(t, where, copy) ==
  thread' = [thread EXCEPT ![t] =
               [at |-> where, op |-> thread[t].op, id |-> thread[t].id, copy |-> copy]]

\* The task at hand is over.
TaskDone ==
  /\ thread' = [thread EXCEPT !["analysis"] = Idle]
  /\ tasks' = Tail(tasks)

Lapse(when, what) == lapses' = IF when THEN lapses \cup {what} ELSE lapses

-----------------------------------------------------------------------------
(* Initial states: main() has emptied the database, the window is open. *)

Init ==
  /\ planogram = "unread"
  /\ cell = [c \in Cell |-> FreshCell]
  /\ alert = <<>>
  /\ active = {}
  /\ key = [c \in Cell |-> NoAlert]
  /\ thread = [t \in Thread |-> Idle]
  /\ tasks = <<>>
  /\ poll = [at |-> "waiting", pending |-> {}, found |-> {}]
  /\ lastIds = {}
  /\ mail = {}
  /\ panel = {}
  /\ clicks = 0
  /\ failures = 0
  /\ lapses = {}

-----------------------------------------------------------------------------
(* Analysis thread *)

\* The first frame looks the planogram up.  One that is missing is remembered
\* as missing: this frame is refused, and every later one raises.
MissingPlanogram ==
  /\ planogram = "unread"
  /\ planogram' = "none"
  /\ UNCHANGED <<cell, redis, thread, tasks, polling, screen, failures, lapses>>

AnalyzeWithoutPlanogram ==
  /\ planogram = "none"
  /\ UNCHANGED vars

\* Stop and start makes a new use case, which looks the planogram up again;
\* all else goes on.  Where there is a planogram this changes nothing here.
Restart ==
  /\ planogram = "none"
  /\ planogram' = "unread"
  /\ UNCHANGED <<cell, redis, thread, tasks, polling, screen, failures, lapses>>

\* A frame with detections updates every cell of the planogram; first alerts
\* are raised, then others cleared.  _cleanup_stale_states finds nothing then:
\* all cells of the one shelf have just been updated.
Analyze ==
  /\ planogram # "none"
  /\ planogram' = "loaded"
  /\ At("analysis", "idle")
  /\ tasks = <<>>
  /\ \E frame \in [Cell -> Seen] :
       LET after == [c \in Cell |-> Update(cell[c], frame[c])]
           raise == {c \in Cell : Raises(cell[c], after[c])}
           clear == {c \in Cell : Clears(after[c])}
           Task(op, s) == [i \in DOMAIN s |-> [op |-> op, cell |-> s[i]]]
       IN  /\ cell' = after
           /\ Len(alert) + Cardinality(raise) <= MaxAlerts
           /\ \E r \in SetToSeqs(raise), k \in SetToSeqs(clear) :
                tasks' = Task("raise", r) \o Task("clear", k)
  /\ UNCHANGED <<redis, thread, polling, screen, failures, lapses>>

\* get_by_cell, first command: the key of the cell.
ReadKey ==
  /\ At("analysis", "idle")
  /\ tasks # <<>>
  /\ LET id == key[Head(tasks).cell]
     IN  IF id # NoAlert THEN GotoWith("analysis", "read", id) /\ UNCHANGED tasks
         ELSE IF Head(tasks).op = "raise" THEN Goto("analysis", "create") /\ UNCHANGED tasks
         ELSE TaskDone
  /\ UNCHANGED <<planogram, cell, redis, polling, screen, failures, lapses>>

\* Mutant of ReadAlert: generate_alert always creates.
ReadAlertAndCreate ==
  /\ At("analysis", "read")
  /\ LET a == alert[thread["analysis"].id]
     IN  IF Head(tasks).op = "raise" THEN Goto("analysis", "create") /\ UNCHANGED tasks
         ELSE IF Decided(a) THEN TaskDone
         ELSE /\ thread' = [thread EXCEPT !["analysis"].at = "get",
                                          !["analysis"].op = "dismiss"]
              /\ UNCHANGED tasks
  /\ UNCHANGED <<planogram, cell, redis, polling, screen, failures, lapses>>

\* get_by_cell, second command, and what generate_alert or clear_cell_alerts
\* makes of the answer.
ReadAlert ==
  /\ At("analysis", "read")
  /\ LET a == alert[thread["analysis"].id]
     IN  CASE Head(tasks).op = "raise" /\ Decided(a) ->
                Goto("analysis", "create") /\ UNCHANGED tasks
           [] Head(tasks).op = "raise" /\ ~Decided(a) ->
                Holding("analysis", "write", a) /\ UNCHANGED tasks
           [] Head(tasks).op = "clear" /\ Decided(a) -> TaskDone
           [] OTHER ->
                /\ thread' = [thread EXCEPT !["analysis"].at = "get",
                                            !["analysis"].op = "dismiss"]
                /\ UNCHANGED tasks
  /\ UNCHANGED <<planogram, cell, redis, polling, screen, failures, lapses>>

\* update: the alert is written back as it was read.
WriteBack ==
  /\ At("analysis", "write")
  /\ LET me == thread["analysis"]
     IN  /\ alert' = [alert EXCEPT ![me.id] = me.copy]
         /\ Lapse(Decided(alert[me.id]), "reopened")
  /\ TaskDone
  /\ UNCHANGED <<planogram, cell, active, key, polling, screen, failures>>

\* create: the record, the active set, the cell index, in this order.
CreateAlert ==
  /\ At("analysis", "create")
  /\ LET id == Len(alert) + 1
     IN  /\ alert' = Append(alert, [cell |-> Head(tasks).cell,
                                    confirmed |-> FALSE, dismissed |-> FALSE])
         /\ GotoWith("analysis", "list", id)
  /\ UNCHANGED <<planogram, cell, active, key, tasks, polling, screen, failures, lapses>>

ListAlert ==
  /\ At("analysis", "list")
  /\ active' = active \cup {thread["analysis"].id}
  /\ Goto("analysis", "index")
  /\ UNCHANGED <<planogram, cell, alert, key, tasks, polling, screen, failures, lapses>>

IndexCell ==
  /\ At("analysis", "index")
  /\ key' = [key EXCEPT ![Head(tasks).cell] = thread["analysis"].id]
  /\ TaskDone
  /\ UNCHANGED <<planogram, cell, alert, active, polling, screen, failures, lapses>>

-----------------------------------------------------------------------------
(* confirm_alert and dismiss_alert of the repository, on either thread *)

\* A thread returns from a decision.  The window takes the alert off the panel.
Return(t) ==
  IF t = "analysis" THEN TaskDone /\ UNCHANGED screen
  ELSE /\ thread' = [thread EXCEPT ![t] = Idle]
       /\ panel' = panel \ {thread[t].id}
       /\ UNCHANGED <<tasks, mail, clicks>>

ReadForDecision(t) ==
  /\ At(t, "get")
  /\ Holding(t, "set", alert[thread[t].id])
  /\ UNCHANGED <<planogram, cell, redis, tasks, polling, screen, failures, lapses>>

WriteDecision(t) ==
  /\ At(t, "set")
  /\ LET me == thread[t]
     IN  alert' = [alert EXCEPT ![me.id] =
                     IF me.op = "confirm" THEN [me.copy EXCEPT !.confirmed = TRUE]
                     ELSE [me.copy EXCEPT !.dismissed = TRUE]]
  /\ thread' = [thread EXCEPT ![t] = [at |-> "unlist", op |-> @.op, id |-> @.id]]
  /\ UNCHANGED <<planogram, cell, active, key, tasks, polling, screen, failures, lapses>>

\* Mutant of Unlist: confirm_alert leaves the active set alone.
UnlistDismissed(t) ==
  /\ At(t, "unlist")
  /\ IF thread[t].op = "confirm" THEN Return(t) /\ UNCHANGED active
     ELSE /\ active' = active \ {thread[t].id}
          /\ Goto(t, "unkey")
          /\ UNCHANGED <<tasks, screen>>
  /\ UNCHANGED <<planogram, cell, alert, key, polling, failures, lapses>>

Unlist(t) ==
  /\ At(t, "unlist")
  /\ active' = active \ {thread[t].id}
  /\ IF thread[t].op = "confirm" THEN Return(t)
     ELSE Goto(t, "unkey") /\ UNCHANGED <<tasks, screen>>
  /\ UNCHANGED <<planogram, cell, alert, key, polling, failures, lapses>>

\* The key of the cell goes, whichever alert it leads to by now.
Unkey(t) ==
  /\ At(t, "unkey")
  /\ LET c == alert[thread[t].id].cell
     IN  /\ key' = [key EXCEPT ![c] = NoAlert]
         /\ Lapse(key[c] \notin {NoAlert, thread[t].id}, "misfired")
  /\ Return(t)
  /\ UNCHANGED <<planogram, cell, alert, active, polling, failures>>

-----------------------------------------------------------------------------
(* Poll thread *)

PollStart ==
  /\ poll.at = "waiting"
  /\ poll' = [at |-> "reading", pending |-> active, found |-> {}]
  /\ UNCHANGED <<planogram, cell, redis, thread, tasks, lastIds, screen, failures, lapses>>

PollRead ==
  /\ poll.at = "reading"
  /\ \E i \in poll.pending :
       poll' = [poll EXCEPT !.pending = @ \ {i},
                            !.found = IF Decided(alert[i]) THEN @ ELSE @ \cup {i}]
  /\ UNCHANGED <<planogram, cell, redis, thread, tasks, lastIds, screen, failures, lapses>>

\* Mutant of PollEmit: remembers what is listed instead of what was found.
PollEmitListed ==
  /\ poll.at = "reading"
  /\ poll.pending = {}
  /\ mail' = mail \cup (poll.found \ lastIds)
  /\ lastIds' = active
  /\ poll' = [at |-> "waiting", pending |-> {}, found |-> {}]
  /\ UNCHANGED <<planogram, cell, redis, thread, tasks, panel, clicks, failures, lapses>>

PollEmit ==
  /\ poll.at = "reading"
  /\ poll.pending = {}
  /\ mail' = mail \cup (poll.found \ lastIds)
  /\ lastIds' = poll.found
  /\ poll' = [at |-> "waiting", pending |-> {}, found |-> {}]
  /\ UNCHANGED <<planogram, cell, redis, thread, tasks, panel, clicks, failures, lapses>>

-----------------------------------------------------------------------------
(* User interface thread *)

ShowAlert ==
  /\ At("staff", "idle")
  /\ \E i \in mail : mail' = mail \ {i} /\ panel' = panel \cup {i}
  /\ UNCHANGED <<planogram, cell, redis, thread, tasks, polling, clicks, failures, lapses>>

Click ==
  /\ At("staff", "idle")
  /\ clicks < MaxClicks
  /\ clicks' = clicks + 1
  /\ \E i \in panel, op \in Decision :
       thread' = [thread EXCEPT !["staff"] = [at |-> "get", op |-> op, id |-> i]]
  /\ UNCHANGED <<planogram, cell, redis, tasks, polling, mail, panel, failures, lapses>>

-----------------------------------------------------------------------------
(* A Redis command fails *)

Failing ==
  /\ failures < MaxFailures
  /\ failures' = failures + 1
  /\ lapses' = lapses \cup {"failed"}

\* In get_by_cell the error is swallowed: there seems to be no alert.
LookupFails ==
  /\ Failing
  /\ At("analysis", "idle") \/ At("analysis", "read")
  /\ tasks # <<>>
  /\ IF Head(tasks).op = "raise" THEN Goto("analysis", "create") /\ UNCHANGED tasks
     ELSE TaskDone
  /\ UNCHANGED <<planogram, cell, redis, polling, screen>>

\* Elsewhere it is logged and the task, or the click, is given up.
CommandFails(t) ==
  /\ Failing
  /\ ~At(t, "idle") /\ ~At(t, "read")
  /\ IF t = "analysis" THEN TaskDone
     ELSE thread' = [thread EXCEPT ![t] = Idle] /\ UNCHANGED tasks
  /\ UNCHANGED <<planogram, cell, redis, polling, screen>>

\* The poll finds nothing, or misses one alert.
PollFails ==
  /\ Failing
  /\ poll.at = "reading"
  /\ \E missed \in {poll.pending} \cup {{i} : i \in poll.pending} :
       /\ missed # {}
       /\ poll' = [poll EXCEPT !.pending = @ \ missed]
  /\ UNCHANGED <<planogram, cell, redis, thread, tasks, lastIds, screen>>

-----------------------------------------------------------------------------

AnalysisStep ==
  ReadKey \/ ReadAlert \/ WriteBack \/ CreateAlert \/ ListAlert \/ IndexCell

DecisionStep(t) == ReadForDecision(t) \/ WriteDecision(t) \/ Unlist(t) \/ Unkey(t)

PollStep == PollStart \/ PollRead \/ PollEmit

Fault == LookupFails \/ (\E t \in Thread : CommandFails(t)) \/ PollFails

Next ==
  \/ MissingPlanogram
  \/ AnalyzeWithoutPlanogram
  \/ Restart
  \/ Analyze
  \/ AnalysisStep
  \/ \E t \in Thread : DecisionStep(t)
  \/ PollStep
  \/ ShowAlert
  \/ Click
  \/ Fault

Spec == Init /\ [][Next]_vars

\* The threads run; frames, clicks and failures come or do not.
Fairness ==
  /\ WF_vars(AnalysisStep)
  /\ \A t \in Thread : WF_vars(DecisionStep(t))
  /\ WF_vars(PollStep)
  /\ WF_vars(ShowAlert)

FairSpec == Spec /\ Fairness

-----------------------------------------------------------------------------
(* Properties *)

\* An alert that is decided but still listed as active is on its way out of the
\* list: some thread is between the two commands of its decision, or that
\* command has failed.
ListedIsOpen ==
  "failed" \notin lapses =>
    \A i \in active :
      Decided(alert[i]) => \E t \in Thread : At(t, "unlist") /\ thread[t].id = i

\* A cell never has two open alerts, and the analysis finds the one it has by
\* the key of the cell, except after one of three lapses: a blind write-back
\* undid a decision, a dismissal deleted the key of a newer alert, or a Redis
\* command failed.
OneOpenPerCell ==
  lapses = {} =>
    \A i \in Open :
      /\ \A j \in Open : alert[i].cell = alert[j].cell => i = j
      /\ \/ key[alert[i].cell] = i
         \/ thread["analysis"].id = i /\ thread["analysis"].at \in {"list", "index"}

\* Every alert that is created was confirmed: the last NConfirm frames all
\* showed its cell bad in the same way.
AlertsAreConfirmed ==
  [][Len(alert') > Len(alert) =>
       LET h == cell[alert'[Len(alert')].cell].history
       IN  /\ Len(h) >= NConfirm
           /\ \E s \in Bad : Range(LastOf(h, NConfirm)) = {s}]_vars

\* Every alert that is open and listed is shown sooner or later, or decided by
\* the analysis before: the poll thread misses none, whatever is created,
\* decided or failing between its commands.
EveryAlertShown ==
  \A i \in Id : i \in active \cap Open ~> (i \in panel \/ i \notin Open)
===============================================================================
