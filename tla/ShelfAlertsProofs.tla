--------------------------- MODULE ShelfAlertsProofs ---------------------------
(***************************************************************************)
(* Alerts about the cells of a shelf, for any cells, bounds and tuning:    *)
(* what is listed is open, a cell has one open alert that its key leads to *)
(* as long as none of the three known lapses has struck, and an alert is   *)
(* created for a confirmed cell only.                                      *)
(***************************************************************************)
EXTENDS ShelfAlerts, SequenceTheorems, FiniteSetTheorems, TLAPS

Ids == DOMAIN alert

Analysis == thread["analysis"]

Staff == thread["staff"]

Task == [op : {"raise", "clear"}, cell : Cell]

\* A thread between two commands, without and with the copy of an alert.
Loose ==
  [at : {"idle", "read", "create", "list", "index", "get", "unlist", "unkey"},
   op : {"none"} \cup Decision, id : Nat]

Carrying == [at : {"write", "set"}, op : {"none"} \cup Decision, id : Nat, copy : Alert]

ThreadState == Loose \cup Carrying

PollState == [at : {"waiting", "reading"}, pending : SUBSET Nat, found : SUBSET Nat]

\* The alerts that anybody but the analysis can know of.
Known == active \cup poll.pending \cup poll.found \cup mail \cup panel

TypeInv ==
  /\ alert \in Seq(Alert)
  /\ active \in SUBSET Nat /\ mail \in SUBSET Nat /\ panel \in SUBSET Nat
  /\ key \in [Cell -> Nat]
  /\ thread \in [Thread -> ThreadState]
  /\ tasks \in Seq(Task)
  /\ poll \in PollState

\* Every number that is kept is that of an alert.
RefInv ==
  /\ Known \subseteq Ids
  /\ \A c \in Cell : key[c] \in {NoAlert} \cup Ids
  /\ \A t \in Thread : thread[t].at \notin {"idle", "create"} => thread[t].id \in Ids

\* The staff only decides, the analysis works on the first of its tasks, and a
\* copy is one of the alert that will be written.
ThreadInv ==
  /\ Staff.at \in {"idle", "get", "set", "unlist", "unkey"}
  /\ Analysis.at # "idle" => tasks # <<>>
  /\ Analysis.at = "create" => Head(tasks).op = "raise"
  /\ Analysis.at \in {"list", "index"} => alert[Analysis.id].cell = Head(tasks).cell
  /\ \A t \in Thread :
       /\ thread[t].at \in {"write", "set"} => thread[t].copy.cell = alert[thread[t].id].cell
       /\ At(t, "write") => ~Decided(thread[t].copy)

Base == TypeInv /\ RefInv /\ ThreadInv

-----------------------------------------------------------------------------
(* Threads, tasks and alerts *)

LEMMA ShelfTyped ==
  /\ IsFiniteSet(Cell) /\ NConfirm \in Nat \ {0} /\ NClear \in Nat \ {0}
  /\ OscWindow \in Nat \ {0} /\ MaxHistory \in Nat \ {0} /\ MaxAlerts \in Nat \ {0}
BY ShelfAssumption, ConsensusAssumption

LEMMA Threads == Thread = {"analysis", "staff"} /\ "analysis" \in Thread /\ "staff" \in Thread
BY DEF Thread

LEMMA IdsTyped ==
  ASSUME TypeInv
  PROVE  Ids = 1..Len(alert) /\ Len(alert) \in Nat /\ NoAlert \notin Ids
BY LenProperties DEF TypeInv, Ids, NoAlert

\* A thread is as it was, with what its state says of its place.
LEMMA ThreadTyped ==
  ASSUME TypeInv, NEW t \in Thread
  PROVE  /\ thread[t] \in ThreadState
         /\ thread[t].id \in Nat /\ thread[t].op \in {"none"} \cup Decision
         /\ thread[t].at \in {"write", "set"} => thread[t] \in Carrying /\ thread[t].copy \in Alert
         /\ thread[t].at \notin {"write", "set"} => thread[t] \in Loose
BY DEF TypeInv, ThreadState, Loose, Carrying

\* Idle, and the moves of a thread that carries nothing.
LEMMA MovesTyped ==
  /\ Idle \in Loose
  /\ \A s \in Loose, a \in {"idle", "read", "create", "list", "index", "get", "unlist", "unkey"} :
       [s EXCEPT !.at = a] \in Loose
  /\ \A s \in Loose, i \in Nat, a \in {"read", "list"} : [s EXCEPT !.at = a, !.id = i] \in Loose
  /\ \A s \in Loose : [s EXCEPT !.at = "get", !.op = "dismiss"] \in Loose
BY DEF Idle, Loose, NoAlert, Decision

\* The first task, and those that are left when it is over.
LEMMA TasksTyped ==
  ASSUME TypeInv, tasks # <<>>
  PROVE  Head(tasks) \in Task /\ Tail(tasks) \in Seq(Task)
BY HeadTailProperties DEF TypeInv

LEMMA Moved ==
  ASSUME TypeInv, NEW t \in Thread, NEW s \in ThreadState, thread' = [thread EXCEPT ![t] = s]
  PROVE  /\ thread' \in [Thread -> ThreadState]
         /\ thread'[t] = s
         /\ \A u \in Thread \ {t} : thread'[u] = thread[u]
BY DEF TypeInv

\* The end of a task.
LEMMA DoneMoves ==
  ASSUME TypeInv, tasks # <<>>, TaskDone
  PROVE  /\ thread' \in [Thread -> ThreadState]
         /\ Analysis' = Idle /\ Staff' = Staff
         /\ tasks' = Tail(tasks) /\ tasks' \in Seq(Task)
<1>1. thread' = [thread EXCEPT !["analysis"] = Idle]
  BY DEF TaskDone
<1>2. Idle \in ThreadState
  BY MovesTyped DEF ThreadState
<1>3. /\ thread' \in [Thread -> ThreadState]
      /\ thread'["analysis"] = Idle
      /\ \A u \in Thread \ {"analysis"} : thread'[u] = thread[u]
  BY <1>1, <1>2, Threads, Moved
<1>. QED
  BY <1>3, Threads, TasksTyped DEF TaskDone, Analysis, Staff

\* A move of a thread that carries nothing.
LEMMA GotoMoves ==
  ASSUME TypeInv, NEW t \in Thread, thread[t] \in Loose,
         NEW a \in {"idle", "read", "create", "list", "index", "get", "unlist", "unkey"},
         Goto(t, a)
  PROVE  /\ thread' \in [Thread -> ThreadState]
         /\ thread'[t].at = a /\ thread'[t].id = thread[t].id
         /\ \A u \in Thread \ {t} : thread'[u] = thread[u]
<1>. DEFINE s == [thread[t] EXCEPT !.at = a]
<1>1. s \in Loose /\ s \in ThreadState
  BY MovesTyped DEF ThreadState
<1>2. thread' = [thread EXCEPT ![t] = s]
  BY DEF Goto, TypeInv
<1>3. s.at = a /\ s.id = thread[t].id
  BY DEF Loose
<1>. HIDE DEF s
<1>. QED
  BY <1>1, <1>2, <1>3, Moved

LEMMA GotoWithMoves ==
  ASSUME TypeInv, NEW t \in Thread, thread[t] \in Loose, NEW a \in {"read", "list"}, NEW i \in Nat,
         GotoWith(t, a, i)
  PROVE  /\ thread' \in [Thread -> ThreadState]
         /\ thread'[t].at = a /\ thread'[t].id = i
         /\ \A u \in Thread \ {t} : thread'[u] = thread[u]
<1>. DEFINE s == [thread[t] EXCEPT !.at = a, !.id = i]
<1>1. s \in Loose /\ s \in ThreadState
  BY MovesTyped DEF ThreadState
<1>2. thread' = [thread EXCEPT ![t] = s]
  BY DEF GotoWith, TypeInv
<1>3. s.at = a /\ s.id = i
  BY DEF Loose
<1>. HIDE DEF s
<1>. QED
  BY <1>1, <1>2, <1>3, Moved

LEMMA HoldingMoves ==
  ASSUME TypeInv, NEW t \in Thread, NEW a \in {"write", "set"}, NEW copy \in Alert,
         Holding(t, a, copy)
  PROVE  /\ thread' \in [Thread -> ThreadState]
         /\ thread'[t].at = a /\ thread'[t].id = thread[t].id /\ thread'[t].copy = copy
         /\ \A u \in Thread \ {t} : thread'[u] = thread[u]
<1>. DEFINE s == [at |-> a, op |-> thread[t].op, id |-> thread[t].id, copy |-> copy]
<1>1. s \in ThreadState
  BY ThreadTyped DEF ThreadState, Carrying
<1>2. thread' = [thread EXCEPT ![t] = s]
  BY DEF Holding
<1>3. s.at = a /\ s.id = thread[t].id /\ s.copy = copy
  OBVIOUS
<1>. HIDE DEF s
<1>. QED
  BY <1>1, <1>2, <1>3, Moved

\* One record of an alert is written.
LEMMA AlertWritten ==
  ASSUME TypeInv, NEW i \in Ids, NEW a \in Alert, alert' = [alert EXCEPT ![i] = a]
  PROVE  /\ alert' \in Seq(Alert) /\ Len(alert') = Len(alert) /\ Ids' = Ids
         /\ alert'[i] = a
         /\ \A j \in Ids \ {i} : alert'[j] = alert[j]
<1>1. i \in 1..Len(alert) /\ alert \in Seq(Alert) /\ Ids = 1..Len(alert)
  BY IdsTyped DEF TypeInv
<1>2. /\ alert' \in Seq(Alert) /\ Len(alert') = Len(alert)
      /\ \A j \in 1..Len(alert) : alert'[j] = IF j = i THEN a ELSE alert[j]
  BY <1>1, ExceptSeq
<1>3. DOMAIN alert' = 1..Len(alert')
  BY <1>2, LenProperties
<1>. QED
  BY <1>1, <1>2, <1>3 DEF Ids

LEMMA AlertTyped ==
  ASSUME TypeInv, NEW i \in Ids
  PROVE  /\ alert[i] \in Alert /\ alert[i].cell \in Cell
         /\ alert[i].confirmed \in BOOLEAN /\ alert[i].dismissed \in BOOLEAN
<1>1. alert[i] \in Alert
  BY IdsTyped, ElementOfSeq DEF TypeInv
<1>. QED
  BY <1>1 DEF Alert

-----------------------------------------------------------------------------
(* What each command changes *)

LEMMA ReadKeyMoves ==
  ASSUME Base, ReadKey
  PROVE  /\ UNCHANGED <<cell, redis, polling, screen, lapses>>
         /\ thread' \in [Thread -> ThreadState] /\ tasks' \in Seq(Task)
         /\ Staff' = Staff /\ tasks # <<>> /\ Analysis.at = "idle"
         /\ \/ /\ Analysis'.at = "read" /\ Analysis'.id = key[Head(tasks).cell]
               /\ Analysis'.id \in Ids /\ tasks' = tasks
            \/ /\ Analysis'.at = "create" /\ tasks' = tasks /\ Head(tasks).op = "raise"
               /\ key[Head(tasks).cell] = NoAlert
            \/ Analysis' = Idle /\ tasks' = Tail(tasks)
<1>1. /\ UNCHANGED <<cell, redis, polling, screen, lapses>> /\ tasks # <<>> /\ Analysis.at = "idle"
  BY DEF ReadKey, At, Analysis
<1>2. /\ TypeInv /\ Head(tasks) \in Task /\ tasks \in Seq(Task)
  BY <1>1, TasksTyped DEF Base, TypeInv
<1>3. thread["analysis"] \in Loose
  BY <1>1, <1>2, Threads, ThreadTyped DEF Analysis
<1>. DEFINE id == key[Head(tasks).cell]
<1>4. id \in {NoAlert} \cup Ids /\ id \in Nat
  BY <1>2 DEF Base, RefInv, TypeInv, Task
<1>5. CASE id # NoAlert
  <2>1. GotoWith("analysis", "read", id) /\ tasks' = tasks
    BY <1>5 DEF ReadKey
  <2>2. /\ thread' \in [Thread -> ThreadState]
        /\ thread'["analysis"].at = "read" /\ thread'["analysis"].id = id
        /\ \A u \in Thread \ {"analysis"} : thread'[u] = thread[u]
    <3>. HIDE DEF id
    <3>. QED
      BY <1>2, <1>3, <1>4, <2>1, Threads, GotoWithMoves
  <2>. QED
    BY <1>1, <1>2, <1>4, <1>5, <2>1, <2>2, Threads DEF Analysis, Staff
<1>6. CASE id = NoAlert /\ Head(tasks).op = "raise"
  <2>1. Goto("analysis", "create") /\ tasks' = tasks
    BY <1>6 DEF ReadKey
  <2>2. /\ thread' \in [Thread -> ThreadState]
        /\ thread'["analysis"].at = "create"
        /\ \A u \in Thread \ {"analysis"} : thread'[u] = thread[u]
    BY <1>2, <1>3, <2>1, Threads, GotoMoves
  <2>. QED
    BY <1>1, <1>2, <1>6, <2>1, <2>2, Threads DEF Analysis, Staff
<1>7. CASE id = NoAlert /\ Head(tasks).op # "raise"
  <2>1. TaskDone
    BY <1>7 DEF ReadKey
  <2>. QED
    BY <1>1, <1>2, <2>1, DoneMoves
<1>. QED
  BY <1>5, <1>6, <1>7

LEMMA ReadAlertMoves ==
  ASSUME Base, ReadAlert
  PROVE  /\ UNCHANGED <<cell, redis, polling, screen, lapses>>
         /\ thread' \in [Thread -> ThreadState] /\ tasks' \in Seq(Task)
         /\ Staff' = Staff /\ tasks # <<>> /\ Analysis.at = "read" /\ Analysis.id \in Ids
         /\ \/ /\ Analysis'.at = "create" /\ tasks' = tasks /\ Head(tasks).op = "raise"
               /\ Decided(alert[Analysis.id])
            \/ /\ Analysis'.at = "write" /\ tasks' = tasks /\ Analysis'.id = Analysis.id
               /\ Analysis'.copy = alert[Analysis.id] /\ ~Decided(alert[Analysis.id])
            \/ Analysis' = Idle /\ tasks' = Tail(tasks)
            \/ Analysis'.at = "get" /\ tasks' = tasks /\ Analysis'.id = Analysis.id
<1>1. /\ UNCHANGED <<cell, redis, polling, screen, lapses>> /\ Analysis.at = "read"
  BY DEF ReadAlert, At, Analysis
<1>2. TypeInv /\ tasks # <<>> /\ Analysis.id \in Ids
  BY <1>1, Threads DEF Base, ThreadInv, RefInv, Analysis
<1>3. thread["analysis"] \in Loose /\ tasks \in Seq(Task) /\ Head(tasks).op \in {"raise", "clear"}
  BY <1>1, <1>2, Threads, ThreadTyped, TasksTyped DEF Analysis, TypeInv, Task
<1>. DEFINE a == alert[thread["analysis"].id]
<1>4. a \in Alert
  BY <1>2, AlertTyped DEF Analysis
<1>5. CASE Head(tasks).op = "raise" /\ Decided(a)
  <2>1. Goto("analysis", "create") /\ tasks' = tasks
    BY <1>5 DEF ReadAlert
  <2>2. /\ thread' \in [Thread -> ThreadState]
        /\ thread'["analysis"].at = "create"
        /\ \A u \in Thread \ {"analysis"} : thread'[u] = thread[u]
    BY <1>2, <1>3, <2>1, Threads, GotoMoves
  <2>. QED
    BY <1>1, <1>2, <1>3, <1>5, <2>1, <2>2, Threads DEF Analysis, Staff
<1>6. CASE Head(tasks).op = "raise" /\ ~Decided(a)
  <2>1. Holding("analysis", "write", a) /\ tasks' = tasks
    BY <1>6 DEF ReadAlert
  <2>2. /\ thread' \in [Thread -> ThreadState]
        /\ thread'["analysis"].at = "write" /\ thread'["analysis"].copy = a
        /\ thread'["analysis"].id = thread["analysis"].id
        /\ \A u \in Thread \ {"analysis"} : thread'[u] = thread[u]
    <3>. HIDE DEF a
    <3>. QED
      BY <1>2, <1>4, <2>1, Threads, HoldingMoves
  <2>. QED
    BY <1>1, <1>2, <1>3, <1>6, <2>1, <2>2, Threads DEF Analysis, Staff
<1>7. CASE Head(tasks).op = "clear" /\ Decided(a)
  <2>1. TaskDone
    BY <1>7 DEF ReadAlert
  <2>. QED
    BY <1>1, <1>2, <2>1, DoneMoves
<1>8. CASE Head(tasks).op = "clear" /\ ~Decided(a)
  <2>1. /\ thread' = [thread EXCEPT !["analysis"].at = "get", !["analysis"].op = "dismiss"]
        /\ tasks' = tasks
    BY <1>8 DEF ReadAlert
  <2>. DEFINE s == [thread["analysis"] EXCEPT !.at = "get", !.op = "dismiss"]
  <2>2. s \in ThreadState /\ s.at = "get" /\ s.id = thread["analysis"].id
    <3>1. s \in Loose
      BY <1>3, MovesTyped
    <3>2. s.at = "get" /\ s.id = thread["analysis"].id
      BY <1>3 DEF Loose
    <3>. QED
      BY <3>1, <3>2 DEF ThreadState
  <2>3. thread' = [thread EXCEPT !["analysis"] = s]
    BY <1>2, <2>1, Threads DEF TypeInv
  <2>. HIDE DEF s
  <2>4. /\ thread' \in [Thread -> ThreadState] /\ thread'["analysis"] = s
        /\ \A u \in Thread \ {"analysis"} : thread'[u] = thread[u]
    BY <1>2, <2>2, <2>3, Threads, Moved
  <2>. QED
    BY <1>1, <1>2, <1>3, <2>1, <2>2, <2>4, Threads DEF Analysis, Staff
<1>. QED
  BY <1>3, <1>5, <1>6, <1>7, <1>8

LEMMA WriteBackMoves ==
  ASSUME Base, WriteBack
  PROVE  /\ UNCHANGED <<cell, active, key, polling, screen>>
         /\ thread' \in [Thread -> ThreadState] /\ tasks' \in Seq(Task)
         /\ Staff' = Staff /\ Analysis' = Idle /\ tasks # <<>> /\ tasks' = Tail(tasks)
         /\ Analysis.at = "write" /\ Analysis.id \in Ids
         /\ alert' \in Seq(Alert) /\ Len(alert') = Len(alert) /\ Ids' = Ids
         /\ alert'[Analysis.id] = Analysis.copy /\ ~Decided(Analysis.copy)
         /\ Analysis.copy.cell = alert[Analysis.id].cell
         /\ \A j \in Ids \ {Analysis.id} : alert'[j] = alert[j]
         /\ lapses \subseteq lapses' /\ (Decided(alert[Analysis.id]) => lapses' # {})
<1>1. /\ UNCHANGED <<cell, active, key, polling, screen>> /\ Analysis.at = "write" /\ TaskDone
      /\ alert' = [alert EXCEPT ![Analysis.id] = Analysis.copy]
      /\ Lapse(Decided(alert[Analysis.id]), "reopened")
  BY DEF WriteBack, At, Analysis
<1>2. /\ TypeInv /\ tasks # <<>> /\ Analysis.id \in Ids
      /\ ~Decided(Analysis.copy) /\ Analysis.copy.cell = alert[Analysis.id].cell
  BY <1>1, Threads DEF Base, ThreadInv, RefInv, Analysis, At
<1>3. Analysis.copy \in Alert
  BY <1>1, <1>2, Threads, ThreadTyped DEF Analysis
<1>4. lapses \subseteq lapses' /\ (Decided(alert[Analysis.id]) => lapses' # {})
  BY <1>1 DEF Lapse
<1>5. /\ alert' \in Seq(Alert) /\ Len(alert') = Len(alert) /\ Ids' = Ids
      /\ alert'[Analysis.id] = Analysis.copy
      /\ \A j \in Ids \ {Analysis.id} : alert'[j] = alert[j]
  BY <1>1, <1>2, <1>3, AlertWritten
<1>. QED
  BY <1>1, <1>2, <1>4, <1>5, DoneMoves

LEMMA CreateAlertMoves ==
  ASSUME Base, CreateAlert
  PROVE  /\ UNCHANGED <<cell, active, key, tasks, polling, screen, lapses>>
         /\ thread' \in [Thread -> ThreadState] /\ Staff' = Staff
         /\ Analysis.at = "create" /\ tasks # <<>> /\ Head(tasks).op = "raise"
         /\ Analysis'.at = "list" /\ Analysis'.id = Len(alert) + 1
         /\ alert' \in Seq(Alert) /\ Len(alert') = Len(alert) + 1 /\ Len(alert) + 1 \notin Ids
         /\ Ids' = Ids \cup {Len(alert) + 1}
         /\ \A j \in Ids : alert'[j] = alert[j]
         /\ alert'[Len(alert) + 1].cell = Head(tasks).cell /\ ~Decided(alert'[Len(alert) + 1])
<1>. DEFINE new == [cell |-> Head(tasks).cell, confirmed |-> FALSE, dismissed |-> FALSE]
<1>1. /\ UNCHANGED <<cell, active, key, tasks, polling, screen, lapses>> /\ Analysis.at = "create"
      /\ alert' = Append(alert, new)
      /\ GotoWith("analysis", "list", Len(alert) + 1)
  BY DEF CreateAlert, At, Analysis
<1>2. TypeInv /\ tasks # <<>> /\ Head(tasks).op = "raise"
  BY <1>1 DEF Base, ThreadInv
<1>3. Head(tasks).cell \in Cell /\ new \in Alert
  BY <1>2, TasksTyped DEF Task, Alert
<1>4. ~Decided(new) /\ new.cell = Head(tasks).cell
  BY DEF Decided
<1>. HIDE DEF new
<1>5. /\ alert' \in Seq(Alert) /\ Len(alert') = Len(alert) + 1
      /\ \A i \in 1..Len(alert) : alert'[i] = alert[i]
      /\ alert'[Len(alert) + 1] = new
  BY <1>1, <1>2, <1>3, AppendProperties DEF TypeInv
<1>6. Ids' = 1..(Len(alert) + 1) /\ Ids = 1..Len(alert) /\ Len(alert) \in Nat
  BY <1>2, <1>5, IdsTyped, LenProperties DEF Ids
<1>7. thread["analysis"] \in Loose /\ Len(alert) + 1 \in Nat
  BY <1>1, <1>2, <1>6, Threads, ThreadTyped DEF Analysis
<1>8. /\ thread' \in [Thread -> ThreadState]
      /\ thread'["analysis"].at = "list" /\ thread'["analysis"].id = Len(alert) + 1
      /\ \A u \in Thread \ {"analysis"} : thread'[u] = thread[u]
  BY <1>1, <1>2, <1>7, Threads, GotoWithMoves
<1>9. Ids' = Ids \cup {Len(alert) + 1} /\ Len(alert) + 1 \notin Ids
  BY <1>6
<1>. QED
  BY <1>1, <1>2, <1>4, <1>5, <1>6, <1>8, <1>9, Threads DEF Analysis, Staff

LEMMA ListAlertMoves ==
  ASSUME Base, ListAlert
  PROVE  /\ UNCHANGED <<cell, alert, key, tasks, polling, screen, lapses>>
         /\ thread' \in [Thread -> ThreadState] /\ Staff' = Staff
         /\ Analysis.at = "list" /\ Analysis.id \in Ids /\ tasks # <<>>
         /\ Analysis'.at = "index" /\ Analysis'.id = Analysis.id
         /\ active' = active \cup {Analysis.id}
<1>1. /\ UNCHANGED <<cell, alert, key, tasks, polling, screen, lapses>> /\ Analysis.at = "list"
      /\ Goto("analysis", "index") /\ active' = active \cup {Analysis.id}
  BY DEF ListAlert, At, Analysis
<1>2. TypeInv /\ tasks # <<>> /\ Analysis.id \in Ids
  BY <1>1, Threads DEF Base, ThreadInv, RefInv, Analysis
<1>3. thread["analysis"] \in Loose
  BY <1>1, <1>2, Threads, ThreadTyped DEF Analysis
<1>4. /\ thread' \in [Thread -> ThreadState]
      /\ thread'["analysis"].at = "index" /\ thread'["analysis"].id = thread["analysis"].id
      /\ \A u \in Thread \ {"analysis"} : thread'[u] = thread[u]
  BY <1>1, <1>2, <1>3, Threads, GotoMoves
<1>. QED
  BY <1>1, <1>2, <1>4, Threads DEF Analysis, Staff

LEMMA IndexCellMoves ==
  ASSUME Base, IndexCell
  PROVE  /\ UNCHANGED <<cell, alert, active, polling, screen, lapses>>
         /\ thread' \in [Thread -> ThreadState] /\ tasks' \in Seq(Task)
         /\ Staff' = Staff /\ Analysis' = Idle /\ tasks # <<>> /\ tasks' = Tail(tasks)
         /\ Analysis.at = "index" /\ Analysis.id \in Ids /\ Head(tasks).cell \in Cell
         /\ key' = [key EXCEPT ![Head(tasks).cell] = Analysis.id]
         /\ key' \in [Cell -> Nat]
<1>1. /\ UNCHANGED <<cell, alert, active, polling, screen, lapses>> /\ Analysis.at = "index"
      /\ key' = [key EXCEPT ![Head(tasks).cell] = Analysis.id] /\ TaskDone
  BY DEF IndexCell, At, Analysis
<1>2. TypeInv /\ tasks # <<>> /\ Analysis.id \in Ids
  BY <1>1, Threads DEF Base, ThreadInv, RefInv, Analysis
<1>3. Head(tasks).cell \in Cell /\ Analysis.id \in Nat
  BY <1>2, Threads, ThreadTyped, TasksTyped DEF Task, Analysis
<1>4. key' \in [Cell -> Nat]
  BY <1>1, <1>2, <1>3 DEF TypeInv
<1>. QED
  BY <1>1, <1>2, <1>3, <1>4, DoneMoves

\* A thread that has a decision on its hands.
LEMMA Deciding ==
  ASSUME Base, NEW t \in Thread, thread[t].at \in {"get", "set", "unlist", "unkey"}
  PROVE  /\ thread[t].id \in Ids /\ alert[thread[t].id] \in Alert
         /\ t = "analysis" => tasks # <<>>
<1>1. thread[t].id \in Ids
  BY DEF Base, RefInv
<1>. QED
  BY <1>1, AlertTyped DEF Base, ThreadInv, Analysis

LEMMA ReadForDecisionMoves ==
  ASSUME Base, NEW t \in Thread, ReadForDecision(t)
  PROVE  /\ UNCHANGED <<cell, redis, tasks, polling, screen, lapses>>
         /\ thread' \in [Thread -> ThreadState]
         /\ \A u \in Thread \ {t} : thread'[u] = thread[u]
         /\ thread[t].at = "get" /\ thread[t].id \in Ids /\ (t = "analysis" => tasks # <<>>)
         /\ thread'[t].at = "set" /\ thread'[t].id = thread[t].id
         /\ thread'[t].copy = alert[thread[t].id]
<1>1. /\ UNCHANGED <<cell, redis, tasks, polling, screen, lapses>> /\ thread[t].at = "get"
      /\ Holding(t, "set", alert[thread[t].id])
  BY DEF ReadForDecision, At
<1>2. /\ TypeInv /\ thread[t].id \in Ids /\ alert[thread[t].id] \in Alert
      /\ t = "analysis" => tasks # <<>>
  BY <1>1, Deciding DEF Base
<1>. QED
  BY <1>1, <1>2, HoldingMoves

LEMMA WriteDecisionMoves ==
  ASSUME Base, NEW t \in Thread, WriteDecision(t)
  PROVE  /\ UNCHANGED <<cell, active, key, tasks, polling, screen, lapses>>
         /\ thread' \in [Thread -> ThreadState]
         /\ \A u \in Thread \ {t} : thread'[u] = thread[u]
         /\ thread[t].at = "set" /\ thread[t].id \in Ids /\ (t = "analysis" => tasks # <<>>)
         /\ thread'[t].at = "unlist" /\ thread'[t].id = thread[t].id
         /\ alert' \in Seq(Alert) /\ Len(alert') = Len(alert) /\ Ids' = Ids
         /\ Decided(alert'[thread[t].id])
         /\ alert'[thread[t].id].cell = alert[thread[t].id].cell
         /\ \A j \in Ids \ {thread[t].id} : alert'[j] = alert[j]
<1>. DEFINE me == thread[t]
            a == IF me.op = "confirm" THEN [me.copy EXCEPT !.confirmed = TRUE]
                 ELSE [me.copy EXCEPT !.dismissed = TRUE]
            s == [at |-> "unlist", op |-> me.op, id |-> me.id]
<1>1. /\ UNCHANGED <<cell, active, key, tasks, polling, screen, lapses>> /\ me.at = "set"
      /\ alert' = [alert EXCEPT ![me.id] = a]
  BY DEF WriteDecision, At
<1>2. thread' = [thread EXCEPT ![t] = s]
  BY DEF WriteDecision, Base, TypeInv
<1>3. TypeInv /\ me.id \in Ids /\ (t = "analysis" => tasks # <<>>)
  BY <1>1, Deciding DEF Base
<1>4. me \in Carrying /\ me.copy \in Alert /\ me.op \in {"none"} \cup Decision /\ me.id \in Nat
  BY <1>1, <1>3, ThreadTyped
<1>5. me.copy.cell = alert[me.id].cell
  BY <1>1 DEF Base, ThreadInv
<1>6. a \in Alert /\ Decided(a) /\ a.cell = alert[me.id].cell
  <2>. DEFINE c == me.copy
  <2>1. c \in Alert /\ c.cell = alert[me.id].cell
    BY <1>4, <1>5
  <2>2. a = IF me.op = "confirm" THEN [c EXCEPT !.confirmed = TRUE] ELSE [c EXCEPT !.dismissed = TRUE]
    OBVIOUS
  <2>. HIDE DEF c, a
  <2>. QED
    BY <2>1, <2>2 DEF Alert, Decided
<1>7. s \in ThreadState /\ s.at = "unlist" /\ s.id = me.id
  BY <1>4 DEF ThreadState, Loose
<1>. HIDE DEF a, s
<1>8. /\ alert' \in Seq(Alert) /\ Len(alert') = Len(alert) /\ Ids' = Ids
      /\ alert'[me.id] = a
      /\ \A j \in Ids \ {me.id} : alert'[j] = alert[j]
  BY <1>1, <1>3, <1>6, AlertWritten
<1>9. /\ thread' \in [Thread -> ThreadState] /\ thread'[t] = s
      /\ \A u \in Thread \ {t} : thread'[u] = thread[u]
  BY <1>2, <1>3, <1>7, Moved
<1>. QED
  BY <1>1, <1>3, <1>6, <1>7, <1>8, <1>9

\* The end of a decision.
LEMMA ReturnMoves ==
  ASSUME Base, NEW t \in Thread, thread[t].at \in {"unlist", "unkey"}, Return(t)
  PROVE  /\ thread' \in [Thread -> ThreadState] /\ tasks' \in Seq(Task)
         /\ \A u \in Thread \ {t} : thread'[u] = thread[u]
         /\ thread'[t] = Idle
         /\ tasks' = IF t = "analysis" THEN Tail(tasks) ELSE tasks
         /\ mail' = mail /\ panel' \subseteq panel
<1>1. TypeInv /\ (t = "analysis" => tasks # <<>>)
  BY Deciding DEF Base
<1>2. CASE t = "analysis"
  <2>1. TaskDone /\ UNCHANGED screen
    BY <1>2 DEF Return
  <2>2. thread' \in [Thread -> ThreadState] /\ Analysis' = Idle /\ Staff' = Staff
        /\ tasks' = Tail(tasks) /\ tasks' \in Seq(Task)
    BY <1>1, <1>2, <2>1, DoneMoves
  <2>. QED
    BY <1>2, <2>1, <2>2, Threads DEF screen, Analysis, Staff
<1>3. CASE t = "staff"
  <2>1. /\ thread' = [thread EXCEPT ![t] = Idle] /\ panel' = panel \ {thread[t].id}
        /\ UNCHANGED <<tasks, mail, clicks>>
    BY <1>3 DEF Return
  <2>2. Idle \in ThreadState
    BY MovesTyped DEF ThreadState
  <2>3. /\ thread' \in [Thread -> ThreadState] /\ thread'[t] = Idle
        /\ \A u \in Thread \ {t} : thread'[u] = thread[u]
    BY <1>1, <2>1, <2>2, Moved
  <2>. QED
    BY <1>1, <1>3, <2>1, <2>3 DEF TypeInv
<1>. QED
  BY <1>2, <1>3, Threads

LEMMA UnlistMoves ==
  ASSUME Base, NEW t \in Thread, Unlist(t)
  PROVE  /\ UNCHANGED <<cell, alert, key, polling, lapses>>
         /\ thread' \in [Thread -> ThreadState] /\ tasks' \in Seq(Task)
         /\ \A u \in Thread \ {t} : thread'[u] = thread[u]
         /\ thread[t].at = "unlist" /\ thread[t].id \in Ids /\ (t = "analysis" => tasks # <<>>)
         /\ \/ /\ thread'[t] = Idle /\ tasks' = IF t = "analysis" THEN Tail(tasks) ELSE tasks
            \/ thread'[t].at = "unkey" /\ thread'[t].id = thread[t].id /\ tasks' = tasks
         /\ active' = active \ {thread[t].id} /\ mail' = mail /\ panel' \subseteq panel
<1>1. /\ UNCHANGED <<cell, alert, key, polling, lapses>> /\ thread[t].at = "unlist"
      /\ active' = active \ {thread[t].id}
  BY DEF Unlist, At
<1>2. TypeInv /\ thread[t].id \in Ids /\ (t = "analysis" => tasks # <<>>)
  BY <1>1, Deciding DEF Base
<1>3. CASE thread[t].op = "confirm"
  <2>1. Return(t)
    BY <1>3 DEF Unlist
  <2>. QED
    BY <1>1, <1>2, <2>1, ReturnMoves
<1>4. CASE thread[t].op # "confirm"
  <2>1. Goto(t, "unkey") /\ UNCHANGED <<tasks, screen>>
    BY <1>4 DEF Unlist
  <2>2. thread[t] \in Loose
    BY <1>1, <1>2, ThreadTyped
  <2>3. /\ thread' \in [Thread -> ThreadState]
        /\ thread'[t].at = "unkey" /\ thread'[t].id = thread[t].id
        /\ \A u \in Thread \ {t} : thread'[u] = thread[u]
    BY <1>2, <2>1, <2>2, GotoMoves
  <2>. QED
    BY <1>1, <1>2, <2>1, <2>3 DEF screen, TypeInv
<1>. QED
  BY <1>3, <1>4

LEMMA UnkeyMoves ==
  ASSUME Base, NEW t \in Thread, Unkey(t)
  PROVE  LET c == alert[thread[t].id].cell
         IN  /\ UNCHANGED <<cell, alert, active, polling>>
             /\ thread' \in [Thread -> ThreadState] /\ tasks' \in Seq(Task)
             /\ \A u \in Thread \ {t} : thread'[u] = thread[u]
             /\ thread[t].at = "unkey" /\ thread[t].id \in Ids /\ (t = "analysis" => tasks # <<>>)
             /\ thread'[t] = Idle /\ tasks' = IF t = "analysis" THEN Tail(tasks) ELSE tasks
             /\ mail' = mail /\ panel' \subseteq panel
             /\ c \in Cell /\ key' = [key EXCEPT ![c] = NoAlert] /\ key' \in [Cell -> Nat]
             /\ lapses \subseteq lapses'
             /\ key[c] \notin {NoAlert, thread[t].id} => lapses' # {}
<1>. DEFINE c == alert[thread[t].id].cell
<1>1. /\ UNCHANGED <<cell, alert, active, polling>> /\ thread[t].at = "unkey"
      /\ key' = [key EXCEPT ![c] = NoAlert] /\ Return(t)
      /\ Lapse(key[c] \notin {NoAlert, thread[t].id}, "misfired")
  BY DEF Unkey, At
<1>2. TypeInv /\ thread[t].id \in Ids /\ (t = "analysis" => tasks # <<>>)
  BY <1>1, Deciding DEF Base
<1>3. c \in Cell
  BY <1>2, AlertTyped
<1>4. /\ lapses \subseteq lapses'
      /\ key[c] \notin {NoAlert, thread[t].id} => lapses' # {}
  BY <1>1 DEF Lapse
<1>. HIDE DEF c
<1>5. key' \in [Cell -> Nat]
  BY <1>1, <1>2, <1>3 DEF TypeInv, NoAlert
<1>6. /\ thread' \in [Thread -> ThreadState] /\ tasks' \in Seq(Task)
      /\ \A u \in Thread \ {t} : thread'[u] = thread[u]
      /\ thread'[t] = Idle
      /\ tasks' = IF t = "analysis" THEN Tail(tasks) ELSE tasks
      /\ mail' = mail /\ panel' \subseteq panel
  BY <1>1, ReturnMoves
<1>. QED
  BY <1>1, <1>2, <1>3, <1>4, <1>5, <1>6 DEF c

\* The poll thread and the window only pass on numbers that are known.
LEMMA PollMoves ==
  ASSUME Base, PollStep \/ PollFails
  PROVE  /\ UNCHANGED <<cell, redis, thread, tasks, panel>>
         /\ poll' \in PollState /\ Known' \subseteq Known
         /\ mail' \in SUBSET Nat /\ lapses \subseteq lapses'
<1>1. /\ poll.pending \in SUBSET Nat /\ poll.found \in SUBSET Nat /\ active \in SUBSET Nat
      /\ mail \in SUBSET Nat
  BY DEF Base, TypeInv, PollState
<1>2. poll = [at |-> poll.at, pending |-> poll.pending, found |-> poll.found]
  BY DEF Base, TypeInv, PollState
<1>3. CASE PollStart
  <2>1. /\ poll' = [at |-> "reading", pending |-> active, found |-> {}]
        /\ UNCHANGED <<cell, redis, thread, tasks, screen, lapses>>
    BY <1>3 DEF PollStart
  <2>2. poll'.pending = active /\ poll'.found = {} /\ poll' \in PollState
    BY <1>1, <2>1 DEF PollState
  <2>. QED
    BY <1>1, <2>1, <2>2 DEF Known, screen, redis
<1>4. CASE PollRead
  <2>1. PICK i \in poll.pending :
          poll' = [poll EXCEPT !.pending = @ \ {i},
                               !.found = IF Decided(alert[i]) THEN @ ELSE @ \cup {i}]
    BY <1>4 DEF PollRead
  <2>2. UNCHANGED <<cell, redis, thread, tasks, screen, lapses>>
    BY <1>4 DEF PollRead
  <2>3. /\ poll'.pending \subseteq poll.pending /\ poll'.found \subseteq poll.found \cup {i}
        /\ poll' \in PollState
    BY <1>1, <1>2, <2>1 DEF PollState, Base, TypeInv
  <2>. QED
    BY <1>1, <2>2, <2>3 DEF Known, screen, redis
<1>5. CASE PollEmit
  <2>1. /\ poll' = [at |-> "waiting", pending |-> {}, found |-> {}]
        /\ mail' = mail \cup (poll.found \ lastIds)
        /\ UNCHANGED <<cell, redis, thread, tasks, panel, lapses>>
    BY <1>5 DEF PollEmit
  <2>2. poll'.pending = {} /\ poll'.found = {} /\ poll' \in PollState
    BY <2>1 DEF PollState
  <2>. QED
    BY <1>1, <2>1, <2>2 DEF Known, redis
<1>6. CASE PollFails
  <2>1. PICK missed : poll' = [poll EXCEPT !.pending = @ \ missed]
    BY <1>6 DEF PollFails
  <2>2. UNCHANGED <<cell, redis, thread, tasks, screen>> /\ lapses \subseteq lapses'
    BY <1>6 DEF PollFails, Failing
  <2>3. /\ poll'.pending \subseteq poll.pending /\ poll'.found = poll.found /\ poll' \in PollState
    BY <1>1, <1>2, <2>1 DEF PollState, Base, TypeInv
  <2>. QED
    BY <1>1, <2>2, <2>3 DEF Known, screen, redis
<1>. QED
  BY <1>3, <1>4, <1>5, <1>6 DEF PollStep

LEMMA ShowMoves ==
  ASSUME Base, ShowAlert
  PROVE  /\ UNCHANGED <<cell, redis, thread, tasks, poll, lapses>>
         /\ Known' \subseteq Known
         /\ mail' \in SUBSET Nat /\ panel' \in SUBSET Nat
<1>1. PICK i \in mail : mail' = mail \ {i} /\ panel' = panel \cup {i}
  BY DEF ShowAlert
<1>2. UNCHANGED <<cell, redis, thread, tasks, poll, lapses>>
  BY DEF ShowAlert, polling
<1>. QED
  BY <1>1, <1>2 DEF Known, redis, Base, TypeInv

LEMMA ClickMoves ==
  ASSUME Base, Click
  PROVE  /\ UNCHANGED <<cell, redis, tasks, poll, mail, panel, lapses>>
         /\ thread' \in [Thread -> ThreadState] /\ Analysis' = Analysis
         /\ Staff'.at = "get" /\ Staff'.id \in panel
<1>1. PICK i \in panel, op \in Decision :
        thread' = [thread EXCEPT !["staff"] = [at |-> "get", op |-> op, id |-> i]]
  BY DEF Click
<1>2. UNCHANGED <<cell, redis, tasks, poll, mail, panel, lapses>>
  BY DEF Click, polling
<1>. DEFINE s == [at |-> "get", op |-> op, id |-> i]
<1>3. s \in ThreadState
  BY DEF ThreadState, Loose, Base, TypeInv
<1>4. s.at = "get" /\ s.id = i
  OBVIOUS
<1>. HIDE DEF s
<1>5. /\ thread' \in [Thread -> ThreadState] /\ thread'["staff"] = s
      /\ \A u \in Thread \ {"staff"} : thread'[u] = thread[u]
  BY <1>1, <1>3, Threads, Moved DEF Base, s
<1>. QED
  BY <1>2, <1>4, <1>5, Threads DEF Analysis, Staff

LEMMA LookupFailsMoves ==
  ASSUME Base, LookupFails
  PROVE  /\ UNCHANGED <<cell, redis, polling, screen>>
         /\ thread' \in [Thread -> ThreadState] /\ tasks' \in Seq(Task)
         /\ Staff' = Staff /\ tasks # <<>> /\ Analysis.at \in {"idle", "read"}
         /\ \/ Analysis'.at = "create" /\ tasks' = tasks /\ Head(tasks).op = "raise"
            \/ Analysis' = Idle /\ tasks' = Tail(tasks)
         /\ "failed" \in lapses'
<1>1. /\ UNCHANGED <<cell, redis, polling, screen>> /\ tasks # <<>> /\ Analysis.at \in {"idle", "read"}
      /\ "failed" \in lapses'
  BY DEF LookupFails, Failing, At, Analysis
<1>2. TypeInv /\ tasks \in Seq(Task) /\ thread["analysis"] \in Loose
  BY <1>1, Threads, ThreadTyped DEF Base, TypeInv, Analysis
<1>3. CASE Head(tasks).op = "raise"
  <2>1. Goto("analysis", "create") /\ tasks' = tasks
    BY <1>3 DEF LookupFails
  <2>2. /\ thread' \in [Thread -> ThreadState]
        /\ thread'["analysis"].at = "create"
        /\ \A u \in Thread \ {"analysis"} : thread'[u] = thread[u]
    BY <1>2, <2>1, Threads, GotoMoves
  <2>. QED
    BY <1>1, <1>2, <1>3, <2>1, <2>2, Threads DEF Analysis, Staff
<1>4. CASE Head(tasks).op # "raise"
  <2>1. TaskDone
    BY <1>4 DEF LookupFails
  <2>. QED
    BY <1>1, <1>2, <2>1, DoneMoves
<1>. QED
  BY <1>3, <1>4

LEMMA CommandFailsMoves ==
  ASSUME Base, NEW t \in Thread, CommandFails(t)
  PROVE  /\ UNCHANGED <<cell, redis, polling, screen>>
         /\ thread' \in [Thread -> ThreadState] /\ tasks' \in Seq(Task)
         /\ \A u \in Thread \ {t} : thread'[u] = thread[u]
         /\ thread[t].at # "idle" /\ (t = "analysis" => tasks # <<>>)
         /\ thread'[t] = Idle /\ tasks' = IF t = "analysis" THEN Tail(tasks) ELSE tasks
         /\ "failed" \in lapses'
<1>1. /\ UNCHANGED <<cell, redis, polling, screen>> /\ thread[t].at # "idle" /\ "failed" \in lapses'
  BY DEF CommandFails, Failing, At
<1>2. TypeInv /\ tasks \in Seq(Task) /\ (t = "analysis" => tasks # <<>>)
  BY <1>1 DEF Base, TypeInv, ThreadInv, Analysis
<1>3. CASE t = "analysis"
  <2>1. TaskDone
    BY <1>3 DEF CommandFails
  <2>2. thread' \in [Thread -> ThreadState] /\ Analysis' = Idle /\ Staff' = Staff
        /\ tasks' = Tail(tasks) /\ tasks' \in Seq(Task)
    BY <1>2, <1>3, <2>1, DoneMoves
  <2>. QED
    BY <1>1, <1>2, <1>3, <2>2, Threads DEF Analysis, Staff
<1>4. CASE t # "analysis"
  <2>1. thread' = [thread EXCEPT ![t] = Idle] /\ UNCHANGED tasks
    BY <1>4 DEF CommandFails
  <2>2. Idle \in ThreadState
    BY MovesTyped DEF ThreadState
  <2>3. /\ thread' \in [Thread -> ThreadState] /\ thread'[t] = Idle
        /\ \A u \in Thread \ {t} : thread'[u] = thread[u]
    BY <1>2, <2>1, <2>2, Moved
  <2>. QED
    BY <1>1, <1>2, <1>4, <2>1, <2>3
<1>. QED
  BY <1>3, <1>4

\* The tasks of a frame: a raise for every cell that raises, in some order, then
\* the clears.
LEMMA AnalyzeMoves ==
  ASSUME Base, Analyze
  PROVE  /\ UNCHANGED <<redis, thread, polling, screen, lapses>>
         /\ Analysis.at = "idle" /\ tasks = <<>> /\ tasks' \in Seq(Task)
         /\ \E frame \in [Cell -> Seen] :
              /\ cell' = [c \in Cell |-> Update(cell[c], frame[c])]
              /\ \A i \in DOMAIN tasks' :
                   tasks'[i].op = "raise" => Raises(cell[tasks'[i].cell], cell'[tasks'[i].cell])
<1>1. /\ UNCHANGED <<redis, thread, polling, screen, lapses>> /\ Analysis.at = "idle" /\ tasks = <<>>
  BY DEF Analyze, At, Analysis
<1>. DEFINE TaskSeq(op, s) == [i \in DOMAIN s |-> [op |-> op, cell |-> s[i]]]
<1>2. PICK frame \in [Cell -> Seen] :
        LET after == [c \in Cell |-> Update(cell[c], frame[c])]
            raise == {c \in Cell : Raises(cell[c], after[c])}
            clear == {c \in Cell : Clears(after[c])}
        IN  /\ cell' = after
            /\ \E r \in SetToSeqs(raise), k \in SetToSeqs(clear) :
                 tasks' = TaskSeq("raise", r) \o TaskSeq("clear", k)
  BY DEF Analyze
<1>. DEFINE raise == {c \in Cell : Raises(cell[c], cell'[c])}
            clear == {c \in Cell : Clears(cell'[c])}
<1>3. cell' = [c \in Cell |-> Update(cell[c], frame[c])]
  BY <1>2
<1>4. PICK r \in SetToSeqs(raise), k \in SetToSeqs(clear) :
        tasks' = TaskSeq("raise", r) \o TaskSeq("clear", k)
  BY <1>2
<1>5. ASSUME NEW S \in SUBSET Cell, NEW s \in SetToSeqs(S), NEW op \in {"raise", "clear"}
      PROVE  /\ TaskSeq(op, s) \in Seq(Task)
             /\ \A i \in 1..Len(TaskSeq(op, s)) :
                  TaskSeq(op, s)[i].op = op /\ TaskSeq(op, s)[i].cell \in S
  <2>1. Cardinality(S) \in Nat
    BY ShelfTyped, FS_Subset, FS_CardinalityType
  <2>2. s \in [1..Cardinality(S) -> S]
    BY DEF SetToSeqs
  <2>3. TaskSeq(op, s) \in [1..Cardinality(S) -> Task]
    BY <2>2 DEF Task
  <2>4. TaskSeq(op, s) \in Seq(Task) /\ Len(TaskSeq(op, s)) = Cardinality(S)
    BY <2>1, <2>3, SeqDef, LenProperties
  <2>. QED
    BY <2>2, <2>4
<1>6. raise \in SUBSET Cell /\ clear \in SUBSET Cell
  OBVIOUS
<1>. DEFINE R == TaskSeq("raise", r)
            K == TaskSeq("clear", k)
<1>7. /\ R \in Seq(Task) /\ K \in Seq(Task)
      /\ \A i \in 1..Len(R) : R[i].op = "raise" /\ R[i].cell \in raise
      /\ \A i \in 1..Len(K) : K[i].op = "clear"
  <2>. HIDE DEF raise, clear, TaskSeq
  <2>. QED
    BY <1>5, <1>6
<1>. HIDE DEF R, K, TaskSeq, raise, clear
<1>8. /\ tasks' = R \o K /\ tasks' \in Seq(Task)
      /\ Len(tasks') = Len(R) + Len(K)
      /\ \A i \in 1..Len(tasks') : tasks'[i] = IF i <= Len(R) THEN R[i] ELSE K[i - Len(R)]
  BY <1>4, <1>7, ConcatProperties DEF R, K
<1>9. ASSUME NEW i \in DOMAIN tasks', tasks'[i].op = "raise"
      PROVE  tasks'[i].cell \in raise
  <2>1. i \in 1..Len(tasks') /\ Len(R) \in Nat /\ Len(K) \in Nat
    BY <1>7, <1>8, LenProperties
  <2>2. CASE i <= Len(R)
    BY <1>7, <1>8, <2>1, <2>2
  <2>3. CASE ~(i <= Len(R))
    <3>1. i - Len(R) \in 1..Len(K) /\ tasks'[i] = K[i - Len(R)]
      BY <1>8, <2>1, <2>3
    <3>. QED
      BY <1>7, <1>9, <3>1
  <2>. QED
    BY <2>2, <2>3
<1>. QED
  BY <1>1, <1>3, <1>8, <1>9 DEF raise

-----------------------------------------------------------------------------
(* Types, references and places *)

\* A place of one thread says what its number, its copy and the tasks must be.
PlaceOK(t) ==
  /\ thread[t].at \notin {"idle", "create"} => thread[t].id \in Ids
  /\ thread[t].at \in {"write", "set"} => thread[t].copy.cell = alert[thread[t].id].cell
  /\ At(t, "write") => ~Decided(thread[t].copy)

StaffOK == Staff.at \in {"idle", "get", "set", "unlist", "unkey"}

AnalysisOK ==
  /\ Analysis.at # "idle" => tasks # <<>>
  /\ Analysis.at = "create" => Head(tasks).op = "raise"
  /\ Analysis.at \in {"list", "index"} => alert[Analysis.id].cell = Head(tasks).cell

LEMMA BaseIs ==
  Base <=> /\ TypeInv /\ StaffOK /\ AnalysisOK
           /\ Known \subseteq Ids
           /\ \A c \in Cell : key[c] \in {NoAlert} \cup Ids
           /\ \A t \in Thread : PlaceOK(t)
BY DEF Base, RefInv, ThreadInv, StaffOK, AnalysisOK, PlaceOK

LEMMA BaseNext ==
  ASSUME TypeInv', StaffOK', AnalysisOK', (Known \subseteq Ids)',
         (\A c \in Cell : key[c] \in {NoAlert} \cup Ids)',
         \A t \in Thread : PlaceOK(t)'
  PROVE  Base'
BY DEF Base, RefInv, ThreadInv, StaffOK, AnalysisOK, PlaceOK

\* Other threads do not see an alert change its cell.
LEMMA PlaceKept ==
  ASSUME NEW t \in Thread, PlaceOK(t), thread'[t] = thread[t],
         Ids \subseteq Ids', \A i \in Ids : alert'[i].cell = alert[i].cell
  PROVE  PlaceOK(t)'
BY DEF PlaceOK, At

LEMMA InitBase == Init => Base
<1> SUFFICES ASSUME Init PROVE Base
  OBVIOUS
<1>1. alert \in Seq(Alert) /\ tasks \in Seq(Task)
  BY EmptySeq DEF Init
<1>2. thread \in [Thread -> ThreadState]
  BY MovesTyped DEF Init, ThreadState
<1>3. poll = [at |-> "waiting", pending |-> {}, found |-> {}] /\ poll \in PollState
  BY DEF Init, PollState
<1>4. TypeInv
  BY <1>1, <1>2, <1>3 DEF Init, TypeInv, NoAlert
<1>5. \A t \in Thread : thread[t] = Idle
  BY DEF Init
<1>6. Idle.at = "idle"
  BY DEF Idle
<1>7. StaffOK /\ AnalysisOK /\ \A t \in Thread : PlaceOK(t)
  BY <1>5, <1>6, Threads DEF StaffOK, AnalysisOK, PlaceOK, At, Staff, Analysis
<1>8. Known = {}
  BY <1>3 DEF Init, Known
<1>9. \A c \in Cell : key[c] = NoAlert
  BY DEF Init
<1>. QED
  BY <1>4, <1>7, <1>8, <1>9, BaseIs

LEMMA AnalysisStepBase ==
  ASSUME Base, AnalysisStep
  PROVE  Base'
<1>0. /\ TypeInv /\ StaffOK /\ Known \subseteq Ids
      /\ \A c \in Cell : key[c] \in {NoAlert} \cup Ids
      /\ \A t \in Thread : PlaceOK(t)
  BY BaseIs
<1>1. Idle.at = "idle"
  BY DEF Idle
<1>2. ASSUME Staff' = Staff PROVE StaffOK' /\ thread'["staff"] = thread["staff"]
  BY <1>0, <1>2 DEF StaffOK, Staff
<1>3. CASE ReadKey
  <2>1. /\ UNCHANGED <<redis, polling, screen>>
        /\ thread' \in [Thread -> ThreadState] /\ tasks' \in Seq(Task) /\ Staff' = Staff
        /\ tasks # <<>>
        /\ \/ Analysis'.at = "read" /\ Analysis'.id \in Ids /\ tasks' = tasks
           \/ Analysis'.at = "create" /\ tasks' = tasks /\ Head(tasks).op = "raise"
           \/ Analysis' = Idle
    BY <1>3, ReadKeyMoves
  <2>2. TypeInv' /\ Known' = Known /\ Ids' = Ids /\ alert' = alert /\ key' = key
    BY <1>0, <2>1 DEF TypeInv, Known, Ids, redis, polling, screen
  <2>3. AnalysisOK' /\ PlaceOK("analysis")'
    BY <1>1, <2>1, <2>2 DEF AnalysisOK, PlaceOK, At, Analysis
  <2>4. PlaceOK("staff")'
    BY <1>0, <1>2, <2>1, <2>2, Threads, PlaceKept
  <2>. QED
    BY <1>0, <1>2, <2>1, <2>2, <2>3, <2>4, Threads, BaseNext
<1>4. CASE ReadAlert
  <2>1. /\ UNCHANGED <<redis, polling, screen>>
        /\ thread' \in [Thread -> ThreadState] /\ tasks' \in Seq(Task) /\ Staff' = Staff
        /\ tasks # <<>> /\ Analysis.id \in Ids
        /\ \/ Analysis'.at = "create" /\ tasks' = tasks /\ Head(tasks).op = "raise"
           \/ /\ Analysis'.at = "write" /\ tasks' = tasks /\ Analysis'.id = Analysis.id
              /\ Analysis'.copy = alert[Analysis.id] /\ ~Decided(alert[Analysis.id])
           \/ Analysis' = Idle
           \/ Analysis'.at = "get" /\ tasks' = tasks /\ Analysis'.id = Analysis.id
    BY <1>4, ReadAlertMoves
  <2>2. TypeInv' /\ Known' = Known /\ Ids' = Ids /\ alert' = alert /\ key' = key
    BY <1>0, <2>1 DEF TypeInv, Known, Ids, redis, polling, screen
  <2>3. AnalysisOK' /\ PlaceOK("analysis")'
    BY <1>1, <2>1, <2>2 DEF AnalysisOK, PlaceOK, At, Analysis
  <2>4. PlaceOK("staff")'
    BY <1>0, <1>2, <2>1, <2>2, Threads, PlaceKept
  <2>. QED
    BY <1>0, <1>2, <2>1, <2>2, <2>3, <2>4, Threads, BaseNext
<1>5. CASE WriteBack
  <2>1. /\ UNCHANGED <<active, key, polling, screen>>
        /\ thread' \in [Thread -> ThreadState] /\ tasks' \in Seq(Task) /\ Staff' = Staff
        /\ Analysis' = Idle /\ alert' \in Seq(Alert) /\ Ids' = Ids
        /\ alert'[Analysis.id].cell = alert[Analysis.id].cell
        /\ \A j \in Ids \ {Analysis.id} : alert'[j] = alert[j]
    BY <1>5, WriteBackMoves
  <2>2. TypeInv' /\ Known' = Known
    BY <1>0, <2>1 DEF TypeInv, Known, polling, screen
  <2>3. AnalysisOK' /\ PlaceOK("analysis")'
    BY <1>1, <2>1 DEF AnalysisOK, PlaceOK, At, Analysis
  <2>4. PlaceOK("staff")'
    BY <1>0, <1>2, <2>1, Threads, PlaceKept
  <2>. QED
    BY <1>0, <1>2, <2>1, <2>2, <2>3, <2>4, Threads, BaseNext
<1>6. CASE CreateAlert
  <2>1. /\ UNCHANGED <<active, key, tasks, polling, screen>>
        /\ thread' \in [Thread -> ThreadState] /\ Staff' = Staff /\ tasks # <<>>
        /\ Analysis'.at = "list" /\ Analysis'.id = Len(alert) + 1
        /\ alert' \in Seq(Alert) /\ Ids' = Ids \cup {Len(alert) + 1}
        /\ \A j \in Ids : alert'[j] = alert[j]
        /\ alert'[Len(alert) + 1].cell = Head(tasks).cell
    BY <1>6, CreateAlertMoves
  <2>2. TypeInv' /\ Known' = Known
    BY <1>0, <2>1 DEF TypeInv, Known, polling, screen
  <2>3. AnalysisOK' /\ PlaceOK("analysis")'
    BY <2>1 DEF AnalysisOK, PlaceOK, At, Analysis
  <2>4. PlaceOK("staff")'
    BY <1>0, <1>2, <2>1, Threads, PlaceKept
  <2>. QED
    BY <1>0, <1>2, <2>1, <2>2, <2>3, <2>4, Threads, BaseNext
<1>7. CASE ListAlert
  <2>1. /\ UNCHANGED <<alert, key, tasks, polling, screen>>
        /\ thread' \in [Thread -> ThreadState] /\ Staff' = Staff /\ tasks # <<>>
        /\ Analysis.at = "list" /\ Analysis.id \in Ids
        /\ Analysis'.at = "index" /\ Analysis'.id = Analysis.id
        /\ active' = active \cup {Analysis.id}
    BY <1>7, ListAlertMoves
  <2>2. Ids' = Ids /\ Ids \subseteq Nat
    BY <1>0, <2>1, IdsTyped DEF Ids
  <2>3. TypeInv' /\ Known' = Known \cup {Analysis.id}
    BY <1>0, <2>1, <2>2 DEF TypeInv, Known, polling, screen
  <2>4. AnalysisOK' /\ PlaceOK("analysis")'
    BY <2>1, <2>2, BaseIs DEF AnalysisOK, PlaceOK, At, Analysis
  <2>5. PlaceOK("staff")'
    BY <1>0, <1>2, <2>1, <2>2, Threads, PlaceKept
  <2>. QED
    BY <1>0, <1>2, <2>1, <2>2, <2>3, <2>4, <2>5, Threads, BaseNext
<1>8. CASE IndexCell
  <2>1. /\ UNCHANGED <<alert, active, polling, screen>>
        /\ thread' \in [Thread -> ThreadState] /\ tasks' \in Seq(Task) /\ Staff' = Staff
        /\ Analysis' = Idle /\ Analysis.id \in Ids
        /\ key' = [key EXCEPT ![Head(tasks).cell] = Analysis.id] /\ key' \in [Cell -> Nat]
    BY <1>8, IndexCellMoves
  <2>2. Ids' = Ids /\ TypeInv' /\ Known' = Known
    BY <1>0, <2>1 DEF TypeInv, Known, Ids, polling, screen
  <2>3. \A c \in Cell : key'[c] \in {NoAlert} \cup Ids
    BY <1>0, <2>1 DEF TypeInv
  <2>4. AnalysisOK' /\ PlaceOK("analysis")'
    BY <1>1, <2>1 DEF AnalysisOK, PlaceOK, At, Analysis
  <2>5. PlaceOK("staff")'
    BY <1>0, <1>2, <2>1, <2>2, Threads, PlaceKept
  <2>. QED
    BY <1>0, <1>2, <2>1, <2>2, <2>3, <2>4, <2>5, Threads, BaseNext
<1>. QED
  BY <1>3, <1>4, <1>5, <1>6, <1>7, <1>8 DEF AnalysisStep

LEMMA DecisionStepBase ==
  ASSUME Base, NEW t \in Thread, DecisionStep(t)
  PROVE  Base'
<1>0. /\ TypeInv /\ StaffOK /\ AnalysisOK /\ Known \subseteq Ids
      /\ \A c \in Cell : key[c] \in {NoAlert} \cup Ids
      /\ \A u \in Thread : PlaceOK(u)
  BY BaseIs
<1>1. Idle.at = "idle"
  BY DEF Idle
\* The other thread stays, this one goes on deciding or is idle.
<1>2. ASSUME \A u \in Thread \ {t} : thread'[u] = thread[u],
             thread[t].at \in {"get", "set", "unlist"} \/ thread[t].at = "unkey",
             \/ thread'[t].at \in {"set", "unlist", "unkey"} /\ tasks' = tasks
             \/ thread'[t] = Idle /\ (t = "analysis" \/ tasks' = tasks),
             Ids' = Ids, \A i \in Ids : alert'[i].cell = alert[i].cell,
             PlaceOK(t)'
      PROVE  StaffOK' /\ AnalysisOK' /\ \A u \in Thread : PlaceOK(u)'
  <2>1. \A u \in Thread : PlaceOK(u)'
    BY <1>0, <1>2, PlaceKept
  <2>2. StaffOK'
    BY <1>0, <1>1, <1>2, Threads DEF StaffOK, Staff
  <2>3. AnalysisOK'
    <3>1. CASE t = "analysis"
      BY <1>0, <1>1, <1>2, <3>1 DEF AnalysisOK, Analysis
    <3>2. CASE t # "analysis"
      <4>1. Analysis' = Analysis /\ tasks' = tasks
        BY <1>2, <3>2, Threads DEF Analysis
      <4>2. Analysis.at \in {"list", "index"} => Analysis.id \in Ids
        BY <1>0, Threads DEF PlaceOK, Analysis
      <4>. QED
        BY <1>0, <1>2, <4>1, <4>2 DEF AnalysisOK
    <3>. QED
      BY <3>1, <3>2
  <2>. QED
    BY <2>1, <2>2, <2>3
<1>3. CASE ReadForDecision(t)
  <2>1. /\ UNCHANGED <<redis, tasks, polling, screen>>
        /\ thread' \in [Thread -> ThreadState]
        /\ \A u \in Thread \ {t} : thread'[u] = thread[u]
        /\ thread[t].at = "get" /\ thread[t].id \in Ids
        /\ thread'[t].at = "set" /\ thread'[t].id = thread[t].id
        /\ thread'[t].copy = alert[thread[t].id]
    BY <1>3, ReadForDecisionMoves
  <2>2. TypeInv' /\ Known' = Known /\ Ids' = Ids /\ alert' = alert /\ key' = key
    BY <1>0, <2>1 DEF TypeInv, Known, Ids, redis, polling, screen
  <2>3. PlaceOK(t)'
    BY <2>1, <2>2 DEF PlaceOK, At
  <2>4. StaffOK' /\ AnalysisOK' /\ \A u \in Thread : PlaceOK(u)'
    BY <1>2, <2>1, <2>2, <2>3
  <2>. QED
    BY <1>0, <2>2, <2>4, BaseNext
<1>4. CASE WriteDecision(t)
  <2>1. /\ UNCHANGED <<active, key, tasks, polling, screen>>
        /\ thread' \in [Thread -> ThreadState]
        /\ \A u \in Thread \ {t} : thread'[u] = thread[u]
        /\ thread[t].at = "set" /\ thread[t].id \in Ids
        /\ thread'[t].at = "unlist" /\ thread'[t].id = thread[t].id
        /\ alert' \in Seq(Alert) /\ Ids' = Ids
        /\ alert'[thread[t].id].cell = alert[thread[t].id].cell
        /\ \A j \in Ids \ {thread[t].id} : alert'[j] = alert[j]
    BY <1>4, WriteDecisionMoves
  <2>2. TypeInv' /\ Known' = Known
    BY <1>0, <2>1 DEF TypeInv, Known, polling, screen
  <2>3. PlaceOK(t)'
    BY <2>1 DEF PlaceOK, At
  <2>4. StaffOK' /\ AnalysisOK' /\ \A u \in Thread : PlaceOK(u)'
    BY <1>2, <2>1, <2>3
  <2>. QED
    BY <1>0, <2>1, <2>2, <2>4, BaseNext
<1>5. CASE Unlist(t)
  <2>1. /\ UNCHANGED <<alert, key, polling>>
        /\ thread' \in [Thread -> ThreadState] /\ tasks' \in Seq(Task)
        /\ \A u \in Thread \ {t} : thread'[u] = thread[u]
        /\ thread[t].at = "unlist" /\ thread[t].id \in Ids
        /\ \/ thread'[t] = Idle /\ (t = "analysis" \/ tasks' = tasks)
           \/ thread'[t].at = "unkey" /\ thread'[t].id = thread[t].id /\ tasks' = tasks
        /\ active' \subseteq active /\ mail' = mail /\ panel' \subseteq panel
    BY <1>5, UnlistMoves
  <2>2. TypeInv' /\ Known' \subseteq Known /\ Ids' = Ids
    BY <1>0, <2>1 DEF TypeInv, Known, Ids, polling
  <2>3. PlaceOK(t)'
    BY <1>1, <2>1, <2>2 DEF PlaceOK, At
  <2>4. StaffOK' /\ AnalysisOK' /\ \A u \in Thread : PlaceOK(u)'
    BY <1>2, <2>1, <2>2, <2>3
  <2>. QED
    BY <1>0, <2>1, <2>2, <2>4, BaseNext
<1>6. CASE Unkey(t)
  <2>. DEFINE c == alert[thread[t].id].cell
  <2>1. /\ UNCHANGED <<alert, active, polling>>
        /\ thread' \in [Thread -> ThreadState] /\ tasks' \in Seq(Task)
        /\ \A u \in Thread \ {t} : thread'[u] = thread[u]
        /\ thread[t].at = "unkey" /\ thread'[t] = Idle /\ (t = "analysis" \/ tasks' = tasks)
        /\ mail' = mail /\ panel' \subseteq panel
        /\ key' = [key EXCEPT ![c] = NoAlert] /\ key' \in [Cell -> Nat]
    BY <1>6, UnkeyMoves
  <2>. HIDE DEF c
  <2>2. TypeInv' /\ Known' \subseteq Known /\ Ids' = Ids
    BY <1>0, <2>1 DEF TypeInv, Known, Ids, polling
  <2>3. PlaceOK(t)'
    BY <1>1, <2>1, <2>2 DEF PlaceOK, At
  <2>4. StaffOK' /\ AnalysisOK' /\ \A u \in Thread : PlaceOK(u)'
    BY <1>2, <2>1, <2>2, <2>3
  <2>5. \A d \in Cell : key'[d] \in {NoAlert} \cup Ids
    BY <1>0, <2>1 DEF TypeInv
  <2>. QED
    BY <1>0, <2>2, <2>4, <2>5, BaseNext
<1>. QED
  BY <1>3, <1>4, <1>5, <1>6 DEF DecisionStep

LEMMA QuietBase ==
  ASSUME Base, UNCHANGED <<redis, thread, tasks>>, poll' \in PollState, Known' \subseteq Known,
         mail' \in SUBSET Nat, panel' \in SUBSET Nat
  PROVE  Base'
<1>0. /\ TypeInv /\ StaffOK /\ AnalysisOK /\ Known \subseteq Ids
      /\ \A c \in Cell : key[c] \in {NoAlert} \cup Ids
      /\ \A u \in Thread : PlaceOK(u)
  BY BaseIs
<1>1. TypeInv' /\ Ids' = Ids
  BY <1>0 DEF TypeInv, Ids, redis
<1>2. StaffOK' /\ AnalysisOK' /\ \A u \in Thread : PlaceOK(u)'
  BY <1>0, <1>1 DEF StaffOK, AnalysisOK, PlaceOK, At, Staff, Analysis, redis
<1>. QED
  BY <1>0, <1>1, <1>2, BaseNext DEF redis

LEMMA NextBase == Base /\ [Next]_vars => Base'
<1> SUFFICES ASSUME Base, [Next]_vars PROVE Base'
  OBVIOUS
<1>0. /\ TypeInv /\ StaffOK /\ AnalysisOK /\ Known \subseteq Ids
      /\ \A c \in Cell : key[c] \in {NoAlert} \cup Ids
      /\ \A u \in Thread : PlaceOK(u)
  BY BaseIs
<1>1. Idle.at = "idle"
  BY DEF Idle
<1>2. CASE MissingPlanogram \/ AnalyzeWithoutPlanogram \/ Restart \/ UNCHANGED vars
  <2>1. UNCHANGED <<redis, thread, tasks, polling, screen>>
    BY <1>2 DEF MissingPlanogram, AnalyzeWithoutPlanogram, Restart, vars
  <2>2. Known' = Known /\ poll' = poll /\ mail' = mail /\ panel' = panel
    BY <2>1 DEF Known, redis, polling, screen
  <2>. QED
    BY <1>0, <2>1, <2>2, QuietBase DEF TypeInv
<1>3. CASE Analyze
  <2>1. /\ UNCHANGED <<redis, thread, polling, screen>> /\ Analysis.at = "idle" /\ tasks' \in Seq(Task)
    BY <1>3, AnalyzeMoves
  <2>2. /\ TypeInv' /\ Known' = Known /\ Ids' = Ids /\ key' = key /\ alert' = alert
        /\ Analysis' = Analysis /\ Staff' = Staff
    BY <1>0, <2>1 DEF TypeInv, Known, Ids, redis, polling, screen, Analysis, Staff
  <2>3. StaffOK' /\ AnalysisOK' /\ \A u \in Thread : PlaceOK(u)'
    BY <1>0, <2>1, <2>2 DEF StaffOK, AnalysisOK, PlaceOK, At
  <2>. QED
    BY <1>0, <2>2, <2>3, BaseNext
<1>4. CASE AnalysisStep
  BY <1>4, AnalysisStepBase
<1>5. CASE \E t \in Thread : DecisionStep(t)
  BY <1>5, DecisionStepBase
<1>6. CASE PollStep \/ PollFails
  BY <1>0, <1>6, PollMoves, QuietBase DEF TypeInv
<1>7. CASE ShowAlert
  BY <1>0, <1>7, ShowMoves, QuietBase DEF TypeInv
<1>8. CASE Click
  <2>1. /\ UNCHANGED <<redis, tasks, poll, mail, panel>>
        /\ thread' \in [Thread -> ThreadState] /\ Analysis' = Analysis
        /\ Staff'.at = "get" /\ Staff'.id \in panel
    BY <1>8, ClickMoves
  <2>2. TypeInv' /\ Known' = Known /\ Ids' = Ids /\ key' = key /\ alert' = alert
    BY <1>0, <2>1 DEF TypeInv, Known, Ids, redis
  <2>3. Staff'.id \in Ids
    BY <1>0, <2>1 DEF Known
  <2>4. PlaceOK("staff")' /\ PlaceOK("analysis")'
    <3>1. PlaceOK("analysis")'
      BY <1>0, <2>1, <2>2, Threads, PlaceKept DEF Analysis
    <3>. QED
      BY <2>1, <2>2, <2>3, <3>1 DEF PlaceOK, At, Staff
  <2>5. StaffOK' /\ AnalysisOK'
    BY <1>0, <2>1, <2>2 DEF StaffOK, AnalysisOK
  <2>. QED
    BY <1>0, <2>2, <2>4, <2>5, Threads, BaseNext
<1>9. CASE LookupFails
  <2>1. /\ UNCHANGED <<redis, polling, screen>>
        /\ thread' \in [Thread -> ThreadState] /\ tasks' \in Seq(Task) /\ Staff' = Staff
        /\ tasks # <<>>
        /\ \/ Analysis'.at = "create" /\ tasks' = tasks /\ Head(tasks).op = "raise"
           \/ Analysis' = Idle
    BY <1>9, LookupFailsMoves
  <2>2. TypeInv' /\ Known' = Known /\ Ids' = Ids /\ alert' = alert /\ key' = key
    BY <1>0, <2>1 DEF TypeInv, Known, Ids, redis, polling, screen
  <2>3. AnalysisOK' /\ PlaceOK("analysis")'
    BY <1>1, <2>1, <2>2 DEF AnalysisOK, PlaceOK, At, Analysis
  <2>4. StaffOK' /\ PlaceOK("staff")'
    BY <1>0, <2>1, <2>2, Threads, PlaceKept DEF StaffOK, Staff
  <2>. QED
    BY <1>0, <2>2, <2>3, <2>4, Threads, BaseNext
<1>10. CASE \E t \in Thread : CommandFails(t)
  <2>1. PICK t \in Thread : CommandFails(t)
    BY <1>10
  <2>2. /\ UNCHANGED <<redis, polling, screen>>
        /\ thread' \in [Thread -> ThreadState] /\ tasks' \in Seq(Task)
        /\ \A u \in Thread \ {t} : thread'[u] = thread[u]
        /\ thread'[t] = Idle /\ (t = "analysis" \/ tasks' = tasks)
    BY <2>1, CommandFailsMoves
  <2>3. TypeInv' /\ Known' = Known /\ Ids' = Ids /\ alert' = alert /\ key' = key
    BY <1>0, <2>2 DEF TypeInv, Known, Ids, redis, polling, screen
  <2>4. PlaceOK(t)'
    BY <1>1, <2>2 DEF PlaceOK, At
  <2>5. \A u \in Thread : PlaceOK(u)'
    BY <1>0, <2>2, <2>3, <2>4, PlaceKept
  <2>6. StaffOK'
    BY <1>0, <1>1, <2>2, Threads DEF StaffOK, Staff
  <2>7. AnalysisOK'
    BY <1>0, <1>1, <2>2, <2>3, Threads DEF AnalysisOK, Analysis
  <2>. QED
    BY <1>0, <2>3, <2>5, <2>6, <2>7, BaseNext
<1>. QED
  BY <1>2, <1>3, <1>4, <1>5, <1>6, <1>7, <1>8, <1>9, <1>10 DEF Next, Fault

-----------------------------------------------------------------------------
(* Nobody knows an alert before it is listed *)

FreshInv ==
  /\ Staff.at = "idle" => Staff.id = NoAlert
  /\ Analysis.at = "list" => /\ ~Decided(alert[Analysis.id])
                             /\ Analysis.id \notin Known
                             /\ Staff.id # Analysis.id

LEMMA InitFresh == Init => FreshInv
BY Threads DEF Init, FreshInv, Idle, Staff, Analysis

LEMMA QuietFresh ==
  ASSUME FreshInv, UNCHANGED <<redis, thread>>, Known' \subseteq Known
  PROVE  FreshInv'
BY DEF FreshInv, redis, Staff, Analysis

\* Whatever else the analysis does, it does not enter the place again.
LEMMA OtherFresh ==
  ASSUME FreshInv, Staff' = Staff, Analysis'.at # "list"
  PROVE  FreshInv'
BY DEF FreshInv

\* The staff cannot be at an alert that is not listed.
LEMMA StaffFresh ==
  ASSUME Base, FreshInv, Analysis' = Analysis, Known' \subseteq Known,
         Staff'.at = "idle" => Staff'.id = NoAlert,
         Staff'.id \in {NoAlert, Staff.id} \cup Known,
         \A i \in Ids \ {Staff.id} : alert'[i] = alert[i]
  PROVE  FreshInv'
<1>1. Analysis.at = "list" => Analysis.id \in Ids
  BY Threads, BaseIs DEF PlaceOK, Analysis
<1>2. NoAlert \notin Ids
  BY IdsTyped DEF Base
<1>. QED
  BY <1>1, <1>2 DEF FreshInv

LEMMA NextFresh == Base /\ FreshInv /\ [Next]_vars => FreshInv'
<1> SUFFICES ASSUME Base, FreshInv, [Next]_vars PROVE FreshInv'
  OBVIOUS
<1>1. Idle.at = "idle" /\ Idle.id = NoAlert
  BY DEF Idle
<1>2. CASE MissingPlanogram \/ AnalyzeWithoutPlanogram \/ Restart \/ UNCHANGED vars
  <2>1. UNCHANGED <<redis, thread, polling, screen>>
    BY <1>2 DEF MissingPlanogram, AnalyzeWithoutPlanogram, Restart, vars
  <2>. QED
    BY <2>1, QuietFresh DEF Known, redis, polling, screen
<1>3. CASE Analyze
  BY <1>3, AnalyzeMoves, QuietFresh DEF Known, redis, polling, screen
<1>4. CASE AnalysisStep
  <2>1. CASE ReadKey \/ ReadAlert \/ WriteBack \/ ListAlert \/ IndexCell
    <3>1. Staff' = Staff /\ Analysis'.at # "list"
      BY <1>1, <2>1, ReadKeyMoves, ReadAlertMoves, WriteBackMoves, ListAlertMoves, IndexCellMoves
    <3>. QED
      BY <3>1, OtherFresh
  <2>2. CASE CreateAlert
    <3>1. /\ UNCHANGED <<active, polling, screen>> /\ Staff' = Staff
          /\ Analysis'.id = Len(alert) + 1 /\ Len(alert) + 1 \notin Ids
          /\ ~Decided(alert'[Len(alert) + 1])
      BY <2>2, CreateAlertMoves
    <3>2. Known' = Known /\ Known \subseteq Ids
      BY <3>1, BaseIs DEF Known, polling, screen
    <3>3. Staff.id \in Ids \cup {NoAlert}
      BY Threads, BaseIs DEF FreshInv, StaffOK, PlaceOK, Staff
    <3>4. Len(alert) + 1 # NoAlert
      BY IdsTyped DEF Base, NoAlert
    <3>. QED
      BY <3>1, <3>2, <3>3, <3>4 DEF FreshInv
  <2>. QED
    BY <1>4, <2>1, <2>2 DEF AnalysisStep
<1>5. ASSUME NEW t \in Thread, DecisionStep(t) PROVE FreshInv'
  <2>1. /\ \A u \in Thread \ {t} : thread'[u] = thread[u]
        /\ \/ thread'[t].at \in {"set", "unlist", "unkey"} /\ thread'[t].id = thread[t].id
           \/ thread'[t] = Idle
        /\ \A j \in Ids \ {thread[t].id} : alert'[j] = alert[j]
        /\ UNCHANGED <<polling, mail>> /\ active' \subseteq active /\ panel' \subseteq panel
    <3>1. CASE ReadForDecision(t)
      BY <3>1, ReadForDecisionMoves DEF redis, screen
    <3>2. CASE WriteDecision(t)
      BY <3>2, WriteDecisionMoves DEF screen
    <3>3. CASE Unlist(t)
      BY <3>3, UnlistMoves
    <3>4. CASE Unkey(t)
      BY <3>4, UnkeyMoves
    <3>. QED
      BY <1>5, <3>1, <3>2, <3>3, <3>4 DEF DecisionStep
  <2>2. Known' \subseteq Known
    BY <2>1 DEF Known, polling
  <2>3. CASE t = "analysis"
    <3>1. Staff' = Staff /\ Analysis'.at # "list"
      BY <1>1, <2>1, <2>3, Threads DEF Staff, Analysis
    <3>. QED
      BY <3>1, OtherFresh
  <2>4. CASE t = "staff"
    <3>1. /\ Analysis' = Analysis
          /\ Staff'.at = "idle" => Staff'.id = NoAlert
          /\ Staff'.id \in {NoAlert, Staff.id}
          /\ \A j \in Ids \ {Staff.id} : alert'[j] = alert[j]
      BY <1>1, <2>1, <2>4, Threads DEF Staff, Analysis
    <3>. QED
      BY <2>2, <3>1, StaffFresh
  <2>. QED
    BY <2>3, <2>4, Threads
<1>6. CASE PollStep \/ PollFails
  BY <1>6, PollMoves, QuietFresh
<1>7. CASE ShowAlert
  BY <1>7, ShowMoves, QuietFresh
<1>8. CASE Click
  <2>1. /\ UNCHANGED <<redis, poll, mail, panel>> /\ Analysis' = Analysis
        /\ Staff'.at = "get" /\ Staff'.id \in panel
    BY <1>8, ClickMoves
  <2>2. Known' = Known /\ alert' = alert /\ panel \subseteq Known
    BY <2>1 DEF Known, redis
  <2>. QED
    BY <2>1, <2>2, StaffFresh
<1>9. CASE LookupFails
  <2>1. Staff' = Staff /\ Analysis'.at # "list"
    BY <1>1, <1>9, LookupFailsMoves
  <2>. QED
    BY <2>1, OtherFresh
<1>10. ASSUME NEW t \in Thread, CommandFails(t) PROVE FreshInv'
  <2>1. /\ UNCHANGED <<redis, polling, screen>> /\ thread'[t] = Idle
        /\ \A u \in Thread \ {t} : thread'[u] = thread[u]
    BY <1>10, CommandFailsMoves
  <2>2. Known' = Known /\ alert' = alert
    BY <2>1 DEF Known, redis, polling, screen
  <2>3. CASE t = "analysis"
    <3>1. Staff' = Staff /\ Analysis'.at # "list"
      BY <1>1, <2>1, <2>3, Threads DEF Staff, Analysis
    <3>. QED
      BY <3>1, OtherFresh
  <2>4. CASE t = "staff"
    <3>1. Analysis' = Analysis /\ Staff' = Idle
      BY <2>1, <2>4, Threads DEF Staff, Analysis
    <3>. QED
      BY <1>1, <2>2, <3>1, StaffFresh
  <2>. QED
    BY <2>3, <2>4, Threads
<1>. QED
  BY <1>2, <1>3, <1>4, <1>5, <1>6, <1>7, <1>8, <1>9, <1>10 DEF Next, Fault

-----------------------------------------------------------------------------
(* What is listed is open *)

LEMMA InitListed == Init => ListedIsOpen
BY DEF Init, ListedIsOpen

\* Nothing that is listed is decided by this step, and nobody leaves the place
\* between the two commands of a decision.
LEMMA KeepsListed ==
  ASSUME ListedIsOpen, active' = active, lapses \subseteq lapses',
         \A i \in active : Decided(alert'[i]) => Decided(alert[i]),
         \A t \in Thread : thread[t].at = "unlist" =>
           thread'[t].at = "unlist" /\ thread'[t].id = thread[t].id
  PROVE  ListedIsOpen'
BY DEF ListedIsOpen, At

LEMMA NextListed == Base /\ FreshInv /\ ListedIsOpen /\ [Next]_vars => ListedIsOpen'
<1> SUFFICES ASSUME Base, FreshInv, ListedIsOpen, [Next]_vars PROVE ListedIsOpen'
  OBVIOUS
<1>0. active \subseteq Ids
  BY BaseIs DEF Known
<1>1. ASSUME UNCHANGED <<redis, thread>>, lapses \subseteq lapses' PROVE ListedIsOpen'
  BY <1>1, KeepsListed DEF redis
<1>2. CASE MissingPlanogram \/ AnalyzeWithoutPlanogram \/ Restart \/ UNCHANGED vars
  BY <1>1, <1>2 DEF MissingPlanogram, AnalyzeWithoutPlanogram, Restart, vars
<1>3. CASE Analyze
  BY <1>1, <1>3, AnalyzeMoves
<1>4. CASE AnalysisStep
  <2>1. ASSUME Staff' = Staff, Analysis.at # "unlist"
        PROVE  \A t \in Thread : thread[t].at = "unlist" =>
                 thread'[t].at = "unlist" /\ thread'[t].id = thread[t].id
    BY <2>1, Threads DEF Staff, Analysis
  <2>2. CASE ReadKey \/ ReadAlert
    <3>1. UNCHANGED <<redis, lapses>> /\ Staff' = Staff /\ Analysis.at # "unlist"
      BY <2>2, ReadKeyMoves, ReadAlertMoves
    <3>. QED
      BY <2>1, <3>1, KeepsListed DEF redis
  <2>3. CASE WriteBack
    <3>1. /\ UNCHANGED active /\ Staff' = Staff /\ Analysis.at = "write" /\ lapses \subseteq lapses'
          /\ ~Decided(alert'[Analysis.id])
          /\ \A j \in Ids \ {Analysis.id} : alert'[j] = alert[j]
      BY <2>3, WriteBackMoves
    <3>. QED
      BY <1>0, <2>1, <3>1, KeepsListed
  <2>4. CASE CreateAlert
    <3>1. /\ UNCHANGED <<active, lapses>> /\ Staff' = Staff /\ Analysis.at = "create"
          /\ \A j \in Ids : alert'[j] = alert[j]
      BY <2>4, CreateAlertMoves
    <3>. QED
      BY <1>0, <2>1, <3>1, KeepsListed
  <2>5. CASE ListAlert
    <3>1. /\ UNCHANGED <<alert, lapses>> /\ Staff' = Staff /\ Analysis.at = "list"
          /\ active' = active \cup {Analysis.id}
      BY <2>5, ListAlertMoves
    <3>2. ~Decided(alert[Analysis.id])
      BY <3>1 DEF FreshInv
    <3>. QED
      BY <2>1, <3>1, <3>2 DEF ListedIsOpen, At
  <2>6. CASE IndexCell
    <3>1. UNCHANGED <<alert, active, lapses>> /\ Staff' = Staff /\ Analysis.at = "index"
      BY <2>6, IndexCellMoves
    <3>. QED
      BY <2>1, <3>1, KeepsListed
  <2>. QED
    BY <1>4, <2>2, <2>3, <2>4, <2>5, <2>6 DEF AnalysisStep
<1>5. ASSUME NEW t \in Thread, DecisionStep(t) PROVE ListedIsOpen'
  <2>1. CASE ReadForDecision(t)
    <3>1. /\ UNCHANGED <<redis, lapses>> /\ thread[t].at = "get"
          /\ \A u \in Thread \ {t} : thread'[u] = thread[u]
      BY <2>1, ReadForDecisionMoves
    <3>. QED
      BY <3>1, KeepsListed DEF redis
  <2>2. CASE WriteDecision(t)
    <3>1. /\ UNCHANGED <<active, lapses>> /\ thread[t].at = "set"
          /\ \A u \in Thread \ {t} : thread'[u] = thread[u]
          /\ thread'[t].at = "unlist" /\ thread'[t].id = thread[t].id
          /\ \A j \in Ids \ {thread[t].id} : alert'[j] = alert[j]
      BY <2>2, WriteDecisionMoves
    <3>. QED
      BY <1>0, <3>1 DEF ListedIsOpen, At
  <2>3. CASE Unlist(t)
    <3>1. /\ UNCHANGED <<alert, lapses>> /\ thread[t].at = "unlist"
          /\ \A u \in Thread \ {t} : thread'[u] = thread[u]
          /\ active' = active \ {thread[t].id}
      BY <2>3, UnlistMoves
    <3>. QED
      BY <3>1 DEF ListedIsOpen, At
  <2>4. CASE Unkey(t)
    <3>1. /\ UNCHANGED <<alert, active>> /\ thread[t].at = "unkey" /\ lapses \subseteq lapses'
          /\ \A u \in Thread \ {t} : thread'[u] = thread[u]
      BY <2>4, UnkeyMoves
    <3>. QED
      BY <3>1, KeepsListed
  <2>. QED
    BY <1>5, <2>1, <2>2, <2>3, <2>4 DEF DecisionStep
<1>6. CASE PollStep \/ PollFails
  BY <1>1, <1>6, PollMoves
<1>7. CASE ShowAlert
  BY <1>1, <1>7, ShowMoves
<1>8. CASE Click
  <2>1. /\ UNCHANGED <<redis, lapses>> /\ Analysis' = Analysis /\ Staff.at = "idle"
    BY <1>8, ClickMoves DEF Click, At, Staff
  <2>. QED
    BY <2>1, KeepsListed, Threads DEF redis, Analysis, Staff
<1>9. CASE LookupFails \/ \E t \in Thread : CommandFails(t)
  <2>1. "failed" \in lapses'
    BY <1>9 DEF LookupFails, CommandFails, Failing
  <2>. QED
    BY <2>1 DEF ListedIsOpen
<1>. QED
  BY <1>2, <1>3, <1>4, <1>5, <1>6, <1>7, <1>8, <1>9 DEF Next, Fault

-----------------------------------------------------------------------------
(* The key of a cell leads to its open alert *)

KeyLeads ==
  \A i \in Open :
    \/ key[alert[i].cell] = i
    \/ Analysis.id = i /\ Analysis.at \in {"list", "index"}

\* While the analysis creates an alert, the key leads to no open one.
KeyIsStale ==
  Analysis.at \in {"create", "list", "index"} =>
    (key[Head(tasks).cell] # NoAlert => Decided(alert[key[Head(tasks).cell]]))

KeyWasRead == Analysis.at = "read" => key[Head(tasks).cell] \in {NoAlert, Analysis.id}

OutIsDecided ==
  \A t \in Thread : thread[t].at \in {"unlist", "unkey"} => Decided(alert[thread[t].id])

KeyInv == lapses = {} => KeyLeads /\ KeyIsStale /\ KeyWasRead /\ OutIsDecided

LEMMA InitKey == Init => KeyInv
<1> SUFFICES ASSUME Init PROVE KeyLeads /\ KeyIsStale /\ KeyWasRead /\ OutIsDecided
  BY DEF KeyInv
<1>1. Open = {}
  BY DEF Init, Open
<1>2. \A t \in Thread : thread[t].at = "idle"
  BY DEF Init, Idle
<1>. QED
  BY <1>1, <1>2, Threads DEF KeyLeads, KeyIsStale, KeyWasRead, OutIsDecided, Analysis

\* A task of the analysis is about a cell, whose key is none or that of an alert.
LEMMA TaskKey ==
  ASSUME Base, tasks # <<>>
  PROVE  Head(tasks).cell \in Cell /\ key[Head(tasks).cell] \in {NoAlert} \cup Ids
BY TasksTyped, BaseIs DEF Task

\* Commands of the analysis that leave the decisions, and all keys, as they are.
LEMMA AnalysisKey ==
  ASSUME Base, KeyInv, UNCHANGED <<key, lapses>>, Staff' = Staff,
         \A i \in Ids : alert'[i].cell = alert[i].cell /\ Decided(alert'[i]) = Decided(alert[i]),
         Ids' = Ids, Analysis.at \notin {"list", "index"},
         Analysis'.at \notin {"list", "index", "unlist", "unkey"},
         lapses = {} => KeyIsStale' /\ KeyWasRead'
  PROVE  KeyInv'
<1> SUFFICES ASSUME lapses = {} PROVE KeyInv'
  BY DEF KeyInv
<1>1. Open' = Open
  BY DEF Open, Ids
<1>2. KeyLeads'
  BY <1>1 DEF KeyInv, KeyLeads, Open, Ids
<1>3. OutIsDecided'
  <2>1. thread'["staff"] = thread["staff"] /\ thread'["analysis"].at \notin {"unlist", "unkey"}
    BY DEF Staff, Analysis
  <2>2. thread["staff"].at \in {"unlist", "unkey"} => thread["staff"].id \in Ids
    BY Threads, BaseIs DEF PlaceOK
  <2>. QED
    BY <2>1, <2>2, Threads DEF KeyInv, OutIsDecided
<1>. QED
  BY <1>2, <1>3 DEF KeyInv

LEMMA AnalysisStepKey ==
  ASSUME Base, FreshInv, KeyInv, AnalysisStep, lapses' = {}
  PROVE  KeyInv'
<1>0. Idle.at = "idle"
  BY DEF Idle
<1>1. CASE ReadKey
  <2>1. /\ UNCHANGED <<redis, lapses>> /\ Staff' = Staff /\ Analysis.at = "idle"
        /\ \/ Analysis'.at = "read" /\ Analysis'.id = key[Head(tasks).cell] /\ tasks' = tasks
           \/ Analysis'.at = "create" /\ tasks' = tasks /\ key[Head(tasks).cell] = NoAlert
           \/ Analysis' = Idle
    BY <1>1, ReadKeyMoves
  <2>2. alert' = alert /\ key' = key /\ Ids' = Ids
    BY <2>1 DEF redis, Ids
  <2>3. KeyIsStale' /\ KeyWasRead'
    BY <1>0, <2>1, <2>2 DEF KeyIsStale, KeyWasRead
  <2>. QED
    BY <1>0, <2>1, <2>2, <2>3, AnalysisKey
<1>2. CASE ReadAlert
  <2>1. /\ UNCHANGED <<redis, lapses>> /\ Staff' = Staff /\ Analysis.at = "read"
        /\ \/ Analysis'.at = "create" /\ tasks' = tasks /\ Decided(alert[Analysis.id])
           \/ Analysis'.at = "write"
           \/ Analysis' = Idle
           \/ Analysis'.at = "get"
    BY <1>2, ReadAlertMoves
  <2>2. alert' = alert /\ key' = key /\ Ids' = Ids
    BY <2>1 DEF redis, Ids
  <2>3. lapses = {} => key[Head(tasks).cell] \in {NoAlert, Analysis.id}
    BY <2>1 DEF KeyInv, KeyWasRead
  <2>4. lapses = {} => KeyIsStale' /\ KeyWasRead'
    BY <1>0, <2>1, <2>2, <2>3 DEF KeyIsStale, KeyWasRead
  <2>. QED
    BY <1>0, <2>1, <2>2, <2>4, AnalysisKey
<1>3. CASE WriteBack
  <2>1. /\ UNCHANGED key /\ Staff' = Staff /\ Analysis' = Idle /\ Analysis.at = "write"
        /\ Analysis.id \in Ids /\ Ids' = Ids
        /\ ~Decided(alert'[Analysis.id]) /\ alert'[Analysis.id].cell = alert[Analysis.id].cell
        /\ \A j \in Ids \ {Analysis.id} : alert'[j] = alert[j]
        /\ lapses \subseteq lapses' /\ (Decided(alert[Analysis.id]) => lapses' # {})
    BY <1>3, WriteBackMoves
  <2>2. lapses = {} /\ ~Decided(alert[Analysis.id])
    BY <2>1
  <2>3. \A i \in Ids : alert'[i].cell = alert[i].cell /\ Decided(alert'[i]) = Decided(alert[i])
    BY <2>1, <2>2 DEF Decided
  <2>4. KeyIsStale' /\ KeyWasRead'
    BY <1>0, <2>1 DEF KeyIsStale, KeyWasRead
  <2>. QED
    BY <1>0, <2>1, <2>2, <2>3, <2>4, AnalysisKey
<1>4. CASE CreateAlert
  <2>. DEFINE n == Len(alert) + 1
  <2>1. /\ UNCHANGED <<key, tasks, lapses>> /\ Staff' = Staff /\ Analysis.at = "create" /\ tasks # <<>>
        /\ Analysis'.at = "list" /\ Analysis'.id = n /\ n \notin Ids /\ Ids' = Ids \cup {n}
        /\ \A j \in Ids : alert'[j] = alert[j]
    BY <1>4, CreateAlertMoves
  <2>. HIDE DEF n
  <2>2. KeyLeads /\ KeyIsStale /\ OutIsDecided
    BY <2>1 DEF KeyInv
  <2>3. Open' \subseteq Open \cup {n}
    BY <2>1 DEF Open, Ids
  <2>4. KeyLeads'
    <3>1. ASSUME NEW i \in Open PROVE key'[alert'[i].cell] = i
      BY <2>1, <2>2, <3>1 DEF KeyLeads, Open, Ids
    <3>. QED
      BY <2>1, <2>3, <3>1 DEF KeyLeads
  <2>5. KeyIsStale' /\ KeyWasRead'
    BY <2>1, <2>2, TaskKey DEF KeyIsStale, KeyWasRead
  <2>6. OutIsDecided'
    <3>1. thread["staff"].at \in {"unlist", "unkey"} => thread["staff"].id \in Ids
      BY Threads, BaseIs DEF PlaceOK
    <3>. QED
      BY <2>1, <2>2, <3>1, Threads DEF OutIsDecided, Staff, Analysis
  <2>. QED
    BY <2>4, <2>5, <2>6 DEF KeyInv
<1>5. CASE ListAlert
  <2>1. /\ UNCHANGED <<alert, key, tasks, lapses>> /\ Staff' = Staff /\ Analysis.at = "list"
        /\ Analysis'.at = "index" /\ Analysis'.id = Analysis.id
    BY <1>5, ListAlertMoves
  <2>2. KeyLeads /\ KeyIsStale /\ OutIsDecided
    BY <2>1 DEF KeyInv
  <2>3. KeyLeads' /\ KeyIsStale' /\ KeyWasRead'
    BY <2>1, <2>2 DEF KeyLeads, KeyIsStale, KeyWasRead, Open
  <2>4. OutIsDecided'
    BY <2>1, <2>2, Threads DEF OutIsDecided, Staff, Analysis
  <2>. QED
    BY <2>3, <2>4 DEF KeyInv
<1>6. CASE IndexCell
  <2>. DEFINE c == Head(tasks).cell
  <2>1. /\ UNCHANGED <<alert, lapses>> /\ Staff' = Staff /\ Analysis' = Idle
        /\ Analysis.at = "index" /\ Analysis.id \in Ids /\ c \in Cell
        /\ key' = [key EXCEPT ![c] = Analysis.id]
    BY <1>6, IndexCellMoves
  <2>2. KeyLeads /\ KeyIsStale /\ OutIsDecided /\ alert[Analysis.id].cell = c
    BY <2>1, BaseIs DEF KeyInv, AnalysisOK
  <2>3. \A i \in Open : alert[i].cell \in Cell /\ i # NoAlert
    BY AlertTyped, IdsTyped DEF Open, Ids, Base
  <2>4. key[c] # NoAlert => Decided(alert[key[c]])
    BY <2>1, <2>2 DEF KeyIsStale
  <2>. HIDE DEF c
  <2>5. key \in [Cell -> Nat]
    BY DEF Base, TypeInv
  <2>6. KeyLeads'
    <3>1. ASSUME NEW i \in Open PROVE key'[alert[i].cell] = i
      <4>1. CASE i = Analysis.id
        BY <2>1, <2>2, <2>5, <4>1
      <4>2. CASE i # Analysis.id
        <5>1. key[alert[i].cell] = i
          BY <2>2, <4>2 DEF KeyLeads
        <5>2. alert[i].cell # c
          BY <2>3, <2>4, <5>1 DEF Open
        <5>. QED
          BY <2>1, <2>3, <2>5, <5>1, <5>2
      <4>. QED
        BY <4>1, <4>2
    <3>2. Open' = Open
      BY <2>1 DEF Open
    <3>. QED
      BY <2>1, <3>1, <3>2 DEF KeyLeads
  <2>7. KeyIsStale' /\ KeyWasRead'
    BY <1>0, <2>1 DEF KeyIsStale, KeyWasRead
  <2>8. OutIsDecided'
    BY <1>0, <2>1, <2>2, Threads DEF OutIsDecided, Staff, Analysis
  <2>. QED
    BY <2>6, <2>7, <2>8 DEF KeyInv
<1>. QED
  BY <1>1, <1>2, <1>3, <1>4, <1>5, <1>6 DEF AnalysisStep

\* Commands of a decision that leave the keys as they are.
LEMMA DecisionKey ==
  ASSUME Base, KeyInv, lapses = {}, NEW t \in Thread,
         thread[t].at \in {"get", "set", "unlist"},
         thread'[t].at \in {"idle", "set", "unlist", "unkey"},
         thread'[t].at \in {"unlist", "unkey"} => Decided(alert'[thread'[t].id]),
         \A u \in Thread \ {t} : thread'[u] = thread[u],
         t = "analysis" \/ tasks' = tasks,
         key' = key, Ids' = Ids,
         \A i \in Ids : /\ alert'[i].cell = alert[i].cell
                        /\ Decided(alert[i]) => Decided(alert'[i])
  PROVE  KeyInv'
<1>1. KeyLeads /\ KeyIsStale /\ KeyWasRead /\ OutIsDecided
  BY DEF KeyInv
<1>2. \A u \in Thread : thread[u].at \in {"unlist", "unkey"} => thread[u].id \in Ids
  BY BaseIs DEF PlaceOK
<1>3. OutIsDecided'
  BY <1>1, <1>2 DEF OutIsDecided
<1>4. \A i \in Open' : i \in Open /\ alert'[i].cell = alert[i].cell
  BY DEF Open, Ids
<1>5. CASE t = "analysis"
  <2>1. Analysis.at \notin {"list", "index"} /\ Analysis'.at \notin {"read", "create", "list", "index"}
    BY <1>5 DEF Analysis
  <2>2. KeyLeads'
    BY <1>1, <1>4, <2>1 DEF KeyLeads
  <2>. QED
    BY <1>3, <2>1, <2>2 DEF KeyInv, KeyIsStale, KeyWasRead
<1>6. CASE t # "analysis"
  <2>1. Analysis' = Analysis /\ tasks' = tasks
    BY <1>6, Threads DEF Analysis
  <2>2. KeyLeads' /\ KeyWasRead'
    BY <1>1, <1>4, <2>1 DEF KeyLeads, KeyWasRead
  <2>3. Analysis.at \in {"create", "list", "index"} => tasks # <<>>
    BY BaseIs DEF AnalysisOK
  <2>4. KeyIsStale'
    BY <1>1, <2>1, <2>3, TaskKey DEF KeyIsStale
  <2>. QED
    BY <1>3, <2>2, <2>4 DEF KeyInv
<1>. QED
  BY <1>5, <1>6

LEMMA DecisionStepKey ==
  ASSUME Base, KeyInv, NEW t \in Thread, DecisionStep(t), lapses' = {}
  PROVE  KeyInv'
<1>0. Idle.at = "idle"
  BY DEF Idle
<1>1. CASE ReadForDecision(t)
  <2>1. /\ UNCHANGED <<redis, tasks, lapses>> /\ thread[t].at = "get" /\ thread'[t].at = "set"
        /\ \A u \in Thread \ {t} : thread'[u] = thread[u]
    BY <1>1, ReadForDecisionMoves
  <2>. QED
    BY <2>1, DecisionKey DEF redis, Ids
<1>2. CASE WriteDecision(t)
  <2>1. /\ UNCHANGED <<key, tasks, lapses>> /\ thread[t].at = "set" /\ thread[t].id \in Ids
        /\ thread'[t].at = "unlist" /\ thread'[t].id = thread[t].id
        /\ \A u \in Thread \ {t} : thread'[u] = thread[u]
        /\ Ids' = Ids /\ Decided(alert'[thread[t].id])
        /\ alert'[thread[t].id].cell = alert[thread[t].id].cell
        /\ \A j \in Ids \ {thread[t].id} : alert'[j] = alert[j]
    BY <1>2, WriteDecisionMoves
  <2>2. \A i \in Ids : /\ alert'[i].cell = alert[i].cell
                       /\ Decided(alert[i]) => Decided(alert'[i])
    BY <2>1
  <2>. QED
    BY <2>1, <2>2, DecisionKey
<1>3. CASE Unlist(t)
  <2>1. /\ UNCHANGED <<alert, key, lapses>> /\ thread[t].at = "unlist"
        /\ \A u \in Thread \ {t} : thread'[u] = thread[u]
        /\ \/ thread'[t] = Idle
           \/ thread'[t].at = "unkey" /\ thread'[t].id = thread[t].id
        /\ t = "analysis" \/ tasks' = tasks
    BY <1>3, UnlistMoves
  <2>2. Decided(alert[thread[t].id])
    BY <2>1 DEF KeyInv, OutIsDecided
  <2>. QED
    BY <1>0, <2>1, <2>2, DecisionKey DEF Ids
<1>4. CASE Unkey(t)
  <2>. DEFINE c == alert[thread[t].id].cell
  <2>1. /\ UNCHANGED alert /\ thread[t].at = "unkey" /\ thread[t].id \in Ids
        /\ \A u \in Thread \ {t} : thread'[u] = thread[u]
        /\ thread'[t] = Idle /\ (t = "analysis" \/ tasks' = tasks)
        /\ c \in Cell /\ key' = [key EXCEPT ![c] = NoAlert] /\ lapses \subseteq lapses'
        /\ key[c] \notin {NoAlert, thread[t].id} => lapses' # {}
    BY <1>4, UnkeyMoves
  <2>2. /\ lapses = {} /\ key[c] \in {NoAlert, thread[t].id}
        /\ KeyLeads /\ KeyIsStale /\ KeyWasRead /\ OutIsDecided
    BY <2>1 DEF KeyInv
  <2>3. Decided(alert[thread[t].id]) /\ key \in [Cell -> Nat]
    BY <2>1, <2>2 DEF OutIsDecided, Base, TypeInv
  <2>4. \A i \in Open : alert[i].cell \in Cell /\ i # NoAlert
    BY AlertTyped, IdsTyped DEF Open, Ids, Base
  <2>. HIDE DEF c
  <2>5. \A d \in Cell : key'[d] = IF d = c THEN NoAlert ELSE key[d]
    BY <2>1, <2>3
  <2>6. OutIsDecided'
    BY <1>0, <2>1, <2>2 DEF OutIsDecided
  <2>7. Open' = Open
    BY <2>1 DEF Open
  <2>8. ASSUME NEW i \in Open, key[alert[i].cell] = i PROVE key'[alert[i].cell] = i
    BY <2>2, <2>3, <2>4, <2>5, <2>8 DEF Open
  <2>9. CASE t = "analysis"
    <3>1. Analysis.at \notin {"list", "index"} /\ Analysis'.at \notin {"read", "create", "list", "index"}
      BY <1>0, <2>1, <2>9 DEF Analysis
    <3>2. KeyLeads'
      BY <2>1, <2>2, <2>7, <2>8, <3>1 DEF KeyLeads
    <3>. QED
      BY <2>6, <3>1, <3>2 DEF KeyInv, KeyIsStale, KeyWasRead
  <2>10. CASE t # "analysis"
    <3>1. Analysis' = Analysis /\ tasks' = tasks
      BY <2>1, <2>10, Threads DEF Analysis
    <3>2. KeyLeads'
      BY <2>1, <2>2, <2>7, <2>8, <3>1 DEF KeyLeads
    <3>3. Analysis.at # "idle" => Head(tasks).cell \in Cell
      BY TaskKey, BaseIs DEF AnalysisOK
    <3>4. KeyIsStale' /\ KeyWasRead'
      BY <2>1, <2>2, <2>5, <3>1, <3>3 DEF KeyIsStale, KeyWasRead
    <3>. QED
      BY <2>6, <3>2, <3>4 DEF KeyInv
  <2>. QED
    BY <2>9, <2>10
<1>. QED
  BY <1>1, <1>2, <1>3, <1>4 DEF DecisionStep

LEMMA QuietKey ==
  ASSUME KeyInv, UNCHANGED <<redis, thread>>, Analysis.at = "idle" \/ tasks' = tasks,
         lapses \subseteq lapses'
  PROVE  KeyInv'
<1> SUFFICES ASSUME lapses = {} PROVE KeyInv'
  BY DEF KeyInv
<1>1. KeyLeads /\ KeyIsStale /\ KeyWasRead /\ OutIsDecided
  BY DEF KeyInv
<1>2. Analysis' = Analysis /\ Open' = Open
  BY DEF redis, Open, Analysis
<1>3. KeyLeads' /\ OutIsDecided'
  BY <1>1, <1>2 DEF KeyLeads, OutIsDecided, redis
<1>4. KeyIsStale' /\ KeyWasRead'
  BY <1>1, <1>2 DEF KeyIsStale, KeyWasRead, redis
<1>. QED
  BY <1>3, <1>4 DEF KeyInv

LEMMA NextKey == Base /\ FreshInv /\ KeyInv /\ [Next]_vars => KeyInv'
<1> SUFFICES ASSUME Base, FreshInv, KeyInv, [Next]_vars, lapses' = {} PROVE KeyInv'
  BY DEF KeyInv
<1>1. CASE MissingPlanogram \/ AnalyzeWithoutPlanogram \/ Restart \/ UNCHANGED vars
  BY <1>1, QuietKey DEF MissingPlanogram, AnalyzeWithoutPlanogram, Restart, vars
<1>2. CASE Analyze
  BY <1>2, AnalyzeMoves, QuietKey
<1>3. CASE AnalysisStep
  BY <1>3, AnalysisStepKey
<1>4. CASE \E t \in Thread : DecisionStep(t)
  BY <1>4, DecisionStepKey
<1>5. CASE PollStep \/ PollFails
  BY <1>5, PollMoves, QuietKey
<1>6. CASE ShowAlert
  BY <1>6, ShowMoves, QuietKey
<1>7. CASE Click
  <2>1. /\ UNCHANGED <<redis, tasks, lapses>> /\ Analysis' = Analysis /\ Staff'.at = "get"
    BY <1>7, ClickMoves
  <2>2. lapses = {} /\ KeyLeads /\ KeyIsStale /\ KeyWasRead /\ OutIsDecided
    BY <2>1 DEF KeyInv
  <2>3. KeyLeads' /\ KeyIsStale' /\ KeyWasRead'
    BY <2>1, <2>2 DEF KeyLeads, KeyIsStale, KeyWasRead, redis, Open
  <2>4. OutIsDecided'
    BY <2>1, <2>2, Threads DEF OutIsDecided, redis, Analysis, Staff
  <2>. QED
    BY <2>3, <2>4 DEF KeyInv
<1>8. CASE LookupFails \/ \E t \in Thread : CommandFails(t)
  <2>1. "failed" \in lapses'
    BY <1>8 DEF LookupFails, CommandFails, Failing
  <2>. QED
    BY <2>1
<1>. QED
  BY <1>1, <1>2, <1>3, <1>4, <1>5, <1>6, <1>7, <1>8 DEF Next, Fault

\* Two open alerts of one cell would both be where its key leads to, or one of
\* them where the analysis is, which then found the key stale.
LEMMA KeyIsUnique == Base /\ KeyInv => OneOpenPerCell
<1> SUFFICES ASSUME Base, KeyInv, lapses = {}, NEW i \in Open
             PROVE  /\ \A j \in Open : alert[i].cell = alert[j].cell => i = j
                    /\ \/ key[alert[i].cell] = i
                       \/ Analysis.id = i /\ Analysis.at \in {"list", "index"}
  BY DEF OneOpenPerCell, Analysis
<1>1. KeyLeads /\ KeyIsStale
  BY DEF KeyInv
<1>2. \A j \in Open : j # NoAlert /\ ~Decided(alert[j])
  BY IdsTyped DEF Open, Ids, Base
<1>3. Analysis.at \in {"list", "index"} => alert[Analysis.id].cell = Head(tasks).cell
  BY BaseIs DEF AnalysisOK
<1>4. ASSUME NEW j \in Open, NEW k \in Open, alert[j].cell = alert[k].cell,
             key[alert[j].cell] = j, Analysis.id = k, Analysis.at \in {"list", "index"}
      PROVE  FALSE
  BY <1>1, <1>2, <1>3, <1>4 DEF KeyIsStale
<1>5. ASSUME NEW j \in Open, alert[i].cell = alert[j].cell PROVE i = j
  BY <1>1, <1>4, <1>5 DEF KeyLeads
<1>. QED
  BY <1>1, <1>5 DEF KeyLeads

-----------------------------------------------------------------------------
(* Alerts are confirmed *)

LEMMA LastOfIs ==
  ASSUME NEW S, NEW h \in Seq(S), NEW n \in Nat \ {0}
  PROVE  /\ Len(h) <= n => LastOf(h, n) \in Seq(S) /\ Len(LastOf(h, n)) = Len(h)
                           /\ \A i \in 1..Len(h) : LastOf(h, n)[i] = h[i]
         /\ Len(h) > n => /\ LastOf(h, n) \in Seq(S) /\ Len(LastOf(h, n)) = n
                          /\ \A i \in 1..n : LastOf(h, n)[i] = h[Len(h) - n + i]
<1>1. Len(h) \in Nat /\ \A i \in 1..Len(h) : h[i] \in S
  BY LenProperties, ElementOfSeq
<1>2. CASE Len(h) <= n
  <2>0. ~(Len(h) > n)
    BY <1>1, <1>2
  <2>1. LastOf(h, n) = SubSeq(h, 1, Len(h))
    BY <2>0, Zenon DEF LastOf
  <2>2. /\ SubSeq(h, 1, Len(h)) \in Seq(S)
        /\ Len(SubSeq(h, 1, Len(h))) = IF 1 <= Len(h) THEN Len(h) - 1 + 1 ELSE 0
        /\ \A i \in 1..(Len(h) - 1 + 1) : SubSeq(h, 1, Len(h))[i] = h[1 + i - 1]
    BY <1>1, SubSeqProperties
  <2>. QED
    BY <1>1, <1>2, <2>1, <2>2
<1>3. CASE Len(h) > n
  <2>. DEFINE m == Len(h) - n + 1
  <2>1. LastOf(h, n) = SubSeq(h, m, Len(h))
    BY <1>1, <1>3 DEF LastOf
  <2>2. m \in Int /\ m >= 1 /\ m <= Len(h) /\ Len(h) - m + 1 = n
    BY <1>1, <1>3
  <2>3. \A i \in m..Len(h) : h[i] \in S
    BY <1>1, <2>2
  <2>4. /\ SubSeq(h, m, Len(h)) \in Seq(S)
        /\ Len(SubSeq(h, m, Len(h))) = IF m <= Len(h) THEN Len(h) - m + 1 ELSE 0
        /\ \A i \in 1..(Len(h) - m + 1) : SubSeq(h, m, Len(h))[i] = h[m + i - 1]
    <3>. HIDE DEF m
    <3>. QED
      BY <1>1, <2>2, <2>3, SubSeqProperties
  <2>. QED
    BY <1>1, <1>3, <2>1, <2>2, <2>4
<1>. QED
  BY <1>1, <1>2, <1>3

\* The run of a state counts frames at the end of the history, as far as that
\* goes back.
RunFollows(c) ==
  /\ c.history \in Seq(Seen) /\ Len(c.history) <= MaxHistory
  /\ c.run \in [Seen -> Nat]
  /\ \A s \in Seen :
       /\ c.run[s] <= Len(c.history) \/ Len(c.history) = MaxHistory
       /\ \A j \in 1..Len(c.history) : j > Len(c.history) - c.run[s] => c.history[j] = s

Confirmed(c) ==
  /\ Len(c.history) >= NConfirm
  /\ \E s \in Bad : Range(LastOf(c.history, NConfirm)) = {s}

ConsensusInv ==
  /\ cell \in [Cell -> [current : Seen \cup {"unknown"}, run : [Seen -> Nat], history : Seq(Seen)]]
  /\ \A c \in Cell : RunFollows(cell[c])
  /\ \A i \in DOMAIN tasks : tasks[i].op = "raise" => Confirmed(cell[tasks[i].cell])

LEMMA UpdateFollows ==
  ASSUME NEW c, RunFollows(c), NEW s \in Seen
  PROVE  /\ RunFollows(Update(c, s))
         /\ Update(c, s) \in [current : Seen \cup {"unknown"}, run : [Seen -> Nat],
                              history : Seq(Seen)]
<1>. DEFINE h == c.history
            n == Len(h)
            g == Append(h, s)
            k == LastOf(g, MaxHistory)
            run == [x \in Seen |-> IF x # s THEN 0
                                   ELSE IF c.run[x] < CountBound THEN c.run[x] + 1 ELSE c.run[x]]
            u == Update(c, s)
<1>1. /\ h \in Seq(Seen) /\ n \in Nat /\ n <= MaxHistory /\ MaxHistory \in Nat \ {0}
      /\ c.run \in [Seen -> Nat]
  BY ShelfTyped, LenProperties DEF RunFollows
<1>2. /\ c.run[s] <= n \/ n = MaxHistory
      /\ \A j \in 1..n : j > n - c.run[s] => h[j] = s
  BY DEF RunFollows
<1>3. u = [current |-> s, run |-> run, history |-> k]
  BY DEF Update
<1>4. u.run = run /\ u.history = k /\ u.current = s
  BY <1>3
<1>5. /\ g \in Seq(Seen) /\ Len(g) = n + 1 /\ g[n + 1] = s
      /\ \A i \in 1..n : g[i] = h[i]
  BY <1>1, AppendProperties
<1>6. /\ run \in [Seen -> Nat] /\ run[s] <= c.run[s] + 1 /\ run[s] \in Nat
      /\ \A x \in Seen \ {s} : run[x] = 0
  BY <1>1, ShelfTyped DEF CountBound
<1>. HIDE DEF g, run, h, u
<1>7. CASE n < MaxHistory
  <2>1. k \in Seq(Seen) /\ Len(k) = n + 1 /\ \A i \in 1..(n + 1) : k[i] = g[i]
    BY <1>1, <1>5, <1>7, LastOfIs, SMTT(30)
  <2>. HIDE DEF k
  <2>2. ASSUME NEW x \in Seen
        PROVE  /\ run[x] <= n + 1
               /\ \A j \in 1..(n + 1) : j > n + 1 - run[x] => k[j] = x
    <3>1. CASE x = s
      <4>1. c.run[s] \in Nat /\ c.run[s] <= n
        BY <1>1, <1>2, <1>7
      <4>2. ASSUME NEW j \in 1..(n + 1), j > n + 1 - run[s] PROVE k[j] = s
        <5>1. CASE j = n + 1
          BY <1>5, <2>1, <5>1
        <5>2. CASE j # n + 1
          <6>1. run[s] \in Nat /\ run[s] <= c.run[s] + 1
            BY <1>6
          <6>2. j \in 1..n /\ j > n - c.run[s]
            <7>1. \A m, r, q \in Nat : \A i \in 1..(m + 1) :
                    i # m + 1 /\ i > m + 1 - r /\ r <= q + 1 => i \in 1..m /\ i > m - q
              OBVIOUS
            <7>. QED
              BY ONLY <1>1, <4>1, <4>2, <5>2, <6>1, <7>1
          <6>. QED
            BY <1>2, <1>5, <2>1, <6>2
        <5>. QED
          BY <5>1, <5>2
      <4>. QED
        BY <1>1, <1>6, <3>1, <4>1, <4>2
    <3>2. CASE x # s
      <4>1. run[x] = 0
        BY <1>6, <3>2
      <4>. QED
        BY <1>1, <4>1
    <3>. QED
      BY <3>1, <3>2
  <2>. QED
    BY <1>1, <1>3, <1>4, <1>6, <1>7, <2>1, <2>2, SMTT(30) DEF RunFollows, u
<1>8. CASE n = MaxHistory
  <2>1. k \in Seq(Seen) /\ Len(k) = n /\ \A i \in 1..n : k[i] = g[i + 1]
    <3>1. Len(g) > MaxHistory
      BY <1>1, <1>5, <1>8
    <3>2. k \in Seq(Seen) /\ Len(k) = n /\ \A i \in 1..n : k[i] = g[Len(g) - n + i]
      BY <1>1, <1>5, <1>8, <3>1, LastOfIs
    <3>3. \A i \in 1..n : Len(g) - n + i = i + 1
      BY <1>1, <1>5
    <3>. QED
      BY <3>2, <3>3
  <2>. HIDE DEF k
  <2>2. ASSUME NEW x \in Seen, NEW j \in 1..n, j > n - run[x] PROVE k[j] = x
    <3>1. CASE x = s
      <4>1. c.run[s] \in Nat
        BY <1>1
      <4>2. CASE j = n
        BY <1>5, <2>1, <3>1, <4>2
      <4>3. CASE j # n
        <5>1. run[s] \in Nat /\ run[s] <= c.run[s] + 1 /\ j > n - run[s]
          BY <1>6, <2>2, <3>1
        <5>2. j + 1 \in 1..n /\ j + 1 > n - c.run[s]
          <6>1. \A a, b, m \in Nat : \A i \in 1..m :
                  i # m /\ a <= b + 1 /\ i > m - a => i + 1 \in 1..m /\ i + 1 > m - b
            OBVIOUS
          <6>2. n \in Nat /\ j \in 1..n
            BY <1>1
          <6>. HIDE DEF n
          <6>. QED
            BY <4>1, <4>3, <5>1, <6>1, <6>2
        <5>. QED
          BY <1>2, <1>5, <2>1, <3>1, <5>2
      <4>. QED
        BY <4>2, <4>3
    <3>2. CASE x # s
      <4>1. run[x] = 0
        BY <1>6, <3>2
      <4>. QED
        BY <1>1, <2>2, <4>1
    <3>. QED
      BY <3>1, <3>2
  <2>. QED
    BY <1>1, <1>3, <1>4, <1>6, <1>8, <2>1, <2>2 DEF RunFollows, u
<1>. QED
  BY <1>1, <1>7, <1>8

\* A cell that raises an alert has shown the same bad state for NConfirm frames.
LEMMA RaisesConfirmed ==
  ASSUME MaxHistory >= NConfirm, NEW b, NEW c, RunFollows(c), Raises(b, c)
  PROVE  Confirmed(c)
<1>1. PICK s \in Bad : c.run[s] >= NConfirm
  BY DEF Raises
<1>. DEFINE h == c.history
            n == Len(h)
            k == LastOf(h, NConfirm)
<1>2. /\ h \in Seq(Seen) /\ n \in Nat /\ n <= MaxHistory /\ s \in Seen /\ c.run[s] \in Nat
      /\ c.run[s] <= n \/ n = MaxHistory
      /\ \A j \in 1..n : j > n - c.run[s] => h[j] = s
  BY LenProperties DEF RunFollows, Seen
<1>3. NConfirm \in Nat \ {0} /\ MaxHistory \in Nat \ {0}
  BY ShelfTyped
<1>4. n >= NConfirm
  BY <1>1, <1>2, <1>3
<1>5. \A j \in 1..n : j > n - NConfirm => h[j] = s
  BY <1>1, <1>2, <1>3
<1>6. k \in Seq(Seen) /\ Len(k) = NConfirm /\ \A i \in 1..NConfirm : k[i] = s
  <2>1. CASE n > NConfirm
    <3>1. /\ k \in Seq(Seen) /\ Len(k) = NConfirm
          /\ \A i \in 1..NConfirm : k[i] = h[n - NConfirm + i]
      BY <1>2, <1>3, <2>1, LastOfIs
    <3>2. \A i \in 1..NConfirm : n - NConfirm + i \in 1..n /\ n - NConfirm + i > n - NConfirm
      BY <1>2, <1>3, <2>1
    <3>. QED
      BY <1>5, <3>1, <3>2
  <2>2. CASE n = NConfirm
    <3>1. /\ k \in Seq(Seen) /\ Len(k) = NConfirm /\ \A i \in 1..NConfirm : k[i] = h[i]
      BY <1>2, <1>3, <2>2, LastOfIs
    <3>. QED
      BY <1>2, <1>3, <1>5, <2>2, <3>1
  <2>. QED
    BY <1>2, <1>3, <1>4, <2>1, <2>2
<1>. HIDE DEF k
<1>7. DOMAIN k = 1..NConfirm /\ 1 \in 1..NConfirm
  BY <1>3, <1>6, LenProperties
<1>8. Range(k) = {s}
  BY <1>6, <1>7 DEF Range
<1>. QED
  BY <1>4, <1>8 DEF Confirmed, k

LEMMA InitConsensus == Init => ConsensusInv
<1> SUFFICES ASSUME Init PROVE ConsensusInv
  OBVIOUS
<1>1. FreshCell.history = <<>> /\ FreshCell.run = [s \in Seen |-> 0] /\ FreshCell.current = "unknown"
  BY DEF FreshCell
<1>2. <<>> \in Seq(Seen) /\ Len(<<>>) = 0 /\ DOMAIN <<>> = {}
  BY EmptySeq
<1>3. FreshCell \in [current : Seen \cup {"unknown"}, run : [Seen -> Nat], history : Seq(Seen)]
  BY <1>2 DEF FreshCell
<1>4. RunFollows(FreshCell)
  BY <1>1, <1>2, ShelfTyped DEF RunFollows
<1>. QED
  BY <1>2, <1>3, <1>4 DEF Init, ConsensusInv

\* The tasks that are left are among those there were.
LEMMA ConsensusKept ==
  ASSUME Base, ConsensusInv, cell' = cell,
         tasks' = tasks \/ (tasks # <<>> /\ tasks' = Tail(tasks))
  PROVE  ConsensusInv'
<1>1. tasks \in Seq(Task)
  BY DEF Base, TypeInv
<1>2. ASSUME NEW i \in DOMAIN tasks'
      PROVE  \E j \in DOMAIN tasks : tasks'[i] = tasks[j]
  <2>1. CASE tasks' = tasks
    BY <2>1
  <2>2. CASE tasks # <<>> /\ tasks' = Tail(tasks)
    <3>1. /\ Tail(tasks) \in Seq(Task) /\ Len(Tail(tasks)) = Len(tasks) - 1
          /\ \A l \in 1..Len(Tail(tasks)) : Tail(tasks)[l] = tasks[l + 1]
      BY <1>1, <2>2, HeadTailProperties
    <3>2. Len(tasks) \in Nat /\ DOMAIN tasks = 1..Len(tasks)
      BY <1>1, LenProperties
    <3>3. DOMAIN tasks' = 1..Len(Tail(tasks))
      BY <2>2, <3>1, LenProperties
    <3>4. i \in 1..Len(Tail(tasks)) /\ i + 1 \in DOMAIN tasks
      BY <3>1, <3>2, <3>3
    <3>. QED
      BY <2>2, <3>1, <3>4
  <2>. QED
    BY <2>1, <2>2
<1>. QED
  BY <1>2 DEF ConsensusInv

LEMMA ConsensusNext ==
  MaxHistory >= NConfirm /\ Base /\ ConsensusInv /\ [Next]_vars => ConsensusInv'
<1> SUFFICES ASSUME MaxHistory >= NConfirm, Base, ConsensusInv, [Next]_vars PROVE ConsensusInv'
  OBVIOUS
<1>1. CASE Analyze
  <2>1. tasks' \in Seq(Task)
    BY <1>1, AnalyzeMoves
  <2>2. PICK frame \in [Cell -> Seen] :
          /\ cell' = [c \in Cell |-> Update(cell[c], frame[c])]
          /\ \A i \in DOMAIN tasks' :
               tasks'[i].op = "raise" => Raises(cell[tasks'[i].cell], cell'[tasks'[i].cell])
    BY <1>1, AnalyzeMoves
  <2>3. ASSUME NEW c \in Cell
        PROVE  /\ RunFollows(cell'[c])
               /\ cell'[c] \in [current : Seen \cup {"unknown"}, run : [Seen -> Nat],
                                history : Seq(Seen)]
    <3>1. cell'[c] = Update(cell[c], frame[c]) /\ frame[c] \in Seen
      BY <2>2
    <3>. QED
      BY <3>1, UpdateFollows DEF ConsensusInv
  <2>4. ASSUME NEW i \in DOMAIN tasks', tasks'[i].op = "raise"
        PROVE  Confirmed(cell'[tasks'[i].cell])
    <3>1. tasks'[i].cell \in Cell
      <4>1. tasks'[i] \in Task
        BY <2>1, ElementOfSeq, LenProperties
      <4>. QED
        BY <4>1 DEF Task
    <3>. QED
      BY <2>2, <2>3, <2>4, <3>1, RaisesConfirmed
  <2>5. cell' \in [Cell -> [current : Seen \cup {"unknown"}, run : [Seen -> Nat],
                            history : Seq(Seen)]]
    BY <2>2, <2>3
  <2>. QED
    BY <2>3, <2>4, <2>5 DEF ConsensusInv
<1>2. CASE \/ MissingPlanogram \/ AnalyzeWithoutPlanogram \/ Restart \/ UNCHANGED vars
           \/ PollStep \/ PollFails \/ ShowAlert \/ Click
  <2>1. cell' = cell /\ tasks' = tasks
    BY <1>2, PollMoves, ShowMoves, ClickMoves
       DEF MissingPlanogram, AnalyzeWithoutPlanogram, Restart, vars
  <2>. QED
    BY <2>1, ConsensusKept
<1>3. CASE AnalysisStep
  <2>1. cell' = cell /\ tasks # <<>> /\ (tasks' = tasks \/ tasks' = Tail(tasks))
    BY <1>3, ReadKeyMoves, ReadAlertMoves, WriteBackMoves, CreateAlertMoves, ListAlertMoves,
       IndexCellMoves DEF AnalysisStep
  <2>. QED
    BY <2>1, ConsensusKept
<1>4. ASSUME NEW t \in Thread, DecisionStep(t) PROVE ConsensusInv'
  <2>1. /\ cell' = cell /\ (t = "analysis" => tasks # <<>>)
        /\ tasks' = tasks \/ (t = "analysis" /\ tasks' = Tail(tasks))
    BY <1>4, ReadForDecisionMoves, WriteDecisionMoves, UnlistMoves, UnkeyMoves DEF DecisionStep
  <2>. QED
    BY <2>1, ConsensusKept
<1>5. CASE LookupFails
  BY <1>5, LookupFailsMoves, ConsensusKept
<1>6. ASSUME NEW t \in Thread, CommandFails(t) PROVE ConsensusInv'
  <2>1. /\ cell' = cell /\ (t = "analysis" => tasks # <<>>)
        /\ tasks' = tasks \/ (t = "analysis" /\ tasks' = Tail(tasks))
    BY <1>6, CommandFailsMoves
  <2>. QED
    BY <2>1, ConsensusKept
<1>. QED
  BY <1>1, <1>2, <1>3, <1>4, <1>5, <1>6 DEF Next, Fault

\* Only CreateAlert adds an alert, for a task that is to raise one.
LEMMA CreatedIsConfirmed ==
  ASSUME Base, ConsensusInv, [Next]_vars, Len(alert') > Len(alert)
  PROVE  Confirmed(cell[alert'[Len(alert')].cell])
<1>0. Len(alert) \in Nat
  BY IdsTyped DEF Base
<1>1. CASE CreateAlert
  <2>1. /\ tasks # <<>> /\ Head(tasks).op = "raise" /\ Len(alert') = Len(alert) + 1
        /\ alert'[Len(alert) + 1].cell = Head(tasks).cell
    BY <1>1, CreateAlertMoves
  <2>2. tasks \in Seq(Task)
    BY DEF Base, TypeInv
  <2>3. 1 \in DOMAIN tasks /\ Head(tasks) = tasks[1]
    <3>1. Len(tasks) \in Nat /\ Len(tasks) # 0 /\ DOMAIN tasks = 1..Len(tasks)
      BY <2>1, <2>2, LenProperties, EmptySeq
    <3>. QED
      BY <2>1, <2>2, <3>1
  <2>. QED
    BY <2>1, <2>3 DEF ConsensusInv
<1>2. ASSUME Len(alert') = Len(alert) PROVE FALSE
  BY <1>0, <1>2
<1>3. CASE \/ MissingPlanogram \/ AnalyzeWithoutPlanogram \/ Restart \/ UNCHANGED vars \/ Analyze
           \/ PollStep \/ PollFails \/ ShowAlert \/ Click \/ LookupFails
           \/ \E t \in Thread : CommandFails(t)
  <2>1. UNCHANGED redis
    BY <1>3, AnalyzeMoves, PollMoves, ShowMoves, ClickMoves, LookupFailsMoves, CommandFailsMoves
       DEF MissingPlanogram, AnalyzeWithoutPlanogram, Restart, vars
  <2>. QED
    BY <1>2, <2>1 DEF redis
<1>4. CASE AnalysisStep /\ ~CreateAlert
  <2>1. Len(alert') = Len(alert)
    BY <1>4, ReadKeyMoves, ReadAlertMoves, WriteBackMoves, ListAlertMoves, IndexCellMoves
       DEF AnalysisStep, redis
  <2>. QED
    BY <1>2, <2>1
<1>5. ASSUME NEW t \in Thread, DecisionStep(t) PROVE FALSE
  <2>1. Len(alert') = Len(alert)
    BY <1>5, ReadForDecisionMoves, WriteDecisionMoves, UnlistMoves, UnkeyMoves
       DEF DecisionStep, redis
  <2>. QED
    BY <1>2, <2>1
<1>. QED
  BY <1>1, <1>3, <1>4, <1>5 DEF Next, Fault

-----------------------------------------------------------------------------
(* Theorems *)

\* The threads only hold the numbers of alerts there are, the copy that a thread
\* writes back is one of the alert it is at, and the analysis is between commands
\* only while it has a task.
THEOREM ReferencesTheorem == Spec => []Base
<1>. QED
  BY InitBase, NextBase, PTL DEF Spec

\* An alert that is decided but still listed as active is on its way out of the
\* list, or a Redis command has failed (alert_repository.py: a record is written
\* before the active set; usecases/alert_generation.py).
THEOREM ListedTheorem == Spec => []ListedIsOpen
<1>1. Init => Base /\ FreshInv /\ ListedIsOpen
  BY InitBase, InitFresh, InitListed
<1>2. Base /\ FreshInv /\ ListedIsOpen /\ [Next]_vars => (Base /\ FreshInv /\ ListedIsOpen)'
  BY NextBase, NextFresh, NextListed
<1>. QED
  BY <1>1, <1>2, PTL DEF Spec

\* A cell has one open alert at most, and its key leads to it unless the analysis
\* is about to write it, as long as no write-back has undone a decision, no
\* dismissal has deleted the key of a newer alert and no command has failed.
THEOREM OneOpenTheorem == Spec => []OneOpenPerCell
<1>1. Init => Base /\ FreshInv /\ KeyInv
  BY InitBase, InitFresh, InitKey
<1>2. Base /\ FreshInv /\ KeyInv /\ [Next]_vars => (Base /\ FreshInv /\ KeyInv)'
  BY NextBase, NextFresh, NextKey
<1>3. Base /\ FreshInv /\ KeyInv => OneOpenPerCell
  BY KeyIsUnique
<1>. QED
  BY <1>1, <1>2, <1>3, PTL DEF Spec

\* Every alert that is created was confirmed by NConfirm frames that all showed
\* its cell bad in the same way; the history that testifies to it must be that
\* long (10 frames in the code, where NConfirm is 3).
THEOREM ConfirmedTheorem ==
  ASSUME MaxHistory >= NConfirm
  PROVE  Spec => AlertsAreConfirmed
<1>1. Init => Base /\ ConsensusInv
  BY InitBase, InitConsensus
<1>2. Base /\ ConsensusInv /\ [Next]_vars => (Base /\ ConsensusInv)'
  BY NextBase, ConsensusNext
<1>3. Base /\ ConsensusInv /\ [Next]_vars =>
        [Len(alert') > Len(alert) =>
           LET h == cell[alert'[Len(alert')].cell].history
           IN  /\ Len(h) >= NConfirm
               /\ \E s \in Bad : Range(LastOf(h, NConfirm)) = {s}]_vars
  BY CreatedIsConfirmed DEF Confirmed
<1>. QED
  BY <1>1, <1>2, <1>3, PTL DEF Spec, AlertsAreConfirmed
================================================================================
