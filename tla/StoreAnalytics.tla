----------------------------- MODULE StoreAnalytics -----------------------------
(***************************************************************************)
(* What the store API says about its visitors: the session metrics         *)
(* (app/metrics.py), the funnel (app/funnel.py) and the match with the     *)
(* transactions of the point of sale (app/pos.py).                         *)
(*                                                                         *)
(* Each request reads the rows of its window in order of occurrence and    *)
(* folds them into sessions.  The variables are the folds: a step is the   *)
(* next row, a state is what a request would answer whose window ends      *)
(* here, and Init is the beginning of the window, wherever in the life of  *)
(* a visitor that falls.  Ingestion accepts any rows, so rows are free.    *)
(* Visitors are the keys of _visitor_key; a re-entry names its visitor.    *)
(***************************************************************************)
EXTENDS Naturals, FiniteSets, Sequences, SequencesExt

CONSTANTS
  Key,
  ReentryWindow,   \* reentry_window_seconds
  MatchWindow,     \* match_window_minutes
  MaxTime,         \* bound on the clock
  MaxSessions,     \* bound on the funnel sessions of a visitor
  MaxSales         \* bound on the sales

Never == 1000000

ASSUME KeyAssumption == IsFiniteSet(Key)

ASSUME WindowAssumption ==
  /\ ReentryWindow \in Nat
  /\ MatchWindow \in Nat
  /\ MaxTime \in Nat /\ MaxTime < Never
  /\ MaxSessions \in Nat \ {0}
  /\ MaxSales \in Nat

VARIABLES
  now,
  visit,     \* _VisitorSession of each key in metrics.py
  funnel,    \* sessions of each key in funnel.py
  billing,   \* _billing_last_seen
  sales,     \* times of the transactions of the point of sale
  past       \* history: what the rows said about each visitor

vars == <<now, visit, funnel, billing, sales, past>>

Stages == <<"ENTRY", "ZONE_VISIT", "BILLING_QUEUE", "PURCHASE">>

\* Rows by what the folds tell apart: shelf and checkout are events of a
\* zone, dwell is a DWELL of the checkout, queue a join of the billing queue,
\* other one of another queue or a leave.
Arrivals == {"entry", "reentry"}

Kind == Arrivals \cup {"exit", "shelf", "checkout", "dwell", "queue", "other"}

-----------------------------------------------------------------------------
(* Session metrics *)

NoVisit == [known |-> FALSE, exited |-> FALSE, checkout |-> FALSE]

NewVisit == [NoVisit EXCEPT !.known = TRUE]

\* Mutant of CountVisit: an exit after the checkout is not noticed.
CountVisitOnce(v, kind) ==
  CASE kind = "entry" -> NewVisit
    [] kind = "reentry" /\ ~v.known -> NewVisit
    [] kind = "exit" /\ v.known /\ ~v.checkout -> [v EXCEPT !.exited = TRUE]
    [] kind = "checkout" /\ v.known -> [v EXCEPT !.checkout = TRUE]
    [] OTHER -> v

\* compute_session_metrics, one row.
CountVisit(v, kind) ==
  CASE kind = "entry" -> NewVisit
    [] kind = "reentry" /\ ~v.known -> NewVisit
    [] kind = "exit" /\ v.known -> [v EXCEPT !.exited = TRUE]
    [] kind = "checkout" /\ v.known -> [v EXCEPT !.checkout = TRUE]
    [] OTHER -> v

Unique == {k \in Key : visit[k].known}

VisitorsInside == {k \in Unique : ~visit[k].exited}

-----------------------------------------------------------------------------
(* Funnel sessions: the stages of the active session, empty when there is  *)
(* none; the completed sessions; and the exit that recently_exited holds,  *)
(* which belongs to the session completed last.                            *)

NoFunnel == [active |-> {}, done |-> <<>>, left |-> Never]

Priors(stage) == {Stages[i] : i \in {j \in DOMAIN Stages : \E n \in DOMAIN Stages :
                                       Stages[n] = stage /\ j < n}}

\* _mark_stage.
Mark(reached, stage) ==
  IF Priors(stage) \subseteq reached THEN reached \cup {stage} ELSE reached

CloseSession(f) == [active |-> {}, done |-> Append(f.done, f.active), left |-> now]

StartSession(f) == [f EXCEPT !.active = {"ENTRY"}]

\* Mutant of ResumeSession: the session also stays among the completed ones.
ResumeKeeping(f) ==
  [f EXCEPT !.active = Last(f.done) \cup {"ENTRY"}, !.left = Never]

\* Mutant of ResumeSession: the stages are lost.
ResumeAfresh(f) == [active |-> {"ENTRY"}, done |-> Front(f.done), left |-> Never]

\* _resume_session.
ResumeSession(f) ==
  [active |-> Last(f.done) \cup {"ENTRY"}, done |-> Front(f.done), left |-> Never]

\* _try_resume_reentry, its condition.
Resumable(f) == f.active = {} /\ f.left # Never /\ now - f.left <= ReentryWindow

Arrive(f) ==
  IF f.active # {} THEN f
  ELSE IF Resumable(f) THEN ResumeSession(f) ELSE StartSession(f)

\* Zone events go with the first stage that is missing; the checkout is also a
\* zone, and completes a session that has queued.
Reach(reached, kind) ==
  IF reached = {} THEN {} ELSE
  CASE kind = "shelf" -> Mark(reached, "ZONE_VISIT")
    [] kind \in {"checkout", "dwell"} -> Mark(Mark(reached, "ZONE_VISIT"), "PURCHASE")
    [] kind = "queue" -> Mark(reached, "BILLING_QUEUE")
    [] OTHER -> reached

\* aggregate_funnel_sessions, one row: any sighting within the window resumes
\* the visit, not only an entry.
FunnelStep(f, kind) ==
  CASE kind \in Arrivals -> Arrive(f)
    [] kind = "exit" -> IF f.active # {} THEN CloseSession(f) ELSE f
    [] OTHER -> LET g == IF Resumable(f) THEN ResumeSession(f) ELSE f
                IN  [g EXCEPT !.active = Reach(@, kind)]

SessionsOf(k) ==
  funnel[k].done \o (IF funnel[k].active # {} THEN <<funnel[k].active>> ELSE <<>>)

\* The sessions of the answer, each as its visitor and its place.
Sessions == UNION {{k} \X DOMAIN SessionsOf(k) : k \in Key}

\* Sessions of a visitor that have reached a stage.
Reached(k, stage) == Cardinality({i \in DOMAIN SessionsOf(k) : stage \in SessionsOf(k)[i]})

-----------------------------------------------------------------------------
(* Point of sale *)

AtBilling == {"checkout", "dwell", "queue"}

\* Mutant of Matches: the sale of the same instant is outside the window.
MatchesLater(seen, sale) == seen < sale /\ sale - seen <= MatchWindow

Matches(seen, sale) == seen <= sale /\ sale - seen <= MatchWindow

\* converted_visitors_from_pos: only the last sighting of a visitor counts.
Converted == {k \in Key : billing[k] # Never /\ \E sale \in sales : Matches(billing[k], sale)}

\* stage_counts of the answer: sales, if there are any, replace the purchases
\* that the sessions show.
StageCount(stage) ==
  IF stage = "PURCHASE" /\ sales # {} THEN Cardinality(Converted)
  ELSE Cardinality({s \in Sessions : stage \in SessionsOf(s[1])[s[2]]})

-----------------------------------------------------------------------------

\* History: the first exit since the last arrival, the arrivals that came more
\* than the window after it, and all sightings at the billing.
NewPast == [out |-> Never, returns |-> 0, arrived |-> FALSE, seen |-> {}]

PastStep(p, kind) ==
  [out |-> IF kind \in Arrivals THEN Never
           ELSE IF kind = "exit" /\ p.arrived /\ p.out = Never THEN now ELSE p.out,
   returns |-> IF kind \in Arrivals /\ p.out # Never /\ now - p.out > ReentryWindow
               THEN p.returns + 1 ELSE p.returns,
   arrived |-> p.arrived \/ kind \in Arrivals,
   seen |-> IF kind \in AtBilling THEN p.seen \cup {now} ELSE p.seen]

Init ==
  /\ now = 0
  /\ visit = [k \in Key |-> NoVisit]
  /\ funnel = [k \in Key |-> NoFunnel]
  /\ billing = [k \in Key |-> Never]
  /\ sales = {}
  /\ past = [k \in Key |-> NewPast]

\* The next row of a visitor who is not staff.
Row(k, kind) ==
  /\ visit' = [visit EXCEPT ![k] = CountVisit(@, kind)]
  /\ funnel' = [funnel EXCEPT ![k] = FunnelStep(@, kind)]
  /\ Len(SessionsOf(k)') <= MaxSessions
  /\ billing' = [billing EXCEPT ![k] = IF kind \in AtBilling THEN now ELSE @]
  /\ past' = [past EXCEPT ![k] = PastStep(@, kind)]
  /\ UNCHANGED <<now, sales>>

\* A transaction of the store in the CSV of the point of sale.
Sale ==
  /\ Cardinality(sales) < MaxSales
  /\ sales' = sales \cup {now}
  /\ UNCHANGED <<now, visit, funnel, billing, past>>

Tick ==
  /\ now < MaxTime
  /\ now' = now + 1
  /\ UNCHANGED <<visit, funnel, billing, sales, past>>

Next == (\E k \in Key, kind \in Kind : Row(k, kind)) \/ Sale \/ Tick

Spec == Init /\ [][Next]_vars

-----------------------------------------------------------------------------
(* Properties *)

\* Who leaves and returns within the window is one visitor in the funnel: its
\* sessions, moved between active, completed and recently exited, are at most
\* one more than its returns after a longer absence.  And without sales the funnel
\* only narrows: no stage counts more sessions than the one before.
VisitsCountedOnce ==
  /\ \A k \in Key : Len(SessionsOf(k)) <= 1 + past[k].returns
  /\ sales = {} => \A i \in 1..(Len(Stages) - 1) :
                     StageCount(Stages[i + 1]) <= StageCount(Stages[i])

\* The two answers about the same rows agree: both know the same visitors, and
\* nobody is inside the store for the metrics whose visit is over for the
\* funnel.  (The converse fails: see README.)
MetricsAgreeWithFunnel ==
  \A k \in Key :
    /\ k \in Unique <=> SessionsOf(k) # <<>>
    /\ k \in VisitorsInside => funnel[k].active # {}

\* A later row never takes back what the funnel has counted: a session that is
\* closed and resumed keeps its stages.
FunnelNeverShrinks ==
  [][\A k \in Key, i \in DOMAIN Stages : Reached(k, Stages[i])' >= Reached(k, Stages[i])]_vars

\* A visitor counts as converted if some sale follows a billing sighting within
\* the match window, unless it was seen there again after that sale; nobody else
\* does.  Both ends of the window count (pos.py:120); the comment of the code,
\* pos.py:106-108, leaves the earlier one out.
SalesMatchSightings ==
  \A k \in Key :
    LET matched == {s \in sales : \E t \in past[k].seen : t <= s /\ s - t <= MatchWindow}
    IN  /\ k \in Converted => matched # {}
        /\ \A s \in matched : k \notin Converted => \E t \in past[k].seen : t > s
===============================================================================
