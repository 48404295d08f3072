---------------------------- MODULE AnalyticsProofs ----------------------------
(***************************************************************************)
(* The analytics of a store.  Visits: the two answers about one visitor    *)
(* agree, and a conversion is a sale after a sighting, for every set of    *)
(* visitors, both windows and rows of any number in any order.  Queries:   *)
(* metrics and anomalies agree on every table, a queue is rated by its     *)
(* samples and a heatmap adds up to its samples, whatever they are.  The   *)
(* lemmas on naturals, folds, orders and sums that the queries need are    *)
(* those of AlgorithmsProofs, which is about other variables.              *)
(***************************************************************************)
EXTENDS StoreAnalytics, MCAlgorithms, FiniteSetTheorems, WellFoundedInduction, TLAPS

Stage == {"ENTRY", "ZONE_VISIT", "BILLING_QUEUE", "PURCHASE"}

Visit == [known : BOOLEAN, exited : BOOLEAN, checkout : BOOLEAN]

Funnel == [active : SUBSET Stage, done : Seq(SUBSET Stage), left : Nat]

Past == [out : Nat, returns : Nat, arrived : BOOLEAN, seen : SUBSET Nat]

TypeOK ==
  /\ now \in Nat /\ now <= MaxTime
  /\ visit \in [Key -> Visit]
  /\ funnel \in [Key -> Funnel]
  /\ billing \in [Key -> Nat]
  /\ sales \in SUBSET Nat
  /\ past \in [Key -> Past]

\* There are sessions of a visitor.
HasSession(f) == f.active # {} \/ f.done # <<>>

\* recently_exited holds an exit only while the session it ended is among the
\* completed ones: _resume_session takes both.
ExitHasSession(f) == f.left # Never => f.done # <<>>

\* A visit of the metrics and the sessions of the funnel for the same key.
SameVisit(v, f) ==
  /\ v.known <=> HasSession(f)
  /\ v.known /\ ~v.exited => f.active # {}

\* The last billing sighting is the latest one that the rows contain.
LatestSeen(b, p) ==
  /\ \A t \in p.seen : t <= now
  /\ p.seen = {} => b = Never
  /\ p.seen # {} => b \in p.seen /\ \A t \in p.seen : t <= b

IInv ==
  /\ TypeOK
  /\ \A k \in Key : /\ ExitHasSession(funnel[k])
                    /\ SameVisit(visit[k], funnel[k])
                    /\ LatestSeen(billing[k], past[k])

-----------------------------------------------------------------------------
(* One row of one visitor *)

LEMMA CountVisitTyped ==
  ASSUME NEW v \in Visit, NEW kind \in Kind
  PROVE  /\ CountVisit(v, kind) \in Visit
         /\ kind \in Arrivals => CountVisit(v, kind).known
         /\ kind \notin Arrivals => (CountVisit(v, kind).known <=> v.known)
         /\ kind \notin Arrivals /\ v.exited => CountVisit(v, kind).exited
         /\ kind = "exit" /\ v.known => CountVisit(v, kind).exited
<1>1. NewVisit \in Visit /\ NewVisit.known
  BY DEF NewVisit, NoVisit, Visit
<1>2. CASE kind = "entry" \/ (kind = "reentry" /\ ~v.known)
  <2>1. CountVisit(v, kind) = NewVisit
    BY <1>2 DEF CountVisit
  <2>. QED
    BY <1>1, <1>2, <2>1 DEF Arrivals
<1>3. CASE kind = "exit" /\ v.known
  <2>1. CountVisit(v, kind) = [v EXCEPT !.exited = TRUE]
    BY <1>3 DEF CountVisit
  <2>. QED
    BY <1>3, <2>1 DEF Arrivals, Visit
<1>4. CASE kind = "checkout" /\ v.known
  <2>1. CountVisit(v, kind) = [v EXCEPT !.checkout = TRUE]
    BY <1>4 DEF CountVisit
  <2>. QED
    BY <1>4, <2>1 DEF Arrivals, Visit
<1>5. CASE /\ kind # "entry" /\ ~(kind = "reentry" /\ ~v.known)
           /\ ~(kind = "exit" /\ v.known) /\ ~(kind = "checkout" /\ v.known)
  <2>1. CountVisit(v, kind) = v
    BY <1>5 DEF CountVisit
  <2>. QED
    BY <1>5, <2>1 DEF Arrivals
<1>. QED
  BY <1>2, <1>3, <1>4, <1>5

\* A stage is added to the stages reached, or nothing is.
LEMMA MarkGrows ==
  ASSUME NEW reached \in SUBSET Stage, NEW stage \in Stage
  PROVE  Mark(reached, stage) \in SUBSET Stage /\ reached \subseteq Mark(reached, stage)
BY DEF Mark

LEMMA ReachGrows ==
  ASSUME NEW reached \in SUBSET Stage, NEW kind \in Kind
  PROVE  Reach(reached, kind) \in SUBSET Stage /\ (Reach(reached, kind) = {} <=> reached = {})
<1>1. CASE reached = {}
  <2>1. Reach(reached, kind) = {}
    BY <1>1 DEF Reach
  <2>. QED
    BY <1>1, <2>1
<1>2. CASE reached # {} /\ kind = "shelf"
  <2>1. Reach(reached, kind) = Mark(reached, "ZONE_VISIT")
    BY <1>2 DEF Reach
  <2>. QED
    BY <1>2, <2>1, MarkGrows DEF Stage
<1>3. CASE reached # {} /\ kind \in {"checkout", "dwell"}
  <2>. DEFINE zoned == Mark(reached, "ZONE_VISIT")
  <2>1. Reach(reached, kind) = Mark(zoned, "PURCHASE")
    BY <1>3 DEF Reach
  <2>2. zoned \in SUBSET Stage /\ zoned # {}
    BY <1>3, MarkGrows DEF Stage
  <2>3. "PURCHASE" \in Stage
    BY DEF Stage
  <2>. HIDE DEF zoned
  <2>4. Mark(zoned, "PURCHASE") \in SUBSET Stage /\ zoned \subseteq Mark(zoned, "PURCHASE")
    BY <2>2, <2>3, MarkGrows
  <2>. QED
    BY <1>3, <2>1, <2>2, <2>4
<1>4. CASE reached # {} /\ kind = "queue"
  <2>1. Reach(reached, kind) = Mark(reached, "BILLING_QUEUE")
    BY <1>4 DEF Reach
  <2>. QED
    BY <1>4, <2>1, MarkGrows DEF Stage
<1>5. CASE reached # {} /\ kind \notin {"shelf", "checkout", "dwell", "queue"}
  <2>1. Reach(reached, kind) = reached
    BY <1>5 DEF Reach
  <2>. QED
    BY <2>1
<1>. QED
  BY <1>1, <1>2, <1>3, <1>4, <1>5

\* A resumed session was the last of the completed ones.
LEMMA ResumeTyped ==
  ASSUME NEW f \in Funnel, f.done # <<>>
  PROVE  /\ ResumeSession(f) \in Funnel
         /\ ResumeSession(f).active # {}
         /\ ResumeSession(f).left = Never
<1>1. Last(f.done) \in SUBSET Stage
  BY DEF Last, Funnel
<1>2. Front(f.done) \in Seq(SUBSET Stage)
  BY DEF Front, Funnel
<1>3. "ENTRY" \in Stage /\ Never \in Nat
  BY DEF Stage, Never
<1>. QED
  BY <1>1, <1>2, <1>3 DEF ResumeSession, Funnel

LEMMA ArriveTyped ==
  ASSUME NEW f \in Funnel, ExitHasSession(f)
  PROVE  /\ Arrive(f) \in Funnel
         /\ ExitHasSession(Arrive(f))
         /\ Arrive(f).active # {}
<1>1. CASE f.active # {}
  BY <1>1 DEF Arrive
<1>2. CASE f.active = {} /\ Resumable(f)
  <2>1. Arrive(f) = ResumeSession(f) /\ f.done # <<>>
    BY <1>2 DEF Arrive, Resumable, ExitHasSession
  <2>. QED
    BY <2>1, ResumeTyped DEF ExitHasSession
<1>3. CASE f.active = {} /\ ~Resumable(f)
  <2>1. Arrive(f) = [f EXCEPT !.active = {"ENTRY"}]
    BY <1>3 DEF Arrive, StartSession
  <2>. QED
    BY <2>1 DEF ExitHasSession, Funnel, Stage
<1>. QED
  BY <1>1, <1>2, <1>3

\* What a row does to the sessions of its visitor.
LEMMA FunnelStepTyped ==
  ASSUME NEW f \in Funnel, NEW kind \in Kind, ExitHasSession(f), now \in Nat
  PROVE  /\ FunnelStep(f, kind) \in Funnel
         /\ ExitHasSession(FunnelStep(f, kind))
         /\ kind \in Arrivals => FunnelStep(f, kind).active # {}
         /\ kind \notin Arrivals => (HasSession(FunnelStep(f, kind)) <=> HasSession(f))
         /\ kind \notin Arrivals \cup {"exit"} /\ f.active # {} =>
              FunnelStep(f, kind).active # {}
<1>1. CASE kind \in Arrivals
  <2>1. FunnelStep(f, kind) = Arrive(f)
    BY <1>1 DEF FunnelStep, Arrivals
  <2>. QED
    BY <1>1, <2>1, ArriveTyped
<1>2. CASE kind = "exit" /\ f.active # {}
  <2>1. FunnelStep(f, kind) = [active |-> {}, done |-> Append(f.done, f.active), left |-> now]
    BY <1>2 DEF FunnelStep, CloseSession, Arrivals
  <2>2. f.done \in Seq(SUBSET Stage) /\ f.active \in SUBSET Stage
    BY DEF Funnel
  <2>3. Append(f.done, f.active) \in Seq(SUBSET Stage) /\ Append(f.done, f.active) # <<>>
    BY <2>2
  <2>. DEFINE g == FunnelStep(f, kind)
  <2>4. g.active = {} /\ g.done # <<>> /\ g \in Funnel
    BY <2>1, <2>3 DEF Funnel
  <2>. QED
    BY <1>2, <2>4 DEF ExitHasSession, HasSession, Arrivals
<1>3. CASE kind = "exit" /\ f.active = {}
  <2>1. FunnelStep(f, kind) = f
    BY <1>3 DEF FunnelStep, Arrivals
  <2>2. kind \notin Arrivals
    BY <1>3 DEF Arrivals
  <2>. QED
    BY <1>3, <2>1, <2>2
<1>4. CASE kind \notin Arrivals \cup {"exit"}
  <2>. DEFINE g == IF Resumable(f) THEN ResumeSession(f) ELSE f
  <2>1. FunnelStep(f, kind) = [g EXCEPT !.active = Reach(@, kind)]
    BY <1>4 DEF FunnelStep
  <2>2. /\ g \in Funnel /\ ExitHasSession(g)
        /\ HasSession(g) <=> HasSession(f)
        /\ f.active # {} => g.active # {}
    BY ResumeTyped DEF Resumable, ExitHasSession, HasSession
  <2>. HIDE DEF g
  <2>3. Reach(g.active, kind) \in SUBSET Stage /\ (Reach(g.active, kind) = {} <=> g.active = {})
    BY <2>2, ReachGrows DEF Funnel
  <2>. QED
    BY <1>4, <2>1, <2>2, <2>3 DEF Funnel, ExitHasSession, HasSession
<1>. QED
  BY <1>1, <1>2, <1>3, <1>4

\* A row keeps the two answers about its visitor in agreement.
LEMMA AgreeStep ==
  ASSUME NEW v \in Visit, NEW f \in Funnel, NEW kind \in Kind, now \in Nat,
         ExitHasSession(f), SameVisit(v, f)
  PROVE  SameVisit(CountVisit(v, kind), FunnelStep(f, kind))
<1>1. CASE kind \in Arrivals
  BY <1>1, CountVisitTyped, FunnelStepTyped DEF SameVisit, HasSession
<1>2. CASE kind = "exit"
  BY <1>2, CountVisitTyped, FunnelStepTyped DEF SameVisit, Arrivals
<1>3. CASE kind \notin Arrivals \cup {"exit"}
  BY <1>3, CountVisitTyped, FunnelStepTyped DEF SameVisit
<1>. QED
  BY <1>1, <1>2, <1>3

LEMMA PastTyped ==
  ASSUME NEW p \in Past, NEW kind \in Kind, now \in Nat
  PROVE  /\ PastStep(p, kind) \in Past
         /\ PastStep(p, kind).seen = IF kind \in AtBilling THEN p.seen \cup {now} ELSE p.seen
BY DEF PastStep, Past, Never

-----------------------------------------------------------------------------
(* The invariant *)

LEMMA InitInv == Init => IInv
<1> SUFFICES ASSUME Init PROVE IInv
  OBVIOUS
<1>1. NoVisit \in Visit /\ NoFunnel \in Funnel /\ NewPast \in Past /\ Never \in Nat
  BY DEF NoVisit, Visit, NoFunnel, Funnel, NewPast, Past, Never, Stage
<1>2. TypeOK
  BY <1>1, WindowAssumption DEF Init, TypeOK
<1>3. ExitHasSession(NoFunnel) /\ SameVisit(NoVisit, NoFunnel) /\ LatestSeen(Never, NewPast)
  BY DEF ExitHasSession, NoFunnel, SameVisit, HasSession, NoVisit, LatestSeen, NewPast
<1>. QED
  BY <1>2, <1>3 DEF Init, IInv

LEMMA RowStep ==
  ASSUME IInv, NEW k \in Key, NEW kind \in Kind, Row(k, kind)
  PROVE  IInv'
<1>1. /\ visit[k] \in Visit /\ funnel[k] \in Funnel /\ past[k] \in Past
      /\ now \in Nat /\ ExitHasSession(funnel[k]) /\ SameVisit(visit[k], funnel[k])
      /\ LatestSeen(billing[k], past[k])
  BY DEF IInv, TypeOK
<1>2. /\ visit' = [visit EXCEPT ![k] = CountVisit(visit[k], kind)]
      /\ funnel' = [funnel EXCEPT ![k] = FunnelStep(funnel[k], kind)]
      /\ billing' = [billing EXCEPT ![k] = IF kind \in AtBilling THEN now ELSE billing[k]]
      /\ past' = [past EXCEPT ![k] = PastStep(past[k], kind)]
      /\ UNCHANGED <<now, sales>>
  BY DEF Row
<1>3. /\ CountVisit(visit[k], kind) \in Visit
      /\ FunnelStep(funnel[k], kind) \in Funnel
      /\ ExitHasSession(FunnelStep(funnel[k], kind))
      /\ SameVisit(CountVisit(visit[k], kind), FunnelStep(funnel[k], kind))
      /\ PastStep(past[k], kind) \in Past
  BY <1>1, CountVisitTyped, FunnelStepTyped, AgreeStep, PastTyped
<1>4. TypeOK'
  BY <1>1, <1>2, <1>3 DEF IInv, TypeOK
<1>5. /\ visit'[k] = CountVisit(visit[k], kind)
      /\ funnel'[k] = FunnelStep(funnel[k], kind)
      /\ billing'[k] = IF kind \in AtBilling THEN now ELSE billing[k]
      /\ past'[k] = PastStep(past[k], kind)
      /\ \A x \in Key : x # k => /\ visit'[x] = visit[x] /\ funnel'[x] = funnel[x]
                                 /\ billing'[x] = billing[x] /\ past'[x] = past[x]
  BY <1>2 DEF IInv, TypeOK
<1>6. LatestSeen(billing[k], past[k])'
  <2>1. \A t \in past[k].seen : t \in Nat
    BY <1>1 DEF Past
  <2>2. CASE kind \in AtBilling
    <3>1. past'[k].seen = past[k].seen \cup {now} /\ billing'[k] = now /\ now' = now
      BY <1>1, <1>2, <1>5, <2>2, PastTyped
    <3>. QED
      BY <1>1, <2>1, <3>1 DEF LatestSeen
  <2>3. CASE kind \notin AtBilling
    <3>1. past'[k].seen = past[k].seen /\ billing'[k] = billing[k] /\ now' = now
      BY <1>1, <1>2, <1>5, <2>3, PastTyped
    <3>. QED
      BY <1>1, <3>1 DEF LatestSeen
  <2>. QED
    BY <2>2, <2>3
<1>7. \A x \in Key : /\ ExitHasSession(funnel[x])' /\ SameVisit(visit[x], funnel[x])'
                     /\ LatestSeen(billing[x], past[x])'
  BY <1>2, <1>3, <1>5, <1>6 DEF IInv, LatestSeen
<1>. QED
  BY <1>4, <1>7 DEF IInv

LEMMA NextInv == IInv /\ [Next]_vars => IInv'
<1> SUFFICES ASSUME IInv, [Next]_vars PROVE IInv'
  OBVIOUS
<1>1. CASE \E k \in Key, kind \in Kind : Row(k, kind)
  BY <1>1, RowStep
<1>2. CASE Sale
  BY <1>2 DEF Sale, IInv, TypeOK, LatestSeen
<1>3. CASE Tick
  <2>1. TypeOK'
    BY <1>3, WindowAssumption DEF Tick, IInv, TypeOK
  <2>2. \A k \in Key : LatestSeen(billing[k], past[k])'
    <3> SUFFICES ASSUME NEW k \in Key PROVE LatestSeen(billing[k], past[k])'
      OBVIOUS
    <3>1. now' = now + 1 /\ now \in Nat /\ \A t \in past[k].seen : t \in Nat
      BY <1>3 DEF Tick, IInv, TypeOK, Past
    <3>2. LatestSeen(billing[k], past[k]) /\ billing' = billing /\ past' = past
      BY <1>3 DEF Tick, IInv
    <3>. QED
      BY <3>1, <3>2 DEF LatestSeen
  <2>3. \A k \in Key : ExitHasSession(funnel[k])' /\ SameVisit(visit[k], funnel[k])'
    BY <1>3 DEF Tick, IInv
  <2>. QED
    BY <2>1, <2>2, <2>3 DEF IInv
<1>4. CASE UNCHANGED vars
  BY <1>4 DEF vars, IInv, TypeOK, LatestSeen
<1>. QED
  BY <1>1, <1>2, <1>3, <1>4 DEF Next

-----------------------------------------------------------------------------
(* The theorems. *)

\* The invariant holds of every prefix of every sequence of rows and sales.
THEOREM Invariance == Spec => []IInv
BY InitInv, NextInv, PTL DEF Spec

\* The metrics and the funnel know the same visitors, and whoever is inside for
\* the metrics has an active session in the funnel (metrics.py, funnel.py).
THEOREM AnswersAgree == Spec => []MetricsAgreeWithFunnel
<1>1. IInv => MetricsAgreeWithFunnel
  <2> SUFFICES ASSUME IInv, NEW k \in Key
               PROVE  /\ k \in Unique <=> SessionsOf(k) # <<>>
                      /\ k \in VisitorsInside => funnel[k].active # {}
    BY DEF MetricsAgreeWithFunnel
  <2>1. funnel[k] \in Funnel /\ SameVisit(visit[k], funnel[k])
    BY DEF IInv, TypeOK
  <2>2. SessionsOf(k) # <<>> <=> HasSession(funnel[k])
    <3>1. funnel[k].done \in Seq(SUBSET Stage) /\ funnel[k].active \in SUBSET Stage
      BY <2>1 DEF Funnel
    <3>2. CASE funnel[k].active = {}
      <4>1. SessionsOf(k) = funnel[k].done
        BY <3>1, <3>2 DEF SessionsOf
      <4>. QED
        BY <3>2, <4>1 DEF HasSession
    <3>3. CASE funnel[k].active # {}
      <4>1. SessionsOf(k) = funnel[k].done \o <<funnel[k].active>>
        BY <3>3 DEF SessionsOf
      <4>2. Len(SessionsOf(k)) = Len(funnel[k].done) + 1
        BY <3>1, <4>1
      <4>. QED
        BY <3>1, <3>3, <4>2 DEF HasSession
    <3>. QED
      BY <3>2, <3>3
  <2>. QED
    BY <2>1, <2>2 DEF SameVisit, Unique, VisitorsInside
<1>. QED
  BY <1>1, Invariance, PTL

\* A conversion of the point of sale is a sale within the window after a
\* sighting at the billing, and a sale that has one counts unless the visitor
\* was seen there again after it (pos.py: only the last sighting is kept).
THEOREM SalesAreMatched == Spec => []SalesMatchSightings
<1>1. IInv => SalesMatchSightings
  <2> SUFFICES ASSUME IInv, NEW k \in Key
               PROVE  LET matched == {s \in sales : \E t \in past[k].seen :
                                        t <= s /\ s - t <= MatchWindow}
                      IN  /\ k \in Converted => matched # {}
                          /\ \A s \in matched : k \notin Converted =>
                               \E t \in past[k].seen : t > s
    BY DEF SalesMatchSightings
  <2>. DEFINE b == billing[k]
              seen == past[k].seen
  <2>1. /\ b \in Nat /\ seen \in SUBSET Nat /\ sales \in SUBSET Nat
        /\ now \in Nat /\ now < Never
        /\ \A t \in seen : t <= now
        /\ seen = {} => b = Never
        /\ seen # {} => b \in seen /\ \A t \in seen : t <= b
    BY WindowAssumption DEF IInv, TypeOK, Past, LatestSeen, Never
  <2>2. MatchWindow \in Nat
    BY WindowAssumption
  <2>3. k \in Converted <=> b # Never /\ \E s \in sales : b <= s /\ s - b <= MatchWindow
    BY DEF Converted, Matches
  <2>4. k \in Converted => b \in seen
    BY <2>1, <2>3
  <2>5. ASSUME NEW s \in sales, NEW t \in seen, t <= s, s - t <= MatchWindow, k \notin Converted
        PROVE  b \in seen /\ b > s
    <3>1. b \in seen /\ t <= b /\ b <= now /\ b # Never
      BY <2>1
    <3>2. ~(b <= s /\ s - b <= MatchWindow)
      BY <2>3, <2>5, <3>1
    <3>. QED
      BY <2>1, <2>2, <2>5, <3>1, <3>2
  <2>. QED
    BY <2>3, <2>4, <2>5
<1>. QED
  BY <1>1, Invariance, PTL

-----------------------------------------------------------------------------
(* Sessions are counted once, and the funnel narrows *)

Size(f) == Len(f.done) + (IF f.active # {} THEN 1 ELSE 0)

\* The sessions of a visitor against its history: with no session active, the
\* last one was closed at an exit that is not before the first exit since the
\* last arrival, so whoever is too late for the one is too late for the other.
SessionsCounted(f, p) ==
  /\ HasSession(f) => p.arrived
  /\ f.active = {} /\ f.done # <<>> => f.left # Never /\ p.out # Never /\ p.out <= f.left
  /\ f.left # Never => f.left <= now
  /\ p.out # Never => p.out <= now
  /\ Size(f) <= 1 + p.returns

\* No stage is reached without the ones before it.
Ordered(reached) == \A stage \in reached : Priors(stage) \subseteq reached

InOrder(f) == Ordered(f.active) /\ \A i \in DOMAIN f.done : Ordered(f.done[i])

CountInv == \A k \in Key : SessionsCounted(funnel[k], past[k]) /\ InOrder(funnel[k])

LEMMA StageOrder ==
  /\ Priors("ENTRY") = {}
  /\ Priors("ZONE_VISIT") = {"ENTRY"}
  /\ Priors("BILLING_QUEUE") = {"ENTRY", "ZONE_VISIT"}
  /\ Priors("PURCHASE") = {"ENTRY", "ZONE_VISIT", "BILLING_QUEUE"}
<1>1. /\ DOMAIN Stages = 1..4
      /\ Stages[1] = "ENTRY" /\ Stages[2] = "ZONE_VISIT"
      /\ Stages[3] = "BILLING_QUEUE" /\ Stages[4] = "PURCHASE"
  BY DEF Stages
<1>2. \A n \in 1..4 : \A stage : Stages[n] = stage => Priors(stage) = {Stages[i] : i \in 1..(n - 1)}
  <2> SUFFICES ASSUME NEW n \in 1..4 PROVE Priors(Stages[n]) = {Stages[i] : i \in 1..(n - 1)}
    OBVIOUS
  <2>1. \A m \in 1..4 : Stages[m] = Stages[n] => m = n
    BY <1>1
  <2>2. \A j \in 1..4 : (\E m \in 1..4 : Stages[m] = Stages[n] /\ j < m) <=> j \in 1..(n - 1)
    BY <2>1
  <2>. QED
    BY <1>1, <2>2 DEF Priors
<1>. QED
  BY <1>1, <1>2

\* Marking keeps the order, because it asks for the stages before.
LEMMA MarkOrdered ==
  ASSUME NEW reached \in SUBSET Stage, NEW stage \in Stage, Ordered(reached)
  PROVE  Ordered(Mark(reached, stage))
BY DEF Mark, Ordered

LEMMA ReachOrdered ==
  ASSUME NEW reached \in SUBSET Stage, NEW kind \in Kind, Ordered(reached)
  PROVE  Ordered(Reach(reached, kind))
<1>1. CASE reached = {}
  BY <1>1 DEF Reach
<1>2. CASE reached # {} /\ kind = "shelf"
  BY <1>2, MarkOrdered DEF Reach, Stage
<1>3. CASE reached # {} /\ kind \in {"checkout", "dwell"}
  <2>. DEFINE zoned == Mark(reached, "ZONE_VISIT")
  <2>1. Reach(reached, kind) = Mark(zoned, "PURCHASE")
    BY <1>3 DEF Reach
  <2>2. {"ZONE_VISIT", "PURCHASE"} \subseteq Stage
    BY DEF Stage
  <2>3. zoned \in SUBSET Stage /\ Ordered(zoned)
    BY <2>2, MarkGrows, MarkOrdered
  <2>. HIDE DEF zoned
  <2>. QED
    BY <2>1, <2>2, <2>3, MarkOrdered
<1>4. CASE reached # {} /\ kind = "queue"
  BY <1>4, MarkOrdered DEF Reach, Stage
<1>5. CASE reached # {} /\ kind \notin {"shelf", "checkout", "dwell", "queue"}
  BY <1>5 DEF Reach
<1>. QED
  BY <1>1, <1>2, <1>3, <1>4, <1>5

\* A row takes nothing back from what has been reached.
LEMMA ReachKeeps ==
  ASSUME NEW reached \in SUBSET Stage, NEW kind \in Kind
  PROVE  reached \subseteq Reach(reached, kind)
<1>1. CASE kind \in {"checkout", "dwell"} /\ reached # {}
  <2>. DEFINE zoned == Mark(reached, "ZONE_VISIT")
  <2>1. Reach(reached, kind) = Mark(zoned, "PURCHASE")
    BY <1>1 DEF Reach
  <2>2. {"ZONE_VISIT", "PURCHASE"} \subseteq Stage
    BY DEF Stage
  <2>3. zoned \in SUBSET Stage /\ reached \subseteq zoned
    BY <2>2, MarkGrows
  <2>. HIDE DEF zoned
  <2>. QED
    BY <2>1, <2>2, <2>3, MarkGrows
<1>2. CASE ~(kind \in {"checkout", "dwell"} /\ reached # {})
  BY <1>2 DEF Reach, Mark
<1>. QED
  BY <1>1, <1>2

AllOf(f) == f.done \o (IF f.active # {} THEN <<f.active>> ELSE <<>>)

\* The sessions of g continue those of f.
Extends(f, g) ==
  /\ Size(f) <= Size(g)
  /\ \A i \in 1..Size(f) : AllOf(f)[i] \subseteq AllOf(g)[i]

LEMMA Sessions1 ==
  ASSUME NEW f \in Funnel
  PROVE  /\ AllOf(f) \in Seq(SUBSET Stage)
         /\ Len(AllOf(f)) = Size(f) /\ Size(f) \in Nat
         /\ DOMAIN AllOf(f) = 1..Size(f)
         /\ \A i \in 1..Len(f.done) : AllOf(f)[i] = f.done[i]
         /\ f.active # {} => AllOf(f)[Len(f.done) + 1] = f.active
<1>1. f.done \in Seq(SUBSET Stage) /\ f.active \in SUBSET Stage
  BY DEF Funnel
<1>2. CASE f.active = {}
  BY <1>1, <1>2 DEF AllOf, Size
<1>3. CASE f.active # {}
  <2>1. AllOf(f) = f.done \o <<f.active>> /\ Size(f) = Len(f.done) + 1
    BY <1>3 DEF AllOf, Size
  <2>2. <<f.active>> \in Seq(SUBSET Stage) /\ Len(<<f.active>>) = 1 /\ <<f.active>>[1] = f.active
    BY <1>1
  <2>3. Len(f.done) \in Nat
    BY <1>1
  <2>. QED
    BY <1>1, <1>3, <2>1, <2>2, <2>3
<1>. QED
  BY <1>2, <1>3

\* The session that is resumed comes last, as it did, and keeps its stages.
LEMMA ResumeContinues ==
  ASSUME NEW f \in Funnel, f.done # <<>>, f.active = {}, InOrder(f)
  PROVE  /\ Size(ResumeSession(f)) = Size(f)
         /\ Extends(f, ResumeSession(f))
         /\ InOrder(ResumeSession(f))
<1>. DEFINE g == ResumeSession(f)
            n == Len(f.done)
<1>1. /\ f.done \in Seq(SUBSET Stage) /\ n \in Nat \ {0}
      /\ g.active = f.done[n] \cup {"ENTRY"}
      /\ g.done = SubSeq(f.done, 1, n - 1)
  BY DEF Funnel, ResumeSession, Last, Front
<1>2. Len(g.done) = n - 1 /\ \A i \in 1..(n - 1) : g.done[i] = f.done[i]
  BY <1>1
<1>3. Size(g) = n /\ Size(f) = n /\ g.active # {}
  <2>1. g.active # {}
    BY <1>1
  <2>2. Size(g) = Len(g.done) + 1
    BY <2>1 DEF Size
  <2>3. Size(f) = n
    BY <1>1 DEF Size
  <2>. QED
    BY <1>1, <1>2, <2>1, <2>2, <2>3
<1>4. g \in Funnel
  BY ResumeTyped
<1>. HIDE DEF g
<1>5. Extends(f, g)
  <2>1. \A i \in 1..n : AllOf(f)[i] = f.done[i]
    BY Sessions1
  <2>2. \A i \in 1..(n - 1) : AllOf(g)[i] = f.done[i]
    BY <1>2, <1>4, Sessions1
  <2>3. AllOf(g)[n] = g.active
    <3>1. AllOf(g)[Len(g.done) + 1] = g.active
      BY <1>3, <1>4, Sessions1
    <3>2. Len(g.done) + 1 = n
      BY <1>1, <1>2
    <3>. QED
      BY <3>1, <3>2
  <2>4. \A i \in 1..n : i \in 1..(n - 1) \/ i = n
    BY <1>1
  <2>. QED
    BY <1>1, <1>3, <2>1, <2>2, <2>3, <2>4 DEF Extends
<1>6. InOrder(g)
  <2>1. Ordered(f.done[n])
    BY <1>1 DEF InOrder
  <2>2. Ordered(g.active)
    BY <1>1, <2>1, StageOrder DEF Ordered
  <2>3. \A i \in DOMAIN g.done : Ordered(g.done[i])
    <3>1. g.done \in Seq(SUBSET Stage)
      BY <1>4 DEF Funnel
    <3>. QED
      BY <1>1, <1>2, <3>1 DEF InOrder
  <2>. QED
    BY <2>2, <2>3 DEF InOrder
<1>. QED
  BY <1>3, <1>5, <1>6 DEF g

\* A stage is reached in the active session, if there is one.
LEMMA ReachContinues ==
  ASSUME NEW f \in Funnel, NEW kind \in Kind, InOrder(f), NEW g,
         g = [f EXCEPT !.active = Reach(@, kind)]
  PROVE  /\ Size(g) = Size(f)
         /\ Extends(f, g)
         /\ InOrder(g)
         /\ g \in Funnel
         /\ g.active = {} <=> f.active = {}
<1>1. /\ g.active = Reach(f.active, kind) /\ g.done = f.done
      /\ f.active \in SUBSET Stage /\ f.done \in Seq(SUBSET Stage)
  BY DEF Funnel
<1>2. /\ g.active \in SUBSET Stage /\ f.active \subseteq g.active
      /\ g.active = {} <=> f.active = {}
  BY <1>1, ReachGrows, ReachKeeps, SMTT(30)
<1>3. g \in Funnel
  BY <1>1, <1>2 DEF Funnel
<1>4. Size(g) = Size(f)
  BY <1>1, <1>2 DEF Size
<1>5. Extends(f, g)
  <2>1. \A i \in 1..Len(f.done) : AllOf(f)[i] = AllOf(g)[i]
    BY <1>1, <1>3, Sessions1, ZenonT(40)
  <2>2. CASE f.active = {}
    <3>1. Size(f) = Len(f.done)
      BY <1>1, <2>2 DEF Size
    <3>. QED
      BY <1>4, <2>1, <3>1, Sessions1 DEF Extends
  <2>3. CASE f.active # {}
    <3>1. Size(f) = Len(f.done) + 1 /\ Len(f.done) \in Nat
      BY <1>1, <2>3 DEF Size
    <3>2. AllOf(f)[Len(f.done) + 1] \subseteq AllOf(g)[Len(f.done) + 1]
      BY <1>1, <1>2, <1>3, <2>3, Sessions1
    <3>3. \A i \in 1..Size(f) : i \in 1..Len(f.done) \/ i = Len(f.done) + 1
      BY <3>1
    <3>. QED
      BY <1>4, <2>1, <3>1, <3>2, <3>3 DEF Extends
  <2>. QED
    BY <2>2, <2>3
<1>6. InOrder(g)
  BY <1>1, ReachOrdered DEF InOrder
<1>. QED
  BY <1>2, <1>3, <1>4, <1>5, <1>6

LEMMA PastFacts ==
  ASSUME NEW p \in Past, NEW kind \in Kind, now \in Nat
  PROVE  LET q == PastStep(p, kind)
             late == p.out # Never /\ now - p.out > ReentryWindow
         IN  /\ kind \in Arrivals =>
                  /\ q.out = Never /\ q.arrived
                  /\ q.returns = IF late THEN p.returns + 1 ELSE p.returns
             /\ kind \notin Arrivals => q.arrived = p.arrived /\ q.returns = p.returns
             /\ kind = "exit" => q.out = IF p.arrived /\ p.out = Never THEN now ELSE p.out
             /\ kind \notin Arrivals \cup {"exit"} => q.out = p.out
             /\ p.returns \in Nat /\ q.returns \in Nat
<1>1. p.arrived \in BOOLEAN /\ p.returns \in Nat
  BY DEF Past
<1>. DEFINE q == PastStep(p, kind)
<1>2. /\ q.out = IF kind \in Arrivals THEN Never
                 ELSE IF kind = "exit" /\ p.arrived /\ p.out = Never THEN now ELSE p.out
      /\ q.returns = IF kind \in Arrivals /\ p.out # Never /\ now - p.out > ReentryWindow
                     THEN p.returns + 1 ELSE p.returns
  BY DEF PastStep
<1>3. /\ kind \in Arrivals => q.arrived
      /\ kind \notin Arrivals => q.arrived = p.arrived
  <2>1. q.arrived = (p.arrived \/ kind \in Arrivals)
    BY DEF PastStep
  <2>. HIDE DEF q
  <2>. QED
    BY <1>1, <2>1
<1>4. kind = "exit" => kind \notin Arrivals
  BY DEF Arrivals
<1>. HIDE DEF q
<1>. QED
  BY <1>1, <1>2, <1>3, <1>4 DEF q

LEMMA ArriveCounts ==
  ASSUME NEW f \in Funnel, NEW p \in Past, NEW kind \in Arrivals, now \in Nat, now < Never,
         ExitHasSession(f), SessionsCounted(f, p), InOrder(f)
  PROVE  /\ SessionsCounted(Arrive(f), PastStep(p, kind))
         /\ InOrder(Arrive(f))
         /\ Extends(f, Arrive(f))
<1>. DEFINE q == PastStep(p, kind)
<1>1. /\ q.out = Never /\ q.arrived /\ q.returns \in Nat /\ p.returns \in Nat
      /\ q.returns = IF p.out # Never /\ now - p.out > ReentryWindow
                     THEN p.returns + 1 ELSE p.returns
  BY PastFacts DEF Kind
<1>2. Size(f) \in Nat /\ Size(f) <= 1 + q.returns
  BY <1>1, Sessions1 DEF SessionsCounted
<1>. HIDE DEF q
<1>3. CASE f.active # {}
  <2>1. Arrive(f) = f
    BY <1>3 DEF Arrive
  <2>. QED
    BY <1>1, <1>2, <1>3, <2>1 DEF SessionsCounted, Extends, q
<1>4. CASE f.active = {} /\ Resumable(f)
  <2>. DEFINE g == ResumeSession(f)
  <2>1. Arrive(f) = g /\ f.done # <<>>
    BY <1>4 DEF Arrive, Resumable, ExitHasSession
  <2>2. g.active # {} /\ g.left = Never /\ Size(g) = Size(f) /\ Extends(f, g) /\ InOrder(g)
    BY <1>4, <2>1, ResumeTyped, ResumeContinues
  <2>. HIDE DEF g
  <2>3. SessionsCounted(g, q)
    BY <1>1, <1>2, <2>2 DEF SessionsCounted
  <2>. QED
    BY <2>1, <2>2, <2>3 DEF q
<1>5. CASE f.active = {} /\ ~Resumable(f)
  <2>. DEFINE g == [f EXCEPT !.active = {"ENTRY"}]
  <2>1. Arrive(f) = g
    BY <1>5 DEF Arrive, StartSession
  <2>2. /\ g.active = {"ENTRY"} /\ g.done = f.done /\ g.left = f.left
        /\ f.done \in Seq(SUBSET Stage) /\ g \in Funnel
    BY DEF Funnel, Stage
  <2>. HIDE DEF g
  <2>3. Size(f) = Len(f.done) /\ Size(g) = Len(f.done) + 1 /\ Len(f.done) \in Nat
    BY <1>5, <2>2 DEF Size
  <2>4. Extends(f, g)
    BY <2>2, <2>3, Sessions1 DEF Extends
  <2>5. InOrder(g)
    <3>1. Ordered({"ENTRY"})
      BY StageOrder DEF Ordered
    <3>. QED
      BY <2>2, <3>1 DEF InOrder
  <2>6. Size(g) <= 1 + q.returns
    <3>1. CASE f.done = <<>>
      BY <1>1, <2>3, <3>1
    <3>2. CASE f.done # <<>>
      <4>1. f.left # Never /\ p.out # Never /\ p.out <= f.left
        BY <1>5, <3>2 DEF SessionsCounted
      <4>2. now - f.left > ReentryWindow /\ f.left \in Nat /\ p.out \in Nat
        BY <1>5, <4>1, WindowAssumption DEF Resumable, Funnel, Past
      <4>3. q.returns = p.returns + 1
        BY <1>1, <4>1, <4>2, WindowAssumption
      <4>4. Size(f) <= 1 + p.returns
        BY DEF SessionsCounted
      <4>. QED
        BY <1>1, <2>3, <4>3, <4>4
    <3>. QED
      BY <3>1, <3>2
  <2>7. SessionsCounted(g, q)
    BY <1>1, <2>2, <2>6 DEF SessionsCounted
  <2>. QED
    BY <2>1, <2>4, <2>5, <2>7 DEF q
<1>. QED
  BY <1>3, <1>4, <1>5

\* Closing moves the active session to the end of the completed ones.
LEMMA ExitCounts ==
  ASSUME NEW f \in Funnel, NEW p \in Past, now \in Nat, now < Never,
         SessionsCounted(f, p), InOrder(f)
  PROVE  /\ SessionsCounted(FunnelStep(f, "exit"), PastStep(p, "exit"))
         /\ InOrder(FunnelStep(f, "exit"))
         /\ Extends(f, FunnelStep(f, "exit"))
<1>. DEFINE q == PastStep(p, "exit")
            g == [active |-> {}, done |-> Append(f.done, f.active), left |-> now]
<1>1. /\ q.arrived = p.arrived /\ q.returns = p.returns
      /\ q.out = IF p.arrived /\ p.out = Never THEN now ELSE p.out
  BY PastFacts DEF Kind, Arrivals
<1>2. /\ HasSession(f) => p.arrived
      /\ f.active = {} /\ f.done # <<>> => f.left # Never /\ p.out # Never /\ p.out <= f.left
      /\ f.left # Never => f.left <= now
      /\ p.out # Never => p.out <= now
      /\ Size(f) <= 1 + p.returns
  BY DEF SessionsCounted
<1>3. q.out # Never => q.out <= now
  BY <1>1, <1>2
<1>. HIDE DEF q, g
<1>4. CASE f.active = {}
  <2>1. FunnelStep(f, "exit") = f
    BY <1>4 DEF FunnelStep, Arrivals
  <2>2. SessionsCounted(f, q)
    BY <1>1, <1>2, <1>3 DEF SessionsCounted
  <2>3. Extends(f, f)
    BY Sessions1 DEF Extends
  <2>. QED
    BY <2>1, <2>2, <2>3 DEF q
<1>5. CASE f.active # {}
  <2>1. FunnelStep(f, "exit") = g
    BY <1>5 DEF FunnelStep, CloseSession, Arrivals, g
  <2>2. /\ f.done \in Seq(SUBSET Stage) /\ f.active \in SUBSET Stage
        /\ Len(f.done) \in Nat
    BY DEF Funnel
  <2>3. g.active = {} /\ g.done = Append(f.done, f.active) /\ g.left = now
    BY DEF g
  <2>4. /\ g.done \in Seq(SUBSET Stage) /\ Len(g.done) = Len(f.done) + 1
        /\ \A i \in 1..Len(f.done) : g.done[i] = f.done[i]
        /\ g.done[Len(f.done) + 1] = f.active
    BY <2>2, <2>3
  <2>5. g \in Funnel
    BY <2>4 DEF Funnel, g
  <2>6. Size(g) = Len(f.done) + 1 /\ Size(f) = Len(f.done) + 1
    BY <1>5, <2>3, <2>4 DEF Size
  <2>7. \A i \in 1..(Len(f.done) + 1) : i \in 1..Len(f.done) \/ i = Len(f.done) + 1
    BY <2>2
  <2>8. Extends(f, g)
    <3>1. \A i \in 1..(Len(f.done) + 1) : AllOf(f)[i] = g.done[i]
      BY <1>5, <2>4, <2>7, Sessions1
    <3>2. \A i \in 1..(Len(f.done) + 1) : AllOf(g)[i] = g.done[i]
      BY <2>4, <2>5, Sessions1
    <3>. QED
      BY <2>2, <2>6, <3>1, <3>2 DEF Extends
  <2>9. InOrder(g)
    <3>1. Ordered({})
      BY DEF Ordered
    <3>2. \A i \in 1..(Len(f.done) + 1) : Ordered(g.done[i])
      BY <2>2, <2>4, <2>7, SMTT(30) DEF InOrder
    <3>. QED
      BY <2>2, <2>3, <2>4, <3>1, <3>2 DEF InOrder
  <2>10. SessionsCounted(g, q)
    <3>1. p.arrived
      BY <1>2, <1>5 DEF HasSession
    <3>2. q.arrived /\ q.out # Never /\ q.out <= now
      BY <1>1, <1>2, <3>1
    <3>. QED
      BY <1>1, <1>2, <2>2, <2>3, <2>6, <3>2 DEF SessionsCounted
  <2>. QED
    BY <2>1, <2>8, <2>9, <2>10 DEF q
<1>. QED
  BY <1>4, <1>5

\* Any other row resumes at most, and reaches at most a stage.
LEMMA OtherCounts ==
  ASSUME NEW f \in Funnel, NEW p \in Past, NEW kind \in Kind, kind \notin Arrivals \cup {"exit"},
         now \in Nat, now < Never, ExitHasSession(f), SessionsCounted(f, p), InOrder(f)
  PROVE  /\ SessionsCounted(FunnelStep(f, kind), PastStep(p, kind))
         /\ InOrder(FunnelStep(f, kind))
         /\ Extends(f, FunnelStep(f, kind))
<1>. DEFINE q == PastStep(p, kind)
            h == IF Resumable(f) THEN ResumeSession(f) ELSE f
            g == FunnelStep(f, kind)
<1>1. q.arrived = p.arrived /\ q.returns = p.returns /\ q.out = p.out
  BY PastFacts
<1>2. g = [h EXCEPT !.active = Reach(@, kind)]
  BY DEF FunnelStep
<1>3. /\ h \in Funnel /\ Size(h) = Size(f) /\ Extends(f, h) /\ InOrder(h)
      /\ SessionsCounted(h, p)
  <2>1. CASE Resumable(f)
    <3>1. f.active = {} /\ f.done # <<>> /\ h = ResumeSession(f)
      BY <2>1 DEF Resumable, ExitHasSession
    <3>2. h \in Funnel /\ h.active # {} /\ h.left = Never
      BY <3>1, ResumeTyped
    <3>3. Size(h) = Size(f) /\ Extends(f, h) /\ InOrder(h)
      BY <3>1, ResumeContinues
    <3>. HIDE DEF h
    <3>4. SessionsCounted(h, p)
      BY <3>1, <3>2, <3>3 DEF SessionsCounted, HasSession
    <3>. QED
      BY <3>2, <3>3, <3>4
  <2>2. CASE ~Resumable(f)
    <3>1. h = f
      BY <2>2
    <3>. QED
      BY <3>1, Sessions1 DEF Extends
  <2>. QED
    BY <2>1, <2>2
<1>. HIDE DEF h, g, q
<1>4. /\ Size(g) = Size(h) /\ Extends(h, g) /\ InOrder(g) /\ g \in Funnel
      /\ g.active = {} <=> h.active = {}
  BY <1>2, <1>3, ReachContinues
<1>5. g.done = h.done /\ g.left = h.left
  BY <1>2, <1>3 DEF Funnel
<1>6. SessionsCounted(g, q)
  BY <1>1, <1>3, <1>4, <1>5 DEF SessionsCounted, HasSession
<1>7. Extends(f, g)
  BY <1>3, <1>4 DEF Extends
<1>. QED
  BY <1>4, <1>6, <1>7 DEF g, q

LEMMA RowCounts ==
  ASSUME NEW f \in Funnel, NEW p \in Past, NEW kind \in Kind,
         now \in Nat, now < Never, ExitHasSession(f), SessionsCounted(f, p), InOrder(f)
  PROVE  /\ SessionsCounted(FunnelStep(f, kind), PastStep(p, kind))
         /\ InOrder(FunnelStep(f, kind))
         /\ Extends(f, FunnelStep(f, kind))
<1>1. CASE kind \in Arrivals
  <2>1. FunnelStep(f, kind) = Arrive(f)
    BY <1>1 DEF FunnelStep, Arrivals
  <2>. QED
    BY <1>1, <2>1, ArriveCounts
<1>2. CASE kind = "exit"
  BY <1>2, ExitCounts
<1>3. CASE kind \notin Arrivals \cup {"exit"}
  BY <1>3, OtherCounts
<1>. QED
  BY <1>1, <1>2, <1>3

-----------------------------------------------------------------------------
(* The second invariant *)

LEMMA InitCounts == Init => CountInv
<1>1. SessionsCounted(NoFunnel, NewPast)
  BY DEF SessionsCounted, NoFunnel, NewPast, HasSession, Size
<1>2. InOrder(NoFunnel)
  BY DEF InOrder, NoFunnel, Ordered
<1>. QED
  BY <1>1, <1>2 DEF Init, CountInv

LEMMA RowOfVisitor ==
  ASSUME IInv, CountInv, NEW k \in Key, NEW kind \in Kind, Row(k, kind)
  PROVE  /\ CountInv'
         /\ \A x \in Key : Extends(funnel[x], funnel'[x])
<1>1. /\ funnel[k] \in Funnel /\ past[k] \in Past /\ now \in Nat /\ now < Never
      /\ ExitHasSession(funnel[k]) /\ SessionsCounted(funnel[k], past[k]) /\ InOrder(funnel[k])
  BY WindowAssumption DEF IInv, TypeOK, CountInv, Never
<1>2. /\ funnel'[k] = FunnelStep(funnel[k], kind) /\ past'[k] = PastStep(past[k], kind)
      /\ \A x \in Key : x # k => funnel'[x] = funnel[x] /\ past'[x] = past[x]
      /\ now' = now
  BY DEF Row, IInv, TypeOK
<1>3. /\ SessionsCounted(funnel'[k], past'[k]) /\ InOrder(funnel'[k])
      /\ Extends(funnel[k], funnel'[k])
  BY <1>1, <1>2, RowCounts
<1>4. \A x \in Key : SessionsCounted(funnel'[x], past'[x]) /\ InOrder(funnel'[x])
  BY <1>2, <1>3 DEF CountInv
<1>5. CountInv'
  BY <1>2, <1>4 DEF CountInv, SessionsCounted
<1>6. ASSUME NEW x \in Key, x # k PROVE Extends(funnel[x], funnel'[x])
  <2>1. funnel'[x] = funnel[x] /\ funnel[x] \in Funnel
    BY <1>2, <1>6 DEF IInv, TypeOK
  <2>. QED
    BY <2>1, Sessions1 DEF Extends
<1>. QED
  BY <1>3, <1>5, <1>6

LEMMA StepCounts ==
  ASSUME IInv, CountInv, [Next]_vars
  PROVE  /\ CountInv'
         /\ \A x \in Key : Extends(funnel[x], funnel'[x])
<1>1. ASSUME NEW k \in Key, NEW kind \in Kind, Row(k, kind)
      PROVE  CountInv' /\ \A x \in Key : Extends(funnel[x], funnel'[x])
  BY <1>1, RowOfVisitor
<1>2. CASE Sale \/ Tick \/ UNCHANGED vars
  <2>1. funnel' = funnel /\ past' = past /\ now' \in Nat /\ now \in Nat /\ now <= now'
    BY <1>2 DEF Sale, Tick, vars, IInv, TypeOK
  <2>2. \A x \in Key : Extends(funnel[x], funnel'[x])
    BY <2>1, Sessions1 DEF Extends, IInv, TypeOK
  <2>3. ASSUME NEW x \in Key PROVE SessionsCounted(funnel[x], past[x])' /\ InOrder(funnel[x])'
    <3>1. /\ SessionsCounted(funnel[x], past[x]) /\ InOrder(funnel[x])
          /\ funnel[x].left \in Nat /\ past[x].out \in Nat
      BY DEF CountInv, IInv, TypeOK, Funnel, Past
    <3>. QED
      BY <2>1, <3>1 DEF SessionsCounted, InOrder
  <2>. QED
    BY <2>2, <2>3 DEF CountInv
<1>. QED
  BY <1>1, <1>2 DEF Next

\* Both invariants of the folds hold of every prefix of every sequence of rows.
THEOREM CountInvariance == Spec => [](IInv /\ CountInv)
<1>1. Init => IInv /\ CountInv
  BY InitInv, InitCounts
<1>2. IInv /\ CountInv /\ [Next]_vars => (IInv /\ CountInv)'
  BY NextInv, StepCounts
<1>. QED
  BY <1>1, <1>2, PTL DEF Spec

-----------------------------------------------------------------------------
(* What the counts of the answer say *)

LEMMA AllOrdered ==
  ASSUME NEW f \in Funnel, InOrder(f), NEW i \in 1..Size(f)
  PROVE  Ordered(AllOf(f)[i])
<1>1. Len(f.done) \in Nat /\ DOMAIN f.done = 1..Len(f.done)
  BY DEF Funnel
<1>2. CASE i \in 1..Len(f.done)
  BY <1>1, <1>2, Sessions1 DEF InOrder
<1>3. CASE i \notin 1..Len(f.done)
  <2>1. f.active # {}
    <3>1. f.active = {} => Size(f) = Len(f.done) + 0
      BY DEF Size
    <3>2. f.active = {} => Size(f) = Len(f.done)
      BY <1>1, <3>1
    <3>. QED
      BY <1>3, <3>2
  <2>2. Size(f) = Len(f.done) + 1
    BY <2>1 DEF Size
  <2>3. i = Len(f.done) + 1
    BY <1>1, <1>3, <2>2
  <2>. QED
    BY <2>1, <2>3, Sessions1 DEF InOrder
<1>. QED
  BY <1>2, <1>3

LEMMA SessionsFinite ==
  ASSUME IInv
  PROVE  IsFiniteSet(Sessions)
<1>. DEFINE part == [k \in Key |-> {k} \X DOMAIN SessionsOf(k)]
            parts == {part[k] : k \in Key}
<1>1. \A k \in Key : IsFiniteSet(part[k])
  <2> SUFFICES ASSUME NEW k \in Key PROVE IsFiniteSet({k} \X DOMAIN SessionsOf(k))
    OBVIOUS
  <2>1. funnel[k] \in Funnel /\ SessionsOf(k) = AllOf(funnel[k])
    BY DEF IInv, TypeOK, SessionsOf, AllOf
  <2>2. DOMAIN SessionsOf(k) = 1..Size(funnel[k]) /\ Size(funnel[k]) \in Nat
    BY <2>1, Sessions1
  <2>3. IsFiniteSet(DOMAIN SessionsOf(k))
    <3>1. Size(funnel[k]) \in Int /\ 1 \in Int
      BY <2>2
    <3>. QED
      BY <2>2, <3>1, FS_Interval
  <2>4. IsFiniteSet({k})
    BY FS_Singleton
  <2>. QED
    BY <2>3, <2>4, FS_Product
<1>2. IsFiniteSet(parts)
  <2>1. part \in Surjection(Key, parts)
    BY DEF Surjection
  <2>. QED
    BY <2>1, KeyAssumption, FS_Surjection
<1>3. Sessions = UNION parts
  BY DEF Sessions
<1>. QED
  BY <1>1, <1>2, <1>3, FS_UNION

\* Absences are counted, not sightings: the sessions of a visitor are at most
\* one more than the returns after a longer absence, and without sales each
\* stage of the funnel is reached by no more sessions than the one before
\* (aggregate_funnel_sessions).
THEOREM VisitsAreCounted == Spec => []VisitsCountedOnce
<1>1. IInv /\ CountInv => VisitsCountedOnce
  <2> SUFFICES ASSUME IInv, CountInv PROVE VisitsCountedOnce
    OBVIOUS
  <2>1. \A k \in Key : SessionsOf(k) = AllOf(funnel[k]) /\ funnel[k] \in Funnel
    BY DEF IInv, TypeOK, SessionsOf, AllOf
  <2>2. \A k \in Key : Len(SessionsOf(k)) <= 1 + past[k].returns
    BY <2>1, Sessions1 DEF CountInv, SessionsCounted
  <2>3. ASSUME sales = {}, NEW i \in 1..(Len(Stages) - 1)
        PROVE  StageCount(Stages[i + 1]) <= StageCount(Stages[i])
    <3>. DEFINE At(stage) == {s \in Sessions : stage \in SessionsOf(s[1])[s[2]]}
    <3>1. i \in 1..3 /\ Stages[i] \in Priors(Stages[i + 1])
      <4>1. i \in {1, 2, 3}
        BY DEF Stages
      <4>. QED
        BY <4>1, StageOrder DEF Stages
    <3>2. At(Stages[i + 1]) \subseteq At(Stages[i])
      <4> SUFFICES ASSUME NEW s \in Sessions, Stages[i + 1] \in SessionsOf(s[1])[s[2]]
                   PROVE  Stages[i] \in SessionsOf(s[1])[s[2]]
        OBVIOUS
      <4>1. PICK k \in Key : s \in {k} \X DOMAIN SessionsOf(k)
        BY DEF Sessions
      <4>2. s[1] = k /\ s[2] \in DOMAIN SessionsOf(k)
        BY <4>1
      <4>3. Ordered(SessionsOf(k)[s[2]])
        BY <2>1, <4>2, Sessions1, AllOrdered DEF CountInv
      <4>. QED
        BY <3>1, <4>2, <4>3 DEF Ordered
    <3>3. IsFiniteSet(At(Stages[i]))
      BY SessionsFinite, FS_Subset
    <3>4. Cardinality(At(Stages[i + 1])) <= Cardinality(At(Stages[i]))
      BY <3>2, <3>3, FS_Subset
    <3>5. \A stage : StageCount(stage) = Cardinality(At(stage))
      BY <2>3 DEF StageCount
    <3>. QED
      BY <3>4, <3>5
  <2>. QED
    BY <2>2, <2>3 DEF VisitsCountedOnce
<1>. QED
  BY <1>1, CountInvariance, PTL

\* No row takes back what the funnel has counted: sessions are closed and
\* resumed with the stages they have.
THEOREM FunnelOnlyGrows == Spec => FunnelNeverShrinks
<1>1. IInv /\ CountInv /\ [Next]_vars =>
        [\A k \in Key, i \in DOMAIN Stages : Reached(k, Stages[i])' >= Reached(k, Stages[i])]_vars
  <2> SUFFICES ASSUME IInv, CountInv, [Next]_vars, NEW k \in Key, NEW i \in DOMAIN Stages
               PROVE  Reached(k, Stages[i])' >= Reached(k, Stages[i])
    OBVIOUS
  <2>. DEFINE At(f) == {n \in 1..Size(f) : Stages[i] \in AllOf(f)[n]}
  <2>1. IInv'
    BY NextInv
  <2>2. /\ funnel[k] \in Funnel /\ SessionsOf(k) = AllOf(funnel[k])
        /\ funnel'[k] \in Funnel /\ SessionsOf(k)' = AllOf(funnel'[k])
    BY <2>1 DEF IInv, TypeOK, SessionsOf, AllOf
  <2>3. /\ Reached(k, Stages[i]) = Cardinality(At(funnel[k]))
        /\ Reached(k, Stages[i])' = Cardinality(At(funnel'[k]))
    BY <2>2, Sessions1 DEF Reached
  <2>4. Size(funnel[k]) \in Nat /\ Size(funnel'[k]) \in Nat
    BY <2>2, Sessions1
  <2>5. IsFiniteSet(At(funnel'[k])) /\ At(funnel[k]) \subseteq At(funnel'[k])
    <3>1. Extends(funnel[k], funnel'[k])
      BY StepCounts
    <3>2. IsFiniteSet(1..Size(funnel'[k]))
      BY <2>4, FS_Interval
    <3>. QED
      BY <2>4, <3>1, <3>2, FS_Subset DEF Extends
  <2>6. /\ Cardinality(At(funnel[k])) <= Cardinality(At(funnel'[k]))
        /\ Cardinality(At(funnel[k])) \in Nat /\ Cardinality(At(funnel'[k])) \in Nat
    BY <2>5, FS_Subset, FS_CardinalityType
  <2>. QED
    BY <2>3, <2>6
<1>. QED
  BY <1>1, CountInvariance, PTL DEF Spec, FunnelNeverShrinks

-----------------------------------------------------------------------------
(* Natural numbers, in the first-order form that the provers can use *)

\* A set of natural numbers has a least element, which Min chooses.
LEMMA LeastMember ==
  ASSUME NEW S \in SUBSET Nat, S # {}
  PROVE  Min(S) \in S /\ \A m \in S : Min(S) <= m
<1>. DEFINE R == {ss \in Nat \X Nat : ss[1] < ss[2]}
<1>1. IsWellFoundedOn(R, Nat)
  BY NatLessThanWellFounded DEF OpToRel
<1>2. \A m, n \in Nat : m < n => <<m, n>> \in R
  OBVIOUS
<1>3. PICK n \in S : \A m \in S : ~(<<m, n>> \in R)
  <2>. HIDE DEF R
  <2>. QED
    BY <1>1, WFMin
<1>4. ASSUME NEW m \in S PROVE n <= m
  <2>. HIDE DEF R
  <2>1. ~(m < n)
    BY <1>2, <1>3
  <2>. QED
    BY <2>1
<1>. QED
  BY <1>4 DEF Min

\* Induction up to n.
LEMMA UpTo ==
  ASSUME NEW n \in Nat, NEW S, 0 \in S, \A k \in 1..n : k - 1 \in S => k \in S
  PROVE  0..n \subseteq S
<1>. DEFINE missing == (0..n) \ S
<1>. SUFFICES ASSUME missing # {} PROVE FALSE
  OBVIOUS
<1>. DEFINE k == Min(missing)
<1>1. k \in missing /\ \A m \in missing : k <= m
  <2>1. missing \in SUBSET Nat
    OBVIOUS
  <2>. HIDE DEF missing
  <2>. QED
    BY <2>1, LeastMember
<1>. HIDE DEF k
<1>2. k \in 1..n /\ k - 1 \in 0..n
  BY <1>1
<1>3. k - 1 \notin missing
  BY <1>1, <1>2
<1>. QED
  BY <1>1, <1>2, <1>3

\* A bounded set of natural numbers has a greatest element, which Max chooses.
LEMMA GreatestMember ==
  ASSUME NEW n \in Nat, NEW S \in SUBSET (0..n), S # {}
  PROVE  Max(S) \in S /\ \A m \in S : m <= Max(S)
<1>. DEFINE below == {n - m : m \in S}
<1>1. below \in SUBSET Nat /\ below # {}
  <2>1. \A m \in S : n - m \in Nat
    OBVIOUS
  <2>. QED
    BY <2>1
<1>2. PICK b \in below : \A d \in below : b <= d
  <2>. HIDE DEF below
  <2>. QED
    BY <1>1, LeastMember
<1>3. PICK x \in S : b = n - x
  BY <1>2
<1>4. ASSUME NEW m \in S PROVE x >= m
  <2>1. n - m \in below
    OBVIOUS
  <2>2. n - x <= n - m
    <3>. HIDE DEF below
    <3>. QED
      BY <1>2, <1>3, <2>1
  <2>3. x \in 0..n /\ m \in 0..n
    OBVIOUS
  <2>. QED
    BY <2>2, <2>3
<1>5. \A y \in S : Max(S) >= y
  BY <1>4 DEF Max
<1>6. Max(S) \in S
  BY <1>4 DEF Max
<1>. QED
  BY <1>5, <1>6

LEMMA GreatestIs ==
  ASSUME NEW n \in Nat, NEW S \in SUBSET (0..n), NEW x \in S, \A m \in S : m <= x
  PROVE  Max(S) = x
<1>1. Max(S) \in S /\ \A m \in S : m <= Max(S)
  BY GreatestMember
<1>2. Max(S) \in 0..n /\ x \in 0..n
  BY <1>1
<1>3. x <= Max(S) /\ Max(S) <= x
  BY <1>1
<1>. QED
  BY <1>2, <1>3

-----------------------------------------------------------------------------
(* Folds *)

\* The fold of the steps 1 to n, as FoldLeft computes it: on every set of steps,
\* the greatest last.
Folds(it, base, n, step) ==
  \A s \in SUBSET (1..n) : it[s] = IF s = {} THEN base ELSE step[Max(s)][it[s \ {Max(s)}]]

\* Folding is possible over any set of accumulators.
LEMMA FoldExists ==
  ASSUME NEW A, NEW base \in A, NEW n \in Nat, NEW step \in [1..n -> [A -> A]]
  PROVE  \E it \in [SUBSET (1..n) -> A] : Folds(it, base, n, step)
<1>. DEFINE Partial(f, k) ==
              /\ f \in [SUBSET (1..k) -> A]
              /\ Folds(f, base, k, step)
            possible == {k \in 0..n : \E f : Partial(f, k)}
<1>1. 0 \in possible
  <2>1. SUBSET (1..0) = {{}}
    OBVIOUS
  <2>2. Partial([s \in SUBSET (1..0) |-> base], 0)
    BY <2>1 DEF Folds
  <2>. HIDE DEF Partial
  <2>. QED
    BY <2>2
<1>2. ASSUME NEW k \in 1..n, k - 1 \in possible PROVE k \in possible
  <2>1. PICK f : Partial(f, k - 1)
    BY <1>2
  <2>. DEFINE g == [s \in SUBSET (1..k) |-> IF k \in s THEN step[k][f[s \ {k}]] ELSE f[s]]
  <2>2. \A s \in SUBSET (1..k) : s \ {k} \in SUBSET (1..(k - 1))
    OBVIOUS
  <2>3. \A s \in SUBSET (1..k) : k \notin s => s \in SUBSET (1..(k - 1))
    OBVIOUS
  <2>4. g \in [SUBSET (1..k) -> A]
    <3>1. \A a \in A : step[k][a] \in A
      OBVIOUS
    <3>2. \A s \in SUBSET (1..(k - 1)) : f[s] \in A
      BY <2>1
    <3>. QED
      BY <2>2, <2>3, <3>1, <3>2
  <2>5. ASSUME NEW s \in SUBSET (1..k), k \in s
        PROVE  g[s] = IF s = {} THEN base ELSE step[Max(s)][g[s \ {Max(s)}]]
    <3>1. Max(s) = k
      <4>1. k \in Nat /\ s \in SUBSET (0..k) /\ \A m \in s : m <= k
        OBVIOUS
      <4>. QED
        BY <2>5, <4>1, GreatestIs
    <3>2. g[s \ {k}] = f[s \ {k}]
      BY <2>2
    <3>3. g[s] = step[k][f[s \ {k}]]
      BY <2>5
    <3>. QED
      BY <2>5, <3>1, <3>2, <3>3
  <2>6. ASSUME NEW s \in SUBSET (1..k), k \notin s
        PROVE  g[s] = IF s = {} THEN base ELSE step[Max(s)][g[s \ {Max(s)}]]
    <3>1. g[s] = f[s] /\ s \in SUBSET (1..(k - 1))
      BY <2>3, <2>6
    <3>2. k \notin s \ {Max(s)} /\ s \ {Max(s)} \in SUBSET (1..k)
      BY <2>6
    <3>3. g[s \ {Max(s)}] = f[s \ {Max(s)}]
      BY <3>2
    <3>4. f[s] = IF s = {} THEN base ELSE step[Max(s)][f[s \ {Max(s)}]]
      BY <2>1, <3>1 DEF Folds
    <3>. QED
      BY <3>1, <3>3, <3>4
  <2>7. Partial(g, k)
    BY <2>4, <2>5, <2>6 DEF Folds
  <2>. HIDE DEF Partial
  <2>. QED
    BY <2>7
<1>3. 0..n \subseteq possible
  <2>. HIDE DEF possible
  <2>. QED
    BY <1>1, <1>2, UpTo
<1>4. \E f : Partial(f, n)
  <2>1. n \in 0..n
    OBVIOUS
  <2>. HIDE DEF Partial
  <2>. QED
    BY <1>3, <2>1
<1>5. PICK f : Partial(f, n)
  BY <1>4
<1>. QED
  BY <1>5

\* The fold reaches its values one by one.
LEMMA Initial ==
  ASSUME NEW n \in Nat, NEW i \in 1..n
  PROVE  1..i # {} /\ Max(1..i) = i /\ (1..i) \ {i} = 1..(i - 1)
<1>1. i \in Nat /\ 1..i \in SUBSET (0..i) /\ i \in 1..i /\ \A m \in 1..i : m <= i
  OBVIOUS
<1>2. Max(1..i) = i
  BY <1>1, GreatestIs
<1>. QED
  BY <1>2

-----------------------------------------------------------------------------
(* Sorting by rank *)

StrictOrder(S, R) ==
  /\ \A x \in S : <<x, x>> \notin R
  /\ \A x, y \in S : x # y => <<x, y>> \in R \/ <<y, x>> \in R
  /\ \A x, y, z \in S : <<x, y>> \in R /\ <<y, z>> \in R => <<x, z>> \in R

Below(S, R, x) == {y \in S : <<y, x>> \in R}

\* The elements of S in their order, each at its rank.
Lists(S, R, nth) ==
  /\ \A i \in 1..Cardinality(S) : nth[i] \in S
  /\ \A x \in S : \E i \in 1..Cardinality(S) : nth[i] = x
  /\ \A i, j \in 1..Cardinality(S) : i < j => <<nth[i], nth[j]>> \in R

LEMMA RankGrows ==
  ASSUME NEW S, IsFiniteSet(S), NEW R, StrictOrder(S, R), NEW x \in S, NEW y \in S, <<x, y>> \in R
  PROVE  Cardinality(Below(S, R, x)) < Cardinality(Below(S, R, y))
<1>. DEFINE A == Below(S, R, x)
            B == Below(S, R, y)
<1>1. A \in SUBSET B /\ x \in B /\ x \notin A
  BY DEF StrictOrder, Below
<1>2. IsFiniteSet(B)
  BY FS_Subset DEF Below
<1>. HIDE DEF A, B
<1>3. Cardinality(A) <= Cardinality(B) /\ Cardinality(A) # Cardinality(B) /\ IsFiniteSet(A)
  BY <1>1, <1>2, FS_Subset
<1>4. Cardinality(A) \in Nat /\ Cardinality(B) \in Nat
  BY <1>2, <1>3, FS_CardinalityType
<1>. QED
  BY <1>3, <1>4 DEF A, B

LEMMA ListedByRank ==
  ASSUME NEW S, IsFiniteSet(S), NEW R, StrictOrder(S, R),
         NEW nth, \A i \in 1..Cardinality(S) : nth[i] = CHOOSE x \in S : Cardinality(Below(S, R, x)) = i - 1
  PROVE  Lists(S, R, nth)
<1>. DEFINE n == Cardinality(S)
            rank == [x \in S |-> Cardinality(Below(S, R, x)) + 1]
<1>1. n \in Nat /\ IsFiniteSet(1..n) /\ Cardinality(1..n) = n
  <2>1. n \in Nat
    BY FS_CardinalityType
  <2>2. IsFiniteSet(1..n) /\ Cardinality(1..n) = IF 1 > n THEN 0 ELSE (n - 1) + 1
    BY <2>1, FS_Interval
  <2>. HIDE DEF n
  <2>. QED
    BY <2>1, <2>2
<1>2. ASSUME NEW x \in S PROVE Cardinality(Below(S, R, x)) \in Nat /\ rank[x] \in 1..n
  <2>. DEFINE B == Below(S, R, x)
  <2>1. B \in SUBSET S /\ x \notin B
    BY DEF StrictOrder, Below
  <2>. HIDE DEF B
  <2>2. IsFiniteSet(B) /\ Cardinality(B) <= n /\ Cardinality(B) # n
    BY <2>1, FS_Subset
  <2>3. Cardinality(B) \in Nat
    BY <2>2, FS_CardinalityType
  <2>4. rank[x] = Cardinality(B) + 1
    BY DEF B
  <2>. HIDE DEF rank, n
  <2>. QED
    BY <1>1, <2>2, <2>3, <2>4 DEF B
<1>3. ASSUME NEW x \in S, NEW y \in S, <<x, y>> \in R PROVE rank[x] < rank[y]
  BY <1>2, <1>3, RankGrows
<1>4. rank \in [S -> 1..n] /\ \A x, y \in S : rank[x] = rank[y] => x = y
  <2>1. rank \in [S -> 1..n]
    BY <1>2
  <2>2. ASSUME NEW x \in S, NEW y \in S, x # y PROVE rank[x] # rank[y]
    <3>1. <<x, y>> \in R \/ <<y, x>> \in R
      BY <2>2 DEF StrictOrder
    <3>2. rank[x] \in 1..n /\ rank[y] \in 1..n
      BY <1>2
    <3>3. rank[x] < rank[y] \/ rank[y] < rank[x]
      BY <1>3, <3>1
    <3>. HIDE DEF rank, n
    <3>. QED
      BY <3>2, <3>3
  <2>. QED
    BY <2>1, <2>2
<1>5. rank \in Surjection(S, 1..n)
  <2>. HIDE DEF rank, n
  <2>1. DOMAIN rank = S
    BY <1>4
  <2>2. rank \in Injection(S, 1..n)
    BY <1>4, <2>1 DEF Injection, IsInjective
  <2>. QED
    BY <1>1, <2>2, FS_Injection DEF n
<1>6. ASSUME NEW i \in 1..n PROVE nth[i] \in S /\ rank[nth[i]] = i
  <2>1. PICK x \in S : rank[x] = i
    BY <1>5 DEF Surjection
  <2>2. Cardinality(Below(S, R, x)) = i - 1
    BY <1>2, <2>1
  <2>3. nth[i] \in S /\ Cardinality(Below(S, R, nth[i])) = i - 1
    BY <2>2
  <2>. QED
    BY <2>3
<1>7. ASSUME NEW x \in S PROVE \E i \in 1..n : nth[i] = x
  <2>1. rank[x] \in 1..n
    BY <1>2
  <2>2. nth[rank[x]] \in S /\ rank[nth[rank[x]]] = rank[x]
    BY <1>6, <2>1
  <2>3. nth[rank[x]] = x
    BY <1>4, <2>2
  <2>. QED
    BY <2>1, <2>3
<1>8. ASSUME NEW i \in 1..n, NEW j \in 1..n, i < j PROVE <<nth[i], nth[j]>> \in R
  <2>1. nth[i] \in S /\ nth[j] \in S /\ rank[nth[i]] = i /\ rank[nth[j]] = j
    BY <1>6
  <2>. HIDE DEF rank
  <2>2. ~(<<nth[j], nth[i]>> \in R)
    BY <1>3, <1>8, <2>1
  <2>3. nth[i] # nth[j]
    BY <1>8, <2>1
  <2>. QED
    BY <2>1, <2>2, <2>3 DEF StrictOrder
<1>. QED
  BY <1>6, <1>7, <1>8 DEF Lists

-----------------------------------------------------------------------------
(* The queries of the read side *)

\* Rows of a table have a time and a key.
Sheet(rows) ==
  /\ IsFiniteSet(rows)
  /\ \A r \in rows : r.at \in Int /\ r.id \in Int
  /\ \A r, s \in rows : r.id = s.id => r = s

EarlierIn(known) == {p \in known \X known : Earlier(p[1], p[2])}

\* d is the last depth of every queue among the first k samples.
Currents(samples, k, from, d) ==
  /\ DOMAIN d = {samples[i].queue : i \in {j \in 1..k : samples[j].at >= from}}
  /\ \A i \in 1..k :
       /\ samples[i].at >= from
       /\ \A j \in (i + 1)..k : samples[j].at >= from => samples[j].queue # samples[i].queue
       => d[samples[i].queue] = samples[i].depth

LEMMA CurrentDepthsAre ==
  ASSUME NEW n \in Nat, NEW samples, DOMAIN samples = 1..n, NEW from
  PROVE  Currents(samples, n, from, CurrentDepths(samples, from))
<1>. DEFINE Q == {samples[i].queue : i \in 1..n}
            V == {samples[i].depth : i \in 1..n}
            A == UNION {[D -> V] : D \in SUBSET Q}
            After(d, s) == IF s.at >= from THEN Noted(d, s) ELSE d
            Rec(it) == it = [s \in SUBSET (DOMAIN samples) |->
                               IF s = {} THEN <<>> ELSE After(it[s \ {Max(s)}], samples[Max(s)])]
            fold == CHOOSE it : Rec(it)
            step == [i \in 1..n |-> [d \in A |-> After(d, samples[i])]]
            f == [i \in 0..n |-> fold[1..i]]
            told == {i \in 0..n : Currents(samples, i, from, f[i])}
<1>1. CurrentDepths(samples, from) = fold[DOMAIN samples]
  BY DEF CurrentDepths, FoldLeft, MapThenFoldSet
<1>2. <<>> \in A
  <2>1. <<>> \in [{} -> V] /\ {} \in SUBSET Q
    OBVIOUS
  <2>. QED
    BY <2>1
<1>3. ASSUME NEW d \in A, NEW i \in 1..n PROVE After(d, samples[i]) \in A
  <2>1. PICK D \in SUBSET Q : d \in [D -> V]
    OBVIOUS
  <2>2. samples[i].queue \in Q /\ samples[i].depth \in V
    OBVIOUS
  <2>. DEFINE q == samples[i].queue
              depth == samples[i].depth
  <2>3. Noted(d, samples[i]) = [x \in DOMAIN d \cup {q} |-> IF x = q THEN depth ELSE d[x]]
    BY DEF Noted
  <2>. HIDE DEF q, depth, Q, V
  <2>4. Noted(d, samples[i]) \in [D \cup {q} -> V]
    BY <2>1, <2>2, <2>3 DEF q, depth
  <2>5. D \cup {q} \in SUBSET Q
    BY <2>2 DEF q
  <2>. QED
    BY <2>4, <2>5
<1>. HIDE DEF A, After
<1>4. Rec(fold)
  <2>1. step \in [1..n -> [A -> A]]
    BY <1>3
  <2>. HIDE DEF step
  <2>2. PICK it \in [SUBSET (1..n) -> A] : Folds(it, <<>>, n, step)
    BY <1>2, <2>1, FoldExists
  <2>3. ASSUME NEW s \in SUBSET (1..n), s # {}
        PROVE  step[Max(s)][it[s \ {Max(s)}]] = After(it[s \ {Max(s)}], samples[Max(s)])
    <3>1. Max(s) \in 1..n
      <4>1. s \in SUBSET (0..n)
        OBVIOUS
      <4>. QED
        BY <2>3, <4>1, GreatestMember
    <3>2. it[s \ {Max(s)}] \in A
      OBVIOUS
    <3>. QED
      BY <3>1, <3>2 DEF step
  <2>4. Rec(it)
    BY <2>2, <2>3 DEF Folds
  <2>. HIDE DEF Rec
  <2>. QED
    BY <2>4
<1>. HIDE DEF fold
<1>5. 0 \in told
  <2>1. 1..0 = {} /\ {} \in SUBSET (DOMAIN samples) /\ 0 \in 0..n
    OBVIOUS
  <2>2. f[0] = <<>>
    BY <1>4, <2>1
  <2>3. DOMAIN <<>> = {}
    OBVIOUS
  <2>. HIDE DEF f
  <2>4. Currents(samples, 0, from, f[0])
    BY <2>1, <2>2, <2>3 DEF Currents
  <2>. QED
    BY <2>1, <2>4
<1>6. ASSUME NEW k \in 1..n, k - 1 \in told PROVE k \in told
  <2>. DEFINE s == samples[k]
              d == f[k - 1]
              e == f[k]
  <2>1. 1..k \in SUBSET (DOMAIN samples) /\ k \in 0..n /\ k - 1 \in 0..n
    OBVIOUS
  <2>2. 1..k # {} /\ Max(1..k) = k /\ (1..k) \ {k} = 1..(k - 1)
    BY Initial
  <2>3. e = After(d, s)
    <3>1. fold[1..k] = After(fold[(1..k) \ {Max(1..k)}], samples[Max(1..k)])
      BY <1>4, <2>1, <2>2
    <3>. QED
      BY <2>1, <2>2, <3>1
  <2>4. Currents(samples, k - 1, from, d)
    BY <1>6
  <2>. HIDE DEF f, e, d, told
  <2>5. /\ \A i : i \in 1..k <=> i \in 1..(k - 1) \/ i = k
        /\ \A i \in 1..(k - 1) : \A j : j \in (i + 1)..k <=> j \in (i + 1)..(k - 1) \/ j = k
    OBVIOUS
  <2>6. CASE s.at >= from
    <3>1. e = [q \in DOMAIN d \cup {s.queue} |-> IF q = s.queue THEN s.depth ELSE d[q]]
      BY <2>3, <2>6 DEF After, Noted
    <3>2. DOMAIN e = {samples[i].queue : i \in {j \in 1..k : samples[j].at >= from}}
      BY <2>4, <2>5, <2>6, <3>1 DEF Currents
    <3>3. ASSUME NEW i \in 1..k, samples[i].at >= from,
                 \A j \in (i + 1)..k : samples[j].at >= from => samples[j].queue # samples[i].queue
          PROVE  e[samples[i].queue] = samples[i].depth
      <4>1. CASE i = k
        BY <3>1, <4>1
      <4>2. CASE i \in 1..(k - 1)
        <5>1. samples[i].queue # s.queue
          BY <2>5, <2>6, <3>3, <4>2
        <5>2. \A j \in (i + 1)..(k - 1) : samples[j].at >= from => samples[j].queue # samples[i].queue
          BY <2>5, <3>3, <4>2
        <5>3. d[samples[i].queue] = samples[i].depth
          BY <2>4, <3>3, <4>2, <5>2 DEF Currents
        <5>4. samples[i].queue \in DOMAIN d
          BY <2>4, <3>3, <4>2 DEF Currents
        <5>. QED
          BY <3>1, <5>1, <5>3, <5>4
      <4>. QED
        BY <2>5, <4>1, <4>2
    <3>4. Currents(samples, k, from, e)
      BY <3>2, <3>3 DEF Currents
    <3>. QED
      BY <2>1, <3>4 DEF told, e
  <2>7. CASE ~(s.at >= from)
    <3>1. e = d
      BY <2>3, <2>7 DEF After
    <3>2. DOMAIN e = {samples[i].queue : i \in {j \in 1..k : samples[j].at >= from}}
      <4>1. {j \in 1..k : samples[j].at >= from} = {j \in 1..(k - 1) : samples[j].at >= from}
        BY <2>5, <2>7
      <4>. QED
        BY <2>4, <3>1, <4>1 DEF Currents
    <3>3. ASSUME NEW i \in 1..k, samples[i].at >= from,
                 \A j \in (i + 1)..k : samples[j].at >= from => samples[j].queue # samples[i].queue
          PROVE  e[samples[i].queue] = samples[i].depth
      <4>1. i \in 1..(k - 1)
        BY <2>5, <2>7, <3>3
      <4>2. \A j \in (i + 1)..(k - 1) : samples[j].at >= from => samples[j].queue # samples[i].queue
        BY <2>5, <3>3, <4>1
      <4>. QED
        BY <2>4, <3>1, <3>3, <4>1, <4>2 DEF Currents
    <3>4. Currents(samples, k, from, e)
      BY <3>2, <3>3 DEF Currents
    <3>. QED
      BY <2>1, <3>4 DEF told, e
  <2>. QED
    BY <2>6, <2>7
<1>7. 0..n \subseteq told
  <2>. HIDE DEF told
  <2>. QED
    BY <1>5, <1>6, UpTo
<1>8. n \in told /\ n \in 0..n
  BY <1>7
<1>. QED
  BY <1>1, <1>8

\* The samples of a window are its depth rows in their order.
LEMMA DepthSamplesAre ==
  ASSUME NEW rows, Sheet(rows), NEW from \in Int, NEW to \in Int
  PROVE  LET known == DepthRows(Within(rows, from, to))
         IN  \E nth : /\ Lists(known, EarlierIn(known), nth)
                      /\ DepthSamples(rows, from, to) = [i \in 1..Cardinality(known) |-> Reading(nth[i])]
                      /\ Cardinality(known) \in Nat
<1>. DEFINE known == DepthRows(Within(rows, from, to))
            R == EarlierIn(known)
            nth == [i \in 1..Cardinality(known) |-> CHOOSE r \in known : Cardinality(Below(known, R, r)) = i - 1]
<1>1. known \in SUBSET rows
  BY DEF DepthRows, OfVisitors, Within
<1>2. IsFiniteSet(known) /\ Cardinality(known) \in Nat
  BY <1>1, FS_Subset, FS_CardinalityType DEF Sheet
<1>3. \A r \in known : {s \in known : Earlier(s, r)} = Below(known, R, r)
  BY DEF Below, EarlierIn
<1>4. DepthSamples(rows, from, to) = [i \in 1..Cardinality(known) |-> Reading(nth[i])]
  <2>1. \A i : (CHOOSE r \in known : Cardinality({s \in known : Earlier(s, r)}) = i - 1)
             = (CHOOSE r \in known : Cardinality(Below(known, R, r)) = i - 1)
    BY <1>3
  <2>2. DepthSamples(rows, from, to) =
          [i \in 1..Cardinality(known) |->
             Reading(CHOOSE r \in known : Cardinality({s \in known : Earlier(s, r)}) = i - 1)]
    BY DEF DepthSamples
  <2>. HIDE DEF known, R
  <2>. QED
    BY <2>1, <2>2
<1>. HIDE DEF known, R
<1>5. StrictOrder(known, R)
  <2>1. \A r \in known : r.at \in Int /\ r.id \in Int
    BY <1>1 DEF Sheet
  <2>2. \A r, s \in known : r.id = s.id => r = s
    BY <1>1 DEF Sheet
  <2>3. \A r, s \in known : <<r, s>> \in R <=> Earlier(r, s)
    BY DEF R, EarlierIn
  <2>4. \A r \in known : ~Earlier(r, r)
    BY <2>1 DEF Earlier
  <2>5. \A r, s \in known : r # s => Earlier(r, s) \/ Earlier(s, r)
    BY <2>1, <2>2 DEF Earlier
  <2>6. \A r, s, u \in known : Earlier(r, s) /\ Earlier(s, u) => Earlier(r, u)
    BY <2>1 DEF Earlier
  <2>. QED
    BY <2>3, <2>4, <2>5, <2>6 DEF StrictOrder
<1>6. Lists(known, R, nth)
  <2>1. \A i \in 1..Cardinality(known) : nth[i] = CHOOSE r \in known : Cardinality(Below(known, R, r)) = i - 1
    OBVIOUS
  <2>. HIDE DEF nth
  <2>. QED
    BY <1>2, <1>5, <2>1, ListedByRank
<1>. QED
  BY <1>2, <1>4, <1>6 DEF known, R

\* The newest depth of a queue, if it is current and the only one, is the depth
\* the queue has now.
LEMMA NewestIsCurrent ==
  ASSUME NEW rows, Sheet(rows), NEW from \in Int, NEW current \in Int, NEW until \in Int, from <= current,
         NEW m \in LatestDepths(rows, until), m.at >= current,
         \A o \in LatestDepths(rows, until) : o.queue = m.queue => o = m
  PROVE  LET depths == CurrentDepths(DepthSamples(rows, from, until), current)
         IN  m.queue \in DOMAIN depths /\ depths[m.queue] = m.depth
<1>. DEFINE known == DepthRows(Within(rows, from, until))
            R == EarlierIn(known)
            n == Cardinality(known)
            samples == DepthSamples(rows, from, until)
            depths == CurrentDepths(samples, current)
            all == {r \in DepthRows(rows) : r.at <= until}
            newest == {s \in all : \A u \in all : u.queue = s.queue => u.at <= s.at}
<1>1. PICK nth : Lists(known, R, nth) /\ samples = [i \in 1..n |-> Reading(nth[i])] /\ n \in Nat
  BY DepthSamplesAre
<1>2. PICK r \in newest : m = Reading(r)
  BY DEF LatestDepths
<1>3. /\ \A s \in all : s.at \in Int
      /\ r \in all /\ r.at >= current
      /\ m.queue = r.queue /\ m.depth = DepthOf(r)
      /\ \A s \in newest : Reading(s) \in LatestDepths(rows, until)
  BY <1>2 DEF Sheet, DepthRows, OfVisitors, Reading, LatestDepths
<1>4. known \subseteq all /\ \A s \in all : s.at >= current => s \in known
  BY <1>3 DEF DepthRows, OfVisitors, Within, Sheet
<1>5. DOMAIN samples = 1..n /\ \A i \in 1..n : samples[i] = Reading(nth[i])
  BY <1>1
<1>6. \A i \in 1..n : /\ nth[i] \in known /\ nth[i] \in all /\ nth[i].at \in Int
                      /\ samples[i].queue = nth[i].queue /\ samples[i].at = nth[i].at
                      /\ samples[i].depth = DepthOf(nth[i])
  <2>. SUFFICES ASSUME NEW i \in 1..n
                PROVE  /\ nth[i] \in known /\ nth[i] \in all /\ nth[i].at \in Int
                       /\ samples[i].queue = nth[i].queue /\ samples[i].at = nth[i].at
                       /\ samples[i].depth = DepthOf(nth[i])
    OBVIOUS
  <2>1. nth[i] \in known
    BY <1>1 DEF Lists
  <2>2. samples[i] = Reading(nth[i])
    BY <1>5
  <2>. HIDE DEF samples, all, known
  <2>3. nth[i] \in all /\ nth[i].at \in Int
    BY <1>3, <1>4, <2>1
  <2>. QED
    BY <2>1, <2>2, <2>3 DEF Reading
<1>7. Currents(samples, n, current, depths)
  <2>. HIDE DEF samples, n
  <2>. QED
    BY <1>1, <1>5, CurrentDepthsAre
<1>. DEFINE ours == {i \in 1..n : samples[i].at >= current /\ samples[i].queue = m.queue}
<1>8. PICK z \in 1..n : nth[z] = r
  BY <1>1, <1>3, <1>4 DEF Lists
<1>9. z \in ours
  BY <1>3, <1>6, <1>8
<1>. DEFINE i == Max(ours)
<1>10. i \in ours /\ \A j \in ours : j <= i
  <2>1. ours \in SUBSET (0..n) /\ ours # {}
    BY <1>9
  <2>. HIDE DEF ours, n
  <2>. QED
    BY <1>1, <2>1, GreatestMember
<1>. HIDE DEF i, samples, depths, newest, all, known, n
<1>11. i \in 1..n /\ z <= i /\ samples[i].at >= current /\ samples[i].queue = m.queue
  BY <1>9, <1>10
<1>12. r.at <= nth[i].at
  <2>1. CASE z = i
    BY <1>3, <1>8, <2>1
  <2>2. CASE z # i
    <3>1. z < i
      BY <1>11, <2>2
    <3>2. <<nth[z], nth[i]>> \in R
      BY <1>1, <1>11, <3>1 DEF Lists, n
    <3>3. Earlier(nth[z], nth[i])
      BY <3>2 DEF EarlierIn
    <3>. QED
      BY <1>3, <1>6, <1>8, <1>11, <3>3 DEF Earlier
  <2>. QED
    BY <2>1, <2>2
<1>13. nth[i].at <= r.at
  BY <1>2, <1>3, <1>6, <1>11 DEF newest
<1>14. nth[i] \in newest
  <2>1. nth[i].at = r.at /\ nth[i].queue = r.queue /\ nth[i] \in all
    BY <1>3, <1>6, <1>11, <1>12, <1>13
  <2>. QED
    BY <1>2, <2>1 DEF newest
<1>15. Reading(nth[i]) = m
  <2>1. Reading(nth[i]) \in LatestDepths(rows, until) /\ Reading(nth[i]).queue = m.queue
    BY <1>3, <1>6, <1>11, <1>14 DEF Reading
  <2>. QED
    BY <2>1
<1>16. samples[i].depth = m.depth
  BY <1>6, <1>11, <1>15 DEF Reading
<1>17. \A j \in (i + 1)..n : samples[j].at >= current => samples[j].queue # samples[i].queue
  <2>. SUFFICES ASSUME NEW j \in (i + 1)..n, samples[j].at >= current, samples[j].queue = samples[i].queue
                PROVE  FALSE
    OBVIOUS
  <2>1. j \in 1..n /\ ~(j <= i)
    BY <1>1, <1>11
  <2>2. j \in ours
    BY <1>11, <2>1
  <2>. QED
    BY <1>10, <2>1, <2>2
<1>18. depths[samples[i].queue] = samples[i].depth /\ samples[i].queue \in DOMAIN depths
  BY <1>7, <1>11, <1>17 DEF Currents
<1>. QED
  BY <1>11, <1>16, <1>18 DEF depths, samples

\* Whatever finite table of rows and whatever windows: metrics and anomalies,
\* which read it by different queries, agree on it (app/repositories.py,
\* app/metrics.py, app/anomalies.py).
THEOREM QueriesTheorem ==
  ASSUME NEW rows, Sheet(rows), NEW from \in Int, NEW current \in Int, NEW until \in Int, from <= current
  PROVE  Agree(rows, from, current, until)
<1>. DEFINE metrics == StoreMetrics(rows, current, until)
            signals == Signals(rows, from, current, until)
            before  == ZoneVisits(rows, from, current)
            latest  == ZoneVisits(rows, current, until)
            zones   == ZoneDwell(rows, current, until)
            samples == DepthSamples(rows, from, until)
            depths  == CurrentDepths(samples, current)
<1>1. signals.depths = depths /\ signals.dead = DeadZones(latest, before)
  BY DEF Signals
<1>2. \/ metrics.empty = FALSE /\ metrics.zones = zones /\ metrics.queues = LatestDepths(rows, until)
      \/ metrics.empty = TRUE /\ metrics.zones = <<>> /\ metrics.queues = {} /\ ~HasActivity(rows, current, until)
  BY DEF StoreMetrics, NoMetrics
<1>. HIDE DEF metrics, signals
<1>3. ASSUME NEW m \in metrics.queues, m.at >= current, \A o \in metrics.queues : o.queue = m.queue => o = m
      PROVE  m.queue \in DOMAIN depths /\ depths[m.queue] = m.depth
  <2>1. metrics.queues = LatestDepths(rows, until)
    BY <1>2, <1>3
  <2>2. m \in LatestDepths(rows, until) /\ \A o \in LatestDepths(rows, until) : o.queue = m.queue => o = m
    BY <1>3, <2>1
  <2>3. m.at >= current
    BY <1>3
  <2>4. LET known == CurrentDepths(DepthSamples(rows, from, until), current)
        IN  m.queue \in DOMAIN known /\ known[m.queue] = m.depth
    BY ONLY Sheet(rows), from \in Int, current \in Int, until \in Int, from <= current,
            <2>2, <2>3, NewestIsCurrent, SMTT(60)
  <2>. QED
    BY <2>4
<1>4. ASSUME NEW z \in DOMAIN metrics.zones PROVE z \notin DeadZones(latest, before)
  <2>. DEFINE visits == {r \in OfVisitors(Within(rows, current, until)) :
                           r.type \in {"zone_enter", "zone_dwell", "dwell"} /\ r.zone # Null}
              own == {r \in visits : r.zone = z}
  <2>1. z \in DOMAIN zones
    <3>1. DOMAIN <<>> = {}
      OBVIOUS
    <3>. QED
      BY <1>2, <1>4, <3>1
  <2>2. PICK r \in OfVisitors(Within(rows, current, until)) :
          r.type \in {"zone_dwell", "dwell"} /\ r.zone # Null /\ r.zone = z
    BY <2>1 DEF ZoneDwell
  <2>3. r \in own
    BY <2>2
  <2>4. latest = [y \in {s.zone : s \in visits} |-> Cardinality({s \in visits : s.zone = y})]
    BY DEF ZoneVisits
  <2>5. z \in DOMAIN latest /\ latest[z] = Cardinality(own)
    BY <2>3, <2>4
  <2>6. IsFiniteSet(own)
    <3>1. own \in SUBSET rows
      BY DEF OfVisitors, Within
    <3>. QED
      BY <3>1, FS_Subset DEF Sheet
  <2>7. Cardinality(own) # 0
    BY <2>3, <2>6, FS_EmptySet
  <2>. QED
    BY <2>5, <2>7 DEF DeadZones
<1>5. ASSUME metrics.empty PROVE DOMAIN depths = {} /\ DOMAIN latest = {}
  <2>1. OfVisitors(Within(rows, current, until)) = {}
    BY <1>2, <1>5 DEF HasActivity
  <2>2. DOMAIN latest = {}
    BY <2>1 DEF ZoneVisits
  <2>3. DOMAIN depths = {}
    <3>. DEFINE known == DepthRows(Within(rows, from, until))
                n == Cardinality(known)
    <3>1. PICK nth : /\ Lists(known, EarlierIn(known), nth)
                     /\ samples = [i \in 1..n |-> Reading(nth[i])]
                     /\ n \in Nat
      BY DepthSamplesAre
    <3>2. \A r \in known : ~(r.at >= current)
      BY <2>1 DEF DepthRows, OfVisitors, Within, Sheet
    <3>. HIDE DEF known
    <3>3. DOMAIN samples = 1..n /\ \A i \in 1..n : ~(samples[i].at >= current)
      BY <3>1, <3>2 DEF Lists, Reading
    <3>4. Currents(samples, n, current, depths)
      <4>. HIDE DEF samples, n
      <4>. QED
        BY <3>1, <3>3, CurrentDepthsAre
    <3>. HIDE DEF samples, depths, n
    <3>. QED
      BY <3>3, <3>4 DEF Currents
  <2>. QED
    BY <2>2, <2>3
<1>6. ASSUME metrics.empty, NEW z \in DOMAIN before, before[z] >= MinVisits PROVE z \in DeadZones(latest, before)
  BY <1>5, <1>6 DEF DeadZones
<1>. HIDE DEF depths, latest, before, zones
<1>7. DOMAIN metrics.zones \cap signals.dead = {}
  BY <1>1, <1>4
<1>. QED
  BY <1>1, <1>3, <1>5, <1>6, <1>7 DEF Agree, metrics, signals, before

-----------------------------------------------------------------------------
(* Sums over finite sets *)

\* it adds f up over the subsets of D, the elements taken as they are picked.
Adder(it, f, D) ==
  it = [s \in SUBSET D |-> IF s = {} THEN 0
                           ELSE LET x == CHOOSE y \in s : TRUE IN f[x] + it[s \ {x}]]

\* The sums do not depend on which element is taken first.
Adds(it, f, D) ==
  /\ it \in [SUBSET D -> Int]
  /\ it[{}] = 0
  /\ \A s \in SUBSET D : \A x \in s : it[s] = f[x] + it[s \ {x}]

\* Induction over the subsets of a finite set: here by their size.
LEMMA BySize ==
  ASSUME NEW D, IsFiniteSet(D), NEW P \in SUBSET (SUBSET D),
         \A s \in SUBSET D : (\A x \in s : s \ {x} \in P) => s \in P
  PROVE  P = SUBSET D
<1>. DEFINE n == Cardinality(D)
            sizes == {k \in 0..n : \A s \in SUBSET D : Cardinality(s) = k => s \in P}
<1>1. n \in Nat /\ \A s \in SUBSET D : IsFiniteSet(s) /\ Cardinality(s) \in 0..n
  <2>1. n \in Nat
    BY FS_CardinalityType
  <2>2. ASSUME NEW s \in SUBSET D PROVE IsFiniteSet(s) /\ Cardinality(s) \in Nat /\ Cardinality(s) <= n
    <3>1. IsFiniteSet(s) /\ Cardinality(s) <= n
      BY FS_Subset
    <3>. QED
      BY <3>1, FS_CardinalityType
  <2>. HIDE DEF n
  <2>. QED
    BY <2>1, <2>2
<1>2. ASSUME NEW k \in 0..n, k = 0 \/ k - 1 \in sizes PROVE k \in sizes
  <2>1. ASSUME NEW s \in SUBSET D, Cardinality(s) = k PROVE s \in P
    <3>1. ASSUME NEW x \in s PROVE s \ {x} \in P
      <4>1. Cardinality(s \ {x}) = k - 1
        BY <1>1, <2>1, FS_RemoveElement
      <4>2. Cardinality(s \ {x}) \in 0..n
        BY <1>1
      <4>3. k # 0
        BY <4>1, <4>2
      <4>. QED
        BY <1>2, <4>1, <4>3
    <3>. QED
      BY <3>1
  <2>. QED
    BY <2>1
<1>. HIDE DEF n
<1>3. 0..n \subseteq sizes
  <2>1. 0 \in sizes /\ \A k \in 1..n : k - 1 \in sizes => k \in sizes
    <3>1. 0 \in 0..n /\ \A k \in 1..n : k \in 0..n
      BY <1>1
    <3>. HIDE DEF sizes
    <3>. QED
      BY <1>2, <3>1
  <2>. HIDE DEF sizes
  <2>. QED
    BY <1>1, <2>1, UpTo
<1>4. ASSUME NEW s \in SUBSET D PROVE s \in P
  BY <1>1, <1>3
<1>. QED
  BY <1>4

LEMMA AdderAdds ==
  ASSUME NEW D, IsFiniteSet(D), NEW f \in [D -> Int], NEW it, Adder(it, f, D)
  PROVE  Adds(it, f, D)
<1>. DEFINE Pick(s) == CHOOSE y \in s : TRUE
<1>1. /\ it = [s \in SUBSET D |-> it[s]] /\ it[{}] = 0
      /\ \A s \in SUBSET D : s # {} => Pick(s) \in s /\ it[s] = f[Pick(s)] + it[s \ {Pick(s)}]
  BY DEF Adder
<1>. HIDE DEF Pick
<1>2. ASSUME NEW s \in SUBSET D, NEW x \in s PROVE s \ {x} \in SUBSET D /\ f[x] \in Int
  OBVIOUS
<1>. DEFINE T == {s \in SUBSET D : it[s] \in Int}
<1>3. T = SUBSET D
  <2>1. ASSUME NEW s \in SUBSET D, \A x \in s : s \ {x} \in T PROVE s \in T
    <3>1. CASE s = {}
      BY <1>1, <3>1
    <3>2. CASE s # {}
      <4>1. Pick(s) \in s /\ it[s] = f[Pick(s)] + it[s \ {Pick(s)}]
        BY <1>1, <3>2
      <4>2. f[Pick(s)] \in Int /\ it[s \ {Pick(s)}] \in Int
        BY <1>2, <2>1, <4>1
      <4>. QED
        BY <4>1, <4>2
    <3>. QED
      BY <3>1, <3>2
  <2>2. T \in SUBSET (SUBSET D)
    OBVIOUS
  <2>. HIDE DEF T
  <2>. QED
    BY <2>1, <2>2, BySize
<1>. DEFINE P == {s \in SUBSET D : \A x \in s : it[s] = f[x] + it[s \ {x}]}
<1>4. ASSUME NEW s \in SUBSET D, \A x \in s : s \ {x} \in P PROVE s \in P
  <2>1. ASSUME NEW x \in s PROVE it[s] = f[x] + it[s \ {x}]
    <3>. DEFINE p == Pick(s)
    <3>1. p \in s /\ it[s] = f[p] + it[s \ {p}]
      BY <1>1, <2>1
    <3>. HIDE DEF p
    <3>2. CASE x = p
      BY <3>1, <3>2
    <3>3. CASE x # p
      <4>. DEFINE rest == (s \ {p}) \ {x}
      <4>1. rest = (s \ {x}) \ {p} /\ x \in s \ {p} /\ p \in s \ {x} /\ rest \in SUBSET D
        BY <3>1, <3>3
      <4>2. it[s \ {p}] = f[x] + it[rest]
        BY <1>4, <3>1, <4>1
      <4>3. it[s \ {x}] = f[p] + it[rest]
        BY <1>4, <4>1
      <4>. HIDE DEF rest
      <4>4. f[x] \in Int /\ f[p] \in Int /\ it[rest] \in Int
        BY <1>2, <1>3, <3>1, <4>1
      <4>. QED
        BY <3>1, <4>2, <4>3, <4>4
    <3>. QED
      BY <3>2, <3>3
  <2>. QED
    BY <2>1
<1>5. P = SUBSET D
  <2>1. P \in SUBSET (SUBSET D)
    OBVIOUS
  <2>. HIDE DEF P
  <2>. QED
    BY <1>4, <2>1, BySize
<1>6. it \in [SUBSET D -> Int]
  BY <1>1, <1>3
<1>. QED
  BY <1>1, <1>5, <1>6 DEF Adds

\* A finite set of integers can be added up.
LEMMA SumExists ==
  ASSUME NEW D, IsFiniteSet(D), NEW f \in [D -> Int]
  PROVE  \E it : Adder(it, f, D)
<1>. DEFINE Pick(s) == CHOOSE y \in s : TRUE
            n == Cardinality(D)
            Small(k) == {s \in SUBSET D : Cardinality(s) <= k}
            Sums(g) == \A s \in DOMAIN g : g[s] = IF s = {} THEN 0 ELSE f[Pick(s)] + g[s \ {Pick(s)}]
            possible == {k \in 0..n : \E g : DOMAIN g = Small(k) /\ g = [s \in Small(k) |-> g[s]] /\ Sums(g)}
<1>1. n \in Nat
  BY FS_CardinalityType
<1>2. ASSUME NEW s \in SUBSET D
      PROVE  /\ IsFiniteSet(s) /\ Cardinality(s) \in Nat /\ Cardinality(s) <= n
             /\ Cardinality(s) <= 0 => s = {}
             /\ s # {} => Pick(s) \in s /\ s \ {Pick(s)} \in SUBSET D
                          /\ Cardinality(s \ {Pick(s)}) = Cardinality(s) - 1
  <2>1. IsFiniteSet(s) /\ Cardinality(s) <= n
    BY FS_Subset
  <2>2. Cardinality(s) \in Nat
    BY <2>1, FS_CardinalityType
  <2>3. Cardinality(s) <= 0 => s = {}
    BY <2>1, <2>2, FS_EmptySet
  <2>4. s # {} => Pick(s) \in s
    OBVIOUS
  <2>. HIDE DEF Pick, n
  <2>5. s # {} => Cardinality(s \ {Pick(s)}) = Cardinality(s) - 1
    BY <2>1, <2>4, FS_RemoveElement
  <2>. QED
    BY <2>1, <2>2, <2>3, <2>4, <2>5
<1>. HIDE DEF Pick, n
<1>3. 0 \in possible
  <2>. DEFINE g == [s \in Small(0) |-> 0]
  <2>1. \A s \in Small(0) : s = {}
    BY <1>2
  <2>2. Sums(g)
    BY <2>1
  <2>3. 0 \in 0..n
    BY <1>1
  <2>4. DOMAIN g = Small(0) /\ g = [s \in Small(0) |-> g[s]]
    OBVIOUS
  <2>. HIDE DEF Sums, g, Small
  <2>. QED
    BY <2>2, <2>3, <2>4
<1>4. ASSUME NEW k \in 1..n, k - 1 \in possible PROVE k \in possible
  <2>1. PICK g : DOMAIN g = Small(k - 1) /\ Sums(g)
    BY <1>4
  <2>. DEFINE h == [s \in Small(k) |-> IF s = {} THEN 0 ELSE f[Pick(s)] + g[s \ {Pick(s)}]]
  <2>2. ASSUME NEW s \in Small(k), s # {} PROVE s \ {Pick(s)} \in Small(k - 1) /\ s \ {Pick(s)} \in Small(k)
    <3>1. /\ s \in SUBSET D /\ Cardinality(s) <= k /\ Cardinality(s) \in Nat /\ k \in Nat
          /\ s \ {Pick(s)} \in SUBSET D /\ Cardinality(s \ {Pick(s)}) = Cardinality(s) - 1
      BY <1>2, <2>2
    <3>2. Cardinality(s \ {Pick(s)}) <= k - 1 /\ Cardinality(s \ {Pick(s)}) <= k
      BY <3>1
    <3>. QED
      BY <3>1, <3>2
  <2>3. ASSUME NEW s \in Small(k - 1) PROVE s \in Small(k) /\ h[s] = g[s]
    <3>1. s \in Small(k)
      <4>0. s \in SUBSET D /\ Cardinality(s) <= k - 1
        OBVIOUS
      <4>1a. Cardinality(s) \in Nat
        BY <1>2, <4>0
      <4>1b. k \in Nat
        OBVIOUS
      <4>2. Cardinality(s) <= k
        BY <4>0, <4>1a, <4>1b
      <4>. QED
        BY <4>0, <4>2
    <3>2. g[s] = IF s = {} THEN 0 ELSE f[Pick(s)] + g[s \ {Pick(s)}]
      BY <2>1
    <3>. HIDE DEF Small
    <3>. QED
      BY <3>1, <3>2
  <2>. HIDE DEF Small
  <2>4. Sums(h)
    BY <2>2, <2>3
  <2>5. k \in 0..n /\ DOMAIN h = Small(k) /\ h = [s \in Small(k) |-> h[s]]
    BY <1>1
  <2>. HIDE DEF Sums, h
  <2>. QED
    BY <2>4, <2>5
<1>5. n \in possible
  <2>1. possible \in SUBSET (0..n) /\ n \in 0..n
    BY <1>1
  <2>. HIDE DEF possible
  <2>. QED
    BY <1>1, <1>3, <1>4, <2>1, UpTo
<1>6. Small(n) = SUBSET D
  BY <1>2
<1>. HIDE DEF Small
<1>7. PICK g : g = [s \in SUBSET D |-> g[s]] /\ DOMAIN g = SUBSET D /\ Sums(g)
  BY <1>5, <1>6
<1>8. g = [s \in SUBSET D |-> IF s = {} THEN 0 ELSE f[Pick(s)] + g[s \ {Pick(s)}]]
  BY <1>7
<1>9. Adder(g, f, D)
  BY <1>8 DEF Adder, Pick
<1>. QED
  BY <1>9

\* What SumSet and FoldFunction add up.
SumOver(f, D) == MapThenSumSet(LAMBDA x : f[x], D)

LEMMA SumIs ==
  ASSUME NEW D, IsFiniteSet(D), NEW f \in [D -> Int]
  PROVE  \E it : Adds(it, f, D) /\ SumOver(f, D) = it[D]
<1>. DEFINE it == CHOOSE i : Adder(i, f, D)
<1>1. Adder(it, f, D)
  BY SumExists
<1>2. SumOver(f, D) = it[D]
  BY DEF SumOver, MapThenSumSet, MapThenFoldSet, Adder
<1>. HIDE DEF it
<1>3. Adds(it, f, D)
  BY <1>1, AdderAdds
<1>. QED
  BY <1>2, <1>3

-----------------------------------------------------------------------------
(* The rule on queue depths *)

\* A steady past and one other sample: their sum.
LEMMA SteadySum ==
  ASSUME NEW n \in Nat \ {0}, NEW u \in Int, NEW x \in Int, NEW it, Adds(it, Samples(n, u, x), 1..n)
  PROVE  it[1..n] = (n - 1) * u + x
<1>. DEFINE S == {k \in 0..(n - 1) : it[1..k] = k * u}
<1>1. n - 1 \in Nat /\ n \in Int
  OBVIOUS
<1>2. 0 \in S
  <2>1. 1..0 = {} /\ 0 * u = 0 /\ 0 \in 0..(n - 1)
    BY <1>1
  <2>. QED
    BY <2>1 DEF Adds
<1>3. ASSUME NEW k \in 1..(n - 1), k - 1 \in S PROVE k \in S
  <2>1. k \in Nat /\ k \in 1..n /\ k # n /\ k \in 0..(n - 1)
    BY <1>1
  <2>2. (1..k) \in SUBSET (1..n) /\ k \in 1..k /\ (1..k) \ {k} = 1..(k - 1)
    BY <1>1, <2>1
  <2>3. it[1..k] = Samples(n, u, x)[k] + it[1..(k - 1)]
    <3>1. \A t \in SUBSET (1..n) : \A i \in t : it[t] = Samples(n, u, x)[i] + it[t \ {i}]
      BY DEF Adds
    <3>2. it[1..k] = Samples(n, u, x)[k] + it[(1..k) \ {k}]
      BY <2>2, <3>1
    <3>. QED
      BY <2>2, <3>2
  <2>4. Samples(n, u, x)[k] = u
    BY <2>1 DEF Samples
  <2>5. it[1..k] = u + (k - 1) * u
    BY <1>3, <2>3, <2>4
  <2>6. u + (k - 1) * u = k * u
    BY <2>1
  <2>. QED
    BY <2>1, <2>5, <2>6
<1>4. it[1..(n - 1)] = (n - 1) * u
  <2>1. 0..(n - 1) \subseteq S
    <3>. HIDE DEF S
    <3>. QED
      BY <1>1, <1>2, <1>3, UpTo
  <2>2. n - 1 \in 0..(n - 1)
    BY <1>1
  <2>. QED
    BY <2>1, <2>2
<1>5. n \in 1..n /\ (1..n) \ {n} = 1..(n - 1) /\ 1..n \in SUBSET (1..n)
  BY <1>1
<1>6. it[1..n] = Samples(n, u, x)[n] + it[1..(n - 1)]
  BY <1>5 DEF Adds
<1>7. Samples(n, u, x)[n] = x
  BY <1>5 DEF Samples
<1>8. (n - 1) * u \in Int
  BY <1>1
<1>. QED
  BY <1>4, <1>6, <1>7, <1>8

LEMMA SamplesAre ==
  ASSUME NEW n \in Nat \ {0}, NEW u \in Int, NEW x \in Int
  PROVE  /\ Samples(n, u, x) \in [1..n -> Int] /\ Len(Samples(n, u, x)) = n
         /\ SumOf(Samples(n, u, x)) = (n - 1) * u + x
         /\ SumOfSquares(Samples(n, u, x)) = (n - 1) * (u * u) + x * x
<1>. DEFINE s == Samples(n, u, x)
            r == Samples(n, u * u, x * x)
<1>1. s \in [1..n -> Int] /\ Len(s) = n /\ DOMAIN s = 1..n
  BY DEF Samples
<1>2. r \in [1..n -> Int] /\ u * u \in Int /\ x * x \in Int
  <2>1. u * u \in Int /\ x * x \in Int
    OBVIOUS
  <2>. QED
    BY <2>1 DEF Samples
<1>3. [i \in DOMAIN s |-> s[i] * s[i]] = r
  BY <1>1 DEF Samples
<1>4. IsFiniteSet(1..n)
  <2>1. 1 \in Int /\ n \in Int
    OBVIOUS
  <2>. QED
    BY <2>1, FS_Interval
<1>5. SumOf(s) = SumOver(s, 1..n)
  BY <1>1 DEF SumOf, FoldFunction, FoldFunctionOnSet, SumOver, MapThenSumSet
<1>6. SumOfSquares(s) = SumOver(r, 1..n)
  <2>1. DOMAIN r = 1..n
    BY <1>2
  <2>2. SumOfSquares(s) = FoldFunction(+, 0, r)
    BY <1>3 DEF SumOfSquares
  <2>. QED
    BY <2>1, <2>2 DEF FoldFunction, FoldFunctionOnSet, SumOver, MapThenSumSet
<1>. HIDE DEF s, r
<1>7. SumOver(s, 1..n) = (n - 1) * u + x
  <2>1. PICK it : Adds(it, s, 1..n) /\ SumOver(s, 1..n) = it[1..n]
    BY <1>1, <1>4, SumIs
  <2>. QED
    BY <2>1, SteadySum DEF s
<1>8. SumOver(r, 1..n) = (n - 1) * (u * u) + x * x
  <2>1. PICK it : Adds(it, r, 1..n) /\ SumOver(r, 1..n) = it[1..n]
    BY <1>2, <1>4, SumIs
  <2>. QED
    BY <1>2, <2>1, SteadySum DEF r
<1>. QED
  BY <1>1, <1>5, <1>6, <1>7, <1>8 DEF s

\* The distance from the mean and the variance of such samples.
LEMMA SteadyFigures ==
  ASSUME NEW n \in Nat \ {0}, NEW u \in Int, NEW x \in Int
  PROVE  /\ n * x - SumOf(Samples(n, u, x)) = (n - 1) * (x - u)
         /\ Spread(Samples(n, u, x)) = (n - 1) * ((x - u) * (x - u))
<1>. DEFINE m == n - 1
            s == Samples(n, u, x)
<1>1. m \in Nat /\ n = m + 1
  OBVIOUS
<1>2. /\ Len(s) = n /\ SumOf(s) = m * u + x /\ SumOfSquares(s) = m * (u * u) + x * x
  BY SamplesAre
<1>. HIDE DEF m, s
<1>3. n * x - SumOf(s) = m * (x - u)
  <2>1. (m + 1) * x - (m * u + x) = m * (x - u)
    BY <1>1
  <2>. QED
    BY <1>1, <1>2, <2>1
<1>4. Spread(s) = m * ((x - u) * (x - u))
  <2>1. (m + 1) * (m * (u * u) + x * x) - (m * u + x) * (m * u + x) = m * ((x - u) * (x - u))
    BY <1>1
  <2>. QED
    BY <1>1, <1>2, <2>1 DEF Spread
<1>. QED
  BY <1>3, <1>4 DEF m, s

LEMMA Cancel ==
  ASSUME NEW a \in Int, NEW b \in Int, NEW c \in Int, c > 0
  PROVE  a * c >= b * c <=> a >= b
<1>1. CASE a >= b
  <2>1. (a - b) * c >= 0
    BY <1>1
  <2>2. (a - b) * c = a * c - b * c
    OBVIOUS
  <2>3. a * c \in Int /\ b * c \in Int
    OBVIOUS
  <2>. QED
    BY <1>1, <2>1, <2>2, <2>3
<1>2. CASE ~(a >= b)
  <2>1. (b - a) * c > 0
    BY <1>2
  <2>2. (b - a) * c = b * c - a * c
    OBVIOUS
  <2>3. a * c \in Int /\ b * c \in Int
    OBVIOUS
  <2>. QED
    BY <1>2, <2>1, <2>2, <2>3
<1>. QED
  BY <1>1, <1>2

\* How far the last sample lies from the mean depends on their number alone.
LEMMA ApartIs ==
  ASSUME NEW n \in Nat, n > 1, NEW u \in Int, NEW x \in Int, NEW k \in Nat
  PROVE  Apart(x, Samples(n, u, x), k) <=> x # u /\ Reaches(n, k)
<1>. DEFINE m == n - 1
            d == x - u
            s == Samples(n, u, x)
            D == m * (d * d)
<1>1. m \in Nat /\ m > 0 /\ d \in Int /\ (d = 0 <=> x = u)
  OBVIOUS
<1>2. Len(s) = n /\ n * x - SumOf(s) = m * d /\ Spread(s) = D
  <2>1. n \in Nat \ {0}
    OBVIOUS
  <2>2. Len(s) = n
    BY <2>1, SamplesAre
  <2>. QED
    BY <2>1, <2>2, SteadyFigures
<1>3. Reaches(n, k) <=> m * m >= k * k * n
  BY DEF Reaches
<1>4. Len(s) - 1 = m
  BY <1>2
<1>. HIDE DEF m, d, s
<1>5. Apart(x, s, k) <=> m * d # 0 /\ (m * d) * (m * d) * m >= k * k * n * D
  BY <1>2, <1>4 DEF Apart
<1>6. CASE d = 0
  <2>1. m * d = 0
    BY <1>1, <1>6
  <2>. QED
    BY <1>1, <1>5, <1>6, <2>1 DEF s
<1>7. CASE d # 0
  <2>1. m * d # 0
    BY <1>1, <1>7
  <2>2. D \in Int /\ D > 0
    <3>1. d * d > 0 /\ d * d \in Int
      BY <1>1, <1>7
    <3>. QED
      BY <1>1, <3>1
  <2>3. (m * d) * (m * d) * m = (m * m) * D
    BY <1>1
  <2>. HIDE DEF D
  <2>4. m * m \in Int /\ k * k * n \in Int
    BY <1>1
  <2>5. (m * m) * D >= (k * k * n) * D <=> m * m >= k * k * n
    BY <2>2, <2>4, Cancel
  <2>. QED
    BY <1>1, <1>3, <1>5, <1>7, <2>1, <2>3, <2>5 DEF s
<1>. QED
  BY <1>6, <1>7

\* Whatever the thresholds, the steady length, the last length and the number of
\* samples: a queue that grew is listed for its length or, once there are enough
\* samples, for having grown at all; one that did not grow is not listed below
\* DepthAlarm (detect_queue_spikes).
THEOREM SpikeTheorem ==
  ASSUME NEW n \in Nat \ {0}, NEW u \in Int, NEW x \in Int
  PROVE  SpikeSeen(n, u, x)
<1>. DEFINE s == Samples(n, u, x)
            long == x >= DepthAlarm
            severity == IF Reaches(n, ZCritical) THEN "critical" ELSE IF Reaches(n, ZWarn) THEN "warn" ELSE "info"
            alarm == QueueAlarm(s)
<1>1. Len(s) = n /\ s[Len(s)] = x
  <2>0. n \in 1..n
    OBVIOUS
  <2>1. Len(s) = n
    BY SamplesAre
  <2>. QED
    BY <2>0, <2>1 DEF Samples
<1>2. DepthAlarm \in Nat \ {0} /\ ZWarn \in Nat /\ ZCritical \in Nat /\ BaselineSamples \in Nat
  BY RulesAssumption
<1>3. ASSUME n < BaselineSamples PROVE alarm # "none" <=> x >= DepthAlarm \div 2
  <2>1. DepthAlarm >= DepthAlarm \div 2 /\ DepthAlarm \div 2 \in Int
    BY <1>2
  <2>2. alarm = IF x >= DepthAlarm THEN "critical" ELSE IF x >= DepthAlarm \div 2 THEN "warn" ELSE "none"
    BY <1>1, <1>3 DEF QueueAlarm
  <2>3. x >= DepthAlarm => x >= DepthAlarm \div 2
    BY <1>2, <2>1
  <2>. HIDE DEF alarm
  <2>. QED
    BY <2>2, <2>3
<1>4. ASSUME n >= BaselineSamples, n > 1
      PROVE  /\ x > u => alarm = IF severity # "info" \/ long THEN severity ELSE "none"
             /\ x = u => alarm = IF long THEN "info" ELSE "none"
             /\ x < u => alarm = IF severity # "info" /\ long THEN severity ELSE "none"
  <2>1. ~(Len(s) < BaselineSamples)
    BY <1>1, <1>2, <1>4
  <2>2. alarm = IF ~(AboveMean(x, s) /\ Apart(x, s, ZWarn)) /\ x < DepthAlarm THEN "none"
                ELSE IF n * x < SumOf(s) /\ SeverityOf(x, s) = "info" THEN "none"
                ELSE SeverityOf(x, s)
    BY <1>1, <2>1 DEF QueueAlarm
  <2>3. (Apart(x, s, ZWarn) <=> x # u /\ Reaches(n, ZWarn)) /\ (Apart(x, s, ZCritical) <=> x # u /\ Reaches(n, ZCritical))
    BY <1>2, <1>4, ApartIs
  <2>4. SeverityOf(x, s) = IF x # u THEN severity ELSE "info"
    BY <2>3 DEF SeverityOf
  <2>5. (AboveMean(x, s) <=> x > u) /\ (n * x < SumOf(s) <=> x < u)
    <3>. DEFINE sum == SumOf(s)
                nx == n * x
                m == n - 1
                d == x - u
    <3>1. nx - sum = m * d
      BY SteadyFigures
    <3>2. sum \in Int
      <4>1. (n - 1) * u + x \in Int
        OBVIOUS
      <4>. QED
        BY <4>1, SamplesAre
    <3>3. nx \in Int /\ m \in Nat /\ m > 0 /\ d \in Int
      BY <1>4
    <3>4. (d > 0 <=> x > u) /\ (d < 0 <=> x < u)
      OBVIOUS
    <3>5. AboveMean(x, s) <=> nx > sum
      BY <1>1 DEF AboveMean
    <3>. HIDE DEF sum, nx, m, d
    <3>6. (m * d > 0 <=> d > 0) /\ (m * d < 0 <=> d < 0) /\ m * d \in Int
      BY <3>3
    <3>7. (nx > sum <=> d > 0) /\ (nx < sum <=> d < 0)
      BY <3>1, <3>2, <3>3, <3>6
    <3>. QED
      BY <3>4, <3>5, <3>7 DEF sum, nx
  <2>6. severity # "info" <=> Reaches(n, ZWarn)
    <3>1. Reaches(n, ZCritical) => Reaches(n, ZWarn)
      <4>1. ZWarn <= ZCritical
        BY RulesAssumption
      <4>2. ZWarn * ZWarn * n <= ZCritical * ZCritical * n
        <5>1. ZWarn * ZWarn <= ZCritical * ZCritical
          BY <1>2, <4>1
        <5>2. ZWarn * ZWarn \in Int /\ ZCritical * ZCritical \in Int /\ n \in Int /\ n > 0
          BY <1>2
        <5>. QED
          BY <5>1, <5>2, Cancel
      <4>3. ZWarn * ZWarn * n \in Int /\ ZCritical * ZCritical * n \in Int /\ (n - 1) * (n - 1) \in Int
        BY <1>2
      <4>. QED
        BY <4>2, <4>3 DEF Reaches
    <3>. QED
      BY <3>1
  <2>. HIDE DEF alarm, severity, s
  <2>7. long <=> ~(x < DepthAlarm)
    BY <1>2
  <2>8. CASE x > u
    BY <2>2, <2>3, <2>4, <2>5, <2>6, <2>7, <2>8
  <2>9. CASE x = u
    BY <2>2, <2>3, <2>4, <2>5, <2>6, <2>7, <2>9
  <2>10. CASE x < u
    BY <2>2, <2>3, <2>4, <2>5, <2>6, <2>7, <2>10
  <2>. QED
    BY <2>8, <2>9, <2>10
<1>5. n >= BaselineSamples /\ n > 1 /\ x <= u /\ ~long => alarm = "none"
  <2>. HIDE DEF alarm, severity
  <2>. QED
    BY <1>2, <1>4
<1>. QED
  BY <1>3, <1>4, <1>5 DEF SpikeSeen

-----------------------------------------------------------------------------
(* Division *)

LEMMA Quotient ==
  ASSUME NEW a \in Nat, NEW b \in Nat \ {0}
  PROVE  /\ a \div b \in Nat /\ a % b \in 0..(b - 1)
         /\ a = b * (a \div b) + (a % b)
  OBVIOUS

\* The quotient is where its multiples say.
LEMMA QuotientIs ==
  ASSUME NEW a \in Nat, NEW b \in Nat \ {0}, NEW q \in Nat
  PROVE  /\ q <= a \div b <=> b * q <= a
         /\ q > a \div b <=> b * q > a
<1>. DEFINE d == a \div b
            r == a % b
<1>1. d \in Nat /\ r \in Nat /\ r < b /\ a = b * d + r
  BY Quotient
<1>. HIDE DEF d, r
<1>2. CASE q <= d
  <2>1. b * q <= b * d
    BY <1>1, <1>2
  <2>2. b * q \in Int /\ b * d \in Int
    BY <1>1
  <2>. QED
    BY <1>1, <1>2, <2>1, <2>2 DEF d
<1>3. CASE q > d
  <2>1. b * q >= b * (d + 1)
    BY <1>1, <1>3
  <2>2. b * (d + 1) = b * d + b
    BY <1>1
  <2>3. b * q \in Int /\ b * d \in Int
    BY <1>1
  <2>. QED
    BY <1>1, <1>3, <2>1, <2>2, <2>3 DEF d
<1>. QED
  BY <1>1, <1>2, <1>3

-----------------------------------------------------------------------------
(* Sums of parts *)

\* Two disjoint sets add up to their union.
LEMMA Additive ==
  ASSUME NEW D, IsFiniteSet(D), NEW f \in [D -> Int], NEW it, Adds(it, f, D),
         NEW A \in SUBSET D, NEW B \in SUBSET D, A \cap B = {}
  PROVE  it[A \cup B] = it[A] + it[B]
<1>. DEFINE P == {s \in SUBSET D : A \cap s = {} => it[A \cup s] = it[A] + it[s]}
<1>1. /\ it[{}] = 0 /\ \A s \in SUBSET D : it[s] \in Int
      /\ \A s \in SUBSET D : \A x \in s : it[s] = f[x] + it[s \ {x}]
      /\ \A x \in D : f[x] \in Int
  BY DEF Adds
<1>2. ASSUME NEW s \in SUBSET D, \A x \in s : s \ {x} \in P PROVE s \in P
  <2>1. CASE s = {}
    <3>1. A \cup s = A /\ it[A] \in Int
      BY <1>1, <2>1
    <3>. QED
      BY <1>1, <2>1, <3>1
  <2>2. CASE s # {}
    <3>1. PICK x \in s : TRUE
      BY <2>2
    <3>2. ASSUME A \cap s = {} PROVE it[A \cup s] = it[A] + it[s]
      <4>1. A \cap (s \ {x}) = {} /\ (A \cup s) \ {x} = A \cup (s \ {x}) /\ A \cup s \in SUBSET D /\ x \in A \cup s
        BY <3>1, <3>2
      <4>2. it[A \cup (s \ {x})] = it[A] + it[s \ {x}]
        BY <1>2, <3>1, <4>1
      <4>3. it[A \cup s] = f[x] + it[A \cup (s \ {x})]
        BY <1>1, <4>1
      <4>4. it[s] = f[x] + it[s \ {x}]
        BY <1>1, <3>1
      <4>5. it[A] \in Int /\ it[s \ {x}] \in Int /\ f[x] \in Int
        <5>1. s \ {x} \in SUBSET D /\ x \in D
          BY <3>1
        <5>. QED
          BY <1>1, <5>1
      <4>. QED
        BY <4>2, <4>3, <4>4, <4>5
    <3>. QED
      BY <3>2
  <2>. QED
    BY <2>1, <2>2
<1>3. P = SUBSET D
  <2>1. P \in SUBSET (SUBSET D)
    OBVIOUS
  <2>. HIDE DEF P
  <2>. QED
    BY <1>2, <2>1, BySize
<1>. QED
  BY <1>3

\* Sums over a part by itself and as a part of the whole are the same.
Restricts(jt, g, S, it, f, D) ==
  /\ IsFiniteSet(D) /\ Adds(it, f, D)
  /\ S \in SUBSET D /\ Adds(jt, g, S) /\ \A x \in S : g[x] = f[x]

LEMMA SameSum ==
  ASSUME NEW jt, NEW g, NEW S, NEW it, NEW f, NEW D, Restricts(jt, g, S, it, f, D)
  PROVE  jt[S] = it[S]
<1>0. /\ IsFiniteSet(D) /\ Adds(it, f, D)
      /\ S \in SUBSET D /\ Adds(jt, g, S) /\ \A x \in S : g[x] = f[x]
  BY DEF Restricts
<1>. USE <1>0
<1>. DEFINE P == {s \in SUBSET S : jt[s] = it[s]}
<1>1. ASSUME NEW s \in SUBSET S, \A x \in s : s \ {x} \in P PROVE s \in P
  <2>1. CASE s = {}
    BY <2>1 DEF Adds
  <2>2. CASE s # {}
    <3>1. PICK x \in s : TRUE
      BY <2>2
    <3>2. it[s] = f[x] + it[s \ {x}]
      BY <3>1 DEF Adds
    <3>3. jt[s] = g[x] + jt[s \ {x}]
      BY <3>1 DEF Adds
    <3>4. g[x] = f[x] /\ jt[s \ {x}] = it[s \ {x}]
      BY <1>1, <3>1
    <3>. QED
      BY <3>2, <3>3, <3>4
  <2>. QED
    BY <2>1, <2>2
<1>2. P = SUBSET S
  <2>1. P \in SUBSET (SUBSET S) /\ IsFiniteSet(S)
    BY FS_Subset
  <2>. HIDE DEF P
  <2>. QED
    BY <1>1, <2>1, BySize
<1>. QED
  BY <1>2

\* The parts of D by their keys, added up over all keys.
Parts(jt, h, C, key, it, f, D) ==
  /\ IsFiniteSet(D) /\ f \in [D -> Int] /\ Adds(it, f, D)
  /\ IsFiniteSet(C) /\ key \in [D -> C] /\ Adds(jt, h, C)
  /\ \A c \in C : h[c] = it[{i \in D : key[i] = c}]

LEMMA Partition ==
  ASSUME NEW jt, NEW h, NEW C, NEW key, NEW it, NEW f, NEW D, Parts(jt, h, C, key, it, f, D)
  PROVE  jt[C] = it[D]
<1>0. /\ IsFiniteSet(D) /\ f \in [D -> Int] /\ Adds(it, f, D)
      /\ IsFiniteSet(C) /\ key \in [D -> C] /\ Adds(jt, h, C)
      /\ \A c \in C : h[c] = it[{i \in D : key[i] = c}]
  BY DEF Parts
<1>. USE <1>0
<1>. DEFINE Of(K) == {i \in D : key[i] \in K}
            P == {K \in SUBSET C : jt[K] = it[Of(K)]}
<1>1. ASSUME NEW K \in SUBSET C, \A c \in K : K \ {c} \in P PROVE K \in P
  <2>1. CASE K = {}
    <3>1. Of(K) = {}
      BY <2>1
    <3>. QED
      BY <2>1, <3>1 DEF Adds
  <2>2. CASE K # {}
    <3>1. PICK c \in K : TRUE
      BY <2>2
    <3>. DEFINE own == {i \in D : key[i] = c}
    <3>2. own \cap Of(K \ {c}) = {} /\ own \cup Of(K \ {c}) = Of(K)
      BY <3>1
    <3>3. own \in SUBSET D /\ Of(K \ {c}) \in SUBSET D
      OBVIOUS
    <3>4. jt[K] = h[c] + jt[K \ {c}]
      BY <3>1 DEF Adds
    <3>5. h[c] = it[own] /\ jt[K \ {c}] = it[Of(K \ {c})]
      BY <1>1, <3>1
    <3>. HIDE DEF own, Of
    <3>. DEFINE rest == Of(K \ {c})
    <3>6. it[own \cup rest] = it[own] + it[rest]
      <4>1. own \in SUBSET D /\ rest \in SUBSET D /\ own \cap rest = {}
        BY <3>2, <3>3
      <4>2. \A A, B \in SUBSET D : A \cap B = {} => it[A \cup B] = it[A] + it[B]
        BY Additive
      <4>. HIDE DEF rest
      <4>. QED
        BY <4>1, <4>2
    <3>7. jt[K] = it[Of(K)]
      BY <3>2, <3>4, <3>5, <3>6
    <3>. QED
      BY <3>7
  <2>. QED
    BY <2>1, <2>2
<1>2. P = SUBSET C
  <2>1. P \in SUBSET (SUBSET C)
    OBVIOUS
  <2>. HIDE DEF P
  <2>. QED
    BY <1>1, <2>1, BySize
<1>3. Of(C) = D
  OBVIOUS
<1>4. jt[C] = it[Of(C)]
  BY <1>2
<1>. HIDE DEF Of
<1>. QED
  BY <1>3, <1>4

\* Ones add up to the size of a set.
LEMMA OnesCount ==
  ASSUME NEW D, IsFiniteSet(D), NEW it, Adds(it, [i \in D |-> 1], D), NEW s \in SUBSET D
  PROVE  it[s] = Cardinality(s)
<1>. DEFINE P == {t \in SUBSET D : it[t] = Cardinality(t)}
<1>1. ASSUME NEW t \in SUBSET D, \A x \in t : t \ {x} \in P PROVE t \in P
  <2>1. CASE t = {}
    BY <2>1, FS_EmptySet DEF Adds
  <2>2. CASE t # {}
    <3>1. PICK x \in t : TRUE
      BY <2>2
    <3>2. it[t] = 1 + it[t \ {x}]
      BY <3>1 DEF Adds
    <3>3. IsFiniteSet(t) /\ Cardinality(t \ {x}) = Cardinality(t) - 1
      BY <3>1, FS_Subset, FS_RemoveElement
    <3>4. Cardinality(t) \in Nat
      BY <3>3, FS_CardinalityType
    <3>5. it[t \ {x}] = Cardinality(t \ {x})
      BY <1>1, <3>1
    <3>. QED
      BY <3>2, <3>3, <3>4, <3>5
  <2>. QED
    BY <2>1, <2>2
<1>2. P = SUBSET D
  <2>1. P \in SUBSET (SUBSET D)
    OBVIOUS
  <2>. HIDE DEF P
  <2>. QED
    BY <1>1, <2>1, BySize
<1>. QED
  BY <1>2

\* What DwellOf and VisitsOf add up.
LEMMA DwellIs ==
  ASSUME NEW fn, NEW S, IsFiniteSet(S), \A x \in S : fn[x].dwell \in Int
  PROVE  \E it : Adds(it, [x \in S |-> fn[x].dwell], S) /\ DwellOf(fn, S) = it[S]
<1>. DEFINE f == [x \in S |-> fn[x].dwell]
            Rec(it) == it = [s \in SUBSET S |-> IF s = {} THEN 0
                               ELSE LET x == CHOOSE y \in s : TRUE IN fn[x].dwell + it[s \ {x}]]
            sum == CHOOSE it : Rec(it)
<1>1. ASSUME NEW it PROVE Rec(it) <=> Adder(it, f, S)
  <2>1. ASSUME NEW s \in SUBSET S, s # {}
        PROVE  LET x == CHOOSE y \in s : TRUE IN f[x] = fn[x].dwell
    <3>1. (CHOOSE y \in s : TRUE) \in s
      BY <2>1
    <3>. QED
      BY <3>1
  <2>2. [s \in SUBSET S |-> IF s = {} THEN 0 ELSE LET x == CHOOSE y \in s : TRUE IN fn[x].dwell + it[s \ {x}]]
        = [s \in SUBSET S |-> IF s = {} THEN 0 ELSE LET x == CHOOSE y \in s : TRUE IN f[x] + it[s \ {x}]]
    <3>. HIDE DEF f
    <3>. QED
      BY <2>1
  <2>. HIDE DEF f
  <2>. QED
    BY <2>2 DEF Adder
<1>2. DwellOf(fn, S) = sum[S]
  BY DEF DwellOf, MapThenSumSet, MapThenFoldSet
<1>3. f \in [S -> Int]
  OBVIOUS
<1>. HIDE DEF Rec, f
<1>4. PICK it : Adder(it, f, S)
  BY <1>3, SumExists
<1>5. Rec(sum)
  BY <1>1, <1>4
<1>. HIDE DEF sum
<1>6. Adds(sum, f, S)
  BY <1>1, <1>3, <1>5, AdderAdds
<1>. QED
  BY <1>2, <1>6 DEF f

LEMMA VisitsIs ==
  ASSUME NEW fn, NEW S, S = DOMAIN fn, IsFiniteSet(S), \A x \in S : fn[x].visits \in Int
  PROVE  \E it : Adds(it, [x \in S |-> fn[x].visits], S) /\ VisitsOf(fn) = it[S]
<1>. DEFINE f == [x \in S |-> fn[x].visits]
            Rec(it) == it = [s \in SUBSET S |-> IF s = {} THEN 0
                               ELSE LET x == CHOOSE y \in s : TRUE IN fn[x].visits + it[s \ {x}]]
            sum == CHOOSE it : Rec(it)
<1>1. ASSUME NEW it PROVE Rec(it) <=> Adder(it, f, S)
  <2>1. ASSUME NEW s \in SUBSET S, s # {}
        PROVE  LET x == CHOOSE y \in s : TRUE IN f[x] = fn[x].visits
    <3>1. (CHOOSE y \in s : TRUE) \in s
      BY <2>1
    <3>. QED
      BY <3>1
  <2>2. [s \in SUBSET S |-> IF s = {} THEN 0 ELSE LET x == CHOOSE y \in s : TRUE IN fn[x].visits + it[s \ {x}]]
        = [s \in SUBSET S |-> IF s = {} THEN 0 ELSE LET x == CHOOSE y \in s : TRUE IN f[x] + it[s \ {x}]]
    <3>. HIDE DEF f
    <3>. QED
      BY <2>1
  <2>. HIDE DEF f
  <2>. QED
    BY <2>2 DEF Adder
<1>2. VisitsOf(fn) = sum[S]
  BY DEF VisitsOf, MapThenSumSet, MapThenFoldSet
<1>3. f \in [S -> Int]
  OBVIOUS
<1>. HIDE DEF Rec, f
<1>4. PICK it : Adder(it, f, S)
  BY <1>3, SumExists
<1>5. Rec(sum)
  BY <1>1, <1>4
<1>. HIDE DEF sum
<1>6. Adds(sum, f, S)
  BY <1>1, <1>3, <1>5, AdderAdds
<1>. QED
  BY <1>2, <1>6 DEF f

-----------------------------------------------------------------------------
(* The heatmap *)

\* A sample whose place, if it has one, is on the frame.
OnScreen(s) ==
  /\ s.dwell \in Int
  /\ Placed(s) => OnFrame(Point(s)).x \in 0..Width * Unit /\ OnFrame(Point(s)).y \in 0..Height * Unit

\* One coordinate: its cell is on the grid, and covers it.
LEMMA CellCovers ==
  ASSUME NEW size \in Nat \ {0}, NEW x \in 0..size * Unit
  PROVE  LET c == Least(Resolution - 1, (x * Resolution) \div (size * Unit))
         IN  /\ c \in 0..Resolution - 1
             /\ c * size * Unit <= x * Resolution
             /\ x * Resolution <= (c + 1) * size * Unit
<1>. DEFINE R == Resolution
            b == size * Unit
            a == x * R
            q == a \div b
            c == Least(R - 1, q)
<1>1. R \in Nat \ {0} /\ Unit \in Nat \ {0}
  BY QueryAssumption
<1>2. b \in Nat \ {0} /\ x \in Nat /\ x <= b
  BY <1>1
<1>3. a \in Nat
  BY <1>1, <1>2
<1>4. a <= R * b
  BY <1>1, <1>2
<1>. HIDE DEF a, b, R
<1>5. q \in Nat /\ b * q <= a /\ b * (q + 1) > a
  <2>1. q \in Nat
    BY <1>2, <1>3, Quotient
  <2>2. q + 1 \in Nat /\ q <= q /\ q + 1 > q
    BY <2>1
  <2>. QED
    BY <1>2, <1>3, <2>1, <2>2, QuotientIs
<1>6. c = IF R - 1 < q THEN R - 1 ELSE q
  BY DEF Least
<1>. HIDE DEF q, c
<1>7. c \in Nat /\ c <= R - 1 /\ c <= q
  BY <1>1, <1>5, <1>6
<1>8. b * c <= a
  <2>1. b * c <= b * q
    BY <1>2, <1>5, <1>7
  <2>2. b * c \in Int /\ b * q \in Int
    BY <1>2, <1>5, <1>7
  <2>. QED
    BY <1>3, <1>5, <2>1, <2>2
<1>9. a <= b * (c + 1)
  <2>1. CASE c = q
    <3>1. b * (q + 1) \in Int
      BY <1>2, <1>5
    <3>. QED
      BY <1>3, <1>5, <2>1, <3>1
  <2>2. CASE c = R - 1
    <3>1. b * (c + 1) = R * b
      BY <1>1, <1>2, <2>2
    <3>. QED
      BY <1>4, <3>1
  <2>. QED
    BY <1>6, <2>1, <2>2
<1>10. b * c = c * size * Unit /\ b * (c + 1) = (c + 1) * size * Unit
  <2>1. \A k \in Nat : size * Unit * k = k * size * Unit
    BY <1>1
  <2>2. c + 1 \in Nat
    BY <1>7
  <2>. QED
    BY <1>7, <2>1, <2>2 DEF b
<1>. QED
  BY <1>1, <1>7, <1>8, <1>9, <1>10 DEF a, b, c, q, R

\* The share of the fullest cell.
LEMMA FullShare == ASSUME NEW p \in Nat \ {0} PROVE Share(p, p) = 100
<1>. DEFINE a == 200 * p + p
            b == 2 * p
<1>1. a \in Nat /\ b \in Nat \ {0} /\ a = b * 100 + p /\ p < b /\ p > 0
  OBVIOUS
<1>. HIDE DEF a, b
<1>2. a \div b = 100
  <2>1. 100 \in Nat /\ 101 \in Nat
    OBVIOUS
  <2>2. b * 100 <= a /\ b * 101 > a
    BY <1>1
  <2>3. 100 <= a \div b /\ 101 > a \div b
    BY <1>1, <2>1, <2>2, QuotientIs
  <2>4. a \div b \in Nat
    BY <1>1, Quotient
  <2>. QED
    BY <2>3, <2>4
<1>3. a % b # 0
  <2>1. a = b * (a \div b) + (a % b) /\ a % b \in 0..b - 1
    BY <1>1, Quotient
  <2>. QED
    BY <1>1, <1>2, <2>1
<1>. QED
  BY <1>2, <1>3 DEF Share, a, b

\* A fuller cell has no smaller share: where a half is rounded down, the other
\* cell is below the half.
LEMMA ShareRises ==
  ASSUME NEW p \in Nat \ {0}, NEW v \in Nat, NEW w \in Nat, v > w
  PROVE  Share(v, p) >= Share(w, p)
<1>. DEFINE b == 2 * p
            a == 200 * v + p
            d == 200 * w + p
            up == a \div b
            low == d \div b
<1>1. b \in Nat \ {0} /\ a \in Nat /\ d \in Nat /\ d < a
  OBVIOUS
<1>2. Share(v, p) = IF a % b = 0 /\ up % 2 = 1 THEN up - 1 ELSE up
  BY DEF Share
<1>3. Share(w, p) = IF d % b = 0 /\ low % 2 = 1 THEN low - 1 ELSE low
  BY DEF Share
<1>. HIDE DEF a, b, d
<1>4. up \in Nat /\ low \in Nat
  BY <1>1, Quotient
<1>5. low <= up
  <2>1. b * low <= d
    <3>1. low <= low
      BY <1>4
    <3>. QED
      BY <1>1, <1>4, <3>1, QuotientIs
  <2>2. b * low <= a
    <3>1. b * low \in Int
      BY <1>1, <1>4
    <3>. QED
      BY <1>1, <2>1, <3>1
  <2>. QED
    BY <1>1, <1>4, <2>2, QuotientIs
<1>6. a % b = 0 => up > low
  <2>1. ASSUME a % b = 0 PROVE b * up > d
    <3>1. a = b * up + (a % b)
      BY <1>1, Quotient
    <3>2. b * up \in Int
      BY <1>1, <1>4
    <3>. QED
      BY <1>1, <2>1, <3>1, <3>2
  <2>. QED
    BY <1>1, <1>4, <2>1, QuotientIs
<1>. HIDE DEF up, low
<1>7. Share(w, p) <= low /\ Share(w, p) \in Int
  BY <1>3, <1>4
<1>8. Share(v, p) >= low /\ Share(v, p) \in Int
  BY <1>2, <1>4, <1>5, <1>6
<1>. QED
  BY <1>4, <1>7, <1>8

\* The cell of a sample.
CellOf(samples, i) == NormalizeToCell(OnFrame(Point(samples[i])))

PlacedOf(samples) == {i \in DOMAIN samples : Placed(samples[i])}

InCell(samples, c) == {i \in PlacedOf(samples) : CellOf(samples, i) = c}

CellsOf(samples) == {CellOf(samples, i) : i \in PlacedOf(samples)}

\* The grid that the samples give.
GridOf(samples, cells, peak) ==
  /\ \A c \in CellsOf(samples) : Cardinality(InCell(samples, c)) <= peak
  /\ CellsOf(samples) # {} => \E c \in CellsOf(samples) : Cardinality(InCell(samples, c)) = peak
  /\ DOMAIN cells = CellsOf(samples)
  /\ CellsOf(samples) = {} => cells = <<>>
  /\ \A c \in CellsOf(samples) :
       /\ cells[c].visits = Cardinality(InCell(samples, c))
       /\ cells[c].share = Share(Cardinality(InCell(samples, c)), peak)
       /\ cells[c].dwell = DwellOf(samples, InCell(samples, c))

LEMMA PartsFinite ==
  ASSUME NEW samples, NEW n \in Nat, DOMAIN samples = 1..n
  PROVE  /\ IsFiniteSet(PlacedOf(samples)) /\ Cardinality(PlacedOf(samples)) \in Nat
         /\ IsFiniteSet(CellsOf(samples))
         /\ \A c : /\ IsFiniteSet(InCell(samples, c))
                   /\ Cardinality(InCell(samples, c)) \in 0..Cardinality(PlacedOf(samples))
         /\ \A c \in CellsOf(samples) : Cardinality(InCell(samples, c)) > 0
<1>. DEFINE placed == PlacedOf(samples)
<1>1. IsFiniteSet(placed)
  <2>1. 1 \in Int /\ n \in Int
    OBVIOUS
  <2>2. IsFiniteSet(1..n)
    BY <2>1, FS_Interval
  <2>3. placed \subseteq 1..n
    BY DEF PlacedOf
  <2>. QED
    BY <2>2, <2>3, FS_Subset
<1>2. Cardinality(placed) \in Nat
  BY <1>1, FS_CardinalityType
<1>3. IsFiniteSet(CellsOf(samples))
  <2>. DEFINE f == [i \in placed |-> CellOf(samples, i)]
  <2>1. CellsOf(samples) = {f[i] : i \in placed}
    BY DEF CellsOf
  <2>2. f \in [placed -> CellsOf(samples)]
    BY DEF CellsOf
  <2>. HIDE DEF f
  <2>3. f \in Surjection(placed, CellsOf(samples))
    BY <2>1, <2>2 DEF Surjection
  <2>. QED
    BY <1>1, <2>3, FS_Surjection
<1>4. ASSUME NEW c
      PROVE  /\ IsFiniteSet(InCell(samples, c))
             /\ Cardinality(InCell(samples, c)) \in 0..Cardinality(placed)
             /\ c \in CellsOf(samples) => Cardinality(InCell(samples, c)) > 0
  <2>. DEFINE own == InCell(samples, c)
  <2>1. own \subseteq placed
    BY DEF InCell
  <2>2. c \in CellsOf(samples) => own # {}
    BY DEF InCell, CellsOf
  <2>. HIDE DEF own, placed
  <2>3. IsFiniteSet(own) /\ Cardinality(own) <= Cardinality(placed)
    BY <1>1, <2>1, FS_Subset
  <2>4. Cardinality(own) \in Nat /\ (Cardinality(own) = 0 <=> own = {})
    BY <2>3, FS_CardinalityType, FS_EmptySet
  <2>. QED
    BY <1>2, <2>2, <2>3, <2>4 DEF own
<1>. QED
  BY <1>1, <1>2, <1>3, <1>4

LEMMA GridIs ==
  ASSUME NEW samples, NEW n \in Nat, DOMAIN samples = 1..n
  PROVE  \E peak \in Nat : GridOf(samples, Heatmap(samples).cells, peak)
<1>. DEFINE C == CellsOf(samples)
            Held(c) == Cardinality(InCell(samples, c))
            sizes == {Held(c) : c \in C} \cup {0}
            peak == Max(sizes)
            cells == Heatmap(samples).cells
            total == Cardinality(PlacedOf(samples))
<1>1. total \in Nat /\ \A c \in C : Held(c) \in 0..total /\ Held(c) > 0
  BY PartsFinite
<1>2. cells = [c \in C |-> [visits |-> Held(c), share |-> Share(Held(c), peak), dwell |-> DwellOf(samples, InCell(samples, c))]]
  BY DEF Heatmap, CellsOf, PlacedOf, InCell, CellOf
<1>. HIDE DEF cells, C, total
<1>3. peak \in sizes /\ \A m \in sizes : m <= peak
  <2>1. sizes \in SUBSET (0..total) /\ sizes # {}
    BY <1>1
  <2>. HIDE DEF sizes
  <2>. QED
    BY <1>1, <2>1, GreatestMember
<1>4. peak \in Nat
  BY <1>1, <1>3
<1>. HIDE DEF peak
<1>5. \A c \in C : Held(c) <= peak
  BY <1>3
<1>6. C # {} => \E c \in C : Held(c) = peak
  BY <1>1, <1>3, <1>4
<1>7. DOMAIN cells = C
  BY <1>2
<1>8. C = {} => cells = <<>>
  BY <1>2
<1>9. \A c \in C : /\ cells[c].visits = Held(c)
                   /\ cells[c].share = Share(Held(c), peak)
                   /\ cells[c].dwell = DwellOf(samples, InCell(samples, c))
  BY <1>2
<1>10. GridOf(samples, cells, peak)
  BY <1>5, <1>6, <1>7, <1>8, <1>9 DEF GridOf, C
<1>. QED
  BY <1>4, <1>10 DEF cells

\* All cells together.
LEMMA GridTotals ==
  ASSUME NEW samples, NEW n \in Nat, DOMAIN samples = 1..n, \A i \in 1..n : samples[i].dwell \in Int,
         NEW cells, NEW peak, GridOf(samples, cells, peak)
  PROVE  /\ VisitsOf(cells) = Cardinality(PlacedOf(samples))
         /\ DwellOf(cells, DOMAIN cells) = DwellOf(samples, PlacedOf(samples))
<1>. DEFINE D == PlacedOf(samples)
            C == CellsOf(samples)
            key == [i \in D |-> CellOf(samples, i)]
            ones == [i \in D |-> 1]
            dwell == [i \in D |-> samples[i].dwell]
            Own(c) == InCell(samples, c)
            v == [c \in C |-> cells[c].visits]
            d == [c \in C |-> cells[c].dwell]
<1>1. IsFiniteSet(D) /\ IsFiniteSet(C) /\ DOMAIN cells = C
  BY PartsFinite DEF GridOf
<1>2. key \in [D -> C] /\ \A c : Own(c) = {i \in D : key[i] = c}
  BY DEF CellsOf, InCell
<1>3. \A c : IsFiniteSet(Own(c)) /\ Cardinality(Own(c)) \in Int
  BY PartsFinite
<1>4. ones \in [D -> Int] /\ dwell \in [D -> Int]
  BY DEF PlacedOf
<1>5. \A c \in C : cells[c].visits = Cardinality(Own(c)) /\ cells[c].dwell = DwellOf(samples, Own(c))
  BY DEF GridOf
<1>6. \A i \in D : samples[i].dwell \in Int
  BY DEF PlacedOf
<1>. HIDE DEF D, C, key, ones, dwell, Own, v, d
<1>7. PICK one : Adds(one, ones, D)
  <2>1. \E it : Adds(it, ones, D) /\ SumOver(ones, D) = it[D]
    BY <1>1, <1>4, SumIs
  <2>. QED
    BY <2>1
<1>8. \A s \in SUBSET D : one[s] = Cardinality(s)
  BY <1>1, <1>7, OnesCount DEF ones
<1>9. PICK sum : Adds(sum, dwell, D) /\ DwellOf(samples, D) = sum[D]
  BY <1>1, <1>6, DwellIs DEF dwell
<1>10. ASSUME NEW c PROVE Own(c) \in SUBSET D
  BY <1>2
<1>11. ASSUME NEW c \in C PROVE DwellOf(samples, Own(c)) = sum[Own(c)]
  <2>. DEFINE S == Own(c)
              g == [i \in S |-> samples[i].dwell]
  <2>1. S \in SUBSET D /\ IsFiniteSet(S) /\ \A i \in S : samples[i].dwell \in Int
    BY <1>3, <1>6, <1>10
  <2>2. \A i \in S : g[i] = dwell[i]
    BY <2>1 DEF dwell
  <2>. HIDE DEF S
  <2>3. PICK it : Adds(it, g, S) /\ DwellOf(samples, S) = it[S]
    BY <2>1, DwellIs
  <2>. HIDE DEF g
  <2>4. Restricts(it, g, S, sum, dwell, D)
    BY <1>1, <1>9, <2>1, <2>2, <2>3 DEF Restricts
  <2>5. it[S] = sum[S]
    BY <2>4, SameSum
  <2>. QED
    BY <2>3, <2>5 DEF S
<1>12. \A c \in C : cells[c].visits = one[Own(c)] /\ cells[c].visits \in Int
  BY <1>3, <1>5, <1>8, <1>10
<1>13. \A c \in C : cells[c].dwell = sum[Own(c)] /\ cells[c].dwell \in Int
  <2>1. \A s \in SUBSET D : sum[s] \in Int
    BY <1>9 DEF Adds
  <2>. QED
    BY <1>5, <1>10, <1>11, <2>1
<1>14. VisitsOf(cells) = Cardinality(D)
  <2>1. PICK it : Adds(it, v, C) /\ VisitsOf(cells) = it[C]
    BY <1>1, <1>12, VisitsIs DEF v
  <2>2. \A c \in C : v[c] = one[{i \in D : key[i] = c}]
    BY <1>2, <1>12 DEF v
  <2>3. Parts(it, v, C, key, one, ones, D)
    BY <1>1, <1>2, <1>4, <1>7, <2>1, <2>2 DEF Parts
  <2>4. it[C] = one[D]
    BY <2>3, Partition
  <2>. QED
    BY <1>8, <2>1, <2>4
<1>15. DwellOf(cells, C) = DwellOf(samples, D)
  <2>1. PICK it : Adds(it, d, C) /\ DwellOf(cells, C) = it[C]
    BY <1>1, <1>13, DwellIs DEF d
  <2>2. \A c \in C : d[c] = sum[{i \in D : key[i] = c}]
    BY <1>2, <1>13 DEF d
  <2>3. Parts(it, d, C, key, sum, dwell, D)
    BY <1>1, <1>2, <1>4, <1>9, <2>1, <2>2 DEF Parts
  <2>4. it[C] = sum[D]
    BY <2>3, Partition
  <2>. QED
    BY <1>9, <2>1, <2>4
<1>. QED
  BY <1>1, <1>14, <1>15 DEF D, C

\* Whatever the samples, as long as their places are on the frame: every one is
\* counted once, in the cell it lies in, and the shares rank the cells
\* (HeatmapEngine.get_heatmap, normalize_to_cell).
THEOREM HeatmapTheorem ==
  ASSUME NEW samples, NEW n \in Nat, DOMAIN samples = 1..n, \A i \in 1..n : OnScreen(samples[i])
  PROVE  AddsUp(samples)
<1>. DEFINE placed == {i \in DOMAIN samples : Placed(samples[i])}
            cells == Heatmap(samples).cells
            C == CellsOf(samples)
            Held(c) == Cardinality(InCell(samples, c))
            Covers(c, p) == /\ c[1] * Width * Unit <= p.x * Resolution
                            /\ p.x * Resolution <= (c[1] + 1) * Width * Unit
                            /\ c[2] * Height * Unit <= p.y * Resolution
                            /\ p.y * Resolution <= (c[2] + 1) * Height * Unit
<1>1. PICK peak \in Nat : GridOf(samples, cells, peak)
  BY GridIs
<1>2. placed = PlacedOf(samples)
  BY DEF PlacedOf
<1>3. /\ DOMAIN cells = C
      /\ C = {} => cells = <<>>
      /\ C # {} => \E c \in C : Held(c) = peak
      /\ \A c \in C : Held(c) <= peak /\ cells[c].visits = Held(c) /\ cells[c].share = Share(Held(c), peak)
  BY <1>1 DEF GridOf
<1>4. \A c \in C : Held(c) \in Nat /\ Held(c) > 0
  BY PartsFinite
<1>. HIDE DEF cells, placed
<1>5. VisitsOf(cells) = Cardinality(placed) /\ DwellOf(cells, DOMAIN cells) = DwellOf(samples, placed)
  BY <1>1, <1>2, GridTotals DEF OnScreen
<1>6. ASSUME NEW i \in PlacedOf(samples)
      PROVE  /\ CellOf(samples, i) \in (0..Resolution - 1) \X (0..Resolution - 1)
             /\ Covers(CellOf(samples, i), OnFrame(Point(samples[i])))
  <2>. DEFINE p == OnFrame(Point(samples[i]))
              x == Least(Resolution - 1, (p.x * Resolution) \div (Width * Unit))
              y == Least(Resolution - 1, (p.y * Resolution) \div (Height * Unit))
  <2>1. p.x \in 0..Width * Unit /\ p.y \in 0..Height * Unit
    BY DEF PlacedOf, OnScreen
  <2>2. CellOf(samples, i) = <<x, y>>
    BY DEF CellOf, NormalizeToCell, CellUnclamped
  <2>3. Width \in Nat \ {0} /\ Height \in Nat \ {0}
    BY QueryAssumption
  <2>. HIDE DEF p
  <2>4. /\ x \in 0..Resolution - 1
        /\ x * Width * Unit <= p.x * Resolution /\ p.x * Resolution <= (x + 1) * Width * Unit
    BY <2>1, <2>3, CellCovers
  <2>5. /\ y \in 0..Resolution - 1
        /\ y * Height * Unit <= p.y * Resolution /\ p.y * Resolution <= (y + 1) * Height * Unit
    BY <2>1, <2>3, CellCovers
  <2>. HIDE DEF x, y
  <2>. QED
    BY <2>2, <2>4, <2>5 DEF p
<1>7. DOMAIN cells \subseteq (0..Resolution - 1) \X (0..Resolution - 1)
  BY <1>3, <1>6 DEF CellsOf
<1>8. \A i \in placed : \E c \in DOMAIN cells : Covers(c, OnFrame(Point(samples[i])))
  <2>. HIDE DEF Covers
  <2>. QED
    BY <1>2, <1>3, <1>6 DEF CellsOf
<1>9. cells # <<>> => \E c \in DOMAIN cells : cells[c].share = 100
  <2>1. ASSUME cells # <<>> PROVE \E c \in DOMAIN cells : cells[c].share = 100
    <3>1. PICK c \in C : Held(c) = peak
      BY <1>3, <2>1
    <3>2. peak \in Nat \ {0}
      BY <1>4, <3>1
    <3>3. cells[c].share = 100
      BY <1>3, <3>1, <3>2, FullShare
    <3>. QED
      BY <1>3, <3>1, <3>3
  <2>. QED
    BY <2>1
<1>10. \A c, e \in DOMAIN cells : cells[c].visits > cells[e].visits => cells[c].share >= cells[e].share
  <2>1. ASSUME NEW c \in C, NEW e \in C, Held(c) > Held(e) PROVE Share(Held(c), peak) >= Share(Held(e), peak)
    <3>1. Held(c) \in Nat /\ Held(e) \in Nat /\ Held(e) > 0 /\ Held(c) <= peak
      BY <1>3, <1>4
    <3>2. peak \in Nat \ {0}
      BY <2>1, <3>1
    <3>. HIDE DEF Held
    <3>. QED
      BY <2>1, <3>1, <3>2, ShareRises
  <2>. QED
    BY <1>3, <2>1
<1>. QED
  BY <1>5, <1>7, <1>8, <1>9, <1>10 DEF AddsUp, placed, cells

LEMMA RowsAre == ASSUME NEW row \in AnyRow PROVE "id" \in DOMAIN row /\ row.at \in Int
<1>1. row.at \in 0..3 \cup 1..3
  BY DEF AnyRow
<1>2. DOMAIN row = {"id", "type", "at", "zone", "queue", "depth", "queueDepth", "dwell", "staff"}
  BY DEF AnyRow
<1>. QED
  BY <1>1, <1>2

LEMMA TablesAreSheets == ASSUME NEW shapes \in Seq(AnyRow) PROVE Sheet(Table(shapes))
<1>. DEFINE n == Len(shapes)
            f == [i \in 1..n |-> [shapes[i] EXCEPT !.id = i]]
<1>1. n \in Nat /\ DOMAIN shapes = 1..n /\ \A i \in 1..n : shapes[i] \in AnyRow
  <2>. HIDE DEF f
  <2>. QED
    OBVIOUS
<1>. HIDE DEF n
<1>2. \A i \in 1..n : f[i].id = i /\ f[i].at \in Int /\ i \in Int
  <2>. SUFFICES ASSUME NEW i \in 1..n PROVE f[i].id = i /\ f[i].at \in Int
    BY <1>1
  <2>. DEFINE row == shapes[i]
  <2>1. "id" \in DOMAIN row /\ row.at \in Int
    BY <1>1, RowsAre
  <2>2. f[i] = [row EXCEPT !.id = i]
    OBVIOUS
  <2>. HIDE DEF row, f
  <2>. QED
    BY <2>1, <2>2
<1>3. Table(shapes) = {f[i] : i \in 1..n}
  BY <1>1 DEF Table
<1>. HIDE DEF f
<1>4. IsFiniteSet(Table(shapes))
  <2>1. IsFiniteSet(1..n)
    BY <1>1, FS_Interval
  <2>. DEFINE g == [i \in 1..n |-> f[i]]
  <2>2. g \in Surjection(1..n, Table(shapes))
    BY <1>3 DEF Surjection
  <2>. HIDE DEF g
  <2>. QED
    BY <2>1, <2>2, FS_Surjection
<1>. QED
  BY <1>2, <1>3, <1>4 DEF Sheet

\* The samples of the heatmap are on the frame.
LEMMA SamplesOnScreen == ASSUME NEW s \in AnySample PROVE OnScreen(s)
<1>. DEFINE p == Point(s)
<1>0. Unit \in Nat \ {0} /\ Width \in Nat \ {0} /\ Height \in Nat \ {0}
  BY QueryAssumption
<1>1. CASE s.place = "bbox"
  <2>1. PICK x \in {Width \div 3, Width \div 2, Width} : s.x = 2 * Unit * x
    BY <1>1 DEF AnySample
  <2>2. PICK y \in {0, Height - 1, Height} : s.y = 2 * Unit * y
    BY <1>1 DEF AnySample
  <2>3. x \in 0..Width
    <3>1. Width \div 3 \in 0..Width
      BY <1>0
    <3>2. Width \div 2 \in 0..Width
      BY <1>0
    <3>3. Width \in 0..Width
      BY <1>0
    <3>. QED
      BY <3>1, <3>2, <3>3
  <2>4. y \in 0..Height
    BY <1>0
  <2>5. \A k \in Nat : (2 * Unit * k) \div 2 = Unit * k
    BY <1>0
  <2>6. x \in Nat /\ y \in Nat
    BY <2>3, <2>4
  <2>7. p.x = Unit * x /\ p.y = Unit * y
    BY <1>1, <2>1, <2>2, <2>5, <2>6 DEF Point
  <2>. HIDE DEF p
  <2>8. Unit * x \in 0..Width * Unit /\ Unit * y \in 0..Height * Unit
    BY <1>0, <2>3, <2>4
  <2>9. \A u \in 0..Unit : u * Width \in 0..Width * Unit /\ u * Height \in 0..Height * Unit
    BY <1>0
  <2>10. OnFrame(p).x \in 0..Width * Unit /\ OnFrame(p).y \in 0..Height * Unit
    BY <2>7, <2>8, <2>9 DEF OnFrame
  <2>11. s.dwell \in Int
    BY DEF AnySample
  <2>. QED
    BY <2>10, <2>11 DEF OnScreen, p
<1>2. CASE s.place = "normalized"
  <2>1. s.x \in {0, Unit \div 2, Unit} /\ s.y = Unit
    BY <1>2 DEF AnySample
  <2>2. s.x \in 0..Unit /\ s.y \in 0..Unit
    <3>1. Unit \div 2 \in 0..Unit
      BY <1>0
    <3>. QED
      BY <1>0, <2>1, <3>1
  <2>3. p = [x |-> s.x, y |-> s.y]
    BY <1>2 DEF Point
  <2>. HIDE DEF p
  <2>4. \A u \in 0..Unit : u * Width \in 0..Width * Unit /\ u * Height \in 0..Height * Unit
    BY <1>0
  <2>5. OnFrame(p).x \in 0..Width * Unit /\ OnFrame(p).y \in 0..Height * Unit
    BY <2>2, <2>3, <2>4 DEF OnFrame
  <2>6. s.dwell \in Int
    BY DEF AnySample
  <2>. QED
    BY <2>5, <2>6 DEF OnScreen, p
<1>3. CASE s.place = "nowhere"
  <2>1. s.dwell \in Int
    BY DEF AnySample
  <2>. QED
    BY <1>3, <2>1 DEF OnScreen, Placed
<1>4. s.place \in {"bbox", "normalized", "nowhere"}
  BY DEF AnySample
<1>. QED
  BY <1>1, <1>2, <1>3, <1>4

-----------------------------------------------------------------------------
(* The calls of the queries *)

QueueCall == [n : Nat \ {0}, usual : Int, last : Int]

\* What the queries are called with.
QueriesTyped ==
  ~Idle =>
    /\ call[1] = "rows" => call[2] \in Seq(AnyRow)
    /\ call[1] = "queue" => call[2] \in QueueCall
    /\ call[1] = "map" => call[2] \in Seq(AnySample)

LEMMA RowsCalls == ASSUME QueryStore PROVE call'[1] = "rows" /\ call'[2] \in Seq(AnyRow)
<1>1. PICK n \in 0..MaxRows : \E shapes \in [1..n -> AnyRow] : call' = <<"rows", shapes>>
  BY DEF QueryStore
<1>2. PICK shapes \in [1..n -> AnyRow] : call' = <<"rows", shapes>>
  BY <1>1
<1>3. n \in Nat
  OBVIOUS
<1>4. shapes \in Seq(AnyRow)
  BY <1>3
<1>. QED
  BY <1>2, <1>4

LEMMA QueueCalls == ASSUME ReadQueue PROVE call'[1] = "queue" /\ call'[2] \in QueueCall
<1>1. PICK n \in 1..12, usual \in {0, 3, 6, 40}, last \in 0..DepthAlarm :
        call' = <<"queue", [n |-> n, usual |-> usual, last |-> last]>>
  BY DEF ReadQueue
<1>2. n \in Nat \ {0} /\ usual \in Int /\ last \in Int
  OBVIOUS
<1>. QED
  BY <1>1, <1>2 DEF QueueCall

LEMMA MapCalls == ASSUME DrawHeatmap PROVE call'[1] = "map" /\ call'[2] \in Seq(AnySample)
<1>1. PICK n \in 0..MaxSamples : \E samples \in [1..n -> AnySample] : call' = <<"map", samples>>
  BY DEF DrawHeatmap
<1>2. PICK samples \in [1..n -> AnySample] : call' = <<"map", samples>>
  BY <1>1
<1>3. n \in Nat
  OBVIOUS
<1>4. samples \in Seq(AnySample)
  BY <1>3
<1>. QED
  BY <1>2, <1>4

LEMMA TypedQueries == CallSpec => []QueriesTyped
<1>1. CallInit => QueriesTyped
  BY DEF CallInit, QueriesTyped
<1>2. QueriesTyped /\ [CallNext]_call => QueriesTyped'
  <2>. SUFFICES ASSUME QueriesTyped, [CallNext]_call PROVE QueriesTyped'
    OBVIOUS
  <2>1. CASE QueryStore
    BY <2>1, RowsCalls DEF QueriesTyped
  <2>2. CASE ReadQueue
    BY <2>2, QueueCalls DEF QueriesTyped
  <2>3. CASE DrawHeatmap
    BY <2>3, MapCalls DEF QueriesTyped
  <2>4. CASE ReadShelf
    BY <2>4 DEF ReadShelf, QueriesTyped
  <2>5. CASE RunCycle
    BY <2>5 DEF RunCycle, QueriesTyped
  <2>6. CASE ExportEvent
    BY <2>6 DEF ExportEvent, QueriesTyped
  <2>7. CASE PlayVideo
    BY <2>7 DEF PlayVideo, QueriesTyped
  <2>8. CASE RunBatch
    BY <2>8 DEF RunBatch, QueriesTyped
  <2>9. CASE TrackKeyframe
    BY <2>9 DEF TrackKeyframe, QueriesTyped
  <2>10. CASE StreamFrames
    BY <2>10 DEF StreamFrames, QueriesTyped
  <2>11. CASE CrossLine
    BY <2>11 DEF CrossLine, QueriesTyped
  <2>12. CASE Return
    BY <2>12 DEF Return, QueriesTyped, Idle
  <2>13. CASE UNCHANGED call
    BY <2>13 DEF QueriesTyped, Idle
  <2>. QED
    BY <2>1, <2>2, <2>3, <2>4, <2>5, <2>6,
       <2>7, <2>8, <2>9, <2>10, <2>11, <2>12, <2>13 DEF CallNext
<1>. QED
  BY <1>1, <1>2, PTL DEF CallSpec

\* Metrics and anomalies agree on every table (repositories.py, metrics.py and
\* anomalies.py).
THEOREM TablesTheorem == CallSpec => []QueriesAgree
<1>1. QueriesTyped => QueriesAgree
  <2>. SUFFICES ASSUME QueriesTyped, ~Idle, call[1] = "rows" PROVE Agree(Table(call[2]), 0, 2, 3)
    BY DEF QueriesAgree
  <2>1. Sheet(Table(call[2]))
    BY TablesAreSheets DEF QueriesTyped
  <2>2. 0 \in Int /\ 2 \in Int /\ 3 \in Int /\ 0 <= 2
    OBVIOUS
  <2>. QED
    BY <2>1, <2>2, QueriesTheorem
<1>. QED
  BY <1>1, TypedQueries, PTL

\* A queue that grows out of its steady length is seen for its length or for the
\* jump (detect_queue_spikes).
THEOREM SpikesTheorem == CallSpec => []SpikeIsSeen
<1>1. QueriesTyped => SpikeIsSeen
  <2>. SUFFICES ASSUME QueriesTyped, ~Idle, call[1] = "queue" PROVE SpikeSeen(call[2].n, call[2].usual, call[2].last)
    BY DEF SpikeIsSeen
  <2>1. call[2].n \in Nat \ {0} /\ call[2].usual \in Int /\ call[2].last \in Int
    BY DEF QueriesTyped, QueueCall
  <2>. QED
    BY <2>1, SpikeTheorem
<1>. QED
  BY <1>1, TypedQueries, PTL

\* The cells of every heatmap add up to its samples (HeatmapEngine.get_heatmap).
THEOREM HeatmapsTheorem == CallSpec => []HeatmapAddsUp
<1>1. QueriesTyped => HeatmapAddsUp
  <2>. SUFFICES ASSUME QueriesTyped, ~Idle, call[1] = "map" PROVE AddsUp(call[2])
    BY DEF HeatmapAddsUp
  <2>. DEFINE samples == call[2]
              n == Len(samples)
  <2>1. samples \in Seq(AnySample)
    BY DEF QueriesTyped
  <2>2. n \in Nat /\ DOMAIN samples = 1..n /\ \A i \in 1..n : samples[i] \in AnySample
    <3>. HIDE DEF samples
    <3>. QED
      BY <2>1
  <2>3. \A i \in 1..n : OnScreen(samples[i])
    BY <2>2, SamplesOnScreen
  <2>. HIDE DEF n
  <2>. QED
    BY <2>2, <2>3, HeatmapTheorem
<1>. QED
  BY <1>1, TypedQueries, PTL
=============================================================================
