----------------------------- MODULE FreshnessProofs -----------------------------
(***************************************************************************)
(* Is every camera still reporting?  For any cameras, stores, thresholds,  *)
(* clock skew and anomalies of other kinds: /health says ok only while all *)
(* cameras it knew of report, and the anomalies of a store name a silent   *)
(* camera or the silent store, unless the limit has cut that off.          *)
(***************************************************************************)
EXTENDS Freshness, SequenceTheorems, FiniteSetTheorems, TLAPS

Time == 0..(MaxTime + Skew)

MaybeTime == Time \cup {None}

\* Which fields a request has, whatever is in them.
HealthField ==
  {"pc", "at", "known", "watermark", "latest", "ingested", "batch", "stores", "answer"}

HealthRecord(h) == h = [f \in HealthField |-> h[f]]

DetectField == {"pc", "store", "at", "others", "feeds", "items"}

DetectRecord(d) == d = [f \in DetectField |-> d[f]]

\* The newest row of a camera is dated no later than it was heard, but for the
\* skew of its clock.
HeardInv ==
  /\ now \in 0..MaxTime
  /\ newest \in [Camera -> MaybeTime] /\ heard \in [Camera -> MaybeTime]
  /\ \A c \in Camera :
       /\ newest[c] = None <=> heard[c] = None
       /\ newest[c] # None => newest[c] <= heard[c] + Skew /\ heard[c] <= now

\* A request for /health has no answer before its last query, and every camera
\* it knows of has rows.
HealthInv ==
  /\ HealthRecord(health)
  /\ health.at \in 0..MaxTime
  /\ health.known \subseteq Known
  /\ health.pc # "answered" => health.answer = "none"
  /\ OkMeansHeard

DetectInv ==
  /\ DetectRecord(detect)
  /\ detect.pc = "last" =>
       /\ detect.at \in 0..MaxTime
       /\ detect.feeds \in [Camera -> MaybeTime]
       /\ detect.others \in Others
  /\ StaleIsReported

Inv == HeardInv /\ HealthInv /\ DetectInv

-----------------------------------------------------------------------------
(* Times *)

LEMMA Constants ==
  /\ IsFiniteSet(Camera) /\ StoreOf \in [Camera -> Store] /\ Others \subseteq Seq(DOMAIN Rank)
  /\ StaleWarn \in Nat \ {0} /\ StaleDown \in Nat \ {0}
  /\ FeedWarn \in Nat \ {0} /\ FeedCritical \in Nat \ {0} /\ Limit \in Nat \ {0}
  /\ Skew \in Nat /\ MaxTime \in Nat /\ MaxTime + Skew < None /\ None \in Nat
BY ThresholdAssumption DEF None

LEMMA TimesAreNone ==
  /\ Time \subseteq Nat /\ None \notin Time /\ 0..MaxTime \subseteq Time
  /\ \A a \in 0..MaxTime : a < None
BY Constants DEF Time

\* A row adds its time to the newest one.
LEMMA LatestOfTwo ==
  ASSUME NEW a \in MaybeTime, NEW b \in Time
  PROVE  Latest({a, b}) = IF a = None \/ a <= b THEN b ELSE a
<1>. DEFINE T == {a, b} \ {None}
<1>1. b \in Nat /\ b # None /\ (a \in Nat \/ a = None)
  BY TimesAreNone DEF MaybeTime
<1>2. Latest({a, b}) = Max(T)
  BY <1>1 DEF Latest
<1>. DEFINE m == IF a = None \/ a <= b THEN b ELSE a
<1>3. m \in T /\ (\A y \in T : m >= y) /\ (\A x \in T : (\A y \in T : x >= y) => x = m)
  <2>1. CASE a = None
    BY <1>1, <2>1
  <2>2. CASE a # None
    BY <1>1, <2>2
  <2>. QED
    BY <2>1, <2>2
<1>. HIDE DEF T, m
<1>4. Max(T) = m
  BY <1>3 DEF Max
<1>. QED
  BY <1>2, <1>4 DEF m

\* A feed that is not stale was heard of within the warning time.
LEMMA FreshFeed ==
  ASSUME NEW at \in 0..MaxTime, NEW past \in Time, FeedStatus(Since(at, past)) \notin Bad
  PROVE  past + StaleWarn > at
<1>. DEFINE age == Since(at, past)
<1>1. past \in Nat /\ past # None /\ at \in Nat /\ at < None
  BY TimesAreNone
<1>2. age = IF at > past THEN at - past ELSE 0
  BY <1>1 DEF Since
<1>3. age \in Nat /\ age # None
  BY <1>1, <1>2, Constants
<1>4. FeedStatus(age) \notin Bad
  OBVIOUS
<1>. HIDE DEF age
<1>5. ~(age >= StaleWarn)
  <2>1. ASSUME age >= StaleWarn PROVE FALSE
    <3>1. CASE age >= StaleDown
      <4>1. ~(age < StaleDown)
        BY <1>3, <3>1, Constants
      <4>2. FeedStatus(age) = "down"
        BY <1>3, <3>1, <4>1 DEF FeedStatus
      <4>. QED
        BY <1>4, <4>2 DEF Bad
    <3>2. CASE ~(age >= StaleDown)
      <4>1. age < StaleDown
        BY <1>3, <3>2, Constants
      <4>2. FeedStatus(age) = "degraded"
        BY <1>3, <2>1, <3>2, <4>1 DEF FeedStatus
      <4>. QED
        BY <1>4, <4>2 DEF Bad
    <3>. QED
      BY <3>1, <3>2
  <2>. QED
    BY <2>1
<1>. QED
  BY <1>1, <1>2, <1>3, <1>5, Constants

\* The time since a camera was heard does not grow when it is heard again.
LEMMA HeardSince ==
  ASSUME NEW at \in 0..MaxTime, NEW past \in Time
  PROVE  Since(at, past) = IF at > past THEN at - past ELSE 0
BY TimesAreNone DEF Since

-----------------------------------------------------------------------------
(* What has been heard *)

LEMMA InitHeard == Init => HeardInv
BY Constants DEF Init, HeardInv, MaybeTime

LEMMA IngestHeard ==
  ASSUME HeardInv, NEW c \in Camera, NEW at \in 0..(MaxTime + Skew), Ingest(c, at)
  PROVE  /\ HeardInv' /\ Known \subseteq Known'
         /\ \A d \in Camera : heard'[d] = IF d = c THEN now ELSE heard[d]
<1>1. /\ at <= now + Skew /\ now' = now
      /\ newest' = [newest EXCEPT ![c] = Latest({newest[c], at})]
      /\ heard' = [heard EXCEPT ![c] = now]
  BY DEF Ingest, HeardInv
<1>2. at \in Time /\ at \in Nat /\ newest[c] \in MaybeTime /\ now \in 0..MaxTime /\ now \in Time
  BY TimesAreNone DEF HeardInv, Time
<1>3. newest'[c] = IF newest[c] = None \/ newest[c] <= at THEN at ELSE newest[c]
  BY <1>1, <1>2, LatestOfTwo DEF HeardInv
<1>4. newest'[c] \in Time /\ newest'[c] <= now + Skew
  <2>1. CASE newest[c] = None \/ newest[c] <= at
    BY <1>1, <1>2, <1>3, <2>1
  <2>2. CASE ~(newest[c] = None \/ newest[c] <= at)
    <3>1. newest[c] \in Time /\ newest[c] <= heard[c] + Skew /\ heard[c] <= now /\ heard[c] \in Time
      BY <1>2, <2>2, TimesAreNone DEF MaybeTime, HeardInv
    <3>2. newest'[c] = newest[c]
      BY <1>3, <2>2
    <3>3. newest[c] \in Nat /\ heard[c] \in Nat /\ now \in Nat /\ Skew \in Nat
      BY <1>2, <3>1, TimesAreNone, Constants
    <3>4. newest[c] <= now + Skew
      BY <3>1, <3>3
    <3>. QED
      BY <3>1, <3>2, <3>4
  <2>. QED
    BY <2>1, <2>2
<1>5. /\ \A d \in Camera : heard'[d] = IF d = c THEN now ELSE heard[d]
      /\ \A d \in Camera \ {c} : newest'[d] = newest[d]
      /\ DOMAIN newest' = Camera /\ DOMAIN heard' = Camera
      /\ newest' = [d \in Camera |-> newest'[d]] /\ heard' = [d \in Camera |-> heard'[d]]
  BY <1>1 DEF HeardInv
<1>6. newest' \in [Camera -> MaybeTime] /\ heard' \in [Camera -> MaybeTime]
  BY <1>2, <1>4, <1>5 DEF HeardInv, MaybeTime
<1>7. ASSUME NEW d \in Camera
      PROVE  /\ newest'[d] = None <=> heard'[d] = None
             /\ newest'[d] # None => newest'[d] <= heard'[d] + Skew /\ heard'[d] <= now
  <2>1. CASE d = c
    <3>1. heard'[d] = now /\ newest'[d] # None /\ now # None
      BY <1>2, <1>4, <1>5, <2>1, TimesAreNone
    <3>. QED
      BY <1>2, <1>4, <2>1, <3>1
  <2>2. CASE d # c
    BY <1>5, <2>2 DEF HeardInv
  <2>. QED
    BY <2>1, <2>2
<1>8. Known \subseteq Known'
  <2>1. newest'[c] # None
    BY <1>4, TimesAreNone
  <2>. QED
    BY <1>5, <2>1 DEF Known
<1>. QED
  BY <1>1, <1>2, <1>5, <1>6, <1>7, <1>8 DEF HeardInv

\* No other step writes a row.
LEMMA OthersHeard ==
  ASSUME HeardInv, [Next]_vars,
         ~ \E c \in Camera, at \in 0..(MaxTime + Skew) : Ingest(c, at)
  PROVE  HeardInv' /\ newest' = newest /\ heard' = heard
<1>1. newest' = newest /\ heard' = heard /\ (now' = now \/ (now < MaxTime /\ now' = now + 1))
  BY DEF Next, vars, rows, IngestDuplicates, Restart, DbChange, Tick, HealthBegins, HealthProbe,
         Query, ReadOccurred, ReadIngested, ReadBatch, ReadStores, ReadCameras, DetectNothing,
         ReadFeeds, ReadLast
<1>2. now' \in 0..MaxTime /\ now <= now' /\ now \in Nat /\ now' \in Nat
  BY <1>1, Constants DEF HeardInv
<1>3. \A c \in Camera : heard[c] # None => heard[c] \in Nat
  BY TimesAreNone DEF HeardInv, MaybeTime
<1>. QED
  BY <1>1, <1>2, <1>3 DEF HeardInv

-----------------------------------------------------------------------------
(* The answers of /health *)

\* No answer is ok while a camera that has rows is stale.
LEMMA OkMeansFresh ==
  ASSUME NEW h, NEW cams, Overall(h, cams) = "ok", NEW c \in Camera, cams[c] # None
  PROVE  FeedStatus(Since(h.at, cams[c])) \notin Bad
<1>. DEFINE Status(s) == StoreStatus(s, h.at, h.stores[s].latest, h.stores[s].ingested, cams)
            statuses == {Status(s) : s \in Store}
<1>1. statuses \cap Bad = {}
  <2>1. \A feed, lag : OverallStatus(feed, lag, statuses) = "ok" => statuses \cap Bad = {}
    BY DEF OverallStatus
  <2>. HIDE DEF statuses
  <2>. QED
    BY <2>1 DEF Overall, statuses
<1>2. StoreOf[c] \in Store /\ c \in Cameras(StoreOf[c])
  BY Constants DEF Cameras
<1>3. Status(StoreOf[c]) \notin Bad
  BY <1>1, <1>2
<1>4. StaleCameras(h.at, cams) \cap Cameras(StoreOf[c]) = {}
  <2>1. ASSUME NEW s, NEW at, NEW latest, NEW stored,
               StaleCameras(at, cams) \cap Cameras(s) # {}
        PROVE  StoreStatus(s, at, latest, stored, cams) \in Bad
    BY <2>1 DEF StoreStatus, Bad
  <2>. QED
    BY <1>3, <2>1
<1>. QED
  BY <1>2, <1>4 DEF StaleCameras

\* The answer of a request that began when the cameras it knows of had rows.
LEMMA AnswerHeard ==
  ASSUME HeardInv, HealthInv, Overall(health, newest) = "ok", NEW c \in health.known
  PROVE  Since(health.at, heard[c]) < StaleWarn + Skew
<1>1. /\ c \in Camera /\ newest[c] # None /\ newest[c] \in Time /\ heard[c] \in Time
      /\ newest[c] <= heard[c] + Skew /\ health.at \in 0..MaxTime
  BY DEF HealthInv, HeardInv, Known, MaybeTime
<1>2. newest[c] + StaleWarn > health.at
  BY <1>1, OkMeansFresh, FreshFeed
<1>3. Since(health.at, heard[c]) = IF health.at > heard[c] THEN health.at - heard[c] ELSE 0
  BY <1>1, HeardSince
<1>4. newest[c] \in Nat /\ heard[c] \in Nat /\ health.at \in Nat
  BY <1>1, TimesAreNone
<1>. QED
  BY <1>1, <1>2, <1>3, <1>4, Constants

LEMMA IdleHealthIs ==
  /\ HealthRecord(IdleHealth) /\ IdleHealth.at = 0 /\ IdleHealth.known = {}
  /\ IdleHealth.pc = "idle" /\ IdleHealth.answer = "none"
BY DEF IdleHealth, HealthRecord, HealthField

\* An answer that is not ok says nothing.
LEMMA NewHealth ==
  ASSUME HealthRecord(health'), health'.at \in 0..MaxTime, (health'.known \subseteq Known'),
         health'.pc # "answered" => health'.answer = "none",
         health'.pc = "answered" => health'.answer # "ok"
  PROVE  HealthInv'
BY DEF HealthInv, OkMeansHeard

\* A query takes the request on, or ends it with an error.
LEMMA QueryHealth ==
  ASSUME HealthInv, NEW from, NEW h, Query(from, h), Known' = Known,
         HealthRecord(h), h.at = health.at, h.known = health.known,
         h.pc # "answered", h.answer = "none"
  PROVE  HealthInv'
<1>1. CASE dbUp
  <2>1. health' = h
    BY <1>1 DEF Query
  <2>. QED
    BY <2>1, NewHealth DEF HealthInv
<1>2. CASE ~dbUp
  <2>. DEFINE e == [IdleHealth EXCEPT !.pc = "answered", !.answer = "error"]
  <2>1. health' = e
    BY <1>2 DEF Query
  <2>2. HealthRecord(e) /\ e.at = 0 /\ e.known = {} /\ e.pc = "answered" /\ e.answer = "error"
    BY IdleHealthIs DEF HealthRecord, HealthField
  <2>. HIDE DEF e
  <2>. QED
    BY <2>1, <2>2, NewHealth, Constants
<1>. QED
  BY <1>1, <1>2

LEMMA InitHealth == Init => HealthInv
BY IdleHealthIs, Constants DEF Init, HealthInv, OkMeansHeard

LEMMA NextHealth == HeardInv /\ HealthInv /\ [Next]_vars => HealthInv'
<1> SUFFICES ASSUME HeardInv, HealthInv, [Next]_vars PROVE HealthInv'
  OBVIOUS
<1>1. CASE \E c \in Camera, at \in 0..(MaxTime + Skew) : Ingest(c, at)
  <2>1. PICK c \in Camera, at \in 0..(MaxTime + Skew) : Ingest(c, at)
    BY <1>1
  <2>2. /\ Known \subseteq Known' /\ health' = health
        /\ \A d \in Camera : heard'[d] = IF d = c THEN now ELSE heard[d]
    BY <2>1, IngestHeard DEF Ingest
  <2>3. ASSUME OkMeansHeard PROVE OkMeansHeard'
    <3> SUFFICES ASSUME health.pc = "answered", health.answer = "ok", NEW d \in health.known
                 PROVE  Since(health.at, heard'[d]) < StaleWarn + Skew
      BY <2>2 DEF OkMeansHeard
    <3>1. /\ Since(health.at, heard[d]) < StaleWarn + Skew
          /\ d \in Camera /\ heard[d] \in Time /\ heard[d] <= now /\ now \in 0..MaxTime
          /\ health.at \in 0..MaxTime
      BY <2>3 DEF OkMeansHeard, HealthInv, HeardInv, Known, MaybeTime
    <3>2. now \in Time /\ now \in Nat /\ heard[d] \in Nat /\ health.at \in Nat
      BY <3>1, TimesAreNone
    <3>3. /\ Since(health.at, heard[d]) = IF health.at > heard[d] THEN health.at - heard[d] ELSE 0
          /\ Since(health.at, now) = IF health.at > now THEN health.at - now ELSE 0
      BY <3>1, <3>2, HeardSince
    <3>4. Since(health.at, now) < StaleWarn + Skew
      BY <3>1, <3>2, <3>3, Constants
    <3>. QED
      BY <2>2, <3>1, <3>4
  <2>. QED
    BY <2>2, <2>3 DEF HealthInv
<1>2. ASSUME ~ \E c \in Camera, at \in 0..(MaxTime + Skew) : Ingest(c, at) PROVE HealthInv'
  <2>0. newest' = newest /\ heard' = heard /\ Known' = Known
    BY <1>2, OthersHeard DEF Known
  <2>1. CASE IngestDuplicates \/ DbChange \/ Tick \/ ReadLast \/ UNCHANGED vars
    <3>1. health' = health
      BY <2>1 DEF IngestDuplicates, DbChange, Tick, ReadLast, vars
    <3>. QED
      BY <2>0, <3>1 DEF HealthInv, OkMeansHeard
  <2>2. CASE Restart \/ \E s \in Store : DetectNothing(s) \/ \E others \in Others : ReadFeeds(s, others)
    <3>1. health' = IdleHealth
      BY <2>2 DEF Restart, DetectNothing, ReadFeeds
    <3>. QED
      BY <3>1, IdleHealthIs, NewHealth, Constants
  <2>3. CASE HealthBegins
    <3>. DEFINE h == [IdleHealth EXCEPT !.pc = "probe", !.at = now, !.known = Known,
                                        !.watermark = watermark]
    <3>1. health' = h
      BY <2>3 DEF HealthBegins
    <3>2. HealthRecord(h) /\ h.at = now /\ h.known = Known /\ h.pc = "probe" /\ h.answer = "none"
      BY IdleHealthIs DEF HealthRecord, HealthField
    <3>. HIDE DEF h
    <3>. QED
      BY <2>0, <3>1, <3>2, NewHealth DEF HeardInv
  <2>10. HealthRecord(health) /\ (health.pc # "answered" => health.answer = "none")
    BY DEF HealthInv
  <2>4. CASE HealthProbe
    <3>1. CASE dbUp
      <4>. DEFINE h == [health EXCEPT !.pc = "occurred"]
      <4>1. health' = h /\ health.pc = "probe"
        BY <2>4, <3>1 DEF HealthProbe
      <4>2. HealthRecord(h) /\ h.at = health.at /\ h.known = health.known /\ h.pc = "occurred"
            /\ h.answer = health.answer
        BY <2>10 DEF HealthRecord, HealthField
      <4>. HIDE DEF h
      <4>. QED
        BY <2>0, <2>10, <4>1, <4>2, NewHealth DEF HealthInv
    <3>2. CASE ~dbUp
      <4>. DEFINE h == [IdleHealth EXCEPT !.pc = "answered", !.answer = "down"]
      <4>1. health' = h
        BY <2>4, <3>2 DEF HealthProbe
      <4>2. HealthRecord(h) /\ h.at = 0 /\ h.known = {} /\ h.pc = "answered" /\ h.answer = "down"
        BY IdleHealthIs DEF HealthRecord, HealthField
      <4>. HIDE DEF h
      <4>. QED
        BY <4>1, <4>2, NewHealth, Constants
    <3>. QED
      BY <3>1, <3>2
  <2>5. CASE ReadOccurred
    <3>. DEFINE h == [health EXCEPT !.pc = "ingested", !.latest = Latest({newest[c] : c \in Camera})]
    <3>1. Query("occurred", h) /\ health.pc = "occurred"
      BY <2>5 DEF ReadOccurred, Query
    <3>2. HealthRecord(h) /\ h.at = health.at /\ h.known = health.known /\ h.pc = "ingested"
          /\ h.answer = health.answer
      BY <2>10 DEF HealthRecord, HealthField
    <3>. HIDE DEF h
    <3>. QED
      BY <2>0, <2>10, <3>1, <3>2, QueryHealth
  <2>6. CASE ReadIngested
    <3>. DEFINE h == [health EXCEPT !.pc = "batch", !.ingested = Latest({ingested[s] : s \in Store})]
    <3>1. Query("ingested", h) /\ health.pc = "ingested"
      BY <2>6 DEF ReadIngested, Query
    <3>2. HealthRecord(h) /\ h.at = health.at /\ h.known = health.known /\ h.pc = "batch"
          /\ h.answer = health.answer
      BY <2>10 DEF HealthRecord, HealthField
    <3>. HIDE DEF h
    <3>. QED
      BY <2>0, <2>10, <3>1, <3>2, QueryHealth
  <2>7. CASE ReadBatch
    <3>. DEFINE h == [health EXCEPT !.pc = "stores", !.batch = batch]
    <3>1. Query("batch", h) /\ health.pc = "batch"
      BY <2>7 DEF ReadBatch, Query
    <3>2. HealthRecord(h) /\ h.at = health.at /\ h.known = health.known /\ h.pc = "stores"
          /\ h.answer = health.answer
      BY <2>10 DEF HealthRecord, HealthField
    <3>. HIDE DEF h
    <3>. QED
      BY <2>0, <2>10, <3>1, <3>2, QueryHealth
  <2>8. CASE ReadStores
    <3>. DEFINE rowsOf == [s \in Store |-> [latest |-> Latest({newest[c] : c \in Cameras(s)}),
                                            ingested |-> ingested[s]]]
                h == [health EXCEPT !.pc = "cameras", !.stores = rowsOf]
    <3>1. Query("stores", h) /\ health.pc = "stores"
      BY <2>8 DEF ReadStores, Query
    <3>. HIDE DEF rowsOf
    <3>2. HealthRecord(h) /\ h.at = health.at /\ h.known = health.known /\ h.pc = "cameras"
          /\ h.answer = health.answer
      BY <2>10 DEF HealthRecord, HealthField
    <3>. HIDE DEF h
    <3>. QED
      BY <2>0, <2>10, <3>1, <3>2, QueryHealth
  <2>9. CASE ReadCameras
    <3>. DEFINE a == Overall(health, newest)
                h == [IdleHealth EXCEPT !.pc = "answered", !.at = health.at,
                                        !.known = health.known, !.answer = a]
                e == [IdleHealth EXCEPT !.pc = "answered", !.answer = "error"]
    <3>1. health' = IF dbUp THEN h ELSE e
      BY <2>9 DEF ReadCameras, Query
    <3>2. CASE dbUp
      <4>1. HealthRecord(h) /\ h.at = health.at /\ h.known = health.known /\ h.pc = "answered"
            /\ h.answer = a
        <5>. HIDE DEF a
        <5>. QED
          BY IdleHealthIs DEF HealthRecord, HealthField
      <4>2. a = "ok" => \A c \in health.known : Since(health.at, heard[c]) < StaleWarn + Skew
        BY AnswerHeard
      <4>. HIDE DEF a, h
      <4>. QED
        BY <2>0, <3>1, <3>2, <4>1, <4>2 DEF HealthInv, OkMeansHeard
    <3>3. CASE ~dbUp
      <4>1. HealthRecord(e) /\ e.at = 0 /\ e.known = {} /\ e.pc = "answered" /\ e.answer = "error"
        BY IdleHealthIs DEF HealthRecord, HealthField
      <4>. HIDE DEF e, h
      <4>. QED
        BY <3>1, <3>3, <4>1, NewHealth, Constants
    <3>. QED
      BY <3>2, <3>3
  <2>. QED
    BY <1>2, <2>1, <2>2, <2>3, <2>4, <2>5, <2>6, <2>7, <2>8, <2>9 DEF Next
<1>. QED
  BY <1>1, <1>2

-----------------------------------------------------------------------------
(* The anomalies of a store *)

LEMMA RankIs ==
  /\ DOMAIN Rank = {"CRITICAL", "WARN", "INFO"}
  /\ Rank["CRITICAL"] = 0 /\ Rank["WARN"] = 1 /\ Rank["INFO"] = 2
  /\ \A s \in DOMAIN Rank : Rank[s] \in Nat
BY DEF Rank

\* A sequence of the elements of a finite set has them all.
LEMMA SeqsCover ==
  ASSUME NEW S, IsFiniteSet(S), NEW p \in SetToSeqs(S)
  PROVE  /\ Cardinality(S) \in Nat /\ p \in [1..Cardinality(S) -> S]
         /\ p \in Seq(S) /\ Len(p) = Cardinality(S)
         /\ \A x \in S : \E i \in 1..Len(p) : p[i] = x
<1>. DEFINE n == Cardinality(S)
            D == 1..n
<1>1. n \in Nat
  BY FS_CardinalityType
<1>2. p \in [D -> S] /\ \A i, j \in D : i # j => p[i] # p[j]
  BY DEF SetToSeqs
<1>3. p \in Seq(S) /\ Len(p) = n
  BY <1>1, <1>2, SeqDef, LenProperties
<1>4. Cardinality(D) = n
  BY <1>1, FS_Interval
<1>5. p \in Injection(D, S)
  BY <1>2 DEF Injection, IsInjective
<1>6. p \in Surjection(D, S)
  <2>. HIDE DEF D, n
  <2>1. Cardinality(D) = Cardinality(S) <=> p \in Surjection(D, S)
    BY <1>5, FS_Injection
  <2>. QED
    BY <1>4, <2>1 DEF n
<1>7. \A x \in S : \E i \in D : p[i] = x
  BY <1>6 DEF Surjection
<1>. QED
  BY <1>1, <1>2, <1>3, <1>7

LEMMA LimitTyped ==
  ASSUME NEW n \in Nat
  PROVE  /\ Min({Limit, n}) = IF Limit <= n THEN Limit ELSE n
         /\ Min({Limit, n}) \in Nat
<1>. DEFINE m == IF Limit <= n THEN Limit ELSE n
<1>1. /\ m \in {Limit, n} /\ m \in Nat /\ \A y \in {Limit, n} : m <= y
      /\ \A x \in {Limit, n} : (\A y \in {Limit, n} : x <= y) => x = m
  BY Constants
<1>2. Min({Limit, n}) = m
  <2>. HIDE DEF m
  <2>. QED
    BY <1>1 DEF Min
<1>. QED
  BY <1>1, <1>2

\* An item that is no mere information is in the answer, or the limit is spent on
\* others that are none either.
LEMMA SevereKept ==
  ASSUME NEW T, NEW items \in Seq(T), \A i \in 1..Len(items) : items[i].severity \in DOMAIN Rank,
         NEW q \in 1..Len(items), Rank[items[q].severity] <= 1,
         NEW answer \in MostSevere(items)
  PROVE  \/ \E i \in DOMAIN answer : answer[i] = items[q]
         \/ /\ Len(answer) = Limit
            /\ \A i \in DOMAIN answer : Rank[answer[i].severity] <= 1
<1>. DEFINE n == Len(items)
<1>1. n \in Nat /\ DOMAIN items = 1..n
  BY LenProperties
<1>2. PICK p \in BySeverity(items) : answer = [i \in 1..Min({Limit, Len(p)}) |-> items[p[i]]]
  BY DEF MostSevere
<1>3. p \in SetToSeqs(1..n)
  BY <1>1, <1>2 DEF BySeverity
<1>4. IsFiniteSet(1..n) /\ Cardinality(1..n) = n
  BY <1>1, FS_Interval, SMTT(30)
<1>5. /\ p \in [1..n -> 1..n] /\ Len(p) = n /\ DOMAIN p = 1..n
      /\ \E i \in 1..n : p[i] = q
  <2>. HIDE DEF n
  <2>1. p \in [1..Cardinality(1..n) -> 1..n] /\ Len(p) = Cardinality(1..n)
        /\ \A x \in 1..n : \E i \in 1..Len(p) : p[i] = x
    BY <1>3, <1>4, SeqsCover
  <2>. QED
    BY <1>4, <2>1 DEF n
<1>6. PICK k \in 1..n : p[k] = q
  BY <1>5
<1>. DEFINE m == Min({Limit, n})
<1>7. m \in Nat /\ m <= n /\ (m = Limit \/ m = n)
  <2>1. m = (IF Limit <= n THEN Limit ELSE n) /\ Limit \in Nat
    BY <1>1, LimitTyped, Constants
  <2>. HIDE DEF m, n
  <2>. QED
    BY <1>1, <2>1
<1>8. answer = [i \in 1..m |-> items[p[i]]]
  BY <1>2, <1>5
<1>. HIDE DEF m, n
<1>9. answer \in Seq(Range(items)) /\ Len(answer) = m /\ DOMAIN answer = 1..m
  <2>1. \A i \in 1..m : i \in 1..n
    BY <1>1, <1>7
  <2>2. \A i \in 1..m : items[p[i]] \in Range(items)
    BY <1>1, <1>5, <2>1 DEF Range
  <2>3. answer \in [1..m -> Range(items)]
    BY <1>8, <2>2
  <2>. QED
    BY <1>7, <2>3, SeqDef, LenProperties
<1>10. CASE k <= m
  <2>1. k \in 1..m
    BY <1>1, <1>7, <1>10
  <2>. QED
    BY <1>6, <1>8, <1>9, <2>1
<1>11. CASE ~(k <= m)
  <2>1. m = Limit
    BY <1>1, <1>7, <1>11
  <2>2. ASSUME NEW i \in 1..m PROVE Rank[answer[i].severity] <= 1
    <3>1. i \in 1..n /\ i < k /\ i \in DOMAIN p /\ k \in DOMAIN p
      BY <1>1, <1>5, <1>7, <1>11
    <3>2. \/ Rank[items[p[i]].severity] < Rank[items[p[k]].severity]
          \/ Rank[items[p[i]].severity] = Rank[items[p[k]].severity]
      BY <1>2, <3>1 DEF BySeverity
    <3>3. p[i] \in 1..n /\ items[p[i]].severity \in DOMAIN Rank
      BY <1>5, <3>1 DEF n
    <3>4. Rank[items[p[i]].severity] \in Nat /\ Rank[items[q].severity] \in Nat
      BY <3>3, RankIs
    <3>5. Rank[items[p[i]].severity] <= 1
      BY <1>6, <3>2, <3>4
    <3>. QED
      BY <1>8, <3>5
  <2>. QED
    BY <1>9, <2>1, <2>2
<1>. QED
  BY <1>10, <1>11

\* What stale feeds there are, they are finitely many and warn; and a camera
\* that is silent for too long is one of them, or its store.
LEMMA StaleFeedsAre ==
  ASSUME NEW d, NEW last
  PROVE  /\ IsFiniteSet(StaleFeeds(d, last))
         /\ \A x \in StaleFeeds(d, last) : x.severity \in {"CRITICAL", "WARN"}
         /\ \A c \in Cameras(d.store) :
              d.feeds[c] # None /\ Since(d.at, d.feeds[c]) >= FeedWarn =>
                \E x \in StaleFeeds(d, last) : x.about \in {c, "store"}
<1>. DEFINE age == Since(d.at, last)
            seen == {c \in Cameras(d.store) : d.feeds[c] # None}
            late == {c \in seen : Since(d.at, d.feeds[c]) >= FeedWarn}
            Item(c) == [about |-> c, severity |-> Severity(Since(d.at, d.feeds[c]))]
<1>0. \A a : Severity(a) \in {"CRITICAL", "WARN"}
  BY DEF Severity
<1>1. CASE last # None /\ age >= FeedWarn
  <2>1. StaleFeeds(d, last) = {[about |-> "store", severity |-> Severity(age)]}
    BY <1>1 DEF StaleFeeds
  <2>. QED
    <3>. DEFINE x == [about |-> "store", severity |-> Severity(age)]
    <3>1. x.severity \in {"CRITICAL", "WARN"} /\ x.about = "store"
      BY <1>0
    <3>. HIDE DEF x
    <3>2. IsFiniteSet({x})
      BY FS_Singleton
    <3>3. StaleFeeds(d, last) = {x}
      BY <2>1 DEF x
    <3>. QED
      BY <3>1, <3>2, <3>3
<1>2. CASE ~(last # None /\ age >= FeedWarn) /\ seen = {}
  <2>1. StaleFeeds(d, last) = {[about |-> "store", severity |-> "CRITICAL"]}
    BY <1>2 DEF StaleFeeds
  <2>. QED
    <3>. DEFINE x == [about |-> "store", severity |-> "CRITICAL"]
    <3>1. x.severity \in {"CRITICAL", "WARN"} /\ x.about = "store"
      OBVIOUS
    <3>. HIDE DEF x
    <3>2. IsFiniteSet({x})
      BY FS_Singleton
    <3>3. StaleFeeds(d, last) = {x}
      BY <2>1 DEF x
    <3>. QED
      BY <3>1, <3>2, <3>3
<1>3. CASE ~(last # None /\ age >= FeedWarn) /\ seen # {}
  <2>1. StaleFeeds(d, last) = {Item(c) : c \in late}
    BY <1>3 DEF StaleFeeds
  <2>. DEFINE f == [c \in late |-> Item(c)]
              T == {Item(c) : c \in late}
  <2>2. late \in SUBSET Camera /\ IsFiniteSet(late)
    <3>1. late \in SUBSET Camera
      BY DEF Cameras
    <3>. QED
      BY <3>1, Constants, FS_Subset
  <2>3. f \in Surjection(late, T)
    BY DEF Surjection
  <2>4. IsFiniteSet(T)
    <3>. HIDE DEF f, T, late
    <3>. QED
      BY <2>2, <2>3, FS_Surjection
  <2>5. \A x \in T : x.severity \in {"CRITICAL", "WARN"}
    BY <1>0
  <2>6. ASSUME NEW c \in Cameras(d.store),
               d.feeds[c] # None, Since(d.at, d.feeds[c]) >= FeedWarn
        PROVE  \E x \in T : x.about \in {c, "store"}
    <3>1. c \in late
      BY <2>6
    <3>2. Item(c) \in T /\ Item(c).about = c
      BY <3>1
    <3>. QED
      BY <3>2
  <2>. QED
    BY <2>1, <2>4, <2>5, <2>6
<1>. QED
  BY <1>1, <1>2, <1>3

LEMMA IdleDetectIs ==
  /\ DetectRecord(IdleDetect) /\ IdleDetect.pc = "idle"
  /\ \A c \in Camera : IdleDetect.feeds[c] = None
BY DEF IdleDetect, DetectRecord, DetectField

LEMMA InitDetect == Init => DetectInv
BY IdleDetectIs DEF Init, DetectInv, StaleIsReported

\* The answer of a request that is at its last query.
LEMMA AnswerReports ==
  ASSUME DetectInv, detect.pc = "last", NEW last,
         NEW order \in SetToSeqs(StaleFeeds(detect, last)),
         NEW items \in MostSevere([i \in DOMAIN detect.others |->
                                     [about |-> "other", severity |-> detect.others[i]]] \o order),
         NEW c \in Cameras(detect.store),
         detect.feeds[c] # None, Since(detect.at, detect.feeds[c]) >= FeedWarn
  PROVE  \/ \E i \in DOMAIN items : items[i].about \in {c, "store"}
         \/ /\ Len(items) = Limit
            /\ \A i \in DOMAIN items : Rank[items[i].severity] <= Rank["WARN"]
<1>. DEFINE stale == StaleFeeds(detect, last)
            others == [i \in DOMAIN detect.others |->
                         [about |-> "other", severity |-> detect.others[i]]]
            all == others \o order
<1>1. detect.others \in Seq(DOMAIN Rank)
  BY Constants DEF DetectInv
<1>2. /\ others \in Seq(Range(others)) /\ Len(others) \in Nat
      /\ \A i \in 1..Len(others) : others[i].severity \in DOMAIN Rank
  <2>1. Len(detect.others) \in Nat /\ DOMAIN detect.others = 1..Len(detect.others)
        /\ \A i \in 1..Len(detect.others) : detect.others[i] \in DOMAIN Rank
    BY <1>1, LenProperties, ElementOfSeq
  <2>2. others \in [1..Len(detect.others) -> Range(others)]
    BY <2>1 DEF Range
  <2>3. others \in Seq(Range(others)) /\ Len(others) = Len(detect.others)
    <3>. HIDE DEF others
    <3>. QED
      BY <2>1, <2>2, SeqDef, LenProperties
  <2>. QED
    BY <2>1, <2>3
<1>3. /\ IsFiniteSet(stale)
      /\ \A x \in stale : x.severity \in {"CRITICAL", "WARN"}
      /\ \E x \in stale : x.about \in {c, "store"}
  BY StaleFeedsAre
<1>4. /\ order \in Seq(stale) /\ Len(order) \in Nat
      /\ \A x \in stale : \E i \in 1..Len(order) : order[i] = x
  BY <1>3, SeqsCover
<1>. HIDE DEF stale, others
<1>5. \A i \in 1..Len(order) : order[i] \in stale
  BY <1>4, ElementOfSeq
<1>6. /\ all \in Seq(Range(others) \cup stale) /\ Len(all) = Len(others) + Len(order)
      /\ \A i \in 1..(Len(others) + Len(order)) :
           all[i] = IF i <= Len(others) THEN others[i] ELSE order[i - Len(others)]
  <2>1. others \in Seq(Range(others) \cup stale) /\ order \in Seq(Range(others) \cup stale)
    BY <1>2, <1>4
  <2>. QED
    BY <2>1, ConcatProperties
<1>. HIDE DEF all
<1>7. ASSUME NEW i \in 1..Len(all) PROVE all[i].severity \in DOMAIN Rank
  <2>1. CASE i <= Len(others)
    <3>1. i \in 1..Len(others) /\ all[i] = others[i]
      BY <1>2, <1>4, <1>6, <2>1
    <3>. QED
      BY <1>2, <3>1
  <2>2. CASE ~(i <= Len(others))
    <3>1. i - Len(others) \in 1..Len(order) /\ all[i] = order[i - Len(others)]
      BY <1>2, <1>4, <1>6, <2>2
    <3>. QED
      BY <1>3, <1>5, <3>1, RankIs
  <2>. QED
    BY <2>1, <2>2
<1>8. PICK q \in 1..Len(all) : all[q].about \in {c, "store"} /\ Rank[all[q].severity] <= 1
  <2>1. PICK k \in 1..Len(order) : order[k].about \in {c, "store"}
    BY <1>3, <1>4
  <2>2. Len(others) + k \in 1..Len(all) /\ all[Len(others) + k] = order[k]
    <3>1. /\ Len(others) + k \in 1..(Len(others) + Len(order)) /\ ~(Len(others) + k <= Len(others))
          /\ Len(others) + k - Len(others) = k
      BY <1>2, <1>4
    <3>. QED
      BY <1>6, <3>1
  <2>3. order[k].severity \in {"CRITICAL", "WARN"}
    BY <1>3, <1>5
  <2>4. Rank[order[k].severity] <= 1
    BY <2>3, RankIs
  <2>. QED
    BY <2>1, <2>2, <2>4
<1>9. \/ \E i \in DOMAIN items : items[i] = all[q]
      \/ /\ Len(items) = Limit
         /\ \A i \in DOMAIN items : Rank[items[i].severity] <= 1
  <2>1. items \in MostSevere(all)
    BY DEF all, others
  <2>. DEFINE T == Range(others) \cup stale
  <2>2. all \in Seq(T)
    BY <1>6
  <2>3. \A i \in 1..Len(all) : all[i].severity \in DOMAIN Rank
    BY <1>7
  <2>. HIDE DEF T
  <2>. QED
    BY ONLY <1>8, <2>1, <2>2, <2>3, SevereKept
<1>. QED
  BY <1>8, <1>9, RankIs

LEMMA NextDetect == HeardInv /\ DetectInv /\ [Next]_vars => DetectInv'
<1> SUFFICES ASSUME HeardInv, DetectInv, [Next]_vars PROVE DetectInv'
  OBVIOUS
<1>1. CASE \/ \E c \in Camera, at \in 0..(MaxTime + Skew) : Ingest(c, at)
           \/ IngestDuplicates \/ DbChange \/ Tick \/ HealthProbe \/ ReadOccurred \/ ReadIngested
           \/ ReadBatch \/ ReadStores \/ ReadCameras \/ UNCHANGED vars
  <2>1. detect' = detect
    BY <1>1 DEF Ingest, IngestDuplicates, DbChange, Tick, HealthProbe, Query, ReadOccurred,
                ReadIngested, ReadBatch, ReadStores, ReadCameras, vars
  <2>. QED
    BY <2>1 DEF DetectInv, StaleIsReported
<1>2. CASE Restart \/ HealthBegins
  <2>1. detect' = IdleDetect
    BY <1>2 DEF Restart, HealthBegins
  <2>. QED
    BY <2>1, IdleDetectIs DEF DetectInv, StaleIsReported
<1>3. ASSUME NEW s \in Store, DetectNothing(s) PROVE DetectInv'
  <2>. DEFINE d == [IdleDetect EXCEPT !.pc = "answered", !.store = s, !.at = now]
  <2>1. detect' = d
    BY <1>3 DEF DetectNothing
  <2>2. DetectRecord(d) /\ d.pc = "answered" /\ d.feeds = IdleDetect.feeds
    BY IdleDetectIs DEF DetectRecord, DetectField
  <2>3. \A c \in Cameras(d.store) : d.feeds[c] = None
    BY <2>2, IdleDetectIs DEF Cameras
  <2>. HIDE DEF d
  <2>. QED
    BY <2>1, <2>2, <2>3 DEF DetectInv, StaleIsReported
<1>4. ASSUME NEW s \in Store, NEW others \in Others, ReadFeeds(s, others) PROVE DetectInv'
  <2>. DEFINE feeds == [c \in Camera |-> IF StoreOf[c] = s THEN newest[c] ELSE None]
              d == [IdleDetect EXCEPT !.pc = "last", !.store = s, !.at = now, !.others = others,
                                      !.feeds = feeds]
  <2>1. detect' = d
    BY <1>4 DEF ReadFeeds
  <2>2. feeds \in [Camera -> MaybeTime]
    BY DEF HeardInv, MaybeTime
  <2>. HIDE DEF feeds
  <2>3. DetectRecord(d) /\ d.pc = "last" /\ d.at = now /\ d.others = others /\ d.feeds = feeds
    BY IdleDetectIs DEF DetectRecord, DetectField
  <2>. HIDE DEF d
  <2>. QED
    BY <2>1, <2>2, <2>3 DEF DetectInv, StaleIsReported, HeardInv
<1>5. CASE ReadLast
  <2>1. CASE ~dbUp
    <3>1. detect' = IdleDetect
      BY <1>5, <2>1 DEF ReadLast
    <3>. QED
      BY <3>1, IdleDetectIs DEF DetectInv, StaleIsReported
  <2>2. CASE dbUp
    <3>. DEFINE last == Latest({newest[c] : c \in Cameras(detect.store)})
                others == [i \in DOMAIN detect.others |->
                             [about |-> "other", severity |-> detect.others[i]]]
    <3>1. PICK order \in SetToSeqs(StaleFeeds(detect, last)) :
            \E items \in MostSevere(others \o order) :
              detect' = [detect EXCEPT !.pc = "answered", !.items = items]
      BY <1>5, <2>2 DEF ReadLast
    <3>2. PICK items \in MostSevere(others \o order) :
            detect' = [detect EXCEPT !.pc = "answered", !.items = items]
      BY <3>1
    <3>3. detect.pc = "last"
      BY <1>5 DEF ReadLast
    <3>4. ASSUME NEW c \in Cameras(detect.store),
                 detect.feeds[c] # None, Since(detect.at, detect.feeds[c]) >= FeedWarn
          PROVE  \/ \E i \in DOMAIN items : items[i].about \in {c, "store"}
                 \/ /\ Len(items) = Limit
                    /\ \A i \in DOMAIN items : Rank[items[i].severity] <= Rank["WARN"]
      <4>. HIDE DEF last
      <4>. QED
        BY <3>3, <3>4, AnswerReports
    <3>. HIDE DEF last, others
    <3>5. DetectRecord(detect)
      BY DEF DetectInv
    <3>6. /\ DetectRecord(detect') /\ detect'.pc = "answered" /\ detect'.items = items
          /\ detect'.store = detect.store /\ detect'.at = detect.at /\ detect'.feeds = detect.feeds
      BY <3>2, <3>5 DEF DetectRecord, DetectField
    <3>. QED
      BY <3>4, <3>6 DEF DetectInv, StaleIsReported
  <2>. QED
    BY <2>1, <2>2
<1>. QED
  BY <1>1, <1>2, <1>3, <1>4, <1>5 DEF Next

-----------------------------------------------------------------------------
(* Theorems *)

LEMMA Invariance == Spec => []Inv
<1>1. Init => Inv
  BY InitHeard, InitHealth, InitDetect DEF Inv
<1>2. Inv /\ [Next]_vars => Inv'
  <2> SUFFICES ASSUME Inv, [Next]_vars PROVE Inv'
    OBVIOUS
  <2>1. HeardInv'
    BY IngestHeard, OthersHeard DEF Inv
  <2>. QED
    BY <2>1, NextHealth, NextDetect DEF Inv
<1>. QED
  BY <1>1, <1>2, PTL DEF Spec

\* /health never says ok when a camera has stopped: each camera that had rows when
\* the request began has been heard from within the warning time and the skew of
\* its clock, whatever is ingested or fails between the queries (health.py,
\* HealthChecker.check).
THEOREM OkTheorem == Spec => []OkMeansHeard
<1>1. Inv => OkMeansHeard
  BY DEF Inv, HealthInv
<1>. QED
  BY <1>1, Invariance, PTL

\* A camera that is silent for longer than the threshold is in the answer about
\* its store, itself or as part of a silent store, or the limit has cut it off
\* behind others that are no mere information (anomalies.py, detect_stale_feeds
\* and to_api_items).
THEOREM ReportedTheorem == Spec => []StaleIsReported
<1>1. Inv => StaleIsReported
  BY DEF Inv, DetectInv
<1>. QED
  BY <1>1, Invariance, PTL
==================================================================================
