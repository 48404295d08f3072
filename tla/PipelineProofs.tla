----------------------------- MODULE PipelineProofs -----------------------------
(***************************************************************************)
(* Proofs about VisitorPipeline, for any tracks, zones, sizes of its       *)
(* stores, timeouts and windows: a track leads to the visitor that is on   *)
(* it, a session number to one visitor, an open visit to somebody inside,  *)
(* and the pipeline implements Visits.                                     *)
(***************************************************************************)
EXTENDS VisitorPipeline, FiniteSetTheorems, WellFoundedInduction, TLAPS

-----------------------------------------------------------------------------
(* Lists *)

\* Induction on the natural numbers up to n, in the first-order form that the
\* provers can use.
LEMMA UpTo ==
  ASSUME NEW n \in Nat, NEW S, 0 \in S, \A k \in 1..n : k - 1 \in S => k \in S
  PROVE  0..n \subseteq S
<1>. DEFINE R == {ss \in Nat \X Nat : ss[1] < ss[2]}
            missing == (0..n) \ S
<1>1. CASE missing = {}
  BY <1>1
<1>2. CASE missing # {}
  <2>1. IsWellFoundedOn(R, Nat)
    BY NatLessThanWellFounded DEF OpToRel
  <2>2. \A i, j \in Nat : i < j => <<i, j>> \in R
    OBVIOUS
  <2>3. missing \in SUBSET Nat
    OBVIOUS
  <2>4. PICK k \in missing : \A m \in missing : ~(<<m, k>> \in R)
    <3>. HIDE DEF R, missing
    <3>. QED
      BY <1>2, <2>1, <2>3, WFMin
  <2>5. k \in 1..n
    OBVIOUS
  <2>6. k - 1 \notin missing
    <3>1. k - 1 \in Nat /\ k \in Nat /\ k - 1 < k
      BY <2>5
    <3>2. <<k - 1, k>> \in R
      BY <2>2, <3>1
    <3>. HIDE DEF R, missing
    <3>. QED
      BY <2>4, <3>2
  <2>7. k - 1 \in S
    BY <2>5, <2>6
  <2>. QED
    BY <2>5, <2>7
<1>. QED
  BY <1>1, <1>2

\* A filtered list has members of the old one that pass, and no others.
LEMMA KeepSelects ==
  ASSUME NEW T, NEW s \in Seq(T), NEW S
  PROVE  /\ Keep(s, S) \in Seq(T)
         /\ Range(Keep(s, S)) \subseteq Range(s) \cap S
<1>. DEFINE step(f, n) == IF n = 0 THEN <<>>
                          ELSE IF s[n] \in S THEN Append(f[n - 1], s[n])
                          ELSE f[n - 1]
            Recursion(f, n) == f = [i \in 0..n |-> step(f, i)]
            defined == {n \in 0..Len(s) : \E f : Recursion(f, n)}
            kept == CHOOSE f : Recursion(f, Len(s))
            good == Range(s) \cap S \cap T
            typed == {n \in 0..Len(s) : kept[n] \in Seq(good)}
<1>1. Len(s) \in Nat
  OBVIOUS
<1>2. Recursion(kept, Len(s))
  <2>1. 0 \in defined
    <3>1. Recursion([i \in 0..0 |-> <<>>], 0)
      OBVIOUS
    <3>2. 0 \in 0..Len(s)
      BY <1>1
    <3>. HIDE DEF Recursion
    <3>. QED
      BY <3>1, <3>2
  <2>2. ASSUME NEW k \in 1..Len(s), k - 1 \in defined PROVE k \in defined
    <3>1. PICK f : Recursion(f, k - 1)
      BY <2>2
    <3>. DEFINE g == [i \in 0..k |-> IF i = k THEN step(f, k) ELSE f[i]]
    <3>2. \A i \in 0..(k - 1) : f[i] = step(f, i)
      BY <3>1
    <3>3. \A i \in 0..k : g[i] = step(g, i)
      <4> SUFFICES ASSUME NEW i \in 0..k PROVE g[i] = step(g, i)
        OBVIOUS
      <4>1. i # 0 => g[i - 1] = f[i - 1]
        OBVIOUS
      <4>2. step(g, i) = step(f, i)
        BY <4>1
      <4>. QED
        BY <3>2, <4>2
    <3>4. Recursion(g, k)
      BY <3>3
    <3>5. k \in 0..Len(s)
      BY <1>1
    <3>. HIDE DEF Recursion, g
    <3>. QED
      BY <3>4, <3>5
  <2>. HIDE DEF defined
  <2>3. 0..Len(s) \subseteq defined
    BY <1>1, <2>1, <2>2, UpTo
  <2>4. \E f : Recursion(f, Len(s))
    <3>1. Len(s) \in defined
      BY <1>1, <2>3
    <3>. HIDE DEF Recursion
    <3>. QED
      BY <3>1 DEF defined
  <2>. HIDE DEF Recursion
  <2>. QED
    BY <2>4
<1>3. Keep(s, S) = kept[Len(s)]
  BY DEF Keep
<1>. HIDE DEF kept
<1>4. \A n \in 0..Len(s) : kept[n] = step(kept, n)
  BY <1>2
<1>5. 0..Len(s) \subseteq typed
  <2>1. 0 \in typed
    <3>1. 0 \in 0..Len(s)
      BY <1>1
    <3>2. kept[0] = <<>>
      BY <1>4, <3>1
    <3>. HIDE DEF good
    <3>3. kept[0] \in Seq(good)
      BY <3>2
    <3>. QED
      BY <3>1, <3>3
  <2>2. ASSUME NEW k \in 1..Len(s), k - 1 \in typed PROVE k \in typed
    <3>1. kept[k - 1] \in Seq(good) /\ kept[k] = step(kept, k) /\ k # 0 /\ k \in 0..Len(s)
      BY <1>4, <2>2
    <3>2. s[k] \in S => s[k] \in good
      BY DEF Range
    <3>3. kept[k] \in Seq(good)
      BY <3>1, <3>2
    <3>. QED
      BY <3>1, <3>3
  <2>. HIDE DEF typed
  <2>. QED
    BY <1>1, <2>1, <2>2, UpTo
<1>6. Keep(s, S) \in Seq(good)
  BY <1>1, <1>3, <1>5
<1>7. good \subseteq T
  OBVIOUS
<1>8. \A x \in Range(Keep(s, S)) : x \in good
  BY <1>6 DEF Range
<1>. QED
  BY <1>6, <1>7, <1>8

-----------------------------------------------------------------------------
(* Dictionaries: functions on some of the keys *)

Dict(K, V) == UNION {[D -> V] : D \in SUBSET K}

LEMMA DictDef ==
  ASSUME NEW K, NEW V, NEW f
  PROVE  f \in Dict(K, V) <=> /\ f = [x \in DOMAIN f |-> f[x]]
                              /\ DOMAIN f \subseteq K
                              /\ \A x \in DOMAIN f : f[x] \in V
<1>1. ASSUME f \in Dict(K, V)
      PROVE  f = [x \in DOMAIN f |-> f[x]] /\ DOMAIN f \subseteq K /\ \A x \in DOMAIN f : f[x] \in V
  <2>1. PICK D \in SUBSET K : f \in [D -> V]
    BY <1>1 DEF Dict
  <2>. QED
    BY <2>1
<1>2. ASSUME f = [x \in DOMAIN f |-> f[x]], DOMAIN f \subseteq K, \A x \in DOMAIN f : f[x] \in V
      PROVE  f \in Dict(K, V)
  <2>1. f \in [DOMAIN f -> V]
    BY <1>2
  <2>. QED
    BY <1>2, <2>1 DEF Dict
<1>. QED
  BY <1>1, <1>2

LEMMA PutDict ==
  ASSUME NEW K, NEW V, NEW f \in Dict(K, V), NEW k \in K, NEW y \in V
  PROVE  Put(f, k, y) \in Dict(K, V)
<1>. DEFINE g == Put(f, k, y)
<1>1. g = [x \in DOMAIN g |-> g[x]]
  BY DEF Put
<1>2. DOMAIN f \subseteq K /\ \A x \in DOMAIN f : f[x] \in V
  BY DictDef
<1>3. DOMAIN g \subseteq K /\ \A x \in DOMAIN g : g[x] \in V
  BY <1>2 DEF Put
<1>. HIDE DEF g
<1>4. g \in Dict(K, V)
  BY <1>1, <1>3, DictDef
<1>. QED
  BY <1>4 DEF g

LEMMA WithoutDict ==
  ASSUME NEW K, NEW V, NEW f \in Dict(K, V), NEW S
  PROVE  Without(f, S) \in Dict(K, V)
<1>. DEFINE g == Without(f, S)
<1>1. g = [x \in DOMAIN g |-> g[x]]
  BY DEF Without
<1>2. DOMAIN f \subseteq K /\ \A x \in DOMAIN f : f[x] \in V
  BY DictDef
<1>3. DOMAIN g \subseteq K /\ \A x \in DOMAIN g : g[x] \in V
  BY <1>2 DEF Without
<1>. HIDE DEF g
<1>4. g \in Dict(K, V)
  BY <1>1, <1>3, DictDef
<1>. QED
  BY <1>4 DEF g

-----------------------------------------------------------------------------
(* The engine *)

Session ==
  [seq : Nat, track : Track, staff : BOOLEAN, entryAt : Nat, lastSeen : Nat, open : SUBSET Zone]

Ended == [visitor : Nat, seq : Nat, status : {"completed", "timed_out"}, entryAt : Nat, exitAt : Nat]

Engine ==
  [active : Dict(Nat, Session), completed : Seq(Ended), mapping : Dict(Track, Nat),
   order : Seq(Track), lastSeq : Nat, born : Nat]

\* Visitors and session numbers are those that have been given out.
Issued(e) ==
  /\ \A v \in DOMAIN e.active : v \in 1..e.born /\ e.active[v].seq \in 1..e.lastSeq
  /\ \A i \in DOMAIN e.completed :
       e.completed[i].visitor \in 1..e.born /\ e.completed[i].seq \in 1..e.lastSeq

\* The track of a mapping is that of the session it leads to.
OnTrack(e) ==
  \A t \in DOMAIN e.mapping : /\ e.mapping[t] \in DOMAIN e.active
                              /\ e.active[e.mapping[t]].track = t

\* Two sessions with one number are of one visitor.
OneVisitor(e) ==
  /\ \A v, w \in DOMAIN e.active : e.active[v].seq = e.active[w].seq => v = w
  /\ \A v \in DOMAIN e.active, i \in DOMAIN e.completed :
       e.active[v].seq = e.completed[i].seq => v = e.completed[i].visitor
  /\ \A i, j \in DOMAIN e.completed :
       e.completed[i].seq = e.completed[j].seq => e.completed[i].visitor = e.completed[j].visitor

EngineInv(e) == e \in Engine /\ Issued(e) /\ OnTrack(e) /\ OneVisitor(e)

LEMMA ActiveTyped ==
  ASSUME NEW e \in Engine
  PROVE  /\ e.active \in Dict(Nat, Session)
         /\ \A v \in DOMAIN e.active : v \in Nat /\ e.active[v] \in Session
BY DictDef DEF Engine

LEMMA RecentFacts ==
  ASSUME NEW T, NEW s \in Seq(T)
  PROVE  /\ Recent(s) \in Seq(T)
         /\ Len(Recent(s)) <= Len(s)
         /\ \A i \in 1..Len(Recent(s)) :
              /\ i + (Len(s) - Len(Recent(s))) \in 1..Len(s)
              /\ Recent(s)[i] = s[i + (Len(s) - Len(Recent(s)))]
         /\ s # <<>> => Len(Recent(s)) \in Nat \ {0}
<1>1. Len(s) \in Nat /\ MaxCompleted \in Nat \ {0}
  BY RingAssumption
<1>2. CASE Len(s) <= MaxCompleted
  BY <1>1, <1>2 DEF Recent
<1>3. CASE Len(s) > MaxCompleted
  <2>1. Recent(s) = SubSeq(s, Len(s) - MaxCompleted + 1, Len(s))
    BY <1>1, <1>3 DEF Recent
  <2>2. Len(s) - MaxCompleted + 1 \in 1..Len(s)
    BY <1>1, <1>3
  <2>3. /\ Recent(s) \in Seq(T) /\ Len(Recent(s)) = MaxCompleted
        /\ \A i \in 1..MaxCompleted : Recent(s)[i] = s[i + (Len(s) - MaxCompleted)]
    BY <1>1, <1>3, <2>1, <2>2
  <2>. QED
    BY <1>1, <1>3, <2>3
<1>. QED
  BY <1>1, <1>2, <1>3

LEMMA UnmapFacts ==
  ASSUME NEW e \in Engine, NEW ts
  PROVE  LET u == UnmapTracks(e, ts)
         IN  /\ u \in Engine
             /\ u.active = e.active /\ u.completed = e.completed
             /\ u.lastSeq = e.lastSeq /\ u.born = e.born
             /\ DOMAIN u.mapping = DOMAIN e.mapping \ ts
             /\ \A t \in DOMAIN u.mapping : u.mapping[t] = e.mapping[t]
<1>. DEFINE u == UnmapTracks(e, ts)
            m == Without(e.mapping, ts)
            o == Keep(e.order, Track \ ts)
<1>1. /\ m \in Dict(Track, Nat) /\ DOMAIN m = DOMAIN e.mapping \ ts
      /\ \A t \in DOMAIN m : m[t] = e.mapping[t]
  <2>1. e.mapping \in Dict(Track, Nat)
    BY DEF Engine
  <2>2. m \in Dict(Track, Nat)
    BY <2>1, WithoutDict
  <2>. QED
    BY <2>2 DEF Without
<1>2. o \in Seq(Track)
  BY KeepSelects DEF Engine
<1>3. u = [e EXCEPT !.mapping = m, !.order = o]
  BY DEF UnmapTracks
<1>. HIDE DEF u, m, o
<1>4. /\ u \in Engine /\ u.mapping = m
      /\ u.active = e.active /\ u.completed = e.completed
      /\ u.lastSeq = e.lastSeq /\ u.born = e.born
  BY <1>1, <1>2, <1>3 DEF Engine
<1>. QED
  BY <1>1, <1>4 DEF u

LEMMA MapFacts ==
  ASSUME NEW e \in Engine, NEW t \in Track, NEW v \in Nat
  PROVE  LET u == MapTrack(e, t, v)
         IN  /\ u \in Engine
             /\ u.active = e.active /\ u.completed = e.completed
             /\ u.lastSeq = e.lastSeq /\ u.born = e.born
             /\ DOMAIN u.mapping = DOMAIN e.mapping \cup {t}
             /\ u.mapping[t] = v
             /\ \A x \in DOMAIN e.mapping : x # t => u.mapping[x] = e.mapping[x]
<1>. DEFINE u == MapTrack(e, t, v)
            m == Put(e.mapping, t, v)
            o == IF t \in DOMAIN e.mapping THEN e.order ELSE Append(e.order, t)
<1>1. /\ m \in Dict(Track, Nat) /\ DOMAIN m = DOMAIN e.mapping \cup {t} /\ m[t] = v
      /\ \A x \in DOMAIN e.mapping : x # t => m[x] = e.mapping[x]
  <2>1. e.mapping \in Dict(Track, Nat)
    BY DEF Engine
  <2>2. m \in Dict(Track, Nat)
    BY <2>1, PutDict
  <2>. QED
    BY <2>2 DEF Put
<1>2. o \in Seq(Track)
  BY DEF Engine
<1>3. u = [e EXCEPT !.mapping = m, !.order = o]
  BY DEF MapTrack
<1>. HIDE DEF u, m, o
<1>4. /\ u \in Engine /\ u.mapping = m
      /\ u.active = e.active /\ u.completed = e.completed
      /\ u.lastSeq = e.lastSeq /\ u.born = e.born
  BY <1>1, <1>2, <1>3 DEF Engine
<1>. QED
  BY <1>1, <1>4 DEF u

\* Taking mappings away disturbs nothing.
LEMMA UnmapInv ==
  ASSUME NEW e, EngineInv(e), NEW ts
  PROVE  EngineInv(UnmapTracks(e, ts))
BY UnmapFacts DEF EngineInv, Issued, OnTrack, OneVisitor

\* The number that a return would continue, 0 for none: that of the session of
\* the visitor that is last in the ring.
Number(e, v) == IF Completed(e, v) = {} THEN 0 ELSE PriorSequence(e, v)

LEMMA LastInRing ==
  ASSUME NEW e \in Engine, NEW v, v \notin DOMAIN e.active,
         NEW i \in DOMAIN e.completed, e.completed[i].visitor = v,
         \A j \in DOMAIN e.completed : e.completed[j].visitor = v => j <= i
  PROVE  Number(e, v) = e.completed[i].seq
<1>. DEFINE latest(l) == l \in Completed(e, v) /\ \A j \in Completed(e, v) : j <= l
<1>1. DOMAIN e.completed \subseteq Int
  BY DEF Engine
<1>2. latest(i)
  BY DEF Completed
<1>3. \A l : latest(l) => l = i
  BY <1>1, <1>2 DEF Completed
<1>4. (CHOOSE l \in Completed(e, v) : \A j \in Completed(e, v) : j <= l) = i
  BY <1>2, <1>3
<1>. QED
  BY <1>2, <1>4 DEF Number, PriorSequence

LEMMA NoneInRing ==
  ASSUME NEW e, NEW v, \A i \in DOMAIN e.completed : e.completed[i].visitor # v
  PROVE  Number(e, v) = 0
BY DEF Number, Completed

\* A non-empty set of places in a list has a last one.
LEMMA LastPlace ==
  ASSUME NEW n \in Nat, NEW S \in SUBSET (1..n), S # {}
  PROVE  \E i \in S : \A j \in S : j <= i
<1>. DEFINE upTo(m) == {i \in S : i <= m}
            good == {m \in 0..n : upTo(m) = {} \/ \E i \in S : i <= m /\ \A j \in upTo(m) : j <= i}
<1>0. \A i \in S : i \in Nat /\ 1 <= i /\ i <= n
  OBVIOUS
<1>1. 0 \in good
  <2>1. upTo(0) = {}
    <3>1. \A i \in S : ~(i <= 0)
      BY <1>0
    <3>. QED
      BY <3>1
  <2>2. 0 \in 0..n
    OBVIOUS
  <2>. QED
    BY <2>1, <2>2
<1>2. ASSUME NEW k \in 1..n, k - 1 \in good PROVE k \in good
  <2>1. CASE k \in S
    BY <2>1
  <2>2. CASE k \notin S
    <3>1. upTo(k) = upTo(k - 1)
      <4>1. \A i \in S : i <= k <=> i <= k - 1
        BY <1>0, <2>2
      <4>. QED
        BY <4>1
    <3>2. k \in 0..n
      OBVIOUS
    <3>. QED
      BY <1>2, <3>1, <3>2
  <2>. QED
    BY <2>1, <2>2
<1>. HIDE DEF good
<1>3. 0..n \subseteq good
  BY <1>1, <1>2, UpTo
<1>4. n \in good
  BY <1>3
<1>5. upTo(n) = S
  BY <1>0
<1>. QED
  BY <1>4, <1>5 DEF good

\* The ring after the sessions of a list have been appended, as places in it:
\* each is a place of the old ring or of the list, in the same order.
LEMMA RingPlaces ==
  ASSUME NEW T, NEW old \in Seq(T), NEW new \in Seq(T)
  PROVE  LET ring == Recent(old \o new)
             shift == Len(old \o new) - Len(ring)
         IN  \A i \in DOMAIN ring :
               /\ i + shift \in Int
               /\ i + shift <= Len(old) => i + shift \in DOMAIN old /\ ring[i] = old[i + shift]
               /\ i + shift > Len(old) => /\ (i + shift) - Len(old) \in DOMAIN new
                                          /\ ring[i] = new[(i + shift) - Len(old)]
<1>. DEFINE both == old \o new
            ring == Recent(both)
            shift == Len(both) - Len(ring)
<1>. SUFFICES ASSUME NEW i \in DOMAIN ring
     PROVE  /\ i + shift \in Int
            /\ i + shift <= Len(old) => i + shift \in DOMAIN old /\ ring[i] = old[i + shift]
            /\ i + shift > Len(old) => /\ (i + shift) - Len(old) \in DOMAIN new
                                       /\ ring[i] = new[(i + shift) - Len(old)]
  OBVIOUS
<1>1. /\ both \in Seq(T) /\ Len(both) = Len(old) + Len(new)
      /\ Len(old) \in Nat /\ Len(new) \in Nat
      /\ \A j \in 1..Len(both) : both[j] = IF j <= Len(old) THEN old[j] ELSE new[j - Len(old)]
  OBVIOUS
<1>. HIDE DEF both
<1>2. ring \in Seq(T) /\ i \in 1..Len(ring) /\ Len(ring) \in Nat
  <2>1. ring \in Seq(T)
    BY <1>1, RecentFacts
  <2>. QED
    BY <2>1 DEF both
<1>3. i + shift \in 1..Len(both) /\ ring[i] = both[i + shift]
  BY <1>1, <1>2, RecentFacts
<1>. HIDE DEF ring, shift
<1>4. i + shift \in Int
  BY <1>1, <1>3
<1>5. i + shift <= Len(old) => i + shift \in DOMAIN old /\ ring[i] = old[i + shift]
  BY <1>1, <1>3, <1>4
<1>6. i + shift > Len(old) =>
        (i + shift) - Len(old) \in DOMAIN new /\ ring[i] = new[(i + shift) - Len(old)]
  <2>. DEFINE at == i + shift
  <2>1. at \in 1..Len(both) /\ ring[i] = both[at] /\ at \in Int
    BY <1>3, <1>4
  <2>. HIDE DEF at
  <2>2. at > Len(old) => at - Len(old) \in DOMAIN new /\ ring[i] = new[at - Len(old)]
    BY <1>1, <2>1
  <2>. QED
    BY <2>2 DEF at
<1>. QED
  BY <1>4, <1>5, <1>6

-----------------------------------------------------------------------------
(* Sessions that end *)

EndedOf(e, vs, at, status) == [i \in DOMAIN vs |-> Finished(e, vs[i], at, status)]

\* In c the sessions of the visitors vs of e are completed.
Completes(e, c, vs, at, status) ==
  /\ e \in Engine /\ vs \in Seq(DOMAIN e.active) /\ at \in Nat
  /\ status \in {"completed", "timed_out"}
  /\ c = CompleteAll(e, vs, at, status)

\* What completing the sessions of a list does to the engine.
LEMMA CompleteFacts ==
  ASSUME NEW e, NEW c, NEW vs, NEW at, NEW status, Completes(e, c, vs, at, status)
  PROVE  /\ c \in Engine
         /\ EndedOf(e, vs, at, status) \in Seq(Ended)
         /\ DOMAIN c.active = DOMAIN e.active \ Range(vs)
         /\ \A v \in DOMAIN c.active : c.active[v] = e.active[v]
         /\ c.completed = Recent(e.completed \o EndedOf(e, vs, at, status))
         /\ DOMAIN c.mapping = DOMAIN e.mapping \ {e.active[v].track : v \in Range(vs)}
         /\ \A t \in DOMAIN c.mapping : c.mapping[t] = e.mapping[t]
         /\ c.lastSeq = e.lastSeq /\ c.born = e.born
<1>. DEFINE new == EndedOf(e, vs, at, status)
            a == Without(e.active, Range(vs))
            r == Recent(e.completed \o new)
            h == [e EXCEPT !.active = a, !.completed = r]
            ts == {e.active[v].track : v \in Range(vs)}
<1>0. /\ e \in Engine /\ vs \in Seq(DOMAIN e.active) /\ at \in Nat
      /\ status \in {"completed", "timed_out"} /\ c = CompleteAll(e, vs, at, status)
  BY DEF Completes
<1>1. \A i \in DOMAIN vs : Finished(e, vs[i], at, status) \in Ended
  <2> SUFFICES ASSUME NEW i \in DOMAIN vs PROVE Finished(e, vs[i], at, status) \in Ended
    OBVIOUS
  <2>1. vs[i] \in Nat /\ e.active[vs[i]] \in Session
    BY <1>0, ActiveTyped
  <2>. QED
    BY <1>0, <2>1 DEF Finished, Ended, Session
<1>2. new \in Seq(Ended)
  BY <1>0, <1>1 DEF EndedOf
<1>3. r \in Seq(Ended)
  <2>1. e.completed \in Seq(Ended)
    BY <1>0 DEF Engine
  <2>2. e.completed \o new \in Seq(Ended)
    BY <1>2, <2>1
  <2>. QED
    BY <2>2, RecentFacts
<1>4. /\ a \in Dict(Nat, Session) /\ DOMAIN a = DOMAIN e.active \ Range(vs)
      /\ \A v \in DOMAIN a : a[v] = e.active[v]
  <2>1. e.active \in Dict(Nat, Session)
    BY <1>0 DEF Engine
  <2>2. a \in Dict(Nat, Session)
    BY <2>1, WithoutDict
  <2>. QED
    BY <2>2 DEF Without
<1>5. c = UnmapTracks(h, ts)
  BY <1>0 DEF CompleteAll, EndedOf
<1>. HIDE DEF a, r, new
<1>6. /\ h \in Engine /\ h.active = a /\ h.completed = r /\ h.mapping = e.mapping
      /\ h.lastSeq = e.lastSeq /\ h.born = e.born
  BY <1>0, <1>3, <1>4 DEF Engine
<1>. HIDE DEF h, ts
<1>7. /\ c \in Engine /\ c.active = a /\ c.completed = r
      /\ c.lastSeq = e.lastSeq /\ c.born = e.born
      /\ DOMAIN c.mapping = DOMAIN e.mapping \ ts
      /\ \A t \in DOMAIN c.mapping : c.mapping[t] = e.mapping[t]
  BY <1>5, <1>6, UnmapFacts
<1>. QED
  BY <1>2, <1>4, <1>7 DEF r, ts, new

LEMMA CompleteRing ==
  ASSUME NEW e, NEW c, NEW vs, NEW at, NEW status, Completes(e, c, vs, at, status)
  PROVE  /\ c \in Engine /\ DOMAIN c.active = DOMAIN e.active \ Range(vs)
         /\ EndedOf(e, vs, at, status) \in Seq(Ended)
         /\ c.completed = Recent(e.completed \o EndedOf(e, vs, at, status))
BY CompleteFacts

\* Every session in the ring afterwards was there before or has just ended.
LEMMA RingAfter ==
  ASSUME NEW e, NEW c, NEW vs, NEW at, NEW status, Completes(e, c, vs, at, status),
         NEW i \in DOMAIN c.completed
  PROVE  LET x == c.completed[i]
         IN  \/ \E j \in DOMAIN e.completed : x = e.completed[j]
             \/ \E v \in Range(vs) : x.visitor = v /\ x.seq = e.active[v].seq
<1>. DEFINE old == e.completed
            new == EndedOf(e, vs, at, status)
            ring == Recent(old \o new)
            shift == Len(old \o new) - Len(ring)
<1>1. c.completed = ring /\ new \in Seq(Ended)
  BY CompleteRing
<1>2. old \in Seq(Ended) /\ vs \in Seq(DOMAIN e.active)
  BY DEF Engine, Completes
<1>3. i \in DOMAIN ring
  BY <1>1
<1>4. DOMAIN new = DOMAIN vs
  BY DEF EndedOf
<1>5. \A j \in DOMAIN vs : new[j].visitor = vs[j] /\ new[j].seq = e.active[vs[j]].seq
  BY DEF EndedOf, Finished
<1>6. \A j \in DOMAIN ring :
        /\ j + shift \in Int
        /\ j + shift <= Len(old) => j + shift \in DOMAIN old /\ ring[j] = old[j + shift]
        /\ j + shift > Len(old) => /\ (j + shift) - Len(old) \in DOMAIN new
                                   /\ ring[j] = new[(j + shift) - Len(old)]
  <2>1. new \in Seq(Ended)
    BY <1>1
  <2>. QED
    BY ONLY <1>2, <2>1, RingPlaces
<1>. HIDE DEF new, ring, shift
<1>7. i + shift <= Len(old) \/ i + shift > Len(old)
  <2>1. i + shift \in Int /\ Len(old) \in Int
    BY <1>2, <1>3, <1>6
  <2>. QED
    BY <2>1
<1>8. CASE i + shift <= Len(old)
  BY <1>1, <1>3, <1>6, <1>8
<1>9. CASE i + shift > Len(old)
  <2>1. PICK j \in DOMAIN vs : ring[i] = new[j]
    BY <1>3, <1>4, <1>6, <1>9
  <2>2. vs[j] \in Range(vs)
    BY DEF Range
  <2>. QED
    BY <1>1, <1>5, <2>1, <2>2
<1>. QED
  BY <1>7, <1>8, <1>9

\* Completing sessions keeps the engine in order.
LEMMA CompleteInv ==
  ASSUME NEW e, NEW c, NEW vs, NEW at, NEW status, Completes(e, c, vs, at, status),
         EngineInv(e)
  PROVE  EngineInv(c)
<1>1. e \in Engine /\ Issued(e) /\ OnTrack(e) /\ OneVisitor(e)
  BY DEF EngineInv
<1>2. \A v \in Range(vs) : v \in DOMAIN e.active
  BY DEF Range, Completes
<1>3. /\ c \in Engine
      /\ DOMAIN c.active = DOMAIN e.active \ Range(vs)
      /\ \A v \in DOMAIN c.active : c.active[v] = e.active[v]
      /\ DOMAIN c.mapping = DOMAIN e.mapping \ {e.active[v].track : v \in Range(vs)}
      /\ \A t \in DOMAIN c.mapping : c.mapping[t] = e.mapping[t]
      /\ c.lastSeq = e.lastSeq /\ c.born = e.born
  BY <1>1, CompleteFacts
<1>4. \A i \in DOMAIN c.completed :
        \/ \E j \in DOMAIN e.completed : c.completed[i] = e.completed[j]
        \/ \E v \in Range(vs) : /\ c.completed[i].visitor = v
                                /\ c.completed[i].seq = e.active[v].seq
  BY <1>1, RingAfter
<1>5. Issued(c)
  BY <1>1, <1>2, <1>3, <1>4 DEF Issued
<1>6. OnTrack(c)
  <2> SUFFICES ASSUME NEW t \in DOMAIN c.mapping
               PROVE  /\ c.mapping[t] \in DOMAIN c.active
                      /\ c.active[c.mapping[t]].track = t
    BY DEF OnTrack
  <2>1. /\ c.mapping[t] \in DOMAIN e.active /\ e.active[c.mapping[t]].track = t
        /\ t \notin {e.active[v].track : v \in Range(vs)}
    BY <1>1, <1>3 DEF OnTrack
  <2>2. c.mapping[t] \notin Range(vs)
    BY <2>1
  <2>. QED
    BY <1>3, <2>1, <2>2
<1>7. OneVisitor(c)
  BY <1>1, <1>2, <1>3, <1>4 DEF OneVisitor
<1>. QED
  BY <1>3, <1>5, <1>6, <1>7 DEF EngineInv

\* A visitor who was not active keeps the number of the session that is last
\* in the ring, or the ring has forgotten the visitor.
LEMMA NumberAfter ==
  ASSUME NEW e, NEW c, NEW vs, NEW at, NEW status, Completes(e, c, vs, at, status),
         NEW v, v \notin DOMAIN e.active
  PROVE  Number(c, v) \in {Number(e, v), 0}
<1>. DEFINE old == e.completed
            new == EndedOf(e, vs, at, status)
            ring == Recent(old \o new)
            shift == Len(old \o new) - Len(ring)
            places == {i \in DOMAIN ring : ring[i].visitor = v}
<1>1. c \in Engine /\ new \in Seq(Ended) /\ v \notin DOMAIN c.active
  BY CompleteRing
<1>2. c.completed = ring
  BY CompleteRing
<1>3. old \in Seq(Ended) /\ e \in Engine /\ vs \in Seq(DOMAIN e.active)
  BY DEF Engine, Completes
<1>4. DOMAIN new = DOMAIN vs /\ \A j \in DOMAIN new : new[j].visitor # v
  <2>1. DOMAIN new = DOMAIN vs
    BY DEF EndedOf
  <2>2. \A j \in DOMAIN vs : vs[j] \in DOMAIN e.active /\ new[j].visitor = vs[j]
    BY <1>3 DEF EndedOf, Finished
  <2>. QED
    BY <2>1, <2>2
<1>. HIDE DEF new
<1>5. /\ ring \in Seq(Ended) /\ Len(ring) \in Nat /\ Len(old) \in Nat /\ Len(new) \in Nat
      /\ Len(old \o new) = Len(old) + Len(new) /\ Len(ring) <= Len(old \o new)
  <2>1. old \o new \in Seq(Ended) /\ Len(old \o new) = Len(old) + Len(new)
        /\ Len(old) \in Nat /\ Len(new) \in Nat
    BY <1>1, <1>3
  <2>2. ring \in Seq(Ended) /\ Len(ring) <= Len(old \o new)
    BY <2>1, RecentFacts
  <2>. QED
    BY <2>1, <2>2
<1>6. \A i \in DOMAIN ring :
        /\ i + shift \in Int
        /\ i + shift <= Len(old) => i + shift \in DOMAIN old /\ ring[i] = old[i + shift]
        /\ i + shift > Len(old) => /\ (i + shift) - Len(old) \in DOMAIN new
                                   /\ ring[i] = new[(i + shift) - Len(old)]
  <2>1. new \in Seq(Ended)
    BY <1>1
  <2>. QED
    BY ONLY <1>3, <2>1, RingPlaces
<1>7. shift \in Nat
  BY <1>5
<1>. HIDE DEF ring
<1>8. CASE places = {}
  <2>1. \A i \in DOMAIN c.completed : c.completed[i].visitor # v
    BY <1>2, <1>8
  <2>2. Number(c, v) = 0
    BY <2>1, NoneInRing
  <2>. QED
    BY <2>2
<1>9. CASE places # {}
  <2>1. DOMAIN ring = 1..Len(ring) /\ places \in SUBSET (1..Len(ring))
    BY <1>5
  <2>2. PICK i \in places : \A j \in places : j <= i
    <3>. HIDE DEF places
    <3>. QED
      BY <1>5, <1>9, <2>1, LastPlace
  <2>3. i \in DOMAIN ring /\ ring[i].visitor = v /\ i \in Nat
    BY <1>5
  <2>. HIDE DEF shift
  <2>4. i + shift \in DOMAIN old /\ ring[i] = old[i + shift]
    <3>1. ~(i + shift > Len(old))
      BY <1>4, <1>6, <2>3
    <3>. QED
      BY <1>5, <1>6, <1>7, <2>3, <3>1
  <2>5. Number(c, v) = ring[i].seq
    <3>1. \A j \in DOMAIN c.completed : c.completed[j].visitor = v => j <= i
      BY <1>2, <2>2
    <3>. QED
      BY <1>1, <1>2, <2>3, <3>1, LastInRing
  <2>6. \A j \in DOMAIN old : old[j].visitor = v => j <= i + shift
    <3> SUFFICES ASSUME NEW j \in DOMAIN old, old[j].visitor = v, ~(j <= i + shift) PROVE FALSE
      OBVIOUS
    <3>1. j \in 1..Len(old) /\ j - shift > i /\ j - shift \in Nat /\ (j - shift) + shift = j
      BY <1>3, <1>5, <1>7, <2>3, SMTT(30)
    <3>2. j - shift \in DOMAIN ring
      <4>1. j <= Len(ring) + shift
        BY <1>5, <3>1 DEF shift
      <4>. QED
        BY <1>5, <1>7, <2>1, <2>3, <3>1, <4>1
    <3>3. ring[j - shift] = old[j]
      BY <1>6, <3>1, <3>2
    <3>4. j - shift \in places
      BY <3>2, <3>3
    <3>. QED
      BY <2>2, <2>3, <3>1, <3>4
  <2>7. Number(e, v) = old[i + shift].seq
    <3>. HIDE DEF places
    <3>. QED
      BY <1>3, <2>3, <2>4, <2>6, LastInRing
  <2>. QED
    BY <2>4, <2>5, <2>7
<1>. QED
  BY <1>8, <1>9

\* The session that ends is the last in the ring.
LEMMA NumberOfExit ==
  ASSUME NEW e, NEW c, NEW vs, NEW at, NEW status, Completes(e, c, vs, at, status),
         NEW v, Len(vs) = 1, vs[1] = v
  PROVE  Number(c, v) = e.active[v].seq
<1>. DEFINE old == e.completed
            new == EndedOf(e, vs, at, status)
            ring == Recent(old \o new)
            n == Len(ring)
<1>1. /\ c \in Engine /\ DOMAIN c.active = DOMAIN e.active \ Range(vs)
      /\ new \in Seq(Ended) /\ c.completed = ring
  BY CompleteRing
<1>2. /\ DOMAIN vs = {1} /\ v \in Range(vs)
      /\ new[1].visitor = v /\ new[1].seq = e.active[v].seq /\ DOMAIN new = {1}
  <2>1. DOMAIN vs = {1}
    BY DEF Completes
  <2>. QED
    BY <2>1 DEF EndedOf, Finished, Range
<1>3. v \notin DOMAIN c.active
  BY <1>2, <1>1
<1>4. old \in Seq(Ended)
  BY DEF Engine, Completes
<1>. HIDE DEF new
<1>5. Len(new) = 1
  <2>1. DOMAIN new = 1..Len(new) /\ Len(new) \in Nat
    BY <1>1
  <2>2. 1 \in 1..Len(new) /\ ~(2 \in 1..Len(new))
    BY <1>2, <2>1
  <2>. QED
    BY <2>1, <2>2
<1>6. /\ old \o new \in Seq(Ended) /\ old \o new # <<>>
      /\ Len(old \o new) = Len(old) + 1 /\ Len(old) \in Nat
  <2>1. old \o new \in Seq(Ended) /\ Len(old) \in Nat
    BY <1>1, <1>4
  <2>2. Len(old \o new) = Len(old) + 1
    <3>1. Len(old \o new) = Len(old) + Len(new)
      BY <1>1, <1>4
    <3>. QED
      BY <1>5, <3>1
  <2>3. Len(old \o new) # 0
    BY <2>1, <2>2
  <2>. QED
    BY <2>1, <2>2, <2>3
<1>7. ring \in Seq(Ended) /\ n \in Nat \ {0}
  BY <1>6, RecentFacts
<1>8. n \in DOMAIN ring /\ \A j \in DOMAIN ring : j <= n
  BY <1>7
<1>9. ring[n] = new[1]
  <2>1. n + (Len(old \o new) - Len(ring)) = Len(old) + 1
    BY <1>6, <1>7
  <2>2. n + (Len(old \o new) - Len(ring)) > Len(old)
    BY <1>6, <2>1
  <2>3. ring[n] = new[(n + (Len(old \o new) - Len(ring))) - Len(old)]
    <3>. DEFINE shift == Len(old \o new) - Len(ring)
    <3>1. \A i \in DOMAIN ring : i + shift > Len(old) => ring[i] = new[(i + shift) - Len(old)]
      <4>1. \A i \in DOMAIN ring :
              /\ i + shift \in Int
              /\ i + shift <= Len(old) => i + shift \in DOMAIN old /\ ring[i] = old[i + shift]
              /\ i + shift > Len(old) => /\ (i + shift) - Len(old) \in DOMAIN new
                                         /\ ring[i] = new[(i + shift) - Len(old)]
        BY ONLY <1>1, <1>4, RingPlaces
      <4>. QED
        BY <4>1
    <3>2. n \in DOMAIN ring /\ n + shift > Len(old)
      BY <1>8, <2>2
    <3>. HIDE DEF n, shift, ring
    <3>3. ring[n] = new[(n + shift) - Len(old)]
      BY <3>1, <3>2
    <3>. QED
      BY <3>3 DEF shift
  <2>4. (n + (Len(old \o new) - Len(ring))) - Len(old) = 1
    BY <1>6, <2>1
  <2>. QED
    BY <2>3, <2>4
<1>. HIDE DEF ring, n
<1>10. Number(c, v) = c.completed[n].seq
  <2>1. n \in DOMAIN c.completed /\ c.completed[n].visitor = v
    BY <1>2, <1>1, <1>8, <1>9
  <2>2. \A j \in DOMAIN c.completed : c.completed[j].visitor = v => j <= n
    BY <1>1, <1>8
  <2>. QED
    BY <1>1, <1>3, <2>1, <2>2, LastInRing
<1>. QED
  BY <1>2, <1>1, <1>9, <1>10

\* A loop over a finite set of visitors meets each of them.
LEMMA OrdersAreLists ==
  ASSUME NEW e, EngineInv(e), NEW S \in SUBSET DOMAIN e.active, NEW vs \in EntryOrders(e, S)
  PROVE  vs \in Seq(DOMAIN e.active)
<1>1. IsFiniteSet(S)
  <2>1. e.born \in Nat /\ S \subseteq 1..e.born
    BY DEF EngineInv, Issued, Engine
  <2>2. IsFiniteSet(1..e.born)
    BY <2>1, FS_Interval
  <2>. QED
    BY <2>1, <2>2, FS_Subset
<1>2. Cardinality(S) \in Nat
  BY <1>1, FS_CardinalityType
<1>3. vs \in [1..Cardinality(S) -> S]
  BY DEF EntryOrders, SetToSeqs
<1>. QED
  BY <1>2, <1>3

\* What is left of the engine e in the engine c after some sessions ended:
\* the others, and of the visitors outside what the ring has not forgotten.
Shrinks(e, c) ==
  /\ DOMAIN c.active \subseteq DOMAIN e.active
  /\ \A v \in DOMAIN c.active : c.active[v] = e.active[v]
  /\ DOMAIN c.mapping \subseteq DOMAIN e.mapping
  /\ \A t \in DOMAIN c.mapping : c.mapping[t] = e.mapping[t]
  /\ c.lastSeq = e.lastSeq /\ c.born = e.born
  /\ \A v : v \notin DOMAIN e.active => Number(c, v) \in {Number(e, v), 0}

LEMMA CompleteShrinks ==
  ASSUME NEW e, NEW c, NEW vs, NEW at, NEW status, Completes(e, c, vs, at, status)
  PROVE  Shrinks(e, c)
<1>1. /\ DOMAIN c.active \subseteq DOMAIN e.active
      /\ \A v \in DOMAIN c.active : c.active[v] = e.active[v]
      /\ DOMAIN c.mapping \subseteq DOMAIN e.mapping
      /\ \A t \in DOMAIN c.mapping : c.mapping[t] = e.mapping[t]
      /\ c.lastSeq = e.lastSeq /\ c.born = e.born
  BY CompleteFacts
<1>2. \A v : v \notin DOMAIN e.active => Number(c, v) \in {Number(e, v), 0}
  BY NumberAfter
<1>. QED
  BY <1>1, <1>2 DEF Shrinks

\* The clean-up that begins the treatment of every event.
LEMMA CleanUp ==
  ASSUME NEW e, EngineInv(e), NEW at \in Nat, NEW c \in CleanedUp(e, at)
  PROVE  EngineInv(c) /\ Shrinks(e, c)
<1>1. PICK vs \in EntryOrders(e, Stale(e, at)) : c = CompleteAll(e, vs, at, "timed_out")
  BY DEF CleanedUp
<1>2. Stale(e, at) \in SUBSET DOMAIN e.active
  BY DEF Stale
<1>3. vs \in Seq(DOMAIN e.active)
  BY <1>2, OrdersAreLists
<1>4. Completes(e, c, vs, at, "timed_out")
  BY <1>1, <1>3 DEF Completes, EngineInv
<1>. QED
  BY <1>4, CompleteInv, CompleteShrinks

LEMMA CloseAll ==
  ASSUME NEW e, EngineInv(e), NEW at \in Nat, NEW c \in ClosedAll(e, at)
  PROVE  EngineInv(c) /\ Shrinks(e, c)
<1>1. PICK vs \in EntryOrders(e, DOMAIN e.active) : c = CompleteAll(e, vs, at, "completed")
  BY DEF ClosedAll
<1>2. vs \in Seq(DOMAIN e.active)
  BY OrdersAreLists
<1>3. Completes(e, c, vs, at, "completed")
  BY <1>1, <1>2 DEF Completes, EngineInv
<1>. QED
  BY <1>3, CompleteInv, CompleteShrinks

-----------------------------------------------------------------------------
(* The event handlers *)

\* With the engine in order, a track leads to a session when it is mapped.
LEMMA ResolveFacts ==
  ASSUME NEW e, EngineInv(e), NEW t
  PROVE  /\ Resolve(e, t) # NoVisitor => /\ t \in DOMAIN e.mapping
                                         /\ Resolve(e, t) = e.mapping[t]
                                         /\ Resolve(e, t) \in DOMAIN e.active
                                         /\ e.active[Resolve(e, t)].track = t
         /\ Resolve(e, t) = NoVisitor => t \notin DOMAIN e.mapping
<1>1. t \in DOMAIN e.mapping => e.mapping[t] \in DOMAIN e.active /\ e.active[e.mapping[t]].track = t
  BY DEF EngineInv, OnTrack
<1>2. \A v \in DOMAIN e.active : v # NoVisitor
  BY DEF EngineInv, Issued, Engine, NoVisitor
<1>. QED
  BY <1>1, <1>2 DEF Resolve

LEMMA Singleton ==
  ASSUME NEW S, NEW x \in S
  PROVE  <<x>> \in Seq(S) /\ Len(<<x>>) = 1 /\ <<x>>[1] = x
OBVIOUS

\* An exit ends the session that its track leads to, if any.
LEMMA LeaveFacts ==
  ASSUME NEW e, EngineInv(e), NEW t, NEW at \in Nat
  PROVE  LET c == Leave(e, t, at)
             v == Resolve(e, t)
         IN  /\ EngineInv(c) /\ Shrinks(e, c)
             /\ v # NoVisitor => /\ v \in DOMAIN e.active
                                 /\ v \notin DOMAIN c.active
                                 /\ Number(c, v) = e.active[v].seq
<1>. DEFINE c == Leave(e, t, at)
            v == Resolve(e, t)
            vs == <<v>>
<1>1. CASE v = NoVisitor
  <2>1. c = e
    BY <1>1 DEF Leave
  <2>2. Shrinks(e, e)
    BY DEF Shrinks
  <2>. QED
    BY <1>1, <2>1, <2>2
<1>2. CASE v # NoVisitor
  <2>1. v \in DOMAIN e.active
    BY <1>2, ResolveFacts
  <2>2. c = CompleteAll(e, vs, at, "completed")
    BY <1>2 DEF Leave
  <2>. HIDE DEF c, v
  <2>3. vs \in Seq(DOMAIN e.active) /\ Len(vs) = 1 /\ vs[1] = v
    BY <2>1, Singleton
  <2>. HIDE DEF vs
  <2>4. Completes(e, c, vs, at, "completed")
    BY <2>2, <2>3 DEF Completes, EngineInv
  <2>5. EngineInv(c) /\ Shrinks(e, c)
    BY <2>4, CompleteInv, CompleteShrinks
  <2>6. Number(c, v) = e.active[v].seq
    BY <2>3, <2>4, NumberOfExit
  <2>7. v \notin DOMAIN c.active
    <3>1. DOMAIN c.active = DOMAIN e.active \ Range(vs)
      BY <2>4, CompleteFacts
    <3>2. v \in Range(vs)
      BY <2>3 DEF Range
    <3>. QED
      BY <3>1, <3>2
  <2>. QED
    BY <1>2, <2>1, <2>5, <2>6, <2>7 DEF c, v
<1>. QED
  BY <1>1, <1>2

\* The session of v notes an event: its open zone visits and time change.
Touched(e, v, zs, at) == [e EXCEPT !.active[v].open = zs, !.active[v].lastSeen = at]

Touches(e, u, v, zs, at) ==
  /\ EngineInv(e) /\ v \in DOMAIN e.active /\ zs \in SUBSET Zone /\ at \in Nat
  /\ u = Touched(e, v, zs, at)

\* That is what the zone handlers do to a session.
LEMMA TouchFacts ==
  ASSUME NEW e, NEW u, NEW v, NEW zs, NEW at, Touches(e, u, v, zs, at)
  PROVE  /\ EngineInv(u)
         /\ DOMAIN u.active = DOMAIN e.active
         /\ u.active[v].open = zs
         /\ \A w \in DOMAIN u.active : /\ u.active[w].seq = e.active[w].seq
                                       /\ u.active[w].staff = e.active[w].staff
                                       /\ w # v => u.active[w] = e.active[w]
         /\ u.mapping = e.mapping /\ u.completed = e.completed
         /\ u.lastSeq = e.lastSeq /\ u.born = e.born
<1>. DEFINE s == [e.active[v] EXCEPT !.open = zs, !.lastSeen = at]
            a == [e.active EXCEPT ![v] = s]
<1>0. /\ EngineInv(e) /\ v \in DOMAIN e.active /\ zs \in SUBSET Zone /\ at \in Nat
      /\ u = Touched(e, v, zs, at)
  BY DEF Touches
<1>1. e \in Engine /\ Issued(e) /\ OnTrack(e) /\ OneVisitor(e)
  BY <1>0 DEF EngineInv
<1>2. e.active \in Dict(Nat, Session) /\ e.active[v] \in Session /\ v \in Nat
  BY <1>0, <1>1, ActiveTyped
<1>3. /\ s \in Session /\ s.open = zs
      /\ s.seq = e.active[v].seq /\ s.staff = e.active[v].staff /\ s.track = e.active[v].track
  BY <1>0, <1>2 DEF Session
<1>. HIDE DEF s
<1>4. /\ DOMAIN a = DOMAIN e.active /\ a[v] = s
      /\ \A w \in DOMAIN a : w # v => a[w] = e.active[w]
  BY <1>0
<1>5. a \in Dict(Nat, Session)
  <2>1. DOMAIN e.active \subseteq Nat /\ \A w \in DOMAIN e.active : e.active[w] \in Session
    BY <1>1, ActiveTyped
  <2>2. a = [w \in DOMAIN a |-> a[w]]
    OBVIOUS
  <2>3. DOMAIN a \subseteq Nat /\ \A w \in DOMAIN a : a[w] \in Session
    BY <1>3, <1>4, <2>1
  <2>. HIDE DEF a
  <2>. QED
    BY <2>2, <2>3, DictDef
<1>6. u = [e EXCEPT !.active = a]
  <2>1. e.active = [w \in DOMAIN e.active |-> e.active[w]]
    BY <1>2, DictDef
  <2>. QED
    BY <1>0, <1>1, <2>1 DEF Touched, Engine, s
<1>. HIDE DEF a
<1>7. /\ u \in Engine /\ u.active = a
      /\ u.mapping = e.mapping /\ u.completed = e.completed
      /\ u.lastSeq = e.lastSeq /\ u.born = e.born
  BY <1>1, <1>5, <1>6 DEF Engine
<1>8. \A w \in DOMAIN u.active : /\ u.active[w].seq = e.active[w].seq
                                 /\ u.active[w].staff = e.active[w].staff
                                 /\ u.active[w].track = e.active[w].track
                                 /\ w # v => u.active[w] = e.active[w]
  BY <1>3, <1>4, <1>7
<1>9. Issued(u) /\ OnTrack(u) /\ OneVisitor(u)
  BY <1>0, <1>1, <1>4, <1>7, <1>8 DEF Issued, OnTrack, OneVisitor
<1>. QED
  BY <1>0, <1>3, <1>4, <1>7, <1>8, <1>9 DEF EngineInv

\* A mapping that is already there stays as it is.
LEMMA Remapped ==
  ASSUME NEW e, EngineInv(e), NEW t \in DOMAIN e.mapping,
         NEW u, u = MapTrack(e, t, e.mapping[t])
  PROVE  u = e
<1>1. e.mapping = Put(e.mapping, t, e.mapping[t])
  <2>1. e.mapping = [x \in DOMAIN e.mapping |-> e.mapping[x]]
    BY DictDef DEF EngineInv, Engine
  <2>2. DOMAIN e.mapping \cup {t} = DOMAIN e.mapping
    OBVIOUS
  <2>. QED
    BY <2>1, <2>2 DEF Put
<1>. QED
  BY <1>1 DEF MapTrack, EngineInv, Engine

\* What a zone handler does: nothing, or it notes the event on the session
\* that the track leads to.
LEMMA ZoneHandlers ==
  ASSUME NEW e, EngineInv(e), NEW t \in Track, NEW z \in Zone, NEW at \in Nat, NEW u
  PROVE  LET v == Resolve(e, t)
         IN  /\ u \in {EnterZone(e, t, z, at), Dwell(e, t, z, at)} =>
                  u = e \/ (v # NoVisitor /\ Touches(e, u, v, e.active[v].open \cup {z}, at))
             /\ u = LeaveZone(e, t, z, at) =>
                  \/ u = e /\ (v = NoVisitor \/ z \notin e.active[v].open)
                  \/ v # NoVisitor /\ Touches(e, u, v, e.active[v].open \ {z}, at)
<1>. DEFINE v == Resolve(e, t)
<1>1. CASE v = NoVisitor
  BY <1>1 DEF EnterZone, LeaveZone, Dwell
<1>2. CASE v # NoVisitor
  <2>1. v \in DOMAIN e.active /\ t \in DOMAIN e.mapping /\ e.mapping[t] = v
    BY <1>2, ResolveFacts
  <2>2. e.active[v].open \in SUBSET Zone
    <3>1. e.active[v] \in Session
      BY <2>1, ActiveTyped DEF EngineInv
    <3>. QED
      BY <3>1 DEF Session
  <2>. DEFINE more == e.active[v].open \cup {z}
              less == e.active[v].open \ {z}
  <2>3. more \in SUBSET Zone /\ less \in SUBSET Zone
    BY <2>2
  <2>4. MapTrack(Touched(e, v, more, at), t, v) = Touched(e, v, more, at)
    <3>. DEFINE w == Touched(e, v, more, at)
    <3>0. w = Touched(e, v, more, at)
      OBVIOUS
    <3>. HIDE DEF w, more, v
    <3>1. Touches(e, w, v, more, at)
      BY <2>1, <2>3, <3>0 DEF Touches
    <3>2. EngineInv(w) /\ w.mapping = e.mapping
      BY <3>1, TouchFacts
    <3>3. t \in DOMAIN w.mapping /\ w.mapping[t] = v
      BY <2>1, <3>2
    <3>4. MapTrack(w, t, v) = w
      BY <3>2, <3>3, Remapped
    <3>. QED
      BY <3>0, <3>4
  <2>5. u \in {EnterZone(e, t, z, at), Dwell(e, t, z, at)} => u = e \/ u = Touched(e, v, more, at)
    BY <1>2, <2>4 DEF EnterZone, Dwell, Touched
  <2>6. u = LeaveZone(e, t, z, at) =>
          (u = e /\ z \notin e.active[v].open) \/ u = Touched(e, v, less, at)
    BY <1>2 DEF LeaveZone, Touched
  <2>. HIDE DEF v
  <2>. QED
    BY <1>2, <2>1, <2>3, <2>5, <2>6 DEF v, Touches
<1>. QED
  BY <1>1, <1>2

\* Trimming takes mappings away and nothing else.
LEMMA TrimFacts ==
  ASSUME NEW e, EngineInv(e), NEW u, u = Trim(e)
  PROVE  /\ EngineInv(u)
         /\ u.active = e.active /\ u.completed = e.completed
         /\ u.lastSeq = e.lastSeq /\ u.born = e.born
         /\ DOMAIN u.mapping \subseteq DOMAIN e.mapping
         /\ \A t \in DOMAIN u.mapping : u.mapping[t] = e.mapping[t]
<1>1. CASE u = e
  BY <1>1
<1>2. CASE \E ts, more : u = UnmapTracks(UnmapTracks(e, ts), more)
  <2>1. PICK ts, more : u = UnmapTracks(UnmapTracks(e, ts), more)
    BY <1>2
  <2>. DEFINE m == UnmapTracks(e, ts)
  <2>2. e \in Engine
    BY DEF EngineInv
  <2>3. /\ EngineInv(m) /\ m \in Engine
        /\ m.active = e.active /\ m.completed = e.completed
        /\ m.lastSeq = e.lastSeq /\ m.born = e.born
        /\ DOMAIN m.mapping = DOMAIN e.mapping \ ts
        /\ \A t \in DOMAIN m.mapping : m.mapping[t] = e.mapping[t]
    BY <2>2, UnmapFacts, UnmapInv
  <2>4. u = UnmapTracks(m, more)
    BY <2>1
  <2>. HIDE DEF m
  <2>5. /\ EngineInv(u)
        /\ u.active = m.active /\ u.completed = m.completed
        /\ u.lastSeq = m.lastSeq /\ u.born = m.born
        /\ DOMAIN u.mapping = DOMAIN m.mapping \ more
        /\ \A t \in DOMAIN u.mapping : u.mapping[t] = m.mapping[t]
    BY <2>3, <2>4, UnmapFacts, UnmapInv
  <2>. QED
    BY <2>3, <2>5
<1>. QED
  BY <1>1, <1>2 DEF Trim

\* The number that a return continues is that of the visitor's last session in
\* the ring, or the next new one.
LEMMA PriorFacts ==
  ASSUME NEW e, EngineInv(e), NEW v, v \notin DOMAIN e.active
  PROVE  \/ Number(e, v) = 0 /\ PriorSequence(e, v) = e.lastSeq + 1
         \/ /\ PriorSequence(e, v) = Number(e, v)
            /\ \E i \in DOMAIN e.completed : /\ e.completed[i].visitor = v
                                             /\ e.completed[i].seq = Number(e, v)
            /\ Number(e, v) \in 1..e.lastSeq
<1>1. e \in Engine /\ Issued(e)
  BY DEF EngineInv
<1>2. CASE Completed(e, v) = {}
  BY <1>2 DEF Number, PriorSequence, NextSequence
<1>3. CASE Completed(e, v) # {}
  <2>1. /\ Len(e.completed) \in Nat /\ DOMAIN e.completed = 1..Len(e.completed)
        /\ Completed(e, v) \in SUBSET (1..Len(e.completed))
    BY <1>1 DEF Engine, Completed
  <2>2. PICK i \in Completed(e, v) : \A j \in Completed(e, v) : j <= i
    BY <1>3, <2>1, LastPlace
  <2>3. i \in DOMAIN e.completed /\ e.completed[i].visitor = v
    BY DEF Completed
  <2>4. \A j \in DOMAIN e.completed : e.completed[j].visitor = v => j <= i
    BY <2>2 DEF Completed
  <2>5. Number(e, v) = e.completed[i].seq
    BY <1>1, <2>3, <2>4, LastInRing
  <2>6. e.completed[i].seq \in 1..e.lastSeq
    BY <1>1, <2>3 DEF Issued
  <2>. QED
    BY <1>3, <2>3, <2>5, <2>6 DEF Number
<1>. QED
  BY <1>2, <1>3

\* A session of v begins on track t, with a number that nobody else has.
Begins(e, u, v, t, staff, at, seq, born, last) ==
  /\ EngineInv(e) /\ v \notin DOMAIN e.active /\ t \in Track /\ staff \in BOOLEAN /\ at \in Nat
  /\ born \in Nat /\ e.born <= born /\ v \in 1..born
  /\ last \in Nat /\ e.lastSeq <= last /\ seq \in 1..last
  /\ \A w \in DOMAIN e.active : e.active[w].seq # seq
  /\ \A i \in DOMAIN e.completed : e.completed[i].seq = seq => e.completed[i].visitor = v
  /\ u = MapTrack([e EXCEPT !.born = born, !.lastSeq = last,
                            !.active = Put(@, v, NewSession(seq, t, staff, at))], t, v)

LEMMA BeginFacts ==
  ASSUME NEW e, NEW u, NEW v, NEW t, NEW staff, NEW at, NEW seq, NEW born, NEW last,
         Begins(e, u, v, t, staff, at, seq, born, last)
  PROVE  /\ EngineInv(u)
         /\ DOMAIN u.active = DOMAIN e.active \cup {v}
         /\ u.active[v].seq = seq /\ u.active[v].staff = staff /\ u.active[v].open = {}
         /\ \A w \in DOMAIN e.active : w # v /\ u.active[w] = e.active[w]
         /\ u.completed = e.completed /\ u.lastSeq = last /\ u.born = born
         /\ DOMAIN u.mapping = DOMAIN e.mapping \cup {t} /\ u.mapping[t] = v
         /\ \A x \in DOMAIN e.mapping : x # t => u.mapping[x] = e.mapping[x]
<1>. DEFINE s == NewSession(seq, t, staff, at)
            a == Put(e.active, v, s)
            h == [e EXCEPT !.born = born, !.lastSeq = last, !.active = a]
<1>1. /\ v \notin DOMAIN e.active /\ t \in Track /\ staff \in BOOLEAN /\ at \in Nat
      /\ born \in Nat /\ e.born <= born /\ v \in 1..born
      /\ last \in Nat /\ e.lastSeq <= last /\ seq \in 1..last
      /\ \A w \in DOMAIN e.active : e.active[w].seq # seq
      /\ \A i \in DOMAIN e.completed : e.completed[i].seq = seq => e.completed[i].visitor = v
      /\ u = MapTrack(h, t, v)
  BY DEF Begins
<1>2. e \in Engine /\ Issued(e) /\ OnTrack(e) /\ OneVisitor(e)
  BY DEF Begins, EngineInv
<1>3. /\ s \in Session /\ s.seq = seq /\ s.staff = staff /\ s.open = {} /\ s.track = t
  BY <1>1 DEF NewSession, Session
<1>. HIDE DEF s
<1>4. /\ a \in Dict(Nat, Session)
      /\ DOMAIN a = DOMAIN e.active \cup {v} /\ a[v] = s
      /\ \A w \in DOMAIN e.active : w # v /\ a[w] = e.active[w]
  <2>1. e.active \in Dict(Nat, Session) /\ v \in Nat
    BY <1>1, <1>2 DEF Engine
  <2>2. a \in Dict(Nat, Session)
    BY <1>3, <2>1, PutDict
  <2>. QED
    BY <1>1, <2>2 DEF Put
<1>. HIDE DEF a
<1>5. /\ h \in Engine /\ h.active = a /\ h.completed = e.completed /\ h.mapping = e.mapping
      /\ h.lastSeq = last /\ h.born = born
  BY <1>1, <1>2, <1>4 DEF Engine
<1>. HIDE DEF h
<1>6. /\ u \in Engine /\ u.active = a /\ u.completed = e.completed
      /\ u.lastSeq = last /\ u.born = born
      /\ DOMAIN u.mapping = DOMAIN e.mapping \cup {t} /\ u.mapping[t] = v
      /\ \A x \in DOMAIN e.mapping : x # t => u.mapping[x] = e.mapping[x]
  <2>1. v \in Nat
    BY <1>1
  <2>. QED
    BY <1>1, <1>5, <2>1, MapFacts, SMTT(30)
<1>7. Issued(u)
  <2>1. \A w \in DOMAIN u.active : w \in 1..born /\ u.active[w].seq \in 1..last
    <3>1. \A w \in DOMAIN e.active : w \in 1..born /\ e.active[w].seq \in 1..last
      BY <1>1, <1>2 DEF Issued, Engine
    <3>. QED
      BY <1>1, <1>3, <1>4, <1>6, <3>1
  <2>2. \A i \in DOMAIN e.completed :
          e.completed[i].visitor \in 1..born /\ e.completed[i].seq \in 1..last
    BY <1>1, <1>2 DEF Issued, Engine
  <2>. QED
    BY <1>6, <2>1, <2>2 DEF Issued
<1>8. OnTrack(u)
  BY <1>2, <1>3, <1>4, <1>6 DEF OnTrack
<1>9. OneVisitor(u)
  <2>1. \A w, x \in DOMAIN u.active : u.active[w].seq = u.active[x].seq => w = x
    BY <1>1, <1>2, <1>3, <1>4, <1>6 DEF OneVisitor
  <2>2. \A w \in DOMAIN u.active, i \in DOMAIN u.completed :
          u.active[w].seq = u.completed[i].seq => w = u.completed[i].visitor
    BY <1>1, <1>2, <1>3, <1>4, <1>6 DEF OneVisitor
  <2>. QED
    BY <1>2, <1>6, <2>1, <2>2 DEF OneVisitor
<1>. QED
  BY <1>3, <1>4, <1>6, <1>7, <1>8, <1>9 DEF EngineInv

\* The arrival of a visitor, or the return of one, on a track t.
Comes(e, u, v, t, staff) ==
  /\ EngineInv(u)
  /\ v \notin DOMAIN e.active
  /\ DOMAIN u.active = DOMAIN e.active \cup {v}
  /\ u.active[v].staff = staff /\ u.active[v].open = {}
  /\ \A w \in DOMAIN e.active : u.active[w] = e.active[w]
  /\ u.completed = e.completed
  /\ DOMAIN u.mapping \subseteq DOMAIN e.mapping \cup {t}
  /\ \A x \in DOMAIN u.mapping : u.mapping[x] = IF x = t THEN v ELSE e.mapping[x]

LEMMA EnterFacts ==
  ASSUME NEW e, EngineInv(e), NEW t \in Track, NEW staff \in BOOLEAN, NEW at \in Nat,
         NEW u, u = Enter(e, t, staff, at)
  PROVE  /\ Comes(e, u, e.born + 1, t, staff)
         /\ u.born = e.born + 1 /\ u.lastSeq = e.lastSeq + 1
         /\ u.active[e.born + 1].seq = e.lastSeq + 1
<1>. DEFINE v == e.born + 1
            seq == e.lastSeq + 1
            b == MapTrack([e EXCEPT !.born = v, !.lastSeq = seq,
                                    !.active = Put(@, v, NewSession(seq, t, staff, at))], t, v)
<1>1. e \in Engine /\ Issued(e) /\ e.born \in Nat /\ e.lastSeq \in Nat
  BY DEF EngineInv, Engine
<1>2. u = Trim(b)
  BY DEF Enter, NextSequence
<1>3. v \notin DOMAIN e.active /\ v \in 1..v /\ v \in Nat /\ e.born <= v
  BY <1>1 DEF Issued
<1>4. /\ seq \in 1..seq /\ seq \in Nat /\ e.lastSeq <= seq
      /\ \A w \in DOMAIN e.active : e.active[w].seq # seq
      /\ \A i \in DOMAIN e.completed : e.completed[i].seq # seq
  BY <1>1 DEF Issued
<1>. HIDE DEF v, seq
<1>5. Begins(e, b, v, t, staff, at, seq, v, seq)
  BY <1>3, <1>4 DEF Begins
<1>. HIDE DEF b
<1>6. /\ EngineInv(b)
      /\ DOMAIN b.active = DOMAIN e.active \cup {v}
      /\ b.active[v].seq = seq /\ b.active[v].staff = staff /\ b.active[v].open = {}
      /\ \A w \in DOMAIN e.active : b.active[w] = e.active[w]
      /\ b.completed = e.completed /\ b.lastSeq = seq /\ b.born = v
      /\ DOMAIN b.mapping = DOMAIN e.mapping \cup {t} /\ b.mapping[t] = v
      /\ \A x \in DOMAIN e.mapping : x # t => b.mapping[x] = e.mapping[x]
  BY <1>5, BeginFacts
<1>7. /\ EngineInv(u)
      /\ u.active = b.active /\ u.completed = b.completed
      /\ u.lastSeq = b.lastSeq /\ u.born = b.born
      /\ DOMAIN u.mapping \subseteq DOMAIN b.mapping
      /\ \A x \in DOMAIN u.mapping : u.mapping[x] = b.mapping[x]
  BY <1>2, <1>6, TrimFacts
<1>8. Comes(e, u, v, t, staff)
  BY <1>3, <1>6, <1>7 DEF Comes
<1>. QED
  BY <1>6, <1>7, <1>8 DEF v, seq

\* A return continues a number that the ring still has, or takes a new one.
LEMMA ResumeFacts ==
  ASSUME NEW e, EngineInv(e), NEW v \in 1..e.born, v \notin DOMAIN e.active,
         NEW t \in Track, NEW staff \in BOOLEAN, NEW at \in Nat,
         NEW u, u = Resume(e, v, t, staff, at)
  PROVE  /\ Comes(e, u, v, t, staff)
         /\ u.mapping[t] = v /\ t \in DOMAIN u.mapping
         /\ u.born = e.born
         /\ \/ u.lastSeq = e.lastSeq + 1 /\ u.active[v].seq = u.lastSeq
            \/ /\ u.lastSeq = e.lastSeq /\ u.active[v].seq = Number(e, v)
               /\ Number(e, v) # 0
<1>. DEFINE seq == PriorSequence(e, v)
            last == IF seq > e.lastSeq THEN seq ELSE e.lastSeq
<1>1. e \in Engine /\ Issued(e) /\ OneVisitor(e) /\ e.born \in Nat /\ e.lastSeq \in Nat
  BY DEF EngineInv, Engine
<1>2. \/ seq = e.lastSeq + 1 /\ last = e.lastSeq + 1
      \/ /\ seq = Number(e, v) /\ seq \in 1..e.lastSeq /\ last = e.lastSeq
         /\ \E i \in DOMAIN e.completed : e.completed[i].visitor = v /\ e.completed[i].seq = seq
  BY <1>1, PriorFacts
<1>3. u = MapTrack([e EXCEPT !.born = e.born, !.lastSeq = last,
                             !.active = Put(@, v, NewSession(seq, t, staff, at))], t, v)
  <2>1. [e EXCEPT !.lastSeq = last, !.active = Put(@, v, NewSession(seq, t, staff, at))]
          = [e EXCEPT !.born = e.born, !.lastSeq = last,
                      !.active = Put(@, v, NewSession(seq, t, staff, at))]
    BY <1>1 DEF Engine
  <2>. QED
    BY <2>1 DEF Resume
<1>. HIDE DEF seq, last
<1>4. last \in Nat /\ e.lastSeq <= last /\ seq \in 1..last
  BY <1>1, <1>2
<1>5. \A w \in DOMAIN e.active : e.active[w].seq # seq
  BY <1>1, <1>2 DEF Issued, OneVisitor
<1>6. \A i \in DOMAIN e.completed : e.completed[i].seq = seq => e.completed[i].visitor = v
  BY <1>1, <1>2 DEF Issued, OneVisitor
<1>7. Begins(e, u, v, t, staff, at, seq, e.born, last)
  BY <1>1, <1>3, <1>4, <1>5, <1>6 DEF Begins
<1>8. /\ EngineInv(u)
      /\ DOMAIN u.active = DOMAIN e.active \cup {v}
      /\ u.active[v].seq = seq /\ u.active[v].staff = staff /\ u.active[v].open = {}
      /\ \A w \in DOMAIN e.active : u.active[w] = e.active[w]
      /\ u.completed = e.completed /\ u.lastSeq = last /\ u.born = e.born
      /\ DOMAIN u.mapping = DOMAIN e.mapping \cup {t} /\ u.mapping[t] = v
      /\ \A x \in DOMAIN e.mapping : x # t => u.mapping[x] = e.mapping[x]
  BY <1>7, BeginFacts
<1>9. Comes(e, u, v, t, staff)
  BY <1>8 DEF Comes
<1>10. \/ u.lastSeq = e.lastSeq + 1 /\ u.active[v].seq = u.lastSeq
       \/ u.lastSeq = e.lastSeq /\ u.active[v].seq = Number(e, v) /\ Number(e, v) # 0
  BY <1>1, <1>2, <1>8
<1>. QED
  BY <1>8, <1>9, <1>10

-----------------------------------------------------------------------------
(* The gallery and the zones *)

Exited == [visitor : Nat, at : Nat]

\* Who is remembered has been met and is outside.
GalleryInv(e, g) ==
  /\ g \in Seq(Exited)
  /\ \A r \in Range(g) : r.visitor \in 1..e.born /\ r.visitor \notin DOMAIN e.active

\* OpenVisitsAreInside, of an engine and the sessions of the zone engine.
OpenInside(e, ins) ==
  \A t \in DOMAIN e.mapping : \A z \in e.active[e.mapping[t]].open : <<t, z>> \in ins

LEMMA FreshFacts ==
  ASSUME NEW g \in Seq(Exited)
  PROVE  /\ Fresh(g) \in Seq(Exited)
         /\ Range(Fresh(g)) \subseteq Range(g)
         /\ \A r \in Range(Fresh(g)) : now <= r.at + ReentryWindow
BY KeepSelects DEF Fresh

LEMMA ForgetFacts ==
  ASSUME NEW g \in Seq(Exited), NEW v
  PROVE  /\ Forget(g, v) \in Seq(Exited)
         /\ Range(Forget(g, v)) \subseteq Range(g)
         /\ \A r \in Range(Forget(g, v)) : r.visitor # v
BY KeepSelects DEF Forget

LEMMA RememberFacts ==
  ASSUME NEW g \in Seq(Exited), NEW v \in Nat, now \in Nat
  PROVE  /\ Remember(g, v) \in Seq(Exited)
         /\ \A r \in Range(Remember(g, v)) : r \in Range(g) \/ r = [visitor |-> v, at |-> now]
<1>. DEFINE r == [visitor |-> v, at |-> now]
            longer == Append(g, r)
<1>1. r \in Exited
  BY DEF Exited
<1>2. longer \in Seq(Exited) /\ longer # <<>>
  BY <1>1
<1>3. \A i \in DOMAIN longer : longer[i] \in Range(g) \/ longer[i] = r
  <2>1. \A i \in DOMAIN g : g[i] \in Range(g)
    BY DEF Range
  <2>. QED
    BY <1>1, <2>1
<1>. HIDE DEF longer
<1>4. /\ Tail(longer) \in Seq(Exited)
      /\ \A i \in DOMAIN Tail(longer) : i + 1 \in DOMAIN longer /\ Tail(longer)[i] = longer[i + 1]
  BY <1>2
<1>5. Remember(g, v) = longer \/ Remember(g, v) = Tail(longer)
  BY DEF Remember, longer
<1>6. \A i \in DOMAIN Remember(g, v) : Remember(g, v)[i] \in Range(g) \/ Remember(g, v)[i] = r
  BY <1>3, <1>4, <1>5
<1>7. \A x \in Range(Remember(g, v)) : x \in Range(g) \/ x = r
  BY <1>6 DEF Range
<1>. QED
  BY <1>2, <1>4, <1>5, <1>7

LEMMA ShrinkKeeps ==
  ASSUME NEW e, NEW c, EngineInv(e), EngineInv(c), Shrinks(e, c), NEW g, GalleryInv(e, g),
         NEW ins, OpenInside(e, ins)
  PROVE  GalleryInv(c, g) /\ OpenInside(c, ins)
<1>1. GalleryInv(c, g)
  BY DEF Shrinks, GalleryInv
<1>2. \A t \in DOMAIN c.mapping : c.mapping[t] \in DOMAIN c.active
  BY DEF EngineInv, OnTrack
<1>3. OpenInside(c, ins)
  BY <1>2 DEF Shrinks, OpenInside
<1>. QED
  BY <1>1, <1>3

LEMMA ComesKeeps ==
  ASSUME NEW e, NEW u, NEW v, NEW t, NEW staff, EngineInv(e), Comes(e, u, v, t, staff),
         NEW ins, OpenInside(e, ins)
  PROVE  OpenInside(u, ins)
<1>1. \A x \in DOMAIN e.mapping : e.mapping[x] \in DOMAIN e.active
  BY DEF EngineInv, OnTrack
<1>. QED
  BY <1>1 DEF Comes, OpenInside

\* A visitor that begins a session changes nobody else's number.
LEMMA ComesNumber ==
  ASSUME NEW e, NEW u, NEW v, NEW t, NEW staff, Comes(e, u, v, t, staff), NEW w, w # v
  PROVE  Number(u, w) = Number(e, w)
<1>1. Completed(u, w) = Completed(e, w) /\ u.completed = e.completed
  BY DEF Completed, Comes
<1>2. w \in DOMAIN u.active <=> w \in DOMAIN e.active
  BY DEF Comes
<1>3. w \in DOMAIN e.active => u.active[w] = e.active[w]
  BY DEF Comes
<1>. QED
  BY <1>1, <1>2, <1>3 DEF Number, PriorSequence

\* The same for the zone handlers, whose open visits must be inside.
LEMMA TouchKeeps ==
  ASSUME NEW e, NEW u, NEW v, NEW zs, NEW at, Touches(e, u, v, zs, at),
         NEW g, GalleryInv(e, g), NEW t \in DOMAIN e.mapping, e.mapping[t] = v,
         NEW ins, \A x \in DOMAIN e.mapping :
                    x # t => \A z \in e.active[e.mapping[x]].open : <<x, z>> \in ins,
         \A z \in zs : <<t, z>> \in ins
  PROVE  /\ GalleryInv(u, g) /\ OpenInside(u, ins)
         /\ \A w : Number(u, w) = Number(e, w)
<1>1. /\ EngineInv(u)
      /\ DOMAIN u.active = DOMAIN e.active
      /\ u.active[v].open = zs
      /\ \A w \in DOMAIN u.active : /\ u.active[w].seq = e.active[w].seq
                                    /\ w # v => u.active[w] = e.active[w]
      /\ u.mapping = e.mapping /\ u.completed = e.completed
      /\ u.born = e.born
  BY TouchFacts
<1>2. GalleryInv(u, g)
  BY <1>1 DEF GalleryInv
<1>3. \A x \in DOMAIN e.mapping : /\ e.mapping[x] \in DOMAIN e.active
                                  /\ e.mapping[x] = v => x = t
  BY DEF Touches, EngineInv, OnTrack
<1>4. OpenInside(u, ins)
  <2> SUFFICES ASSUME NEW x \in DOMAIN u.mapping, NEW z \in u.active[u.mapping[x]].open
               PROVE  <<x, z>> \in ins
    BY DEF OpenInside
  <2>1. CASE x = t
    BY <1>1, <2>1
  <2>2. CASE x # t
    BY <1>1, <1>3, <2>2
  <2>. QED
    BY <2>1, <2>2
<1>5. ASSUME NEW w PROVE Number(u, w) = Number(e, w)
  <2>1. Completed(u, w) = Completed(e, w)
    BY <1>1 DEF Completed
  <2>. QED
    BY <1>1, <2>1 DEF Number, PriorSequence, NextSequence
<1>. QED
  BY <1>2, <1>4, <1>5

-----------------------------------------------------------------------------
(* The visits of Visits *)

\* The state of Visits that an engine and a gallery stand for.
HereOf(e) ==
  {[visitor |-> v, number |-> e.active[v].seq, staff |-> e.active[v].staff] : v \in DOMAIN e.active}

LeftOf(e, g) ==
  {[visitor |-> r.visitor, at |-> r.at, number |-> Number(e, r.visitor)] : r \in Range(g)}

\* LeftAfter of Visits, on that state.
Answered(e, g, u, h, stay) ==
  \A r \in LeftOf(u, h) :
    \/ \E q \in LeftOf(e, g) : /\ r.visitor = q.visitor /\ r.at = q.at
                               /\ r.number \in {q.number, 0}
    \/ \E x \in HereOf(e) \ stay : /\ r.visitor = x.visitor /\ r.at = now
                                   /\ r.number \in {x.number, 0}

\* What is remembered was remembered before, or has just left.
LEMMA AnsweredBy ==
  ASSUME NEW e, NEW g, NEW u, NEW h, NEW stay,
         \A r \in Range(h) :
           \/ r \in Range(g) /\ Number(u, r.visitor) \in {Number(e, r.visitor), 0}
           \/ /\ r.at = now /\ r.visitor \in DOMAIN e.active
              /\ Number(u, r.visitor) = e.active[r.visitor].seq
              /\ \A x \in stay : x.visitor # r.visitor
  PROVE  Answered(e, g, u, h, stay)
<1> SUFFICES ASSUME NEW r \in Range(h)
    PROVE  \/ \E q \in LeftOf(e, g) : /\ r.visitor = q.visitor /\ r.at = q.at
                                      /\ Number(u, r.visitor) \in {q.number, 0}
           \/ \E x \in HereOf(e) \ stay : /\ r.visitor = x.visitor /\ r.at = now
                                          /\ Number(u, r.visitor) \in {x.number, 0}
  BY DEF Answered, LeftOf
<1>1. CASE r \in Range(g) /\ Number(u, r.visitor) \in {Number(e, r.visitor), 0}
  <2>. DEFINE q == [visitor |-> r.visitor, at |-> r.at, number |-> Number(e, r.visitor)]
  <2>1. q \in LeftOf(e, g)
    BY <1>1 DEF LeftOf
  <2>. QED
    BY <1>1, <2>1
<1>2. CASE /\ r.at = now /\ r.visitor \in DOMAIN e.active
           /\ Number(u, r.visitor) = e.active[r.visitor].seq
           /\ \A x \in stay : x.visitor # r.visitor
  <2>. DEFINE x == [visitor |-> r.visitor, number |-> e.active[r.visitor].seq,
                    staff |-> e.active[r.visitor].staff]
  <2>1. x \in HereOf(e)
    BY <1>2 DEF HereOf
  <2>2. x \notin stay
    BY <1>2
  <2>. QED
    BY <1>2, <2>1, <2>2
<1>. QED
  BY <1>1, <1>2

LEMMA HereShrinks ==
  ASSUME NEW e, NEW c, Shrinks(e, c)
  PROVE  HereOf(c) \subseteq HereOf(e)
BY DEF Shrinks, HereOf

LEMMA HereComes ==
  ASSUME NEW e, NEW u, NEW v, NEW t, NEW staff, Comes(e, u, v, t, staff)
  PROVE  HereOf(u) = HereOf(e) \cup {[visitor |-> v, number |-> u.active[v].seq, staff |-> staff]}
<1>1. \A x \in HereOf(u) :
        x \in HereOf(e) \/ x = [visitor |-> v, number |-> u.active[v].seq, staff |-> staff]
  BY DEF Comes, HereOf
<1>2. HereOf(e) \subseteq HereOf(u)
  BY DEF Comes, HereOf
<1>3. [visitor |-> v, number |-> u.active[v].seq, staff |-> staff] \in HereOf(u)
  BY DEF Comes, HereOf
<1>. QED
  BY <1>1, <1>2, <1>3

\* An event speaks of the session that its track leads to after it.
LEMMA EmitTells ==
  ASSUME NEW t, NEW roi, Emit(t, roi, eng')
  PROVE  visits!Tells
<1>. DEFINE v == Resolve(eng', t)
<1>1. v # 0 => v \in DOMAIN eng'.active
  BY DEF Resolve, NoVisitor
<1>2. out'.visitor = v /\ (v # 0 => out'.staff = eng'.active[v].staff)
  BY DEF Emit, NoVisitor
<1>. HIDE DEF v
<1>3. v # 0 => \E x \in HereOf(eng') : x.visitor = v /\ x.staff = eng'.active[v].staff
  <2>. DEFINE x == [visitor |-> v, number |-> eng'.active[v].seq, staff |-> eng'.active[v].staff]
  <2>1. v # 0 => x \in HereOf(eng')
    BY <1>1 DEF HereOf
  <2>2. x.visitor = v /\ x.staff = eng'.active[v].staff
    OBVIOUS
  <2>. QED
    BY <2>1, <2>2
<1>4. visits!Tells <=>
        (out'.visitor # 0 => \E x \in HereOf(eng') : x.visitor = out'.visitor /\ x.staff = out'.staff)
  BY DEF visits!Tells, HereOf, Active
<1>. QED
  BY <1>2, <1>3, <1>4

LEMMA SilentTells ==
  ASSUME out' = Silent
  PROVE  visits!Tells
BY DEF Silent, NoVisitor, visits!Tells

\* The steps of Visits, on the pipeline's state.
LEMMA LeaveStep ==
  ASSUME HereOf(eng') \subseteq HereOf(eng),
         Answered(eng, gallery, eng', gallery', HereOf(eng')),
         now' = now, eng'.born = eng.born, eng'.lastSeq = eng.lastSeq
  PROVE  visits!Leave
BY DEF visits!Leave, visits!LeftAfter, Answered, HereOf, LeftOf, Number, Active

LEMMA ArriveStep ==
  ASSUME NEW stay \in SUBSET HereOf(eng), NEW staff, out'.staff = staff,
         HereOf(eng') = stay \cup {[visitor |-> eng'.born, number |-> eng'.lastSeq, staff |-> staff]},
         Answered(eng, gallery, eng', gallery', stay),
         now' = now, eng'.born = eng.born + 1, eng'.lastSeq = eng.lastSeq + 1
  PROVE  visits!Arrive
<1>1. visits!LeftAfter(stay)
  BY DEF visits!LeftAfter, Answered, HereOf, LeftOf, Number, Active
<1>. QED
  BY <1>1 DEF visits!Arrive, HereOf, Active

Returns(stay, staff, r, number) ==
  /\ stay \in SUBSET HereOf(eng) /\ out'.staff = staff
  /\ r \in Range(gallery) /\ now <= r.at + ReentryWindow
  /\ HereOf(eng') = stay \cup {[visitor |-> r.visitor, number |-> number, staff |-> staff]}
  /\ \/ eng'.lastSeq = eng.lastSeq + 1 /\ number = eng'.lastSeq
     \/ eng'.lastSeq = eng.lastSeq /\ number = Number(eng, r.visitor) /\ number # 0
  /\ Answered(eng, gallery, eng', gallery', stay)
  /\ \A q \in Range(gallery') : q.visitor # r.visitor
  /\ now' = now /\ eng'.born = eng.born /\ eng.lastSeq \in Nat

LEMMA ReturnStep ==
  ASSUME NEW stay, NEW staff, NEW r, NEW number, Returns(stay, staff, r, number)
  PROVE  visits!Return
<1>0. /\ stay \in SUBSET HereOf(eng) /\ out'.staff = staff
      /\ r \in Range(gallery) /\ now <= r.at + ReentryWindow
      /\ HereOf(eng') = stay \cup {[visitor |-> r.visitor, number |-> number, staff |-> staff]}
      /\ \/ eng'.lastSeq = eng.lastSeq + 1 /\ number = eng'.lastSeq
         \/ eng'.lastSeq = eng.lastSeq /\ number = Number(eng, r.visitor) /\ number # 0
      /\ Answered(eng, gallery, eng', gallery', stay)
      /\ \A q \in Range(gallery') : q.visitor # r.visitor
      /\ now' = now /\ eng'.born = eng.born /\ eng.lastSeq \in Nat
  BY DEF Returns
<1>. DEFINE q == [visitor |-> r.visitor, at |-> r.at, number |-> Number(eng, r.visitor)]
<1>1. visits!LeftAfter(stay)
  BY <1>0 DEF visits!LeftAfter, Answered, HereOf, LeftOf, Number, Active
<1>2. q \in LeftOf(eng, gallery) /\ q.visitor = r.visitor /\ q.at = r.at /\ q.number = Number(eng, r.visitor)
  BY <1>0 DEF LeftOf
<1>3. \A x \in LeftOf(eng', gallery') : x.visitor # q.visitor
  BY <1>0 DEF LeftOf
<1>4. number = IF eng'.lastSeq = eng.lastSeq THEN q.number ELSE eng'.lastSeq
  BY <1>0, <1>2
<1>5. eng'.lastSeq \in {eng.lastSeq, eng.lastSeq + 1} /\ (eng'.lastSeq = eng.lastSeq => q.number # 0)
  BY <1>0, <1>2
<1>. HIDE DEF q
<1>. QED
  BY <1>0, <1>1, <1>2, <1>3, <1>4, <1>5 DEF visits!Return, HereOf, LeftOf, Number, Active

-----------------------------------------------------------------------------
(* The steps *)

\* The inductive invariant.
IInv ==
  /\ now \in Nat /\ frames \in Nat
  /\ EngineInv(eng)
  /\ GalleryInv(eng, gallery)
  /\ OpenInside(eng, inside)

LEMMA NewEntryStep ==
  ASSUME IInv, NEW t \in Track, NewEntry(t)
  PROVE  IInv' /\ visits!Arrive /\ visits!Tells
<1>. DEFINE staff == InStaffArea(t)
            v == eng.born + 1
<1>1. PICK c \in CleanedUp(eng, now) : eng' = Enter(c, t, staff, now)
  BY DEF NewEntry
<1>2. /\ gallery' = Fresh(gallery) /\ Emit(t, staff, eng')
      /\ now' = now /\ frames' = frames /\ inside' = inside /\ inRoi' = inRoi
  BY DEF NewEntry, frameVars
<1>3. now \in Nat /\ frames \in Nat /\ EngineInv(eng) /\ GalleryInv(eng, gallery) /\ OpenInside(eng, inside)
  BY DEF IInv
<1>4. staff \in BOOLEAN
  BY DEF InStaffArea
<1>. HIDE DEF staff
<1>5. EngineInv(c) /\ Shrinks(eng, c) /\ c.born = eng.born /\ c.lastSeq = eng.lastSeq
  <2>1. EngineInv(c) /\ Shrinks(eng, c)
    BY <1>3, CleanUp
  <2>. QED
    BY <2>1 DEF Shrinks
<1>6. GalleryInv(c, gallery) /\ OpenInside(c, inside)
  BY <1>3, <1>5, ShrinkKeeps
<1>7. /\ Comes(c, eng', v, t, staff)
      /\ eng'.born = v /\ eng'.lastSeq = eng.lastSeq + 1
      /\ eng'.active[v].seq = eng.lastSeq + 1
  BY <1>1, <1>3, <1>4, <1>5, EnterFacts
<1>8. eng.born \in Nat /\ eng.lastSeq \in Nat
  BY <1>3 DEF EngineInv, Engine
<1>9. \A r \in Range(gallery') : /\ r \in Range(gallery) /\ r.visitor # v /\ r.visitor \in 1..v
                                 /\ r.visitor \notin DOMAIN eng.active
                                 /\ r.visitor \notin DOMAIN c.active
  <2>1. Range(gallery') \subseteq Range(gallery)
    BY <1>2, <1>3, FreshFacts DEF GalleryInv
  <2>2. \A r \in Range(gallery) : r.visitor # v /\ r.visitor \in 1..v
    BY <1>3, <1>8 DEF GalleryInv
  <2>. QED
    BY <1>3, <1>6, <2>1, <2>2 DEF GalleryInv
<1>10. GalleryInv(eng', gallery')
  <2>1. gallery' \in Seq(Exited)
    BY <1>2, <1>3, FreshFacts DEF GalleryInv
  <2>. QED
    BY <1>7, <1>9, <2>1 DEF GalleryInv, Comes
<1>11. OpenInside(eng', inside) /\ EngineInv(eng')
  <2>1. EngineInv(eng')
    BY <1>7 DEF Comes
  <2>. QED
    BY <1>5, <1>6, <1>7, <2>1, ComesKeeps
<1>12. HereOf(c) \in SUBSET HereOf(eng)
  BY <1>5, HereShrinks
<1>13. HereOf(eng') = HereOf(c) \cup {[visitor |-> eng'.born, number |-> eng'.lastSeq, staff |-> staff]}
  BY <1>7, HereComes
<1>14. Answered(eng, gallery, eng', gallery', HereOf(c))
  <2>1. \A r \in Range(gallery') : Number(eng', r.visitor) \in {Number(eng, r.visitor), 0}
    <3>1. \A r \in Range(gallery') : Number(eng', r.visitor) = Number(c, r.visitor)
      BY <1>7, <1>9, ComesNumber
    <3>2. \A r \in Range(gallery') : Number(c, r.visitor) \in {Number(eng, r.visitor), 0}
      BY <1>5, <1>9 DEF Shrinks
    <3>. QED
      BY <3>1, <3>2
  <2>. QED
    BY <1>9, <2>1, AnsweredBy
<1>15. out'.staff = staff
  BY <1>2, <1>7 DEF Emit, Comes, Resolve, NoVisitor
<1>16. visits!Arrive
  BY <1>2, <1>7, <1>12, <1>13, <1>14, <1>15, ArriveStep
<1>17. visits!Tells
  BY <1>2, EmitTells
<1>. QED
  BY <1>2, <1>3, <1>10, <1>11, <1>16, <1>17 DEF IInv

LEMMA ReentryStep ==
  ASSUME IInv, NEW t \in Track, Reentry(t)
  PROVE  IInv' /\ visits!Return /\ visits!Tells
<1>. DEFINE staff == InStaffArea(t)
<1>1. PICK r \in Matches, c \in CleanedUp(eng, now) :
        /\ gallery' = Forget(Fresh(gallery), r.visitor)
        /\ eng' = Resume(c, r.visitor, t, staff, now)
  BY DEF Reentry
<1>2. /\ Emit(t, staff, eng')
      /\ now' = now /\ frames' = frames /\ inside' = inside /\ inRoi' = inRoi
  BY DEF Reentry, frameVars
<1>3. now \in Nat /\ frames \in Nat /\ EngineInv(eng) /\ GalleryInv(eng, gallery) /\ OpenInside(eng, inside)
  BY DEF IInv
<1>4. staff \in BOOLEAN
  BY DEF InStaffArea
<1>. HIDE DEF staff
<1>5. EngineInv(c) /\ Shrinks(eng, c) /\ c.born = eng.born /\ c.lastSeq = eng.lastSeq
  <2>1. EngineInv(c) /\ Shrinks(eng, c)
    BY <1>3, CleanUp
  <2>. QED
    BY <2>1 DEF Shrinks
<1>6. GalleryInv(c, gallery) /\ OpenInside(c, inside)
  BY <1>3, <1>5, ShrinkKeeps
<1>7. /\ r \in Range(gallery) /\ now <= r.at + ReentryWindow
      /\ Fresh(gallery) \in Seq(Exited) /\ Range(Fresh(gallery)) \subseteq Range(gallery)
  BY <1>3, FreshFacts DEF GalleryInv, Matches
<1>8. /\ gallery' \in Seq(Exited)
      /\ \A q \in Range(gallery') : q \in Range(gallery) /\ q.visitor # r.visitor
  BY <1>1, <1>7, ForgetFacts
<1>. DEFINE v == r.visitor
<1>9. v \in 1..c.born /\ v \notin DOMAIN c.active /\ v \notin DOMAIN eng.active
  BY <1>3, <1>6, <1>7 DEF GalleryInv
<1>10. eng' = Resume(c, v, t, staff, now)
  BY <1>1
<1>. HIDE DEF v
<1>11. /\ Comes(c, eng', v, t, staff)
       /\ eng'.mapping[t] = v /\ t \in DOMAIN eng'.mapping
       /\ eng'.born = eng.born
       /\ \/ eng'.lastSeq = eng.lastSeq + 1 /\ eng'.active[v].seq = eng'.lastSeq
          \/ /\ eng'.lastSeq = eng.lastSeq /\ eng'.active[v].seq = Number(c, v)
             /\ Number(c, v) # 0
  BY <1>3, <1>4, <1>5, <1>9, <1>10, ResumeFacts
<1>12. \A q \in Range(gallery') : /\ q \in Range(gallery) /\ q.visitor # v
                                  /\ q.visitor \in 1..eng.born
                                  /\ q.visitor \notin DOMAIN eng.active
                                  /\ q.visitor \notin DOMAIN c.active
  BY <1>3, <1>6, <1>8 DEF GalleryInv, v
<1>13. GalleryInv(eng', gallery')
  BY <1>8, <1>11, <1>12 DEF GalleryInv, Comes
<1>14. OpenInside(eng', inside) /\ EngineInv(eng')
  <2>1. EngineInv(eng')
    BY <1>11 DEF Comes
  <2>. QED
    BY <1>5, <1>6, <1>11, <2>1, ComesKeeps
<1>15. HereOf(c) \in SUBSET HereOf(eng)
  BY <1>5, HereShrinks
<1>16. HereOf(eng') = HereOf(c) \cup {[visitor |-> r.visitor, number |-> eng'.active[v].seq, staff |-> staff]}
  <2>1. HereOf(eng') = HereOf(c) \cup {[visitor |-> v, number |-> eng'.active[v].seq, staff |-> staff]}
    BY <1>11, HereComes
  <2>. QED
    BY <2>1 DEF v
<1>17. Answered(eng, gallery, eng', gallery', HereOf(c))
  <2>1. \A q \in Range(gallery') : Number(eng', q.visitor) \in {Number(eng, q.visitor), 0}
    <3>1. \A q \in Range(gallery') : Number(eng', q.visitor) = Number(c, q.visitor)
      BY <1>11, <1>12, ComesNumber
    <3>2. \A q \in Range(gallery') : Number(c, q.visitor) \in {Number(eng, q.visitor), 0}
      BY <1>5, <1>12 DEF Shrinks
    <3>. QED
      BY <3>1, <3>2
  <2>. QED
    BY <1>12, <2>1, AnsweredBy
<1>18. out'.staff = staff
  <2>1. Resolve(eng', t) = v
    BY <1>11 DEF Comes, Resolve
  <2>2. v # NoVisitor
    BY <1>3, <1>5, <1>9 DEF NoVisitor, EngineInv, Engine
  <2>. QED
    BY <1>2, <1>11, <2>1, <2>2 DEF Emit, Comes
<1>19. Number(c, v) # 0 => Number(c, v) = Number(eng, r.visitor)
  BY <1>5, <1>9 DEF Shrinks, v
<1>20. visits!Return
  <2>. DEFINE number == eng'.active[v].seq
  <2>1. \/ eng'.lastSeq = eng.lastSeq + 1 /\ number = eng'.lastSeq
        \/ eng'.lastSeq = eng.lastSeq /\ number = Number(eng, r.visitor) /\ number # 0
    BY <1>11, <1>19
  <2>2. eng.lastSeq \in Nat
    BY <1>3 DEF EngineInv, Engine
  <2>3. HereOf(eng') = HereOf(c) \cup {[visitor |-> r.visitor, number |-> number, staff |-> staff]}
    BY <1>16
  <2>4. \A q \in Range(gallery') : q.visitor # r.visitor
    BY <1>8
  <2>. HIDE DEF number
  <2>5. Returns(HereOf(c), staff, r, number)
    BY <1>2, <1>7, <1>11, <1>15, <1>17, <1>18, <2>1, <2>2, <2>3, <2>4 DEF Returns
  <2>. QED
    BY <2>5, ReturnStep
<1>21. visits!Tells
  BY <1>2, EmitTells
<1>. QED
  BY <1>2, <1>3, <1>13, <1>14, <1>20, <1>21 DEF IInv

LEMMA HereTouches ==
  ASSUME NEW e, NEW u, NEW v, NEW zs, NEW at, Touches(e, u, v, zs, at)
  PROVE  HereOf(u) = HereOf(e)
<1>1. /\ DOMAIN u.active = DOMAIN e.active
      /\ \A w \in DOMAIN u.active : /\ u.active[w].seq = e.active[w].seq
                                    /\ u.active[w].staff = e.active[w].staff
  BY TouchFacts
<1>2. HereOf(u) \subseteq HereOf(e) /\ HereOf(e) \subseteq HereOf(u)
  BY <1>1 DEF HereOf
<1>. QED
  BY <1>2

LEMMA ExitStep ==
  ASSUME IInv, NEW t \in Track, Exit(t)
  PROVE  IInv' /\ visits!Leave /\ visits!Tells
<1>1. PICK c \in CleanedUp(eng, now) :
        /\ eng' = Leave(c, t, now)
        /\ gallery' \in IF Resolve(c, t) = NoVisitor THEN {gallery}
                        ELSE {Fresh(gallery), Remember(Fresh(gallery), Resolve(c, t))}
  BY DEF Exit
<1>2. /\ Emit(t, InStaffArea(t), eng')
      /\ now' = now /\ frames' = frames /\ inside' = inside
  BY DEF Exit, frameVars
<1>3. now \in Nat /\ frames \in Nat /\ EngineInv(eng) /\ GalleryInv(eng, gallery) /\ OpenInside(eng, inside)
  BY DEF IInv
<1>4. EngineInv(c) /\ Shrinks(eng, c)
  BY <1>3, CleanUp
<1>5. GalleryInv(c, gallery) /\ OpenInside(c, inside)
  BY <1>3, <1>4, ShrinkKeeps
<1>. DEFINE v == Resolve(c, t)
<1>6. /\ EngineInv(eng') /\ Shrinks(c, eng')
      /\ v # NoVisitor => /\ v \in DOMAIN c.active
                          /\ v \notin DOMAIN eng'.active
                          /\ Number(eng', v) = c.active[v].seq
  BY <1>1, <1>3, <1>4, LeaveFacts
<1>7. GalleryInv(eng', gallery) /\ OpenInside(eng', inside)
  BY <1>4, <1>5, <1>6, ShrinkKeeps
<1>8. v # NoVisitor => v \in 1..eng'.born /\ v \in Nat
  <2>1. v # NoVisitor => v \in 1..c.born
    BY <1>4, <1>6 DEF EngineInv, Issued
  <2>2. c.born = eng'.born
    BY <1>6 DEF Shrinks
  <2>. QED
    BY <2>1, <2>2
<1>9. /\ gallery' \in Seq(Exited)
      /\ \A r \in Range(gallery') : \/ r \in Range(gallery)
                                    \/ v # NoVisitor /\ r = [visitor |-> v, at |-> now]
  <2>1. gallery \in Seq(Exited)
    BY <1>3 DEF GalleryInv
  <2>2. Fresh(gallery) \in Seq(Exited) /\ Range(Fresh(gallery)) \subseteq Range(gallery)
    BY <2>1, FreshFacts
  <2>3. CASE v = NoVisitor
    BY <1>1, <2>1, <2>3
  <2>4. CASE v # NoVisitor
    <3>1. v \in Nat
      BY <1>8, <2>4
    <3>. HIDE DEF v
    <3>2. /\ Remember(Fresh(gallery), v) \in Seq(Exited)
          /\ \A r \in Range(Remember(Fresh(gallery), v)) :
               r \in Range(Fresh(gallery)) \/ r = [visitor |-> v, at |-> now]
      BY <1>3, <2>2, <3>1, RememberFacts
    <3>3. gallery' \in {Fresh(gallery), Remember(Fresh(gallery), v)}
      BY <1>1, <2>4 DEF v
    <3>. QED
      BY <2>2, <2>4, <3>2, <3>3
  <2>. QED
    BY <2>3, <2>4
<1>. HIDE DEF v
<1>10. GalleryInv(eng', gallery')
  BY <1>6, <1>7, <1>8, <1>9 DEF GalleryInv
<1>11. HereOf(c) \subseteq HereOf(eng) /\ HereOf(eng') \subseteq HereOf(c)
  BY <1>4, <1>6, HereShrinks
<1>12. Answered(eng, gallery, eng', gallery', HereOf(eng'))
  <2>1. ASSUME NEW r \in Range(gallery'), r \in Range(gallery)
        PROVE  Number(eng', r.visitor) \in {Number(eng, r.visitor), 0}
    <3>1. r.visitor \notin DOMAIN eng.active /\ r.visitor \notin DOMAIN c.active
      BY <1>3, <1>5, <2>1 DEF GalleryInv
    <3>2. Number(c, r.visitor) \in {Number(eng, r.visitor), 0}
      BY <1>4, <3>1 DEF Shrinks
    <3>3. Number(eng', r.visitor) \in {Number(c, r.visitor), 0}
      BY <1>6, <3>1 DEF Shrinks
    <3>. QED
      BY <3>2, <3>3
  <2>2. ASSUME NEW r \in Range(gallery'), v # NoVisitor, r = [visitor |-> v, at |-> now]
        PROVE  /\ r.at = now /\ r.visitor \in DOMAIN eng.active
               /\ Number(eng', r.visitor) = eng.active[r.visitor].seq
               /\ \A x \in HereOf(eng') : x.visitor # r.visitor
    <3>1. v \in DOMAIN eng.active /\ c.active[v] = eng.active[v]
      BY <1>4, <1>6, <2>2 DEF Shrinks
    <3>2. \A x \in HereOf(eng') : x.visitor # v
      BY <1>6, <2>2 DEF HereOf
    <3>. QED
      BY <1>6, <2>2, <3>1, <3>2
  <2>. QED
    BY <1>9, <2>1, <2>2, AnsweredBy
<1>13. visits!Leave
  <2>1. eng'.born = eng.born /\ eng'.lastSeq = eng.lastSeq
    BY <1>4, <1>6 DEF Shrinks
  <2>. QED
    BY <1>2, <1>11, <1>12, <2>1, LeaveStep
<1>14. visits!Tells
  BY <1>2, EmitTells
<1>. QED
  BY <1>2, <1>3, <1>6, <1>7, <1>10, <1>13, <1>14 DEF IInv

\* A step that only ends sessions or notes an event on one.
LEMMA QuietStep ==
  ASSUME IInv, NEW c, EngineInv(c), Shrinks(eng, c),
         EngineInv(eng'), GalleryInv(eng', gallery), OpenInside(eng', inside'),
         HereOf(eng') = HereOf(c), eng'.born = c.born, eng'.lastSeq = c.lastSeq,
         \A w : Number(eng', w) = Number(c, w),
         now' = now, frames' \in Nat, gallery' = gallery
  PROVE  IInv' /\ visits!Leave
<1>1. now \in Nat /\ GalleryInv(eng, gallery)
  BY DEF IInv
<1>2. HereOf(eng') \subseteq HereOf(eng)
  BY HereShrinks
<1>3. \A r \in Range(gallery') :
        r \in Range(gallery) /\ Number(eng', r.visitor) \in {Number(eng, r.visitor), 0}
  BY <1>1 DEF Shrinks, GalleryInv
<1>4. Answered(eng, gallery, eng', gallery', HereOf(eng'))
  BY <1>3, AnsweredBy
<1>5. eng'.born = eng.born /\ eng'.lastSeq = eng.lastSeq
  BY DEF Shrinks
<1>6. visits!Leave
  BY <1>2, <1>4, <1>5, LeaveStep
<1>. QED
  BY <1>1, <1>6 DEF IInv

\* A zone handler on the cleaned-up engine c, that may close a visit in which
\* the track has left the zone, but opens none where it is not.
LEMMA ZoneStep ==
  ASSUME IInv, NEW t \in Track, NEW z \in Zone, NEW c \in CleanedUp(eng, now),
         \/ /\ eng' \in {EnterZone(c, t, z, now), Dwell(c, t, z, now)}
            /\ inside \subseteq inside' /\ <<t, z>> \in inside'
         \/ /\ eng' = LeaveZone(c, t, z, now)
            /\ inside' = inside \ {<<t, z>>},
         now' = now, frames' = frames, gallery' = gallery
  PROVE  IInv' /\ visits!Leave
<1>. DEFINE v == Resolve(c, t)
<1>1. now \in Nat /\ frames \in Nat /\ EngineInv(eng) /\ GalleryInv(eng, gallery) /\ OpenInside(eng, inside)
  BY DEF IInv
<1>2. EngineInv(c) /\ Shrinks(eng, c)
  BY <1>1, CleanUp
<1>3. GalleryInv(c, gallery) /\ OpenInside(c, inside)
  BY <1>1, <1>2, ShrinkKeeps
<1>4. /\ v # NoVisitor => v \in DOMAIN c.active /\ t \in DOMAIN c.mapping /\ c.mapping[t] = v
      /\ v = NoVisitor => t \notin DOMAIN c.mapping
  BY <1>2, ResolveFacts
<1>5. /\ eng' \in {EnterZone(c, t, z, now), Dwell(c, t, z, now)} =>
           eng' = c \/ (v # NoVisitor /\ Touches(c, eng', v, c.active[v].open \cup {z}, now))
      /\ eng' = LeaveZone(c, t, z, now) =>
           \/ eng' = c /\ (v = NoVisitor \/ z \notin c.active[v].open)
           \/ v # NoVisitor /\ Touches(c, eng', v, c.active[v].open \ {z}, now)
  BY <1>1, <1>2, ZoneHandlers
<1>. HIDE DEF v
<1>6. CASE eng' = c /\ OpenInside(c, inside')
  BY <1>1, <1>2, <1>3, <1>6, QuietStep
<1>7. CASE \E zs : /\ v # NoVisitor /\ Touches(c, eng', v, zs, now)
                   /\ \A x \in DOMAIN c.mapping :
                        x # t => \A y \in c.active[c.mapping[x]].open : <<x, y>> \in inside'
                   /\ \A y \in zs : <<t, y>> \in inside'
  <2>1. PICK zs : /\ v # NoVisitor /\ Touches(c, eng', v, zs, now)
                  /\ \A x \in DOMAIN c.mapping :
                       x # t => \A y \in c.active[c.mapping[x]].open : <<x, y>> \in inside'
                  /\ \A y \in zs : <<t, y>> \in inside'
    BY <1>7
  <2>2. GalleryInv(eng', gallery) /\ OpenInside(eng', inside') /\ \A w : Number(eng', w) = Number(c, w)
    BY <1>3, <1>4, <2>1, TouchKeeps
  <2>3. EngineInv(eng') /\ eng'.born = c.born /\ eng'.lastSeq = c.lastSeq
    BY <2>1, TouchFacts
  <2>4. HereOf(eng') = HereOf(c)
    BY <2>1, HereTouches
  <2>. QED
    BY <1>1, <1>2, <2>2, <2>3, <2>4, QuietStep
<1>8. CASE /\ eng' \in {EnterZone(c, t, z, now), Dwell(c, t, z, now)}
           /\ inside \subseteq inside' /\ <<t, z>> \in inside'
  <2>1. OpenInside(c, inside')
    BY <1>3, <1>8 DEF OpenInside
  <2>2. v # NoVisitor => \A y \in c.active[v].open \cup {z} : <<t, y>> \in inside'
    BY <1>4, <1>8, <2>1 DEF OpenInside
  <2>3. \A x \in DOMAIN c.mapping : \A y \in c.active[c.mapping[x]].open : <<x, y>> \in inside'
    BY <2>1 DEF OpenInside
  <2>. QED
    BY <1>5, <1>6, <1>7, <1>8, <2>1, <2>2, <2>3
<1>9. CASE eng' = LeaveZone(c, t, z, now) /\ inside' = inside \ {<<t, z>>}
  <2>1. \A x \in DOMAIN c.mapping :
          x # t => \A y \in c.active[c.mapping[x]].open : <<x, y>> \in inside'
    BY <1>3, <1>9 DEF OpenInside
  <2>2. CASE eng' = c /\ (v = NoVisitor \/ z \notin c.active[v].open)
    <3>1. \A y \in c.active[c.mapping[t]].open : t \in DOMAIN c.mapping => <<t, y>> \in inside'
      BY <1>3, <1>4, <1>9, <2>2 DEF OpenInside
    <3>2. OpenInside(c, inside')
      BY <2>1, <3>1 DEF OpenInside
    <3>. QED
      BY <1>6, <2>2, <3>2
  <2>3. CASE v # NoVisitor /\ Touches(c, eng', v, c.active[v].open \ {z}, now)
    <3>1. \A y \in c.active[v].open \ {z} : <<t, y>> \in inside'
      BY <1>3, <1>4, <1>9, <2>3 DEF OpenInside
    <3>. QED
      BY <1>7, <2>1, <2>3, <3>1
  <2>. QED
    BY <1>5, <1>9, <2>2, <2>3
<1>. QED
  BY <1>8, <1>9

LEMMA ZoneEvents ==
  ASSUME IInv, NEW t \in Track, NEW z \in Zone,
         ZoneEnter(t, z) \/ ZoneExit(t, z) \/ ZoneDwell(t, z)
  PROVE  IInv' /\ visits!Leave /\ visits!Tells
<1>1. PICK c \in CleanedUp(eng, now) :
        \/ /\ eng' \in {EnterZone(c, t, z, now), Dwell(c, t, z, now)}
           /\ inside \subseteq inside' /\ <<t, z>> \in inside'
        \/ /\ eng' = LeaveZone(c, t, z, now)
           /\ inside' = inside \ {<<t, z>>}
  BY DEF ZoneEnter, ZoneExit, ZoneDwell
<1>2. now' = now /\ frames' = frames /\ gallery' = gallery
  BY DEF ZoneEnter, ZoneExit, ZoneDwell, AtZone, frameVars
<1>3. visits!Tells
  BY EmitTells DEF ZoneEnter, ZoneExit, ZoneDwell
<1>. QED
  BY <1>1, <1>2, <1>3, ZoneStep

LEMMA QueueStep ==
  ASSUME IInv, NEW t \in Track, QueueEvent(t)
  PROVE  IInv' /\ visits!Leave /\ visits!Tells
<1>1. /\ eng' \in CleanedUp(eng, now) /\ (out' = Silent \/ Emit(t, InStaffArea(t), eng'))
      /\ now' = now /\ frames' = frames /\ inside' = inside /\ gallery' = gallery
  BY DEF QueueEvent, frameVars
<1>2. now \in Nat /\ frames \in Nat /\ EngineInv(eng) /\ GalleryInv(eng, gallery) /\ OpenInside(eng, inside)
  BY DEF IInv
<1>3. EngineInv(eng') /\ Shrinks(eng, eng')
  BY <1>1, <1>2, CleanUp
<1>4. GalleryInv(eng', gallery) /\ OpenInside(eng', inside')
  BY <1>1, <1>2, <1>3, ShrinkKeeps
<1>5. IInv' /\ visits!Leave
  BY <1>1, <1>2, <1>3, <1>4, QuietStep
<1>. QED
  BY <1>1, <1>5, EmitTells, SilentTells

LEMMA EndStep ==
  ASSUME IInv, EndOfVideo
  PROVE  IInv' /\ visits!Leave /\ visits!Tells
<1>1. /\ frames' = frames + 1 /\ eng' \in ClosedAll(eng, frames') /\ out' = Silent
      /\ now' = now /\ inside' = inside /\ gallery' = gallery
  BY DEF EndOfVideo
<1>2. now \in Nat /\ frames' \in Nat /\ EngineInv(eng) /\ GalleryInv(eng, gallery) /\ OpenInside(eng, inside)
  BY <1>1 DEF IInv
<1>3. EngineInv(eng') /\ Shrinks(eng, eng')
  BY <1>1, <1>2, CloseAll
<1>4. GalleryInv(eng', gallery) /\ OpenInside(eng', inside')
  BY <1>1, <1>2, <1>3, ShrinkKeeps
<1>5. IInv' /\ visits!Leave
  BY <1>1, <1>2, <1>3, <1>4, QuietStep
<1>. QED
  BY <1>1, <1>5, SilentTells

LEMMA FrameStep ==
  ASSUME IInv, NextFrame
  PROVE  IInv' /\ visits!Tick /\ visits!Tells
<1>1. /\ frames' = frames + 1 /\ now' \in now + 1 .. MaxTime /\ out' = Silent
      /\ eng' = eng /\ inside' = inside /\ gallery' = gallery
  BY DEF NextFrame
<1>2. MaxTime \in Nat /\ now \in Nat /\ frames \in Nat
  BY FrameAssumption DEF IInv
<1>3. now' \in Nat /\ frames' \in Nat /\ now' > now
  BY <1>1, <1>2
<1>4. visits!Tick
  BY <1>1, <1>3 DEF visits!Tick, Active
<1>. QED
  BY <1>1, <1>3, <1>4, SilentTells DEF IInv

-----------------------------------------------------------------------------
(* The theorems *)

LEMMA InitInv == Init => IInv
<1> SUFFICES ASSUME Init PROVE IInv
  OBVIOUS
<1>1. now \in Nat /\ frames \in Nat /\ eng = EmptyEngine /\ gallery = <<>>
  BY FrameAssumption DEF Init
<1>2. <<>> \in Dict(Nat, Session) /\ <<>> \in Dict(Track, Nat)
  <2>1. \A K, V : <<>> \in Dict(K, V)
    <3> SUFFICES ASSUME NEW K, NEW V PROVE <<>> \in Dict(K, V)
      OBVIOUS
    <3>1. <<>> = [x \in DOMAIN <<>> |-> <<>>[x]] /\ DOMAIN <<>> = {}
      OBVIOUS
    <3>2. DOMAIN <<>> \subseteq K /\ \A x \in DOMAIN <<>> : <<>>[x] \in V
      BY <3>1
    <3>. QED
      BY <3>1, <3>2, DictDef
  <2>. QED
    BY <2>1
<1>3. EmptyEngine \in Engine
  BY <1>2 DEF EmptyEngine, Engine
<1>4. EngineInv(eng)
  BY <1>1, <1>3 DEF EngineInv, EmptyEngine, Issued, OnTrack, OneVisitor
<1>5. GalleryInv(eng, gallery)
  BY <1>1 DEF GalleryInv, Range
<1>6. OpenInside(eng, inside)
  BY <1>1 DEF OpenInside, EmptyEngine
<1>. QED
  BY <1>1, <1>4, <1>5, <1>6 DEF IInv

\* A step of the pipeline is a step of Visits, or leaves its state alone.
LEMMA StepRefines ==
  ASSUME IInv, [Next]_vars
  PROVE  IInv' /\ [visits!Next]_visits!visitVars
<1>1. CASE Next
  <2>1. ASSUME NEW t \in Track, NewEntry(t) PROVE IInv' /\ visits!Next
    BY <2>1, NewEntryStep DEF visits!Next
  <2>2. ASSUME NEW t \in Track, Reentry(t) PROVE IInv' /\ visits!Next
    BY <2>2, ReentryStep DEF visits!Next
  <2>3. ASSUME NEW t \in Track, Exit(t) PROVE IInv' /\ visits!Next
    BY <2>3, ExitStep DEF visits!Next
  <2>4. ASSUME NEW t \in Track, QueueEvent(t) PROVE IInv' /\ visits!Next
    BY <2>4, QueueStep DEF visits!Next
  <2>5. ASSUME NEW t \in Track, NEW z \in Zone,
               ZoneEnter(t, z) \/ ZoneExit(t, z) \/ ZoneDwell(t, z)
        PROVE  IInv' /\ visits!Next
    BY <2>5, ZoneEvents DEF visits!Next
  <2>6. CASE NextFrame
    BY <2>6, FrameStep DEF visits!Next
  <2>7. CASE EndOfVideo
    BY <2>7, EndStep DEF visits!Next
  <2>. QED
    BY <1>1, <2>1, <2>2, <2>3, <2>4, <2>5, <2>6, <2>7 DEF Next
<1>2. CASE UNCHANGED vars
  <2>1. UNCHANGED <<now, frames, eng, inside, gallery, out>>
    BY <1>2 DEF vars
  <2>2. IInv'
    BY <2>1 DEF IInv
  <2>3. UNCHANGED visits!visitVars
    BY <2>1 DEF visits!visitVars, Active
  <2>. QED
    BY <2>2, <2>3
<1>. QED
  BY <1>1, <1>2

LEMMA Invariance == Spec => []IInv
<1>1. IInv /\ [Next]_vars => IInv'
  BY StepRefines
<1>. QED
  BY <1>1, InitInv, PTL DEF Spec

\* However exits, time-outs, returns and the trimming of the track mapping
\* interleave, a mapped track leads to an active session that is on this
\* track: no event is credited to a visit that is over or to somebody else.
THEOREM MappingsTheorem == Spec => []MappingsLive
<1>1. IInv => MappingsLive
  BY DEF IInv, EngineInv, OnTrack, MappingsLive, Mapped, Active
<1>. QED
  BY <1>1, Invariance, PTL

\* A session number belongs to one visitor, among the active sessions and
\* those in the ring, also when a visitor returns after the ring has forgotten
\* the earlier sessions, for any size of the ring and of the gallery.
THEOREM IdentityTheorem == Spec => []SequenceIdentity
<1>1. IInv => SequenceIdentity
  <2> SUFFICES ASSUME IInv PROVE SequenceIdentity
    OBVIOUS
  <2>1. OneVisitor(eng)
    BY DEF IInv, EngineInv
  <2>2. \A c \in Range(eng.completed) : \E i \in DOMAIN eng.completed : c = eng.completed[i]
    BY DEF Range
  <2>. DEFINE sessions == {<<eng.active[v].seq, v>> : v \in DOMAIN eng.active}
                          \cup {<<c.seq, c.visitor>> : c \in Range(eng.completed)}
  <2>3. \A x \in sessions :
          \/ \E v \in DOMAIN eng.active : x[1] = eng.active[v].seq /\ x[2] = v
          \/ \E i \in DOMAIN eng.completed :
               x[1] = eng.completed[i].seq /\ x[2] = eng.completed[i].visitor
    BY <2>2
  <2>. HIDE DEF sessions
  <2>4. \A x, y \in sessions : x[1] = y[1] => x[2] = y[2]
    BY <2>1, <2>3 DEF OneVisitor
  <2>. QED
    BY <2>4 DEF SequenceIdentity, Active, sessions
<1>. QED
  BY <1>1, Invariance, PTL

\* A zone visit that is open in a reachable session is one in which the zone
\* engine has the track: the two components, that hear of the same crossing
\* one after the other, agree after every event.
THEOREM InsideTheorem == Spec => []OpenVisitsAreInside
<1>1. IInv => OpenVisitsAreInside
  BY DEF IInv, OpenInside, OpenVisitsAreInside, Mapped, Active
<1>. QED
  BY <1>1, Invariance, PTL

\* The pipeline implements Visits: a return follows one remembered exit within
\* the window, continues its number while the ring has it and uses it up; and
\* events name visitors who are in the store, with one staff flag per stay.
THEOREM VisitsTheorem == Spec => ImplementsVisits
<1>1. Init => visits!Init
  BY FrameAssumption DEF Init, visits!Init, EmptyEngine, Silent, NoVisitor, Active, Range
<1>2. IInv /\ [Next]_vars => [visits!Next]_visits!visitVars
  BY StepRefines
<1>. QED
  BY <1>1, <1>2, Invariance, PTL DEF Spec, ImplementsVisits, visits!Spec
===============================================================================
