---------------------------- MODULE EventLogProofs ----------------------------
(***************************************************************************)
(* Proofs about EventLog, for any video, days, sizes of batches and of the *)
(* dedup window, and any number of runs: the log follows the emission, a   *)
(* duplicate is at least a window apart, and a replay of what a finished   *)
(* run and its predecessors wrote restores every event.                    *)
(***************************************************************************)
EXTENDS EventLog, FiniteSetTheorems, WellFoundedInduction, TLAPS

-----------------------------------------------------------------------------
(* Natural numbers *)

\* A set of natural numbers has a least element, which Min chooses.
LEMMA LeastMember ==
  ASSUME NEW S \in SUBSET Nat, S # {}
  PROVE  Min(S) \in S /\ \A m \in S : Min(S) <= m
<1>. DEFINE R == {ss \in Nat \X Nat : ss[1] < ss[2]}
<1>1. IsWellFoundedOn(R, Nat)
  BY NatLessThanWellFounded DEF OpToRel
<1>2. \A m, n \in Nat : m < n => <<m, n>> \in R
  OBVIOUS
<1>3. PICK n \in S : \A m \in S : ~(<<m, n>> \in R)
  <2>. HIDE DEF R
  <2>. QED
    BY <1>1, WFMin
<1>4. ASSUME NEW m \in S PROVE n <= m
  <2>. HIDE DEF R
  <2>1. ~(m < n)
    BY <1>2, <1>3
  <2>. QED
    BY <2>1
<1>. QED
  BY <1>4 DEF Min

\* Induction up to n, in the first-order form that the provers can use.
LEMMA UpTo ==
  ASSUME NEW n \in Nat, NEW S, 0 \in S, \A k \in 1..n : k - 1 \in S => k \in S
  PROVE  0..n \subseteq S
<1>. DEFINE missing == (0..n) \ S
<1>. SUFFICES ASSUME missing # {} PROVE FALSE
  OBVIOUS
<1>. DEFINE k == Min(missing)
<1>1. k \in missing /\ \A m \in missing : k <= m
  <2>1. missing \in SUBSET Nat
    OBVIOUS
  <2>. HIDE DEF missing
  <2>. QED
    BY <2>1, LeastMember
<1>. HIDE DEF k
<1>2. k \in 1..n /\ k - 1 \in 0..n
  BY <1>1
<1>3. k - 1 \notin missing
  BY <1>1, <1>2
<1>. QED
  BY <1>1, <1>2, <1>3

-----------------------------------------------------------------------------
(* Lists of lists *)

\* f[i] is the concatenation of the first i lists of ss.
Cuts(f, ss) ==
  /\ f[0] = <<>>
  /\ \A i \in 1..Len(ss) : f[i] = f[i - 1] \o ss[i]

\* Every list of lists has its concatenations.
LEMMA PrefixesExist ==
  ASSUME NEW T, NEW ss \in Seq(Seq(T))
  PROVE  \E f \in [0..Len(ss) -> Seq(T)] : Cuts(f, ss)
<1>. DEFINE n == Len(ss)
            Good(f, k) == /\ f \in [0..k -> Seq(T)]
                          /\ f[0] = <<>>
                          /\ \A i \in 1..k : f[i] = f[i - 1] \o ss[i]
            defined == {k \in 0..n : \E f : Good(f, k)}
<1>1. n \in Nat /\ \A i \in 1..n : ss[i] \in Seq(T)
  OBVIOUS
<1>. HIDE DEF n
<1>2. 0 \in defined
  <2>1. Good([i \in 0..0 |-> <<>>], 0)
    OBVIOUS
  <2>. HIDE DEF Good
  <2>. QED
    BY <1>1, <2>1
<1>3. ASSUME NEW k \in 1..n, k - 1 \in defined PROVE k \in defined
  <2>1. PICK f : Good(f, k - 1)
    BY <1>3
  <2>. DEFINE g == [i \in 0..k |-> IF i = k THEN f[k - 1] \o ss[k] ELSE f[i]]
  <2>2. k \in Nat /\ k - 1 \in 0..(k - 1) /\ k # 0
    BY <1>1
  <2>3. f[k - 1] \in Seq(T) /\ ss[k] \in Seq(T)
    BY <1>1, <2>1, <2>2
  <2>4. f[k - 1] \o ss[k] \in Seq(T)
    BY <2>3
  <2>5. \A i \in 0..k : i # k => i \in 0..(k - 1)
    BY <1>1
  <2>6. g \in [0..k -> Seq(T)]
    BY <2>1, <2>4, <2>5
  <2>7. \A i \in 1..k : g[i] = g[i - 1] \o ss[i]
    <3> SUFFICES ASSUME NEW i \in 1..k PROVE g[i] = g[i - 1] \o ss[i]
      OBVIOUS
    <3>1. i \in 0..k /\ i - 1 \in 0..k /\ i - 1 # k
      BY <1>1
    <3>2. g[i - 1] = f[i - 1]
      BY <3>1
    <3>3. CASE i = k
      BY <3>1, <3>2, <3>3
    <3>4. CASE i # k
      <4>1. i \in 1..(k - 1)
        BY <1>1, <3>4
      <4>. QED
        BY <2>1, <3>1, <3>2, <3>4, <4>1
    <3>. QED
      BY <3>3, <3>4
  <2>8. g[0] = <<>>
    BY <2>1, <2>2
  <2>9. Good(g, k)
    BY <2>6, <2>7, <2>8
  <2>. HIDE DEF Good, g
  <2>. QED
    BY <1>1, <2>9
<1>4. n \in defined
  <2>. HIDE DEF defined
  <2>1. 0..n \subseteq defined
    BY <1>1, <1>2, <1>3, UpTo
  <2>. QED
    BY <1>1, <2>1
<1>5. PICK f : Good(f, n)
  BY <1>4
<1>. QED
  BY <1>5 DEF n, Cuts

\* There is only one such list of concatenations.
LEMMA PrefixesUnique ==
  ASSUME NEW ss, Len(ss) \in Nat, NEW f, NEW g, Cuts(f, ss), Cuts(g, ss)
  PROVE  \A i \in 0..Len(ss) : f[i] = g[i]
<1>. DEFINE same == {i \in 0..Len(ss) : f[i] = g[i]}
<1>1. 0 \in same
  BY DEF Cuts
<1>2. ASSUME NEW k \in 1..Len(ss), k - 1 \in same PROVE k \in same
  <2>1. k \in 0..Len(ss) /\ f[k - 1] = g[k - 1]
    BY <1>2
  <2>2. f[k] = f[k - 1] \o ss[k] /\ g[k] = g[k - 1] \o ss[k]
    BY DEF Cuts
  <2>. QED
    BY <2>1, <2>2
<1>3. 0..Len(ss) \subseteq same
  <2>. HIDE DEF same
  <2>. QED
    BY <1>1, <1>2, UpTo
<1>. QED
  BY <1>3

\* FlattenSeq is the last of the concatenations.
LEMMA FlattenIs ==
  ASSUME NEW T, NEW ss \in Seq(Seq(T)), NEW f, Cuts(f, ss)
  PROVE  FlattenSeq(ss) = f[Len(ss)]
<1>. DEFINE n == Len(ss)
            step(h, i) == IF i = 1 THEN ss[i] ELSE h[i - 1] \o ss[i]
            Recursion(h) == h = [i \in 1..n |-> step(h, i)]
            flat == CHOOSE h : Recursion(h)
<1>1. n \in Nat
  OBVIOUS
<1>2. CASE n = 0
  <2>1. ss = <<>>
    BY <1>2
  <2>2. FlattenSeq(ss) = ss
    BY <1>2 DEF FlattenSeq
  <2>. QED
    BY <1>2, <2>1, <2>2 DEF Cuts
<1>3. CASE n # 0
  <2>1. FlattenSeq(ss) = flat[n]
    BY <1>3 DEF FlattenSeq
  <2>2. PICK h \in [0..n -> Seq(T)] : Cuts(h, ss)
    BY PrefixesExist
  <2>. DEFINE k == [i \in 1..n |-> h[i]]
  <2>3. Recursion(k)
    <3>1. \A i \in 1..n : ss[i] \in Seq(T)
      OBVIOUS
    <3>2. \A i \in 1..n : k[i] = step(k, i)
      <4> SUFFICES ASSUME NEW i \in 1..n PROVE k[i] = step(k, i)
        OBVIOUS
      <4>1. h[i] = h[i - 1] \o ss[i]
        BY <2>2 DEF Cuts
      <4>2. CASE i = 1
        <5>1. h[0] = <<>> /\ i - 1 = 0
          BY <2>2, <4>2 DEF Cuts
        <5>2. <<>> \o ss[i] = ss[i]
          BY <3>1
        <5>. QED
          BY <4>1, <4>2, <5>1, <5>2
      <4>3. CASE i # 1
        <5>1. i - 1 \in 1..n
          BY <1>1, <4>3
        <5>. QED
          BY <4>1, <4>3, <5>1
      <4>. QED
        BY <4>2, <4>3
    <3>. QED
      BY <3>2
  <2>4. Recursion(flat)
    <3>. HIDE DEF Recursion, k
    <3>. QED
      BY <2>3
  <2>. DEFINE u == [i \in 0..n |-> IF i = 0 THEN <<>> ELSE flat[i]]
  <2>5. Cuts(u, ss)
    <3>. HIDE DEF flat
    <3>1. \A i \in 1..n : flat[i] = step(flat, i)
      BY <2>4
    <3>2. \A i \in 1..n : ss[i] \in Seq(T)
      OBVIOUS
    <3>3. ASSUME NEW i \in 1..n PROVE u[i] = u[i - 1] \o ss[i]
      <4>1. i \in 0..n /\ i - 1 \in 0..n /\ i # 0
        BY <1>1
      <4>2. CASE i = 1
        <5>1. u[i - 1] = <<>>
          BY <4>1, <4>2
        <5>2. <<>> \o ss[i] = ss[i]
          BY <3>2
        <5>. QED
          BY <3>1, <4>1, <4>2, <5>1, <5>2
      <4>3. CASE i # 1
        <5>1. i - 1 # 0
          BY <1>1, <4>3
        <5>2. u[i] = flat[i] /\ u[i - 1] = flat[i - 1]
          BY <4>1, <5>1
        <5>. QED
          BY <3>1, <4>3, <5>2
      <4>. QED
        BY <4>2, <4>3
    <3>4. u[0] = <<>>
      BY <1>1
    <3>. HIDE DEF u
    <3>. QED
      BY <3>3, <3>4 DEF Cuts
  <2>6. u[n] = f[n]
    <3>. HIDE DEF u
    <3>. QED
      BY <1>1, <2>5, PrefixesUnique
  <2>. QED
    BY <1>1, <1>3, <2>1, <2>6
<1>. QED
  BY <1>2, <1>3
LEMMA FlattenType ==
  ASSUME NEW T, NEW ss \in Seq(Seq(T))
  PROVE  FlattenSeq(ss) \in Seq(T)
<1>1. PICK f \in [0..Len(ss) -> Seq(T)] : Cuts(f, ss)
  BY PrefixesExist
<1>2. Len(ss) \in 0..Len(ss)
  OBVIOUS
<1>. QED
  BY <1>1, <1>2, FlattenIs

LEMMA Associative ==
  \A s, t, u \in Seq(Event) : (s \o t) \o u = s \o (t \o u)
<1>. SUFFICES ASSUME NEW s \in Seq(Event), NEW t \in Seq(Event), NEW u \in Seq(Event)
              PROVE  (s \o t) \o u = s \o (t \o u)
  OBVIOUS
<1>. DEFINE a == (s \o t) \o u
            b == s \o (t \o u)
<1>1. s \o t \in Seq(Event) /\ t \o u \in Seq(Event)
  OBVIOUS
<1>2. a \in Seq(Event) /\ b \in Seq(Event)
  BY <1>1
<1>3. Len(a) = Len(b)
  BY <1>1
<1>4. \A i \in 1..Len(a) : a[i] = b[i]
  BY <1>1
<1>. QED
  <2>. HIDE DEF a, b
  <2>. QED
    BY <1>2, <1>3, <1>4

LEMMA NothingAppended ==
  ASSUME NEW T, NEW s \in Seq(T)
  PROVE  s \o <<>> = s /\ <<>> \o s = s
OBVIOUS

LEMMA OneMore ==
  ASSUME NEW T, NEW s \in Seq(T), NEW k \in 1..Len(s)
  PROVE  SubSeq(s, 1, k) = SubSeq(s, 1, k - 1) \o <<s[k]>>
<1>. DEFINE a == SubSeq(s, 1, k)
            b == SubSeq(s, 1, k - 1) \o <<s[k]>>
<1>1. s[k] \in T /\ k \in Nat /\ k - 1 \in Nat /\ Len(s) \in Nat
  OBVIOUS
<1>2. SubSeq(s, 1, k - 1) \in Seq(T) /\ Len(SubSeq(s, 1, k - 1)) = k - 1 /\ <<s[k]>> \in Seq(T)
  BY <1>1
<1>3. a \in Seq(T) /\ Len(a) = k
  BY <1>1
<1>4. b \in Seq(T) /\ Len(b) = k
  BY <1>1, <1>2
<1>5. ASSUME NEW i \in 1..k PROVE a[i] = b[i]
  <2>1. a[i] = s[i]
    BY <1>1
  <2>2. CASE i = k
    BY <1>1, <1>2, <2>1, <2>2
  <2>3. CASE i # k
    <3>1. i \in 1..(k - 1)
      BY <1>1, <2>3
    <3>2. SubSeq(s, 1, k - 1)[i] = s[i]
      BY <1>1, <3>1
    <3>3. b[i] = SubSeq(s, 1, k - 1)[i]
      BY <1>1, <1>2, <3>1
    <3>. QED
      BY <2>1, <3>2, <3>3
  <2>. QED
    BY <2>2, <2>3
<1>. QED
  <2>. HIDE DEF a, b
  <2>. QED
    BY <1>3, <1>4, <1>5

-----------------------------------------------------------------------------
(* What a run has written to a file *)

Line == [event : Event, run : 1..MaxRuns, end : {"whole", "torn", "glued"}]

OwnOf(f, r) == [i \in DOMAIN f |-> IF f[i].run = r THEN <<f[i].event>> ELSE <<>>]

LEMMA OwnOfType ==
  ASSUME NEW f \in Seq(Line), NEW r
  PROVE  /\ OwnOf(f, r) \in Seq(Seq(Event))
         /\ Len(OwnOf(f, r)) = Len(f)
         /\ Own(f, r) = FlattenSeq(OwnOf(f, r))
         /\ Own(f, r) \in Seq(Event)
<1>1. Len(f) \in Nat /\ DOMAIN f = 1..Len(f) /\ \A i \in 1..Len(f) : f[i] \in Line
  OBVIOUS
<1>2. \A i \in 1..Len(f) : OwnOf(f, r)[i] \in Seq(Event)
  BY <1>1 DEF OwnOf, Line
<1>3. DOMAIN OwnOf(f, r) = 1..Len(f) /\ OwnOf(f, r) = [i \in 1..Len(f) |-> OwnOf(f, r)[i]]
  BY <1>1 DEF OwnOf
<1>4. OwnOf(f, r) \in Seq(Seq(Event))
  <2>. HIDE DEF OwnOf
  <2>. QED
    BY <1>1, <1>2, <1>3
<1>5. Len(OwnOf(f, r)) = Len(f)
  BY <1>1, <1>3
<1>6. Own(f, r) = FlattenSeq(OwnOf(f, r))
  BY DEF Own, OwnOf
<1>7. FlattenSeq(OwnOf(f, r)) \in Seq(Event)
  BY <1>4, FlattenType
<1>. QED
  BY <1>4, <1>5, <1>6, <1>7

\* The lines of the events es, as far as their contents go.
Holds(ls, es) ==
  /\ ls \in Seq(Line)
  /\ es \in Seq(Event)
  /\ Len(ls) = Len(es)
  /\ \A i \in 1..Len(es) : ls[i].event = es[i]

\* Lines of the run itself add their events to what it has written.
LEMMA OwnAppended ==
  ASSUME NEW f \in Seq(Line), NEW ls, NEW es, NEW r, Holds(ls, es),
         \A i \in 1..Len(ls) : ls[i].run = r
  PROVE  Own(f \o ls, r) = Own(f, r) \o es
<1>. DEFINE ss == OwnOf(f, r)
            tt == OwnOf(f \o ls, r)
            n == Len(f)
            m == Len(ls)
<1>1. /\ n \in Nat /\ m \in Nat /\ f \o ls \in Seq(Line) /\ Len(f \o ls) = n + m
      /\ es \in Seq(Event) /\ Len(es) = m
      /\ ls \in Seq(Line)
  BY DEF Holds
<1>2. PICK h \in [0..n -> Seq(Event)] : Cuts(h, ss)
  BY PrefixesExist, OwnOfType
<1>3. h[n] = Own(f, r) /\ h[n] \in Seq(Event)
  BY <1>1, <1>2, FlattenIs, OwnOfType
<1>. DEFINE g == [i \in 0..(n + m) |-> IF i <= n THEN h[i] ELSE h[n] \o SubSeq(es, 1, i - n)]
<1>4. \A i \in 1..n : h[i] = h[i - 1] \o ss[i]
  BY <1>2, OwnOfType DEF Cuts
<1>5. ASSUME NEW i \in 1..n PROVE g[i] = g[i - 1] \o tt[i]
  <2>1. i \in 0..(n + m) /\ i - 1 \in 0..(n + m) /\ i <= n /\ i - 1 <= n
    BY <1>1
  <2>2. g[i] = h[i] /\ g[i - 1] = h[i - 1]
    BY <2>1
  <2>3. (f \o ls)[i] = f[i] /\ i \in DOMAIN f /\ i \in DOMAIN (f \o ls)
    BY <1>1
  <2>4. tt[i] = ss[i]
    BY <2>3 DEF OwnOf
  <2>. QED
    BY <1>4, <2>2, <2>4
<1>6. ASSUME NEW i \in (n + 1)..(n + m) PROVE g[i] = g[i - 1] \o tt[i]
  <2>1. i \in 0..(n + m) /\ i - 1 \in 0..(n + m) /\ ~(i <= n) /\ i - n \in 1..m
    BY <1>1
  <2>2. (f \o ls)[i] = ls[i - n] /\ i \in DOMAIN (f \o ls)
    BY <1>1
  <2>3. tt[i] = <<es[i - n]>>
    BY <1>1, <2>1, <2>2 DEF OwnOf, Holds
  <2>4. es[i - n] \in Event
    BY <1>1, <2>1
  <2>5. SubSeq(es, 1, i - n) = SubSeq(es, 1, i - n - 1) \o <<es[i - n]>>
    <3>. DEFINE k == i - n
    <3>1. k \in 1..Len(es)
      BY <1>1, <2>1
    <3>. HIDE DEF k
    <3>2. SubSeq(es, 1, k) = SubSeq(es, 1, k - 1) \o <<es[k]>>
      BY <1>1, <3>1, OneMore
    <3>. QED
      BY <3>2 DEF k
  <2>6. g[i - 1] = h[n] \o SubSeq(es, 1, i - n - 1)
    <3>1. CASE i - 1 = n
      <4>1. i - n - 1 = 0 /\ i - 1 <= n
        BY <1>1, <2>1, <3>1
      <4>2. SubSeq(es, 1, 0) = <<>>
        BY <1>1
      <4>3. g[i - 1] = h[n]
        BY <2>1, <3>1, <4>1
      <4>. QED
        BY <1>3, <4>1, <4>2, <4>3, NothingAppended
    <3>2. CASE i - 1 # n
      <4>1. ~(i - 1 <= n) /\ (i - 1) - n = i - n - 1
        BY <1>1, <2>1, <3>2
      <4>. QED
        BY <2>1, <4>1
    <3>. QED
      BY <3>1, <3>2
  <2>7. SubSeq(es, 1, i - n - 1) \in Seq(Event) /\ <<es[i - n]>> \in Seq(Event)
    BY <1>1, <2>1, <2>4
  <2>8. g[i] = h[n] \o SubSeq(es, 1, i - n)
    BY <2>1
  <2>9. (h[n] \o SubSeq(es, 1, i - n - 1)) \o <<es[i - n]>>
          = h[n] \o (SubSeq(es, 1, i - n - 1) \o <<es[i - n]>>)
    <3>. DEFINE a == h[n]
                b == SubSeq(es, 1, i - n - 1)
                c == <<es[i - n]>>
    <3>1. a \in Seq(Event) /\ b \in Seq(Event) /\ c \in Seq(Event)
      BY <1>3, <2>7
    <3>. HIDE DEF a, b, c
    <3>2. (a \o b) \o c = a \o (b \o c)
      BY <3>1, Associative, Zenon
    <3>. QED
      BY <3>2 DEF a, b, c
  <2>. HIDE DEF g, tt
  <2>. QED
    BY <2>3, <2>5, <2>6, <2>8, <2>9
<1>7. Cuts(g, tt)
  <2>1. Len(tt) = n + m
    BY <1>1, OwnOfType
  <2>2. g[0] = <<>>
    BY <1>1, <1>2 DEF Cuts
  <2>3. \A i \in 1..(n + m) : i \in 1..n \/ i \in (n + 1)..(n + m)
    BY <1>1
  <2>. HIDE DEF g, tt, n, m
  <2>. QED
    BY <1>5, <1>6, <2>1, <2>2, <2>3 DEF Cuts
<1>8. Own(f \o ls, r) = g[n + m]
  <2>. HIDE DEF g, n, m
  <2>1. Len(tt) = n + m /\ tt \in Seq(Seq(Event))
    BY <1>1, OwnOfType
  <2>2. Own(f \o ls, r) = FlattenSeq(tt)
    BY <1>1, OwnOfType
  <2>. HIDE DEF tt
  <2>. QED
    BY <1>7, <2>1, <2>2, FlattenIs
<1>9. g[n + m] = h[n] \o es
  <2>1. n + m \in 0..(n + m)
    BY <1>1
  <2>2. CASE m = 0
    <3>1. es = <<>> /\ n + m <= n /\ n + m = n
      BY <1>1, <2>2
    <3>2. g[n + m] = h[n]
      BY <2>1, <3>1
    <3>. QED
      BY <1>3, <3>1, <3>2, NothingAppended
  <2>3. CASE m # 0
    <3>1. ~(n + m <= n) /\ (n + m) - n = m
      BY <1>1, <2>3
    <3>2. SubSeq(es, 1, m) = es
      BY <1>1
    <3>. QED
      BY <2>1, <3>1, <3>2
  <2>. QED
    BY <2>2, <2>3
<1>. QED
  BY <1>3, <1>8, <1>9

\* Lines of another run do not change what a run has written.
LEMMA OthersAppended ==
  ASSUME NEW f \in Seq(Line), NEW ls \in Seq(Line), NEW r,
         \A i \in 1..Len(ls) : ls[i].run # r
  PROVE  Own(f \o ls, r) = Own(f, r)
<1>. DEFINE ss == OwnOf(f, r)
            tt == OwnOf(f \o ls, r)
            n == Len(f)
            m == Len(ls)
<1>1. n \in Nat /\ m \in Nat /\ f \o ls \in Seq(Line) /\ Len(f \o ls) = n + m
  OBVIOUS
<1>2. PICK h \in [0..n -> Seq(Event)] : Cuts(h, ss)
  BY PrefixesExist, OwnOfType
<1>3. h[n] = Own(f, r) /\ h[n] \in Seq(Event)
  BY <1>1, <1>2, FlattenIs, OwnOfType, SMTT(30)
<1>. DEFINE g == [i \in 0..(n + m) |-> IF i <= n THEN h[i] ELSE h[n]]
<1>4. \A i \in 1..n : h[i] = h[i - 1] \o ss[i]
  BY <1>2, OwnOfType DEF Cuts
<1>5. ASSUME NEW i \in 1..n PROVE g[i] = g[i - 1] \o tt[i]
  <2>1. i \in 0..(n + m) /\ i - 1 \in 0..(n + m) /\ i <= n /\ i - 1 <= n
    BY <1>1
  <2>2. g[i] = h[i] /\ g[i - 1] = h[i - 1]
    BY <2>1
  <2>3. (f \o ls)[i] = f[i] /\ i \in DOMAIN f /\ i \in DOMAIN (f \o ls)
    BY <1>1
  <2>4. tt[i] = ss[i]
    BY <2>3 DEF OwnOf
  <2>. QED
    BY <1>4, <2>2, <2>4
<1>6. ASSUME NEW i \in (n + 1)..(n + m) PROVE g[i] = g[i - 1] \o tt[i]
  <2>1. i \in 0..(n + m) /\ i - 1 \in 0..(n + m) /\ ~(i <= n) /\ i - n \in 1..m
    BY <1>1
  <2>2. (f \o ls)[i] = ls[i - n] /\ i \in DOMAIN (f \o ls)
    BY <1>1
  <2>3. tt[i] = <<>>
    BY <2>1, <2>2 DEF OwnOf
  <2>4. g[i] = h[n]
    BY <2>1
  <2>5. g[i - 1] = h[n]
    <3>1. i - 1 <= n => i - 1 = n
      BY <1>1, <2>1
    <3>. QED
      BY <2>1, <3>1
  <2>. HIDE DEF g, tt
  <2>. QED
    BY <1>3, <2>3, <2>4, <2>5, NothingAppended
<1>7. Cuts(g, tt)
  <2>1. Len(tt) = n + m
    BY <1>1, OwnOfType
  <2>2. g[0] = <<>>
    BY <1>1, <1>2 DEF Cuts
  <2>3. \A i \in 1..(n + m) : i \in 1..n \/ i \in (n + 1)..(n + m)
    BY <1>1
  <2>. HIDE DEF g, tt, n, m
  <2>. QED
    BY <1>5, <1>6, <2>1, <2>2, <2>3 DEF Cuts
<1>8. Own(f \o ls, r) = g[n + m]
  <2>. HIDE DEF g, n, m
  <2>1. Len(tt) = n + m /\ tt \in Seq(Seq(Event))
    BY <1>1, OwnOfType
  <2>2. Own(f \o ls, r) = FlattenSeq(tt)
    BY <1>1, OwnOfType
  <2>. HIDE DEF tt
  <2>. QED
    BY <1>7, <2>1, <2>2, FlattenIs
<1>9. g[n + m] = h[n]
  <2>1. n + m \in 0..(n + m) /\ (n + m <= n => n + m = n)
    BY <1>1
  <2>. QED
    BY <2>1
<1>. QED
  BY <1>3, <1>8, <1>9

\* A run that has no line in a file has written nothing to it.
LEMMA NothingOwn ==
  ASSUME NEW f \in Seq(Line), NEW r, \A i \in DOMAIN f : f[i].run # r
  PROVE  Own(f, r) = <<>>
<1>1. <<>> \in Seq(Line) /\ <<>> \o f = f
  BY NothingAppended
<1>2. Own(f, r) = Own(<<>>, r)
  <2>1. \A i \in 1..Len(f) : f[i].run # r
    OBVIOUS
  <2>2. Own(<<>> \o f, r) = Own(<<>>, r)
    BY <1>1, <2>1, OthersAppended
  <2>. QED
    BY <1>1, <2>2
<1>3. OwnOf(<<>>, r) = <<>>
  <2>1. OwnOf(<<>>, r) \in Seq(Seq(Event)) /\ Len(OwnOf(<<>>, r)) = Len(<<>>)
    BY <1>1, OwnOfType
  <2>. HIDE DEF OwnOf
  <2>. QED
    BY <2>1
<1>4. Own(<<>>, r) = FlattenSeq(<<>>)
  BY <1>1, <1>3, OwnOfType
<1>5. FlattenSeq(<<>>) = <<>>
  BY DEF FlattenSeq
<1>. QED
  BY <1>2, <1>4, <1>5
-----------------------------------------------------------------------------
(* What a run has written to all files *)

Reading(fl, r) == [d \in 1..Day[N] |-> IF d \in Days THEN Own(fl[d], r) ELSE <<>>]

LEMMA DaysInOrder ==
  /\ Day[N] \in Nat
  /\ Days \subseteq 1..Day[N]
  /\ Days \subseteq Nat
  /\ \A e \in Event : Day[e] \in Days /\ Day[e] \in Nat
BY LogAssumption, SMTT(30) DEF Days, Event

LEMMA ReadingType ==
  ASSUME NEW fl \in [Days -> Seq(Line)], NEW r
  PROVE  /\ Reading(fl, r) \in Seq(Seq(Event))
         /\ Len(Reading(fl, r)) = Day[N]
         /\ FlattenSeq(Reading(fl, r)) \in Seq(Event)
<1>1. \A d \in Days : Own(fl[d], r) \in Seq(Event)
  BY OwnOfType
<1>2. \A d \in 1..Day[N] : Reading(fl, r)[d] \in Seq(Event)
  BY <1>1 DEF Reading
<1>3. DOMAIN Reading(fl, r) = 1..Day[N] /\ Reading(fl, r) = [d \in 1..Day[N] |-> Reading(fl, r)[d]]
  BY DEF Reading
<1>4. Reading(fl, r) \in Seq(Seq(Event)) /\ Len(Reading(fl, r)) = Day[N]
  <2>1. Day[N] \in Nat
    BY DaysInOrder
  <2>. DEFINE R == Reading(fl, r)
              n == Day[N]
  <2>. HIDE DEF R, n
  <2>2. n \in Nat /\ DOMAIN R = 1..n /\ R = [d \in 1..n |-> R[d]] /\ \A d \in 1..n : R[d] \in Seq(Event)
    BY <1>2, <1>3, <2>1 DEF R, n
  <2>3. R \in Seq(Seq(Event)) /\ Len(R) = n
    BY <2>2
  <2>. QED
    BY <2>3 DEF R, n
<1>. QED
  BY <1>4, FlattenType

\* Files in which a run has the same events read the same.
LEMMA ReadingSame ==
  ASSUME NEW fl, NEW gl, NEW r, \A d \in Days : Own(gl[d], r) = Own(fl[d], r)
  PROVE  Reading(gl, r) = Reading(fl, r)
BY DEF Reading

\* Events added to the last file that a run has written to are read last.
LEMMA ReadingAppended ==
  ASSUME NEW fl \in [Days -> Seq(Line)], NEW gl \in [Days -> Seq(Line)], NEW r,
         NEW p \in Days, NEW es \in Seq(Event),
         Own(gl[p], r) = Own(fl[p], r) \o es,
         \A d \in Days \ {p} : Own(gl[d], r) = Own(fl[d], r),
         \A d \in Days : d > p => Own(fl[d], r) = <<>>
  PROVE  FlattenSeq(Reading(gl, r)) = FlattenSeq(Reading(fl, r)) \o es
<1>. DEFINE n == Day[N]
            ss == Reading(fl, r)
            tt == Reading(gl, r)
<1>1. n \in Nat /\ p \in 1..n
  BY DaysInOrder
<1>2. /\ ss \in Seq(Seq(Event)) /\ Len(ss) = n
      /\ tt \in Seq(Seq(Event)) /\ Len(tt) = n
  BY ReadingType
<1>3. PICK h \in [0..n -> Seq(Event)] : Cuts(h, ss)
  <2>. HIDE DEF n, ss
  <2>. QED
    BY <1>2, PrefixesExist
<1>4. h[0] = <<>> /\ \A i \in 1..n : h[i] = h[i - 1] \o ss[i]
  BY <1>2, <1>3 DEF Cuts
<1>5. /\ \A i \in 1..n : i # p => tt[i] = ss[i]
      /\ tt[p] = ss[p] \o es
      /\ \A i \in 1..n : i > p => ss[i] = <<>>
      /\ ss[p] \in Seq(Event)
  BY <1>1, OwnOfType DEF Reading
<1>. DEFINE g == [i \in 0..n |-> IF i < p THEN h[i] ELSE h[i] \o es]
<1>. HIDE DEF n, ss, tt
<1>6. ASSUME NEW i \in 1..n PROVE g[i] = g[i - 1] \o tt[i]
  <2>1. i \in 0..n /\ i - 1 \in 0..n /\ i \in Nat /\ p \in Nat
    BY <1>1
  <2>2. h[i] \in Seq(Event) /\ h[i - 1] \in Seq(Event) /\ h[i] = h[i - 1] \o ss[i]
    BY <1>3, <1>4, <2>1
  <2>3. CASE i < p
    <3>1. i - 1 < p /\ i # p
      BY <2>1, <2>3
    <3>2. g[i] = h[i] /\ g[i - 1] = h[i - 1]
      BY <2>1, <2>3, <3>1
    <3>. QED
      BY <1>5, <2>2, <3>1, <3>2
  <2>4. CASE i = p
    <3>1. i - 1 < p /\ ~(i < p)
      BY <2>1, <2>4
    <3>2. g[i] = h[i] \o es /\ g[i - 1] = h[i - 1]
      BY <2>1, <3>1
    <3>3. (h[i - 1] \o ss[p]) \o es = h[i - 1] \o (ss[p] \o es)
      BY <1>5, <2>2, Associative
    <3>. HIDE DEF g
    <3>. QED
      BY <1>5, <2>2, <2>4, <3>2, <3>3
  <2>5. CASE i > p
    <3>1. ~(i < p) /\ ~(i - 1 < p) /\ i # p
      BY <2>1, <2>5
    <3>2. g[i] = h[i] \o es /\ g[i - 1] = h[i - 1] \o es
      BY <2>1, <3>1
    <3>3. tt[i] = <<>> /\ ss[i] = <<>>
      BY <1>5, <2>5, <3>1
    <3>4. h[i] = h[i - 1]
      BY <2>2, <3>3, NothingAppended
    <3>5. h[i - 1] \o es \in Seq(Event)
      BY <2>2
    <3>. HIDE DEF g
    <3>. QED
      BY <3>2, <3>3, <3>4, <3>5, NothingAppended
  <2>6. i < p \/ i = p \/ i > p
    BY <2>1
  <2>. HIDE DEF g
  <2>. QED
    BY <2>3, <2>4, <2>5, <2>6
<1>7. Cuts(g, tt)
  <2>1. g[0] = <<>>
    BY <1>1, <1>4
  <2>. HIDE DEF g
  <2>. QED
    BY <1>2, <1>6, <2>1 DEF Cuts
<1>8. FlattenSeq(tt) = g[n] /\ FlattenSeq(ss) = h[n]
  <2>. HIDE DEF g
  <2>. QED
    BY <1>2, <1>3, <1>7, FlattenIs
<1>9. g[n] = h[n] \o es
  BY <1>1
<1>. QED
  BY <1>8, <1>9 DEF ss, tt
-----------------------------------------------------------------------------
(* The inductive invariant *)

ReaderRecord ==
  [mode : {"idle", "loaded", "streaming", "failed"}, day : Nat, pos : Nat, last : Nat]

TypeOK ==
  /\ run \in 1..MaxRuns
  /\ pc \in {"running", "dead", "finished"}
  /\ next \in 1..(N + 1)
  /\ buffer \in Seq(Event)
  /\ seen \in Seq(Event)
  /\ repeats \in Nat
  /\ file \in [Days -> Seq(Line)]
  /\ reader \in ReaderRecord
  /\ stored \in [Event -> 0..MaxRuns]
  /\ accepted \in [1..MaxRuns -> Seq(Event)]
  /\ fresh \subseteq Days

\* Equal events are more than a window apart.
Apart(s) == \A i, j \in DOMAIN s : i < j /\ s[i] = s[j] => j - i > MaxKeys

\* The window holds the last events that the run has accepted.
WindowInv ==
  /\ seen = LastOf(accepted[run], MaxKeys)
  /\ \A r \in 1..MaxRuns : Apart(accepted[r])

\* What run r has written to all files.
Read(fl, r) == FlattenSeq(Reading(fl, r))

\* At most the last batch of the accepted events a is missing in the log l.
Lacking(l, a) == IsPrefix(l, a) /\ Len(a) - Len(l) <= BatchSize

\* What is in the files comes before what is in the buffer, by day as well.
LogInv ==
  /\ pc = "running" => Read(file, run) \o buffer = accepted[run]
  /\ pc = "finished" => Read(file, run) = accepted[run] /\ next = N + 1
  /\ pc = "dead" => Lacking(Read(file, run), accepted[run])
  /\ pc # "running" => buffer = <<>>
  /\ \A r \in 1..(run - 1) : Lacking(Read(file, r), accepted[r])
  /\ \A r \in (run + 1)..MaxRuns : accepted[r] = <<>>
  /\ Len(buffer) < BatchSize
  /\ \A i \in DOMAIN buffer : next > 1 /\ Day[buffer[i]] <= Day[next - 1]
  /\ \A d \in Days : \A i \in DOMAIN file[d] : file[d][i].run <= run
  /\ \A d \in Days : \A i \in DOMAIN file[d] : file[d][i].run = run =>
       /\ next > 1
       /\ d <= Day[next - 1]
       /\ buffer # <<>> => d <= Day[buffer[1]]

\* An event waits in the buffer bf or is in one of the files fl.
Safe(bf, fl, e) ==
  \/ \E i \in DOMAIN bf : bf[i] = e
  \/ \E d \in Days : \E i \in DOMAIN fl[d] : fl[d][i].event = e

\* The event of each line before pos of the file of a day is stored.
StoredUpTo(d, pos) == \A i \in 1..(pos - 1) : stored[file[d][i].event] # 0

\* A reader has stored what it has passed.
ReaderOK ==
  reader.mode \in {"loaded", "streaming"} =>
    /\ reader.day \in Days
    /\ reader.pos \in 1..(Len(file[reader.day]) + 1)
    /\ reader.last <= Len(file[reader.day])
    /\ StoredUpTo(reader.day, reader.pos)

\* What a living run has emitted is in its files or on its way there.
EmittedInv ==
  /\ \A e \in 1..(next - 1) : \E i \in DOMAIN accepted[run] : accepted[run][i] = e
  /\ pc # "dead" => \A i \in DOMAIN accepted[run] : Safe(buffer, file, accepted[run][i])

\* What the API holds of the files.
ReplayedInv ==
  /\ \A d \in fresh : \A i \in DOMAIN file[d] : stored[file[d][i].event] # 0
  /\ \A e \in Event : stored[e] # 0 =>
       \E d \in Days : \E i \in DOMAIN file[d] :
         file[d][i].run = stored[e] /\ file[d][i].event = e
  /\ ReaderOK

IInv == TypeOK /\ WindowInv /\ LogInv /\ EmittedInv /\ ReplayedInv

-----------------------------------------------------------------------------
(* Emissions *)

\* One event reaches emit(), the next of the video or one of the same day.
Emission(e) ==
  /\ Emit(e)
  /\ e \in Event
  /\ next' \in {next, next + 1}
  /\ next' \in 2..(N + 1)
  /\ 1..(next' - 1) \subseteq (1..(next - 1)) \cup {e}
  /\ Day[e] <= Day[next' - 1]
  /\ next > 1 => Day[next - 1] <= Day[e]
  /\ repeats' \in Nat

LEMMA Emissions ==
  ASSUME TypeOK, EmitNext \/ EmitAgain
  PROVE  \E e : Emission(e)
<1>1. N \in Nat \ {0} /\ Event = 1..N
  BY LogAssumption DEF Event
<1>2. \A e \in Event : Day[e] \in Nat
  BY LogAssumption DEF Event
<1>3. CASE EmitNext
  <2>1. next > 1 => Day[next - 1] <= Day[next]
    BY <1>1, <1>3, LogAssumption DEF EmitNext, TypeOK
  <2>2. Emission(next)
    BY <1>1, <1>2, <1>3, <2>1 DEF Emission, EmitNext, TypeOK
  <2>. QED
    BY <2>2
<1>4. CASE EmitAgain
  <2>1. PICK e \in 1..(next - 1) : Day[e] = Day[next - 1] /\ Emit(e)
    BY <1>4 DEF EmitAgain
  <2>2. Emission(e)
    BY <1>1, <1>2, <1>4, <2>1 DEF Emission, EmitAgain, TypeOK
  <2>. QED
    BY <2>2
<1>. QED
  BY <1>3, <1>4

\* The lines ls of the first events of es are written to the file of es.
Puts(ls, es) ==
  /\ es \in Seq(Event)
  /\ ls \in Seq(Line)
  /\ Len(ls) \in 1..Len(es)
  /\ \A i \in 1..Len(ls) : ls[i].event = es[i] /\ ls[i].run = run
  /\ file' = [file EXCEPT ![Path(es)] = @ \o ls]
  /\ buffer' = <<>>
  /\ fresh' = fresh \ {Path(es)}

LEMMA LinesFacts ==
  ASSUME NEW f, NEW es \in Seq(Event), NEW r \in 1..MaxRuns
  PROVE  /\ Lines(f, es, r) \in Seq(Line)
         /\ Len(Lines(f, es, r)) = Len(es)
         /\ \A i \in 1..Len(es) : Lines(f, es, r)[i].event = es[i] /\ Lines(f, es, r)[i].run = r
<1>. DEFINE ls == Lines(f, es, r)
            n == Len(es)
<1>1. n \in Nat /\ DOMAIN es = 1..n /\ \A i \in 1..n : es[i] \in Event
  OBVIOUS
<1>2. \A i \in 1..n : ls[i] \in Line /\ ls[i].event = es[i] /\ ls[i].run = r
  BY <1>1 DEF Lines, Line
<1>3. DOMAIN ls = 1..n /\ ls = [i \in 1..n |-> ls[i]]
  BY <1>1 DEF Lines
<1>4. ls \in Seq(Line) /\ Len(ls) = n
  <2>. HIDE DEF ls, n
  <2>. QED
    BY <1>1, <1>2, <1>3
<1>. QED
  BY <1>2, <1>4

LEMMA TornFacts ==
  ASSUME NEW ls \in Seq(Line), Len(ls) > 0
  PROVE  /\ Torn(ls) \in Seq(Line)
         /\ Len(Torn(ls)) = Len(ls)
         /\ \A i \in 1..Len(ls) : Torn(ls)[i].event = ls[i].event /\ Torn(ls)[i].run = ls[i].run
<1>. DEFINE n == Len(ls)
            ts == Torn(ls)
<1>1. n \in Nat /\ DOMAIN ls = 1..n /\ \A i \in 1..n : ls[i] \in Line
  OBVIOUS
<1>2. \A i \in 1..n : ts[i] \in Line /\ ts[i].event = ls[i].event /\ ts[i].run = ls[i].run
  BY <1>1 DEF Torn, Line
<1>3. DOMAIN ts = 1..n /\ ts = [i \in 1..n |-> ts[i]]
  BY <1>1 DEF Torn
<1>4. ts \in Seq(Line) /\ Len(ts) = n
  <2>. HIDE DEF ts, n
  <2>. QED
    BY <1>1, <1>2, <1>3
<1>. QED
  BY <1>2, <1>4

LEMMA PathIsDay ==
  ASSUME NEW es \in Seq(Event), Len(es) > 0
  PROVE  Path(es) = Day[es[1]] /\ Path(es) \in Days /\ es[1] \in Event
<1>1. Head(es) = es[1] /\ es[1] \in Event
  OBVIOUS
<1>. QED
  BY <1>1, DaysInOrder DEF Path

LEMMA Flushed ==
  ASSUME TypeOK, NEW es \in Seq(Event), Len(es) > 0, Flush(es)
  PROVE  \E ls : Puts(ls, es) /\ Len(ls) = Len(es)
<1>. DEFINE ls == Lines(file[Path(es)], es, run)
<1>1. ls \in Seq(Line) /\ Len(ls) = Len(es) /\ \A i \in 1..Len(es) : ls[i].event = es[i] /\ ls[i].run = run
  <2>1. run \in 1..MaxRuns
    BY DEF TypeOK
  <2>. QED
    BY <2>1, LinesFacts, ZenonT(40)
<1>2. file' = [file EXCEPT ![Path(es)] = @ \o ls] /\ buffer' = <<>> /\ fresh' = fresh \ {Path(es)}
  BY PathIsDay DEF Flush, TypeOK
<1>. HIDE DEF ls
<1>3. Puts(ls, es)
  BY <1>1, <1>2 DEF Puts
<1>. QED
  BY <1>1, <1>3

LEMMA FlushedDying ==
  ASSUME TypeOK, NEW es \in Seq(Event), Len(es) > 0, FlushDying(es)
  PROVE  pc' = "dead" /\ \E ls : Puts(ls, es)
<1>1. PICK n \in 1..Len(es), torn \in BOOLEAN :
        LET lines == Lines(file[Path(es)], SubSeq(es, 1, n), run)
        IN  file' = [file EXCEPT ![Path(es)] = @ \o (IF torn THEN Torn(lines) ELSE lines)]
  BY DEF FlushDying
<1>. DEFINE part == SubSeq(es, 1, n)
            lines == Lines(file[Path(es)], part, run)
            ls == IF torn THEN Torn(lines) ELSE lines
<1>2. part \in Seq(Event) /\ Len(part) = n /\ \A i \in 1..n : part[i] = es[i]
  OBVIOUS
<1>3. lines \in Seq(Line) /\ Len(lines) = n /\ \A i \in 1..n : lines[i].event = es[i] /\ lines[i].run = run
  <2>. HIDE DEF part
  <2>1. run \in 1..MaxRuns
    BY DEF TypeOK
  <2>2. /\ lines \in Seq(Line) /\ Len(lines) = Len(part)
        /\ \A i \in 1..Len(part) : lines[i].event = part[i] /\ lines[i].run = run
    <3>1. part \in Seq(Event)
      BY <1>2
    <3>. QED
      BY <2>1, <3>1, LinesFacts, Zenon
  <2>. HIDE DEF lines
  <2>. QED
    BY <1>2, <2>2
<1>4. ls \in Seq(Line) /\ Len(ls) = n /\ \A i \in 1..n : ls[i].event = es[i] /\ ls[i].run = run
  <2>1. Len(lines) > 0
    BY <1>3
  <2>. HIDE DEF lines
  <2>. QED
    BY <1>3, <2>1, TornFacts
<1>5. file' = [file EXCEPT ![Path(es)] = @ \o ls] /\ buffer' = <<>> /\ fresh' = fresh \ {Path(es)}
  BY <1>1 DEF FlushDying
<1>. HIDE DEF ls
<1>6. Puts(ls, es)
  BY <1>4, <1>5 DEF Puts
<1>. QED
  BY <1>6 DEF FlushDying

\* What emit() may do with an event.
Refused(e) ==
  /\ \E i \in DOMAIN seen : seen[i] = e
  /\ UNCHANGED <<pc, seen, buffer, file, fresh, accepted>>

Taken(e) ==
  /\ \A i \in DOMAIN seen : seen[i] # e
  /\ seen' = Remember(seen, e)
  /\ accepted' = [accepted EXCEPT ![run] = Append(@, e)]

Kept(e) ==
  /\ Taken(e)
  /\ Len(buffer) + 1 < BatchSize
  /\ buffer' = Append(buffer, e)
  /\ UNCHANGED <<pc, file, fresh>>

Written(e, ls) ==
  /\ Taken(e)
  /\ Puts(ls, Append(buffer, e))
  /\ \/ Len(ls) = Len(buffer) + 1 /\ UNCHANGED pc
     \/ pc' = "dead"

LEMMA EmissionCases ==
  ASSUME TypeOK, NEW e, Emission(e)
  PROVE  /\ pc = "running"
         /\ UNCHANGED <<run, reader, stored>>
         /\ Refused(e) \/ Kept(e) \/ \E ls : Written(e, ls)
<1>1. pc = "running" /\ UNCHANGED <<run, reader, stored>>
  BY DEF Emission, Emit
<1>. DEFINE waiting == Append(buffer, e)
<1>2. waiting \in Seq(Event) /\ Len(waiting) = Len(buffer) + 1 /\ Len(waiting) > 0 /\ Len(buffer) \in Nat
  BY DEF TypeOK, Emission
<1>3. CASE \E i \in DOMAIN seen : seen[i] = e
  BY <1>1, <1>3 DEF Emission, Emit, Refused
<1>4. CASE ~\E i \in DOMAIN seen : seen[i] = e
  <2>1. Taken(e)
    BY <1>4 DEF Emission, Emit, Taken
  <2>2. \/ /\ Len(waiting) < BatchSize
           /\ buffer' = waiting
           /\ UNCHANGED <<pc, file, fresh>>
        \/ Flush(waiting) /\ UNCHANGED pc
        \/ FlushDying(waiting)
    BY <1>4 DEF Emission, Emit
  <2>3. CASE Len(waiting) < BatchSize /\ buffer' = waiting /\ UNCHANGED <<pc, file, fresh>>
    BY <1>1, <1>2, <2>1, <2>3 DEF Kept
  <2>. HIDE DEF waiting
  <2>4. CASE Flush(waiting) /\ UNCHANGED pc
    <3>1. PICK ls : Puts(ls, waiting) /\ Len(ls) = Len(waiting)
      BY <1>2, <2>4, Flushed
    <3>. QED
      BY <1>1, <1>2, <2>1, <2>4, <3>1 DEF Written, waiting
  <2>5. CASE FlushDying(waiting)
    <3>1. pc' = "dead" /\ \E ls : Puts(ls, waiting)
      BY <1>2, <2>5, FlushedDying
    <3>. QED
      BY <1>1, <2>1, <3>1 DEF Written, waiting
  <2>. QED
    BY <2>2, <2>3, <2>4, <2>5
<1>. QED
  BY <1>1, <1>3, <1>4

\* The end of the video, with or without a last batch.
LEMMA FinishCases ==
  ASSUME TypeOK, Finish
  PROVE  \/ buffer = <<>> /\ pc' = "finished" /\ UNCHANGED <<buffer, file, fresh>>
         \/ \E ls : /\ Puts(ls, buffer)
                    /\ \/ pc' = "finished" /\ Len(ls) = Len(buffer)
                       \/ pc' = "dead"
<1>1. buffer \in Seq(Event) /\ (buffer # <<>> => Len(buffer) > 0)
  BY DEF TypeOK
<1>2. CASE buffer # <<>> /\ Flush(buffer) /\ pc' = "finished"
  BY <1>1, <1>2, Flushed
<1>3. CASE buffer # <<>> /\ FlushDying(buffer)
  BY <1>1, <1>3, FlushedDying
<1>. QED
  BY <1>2, <1>3 DEF Finish
\* What a write changes in the files.
LEMMA PutsFacts ==
  ASSUME TypeOK, NEW es, NEW ls, Puts(ls, es)
  PROVE  /\ Path(es) \in Days /\ Path(es) = Day[es[1]] /\ es[1] \in Event
         /\ file' \in [Days -> Seq(Line)]
         /\ file'[Path(es)] = file[Path(es)] \o ls
         /\ \A d \in Days \ {Path(es)} : file'[d] = file[d]
<1>1. Len(es) > 0 /\ es \in Seq(Event) /\ ls \in Seq(Line)
  BY DEF Puts
<1>2. Path(es) \in Days /\ Path(es) = Day[es[1]] /\ es[1] \in Event
  BY <1>1, PathIsDay
<1>. DEFINE p == Path(es)
<1>3. p \in Days /\ file' = [file EXCEPT ![p] = @ \o ls] /\ file \in [Days -> Seq(Line)]
  BY <1>2 DEF Puts, TypeOK
<1>4. file[p] \o ls \in Seq(Line)
  BY <1>1, <1>3
<1>5. file' \in [Days -> Seq(Line)] /\ file'[p] = file[p] \o ls /\ \A d \in Days \ {p} : file'[d] = file[d]
  <2>. HIDE DEF p
  <2>. QED
    BY <1>3, <1>4
<1>. QED
  BY <1>2, <1>5

-----------------------------------------------------------------------------
(* Types *)

LEMMA MinOf ==
  ASSUME NEW a \in Nat, NEW b \in Nat
  PROVE  Min({a, b}) \in {a, b} /\ Min({a, b}) <= a /\ Min({a, b}) <= b
<1>1. {a, b} \in SUBSET Nat /\ {a, b} # {}
  OBVIOUS
<1>. QED
  BY <1>1, LeastMember

LEMMA LastOfType ==
  ASSUME NEW T, NEW s \in Seq(T), NEW n \in Nat
  PROVE  /\ LastOf(s, n) \in Seq(T)
         /\ Len(LastOf(s, n)) = IF Len(s) > n THEN n ELSE Len(s)
         /\ \A i \in 1..Len(LastOf(s, n)) :
              LastOf(s, n)[i] = s[i + (Len(s) - Len(LastOf(s, n)))]
<1>. DEFINE m == IF Len(s) > n THEN Len(s) - n + 1 ELSE 1
            t == SubSeq(s, m, Len(s))
<1>1. Len(s) \in Nat /\ m \in Nat /\ m >= 1 /\ m <= Len(s) + 1
  OBVIOUS
<1>2. LastOf(s, n) = t
  BY DEF LastOf
<1>3. (Len(s) - m) + 1 = IF Len(s) > n THEN n ELSE Len(s)
  BY <1>1
<1>4. (Len(s) - m) + 1 \in Nat
  BY <1>1
<1>5. \A i \in m..Len(s) : s[i] \in T
  BY <1>1
<1>. HIDE DEF m
<1>6. t \in Seq(T) /\ Len(t) = (Len(s) - m) + 1
  BY <1>1, <1>4, <1>5
<1>7. \A i \in 1..((Len(s) - m) + 1) : t[i] = s[i + (m - 1)]
  BY <1>1, <1>4
<1>8. m - 1 = Len(s) - ((Len(s) - m) + 1)
  BY <1>1
<1>. HIDE DEF t
<1>9. \A i \in 1..Len(t) : t[i] = s[i + (Len(s) - Len(t))]
  BY <1>6, <1>7, <1>8
<1>. QED
  BY <1>2, <1>3, <1>6, <1>9

LEMMA ChunkFacts ==
  ASSUME TypeOK, ReaderOK, reader.mode \in {"loaded", "streaming"}, ~Exhausted
  PROVE  LET d == reader.day
             m == Min({reader.pos + ReplayBatch - 1, End})
         IN  /\ d \in Days
             /\ End \in Nat /\ End <= Len(file[d])
             /\ reader.pos \in Nat /\ m \in Nat
             /\ 1 <= reader.pos /\ reader.pos <= m /\ m <= End
             /\ Chunk = SubSeq(file[d], reader.pos, m)
             /\ Chunk \in Seq(Line)
             /\ Len(Chunk) = (m - reader.pos) + 1
             /\ \A i \in 1..Len(Chunk) : Chunk[i] = file[d][i + (reader.pos - 1)]
<1>. DEFINE d == reader.day
            k == reader.pos
            f == file[d]
            m == Min({k + ReplayBatch - 1, End})
<1>1. d \in Days /\ f \in Seq(Line) /\ Len(f) \in Nat /\ k \in Nat /\ 1 <= k
  BY DEF ReaderOK, TypeOK
<1>2. End \in Nat /\ End <= Len(f)
  BY <1>1 DEF ReaderOK, TypeOK, End, ReaderRecord
<1>3. k <= End
  BY <1>1, <1>2 DEF Exhausted
<1>4. k + ReplayBatch - 1 \in Nat /\ k <= k + ReplayBatch - 1
  BY <1>1, LogAssumption
<1>5. m \in Nat /\ k <= m /\ m <= End
  <2>1. m \in {k + ReplayBatch - 1, End} /\ m <= End
    BY <1>2, <1>4, MinOf
  <2>. HIDE DEF m, k
  <2>. QED
    BY <1>2, <1>3, <1>4, <2>1
<1>6. Chunk = SubSeq(f, k, m)
  BY DEF Chunk
<1>. HIDE DEF m, k, f
<1>7. SubSeq(f, k, m) \in Seq(Line) /\ Len(SubSeq(f, k, m)) = (m - k) + 1
  BY <1>1, <1>2, <1>5
<1>8. \A i \in 1..((m - k) + 1) : SubSeq(f, k, m)[i] = f[i + (k - 1)]
  BY <1>1, <1>2, <1>5
<1>. QED
  BY <1>1, <1>2, <1>5, <1>6, <1>7, <1>8 DEF m, k, f

LEMMA IngestType ==
  ASSUME TypeOK, NEW lines \in Seq(Line), Ingest(lines)
  PROVE  /\ stored' \in [Event -> 0..MaxRuns]
         /\ \A e \in Event : stored[e] # 0 => stored'[e] = stored[e]
         /\ \A e \in Event : stored'[e] # stored[e] =>
              \E i \in 1..Len(lines) : lines[i].event = e /\ lines[i].run = stored'[e]
         /\ \A i \in 1..Len(lines) : stored'[lines[i].event] # 0
<1>. DEFINE copies(e) == {lines[i].run : i \in {j \in DOMAIN lines : lines[j].event = e}}
<1>1. /\ DOMAIN lines = 1..Len(lines)
      /\ \A i \in 1..Len(lines) : lines[i].event \in Event /\ lines[i].run \in 1..MaxRuns
  <2>1. DOMAIN lines = 1..Len(lines) /\ \A i \in 1..Len(lines) : lines[i] \in Line
    OBVIOUS
  <2>. QED
    BY <2>1 DEF Line
<1>2. MaxRuns \in Nat
  BY LogAssumption
<1>3. stored' = [e \in Event |-> IF stored[e] = 0 /\ copies(e) # {} THEN Min(copies(e)) ELSE stored[e]]
  BY DEF Ingest
<1>4. ASSUME NEW e \in Event, copies(e) # {}
      PROVE  /\ Min(copies(e)) \in 1..MaxRuns
             /\ \E i \in 1..Len(lines) : lines[i].event = e /\ lines[i].run = Min(copies(e))
  <2>. DEFINE c == copies(e)
  <2>1. c \in SUBSET Nat /\ c # {}
    <3>1. \A x \in c : x \in 1..MaxRuns
      BY <1>1
    <3>. HIDE DEF c
    <3>2. c \in SUBSET Nat
      BY <1>2, <3>1
    <3>. QED
      BY <1>4, <3>2 DEF c
  <2>2. \A x \in c : x \in 1..MaxRuns /\ \E i \in 1..Len(lines) : lines[i].event = e /\ lines[i].run = x
    BY <1>1
  <2>3. Min(c) \in c
    <3>. HIDE DEF c
    <3>. QED
      BY <2>1, LeastMember
  <2>. QED
    BY <2>2, <2>3
<1>5. \A i \in 1..Len(lines) : copies(lines[i].event) # {}
  BY <1>1
<1>. HIDE DEF copies
<1>6. \A e \in Event : stored[e] \in 0..MaxRuns
  BY DEF TypeOK
<1>7. ASSUME NEW e \in Event
      PROVE  /\ stored'[e] \in 0..MaxRuns
             /\ stored[e] # 0 => stored'[e] = stored[e]
             /\ stored'[e] # stored[e] =>
                  \E i \in 1..Len(lines) : lines[i].event = e /\ lines[i].run = stored'[e]
             /\ copies(e) # {} => stored'[e] # 0
  <2>1. stored'[e] = IF stored[e] = 0 /\ copies(e) # {} THEN Min(copies(e)) ELSE stored[e]
    BY <1>3
  <2>2. CASE stored[e] = 0 /\ copies(e) # {}
    BY <1>2, <1>4, <2>1, <2>2
  <2>3. CASE ~(stored[e] = 0 /\ copies(e) # {})
    BY <1>6, <2>1, <2>3
  <2>. QED
    BY <2>2, <2>3
<1>8. stored' \in [Event -> 0..MaxRuns]
  BY <1>3, <1>7
<1>9. \A i \in 1..Len(lines) : stored'[lines[i].event] # 0
  BY <1>1, <1>5, <1>7
<1>. QED
  BY <1>7, <1>8, <1>9
LEMMA TakenType ==
  ASSUME TypeOK, NEW e \in Event, Taken(e)
  PROVE  /\ seen' \in Seq(Event)
         /\ accepted' \in [1..MaxRuns -> Seq(Event)]
         /\ accepted'[run] = Append(accepted[run], e)
         /\ \A r \in (1..MaxRuns) \ {run} : accepted'[r] = accepted[r]
<1>1. Append(seen, e) \in Seq(Event) /\ Append(accepted[run], e) \in Seq(Event)
  BY DEF TypeOK
<1>2. seen' \in Seq(Event)
  BY <1>1, LastOfType, LogAssumption DEF Taken, Remember
<1>. QED
  BY <1>1, <1>2 DEF Taken, TypeOK

LEMMA EmissionType ==
  ASSUME TypeOK, NEW e, Emission(e)
  PROVE  TypeOK'
<1>1. /\ UNCHANGED <<run, reader, stored>>
      /\ e \in Event /\ next' \in 1..(N + 1) /\ repeats' \in Nat
  <2>1. UNCHANGED <<run, reader, stored>>
    BY EmissionCases
  <2>2. e \in Event /\ next' \in 2..(N + 1) /\ repeats' \in Nat
    BY DEF Emission
  <2>. QED
    BY <2>1, <2>2, LogAssumption
<1>2. CASE Refused(e)
  BY <1>1, <1>2 DEF Refused, TypeOK
<1>3. CASE Kept(e)
  <2>1. seen' \in Seq(Event) /\ accepted' \in [1..MaxRuns -> Seq(Event)]
    BY <1>1, <1>3, TakenType DEF Kept
  <2>2. buffer' \in Seq(Event)
    BY <1>1, <1>3 DEF Kept, TypeOK
  <2>. QED
    BY <1>1, <1>3, <2>1, <2>2 DEF Kept, TypeOK
<1>4. CASE \E ls : Written(e, ls)
  <2>1. PICK ls : Written(e, ls)
    BY <1>4
  <2>2. seen' \in Seq(Event) /\ accepted' \in [1..MaxRuns -> Seq(Event)]
    BY <1>1, <2>1, TakenType DEF Written
  <2>3. file' \in [Days -> Seq(Line)]
    BY <2>1, PutsFacts DEF Written
  <2>4. buffer' = <<>> /\ fresh' \subseteq fresh /\ pc' \in {pc, "dead"}
    BY <2>1 DEF Written, Puts
  <2>. QED
    BY <1>1, <2>2, <2>3, <2>4 DEF TypeOK
<1>. QED
  BY <1>2, <1>3, <1>4, EmissionCases

LEMMA FinishType ==
  ASSUME TypeOK, Finish
  PROVE  TypeOK'
<1>1. UNCHANGED <<run, next, seen, repeats, reader, stored, accepted>>
  BY DEF Finish
<1>2. CASE buffer = <<>> /\ pc' = "finished" /\ UNCHANGED <<buffer, file, fresh>>
  BY <1>1, <1>2 DEF TypeOK
<1>3. ASSUME NEW ls, Puts(ls, buffer), pc' \in {"finished", "dead"}
      PROVE  TypeOK'
  <2>1. file' \in [Days -> Seq(Line)]
    BY <1>3, PutsFacts
  <2>2. buffer' = <<>> /\ fresh' \subseteq fresh
    BY <1>3 DEF Puts
  <2>. QED
    BY <1>1, <1>3, <2>1, <2>2 DEF TypeOK
<1>. QED
  BY <1>2, <1>3, FinishCases

LEMMA ReplayType ==
  ASSUME TypeOK, ReaderOK, Replay
  PROVE  TypeOK'
<1>1. UNCHANGED <<run, pc, next, buffer, seen, repeats, file, accepted, fresh>>
  BY DEF Replay, emitter
<1>2. reader.mode \in {"loaded", "streaming"} /\ ~Exhausted
  BY DEF Replay
<1>3. Chunk \in Seq(Line) /\ Len(Chunk) \in Nat /\ End \in Nat
  BY <1>2, ChunkFacts
<1>4. CASE Ingest(Chunk) /\ reader' = [reader EXCEPT !.pos = @ + Len(Chunk), !.last = End,
                                     !.mode = IF Len(Chunk) < ReplayBatch THEN "loaded" ELSE @]
  <2>1. stored' \in [Event -> 0..MaxRuns]
    BY <1>3, <1>4, IngestType
  <2>. DEFINE pos == reader.pos + Len(Chunk)
              mode == IF Len(Chunk) < ReplayBatch THEN "loaded" ELSE reader.mode
  <2>2. reader \in ReaderRecord /\ pos \in Nat /\ mode \in {"loaded", "streaming"}
    BY <1>2, <1>3 DEF TypeOK, ReaderRecord
  <2>3. reader' = [reader EXCEPT !.pos = pos, !.last = End, !.mode = mode]
    BY <1>4
  <2>. HIDE DEF pos, mode
  <2>4. reader' \in ReaderRecord
    BY <1>3, <2>2, <2>3 DEF ReaderRecord
  <2>. QED
    BY <1>1, <2>1, <2>4 DEF TypeOK
<1>5. CASE reader' = [reader EXCEPT !.mode = "failed"] /\ UNCHANGED stored
  <2>1. reader' \in ReaderRecord
    BY <1>5 DEF TypeOK, ReaderRecord
  <2>. QED
    BY <1>1, <1>5, <2>1 DEF TypeOK
<1>. QED
  BY <1>4, <1>5 DEF Replay

LEMMA ReplayEndsType ==
  ASSUME TypeOK, ReaderOK, ReplayEnds
  PROVE  TypeOK'
<1>1. UNCHANGED <<run, pc, next, buffer, seen, repeats, file, accepted, stored>>
  BY DEF ReplayEnds, emitter
<1>2. reader' \in ReaderRecord
  BY DEF ReplayEnds, NoReader, ReaderRecord
<1>3. fresh' \subseteq Days
  BY DEF ReplayEnds, ReaderOK, TypeOK
<1>. QED
  BY <1>1, <1>2, <1>3 DEF TypeOK

LEMMA TypeStep ==
  ASSUME TypeOK, ReaderOK, [Next]_vars
  PROVE  TypeOK'
<1>1. CASE EmitNext \/ EmitAgain
  BY <1>1, Emissions, EmissionType
<1>2. CASE Finish
  BY <1>2, FinishType
<1>3. CASE Die
  BY <1>3 DEF Die, TypeOK
<1>4. CASE RunAgain
  BY <1>4, LogAssumption DEF RunAgain, TypeOK
<1>5. ASSUME NEW d \in Days, LoadFile(d) \/ OpenFile(d)
      PROVE  TypeOK'
  <2>1. UNCHANGED <<run, pc, next, buffer, seen, repeats, file, accepted, stored, fresh>>
    BY <1>5 DEF LoadFile, OpenFile, emitter
  <2>2. d \in Nat
    BY DaysInOrder
  <2>3. Len(file[d]) \in Nat
    BY DEF TypeOK
  <2>4. CASE LoadFile(d)
    <3>1. PICK m \in {"loaded", "failed"} :
            reader' = [mode |-> m, day |-> d, pos |-> 1, last |-> Len(file[d])]
      BY <2>4 DEF LoadFile
    <3>. QED
      BY <2>1, <2>2, <2>3, <3>1 DEF TypeOK, ReaderRecord
  <2>5. CASE OpenFile(d)
    BY <2>1, <2>2, <2>5 DEF OpenFile, TypeOK, ReaderRecord
  <2>. QED
    BY <1>5, <2>4, <2>5
<1>6. CASE Replay
  BY <1>6, ReplayType
<1>7. CASE ReplayEnds
  BY <1>7, ReplayEndsType
<1>8. CASE UNCHANGED vars
  BY <1>8 DEF vars, emitter, TypeOK
<1>. QED
  BY <1>1, <1>2, <1>3, <1>4, <1>5, <1>6, <1>7, <1>8 DEF Next

\* Reading and dying change nothing of what is emitted.
Quiet == UNCHANGED <<run, next, seen, accepted, file>> /\ buffer' \in {buffer, <<>>}

LEMMA OtherSteps ==
  ASSUME [Next]_vars, ~EmitNext, ~EmitAgain, ~Finish, ~RunAgain
  PROVE  Quiet /\ (UNCHANGED <<pc, buffer>> \/ Die)
<1>1. CASE Die
  BY <1>1 DEF Die, Quiet
<1>2. ASSUME NEW d \in Days, LoadFile(d) \/ OpenFile(d)
      PROVE  Quiet /\ UNCHANGED <<pc, buffer>>
  BY <1>2 DEF LoadFile, OpenFile, emitter, Quiet
<1>3. CASE Replay \/ ReplayEnds
  BY <1>3 DEF Replay, ReplayEnds, emitter, Quiet
<1>4. CASE UNCHANGED vars
  BY <1>4 DEF vars, emitter, Quiet
<1>. QED
  BY <1>1, <1>2, <1>3, <1>4 DEF Next

-----------------------------------------------------------------------------
(* The dedup window *)

\* The window after an event is that of the list with the event.
LEMMA WindowMoves ==
  ASSUME NEW s \in Seq(Event), NEW e \in Event
  PROVE  LastOf(Append(LastOf(s, MaxKeys), e), MaxKeys) = LastOf(Append(s, e), MaxKeys)
<1>. DEFINE w == LastOf(s, MaxKeys)
            a == LastOf(Append(w, e), MaxKeys)
            b == LastOf(Append(s, e), MaxKeys)
<1>1. MaxKeys \in Nat \ {0}
  BY LogAssumption
<1>2. /\ w \in Seq(Event)
      /\ Len(w) = IF Len(s) > MaxKeys THEN MaxKeys ELSE Len(s)
      /\ \A i \in 1..Len(w) : w[i] = s[i + (Len(s) - Len(w))]
  BY <1>1, LastOfType
<1>3. Append(w, e) \in Seq(Event) /\ Append(s, e) \in Seq(Event)
  BY <1>2
<1>4. /\ a \in Seq(Event)
      /\ Len(a) = IF Len(w) + 1 > MaxKeys THEN MaxKeys ELSE Len(w) + 1
      /\ \A i \in 1..Len(a) : a[i] = Append(w, e)[i + ((Len(w) + 1) - Len(a))]
  <2>1. Len(Append(w, e)) = Len(w) + 1
    BY <1>2
  <2>. DEFINE v == Append(w, e)
  <2>. HIDE DEF w, v
  <2>2. v \in Seq(Event) /\ Len(v) = Len(w) + 1
    BY <1>3, <2>1 DEF v
  <2>3. /\ LastOf(v, MaxKeys) \in Seq(Event)
        /\ Len(LastOf(v, MaxKeys)) = IF Len(v) > MaxKeys THEN MaxKeys ELSE Len(v)
        /\ \A i \in 1..Len(LastOf(v, MaxKeys)) :
             LastOf(v, MaxKeys)[i] = v[i + (Len(v) - Len(LastOf(v, MaxKeys)))]
    BY <1>1, <2>2, LastOfType
  <2>. QED
    BY <2>2, <2>3 DEF v
<1>5. /\ b \in Seq(Event)
      /\ Len(b) = IF Len(s) + 1 > MaxKeys THEN MaxKeys ELSE Len(s) + 1
      /\ \A i \in 1..Len(b) : b[i] = Append(s, e)[i + ((Len(s) + 1) - Len(b))]
  <2>1. Len(Append(s, e)) = Len(s) + 1
    OBVIOUS
  <2>. DEFINE v == Append(s, e)
  <2>. HIDE DEF w, v
  <2>2. v \in Seq(Event) /\ Len(v) = Len(s) + 1
    BY <1>3, <2>1 DEF v
  <2>3. /\ LastOf(v, MaxKeys) \in Seq(Event)
        /\ Len(LastOf(v, MaxKeys)) = IF Len(v) > MaxKeys THEN MaxKeys ELSE Len(v)
        /\ \A i \in 1..Len(LastOf(v, MaxKeys)) :
             LastOf(v, MaxKeys)[i] = v[i + (Len(v) - Len(LastOf(v, MaxKeys)))]
    BY <1>1, <2>2, LastOfType
  <2>. QED
    BY <2>2, <2>3 DEF v
<1>. HIDE DEF w, a, b
<1>6. Len(a) = Len(b) /\ Len(s) \in Nat /\ Len(w) \in Nat /\ Len(a) \in Nat
  BY <1>1, <1>2, <1>4, <1>5
<1>7. ASSUME NEW i \in 1..Len(a) PROVE a[i] = b[i]
  <2>. DEFINE j == i + ((Len(w) + 1) - Len(a))
              k == i + ((Len(s) + 1) - Len(b))
  <2>1. a[i] = Append(w, e)[j] /\ b[i] = Append(s, e)[k]
    BY <1>4, <1>5, <1>6
  <2>2. j \in 1..(Len(w) + 1) /\ k \in 1..(Len(s) + 1)
    <3>1. i \in Nat /\ 1 <= i /\ i <= Len(a)
      BY <1>6
    <3>2. Len(a) <= Len(w) + 1 /\ Len(b) <= Len(s) + 1
      BY <1>1, <1>4, <1>5, <1>6
    <3>. QED
      BY <1>6, <3>1, <3>2
  <2>3. k = j + (Len(s) - Len(w))
    BY <1>6, <2>2
  <2>4. CASE j = Len(w) + 1
    <3>1. k = Len(s) + 1
      BY <1>6, <2>3, <2>4
    <3>2. Append(w, e)[Len(w) + 1] = e /\ Append(s, e)[Len(s) + 1] = e
      BY <1>2
    <3>. HIDE DEF j, k
    <3>. QED
      BY <2>1, <2>4, <3>1, <3>2
  <2>5. CASE j # Len(w) + 1
    <3>1. j \in 1..Len(w) /\ k \in 1..Len(s)
      BY <1>6, <2>2, <2>3, <2>5
    <3>. HIDE DEF j, k
    <3>2. Append(w, e)[j] = w[j] /\ Append(s, e)[k] = s[k]
      BY <1>2, <3>1
    <3>. QED
      BY <1>2, <2>1, <2>3, <3>1, <3>2
  <2>. QED
    BY <2>4, <2>5
<1>8. a = b
  <2>1. a \in Seq(Event) /\ b \in Seq(Event)
    BY <1>4, <1>5
  <2>. QED
    BY <1>6, <1>7, <2>1
<1>. QED
  BY <1>8 DEF a, b, w

\* An event that is not in the window keeps its distance.
LEMMA ApartAppend ==
  ASSUME NEW s \in Seq(Event), NEW e \in Event, Apart(s),
         \A i \in DOMAIN LastOf(s, MaxKeys) : LastOf(s, MaxKeys)[i] # e
  PROVE  Apart(Append(s, e))
<1>. DEFINE w == LastOf(s, MaxKeys)
            t == Append(s, e)
<1>1. MaxKeys \in Nat \ {0} /\ Len(s) \in Nat
  BY LogAssumption
<1>2. /\ w \in Seq(Event)
      /\ Len(w) = IF Len(s) > MaxKeys THEN MaxKeys ELSE Len(s)
      /\ \A i \in 1..Len(w) : w[i] = s[i + (Len(s) - Len(w))]
  BY <1>1, LastOfType
<1>3. \A i \in 1..Len(w) : w[i] # e
  <2>1. DOMAIN w = 1..Len(w)
    BY <1>2
  <2>. QED
    BY <2>1
<1>. HIDE DEF w
<1>4. ASSUME NEW i \in DOMAIN t, NEW j \in DOMAIN t, i < j, t[i] = t[j]
      PROVE  j - i > MaxKeys
  <2>1. i \in 1..(Len(s) + 1) /\ j \in 1..(Len(s) + 1)
    BY <1>4
  <2>2. i \in 1..Len(s) /\ t[i] = s[i]
    BY <1>1, <1>4, <2>1
  <2>3. CASE j = Len(s) + 1
    <3>1. s[i] = e
      <4>1. t[Len(s) + 1] = e
        BY <1>1
      <4>. QED
        BY <1>4, <2>2, <2>3, <4>1
    <3>. DEFINE k == i - (Len(s) - Len(w))
    <3>2. k \notin 1..Len(w)
      <4> SUFFICES ASSUME k \in 1..Len(w) PROVE FALSE
        OBVIOUS
      <4>1. k + (Len(s) - Len(w)) = i
        BY <1>1, <1>2, <2>2
      <4>2. w[k] = s[i]
        BY <1>2, <4>1
      <4>. QED
        BY <1>3, <3>1, <4>2
    <3>. QED
      BY <1>1, <1>2, <2>2, <2>3, <3>2
  <2>4. CASE j # Len(s) + 1
    <3>1. j \in 1..Len(s) /\ t[j] = s[j] /\ i \in DOMAIN s /\ j \in DOMAIN s
      BY <1>1, <2>1, <2>2, <2>4
    <3>. QED
      BY <1>4, <2>2, <3>1 DEF Apart
  <2>. QED
    BY <2>3, <2>4
<1>. QED
  BY <1>4 DEF Apart

LEMMA WindowStep ==
  ASSUME TypeOK, WindowInv, LogInv, [Next]_vars
  PROVE  WindowInv'
<1>1. ASSUME NEW e, Emission(e) PROVE WindowInv'
  <2>1. e \in Event /\ run' = run
    BY <1>1, EmissionCases DEF Emission
  <2>2. CASE Refused(e)
    BY <2>1, <2>2 DEF Refused, WindowInv
  <2>3. CASE Taken(e)
    <3>1. /\ accepted'[run] = Append(accepted[run], e)
          /\ \A r \in (1..MaxRuns) \ {run} : accepted'[r] = accepted[r]
      BY <2>1, <2>3, TakenType
    <3>2. accepted[run] \in Seq(Event) /\ run \in 1..MaxRuns
      BY DEF TypeOK
    <3>3. seen = LastOf(accepted[run], MaxKeys) /\ \A r \in 1..MaxRuns : Apart(accepted[r])
      BY DEF WindowInv
    <3>4. seen' = LastOf(accepted'[run], MaxKeys)
      BY <2>1, <2>3, <3>1, <3>2, <3>3, WindowMoves DEF Taken, Remember
    <3>5. Apart(accepted'[run])
      <4>1. \A i \in DOMAIN LastOf(accepted[run], MaxKeys) : LastOf(accepted[run], MaxKeys)[i] # e
        BY <2>3, <3>3 DEF Taken
      <4>. QED
        BY <2>1, <3>1, <3>2, <3>3, <4>1, ApartAppend
    <3>6. \A r \in 1..MaxRuns : Apart(accepted'[r])
      BY <3>1, <3>3, <3>5
    <3>. QED
      BY <2>1, <3>4, <3>6 DEF WindowInv, Apart
  <2>. QED
    BY <1>1, <2>2, <2>3, EmissionCases DEF Kept, Written
<1>2. CASE Finish
  BY <1>2 DEF Finish, WindowInv
<1>3. CASE RunAgain
  <2>1. run' = run + 1 /\ run' \in 1..MaxRuns /\ seen' = <<>> /\ accepted' = accepted
    BY <1>3, LogAssumption DEF RunAgain, TypeOK
  <2>2. accepted[run + 1] = <<>>
    BY <2>1, LogAssumption DEF LogInv, TypeOK
  <2>3. LastOf(<<>>, MaxKeys) = <<>>
    <3>1. LastOf(<<>>, MaxKeys) = SubSeq(<<>>, 1, 0)
      BY LogAssumption DEF LastOf
    <3>. QED
      BY <3>1
  <2>. QED
    BY <2>1, <2>2, <2>3 DEF WindowInv, Apart
<1>4. CASE Quiet
  BY <1>4 DEF Quiet, WindowInv, Apart
<1>. QED
  BY <1>1, <1>2, <1>3, <1>4, Emissions, OtherSteps
-----------------------------------------------------------------------------
(* The log and the emission *)

\* Whatever is cut off a batch, the rest of it is lacking at the end.
LEMMA LackingAfter ==
  ASSUME NEW s \in Seq(Event), NEW t \in Seq(Event), NEW k \in 0..Len(t), Len(t) <= BatchSize
  PROVE  Lacking(s \o SubSeq(t, 1, k), s \o t)
<1>. DEFINE u == SubSeq(t, 1, k)
            a == s \o u
            b == s \o t
<1>1. Len(s) \in Nat /\ Len(t) \in Nat /\ k \in Nat /\ BatchSize \in Nat
  BY LogAssumption
<1>2. u \in Seq(Event) /\ Len(u) = k /\ \A i \in 1..k : u[i] = t[i]
  BY <1>1
<1>3. /\ a \in Seq(Event) /\ Len(a) = Len(s) + k
      /\ b \in Seq(Event) /\ Len(b) = Len(s) + Len(t)
  BY <1>1, <1>2
<1>4. \A i \in 1..Len(a) : a[i] = b[i]
  <2> SUFFICES ASSUME NEW i \in 1..Len(a) PROVE a[i] = b[i]
    OBVIOUS
  <2>1. CASE i <= Len(s)
    BY <1>1, <1>2, <1>3, <2>1
  <2>2. CASE i > Len(s)
    <3>1. i - Len(s) \in 1..k
      BY <1>1, <1>3, <2>2
    <3>2. a[i] = u[i - Len(s)] /\ b[i] = t[i - Len(s)]
      BY <1>1, <1>2, <1>3, <2>2
    <3>. QED
      BY <1>2, <3>1, <3>2
  <2>3. i <= Len(s) \/ i > Len(s)
    BY <1>1, <1>3
  <2>. QED
    BY <2>1, <2>2, <2>3
<1>5. Len(a) <= Len(b) /\ Len(b) - Len(a) <= BatchSize
  BY <1>1, <1>3
<1>. HIDE DEF a, b, u
<1>6. SubSeq(a, 1, Len(a)) = SubSeq(b, 1, Len(a))
  <2>1. SubSeq(a, 1, Len(a)) \in Seq(Event) /\ Len(SubSeq(a, 1, Len(a))) = Len(a)
    BY <1>3
  <2>2. SubSeq(b, 1, Len(a)) \in Seq(Event) /\ Len(SubSeq(b, 1, Len(a))) = Len(a)
    BY <1>1, <1>3, <1>5
  <2>3. \A i \in 1..Len(a) : SubSeq(a, 1, Len(a))[i] = a[i] /\ SubSeq(b, 1, Len(a))[i] = b[i]
    BY <1>1, <1>3, <1>5
  <2>. QED
    BY <1>4, <2>1, <2>2, <2>3
<1>. QED
  BY <1>5, <1>6 DEF Lacking, IsPrefix, a, b, u

LEMMA NothingRead ==
  ASSUME NEW fl \in [Days -> Seq(Line)], NEW r,
         \A d \in Days : \A i \in DOMAIN fl[d] : fl[d][i].run # r
  PROVE  Read(fl, r) = <<>>
<1>1. \A d \in Days : Own(fl[d], r) = <<>>
  BY NothingOwn
<1>. DEFINE ss == Reading(fl, r)
            h == [i \in 0..Len(ss) |-> <<>>]
<1>2. ss \in Seq(Seq(Event)) /\ Len(ss) \in Nat /\ \A i \in 1..Len(ss) : ss[i] = <<>>
  <2>1. ss \in Seq(Seq(Event)) /\ Len(ss) = Day[N] /\ Day[N] \in Nat
    BY ReadingType, DaysInOrder
  <2>2. \A i \in 1..Day[N] : ss[i] = <<>>
    BY <1>1 DEF Reading
  <2>. QED
    BY <2>1, <2>2
<1>. HIDE DEF ss
<1>3. Cuts(h, ss)
  <2>1. h[0] = <<>> /\ \A i \in 1..Len(ss) : h[i] = <<>> /\ h[i - 1] = <<>> /\ ss[i] = <<>>
    BY <1>2
  <2>2. <<>> \o <<>> = <<>>
    BY NothingAppended
  <2>. HIDE DEF h
  <2>. QED
    BY <2>1, <2>2 DEF Cuts
<1>4. FlattenSeq(ss) = h[Len(ss)]
  <2>. HIDE DEF h
  <2>. QED
    BY <1>2, <1>3, FlattenIs
<1>5. h[Len(ss)] = <<>>
  BY <1>2
<1>. QED
  BY <1>4, <1>5 DEF Read, ss

LEMMA LackingNothing ==
  ASSUME NEW s \in Seq(Event)
  PROVE  Lacking(s, s)
BY LogAssumption DEF Lacking, IsPrefix

LEMMA ReadType == TypeOK => \A r : Read(file, r) \in Seq(Event)
BY ReadingType DEF TypeOK, Read

LEMMA PutsOwn ==
  ASSUME TypeOK, NEW es, NEW ls, Puts(ls, es)
  PROVE  /\ Own(file'[Path(es)], run) = Own(file[Path(es)], run) \o SubSeq(es, 1, Len(ls))
         /\ \A r : r # run => Own(file'[Path(es)], r) = Own(file[Path(es)], r)
<1>. DEFINE f == file[Path(es)]
            part == SubSeq(es, 1, Len(ls))
<1>1. file'[Path(es)] = f \o ls /\ f \in Seq(Line) /\ ls \in Seq(Line)
  BY PutsFacts DEF TypeOK, Puts
<1>2. Holds(ls, part) /\ \A i \in 1..Len(ls) : ls[i].run = run
  <2>1. es \in Seq(Event) /\ Len(ls) \in 1..Len(es)
    BY DEF Puts
  <2>2. part \in Seq(Event) /\ Len(part) = Len(ls) /\ \A i \in 1..Len(ls) : part[i] = es[i]
    BY <2>1
  <2>. HIDE DEF part
  <2>. QED
    BY <1>1, <2>2 DEF Holds, Puts
<1>. HIDE DEF f, part
<1>3. Own(f \o ls, run) = Own(f, run) \o part
  BY <1>1, <1>2, OwnAppended
<1>4. ASSUME NEW r, r # run PROVE Own(f \o ls, r) = Own(f, r)
  <2>1. \A i \in 1..Len(ls) : ls[i].run # r
    BY <1>2, <1>4
  <2>. QED
    BY <1>1, <2>1, OthersAppended
<1>. QED
  BY <1>1, <1>3, <1>4 DEF f, part

\* What is written last is read last.
LEMMA PutsRead ==
  ASSUME TypeOK, NEW es, NEW ls, Puts(ls, es),
         \A d \in Days : \A i \in DOMAIN file[d] : file[d][i].run = run => d <= Day[es[1]]
  PROVE  /\ Read(file', run) = Read(file, run) \o SubSeq(es, 1, Len(ls))
         /\ \A r : r # run => Read(file', r) = Read(file, r)
<1>. DEFINE p == Path(es)
            part == SubSeq(es, 1, Len(ls))
<1>1. /\ p \in Days /\ p = Day[es[1]]
      /\ file' \in [Days -> Seq(Line)] /\ file \in [Days -> Seq(Line)]
      /\ \A d \in Days \ {p} : file'[d] = file[d]
  BY PutsFacts DEF TypeOK
<1>2. part \in Seq(Event)
  <2>1. es \in Seq(Event) /\ Len(ls) \in 1..Len(es)
    BY DEF Puts
  <2>. QED
    BY <2>1
<1>3. /\ Own(file'[p], run) = Own(file[p], run) \o part
      /\ \A r : r # run => Own(file'[p], r) = Own(file[p], r)
  BY PutsOwn
<1>4. ASSUME NEW d \in Days, d > p PROVE Own(file[d], run) = <<>>
  <2>1. file[d] \in Seq(Line)
    BY <1>1
  <2>2. \A i \in DOMAIN file[d] : file[d][i].run # run
    <3>1. ~(d <= Day[es[1]])
      <4>1. d \in Nat /\ p \in Nat
        BY <1>1, DaysInOrder
      <4>. HIDE DEF p
      <4>. QED
        BY <1>1, <1>4, <4>1
    <3>. QED
      BY <3>1
  <2>. QED
    BY <2>1, <2>2, NothingOwn
<1>. HIDE DEF p, part
<1>5. FlattenSeq(Reading(file', run)) = FlattenSeq(Reading(file, run)) \o part
  <2>1. \A d \in Days \ {p} : Own(file'[d], run) = Own(file[d], run)
    BY <1>1
  <2>. QED
    BY <1>1, <1>2, <1>3, <1>4, <2>1, ReadingAppended
<1>6. ASSUME NEW r, r # run PROVE Read(file', r) = Read(file, r)
  <2>1. \A d \in Days : Own(file'[d], r) = Own(file[d], r)
    BY <1>1, <1>3, <1>6
  <2>. QED
    BY <2>1, ReadingSame DEF Read
<1>. QED
  BY <1>5, <1>6 DEF Read, p, part

LEMMA PutsOrder ==
  ASSUME TypeOK, NEW es, NEW ls, Puts(ls, es),
         \A d \in Days : \A i \in DOMAIN file[d] :
           file[d][i].run <= run /\ (file[d][i].run = run => d <= Day[es[1]])
  PROVE  \A d \in Days : \A i \in DOMAIN file'[d] :
           file'[d][i].run <= run /\ (file'[d][i].run = run => d <= Day[es[1]])
<1>. SUFFICES ASSUME NEW d \in Days, NEW i \in DOMAIN file'[d]
              PROVE  file'[d][i].run <= run /\ (file'[d][i].run = run => d <= Day[es[1]])
  OBVIOUS
<1>1. CASE d # Path(es)
  BY <1>1, PutsFacts
<1>2. CASE d = Path(es)
  <2>1. /\ file'[d] = file[d] \o ls /\ file[d] \in Seq(Line) /\ ls \in Seq(Line)
        /\ d = Day[es[1]]
    BY <1>2, PutsFacts DEF TypeOK, Puts
  <2>2. i \in 1..(Len(file[d]) + Len(ls)) /\ Len(file[d]) \in Nat /\ Len(ls) \in Nat
    BY <2>1
  <2>3. CASE i <= Len(file[d])
    <3>1. i \in DOMAIN file[d] /\ file'[d][i] = file[d][i]
      BY <2>1, <2>2, <2>3
    <3>. QED
      BY <3>1
  <2>4. CASE ~(i <= Len(file[d]))
    <3>. DEFINE f == file[d]
    <3>1. i - Len(f) \in 1..Len(ls) /\ file'[d][i] = ls[i - Len(f)]
      <4>1. i - Len(f) \in 1..Len(ls)
        BY <2>2, <2>4
      <4>. HIDE DEF f
      <4>2. (f \o ls)[i] = ls[i - Len(f)]
        BY <2>1, <2>2, <2>4, <4>1 DEF f
      <4>. QED
        BY <2>1, <4>1, <4>2 DEF f
    <3>2. file'[d][i].run = run
      BY <3>1 DEF Puts
    <3>3. run <= run /\ d <= Day[es[1]]
      BY <2>1, DaysInOrder DEF TypeOK
    <3>. QED
      BY <3>2, <3>3
  <2>. QED
    BY <2>3, <2>4
<1>. QED
  BY <1>1, <1>2

\* In the files fl, with what each run accepted in acc: the runs before rn lack at most a
\* batch, those after it accepted nothing and wrote no line, and the lines of rn are of
\* days up to the one of the event before nx.
Filed(fl, acc, rn, nx) ==
  /\ \A r \in 1..(rn - 1) : Lacking(Read(fl, r), acc[r])
  /\ \A r \in (rn + 1)..MaxRuns : acc[r] = <<>>
  /\ \A d \in Days : \A i \in DOMAIN fl[d] : fl[d][i].run <= rn
  /\ \A d \in Days : \A i \in DOMAIN fl[d] : fl[d][i].run = rn => nx > 1 /\ d <= Day[nx - 1]

\* A step that empties the buffer keeps the invariant when the files hold what the new
\* state of the run says they do.
LEMMA FlushLog ==
  ASSUME buffer' = <<>>, Len(buffer') < BatchSize,
         pc' = "running" => Read(file', run') \o buffer' = accepted'[run'],
         pc' = "finished" => Read(file', run') = accepted'[run'] /\ next' = N + 1,
         pc' = "dead" => Lacking(Read(file', run'), accepted'[run']),
         Filed(file', accepted', run', next')
  PROVE  LogInv'
<1>1. \A i \in DOMAIN buffer' : next' > 1 /\ Day[buffer'[i]] <= Day[next' - 1]
  OBVIOUS
<1>2. \A d \in Days : \A i \in DOMAIN file'[d] : file'[d][i].run = run' =>
        /\ next' > 1
        /\ d <= Day[next' - 1]
        /\ buffer' # <<>> => d <= Day[buffer'[1]]
  BY DEF Filed
<1>. QED
  BY <1>1, <1>2, Zenon DEF LogInv, Filed

\* The buffer with one more event, before anything is written.
LEMMA Waiting ==
  ASSUME TypeOK, LogInv, NEW e, Emission(e)
  PROVE  LET es == Append(buffer, e)
         IN  /\ es \in Seq(Event) /\ Len(es) = Len(buffer) + 1 /\ Len(es) <= BatchSize
             /\ \A i \in 1..Len(es) : Day[es[i]] <= Day[next' - 1]
             /\ \A d \in Days : \A i \in DOMAIN file[d] : file[d][i].run = run => d <= Day[es[1]]
             /\ Read(file, run) \o es = Append(accepted[run], e)
             /\ Day[next' - 1] \in Nat
             /\ next > 1 => Day[next - 1] \in Nat /\ Day[next - 1] <= Day[next' - 1]
<1>. DEFINE es == Append(buffer, e)
<1>1. /\ e \in Event /\ Day[e] \in Nat /\ Day[e] <= Day[next' - 1]
      /\ next > 1 => Day[next - 1] <= Day[e]
  BY DaysInOrder DEF Emission
<1>2. Day[next' - 1] \in Nat /\ (next > 1 => Day[next - 1] \in Nat)
  <2>1. \A n \in 2..(N + 1) : n - 1 \in Event
    BY LogAssumption DEF Event
  <2>2. next' \in 2..(N + 1) /\ (next > 1 => next \in 2..(N + 1))
    BY LogAssumption DEF Emission, TypeOK
  <2>. QED
    BY <2>1, <2>2, DaysInOrder
<1>3. buffer \in Seq(Event) /\ Len(buffer) \in Nat /\ Len(buffer) < BatchSize /\ BatchSize \in Nat
  BY LogAssumption DEF TypeOK, LogInv
<1>4. es \in Seq(Event) /\ Len(es) = Len(buffer) + 1 /\ Len(es) <= BatchSize
  BY <1>1, <1>3
<1>5. ASSUME NEW i \in 1..Len(es) PROVE Day[es[i]] <= Day[next' - 1]
  <2>1. CASE i \in 1..Len(buffer)
    <3>1. es[i] = buffer[i] /\ i \in DOMAIN buffer /\ buffer[i] \in Event
      BY <1>3, <2>1
    <3>2. next > 1 /\ Day[buffer[i]] <= Day[next - 1]
      BY <3>1 DEF LogInv
    <3>3. Day[buffer[i]] \in Nat
      BY <3>1, DaysInOrder
    <3>. QED
      BY <1>1, <1>2, <3>1, <3>2, <3>3
  <2>2. CASE i \notin 1..Len(buffer)
    <3>1. i = Len(buffer) + 1
      BY <1>3, <1>4, <2>2
    <3>2. es[Len(buffer) + 1] = e
      BY <1>3
    <3>. HIDE DEF es
    <3>. QED
      BY <1>1, <3>1, <3>2
  <2>. QED
    BY <2>1, <2>2
<1>6. ASSUME NEW d \in Days, NEW i \in DOMAIN file[d], file[d][i].run = run
      PROVE  d <= Day[es[1]]
  <2>1. next > 1 /\ d <= Day[next - 1] /\ (buffer # <<>> => d <= Day[buffer[1]])
    BY <1>6 DEF LogInv
  <2>2. CASE buffer = <<>>
    <3>1. es[1] = e
      BY <2>2
    <3>2. d \in Nat
      BY DaysInOrder
    <3>. HIDE DEF es
    <3>. QED
      BY <1>1, <1>2, <2>1, <3>1, <3>2
  <2>3. CASE buffer # <<>>
    <3>1. es[1] = buffer[1]
      BY <1>3, <2>3
    <3>. QED
      BY <2>1, <2>3, <3>1
  <2>. QED
    BY <2>2, <2>3
<1>7. Read(file, run) \o es = Append(accepted[run], e)
  <2>1. Read(file, run) \in Seq(Event) /\ Read(file, run) \o buffer = accepted[run]
    BY ReadType, EmissionCases DEF LogInv
  <2>2. <<e>> \in Seq(Event) /\ es = buffer \o <<e>>
    BY <1>1, <1>3
  <2>3. (Read(file, run) \o buffer) \o <<e>> = Read(file, run) \o (buffer \o <<e>>)
    BY <1>3, <2>1, <2>2, Associative
  <2>4. accepted[run] \in Seq(Event)
    BY DEF TypeOK
  <2>5. Append(accepted[run], e) = accepted[run] \o <<e>>
    BY <1>1, <2>4
  <2>. HIDE DEF es
  <2>. QED
    BY <2>1, <2>2, <2>3, <2>5
<1>8. next > 1 => Day[next - 1] <= Day[next' - 1]
  BY <1>1, <1>2
<1>. QED
  BY <1>2, <1>4, <1>5, <1>6, <1>7, <1>8
LEMMA EmissionLog ==
  ASSUME TypeOK, LogInv, NEW e, Emission(e)
  PROVE  LogInv'
<1>. DEFINE es == Append(buffer, e)
            R == Read(file, run)
<1>1. /\ pc = "running" /\ run' = run /\ run \in 1..MaxRuns
      /\ e \in Event /\ next' > 1 /\ MaxRuns \in Nat
  <2>1. pc = "running" /\ run' = run
    BY EmissionCases
  <2>2. e \in Event /\ next' \in 2..(N + 1)
    BY DEF Emission
  <2>. QED
    BY <2>1, <2>2, LogAssumption DEF TypeOK
<1>2. /\ es \in Seq(Event) /\ Len(es) = Len(buffer) + 1 /\ Len(es) <= BatchSize
      /\ \A i \in 1..Len(es) : Day[es[i]] <= Day[next' - 1]
      /\ \A d \in Days : \A i \in DOMAIN file[d] : file[d][i].run = run => d <= Day[es[1]]
      /\ R \o es = Append(accepted[run], e)
      /\ Day[next' - 1] \in Nat
      /\ next > 1 => Day[next - 1] \in Nat /\ Day[next - 1] <= Day[next' - 1]
  BY Waiting
<1>3. /\ buffer \in Seq(Event) /\ Len(buffer) \in Nat
      /\ R \in Seq(Event) /\ R \o buffer = accepted[run]
      /\ BatchSize \in Nat \ {0} /\ Days \subseteq Nat
  <2>1. buffer \in Seq(Event) /\ Len(buffer) \in Nat
    BY DEF TypeOK
  <2>2. R \in Seq(Event)
    BY ReadType
  <2>3. R \o buffer = accepted[run]
    BY <1>1 DEF LogInv
  <2>4. BatchSize \in Nat \ {0} /\ Days \subseteq Nat
    BY LogAssumption, DaysInOrder
  <2>. QED
    BY <2>1, <2>2, <2>3, <2>4
<1>4. /\ \A r \in 1..(run - 1) : Lacking(Read(file, r), accepted[r])
      /\ \A r \in (run + 1)..MaxRuns : accepted[r] = <<>>
      /\ \A d \in Days : \A i \in DOMAIN file[d] : file[d][i].run <= run
      /\ \A d \in Days : \A i \in DOMAIN file[d] : file[d][i].run = run =>
           next > 1 /\ d <= Day[next - 1]
  BY DEF LogInv
<1>5. \A d \in Days : \A i \in DOMAIN file[d] : file[d][i].run = run => d <= Day[next' - 1]
  <2> SUFFICES ASSUME NEW d \in Days, NEW i \in DOMAIN file[d], file[d][i].run = run
               PROVE  d <= Day[next' - 1]
    OBVIOUS
  <2>1. next > 1 /\ d <= Day[next - 1] /\ d \in Nat
    BY <1>3, <1>4
  <2>. QED
    BY <1>2, <2>1
<1>6. CASE Refused(e)
  <2>1. UNCHANGED <<pc, buffer, file, accepted>>
    BY <1>6 DEF Refused
  <2>2. ASSUME NEW i \in DOMAIN buffer PROVE Day[buffer[i]] <= Day[next' - 1]
    <3>1. i \in 1..Len(es) /\ es[i] = buffer[i]
      BY <1>2, <1>3
    <3>. QED
      BY <1>2, <3>1
  <2>3. pc' = "running" /\ Len(buffer) < BatchSize
    BY <1>1, <2>1 DEF LogInv
  <2>4. \A d \in Days : \A i \in DOMAIN file[d] : file[d][i].run = run =>
          (buffer # <<>> => d <= Day[buffer[1]])
    BY DEF LogInv
  <2>. HIDE DEF R, es
  <2>. QED
    BY <1>1, <1>3, <1>4, <1>5, <2>1, <2>2, <2>3, <2>4 DEF LogInv, R
<1>7. CASE Kept(e)
  <2>1. buffer' = es /\ UNCHANGED <<pc, file>> /\ Len(es) < BatchSize
    BY <1>2, <1>7 DEF Kept
  <2>2. /\ accepted'[run] = R \o es
        /\ \A r \in (1..MaxRuns) \ {run} : accepted'[r] = accepted[r]
    BY <1>1, <1>2, <1>7, TakenType DEF Kept
  <2>3. \A r \in 1..(run - 1) : r \in (1..MaxRuns) \ {run}
    BY <1>1
  <2>4. \A r \in (run + 1)..MaxRuns : r \in (1..MaxRuns) \ {run}
    BY <1>1
  <2>5. \A i \in DOMAIN es : Day[es[i]] <= Day[next' - 1]
    <3>1. DOMAIN es = 1..Len(es)
      BY <1>2
    <3>. QED
      BY <1>2, <3>1
  <2>. HIDE DEF R, es
  <2>. QED
    BY <1>1, <1>2, <1>4, <1>5, <2>1, <2>2, <2>3, <2>4, <2>5 DEF LogInv, R
<1>8. ASSUME NEW ls, Written(e, ls) PROVE LogInv'
  <2>. DEFINE k == Len(ls)
  <2>1. Puts(ls, es) /\ Taken(e) /\ buffer' = <<>> /\ k \in 1..Len(es)
    BY <1>8 DEF Written, Puts
  <2>2. /\ accepted'[run] = R \o es
        /\ \A r \in (1..MaxRuns) \ {run} : accepted'[r] = accepted[r]
    BY <1>1, <1>2, <2>1, TakenType
  <2>3. \A r \in 1..(run - 1) : r \in (1..MaxRuns) \ {run} /\ r # run
    BY <1>1
  <2>4. \A r \in (run + 1)..MaxRuns : r \in (1..MaxRuns) \ {run}
    BY <1>1
  <2>. HIDE DEF R, es
  <2>5. /\ Read(file', run) = R \o SubSeq(es, 1, k)
        /\ \A r : r # run => Read(file', r) = Read(file, r)
    BY <1>2, <2>1, PutsRead DEF R
  <2>6. \A d \in Days : \A i \in DOMAIN file'[d] :
          file'[d][i].run <= run /\ (file'[d][i].run = run => d <= Day[es[1]])
    BY <1>2, <1>4, <2>1, PutsOrder
  <2>7. \A d \in Days : \A i \in DOMAIN file'[d] : file'[d][i].run = run => d <= Day[next' - 1]
    <3> SUFFICES ASSUME NEW d \in Days, NEW i \in DOMAIN file'[d], file'[d][i].run = run
                 PROVE  d <= Day[next' - 1]
      OBVIOUS
    <3>1. d <= Day[es[1]] /\ d \in Nat
      BY <1>3, <2>6
    <3>2. 1 \in 1..Len(es) /\ es[1] \in Event
      BY <1>2, <2>1
    <3>3. Day[es[1]] \in Nat /\ Day[es[1]] <= Day[next' - 1]
      BY <1>2, <3>2, DaysInOrder
    <3>. QED
      BY <1>2, <3>1, <3>3
  <2>8. Len(buffer') < BatchSize /\ Filed(file', accepted', run', next')
    <3>1. Len(buffer') < BatchSize
      BY <1>3, <2>1
    <3>2. \A r \in 1..(run' - 1) : Lacking(Read(file', r), accepted'[r])
      BY <1>1, <1>4, <2>2, <2>3, <2>5
    <3>3. \A r \in (run' + 1)..MaxRuns : accepted'[r] = <<>>
      BY <1>1, <1>4, <2>2, <2>4
    <3>. QED
      BY <1>1, <2>6, <2>7, <3>1, <3>2, <3>3 DEF Filed
  <2>9. CASE k = Len(buffer) + 1 /\ UNCHANGED pc
    <3>1. SubSeq(es, 1, k) = es
      BY <1>2, <2>9
    <3>2. R \o es \in Seq(Event)
      <4>1. R \in Seq(Event) /\ es \in Seq(Event)
        BY <1>2, <1>3
      <4>. QED
        BY ONLY <4>1
    <3>3. Read(file', run) \o <<>> = accepted'[run]
      BY <2>2, <2>5, <3>1, <3>2, NothingAppended
    <3>4. pc' = "running" /\ run' = run
      BY <1>1, <2>9
    <3>5. Read(file', run') \o buffer' = accepted'[run']
      BY <2>1, <3>3, <3>4
    <3>. QED
      BY <2>1, <2>8, <3>4, <3>5, FlushLog
  <2>10. CASE pc' = "dead"
    <3>1. Lacking(R \o SubSeq(es, 1, k), R \o es)
      <4>1. R \in Seq(Event) /\ es \in Seq(Event) /\ k \in 0..Len(es) /\ Len(es) <= BatchSize
        BY <1>2, <1>3, <2>1
      <4>. QED
        BY <4>1, LackingAfter
    <3>2. Lacking(Read(file', run'), accepted'[run'])
      BY <1>1, <2>2, <2>5, <3>1
    <3>. QED
      BY <2>1, <2>8, <2>10, <3>2, FlushLog
  <2>. QED
    BY <1>8, <2>9, <2>10 DEF Written
<1>. QED
  BY <1>6, <1>7, <1>8, EmissionCases

LEMMA FinishLog ==
  ASSUME TypeOK, LogInv, Finish
  PROVE  LogInv'
<1>1. /\ pc = "running" /\ next = N + 1 /\ UNCHANGED <<run, next, accepted>>
      /\ run \in 1..MaxRuns /\ next > 1 /\ Day[next - 1] \in Nat
  BY LogAssumption DEF Finish, TypeOK
<1>2. /\ buffer \in Seq(Event) /\ Len(buffer) \in Nat /\ Len(buffer) < BatchSize
      /\ Read(file, run) \in Seq(Event) /\ Read(file, run) \o buffer = accepted[run]
      /\ BatchSize \in Nat \ {0} /\ Days \subseteq Nat
  <2>1. buffer \in Seq(Event) /\ Len(buffer) \in Nat
    BY DEF TypeOK
  <2>2. Read(file, run) \in Seq(Event)
    BY ReadType
  <2>3. Read(file, run) \o buffer = accepted[run] /\ Len(buffer) < BatchSize
    BY <1>1 DEF LogInv
  <2>4. BatchSize \in Nat \ {0} /\ Days \subseteq Nat
    BY LogAssumption, DaysInOrder
  <2>. QED
    BY <2>1, <2>2, <2>3, <2>4
<1>3. CASE buffer = <<>> /\ pc' = "finished" /\ UNCHANGED <<buffer, file, fresh>>
  <2>1. Read(file, run) = accepted[run]
    BY <1>2, <1>3, NothingAppended
  <2>. QED
    BY <1>1, <1>3, <2>1 DEF LogInv
<1>4. ASSUME NEW ls, Puts(ls, buffer),
             \/ pc' = "finished" /\ Len(ls) = Len(buffer)
             \/ pc' = "dead"
      PROVE  LogInv'
  <2>. DEFINE R == Read(file, run)
              k == Len(ls)
  <2>1. buffer # <<>> /\ k \in 1..Len(buffer) /\ buffer' = <<>>
    BY <1>2, <1>4 DEF Puts
  <2>2. /\ \A d \in Days : \A i \in DOMAIN file[d] :
             file[d][i].run <= run /\ (file[d][i].run = run => d <= Day[buffer[1]])
        /\ \A r \in 1..(run - 1) : r # run /\ Lacking(Read(file, r), accepted[r])
        /\ \A r \in (run + 1)..MaxRuns : accepted[r] = <<>>
    BY <1>1, <2>1 DEF LogInv
  <2>3. /\ Read(file', run) = R \o SubSeq(buffer, 1, k)
        /\ \A r : r # run => Read(file', r) = Read(file, r)
    BY <1>4, <2>2, PutsRead
  <2>4. \A d \in Days : \A i \in DOMAIN file'[d] :
          file'[d][i].run <= run /\ (file'[d][i].run = run => d <= Day[buffer[1]])
    BY <1>4, <2>2, PutsOrder
  <2>5. Day[buffer[1]] \in Nat /\ Day[buffer[1]] <= Day[next - 1]
    <3>1. 1 \in DOMAIN buffer /\ buffer[1] \in Event
      BY <1>2, <2>1
    <3>. QED
      BY <3>1, DaysInOrder DEF LogInv
  <2>6. \A d \in Days : \A i \in DOMAIN file'[d] : file'[d][i].run = run => d <= Day[next - 1]
    BY <1>1, <1>2, <2>4, <2>5
  <2>. HIDE DEF R, k
  <2>7. Len(buffer') < BatchSize /\ Filed(file', accepted', run', next')
    <3>1. Len(buffer') < BatchSize
      BY <1>2, <2>1
    <3>2. \A r \in 1..(run' - 1) : Lacking(Read(file', r), accepted'[r])
      BY <1>1, <2>2, <2>3
    <3>3. \A r \in (run' + 1)..MaxRuns : accepted'[r] = <<>>
      BY <1>1, <2>2
    <3>. QED
      BY <1>1, <2>4, <2>6, <3>1, <3>2, <3>3 DEF Filed
  <2>8. CASE pc' = "finished" /\ k = Len(buffer)
    <3>1. SubSeq(buffer, 1, k) = buffer
      BY <1>2, <2>8
    <3>2. Read(file', run) = accepted[run]
      BY <1>2, <2>3, <3>1 DEF R
    <3>3. Read(file', run') = accepted'[run'] /\ next' = N + 1
      BY <1>1, <3>2
    <3>. QED
      BY <2>1, <2>7, <2>8, <3>3, FlushLog
  <2>9. CASE pc' = "dead"
    <3>1. Lacking(R \o SubSeq(buffer, 1, k), R \o buffer)
      <4>1. k \in 0..Len(buffer) /\ Len(buffer) <= BatchSize
        BY <1>2, <2>1
      <4>. QED
        BY <1>2, <4>1, LackingAfter DEF R
    <3>2. Lacking(Read(file', run), accepted[run])
      BY <1>2, <2>3, <3>1 DEF R
    <3>3. Lacking(Read(file', run'), accepted'[run'])
      BY <1>1, <3>2
    <3>. QED
      BY <2>1, <2>7, <2>9, <3>3, FlushLog
  <2>. QED
    BY <1>4, <2>8, <2>9 DEF k
<1>. QED
  BY <1>3, <1>4, FinishCases

LEMMA RunAgainLog ==
  ASSUME TypeOK, LogInv, RunAgain
  PROVE  LogInv'
<1>1. /\ pc \in {"dead", "finished"} /\ run \in 1..MaxRuns /\ MaxRuns \in Nat /\ run < MaxRuns
      /\ run' = run + 1 /\ pc' = "running" /\ next' = 1 /\ buffer' = <<>>
      /\ UNCHANGED <<file, accepted>>
  BY LogAssumption DEF RunAgain, TypeOK
<1>2. Lacking(Read(file, run), accepted[run])
  <2>1. Read(file, run) \in Seq(Event)
    BY ReadType
  <2>. QED
    BY <1>1, <2>1, LackingNothing DEF LogInv
<1>3. \A r \in 1..(run' - 1) : Lacking(Read(file, r), accepted[r])
  BY <1>1, <1>2 DEF LogInv
<1>4. accepted[run + 1] = <<>> /\ \A r \in (run' + 1)..MaxRuns : accepted[r] = <<>>
  BY <1>1 DEF LogInv
<1>5. ASSUME NEW d \in Days, NEW i \in DOMAIN file[d]
      PROVE  file[d][i].run < run'
  <2>1. file[d][i].run <= run
    BY DEF LogInv
  <2>2. file[d][i].run \in Nat
    <3>1. file[d][i] \in Line
      BY DEF TypeOK
    <3>. QED
      BY <1>1, <3>1 DEF Line
  <2>. QED
    BY <1>1, <2>1, <2>2
<1>6. \A d \in Days : \A i \in DOMAIN file[d] :
        file[d][i].run <= run' /\ file[d][i].run # run'
  <2> SUFFICES ASSUME NEW d \in Days, NEW i \in DOMAIN file[d]
               PROVE  file[d][i].run <= run' /\ file[d][i].run # run'
    OBVIOUS
  <2>1. file[d][i].run \in Nat
    <3>1. file[d][i] \in Line
      BY DEF TypeOK
    <3>. QED
      BY <1>1, <3>1 DEF Line
  <2>. QED
    BY <1>1, <1>5, <2>1
<1>7. Read(file, run + 1) \o <<>> = <<>>
  <2>1. Read(file, run + 1) = <<>>
    BY <1>1, <1>6, NothingRead DEF TypeOK
  <2>. QED
    BY <2>1
<1>8. Len(<<>>) < BatchSize
  BY LogAssumption
<1>. QED
  BY <1>1, <1>3, <1>4, <1>6, <1>7, <1>8 DEF LogInv

LEMMA QuietLog ==
  ASSUME TypeOK, LogInv, Quiet, UNCHANGED <<pc, buffer>> \/ Die
  PROVE  LogInv'
<1>1. UNCHANGED <<run, next, accepted, file>>
  BY DEF Quiet
<1>2. CASE UNCHANGED <<pc, buffer>>
  BY <1>1, <1>2 DEF LogInv
<1>3. CASE Die
  <2>1. pc = "running" /\ pc' = "dead" /\ buffer' = <<>>
    BY <1>3 DEF Die
  <2>2. /\ Read(file, run) \in Seq(Event) /\ buffer \in Seq(Event) /\ BatchSize \in Nat \ {0}
        /\ Read(file, run) \o buffer = accepted[run] /\ Len(buffer) < BatchSize
    BY <2>1, ReadType, LogAssumption DEF LogInv, TypeOK
  <2>3. Lacking(Read(file, run), accepted[run])
    <3>1. 0 \in 0..Len(buffer) /\ Len(buffer) <= BatchSize /\ SubSeq(buffer, 1, 0) = <<>>
      BY <2>2
    <3>2. Lacking(Read(file, run) \o SubSeq(buffer, 1, 0), Read(file, run) \o buffer)
      BY <2>2, <3>1, LackingAfter
    <3>. QED
      BY <2>2, <3>1, <3>2, NothingAppended
  <2>4. Len(<<>>) < BatchSize
    BY <2>2
  <2>. QED
    BY <1>1, <2>1, <2>3, <2>4 DEF LogInv
<1>. QED
  BY <1>2, <1>3

LEMMA LogStep ==
  ASSUME TypeOK, LogInv, [Next]_vars
  PROVE  LogInv'
BY Emissions, EmissionLog, FinishLog, RunAgainLog, OtherSteps, QuietLog
-----------------------------------------------------------------------------
(* What a replay restores *)

\* Files are only appended to.
Grows ==
  \A d \in Days : /\ Len(file[d]) <= Len(file'[d])
                  /\ \A i \in DOMAIN file[d] : i \in DOMAIN file'[d] /\ file'[d][i] = file[d][i]

LEMMA PutsGrow ==
  ASSUME TypeOK, NEW es, NEW ls, Puts(ls, es)
  PROVE  /\ Grows
         /\ \A d \in fresh' : d \in fresh /\ file'[d] = file[d]
<1>1. ASSUME NEW d \in Days
      PROVE  /\ Len(file[d]) <= Len(file'[d])
             /\ \A i \in DOMAIN file[d] : i \in DOMAIN file'[d] /\ file'[d][i] = file[d][i]
  <2>1. file[d] \in Seq(Line) /\ ls \in Seq(Line) /\ (file'[d] = file[d] \/ file'[d] = file[d] \o ls)
    BY PutsFacts DEF TypeOK, Puts
  <2>2. CASE file'[d] = file[d]
    BY <2>1, <2>2
  <2>3. CASE file'[d] = file[d] \o ls
    BY <2>1, <2>3
  <2>. QED
    BY <2>1, <2>2, <2>3
<1>2. \A d \in fresh' : d \in fresh /\ d \in Days /\ d # Path(es)
  BY DEF Puts, TypeOK
<1>. QED
  BY <1>1, <1>2, PutsFacts DEF Grows

LEMMA FileSameGrows == ASSUME TypeOK, UNCHANGED file PROVE Grows
<1>1. \A d \in Days : Len(file[d]) \in Nat
  BY DEF TypeOK
<1>. QED
  BY <1>1 DEF Grows

\* While files only grow and nothing is posted, what the API holds stays right.
LEMMA GrowthReplayed ==
  ASSUME TypeOK, ReplayedInv, TypeOK', Grows, UNCHANGED <<reader, stored>>,
         \A d \in fresh' : d \in fresh /\ file'[d] = file[d]
  PROVE  ReplayedInv'
<1>1. \A d \in fresh' : \A i \in DOMAIN file'[d] : stored'[file'[d][i].event] # 0
  BY DEF ReplayedInv
<1>2. ASSUME NEW e \in Event, stored[e] # 0
      PROVE  \E d \in Days : \E i \in DOMAIN file'[d] :
               file'[d][i].run = stored[e] /\ file'[d][i].event = e
  <2>1. PICK d \in Days : \E i \in DOMAIN file[d] :
          file[d][i].run = stored[e] /\ file[d][i].event = e
    BY <1>2 DEF ReplayedInv
  <2>2. PICK i \in DOMAIN file[d] : file[d][i].run = stored[e] /\ file[d][i].event = e
    BY <2>1
  <2>3. i \in DOMAIN file'[d] /\ file'[d][i] = file[d][i]
    BY DEF Grows
  <2>. QED
    BY <2>2, <2>3
<1>3. ReaderOK'
  <2> SUFFICES ASSUME reader.mode \in {"loaded", "streaming"}
               PROVE  /\ reader.day \in Days
                      /\ reader.pos \in 1..(Len(file'[reader.day]) + 1)
                      /\ reader.last <= Len(file'[reader.day])
                      /\ \A i \in 1..(reader.pos - 1) : stored[file'[reader.day][i].event] # 0
    BY DEF ReaderOK, StoredUpTo
  <2>. DEFINE d == reader.day
  <2>1. /\ d \in Days
        /\ reader.pos \in 1..(Len(file[d]) + 1)
        /\ reader.last <= Len(file[d])
        /\ \A i \in 1..(reader.pos - 1) : stored[file[d][i].event] # 0
    BY DEF ReplayedInv, ReaderOK, StoredUpTo
  <2>2. /\ file[d] \in Seq(Line) /\ file'[d] \in Seq(Line) /\ reader.last \in Nat
        /\ Len(file[d]) \in Nat /\ Len(file'[d]) \in Nat /\ Len(file[d]) <= Len(file'[d])
    BY <2>1, SMTT(30) DEF TypeOK, ReaderRecord, Grows
  <2>3. \A i \in 1..(reader.pos - 1) : file'[d][i] = file[d][i]
    <3> SUFFICES ASSUME NEW i \in 1..(reader.pos - 1) PROVE file'[d][i] = file[d][i]
      OBVIOUS
    <3>1. i \in DOMAIN file[d]
      BY <2>1, <2>2
    <3>. QED
      BY <2>1, <3>1 DEF Grows
  <2>4. reader.pos \in 1..(Len(file'[d]) + 1) /\ reader.last <= Len(file'[d])
    BY <2>1, <2>2, SMTT(30)
  <2>5. \A i \in 1..(reader.pos - 1) : stored[file'[d][i].event] # 0
    BY <2>1, <2>3
  <2>. QED
    BY <2>1, <2>4, <2>5
<1>. QED
  BY <1>1, <1>2, <1>3 DEF ReplayedInv

LEMMA ReplayReplayed ==
  ASSUME TypeOK, ReplayedInv, Replay
  PROVE  ReplayedInv'
<1>1. UNCHANGED <<file, fresh>> /\ ReaderOK
  BY DEF Replay, ReplayedInv
<1>2. reader.mode \in {"loaded", "streaming"} /\ ~Exhausted
  BY DEF Replay
<1>. DEFINE d == reader.day
            m == Min({reader.pos + ReplayBatch - 1, End})
<1>3. /\ d \in Days
      /\ End \in Nat /\ End <= Len(file[d])
      /\ reader.pos \in Nat /\ m \in Nat
      /\ 1 <= reader.pos /\ reader.pos <= m /\ m <= End
      /\ Chunk \in Seq(Line)
      /\ Len(Chunk) = (m - reader.pos) + 1
      /\ \A i \in 1..Len(Chunk) : Chunk[i] = file[d][i + (reader.pos - 1)]
  BY <1>1, <1>2, ChunkFacts
<1>. HIDE DEF m
<1>4. file[d] \in Seq(Line) /\ Len(file[d]) \in Nat /\ DOMAIN file[d] = 1..Len(file[d])
  BY <1>3 DEF TypeOK
<1>5. \A i \in 1..Len(file[d]) : file[d][i].event \in Event
  <2>1. \A i \in 1..Len(file[d]) : file[d][i] \in Line
    BY <1>4
  <2>. QED
    BY <2>1 DEF Line
<1>6. CASE Ingest(Chunk) /\ reader' = [reader EXCEPT !.pos = @ + Len(Chunk), !.last = End,
                                     !.mode = IF Len(Chunk) < ReplayBatch THEN "loaded" ELSE @]
  <2>1. /\ \A e \in Event : stored[e] # 0 => stored'[e] = stored[e]
        /\ \A e \in Event : stored'[e] # stored[e] =>
             \E i \in 1..Len(Chunk) : Chunk[i].event = e /\ Chunk[i].run = stored'[e]
        /\ \A i \in 1..Len(Chunk) : stored'[Chunk[i].event] # 0
    BY <1>3, <1>6, IngestType
  <2>2. \A c \in fresh' : \A i \in DOMAIN file'[c] : stored'[file'[c][i].event] # 0
    <3> SUFFICES ASSUME NEW c \in fresh, NEW i \in DOMAIN file[c]
                 PROVE  stored'[file[c][i].event] # 0
      BY <1>1
    <3>1. file[c][i] \in Line
      BY DEF TypeOK
    <3>2. file[c][i].event \in Event
      BY <3>1 DEF Line
    <3>3. stored[file[c][i].event] # 0
      BY DEF ReplayedInv
    <3>. QED
      BY <2>1, <3>2, <3>3
  <2>3. ASSUME NEW e \in Event, stored'[e] # 0
        PROVE  \E c \in Days : \E i \in DOMAIN file[c] :
                 file[c][i].run = stored'[e] /\ file[c][i].event = e
    <3>1. CASE stored'[e] = stored[e]
      BY <2>3, <3>1 DEF ReplayedInv
    <3>2. CASE stored'[e] # stored[e]
      <4>1. PICK i \in 1..Len(Chunk) : Chunk[i].event = e /\ Chunk[i].run = stored'[e]
        BY <2>1, <3>2
      <4>2. i + (reader.pos - 1) \in 1..Len(file[d])
        BY <1>3, <1>4, SMTT(30)
      <4>. QED
        BY <1>3, <1>4, <4>1, <4>2
    <3>. QED
      BY <3>1, <3>2
  <2>4. /\ reader'.day = d /\ reader'.pos = m + 1 /\ reader'.last = End
    <3>1. reader \in ReaderRecord
      BY DEF TypeOK
    <3>2. reader'.day = d /\ reader'.pos = reader.pos + Len(Chunk) /\ reader'.last = End
      BY <1>6, <3>1 DEF ReaderRecord
    <3>. QED
      BY <1>3, <3>2
  <2>5. \A i \in 1..m : stored'[file[d][i].event] # 0
    <3> SUFFICES ASSUME NEW i \in 1..m PROVE stored'[file[d][i].event] # 0
      OBVIOUS
    <3>1. CASE i < reader.pos
      <4>1. i \in 1..(reader.pos - 1) /\ i \in 1..Len(file[d])
        BY <1>3, <1>4, <3>1
      <4>2. stored[file[d][i].event] # 0
        BY <1>1, <1>2, <4>1 DEF ReaderOK, StoredUpTo
      <4>. QED
        BY <1>5, <2>1, <4>1, <4>2
    <3>2. CASE ~(i < reader.pos)
      <4>. DEFINE j == i - (reader.pos - 1)
      <4>1. j \in 1..Len(Chunk) /\ j + (reader.pos - 1) = i
        BY <1>3, <3>2
      <4>. HIDE DEF j
      <4>. QED
        BY <1>3, <2>1, <4>1
    <3>. QED
      BY <3>1, <3>2
  <2>6. ReaderOK'
    <3>1. m + 1 \in 1..(Len(file[d]) + 1) /\ (m + 1) - 1 = m
      BY <1>3, <1>4
    <3>. QED
      BY <1>1, <1>3, <2>4, <2>5, <3>1 DEF ReaderOK, StoredUpTo
  <2>. QED
    BY <1>1, <2>2, <2>3, <2>6 DEF ReplayedInv
<1>7. CASE reader' = [reader EXCEPT !.mode = "failed"] /\ UNCHANGED stored
  <2>1. reader'.mode = "failed"
    BY <1>7 DEF TypeOK, ReaderRecord
  <2>. QED
    BY <1>1, <1>7, <2>1 DEF ReplayedInv, ReaderOK
<1>. QED
  BY <1>6, <1>7 DEF Replay

LEMMA ReplayedStep ==
  ASSUME TypeOK, ReplayedInv, TypeOK', [Next]_vars
  PROVE  ReplayedInv'
<1>1. ASSUME NEW e, Emission(e) PROVE ReplayedInv'
  <2>1. UNCHANGED <<reader, stored>>
    BY <1>1, EmissionCases
  <2>2. CASE Refused(e) \/ Kept(e)
    BY <2>1, <2>2, FileSameGrows, GrowthReplayed DEF Refused, Kept
  <2>3. ASSUME NEW ls, Written(e, ls) PROVE ReplayedInv'
    BY <2>1, <2>3, PutsGrow, GrowthReplayed DEF Written
  <2>. QED
    BY <1>1, <2>2, <2>3, EmissionCases
<1>2. CASE Finish
  <2>1. UNCHANGED <<reader, stored>>
    BY <1>2 DEF Finish
  <2>2. CASE UNCHANGED <<buffer, file, fresh>>
    BY <2>1, <2>2, FileSameGrows, GrowthReplayed
  <2>3. ASSUME NEW ls, Puts(ls, buffer) PROVE ReplayedInv'
    BY <2>1, <2>3, PutsGrow, GrowthReplayed
  <2>. QED
    BY <1>2, <2>2, <2>3, FinishCases
<1>3. CASE Die \/ RunAgain \/ UNCHANGED vars
  BY <1>3, FileSameGrows, GrowthReplayed DEF Die, RunAgain, vars
<1>4. ASSUME NEW d \in Days, LoadFile(d) \/ OpenFile(d)
      PROVE  ReplayedInv'
  <2>1. UNCHANGED <<file, stored, fresh>> /\ Len(file[d]) \in Nat
    BY <1>4 DEF LoadFile, OpenFile, TypeOK
  <2>2. /\ reader'.day = d /\ reader'.pos = 1
        /\ reader'.last \in {0, Len(file[d])}
    BY <1>4 DEF LoadFile, OpenFile
  <2>3. 1 \in 1..(Len(file[d]) + 1) /\ reader'.last <= Len(file[d])
    BY <2>1, <2>2
  <2>4. ReaderOK'
    BY <2>1, <2>2, <2>3 DEF ReaderOK, StoredUpTo
  <2>. QED
    BY <2>1, <2>4 DEF ReplayedInv
<1>5. CASE Replay
  BY <1>5, ReplayReplayed
<1>6. CASE ReplayEnds
  <2>1. /\ reader.mode \in {"loaded", "streaming"} /\ reader.pos > End
        /\ reader'.mode = "idle" /\ UNCHANGED <<file, stored>>
        /\ fresh' = IF End = Len(file[reader.day]) THEN fresh \cup {reader.day} ELSE fresh
    BY <1>6 DEF ReplayEnds, Exhausted, NoReader
  <2>2. ASSUME NEW d \in fresh', NEW i \in DOMAIN file[d]
        PROVE  stored[file[d][i].event] # 0
    <3>1. CASE d \in fresh
      BY <3>1 DEF ReplayedInv
    <3>2. CASE d \notin fresh
      <4>1. d = reader.day /\ End = Len(file[d])
        BY <2>1, <3>2
      <4>2. /\ reader.pos \in Nat /\ file[d] \in Seq(Line)
            /\ \A j \in 1..(reader.pos - 1) : stored[file[d][j].event] # 0
        BY <2>1, <4>1 DEF ReplayedInv, ReaderOK, StoredUpTo, TypeOK, ReaderRecord
      <4>3. i \in 1..(reader.pos - 1)
        BY <2>1, <4>1, <4>2
      <4>. QED
        BY <4>2, <4>3
    <3>. QED
      BY <3>1, <3>2
  <2>. QED
    BY <2>1, <2>2 DEF ReplayedInv, ReaderOK
<1>. QED
  BY <1>1, <1>2, <1>3, <1>4, <1>5, <1>6, Emissions DEF Next
\* A whole batch that is written is in the files.
LEMMA PutsSafe ==
  ASSUME TypeOK, NEW es, NEW ls, Puts(ls, es), Len(ls) = Len(es), NEW x, Safe(es, file, x)
  PROVE  Safe(<<>>, file', x)
<1>1. CASE \E i \in DOMAIN es : es[i] = x
  <2>1. PICK i \in DOMAIN es : es[i] = x
    BY <1>1
  <2>. DEFINE f == file[Path(es)]
  <2>2. /\ Path(es) \in Days /\ file'[Path(es)] = f \o ls /\ f \in Seq(Line)
        /\ ls \in Seq(Line) /\ es \in Seq(Event)
    BY PutsFacts DEF TypeOK, Puts
  <2>3. i \in 1..Len(ls)
    BY <2>2
  <2>. HIDE DEF f
  <2>4. Len(f) + i \in DOMAIN (f \o ls) /\ (f \o ls)[Len(f) + i] = ls[i]
    BY <2>2, <2>3
  <2>5. ls[i].event = x
    BY <2>1, <2>3 DEF Puts
  <2>. QED
    BY <2>2, <2>4, <2>5 DEF Safe
<1>2. CASE \E d \in Days : \E i \in DOMAIN file[d] : file[d][i].event = x
  <2>1. PICK d \in Days : \E i \in DOMAIN file[d] : file[d][i].event = x
    BY <1>2
  <2>2. PICK i \in DOMAIN file[d] : file[d][i].event = x
    BY <2>1
  <2>3. i \in DOMAIN file'[d] /\ file'[d][i] = file[d][i]
    BY PutsGrow DEF Grows
  <2>. QED
    BY <2>2, <2>3 DEF Safe
<1>. QED
  BY <1>1, <1>2 DEF Safe

\* An event that is taken joins those that were, wherever they are now.
LEMMA TakenEmitted ==
  ASSUME TypeOK, EmittedInv, NEW e, Emission(e), Taken(e),
         pc' # "dead" => \A x : Safe(Append(buffer, e), file, x) => Safe(buffer', file', x)
  PROVE  EmittedInv'
<1>. DEFINE a == accepted[run]
            b == Append(a, e)
            es == Append(buffer, e)
<1>1. /\ pc = "running" /\ run' = run
  BY EmissionCases
<1>2. e \in Event /\ 1..(next' - 1) \subseteq (1..(next - 1)) \cup {e}
  BY DEF Emission
<1>3. accepted'[run] = b
  BY <1>2, TakenType
<1>4. /\ \A i \in DOMAIN a : i \in DOMAIN b /\ b[i] = a[i]
      /\ \E i \in DOMAIN b : b[i] = e
      /\ \A i \in DOMAIN b : b[i] = e \/ \E j \in DOMAIN a : b[i] = a[j]
  <2>1. a \in Seq(Event)
    BY DEF TypeOK
  <2>. HIDE DEF a
  <2>2. Len(a) + 1 \in DOMAIN b /\ b[Len(a) + 1] = e
    BY <1>2, <2>1
  <2>3. \A i \in DOMAIN b : i = Len(a) + 1 \/ i \in DOMAIN a
    BY <1>2, <2>1
  <2>4. \A i \in DOMAIN a : i \in DOMAIN b /\ b[i] = a[i]
    BY <1>2, <2>1
  <2>. HIDE DEF b
  <2>. QED
    BY <2>2, <2>3, <2>4
<1>5. /\ \A x \in 1..(next - 1) : \E i \in DOMAIN a : a[i] = x
      /\ \A i \in DOMAIN a : Safe(buffer, file, a[i])
  BY <1>1 DEF EmittedInv
<1>6. \A x : Safe(buffer, file, x) \/ x = e => Safe(es, file, x)
  <2>1. /\ \A i \in DOMAIN buffer : i \in DOMAIN es /\ es[i] = buffer[i]
        /\ Len(buffer) + 1 \in DOMAIN es /\ es[Len(buffer) + 1] = e
    BY <1>2 DEF TypeOK
  <2>. HIDE DEF es
  <2>. QED
    BY <2>1 DEF Safe
<1>. HIDE DEF a, b, es
<1>7. ASSUME NEW x \in 1..(next' - 1) PROVE \E i \in DOMAIN b : b[i] = x
  <2>1. CASE x = e
    BY <1>4, <2>1
  <2>2. CASE x \in 1..(next - 1)
    <3>1. PICK i \in DOMAIN a : a[i] = x
      BY <1>5, <2>2
    <3>. QED
      BY <1>4, <3>1
  <2>. QED
    BY <1>2, <2>1, <2>2
<1>8. ASSUME pc' # "dead", NEW i \in DOMAIN b PROVE Safe(buffer', file', b[i])
  <2>1. Safe(es, file, b[i])
    BY <1>4, <1>5, <1>6
  <2>. QED
    BY <1>8, <2>1 DEF es
<1>. QED
  BY <1>1, <1>3, <1>7, <1>8 DEF EmittedInv

LEMMA EmissionEmitted ==
  ASSUME TypeOK, WindowInv, EmittedInv, NEW e, Emission(e)
  PROVE  EmittedInv'
<1>1. CASE Refused(e)
  <2>. DEFINE a == accepted[run]
  <2>1. /\ UNCHANGED <<run, pc, buffer, file, accepted>>
        /\ 1..(next' - 1) \subseteq (1..(next - 1)) \cup {e}
    BY <1>1, EmissionCases DEF Refused, Emission
  <2>2. a \in Seq(Event) /\ seen = LastOf(a, MaxKeys) /\ MaxKeys \in Nat
    BY LogAssumption DEF WindowInv, TypeOK
  <2>. HIDE DEF a
  <2>3. \E i \in DOMAIN a : a[i] = e
    <3>1. /\ seen \in Seq(Event)
          /\ Len(seen) = IF Len(a) > MaxKeys THEN MaxKeys ELSE Len(a)
          /\ \A j \in 1..Len(seen) : seen[j] = a[j + (Len(a) - Len(seen))]
      BY <2>2, LastOfType
    <3>2. PICK i \in 1..Len(seen) : seen[i] = e
      BY <1>1, <3>1 DEF Refused
    <3>3. i + (Len(a) - Len(seen)) \in DOMAIN a
      <4>1. /\ Len(a) \in Nat /\ Len(seen) \in Nat /\ Len(seen) <= Len(a)
            /\ DOMAIN a = 1..Len(a)
        BY <2>2, <3>1
      <4>. QED
        BY <3>2, <4>1
    <3>. QED
      BY <3>1, <3>2, <3>3
  <2>4. /\ \A x \in 1..(next - 1) : \E i \in DOMAIN a : a[i] = x
        /\ pc # "dead" => \A i \in DOMAIN a : Safe(buffer, file, a[i])
    BY DEF EmittedInv, a
  <2>5. \A x \in 1..(next' - 1) : \E i \in DOMAIN a : a[i] = x
    BY <2>1, <2>3, <2>4
  <2>. QED
    BY <2>1, <2>4, <2>5 DEF EmittedInv, a
<1>2. CASE Kept(e)
  <2>1. Taken(e) /\ buffer' = Append(buffer, e) /\ file' = file
    BY <1>2 DEF Kept
  <2>. QED
    BY <2>1, TakenEmitted
<1>3. ASSUME NEW ls, Written(e, ls) PROVE EmittedInv'
  <2>1. Taken(e) /\ Puts(ls, Append(buffer, e)) /\ buffer' = <<>>
    BY <1>3 DEF Written, Puts
  <2>2. pc' # "dead" => Len(ls) = Len(Append(buffer, e))
    BY <1>3 DEF Written, TypeOK
  <2>3. pc' # "dead" => \A x : Safe(Append(buffer, e), file, x) => Safe(buffer', file', x)
    BY <2>1, <2>2, PutsSafe
  <2>. QED
    BY <2>1, <2>3, TakenEmitted
<1>. QED
  BY <1>1, <1>2, <1>3, EmissionCases

LEMMA EmittedStep ==
  ASSUME TypeOK, WindowInv, LogInv, EmittedInv, [Next]_vars
  PROVE  EmittedInv'
<1>1. CASE Finish
  <2>1. UNCHANGED <<run, next, accepted>> /\ pc = "running"
    BY <1>1 DEF Finish
  <2>2. CASE UNCHANGED <<buffer, file, fresh>>
    BY <2>1, <2>2 DEF EmittedInv
  <2>3. ASSUME NEW ls, Puts(ls, buffer), pc' # "dead" => Len(ls) = Len(buffer)
        PROVE  EmittedInv'
    <3>1. buffer' = <<>>
      BY <2>3 DEF Puts
    <3>2. pc' # "dead" => \A x : Safe(buffer, file, x) => Safe(<<>>, file', x)
      BY <2>3, PutsSafe
    <3>. QED
      BY <2>1, <3>1, <3>2 DEF EmittedInv
  <2>. QED
    BY <1>1, <2>2, <2>3, FinishCases
<1>2. CASE RunAgain
  <2>1. run' = run + 1 /\ run + 1 \in (run + 1)..MaxRuns /\ next' = 1 /\ accepted' = accepted
    BY <1>2, LogAssumption DEF RunAgain, TypeOK
  <2>2. accepted[run + 1] = <<>>
    BY <2>1 DEF LogInv
  <2>. QED
    BY <2>1, <2>2 DEF EmittedInv
<1>3. CASE Quiet /\ (UNCHANGED <<pc, buffer>> \/ Die)
  BY <1>3 DEF Quiet, Die, EmittedInv
<1>. QED
  BY <1>1, <1>2, <1>3, Emissions, EmissionEmitted, OtherSteps

-----------------------------------------------------------------------------
(* The theorems *)

LEMMA InitInv == Init => IInv
<1>. SUFFICES ASSUME Init PROVE IInv
  OBVIOUS
<1>1. /\ run = 1 /\ pc = "running" /\ next = 1 /\ buffer = <<>> /\ seen = <<>>
      /\ repeats = 0 /\ file = [d \in Days |-> <<>>] /\ reader = NoReader
      /\ stored = [e \in Event |-> 0] /\ accepted = [r \in 1..MaxRuns |-> <<>>] /\ fresh = {}
  BY DEF Init
<1>2. {N, BatchSize, MaxKeys, MaxRuns} \subseteq Nat \ {0}
  BY LogAssumption
<1>3. TypeOK
  BY <1>1, <1>2 DEF TypeOK, NoReader, ReaderRecord
<1>4. WindowInv
  <2>1. LastOf(<<>>, MaxKeys) = SubSeq(<<>>, 1, 0)
    BY <1>2 DEF LastOf
  <2>. QED
    BY <1>1, <1>2, <2>1 DEF WindowInv, Apart
<1>5. LogInv
  <2>1. Read(file, 1) = <<>>
    <3>1. \A d \in Days : \A i \in DOMAIN file[d] : file[d][i].run # 1
      BY <1>1
    <3>. QED
      BY <1>3, <3>1, NothingRead DEF TypeOK
  <2>. QED
    BY <1>1, <1>2, <2>1 DEF LogInv
<1>6. EmittedInv /\ ReplayedInv
  <2>1. reader.mode = "idle"
    BY <1>1 DEF NoReader
  <2>2. EmittedInv
    BY <1>1, <1>2 DEF EmittedInv
  <2>. QED
    BY <1>1, <2>1, <2>2 DEF ReplayedInv, ReaderOK
<1>. QED
  BY <1>3, <1>4, <1>5, <1>6 DEF IInv

LEMMA StepInv == IInv /\ [Next]_vars => IInv'
<1>. SUFFICES ASSUME IInv, [Next]_vars PROVE IInv'
  OBVIOUS
<1>1. TypeOK'
  BY TypeStep DEF IInv, ReplayedInv
<1>. QED
  BY <1>1, WindowStep, LogStep, EmittedStep, ReplayedStep DEF IInv

\* The inductive invariant of the log holds in every reachable state.
THEOREM Invariance == Spec => []IInv
BY InitInv, StepInv, PTL DEF Spec

\* LogFollowsEmission (emit.py, emit, flush and path_for): what a run accepted
\* is in the files and the buffer, in order, and a run that died lacks at most
\* one batch at the end.
THEOREM LogTheorem == Spec => []LogFollowsEmission
<1>1. IInv => LogFollowsEmission
  <2>. SUFFICES ASSUME IInv, NEW r \in 1..run
                PROVE  CASE r = run /\ pc = "running" -> Logged(r) \o buffer = accepted[r]
                         [] r = run /\ pc = "finished" -> Logged(r) = accepted[r]
                         [] OTHER -> /\ IsPrefix(Logged(r), accepted[r])
                                     /\ Len(accepted[r]) - Len(Logged(r)) <= BatchSize
    BY DEF LogFollowsEmission
  <2>1. Logged(r) = Read(file, r)
    BY DEF Logged, Read, Reading
  <2>2. pc \in {"running", "dead", "finished"} /\ run \in Nat
    BY LogAssumption DEF IInv, TypeOK
  <2>3. r = run \/ r \in 1..(run - 1)
    BY <2>2
  <2>. QED
    BY <2>1, <2>2, <2>3 DEF IInv, LogInv, Lacking
<1>. QED
  BY <1>1, Invariance, PTL

\* DuplicatesAreFar (emit.py, EventDedupStore): between two copies of an event
\* in the log of one run lie as many other events as the window holds.
THEOREM DuplicatesTheorem == Spec => []DuplicatesAreFar
<1>1. IInv => DuplicatesAreFar
  <2>. SUFFICES ASSUME IInv, NEW r \in 1..MaxRuns,
                       NEW i \in DOMAIN accepted[r], NEW j \in DOMAIN accepted[r],
                       i < j, accepted[r][i] = accepted[r][j]
                PROVE  Cardinality({accepted[r][k] : k \in (i + 1)..(j - 1)}) >= MaxKeys
    BY DEF DuplicatesAreFar
  <2>. DEFINE s == accepted[r]
              between == {s[k] : k \in (i + 1)..(j - 1)}
              window == (i + 1)..(i + MaxKeys)
              part == {s[k] : k \in window}
              f == [k \in window |-> s[k]]
  <2>1. /\ s \in Seq(Event) /\ DOMAIN s = 1..Len(s) /\ Len(s) \in Nat
        /\ i \in Nat /\ j \in Nat /\ j <= Len(s) /\ MaxKeys \in Nat
    <3>1. s \in Seq(Event)
      BY DEF IInv, TypeOK
    <3>2. DOMAIN s = 1..Len(s) /\ Len(s) \in Nat
      BY <3>1
    <3>. QED
      BY <3>1, <3>2, LogAssumption
  <2>2. /\ \A k, l \in DOMAIN s : k < l /\ s[k] = s[l] => l - k > MaxKeys
    BY DEF IInv, WindowInv, Apart
  <2>3. j - i > MaxKeys
    BY <2>2
  <2>. HIDE DEF s
  <2>4. window \subseteq (i + 1)..(j - 1) /\ window \subseteq DOMAIN s
    BY <2>1, <2>3 DEF s
  <2>5. \A k, l \in window : s[k] = s[l] => k = l
    <3> SUFFICES ASSUME NEW k \in window, NEW l \in window, s[k] = s[l], k # l PROVE FALSE
      OBVIOUS
    <3>1. k \in DOMAIN s /\ l \in DOMAIN s
      BY <2>4
    <3>2. k - l <= MaxKeys /\ l - k <= MaxKeys /\ (k < l \/ l < k)
      BY <2>1
    <3>. QED
      BY <2>1, <2>2, <3>1, <3>2
  <2>6. IsFiniteSet(window) /\ Cardinality(window) = MaxKeys
    <3>1. i + 1 \in Int /\ i + MaxKeys \in Int /\ ((i + MaxKeys) - (i + 1)) + 1 = MaxKeys
      BY <2>1
    <3>2. i + 1 > i + MaxKeys => MaxKeys = 0
      BY <2>1
    <3>. QED
      BY <3>1, <3>2, FS_Interval
  <2>7. IsFiniteSet(part) /\ Cardinality(part) = MaxKeys
    <3>1. f \in Bijection(window, part)
      BY <2>5 DEF Bijection, Injection, Surjection, IsInjective
    <3>. HIDE DEF f, part, window
    <3>. QED
      BY <2>6, <3>1, FS_Bijection DEF ExistsBijection
  <2>8. IsFiniteSet(between)
    <3>1. between \subseteq Event
      <4>1. \A k \in (i + 1)..(j - 1) : k \in 1..Len(s)
        BY <2>1
      <4>. QED
        BY <2>1, <4>1
    <3>2. IsFiniteSet(Event)
      BY FS_Interval, LogAssumption DEF Event
    <3>. HIDE DEF between
    <3>. QED
      BY <3>1, <3>2, FS_Subset
  <2>9. part \subseteq between
    BY <2>4
  <2>10. Cardinality(part) <= Cardinality(between)
    <3>. HIDE DEF part, between
    <3>. QED
      BY <2>8, <2>9, FS_Subset
  <2>11. Cardinality(between) \in Nat
    <3>. HIDE DEF between
    <3>. QED
      BY <2>8, FS_CardinalityType
  <2>. HIDE DEF part, between
  <2>12. Cardinality(between) >= MaxKeys
    BY <2>1, <2>7, <2>10, <2>11
  <2>. QED
    BY <2>12 DEF between, s
<1>. QED
  BY <1>1, Invariance, PTL

\* ReplayRestores (emit.py and ingest/replay.py): once a run has finished and
\* every file has been replayed to its end, the API has a copy of every event,
\* that of a run that logged it.
THEOREM RestoreTheorem == Spec => []ReplayRestores
<1>1. IInv => ReplayRestores
  <2>. SUFFICES ASSUME IInv, pc = "finished", fresh = Days, NEW e \in Event
                PROVE  \E d \in Days : \E i \in DOMAIN file[d] :
                         stored[e] = file[d][i].run /\ file[d][i].event = e
    BY DEF ReplayRestores
  <2>1. buffer = <<>> /\ next = N + 1 /\ N \in Nat
    BY LogAssumption DEF IInv, LogInv
  <2>2. e \in 1..(next - 1)
    BY <2>1 DEF Event
  <2>3. Safe(buffer, file, e)
    BY <2>2 DEF IInv, EmittedInv
  <2>4. PICK d \in Days : \E i \in DOMAIN file[d] : file[d][i].event = e
    BY <2>1, <2>3 DEF Safe
  <2>5. stored[e] # 0
    BY <2>4 DEF IInv, ReplayedInv
  <2>. QED
    BY <2>5 DEF IInv, ReplayedInv
<1>. QED
  BY <1>1, Invariance, PTL

===============================================================================
