---------------------------- MODULE DetectorsProofs ----------------------------
(***************************************************************************)
(* What the detectors report is what people did, for any tracks, positions,*)
(* zones, routes and tuning: a visit is a presence, a crossing that is     *)
(* jitter fires once, and one that is deliberate fires.                    *)
(***************************************************************************)
EXTENDS Detectors, TLAPS

Sides == {-1, 0, 1}

Since == [Directions -> Nat]

Line == [last : Position \cup {Nowhere}, side : Sides, frames : Nat, armed : BOOLEAN, since : Since]

Walk == [at : Position \cup {Nowhere}, away : Nat]

Stay == [side : Sides, stay : Nat, longest : Nat, since : Since]

\* The state of line k for a track is what its walk explains: the debounce
\* counts the stay on one side, the line is armed by a stay long enough and by
\* nothing else, and the cooldown never outlasts the last crossing in its
\* direction.
LineFollows(s, w, k) ==
  /\ s \in Line /\ w \in Stay
  /\ s.side = w.side /\ s.frames = w.stay
  /\ s.last # Nowhere /\ Side(k, s.last) # 0 => s.side = Side(k, s.last)
  /\ w.stay <= w.longest
  /\ s.armed => w.longest >= Debounce
  /\ w.stay >= Debounce => s.armed
  /\ \A d \in Directions : w.since[d] <= s.since[d]

LEMMA TuningTyped ==
  /\ MinMove \in Nat /\ Debounce \in Nat /\ Cooldown \in Nat /\ Grace \in Nat
  /\ Threshold \in Nat /\ TrackTimeout \in Nat /\ Interval \in Nat /\ DepthInterval \in Nat
  /\ MaxStep \in Nat \ {0} /\ MaxVisits \in Nat
BY TuningAssumption

LEMMA Positions ==
  /\ Unseen \notin Position /\ Nowhere \notin Position /\ Nowhere # Unseen
  /\ Lines \in Nat
  /\ Scene \subseteq [Track -> Position \cup {Unseen}]
  /\ \A k \in LineNo, p \in Position : Coord[k][p] \in Int
BY GeometryAssumption

LEMMA SideTyped ==
  ASSUME NEW k \in LineNo, NEW p \in Position
  PROVE  Side(k, p) \in Sides
BY DEF Side, Sides

\* Only a move from one side to the other can cross, and it is toward the side
\* on which it ends.
LEMMA CrossingTurns ==
  ASSUME NEW k \in LineNo, NEW p \in Position, NEW q \in Position,
         Side(k, p) * Side(k, q) = -1
  PROVE  /\ Side(k, p) # 0 /\ Side(k, q) # 0 /\ Side(k, p) # Side(k, q)
         /\ Toward(k, p, q) = IF Side(k, q) = 1 THEN "entry" ELSE "exit"
<1>1. Coord[k][p] \in Int /\ Coord[k][q] \in Int
  BY Positions
<1>. QED
  BY <1>1 DEF Side, Toward

LEMMA MaxOfTwo ==
  ASSUME NEW a \in Nat, NEW b \in Nat
  PROVE  Max({a, b}) \in Nat /\ a <= Max({a, b}) /\ b <= Max({a, b})
<1>1. \E x \in {a, b} : \A y \in {a, b} : x >= y
  BY SMT
<1>. QED
  BY <1>1 DEF Max

LEMMA CappedTyped ==
  ASSUME NEW n \in Nat, NEW bound \in Nat
  PROVE  /\ Capped(n, bound) \in Nat /\ Capped(n, bound) <= bound
         /\ Capped(n, bound) <= n
         /\ n <= bound => Capped(n, bound) = n
BY DEF Capped

LEMMA CappedMonotone ==
  ASSUME NEW m \in Nat, NEW n \in Nat, NEW bound \in Nat, m <= n
  PROVE  Capped(m, bound) <= Capped(n, bound)
BY DEF Capped

-----------------------------------------------------------------------------
(* One frame of one track: the line *)

\* The cooldowns of a line that nobody crosses in this frame.
Older(since, step) == [d \in Directions |-> Capped(since[d] + step, Cooldown)]

LEMMA OlderTyped ==
  ASSUME NEW a \in Since, NEW step \in 1..MaxStep
  PROVE  Older(a, step) \in Since
<1>1. ASSUME NEW d \in Directions PROVE Capped(a[d] + step, Cooldown) \in Nat
  BY TuningTyped, CappedTyped DEF Since
<1>. QED
  BY <1>1 DEF Older, Since

LEMMA OlderMonotone ==
  ASSUME NEW a \in Since, NEW b \in Since, NEW step \in 1..MaxStep,
         \A d \in Directions : a[d] <= b[d]
  PROVE  \A d \in Directions : Older(a, step)[d] <= Older(b, step)[d]
<1> SUFFICES ASSUME NEW d \in Directions
             PROVE  Capped(a[d] + step, Cooldown) <= Capped(b[d] + step, Cooldown)
  BY DEF Older
<1>1. a[d] + step \in Nat /\ b[d] + step \in Nat /\ a[d] + step <= b[d] + step
  BY TuningTyped DEF Since
<1>. QED
  BY <1>1, TuningTyped, CappedMonotone

\* Out of sight only time passes.
LEMMA UnseenFollows ==
  ASSUME NEW k \in LineNo, NEW s, NEW w, LineFollows(s, w, k), NEW step \in 1..MaxStep, NEW fired
  PROVE  /\ LineFollows(LineStep(s, k, Unseen, step, fired), StayStep(w, k, Unseen, step, fired), k)
         /\ LineStep(s, k, Unseen, step, fired).last = s.last
<1>. DEFINE s2 == LineStep(s, k, Unseen, step, fired)
            w2 == StayStep(w, k, Unseen, step, fired)
<1>1. s \in Line /\ w \in Stay
  BY DEF LineFollows
<1>2. s2 = [s EXCEPT !.since = Older(s.since, step)]
  BY <1>1 DEF LineStep, Older
<1>3. w2 = [w EXCEPT !.since = Older(w.since, step)]
  BY <1>1 DEF StayStep, Older
<1>4. /\ Older(s.since, step) \in Since /\ Older(w.since, step) \in Since
      /\ \A d \in Directions : Older(w.since, step)[d] <= Older(s.since, step)[d]
  BY <1>1, OlderTyped, OlderMonotone DEF LineFollows, Line, Stay
<1>. HIDE DEF s2, w2
<1>6. s2 \in Line /\ w2 \in Stay
  BY <1>1, <1>2, <1>3, <1>4 DEF Line, Stay
<1>7. /\ s2.last = s.last /\ s2.side = s.side /\ s2.frames = s.frames /\ s2.armed = s.armed
      /\ w2.side = w.side /\ w2.stay = w.stay /\ w2.longest = w.longest
      /\ s2.since = Older(s.since, step) /\ w2.since = Older(w.since, step)
  BY <1>1, <1>2, <1>3 DEF Line, Stay
<1>8. LineFollows(s2, w2, k)
  BY <1>4, <1>6, <1>7 DEF LineFollows
<1>. QED
  BY <1>7, <1>8 DEF s2, w2

\* The stay of a person that is seen.
LEMMA SeenStay ==
  ASSUME NEW k \in LineNo, NEW w \in Stay, NEW p \in Position, NEW step \in 1..MaxStep,
         NEW fired \in BOOLEAN
  PROVE  LET w2   == StayStep(w, k, p, step, fired)
             stay == IF Side(k, p) = 0 THEN w.stay
                     ELSE IF Side(k, p) = w.side THEN Capped(w.stay + 1, Debounce)
                     ELSE Capped(1, Debounce)
         IN  /\ w2 \in Stay
             /\ w2.side = IF Side(k, p) = 0 THEN w.side ELSE Side(k, p)
             /\ w2.stay = stay
             /\ fired => w2.longest = stay
             /\ ~fired => w.longest <= w2.longest /\ stay <= w2.longest
             /\ \A d \in Directions :
                  \/ w2.since[d] = 0
                  \/ /\ w2.since[d] = Older(w.since, step)[d]
                     /\ ~ (/\ Side(k, p) # 0 /\ w.side # 0 /\ Side(k, p) # w.side
                           /\ d = (IF Side(k, p) = 1 THEN "entry" ELSE "exit"))
<1>. DEFINE stay == IF Side(k, p) = 0 THEN w.stay
                    ELSE IF Side(k, p) = w.side THEN Capped(w.stay + 1, Debounce)
                    ELSE Capped(1, Debounce)
            turned == Side(k, p) # 0 /\ w.side # 0 /\ Side(k, p) # w.side
            aged == [d \in Directions |->
                       IF turned /\ d = (IF Side(k, p) = 1 THEN "entry" ELSE "exit") THEN 0
                       ELSE Capped(w.since[d] + step, Cooldown)]
            longest == IF fired THEN stay ELSE Max({w.longest, stay})
            w2 == StayStep(w, k, p, step, fired)
<1>0. /\ w.side \in Sides /\ w.stay \in Nat
      /\ w.longest \in Nat /\ w.since \in Since
  BY DEF Stay
<1>1. p # Unseen
  BY Positions
<1>2. w2 = [side |-> IF Side(k, p) = 0 THEN w.side ELSE Side(k, p), stay |-> stay,
            longest |-> longest, since |-> aged]
  BY <1>1 DEF StayStep
<1>3. stay \in Nat
  <2>1. Capped(w.stay + 1, Debounce) \in Nat /\ Capped(1, Debounce) \in Nat
    <3>1. w.stay + 1 \in Nat /\ 1 \in Nat /\ Debounce \in Nat
      BY <1>0, TuningTyped
    <3>. QED
      BY <3>1, CappedTyped
  <2>. QED
    BY <1>0, <2>1
<1>4. aged \in Since
  <2>1. ASSUME NEW d \in Directions PROVE Capped(w.since[d] + step, Cooldown) \in Nat
    <3>1. w.since[d] + step \in Nat
      BY <1>0, TuningTyped DEF Since
    <3>. QED
      BY <3>1, TuningTyped, CappedTyped
  <2>. QED
    BY <2>1 DEF Since
<1>5. /\ longest \in Nat
      /\ fired => longest = stay
      /\ ~fired => w.longest <= longest /\ stay <= longest
  <2>. HIDE DEF stay
  <2>. QED
    BY <1>0, <1>3, MaxOfTwo
<1>6. (IF Side(k, p) = 0 THEN w.side ELSE Side(k, p)) \in Sides
  BY <1>0, <1>1, SideTyped
<1>7. ASSUME NEW d \in Directions
      PROVE  \/ aged[d] = 0
             \/ /\ aged[d] = Older(w.since, step)[d]
                /\ ~ (turned /\ d = (IF Side(k, p) = 1 THEN "entry" ELSE "exit"))
  BY DEF Older
<1>. DEFINE side == IF Side(k, p) = 0 THEN w.side ELSE Side(k, p)
<1>. HIDE DEF stay, aged, longest, w2, side
<1>8. /\ w2 = [side |-> side, stay |-> stay, longest |-> longest, since |-> aged]
      /\ side \in Sides
  BY <1>1, <1>2, <1>6 DEF side
<1>9. /\ w2.stay = stay /\ w2.longest = longest /\ w2.since = aged
      /\ w2.side = side
  BY <1>8
<1>10. w2 \in Stay
  <2>1. /\ side \in Sides /\ stay \in Nat /\ longest \in Nat
        /\ aged \in Since
    BY <1>3, <1>4, <1>5, <1>8
  <2>. QED
    BY <2>1, <1>8 DEF Stay
<1>11. ASSUME NEW d \in Directions
       PROVE  \/ w2.since[d] = 0
              \/ /\ w2.since[d] = Older(w.since, step)[d]
                 /\ ~ (turned /\ d = (IF Side(k, p) = 1 THEN "entry" ELSE "exit"))
  <2>1. w2.since[d] = aged[d]
    BY <1>9
  <2>. QED
    BY <2>1, <1>7
<1>12. /\ fired => w2.longest = stay
       /\ ~fired => w.longest <= w2.longest /\ stay <= w2.longest
  <2>1. w2.longest = longest
    BY <1>9
  <2>. QED
    BY <1>5, <2>1
<1>. QED
  BY <1>9, <1>10, <1>11, <1>12 DEF stay, w2, side

\* The move to p turns: it leaves one side of line k for the other while the
\* line is armed.
Turning(r, k, p) ==
  /\ r.last # Nowhere /\ r.armed
  /\ Side(k, p) # 0 /\ Side(k, r.last) # 0 /\ Side(k, p) # Side(k, r.last)
  /\ Toward(k, r.last, p) = IF Side(k, p) = 1 THEN "entry" ELSE "exit"
  /\ Toward(k, r.last, p) \in Directions

\* A crossing fires only over the line, from the side where the track is.
LEMMA FiringTurns ==
  ASSUME NEW k \in LineNo, NEW s, s[k] \in Line, NEW p \in Position, NEW step,
         Fires(s, k, p, step)
  PROVE  Turning(s[k], k, p)
<1>. DEFINE r == s[k]
<1>1. r.last # Nowhere /\ r.armed /\ Side(k, r.last) * Side(k, p) = -1
  BY DEF Fires, Crosses
<1>2. r.last \in Position
  BY <1>1 DEF Line
<1>3. Toward(k, r.last, p) \in Directions
  BY DEF Toward, Directions
<1>. HIDE DEF r
<1>4. Turning(r, k, p)
  BY <1>1, <1>2, <1>3, CrossingTurns DEF Turning
<1>. QED
  BY <1>4 DEF r

\* The line state of a track that is seen.
LEMMA SeenLine ==
  ASSUME NEW k \in LineNo, NEW s \in Line, NEW p \in Position, NEW step \in 1..MaxStep,
         NEW fired \in BOOLEAN, fired => Turning(s, k, p),
         s.last # Nowhere /\ Side(k, s.last) # 0 => s.side = Side(k, s.last)
  PROVE  LET s2    == LineStep(s, k, p, step, fired)
             stay  == IF Side(k, p) = 0 THEN s.frames
                      ELSE IF Side(k, p) = s.side THEN Capped(s.frames + 1, Debounce)
                      ELSE Capped(1, Debounce)
         IN  s2 = [last |-> p, side |-> IF Side(k, p) = 0 THEN s.side ELSE Side(k, p), frames |-> stay,
                   armed |-> (s.armed /\ ~fired) \/ (Side(k, p) # 0 /\ stay >= Debounce),
                   since |-> IF fired THEN [Older(s.since, step) EXCEPT ![Toward(k, s.last, p)] = 0]
                             ELSE Older(s.since, step)]
<1>. DEFINE aged == [s EXCEPT !.since = Older(s.since, step)]
            after == IF fired THEN Fired(aged, Toward(k, s.last, p)) ELSE aged
            since == IF fired THEN [Older(s.since, step) EXCEPT ![Toward(k, s.last, p)] = 0]
                     ELSE Older(s.since, step)
<1>0. /\ s = [last |-> s.last, side |-> s.side, frames |-> s.frames, armed |-> s.armed,
              since |-> s.since]
      /\ s.side \in Sides /\ s.frames \in Nat /\ s.armed \in BOOLEAN
  BY DEF Line
<1>1. p # Unseen
  BY Positions
<1>2. LineStep(s, k, p, step, fired) = [Debounced(after, Side(k, p)) EXCEPT !.last = p]
  BY <1>1 DEF LineStep, Older
<1>3. /\ after = [last |-> s.last, side |-> s.side, frames |-> IF fired THEN 0 ELSE s.frames,
                  armed |-> s.armed /\ ~fired, since |-> since]
  <2>1. aged = [last |-> s.last, side |-> s.side, frames |-> s.frames, armed |-> s.armed,
                since |-> Older(s.since, step)]
    BY <1>0
  <2>2. CASE fired
    BY <2>1, <2>2 DEF Fired
  <2>3. CASE ~fired
    BY <1>0, <2>1, <2>3
  <2>. QED
    BY <2>2, <2>3
<1>4. fired => Side(k, p) # 0 /\ Side(k, p) # s.side
  BY DEF Turning
<1>. HIDE DEF since, after
<1>5. CASE Side(k, p) = 0
  BY <1>0, <1>2, <1>3, <1>4, <1>5 DEF Debounced, since
<1>6. CASE Side(k, p) # 0 /\ Side(k, p) = s.side
  BY <1>0, <1>2, <1>3, <1>4, <1>6 DEF Debounced, since
<1>7. CASE Side(k, p) # 0 /\ Side(k, p) # s.side
  BY <1>0, <1>2, <1>3, <1>4, <1>7 DEF Debounced, since
<1>. QED
  BY <1>5, <1>6, <1>7

\* In sight the line state keeps following the walk.
LEMMA SeenFollows ==
  ASSUME NEW k \in LineNo, NEW s, NEW w, LineFollows(s, w, k), NEW p \in Position,
         NEW step \in 1..MaxStep, NEW fired \in BOOLEAN, fired => Turning(s, k, p)
  PROVE  /\ LineFollows(LineStep(s, k, p, step, fired), StayStep(w, k, p, step, fired), k)
         /\ LineStep(s, k, p, step, fired).last = p
<1>. DEFINE s2    == LineStep(s, k, p, step, fired)
            w2    == StayStep(w, k, p, step, fired)
            stay  == IF Side(k, p) = 0 THEN w.stay
                     ELSE IF Side(k, p) = w.side THEN Capped(w.stay + 1, Debounce)
                     ELSE Capped(1, Debounce)
            side  == IF Side(k, p) = 0 THEN w.side ELSE Side(k, p)
<1>1. /\ s \in Line /\ w \in Stay /\ s.side = w.side /\ s.frames = w.stay
      /\ w.stay <= w.longest /\ s.armed \in BOOLEAN
      /\ w.stay \in Nat /\ w.longest \in Nat /\ w.side \in Sides
      /\ w.since \in Since /\ s.since \in Since
      /\ \A d \in Directions : w.since[d] <= s.since[d]
  BY DEF LineFollows, Line, Stay
<1>1a. /\ s.last # Nowhere /\ Side(k, s.last) # 0 => s.side = Side(k, s.last)
       /\ s.armed => w.longest >= Debounce
       /\ w.stay >= Debounce => s.armed
  BY DEF LineFollows
<1>2. Debounce \in Nat
  BY TuningTyped
<1>3. s2 = [last |-> p, side |-> side, frames |-> stay,
            armed |-> (s.armed /\ ~fired) \/ (Side(k, p) # 0 /\ stay >= Debounce),
            since |-> IF fired THEN [Older(s.since, step) EXCEPT ![Toward(k, s.last, p)] = 0]
                      ELSE Older(s.since, step)]
  BY <1>1, <1>1a, SeenLine
<1>3a. w \in Stay
  BY <1>1
<1>4. w2 \in Stay /\ w2.side = side /\ w2.stay = stay
  BY <1>3a, SeenStay
<1>4a. ASSUME NEW d \in Directions
       PROVE  \/ w2.since[d] = 0
              \/ /\ w2.since[d] = Older(w.since, step)[d]
                 /\ ~ (/\ Side(k, p) # 0 /\ w.side # 0 /\ Side(k, p) # w.side
                       /\ d = (IF Side(k, p) = 1 THEN "entry" ELSE "exit"))
  <2>. HIDE DEF w2
  <2>. QED
    BY <1>3a, SeenStay DEF w2
<1>5. /\ fired => w2.longest = stay
      /\ ~fired => w.longest <= w2.longest /\ stay <= w2.longest
  BY <1>3a, SeenStay
<1>6. /\ fired => /\ Side(k, p) # 0 /\ w.side # 0 /\ Side(k, p) # w.side
                  /\ Toward(k, s.last, p) = IF Side(k, p) = 1 THEN "entry" ELSE "exit"
                  /\ Toward(k, s.last, p) \in Directions
  BY <1>1, <1>1a DEF Turning
<1>7. Older(s.since, step) \in Since /\ Older(w.since, step) \in Since
  BY <1>1, OlderTyped
<1>8. \A d \in Directions : Older(w.since, step)[d] <= Older(s.since, step)[d]
  BY <1>1, OlderMonotone
<1>9. Side(k, p) \in Sides /\ side \in Sides
  BY <1>1, <1>2, SideTyped
<1>10. Side(k, p) # 0 => side = Side(k, p)
  OBVIOUS
<1>11. stay \in Nat /\ (Side(k, p) = 0 => stay = w.stay)
  <2>1. w.stay + 1 \in Nat /\ 1 \in Nat
    BY <1>1
  <2>. QED
    BY <1>1, <1>2, <2>1, CappedTyped
<1>. HIDE DEF s2, w2, stay, side
<1>12. s2.since \in Since /\ \A d \in Directions : w2.since[d] <= s2.since[d]
  <2>1. CASE fired
    <3>1. s2.since = [Older(s.since, step) EXCEPT ![Toward(k, s.last, p)] = 0]
      BY <1>3, <2>1
    <3>2. s2.since \in Since
      <4>1. ASSUME NEW f \in Since, NEW d PROVE [f EXCEPT ![d] = 0] \in Since
        BY DEF Since
      <4>. QED
        BY <1>7, <3>1, <4>1
    <3>3. ASSUME NEW d \in Directions PROVE w2.since[d] <= s2.since[d]
      <4>1. CASE d = Toward(k, s.last, p)
        <5>1. w2.since[d] = 0
          BY <1>4a, <1>6, <2>1, <4>1
        <5>. QED
          BY <1>7, <3>1, <4>1, <5>1 DEF Since
      <4>2. CASE d # Toward(k, s.last, p)
        <5>1. s2.since[d] = Older(s.since, step)[d] /\ Older(s.since, step)[d] \in Nat
          BY <1>7, <3>1, <4>2 DEF Since
        <5>. QED
          BY <1>4a, <1>8, <5>1
      <4>. QED
        BY <4>1, <4>2
    <3>. QED
      BY <3>2, <3>3
  <2>2. CASE ~fired
    <3>1. s2.since = Older(s.since, step)
      BY <1>3, <2>2
    <3>2. \A d \in Directions : Older(s.since, step)[d] \in Nat
      BY <1>7 DEF Since
    <3>. QED
      BY <1>4a, <1>7, <1>8, <3>1, <3>2
  <2>. QED
    BY <2>1, <2>2
<1>13. /\ s2.last = p /\ s2.side = side /\ s2.frames = stay
       /\ s2.armed = ((s.armed /\ ~fired) \/ (Side(k, p) # 0 /\ stay >= Debounce))
  BY <1>3
<1>14. s2 \in Line
  <2>1. /\ p \in Position \cup {Nowhere} /\ side \in Sides /\ stay \in Nat
        /\ ((s.armed /\ ~fired) \/ (Side(k, p) # 0 /\ stay >= Debounce)) \in BOOLEAN
    BY <1>1, <1>2, <1>9, <1>11
  <2>. DEFINE since == IF fired THEN [Older(s.since, step) EXCEPT ![Toward(k, s.last, p)] = 0]
                       ELSE Older(s.since, step)
  <2>2. since \in Since
    BY <1>3, <1>12
  <2>. HIDE DEF since
  <2>3. s2 = [last |-> p, side |-> side, frames |-> stay,
              armed |-> (s.armed /\ ~fired) \/ (Side(k, p) # 0 /\ stay >= Debounce),
              since |-> since]
    BY <1>3 DEF since
  <2>. QED
    BY <2>1, <2>2, <2>3 DEF Line
<1>15. stay <= w2.longest /\ w2.longest \in Nat
  BY <1>4, <1>5, <1>11 DEF Stay
<1>16. s2.armed => w2.longest >= Debounce
  <2>1. CASE s.armed /\ ~fired
    BY <1>1, <1>1a, <1>2, <1>5, <1>15, <2>1
  <2>2. CASE stay >= Debounce
    BY <1>2, <1>11, <1>15, <2>2
  <2>. QED
    BY <1>13, <2>1, <2>2
<1>17. stay >= Debounce => s2.armed
  <2>1. CASE Side(k, p) = 0
    BY <1>1a, <1>6, <1>11, <1>13, <2>1
  <2>2. CASE Side(k, p) # 0
    BY <1>13, <2>2
  <2>. QED
    BY <2>1, <2>2
<1>18. LineFollows(s2, w2, k)
  BY <1>4, <1>10, <1>12, <1>13, <1>14, <1>15, <1>16, <1>17 DEF LineFollows
<1>. QED
  BY <1>13, <1>18 DEF s2, w2

-----------------------------------------------------------------------------
(* One frame of one track: a zone *)

Visit == [open : BOOLEAN, missed : Nat, age : Nat, dwelt : BOOLEAN, since : Nat]

Record == [visits : Nat, open : Nat]

\* A visit is open while its track was inside when it was last seen and the grace
\* has not run out, and counts the frames without it.
VisitFollows(v, w, z) ==
  /\ v \in Visit
  /\ v.open <=> w.at \in Area[z] /\ w.away <= Grace
  /\ v.open => v.missed = w.away

\* The history has one open record for an open visit and no other.
RecordFollows(r, v) == r \in Record /\ r.open = IF v.open THEN 1 ELSE 0

\* Where a person was last seen, and for how many frames it has not been.
LEMMA WalkAway ==
  ASSUME NEW w \in Walk, NEW p \in Position \cup {Unseen}
  PROVE  LET w2 == WalkStep(w, p)
         IN  /\ w2 \in Walk
             /\ p # Unseen => w2.at = p /\ w2.away = 0
             /\ p = Unseen => w2.at = w.at /\ w2.away = Capped(w.away + 1, Grace + 1)
<1>1. CASE p # Unseen
  BY <1>1 DEF WalkStep, Walk
<1>2. CASE p = Unseen
  <2>1. Capped(w.away + 1, Grace + 1) \in Nat
    <3>1. w.away + 1 \in Nat /\ Grace + 1 \in Nat
      BY TuningTyped DEF Walk
    <3>. QED
      BY <3>1, CappedTyped
  <2>. QED
    BY <1>2, <2>1 DEF WalkStep, Walk
<1>. QED
  BY <1>1, <1>2

LEMMA AgedTyped ==
  ASSUME NEW v \in Visit, NEW step \in 1..MaxStep
  PROVE  /\ Aged(v, step) \in Visit
         /\ Aged(v, step).open = v.open /\ Aged(v, step).missed = v.missed
<1>1. /\ v.age + step \in Nat /\ v.since + step \in Nat /\ Threshold \in Nat /\ Interval \in Nat
  BY TuningTyped DEF Visit
<1>2. Capped(v.age + step, Threshold) \in Nat /\ Capped(v.since + step, Interval) \in Nat
  BY <1>1, CappedTyped
<1>. QED
  BY <1>2 DEF Aged, Visit

\* What a frame makes of a visit, in what its presence depends on.
LEMMA VisitStepIs ==
  ASSUME NEW v \in Visit, NEW t, NEW z \in Zone, NEW obs, NEW step \in 1..MaxStep,
         obs[t] \in Position \cup {Unseen}
  PROVE  LET v2 == VisitStep(v, t, z, obs, step)
         IN  /\ v2 \in Visit
             /\ obs[t] # Unseen => /\ v2.open <=> obs[t] \in Area[z]
                                   /\ v2.missed = 0
             /\ obs[t] = Unseen => /\ v2.open <=> v.open /\ v.missed + 1 <= Grace
                                   /\ v2.open => v2.missed = v.missed + 1
<1>. DEFINE v2 == VisitStep(v, t, z, obs, step)
<1>1. Unseen \notin Area[z] /\ Grace \in Nat
  BY GeometryAssumption, TuningTyped
<1>2. NoVisit \in Visit /\ ~NoVisit.open /\ NoVisit.missed = 0
  BY DEF NoVisit, Visit
<1>3. NewVisit \in Visit /\ NewVisit.open /\ NewVisit.missed = 0
  BY DEF NewVisit, NoVisit, Visit
<1>4. v.open \in BOOLEAN /\ v.missed \in Nat
  BY DEF Visit
<1>5. CASE Inside(t, z, obs)
  <2>. DEFINE u == SeenInside(v, step)
  <2>1. u \in Visit /\ u.open /\ u.missed = 0
    <3>1. CASE v.open
      BY <3>1, AgedTyped DEF SeenInside, Visit
    <3>2. CASE ~v.open
      BY <1>3, <3>2 DEF SeenInside
    <3>. QED
      BY <3>1, <3>2
  <2>2. v2 = IF DwellDue(u) THEN Dwelt(u) ELSE u
    <3>1. obs[t] # Unseen
      BY <1>1, <1>5 DEF Inside
    <3>. QED
      BY <1>5, <3>1 DEF VisitStep
  <2>. HIDE DEF u, v2
  <2>3. v2 \in Visit /\ v2.open /\ v2.missed = 0
    BY <2>1, <2>2 DEF Dwelt, Visit
  <2>4. obs[t] # Unseen /\ obs[t] \in Area[z]
    BY <1>1, <1>5 DEF Inside
  <2>. QED
    BY <2>3, <2>4 DEF v2
<1>6. CASE ~Inside(t, z, obs) /\ obs[t] = Unseen /\ v.open
  <2>1. v2 = IF Expires(v) THEN NoVisit ELSE [Aged(v, step) EXCEPT !.missed = @ + 1]
    BY <1>6 DEF VisitStep
  <2>. HIDE DEF v2
  <2>2. CASE Expires(v)
    BY <1>1, <1>2, <1>4, <1>6, <2>1, <2>2 DEF Expires, v2
  <2>3. CASE ~Expires(v)
    <3>1. v2 = [Aged(v, step) EXCEPT !.missed = @ + 1]
      BY <2>1, <2>3
    <3>2. v2 \in Visit /\ v2.open /\ v2.missed = v.missed + 1
      BY <1>4, <1>6, <3>1, AgedTyped DEF Visit
    <3>. QED
      BY <1>1, <1>4, <1>6, <2>3, <3>2 DEF Expires, v2
  <2>. QED
    BY <2>2, <2>3
<1>7. CASE ~Inside(t, z, obs) /\ ~(obs[t] = Unseen /\ v.open)
  <2>1. v2 = NoVisit
    BY <1>7 DEF VisitStep
  <2>. QED
    BY <1>2, <1>7, <2>1 DEF Inside
<1>. QED
  BY <1>5, <1>6, <1>7

LEMMA VisitStepFollows ==
  ASSUME NEW w \in Walk, NEW z \in Zone, NEW v, VisitFollows(v, w, z), NEW t, NEW obs,
         NEW step \in 1..MaxStep, obs[t] \in Position \cup {Unseen}
  PROVE  VisitFollows(VisitStep(v, t, z, obs, step), WalkStep(w, obs[t]), z)
<1>. DEFINE v2 == VisitStep(v, t, z, obs, step)
            w2 == WalkStep(w, obs[t])
<1>1. /\ v \in Visit /\ v.missed \in Nat
      /\ v.open <=> w.at \in Area[z] /\ w.away <= Grace
      /\ v.open => v.missed = w.away
      /\ w.away \in Nat /\ Grace \in Nat
  BY TuningTyped DEF VisitFollows, Visit, Walk
<1>2. /\ v2 \in Visit
      /\ obs[t] # Unseen => /\ v2.open <=> obs[t] \in Area[z]
                            /\ v2.missed = 0
      /\ obs[t] = Unseen => /\ v2.open <=> v.open /\ v.missed + 1 <= Grace
                            /\ v2.open => v2.missed = v.missed + 1
  BY <1>1, VisitStepIs
<1>3. /\ obs[t] # Unseen => w2.at = obs[t] /\ w2.away = 0
      /\ obs[t] = Unseen => w2.at = w.at /\ w2.away = Capped(w.away + 1, Grace + 1)
  BY WalkAway
<1>. HIDE DEF v2, w2
<1> SUFFICES VisitFollows(v2, w2, z)
  BY DEF v2, w2
<1>4. CASE obs[t] # Unseen
  BY <1>1, <1>2, <1>3, <1>4 DEF VisitFollows
<1>5. CASE obs[t] = Unseen
  <2>1. w2.at = w.at /\ w2.away = IF w.away < Grace THEN w.away + 1 ELSE Grace + 1
    BY <1>1, <1>3, <1>5 DEF Capped
  <2>2. /\ v2.open <=> v.open /\ v.missed + 1 <= Grace
        /\ v2.open => v2.missed = v.missed + 1
    BY <1>2, <1>5
  <2>3. CASE v.open /\ w.away < Grace
    BY <1>1, <1>2, <2>1, <2>2, <2>3 DEF VisitFollows
  <2>4. CASE ~(v.open /\ w.away < Grace)
    <3>1. ~v2.open
      BY <1>1, <2>2, <2>4
    <3>2. ~(w2.at \in Area[z] /\ w2.away <= Grace)
      BY <1>1, <2>1, <2>4
    <3>. QED
      BY <1>2, <3>1, <3>2 DEF VisitFollows
  <2>. QED
    BY <2>3, <2>4
<1>. QED
  BY <1>4, <1>5

LEMMA RecordStepFollows ==
  ASSUME NEW r, NEW v \in Visit, NEW v2 \in Visit, RecordFollows(r, v)
  PROVE  RecordFollows(RecordStep(r, v, v2), v2)
<1>1. r \in Record /\ r.visits \in Nat /\ r.open = IF v.open THEN 1 ELSE 0
  BY DEF RecordFollows, Record
<1>2. v.open \in BOOLEAN /\ v2.open \in BOOLEAN
  BY DEF Visit
<1>3. CASE ~v.open /\ v2.open
  <2>1. RecordStep(r, v, v2) = [visits |-> r.visits + 1, open |-> r.open + 1]
    BY <1>3 DEF RecordStep
  <2>. QED
    BY <1>1, <1>3, <2>1 DEF RecordFollows, Record
<1>4. CASE v.open /\ ~v2.open
  <2>1. RecordStep(r, v, v2) = [r EXCEPT !.open = @ - 1]
    BY <1>1, <1>4 DEF RecordStep
  <2>. QED
    BY <1>1, <1>4, <2>1 DEF RecordFollows, Record
<1>5. CASE v.open = v2.open
  <2>1. RecordStep(r, v, v2) = r
    BY <1>2, <1>5 DEF RecordStep
  <2>. QED
    BY <1>1, <1>5, <2>1 DEF RecordFollows
<1>. QED
  BY <1>2, <1>3, <1>4, <1>5

-----------------------------------------------------------------------------
(* One frame of one track: its life *)

\* A lost track has been lost for no longer than the frames without it can take,
\* and one that has ended has been away for more than the grace.
TrackFollows(h, w) ==
  /\ h \in [status : {"new", "active", "lost", "ended"}, lostFor : Nat]
  /\ h.status = "new" => w.at = Nowhere
  /\ h.status = "active" => w.away = 0
  /\ h.status = "lost" /\ w.away <= Grace =>
       /\ w.away >= 1
       /\ h.lostFor <= (w.away - 1) * MaxStep
  /\ h.status = "ended" /\ Grace * MaxStep <= TrackTimeout => w.away > Grace

\* Another frame without the track takes at most MaxStep.
LEMMA OneMoreStep ==
  ASSUME NEW n \in Nat, n >= 1, NEW m \in Nat, NEW step \in 1..m, NEW age \in Nat,
         age <= (n - 1) * m
  PROVE  age + step <= n * m
<1>1. n * m = (n - 1) * m + m
  BY SMT
<1>2. (n - 1) * m \in Nat /\ n * m \in Nat
  <2>1. n - 1 \in Nat
    OBVIOUS
  <2>. QED
    BY <2>1, SMT
<1>. QED
  BY <1>1, <1>2

LEMMA TimesMonotone ==
  ASSUME NEW a \in Nat, NEW b \in Nat, NEW m \in Nat, a <= b
  PROVE  a * m <= b * m
<1>1. PICK k \in Nat : b = a + k
  <2>1. b - a \in Nat /\ b = a + (b - a)
    OBVIOUS
  <2>. QED
    BY <2>1
<1>2. b * m = a * m + k * m
  BY <1>1, SMT
<1>3. a * m \in Nat /\ k * m \in Nat
  BY SMT
<1>. QED
  BY <1>2, <1>3

LEMMA TrackStepFollows ==
  ASSUME NEW h, NEW w \in Walk, TrackFollows(h, w), NEW t, NEW obs,
         NEW step \in 1..MaxStep, obs[t] \in Position \cup {Unseen}
  PROVE  TrackFollows(TrackStep(h, t, obs, step), WalkStep(w, obs[t]))
<1>. DEFINE h2 == TrackStep(h, t, obs, step)
            w2 == WalkStep(w, obs[t])
<1>1. /\ w.away \in Nat /\ Grace \in Nat /\ MaxStep \in Nat /\ TrackTimeout \in Nat /\ step \in Nat
      /\ h.status \in {"new", "active", "lost", "ended"} /\ h.lostFor \in Nat
  BY TuningTyped DEF Walk, TrackFollows
<1>2. /\ obs[t] # Unseen => w2.at = obs[t] /\ w2.away = 0
      /\ obs[t] = Unseen => w2.at = w.at /\ w2.away = Capped(w.away + 1, Grace + 1)
  <2>1. w \in Walk /\ obs[t] \in Position \cup {Unseen}
    OBVIOUS
  <2>. QED
    BY ONLY <2>1, WalkAway
<1>3. ASSUME obs[t] = Unseen
      PROVE  w2.at = w.at /\ w2.away = IF w.away < Grace THEN w.away + 1 ELSE Grace + 1
  BY <1>1, <1>2, <1>3 DEF Capped
<1>. HIDE DEF w2
<1> SUFFICES TrackFollows(h2, w2)
  BY DEF w2
<1>4. CASE obs[t] # Unseen
  <2>1. h2 = [status |-> "active", lostFor |-> 0]
    BY <1>4 DEF TrackStep
  <2>. HIDE DEF h2
  <2>. QED
    BY <1>2, <1>4, <2>1 DEF TrackFollows
<1>5. CASE obs[t] = Unseen /\ h.status = "active"
  <2>1. h2 = [status |-> "lost", lostFor |-> 0]
    BY <1>5 DEF TrackStep
  <2>. HIDE DEF h2
  <2>2. w.away = 0
    BY <1>5 DEF TrackFollows
  <2>3. w2.away = 1
    BY <1>1, <1>3, <1>5, <2>2
  <2>4. (w2.away - 1) * MaxStep = 0
    BY <1>1, <2>3, SMT
  <2>. QED
    BY <2>1, <2>3, <2>4 DEF TrackFollows
<1>6. CASE obs[t] = Unseen /\ h.status = "lost" /\ h.lostFor + step > TrackTimeout
  <2>1. h2 = [status |-> "ended", lostFor |-> 0]
    BY <1>6 DEF TrackStep
  <2>. HIDE DEF h2
  <2>2. Grace * MaxStep <= TrackTimeout => w2.away > Grace
    <3>1. SUFFICES ASSUME Grace * MaxStep <= TrackTimeout, w.away < Grace
                   PROVE  FALSE
      BY <1>1, <1>3, <1>6
    <3>2. w.away >= 1 /\ h.lostFor <= (w.away - 1) * MaxStep
      BY <1>1, <1>6, <3>1 DEF TrackFollows
    <3>3. h.lostFor + step <= w.away * MaxStep
      BY <1>1, <3>2, OneMoreStep
    <3>4. w.away * MaxStep <= Grace * MaxStep
      BY <1>1, <3>1, TimesMonotone
    <3>5. w.away * MaxStep \in Nat /\ Grace * MaxStep \in Nat
      BY <1>1, SMT
    <3>. QED
      BY <1>1, <1>6, <3>1, <3>3, <3>4, <3>5
  <2>. QED
    BY <2>1, <2>2 DEF TrackFollows
<1>7. CASE obs[t] = Unseen /\ h.status = "lost" /\ ~(h.lostFor + step > TrackTimeout)
  <2>1. h2 = [h EXCEPT !.lostFor = @ + step]
    BY <1>7 DEF TrackStep
  <2>2. /\ h2.status = "lost" /\ h2.lostFor = h.lostFor + step
        /\ h2 \in [status : {"new", "active", "lost", "ended"}, lostFor : Nat]
    BY <1>1, <1>7, <2>1 DEF TrackFollows
  <2>. HIDE DEF h2
  <2>3. ASSUME w2.away <= Grace
        PROVE  w2.away >= 1 /\ h.lostFor + step <= (w2.away - 1) * MaxStep
    <3>1. w.away < Grace /\ w2.away = w.away + 1
      BY <1>1, <1>3, <1>7, <2>3
    <3>2. w.away >= 1 /\ h.lostFor <= (w.away - 1) * MaxStep
      BY <1>1, <1>7, <3>1 DEF TrackFollows
    <3>3. h.lostFor + step <= w.away * MaxStep
      BY <1>1, <3>2, OneMoreStep
    <3>4. w2.away - 1 = w.away
      BY <1>1, <3>1
    <3>. QED
      BY <1>1, <3>1, <3>3, <3>4
  <2>. QED
    BY <1>1, <2>2, <2>3 DEF TrackFollows
<1>8. CASE obs[t] = Unseen /\ h.status \in {"new", "ended"}
  <2>1. h2 = h
    BY <1>8 DEF TrackStep
  <2>. HIDE DEF h2
  <2>2. CASE h.status = "new"
    BY <1>1, <1>3, <1>8, <2>1, <2>2 DEF TrackFollows
  <2>3. CASE h.status = "ended"
    BY <1>1, <1>3, <1>8, <2>1, <2>3 DEF TrackFollows
  <2>. QED
    BY <1>8, <2>2, <2>3
<1>. QED
  BY <1>1, <1>4, <1>5, <1>6, <1>7, <1>8

-----------------------------------------------------------------------------
(* What fires in a frame *)

\* Zones and queues report under names of their own.
LEMMA OthersAreNotCrossings ==
  ASSUME NEW obs, NEW step, NEW sampled, NEW e, e \in ZoneEvents(obs, step) \cup QueueEvents(obs, sampled)
  PROVE  e.type \notin Directions
<1>1. CASE e \in ZoneEvents(obs, step)
  <2>1. e.type \in {"zone_enter", "zone_exit", "zone_dwell"}
    BY <1>1 DEF ZoneEvents, Event
  <2>. QED
    BY <2>1 DEF Directions
<1>2. CASE e \in QueueEvents(obs, sampled)
  <2>1. e.type \in {"queue_join", "queue_leave", "queue_depth"}
    BY <1>2 DEF QueueEvents, Event
  <2>. QED
    BY <2>1 DEF Directions
<1>. QED
  BY <1>1, <1>2

\* A track fires at a line when the conditions of the line hold, and in the
\* direction of its move.
LEMMA FiredNowIs ==
  ASSUME NEW t \in Track, NEW k \in LineNo, NEW obs, NEW step, NEW sampled,
         out' = LineEvents(obs, step) \cup ZoneEvents(obs, step) \cup QueueEvents(obs, sampled)
  PROVE  FiredNow(t, k) = IF Firing(t, k, obs, step)
                          THEN {Toward(k, line[t][k].last, obs[t])} ELSE {}
<1>. DEFINE to(j, u) == Toward(j, line[u][j].last, obs[u])
            size(j) == LET all == Crossings(j, obs, step)
                       IN  IF Cardinality({c.direction : c \in all}) = 1
                           THEN Cardinality(all) ELSE 1
<1>1. ASSUME NEW j \in LineNo, NEW u \in Track PROVE to(j, u) \in Directions
  BY DEF Toward, Directions
<1>. DEFINE rows(j) == {Event(c.direction, c.track, j, size(j)) : c \in Crossings(j, obs, step)}
<1>2. ASSUME NEW e PROVE e \in LineEvents(obs, step) <=> \E j \in LineNo : e \in rows(j)
  BY Zenon DEF LineEvents
<1>. HIDE DEF size
<1>3. ASSUME NEW e \in out', e.type \in Directions, e.track = t, e.where = k
      PROVE  Firing(t, k, obs, step) /\ e.type = to(k, t)
  <2>1. e \in LineEvents(obs, step)
    BY <1>3, OthersAreNotCrossings
  <2>1a. PICK j \in LineNo : e \in rows(j)
    <3>. HIDE DEF rows
    <3>. QED
      BY <1>2, <2>1
  <2>2. PICK c \in Crossings(j, obs, step) : e = Event(c.direction, c.track, j, size(j))
    BY <2>1a
  <2>3. PICK u \in Track : Firing(u, j, obs, step) /\ c = [track |-> u, direction |-> to(j, u)]
    BY <2>2 DEF Crossings
  <2>4. j = k /\ u = t /\ e.type = to(j, u)
    BY <1>3, <2>2, <2>3 DEF Event
  <2>. QED
    BY <2>3, <2>4
<1>4. ASSUME Firing(t, k, obs, step)
      PROVE  \E e \in out' : e.track = t /\ e.type = to(k, t) /\ e.where = k
  <2>. DEFINE c == [track |-> t, direction |-> to(k, t)]
  <2>1. c \in Crossings(k, obs, step)
    BY <1>4 DEF Crossings
  <2>2. c.track = t /\ c.direction = to(k, t)
    OBVIOUS
  <2>. HIDE DEF c, to
  <2>3. Event(c.direction, c.track, k, size(k)) \in LineEvents(obs, step)
    <3>1. Event(c.direction, c.track, k, size(k)) \in rows(k)
      BY <2>1
    <3>. HIDE DEF rows
    <3>. QED
      BY <1>2, <3>1
  <2>. QED
    BY <2>2, <2>3 DEF Event
<1>5. ASSUME NEW d \in Directions
      PROVE  d \in FiredNow(t, k) <=> Firing(t, k, obs, step) /\ d = to(k, t)
  <2>. HIDE DEF to
  <2>1. d \in FiredNow(t, k) <=> \E e \in out' : e.track = t /\ e.type = d /\ e.where = k
    BY DEF FiredNow
  <2>. QED
    BY <1>3, <1>4, <1>5, <2>1
<1>6. FiredNow(t, k) \subseteq Directions
  BY DEF FiredNow
<1>7. FiredNow(t, k) = IF Firing(t, k, obs, step) THEN {to(k, t)} ELSE {}
  <2>. HIDE DEF to
  <2>. QED
    BY <1>1, <1>5, <1>6
<1>. QED
  BY <1>7

-----------------------------------------------------------------------------
(* The inductive invariant *)

\* All lines of the layout have seen the track last where it was.
LineInv ==
  \A t \in Track :
    /\ walk[t] \in Walk
    /\ \A k \in LineNo : /\ line[t][k].last = walk[t].at
                          /\ LineFollows(line[t][k], stays[t][k], k)

VisitInv ==
  \A t \in Track, z \in Zone :
    /\ VisitFollows(visit[t][z], walk[t], z)
    /\ RecordFollows(record[t][z], visit[t][z])

TrackInv == \A t \in Track : TrackFollows(track[t], walk[t])

Inv == LineInv /\ VisitInv /\ TrackInv

LEMMA InitInv == Init => Inv
<1> SUFFICES ASSUME Init PROVE Inv
  OBVIOUS
<1>0. NewWalk \in Walk /\ NewWalk.away = 0 /\ NewWalk.at = Nowhere
  BY DEF NewWalk, Walk
<1>1. ASSUME NEW k \in LineNo
      PROVE  NewLine.last = Nowhere /\ LineFollows(NewLine, NewStay, k)
  <2>1. NewLine \in Line
    BY TuningTyped DEF NewLine, Line, Sides, Since
  <2>2. NewStay \in Stay
    BY TuningTyped DEF NewStay, Stay, Sides, Since
  <2>. QED
    BY <2>1, <2>2, TuningTyped DEF LineFollows, NewLine, NewStay
<1>2. ASSUME NEW z \in Zone
      PROVE  VisitFollows(NoVisit, NewWalk, z) /\ RecordFollows([visits |-> 0, open |-> 0], NoVisit)
  <2>1. NoVisit \in Visit /\ ~NoVisit.open
    BY DEF NoVisit, Visit
  <2>2. Nowhere \notin Area[z]
    BY Positions, GeometryAssumption
  <2>. QED
    BY <1>0, <2>1, <2>2 DEF VisitFollows, RecordFollows, Record
<1>3. TrackFollows([status |-> "new", lostFor |-> 0], NewWalk)
  BY <1>0 DEF TrackFollows
<1>. QED
  BY <1>0, <1>1, <1>2, <1>3 DEF Init, Inv, LineInv, VisitInv, TrackInv

\* What a frame does to one track.
FrameTrack(t, obs, step) ==
  /\ obs[t] \in Position \cup {Unseen}
  /\ \A k \in LineNo :
       /\ line'[t][k] = LineStep(line[t][k], k, obs[t], step, Firing(t, k, obs, step))
       /\ stays'[t][k] = StayStep(stays[t][k], k, obs[t], step, Firing(t, k, obs, step))
  /\ track'[t] = TrackStep(track[t], t, obs, step)
  /\ walk'[t] = WalkStep(walk[t], obs[t])
  /\ \A z \in Zone :
       /\ visit'[t][z] = VisitStep(visit[t][z], t, z, obs, step)
       /\ record'[t][z] = RecordStep(record[t][z], visit[t][z], visit'[t][z])

LEMMA FrameOf ==
  ASSUME Frame
  PROVE  \E obs \in Scene, step \in 1..MaxStep, sampled \in BOOLEAN :
           /\ out' = LineEvents(obs, step) \cup ZoneEvents(obs, step) \cup QueueEvents(obs, sampled)
           /\ \A t \in Track : FrameTrack(t, obs, step)
<1>1. PICK obs \in Scene, step \in 1..MaxStep :
        /\ line' = [t \in Track |-> [k \in LineNo |->
                      LineStep(line[t][k], k, obs[t], step, Firing(t, k, obs, step))]]
        /\ visit' = [t \in Track |-> [z \in Zone |-> VisitStep(visit[t][z], t, z, obs, step)]]
        /\ record' = [t \in Track |-> [z \in Zone |->
                        RecordStep(record[t][z], visit[t][z], visit'[t][z])]]
        /\ track' = [t \in Track |-> TrackStep(track[t], t, obs, step)]
        /\ out' = LineEvents(obs, step) \cup ZoneEvents(obs, step)
                  \cup QueueEvents(obs, depthAge + step >= DepthInterval)
        /\ walk' = [t \in Track |-> WalkStep(walk[t], obs[t])]
        /\ stays' = [t \in Track |-> [k \in LineNo |->
                       StayStep(stays[t][k], k, obs[t], step, Firing(t, k, obs, step))]]
  BY DEF Frame
<1>2. (depthAge + step >= DepthInterval) \in BOOLEAN
  OBVIOUS
<1>3. ASSUME NEW t \in Track PROVE FrameTrack(t, obs, step)
  <2>1. obs[t] \in Position \cup {Unseen}
    BY Positions
  <2>2. /\ track'[t] = TrackStep(track[t], t, obs, step)
        /\ walk'[t] = WalkStep(walk[t], obs[t])
    BY <1>1
  <2>3. ASSUME NEW k \in LineNo
        PROVE  /\ line'[t][k] = LineStep(line[t][k], k, obs[t], step, Firing(t, k, obs, step))
               /\ stays'[t][k] = StayStep(stays[t][k], k, obs[t], step, Firing(t, k, obs, step))
    BY <1>1
  <2>4. ASSUME NEW z \in Zone
        PROVE  /\ visit'[t][z] = VisitStep(visit[t][z], t, z, obs, step)
               /\ record'[t][z] = RecordStep(record[t][z], visit[t][z], visit'[t][z])
    BY <1>1
  <2>. QED
    BY <2>1, <2>2, <2>3, <2>4 DEF FrameTrack
<1>. QED
  BY <1>1, <1>2, <1>3

\* A line that fires is turned over, whichever lines come before it.
LEMMA FiringIs ==
  ASSUME NEW t \in Track, NEW k \in LineNo, NEW obs, NEW step, line[t][k] \in Line,
         obs[t] \in Position \cup {Unseen}
  PROVE  /\ Firing(t, k, obs, step) \in BOOLEAN
         /\ Firing(t, k, obs, step) => obs[t] \in Position /\ Turning(line[t][k], k, obs[t])
<1>1. Firing(t, k, obs, step) <=> obs[t] # Unseen /\ Fires(line[t], k, obs[t], step)
  BY DEF Firing
<1>2. Firing(t, k, obs, step) \in BOOLEAN
  BY DEF Firing
<1>3. ASSUME Firing(t, k, obs, step) PROVE obs[t] \in Position /\ Turning(line[t][k], k, obs[t])
  <2>1. obs[t] \in Position /\ Fires(line[t], k, obs[t], step)
    BY <1>1, <1>3
  <2>. QED
    BY <2>1, FiringTurns
<1>. QED
  BY <1>2, <1>3

LEMMA NextInv == Inv /\ [Next]_vars => Inv'
<1> SUFFICES ASSUME Inv, [Next]_vars PROVE Inv'
  OBVIOUS
<1>1. CASE UNCHANGED vars
  BY <1>1 DEF vars, Inv, LineInv, VisitInv, TrackInv
<1>2. CASE Frame
  <2>1. PICK obs \in Scene, step \in 1..MaxStep, sampled \in BOOLEAN :
          \A t \in Track : FrameTrack(t, obs, step)
    BY <1>2, FrameOf
  <2>2. ASSUME NEW t \in Track
        PROVE  /\ walk'[t] \in Walk /\ TrackFollows(track'[t], walk'[t])
               /\ \A k \in LineNo : /\ line'[t][k].last = walk'[t].at
                                     /\ LineFollows(line'[t][k], stays'[t][k], k)
               /\ \A z \in Zone : /\ VisitFollows(visit'[t][z], walk'[t], z)
                                  /\ RecordFollows(record'[t][z], visit'[t][z])
    <3>1. /\ walk[t] \in Walk /\ TrackFollows(track[t], walk[t])
          /\ \A k \in LineNo : /\ line[t][k].last = walk[t].at
                                /\ LineFollows(line[t][k], stays[t][k], k)
          /\ \A z \in Zone : /\ VisitFollows(visit[t][z], walk[t], z)
                             /\ RecordFollows(record[t][z], visit[t][z])
                             /\ visit[t][z] \in Visit
      BY <2>2 DEF Inv, LineInv, VisitInv, TrackInv, VisitFollows
    <3>2. FrameTrack(t, obs, step)
      BY <2>1, <2>2
    <3>3. /\ walk'[t] = WalkStep(walk[t], obs[t]) /\ obs[t] \in Position \cup {Unseen}
          /\ track'[t] = TrackStep(track[t], t, obs, step)
      BY <3>2 DEF FrameTrack
    <3>3a. /\ walk'[t] \in Walk
           /\ obs[t] # Unseen => walk'[t].at = obs[t]
           /\ obs[t] = Unseen => walk'[t].at = walk[t].at
      BY <3>1, <3>3, WalkAway
    <3>4. ASSUME NEW k \in LineNo
          PROVE  line'[t][k].last = walk'[t].at /\ LineFollows(line'[t][k], stays'[t][k], k)
      <4>. DEFINE r == line[t][k]
                  w == stays[t][k]
                  fires == Firing(t, k, obs, step)
                  p == obs[t]
      <4>1. /\ line'[t][k] = LineStep(r, k, p, step, fires)
            /\ stays'[t][k] = StayStep(w, k, p, step, fires)
        BY <3>2, <3>4 DEF FrameTrack
      <4>2. LineFollows(r, w, k) /\ r.last = walk[t].at /\ r \in Line
        BY <3>1, <3>4 DEF LineFollows
      <4>3. fires \in BOOLEAN /\ (fires => p \in Position /\ Turning(r, k, p))
        BY <2>2, <3>3, <3>4, <4>2, FiringIs
      <4>. HIDE DEF r, w, fires
      <4>4. CASE p = Unseen
        <5>1. p = Unseen
          BY <4>4
        <5>. HIDE DEF p
        <5>2. /\ line'[t][k] = LineStep(r, k, Unseen, step, fires)
              /\ stays'[t][k] = StayStep(w, k, Unseen, step, fires)
          BY <4>1, <5>1
        <5>3. /\ LineFollows(LineStep(r, k, Unseen, step, fires), StayStep(w, k, Unseen, step, fires), k)
              /\ LineStep(r, k, Unseen, step, fires).last = r.last
          BY <3>4, <4>2, UnseenFollows
        <5>. QED
          BY <3>3a, <4>2, <5>1, <5>2, <5>3 DEF p
      <4>5. CASE p # Unseen
        <5>1. p \in Position /\ walk'[t].at = p
          BY <3>3, <3>3a, <4>5
        <5>. HIDE DEF p
        <5>2. /\ LineFollows(LineStep(r, k, p, step, fires), StayStep(w, k, p, step, fires), k)
              /\ LineStep(r, k, p, step, fires).last = p
          BY <3>4, <4>2, <4>3, <5>1, SeenFollows
        <5>. QED
          BY <4>1, <5>1, <5>2
      <4>. QED
        BY <4>4, <4>5
    <3>5. TrackFollows(track'[t], walk'[t])
      BY <2>2, <3>1, <3>3, TrackStepFollows
    <3>6. ASSUME NEW z \in Zone
          PROVE  VisitFollows(visit'[t][z], walk'[t], z) /\ RecordFollows(record'[t][z], visit'[t][z])
      <4>1. /\ visit'[t][z] = VisitStep(visit[t][z], t, z, obs, step)
            /\ record'[t][z] = RecordStep(record[t][z], visit[t][z], visit'[t][z])
        BY <3>2, <3>6 DEF FrameTrack
      <4>2. VisitFollows(visit'[t][z], walk'[t], z)
        BY <3>1, <3>3, <4>1, VisitStepFollows
      <4>3. visit'[t][z] \in Visit
        BY <4>2 DEF VisitFollows
      <4>. QED
        BY <3>1, <4>1, <4>2, <4>3, RecordStepFollows
    <3>. QED
      BY <3>3a, <3>4, <3>5, <3>6
  <2>. QED
    BY <2>2 DEF Inv, LineInv, VisitInv, TrackInv
<1>. QED
  BY <1>1, <1>2 DEF Next

-----------------------------------------------------------------------------
(* Theorems *)

LEMMA Invariance == Spec => []Inv
<1>. QED
  BY InitInv, NextInv, PTL DEF Spec

\* A zone visit is open exactly while its track, where last seen, was inside and
\* has been out of sight for no more than the grace; the history has one open
\* record for it and no other; and a track that has been ended has no visit
\* left if the timeout covers the grace (zones.py, track_state.py).
THEOREM PresenceTheorem == Spec => []VisitIsPresence
<1>1. Inv => VisitIsPresence
  <2> SUFFICES ASSUME Inv, NEW t \in Track, NEW z \in Zone
               PROVE  /\ visit[t][z].open <=> walk[t].at \in Area[z] /\ walk[t].away <= Grace
                      /\ record[t][z].open = IF visit[t][z].open THEN 1 ELSE 0
                      /\ Grace * MaxStep <= TrackTimeout =>
                           (track[t].status = "ended" => ~visit[t][z].open)
    BY DEF VisitIsPresence
  <2>1. /\ visit[t][z].open <=> walk[t].at \in Area[z] /\ walk[t].away <= Grace
        /\ record[t][z].open = IF visit[t][z].open THEN 1 ELSE 0
    BY DEF Inv, VisitInv, VisitFollows, RecordFollows
  <2>2. ASSUME Grace * MaxStep <= TrackTimeout, track[t].status = "ended"
        PROVE  walk[t].away > Grace
    BY <2>2 DEF Inv, TrackInv, TrackFollows
  <2>3. walk[t].away \in Nat /\ Grace \in Nat
    BY TuningTyped DEF Inv, LineInv, Walk
  <2>4. ASSUME walk[t].away > Grace PROVE ~visit[t][z].open
    BY <2>1, <2>3, <2>4
  <2>. QED
    BY <2>1, <2>2, <2>4
<1>. QED
  BY <1>1, Invariance, PTL

LEMMA JitterStep ==
  Inv /\ [Next]_vars =>
    [\A t \in Track, k \in LineNo :
       stays[t][k].longest < Debounce => FiredNow(t, k) = {}]_vars
<1> SUFFICES ASSUME Inv, Frame, NEW t \in Track, NEW k \in LineNo,
                    stays[t][k].longest < Debounce
             PROVE  FiredNow(t, k) = {}
  BY DEF Next
<1>1. PICK obs \in Scene, step \in 1..MaxStep, sampled \in BOOLEAN :
        out' = LineEvents(obs, step) \cup ZoneEvents(obs, step) \cup QueueEvents(obs, sampled)
  BY FrameOf
<1>2. LineFollows(line[t][k], stays[t][k], k)
  BY DEF Inv, LineInv
<1>3. stays[t][k].longest \in Nat /\ Debounce \in Nat
  BY <1>2, TuningTyped DEF LineFollows, Stay
<1>4. ~line[t][k].armed
  BY <1>2, <1>3 DEF LineFollows
<1>5. ~Firing(t, k, obs, step)
  BY <1>4 DEF Firing, Fires
<1>. QED
  BY <1>1, <1>5, FiredNowIs

\* Jitter on a line is one crossing: a track that has not stayed on one side of
\* it for the debounce time since it fired there last fires nothing
\* (entry_exit.py, _update_debounce and _record_fire), for any number of lines.
THEOREM JitterTheorem == Spec => JitterFiresOnce
<1>. QED
  BY Invariance, JitterStep, PTL DEF Spec, JitterFiresOnce

\* Whoever stays on one side of a line for the debounce time and then crosses it
\* in one stride that is long enough for this line and those before it has met
\* every condition of process_frame.
LEMMA DeliberateFires ==
  ASSUME NEW k \in LineNo, NEW s, NEW at, NEW w, LineFollows(s[k], w, k), s[k].last = at,
         \A j \in 1..k : s[j].last = at,
         NEW p, NEW step \in 1..MaxStep,
         at # Nowhere, Side(k, at) * Side(k, p) = -1,
         \A j \in 1..k : Stride(j, at, p) >= MinMove,
         w.stay >= Debounce, w.since[Toward(k, at, p)] >= Cooldown
  PROVE  Fires(s, k, p, step)
<1>1. s[k].armed
  BY DEF LineFollows
<1>2. Crosses(k, s[k].last, p)
  BY DEF Crosses
<1>3. FarEnough(s, k, p)
  BY DEF FarEnough, Stride
<1>4. CooldownOk(s[k], Toward(k, s[k].last, p), step)
  <2>. DEFINE d == Toward(k, at, p)
              r == s[k]
  <2>1. d \in Directions
    BY DEF Toward, Directions
  <2>2. w.since[d] <= r.since[d] /\ w.since[d] \in Nat /\ r.since[d] \in Nat
    <3>1. LineFollows(r, w, k)
      OBVIOUS
    <3>. HIDE DEF d, r
    <3>. QED
      BY <2>1, <3>1 DEF LineFollows, Line, Stay, Since
  <2>3. w.since[d] >= Cooldown /\ Cooldown \in Nat /\ step \in Nat
    BY TuningTyped
  <2>4. r.since[d] + step >= Cooldown
    <3>. HIDE DEF d, r
    <3>. QED
      BY <2>2, <2>3
  <2>. QED
    BY <2>4 DEF CooldownOk
<1>. QED
  BY <1>1, <1>2, <1>3, <1>4 DEF Fires

LEMMA DeliberateStep ==
  Inv /\ [Next]_vars =>
    [\A t \in Track, k \in LineNo :
       LET w == stays[t][k]
           from == walk[t].at
           to == walk'[t].at
       IN  /\ walk'[t].away = 0
           /\ from # Nowhere
           /\ Side(k, from) * Side(k, to) = -1
           /\ \A j \in 1..k : Stride(j, from, to) >= MinMove
           /\ w.stay >= Debounce
           /\ w.since[Toward(k, from, to)] >= Cooldown
           => FiredNow(t, k) = {Toward(k, from, to)}]_vars
<1>. DEFINE from(t) == walk[t].at
            to(t) == walk'[t].at
<1> SUFFICES ASSUME Inv, Frame, NEW t \in Track, NEW k \in LineNo,
                    walk'[t].away = 0, from(t) # Nowhere,
                    Side(k, from(t)) * Side(k, to(t)) = -1,
                    \A j \in 1..k : Stride(j, from(t), to(t)) >= MinMove,
                    stays[t][k].stay >= Debounce,
                    stays[t][k].since[Toward(k, from(t), to(t))] >= Cooldown
             PROVE  FiredNow(t, k) = {Toward(k, from(t), to(t))}
  BY DEF Next
<1>1. PICK obs \in Scene, step \in 1..MaxStep, sampled \in BOOLEAN :
        /\ out' = LineEvents(obs, step) \cup ZoneEvents(obs, step) \cup QueueEvents(obs, sampled)
        /\ FrameTrack(t, obs, step)
  BY FrameOf
<1>2. /\ walk[t] \in Walk /\ LineFollows(line[t][k], stays[t][k], k)
      /\ \A j \in LineNo : line[t][j].last = walk[t].at
  BY DEF Inv, LineInv
<1>3. obs[t] \in Position \cup {Unseen} /\ walk'[t] = WalkStep(walk[t], obs[t])
  BY <1>1 DEF FrameTrack
<1>4. /\ obs[t] # Unseen => walk'[t].at = obs[t]
      /\ obs[t] = Unseen => walk'[t].away = Capped(walk[t].away + 1, Grace + 1)
  BY <1>2, <1>3, WalkAway
<1>5. obs[t] # Unseen
  <2>1. walk[t].away \in Nat /\ Grace \in Nat
    BY <1>2, TuningTyped DEF Walk
  <2>2. Capped(walk[t].away + 1, Grace + 1) # 0
    BY <2>1 DEF Capped
  <2>. QED
    BY <1>4, <2>2
<1>6. to(t) = obs[t]
  BY <1>4, <1>5
<1>7. 1..k \subseteq LineNo
  BY Positions DEF LineNo
<1>8. Fires(line[t], k, obs[t], step)
  <2>1. \A j \in 1..k : line[t][j].last = from(t)
    BY <1>2, <1>7
  <2>2. line[t][k].last = from(t)
    BY <1>2
  <2>. HIDE DEF from
  <2>. QED
    BY <1>2, <1>6, <2>1, <2>2, DeliberateFires
<1>9. Firing(t, k, obs, step)
  BY <1>5, <1>8 DEF Firing
<1>10. FiredNow(t, k) = {Toward(k, line[t][k].last, obs[t])}
  BY <1>1, <1>9, FiredNowIs
<1>. QED
  BY <1>2, <1>6, <1>10

\* A deliberate crossing is not missed: a stay of the debounce time on one side
\* of a line, one stride over it that is long enough for it and for the lines
\* before it in the layout, and no real crossing of it in that direction within
\* the cooldown fire the event of that direction (entry_exit.py, process_frame),
\* for any number and any position of the lines.
THEOREM DeliberateTheorem == Spec => DeliberateCrossingFires
<1>. QED
  BY Invariance, DeliberateStep, PTL DEF Spec, DeliberateCrossingFires
================================================================================
