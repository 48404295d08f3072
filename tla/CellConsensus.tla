---------------------------- MODULE CellConsensus ----------------------------
(***************************************************************************)
(* Temporal consensus on one cell of a shelf: counters of consecutive      *)
(* frames, a short history, and the three questions the manager asks after *)
(* each frame (usecases/temporal_consensus.py).  A frame shows the cell    *)
(* empty, misplaced or ok; "unknown" is the state before the first frame.  *)
(***************************************************************************)
EXTENDS Naturals, FiniteSets, Sequences, SequencesExt

CONSTANTS
  NConfirm,     \* frames that confirm an alert
  NClear,       \* ok frames that clear one
  OscWindow,    \* frames that decide about oscillation
  MaxHistory    \* frames remembered: 10 in the code, which looks at the
                \* last OscWindow and the last NConfirm + NClear only

ASSUME ConsensusAssumption ==
  /\ NConfirm \in Nat \ {0}
  /\ NClear \in Nat \ {0}
  /\ OscWindow \in Nat \ {0}
  /\ MaxHistory \in Nat \ {0}

Bad == {"empty", "misplaced"}

Seen == Bad \cup {"ok"}

FreshCell == [current |-> "unknown", run |-> [s \in Seen |-> 0], history |-> <<>>]

\* Bound on the counters; they are only compared with NConfirm and NClear.
CountBound == NConfirm + NClear

LastOf(s, n) == SubSeq(s, IF Len(s) > n THEN Len(s) - n + 1 ELSE 1, Len(s))

\* Mutant of Update: a frame of another kind only slows the count down.
UpdateNoReset(c, s) ==
  [current |-> s,
   run |-> [c.run EXCEPT ![s] = IF @ < CountBound THEN @ + 1 ELSE @],
   history |-> LastOf(Append(c.history, s), MaxHistory)]

\* CellTemporalState.update.
Update(c, s) ==
  [current |-> s,
   run |-> [x \in Seen |-> IF x # s THEN 0
                           ELSE IF c.run[x] < CountBound THEN c.run[x] + 1 ELSE c.run[x]],
   history |-> LastOf(Append(c.history, s), MaxHistory)]

Oscillating(c) ==
  /\ Len(c.history) >= OscWindow
  /\ Cardinality(Range(LastOf(c.history, OscWindow))) > 2

\* A new alert is due: the run is long enough and this frame is the one that
\* made it so, or the first after another state.
Raises(before, c) ==
  \E s \in Bad : /\ c.run[s] >= NConfirm
                 /\ ~Oscillating(c)
                 /\ before.current # s \/ c.run[s] = NConfirm

Times(s, x) == Cardinality({i \in DOMAIN s : s[i] = x})

\* The alert of the cell is to be cleared: enough ok frames, and the frames
\* just before them were bad in one and the same way.
Clears(c) ==
  LET n == Len(c.history)
  IN  /\ c.run["ok"] >= NClear
      /\ n >= NConfirm + NClear
      /\ \E s \in Bad :
           Times(SubSeq(c.history, n - NConfirm - NClear + 1, n - NClear), s) >= NConfirm
===============================================================================
