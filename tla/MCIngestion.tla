----------------------------- MODULE MCIngestion -----------------------------
(***************************************************************************)
(* Instances of Ingestion for TLC.  The requests contain the cases that    *)
(* matter: two events in both orders (so that two transactions can         *)
(* deadlock), a repeated id with another timestamp, a malformed item, and  *)
(* a list over the size limit.                                             *)
(***************************************************************************)
EXTENDS Ingestion, TLC

CONSTANTS e1, e2, bad, h1, h2

Ev(id, t) == [id |-> id, at |-> t]

MCRequest ==
  {<<Ev(e1, 2), Ev(e2, 3)>>,
   <<Ev(e2, 3), Ev(e1, 2)>>,
   <<Ev(e1, 2), Ev(e1, 1), bad>>,
   <<Ev(e2, 3), Ev(e1, 2), Ev(e2, 1), bad>>}

OneProc == [h \in Handler |-> CHOOSE p \in Proc : TRUE]

TwoProcs == [h \in Handler |-> IF h = h1 THEN "p1" ELSE "p2"]

\* One handler per process: only the batch ids are interchangeable.
BatchSymmetry == Permutations(BatchId)
=============================================================================
