------------------------------- MODULE MCPipeline -------------------------------
(***************************************************************************)
(* VisitorPipeline for TLC.                                                *)
(***************************************************************************)
EXTENDS VisitorPipeline, TLC

\* From frame to frame, everybody is in a staff area or nobody is.
AllOrNone == {{}, Track}

\* Tracks are only compared.
TrackSymmetry == Permutations(Track)
===============================================================================
