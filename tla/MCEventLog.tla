------------------------------- MODULE MCEventLog -------------------------------
(***************************************************************************)
(* EventLog for TLC: five events around midnight, in batches of two.       *)
(***************************************************************************)
EXTENDS EventLog

MCDay == <<1, 1, 1, 2, 2>>
===============================================================================
