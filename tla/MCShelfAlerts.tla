----------------------------- MODULE MCShelfAlerts -----------------------------
(***************************************************************************)
(* ShelfAlerts for TLC.                                                    *)
(***************************************************************************)
EXTENDS ShelfAlerts
===============================================================================
