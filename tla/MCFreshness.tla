------------------------------- MODULE MCFreshness -------------------------------
(***************************************************************************)
(* Freshness for TLC: a store with two cameras.                            *)
(***************************************************************************)
EXTENDS Freshness

CONSTANTS c1, c2, s1

MCStoreOf == [c \in {c1, c2} |-> s1]

MCOthers == {<<>>, <<"INFO", "WARN">>}
===============================================================================
