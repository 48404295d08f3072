---------------------------- MODULE MCStoreAnalytics ----------------------------
(***************************************************************************)
(* StoreAnalytics for TLC: one visitor, whose rows touch no other's folds, *)
(* and one sale, which meets each visitor alone.                           *)
(***************************************************************************)
EXTENDS StoreAnalytics

CONSTANT v1
===============================================================================
