--------------------------- MODULE MCChallengeBatch ---------------------------
EXTENDS ChallengeBatch, TLC

CONSTANTS c1, c2, c3, s1, s2

MCCams    == <<c1, c2, c3>>
MCStores  == <<s1, s2>>
MCStoreOf == c1 :> s1 @@ c2 :> s1 @@ c3 :> s2
MCSize    == c1 :> 2 @@ c2 :> 1 @@ c3 :> 1
MCReturns == c1 :> {2} @@ c2 :> {} @@ c3 :> {}
==============================================================================
