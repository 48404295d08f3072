--------------------------- MODULE MCChallengeScript ---------------------------
EXTENDS MCChallengeBatch, ChallengeScript

MCScriptCams == <<c2, c3>>
================================================================================
