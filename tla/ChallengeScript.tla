--------------------------- MODULE ChallengeScript ---------------------------
(***************************************************************************)
(* scripts/run_challenge_cameras.ps1: the driver is started once for each  *)
(* camera with --only, in order, and at the end with --ingest-only.  The   *)
(* script stops at the first driver that fails, and is then started again  *)
(* from the first camera.  Its list is its own: it leaves one camera of    *)
(* the configuration out.  Nothing else fails here.                        *)
(***************************************************************************)
EXTENDS ChallengeBatch

CONSTANT ScriptCams   \* $cameras

VARIABLE script   \* position in the list, then the last driver, then the end

scriptVars == <<vars, script>>

ScriptOnly == IF script <= Len(ScriptCams) THEN {ScriptCams[script]} ELSE {}

ScriptStarts == script <= Len(ScriptCams) + 1 /\ exit = 0 /\ Start(ScriptOnly, FALSE) /\ UNCHANGED script

\* $LASTEXITCODE of the driver that just left.
ScriptContinues ==
  /\ DriverStep
  /\ script' = IF ~In("off") /\ driver'.phase = "off" /\ exit' = 0 THEN script + 1 ELSE script

ScriptAgain ==
  /\ In("off") /\ exit = 1
  /\ script' = 1 /\ exit' = 0
  /\ UNCHANGED <<disk, driver, stored, runs, exposed, faults, fresh>>

ScriptInit == Init /\ script = 1
ScriptNext == ScriptStarts \/ ScriptContinues \/ ScriptAgain
ScriptSpec == ScriptInit /\ [][ScriptNext]_scriptVars /\ WF_scriptVars(ScriptNext)

\* "Process each challenge camera in a separate process (resumable via .done
\* markers)." (scripts/run_challenge_cameras.ps1:1): started again after every
\* failure, the script gets to its end.
ScriptEnds == <>(script = Len(ScriptCams) + 2)
==============================================================================
