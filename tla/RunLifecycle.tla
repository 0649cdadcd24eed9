---------------------------- MODULE RunLifecycle ----------------------------
(***************************************************************************)
(* The status machine of a run (domain/run_lifecycle.py).  A module        *)
(* without variables: the runtime (RobotRuns) consults it before every     *)
(* status write.  "ABSENT" is this specification's word for a run that has *)
(* no row in the table runs.                                               *)
(***************************************************************************)

RunStatus == {"IDLE", "SCANNING", "HOLDING_READY", "PLANNED",
              "EXECUTING", "COMPLETE", "FAILED"}

Active == {"SCANNING", "HOLDING_READY", "PLANNED", "EXECUTING"}

(* The statuses that assert_transition accepts after s.                    *)
Transitions(s) ==
  CASE s = "IDLE"          -> {"SCANNING"}
    [] s = "SCANNING"      -> {"HOLDING_READY", "FAILED"}
    [] s = "HOLDING_READY" -> {"PLANNED", "FAILED"}
    [] s = "PLANNED"       -> {"EXECUTING", "FAILED"}
    [] s = "EXECUTING"     -> {"PLANNED", "COMPLETE", "FAILED"}
    [] OTHER               -> {}

CanTransition(s, next) == next \in Transitions(s)

CanResetFailed(s) == s = "FAILED"

=============================================================================
