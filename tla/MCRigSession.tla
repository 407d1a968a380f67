---------------------------- MODULE MCRigSession ----------------------------
(* Two tasks, telemetry and one poller, are enough for one to act on an    *)
(* answer the other has already acted on.                                  *)
EXTENDS RigSession

CONSTANTS telemetry, fallback
MCLoops == {telemetry, fallback}
=============================================================================
