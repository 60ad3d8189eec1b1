--------------------------- MODULE MCElevatedRun ----------------------------
(* Instances of ElevatedRun for TLC. *)
EXTENDS ElevatedRun

CONSTANTS phase2, helper
=============================================================================
