--------------------------- MODULE MCSyncScheduler ---------------------------
(* Constant values for the model checking of SyncScheduler.                *)
EXTENDS SyncScheduler

CONSTANTS workflow, analysis, unknown

MomentSets == {{0}, {0, 1}}
=============================================================================
