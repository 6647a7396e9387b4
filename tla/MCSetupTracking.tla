-------------------------- MODULE MCSetupTracking ---------------------------
(* Constant values for the model checking of SetupTracking.                *)
EXTENDS SetupTracking

CONSTANTS live1, live2, backfill, s1, s2

\* source of the tasks that are in Tasks
KindOf == [t \in Tasks |-> IF t = backfill THEN "replay" ELSE "live"]
=============================================================================
