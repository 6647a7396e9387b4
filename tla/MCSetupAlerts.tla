--------------------------- MODULE MCSetupAlerts ----------------------------
(* Constant values for the model checking of SetupAlerts.                  *)
EXTENDS SetupAlerts

CONSTANTS u1, u2, n1, n2

\* everybody wants the first event, one user the second
WantsOf == [e \in Events |-> IF e = 1 THEN Users ELSE {u2}]
=============================================================================
