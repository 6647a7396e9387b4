--------------------------- MODULE MCLiveTrading ---------------------------
(* Constant values for the model checking of LiveTrading.                  *)
EXTENDS LiveTrading

CONSTANTS w1, w2, s1, s2

\* every signal belongs to the only worker
OneOwner == [s \in Signals |-> w1]

\* one signal per interval
TwoOwners == [s \in Signals |-> IF s = s1 THEN w1 ELSE w2]
=============================================================================
