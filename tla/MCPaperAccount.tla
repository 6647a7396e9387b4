--------------------------- MODULE MCPaperAccount ---------------------------
(* Constant values for the model checking of PaperAccount.                 *)
EXTENDS PaperAccount

CONSTANTS p1, p2, s1, s2, s3

\* two signals on one pair, one on the other
PairOf == [s \in Signals |-> IF s = s2 THEN p2 ELSE p1]

\* the pairs are of different assets
AssetOf == [p \in Pairs |-> p]

\* one stop reaches the drawdown limit exactly, a stop after a profit does not
PnlOf == [sl |-> -2, tp |-> 2, timeout |-> -1]
=============================================================================
