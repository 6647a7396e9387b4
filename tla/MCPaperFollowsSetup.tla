------------------------- MODULE MCPaperFollowsSetup -------------------------
(* Constant values for the model checking of PaperFollowsSetup: the near   *)
(* edge at 4, SL 2, TP 6, C at 7; below SL the fallback applies.           *)
EXTENDS PaperFollowsSetup

TargetsOf ==
  [e \in Prices |-> CASE e \in {3, 4} -> <<2, e + 2>> [] e \in {1, 2} -> <<e - 1, e + 2>> [] OTHER -> <<0, Top>>]

Bar(o, h, l) == [open |-> o, high |-> h, low |-> l]
ShapesOf ==
  {Bar(5, 5, 5),                               \* nothing happens
   Bar(5, 5, 4), Bar(5, 6, 4), Bar(5, 6, 2),   \* the near edge; with TP; with both
   Bar(5, 7, 5), Bar(5, 5, 2),                 \* TP and C itself; SL
   Bar(5, 8, 4),                               \* beyond C, and the near edge
   Bar(3, 3, 3), Bar(1, 1, 1)}                 \* opened behind the near edge, behind SL
=============================================================================
