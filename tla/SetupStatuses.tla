--------------------------- MODULE SetupStatuses ----------------------------
(***************************************************************************)
(* The statuses of an XABCD setup and their order, as harmonic_setups      *)
(* .simulate produces them (lines 13-16 draw them, 240-296 compute them).  *)
(***************************************************************************)

Final == {"win", "loss", "expired", "no_entry", "invalidated"}

Unresolved == {"waiting", "open"}

Statuses == {"absent"} \cup Unresolved \cup Final

(* One candle: the entry and the SL may fall into the same one, the entry  *)
(* and the TP never count in the same one.                                 *)
Moves ==
  [m \in Statuses |->
     CASE m = "absent"  -> {"waiting"}
       [] m = "waiting" -> {"open", "loss", "no_entry", "invalidated"}
       [] m = "open"    -> {"win", "loss", "expired"}
       [] OTHER         -> {}]

\* Any number of candles.
Later ==
  [m \in Statuses |->
     CASE m = "absent"  -> Statuses \ {"absent"}
       [] m = "waiting" -> {"open"} \cup Final
       [] m = "open"    -> {"win", "loss", "expired"}
       [] OTHER         -> {}]

\* a is b, or was before it
Upto(a, b) == a = b \/ b \in Later[a]
=============================================================================
