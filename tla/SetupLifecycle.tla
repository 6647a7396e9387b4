--------------------------- MODULE SetupLifecycle ---------------------------
(***************************************************************************)
(* What the tracking of XABCD setups promises, whatever rows and runs it   *)
(* is made of (the lifecycle of harmonic_setups.py, lines 13-16): the      *)
(* status of a setup moves forward, and every change of a known setup is   *)
(* told once, with the status it had before.                               *)
(***************************************************************************)
EXTENDS SetupStatuses, Sequences, Naturals

CONSTANT Setups

VARIABLES
  status,   \* status[s]: what is known of a setup, "absent" before it is
  told      \* told[s]: the changes told, a sequence of <<from, to>>

vars == <<status, told>>

Init ==
  /\ status = [s \in Setups |-> "absent"]
  /\ told = [s \in Setups |-> <<>>]

(* One step may be about several setups.  A setup that was not known may   *)
(* be taken in silently, as history.                                       *)
Change ==
  \E now \in [Setups -> Statuses], silent \in SUBSET Setups :
    /\ \A s \in Setups : now[s] = status[s] \/ now[s] \in Later[status[s]]
    /\ \A s \in silent : status[s] = "absent"
    /\ status' = now
    /\ told' = [s \in Setups |->
                  IF now[s] = status[s] \/ s \in silent THEN told[s]
                  ELSE Append(told[s], <<status[s], now[s]>>)]

Spec == Init /\ [][Change]_vars

-----------------------------------------------------------------------------
(* What is told of a setup is one unbroken chain that ends in its status.  *)
Chain ==
  \A s \in Setups : told[s] # <<>> =>
    /\ \A i \in 1..(Len(told[s]) - 1) : told[s][i][2] = told[s][i + 1][1]
    /\ told[s][Len(told[s])][2] = status[s]
=============================================================================
