--------------------------- MODULE SetupTracking ----------------------------
(***************************************************************************)
(* The runs of SetupTrackingService.track for one asset and interval: the  *)
(* hourly live runs and the replays (backfill), which share nothing but    *)
(* the table of setups.  A run reads what it must cover, loads candles,    *)
(* reads the resolved setups, then (live) the statuses of the others,      *)
(* computes, stores the rows in one statement and the events in another.   *)
(*                                                                         *)
(* Candles are seen through the status they give a setup (simulate).       *)
(***************************************************************************)
EXTENDS SetupStatuses, Sequences, Naturals

CONSTANTS
  Setups,
  Tasks,       \* tasks of the pair that may be in the queue
  Kind,        \* Kind[t]: the argument source, "live" or "replay"
  Overlaps,    \* whether tasks of the pair may run at once
  MaxFaults

ASSUME ConstantsAssumption ==
  /\ Kind \in [Tasks -> {"live", "replay"}]
  /\ Overlaps \subseteq BOOLEAN
  /\ MaxFaults \in Nat

VARIABLES
  overlap,    \* chosen at the start
  chart,      \* chart[s]: the status of s on the candles closed so far
  stored,     \* technical_analysis_harmonic_setups.status, "absent": no row
  outbox,     \* harmonic_setup_events of s in order of id: <<from_status, to_status>>
  run,        \* run[t]: progress and local variables of task t
  faults

vars == <<overlap, chart, stored, outbox, run, faults>>

Nothing == [s \in Setups |-> "absent"]

Labels == {"idle", "load", "final", "previous", "upsert", "events"}

IdleRun == [pc |-> "idle", cover |-> {}, rows |-> Nothing, fresh |-> {}, before |-> Nothing]

Runs ==
  [pc     : Labels,
   cover  : SUBSET Setups,        \* setups the candles must reach back to
   rows   : [Setups -> Statuses], \* "absent": no row for it
   fresh  : SUBSET Setups,        \* last change within EVENT_LOOKBACK_CANDLES
   before : [Setups -> Unresolved \cup {"absent"}]] \* previous, "absent": no key

TypeOK ==
  /\ overlap \in BOOLEAN
  /\ chart \in [Setups -> Statuses]
  /\ stored \in [Setups -> Statuses]
  /\ outbox \in [Setups -> Seq(Statuses \X Statuses)]
  /\ run \in [Tasks -> Runs]
  /\ faults \in 0..MaxFaults

Init ==
  /\ overlap \in Overlaps
  /\ chart = Nothing
  /\ stored = Nothing
  /\ outbox = [s \in Setups |-> <<>>]
  /\ run = [t \in Tasks |-> IdleRun]
  /\ faults = 0

At(t, label) == run[t].pc = label

env == <<overlap, chart, faults>>

-----------------------------------------------------------------------------
\* A candle closes; runs at work keep those they have loaded.
Candle(s) ==
  /\ \E m \in Moves[chart[s]] : chart' = [chart EXCEPT ![s] = m]
  /\ UNCHANGED <<overlap, stored, outbox, run, faults>>

\* Variant: candles are loaded as far back as the argument says.
ReadOldest_Ignored(t) ==
  /\ At(t, "idle")
  /\ overlap \/ \A u \in Tasks : At(u, "idle")
  /\ run' = [run EXCEPT ![t].pc = "load"]
  /\ UNCHANGED <<env, stored, outbox>>

\* get_oldest_unresolved_x_time: the candles must cover what is unresolved.
ReadOldest(t) ==
  /\ At(t, "idle")
  /\ overlap \/ \A u \in Tasks : At(u, "idle")
  /\ run' = [run EXCEPT ![t].pc = "load",
                        ![t].cover = {s \in Setups : stored[s] \in Unresolved}]
  /\ UNCHANGED <<env, stored, outbox>>

\* last_closed_open_time: the status of s on the candles that are closed
Known(s) == {chart[s]}

(* fetch_range, simulate: the setups that must be covered and any others   *)
(* within the candles; the changes that are fresh are any of them, as it   *)
(* depends on how late the run is.                                         *)
LoadCandles(t) ==
  /\ At(t, "load")
  /\ \E covered \in SUBSET Setups, fresh \in SUBSET Setups :
       \E seen \in [Setups -> Statuses] :
         /\ run[t].cover \subseteq covered
         /\ fresh \subseteq {s \in covered : Kind[t] = "live"}
         /\ \A s \in Setups : IF s \in covered THEN seen[s] \in Known(s) ELSE seen[s] = "absent"
         /\ run' = [run EXCEPT ![t].pc = "final", ![t].rows = seen, ![t].fresh = fresh,
                               ![t].cover = {}]
  /\ UNCHANGED <<env, stored, outbox>>

AfterFinal(t) == IF Kind[t] = "live" THEN "previous" ELSE "upsert"

\* get_final_keys: resolved setups are not evaluated again.
ReadFinal(t) ==
  /\ At(t, "final")
  /\ run' = [run EXCEPT ![t].pc = AfterFinal(t),
                        ![t].rows = [s \in Setups |-> IF stored[s] \in Final THEN "absent" ELSE @[s]]]
  /\ UNCHANGED <<env, stored, outbox>>

\* get_unresolved_statuses
ReadPrevious(t) ==
  /\ At(t, "previous")
  /\ run' = [run EXCEPT ![t].pc = "upsert",
                        ![t].before = [s \in Setups |->
                                         IF stored[s] \in Unresolved THEN stored[s] ELSE "absent"]]
  /\ UNCHANGED <<env, stored, outbox>>

\* Variant: every row is an event.
News_EveryRow(t) == {s \in Setups : Kind[t] = "live" /\ run[t].rows[s] # "absent"}

\* status_events: a known setup that changed, or a new one that changed lately
News(t) ==
  {s \in Setups : /\ Kind[t] = "live"
                  /\ run[t].rows[s] \notin {"absent", run[t].before[s]}
                  /\ run[t].before[s] # "absent" \/ s \in run[t].fresh}

\* Variant: the row is replaced whatever its status is.
Writable_Always(s) == TRUE

\* ON CONFLICT .. DO UPDATE .. WHERE status NOT IN (final)
Writable(s) == stored[s] \notin Final

\* Variant: ON CONFLICT .. DO NOTHING.
Upsert_Inserts(t) ==
  /\ At(t, "upsert")
  /\ stored' = [s \in Setups |->
                  IF run[t].rows[s] # "absent" /\ stored[s] = "absent" THEN run[t].rows[s]
                  ELSE stored[s]]
  /\ run' = [run EXCEPT ![t] = IF News(t) = {} THEN IdleRun ELSE [@ EXCEPT !.pc = "events"]]
  /\ UNCHANGED <<env, outbox>>

\* upsert_many: executemany is one transaction.
Upsert(t) ==
  /\ At(t, "upsert")
  /\ stored' = [s \in Setups |->
                  IF run[t].rows[s] # "absent" /\ Writable(s) THEN run[t].rows[s] ELSE stored[s]]
  /\ run' = [run EXCEPT ![t] = IF News(t) = {} THEN IdleRun ELSE [@ EXCEPT !.pc = "events"]]
  /\ UNCHANGED <<env, outbox>>

\* add_many
AddEvents(t) ==
  /\ At(t, "events")
  /\ outbox' = [s \in Setups |->
                  IF s \in News(t) THEN Append(outbox[s], <<run[t].before[s], run[t].rows[s]>>)
                  ELSE outbox[s]]
  /\ run' = [run EXCEPT ![t] = IdleRun]
  /\ UNCHANGED <<env, stored>>

-----------------------------------------------------------------------------
CountFault ==
  /\ faults < MaxFaults
  /\ faults' = faults + 1
  /\ UNCHANGED <<overlap, chart, stored, outbox>>

\* A lost worker or a statement that raises; the task starts anew.
Crash(t) ==
  /\ ~At(t, "idle")
  /\ run' = [run EXCEPT ![t] = IdleRun]
  /\ CountFault

\* fetch_val and fetch_all turn an error of the database into no rows.
FinalUnread(t) ==
  /\ At(t, "final")
  /\ run' = [run EXCEPT ![t].pc = AfterFinal(t)]
  /\ CountFault

OldestUnread(t) ==
  /\ At(t, "idle")
  /\ overlap \/ \A u \in Tasks : At(u, "idle")
  /\ run' = [run EXCEPT ![t].pc = "load"]
  /\ CountFault

PreviousUnread(t) ==
  /\ At(t, "previous")
  /\ run' = [run EXCEPT ![t].pc = "upsert"]
  /\ CountFault

-----------------------------------------------------------------------------
Work(t) ==
  \/ ReadOldest(t) \/ LoadCandles(t) \/ ReadFinal(t) \/ ReadPrevious(t)
  \/ Upsert(t) \/ AddEvents(t)

Next ==
  \/ \E s \in Setups : Candle(s)
  \/ \E t \in Tasks : Work(t) \/ Crash(t) \/ OldestUnread(t) \/ FinalUnread(t) \/ PreviousUnread(t)

Spec == Init /\ [][Next]_vars

(* The schedule starts live runs again and again, and a run goes on: with  *)
(* one run at a time a task may wait for others, but is not passed over    *)
(* for ever.  Candles may stop, replays need not come.                     *)
Fairness ==
  \A t \in Tasks :
    /\ WF_vars(LoadCandles(t) \/ ReadFinal(t) \/ ReadPrevious(t) \/ Upsert(t) \/ AddEvents(t))
    /\ Kind[t] = "live" => SF_vars(ReadOldest(t))

FairSpec == Spec /\ Fairness

-----------------------------------------------------------------------------
(* A stored status is one the setup has really had, however runs overlap,  *)
(* stop or read nothing: simulate sees closed candles only.                *)
StoredHappened == \A s \in Setups : Upto(stored[s], chart[s])

(* A resolved setup keeps its result, also against runs that loaded older  *)
(* candles or did not see that it was resolved (upsert_many).              *)
FinalStays == [][\A s \in Setups : stored[s] \in Final => stored'[s] = stored[s]]_vars

(* What an alert says of a result agrees with the table: the event of a    *)
(* final status is added after that status was stored for good (track).    *)
FinalAlertIsStored ==
  \A s \in Setups : \A i \in DOMAIN outbox[s] :
    outbox[s][i][2] \in Final => stored[s] = outbox[s][i][2]

(* The result of a setup that is in the table gets there, however long it  *)
(* takes and whatever stops in between (cover_from in track).              *)
FinalIsStored ==
  \A s \in Setups : stored[s] \in Unresolved /\ chart[s] \in Final ~> stored[s] \in Final

-----------------------------------------------------------------------------
(* The inductive invariant behind these: what a run has computed.          *)
RunFacts(t) ==
  /\ \A s \in Setups : Upto(run[t].rows[s], chart[s])
  /\ At(t, "events") => \A s \in News(t) : run[t].rows[s] \in Final => stored[s] = run[t].rows[s]

IInv ==
  /\ TypeOK
  /\ StoredHappened
  /\ FinalAlertIsStored
  /\ \A t \in Tasks : RunFacts(t)

-----------------------------------------------------------------------------
(* Live runs that neither overlap nor fail keep the promise: statuses move *)
(* forward and every change of a known setup is told once, if the rows are *)
(* taken to change when their events are there (upsert_many, add_many).    *)
Announced ==
  [s \in Setups |->
     IF \E t \in Tasks : At(t, "events") /\ s \in News(t)
     THEN run[CHOOSE t \in Tasks : At(t, "events")].before[s]
     ELSE stored[s]]

Promise == INSTANCE SetupLifecycle WITH status <- Announced, told <- outbox

FollowsLifecycle == Promise!Spec

\* What such a run relies on at each of its steps.
AloneFacts(t) ==
  /\ run[t].pc \in {"final", "previous", "upsert"} =>
       \A s \in Setups : run[t].rows[s] = "absent" \/ Upto(stored[s], run[t].rows[s])
  /\ run[t].pc \in {"previous", "upsert"} =>
       \A s \in Setups : run[t].rows[s] # "absent" => stored[s] \notin Final
  /\ At(t, "upsert") =>
       \A s \in Setups : run[t].before[s] = IF stored[s] \in Unresolved THEN stored[s] ELSE "absent"
  /\ At(t, "events") =>
       \A s \in News(t) : stored[s] = run[t].rows[s] /\ run[t].rows[s] \in Later[run[t].before[s]]

AloneInv ==
  /\ IInv
  /\ ~overlap /\ faults = 0
  /\ \A t, u \in Tasks : ~At(t, "idle") /\ ~At(u, "idle") => t = u
  /\ \A t \in Tasks : AloneFacts(t)
=============================================================================
