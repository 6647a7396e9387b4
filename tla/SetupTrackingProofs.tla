------------------------ MODULE SetupTrackingProofs -------------------------
(***************************************************************************)
(* Proofs about SetupTracking, for any number of setups, tasks and faults. *)
(*                                                                         *)
(* The first part is about runs that overlap, fail and read nothing: what  *)
(* they store is behind the chart, since a run works with closed candles,  *)
(* and a final status is never written over.  The second part is about     *)
(* live runs one at a time without a fault: they keep the promise of       *)
(* SetupLifecycle.                                                         *)
(***************************************************************************)
EXTENDS SetupTracking, TLAPS

\* The order of the statuses.
LEMMA Order ==
  ASSUME NEW a \in Statuses, NEW b \in Statuses
  PROVE  /\ Upto("absent", b)
         /\ Upto(a, a)
         /\ a \in Final /\ Upto(a, b) => a = b
         /\ Later[a] \subseteq Statuses /\ Moves[a] \subseteq Later[a]
         /\ a \notin Later[a] /\ "absent" \notin Later[a]
  BY DEF Upto, Later, Moves, Statuses, Final, Unresolved

LEMMA OrderIsTransitive ==
  ASSUME NEW a \in Statuses, NEW b \in Statuses, NEW c \in Statuses, Upto(a, b), Upto(b, c)
  PROVE  Upto(a, c)
  BY DEF Upto, Later, Statuses, Final, Unresolved

-----------------------------------------------------------------------------
(* Runs that overlap                                                       *)

LEMMA InitIInv == Init => IInv
<1> SUFFICES ASSUME Init PROVE IInv
  OBVIOUS
<1>1. Nothing \in [Setups -> Statuses] /\ IdleRun \in Runs
  BY DEF Nothing, IdleRun, Runs, Labels, Statuses
<1>2. TypeOK
  BY <1>1, ConstantsAssumption DEF Init, TypeOK
<1>3. StoredHappened /\ FinalAlertIsStored
  BY <1>1, Order DEF Init, StoredHappened, FinalAlertIsStored, Nothing
<1>4. ASSUME NEW t \in Tasks PROVE RunFacts(t)
  BY <1>1, Order DEF Init, RunFacts, At, IdleRun, Nothing
<1>. QED BY <1>2, <1>3, <1>4 DEF IInv

(* A step of one task that touches nothing of the others.                  *)
LEMMA OthersKeep ==
  ASSUME IInv, NEW u \in Tasks, run'[u] = run[u], TypeOK',
         chart' = chart, \A s \in Setups : stored[s] \in Final => stored'[s] = stored[s]
  PROVE  RunFacts(u)'
<1>1. News(u)' = News(u)
  BY DEF News
<1>2. RunFacts(u)
  BY DEF IInv
<1>3. \A s \in Setups : Upto(run'[u].rows[s], chart'[s])
  BY <1>2 DEF RunFacts
<1>4. ASSUME run'[u].pc = "events", NEW s \in News(u), run'[u].rows[s] \in Final
      PROVE  stored'[s] = run'[u].rows[s]
  <2>1. s \in Setups
    BY DEF News
  <2>2. stored[s] = run[u].rows[s]
    BY <1>2, <1>4 DEF RunFacts, At
  <2>. QED BY <1>4, <2>1, <2>2
<1>. QED BY <1>1, <1>3, <1>4 DEF RunFacts, At

\* What Upto says of stored and chart survives a candle.
LEMMA CandleStep ==
  ASSUME IInv, NEW s \in Setups, Candle(s)
  PROVE  IInv'
<1>1. PICK m \in Moves[chart[s]] : chart' = [chart EXCEPT ![s] = m]
  BY DEF Candle
<1>2. /\ chart \in [Setups -> Statuses] /\ stored \in [Setups -> Statuses]
      /\ \A t \in Tasks : run[t].rows \in [Setups -> Statuses]
  BY DEF IInv, TypeOK, Runs
<1>3. chart[s] \in Statuses /\ m \in Statuses /\ Upto(chart[s], m)
  BY <1>1, <1>2, Order DEF Upto
<1>4. UNCHANGED <<overlap, stored, outbox, run, faults>>
  BY DEF Candle
<1>5. TypeOK'
  BY <1>1, <1>3, <1>4 DEF IInv, TypeOK
<1>6. ASSUME NEW a \in Statuses, NEW r \in Setups, Upto(a, chart[r])
      PROVE  Upto(a, chart'[r])
  <2>1. CASE r = s
    BY <1>1, <1>2, <1>3, <1>6, <2>1, OrderIsTransitive
  <2>2. CASE r # s
    BY <1>1, <1>2, <1>6, <2>2
  <2>. QED BY <2>1, <2>2
<1>7. StoredHappened'
  BY <1>2, <1>4, <1>6 DEF IInv, StoredHappened
<1>8. FinalAlertIsStored'
  BY <1>4 DEF IInv, FinalAlertIsStored
<1>9. ASSUME NEW t \in Tasks PROVE RunFacts(t)'
  <2>1. News(t)' = News(t)
    BY <1>4 DEF News
  <2>. QED BY <1>2, <1>4, <1>6, <2>1 DEF IInv, RunFacts, At
<1>. QED BY <1>5, <1>7, <1>8, <1>9 DEF IInv

(* A step that changes only a task's local variables: what it has computed *)
(* must have happened, and it must not be about to add events.             *)
LEMMA LocalStep ==
  ASSUME IInv, NEW t \in Tasks, NEW r \in Runs,
         UNCHANGED <<overlap, chart, stored, outbox>>, faults' \in 0..MaxFaults,
         run' = [run EXCEPT ![t] = r],
         r.pc # "events", \A s \in Setups : Upto(r.rows[s], chart[s])
  PROVE  IInv'
<1>1. TypeOK'
  BY DEF IInv, TypeOK
<1>2. StoredHappened' /\ FinalAlertIsStored'
  BY DEF IInv, StoredHappened, FinalAlertIsStored
<1>3. ASSUME NEW u \in Tasks PROVE RunFacts(u)'
  <2>1. CASE u = t
    <3>1. run'[t] = r
      BY DEF IInv, TypeOK
    <3>. QED BY <2>1, <3>1 DEF RunFacts, At
  <2>2. CASE u # t
    <3>1. run'[u] = run[u]
      BY <2>2 DEF IInv, TypeOK
    <3>. QED BY <1>1, <3>1, OthersKeep
  <2>. QED BY <2>1, <2>2
<1>. QED BY <1>1, <1>2, <1>3 DEF IInv

LEMMA Types ==
  ASSUME IInv, NEW t \in Tasks
  PROVE  /\ run[t] \in Runs /\ run[t].rows \in [Setups -> Statuses]
         /\ run[t].before \in [Setups -> Unresolved \cup {"absent"}]
         /\ run[t].fresh \in SUBSET Setups /\ run[t].cover \in SUBSET Setups
         /\ Nothing \in [Setups -> Statuses] /\ IdleRun \in Runs
         /\ IdleRun.pc = "idle" /\ IdleRun.rows = Nothing
         /\ faults \in 0..MaxFaults /\ Kind[t] \in {"live", "replay"}
         /\ run \in [Tasks -> Runs]
  BY ConstantsAssumption DEF IInv, TypeOK, Runs, Nothing, IdleRun, Labels, Statuses, Unresolved

LEMMA ToIdle ==
  ASSUME IInv, NEW t \in Tasks
  PROVE  \A s \in Setups : Upto(IdleRun.rows[s], chart[s])
  BY Types, Order DEF Nothing, IInv, TypeOK

LEMMA ReadStep ==
  ASSUME IInv, NEW t \in Tasks, ReadOldest(t) \/ LoadCandles(t) \/ ReadFinal(t) \/ ReadPrevious(t)
  PROVE  IInv'
<1>1. /\ run \in [Tasks -> Runs] /\ run[t] \in Runs /\ run[t].rows \in [Setups -> Statuses]
      /\ Kind[t] \in {"live", "replay"}
  BY Types
<1>2. /\ \A s \in Setups : chart[s] \in Statuses /\ stored[s] \in Statuses
      /\ \A s \in Setups : Upto(run[t].rows[s], chart[s])
      /\ UNCHANGED <<overlap, chart, stored, outbox>> /\ faults' \in 0..MaxFaults
  BY DEF IInv, TypeOK, RunFacts, ReadOldest, LoadCandles, ReadFinal, ReadPrevious, env
<1>3. CASE ReadOldest(t)
  <2> DEFINE r == [run[t] EXCEPT !.pc = "load", !.cover = {s \in Setups : stored[s] \in Unresolved}]
  <2>1. run' = [run EXCEPT ![t] = r]
    BY <1>1, <1>3 DEF ReadOldest
  <2>2. r \in Runs /\ r.pc = "load" /\ r.rows = run[t].rows
    BY <1>1 DEF Runs, Labels
  <2> HIDE DEF r
  <2>. QED BY <1>2, <2>1, <2>2, LocalStep
<1>4. CASE LoadCandles(t)
  <2>1. PICK covered \in SUBSET Setups, fresh \in SUBSET Setups, seen \in [Setups -> Statuses] :
          /\ \A s \in Setups : IF s \in covered THEN seen[s] \in Known(s) ELSE seen[s] = "absent"
          /\ run' = [run EXCEPT ![t].pc = "final", ![t].rows = seen, ![t].fresh = fresh,
                                ![t].cover = {}]
    BY <1>4 DEF LoadCandles
  <2> DEFINE r == [run[t] EXCEPT !.pc = "final", !.rows = seen, !.fresh = fresh, !.cover = {}]
  <2>2. run' = [run EXCEPT ![t] = r]
    BY <1>1, <2>1
  <2>3. r \in Runs /\ r.pc = "final" /\ r.rows = seen
    BY <1>1 DEF Runs, Labels
  <2>4. ASSUME NEW s \in Setups PROVE Upto(seen[s], chart[s])
    BY <1>2, <2>1, Order DEF Known
  <2> HIDE DEF r
  <2>. QED BY <1>2, <2>2, <2>3, <2>4, LocalStep
<1>5. CASE ReadFinal(t)
  <2> DEFINE left == [s \in Setups |-> IF stored[s] \in Final THEN "absent" ELSE run[t].rows[s]]
             r == [run[t] EXCEPT !.pc = AfterFinal(t), !.rows = left]
  <2>1. run' = [run EXCEPT ![t] = r]
    BY <1>1, <1>5 DEF ReadFinal
  <2>2. left \in [Setups -> Statuses] /\ \A s \in Setups : Upto(left[s], chart[s])
    BY <1>1, <1>2, Order DEF Statuses
  <2> HIDE DEF left
  <2>3. r \in Runs /\ r.pc # "events" /\ r.rows = left
    BY <1>1, <2>2 DEF Runs, Labels, AfterFinal
  <2> HIDE DEF r
  <2>. QED BY <1>2, <2>1, <2>2, <2>3, LocalStep
<1>6. CASE ReadPrevious(t)
  <2> DEFINE now == [s \in Setups |-> IF stored[s] \in Unresolved THEN stored[s] ELSE "absent"]
             r == [run[t] EXCEPT !.pc = "upsert", !.before = now]
  <2>1. run' = [run EXCEPT ![t] = r]
    BY <1>1, <1>6 DEF ReadPrevious
  <2>2. now \in [Setups -> Unresolved \cup {"absent"}]
    OBVIOUS
  <2> HIDE DEF now
  <2>3. r \in Runs /\ r.pc = "upsert" /\ r.rows = run[t].rows
    BY <1>1, <2>2 DEF Runs, Labels
  <2> HIDE DEF r
  <2>. QED BY <1>2, <2>1, <2>3, LocalStep
<1>. QED BY <1>3, <1>4, <1>5, <1>6

LEMMA FaultStep ==
  ASSUME IInv, NEW t \in Tasks, Crash(t) \/ OldestUnread(t) \/ FinalUnread(t) \/ PreviousUnread(t)
  PROVE  IInv'
<1>1. run \in [Tasks -> Runs] /\ run[t] \in Runs /\ IdleRun \in Runs /\ IdleRun.pc = "idle"
  BY Types
<1>2. /\ \A s \in Setups : Upto(run[t].rows[s], chart[s])
      /\ UNCHANGED <<overlap, chart, stored, outbox>> /\ faults' \in 0..MaxFaults
  BY ConstantsAssumption
     DEF IInv, TypeOK, RunFacts, Crash, OldestUnread, FinalUnread, PreviousUnread, CountFault
<1>3. CASE Crash(t)
  <2>1. run' = [run EXCEPT ![t] = IdleRun]
    BY <1>3 DEF Crash
  <2>. QED BY <1>1, <1>2, <2>1, ToIdle, LocalStep
<1>4. ASSUME NEW label \in {"load", "previous", "upsert"}, run' = [run EXCEPT ![t].pc = label]
      PROVE  IInv'
  <2> DEFINE r == [run[t] EXCEPT !.pc = label]
  <2>1. run' = [run EXCEPT ![t] = r]
    BY <1>1, <1>4
  <2>2. r \in Runs /\ r.pc # "events" /\ r.rows = run[t].rows
    BY <1>1 DEF Runs, Labels
  <2> HIDE DEF r
  <2>. QED BY <1>2, <2>1, <2>2, LocalStep
<1>5. OldestUnread(t) => run' = [run EXCEPT ![t].pc = "load"]
  BY DEF OldestUnread
<1>6. FinalUnread(t) => run' = [run EXCEPT ![t].pc = AfterFinal(t)]
  BY DEF FinalUnread
<1>7. PreviousUnread(t) => run' = [run EXCEPT ![t].pc = "upsert"]
  BY DEF PreviousUnread
<1>8. AfterFinal(t) \in {"previous", "upsert"}
  BY DEF AfterFinal
<1>. QED BY <1>3, <1>4, <1>5, <1>6, <1>7, <1>8

(* The rows a run stores, and why a final one agrees with the table even   *)
(* when it was not written: both are what the chart says.                  *)
LEMMA UpsertStores ==
  ASSUME IInv, NEW t \in Tasks, Upsert(t), NEW s \in Setups
  PROVE  /\ stored'[s] \in Statuses
         /\ stored[s] \in Final => stored'[s] = stored[s]
         /\ Upto(stored'[s], chart[s])
         /\ run[t].rows[s] \in Final => stored'[s] = run[t].rows[s]
<1> DEFINE new == run[t].rows[s]
<1>1. /\ stored[s] \in Statuses /\ chart[s] \in Statuses /\ new \in Statuses
      /\ Upto(stored[s], chart[s]) /\ Upto(new, chart[s])
  BY Types DEF IInv, TypeOK, StoredHappened, RunFacts
<1>2. stored'[s] = IF new # "absent" /\ stored[s] \notin Final THEN new ELSE stored[s]
  BY DEF Upsert, Writable
<1>3. new \in Final => new # "absent" /\ new = chart[s]
  BY <1>1, Order DEF Final
<1>4. stored[s] \in Final => stored[s] = chart[s]
  BY <1>1, Order
<1>. QED BY <1>1, <1>2, <1>3, <1>4

LEMMA UpsertStep ==
  ASSUME IInv, NEW t \in Tasks, Upsert(t)
  PROVE  IInv'
<1>0. /\ run \in [Tasks -> Runs] /\ run[t] \in Runs /\ IdleRun \in Runs /\ IdleRun.pc = "idle"
      /\ \A s \in Setups : /\ stored'[s] \in Statuses
                           /\ stored[s] \in Final => stored'[s] = stored[s]
                           /\ Upto(stored'[s], chart[s])
                           /\ run[t].rows[s] \in Final => stored'[s] = run[t].rows[s]
  BY Types, UpsertStores
<1>1. /\ UNCHANGED <<overlap, chart, faults, outbox>>
      /\ stored' \in [Setups -> Statuses]
  <2>1. stored' = [s \in Setups |-> stored'[s]]
    BY DEF Upsert
  <2>. QED BY <1>0, <2>1 DEF Upsert, env
<1>2. \/ run' = [run EXCEPT ![t] = IdleRun]
      \/ run' = [run EXCEPT ![t] = [run[t] EXCEPT !.pc = "events"]]
  BY DEF Upsert
<1>3. [run[t] EXCEPT !.pc = "events"] \in Runs
  BY <1>0 DEF Runs, Labels
<1>4. TypeOK'
  BY <1>0, <1>1, <1>2, <1>3 DEF IInv, TypeOK
<1>5. StoredHappened'
  BY <1>0, <1>1 DEF StoredHappened
<1>6. FinalAlertIsStored'
  <2> SUFFICES ASSUME NEW s \in Setups, NEW i \in DOMAIN outbox[s], outbox[s][i][2] \in Final
               PROVE  stored'[s] = outbox[s][i][2]
    BY <1>1 DEF FinalAlertIsStored
  <2>1. stored[s] = outbox[s][i][2]
    BY DEF IInv, FinalAlertIsStored
  <2>. QED BY <1>0, <2>1
<1>8. chart' = chart /\ \A s \in Setups : stored[s] \in Final => stored'[s] = stored[s]
  BY <1>0, <1>1
<1>7. ASSUME NEW u \in Tasks PROVE RunFacts(u)'
  <2>1. CASE u # t
    <3>1. run'[u] = run[u]
      BY <1>0, <1>2, <2>1
    <3>. QED BY <1>4, <1>8, <3>1, OthersKeep
  <2>2. CASE u = t /\ run' = [run EXCEPT ![t] = IdleRun]
    <3>1. run'[u] = IdleRun
      BY <1>0, <2>2
    <3>. QED BY <1>0, <1>1, <3>1, <2>2, ToIdle DEF RunFacts, At
  <2>3. CASE u = t /\ run' = [run EXCEPT ![t] = [run[t] EXCEPT !.pc = "events"]]
    <3>1. run'[t] = [run[t] EXCEPT !.pc = "events"]
      BY <1>0, <2>3
    <3>2. run'[t].rows = run[t].rows
      BY <1>0, <3>1 DEF Runs
    <3>3. \A s \in Setups : Upto(run[t].rows[s], chart[s])
      BY DEF IInv, RunFacts
    <3>4. News(t)' \subseteq Setups
      BY DEF News
    <3>. QED BY <1>0, <1>1, <2>3, <3>2, <3>3, <3>4 DEF RunFacts
  <2>. QED BY <1>2, <2>1, <2>2, <2>3
<1>. QED BY <1>4, <1>5, <1>6, <1>7 DEF IInv

LEMMA AddEventsStep ==
  ASSUME IInv, NEW t \in Tasks, AddEvents(t)
  PROVE  IInv'
<1>0. /\ run \in [Tasks -> Runs] /\ IdleRun \in Runs /\ IdleRun.pc = "idle"
      /\ run[t].rows \in [Setups -> Statuses]
      /\ run[t].before \in [Setups -> Unresolved \cup {"absent"}]
  BY Types
<1>1. /\ UNCHANGED <<overlap, chart, faults, stored>>
      /\ run' = [run EXCEPT ![t] = IdleRun]
      /\ outbox' = [s \in Setups |->
                      IF s \in News(t) THEN Append(outbox[s], <<run[t].before[s], run[t].rows[s]>>)
                      ELSE outbox[s]]
  BY DEF AddEvents, env
<1>2. ASSUME NEW s \in Setups
      PROVE  /\ outbox'[s] \in Seq(Statuses \X Statuses)
             /\ \A i \in DOMAIN outbox'[s] : outbox'[s][i][2] \in Final => stored[s] = outbox'[s][i][2]
  <2> DEFINE e == <<run[t].before[s], run[t].rows[s]>>
  <2>1. /\ outbox[s] \in Seq(Statuses \X Statuses) /\ e \in Statuses \X Statuses
        /\ e[2] = run[t].rows[s]
        /\ \A i \in DOMAIN outbox[s] : outbox[s][i][2] \in Final => stored[s] = outbox[s][i][2]
    BY <1>0 DEF IInv, TypeOK, FinalAlertIsStored, Statuses
  <2>2. CASE s \in News(t)
    <3>1. outbox'[s] = Append(outbox[s], e)
      BY <1>1, <2>2
    <3>2. e[2] \in Final => stored[s] = e[2]
      BY <2>1, <2>2 DEF IInv, RunFacts, AddEvents
    <3>3. /\ outbox'[s] \in Seq(Statuses \X Statuses)
          /\ DOMAIN outbox'[s] = 1..(Len(outbox[s]) + 1)
          /\ outbox'[s][Len(outbox[s]) + 1] = e
          /\ \A i \in 1..Len(outbox[s]) : outbox'[s][i] = outbox[s][i]
          /\ DOMAIN outbox[s] = 1..Len(outbox[s])
      BY <2>1, <3>1
    <3>. QED BY <2>1, <3>2, <3>3
  <2>3. CASE s \notin News(t)
    BY <1>1, <2>1, <2>3
  <2>. QED BY <2>2, <2>3
<1>3. TypeOK'
  <2>1. outbox' = [s \in Setups |-> outbox'[s]]
    BY <1>1
  <2>. QED BY <1>0, <1>1, <1>2, <2>1 DEF IInv, TypeOK
<1>4. StoredHappened' /\ FinalAlertIsStored'
  BY <1>1, <1>2 DEF IInv, StoredHappened, FinalAlertIsStored
<1>5. ASSUME NEW u \in Tasks PROVE RunFacts(u)'
  <2>1. CASE u # t
    <3>1. run'[u] = run[u]
      BY <1>0, <1>1, <2>1
    <3>. QED BY <1>1, <1>3, <3>1, OthersKeep
  <2>2. CASE u = t
    <3>1. run'[u] = IdleRun
      BY <1>0, <1>1, <2>2
    <3>. QED BY <1>0, <1>1, <3>1, ToIdle DEF RunFacts, At
  <2>. QED BY <2>1, <2>2
<1>. QED BY <1>3, <1>4, <1>5 DEF IInv

LEMMA StepIInv == IInv /\ [Next]_vars => IInv'
<1> SUFFICES ASSUME IInv, [Next]_vars PROVE IInv'
  OBVIOUS
<1>1. CASE UNCHANGED vars
  BY <1>1 DEF vars, IInv, TypeOK, StoredHappened, FinalAlertIsStored, RunFacts, At, News
<1>2. ASSUME NEW s \in Setups, Candle(s) PROVE IInv'
  BY <1>2, CandleStep
<1>3. ASSUME NEW t \in Tasks, Work(t) \/ Crash(t) \/ OldestUnread(t) \/ FinalUnread(t) \/ PreviousUnread(t)
      PROVE  IInv'
  BY <1>3, ReadStep, UpsertStep, AddEventsStep, FaultStep DEF Work
<1>. QED BY <1>1, <1>2, <1>3 DEF Next

(* The inductive invariant holds however runs overlap, stop or read nothing*)
THEOREM Invariance == Spec => []IInv
  BY InitIInv, StepIInv, PTL DEF Spec

(* Every variable and every local variable of a run keeps its type.        *)
THEOREM TypeCorrect == Spec => []TypeOK
<1>1. IInv => TypeOK
  BY DEF IInv
<1>. QED BY <1>1, Invariance, PTL

(* A stored status is one the setup has really had.                        *)
THEOREM StoredTheorem == Spec => []StoredHappened
<1>1. IInv => StoredHappened
  BY DEF IInv
<1>. QED BY <1>1, Invariance, PTL

(* What an alert says of a result agrees with the table.                   *)
THEOREM AlertTheorem == Spec => []FinalAlertIsStored
<1>1. IInv => FinalAlertIsStored
  BY DEF IInv
<1>. QED BY <1>1, Invariance, PTL

(* A resolved setup keeps its result, whichever runs overlap, stop or read *)
(* nothing.                                                                *)
THEOREM FinalTheorem == Spec => FinalStays
<1>1. IInv /\ [Next]_vars => [\A s \in Setups : stored[s] \in Final => stored'[s] = stored[s]]_vars
  <2> SUFFICES ASSUME IInv, Next, NEW s \in Setups, stored[s] \in Final PROVE stored'[s] = stored[s]
    OBVIOUS
  <2>1. CASE \E t \in Tasks : Upsert(t)
    BY <2>1, UpsertStores
  <2>2. CASE ~\E t \in Tasks : Upsert(t)
    BY <2>2 DEF Next, Work, Candle, ReadOldest, LoadCandles, ReadFinal, ReadPrevious, AddEvents,
                Crash, OldestUnread, FinalUnread, PreviousUnread, CountFault
  <2>. QED BY <2>1, <2>2
<1>. QED BY <1>1, Invariance, PTL DEF Spec, FinalStays

-----------------------------------------------------------------------------
(* Live runs, one at a time, without a fault                               *)

Alone == Overlaps = {FALSE} /\ MaxFaults = 0 /\ Kind = [t \in Tasks |-> "live"]

LEMMA InitAlone == ASSUME Alone, Init PROVE AloneInv
<1>1. \A t \in Tasks : run[t].pc = "idle"
  BY DEF Init, IdleRun
<1>2. ~overlap /\ faults = 0
  BY DEF Alone, Init
<1>. QED BY <1>1, <1>2, InitIInv DEF AloneInv, AloneFacts, At

(* The task that steps is the only one at work.                            *)
LEMMA AloneOthers ==
  ASSUME Alone, AloneInv, NEW t \in Tasks, NEW r, run' = [run EXCEPT ![t] = r],
         ~At(t, "idle") \/ \A u \in Tasks : At(u, "idle"),
         UNCHANGED <<overlap, faults>>, IInv', AloneFacts(t)'
  PROVE  AloneInv'
<1>1. \A u \in Tasks : u # t => run'[u] = run[u] /\ run[u].pc = "idle"
  BY DEF AloneInv, IInv, TypeOK, At
<1>2. \A u \in Tasks : AloneFacts(u)'
  BY <1>1 DEF AloneFacts, At
<1>. QED BY <1>1, <1>2 DEF AloneInv, At

LEMMA NoFaults ==
  ASSUME Alone, AloneInv, NEW t \in Tasks
  PROVE  ~Crash(t) /\ ~OldestUnread(t) /\ ~FinalUnread(t) /\ ~PreviousUnread(t)
  BY DEF Alone, AloneInv, Crash, OldestUnread, FinalUnread, PreviousUnread, CountFault

(* What a run has read of a setup before it stores anything, and what it   *)
(* will tell.                                                              *)
LEMMA BeforeUpsert ==
  ASSUME Alone, AloneInv, NEW t \in Tasks, At(t, "upsert"), NEW s \in Setups
  PROVE  /\ run[t].rows[s] \in Statuses /\ stored[s] \in Statuses
         /\ run[t].rows[s] # "absent" => /\ stored[s] \notin Final
                                         /\ run[t].before[s] = stored[s]
                                         /\ Upto(stored[s], run[t].rows[s])
<1>1. run[t].rows[s] \in Statuses /\ stored[s] \in Statuses
  BY Types DEF AloneInv, IInv, TypeOK
<1>2. AloneFacts(t)
  BY DEF AloneInv
<1>3. ASSUME run[t].rows[s] # "absent"
      PROVE  /\ stored[s] \notin Final
             /\ run[t].before[s] = stored[s]
             /\ Upto(stored[s], run[t].rows[s])
  <2>1. stored[s] \notin Final /\ Upto(stored[s], run[t].rows[s])
    BY <1>2, <1>3 DEF AloneFacts, At
  <2>2. run[t].before[s] = IF stored[s] \in Unresolved THEN stored[s] ELSE "absent"
    BY <1>2 DEF AloneFacts
  <2>. QED BY <1>1, <2>1, <2>2 DEF Statuses
<1>. QED BY <1>1, <1>3

LEMMA UpsertAlone ==
  ASSUME Alone, AloneInv, NEW t \in Tasks, Upsert(t)
  PROVE  AloneFacts(t)'
<1>1. At(t, "upsert")
  BY DEF Upsert
<1>2. IInv /\ run \in [Tasks -> Runs] /\ run[t] \in Runs /\ IdleRun.pc = "idle"
  BY Types DEF AloneInv
<1>3. CASE News(t) = {}
  <2>1. run'[t].pc = "idle"
    BY <1>2, <1>3 DEF Upsert
  <2>. QED BY <2>1 DEF AloneFacts, At
<1>4. CASE News(t) # {}
  <2>1. run'[t] = [run[t] EXCEPT !.pc = "events"]
    BY <1>2, <1>4 DEF Upsert
  <2>2. /\ run'[t].pc = "events" /\ run'[t].rows = run[t].rows
        /\ run'[t].before = run[t].before /\ run'[t].fresh = run[t].fresh
    BY <1>2, <2>1 DEF Runs
  <2>3. News(t)' = News(t)
    BY <2>2 DEF News
  <2>4. ASSUME NEW s \in News(t)
        PROVE  stored'[s] = run[t].rows[s] /\ run[t].rows[s] \in Later[run[t].before[s]]
    <3>1. s \in Setups /\ run[t].rows[s] # "absent" /\ run[t].rows[s] # run[t].before[s]
      BY DEF News
    <3>2. /\ stored[s] \notin Final /\ run[t].before[s] = stored[s]
          /\ Upto(stored[s], run[t].rows[s])
      BY <1>1, <3>1, BeforeUpsert
    <3>. QED BY <3>1, <3>2 DEF Upsert, Writable, Upto
  <2>. QED BY <2>2, <2>3, <2>4 DEF AloneFacts, At
<1>. QED BY <1>3, <1>4

LEMMA ReadAlone ==
  ASSUME Alone, AloneInv, NEW t \in Tasks,
         ReadOldest(t) \/ LoadCandles(t) \/ ReadFinal(t) \/ ReadPrevious(t)
  PROVE  AloneFacts(t)' /\ run'[t].pc # "events"
<1>1. /\ IInv /\ run \in [Tasks -> Runs] /\ run[t] \in Runs /\ AloneFacts(t)
      /\ stored' = stored /\ AfterFinal(t) = "previous"
  BY Types DEF Alone, AloneInv, AfterFinal, ReadOldest, LoadCandles, ReadFinal, ReadPrevious
<1>2. CASE ReadOldest(t)
  <2>1. run'[t].pc = "load"
    BY <1>1, <1>2 DEF ReadOldest, Runs
  <2>. QED BY <2>1 DEF AloneFacts, At
<1>3. CASE LoadCandles(t)
  <2>0. PICK seen \in [Setups -> Statuses], fresh \in SUBSET Setups :
          /\ \A s \in Setups : seen[s] \in {"absent", chart[s]}
          /\ run' = [run EXCEPT ![t].pc = "final", ![t].rows = seen, ![t].fresh = fresh,
                                ![t].cover = {}]
    BY <1>3 DEF LoadCandles, Known
  <2>1. run'[t].pc = "final" /\ run'[t].rows = seen
    BY <1>1, <2>0 DEF Runs
  <2>2. ASSUME NEW s \in Setups
        PROVE  run'[t].rows[s] = "absent" \/ Upto(stored[s], run'[t].rows[s])
    <3>1. run'[t].rows[s] \in {"absent", chart[s]}
      BY <2>0, <2>1
    <3>2. Upto(stored[s], chart[s])
      BY <1>1 DEF IInv, StoredHappened
    <3>. QED BY <3>1, <3>2
  <2>. QED BY <1>1, <2>1, <2>2 DEF AloneFacts, At
<1>4. CASE ReadFinal(t)
  <2>1. run'[t].pc = "previous"
    BY <1>1, <1>4 DEF ReadFinal, Runs
  <2>2. ASSUME NEW s \in Setups
        PROVE  /\ run'[t].rows[s] = "absent" \/ Upto(stored[s], run'[t].rows[s])
               /\ run'[t].rows[s] # "absent" => stored[s] \notin Final
    <3>1. run'[t].rows[s] = IF stored[s] \in Final THEN "absent" ELSE run[t].rows[s]
      BY <1>1, <1>4 DEF ReadFinal, Runs
    <3>2. run[t].rows[s] = "absent" \/ Upto(stored[s], run[t].rows[s])
      BY <1>1, <1>4 DEF AloneFacts, ReadFinal, At
    <3>. QED BY <3>1, <3>2
  <2>. QED BY <1>1, <2>1, <2>2 DEF AloneFacts, At
<1>5. CASE ReadPrevious(t)
  <2>1. run'[t].pc = "upsert" /\ run'[t].rows = run[t].rows
    BY <1>1, <1>5 DEF ReadPrevious, Runs
  <2>2. \A s \in Setups : run'[t].before[s] = IF stored[s] \in Unresolved THEN stored[s] ELSE "absent"
    BY <1>1, <1>5 DEF ReadPrevious, Runs
  <2>3. \A s \in Setups : /\ run[t].rows[s] = "absent" \/ Upto(stored[s], run[t].rows[s])
                          /\ run[t].rows[s] # "absent" => stored[s] \notin Final
    BY <1>1, <1>5 DEF AloneFacts, ReadPrevious, At
  <2>. QED BY <1>1, <2>1, <2>2, <2>3 DEF AloneFacts, At
<1>. QED BY <1>2, <1>3, <1>4, <1>5

\* A step of a run is a change of its own record, made while it is alone.
LEMMA AloneRecord ==
  ASSUME NEW t \in Tasks, Work(t), run \in [Tasks -> Runs], ~overlap
  PROVE  /\ run' = [run EXCEPT ![t] = run'[t]]
         /\ ~At(t, "idle") \/ \A u \in Tasks : At(u, "idle")
         /\ UNCHANGED <<overlap, faults, chart>>
<1>1. UNCHANGED <<overlap, faults, chart>>
  BY DEF Work, ReadOldest, LoadCandles, ReadFinal, ReadPrevious, Upsert, AddEvents, env
<1>2. ~At(t, "idle") \/ \A u \in Tasks : At(u, "idle")
  BY DEF Work, ReadOldest, LoadCandles, ReadFinal, ReadPrevious, Upsert, AddEvents, At
<1>3. run' = [run EXCEPT ![t] = run'[t]]
  BY DEF Work, ReadOldest, LoadCandles, ReadFinal, ReadPrevious, Upsert, AddEvents
<1>. QED BY <1>1, <1>2, <1>3

LEMMA StepAlone == ASSUME Alone PROVE AloneInv /\ [Next]_vars => AloneInv'
<1> SUFFICES ASSUME AloneInv, [Next]_vars PROVE AloneInv'
  OBVIOUS
<1>1. IInv'
  BY StepIInv DEF AloneInv
<1>2. CASE UNCHANGED vars
  BY <1>1, <1>2 DEF vars, AloneInv, AloneFacts, At, News
<1>3. ASSUME NEW s \in Setups, Candle(s) PROVE AloneInv'
  BY <1>1, <1>3 DEF Candle, AloneInv, AloneFacts, At, News
<1>4. ASSUME NEW t \in Tasks, Work(t) PROVE AloneInv'
  <2>1. /\ run' = [run EXCEPT ![t] = run'[t]]
        /\ ~At(t, "idle") \/ \A u \in Tasks : At(u, "idle")
        /\ UNCHANGED <<overlap, faults>>
    BY <1>4, AloneRecord DEF AloneInv, IInv, TypeOK
  <2>2. AloneFacts(t)'
    <3>1. CASE AddEvents(t)
      <4>1. run'[t].pc = "idle"
        BY <3>1 DEF AddEvents, IdleRun, AloneInv, IInv, TypeOK
      <4>. QED BY <4>1 DEF AloneFacts, At
    <3>. QED BY <1>4, <3>1, UpsertAlone, ReadAlone DEF Work
  <2>. QED BY <1>1, <2>1, <2>2, AloneOthers
<1>. QED BY <1>2, <1>3, <1>4, NoFaults DEF Next

-----------------------------------------------------------------------------
(* Refinement                                                              *)

LEMMA SameOrder ==
  Promise!Statuses = Statuses /\ Promise!Later = Later
  BY DEF Promise!Statuses, Statuses, Promise!Later, Later, Promise!Final, Final,
         Promise!Unresolved, Unresolved

LEMMA AnnouncedIdle ==
  ASSUME stored \in [Setups -> Statuses], \A t \in Tasks : ~At(t, "events")
  PROVE  Announced = stored
  BY DEF Announced

LEMMA AnnouncedEvents ==
  ASSUME NEW t \in Tasks, At(t, "events"), \A u \in Tasks : At(u, "events") => u = t
  PROVE  Announced = [s \in Setups |-> IF s \in News(t) THEN run[t].before[s] ELSE stored[s]]
<1>1. (CHOOSE u \in Tasks : At(u, "events")) = t
  OBVIOUS
<1>2. \A s \in Setups : (\E u \in Tasks : At(u, "events") /\ s \in News(u)) <=> s \in News(t)
  OBVIOUS
<1>. QED BY <1>1, <1>2 DEF Announced

(* While a run is at work on its own the others are idle, and none of them *)
(* has events to add.                                                      *)
LEMMA AloneNoEvents ==
  ASSUME AloneInv, NEW t \in Tasks, Work(t)
  PROVE  /\ \A u \in Tasks : u # t => ~At(u, "events") /\ run'[u] = run[u]
         /\ ~AddEvents(t) => ~At(t, "events")
<1>1. run \in [Tasks -> Runs] /\ ~overlap
  BY DEF AloneInv, IInv, TypeOK
<1>2. /\ run' = [run EXCEPT ![t] = run'[t]]
      /\ ~At(t, "idle") \/ \A u \in Tasks : At(u, "idle")
  BY <1>1, AloneRecord
<1>3. \A u \in Tasks : u # t => At(u, "idle")
  BY <1>2 DEF AloneInv, At
<1>4. ~AddEvents(t) => ~At(t, "events")
  BY DEF Work, ReadOldest, LoadCandles, ReadFinal, ReadPrevious, Upsert, At
<1>. QED BY <1>1, <1>2, <1>3, <1>4 DEF At

LEMMA UpsertPromise ==
  ASSUME Alone, AloneInv, AloneInv', NEW t \in Tasks, Upsert(t)
  PROVE  Promise!Change
<1>1. /\ stored \in [Setups -> Statuses] /\ stored' \in [Setups -> Statuses]
      /\ run \in [Tasks -> Runs] /\ run[t] \in Runs /\ IdleRun.pc = "idle"
      /\ outbox \in [Setups -> Seq(Statuses \X Statuses)] /\ outbox' = outbox
  BY Types DEF AloneInv, IInv, TypeOK, Upsert
<1>2. At(t, "upsert") /\ Work(t) /\ ~AddEvents(t)
  BY DEF Upsert, Work, AddEvents, At
<1>3. \A u \in Tasks : ~At(u, "events") /\ (u # t => run'[u] = run[u])
  BY <1>2, AloneNoEvents
<1>4. Announced = stored
  BY <1>1, <1>3, AnnouncedIdle
<1>5. Announced' = [s \in Setups |-> IF s \in News(t) THEN run[t].before[s] ELSE stored'[s]]
  <2>1. CASE News(t) = {}
    <3>1. run'[t].pc = "idle"
      BY <1>1, <2>1 DEF Upsert
    <3>2. \A u \in Tasks : run'[u].pc # "events"
      BY <1>3, <3>1 DEF At
    <3>3. Announced' = stored'
      BY <1>1, <3>2 DEF Announced, At
    <3>. QED BY <1>1, <2>1, <3>3
  <2>2. CASE News(t) # {}
    <3>1. run'[t] = [run[t] EXCEPT !.pc = "events"]
      BY <1>1, <2>2 DEF Upsert
    <3>2. /\ run'[t].pc = "events" /\ run'[t].rows = run[t].rows
          /\ run'[t].before = run[t].before /\ run'[t].fresh = run[t].fresh
      BY <1>1, <3>1 DEF Runs
    <3>3. News(t)' = News(t)
      BY <3>2 DEF News
    <3>4. \A u \in Tasks : At(u, "events")' => u = t
      BY <1>3 DEF At
    <3>5. (CHOOSE u \in Tasks : At(u, "events")') = t
      BY <3>2, <3>4 DEF At
    <3>6. \A s \in Setups : (\E u \in Tasks : At(u, "events")' /\ s \in News(u)') <=> s \in News(t)
      BY <3>2, <3>3, <3>4 DEF At
    <3>7. Announced' = [s \in Setups |->
                          IF \E u \in Tasks : At(u, "events")' /\ s \in News(u)'
                          THEN run'[CHOOSE u \in Tasks : At(u, "events")'].before[s]
                          ELSE stored'[s]]
      BY DEF Announced
    <3>. QED BY <3>2, <3>5, <3>6, <3>7
  <2>. QED BY <2>1, <2>2
<1> DEFINE silent == {s \in Setups : stored[s] = "absent"}
<1>6. ASSUME NEW s \in Setups
      PROVE  /\ Announced'[s] \in Statuses
             /\ Announced'[s] = stored[s] \/ (stored[s] = "absent" /\ Announced'[s] \in Later["absent"])
  <2>0. /\ stored[s] \in Statuses /\ stored'[s] \in Statuses /\ run[t].rows[s] \in Statuses
        /\ run[t].before[s] \in Statuses
    BY <1>1, Types DEF AloneInv, Statuses
  <2>1. run[t].rows[s] # "absent" => /\ stored[s] \notin Final
                                     /\ run[t].before[s] = stored[s]
                                     /\ Upto(stored[s], run[t].rows[s])
    BY <1>2, BeforeUpsert
  <2>2. stored'[s] = IF run[t].rows[s] # "absent" /\ stored[s] \notin Final THEN run[t].rows[s]
                     ELSE stored[s]
    BY DEF Upsert, Writable
  <2>3. CASE s \in News(t)
    <3>1. Announced'[s] = run[t].before[s]
      BY <1>5, <2>3
    <3>. QED BY <2>0, <2>1, <2>3, <3>1 DEF News
  <2>4. CASE s \notin News(t)
    <3>1. Announced'[s] = stored'[s]
      BY <1>5, <2>4
    <3>2. run[t].rows[s] = "absent" \/ run[t].rows[s] = run[t].before[s] \/ run[t].before[s] = "absent"
      BY <2>4 DEF News, Alone
    <3>3. \A b \in Statuses : b # "absent" => b \in Later["absent"]
      BY DEF Later, Statuses
    <3>. QED BY <2>0, <2>1, <2>2, <3>1, <3>2, <3>3
  <2>. QED BY <2>3, <2>4
<1>7. Announced' \in [Setups -> Statuses]
  BY <1>5, <1>6
<1>8. outbox' = [s \in Setups |->
                   IF Announced'[s] = Announced[s] \/ s \in silent THEN outbox[s]
                   ELSE Append(outbox[s], <<Announced[s], Announced'[s]>>)]
  BY <1>1, <1>4, <1>6
<1>9. /\ \A s \in Setups : Announced'[s] = Announced[s] \/ Announced'[s] \in Later[Announced[s]]
      /\ \A s \in silent : Announced[s] = "absent"
  BY <1>4, <1>6
<1>. QED BY <1>7, <1>8, <1>9, SameOrder DEF Promise!Change

LEMMA AddEventsPromise ==
  ASSUME Alone, AloneInv, NEW t \in Tasks, AddEvents(t)
  PROVE  Promise!Change
<1>1. /\ stored \in [Setups -> Statuses] /\ stored' = stored
      /\ run \in [Tasks -> Runs] /\ IdleRun.pc = "idle"
      /\ run' = [run EXCEPT ![t] = IdleRun]
      /\ outbox' = [s \in Setups |->
                      IF s \in News(t) THEN Append(outbox[s], <<run[t].before[s], run[t].rows[s]>>)
                      ELSE outbox[s]]
  BY Types DEF AloneInv, IInv, TypeOK, AddEvents
<1>2. At(t, "events") /\ Work(t)
  BY DEF AddEvents, Work
<1>3. \A u \in Tasks : u # t => ~At(u, "events") /\ run'[u] = run[u]
  BY <1>2, AloneNoEvents
<1>4. Announced = [s \in Setups |-> IF s \in News(t) THEN run[t].before[s] ELSE stored[s]]
  BY <1>2, <1>3, AnnouncedEvents
<1>5. Announced' = stored
  <2>1. \A u \in Tasks : run'[u].pc # "events"
    BY <1>1, <1>3 DEF At
  <2>. QED BY <1>1, <2>1 DEF Announced, At
<1>6. ASSUME NEW s \in News(t)
      PROVE  /\ stored[s] = run[t].rows[s] /\ stored[s] \in Later[Announced[s]]
             /\ Announced[s] = run[t].before[s] /\ stored[s] # Announced[s]
  <2>1. s \in Setups /\ run[t].rows[s] # run[t].before[s]
    BY DEF News
  <2>2. stored[s] = run[t].rows[s] /\ run[t].rows[s] \in Later[run[t].before[s]]
    BY <1>2 DEF AloneInv, AloneFacts
  <2>. QED BY <1>4, <2>1, <2>2
<1>7. \A s \in Setups : s \notin News(t) => stored[s] = Announced[s]
  BY <1>4
<1>8. \A s \in Setups : stored[s] = Announced[s] \/ stored[s] \in Later[Announced[s]]
  BY <1>6, <1>7
<1> DEFINE silent == {s \in Setups : FALSE}
<1>9. outbox' = [s \in Setups |->
                   IF Announced'[s] = Announced[s] \/ s \in silent THEN outbox[s]
                   ELSE Append(outbox[s], <<Announced[s], Announced'[s]>>)]
  BY <1>1, <1>5, <1>6, <1>7
<1>10. /\ Announced' \in [Setups -> Statuses] /\ silent \in SUBSET Setups
       /\ \A s \in Setups : Announced'[s] = Announced[s] \/ Announced'[s] \in Later[Announced[s]]
       /\ \A s \in silent : Announced[s] = "absent"
  BY <1>1, <1>5, <1>8
<1> HIDE DEF silent
<1>. QED BY <1>9, <1>10, SameOrder DEF Promise!Change

LEMMA StepPromise ==
  ASSUME Alone, AloneInv, AloneInv', [Next]_vars
  PROVE  [Promise!Change]_(Promise!vars)
<1>1. CASE UNCHANGED vars \/ \E s \in Setups : Candle(s)
  <2>1. UNCHANGED <<stored, outbox, run>>
    BY <1>1 DEF vars, Candle
  <2>. QED BY <2>1 DEF Promise!vars, Announced, At, News
<1>2. ASSUME NEW t \in Tasks, ReadOldest(t) \/ LoadCandles(t) \/ ReadFinal(t) \/ ReadPrevious(t)
      PROVE  UNCHANGED <<Announced, outbox>>
  <2>1. Work(t) /\ ~AddEvents(t) /\ UNCHANGED <<stored, outbox>>
    BY <1>2 DEF Work, AddEvents, ReadOldest, LoadCandles, ReadFinal, ReadPrevious, At
  <2>2. \A u \in Tasks : run[u].pc # "events" /\ (u # t => run'[u] = run[u])
    BY <2>1, AloneNoEvents DEF At
  <2>3. \A u \in Tasks : run'[u].pc # "events"
    BY <1>2, <2>2, ReadAlone
  <2>4. stored \in [Setups -> Statuses]
    BY DEF AloneInv, IInv, TypeOK
  <2>5. Announced = stored /\ Announced' = stored'
    BY <2>1, <2>2, <2>3, <2>4 DEF Announced, At
  <2>. QED BY <2>1, <2>5
<1>. QED BY <1>1, <1>2, UpsertPromise, AddEventsPromise, NoFaults DEF Next, Work, Promise!vars

(* Live runs that neither overlap nor fail implement SetupLifecycle.       *)
THEOREM Refinement == ASSUME Alone PROVE Spec => FollowsLifecycle
<1>1. Init => AloneInv
  BY InitAlone
<1>2. AloneInv /\ [Next]_vars => AloneInv'
  BY StepAlone
<1>3. Init => Promise!Init
  <2> SUFFICES ASSUME Init PROVE Promise!Init
    OBVIOUS
  <2>1. stored = [s \in Setups |-> "absent"] /\ stored \in [Setups -> Statuses]
    BY DEF Init, Nothing, Statuses
  <2>2. \A t \in Tasks : ~At(t, "events")
    BY DEF Init, IdleRun, At
  <2>. QED BY <2>1, <2>2, AnnouncedIdle DEF Init, Promise!Init
<1>4. AloneInv /\ AloneInv' /\ [Next]_vars => [Promise!Change]_(Promise!vars)
  BY StepPromise
<1>. QED BY <1>1, <1>2, <1>3, <1>4, PTL DEF Spec, FollowsLifecycle, Promise!Spec

-----------------------------------------------------------------------------
(* What follows from the promise                                           *)

PromiseType ==
  /\ Announced \in [Setups -> Statuses]
  /\ outbox \in [Setups -> Seq(Statuses \X Statuses)]

\* Nothing is told of a setup that is not known.
Untold == \A s \in Setups : Announced[s] = "absent" => outbox[s] = <<>>

PromiseInv == PromiseType /\ Promise!Chain /\ Untold

\* The pair of one append keeps the chain unbroken.
LEMMA AppendChains ==
  ASSUME NEW q \in Seq(Statuses \X Statuses), NEW e \in Statuses \X Statuses,
         q # <<>> => /\ \A i \in 1..(Len(q) - 1) : q[i][2] = q[i + 1][1]
                     /\ q[Len(q)][2] = e[1]
  PROVE  LET r == Append(q, e) IN
           /\ r \in Seq(Statuses \X Statuses)
           /\ r # <<>>
           /\ \A i \in 1..(Len(r) - 1) : r[i][2] = r[i + 1][1]
           /\ r[Len(r)][2] = e[2]
<1> DEFINE r == Append(q, e)
<1>1. r \in Seq(Statuses \X Statuses) /\ Len(r) = Len(q) + 1 /\ r[Len(r)] = e
  OBVIOUS
<1>2. \A i \in 1..Len(q) : r[i] = q[i]
  OBVIOUS
<1>3. r # <<>>
  OBVIOUS
<1>4. ASSUME NEW i \in 1..(Len(r) - 1) PROVE r[i][2] = r[i + 1][1]
  <2>1. i \in 1..Len(q) /\ q # <<>>
    BY <1>1
  <2>2. CASE i = Len(q)
    BY <1>1, <1>2, <2>1, <2>2
  <2>3. CASE i # Len(q)
    BY <1>1, <1>2, <2>1, <2>3
  <2>. QED BY <2>2, <2>3
<1>. QED BY <1>1, <1>3, <1>4

(* By the promise alone, what is told of a setup is an unbroken chain of   *)
(* changes that ends in its status.                                        *)
LEMMA PromiseChain == Promise!Spec => []Promise!Chain
<1>1. Promise!Init => PromiseInv
  BY SameOrder DEF Promise!Init, PromiseInv, PromiseType, Promise!Chain, Untold, Statuses
<1>2. PromiseInv /\ [Promise!Change]_(Promise!vars) => PromiseInv'
  <2> SUFFICES ASSUME PromiseInv, [Promise!Change]_(Promise!vars) PROVE PromiseInv'
    OBVIOUS
  <2>1. CASE UNCHANGED Promise!vars
    BY <2>1 DEF PromiseInv, PromiseType, Promise!Chain, Untold, Promise!vars
  <2>2. CASE Promise!Change
    <3>1. PICK now \in [Setups -> Statuses], silent \in SUBSET Setups :
            /\ \A s \in Setups : now[s] = Announced[s] \/ now[s] \in Later[Announced[s]]
            /\ \A s \in silent : Announced[s] = "absent"
            /\ Announced' = now
            /\ outbox' = [s \in Setups |->
                          IF now[s] = Announced[s] \/ s \in silent THEN outbox[s]
                          ELSE Append(outbox[s], <<Announced[s], now[s]>>)]
      BY <2>2, SameOrder DEF Promise!Change
    <3>2. ASSUME NEW s \in Setups
          PROVE  /\ outbox'[s] \in Seq(Statuses \X Statuses)
                 /\ outbox'[s] # <<>> =>
                      /\ \A i \in 1..(Len(outbox'[s]) - 1) : outbox'[s][i][2] = outbox'[s][i + 1][1]
                      /\ outbox'[s][Len(outbox'[s])][2] = now[s]
      <4> DEFINE q == outbox[s]
                 e == <<Announced[s], now[s]>>
      <4>1. /\ q \in Seq(Statuses \X Statuses)
            /\ e \in Statuses \X Statuses /\ e[1] = Announced[s] /\ e[2] = now[s]
            /\ q # <<>> => /\ \A i \in 1..(Len(q) - 1) : q[i][2] = q[i + 1][1]
                           /\ q[Len(q)][2] = Announced[s]
        BY DEF PromiseInv, PromiseType, Promise!Chain
      <4>2. CASE now[s] = Announced[s]
        BY <3>1, <4>1, <4>2
      <4>3. CASE s \in silent /\ now[s] # Announced[s]
        <5>1. outbox'[s] = q /\ Announced[s] = "absent"
          BY <3>1, <4>3
        <5>2. q = <<>>
          BY <5>1 DEF PromiseInv, Untold
        <5>. QED BY <4>1, <5>1, <5>2
      <4>4. CASE s \notin silent /\ now[s] # Announced[s]
        <5>1. outbox'[s] = Append(q, e)
          BY <3>1, <4>4
        <5>. QED BY <4>1, <5>1, AppendChains
      <4>. QED BY <4>2, <4>3, <4>4
    <3>3. ASSUME NEW s \in Setups, now[s] = "absent" PROVE outbox'[s] = <<>>
      <4>1. Announced[s] = "absent"
        BY <3>1, <3>3 DEF PromiseInv, PromiseType, Later, Statuses, Unresolved, Final
      <4>. QED BY <3>1, <3>3, <4>1 DEF PromiseInv, Untold
    <3>4. PromiseType'
      <4>1. outbox' = [s \in Setups |-> outbox'[s]]
        BY <3>1
      <4>. QED BY <3>1, <3>2, <4>1 DEF PromiseType
    <3>. QED BY <3>1, <3>2, <3>3, <3>4 DEF PromiseInv, Promise!Chain, Untold
  <2>. QED BY <2>1, <2>2
<1>3. PromiseInv => Promise!Chain
  BY DEF PromiseInv
<1>. QED BY <1>1, <1>2, <1>3, PTL DEF Promise!Spec

(* For live runs that neither overlap nor fail, the events of a setup in   *)
(* the outbox are an unbroken chain: each starts from the status where the *)
(* one before it ended, and the last one ends in the status of the table.  *)
THEOREM EventsChain == ASSUME Alone PROVE Spec => []Promise!Chain
BY Refinement, PromiseChain, PTL DEF FollowsLifecycle
=============================================================================
