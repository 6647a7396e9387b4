------------------------- MODULE PaperAccountProofs -------------------------
(***************************************************************************)
(* Proofs about PaperAccount, for every number of pairs and signals, every *)
(* limit and every number of crashes, and, in the last part, about         *)
(* PaperFollowsSetup, for every chart.                                     *)
(*                                                                         *)
(* A task writes the rows of its own signals only, so what another task    *)
(* relies on is untouched by its steps (LocalStep); the two facts that     *)
(* speak of several tasks, the limit on open signals and the turns of      *)
(* tasks that run one at a time, are treated apart.                        *)
(***************************************************************************)
EXTENDS PaperAccount, PaperFollowsSetup, NumberLemmas

(* The types of a run's local variables.                                   *)
LEMMA RunTypes ==
  ASSUME TypeOK, NEW p \in Pairs
  PROVE  /\ run[p] \in RunType /\ Cur(p) \in Signals /\ run[p].pc \in PcLabels
         /\ run[p].todo \in SUBSET Signals /\ run[p].list \in SUBSET Orders
         /\ IdleRun \in RunType /\ IdleRun.pc = "idle" /\ IdleRun.todo = {}
  BY ConstantsAssumption DEF TypeOK, RunType, Cur, IdleRun, PcLabels

(* A step that only moves a task on keeps its local variables and the      *)
(* other tasks.                                                            *)
LEMMA GotoFields ==
  ASSUME TypeOK, NEW p \in Pairs, NEW label \in PcLabels, Goto(p, label)
  PROVE  /\ run' \in [Pairs -> RunType]
         /\ \A q \in Pairs : q # p => run'[q] = run[q]
         /\ run'[p] = [run[p] EXCEPT !.pc = label]
         /\ run'[p].pc = label /\ run'[p].cur = run[p].cur /\ run'[p].todo = run[p].todo
         /\ run'[p].list = run[p].list
  BY DEF TypeOK, Goto, RunType

(* The rows of a signal: its columns in the tables.                        *)
SameSignal(s) ==
  /\ sig'[s] = sig[s] /\ held'[s] = held[s] /\ closed'[s] = closed[s] /\ market'[s] = market[s]
  /\ \A u \in Purposes : row'[<<s, u>>] = row[<<s, u>>]

(* A task that does not step, none of whose signals is written, keeps      *)
(* what it relies on.                                                      *)
LEMMA KeepFacts ==
  ASSUME TypeOK, NEW q \in Pairs, RunFacts(q), run'[q] = run[q],
         \A s \in Signals : Pair[s] = q => SameSignal(s)
  PROVE  RunFacts(q)'
  <1>1. Cur(q) \in Signals /\ run[q].pc \in PcLabels
    BY RunTypes
  <1>2. Cur(q)' = Cur(q) /\ run'[q].todo = run[q].todo /\ run'[q].list = run[q].list
        /\ run'[q].pc = run[q].pc
    BY DEF Cur
  <1>3. CASE run[q].pc \in {"idle", "loop", "reread", "new"}
    BY <1>2, <1>3 DEF RunFacts, At, FillSteps, ExitSteps
  <1>4. CASE run[q].pc \notin {"idle", "loop", "reread", "new"}
    <2>1. SameSignal(Cur(q))
      BY <1>1, <1>4 DEF RunFacts
    <2>2. ExitReason(Cur(q))' = ExitReason(Cur(q))
      BY <1>2, <2>1 DEF ExitReason, SameSignal
    <2> QED
      BY <1>2, <2>1, <2>2 DEF RunFacts, At, SameSignal, Purposes
  <1> QED
    BY <1>3, <1>4

(* What EnteredIsBacked says of one signal.                                *)
Backed(s) ==
  sig[s] = "entered" =>
    /\ held[s] + closed[s] > 0
    /\ row[<<s, "entry">>] = "filled"
    /\ row[<<s, "stop_loss">>] # "none" /\ row[<<s, "take_profit">>] # "none"

(* A step of one task keeps the invariant when it writes only that task's  *)
(* signals and keeps the limit, the turns and what the task itself needs.  *)
LEMMA LocalStep ==
  ASSUME IInv, NEW p \in Pairs,
         \A q \in Pairs : q # p => run'[q] = run[q],
         \A s \in Signals : Pair[s] # p => SameSignal(s),
         TypeOK', LimitFact', OneAtATime', RunFacts(p)',
         \A s \in Signals : Pair[s] = p => Backed(s)'
  PROVE  IInv'
  <1>1. \A q \in Pairs : RunFacts(q)'
    <2> SUFFICES ASSUME NEW q \in Pairs, q # p PROVE RunFacts(q)'
      OBVIOUS
    <2> QED
      BY KeepFacts DEF IInv
  <1>2. EnteredIsBacked'
    <2> SUFFICES ASSUME NEW s \in Signals, Pair[s] # p PROVE Backed(s)'
      BY DEF EnteredIsBacked, Backed
    <2> QED
      BY DEF IInv, EnteredIsBacked, Backed, SameSignal, Purposes
  <1> QED
    BY <1>1, <1>2 DEF IInv

--------------------------------------------------------------------------------
(* The limit and the turns                                                 *)

(* The open signals and the tasks about to create one are finitely many.   *)
LEMMA Finite ==
  /\ IsFiniteSet(OpenSignals) /\ Cardinality(OpenSignals) \in Nat
  /\ IsFiniteSet(Arming) /\ Cardinality(Arming) \in Nat
  /\ Cardinality(Arming) <= Cardinality(Pairs) /\ Cardinality(Pairs) \in Nat
  <1>1. OpenSignals \subseteq Signals /\ Arming \subseteq Pairs
    BY DEF OpenSignals, Arming
  <1> QED
    BY <1>1, ConstantsAssumption, FS_Subset, FS_CardinalityType

(* ... after a step as well.                                               *)
LEMMA FiniteNext ==
  /\ IsFiniteSet(OpenSignals') /\ Cardinality(OpenSignals') \in Nat
  /\ IsFiniteSet(Arming') /\ Cardinality(Arming') \in Nat
  /\ Cardinality(Arming') <= Cardinality(Pairs) /\ Cardinality(Pairs) \in Nat
  <1>1. OpenSignals' \subseteq Signals /\ Arming' \subseteq Pairs
    BY DEF OpenSignals, Arming
  <1> QED
    BY <1>1, ConstantsAssumption, FS_Subset, FS_CardinalityType

(* The limit's two counts only matter when one of them grows.              *)
LEMMA LimitKept ==
  ASSUME TypeOK, LimitFact, OpenSignals' \subseteq OpenSignals, Arming' \subseteq Arming,
         overlap' = overlap
  PROVE  LimitFact'
  <1>1. Cardinality(OpenSignals') <= Cardinality(OpenSignals)
    BY Finite, FS_Subset
  <1>2. Cardinality(Arming') <= Cardinality(Arming)
    BY Finite, FS_Subset
  <1> QED
    BY <1>1, <1>2, Finite, FiniteNext, ConstantsAssumption DEF LimitFact

(* Tasks that run one at a time keep doing so while none starts.           *)
LEMMA TurnsKept ==
  ASSUME OneAtATime, NEW p \in Pairs, overlap' = overlap,
         \A q \in Pairs : q # p => run'[q] = run[q],
         run'[p].pc # "idle" => run[p].pc # "idle"
  PROVE  OneAtATime'
  BY DEF OneAtATime, At

(* The steps of a task that has started and passes no limit: neither count *)
(* grows, the turns stay.                                                  *)
LEMMA Counts ==
  ASSUME IInv, NEW p \in Pairs, overlap' = overlap,
         \A q \in Pairs : q # p => run'[q] = run[q],
         ~At(p, "idle"), run'[p].pc # "arm",
         \A s \in Signals : sig'[s] \in {"armed", "entered"} => sig[s] \in {"armed", "entered"}
  PROVE  LimitFact' /\ OneAtATime'
  <1>1. OpenSignals' \subseteq OpenSignals /\ Arming' \subseteq Arming
    BY DEF OpenSignals, Arming, At
  <1> QED
    BY <1>1, LimitKept, TurnsKept DEF IInv, At

(* Most steps: a task that has started gives its run a new value and the   *)
(* tables stay as they are.                                                *)
LEMMA QuietStep ==
  ASSUME IInv, NEW p \in Pairs, NEW r \in RunType, run' = [run EXCEPT ![p] = r],
         ~At(p, "idle"), r.pc # "arm", UNCHANGED <<env, tables>>, RunFacts(p)'
  PROVE  IInv'
  <1>1. TypeOK
    BY DEF IInv
  <1>2. /\ run' \in [Pairs -> RunType] /\ run'[p] = r
        /\ \A q \in Pairs : q # p => run'[q] = run[q]
    BY <1>1 DEF TypeOK
  <1>3. TypeOK'
    BY <1>1, <1>2 DEF TypeOK, env, tables
  <1>4. \A s \in Signals : SameSignal(s) /\ (Backed(s) => Backed(s)')
    BY DEF SameSignal, Backed, env, tables
  <1>5. LimitFact' /\ OneAtATime'
    BY <1>2, Counts DEF env, tables
  <1>6. \A s \in Signals : Backed(s)
    BY DEF IInv, EnteredIsBacked, Backed
  <1> QED
    BY <1>2, <1>3, <1>4, <1>5, <1>6, LocalStep

--------------------------------------------------------------------------------
(* Steps that write no row                                                 *)

(* Between two signals a run relies only on the signals it has left.       *)
LEMMA BetweenFacts ==
  ASSUME IInv, NEW p \in Pairs, run'[p].pc \in {"idle", "loop", "reread", "new"},
         run'[p].todo \subseteq run[p].todo
  PROVE  RunFacts(p)'
  BY DEF IInv, RunFacts, At, FillSteps, ExitSteps

(* Steps after which the run is between two signals.                       *)
LEMMA BetweenStep ==
  ASSUME IInv, NEW p \in Pairs,
         \/ Reread(p) \/ ArmedWaits(p) \/ ArmedRaises(p) \/ PositionDone(p)
         \/ PositionStays(p) \/ NewSignals(p) \/ EndRun(p)
  PROVE  IInv'
  <1>1. TypeOK
    BY DEF IInv
  <1>2. ASSUME NEW r \in RunType, run' = [run EXCEPT ![p] = r], ~At(p, "idle"),
               UNCHANGED <<env, tables>>, r.pc \in {"idle", "loop", "reread", "new"},
               r.todo \subseteq run[p].todo
        PROVE  IInv'
    <2>1. run'[p] = r
      BY <1>1, <1>2 DEF TypeOK
    <2>2. RunFacts(p)'
      BY <1>2, <2>1, BetweenFacts
    <2> QED
      BY <1>2, <2>2, QuietStep
  <1>3. CASE Reread(p)
    <2>1. [IdleRun EXCEPT !.pc = "loop", !.kill = kill, !.todo = run[p].todo] \in RunType
      BY <1>1, RunTypes DEF RunType, PcLabels, TypeOK
    <2>2. [IdleRun EXCEPT !.pc = "loop", !.kill = kill, !.todo = run[p].todo].todo = run[p].todo
      BY DEF IdleRun
    <2>3. [IdleRun EXCEPT !.pc = "loop", !.kill = kill, !.todo = run[p].todo].pc = "loop"
      BY DEF IdleRun
    <2> QED
      BY <1>2, <1>3, <2>1, <2>2, <2>3 DEF Reread, At
  <1>4. CASE ArmedWaits(p)
    <2>1. PICK s \in Signals : Take(p, s, "armed", "reread")
      BY <1>4 DEF ArmedWaits
    <2>2. [run[p] EXCEPT !.pc = "reread", !.cur = s, !.todo = @ \ {s}] \in RunType
      BY <1>1, RunTypes DEF RunType, PcLabels
    <2>3. run' = [run EXCEPT ![p] = [run[p] EXCEPT !.pc = "reread", !.cur = s, !.todo = @ \ {s}]]
      BY <2>1 DEF Take
    <2>4. [run[p] EXCEPT !.pc = "reread", !.cur = s, !.todo = @ \ {s}].todo = run[p].todo \ {s}
      BY <1>1, RunTypes DEF RunType
    <2>5. [run[p] EXCEPT !.pc = "reread", !.cur = s, !.todo = @ \ {s}].pc = "reread"
      BY <1>1, RunTypes DEF RunType
    <2> QED
      BY <1>2, <1>4, <2>1, <2>2, <2>3, <2>4, <2>5 DEF ArmedWaits, Take, At
  <1>5. CASE ArmedRaises(p) \/ EndRun(p)
    BY <1>1, <1>2, <1>5, RunTypes DEF ArmedRaises, EndRun, At
  <1>6. CASE PositionDone(p) \/ PositionStays(p) \/ NewSignals(p)
    <2>1. PICK label \in {"reread", "idle", "new"} : Goto(p, label)
      BY <1>6 DEF PositionDone, PositionStays, NewSignals
    <2>2. [run[p] EXCEPT !.pc = label] \in RunType
      BY <1>1, RunTypes DEF RunType, PcLabels
    <2>3. /\ [run[p] EXCEPT !.pc = label].pc = label
          /\ [run[p] EXCEPT !.pc = label].todo = run[p].todo
      BY <1>1, RunTypes DEF RunType
    <2>4. run' = [run EXCEPT ![p] = [run[p] EXCEPT !.pc = label]]
      BY <2>1 DEF Goto
    <2>5. ~At(p, "idle") /\ UNCHANGED <<env, tables>>
      BY <1>6 DEF PositionDone, PositionStays, NewSignals, At
    <2> QED
      BY <1>2, <2>2, <2>3, <2>4, <2>5
  <1> QED
    BY <1>3, <1>4, <1>5, <1>6

(* An open signal of the pair is taken up.                                 *)
LEMMA TakeFields ==
  ASSUME IInv, NEW p \in Pairs, NEW s \in Signals, NEW status, NEW label \in PcLabels,
         Take(p, s, status, label)
  PROVE  /\ Pair[s] = p /\ sig[s] = status /\ At(p, "loop")
         /\ run' \in [Pairs -> RunType]
         /\ \A q \in Pairs : q # p => run'[q] = run[q]
         /\ run'[p].pc = label /\ run'[p].cur = s /\ run'[p].todo \subseteq run[p].todo
         /\ run'[p].list = run[p].list
         /\ \E r \in RunType : run' = [run EXCEPT ![p] = r]
  <1>1. TypeOK /\ Pair[s] = p /\ sig[s] = status /\ At(p, "loop")
    BY DEF IInv, RunFacts, Take
  <1> DEFINE r == [run[p] EXCEPT !.pc = label, !.cur = s, !.todo = @ \ {s}]
  <1>2. /\ r \in RunType /\ r.pc = label /\ r.cur = s /\ r.todo = run[p].todo \ {s}
        /\ r.list = run[p].list
    BY <1>1, RunTypes DEF RunType
  <1>3. run' = [run EXCEPT ![p] = r]
    BY DEF Take
  <1> QED
    BY <1>1, <1>2, <1>3 DEF TypeOK

(* A filled entry and an entered signal are taken up; an exit is found;    *)
(* the rows are settled; the account is read.                              *)
LEMMA QuietWithSignal ==
  ASSUME IInv, NEW p \in Pairs,
         \/ ArmedFills(p) \/ UpdateEntered(p) \/ PositionExits(p) \/ RowsSettled(p)
         \/ ReadAccount(p)
  PROVE  IInv'
  <1>1. TypeOK /\ RunFacts(p)
    BY DEF IInv
  <1>2. CASE ArmedFills(p) \/ UpdateEntered(p)
    <2>1. PICK s \in Signals : \/ Take(p, s, "armed", "open_position")
                              \/ Take(p, s, "entered", "entered")
      BY <1>2 DEF ArmedFills, UpdateEntered
    <2>2. /\ Pair[s] = p /\ At(p, "loop") /\ run'[p].cur = s /\ run'[p].todo \subseteq run[p].todo
          /\ \/ run'[p].pc = "open_position" /\ sig[s] = "armed"
             \/ run'[p].pc = "entered" /\ sig[s] = "entered"
          /\ \E r \in RunType : run' = [run EXCEPT ![p] = r]
      BY <2>1, TakeFields DEF PcLabels
    <2>3. UNCHANGED <<env, tables>>
      BY <1>2 DEF ArmedFills, UpdateEntered
    <2>4. RunFacts(p)'
      BY <1>1, <2>2, <2>3 DEF RunFacts, At, Cur, FillSteps, ExitSteps, tables
    <2>5. PICK r \in RunType : run' = [run EXCEPT ![p] = r]
      BY <2>2
    <2>6. r.pc # "arm"
      BY <1>1, <2>2, <2>5 DEF TypeOK
    <2> QED
      BY <2>2, <2>3, <2>4, <2>5, <2>6, QuietStep DEF At
  <1>3. CASE PositionExits(p)
    <2> DEFINE r == [run[p] EXCEPT !.pc = "exits", !.list = OpenRows(Cur(p))]
    <2>1. OpenRows(Cur(p)) \in SUBSET Orders
      BY DEF OpenRows
    <2>2. /\ r \in RunType /\ r.pc = "exits" /\ r.cur = run[p].cur /\ r.todo = run[p].todo
          /\ r.list = OpenRows(Cur(p))
      BY <1>1, <2>1, RunTypes DEF RunType, PcLabels
    <2>3. run' = [run EXCEPT ![p] = r] /\ UNCHANGED <<env, tables>> /\ At(p, "entered")
      BY <1>3 DEF PositionExits
    <2>4. run'[p] = r
      BY <1>1, <2>3 DEF TypeOK
    <2>5. sig[Cur(p)] = "entered" /\ Pair[Cur(p)] = p /\ Cur(p) \in Signals
      BY <1>1, <2>3, RunTypes DEF RunFacts, At
    <2>6. \A o \in OpenRows(Cur(p)) : o[1] = Cur(p) /\ o[2] # "entry"
      <3> SUFFICES ASSUME NEW o \in OpenRows(Cur(p)), o[2] = "entry" PROVE FALSE
        BY DEF OpenRows
      <3>1. o = <<Cur(p), "entry">> /\ row[o] = "open"
        BY DEF OpenRows, Orders
      <3> QED
        BY <3>1, <2>5 DEF IInv, EnteredIsBacked
    <2>7. ExitReason(Cur(p)) \in Reasons
      BY <1>3 DEF PositionExits, ExitReason, Reasons
    <2>8. ExitReason(Cur(p))' = ExitReason(Cur(p)) /\ Cur(p)' = Cur(p)
      BY <2>2, <2>3, <2>4 DEF ExitReason, Cur, env
    <2>9. held[Cur(p)] > 0 /\ held' = held /\ sig' = sig
      BY <1>3, <2>3 DEF PositionExits, tables
    <2>10. run'[p].pc = "exits" /\ run'[p].todo = run[p].todo /\ run'[p].list = OpenRows(Cur(p))
      BY <2>2, <2>4
    <2>11. RunFacts(p)'
      BY <1>1, <2>5, <2>6, <2>7, <2>8, <2>9, <2>10 DEF RunFacts, At, FillSteps, ExitSteps
    <2> QED
      BY <2>2, <2>3, <2>11, QuietStep DEF At
  <1>4. CASE RowsSettled(p) \/ ReadAccount(p)
    <2>1. UNCHANGED <<env, tables>>
      BY <1>4 DEF RowsSettled, ReadAccount
    <2>2. PICK r \in RunType : /\ run' = [run EXCEPT ![p] = r]
                              /\ r.cur = run[p].cur /\ r.todo = run[p].todo
                              /\ \/ At(p, "exits") /\ r.pc \in {"close_row", "finish"}
                                 \/ At(p, "read_account") /\ r.pc = "write_account"
      <3>1. CASE RowsSettled(p)
        <4>1. PICK label \in {"close_row", "finish"} : Goto(p, label)
          BY <3>1 DEF RowsSettled
        <4>2. /\ [run[p] EXCEPT !.pc = label] \in RunType
              /\ [run[p] EXCEPT !.pc = label].cur = run[p].cur
              /\ [run[p] EXCEPT !.pc = label].todo = run[p].todo
              /\ [run[p] EXCEPT !.pc = label].pc = label
          BY <1>1, RunTypes DEF RunType, PcLabels
        <4> QED
          BY <3>1, <4>1, <4>2 DEF RowsSettled, Goto
      <3>2. CASE ReadAccount(p)
        <4> DEFINE r == [run[p] EXCEPT !.pc = "write_account", !.cash = cash, !.peak = peak,
                                       !.killed = kill]
        <4>1. /\ r \in RunType /\ r.cur = run[p].cur /\ r.todo = run[p].todo
              /\ r.pc = "write_account"
          BY <1>1, RunTypes DEF RunType, PcLabels, TypeOK
        <4> QED
          BY <3>2, <4>1 DEF ReadAccount
      <3> QED
        BY <1>4, <3>1, <3>2
    <2>3. run'[p] = r
      BY <1>1, <2>2 DEF TypeOK
    <2>4. ExitReason(Cur(p))' = ExitReason(Cur(p)) /\ Cur(p)' = Cur(p)
      BY <2>1, <2>2, <2>3 DEF ExitReason, Cur, env
    <2>5. RunFacts(p)'
      BY <1>1, <2>1, <2>2, <2>3, <2>4 DEF RunFacts, At, FillSteps, ExitSteps, tables
    <2> QED
      BY <2>1, <2>2, <2>5, QuietStep DEF At
  <1> QED
    BY <1>2, <1>3, <1>4

--------------------------------------------------------------------------------
(* Runs that start, pass the limits or are lost                            *)

(* A run that ends in the middle leaves nothing to anybody.                *)
LEMMA CrashStep ==
  ASSUME IInv, NEW p \in Pairs, Crash(p)
  PROVE  IInv'
  <1>1. TypeOK /\ UNCHANGED <<mode, overlap, market, tables>> /\ ~At(p, "idle")
    BY DEF IInv, Crash
  <1>2. /\ run' \in [Pairs -> RunType] /\ run'[p] = IdleRun
        /\ \A q \in Pairs : q # p => run'[q] = run[q]
    BY <1>1, RunTypes DEF TypeOK, Crash
  <1>3. crashes' \in 0..MaxCrashes
    BY <1>1, ConstantsAssumption DEF Crash, TypeOK
  <1>4. TypeOK'
    BY <1>1, <1>2, <1>3 DEF TypeOK, tables
  <1>5. RunFacts(p)'
    BY <1>1, <1>2, RunTypes, BetweenFacts
  <1>6. LimitFact' /\ OneAtATime'
    BY <1>1, <1>2, RunTypes, Counts DEF tables
  <1>7. \A s \in Signals : SameSignal(s) /\ Backed(s)'
    BY <1>1 DEF SameSignal, Backed, tables, IInv, EnteredIsBacked
  <1> QED
    BY <1>2, <1>4, <1>5, <1>6, <1>7, LocalStep

(* A run starts with the open signals of its pair, when no other is under  *)
(* way if the tasks run one at a time.                                     *)
LEMMA StartStep ==
  ASSUME IInv, NEW p \in Pairs, StartRun(p)
  PROVE  IInv'
  <1>1. TypeOK /\ UNCHANGED <<env, tables>> /\ At(p, "idle")
    BY DEF IInv, StartRun
  <1> DEFINE mine == {s \in OpenSignals : Pair[s] = p}
             r == [IdleRun EXCEPT !.pc = "loop", !.kill = kill, !.todo = mine]
  <1>2. r \in RunType /\ r.pc = "loop" /\ r.todo = mine
    BY <1>1, RunTypes DEF RunType, PcLabels, TypeOK, OpenSignals, IdleRun
  <1>3. /\ run' \in [Pairs -> RunType] /\ run'[p] = r
        /\ \A q \in Pairs : q # p => run'[q] = run[q]
    BY <1>1, <1>2 DEF TypeOK, StartRun
  <1>4. TypeOK'
    BY <1>1, <1>3 DEF TypeOK, env, tables
  <1>5. RunFacts(p)'
    BY <1>2, <1>3 DEF RunFacts, At, FillSteps, ExitSteps, OpenSignals
  <1>6. LimitFact'
    <2>1. OpenSignals' \subseteq OpenSignals /\ Arming' \subseteq Arming
      BY <1>1, <1>2, <1>3 DEF OpenSignals, Arming, At, tables
    <2> QED
      BY <1>1, <2>1, LimitKept DEF IInv, env
  <1>7. OneAtATime'
    BY <1>1, <1>3 DEF OneAtATime, At, StartRun, env
  <1>8. \A s \in Signals : SameSignal(s) /\ Backed(s)'
    BY <1>1 DEF SameSignal, Backed, env, tables, IInv, EnteredIsBacked
  <1> QED
    BY <1>3, <1>4, <1>5, <1>6, <1>7, <1>8, LocalStep

(* A candidate passes the limits.  Fewer signals than allowed are open; of *)
(* the tasks at most all, or only this one, are about to create one.       *)
LEMMA AcceptStep ==
  ASSUME IInv, NEW p \in Pairs, AcceptCandidate(p)
  PROVE  IInv'
  <1>1. TypeOK /\ RunFacts(p) /\ UNCHANGED <<env, tables>> /\ At(p, "new")
    BY DEF IInv, AcceptCandidate
  <1>2. PICK s \in Candidates(p) :
          run' = [run EXCEPT ![p].pc = "arm", ![p].cur = s, ![p].back = "new"]
    BY DEF AcceptCandidate
  <1>3. s \in Signals /\ Pair[s] = p /\ sig[s] = "none"
    BY DEF Candidates
  <1> DEFINE r == [run[p] EXCEPT !.pc = "arm", !.cur = s, !.back = "new"]
  <1>4. /\ r \in RunType /\ r.pc = "arm" /\ r.cur = s /\ r.todo = run[p].todo
    <2>1. run[p] \in RunType
      BY <1>1, RunTypes
    <2> QED
      BY <1>3, <2>1 DEF RunType, PcLabels
  <1>5. /\ run' \in [Pairs -> RunType] /\ run'[p] = r
        /\ \A q \in Pairs : q # p => run'[q] = run[q]
    BY <1>1, <1>2, <1>4 DEF TypeOK
  <1>6. TypeOK'
    BY <1>1, <1>5 DEF TypeOK, env, tables
  <1>7. RunFacts(p)'
    BY <1>1, <1>3, <1>4, <1>5 DEF RunFacts, At, Cur, FillSteps, ExitSteps, tables
  <1>8. OneAtATime'
    BY <1>1, <1>5, TurnsKept DEF IInv, At, env
  <1>9. LimitFact'
    <2>1. OpenSignals' = OpenSignals /\ Cardinality(OpenSignals) < MaxOpen
      BY <1>1 DEF OpenSignals, tables, AcceptCandidate, LimitsAllow
    <2>2. CASE overlap
      BY <1>1, <2>1, <2>2, FiniteNext, ConstantsAssumption DEF LimitFact, env
    <2>3. CASE ~overlap
      <3>1. \A q \in Pairs : ~At(q, "idle") => q = p
        BY <1>1, <2>3 DEF IInv, OneAtATime, At
      <3>2. Arming' \subseteq {p}
        BY <1>5, <3>1 DEF Arming, At
      <3>3. IsFiniteSet({p}) /\ Cardinality({p}) = 1
        BY FS_Singleton
      <3>4. Cardinality(Arming') <= 1
        BY <3>2, <3>3, FS_Subset
      <3> QED
        BY <1>1, <2>1, <2>3, <3>4, FiniteNext, ConstantsAssumption DEF LimitFact, env
    <2> QED
      BY <2>2, <2>3
  <1>10. \A t \in Signals : SameSignal(t) /\ Backed(t)'
    BY <1>1 DEF SameSignal, Backed, env, tables, IInv, EnteredIsBacked
  <1> QED
    BY <1>5, <1>6, <1>7, <1>8, <1>9, <1>10, LocalStep

--------------------------------------------------------------------------------
(* Steps that write a row                                                  *)

(* A task that has started writes rows of its own signals and the account: *)
(* it keeps the invariant if it opens no signal, keeps the types and the   *)
(* backing of its signals, and what it needs itself.                       *)
LEMMA WriteStep ==
  ASSUME IInv, NEW p \in Pairs, NEW r \in RunType, run' = [run EXCEPT ![p] = r],
         ~At(p, "idle"), r.pc # "arm", UNCHANGED env,
         sig' \in [Signals -> SignalStatus], row' \in [Orders -> RowStatus],
         held' \in [Signals -> Nat], closed' \in [Signals -> Nat],
         realized' \in [Signals -> Int], cash' \in Int, peak' \in Int, kill' \in BOOLEAN,
         \A s \in Signals : Pair[s] # p => SameSignal(s),
         \A s \in Signals : sig'[s] \in {"armed", "entered"} => sig[s] \in {"armed", "entered"},
         \A s \in Signals : Pair[s] = p => Backed(s)',
         RunFacts(p)'
  PROVE  IInv'
  <1>1. TypeOK
    BY DEF IInv
  <1>2. /\ run' \in [Pairs -> RunType] /\ run'[p] = r
        /\ \A q \in Pairs : q # p => run'[q] = run[q]
    BY <1>1 DEF TypeOK
  <1>3. TypeOK'
    BY <1>1, <1>2 DEF TypeOK, env
  <1>4. LimitFact' /\ OneAtATime'
    BY <1>2, Counts DEF env
  <1> QED
    BY <1>2, <1>3, <1>4, LocalStep

(* One row of an order of the task's signal is created or updated, never   *)
(* removed, and the entry of an entered signal never becomes unfilled.     *)
LEMMA RowStep ==
  ASSUME IInv, NEW p \in Pairs, NEW r \in RunType, run' = [run EXCEPT ![p] = r],
         ~At(p, "idle"), r.pc # "arm", UNCHANGED <<env, sig, positions, account>>,
         NEW s \in Signals, Pair[s] = p, NEW u \in Purposes, NEW v \in RowStatus \ {"none"},
         row' = [row EXCEPT ![<<s, u>>] = v],
         sig[s] = "entered" /\ u = "entry" => v = "filled",
         RunFacts(p)'
  PROVE  IInv'
  <1>1. TypeOK
    BY DEF IInv
  <1>2. row' \in [Orders -> RowStatus] /\ <<s, u>> \in Orders
    BY <1>1 DEF TypeOK, Orders
  <1>3. /\ sig' \in [Signals -> SignalStatus] /\ held' \in [Signals -> Nat]
        /\ closed' \in [Signals -> Nat] /\ realized' \in [Signals -> Int]
        /\ cash' \in Int /\ peak' \in Int /\ kill' \in BOOLEAN
    BY <1>1 DEF TypeOK, positions, account
  <1>4. ASSUME NEW t \in Signals, NEW w \in Purposes
        PROVE  row'[<<t, w>>] = IF t = s /\ w = u THEN v ELSE row[<<t, w>>]
    <2>1. <<t, w>> \in Orders
      BY DEF Orders
    <2> QED
      BY <1>1, <1>2, <2>1 DEF TypeOK
  <1>5. \A t \in Signals : Pair[t] # p => SameSignal(t)
    BY <1>4 DEF SameSignal, env, positions
  <1>6. ASSUME NEW t \in Signals, Pair[t] = p
        PROVE  Backed(t)'
    <2>1. Backed(t)
      BY DEF IInv, EnteredIsBacked, Backed
    <2> QED
      BY <1>4, <2>1 DEF Backed, Purposes, positions
  <1> QED
    BY <1>3, <1>2, <1>5, <1>6, WriteStep

(* The run a Goto leaves behind.                                           *)
LEMMA GotoRun ==
  ASSUME TypeOK, NEW p \in Pairs, NEW label \in PcLabels, Goto(p, label)
  PROVE  \E r \in RunType : /\ run' = [run EXCEPT ![p] = r] /\ run'[p] = r
                            /\ r.pc = label /\ r.cur = run[p].cur /\ r.todo = run[p].todo
                            /\ r.list = run[p].list
  <1>1. [run[p] EXCEPT !.pc = label] \in RunType
    BY RunTypes DEF RunType
  <1> QED
    BY <1>1, RunTypes, GotoFields DEF Goto, TypeOK, RunType

(* What a run at hand of a signal knows of it.                             *)
LEMMA AtHand ==
  ASSUME IInv, NEW p \in Pairs, run[p].pc \notin {"idle", "loop", "reread", "new"}
  PROVE  TypeOK /\ RunFacts(p) /\ ~At(p, "idle") /\ Cur(p) \in Signals /\ Pair[Cur(p)] = p
  BY RunTypes DEF IInv, RunFacts, At

(* The entry is filled, the exit and close rows are created, the close is  *)
(* filled.                                                                 *)
LEMMA RowSteps ==
  ASSUME IInv, NEW p \in Pairs,
         \/ FillEntry(p) \/ CreateStopRow(p) \/ CreateTakeProfitRow(p) \/ CreateCloseRow(p)
         \/ FillCloseRow(p) \/ CreateEntryRow(p)
  PROVE  IInv'
  <1> DEFINE s == Cur(p)
  <1>1. PICK u \in Purposes, v \in RowStatus \ {"none"}, label \in PcLabels :
          /\ row' = [row EXCEPT ![<<s, u>>] = v] /\ Goto(p, label)
          /\ \/ At(p, "fill_entry") /\ u = "entry" /\ v = "filled" /\ label = "sl_row"
             \/ At(p, "sl_row") /\ u = "stop_loss" /\ label = "tp_row"
             \/ At(p, "tp_row") /\ u = "take_profit" /\ label = "mark_entered"
             \/ At(p, "close_row") /\ u = "close" /\ label \in {"fill_close", "finish"}
             \/ At(p, "fill_close") /\ u = "close" /\ label = "finish"
             \/ At(p, "entry_row") /\ u = "entry" /\ label \in {"open_position", "new"}
    <2>1. CASE FillEntry(p)
      BY <2>1 DEF FillEntry, Purposes, RowStatus, PcLabels
    <2>2. CASE FillCloseRow(p)
      BY <2>2 DEF FillCloseRow, Purposes, RowStatus, PcLabels
    <2>3. ASSUME NEW u \in Purposes, InsertRow(<<s, u>>)
          PROVE  \E v \in RowStatus \ {"none"} : row' = [row EXCEPT ![<<s, u>>] = v]
      <3>1. s \in Signals /\ row \in [Orders -> RowStatus]
        BY RunTypes DEF IInv, TypeOK
      <3>2. row[<<s, u>>] \in RowStatus
        BY <3>1 DEF Orders
      <3>3. CASE row[<<s, u>>] = "none"
        <4>1. row' = [row EXCEPT ![<<s, u>>] = "open"]
          BY <2>3, <3>3 DEF InsertRow
        <4> QED
          BY <4>1 DEF RowStatus
      <3>4. CASE row[<<s, u>>] # "none"
        <4>1. row' = [row EXCEPT ![<<s, u>>] = row[<<s, u>>]]
          BY <2>3, <3>4 DEF InsertRow
        <4> QED
          BY <3>2, <3>4, <4>1
      <3> QED
        BY <3>3, <3>4
    <2>4. CASE CreateStopRow(p)
      <3>1. At(p, "sl_row") /\ InsertRow(<<s, "stop_loss">>) /\ Goto(p, "tp_row")
        BY <2>4 DEF CreateStopRow
      <3> QED
        BY <3>1, <2>3 DEF Purposes, PcLabels
    <2>5. CASE CreateTakeProfitRow(p)
      <3>1. /\ At(p, "tp_row") /\ InsertRow(<<s, "take_profit">>)
            /\ Goto(p, "mark_entered")
        BY <2>5 DEF CreateTakeProfitRow
      <3> QED
        BY <3>1, <2>3 DEF Purposes, PcLabels
    <2>6. CASE CreateCloseRow(p)
      <3>1. /\ At(p, "close_row") /\ InsertRow(<<s, "close">>)
            /\ Goto(p, "fill_close") \/ Goto(p, "finish")
        BY <2>6 DEF CreateCloseRow
      <3> QED
        BY <3>1, <2>3 DEF Purposes, PcLabels
    <2>7. CASE CreateEntryRow(p)
      <3>1. /\ At(p, "entry_row") /\ InsertRow(<<s, "entry">>)
            /\ Goto(p, "open_position") \/ Goto(p, "new")
        BY <2>7 DEF CreateEntryRow
      <3> QED
        BY <3>1, <2>3 DEF Purposes, PcLabels
    <2> QED
      BY <2>1, <2>2, <2>4, <2>5, <2>6, <2>7
  <1>2. TypeOK /\ RunFacts(p) /\ ~At(p, "idle") /\ s \in Signals /\ Pair[s] = p
    BY <1>1, AtHand DEF At
  <1>3. UNCHANGED <<env, sig, positions, account>>
    BY DEF FillEntry, CreateStopRow, CreateTakeProfitRow, CreateCloseRow, FillCloseRow,
           CreateEntryRow
  <1>4. PICK r \in RunType : /\ run' = [run EXCEPT ![p] = r] /\ run'[p] = r
                             /\ r.pc = label /\ r.cur = run[p].cur /\ r.todo = run[p].todo
    BY <1>1, <1>2, GotoRun
  <1>5. \A w \in Purposes : row'[<<s, w>>] = IF w = u THEN v ELSE row[<<s, w>>]
    <2>1. \A w \in Purposes : <<s, w>> \in Orders
      BY <1>2 DEF Orders
    <2> QED
      BY <1>1, <1>2, <2>1 DEF TypeOK
  <1>6. Cur(p)' = s /\ ExitReason(s)' = ExitReason(s)
    BY <1>3, <1>4 DEF Cur, ExitReason, env
  <1>7. RunFacts(p)'
    BY <1>1, <1>2, <1>3, <1>4, <1>5, <1>6
    DEF RunFacts, At, FillSteps, ExitSteps, positions, Purposes
  <1>8. sig[s] = "entered" /\ u = "entry" => v = "filled"
    BY <1>1, <1>2 DEF RunFacts, At, FillSteps
  <1>9. r.pc # "arm"
    BY <1>1, <1>4
  <1> QED
    BY <1>1, <1>2, <1>3, <1>4, <1>7, <1>8, <1>9, RowStep

(* The entry of an armed signal is withdrawn.                              *)
LEMMA ArmedDiesStep ==
  ASSUME IInv, NEW p \in Pairs, ArmedDies(p)
  PROVE  IInv'
  <1>1. PICK s \in Signals : /\ Take(p, s, "armed", "cancel_signal")
                             /\ row' = [row EXCEPT ![<<s, "entry">>] = "cancelled"]
                             /\ UNCHANGED <<env, sig, positions, account>>
    BY DEF ArmedDies
  <1>2. /\ Pair[s] = p /\ sig[s] = "armed" /\ At(p, "loop")
        /\ run'[p].pc = "cancel_signal" /\ run'[p].cur = s /\ run'[p].todo \subseteq run[p].todo
    BY <1>1, TakeFields DEF PcLabels
  <1>3. PICK r \in RunType : run' = [run EXCEPT ![p] = r]
    BY <1>1, TakeFields DEF PcLabels
  <1>4. r.pc # "arm"
    BY <1>2, <1>3 DEF IInv, TypeOK
  <1>5. RunFacts(p)'
    BY <1>1, <1>2 DEF IInv, RunFacts, At, Cur, FillSteps, ExitSteps
  <1> QED
    BY <1>1, <1>2, <1>3, <1>4, <1>5, RowStep DEF At, Purposes, RowStatus

(* One of the rows that were open when the exit was found is settled; the  *)
(* entry is not among them.                                                *)
LEMMA SettleStep ==
  ASSUME IInv, NEW p \in Pairs, SettleRow(p)
  PROVE  IInv'
  <1>1. /\ At(p, "exits") /\ TypeOK /\ RunFacts(p) /\ ~At(p, "idle")
        /\ Cur(p) \in Signals /\ Pair[Cur(p)] = p
    BY AtHand DEF SettleRow, At
  <1>2. PICK o \in run[p].list : /\ row' = [row EXCEPT ![o] = SettledStatus(o[1], o[2])]
                                 /\ run' = [run EXCEPT ![p].list = @ \ {o}]
    BY DEF SettleRow
  <1>3. o \in Orders /\ o[1] = Cur(p) /\ o[2] # "entry"
    BY <1>1, <1>2, RunTypes DEF RunFacts
  <1>4. o = <<Cur(p), o[2]>> /\ o[2] \in Purposes
    BY <1>3 DEF Orders
  <1> DEFINE r == [run[p] EXCEPT !.list = @ \ {o}]
             v == SettledStatus(o[1], o[2])
  <1>5. /\ r \in RunType /\ r.pc = run[p].pc /\ r.cur = run[p].cur /\ r.todo = run[p].todo
        /\ r.list = run[p].list \ {o}
    BY <1>1, RunTypes DEF RunType
  <1>6. run' = [run EXCEPT ![p] = r] /\ run'[p] = r
    BY <1>1, <1>2, <1>5 DEF TypeOK
  <1>7. UNCHANGED <<env, sig, positions, account>>
    BY DEF SettleRow
  <1>8. Cur(p)' = Cur(p) /\ ExitReason(Cur(p))' = ExitReason(Cur(p))
    BY <1>5, <1>6, <1>7 DEF Cur, ExitReason, env
  <1>9. RunFacts(p)'
    BY <1>1, <1>5, <1>6, <1>7, <1>8 DEF RunFacts, At, FillSteps, ExitSteps, positions
  <1>10. v \in RowStatus \ {"none"}
    BY DEF SettledStatus, RowStatus
  <1>11. row' = [row EXCEPT ![<<Cur(p), o[2]>>] = v]
    BY <1>2, <1>4
  <1>12. r.pc # "arm"
    BY <1>1, <1>5 DEF At
  <1> HIDE DEF r, v
  <1> QED
    BY <1>1, <1>3, <1>4, <1>5, <1>6, <1>7, <1>9, <1>10, <1>11, <1>12, RowStep

(* The status of a signal of the task changes, to entered only when the    *)
(* signal is backed, and to armed never.                                   *)
LEMMA SignalStep ==
  ASSUME IInv, NEW p \in Pairs, NEW r \in RunType, run' = [run EXCEPT ![p] = r],
         ~At(p, "idle"), r.pc # "arm", UNCHANGED <<env, row, positions, account>>,
         NEW s \in Signals, Pair[s] = p, NEW v \in SignalStatus \ {"armed"},
         sig' = [sig EXCEPT ![s] = v],
         v = "entered" => sig[s] = "armed" /\ Backed(s)',
         RunFacts(p)'
  PROVE  IInv'
  <1>1. TypeOK
    BY DEF IInv
  <1>2. /\ sig' \in [Signals -> SignalStatus] /\ row' \in [Orders -> RowStatus]
        /\ held' \in [Signals -> Nat] /\ closed' \in [Signals -> Nat]
        /\ realized' \in [Signals -> Int] /\ cash' \in Int /\ peak' \in Int /\ kill' \in BOOLEAN
    BY <1>1 DEF TypeOK, positions, account
  <1>3. \A t \in Signals : sig'[t] = IF t = s THEN v ELSE sig[t]
    BY <1>1 DEF TypeOK
  <1>4. \A t \in Signals : Pair[t] # p => SameSignal(t)
    BY <1>3 DEF SameSignal, env, positions
  <1>5. ASSUME NEW t \in Signals, Pair[t] = p
        PROVE  Backed(t)'
    <2>1. Backed(t)
      BY DEF IInv, EnteredIsBacked, Backed
    <2> QED
      BY <1>3, <2>1 DEF Backed, positions
  <1>6. \A t \in Signals : sig'[t] \in {"armed", "entered"} => sig[t] \in {"armed", "entered"}
    BY <1>3
  <1> QED
    BY <1>2, <1>4, <1>5, <1>6, WriteStep

(* A signal is cancelled, entered, closed or rejected.                     *)
LEMMA SignalSteps ==
  ASSUME IInv, NEW p \in Pairs,
         CancelSignal(p) \/ MarkEntered(p) \/ CloseSignal(p) \/ RejectCandidate(p)
  PROVE  IInv'
  <1>1. CASE CancelSignal(p) \/ MarkEntered(p) \/ CloseSignal(p)
    <2>1. PICK v \in SignalStatus \ {"armed"}, label \in PcLabels :
            /\ sig' = [sig EXCEPT ![Cur(p)] = v] /\ Goto(p, label)
            /\ \/ At(p, "cancel_signal") /\ v = "cancelled" /\ label = "reread"
               \/ At(p, "mark_entered") /\ v = "entered" /\ label \in {"new", "entered"}
               \/ At(p, "finish_signal") /\ v = "closed" /\ label = "read_account"
      BY <1>1 DEF CancelSignal, MarkEntered, CloseSignal, SignalStatus, PcLabels
    <2>2. /\ TypeOK /\ RunFacts(p) /\ ~At(p, "idle")
          /\ \E s \in Signals : s = Cur(p) /\ Pair[s] = p
      BY <2>1, AtHand DEF At
    <2> PICK s \in Signals : s = Cur(p) /\ Pair[s] = p
      BY <2>2
    <2>3. UNCHANGED <<env, row, positions, account>>
      BY <1>1 DEF CancelSignal, MarkEntered, CloseSignal
    <2>4. PICK r \in RunType : /\ run' = [run EXCEPT ![p] = r] /\ run'[p] = r
                               /\ r.pc = label /\ r.cur = run[p].cur /\ r.todo = run[p].todo
      BY <2>1, <2>2, GotoRun
    <2>5. Cur(p)' = s /\ ExitReason(s)' = ExitReason(s) /\ sig'[s] = v
      BY <2>1, <2>2, <2>3, <2>4 DEF Cur, ExitReason, env, TypeOK
    <2>6. RunFacts(p)'
      BY <2>1, <2>2, <2>3, <2>4, <2>5 DEF RunFacts, At, FillSteps, ExitSteps, positions
    <2>7. ASSUME v = "entered"
          PROVE  sig[s] = "armed" /\ Backed(s)'
      <3>1. At(p, "mark_entered")
        BY <2>1, <2>7
      <3>2. /\ sig[s] = "armed" /\ held[s] + closed[s] > 0 /\ row[<<s, "entry">>] = "filled"
            /\ row[<<s, "stop_loss">>] # "none" /\ row[<<s, "take_profit">>] # "none"
        BY <2>2, <3>1 DEF RunFacts, At, FillSteps
      <3> QED
        BY <2>3, <3>2 DEF Backed, positions
    <2>8. r.pc # "arm"
      BY <2>1, <2>4
    <2> QED
      BY <2>1, <2>2, <2>3, <2>4, <2>6, <2>7, <2>8, SignalStep
  <1>2. CASE RejectCandidate(p)
    <2>1. TypeOK /\ At(p, "new") /\ UNCHANGED <<env, row, positions, account, run>>
      BY <1>2 DEF RejectCandidate, IInv
    <2>2. PICK s \in Candidates(p) : sig' = [sig EXCEPT ![s] = "rejected"]
      BY <1>2 DEF RejectCandidate
    <2>3. s \in Signals /\ Pair[s] = p
      BY DEF Candidates
    <2>4. run' = [run EXCEPT ![p] = run[p]] /\ run[p] \in RunType /\ run[p].pc = "new"
      BY <2>1, RunTypes DEF TypeOK, At
    <2>5. RunFacts(p)'
      BY <2>1, <2>4, BetweenFacts
    <2> QED
      BY <2>1, <2>2, <2>3, <2>4, <2>5, SignalStep DEF SignalStatus, At
  <1> QED
    BY <1>1, <1>2

(* A position of the task's signal is opened or closed: the number of its  *)
(* positions never falls.                                                  *)
LEMMA PositionSteps ==
  ASSUME IInv, NEW p \in Pairs, OpenPosition(p) \/ ClosePosition(p)
  PROVE  IInv'
  <1> DEFINE s == Cur(p)
  <1>1. /\ At(p, "open_position") \/ At(p, "finish")
        /\ UNCHANGED <<env, sig, row, account>>
    BY DEF OpenPosition, ClosePosition
  <1>2. TypeOK /\ RunFacts(p) /\ ~At(p, "idle") /\ s \in Signals /\ Pair[s] = p
    BY <1>1, AtHand DEF At
  <1>3. PICK label \in PcLabels :
          /\ Goto(p, label)
          /\ \/ OpenPosition(p) /\ label = "fill_entry"
             \/ ClosePosition(p) /\ label = "finish_signal"
    BY DEF OpenPosition, ClosePosition, PcLabels
  <1>4. PICK r \in RunType : /\ run' = [run EXCEPT ![p] = r] /\ run'[p] = r
                             /\ r.pc = label /\ r.cur = run[p].cur /\ r.todo = run[p].todo
    BY <1>2, <1>3, GotoRun
  <1>5. /\ held' \in [Signals -> Nat] /\ closed' \in [Signals -> Nat]
        /\ realized' \in [Signals -> Int]
        /\ \A t \in Signals : t # s => held'[t] = held[t] /\ closed'[t] = closed[t]
        /\ held'[s] + closed'[s] >= held[s] + closed[s]
        /\ held'[s] + closed'[s] > 0
    <2>1. CASE OpenPosition(p)
      BY <1>2, <2>1 DEF OpenPosition, TypeOK
    <2>2. CASE ClosePosition(p)
      <3>1. held[s] > 0 /\ ExitReason(s) \in Reasons
        BY <1>2, <2>2 DEF ClosePosition, RunFacts, ExitSteps, At
      <3>2. Result(p) \in Int
        BY <3>1, ConstantsAssumption DEF Result
      <3> QED
        BY <1>2, <2>2, <3>1, <3>2 DEF ClosePosition, TypeOK
    <2> QED
      BY <2>1, <2>2
  <1>6. Cur(p)' = s /\ ExitReason(s)' = ExitReason(s)
    BY <1>1, <1>4 DEF Cur, ExitReason, env
  <1>7. RunFacts(p)'
    BY <1>1, <1>2, <1>3, <1>4, <1>5, <1>6
    DEF RunFacts, At, FillSteps, ExitSteps, OpenPosition, ClosePosition
  <1>8. /\ sig' \in [Signals -> SignalStatus] /\ row' \in [Orders -> RowStatus]
        /\ cash' \in Int /\ peak' \in Int /\ kill' \in BOOLEAN
    BY <1>1, <1>2 DEF TypeOK, account
  <1>9. \A t \in Signals : Pair[t] # p => SameSignal(t)
    BY <1>1, <1>2, <1>5 DEF SameSignal, env
  <1>10. ASSUME NEW t \in Signals, Pair[t] = p
         PROVE  Backed(t)'
    <2>1. Backed(t)
      BY DEF IInv, EnteredIsBacked, Backed
    <2> QED
      BY <1>1, <1>2, <1>5, <2>1 DEF Backed
  <1>11. r.pc # "arm"
    BY <1>3, <1>4
  <1> QED
    BY <1>1, <1>2, <1>4, <1>5, <1>7, <1>8, <1>9, <1>10, <1>11, WriteStep

(* The result is booked, the switch is turned on.                          *)
LEMMA AccountSteps ==
  ASSUME IInv, NEW p \in Pairs, WriteAccount(p) \/ TurnKillSwitchOn(p)
  PROVE  IInv'
  <1>1. /\ At(p, "write_account") \/ At(p, "kill")
        /\ UNCHANGED <<env, sig, row, positions>>
    BY DEF WriteAccount, TurnKillSwitchOn
  <1>2. TypeOK /\ RunFacts(p) /\ ~At(p, "idle")
    BY <1>1, AtHand DEF At
  <1>3. PICK label \in {"kill", "reread"} : Goto(p, label)
    BY DEF WriteAccount, TurnKillSwitchOn
  <1>4. PICK r \in RunType : /\ run' = [run EXCEPT ![p] = r] /\ run'[p] = r
                             /\ r.pc = label /\ r.cur = run[p].cur /\ r.todo = run[p].todo
    BY <1>2, <1>3, GotoRun DEF PcLabels
  <1>5. cash' \in Int /\ peak' \in Int /\ kill' \in BOOLEAN
    <2>1. CASE TurnKillSwitchOn(p)
      BY <1>2, <2>1 DEF TurnKillSwitchOn, TypeOK
    <2>2. CASE WriteAccount(p)
      <3>1. Result(p) \in Int
        BY <1>2, <2>2, ConstantsAssumption DEF WriteAccount, RunFacts, At, Result
      <3>2. run[p].cash \in Int /\ run[p].peak \in Int
        BY <1>2, RunTypes DEF RunType
      <3> QED
        BY <1>2, <2>2, <3>1, <3>2 DEF WriteAccount, Larger, TypeOK
    <2> QED
      BY <2>1, <2>2
  <1>6. RunFacts(p)'
    BY <1>1, <1>2, <1>3, <1>4 DEF RunFacts, At, Cur, FillSteps, ExitSteps
  <1>7. /\ sig' \in [Signals -> SignalStatus] /\ row' \in [Orders -> RowStatus]
        /\ held' \in [Signals -> Nat] /\ closed' \in [Signals -> Nat]
        /\ realized' \in [Signals -> Int]
    BY <1>1, <1>2 DEF TypeOK, positions
  <1>8. \A t \in Signals : SameSignal(t) /\ Backed(t)'
    BY <1>1 DEF SameSignal, Backed, env, positions, IInv, EnteredIsBacked
  <1>9. r.pc # "arm"
    BY <1>3, <1>4
  <1> QED
    BY <1>1, <1>2, <1>4, <1>5, <1>6, <1>7, <1>8, <1>9, WriteStep

(* The signal that was counted as allowed is created: one open signal      *)
(* more, one task about to create one less.                                *)
LEMMA ArmStep ==
  ASSUME IInv, NEW p \in Pairs, Arm(p)
  PROVE  IInv'
  <1> DEFINE s == Cur(p)
  <1>1. /\ At(p, "arm") /\ sig' = [sig EXCEPT ![s] = "armed"] /\ Goto(p, "entry_row")
        /\ UNCHANGED <<env, row, positions, account>>
    BY DEF Arm
  <1>2. TypeOK /\ RunFacts(p) /\ ~At(p, "idle") /\ s \in Signals /\ Pair[s] = p /\ sig[s] = "none"
    BY <1>1, AtHand DEF At, RunFacts
  <1>3. PICK r \in RunType : /\ run' = [run EXCEPT ![p] = r] /\ run'[p] = r
                             /\ r.pc = "entry_row" /\ r.cur = run[p].cur /\ r.todo = run[p].todo
    BY <1>1, <1>2, GotoRun DEF PcLabels
  <1>4. \A q \in Pairs : q # p => run'[q] = run[q]
    BY <1>2, <1>3 DEF TypeOK
  <1>5. \A t \in Signals : sig'[t] = IF t = s THEN "armed" ELSE sig[t]
    BY <1>1, <1>2 DEF TypeOK
  <1>6. TypeOK'
    <2>1. sig' \in [Signals -> SignalStatus] /\ run' \in [Pairs -> RunType]
      BY <1>1, <1>2, <1>3 DEF TypeOK, SignalStatus
    <2> QED
      BY <1>1, <1>2, <2>1 DEF TypeOK, env, positions, account
  <1>7. RunFacts(p)'
    BY <1>1, <1>2, <1>3, <1>5 DEF RunFacts, At, Cur, FillSteps, ExitSteps, positions
  <1>8. OneAtATime'
    BY <1>1, <1>4, TurnsKept DEF IInv, At, env
  <1>9. LimitFact'
    <2>1. OpenSignals' = OpenSignals \cup {s} /\ s \notin OpenSignals
      BY <1>2, <1>5 DEF OpenSignals
    <2>2. Arming' = Arming \ {p} /\ p \in Arming
      BY <1>1, <1>3, <1>4 DEF Arming, At
    <2>3. Cardinality(OpenSignals') = Cardinality(OpenSignals) + 1
      BY <2>1, Finite, FS_AddElement
    <2>4. Cardinality(Arming') = Cardinality(Arming) - 1
      BY <2>2, Finite, FS_RemoveElement
    <2> QED
      BY <1>1, <2>3, <2>4, Finite, ConstantsAssumption DEF IInv, LimitFact, env
  <1>10. \A t \in Signals : Pair[t] # p => SameSignal(t)
    BY <1>1, <1>2, <1>5 DEF SameSignal, env, positions
  <1>11. \A t \in Signals : Pair[t] = p => Backed(t)'
    BY <1>1, <1>5 DEF Backed, positions, IInv, EnteredIsBacked
  <1> QED
    BY <1>4, <1>6, <1>7, <1>8, <1>9, <1>10, <1>11, LocalStep

(* A candle closes: no run of its pair is under way, and what the others   *)
(* know of their signals stays.                                            *)
LEMMA CandleStep ==
  ASSUME IInv, NEW s \in Signals, Candle(s)
  PROVE  IInv'
  <1>1. TypeOK /\ At(Pair[s], "idle") /\ UNCHANGED <<mode, overlap, tables, run, crashes>>
    BY DEF IInv, Candle
  <1>2. PICK m \in MarketStates : market' = [market EXCEPT ![s] = m]
    <2>1. market[s] \in MarketStates
      BY <1>1 DEF TypeOK
    <2>2. Follows[market[s]] \subseteq MarketStates
      BY <2>1 DEF Follows, MarketStates
    <2> QED
      BY <2>2 DEF Candle
  <1>3. TypeOK'
    BY <1>1, <1>2 DEF TypeOK, tables
  <1>4. \A t \in Signals : t # s => SameSignal(t)
    BY <1>1, <1>2 DEF SameSignal, tables, TypeOK
  <1>5. LimitFact'
    BY <1>1 DEF IInv, LimitFact, OpenSignals, Arming, At, tables
  <1>6. OneAtATime'
    BY <1>1 DEF IInv, OneAtATime, At
  <1>7. EnteredIsBacked'
    BY <1>1 DEF IInv, EnteredIsBacked, tables
  <1>8. ASSUME NEW q \in Pairs
        PROVE  RunFacts(q)'
    <2>1. CASE q = Pair[s]
      BY <1>1, <2>1, BetweenFacts DEF At
    <2>2. CASE q # Pair[s]
      BY <1>1, <1>4, <2>2, KeepFacts DEF IInv
    <2> QED
      BY <2>1, <2>2
  <1> QED
    BY <1>3, <1>5, <1>6, <1>7, <1>8 DEF IInv

--------------------------------------------------------------------------------
(* The invariant holds at the start.                                       *)
LEMMA InitHolds ==
  ASSUME Init
  PROVE  IInv
  <1>1. IdleRun \in RunType /\ IdleRun.pc = "idle" /\ IdleRun.todo = {}
    BY ConstantsAssumption DEF IdleRun, RunType, PcLabels
  <1>2. TypeOK
    <2>1. /\ market \in [Signals -> MarketStates] /\ sig \in [Signals -> SignalStatus]
          /\ row \in [Orders -> RowStatus]
      BY DEF Init, MarketStates, SignalStatus, RowStatus
    <2>2. /\ held \in [Signals -> Nat] /\ closed \in [Signals -> Nat]
          /\ realized \in [Signals -> Int] /\ cash \in Int /\ peak \in Int
      BY ConstantsAssumption DEF Init
    <2>3. run \in [Pairs -> RunType]
      BY <1>1 DEF Init
    <2>4. crashes \in 0..MaxCrashes /\ kill \in BOOLEAN
      <3>1. 0 \in 0..MaxCrashes
        BY ConstantsAssumption
      <3> QED
        BY <3>1 DEF Init
    <2> QED
      BY <2>1, <2>2, <2>3, <2>4 DEF Init, TypeOK
  <1>3. OpenSignals = {} /\ Arming = {}
    BY <1>1 DEF Init, OpenSignals, Arming, At
  <1>4. LimitFact
    <2>1. Cardinality({}) = 0
      BY FS_EmptySet
    <2>2. Cardinality(Pairs) \in Nat /\ (overlap => Pairs # {} \/ Pairs = {})
      BY ConstantsAssumption, FS_CardinalityType
    <2>3. Cardinality(Pairs) >= 1
      <3>1. Pairs # {}
        BY ConstantsAssumption
      <3> QED
        BY <2>2, <3>1, ConstantsAssumption, FS_EmptySet
    <2> QED
      BY <1>3, <2>1, <2>2, <2>3, ConstantsAssumption DEF LimitFact
  <1>5. \A p \in Pairs : RunFacts(p)
    BY <1>1 DEF Init, RunFacts, At, FillSteps, ExitSteps
  <1>6. OneAtATime /\ EnteredIsBacked
    BY <1>1 DEF Init, OneAtATime, EnteredIsBacked, At
  <1> QED
    BY <1>2, <1>4, <1>5, <1>6 DEF IInv

(* Every step keeps it.                                                    *)
LEMMA NextKeeps ==
  ASSUME IInv, [Next]_vars
  PROVE  IInv'
  <1>1. CASE UNCHANGED vars
    BY <1>1 DEF vars, IInv, TypeOK, EnteredIsBacked, LimitFact, OneAtATime, RunFacts, OpenSignals,
                Arming, At, Cur, ExitReason
  <1>2. ASSUME NEW s \in Signals, Candle(s)
        PROVE  IInv'
    BY <1>2, CandleStep
  <1>3. ASSUME NEW p \in Pairs, StartRun(p) \/ Work(p) \/ Crash(p)
        PROVE  IInv'
    <2>1. CASE StartRun(p) \/ Crash(p)
      BY <2>1, StartStep, CrashStep
    <2>2. CASE Reread(p) \/ Armed(p)
      BY <2>2, BetweenStep, ArmedDiesStep, SignalSteps, QuietWithSignal DEF Armed
    <2>3. CASE Fill(p)
      BY <2>3, PositionSteps, RowSteps, SignalSteps DEF Fill
    <2>4. CASE Entered(p)
      BY <2>4, QuietWithSignal, BetweenStep, SettleStep, RowSteps DEF Entered
    <2>5. CASE Finish(p)
      BY <2>5, PositionSteps, SignalSteps, QuietWithSignal, AccountSteps DEF Finish
    <2>6. CASE Open(p)
      BY <2>6, BetweenStep, AcceptStep, SignalSteps, ArmStep, RowSteps DEF Open
    <2> QED
      BY <1>3, <2>1, <2>2, <2>3, <2>4, <2>5, <2>6 DEF Work
  <1> QED
    BY <1>1, <1>2, <1>3 DEF Next

(* The inductive invariant: what every run may rely on at each of its      *)
(* steps, whatever the other tasks do (_process_account and the methods it *)
(* calls).                                                                 *)
THEOREM Invariance == Spec => []IInv
  BY InitHolds, NextKeeps, PTL DEF Spec

(* Every variable and every local variable of a run has its type; no       *)
(* position is closed that is not open (_finish_close).                    *)
THEOREM TypeCorrect == Spec => []TypeOK
  <1>1. IInv => TypeOK
    BY DEF IInv
  <1> QED
    BY <1>1, Invariance, PTL

(* Tasks that count the open signals before either creates its own exceed  *)
(* risk.max_open_positions by at most one signal per further task, and one *)
(* task at a time never does (_risk_rejection, _open_signal).              *)
THEOREM LimitTheorem == Spec => []LimitRespected
  <1>1. IInv => LimitRespected
    BY Finite, ConstantsAssumption DEF IInv, LimitFact, LimitRespected
  <1> QED
    BY <1>1, Invariance, PTL

(* However its runs are interrupted, a signal is entered only with a       *)
(* position, a filled entry and both exit rows (_paper_fill).              *)
THEOREM BackedTheorem == Spec => []EnteredIsBacked
  <1>1. IInv => EnteredIsBacked
    BY DEF IInv
  <1> QED
    BY <1>1, Invariance, PTL

--------------------------------------------------------------------------------
(* The kill switch                                                         *)

(* A run that opens signals has read the kill switch off, and while tasks  *)
(* run one at a time what it has read is what the account says.            *)
KillFacts(p) ==
  /\ run[p].back = "new" \/ At(p, "new") => ~run[p].kill
  /\ At(p, "arm") \/ At(p, "entry_row") => run[p].back = "new"
  /\ ~overlap /\ ~At(p, "idle") /\ ~At(p, "reread") => run[p].kill = kill

KillInv == \A p \in Pairs : KillFacts(p)

(* What a Goto leaves of these local variables.                            *)
LEMMA GotoKill ==
  ASSUME TypeOK, NEW p \in Pairs, NEW label \in PcLabels, Goto(p, label)
  PROVE  /\ run'[p].kill = run[p].kill /\ run'[p].back = run[p].back /\ run'[p].pc = label
         /\ \A q \in Pairs : q # p => run'[q] = run[q]
  BY GotoFields, RunTypes DEF RunType

(* The tasks that do not step keep them: if they run one at a time, the    *)
(* others are idle.                                                        *)
LEMMA KillOthers ==
  ASSUME IInv, KillInv, NEW p \in Pairs, overlap' = overlap,
         \A q \in Pairs : q # p => run'[q] = run[q],
         ~At(p, "idle") \/ kill' = kill, KillFacts(p)'
  PROVE  KillInv'
  <1> SUFFICES ASSUME NEW q \in Pairs, q # p PROVE KillFacts(q)'
    BY DEF KillInv
  <1>1. KillFacts(q) /\ run'[q] = run[q]
    BY DEF KillInv
  <1>2. ~overlap /\ ~At(p, "idle") => At(q, "idle")
    BY DEF IInv, OneAtATime
  <1> QED
    BY <1>1, <1>2 DEF KillFacts, At

(* Steps within a signal: what was read of the kill switch is kept.        *)
LEMMA KillMoves ==
  ASSUME IInv, KillInv, NEW p \in Pairs, UNCHANGED <<overlap, kill>>,
         ~At(p, "idle"), ~At(p, "reread"),
         \A q \in Pairs : q # p => run'[q] = run[q],
         run'[p].kill = run[p].kill, run'[p].back = run[p].back,
         run'[p].pc = "new" => run[p].back = "new" \/ ~run[p].kill,
         run'[p].pc \in {"arm", "entry_row"} => run[p].back = "new"
  PROVE  KillInv'
  <1>1. KillFacts(p)
    BY DEF KillInv
  <1>2. KillFacts(p)'
    BY <1>1 DEF KillFacts, At
  <1> QED
    BY <1>2, KillOthers

(* Runs that begin anew.                                                   *)
LEMMA KillAnew ==
  ASSUME IInv, KillInv, NEW p \in Pairs,
         StartRun(p) \/ Crash(p) \/ Reread(p) \/ ArmedRaises(p) \/ EndRun(p)
  PROVE  KillInv'
  <1>1. TypeOK /\ overlap' = overlap /\ kill' = kill
    BY DEF IInv, StartRun, Crash, Reread, ArmedRaises, EndRun, env, tables
  <1>2. IdleRun.back = "loop" /\ IdleRun.pc = "idle"
    BY DEF IdleRun
  <1>3. PICK r : /\ run' = [run EXCEPT ![p] = r] /\ r.back = "loop"
                 /\ r.pc = "idle" \/ (r.pc = "loop" /\ r.kill = kill)
    <2>1. CASE Crash(p) \/ ArmedRaises(p) \/ EndRun(p)
      BY <1>2, <2>1 DEF Crash, ArmedRaises, EndRun
    <2>2. CASE StartRun(p) \/ Reread(p)
      <3>1. PICK todo : run' = [run EXCEPT ![p] = [IdleRun EXCEPT !.pc = "loop", !.kill = kill, !.todo = todo]]
        BY <2>2 DEF StartRun, Reread
      <3> DEFINE r == [IdleRun EXCEPT !.pc = "loop", !.kill = kill, !.todo = todo]
      <3>2. r.back = "loop" /\ r.pc = "loop" /\ r.kill = kill
        BY DEF IdleRun
      <3> QED
        BY <3>1, <3>2
    <2> QED
      BY <2>1, <2>2
  <1>4. run'[p] = r /\ \A q \in Pairs : q # p => run'[q] = run[q]
    BY <1>1, <1>3 DEF TypeOK
  <1>5. KillFacts(p)'
    BY <1>1, <1>3, <1>4 DEF KillFacts, At
  <1> QED
    BY <1>1, <1>4, <1>5, KillOthers

(* Steps that only move the run on.                                        *)
LEMMA KillGoto ==
  ASSUME IInv, KillInv, NEW p \in Pairs, UNCHANGED <<overlap, kill>>,
         NEW label \in PcLabels, Goto(p, label), ~At(p, "idle"), ~At(p, "reread"),
         label = "new" => run[p].back = "new" \/ ~run[p].kill,
         label \in {"arm", "entry_row"} => run[p].back = "new"
  PROVE  KillInv'
  <1>1. /\ run'[p].kill = run[p].kill /\ run'[p].back = run[p].back /\ run'[p].pc = label
        /\ \A q \in Pairs : q # p => run'[q] = run[q]
    BY GotoKill DEF IInv
  <1> QED
    BY <1>1, KillMoves

(* Every step keeps what runs know of the kill switch.                     *)
LEMMA KillKeeps ==
  ASSUME IInv, KillInv, [Next]_vars
  PROVE  KillInv'
  <1>1. CASE UNCHANGED vars
    BY <1>1 DEF vars, KillInv, KillFacts, At
  <1>2. CASE \E s \in Signals : Candle(s)
    BY <1>2 DEF Candle, KillInv, KillFacts, At, tables
  <1>3. ASSUME NEW p \in Pairs, StartRun(p) \/ Crash(p) \/ Work(p)
        PROVE  KillInv'
    <2>1. TypeOK /\ KillFacts(p) /\ run[p] \in RunType
      BY RunTypes DEF IInv, KillInv
    <2>2. CASE StartRun(p) \/ Crash(p) \/ Reread(p) \/ ArmedRaises(p) \/ EndRun(p)
      BY <2>2, KillAnew
    <2>3. CASE \E s \in Signals, status \in {"armed", "entered"},
                 label \in {"reread", "cancel_signal", "open_position", "entered"} :
                 Take(p, s, status, label) /\ UNCHANGED <<overlap, kill>>
      <3>1. PICK s \in Signals, status \in {"armed", "entered"},
                 label \in {"reread", "cancel_signal", "open_position", "entered"} :
              Take(p, s, status, label) /\ UNCHANGED <<overlap, kill>>
        BY <2>3
      <3> DEFINE r == [run[p] EXCEPT !.pc = label, !.cur = s, !.todo = @ \ {s}]
      <3>2. r.kill = run[p].kill /\ r.back = run[p].back /\ r.pc = label
        BY <2>1 DEF RunType
      <3>3. run' = [run EXCEPT ![p] = r] /\ At(p, "loop")
        BY <3>1 DEF Take
      <3>4. run'[p] = r /\ \A q \in Pairs : q # p => run'[q] = run[q]
        BY <2>1, <3>3 DEF TypeOK
      <3> QED
        BY <3>1, <3>2, <3>3, <3>4, KillMoves DEF At
    <2>4. CASE PositionExits(p) \/ SettleRow(p) \/ ReadAccount(p)
      <3>1. PICK r \in RunType : /\ run' = [run EXCEPT ![p] = r]
                                /\ r.kill = run[p].kill /\ r.back = run[p].back
                                /\ r.pc \in {"exits", "write_account"}
        <4>1. CASE PositionExits(p)
          <5> DEFINE r == [run[p] EXCEPT !.pc = "exits", !.list = OpenRows(Cur(p))]
          <5>1. /\ r \in RunType /\ r.kill = run[p].kill /\ r.back = run[p].back /\ r.pc = "exits"
            BY <2>1 DEF RunType, PcLabels, OpenRows
          <5> QED
            BY <4>1, <5>1 DEF PositionExits
        <4>2. CASE SettleRow(p)
          <5>1. PICK o \in run[p].list : run' = [run EXCEPT ![p].list = @ \ {o}]
            BY <4>2 DEF SettleRow
          <5> DEFINE r == [run[p] EXCEPT !.list = @ \ {o}]
          <5>2. /\ r \in RunType /\ r.kill = run[p].kill /\ r.back = run[p].back /\ r.pc = run[p].pc
            BY <2>1 DEF RunType
          <5> QED
            BY <4>2, <5>1, <5>2 DEF SettleRow, At
        <4>3. CASE ReadAccount(p)
          <5> DEFINE r == [run[p] EXCEPT !.pc = "write_account", !.cash = cash, !.peak = peak, !.killed = kill]
          <5>1. /\ r \in RunType /\ r.kill = run[p].kill /\ r.back = run[p].back /\ r.pc = "write_account"
            BY <2>1 DEF RunType, PcLabels, TypeOK
          <5> QED
            BY <4>3, <5>1 DEF ReadAccount
        <4> QED
          BY <2>4, <4>1, <4>2, <4>3
      <3>2. run'[p] = r /\ \A q \in Pairs : q # p => run'[q] = run[q]
        BY <2>1, <3>1 DEF TypeOK
      <3>3. ~At(p, "idle") /\ ~At(p, "reread") /\ UNCHANGED <<overlap, kill>>
        BY <2>4 DEF PositionExits, SettleRow, ReadAccount, At, env, tables, account
      <3> QED
        BY <3>1, <3>2, <3>3, KillMoves
    <2>5. CASE AcceptCandidate(p)
      <3>1. PICK s \in Signals : run' = [run EXCEPT ![p].pc = "arm", ![p].cur = s, ![p].back = "new"]
        BY <2>5 DEF AcceptCandidate, Candidates
      <3> DEFINE r == [run[p] EXCEPT !.pc = "arm", !.cur = s, !.back = "new"]
      <3>2. r.kill = run[p].kill /\ r.back = "new" /\ r.pc = "arm"
        BY <2>1 DEF RunType
      <3>3. run'[p] = r /\ \A q \in Pairs : q # p => run'[q] = run[q]
        BY <2>1, <3>1 DEF TypeOK
      <3>4. At(p, "new") /\ UNCHANGED <<overlap, kill>>
        BY <2>5 DEF AcceptCandidate, env, tables
      <3>5. KillFacts(p)'
        BY <2>1, <3>2, <3>3, <3>4 DEF KillFacts, At
      <3> QED
        BY <3>3, <3>4, <3>5, KillOthers
    <2>6. CASE RejectCandidate(p)
      BY <2>6 DEF RejectCandidate, KillInv, KillFacts, At, env, account
    <2>7. CASE TurnKillSwitchOn(p)
      <3>1. /\ run'[p].kill = run[p].kill /\ run'[p].back = run[p].back /\ run'[p].pc = "reread"
            /\ \A q \in Pairs : q # p => run'[q] = run[q]
        BY <2>1, <2>7, GotoKill DEF TurnKillSwitchOn, PcLabels
      <3>2. KillFacts(p)'
        BY <2>1, <3>1 DEF KillFacts, At
      <3> QED
        BY <2>7, <3>1, <3>2, KillOthers DEF TurnKillSwitchOn, At, env
    <2>8. CASE CancelSignal(p) \/ Fill(p) \/ PositionDone(p) \/ PositionStays(p) \/ RowsSettled(p)
               \/ CreateCloseRow(p) \/ FillCloseRow(p)
      <3>1. PICK label \in PcLabels : /\ Goto(p, label) /\ label \notin {"arm", "entry_row"}
                                      /\ label = "new" => run[p].back = "new"
        BY <2>8 DEF CancelSignal, Fill, OpenPosition, FillEntry, CreateStopRow, CreateTakeProfitRow,
                    MarkEntered, PositionDone, PositionStays, RowsSettled, CreateCloseRow,
                    FillCloseRow, PcLabels
      <3>2. ~At(p, "idle") /\ ~At(p, "reread") /\ UNCHANGED <<overlap, kill>>
        BY <2>8 DEF CancelSignal, Fill, OpenPosition, FillEntry, CreateStopRow, CreateTakeProfitRow,
                    MarkEntered, PositionDone, PositionStays, RowsSettled, CreateCloseRow,
                    FillCloseRow, At, env, tables, account
      <3> QED
        BY <3>1, <3>2, KillGoto
    <2>9. CASE ClosePosition(p) \/ CloseSignal(p) \/ WriteAccount(p) \/ NewSignals(p) \/ Arm(p)
               \/ CreateEntryRow(p)
      <3>1. PICK label \in PcLabels : /\ Goto(p, label)
                                      /\ label \in {"arm", "entry_row"} => run[p].back = "new"
                                      /\ label = "new" => run[p].back = "new" \/ ~run[p].kill
        BY <2>1, <2>9 DEF ClosePosition, CloseSignal, WriteAccount, NewSignals, Arm, CreateEntryRow,
                          PcLabels, KillFacts
      <3>2. ~At(p, "idle") /\ ~At(p, "reread") /\ UNCHANGED <<overlap, kill>>
        BY <2>9 DEF ClosePosition, CloseSignal, WriteAccount, NewSignals, Arm, CreateEntryRow,
                    At, env, tables, account
      <3> QED
        BY <3>1, <3>2, KillGoto
    <2>10. CASE ArmedWaits(p) \/ ArmedDies(p) \/ ArmedFills(p) \/ UpdateEntered(p)
      BY <2>3, <2>10 DEF ArmedWaits, ArmedDies, ArmedFills, UpdateEntered, env, tables, account
    <2> QED
      BY <1>3, <2>2, <2>4, <2>5, <2>6, <2>7, <2>8, <2>9, <2>10
         DEF Work, Armed, Entered, Finish, Open
  <1> QED
    BY <1>1, <1>2, <1>3 DEF Next

(* Nobody knows anything at the start.                                     *)
LEMMA KillInit == Init => KillInv
  BY DEF Init, KillInv, KillFacts, IdleRun, At

(* While the kill switch is on and tasks run one at a time, no task arms a *)
(* signal, for any number of pairs, signals and crashes (_process_account  *)
(* reads the account again after every signal).                            *)
THEOREM KillTheorem == Spec => NoTradeUnderKill
  <1>1. IInv /\ KillInv /\ [Next]_vars
          => [~overlap /\ kill => \A s \in Signals : sig'[s] = "armed" => sig[s] = "armed"]_vars
    <2> SUFFICES ASSUME IInv, KillInv, Next, ~overlap, kill,
                        NEW s \in Signals, sig'[s] = "armed", sig[s] # "armed"
                 PROVE  FALSE
      OBVIOUS
    <2>1. \A p \in Pairs : ~Arm(p)
      BY DEF KillInv, KillFacts, Arm, At
    <2>2. TypeOK
      BY DEF IInv
    <2>3. ASSUME NEW p \in Pairs, StartRun(p) \/ Work(p) \/ Crash(p)
          PROVE  FALSE
      BY <2>1, <2>2, <2>3
         DEF Work, Armed, Fill, Entered, Finish, Open, StartRun, Crash, Reread, ArmedWaits, ArmedRaises,
             ArmedDies, CancelSignal, ArmedFills, OpenPosition, FillEntry, CreateStopRow,
             CreateTakeProfitRow, MarkEntered, UpdateEntered, PositionDone, PositionStays,
             PositionExits, SettleRow, RowsSettled, CreateCloseRow, FillCloseRow, ClosePosition,
             CloseSignal, ReadAccount, WriteAccount, TurnKillSwitchOn, NewSignals, AcceptCandidate,
             RejectCandidate, CreateEntryRow, EndRun, env, tables, TypeOK
    <2>4. ASSUME NEW t \in Signals, Candle(t)
          PROVE  FALSE
      BY <2>4 DEF Candle, tables
    <2> QED
      BY <2>3, <2>4 DEF Next
  <1>2. Spec => []KillInv
    BY KillInit, KillKeeps, Invariance, PTL DEF Spec
  <1> QED
    BY <1>1, <1>2, Invariance, PTL DEF Spec, NoTradeUnderKill

--------------------------------------------------------------------------------
(* Exits                                                                   *)

NoneOpen(s) == \A u \in Purposes : row[<<s, u>>] # "open"

(* An exit row counts only when the market is where it was hit, and there  *)
(* it stays; whoever closes at the market has cancelled both.              *)
ExitRows(s) ==
  /\ row[<<s, "stop_loss">>] = "filled" => market[s] = "sl"
  /\ row[<<s, "take_profit">>] = "filled" => market[s] = "tp"
  /\ row[<<s, "close">>] # "none" => row[<<s, "stop_loss">>] = "cancelled" /\ row[<<s, "take_profit">>] = "cancelled"
  /\ sig[s] = "closed" => NoneOpen(s)

\* the labels of a run that settles rows
SettleSteps == {"exits", "close_row", "fill_close", "finish", "finish_signal"}

(* What a run knows of the rows of the signal it closes.                   *)
ExitKnown(p) ==
  LET s == Cur(p) IN
  /\ At(p, "exits") => /\ \A u \in Purposes : row[<<s, u>>] = "open" => <<s, u>> \in run[p].list
                       /\ \A o \in run[p].list : row[o] = "open"
  /\ At(p, "close_row") => NoneOpen(s) /\ ExitReason(s) = "timeout"
  /\ At(p, "fill_close") => row[<<s, "close">>] = "open" /\ \A u \in Purposes \ {"close"} : row[<<s, u>>] # "open"
  /\ At(p, "finish") \/ At(p, "finish_signal") => NoneOpen(s)

ExitInv == (\A s \in Signals : ExitRows(s)) /\ (\A p \in Pairs : ExitKnown(p))

(* A signal of which no row is written keeps what is known of it.          *)
LEMMA ExitRowsKept ==
  ASSUME NEW s \in Signals, ExitRows(s), \A u \in Purposes : row'[<<s, u>>] = row[<<s, u>>],
         market'[s] = market[s], sig'[s] = "closed" => sig[s] = "closed"
  PROVE  ExitRows(s)'
  BY DEF ExitRows, NoneOpen, Purposes

(* A task writes rows of its own signals: the others keep what they know.  *)
LEMMA ExitOthers ==
  ASSUME IInv, ExitInv, NEW p \in Pairs, market' = market,
         \A q \in Pairs : q # p => run'[q] = run[q],
         \A s \in Signals : Pair[s] # p => \A u \in Purposes : row'[<<s, u>>] = row[<<s, u>>],
         \A s \in Signals : Pair[s] # p => (sig'[s] = "closed" => sig[s] = "closed"),
         \A s \in Signals : Pair[s] = p => ExitRows(s)',
         ExitKnown(p)'
  PROVE  ExitInv'
  <1>1. ASSUME NEW s \in Signals, Pair[s] # p PROVE ExitRows(s)'
    BY <1>1, ExitRowsKept DEF ExitInv
  <1>2. ASSUME NEW q \in Pairs, q # p PROVE ExitKnown(q)'
    <2>1. CASE run[q].pc \in SettleSteps
      <3>1. Cur(q) \in Signals /\ Pair[Cur(q)] = q
        BY <2>1, AtHand DEF SettleSteps
      <3>2. \A u \in Purposes : row'[<<Cur(q), u>>] = row[<<Cur(q), u>>]
        BY <1>2, <3>1
      <3>3. Cur(q)' = Cur(q) /\ run'[q] = run[q] /\ ExitReason(Cur(q))' = ExitReason(Cur(q))
        BY <1>2 DEF Cur, ExitReason
      <3>4. ASSUME At(q, "exits"), NEW o \in run[q].list
            PROVE  row'[o] = row[o]
        <4>1. o \in Orders /\ o[1] = Cur(q)
          <5>1. TypeOK /\ RunFacts(q)
            BY DEF IInv
          <5>2. run[q].list \in SUBSET Orders
            BY <5>1, RunTypes
          <5> QED
            BY <3>4, <5>1, <5>2 DEF RunFacts
        <4>2. o = <<Cur(q), o[2]>> /\ o[2] \in Purposes
          BY <4>1 DEF Orders
        <4> QED
          BY <3>2, <4>2
      <3>5. ExitKnown(q)
        BY DEF ExitInv
      <3> QED
        BY <3>2, <3>3, <3>4, <3>5 DEF ExitKnown, At, NoneOpen, Purposes
    <2>2. CASE run[q].pc \notin SettleSteps
      BY <1>2, <2>2 DEF ExitKnown, SettleSteps, At
    <2> QED
      BY <2>1, <2>2
  <1> QED
    BY <1>1, <1>2 DEF ExitInv

(* Steps that write no order row and close no signal; the run does not     *)
(* settle rows after them, or knows already what it has to know.           *)
LEMMA ExitQuiet ==
  ASSUME IInv, ExitInv, NEW p \in Pairs, UNCHANGED <<market, row>>,
         \A q \in Pairs : q # p => run'[q] = run[q],
         \A s \in Signals : sig'[s] = "closed" => sig[s] = "closed",
         run'[p].pc \notin SettleSteps \/ ExitKnown(p)'
  PROVE  ExitInv'
  <1>1. \A s \in Signals : ExitRows(s)'
    BY ExitRowsKept DEF ExitInv
  <1>2. ExitKnown(p)'
    BY DEF ExitKnown, SettleSteps, At
  <1> QED
    BY <1>1, <1>2, ExitOthers

(* One row of a signal that is not being closed is written: neither a      *)
(* close row nor an exit that is marked filled.                            *)
LEMMA ExitEntryRow ==
  ASSUME IInv, ExitInv, NEW p \in Pairs, UNCHANGED <<market, sig>>,
         \A q \in Pairs : q # p => run'[q] = run[q],
         NEW s \in Signals, Pair[s] = p, sig[s] = "armed", NEW u \in {"entry", "stop_loss", "take_profit"}, NEW v,
         row' = [row EXCEPT ![<<s, u>>] = v],
         u # "entry" => v = (IF row[<<s, u>>] = "none" THEN "open" ELSE row[<<s, u>>]),
         run'[p].pc \notin SettleSteps
  PROVE  ExitInv'
  <1>1. ASSUME NEW t \in Signals, NEW w \in Purposes
        PROVE  row'[<<t, w>>] = IF t = s /\ w = u THEN v ELSE row[<<t, w>>]
    <2>1. <<t, w>> \in Orders /\ row \in [Orders -> RowStatus]
      BY DEF Orders, IInv, TypeOK
    <2> QED
      BY <2>1
  <1>2. ASSUME NEW t \in Signals, t # s PROVE ExitRows(t)'
    BY <1>1, <1>2, ExitRowsKept DEF ExitInv
  <1>3. ExitRows(s)'
    <2>1. ExitRows(s)
      BY DEF ExitInv
    <2> QED
      BY <1>1, <2>1 DEF ExitRows, Purposes
  <1>4. ExitKnown(p)'
    BY DEF ExitKnown, SettleSteps, At
  <1>5. \A t \in Signals : Pair[t] # p => \A w \in Purposes : row'[<<t, w>>] = row[<<t, w>>]
    BY <1>1
  <1> QED
    BY <1>2, <1>3, <1>4, <1>5, ExitOthers

(* The row of a signal that is closed: what it says of the others.         *)
LEMMA ExitRowWritten ==
  ASSUME IInv, ExitInv, NEW p \in Pairs, UNCHANGED <<market, sig>>,
         \A q \in Pairs : q # p => run'[q] = run[q],
         NEW s \in Signals, Pair[s] = p, NEW u \in Purposes, NEW v,
         row' = [row EXCEPT ![<<s, u>>] = v],
         ExitRows(s)', ExitKnown(p)'
  PROVE  ExitInv'
  <1>1. ASSUME NEW t \in Signals, NEW w \in Purposes
        PROVE  row'[<<t, w>>] = IF t = s /\ w = u THEN v ELSE row[<<t, w>>]
    <2>1. <<t, w>> \in Orders /\ row \in [Orders -> RowStatus]
      BY DEF Orders, IInv, TypeOK
    <2> QED
      BY <2>1
  <1>2. ASSUME NEW t \in Signals, t # s PROVE ExitRows(t)'
    BY <1>1, <1>2, ExitRowsKept DEF ExitInv
  <1>3. \A t \in Signals : Pair[t] # p => \A w \in Purposes : row'[<<t, w>>] = row[<<t, w>>]
    BY <1>1
  <1> QED
    BY <1>2, <1>3, ExitOthers

(* What a run that settles rows knows of its signal.                       *)
LEMMA Settling ==
  ASSUME IInv, ExitInv, NEW p \in Pairs, run[p].pc \in SettleSteps
  PROVE  /\ TypeOK /\ Cur(p) \in Signals /\ Pair[Cur(p)] = p /\ sig[Cur(p)] = "entered"
         /\ ExitRows(Cur(p)) /\ ExitKnown(p)
         /\ row[<<Cur(p), "stop_loss">>] \in {"open", "filled", "cancelled"}
         /\ row[<<Cur(p), "take_profit">>] \in {"open", "filled", "cancelled"}
  <1>1. TypeOK /\ RunFacts(p) /\ Cur(p) \in Signals /\ Pair[Cur(p)] = p
    BY AtHand DEF SettleSteps
  <1>2. sig[Cur(p)] = "entered"
    BY <1>1 DEF RunFacts, SettleSteps, ExitSteps
  <1>3. row[<<Cur(p), "stop_loss">>] # "none" /\ row[<<Cur(p), "take_profit">>] # "none"
    BY <1>1, <1>2 DEF IInv, EnteredIsBacked
  <1>4. <<Cur(p), "stop_loss">> \in Orders /\ <<Cur(p), "take_profit">> \in Orders
    BY <1>1 DEF Orders, Purposes
  <1> QED
    BY <1>1, <1>2, <1>3, <1>4 DEF ExitInv, TypeOK, RowStatus

(* A row is filled when it was hit and cancelled otherwise.                *)
LEMMA ExitSettle ==
  ASSUME IInv, ExitInv, NEW p \in Pairs, SettleRow(p)
  PROVE  ExitInv'
  <1>1. /\ At(p, "exits") /\ run[p].pc \in SettleSteps
        /\ UNCHANGED <<env, sig, positions, account>>
    BY DEF SettleRow, At, SettleSteps
  <1>s. PICK s \in Signals : s = Cur(p)
    BY <1>1, Settling
  <1>2. PICK o \in run[p].list : /\ row' = [row EXCEPT ![o] = SettledStatus(o[1], o[2])]
                                /\ run' = [run EXCEPT ![p].list = @ \ {o}]
    BY DEF SettleRow
  <1>3. /\ TypeOK /\ s \in Signals /\ Pair[s] = p /\ sig[s] = "entered"
        /\ ExitRows(s) /\ ExitKnown(p) /\ run[p] \in RunType /\ RunFacts(p)
    BY <1>s, <1>1, Settling, RunTypes DEF IInv
  <1>4. o \in Orders /\ o[1] = s /\ row[o] = "open"
    <2>1. run[p].list \in SUBSET Orders
      BY <1>3, RunTypes
    <2> QED
      BY <1>s, <1>1, <1>3, <2>1 DEF RunFacts, ExitKnown
  <1>5. PICK u \in Purposes : o = <<s, u>> /\ o[2] = u
    BY <1>4 DEF Orders
  <1>6. PICK v \in {"filled", "cancelled"} :
          /\ v = SettledStatus(s, u)
          /\ v = "filled" => \/ u = "stop_loss" /\ market[s] = "sl"
                             \/ u = "take_profit" /\ market[s] = "tp"
    BY DEF SettledStatus, ExitReason
  <1>7. row' = [row EXCEPT ![<<s, u>>] = v]
    BY <1>2, <1>4, <1>5, <1>6
  <1>8. \A w \in Purposes : row'[<<s, w>>] = IF w = u THEN v ELSE row[<<s, w>>]
    <2>1. \A w \in Purposes : <<s, w>> \in Orders
      BY <1>3 DEF Orders
    <2> QED
      BY <1>3, <1>7, <2>1 DEF TypeOK
  <1>9. row[<<s, u>>] = "open" /\ market' = market /\ sig' = sig
    BY <1>1, <1>4, <1>5 DEF env
  <1>10. ExitRows(s)'
    BY <1>3, <1>6, <1>8, <1>9 DEF ExitRows, Purposes
  <1> DEFINE r == [run[p] EXCEPT !.list = @ \ {o}]
  <1>11. r.pc = run[p].pc /\ r.cur = run[p].cur /\ r.list = run[p].list \ {o}
    BY <1>3 DEF RunType
  <1>12. run'[p] = r /\ \A q \in Pairs : q # p => run'[q] = run[q]
    BY <1>2, <1>3 DEF TypeOK
  <1> HIDE DEF r
  <1>13. ExitKnown(p)'
    <2>1. Cur(p)' = s
      BY <1>s, <1>11, <1>12 DEF Cur
    <2>2. At(p, "exits")' /\ run'[p].list = run[p].list \ {o}
      BY <1>1, <1>11, <1>12 DEF At
    <2>3. ASSUME NEW w \in Purposes, row'[<<s, w>>] = "open"
          PROVE  <<s, w>> \in run'[p].list
      <3>1. w # u /\ row[<<s, w>>] = "open"
        BY <1>6, <1>8, <2>3
      <3>2. <<s, w>> # o
        BY <1>5, <3>1
      <3> QED
        BY <1>s, <1>1, <1>3, <2>2, <3>1, <3>2 DEF ExitKnown
    <2>4. ASSUME NEW x \in run'[p].list
          PROVE  row'[x] = "open"
      <3>1. x \in run[p].list /\ x # o
        BY <2>2
      <3>2. row[x] = "open"
        BY <1>s, <1>1, <1>3, <3>1 DEF ExitKnown
      <3>3. x \in Orders
        BY <1>3, <3>1, RunTypes
      <3> QED
        BY <1>2, <1>3, <3>1, <3>2, <3>3 DEF TypeOK
    <2> QED
      BY <2>1, <2>2, <2>3, <2>4 DEF ExitKnown, At
  <1> QED
    BY <1>3, <1>7, <1>9, <1>10, <1>12, <1>13, ExitRowWritten

(* A position closed at the market gets its close row once nothing else is *)
(* left open.                                                              *)
LEMMA ExitClose ==
  ASSUME IInv, ExitInv, NEW p \in Pairs, CreateCloseRow(p) \/ FillCloseRow(p)
  PROVE  ExitInv'
  <1>1. run[p].pc \in SettleSteps /\ market' = market /\ sig' = sig
    BY DEF CreateCloseRow, FillCloseRow, At, SettleSteps, env
  <1>s. PICK s \in Signals : s = Cur(p)
    BY <1>1, Settling
  <1> DEFINE was == row[<<s, "close">>]
  <1>2. /\ TypeOK /\ s \in Signals /\ Pair[s] = p /\ ExitRows(s) /\ ExitKnown(p) /\ sig[s] = "entered"
        /\ row[<<s, "stop_loss">>] \in {"open", "filled", "cancelled"}
        /\ row[<<s, "take_profit">>] \in {"open", "filled", "cancelled"}
    BY <1>s, <1>1, Settling
  <1>3. PICK v \in RowStatus, label \in PcLabels :
          /\ row' = [row EXCEPT ![<<s, "close">>] = v] /\ Goto(p, label)
          /\ \/ At(p, "close_row") /\ was = "none" /\ v = "open" /\ label = "fill_close"
             \/ At(p, "close_row") /\ was # "none" /\ v = was /\ label = "finish"
             \/ At(p, "fill_close") /\ v = "filled" /\ label = "finish"
    <2>0. <<s, "close">> \in Orders /\ was \in RowStatus
      BY <1>2 DEF Orders, Purposes, TypeOK
    <2>1. CASE CreateCloseRow(p)
      BY <1>s, <1>2, <2>0, <2>1 DEF CreateCloseRow, InsertRow, PcLabels, TypeOK, RowStatus
    <2>2. CASE FillCloseRow(p)
      BY <1>s, <2>2 DEF FillCloseRow, PcLabels, RowStatus
    <2> QED
      BY <2>1, <2>2
  <1>4. \A w \in Purposes : row'[<<s, w>>] = IF w = "close" THEN v ELSE row[<<s, w>>]
    <2>1. \A w \in Purposes : <<s, w>> \in Orders
      BY <1>2 DEF Orders
    <2> QED
      BY <1>2, <1>3, <2>1 DEF TypeOK
  <1>5. At(p, "close_row") => market[s] = "expired" /\ NoneOpen(s)
    BY <1>s, <1>2 DEF ExitKnown, ExitReason
  <1>6. /\ run'[p].pc = label /\ run'[p].cur = run[p].cur
        /\ \A q \in Pairs : q # p => run'[q] = run[q]
    BY <1>2, <1>3, GotoFields
  <1>7. Cur(p)' = s
    BY <1>s, <1>6 DEF Cur
  <1>8. row[<<s, "stop_loss">>] = "cancelled" /\ row[<<s, "take_profit">>] = "cancelled"
    <2>1. CASE At(p, "close_row")
      BY <1>s, <1>2, <1>5, <2>1 DEF ExitRows, NoneOpen, Purposes
    <2>2. CASE At(p, "fill_close")
      BY <1>s, <1>2, <2>2 DEF ExitRows, ExitKnown
    <2> QED
      BY <1>3, <2>1, <2>2
  <1>9. ExitRows(s)'
    BY <1>1, <1>2, <1>4, <1>8 DEF ExitRows, Purposes
  <1>10. ExitKnown(p)'
    BY <1>s, <1>2, <1>3, <1>4, <1>5, <1>6, <1>7 DEF ExitKnown, NoneOpen, At, Purposes
  <1>11. "close" \in Purposes
    BY DEF Purposes
  <1> QED
    BY <1>1, <1>2, <1>3, <1>6, <1>9, <1>10, <1>11, ExitRowWritten

(* Between the last row and the closed signal nothing is opened again.     *)
LEMMA ExitGoesOn ==
  ASSUME IInv, ExitInv, NEW p \in Pairs,
         PositionExits(p) \/ RowsSettled(p) \/ ClosePosition(p) \/ CloseSignal(p)
  PROVE  ExitInv'
  <1>1. TypeOK /\ run[p] \in RunType /\ market' = market /\ row' = row
    BY RunTypes DEF IInv, PositionExits, RowsSettled, ClosePosition, CloseSignal, env, tables
  <1>s. PICK s \in Signals : s = Cur(p)
    BY <1>1, RunTypes
  <1>2. CASE PositionExits(p)
    <2> DEFINE r == [run[p] EXCEPT !.pc = "exits", !.list = OpenRows(s)]
    <2>1. r.pc = "exits" /\ r.cur = run[p].cur /\ r.list = OpenRows(s)
      BY <1>1 DEF RunType
    <2>2. run'[p] = r /\ (\A q \in Pairs : q # p => run'[q] = run[q]) /\ sig' = sig
      BY <1>s, <1>1, <1>2 DEF PositionExits, TypeOK, tables
    <2> HIDE DEF r
    <2>3. Cur(p)' = s /\ run'[p].pc = "exits" /\ run'[p].list = OpenRows(s)
      BY <1>s, <2>1, <2>2 DEF Cur
    <2>4. ExitKnown(p)'
      BY <1>1, <2>3 DEF ExitKnown, At, OpenRows, Orders
    <2> QED
      BY <1>1, <2>2, <2>4, ExitQuiet
  <1>3. CASE RowsSettled(p)
    <2>1. PICK label \in {"close_row", "finish"} :
            Goto(p, label) /\ (label = "close_row" => ExitReason(s) = "timeout")
      BY <1>s, <1>3 DEF RowsSettled
    <2>2. /\ run'[p].pc = label /\ run'[p].cur = run[p].cur
          /\ \A q \in Pairs : q # p => run'[q] = run[q]
      BY <1>1, <2>1, GotoFields DEF PcLabels
    <2>3. NoneOpen(s)
      BY <1>s, <1>3 DEF ExitInv, ExitKnown, RowsSettled, NoneOpen
    <2>4. NoneOpen(s)' /\ ExitReason(s)' = ExitReason(s) /\ Cur(p)' = s
      BY <1>s, <1>1, <2>2, <2>3 DEF NoneOpen, ExitReason, Cur
    <2>5. ExitKnown(p)'
      BY <2>1, <2>2, <2>4 DEF ExitKnown, At
    <2>6. sig' = sig
      BY <1>3 DEF RowsSettled, tables
    <2> QED
      BY <1>1, <2>2, <2>5, <2>6, ExitQuiet
  <1>4. CASE ClosePosition(p)
    <2>1. /\ run'[p].pc = "finish_signal" /\ run'[p].cur = run[p].cur /\ sig' = sig
          /\ \A q \in Pairs : q # p => run'[q] = run[q]
      BY <1>1, <1>4, GotoFields DEF PcLabels, ClosePosition
    <2>2. NoneOpen(s)
      BY <1>s, <1>4 DEF ExitInv, ExitKnown, ClosePosition
    <2>3. ExitKnown(p)'
      BY <1>s, <1>1, <2>1, <2>2 DEF ExitKnown, At, NoneOpen, Cur
    <2> QED
      BY <1>1, <2>1, <2>3, ExitQuiet
  <1>5. CASE CloseSignal(p)
    <2>1. /\ run'[p].pc = "read_account" /\ \A q \in Pairs : q # p => run'[q] = run[q]
      BY <1>1, <1>5, GotoFields DEF PcLabels, CloseSignal
    <2>2. NoneOpen(s) /\ Pair[s] = p /\ sig' = [sig EXCEPT ![s] = "closed"]
      BY <1>s, <1>5, Settling DEF ExitKnown, CloseSignal, At, SettleSteps
    <2>3. \A t \in Signals : t # s => sig'[t] = sig[t]
      BY <1>1, <2>2 DEF TypeOK
    <2>4. ASSUME NEW t \in Signals PROVE ExitRows(t)'
      BY <1>1, <2>2, <2>3 DEF ExitInv, ExitRows, NoneOpen
    <2>5. ExitKnown(p)'
      BY <2>1 DEF ExitKnown, At
    <2> QED
      BY <1>1, <2>1, <2>2, <2>3, <2>4, <2>5, ExitOthers
  <1> QED
    BY <1>2, <1>3, <1>4, <1>5

(* The entry and the exit rows of a signal that is not entered yet.        *)
LEMMA ExitEntry ==
  ASSUME IInv, ExitInv, NEW p \in Pairs,
         ArmedDies(p) \/ FillEntry(p) \/ CreateStopRow(p) \/ CreateTakeProfitRow(p) \/ CreateEntryRow(p)
  PROVE  ExitInv'
  <1>1. TypeOK /\ RunFacts(p)
    BY DEF IInv
  <1>2. CASE ArmedDies(p)
    <2>1. PICK s \in Signals : /\ Take(p, s, "armed", "cancel_signal")
                               /\ row' = [row EXCEPT ![<<s, "entry">>] = "cancelled"]
      BY <1>2 DEF ArmedDies
    <2>2. /\ Pair[s] = p /\ sig[s] = "armed" /\ run'[p].pc = "cancel_signal"
          /\ \A q \in Pairs : q # p => run'[q] = run[q]
      BY <2>1, TakeFields DEF PcLabels
    <2>3. market' = market /\ sig' = sig
      BY <1>2 DEF ArmedDies, env
    <2> QED
      BY <2>1, <2>2, <2>3, ExitEntryRow DEF SettleSteps
  <1>3. CASE FillEntry(p) \/ CreateStopRow(p) \/ CreateTakeProfitRow(p) \/ CreateEntryRow(p)
    <2>1. run[p].pc \in FillSteps /\ market' = market /\ sig' = sig
      BY <1>3 DEF FillEntry, CreateStopRow, CreateTakeProfitRow, CreateEntryRow, At, FillSteps, env
    <2>2. PICK s \in Signals : s = Cur(p) /\ Pair[s] = p /\ sig[s] = "armed"
      BY <1>1, <2>1, AtHand DEF RunFacts, FillSteps
    <2>3. PICK u \in {"entry", "stop_loss", "take_profit"}, v \in RowStatus, label \in PcLabels :
            /\ row' = [row EXCEPT ![<<s, u>>] = v] /\ Goto(p, label) /\ label \notin SettleSteps
            /\ u # "entry" => v = (IF row[<<s, u>>] = "none" THEN "open" ELSE row[<<s, u>>])
      <3>1. \A u \in Purposes : row[<<s, u>>] \in RowStatus
        BY <1>1 DEF TypeOK, Orders
      <3>2. CASE FillEntry(p)
        BY <2>2, <3>2 DEF FillEntry, RowStatus, PcLabels, SettleSteps
      <3>3. ASSUME NEW u \in {"entry", "stop_loss", "take_profit"}, InsertRow(<<s, u>>)
            PROVE  \E v \in RowStatus :
                     /\ row' = [row EXCEPT ![<<s, u>>] = v]
                     /\ v = (IF row[<<s, u>>] = "none" THEN "open" ELSE row[<<s, u>>])
        BY <3>1, <3>3 DEF InsertRow, RowStatus, Purposes
      <3>4. CASE CreateStopRow(p)
        BY <2>2, <3>3, <3>4 DEF CreateStopRow, PcLabels, SettleSteps
      <3>5. CASE CreateTakeProfitRow(p)
        BY <2>2, <3>3, <3>5 DEF CreateTakeProfitRow, PcLabels, SettleSteps
      <3>6. CASE CreateEntryRow(p)
        BY <2>2, <3>3, <3>6 DEF CreateEntryRow, PcLabels, SettleSteps
      <3> QED
        BY <1>3, <3>2, <3>4, <3>5, <3>6
    <2>4. run'[p].pc = label /\ \A q \in Pairs : q # p => run'[q] = run[q]
      BY <1>1, <2>3, GotoFields
    <2> QED
      BY <2>1, <2>2, <2>3, <2>4, ExitEntryRow
  <1> QED
    BY <1>2, <1>3

(* Steps that lead to no label of a settling run.                          *)
LEMMA ExitElsewhere ==
  ASSUME IInv, ExitInv, NEW p \in Pairs,
         \/ StartRun(p) \/ Crash(p) \/ Reread(p) \/ ArmedWaits(p) \/ ArmedRaises(p) \/ CancelSignal(p)
         \/ ArmedFills(p) \/ OpenPosition(p) \/ MarkEntered(p) \/ UpdateEntered(p) \/ PositionDone(p)
         \/ PositionStays(p) \/ ReadAccount(p) \/ WriteAccount(p) \/ TurnKillSwitchOn(p)
         \/ NewSignals(p) \/ AcceptCandidate(p) \/ RejectCandidate(p) \/ Arm(p) \/ EndRun(p)
  PROVE  ExitInv'
  <1>1. TypeOK /\ Cur(p) \in Signals /\ run[p] \in RunType
    BY RunTypes DEF IInv
  <1>2. ASSUME UNCHANGED <<market, row>>, \A s \in Signals : sig'[s] = "closed" => sig[s] = "closed",
               \A q \in Pairs : q # p => run'[q] = run[q], run'[p].pc \notin SettleSteps
        PROVE  ExitInv'
    BY <1>2, ExitQuiet
  <1>3. CASE \/ StartRun(p) \/ Crash(p) \/ Reread(p) \/ ArmedRaises(p) \/ EndRun(p)
    <2>1. UNCHANGED <<market, row, sig>>
      BY <1>3 DEF StartRun, Crash, Reread, ArmedRaises, EndRun, env, tables
    <2>2. PICK r : run' = [run EXCEPT ![p] = r] /\ r.pc \in {"idle", "loop"}
      <3>1. CASE Crash(p) \/ ArmedRaises(p) \/ EndRun(p)
        <4>1. run' = [run EXCEPT ![p] = IdleRun]
          BY <3>1 DEF Crash, ArmedRaises, EndRun
        <4>2. IdleRun.pc = "idle"
          BY DEF IdleRun
        <4> QED
          BY <4>1, <4>2
      <3>2. CASE StartRun(p) \/ Reread(p)
        <4>1. PICK todo : run' = [run EXCEPT ![p] = [IdleRun EXCEPT !.pc = "loop", !.kill = kill, !.todo = todo]]
          BY <3>2 DEF StartRun, Reread
        <4> DEFINE r == [IdleRun EXCEPT !.pc = "loop", !.kill = kill, !.todo = todo]
        <4>2. r.pc = "loop"
          BY DEF IdleRun
        <4> QED
          BY <4>1, <4>2
      <3> QED
        BY <1>3, <3>1, <3>2
    <2>3. run'[p] = r /\ \A q \in Pairs : q # p => run'[q] = run[q]
      BY <1>1, <2>2 DEF TypeOK
    <2> QED
      BY <1>2, <2>1, <2>2, <2>3 DEF SettleSteps
  <1>4. CASE ArmedWaits(p) \/ ArmedFills(p) \/ UpdateEntered(p)
    <2>1. UNCHANGED <<market, row, sig>>
      BY <1>4 DEF ArmedWaits, ArmedFills, UpdateEntered, env, tables
    <2>2. PICK s \in Signals, status \in {"armed", "entered"}, label \in {"reread", "open_position", "entered"} :
            Take(p, s, status, label)
      BY <1>4 DEF ArmedWaits, ArmedFills, UpdateEntered
    <2>3. run'[p].pc = label /\ \A q \in Pairs : q # p => run'[q] = run[q]
      BY <2>2, TakeFields DEF PcLabels
    <2> QED
      BY <1>2, <2>1, <2>3 DEF SettleSteps
  <1>5. CASE \/ CancelSignal(p) \/ OpenPosition(p) \/ MarkEntered(p) \/ PositionDone(p) \/ PositionStays(p)
             \/ WriteAccount(p) \/ TurnKillSwitchOn(p) \/ NewSignals(p) \/ Arm(p)
    <2>1. PICK label \in PcLabels \ SettleSteps : Goto(p, label)
      BY <1>5 DEF CancelSignal, OpenPosition, MarkEntered, PositionDone, PositionStays, WriteAccount,
                  TurnKillSwitchOn, NewSignals, Arm, PcLabels, SettleSteps
    <2>2. run'[p].pc = label /\ \A q \in Pairs : q # p => run'[q] = run[q]
      BY <1>1, <2>1, GotoFields
    <2>3. UNCHANGED <<market, row>>
      BY <1>5 DEF CancelSignal, OpenPosition, MarkEntered, PositionDone, PositionStays, WriteAccount,
                  TurnKillSwitchOn, NewSignals, Arm, env, tables
    <2>4. \A s \in Signals : sig'[s] = "closed" => sig[s] = "closed"
      BY <1>1, <1>5 DEF CancelSignal, OpenPosition, MarkEntered, PositionDone, PositionStays, WriteAccount,
                        TurnKillSwitchOn, NewSignals, Arm, tables, TypeOK
    <2> QED
      BY <1>2, <2>1, <2>2, <2>3, <2>4
  <1>6. CASE ReadAccount(p) \/ AcceptCandidate(p)
    <2>1. UNCHANGED <<market, row, sig>>
      BY <1>6 DEF ReadAccount, AcceptCandidate, env, tables
    <2>2. PICK r : run' = [run EXCEPT ![p] = r] /\ r.pc \in {"write_account", "arm"}
      <3>1. CASE ReadAccount(p)
        <4> DEFINE r == [run[p] EXCEPT !.pc = "write_account", !.cash = cash, !.peak = peak, !.killed = kill]
        <4>1. r.pc = "write_account"
          BY <1>1 DEF RunType
        <4> QED
          BY <3>1, <4>1 DEF ReadAccount
      <3>2. CASE AcceptCandidate(p)
        <4>1. PICK s : run' = [run EXCEPT ![p].pc = "arm", ![p].cur = s, ![p].back = "new"]
          BY <3>2 DEF AcceptCandidate
        <4> DEFINE r == [run[p] EXCEPT !.pc = "arm", !.cur = s, !.back = "new"]
        <4>2. r.pc = "arm"
          BY <1>1 DEF RunType
        <4> QED
          BY <4>1, <4>2
      <3> QED
        BY <1>6, <3>1, <3>2
    <2>3. run'[p] = r /\ \A q \in Pairs : q # p => run'[q] = run[q]
      BY <1>1, <2>2 DEF TypeOK
    <2> QED
      BY <1>2, <2>1, <2>2, <2>3 DEF SettleSteps
  <1>7. CASE RejectCandidate(p)
    <2>1. UNCHANGED <<market, row, run>> /\ At(p, "new")
      BY <1>7 DEF RejectCandidate, env
    <2>2. \A s \in Signals : sig'[s] = "closed" => sig[s] = "closed"
      BY <1>1, <1>7 DEF RejectCandidate, Candidates, TypeOK
    <2> QED
      BY <1>2, <2>1, <2>2 DEF SettleSteps, At
  <1> QED
    BY <1>3, <1>4, <1>5, <1>6, <1>7

(* A candle closes while the task of the pair is idle; a hit stays a hit.  *)
LEMMA ExitCandle ==
  ASSUME IInv, ExitInv, NEW s \in Signals, Candle(s)
  PROVE  ExitInv'
  <1>1. UNCHANGED <<row, sig, run>> /\ At(Pair[s], "idle") /\ TypeOK
    BY DEF Candle, tables, IInv
  <1>2. PICK m \in Follows[market[s]] : market' = [market EXCEPT ![s] = m]
    BY DEF Candle
  <1>3. market[s] \notin {"sl", "tp"}
    BY <1>2 DEF Follows
  <1>4. \A t \in Signals : t # s => market'[t] = market[t]
    BY <1>1, <1>2 DEF TypeOK
  <1>5. \A t \in Signals : ExitRows(t)'
    BY <1>1, <1>3, <1>4 DEF ExitInv, ExitRows, NoneOpen
  <1>6. ASSUME NEW q \in Pairs PROVE ExitKnown(q)'
    <2>1. CASE run[q].pc \in SettleSteps
      <3>1. Cur(q) \in Signals /\ Cur(q) # s
        BY <1>1, <2>1, AtHand DEF SettleSteps, At
      <3>2. Cur(q)' = Cur(q) /\ ExitReason(Cur(q))' = ExitReason(Cur(q))
        BY <1>1, <1>4, <3>1 DEF Cur, ExitReason
      <3> QED
        BY <1>1, <3>2 DEF ExitInv, ExitKnown, At, NoneOpen
    <2>2. CASE run[q].pc \notin SettleSteps
      BY <1>1, <2>2 DEF ExitKnown, SettleSteps, At
    <2> QED
      BY <2>1, <2>2
  <1> QED
    BY <1>5, <1>6 DEF ExitInv

(* Every step keeps what is known of the exits.                            *)
LEMMA ExitKeeps ==
  ASSUME IInv, ExitInv, [Next]_vars
  PROVE  ExitInv'
  <1>1. CASE UNCHANGED vars
    BY <1>1 DEF vars, ExitInv, ExitRows, ExitKnown, NoneOpen, At, Cur, ExitReason
  <1>2. ASSUME NEW s \in Signals, Candle(s)
        PROVE  ExitInv'
    BY <1>2, ExitCandle
  <1>3. ASSUME NEW p \in Pairs, StartRun(p) \/ Crash(p) \/ Work(p)
        PROVE  ExitInv'
    BY <1>3, ExitElsewhere, ExitEntry, ExitGoesOn, ExitSettle, ExitClose
       DEF Work, Armed, Fill, Entered, Finish, Open
  <1> QED
    BY <1>1, <1>2, <1>3 DEF Next

(* Before any signal there is no row.                                      *)
LEMMA ExitInit == Init => ExitInv
  <1> SUFFICES ASSUME Init PROVE ExitInv
    OBVIOUS
  <1>1. \A s \in Signals, u \in Purposes : row[<<s, u>>] = "none"
    BY DEF Init, Orders
  <1>2. \A p \in Pairs : run[p].pc = "idle"
    BY DEF Init, IdleRun
  <1> QED
    BY <1>1, <1>2 DEF Init, ExitInv, ExitRows, ExitKnown, NoneOpen, At, Purposes

(* A closed signal has no open row left and at most one exit that counts,  *)
(* however often _update_entered was repeated for it and whatever the      *)
(* market did in between.                                                  *)
THEOREM ExitTheorem == Spec => []ExitIsUnique
  <1>1. ExitInv => ExitIsUnique
    <2> SUFFICES ASSUME ExitInv, NEW s \in Signals, sig[s] = "closed"
                 PROVE  /\ OpenRows(s) = {}
                        /\ Cardinality({q \in Purposes \ {"entry"} : row[<<s, q>>] = "filled"}) <= 1
      BY DEF ExitIsUnique
    <2>1. ExitRows(s) /\ NoneOpen(s)
      BY DEF ExitInv, ExitRows
    <2>2. OpenRows(s) = {}
      BY <2>1 DEF OpenRows, Orders, NoneOpen
    <2> DEFINE counts == {q \in Purposes \ {"entry"} : row[<<s, q>>] = "filled"}
    <2>3. PICK q : counts \subseteq {q}
      BY <2>1 DEF ExitRows, Purposes
    <2> HIDE DEF counts
    <2>4. Cardinality(counts) <= 1
      <3>1. IsFiniteSet({q}) /\ Cardinality({q}) = 1 /\ counts \in SUBSET {q}
        BY <2>3, FS_Singleton
      <3>2. Cardinality(counts) <= Cardinality({q})
        BY <3>1, FS_Subset
      <3> QED
        BY <3>1, <3>2
    <2> QED
      BY <2>2, <2>4 DEF counts
  <1>2. Spec => []ExitInv
    BY ExitInit, ExitKeeps, Invariance, PTL DEF Spec
  <1> QED
    BY <1>1, <1>2, PTL

-----------------------------------------------------------------------------
(* The cash                                                                *)

\* The result of a position that was closed is not in the cash yet.
Bookings == {"finish_signal", "read_account", "write_account"}

Total == SumOf(realized, Signals)

(* Uninterrupted runs, one at a time: a run that has closed a position is  *)
(* the only one that changes the cash, so what it read is still there when *)
(* it writes.                                                              *)
CashFacts(p) ==
  run[p].pc \in Bookings => /\ cash + Result(p) = Equity + Total
                            /\ At(p, "write_account") => run[p].cash = cash

CashInv ==
  ~overlap /\ crashes = 0 =>
    /\ \A p \in Pairs : CashFacts(p)
    /\ (\A p \in Pairs : run[p].pc \notin Bookings) => cash = Equity + Total

(* A step of a run that has no result to book.                             *)
LEMMA CashQuiet ==
  ASSUME CashInv, NEW p \in Pairs, run[p].pc \notin Bookings, run'[p].pc \notin Bookings,
         UNCHANGED <<overlap, crashes, market, realized, cash>>,
         \A q \in Pairs : q # p => run'[q] = run[q]
  PROVE  CashInv'
<1> SUFFICES ASSUME ~overlap, crashes = 0
             PROVE  /\ \A q \in Pairs : CashFacts(q)'
                    /\ (\A q \in Pairs : run'[q].pc \notin Bookings) => cash' = Equity + Total'
  BY DEF CashInv
<1>1. Total' = Total
  BY DEF Total
<1>2. ASSUME NEW q \in Pairs PROVE CashFacts(q)'
  <2>1. CASE q = p
    BY <2>1 DEF CashFacts
  <2>2. CASE q # p
    <3>1. run'[q] = run[q] /\ CashFacts(q)
      BY <2>2 DEF CashInv
    <3>2. Result(q)' = Result(q)
      BY <3>1 DEF Result, ExitReason, Cur
    <3>. QED BY <1>1, <3>1, <3>2 DEF CashFacts, At
  <2>. QED BY <2>1, <2>2
<1>3. ASSUME \A q \in Pairs : run'[q].pc \notin Bookings PROVE cash' = Equity + Total'
  <2>1. \A q \in Pairs : run[q].pc \notin Bookings
    BY <1>3
  <2>. QED BY <1>1, <2>1 DEF CashInv
<1>. QED BY <1>2, <1>3

(* The steps from the closed position to the cash.                         *)
LEMMA CashBooks ==
  ASSUME IInv, CashInv, NEW p \in Pairs,
         ClosePosition(p) \/ CloseSignal(p) \/ ReadAccount(p) \/ WriteAccount(p)
  PROVE  CashInv'
<1> SUFFICES ASSUME ~overlap, crashes = 0
             PROVE  /\ \A q \in Pairs : CashFacts(q)'
                    /\ (\A q \in Pairs : run'[q].pc \notin Bookings) => cash' = Equity + Total'
  BY DEF CashInv, ClosePosition, CloseSignal, ReadAccount, WriteAccount, env
<1> DEFINE s == Cur(p)
<1>1. run[p].pc \in {"finish", "finish_signal", "read_account", "write_account"}
  BY DEF ClosePosition, CloseSignal, ReadAccount, WriteAccount, At
<1>2. TypeOK /\ RunFacts(p) /\ ~At(p, "idle") /\ s \in Signals /\ run[p] \in RunType
  BY <1>1, AtHand, RunTypes
<1>3. ASSUME NEW q \in Pairs, q # p PROVE run[q].pc = "idle"
  BY <1>2, <1>3 DEF IInv, OneAtATime, At
<1>4. /\ \A q \in Pairs : q # p => run'[q] = run[q]
      /\ run'[p].cur = s /\ UNCHANGED market
      /\ ReadAccount(p) => run'[p].pc = "write_account" /\ run'[p].cash = cash
      /\ ~ReadAccount(p) => run'[p].pc \in {"finish_signal", "read_account", "kill", "reread"}
  <2>1. CASE ReadAccount(p)
    <3> DEFINE r == [run[p] EXCEPT !.pc = "write_account", !.cash = cash, !.peak = peak, !.killed = kill]
    <3>1. r.pc = "write_account" /\ r.cash = cash /\ r.cur = run[p].cur
      BY <1>2 DEF RunType
    <3>. QED BY <1>2, <2>1, <3>1 DEF ReadAccount, TypeOK, Cur, env
  <2>2. CASE ~ReadAccount(p)
    <3>1. PICK label \in {"finish_signal", "read_account", "kill", "reread"} :
            Goto(p, label) /\ UNCHANGED market
      BY <2>2 DEF ClosePosition, CloseSignal, WriteAccount, env
    <3>2. label \in PcLabels
      BY DEF PcLabels
    <3>. QED BY <1>2, <2>2, <3>1, <3>2, GotoFields DEF Cur
  <2>. QED BY <2>1, <2>2
<1>5. Result(p)' = Result(p) /\ Cur(p)' = s
  BY <1>4 DEF Result, ExitReason, Cur
<1>6. \A q \in Pairs : q # p => CashFacts(q)'
  BY <1>3, <1>4 DEF CashFacts, Bookings
<1>7. Total \in Int /\ Result(p) \in Int
  <2>1. \A x \in Signals : realized[x] \in Int
    BY <1>2 DEF TypeOK
  <2>2. \E F : Total = F[Signals] /\ Adds(F, realized, Signals)
    BY <2>1, SumSteps, ConstantsAssumption DEF Total
  <2>3. Total \in Int
    BY <2>2 DEF Adds
  <2>4. ExitReason(s) \in Reasons
    BY <1>1, <1>2 DEF RunFacts, ExitSteps
  <2>. QED BY <2>3, <2>4, ConstantsAssumption DEF Result
<1>8. CASE ClosePosition(p)
  <2>1. At(p, "finish") /\ cash' = cash /\ realized' = [realized EXCEPT ![s] = @ + Result(p)]
        /\ run'[p].pc = "finish_signal"
    <3>1. Goto(p, "finish_signal") /\ "finish_signal" \in PcLabels
      BY <1>8 DEF ClosePosition, PcLabels
    <3>2. run'[p].pc = "finish_signal"
      BY <1>2, <3>1, GotoFields
    <3>. QED BY <1>8, <3>2 DEF ClosePosition, account
  <2>2. \A q \in Pairs : run[q].pc \notin Bookings
    BY <1>3, <2>1 DEF At, Bookings
  <2>3. cash = Equity + Total
    BY <2>2 DEF CashInv
  <2>4. Total' = Total + Result(p)
    <3>1. /\ realized \in [Signals -> Int] /\ realized' \in [Signals -> Int]
          /\ \A x \in Signals \ {s} : realized'[x] = realized[x]
          /\ realized'[s] = realized[s] + Result(p) /\ realized[s] \in Int
      BY <1>2, <1>7, <2>1 DEF TypeOK
    <3> HIDE DEF s
    <3>2. Total' = Total - realized[s] + realized'[s]
      BY <1>2, <3>1, SumChange, ConstantsAssumption DEF Total
    <3>. QED BY <1>7, <3>1, <3>2
  <2>5. CashFacts(p)' /\ run'[p].pc \in Bookings
    <3>1. cash' + Result(p)' = Equity + Total' /\ run'[p].pc # "write_account"
      BY <1>5, <1>7, <2>1, <2>3, <2>4, ConstantsAssumption
    <3>. QED BY <2>1, <3>1 DEF CashFacts, At, Bookings
  <2>. QED BY <1>6, <2>5
<1>9. CASE CloseSignal(p) \/ ReadAccount(p)
  <2>1. /\ run[p].pc \in Bookings /\ cash' = cash /\ realized' = realized
        /\ run'[p].pc \in {"read_account", "write_account"}
        /\ run'[p].pc = "write_account" => run'[p].cash = cash
    <3>1. CASE ReadAccount(p)
      BY <1>4, <3>1 DEF ReadAccount, tables, At, Bookings
    <3>2. CASE CloseSignal(p)
      <4>1. Goto(p, "read_account") /\ "read_account" \in PcLabels
        BY <3>2 DEF CloseSignal, PcLabels
      <4>2. run'[p].pc = "read_account"
        BY <1>2, <4>1, GotoFields
      <4>. QED BY <3>2, <4>2 DEF CloseSignal, account, positions, At, Bookings
    <3>. QED BY <1>9, <3>1, <3>2
  <2>2. cash + Result(p) = Equity + Total
    BY <2>1 DEF CashInv, CashFacts
  <2>3. Total' = Total
    BY <2>1 DEF Total
  <2>4. CashFacts(p)' /\ run'[p].pc \in Bookings
    BY <1>5, <2>1, <2>2, <2>3 DEF CashFacts, At, Bookings
  <2>. QED BY <1>6, <2>4
<1>10. CASE WriteAccount(p)
  <2>1. /\ run[p].pc = "write_account" /\ cash' = run[p].cash + Result(p) /\ realized' = realized
    BY <1>10 DEF WriteAccount, positions, At
  <2>2. run'[p].pc \in {"kill", "reread"}
    <3>1. PICK label \in {"kill", "reread"} : Goto(p, label)
      BY <1>10 DEF WriteAccount
    <3>2. label \in PcLabels
      BY DEF PcLabels
    <3>. QED BY <1>2, <3>1, <3>2, GotoFields
  <2>3. cash + Result(p) = Equity + Total /\ run[p].cash = cash
    BY <2>1 DEF CashInv, CashFacts, Bookings, At
  <2>4. Total' = Total
    BY <2>1 DEF Total
  <2>5. cash' = Equity + Total' /\ CashFacts(p)'
    BY <2>1, <2>2, <2>3, <2>4 DEF CashFacts, Bookings
  <2>. QED BY <1>6, <2>5
<1>. QED BY <1>8, <1>9, <1>10

(* Every step keeps the cash in order.                                     *)
LEMMA CashKeeps ==
  ASSUME IInv, CashInv, [Next]_vars
  PROVE  CashInv'
<1>1. CASE UNCHANGED vars
  <2>1. \A q \in Pairs : Result(q)' = Result(q)
    BY <1>1 DEF vars, Result, ExitReason, Cur
  <2>2. Total' = Total
    BY <1>1 DEF vars, Total
  <2>. QED BY <1>1, <2>1, <2>2 DEF vars, CashInv, CashFacts, At
<1>2. ASSUME NEW s \in Signals, Candle(s)
      PROVE  CashInv'
  <2>1. UNCHANGED <<overlap, crashes, realized, cash, run>> /\ run[Pair[s]].pc = "idle" /\ TypeOK
    BY <1>2 DEF Candle, tables, At, IInv
  <2>2. Total' = Total
    BY <2>1 DEF Total
  <2>3. ASSUME NEW q \in Pairs, run[q].pc \in Bookings PROVE Result(q)' = Result(q)
    <3>1. Cur(q) \in Signals /\ Cur(q) # s
      BY <2>1, <2>3, AtHand DEF Bookings
    <3>2. \A t \in Signals : t # s => market'[t] = market[t]
      BY <1>2, <2>1 DEF Candle, TypeOK
    <3>. QED BY <2>1, <3>1, <3>2 DEF Result, ExitReason, Cur
  <2>. QED BY <2>1, <2>2, <2>3 DEF CashInv, CashFacts, At
<1>3. ASSUME NEW p \in Pairs, Crash(p)
      PROVE  CashInv'
  <2>1. crashes' # 0
    BY <1>3 DEF Crash, IInv, TypeOK
  <2>. QED BY <2>1 DEF CashInv
<1>4. ASSUME NEW p \in Pairs, StartRun(p) \/ Work(p),
             ~(ClosePosition(p) \/ CloseSignal(p) \/ ReadAccount(p) \/ WriteAccount(p))
      PROVE  CashInv'
  <2>1. TypeOK /\ run[p] \in RunType
    BY RunTypes DEF IInv
  <2>2. run[p].pc \notin Bookings /\ UNCHANGED <<overlap, crashes, market, realized, cash>>
    BY <1>4 DEF Work, Armed, Fill, Entered, Finish, Open, StartRun, Reread, ArmedWaits, ArmedRaises, Take,
                ArmedDies, CancelSignal, ArmedFills, OpenPosition, FillEntry, CreateStopRow,
                CreateTakeProfitRow, MarkEntered, UpdateEntered, PositionDone, PositionStays,
                PositionExits, SettleRow, RowsSettled, CreateCloseRow, FillCloseRow,
                TurnKillSwitchOn, NewSignals, AcceptCandidate, RejectCandidate, Arm,
                CreateEntryRow, EndRun, env, tables, account, positions, At, Bookings
  <2>3. PICK r : run' = [run EXCEPT ![p] = r] /\ r.pc \notin Bookings
    <3>1. CASE \/ CancelSignal(p) \/ Fill(p) \/ PositionDone(p) \/ PositionStays(p) \/ RowsSettled(p)
               \/ CreateCloseRow(p) \/ FillCloseRow(p) \/ TurnKillSwitchOn(p) \/ NewSignals(p)
               \/ Arm(p) \/ CreateEntryRow(p)
      <4>1. PICK label \in PcLabels \ Bookings : Goto(p, label)
        BY <3>1 DEF CancelSignal, Fill, OpenPosition, FillEntry, CreateStopRow, CreateTakeProfitRow,
                    MarkEntered, PositionDone, PositionStays, RowsSettled, CreateCloseRow,
                    FillCloseRow, TurnKillSwitchOn, NewSignals, Arm, CreateEntryRow, PcLabels, Bookings
      <4>. QED BY <2>1, <4>1, GotoRun
    <3>2. CASE ArmedWaits(p) \/ ArmedDies(p) \/ ArmedFills(p) \/ UpdateEntered(p)
      <4>1. PICK s \in Signals, status \in {"armed", "entered"},
                 label \in {"reread", "cancel_signal", "open_position", "entered"} :
              Take(p, s, status, label)
        BY <3>2 DEF ArmedWaits, ArmedDies, ArmedFills, UpdateEntered
      <4> DEFINE r == [run[p] EXCEPT !.pc = label, !.cur = s, !.todo = @ \ {s}]
      <4>2. r.pc = label
        BY <2>1 DEF RunType
      <4>. QED BY <4>1, <4>2 DEF Take, Bookings
    <3>3. CASE ArmedRaises(p) \/ EndRun(p)
      <4>1. IdleRun.pc = "idle"
        BY DEF IdleRun
      <4>. QED BY <3>3, <4>1 DEF ArmedRaises, EndRun, Bookings
    <3>4. CASE StartRun(p) \/ Reread(p)
      <4>1. PICK todo : run' = [run EXCEPT ![p] = [IdleRun EXCEPT !.pc = "loop", !.kill = kill, !.todo = todo]]
        BY <3>4 DEF StartRun, Reread
      <4> DEFINE r == [IdleRun EXCEPT !.pc = "loop", !.kill = kill, !.todo = todo]
      <4>2. r.pc = "loop"
        BY DEF IdleRun
      <4>. QED BY <4>1, <4>2 DEF Bookings
    <3>5. CASE PositionExits(p)
      <4> DEFINE r == [run[p] EXCEPT !.pc = "exits", !.list = OpenRows(Cur(p))]
      <4>1. r.pc = "exits"
        BY <2>1 DEF RunType
      <4>. QED BY <3>5, <4>1 DEF PositionExits, Bookings
    <3>6. CASE SettleRow(p)
      <4>1. PICK o \in run[p].list : run' = [run EXCEPT ![p].list = @ \ {o}]
        BY <3>6 DEF SettleRow
      <4> DEFINE r == [run[p] EXCEPT !.list = @ \ {o}]
      <4>2. r.pc = run[p].pc
        BY <2>1 DEF RunType
      <4>. QED BY <2>2, <4>1, <4>2
    <3>7. CASE AcceptCandidate(p)
      <4>1. PICK s \in Signals : run' = [run EXCEPT ![p].pc = "arm", ![p].cur = s, ![p].back = "new"]
        BY <3>7 DEF AcceptCandidate, Candidates
      <4> DEFINE r == [run[p] EXCEPT !.pc = "arm", !.cur = s, !.back = "new"]
      <4>2. r.pc = "arm"
        BY <2>1 DEF RunType
      <4>. QED BY <4>1, <4>2 DEF Bookings
    <3>8. CASE RejectCandidate(p)
      <4>1. run' = [run EXCEPT ![p] = run[p]]
        BY <2>1, <3>8 DEF RejectCandidate, TypeOK
      <4>. QED BY <2>2, <4>1
    <3>. QED BY <1>4, <3>1, <3>2, <3>3, <3>4, <3>5, <3>6, <3>7, <3>8
             DEF Work, Armed, Entered, Finish, Open
  <2>4. run'[p] = r /\ \A q \in Pairs : q # p => run'[q] = run[q]
    BY <2>1, <2>3 DEF TypeOK
  <2>. QED BY <2>2, <2>3, <2>4, CashQuiet
<1>. QED BY <1>1, <1>2, <1>3, <1>4, CashBooks DEF Next

(* The account starts with its equity and no result.                       *)
LEMMA CashInit == Init => CashInv
<1> SUFFICES ASSUME Init PROVE CashInv
  OBVIOUS
<1>1. \A p \in Pairs : run[p].pc = "idle"
  BY DEF Init, IdleRun
<1>2. \A s \in Signals : realized[s] = 0
  BY DEF Init
<1>3. Total = 0
  BY <1>2, SumZero, ConstantsAssumption DEF Total
<1>. QED BY <1>1, <1>3, ConstantsAssumption DEF Init, CashInv, CashFacts, Bookings

(* Between uninterrupted runs, one at a time, the cash is the starting     *)
(* equity and the results of all closed positions, for any number of pairs *)
(* and signals and any results.                                            *)
THEOREM CashTheorem == Spec => []CashAddsUp
<1>1. CashInv => CashAddsUp
  <2> SUFFICES ASSUME CashInv, ~overlap, crashes = 0, AllIdle PROVE cash = Equity + Total
    BY DEF CashAddsUp, Total, SumOf
  <2>1. \A p \in Pairs : run[p].pc \notin Bookings
    BY DEF AllIdle, At, Bookings
  <2>. QED BY <2>1 DEF CashInv
<1>2. Spec => []CashInv
  BY CashInit, CashKeeps, Invariance, PTL DEF Spec
<1>. QED BY <1>1, <1>2, PTL

-----------------------------------------------------------------------------
(* PaperFollowsSetup: the trade of a setup against its outcome.            *)
(*                                                                         *)
(* Outcomes is a recursive function; OutcomesFact gives its recursion and  *)
(* counting up the chart what every outcome says of the candles so far     *)
(* (OutOk), and that a final one stays (Keeps).  The invariant relates the *)
(* trade to the outcome of the chart the last complete run saw (TradeOk),  *)
(* which is not the row of the setup once an engine failed.                *)

\* Candle j comes to the near edge, to the SL and to the TP of the plan.
Touches(j) == Reaches(chart[j], NearEdge)
Stops(j) == Reaches(chart[j], StopOf(NearEdge))
Wins(j) == Gains(chart[j], TargetOf(NearEdge))
\* What closes a position entered at candle e by its plan.
PlanHit(e, j) == Stops(j) \/ (j > e /\ Wins(j))
\* An entry at the near edge has the SL and TP of the plan.
InPlan(o) == o.price = NearEdge

\* What simulate answers, and the outcomes that had an entry.
Outcome == [status : Statuses, entry : Nat, price : Prices, exit : Nat]
EverEntered == {"open", "loss", "win", "expired"}

\* What outcome o says of the first i candles: no candle before its entry, or
\* before its end without one, comes to the near edge; for an entry of the
\* plan, no candle before its exit closes it, and the exit has its reason.
OutOk(o, i) ==
  /\ o \in Outcome
  /\ o.status = "waiting" => o = Fresh /\ \A j \in 1 .. i : ~Touches(j)
  /\ o.status \in {"no_entry", "invalidated"} =>
       /\ o.entry = 0 /\ o.price = 0 /\ o.exit \in 1 .. i
       /\ \A j \in 1 .. o.exit - 1 : ~Touches(j)
  /\ o.status \in EverEntered =>
       /\ o.entry \in 1 .. i /\ Touches(o.entry)
       /\ \A j \in 1 .. o.entry - 1 : ~Touches(j)
       /\ o.price = Filled(chart[o.entry], NearEdge)
  /\ o.status = "open" =>
       /\ o.exit = 0
       /\ InPlan(o) => \A j \in o.entry .. i : ~PlanHit(o.entry, j)
  /\ o.status \in {"loss", "win", "expired"} =>
       /\ o.exit \in o.entry .. i
       /\ InPlan(o) => \A j \in o.entry .. o.exit - 1 : ~PlanHit(o.entry, j)
  /\ o.status = "loss" /\ InPlan(o) => Stops(o.exit)
  /\ o.status = "win" => o.exit > o.entry /\ (InPlan(o) => ~Stops(o.exit) /\ Wins(o.exit))
  /\ o.status = "expired" => o.exit > o.entry /\ (InPlan(o) => ~PlanHit(o.entry, o.exit))

\* From the outcome o of the first i candles to a later one p.
Keeps(o, p, i) ==
  /\ o.status \in Final => p = o
  /\ o.status = "open" => p.status \in EverEntered /\ p.entry = o.entry /\ p.price = o.price
  /\ o.status \notin Final /\ p.status \in Final => p.exit > i

\* The trade t after a run that saw s candles and their outcome o.
TradeOk(t, o, s) ==
  /\ t.status = "none" => t = NoTrade
  /\ t.status # "none" => t.placed \in 0 .. s /\ Follow(t, o)
  /\ t.status = "armed" => o.status = "waiting" /\ t.reason = "none" /\ t.exit = 0
  /\ t.status = "entered" =>
       /\ o.status \in {"open", "win", "loss"} /\ t.reason = "none" /\ t.exit = 0
       /\ \A j \in 1 .. s : j >= t.entry => ~PlanHit(t.entry, j)
  /\ t.status = "closed" => o.status \in EverEntered
  /\ t.status = "cancelled" => o.status \in {"no_entry", "invalidated"}

Trade == [status : {"none", "armed", "entered", "closed", "cancelled"}, placed : Index,
          entry : Index, price : Prices, reason : {"none", "sl", "tp", "timeout"}, exit : Index]

\* The row of the setup is the outcome of a chart no shorter than the one the
\* last complete run saw, whose trade follows its outcome; hours between them
\* are counted.
FollowInv ==
  /\ FollowTypeOK
  /\ seen <= Len(chart)
  /\ Len(chart) > seen + 1 => missed > 0
  /\ \E m \in seen .. Len(chart) : setup = Outcomes[m]
  /\ \E t, o, s : t = trade /\ s = seen /\ o = Outcomes[s] /\ TradeOk(t, o, s)

-----------------------------------------------------------------------------
\* f judges the candles of the chart one after the other.
Solution(f) ==
  f = [i \in 0 .. Len(chart) |-> IF i = 0 THEN Fresh ELSE Judged(f[i - 1], i, chart[i])]

\* There is such a function: with one for n candles there is one for n + 1.
LEMMA SolutionExists == chart \in Seq(Bars) => \E f : Solution(f)
<1> SUFFICES ASSUME chart \in Seq(Bars) PROVE \E f : Solution(f)
  OBVIOUS
<1>0. Len(chart) \in Nat
  OBVIOUS
<1> DEFINE Value(f, i) == IF i = 0 THEN Fresh ELSE Judged(f[i - 1], i, chart[i])
           Exists(n) == \E f : f = [i \in 0 .. n |-> Value(f, i)]
           G == {n \in Nat : Exists(n)}
<1>1. 0 \in G
  <2> DEFINE f == [i \in 0 .. 0 |-> Fresh]
  <2>1. f = [i \in 0 .. 0 |-> Value(f, i)]
    OBVIOUS
  <2> HIDE DEF f, Value
  <2>. QED BY <2>1
<1>2. ASSUME NEW n \in 0 .. Len(chart) - 1, n \in G PROVE n + 1 \in G
  <2>1. PICK g : g = [i \in 0 .. n |-> Value(g, i)]
    BY <1>2
  <2> DEFINE f == [i \in 0 .. n + 1 |-> Value(g, i)]
  <2>2. ASSUME NEW i \in 0 .. n + 1 PROVE Value(g, i) = Value(f, i)
    <3>1. CASE i = 0
      BY <3>1
    <3>2. CASE i # 0
      <4>1. i - 1 \in 0 .. n /\ i - 1 \in 0 .. n + 1
        BY <3>2
      <4>2. g[i - 1] = f[i - 1]
        <5> HIDE DEF Value
        <5>. QED BY <2>1, <4>1
      <4> HIDE DEF f
      <4>. QED BY <4>2
    <3>. QED BY <3>1, <3>2
  <2>3. f = [i \in 0 .. n + 1 |-> Value(f, i)]
    <3> HIDE DEF Value
    <3>. QED BY <2>2
  <2>4. n + 1 \in Nat
    BY <1>2
  <2> HIDE DEF f, Value
  <2>. QED BY <2>3, <2>4
<1>3. Len(chart) \in G
  <2> HIDE DEF G
  <2>1. \A n \in 0 .. Len(chart) - 1 : n \in G => n + 1 \in G
    BY <1>2
  <2>2. \A n \in 0 .. Len(chart) : n \in G
    BY <1>0, <1>1, <2>1, CountedUp
  <2>. QED BY <1>0, <2>2
<1>4. Exists(Len(chart))
  BY <1>3
<1>. QED BY <1>4 DEF Solution

\* What the outcomes are, candle by candle.
LEMMA OutcomesFact ==
  chart \in Seq(Bars) =>
    /\ Outcomes[0] = Fresh
    /\ \A n, o, k : n \in 0 .. Len(chart) - 1 /\ o = Outcomes[n] /\ k = chart[n + 1]
                      => Outcomes[n + 1] = Judged(o, n + 1, k)
<1> SUFFICES ASSUME chart \in Seq(Bars)
             PROVE  /\ Outcomes[0] = Fresh
                    /\ \A n \in 0 .. Len(chart) - 1 : Outcomes[n + 1] = Judged(Outcomes[n], n + 1, chart[n + 1])
  OBVIOUS
<1>0. Len(chart) \in Nat
  OBVIOUS
<1>1. Outcomes = CHOOSE f : Solution(f)
  BY DEF Outcomes, Solution
<1>2. Solution(Outcomes)
  <2> HIDE DEF Solution
  <2>. QED BY <1>1, SolutionExists
<1>3. Outcomes = [i \in 0 .. Len(chart) |->
                    IF i = 0 THEN Fresh ELSE Judged(Outcomes[i - 1], i, chart[i])]
  BY <1>2 DEF Solution
<1>4. Outcomes[0] = Fresh
  BY <1>0, <1>3
<1>5. ASSUME NEW n \in 0 .. Len(chart) - 1
      PROVE  Outcomes[n + 1] = Judged(Outcomes[n], n + 1, chart[n + 1])
  <2>1. n + 1 \in 0 .. Len(chart) /\ n + 1 # 0 /\ (n + 1) - 1 = n
    BY <1>0
  <2>. QED BY <1>3, <2>1
<1>. QED BY <1>4, <1>5

\* The near edge and what an order is filled at are prices.
LEMMA PriceTypes ==
  ASSUME bull \in BOOLEAN
  PROVE  /\ NearEdge \in Prices
         /\ \A k \in Bars : Filled(k, NearEdge) \in Prices
<1>1. NearEdge \in Prices
  BY FollowAssumption DEF NearEdge, Flip, Prices
<1>2. ASSUME NEW k \in Bars PROVE Filled(k, NearEdge) \in Prices
  <2>1. k.open \in Prices /\ k.open \in Nat /\ NearEdge \in Nat
    BY <1>1, FollowAssumption DEF Bars, Prices
  <2>2. Min({k.open, NearEdge}) \in {k.open, NearEdge} /\ Max({k.open, NearEdge}) \in {k.open, NearEdge}
    BY <2>1, MinOfTwo, MaxOfTwo
  <2>. QED BY <1>1, <2>1, <2>2 DEF Filled
<1>. QED BY <1>1, <1>2

\* The outcomes a waiting setup may get from a candle.
LEMMA WaitsCases ==
  ASSUME NEW i, NEW k, NEW p, p = Waits(Fresh, i, k)
  PROVE  \/ p = [status |-> "invalidated", entry |-> 0, price |-> 0, exit |-> i]
         \/ /\ Reaches(k, NearEdge) /\ ~Reaches(k, StopOf(Filled(k, NearEdge)))
            /\ p = [status |-> "open", entry |-> i, price |-> Filled(k, NearEdge), exit |-> 0]
         \/ /\ Reaches(k, NearEdge) /\ Reaches(k, StopOf(Filled(k, NearEdge)))
            /\ p = [status |-> "loss", entry |-> i, price |-> Filled(k, NearEdge), exit |-> i]
         \/ /\ ~Reaches(k, NearEdge)
            /\ p = [status |-> "no_entry", entry |-> 0, price |-> 0, exit |-> i]
         \/ ~Reaches(k, NearEdge) /\ p = Fresh
BY DEF Waits, Fresh

\* The outcomes an open setup may get from a candle.
LEMMA HoldsCases ==
  ASSUME NEW o \in Outcome, o.status = "open", NEW i, NEW k, NEW p, p = Holds(o, i, k)
  PROVE  \/ /\ Reaches(k, StopOf(o.price))
            /\ p = [status |-> "loss", entry |-> o.entry, price |-> o.price, exit |-> i]
         \/ /\ ~Reaches(k, StopOf(o.price)) /\ Gains(k, TargetOf(o.price))
            /\ p = [status |-> "win", entry |-> o.entry, price |-> o.price, exit |-> i]
         \/ /\ ~Reaches(k, StopOf(o.price)) /\ ~Gains(k, TargetOf(o.price))
            /\ p = [status |-> "expired", entry |-> o.entry, price |-> o.price, exit |-> i]
         \/ /\ ~Reaches(k, StopOf(o.price)) /\ ~Gains(k, TargetOf(o.price))
            /\ p = o
BY DEF Holds, Outcome

\* One more candle keeps what an outcome says of the candles so far.
LEMMA JudgedOk ==
  ASSUME FollowTypeOK, NEW n \in 0 .. Len(chart) - 1, NEW o, OutOk(o, n),
         NEW p, p = Judged(o, n + 1, chart[n + 1])
  PROVE  OutOk(p, n + 1) /\ Keeps(o, p, n)
<1> DEFINE i == n + 1
           k == chart[i]
<1>1. n \in Nat /\ i \in Nat /\ i > 0 /\ n < i /\ k \in Bars
  BY DEF FollowTypeOK
<1>2. /\ Touches(i) <=> Reaches(k, NearEdge)
      /\ Stops(i) <=> Reaches(k, StopOf(NearEdge))
      /\ Wins(i) <=> Gains(k, TargetOf(NearEdge))
  BY DEF Touches, Stops, Wins
<1>3. Filled(k, NearEdge) \in Prices /\ 0 \in Prices
  <2>1. bull \in BOOLEAN
    BY DEF FollowTypeOK
  <2>2. 0 \in Prices
    BY FollowAssumption DEF Prices
  <2>. QED BY <1>1, <2>1, <2>2, PriceTypes
<1>4. Filled(k, NearEdge) = Filled(chart[i], NearEdge) /\ 1 .. i = 1 .. n \cup {i} /\ i - 1 = n
  BY <1>1
<1>5. o \in Outcome
  BY DEF OutOk
<1>6. p = Judged(o, i, k)
  OBVIOUS
<1> HIDE DEF i, k
<1>7. CASE o.status = "waiting"
  <2>1. o = Fresh /\ \A j \in 1 .. n : ~Touches(j)
    BY <1>7 DEF OutOk
  <2>2. p = Waits(Fresh, i, k)
    BY <1>6, <1>7, <2>1 DEF Judged
  <2>3. Keeps(o, p, n)
    BY <1>1, <1>7, <2>2, WaitsCases DEF Keeps, Final, Statuses, Fresh
  <2>4. CASE p = [status |-> "invalidated", entry |-> 0, price |-> 0, exit |-> i]
    <3>1. OutOk(p, i)
      BY <1>1, <1>3, <1>4, <2>1, <2>4 DEF OutOk, Outcome, Statuses, EverEntered
    <3>. QED BY <2>3, <3>1 DEF i
  <2>5. CASE /\ Reaches(k, NearEdge) /\ ~Reaches(k, StopOf(Filled(k, NearEdge)))
             /\ p = [status |-> "open", entry |-> i, price |-> Filled(k, NearEdge), exit |-> 0]
    <3>1. InPlan(p) => \A j \in i .. i : ~PlanHit(i, j)
      BY <1>1, <1>2, <2>5 DEF InPlan, PlanHit
    <3>2. OutOk(p, i)
      BY <1>1, <1>2, <1>3, <1>4, <2>1, <2>5, <3>1 DEF OutOk, Outcome, Statuses, EverEntered
    <3>. QED BY <2>3, <3>2 DEF i
  <2>6. CASE /\ Reaches(k, NearEdge) /\ Reaches(k, StopOf(Filled(k, NearEdge)))
             /\ p = [status |-> "loss", entry |-> i, price |-> Filled(k, NearEdge), exit |-> i]
    <3>1. InPlan(p) => Stops(i)
      BY <1>2, <2>6 DEF InPlan
    <3>2. OutOk(p, i)
      BY <1>1, <1>2, <1>3, <1>4, <2>1, <2>6, <3>1 DEF OutOk, Outcome, Statuses, EverEntered
    <3>. QED BY <2>3, <3>2 DEF i
  <2>7. CASE /\ ~Reaches(k, NearEdge)
             /\ p = [status |-> "no_entry", entry |-> 0, price |-> 0, exit |-> i]
    <3>1. OutOk(p, i)
      BY <1>1, <1>3, <1>4, <2>1, <2>7 DEF OutOk, Outcome, Statuses, EverEntered
    <3>. QED BY <2>3, <3>1 DEF i
  <2>8. CASE ~Reaches(k, NearEdge) /\ p = Fresh
    <3>1. OutOk(p, i)
      BY <1>1, <1>2, <1>3, <1>4, <2>1, <2>8 DEF OutOk, Outcome, Statuses, EverEntered, Fresh
    <3>. QED BY <2>3, <3>1 DEF i
  <2>. QED BY <2>2, <2>4, <2>5, <2>6, <2>7, <2>8, WaitsCases
<1>8. CASE o.status = "open"
  <2>1. /\ o.entry \in 1 .. n /\ Touches(o.entry) /\ o.exit = 0
        /\ \A j \in 1 .. o.entry - 1 : ~Touches(j)
        /\ o.price = Filled(chart[o.entry], NearEdge)
        /\ InPlan(o) => \A j \in o.entry .. n : ~PlanHit(o.entry, j)
    BY <1>8 DEF OutOk, EverEntered
  <2>2. p = Holds(o, i, k)
    BY <1>6, <1>8 DEF Judged
  <2>3. p.entry = o.entry /\ p.price = o.price /\ p.status \in EverEntered
        /\ (p.status # "open" => p.exit = i)
    BY <1>5, <1>8, <2>2, HoldsCases DEF EverEntered
  <2>4. Keeps(o, p, n)
    BY <1>1, <1>8, <2>3 DEF Keeps, Final
  <2>5. o.entry \in Nat /\ o.entry < i /\ o.entry \in 1 .. i /\ o.entry .. i = o.entry .. n \cup {i}
    BY <1>1, <1>4, <2>1
  <2>6. PlanHit(o.entry, i) <=> Stops(i) \/ Wins(i)
    BY <2>5 DEF PlanHit
  <2>7. InPlan(o) => /\ Reaches(k, StopOf(o.price)) <=> Stops(i)
                     /\ Gains(k, TargetOf(o.price)) <=> Wins(i)
    BY <1>2 DEF InPlan
  <2>8. InPlan(p) <=> InPlan(o)
    BY <2>3 DEF InPlan
  <2>9. CASE /\ Reaches(k, StopOf(o.price))
             /\ p = [status |-> "loss", entry |-> o.entry, price |-> o.price, exit |-> i]
    <3>1. OutOk(p, i)
      BY <1>1, <1>4, <1>5, <2>1, <2>5, <2>7, <2>8, <2>9 DEF OutOk, Outcome, Statuses, EverEntered
    <3>. QED BY <2>4, <3>1 DEF i
  <2>10. CASE /\ ~Reaches(k, StopOf(o.price)) /\ Gains(k, TargetOf(o.price))
              /\ p = [status |-> "win", entry |-> o.entry, price |-> o.price, exit |-> i]
    <3>1. OutOk(p, i)
      BY <1>1, <1>4, <1>5, <2>1, <2>5, <2>7, <2>8, <2>10 DEF OutOk, Outcome, Statuses, EverEntered
    <3>. QED BY <2>4, <3>1 DEF i
  <2>11. CASE /\ ~Reaches(k, StopOf(o.price)) /\ ~Gains(k, TargetOf(o.price))
              /\ p = [status |-> "expired", entry |-> o.entry, price |-> o.price, exit |-> i]
    <3>1. OutOk(p, i)
      BY <1>1, <1>4, <1>5, <2>1, <2>5, <2>6, <2>7, <2>8, <2>11 DEF OutOk, Outcome, Statuses, EverEntered
    <3>. QED BY <2>4, <3>1 DEF i
  <2>12. CASE /\ ~Reaches(k, StopOf(o.price)) /\ ~Gains(k, TargetOf(o.price))
              /\ p = o
    <3>1. OutOk(p, i)
      BY <1>1, <1>4, <1>5, <1>8, <2>1, <2>5, <2>6, <2>7, <2>8, <2>12 DEF OutOk, Outcome, Statuses, EverEntered
    <3>. QED BY <2>4, <3>1 DEF i
  <2>. QED BY <1>5, <1>8, <2>2, <2>9, <2>10, <2>11, <2>12, HoldsCases
<1>9. CASE o.status \notin {"waiting", "open"}
  <2>1. p = o
    BY <1>6, <1>9 DEF Judged
  <2>2. Keeps(o, p, n)
    BY <1>9, <2>1 DEF Keeps, OutOk, Outcome, Final
  <2>3. OutOk(p, i)
    BY <1>1, <1>4, <1>9, <2>1 DEF OutOk
  <2>. QED BY <2>2, <2>3 DEF i
<1>. QED BY <1>7, <1>8, <1>9

\* What is kept twice is kept.
LEMMA KeepsTwice ==
  ASSUME NEW a \in Nat, NEW b \in Nat, a <= b, NEW o \in Outcome, NEW q \in Outcome, NEW p \in Outcome,
         Keeps(o, q, a), Keeps(q, p, b)
  PROVE  Keeps(o, p, a)
BY DEF Keeps, Outcome, Final, Statuses, EverEntered

\* What every outcome says, and that an outcome once final or open stays so.
LEMMA OutcomesOk ==
  ASSUME FollowTypeOK
  PROVE  /\ \A i \in 0 .. Len(chart) : OutOk(Outcomes[i], i)
         /\ \A i \in 0 .. Len(chart) : \A k \in i .. Len(chart) : Keeps(Outcomes[i], Outcomes[k], i)
<1>0. chart \in Seq(Bars) /\ Len(chart) \in Nat
  BY DEF FollowTypeOK
<1>1. /\ Outcomes[0] = Fresh
      /\ \A n \in 0 .. Len(chart) - 1 : Outcomes[n + 1] = Judged(Outcomes[n], n + 1, chart[n + 1])
  BY <1>0, OutcomesFact
<1>2. \A i \in 0 .. Len(chart) : OutOk(Outcomes[i], i)
  <2> DEFINE G == {i \in 0 .. Len(chart) : OutOk(Outcomes[i], i)}
  <2>1. 0 \in G
    <3>1. OutOk(Fresh, 0)
      BY FollowAssumption DEF OutOk, Outcome, Fresh, Statuses, EverEntered, Prices
    <3>. QED BY <1>0, <1>1, <3>1
  <2>2. ASSUME NEW n \in 0 .. Len(chart) - 1, n \in G PROVE n + 1 \in G
    <3>1. OutOk(Outcomes[n], n) /\ Outcomes[n + 1] = Judged(Outcomes[n], n + 1, chart[n + 1])
      BY <1>1, <2>2
    <3>2. OutOk(Outcomes[n + 1], n + 1)
      BY <3>1, JudgedOk
    <3>. QED BY <1>0, <3>2
  <2> HIDE DEF G
  <2>3. \A n \in 0 .. Len(chart) - 1 : n \in G => n + 1 \in G
    BY <2>2
  <2>4. \A i \in 0 .. Len(chart) : i \in G
    BY <1>0, <2>1, <2>3, CountedUp
  <2>. QED BY <2>4 DEF G
<1>3. ASSUME NEW i \in 0 .. Len(chart)
      PROVE  \A k \in i .. Len(chart) : Keeps(Outcomes[i], Outcomes[k], i)
  <2> DEFINE G == {k \in 0 .. Len(chart) : k >= i => Keeps(Outcomes[i], Outcomes[k], i)}
  <2>0. Outcomes[i] \in Outcome
    BY <1>2 DEF OutOk
  <2>1. Keeps(Outcomes[i], Outcomes[i], i)
    BY <2>0 DEF Keeps, EverEntered
  <2>2. 0 \in G
    BY <1>0, <2>1
  <2>3. ASSUME NEW n \in 0 .. Len(chart) - 1, n \in G PROVE n + 1 \in G
    <3>1. CASE n + 1 < i
      BY <1>0, <3>1
    <3>2. CASE n + 1 = i
      BY <1>0, <2>1, <3>2
    <3>3. CASE n >= i
      <4>1. Keeps(Outcomes[i], Outcomes[n], i)
        BY <2>3, <3>3
      <4>2. Keeps(Outcomes[n], Outcomes[n + 1], n)
        BY <1>0, <1>1, <1>2, JudgedOk
      <4>3. Outcomes[n] \in Outcome /\ Outcomes[n + 1] \in Outcome /\ n + 1 \in 0 .. Len(chart)
        BY <1>0, <1>2 DEF OutOk
      <4>4. Keeps(Outcomes[i], Outcomes[n + 1], i)
        BY <1>0, <2>0, <3>3, <4>1, <4>2, <4>3, KeepsTwice
      <4>. QED BY <4>3, <4>4
    <3>. QED BY <1>0, <3>1, <3>2, <3>3
  <2> HIDE DEF G
  <2>4. \A n \in 0 .. Len(chart) - 1 : n \in G => n + 1 \in G
    BY <2>3
  <2>5. \A k \in 0 .. Len(chart) : k \in G
    BY <1>0, <2>2, <2>4, CountedUp
  <2>. QED BY <1>0, <2>5 DEF G
<1>. QED BY <1>2, <1>3

\* First is the least of the indices, 0 when there is none.
LEMMA FirstFact ==
  ASSUME NEW S \in SUBSET Nat
  PROVE  /\ S = {} => First(S) = 0
         /\ S # {} => First(S) \in S /\ \A j \in S : First(S) <= j
<1>1. CASE S = {}
  BY <1>1 DEF First
<1>2. CASE S # {}
  <2>1. \E m \in S : \A k \in S : m <= k
    BY <1>2, LeastNumber
  <2>2. First(S) = Min(S)
    BY <1>2 DEF First
  <2>. QED BY <1>2, <2>1, <2>2 DEF Min
<1>. QED BY <1>1, <1>2

\* The run closes an entered position as its setup ended.
LEMMA UpdateOk ==
  ASSUME FollowTypeOK, NEW t \in Trade, t.status = "entered", t.reason = "none", t.exit = 0,
         t.placed \in 0 .. Len(chart),
         NEW p, OutOk(p, Len(chart)), p.status \in EverEntered,
         t.entry = p.entry, t.price = p.price,
         p.status = "expired" /\ p.exit < Len(chart) => missed > 0
  PROVE  TradeOk(Update(t, p), p, Len(chart)) /\ Update(t, p) \in Trade
<1> DEFINE L == Len(chart)
           e == p.entry
           F == First(Exits(e))
           u == Update(t, p)
<1>1. L \in Nat /\ L <= MaxCandles /\ MaxCandles \in Nat /\ e \in 1 .. L
  BY FollowAssumption DEF FollowTypeOK, OutOk
<1>2. Exits(e) = {i \in e .. L : PlanHit(e, i)}
  BY <1>1 DEF Exits, PlanHit, Stops, Wins, TargetCounts
<1>3. /\ Exits(e) = {} => F = 0
      /\ Exits(e) # {} => F \in Exits(e) /\ \A j \in Exits(e) : F <= j
  <2>1. Exits(e) \in SUBSET Nat
    BY <1>1, <1>2
  <2>. QED BY <2>1, FirstFact
<1>4. /\ InPlan(p) => p.price = NearEdge
      /\ ~InPlan(p) => p.price # NearEdge
  BY DEF InPlan
<1>5. CASE F # 0
  <2>1. F \in e .. L /\ PlanHit(e, F) /\ \A j \in e .. L : PlanHit(e, j) => F <= j
    BY <1>2, <1>3, <1>5
  <2>2. u = [t EXCEPT !.status = "closed", !.exit = F, !.reason = IF Stops(F) THEN "sl" ELSE "tp"]
    BY <1>5 DEF Update, Closed, Stops
  <2>3. /\ u.status = "closed" /\ u.exit = F /\ u.reason = (IF Stops(F) THEN "sl" ELSE "tp")
        /\ u.entry = t.entry /\ u.price = t.price /\ u.placed = t.placed
    BY <2>2 DEF Trade
  <2>4. u \in Trade
    <3>1. F \in Index
      BY <1>1, <2>1 DEF Index
    <3> HIDE DEF F, u
    <3>. QED BY <2>2, <3>1 DEF Trade
  <2>5. InPlan(p) => Late(u, p) \/ Seen(u) = Mirror(p)
    <3> SUFFICES ASSUME InPlan(p) PROVE Late(u, p) \/ Seen(u) = Mirror(p)
      OBVIOUS
    <3>1. p.status # "open"
      BY <1>1, <2>1 DEF OutOk
    <3>2. p.exit \in e .. L /\ F >= p.exit
      BY <1>1, <2>1, <3>1 DEF OutOk, EverEntered
    <3>3. CASE p.status = "loss"
      <4>1. Stops(p.exit)
        BY <3>3 DEF OutOk
      <4>2. F = p.exit
        BY <1>1, <2>1, <3>2, <4>1 DEF PlanHit
      <4>. QED BY <2>3, <3>3, <4>1, <4>2 DEF Seen, Mirror
    <3>4. CASE p.status = "win"
      <4>1. ~Stops(p.exit) /\ Wins(p.exit) /\ p.exit > e
        BY <3>4 DEF OutOk
      <4>2. F = p.exit
        BY <1>1, <2>1, <3>2, <4>1 DEF PlanHit
      <4>. QED BY <2>3, <3>4, <4>1, <4>2 DEF Seen, Mirror
    <3>5. CASE p.status = "expired"
      <4>1. ~PlanHit(e, p.exit)
        BY <3>5 DEF OutOk
      <4>2. F > p.exit
        BY <1>1, <2>1, <3>2, <4>1
      <4>3. p.exit < L
        BY <1>1, <2>1, <3>2, <4>2
      <4>. QED BY <2>3, <3>5, <4>2, <4>3 DEF Late
    <3>. QED BY <3>1, <3>3, <3>4, <3>5 DEF EverEntered
  <2>6. Follow(u, p)
    BY <1>1, <1>4, <2>3, <2>5 DEF Follow, Gapped
  <2>. QED BY <2>3, <2>4, <2>6 DEF TradeOk
<1>6. CASE F = 0
  <2>1. \A j \in e .. L : ~PlanHit(e, j)
    BY <1>1, <1>2, <1>3, <1>6
  <2>2. CASE p.status = "expired"
    <3>1. u = [t EXCEPT !.status = "closed", !.exit = p.exit, !.reason = "timeout"]
      BY <1>6, <2>2 DEF Update, Closed
    <3>2. /\ u.status = "closed" /\ u.exit = p.exit /\ u.reason = "timeout"
          /\ u.entry = t.entry /\ u.price = t.price /\ u.placed = t.placed
      BY <3>1 DEF Trade
    <3>3. p.exit \in e .. L
      BY <2>2 DEF OutOk
    <3>4. u \in Trade
      <4>1. p.exit \in Index
        BY <1>1, <3>3 DEF Index
      <4> HIDE DEF u
      <4>. QED BY <3>1, <4>1 DEF Trade
    <3>5. Follow(u, p)
      BY <2>2, <3>2 DEF Follow, Seen, Mirror
    <3>. QED BY <2>2, <3>2, <3>4, <3>5 DEF TradeOk
  <2>3. CASE p.status # "expired"
    <3>1. u = t
      BY <1>6, <2>3 DEF Update
    <3>2. InPlan(p) => p.status = "open"
      <4> SUFFICES ASSUME InPlan(p), p.status \in {"loss", "win"} PROVE FALSE
        BY <2>3 DEF EverEntered
      <4>1. p.exit \in e .. L
        BY DEF OutOk
      <4>2. PlanHit(e, p.exit)
        BY DEF OutOk, PlanHit
      <4>. QED BY <2>1, <4>1, <4>2
    <3>3. p.status = "open" => p.exit = 0
      BY DEF OutOk
    <3>4. Follow(u, p)
      BY <1>1, <1>4, <3>1, <3>2, <3>3 DEF Follow, Gapped, Seen, Mirror
    <3>. QED BY <1>1, <2>1, <2>3, <3>1, <3>4 DEF TradeOk, EverEntered
  <2>. QED BY <2>2, <2>3
<1>. QED BY <1>5, <1>6

\* What is stored is the outcome of the whole chart: what was final is so still.
LEMMA StoredFact ==
  ASSUME FollowInv
  PROVE  Stored = Outcomes[Len(chart)]
<1>1. FollowTypeOK /\ Len(chart) \in Nat /\ seen \in Nat
  BY FollowAssumption DEF FollowInv, FollowTypeOK, Index
<1>2. PICK m \in seen .. Len(chart) : setup = Outcomes[m]
  BY DEF FollowInv
<1>3. m \in 0 .. Len(chart) /\ Len(chart) \in m .. Len(chart)
  BY <1>1
<1>4. Keeps(Outcomes[m], Outcomes[Len(chart)], m)
  BY <1>1, <1>3, OutcomesOk
<1>. QED BY <1>2, <1>4 DEF Stored, simulate, Keeps

\* What the engine makes of the trade follows the outcome of the whole chart.
LEMMA TradedOk ==
  ASSUME FollowInv, NEW u \in Traded(Outcomes[Len(chart)])
  PROVE  TradeOk(u, Outcomes[Len(chart)], Len(chart)) /\ u \in Trade
<1> DEFINE L == Len(chart)
           o == Outcomes[seen]
           p == Outcomes[L]
<1>1. /\ FollowTypeOK /\ trade \in Trade
      /\ seen \in Nat /\ seen <= L
      /\ L \in Nat /\ L <= MaxCandles /\ MaxCandles \in Nat /\ 0 \in Prices
  BY FollowAssumption DEF FollowInv, FollowTypeOK, Trade, Index, Prices
<1>2. OutOk(o, seen) /\ OutOk(p, L) /\ Keeps(o, p, seen)
  <2>1. seen \in 0 .. L /\ L \in seen .. L /\ L \in 0 .. L
    BY <1>1
  <2>. QED BY <1>1, <2>1, OutcomesOk
<1>3. TradeOk(trade, o, seen)
  BY DEF FollowInv
<1>4. L > seen + 1 => missed > 0
  BY DEF FollowInv
<1>5. u \in Traded(p)
  OBVIOUS
<1>6. o \in Outcome /\ p \in Outcome
  BY <1>2 DEF OutOk
<1>7. trade.status \in {"none", "armed", "entered", "closed", "cancelled"}
  BY <1>1 DEF Trade
<1>8. o.status \notin Final /\ p.status = "expired" /\ p.exit < L => missed > 0
  <2> SUFFICES ASSUME o.status \notin Final, p.status = "expired", p.exit < L PROVE missed > 0
    OBVIOUS
  <2>1. p.exit > seen /\ p.exit \in Nat
    BY <1>2, <1>6 DEF Keeps, Final, Statuses, Outcome
  <2>2. L > seen + 1
    BY <1>1, <2>1
  <2>. QED BY <1>4, <2>2
<1> HIDE DEF L, o, p
<1>9. CASE trade.status = "none"
  <2>1. CASE u = NoTrade
    <3>1. u \in Trade
      BY <1>1, <2>1 DEF NoTrade, Trade, Index
    <3>. QED BY <2>1, <3>1 DEF TradeOk, NoTrade, L, p
  <2>2. CASE p.status = "waiting" /\ u = [NoTrade EXCEPT !.status = "armed", !.placed = L]
    <3>1. u = [status |-> "armed", placed |-> L, entry |-> 0, price |-> 0, reason |-> "none", exit |-> 0]
      BY <2>2 DEF NoTrade
    <3>2. u \in Trade
      BY <1>1, <3>1 DEF Trade, Index
    <3>3. p = Fresh
      BY <1>2, <2>2 DEF OutOk
    <3>4. Follow(u, p)
      BY <3>1, <3>3 DEF Follow, Seen, Mirror, Fresh
    <3>5. TradeOk(u, p, L)
      <4>1. u.status = "armed" /\ u.reason = "none" /\ u.exit = 0 /\ u.placed \in 0 .. L
        BY <1>1, <3>1
      <4>2. p.status = "waiting"
        BY <2>2
      <4>. QED BY <3>4, <4>1, <4>2 DEF TradeOk
    <3>. QED BY <3>2, <3>5 DEF L, p
  <2>. QED BY <1>5, <1>9, <2>1, <2>2 DEF Traded, Opened, L
<1>10. CASE trade.status = "armed"
  <2>1. /\ o.status = "waiting" /\ trade.reason = "none" /\ trade.exit = 0
        /\ trade.placed \in 0 .. seen /\ trade.entry = o.entry /\ trade.price = o.price
    BY <1>3, <1>10 DEF TradeOk, Follow
  <2>2. o = Fresh /\ \A j \in 1 .. seen : ~Touches(j)
    BY <1>2, <2>1 DEF OutOk
  <2>3. trade.entry = 0 /\ trade.price = 0 /\ trade.placed \in Nat /\ trade.placed <= seen
    BY <1>1, <2>1, <2>2 DEF Fresh
  <2>4. u = UpdateArmed(p)
    BY <1>5, <1>10 DEF Traded
  <2> DEFINE S(end) == {i \in trade.placed + 1 .. L : (end = 0 \/ i < end) /\ Touches(i)}
  <2>5. \A end : /\ S(end) = {} => Entry(end) = 0
                 /\ S(end) # {} => Entry(end) \in S(end) /\ \A j \in S(end) : Entry(end) <= j
    <3> TAKE end
    <3>1. Entry(end) = First(S(end))
      BY DEF Entry, Touches, L
    <3>2. S(end) \in SUBSET Nat
      BY <1>1, <2>3
    <3> HIDE DEF S
    <3>. QED BY <3>1, <3>2, FirstFact
  <2>6. CASE p.status = "waiting"
    <3>1. p = Fresh /\ \A j \in 1 .. L : ~Touches(j)
      BY <1>2, <2>6 DEF OutOk
    <3>2. EndOf(p) = 0
      BY <2>6 DEF EndOf
    <3>3. S(0) = {}
      BY <1>1, <2>3, <3>1
    <3>4. u = trade
      BY <2>4, <2>5, <3>2, <3>3 DEF UpdateArmed
    <3>5. Follow(u, p)
      BY <1>10, <2>1, <2>2, <3>1, <3>4 DEF Follow, Seen, Mirror, Fresh
    <3>6. TradeOk(u, p, L)
      BY <1>1, <1>10, <2>1, <2>3, <2>6, <3>4, <3>5 DEF TradeOk
    <3>. QED BY <1>1, <3>4, <3>6 DEF L, p
  <2>7. CASE p.status \in {"no_entry", "invalidated"}
    <3>1. /\ p.entry = 0 /\ p.price = 0 /\ p.exit \in 1 .. L
          /\ \A j \in 1 .. p.exit - 1 : ~Touches(j)
      BY <1>2, <2>7 DEF OutOk
    <3>2. EndOf(p) = p.exit /\ p.exit # 0 /\ p.exit \in Index
      BY <1>1, <2>7, <3>1 DEF EndOf, Index
    <3>3. S(p.exit) = {}
      BY <1>1, <2>3, <3>1
    <3>4. u = [trade EXCEPT !.status = "cancelled", !.exit = p.exit]
      BY <2>4, <2>5, <3>2, <3>3 DEF UpdateArmed
    <3>5. /\ u.status = "cancelled" /\ u.exit = p.exit /\ u.reason = "none"
          /\ u.entry = 0 /\ u.price = 0 /\ u.placed = trade.placed /\ u \in Trade
      BY <1>1, <2>1, <2>3, <3>2, <3>4 DEF Trade
    <3>6. Follow(u, p)
      BY <2>7, <3>1, <3>5 DEF Follow, Seen, Mirror
    <3>7. TradeOk(u, p, L)
      BY <1>1, <2>3, <2>7, <3>5, <3>6 DEF TradeOk
    <3>. QED BY <3>5, <3>7 DEF L, p
  <2>8. CASE p.status \in EverEntered
    <3>1. /\ p.entry \in 1 .. L /\ Touches(p.entry)
          /\ \A j \in 1 .. p.entry - 1 : ~Touches(j)
          /\ p.price = Filled(chart[p.entry], NearEdge)
      BY <1>2, <2>8 DEF OutOk
    <3>2. EndOf(p) = 0
      BY <2>8 DEF EndOf, EverEntered
    <3>3. p.entry > seen
      BY <1>1, <2>2, <3>1
    <3>4. p.entry \in S(0)
      BY <1>1, <2>3, <3>1, <3>3
    <3>5. \A j \in S(0) : p.entry <= j
      BY <1>1, <2>3, <3>1
    <3>6. Entry(0) = p.entry /\ p.entry # 0 /\ p.entry \in Index
      <4>1. Entry(0) \in S(0) /\ \A j \in S(0) : Entry(0) <= j
        BY <2>5, <3>4
      <4>2. S(0) \in SUBSET Nat
        BY <1>1, <2>3
      <4> HIDE DEF S
      <4>3. Entry(0) <= p.entry /\ p.entry <= Entry(0)
        BY <3>4, <3>5, <4>1
      <4>. QED BY <1>1, <3>1, <3>4, <4>1, <4>2, <4>3 DEF Index
    <3> DEFINE t == EntryAt(p.entry)
    <3>7. u = Update(t, p)
      BY <2>4, <3>2, <3>6 DEF UpdateArmed
    <3>8. t = [trade EXCEPT !.status = "entered", !.entry = p.entry, !.price = p.price]
      BY <3>1 DEF EntryAt
    <3>9. p.price \in Prices
      BY <1>6 DEF Outcome
    <3> HIDE DEF t
    <3>10. /\ t \in Trade /\ t.status = "entered" /\ t.reason = "none" /\ t.exit = 0
           /\ t.placed = trade.placed /\ t.entry = p.entry /\ t.price = p.price
      BY <1>1, <2>1, <3>6, <3>8, <3>9 DEF Trade
    <3>11. t.placed \in 0 .. L
      BY <1>1, <2>3, <3>10
    <3>12. p.status = "expired" /\ p.exit < L => missed > 0
      BY <1>8, <2>1 DEF Final
    <3>13. TradeOk(Update(t, p), p, L) /\ Update(t, p) \in Trade
      BY <1>1, <1>2, <2>8, <3>10, <3>11, <3>12, UpdateOk DEF L
    <3>. QED BY <3>7, <3>13 DEF L, p
  <2>. QED BY <1>6, <2>6, <2>7, <2>8 DEF Outcome, Statuses, EverEntered
<1>11. CASE trade.status = "entered"
  <2>1. /\ o.status \in {"open", "win", "loss"} /\ trade.reason = "none" /\ trade.exit = 0
        /\ trade.placed \in 0 .. seen /\ trade.entry = o.entry /\ trade.price = o.price
    BY <1>3, <1>11 DEF TradeOk, Follow
  <2>2. p.status \in EverEntered /\ p.entry = o.entry /\ p.price = o.price
    BY <1>2, <1>6, <2>1 DEF Keeps, Final, Statuses, EverEntered
  <2>3. p.status = "expired" /\ p.exit < L => missed > 0
    <3>1. p.status = "expired" => o.status \notin Final
      BY <1>2, <2>1 DEF Keeps, Final, Statuses
    <3>. QED BY <1>8, <3>1
  <2>4. u = Update(trade, p)
    BY <1>5, <1>11 DEF Traded
  <2>5. trade.placed \in 0 .. L
    BY <1>1, <2>1
  <2>6. TradeOk(Update(trade, p), p, L) /\ Update(trade, p) \in Trade
    BY <1>1, <1>2, <1>11, <2>1, <2>2, <2>3, <2>5, UpdateOk DEF L
  <2>. QED BY <2>4, <2>6 DEF L, p
<1>12. CASE trade.status = "cancelled" \/ trade.status = "closed"
  <2>1. u = trade
    BY <1>5, <1>12 DEF Traded
  <2>2. trade.placed \in 0 .. seen /\ Follow(trade, o)
    BY <1>3, <1>12 DEF TradeOk
  <2>3. trade.placed \in 0 .. L
    BY <1>1, <2>2
  <2>4. CASE o.status \in Final
    <3>1. p = o
      BY <1>2, <2>4 DEF Keeps
    <3>2. TradeOk(trade, p, L)
      BY <1>3, <1>12, <2>2, <2>3, <3>1 DEF TradeOk
    <3>. QED BY <1>1, <2>1, <3>2 DEF L, p
  <2>5. CASE o.status \notin Final
    <3>1. trade.status = "closed" /\ o.status = "open"
      BY <1>3, <1>12, <2>5 DEF TradeOk, Final, Statuses, EverEntered
    <3>2. Gapped(trade)
      BY <2>2, <3>1 DEF Follow, Late, Seen, Mirror
    <3>3. p.status \in EverEntered /\ p.entry = o.entry /\ p.price = o.price
      BY <1>2, <3>1 DEF Keeps
    <3>4. Follow(trade, p)
      BY <2>2, <3>2, <3>3 DEF Follow
    <3>5. TradeOk(trade, p, L)
      BY <2>3, <3>1, <3>3, <3>4 DEF TradeOk
    <3>. QED BY <1>1, <2>1, <3>5 DEF L, p
  <2>. QED BY <2>4, <2>5
<1>. QED BY <1>7, <1>9, <1>10, <1>11, <1>12

\* The recursion of the outcomes, in a form that can be primed.
OutcomeSteps ==
  chart \in Seq(Bars) =>
    /\ Outcomes[0] = Fresh
    /\ \A n, o, k : n \in 0 .. Len(chart) - 1 /\ o = Outcomes[n] /\ k = chart[n + 1]
                      => Outcomes[n + 1] = Judged(o, n + 1, k)

\* They hold in every state, and so in the next one.
LEMMA OutcomeStepsHold == OutcomeSteps
BY OutcomesFact DEF OutcomeSteps

LEMMA OutcomeStepsHoldNext == OutcomeSteps'
BY OutcomeStepsHold, PTL

\* A candle is judged alike in both states of a step.
LEMMA JudgedSame ==
  ASSUME bull' = bull, NEW o, NEW i, NEW k
  PROVE  Judged(o, i, k)' = Judged(o, i, k)
BY DEF Judged, Waits, Holds, Passes, Reaches, Gains, Filled, Flip, NearEdge, StopOf, TargetOf

\* Candles that follow change no outcome of those before.
LEMMA OutcomesStay ==
  ASSUME chart \in Seq(Bars), chart' \in Seq(Bars), bull' = bull, Len(chart) <= Len(chart'),
         \A j \in 1 .. Len(chart) : chart'[j] = chart[j]
  PROVE  \A i \in 0 .. Len(chart) : Outcomes'[i] = Outcomes[i]
<1>0. Len(chart) \in Nat /\ Len(chart') \in Nat
  OBVIOUS
<1>1. /\ Outcomes[0] = Fresh
      /\ \A n \in 0 .. Len(chart) - 1 : Outcomes[n + 1] = Judged(Outcomes[n], n + 1, chart[n + 1])
  BY OutcomeStepsHold DEF OutcomeSteps
<1>2. /\ Outcomes'[0] = Fresh
      /\ \A n, o, k : n \in 0 .. Len(chart') - 1 /\ o = Outcomes'[n] /\ k = chart'[n + 1]
                        => Outcomes'[n + 1] = Judged(o, n + 1, k)'
  BY OutcomeStepsHoldNext DEF OutcomeSteps, Fresh
<1> DEFINE G == {i \in 0 .. Len(chart) : Outcomes'[i] = Outcomes[i]}
<1>3. 0 \in G
  BY <1>0, <1>1, <1>2
<1>4. ASSUME NEW n \in 0 .. Len(chart) - 1, n \in G PROVE n + 1 \in G
  <2>1. n \in 0 .. Len(chart') - 1 /\ n + 1 \in 1 .. Len(chart) /\ n + 1 \in 0 .. Len(chart)
    BY <1>0
  <2>2. chart'[n + 1] = chart[n + 1]
    BY <2>1
  <2>3. \A o, k : o = Outcomes'[n] /\ k = chart'[n + 1] => Outcomes'[n + 1] = Judged(o, n + 1, k)
    <3>1. \A o, i, k : Judged(o, i, k)' = Judged(o, i, k)
      BY JudgedSame
    <3>2. \A o, k : o = Outcomes'[n] /\ k = chart'[n + 1] => Outcomes'[n + 1] = Judged(o, n + 1, k)'
      BY <1>2, <2>1
    <3>. QED BY <3>1, <3>2
  <2>4. Outcomes'[n + 1] = Judged(Outcomes[n], n + 1, chart[n + 1])
    BY <1>4, <2>2, <2>3
  <2>. QED BY <1>1, <2>1, <2>4
<1> HIDE DEF G
<1>5. \A n \in 0 .. Len(chart) - 1 : n \in G => n + 1 \in G
  BY <1>4
<1>6. \A i \in 0 .. Len(chart) : i \in G
  BY <1>0, <1>3, <1>5, CountedUp
<1>. QED BY <1>6 DEF G

\* A candle of both charts closes a position in both or in neither.
LEMMA HitSame ==
  ASSUME bull' = bull, NEW e, NEW j, chart'[j] = chart[j]
  PROVE  PlanHit(e, j)' = PlanHit(e, j)
BY DEF PlanHit, Stops, Wins, Reaches, Gains, Flip, NearEdge, StopOf, TargetOf

\* What a trade is after s candles does not change with those that follow.
LEMMA TradeStays ==
  ASSUME bull' = bull, missed \in Nat, missed' \in Nat, missed' >= missed, NEW s \in Nat,
         \A j \in 1 .. s : chart'[j] = chart[j],
         NEW t, NEW o, TradeOk(t, o, s)
  PROVE  TradeOk(t, o, s)'
<1>1. NearEdge' = NearEdge
  BY DEF NearEdge, Flip
<1>2. Gapped(t)' = Gapped(t)
  BY <1>1 DEF Gapped
<1>3. Late(t, o) => Late(t, o)'
  BY DEF Late
<1>4. Follow(t, o) => Follow(t, o)'
  BY <1>2, <1>3 DEF Follow
<1>5. \A j \in 1 .. s : PlanHit(t.entry, j)' = PlanHit(t.entry, j)
  BY HitSame
<1>. QED BY <1>4, <1>5 DEF TradeOk, NoTrade, EverEntered

-----------------------------------------------------------------------------
\* It holds of a new setup.
LEMMA FollowInvInit == FollowInit => FollowInv
<1> SUFFICES ASSUME FollowInit PROVE FollowInv
  OBVIOUS
<1>1. chart = <<>> /\ Len(chart) = 0 /\ chart \in Seq(Bars)
  BY DEF FollowInit
<1>2. Outcomes[0] = Fresh
  BY <1>1, OutcomeStepsHold DEF OutcomeSteps
<1>3. FollowTypeOK
  <2>1. 0 \in Index /\ 0 \in Prices /\ 0 \in 0 .. MaxMissed /\ 0 <= MaxCandles
    BY FollowAssumption DEF Index, Prices
  <2>2. setup \in [status : Statuses, entry : Index, price : Prices, exit : Index]
    BY <2>1 DEF FollowInit, Fresh, Statuses
  <2>3. trade \in Trade
    BY <2>1 DEF FollowInit, NoTrade, Trade
  <2>. QED BY <1>1, <2>1, <2>2, <2>3 DEF FollowInit, FollowTypeOK, Trade
<1>4. TradeOk(trade, Outcomes[0], 0)
  BY DEF FollowInit, TradeOk, NoTrade
<1>5. \E m \in seen .. Len(chart) : setup = Outcomes[m]
  BY <1>1, <1>2 DEF FollowInit
<1>6. seen = 0
  BY DEF FollowInit
<1>. QED BY <1>1, <1>3, <1>4, <1>5, <1>6 DEF FollowInv

\* Outcomes are rows of the table.
LEMMA OutcomeTypes ==
  ASSUME FollowTypeOK, NEW i \in 0 .. Len(chart)
  PROVE  Outcomes[i] \in [status : Statuses, entry : Index, price : Prices, exit : Index]
<1>1. OutOk(Outcomes[i], i) /\ Outcomes[i] \in Outcome /\ i \in Nat /\ i <= MaxCandles /\ MaxCandles \in Nat
  BY OutcomesOk, FollowAssumption DEF FollowTypeOK, OutOk
<1>2. Outcomes[i].entry \in 0 .. i /\ Outcomes[i].exit \in 0 .. i
  BY <1>1 DEF OutOk, Outcome, Statuses, EverEntered, Fresh
<1>3. Outcomes[i].entry \in Index /\ Outcomes[i].exit \in Index
  BY <1>1, <1>2 DEF Index
<1>. QED BY <1>1, <1>3 DEF Outcome

\* A candle of a bearish chart is one, too.
LEMMA DrawnType ==
  ASSUME NEW k \in Shapes
  PROVE  Drawn(k) \in Bars
<1>1. k \in Bars
  BY FollowAssumption
<1>2. \A q \in Prices : Top - q \in Prices
  BY FollowAssumption DEF Prices
<1>. QED BY <1>1, <1>2 DEF Drawn, Bars

\* Runs, failures of the engine and hours keep it.
LEMMA FollowInvNext == FollowInv /\ [FollowNext]_followVars => FollowInv'
<1> SUFFICES ASSUME FollowInv, [FollowNext]_followVars PROVE FollowInv'
  OBVIOUS
<1> DEFINE L == Len(chart)
<1>1. /\ FollowTypeOK /\ chart \in Seq(Bars) /\ missed \in Nat
      /\ seen \in Nat /\ seen <= L /\ L \in Nat /\ L <= MaxCandles /\ MaxCandles \in Nat
  BY FollowAssumption DEF FollowInv, FollowTypeOK, Index
<1>2. L > seen + 1 => missed > 0
  BY DEF FollowInv
<1>3. TradeOk(trade, Outcomes[seen], seen)
  BY DEF FollowInv
<1>4. PICK m \in seen .. L : setup = Outcomes[m]
  BY DEF FollowInv
<1>5. m \in 0 .. L /\ seen \in 0 .. L /\ L \in 0 .. L /\ L \in Index
  BY <1>1 DEF Index
<1>6. ASSUME bull' = bull, chart' = chart PROVE \A i \in 0 .. L : Outcomes'[i] = Outcomes[i]
  BY <1>1, <1>6, OutcomesStay
<1>7. Stored = Outcomes[L]
  BY StoredFact
<1> HIDE DEF L
<1>8. CASE Run
  <2>1. /\ setup' = Outcomes[L] /\ trade' \in Traded(Outcomes[L]) /\ seen' = L
        /\ bull' = bull /\ chart' = chart /\ missed' = missed
    BY <1>7, <1>8 DEF Run, L
  <2>2. TradeOk(trade', Outcomes[L], L) /\ trade' \in Trade
    BY <2>1, TradedOk DEF L
  <2>3. Outcomes'[L] = Outcomes[L]
    BY <1>5, <1>6, <2>1
  <2>4. \A t, o, s : s = L /\ TradeOk(t, o, s) => TradeOk(t, o, s)'
    BY <1>1, <2>1, TradeStays
  <2>5. FollowTypeOK'
    <3>1. setup' \in [status : Statuses, entry : Index, price : Prices, exit : Index]
      BY <1>1, <1>5, <2>1, OutcomeTypes DEF L
    <3>. QED BY <1>1, <1>5, <2>1, <2>2, <3>1 DEF FollowTypeOK, Trade, Statuses, Index, Prices, Bars
  <2>6. \E n \in seen' .. Len(chart') : setup' = Outcomes'[n]
    BY <1>1, <2>1, <2>3 DEF L
  <2>7. \E t, o, s : t = trade' /\ s = seen' /\ o = Outcomes'[s] /\ TradeOk(t, o, s)'
    BY <2>1, <2>2, <2>3, <2>4
  <2>8. seen' <= Len(chart') /\ ~(Len(chart') > seen' + 1)
    BY <1>1, <2>1 DEF L
  <2>. QED BY <2>5, <2>6, <2>7, <2>8 DEF FollowInv
<1>9. CASE EngineFails \/ UNCHANGED followVars
  <2>1. /\ setup' = Outcomes[L] \/ setup' = setup
        /\ bull' = bull /\ chart' = chart /\ missed' = missed /\ trade' = trade /\ seen' = seen
    BY <1>7, <1>9 DEF EngineFails, followVars
  <2>2. \A i \in 0 .. L : Outcomes'[i] = Outcomes[i]
    BY <1>6, <2>1
  <2>3. \E n \in seen .. L : setup' = Outcomes[n]
    BY <1>1, <1>4, <2>1
  <2>4. PICK n \in seen .. L : setup' = Outcomes[n]
    BY <2>3
  <2>5. n \in 0 .. L
    BY <1>1
  <2>6. FollowTypeOK'
    <3>1. setup' \in [status : Statuses, entry : Index, price : Prices, exit : Index]
      BY <1>1, <2>4, <2>5, OutcomeTypes DEF L
    <3>. QED BY <1>1, <2>1, <3>1 DEF FollowTypeOK, Statuses, Index, Prices, Bars
  <2>7. \E t, o, s : t = trade' /\ s = seen' /\ o = Outcomes'[s] /\ TradeOk(t, o, s)'
    <3>1. \A t, o, s : s = seen /\ TradeOk(t, o, s) => TradeOk(t, o, s)'
      BY <1>1, <2>1, TradeStays
    <3>. QED BY <1>3, <1>5, <2>1, <2>2, <3>1
  <2>. QED BY <1>2, <1>1, <2>1, <2>2, <2>4, <2>5, <2>6, <2>7 DEF FollowInv, L
<1>10. ASSUME NEW k \in Shapes, Hour(k) PROVE FollowInv'
  <2>1. /\ L < MaxCandles /\ chart' = Append(chart, Drawn(k))
        /\ seen < L => missed < MaxMissed
        /\ missed' = (IF seen < L THEN missed + 1 ELSE missed)
        /\ bull' = bull /\ setup' = setup /\ trade' = trade /\ seen' = seen
    BY <1>10 DEF Hour, L
  <2>2. Drawn(k) \in Bars
    BY DrawnType
  <2>3. chart' \in Seq(Bars) /\ Len(chart') = L + 1 /\ \A j \in 1 .. L : chart'[j] = chart[j]
    BY <1>1, <2>1, <2>2 DEF L
  <2>4. \A i \in 0 .. L : Outcomes'[i] = Outcomes[i]
    BY <1>1, <2>1, <2>3, OutcomesStay DEF L
  <2>5. missed' \in Nat /\ missed' >= missed /\ missed' <= MaxMissed
    BY <1>1, <2>1, FollowAssumption DEF FollowTypeOK
  <2>6. FollowTypeOK'
    <3>1. /\ bull' \in BOOLEAN /\ chart' \in Seq(Bars) /\ Len(chart') <= MaxCandles
          /\ missed' \in 0 .. MaxMissed
      BY <1>1, <2>1, <2>3, <2>5, FollowAssumption DEF FollowTypeOK
    <3>2. /\ setup' \in [status : Statuses, entry : Index, price : Prices, exit : Index]
          /\ trade' \in Trade /\ seen' \in Index
      BY <1>1, <2>1 DEF FollowTypeOK, Trade
    <3>. QED BY <3>1, <3>2 DEF FollowTypeOK, Trade, Statuses, Index, Prices, Bars
  <2>7. \A j \in 1 .. seen : chart'[j] = chart[j]
    BY <1>1, <2>3
  <2>8. \A t, o, s : s = seen /\ TradeOk(t, o, s) => TradeOk(t, o, s)'
    BY <1>1, <2>1, <2>5, <2>7, TradeStays
  <2>9. Len(chart') > seen' + 1 => missed' > 0
    BY <1>1, <2>1, <2>3
  <2>10. m \in seen' .. Len(chart') /\ setup' = Outcomes'[m]
    BY <1>1, <1>4, <1>5, <2>1, <2>3, <2>4
  <2>. QED BY <1>1, <1>3, <1>5, <2>1, <2>3, <2>4, <2>6, <2>8, <2>9, <2>10 DEF FollowInv
<1>. QED BY <1>8, <1>9, <1>10 DEF FollowNext

\* So it holds always.
LEMMA FollowInvHolds == FollowSpec => []FollowInv
<1>1. FollowInit => FollowInv
  BY FollowInvInit
<1>2. FollowInv /\ [FollowNext]_followVars => FollowInv'
  BY FollowInvNext
<1>. QED BY <1>1, <1>2, PTL DEF FollowSpec

\* The chart, the row of the setup and the trade keep their types, however
\* often hours are missed and runs repeated.
THEOREM FollowTypes == FollowSpec => []FollowTypeOK
<1>1. FollowInv => FollowTypeOK
  BY DEF FollowInv
<1>. QED BY <1>1, FollowInvHolds, PTL

\* A paper trade has the fate of its setup, for any prices, targets, candles
\* and spans, bullish or bearish, with missed hours and failures of the engine:
\* it is filled by the same candle at the same price, and closed by the same
\* candle for the same reason but for gaps and for setups that expired in a
\* missed hour.
THEOREM FollowTheorem == FollowSpec => []TradeFollowsSetup
<1>1. FollowInv => TradeFollowsSetup
  <2> SUFFICES ASSUME FollowInv, seen = Len(chart), trade.status # "none" PROVE Follow(trade, setup)
    BY DEF TradeFollowsSetup
  <2>1. Len(chart) \in Nat /\ TradeOk(trade, Outcomes[seen], seen)
    BY DEF FollowInv, FollowTypeOK
  <2>2. PICK m \in seen .. Len(chart) : setup = Outcomes[m]
    BY DEF FollowInv
  <2>3. setup = Outcomes[seen]
    BY <2>1, <2>2
  <2>. QED BY <2>1, <2>3 DEF TradeOk
<1>. QED BY <1>1, FollowInvHolds, PTL

\* A second run on the same candles leaves the trade as it is: the first one
\* fills and closes all that its candles ask for.
THEOREM RunTwiceTheorem == FollowSpec => RunTwice
<1>1. FollowInv /\ Run /\ seen = Len(chart) /\ trade.status # "none" => trade' = trade
  <2> SUFFICES ASSUME FollowInv, Run, seen = Len(chart), trade.status # "none" PROVE trade' = trade
    OBVIOUS
  <2> DEFINE L == Len(chart)
             p == Outcomes[L]
  <2>1. FollowTypeOK /\ trade \in Trade /\ L \in Nat /\ L \in 0 .. L
    BY DEF FollowInv, FollowTypeOK, Trade
  <2>2. TradeOk(trade, p, L)
    BY DEF FollowInv
  <2>3. OutOk(p, L)
    BY <2>1, OutcomesOk
  <2>4. trade' \in Traded(p)
    BY StoredFact DEF Run
  <2> HIDE DEF L, p
  <2>5. CASE trade.status = "armed"
    <3>1. p.status = "waiting" /\ \A j \in 1 .. L : ~Touches(j)
      BY <2>2, <2>3, <2>5 DEF TradeOk, OutOk
    <3>2. EndOf(p) = 0
      BY <3>1 DEF EndOf
    <3>3. trade.placed \in Nat
      BY <2>1, <2>2, <2>5 DEF TradeOk
    <3>4. {i \in trade.placed + 1 .. L : Touches(i)} = {}
      BY <2>1, <3>1, <3>3
    <3>5. Entry(0) = 0
      BY <3>4 DEF Entry, Touches, L, First
    <3>. QED BY <2>4, <2>5, <3>2, <3>5 DEF Traded, UpdateArmed
  <2>6. CASE trade.status = "entered"
    <3>1. /\ p.status # "expired" /\ p.status \in EverEntered /\ trade.entry = p.entry
          /\ \A j \in 1 .. L : j >= trade.entry => ~PlanHit(trade.entry, j)
      BY <2>2, <2>6 DEF TradeOk, Follow, EverEntered
    <3>2. trade.entry \in 1 .. L
      BY <2>3, <3>1 DEF OutOk
    <3>3. Exits(trade.entry) = {i \in trade.entry .. L : PlanHit(trade.entry, i)}
      BY <2>1, <3>2 DEF Exits, PlanHit, Stops, Wins, TargetCounts, L
    <3>4. Exits(trade.entry) = {}
      BY <2>1, <3>1, <3>2, <3>3
    <3>. QED BY <2>4, <2>6, <3>1, <3>4 DEF Traded, Update, First
  <2>. QED BY <2>1, <2>4, <2>5, <2>6 DEF Trade, Traded
<1>2. FollowInv => [Run /\ seen = Len(chart) /\ trade.status # "none" => trade' = trade]_followVars
  BY <1>1
<1>. QED BY <1>2, FollowInvHolds, PTL DEF RunTwice

-----------------------------------------------------------------------------
\* The statuses SetupTracking sees the candles through.
Lifecycle == INSTANCE SetupStatuses

\* A candle moves the outcome of the chart along the arrows of the lifecycle.
CandlesMove ==
  [][simulate' = simulate \/ simulate'.status \in Lifecycle!Moves[simulate.status]]_followVars

\* The row of a setup goes on, by any number of candles.
RowsMoveOn ==
  [][setup' = setup \/ setup'.status \in Lifecycle!Later[setup.status]]_followVars

\* One candle moves an outcome along the arrows.
LEMMA JudgedMoves ==
  ASSUME NEW o \in Outcome, o.status = "waiting" => o = Fresh, NEW i, NEW k,
         NEW p, p = Judged(o, i, k)
  PROVE  p = o \/ p.status \in Lifecycle!Moves[o.status]
<1>1. CASE o.status = "waiting"
  <2>1. p = Waits(Fresh, i, k)
    BY <1>1 DEF Judged
  <2>2. p = o \/ p.status \in {"open", "loss", "no_entry", "invalidated"}
    BY <1>1, <2>1, WaitsCases
  <2>. QED BY <1>1, <2>2 DEF Lifecycle!Moves, Lifecycle!Statuses, Lifecycle!Unresolved, Lifecycle!Final
<1>2. CASE o.status = "open"
  <2>1. p = Holds(o, i, k)
    BY <1>2 DEF Judged
  <2>2. p = o \/ p.status \in {"win", "loss", "expired"}
    BY <1>2, <2>1, HoldsCases
  <2>. QED BY <1>2, <2>2 DEF Lifecycle!Moves, Lifecycle!Statuses, Lifecycle!Unresolved, Lifecycle!Final
<1>3. CASE o.status \notin {"waiting", "open"}
  BY <1>3 DEF Judged
<1>. QED BY <1>1, <1>2, <1>3

\* What SetupTracking takes for granted of simulate: with every candle the
\* status of a setup stays or moves along an arrow, whatever the candle.
THEOREM CandleTheorem == FollowSpec => CandlesMove
<1>1. FollowInv /\ [FollowNext]_followVars =>
        simulate' = simulate \/ simulate'.status \in Lifecycle!Moves[simulate.status]
  <2> SUFFICES ASSUME FollowInv, [FollowNext]_followVars
               PROVE  simulate' = simulate \/ simulate'.status \in Lifecycle!Moves[simulate.status]
    OBVIOUS
  <2> DEFINE L == Len(chart)
  <2>1. /\ FollowTypeOK /\ FollowTypeOK'
        /\ chart \in Seq(Bars) /\ chart' \in Seq(Bars) /\ L \in Nat /\ L \in 0 .. L
    BY FollowInvNext DEF FollowInv, FollowTypeOK
  <2>2. OutOk(Outcomes[L], L)
    BY <2>1, OutcomesOk
  <2>3. CASE bull' = bull /\ chart' = chart
    <3>1. Outcomes'[L] = Outcomes[L]
      BY <2>1, <2>3, OutcomesStay
    <3>. QED BY <2>3, <3>1 DEF simulate
  <2>4. ASSUME NEW k \in Shapes, Hour(k)
        PROVE  simulate' = simulate \/ simulate'.status \in Lifecycle!Moves[simulate.status]
    <3>1. bull' = bull /\ chart' = Append(chart, Drawn(k))
      BY <2>4 DEF Hour
    <3>2. Drawn(k) \in Bars /\ Len(chart') = L + 1 /\ \A j \in 1 .. L : chart'[j] = chart[j]
      BY <2>1, <2>4, DrawnType, <3>1
    <3>3. Outcomes'[L] = Outcomes[L]
      BY <2>1, <3>1, <3>2, OutcomesStay
    <3>4. \A o, q : o = Outcomes'[L] /\ q = chart'[L + 1] => Outcomes'[L + 1] = Judged(o, L + 1, q)
      <4>1. \A n, o, q : n \in 0 .. Len(chart') - 1 /\ o = Outcomes'[n] /\ q = chart'[n + 1]
                          => Outcomes'[n + 1] = Judged(o, n + 1, q)'
        BY <2>1, OutcomeStepsHoldNext DEF OutcomeSteps
      <4>2. \A o, i, q : Judged(o, i, q)' = Judged(o, i, q)
        BY <3>1, JudgedSame
      <4>3. \A n, o, q : n \in 0 .. Len(chart') - 1 /\ o = Outcomes'[n] /\ q = chart'[n + 1]
                          => Outcomes'[n + 1] = Judged(o, n + 1, q)
        BY <4>1, <4>2
      <4>4. L \in 0 .. Len(chart') - 1
        BY <2>1, <3>2
      <4> HIDE DEF L
      <4>. QED BY <4>3, <4>4
    <3>5. Outcomes'[L + 1] = Judged(Outcomes[L], L + 1, chart'[L + 1])
      BY <3>3, <3>4
    <3>6. Outcomes'[L + 1] = Outcomes[L] \/ Outcomes'[L + 1].status \in Lifecycle!Moves[Outcomes[L].status]
      BY <2>2, <3>5, JudgedMoves DEF OutOk
    <3>. QED BY <3>2, <3>6 DEF simulate
  <2>. QED BY <2>3, <2>4 DEF FollowNext, Run, EngineFails, followVars
<1>2. FollowInv /\ [FollowNext]_followVars =>
        [simulate' = simulate \/ simulate'.status \in Lifecycle!Moves[simulate.status]]_followVars
  BY <1>1
<1>. QED BY <1>2, FollowInvHolds, PTL DEF FollowSpec, CandlesMove

\* The row of a setup only goes forward in the lifecycle, and what is final is
\* never written again, however many hours and runs of the engine are missed.
THEOREM RowTheorem == FollowSpec => RowsMoveOn
<1>1. FollowInv /\ [FollowNext]_followVars =>
        [setup' = setup \/ setup'.status \in Lifecycle!Later[setup.status]]_followVars
  <2> SUFFICES ASSUME FollowInv, FollowNext
               PROVE  setup' = setup \/ setup'.status \in Lifecycle!Later[setup.status]
    BY DEF followVars
  <2>1. FollowTypeOK /\ Len(chart) \in Nat /\ seen \in Nat
    BY FollowAssumption DEF FollowInv, FollowTypeOK, Index
  <2>2. setup' = setup \/ setup' = Outcomes[Len(chart)]
    BY StoredFact DEF FollowNext, Run, EngineFails, Hour
  <2>3. PICK m \in seen .. Len(chart) : setup = Outcomes[m]
    BY DEF FollowInv
  <2> DEFINE p == Outcomes[Len(chart)]
  <2>4. OutOk(setup, m) /\ OutOk(p, Len(chart)) /\ Keeps(setup, p, m)
    <3>1. m \in 0 .. Len(chart) /\ Len(chart) \in m .. Len(chart) /\ Len(chart) \in 0 .. Len(chart)
      BY <2>1
    <3>. QED BY <2>1, <2>3, <3>1, OutcomesOk
  <2> HIDE DEF p
  <2>5. p = setup \/ p.status \in Lifecycle!Later[setup.status]
    <3>1. setup.status \in Statuses /\ p.status \in Statuses
      BY <2>4 DEF OutOk, Outcome
    <3>2. CASE setup.status = "waiting"
      <4>1. setup = Fresh /\ (p.status = "waiting" => p = Fresh)
        BY <2>4, <3>2 DEF OutOk
      <4>2. p = setup \/ p.status \in {"open", "win", "loss", "expired", "no_entry", "invalidated"}
        BY <3>1, <4>1 DEF Statuses
      <4>. QED BY <3>2, <4>2 DEF Lifecycle!Later, Lifecycle!Statuses, Lifecycle!Unresolved, Lifecycle!Final
    <3>3. CASE setup.status = "open"
      <4>1. p.status \in EverEntered /\ p.entry = setup.entry /\ p.price = setup.price
        BY <2>4, <3>3 DEF Keeps
      <4>2. p.status = "open" => p = setup
        BY <2>4, <3>3, <4>1 DEF OutOk, Outcome
      <4>. QED BY <3>3, <4>1, <4>2 DEF EverEntered, Lifecycle!Later, Lifecycle!Statuses, Lifecycle!Unresolved, Lifecycle!Final
    <3>4. CASE setup.status \in Final
      BY <2>4, <3>4 DEF Keeps
    <3>. QED BY <3>1, <3>2, <3>3, <3>4 DEF Final
  <2>. QED BY <2>2, <2>5 DEF p
<1>. QED BY <1>1, FollowInvHolds, PTL DEF FollowSpec, RowsMoveOn
=============================================================================
