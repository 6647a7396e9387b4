---------------------------- MODULE PaperAccount ----------------------------
(***************************************************************************)
(* One paper account that the tracking tasks of several pairs (asset and   *)
(* interval) trade on at once: src/trading/engine.py without an exchange.  *)
(* Fills come from the candles a task has loaded, so all there is to the   *)
(* account are rows of the trading tables, written one autocommitted       *)
(* statement at a time.  The tasks share the limits on open signals, the   *)
(* cash and the kill switch; a signal belongs to one pair.                 *)
(*                                                                         *)
(* A step is one statement that changes a row, with the reads before it,   *)
(* except where the value read is kept: the account of a run, the account  *)
(* read in _finish_close and the signals counted by _risk_rejection.       *)
(***************************************************************************)
EXTENDS Integers, FiniteSets, FiniteSetsExt

CONSTANTS
  Pairs,        \* tracking tasks, one per pair
  Signals,      \* trading_signals rows the account may create
  Pair,         \* Pair[s]: the pair signal s belongs to
  Asset,        \* Asset[p]: the asset of pair p
  MaxOpen,      \* risk.max_open_positions
  MaxPerAsset,  \* risk.max_positions_per_asset
  StopPct,      \* risk.max_drawdown_stop_pct
  Equity,       \* starting_equity
  Pnl,          \* result of a position by the reason of its exit, fees included
  Modes,        \* entry modes to consider
  Overlaps,     \* whether tasks of several pairs run at once, the cases to consider
  MaxCrashes    \* bound on the number of crashes

Reasons == {"sl", "tp", "timeout"}

ASSUME ConstantsAssumption ==
  /\ IsFiniteSet(Pairs) /\ IsFiniteSet(Signals) /\ Signals # {}
  /\ Pair \in [Signals -> Pairs]
  /\ DOMAIN Asset = Pairs
  /\ MaxOpen \in Nat \ {0} /\ MaxPerAsset \in Nat \ {0}
  /\ StopPct \in Nat /\ Equity \in Nat
  /\ Pnl \in [Reasons -> Int]
  /\ Modes \subseteq {"touch", "confirm"}
  /\ Overlaps \subseteq BOOLEAN
  /\ MaxCrashes \in Nat

VARIABLES
  mode,      \* trading_accounts.entry_mode
  overlap,   \* the workers run tasks of several pairs at once
  market,    \* what the closed candles say of the signal's setup and its levels
  sig,       \* trading_signals.status, "none" before the row exists
  row,       \* trading_orders.status by signal and purpose
  held,      \* open trading_positions of the signal
  closed,    \* closed ones
  realized,  \* sum of their pnl
  cash, peak, kill,   \* trading_accounts.cash, peak_equity, kill_switch
  run,       \* progress and local variables of each pair's task
  crashes    \* crashes so far

account == <<cash, peak, kill>>
positions == <<held, closed, realized>>
tables == <<sig, row, held, closed, realized, cash, peak, kill>>
env == <<mode, overlap, market, crashes>>
vars == <<mode, overlap, market, sig, row, held, closed, realized, cash, peak, kill, run, crashes>>

-----------------------------------------------------------------------------
Purposes == {"entry", "stop_loss", "take_profit", "close"}
Orders   == Signals \X Purposes

SignalStatus == {"none", "rejected", "armed", "entered", "closed", "cancelled"}
RowStatus    == {"none", "open", "filled", "cancelled"}

(* The candles up to the last one a task of the pair has loaded: PRZ not   *)
(* touched; setup invalidated or never touched; touched; SL or TP hit;     *)
(* timeout of the setup with neither hit.                                  *)
MarketStates == {"waiting", "dead", "touched", "sl", "tp", "expired"}

PcLabels ==
  {"idle", "loop", "reread", "cancel_signal", "open_position", "fill_entry", "sl_row",
   "tp_row", "mark_entered", "entered", "exits", "close_row", "fill_close", "finish",
   "finish_signal", "read_account", "write_account", "kill", "new", "arm", "entry_row"}

(* Local variables of a run: the signal at hand, the open signals left,    *)
(* the rows to settle, where the run goes on after the signal, the         *)
(* account's kill switch, and the account as read by _finish_close.        *)
RunType ==
  [pc : PcLabels, cur : Signals, todo : SUBSET Signals, list : SUBSET Orders,
   back : {"loop", "new"}, kill : BOOLEAN, cash : Int, peak : Int, killed : BOOLEAN]

IdleRun ==
  [pc |-> "idle", cur |-> CHOOSE s \in Signals : TRUE, todo |-> {}, list |-> {},
   back |-> "loop", kill |-> FALSE, cash |-> 0, peak |-> 0, killed |-> FALSE]

TypeOK ==
  /\ mode \in Modes
  /\ overlap \in Overlaps
  /\ market \in [Signals -> MarketStates]
  /\ sig \in [Signals -> SignalStatus]
  /\ row \in [Orders -> RowStatus]
  /\ held \in [Signals -> Nat] /\ closed \in [Signals -> Nat]
  /\ realized \in [Signals -> Int]
  /\ cash \in Int /\ peak \in Int /\ kill \in BOOLEAN
  /\ run \in [Pairs -> RunType]
  /\ crashes \in 0..MaxCrashes

Init ==
  /\ mode \in Modes
  /\ overlap \in Overlaps
  /\ market = [s \in Signals |-> "waiting"]
  /\ sig = [s \in Signals |-> "none"]
  /\ row = [o \in Orders |-> "none"]
  /\ held = [s \in Signals |-> 0] /\ closed = [s \in Signals |-> 0]
  /\ realized = [s \in Signals |-> 0]
  /\ cash = Equity /\ peak = Equity /\ kill = FALSE
  /\ run = [p \in Pairs |-> IdleRun]
  /\ crashes = 0

-----------------------------------------------------------------------------
At(p, label)   == run[p].pc = label
Goto(p, label) == run' = [run EXCEPT ![p].pc = label]
Cur(p)         == run[p].cur

\* _risk_rejection and open_signals count these.
OpenSignals == {s \in Signals : sig[s] \in {"armed", "entered"}}

(* match_exit over the candles, then the expired setup: SL and TP go       *)
(* first, whenever they were hit.                                          *)
ExitReason(s) ==
  CASE market[s] = "sl" -> "sl"
    [] market[s] = "tp" -> "tp"
    [] market[s] = "expired" -> "timeout"
    [] OTHER -> "none"

OpenRows(s) == {o \in Orders : o[1] = s /\ row[o] = "open"}

-----------------------------------------------------------------------------
(* The run of one pair: its open signals first.                            *)

\* list_accounts, then open_signals of the pair
StartRun(p) ==
  /\ At(p, "idle")
  /\ overlap \/ \A q \in Pairs : At(q, "idle")
  /\ run' = [run EXCEPT ![p] = [IdleRun EXCEPT
               !.pc = "loop", !.kill = kill, !.todo = {s \in OpenSignals : Pair[s] = p}]]
  /\ UNCHANGED <<env, tables>>

\* The account is read again after every signal.
Reread(p) ==
  /\ At(p, "reread")
  /\ run' = [run EXCEPT ![p] = [IdleRun EXCEPT !.pc = "loop", !.kill = kill, !.todo = run[p].todo]]
  /\ UNCHANGED <<env, tables>>

\* takes the next open signal with this status and goes to a label
Take(p, s, status, label) ==
  /\ At(p, "loop")
  /\ s \in run[p].todo
  /\ sig[s] = status
  /\ run' = [run EXCEPT ![p].pc = label, ![p].cur = s, ![p].todo = @ \ {s}]

HasEntry(s) == row[<<s, "entry">>] = "open"

(* _update_armed returns early: no open entry row, or no candle touched    *)
(* it.  A market entry has no candle after it when the run repeats one     *)
(* that was interrupted.                                                   *)
ArmedWaits(p) ==
  /\ \E s \in Signals :
       /\ ~HasEntry(s) \/ mode = "confirm" \/ market[s] = "waiting"
       /\ Take(p, s, "armed", "reread")
  /\ UNCHANGED <<env, tables>>

(* A market entry has no price: match_limit_entry compares with None, and  *)
(* the exception ends the account's run on this pair.                      *)
ArmedRaises(p) ==
  /\ At(p, "loop")
  /\ \E s \in run[p].todo : sig[s] = "armed" /\ HasEntry(s) /\ mode = "confirm"
  /\ run' = [run EXCEPT ![p] = IdleRun]
  /\ UNCHANGED <<env, tables>>

ArmedDies(p) ==
  \E s \in Signals :
    /\ HasEntry(s) /\ mode = "touch" /\ market[s] = "dead"
    /\ Take(p, s, "armed", "cancel_signal")
    /\ row' = [row EXCEPT ![<<s, "entry">>] = "cancelled"]
    /\ UNCHANGED <<env, sig, positions, account>>

CancelSignal(p) ==
  /\ At(p, "cancel_signal")
  /\ sig' = [sig EXCEPT ![Cur(p)] = "cancelled"]
  /\ Goto(p, "reread")
  /\ UNCHANGED <<env, row, positions, account>>

ArmedFills(p) ==
  /\ \E s \in Signals :
       /\ HasEntry(s) /\ mode = "touch" /\ market[s] \notin {"waiting", "dead"}
       /\ Take(p, s, "armed", "open_position")
  /\ UNCHANGED <<env, tables>>

UpdateEntered(p) ==
  /\ \E s \in Signals : Take(p, s, "entered", "entered")
  /\ UNCHANGED <<env, tables>>

-----------------------------------------------------------------------------
(* _paper_fill                                                             *)

(* open_position inserts unconditionally: positions are not unique per     *)
(* signal.                                                                 *)
OpenPosition(p) ==
  /\ At(p, "open_position")
  /\ held' = [held EXCEPT ![Cur(p)] = @ + 1]
  /\ Goto(p, "fill_entry")
  /\ UNCHANGED <<env, sig, row, closed, realized, account>>

\* Variant: the entry row stays open.
FillEntry_Forgotten(p) ==
  /\ At(p, "fill_entry")
  /\ Goto(p, "sl_row")
  /\ UNCHANGED <<env, tables>>

FillEntry(p) ==
  /\ At(p, "fill_entry")
  /\ row' = [row EXCEPT ![<<Cur(p), "entry">>] = "filled"]
  /\ Goto(p, "sl_row")
  /\ UNCHANGED <<env, sig, positions, account>>

\* INSERT .. ON CONFLICT (client_order_id) DO NOTHING
InsertRow(o) == row' = [row EXCEPT ![o] = IF @ = "none" THEN "open" ELSE @]

CreateStopRow(p) ==
  /\ At(p, "sl_row")
  /\ InsertRow(<<Cur(p), "stop_loss">>)
  /\ Goto(p, "tp_row")
  /\ UNCHANGED <<env, sig, positions, account>>

CreateTakeProfitRow(p) ==
  /\ At(p, "tp_row")
  /\ InsertRow(<<Cur(p), "take_profit">>)
  /\ Goto(p, "mark_entered")
  /\ UNCHANGED <<env, sig, positions, account>>

(* After a limit entry _update_entered follows at once; after a market     *)
(* entry the run goes on with the next candidate.                          *)
MarkEntered(p) ==
  /\ At(p, "mark_entered")
  /\ sig' = [sig EXCEPT ![Cur(p)] = "entered"]
  /\ Goto(p, IF run[p].back = "new" THEN "new" ELSE "entered")
  /\ UNCHANGED <<env, row, positions, account>>

-----------------------------------------------------------------------------
(* _update_entered                                                         *)

\* position_for_signal has no order: any position of the signal
PositionDone(p) ==
  /\ At(p, "entered")
  /\ held[Cur(p)] = 0 \/ closed[Cur(p)] > 0
  /\ Goto(p, "reread")
  /\ UNCHANGED <<env, tables>>

PositionStays(p) ==
  /\ At(p, "entered")
  /\ held[Cur(p)] > 0
  /\ ExitReason(Cur(p)) = "none"
  /\ Goto(p, "reread")
  /\ UNCHANGED <<env, tables>>

PositionExits(p) ==
  /\ At(p, "entered")
  /\ held[Cur(p)] > 0
  /\ ExitReason(Cur(p)) # "none"
  /\ run' = [run EXCEPT ![p].pc = "exits", ![p].list = OpenRows(Cur(p))]
  /\ UNCHANGED <<env, tables>>

\* Variant: the row that was not hit stays open.
SettledStatus_KeepsOther(s, purpose) ==
  IF \/ ExitReason(s) = "sl" /\ purpose = "stop_loss"
     \/ ExitReason(s) = "tp" /\ purpose = "take_profit"
  THEN "filled" ELSE "open"

\* the row that was hit is filled, the others are cancelled
SettledStatus(s, purpose) ==
  IF \/ ExitReason(s) = "sl" /\ purpose = "stop_loss"
     \/ ExitReason(s) = "tp" /\ purpose = "take_profit"
  THEN "filled" ELSE "cancelled"

SettleRow(p) ==
  /\ At(p, "exits")
  /\ \E o \in run[p].list :
       /\ row' = [row EXCEPT ![o] = SettledStatus(o[1], o[2])]
       /\ run' = [run EXCEPT ![p].list = @ \ {o}]
  /\ UNCHANGED <<env, sig, positions, account>>

RowsSettled(p) ==
  /\ At(p, "exits")
  /\ run[p].list = {}
  /\ Goto(p, IF ExitReason(Cur(p)) = "timeout" THEN "close_row" ELSE "finish")
  /\ UNCHANGED <<env, tables>>

\* create_order returns nothing for a row that exists: it is not filled.
CreateCloseRow(p) ==
  /\ At(p, "close_row")
  /\ InsertRow(<<Cur(p), "close">>)
  /\ Goto(p, IF row[<<Cur(p), "close">>] = "none" THEN "fill_close" ELSE "finish")
  /\ UNCHANGED <<env, sig, positions, account>>

FillCloseRow(p) ==
  /\ At(p, "fill_close")
  /\ row' = [row EXCEPT ![<<Cur(p), "close">>] = "filled"]
  /\ Goto(p, "finish")
  /\ UNCHANGED <<env, sig, positions, account>>

-----------------------------------------------------------------------------
(* _finish_close                                                           *)

Result(p) == Pnl[ExitReason(Cur(p))]

ClosePosition(p) ==
  LET s == Cur(p)
  IN  /\ At(p, "finish")
      /\ held' = [held EXCEPT ![s] = @ - 1]
      /\ closed' = [closed EXCEPT ![s] = @ + 1]
      /\ realized' = [realized EXCEPT ![s] = @ + Result(p)]
      /\ Goto(p, "finish_signal")
      /\ UNCHANGED <<env, sig, row, account>>

\* Variant: the signal keeps its status.
CloseSignal_Skipped(p) ==
  /\ At(p, "finish_signal")
  /\ Goto(p, "read_account")
  /\ UNCHANGED <<env, tables>>

CloseSignal(p) ==
  /\ At(p, "finish_signal")
  /\ sig' = [sig EXCEPT ![Cur(p)] = "closed"]
  /\ Goto(p, "read_account")
  /\ UNCHANGED <<env, row, positions, account>>

ReadAccount(p) ==
  /\ At(p, "read_account")
  /\ run' = [run EXCEPT ![p].pc = "write_account", ![p].cash = cash, ![p].peak = peak,
                        ![p].killed = kill]
  /\ UNCHANGED <<env, tables>>

Larger(a, b) == IF a > b THEN a ELSE b

DrawdownReached(high, now) == high > 0 /\ (high - now) * 100 >= high * StopPct

NeedsKill(high, now, killed) == DrawdownReached(high, now) /\ ~killed

\* Variant: the result is added to the starting equity.
WriteAccount_FromStart(p) ==
  LET now  == Equity + Result(p)
      high == Larger(run[p].peak, now)
  IN  /\ At(p, "write_account")
      /\ cash' = now
      /\ peak' = high
      /\ Goto(p, IF NeedsKill(high, now, run[p].killed) THEN "kill" ELSE "reread")
      /\ UNCHANGED <<env, sig, row, positions, kill>>

WriteAccount(p) ==
  LET now  == run[p].cash + Result(p)
      high == Larger(run[p].peak, now)
  IN  /\ At(p, "write_account")
      /\ cash' = now
      /\ peak' = high
      /\ Goto(p, IF NeedsKill(high, now, run[p].killed) THEN "kill" ELSE "reread")
      /\ UNCHANGED <<env, sig, row, positions, kill>>

TurnKillSwitchOn(p) ==
  /\ At(p, "kill")
  /\ kill' = TRUE
  /\ Goto(p, "reread")
  /\ UNCHANGED <<env, sig, row, positions, cash, peak>>

-----------------------------------------------------------------------------
(* _new_signals and _open_signal                                           *)

\* Variant: the kill switch is not looked at.
NewSignals_Regardless(p) ==
  /\ At(p, "loop")
  /\ run[p].todo = {}
  /\ Goto(p, "new")
  /\ UNCHANGED <<env, tables>>

NewSignals(p) ==
  /\ At(p, "loop")
  /\ run[p].todo = {}
  /\ Goto(p, IF run[p].kill THEN "idle" ELSE "new")
  /\ UNCHANGED <<env, tables>>

\* waiting setups, or touched ones with a confirmation, without a signal
Candidates(p) ==
  {s \in Signals : /\ Pair[s] = p
                   /\ sig[s] = "none"
                   /\ market[s] = (IF mode = "touch" THEN "waiting" ELSE "touched")}

\* Variant: entered signals are not counted.
LimitsAllow_ArmedOnly(p) ==
  /\ Cardinality({s \in Signals : sig[s] = "armed"}) < MaxOpen
  /\ Cardinality({s \in OpenSignals : Asset[Pair[s]] = Asset[p]}) < MaxPerAsset

LimitsAllow(p) ==
  /\ Cardinality(OpenSignals) < MaxOpen
  /\ Cardinality({s \in OpenSignals : Asset[Pair[s]] = Asset[p]}) < MaxPerAsset

AcceptCandidate(p) ==
  /\ At(p, "new")
  /\ LimitsAllow(p)
  /\ \E s \in Candidates(p) :
       run' = [run EXCEPT ![p].pc = "arm", ![p].cur = s, ![p].back = "new"]
  /\ UNCHANGED <<env, tables>>

(* Any reason: the limits, the daily loss, a size of zero.                 *)
RejectCandidate(p) ==
  /\ At(p, "new")
  /\ \E s \in Candidates(p) : sig' = [sig EXCEPT ![s] = "rejected"]
  /\ UNCHANGED <<env, row, positions, account, run>>

Arm(p) ==
  /\ At(p, "arm")
  /\ sig' = [sig EXCEPT ![Cur(p)] = "armed"]
  /\ Goto(p, "entry_row")
  /\ UNCHANGED <<env, row, positions, account>>

\* A market entry is filled at once.
CreateEntryRow(p) ==
  /\ At(p, "entry_row")
  /\ InsertRow(<<Cur(p), "entry">>)
  /\ Goto(p, IF mode = "confirm" THEN "open_position" ELSE "new")
  /\ UNCHANGED <<env, sig, positions, account>>

EndRun(p) ==
  /\ At(p, "new")
  /\ run' = [run EXCEPT ![p] = IdleRun]
  /\ UNCHANGED <<env, tables>>

-----------------------------------------------------------------------------
(* A lost worker, or a statement that raises.                              *)
Crash(p) ==
  /\ ~At(p, "idle")
  /\ crashes < MaxCrashes
  /\ crashes' = crashes + 1
  /\ run' = [run EXCEPT ![p] = IdleRun]
  /\ UNCHANGED <<mode, overlap, market, tables>>

(* New candles close between the runs of a pair: a run works with those it *)
(* has loaded, and with the statuses its own tracking has stored.          *)
Follows ==
  [waiting |-> {"dead", "touched"}, touched |-> {"sl", "tp", "expired"},
   expired |-> {"sl", "tp"}, dead |-> {}, sl |-> {}, tp |-> {}]

Candle(s) ==
  /\ At(Pair[s], "idle")
  /\ \E m \in Follows[market[s]] : market' = [market EXCEPT ![s] = m]
  /\ UNCHANGED <<mode, overlap, tables, run, crashes>>

-----------------------------------------------------------------------------
Armed(p)   == ArmedWaits(p) \/ ArmedRaises(p) \/ ArmedDies(p) \/ CancelSignal(p) \/ ArmedFills(p)
Fill(p)    == \/ OpenPosition(p) \/ FillEntry(p) \/ CreateStopRow(p) \/ CreateTakeProfitRow(p)
              \/ MarkEntered(p)
Entered(p) == \/ UpdateEntered(p) \/ PositionDone(p) \/ PositionStays(p) \/ PositionExits(p)
              \/ SettleRow(p) \/ RowsSettled(p) \/ CreateCloseRow(p) \/ FillCloseRow(p)
Finish(p)  == \/ ClosePosition(p) \/ CloseSignal(p) \/ ReadAccount(p) \/ WriteAccount(p)
              \/ TurnKillSwitchOn(p)
Open(p)    == \/ NewSignals(p) \/ AcceptCandidate(p) \/ RejectCandidate(p) \/ Arm(p)
              \/ CreateEntryRow(p) \/ EndRun(p)

\* What a run does once it has started.
Work(p) == Reread(p) \/ Armed(p) \/ Fill(p) \/ Entered(p) \/ Finish(p) \/ Open(p)

Next ==
  \/ \E p \in Pairs : StartRun(p) \/ Work(p) \/ Crash(p)
  \/ \E s \in Signals : Candle(s)

Spec == Init /\ [][Next]_vars

-----------------------------------------------------------------------------
AllIdle == \A p \in Pairs : At(p, "idle")

(* risk.max_open_positions: tasks that count before either creates its     *)
(* signal exceed it, but by no more than one signal per further task; one  *)
(* task at a time never does (_risk_rejection, _open_signal).              *)
LimitRespected ==
  Cardinality(OpenSignals) <= MaxOpen + (IF overlap THEN Cardinality(Pairs) - 1 ELSE 0)

(* risk.py: "max open positions, waiting entry orders included".           *)
LimitHolds == Cardinality(OpenSignals) <= MaxOpen

(* Between uninterrupted runs, one at a time, the cash is the starting     *)
(* equity and the results of all closed positions (_finish_close).         *)
CashAddsUp ==
  ~overlap /\ crashes = 0 /\ AllIdle
    => cash = Equity + MapThenSumSet(LAMBDA s : realized[s], Signals)

(* While the kill switch is on, no task arms a signal, as long as the      *)
(* tasks run one at a time (_process_account reads the account again).     *)
NoTradeUnderKill ==
  [][~overlap /\ kill => \A s \in Signals : sig'[s] = "armed" => sig[s] = "armed"]_vars

(* A run that comes to its end, by itself or because of the kill switch,   *)
(* leaves no position of its pair that has hit its SL or TP or timed out,  *)
(* and no entry order of a dead setup waiting, unless some run was         *)
(* interrupted before (_process_account, _update_armed, _update_entered).  *)
RunLeavesNothingHit ==
  [][\A p \in Pairs : ~At(p, "idle") /\ At(p, "idle")' /\ crashes' = 0 =>
       \A s \in Signals : Pair[s] = p =>
         /\ sig[s] = "entered" => ExitReason(s) = "none"
         /\ sig[s] = "armed" /\ mode = "touch" => market[s] # "dead"]_vars

(* A signal is entered only with a position, a filled entry and both exit  *)
(* rows, however runs are interrupted (_paper_fill).                       *)
EnteredIsBacked ==
  \A s \in Signals : sig[s] = "entered" =>
    /\ held[s] + closed[s] > 0
    /\ row[<<s, "entry">>] = "filled"
    /\ row[<<s, "stop_loss">>] # "none" /\ row[<<s, "take_profit">>] # "none"

(* A closed signal has no open row left and at most one exit that counts,  *)
(* although _update_entered may have been repeated in between.             *)
ExitIsUnique ==
  \A s \in Signals : sig[s] = "closed" =>
    /\ OpenRows(s) = {}
    /\ Cardinality({q \in Purposes \ {"entry"} : row[<<s, q>>] = "filled"}) <= 1

-----------------------------------------------------------------------------
(* The inductive invariant behind TypeOK, EnteredIsBacked and              *)
(* LimitRespected: what a run may rely on at each of its steps.            *)

\* steps between the creation of a signal, or taking an armed one, and its entry
FillSteps == {"cancel_signal", "entry_row", "open_position", "fill_entry", "sl_row",
              "tp_row", "mark_entered"}

\* steps between the reason of an exit and the closed position
ExitSteps == {"exits", "close_row", "fill_close", "finish"}

RunFacts(p) ==
  LET s == Cur(p) IN
  /\ \A t \in run[p].todo : Pair[t] = p
  /\ run[p].pc \notin {"idle", "loop", "reread", "new"} => Pair[s] = p
  /\ At(p, "arm") => sig[s] = "none"
  /\ run[p].pc \in FillSteps => sig[s] = "armed"
  /\ run[p].pc \in {"fill_entry", "sl_row", "tp_row", "mark_entered"} => held[s] + closed[s] > 0
  /\ run[p].pc \in {"sl_row", "tp_row", "mark_entered"} => row[<<s, "entry">>] = "filled"
  /\ run[p].pc \in {"tp_row", "mark_entered"} => row[<<s, "stop_loss">>] # "none"
  /\ At(p, "mark_entered") => row[<<s, "take_profit">>] # "none"
  /\ run[p].pc \in ExitSteps \cup {"entered", "finish_signal"} => sig[s] = "entered"
  /\ run[p].pc \in ExitSteps => held[s] > 0
  /\ run[p].pc \in ExitSteps \cup {"finish_signal", "read_account", "write_account"}
       => ExitReason(s) \in Reasons
  /\ At(p, "exits") => \A o \in run[p].list : o[1] = s /\ o[2] # "entry"

\* tasks that have passed the limits and not created their signal yet
Arming == {p \in Pairs : At(p, "arm")}

LimitFact ==
  Cardinality(OpenSignals) + Cardinality(Arming)
    <= MaxOpen + (IF overlap THEN Cardinality(Pairs) - 1 ELSE 0)

OneAtATime == ~overlap => \A p, q \in Pairs : ~At(p, "idle") /\ ~At(q, "idle") => p = q

IInv ==
  /\ TypeOK
  /\ EnteredIsBacked
  /\ LimitFact
  /\ OneAtATime
  /\ \A p \in Pairs : RunFacts(p)
=============================================================================
