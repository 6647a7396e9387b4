----------------------------- MODULE LiveTrading -----------------------------
(***************************************************************************)
(* One live account on one symbol of Binance USDT-M futures: the runs of   *)
(* the tracking tasks (src/trading/engine.py _process_account with         *)
(* src/trading/live.py), the rows they write, one autocommitted statement  *)
(* at a time, and the exchange that fills, expires and rejects orders on   *)
(* its own.  A worker is the task of one interval; every signal belongs to *)
(* the interval that armed it, while the reconciliation at the end of a    *)
(* run looks at the whole symbol.                                          *)
(*                                                                         *)
(* A step of a run is one call that changes the database or the exchange,  *)
(* together with the reads before it; a crash (lost worker, exception that *)
(* aborts the account, restart) may fall between any two of them, and the  *)
(* redelivered task starts a run from the beginning.                       *)
(***************************************************************************)
EXTENDS Integers, FiniteSets, FiniteSetsExt

CONSTANTS
  Workers,    \* tracking tasks that process this symbol, one per interval
  Signals,    \* trading_signals rows the account may create on the symbol
  Owner,      \* Owner[s]: the worker whose interval signal s belongs to
  Lots,       \* quantity of an entry order, in steps of the symbol's stepSize
  Faults,     \* the kinds of fault this instance can meet
  MaxFaults   \* bound on their number

\* unclear: refused by a status that does not say whether the order was taken
FaultKinds ==
  {"crash", "network", "reject", "unclear", "row", "expire", "forget", "external"}

ASSUME ConstantsAssumption ==
  /\ IsFiniteSet(Workers) /\ Signals # {}
  /\ Owner \in [Signals -> Workers]
  /\ Lots \in Nat \ {0}
  /\ Faults \subseteq FaultKinds
  /\ MaxFaults \in Nat

VARIABLES
  sig,      \* trading_signals.status, "none" before the row exists
  setup,    \* what the run reads of the signal's harmonic setup
  row,      \* trading_orders.status by client order id, "none" without a row
  acked,    \* client order ids whose exchange_order_id is stored
  pos,      \* trading_positions.status of the signal's position
  qty,      \* trading_positions.qty
  settled,  \* how often _finish_close added the signal's result to the cash
  cash,     \* how often the result is in trading_accounts.cash
  ex,       \* status of the order on the exchange, "none" = unknown to it
  done,     \* lots of the order the exchange has executed
  amount,   \* net position on the exchange (positionAmt; the account's side counts up)
  wallet,   \* signals whose result is in the wallet balance of the exchange
  run,      \* progress and local variables of each worker's run
  budget    \* faults still to come

account == <<settled, cash>>
db == <<sig, row, acked, pos, qty, account>>
exchange == <<ex, done, amount, wallet>>
vars == <<sig, setup, row, acked, pos, qty, settled, cash, ex, done, amount, wallet, run, budget>>

-----------------------------------------------------------------------------
(* The vocabulary of the tables and of the exchange.                       *)

Purposes == {"entry", "stop_loss", "take_profit", "close"}

\* A client order id names the signal and the purpose.
Orders == Signals \X Purposes

SignalStatus == {"none", "rejected", "armed", "entered", "closed", "cancelled"}
SetupStatus  == {"waiting", "dead", "touched", "expired"}
RowStatus    == {"none", "open", "filled", "cancelled", "expired", "rejected"}
ExStatus     == {"none", "open", "partially_filled", "filled", "cancelled", "expired"}

\* live.OPEN and live.CLOSED_BY_EXCHANGE
OpenEx   == {"open", "partially_filled"}
ClosedEx == {"cancelled", "expired"}

SignalOpen(s) == sig[s] \in {"armed", "entered"}

Protective(s) == {<<s, "stop_loss">>, <<s, "take_profit">>}

\* The open SL / TP rows of a signal, as orders_for_signal returns them.
OpenProtective(s) == {o \in Protective(s) : row[o] = "open"}

OpenPositions == {s \in Signals : pos[s] = "open"}

PcLabels ==
  {"idle", "loop", "sync", "place", "known", "gone", "open_position", "fill_entry",
   "sl_row", "tp_row", "mark_entered", "protect", "expiry", "cancel", "finish",
   "finish_signal", "finish_cash", "list_orders", "orphans", "compare",
   "recon_close", "new", "arm", "entry_row", "open_ids"}

(* What a run keeps in local variables: the signal and the order it is     *)
(* working on, a list of orders read earlier, what to do once they are     *)
(* cancelled, where to go on when the signal is dealt with, the signals    *)
(* left, the client ids read as open and the position read from the        *)
(* exchange.                                                               *)
RunType ==
  [pc : PcLabels, cur : Signals, at : Purposes, list : SUBSET Orders,
   after : {"exit", "amount", "finish"}, back : {"loop", "recon_close", "new"},
   todo : SUBSET Signals, seen : SUBSET Orders, amt : Nat]

IdleRun ==
  [pc |-> "idle", cur |-> CHOOSE s \in Signals : TRUE, at |-> "entry", list |-> {},
   after |-> "exit", back |-> "loop", todo |-> {}, seen |-> {}, amt |-> 0]

TypeOK ==
  /\ sig \in [Signals -> SignalStatus]
  /\ setup \in [Signals -> SetupStatus]
  /\ row \in [Orders -> RowStatus]
  /\ acked \subseteq Orders
  /\ pos \in [Signals -> {"none", "open", "closed"}]
  /\ qty \in [Signals -> Nat]
  /\ settled \in [Signals -> Nat] /\ cash \in [Signals -> Nat]
  /\ ex \in [Orders -> ExStatus]
  /\ done \in [Orders -> Nat]
  /\ amount \in Nat
  /\ wallet \subseteq Signals
  /\ run \in [Workers -> RunType]
  /\ budget \in 0..MaxFaults

Init ==
  /\ sig = [s \in Signals |-> "none"]
  /\ setup = [s \in Signals |-> "waiting"]
  /\ row = [o \in Orders |-> "none"]
  /\ acked = {}
  /\ pos = [s \in Signals |-> "none"]
  /\ qty = [s \in Signals |-> 0]
  /\ settled = [s \in Signals |-> 0] /\ cash = [s \in Signals |-> 0]
  /\ ex = [o \in Orders |-> "none"]
  /\ done = [o \in Orders |-> 0]
  /\ amount = 0
  /\ wallet = {}
  /\ run = [w \in Workers |-> IdleRun]
  /\ budget = MaxFaults

-----------------------------------------------------------------------------
(* Helpers of the actions.                                                 *)

At(w, label)   == run[w].pc = label
Goto(w, label) == run' = [run EXCEPT ![w].pc = label]
Order(w)       == <<run[w].cur, run[w].at>>

\* A fault of this kind happens now.
Fault(kind) == kind \in Faults /\ budget > 0 /\ budget' = budget - 1

\* The run is done with its current signal.
Return(r) ==
  [r EXCEPT !.pc = r.back, !.cur = IdleRun.cur, !.list = {}, !.at = "entry", !.after = "exit"]

\* _sync of the order for this purpose comes next.
SyncNext(r, purpose) == [r EXCEPT !.pc = "sync", !.at = purpose]

(* update_entered from its first line: nothing for a position that is not  *)
(* open; otherwise the open SL and TP rows are read and synced, SL first.  *)
BeginProtect(r, s) ==
  LET rows == OpenProtective(s)
      r1 == [r EXCEPT !.cur = s, !.list = rows, !.after = "exit"]
  IN  IF pos[s] # "open" THEN Return(r)
      ELSE IF <<s, "stop_loss">> \in rows THEN SyncNext(r1, "stop_loss")
      ELSE IF <<s, "take_profit">> \in rows THEN SyncNext(r1, "take_profit")
      ELSE [r1 EXCEPT !.pc = "expiry"]

(* Nothing to do about the order at hand: its state is unknown, or it is   *)
(* open.  Entry and close leave the signal to the next run, SL goes on to  *)
(* TP, TP to the check of an expired setup.                                *)
Onward(w) ==
  LET tp == <<run[w].cur, "take_profit">>
  IN  CASE run[w].at \in {"entry", "close"} -> Return(run[w])
        [] run[w].at = "stop_loss" /\ tp \in run[w].list -> SyncNext(run[w], "take_profit")
        [] OTHER -> [run[w] EXCEPT !.pc = "expiry"]

\* _cancel_rest over the orders, then go on with `after`.
CancelThen(r, orders, after) == [r EXCEPT !.pc = "cancel", !.list = orders, !.after = after]

-----------------------------------------------------------------------------
(* A run starts, and takes the account's open signals of its interval.     *)

StartRun(w) ==
  /\ At(w, "idle")
  /\ run' = [run EXCEPT ![w] = [IdleRun EXCEPT
               !.pc = "loop", !.todo = {s \in Signals : Owner[s] = w /\ SignalOpen(s)}]]
  /\ UNCHANGED <<db, setup, exchange, budget>>

(* update_armed: without an open entry row there is nothing to do.         *)
UpdateArmed(w) ==
  /\ At(w, "loop")
  /\ \E s \in run[w].todo :
       /\ sig[s] = "armed"
       /\ LET r == [run[w] EXCEPT !.todo = @ \ {s}, !.cur = s]
          IN  run' = [run EXCEPT ![w] =
                        IF row[<<s, "entry">>] = "open" THEN SyncNext(r, "entry") ELSE Return(r)]
  /\ UNCHANGED <<db, setup, exchange, budget>>

UpdateEntered(w) ==
  /\ At(w, "loop")
  /\ \E s \in run[w].todo :
       /\ sig[s] # "armed"
       /\ run' = [run EXCEPT ![w] = BeginProtect([run[w] EXCEPT !.todo = @ \ {s}], s)]
  /\ UNCHANGED <<db, setup, exchange, budget>>

-----------------------------------------------------------------------------
(* _sync and _submit                                                       *)

(* The exchange knows the order: a missing exchange_order_id is stored.    *)
SyncKnown(w) ==
  /\ At(w, "sync")
  /\ ex[Order(w)] # "none"
  /\ acked' = acked \cup {Order(w)}
  /\ Goto(w, "known")
  /\ UNCHANGED <<sig, setup, row, pos, qty, account, exchange, budget>>

(* It does not know an order it had accepted: taken as cancelled.          *)
SyncMissing(w) ==
  /\ At(w, "sync")
  /\ ex[Order(w)] = "none"
  /\ Order(w) \in acked
  /\ row' = [row EXCEPT ![Order(w)] = "cancelled"]
  /\ Goto(w, "gone")
  /\ UNCHANGED <<sig, setup, acked, pos, qty, account, exchange, budget>>

\* Variant: submits without asking the exchange first.
SyncResubmits_Blind(w) ==
  /\ At(w, "sync")
  /\ Order(w) \notin acked
  /\ Goto(w, "place")
  /\ UNCHANGED <<db, setup, exchange, budget>>

\* Variant: an unconfirmed order is left as it is.
SyncResubmits_Waits(w) ==
  /\ At(w, "sync")
  /\ ex[Order(w)] = "none"
  /\ Order(w) \notin acked
  /\ run' = [run EXCEPT ![w] = Onward(w)]
  /\ UNCHANGED <<db, setup, exchange, budget>>

(* It never got the order: submitted again under the same client id.       *)
SyncResubmits(w) ==
  /\ At(w, "sync")
  /\ ex[Order(w)] = "none"
  /\ Order(w) \notin acked
  /\ Goto(w, "place")
  /\ UNCHANGED <<db, setup, exchange, budget>>

\* A market close needs a position to reduce.
Placeable(o) == o[2] = "close" => amount # 0

(* The exchange's balance has the results of what is sold out.             *)
Realise ==
  wallet' = IF amount' = 0 THEN wallet \cup {s \in Signals : done'[<<s, "entry">>] > 0}
            ELSE wallet

(* The exchange takes the order.  LIMIT and STOP orders rest; the close is *)
(* a MARKET order, reduceOnly: it is executed before the answer is sent,   *)
(* and takes all there is.                                                 *)
TakeOrder(o) ==
  IF o[2] = "close"
    THEN /\ ex' = [ex EXCEPT ![o] = "filled"]
         /\ done' = [done EXCEPT ![o] = amount]
         /\ amount' = 0
         /\ Realise
    ELSE /\ ex' = [ex EXCEPT ![o] = "open"]
         /\ done' = [done EXCEPT ![o] = 0]
         /\ UNCHANGED <<amount, wallet>>

(* place answers: the order is on the exchange and its id is stored.       *)
PlaceAccepted(w) ==
  /\ At(w, "place")
  /\ Placeable(Order(w))
  /\ TakeOrder(Order(w))
  /\ acked' = acked \cup {Order(w)}
  /\ run' = [run EXCEPT ![w] = IF run[w].back = "new" THEN Return(run[w])
                               ELSE [run[w] EXCEPT !.pc = "known"]]
  /\ UNCHANGED <<sig, setup, row, pos, qty, account, budget>>

(* A MARKET order that meets no counterpart is accepted and expires.       *)
CloseExpires(w) ==
  /\ At(w, "place")
  /\ run[w].at = "close"
  /\ Placeable(Order(w))
  /\ Fault("expire")
  /\ ex' = [ex EXCEPT ![Order(w)] = "expired"]
  /\ acked' = acked \cup {Order(w)}
  /\ Goto(w, "known")
  /\ UNCHANGED <<sig, setup, row, pos, qty, account, done, amount, wallet>>

\* Variant: no answer is taken for a refusal.
PlaceUnanswered_AsRefusal(w) ==
  /\ At(w, "place")
  /\ Fault("network")
  /\ \/ UNCHANGED exchange
     \/ Placeable(Order(w)) /\ TakeOrder(Order(w))
  /\ row' = [row EXCEPT ![Order(w)] = "rejected"]
  /\ Goto(w, "gone")
  /\ UNCHANGED <<sig, acked, pos, qty, account, setup>>

(* No answer: the request was lost, or was accepted without our knowing.   *)
PlaceUnanswered(w) ==
  /\ At(w, "place")
  /\ Fault("network")
  /\ \/ UNCHANGED exchange
     \/ Placeable(Order(w)) /\ TakeOrder(Order(w))
  /\ run' = [run EXCEPT ![w] = Onward(w)]
  /\ UNCHANGED <<db, setup>>

(* Every status from 400 on is taken for a refusal, also those that say    *)
(* that the outcome is unknown: the order may be on the exchange.          *)
PlaceUnclear(w) ==
  /\ At(w, "place")
  /\ Placeable(Order(w))
  /\ Fault("unclear")
  /\ TakeOrder(Order(w))
  /\ row' = [row EXCEPT ![Order(w)] = "rejected"]
  /\ Goto(w, "gone")
  /\ UNCHANGED <<sig, setup, acked, pos, qty, account>>

(* The exchange refuses the order; a close without a position always is.   *)
PlaceRejected(w) ==
  /\ At(w, "place")
  /\ IF Placeable(Order(w)) THEN Fault("reject") ELSE UNCHANGED budget
  /\ row' = [row EXCEPT ![Order(w)] = "rejected"]
  /\ Goto(w, "gone")
  /\ UNCHANGED <<sig, setup, acked, pos, qty, account, exchange>>

-----------------------------------------------------------------------------
(* The entry order's state is known (update_armed).                        *)

Dead(s) == setup[s] = "dead"

\* cancel of the waiting entry of a setup that was invalidated or not touched
CancelDeadEntry(w) ==
  /\ At(w, "known")
  /\ run[w].at = "entry"
  /\ Dead(run[w].cur)
  /\ ex[Order(w)] \in OpenEx
  /\ ex' = [ex EXCEPT ![Order(w)] = "cancelled"]
  /\ UNCHANGED <<db, setup, done, amount, wallet, run, budget>>

EntryWaits(w) ==
  /\ At(w, "known")
  /\ run[w].at = "entry"
  /\ ~Dead(run[w].cur)
  /\ ex[Order(w)] \in OpenEx
  /\ run' = [run EXCEPT ![w] = Return(run[w])]
  /\ UNCHANGED <<db, setup, exchange, budget>>

\* Variants: any fill counts; any closed entry counts.
EntryExecuted_AnyFill(o)   == done[o] > 0
EntryExecuted_AnyClosed(o) == ex[o] \notin OpenEx

\* state.filled_qty > 0 and state.status not in OPEN
EntryExecuted(o) == done[o] > 0 /\ ex[o] \notin OpenEx

EntryFilled(w) ==
  /\ At(w, "known")
  /\ run[w].at = "entry"
  /\ EntryExecuted(Order(w))
  /\ Goto(w, "open_position")
  /\ UNCHANGED <<db, setup, exchange, budget>>

\* Variant: only the row is updated.
EntryClosed_RowOnly(w) ==
  /\ At(w, "known")
  /\ run[w].at = "entry"
  /\ ~EntryExecuted(Order(w))
  /\ ex[Order(w)] \in ClosedEx
  /\ row' = [row EXCEPT ![Order(w)] = ex[Order(w)]]
  /\ run' = [run EXCEPT ![w] = Return(run[w])]
  /\ UNCHANGED <<sig, setup, acked, pos, qty, account, exchange, budget>>

(* Closed by the exchange with nothing filled: the row, then the signal.   *)
EntryClosed(w) ==
  /\ At(w, "known")
  /\ run[w].at = "entry"
  /\ ~EntryExecuted(Order(w))
  /\ ex[Order(w)] \in ClosedEx
  /\ row' = [row EXCEPT ![Order(w)] = ex[Order(w)]]
  /\ Goto(w, "gone")
  /\ UNCHANGED <<sig, setup, acked, pos, qty, account, exchange, budget>>

CancelSignal(w) ==
  /\ At(w, "gone")
  /\ run[w].at = "entry"
  /\ sig' = [sig EXCEPT ![run[w].cur] = "cancelled"]
  /\ run' = [run EXCEPT ![w] = Return(run[w])]
  /\ UNCHANGED <<setup, row, acked, pos, qty, account, exchange, budget>>

-----------------------------------------------------------------------------
(* _entered: position, entry row, SL row, TP row, signal, update_entered   *)

(* position_for_signal or open_position                                    *)
OpenPosition(w) ==
  LET s == run[w].cur
  IN  /\ At(w, "open_position")
      /\ IF pos[s] = "none"
           THEN /\ pos' = [pos EXCEPT ![s] = "open"]
                /\ qty' = [qty EXCEPT ![s] = done[<<s, "entry">>]]
           ELSE UNCHANGED <<pos, qty>>
      /\ Goto(w, "fill_entry")
      /\ UNCHANGED <<sig, setup, row, acked, account, exchange, budget>>

(* fill_order writes "filled"; the status of a partial fill that was        *)
(* cancelled or expired replaces it.  No reader tells the two apart.       *)
FillEntryRow(w) ==
  /\ At(w, "fill_entry")
  /\ row' = [row EXCEPT ![Order(w)] = ex[Order(w)]]
  /\ Goto(w, "sl_row")
  /\ UNCHANGED <<sig, setup, acked, pos, qty, account, exchange, budget>>

\* INSERT .. ON CONFLICT (client_order_id) DO NOTHING
InsertRow(o) == row' = [row EXCEPT ![o] = IF @ = "none" THEN "open" ELSE @]

CreateStopRow(w) ==
  /\ At(w, "sl_row")
  /\ InsertRow(<<run[w].cur, "stop_loss">>)
  /\ Goto(w, "tp_row")
  /\ UNCHANGED <<sig, setup, acked, pos, qty, account, exchange, budget>>

CreateTakeProfitRow(w) ==
  /\ At(w, "tp_row")
  /\ InsertRow(<<run[w].cur, "take_profit">>)
  /\ Goto(w, "mark_entered")
  /\ UNCHANGED <<sig, setup, acked, pos, qty, account, exchange, budget>>

MarkEntered(w) ==
  /\ At(w, "mark_entered")
  /\ sig' = [sig EXCEPT ![run[w].cur] = "entered"]
  /\ Goto(w, "protect")
  /\ UNCHANGED <<setup, row, acked, pos, qty, account, exchange, budget>>

Protect(w) ==
  /\ At(w, "protect")
  /\ run' = [run EXCEPT ![w] = BeginProtect(run[w], run[w].cur)]
  /\ UNCHANGED <<db, setup, exchange, budget>>

-----------------------------------------------------------------------------
(* The state of SL, TP or the market close is known.                       *)

StillOpen(w) ==
  /\ At(w, "known")
  /\ run[w].at # "entry"
  /\ ex[Order(w)] \in OpenEx
  /\ run' = [run EXCEPT ![w] = Onward(w)]
  /\ UNCHANGED <<db, setup, exchange, budget>>

(* SL or TP filled: cancel the other one, then record the exit.            *)
ExitFilled(w) ==
  /\ At(w, "known")
  /\ run[w].at \in {"stop_loss", "take_profit"}
  /\ ex[Order(w)] = "filled"
  /\ run' = [run EXCEPT ![w] = CancelThen(run[w], run[w].list \ {Order(w)}, "exit")]
  /\ UNCHANGED <<db, setup, exchange, budget>>

(* SL or TP closed by the exchange: the row follows.                       *)
ProtectionClosed(w) ==
  /\ At(w, "known")
  /\ run[w].at \in {"stop_loss", "take_profit"}
  /\ ex[Order(w)] \in ClosedEx
  /\ row' = [row EXCEPT ![Order(w)] = ex[Order(w)]]
  /\ Goto(w, "gone")
  /\ UNCHANGED <<sig, setup, acked, pos, qty, account, exchange, budget>>

(* No SL on the exchange: _market_close reads the orders again and cancels *)
(* the open ones.                                                          *)
StopGone(w) ==
  /\ At(w, "gone")
  /\ run[w].at = "stop_loss"
  /\ run' = [run EXCEPT ![w] = CancelThen(run[w], OpenProtective(run[w].cur), "amount")]
  /\ UNCHANGED <<db, setup, exchange, budget>>

(* No TP on the exchange is only reported; an unconfirmed close also is.   *)
OtherGone(w) ==
  /\ At(w, "gone")
  /\ run[w].at \in {"take_profit", "close"}
  /\ run' = [run EXCEPT ![w] = Onward(w)]
  /\ UNCHANGED <<db, setup, exchange, budget>>

(* The setup expired: timeout close; otherwise the run is done with it.    *)
CheckExpiry(w) ==
  /\ At(w, "expiry")
  /\ run' = [run EXCEPT ![w] =
               IF setup[run[w].cur] = "expired"
                 THEN CancelThen(run[w], OpenProtective(run[w].cur), "amount")
                 ELSE Return(run[w])]
  /\ UNCHANGED <<db, setup, exchange, budget>>

(* The market close is filled: its row, then _finish_close.                *)
CloseFilled(w) ==
  /\ At(w, "known")
  /\ run[w].at = "close"
  /\ ex[Order(w)] = "filled"
  /\ row' = [row EXCEPT ![Order(w)] = "filled"]
  /\ Goto(w, "finish")
  /\ UNCHANGED <<sig, setup, acked, pos, qty, account, exchange, budget>>

(* It was accepted and is closed without a full fill: reported, and left.  *)
CloseUnconfirmed(w) ==
  /\ At(w, "known")
  /\ run[w].at = "close"
  /\ ex[Order(w)] \in ClosedEx
  /\ run' = [run EXCEPT ![w] = Return(run[w])]
  /\ UNCHANGED <<db, setup, exchange, budget>>

-----------------------------------------------------------------------------
(* _cancel_rest, and what follows it                                       *)

CancelOnExchange(w) ==
  /\ At(w, "cancel")
  /\ \E o \in run[w].list :
       /\ ex[o] \in OpenEx
       /\ ex' = [ex EXCEPT ![o] = "cancelled"]
  /\ UNCHANGED <<db, setup, done, amount, wallet, run, budget>>

RecordCancelled(w) ==
  /\ At(w, "cancel")
  /\ \E o \in run[w].list :
       /\ ex[o] \notin OpenEx
       /\ row' = [row EXCEPT ![o] = IF ex[o] = "filled" THEN "filled" ELSE "cancelled"]
       /\ run' = [run EXCEPT ![w].list = @ \ {o}]
  /\ UNCHANGED <<sig, setup, acked, pos, qty, account, exchange, budget>>

RecordExit(w) ==
  /\ At(w, "cancel")
  /\ run[w].list = {}
  /\ run[w].after = "exit"
  /\ row' = [row EXCEPT ![Order(w)] = "filled"]
  /\ Goto(w, "finish")
  /\ UNCHANGED <<sig, setup, acked, pos, qty, account, exchange, budget>>

(* No position left on the exchange: _close_external.                      *)
PositionGone(w) ==
  /\ At(w, "cancel")
  /\ run[w].list = {}
  /\ run[w].after = "amount"
  /\ amount = 0
  /\ run' = [run EXCEPT ![w] = CancelThen(run[w], OpenProtective(run[w].cur), "finish")]
  /\ UNCHANGED <<db, setup, exchange, budget>>

\* Variant: a close of an earlier run is not tried again.
SendClose_Once(w) ==
  /\ At(w, "cancel")
  /\ run[w].list = {}
  /\ run[w].after = "amount"
  /\ amount # 0
  /\ InsertRow(<<run[w].cur, "close">>)
  /\ run' = [run EXCEPT ![w] = IF row[<<run[w].cur, "close">>] = "none"
                                 THEN SyncNext(run[w], "close") ELSE Return(run[w])]
  /\ UNCHANGED <<sig, setup, acked, pos, qty, account, exchange, budget>>

(* The close row is created, or the one of an earlier run used again.      *)
SendClose(w) ==
  /\ At(w, "cancel")
  /\ run[w].list = {}
  /\ run[w].after = "amount"
  /\ amount # 0
  /\ InsertRow(<<run[w].cur, "close">>)
  /\ run' = [run EXCEPT ![w] = SyncNext(run[w], "close")]
  /\ UNCHANGED <<sig, setup, acked, pos, qty, account, exchange, budget>>

ExternalCancelled(w) ==
  /\ At(w, "cancel")
  /\ run[w].list = {}
  /\ run[w].after = "finish"
  /\ Goto(w, "finish")
  /\ UNCHANGED <<db, setup, exchange, budget>>

-----------------------------------------------------------------------------
(* _finish_close: three statements                                         *)

\* Variant: the position row is left open.
ClosePosition_Skipped(w) ==
  /\ At(w, "finish")
  /\ Goto(w, "finish_signal")
  /\ UNCHANGED <<db, setup, exchange, budget>>

ClosePosition(w) ==
  /\ At(w, "finish")
  /\ pos' = [pos EXCEPT ![run[w].cur] = "closed"]
  /\ Goto(w, "finish_signal")
  /\ UNCHANGED <<sig, setup, row, acked, qty, account, exchange, budget>>

CloseSignal(w) ==
  /\ At(w, "finish_signal")
  /\ sig' = [sig EXCEPT ![run[w].cur] = "closed"]
  /\ Goto(w, "finish_cash")
  /\ UNCHANGED <<setup, row, acked, pos, qty, account, exchange, budget>>

SettleCash(w) ==
  /\ At(w, "finish_cash")
  /\ settled' = [settled EXCEPT ![run[w].cur] = @ + 1]
  /\ cash' = [cash EXCEPT ![run[w].cur] = @ + 1]
  /\ run' = [run EXCEPT ![w] = Return(run[w])]
  /\ UNCHANGED <<sig, setup, row, acked, pos, qty, exchange, budget>>

-----------------------------------------------------------------------------
(* reconcile                                                               *)

\* Variant: only a balance that is higher is taken over.
AdoptBalance_OnlyMore(w) ==
  /\ At(w, "loop")
  /\ run[w].todo = {}
  /\ cash' = [s \in Signals |-> IF s \in wallet /\ cash[s] = 0 THEN 1 ELSE cash[s]]
  /\ Goto(w, "open_ids")
  /\ UNCHANGED <<sig, setup, row, acked, pos, qty, settled, exchange, budget>>

(* The wallet balance becomes the account's cash, with the results of      *)
(* positions the database still holds open.                                *)
AdoptBalance(w) ==
  /\ At(w, "loop")
  /\ run[w].todo = {}
  /\ cash' = [s \in Signals |-> IF s \in wallet THEN 1 ELSE 0]
  /\ Goto(w, "open_ids")
  /\ UNCHANGED <<sig, setup, row, acked, pos, qty, settled, exchange, budget>>

\* Client ids of the open rows of the open signals on the symbol.
OpenIds == {o \in Orders : SignalOpen(o[1]) /\ row[o] = "open"}

ReadOpenIds(w) ==
  /\ At(w, "open_ids")
  /\ run' = [run EXCEPT ![w].pc = "list_orders", ![w].seen = OpenIds]
  /\ UNCHANGED <<db, setup, exchange, budget>>

\* Variant: only entries are looked for.
OrphansAmong_Entries(seen) ==
  {o \in Orders : o[2] = "entry" /\ ex[o] \in OpenEx /\ o \notin seen}

\* Our open orders on the exchange that the database does not hold open.
OrphansAmong(seen) == {o \in Orders : ex[o] \in OpenEx /\ o \notin seen}

ListOpenOrders(w) ==
  /\ At(w, "list_orders")
  /\ run' = [run EXCEPT ![w].pc = "orphans", ![w].list = OrphansAmong(run[w].seen),
                        ![w].seen = {}]
  /\ UNCHANGED <<db, setup, exchange, budget>>

CancelOrphan(w) ==
  /\ At(w, "orphans")
  /\ \E o \in run[w].list :
       /\ ex' = [ex EXCEPT ![o] = IF @ \in OpenEx THEN "cancelled" ELSE @]
       /\ run' = [run EXCEPT ![w].list = @ \ {o}]
  /\ UNCHANGED <<db, setup, done, amount, wallet, budget>>

ReadPosition(w) ==
  /\ At(w, "orphans")
  /\ run[w].list = {}
  /\ run' = [run EXCEPT ![w].pc = "compare", ![w].amt = amount]
  /\ UNCHANGED <<db, setup, exchange, budget>>

Expected == MapThenSumSet(LAMBDA s : qty[s], OpenPositions)

\* Equal, or a position the engine does not manage: at most reported.
PositionAgrees(w) ==
  /\ At(w, "compare")
  /\ run[w].amt = Expected \/ OpenPositions = {}
  /\ run' = [run EXCEPT ![w].pc = "new", ![w].amt = 0]
  /\ UNCHANGED <<db, setup, exchange, budget>>

(* Gone from the exchange: every open position of the symbol is closed.    *)
PositionVanished(w) ==
  /\ At(w, "compare")
  /\ run[w].amt # Expected
  /\ run[w].amt = 0
  /\ run' = [run EXCEPT ![w].pc = "recon_close", ![w].todo = OpenPositions]
  /\ UNCHANGED <<db, setup, exchange, budget>>

(* The exchange wins: its quantity is stored.                              *)
AdoptQuantity(w) ==
  /\ At(w, "compare")
  /\ run[w].amt # Expected
  /\ run[w].amt # 0
  /\ \E s \in OpenPositions : qty' = [qty EXCEPT ![s] = run[w].amt]
  /\ run' = [run EXCEPT ![w].pc = "new", ![w].amt = 0]
  /\ UNCHANGED <<sig, setup, row, acked, pos, account, exchange, budget>>

CloseExternal(w) ==
  /\ At(w, "recon_close")
  /\ \E s \in run[w].todo :
       run' = [run EXCEPT ![w] = CancelThen(
                 [run[w] EXCEPT !.cur = s, !.back = "recon_close", !.todo = @ \ {s}],
                 OpenProtective(s), "finish")]
  /\ UNCHANGED <<db, setup, exchange, budget>>

ReconcileDone(w) ==
  /\ At(w, "recon_close")
  /\ run[w].todo = {}
  /\ Goto(w, "new")
  /\ UNCHANGED <<db, setup, exchange, budget>>

-----------------------------------------------------------------------------
(* _new_signals and _open_signal                                           *)

\* A setup of the worker's interval that has no signal yet.
Candidates(w) == {s \in Signals : Owner[s] = w /\ sig[s] = "none" /\ ~Dead(s)}

\* Variant: a symbol with an entered signal counts as free.
SymbolFree_IgnoresEntered == \A s \in Signals : sig[s] # "armed"

(* conform: one position or order per symbol (one-way mode).               *)
SymbolFree == \A s \in Signals : ~SignalOpen(s)

AcceptCandidate(w) ==
  /\ At(w, "new")
  /\ SymbolFree
  /\ \E s \in Candidates(w) :
       run' = [run EXCEPT ![w].pc = "arm", ![w].cur = s, ![w].back = "new"]
  /\ UNCHANGED <<db, setup, exchange, budget>>

(* Any reason of the risk rules or of conform: stored as rejected.         *)
RejectCandidate(w) ==
  /\ At(w, "new")
  /\ \E s \in Candidates(w) : sig' = [sig EXCEPT ![s] = "rejected"]
  /\ UNCHANGED <<setup, row, acked, pos, qty, account, exchange, run, budget>>

Arm(w) ==
  /\ At(w, "arm")
  /\ sig' = [sig EXCEPT ![run[w].cur] = "armed"]
  /\ Goto(w, "entry_row")
  /\ UNCHANGED <<setup, row, acked, pos, qty, account, exchange, budget>>

(* The row first, then submit_entry: the client id is known before the     *)
(* order can exist.                                                        *)
CreateEntryRow(w) ==
  /\ At(w, "entry_row")
  /\ InsertRow(<<run[w].cur, "entry">>)
  /\ run' = [run EXCEPT ![w].pc = "place", ![w].at = "entry"]
  /\ UNCHANGED <<sig, setup, acked, pos, qty, account, exchange, budget>>

EndRun(w) ==
  /\ At(w, "new")
  /\ run' = [run EXCEPT ![w] = IdleRun]
  /\ UNCHANGED <<db, setup, exchange, budget>>

-----------------------------------------------------------------------------
(* Faults of the process and of the database                               *)

Crash(w) ==
  /\ ~At(w, "idle")
  /\ Fault("crash")
  /\ run' = [run EXCEPT ![w] = IdleRun]
  /\ UNCHANGED <<db, setup, exchange>>

(* create_order reads its row back through fetch_one, which turns a        *)
(* database error into None; the callers go on without the row.            *)
RowLost(w) ==
  /\ Fault("row")
  /\ \/ At(w, "sl_row") /\ Goto(w, "tp_row")
     \/ At(w, "tp_row") /\ Goto(w, "mark_entered")
     \/ At(w, "entry_row") /\ run' = [run EXCEPT ![w] = Return(run[w])]
  /\ UNCHANGED <<db, setup, exchange>>

-----------------------------------------------------------------------------
(* The exchange and the setup tracking                                     *)

\* Lots of the position the order can still reduce or add.
Remaining(o) ==
  IF o[2] = "entry" THEN Lots - done[o] ELSE done[<<o[1], "entry">>] - done[o]

Status(o, n) == IF n = Remaining(o) THEN "filled" ELSE "partially_filled"

FillEntry(s) ==
  LET o == <<s, "entry">>
  IN  /\ ex[o] \in OpenEx
      /\ \E n \in 1..Remaining(o) :
           /\ ex' = [ex EXCEPT ![o] = Status(o, n)]
           /\ done' = [done EXCEPT ![o] = @ + n]
           /\ amount' = amount + n
      /\ UNCHANGED <<db, setup, wallet, run, budget>>

(* TP is a limit order and can be filled in parts; it is sent reduceOnly.  *)
FillTakeProfit(s) ==
  LET o == <<s, "take_profit">>
  IN  /\ ex[o] \in OpenEx
      /\ \E n \in 1..Remaining(o) :
           /\ n <= amount
           /\ ex' = [ex EXCEPT ![o] = Status(o, n)]
           /\ done' = [done EXCEPT ![o] = @ + n]
           /\ amount' = amount - n
           /\ Realise
      /\ UNCHANGED <<db, setup, run, budget>>

(* A triggered SL is a market order, reduceOnly: it takes what there is up *)
(* to its quantity.                                                        *)
TriggerStop(s) ==
  LET o == <<s, "stop_loss">>
      quantity == done[<<s, "entry">>]
      n == IF amount <= quantity THEN amount ELSE quantity
  IN  /\ ex[o] \in OpenEx
      /\ n > 0
      /\ ex' = [ex EXCEPT ![o] = "filled"]
      /\ done' = [done EXCEPT ![o] = n]
      /\ amount' = amount - n
      /\ Realise
      /\ UNCHANGED <<db, setup, run, budget>>

(* A reduceOnly order without a position expires.                          *)
ExpireReduceOnly(o) ==
  /\ o[2] # "entry"
  /\ ex[o] \in OpenEx
  /\ amount = 0
  /\ ex' = [ex EXCEPT ![o] = "expired"]
  /\ UNCHANGED <<db, setup, done, amount, wallet, run, budget>>

(* An order ends on the exchange without us: expired, or cancelled by hand. *)
Expire(o) ==
  /\ ex[o] \in OpenEx
  /\ Fault("expire")
  /\ ex' = [ex EXCEPT ![o] = "expired"]
  /\ UNCHANGED <<db, setup, done, amount, wallet, run>>

(* Orders without a fill are dropped from the exchange's records after     *)
(* days; a run takes minutes, so none is under way.                        *)
Forget(o) ==
  /\ \A w \in Workers : At(w, "idle")
  /\ ex[o] \in ClosedEx
  /\ done[o] = 0
  /\ Fault("forget")
  /\ ex' = [ex EXCEPT ![o] = "none"]
  /\ UNCHANGED <<db, setup, done, amount, wallet, run>>

(* Liquidation, or the position closed by hand on the exchange.            *)
CloseByHand ==
  /\ amount > 0
  /\ Fault("external")
  /\ amount' = 0
  /\ UNCHANGED <<db, setup, ex, done, run>>
  /\ Realise

(* setup: waiting until it is touched or dies; a touched one may expire.   *)
SetupMoves(s) ==
  /\ \/ setup[s] = "waiting" /\ setup' = [setup EXCEPT ![s] = "dead"]
     \/ setup[s] = "waiting" /\ setup' = [setup EXCEPT ![s] = "touched"]
     \/ setup[s] = "touched" /\ setup' = [setup EXCEPT ![s] = "expired"]
  /\ UNCHANGED <<db, exchange, run, budget>>

-----------------------------------------------------------------------------
Sync(w)  == SyncKnown(w) \/ SyncMissing(w) \/ SyncResubmits(w)
Place(w) == PlaceAccepted(w) \/ PlaceRejected(w)
Armed(w) ==
  \/ UpdateArmed(w) \/ CancelDeadEntry(w) \/ EntryWaits(w)
  \/ EntryFilled(w) \/ EntryClosed(w) \/ CancelSignal(w)
Enter(w) ==
  \/ OpenPosition(w) \/ FillEntryRow(w) \/ CreateStopRow(w)
  \/ CreateTakeProfitRow(w) \/ MarkEntered(w) \/ Protect(w)
Entered(w) ==
  \/ UpdateEntered(w) \/ StillOpen(w) \/ ExitFilled(w) \/ ProtectionClosed(w)
  \/ StopGone(w) \/ OtherGone(w) \/ CheckExpiry(w) \/ CloseFilled(w)
  \/ CloseUnconfirmed(w)
Cancel(w) ==
  \/ CancelOnExchange(w) \/ RecordCancelled(w) \/ RecordExit(w)
  \/ PositionGone(w) \/ SendClose(w) \/ ExternalCancelled(w)
Finish(w) == ClosePosition(w) \/ CloseSignal(w) \/ SettleCash(w)
Reconcile(w) ==
  \/ AdoptBalance(w) \/ ReadOpenIds(w) \/ ListOpenOrders(w) \/ CancelOrphan(w) \/ ReadPosition(w)
  \/ PositionAgrees(w) \/ PositionVanished(w) \/ AdoptQuantity(w)
  \/ CloseExternal(w) \/ ReconcileDone(w)
NewSignals(w) ==
  \/ AcceptCandidate(w) \/ RejectCandidate(w) \/ Arm(w) \/ CreateEntryRow(w)
  \/ EndRun(w)

\* What a worker does in a run when nothing goes wrong for it.
GoOn(w) ==
  \/ Sync(w) \/ Place(w) \/ Armed(w) \/ Enter(w) \/ Entered(w)
  \/ Cancel(w) \/ Finish(w) \/ Reconcile(w) \/ NewSignals(w)

Work(w) == StartRun(w) \/ GoOn(w)

WorkerFault(w) ==
  \/ CloseExpires(w) \/ PlaceUnanswered(w) \/ PlaceUnclear(w) \/ Crash(w) \/ RowLost(w)

Exchange ==
  \/ \E s \in Signals : FillEntry(s) \/ FillTakeProfit(s) \/ TriggerStop(s)
  \/ \E o \in Orders : ExpireReduceOnly(o) \/ Expire(o) \/ Forget(o)
  \/ CloseByHand

Next ==
  \/ \E w \in Workers : Work(w) \/ WorkerFault(w)
  \/ Exchange
  \/ \E s \in Signals : SetupMoves(s)

Spec == Init /\ [][Next]_vars

(* The hourly schedule keeps starting runs, a run keeps making steps, and  *)
(* faults are finite (MaxFaults).  Nothing is assumed of the exchange.     *)
Fairness == \A w \in Workers : WF_vars(Work(w))

FairSpec == Spec /\ Fairness

(* Runs on the symbol that do not overlap, of whatever intervals.  Nothing *)
(* in the code sees to it: what is stated of SerialSpec is what the code   *)
(* promises as long as the runs of the intervals do not overlap.           *)
SerialStart(w) == StartRun(w) /\ \A v \in Workers : At(v, "idle")

SerialNext ==
  \/ \E w \in Workers : SerialStart(w) \/ GoOn(w) \/ WorkerFault(w)
  \/ Exchange
  \/ \E s \in Signals : SetupMoves(s)

SerialSpec == Init /\ [][SerialNext]_vars

-----------------------------------------------------------------------------
(* Safety                                                                  *)

(* The account is never exposed by more than one entry order on the        *)
(* symbol: retries under the same client id, orders found to have arrived  *)
(* after all and exits that race each other do not add up (_submit,        *)
(* _sync, _market_close).                                                  *)
ExposureBounded == amount <= Lots

(* conform's rule: one signal holds the symbol at a time.                  *)
OnePerSymbol == Cardinality({s \in Signals : SignalOpen(s)}) <= 1

(* What is left of it when runs overlap: nothing locks the symbol between  *)
(* the check and create_signal, so that each interval may come to hold it  *)
(* with a signal of its own, but none with two.                            *)
OnePerInterval ==
  \A s, t \in Signals : SignalOpen(s) /\ SignalOpen(t) /\ Owner[s] = Owner[t] => s = t

(* The database is never ahead of the exchange: a filled row, a position   *)
(* and an exit row all stand on lots the exchange has executed.            *)
LedgerIsReal ==
  /\ \A o \in Orders : row[o] = "filled" => done[o] > 0
  /\ \A s \in Signals : pos[s] # "none" => done[<<s, "entry">>] > 0
  /\ \A o \in Orders : o[2] # "entry" /\ row[o] # "none" => pos[o[1]] # "none"

(* A position is recorded only once its entry can no longer fill, so the   *)
(* quantity the SL protects is all the entry has bought.                   *)
EntryIsFinal == \A s \in Signals : pos[s] # "none" => ex[<<s, "entry">>] \notin OpenEx

(* When the database holds no open signal on the symbol, the exchange      *)
(* holds no position that came from one.                                   *)
NoSignalNoExposure == (\A s \in Signals : ~SignalOpen(s)) => amount = 0

(* A task finishes a position at most once (_finish_close): runs that are  *)
(* interrupted, an exit that is found by the orders and by the position,   *)
(* and a signal that another task closed first do not repeat it.           *)
SettledOnce == \A s \in Signals : settled[s] <= Cardinality(Workers)

-----------------------------------------------------------------------------
(* The inductive invariant behind TypeOK, LedgerIsReal and EntryIsFinal:   *)
(* what the exchange's answers mean, and what a run may rely on at each of *)
(* its steps although other runs and the exchange go on beside it.         *)

\* between taking a signal up and being done with it
WithSignal == PcLabels \ {"idle", "loop", "open_ids", "list_orders", "orphans", "compare", "recon_close", "new"}

\* steps that only the owner of the signal takes
OwnSteps == {"sync", "place", "known", "gone", "open_position", "fill_entry", "sl_row",
             "tp_row", "mark_entered", "protect", "expiry", "arm", "entry_row"}

ExchangeFacts ==
  /\ \A o \in Orders : ex[o] = "none" => done[o] = 0
  /\ \A o \in Orders : ex[o] = "filled" => done[o] > 0
  /\ \A s \in Signals : sig[s] = "none" => ex[<<s, "entry">>] = "none"

\* the signals left to a run
TodoFacts(w) ==
  /\ At(w, "loop") => run[w].back = "loop"
  /\ At(w, "loop") \/ (run[w].pc \in WithSignal /\ run[w].back = "loop")
       => \A s \in run[w].todo : Owner[s] = w
  /\ At(w, "recon_close") \/ (run[w].pc \in WithSignal /\ run[w].back = "recon_close")
       => \A s \in run[w].todo : pos[s] # "none"

\* the signal and the order at hand
SignalFacts(w) ==
  /\ run[w].pc \in OwnSteps \/ (At(w, "cancel") /\ run[w].after # "finish")
       => Owner[run[w].cur] = w
  /\ run[w].pc \in {"sync", "place", "known", "gone"} /\ run[w].at = "entry"
       => sig[run[w].cur] # "none"
  /\ run[w].pc \in {"sync", "place", "known", "gone"} /\ run[w].at # "entry"
       => pos[run[w].cur] # "none"
  /\ run[w].pc \in {"fill_entry", "sl_row", "tp_row", "expiry", "cancel", "finish"}
       => pos[run[w].cur] # "none"
  /\ At(w, "entry_row") => sig[run[w].cur] # "none"

\* orders that are to be submitted, recorded or cancelled
OrderFacts(w) ==
  /\ run[w].pc \in {"arm", "entry_row"} => ex[<<run[w].cur, "entry">>] = "none"
  /\ At(w, "place") => ex[Order(w)] = "none"
  /\ run[w].pc \in {"open_position", "fill_entry"}
       => run[w].at = "entry" /\ EntryExecuted(Order(w))
  /\ At(w, "cancel") /\ run[w].after = "exit"
       => run[w].at # "entry" /\ ex[Order(w)] = "filled"
  /\ ~At(w, "orphans") => \A o \in run[w].list : pos[o[1]] # "none"

RunFacts(w) == TodoFacts(w) /\ SignalFacts(w) /\ OrderFacts(w)

IInv ==
  /\ TypeOK
  /\ LedgerIsReal
  /\ EntryIsFinal
  /\ ExchangeFacts
  /\ \A w \in Workers : RunFacts(w)

-----------------------------------------------------------------------------
(* Liveness, under FairSpec                                                *)

(* An order open on the exchange that no open signal holds open in the     *)
(* database.                                                               *)
Orphan(o) == ex[o] \in OpenEx /\ o \notin OpenIds

(* A result the exchange has realised is in the account's cash once in the *)
(* end, and stays so: adopted with the balance before the database closed  *)
(* the position it is counted a second time by _finish_close, and a later  *)
(* run's reconciliation puts that right (the peak it may have raised is    *)
(* not lowered).                                                           *)
CountedOnceAtLast == \A s \in Signals : s \in wallet ~> [](cash[s] = 1)

(* live.reconcile: an orphan does not stay on the exchange.                *)
OrphanRemoved == \A o \in Orders : Orphan(o) ~> ~Orphan(o)

(* An entry whose setup died does not stay armed.                          *)
DeadSetupLeavesArmed ==
  \A s \in Signals : sig[s] = "armed" /\ setup[s] = "dead" ~> sig[s] # "armed"

(* An entered signal whose setup expired is closed at last.                *)
ExpiredIsClosed ==
  \A s \in Signals : sig[s] = "entered" /\ setup[s] = "expired" ~> sig[s] = "closed"

(* The position is on the exchange and no stop protects it.                *)
Unprotected(s) ==
  pos[s] = "open" /\ amount > 0 /\ ex[<<s, "stop_loss">>] \notin OpenEx

(* A stop whose submission got no answer is on the exchange at last, or    *)
(* its row says why not: later runs submit it again under the same id.     *)
StopRowResolved ==
  \A s \in Signals :
    LET stop == <<s, "stop_loss">>
    IN  sig[s] = "entered" /\ Unprotected(s) /\ row[stop] = "open"
          ~> ~Unprotected(s) \/ row[stop] # "open"

(* live.py: "the position is never left without a stop".                   *)
StopRestored == \A s \in Signals : Unprotected(s) ~> ~Unprotected(s)

(* live.py: an interrupted _entered is taken up again by a later run.      *)
EntryResumed ==
  \A s \in Signals : pos[s] = "open" /\ sig[s] = "armed" ~> sig[s] # "armed" \/ pos[s] = "closed"
=============================================================================
