-------------------------- MODULE PaperFollowsSetup --------------------------
(***************************************************************************)
(* One setup and the paper trade made of it, candle by candle: simulate of *)
(* harmonic_setups.py judges the setup, the engine fills an order and      *)
(* closes a position by the rules of paper_exchange.py, both on the same   *)
(* closed candles ("te same reguły co symulator setupów").  A run of track *)
(* stores the outcome and then calls the engine; hours may be missed, and  *)
(* the engine may fail after the outcome was stored.                       *)
(*                                                                         *)
(* Candles are counted from the one that created the setup.                *)
(***************************************************************************)
EXTENDS Naturals, Sequences, FiniteSetsExt

CONSTANTS
  Top,        \* the greatest price
  Near, Peak, \* of a bullish setup: the near edge of the PRZ, and C
  Targets,    \* Targets[e]: SL and TP of a bullish entry at e, fallback included
  Shapes,     \* the candles of a bullish chart: open, high, low
  Span,       \* candles from X to C
  Lookback,   \* NEW_SETUP_LOOKBACK_CANDLES
  MaxCandles, \* the length of a chart
  MaxMissed   \* hours without a run, or without the engine

TRADE_TIMEOUT_FACTOR == 2

Prices == 0 .. Top
Bars == [open : Prices, high : Prices, low : Prices]

ASSUME FollowAssumption ==
  /\ Top \in Nat
  /\ Near \in Prices /\ Peak \in Prices /\ Near < Peak
  /\ Targets \in [Prices -> Prices \X Prices]
  \* _targets_valid, or the fallback
  /\ \A e \in Prices : e \in 1 .. Near => Targets[e][1] < e /\ e < Targets[e][2]
  /\ Shapes \subseteq Bars /\ \A k \in Shapes : k.low <= k.open /\ k.open <= k.high
  /\ Span \in Nat \ {0} /\ {Lookback, MaxCandles, MaxMissed} \subseteq Nat

VARIABLES
  bull,   \* whether the setup is bullish
  chart,  \* the closed candles after the setup's own
  setup,  \* the row of the setup
  trade,  \* the signal with its order and position
  seen,   \* how many candles the last complete run had
  missed  \* hours missed

followVars == <<bull, chart, setup, trade, seen, missed>>

Statuses == {"waiting", "open", "win", "loss", "expired", "no_entry", "invalidated"}
Final == Statuses \ {"waiting", "open"}
Index == 0 .. MaxCandles

Fresh == [status |-> "waiting", entry |-> 0, price |-> 0, exit |-> 0]
NoTrade == [status |-> "none", placed |-> 0, entry |-> 0, price |-> 0, reason |-> "none", exit |-> 0]

FollowTypeOK ==
  /\ bull \in BOOLEAN
  /\ chart \in Seq(Bars) /\ Len(chart) <= MaxCandles
  /\ setup \in [status : Statuses, entry : Index, price : Prices, exit : Index]
  /\ trade \in [status : {"none", "armed", "entered", "closed", "cancelled"}, placed : Index,
                entry : Index, price : Prices, reason : {"none", "sl", "tp", "timeout"}, exit : Index]
  /\ seen \in Index /\ missed \in 0 .. MaxMissed

-----------------------------------------------------------------------------
(* Prices of a bearish setup are those of a bullish one upside down.       *)
Flip(p) == IF bull THEN p ELSE Top - p
Drawn(k) == IF bull THEN k ELSE [open |-> Top - k.open, high |-> Top - k.low, low |-> Top - k.high]

NearEdge == Flip(Near)
StopOf(entry) == Flip(Targets[Flip(entry)][1])
TargetOf(entry) == Flip(Targets[Flip(entry)][2])

\* A candle comes down to a price, for a bearish setup up to it.
Reaches(k, p) == IF bull THEN k.low <= p ELSE k.high >= p
\* A candle goes in favour of the setup as far as a price.
Gains(k, p) == IF bull THEN k.high >= p ELSE k.low <= p
Passes(k, p) == IF bull THEN k.high > p ELSE k.low < p
\* The price of a limit order, or the open of a candle that opened behind it.
Filled(k, p) == IF bull THEN Min({k.open, p}) ELSE Max({k.open, p})

-----------------------------------------------------------------------------
(* simulate, one candle at a time                                          *)

Waits(out, i, k) ==
  IF Passes(k, Flip(Peak)) THEN [out EXCEPT !.status = "invalidated", !.exit = i]
  ELSE IF Reaches(k, NearEdge) THEN
    LET entered == [out EXCEPT !.status = "open", !.entry = i, !.price = Filled(k, NearEdge)]
    IN  IF Reaches(k, StopOf(entered.price))
        THEN [entered EXCEPT !.status = "loss", !.exit = i] ELSE entered
  ELSE IF i > Span THEN [out EXCEPT !.status = "no_entry", !.exit = i]
  ELSE out

Holds(out, i, k) ==
  IF Reaches(k, StopOf(out.price)) THEN [out EXCEPT !.status = "loss", !.exit = i]
  ELSE IF Gains(k, TargetOf(out.price)) THEN [out EXCEPT !.status = "win", !.exit = i]
  ELSE IF i - out.entry >= TRADE_TIMEOUT_FACTOR * Span THEN [out EXCEPT !.status = "expired", !.exit = i]
  ELSE out

Judged(out, i, k) ==
  CASE out.status = "waiting" -> Waits(out, i, k)
    [] out.status = "open"    -> Holds(out, i, k)
    [] OTHER -> out

\* The outcome after each candle of the chart.
Outcomes[i \in 0 .. Len(chart)] ==
  IF i = 0 THEN Fresh ELSE Judged(Outcomes[i - 1], i, chart[i])

simulate == Outcomes[Len(chart)]

-----------------------------------------------------------------------------
(* paper_exchange: the first candle that fills or closes, 0 for none       *)

First(indices) == IF indices = {} THEN 0 ELSE Min(indices)

\* match_limit_entry, on the candles after the order and before the setup ended
Entry(end) ==
  First({i \in trade.placed + 1 .. Len(chart) : (end = 0 \/ i < end) /\ Reaches(chart[i], NearEdge)})

TargetCounts_EntryCandle(i, entry) == i >= entry  \* also the candle that filled the order

\* In the candle of the entry only the SL counts, its TP may have been before.
TargetCounts(i, entry) == i > entry

\* match_exit: SL and TP are those of the plan, of an entry at the near edge.
Exits(entry) == {i \in entry .. Len(chart) : \/ Reaches(chart[i], StopOf(NearEdge))
                                             \/ TargetCounts(i, entry) /\ Gains(chart[i], TargetOf(NearEdge))}

Closed(t, i, reason) == [t EXCEPT !.status = "closed", !.exit = i, !.reason = reason]

\* _update_entered
Update(t, row) ==
  LET i == First(Exits(t.entry))
  IN  IF i # 0 THEN Closed(t, i, IF Reaches(chart[i], StopOf(NearEdge)) THEN "sl" ELSE "tp")
      ELSE IF row.status = "expired" THEN Closed(t, row.exit, "timeout")
      ELSE t

EntryAt(i) == [trade EXCEPT !.status = "entered", !.entry = i, !.price = Filled(chart[i], NearEdge)]
EndOf(row) == IF row.status \in {"invalidated", "no_entry"} THEN row.exit ELSE 0

UpdateArmed_FillsOnly(row) ==  \* leaves the exit to the next run
  IF Entry(EndOf(row)) # 0 THEN EntryAt(Entry(EndOf(row))) ELSE trade

\* _update_armed
UpdateArmed(row) ==
  LET end == EndOf(row)
      i == Entry(end)
  IN  IF i # 0 THEN Update(EntryAt(i), row)
      ELSE IF end # 0 THEN [trade EXCEPT !.status = "cancelled", !.exit = end]
      ELSE trade

\* _touch_candidates and _open_signal, whose filters and limits may refuse
Opened(row) ==
  {NoTrade} \cup IF row.status = "waiting" /\ Len(chart) <= Lookback
                 THEN {[NoTrade EXCEPT !.status = "armed", !.placed = Len(chart)]} ELSE {}

\* process_pair for the account
Traded(row) ==
  CASE trade.status = "none"    -> Opened(row)
    [] trade.status = "armed"   -> {UpdateArmed(row)}
    [] trade.status = "entered" -> {Update(trade, row)}
    [] OTHER                    -> {trade}

-----------------------------------------------------------------------------
FollowInit ==
  /\ bull \in BOOLEAN
  /\ chart = <<>>
  /\ setup = Fresh /\ trade = NoTrade
  /\ seen = 0 /\ missed = 0

\* upsert_many keeps what is final.
Stored == IF setup.status \in Final THEN setup ELSE simulate

\* An hour passes: one candle more, and the hour before was missed if no run
\* with the engine had seen its candle.
Hour(k) ==
  /\ Len(chart) < MaxCandles
  /\ seen < Len(chart) => missed < MaxMissed
  /\ missed' = IF seen < Len(chart) THEN missed + 1 ELSE missed
  /\ chart' = Append(chart, Drawn(k))
  /\ UNCHANGED <<bull, setup, trade, seen>>

\* track with the engine; a redelivered task runs again on the same candles.
Run ==
  /\ setup' = Stored
  /\ trade' \in Traded(Stored)
  /\ seen' = Len(chart)
  /\ UNCHANGED <<bull, chart, missed>>

\* The engine raises, which track logs and swallows.
EngineFails ==
  /\ setup' = Stored
  /\ UNCHANGED <<bull, chart, trade, seen, missed>>

FollowNext == Run \/ EngineFails \/ \E k \in Shapes : Hour(k)

FollowSpec == FollowInit /\ [][FollowNext]_followVars

-----------------------------------------------------------------------------
\* What a trade of the setup should be.
Mirror(row) ==
  [status |-> CASE row.status = "waiting" -> "armed"
                [] row.status = "open"    -> "entered"
                [] row.status \in {"no_entry", "invalidated"} -> "cancelled"
                [] OTHER -> "closed",
   reason |-> CASE row.status = "win" -> "tp" [] row.status = "loss" -> "sl"
                [] row.status = "expired" -> "timeout" [] OTHER -> "none",
   exit |-> row.exit]

Seen(t) == [status |-> t.status, reason |-> t.reason, exit |-> t.exit]

\* A candle opened behind the near edge: the setup has the SL and TP of that
\* price, the order those of its plan.
Gapped(t) == t.entry # 0 /\ t.price # NearEdge

\* The setup expired in an hour without a run, and a later candle hit SL or TP.
Late(t, row) == row.status = "expired" /\ missed > 0 /\ t.exit > row.exit

Follow(t, row) ==
  /\ t.entry = row.entry /\ t.price = row.price
  /\ Gapped(t) \/ Late(t, row) \/ Seen(t) = Mirror(row)

\* A paper trade has the fate of its setup, so that the account can be compared
\* with the statistics (paper_exchange.py, lines 2-9): the same candle fills it
\* at the same price, and but for a gap the same candle closes it for the same
\* reason, also after missed hours.
TradeFollowsSetup ==
  seen = Len(chart) /\ trade.status # "none" => Follow(trade, setup)

\* A tracking task that is delivered again finds nothing left to do for the
\* trade: one run does all its candles ask for, the exit after the entry too.
RunTwice == [][Run /\ seen = Len(chart) /\ trade.status # "none" => trade' = trade]_followVars
=============================================================================
