--------------------------- MODULE LiveTradingProofs ---------------------------
(***************************************************************************)
(* Proofs about LiveTrading, for every set of workers and signals, every   *)
(* quantity and every number of faults of every kind.                      *)
(*                                                                         *)
(* The inductive invariant IInv says, besides the properties, what a run   *)
(* relies on at each of its steps.  Two ideas carry the proof.  A step     *)
(* writes one value: the lemmas on writes show what such a write keeps of  *)
(* the tables.  And the other runs must not notice: Respects names what a  *)
(* step keeps for them, and KeepFacts shows that it is all they need.      *)
(*                                                                         *)
(* The next part is about runs that do not overlap (SerialSpec), where     *)
(* what is at stake on the exchange can be said of one signal at a time;   *)
(* the last two hold of overlapping runs as well: what remains of the rule *)
(* of one signal per symbol, and how often a result is settled.            *)
(***************************************************************************)
EXTENDS LiveTrading, FiniteSetTheorems, TLAPS

--------------------------------------------------------------------------------
(* The updates of a run's local variables: their type and their fields.   *)

(* Being done with a signal leaves a well-formed run.                     *)
LEMMA ReturnType == ASSUME NEW r \in RunType PROVE Return(r) \in RunType
  BY ConstantsAssumption DEF RunType, Return, IdleRun, PcLabels, Purposes

(* So does taking up the _sync of another of the signal's orders.         *)
LEMMA SyncNextType == ASSUME NEW r \in RunType, NEW p \in Purposes PROVE SyncNext(r, p) \in RunType
  BY DEF RunType, SyncNext, PcLabels, Purposes

(* A run that is done with its signal is where it came from, with an      *)
(* empty list and the same signals left (the `continue` of the loops in   *)
(* _process_account, reconcile and _new_signals).                         *)
LEMMA ReturnFields ==
  ASSUME NEW r \in RunType
  PROVE  LET q == Return(r) IN
         /\ q.pc = r.back /\ q.at = "entry" /\ q.list = {}
         /\ q.after = "exit" /\ q.back = r.back /\ q.todo = r.todo
  BY DEF Return, RunType

(* _cancel_rest over a list of orders: only the place, the list and the   *)
(* continuation change.                                                   *)
LEMMA CancelThenFields ==
  ASSUME NEW r \in RunType, NEW orders \in SUBSET Orders, NEW after \in {"exit", "amount", "finish"}
  PROVE  LET q == CancelThen(r, orders, after) IN
         /\ q \in RunType
         /\ q.pc = "cancel" /\ q.list = orders /\ q.after = after
         /\ q.cur = r.cur /\ q.at = r.at /\ q.back = r.back /\ q.todo = r.todo
  BY DEF CancelThen, RunType, PcLabels

(* _sync of the order for a purpose: only the place and the purpose       *)
(* change.                                                                *)
LEMMA SyncNextFields ==
  ASSUME NEW r \in RunType, NEW p \in Purposes
  PROVE  LET q == SyncNext(r, p) IN
         /\ q.pc = "sync" /\ q.at = p
         /\ q.cur = r.cur /\ q.list = r.list /\ q.after = r.after /\ q.back = r.back
         /\ q.todo = r.todo
  BY DEF SyncNext, RunType

(* The runs of the other workers are left alone.                          *)
Others(w) == \A v \in Workers : v # w => run'[v] = run[v]

--------------------------------------------------------------------------------
(* What a step of one worker leaves to the others.                        *)

(* A step that gives one worker's run a new value leaves the other runs   *)
(* alone.                                                                 *)
LEMMA StepRun ==
  ASSUME TypeOK, NEW w \in Workers, NEW r \in RunType, run' = [run EXCEPT ![w] = r]
  PROVE  run' \in [Workers -> RunType] /\ Others(w) /\ run'[w] = r
  BY DEF TypeOK, account, Others

(* A step that only moves a worker on keeps its local variables and the   *)
(* other runs.                                                            *)
LEMMA GotoFields ==
  ASSUME TypeOK, NEW w \in Workers, NEW label \in PcLabels, Goto(w, label)
  PROVE  /\ run' \in [Workers -> RunType]
         /\ Others(w)
         /\ run'[w].pc = label
         /\ run'[w].cur = run[w].cur
         /\ run'[w].at = run[w].at
         /\ run'[w].list = run[w].list
         /\ run'[w].after = run[w].after
         /\ run'[w].back = run[w].back
         /\ run'[w].todo = run[w].todo
  BY DEF TypeOK, account, Goto, RunType, Others

(* The types of a run's local variables, from the type invariant.         *)
LEMMA SmallTypes ==
  ASSUME TypeOK, NEW w \in Workers
  PROVE  /\ run[w] \in RunType /\ Order(w) \in Orders /\ run[w].cur \in Signals
         /\ run[w].at \in Purposes /\ run[w].list \in SUBSET Orders
         /\ Order(w) = <<run[w].cur, run[w].at>>
         /\ run[w].pc \in PcLabels
         /\ run[w].todo \in SUBSET Signals
         /\ run[w].seen \in SUBSET Orders
         /\ run[w].amt \in Nat
         /\ run[w].back \in {"loop", "recon_close", "new"}
         /\ run[w].after \in {"exit", "amount", "finish"}
         /\ IdleRun \in RunType
  BY ConstantsAssumption DEF TypeOK, account, RunType, Order, Orders, IdleRun, PcLabels, Purposes

(* A signal and a purpose make an order: client_id is defined on every    *)
(* pair.                                                                  *)
LEMMA OrderParts == \A s \in Signals, p \in Purposes : <<s, p>> \in Orders
  BY DEF Orders

(* An order is the pair of its signal and its purpose, so client_id is    *)
(* injective.                                                             *)
LEMMA OrderShape == \A o \in Orders : o[1] \in Signals /\ o[2] \in Purposes /\ o = <<o[1], o[2]>>
  BY DEF Orders

(* What the invariant says of the database and the exchange, without the  *)
(* runs.                                                                  *)
Tables == LedgerIsReal /\ EntryIsFinal /\ ExchangeFacts

(* What every step keeps for a run v that is not the one stepping: rows   *)
(* are never deleted, an executed order stays executed, and only v        *)
(* submits orders for the signals of its interval.                        *)
Respects(v) ==
  /\ \A s \in Signals : sig[s] # "none" => sig'[s] # "none"
  /\ \A s \in Signals : pos[s] # "none" => pos'[s] # "none"
  /\ \A o \in Orders : ex[o] = "none" /\ Owner[o[1]] = v => ex'[o] = "none"
  /\ \A o \in Orders : ex[o] = "filled" => ex'[o] = "filled"
  /\ \A o \in Orders : EntryExecuted(o) => EntryExecuted(o)'

(* A run that does not step keeps what it relies on, if the step respects *)
(* it: the facts read before an await still hold after it.                *)
LEMMA KeepFacts ==
  ASSUME IInv, NEW v \in Workers, run'[v] = run[v], Respects(v)
  PROVE  RunFacts(v)'
  <1>1. TypeOK /\ RunFacts(v)
    BY DEF IInv
  <1>2. /\ run[v].cur \in Signals /\ run[v].list \in SUBSET Orders /\ run[v].todo \in SUBSET Signals
        /\ Order(v) \in Orders /\ Order(v)[1] = run[v].cur
        /\ <<run[v].cur, "entry">> \in Orders /\ <<run[v].cur, "entry">>[1] = run[v].cur
    BY <1>1, SmallTypes, OrderParts DEF Order, Purposes
  <1>3. TodoFacts(v)'
    BY <1>1, <1>2 DEF RunFacts, TodoFacts, At, Respects
  <1>4. SignalFacts(v)'
    BY <1>1, <1>2 DEF RunFacts, SignalFacts, At, Respects
  <1>5. OrderFacts(v)'
    <2>1. run[v].pc \in {"place", "arm", "entry_row"} => Owner[run[v].cur] = v
      BY <1>1 DEF RunFacts, SignalFacts, OwnSteps
    <2>2. \A o \in run[v].list : o \in Orders /\ o[1] \in Signals
      BY <1>2, OrderShape
    <2> QED
      BY <1>1, <1>2, <2>1, <2>2 DEF RunFacts, OrderFacts, At, Respects, Order
  <1> QED
    BY <1>3, <1>4, <1>5 DEF RunFacts

(* A worker's step keeps the invariant if it keeps the types and tables,  *)
(* is respected by the others and re-establishes the facts of its own     *)
(* run.                                                                   *)
LEMMA StepKeeps ==
  ASSUME IInv, NEW w \in Workers, TypeOK', Tables', Others(w), RunFacts(w)',
         \A v \in Workers : v # w => Respects(v)
  PROVE  IInv'
  <1>1. ASSUME NEW v \in Workers PROVE RunFacts(v)'
    BY KeepFacts DEF Others
  <1> QED
    BY <1>1 DEF IInv, Tables

(* A step that writes neither signal, row, position nor order needs only  *)
(* the types and its own run's facts (the pure decisions of update_armed  *)
(* and update_entered).                                                   *)
LEMMA QuietStep ==
  ASSUME IInv, NEW w \in Workers, UNCHANGED <<sig, row, pos, ex, done>>,
         TypeOK', Others(w), RunFacts(w)'
  PROVE  IInv'
  <1>1. Tables'
    BY DEF IInv, Tables, LedgerIsReal, EntryIsFinal, ExchangeFacts
  <1>2. \A v \in Workers : Respects(v)
    BY DEF Respects, EntryExecuted
  <1> QED
    BY <1>1, <1>2, StepKeeps

(* The same for a step of no worker: the exchange, or the setup tracking. *)
LEMMA OutsideStep ==
  ASSUME IInv, run' = run, TypeOK', Tables', \A v \in Workers : Respects(v)
  PROVE  IInv'
  <1>1. ASSUME NEW v \in Workers PROVE RunFacts(v)'
    BY KeepFacts
  <1> QED
    BY <1>1 DEF IInv, Tables

--------------------------------------------------------------------------------
(* The writes of single values: a row, a signal, a position, an order on  *)
(* the exchange.  Each keeps Tables and is respected by the other runs.   *)

(* Writing an order row (fill_order, update_order) keeps the tables if a  *)
(* filled row has executed lots and an exit row has a position.           *)
LEMMA RowWrite ==
  ASSUME IInv, NEW o \in Orders, NEW st \in RowStatus,
         row' = [row EXCEPT ![o] = st], UNCHANGED <<sig, pos, ex, done>>,
         st = "filled" => done[o] > 0,
         o[2] # "entry" => pos[o[1]] # "none"
  PROVE  Tables' /\ \A v \in Workers : Respects(v)
  <1>1. \A p \in Orders : row'[p] = IF p = o THEN st ELSE row[p]
    BY DEF IInv, TypeOK, account
  <1>2. LedgerIsReal'
    BY <1>1 DEF IInv, LedgerIsReal
  <1>3. EntryIsFinal' /\ ExchangeFacts'
    BY DEF IInv, EntryIsFinal, ExchangeFacts
  <1>4. \A v \in Workers : Respects(v)
    BY DEF Respects, EntryExecuted
  <1> QED
    BY <1>2, <1>3, <1>4 DEF Tables

(* create_order's INSERT .. ON CONFLICT DO NOTHING keeps the tables if an *)
(* exit row has a position.                                               *)
LEMMA RowInsert ==
  ASSUME IInv, NEW o \in Orders, InsertRow(o), UNCHANGED <<sig, pos, ex, done>>,
         o[2] # "entry" => pos[o[1]] # "none"
  PROVE  row' \in [Orders -> RowStatus] /\ Tables' /\ \A v \in Workers : Respects(v)
  <1> DEFINE st == IF row[o] = "none" THEN "open" ELSE row[o]
  <1>1. row \in [Orders -> RowStatus] /\ (\A p \in Orders : row[p] = "filled" => done[p] > 0)
    BY DEF IInv, TypeOK, account, LedgerIsReal
  <1>2. st \in RowStatus /\ (st = "filled" => done[o] > 0)
    BY <1>1 DEF RowStatus
  <1>3. row' = [row EXCEPT ![o] = st]
    BY DEF InsertRow
  <1> HIDE DEF st
  <1> QED
    BY <1>1, <1>2, <1>3, RowWrite

(* set_signal_status and create_signal never bring a signal back to       *)
(* having no row, so they keep the tables.                                *)
LEMMA SigWrite ==
  ASSUME IInv, NEW s \in Signals, NEW st \in SignalStatus \ {"none"},
         sig' = [sig EXCEPT ![s] = st], UNCHANGED <<row, pos, ex, done>>
  PROVE  Tables' /\ \A v \in Workers : Respects(v)
  <1>1. \A t \in Signals : sig'[t] = IF t = s THEN st ELSE sig[t]
    BY DEF IInv, TypeOK, account
  <1>2. LedgerIsReal' /\ EntryIsFinal'
    BY DEF IInv, LedgerIsReal, EntryIsFinal
  <1>3. ExchangeFacts'
    BY <1>1 DEF IInv, ExchangeFacts
  <1>4. \A v \in Workers : Respects(v)
    BY <1>1 DEF Respects, EntryExecuted
  <1> QED
    BY <1>2, <1>3, <1>4 DEF Tables

(* Opening or closing a position keeps the tables once the entry has been *)
(* executed (open_position, close_position).                              *)
LEMMA PosWrite ==
  ASSUME IInv, NEW s \in Signals, NEW st \in {"open", "closed"},
         pos' = [pos EXCEPT ![s] = st], UNCHANGED <<sig, row, ex, done>>,
         EntryExecuted(<<s, "entry">>) \/ pos[s] # "none"
  PROVE  Tables' /\ \A v \in Workers : Respects(v)
  <1>1. \A t \in Signals : pos'[t] = IF t = s THEN st ELSE pos[t]
    BY DEF IInv, TypeOK, account
  <1>2. done[<<s, "entry">>] > 0 /\ ex[<<s, "entry">>] \notin OpenEx
    BY DEF IInv, LedgerIsReal, EntryIsFinal, EntryExecuted
  <1>3. LedgerIsReal'
    BY <1>1, <1>2, OrderShape DEF IInv, LedgerIsReal
  <1>4. EntryIsFinal' /\ ExchangeFacts'
    BY <1>1, <1>2 DEF IInv, EntryIsFinal, ExchangeFacts
  <1>5. \A v \in Workers : Respects(v)
    BY <1>1 DEF Respects, EntryExecuted
  <1> QED
    BY <1>3, <1>4, <1>5 DEF Tables

(* An order that is cancelled or expires without filling keeps the        *)
(* tables, and the orders others know to be executed stay so.             *)
LEMMA OrderEnds ==
  ASSUME IInv, NEW o \in Orders, NEW st \in ClosedEx, ex[o] \in OpenEx,
         ex' = [ex EXCEPT ![o] = st], UNCHANGED <<sig, row, pos, done>>
  PROVE  ex' \in [Orders -> ExStatus] /\ Tables' /\ \A v \in Workers : Respects(v)
  <1>1. ex \in [Orders -> ExStatus] /\ st \in ExStatus
    BY DEF IInv, TypeOK, account, ClosedEx, ExStatus
  <1>2. \A p \in Orders : ex'[p] = IF p = o THEN st ELSE ex[p]
    BY <1>1
  <1>3. st \notin OpenEx /\ st # "filled" /\ st # "none" /\ ex[o] # "none" /\ ex[o] # "filled"
    BY DEF ClosedEx, OpenEx
  <1>4. \A s \in Signals : <<s, "entry">> \in Orders
    BY OrderParts DEF Purposes
  <1>5. LedgerIsReal' /\ EntryIsFinal'
    BY <1>2, <1>3, <1>4 DEF IInv, LedgerIsReal, EntryIsFinal
  <1>6. ExchangeFacts'
    BY <1>2, <1>3, <1>4 DEF IInv, ExchangeFacts
  <1>7. \A v \in Workers : Respects(v)
    BY <1>2, <1>3 DEF Respects, EntryExecuted
  <1> QED
    BY <1>1, <1>5, <1>6, <1>7 DEF Tables

(* A fill keeps the tables: it changes only an order that is still open,  *)
(* for which no position is recorded if it is an entry.                   *)
LEMMA OrderFills ==
  ASSUME IInv, NEW o \in Orders, NEW st \in {"filled", "partially_filled"}, NEW n \in Nat \ {0},
         ex[o] \in OpenEx, ex' = [ex EXCEPT ![o] = st], done' = [done EXCEPT ![o] = n],
         UNCHANGED <<sig, row, pos>>
  PROVE  /\ ex' \in [Orders -> ExStatus] /\ done' \in [Orders -> Nat]
         /\ Tables' /\ \A v \in Workers : Respects(v)
  <1>1. ex \in [Orders -> ExStatus] /\ st \in ExStatus /\ done \in [Orders -> Nat]
    BY DEF IInv, TypeOK, account, ExStatus
  <1>2. \A p \in Orders : /\ ex'[p] = IF p = o THEN st ELSE ex[p]
                          /\ done'[p] = IF p = o THEN n ELSE done[p]
    BY <1>1
  <1>3. st # "none" /\ ex[o] # "none" /\ ex[o] # "filled" /\ n > 0
    BY DEF OpenEx
  <1>4. \A s \in Signals : <<s, "entry">> \in Orders
    BY OrderParts DEF Purposes
  <1>5. LedgerIsReal'
    BY <1>2, <1>3, <1>4 DEF IInv, LedgerIsReal
  <1>6. EntryIsFinal'
    BY <1>2, <1>4 DEF IInv, EntryIsFinal
  <1>7. ExchangeFacts'
    BY <1>2, <1>3, <1>4 DEF IInv, ExchangeFacts
  <1>8. \A v \in Workers : Respects(v)
    BY <1>2, <1>3 DEF Respects, EntryExecuted
  <1> QED
    BY <1>1, <1>5, <1>6, <1>7, <1>8 DEF Tables

(* An order reaching the exchange (_submit) keeps the tables: it was      *)
(* unknown there, so no position stands on it, and it belongs to the      *)
(* worker that submits it.  Its row may be written as rejected all the    *)
(* same.                                                                  *)
LEMMA OrderTaken ==
  ASSUME IInv, NEW w \in Workers, At(w, "place"),
         NEW st \in {"open", "filled", "expired"}, NEW n \in Nat, st = "filled" => n > 0,
         ex' = [ex EXCEPT ![Order(w)] = st], done' = [done EXCEPT ![Order(w)] = n],
         UNCHANGED <<sig, pos>>, row' \in {row, [row EXCEPT ![Order(w)] = "rejected"]}
  PROVE  /\ ex' \in [Orders -> ExStatus] /\ done' \in [Orders -> Nat]
         /\ Tables' /\ \A v \in Workers : v # w => Respects(v)
  <1> DEFINE o == Order(w)
  <1>1. /\ o \in Orders /\ o = <<run[w].cur, run[w].at>> /\ o[1] = run[w].cur /\ run[w].cur \in Signals
        /\ o[2] = run[w].at
        /\ ex \in [Orders -> ExStatus] /\ st \in ExStatus /\ done \in [Orders -> Nat]
    BY SmallTypes DEF IInv, TypeOK, account, ExStatus
  <1>2. /\ ex[o] = "none" /\ done[o] = 0 /\ Owner[o[1]] = w
        /\ run[w].at = "entry" => sig[run[w].cur] # "none"
        /\ o[2] # "entry" => pos[o[1]] # "none"
    BY <1>1 DEF IInv, ExchangeFacts, RunFacts, SignalFacts, OrderFacts, At, OwnSteps
  <1>0. \A p \in Orders : row'[p] = row[p] \/ (p = o /\ row'[p] = "rejected")
    BY <1>1 DEF IInv, TypeOK
  <1> HIDE DEF o
  <1>3. \A p \in Orders : /\ ex'[p] = IF p = o THEN st ELSE ex[p]
                          /\ done'[p] = IF p = o THEN n ELSE done[p]
    BY <1>1 DEF o
  <1>4. \A s \in Signals : <<s, "entry">> \in Orders
    BY OrderParts DEF Purposes
  <1>5. LedgerIsReal'
    BY <1>0, <1>2, <1>3, <1>4 DEF IInv, LedgerIsReal
  <1>6. EntryIsFinal'
    BY <1>2, <1>3, <1>4 DEF IInv, EntryIsFinal, LedgerIsReal
  <1>7. ExchangeFacts'
    <2>1. \A s \in Signals : o = <<s, "entry">> => sig[s] # "none"
      BY <1>1, <1>2
    <2> QED
      BY <1>1, <1>3, <1>4, <2>1 DEF IInv, ExchangeFacts
  <1>8. \A v \in Workers : v # w => Respects(v)
    BY <1>2, <1>3 DEF Respects, EntryExecuted
  <1>9. ex' \in [Orders -> ExStatus] /\ done' \in [Orders -> Nat]
    BY <1>1
  <1> QED
    BY <1>5, <1>6, <1>7, <1>8, <1>9 DEF Tables

(* The balance only ever has the results of signals.                      *)
LEMMA RealiseType ==
  ASSUME TypeOK, Realise
  PROVE  wallet' \in SUBSET Signals
  BY DEF TypeOK, Realise

(* The exchange taking an order as LIMIT, STOP or MARKET is a case of     *)
(* OrderTaken.                                                            *)
LEMMA TakeOrderWrite ==
  ASSUME IInv, NEW w \in Workers, At(w, "place"), Placeable(Order(w)), TakeOrder(Order(w)),
         UNCHANGED <<sig, pos>>, row' \in {row, [row EXCEPT ![Order(w)] = "rejected"]}
  PROVE  /\ ex' \in [Orders -> ExStatus] /\ done' \in [Orders -> Nat] /\ amount' \in Nat
         /\ wallet' \in SUBSET Signals
         /\ Tables' /\ \A v \in Workers : v # w => Respects(v)
  <1>1. TypeOK /\ amount \in Nat /\ wallet \in SUBSET Signals
    BY DEF IInv, TypeOK
  <1>2. CASE Order(w)[2] = "close"
    <2>1. /\ ex' = [ex EXCEPT ![Order(w)] = "filled"]
          /\ done' = [done EXCEPT ![Order(w)] = amount] /\ amount' = 0 /\ Realise
      BY <1>2 DEF TakeOrder
    <2>2. amount > 0
      BY <1>1, <1>2 DEF Placeable
    <2> QED
      BY <1>1, <2>1, <2>2, OrderTaken, RealiseType
  <1>3. CASE Order(w)[2] # "close"
    <2>1. /\ ex' = [ex EXCEPT ![Order(w)] = "open"]
          /\ done' = [done EXCEPT ![Order(w)] = 0] /\ amount' = amount /\ wallet' = wallet
      BY <1>3 DEF TakeOrder
    <2> QED
      BY <1>1, <2>1, OrderTaken
  <1> QED
    BY <1>2, <1>3

(* Signals and positions that exist go on existing.                       *)
Grow == /\ \A s \in Signals : sig[s] # "none" => sig'[s] # "none"
        /\ \A s \in Signals : pos[s] # "none" => pos'[s] # "none"

--------------------------------------------------------------------------------
(* The ways in which a run goes on with its signal, or leaves it.         *)

(* A run that leaves its signal keeps its facts about the signals left.   *)
LEMMA ReturnStep ==
  ASSUME IInv, NEW w \in Workers, run[w].pc \in WithSignal, Grow,
         run' = [run EXCEPT ![w] = Return(run[w])]
  PROVE  run' \in [Workers -> RunType] /\ Others(w) /\ RunFacts(w)'
  <1>1. run[w] \in RunType /\ Return(run[w]) \in RunType
    BY ReturnType DEF IInv, TypeOK, account
  <1>2. run' \in [Workers -> RunType] /\ Others(w) /\ run'[w] = Return(run[w])
    BY <1>1, StepRun DEF IInv
  <1>3. /\ run'[w].pc = run[w].back /\ run'[w].back = run[w].back /\ run'[w].todo = run[w].todo
        /\ run'[w].list = {}
    BY <1>1, <1>2, ReturnFields
  <1>4. run[w].back \in {"loop", "recon_close", "new"} /\ run[w].todo \in SUBSET Signals
    BY <1>1 DEF RunType
  <1>5. TodoFacts(w)'
    BY <1>3, <1>4 DEF IInv, RunFacts, TodoFacts, At, WithSignal, Grow
  <1>6. SignalFacts(w)' /\ OrderFacts(w)'
    BY <1>3, <1>4 DEF SignalFacts, OrderFacts, At, OwnSteps
  <1> QED
    BY <1>2, <1>5, <1>6 DEF RunFacts

(* A run that takes up the _sync of an exit order of its own signal,      *)
(* which has a position, keeps its facts.                                 *)
LEMMA SyncNextStep ==
  ASSUME IInv, NEW w \in Workers, NEW p \in Purposes, run[w].pc \in WithSignal, Grow,
         run' = [run EXCEPT ![w] = SyncNext(run[w], p)],
         Owner[run[w].cur] = w, p # "entry", pos[run[w].cur] # "none"
  PROVE  run' \in [Workers -> RunType] /\ Others(w) /\ RunFacts(w)'
  <1>1. run[w] \in RunType /\ SyncNext(run[w], p) \in RunType
    BY SyncNextType DEF IInv, TypeOK, account
  <1>2. run' \in [Workers -> RunType] /\ Others(w) /\ run'[w] = SyncNext(run[w], p)
    BY <1>1, StepRun DEF IInv
  <1>3. /\ run'[w].pc = "sync" /\ run'[w].at = p
        /\ run'[w].cur = run[w].cur /\ run'[w].list = run[w].list
        /\ run'[w].back = run[w].back /\ run'[w].todo = run[w].todo
    BY <1>1, <1>2, SyncNextFields
  <1>4. /\ run[w].cur \in Signals /\ run[w].todo \in SUBSET Signals
        /\ \A o \in run[w].list : o[1] \in Signals
    BY OrderShape, SmallTypes DEF IInv
  <1>5. TodoFacts(w)'
    BY <1>3, <1>4 DEF IInv, RunFacts, TodoFacts, At, WithSignal, Grow
  <1>6. SignalFacts(w)'
    BY <1>3, <1>4 DEF SignalFacts, At, Grow
  <1>7. OrderFacts(w)'
    BY <1>3, <1>4 DEF IInv, RunFacts, OrderFacts, At, Grow, WithSignal
  <1> QED
    BY <1>2, <1>5, <1>6, <1>7 DEF RunFacts

(* So does one that goes on to the check of an expired setup.             *)
LEMMA ToExpiry ==
  ASSUME IInv, NEW w \in Workers, run[w].pc \in WithSignal, Grow,
         run' = [run EXCEPT ![w] = [run[w] EXCEPT !.pc = "expiry"]],
         Owner[run[w].cur] = w, pos[run[w].cur] # "none"
  PROVE  run' \in [Workers -> RunType] /\ Others(w) /\ RunFacts(w)'
  <1>1. run[w] \in RunType /\ [run[w] EXCEPT !.pc = "expiry"] \in RunType
    BY DEF IInv, TypeOK, account, RunType, PcLabels
  <1>2. run' \in [Workers -> RunType] /\ Others(w) /\ run'[w] = [run[w] EXCEPT !.pc = "expiry"]
    BY <1>1, StepRun DEF IInv
  <1>3. /\ run'[w].pc = "expiry"
        /\ run'[w].cur = run[w].cur /\ run'[w].list = run[w].list
        /\ run'[w].back = run[w].back /\ run'[w].todo = run[w].todo
    BY <1>1, <1>2 DEF RunType
  <1>4. /\ run[w].cur \in Signals /\ run[w].todo \in SUBSET Signals
        /\ \A o \in run[w].list : o[1] \in Signals
    BY OrderShape, SmallTypes DEF IInv
  <1>5. TodoFacts(w)'
    BY <1>3, <1>4 DEF IInv, RunFacts, TodoFacts, At, WithSignal, Grow
  <1>6. SignalFacts(w)'
    BY <1>3, <1>4 DEF SignalFacts, At, Grow
  <1>7. OrderFacts(w)'
    BY <1>3, <1>4 DEF IInv, RunFacts, OrderFacts, At, Grow, WithSignal
  <1> QED
    BY <1>2, <1>5, <1>6, <1>7 DEF RunFacts

(* Leaving an order as it is (still open, or its submission unanswered)   *)
(* keeps the facts, whatever the order's purpose.                         *)
LEMMA OnwardStep ==
  ASSUME IInv, NEW w \in Workers, run[w].pc \in {"place", "known", "gone"}, Grow,
         run' = [run EXCEPT ![w] = Onward(w)]
  PROVE  run' \in [Workers -> RunType] /\ Others(w) /\ RunFacts(w)'
  <1>1. /\ run[w].pc \in WithSignal /\ Owner[run[w].cur] = w
        /\ run[w].at # "entry" => pos[run[w].cur] # "none"
    BY DEF IInv, RunFacts, SignalFacts, OwnSteps, WithSignal, PcLabels
  <1>2. CASE run[w].at \in {"entry", "close"}
    <2>1. Onward(w) = Return(run[w])
      BY <1>2 DEF Onward
    <2> QED
      BY <1>1, <2>1, ReturnStep
  <1>3. CASE run[w].at \notin {"entry", "close"}
    <2>1. Onward(w) \in {SyncNext(run[w], "take_profit"), [run[w] EXCEPT !.pc = "expiry"]}
      BY <1>3 DEF Onward
    <2>2. CASE Onward(w) = SyncNext(run[w], "take_profit")
      BY <1>1, <1>3, <2>2, SyncNextStep DEF Purposes
    <2>3. CASE Onward(w) = [run[w] EXCEPT !.pc = "expiry"]
      BY <1>1, <1>3, <2>3, ToExpiry
    <2> QED
      BY <2>1, <2>2, <2>3
  <1> QED
    BY <1>2, <1>3

(* update_entered either leaves a signal without an open position, or     *)
(* reads its open SL and TP rows and goes on with one of them or with the *)
(* expiry check.                                                          *)
LEMMA BeginProtectFields ==
  ASSUME NEW r \in RunType, NEW s \in Signals
  PROVE  LET q == BeginProtect(r, s) IN
         /\ q \in RunType /\ q.back = r.back /\ q.todo = r.todo
         /\ \/ q.pc = r.back /\ q.list = {}
            \/ /\ q.pc = "sync" \/ q.pc = "expiry"
               /\ q.pc = "sync" => q.at # "entry"
               /\ q.cur = s /\ pos[s] = "open" /\ q.list = OpenProtective(s)
  <1> DEFINE rows == OpenProtective(s)
             r1 == [r EXCEPT !.cur = s, !.list = rows, !.after = "exit"]
             q == BeginProtect(r, s)
  <1>1. CASE pos[s] # "open"
    <2>1. q = Return(r)
      BY <1>1 DEF BeginProtect
    <2> QED
      BY <2>1, ReturnType, ReturnFields
  <1>2. CASE pos[s] = "open"
    <2>1. rows \in SUBSET Orders
      BY DEF OpenProtective, Protective, Orders, Purposes
    <2>2. /\ r1 \in RunType /\ r1.cur = s /\ r1.list = rows
          /\ r1.back = r.back /\ r1.todo = r.todo
      BY <2>1 DEF RunType
    <2> HIDE DEF rows, r1
    <2>3. \/ q = SyncNext(r1, "stop_loss") \/ q = SyncNext(r1, "take_profit")
          \/ q = [r1 EXCEPT !.pc = "expiry"]
      BY <1>2 DEF BeginProtect, rows, r1
    <2>4. ASSUME NEW p \in Purposes, p # "entry", q = SyncNext(r1, p)
          PROVE  /\ q \in RunType /\ q.back = r.back /\ q.todo = r.todo
                 /\ q.pc = "sync" /\ q.at # "entry" /\ q.cur = s /\ q.list = rows
      BY <2>2, <2>4, SyncNextType, SyncNextFields
    <2>5. ASSUME q = [r1 EXCEPT !.pc = "expiry"]
          PROVE  /\ q \in RunType /\ q.back = r.back /\ q.todo = r.todo
                 /\ q.pc = "expiry" /\ q.cur = s /\ q.list = rows
      BY <2>2, <2>5 DEF RunType, PcLabels
    <2> QED
      BY <1>2, <2>3, <2>4, <2>5 DEF rows, Purposes
  <1> QED
    BY <1>1, <1>2

(* The first step of update_entered establishes the facts of its run,     *)
(* from the loop or after _entered.                                       *)
LEMMA BeginProtectStep ==
  ASSUME IInv, NEW w \in Workers, NEW r \in RunType, NEW s \in Signals, Owner[s] = w,
         r.back = "loop" => \A t \in r.todo : Owner[t] = w,
         r.back = "recon_close" => \A t \in r.todo : pos[t] # "none",
         UNCHANGED <<sig, pos, ex, done>>,
         run' = [run EXCEPT ![w] = BeginProtect(r, s)]
  PROVE  run' \in [Workers -> RunType] /\ Others(w) /\ RunFacts(w)'
  <1> DEFINE q == BeginProtect(r, s)
  <1>1. /\ q \in RunType /\ q.back = r.back /\ q.todo = r.todo
        /\ \/ q.pc = r.back /\ q.list = {}
           \/ /\ q.pc = "sync" \/ q.pc = "expiry"
              /\ q.pc = "sync" => q.at # "entry"
              /\ q.cur = s /\ pos[s] = "open" /\ q.list = OpenProtective(s)
    BY BeginProtectFields
  <1> HIDE DEF q
  <1>2. run' \in [Workers -> RunType] /\ Others(w) /\ run'[w] = q
    BY <1>1, StepRun DEF IInv, q
  <1>3. r.back \in {"loop", "recon_close", "new"}
    BY DEF RunType
  <1>4. \A o \in OpenProtective(s) : o[1] = s
    BY DEF OpenProtective, Protective
  <1>5. TodoFacts(w)'
    BY <1>1, <1>2, <1>3 DEF TodoFacts, At, WithSignal
  <1>6. SignalFacts(w)'
    BY <1>1, <1>2, <1>3 DEF SignalFacts, At, OwnSteps
  <1>7. OrderFacts(w)'
    BY <1>1, <1>2, <1>3, <1>4 DEF OrderFacts, At
  <1> QED
    BY <1>2, <1>5, <1>6, <1>7 DEF RunFacts

(* Starting to cancel a list of orders that all have a position           *)
(* establishes the facts of the run (_exit_filled, _market_close,         *)
(* _close_external).                                                      *)
LEMMA CancelThenStep ==
  ASSUME IInv, NEW w \in Workers, NEW r \in RunType, NEW orders \in SUBSET Orders,
         NEW after \in {"exit", "amount", "finish"},
         run' = [run EXCEPT ![w] = CancelThen(r, orders, after)],
         UNCHANGED <<sig, pos, ex, done>>,
         r.back = "loop" => \A t \in r.todo : Owner[t] = w,
         r.back = "recon_close" => \A t \in r.todo : pos[t] # "none",
         after # "finish" => Owner[r.cur] = w,
         after = "exit" => r.at # "entry" /\ ex[<<r.cur, r.at>>] = "filled",
         pos[r.cur] # "none",
         \A o \in orders : pos[o[1]] # "none"
  PROVE  run' \in [Workers -> RunType] /\ Others(w) /\ RunFacts(w)'
  <1> DEFINE q == CancelThen(r, orders, after)
  <1>1. /\ q \in RunType
        /\ q.pc = "cancel" /\ q.list = orders /\ q.after = after
        /\ q.cur = r.cur /\ q.at = r.at /\ q.back = r.back /\ q.todo = r.todo
    BY CancelThenFields
  <1> HIDE DEF q
  <1>2. run' \in [Workers -> RunType] /\ Others(w) /\ run'[w] = q
    BY <1>1, StepRun DEF IInv, q
  <1>3. TodoFacts(w)'
    BY <1>1, <1>2 DEF TodoFacts, At
  <1>4. SignalFacts(w)'
    BY <1>1, <1>2 DEF SignalFacts, At, OwnSteps
  <1>5. OrderFacts(w)'
    BY <1>1, <1>2 DEF OrderFacts, At, Order
  <1> QED
    BY <1>2, <1>3, <1>4, <1>5 DEF RunFacts

(* A step that changes only its own run keeps the types of everything     *)
(* else.                                                                  *)
LEMMA SameTables ==
  ASSUME TypeOK, UNCHANGED <<db, setup, exchange, budget>>, run' \in [Workers -> RunType]
  PROVE  TypeOK'
  BY DEF TypeOK, db, account, exchange

--------------------------------------------------------------------------------
(* Every action of a run keeps the invariant.                             *)

(* _sync keeps the invariant: an order it will submit is unknown to the   *)
(* exchange and stays so until then, since only the owner submits it.     *)
LEMMA SyncStep ==
  ASSUME IInv, NEW w \in Workers, Sync(w)
  PROVE  IInv'
  <1>1. TypeOK /\ RunFacts(w)
    BY DEF IInv
  <1>2. CASE SyncKnown(w)
    <2>1. Goto(w, "known") /\ "known" \in PcLabels /\ UNCHANGED <<sig, row, pos, ex, done>>
      BY <1>2 DEF SyncKnown, PcLabels, db, account, exchange
    <2>2. run' \in [Workers -> RunType] /\ Others(w)
      BY <1>1, <2>1, GotoFields
    <2>3. TypeOK'
      BY <1>1, <1>2, <2>2, SmallTypes DEF SyncKnown, TypeOK, db, account, exchange
    <2>4. RunFacts(w)'
      BY <1>1, <1>2, <2>1, GotoFields, SmallTypes
      DEF SyncKnown, TodoFacts, SignalFacts, OrderFacts, RunFacts, At, Order, WithSignal,
          OwnSteps, PcLabels, EntryExecuted
    <2> QED
      BY <2>1, <2>2, <2>3, <2>4, QuietStep
  <1>3. CASE SyncMissing(w)
    <2>1. Goto(w, "gone") /\ "gone" \in PcLabels
      BY <1>3 DEF SyncMissing, PcLabels
    <2>2. run' \in [Workers -> RunType] /\ Others(w)
      BY <1>1, <2>1, GotoFields
    <2>3. /\ Order(w) \in Orders /\ "cancelled" \in RowStatus
          /\ "cancelled" = "filled" => done[Order(w)] > 0
          /\ Order(w)[2] # "entry" => pos[Order(w)[1]] # "none"
      BY <1>1, <1>3, SmallTypes
      DEF SyncMissing, RowStatus, RunFacts, SignalFacts, OrderFacts, At, Order, ClosedEx,
          OpenEx, EntryExecuted, IInv, ExchangeFacts, TypeOK, ExStatus
    <2>4. Tables' /\ \A v \in Workers : Respects(v)
      BY <1>3, <2>3, RowWrite DEF SyncMissing, account, exchange
    <2>5. TypeOK'
      BY <1>1, <1>3, <2>2, <2>3, <2>4, SmallTypes DEF SyncMissing, TypeOK, db, account, exchange
    <2>6. RunFacts(w)'
      BY <1>1, <1>3, <2>1, <2>3, GotoFields, SmallTypes, OrderParts
      DEF SyncMissing, TodoFacts, SignalFacts, OrderFacts, RunFacts, At, Order, WithSignal,
          OwnSteps, PcLabels, TypeOK, db, account, exchange
    <2> QED
      BY <2>2, <2>4, <2>5, <2>6, StepKeeps
  <1>4. CASE SyncResubmits(w)
    <2>1. Goto(w, "place") /\ "place" \in PcLabels /\ UNCHANGED <<sig, row, pos, ex, done>>
      BY <1>4 DEF SyncResubmits, PcLabels, db, account, exchange
    <2>2. run' \in [Workers -> RunType] /\ Others(w)
      BY <1>1, <2>1, GotoFields
    <2>3. TypeOK'
      BY <1>1, <1>4, <2>2, SmallTypes DEF SyncResubmits, TypeOK, db, account, exchange
    <2>4. RunFacts(w)'
      BY <1>1, <1>4, <2>1, GotoFields, SmallTypes
      DEF SyncResubmits, TodoFacts, SignalFacts, OrderFacts, RunFacts, At, Order,
          WithSignal, OwnSteps, PcLabels, EntryExecuted
    <2> QED
      BY <2>1, <2>2, <2>3, <2>4, QuietStep
  <1> QED
    BY <1>2, <1>3, <1>4 DEF Sync

(* _submit keeps the invariant, whether it is accepted, refused, expired, *)
(* left without an answer or refused without saying what became of it.    *)
LEMMA PlaceStep ==
  ASSUME IInv, NEW w \in Workers, Place(w) \/ CloseExpires(w) \/ PlaceUnanswered(w) \/ PlaceUnclear(w)
  PROVE  IInv'
  <1>1. TypeOK /\ RunFacts(w)
    BY DEF IInv
  <1>2. ASSUME At(w, "place") PROVE run[w].pc \in WithSignal
    BY <1>2 DEF At, WithSignal, PcLabels
  <1>3. CASE PlaceAccepted(w)
    <2>1. /\ ex' \in [Orders -> ExStatus] /\ done' \in [Orders -> Nat] /\ amount' \in Nat
          /\ wallet' \in SUBSET Signals
          /\ Tables' /\ \A v \in Workers : v # w => Respects(v)
      BY <1>3, TakeOrderWrite DEF PlaceAccepted
    <2>2. CASE run[w].back = "new"
      <3>1. run' \in [Workers -> RunType] /\ Others(w) /\ RunFacts(w)'
        BY <1>2, <1>3, <2>2, ReturnStep DEF PlaceAccepted, Grow
      <3>2. TypeOK'
        BY <1>1, <1>3, <2>1, <3>1, SmallTypes DEF PlaceAccepted, TypeOK, account
      <3> QED
        BY <2>1, <3>1, <3>2, StepKeeps
    <2>3. CASE run[w].back # "new"
      <3>1. Goto(w, "known") /\ "known" \in PcLabels
        BY <1>3, <2>3 DEF PlaceAccepted, Goto, PcLabels
      <3>2. run' \in [Workers -> RunType] /\ Others(w)
        BY <1>1, <3>1, GotoFields
      <3>3. RunFacts(w)'
        BY <1>1, <1>3, <3>1, GotoFields, SmallTypes
        DEF PlaceAccepted, TodoFacts, SignalFacts, OrderFacts, RunFacts, At, Order,
            WithSignal, OwnSteps, PcLabels
      <3>4. TypeOK'
        BY <1>1, <1>3, <2>1, <3>2, SmallTypes DEF PlaceAccepted, TypeOK, account
      <3> QED
        BY <2>1, <3>2, <3>3, <3>4, StepKeeps
    <2> QED
      BY <2>2, <2>3
  <1>4. CASE PlaceRejected(w)
    <2>1. Goto(w, "gone") /\ "gone" \in PcLabels
      BY <1>4 DEF PlaceRejected, PcLabels
    <2>2. run' \in [Workers -> RunType] /\ Others(w)
      BY <1>1, <2>1, GotoFields
    <2>3. /\ Order(w) \in Orders /\ "rejected" \in RowStatus
          /\ "rejected" = "filled" => done[Order(w)] > 0
          /\ Order(w)[2] # "entry" => pos[Order(w)[1]] # "none"
      BY <1>1, <1>4, SmallTypes
      DEF PlaceRejected, RowStatus, RunFacts, SignalFacts, OrderFacts, At, Order, ClosedEx,
          OpenEx, EntryExecuted, IInv, ExchangeFacts, TypeOK, ExStatus
    <2>4. Tables' /\ \A v \in Workers : Respects(v)
      BY <1>4, <2>3, RowWrite DEF PlaceRejected, account, exchange
    <2>5. budget' \in 0..MaxFaults
      BY <1>1, <1>4, ConstantsAssumption DEF PlaceRejected, TypeOK, account, Fault
    <2>6. TypeOK'
      BY <1>1, <1>4, <2>2, <2>3, <2>5 DEF PlaceRejected, TypeOK, db, account, exchange
    <2>7. RunFacts(w)'
      BY <1>1, <1>4, <2>1, GotoFields, SmallTypes
      DEF PlaceRejected, TodoFacts, SignalFacts, OrderFacts, RunFacts, At, Order,
          WithSignal, OwnSteps, PcLabels
    <2> QED
      BY <2>2, <2>4, <2>6, <2>7, StepKeeps
  <1>5. CASE CloseExpires(w)
    <2>1. Goto(w, "known") /\ "known" \in PcLabels
      BY <1>5 DEF CloseExpires, PcLabels
    <2>2. run' \in [Workers -> RunType] /\ Others(w)
      BY <1>1, <2>1, GotoFields
    <2>3. done' = [done EXCEPT ![Order(w)] = done[Order(w)]] /\ done[Order(w)] \in Nat
      BY <1>1, <1>5, SmallTypes DEF CloseExpires, TypeOK, account
    <2>4. /\ ex' \in [Orders -> ExStatus] /\ Tables'
          /\ \A v \in Workers : v # w => Respects(v)
      BY <1>5, <2>3, OrderTaken DEF CloseExpires
    <2>5. budget' \in 0..MaxFaults
      BY <1>1, <1>5, ConstantsAssumption DEF CloseExpires, TypeOK, account, Fault
    <2>6. TypeOK'
      BY <1>1, <1>5, <2>2, <2>4, <2>5, SmallTypes DEF CloseExpires, TypeOK, account
    <2>7. RunFacts(w)'
      BY <1>1, <1>5, <2>1, GotoFields, SmallTypes
      DEF CloseExpires, TodoFacts, SignalFacts, OrderFacts, RunFacts, At, Order, WithSignal,
          OwnSteps, PcLabels
    <2> QED
      BY <2>2, <2>4, <2>6, <2>7, StepKeeps
  <1>6. CASE PlaceUnanswered(w)
    <2>1. run' \in [Workers -> RunType] /\ Others(w) /\ RunFacts(w)'
      BY <1>6, OnwardStep DEF PlaceUnanswered, At, Grow, db, account
    <2>2. budget' \in 0..MaxFaults
      BY <1>1, <1>6, ConstantsAssumption DEF PlaceUnanswered, TypeOK, account, Fault
    <2>3. CASE UNCHANGED exchange
      <3>1. TypeOK'
        BY <1>1, <1>6, <2>1, <2>2, <2>3 DEF PlaceUnanswered, TypeOK, db, account, exchange
      <3> QED
        BY <1>6, <2>1, <2>3, <3>1, QuietStep DEF PlaceUnanswered, db, account, exchange
    <2>4. CASE Placeable(Order(w)) /\ TakeOrder(Order(w))
      <3>1. /\ ex' \in [Orders -> ExStatus] /\ done' \in [Orders -> Nat] /\ amount' \in Nat
            /\ wallet' \in SUBSET Signals
            /\ Tables' /\ \A v \in Workers : v # w => Respects(v)
        BY <1>6, <2>4, TakeOrderWrite DEF PlaceUnanswered, db, account
      <3>2. TypeOK'
        BY <1>1, <1>6, <2>1, <2>2, <3>1 DEF PlaceUnanswered, TypeOK, db, account
      <3> QED
        BY <2>1, <3>1, <3>2, StepKeeps
    <2> QED
      BY <1>6, <2>3, <2>4 DEF PlaceUnanswered
  <1>7. CASE PlaceUnclear(w)
    <2>1. Goto(w, "gone") /\ "gone" \in PcLabels
      BY <1>7 DEF PlaceUnclear, PcLabels
    <2>2. run' \in [Workers -> RunType] /\ Others(w)
      BY <1>1, <2>1, GotoFields
    <2>3. /\ ex' \in [Orders -> ExStatus] /\ done' \in [Orders -> Nat] /\ amount' \in Nat
          /\ wallet' \in SUBSET Signals /\ Tables /\ UNCHANGED <<sig, pos>>
      BY <1>7, TakeOrderWrite DEF PlaceUnclear, IInv, Tables
    <2>4. Tables' /\ \A v \in Workers : v # w => Respects(v)
      BY <1>7, TakeOrderWrite DEF PlaceUnclear
    <2>5. budget' \in 0..MaxFaults
      BY <1>1, <1>7, ConstantsAssumption DEF PlaceUnclear, TypeOK, Fault
    <2>6. TypeOK'
      BY <1>1, <1>7, <2>2, <2>3, <2>5, SmallTypes DEF PlaceUnclear, TypeOK, account, RowStatus
    <2>7. RunFacts(w)'
      BY <1>1, <1>7, <2>1, <2>3, GotoFields, SmallTypes
      DEF PlaceUnclear, TodoFacts, SignalFacts, OrderFacts, RunFacts, At, Order,
          WithSignal, OwnSteps, PcLabels
    <2> QED
      BY <2>2, <2>4, <2>6, <2>7, StepKeeps
  <1> QED
    BY <1>3, <1>4, <1>5, <1>6, <1>7 DEF Place

(* update_armed keeps the invariant: it goes on to _entered only with an  *)
(* entry that was executed and is closed.                                 *)
LEMMA ArmedStep ==
  ASSUME IInv, NEW w \in Workers, Armed(w)
  PROVE  IInv'
  <1>1. TypeOK /\ RunFacts(w)
    BY DEF IInv
  <1>2. CASE UpdateArmed(w)
    <2>1. PICK s \in run[w].todo :
            /\ sig[s] = "armed"
            /\ LET r == [run[w] EXCEPT !.todo = @ \ {s}, !.cur = s]
               IN  run' = [run EXCEPT ![w] =
                             IF row[<<s, "entry">>] = "open" THEN SyncNext(r, "entry") ELSE Return(r)]
      BY <1>2 DEF UpdateArmed
    <2> DEFINE r == [run[w] EXCEPT !.todo = @ \ {s}, !.cur = s]
    <2>2. /\ s \in Signals /\ r \in RunType /\ r.cur = s /\ r.todo = run[w].todo \ {s}
          /\ r.back = run[w].back /\ r.list = run[w].list
      BY <1>1, SmallTypes DEF RunType
    <2>3. /\ run[w].back = "loop" /\ \A t \in run[w].todo : Owner[t] = w
          /\ \A x \in run[w].list : pos[x[1]] # "none"
      BY <1>1, <1>2 DEF UpdateArmed, RunFacts, TodoFacts, OrderFacts, At
    <2>4. run' = [run EXCEPT ![w] =
                     IF row[<<s, "entry">>] = "open" THEN SyncNext(r, "entry") ELSE Return(r)]
      BY <2>1
    <2> HIDE DEF r
    <2>5. PICK q \in RunType :
            /\ run' = [run EXCEPT ![w] = q]
            /\ q.back = "loop" /\ q.todo = r.todo
            /\ \/ q.pc = "sync" /\ q.at = "entry" /\ q.cur = s /\ q.list = run[w].list
               \/ q.pc = "loop" /\ q.list = {}
      <3>1. CASE row[<<s, "entry">>] = "open"
        <4> DEFINE q == SyncNext(r, "entry")
        <4>1. /\ q \in RunType /\ q.pc = "sync" /\ q.at = "entry" /\ q.cur = r.cur
              /\ q.list = r.list /\ q.back = r.back /\ q.todo = r.todo
          BY <2>2, SyncNextType, SyncNextFields DEF Purposes
        <4>2. run' = [run EXCEPT ![w] = q]
          BY <2>4, <3>1
        <4> HIDE DEF q
        <4> QED
          BY <2>2, <2>3, <4>1, <4>2
      <3>2. CASE row[<<s, "entry">>] # "open"
        BY <2>2, <2>3, <2>4, <3>2, ReturnType, ReturnFields
      <3> QED
        BY <3>1, <3>2
    <2>6. run' \in [Workers -> RunType] /\ Others(w) /\ run'[w] = q
      BY <1>1, <2>5, StepRun
    <2>7. TodoFacts(w)'
      BY <2>2, <2>3, <2>5, <2>6 DEF TodoFacts, At
    <2>8. SignalFacts(w)'
      BY <1>2, <2>1, <2>3, <2>5, <2>6 DEF UpdateArmed, SignalFacts, At, db, account, OwnSteps
    <2>9. OrderFacts(w)'
      BY <1>2, <2>3, <2>5, <2>6 DEF UpdateArmed, OrderFacts, At, db, account
    <2>10. TypeOK'
      BY <1>1, <1>2, <2>6, SameTables DEF UpdateArmed
    <2> QED
      BY <1>2, <2>6, <2>7, <2>8, <2>9, <2>10, QuietStep
      DEF UpdateArmed, RunFacts, db, account, exchange
  <1>3. CASE CancelDeadEntry(w)
    <2>1. Order(w) \in Orders /\ "cancelled" \in ClosedEx
      BY <1>1, SmallTypes DEF ClosedEx
    <2>2. ex' \in [Orders -> ExStatus] /\ Tables' /\ \A v \in Workers : Respects(v)
      BY <1>3, <2>1, OrderEnds DEF CancelDeadEntry, db, account
    <2>3. TypeOK'
      BY <1>1, <1>3, <2>2 DEF CancelDeadEntry, TypeOK, db, account
    <2> QED
      BY <1>3, <2>2, <2>3, OutsideStep DEF CancelDeadEntry
  <1>4. CASE EntryWaits(w)
    <2>1. run' \in [Workers -> RunType] /\ Others(w) /\ RunFacts(w)'
      BY <1>4, ReturnStep DEF EntryWaits, At, WithSignal, PcLabels, Grow, db, account
    <2>2. TypeOK'
      BY <1>1, <1>4, <2>1, SameTables DEF EntryWaits
    <2> QED
      BY <1>4, <2>1, <2>2, QuietStep DEF EntryWaits, db, account, exchange
  <1>5. CASE EntryFilled(w)
    <2>1. Goto(w, "open_position") /\ "open_position" \in PcLabels /\ UNCHANGED <<sig, row, pos, ex, done>>
      BY <1>5 DEF EntryFilled, PcLabels, db, account, exchange
    <2>2. run' \in [Workers -> RunType] /\ Others(w)
      BY <1>1, <2>1, GotoFields
    <2>3. TypeOK'
      BY <1>1, <1>5, <2>2, SmallTypes DEF EntryFilled, TypeOK, db, account, exchange
    <2>4. RunFacts(w)'
      BY <1>1, <1>5, <2>1, GotoFields, SmallTypes
      DEF EntryFilled, TodoFacts, SignalFacts, OrderFacts, RunFacts, At, Order, WithSignal,
          OwnSteps, PcLabels, EntryExecuted
    <2> QED
      BY <2>1, <2>2, <2>3, <2>4, QuietStep
  <1>6. CASE EntryClosed(w)
    <2>1. Goto(w, "gone") /\ "gone" \in PcLabels
      BY <1>6 DEF EntryClosed, PcLabels
    <2>2. run' \in [Workers -> RunType] /\ Others(w)
      BY <1>1, <2>1, GotoFields
    <2>3. /\ Order(w) \in Orders /\ ex[Order(w)] \in RowStatus
          /\ ex[Order(w)] = "filled" => done[Order(w)] > 0
          /\ Order(w)[2] # "entry" => pos[Order(w)[1]] # "none"
      BY <1>1, <1>6, SmallTypes
      DEF EntryClosed, RowStatus, RunFacts, SignalFacts, OrderFacts, At, Order, ClosedEx,
          OpenEx, EntryExecuted, IInv, ExchangeFacts, TypeOK, ExStatus
    <2>4. Tables' /\ \A v \in Workers : Respects(v)
      BY <1>6, <2>3, RowWrite DEF EntryClosed, account, exchange
    <2>5. TypeOK'
      BY <1>1, <1>6, <2>2, <2>3, <2>4, SmallTypes DEF EntryClosed, TypeOK, db, account, exchange
    <2>6. RunFacts(w)'
      BY <1>1, <1>6, <2>1, <2>3, GotoFields, SmallTypes, OrderParts
      DEF EntryClosed, TodoFacts, SignalFacts, OrderFacts, RunFacts, At, Order, WithSignal,
          OwnSteps, PcLabels, TypeOK, db, account, exchange
    <2> QED
      BY <2>2, <2>4, <2>5, <2>6, StepKeeps
  <1>7. CASE CancelSignal(w)
    <2>1. run' \in [Workers -> RunType] /\ Others(w) /\ RunFacts(w)'
      <3>1. Grow
        BY <1>1, <1>7, SmallTypes DEF CancelSignal, Grow, TypeOK, account
      <3> QED
        BY <1>7, <3>1, ReturnStep DEF CancelSignal, At, WithSignal, PcLabels
    <2>2. run[w].cur \in Signals /\ "cancelled" \in SignalStatus \ {"none"}
      BY <1>1, <1>7, SmallTypes DEF SignalStatus
    <2>3. Tables' /\ \A v \in Workers : Respects(v)
      BY <1>7, <2>2, SigWrite DEF CancelSignal, account, exchange
    <2>4. TypeOK'
      BY <1>1, <1>7, <2>1, <2>2 DEF CancelSignal, TypeOK, account, exchange
    <2> QED
      BY <2>1, <2>3, <2>4, StepKeeps
  <1> QED
    BY <1>2, <1>3, <1>4, <1>5, <1>6, <1>7 DEF Armed

(* _entered keeps the invariant: the position, then the entry row, the    *)
(* exit rows and the signal.                                              *)
LEMMA EnterStep ==
  ASSUME IInv, NEW w \in Workers, Enter(w)
  PROVE  IInv'
  <1>1. TypeOK /\ RunFacts(w)
    BY DEF IInv
  <1>2. CASE OpenPosition(w)
    <2>1. Goto(w, "fill_entry") /\ "fill_entry" \in PcLabels
      BY <1>2 DEF OpenPosition, PcLabels
    <2>2. run' \in [Workers -> RunType] /\ Others(w)
      BY <1>1, <2>1, GotoFields
    <2>3. /\ run[w].cur \in Signals /\ <<run[w].cur, "entry">> \in Orders
          /\ run[w].at = "entry" /\ EntryExecuted(<<run[w].cur, "entry">>)
      BY <1>1, <1>2, SmallTypes, OrderParts
      DEF OpenPosition, RunFacts, OrderFacts, At, Order, Purposes
    <2>4. CASE pos[run[w].cur] = "none"
      <3>1. pos' = [pos EXCEPT ![run[w].cur] = "open"]
        BY <1>2, <2>4 DEF OpenPosition
      <3>2. Tables' /\ \A v \in Workers : Respects(v)
        BY <1>2, <2>3, <3>1, PosWrite DEF OpenPosition, account, exchange
      <3>3. TypeOK'
        BY <1>1, <1>2, <2>2, <2>3, <2>4 DEF OpenPosition, TypeOK, account, exchange
      <3>4. pos'[run[w].cur] # "none" /\ \A s \in Signals : pos[s] # "none" => pos'[s] # "none"
        BY <1>1, <2>3, <3>1 DEF TypeOK, account
      <3>5. RunFacts(w)'
        BY <1>1, <1>2, <2>1, <2>3, <3>4, GotoFields, SmallTypes, OrderShape
        DEF OpenPosition, TodoFacts, SignalFacts, OrderFacts, RunFacts, At, Order, WithSignal,
            OwnSteps, PcLabels, EntryExecuted, account, exchange
      <3> QED
        BY <2>2, <3>2, <3>3, <3>5, StepKeeps
    <2>5. CASE pos[run[w].cur] # "none"
      <3>1. UNCHANGED <<db, setup, exchange, budget>>
        BY <1>2, <2>5 DEF OpenPosition, db, account
      <3>2. TypeOK'
        BY <1>1, <2>2, <3>1, SameTables
      <3>3. RunFacts(w)'
        BY <1>1, <1>2, <2>1, <2>3, <2>5, <3>1, GotoFields, SmallTypes
        DEF OpenPosition, TodoFacts, SignalFacts, OrderFacts, RunFacts, At, Order, WithSignal,
            OwnSteps, PcLabels, EntryExecuted, account, exchange, db
      <3> QED
        BY <2>2, <3>1, <3>2, <3>3, QuietStep DEF db, account, exchange
    <2> QED
      BY <2>4, <2>5
  <1>3. CASE FillEntryRow(w)
    <2>1. Goto(w, "sl_row") /\ "sl_row" \in PcLabels
      BY <1>3 DEF FillEntryRow, PcLabels
    <2>2. run' \in [Workers -> RunType] /\ Others(w)
      BY <1>1, <2>1, GotoFields
    <2>3. /\ Order(w) \in Orders /\ ex[Order(w)] \in RowStatus
          /\ ex[Order(w)] = "filled" => done[Order(w)] > 0
          /\ Order(w)[2] # "entry" => pos[Order(w)[1]] # "none"
      BY <1>1, <1>3, SmallTypes
      DEF FillEntryRow, RowStatus, RunFacts, SignalFacts, OrderFacts, At, Order, ClosedEx,
          OpenEx, EntryExecuted, IInv, ExchangeFacts, TypeOK, ExStatus
    <2>4. Tables' /\ \A v \in Workers : Respects(v)
      BY <1>3, <2>3, RowWrite DEF FillEntryRow, account, exchange
    <2>5. TypeOK'
      BY <1>1, <1>3, <2>2, <2>3, <2>4, SmallTypes DEF FillEntryRow, TypeOK, db, account, exchange
    <2>6. RunFacts(w)'
      BY <1>1, <1>3, <2>1, <2>3, GotoFields, SmallTypes, OrderParts
      DEF FillEntryRow, TodoFacts, SignalFacts, OrderFacts, RunFacts, At, Order, WithSignal,
          OwnSteps, PcLabels, TypeOK, db, account, exchange
    <2> QED
      BY <2>2, <2>4, <2>5, <2>6, StepKeeps
  <1>4. CASE CreateStopRow(w)
    <2>1. Goto(w, "tp_row") /\ "tp_row" \in PcLabels
      BY <1>4 DEF CreateStopRow, PcLabels
    <2>2. run' \in [Workers -> RunType] /\ Others(w)
      BY <1>1, <2>1, GotoFields
    <2>3. /\ <<run[w].cur, "stop_loss">> \in Orders /\ pos[run[w].cur] # "none"
          /\ <<run[w].cur, "stop_loss">>[1] = run[w].cur
      BY <1>1, <1>4, SmallTypes, OrderParts
      DEF CreateStopRow, RunFacts, SignalFacts, At, Purposes
    <2>4. row' \in [Orders -> RowStatus] /\ Tables' /\ \A v \in Workers : Respects(v)
      BY <1>4, <2>3, RowInsert DEF CreateStopRow, account, exchange
    <2>5. TypeOK'
      BY <1>1, <1>4, <2>2, <2>3, <2>4, SmallTypes DEF CreateStopRow, TypeOK, db, account, exchange
    <2>6. RunFacts(w)'
      BY <1>1, <1>4, <2>1, <2>3, GotoFields, SmallTypes, OrderParts
      DEF CreateStopRow, TodoFacts, SignalFacts, OrderFacts, RunFacts, At, Order,
          WithSignal, OwnSteps, PcLabels, TypeOK, db, account, exchange
    <2> QED
      BY <2>2, <2>4, <2>5, <2>6, StepKeeps
  <1>5. CASE CreateTakeProfitRow(w)
    <2>1. Goto(w, "mark_entered") /\ "mark_entered" \in PcLabels
      BY <1>5 DEF CreateTakeProfitRow, PcLabels
    <2>2. run' \in [Workers -> RunType] /\ Others(w)
      BY <1>1, <2>1, GotoFields
    <2>3. /\ <<run[w].cur, "take_profit">> \in Orders /\ pos[run[w].cur] # "none"
          /\ <<run[w].cur, "take_profit">>[1] = run[w].cur
      BY <1>1, <1>5, SmallTypes, OrderParts
      DEF CreateTakeProfitRow, RunFacts, SignalFacts, At, Purposes
    <2>4. row' \in [Orders -> RowStatus] /\ Tables' /\ \A v \in Workers : Respects(v)
      BY <1>5, <2>3, RowInsert DEF CreateTakeProfitRow, account, exchange
    <2>5. TypeOK'
      BY <1>1, <1>5, <2>2, <2>3, <2>4, SmallTypes
      DEF CreateTakeProfitRow, TypeOK, db, account, exchange
    <2>6. RunFacts(w)'
      BY <1>1, <1>5, <2>1, <2>3, GotoFields, SmallTypes, OrderParts
      DEF CreateTakeProfitRow, TodoFacts, SignalFacts, OrderFacts, RunFacts, At, Order,
          WithSignal, OwnSteps, PcLabels, TypeOK, db, account, exchange
    <2> QED
      BY <2>2, <2>4, <2>5, <2>6, StepKeeps
  <1>6. CASE MarkEntered(w)
    <2>1. Goto(w, "protect") /\ "protect" \in PcLabels
      BY <1>6 DEF MarkEntered, PcLabels
    <2>2. run' \in [Workers -> RunType] /\ Others(w)
      BY <1>1, <2>1, GotoFields
    <2>3. run[w].cur \in Signals /\ "entered" \in SignalStatus \ {"none"}
      BY <1>1, <1>6, SmallTypes DEF SignalStatus
    <2>4. Tables' /\ \A v \in Workers : Respects(v)
      BY <1>6, <2>3, SigWrite DEF MarkEntered, account, exchange
    <2>5. TypeOK'
      BY <1>1, <1>6, <2>2, <2>3, <2>4, SmallTypes DEF MarkEntered, TypeOK, db, account, exchange
    <2>6. RunFacts(w)'
      BY <1>1, <1>6, <2>1, <2>3, GotoFields, SmallTypes, OrderParts
      DEF MarkEntered, TodoFacts, SignalFacts, OrderFacts, RunFacts, At, Order, WithSignal,
          OwnSteps, PcLabels, TypeOK, db, account, exchange
    <2> QED
      BY <2>2, <2>4, <2>5, <2>6, StepKeeps
  <1>7. CASE Protect(w)
    <2>1. run' \in [Workers -> RunType] /\ Others(w) /\ RunFacts(w)'
      <3>1. /\ run[w] \in RunType /\ run[w].cur \in Signals /\ Owner[run[w].cur] = w
            /\ run[w].back = "loop" => \A t \in run[w].todo : Owner[t] = w
            /\ run[w].back = "recon_close" => \A t \in run[w].todo : pos[t] # "none"
        BY <1>1, <1>7, SmallTypes
        DEF Protect, RunFacts, TodoFacts, SignalFacts, At, OwnSteps, WithSignal, PcLabels
      <3> QED
        BY <1>7, <3>1, BeginProtectStep DEF Protect, db, account, exchange
    <2>2. TypeOK'
      BY <1>1, <1>7, <2>1, SameTables DEF Protect
    <2> QED
      BY <1>7, <2>1, <2>2, QuietStep DEF Protect, db, account, exchange
  <1> QED
    BY <1>2, <1>3, <1>4, <1>5, <1>6, <1>7 DEF Enter

(* The open SL and TP rows of a signal are orders of that signal.         *)
LEMMA OpenProtectiveShape ==
  \A s \in Signals : OpenProtective(s) \in SUBSET Orders /\ \A o \in OpenProtective(s) : o[1] = s
  BY DEF OpenProtective, Protective, Orders, Purposes

(* update_entered keeps the invariant: every exit it records was filled   *)
(* on the exchange.                                                       *)
LEMMA EnteredStep ==
  ASSUME IInv, NEW w \in Workers, Entered(w)
  PROVE  IInv'
  <1>1. TypeOK /\ RunFacts(w)
    BY DEF IInv
  <1>2. CASE UpdateEntered(w)
    <2>1. PICK s \in run[w].todo :
            run' = [run EXCEPT ![w] = BeginProtect([run[w] EXCEPT !.todo = @ \ {s}], s)]
      BY <1>2 DEF UpdateEntered
    <2> DEFINE r == [run[w] EXCEPT !.todo = @ \ {s}]
    <2>2. /\ s \in Signals /\ r \in RunType /\ r.todo = run[w].todo \ {s} /\ r.back = run[w].back
      BY <1>1, SmallTypes DEF RunType
    <2>3. run[w].back = "loop" /\ \A t \in run[w].todo : Owner[t] = w
      BY <1>1, <1>2 DEF UpdateEntered, RunFacts, TodoFacts, At
    <2>4. run' = [run EXCEPT ![w] = BeginProtect(r, s)]
      BY <2>1
    <2> HIDE DEF r
    <2>5. run' \in [Workers -> RunType] /\ Others(w) /\ RunFacts(w)'
      BY <1>2, <2>2, <2>3, <2>4, BeginProtectStep DEF UpdateEntered, db, account, exchange
    <2>6. TypeOK'
      BY <1>1, <1>2, <2>5, SameTables DEF UpdateEntered
    <2> QED
      BY <1>2, <2>5, <2>6, QuietStep DEF UpdateEntered, db, account, exchange
  <1>3. CASE StillOpen(w)
    <2>1. run' \in [Workers -> RunType] /\ Others(w) /\ RunFacts(w)'
      BY <1>3, OnwardStep DEF StillOpen, At, Grow, db, account
    <2>2. TypeOK'
      BY <1>1, <1>3, <2>1, SameTables DEF StillOpen
    <2> QED
      BY <1>3, <2>1, <2>2, QuietStep DEF StillOpen, db, account, exchange
  <1>4. CASE ExitFilled(w)
    <2>1. run' \in [Workers -> RunType] /\ Others(w) /\ RunFacts(w)'
      <3>1. /\ run[w] \in RunType /\ run[w].cur \in Signals
            /\ (run[w].list \ {Order(w)}) \in SUBSET Orders
        BY <1>1, SmallTypes, OpenProtectiveShape
      <3>2. /\ run[w].back = "loop" => \A t \in run[w].todo : Owner[t] = w
            /\ run[w].back = "recon_close" => \A t \in run[w].todo : pos[t] # "none"
            /\ Owner[run[w].cur] = w \/ "exit" = "finish"
            /\ pos[run[w].cur] # "none"
        BY <1>1, <1>4
        DEF ExitFilled, RunFacts, TodoFacts, SignalFacts, At, OwnSteps, WithSignal,
            PcLabels
      <3>3. \A o \in (run[w].list \ {Order(w)}) : pos[o[1]] # "none"
        BY <1>1, <1>4, <3>1, <3>2, OpenProtectiveShape
        DEF ExitFilled, RunFacts, OrderFacts, At
      <3> QED
        BY <1>4, <3>1, <3>2, <3>3, CancelThenStep DEF ExitFilled, Order, db, account, exchange
    <2>2. TypeOK'
      BY <1>1, <1>4, <2>1, SameTables DEF ExitFilled
    <2> QED
      BY <1>4, <2>1, <2>2, QuietStep DEF ExitFilled, db, account, exchange
  <1>5. CASE ProtectionClosed(w)
    <2>1. Goto(w, "gone") /\ "gone" \in PcLabels
      BY <1>5 DEF ProtectionClosed, PcLabels
    <2>2. run' \in [Workers -> RunType] /\ Others(w)
      BY <1>1, <2>1, GotoFields
    <2>3. /\ Order(w) \in Orders /\ ex[Order(w)] \in RowStatus
          /\ ex[Order(w)] = "filled" => done[Order(w)] > 0
          /\ Order(w)[2] # "entry" => pos[Order(w)[1]] # "none"
      BY <1>1, <1>5, SmallTypes
      DEF ProtectionClosed, RowStatus, RunFacts, SignalFacts, OrderFacts, At, Order,
          ClosedEx, OpenEx, EntryExecuted, IInv, ExchangeFacts, TypeOK, ExStatus
    <2>4. Tables' /\ \A v \in Workers : Respects(v)
      BY <1>5, <2>3, RowWrite DEF ProtectionClosed, account, exchange
    <2>5. TypeOK'
      BY <1>1, <1>5, <2>2, <2>3, <2>4, SmallTypes DEF ProtectionClosed, TypeOK, db, account, exchange
    <2>6. RunFacts(w)'
      BY <1>1, <1>5, <2>1, <2>3, GotoFields, SmallTypes, OrderParts
      DEF ProtectionClosed, TodoFacts, SignalFacts, OrderFacts, RunFacts, At, Order,
          WithSignal, OwnSteps, PcLabels, TypeOK, db, account, exchange
    <2> QED
      BY <2>2, <2>4, <2>5, <2>6, StepKeeps
  <1>6. CASE StopGone(w)
    <2>1. run' \in [Workers -> RunType] /\ Others(w) /\ RunFacts(w)'
      <3>1. /\ run[w] \in RunType /\ run[w].cur \in Signals
            /\ OpenProtective(run[w].cur) \in SUBSET Orders
        BY <1>1, SmallTypes, OpenProtectiveShape
      <3>2. /\ run[w].back = "loop" => \A t \in run[w].todo : Owner[t] = w
            /\ run[w].back = "recon_close" => \A t \in run[w].todo : pos[t] # "none"
            /\ Owner[run[w].cur] = w \/ "amount" = "finish"
            /\ pos[run[w].cur] # "none"
        BY <1>1, <1>6
        DEF StopGone, RunFacts, TodoFacts, SignalFacts, At, OwnSteps, WithSignal, PcLabels
      <3>3. \A o \in OpenProtective(run[w].cur) : pos[o[1]] # "none"
        BY <1>1, <1>6, <3>1, <3>2, OpenProtectiveShape
        DEF StopGone, RunFacts, OrderFacts, At
      <3> QED
        BY <1>6, <3>1, <3>2, <3>3, CancelThenStep DEF StopGone, Order, db, account, exchange
    <2>2. TypeOK'
      BY <1>1, <1>6, <2>1, SameTables DEF StopGone
    <2> QED
      BY <1>6, <2>1, <2>2, QuietStep DEF StopGone, db, account, exchange
  <1>7. CASE OtherGone(w)
    <2>1. run' \in [Workers -> RunType] /\ Others(w) /\ RunFacts(w)'
      BY <1>7, OnwardStep DEF OtherGone, At, Grow, db, account
    <2>2. TypeOK'
      BY <1>1, <1>7, <2>1, SameTables DEF OtherGone
    <2> QED
      BY <1>7, <2>1, <2>2, QuietStep DEF OtherGone, db, account, exchange
  <1>8. CASE CheckExpiry(w)
    <2>1. run' \in [Workers -> RunType] /\ Others(w) /\ RunFacts(w)'
      <3>1. CASE setup[run[w].cur] # "expired"
        BY <1>8, <3>1, ReturnStep DEF CheckExpiry, At, WithSignal, PcLabels, Grow, db, account
      <3>2. CASE setup[run[w].cur] = "expired"
        <4>1. /\ run[w] \in RunType /\ run[w].cur \in Signals
              /\ OpenProtective(run[w].cur) \in SUBSET Orders
          BY <1>1, SmallTypes, OpenProtectiveShape
        <4>2. /\ run[w].back = "loop" => \A t \in run[w].todo : Owner[t] = w
              /\ run[w].back = "recon_close" => \A t \in run[w].todo : pos[t] # "none"
              /\ Owner[run[w].cur] = w /\ pos[run[w].cur] # "none"
          BY <1>1, <1>8
          DEF CheckExpiry, RunFacts, TodoFacts, SignalFacts, At, OwnSteps, WithSignal,
              PcLabels
        <4>3. \A o \in OpenProtective(run[w].cur) : pos[o[1]] # "none"
          BY <4>1, <4>2, OpenProtectiveShape
        <4> QED
          BY <1>8, <3>2, <4>1, <4>2, <4>3, CancelThenStep DEF CheckExpiry, db, account, exchange
      <3> QED
        BY <3>1, <3>2
    <2>2. TypeOK'
      BY <1>1, <1>8, <2>1, SameTables DEF CheckExpiry
    <2> QED
      BY <1>8, <2>1, <2>2, QuietStep DEF CheckExpiry, db, account, exchange
  <1>9. CASE CloseFilled(w)
    <2>1. Goto(w, "finish") /\ "finish" \in PcLabels
      BY <1>9 DEF CloseFilled, PcLabels
    <2>2. run' \in [Workers -> RunType] /\ Others(w)
      BY <1>1, <2>1, GotoFields
    <2>3. /\ Order(w) \in Orders /\ "filled" \in RowStatus
          /\ "filled" = "filled" => done[Order(w)] > 0
          /\ Order(w)[2] # "entry" => pos[Order(w)[1]] # "none"
      BY <1>1, <1>9, SmallTypes
      DEF CloseFilled, RowStatus, RunFacts, SignalFacts, OrderFacts, At, Order, ClosedEx,
          OpenEx, EntryExecuted, IInv, ExchangeFacts, TypeOK, ExStatus
    <2>4. Tables' /\ \A v \in Workers : Respects(v)
      BY <1>9, <2>3, RowWrite DEF CloseFilled, account, exchange
    <2>5. TypeOK'
      BY <1>1, <1>9, <2>2, <2>3, <2>4, SmallTypes DEF CloseFilled, TypeOK, db, account, exchange
    <2>6. RunFacts(w)'
      BY <1>1, <1>9, <2>1, <2>3, GotoFields, SmallTypes, OrderParts
      DEF CloseFilled, TodoFacts, SignalFacts, OrderFacts, RunFacts, At, Order, WithSignal,
          OwnSteps, PcLabels, TypeOK, db, account, exchange
    <2> QED
      BY <2>2, <2>4, <2>5, <2>6, StepKeeps
  <1>10. CASE CloseUnconfirmed(w)
    <2>1. run' \in [Workers -> RunType] /\ Others(w) /\ RunFacts(w)'
      BY <1>10, ReturnStep DEF CloseUnconfirmed, At, WithSignal, PcLabels, Grow, db, account
    <2>2. TypeOK'
      BY <1>1, <1>10, <2>1, SameTables DEF CloseUnconfirmed
    <2> QED
      BY <1>10, <2>1, <2>2, QuietStep DEF CloseUnconfirmed, db, account, exchange
  <1> QED
    BY <1>2, <1>3, <1>4, <1>5, <1>6, <1>7, <1>8, <1>9, <1>10 DEF Entered

(* _cancel_rest and what follows it keep the invariant: a row becomes     *)
(* filled only for an order the exchange has filled.                      *)
LEMMA CancelStep ==
  ASSUME IInv, NEW w \in Workers, Cancel(w)
  PROVE  IInv'
  <1>1. TypeOK /\ RunFacts(w)
    BY DEF IInv
  <1>2. CASE CancelOnExchange(w)
    <2>1. PICK o \in run[w].list : ex[o] \in OpenEx /\ ex' = [ex EXCEPT ![o] = "cancelled"]
      BY <1>2 DEF CancelOnExchange
    <2>2. o \in Orders /\ "cancelled" \in ClosedEx
      BY <1>1, SmallTypes DEF ClosedEx
    <2>3. ex' \in [Orders -> ExStatus] /\ Tables' /\ \A v \in Workers : Respects(v)
      BY <1>2, <2>1, <2>2, OrderEnds DEF CancelOnExchange, db, account
    <2>4. TypeOK'
      BY <1>1, <1>2, <2>3 DEF CancelOnExchange, TypeOK, db, account
    <2> QED
      BY <1>2, <2>3, <2>4, OutsideStep DEF CancelOnExchange
  <1>3. CASE RecordCancelled(w)
    <2>1. PICK o \in run[w].list :
            /\ row' = [row EXCEPT ![o] = IF ex[o] = "filled" THEN "filled" ELSE "cancelled"]
            /\ run' = [run EXCEPT ![w].list = @ \ {o}]
      BY <1>3 DEF RecordCancelled
    <2> DEFINE st == IF ex[o] = "filled" THEN "filled" ELSE "cancelled"
               r == [run[w] EXCEPT !.list = @ \ {o}]
    <2>2. /\ o \in Orders /\ pos[o[1]] # "none" /\ st \in RowStatus
          /\ st = "filled" => done[o] > 0
      BY <1>1, <1>3, SmallTypes
      DEF RecordCancelled, RunFacts, OrderFacts, At, RowStatus, IInv, ExchangeFacts
    <2>3. /\ r \in RunType /\ r.pc = run[w].pc /\ r.cur = run[w].cur /\ r.at = run[w].at
          /\ r.list = run[w].list \ {o} /\ r.after = run[w].after /\ r.back = run[w].back
          /\ r.todo = run[w].todo
      BY <1>1, SmallTypes DEF RunType
    <2>4. row' = [row EXCEPT ![o] = st] /\ run' = [run EXCEPT ![w] = r]
      BY <2>1
    <2> HIDE DEF st, r
    <2>5. run' \in [Workers -> RunType] /\ Others(w) /\ run'[w] = r
      BY <1>1, <2>3, <2>4, StepRun
    <2>6. Tables' /\ \A v \in Workers : Respects(v)
      BY <1>3, <2>2, <2>4, RowWrite DEF RecordCancelled, account, exchange
    <2>7. TypeOK'
      BY <1>1, <1>3, <2>2, <2>4, <2>5 DEF RecordCancelled, TypeOK, account, exchange
    <2>8. RunFacts(w)'
      BY <1>1, <1>3, <2>3, <2>5, SmallTypes
      DEF RecordCancelled, TodoFacts, SignalFacts, OrderFacts,
         RunFacts, At, Order, OwnSteps, account, exchange
    <2> QED
      BY <2>5, <2>6, <2>7, <2>8, StepKeeps
  <1>4. CASE RecordExit(w)
    <2>1. Goto(w, "finish") /\ "finish" \in PcLabels
      BY <1>4 DEF RecordExit, PcLabels
    <2>2. run' \in [Workers -> RunType] /\ Others(w)
      BY <1>1, <2>1, GotoFields
    <2>3. /\ Order(w) \in Orders /\ "filled" \in RowStatus
          /\ "filled" = "filled" => done[Order(w)] > 0
          /\ Order(w)[2] # "entry" => pos[Order(w)[1]] # "none"
      BY <1>1, <1>4, SmallTypes
      DEF RecordExit, RowStatus, RunFacts, SignalFacts, OrderFacts, At, Order, ClosedEx,
          OpenEx, EntryExecuted, IInv, ExchangeFacts, TypeOK, ExStatus
    <2>4. Tables' /\ \A v \in Workers : Respects(v)
      BY <1>4, <2>3, RowWrite DEF RecordExit, account, exchange
    <2>5. TypeOK'
      BY <1>1, <1>4, <2>2, <2>3, <2>4, SmallTypes DEF RecordExit, TypeOK, db, account, exchange
    <2>6. RunFacts(w)'
      BY <1>1, <1>4, <2>1, <2>3, GotoFields, SmallTypes, OrderParts
      DEF RecordExit, TodoFacts, SignalFacts, OrderFacts, RunFacts, At, Order, WithSignal,
          OwnSteps, PcLabels, TypeOK, db, account, exchange
    <2> QED
      BY <2>2, <2>4, <2>5, <2>6, StepKeeps
  <1>5. CASE PositionGone(w)
    <2>1. run' \in [Workers -> RunType] /\ Others(w) /\ RunFacts(w)'
      <3>1. /\ run[w] \in RunType /\ run[w].cur \in Signals
            /\ OpenProtective(run[w].cur) \in SUBSET Orders
        BY <1>1, SmallTypes, OpenProtectiveShape
      <3>2. /\ run[w].back = "loop" => \A t \in run[w].todo : Owner[t] = w
            /\ run[w].back = "recon_close" => \A t \in run[w].todo : pos[t] # "none"
            /\ Owner[run[w].cur] = w \/ "finish" = "finish"
            /\ pos[run[w].cur] # "none"
        BY <1>1, <1>5
        DEF PositionGone, RunFacts, TodoFacts, SignalFacts, At, OwnSteps, WithSignal,
            PcLabels
      <3>3. \A o \in OpenProtective(run[w].cur) : pos[o[1]] # "none"
        BY <1>1, <1>5, <3>1, <3>2, OpenProtectiveShape
        DEF PositionGone, RunFacts, OrderFacts, At
      <3> QED
        BY <1>5, <3>1, <3>2, <3>3, CancelThenStep DEF PositionGone, Order, db, account, exchange
    <2>2. TypeOK'
      BY <1>1, <1>5, <2>1, SameTables DEF PositionGone
    <2> QED
      BY <1>5, <2>1, <2>2, QuietStep DEF PositionGone, db, account, exchange
  <1>6. CASE SendClose(w)
    <2>1. /\ run[w].pc \in WithSignal /\ Owner[run[w].cur] = w /\ pos[run[w].cur] # "none"
      BY <1>1, <1>6 DEF SendClose, RunFacts, SignalFacts, At, WithSignal, PcLabels
    <2>2. run' \in [Workers -> RunType] /\ Others(w) /\ RunFacts(w)'
      BY <1>6, <2>1, SyncNextStep DEF SendClose, Grow, Purposes
    <2>3. /\ <<run[w].cur, "close">> \in Orders /\ <<run[w].cur, "close">>[1] = run[w].cur
      BY <1>1, SmallTypes, OrderParts DEF Purposes
    <2>4. row' \in [Orders -> RowStatus] /\ Tables' /\ \A v \in Workers : Respects(v)
      BY <1>6, <2>1, <2>3, RowInsert DEF SendClose, account, exchange
    <2>5. TypeOK'
      BY <1>1, <1>6, <2>2, <2>4 DEF SendClose, TypeOK, account, exchange
    <2> QED
      BY <2>2, <2>4, <2>5, StepKeeps
  <1>7. CASE ExternalCancelled(w)
    <2>1. Goto(w, "finish") /\ "finish" \in PcLabels /\ UNCHANGED <<sig, row, pos, ex, done>>
      BY <1>7 DEF ExternalCancelled, PcLabels, db, account, exchange
    <2>2. run' \in [Workers -> RunType] /\ Others(w)
      BY <1>1, <2>1, GotoFields
    <2>3. TypeOK'
      BY <1>1, <1>7, <2>2, SmallTypes DEF ExternalCancelled, TypeOK, db, account, exchange
    <2>4. RunFacts(w)'
      BY <1>1, <1>7, <2>1, GotoFields, SmallTypes
      DEF ExternalCancelled, TodoFacts, SignalFacts, OrderFacts, RunFacts, At, Order,
          WithSignal, OwnSteps, PcLabels, EntryExecuted
    <2> QED
      BY <2>1, <2>2, <2>3, <2>4, QuietStep
  <1> QED
    BY <1>2, <1>3, <1>4, <1>5, <1>6, <1>7 DEF Cancel

(* _finish_close keeps the invariant in each of its three statements.     *)
LEMMA FinishStep ==
  ASSUME IInv, NEW w \in Workers, Finish(w)
  PROVE  IInv'
  <1>1. TypeOK /\ RunFacts(w)
    BY DEF IInv
  <1>2. CASE ClosePosition(w)
    <2>1. Goto(w, "finish_signal") /\ "finish_signal" \in PcLabels
      BY <1>2 DEF ClosePosition, PcLabels
    <2>2. run' \in [Workers -> RunType] /\ Others(w)
      BY <1>1, <2>1, GotoFields
    <2>3. run[w].cur \in Signals
      BY <1>1, SmallTypes
    <2>4. Tables' /\ \A v \in Workers : Respects(v)
      BY <1>1, <1>2, <2>3, PosWrite DEF ClosePosition, RunFacts, SignalFacts, At, account, exchange
    <2>5. TypeOK'
      BY <1>1, <1>2, <2>2, <2>3, <2>4, SmallTypes DEF ClosePosition, TypeOK, db, account, exchange
    <2>6. RunFacts(w)'
      BY <1>1, <1>2, <2>1, <2>3, GotoFields, SmallTypes, OrderParts
      DEF ClosePosition, TodoFacts, SignalFacts, OrderFacts, RunFacts, At, Order,
          WithSignal, OwnSteps, PcLabels, TypeOK, db, account, exchange
    <2> QED
      BY <2>2, <2>4, <2>5, <2>6, StepKeeps
  <1>3. CASE CloseSignal(w)
    <2>1. Goto(w, "finish_cash") /\ "finish_cash" \in PcLabels
      BY <1>3 DEF CloseSignal, PcLabels
    <2>2. run' \in [Workers -> RunType] /\ Others(w)
      BY <1>1, <2>1, GotoFields
    <2>3. run[w].cur \in Signals /\ "closed" \in SignalStatus \ {"none"}
      BY <1>1, <1>3, SmallTypes DEF SignalStatus
    <2>4. Tables' /\ \A v \in Workers : Respects(v)
      BY <1>3, <2>3, SigWrite DEF CloseSignal, account, exchange
    <2>5. TypeOK'
      BY <1>1, <1>3, <2>2, <2>3, <2>4, SmallTypes DEF CloseSignal, TypeOK, db, account, exchange
    <2>6. RunFacts(w)'
      BY <1>1, <1>3, <2>1, <2>3, GotoFields, SmallTypes, OrderParts
      DEF CloseSignal, TodoFacts, SignalFacts, OrderFacts, RunFacts, At, Order, WithSignal,
          OwnSteps, PcLabels, TypeOK, db, account, exchange
    <2> QED
      BY <2>2, <2>4, <2>5, <2>6, StepKeeps
  <1>4. CASE SettleCash(w)
    <2>1. run' \in [Workers -> RunType] /\ Others(w) /\ RunFacts(w)'
      BY <1>4, ReturnStep DEF SettleCash, At, WithSignal, PcLabels, Grow
    <2>2. TypeOK'
      BY <1>1, <1>4, <2>1, SmallTypes DEF SettleCash, TypeOK, account, exchange
    <2> QED
      BY <1>4, <2>1, <2>2, QuietStep DEF SettleCash, account, exchange
  <1> QED
    BY <1>2, <1>3, <1>4 DEF Finish

(* A step to a place between two signals keeps the invariant if the       *)
(* positions left to close are recorded ones.                             *)
LEMMA BetweenStep ==
  ASSUME IInv, NEW w \in Workers, NEW r \in RunType, run' = [run EXCEPT ![w] = r],
         UNCHANGED <<db, setup, exchange>>, budget' \in 0..MaxFaults,
         r.pc \in PcLabels \ (WithSignal \cup {"loop"}),
         r.pc = "recon_close" => \A s \in r.todo : pos[s] # "none",
         r.pc # "orphans" => \A o \in r.list : pos[o[1]] # "none"
  PROVE  IInv'
  <1>1. run' \in [Workers -> RunType] /\ Others(w) /\ run'[w] = r
    BY StepRun DEF IInv
  <1>2. TodoFacts(w)' /\ SignalFacts(w)' /\ OrderFacts(w)'
    BY <1>1 DEF TodoFacts, SignalFacts, OrderFacts, At, OwnSteps, WithSignal, PcLabels, db, account
  <1>3. TypeOK'
    BY <1>1 DEF IInv, TypeOK, db, account, exchange
  <1> QED
    BY <1>1, <1>2, <1>3, QuietStep DEF RunFacts, db, account, exchange

(* A step to the start, or to the end, of a run keeps the invariant if    *)
(* the run takes only signals of its own interval.                        *)
LEMMA IdleStep ==
  ASSUME IInv, NEW w \in Workers, NEW r \in RunType, run' = [run EXCEPT ![w] = r],
         UNCHANGED <<db, setup, exchange>>, budget' \in 0..MaxFaults,
         r.pc \in {"idle", "loop"}, r.back = "loop", r.list = {},
         \A s \in r.todo : Owner[s] = w
  PROVE  IInv'
  <1>1. run' \in [Workers -> RunType] /\ Others(w) /\ run'[w] = r
    BY StepRun DEF IInv
  <1>2. TodoFacts(w)' /\ SignalFacts(w)' /\ OrderFacts(w)'
    BY <1>1 DEF TodoFacts, SignalFacts, OrderFacts, At, OwnSteps, WithSignal, PcLabels
  <1>3. TypeOK'
    BY <1>1 DEF IInv, TypeOK, db, account, exchange
  <1> QED
    BY <1>1, <1>2, <1>3, QuietStep DEF RunFacts, db, account, exchange

(* The fields of a run that is not under way.                             *)
LEMMA IdleRunFields ==
  /\ IdleRun \in RunType /\ IdleRun.pc = "idle" /\ IdleRun.back = "loop"
  /\ IdleRun.list = {} /\ IdleRun.todo = {}
  BY ConstantsAssumption DEF IdleRun, RunType, PcLabels, Purposes

(* Starting, ending and losing a run keep the invariant: a redelivered    *)
(* task begins with no local state at all.                                *)
LEMMA StartStep ==
  ASSUME IInv, NEW w \in Workers, StartRun(w) \/ EndRun(w) \/ Crash(w)
  PROVE  IInv'
  <1>1. TypeOK /\ RunFacts(w)
    BY DEF IInv
  <1>2. CASE StartRun(w)
    <2> DEFINE todo == {s \in Signals : Owner[s] = w /\ SignalOpen(s)}
               r == [IdleRun EXCEPT !.pc = "loop", !.todo = todo]
    <2>1. /\ r \in RunType /\ r.pc = "loop" /\ r.back = "loop" /\ r.list = {} /\ r.todo = todo
      BY IdleRunFields DEF RunType, PcLabels
    <2>2. run' = [run EXCEPT ![w] = r]
      BY <1>2 DEF StartRun
    <2>3. \A s \in todo : Owner[s] = w
      OBVIOUS
    <2> HIDE DEF r, todo
    <2>4. UNCHANGED <<db, setup, exchange>> /\ budget' \in 0..MaxFaults
      BY <1>1, <1>2 DEF StartRun, TypeOK, account
    <2> QED
      BY <2>1, <2>2, <2>3, <2>4, IdleStep
  <1>3. CASE EndRun(w)
    BY <1>1, <1>3, IdleRunFields, IdleStep DEF EndRun, TypeOK, account
  <1>4. CASE Crash(w)
    <2>1. budget' \in 0..MaxFaults
      BY <1>1, <1>4, ConstantsAssumption DEF Crash, Fault, TypeOK, account
    <2> QED
      BY <1>4, <2>1, IdleRunFields, IdleStep DEF Crash
  <1> QED
    BY <1>2, <1>3, <1>4

(* What reconcile reads: orders, and signals with an open position.       *)
LEMMA ReadShape ==
  /\ OpenIds \in SUBSET Orders
  /\ \A seen : OrphansAmong(seen) \in SUBSET Orders
  /\ OpenPositions \in SUBSET Signals /\ \A s \in OpenPositions : pos[s] = "open"
  BY DEF OpenIds, OrphansAmong, OpenPositions

(* reconcile keeps the invariant, though it works on the signals of every *)
(* interval.                                                              *)
LEMMA ReconcileStep ==
  ASSUME IInv, NEW w \in Workers, Reconcile(w)
  PROVE  IInv'
  <1>1. TypeOK /\ RunFacts(w)
    BY DEF IInv
  <1>2. CASE ReadOpenIds(w)
    <2> DEFINE r == [run[w] EXCEPT !.pc = "list_orders", !.seen = OpenIds]
    <2>1. /\ r \in RunType /\ r.pc = "list_orders" /\ r.list = run[w].list
      BY <1>1, ReadShape, SmallTypes DEF RunType, PcLabels
    <2>2. run' = [run EXCEPT ![w] = r]
      BY <1>2, ReadShape DEF ReadOpenIds
    <2> HIDE DEF r
    <2>3. UNCHANGED <<db, setup, exchange>> /\ budget' \in 0..MaxFaults
      BY <1>1, <1>2 DEF ReadOpenIds, TypeOK, account
    <2>4. run[w].pc # "orphans" => \A o \in run[w].list : pos[o[1]] # "none"
      BY <1>1 DEF RunFacts, OrderFacts, At
    <2> QED
      BY <1>2, <2>1, <2>2, <2>3, <2>4, BetweenStep DEF ReadOpenIds, At, WithSignal, PcLabels
  <1>11. CASE AdoptBalance(w)
    <2>1. Goto(w, "open_ids") /\ "open_ids" \in PcLabels /\ UNCHANGED <<sig, row, pos, ex, done>>
      BY <1>11 DEF AdoptBalance, PcLabels, exchange
    <2>2. run' \in [Workers -> RunType] /\ Others(w)
      BY <1>1, <2>1, GotoFields
    <2>3. TypeOK'
      BY <1>1, <1>11, <2>2, SmallTypes DEF AdoptBalance, TypeOK, exchange
    <2>4. RunFacts(w)'
      BY <1>1, <1>11, <2>1, GotoFields, SmallTypes
      DEF AdoptBalance, TodoFacts, SignalFacts, OrderFacts, RunFacts, At, Order,
          WithSignal, OwnSteps, PcLabels, EntryExecuted
    <2> QED
      BY <2>1, <2>2, <2>3, <2>4, QuietStep
  <1>3. CASE ListOpenOrders(w)
    <2> DEFINE r == [run[w] EXCEPT !.pc = "orphans", !.list = OrphansAmong(run[w].seen), !.seen = {}]
    <2>1. /\ r \in RunType /\ r.pc = "orphans"
      BY <1>1, ReadShape, SmallTypes DEF RunType, PcLabels
    <2>2. run' = [run EXCEPT ![w] = r]
      BY <1>3, ReadShape DEF ListOpenOrders
    <2> HIDE DEF r
    <2>3. UNCHANGED <<db, setup, exchange>> /\ budget' \in 0..MaxFaults
      BY <1>1, <1>3 DEF ListOpenOrders, TypeOK, account
    <2>4. run[w].pc # "orphans" => \A o \in run[w].list : pos[o[1]] # "none"
      BY <1>1 DEF RunFacts, OrderFacts, At
    <2> QED
      BY <1>3, <2>1, <2>2, <2>3, <2>4, BetweenStep
      DEF ListOpenOrders, At, WithSignal, PcLabels
  <1>4. CASE CancelOrphan(w)
    <2>1. PICK o \in run[w].list :
            /\ ex' = [ex EXCEPT ![o] = IF @ \in OpenEx THEN "cancelled" ELSE @]
            /\ run' = [run EXCEPT ![w].list = @ \ {o}]
      BY <1>4 DEF CancelOrphan
    <2> DEFINE r == [run[w] EXCEPT !.list = @ \ {o}]
    <2>2. r \in RunType /\ r.pc = run[w].pc
      BY <1>1, SmallTypes DEF RunType
    <2>3. run' = [run EXCEPT ![w] = r]
      BY <2>1
    <2> HIDE DEF r
    <2>4. run' \in [Workers -> RunType] /\ Others(w) /\ run'[w] = r
      BY <1>1, <2>2, <2>3, StepRun
    <2>5. RunFacts(w)'
      BY <1>4, <2>2, <2>4
      DEF CancelOrphan, RunFacts, TodoFacts, SignalFacts, OrderFacts, At, OwnSteps,
          WithSignal
    <2>6. CASE ex[o] \in OpenEx
      <3>1. o \in Orders /\ "cancelled" \in ClosedEx
        BY <1>1, SmallTypes DEF ClosedEx
      <3>2. ex' \in [Orders -> ExStatus] /\ Tables' /\ \A v \in Workers : Respects(v)
        BY <1>4, <2>1, <2>6, <3>1, OrderEnds DEF CancelOrphan, db, account
      <3>3. TypeOK'
        BY <1>1, <1>4, <2>4, <3>2 DEF CancelOrphan, TypeOK, db, account
      <3> QED
        BY <2>4, <2>5, <3>2, <3>3, StepKeeps
    <2>7. CASE ex[o] \notin OpenEx
      <3>1. ex' = ex
        BY <1>1, <2>1, <2>7, SmallTypes DEF TypeOK, account
      <3>2. TypeOK'
        BY <1>1, <1>4, <2>4, <3>1 DEF CancelOrphan, TypeOK, db, account
      <3> QED
        BY <1>4, <2>4, <2>5, <3>1, <3>2, QuietStep DEF CancelOrphan, db, account
    <2> QED
      BY <2>6, <2>7
  <1>5. CASE ReadPosition(w)
    <2>1. amount \in Nat
      BY <1>1 DEF TypeOK, account
    <2> DEFINE r == [run[w] EXCEPT !.pc = "compare", !.amt = amount]
    <2>2. /\ r \in RunType /\ r.pc = "compare" /\ r.list = run[w].list
      BY <1>1, <2>1, SmallTypes DEF RunType, PcLabels
    <2>3. run' = [run EXCEPT ![w] = r]
      BY <1>5, <2>1 DEF ReadPosition
    <2> HIDE DEF r
    <2>4. UNCHANGED <<db, setup, exchange>> /\ budget' \in 0..MaxFaults
      BY <1>1, <1>5 DEF ReadPosition, TypeOK, account
    <2>5. run[w].pc # "orphans" => \A o \in run[w].list : pos[o[1]] # "none"
      BY <1>1 DEF RunFacts, OrderFacts, At
    <2> QED
      BY <1>5, <2>2, <2>3, <2>4, <2>5, BetweenStep
      DEF ReadPosition, At, WithSignal, PcLabels
  <1>6. CASE PositionAgrees(w)
    <2> DEFINE r == [run[w] EXCEPT !.pc = "new", !.amt = 0]
    <2>1. /\ r \in RunType /\ r.pc = "new" /\ r.list = run[w].list
      BY <1>1, SmallTypes DEF RunType, PcLabels
    <2>2. run' = [run EXCEPT ![w] = r]
      BY <1>6 DEF PositionAgrees
    <2> HIDE DEF r
    <2>3. UNCHANGED <<db, setup, exchange>> /\ budget' \in 0..MaxFaults
      BY <1>1, <1>6 DEF PositionAgrees, TypeOK, account
    <2>4. run[w].pc # "orphans" => \A o \in run[w].list : pos[o[1]] # "none"
      BY <1>1 DEF RunFacts, OrderFacts, At
    <2> QED
      BY <1>6, <2>1, <2>2, <2>3, <2>4, BetweenStep
      DEF PositionAgrees, At, WithSignal, PcLabels
  <1>7. CASE PositionVanished(w)
    <2> DEFINE r == [run[w] EXCEPT !.pc = "recon_close", !.todo = OpenPositions]
    <2>1. /\ r \in RunType /\ r.pc = "recon_close" /\ r.list = run[w].list /\ r.todo = OpenPositions
      BY <1>1, ReadShape, SmallTypes DEF RunType, PcLabels
    <2>2. run' = [run EXCEPT ![w] = r]
      BY <1>7, ReadShape DEF PositionVanished
    <2> HIDE DEF r
    <2>3. UNCHANGED <<db, setup, exchange>> /\ budget' \in 0..MaxFaults
      BY <1>1, <1>7 DEF PositionVanished, TypeOK, account
    <2>4. run[w].pc # "orphans" => \A o \in run[w].list : pos[o[1]] # "none"
      BY <1>1 DEF RunFacts, OrderFacts, At
    <2> QED
      BY <1>7, <2>1, <2>2, <2>3, <2>4, BetweenStep
      DEF PositionVanished, At, WithSignal, PcLabels, OpenPositions
  <1>8. CASE AdoptQuantity(w)
    <2>1. PICK s \in OpenPositions : qty' = [qty EXCEPT ![s] = run[w].amt]
      BY <1>8 DEF AdoptQuantity
    <2> DEFINE r == [run[w] EXCEPT !.pc = "new", !.amt = 0]
    <2>2. r \in RunType /\ r.pc = "new" /\ r.list = run[w].list
      BY <1>1, SmallTypes DEF RunType, PcLabels
    <2>3. run' = [run EXCEPT ![w] = r]
      BY <1>8 DEF AdoptQuantity
    <2> HIDE DEF r
    <2>4. run' \in [Workers -> RunType] /\ Others(w) /\ run'[w] = r
      BY <1>1, <2>2, <2>3, StepRun
    <2>5. qty' \in [Signals -> Nat]
      BY <1>1, <2>1, SmallTypes, ReadShape DEF TypeOK, account
    <2>6. TypeOK'
      BY <1>1, <1>8, <2>4, <2>5 DEF AdoptQuantity, TypeOK, account, exchange
    <2>7. RunFacts(w)'
      BY <1>1, <1>8, <2>2, <2>4
      DEF AdoptQuantity, RunFacts, TodoFacts, SignalFacts, OrderFacts, At, OwnSteps,
          WithSignal
    <2> QED
      BY <1>8, <2>4, <2>6, <2>7, QuietStep DEF AdoptQuantity, account, exchange
  <1>9. CASE CloseExternal(w)
    <2>1. PICK s \in run[w].todo :
            run' = [run EXCEPT ![w] = CancelThen(
                      [run[w] EXCEPT !.cur = s, !.back = "recon_close", !.todo = @ \ {s}],
                      OpenProtective(s), "finish")]
      BY <1>9 DEF CloseExternal
    <2> DEFINE r == [run[w] EXCEPT !.cur = s, !.back = "recon_close", !.todo = @ \ {s}]
    <2>2. /\ r \in RunType /\ r.cur = s /\ r.back = "recon_close" /\ r.todo = run[w].todo \ {s}
          /\ s \in Signals
      BY <1>1, SmallTypes DEF RunType
    <2>3. \A t \in run[w].todo : pos[t] # "none"
      BY <1>1, <1>9 DEF CloseExternal, RunFacts, TodoFacts, At
    <2>4. run' = [run EXCEPT ![w] = CancelThen(r, OpenProtective(s), "finish")]
      BY <2>1
    <2> HIDE DEF r
    <2>5. run' \in [Workers -> RunType] /\ Others(w) /\ RunFacts(w)'
      <3>1. /\ OpenProtective(s) \in SUBSET Orders /\ pos[s] # "none"
            /\ \A o \in OpenProtective(s) : pos[o[1]] # "none"
        BY <2>2, <2>3, OpenProtectiveShape
      <3>2. UNCHANGED <<sig, pos, ex, done>>
        BY <1>9 DEF CloseExternal, db, account, exchange
      <3> QED
        BY <2>2, <2>3, <2>4, <3>1, <3>2, CancelThenStep
    <2>6. TypeOK'
      BY <1>1, <1>9, <2>5, SameTables DEF CloseExternal
    <2> QED
      BY <1>9, <2>5, <2>6, QuietStep DEF CloseExternal, db, account, exchange
  <1>10. CASE ReconcileDone(w)
    <2>1. Goto(w, "new") /\ "new" \in PcLabels /\ UNCHANGED <<sig, row, pos, ex, done>>
      BY <1>10 DEF ReconcileDone, PcLabels, db, account, exchange
    <2>2. run' \in [Workers -> RunType] /\ Others(w)
      BY <1>1, <2>1, GotoFields
    <2>3. TypeOK'
      BY <1>1, <1>10, <2>2, SmallTypes DEF ReconcileDone, TypeOK, db, account, exchange
    <2>4. RunFacts(w)'
      BY <1>1, <1>10, <2>1, GotoFields, SmallTypes
      DEF ReconcileDone, TodoFacts, SignalFacts, OrderFacts, RunFacts, At, Order,
          WithSignal, OwnSteps, PcLabels, EntryExecuted
    <2> QED
      BY <2>1, <2>2, <2>3, <2>4, QuietStep
  <1> QED
    BY <1>2, <1>3, <1>4, <1>5, <1>6, <1>7, <1>8, <1>9, <1>10, <1>11 DEF Reconcile

(* _new_signals and _open_signal keep the invariant: an armed signal's    *)
(* entry is unknown to the exchange until submit_entry.                   *)
LEMMA NewSignalsStep ==
  ASSUME IInv, NEW w \in Workers, AcceptCandidate(w) \/ RejectCandidate(w) \/ Arm(w) \/ CreateEntryRow(w)
  PROVE  IInv'
  <1>1. TypeOK /\ RunFacts(w)
    BY DEF IInv
  <1>2. CASE AcceptCandidate(w)
    <2>1. PICK s \in Candidates(w) :
            run' = [run EXCEPT ![w].pc = "arm", ![w].cur = s, ![w].back = "new"]
      BY <1>2 DEF AcceptCandidate
    <2> DEFINE r == [run[w] EXCEPT !.pc = "arm", !.cur = s, !.back = "new"]
    <2>2. /\ s \in Signals /\ Owner[s] = w /\ ex[<<s, "entry">>] = "none"
      BY DEF Candidates, IInv, ExchangeFacts
    <2>3. s \in Signals
      BY <2>2
    <2>4. /\ r \in RunType /\ r.pc = "arm" /\ r.cur = s /\ r.back = "new" /\ r.list = run[w].list
      BY <1>1, <2>3, SmallTypes DEF RunType, PcLabels
    <2>5. run' = [run EXCEPT ![w] = r]
      BY <1>1, <2>1 DEF TypeOK, account
    <2> HIDE DEF r
    <2>6. run' \in [Workers -> RunType] /\ Others(w) /\ run'[w] = r
      BY <1>1, <2>4, <2>5, StepRun
    <2>7. TypeOK'
      BY <1>1, <1>2, <2>6, SameTables DEF AcceptCandidate
    <2>8. RunFacts(w)'
      <3>1. UNCHANGED <<sig, pos, ex, done>> /\ \A o \in run[w].list : pos[o[1]] # "none"
        BY <1>1, <1>2 DEF AcceptCandidate, RunFacts, OrderFacts, At, db, account, exchange
      <3>2. TodoFacts(w)' /\ SignalFacts(w)'
        BY <2>2, <2>4, <2>6, <3>1 DEF TodoFacts, SignalFacts, At
      <3>3. OrderFacts(w)'
        BY <2>2, <2>4, <2>6, <3>1 DEF OrderFacts, At
      <3> QED
        BY <3>2, <3>3 DEF RunFacts
    <2> QED
      BY <1>2, <2>6, <2>7, <2>8, QuietStep DEF AcceptCandidate, db, account, exchange
  <1>3. CASE RejectCandidate(w)
    <2>1. PICK s \in Candidates(w) : sig' = [sig EXCEPT ![s] = "rejected"]
      BY <1>3 DEF RejectCandidate
    <2>2. s \in Signals /\ "rejected" \in SignalStatus \ {"none"}
      BY DEF Candidates, SignalStatus
    <2>3. Tables' /\ \A v \in Workers : Respects(v)
      BY <1>3, <2>1, <2>2, SigWrite DEF RejectCandidate, account, exchange
    <2>4. TypeOK'
      BY <1>1, <1>3, <2>1, <2>2 DEF RejectCandidate, TypeOK, account, exchange
    <2> QED
      BY <1>3, <2>3, <2>4, OutsideStep DEF RejectCandidate
  <1>4. CASE Arm(w)
    <2>1. Goto(w, "entry_row") /\ "entry_row" \in PcLabels
      BY <1>4 DEF Arm, PcLabels
    <2>2. run' \in [Workers -> RunType] /\ Others(w)
      BY <1>1, <2>1, GotoFields
    <2>3. run[w].cur \in Signals /\ "armed" \in SignalStatus \ {"none"}
      BY <1>1, <1>4, SmallTypes DEF SignalStatus
    <2>4. Tables' /\ \A v \in Workers : Respects(v)
      BY <1>4, <2>3, SigWrite DEF Arm, account, exchange
    <2>5. TypeOK'
      BY <1>1, <1>4, <2>2, <2>3, <2>4, SmallTypes DEF Arm, TypeOK, db, account, exchange
    <2>6. RunFacts(w)'
      BY <1>1, <1>4, <2>1, <2>3, GotoFields, SmallTypes, OrderParts
      DEF Arm, TodoFacts, SignalFacts, OrderFacts, RunFacts, At, Order, WithSignal,
          OwnSteps, PcLabels, TypeOK, db, account, exchange
    <2> QED
      BY <2>2, <2>4, <2>5, <2>6, StepKeeps
  <1>5. CASE CreateEntryRow(w)
    <2> DEFINE r == [run[w] EXCEPT !.pc = "place", !.at = "entry"]
    <2>1. /\ r \in RunType /\ r.pc = "place" /\ r.at = "entry" /\ r.cur = run[w].cur
          /\ r.list = run[w].list /\ r.back = run[w].back /\ r.todo = run[w].todo
      BY <1>1, SmallTypes DEF RunType, PcLabels, Purposes
    <2>2. run' = [run EXCEPT ![w] = r]
      BY <1>1, <1>5 DEF CreateEntryRow, TypeOK, account
    <2> HIDE DEF r
    <2>3. run' \in [Workers -> RunType] /\ Others(w) /\ run'[w] = r
      BY <1>1, <2>1, <2>2, StepRun
    <2>4. /\ <<run[w].cur, "entry">> \in Orders /\ <<run[w].cur, "entry">>[2] = "entry"
      BY <1>1, SmallTypes, OrderParts DEF Purposes
    <2>5. row' \in [Orders -> RowStatus] /\ Tables' /\ \A v \in Workers : Respects(v)
      BY <1>5, <2>4, RowInsert DEF CreateEntryRow, account, exchange
    <2>6. TypeOK'
      BY <1>1, <1>5, <2>3, <2>5 DEF CreateEntryRow, TypeOK, account, exchange
    <2>7. RunFacts(w)'
      BY <1>1, <1>5, <2>1, <2>3
      DEF CreateEntryRow, RunFacts, TodoFacts, SignalFacts, OrderFacts, At, Order, OwnSteps,
          WithSignal, PcLabels, account, exchange
    <2> QED
      BY <2>3, <2>5, <2>6, <2>7, StepKeeps
  <1> QED
    BY <1>2, <1>3, <1>4, <1>5

(* A create_order that a database error swallows keeps the invariant: the *)
(* run goes on without the row.                                           *)
LEMMA RowLostStep ==
  ASSUME IInv, NEW w \in Workers, RowLost(w)
  PROVE  IInv'
  <1>1. TypeOK /\ RunFacts(w)
    BY DEF IInv
  <1>2. budget' \in 0..MaxFaults
    BY <1>1, ConstantsAssumption DEF RowLost, Fault, TypeOK, account
  <1>3. ASSUME run' \in [Workers -> RunType], Others(w), RunFacts(w)'
        PROVE  IInv'
    <2>1. TypeOK'
      BY <1>1, <1>2, <1>3 DEF RowLost, TypeOK, db, account, exchange
    <2> QED
      BY <1>3, <2>1, QuietStep DEF RowLost, db, account, exchange
  <1>4. ASSUME NEW label \in {"tp_row", "mark_entered"}, Goto(w, label), At(w, "sl_row") \/ At(w, "tp_row")
        PROVE  IInv'
    <2>1. label \in PcLabels
      BY DEF PcLabels
    <2>2. RunFacts(w)'
      BY <1>1, <1>4, <2>1, GotoFields, SmallTypes
      DEF RowLost, TodoFacts, SignalFacts, OrderFacts,
         RunFacts, At, WithSignal, OwnSteps, PcLabels, db, account, exchange
    <2> QED
      BY <1>1, <1>3, <1>4, <2>1, <2>2, GotoFields
  <1>5. CASE At(w, "entry_row") /\ run' = [run EXCEPT ![w] = Return(run[w])]
    BY <1>3, <1>5, ReturnStep DEF RowLost, At, WithSignal, PcLabels, Grow, db, account
  <1> QED
    BY <1>4, <1>5 DEF RowLost

--------------------------------------------------------------------------------
(* The exchange and the setups keep the invariant.                        *)

(* A partial or full fill of an open order keeps the tables.              *)
LEMMA FillWrite ==
  ASSUME IInv, NEW o \in Orders, NEW n \in Nat \ {0}, ex[o] \in OpenEx,
         ex' = [ex EXCEPT ![o] = Status(o, n)], done' = [done EXCEPT ![o] = @ + n],
         UNCHANGED <<sig, row, pos>>
  PROVE  /\ ex' \in [Orders -> ExStatus] /\ done' \in [Orders -> Nat]
         /\ Tables' /\ \A v \in Workers : Respects(v)
  <1> DEFINE st == Status(o, n)
             m == done[o] + n
  <1>1. st \in {"filled", "partially_filled"}
    BY DEF Status
  <1>2. m \in Nat \ {0}
    BY DEF IInv, TypeOK, account
  <1>3. ex' = [ex EXCEPT ![o] = st] /\ done' = [done EXCEPT ![o] = m]
    OBVIOUS
  <1> HIDE DEF st, m
  <1> QED
    BY <1>1, <1>2, <1>3, OrderFills

(* Fills of the entry and of the TP and the triggered SL keep the         *)
(* invariant.                                                             *)
LEMMA FillsStep ==
  ASSUME IInv, NEW s \in Signals, FillEntry(s) \/ FillTakeProfit(s) \/ TriggerStop(s)
  PROVE  IInv'
  <1>1. TypeOK /\ Lots \in Nat
    BY ConstantsAssumption DEF IInv
  <1>2. /\ <<s, "entry">> \in Orders /\ <<s, "take_profit">> \in Orders /\ <<s, "stop_loss">> \in Orders
        /\ <<s, "entry">>[2] = "entry" /\ <<s, "take_profit">>[2] = "take_profit" /\ <<s, "take_profit">>[1] = s
    BY OrderParts DEF Purposes
  <1>3. CASE FillEntry(s)
    <2> DEFINE o == <<s, "entry">>
    <2>1. PICK n \in 1..Remaining(o) :
            /\ ex' = [ex EXCEPT ![o] = Status(o, n)]
            /\ done' = [done EXCEPT ![o] = @ + n]
            /\ amount' = amount + n
      BY <1>3 DEF FillEntry
    <2>2. n \in Nat \ {0}
      BY <1>1, <1>2, <2>1 DEF Remaining, TypeOK, account
    <2>3. /\ ex' \in [Orders -> ExStatus] /\ done' \in [Orders -> Nat]
          /\ Tables' /\ \A v \in Workers : Respects(v)
      BY <1>2, <1>3, <2>1, <2>2, FillWrite DEF FillEntry, db, account
    <2>4. TypeOK'
      BY <1>1, <1>3, <2>1, <2>2, <2>3 DEF FillEntry, TypeOK, db, account
    <2> QED
      BY <1>3, <2>3, <2>4, OutsideStep DEF FillEntry
  <1>4. CASE FillTakeProfit(s)
    <2> DEFINE o == <<s, "take_profit">>
    <2>1. PICK n \in 1..Remaining(o) :
            /\ n <= amount
            /\ ex' = [ex EXCEPT ![o] = Status(o, n)]
            /\ done' = [done EXCEPT ![o] = @ + n]
            /\ amount' = amount - n
            /\ Realise
      BY <1>4 DEF FillTakeProfit
    <2>2. n \in Nat \ {0}
      BY <1>1, <1>2, <2>1 DEF Remaining, TypeOK, account
    <2>3. /\ ex' \in [Orders -> ExStatus] /\ done' \in [Orders -> Nat]
          /\ Tables' /\ \A v \in Workers : Respects(v)
      BY <1>2, <1>4, <2>1, <2>2, FillWrite DEF FillTakeProfit, db, account
    <2>4. TypeOK'
      BY <1>1, <1>4, <2>1, <2>2, <2>3, RealiseType DEF FillTakeProfit, TypeOK, db, account
    <2> QED
      BY <1>4, <2>3, <2>4, OutsideStep DEF FillTakeProfit
  <1>5. CASE TriggerStop(s)
    <2> DEFINE o == <<s, "stop_loss">>
               n == IF amount <= done[<<s, "entry">>] THEN amount ELSE done[<<s, "entry">>]
    <2>1. /\ n \in Nat \ {0} /\ amount - n \in Nat /\ o \in Orders
      BY <1>1, <1>2, <1>5, OrderParts DEF TriggerStop, TypeOK, Purposes
    <2>2. /\ ex[o] \in OpenEx /\ ex' = [ex EXCEPT ![o] = "filled"] /\ done' = [done EXCEPT ![o] = n]
          /\ amount' = amount - n /\ Realise /\ UNCHANGED <<db, setup, run, budget>>
      BY <1>5 DEF TriggerStop
    <2> HIDE DEF n, o
    <2>3. /\ ex' \in [Orders -> ExStatus] /\ done' \in [Orders -> Nat]
          /\ Tables' /\ \A v \in Workers : Respects(v)
      BY <2>1, <2>2, OrderFills DEF db
    <2>4. TypeOK'
      BY <1>1, <2>1, <2>2, <2>3, RealiseType DEF TypeOK, db, account
    <2> QED
      BY <2>2, <2>3, <2>4, OutsideStep
  <1> QED
    BY <1>3, <1>4, <1>5

(* Orders that expire or are dropped from the exchange's records keep the *)
(* invariant; the latter only between runs, so no run still relies on     *)
(* what it read of them.                                                  *)
LEMMA EndsStep ==
  ASSUME IInv, NEW o \in Orders, ExpireReduceOnly(o) \/ Expire(o) \/ Forget(o)
  PROVE  IInv'
  <1>1. TypeOK
    BY DEF IInv
  <1>2. CASE ExpireReduceOnly(o)
    <2>1. ex' \in [Orders -> ExStatus] /\ Tables' /\ \A v \in Workers : Respects(v)
      BY <1>2, OrderEnds DEF ExpireReduceOnly, ClosedEx, db, account
    <2>2. TypeOK'
      BY <1>1, <1>2, <2>1 DEF ExpireReduceOnly, TypeOK, db, account
    <2> QED
      BY <1>2, <2>1, <2>2, OutsideStep DEF ExpireReduceOnly
  <1>3. CASE Expire(o)
    <2>1. ex' \in [Orders -> ExStatus] /\ Tables' /\ \A v \in Workers : Respects(v)
      BY <1>3, OrderEnds DEF Expire, ClosedEx, db, account
    <2>2. budget' \in 0..MaxFaults
      BY <1>1, <1>3, ConstantsAssumption DEF Expire, Fault, TypeOK, account
    <2>3. TypeOK'
      BY <1>1, <1>3, <2>1, <2>2 DEF Expire, TypeOK, db, account
    <2> QED
      BY <1>3, <2>1, <2>3, OutsideStep DEF Expire
  <1>4. CASE Forget(o)
    <2>1. \A p \in Orders : ex'[p] = IF p = o THEN "none" ELSE ex[p]
      BY <1>1, <1>4 DEF Forget, TypeOK, account
    <2>2. ex[o] \in ClosedEx /\ done[o] = 0 /\ UNCHANGED <<sig, row, pos, done>>
      BY <1>4 DEF Forget, db, account
    <2>3. \A s \in Signals : <<s, "entry">> \in Orders
      BY OrderParts DEF Purposes
    <2>4. Tables'
      <3>1. LedgerIsReal' /\ EntryIsFinal'
        BY <2>1, <2>2, <2>3 DEF IInv, LedgerIsReal, EntryIsFinal, OpenEx
      <3>2. ExchangeFacts'
        BY <2>1, <2>2, <2>3 DEF IInv, ExchangeFacts
      <3> QED
        BY <3>1, <3>2 DEF Tables
    <2>5. \A v \in Workers : Respects(v)
      BY <1>4, <2>1, <2>2 DEF Respects, EntryExecuted, ClosedEx, OpenEx, db, account
    <2>6. budget' \in 0..MaxFaults
      BY <1>1, <1>4, ConstantsAssumption DEF Forget, Fault, TypeOK, account
    <2>7. ex' \in [Orders -> ExStatus]
      BY <1>1, <1>4 DEF Forget, TypeOK, account, ExStatus
    <2>8. TypeOK'
      BY <1>1, <1>4, <2>6, <2>7 DEF Forget, TypeOK, db, account
    <2> QED
      BY <1>4, <2>4, <2>5, <2>8, OutsideStep DEF Forget
  <1> QED
    BY <1>2, <1>3, <1>4

(* A position closed by hand and a setup that moves on change nothing the *)
(* invariant speaks of.                                                   *)
LEMMA OutsideUnseen ==
  ASSUME IInv, CloseByHand \/ \E s \in Signals : SetupMoves(s)
  PROVE  IInv'
  <1>1. TypeOK /\ Tables
    BY DEF IInv, Tables
  <1>2. UNCHANGED <<sig, row, pos, ex, done, run>>
    BY DEF CloseByHand, SetupMoves, db, account, exchange
  <1>3. TypeOK'
    <2>1. CASE CloseByHand
      <3>1. budget' \in 0..MaxFaults
        BY <1>1, <2>1, ConstantsAssumption DEF CloseByHand, Fault, TypeOK, account
      <3> QED
        BY <1>1, <2>1, <3>1, RealiseType DEF CloseByHand, TypeOK, db, account
    <2>2. ASSUME NEW s \in Signals, SetupMoves(s) PROVE TypeOK'
      <3>1. setup' \in [Signals -> SetupStatus]
        BY <1>1, <2>2 DEF SetupMoves, TypeOK, account, SetupStatus
      <3> QED
        BY <1>1, <2>2, <3>1 DEF SetupMoves, TypeOK, db, account, exchange
    <2> QED
      BY <2>1, <2>2
  <1>4. Tables'
    BY <1>1, <1>2 DEF Tables, LedgerIsReal, EntryIsFinal, ExchangeFacts
  <1>5. \A v \in Workers : Respects(v)
    BY <1>2 DEF Respects, EntryExecuted
  <1> QED
    BY <1>2, <1>3, <1>4, <1>5, OutsideStep

--------------------------------------------------------------------------------
(* The theorems of the specification.                                     *)

(* The invariant holds before the first run.                              *)
LEMMA InitHolds == Init => IInv
  <1> SUFFICES ASSUME Init PROVE IInv
    OBVIOUS
  <1>1. TypeOK
    BY ConstantsAssumption, IdleRunFields
    DEF Init, TypeOK, account, SignalStatus, SetupStatus, RowStatus, ExStatus
  <1>2. \A s \in Signals : <<s, "entry">> \in Orders
    BY OrderParts DEF Purposes
  <1>3. Tables
    BY <1>2 DEF Init, Tables, LedgerIsReal, EntryIsFinal, ExchangeFacts
  <1>4. \A w \in Workers : RunFacts(w)
    BY IdleRunFields
    DEF Init, RunFacts, TodoFacts, SignalFacts, OrderFacts, At, OwnSteps, WithSignal
  <1> QED
    BY <1>1, <1>3, <1>4 DEF IInv, Tables

(* Every step keeps the invariant.                                        *)
LEMMA NextKeeps == IInv /\ [Next]_vars => IInv'
  <1> SUFFICES ASSUME IInv, [Next]_vars PROVE IInv'
    OBVIOUS
  <1>1. ASSUME NEW w \in Workers, Work(w) \/ WorkerFault(w) PROVE IInv'
    <2>1. CASE StartRun(w) \/ EndRun(w) \/ Crash(w)
      BY <2>1, StartStep
    <2>2. CASE Sync(w)
      BY <2>2, SyncStep
    <2>3. CASE Place(w) \/ CloseExpires(w) \/ PlaceUnanswered(w) \/ PlaceUnclear(w)
      BY <2>3, PlaceStep
    <2>4. CASE Armed(w)
      BY <2>4, ArmedStep
    <2>5. CASE Enter(w)
      BY <2>5, EnterStep
    <2>6. CASE Entered(w)
      BY <2>6, EnteredStep
    <2>7. CASE Cancel(w)
      BY <2>7, CancelStep
    <2>8. CASE Finish(w)
      BY <2>8, FinishStep
    <2>9. CASE Reconcile(w)
      BY <2>9, ReconcileStep
    <2>10. CASE AcceptCandidate(w) \/ RejectCandidate(w) \/ Arm(w) \/ CreateEntryRow(w)
      BY <2>10, NewSignalsStep
    <2>11. CASE RowLost(w)
      BY <2>11, RowLostStep
    <2> QED
      BY <1>1, <2>1, <2>2, <2>3, <2>4, <2>5, <2>6, <2>7, <2>8, <2>9, <2>10, <2>11
      DEF Work, GoOn, WorkerFault, NewSignals
  <1>2. CASE Exchange
    BY <1>2, FillsStep, EndsStep, OutsideUnseen DEF Exchange
  <1>3. CASE \E s \in Signals : SetupMoves(s)
    BY <1>3, OutsideUnseen
  <1>4. CASE UNCHANGED vars
    <2>1. UNCHANGED <<sig, setup, row, acked, pos, qty, settled, cash, ex, done, amount, wallet, run, budget>>
      BY <1>4 DEF vars
    <2>2. TypeOK' /\ Tables'
      BY <2>1 DEF IInv, TypeOK, account, Tables, LedgerIsReal, EntryIsFinal, ExchangeFacts
    <2>3. \A v \in Workers : Respects(v)
      BY <2>1 DEF Respects, EntryExecuted
    <2> QED
      BY <2>1, <2>2, <2>3, OutsideStep
  <1> QED
    BY <1>1, <1>2, <1>3, <1>4 DEF Next

(* The inductive invariant holds throughout, for any number of workers,   *)
(* signals, lots and faults: what a run has read of the database and the  *)
(* exchange before an await, and acts on after it, is still true although *)
(* other runs, fills, expiries, crashes and lost answers go on beside it. *)
THEOREM Invariance == Spec => []IInv
  <1>1. Init => IInv
    BY InitHolds
  <1>2. IInv /\ [Next]_vars => IInv'
    BY NextKeeps
  <1> QED
    BY <1>1, <1>2, PTL DEF Spec

(* Every variable keeps its type: the columns their values, the exchange  *)
(* its states, the runs their local variables.                            *)
THEOREM TypeCorrect == Spec => []TypeOK
  <1>1. IInv => TypeOK
    BY DEF IInv
  <1> QED
    BY <1>1, Invariance, PTL

(* The database is never ahead of the exchange: a filled row, a position  *)
(* (live._entered) and an exit row all stand on executed lots, whatever   *)
(* crashes, answers are lost or runs overlap.                             *)
THEOREM LedgerCorrect == Spec => []LedgerIsReal
  <1>1. IInv => LedgerIsReal
    BY DEF IInv
  <1> QED
    BY <1>1, Invariance, PTL

(* A position is recorded only once its entry can no longer fill          *)
(* (live.update_armed), so the SL covers all that the entry has bought.   *)
THEOREM EntryCorrect == Spec => []EntryIsFinal
  <1>1. IInv => EntryIsFinal
    BY DEF IInv
  <1> QED
    BY <1>1, Invariance, PTL

--------------------------------------------------------------------------------
(* Runs that do not overlap                                                *)

(* What the account has at stake: nothing without an open signal, and with *)
(* one no more than its entry has bought and its target not yet sold.      *)
(* Whatever else closed it completely has left nothing.                    *)
Stake(s) ==
  SignalOpen(s) =>
    /\ amount + done[<<s, "take_profit">>] <= done[<<s, "entry">>]
    /\ \A p \in Purposes \ {"entry"} : ex[<<s, p>>] = "filled" => amount = 0

(* Where a signal stands: one that is not open can neither buy nor hold a  *)
(* position.                                                               *)
Standing(s) ==
  /\ done[<<s, "entry">>] <= Lots
  /\ ~SignalOpen(s) => ex[<<s, "entry">>] \notin OpenEx /\ pos[s] # "open"
  /\ pos[s] = "none" => \A p \in Purposes \ {"entry"} : ex[<<s, p>>] = "none"

Held ==
  /\ \A s, t \in Signals : SignalOpen(s) /\ SignalOpen(t) => s = t
  /\ SymbolFree => amount = 0
  /\ \A s \in Signals : Stake(s) /\ Standing(s)

(* What a run relies on.                                                   *)
Knows(w) ==
  LET s == run[w].cur IN
  /\ run[w].pc \notin {"loop", "recon_close"} => run[w].todo = {}
  /\ \A t \in run[w].todo : SignalOpen(t)
  /\ run[w].pc \in WithSignal \ {"arm", "finish_cash"} => SignalOpen(s)
  /\ At(w, "arm") => SymbolFree /\ sig[s] = "none"
  /\ At(w, "gone") /\ run[w].at = "entry" => ex[Order(w)] \notin OpenEx /\ done[Order(w)] = 0
  /\ At(w, "finish") \/ At(w, "finish_signal") \/ (At(w, "cancel") /\ run[w].after = "finish") => amount = 0
  /\ At(w, "finish_signal") => pos[s] = "closed"
  /\ At(w, "compare") /\ run[w].amt = 0 /\ OpenPositions # {} => amount = 0
  /\ At(w, "recon_close") /\ run[w].todo # {} => amount = 0

\* places where nothing about a signal is relied on
Resting == {"idle", "loop", "recon_close", "new", "open_ids", "list_orders", "orphans"}

\* steps about an open signal that rely on nothing else
Plain == WithSignal \ {"arm", "gone", "cancel", "finish", "finish_signal", "finish_cash"}

(* A run between two signals, with none left, relies on nothing.           *)
LEMMA Rests ==
  ASSUME NEW w \in Workers, run'[w].pc \in Resting, run'[w].todo = {}
  PROVE  Knows(w)'
  BY DEF Knows, Resting, WithSignal, PcLabels, At

(* One that works on an open signal relies on that at most steps.          *)
LEMMA Works ==
  ASSUME NEW w \in Workers, run'[w].pc \in Plain, run'[w].todo = {}, SignalOpen(run[w].cur)'
  PROVE  Knows(w)'
  BY DEF Knows, Plain, WithSignal, PcLabels, At

(* One that cancels orders has nothing at stake when it cannot but finish. *)
LEMMA Cancels ==
  ASSUME NEW w \in Workers, run'[w].pc = "cancel", run'[w].todo = {}, SignalOpen(run[w].cur)',
         run'[w].after = "finish" => amount' = 0
  PROVE  Knows(w)'
  BY DEF Knows, WithSignal, PcLabels, At

(* What a run knows of the signal it works on.                             *)
LEMMA AtWork ==
  ASSUME TypeOK, NEW w \in Workers, Knows(w), run[w].pc \in Plain \cup {"gone", "cancel", "finish", "finish_signal"}
  PROVE  SignalOpen(run[w].cur) /\ run[w].todo = {} /\ run[w].cur \in Signals
  BY SmallTypes DEF Knows, Plain, WithSignal, PcLabels

(* A step that writes none of this keeps what is held.                     *)
LEMMA HeldKept ==
  ASSUME Held, UNCHANGED <<sig, pos, ex, done, amount>>
  PROVE  Held'
  BY DEF Held, Stake, Standing, SymbolFree, SignalOpen

(* Being done with a signal: nothing is relied on.                         *)
LEMMA ReturnRests ==
  ASSUME TypeOK, NEW w \in Workers, run' = [run EXCEPT ![w] = Return(run[w])], run[w].todo = {}
  PROVE  Knows(w)'
<1>1. run[w] \in RunType
  BY SmallTypes
<1>2. run'[w] = Return(run[w])
  BY DEF TypeOK, account
<1>3. run'[w].pc = run[w].back /\ run'[w].todo = {}
  BY <1>1, <1>2, ReturnFields
<1>4. run[w].back \in Resting
  BY <1>1 DEF RunType, Resting
<1> QED BY <1>3, <1>4, Rests

(* Going on to another order of the signal, or to none.                    *)
LEMMA OnwardWorks ==
  ASSUME TypeOK, NEW w \in Workers, run' = [run EXCEPT ![w] = Onward(w)], run[w].todo = {},
         sig'[run[w].cur] \in {"armed", "entered"}
  PROVE  Knows(w)'
<1>1. run[w] \in RunType
  BY SmallTypes
<1>2. CASE Onward(w) = Return(run[w])
  BY <1>2, ReturnRests
<1>3. CASE Onward(w) = SyncNext(run[w], "take_profit")
  <2>1. run'[w] = SyncNext(run[w], "take_profit")
    BY <1>3 DEF TypeOK, account
  <2>2. run'[w].pc = "sync" /\ run'[w].cur = run[w].cur /\ run'[w].todo = {}
    BY <1>1, <2>1 DEF RunType, SyncNext
  <2>3. run'[w].pc \in Plain
    BY <2>2 DEF Plain, WithSignal, PcLabels
  <2> QED BY <2>2, <2>3, Works DEF SignalOpen
<1>4. CASE Onward(w) = [run[w] EXCEPT !.pc = "expiry"]
  <2>1. run'[w] = [run[w] EXCEPT !.pc = "expiry"]
    BY <1>4 DEF TypeOK, account
  <2>2. run'[w].pc = "expiry" /\ run'[w].cur = run[w].cur /\ run'[w].todo = {}
    BY <1>1, <2>1 DEF RunType
  <2>3. run'[w].pc \in Plain
    BY <2>2 DEF Plain, WithSignal, PcLabels
  <2> QED BY <2>2, <2>3, Works DEF SignalOpen
<1> QED BY <1>2, <1>3, <1>4 DEF Onward

--------------------------------------------------------------------------------
(* What the exchange does                                                  *)

(* One order changes.                                                      *)
LEMMA OneOrder ==
  ASSUME TypeOK, Held, NEW o \in Orders, UNCHANGED <<sig, pos>>,
         \A p \in Orders : p # o => ex'[p] = ex[p] /\ done'[p] = done[p],
         SymbolFree => amount' = 0,
         o[2] = "entry" => done'[o] <= Lots /\ (~SignalOpen(o[1]) => ex'[o] \notin OpenEx),
         o[2] # "entry" /\ pos[o[1]] = "none" => ex'[o] = "none",
         \A s \in Signals : SignalOpen(s) => Stake(s)'
  PROVE  Held'
<1>1. ASSUME NEW s \in Signals PROVE Standing(s)'
  <2>1. \A p \in Purposes : <<s, p>> \in Orders
    BY OrderParts
  <2>2. \A p \in Purposes : <<s, p>> = o => o[1] = s /\ o[2] = p
    OBVIOUS
  <2>3. Standing(s)
    BY DEF Held
  <2>4. done'[<<s, "entry">>] <= Lots /\ (~SignalOpen(s) => ex'[<<s, "entry">>] \notin OpenEx)
    BY <2>1, <2>2, <2>3 DEF Standing, Purposes
  <2>5. ASSUME pos[s] = "none", NEW p \in Purposes \ {"entry"} PROVE ex'[<<s, p>>] = "none"
    BY <2>1, <2>2, <2>3, <2>5 DEF Standing
  <2> QED BY <2>3, <2>4, <2>5 DEF Standing, SignalOpen
<1>2. ASSUME NEW s \in Signals PROVE Stake(s)'
  <2>1. CASE SignalOpen(s)
    BY <2>1
  <2>2. CASE ~SignalOpen(s)
    BY <2>2 DEF Stake, SignalOpen
  <2> QED BY <2>1, <2>2
<1>3. SymbolFree' => amount' = 0
  BY DEF SymbolFree, SignalOpen
<1>4. \A s, t \in Signals : SignalOpen(s)' /\ SignalOpen(t)' => s = t
  BY DEF Held, SignalOpen
<1> QED BY <1>1, <1>2, <1>3, <1>4 DEF Held

(* An order that ends without having taken anything more.                  *)
LEMMA Ended ==
  ASSUME TypeOK, Held, NEW o \in Orders, NEW status \in ExStatus \ (OpenEx \cup {"filled"}),
         ex' = [ex EXCEPT ![o] = status], UNCHANGED <<sig, pos, done, amount>>,
         o[2] # "entry" => pos[o[1]] # "none"
  PROVE  Held'
<1>1. \A p \in Orders : ex'[p] = IF p = o THEN status ELSE ex[p]
  BY DEF TypeOK, account
<1>2. ASSUME NEW s \in Signals, SignalOpen(s) PROVE Stake(s)'
  <2>1. Stake(s) /\ \A p \in Purposes : <<s, p>> \in Orders
    BY OrderParts DEF Held
  <2> QED BY <1>1, <1>2, <2>1 DEF Stake, SignalOpen
<1>3. o[1] \in Signals /\ o[2] \in Purposes /\ o = <<o[1], o[2]>>
  BY OrderShape
<1>4. o[2] = "entry" => done[o] <= Lots
  BY <1>3 DEF Held, Standing
<1> QED
  BY <1>1, <1>2, <1>4, OneOrder DEF Held

(* An order that had not been there is accepted.                           *)
LEMMA Taken ==
  ASSUME TypeOK, ExchangeFacts, Held, NEW o \in Orders, ex[o] = "none", SignalOpen(o[1]),
         o[2] # "entry" => pos[o[1]] # "none", TakeOrder(o), UNCHANGED <<sig, pos>>
  PROVE  Held'
<1>1. o[1] \in Signals /\ o[2] \in Purposes /\ o = <<o[1], o[2]>> /\ done[o] = 0
  BY OrderShape DEF ExchangeFacts
<1>2. ~SymbolFree
  BY <1>1 DEF SymbolFree
<1>3. Stake(o[1]) /\ \A s \in Signals : SignalOpen(s) => s = o[1]
  BY <1>1 DEF Held
<1>4. \A p \in Purposes : <<o[1], p>> \in Orders
  BY <1>1, OrderParts
<1>5. CASE o[2] = "close"
  <2>1. /\ \A p \in Orders : ex'[p] = (IF p = o THEN "filled" ELSE ex[p])
        /\ \A p \in Orders : done'[p] = (IF p = o THEN amount ELSE done[p])
        /\ amount' = 0
    BY <1>5 DEF TakeOrder, TypeOK, account
  <2>2. o # <<o[1], "entry">> /\ o # <<o[1], "take_profit">>
    BY <1>1, <1>5
  <2>3. done[<<o[1], "take_profit">>] \in Nat /\ done[<<o[1], "entry">>] \in Nat /\ amount \in Nat
    BY <1>4 DEF TypeOK, account, Purposes
  <2>4. Stake(o[1])'
    BY <1>3, <1>4, <2>1, <2>2, <2>3 DEF Stake, Purposes, SignalOpen
  <2> QED BY <1>1, <1>2, <1>3, <1>5, <2>1, <2>4, OneOrder
<1>6. CASE o[2] # "close"
  <2>1. /\ \A p \in Orders : ex'[p] = (IF p = o THEN "open" ELSE ex[p])
        /\ \A p \in Orders : done'[p] = done[p]
        /\ amount' = amount
    BY <1>1, <1>6 DEF TakeOrder, TypeOK, account
  <2>2. Stake(o[1])'
    BY <1>3, <1>4, <2>1 DEF Stake, Purposes, SignalOpen
  <2>3. o[2] = "entry" => done'[o] <= Lots
    BY <1>1, <2>1, ConstantsAssumption
  <2> QED BY <1>1, <1>2, <1>3, <1>6, <2>1, <2>2, <2>3, OneOrder
<1> QED BY <1>5, <1>6

(* Fills: an entry adds to the position what it buys, a target takes off   *)
(* what it sells, a stop all there is.                                     *)
LEMMA Filled ==
  ASSUME TypeOK, EntryIsFinal, ExchangeFacts, Held, NEW s \in Signals,
         FillEntry(s) \/ FillTakeProfit(s) \/ TriggerStop(s)
  PROVE  Held'
<1>1. /\ \A p \in Purposes : <<s, p>> \in Orders /\ done[<<s, p>>] \in Nat
      /\ amount \in Nat /\ Lots \in Nat
  BY OrderParts, ConstantsAssumption DEF TypeOK, account
<1>2. Stake(s) /\ Standing(s)
  BY DEF Held
<1>3. CASE FillEntry(s)
  <2> DEFINE o == <<s, "entry">>
  <2>1. ex[o] \in OpenEx
    BY <1>3 DEF FillEntry
  <2>2. SignalOpen(s) /\ pos[s] = "none"
    BY <1>2, <2>1 DEF Standing, EntryIsFinal
  <2>3. PICK n \in 1..(Lots - done[o]) :
          /\ ex' = [ex EXCEPT ![o] = Status(o, n)]
          /\ done' = [done EXCEPT ![o] = @ + n]
          /\ amount' = amount + n
    BY <1>3 DEF FillEntry, Remaining
  <2>4. \A p \in Orders : p # o => ex'[p] = ex[p] /\ done'[p] = done[p]
    BY <2>3 DEF TypeOK, account
  <2>5. done'[o] = done[o] + n
    BY <1>1, <2>3 DEF TypeOK, account, Purposes
  <2>6. done'[o] <= Lots
    BY <1>1, <2>3, <2>5 DEF Purposes
  <2>7. UNCHANGED <<sig, pos>>
    BY <1>3 DEF FillEntry, db, account
  <2>8. Stake(s)'
    <3>1. \A p \in Purposes \ {"entry"} : ex'[<<s, p>>] = ex[<<s, p>>] /\ done'[<<s, p>>] = done[<<s, p>>]
      BY <1>1, <2>4
    <3>2. \A p \in Purposes \ {"entry"} : ex'[<<s, p>>] = "none"
      BY <1>2, <2>2, <3>1 DEF Standing
    <3>3. amount + done[<<s, "take_profit">>] <= done[o]
      BY <1>2, <2>2 DEF Stake
    <3>4. amount' + done'[<<s, "take_profit">>] <= done'[o]
      BY <1>1, <2>3, <2>5, <3>1, <3>3 DEF Purposes
    <3> QED BY <3>2, <3>4 DEF Stake
  <2>9. \A t \in Signals : SignalOpen(t) => t = s
    BY <2>2 DEF Held
  <2> QED BY <1>1, <2>2, <2>4, <2>6, <2>7, <2>8, <2>9, OneOrder DEF Purposes, SymbolFree
<1>4. CASE FillTakeProfit(s) \/ TriggerStop(s)
  <2>1. PICK q \in {"take_profit", "stop_loss"} :
          /\ ex[<<s, q>>] \in OpenEx
          /\ \A p \in Orders : p # <<s, q>> => ex'[p] = ex[p] /\ done'[p] = done[p]
          /\ q = "stop_loss" =>
               /\ amount' \in Nat /\ amount' <= amount
               /\ amount <= done[<<s, "entry">>] => amount' = 0
          /\ q = "take_profit" =>
               \E n \in 1..(done[<<s, "entry">>] - done[<<s, q>>]) :
                 /\ n <= amount /\ amount' = amount - n /\ done'[<<s, q>>] = done[<<s, q>>] + n
                 /\ ex'[<<s, q>>] = "filled" => n = done[<<s, "entry">>] - done[<<s, q>>]
    <3>1. CASE FillTakeProfit(s)
      <4> DEFINE o == <<s, "take_profit">>
      <4>1. PICK n \in 1..(done[<<s, "entry">>] - done[o]) :
              /\ n <= amount
              /\ ex' = [ex EXCEPT ![o] = Status(o, n)]
              /\ done' = [done EXCEPT ![o] = @ + n]
              /\ amount' = amount - n
        BY <3>1 DEF FillTakeProfit, Remaining
      <4>2. ex'[o] = Status(o, n) /\ done'[o] = done[o] + n
        BY <1>1, <4>1 DEF TypeOK, account, Purposes
      <4>3. ex'[o] = "filled" => n = done[<<s, "entry">>] - done[o]
        BY <4>2 DEF Status, Remaining
      <4>4. \A p \in Orders : p # o => ex'[p] = ex[p] /\ done'[p] = done[p]
        BY <4>1 DEF TypeOK, account
      <4>5. ex[o] \in OpenEx
        BY <3>1 DEF FillTakeProfit
      <4> QED BY <4>1, <4>2, <4>3, <4>4, <4>5
    <3>2. CASE TriggerStop(s)
      <4> DEFINE o == <<s, "stop_loss">>
                 n == IF amount <= done[<<s, "entry">>] THEN amount ELSE done[<<s, "entry">>]
      <4>1. /\ ex[o] \in OpenEx /\ amount' = amount - n
            /\ ex' = [ex EXCEPT ![o] = "filled"] /\ done' = [done EXCEPT ![o] = n]
        BY <3>2 DEF TriggerStop
      <4>2. \A p \in Orders : p # o => ex'[p] = ex[p] /\ done'[p] = done[p]
        BY <4>1 DEF TypeOK
      <4>3. done[<<s, "entry">>] \in Nat
        BY <1>1 DEF Purposes
      <4>4. /\ amount' \in Nat /\ amount' <= amount
            /\ amount <= done[<<s, "entry">>] => amount' = 0
        BY <1>1, <4>1, <4>3
      <4> QED BY <4>1, <4>2, <4>4
    <3> QED BY <1>4, <3>1, <3>2
  <2>2. pos[s] # "none" /\ UNCHANGED <<sig, pos>>
    BY <1>2, <1>4, <2>1 DEF Standing, OpenEx, Purposes, FillTakeProfit, TriggerStop, db, account
  <2>3. amount' \in Nat /\ amount' <= amount
    BY <1>1, <2>1
  <2>4. ASSUME NEW t \in Signals, SignalOpen(t) PROVE Stake(t)'
    <3>1. Stake(t) /\ \A p \in Purposes : <<t, p>> \in Orders /\ done[<<t, p>>] \in Nat
      BY OrderParts DEF Held, TypeOK, account
    <3>2. CASE t # s
      <4>1. \A p \in Purposes : ex'[<<t, p>>] = ex[<<t, p>>] /\ done'[<<t, p>>] = done[<<t, p>>]
        BY <2>1, <3>1, <3>2
      <4>2. amount' + done'[<<t, "take_profit">>] <= done'[<<t, "entry">>]
        BY <1>1, <2>3, <2>4, <3>1, <4>1 DEF Stake, Purposes
      <4>3. \A p \in Purposes \ {"entry"} : ex'[<<t, p>>] = "filled" => amount' = 0
        BY <1>1, <2>3, <2>4, <3>1, <4>1 DEF Stake
      <4> QED BY <4>2, <4>3 DEF Stake
    <3>3. CASE t = s
      <4>1. amount + done[<<s, "take_profit">>] <= done[<<s, "entry">>]
        BY <2>4, <3>1, <3>3 DEF Stake
      <4>2. done'[<<s, "entry">>] = done[<<s, "entry">>]
        BY <1>1, <2>1 DEF Purposes
      <4>3. CASE q = "stop_loss"
        <5>0. amount <= done[<<s, "entry">>]
          BY <1>1, <4>1 DEF Purposes
        <5>1. done'[<<s, "take_profit">>] = done[<<s, "take_profit">>] /\ amount' = 0
          BY <1>1, <2>1, <4>3, <5>0 DEF Purposes
        <5>2. amount' + done'[<<s, "take_profit">>] <= done'[<<s, "entry">>]
          BY <1>1, <4>1, <4>2, <5>1 DEF Purposes
        <5> QED BY <3>3, <5>1, <5>2 DEF Stake
      <4>4. CASE q = "take_profit"
        <5>1. PICK n \in 1..(done[<<s, "entry">>] - done[<<s, q>>]) :
                /\ n <= amount /\ amount' = amount - n /\ done'[<<s, q>>] = done[<<s, q>>] + n
                /\ ex'[<<s, q>>] = "filled" => n = done[<<s, "entry">>] - done[<<s, q>>]
          BY <2>1, <4>4
        <5>2. amount' + done'[<<s, "take_profit">>] <= done'[<<s, "entry">>]
          BY <1>1, <4>1, <4>2, <4>4, <5>1 DEF Purposes
        <5>3. ex'[<<s, q>>] = "filled" => amount' = 0
          BY <1>1, <4>1, <4>4, <5>1 DEF Purposes
        <5>4. ASSUME NEW p \in Purposes \ {"entry"}, ex'[<<s, p>>] = "filled" PROVE amount' = 0
          <6>1. CASE p = q
            BY <5>3, <5>4, <6>1
          <6>2. CASE p # q
            <7>1. ex[<<s, p>>] = "filled"
              BY <1>1, <2>1, <5>4, <6>2
            <7>2. amount = 0
              BY <2>4, <3>1, <3>3, <7>1 DEF Stake
            <7> QED BY <1>1, <2>3, <7>2
          <6> QED BY <6>1, <6>2
        <5> QED BY <3>3, <5>2, <5>4 DEF Stake
      <4> QED BY <4>3, <4>4
    <3> QED BY <3>2, <3>3
  <2>5. SymbolFree => amount' = 0
    BY <1>1, <2>3 DEF Held
  <2>6. <<s, q>> \in Orders
    BY <1>1 DEF Purposes
  <2> QED BY <2>1, <2>2, <2>4, <2>5, <2>6, OneOrder
<1> QED BY <1>3, <1>4

(* What a run knows stays true while the exchange goes on: no order that   *)
(* has ended opens again, and of nothing becomes something only for a      *)
(* signal without a position.                                              *)
LEMMA Watched ==
  ASSUME IInv, Held, NEW w \in Workers, Knows(w), UNCHANGED <<run, sig, pos>>,
         \A o \in Orders : ex[o] \notin OpenEx /\ done[o] = 0 => ex'[o] \notin OpenEx /\ done'[o] = 0,
         (\E s \in Signals : SignalOpen(s) /\ pos[s] # "none") /\ amount = 0 => amount' = 0
  PROVE  Knows(w)'
<1> DEFINE s == run[w].cur
<1>1. s \in Signals /\ Order(w) \in Orders /\ run[w].todo \in SUBSET Signals
  BY SmallTypes DEF IInv
<1>2. RunFacts(w)
  BY DEF IInv
<1>3. CASE At(w, "finish") \/ At(w, "finish_signal") \/ (At(w, "cancel") /\ run[w].after = "finish")
  <2>1. pos[s] # "none" /\ SignalOpen(s) /\ amount = 0
    BY <1>2, <1>3 DEF Knows, RunFacts, SignalFacts, At, WithSignal, PcLabels
  <2>2. amount' = 0
    BY <1>1, <2>1
  <2> QED BY <1>3, <2>2 DEF Knows, At, SignalOpen
<1>4. CASE At(w, "compare")
  <2>1. \A t \in OpenPositions : t \in Signals /\ SignalOpen(t) /\ pos[t] # "none"
    BY DEF Held, Standing, OpenPositions
  <2>2. run[w].amt = 0 /\ OpenPositions # {} => amount' = 0
    BY <1>4, <2>1 DEF Knows
  <2> QED BY <1>4, <2>2 DEF Knows, At, SignalOpen, OpenPositions, WithSignal
<1>5. CASE At(w, "recon_close")
  <2>1. \A t \in run[w].todo : t \in Signals /\ SignalOpen(t) /\ pos[t] # "none"
    BY <1>1, <1>2, <1>5 DEF Knows, RunFacts, TodoFacts
  <2>2. run[w].todo # {} => amount' = 0
    BY <1>5, <2>1 DEF Knows
  <2> QED BY <1>5, <2>2 DEF Knows, At, SignalOpen, WithSignal
<1>6. CASE ~(At(w, "finish") \/ At(w, "finish_signal") \/ At(w, "compare") \/ At(w, "recon_close")
            \/ (At(w, "cancel") /\ run[w].after = "finish"))
  <2>1. Order(w)' = Order(w)
    BY DEF Order
  <2>2. At(w, "gone") /\ run[w].at = "entry" => ex'[Order(w)] \notin OpenEx /\ done'[Order(w)] = 0
    BY <1>1 DEF Knows
  <2> QED BY <1>6, <2>1, <2>2 DEF Knows, At, SignalOpen, SymbolFree
<1> QED BY <1>3, <1>4, <1>5, <1>6

(* The exchange and the setups keep both.                                  *)
LEMMA ExchangeOne ==
  ASSUME IInv, Held, NEW w \in Workers, Knows(w), Exchange \/ \E s \in Signals : SetupMoves(s)
  PROVE  Held' /\ Knows(w)'
<1>1. TypeOK /\ EntryIsFinal /\ ExchangeFacts
  BY DEF IInv
<1>2. ASSUME NEW s \in Signals, FillEntry(s) \/ FillTakeProfit(s) \/ TriggerStop(s)
      PROVE  Held' /\ Knows(w)'
  <2>1. Held'
    BY <1>1, <1>2, Filled
  <2>2. UNCHANGED <<run, sig, pos>>
    BY <1>2 DEF FillEntry, FillTakeProfit, TriggerStop, db, account
  <2>3. PICK o \in Orders :
          /\ o[1] = s /\ ex[o] \in OpenEx
          /\ \A p \in Orders : p # o => ex'[p] = ex[p] /\ done'[p] = done[p]
          /\ o[2] = "entry" \/ amount' <= amount
    <3>1. \A p \in Purposes : <<s, p>> \in Orders
      BY OrderParts
    <3>2. amount \in Nat /\ done[<<s, "take_profit">>] \in Nat /\ done[<<s, "entry">>] \in Nat
      BY <1>1, <3>1 DEF TypeOK, account, Purposes
    <3>3. CASE FillEntry(s)
      BY <1>1, <3>1, <3>3 DEF FillEntry, TypeOK, account, Purposes
    <3>4. CASE FillTakeProfit(s)
      <4> DEFINE o == <<s, "take_profit">>
      <4>1. PICK n \in 1..Remaining(o) :
              /\ n <= amount /\ amount' = amount - n
              /\ ex' = [ex EXCEPT ![o] = Status(o, n)]
              /\ done' = [done EXCEPT ![o] = @ + n]
        BY <3>4 DEF FillTakeProfit
      <4>2. n \in 1..(done[<<s, "entry">>] - done[o])
        BY <4>1 DEF Remaining
      <4>3. amount' <= amount
        BY <3>2, <4>1, <4>2
      <4>4. \A p \in Orders : p # o => ex'[p] = ex[p] /\ done'[p] = done[p]
        BY <1>1, <4>1 DEF TypeOK, account
      <4> QED BY <3>1, <3>4, <4>3, <4>4 DEF FillTakeProfit, Purposes
    <3>5. CASE TriggerStop(s)
      <4> DEFINE o == <<s, "stop_loss">>
                 n == IF amount <= done[<<s, "entry">>] THEN amount ELSE done[<<s, "entry">>]
      <4>1. /\ ex[o] \in OpenEx /\ amount' = amount - n
            /\ ex' = [ex EXCEPT ![o] = "filled"] /\ done' = [done EXCEPT ![o] = n]
        BY <3>5 DEF TriggerStop
      <4>2. \A p \in Orders : p # o => ex'[p] = ex[p] /\ done'[p] = done[p]
        BY <1>1, <4>1 DEF TypeOK
      <4>3. amount' <= amount
        BY <3>2, <4>1
      <4> QED BY <3>1, <4>1, <4>2, <4>3 DEF Purposes
    <3> QED BY <1>2, <3>3, <3>4, <3>5
  <2>4. \A p \in Orders : ex[p] \notin OpenEx /\ done[p] = 0 => ex'[p] \notin OpenEx /\ done'[p] = 0
    BY <2>3
  <2>5. ASSUME NEW t \in Signals, SignalOpen(t), pos[t] # "none", amount = 0 PROVE amount' = 0
    <3>1. CASE o[2] = "entry"
      <4>1. o = <<s, "entry">>
        BY <2>3, <3>1, OrderShape
      <4>2. SignalOpen(s) /\ pos[s] = "none"
        BY <1>1, <2>3, <4>1 DEF Held, Standing, EntryIsFinal
      <4> QED BY <2>5, <4>2 DEF Held
    <3>2. CASE amount' <= amount
      <4>1. amount' \in Nat
        BY <1>2, FillsStep DEF IInv, TypeOK, account
      <4> QED BY <2>5, <3>2, <4>1
    <3> QED BY <2>3, <3>1, <3>2
  <2> QED BY <2>1, <2>2, <2>4, <2>5, Watched
<1>3. ASSUME NEW o \in Orders, ExpireReduceOnly(o) \/ Expire(o) \/ Forget(o)
      PROVE  Held' /\ Knows(w)'
  <2>1. PICK status \in {"expired", "none"} : ex' = [ex EXCEPT ![o] = status]
    BY <1>3 DEF ExpireReduceOnly, Expire, Forget
  <2>2. UNCHANGED <<run, sig, pos, done, amount>> /\ ex[o] # "none"
    BY <1>3 DEF ExpireReduceOnly, Expire, Forget, db, account, OpenEx, ClosedEx
  <2>3. o[2] # "entry" => pos[o[1]] # "none"
    <3>1. o[1] \in Signals /\ o[2] \in Purposes /\ o = <<o[1], o[2]>>
      BY OrderShape
    <3>2. Standing(o[1])
      BY <3>1 DEF Held
    <3> QED BY <2>2, <3>1, <3>2 DEF Standing
  <2>4. Held'
    BY <1>1, <2>1, <2>2, <2>3, Ended DEF ExStatus, OpenEx
  <2>5. \A p \in Orders : ex[p] \notin OpenEx => ex'[p] \notin OpenEx
    BY <1>1, <2>1 DEF TypeOK, account, OpenEx
  <2> QED BY <2>2, <2>4, <2>5, Watched
<1>4. CASE CloseByHand
  <2>1. UNCHANGED <<run, sig, pos, ex, done>> /\ amount' = 0 /\ amount \in Nat
    BY <1>1, <1>4 DEF CloseByHand, db, account, TypeOK
  <2>2. \A s \in Signals : done[<<s, "take_profit">>] \in Nat /\ done[<<s, "entry">>] \in Nat
    BY <1>1, OrderParts DEF TypeOK, account, Purposes
  <2>3. ASSUME NEW s \in Signals PROVE Stake(s)'
    BY <2>1, <2>2 DEF Held, Stake, SignalOpen
  <2>4. Held'
    BY <2>1, <2>3 DEF Held, Standing, SignalOpen
  <2> QED BY <2>1, <2>4, Watched
<1>5. CASE \E s \in Signals : SetupMoves(s)
  <2>1. UNCHANGED <<run, sig, pos, ex, done, amount>>
    BY <1>5 DEF SetupMoves, db, account, exchange
  <2>2. Held'
    BY <2>1, HeldKept
  <2> QED BY <2>1, <2>2, Watched
<1> QED BY <1>2, <1>3, <1>4, <1>5 DEF Exchange

--------------------------------------------------------------------------------
(* What the runs do                                                        *)

(* A step that only moves a worker on to a step of the same signal.        *)
LEMMA GotoWorks ==
  ASSUME TypeOK, NEW w \in Workers, NEW label \in Plain, Goto(w, label), run[w].todo = {},
         sig'[run[w].cur] \in {"armed", "entered"}
  PROVE  Knows(w)'
<1>1. label \in PcLabels
  BY DEF Plain, WithSignal
<1>2. run'[w].pc = label /\ run'[w].todo = {} /\ run'[w].cur = run[w].cur
  BY <1>1, GotoFields
<1> QED BY <1>2, Works DEF SignalOpen

(* Nothing of the order at hand is on the exchange, or it was never filled. *)
LEMMA GotoGone ==
  ASSUME TypeOK, NEW w \in Workers, Goto(w, "gone"), run[w].todo = {},
         sig'[run[w].cur] \in {"armed", "entered"}, UNCHANGED <<ex, done>>,
         run[w].at = "entry" => ex[Order(w)] \notin OpenEx /\ done[Order(w)] = 0
  PROVE  Knows(w)'
<1>1. run'[w].pc = "gone" /\ run'[w].todo = {} /\ run'[w].cur = run[w].cur /\ run'[w].at = run[w].at
  BY GotoFields DEF PcLabels
<1>2. Order(w)' = Order(w)
  BY <1>1 DEF Order
<1> QED BY <1>1, <1>2 DEF Knows, At, WithSignal, PcLabels, SignalOpen

(* The signal is finished with nothing left at stake.                      *)
LEMMA GotoFinish ==
  ASSUME TypeOK, NEW w \in Workers, Goto(w, "finish"), run[w].todo = {},
         sig'[run[w].cur] \in {"armed", "entered"}, amount' = 0
  PROVE  Knows(w)'
<1>1. run'[w].pc = "finish" /\ run'[w].todo = {} /\ run'[w].cur = run[w].cur
  BY GotoFields DEF PcLabels
<1> QED BY <1>1 DEF Knows, At, WithSignal, PcLabels, SignalOpen

(* _sync.                                                                  *)
LEMMA SyncOne ==
  ASSUME IInv, Held, NEW w \in Workers, Knows(w), Sync(w)
  PROVE  Held' /\ Knows(w)'
<1>1. TypeOK /\ ExchangeFacts /\ Order(w) \in Orders
  BY SmallTypes DEF IInv
<1>2. SignalOpen(run[w].cur) /\ run[w].todo = {}
  BY <1>1, AtWork DEF Sync, SyncKnown, SyncMissing, SyncResubmits, At, Plain, WithSignal, PcLabels
<1>3. UNCHANGED <<sig, pos, ex, done, amount>>
  BY DEF Sync, SyncKnown, SyncMissing, SyncResubmits, db, account, exchange
<1>4. Held'
  BY <1>3, HeldKept
<1>5. Goto(w, "known") \/ Goto(w, "place") \/ (Goto(w, "gone") /\ ex[Order(w)] = "none")
  BY DEF Sync, SyncKnown, SyncMissing, SyncResubmits
<1>6. sig'[run[w].cur] \in {"armed", "entered"}
  BY <1>2, <1>3 DEF SignalOpen
<1>7. CASE Goto(w, "known") \/ Goto(w, "place")
  BY <1>1, <1>2, <1>4, <1>6, <1>7, GotoWorks DEF Plain, WithSignal, PcLabels
<1>8. CASE Goto(w, "gone") /\ ex[Order(w)] = "none"
  <2>1. ex[Order(w)] \notin OpenEx /\ done[Order(w)] = 0
    BY <1>1, <1>8 DEF ExchangeFacts, OpenEx
  <2> QED BY <1>1, <1>2, <1>3, <1>4, <1>6, <1>8, <2>1, GotoGone
<1> QED BY <1>5, <1>7, <1>8

(* _submit: an order that had not been there is there, once.               *)
LEMMA PlaceOne ==
  ASSUME IInv, Held, NEW w \in Workers, Knows(w), Place(w) \/ CloseExpires(w) \/ PlaceUnanswered(w)
  PROVE  Held' /\ Knows(w)'
<1> DEFINE o == Order(w)
<1>1. /\ TypeOK /\ ExchangeFacts /\ o \in Orders /\ o[1] = run[w].cur /\ o[2] = run[w].at
      /\ run[w] \in RunType
  BY SmallTypes DEF IInv, Order
<1>2. At(w, "place") /\ UNCHANGED <<sig, pos>>
  BY DEF Place, PlaceAccepted, PlaceRejected, CloseExpires, PlaceUnanswered, db, account
<1>3. SignalOpen(run[w].cur) /\ run[w].todo = {}
  BY <1>1, <1>2, AtWork DEF At, Plain, WithSignal, PcLabels
<1>4. /\ ex[o] = "none"
      /\ o[2] # "entry" => pos[o[1]] # "none"
  BY <1>1, <1>2 DEF IInv, RunFacts, SignalFacts, OrderFacts, At
<1>5. sig'[run[w].cur] \in {"armed", "entered"}
  BY <1>2, <1>3 DEF SignalOpen
<1>6. ASSUME TakeOrder(o) PROVE Held'
  BY <1>1, <1>2, <1>3, <1>4, <1>6, Taken
<1>7. CASE PlaceAccepted(w)
  <2>1. CASE run[w].back = "new"
    <3>1. run' = [run EXCEPT ![w] = Return(run[w])]
      BY <1>7, <2>1 DEF PlaceAccepted
    <3> QED BY <1>1, <1>3, <1>6, <1>7, <3>1, ReturnRests DEF PlaceAccepted
  <2>2. CASE run[w].back # "new"
    <3>1. Goto(w, "known")
      BY <1>1, <1>7, <2>2 DEF PlaceAccepted, Goto, TypeOK, account
    <3> QED BY <1>1, <1>3, <1>5, <1>6, <1>7, <3>1, GotoWorks DEF PlaceAccepted, Plain, WithSignal, PcLabels
  <2> QED BY <2>1, <2>2
<1>8. CASE CloseExpires(w)
  <2>1. Held'
    BY <1>1, <1>2, <1>4, <1>8, Ended DEF CloseExpires, ExStatus, OpenEx
  <2> QED BY <1>1, <1>3, <1>5, <1>8, <2>1, GotoWorks DEF CloseExpires, Plain, WithSignal, PcLabels
<1>9. CASE PlaceUnanswered(w)
  <2>1. UNCHANGED exchange => Held'
    BY <1>2, HeldKept DEF account, exchange
  <2>2. Held'
    BY <1>6, <1>9, <2>1 DEF PlaceUnanswered
  <2>3. Knows(w)'
    BY <1>1, <1>3, <1>5, <1>9, OnwardWorks DEF PlaceUnanswered
  <2> QED BY <2>2, <2>3
<1>10. CASE PlaceRejected(w)
  <2>1. UNCHANGED <<ex, done, amount>> /\ Goto(w, "gone")
    BY <1>10 DEF PlaceRejected, account, exchange
  <2>2. ex[o] \notin OpenEx /\ done[o] = 0
    BY <1>1, <1>4 DEF ExchangeFacts, OpenEx
  <2> QED BY <1>1, <1>2, <1>3, <1>5, <2>1, <2>2, HeldKept, GotoGone
<1> QED BY <1>7, <1>8, <1>9, <1>10 DEF Place

(* Some signal changes its status, position or settlement, and nothing     *)
(* moves on the exchange.                                                  *)
LEMMA OneSignal ==
  ASSUME Held, NEW s \in Signals, UNCHANGED <<ex, done, amount>>,
         \A t \in Signals : t # s => sig'[t] = sig[t] /\ pos'[t] = pos[t],
         sig'[s] \in {"armed", "entered"} => \A t \in Signals : SignalOpen(t) => t = s,
         sig'[s] \in {"armed", "entered"} => Stake(s)',
         sig'[s] \notin {"armed", "entered"} /\ SignalOpen(s) => amount = 0,
         Standing(s)'
  PROVE  Held'
<1>1. \A t \in Signals : t # s => (SignalOpen(t)' <=> SignalOpen(t))
  BY DEF SignalOpen
<1>2. \A t, u \in Signals : SignalOpen(t)' /\ SignalOpen(u)' => t = u
  BY <1>1 DEF Held, SignalOpen
<1>3. SymbolFree' => amount' = 0
  BY <1>1 DEF Held, SymbolFree, SignalOpen
<1>4. ASSUME NEW t \in Signals PROVE Stake(t)' /\ Standing(t)'
  <2>1. CASE t = s
    BY <2>1 DEF Stake, SignalOpen
  <2>2. CASE t # s
    <3>1. Stake(t) /\ Standing(t)
      BY DEF Held
    <3> QED BY <1>1, <2>2, <3>1 DEF Stake, Standing, SignalOpen
  <2> QED BY <2>1, <2>2
<1> QED BY <1>2, <1>3, <1>4 DEF Held

(* The first open signal a run takes up is the only one.                   *)
LEMMA TakenUp ==
  ASSUME TypeOK, Held, NEW w \in Workers, Knows(w), NEW s \in run[w].todo
  PROVE  s \in Signals /\ SignalOpen(s) /\ run[w].todo \ {s} = {}
<1>1. run[w].todo \subseteq Signals
  BY SmallTypes
<1>2. \A t \in run[w].todo : SignalOpen(t)
  BY DEF Knows
<1> QED BY <1>1, <1>2 DEF Held

(* update_armed: a signal that is cancelled has bought nothing.            *)
LEMMA ArmedOne ==
  ASSUME IInv, Held, NEW w \in Workers, Knows(w), Armed(w)
  PROVE  Held' /\ Knows(w)'
<1> DEFINE o == Order(w)
<1>1. /\ TypeOK /\ LedgerIsReal /\ o \in Orders /\ o = <<run[w].cur, run[w].at>>
      /\ run[w] \in RunType /\ run[w].cur \in Signals
  BY SmallTypes DEF IInv
<1>2. CASE UpdateArmed(w)
  <2>1. PICK s \in run[w].todo :
          LET r == [run[w] EXCEPT !.todo = @ \ {s}, !.cur = s]
          IN  run' = [run EXCEPT ![w] = IF row[<<s, "entry">>] = "open" THEN SyncNext(r, "entry") ELSE Return(r)]
    BY <1>2 DEF UpdateArmed
  <2> DEFINE r == [run[w] EXCEPT !.todo = @ \ {s}, !.cur = s]
  <2>2. s \in Signals /\ SignalOpen(s) /\ run[w].todo \ {s} = {}
    BY <1>1, TakenUp
  <2>3. /\ r \in RunType /\ r.todo = {} /\ r.cur = s /\ r.back = run[w].back
    BY <1>1, <2>2 DEF RunType
  <2> HIDE DEF r
  <2>4. run'[w] \in {SyncNext(r, "entry"), Return(r)}
    BY <1>1, <2>1 DEF TypeOK, account, r
  <2>5. UNCHANGED <<sig, pos, ex, done, amount>>
    BY <1>2 DEF UpdateArmed, db, account, exchange
  <2>6. CASE run'[w] = SyncNext(r, "entry")
    <3>1. run'[w].pc = "sync" /\ run'[w].cur = s /\ run'[w].todo = {}
      BY <2>3, <2>6, SyncNextFields DEF Purposes
    <3>2. run'[w].pc \in Plain /\ SignalOpen(run[w].cur)'
      BY <2>2, <2>5, <3>1 DEF Plain, WithSignal, PcLabels, SignalOpen
    <3> QED BY <2>5, <3>1, <3>2, HeldKept, Works
  <2>7. CASE run'[w] = Return(r)
    <3>1. run'[w].pc \in Resting /\ run'[w].todo = {}
      BY <2>3, <2>7, ReturnFields DEF RunType, Resting
    <3> QED BY <2>5, <3>1, HeldKept, Rests
  <2> QED BY <2>4, <2>6, <2>7
<1>3. CASE At(w, "known") \/ At(w, "gone")
  <2>1. SignalOpen(run[w].cur) /\ run[w].todo = {}
    BY <1>1, <1>3, AtWork DEF At, Plain, WithSignal, PcLabels
  <2>2. sig' = sig => sig'[run[w].cur] \in {"armed", "entered"}
    BY <2>1 DEF SignalOpen
  <2>3. CASE CancelDeadEntry(w)
    <3>1. /\ ex' = [ex EXCEPT ![o] = "cancelled"] /\ run[w].at = "entry" /\ At(w, "known")
          /\ UNCHANGED <<run, sig, pos, done, amount>>
      BY <2>3 DEF CancelDeadEntry, db, account
    <3>2. o[2] = "entry"
      BY <3>1 DEF Order
    <3>3. Held'
      BY <1>1, <3>1, <3>2, Ended DEF ExStatus, OpenEx
    <3>4. run'[w].pc \in Plain /\ run'[w].todo = {} /\ SignalOpen(run[w].cur)'
      BY <2>1, <3>1 DEF Plain, WithSignal, PcLabels, At, SignalOpen
    <3> QED BY <3>3, <3>4, Works
  <2>4. CASE EntryWaits(w)
    BY <1>1, <2>1, <2>4, HeldKept, ReturnRests DEF EntryWaits, db, account, exchange
  <2>5. CASE EntryFilled(w)
    <3>1. UNCHANGED <<sig, pos, ex, done, amount>> /\ Goto(w, "open_position")
      BY <2>5 DEF EntryFilled, db, account, exchange
    <3> QED BY <1>1, <2>1, <2>2, <3>1, HeldKept, GotoWorks DEF Plain, WithSignal, PcLabels
  <2>6. CASE EntryClosed(w)
    <3>1. /\ UNCHANGED <<sig, pos, ex, done, amount>> /\ Goto(w, "gone")
          /\ ex[o] \in ClosedEx /\ ~EntryExecuted(o)
      BY <2>6 DEF EntryClosed, account, exchange
    <3>2. ex[o] \notin OpenEx /\ done[o] = 0
      BY <1>1, <3>1 DEF TypeOK, account, EntryExecuted, OpenEx, ClosedEx
    <3> QED BY <1>1, <2>1, <2>2, <3>1, <3>2, HeldKept, GotoGone
  <2>7. CASE CancelSignal(w)
    <3>1. PICK s \in Signals : s = run[w].cur
      BY <1>1
    <3>2. /\ sig' = [sig EXCEPT ![s] = "cancelled"] /\ At(w, "gone") /\ run[w].at = "entry"
          /\ UNCHANGED <<pos, ex, done, amount>> /\ run' = [run EXCEPT ![w] = Return(run[w])]
      BY <2>7, <3>1 DEF CancelSignal, account, exchange
    <3>3. ex[<<s, "entry">>] \notin OpenEx /\ done[<<s, "entry">>] = 0
      BY <1>1, <3>1, <3>2 DEF Knows
    <3>4. Stake(s) /\ Standing(s) /\ SignalOpen(s)
      BY <2>1, <3>1 DEF Held
    <3>5. pos[s] = "none"
      BY <1>1, <3>3 DEF LedgerIsReal
    <3>6. amount = 0
      <4>1. amount \in Nat /\ done[<<s, "take_profit">>] \in Nat
        BY <1>1, OrderParts DEF TypeOK, account, Purposes
      <4>2. amount + done[<<s, "take_profit">>] <= 0
        BY <3>3, <3>4 DEF Stake
      <4> QED BY <4>1, <4>2
    <3>7. sig'[s] = "cancelled" /\ \A t \in Signals : t # s => sig'[t] = sig[t]
      BY <1>1, <3>2 DEF TypeOK, account
    <3>9. Standing(s)'
      BY <3>2, <3>3, <3>4, <3>5, <3>7 DEF Standing
    <3>10. Held'
      BY <3>2, <3>6, <3>7, <3>9, OneSignal
    <3> QED BY <1>1, <2>1, <3>2, <3>10, ReturnRests
  <2> QED BY <1>2, <1>3, <2>3, <2>4, <2>5, <2>6, <2>7 DEF Armed
<1> QED BY <1>2, <1>3 DEF Armed, CancelDeadEntry, EntryWaits, EntryFilled, EntryClosed, CancelSignal

(* update_entered takes a signal up.                                       *)
LEMMA ProtectOne ==
  ASSUME TypeOK, NEW w \in Workers, NEW r \in RunType, NEW s \in Signals, r.todo = {}, SignalOpen(s),
         run' = [run EXCEPT ![w] = BeginProtect(r, s)], UNCHANGED sig
  PROVE  Knows(w)'
<1>1. run'[w] = BeginProtect(r, s)
  BY DEF TypeOK, account
<1>2. /\ run'[w].todo = {}
      /\ \/ run'[w].pc = r.back
         \/ (run'[w].pc = "sync" \/ run'[w].pc = "expiry") /\ run'[w].cur = s
  BY <1>1, BeginProtectFields
<1>3. CASE run'[w].pc = r.back
  <2>1. run'[w].pc \in Resting
    BY <1>3 DEF RunType, Resting
  <2> QED BY <1>2, <2>1, Rests
<1>4. CASE (run'[w].pc = "sync" \/ run'[w].pc = "expiry") /\ run'[w].cur = s
  <2>1. run'[w].pc \in Plain /\ SignalOpen(run[w].cur)'
    BY <1>4 DEF Plain, WithSignal, PcLabels, SignalOpen
  <2> QED BY <1>2, <2>1, Works
<1> QED BY <1>2, <1>3, <1>4

(* _entered: the position is the one its signal holds the symbol with.     *)
LEMMA EnterOne ==
  ASSUME IInv, Held, NEW w \in Workers, Knows(w), Enter(w)
  PROVE  Held' /\ Knows(w)'
<1>1. TypeOK /\ run[w] \in RunType /\ run[w].cur \in Signals
  BY SmallTypes DEF IInv
<1>2. run[w].pc \in Plain
  BY DEF Enter, OpenPosition, FillEntryRow, CreateStopRow, CreateTakeProfitRow, MarkEntered, Protect,
         At, Plain, WithSignal, PcLabels
<1>3. SignalOpen(run[w].cur) /\ run[w].todo = {}
  BY <1>1, <1>2, AtWork
<1>4. PICK s \in Signals : s = run[w].cur
  BY <1>1
<1>5. Stake(s) /\ Standing(s) /\ SignalOpen(s)
  BY <1>3, <1>4 DEF Held
<1>6. CASE OpenPosition(w)
  <2>1. UNCHANGED <<sig, ex, done, amount>> /\ Goto(w, "fill_entry")
    BY <1>6 DEF OpenPosition, account, exchange
  <2>2. /\ \A t \in Signals : t # s => pos'[t] = pos[t]
        /\ pos'[s] # "none"
    BY <1>1, <1>4, <1>6 DEF OpenPosition, TypeOK, account
  <2>3. Standing(s)'
    BY <1>5, <2>1, <2>2 DEF Standing, SignalOpen
  <2>4. Stake(s)'
    BY <1>5, <2>1 DEF Stake, SignalOpen
  <2>5. Held'
    BY <1>5, <2>1, <2>2, <2>3, <2>4, OneSignal DEF SignalOpen, Held
  <2>6. sig'[run[w].cur] \in {"armed", "entered"}
    BY <1>3, <2>1 DEF SignalOpen
  <2> QED BY <1>1, <1>3, <2>1, <2>5, <2>6, GotoWorks DEF Plain, WithSignal, PcLabels
<1>7. CASE FillEntryRow(w) \/ CreateStopRow(w) \/ CreateTakeProfitRow(w)
  <2>1. /\ UNCHANGED <<sig, pos, ex, done, amount>>
        /\ Goto(w, "sl_row") \/ Goto(w, "tp_row") \/ Goto(w, "mark_entered")
    BY <1>7 DEF FillEntryRow, CreateStopRow, CreateTakeProfitRow, account, exchange
  <2>2. sig'[run[w].cur] \in {"armed", "entered"}
    BY <1>3, <2>1 DEF SignalOpen
  <2> QED BY <1>1, <1>3, <2>1, <2>2, HeldKept, GotoWorks DEF Plain, WithSignal, PcLabels
<1>8. CASE MarkEntered(w)
  <2>1. UNCHANGED <<pos, ex, done, amount>> /\ Goto(w, "protect")
    BY <1>8 DEF MarkEntered, account, exchange
  <2>2. sig'[s] = "entered" /\ \A t \in Signals : t # s => sig'[t] = sig[t]
    BY <1>1, <1>4, <1>8 DEF MarkEntered, TypeOK, account
  <2>3. Standing(s)'
    BY <1>5, <2>1, <2>2 DEF Standing, SignalOpen
  <2>4. Stake(s)'
    BY <1>5, <2>1, <2>2 DEF Stake, SignalOpen
  <2>5. Held'
    BY <1>5, <2>1, <2>2, <2>3, <2>4, OneSignal DEF Held
  <2> QED BY <1>1, <1>3, <1>4, <2>1, <2>2, <2>5, GotoWorks DEF Plain, WithSignal, PcLabels
<1>9. CASE Protect(w)
  <2>1. UNCHANGED <<sig, pos, ex, done, amount>>
    BY <1>9 DEF Protect, db, account, exchange
  <2> QED BY <1>1, <1>3, <1>9, <2>1, HeldKept, ProtectOne DEF Protect
<1> QED BY <1>6, <1>7, <1>8, <1>9 DEF Enter

(* Orders are to be cancelled before the signal is finished.               *)
LEMMA CancelsNext ==
  ASSUME TypeOK, NEW w \in Workers, NEW r \in RunType, NEW orders \in SUBSET Orders,
         NEW after \in {"exit", "amount", "finish"}, run' = [run EXCEPT ![w] = CancelThen(r, orders, after)],
         r.todo = {}, SignalOpen(r.cur), UNCHANGED <<sig, amount>>, after = "finish" => amount = 0
  PROVE  Knows(w)'
<1>1. run'[w] = CancelThen(r, orders, after)
  BY DEF TypeOK, account
<1>2. run'[w].pc = "cancel" /\ run'[w].cur = r.cur /\ run'[w].todo = {} /\ run'[w].after = after
  BY <1>1, CancelThenFields
<1> QED BY <1>2, Cancels DEF SignalOpen

(* update_entered: whatever was filled completely has left nothing.        *)
LEMMA EnteredOne ==
  ASSUME IInv, Held, NEW w \in Workers, Knows(w), Entered(w)
  PROVE  Held' /\ Knows(w)'
<1> DEFINE o == Order(w)
<1>1. /\ TypeOK /\ o \in Orders /\ o = <<run[w].cur, run[w].at>>
      /\ run[w] \in RunType /\ run[w].cur \in Signals /\ run[w].at \in Purposes
      /\ run[w].list \in SUBSET Orders
  BY SmallTypes DEF IInv
<1>2. UNCHANGED <<sig, pos, ex, done, amount>>
  BY DEF Entered, UpdateEntered, StillOpen, ExitFilled, ProtectionClosed, StopGone, OtherGone,
         CheckExpiry, CloseFilled, CloseUnconfirmed, db, account, exchange
<1>3. Held'
  BY <1>2, HeldKept
<1>4. CASE UpdateEntered(w)
  <2>1. PICK s \in run[w].todo : run' = [run EXCEPT ![w] = BeginProtect([run[w] EXCEPT !.todo = @ \ {s}], s)]
    BY <1>4 DEF UpdateEntered
  <2> DEFINE r == [run[w] EXCEPT !.todo = @ \ {s}]
  <2>2. s \in Signals /\ SignalOpen(s) /\ run[w].todo \ {s} = {}
    BY <1>1, TakenUp
  <2>3. r \in RunType /\ r.todo = {}
    BY <1>1, <2>2 DEF RunType
  <2> HIDE DEF r
  <2>4. run' = [run EXCEPT ![w] = BeginProtect(r, s)]
    BY <2>1 DEF r
  <2> QED BY <1>1, <1>2, <1>3, <2>2, <2>3, <2>4, ProtectOne
<1>5. CASE run[w].pc \in {"known", "gone", "expiry"}
  <2>1. SignalOpen(run[w].cur) /\ run[w].todo = {}
    BY <1>1, <1>5, AtWork DEF Plain, WithSignal, PcLabels
  <2>2. sig'[run[w].cur] \in {"armed", "entered"}
    BY <1>2, <2>1 DEF SignalOpen
  <2>3. OpenProtective(run[w].cur) \in SUBSET Orders
    BY <1>1, OpenProtectiveShape
  <2>4. CASE StillOpen(w) \/ OtherGone(w)
    BY <1>1, <1>3, <2>1, <2>2, <2>4, OnwardWorks DEF StillOpen, OtherGone
  <2>5. CASE ExitFilled(w)
    <3>1. run[w].list \ {o} \in SUBSET Orders
      BY <1>1
    <3> QED BY <1>1, <1>2, <1>3, <2>1, <2>5, <3>1, CancelsNext DEF ExitFilled
  <2>6. CASE ProtectionClosed(w)
    <3>1. Goto(w, "gone") /\ run[w].at # "entry"
      BY <2>6 DEF ProtectionClosed
    <3> QED BY <1>1, <1>2, <1>3, <2>1, <2>2, <3>1, GotoGone
  <2>7. CASE StopGone(w)
    BY <1>1, <1>2, <1>3, <2>1, <2>3, <2>7, CancelsNext DEF StopGone
  <2>8. CASE CheckExpiry(w)
    <3>1. CASE setup[run[w].cur] = "expired"
      <4>1. run' = [run EXCEPT ![w] = CancelThen(run[w], OpenProtective(run[w].cur), "amount")]
        BY <2>8, <3>1 DEF CheckExpiry
      <4> QED BY <1>1, <1>2, <1>3, <2>1, <2>3, <4>1, CancelsNext
    <3>2. CASE setup[run[w].cur] # "expired"
      <4>1. run' = [run EXCEPT ![w] = Return(run[w])]
        BY <2>8, <3>2 DEF CheckExpiry
      <4> QED BY <1>1, <1>3, <2>1, <4>1, ReturnRests
    <3> QED BY <3>1, <3>2
  <2>9. CASE CloseFilled(w)
    <3>1. Goto(w, "finish") /\ run[w].at = "close" /\ ex[o] = "filled"
      BY <2>9 DEF CloseFilled
    <3>2. Stake(run[w].cur) /\ ex[<<run[w].cur, "close">>] = "filled"
      BY <1>1, <3>1 DEF Held
    <3>3. amount' = 0
      BY <1>2, <2>1, <3>2 DEF Stake, Purposes
    <3> QED BY <1>1, <1>3, <2>1, <2>2, <3>1, <3>3, GotoFinish
  <2>10. CASE CloseUnconfirmed(w)
    BY <1>1, <1>3, <2>1, <2>10, ReturnRests DEF CloseUnconfirmed
  <2> QED
    BY <2>4, <2>5, <2>6, <2>7, <2>8, <2>9, <2>10, <1>4 DEF Entered, UpdateEntered, At
<1> QED
  BY <1>4, <1>5 DEF Entered, StillOpen, ExitFilled, ProtectionClosed, StopGone, OtherGone,
                    CheckExpiry, CloseFilled, CloseUnconfirmed, At

(* _cancel_rest and what follows it.                                       *)
LEMMA CancelOne ==
  ASSUME IInv, Held, NEW w \in Workers, Knows(w), Cancel(w)
  PROVE  Held' /\ Knows(w)'
<1> DEFINE o == Order(w)
<1>1. /\ TypeOK /\ o \in Orders /\ o = <<run[w].cur, run[w].at>>
      /\ run[w] \in RunType /\ run[w].cur \in Signals /\ run[w].at \in Purposes
      /\ run[w].list \in SUBSET Orders /\ RunFacts(w)
  BY SmallTypes DEF IInv
<1>2. At(w, "cancel") /\ UNCHANGED <<sig, pos, done, amount>>
  BY DEF Cancel, CancelOnExchange, RecordCancelled, RecordExit, PositionGone, SendClose,
         ExternalCancelled, db, account, exchange
<1>3. SignalOpen(run[w].cur) /\ run[w].todo = {}
  BY <1>1, <1>2, AtWork DEF At
<1>4. sig'[run[w].cur] \in {"armed", "entered"}
  BY <1>2, <1>3 DEF SignalOpen
<1>5. run[w].after = "finish" => amount = 0
  BY <1>2 DEF Knows
<1>6. ex' = ex => Held'
  BY <1>2, HeldKept
<1>7. CASE CancelOnExchange(w)
  <2>1. PICK c \in run[w].list : ex' = [ex EXCEPT ![c] = "cancelled"]
    BY <1>7 DEF CancelOnExchange
  <2>2. c \in Orders /\ pos[c[1]] # "none"
    BY <1>1, <1>2 DEF RunFacts, OrderFacts, At
  <2>3. Held'
    BY <1>1, <1>2, <2>1, <2>2, Ended DEF ExStatus, OpenEx
  <2>4. UNCHANGED run
    BY <1>7 DEF CancelOnExchange
  <2> QED BY <1>2, <1>3, <1>5, <2>3, <2>4, Cancels DEF At, SignalOpen
<1>8. CASE RecordCancelled(w)
  <2>1. PICK c \in run[w].list : run' = [run EXCEPT ![w].list = @ \ {c}]
    BY <1>8 DEF RecordCancelled
  <2>2. /\ run'[w].pc = "cancel" /\ run'[w].todo = {} /\ run'[w].cur = run[w].cur
        /\ run'[w].after = run[w].after
    BY <1>1, <1>2, <1>3, <2>1 DEF TypeOK, account, RunType, At
  <2>3. ex' = ex
    BY <1>8 DEF RecordCancelled, account, exchange
  <2> QED BY <1>2, <1>4, <1>5, <1>6, <2>2, <2>3, Cancels DEF SignalOpen
<1>9. CASE RecordExit(w)
  <2>1. Goto(w, "finish") /\ run[w].after = "exit" /\ ex' = ex
    BY <1>9 DEF RecordExit, account, exchange
  <2>2. run[w].at # "entry" /\ ex[<<run[w].cur, run[w].at>>] = "filled"
    BY <1>1, <1>2, <2>1 DEF RunFacts, OrderFacts
  <2>3. amount' = 0
    BY <1>1, <1>2, <1>3, <2>2 DEF Held, Stake
  <2> QED BY <1>1, <1>3, <1>4, <1>6, <2>1, <2>3, GotoFinish
<1>10. CASE PositionGone(w)
  <2>1. OpenProtective(run[w].cur) \in SUBSET Orders
    BY <1>1, OpenProtectiveShape
  <2>2. /\ run' = [run EXCEPT ![w] = CancelThen(run[w], OpenProtective(run[w].cur), "finish")]
        /\ amount = 0 /\ ex' = ex
    BY <1>10 DEF PositionGone, account, exchange
  <2> QED BY <1>1, <1>2, <1>3, <1>6, <2>1, <2>2, CancelsNext
<1>11. CASE SendClose(w)
  <2>1. run'[w] = SyncNext(run[w], "close") /\ ex' = ex
    BY <1>1, <1>11 DEF SendClose, TypeOK, account, exchange
  <2>2. run'[w].pc = "sync" /\ run'[w].cur = run[w].cur /\ run'[w].todo = {}
    BY <1>1, <1>3, <2>1, SyncNextFields DEF Purposes
  <2>3. run'[w].pc \in Plain /\ SignalOpen(run[w].cur)'
    BY <1>4, <2>2 DEF Plain, WithSignal, PcLabels, SignalOpen
  <2> QED BY <1>6, <2>1, <2>2, <2>3, Works
<1>12. CASE ExternalCancelled(w)
  <2>1. Goto(w, "finish") /\ run[w].after = "finish" /\ ex' = ex
    BY <1>12 DEF ExternalCancelled, account, exchange
  <2> QED BY <1>1, <1>2, <1>3, <1>4, <1>5, <1>6, <2>1, GotoFinish
<1> QED BY <1>7, <1>8, <1>9, <1>10, <1>11, <1>12 DEF Cancel

(* _finish_close: the three statements, of which the last counts once.     *)
LEMMA FinishOne ==
  ASSUME IInv, Held, NEW w \in Workers, Knows(w), Finish(w)
  PROVE  Held' /\ Knows(w)'
<1>1. /\ TypeOK /\ EntryIsFinal /\ RunFacts(w) /\ run[w] \in RunType
  BY SmallTypes DEF IInv
<1>2. PICK s \in Signals : s = run[w].cur
  BY SmallTypes DEF IInv
<1>3. Stake(s) /\ Standing(s)
  BY DEF Held
<1>4. run[w].todo = {}
  BY DEF Knows, Finish, ClosePosition, CloseSignal, SettleCash, At
<1>5. CASE ClosePosition(w)
  <2>1. /\ At(w, "finish") /\ UNCHANGED <<sig, ex, done, amount>>
        /\ pos'[s] = "closed" /\ \A t \in Signals : t # s => pos'[t] = pos[t]
    BY <1>1, <1>2, <1>5 DEF ClosePosition, TypeOK, account, exchange
  <2>2. SignalOpen(s) /\ amount = 0
    BY <1>2, <2>1 DEF Knows, At, WithSignal, PcLabels
  <2>3. Stake(s)' /\ Standing(s)'
    BY <1>3, <2>1, <2>2 DEF Stake, Standing, SignalOpen
  <2>4. Held'
    BY <2>1, <2>2, <2>3, OneSignal DEF Held
  <2>5. run'[w].pc = "finish_signal" /\ run'[w].todo = {} /\ run'[w].cur = s
    BY <1>1, <1>2, <1>4, <1>5, GotoFields DEF ClosePosition, PcLabels
  <2>6. Knows(w)'
    BY <2>1, <2>2, <2>5 DEF Knows, At, SignalOpen
  <2> QED BY <2>4, <2>6
<1>6. CASE CloseSignal(w)
  <2>1. /\ At(w, "finish_signal") /\ UNCHANGED <<pos, ex, done, amount>>
        /\ sig'[s] = "closed" /\ \A t \in Signals : t # s => sig'[t] = sig[t]
    BY <1>1, <1>2, <1>6 DEF CloseSignal, TypeOK, account, exchange
  <2>2. SignalOpen(s) /\ amount = 0 /\ pos[s] = "closed"
    BY <1>2, <2>1 DEF Knows, At, WithSignal, PcLabels
  <2>4. ex[<<s, "entry">>] \notin OpenEx
    BY <1>1, <2>2 DEF EntryIsFinal
  <2>5. Standing(s)'
    BY <1>3, <2>1, <2>2, <2>4 DEF Standing
  <2>6. Held'
    BY <2>1, <2>2, <2>5, OneSignal
  <2>7. run'[w].pc = "finish_cash" /\ run'[w].todo = {} /\ run'[w].cur = s
    BY <1>1, <1>2, <1>4, <1>6, GotoFields DEF CloseSignal, PcLabels
  <2>9. Knows(w)'
    BY <2>7 DEF Knows, At, WithSignal
  <2> QED BY <2>6, <2>9
<1>7. CASE SettleCash(w)
  <2>1. UNCHANGED <<sig, pos, ex, done, amount>> /\ run' = [run EXCEPT ![w] = Return(run[w])]
    BY <1>7 DEF SettleCash, exchange
  <2>4. Held'
    BY <2>1, HeldKept
  <2> QED BY <1>1, <1>4, <2>1, <2>4, ReturnRests
<1> QED BY <1>5, <1>6, <1>7 DEF Finish

(* reconcile: what it closes because it is gone from the exchange stays    *)
(* gone.                                                                   *)
LEMMA ReconcileOne ==
  ASSUME IInv, Held, NEW w \in Workers, Knows(w), Reconcile(w)
  PROVE  Held' /\ Knows(w)'
<1>1. /\ TypeOK /\ run[w] \in RunType /\ run[w].cur \in Signals /\ run[w].list \in SUBSET Orders
      /\ run[w].todo \in SUBSET Signals
  BY SmallTypes DEF IInv
<1>2. ~At(w, "loop") /\ ~At(w, "recon_close") => run[w].todo = {}
  BY DEF Knows, At
<1>3. UNCHANGED <<sig, pos, done, amount>>
  BY DEF Reconcile, AdoptBalance, ReadOpenIds, ListOpenOrders, CancelOrphan, ReadPosition, PositionAgrees,
         PositionVanished, AdoptQuantity, CloseExternal, ReconcileDone, db, account, exchange
<1>4. ex' = ex => Held'
  BY <1>3, HeldKept
<1>5. CASE AdoptBalance(w) \/ ReadOpenIds(w) \/ ListOpenOrders(w)
  <2>1. run[w].todo = {} /\ ex' = ex
    BY <1>2, <1>5 DEF AdoptBalance, ReadOpenIds, ListOpenOrders, At, account, exchange
  <2>2. run'[w].pc \in {"open_ids", "list_orders", "orphans"} /\ run'[w].todo = run[w].todo
    BY <1>1, <1>5 DEF AdoptBalance, ReadOpenIds, ListOpenOrders, Goto, TypeOK, account, RunType
  <2> QED BY <1>4, <2>1, <2>2, Rests DEF Resting
<1>6. CASE CancelOrphan(w)
  <2>1. PICK c \in run[w].list :
          /\ ex' = [ex EXCEPT ![c] = IF @ \in OpenEx THEN "cancelled" ELSE @]
          /\ run' = [run EXCEPT ![w].list = @ \ {c}]
    BY <1>6 DEF CancelOrphan
  <2>2. run'[w].pc = "orphans" /\ run'[w].todo = {}
    BY <1>1, <1>2, <1>6, <2>1 DEF CancelOrphan, At, TypeOK, account, RunType
  <2>3. Held'
    <3>1. CASE ex[c] \in OpenEx
      <4>1. ex' = [ex EXCEPT ![c] = "cancelled"]
        BY <2>1, <3>1
      <4>2. c \in Orders /\ c[1] \in Signals /\ c[2] \in Purposes /\ c = <<c[1], c[2]>>
        BY <1>1, OrderShape
      <4>3. Standing(c[1])
        BY <4>2 DEF Held
      <4>4. c[2] # "entry" => pos[c[1]] # "none"
        BY <3>1, <4>2, <4>3 DEF Standing, OpenEx
      <4> QED BY <1>1, <1>3, <4>1, <4>2, <4>4, Ended DEF ExStatus, OpenEx
    <3>2. CASE ex[c] \notin OpenEx
      BY <1>1, <1>4, <2>1, <3>2 DEF TypeOK, account
    <3> QED BY <3>1, <3>2
  <2> QED BY <2>2, <2>3, Rests DEF Resting
<1>7. CASE ReadPosition(w)
  <2>1. ex' = ex /\ run[w].todo = {}
    BY <1>2, <1>7 DEF ReadPosition, At, account, exchange
  <2>2. run'[w].pc = "compare" /\ run'[w].amt = amount /\ run'[w].todo = {}
    BY <1>1, <1>7, <2>1 DEF ReadPosition, TypeOK, account, RunType
  <2>3. Knows(w)'
    BY <1>3, <2>2 DEF Knows, At, WithSignal
  <2> QED BY <1>4, <2>1, <2>3
<1>8. CASE PositionAgrees(w) \/ AdoptQuantity(w) \/ ReconcileDone(w)
  <2>1. ex' = ex /\ run[w].todo = {}
    BY <1>2, <1>8 DEF PositionAgrees, AdoptQuantity, ReconcileDone, At, account, exchange
  <2>2. run'[w].pc = "new" /\ run'[w].todo = {}
    BY <1>1, <1>8, <2>1 DEF PositionAgrees, AdoptQuantity, ReconcileDone, Goto, TypeOK, account, RunType
  <2> QED BY <1>4, <2>1, <2>2, Rests DEF Resting
<1>9. CASE PositionVanished(w)
  <2>1. /\ At(w, "compare") /\ run[w].amt = 0 /\ ex' = ex
        /\ run'[w].pc = "recon_close" /\ run'[w].todo = OpenPositions
    BY <1>1, <1>9, ReadShape DEF PositionVanished, TypeOK, RunType, account, exchange
  <2>2. OpenPositions # {} => amount' = 0
    BY <1>3, <2>1 DEF Knows
  <2>3. \A t \in OpenPositions : SignalOpen(t)'
    BY <1>3 DEF OpenPositions, Held, Standing, SignalOpen
  <2>4. Knows(w)'
    BY <2>1, <2>2, <2>3 DEF Knows, At, WithSignal
  <2> QED BY <1>4, <2>1, <2>4
<1>10. CASE CloseExternal(w)
  <2>1. PICK s \in run[w].todo :
          run' = [run EXCEPT ![w] = CancelThen(
                    [run[w] EXCEPT !.cur = s, !.back = "recon_close", !.todo = @ \ {s}],
                    OpenProtective(s), "finish")]
    BY <1>10 DEF CloseExternal
  <2> DEFINE r == [run[w] EXCEPT !.cur = s, !.back = "recon_close", !.todo = @ \ {s}]
  <2>2. s \in Signals /\ SignalOpen(s) /\ run[w].todo \ {s} = {}
    BY <1>1, TakenUp
  <2>3. r \in RunType /\ r.todo = {} /\ r.cur = s
    BY <1>1, <2>2 DEF RunType
  <2> HIDE DEF r
  <2>4. run' = [run EXCEPT ![w] = CancelThen(r, OpenProtective(s), "finish")]
    BY <2>1 DEF r
  <2>5. amount = 0 /\ ex' = ex
    BY <1>10, <2>1 DEF CloseExternal, Knows, account, exchange
  <2>6. OpenProtective(s) \in SUBSET Orders
    BY <2>2, OpenProtectiveShape
  <2> QED BY <1>1, <1>3, <1>4, <2>2, <2>3, <2>4, <2>5, <2>6, CancelsNext
<1> QED BY <1>5, <1>6, <1>7, <1>8, <1>9, <1>10 DEF Reconcile

(* _new_signals: while no other run is under way nobody takes the symbol   *)
(* between the check and the row.                                          *)
LEMMA NewOne ==
  ASSUME IInv, Held, NEW w \in Workers, Knows(w),
         AcceptCandidate(w) \/ RejectCandidate(w) \/ Arm(w) \/ CreateEntryRow(w)
  PROVE  Held' /\ Knows(w)'
<1>1. /\ TypeOK /\ LedgerIsReal /\ ExchangeFacts /\ run[w] \in RunType /\ run[w].cur \in Signals
  BY SmallTypes DEF IInv
<1>2. run[w].todo = {}
  BY DEF Knows, AcceptCandidate, RejectCandidate, Arm, CreateEntryRow, At
<1>3. CASE AcceptCandidate(w)
  <2>1. PICK s \in Signals : /\ run' = [run EXCEPT ![w].pc = "arm", ![w].cur = s, ![w].back = "new"]
                             /\ sig[s] = "none"
    BY <1>3 DEF AcceptCandidate, Candidates
  <2>2. run'[w].pc = "arm" /\ run'[w].cur = s /\ run'[w].todo = {}
    BY <1>1, <1>2, <2>1 DEF TypeOK, account, RunType
  <2>3. UNCHANGED <<sig, pos, ex, done, amount>> /\ SymbolFree
    BY <1>3 DEF AcceptCandidate, db, account, exchange
  <2>4. SymbolFree' /\ sig'[s] = "none"
    BY <2>1, <2>3 DEF SymbolFree, SignalOpen
  <2>5. Knows(w)'
    BY <2>2, <2>4 DEF Knows, At, WithSignal
  <2> QED BY <2>3, <2>5, HeldKept
<1>4. CASE RejectCandidate(w)
  <2>1. PICK s \in Signals : sig[s] = "none" /\ sig' = [sig EXCEPT ![s] = "rejected"]
    BY <1>4 DEF RejectCandidate, Candidates
  <2>2. /\ UNCHANGED <<pos, ex, done, amount, run>> /\ At(w, "new")
        /\ sig'[s] = "rejected" /\ \A t \in Signals : t # s => sig'[t] = sig[t]
    BY <1>1, <1>4, <2>1 DEF RejectCandidate, TypeOK, account, exchange
  <2>3. Standing(s)'
    <3>1. Standing(s) /\ ~SignalOpen(s)
      BY <2>1 DEF Held, SignalOpen
    <3> QED BY <2>2, <3>1 DEF Standing
  <2>4. Held'
    BY <2>1, <2>2, <2>3, OneSignal DEF SignalOpen
  <2> QED BY <1>2, <2>2, <2>4, Rests DEF At, Resting
<1>5. CASE Arm(w)
  <2>1. PICK s \in Signals : s = run[w].cur
    BY <1>1
  <2>2. /\ At(w, "arm") /\ UNCHANGED <<pos, ex, done, amount>> /\ Goto(w, "entry_row")
        /\ sig'[s] = "armed" /\ \A t \in Signals : t # s => sig'[t] = sig[t]
    BY <1>1, <1>5, <2>1 DEF Arm, TypeOK, account, exchange
  <2>3. SymbolFree /\ sig[s] = "none"
    BY <2>1, <2>2 DEF Knows
  <2>4. amount = 0 /\ Standing(s)
    BY <2>3 DEF Held
  <2>5. \A p \in Purposes : <<s, p>> \in Orders /\ done[<<s, p>>] \in Nat
    BY <1>1, OrderParts DEF TypeOK, account
  <2>6. ex[<<s, "entry">>] = "none" /\ done[<<s, "entry">>] = 0
    BY <1>1, <2>3, <2>5 DEF ExchangeFacts, Purposes
  <2>7. pos[s] = "none"
    BY <1>1, <2>6 DEF LedgerIsReal
  <2>8. \A p \in Purposes \ {"entry"} : ex[<<s, p>>] = "none" /\ done[<<s, p>>] = 0
    BY <1>1, <2>4, <2>5, <2>7 DEF Standing, ExchangeFacts
  <2>9. Stake(s)'
    BY <2>2, <2>4, <2>6, <2>8 DEF Stake, Purposes
  <2>10. Standing(s)'
    BY <2>2, <2>4, <2>7 DEF Standing, SignalOpen
  <2>11. Held'
    BY <2>2, <2>3, <2>9, <2>10, OneSignal DEF SymbolFree
  <2> QED BY <1>1, <1>2, <2>1, <2>2, <2>11, GotoWorks DEF Plain, WithSignal, PcLabels
<1>6. CASE CreateEntryRow(w)
  <2>1. /\ At(w, "entry_row") /\ UNCHANGED <<sig, pos, ex, done, amount>>
        /\ run' = [run EXCEPT ![w].pc = "place", ![w].at = "entry"]
    BY <1>6 DEF CreateEntryRow, account, exchange
  <2>2. SignalOpen(run[w].cur)
    BY <1>1, <2>1, AtWork DEF At, Plain, WithSignal, PcLabels
  <2>3. run'[w].pc = "place" /\ run'[w].cur = run[w].cur /\ run'[w].todo = {}
    BY <1>1, <1>2, <2>1 DEF TypeOK, account, RunType
  <2>4. run'[w].pc \in Plain /\ SignalOpen(run[w].cur)'
    BY <2>1, <2>2, <2>3 DEF Plain, WithSignal, PcLabels, SignalOpen
  <2> QED BY <2>1, <2>3, <2>4, HeldKept, Works
<1> QED BY <1>3, <1>4, <1>5, <1>6

(* Runs start and end, and are interrupted or lose a row.                  *)
LEMMA EndsOne ==
  ASSUME IInv, Held, NEW w \in Workers, Knows(w), StartRun(w) \/ EndRun(w) \/ Crash(w) \/ RowLost(w)
  PROVE  Held' /\ Knows(w)'
<1>1. TypeOK
  BY DEF IInv
<1>2. UNCHANGED <<sig, pos, ex, done, amount>>
  BY DEF StartRun, EndRun, Crash, RowLost, db, account, exchange
<1>3. Held'
  BY <1>2, HeldKept
<1>4. CASE StartRun(w)
  <2> DEFINE todo == {s \in Signals : Owner[s] = w /\ SignalOpen(s)}
  <2>1. run'[w].pc = "loop" /\ run'[w].todo = todo
    BY <1>1, <1>4, IdleRunFields DEF StartRun, TypeOK, account, RunType
  <2>2. \A t \in todo : SignalOpen(t)'
    BY <1>2 DEF SignalOpen
  <2> HIDE DEF todo
  <2> QED BY <1>3, <2>1, <2>2 DEF Knows, At, WithSignal
<1>5. CASE EndRun(w) \/ Crash(w)
  <2>1. run'[w] = IdleRun
    BY <1>1, <1>5 DEF EndRun, Crash, TypeOK, account
  <2> QED BY <1>3, <2>1, IdleRunFields, Rests DEF Resting
<1>6. CASE RowLost(w)
  <2>1. run[w].pc \in Plain
    BY <1>6 DEF RowLost, At, Plain, WithSignal, PcLabels
  <2>2. SignalOpen(run[w].cur) /\ run[w].todo = {}
    BY <1>1, <2>1, AtWork
  <2>3. sig'[run[w].cur] \in {"armed", "entered"}
    BY <1>2, <2>2 DEF SignalOpen
  <2> QED
    BY <1>1, <1>3, <1>6, <2>2, <2>3, GotoWorks, ReturnRests DEF RowLost, Plain, WithSignal, PcLabels
<1> QED BY <1>4, <1>5, <1>6

--------------------------------------------------------------------------------
(* Theorems about runs that do not overlap.                                *)

OneInv == IInv /\ Held /\ \A w \in Workers : Knows(w)

(* Nothing is held before the first run.                                   *)
LEMMA OneInit == Init => OneInv
<1> SUFFICES ASSUME Init PROVE OneInv
  OBVIOUS
<1>1. IInv
  BY InitHolds
<1>2. \A s \in Signals, p \in Purposes : <<s, p>> \in Orders
  BY OrderParts
<1>3. \A s \in Signals : ~SignalOpen(s)
  BY DEF Init, SignalOpen
<1>4. ASSUME NEW s \in Signals PROVE Stake(s) /\ Standing(s)
  <2>1. \A p \in Purposes : ex[<<s, p>>] = "none" /\ done[<<s, p>>] = 0
    BY <1>2 DEF Init
  <2>2. pos[s] = "none" /\ ~SignalOpen(s)
    BY <1>3 DEF Init
  <2>3. "entry" \in Purposes /\ 0 <= Lots /\ "none" \notin OpenEx
    BY ConstantsAssumption DEF Purposes, OpenEx
  <2> QED BY <2>1, <2>2, <2>3 DEF Stake, Standing
<1>5. Held
  BY <1>3, <1>4 DEF Init, Held
<1>6. \A w \in Workers : Knows(w)
  BY IdleRunFields DEF Init, Knows, At, WithSignal
<1> QED BY <1>1, <1>5, <1>6 DEF OneInv

(* A step of a run leaves the other runs alone, and unless it starts the   *)
(* run, the run is under way.                                              *)
LEMMA Alone ==
  ASSUME TypeOK, NEW w \in Workers, Work(w) \/ WorkerFault(w)
  PROVE  Others(w) /\ ((GoOn(w) \/ WorkerFault(w)) => ~At(w, "idle"))
<1>1. run \in [Workers -> RunType]
  BY DEF TypeOK
<1>2. ASSUME NEW r, run' = [run EXCEPT ![w] = r] PROVE Others(w)
  BY <1>1, <1>2 DEF Others
<1>3. run' = run => Others(w)
  BY DEF Others
<1>4. CASE Sync(w) \/ Place(w) \/ Armed(w) \/ Enter(w)
  <2>1. ~At(w, "idle")
    BY <1>4
    DEF Sync, SyncKnown, SyncMissing, SyncResubmits, Place, PlaceAccepted, PlaceRejected,
        Armed, UpdateArmed, CancelDeadEntry, EntryWaits, EntryFilled, EntryClosed, CancelSignal,
        Enter, OpenPosition, FillEntryRow, CreateStopRow, CreateTakeProfitRow, MarkEntered, Protect, At
  <2>2. Others(w)
    BY <1>1, <1>4
    DEF Sync, SyncKnown, SyncMissing, SyncResubmits, Place, PlaceAccepted, PlaceRejected,
        Armed, UpdateArmed, CancelDeadEntry, EntryWaits, EntryFilled, EntryClosed, CancelSignal,
        Enter, OpenPosition, FillEntryRow, CreateStopRow, CreateTakeProfitRow, MarkEntered, Protect,
        Goto, Others
  <2> QED BY <2>1, <2>2
<1>5. CASE Entered(w) \/ Cancel(w) \/ Finish(w)
  <2>1. ~At(w, "idle")
    BY <1>5
    DEF Entered, UpdateEntered, StillOpen, ExitFilled, ProtectionClosed, StopGone, OtherGone,
        CheckExpiry, CloseFilled, CloseUnconfirmed, Cancel, CancelOnExchange, RecordCancelled,
        RecordExit, PositionGone, SendClose, ExternalCancelled, Finish, ClosePosition, CloseSignal,
        SettleCash, At
  <2>2. Others(w)
    BY <1>1, <1>5
    DEF Entered, UpdateEntered, StillOpen, ExitFilled, ProtectionClosed, StopGone, OtherGone,
        CheckExpiry, CloseFilled, CloseUnconfirmed, Cancel, CancelOnExchange, RecordCancelled,
        RecordExit, PositionGone, SendClose, ExternalCancelled, Finish, ClosePosition, CloseSignal,
        SettleCash, Goto, Others
  <2> QED BY <2>1, <2>2
<1>6. CASE Reconcile(w) \/ NewSignals(w)
  <2>1. ~At(w, "idle")
    BY <1>6
    DEF Reconcile, AdoptBalance, ReadOpenIds, ListOpenOrders, CancelOrphan, ReadPosition,
        PositionAgrees, PositionVanished, AdoptQuantity, CloseExternal, ReconcileDone, NewSignals,
        AcceptCandidate, RejectCandidate, Arm, CreateEntryRow, EndRun, At
  <2>2. Others(w)
    BY <1>1, <1>6
    DEF Reconcile, AdoptBalance, ReadOpenIds, ListOpenOrders, CancelOrphan, ReadPosition,
        PositionAgrees, PositionVanished, AdoptQuantity, CloseExternal, ReconcileDone, NewSignals,
        AcceptCandidate, RejectCandidate, Arm, CreateEntryRow, EndRun, Goto, Others
  <2> QED BY <2>1, <2>2
<1>7. ASSUME StartRun(w) PROVE Others(w)
  BY <1>1, <1>7 DEF StartRun, Others
<1>8. CASE WorkerFault(w)
  BY <1>1, <1>8
  DEF WorkerFault, CloseExpires, PlaceUnanswered, PlaceUnclear, Crash, RowLost, Goto, Others, At
<1> QED BY <1>4, <1>5, <1>6, <1>7, <1>8 DEF Work, GoOn

(* At most one run is under way.                                           *)
Serial == \A v, w \in Workers : ~At(v, "idle") /\ ~At(w, "idle") => v = w

(* Only one run moves at a time: the others are idle and stay so.          *)
LEMMA SerialStep ==
  ASSUME TypeOK, Serial, NEW w \in Workers, SerialStart(w) \/ GoOn(w) \/ WorkerFault(w)
  PROVE  /\ Work(w) \/ WorkerFault(w)
         /\ \A v \in Workers : v # w => At(v, "idle") /\ run'[v] = run[v]
         /\ Serial'
<1>1. Work(w) \/ WorkerFault(w)
  BY DEF SerialStart, Work
<1>2. Others(w) /\ (SerialStart(w) \/ ~At(w, "idle"))
  BY <1>1, Alone
<1>3. ASSUME NEW v \in Workers, v # w PROVE At(v, "idle") /\ run'[v] = run[v]
  BY <1>2, <1>3 DEF Serial, SerialStart, Others
<1> QED BY <1>1, <1>3 DEF Serial, At

(* A run that is not under way relies on nothing.                          *)
LEMMA IdleKnows ==
  ASSUME NEW v \in Workers, Knows(v), At(v, "idle"), run'[v] = run[v]
  PROVE  Knows(v)'
<1>1. run[v].todo = {} /\ run[v].pc = "idle"
  BY DEF Knows, At
<1> QED BY <1>1, Rests DEF Resting

(* Every step keeps it, if runs do not overlap and every refusal is one.   *)
LEMMA OneStep ==
  ASSUME "unclear" \notin Faults
  PROVE  OneInv /\ Serial /\ [SerialNext]_vars => OneInv' /\ Serial'
<1> SUFFICES ASSUME OneInv, Serial, [SerialNext]_vars PROVE OneInv' /\ Serial'
  OBVIOUS
<1>0. [Next]_vars
  BY DEF SerialNext, Next, SerialStart, Work
<1>1. IInv /\ TypeOK /\ Held /\ IInv' /\ \A v \in Workers : Knows(v)
  BY <1>0, NextKeeps DEF OneInv, IInv
<1>2. CASE UNCHANGED vars
  <2>1. UNCHANGED <<sig, pos, ex, done, amount, run>>
    BY <1>2 DEF vars
  <2>2. Held'
    BY <1>1, <2>1, HeldKept
  <2>3. ASSUME NEW v \in Workers PROVE Knows(v)'
    BY <1>1, <2>1, Watched
  <2> QED BY <1>1, <2>1, <2>2, <2>3 DEF OneInv, Serial, At
<1>3. CASE Exchange \/ \E s \in Signals : SetupMoves(s)
  <2>1. ASSUME NEW v \in Workers PROVE Held' /\ Knows(v)'
    BY <1>1, <1>3, ExchangeOne
  <2>2. Workers # {}
    BY ConstantsAssumption
  <2>3. run' = run
    BY <1>3
    DEF Exchange, FillEntry, FillTakeProfit, TriggerStop, ExpireReduceOnly, Expire, Forget,
        CloseByHand, SetupMoves
  <2> QED BY <1>1, <2>1, <2>2, <2>3 DEF OneInv, Serial, At
<1>4. ASSUME NEW w \in Workers, SerialStart(w) \/ GoOn(w) \/ WorkerFault(w)
      PROVE  OneInv' /\ Serial'
  <2>1. ~PlaceUnclear(w)
    BY DEF PlaceUnclear, Fault
  <2>2. /\ Work(w) \/ WorkerFault(w)
        /\ \A v \in Workers : v # w => At(v, "idle") /\ run'[v] = run[v]
        /\ Serial'
    BY <1>1, <1>4, SerialStep
  <2>3. Held' /\ Knows(w)'
    BY <1>1, <2>1, <2>2, SyncOne, PlaceOne, ArmedOne, EnterOne, EnteredOne, CancelOne, FinishOne,
       ReconcileOne, NewOne, EndsOne DEF Work, GoOn, WorkerFault, NewSignals
  <2>4. ASSUME NEW v \in Workers, v # w PROVE Knows(v)'
    BY <1>1, <2>2, <2>4, IdleKnows
  <2> QED BY <1>1, <2>2, <2>3, <2>4 DEF OneInv
<1> QED BY <1>2, <1>3, <1>4 DEF SerialNext

(* It holds throughout.                                                    *)
LEMMA OneInvariance == ASSUME "unclear" \notin Faults PROVE SerialSpec => []OneInv
<1>1. Init => OneInv /\ Serial
  BY OneInit, IdleRunFields DEF Init, Serial, At
<1>2. OneInv /\ Serial /\ [SerialNext]_vars => (OneInv /\ Serial)'
  BY OneStep
<1> QED BY <1>1, <1>2, PTL DEF SerialSpec

(* However many intervals share the symbol, as long as their runs do not   *)
(* overlap the account is never exposed by more than one entry order,      *)
(* whatever answers are lost, however often runs are interrupted and       *)
(* whatever the exchange does to the orders it has taken.                  *)
THEOREM ExposureTheorem == ASSUME "unclear" \notin Faults PROVE SerialSpec => []ExposureBounded
<1>1. OneInv => ExposureBounded
  <2> SUFFICES ASSUME OneInv PROVE amount <= Lots
    BY DEF ExposureBounded
  <2>1. TypeOK /\ Held
    BY DEF OneInv, IInv
  <2>2. CASE SymbolFree
    BY <2>1, <2>2, ConstantsAssumption DEF Held
  <2>3. CASE ~SymbolFree
    <3>1. PICK s \in Signals : SignalOpen(s)
      BY <2>3 DEF SymbolFree
    <3>2. amount + done[<<s, "take_profit">>] <= done[<<s, "entry">>] /\ done[<<s, "entry">>] <= Lots
      BY <2>1, <3>1 DEF Held, Stake, Standing
    <3>3. amount \in Nat /\ done[<<s, "take_profit">>] \in Nat /\ done[<<s, "entry">>] \in Nat
      BY <2>1, OrderParts DEF TypeOK, account, Purposes
    <3> QED BY <3>2, <3>3, ConstantsAssumption
  <2> QED BY <2>2, <2>3
<1>2. SerialSpec => []OneInv
  BY OneInvariance
<1> QED BY <1>1, <1>2, PTL

(* Then one signal at a time holds the symbol, of whatever interval        *)
(* (risk.conform).                                                         *)
THEOREM SymbolTheorem == ASSUME "unclear" \notin Faults PROVE SerialSpec => []OnePerSymbol
<1>1. OneInv => OnePerSymbol
  <2> SUFFICES ASSUME OneInv PROVE Cardinality({s \in Signals : SignalOpen(s)}) <= 1
    BY DEF OnePerSymbol
  <2> DEFINE S == {s \in Signals : SignalOpen(s)}
  <2>1. \A s, t \in S : s = t
    BY DEF OneInv, Held
  <2>2. CASE S = {}
    BY <2>2, FS_EmptySet
  <2>3. CASE S # {}
    <3>1. PICK s \in S : S = {s}
      BY <2>1, <2>3
    <3> QED BY <3>1, FS_Singleton
  <2> QED BY <2>2, <2>3
<1>2. SerialSpec => []OneInv
  BY OneInvariance
<1> QED BY <1>1, <1>2, PTL

(* Then a symbol without an open signal has no position left on the        *)
(* exchange (live._finish_close, live._close_external).                    *)
THEOREM NoExposureTheorem == ASSUME "unclear" \notin Faults PROVE SerialSpec => []NoSignalNoExposure
<1>1. OneInv => NoSignalNoExposure
  BY DEF OneInv, Held, SymbolFree, NoSignalNoExposure
<1>2. SerialSpec => []OneInv
  BY OneInvariance
<1> QED BY <1>1, <1>2, PTL

--------------------------------------------------------------------------------
(* What holds however the runs of the intervals overlap, and whatever a    *)
(* refusal meant.                                                          *)

\* steps that begin, arm or enter a signal, or deal with its entry order
EntrySteps == {"arm", "entry_row", "open_position", "fill_entry", "sl_row", "tp_row", "mark_entered"}
OrderSteps == {"sync", "place", "known", "gone"}

(* The run may yet open the signal, or open it again.                      *)
Coming(w, s) ==
  /\ run[w].cur = s
  /\ run[w].pc \in EntrySteps \/ (run[w].pc \in OrderSteps /\ run[w].at = "entry")

(* The signals with which an interval holds the symbol.                    *)
Taking(w) == {s \in Signals : Owner[s] = w /\ (SignalOpen(s) \/ Coming(w, s))}

IntervalInv == IInv /\ \A w \in Workers : \A s, t \in Taking(w) : s = t

(* A run opens only the signal it has come to, and comes only to a signal  *)
(* that is open, or to one that conform let through.                       *)
Extends(w) ==
  /\ \A s \in Signals : SignalOpen(s)' => SignalOpen(s) \/ (Coming(w, s) /\ Owner[s] = w)
  /\ \A s \in Signals : Coming(w, s)' => Coming(w, s) \/ SignalOpen(s)

(* What a change of a run's own record does to the signal it comes to.     *)
LEMMA ComesOnly ==
  ASSUME TypeOK, NEW w \in Workers, sig' = sig,
         \A s \in Signals : Coming(w, s)' => Coming(w, s) \/ SignalOpen(s)
  PROVE  Extends(w)
  BY DEF Extends, SignalOpen

(* Being done with a signal, or turning to its exit orders, ends that.     *)
LEMMA LeavesEntry ==
  ASSUME TypeOK, NEW w \in Workers, NEW r \in RunType, run' = [run EXCEPT ![w] = r],
         r.pc \notin EntrySteps, r.pc \notin OrderSteps \/ r.at # "entry"
  PROVE  \A s \in Signals : ~Coming(w, s)'
  BY DEF TypeOK, Coming

(* A run that only goes on with its signal, without beginning its entry.   *)
LEMMA GoesOn ==
  ASSUME TypeOK, NEW w \in Workers, NEW label \in PcLabels, Goto(w, label),
         label \in EntrySteps \cup OrderSteps =>
           run[w].pc \in EntrySteps \/ (run[w].pc \in OrderSteps /\ run[w].at = "entry")
             \/ (label \in OrderSteps /\ run[w].at # "entry")
  PROVE  \A s \in Signals : Coming(w, s)' => Coming(w, s)
  BY GotoFields DEF Coming, EntrySteps, OrderSteps

(* Return ends it.                                                         *)
LEMMA ReturnLeaves ==
  ASSUME TypeOK, NEW w \in Workers, run' = [run EXCEPT ![w] = Return(run[w])]
  PROVE  \A s \in Signals : ~Coming(w, s)'
<1>1. run[w] \in RunType /\ Return(run[w]) \in RunType
  BY SmallTypes, ReturnType
<1>2. Return(run[w]).pc \in {"loop", "recon_close", "new"}
  BY <1>1, ReturnFields, SmallTypes
<1> QED BY <1>1, <1>2, LeavesEntry DEF EntrySteps, OrderSteps

(* So does _cancel_rest.                                                   *)
LEMMA CancelLeaves ==
  ASSUME TypeOK, NEW w \in Workers, NEW r \in RunType, NEW orders \in SUBSET Orders,
         NEW after \in {"exit", "amount", "finish"},
         run' = [run EXCEPT ![w] = CancelThen(r, orders, after)]
  PROVE  \A s \in Signals : ~Coming(w, s)'
<1> DEFINE q == CancelThen(r, orders, after)
<1>1. q \in RunType /\ q.pc = "cancel"
  BY CancelThenFields
<1> HIDE DEF q
<1>2. run' = [run EXCEPT ![w] = q]
  BY DEF q
<1> QED BY <1>1, <1>2, LeavesEntry DEF EntrySteps, OrderSteps

(* So does going on to the TP or to the check of an expired setup.         *)
LEMMA OnwardLeaves ==
  ASSUME TypeOK, NEW w \in Workers, run' = [run EXCEPT ![w] = Onward(w)]
  PROVE  \A s \in Signals : ~Coming(w, s)'
<1>1. run[w] \in RunType
  BY SmallTypes
<1>2. CASE Onward(w) = Return(run[w])
  BY <1>2, ReturnLeaves
<1>3. CASE Onward(w) = SyncNext(run[w], "take_profit")
  <2>1. SyncNext(run[w], "take_profit") \in RunType /\ SyncNext(run[w], "take_profit").at = "take_profit"
        /\ SyncNext(run[w], "take_profit").pc = "sync"
    BY <1>1, SyncNextType, SyncNextFields DEF Purposes
  <2> QED BY <1>3, <2>1, LeavesEntry DEF EntrySteps
<1>4. CASE Onward(w) = [run[w] EXCEPT !.pc = "expiry"]
  <2>1. [run[w] EXCEPT !.pc = "expiry"] \in RunType /\ [run[w] EXCEPT !.pc = "expiry"].pc = "expiry"
    BY <1>1 DEF RunType, PcLabels
  <2> QED BY <1>4, <2>1, LeavesEntry DEF EntrySteps, OrderSteps
<1> QED BY <1>2, <1>3, <1>4 DEF Onward

(* So does update_entered.                                                 *)
LEMMA ProtectLeaves ==
  ASSUME TypeOK, NEW w \in Workers, NEW r \in RunType, NEW s \in Signals,
         run' = [run EXCEPT ![w] = BeginProtect(r, s)]
  PROVE  \A t \in Signals : ~Coming(w, t)'
<1> DEFINE rows == OpenProtective(s)
           r1 == [r EXCEPT !.cur = s, !.list = rows, !.after = "exit"]
<1>1. rows \in SUBSET Orders
  BY OpenProtectiveShape
<1>2. r1 \in RunType
  BY <1>1 DEF RunType
<1>3. Return(r) \in RunType /\ Return(r).pc \in {"loop", "recon_close", "new"}
  BY ReturnType, ReturnFields DEF RunType
<1>4. \A p \in {"stop_loss", "take_profit"} :
        SyncNext(r1, p) \in RunType /\ SyncNext(r1, p).pc = "sync" /\ SyncNext(r1, p).at = p
  <2>1. {"stop_loss", "take_profit"} \subseteq Purposes
    BY DEF Purposes
  <2> HIDE DEF r1
  <2> QED BY <1>2, <2>1, SyncNextType, SyncNextFields
<1>5. [r1 EXCEPT !.pc = "expiry"] \in RunType /\ [r1 EXCEPT !.pc = "expiry"].pc = "expiry"
  BY <1>2 DEF RunType, PcLabels
<1>6. BeginProtect(r, s) \in {Return(r), SyncNext(r1, "stop_loss"), SyncNext(r1, "take_profit"),
                              [r1 EXCEPT !.pc = "expiry"]}
  BY DEF BeginProtect
<1> HIDE DEF r1
<1> DEFINE q == BeginProtect(r, s)
<1>7. /\ q \in RunType /\ q.pc \in {"loop", "recon_close", "new", "sync", "expiry"}
      /\ q.pc = "sync" => q.at # "entry"
  BY <1>3, <1>4, <1>5, <1>6
<1>8. run' = [run EXCEPT ![w] = q]
  OBVIOUS
<1> HIDE DEF q
<1> QED BY <1>7, <1>8, LeavesEntry DEF EntrySteps, OrderSteps

(* Every step of a run but the acceptance of a candidate only extends what *)
(* the run had come to.                                                    *)
LEMMA ExtendsStep ==
  ASSUME IInv, NEW w \in Workers, Work(w) \/ WorkerFault(w), ~AcceptCandidate(w)
  PROVE  Extends(w)
<1>1. /\ TypeOK /\ RunFacts(w) /\ run[w] \in RunType /\ run[w].cur \in Signals
      /\ run[w].todo \in SUBSET Signals /\ run[w].list \in SUBSET Orders /\ IdleRun \in RunType
  BY SmallTypes DEF IInv
<1>2. ASSUME sig' = sig, \A s \in Signals : ~Coming(w, s)' PROVE Extends(w)
  BY <1>1, <1>2, ComesOnly
<1>3. CASE StartRun(w) \/ EndRun(w) \/ Crash(w)
  <2>1. sig' = sig
    BY <1>3 DEF StartRun, EndRun, Crash, db
  <2>2. run'[w].pc \in {"idle", "loop"}
    BY <1>1, <1>3, IdleRunFields DEF StartRun, EndRun, Crash, TypeOK, RunType
  <2> QED BY <1>2, <2>1, <2>2 DEF Coming, EntrySteps, OrderSteps
<1>4. CASE Sync(w)
  <2>1. sig' = sig
    BY <1>4 DEF Sync, SyncKnown, SyncMissing, SyncResubmits, db
  <2>2. PICK label \in {"known", "gone", "place"} : Goto(w, label) /\ At(w, "sync")
    BY <1>4 DEF Sync, SyncKnown, SyncMissing, SyncResubmits
  <2>3. \A s \in Signals : Coming(w, s)' => Coming(w, s)
    BY <1>1, <2>2, GoesOn DEF At, PcLabels, EntrySteps, OrderSteps
  <2> QED BY <1>1, <2>1, <2>3, ComesOnly
<1>5. CASE Place(w) \/ CloseExpires(w) \/ PlaceUnanswered(w) \/ PlaceUnclear(w)
  <2>1. sig' = sig /\ At(w, "place")
    BY <1>5 DEF Place, PlaceAccepted, PlaceRejected, CloseExpires, PlaceUnanswered, PlaceUnclear, db
  <2>2. \/ run' = [run EXCEPT ![w] = Return(run[w])]
        \/ run' = [run EXCEPT ![w] = Onward(w)]
        \/ Goto(w, "known") \/ Goto(w, "gone")
    BY <1>5 DEF Place, PlaceAccepted, PlaceRejected, CloseExpires, PlaceUnanswered, PlaceUnclear, Goto
  <2>3. CASE Goto(w, "known") \/ Goto(w, "gone")
    <3>1. \A s \in Signals : Coming(w, s)' => Coming(w, s)
      BY <1>1, <2>1, <2>3, GoesOn DEF At, PcLabels, EntrySteps, OrderSteps
    <3> QED BY <1>1, <2>1, <3>1, ComesOnly
  <2>4. CASE run' = [run EXCEPT ![w] = Return(run[w])]
    BY <1>1, <1>2, <2>1, <2>4, ReturnLeaves
  <2>5. CASE run' = [run EXCEPT ![w] = Onward(w)]
    BY <1>1, <1>2, <2>1, <2>5, OnwardLeaves
  <2> QED BY <2>2, <2>3, <2>4, <2>5
<1>6. CASE UpdateArmed(w)
  <2>1. PICK t \in run[w].todo :
          /\ sig[t] = "armed"
          /\ LET r == [run[w] EXCEPT !.todo = @ \ {t}, !.cur = t]
             IN  run' = [run EXCEPT ![w] = IF row[<<t, "entry">>] = "open" THEN SyncNext(r, "entry")
                                           ELSE Return(r)]
    BY <1>6 DEF UpdateArmed
  <2> DEFINE r == [run[w] EXCEPT !.todo = @ \ {t}, !.cur = t]
  <2>2. t \in Signals /\ SignalOpen(t) /\ r \in RunType /\ r.cur = t /\ "entry" \in Purposes
    BY <1>1, <2>1 DEF SignalOpen, RunType, Purposes
  <2> HIDE DEF r
  <2>3. run' = [run EXCEPT ![w] = IF row[<<t, "entry">>] = "open" THEN SyncNext(r, "entry") ELSE Return(r)]
    BY <2>1 DEF r
  <2>4. SyncNext(r, "entry").cur = t /\ Return(r).pc \in {"loop", "recon_close", "new"}
    BY <2>2, SyncNextFields, ReturnFields DEF RunType
  <2>5. run'[w] = SyncNext(r, "entry") \/ run'[w] = Return(r)
    BY <1>1, <2>3 DEF TypeOK
  <2>6. \A s \in Signals : Coming(w, s)' => s = t
    BY <2>4, <2>5 DEF Coming, EntrySteps, OrderSteps
  <2> QED BY <1>1, <1>6, <2>2, <2>6, ComesOnly DEF UpdateArmed, db
<1>7. CASE CancelDeadEntry(w) \/ CancelOnExchange(w)
  BY <1>1, <1>7, ComesOnly DEF CancelDeadEntry, CancelOnExchange, db, Coming
<1>8. CASE EntryWaits(w) \/ SettleCash(w) \/ CloseUnconfirmed(w)
  <2>1. sig' = sig /\ run' = [run EXCEPT ![w] = Return(run[w])]
    BY <1>8 DEF EntryWaits, SettleCash, CloseUnconfirmed, db
  <2> QED BY <1>1, <1>2, <2>1, ReturnLeaves
<1>9. CASE EntryFilled(w) \/ EntryClosed(w)
  <2>1. sig' = sig /\ At(w, "known") /\ run[w].at = "entry" /\ (Goto(w, "open_position") \/ Goto(w, "gone"))
    BY <1>9 DEF EntryFilled, EntryClosed, db
  <2>2. \A s \in Signals : Coming(w, s)' => Coming(w, s)
    BY <1>1, <2>1, GoesOn DEF At, PcLabels, EntrySteps, OrderSteps
  <2> QED BY <1>1, <2>1, <2>2, ComesOnly
<1>10. CASE CancelSignal(w)
  <2>1. \A s \in Signals : SignalOpen(s)' => SignalOpen(s)
    BY <1>1, <1>10 DEF CancelSignal, SignalOpen, TypeOK
  <2> QED BY <1>1, <1>10, <2>1, ReturnLeaves DEF CancelSignal, Extends
<1>11. CASE OpenPosition(w) \/ FillEntryRow(w) \/ CreateStopRow(w) \/ CreateTakeProfitRow(w)
  <2>1. PICK label \in {"fill_entry", "sl_row", "tp_row", "mark_entered"} :
          sig' = sig /\ Goto(w, label) /\ run[w].pc \in EntrySteps
    BY <1>11 DEF OpenPosition, FillEntryRow, CreateStopRow, CreateTakeProfitRow, At, EntrySteps
  <2>2. \A s \in Signals : Coming(w, s)' => Coming(w, s)
    BY <1>1, <2>1, GoesOn DEF PcLabels
  <2> QED BY <1>1, <2>1, <2>2, ComesOnly
<1>12. CASE MarkEntered(w) \/ Arm(w)
  <2>1. Coming(w, run[w].cur) /\ Owner[run[w].cur] = w
    BY <1>1, <1>12 DEF MarkEntered, Arm, At, Coming, EntrySteps, RunFacts, SignalFacts, OwnSteps
  <2>2. PICK label \in {"protect", "entry_row"} : Goto(w, label) /\ run[w].pc \in EntrySteps
    BY <1>12 DEF MarkEntered, Arm, At, EntrySteps
  <2>3. \A s \in Signals : Coming(w, s)' => Coming(w, s)
    BY <1>1, <2>2, GoesOn DEF PcLabels
  <2>4. \A s \in Signals : s # run[w].cur => sig'[s] = sig[s]
    BY <1>1, <1>12 DEF MarkEntered, Arm, TypeOK
  <2> QED BY <2>1, <2>3, <2>4 DEF Extends, SignalOpen
<1>13. CASE Protect(w)
  <2>1. sig' = sig /\ run' = [run EXCEPT ![w] = BeginProtect(run[w], run[w].cur)]
    BY <1>13 DEF Protect, db
  <2> QED BY <1>1, <1>2, <2>1, ProtectLeaves
<1>14. CASE UpdateEntered(w)
  <2>1. PICK t \in run[w].todo : run' = [run EXCEPT ![w] = BeginProtect([run[w] EXCEPT !.todo = @ \ {t}], t)]
    BY <1>14 DEF UpdateEntered
  <2>2. [run[w] EXCEPT !.todo = @ \ {t}] \in RunType /\ t \in Signals
    BY <1>1 DEF RunType
  <2> QED BY <1>1, <1>2, <1>14, <2>1, <2>2, ProtectLeaves DEF UpdateEntered, db
<1>15. CASE StillOpen(w) \/ OtherGone(w)
  <2>1. sig' = sig /\ run' = [run EXCEPT ![w] = Onward(w)]
    BY <1>15 DEF StillOpen, OtherGone, db
  <2> QED BY <1>1, <1>2, <2>1, OnwardLeaves
<1>16. CASE ExitFilled(w) \/ StopGone(w) \/ PositionGone(w)
  <2>1. PICK orders \in SUBSET Orders, after \in {"exit", "amount", "finish"} :
          sig' = sig /\ run' = [run EXCEPT ![w] = CancelThen(run[w], orders, after)]
    BY <1>1, <1>16, OpenProtectiveShape DEF ExitFilled, StopGone, PositionGone, db
  <2> QED BY <1>1, <1>2, <2>1, CancelLeaves
<1>17. CASE CheckExpiry(w)
  <2>1. sig' = sig /\ \/ run' = [run EXCEPT ![w] = Return(run[w])]
                      \/ run' = [run EXCEPT ![w] = CancelThen(run[w], OpenProtective(run[w].cur), "amount")]
    BY <1>17 DEF CheckExpiry, db
  <2>2. OpenProtective(run[w].cur) \in SUBSET Orders
    BY <1>1, OpenProtectiveShape
  <2> QED BY <1>1, <1>2, <2>1, <2>2, ReturnLeaves, CancelLeaves
<1>18. CASE ProtectionClosed(w)
  <2>1. sig' = sig /\ At(w, "known") /\ run[w].at # "entry" /\ Goto(w, "gone")
    BY <1>18 DEF ProtectionClosed
  <2>2. \A s \in Signals : Coming(w, s)' => Coming(w, s)
    BY <1>1, <2>1, GoesOn DEF At, PcLabels, EntrySteps, OrderSteps
  <2> QED BY <1>1, <2>1, <2>2, ComesOnly
<1>19. CASE \/ CloseFilled(w) \/ RecordExit(w) \/ ExternalCancelled(w) \/ ClosePosition(w)
            \/ AdoptBalance(w) \/ ReconcileDone(w)
  <2>1. PICK label \in {"finish", "finish_signal", "open_ids", "new"} : sig' = sig /\ Goto(w, label)
    BY <1>19 DEF CloseFilled, RecordExit, ExternalCancelled, ClosePosition, AdoptBalance, ReconcileDone, db
  <2>2. \A s \in Signals : Coming(w, s)' => Coming(w, s)
    BY <1>1, <2>1, GoesOn DEF PcLabels, EntrySteps, OrderSteps
  <2> QED BY <1>1, <2>1, <2>2, ComesOnly
<1>20. CASE CloseSignal(w)
  <2>1. \A s \in Signals : SignalOpen(s)' => SignalOpen(s)
    BY <1>1, <1>20 DEF CloseSignal, SignalOpen, TypeOK
  <2>2. \A s \in Signals : Coming(w, s)' => Coming(w, s)
    BY <1>1, <1>20, GoesOn DEF CloseSignal, PcLabels, EntrySteps, OrderSteps
  <2> QED BY <2>1, <2>2 DEF Extends
<1>21. CASE RecordCancelled(w) \/ CancelOrphan(w)
  <2>1. sig' = sig /\ run'[w].pc = run[w].pc /\ run'[w].cur = run[w].cur /\ run'[w].at = run[w].at
    BY <1>1, <1>21 DEF RecordCancelled, CancelOrphan, db, TypeOK, RunType
  <2> QED BY <1>1, <2>1, ComesOnly DEF Coming
<1>22. CASE SendClose(w)
  <2>1. sig' = sig /\ run' = [run EXCEPT ![w] = SyncNext(run[w], "close")] /\ "close" \in Purposes
    BY <1>22 DEF SendClose, Purposes
  <2>2. SyncNext(run[w], "close") \in RunType /\ SyncNext(run[w], "close").pc = "sync"
        /\ SyncNext(run[w], "close").at = "close"
    BY <1>1, <2>1, SyncNextType, SyncNextFields
  <2> QED BY <1>1, <1>2, <2>1, <2>2, LeavesEntry DEF EntrySteps
<1>23. CASE \/ ReadOpenIds(w) \/ ListOpenOrders(w) \/ ReadPosition(w) \/ PositionAgrees(w)
            \/ PositionVanished(w) \/ AdoptQuantity(w)
  <2>1. sig' = sig
    BY <1>23 DEF ReadOpenIds, ListOpenOrders, ReadPosition, PositionAgrees, PositionVanished, AdoptQuantity, db
  <2>2. run'[w].pc \in {"list_orders", "orphans", "compare", "new", "recon_close"}
    BY <1>1, <1>23, ReadShape
    DEF ReadOpenIds, ListOpenOrders, ReadPosition, PositionAgrees, PositionVanished, AdoptQuantity, TypeOK, RunType
  <2> QED BY <1>2, <2>1, <2>2 DEF Coming, EntrySteps, OrderSteps
<1>24. CASE CloseExternal(w)
  <2>1. PICK t \in run[w].todo :
          run' = [run EXCEPT ![w] = CancelThen(
                    [run[w] EXCEPT !.cur = t, !.back = "recon_close", !.todo = @ \ {t}],
                    OpenProtective(t), "finish")]
    BY <1>24 DEF CloseExternal
  <2> DEFINE r == [run[w] EXCEPT !.cur = t, !.back = "recon_close", !.todo = @ \ {t}]
  <2>2. r \in RunType /\ OpenProtective(t) \in SUBSET Orders
    BY <1>1, OpenProtectiveShape DEF RunType
  <2>3. run' = [run EXCEPT ![w] = CancelThen(r, OpenProtective(t), "finish")]
    BY <2>1
  <2> HIDE DEF r
  <2> QED BY <1>1, <1>2, <1>24, <2>2, <2>3, CancelLeaves DEF CloseExternal, db
<1>25. CASE RejectCandidate(w)
  <2>1. \A s \in Signals : SignalOpen(s)' => SignalOpen(s)
    BY <1>1, <1>25 DEF RejectCandidate, SignalOpen, TypeOK
  <2> QED BY <1>25, <2>1 DEF RejectCandidate, Extends, Coming
<1>26. CASE CreateEntryRow(w)
  <2>1. sig' = sig /\ run'[w].cur = run[w].cur /\ run[w].pc = "entry_row"
    BY <1>1, <1>26 DEF CreateEntryRow, At, TypeOK, RunType
  <2> QED BY <1>1, <2>1, ComesOnly DEF Coming, EntrySteps
<1>27. CASE RowLost(w)
  <2>1. sig' = sig /\ run[w].pc \in EntrySteps
        /\ (run' = [run EXCEPT ![w] = Return(run[w])] \/ \E label \in {"tp_row", "mark_entered"} : Goto(w, label))
    BY <1>27 DEF RowLost, At, EntrySteps, db
  <2>2. CASE run' = [run EXCEPT ![w] = Return(run[w])]
    BY <1>1, <1>2, <2>1, <2>2, ReturnLeaves
  <2>3. CASE \E label \in {"tp_row", "mark_entered"} : Goto(w, label)
    <3>1. \A s \in Signals : Coming(w, s)' => Coming(w, s)
      BY <1>1, <2>1, <2>3, GoesOn DEF PcLabels
    <3> QED BY <1>1, <2>1, <3>1, ComesOnly
  <2> QED BY <2>1, <2>2, <2>3
<1> QED
  BY <1>3, <1>4, <1>5, <1>6, <1>7, <1>8, <1>9, <1>10, <1>11, <1>12, <1>13, <1>14, <1>15, <1>16, <1>17,
     <1>18, <1>19, <1>20, <1>21, <1>22, <1>23, <1>24, <1>25, <1>26, <1>27
  DEF Work, GoOn, WorkerFault, Armed, Enter, Entered, Cancel, Finish, Reconcile, NewSignals

(* Every step keeps an interval to one signal: conform lets a candidate    *)
(* through only when no signal holds the symbol, and the interval's own    *)
(* run is the only one that can arm or enter its signals.                  *)
LEMMA IntervalStep == IntervalInv /\ [Next]_vars => IntervalInv'
<1> SUFFICES ASSUME IntervalInv, [Next]_vars PROVE IntervalInv'
  OBVIOUS
<1>1. IInv /\ IInv' /\ TypeOK
  BY NextKeeps DEF IntervalInv, IInv
<1>2. CASE UNCHANGED vars
  <2>1. run' = run /\ sig' = sig
    BY <1>2 DEF vars
  <2> QED BY <1>1, <2>1 DEF IntervalInv, Taking, Coming, SignalOpen
<1>3. CASE Exchange \/ \E s \in Signals : SetupMoves(s)
  <2>1. run' = run /\ sig' = sig
    BY <1>3
    DEF Exchange, FillEntry, FillTakeProfit, TriggerStop, ExpireReduceOnly, Expire, Forget,
        CloseByHand, SetupMoves, db
  <2> QED BY <1>1, <2>1 DEF IntervalInv, Taking, Coming, SignalOpen
<1>4. ASSUME NEW w \in Workers, Work(w) \/ WorkerFault(w) PROVE IntervalInv'
  <2>1. ASSUME NEW v \in Workers, v # w PROVE run'[v] = run[v]
    BY <1>1, <1>4, <2>1, Alone DEF Others
  <2>2. CASE ~AcceptCandidate(w)
    <3>1. Extends(w)
      BY <1>1, <1>4, <2>2, ExtendsStep
    <3>2. ASSUME NEW v \in Workers, NEW s \in Taking(v)' PROVE s \in Taking(v)
      <4>1. s \in Signals /\ Owner[s] = v /\ (SignalOpen(s)' \/ Coming(v, s)')
        BY <3>2 DEF Taking
      <4>2. CASE v = w
        BY <3>1, <4>1, <4>2 DEF Extends, Taking
      <4>3. CASE v # w
        BY <2>1, <3>1, <4>1, <4>3 DEF Extends, Taking, Coming
      <4> QED BY <4>2, <4>3
    <3> QED BY <1>1, <3>2 DEF IntervalInv
  <2>3. CASE AcceptCandidate(w)
    <3>1. PICK c \in Signals :
            run' = [run EXCEPT ![w].pc = "arm", ![w].cur = c, ![w].back = "new"]
      BY <2>3 DEF AcceptCandidate, Candidates
    <3>2. sig' = sig /\ SymbolFree /\ run'[w].cur = c
      BY <1>1, <2>3, <3>1 DEF AcceptCandidate, db, TypeOK, RunType
    <3>3. \A s \in Signals : ~SignalOpen(s)'
      BY <3>2 DEF SymbolFree, SignalOpen
    <3>4. ASSUME NEW v \in Workers, v # w PROVE Taking(v)' \subseteq Taking(v)
      BY <2>1, <3>3, <3>4 DEF Taking, Coming
    <3>5. Taking(w)' \subseteq {c}
      BY <3>2, <3>3 DEF Taking, Coming
    <3>6. ASSUME NEW v \in Workers, NEW s \in Taking(v)', NEW t \in Taking(v)' PROVE s = t
      <4>1. CASE v = w
        BY <3>5, <3>6, <4>1
      <4>2. CASE v # w
        BY <3>4, <3>6, <4>2 DEF IntervalInv
      <4> QED BY <4>1, <4>2
    <3> QED BY <1>1, <3>6 DEF IntervalInv
  <2> QED BY <2>2, <2>3
<1> QED BY <1>2, <1>3, <1>4 DEF Next

(* An interval never holds the symbol with two signals, however its runs   *)
(* are interrupted and overlap with those of the other intervals, and      *)
(* whatever the exchange answers (risk.conform before create_signal).      *)
THEOREM IntervalTheorem == Spec => []OnePerInterval
<1>1. Init => IntervalInv
  <2> SUFFICES ASSUME Init PROVE IntervalInv
    OBVIOUS
  <2>1. IInv
    BY InitHolds
  <2>2. \A w \in Workers : Taking(w) = {}
    BY IdleRunFields DEF Init, Taking, Coming, SignalOpen, EntrySteps, OrderSteps
  <2> QED BY <2>1, <2>2 DEF IntervalInv
<1>2. IntervalInv /\ [Next]_vars => IntervalInv'
  BY IntervalStep
<1>3. IntervalInv => OnePerInterval
  <2> SUFFICES ASSUME IntervalInv, NEW s \in Signals, NEW t \in Signals,
                      SignalOpen(s), SignalOpen(t), Owner[s] = Owner[t]
               PROVE  s = t
    BY DEF OnePerInterval
  <2>1. Owner[s] \in Workers
    BY ConstantsAssumption
  <2> QED BY <2>1 DEF IntervalInv, Taking
<1> QED BY <1>1, <1>2, <1>3, PTL DEF Spec

--------------------------------------------------------------------------------
(* How often a result is settled.                                          *)

FinishSteps == {"expiry", "cancel", "finish", "finish_signal", "finish_cash"}

\* the run may come to _finish_close with the signal at hand
Involved(w) ==
  \/ run[w].pc \in FinishSteps
  \/ run[w].pc \in OrderSteps /\ run[w].at # "entry"

\* it goes through the positions that vanished
Vanishing(w) == At(w, "recon_close") \/ (run[w].pc \in WithSignal /\ run[w].back = "recon_close")

(* The run may still settle the signal.                                    *)
Finishing(w, s) ==
  \/ run[w].cur = s /\ Involved(w)
  \/ s \in run[w].todo /\ Vanishing(w)

Finishers(s) == {w \in Workers : Finishing(w, s)}

(* A run settles what it has closed, and has no signal before it twice.    *)
Tidy(w) ==
  /\ run[w].pc \in {"finish_signal", "finish_cash"} => pos[run[w].cur] = "closed"
  /\ run[w].pc \in WithSignal /\ run[w].back = "recon_close" => run[w].cur \notin run[w].todo

(* Nobody turns to a position that is closed already: each task has at     *)
(* most the one settlement it was on when the position was closed.         *)
SettledInv ==
  /\ IInv
  /\ \A w \in Workers : Tidy(w)
  /\ \A s \in Signals :
       /\ pos[s] # "closed" => settled[s] = 0
       /\ settled[s] + Cardinality(Finishers(s)) <= Cardinality(Workers)

(* What a step of a run keeps for that.                                    *)
Carries(w) ==
  /\ \A s \in Signals : pos[s] = "closed" /\ Finishing(w, s)' => Finishing(w, s)
  /\ Tidy(w)'

(* The run turns away from exits, or has not come to any.                  *)
LEMMA CarriesNone ==
  ASSUME NEW w \in Workers, ~Involved(w)', ~Vanishing(w)'
  PROVE  Carries(w)
  BY DEF Carries, Finishing, Tidy, Involved, Vanishing, FinishSteps, At

(* It goes on with the signal at hand.                                     *)
LEMMA CarriesOn ==
  ASSUME NEW w \in Workers, Tidy(w), run[w].pc \in WithSignal, run'[w].pc \in WithSignal,
         run'[w].cur = run[w].cur, run'[w].back = run[w].back, run'[w].todo = run[w].todo,
         run'[w].pc \in {"finish_signal", "finish_cash"} => pos'[run[w].cur] = "closed",
         Involved(w)' => Involved(w)
  PROVE  Carries(w)
  BY DEF Carries, Finishing, Tidy, Vanishing, At, WithSignal

(* It is done with it.                                                     *)
LEMMA CarriesReturn ==
  ASSUME TypeOK, NEW w \in Workers, Tidy(w), run[w].pc \in WithSignal,
         run' = [run EXCEPT ![w] = Return(run[w])]
  PROVE  Carries(w) /\ \A s \in Signals : s = run[w].cur => ~Finishing(w, s)'
<1>1. run[w] \in RunType /\ run'[w] = Return(run[w])
  BY SmallTypes DEF TypeOK
<1>2. /\ run'[w].pc = run[w].back /\ run'[w].todo = run[w].todo
      /\ run[w].back \in {"loop", "recon_close", "new"}
  BY <1>1, ReturnFields, SmallTypes
<1> QED
  BY <1>2 DEF Carries, Finishing, Tidy, Involved, Vanishing, FinishSteps, OrderSteps, WithSignal, At

(* Onward from a step that deals with an order.                            *)
LEMMA CarriesOnward ==
  ASSUME TypeOK, NEW w \in Workers, Tidy(w), run[w].pc \in OrderSteps,
         run' = [run EXCEPT ![w] = Onward(w)]
  PROVE  Carries(w)
<1>1. run[w] \in RunType /\ run[w].at \in Purposes /\ run[w].pc \in WithSignal
  BY SmallTypes DEF OrderSteps, WithSignal, PcLabels
<1>2. CASE Onward(w) = Return(run[w])
  BY <1>1, <1>2, CarriesReturn
<1>3. CASE run[w].at # "entry" /\ Onward(w) = SyncNext(run[w], "take_profit")
  <2>1. run'[w] = SyncNext(run[w], "take_profit") /\ "take_profit" \in Purposes
    BY <1>3 DEF TypeOK, Purposes
  <2> QED BY <1>1, <1>3, <2>1, SyncNextFields, CarriesOn DEF Involved, OrderSteps, WithSignal, PcLabels
<1>4. CASE run[w].at # "entry" /\ Onward(w) = [run[w] EXCEPT !.pc = "expiry"]
  <2>1. /\ run'[w].pc = "expiry" /\ run'[w].cur = run[w].cur /\ run'[w].back = run[w].back
        /\ run'[w].todo = run[w].todo
    BY <1>1, <1>4 DEF TypeOK, RunType
  <2> QED BY <1>1, <1>4, <2>1, CarriesOn DEF Involved, OrderSteps, WithSignal, PcLabels
<1> QED BY <1>1, <1>2, <1>3, <1>4 DEF Onward, Purposes

(* _cancel_rest for the signal at hand.                                    *)
LEMMA CarriesCancel ==
  ASSUME TypeOK, NEW w \in Workers, Tidy(w), Involved(w), NEW orders \in SUBSET Orders,
         NEW after \in {"exit", "amount", "finish"},
         run' = [run EXCEPT ![w] = CancelThen(run[w], orders, after)]
  PROVE  Carries(w)
<1>1. run[w] \in RunType /\ run'[w] = CancelThen(run[w], orders, after) /\ run[w].pc \in WithSignal
  BY SmallTypes DEF TypeOK, Involved, FinishSteps, OrderSteps, WithSignal, PcLabels
<1> QED BY <1>1, CancelThenFields, CarriesOn DEF WithSignal, PcLabels

(* update_entered looks at the position first.                             *)
LEMMA CarriesProtect ==
  ASSUME TypeOK, NEW w \in Workers, Tidy(w), NEW r \in RunType, NEW s \in Signals,
         r.back = run[w].back, r.todo \subseteq run[w].todo,
         r.back = "recon_close" => run[w].pc \in WithSignal /\ run[w].cur = s,
         run' = [run EXCEPT ![w] = BeginProtect(r, s)]
  PROVE  Carries(w)
<1> DEFINE rows == OpenProtective(s)
           r1 == [r EXCEPT !.cur = s, !.list = rows, !.after = "exit"]
           q == BeginProtect(r, s)
<1>1. run'[w] = q
  BY DEF TypeOK
<1>2. r1 \in RunType /\ r1.cur = s /\ r1.back = r.back /\ r1.todo = r.todo
  BY OpenProtectiveShape DEF RunType
<1>3. {"stop_loss", "take_profit"} \subseteq Purposes
  BY DEF Purposes
<1>4. CASE pos[s] # "open"
  <2>1. q = Return(r)
    BY <1>4 DEF BeginProtect
  <2>2. q.pc = r.back /\ q.todo = r.todo /\ r.back \in {"loop", "recon_close", "new"}
    BY <2>1, ReturnFields DEF RunType
  <2> HIDE DEF q
  <2> QED
    BY <1>1, <2>2 DEF Carries, Finishing, Tidy, Involved, Vanishing, FinishSteps, OrderSteps, WithSignal, At
<1>5. CASE pos[s] = "open"
  <2>1. q \in {SyncNext(r1, "stop_loss"), SyncNext(r1, "take_profit"), [r1 EXCEPT !.pc = "expiry"]}
    BY <1>5 DEF BeginProtect
  <2> HIDE DEF r1
  <2>2. \A x \in {SyncNext(r1, "stop_loss"), SyncNext(r1, "take_profit"), [r1 EXCEPT !.pc = "expiry"]} :
          x.cur = s /\ x.back = r.back /\ x.todo = r.todo /\ x.pc \in {"sync", "expiry"}
    BY <1>2, <1>3, SyncNextFields DEF RunType
  <2>3. q.cur = s /\ q.back = r.back /\ q.todo = r.todo /\ q.pc \in {"sync", "expiry"}
    BY <2>1, <2>2
  <2> HIDE DEF q
  <2> QED BY <1>1, <1>5, <2>3 DEF Carries, Finishing, Tidy, Vanishing, At
<1> QED BY <1>4, <1>5

(* The steps that stay with the signal, turn to another one, or to none.   *)
LEMMA CarriesStep ==
  ASSUME IInv, NEW w \in Workers, Tidy(w), Work(w) \/ WorkerFault(w)
  PROVE  Carries(w)
<1>1. /\ TypeOK /\ RunFacts(w) /\ run[w] \in RunType /\ run[w].cur \in Signals
      /\ run[w].todo \in SUBSET Signals /\ run[w].list \in SUBSET Orders /\ IdleRun \in RunType
      /\ run[w].pc \in PcLabels
  BY SmallTypes DEF IInv
<1> DEFINE Aside == {"idle", "loop", "open_ids", "list_orders", "orphans", "compare", "new"}
<1>2. ASSUME run'[w].pc \in Aside PROVE Carries(w)
  BY <1>2, CarriesNone DEF Involved, Vanishing, FinishSteps, OrderSteps, WithSignal, At
\* moving on with the signal at hand
<1>3. ASSUME NEW label \in WithSignal, Goto(w, label), run[w].pc \in WithSignal,
             label \in {"finish_signal", "finish_cash"} => pos'[run[w].cur] = "closed",
             label \in FinishSteps \/ (label \in OrderSteps /\ run[w].at # "entry") => Involved(w)
      PROVE  Carries(w)
  <2>1. label \in PcLabels
    BY <1>3 DEF WithSignal
  <2> QED BY <1>1, <1>3, <2>1, GotoFields, CarriesOn DEF Involved
<1>4. CASE StartRun(w) \/ EndRun(w) \/ Crash(w)
  <2>1. run'[w].pc \in Aside
    BY <1>1, <1>4, IdleRunFields DEF StartRun, EndRun, Crash, TypeOK, RunType
  <2> QED BY <1>2, <2>1
<1>5. CASE Sync(w)
  <2>1. PICK label \in {"known", "gone", "place"} : Goto(w, label) /\ At(w, "sync")
    BY <1>5 DEF Sync, SyncKnown, SyncMissing, SyncResubmits
  <2> QED BY <1>3, <2>1 DEF At, PcLabels, WithSignal, FinishSteps, OrderSteps, Involved
<1>6. CASE Place(w) \/ CloseExpires(w) \/ PlaceUnanswered(w) \/ PlaceUnclear(w)
  <2>1. At(w, "place")
    BY <1>6 DEF Place, PlaceAccepted, PlaceRejected, CloseExpires, PlaceUnanswered, PlaceUnclear
  <2>2. \/ run' = [run EXCEPT ![w] = Return(run[w])]
        \/ run' = [run EXCEPT ![w] = Onward(w)]
        \/ Goto(w, "known") \/ Goto(w, "gone")
    BY <1>6 DEF Place, PlaceAccepted, PlaceRejected, CloseExpires, PlaceUnanswered, PlaceUnclear, Goto
  <2>3. CASE Goto(w, "known") \/ Goto(w, "gone")
    BY <1>3, <2>1, <2>3 DEF At, PcLabels, WithSignal, FinishSteps, OrderSteps, Involved
  <2>4. CASE run' = [run EXCEPT ![w] = Return(run[w])]
    BY <1>1, <2>1, <2>4, CarriesReturn DEF At, PcLabels, WithSignal
  <2>5. CASE run' = [run EXCEPT ![w] = Onward(w)]
    BY <1>1, <2>1, <2>5, CarriesOnward DEF At, OrderSteps
  <2> QED BY <2>2, <2>3, <2>4, <2>5
<1>7. CASE UpdateArmed(w)
  <2>1. PICK t \in run[w].todo :
          LET r == [run[w] EXCEPT !.todo = @ \ {t}, !.cur = t]
          IN  run' = [run EXCEPT ![w] = IF row[<<t, "entry">>] = "open" THEN SyncNext(r, "entry")
                                        ELSE Return(r)]
    BY <1>7 DEF UpdateArmed
  <2> DEFINE r == [run[w] EXCEPT !.todo = @ \ {t}, !.cur = t]
  <2>2. r \in RunType /\ r.back = "loop" /\ "entry" \in Purposes
    BY <1>1, <1>7, <2>1 DEF UpdateArmed, RunFacts, TodoFacts, RunType, Purposes
  <2> HIDE DEF r
  <2>3. run' = [run EXCEPT ![w] = IF row[<<t, "entry">>] = "open" THEN SyncNext(r, "entry") ELSE Return(r)]
    BY <2>1 DEF r
  <2>4. run'[w] = SyncNext(r, "entry") \/ run'[w] = Return(r)
    BY <1>1, <2>3 DEF TypeOK
  <2>5. /\ SyncNext(r, "entry").pc = "sync" /\ SyncNext(r, "entry").at = "entry"
        /\ SyncNext(r, "entry").back = "loop" /\ Return(r).pc = "loop"
    BY <2>2, SyncNextFields, ReturnFields
  <2> QED BY <2>4, <2>5, CarriesNone DEF Involved, Vanishing, FinishSteps, OrderSteps, WithSignal, At
<1>8. CASE CancelDeadEntry(w) \/ CancelOnExchange(w)
  <2>1. run' = run /\ pos' = pos
    BY <1>8 DEF CancelDeadEntry, CancelOnExchange, db
  <2> QED BY <2>1 DEF Carries, Finishing, Tidy, Involved, Vanishing, At
<1>9. CASE EntryWaits(w) \/ SettleCash(w) \/ CloseUnconfirmed(w) \/ CancelSignal(w)
  <2>1. run' = [run EXCEPT ![w] = Return(run[w])] /\ run[w].pc \in WithSignal
    BY <1>9 DEF EntryWaits, SettleCash, CloseUnconfirmed, CancelSignal, At, WithSignal, PcLabels
  <2> QED BY <1>1, <2>1, CarriesReturn
<1>10. CASE \/ EntryFilled(w) \/ EntryClosed(w) \/ OpenPosition(w) \/ FillEntryRow(w)
            \/ CreateStopRow(w) \/ CreateTakeProfitRow(w) \/ MarkEntered(w) \/ Arm(w)
            \/ ProtectionClosed(w)
  <2>1. PICK label \in {"open_position", "gone", "fill_entry", "sl_row", "tp_row", "mark_entered",
                        "protect", "entry_row"} :
          /\ Goto(w, label) /\ run[w].pc \in WithSignal
          /\ label = "gone" => run[w].pc = "known"
    BY <1>10 DEF EntryFilled, EntryClosed, OpenPosition, FillEntryRow, CreateStopRow,
                 CreateTakeProfitRow, MarkEntered, Arm, ProtectionClosed, At, WithSignal, PcLabels
  <2> QED BY <1>3, <2>1 DEF WithSignal, PcLabels, FinishSteps, OrderSteps, Involved
<1>11. CASE Protect(w)
  <2>1. run' = [run EXCEPT ![w] = BeginProtect(run[w], run[w].cur)] /\ run[w].pc \in WithSignal
    BY <1>11 DEF Protect, At, WithSignal, PcLabels
  <2> QED BY <1>1, <2>1, CarriesProtect
<1>12. CASE UpdateEntered(w)
  <2>1. PICK t \in run[w].todo : run' = [run EXCEPT ![w] = BeginProtect([run[w] EXCEPT !.todo = @ \ {t}], t)]
    BY <1>12 DEF UpdateEntered
  <2> DEFINE r == [run[w] EXCEPT !.todo = @ \ {t}]
  <2>2. /\ r \in RunType /\ t \in Signals /\ r.todo \subseteq run[w].todo /\ r.back = run[w].back
        /\ r.back = "loop"
    BY <1>1, <1>12 DEF UpdateEntered, RunFacts, TodoFacts, RunType
  <2>3. run' = [run EXCEPT ![w] = BeginProtect(r, t)]
    BY <2>1
  <2> HIDE DEF r
  <2> QED BY <1>1, <2>2, <2>3, CarriesProtect
<1>13. CASE StillOpen(w) \/ OtherGone(w)
  <2>1. run' = [run EXCEPT ![w] = Onward(w)] /\ run[w].pc \in OrderSteps
    BY <1>13 DEF StillOpen, OtherGone, At, OrderSteps
  <2> QED BY <1>1, <2>1, CarriesOnward
<1>14. CASE ExitFilled(w) \/ StopGone(w) \/ PositionGone(w)
  <2>1. PICK orders \in SUBSET Orders, after \in {"exit", "amount", "finish"} :
          run' = [run EXCEPT ![w] = CancelThen(run[w], orders, after)]
    BY <1>1, <1>14, OpenProtectiveShape DEF ExitFilled, StopGone, PositionGone
  <2>2. Involved(w)
    BY <1>14 DEF ExitFilled, StopGone, PositionGone, Involved, At, OrderSteps, FinishSteps
  <2> QED BY <1>1, <2>1, <2>2, CarriesCancel
<1>15. CASE CheckExpiry(w)
  <2>1. At(w, "expiry") /\
        \/ run' = [run EXCEPT ![w] = Return(run[w])]
        \/ run' = [run EXCEPT ![w] = CancelThen(run[w], OpenProtective(run[w].cur), "amount")]
    BY <1>15 DEF CheckExpiry
  <2>2. OpenProtective(run[w].cur) \in SUBSET Orders /\ Involved(w) /\ run[w].pc \in WithSignal
    BY <1>1, <2>1, OpenProtectiveShape DEF Involved, At, FinishSteps, WithSignal, PcLabels
  <2> QED BY <1>1, <2>1, <2>2, CarriesReturn, CarriesCancel
<1>16. CASE CloseFilled(w) \/ RecordExit(w) \/ ExternalCancelled(w)
  <2>1. Goto(w, "finish") /\ Involved(w) /\ run[w].pc \in WithSignal
    BY <1>16 DEF CloseFilled, RecordExit, ExternalCancelled, Involved, At, OrderSteps, FinishSteps,
                 WithSignal, PcLabels
  <2> QED BY <1>3, <2>1 DEF WithSignal, PcLabels
<1>17. CASE ClosePosition(w) \/ CloseSignal(w)
  <2>1. /\ Goto(w, "finish_signal") \/ Goto(w, "finish_cash")
        /\ Involved(w) /\ run[w].pc \in WithSignal
    BY <1>17 DEF ClosePosition, CloseSignal, Involved, At, FinishSteps, WithSignal, PcLabels
  <2>2. pos'[run[w].cur] = "closed"
    BY <1>1, <1>17 DEF ClosePosition, CloseSignal, TypeOK, Tidy, At
  <2> QED BY <1>3, <2>1, <2>2 DEF WithSignal, PcLabels
<1>18. CASE RecordCancelled(w) \/ CancelOrphan(w)
  <2>1. /\ run'[w].pc = run[w].pc /\ run'[w].cur = run[w].cur /\ run'[w].at = run[w].at
        /\ run'[w].back = run[w].back /\ run'[w].todo = run[w].todo /\ pos' = pos
    BY <1>1, <1>18 DEF RecordCancelled, CancelOrphan, db, TypeOK, RunType
  <2> QED BY <2>1 DEF Carries, Finishing, Tidy, Involved, Vanishing, At
<1>19. CASE SendClose(w)
  <2>1. run' = [run EXCEPT ![w] = SyncNext(run[w], "close")] /\ "close" \in Purposes /\ At(w, "cancel")
    BY <1>19 DEF SendClose, Purposes
  <2>2. run'[w] = SyncNext(run[w], "close")
    BY <1>1, <2>1 DEF TypeOK
  <2> QED
    BY <1>1, <2>1, <2>2, SyncNextFields, CarriesOn DEF At, Involved, FinishSteps, WithSignal, PcLabels
<1>20. CASE \/ AdoptBalance(w) \/ ReconcileDone(w) \/ ReadOpenIds(w) \/ ListOpenOrders(w)
            \/ ReadPosition(w) \/ PositionAgrees(w) \/ AdoptQuantity(w)
  <2>1. run'[w].pc \in Aside
    BY <1>1, <1>20, ReadShape
    DEF AdoptBalance, ReconcileDone, Goto, ReadOpenIds, ListOpenOrders, ReadPosition, PositionAgrees,
        AdoptQuantity, TypeOK, RunType
  <2> QED BY <1>2, <2>1
<1>21. CASE PositionVanished(w)
  <2>1. /\ run'[w].pc = "recon_close" /\ run'[w].todo = OpenPositions
    BY <1>1, <1>21 DEF PositionVanished, TypeOK, RunType
  <2> QED
    BY <2>1 DEF Carries, Finishing, Tidy, Involved, FinishSteps, OrderSteps, WithSignal, OpenPositions
<1>22. CASE CloseExternal(w)
  <2>1. PICK t \in run[w].todo :
          run' = [run EXCEPT ![w] = CancelThen(
                    [run[w] EXCEPT !.cur = t, !.back = "recon_close", !.todo = @ \ {t}],
                    OpenProtective(t), "finish")]
    BY <1>22 DEF CloseExternal
  <2> DEFINE r == [run[w] EXCEPT !.cur = t, !.back = "recon_close", !.todo = @ \ {t}]
  <2>2. /\ r \in RunType /\ r.cur = t /\ r.todo = run[w].todo \ {t} /\ t \in Signals
        /\ OpenProtective(t) \in SUBSET Orders
    BY <1>1, OpenProtectiveShape DEF RunType
  <2>3. run'[w] = CancelThen(r, OpenProtective(t), "finish")
    BY <1>1, <2>1 DEF TypeOK
  <2> HIDE DEF r
  <2>4. run'[w].pc = "cancel" /\ run'[w].cur = t /\ run'[w].todo = run[w].todo \ {t}
    BY <2>2, <2>3, CancelThenFields
  <2> QED BY <1>22, <2>4 DEF CloseExternal, Carries, Finishing, Tidy, Vanishing
<1>23. CASE AcceptCandidate(w)
  <2>1. run'[w].pc = "arm" /\ run'[w].back = "new"
    BY <1>1, <1>23 DEF AcceptCandidate, TypeOK, RunType
  <2> QED BY <2>1, CarriesNone DEF Involved, Vanishing, FinishSteps, OrderSteps, At
<1>24. CASE RejectCandidate(w)
  BY <1>2, <1>24 DEF RejectCandidate, At
<1>25. CASE CreateEntryRow(w)
  <2>1. /\ run'[w].pc = "place" /\ run'[w].at = "entry" /\ run'[w].cur = run[w].cur
        /\ run'[w].back = run[w].back /\ run'[w].todo = run[w].todo /\ At(w, "entry_row")
    BY <1>1, <1>25 DEF CreateEntryRow, TypeOK, RunType
  <2> QED BY <1>1, <2>1, CarriesOn DEF Involved, FinishSteps, OrderSteps, WithSignal, PcLabels, At
<1>26. CASE RowLost(w)
  <2>1. /\ run[w].pc \in WithSignal
        /\ run' = [run EXCEPT ![w] = Return(run[w])] \/ \E label \in {"tp_row", "mark_entered"} : Goto(w, label)
    BY <1>26 DEF RowLost, At, WithSignal, PcLabels
  <2>2. CASE run' = [run EXCEPT ![w] = Return(run[w])]
    BY <1>1, <2>1, <2>2, CarriesReturn
  <2>3. CASE \E label \in {"tp_row", "mark_entered"} : Goto(w, label)
    BY <1>3, <2>1, <2>3 DEF WithSignal, PcLabels, FinishSteps, OrderSteps
  <2> QED BY <2>1, <2>2, <2>3
<1> QED
  BY <1>4, <1>5, <1>6, <1>7, <1>8, <1>9, <1>10, <1>11, <1>12, <1>13, <1>14, <1>15, <1>16, <1>17,
     <1>18, <1>19, <1>20, <1>21, <1>22, <1>23, <1>24, <1>25, <1>26
  DEF Work, GoOn, WorkerFault, Armed, Enter, Entered, Cancel, Finish, Reconcile, NewSignals

(* A closed position stays closed, and only _finish_close's last statement *)
(* settles.                                                                *)
LEMMA ClosedStays ==
  ASSUME TypeOK, NEW w \in Workers, Work(w) \/ WorkerFault(w)
  PROVE  /\ \A s \in Signals : pos[s] = "closed" => pos'[s] = "closed"
         /\ ~SettleCash(w) => settled' = settled
<1>1. CASE StartRun(w) \/ Sync(w) \/ Place(w) \/ Armed(w) \/ Entered(w) \/ WorkerFault(w)
  <2>1. pos' = pos /\ settled' = settled
    BY <1>1 DEF StartRun, Sync, SyncKnown, SyncMissing, SyncResubmits, Place, PlaceAccepted, PlaceRejected,
         Armed, UpdateArmed, CancelDeadEntry, EntryWaits, EntryFilled, EntryClosed, CancelSignal,
         Entered, UpdateEntered, StillOpen, ExitFilled, ProtectionClosed, StopGone, OtherGone,
         CheckExpiry, CloseFilled, CloseUnconfirmed, WorkerFault, CloseExpires, PlaceUnanswered,
         PlaceUnclear, Crash, RowLost, db, account
  <2> QED BY <2>1
<1>2. CASE Cancel(w) \/ Reconcile(w) \/ NewSignals(w)
  <2>1. pos' = pos /\ settled' = settled
    BY <1>2 DEF Cancel, CancelOnExchange, RecordCancelled, RecordExit, PositionGone, SendClose,
         ExternalCancelled, Reconcile, AdoptBalance, ReadOpenIds, ListOpenOrders, CancelOrphan,
         ReadPosition, PositionAgrees, PositionVanished, AdoptQuantity, CloseExternal, ReconcileDone,
         NewSignals, AcceptCandidate, RejectCandidate, Arm, CreateEntryRow, EndRun, db, account
  <2> QED BY <2>1
<1>3. CASE Enter(w)
  BY <1>3 DEF Enter, OpenPosition, FillEntryRow, CreateStopRow, CreateTakeProfitRow, MarkEntered, Protect,
       db, account, TypeOK
<1>4. CASE Finish(w)
  BY <1>4 DEF Finish, ClosePosition, CloseSignal, SettleCash, db, account, TypeOK
<1> QED BY <1>1, <1>2, <1>3, <1>4 DEF Work, GoOn

(* A worker that settles counts once, and is one finisher less.            *)
LEMMA SettledStep == SettledInv /\ [Next]_vars => SettledInv'
<1> SUFFICES ASSUME SettledInv, [Next]_vars PROVE SettledInv'
  OBVIOUS
<1>1. IInv /\ IInv' /\ TypeOK /\ TypeOK' /\ IsFiniteSet(Workers)
  BY NextKeeps, ConstantsAssumption DEF SettledInv, IInv
<1>2. ASSUME run' = run, pos' = pos, settled' = settled PROVE SettledInv'
  BY <1>1, <1>2 DEF SettledInv, Tidy, Finishers, Finishing, Involved, Vanishing, At
<1>3. CASE UNCHANGED vars
  BY <1>2, <1>3 DEF vars
<1>4. CASE Exchange \/ \E s \in Signals : SetupMoves(s)
  <2>1. run' = run /\ pos' = pos /\ settled' = settled
    BY <1>4
    DEF Exchange, FillEntry, FillTakeProfit, TriggerStop, ExpireReduceOnly, Expire, Forget,
        CloseByHand, SetupMoves, db, account
  <2> QED BY <1>2, <2>1
<1>5. ASSUME NEW w \in Workers, Work(w) \/ WorkerFault(w) PROVE SettledInv'
  <2>1. ASSUME NEW v \in Workers, v # w PROVE run'[v] = run[v]
    BY <1>1, <1>5, <2>1, Alone DEF Others
  <2>2. Carries(w)
    BY <1>1, <1>5, CarriesStep DEF SettledInv
  <2>3. /\ \A s \in Signals : pos[s] = "closed" => pos'[s] = "closed"
        /\ ~SettleCash(w) => settled' = settled
    BY <1>1, <1>5, ClosedStays
  <2>4. ASSUME NEW v \in Workers PROVE Tidy(v)'
    <3>1. CASE v = w
      BY <2>2, <3>1 DEF Carries
    <3>2. CASE v # w
      <4>1. Tidy(v) /\ run[v].cur \in Signals /\ run'[v] = run[v]
        BY <1>1, <2>1, <3>2, SmallTypes DEF SettledInv
      <4> QED BY <2>3, <4>1 DEF Tidy
    <3> QED BY <3>1, <3>2
  <2>5. ASSUME NEW s \in Signals, pos[s] = "closed" PROVE Finishers(s)' \subseteq Finishers(s)
    <3>1. ASSUME NEW v \in Finishers(s)' PROVE v \in Finishers(s)
      <4>1. v \in Workers /\ Finishing(v, s)'
        BY <3>1 DEF Finishers
      <4>2. CASE v = w
        BY <2>2, <2>5, <4>1, <4>2 DEF Carries, Finishers
      <4>3. CASE v # w
        BY <2>1, <4>1, <4>3 DEF Finishers, Finishing, Involved, Vanishing, At
      <4> QED BY <4>2, <4>3
    <3> QED BY <3>1
  <2>6. ASSUME NEW s \in Signals
        PROVE  /\ IsFiniteSet(Finishers(s)) /\ Cardinality(Finishers(s)) \in Nat
               /\ IsFiniteSet(Finishers(s)') /\ Cardinality(Finishers(s)') \in Nat
               /\ Cardinality(Finishers(s)') <= Cardinality(Workers)
               /\ Cardinality(Workers) \in Nat
               /\ settled[s] \in Nat /\ settled'[s] \in Nat
    <3>1. Finishers(s) \subseteq Workers /\ Finishers(s)' \subseteq Workers
      BY DEF Finishers
    <3>2. settled[s] \in Nat /\ settled'[s] \in Nat
      BY <1>1 DEF TypeOK
    <3> QED BY <1>1, <3>1, <3>2, FS_Subset, FS_CardinalityType
  <2>7. ASSUME NEW s \in Signals
        PROVE  /\ pos'[s] # "closed" => settled'[s] = 0
               /\ settled'[s] + Cardinality(Finishers(s)') <= Cardinality(Workers)
    <3>1. CASE SettleCash(w) /\ run[w].cur = s
      <4>1. /\ settled'[s] = settled[s] + 1 /\ run' = [run EXCEPT ![w] = Return(run[w])]
            /\ run[w].pc = "finish_cash"
        BY <1>1, <3>1 DEF SettleCash, TypeOK, At
      <4>2. pos[s] = "closed" /\ pos'[s] = "closed" /\ w \in Finishers(s) /\ run[w].pc \in WithSignal
        BY <2>3, <3>1, <4>1
        DEF SettledInv, Tidy, Finishers, Finishing, Involved, FinishSteps, WithSignal, PcLabels
      <4>3. Tidy(w)
        BY DEF SettledInv
      <4>4. ~Finishing(w, s)'
        BY <1>1, <3>1, <4>1, <4>2, <4>3, CarriesReturn
      <4>5. Finishers(s)' \subseteq Finishers(s) \ {w}
        BY <2>5, <4>2, <4>4 DEF Finishers
      <4>6. /\ Cardinality(Finishers(s) \ {w}) = Cardinality(Finishers(s)) - 1
            /\ IsFiniteSet(Finishers(s) \ {w})
        BY <2>6, <4>2, FS_RemoveElement
      <4>7. Cardinality(Finishers(s)') <= Cardinality(Finishers(s)) - 1
        BY <4>5, <4>6, FS_Subset
      <4>8. settled[s] + Cardinality(Finishers(s)) <= Cardinality(Workers)
        BY DEF SettledInv
      <4> QED BY <2>6, <4>1, <4>2, <4>7, <4>8
    <3>2. CASE ~(SettleCash(w) /\ run[w].cur = s)
      <4>1. settled'[s] = settled[s]
        BY <1>1, <2>3, <3>2 DEF SettleCash, TypeOK
      <4>2. CASE pos[s] = "closed"
        <5>1. Cardinality(Finishers(s)') <= Cardinality(Finishers(s))
          BY <2>5, <2>6, <4>2, FS_Subset
        <5>2. settled[s] + Cardinality(Finishers(s)) <= Cardinality(Workers) /\ pos'[s] = "closed"
          BY <2>3, <4>2 DEF SettledInv
        <5> QED BY <2>6, <4>1, <5>1, <5>2
      <4>3. CASE pos[s] # "closed"
        <5>1. settled[s] = 0
          BY <4>3 DEF SettledInv
        <5> QED BY <2>6, <4>1, <5>1
      <4> QED BY <4>2, <4>3
    <3> QED BY <3>1, <3>2
  <2> QED BY <1>1, <2>4, <2>7 DEF SettledInv
<1> QED BY <1>3, <1>4, <1>5 DEF Next

(* A task settles a result at most once, however the tasks of the          *)
(* intervals overlap, are interrupted and start over, and whatever closed  *)
(* the position: their number bounds how often the result is added         *)
(* (_finish_close, reconcile).                                             *)
THEOREM SettledTheorem == Spec => []SettledOnce
<1>1. Init => SettledInv
  <2> SUFFICES ASSUME Init PROVE SettledInv
    OBVIOUS
  <2>1. IInv
    BY InitHolds
  <2>2. \A w \in Workers : Tidy(w)
    BY IdleRunFields DEF Init, Tidy, WithSignal
  <2>3. ASSUME NEW s \in Signals
        PROVE  /\ pos[s] # "closed" => settled[s] = 0
               /\ settled[s] + Cardinality(Finishers(s)) <= Cardinality(Workers)
    <3>1. settled[s] = 0 /\ Finishers(s) \subseteq Workers
      BY DEF Init, Finishers
    <3>2. /\ Cardinality(Finishers(s)) <= Cardinality(Workers)
          /\ Cardinality(Finishers(s)) \in Nat /\ Cardinality(Workers) \in Nat
      BY <3>1, ConstantsAssumption, FS_Subset, FS_CardinalityType
    <3> QED BY <3>1, <3>2
  <2> QED BY <2>1, <2>2, <2>3 DEF SettledInv
<1>2. SettledInv /\ [Next]_vars => SettledInv'
  BY SettledStep
<1>3. SettledInv => SettledOnce
  <2> SUFFICES ASSUME SettledInv, NEW s \in Signals PROVE settled[s] <= Cardinality(Workers)
    BY DEF SettledOnce
  <2>1. Finishers(s) \subseteq Workers
    BY DEF Finishers
  <2>2. Cardinality(Finishers(s)) \in Nat /\ Cardinality(Workers) \in Nat
    BY <2>1, ConstantsAssumption, FS_Subset, FS_CardinalityType
  <2> QED BY <2>2 DEF SettledInv, IInv, TypeOK
<1> QED BY <1>1, <1>2, <1>3, PTL DEF Spec

================================================================================
