--------------------------- MODULE KlinesPageCache ---------------------------
(***************************************************************************)
(* The page cache of GET /exchanges/klines: pages in LRU order under a     *)
(* bound on their candles, one fetch per page at a time, a semaphore per   *)
(* exchange, fetches in threads.  Requests are tasks of one event loop, so *)
(* a step is what a request does between two awaits; threads go on when    *)
(* the request that started them is cancelled.                             *)
(*                                                                         *)
(* Time is counted in ticks; candle i is open from tick i * Length up to   *)
(* tick i * Length + Length - 1.                                           *)
(***************************************************************************)
EXTENDS Integers, Sequences, FiniteSets, SequencesExt

CONSTANTS
  Clients, NoOne,
  Keys, Exchanges,
  ExchangeOf,      \* the parts of a key: exchange,
  EndOf,           \* end_time
  LimitOf,         \* and limit
  NoEnd,           \* a request without end_time
  OpenStamped,     \* exchanges whose candles have close_time = open_time
  Length, MaxCandles, Concurrency, HistoryTtl, HeadTtl,
  MaxClock, MaxCancels

ASSUME ConstantsAssumption ==
  /\ IsFiniteSet(Clients) /\ NoOne \notin Clients /\ NoEnd \notin Nat
  /\ ExchangeOf \in [Keys -> Exchanges] /\ EndOf \in [Keys -> Nat \cup {NoEnd}]
  /\ LimitOf \in [Keys -> Nat \ {0}]
  /\ {Length, Concurrency} \subseteq Nat \ {0}
  /\ {MaxCandles, HistoryTtl, HeadTtl, MaxClock, MaxCancels} \subseteq Nat

VARIABLES
  clock,
  lru,       \* _pages: the keys, the least recently used first
  page,      \* _pages: the page of each key of lru
  candles,   \* _candles
  owner,     \* _inflight: the request whose future is registered for the key
  request,   \* request[r]: what client r waits for
  queue,     \* queue[e]: the requests that wait for the semaphore of e
  loose,     \* threads <<key, number>> at work whose request was cancelled
  cancels    \* the number of requests cancelled while they led

vars == <<clock, lru, page, candles, owner, request, queue, loose, cancels>>

\* A page: its newest candle, their number, when the exchange read them.
NoPage == [newest |-> 0, size |-> 0, read |-> 0, immutable |-> FALSE, expires |-> 0]
Page == [newest : Nat, size : Nat, read : Nat, immutable : BOOLEAN, expires : Nat]

States == {"idle", "wait", "queue", "fetch", "fetched"}
Idle == [pc |-> "idle", key |-> NoEnd, page |-> NoPage]
Request == [pc : States, key : Keys \cup {NoEnd}, page : Page]

TypeOK ==
  /\ clock \in Nat /\ candles \in Nat /\ cancels \in Nat
  /\ lru \in Seq(Keys) /\ page \in [Keys -> Page]
  /\ owner \in [Keys -> Clients \cup {NoOne}]
  /\ request \in [Clients -> Request]
  /\ queue \in [Exchanges -> Seq(Clients)]
  /\ loose \in SUBSET (Keys \X Nat)

Init ==
  /\ clock = 0
  /\ lru = <<>> /\ page = [k \in Keys |-> NoPage] /\ candles = 0
  /\ owner = [k \in Keys |-> NoOne]
  /\ request = [r \in Clients |-> Idle]
  /\ queue = [e \in Exchanges |-> <<>>]
  /\ loose = {} /\ cancels = 0

cache == <<lru, page, candles>>

Tick ==
  /\ clock < MaxClock
  /\ clock' = clock + 1
  /\ UNCHANGED <<cache, owner, request, queue, loose, cancels>>

-----------------------------------------------------------------------------
Lesser(m, n) == IF m < n THEN m ELSE n

Cached(k) == \E i \in DOMAIN lru : lru[i] = k

Without(s, x) ==
  IF \E i \in DOMAIN s : s[i] = x THEN RemoveAt(s, CHOOSE i \in DOMAIN s : s[i] = x) ELSE s

\* Requests that hold a place of the semaphore of e.
Fetching(e) == {r \in Clients : request[r].pc \in {"fetch", "fetched"} /\ ExchangeOf[request[r].key] = e}

\* async with: the place is taken unless others wait or hold it.
Starts(e) == Cardinality(Fetching(e)) < Concurrency /\ queue[e] = <<>>

Become(r, state, k) == [request EXCEPT ![r] = [Idle EXCEPT !.pc = state, !.key = k]]

\* get_page: a fresh page
Hit(r, k) ==
  /\ request[r].pc = "idle"
  /\ Cached(k) /\ clock < page[k].expires
  /\ lru' = Append(Without(lru, k), k)
  /\ UNCHANGED <<clock, page, candles, owner, request, queue, loose, cancels>>

\* Variant: the page is taken out, its candles are still counted.
DropExpired_Uncounted(k) ==
  IF Cached(k)
  THEN /\ lru' = Without(lru, k)
       /\ page' = [page EXCEPT ![k] = NoPage]
       /\ candles' = candles
  ELSE UNCHANGED cache

\* _get_fresh: an expired page
DropExpired(k) ==
  IF Cached(k)
  THEN /\ lru' = Without(lru, k)
       /\ page' = [page EXCEPT ![k] = NoPage]
       /\ candles' = candles - page[k].size
  ELSE UNCHANGED cache

\* No fresh page: end_time may be any, in the middle of a candle or to come.
Asked(r, k) ==
  /\ request[r].pc = "idle"
  /\ ~(Cached(k) /\ clock < page[k].expires)

Join(r, k) ==
  /\ Asked(r, k) /\ owner[k] # NoOne
  /\ DropExpired(k)
  /\ request' = Become(r, "wait", k)
  /\ UNCHANGED <<clock, owner, queue, loose, cancels>>

\* Variant: a request that has to wait for the semaphore is not registered.
Lead_RegistersLate(r, k) ==
  /\ Asked(r, k) /\ owner[k] = NoOne
  /\ DropExpired(k)
  /\ IF Starts(ExchangeOf[k])
     THEN /\ owner' = [owner EXCEPT ![k] = r]
          /\ request' = Become(r, "fetch", k) /\ queue' = queue
     ELSE /\ request' = Become(r, "queue", k) /\ owner' = owner
          /\ queue' = [queue EXCEPT ![ExchangeOf[k]] = Append(@, r)]
  /\ UNCHANGED <<clock, loose, cancels>>

Lead(r, k) ==
  /\ Asked(r, k) /\ owner[k] = NoOne
  /\ DropExpired(k)
  /\ owner' = [owner EXCEPT ![k] = r]
  /\ IF Starts(ExchangeOf[k])
     THEN request' = Become(r, "fetch", k) /\ queue' = queue
     ELSE /\ request' = Become(r, "queue", k)
          /\ queue' = [queue EXCEPT ![ExchangeOf[k]] = Append(@, r)]
  /\ UNCHANGED <<clock, loose, cancels>>

\* A place is free: the request that waits longest goes on.
Admit(e) ==
  /\ queue[e] # <<>> /\ Cardinality(Fetching(e)) < Concurrency
  /\ request' = [request EXCEPT ![Head(queue[e])].pc = "fetch"]
  /\ queue' = [queue EXCEPT ![e] = Tail(@)]
  /\ UNCHANGED <<clock, cache, owner, loose, cancels>>

-----------------------------------------------------------------------------
\* The newest candle an exchange has at a time for a key.
Newest(k) == (IF EndOf[k] = NoEnd THEN clock ELSE Lesser(EndOf[k], clock)) \div Length

\* The thread: the exchange reads its candles.
ExchangeReads(r) ==
  /\ request[r].pc = "fetch"
  /\ LET newest == Newest(request[r].key)
     IN request' = [request EXCEPT ![r].pc = "fetched",
                      ![r].page = [NoPage EXCEPT !.newest = newest, !.read = clock,
                                     !.size = Lesser(newest + 1, LimitOf[request[r].key])]]
  /\ UNCHANGED <<clock, cache, owner, queue, loose, cancels>>

LastTick(i) == i * Length + Length - 1

\* close_time of candle i, as the exchange gives it
CloseTime(e, i) == IF e \in OpenStamped THEN i * Length ELSE LastTick(i)

\* Variant: an end_time in the past is enough.
ClosedHistory_AnyEnd(k, newest) == EndOf[k] # NoEnd /\ EndOf[k] < clock

\* is_closed_history, with the time when the answer is there
ClosedHistory(k, newest) ==
  /\ EndOf[k] # NoEnd /\ EndOf[k] < clock
  /\ CloseTime(ExchangeOf[k], newest) < clock

Sizes(keys) == MapThenSumSet(LAMBDA k : page[k].size, keys)

\* _store drops the oldest pages until the count is within the bound, never the new one.
Store(k, new) ==
  LET rest == Without(lru, k)
      Oldest(n) == {rest[i] : i \in 1..n}
      Count(n) == candles - page[k].size + new.size - Sizes(Oldest(n))
      dropped == CHOOSE n \in 0..Len(rest) :
                   /\ n = Len(rest) \/ Count(n) <= MaxCandles
                   /\ \A m \in 0..(n - 1) : Count(m) > MaxCandles
  IN /\ lru' = Append(SubSeq(rest, dropped + 1, Len(rest)), k)
     /\ page' = [j \in Keys |-> IF j = k THEN new ELSE IF j \in Oldest(dropped) THEN NoPage
                               ELSE page[j]]
     /\ candles' = Count(dropped)

\* The future of r is done: r and those who wait for it are answered.
Resolved(r) ==
  [s \in Clients |-> IF s = r \/ (request[s].pc = "wait" /\ request[s].key = request[r].key)
                     THEN Idle ELSE request[s]]

Unregistered(r) == [owner EXCEPT ![request[r].key] = NoOne]

\* get_page after the await: rows, immutable, _store, set_result
Complete(r) ==
  /\ request[r].pc = "fetched"
  /\ LET k == request[r].key
         immutable == ClosedHistory(k, request[r].page.newest)
     IN Store(k, [request[r].page EXCEPT !.immutable = immutable,
                    !.expires = clock + (IF immutable THEN HistoryTtl ELSE HeadTtl)])
  /\ request' = Resolved(r) /\ owner' = Unregistered(r)
  /\ UNCHANGED <<clock, queue, loose, cancels>>

\* Variant: the future is dropped without a result.
Raises_Unresolved(r) ==
  /\ request[r].pc = "fetch"
  /\ request' = [request EXCEPT ![r] = Idle] /\ owner' = Unregistered(r)
  /\ UNCHANGED <<clock, cache, queue, loose, cancels>>

\* fetch raises: the request and those who wait get the error.
Raises(r) ==
  /\ request[r].pc = "fetch"
  /\ request' = Resolved(r) /\ owner' = Unregistered(r)
  /\ UNCHANGED <<clock, cache, queue, loose, cancels>>

\* A request that waits for another one is cancelled; shield keeps the future.
CancelWaiter(r) ==
  /\ request[r].pc = "wait"
  /\ request' = [request EXCEPT ![r] = Idle]
  /\ UNCHANGED <<clock, cache, owner, queue, loose, cancels>>

\* A request that leads is cancelled: so are all that wait for it, and its
\* place is free although its thread goes on.
CancelLeader(r) ==
  /\ request[r].pc \in {"queue", "fetch", "fetched"}
  /\ cancels < MaxCancels /\ cancels' = cancels + 1
  /\ LET k == request[r].key
     IN /\ queue' = [queue EXCEPT ![ExchangeOf[k]] = Without(@, r)]
        /\ loose' = loose \cup (IF request[r].pc = "fetch" THEN {<<k, cancels'>>} ELSE {})
  /\ request' = Resolved(r) /\ owner' = Unregistered(r)
  /\ UNCHANGED <<clock, cache>>

LooseEnds ==
  /\ \E thread \in loose : loose' = loose \ {thread}
  /\ UNCHANGED <<clock, cache, owner, request, queue, cancels>>

-----------------------------------------------------------------------------
Work(r) == ExchangeReads(r) \/ Complete(r) \/ Raises(r)

Next ==
  \/ Tick
  \/ \E r \in Clients, k \in Keys : Hit(r, k) \/ Join(r, k) \/ Lead(r, k)
  \/ \E e \in Exchanges : Admit(e)
  \/ \E r \in Clients : Work(r) \/ CancelWaiter(r) \/ CancelLeader(r)
  \/ LooseEnds

Spec == Init /\ [][Next]_vars

\* Threads end, the event loop takes up what is ready.
Fairness == (\A r \in Clients : WF_vars(Work(r))) /\ (\A e \in Exchanges : WF_vars(Admit(e)))

FairSpec == Spec /\ Fairness

-----------------------------------------------------------------------------
(* _candles is the number of candles in the cache, and they are within the *)
(* bound unless one page alone exceeds it (klines_cache.py, lines 124-132).*)
CacheBounded ==
  /\ candles = Sizes({k \in Keys : Cached(k)})
  /\ candles <= MaxCandles \/ Len(lru) = 1

(* The limits on fetches hold of the threads as well: one at a time for a  *)
(* page and Concurrency for an exchange, and as many more as requests were *)
(* cancelled meanwhile (klines_cache.py, lines 12-14).                     *)
AtWork(k) == Cardinality({r \in Clients : request[r].pc = "fetch" /\ request[r].key = k})
UpstreamBounded ==
  /\ \A e \in Exchanges : Cardinality(Fetching(e)) <= Concurrency
  /\ \A k \in Keys : AtWork(k) <= 1
  /\ Cardinality(loose) <= cancels

\* When an immutable page was stored.
StoredAt(k) == page[k].expires - HistoryTtl

\* The time charts send: a tick before a candle opens.
ChartEnd(k) == EndOf[k] # NoEnd /\ \E n \in 0..EndOf[k] : EndOf[k] = LastTick(n)

(* A page that clients may keep for ever (klines_cache.py, lines 7-8).     *)
(* From an exchange that gives the time a candle closes, whatever end_time *)
(* was asked for: a candle that was open when the exchange read it has     *)
(* closed by the time the page is stored.  From any exchange, if the chart *)
(* asked for what has ended: the candles were closed when they were read.  *)
ImmutableIsClosed ==
  \A k \in Keys : Cached(k) /\ page[k].immutable =>
    LET newest == LastTick(page[k].newest)
    IN  /\ ExchangeOf[k] \notin OpenStamped =>
             newest < page[k].read \/ newest \in page[k].read..(StoredAt(k) - 1)
        /\ ChartEnd(k) /\ EndOf[k] < page[k].read => newest < page[k].read

(* What the endpoint promises: closed candles do not change, so such a     *)
(* page is final.  The time is taken after the answer (line 157), and      *)
(* an exchange may give the opening for the closing time: it is not kept.  *)
ImmutableIsFinal ==
  \A k \in Keys : Cached(k) /\ page[k].immutable => LastTick(page[k].newest) < page[k].read

(* Every request gets a page or an error.                                  *)
EveryoneAnswered == \A r \in Clients : request[r].pc # "idle" ~> request[r].pc = "idle"
=============================================================================
