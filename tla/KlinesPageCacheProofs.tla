------------------------ MODULE KlinesPageCacheProofs ------------------------
(***************************************************************************)
(* Proofs about KlinesPageCache: the limits on fetches, that pages kept    *)
(* for ever have closed before they are stored, and that the count of the  *)
(* candles is right and within its bound, for any pages, exchanges,        *)
(* lengths of candles and numbers of requests.  IInv is what requests and  *)
(* fetches rely on; CacheInv, of the list of pages and their sum, is shown *)
(* upon it.                                                                *)
(***************************************************************************)
EXTENDS KlinesPageCache, NumberLemmas, SequenceTheorems

Leading(r) == request[r].pc \in {"queue", "fetch", "fetched"}

Types ==
  /\ clock \in Nat /\ cancels \in Nat /\ IsFiniteSet(loose)
  /\ page \in [Keys -> Page]
  /\ owner \in [Keys -> Clients \cup {NoOne}]
  /\ request \in [Clients -> Request]
  /\ queue \in [Exchanges -> Seq(Clients)]

\* A request that leads is the registered one.
Leads ==
  \A r \in Clients : Leading(r) =>
    request[r].key \in Keys /\ owner[request[r].key] = r

\* Nobody waits for the semaphore twice, or for that of another exchange.
Waits ==
  \A e \in Exchanges :
    /\ \A i \in DOMAIN queue[e] : /\ request[queue[e][i]].pc = "queue"
                                  /\ ExchangeOf[request[queue[e][i]].key] = e
    /\ \A i, j \in DOMAIN queue[e] : queue[e][i] = queue[e][j] => i = j

Places ==
  /\ \A e \in Exchanges : Cardinality(Fetching(e)) <= Concurrency
  /\ Cardinality(loose) <= cancels

\* A page of the past ends with the candle in which its request ends.
Past(k, p) == EndOf[k] # NoEnd /\ EndOf[k] < p.read => p.newest = EndOf[k] \div Length

Reads == \A r \in Clients : request[r].pc = "fetched" => Past(request[r].key, request[r].page)

\* What the exchange says of its newest candle.
Kept ==
  \A k \in Keys : page[k].immutable =>
    /\ EndOf[k] # NoEnd /\ Past(k, page[k])
    /\ CloseTime(ExchangeOf[k], page[k].newest) < StoredAt(k)

IInv == Types /\ Leads /\ Waits /\ Places /\ Reads /\ Kept

-----------------------------------------------------------------------------
(* A queue, or the list of pages, without an element: the others in their  *)
(* order.                                                                  *)
LEMMA WithoutFacts ==
  ASSUME NEW T, NEW s \in Seq(T), NEW x,
         \A i, j \in DOMAIN s : s[i] = s[j] => i = j
  PROVE  /\ Without(s, x) \in Seq(T)
         /\ \A i \in DOMAIN Without(s, x) : \E j \in DOMAIN s : Without(s, x)[i] = s[j] /\ s[j] # x
         /\ \A i, j \in DOMAIN Without(s, x) : Without(s, x)[i] = Without(s, x)[j] => i = j
         /\ \A j \in DOMAIN s : s[j] # x => \E i \in DOMAIN Without(s, x) : Without(s, x)[i] = s[j]
<1>1. CASE ~ \E i \in DOMAIN s : s[i] = x
  BY <1>1 DEF Without
<1>2. CASE \E i \in DOMAIN s : s[i] = x
  <2> DEFINE n == CHOOSE i \in DOMAIN s : s[i] = x
             a == SubSeq(s, 1, n - 1)
             b == SubSeq(s, n + 1, Len(s))
  <2>1. n \in 1..Len(s) /\ s[n] = x /\ Len(s) \in Nat
    BY <1>2
  <2>2. Without(s, x) = a \o b
    BY <1>2 DEF Without, RemoveAt
  <2> HIDE DEF n
  <2>3. /\ a \in Seq(T) /\ Len(a) = n - 1 /\ \A i \in 1..(n - 1) : a[i] = s[i]
    BY <2>1
  <2>4. /\ b \in Seq(T) /\ Len(b) = Len(s) - n /\ \A i \in 1..(Len(s) - n) : b[i] = s[n + i]
    BY <2>1
  <2> HIDE DEF a, b
  <2>5. /\ a \o b \in Seq(T) /\ DOMAIN (a \o b) = 1..(Len(s) - 1)
        /\ \A i \in 1..(Len(s) - 1) : (a \o b)[i] = IF i < n THEN s[i] ELSE s[i + 1]
    <3>1. /\ a \o b \in Seq(T) /\ Len(a \o b) = Len(a) + Len(b)
          /\ \A i \in 1..(Len(a) + Len(b)) : (a \o b)[i] = IF i <= Len(a) THEN a[i] ELSE b[i - Len(a)]
      BY <2>3, <2>4, ConcatProperties
    <3>2. Len(a) + Len(b) = Len(s) - 1
      BY <2>1, <2>3, <2>4
    <3>3. DOMAIN (a \o b) = 1..(Len(s) - 1)
      BY <3>1, <3>2
    <3>4. ASSUME NEW i \in 1..(Len(s) - 1)
          PROVE  (a \o b)[i] = IF i < n THEN s[i] ELSE s[i + 1]
      <4>1. CASE i < n
        <5>1. i \in 1..(n - 1) /\ i <= Len(a)
          BY <4>1, <2>1, <2>3
        <5>2. (a \o b)[i] = a[i]
          BY <5>1, <3>1, <3>2
        <5> QED BY <4>1, <5>1, <5>2, <2>3
      <4>2. CASE ~(i < n)
        <5>1. i - Len(a) \in 1..(Len(s) - n) /\ n + (i - Len(a)) = i + 1 /\ ~(i <= Len(a))
          BY <4>2, <2>1, <2>3
        <5>2. (a \o b)[i] = b[i - Len(a)]
          BY <5>1, <3>1, <3>2
        <5>3. b[i - Len(a)] = s[n + (i - Len(a))]
          BY <5>1, <2>4
        <5> QED BY <4>2, <5>1, <5>2, <5>3
      <4> QED BY <4>1, <4>2
    <3> QED BY <3>1, <3>3, <3>4
  <2> DEFINE old(i) == IF i < n THEN i ELSE i + 1
  <2>6. \A i \in 1..(Len(s) - 1) : old(i) \in 1..Len(s) /\ old(i) # n /\ (a \o b)[i] = s[old(i)]
    BY <2>1, <2>5
  <2>7. \A i, j \in 1..(Len(s) - 1) : old(i) = old(j) => i = j
    BY <2>1
  <2>8. DOMAIN s = 1..Len(s)
    OBVIOUS
  <2>9. ASSUME NEW j \in 1..Len(s), s[j] # x
         PROVE  \E i \in 1..(Len(s) - 1) : (a \o b)[i] = s[j]
    <3>1. CASE j < n
      <4>1. j \in 1..(Len(s) - 1) /\ (a \o b)[j] = s[j]
        BY <2>1, <2>5, <3>1
      <4> QED BY <4>1
    <3>2. CASE ~(j < n)
      <4>1. j # n
        BY <2>1, <2>9
      <4>2. j - 1 \in 1..(Len(s) - 1) /\ ~(j - 1 < n) /\ (j - 1) + 1 = j
        BY <2>1, <3>2, <4>1
      <4>3. (a \o b)[j - 1] = s[(j - 1) + 1]
        BY <2>5, <4>2
      <4> QED BY <4>2, <4>3
    <3> QED BY <3>1, <3>2
  <2> HIDE DEF old
  <2>10. \A i \in DOMAIN (a \o b) : \E j \in DOMAIN s : (a \o b)[i] = s[j] /\ s[j] # x
    BY <2>1, <2>5, <2>6, <2>8
  <2>11. ASSUME NEW i \in DOMAIN (a \o b), NEW j \in DOMAIN (a \o b), (a \o b)[i] = (a \o b)[j]
         PROVE  i = j
    <3>1. i \in 1..(Len(s) - 1) /\ j \in 1..(Len(s) - 1)
      BY <2>5
    <3>2. old(i) \in DOMAIN s /\ old(j) \in DOMAIN s /\ s[old(i)] = s[old(j)]
      BY <2>6, <2>8, <2>11, <3>1
    <3>3. old(i) = old(j)
      BY <3>2
    <3> QED BY <2>7, <3>1, <3>3
  <2>12. \A j \in DOMAIN s : s[j] # x => \E i \in DOMAIN (a \o b) : (a \o b)[i] = s[j]
    BY <2>5, <2>8, <2>9
  <2>13. a \o b \in Seq(T)
    BY <2>5
  <2> HIDE DEF old
  <2> QED BY <2>2, <2>10, <2>11, <2>12, <2>13, Zenon
<1> QED BY <1>1, <1>2

(* The candle of the last tick of candle n is candle n.                    *)
LEMMA EndOfCandle ==
  ASSUME NEW n \in Nat, NEW length \in Nat \ {0}
  PROVE  (n * length + length - 1) \div length = n
<1> DEFINE m == n * length + length - 1
           q == m \div length
<1>1. m = length * n + (length - 1) /\ length - 1 \in 0 .. length - 1 /\ m \in Nat
  OBVIOUS
<1>2. length * q <= m /\ m < length * q + length /\ q \in Nat
  BY <1>1, SMTT(30)
<1> HIDE DEF q, m
<1>3. ~(q < n)
  <2>1. q < n => \E d \in Nat : n = q + 1 + d
    <3>1. q < n => n - q - 1 \in Nat /\ n = q + 1 + (n - q - 1)
      BY <1>2
    <3> QED BY <3>1
  <2>2. ASSUME NEW d \in Nat, n = q + 1 + d PROVE FALSE
    <3>1. length * n = length * q + length + length * d /\ length * d \in Nat
      BY <1>2, <2>2
    <3> QED BY <1>1, <1>2, <3>1
  <2> QED BY <2>1, <2>2
<1>4. ~(n < q)
  <2>1. n < q => \E d \in Nat : q = n + 1 + d
    <3>1. n < q => q - n - 1 \in Nat /\ q = n + 1 + (q - n - 1)
      BY <1>2
    <3> QED BY <3>1
  <2>2. ASSUME NEW d \in Nat, q = n + 1 + d PROVE FALSE
    <3>1. length * q = length * n + length + length * d /\ length * d \in Nat
      BY <1>2, <2>2
    <3> QED BY <1>1, <1>2, <3>1
  <2> QED BY <2>1, <2>2
<1>5. q = n
  BY <1>2, <1>3, <1>4
<1> QED BY <1>5 DEF q, m

-----------------------------------------------------------------------------
(* What the assumption on the constants says of each of them.              *)
LEMMA Constant ==
  /\ IsFiniteSet(Clients) /\ NoOne \notin Clients /\ NoEnd \notin Nat
  /\ ExchangeOf \in [Keys -> Exchanges] /\ EndOf \in [Keys -> Nat \cup {NoEnd}]
  /\ LimitOf \in [Keys -> Nat \ {0}]
  /\ Length \in Nat \ {0} /\ Concurrency \in Nat \ {0}
  /\ HistoryTtl \in Nat /\ HeadTtl \in Nat
BY ConstantsAssumption

(* The places of a semaphore that are taken are finitely many.             *)
LEMMA FetchingFinite == ASSUME NEW e PROVE IsFiniteSet(Fetching(e)) /\ Cardinality(Fetching(e)) \in Nat
<1>1. Fetching(e) \in SUBSET Clients
  BY DEF Fetching
<1> QED BY <1>1, Constant, FS_Subset, FS_CardinalityType

(* A step in which nobody takes a place keeps within the limit.            *)
LEMMA FewerFetch ==
  ASSUME NEW e, Cardinality(Fetching(e)) <= Concurrency, Fetching(e)' \subseteq Fetching(e)
  PROVE  Cardinality(Fetching(e)') <= Concurrency
<1>1. Cardinality(Fetching(e)') <= Cardinality(Fetching(e))
  BY FetchingFinite, FS_Subset
<1>2. Cardinality(Fetching(e)') \in Nat /\ Cardinality(Fetching(e)) \in Nat
  <2>1. Fetching(e)' \in SUBSET Fetching(e)
    OBVIOUS
  <2> QED BY <2>1, FetchingFinite, FS_Subset, FS_CardinalityType
<1> QED BY <1>1, <1>2, Constant

(* A set to which one element is added.                                    *)
LEMMA OneMore ==
  ASSUME NEW S, NEW x, IsFiniteSet(S)
  PROVE  /\ IsFiniteSet(S \cup {x}) /\ Cardinality(S) \in Nat /\ Cardinality(S \cup {x}) \in Nat
         /\ Cardinality(S \cup {x}) <= Cardinality(S) + 1
<1>1. /\ IsFiniteSet(S \cup {x})
      /\ Cardinality(S \cup {x}) = IF x \in S THEN Cardinality(S) ELSE Cardinality(S) + 1
  BY FS_AddElement
<1>2. Cardinality(S) \in Nat
  BY FS_CardinalityType
<1> QED BY <1>1, <1>2

(* So does one in which a single request takes a place that was free.      *)
LEMMA OneMoreFetches ==
  ASSUME NEW e, NEW r, Cardinality(Fetching(e)) < Concurrency,
         Fetching(e)' \subseteq Fetching(e) \cup {r}
  PROVE  Cardinality(Fetching(e)') <= Concurrency
<1> DEFINE more == Fetching(e) \cup {r}
<1>1. IsFiniteSet(more) /\ Cardinality(more) \in Nat /\ Cardinality(more) <= Cardinality(Fetching(e)) + 1
  BY FetchingFinite, OneMore
<1>2. Fetching(e)' \in SUBSET more
  OBVIOUS
<1>3. Cardinality(Fetching(e)') <= Cardinality(more) /\ Cardinality(Fetching(e)') \in Nat
  BY <1>1, <1>2, FS_Subset, FS_CardinalityType
<1> QED BY <1>1, <1>3, FetchingFinite, Constant

(* The places after one request changed.                                   *)
LEMMA FetchingOne ==
  ASSUME NEW e, NEW r \in Clients, \A s \in Clients \ {r} : request'[s] = request[s]
  PROVE  /\ Fetching(e)' \subseteq Fetching(e) \cup {r}
         /\ r \notin Fetching(e)' => Fetching(e)' \subseteq Fetching(e)
BY DEF Fetching

-----------------------------------------------------------------------------
(* The future of a request is resolved: it and those who wait for it are   *)
(* idle, every other request is as before and still registered.            *)
LEMMA Release ==
  ASSUME IInv, NEW r \in Clients, Leading(r),
         request' = Resolved(r), owner' = Unregistered(r), clock' = clock
  PROVE  /\ request' \in [Clients -> Request] /\ owner' \in [Keys -> Clients \cup {NoOne}]
         /\ Leads' /\ Reads'
         /\ \A e \in Exchanges : Cardinality(Fetching(e)') <= Concurrency
         /\ \A s \in Clients : s # r /\ request[s].pc # "wait" => request'[s] = request[s]
<1>1. Idle \in Request /\ Idle.pc = "idle"
  BY DEF Idle, Request, States, NoPage, Page
<1>2. /\ request \in [Clients -> Request] /\ owner \in [Keys -> Clients \cup {NoOne}]
      /\ request[r].key \in Keys /\ owner[request[r].key] = r
  BY DEF IInv, Types, Leads
<1>3. \A s \in Clients : request'[s] = IF s = r \/ (request[s].pc = "wait" /\ request[s].key = request[r].key)
                                       THEN Idle ELSE request[s]
  BY DEF Resolved
<1>4. request' \in [Clients -> Request] /\ owner' \in [Keys -> Clients \cup {NoOne}]
  BY <1>1, <1>2 DEF Resolved, Unregistered
<1>5. ASSUME NEW s \in Clients, request'[s].pc # "idle"
      PROVE  s # r /\ request'[s] = request[s]
  BY <1>1, <1>3, <1>5
<1>6. Leads'
  <2> SUFFICES ASSUME NEW s \in Clients, Leading(s)'
               PROVE  request'[s].key \in Keys /\ owner'[request'[s].key] = s
    BY DEF Leads
  <2>1. s # r /\ request'[s] = request[s] /\ Leading(s)
    BY <1>5 DEF Leading
  <2>2. request[s].key \in Keys /\ owner[request[s].key] = s
    BY <2>1 DEF IInv, Leads
  <2>3. owner'[request[s].key] = s
    BY <1>2, <2>1, <2>2 DEF Unregistered
  <2> QED BY <2>1, <2>2, <2>3
<1>7. Reads'
  <2> SUFFICES ASSUME NEW s \in Clients, request'[s].pc = "fetched"
               PROVE  Past(request'[s].key, request'[s].page)
    BY DEF Reads, Past
  <2>1. request'[s] = request[s] /\ request[s].pc = "fetched"
    BY <1>5
  <2> QED BY <2>1 DEF IInv, Reads
<1>8. \A e \in Exchanges : Cardinality(Fetching(e)') <= Concurrency
  <2> TAKE e \in Exchanges
  <2>1. Fetching(e)' \subseteq Fetching(e)
    BY <1>5 DEF Fetching
  <2> QED BY <2>1, FewerFetch DEF IInv, Places
<1> QED BY <1>3, <1>4, <1>6, <1>7, <1>8

(* Requests that wait for a semaphore are not disturbed by the release of  *)
(* another one.                                                            *)
LEMMA WaitsKeep ==
  ASSUME IInv, NEW r \in Clients, request[r].pc # "queue", queue' = queue,
         \A s \in Clients : s # r /\ request[s].pc # "wait" => request'[s] = request[s]
  PROVE  Waits'
<1>1. ASSUME NEW e \in Exchanges, NEW i \in DOMAIN queue[e]
      PROVE  request'[queue[e][i]] = request[queue[e][i]]
  <2>1. queue[e] \in Seq(Clients)
    BY DEF IInv, Types
  <2>2. queue[e][i] \in Clients /\ request[queue[e][i]].pc = "queue"
    BY <2>1 DEF IInv, Waits
  <2> QED BY <2>2
<1> QED BY <1>1 DEF IInv, Waits

-----------------------------------------------------------------------------
(* At the start nothing is asked for.                                      *)
LEMMA Initially == Init => IInv
<1> SUFFICES ASSUME Init PROVE IInv
  OBVIOUS
<1>1. \A r \in Clients : request[r].pc = "idle" /\ ~Leading(r)
  BY DEF Init, Idle, Leading
<1>2. Types
  <2>1. NoPage \in Page /\ Idle \in Request
    BY DEF NoPage, Page, Idle, Request, States
  <2> QED BY <2>1, FS_EmptySet DEF Init, Types
<1>3. Places
  <2>1. ASSUME NEW e \in Exchanges PROVE Cardinality(Fetching(e)) <= Concurrency
    <3>1. Fetching(e) = {}
      BY <1>1 DEF Fetching
    <3> QED BY <3>1, FS_EmptySet, Constant
  <2> QED BY <2>1, FS_EmptySet DEF Init, Places
<1>4. Kept
  BY DEF Init, Kept, NoPage
<1> QED BY <1>1, <1>2, <1>3, <1>4 DEF IInv, Leads, Waits, Reads, Init

(* Steps that leave the requests and the pages to themselves.              *)
LEMMA Quiet ==
  ASSUME IInv, UNCHANGED <<page, owner, request, queue>>, clock' \in Nat, clock <= clock',
         IsFiniteSet(loose'), cancels' = cancels, Cardinality(loose') <= Cardinality(loose),
         Cardinality(loose') \in Nat
  PROVE  IInv'
<1>1. Types'
  BY DEF IInv, Types
<1>2. Leads'
  BY DEF IInv, Leads, Leading
<1>3. Waits' /\ Reads' /\ Kept'
  BY DEF IInv, Waits, Reads, Kept, Past, StoredAt
<1>4. Places'
  <2>1. ASSUME NEW e \in Exchanges PROVE Cardinality(Fetching(e)') <= Concurrency
    <3>1. Fetching(e)' = Fetching(e)
      BY DEF Fetching
    <3> QED BY <3>1 DEF IInv, Places
  <2>2. Cardinality(loose) \in Nat /\ Cardinality(loose) <= cancels /\ cancels \in Nat
    BY FS_CardinalityType DEF IInv, Types, Places
  <2> QED BY <2>1, <2>2 DEF Places
<1> QED BY <1>1, <1>2, <1>3, <1>4 DEF IInv

(* Time passes, a page is answered from the cache, a thread ends.          *)
LEMMA QuietSteps ==
  ASSUME IInv, Tick \/ (\E r \in Clients, k \in Keys : Hit(r, k)) \/ LooseEnds \/ UNCHANGED vars
  PROVE  IInv'
<1>1. clock \in Nat /\ IsFiniteSet(loose) /\ Cardinality(loose) \in Nat
  BY FS_CardinalityType DEF IInv, Types
<1>2. CASE Tick
  BY <1>1, <1>2, Quiet DEF Tick, cache
<1>3. CASE \E r \in Clients, k \in Keys : Hit(r, k)
  BY <1>1, <1>3, Quiet DEF Hit
<1>4. CASE LooseEnds
  <2>1. PICK thread \in loose : loose' = loose \ {thread}
    BY <1>4 DEF LooseEnds
  <2>2. IsFiniteSet(loose') /\ Cardinality(loose') = Cardinality(loose) - 1
    BY <1>1, <2>1, FS_RemoveElement
  <2>3. Cardinality(loose') \in Nat
    BY <2>2, FS_CardinalityType
  <2> QED BY <1>1, <1>4, <2>2, <2>3, Quiet DEF LooseEnds, cache
<1>5. CASE UNCHANGED vars
  BY <1>1, <1>5, Quiet DEF vars
<1> QED BY <1>2, <1>3, <1>4, <1>5

-----------------------------------------------------------------------------
(* A request goes to another state: what the invariant asks of the step.   *)
LEMMA OneRequest ==
  ASSUME IInv, NEW r \in Clients, NEW new \in Request,
         request' = [request EXCEPT ![r] = new],
         owner' \in [Keys -> Clients \cup {NoOne}],
         \A s \in Clients \ {r} : Leading(s) => owner'[request[s].key] = owner[request[s].key],
         new.pc \in {"queue", "fetch", "fetched"} =>
           new.key \in Keys /\ owner'[new.key] = r,
         new.pc = "fetched" => Past(new.key, new.page),
         page' \in [Keys -> Page], \A k \in Keys : page'[k].immutable => page'[k] = page[k],
         UNCHANGED <<clock, loose, cancels>>,
         queue' \in [Exchanges -> Seq(Clients)], Waits',
         \A e \in Exchanges : r \notin Fetching(e)' \/ r \in Fetching(e) \/ Cardinality(Fetching(e)) < Concurrency
  PROVE  IInv'
<1>1. request \in [Clients -> Request]
  BY DEF IInv, Types
<1>2. request'[r] = new /\ \A s \in Clients \ {r} : request'[s] = request[s]
  BY <1>1
<1>3. Types'
  BY <1>1 DEF IInv, Types
<1>4. Leads'
  BY <1>2 DEF IInv, Leads, Leading
<1>5. Reads'
  BY <1>2 DEF IInv, Reads, Past
<1>6. Kept'
  BY DEF IInv, Kept, Past, StoredAt
<1>7. Places'
  <2>1. ASSUME NEW e \in Exchanges PROVE Cardinality(Fetching(e)') <= Concurrency
    <3>1. CASE r \notin Fetching(e)' \/ r \in Fetching(e)
      <4>1. Fetching(e)' \subseteq Fetching(e)
        BY <1>2, <3>1, FetchingOne
      <4> QED BY <4>1, FewerFetch DEF IInv, Places
    <3>2. CASE Cardinality(Fetching(e)) < Concurrency
      BY <1>2, <3>2, FetchingOne, OneMoreFetches
    <3> QED BY <3>1, <3>2
  <2> QED BY <2>1 DEF IInv, Places
<1> QED BY <1>3, <1>4, <1>5, <1>6, <1>7 DEF IInv

(* An expired page is gone, the others stay.                               *)
LEMMA Dropped ==
  ASSUME IInv, NEW k \in Keys, DropExpired(k)
  PROVE  page' \in [Keys -> Page] /\ \A j \in Keys : page'[j].immutable => page'[j] = page[j]
<1>1. page \in [Keys -> Page] /\ NoPage \in Page /\ NoPage.immutable = FALSE
  BY DEF IInv, Types, NoPage, Page
<1> QED BY <1>1 DEF DropExpired, cache

(* What a request that goes on asks for.                                   *)
LEMMA Becomes ==
  ASSUME NEW k \in Keys, NEW state \in States
  PROVE  /\ [Idle EXCEPT !.pc = state, !.key = k] \in Request
         /\ [Idle EXCEPT !.pc = state, !.key = k].pc = state
         /\ [Idle EXCEPT !.pc = state, !.key = k].key = k
BY DEF Idle, Request, NoPage, Page

(* A request for a page that is being fetched waits for that fetch; it     *)
(* takes no place.                                                         *)
LEMMA JoinStep ==
  ASSUME IInv, NEW r \in Clients, NEW k \in Keys, Join(r, k)
  PROVE  IInv'
<1> DEFINE new == [Idle EXCEPT !.pc = "wait", !.key = k]
<1>1. new \in Request /\ new.pc = "wait"
  BY Becomes DEF States
<1> HIDE DEF new
<1>2. /\ request' = [request EXCEPT ![r] = new] /\ request[r].pc = "idle" /\ DropExpired(k)
      /\ UNCHANGED <<clock, owner, queue, loose, cancels>>
  BY DEF Join, Asked, Become, new
<1>3. request'[r] = new /\ \A s \in Clients \ {r} : request'[s] = request[s]
  BY <1>2 DEF IInv, Types
<1>4. Waits'
  BY <1>2, <1>3, WaitsKeep
<1>5. \A e \in Exchanges : r \notin Fetching(e)'
  BY <1>1, <1>3 DEF Fetching
<1>6. page' \in [Keys -> Page] /\ \A j \in Keys : page'[j].immutable => page'[j] = page[j]
  BY <1>2, Dropped
<1>7. owner' \in [Keys -> Clients \cup {NoOne}] /\ queue' \in [Exchanges -> Seq(Clients)]
  BY <1>2 DEF IInv, Types
<1> QED BY <1>1, <1>2, <1>4, <1>5, <1>6, <1>7, OneRequest

(* A request that has to wait for the semaphore goes to the end of its     *)
(* queue.                                                                  *)
LEMMA Queued ==
  ASSUME IInv, NEW r \in Clients, NEW e \in Exchanges, request[r].pc # "queue",
         queue' = [queue EXCEPT ![e] = Append(@, r)],
         request'[r].pc = "queue", ExchangeOf[request'[r].key] = e,
         \A s \in Clients \ {r} : request'[s] = request[s]
  PROVE  Waits' /\ queue' \in [Exchanges -> Seq(Clients)]
<1>1. queue \in [Exchanges -> Seq(Clients)]
  BY DEF IInv, Types
<1>2. queue' \in [Exchanges -> Seq(Clients)]
  BY <1>1
<1>3. ASSUME NEW f \in Exchanges, NEW i \in DOMAIN queue[f]
      PROVE  /\ queue[f][i] # r /\ request'[queue[f][i]].pc = "queue"
             /\ ExchangeOf[request'[queue[f][i]].key] = f
  <2>1. queue[f][i] \in Clients /\ request[queue[f][i]].pc = "queue"
        /\ ExchangeOf[request[queue[f][i]].key] = f
    BY <1>1 DEF IInv, Waits
  <2> QED BY <2>1
<1>4. ASSUME NEW f \in Exchanges
      PROVE  /\ \A i \in DOMAIN queue'[f] : /\ request'[queue'[f][i]].pc = "queue"
                                            /\ ExchangeOf[request'[queue'[f][i]].key] = f
             /\ \A i, j \in DOMAIN queue'[f] : queue'[f][i] = queue'[f][j] => i = j
  <2>1. \A i, j \in DOMAIN queue[f] : queue[f][i] = queue[f][j] => i = j
    BY DEF IInv, Waits
  <2>2. CASE f # e
    <3>1. queue'[f] = queue[f]
      BY <1>1, <2>2
    <3> QED BY <1>3, <2>1, <3>1
  <2>3. CASE f = e
    <3>1. queue'[f] = Append(queue[f], r) /\ queue[f] \in Seq(Clients)
      BY <1>1, <2>3
    <3>2. /\ DOMAIN queue[f] = 1..Len(queue[f]) /\ Len(queue[f]) \in Nat
          /\ DOMAIN queue'[f] = 1..(Len(queue[f]) + 1)
          /\ queue'[f][Len(queue[f]) + 1] = r
          /\ \A i \in 1..Len(queue[f]) : queue'[f][i] = queue[f][i]
      BY <3>1
    <3>3. \A i \in DOMAIN queue'[f] : i \in DOMAIN queue[f] \/ i = Len(queue[f]) + 1
      BY <3>2
    <3> QED BY <1>3, <2>1, <2>3, <3>2, <3>3
  <2> QED BY <2>2, <2>3
<1> QED BY <1>2, <1>4 DEF Waits

(* The request that is registered for a page fetches it, if a place is     *)
(* free, or waits for one.                                                 *)
LEMMA LeadStep ==
  ASSUME IInv, NEW r \in Clients, NEW k \in Keys, Lead(r, k)
  PROVE  IInv'
<1> DEFINE state == IF Starts(ExchangeOf[k]) THEN "fetch" ELSE "queue"
           new == [Idle EXCEPT !.pc = state, !.key = k]
<1>1. state \in States /\ state \in {"fetch", "queue"}
  BY DEF States
<1>2. new \in Request /\ new.pc = state /\ new.key = k
  BY <1>1, Becomes
<1>3. request' = [request EXCEPT ![r] = new]
  BY DEF Lead, Become
<1>4. Starts(ExchangeOf[k]) => state = "fetch" /\ queue' = queue
  BY DEF Lead
<1>5. ~Starts(ExchangeOf[k]) => state = "queue" /\ queue' = [queue EXCEPT ![ExchangeOf[k]] = Append(@, r)]
  BY DEF Lead
<1> HIDE DEF state, new
<1>6. /\ request[r].pc = "idle" /\ DropExpired(k) /\ UNCHANGED <<clock, loose, cancels>>
      /\ owner' = [owner EXCEPT ![k] = r] /\ owner[k] = NoOne
  BY DEF Lead, Asked
<1>7. request'[r] = new /\ \A s \in Clients \ {r} : request'[s] = request[s]
  BY <1>3 DEF IInv, Types
<1>8. ExchangeOf[k] \in Exchanges
  BY Constant
<1>9. Waits' /\ queue' \in [Exchanges -> Seq(Clients)]
  <2>1. CASE Starts(ExchangeOf[k])
    BY <1>4, <1>6, <1>7, <2>1, WaitsKeep DEF IInv, Types
  <2>2. CASE ~Starts(ExchangeOf[k])
    BY <1>2, <1>5, <1>6, <1>7, <1>8, <2>2, Queued
  <2> QED BY <2>1, <2>2
<1>10. ASSUME NEW e \in Exchanges
       PROVE  r \notin Fetching(e)' \/ Cardinality(Fetching(e)) < Concurrency
  <2>1. CASE Starts(ExchangeOf[k])
    <3>1. CASE e = ExchangeOf[k]
      BY <2>1, <3>1 DEF Starts
    <3>2. CASE e # ExchangeOf[k]
      BY <1>2, <1>7, <3>2 DEF Fetching
    <3> QED BY <3>1, <3>2
  <2>2. CASE ~Starts(ExchangeOf[k])
    BY <1>2, <1>5, <1>7, <2>2 DEF Fetching
  <2> QED BY <2>1, <2>2
<1>11. page' \in [Keys -> Page] /\ \A j \in Keys : page'[j].immutable => page'[j] = page[j]
  BY <1>6, Dropped
<1>12. owner \in [Keys -> Clients \cup {NoOne}] /\ owner' \in [Keys -> Clients \cup {NoOne}] /\ owner'[k] = r
  BY <1>6 DEF IInv, Types
<1>13. ASSUME NEW s \in Clients \ {r}, Leading(s)
       PROVE  owner'[request[s].key] = owner[request[s].key]
  <2>1. owner[request[s].key] = s /\ request[s].key \in Keys /\ s # NoOne
    BY <1>13, Constant DEF IInv, Leads
  <2> QED BY <1>6, <1>12, <2>1
<1>14. new.pc # "fetched"
  BY <1>1, <1>2
<1>15. UNCHANGED <<clock, loose, cancels>> /\ \A e \in Exchanges : r \notin Fetching(e)' \/ r \in Fetching(e) \/ Cardinality(Fetching(e)) < Concurrency
  BY <1>6, <1>10
<1> QED BY <1>2, <1>3, <1>6, <1>9, <1>11, <1>12, <1>13, <1>14, <1>15, OneRequest

(* The first of a queue leaves it; nobody else does.                       *)
LEMMA AdmitStep ==
  ASSUME IInv, NEW e \in Exchanges, Admit(e)
  PROVE  IInv'
<1> DEFINE r == Head(queue[e])
           new == [request[r] EXCEPT !.pc = "fetch"]
<1>1. /\ queue \in [Exchanges -> Seq(Clients)] /\ request \in [Clients -> Request] /\ queue[e] # <<>>
      /\ queue' = [queue EXCEPT ![e] = Tail(@)]
      /\ UNCHANGED <<clock, cache, owner, loose, cancels>>
      /\ Cardinality(Fetching(e)) < Concurrency
  BY DEF IInv, Types, Admit
<1>2. /\ r \in Clients /\ r = queue[e][1] /\ 1 \in DOMAIN queue[e]
      /\ Tail(queue[e]) \in Seq(Clients) /\ Len(Tail(queue[e])) = Len(queue[e]) - 1
      /\ \A i \in 1..Len(Tail(queue[e])) : Tail(queue[e])[i] = queue[e][i + 1] /\ i + 1 \in DOMAIN queue[e]
  <2>1. queue[e] \in Seq(Clients) /\ queue[e] # <<>>
    BY <1>1
  <2> QED BY <2>1, HeadTailProperties
<1>3. request[r].pc = "queue" /\ ExchangeOf[request[r].key] = e
  BY <1>2 DEF IInv, Waits
<1>4. request[r].key \in Keys /\ owner[request[r].key] = r
  BY <1>2, <1>3 DEF IInv, Leads, Leading
<1>5. new \in Request /\ new.pc = "fetch" /\ new.key = request[r].key
  BY <1>1, <1>2 DEF Request, States
<1>6. request' = [request EXCEPT ![r] = new]
  BY DEF Admit
<1> HIDE DEF r, new
<1>7. request'[r] = new /\ \A s \in Clients \ {r} : request'[s] = request[s]
  BY <1>1, <1>2, <1>6
<1>8. queue' \in [Exchanges -> Seq(Clients)]
  BY <1>1, <1>2
<1>9. ASSUME NEW f \in Exchanges, NEW i \in DOMAIN queue[f], queue[f][i] # r
      PROVE  /\ request'[queue[f][i]].pc = "queue"
             /\ ExchangeOf[request'[queue[f][i]].key] = f
  <2>1. queue[f][i] \in Clients
    BY <1>1
  <2>2. request[queue[f][i]].pc = "queue" /\ ExchangeOf[request[queue[f][i]].key] = f
    BY DEF IInv, Waits
  <2> QED BY <1>7, <1>9, <2>1, <2>2
<1>10. ASSUME NEW f \in Exchanges
       PROVE  /\ \A i \in DOMAIN queue'[f] : /\ request'[queue'[f][i]].pc = "queue"
                                             /\ ExchangeOf[request'[queue'[f][i]].key] = f
              /\ \A i, j \in DOMAIN queue'[f] : queue'[f][i] = queue'[f][j] => i = j
  <2>1. \A i, j \in DOMAIN queue[f] : queue[f][i] = queue[f][j] => i = j
    BY DEF IInv, Waits
  <2>2. CASE f # e
    <3>1. queue'[f] = queue[f]
      BY <1>1, <2>2
    <3>2. \A i \in DOMAIN queue[f] : queue[f][i] # r
      BY <1>3, <2>2 DEF IInv, Waits
    <3> QED BY <1>9, <2>1, <3>1, <3>2
  <2>3. CASE f = e
    <3>1. queue'[f] = Tail(queue[f])
      BY <1>1, <2>3
    <3>2. /\ DOMAIN queue'[f] = 1..Len(queue'[f])
          /\ \A i \in DOMAIN queue'[f] : /\ queue'[f][i] = queue[f][i + 1]
                                         /\ i + 1 \in DOMAIN queue[f] /\ i + 1 # 1
      BY <1>2, <2>3, <3>1
    <3>3. \A i \in DOMAIN queue'[f] : queue'[f][i] # r
      BY <1>2, <2>1, <2>3, <3>2
    <3>4. \A i, j \in DOMAIN queue'[f] : i + 1 = j + 1 => i = j
      BY <3>2
    <3> QED BY <1>9, <2>1, <2>3, <3>2, <3>3, <3>4
  <2> QED BY <2>2, <2>3
<1>11. Waits'
  BY <1>10 DEF Waits
<1>12. ASSUME NEW f \in Exchanges
       PROVE  r \notin Fetching(f)' \/ Cardinality(Fetching(f)) < Concurrency
  <2>1. CASE f = e
    BY <1>1, <2>1
  <2>2. CASE f # e
    BY <1>3, <1>5, <1>7, <2>2 DEF Fetching
  <2> QED BY <2>1, <2>2
<1>13. /\ page' \in [Keys -> Page] /\ page' = page /\ owner' = owner
       /\ owner' \in [Keys -> Clients \cup {NoOne}] /\ UNCHANGED <<clock, loose, cancels>>
  BY <1>1 DEF IInv, Types, cache
<1> QED BY <1>2, <1>4, <1>5, <1>6, <1>8, <1>11, <1>12, <1>13, OneRequest

(* What an exchange reads for a time that has ended is what it has up to   *)
(* that time.                                                              *)
LEMMA ReadsStep ==
  ASSUME IInv, NEW r \in Clients, ExchangeReads(r)
  PROVE  IInv'
<1> DEFINE k == request[r].key
           read == [NoPage EXCEPT !.newest = Newest(k), !.read = clock, !.size = Lesser(Newest(k) + 1, LimitOf[k])]
           new == [request[r] EXCEPT !.pc = "fetched", !.page = read]
<1>1. /\ request \in [Clients -> Request] /\ request[r].pc = "fetch" /\ clock \in Nat
      /\ UNCHANGED <<clock, cache, owner, queue, loose, cancels>>
  BY DEF IInv, Types, ExchangeReads
<1>2. k \in Keys /\ owner[k] = r
  BY <1>1 DEF IInv, Leads, Leading
<1>3. request' = [request EXCEPT ![r] = new]
  BY DEF ExchangeReads
<1>4. EndOf[k] # NoEnd /\ EndOf[k] < clock => Newest(k) = EndOf[k] \div Length
  BY <1>1, <1>2, Constant DEF Newest, Lesser
<1>5. Newest(k) \in Nat
  <2>1. \A n \in Nat : n \div Length \in Nat
    BY Constant
  <2>2. (IF EndOf[k] = NoEnd THEN clock ELSE Lesser(EndOf[k], clock)) \in Nat
    BY <1>1, <1>2, Constant DEF Lesser
  <2> QED BY <2>1, <2>2 DEF Newest
<1>6. LimitOf[k] \in Nat
  BY <1>2, Constant
<1> HIDE DEF k
<1>7. read \in Page /\ read.newest = Newest(k) /\ read.read = clock
  <2>1. Lesser(Newest(k) + 1, LimitOf[k]) \in Nat
    BY <1>5, <1>6 DEF Lesser
  <2> QED BY <1>1, <1>5, <2>1 DEF NoPage, Page
<1> HIDE DEF read
<1>8. new \in Request /\ new.pc = "fetched" /\ new.key = k /\ new.page = read
  BY <1>1, <1>7 DEF Request, States, k
<1> HIDE DEF new
<1>9. Past(new.key, new.page)
  BY <1>2, <1>4, <1>7, <1>8 DEF Past
<1>10. \A s \in Clients \ {r} : request'[s] = request[s]
  BY <1>1, <1>3
<1>11. Waits'
  BY <1>1, <1>10, WaitsKeep
<1>12. \A e \in Exchanges : r \notin Fetching(e)' \/ r \in Fetching(e)
  BY <1>1, <1>3, <1>8 DEF Fetching, k
<1>13. /\ page' \in [Keys -> Page] /\ page' = page /\ owner' = owner
       /\ owner' \in [Keys -> Clients \cup {NoOne}] /\ UNCHANGED <<clock, loose, cancels>>
       /\ queue' \in [Exchanges -> Seq(Clients)]
  BY <1>1 DEF IInv, Types, cache
<1> QED BY <1>2, <1>3, <1>8, <1>9, <1>11, <1>12, <1>13, OneRequest

(* A request that waits for another one goes away.                         *)
LEMMA CancelWaiterStep ==
  ASSUME IInv, NEW r \in Clients, CancelWaiter(r)
  PROVE  IInv'
<1>1. Idle \in Request /\ Idle.pc = "idle"
  BY DEF Idle, Request, States, NoPage, Page
<1>2. /\ request \in [Clients -> Request] /\ request[r].pc = "wait"
      /\ request' = [request EXCEPT ![r] = Idle]
      /\ UNCHANGED <<clock, cache, owner, queue, loose, cancels>>
  BY DEF IInv, Types, CancelWaiter
<1>3. request'[r] = Idle /\ \A s \in Clients \ {r} : request'[s] = request[s]
  BY <1>2
<1>4. Waits'
  BY <1>2, <1>3, WaitsKeep
<1>5. \A e \in Exchanges : r \notin Fetching(e)'
  BY <1>1, <1>3 DEF Fetching
<1>6. /\ page' \in [Keys -> Page] /\ page' = page /\ owner' = owner
      /\ owner' \in [Keys -> Clients \cup {NoOne}] /\ queue' \in [Exchanges -> Seq(Clients)]
  BY <1>2 DEF IInv, Types, cache
<1> QED BY <1>1, <1>2, <1>4, <1>5, <1>6, OneRequest

-----------------------------------------------------------------------------
(* _store keeps the pages it does not drop and adds the new one.           *)
LEMMA Stored ==
  ASSUME IInv, NEW k \in Keys, NEW new \in Page, Store(k, new)
  PROVE  /\ page' \in [Keys -> Page]
         /\ \A j \in Keys : page'[j].immutable => page'[j] = page[j] \/ (j = k /\ page'[j] = new)
<1>1. page \in [Keys -> Page] /\ NoPage \in Page /\ NoPage.immutable = FALSE
  BY DEF IInv, Types, NoPage, Page
<1>2. PICK gone : page' = [j \in Keys |-> IF j = k THEN new ELSE IF j \in gone THEN NoPage ELSE page[j]]
  BY DEF Store
<1> QED BY <1>1, <1>2

(* The page of the past that the thread brought is stored with its ends.   *)
LEMMA CompleteStep ==
  ASSUME IInv, NEW r \in Clients, Complete(r)
  PROVE  IInv'
<1> DEFINE k == request[r].key
           immutable == ClosedHistory(k, request[r].page.newest)
           ttl == IF immutable THEN HistoryTtl ELSE HeadTtl
           new == [request[r].page EXCEPT !.immutable = immutable, !.expires = clock + ttl]
<1>1. /\ request[r].pc = "fetched" /\ Leading(r) /\ Store(k, new)
      /\ request' = Resolved(r) /\ owner' = Unregistered(r)
      /\ UNCHANGED <<clock, queue, loose, cancels>>
  BY DEF Complete, Leading
<1>2. request[r] \in Request /\ request[r].page \in Page /\ clock \in Nat
  BY DEF IInv, Types, Request
<1>3. /\ immutable \in BOOLEAN
      /\ immutable => EndOf[k] # NoEnd /\ CloseTime(ExchangeOf[k], request[r].page.newest) < clock
  BY DEF ClosedHistory
<1>4. ttl \in Nat /\ HistoryTtl \in Nat /\ (immutable => ttl = HistoryTtl)
  BY Constant
<1>5. k \in Keys /\ Past(k, request[r].page)
  BY <1>1 DEF IInv, Leads, Reads
<1> HIDE DEF k, immutable, ttl
<1>6. /\ new \in Page /\ new.immutable = immutable /\ new.newest = request[r].page.newest
      /\ new.read = request[r].page.read /\ new.expires = clock + ttl
  <2> DEFINE p == request[r].page
             time == clock + ttl
  <2>1. time \in Nat
    BY <1>2, <1>4
  <2>2. new = [p EXCEPT !.immutable = immutable, !.expires = time] /\ p \in Page
    BY <1>2
  <2> HIDE DEF new, p, time
  <2>3. /\ new \in Page /\ new.immutable = immutable /\ new.newest = p.newest /\ new.read = p.read
        /\ new.expires = time
    BY <1>3, <2>1, <2>2 DEF Page
  <2> QED BY <2>3 DEF p, time
<1>7. Past(k, new)
  BY <1>5, <1>6 DEF Past
<1> HIDE DEF new
<1>8. page' \in [Keys -> Page] /\ \A j \in Keys : page'[j].immutable => page'[j] = page[j] \/ (j = k /\ page'[j] = new)
  BY <1>1, <1>5, <1>6, Stored
<1>9. Kept'
  <2>1. new.immutable => EndOf[k] # NoEnd /\ CloseTime(ExchangeOf[k], new.newest) < new.expires - HistoryTtl
    BY <1>2, <1>3, <1>4, <1>6
  <2> QED BY <1>7, <1>8, <2>1 DEF IInv, Kept, Past, StoredAt
<1>10. /\ request' \in [Clients -> Request] /\ owner' \in [Keys -> Clients \cup {NoOne}]
       /\ Leads' /\ Reads' /\ \A e \in Exchanges : Cardinality(Fetching(e)') <= Concurrency
       /\ \A s \in Clients : s # r /\ request[s].pc # "wait" => request'[s] = request[s]
  BY <1>1, Release
<1>11. Waits'
  BY <1>1, <1>10, WaitsKeep
<1>12. Types' /\ Places'
  BY <1>1, <1>8, <1>10 DEF IInv, Types, Places
<1> QED BY <1>9, <1>10, <1>11, <1>12 DEF IInv

(* The error goes to all that wait.                                        *)
LEMMA RaisesStep ==
  ASSUME IInv, NEW r \in Clients, Raises(r)
  PROVE  IInv'
<1>1. /\ request[r].pc = "fetch" /\ Leading(r)
      /\ request' = Resolved(r) /\ owner' = Unregistered(r)
      /\ UNCHANGED <<clock, cache, queue, loose, cancels>>
  BY DEF Raises, Leading
<1>2. /\ request' \in [Clients -> Request] /\ owner' \in [Keys -> Clients \cup {NoOne}]
      /\ Leads' /\ Reads' /\ \A e \in Exchanges : Cardinality(Fetching(e)') <= Concurrency
      /\ \A s \in Clients : s # r /\ request[s].pc # "wait" => request'[s] = request[s]
  BY <1>1, Release
<1>3. Waits'
  BY <1>1, <1>2, WaitsKeep
<1>4. Types' /\ Places' /\ Kept'
  BY <1>1, <1>2 DEF IInv, Types, Places, Kept, Past, StoredAt, cache
<1> QED BY <1>2, <1>3, <1>4 DEF IInv

(* A leader that is cancelled leaves the queue, if it was in one; its      *)
(* thread is one more of those nobody waits for.                           *)
LEMMA CancelLeaderStep ==
  ASSUME IInv, NEW r \in Clients, CancelLeader(r)
  PROVE  IInv'
<1> DEFINE k == request[r].key
           mine == ExchangeOf[k]
           thread == IF request[r].pc = "fetch" THEN {<<k, cancels'>>} ELSE {}
<1>1. /\ Leading(r) /\ request' = Resolved(r) /\ owner' = Unregistered(r)
      /\ queue' = [queue EXCEPT ![mine] = Without(@, r)]
      /\ loose' = loose \cup thread /\ cancels' = cancels + 1
      /\ UNCHANGED <<clock, cache>>
  BY DEF CancelLeader, Leading
<1>2. /\ request' \in [Clients -> Request] /\ owner' \in [Keys -> Clients \cup {NoOne}]
      /\ Leads' /\ Reads' /\ \A e \in Exchanges : Cardinality(Fetching(e)') <= Concurrency
      /\ \A s \in Clients : s # r /\ request[s].pc # "wait" => request'[s] = request[s]
  BY <1>1, Release
<1>3. queue \in [Exchanges -> Seq(Clients)] /\ IsFiniteSet(loose) /\ cancels \in Nat /\ Cardinality(loose) <= cancels
  BY DEF IInv, Types, Places
<1>4. mine \in Exchanges
  BY <1>1, Constant DEF IInv, Leads
<1> HIDE DEF mine
<1>5. /\ queue[mine] \in Seq(Clients)
      /\ \A i, j \in DOMAIN queue[mine] : queue[mine][i] = queue[mine][j] => i = j
  BY <1>3, <1>4 DEF IInv, Waits
<1>6. /\ Without(queue[mine], r) \in Seq(Clients)
      /\ \A i \in DOMAIN Without(queue[mine], r) :
           \E j \in DOMAIN queue[mine] : Without(queue[mine], r)[i] = queue[mine][j] /\ queue[mine][j] # r
      /\ \A i, j \in DOMAIN Without(queue[mine], r) :
           Without(queue[mine], r)[i] = Without(queue[mine], r)[j] => i = j
  BY <1>5, WithoutFacts
<1>7. queue' \in [Exchanges -> Seq(Clients)]
  BY <1>1, <1>3, <1>6
<1>8. ASSUME NEW f \in Exchanges, NEW i \in DOMAIN queue[f], queue[f][i] # r
      PROVE  /\ request'[queue[f][i]].pc = "queue"
             /\ ExchangeOf[request'[queue[f][i]].key] = f
  <2>1. queue[f][i] \in Clients
    BY <1>3
  <2>2. request[queue[f][i]].pc = "queue" /\ ExchangeOf[request[queue[f][i]].key] = f
    BY DEF IInv, Waits
  <2> QED BY <1>2, <1>8, <2>1, <2>2
<1>9. ASSUME NEW f \in Exchanges
      PROVE  /\ \A i \in DOMAIN queue'[f] : /\ request'[queue'[f][i]].pc = "queue"
                                            /\ ExchangeOf[request'[queue'[f][i]].key] = f
             /\ \A i, j \in DOMAIN queue'[f] : queue'[f][i] = queue'[f][j] => i = j
  <2>1. \A i, j \in DOMAIN queue[f] : queue[f][i] = queue[f][j] => i = j
    BY DEF IInv, Waits
  <2>2. CASE f # mine
    <3>1. queue'[f] = queue[f]
      BY <1>1, <1>3, <2>2
    <3>2. \A i \in DOMAIN queue[f] : queue[f][i] # r
      BY <2>2 DEF IInv, Waits, mine
    <3> QED BY <1>8, <2>1, <3>1, <3>2
  <2>3. CASE f = mine
    <3>1. queue'[f] = Without(queue[f], r)
      BY <1>1, <1>3, <2>3
    <3> QED BY <1>6, <1>8, <2>3, <3>1
  <2> QED BY <2>2, <2>3
<1>10. Waits'
  BY <1>9 DEF Waits
<1>11. IsFiniteSet(loose') /\ Cardinality(loose') <= cancels'
  <2>1. Cardinality(loose) \in Nat
    BY <1>3, FS_CardinalityType
  <2>2. CASE request[r].pc = "fetch"
    <3>1. loose' = loose \cup {<<k, cancels'>>}
      BY <1>1, <2>2
    <3> HIDE DEF k
    <3>2. IsFiniteSet(loose') /\ Cardinality(loose') <= Cardinality(loose) + 1 /\ Cardinality(loose') \in Nat
      BY <1>3, <3>1, OneMore
    <3>3. Cardinality(loose) + 1 <= cancels'
      BY <1>1, <1>3, <2>1
    <3>4. cancels' \in Nat
      BY <1>1, <1>3
    <3> HIDE DEF thread
    <3> QED BY <1>3, <2>1, <3>2, <3>3, <3>4
  <2>3. CASE request[r].pc # "fetch"
    <3>1. loose' = loose
      BY <1>1, <2>3
    <3>2. Cardinality(loose) <= cancels'
      BY <1>1, <1>3, <2>1
    <3> QED BY <1>3, <3>1, <3>2
  <2> QED BY <2>2, <2>3
<1>12. Types' /\ Places'
  BY <1>1, <1>2, <1>3, <1>7, <1>11 DEF IInv, Types, Places, cache
<1>13. Kept'
  BY <1>1 DEF IInv, Kept, Past, StoredAt, cache
<1> QED BY <1>2, <1>10, <1>12, <1>13 DEF IInv

-----------------------------------------------------------------------------
(* Every step keeps the invariant.                                         *)
LEMMA Inductive == IInv /\ [Next]_vars => IInv'
<1> SUFFICES ASSUME IInv, [Next]_vars PROVE IInv'
  OBVIOUS
<1>1. CASE Tick \/ LooseEnds \/ UNCHANGED vars
  BY <1>1, QuietSteps
<1>2. ASSUME NEW r \in Clients, NEW k \in Keys, Hit(r, k) \/ Join(r, k) \/ Lead(r, k)
      PROVE  IInv'
  BY <1>2, QuietSteps, JoinStep, LeadStep
<1>3. ASSUME NEW e \in Exchanges, Admit(e)
      PROVE  IInv'
  BY <1>3, AdmitStep
<1>4. ASSUME NEW r \in Clients, Work(r) \/ CancelWaiter(r) \/ CancelLeader(r)
      PROVE  IInv'
  BY <1>4, ReadsStep, CompleteStep, RaisesStep, CancelWaiterStep, CancelLeaderStep DEF Work
<1> QED BY <1>1, <1>2, <1>3, <1>4 DEF Next

LEMMA Invariant == Spec => []IInv
BY Initially, Inductive, PTL DEF Spec

(* The limits on fetches hold of the threads as well, for any number of    *)
(* pages, exchanges, requests and places of a semaphore: one at a time for *)
(* a page, Concurrency for an exchange, and no more threads that nobody    *)
(* waits for than requests were cancelled (get_page, _fetch_guarded).      *)
THEOREM UpstreamTheorem == Spec => []UpstreamBounded
<1>1. IInv => UpstreamBounded
  <2> SUFFICES ASSUME IInv PROVE UpstreamBounded
    OBVIOUS
  <2>1. ASSUME NEW k \in Keys PROVE AtWork(k) <= 1
    <3> DEFINE work == {r \in Clients : request[r].pc = "fetch" /\ request[r].key = k}
    <3>1. work \in SUBSET {owner[k]}
      BY DEF IInv, Leads, Leading
    <3>2. IsFiniteSet({owner[k]}) /\ Cardinality({owner[k]}) = 1
      BY FS_Singleton
    <3> QED BY <3>1, <3>2, FS_Subset DEF AtWork
  <2> QED BY <2>1 DEF IInv, Places, UpstreamBounded
<1> QED BY <1>1, Invariant, PTL

(* A page that clients may keep for ever had closed before it was stored,  *)
(* if the exchange says when a candle closes, for any end_time; where a    *)
(* chart asked for the time before a candle opens, and this had come, it   *)
(* was closed when the exchange read it, whatever the exchanges stamp      *)
(* (is_closed_history).                                                    *)
THEOREM ImmutableTheorem == Spec => []ImmutableIsClosed
<1>1. IInv => ImmutableIsClosed
  <2> SUFFICES ASSUME IInv, NEW k \in Keys, page[k].immutable
               PROVE  LET newest == LastTick(page[k].newest)
                      IN  /\ ExchangeOf[k] \notin OpenStamped =>
                               newest < page[k].read \/ newest \in page[k].read..(StoredAt(k) - 1)
                          /\ ChartEnd(k) /\ EndOf[k] < page[k].read => newest < page[k].read
    BY DEF ImmutableIsClosed
  <2>1. /\ EndOf[k] # NoEnd /\ Past(k, page[k])
        /\ CloseTime(ExchangeOf[k], page[k].newest) < StoredAt(k)
    BY DEF IInv, Kept
  <2>2. /\ page[k].newest \in Nat /\ page[k].read \in Nat /\ page[k].expires \in Nat
        /\ HistoryTtl \in Nat /\ Length \in Nat \ {0} /\ EndOf[k] \in Nat
    BY <2>1, Constant DEF IInv, Types, Page
  <2>3. LastTick(page[k].newest) \in Int
    BY <2>2 DEF LastTick
  <2>4. ASSUME ExchangeOf[k] \notin OpenStamped
        PROVE  LastTick(page[k].newest) < page[k].read
                 \/ LastTick(page[k].newest) \in page[k].read..(StoredAt(k) - 1)
    <3>1. LastTick(page[k].newest) < StoredAt(k) /\ StoredAt(k) \in Int
      BY <2>1, <2>2, <2>4 DEF CloseTime, StoredAt
    <3> QED BY <2>2, <2>3, <3>1
  <2>5. ASSUME ChartEnd(k), EndOf[k] < page[k].read PROVE LastTick(page[k].newest) < page[k].read
    <3>1. PICK n \in 0..EndOf[k] : EndOf[k] = LastTick(n)
      BY <2>5 DEF ChartEnd
    <3>2. page[k].newest = EndOf[k] \div Length /\ n \in Nat
      BY <2>1, <2>2, <2>5 DEF Past
    <3>3. EndOf[k] \div Length = n
      BY <2>2, <3>1, <3>2, EndOfCandle DEF LastTick
    <3> QED BY <2>5, <3>1, <3>2, <3>3
  <2> QED BY <2>4, <2>5
<1> QED BY <1>1, Invariant, PTL

-----------------------------------------------------------------------------
(* The candles of the cache.                                               *)

Pages == {lru[i] : i \in DOMAIN lru}

SizeOf(p) == [k \in Keys |-> p[k].size]

(* No page is in the cache twice, and one that is not counts for nothing.  *)
CacheInv ==
  /\ lru \in Seq(Keys)
  /\ \A i, j \in DOMAIN lru : lru[i] = lru[j] => i = j
  /\ \A k \in Keys : ~Cached(k) => page[k].size = 0
  /\ candles = SumOf(SizeOf(page), Pages)
  /\ candles <= MaxCandles \/ Len(lru) = 1

\* The sizes of pages add up as any values do.
SizeSolves(F, p, S) ==
  F = [s \in SUBSET S |-> IF s = {} THEN 0 ELSE p[Some(s)].size + F[s \ {Some(s)}]]

LEMMA SizesSum ==
  ASSUME NEW p, NEW S, NEW g, \A x \in S : g[x] = p[x].size
  PROVE  MapThenSumSet(LAMBDA k : p[k].size, S) = SumOf(g, S)
<1>1. MapThenSumSet(LAMBDA k : p[k].size, S) = (CHOOSE F : SizeSolves(F, p, S))[S]
  BY DEF MapThenSumSet, MapThenFoldSet, Some, SizeSolves
<1>2. \A s \in SUBSET S : s # {} => Some(s) \in S
  BY DEF Some
<1>3. ASSUME NEW F PROVE SizeSolves(F, p, S) <=> Solves(F, g, S)
  <2>1. [s \in SUBSET S |-> IF s = {} THEN 0 ELSE g[Some(s)] + F[s \ {Some(s)}]]
        = [s \in SUBSET S |-> IF s = {} THEN 0 ELSE p[Some(s)].size + F[s \ {Some(s)}]]
    BY <1>2
  <2>. QED BY <2>1 DEF SizeSolves, Solves
<1>4. (CHOOSE F : SizeSolves(F, p, S)) = (CHOOSE F : Solves(F, g, S))
  BY <1>3, Zenon
<1>. QED BY <1>1, <1>4, SumDef

\* The elements of a list.
LEMMA ListFinite ==
  ASSUME NEW T, NEW s \in Seq(T)
  PROVE  IsFiniteSet({s[i] : i \in DOMAIN s}) /\ {s[i] : i \in DOMAIN s} \subseteq T
<1>1. DOMAIN s = 1..Len(s) /\ Len(s) \in Nat
  OBVIOUS
<1>2. IsFiniteSet(1..Len(s))
  BY <1>1, FS_Interval
<1>3. s \in Surjection(1..Len(s), {s[i] : i \in 1..Len(s)})
  BY <1>1 DEF Surjection
<1>5. IsFiniteSet({s[i] : i \in 1..Len(s)})
  BY <1>2, <1>3, FS_Surjection
<1>4. {s[i] : i \in DOMAIN s} \subseteq T
  BY <1>1
<1>. QED BY <1>1, <1>5, <1>4

LEMMA SizesAre ==
  ASSUME page \in [Keys -> Page], NEW S \in SUBSET Keys
  PROVE  /\ Sizes(S) = SumOf(SizeOf(page), S)
         /\ \A k \in Keys : SizeOf(page)[k] = page[k].size /\ page[k].size \in Nat
<1>1. \A k \in Keys : SizeOf(page)[k] = page[k].size /\ page[k].size \in Nat
  BY DEF SizeOf, Page
<1>. QED BY <1>1, SizesSum DEF Sizes

\* A page is taken out or moved to the end of the list.
LEMMA WithoutPage ==
  ASSUME CacheInv, NEW k \in Keys
  PROVE  LET rest == Without(lru, k) IN
           /\ rest \in Seq(Keys)
           /\ \A i, j \in DOMAIN rest : rest[i] = rest[j] => i = j
           /\ {rest[i] : i \in DOMAIN rest} = Pages \ {k}
<1>1. lru \in Seq(Keys) /\ \A i, j \in DOMAIN lru : lru[i] = lru[j] => i = j
  BY DEF CacheInv
<1>2. /\ Without(lru, k) \in Seq(Keys)
      /\ \A i \in DOMAIN Without(lru, k) : \E j \in DOMAIN lru : Without(lru, k)[i] = lru[j] /\ lru[j] # k
      /\ \A i, j \in DOMAIN Without(lru, k) : Without(lru, k)[i] = Without(lru, k)[j] => i = j
      /\ \A j \in DOMAIN lru : lru[j] # k => \E i \in DOMAIN Without(lru, k) : Without(lru, k)[i] = lru[j]
  BY <1>1, WithoutFacts
<1> DEFINE rest == Without(lru, k)
<1> HIDE DEF rest
<1>3. {rest[i] : i \in DOMAIN rest} = Pages \ {k}
  BY <1>2 DEF Pages, rest
<1>. QED BY <1>2, <1>3 DEF rest

\* One page at the end of a list that has it not yet.
LEMMA AppendPage ==
  ASSUME NEW T, NEW s \in Seq(T), NEW x \in T, \A i, j \in DOMAIN s : s[i] = s[j] => i = j,
         x \notin {s[i] : i \in DOMAIN s}
  PROVE  LET t == Append(s, x) IN
           /\ t \in Seq(T) /\ Len(t) = Len(s) + 1
           /\ \A i, j \in DOMAIN t : t[i] = t[j] => i = j
           /\ {t[i] : i \in DOMAIN t} = {s[i] : i \in DOMAIN s} \cup {x}
<1> DEFINE t == Append(s, x)
<1>1. /\ t \in Seq(T) /\ Len(t) = Len(s) + 1 /\ Len(s) \in Nat
      /\ DOMAIN t = 1..(Len(s) + 1) /\ DOMAIN s = 1..Len(s)
      /\ \A i \in 1..Len(s) : t[i] = s[i]
      /\ t[Len(s) + 1] = x
  OBVIOUS
<1> HIDE DEF t
<1>2. \A i, j \in DOMAIN t : t[i] = t[j] => i = j
  <2> SUFFICES ASSUME NEW i \in 1..(Len(s) + 1), NEW j \in 1..(Len(s) + 1), t[i] = t[j] PROVE i = j
    BY <1>1
  <2>1. CASE i \in 1..Len(s) /\ j \in 1..Len(s)
    BY <1>1, <2>1
  <2>2. CASE i = Len(s) + 1 \/ j = Len(s) + 1
    BY <1>1, <2>2
  <2>. QED BY <1>1, <2>1, <2>2
<1>3. {t[i] : i \in DOMAIN t} = {s[i] : i \in DOMAIN s} \cup {x}
  <2>1. \A i \in DOMAIN t : t[i] \in {s[j] : j \in DOMAIN s} \cup {x}
    BY <1>1
  <2>2. \A j \in DOMAIN s : s[j] \in {t[i] : i \in DOMAIN t}
    BY <1>1
  <2>3. x \in {t[i] : i \in DOMAIN t}
    BY <1>1
  <2>. QED BY <2>1, <2>2, <2>3
<1>. QED BY <1>1, <1>2, <1>3 DEF t

LEMMA HitCache ==
  ASSUME IInv, CacheInv, NEW r \in Clients, NEW k \in Keys, Hit(r, k)
  PROVE  CacheInv'
<1> DEFINE rest == Without(lru, k)
           new == Append(rest, k)
<1>1. /\ rest \in Seq(Keys) /\ \A i, j \in DOMAIN rest : rest[i] = rest[j] => i = j
      /\ {rest[i] : i \in DOMAIN rest} = Pages \ {k}
  BY WithoutPage
<1>2. /\ new \in Seq(Keys) /\ \A i, j \in DOMAIN new : new[i] = new[j] => i = j
      /\ {new[i] : i \in DOMAIN new} = (Pages \ {k}) \cup {k} /\ Len(new) = Len(rest) + 1
  <2>1. k \notin {rest[i] : i \in DOMAIN rest}
    BY <1>1
  <2> HIDE DEF rest
  <2>. QED BY <1>1, <2>1, AppendPage
<1>3. lru' = new /\ page' = page /\ candles' = candles /\ k \in Pages
  BY DEF Hit, Cached, Pages
<1> HIDE DEF new
<1>4. Pages' = Pages
  BY <1>2, <1>3 DEF Pages
<1>5. \A j \in Keys : Cached(j)' <=> Cached(j)
  <2>1. \A j : (Cached(j) <=> j \in Pages) /\ (Cached(j)' <=> j \in Pages')
    BY DEF Cached, Pages
  <2>. QED BY <1>4, <2>1
<1>6. Len(lru) = 1 => Len(new) = 1
  <2>1. lru \in Seq(Keys) /\ rest = RemoveAt(lru, CHOOSE i \in DOMAIN lru : lru[i] = k)
    BY <1>3 DEF CacheInv, Without, Pages
  <2>. QED BY <1>2, <1>3 DEF Pages
<1>. QED BY <1>2, <1>3, <1>4, <1>5, <1>6 DEF CacheInv

\* The sum of the cache, and what pages are in it.
LEMMA CacheFacts ==
  ASSUME IInv, CacheInv
  PROVE  /\ page \in [Keys -> Page] /\ lru \in Seq(Keys) /\ IsFiniteSet(Pages) /\ Pages \subseteq Keys
         /\ \A j : Cached(j) <=> j \in Pages
         /\ \A k \in Keys : SizeOf(page)[k] = page[k].size /\ page[k].size \in Nat
         /\ candles \in Nat
<1>1. page \in [Keys -> Page] /\ lru \in Seq(Keys)
  BY DEF IInv, Types, CacheInv
<1>2. IsFiniteSet(Pages) /\ Pages \subseteq Keys
  BY <1>1, ListFinite DEF Pages
<1>3. \A j : Cached(j) <=> j \in Pages
  BY DEF Cached, Pages
<1>4. \A k \in Keys : SizeOf(page)[k] = page[k].size /\ page[k].size \in Nat
  BY <1>1, SizesAre
<1>5. SumOf(SizeOf(page), Pages) \in Nat
  <2>1. \A k \in Pages : SizeOf(page)[k] \in Nat
    BY <1>2, <1>4
  <2>. QED BY <1>2, <2>1, SumNat
<1>. QED BY <1>1, <1>2, <1>3, <1>4, <1>5 DEF CacheInv

LEMMA DropCache ==
  ASSUME IInv, CacheInv, NEW k \in Keys, DropExpired(k)
  PROVE  CacheInv'
<1>1. CASE ~Cached(k)
  BY <1>1 DEF DropExpired, cache, CacheInv, Pages, SizeOf, Cached
<1>2. CASE Cached(k)
  <2> DEFINE rest == Without(lru, k)
  <2>1. /\ rest \in Seq(Keys) /\ \A i, j \in DOMAIN rest : rest[i] = rest[j] => i = j
        /\ {rest[i] : i \in DOMAIN rest} = Pages \ {k}
    BY WithoutPage
  <2>2. lru' = rest /\ page' = [page EXCEPT ![k] = NoPage] /\ candles' = candles - page[k].size
    BY <1>2 DEF DropExpired
  <2> HIDE DEF rest
  <2>3. /\ page \in [Keys -> Page] /\ lru \in Seq(Keys) /\ IsFiniteSet(Pages) /\ Pages \subseteq Keys
        /\ \A j : Cached(j) <=> j \in Pages
        /\ \A j \in Keys : SizeOf(page)[j] = page[j].size /\ page[j].size \in Nat
        /\ candles \in Nat
    BY CacheFacts
  <2>4. Pages' = Pages \ {k} /\ \A j : Cached(j)' <=> j \in Pages \ {k}
    BY <2>1, <2>2 DEF Pages, Cached
  <2>5. /\ \A j \in Keys : SizeOf(page')[j] = page'[j].size
        /\ page'[k].size = 0 /\ \A j \in Keys \ {k} : page'[j] = page[j]
    BY <2>2, <2>3 DEF SizeOf, NoPage
  <2> DEFINE others == Pages \ {k}
  <2>6. /\ IsFiniteSet(others) /\ k \notin others /\ others \cup {k} = Pages
        /\ \A y \in others \cup {k} : SizeOf(page)[y] \in Int
        /\ \A y \in others : SizeOf(page')[y] = SizeOf(page)[y]
    BY <1>2, <2>3, <2>5, FS_Subset
  <2> HIDE DEF others
  <2>7. /\ SumOf(SizeOf(page'), others) \in Int
        /\ SumOf(SizeOf(page), others \cup {k}) = SumOf(SizeOf(page'), others) + SizeOf(page)[k]
    BY <2>6, SumAdd
  <2>8. candles' = SumOf(SizeOf(page'), others)
    <3>1. candles = SumOf(SizeOf(page), others \cup {k})
      BY <2>6 DEF CacheInv
    <3>2. SizeOf(page)[k] = page[k].size /\ page[k].size \in Nat
      BY <2>3
    <3>. QED BY <2>2, <2>7, <3>1, <3>2
  <2>9. candles' <= MaxCandles \/ Len(lru') = 1
    <3>1. CASE candles <= MaxCandles
      <4>1. candles' = candles - page[k].size /\ page[k].size \in Nat /\ MaxCandles \in Nat
        BY <2>2, <2>3, ConstantsAssumption
      <4>. QED BY <2>3, <3>1, <4>1
    <3>2. CASE Len(lru) = 1
      <4>1. Pages = {k}
        BY <1>2, <2>3, <3>2 DEF Pages
      <4>2. others = {}
        BY <4>1 DEF others
      <4>3. candles' = 0
        BY <2>8, <4>2, SumEmpty
      <4>. QED BY <4>3, ConstantsAssumption
    <3>. QED BY <3>1, <3>2 DEF CacheInv
  <2>10. \A j \in Keys : ~Cached(j)' => page'[j].size = 0
    BY <2>3, <2>4, <2>5 DEF CacheInv
  <2>11. Pages' = others
    BY <2>4 DEF others
  <2>. QED BY <2>1, <2>2, <2>8, <2>9, <2>10, <2>11 DEF CacheInv
<1>. QED BY <1>1, <1>2

\* The list from the n-th element on.
LEMMA Later ==
  ASSUME NEW T, NEW s \in Seq(T), \A i, j \in DOMAIN s : s[i] = s[j] => i = j, NEW n \in 0..Len(s)
  PROVE  LET t == SubSeq(s, n + 1, Len(s)) IN
           /\ t \in Seq(T) /\ Len(t) = Len(s) - n
           /\ \A i, j \in DOMAIN t : t[i] = t[j] => i = j
           /\ {t[i] : i \in DOMAIN t} = {s[i] : i \in DOMAIN s} \ {s[i] : i \in 1..n}
<1> DEFINE t == SubSeq(s, n + 1, Len(s))
<1>1. /\ t \in Seq(T) /\ Len(t) = Len(s) - n /\ Len(s) \in Nat /\ n \in Nat /\ n <= Len(s)
      /\ DOMAIN t = 1..(Len(s) - n) /\ DOMAIN s = 1..Len(s)
      /\ \A i \in 1..(Len(s) - n) : t[i] = s[n + i]
  OBVIOUS
<1> HIDE DEF t
<1>2. \A i, j \in DOMAIN t : t[i] = t[j] => i = j
  <2> SUFFICES ASSUME NEW i \in 1..(Len(s) - n), NEW j \in 1..(Len(s) - n), t[i] = t[j] PROVE i = j
    BY <1>1
  <2>1. n + i \in DOMAIN s /\ n + j \in DOMAIN s /\ s[n + i] = s[n + j]
    BY <1>1
  <2>2. n + i = n + j
    BY <2>1
  <2>. QED BY <1>1, <2>2
<1>3. {t[i] : i \in DOMAIN t} = {s[i] : i \in DOMAIN s} \ {s[i] : i \in 1..n}
  <2>1. ASSUME NEW i \in DOMAIN t
        PROVE  t[i] \in {s[j] : j \in DOMAIN s} /\ \A j \in 1..n : t[i] # s[j]
    <3>1. n + i \in DOMAIN s /\ t[i] = s[n + i]
      BY <1>1
    <3>2. \A j \in 1..n : j \in DOMAIN s /\ j # n + i
      BY <1>1
    <3>. QED BY <3>1, <3>2
  <2>2. ASSUME NEW j \in DOMAIN s, s[j] \notin {s[i] : i \in 1..n}
        PROVE  s[j] \in {t[i] : i \in DOMAIN t}
    <3>1. j \notin 1..n
      BY <2>2
    <3>2. j - n \in DOMAIN t /\ n + (j - n) = j
      BY <1>1, <3>1
    <3>3. t[j - n] = s[j]
      BY <1>1, <3>2
    <3>. QED BY <3>2, <3>3
  <2>. QED BY <2>1, <2>2
<1>. QED BY <1>1, <1>2, <1>3 DEF t

\* _store: what it drops is enough, and no more is counted off than dropped.
LEMMA StoreCache ==
  ASSUME IInv, CacheInv, NEW k \in Keys, NEW new \in Page, Store(k, new)
  PROVE  CacheInv'
<1> DEFINE rest == Without(lru, k)
           Oldest(n) == {rest[i] : i \in 1..n}
           Count(n) == candles - page[k].size + new.size - Sizes(Oldest(n))
           Enough(n) == n = Len(rest) \/ Count(n) <= MaxCandles
           dropped == CHOOSE n \in 0..Len(rest) : Enough(n) /\ \A m \in 0..(n - 1) : Count(m) > MaxCandles
<1>1. /\ rest \in Seq(Keys) /\ \A i, j \in DOMAIN rest : rest[i] = rest[j] => i = j
      /\ {rest[i] : i \in DOMAIN rest} = Pages \ {k}
  BY WithoutPage
<1>2. /\ lru' = Append(SubSeq(rest, dropped + 1, Len(rest)), k)
      /\ page' = [j \in Keys |-> IF j = k THEN new ELSE IF j \in Oldest(dropped) THEN NoPage
                                 ELSE page[j]]
      /\ candles' = Count(dropped)
  BY DEF Store
<1>3. /\ page \in [Keys -> Page] /\ lru \in Seq(Keys) /\ IsFiniteSet(Pages) /\ Pages \subseteq Keys
      /\ \A j : Cached(j) <=> j \in Pages
      /\ \A j \in Keys : SizeOf(page)[j] = page[j].size /\ page[j].size \in Nat
      /\ candles \in Nat /\ new.size \in Nat
  BY CacheFacts DEF Page
<1> HIDE DEF rest
<1>4. Len(rest) \in Nat /\ DOMAIN rest = 1..Len(rest)
  BY <1>1
<1>5. ASSUME NEW n \in 0..Len(rest)
      PROVE  /\ Oldest(n) \subseteq Pages \ {k} /\ IsFiniteSet(Oldest(n))
             /\ Sizes(Oldest(n)) = SumOf(SizeOf(page), Oldest(n))
             /\ Sizes(Oldest(n)) \in Int /\ Count(n) \in Int
  <2>1. Oldest(n) \subseteq Pages \ {k}
    BY <1>1, <1>4
  <2> HIDE DEF Oldest
  <2>2. IsFiniteSet(Oldest(n)) /\ Oldest(n) \in SUBSET Keys
    BY <1>3, <2>1, FS_Subset
  <2>3. Sizes(Oldest(n)) = SumOf(SizeOf(page), Oldest(n))
    BY <1>3, <2>2, SizesAre
  <2>4. SumOf(SizeOf(page), Oldest(n)) \in Nat
    <3>1. \A j \in Oldest(n) : SizeOf(page)[j] \in Nat
      BY <1>3, <2>2
    <3>. QED BY <2>2, <3>1, SumNat
  <2>. QED BY <1>3, <2>1, <2>2, <2>3, <2>4
<1> HIDE DEF Oldest
<1>6. dropped \in 0..Len(rest) /\ Enough(dropped)
  <2> DEFINE S == {n \in 0..Len(rest) : Enough(n)}
  <2>1. S \in SUBSET Nat /\ Len(rest) \in S
    BY <1>4
  <2>2. PICK n \in S : \A m \in S : n <= m
    <3> HIDE DEF S
    <3>. QED BY <2>1, LeastNumber
  <2>3. ASSUME NEW m \in 0..(n - 1) PROVE Count(m) > MaxCandles
    <3>1. m \in 0..Len(rest) /\ ~(n <= m)
      BY <1>4
    <3>2. ~Enough(m)
      BY <2>2, <3>1
    <3>3. Count(m) \in Int
      BY <1>5, <3>1
    <3>. QED BY <3>2, <3>3, ConstantsAssumption
  <2> HIDE DEF Count
  <2>4. \E i \in 0..Len(rest) : Enough(i) /\ \A m \in 0..(i - 1) : Count(m) > MaxCandles
    BY <2>2, <2>3
  <2> HIDE DEF Enough
  <2>. QED BY <2>4
<1> DEFINE kept == SubSeq(rest, dropped + 1, Len(rest))
           old == Oldest(dropped)
           others == (Pages \ {k}) \ old
<1> HIDE DEF dropped
<1>7. /\ kept \in Seq(Keys) /\ \A i, j \in DOMAIN kept : kept[i] = kept[j] => i = j
      /\ Len(kept) = Len(rest) - dropped
      /\ {kept[i] : i \in DOMAIN kept} = others
  BY <1>1, <1>6, Later DEF Oldest
<1> HIDE DEF kept, old
<1>8. /\ lru' \in Seq(Keys) /\ \A i, j \in DOMAIN lru' : lru'[i] = lru'[j] => i = j
      /\ Len(lru') = Len(kept) + 1 /\ {lru'[i] : i \in DOMAIN lru'} = others \cup {k}
  <2>1. k \notin {kept[i] : i \in DOMAIN kept} /\ lru' = Append(kept, k)
    BY <1>2, <1>7 DEF kept
  <2> HIDE DEF others
  <2>. QED BY <1>7, <2>1, AppendPage
<1>9. /\ old \subseteq Pages \ {k} /\ IsFiniteSet(old) /\ Sizes(old) = SumOf(SizeOf(page), old)
      /\ Sizes(old) \in Int /\ candles' \in Int
      /\ candles' = candles - page[k].size + new.size - Sizes(old)
  BY <1>2, <1>5, <1>6 DEF old
<1>10. /\ \A j \in Keys : SizeOf(page')[j] = page'[j].size
       /\ page'[k] = new /\ (\A j \in old : page'[j].size = 0)
       /\ \A j \in Keys : j # k /\ j \notin old => page'[j] = page[j]
  BY <1>2, <1>3, <1>9 DEF SizeOf, NoPage, old
<1>11. IsFiniteSet(others) /\ IsFiniteSet(Pages \ {k}) /\ others \cup old = Pages \ {k} /\ others \cap old = {}
       /\ k \notin others /\ others \subseteq Keys /\ k \notin old
  BY <1>3, <1>9, FS_Subset
<1> HIDE DEF others
<1>12. /\ SumOf(SizeOf(page), others) \in Int
       /\ SumOf(SizeOf(page), Pages \ {k}) = SumOf(SizeOf(page), others) + SumOf(SizeOf(page), old)
  <2>1. \A x \in others \cup old : SizeOf(page)[x] \in Int
    BY <1>3, <1>11
  <2>2. /\ SumOf(SizeOf(page), others) \in Int
        /\ SumOf(SizeOf(page), others \cup old) = SumOf(SizeOf(page), others) + SumOf(SizeOf(page), old)
    BY <1>9, <1>11, <2>1, SumUnion
  <2>. QED BY <1>11, <2>2
<1>13. candles = SumOf(SizeOf(page), Pages \ {k}) + page[k].size
  <2>1. CASE Cached(k)
    <3> DEFINE R == Pages \ {k}
    <3>1. /\ IsFiniteSet(R) /\ k \notin R /\ R \cup {k} = Pages
          /\ \A y \in R \cup {k} : SizeOf(page)[y] \in Int
      BY <1>3, <1>11, <2>1
    <3> HIDE DEF R
    <3>2. SumOf(SizeOf(page), R \cup {k}) = SumOf(SizeOf(page), R) + SizeOf(page)[k]
      BY <3>1, SumAdd
    <3>. QED BY <1>3, <3>1, <3>2 DEF CacheInv, R
  <2>2. CASE ~Cached(k)
    <3>1. Pages \ {k} = Pages /\ page[k].size = 0
      BY <1>3, <2>2 DEF CacheInv
    <3>2. candles = SumOf(SizeOf(page), Pages \ {k})
      BY <3>1 DEF CacheInv
    <3>. QED BY <1>3, <3>1, <3>2
  <2>. QED BY <2>1, <2>2
<1>14. SumOf(SizeOf(page'), others \cup {k}) = SumOf(SizeOf(page), others) + new.size
  <2>1. /\ \A y \in others \cup {k} : SizeOf(page')[y] \in Int
        /\ \A y \in others : SizeOf(page)[y] = SizeOf(page')[y]
        /\ SizeOf(page')[k] = new.size
    BY <1>3, <1>10, <1>11
  <2>2. SumOf(SizeOf(page'), others \cup {k}) = SumOf(SizeOf(page), others) + SizeOf(page')[k]
    <3> DEFINE g == SizeOf(page')
               h == SizeOf(page)
    <3>1. /\ \A y \in others \cup {k} : g[y] \in Int
          /\ \A y \in others : h[y] = g[y]
      BY <2>1
    <3> HIDE DEF g, h
    <3>2. SumOf(g, others \cup {k}) = SumOf(h, others) + g[k]
      BY <1>11, <3>1, SumAdd
    <3>. QED BY <3>2 DEF g, h
  <2>. QED BY <2>1, <2>2
<1>15. candles' = SumOf(SizeOf(page'), others \cup {k})
  <2>1. page[k].size \in Int /\ new.size \in Int /\ SumOf(SizeOf(page), old) \in Int
    BY <1>3, <1>9
  <2>. QED BY <1>9, <1>12, <1>13, <1>14, <2>1
<1>16. candles' <= MaxCandles \/ Len(lru') = 1
  <2>1. CASE dropped = Len(rest)
    BY <1>4, <1>7, <1>8, <2>1
  <2>2. CASE Count(dropped) <= MaxCandles
    BY <1>2, <2>2
  <2>. QED BY <1>6, <2>1, <2>2
<1>17. Pages' = others \cup {k} /\ \A j : Cached(j)' <=> j \in others \cup {k}
  BY <1>8 DEF Pages, Cached
<1>18. ASSUME NEW j \in Keys, ~Cached(j)' PROVE page'[j].size = 0
  <2>1. j # k /\ j \notin others
    BY <1>17, <1>18
  <2>2. CASE j \in old
    BY <1>10, <2>2
  <2>3. CASE j \notin old
    <3>1. ~Cached(j) /\ page'[j] = page[j]
      BY <1>3, <1>10, <1>11, <2>1, <2>3
    <3>. QED BY <3>1 DEF CacheInv
  <2>. QED BY <2>2, <2>3
<1>. QED BY <1>8, <1>15, <1>16, <1>17, <1>18 DEF CacheInv

(* The cache is empty at the start.                                        *)
LEMMA CacheInit == Init => CacheInv
<1> SUFFICES ASSUME Init PROVE CacheInv
  OBVIOUS
<1>1. lru = <<>> /\ candles = 0 /\ \A k \in Keys : page[k].size = 0
  BY DEF Init, NoPage
<1>2. Pages = {}
  BY <1>1 DEF Pages
<1>3. candles = SumOf(SizeOf(page), Pages)
  BY <1>1, <1>2, SumEmpty
<1>4. candles <= MaxCandles
  BY <1>1, ConstantsAssumption
<1> QED BY <1>1, <1>3, <1>4 DEF CacheInv

LEMMA SameCache == ASSUME CacheInv, UNCHANGED cache PROVE CacheInv'
BY DEF CacheInv, cache, Pages, SizeOf, Cached

(* The page that Complete stores is one.                                   *)
LEMMA NewPage ==
  ASSUME IInv, NEW r \in Clients, Complete(r)
  PROVE  \E new \in Page : request[r].key \in Keys /\ Store(request[r].key, new)
<1> DEFINE k == request[r].key
           immutable == ClosedHistory(k, request[r].page.newest)
           ttl == IF immutable THEN HistoryTtl ELSE HeadTtl
           time == clock + ttl
           p == request[r].page
           new == [p EXCEPT !.immutable = immutable, !.expires = time]
<1>1. Leading(r) /\ Store(k, new)
  BY DEF Complete, Leading
<1>2. p \in Page /\ k \in Keys
  BY <1>1 DEF IInv, Types, Request, Leads
<1>3. immutable \in BOOLEAN
  BY DEF ClosedHistory
<1>4. time \in Nat
  BY Constant DEF IInv, Types
<1>5. new \in Page
  <2> HIDE DEF immutable, time, p
  <2> QED BY <1>2, <1>3, <1>4 DEF Page
<1> QED BY <1>1, <1>2, <1>5

LEMMA CacheStep == IInv /\ CacheInv /\ [Next]_vars => CacheInv'
<1> SUFFICES ASSUME IInv, CacheInv, [Next]_vars PROVE CacheInv'
  OBVIOUS
<1>1. CASE Tick \/ LooseEnds \/ UNCHANGED vars
  BY <1>1, SameCache DEF Tick, LooseEnds, vars, cache
<1>2. ASSUME NEW r \in Clients, NEW k \in Keys, Hit(r, k) \/ Join(r, k) \/ Lead(r, k)
      PROVE  CacheInv'
  BY <1>2, HitCache, DropCache DEF Join, Lead
<1>3. ASSUME NEW e \in Exchanges, Admit(e)
      PROVE  CacheInv'
  BY <1>3, SameCache DEF Admit
<1>4. ASSUME NEW r \in Clients, Complete(r)
      PROVE  CacheInv'
  BY <1>4, NewPage, StoreCache
<1>5. ASSUME NEW r \in Clients, ExchangeReads(r) \/ Raises(r) \/ CancelWaiter(r) \/ CancelLeader(r)
      PROVE  CacheInv'
  BY <1>5, SameCache DEF ExchangeReads, Raises, CancelWaiter, CancelLeader
<1> QED BY <1>1, <1>2, <1>3, <1>4, <1>5 DEF Next, Work

LEMMA CacheInvariant == Spec => [](IInv /\ CacheInv)
BY Initially, Inductive, CacheInit, CacheStep, PTL DEF Spec

(* candles is what the cached pages hold together, and within the bound    *)
(* unless one page alone exceeds it: a page leaves the cache with its      *)
(* candles whether it expires or is dropped for others (_get_fresh,        *)
(* _store), for any pages, sizes and bound.                                *)
THEOREM CacheTheorem == Spec => []CacheBounded
<1>1. IInv /\ CacheInv => CacheBounded
  <2> SUFFICES ASSUME IInv, CacheInv PROVE CacheBounded
    OBVIOUS
  <2>1. page \in [Keys -> Page] /\ Pages \subseteq Keys /\ \A k : Cached(k) <=> k \in Pages
    BY CacheFacts
  <2>2. {k \in Keys : Cached(k)} = Pages
    BY <2>1
  <2>3. Sizes(Pages) = SumOf(SizeOf(page), Pages)
    BY <2>1, SizesAre
  <2> QED BY <2>2, <2>3 DEF CacheInv, CacheBounded
<1> QED BY <1>1, CacheInvariant, PTL

-----------------------------------------------------------------------------
(* The threads nobody waits for fetch a page, and were given a number.     *)
LooseInv == loose \in SUBSET (Keys \X Nat)

LEMMA LooseStep == IInv /\ LooseInv /\ [Next]_vars => LooseInv'
<1> SUFFICES ASSUME IInv, LooseInv, [Next]_vars PROVE LooseInv'
  OBVIOUS
<1>1. CASE Tick \/ UNCHANGED vars
  BY <1>1 DEF Tick, vars, LooseInv
<1>2. CASE LooseEnds
  BY <1>2 DEF LooseEnds, LooseInv
<1>3. ASSUME NEW r \in Clients, NEW k \in Keys, Hit(r, k) \/ Join(r, k) \/ Lead(r, k)
      PROVE  LooseInv'
  BY <1>3 DEF Hit, Join, Lead, LooseInv
<1>4. ASSUME NEW e \in Exchanges, Admit(e)
      PROVE  LooseInv'
  BY <1>4 DEF Admit, LooseInv
<1>5. ASSUME NEW r \in Clients, Work(r) \/ CancelWaiter(r)
      PROVE  LooseInv'
  BY <1>5 DEF Work, ExchangeReads, Complete, Raises, CancelWaiter, LooseInv
<1>6. ASSUME NEW r \in Clients, CancelLeader(r)
      PROVE  LooseInv'
  <2>1. request[r].key \in Keys
    BY <1>6 DEF CancelLeader, IInv, Leads, Leading
  <2>2. cancels' \in Nat
    BY <1>6 DEF CancelLeader, IInv, Types
  <2> QED BY <1>6, <2>1, <2>2 DEF CancelLeader, LooseInv
<1> QED BY <1>1, <1>2, <1>3, <1>4, <1>5, <1>6 DEF Next

(* The types of the model.                                                 *)
THEOREM TypeCorrect == Spec => []TypeOK
<1>1. IInv /\ CacheInv /\ LooseInv => TypeOK
  <2> SUFFICES ASSUME IInv, CacheInv, LooseInv PROVE TypeOK
    OBVIOUS
  <2>1. candles \in Nat /\ lru \in Seq(Keys)
    BY CacheFacts
  <2> QED BY <2>1 DEF IInv, Types, LooseInv, TypeOK
<1>2. Init => LooseInv
  BY DEF Init, LooseInv
<1> QED BY <1>1, <1>2, LooseStep, CacheInvariant, PTL DEF Spec
-----------------------------------------------------------------------------
(* Nobody is stranded: the part of EveryoneAnswered that is no liveness.   *)

\* A future that is registered has a request at work on its page, and who waits
\* for a page waits for a registered future.
Answers ==
  /\ \A k \in Keys : owner[k] # NoOne =>
       request[owner[k]].pc \in {"queue", "fetch", "fetched"} /\ request[owner[k]].key = k
  /\ \A r \in Clients : request[r].pc = "wait" =>
       request[r].key \in Keys /\ owner[request[r].key] # NoOne

InQueue(r, e) == \E i \in DOMAIN queue[e] : queue[e][i] = r

Queues == \A r \in Clients : request[r].pc = "queue" => InQueue(r, ExchangeOf[request[r].key])

\* Whom request r waits for can go on: a thread, or the head of a queue.
NobodyStranded ==
  \A r \in Clients :
    /\ request[r].pc = "wait" => \E s \in Clients : Leading(s) /\ request[s].key = request[r].key
    /\ request[r].pc = "queue" =>
         LET e == ExchangeOf[request[r].key]
         IN  /\ InQueue(r, e)
             /\ \/ Cardinality(Fetching(e)) < Concurrency
                \/ \E s \in Fetching(e) : request[s].key # request[r].key

\* A future is resolved: who waited for it is idle, the others wait for theirs.
LEMMA ReleaseAnswers ==
  ASSUME IInv, Answers, NEW r \in Clients, Leading(r),
         request' = Resolved(r), owner' = Unregistered(r)
  PROVE  Answers'
<1>1. /\ request \in [Clients -> Request] /\ owner \in [Keys -> Clients \cup {NoOne}]
      /\ request[r].key \in Keys /\ owner[request[r].key] = r
  BY DEF IInv, Types, Leads
<1>2. Idle.pc = "idle" /\ r # NoOne
  BY Constant DEF Idle
<1>3. \A s \in Clients : request'[s] = IF s = r \/ (request[s].pc = "wait" /\ request[s].key = request[r].key)
                                       THEN Idle ELSE request[s]
  BY DEF Resolved
<1>4. \A k \in Keys : owner'[k] = IF k = request[r].key THEN NoOne ELSE owner[k]
  BY <1>1 DEF Unregistered
<1>5. ASSUME NEW k \in Keys, owner'[k] # NoOne
      PROVE  request'[owner'[k]].pc \in {"queue", "fetch", "fetched"} /\ request'[owner'[k]].key = k
  <2>1. k # request[r].key /\ owner'[k] = owner[k]
    BY <1>4, <1>5
  <2>2. /\ owner[k] \in Clients /\ request[owner[k]].key = k
        /\ request[owner[k]].pc \in {"queue", "fetch", "fetched"}
    BY <1>1, <1>5, <2>1 DEF Answers
  <2>3. request'[owner[k]] = request[owner[k]]
    <3>1. owner[k] # r /\ request[owner[k]].pc # "wait"
      BY <1>1, <2>1, <2>2
    <3> QED BY <1>3, <2>2, <3>1
  <2> QED BY <2>1, <2>2, <2>3
<1>6. ASSUME NEW s \in Clients, request'[s].pc = "wait"
      PROVE  request'[s].key \in Keys /\ owner'[request'[s].key] # NoOne
  <2>1. request'[s] = request[s] /\ request[s].pc = "wait" /\ request[s].key # request[r].key
    BY <1>2, <1>3, <1>6
  <2> QED BY <1>4, <2>1 DEF Answers
<1> QED BY <1>5, <1>6 DEF Answers, Leading

\* One request moves and is registered for what it asks as before, or now is.
LEMMA MoveAnswers ==
  ASSUME IInv, Answers, NEW r \in Clients,
         \A s \in Clients \ {r} : request'[s] = request[s],
         \A k \in Keys : owner'[k] = owner[k] \/ (owner[k] = NoOne /\ owner'[k] = r),
         \A k \in Keys : owner'[k] = r => Leading(r)' /\ request'[r].key = k,
         request'[r].pc = "wait" => request'[r].key \in Keys /\ owner'[request'[r].key] # NoOne
  PROVE  Answers'
<1>1. owner \in [Keys -> Clients \cup {NoOne}] /\ r # NoOne
  BY Constant DEF IInv, Types
<1>2. ASSUME NEW k \in Keys, owner'[k] # NoOne
      PROVE  request'[owner'[k]].pc \in {"queue", "fetch", "fetched"} /\ request'[owner'[k]].key = k
  <2>1. CASE owner'[k] = r
    BY <2>1 DEF Leading
  <2>2. CASE owner'[k] # r
    <3>1. owner'[k] = owner[k] /\ owner[k] \in Clients \ {r}
      BY <1>1, <1>2, <2>2
    <3> QED BY <1>2, <3>1 DEF Answers, Leading
  <2> QED BY <2>1, <2>2
<1>3. ASSUME NEW s \in Clients, request'[s].pc = "wait"
      PROVE  request'[s].key \in Keys /\ owner'[request'[s].key] # NoOne
  BY <1>1, <1>3 DEF Answers
<1> QED BY <1>2, <1>3 DEF Answers, Leading

LEMMA AnswersStep == IInv /\ Answers /\ [Next]_vars => Answers'
<1> SUFFICES ASSUME IInv, Answers, [Next]_vars PROVE Answers'
  OBVIOUS
<1>0. /\ request \in [Clients -> Request] /\ owner \in [Keys -> Clients \cup {NoOne}]
      /\ queue \in [Exchanges -> Seq(Clients)]
  BY DEF IInv, Types
<1>1. CASE UNCHANGED <<owner, request>>
  BY <1>1 DEF Answers, Leading
<1>2. ASSUME NEW r \in Clients, NEW k \in Keys, Join(r, k) PROVE Answers'
  <2>1. /\ request' = Become(r, "wait", k) /\ owner' = owner /\ owner[k] # NoOne
        /\ request[r].pc = "idle"
    BY <1>2 DEF Join, Asked
  <2>2. request'[r].pc = "wait" /\ request'[r].key = k /\ \A s \in Clients \ {r} : request'[s] = request[s]
    BY <1>0, <2>1, Becomes DEF Become, States
  <2>3. \A j \in Keys : owner[j] # r
    BY <2>1, Constant DEF Answers, Leading
  <2> QED BY <2>1, <2>2, <2>3, MoveAnswers
<1>3. ASSUME NEW r \in Clients, NEW k \in Keys, Lead(r, k) PROVE Answers'
  <2>1. /\ request' = Become(r, "fetch", k) \/ request' = Become(r, "queue", k)
        /\ owner' = [owner EXCEPT ![k] = r] /\ owner[k] = NoOne /\ request[r].pc = "idle"
    BY <1>3 DEF Lead, Asked
  <2>2. /\ request'[r].pc \in {"fetch", "queue"} /\ request'[r].key = k
        /\ \A s \in Clients \ {r} : request'[s] = request[s]
    <3>1. CASE request' = Become(r, "fetch", k)
      BY <1>0, <3>1, Becomes DEF Become, States
    <3>2. CASE request' = Become(r, "queue", k)
      BY <1>0, <3>2, Becomes DEF Become, States
    <3> QED BY <2>1, <3>1, <3>2
  <2>3. \A j \in Keys : owner[j] # r
    BY <2>1, Constant DEF Answers, Leading
  <2>4. \A j \in Keys : owner'[j] = IF j = k THEN r ELSE owner[j]
    BY <1>0, <2>1
  <2>5. Leading(r)'
    BY <2>2 DEF Leading
  <2> QED BY <2>1, <2>2, <2>3, <2>4, <2>5, MoveAnswers
<1>4. ASSUME NEW r \in Clients, owner' = owner, Leading(r), Leading(r)',
             request'[r].key = request[r].key, \A s \in Clients \ {r} : request'[s] = request[s]
      PROVE  Answers'
  <2>1. \A k \in Keys : owner'[k] = r => request'[r].key = k
    BY <1>4, Constant DEF Answers
  <2>2. request'[r].pc # "wait"
    BY <1>4 DEF Leading
  <2> QED BY <1>4, <2>1, <2>2, MoveAnswers
<1>5. ASSUME NEW e \in Exchanges, Admit(e) PROVE Answers'
  <2>1. PICK r \in Clients : r = Head(queue[e]) /\ 1 \in DOMAIN queue[e] /\ r = queue[e][1]
    BY <1>0, <1>5 DEF Admit
  <2>2. request[r].pc = "queue"
    BY <2>1 DEF IInv, Waits
  <2>3. owner' = owner /\ request' = [request EXCEPT ![r].pc = "fetch"]
    BY <1>5, <2>1 DEF Admit
  <2>4. /\ request[r] \in Request /\ request'[r].pc = "fetch" /\ request'[r].key = request[r].key
        /\ \A s \in Clients \ {r} : request'[s] = request[s]
    BY <1>0, <2>1, <2>3 DEF Request
  <2>5. Leading(r) /\ Leading(r)'
    BY <2>2, <2>4 DEF Leading
  <2> QED BY <1>4, <2>1, <2>3, <2>4, <2>5
<1>6. ASSUME NEW r \in Clients, ExchangeReads(r) PROVE Answers'
  <2>1. PICK p : request' = [request EXCEPT ![r].pc = "fetched", ![r].page = p]
    BY <1>6 DEF ExchangeReads
  <2>2. owner' = owner /\ request[r].pc = "fetch"
    BY <1>6 DEF ExchangeReads
  <2>3. /\ request'[r].pc = "fetched" /\ request'[r].key = request[r].key
        /\ \A s \in Clients \ {r} : request'[s] = request[s]
    BY <1>0, <2>1 DEF Request
  <2>4. Leading(r) /\ Leading(r)'
    BY <2>2, <2>3 DEF Leading
  <2> QED BY <1>4, <2>2, <2>3, <2>4
<1>7. ASSUME NEW r \in Clients, Complete(r) \/ Raises(r) \/ CancelLeader(r) PROVE Answers'
  BY <1>7, ReleaseAnswers DEF Complete, Raises, CancelLeader, Leading
<1>8. ASSUME NEW r \in Clients, CancelWaiter(r) PROVE Answers'
  <2>1. /\ owner' = owner /\ request[r].pc = "wait" /\ request'[r] = Idle
        /\ \A s \in Clients \ {r} : request'[s] = request[s]
    BY <1>0, <1>8 DEF CancelWaiter
  <2>2. \A j \in Keys : owner[j] # r
    BY <2>1, Constant DEF Answers, Leading
  <2> QED BY <2>1, <2>2, MoveAnswers DEF Idle
<1> QED BY <1>1, <1>2, <1>3, <1>5, <1>6, <1>7, <1>8 DEF Next, Work, Tick, Hit, LooseEnds, vars

\* Who waits for a semaphore is in its queue.
LEMMA QueuesStep == IInv /\ Queues /\ [Next]_vars => Queues'
<1> SUFFICES ASSUME IInv, Queues, [Next]_vars, NEW s \in Clients, request'[s].pc = "queue"
             PROVE  \E i \in DOMAIN queue'[ExchangeOf[request'[s].key]] :
                      queue'[ExchangeOf[request'[s].key]][i] = s
  BY DEF Queues, InQueue
<1> DEFINE Goal == \E i \in DOMAIN queue'[ExchangeOf[request'[s].key]] :
                     queue'[ExchangeOf[request'[s].key]][i] = s
<1>0. /\ request \in [Clients -> Request] /\ queue \in [Exchanges -> Seq(Clients)]
      /\ ExchangeOf \in [Keys -> Exchanges]
  BY Constant DEF IInv, Types
<1>00. \A k \in Keys : ExchangeOf[k] \in Exchanges
  BY <1>0
<1>1. CASE request'[s] = request[s] /\ queue' = queue
  BY <1>1 DEF Queues, InQueue
<1>2. ASSUME NEW r \in Clients, NEW k \in Keys, Join(r, k) PROVE Goal
  <2>1. request' = Become(r, "wait", k) /\ queue' = queue
    BY <1>2 DEF Join
  <2>2. request'[r].pc = "wait" /\ \A t \in Clients \ {r} : request'[t] = request[t]
    BY <1>0, <2>1, Becomes DEF Become, States
  <2> QED BY <1>1, <2>1, <2>2
<1>3. ASSUME NEW r \in Clients, NEW k \in Keys, Lead(r, k) PROVE Goal
  <2>1. \A t \in Clients \ {r} : request'[t] = request[t]
    BY <1>0, <1>3 DEF Lead, Become
  <2>2. CASE request' = Become(r, "fetch", k) /\ queue' = queue
    <3>1. request'[r].pc = "fetch"
      BY <1>0, <2>2, Becomes DEF Become, States
    <3> QED BY <1>1, <2>1, <2>2, <3>1
  <2>3. CASE request' = Become(r, "queue", k) /\ queue' = [queue EXCEPT ![ExchangeOf[k]] = Append(@, r)]
    <3>1. request'[r].key = k
      BY <1>0, <2>3, Becomes DEF Become, States
    <3>2. ASSUME NEW e \in Exchanges
          PROVE  /\ \A i \in DOMAIN queue[e] : i \in DOMAIN queue'[e] /\ queue'[e][i] = queue[e][i]
                 /\ e = ExchangeOf[k] => \E i \in DOMAIN queue'[e] : queue'[e][i] = r
      <4>1. queue[e] \in Seq(Clients) /\ Len(queue[e]) \in Nat
        BY <1>0
      <4>2. queue'[e] = IF e = ExchangeOf[k] THEN Append(queue[e], r) ELSE queue[e]
        BY <1>0, <2>3
      <4>3. CASE e # ExchangeOf[k]
        BY <4>2, <4>3
      <4>4. CASE e = ExchangeOf[k]
        <5>1. /\ queue'[e] = Append(queue[e], r)
              /\ DOMAIN queue[e] = 1 .. Len(queue[e]) /\ DOMAIN queue'[e] = 1 .. Len(queue[e]) + 1
              /\ queue'[e][Len(queue[e]) + 1] = r
              /\ \A i \in 1 .. Len(queue[e]) : queue'[e][i] = queue[e][i]
          BY <4>1, <4>2, <4>4
        <5>2. Len(queue[e]) + 1 \in DOMAIN queue'[e]
          BY <4>1, <5>1
        <5>3. \A i \in DOMAIN queue[e] : i \in DOMAIN queue'[e] /\ queue'[e][i] = queue[e][i]
          BY <4>1, <5>1
        <5> QED BY <5>1, <5>2, <5>3
      <4> QED BY <4>3, <4>4
    <3>3. CASE s = r
      BY <1>00, <3>1, <3>2, <3>3
    <3>4. CASE s # r
      <4>1. /\ request'[s] = request[s] /\ request[s].pc = "queue" /\ request[s].key \in Keys
            /\ InQueue(s, ExchangeOf[request[s].key])
        BY <2>1, <3>4 DEF Queues, IInv, Leads, Leading
      <4> QED BY <1>00, <3>2, <4>1 DEF InQueue
    <3> QED BY <3>3, <3>4
  <2> QED BY <1>3, <2>2, <2>3 DEF Lead
<1>4. ASSUME NEW e \in Exchanges, Admit(e) PROVE Goal
  <2> DEFINE r == Head(queue[e])
  <2>1. queue[e] \in Seq(Clients) /\ queue[e] # <<>> /\ r = queue[e][1] /\ r \in Clients
    BY <1>0, <1>4 DEF Admit
  <2>2. request' = [request EXCEPT ![r].pc = "fetch"] /\ queue' = [queue EXCEPT ![e] = Tail(@)]
    BY <1>4 DEF Admit
  <2> HIDE DEF r
  <2>3. s # r /\ request'[s] = request[s]
    BY <1>0, <2>1, <2>2 DEF Request
  <2>4. request[s].key \in Keys /\ InQueue(s, ExchangeOf[request[s].key])
    BY <2>3 DEF Queues, IInv, Leads, Leading
  <2> DEFINE f == ExchangeOf[request[s].key]
  <2>5. f \in Exchanges
    BY <1>00, <2>4
  <2>6. PICK i \in DOMAIN queue[f] : queue[f][i] = s
    BY <2>4 DEF InQueue
  <2>7. CASE f # e
    BY <1>0, <2>2, <2>3, <2>5, <2>6, <2>7
  <2>8. CASE f = e
    <3> HIDE DEF f
    <3>1. queue'[f] = Tail(queue[f])
      BY <1>0, <2>2, <2>5, <2>8
    <3>2. i # 1 /\ i \in 1 .. Len(queue[f]) /\ Len(queue[f]) \in Nat
      BY <2>1, <2>3, <2>6, <2>8
    <3>3. i - 1 \in DOMAIN Tail(queue[f]) /\ Tail(queue[f])[i - 1] = queue[f][(i - 1) + 1]
      BY <2>1, <2>8, <3>2
    <3>4. (i - 1) + 1 = i
      BY <3>2
    <3>5. \E j \in DOMAIN queue'[f] : queue'[f][j] = s
      BY <2>6, <3>1, <3>3, <3>4
    <3> QED BY <2>3, <3>5 DEF f
  <2> QED BY <2>7, <2>8
<1>5. ASSUME NEW r \in Clients, ExchangeReads(r) PROVE Goal
  <2>1. PICK p : request' = [request EXCEPT ![r].pc = "fetched", ![r].page = p]
    BY <1>5 DEF ExchangeReads
  <2>2. s # r /\ request'[s] = request[s]
    BY <1>0, <2>1 DEF Request
  <2> QED BY <1>1, <1>5, <2>2 DEF ExchangeReads
<1>6. ASSUME NEW r \in Clients, request' = Resolved(r) PROVE s # r /\ request'[s] = request[s]
  <2>1. Idle.pc = "idle"
    BY DEF Idle
  <2> QED BY <1>6, <2>1 DEF Resolved
<1>7. ASSUME NEW r \in Clients, Complete(r) \/ Raises(r) PROVE Goal
  BY <1>1, <1>6, <1>7 DEF Complete, Raises
<1>8. ASSUME NEW r \in Clients, CancelLeader(r) PROVE Goal
  <2>1. s # r /\ request'[s] = request[s]
    BY <1>6, <1>8 DEF CancelLeader
  <2>2. request[s].key \in Keys /\ InQueue(s, ExchangeOf[request[s].key]) /\ request[r].key \in Keys
    BY <1>8, <2>1 DEF Queues, IInv, Leads, Leading, CancelLeader
  <2> DEFINE f == ExchangeOf[request[s].key]
             e == ExchangeOf[request[r].key]
  <2>3. f \in Exchanges /\ e \in Exchanges
    BY <1>00, <2>2
  <2>4. queue' = [queue EXCEPT ![e] = Without(@, r)]
    BY <1>8 DEF CancelLeader
  <2>5. PICK i \in DOMAIN queue[f] : queue[f][i] = s
    BY <2>2 DEF InQueue
  <2> HIDE DEF e
  <2>6. \E j \in DOMAIN Without(queue[f], r) : Without(queue[f], r)[j] = s
    <3>1. queue[f] \in Seq(Clients) /\ \A j, n \in DOMAIN queue[f] : queue[f][j] = queue[f][n] => j = n
      BY <1>0, <2>3 DEF IInv, Waits
    <3> HIDE DEF f
    <3>2. \A j \in DOMAIN queue[f] : queue[f][j] # r =>
            \E n \in DOMAIN Without(queue[f], r) : Without(queue[f], r)[n] = queue[f][j]
      BY <3>1, WithoutFacts
    <3> QED BY <2>1, <2>5, <3>2
  <2>7. queue'[f] = IF f = e THEN Without(queue[f], r) ELSE queue[f]
    BY <1>0, <2>3, <2>4
  <2>8. \E j \in DOMAIN queue'[f] : queue'[f][j] = s
    BY <2>5, <2>6, <2>7
  <2> QED BY <2>1, <2>8
<1>9. ASSUME NEW r \in Clients, CancelWaiter(r) PROVE Goal
  <2>1. queue' = queue /\ request' = [request EXCEPT ![r] = Idle] /\ Idle.pc = "idle"
    BY <1>9 DEF CancelWaiter, Idle
  <2>2. s # r /\ request'[s] = request[s]
    BY <1>0, <2>1
  <2> QED BY <1>1, <2>1, <2>2
<1>10. CASE UNCHANGED <<request, queue>>
  BY <1>1, <1>10
<1> QED BY <1>2, <1>3, <1>4, <1>5, <1>7, <1>8, <1>9, <1>10 DEF Next, Work, Tick, Hit, LooseEnds, vars

(* Whatever is cancelled and whatever raises: who waits for the page of     *)
(* another request waits for one that leads, and who waits for a place is  *)
(* in the queue, where a place is free or taken by one that fetches another*)
(* page (get_page: _inflight, the semaphore, shield, CancelledError).      *)
THEOREM StrandedTheorem == Spec => []NobodyStranded
<1>1. Init => Answers /\ Queues
  BY DEF Init, Answers, Queues, Idle
<1>2. IInv /\ Answers /\ Queues => NobodyStranded
  <2> SUFFICES ASSUME IInv, Answers, Queues, NEW r \in Clients
               PROVE  /\ request[r].pc = "wait" =>
                           \E s \in Clients : Leading(s) /\ request[s].key = request[r].key
                      /\ request[r].pc = "queue" =>
                           LET e == ExchangeOf[request[r].key]
                           IN  /\ InQueue(r, e)
                               /\ \/ Cardinality(Fetching(e)) < Concurrency
                                  \/ \E s \in Fetching(e) : request[s].key # request[r].key
    BY DEF NobodyStranded
  <2>1. owner \in [Keys -> Clients \cup {NoOne}]
    BY DEF IInv, Types
  <2>2. ASSUME request[r].pc = "wait"
        PROVE  \E s \in Clients : Leading(s) /\ request[s].key = request[r].key
    BY <2>1, <2>2 DEF Answers, Leading
  <2>3. ASSUME request[r].pc = "queue", NEW e, e = ExchangeOf[request[r].key],
               ~(Cardinality(Fetching(e)) < Concurrency)
        PROVE  \E s \in Fetching(e) : request[s].key # request[r].key
    <3>1. Fetching(e) # {}
      BY <2>3, FS_EmptySet, Constant
    <3>2. PICK s \in Fetching(e) : TRUE
      BY <3>1
    <3>3. s \in Clients /\ s # r /\ Leading(s) /\ Leading(r)
      BY <2>3, <3>2 DEF Fetching, Leading
    <3>4. request[s].key # request[r].key
      BY <3>3 DEF IInv, Leads
    <3> QED BY <3>4
  <2> QED BY <2>2, <2>3 DEF Queues
<1> QED BY <1>1, <1>2, AnswersStep, QueuesStep, Invariant, PTL DEF Spec
=============================================================================
