----------------------------- MODULE SyncProofs -----------------------------
(***************************************************************************)
(* Proofs about the synchronisation: SyncTasks, that no tracked asset is   *)
(* left out of the tasks, and SyncScheduler, that a cron fires once for a  *)
(* moment and that a synchronisation does not move its next moment.        *)
(***************************************************************************)
EXTENDS SyncTasks, SyncScheduler, NumberLemmas

-----------------------------------------------------------------------------
(* The parts of the list: what Chunks and Slice do.                        *)

\* A division with a rest.
LEMMA DivFact ==
  ASSUME NEW n \in Nat, NEW d \in Nat \ {0}
  PROVE  /\ n \div d \in Nat
         /\ d * (n \div d) <= n
         /\ n < d * (n \div d) + d
OBVIOUS

\* A product grows with its factors.
LEMMA Grows ==
  ASSUME NEW a \in Nat, NEW b \in Nat, NEW c \in Nat, a <= b
  PROVE  a * c <= b * c
<1>1. PICK d \in Nat : b = a + d
  <2>1. b - a \in Nat /\ b = a + (b - a)
    OBVIOUS
  <2>. QED BY <2>1
<1>2. b * c = a * c + d * c /\ d * c \in Nat /\ a * c \in Nat
  BY <1>1
<1>. QED BY <1>2

\* The size of a part is large enough for all of them.
LEMMA SizeFact ==
  ASSUME NEW total \in Nat, NEW workers \in Nat \ {0}
  PROVE  LET size == (total + workers - 1) \div workers
         IN  size \in Nat /\ total <= workers * size
<1>1. total + workers - 1 \in Nat
  OBVIOUS
<1> DEFINE size == (total + workers - 1) \div workers
<1>2. /\ size \in Nat
      /\ total + workers - 1 < workers * size + workers
  BY <1>1, DivFact
<1>3. workers * size \in Nat
  BY <1>2
<1> HIDE DEF size
<1>4. total <= workers * size
  BY <1>2, <1>3
<1>. QED BY <1>2, <1>4 DEF size

\* A set of numbers that has with every number the smaller ones is 1 .. k.
LEMMA InitialSegment ==
  ASSUME NEW n \in Nat, NEW S \in SUBSET (1 .. n),
         \A i \in S : \A j \in 1 .. n : j <= i => j \in S
  PROVE  \E k \in Nat : S = 1 .. k
<1> DEFINE Bounds == {k \in Nat : \A i \in S : i <= k}
<1>1. n \in Bounds
  OBVIOUS
<1>2. PICK k \in Bounds : \A m \in Bounds : k <= m
  BY <1>1, LeastNumber
<1>3. k \in Nat /\ S \subseteq 1 .. k
  BY <1>2
<1>4. CASE k = 0
  <2>1. S = {} /\ 1 .. k = {}
    BY <1>3, <1>4
  <2>. QED BY <1>3, <2>1
<1>5. CASE k # 0
  <2>1. k - 1 \in Nat /\ k - 1 < k
    BY <1>3, <1>5
  <2>2. k - 1 \notin Bounds
    BY <1>2, <1>3, <2>1
  <2>3. PICK i \in S : ~(i <= k - 1)
    BY <2>1, <2>2
  <2>4. i = k
    BY <1>3, <2>1, <2>3
  <2>5. \A j \in 1 .. k : j \in S
    BY <1>3, <2>3, <2>4
  <2>. QED BY <1>3, <2>5
<1>. QED BY <1>4, <1>5

\* The parts are messages for an analysis that leave no number below total out.
LEMMA ChunksCover ==
  ASSUME NEW total \in Nat, NEW workers \in Nat \ {0}
  PROVE  /\ Chunks(total, workers) \in Seq(Task)
         /\ \A p \in Nat : p < total =>
              \E i \in DOMAIN Chunks(total, workers) :
                LET c == Chunks(total, workers)[i]
                IN  c.kind = "analysis" /\ c.offset <= p /\ p < c.offset + c.limit
<1> DEFINE size == (total + workers - 1) \div workers
           Filled == {i \in 1 .. workers : (i - 1) * size < total}
           Limit(i) == Min({size, total - (i - 1) * size})
           Part(i) == Analysis((i - 1) * size, Limit(i))
<1>1. size \in Nat /\ total <= workers * size
  BY SizeFact
<1>2. Chunks(total, workers) = [i \in Filled |-> Part(i)]
  BY DEF Chunks
<1> HIDE DEF size
<1>3. ASSUME NEW i \in 1 .. workers
      PROVE  i - 1 \in Nat /\ (i - 1) * size \in Nat
  BY <1>1, <1>3
<1>4. ASSUME NEW i \in Filled
      PROVE  Limit(i) \in Nat /\ (Limit(i) = size \/ Limit(i) = total - (i - 1) * size)
  <2>1. (i - 1) * size \in Nat /\ (i - 1) * size < total
    BY <1>3
  <2>2. \A a, b \in Nat : Min({a, b}) \in {a, b}
    BY MinOfTwo
  <2>. QED BY <1>1, <2>1, <2>2
<1>5. \E k \in Nat : Filled = 1 .. k
  <2>1. ASSUME NEW i \in Filled, NEW j \in 1 .. workers, j <= i
        PROVE  j \in Filled
    <3>1. i - 1 \in Nat /\ j - 1 \in Nat /\ j - 1 <= i - 1
      BY <2>1
    <3>2. (j - 1) * size <= (i - 1) * size
      BY <1>1, <3>1, Grows
    <3>3. (j - 1) * size \in Nat /\ (i - 1) * size \in Nat /\ (i - 1) * size < total
      BY <1>3
    <3>4. (j - 1) * size < total
      BY <3>2, <3>3
    <3>. QED BY <3>4
  <2>2. Filled \in SUBSET (1 .. workers)
    OBVIOUS
  <2> HIDE DEF Filled
  <2>. QED BY <2>1, <2>2, InitialSegment
<1>6. \A i \in Filled : Part(i) \in Task /\ Part(i).kind = "analysis"
                      /\ Part(i).offset = (i - 1) * size /\ Part(i).limit = Limit(i)
  <2> TAKE i \in Filled
  <2>1. (i - 1) * size \in Nat /\ Limit(i) \in Nat
    BY <1>3, <1>4
  <2> HIDE DEF Limit
  <2>. QED BY <2>1 DEF Analysis, Task, Kinds
<1>7. Chunks(total, workers) \in Seq(Task)
  <2>1. PICK k \in Nat : Filled = 1 .. k
    BY <1>5
  <2> DEFINE f == [i \in Filled |-> Part(i)]
  <2>2. f \in [1 .. k -> Task]
    BY <1>6, <2>1
  <2> HIDE DEF f
  <2>3. f \in Seq(Task)
    BY <2>2
  <2>. QED BY <1>2, <2>3 DEF f
<1>8. ASSUME NEW p \in Nat, p < total
      PROVE  \E i \in Filled : (i - 1) * size <= p /\ p < (i - 1) * size + Limit(i)
  <2>1. size # 0
    BY <1>1, <1>8
  <2>2. PICK d \in Nat : size * d <= p /\ p < size * d + size
    BY <1>1, <2>1, DivFact
  <2>3. d < workers
    <3>1. SUFFICES ASSUME workers <= d PROVE FALSE
      OBVIOUS
    <3>2. workers * size <= d * size
      BY <1>1, <3>1, Grows
    <3>. QED BY <1>1, <1>8, <2>2, <3>2
  <2>4. /\ d + 1 \in 1 .. workers /\ (d + 1) - 1 = d
        /\ d * size = size * d /\ d * size \in Nat
    BY <1>1, <2>3
  <2>5. ((d + 1) - 1) * size < total
    BY <1>1, <1>8, <2>2, <2>4
  <2>6. d + 1 \in Filled
    BY <2>4, <2>5
  <2>7. Limit(d + 1) = size \/ Limit(d + 1) = total - d * size
    BY <1>4, <2>4, <2>6
  <2> HIDE DEF Limit
  <2>. QED BY <1>1, <1>8, <2>2, <2>4, <2>6, <2>7
<1>9. DOMAIN Chunks(total, workers) = Filled
      /\ \A i \in Filled : Chunks(total, workers)[i] = Part(i)
  BY <1>2
<1> HIDE DEF Filled, Part, Limit
<1>. QED BY <1>6, <1>7, <1>8, <1>9

\* Whoever is in a list has a place before its end.
LEMMA SliceWhole ==
  ASSUME NEW ids \in SUBSET Assets
  PROVE  ids \subseteq Slice(ids, 0, Cardinality(ids)) /\ Cardinality(ids) \in Nat
<1>1. IsFiniteSet(ids)
  BY ConstantsAssumption, FS_Subset
<1>2. Cardinality(ids) \in Nat
  BY <1>1, FS_CardinalityType
<1>3. ASSUME NEW a \in ids PROVE a \in Slice(ids, 0, Cardinality(ids))
  <2> DEFINE Before == {b \in ids : b < a}
  <2>1. Before \subseteq ids /\ a \notin Before /\ a \in Nat
    BY ConstantsAssumption
  <2>2. IsFiniteSet(Before) /\ Cardinality(Before) \in Nat
    BY <1>1, <2>1, FS_Subset, FS_CardinalityType
  <2>3. Cardinality(Before) < Cardinality(ids)
    <3>1. Cardinality(Before) <= Cardinality(ids) /\ Cardinality(Before) # Cardinality(ids)
      BY <1>1, <2>1, FS_Subset
    <3>. QED BY <1>2, <2>2, <3>1
  <2>4. 0 <= Cardinality(Before) /\ Cardinality(Before) < 0 + Cardinality(ids)
    BY <1>2, <2>2, <2>3
  <2>. QED BY <2>4 DEF Slice
<1>. QED BY <1>2, <1>3

\* An edit at the end of the list moves nobody else.
LEMMA SliceKept ==
  ASSUME NEW ids \in SUBSET Assets, NEW a \in Assets, \A b \in ids : b <= a,
         NEW new, new = ids \ {a} \/ new = ids \cup {a},
         NEW x \in ids \ {a}, NEW offset, NEW limit, x \in Slice(ids, offset, limit)
  PROVE  x \in Slice(new, offset, limit)
<1>1. x \in Nat /\ a \in Nat /\ x <= a /\ \A b \in ids : b \in Nat
  BY ConstantsAssumption
<1>2. {b \in new : b < x} = {b \in ids : b < x}
  BY <1>1
<1>. QED BY <1>2 DEF Slice

\* What an analysis of a part computes, of the parts that share a list out.
LEMMA ChunksCompute ==
  ASSUME NEW ids \in SUBSET Assets, NEW total \in Nat, NEW workers \in Nat \ {0},
         NEW a \in Slice(ids, 0, total)
  PROVE  \E i \in DOMAIN Chunks(total, workers) :
           LET c == Chunks(total, workers)[i]
           IN  c.kind = "analysis" /\ a \in Slice(ids, c.offset, c.limit)
<1> DEFINE before == Cardinality({b \in ids : b < a})
<1>1. IsFiniteSet({b \in ids : b < a})
  BY ConstantsAssumption, FS_Subset
<1>2. before \in Nat /\ before < total /\ a \in ids
  BY <1>1, FS_CardinalityType DEF Slice
<1> DEFINE chunks == Chunks(total, workers)
<1> HIDE DEF chunks
<1>3. PICK i \in DOMAIN chunks :
        LET c == chunks[i]
        IN  c.kind = "analysis" /\ c.offset <= before /\ before < c.offset + c.limit
  BY <1>2, ChunksCover DEF chunks
<1>4. a \in Slice(ids, chunks[i].offset, chunks[i].limit)
  BY <1>2, <1>3 DEF Slice
<1>. QED BY <1>3, <1>4 DEF chunks

-----------------------------------------------------------------------------
(* The types.                                                              *)

\* How many workers the run may find free.
LEMMA AvailableFact == Available \subseteq Nat \ {0}
<1>1. IsFiniteSet(Nodes \ Busy)
  BY ConstantsAssumption, FS_Difference
<1>2. Cardinality(Nodes \ Busy) \in Nat
  BY <1>1, FS_CardinalityType
<1>3. \A n \in Nat : Max({1, n}) \in Nat \ {0}
  <2> TAKE n \in Nat
  <2>1. \E x \in {1, n} : \A y \in {1, n} : x >= y
    OBVIOUS
  <2>. QED BY <2>1 DEF Max
<1>. QED BY <1>2, <1>3 DEF Available

\* What a process holds.
LEMMA HeldFact ==
  ASSUME NEW h \in Held \cup {Free}
  PROVE  h # Free <=> h \in Held
BY DEF Held, Free

\* The messages an operator or a run sends.
LEMMA TaskFact ==
  /\ \A kind \in Kinds : Simple(kind) \in Task
  /\ \A p \in Asked : Analysis(p[1], p[2]) \in Task
<1>1. \A kind \in Kinds : Simple(kind) \in Task
  BY DEF Simple, Task
<1>2. ASSUME NEW p \in Asked PROVE p[1] \in Nat /\ p[2] \in Nat
  BY ConstantsAssumption
<1>3. \A p \in Asked : Analysis(p[1], p[2]) \in Task
  BY <1>2 DEF Analysis, Task, Kinds
<1>. QED BY <1>1, <1>3

\* What a run puts into the queue: some of its parts, or all of them.
LEMMA SendFact ==
  ASSUME TypeOK, NEW r \in Runs, SendChunks(r)
  PROVE  \E workers \in Nat \ {0}, parts \in Seq(Task) :
           /\ queue' = [queue EXCEPT !["analysis_queue"] = @ \o parts]
           /\ \/ owed' = owed
              \/ owed' = owed \cup listed[r] /\ parts = Chunks(count[r], workers)
<1>1. PICK workers \in Available :
        LET chunks == Chunks(count[r], workers)
        IN  \E sent \in (IF "send" \in Faults THEN 0 ELSE Len(chunks)) .. Len(chunks) :
              /\ queue' = [queue EXCEPT !["analysis_queue"] = @ \o SubSeq(chunks, 1, sent)]
              /\ owed' = IF sent = Len(chunks) THEN owed \cup listed[r] ELSE owed
  BY DEF SendChunks
<1>2. workers \in Nat \ {0}
  BY AvailableFact
<1> DEFINE chunks == Chunks(count[r], workers)
<1>3. chunks \in Seq(Task)
  BY <1>2, ChunksCover DEF TypeOK
<1> HIDE DEF chunks
<1>4. PICK sent \in (IF "send" \in Faults THEN 0 ELSE Len(chunks)) .. Len(chunks) :
        /\ queue' = [queue EXCEPT !["analysis_queue"] = @ \o SubSeq(chunks, 1, sent)]
        /\ owed' = IF sent = Len(chunks) THEN owed \cup listed[r] ELSE owed
  BY <1>1 DEF chunks
<1>5. sent \in 0 .. Len(chunks) /\ SubSeq(chunks, 1, sent) \in Seq(Task)
  BY <1>3, <1>4
<1>6. SubSeq(chunks, 1, Len(chunks)) = chunks
  BY <1>3
<1>7. \/ owed' = owed
      \/ owed' = owed \cup listed[r] /\ SubSeq(chunks, 1, sent) = chunks
  BY <1>4, <1>6
<1>. QED BY <1>2, <1>4, <1>5, <1>7 DEF chunks

LEMMA TypeStep == TypeOK /\ [Next]_vars => TypeOK'
<1> SUFFICES ASSUME TypeOK, [Next]_vars PROVE TypeOK'
  OBVIOUS
<1>1. CASE UNCHANGED vars
  BY <1>1 DEF vars, TypeOK
<1>2. ASSUME NEW q \in Queues, NEW task \in Task, Put(q, task)
      PROVE  queue' \in [Queues -> Seq(Task)]
  BY <1>2 DEF Put, TypeOK
<1>3. ASSUME SendsExchanges PROVE queue' \in [Queues -> Seq(Task)]
  <2>1. Simple("exchanges") \in Task /\ "sync_queue" \in Queues
    BY TaskFact DEF Kinds, Queues
  <2>. QED BY <1>2, <1>3, <2>1 DEF SendsExchanges, TypeOK
<1>4. ASSUME NEW r \in Runs, RunExchanges(r) \/ RunWorkflow(r) \/ RunAnalysis(r)
      PROVE  TypeOK'
  <2>1. queue' \in [Queues -> Seq(Task)]
    BY <1>3, <1>4 DEF RunExchanges, RunWorkflow, RunAnalysis, TypeOK
  <2>2. \E to \in {"idle", "check"} : Start(r, to)
    BY <1>4 DEF RunExchanges, RunWorkflow, RunAnalysis
  <2>. QED BY <2>1, <2>2, ConstantsAssumption DEF Start, TypeOK
<1>5. ASSUME NEW r \in Runs, CheckAnalysis(r) PROVE TypeOK'
  BY <1>5 DEF CheckAnalysis, TypeOK
<1>6. ASSUME NEW r \in Runs, ListTracked(r) PROVE TypeOK'
  <2>1. PICK ids \in {tracked} \cup (IF "list" \in Faults THEN {{}} ELSE {}) :
          /\ count' = [count EXCEPT ![r] = Cardinality(ids)]
          /\ listed' = [listed EXCEPT ![r] = ids]
          /\ pc' = [pc EXCEPT ![r] = IF ids = {} THEN "idle" ELSE "send"]
    BY <1>6 DEF ListTracked
  <2>3. ids \in SUBSET Assets
    BY <2>1 DEF TypeOK
  <2>2. Cardinality(ids) \in Nat
    BY <2>3, SliceWhole
  <2>. QED BY <1>6, <2>1, <2>2, <2>3 DEF ListTracked, TypeOK
<1>7. ASSUME NEW r \in Runs, SendChunks(r) PROVE TypeOK'
  <2>1. PICK parts \in Seq(Task) :
          /\ queue' = [queue EXCEPT !["analysis_queue"] = @ \o parts]
          /\ owed' \in {owed, owed \cup listed[r]}
    BY <1>7, SendFact
  <2>2. queue["analysis_queue"] \in Seq(Task)
    BY DEF TypeOK, Queues
  <2>3. queue' \in [Queues -> Seq(Task)]
    <3>1. queue["analysis_queue"] \o parts \in Seq(Task)
      BY <2>1, <2>2
    <3>. QED BY <2>1, <3>1 DEF TypeOK
  <2>4. owed' \subseteq Assets
    BY <2>1 DEF TypeOK
  <2>. QED BY <1>7, <2>3, <2>4 DEF SendChunks, TypeOK
<1>8. ASSUME PostSync \/ PostAnalysis PROVE TypeOK'
  <2>1. PICK task \in Task : Post(task)
    BY <1>8, TaskFact DEF PostSync, PostAnalysis, Kinds
  <2>2. queue' \in [Queues -> Seq(Task)]
    BY <1>2, <2>1 DEF Post, Queues
  <2>. QED BY <2>1, <2>2, ConstantsAssumption DEF Post, TypeOK
<1>9. ASSUME NEW a \in Assets, EditTracked(a) PROVE TypeOK'
  BY <1>9, ConstantsAssumption DEF EditTracked, TypeOK
<1>10. ASSUME NEW s \in Slots, NEW q \in Queues, Take(s, q) PROVE TypeOK'
  <2>1. queue[q] \in Seq(Task) /\ queue[q] # <<>>
    BY <1>10 DEF Take, TypeOK
  <2>2. Head(queue[q]) \in Task /\ Tail(queue[q]) \in Seq(Task)
    BY <2>1
  <2>3. slot' \in [Slots -> Held \cup {Free}]
    BY <1>10, <2>2 DEF Take, TypeOK, Held
  <2>. QED BY <1>10, <2>2, <2>3 DEF Take, TypeOK
<1>11. ASSUME NEW s \in Slots, Begin(s) PROVE TypeOK'
  <2>1. slot[s] \in Held
    BY <1>11, HeldFact DEF Begin, TypeOK
  <2>2. PICK todo \in SUBSET Assets :
          slot' = [slot EXCEPT ![s] = [@ EXCEPT !.stage = "work", !.todo = todo]]
    BY <1>11 DEF Begin, Slice, TypeOK
  <2>3. slot' \in [Slots -> Held \cup {Free}]
    BY <2>1, <2>2 DEF TypeOK, Held
  <2>. QED BY <1>11, <2>3 DEF Begin, TypeOK
<1>12. ASSUME NEW s \in Slots, Finish(s) PROVE TypeOK'
  BY <1>12 DEF Finish, TypeOK
<1>13. ASSUME NEW s \in Slots, Crash(s) PROVE TypeOK'
  <2>1. slot[s] \in Held
    BY <1>13, HeldFact DEF Crash, TypeOK
  <2>2. slot[s].task \in Task /\ slot[s].from \in Queues
    BY <2>1 DEF Held
  <2>3. queue' \in [Queues -> Seq(Task)]
    BY <1>13, <2>2 DEF Crash, TypeOK
  <2>. QED BY <1>13, <2>3, ConstantsAssumption DEF Crash, TypeOK
<1>. QED BY <1>1, <1>4, <1>5, <1>6, <1>7, <1>8, <1>9, <1>10, <1>11, <1>12, <1>13
         DEF Next, RunStep, Proceed, ProceedUnseen

-----------------------------------------------------------------------------
(* A task that is due stays due.                                           *)

\* An edit shifts no part of a sync that goes on, and no list is taken for empty.
Steady == ~Shifting /\ "read" \notin Faults

\* Messages that are added at the end of a queue leave the others in their place.
LEMMA DueGrows ==
  ASSUME NEW a, Due(a), tracked' = tracked, slot' = slot,
         \A q \in Queues : \A i \in DOMAIN queue[q] :
           i \in DOMAIN queue'[q] /\ queue'[q][i] = queue[q][i]
  PROVE  Due(a)'
BY DEF Due, Computes

LEMMA PutGrows ==
  ASSUME TypeOK, NEW q \in Queues, NEW task \in Task, Put(q, task)
  PROVE  \A p \in Queues : \A i \in DOMAIN queue[p] :
           i \in DOMAIN queue'[p] /\ queue'[p][i] = queue[p][i]
<1>1. queue \in [Queues -> Seq(Task)] /\ queue[q] \in Seq(Task)
  BY DEF TypeOK
<1>2. queue' = [queue EXCEPT ![q] = Append(queue[q], task)]
  BY DEF Put
<1>3. \A i \in DOMAIN queue[q] :
        i \in DOMAIN Append(queue[q], task) /\ Append(queue[q], task)[i] = queue[q][i]
  BY <1>1
<1>. QED BY <1>1, <1>2, <1>3

LEMMA SendsGrow ==
  ASSUME TypeOK, SendsExchanges \/ UNCHANGED queue
  PROVE  \A p \in Queues : \A i \in DOMAIN queue[p] :
           i \in DOMAIN queue'[p] /\ queue'[p][i] = queue[p][i]
<1>1. Simple("exchanges") \in Task /\ "sync_queue" \in Queues
  BY TaskFact DEF Kinds, Queues
<1>. QED BY <1>1, PutGrows DEF SendsExchanges

\* A process that takes a message computes what the message says.
LEMMA DueTake ==
  ASSUME TypeOK, NEW a, Due(a), NEW s \in Slots, NEW q \in Queues, Take(s, q)
  PROVE  Due(a)'
<1>1. /\ slot[s] = Free /\ queue[q] \in Seq(Task) /\ queue[q] # <<>>
      /\ queue' = [queue EXCEPT ![q] = Tail(queue[q])]
      /\ slot' = [slot EXCEPT ![s] =
           [stage |-> IF Head(queue[q]).kind = "analysis" THEN "wait" ELSE "work",
            task |-> Head(queue[q]), from |-> q, todo |-> {}]]
      /\ tracked' = tracked
  BY DEF Take, TypeOK
<1>2. queue \in [Queues -> Seq(Task)] /\ slot \in [Slots -> Held \cup {Free}]
  BY DEF TypeOK
<1>3. CASE \E p \in Queues : \E i \in DOMAIN queue[p] : Computes(queue[p][i], a)
  <2>1. PICK p \in Queues : \E i \in DOMAIN queue[p] : Computes(queue[p][i], a)
    BY <1>3
  <2>2. PICK i \in DOMAIN queue[p] : Computes(queue[p][i], a)
    BY <2>1
  <2>3. CASE p # q
    <3>1. queue'[p] = queue[p]
      BY <1>1, <1>2, <2>3
    <3>. QED BY <1>1, <2>2, <3>1 DEF Due, Computes
  <2>4. CASE p = q /\ i # 1
    <3>1. i \in 1 .. Len(queue[q]) /\ i - 1 \in 1 .. Len(queue[q]) - 1
      BY <1>1, <2>4
    <3>2. i - 1 \in DOMAIN Tail(queue[q]) /\ Tail(queue[q])[i - 1] = queue[q][i]
      BY <1>1, <3>1
    <3>3. queue'[q] = Tail(queue[q])
      BY <1>1, <1>2
    <3>. QED BY <1>1, <2>2, <2>4, <3>2, <3>3 DEF Due, Computes
  <2>5. CASE p = q /\ i = 1
    <3>1. Head(queue[q]) = queue[q][i]
      BY <1>1, <2>5
    <3>2. Head(queue[q]).kind = "analysis"
      BY <2>2, <2>5, <3>1 DEF Computes
    <3>3. slot'[s] = [stage |-> "wait", task |-> Head(queue[q]), from |-> q, todo |-> {}]
      BY <1>1, <1>2, <3>2
    <3>4. slot'[s] # Free /\ slot'[s].stage = "wait" /\ slot'[s].task = Head(queue[q])
      BY <3>3 DEF Free
    <3>5. LET t == slot'[s].task
          IN  t.kind = "analysis" /\ a \in Slice(tracked', t.offset, t.limit)
      BY <1>1, <2>2, <2>5, <3>1, <3>4 DEF Computes
    <3>. QED BY <3>4, <3>5 DEF Due, Computes
  <2>. QED BY <2>3, <2>4, <2>5
<1>4. ASSUME NEW p \in Slots, slot[p] # Free, Computes(slot[p].task, a),
             slot[p].stage = "work" => a \in slot[p].todo
      PROVE  Due(a)'
  <2>1. p # s /\ slot'[p] = slot[p]
    BY <1>1, <1>2, <1>4
  <2>. QED BY <1>1, <1>4, <2>1 DEF Due, Computes
<1>. QED BY <1>3, <1>4 DEF Due

\* A process that reads its part of the list has all of it to do.
LEMMA DueBegin ==
  ASSUME Steady, TypeOK, NEW a, Due(a), NEW s \in Slots, Begin(s)
  PROVE  Due(a)'
<1>1. slot[s] \in Held /\ slot \in [Slots -> Held \cup {Free}]
  BY HeldFact DEF Begin, TypeOK
<1> DEFINE task == slot[s].task
           todo == Slice(tracked, task.offset, task.limit)
<1>2. /\ slot' = [slot EXCEPT ![s] = [slot[s] EXCEPT !.stage = "work", !.todo = todo]]
      /\ UNCHANGED <<queue, tracked>>
  BY DEF Begin, Steady
<1> HIDE DEF todo
<1>3. slot'[s].task = task /\ slot'[s].todo = todo /\ slot'[s] # Free
  BY <1>1, <1>2 DEF Held, Free
<1>4. CASE \E p \in Queues : \E i \in DOMAIN queue[p] : Computes(queue[p][i], a)
  BY <1>2, <1>4 DEF Due, Computes
<1>5. ASSUME NEW p \in Slots, slot[p] # Free, Computes(slot[p].task, a),
             slot[p].stage = "work" => a \in slot[p].todo
      PROVE  Due(a)'
  <2>1. CASE p = s
    <3>1. a \in todo
      BY <1>5, <2>1 DEF Computes, todo
    <3>2. LET t == slot'[s].task
          IN  t.kind = "analysis" /\ a \in Slice(tracked', t.offset, t.limit)
      BY <1>2, <1>3, <1>5, <2>1 DEF Computes
    <3>. QED BY <1>3, <3>1, <3>2 DEF Due, Computes
  <2>2. CASE p # s
    <3>1. slot'[p] = slot[p]
      BY <1>1, <1>2, <2>2
    <3>. QED BY <1>2, <1>5, <3>1 DEF Due, Computes
  <2>. QED BY <2>1, <2>2
<1>. QED BY <1>4, <1>5 DEF Due

\* A task that ends has computed what it had to do.
LEMMA DueFinish ==
  ASSUME TypeOK, NEW a, Due(a), NEW s \in Slots, Finish(s), a \notin slot[s].todo
  PROVE  Due(a)'
<1>1. /\ slot[s].stage = "work" /\ slot' = [slot EXCEPT ![s] = Free]
      /\ UNCHANGED <<queue, tracked>> /\ slot \in [Slots -> Held \cup {Free}]
  BY DEF Finish, TypeOK
<1>2. CASE \E p \in Queues : \E i \in DOMAIN queue[p] : Computes(queue[p][i], a)
  BY <1>1, <1>2 DEF Due, Computes
<1>3. ASSUME NEW p \in Slots, slot[p] # Free, Computes(slot[p].task, a),
             slot[p].stage = "work" => a \in slot[p].todo
      PROVE  Due(a)'
  <2>1. p # s /\ slot'[p] = slot[p]
    BY <1>1, <1>3
  <2>. QED BY <1>1, <1>3, <2>1 DEF Due, Computes
<1>. QED BY <1>2, <1>3 DEF Due

\* The message of a lost process is first in its queue again.
LEMMA DueCrash ==
  ASSUME TypeOK, NEW a, Due(a), NEW s \in Slots, Crash(s)
  PROVE  Due(a)'
<1>1. slot[s] \in Held /\ slot \in [Slots -> Held \cup {Free}]
  BY HeldFact DEF Crash, TypeOK
<1> DEFINE task == slot[s].task
           from == slot[s].from
<1>2. task \in Task /\ from \in Queues /\ queue[from] \in Seq(Task)
  BY <1>1 DEF Held, TypeOK
<1>3. /\ queue' = [queue EXCEPT ![from] = <<task>> \o queue[from]]
      /\ slot' = [slot EXCEPT ![s] = Free] /\ tracked' = tracked
      /\ queue \in [Queues -> Seq(Task)]
  BY DEF Crash, TypeOK
<1> HIDE DEF task, from
<1>4. queue'[from] = <<task>> \o queue[from]
  BY <1>2, <1>3
<1>5. 1 \in DOMAIN queue'[from] /\ queue'[from][1] = task
  BY <1>2, <1>4
<1>6. \A i \in DOMAIN queue[from] :
        i + 1 \in DOMAIN queue'[from] /\ queue'[from][i + 1] = queue[from][i]
  BY <1>2, <1>4
<1>7. ASSUME NEW p \in Queues, NEW i \in DOMAIN queue[p], Computes(queue[p][i], a)
      PROVE  Due(a)'
  <2>1. CASE p = from
    <3>1. i + 1 \in DOMAIN queue'[from] /\ queue'[from][i + 1] = queue[p][i]
      BY <1>6, <1>7, <2>1
    <3>2. LET t == queue'[from][i + 1]
          IN  t.kind = "analysis" /\ a \in Slice(tracked', t.offset, t.limit)
      BY <1>3, <1>7, <3>1 DEF Computes
    <3>. QED BY <1>2, <3>1, <3>2 DEF Due, Computes
  <2>2. CASE p # from
    <3>1. queue'[p] = queue[p]
      BY <1>3, <2>2
    <3>. QED BY <1>3, <1>7, <3>1 DEF Due, Computes
  <2>. QED BY <2>1, <2>2
<1>8. ASSUME NEW p \in Slots, slot[p] # Free, Computes(slot[p].task, a),
             slot[p].stage = "work" => a \in slot[p].todo
      PROVE  Due(a)'
  <2>1. CASE p = s
    <3>1. LET t == queue'[from][1]
          IN  t.kind = "analysis" /\ a \in Slice(tracked', t.offset, t.limit)
      BY <1>3, <1>5, <1>8, <2>1 DEF Computes, task
    <3>. QED BY <1>2, <1>5, <3>1 DEF Due, Computes
  <2>2. CASE p # s
    <3>1. slot'[p] = slot[p]
      BY <1>1, <1>3, <2>2
    <3>. QED BY <1>3, <1>8, <3>1 DEF Due, Computes
  <2>. QED BY <2>1, <2>2
<1>. QED BY <1>7, <1>8 DEF Due

\* An edit behind the others moves none of them.
LEMMA DueEdit ==
  ASSUME TypeOK, NEW a \in Assets, EditTracked(a), \A b \in tracked : b <= a,
         NEW x, x # a, Due(x)
  PROVE  Due(x)'
<1>1. tracked \in SUBSET Assets /\ UNCHANGED <<queue, slot>>
  BY DEF EditTracked, TypeOK
<1>2. tracked' = tracked \ {a} \/ tracked' = tracked \cup {a}
  BY DEF EditTracked
<1>3. ASSUME NEW t, Computes(t, x) PROVE Computes(t, x)'
  <2>1. x \in tracked \ {a}
    BY <1>3 DEF Computes, Slice
  <2>. QED BY <1>1, <1>2, <1>3, <2>1, SliceKept DEF Computes
<1>. QED BY <1>1, <1>3 DEF Due

\* What a run sends out is due.
LEMMA DueSend ==
  ASSUME IInv, NEW r \in Runs, SendChunks(r), NEW a \in owed'
  PROVE  Due(a)'
<1>1. TypeOK
  BY DEF IInv
<1>2. PICK workers \in Nat \ {0}, parts \in Seq(Task) :
        /\ queue' = [queue EXCEPT !["analysis_queue"] = @ \o parts]
        /\ \/ owed' = owed
           \/ owed' = owed \cup listed[r] /\ parts = Chunks(count[r], workers)
  BY <1>1, SendFact
<1>3. /\ queue \in [Queues -> Seq(Task)] /\ queue["analysis_queue"] \in Seq(Task)
      /\ "analysis_queue" \in Queues /\ UNCHANGED <<tracked, slot>>
      /\ tracked \in SUBSET Assets /\ count[r] \in Nat
  BY <1>1 DEF SendChunks, TypeOK, Queues
<1> DEFINE before == queue["analysis_queue"]
<1>4. queue'["analysis_queue"] = before \o parts
  BY <1>2, <1>3
<1> HIDE DEF before
<1>5. CASE a \in owed
  <2>1. Due(a)
    BY <1>5 DEF IInv
  <2>2. \A i \in DOMAIN before : i \in DOMAIN (before \o parts) /\ (before \o parts)[i] = before[i]
    BY <1>2, <1>3 DEF before
  <2>3. \A q \in Queues : q # "analysis_queue" => queue'[q] = queue[q]
    BY <1>2, <1>3
  <2>4. \A q \in Queues : \A i \in DOMAIN queue[q] :
          i \in DOMAIN queue'[q] /\ queue'[q][i] = queue[q][i]
    BY <1>4, <2>2, <2>3 DEF before
  <2>. QED BY <1>3, <2>1, <2>4, DueGrows
<1>6. CASE a \in listed[r] /\ parts = Chunks(count[r], workers)
  <2>1. a \in Slice(tracked, 0, count[r])
    BY <1>6 DEF IInv, ListedFacts
  <2>2. PICK i \in DOMAIN parts :
          parts[i].kind = "analysis" /\ a \in Slice(tracked, parts[i].offset, parts[i].limit)
    BY <1>3, <1>6, <2>1, ChunksCompute
  <2>3. /\ Len(before) + i \in DOMAIN (before \o parts)
        /\ (before \o parts)[Len(before) + i] = parts[i]
    BY <1>2, <1>3, <2>2 DEF before
  <2>4. LET t == queue'["analysis_queue"][Len(before) + i]
        IN  t.kind = "analysis" /\ a \in Slice(tracked', t.offset, t.limit)
    BY <1>3, <1>4, <2>2, <2>3
  <2>. QED BY <1>3, <1>4, <2>3, <2>4 DEF Due, Computes
<1>. QED BY <1>2, <1>5, <1>6

-----------------------------------------------------------------------------
(* The inductive invariant.                                                *)

LEMMA InitInv == Init => IInv
<1> SUFFICES ASSUME Init PROVE IInv
  OBVIOUS
<1>1. TypeOK
  <2>1. 0 \in 0 .. MaxSends /\ 0 \in 0 .. MaxEdits /\ 0 \in 0 .. MaxCrashes
    BY ConstantsAssumption
  <2>. QED BY <2>1 DEF Init, TypeOK
<1>2. \A r \in Runs : ListedFacts(r)
  BY DEF Init, ListedFacts
<1>. QED BY <1>1, <1>2 DEF Init, IInv

\* The lists of the runs, when nobody edits and no run reads or sends.
LEMMA ListedKept ==
  ASSUME IInv, UNCHANGED <<tracked, count, listed>>,
         \A r \in Runs : pc'[r] = pc[r] \/ pc[r] # "send"
  PROVE  \A r \in Runs : ListedFacts(r)'
BY DEF IInv, ListedFacts

LEMMA StepInv == Steady /\ IInv /\ [Next]_vars => IInv'
<1> SUFFICES ASSUME Steady, IInv, [Next]_vars PROVE IInv'
  OBVIOUS
<1>1. TypeOK /\ TypeOK' /\ pc \in [Runs -> {"idle", "check", "list", "send"}]
  BY TypeStep DEF IInv, TypeOK
<1>2. \A a \in owed : Due(a)
  BY DEF IInv
<1> DEFINE Goal == (\A a \in owed' : Due(a)') /\ (\A r \in Runs : ListedFacts(r)')
<1>3. CASE UNCHANGED vars
  BY <1>3 DEF vars, IInv, TypeOK, Due, Computes, Held, Free, ListedFacts
<1>4. ASSUME NEW r \in Runs, RunExchanges(r) \/ RunWorkflow(r) \/ RunAnalysis(r)
      PROVE  Goal
  <2>1. PICK to \in {"idle", "check"} : Start(r, to)
    BY <1>4 DEF RunExchanges, RunWorkflow, RunAnalysis
  <2>2. SendsExchanges \/ UNCHANGED queue
    BY <1>4 DEF RunExchanges, RunWorkflow, RunAnalysis
  <2>3. \A a \in owed' : Due(a)'
    BY <1>1, <1>2, <2>1, <2>2, SendsGrow, DueGrows DEF Start
  <2>4. \A u \in Runs : pc'[u] = pc[u] \/ pc[u] # "send"
    BY <1>1, <2>1 DEF Start
  <2>. QED BY <2>1, <2>3, <2>4, ListedKept DEF Start
<1>5. ASSUME NEW r \in Runs, CheckAnalysis(r) PROVE Goal
  <2>1. \A a \in owed' : Due(a)'
    BY <1>2, <1>5, DueGrows DEF CheckAnalysis
  <2>2. \A u \in Runs : pc'[u] = pc[u] \/ pc[u] # "send"
    BY <1>1, <1>5 DEF CheckAnalysis
  <2>. QED BY <1>5, <2>1, <2>2, ListedKept DEF CheckAnalysis
<1>6. ASSUME NEW r \in Runs, ListTracked(r) PROVE Goal
  <2>1. \A a \in owed' : Due(a)'
    BY <1>2, <1>6, DueGrows DEF ListTracked
  <2>2. PICK ids \in {tracked} \cup (IF "list" \in Faults THEN {{}} ELSE {}) :
          /\ count' = [count EXCEPT ![r] = Cardinality(ids)]
          /\ listed' = [listed EXCEPT ![r] = ids]
          /\ pc' = [pc EXCEPT ![r] = IF ids = {} THEN "idle" ELSE "send"]
    BY <1>6 DEF ListTracked
  <2>3. /\ count' = [count EXCEPT ![r] = count'[r]] /\ count'[r] = Cardinality(ids)
        /\ listed'[r] = ids /\ pc'[r] = IF ids = {} THEN "idle" ELSE "send"
        /\ \A u \in Runs : u # r => count'[u] = count[u] /\ listed'[u] = listed[u] /\ pc'[u] = pc[u]
    BY <1>1, <2>2 DEF TypeOK
  <2>4. ids \subseteq Slice(tracked, 0, Cardinality(ids))
    BY <1>1, <2>2, SliceWhole DEF TypeOK
  <2>5. tracked' = tracked
    BY <1>6 DEF ListTracked
  <2>6. ListedFacts(r)'
    BY <2>3, <2>4, <2>5 DEF ListedFacts
  <2>7. ASSUME NEW u \in Runs, u # r PROVE ListedFacts(u)'
    BY <2>3, <2>5, <2>7 DEF ListedFacts, IInv
  <2>. QED BY <2>1, <2>6, <2>7
<1>7. ASSUME NEW r \in Runs, SendChunks(r) PROVE Goal
  <2>1. \A a \in owed' : Due(a)'
    BY <1>7, DueSend
  <2>2. /\ listed'[r] = {} /\ tracked' = tracked
        /\ \A u \in Runs : u # r => count'[u] = count[u] /\ listed'[u] = listed[u] /\ pc'[u] = pc[u]
    BY <1>1, <1>7 DEF SendChunks, TypeOK
  <2>. QED BY <2>1, <2>2 DEF ListedFacts, IInv
<1>8. ASSUME PostSync \/ PostAnalysis PROVE Goal
  <2>1. PICK task \in Task : Post(task)
    BY <1>8, TaskFact DEF PostSync, PostAnalysis, Kinds
  <2>2. \A a \in owed' : Due(a)'
    BY <1>1, <1>2, <2>1, PutGrows, DueGrows DEF Post, Queues
  <2>. QED BY <2>1, <2>2, ListedKept DEF Post
<1>9. ASSUME NEW a \in Assets, EditTracked(a) PROVE Goal
  <2>1. CASE Quiet
    <3>1. owed = {} /\ \A r \in Runs : listed[r] = {}
      BY <1>2, <2>1 DEF Quiet, Due, IInv, ListedFacts
    <3>2. owed' = {} /\ \A r \in Runs : listed'[r] = {}
      BY <1>9, <3>1 DEF EditTracked
    <3>. QED BY <3>2 DEF ListedFacts
  <2>2. CASE \A b \in tracked : b <= a
    <3>1. \A x \in owed' : Due(x)'
      <4> TAKE x \in owed'
      <4>1. x \in owed /\ x # a
        BY <1>9 DEF EditTracked
      <4>. QED BY <1>1, <1>2, <1>9, <2>2, <4>1, DueEdit
    <3>2. ASSUME NEW r \in Runs PROVE ListedFacts(r)'
      <4>1. /\ listed'[r] = listed[r] \ {a} /\ count'[r] = count[r] /\ pc'[r] = pc[r]
            /\ tracked' = tracked \ {a} \/ tracked' = tracked \cup {a}
        BY <1>9 DEF EditTracked
      <4>2. ASSUME NEW x \in listed'[r] PROVE x \in Slice(tracked', 0, count'[r])
        <5>1. x \in Slice(tracked, 0, count[r]) /\ x # a
          BY <4>1, <4>2 DEF IInv, ListedFacts
        <5>2. x \in tracked \ {a} /\ tracked \in SUBSET Assets
          BY <1>1, <5>1 DEF Slice, TypeOK
        <5>. QED BY <2>2, <4>1, <5>1, <5>2, SliceKept
      <4>. QED BY <4>1, <4>2 DEF IInv, ListedFacts
    <3>. QED BY <3>1, <3>2
  <2>. QED BY <1>9, <2>1, <2>2 DEF EditTracked, Steady
<1>10. ASSUME NEW s \in Slots, NEW q \in Queues, Take(s, q) PROVE Goal
  <2>1. \A a \in owed' : Due(a)'
    BY <1>1, <1>2, <1>10, DueTake DEF Take
  <2>. QED BY <1>10, <2>1, ListedKept DEF Take
<1>11. ASSUME NEW s \in Slots, Begin(s) PROVE Goal
  <2>1. \A a \in owed' : Due(a)'
    BY <1>1, <1>2, <1>11, DueBegin DEF Begin
  <2>. QED BY <1>11, <2>1, ListedKept DEF Begin
<1>12. ASSUME NEW s \in Slots, Finish(s) PROVE Goal
  <2>1. \A a \in owed' : Due(a)'
    <3> TAKE a \in owed'
    <3>1. a \in owed /\ a \notin slot[s].todo
      BY <1>12 DEF Finish
    <3>. QED BY <1>1, <1>2, <1>12, <3>1, DueFinish
  <2>. QED BY <1>12, <2>1, ListedKept DEF Finish
<1>13. ASSUME NEW s \in Slots, Crash(s) PROVE Goal
  <2>1. \A a \in owed' : Due(a)'
    BY <1>1, <1>2, <1>13, DueCrash DEF Crash
  <2>. QED BY <1>13, <2>1, ListedKept DEF Crash
<1>14. Goal => IInv'
  BY <1>1 DEF IInv
<1> HIDE DEF Goal
<1>. QED BY <1>3, <1>4, <1>5, <1>6, <1>7, <1>8, <1>9, <1>10, <1>11, <1>12, <1>13, <1>14
         DEF Next, RunStep, Proceed, ProceedUnseen

\* The messages and the processes always are what TypeOK says, with any edits
\* and faults.
THEOREM TypeCorrect == Spec => []TypeOK
<1>1. Init => TypeOK
  BY InitInv DEF IInv
<1>2. TypeOK /\ [Next]_vars => TypeOK'
  BY TypeStep
<1>. QED BY <1>1, <1>2, PTL DEF Spec

(* Whatever the numbers of assets, workers and processes, however the runs *)
(* overlap, and whichever processes are lost: an asset tracked ever since a*)
(* run read the list and sent out all of its parts is computed, or in the  *)
(* part of a task that still has to end (_run_technical_analysis_sync,     *)
(* _calculate_chunk_params, _assets_to_sync).                              *)
THEOREM SkippedTheorem == ASSUME Steady PROVE Spec => []NobodySkipped
<1>1. Init => IInv
  BY InitInv
<1>2. IInv /\ [Next]_vars => IInv'
  BY StepInv
<1>3. IInv => NobodySkipped
  <2> SUFFICES ASSUME IInv, NEW a \in owed PROVE a \in Covered
    BY DEF NobodySkipped
  <2>1. Due(a)
    BY DEF IInv
  <2>2. ASSUME NEW q \in Queues, NEW i \in DOMAIN queue[q], Computes(queue[q][i], a)
        PROVE  a \in Covered
    <3>1. queue[q][i] \in Range(queue[q])
      BY DEF Range
    <3>. QED BY <2>2, <3>1 DEF Covered, Computes
  <2>3. ASSUME NEW s \in Slots, slot[s] # Free, Computes(slot[s].task, a),
               slot[s].stage = "work" => a \in slot[s].todo
        PROVE  a \in Covered
    <3>1. slot[s].stage \in {"wait", "work"}
      BY <2>3, HeldFact DEF IInv, TypeOK, Held
    <3>2. CASE slot[s].stage = "wait"
      BY <2>3, <3>2 DEF Covered, Computes
    <3>3. CASE slot[s].stage = "work"
      BY <2>3, <3>3 DEF Covered
    <3>. QED BY <3>1, <3>2, <3>3
  <2>. QED BY <2>1, <2>2, <2>3 DEF Due
<1>. QED BY <1>1, <1>2, <1>3, PTL DEF Spec

-----------------------------------------------------------------------------
(* Nobody waits for ever: the part of TasksFinish that is no liveness.     *)

WorkLeft == (\E q \in Queues : queue[q] # <<>>) \/ (\E s \in Slots : slot[s] # Free)

\* The guards of Take, Proceed and Finish.
MayTake(s) == slot[s] = Free /\ \E q \in Queues : queue[q] # <<>>
MayProceed(s) == slot[s] # Free /\ slot[s].stage = "wait" /\ ~ActiveByName("exchanges")
MayFinish(s) == slot[s] # Free /\ slot[s].stage = "work"

NobodyBlocked == WorkLeft => \E s \in Slots : MayTake(s) \/ MayProceed(s) \/ MayFinish(s)

\* What an analysis waits for does not wait itself.
OnlyAnalysisWaits ==
  \A s \in Slots : slot[s] # Free /\ slot[s].stage = "wait" => slot[s].task.kind = "analysis"

LEMMA WaitsStep == TypeOK /\ OnlyAnalysisWaits /\ [Next]_vars => OnlyAnalysisWaits'
<1> SUFFICES ASSUME TypeOK, OnlyAnalysisWaits, [Next]_vars, NEW p \in Slots,
                    slot'[p] # Free, slot'[p].stage = "wait"
             PROVE  slot'[p].task.kind = "analysis"
  BY DEF OnlyAnalysisWaits
<1>1. CASE slot'[p] = slot[p]
  BY <1>1 DEF OnlyAnalysisWaits
<1>2. CASE UNCHANGED slot
  BY <1>1, <1>2
<1>3. ASSUME NEW s \in Slots, NEW q \in Queues, Take(s, q)
      PROVE  slot'[p].task.kind = "analysis"
  BY <1>1, <1>3 DEF Take, TypeOK
<1>4. ASSUME NEW s \in Slots, Begin(s) PROVE slot'[p].task.kind = "analysis"
  <2>1. slot[s] \in Held
    BY <1>4, HeldFact DEF Begin, TypeOK
  <2>. QED BY <1>1, <1>4, <2>1 DEF Begin, TypeOK, Held
<1>5. ASSUME NEW s \in Slots, Finish(s) \/ Crash(s) PROVE slot'[p].task.kind = "analysis"
  BY <1>1, <1>5 DEF Finish, Crash, TypeOK
<1>6. ASSUME NEW r \in Runs, RunExchanges(r) \/ RunWorkflow(r) \/ RunAnalysis(r) \/ RunStep(r)
      PROVE  UNCHANGED slot
  BY <1>6 DEF RunExchanges, RunWorkflow, RunAnalysis, RunStep, Start, CheckAnalysis, ListTracked,
              SendChunks
<1>7. ASSUME PostSync \/ PostAnalysis \/ \E a \in Assets : EditTracked(a) PROVE UNCHANGED slot
  BY <1>7 DEF PostSync, PostAnalysis, Post, EditTracked
<1>. QED BY <1>2, <1>3, <1>4, <1>5, <1>6, <1>7 DEF Next, Proceed, ProceedUnseen, vars

(* With one process or more, the workers never all wait for each other: as *)
(* long as a message is in the broker or a process holds a task, some      *)
(* process may take a message, go on with its analysis or end its task.    *)
(* An analysis that waits for the exchanges holds a process, also every    *)
(* one there is, but what it waits for holds one as well                   *)
(* (wait_for_dependencies, get_active_tasks_by_name).                      *)
THEOREM BlockedTheorem == ASSUME Slots # {} PROVE Spec => []NobodyBlocked
<1>1. Init => TypeOK /\ OnlyAnalysisWaits
  BY InitInv DEF IInv, Init, OnlyAnalysisWaits
<1>2. TypeOK /\ OnlyAnalysisWaits /\ [Next]_vars => (TypeOK /\ OnlyAnalysisWaits)'
  BY TypeStep, WaitsStep
<1>3. TypeOK /\ OnlyAnalysisWaits => NobodyBlocked
  <2> SUFFICES ASSUME TypeOK, OnlyAnalysisWaits, WorkLeft,
                      \A s \in Slots : ~MayTake(s) /\ ~MayFinish(s)
               PROVE  \E s \in Slots : MayProceed(s)
    BY DEF NobodyBlocked
  <2>1. PICK s \in Slots : slot[s] # Free
    BY DEF WorkLeft, MayTake
  <2>2. \A p \in Slots : slot[p] # Free => slot[p].stage = "wait"
    <3> SUFFICES ASSUME NEW p \in Slots, slot[p] # Free PROVE slot[p].stage = "wait"
      OBVIOUS
    <3>1. slot[p] \in Held
      BY HeldFact DEF TypeOK
    <3>. QED BY <3>1 DEF MayFinish, Held
  <2>. QED BY <2>1, <2>2 DEF MayProceed, ActiveByName, Holds, OnlyAnalysisWaits
<1>. QED BY <1>1, <1>2, <1>3, PTL DEF Spec

-----------------------------------------------------------------------------
(* The scheduler.                                                          *)

\* A cron that fired at this moment is not due again while the moment lasts.
NotDueAgain == \A c \in fired : job[c] # NoJob => job[c].wait > 0

CronInv == CronTypeOK /\ NotDueAgain

-----------------------------------------------------------------------------
(* What is left over of a number below D, and of that number and D.        *)
LEMMA Remainder ==
  ASSUME NEW D \in Nat \ {0}, NEW m \in 0 .. D - 1
  PROVE  m % D = m /\ (m + D) % D = m
  OBVIOUS

(* No rows are rows of no crons.                                           *)
LEMMA NothingIsRows == Nothing \in UNION {[ids -> Row] : ids \in SUBSET Crons}
<1>1. Nothing \in [{} -> Row] /\ {} \in SUBSET Crons
  BY DEF Nothing
<1> QED BY <1>1

(* Every moment of the day comes within a day from now.                    *)
LEMMA MomentComes ==
  ASSUME NEW m \in 0 .. Day - 1, time \in 0 .. Day - 1
  PROVE  \E d \in 1 .. Day : (time + d) % Day = m
<1> USE CronAssumption
<1>1. m % Day = m /\ (m + Day) % Day = m
  BY Remainder
<1>2. CASE m > time
  <2>1. m - time \in 1 .. Day /\ time + (m - time) = m
    BY <1>2
  <2> QED BY <1>1, <2>1
<1>3. CASE ~(m > time)
  <2>1. m - time + Day \in 1 .. Day /\ time + (m - time + Day) = m + Day
    BY <1>3
  <2> QED BY <1>1, <2>1
<1> QED BY <1>2, <1>3

(* A trigger's next moment is still to come, and comes within a day.       *)
LEMMA NextIsLater ==
  ASSUME NEW times \in Moments, time \in 0 .. Day - 1
  PROVE  /\ UntilNext(times) \in 1 .. Day
         /\ (time + UntilNext(times)) % Day \in times
         /\ \A e \in 1 .. UntilNext(times) - 1 : (time + e) % Day \notin times
<1> USE CronAssumption
<1> DEFINE T == {d \in 1 .. Day : (time + d) % Day \in times}
<1>1. times \subseteq 0 .. Day - 1 /\ times # {}
  OBVIOUS
<1>2. PICK m \in times : TRUE
  BY <1>1
<1>3. m \in 0 .. Day - 1
  BY <1>1
<1>4. PICK d \in 1 .. Day : (time + d) % Day = m
  BY <1>3, MomentComes
<1>5. T # {} /\ T \in SUBSET Nat
  <2>1. (time + d) % Day \in times
    BY <1>4, Zenon
  <2>2. d \in T
    BY <2>1, Zenon
  <2>3. ASSUME NEW x \in T PROVE x \in Nat
    BY <2>3
  <2> QED BY <2>2, <2>3, Zenon
<1> HIDE DEF T
<1>6. PICK x \in T : \A y \in T : x <= y
  BY <1>5, LeastNumber
<1>7. x \in 1 .. Day /\ (time + x) % Day \in times
  BY <1>6 DEF T
<1>8. \A e \in 1 .. x - 1 : (time + e) % Day \notin times
  <2> SUFFICES ASSUME NEW e \in 1 .. x - 1, (time + e) % Day \in times PROVE FALSE
    OBVIOUS
  <2>1. e \in 1 .. Day /\ e < x
    BY <1>7
  <2>2. e \in T
    BY <2>1 DEF T
  <2> QED BY <1>6, <1>7, <2>1, <2>2
<1> QED BY <1>7, <1>8 DEF UntilNext

-----------------------------------------------------------------------------
(* The start of the process is well typed.                                 *)
LEMMA CronInitially == CronInit => CronInv
<1> SUFFICES ASSUME CronInit PROVE CronInv
  OBVIOUS
<1> USE CronAssumption
<1>1. row \in [Crons -> Row \cup {NoRow, Gone}]
  BY DEF CronInit
<1>2. seen \in [Actors -> UNION {[ids -> Row] : ids \in SUBSET Crons}]
  BY NothingIsRows DEF CronInit
<1>3. at \in [Actors -> States] /\ method \in [CronRuns -> Methods]
  BY DEF CronInit, Booting, States
<1>4. time \in 0 .. Day - 1 /\ events \in Nat
  BY DEF CronInit
<1>5. job \in [Crons -> Job \cup {NoJob}] /\ up \in BOOLEAN /\ fired = {} /\ late = {}
  BY DEF CronInit
<1> QED BY <1>1, <1>2, <1>3, <1>4, <1>5 DEF CronInv, CronTypeOK, NotDueAgain

(* Writing a row keeps the types, whichever row it is.                     *)
LEMMA WriteKeeps ==
  ASSUME CronTypeOK, NEW c \in Crons, NEW r \in Row \cup {Gone}, Write(c, r)
  PROVE  CronTypeOK'
  BY DEF CronTypeOK, Write, Event

(* What a synchronisation schedules for a row is a job that is not due.    *)
LEMMA ScheduledIsJob ==
  ASSUME CronTypeOK, NEW c \in Crons, NEW r \in Row, NEW delay \in 0 .. Jitter,
         r.process \in Methods, ~Refused(r)
  PROVE  Scheduled(c, r, delay) \in Job /\ Scheduled(c, r, delay).wait > 0
<1> USE CronAssumption
<1>1. r.times \in Moments
  BY DEF Row, Refused
<1>2. UntilNext(r.times) \in 1 .. Day
  BY <1>1, NextIsLater DEF CronTypeOK
<1> DEFINE w == UntilNext(r.times) + delay
<1>3. w \in Nat /\ w > 0
  BY <1>2
<1>4. job[c] # NoJob => job[c].method \in Methods
  BY DEF CronTypeOK, Job
<1> HIDE DEF w
<1>5. Scheduled(c, r, delay) =
        [method |-> IF job[c] = NoJob THEN r.process ELSE job[c].method, times |-> r.times, wait |-> w]
  BY DEF Scheduled, w
<1> QED BY <1>1, <1>3, <1>4, <1>5 DEF Job

(* What a synchronisation does to the job of a cron.                       *)
LEMMA AppliedTo ==
  ASSUME CronTypeOK, NEW a \in Actors, SyncApply(a)
  PROVE  /\ job' \in [Crons -> Job \cup {NoJob}]
         /\ \A c \in Crons :
              \/ job'[c] \in {NoJob, job[c]}
              \/ /\ job'[c] \in Job /\ job'[c].wait > 0
                 /\ \E r \in Row, delay \in 0 .. Jitter :
                      /\ r.times \in Moments /\ job'[c] = Scheduled(c, r, delay)
<1> USE CronAssumption
<1>1. PICK delay \in [Crons -> 0 .. Jitter] :
        job' = [c \in Crons |->
          IF c \in Runnable(seen[a]) THEN Scheduled(c, seen[a][c], delay[c])
          ELSE IF c \notin DOMAIN seen[a] /\ Reached(seen[a]) = DOMAIN seen[a] THEN NoJob
          ELSE job[c]]
  BY DEF SyncApply
<1>2. PICK ids \in SUBSET Crons : seen[a] \in [ids -> Row]
  BY DEF CronTypeOK
<1>3. ASSUME NEW c \in Crons
      PROVE  /\ job'[c] \in Job \cup {NoJob}
             /\ \/ job'[c] \in {NoJob, job[c]}
                \/ /\ job'[c] \in Job /\ job'[c].wait > 0
                   /\ \E r \in Row, d \in 0 .. Jitter :
                        r.times \in Moments /\ job'[c] = Scheduled(c, r, d)
  <2>1. CASE c \in Runnable(seen[a])
    <3>1. c \in ids /\ ~Refused(seen[a][c]) /\ seen[a][c].process \in Methods
      BY <1>2, <2>1 DEF Runnable, Reached
    <3>2. seen[a][c] \in Row /\ delay[c] \in 0 .. Jitter
      BY <1>2, <3>1
    <3>3. job'[c] = Scheduled(c, seen[a][c], delay[c])
      BY <1>1, <2>1
    <3>4. seen[a][c].times \in Moments
      BY <3>1, <3>2 DEF Row, Refused
    <3>5. job'[c] \in Job /\ job'[c].wait > 0
      BY <3>1, <3>2, <3>3, ScheduledIsJob
    <3>6. \E r \in Row, d \in 0 .. Jitter : r.times \in Moments /\ job'[c] = Scheduled(c, r, d)
      BY <3>2, <3>3, <3>4, Zenon
    <3> QED BY <3>5, <3>6
  <2>2. CASE c \notin Runnable(seen[a])
    <3>1. job'[c] \in {NoJob, job[c]}
      BY <1>1, <2>2
    <3> QED BY <3>1 DEF CronTypeOK
  <2> QED BY <2>1, <2>2
<1>4. job' \in [Crons -> Job \cup {NoJob}]
  BY <1>1, <1>3
<1> QED BY <1>3, <1>4

(* A synchronisation makes no job due and leaves every job well typed.     *)
LEMMA ApplyKeeps ==
  ASSUME CronTypeOK, NotDueAgain, NEW a \in Actors, SyncApply(a)
  PROVE  CronTypeOK' /\ NotDueAgain'
<1> USE CronAssumption
<1>1. NotDueAgain'
  BY AppliedTo DEF NotDueAgain, CronTypeOK, SyncApply
<1>2. AfterSync(a) \in States
  BY DEF AfterSync, States
<1>3. Nothing \in UNION {[s -> Row] : s \in SUBSET Crons}
  BY NothingIsRows
<1>4. seen' \in [Actors -> UNION {[s -> Row] : s \in SUBSET Crons}]
  BY <1>3 DEF CronTypeOK, SyncApply
<1> QED BY <1>1, <1>2, <1>4, AppliedTo DEF CronTypeOK, SyncApply

(* A job that is submitted gets a moment that is still to come.            *)
LEMMA SubmitKeeps ==
  ASSUME CronTypeOK, NotDueAgain, NEW c \in Crons, Submit(c)
  PROVE  job' \in [Crons -> Job \cup {NoJob}] /\ NotDueAgain' /\ fired' \subseteq Crons
<1> USE CronAssumption
<1>1. PICK delay \in 0 .. Jitter : job' = [job EXCEPT ![c].wait = UntilNext(job[c].times) + delay]
  BY DEF Submit
<1>2. job[c] \in Job
  BY DEF Submit, DueJobs, CronTypeOK
<1>3. UntilNext(job[c].times) \in 1 .. Day
  BY <1>2, NextIsLater DEF CronTypeOK, Job
<1> DEFINE w == UntilNext(job[c].times) + delay
<1>4. w \in Nat /\ w > 0
  BY <1>3
<1> HIDE DEF w
<1>5. job' = [job EXCEPT ![c] = [job[c] EXCEPT !.wait = w]]
  BY <1>1 DEF w
<1>6. [job[c] EXCEPT !.wait = w] \in Job /\ [job[c] EXCEPT !.wait = w].wait = w
  BY <1>2, <1>4 DEF Job
<1>7. job' \in [Crons -> Job \cup {NoJob}]
  BY <1>5, <1>6 DEF CronTypeOK
<1>8. job'[c].wait > 0 /\ \A d \in Crons \ {c} : job'[d] = job[d]
  BY <1>4, <1>5, <1>6 DEF CronTypeOK
<1>9. fired' = fired \cup {c}
  BY DEF Submit
<1> QED BY <1>7, <1>8, <1>9 DEF NotDueAgain, CronTypeOK

(* A moment that passes brings every job nearer, and none below zero.      *)
LEMMA PassesKeeps ==
  ASSUME CronTypeOK, Passes
  PROVE  /\ time' \in 0 .. Day - 1 /\ job' \in [Crons -> Job \cup {NoJob}]
         /\ NotDueAgain' /\ fired' = {}
<1> USE CronAssumption
<1>1. time' \in 0 .. Day - 1
  BY DEF Passes, CronTypeOK
<1>2. ASSUME NEW c \in Crons PROVE job'[c] \in Job \cup {NoJob}
  <2>1. CASE up /\ job[c] # NoJob
    <3>1. job[c] \in Job /\ job[c].wait # 0
      BY <2>1 DEF CronTypeOK, Passes, LoopFree, DueJobs
    <3>2. job'[c] = [job[c] EXCEPT !.wait = @ - 1]
      BY <2>1 DEF Passes
    <3>3. job[c].wait - 1 \in Nat
      BY <3>1 DEF Job
    <3> QED BY <3>1, <3>2, <3>3 DEF Job
  <2>2. CASE ~(up /\ job[c] # NoJob)
    BY <2>2 DEF Passes, CronTypeOK
  <2> QED BY <2>1, <2>2
<1>3. job' \in [Crons -> Job \cup {NoJob}]
  BY <1>2 DEF Passes
<1> QED BY <1>1, <1>3 DEF Passes, NotDueAgain

(* The seeding at a start keeps the table one of rows.                     *)
LEMMA SeededIsTable ==
  ASSUME CronTypeOK, NEW t \in Seeded
  PROVE  t \in [Crons -> Row \cup {NoRow, Gone}]
<1>1. ASSUME NEW times \in Moments PROVE Daily(times) \in Row
  BY CronAssumption DEF Daily, Row
<1> QED BY <1>1 DEF Seeded, CronTypeOK

(* Every step keeps the invariant.                                         *)
LEMMA CronStep == CronInv /\ [CronNext]_cronVars => CronInv'
<1> SUFFICES ASSUME CronTypeOK, NotDueAgain, [CronNext]_cronVars PROVE CronInv'
  BY DEF CronInv
<1> USE CronAssumption
<1>1. CASE UNCHANGED cronVars
  BY <1>1 DEF cronVars, CronInv, CronTypeOK, NotDueAgain
<1>2. ASSUME NEW c \in Crons, NEW r \in Row \cup {Gone}, Write(c, r) PROVE CronInv'
  BY <1>2, WriteKeeps DEF Write, CronInv, NotDueAgain
<1>3. ASSUME NEW c \in Crons,
             CreateCronJob(c) \/ UpdateCronJob(c) \/ EnableCronJob(c) \/ DisableCronJob(c) \/ DeleteCronJob(c)
      PROVE  CronInv'
  <2>1. Exists(c) => \A b \in BOOLEAN : [row[c] EXCEPT !.enabled = b] \in Row
    BY DEF Exists, Row
  <2>2. \E r \in Row \cup {Gone} : Write(c, r)
    BY <1>3, <2>1 DEF CreateCronJob, UpdateCronJob, EnableCronJob, DisableCronJob, DeleteCronJob, Enabled
  <2> QED BY <1>2, <2>2
<1>4. ASSUME NEW a \in Actors, SyncRead(a) PROVE CronInv'
  <2>1. EnabledRows \in UNION {[ids -> Row] : ids \in SUBSET Crons}
    <3>1. EnabledRows \in [{d \in Crons : Enabled(d)} -> Row]
      BY DEF EnabledRows, Enabled, Exists
    <3> QED BY <3>1
  <2>2. Nothing \in UNION {[ids -> Row] : ids \in SUBSET Crons}
    BY NothingIsRows
  <2>3. seen' \in [Actors -> UNION {[ids -> Row] : ids \in SUBSET Crons}]
    BY <1>4, <2>1, <2>2 DEF SyncRead, CronTypeOK
  <2>4. events' \in Nat
    BY <1>4 DEF SyncRead, Event, CronTypeOK
  <2>5. at' \in [Actors -> States]
    BY <1>4 DEF SyncRead, CronTypeOK, States
  <2> QED BY <1>4, <2>3, <2>4, <2>5 DEF SyncRead, CronInv, CronTypeOK, NotDueAgain
<1>5. ASSUME NEW a \in Actors, SyncApply(a) PROVE CronInv'
  BY <1>5, ApplyKeeps DEF CronInv
<1>6. ASSUME NEW a \in Actors, SyncFails(a) PROVE CronInv'
  <2>1. AfterSync(a) \in States
    BY DEF AfterSync, States
  <2> QED BY <1>6, <2>1 DEF SyncFails, Event, CronInv, CronTypeOK, NotDueAgain
<1>7. CASE PeriodicSync
  BY <1>7 DEF PeriodicSync, CronInv, CronTypeOK, NotDueAgain, States, Actors
<1>8. ASSUME NEW c \in Crons, Fire(c) \/ FireSkipped(c) \/ FireMissed(c) PROVE CronInv'
  <2>1. Submit(c)
    BY <1>8 DEF Fire, FireSkipped, FireMissed
  <2>2. job' \in [Crons -> Job \cup {NoJob}] /\ NotDueAgain' /\ fired' \subseteq Crons
    BY <2>1, SubmitKeeps
  <2>3. job[c] \in Job
    BY <2>1 DEF Submit, DueJobs, CronTypeOK
  <2>4. at' \in [Actors -> States] /\ method' \in [CronRuns -> Methods]
    BY <1>8, <2>3 DEF Fire, FireSkipped, FireMissed, CronTypeOK, States, Job
  <2> QED BY <2>1, <2>2, <2>4 DEF Submit, CronInv, CronTypeOK
<1>9. CASE Tick
  BY <1>9, PassesKeeps DEF Tick, CronInv, CronTypeOK
<1>10. ASSUME NEW r \in CronRuns, Carried(r) \/ Stands(r) PROVE CronInv'
  <2>1. Over(r) /\ events' \in Nat
    BY <1>10 DEF Carried, Stands, Event, CronTypeOK
  <2>2. at' \in [Actors -> States] /\ method' \in [CronRuns -> Methods]
    BY <2>1 DEF Over, CronTypeOK, States
  <2>3. Passes \/ UNCHANGED <<time, job, fired>>
    BY <1>10 DEF Carried, Stands, HoldsLoop
  <2>4. late' \subseteq Crons
    BY <1>10 DEF Carried, Stands, HoldsLoop, DueJobs, CronTypeOK
  <2>5. /\ time' \in 0 .. Day - 1 /\ job' \in [Crons -> Job \cup {NoJob}]
        /\ NotDueAgain' /\ fired' \subseteq Crons
    <3>1. CASE Passes
      BY <3>1, PassesKeeps
    <3>2. CASE UNCHANGED <<time, job, fired>>
      BY <3>2 DEF CronTypeOK, NotDueAgain
    <3> QED BY <2>3, <3>1, <3>2
  <2> QED BY <2>1, <2>2, <2>4, <2>5 DEF Over, CronInv, CronTypeOK
<1>11. CASE Restart
  <2>1. row' \in [Crons -> Row \cup {NoRow, Gone}]
    BY <1>11, SeededIsTable DEF Restart
  <2>2. Booting \in [Actors -> States]
    BY DEF Booting, States
  <2>3. [a \in Actors |-> Nothing] \in [Actors -> UNION {[ids -> Row] : ids \in SUBSET Crons}]
    BY NothingIsRows
  <2>4. events' \in Nat /\ time' \in 0 .. Day - 1 /\ fired' \subseteq Crons /\ late' \subseteq Crons
    BY <1>11 DEF Restart, Event, CronTypeOK
  <2>5. job' \in [Crons -> Job \cup {NoJob}] /\ up' \in BOOLEAN /\ NotDueAgain'
    BY <1>11, <2>4 DEF Restart, NotDueAgain
  <2>6. at' \in [Actors -> States] /\ method' \in [CronRuns -> Methods]
    BY <1>11, <2>2 DEF Restart
  <2>7. seen' \in [Actors -> UNION {[ids -> Row] : ids \in SUBSET Crons}]
    BY <1>11, <2>3 DEF Restart
  <2> QED BY <2>1, <2>4, <2>5, <2>6, <2>7 DEF CronInv, CronTypeOK
<1> QED
  BY <1>1, <1>3, <1>4, <1>5, <1>6, <1>7, <1>8, <1>9, <1>10, <1>11 DEF CronNext

(* The invariant of the scheduler holds in every behaviour.                *)
LEMMA CronInvariant == CronSpec => []CronInv
BY CronInitially, CronStep, PTL DEF CronSpec

(* The types of the table, the scheduler and its coroutines.               *)
THEOREM CronTypes == CronSpec => []CronTypeOK
<1>1. CronInv => CronTypeOK
  BY DEF CronInv
<1> QED BY CronInvariant, <1>1, PTL

(* A cron fires at most once for a moment, whatever the synchronisations   *)
(* of its own run, of other runs and of the periodic job do meanwhile.     *)
THEOREM OncePerMoment == CronSpec => FiredOncePerMoment
<1>1. CronInv /\ [CronNext]_cronVars => [\A c \in fired : ~Submit(c)]_cronVars
  <2>1. CronInv => \A c \in fired : ~Submit(c)
    BY DEF CronInv, CronTypeOK, NotDueAgain, Submit, DueJobs, Job
  <2> QED BY <2>1
<1> QED BY CronInvariant, <1>1, PTL DEF CronSpec, FiredOncePerMoment

-----------------------------------------------------------------------------
(* Where no delay is drawn, a job waits for the next moment of its times,  *)
(* and there is no job before the scheduler is started.                    *)
WaitsForNext ==
  /\ \A c \in Crons : job[c] # NoJob /\ job[c].wait > 0 => job[c].wait = UntilNext(job[c].times)
  /\ ~up => /\ \A c \in Crons : job[c] = NoJob
            /\ \A a \in Actors \ {Startup} : at[a] = "idle"

\* UntilNext, of any moment.
NextAfter(t, times) ==
  CHOOSE d \in 1 .. Day :
    /\ (t + d) % Day \in times
    /\ \A e \in 1 .. d - 1 : (t + e) % Day \notin times

(* The next moment of a trigger is the only one that can be next.          *)
LEMMA NextIsUnique ==
  ASSUME NEW times, NEW t \in Nat, NEW d \in 1 .. Day,
         (t + d) % Day \in times,
         \A e \in 1 .. d - 1 : (t + e) % Day \notin times
  PROVE  NextAfter(t, times) = d
<1> DEFINE IsNext(x) == /\ (t + x) % Day \in times
                        /\ \A e \in 1 .. x - 1 : (t + e) % Day \notin times
<1>1. Day \in Nat
  BY CronAssumption
<1>2. ASSUME NEW x \in 1 .. Day, IsNext(x) PROVE x = d
  <2>1. ~(x < d)
    <3> SUFFICES ASSUME x < d PROVE FALSE
      OBVIOUS
    <3>1. x \in 1 .. d - 1
      BY <1>1
    <3> QED BY <1>2, <3>1
  <2>2. ~(d < x)
    <3> SUFFICES ASSUME d < x PROVE FALSE
      OBVIOUS
    <3>1. d \in 1 .. x - 1
      BY <1>1
    <3> QED BY <1>2, <3>1
  <2> QED BY <1>1, <2>1, <2>2
<1>3. IsNext(d)
  OBVIOUS
<1>4. NextAfter(t, times) = CHOOSE x \in 1 .. Day : IsNext(x)
  BY DEF NextAfter
<1> HIDE DEF IsNext
<1>5. (CHOOSE x \in 1 .. Day : IsNext(x)) = d
  BY <1>2, <1>3
<1> QED BY <1>4, <1>5

(* A moment that passes brings the next one nearer.                        *)
LEMMA NextComesNearer ==
  ASSUME NEW times \in Moments, time \in 0 .. Day - 1, time' = (time + 1) % Day,
         UntilNext(times) > 1
  PROVE  NextAfter(time', times) = UntilNext(times) - 1
<1> USE CronAssumption
<1> DEFINE u == UntilNext(times)
<1>1. /\ u \in 2 .. Day /\ (time + u) % Day \in times
      /\ \A e \in 1 .. u - 1 : (time + e) % Day \notin times
  BY NextIsLater
<1>2. time' \in 0 .. Day - 1
  OBVIOUS
<1>3. ASSUME NEW e \in 0 .. Day - 1 PROVE (time' + e) % Day = (time + (e + 1)) % Day
  <2> HIDE DEF u
  <2>1. CASE time + 1 < Day
    <3>1. time + 1 \in 0 .. Day - 1
      BY <2>1
    <3>2. (time + 1) % Day = time + 1
      BY <3>1, Remainder
    <3>3. time' + e = time + (e + 1)
      BY <3>2
    <3> QED BY <3>3
  <2>2. CASE time + 1 = Day
    <3>1. (0 + Day) % Day = 0 /\ 0 \in 0 .. Day - 1
      BY Remainder
    <3>2. time' = 0
      BY <2>2, <3>1
    <3>3. e % Day = e /\ (e + Day) % Day = e
      BY Remainder
    <3>4. time + (e + 1) = e + Day /\ time' + e = e
      BY <2>2, <3>2
    <3> QED BY <3>3, <3>4
  <2> QED BY <2>1, <2>2
<1> HIDE DEF u
<1>4. u - 1 \in 1 .. Day - 1 /\ (u - 1) + 1 = u
  BY <1>1
<1>5. (time' + (u - 1)) % Day \in times
  <2>1. u - 1 \in 0 .. Day - 1
    BY <1>4
  <2>2. (time' + (u - 1)) % Day = (time + ((u - 1) + 1)) % Day
    BY <1>3, <2>1
  <2> QED BY <1>1, <1>4, <2>2
<1>6. \A e \in 1 .. (u - 1) - 1 : (time' + e) % Day \notin times
  <2> SUFFICES ASSUME NEW e \in 1 .. (u - 1) - 1 PROVE (time' + e) % Day \notin times
    OBVIOUS
  <2>1. e \in 0 .. Day - 1 /\ e + 1 \in 1 .. u - 1
    BY <1>4
  <2> QED BY <1>1, <1>3, <2>1
<1>7. NextAfter(time', times) = u - 1
  <2>1. u - 1 \in 1 .. Day /\ time' \in Nat
    BY <1>2, <1>4
  <2> QED BY <1>5, <1>6, <2>1, NextIsUnique
<1> QED BY <1>7 DEF u

(* A synchronisation leaves what waits alone, and what it adds waits for   *)
(* its next moment.                                                        *)
LEMMA ApplyMoves ==
  ASSUME Jitter = 0, CronTypeOK, WaitsForNext, NEW a \in Actors, SyncApply(a), NEW c \in Crons,
         job'[c] # NoJob
  PROVE  /\ job'[c] = job[c] \/ job'[c].wait = UntilNext(job'[c].times)
         /\ job[c] # NoJob /\ job'[c].times = job[c].times => job'[c] = job[c]
<1>1. CASE job'[c] = job[c]
  BY <1>1
<1>2. CASE job'[c] # job[c]
  <2>1. PICK r \in Row, delay \in 0 .. Jitter :
          r.times \in Moments /\ job'[c] = Scheduled(c, r, delay)
    BY <1>2, AppliedTo
  <2> DEFINE w == UntilNext(r.times)
  <2>2. delay = 0 /\ w \in Nat
    BY <2>1, NextIsLater, CronAssumption DEF CronTypeOK
  <2> HIDE DEF w
  <2>3. w + delay = w
    BY <2>2
  <2>4. job'[c] = [method |-> IF job[c] = NoJob THEN r.process ELSE job[c].method,
                   times |-> r.times, wait |-> w]
    BY <2>1, <2>3 DEF Scheduled, w
  <2>5. job'[c].wait = UntilNext(job'[c].times)
    <3>1. job'[c].times = r.times /\ job'[c].wait = w
      BY <2>4
    <3> QED BY <3>1 DEF w
  <2>6. ASSUME job[c] # NoJob, job'[c].times = job[c].times PROVE job'[c] = job[c]
    <3>1. up /\ job[c] \in Job
      BY <2>6 DEF WaitsForNext, CronTypeOK
    <3>2. job[c].wait > 0
      BY <2>6, <3>1 DEF SyncApply, LoopFree, DueJobs, Job
    <3>3. job[c].wait = UntilNext(job[c].times)
      BY <2>6, <3>2 DEF WaitsForNext
    <3>4. r.times = job[c].times
      BY <2>4, <2>6
    <3>5. job[c].wait = w
      BY <3>3, <3>4 DEF w
    <3> QED BY <2>4, <2>6, <3>1, <3>4, <3>5 DEF Job
  <2> QED BY <2>5, <2>6
<1> QED BY <1>1, <1>2

(* A moment that passes keeps what the jobs wait for.                      *)
LEMMA PassesMoves ==
  ASSUME CronTypeOK, WaitsForNext, Passes, NEW c \in Crons, job'[c] # NoJob, job'[c].wait > 0
  PROVE  job'[c].wait = NextAfter(time', job'[c].times)
<1>1. up /\ job[c] \in Job
  BY DEF Passes, WaitsForNext, CronTypeOK
<1>2. job'[c] = [job[c] EXCEPT !.wait = @ - 1]
  BY <1>1, CronAssumption DEF Passes
<1>3. job[c].wait \in Nat /\ job'[c].wait = job[c].wait - 1 /\ job'[c].times = job[c].times
  BY <1>1, <1>2 DEF Job
<1>4. job[c].wait > 1 /\ job[c] # NoJob
  BY <1>1, <1>3, CronAssumption
<1>5. job[c].wait = UntilNext(job[c].times)
  BY <1>3, <1>4 DEF WaitsForNext
<1>6. job[c].times \in Moments /\ UntilNext(job[c].times) > 1
  BY <1>1, <1>4, <1>5 DEF Job
<1>7. NextAfter(time', job[c].times) = UntilNext(job[c].times) - 1
  BY <1>6, NextComesNearer DEF Passes, CronTypeOK
<1> QED BY <1>3, <1>5, <1>7

(* Every step keeps what the jobs wait for.                                *)
LEMMA MomentsStep == Jitter = 0 /\ CronInv /\ WaitsForNext /\ [CronNext]_cronVars => WaitsForNext'
<1> SUFFICES ASSUME Jitter = 0, CronTypeOK, WaitsForNext, [CronNext]_cronVars PROVE WaitsForNext'
  BY DEF CronInv
<1> USE CronAssumption
<1>1. ASSUME UNCHANGED <<time, job, up>>,
             ~up => \A a \in Actors \ {Startup} : at'[a] = "idle"
      PROVE  WaitsForNext'
  BY <1>1 DEF WaitsForNext, UntilNext
<1>2. CASE UNCHANGED cronVars \/ \E c \in Crons : \E r : Write(c, r)
  BY <1>1, <1>2 DEF cronVars, Write, WaitsForNext
<1>3. ASSUME NEW c \in Crons,
             CreateCronJob(c) \/ UpdateCronJob(c) \/ EnableCronJob(c) \/ DisableCronJob(c) \/ DeleteCronJob(c)
      PROVE  WaitsForNext'
  BY <1>2, <1>3 DEF CreateCronJob, UpdateCronJob, EnableCronJob, DisableCronJob, DeleteCronJob
<1>4. ASSUME NEW a \in Actors, SyncRead(a) PROVE WaitsForNext'
  <2>1. ~up => a = Startup
    BY <1>4 DEF SyncRead, WaitsForNext
  <2> QED BY <1>1, <1>4, <2>1 DEF SyncRead, WaitsForNext, CronTypeOK
<1>5. ASSUME NEW a \in Actors, SyncApply(a) PROVE WaitsForNext'
  <2>1. up' = TRUE
    BY <1>5 DEF SyncApply, WaitsForNext, CronTypeOK
  <2>2. ASSUME NEW c \in Crons, job'[c] # NoJob, job'[c].wait > 0
        PROVE  job'[c].wait = UntilNext(job'[c].times)
    BY <1>5, <2>2, ApplyMoves DEF WaitsForNext
  <2>3. time' = time
    BY <1>5 DEF SyncApply
  <2> QED BY <2>1, <2>2, <2>3 DEF WaitsForNext, UntilNext
<1>6. ASSUME NEW a \in Actors, SyncFails(a) PROVE WaitsForNext'
  <2>1. up' = TRUE /\ (~up => \A c \in Crons : job[c] = NoJob)
    BY <1>6 DEF SyncFails, WaitsForNext, CronTypeOK
  <2>2. UNCHANGED <<time, job>>
    BY <1>6 DEF SyncFails
  <2> QED BY <2>1, <2>2 DEF WaitsForNext, UntilNext
<1>7. CASE PeriodicSync
  BY <1>1, <1>7 DEF PeriodicSync
<1>8. ASSUME NEW c \in Crons, Fire(c) \/ FireSkipped(c) \/ FireMissed(c) PROVE WaitsForNext'
  <2>1. Submit(c)
    BY <1>8 DEF Fire, FireSkipped, FireMissed
  <2>2. up /\ up' = up /\ time' = time /\ job[c] \in Job
    BY <2>1 DEF Submit, DueJobs, CronTypeOK
  <2> DEFINE w == UntilNext(job[c].times)
  <2>3. w \in Nat
    BY <2>2, NextIsLater DEF Job, CronTypeOK
  <2> HIDE DEF w
  <2>4. job' = [job EXCEPT ![c].wait = w]
    <3>1. PICK delay \in 0 .. Jitter : job' = [job EXCEPT ![c].wait = w + delay]
      BY <2>1 DEF Submit, w
    <3>2. w + delay = w
      BY <2>3, <3>1
    <3> QED BY <3>1, <3>2
  <2>5. job' = [job EXCEPT ![c] = [job[c] EXCEPT !.wait = w]]
    BY <2>4
  <2>6. job'[c].wait = w /\ job'[c].times = job[c].times /\ \A d \in Crons \ {c} : job'[d] = job[d]
    BY <2>2, <2>5 DEF CronTypeOK, Job
  <2>7. job'[c].wait = UntilNext(job'[c].times)
    BY <2>6 DEF w
  <2> QED BY <2>2, <2>6, <2>7 DEF WaitsForNext, UntilNext
<1>9. CASE Passes /\ UNCHANGED up /\ (~up => \A a \in Actors \ {Startup} : at'[a] = "idle")
  <2>1. \A c \in Crons : job'[c] # NoJob /\ job'[c].wait > 0
                           => job'[c].wait = NextAfter(time', job'[c].times)
    BY <1>9, PassesMoves
  <2>2. ~up => \A c \in Crons : job'[c] = NoJob
    BY <1>9 DEF Passes, WaitsForNext
  <2> QED BY <1>9, <2>1, <2>2 DEF WaitsForNext, UntilNext, NextAfter
<1>10. CASE Tick
  BY <1>9, <1>10 DEF Tick, WaitsForNext
<1>11. ASSUME NEW r \in CronRuns, Carried(r) \/ Stands(r) PROVE WaitsForNext'
  <2>1. Over(r) /\ (Passes \/ UNCHANGED <<time, job>>)
    BY <1>11 DEF Carried, Stands, HoldsLoop
  <2>2. UNCHANGED up /\ (~up => \A a \in Actors \ {Startup} : at'[a] = "idle")
    BY <2>1 DEF Over, WaitsForNext, CronTypeOK
  <2> QED BY <1>1, <1>9, <2>1, <2>2
<1>12. CASE Restart
  BY <1>12 DEF Restart, WaitsForNext, Booting
<1> QED
  BY <1>2, <1>3, <1>4, <1>5, <1>6, <1>7, <1>8, <1>10, <1>11, <1>12 DEF CronNext

(* Where no delay is drawn (jitter is 0 in the seeded job and by default), *)
(* the synchronisations, which every run and the periodic job make, never  *)
(* move the next firing of a job whose times stay as they are, however     *)
(* many crons, moments and processes there are.                            *)
THEOREM KeepsMomentsTheorem == ASSUME Jitter = 0 PROVE CronSpec => SyncKeepsMoments
<1>1. CronInit => WaitsForNext
  BY DEF CronInit, WaitsForNext, Booting
<1>2. CronSpec => [](CronInv /\ WaitsForNext)
  BY <1>1, CronInvariant, MomentsStep, PTL DEF CronSpec
<1>3. CronInv /\ WaitsForNext /\ [CronNext]_cronVars
        => [\A a \in Actors : SyncApply(a) =>
              \A c \in Crons :
                job[c] # NoJob /\ job'[c] # NoJob /\ job'[c].times = job[c].times
                  => job'[c] = job[c]]_cronVars
  BY ApplyMoves DEF CronInv
<1> QED BY <1>2, <1>3, PTL DEF CronSpec, SyncKeepsMoments
=============================================================================
