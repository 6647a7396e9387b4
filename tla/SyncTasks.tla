------------------------------ MODULE SyncTasks ------------------------------
(***************************************************************************)
(* The tasks of the nightly synchronisation: the cron runs of              *)
(* main_controller_sync.py and the REST endpoints put them in the queues,  *)
(* the processes of the Celery workers take them.  An analysis task names  *)
(* its part of the tracked assets by an offset and a limit, and reads the  *)
(* table again when it starts.                                             *)
(*                                                                         *)
(* A run that inspects the workers and then sends is one step: between the *)
(* two only a worker can move, and its moves commute with the sending.     *)
(***************************************************************************)
EXTENDS Naturals, Sequences, FiniteSets, FiniteSetsExt, SequencesExt

CONSTANTS
  Assets,      \* ids in the order the table lists them
  Nodes,       \* the Celery workers
  Slots,       \* their processes, each runs one task
  NodeOf,      \* NodeOf[s]: the worker of process s
  Runs,        \* cron runs that may overlap, each of its own job
  Asked,       \* the offsets and limits an operator asks for
  MaxSends,    \* cron runs and requests in a behaviour
  MaxEdits,    \* changes of the tracked assets
  MaxCrashes,  \* lost processes
  Shifting,    \* whether an edit may shift the offsets of a sync that goes on
  Faults       \* what may fail: "inspect", "list", "send", "read"

ASSUME ConstantsAssumption ==
  /\ Assets \subseteq Nat /\ IsFiniteSet(Assets)
  /\ IsFiniteSet(Nodes) /\ Nodes # {}
  /\ IsFiniteSet(Slots) /\ NodeOf \in [Slots -> Nodes]
  /\ Asked \subseteq Nat \X (Nat \ {0})
  /\ {MaxSends, MaxEdits, MaxCrashes} \subseteq Nat
  /\ Shifting \in BOOLEAN
  /\ Faults \subseteq {"inspect", "list", "send", "read"}

\* sync_all does the work of sync_exchanges under another name.
Kinds == {"exchanges", "all", "analysis"}
\* Celery's own queue gets what the REST endpoints delay: no route has their names.
Queues == {"celery", "sync_queue", "analysis_queue"}

Task == [kind : Kinds, offset : Nat, limit : Nat]
Free == [stage |-> "free"]
Held == [stage : {"wait", "work"}, task : Task, from : Queues, todo : SUBSET Assets]

VARIABLES
  tracked,  \* the assets with patterns_sync
  queue,    \* queue[q]: the messages of the broker
  slot,     \* slot[s]: the task process s runs
  pc,       \* pc[r]: where cron run r is
  count,    \* count[r]: how many tracked assets run r read
  listed,   \* listed[r]: those of them that have been tracked ever since
  owed,     \* tracked ever since a run read them and sent them out, not computed yet
  sends, edits, crashes

vars == <<tracked, queue, slot, pc, count, listed, owed, sends, edits, crashes>>

TypeOK ==
  /\ tracked \subseteq Assets /\ owed \subseteq Assets
  /\ queue \in [Queues -> Seq(Task)]
  /\ slot \in [Slots -> Held \cup {Free}]
  /\ pc \in [Runs -> {"idle", "check", "list", "send"}]
  /\ count \in [Runs -> Nat] /\ listed \in [Runs -> SUBSET Assets]
  /\ sends \in 0 .. MaxSends /\ edits \in 0 .. MaxEdits /\ crashes \in 0 .. MaxCrashes

-----------------------------------------------------------------------------
\* ids[offset:offset + limit] of the ordered list.
Slice(ids, offset, limit) ==
  {a \in ids : LET before == Cardinality({b \in ids : b < a})
               IN  offset <= before /\ before < offset + limit}

Simple(kind) == [kind |-> kind, offset |-> 0, limit |-> 0]
Analysis(offset, limit) == [kind |-> "analysis", offset |-> offset, limit |-> limit]

Chunks_Floor(total, workers) ==  \* what does not divide evenly is left out
  LET size == total \div workers
  IN  [i \in 1 .. workers |-> Analysis((i - 1) * size, size)]

\* _calculate_chunk_params: equal parts rounded up, the last ones shorter or none.
Chunks(total, workers) ==
  LET size == (total + workers - 1) \div workers
      Filled == {i \in 1 .. workers : (i - 1) * size < total}
  IN  [i \in Filled |-> Analysis((i - 1) * size, Min({size, total - (i - 1) * size}))]

Holds(s, kind) == slot[s] # Free /\ slot[s].task.kind = kind

\* prevent_duplicate_tasks asks the workers, not the broker.  With one message
\* prefetched per process and late acknowledgements they hold only what they run.
Duplicate(kind) == \E s \in Slots : Holds(s, kind)

\* The check lets a run through also when nobody answers it.
MaySend(kind) == ~Duplicate(kind) \/ "inspect" \in Faults

Busy == {n \in Nodes : \E s \in Slots : NodeOf[s] = n /\ slot[s] # Free}

\* _get_available_celery_workers: at least one, two when it cannot know.
Available ==
  {Max({1, Cardinality(Nodes \ Busy)})} \cup (IF "inspect" \in Faults THEN {2} ELSE {})

Quiet ==
  /\ \A q \in Queues : queue[q] = <<>>
  /\ \A s \in Slots : slot[s] = Free
  /\ \A r \in Runs : pc[r] = "idle"

Init ==
  /\ tracked \in SUBSET Assets
  /\ queue = [q \in Queues |-> <<>>]
  /\ slot = [s \in Slots |-> Free]
  /\ pc = [r \in Runs |-> "idle"]
  /\ count = [r \in Runs |-> 0] /\ listed = [r \in Runs |-> {}]
  /\ owed = {}
  /\ sends = 0 /\ edits = 0 /\ crashes = 0

-----------------------------------------------------------------------------
(* The cron runs.  The loop serves another run only while one awaits the   *)
(* database.                                                               *)

Loop(r) == \A o \in Runs \ {r} : pc[o] # "check"
Put(q, task) == queue' = [queue EXCEPT ![q] = Append(@, task)]
Start(r, to) ==
  /\ pc[r] = "idle" /\ Loop(r)
  /\ sends < MaxSends /\ sends' = sends + 1
  /\ pc' = [pc EXCEPT ![r] = to]
  /\ UNCHANGED <<tracked, slot, count, listed, owed, edits, crashes>>

\* _run_exchanges_sync, behind its check
SendsExchanges ==
  \/ MaySend("exchanges") /\ Put("sync_queue", Simple("exchanges"))
  \/ Duplicate("exchanges") /\ UNCHANGED queue

RunExchanges(r) == Start(r, "idle") /\ SendsExchanges

\* run_full_sync_workflow: the exchanges, then the analysis
RunWorkflow(r) == Start(r, "check") /\ SendsExchanges

\* _run_technical_analysis_sync as a cron job of its own
RunAnalysis(r) == Start(r, "check") /\ UNCHANGED queue

CheckAnalysis(r) ==
  /\ pc[r] = "check"
  /\ \/ MaySend("analysis") /\ pc' = [pc EXCEPT ![r] = "list"]
     \/ Duplicate("analysis") /\ pc' = [pc EXCEPT ![r] = "idle"]
  /\ UNCHANGED <<tracked, queue, slot, count, listed, owed, sends, edits, crashes>>

\* get_patterns_sync_asset_ids, whose failure is an empty list
ListTracked(r) ==
  /\ pc[r] = "list"
  /\ \E ids \in {tracked} \cup (IF "list" \in Faults THEN {{}} ELSE {}) :
       /\ count' = [count EXCEPT ![r] = Cardinality(ids)]
       /\ listed' = [listed EXCEPT ![r] = ids]
       /\ pc' = [pc EXCEPT ![r] = IF ids = {} THEN "idle" ELSE "send"]
  /\ UNCHANGED <<tracked, queue, slot, owed, sends, edits, crashes>>

\* One message per chunk; an error of the broker ends the loop half way.
SendChunks(r) ==
  /\ pc[r] = "send" /\ Loop(r)
  /\ \E workers \in Available :
       LET chunks == Chunks(count[r], workers)
       IN  \E sent \in (IF "send" \in Faults THEN 0 ELSE Len(chunks)) .. Len(chunks) :
             /\ queue' = [queue EXCEPT !["analysis_queue"] = @ \o SubSeq(chunks, 1, sent)]
             /\ owed' = IF sent = Len(chunks) THEN owed \cup listed[r] ELSE owed
  /\ pc' = [pc EXCEPT ![r] = "idle"]
  /\ count' = [count EXCEPT ![r] = 0] /\ listed' = [listed EXCEPT ![r] = {}]
  /\ UNCHANGED <<tracked, slot, sends, edits, crashes>>

\* The REST endpoints send without a check.
Post(task) ==
  /\ sends < MaxSends /\ sends' = sends + 1
  /\ Put("celery", task)
  /\ UNCHANGED <<tracked, slot, pc, count, listed, owed, edits, crashes>>

PostSync == \E kind \in {"exchanges", "all"} : Post(Simple(kind))
PostAnalysis == \E p \in Asked : Post(Analysis(p[1], p[2]))

\* put_tracked_asset and delete_tracked_asset
EditTracked(a) ==
  /\ edits < MaxEdits /\ edits' = edits + 1
  /\ Shifting \/ Quiet \/ \A b \in tracked : b <= a
  /\ tracked' = IF a \in tracked THEN tracked \ {a} ELSE tracked \cup {a}
  /\ listed' = [r \in Runs |-> listed[r] \ {a}]
  /\ owed' = owed \ {a}
  /\ UNCHANGED <<queue, slot, pc, count, sends, crashes>>

-----------------------------------------------------------------------------
(* The processes of the workers.                                           *)

\* Only an analysis waits for others.
Take(s, q) ==
  /\ slot[s] = Free /\ queue[q] # <<>>
  /\ LET task == Head(queue[q])
     IN  slot' = [slot EXCEPT ![s] =
           [stage |-> IF task.kind = "analysis" THEN "wait" ELSE "work",
            task |-> task, from |-> q, todo |-> {}]]
  /\ queue' = [queue EXCEPT ![q] = Tail(@)]
  /\ UNCHANGED <<tracked, pc, count, listed, owed, sends, edits, crashes>>

ActiveByName_OrQueued(kind) ==  \* also what no worker has taken yet
  \/ \E s \in Slots : Holds(s, kind)
  \/ \E q \in Queues : \E i \in DOMAIN queue[q] : queue[q][i].kind = kind

\* get_active_tasks_by_name: the tasks the workers run.
ActiveByName(kind) == \E s \in Slots : Holds(s, kind)

\* wait_for_dependencies ends, and sync_technical_analysis reads its assets.
Begin(s) ==
  /\ slot[s] # Free /\ slot[s].stage = "wait"
  /\ \E todo \in {Slice(tracked, slot[s].task.offset, slot[s].task.limit)}
                 \cup (IF "read" \in Faults THEN {{}} ELSE {}) :
       slot' = [slot EXCEPT ![s] = [@ EXCEPT !.stage = "work", !.todo = todo]]
  /\ UNCHANGED <<tracked, queue, pc, count, listed, owed, sends, edits, crashes>>

Proceed(s) == ~ActiveByName("exchanges") /\ Begin(s)

\* No answer of the workers is taken for no active task.
ProceedUnseen(s) == "inspect" \in Faults /\ ActiveByName("exchanges") /\ Begin(s)

\* The task ends, with whatever result, and is acknowledged.
Finish(s) ==
  /\ slot[s] # Free /\ slot[s].stage = "work"
  /\ slot' = [slot EXCEPT ![s] = Free]
  /\ owed' = owed \ slot[s].todo
  /\ UNCHANGED <<tracked, queue, pc, count, listed, sends, edits, crashes>>

\* A lost process: what was not acknowledged goes back to its place in the queue.
Crash(s) ==
  /\ slot[s] # Free
  /\ crashes < MaxCrashes /\ crashes' = crashes + 1
  /\ queue' = [queue EXCEPT ![slot[s].from] = <<slot[s].task>> \o @]
  /\ slot' = [slot EXCEPT ![s] = Free]
  /\ UNCHANGED <<tracked, pc, count, listed, owed, sends, edits>>

-----------------------------------------------------------------------------
RunStep(r) == CheckAnalysis(r) \/ ListTracked(r) \/ SendChunks(r)

Next ==
  \/ \E r \in Runs : RunExchanges(r) \/ RunWorkflow(r) \/ RunAnalysis(r) \/ RunStep(r)
  \/ PostSync \/ PostAnalysis
  \/ \E a \in Assets : EditTracked(a)
  \/ \E s \in Slots : \/ \E q \in Queues : Take(s, q)
                      \/ Proceed(s) \/ ProceedUnseen(s) \/ Finish(s) \/ Crash(s)

\* A coroutine goes on, a free process takes a message, a task ends; the
\* waiting task polls, so its wait ends only when the wish stays fulfilled.
Fairness ==
  /\ \A r \in Runs : WF_vars(RunStep(r))
  /\ \A s \in Slots : /\ WF_vars(\E q \in Queues : Take(s, q))
                      /\ WF_vars(Proceed(s))
                      /\ WF_vars(Finish(s))

Spec == Init /\ [][Next]_vars
FairSpec == Spec /\ Fairness

-----------------------------------------------------------------------------
\* What the tasks that still have to end will compute.
Covered ==
  LET Queued == UNION {Range(queue[q]) : q \in Queues}
      Waiting == {slot[s].task : s \in {p \in Slots : slot[p] # Free /\ slot[p].stage = "wait"}}
      Working == {s \in Slots : slot[s] # Free /\ slot[s].stage = "work"}
  IN  (UNION {Slice(tracked, t.offset, t.limit) : t \in {u \in Queued \cup Waiting : u.kind = "analysis"}})
      \cup (UNION {slot[s].todo : s \in Working})

\* A tracked asset a run sent out is computed or is in a task still to end: the
\* chunks leave no asset between them, whatever the number of workers, and
\* a lost process leaves no hole, also when assets are added behind the others.
NobodySkipped == owed \subseteq Covered

(* The inductive invariant behind it.  A task computes an asset it has in  *)
(* its part of the table; one that works must have read it, too, so that   *)
(* its message will have it again if the process is lost.                  *)
Computes(task, a) == task.kind = "analysis" /\ a \in Slice(tracked, task.offset, task.limit)

Due(a) ==
  \/ \E q \in Queues : \E i \in DOMAIN queue[q] : Computes(queue[q][i], a)
  \/ \E s \in Slots : /\ slot[s] # Free /\ Computes(slot[s].task, a)
                      /\ slot[s].stage = "work" => a \in slot[s].todo

\* What a run has read is in the part of the table it will share out.
ListedFacts(r) ==
  /\ pc[r] # "send" => listed[r] = {}
  /\ listed[r] \subseteq Slice(tracked, 0, count[r])

IInv ==
  /\ TypeOK
  /\ \A a \in owed : Due(a)
  /\ \A r \in Runs : ListedFacts(r)

\* Every task ends: an analysis that waits for the exchanges holds a process,
\* but the exchanges it waits for hold one too, so they never need the same.
TasksFinish == <>[]Quiet

=============================================================================
