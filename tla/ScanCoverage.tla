---------------------------- MODULE ScanCoverage ----------------------------
(***************************************************************************)
(* GET /harmonics/{asset_id}/{interval} for one asset and interval: the    *)
(* API answers from the table of patterns and has the windows nobody       *)
(* scanned yet scanned by a Celery task; the table of scan windows says    *)
(* what is covered.  The nightly sync adds windows, the janitor merges     *)
(* them.                                                                   *)
(*                                                                         *)
(* Times are candles, counted from the first one of the asset; a pattern   *)
(* is the pair of its first and its last point.  Every pair no longer than *)
(* Span is taken for a pattern: what is lost for one is lost.              *)
(***************************************************************************)
EXTENDS Integers, FiniteSets

CONSTANTS
  Horizon,     \* the last candle that closes
  Start,       \* the last closed candle at the beginning
  Span,        \* MAX_PATTERN_CANDLES
  Pad,         \* PAD_CANDLES
  Page,        \* KLINES_PAGE
  Recent,      \* TechnicalAnalysis.CANDLES_COUNT
  Ranges,      \* ranges that are asked for
  Histories,   \* sets of windows that may have been scanned before
  Clients, TaskIds, NoTask,
  Faults, MaxFaults

Windows == {w \in (0..Horizon) \X (0..Horizon) : w[1] < w[2]}

ASSUME ConstantsAssumption ==
  /\ {Horizon, Start, Span, Pad, MaxFaults} \subseteq Nat /\ {Page, Recent} \subseteq Nat \ {0}
  /\ Start <= Horizon
  /\ Ranges \subseteq Windows
  /\ Histories \subseteq SUBSET {w \in Windows : w[2] <= Start}
  /\ NoTask \notin TaskIds

VARIABLES
  now,       \* the last closed candle
  rows,      \* technical_analysis_harmonic_scan_windows of the current params_hash
  stored,    \* technical_analysis_harmonic_patterns
  lost,      \* patterns a save left out whose error was swallowed
  inflight,  \* _inflight of the API process
  request,   \* request[c]: the request client c has last made
  task,      \* task[k]: a scan_harmonic_windows task
  sync,      \* the nightly sync of the asset and interval
  locked,    \* the rows compact has locked, {}: it does not run
  faults

vars == <<now, rows, stored, lost, inflight, request, task, sync, locked, faults>>

Patterns == {p \in Windows : p[2] - p[1] <= Span /\ Pad <= p[1]}

Inside(p, w) == w[1] <= p[1] /\ p[2] <= w[2]

Lower(m, n) == IF m < n THEN m ELSE n
Upper(m, n) == IF m < n THEN n ELSE m

\* Peaks need candles on both sides.
Found(candles) == {p \in Patterns : (p[1] - Pad)..(p[2] + Pad) \subseteq candles}

-----------------------------------------------------------------------------
\* The order of sorted().
Before(v, w) == v[1] < w[1] \/ (v[1] = w[1] /\ v[2] < w[2])

\* _merge opens a new chain at w.
StartsChain(w, W, overlap) == \A v \in W : Before(v, w) => w[1] > v[2] - overlap /\ w[2] > v[2]

Starts(W, overlap) == {w \in W : StartsChain(w, W, overlap)}

\* The windows of the chain that w opens: those before the next chain.
ChainOf(w, W, overlap) ==
  {v \in W : ~Before(v, w) /\ \A u \in Starts(W, overlap) : Before(w, u) => Before(v, u)}

Merge(W, overlap) ==
  UNION {LET chain == ChainOf(w, W, overlap)
         IN {<<w[1], v[2]>> : v \in {x \in chain : \A u \in chain : u[2] <= x[2]}} :
           w \in Starts(W, overlap)}

Clip(s, e, range) == {w \in {<<Upper(range[1], s), Lower(range[2], e)>>} : w[1] < w[2]}

\* The chains of scanned windows that touch the range.
Chains(range, scanned) == {c \in Merge(scanned, Span) : c[2] >= range[1] /\ c[1] <= range[2]}

\* cursor, after the chains C
Cursor(C) == CHOOSE e \in {d[2] : d \in C} : \A d \in C : d[2] <= e

\* The gap before chain c: at the start of the range, or after the chains before c.
GapBefore(c, chains, range) ==
  LET earlier == {d \in chains : Before(d, c)}
  IN CASE c[1] > range[1] /\ earlier = {} -> Clip(range[1], c[1] + Span, range)
       [] c[1] > range[1] /\ earlier # {} /\ Cursor(earlier) < range[2] ->
            Clip(Cursor(earlier) - Span, c[1] + Span, range)
       [] OTHER -> {}

\* Variant: the last gap is scanned from the end of what is covered.
GapAfter_Bare(chains, range) ==
  IF chains = {} THEN {range}
  ELSE IF Cursor(chains) < range[2] THEN Clip(Cursor(chains), range[2], range) ELSE {}

\* The gap at the end of the range, or the range.
GapAfter(chains, range) ==
  IF chains = {} THEN {range}
  ELSE IF Cursor(chains) < range[2] THEN Clip(Cursor(chains) - Span, range[2], range) ELSE {}

MissingWindows(range, scanned) ==
  LET chains == Chains(range, scanned)
  IN Merge((UNION {GapBefore(c, chains, range) : c \in chains}) \cup GapAfter(chains, range), 0)

-----------------------------------------------------------------------------
NoWindow == <<0, 0>>

IdleRequest == [pc |-> "idle", range |-> NoWindow, missing |-> {}, patterns |-> {}, current |-> NoTask]
IdleTask ==
  [pc |-> "none", message |-> {}, left |-> {}, window |-> NoWindow, pending |-> {}, candles |-> {}]
IdleSync == [pc |-> "idle", last |-> 0]

Requests ==
  [pc : {"idle", "read", "ensure", "state", "enqueue", "computing", "complete", "failed"},
   range    : Ranges \cup {NoWindow},
   missing  : SUBSET Windows,
   patterns : SUBSET Patterns,
   current  : TaskIds \cup {NoTask}]

Tasks ==
  [pc : {"none", "next", "fetch", "record", "success", "failure"},
   message : SUBSET Windows,                         \* the argument windows
   left    : SUBSET Windows,                         \* those not scanned yet
   window  : Windows \cup {NoWindow},
   pending : SUBSET ((0..Horizon) \X (0..Horizon)),  \* parts of the padded window to fetch
   candles : SUBSET (0..Horizon)]

TypeOK ==
  /\ now \in Start..Horizon
  /\ rows \in SUBSET Windows /\ locked \in SUBSET Windows
  /\ stored \in SUBSET Patterns /\ lost \in SUBSET Patterns
  /\ inflight \in TaskIds \cup {NoTask}
  /\ request \in [Clients -> Requests]
  /\ task \in [TaskIds -> Tasks]
  /\ sync \in [pc : {"idle", "save", "record", "done"}, last : 0..Horizon]
  /\ faults \in 0..MaxFaults

Init ==
  /\ now = Start
  /\ rows \in Histories
  /\ stored = {p \in Patterns : p[2] + Pad <= Start /\ \E w \in rows : Inside(p, w)}
  /\ lost = {}
  /\ inflight = NoTask
  /\ request = [c \in Clients |-> IdleRequest]
  /\ task = [k \in TaskIds |-> IdleTask]
  /\ sync = IdleSync
  /\ locked = {}
  /\ faults = 0

db == <<rows, stored, lost, locked>>
jobs == <<task, sync>>

CandleCloses ==
  /\ now < Horizon
  /\ now' = now + 1
  /\ UNCHANGED <<db, inflight, request, jobs, faults>>

-----------------------------------------------------------------------------
(* The API.  _inflight is looked up and written without a lock around the  *)
(* awaits in between.                                                      *)
\* get_overlapping, missing_windows
Ask(c, range) ==
  /\ request[c].pc \in {"idle", "complete"}
  /\ range[2] <= now
  /\ request' = [request EXCEPT ![c] = [IdleRequest EXCEPT !.pc = "read", !.range = range,
                                          !.missing = MissingWindows(range, rows)]]
  /\ UNCHANGED <<now, db, inflight, jobs, faults>>

\* The chart asks again after retry_after_ms.
AskAgain(c) ==
  /\ request[c].pc \in {"computing", "failed"}
  /\ request' = [request EXCEPT ![c] = [IdleRequest EXCEPT !.pc = "read", !.range = request[c].range,
                                          !.missing = MissingWindows(request[c].range, rows)]]
  /\ UNCHANGED <<now, db, inflight, jobs, faults>>

\* Variant: the last point must lie before the end of the range.
ReadPatterns_Strict(c) ==
  /\ request[c].pc = "read"
  /\ request' = IF request[c].missing # {} THEN [request EXCEPT ![c].pc = "ensure"]
                ELSE [request EXCEPT ![c].pc = "complete",
                                     ![c].patterns = {p \in stored : /\ Inside(p, request[c].range)
                                                                      /\ p[2] < request[c].range[2]}]
  /\ UNCHANGED <<now, db, inflight, jobs, faults>>

\* get_within_range; the patterns of an answer that is not complete are left out
ReadPatterns(c) ==
  /\ request[c].pc = "read"
  /\ request' = IF request[c].missing # {} THEN [request EXCEPT ![c].pc = "ensure"]
                ELSE [request EXCEPT ![c].pc = "complete",
                                     ![c].patterns = {p \in stored : Inside(p, request[c].range)}]
  /\ UNCHANGED <<now, db, inflight, jobs, faults>>

\* _ensure_scan up to its first await
Ensure(c) ==
  /\ request[c].pc = "ensure"
  /\ request' = [request EXCEPT ![c].current = inflight,
                                ![c].pc = IF inflight = NoTask THEN "enqueue" ELSE "state"]
  /\ UNCHANGED <<now, db, inflight, jobs, faults>>

Unfinished(k) == task[k].pc \notin {"none", "success", "failure"}

Reply(c, answer) == [IdleRequest EXCEPT !.pc = answer, !.range = request[c].range]

StillComputing(c) ==
  /\ request[c].pc = "state"
  /\ Unfinished(request[c].current)
  /\ request' = [request EXCEPT ![c] = Reply(c, "computing")]
  /\ UNCHANGED <<now, db, inflight, jobs, faults>>

\* Variant: the slot is kept.
NotComputing_Kept(c) ==
  /\ request[c].pc = "state"
  /\ ~Unfinished(request[c].current)
  /\ request' = [request EXCEPT ![c] = Reply(c, "computing")]
  /\ UNCHANGED <<now, db, inflight, jobs, faults>>

\* The slot is freed, whoever holds it by now.
NotComputing(c) ==
  /\ request[c].pc = "state"
  /\ ~Unfinished(request[c].current)
  /\ inflight' = NoTask
  /\ request' = IF task[request[c].current].pc = "failure"
                THEN [request EXCEPT ![c] = Reply(c, "failed")]
                ELSE [request EXCEPT ![c].pc = "enqueue", ![c].current = NoTask]
  /\ UNCHANGED <<now, db, jobs, faults>>

\* A record of TaskIds nobody needs stands for a new task.
Free(k) == ~Unfinished(k) /\ k # inflight /\ \A c \in Clients : request[c].current # k

EnqueueScan(c, k) ==
  /\ request[c].pc = "enqueue"
  /\ Free(k)
  /\ task' = [task EXCEPT ![k] = [IdleTask EXCEPT !.pc = "next", !.message = request[c].missing,
                                               !.left = request[c].missing]]
  /\ inflight' = k
  /\ request' = [request EXCEPT ![c] = Reply(c, "computing")]
  /\ UNCHANGED <<now, db, sync, faults>>

-----------------------------------------------------------------------------
(* The worker: scan_windows.                                               *)
worker == <<now, locked, lost, inflight, request, sync, faults>>

PaddedWindow(w) == <<Upper(0, w[1] - Pad), Lower(w[2] + Pad, now)>>

NextWindow(k) ==
  /\ task[k].pc = "next"
  /\ IF task[k].left = {}
     THEN task' = [task EXCEPT ![k] = [IdleTask EXCEPT !.pc = "success"]]
     ELSE \E w \in task[k].left :
            /\ \A v \in task[k].left : ~Before(v, w)
            /\ task' = [task EXCEPT ![k].pc = "fetch", ![k].window = w,
                                    ![k].pending = {PaddedWindow(w)}, ![k].candles = {}]
  /\ UNCHANGED <<worker, rows, stored>>

\* Variant: exchanges return the newest candles of the part.
Rest_Older(part, page) ==
  IF Cardinality(page) < Page THEN {}
  ELSE {r \in {<<part[1], lo - 1>> : lo \in {m \in page : \A n \in page : m <= n}} : r[1] <= r[2]}

\* What is left of a part after a full page: exchanges differ in the side.
Rest(part, page) ==
  IF Cardinality(page) < Page THEN {}
  ELSE {r \in {<<part[1], lo - 1>> : lo \in {m \in page : \A n \in page : m <= n}}
              \cup {<<hi + 1, part[2]>> : hi \in {m \in page : \A n \in page : n <= m}} :
          r[1] <= r[2]}

Pages(part) ==
  LET closed == part[1]..Lower(part[2], now)
  IN IF Cardinality(closed) <= Page THEN {closed}
     ELSE {part[1]..(part[1] + Page - 1),
           (Lower(part[2], now) - Page + 1)..Lower(part[2], now)}

\* fetch_klines_range: the loop over pending
FetchPage(k) ==
  /\ task[k].pc = "fetch" /\ task[k].pending # {}
  /\ \E part \in task[k].pending :
       /\ \A other \in task[k].pending : other[1] <= part[1]
       /\ \E page \in Pages(part) :
            task' = [task EXCEPT ![k].candles = @ \cup page,
                                 ![k].pending = (@ \ {part}) \cup Rest(part, page)]
  /\ UNCHANGED <<worker, rows, stored>>

\* calculate_patterns, patterns_inside, PatternStore.save
SavePatterns(k) ==
  /\ task[k].pc = "fetch" /\ task[k].pending = {}
  /\ stored' = stored \cup {p \in Found(task[k].candles) : Inside(p, task[k].window)}
  /\ task' = [task EXCEPT ![k].pc = "record", ![k].candles = {}]
  /\ UNCHANGED <<worker, rows>>

WindowDone(k) ==
  task' = [task EXCEPT ![k].pc = "next", ![k].left = @ \ {task[k].window}, ![k].window = NoWindow]

RecordWindow(k) ==
  /\ task[k].pc = "record"
  /\ rows' = rows \cup {task[k].window}
  /\ WindowDone(k)
  /\ UNCHANGED <<worker, stored>>

-----------------------------------------------------------------------------
(* One nightly sync: the last Recent candles, one page; record_window      *)
(* takes the last of them for closed if it has closed by then.             *)
SyncFetch ==
  /\ sync.pc = "idle"
  /\ sync' = [pc |-> "save", last |-> now]
  /\ UNCHANGED <<now, db, inflight, request, task, faults>>

SyncSave ==
  /\ sync.pc = "save"
  /\ stored' = stored \cup Found(Upper(0, sync.last - Recent + 2)..sync.last)
  /\ sync' = [sync EXCEPT !.pc = "record"]
  /\ UNCHANGED <<now, rows, lost, locked, inflight, request, task, faults>>

SyncWindow == <<Upper(0, sync.last - Recent + 2) + Pad, Lower(now, sync.last + 1)>>

SyncRecord ==
  /\ sync.pc = "record"
  /\ rows' = rows \cup {w \in {SyncWindow} : w[1] < w[2]}
  /\ sync' = [pc |-> "done", last |-> 0]
  /\ UNCHANGED <<now, stored, lost, locked, inflight, request, task, faults>>

-----------------------------------------------------------------------------
(* The janitor merges rows in one transaction; what is inserted meanwhile  *)
(* is not locked.                                                          *)
CompactRead ==
  /\ locked = {} /\ Cardinality(Merge(rows, Span)) < Cardinality(rows)
  /\ locked' = rows
  /\ UNCHANGED <<now, rows, stored, lost, inflight, request, jobs, faults>>

\* Variant: everything of the group is deleted, not only what was read.
CompactCommit_Group ==
  /\ locked # {}
  /\ rows' = Merge(locked, Span)
  /\ locked' = {}
  /\ UNCHANGED <<now, stored, lost, inflight, request, jobs, faults>>

CompactCommit ==
  /\ locked # {}
  /\ rows' = (rows \ locked) \cup Merge(locked, Span)
  /\ locked' = {}
  /\ UNCHANGED <<now, stored, lost, inflight, request, jobs, faults>>

-----------------------------------------------------------------------------
CountFault(kind) ==
  /\ kind \in Faults /\ faults < MaxFaults
  /\ faults' = faults + 1
  /\ UNCHANGED <<now, locked, sync>>

\* A worker dies: acks_late and reject_on_worker_lost bring the task back.
Redeliver(k) ==
  /\ task[k].pc \in {"next", "fetch", "record"}
  /\ task' = [task EXCEPT ![k] = [IdleTask EXCEPT !.pc = "next", !.message = task[k].message,
                                               !.left = task[k].message]]
  /\ CountFault("crash") /\ UNCHANGED <<rows, stored, lost, inflight, request>>

\* The exchange raises: the task fails.
FetchRaises(k) ==
  /\ task[k].pc = "fetch" /\ task[k].pending # {}
  /\ task' = [task EXCEPT ![k] = [IdleTask EXCEPT !.pc = "failure"]]
  /\ CountFault("raise") /\ UNCHANGED <<rows, stored, lost, inflight, request>>

\* windows_table.create logs the error.
RecordFails(k) ==
  /\ task[k].pc = "record"
  /\ WindowDone(k)
  /\ CountFault("record") /\ UNCHANGED <<rows, stored, lost, inflight, request>>

\* PatternStore.save logs the error and returns as if it had saved.
SaveFails(k) ==
  /\ task[k].pc = "fetch" /\ task[k].pending = {}
  /\ task' = [task EXCEPT ![k].pc = "record", ![k].candles = {}]
  /\ lost' = lost \cup ({p \in Found(task[k].candles) : Inside(p, task[k].window)} \ stored)
  /\ CountFault("save") /\ UNCHANGED <<rows, stored, inflight, request>>

\* The same in the sync, whose window is recorded all the same.
SyncSaveFails ==
  /\ sync.pc = "save" /\ "save" \in Faults /\ faults < MaxFaults
  /\ lost' = lost \cup (Found(Upper(0, sync.last - Recent + 2)..sync.last) \ stored)
  /\ sync' = [sync EXCEPT !.pc = "record"]
  /\ faults' = faults + 1
  /\ UNCHANGED <<now, rows, stored, locked, inflight, request, task>>

\* The API process starts again and forgets _inflight.
ApiRestarts ==
  /\ inflight' = NoTask
  /\ request' = [c \in Clients |-> IdleRequest]
  /\ CountFault("restart") /\ UNCHANGED <<rows, stored, lost, task>>

\* INFLIGHT_STALE_SECONDS have passed: the slot is taken from a task at work.
TaskStale(c) ==
  /\ request[c].pc = "state"
  /\ Unfinished(request[c].current)
  /\ inflight' = NoTask
  /\ request' = [request EXCEPT ![c].pc = "enqueue", ![c].current = NoTask]
  /\ CountFault("stale") /\ UNCHANGED <<rows, stored, lost, task>>

-----------------------------------------------------------------------------
Api(c) ==
  \/ AskAgain(c) \/ ReadPatterns(c) \/ Ensure(c) \/ StillComputing(c) \/ NotComputing(c)
  \/ \E k \in TaskIds : EnqueueScan(c, k)

Worker(k) == NextWindow(k) \/ FetchPage(k) \/ SavePatterns(k) \/ RecordWindow(k)

Fault ==
  \/ \E k \in TaskIds : Redeliver(k) \/ FetchRaises(k) \/ RecordFails(k) \/ SaveFails(k)
  \/ SyncSaveFails \/ ApiRestarts \/ \E c \in Clients : TaskStale(c)

Next ==
  \/ CandleCloses
  \/ \E c \in Clients : Api(c) \/ \E range \in Ranges : Ask(c, range)
  \/ \E k \in TaskIds : Worker(k)
  \/ SyncFetch \/ SyncSave \/ SyncRecord
  \/ CompactRead \/ CompactCommit
  \/ Fault

Spec == Init /\ [][Next]_vars

\* Requests are served, charts ask again and the workers go on.
Fairness == (\A c \in Clients : WF_vars(Api(c))) /\ (\A k \in TaskIds : WF_vars(Worker(k)))

FairSpec == Spec /\ Fairness

-----------------------------------------------------------------------------
\* Patterns whose last peak has all its candles from the beginning.
Confirmed == {p \in Patterns : p[2] + Pad <= Start}

(* A pattern that lies within one recorded window is in the table, however *)
(* scans, the sync and the compaction of the windows interleave, crash or  *)
(* fail, unless its save failed unnoticed (harmonic_scan.py, lines 9-15).  *)
CoveredIsStored == \A p \in Confirmed : (\E w \in rows : Inside(p, w)) => p \in stored \cup lost

(* Coverage is never lost: what lies within one window goes on to, also     *)
(* while rows are inserted during a compaction (compact, lines 95-120).    *)
CoverageGrows ==
  [][\A p \in Patterns : (\E w \in rows : Inside(p, w)) => \E w \in rows' : Inside(p, w)]_vars

(* An answer that says "complete" has all patterns of its range            *)
(* (controller_rest_domain_harmonics.py, line 9) that were ever saved: the *)
(* windows are read before the patterns, and written after them.           *)
CompleteIsComplete ==
  \A c \in Clients : request[c].pc = "complete" =>
    \A p \in Confirmed : Inside(p, request[c].range) => p \in request[c].patterns \cup lost

(* Whatever the table of windows becomes, scanning what missing_windows    *)
(* names leaves no pattern of the range out and nothing to scan again.     *)
Suffices(range, scanned) ==
  LET after == scanned \cup MissingWindows(range, scanned)
  IN /\ \A p \in Patterns : Inside(p, range) => \E w \in after : Inside(p, w)
     /\ MissingWindows(range, after) = {}

MissingSuffices == [][rows' # rows => \A range \in Windows : Suffices(range, rows')]_vars

(* A range that is asked for again and again is complete at last.          *)
AnsweredAtLast == \A c \in Clients : request[c].pc = "computing" ~> request[c].pc \in {"complete", "idle"}

(* One scan at a time (controller_rest_domain_harmonics.py, line 79).      *)
OneScanAtATime == \A k, l \in TaskIds : Unfinished(k) /\ Unfinished(l) => k = l
=============================================================================
