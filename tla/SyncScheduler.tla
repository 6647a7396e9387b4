---------------------------- MODULE SyncScheduler ----------------------------
(***************************************************************************)
(* The cron jobs of main_controller_sync.py: the table the REST API edits, *)
(* the APScheduler that follows it, and the runs, each of which first      *)
(* synchronises the scheduler and then asks the table again.  Everything   *)
(* is one event loop: a step is what one coroutine does between two        *)
(* awaits, and a due timer is served before a coroutine that has to wait   *)
(* for the database.                                                       *)
(*                                                                         *)
(* The time is the time of a day of Day moments.  A job fires a little     *)
(* after its moment began, so a trigger computed then gives a later one.   *)
(***************************************************************************)
EXTENDS Naturals, FiniteSets

CONSTANTS
  Crons,        \* ids of the table cron_system_sync_job, whose rows are read in their order
  NoRow, Gone,  \* an id not given yet, and one whose row was deleted
  NoJob,        \* an id the scheduler does not have
  Processes, Workflow,  \* the rows of system_sync_job, and run_full_sync_workflow
  Methods,      \* the processes SyncController has a method for
  Startup, Periodic,    \* start(), and the job sync_scheduler_periodic
  Day, Moments, \* the moments of a day, and the sets of them a trigger may name
  Jitter,       \* the greatest delay a trigger draws
  MaxEvents     \* writes of the table, failed reads and restarts in a behaviour

\* No times stand for fields that CronTrigger refuses: a day_of_week, a year, a
\* week, a date or a timezone is not validated by the API.
Row == [process : Processes, times : Moments \cup {{}}, enabled : BOOLEAN, seeded : BOOLEAN]
Job == [method : Methods, times : Moments, wait : Nat]
Actors == Crons \cup {Startup, Periodic}
CronRuns == Crons \cup {Startup}

ASSUME CronAssumption ==
  /\ Crons \subseteq Nat /\ IsFiniteSet(Crons) /\ Cardinality(Crons) \in 1 .. 100  \* LIMIT of get_all_enabled
  /\ Crons \cap {Startup, Periodic} = {} /\ Startup # Periodic
  /\ Workflow \in Methods /\ Methods \subseteq Processes
  /\ Day \in Nat \ {0} /\ Moments \subseteq (SUBSET (0 .. Day - 1)) \ {{}} /\ Moments # {}
  /\ Jitter \in Nat /\ MaxEvents \in Nat
  /\ {NoRow, Gone} \cap Row = {} /\ NoRow # Gone /\ NoJob \notin Job

VARIABLES
  time,     \* the moment of the day
  row,      \* the table
  job,      \* the jobs of the scheduler: what they call, when, moments left
  up,       \* the scheduler was started
  at,       \* at[a]: where coroutine a is
  method,   \* method[r]: what run r calls, Workflow for none
  seen,     \* seen[a]: the enabled rows coroutine a read
  fired,    \* the crons that were served at this moment
  late,     \* due jobs the loop gets to more than misfire_grace_time after their moment
  events    \* how many writes, failed reads and restarts there were

cronVars == <<time, row, job, up, at, method, seen, fired, late, events>>

States == {"idle", "read", "apply", "check"}

CronTypeOK ==
  /\ time \in 0 .. Day - 1
  /\ row \in [Crons -> Row \cup {NoRow, Gone}]
  /\ job \in [Crons -> Job \cup {NoJob}]
  /\ up \in BOOLEAN
  /\ at \in [Actors -> States]
  /\ method \in [CronRuns -> Methods]
  /\ seen \in [Actors -> UNION {[ids -> Row] : ids \in SUBSET Crons}]
  /\ fired \subseteq Crons /\ late \subseteq Crons
  /\ events \in Nat

-----------------------------------------------------------------------------
Exists(c) == row[c] \in Row
Enabled(c) == Exists(c) /\ row[c].enabled
EnabledRows == [c \in {d \in Crons : Enabled(d)} |-> row[c]]
Nothing == [c \in {} |-> NoRow]

DueJobs == {c \in Crons : up /\ job[c] # NoJob /\ job[c].wait = 0}
LoopFree == DueJobs = {}

\* Which rows a synchronisation comes to: those before the first whose trigger
\* raises.  A row without a method is passed over.
Refused(r) == r.process \in Methods /\ r.times = {}
Reached(rows) ==
  {c \in DOMAIN rows : \A d \in DOMAIN rows : d <= c => ~Refused(rows[d])}
Runnable(rows) == {c \in Reached(rows) : rows[c].process \in Methods}

UntilNext_Inclusive(times) ==  \* the moment that is passing counts
  CHOOSE d \in 0 .. Day - 1 :
    /\ (time + d) % Day \in times
    /\ \A e \in 0 .. d - 1 : (time + e) % Day \notin times

\* CronTrigger: from now to the next moment of the set that is still to come.
UntilNext(times) ==
  CHOOSE d \in 1 .. Day :
    /\ (time + d) % Day \in times
    /\ \A e \in 1 .. d - 1 : (time + e) % Day \notin times

Daily(times) == [process |-> Workflow, times |-> times, enabled |-> TRUE, seeded |-> TRUE]

\* _seed_default_cron_job: the daily workflow, unless a cron has its name.
Seeded ==
  IF \E c \in Crons : Exists(c) /\ row[c].seeded THEN {row}
  ELSE {[row EXCEPT ![c] = Daily(times)] :
          c \in {d \in Crons : row[d] = NoRow}, times \in Moments} \cup {row}

Booting == [a \in Actors |-> IF a = Startup THEN "read" ELSE "idle"]

CronInit ==
  /\ time = 0
  \* the seeded cron as the operator left it, if it is still there
  /\ \E c \in Crons, r \in Row \cup {NoRow, Gone} :
       /\ r \in Row => r.seeded
       /\ row = [d \in Crons |-> IF d = c THEN r ELSE NoRow]
  /\ job = [c \in Crons |-> NoJob] /\ up = FALSE
  /\ at = Booting
  /\ method = [r \in CronRuns |-> Workflow]
  /\ seen = [a \in Actors |-> Nothing]
  /\ fired = {} /\ late = {}
  /\ events = 0

Event == events < MaxEvents /\ events' = events + 1

-----------------------------------------------------------------------------
(* The cron jobs panel: each request checks the row and writes it.         *)

Write(c, r) ==
  /\ Event
  /\ row' = [row EXCEPT ![c] = r]
  /\ UNCHANGED <<time, job, up, at, method, seen, fired, late>>

\* The names of crons made here are their own, never the seeded one.
CreateCronJob(c) ==
  /\ row[c] = NoRow
  /\ \E r \in Row : ~r.seeded /\ Write(c, r)

\* Any fields but the id, the process among them.
UpdateCronJob(c) ==
  /\ Exists(c)
  /\ \E r \in Row : r # row[c] /\ r.seeded = row[c].seeded /\ Write(c, r)

EnableCronJob(c) == Exists(c) /\ ~row[c].enabled /\ Write(c, [row[c] EXCEPT !.enabled = TRUE])

DisableCronJob(c) == Enabled(c) /\ Write(c, [row[c] EXCEPT !.enabled = FALSE])

DeleteCronJob(c) == Exists(c) /\ Write(c, Gone)

-----------------------------------------------------------------------------
(* sync_scheduler_with_database.                                           *)

\* get_all_enabled; fetch_all answers [] when the query fails.
SyncRead(a) ==
  /\ at[a] = "read"
  /\ at' = [at EXCEPT ![a] = "apply"]
  /\ \/ seen' = [seen EXCEPT ![a] = EnabledRows] /\ UNCHANGED events
     \/ Event /\ seen' = [seen EXCEPT ![a] = Nothing]
  /\ UNCHANGED <<time, row, job, up, method, fired, late>>

\* start() goes on to its run, a run to its checks, the periodic job ends.
AfterSync(a) ==
  CASE a = Periodic -> "idle"
    [] a = Startup /\ ~up -> "read"
    [] OTHER -> "check"

Scheduled_Later(c, config, delay) ==  \* the moment after now is skipped
  [method |-> IF job[c] = NoJob THEN config.process ELSE job[c].method,
   times |-> config.times,
   wait |-> UntilNext(config.times) + delay + 1]

\* add_job takes the method of the row, reschedule_job keeps the one it has.
Scheduled(c, config, delay) ==
  [method |-> IF job[c] = NoJob THEN config.process ELSE job[c].method,
   times |-> config.times,
   wait |-> UntilNext(config.times) + delay]

SyncApply_KeepsRemoved(a) ==  \* jobs without an enabled cron are not removed
  /\ at[a] = "apply" /\ LoopFree
  /\ \E delay \in [Crons -> 0 .. Jitter] :
       job' = [c \in Crons |->
         IF c \in Runnable(seen[a]) THEN Scheduled(c, seen[a][c], delay[c]) ELSE job[c]]
  /\ at' = [at EXCEPT ![a] = AfterSync(a)]
  /\ up' = (up \/ a = Startup)
  /\ seen' = [seen EXCEPT ![a] = Nothing]
  /\ UNCHANGED <<time, row, method, fired, late, events>>

\* The rows are gone through in the order of their ids.  A trigger that raises
\* ends the synchronisation: the rows before it are applied, those behind it
\* are not, and no job is removed.
SyncApply(a) ==
  /\ at[a] = "apply" /\ LoopFree
  /\ \E delay \in [Crons -> 0 .. Jitter] :
       job' = [c \in Crons |->
         IF c \in Runnable(seen[a]) THEN Scheduled(c, seen[a][c], delay[c])
         ELSE IF c \notin DOMAIN seen[a] /\ Reached(seen[a]) = DOMAIN seen[a] THEN NoJob
         ELSE job[c]]
  /\ at' = [at EXCEPT ![a] = AfterSync(a)]
  /\ up' = (up \/ a = Startup)
  /\ seen' = [seen EXCEPT ![a] = Nothing]
  /\ UNCHANGED <<time, row, method, fired, late, events>>

\* The pool gives no connection: the exception is caught, nothing changed.
SyncFails(a) ==
  /\ at[a] = "read" /\ Event
  /\ at' = [at EXCEPT ![a] = AfterSync(a)]
  /\ up' = (up \/ a = Startup)
  /\ UNCHANGED <<time, row, job, method, seen, fired, late>>

PeriodicSync ==
  /\ up /\ at[Periodic] = "idle"
  /\ at' = [at EXCEPT ![Periodic] = "read"]
  /\ UNCHANGED <<time, row, job, up, method, seen, fired, late, events>>

-----------------------------------------------------------------------------
(* APScheduler: a due job is served once and gets its next moment, also    *)
(* when its last run is not over (max_instances is 1) and when it is found *)
(* more than a second late (misfire_grace_time is 1 s).                    *)

Submit(c) ==
  /\ c \in DueJobs
  /\ \E delay \in 0 .. Jitter :
       job' = [job EXCEPT ![c].wait = UntilNext(job[c].times) + delay]
  /\ fired' = fired \cup {c}
  /\ late' = late \ {c}
  /\ UNCHANGED <<time, row, up, seen, events>>

Fire(c) ==
  /\ Submit(c)
  /\ at[c] = "idle" /\ c \notin late
  /\ at' = [at EXCEPT ![c] = "read"]
  /\ method' = [method EXCEPT ![c] = job[c].method]

FireSkipped(c) == Submit(c) /\ at[c] # "idle" /\ UNCHANGED <<at, method>>

FireMissed(c) == Submit(c) /\ at[c] = "idle" /\ c \in late /\ UNCHANGED <<at, method>>

\* The clock: every job comes nearer.
Passes ==
  /\ LoopFree
  /\ time' = (time + 1) % Day
  /\ job' = [c \in Crons |->
       IF up /\ job[c] # NoJob THEN [job[c] EXCEPT !.wait = @ - 1] ELSE job[c]]
  /\ fired' = {}

Tick == Passes /\ UNCHANGED <<row, up, at, method, seen, late, events>>

-----------------------------------------------------------------------------
(* sync_with_cron_db, after its own synchronisation.                       *)

Over(r) ==
  /\ at[r] = "check"
  /\ at' = [at EXCEPT ![r] = "idle"]
  /\ method' = [method EXCEPT ![r] = Workflow]
  /\ UNCHANGED <<row, up, seen>>

Wanted(r) == \E c \in Crons : Enabled(c) /\ row[c].process = method[r]

\* The inspect of prevent_duplicate_tasks holds the loop for up to three
\* seconds: a moment may pass, and jobs that are due by then are late.
HoldsLoop ==
  /\ Passes \/ UNCHANGED <<time, job, fired>>
  /\ \E lost \in SUBSET DueJobs' : late' = late \cup lost

\* The method is run when a cron of its process is enabled, and unchecked when
\* the process cannot be read or there is no connection for its crons.
Carried(r) == Over(r) /\ HoldsLoop /\ ((Wanted(r) /\ UNCHANGED events) \/ Event)

\* Not run: no cron is enabled, or the query of its crons failed and gave [].
Stands(r) ==
  /\ Over(r) /\ UNCHANGED <<time, job, fired, late>>
  /\ (~Wanted(r) /\ UNCHANGED events) \/ Event

\* The process ends and is started again: init_db seeds, start() synchronises.
Restart ==
  /\ Event
  /\ job' = [c \in Crons |-> NoJob] /\ up' = FALSE
  /\ at' = Booting
  /\ method' = [r \in CronRuns |-> Workflow]
  /\ seen' = [a \in Actors |-> Nothing]
  /\ row' \in Seeded  \* or the table as it is, when the insert fails
  /\ late' = {}
  /\ UNCHANGED <<time, fired>>

CronNext ==
  \/ \E c \in Crons :
       \/ CreateCronJob(c) \/ UpdateCronJob(c) \/ EnableCronJob(c)
       \/ DisableCronJob(c) \/ DeleteCronJob(c)
       \/ Fire(c) \/ FireSkipped(c) \/ FireMissed(c)
  \/ \E a \in Actors : SyncRead(a) \/ SyncApply(a) \/ SyncFails(a)
  \/ \E r \in CronRuns : Carried(r) \/ Stands(r)
  \/ PeriodicSync \/ Tick \/ Restart

CronSpec == CronInit /\ [][CronNext]_cronVars

\* The interval job, the database's answers and the clock go on, and the loop
\* gives each ready coroutine its turn (SyncApply waits while timers are due).
CronFairness ==
  /\ WF_cronVars(PeriodicSync) /\ WF_cronVars(Tick)
  /\ \A a \in Actors : WF_cronVars(SyncRead(a)) /\ SF_cronVars(SyncApply(a))
  /\ \A r \in CronRuns : WF_cronVars(Carried(r) \/ Stands(r))
  /\ \A c \in Crons : WF_cronVars(Fire(c) \/ FireSkipped(c) \/ FireMissed(c))

CronFairSpec == CronSpec /\ CronFairness

-----------------------------------------------------------------------------
(* Properties.                                                             *)

\* The scheduler has the job of every enabled cron with a method, at its times,
\* unless an enabled row before it raises, and none of a cron that is disabled
\* or deleted, unless some enabled row raises.  Which method the job calls is
\* left open: after a change of process it goes on with the old one.
Follows(c) ==
  /\ c \in Runnable(EnabledRows) => job[c] # NoJob /\ job[c].times = row[c].times
  /\ ~Enabled(c) /\ Reached(EnabledRows) = DOMAIN EnabledRows => job[c] = NoJob

\* Once the table is left alone the scheduler comes to follow it, whatever rows
\* a slow synchronisation still holds, after failed reads, refused rows and
\* restarts ("dodaje, usuwa i modyfikuje joby zgodnie z bazą").
SchedulerSettles == <>[](\A c \in Crons : Follows(c))

\* A cron that stays enabled, and is not behind a row that raises, is run again
\* and again, or again and again found late: the synchronisations every run and
\* the periodic job make, each of which computes its trigger anew, never put
\* its moment off.
EnabledRuns ==
  \A c \in Crons :
    <>[](c \in Runnable(EnabledRows)) => []<><<Fire(c)>>_cronVars \/ []<>(c \in late)

\* A cron is served at most once for one moment, though its own run reschedules
\* it while the moment still lasts.
FiredOncePerMoment == [][\A c \in fired : ~Submit(c)]_cronVars

\* A synchronisation does not move the next firing of a job whose times stay as
\* they are, though it computes the trigger anew (reschedule_job).
SyncKeepsMoments ==
  [][\A a \in Actors : SyncApply(a) =>
       \A c \in Crons :
         job[c] # NoJob /\ job'[c] # NoJob /\ job'[c].times = job[c].times
           => job'[c] = job[c]]_cronVars
=============================================================================
