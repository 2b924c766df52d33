# pScheduler: a TLA+ verification project

pScheduler schedules network measurements on a set of nodes and runs them. Each
node has a PostgreSQL database that holds its schedule, a REST API, and four
daemons (scheduler, runner, archiver, ticker) that meet only in that database.
This project models the logic that decides what gets on a node's schedule, when
it may run, and what becomes of it. Paths below are relative to
`src/pscheduler-server/pscheduler-server/`.

## 1. Inventory

### Components, their state and operations

| Component | State | Operations | What makes it correct |
|---|---|---|---|
| Run table (`database/run.sql`, `run_state.sql`) | one row per run: task, range of times, priority, state, results | trigger `run_alter` on INSERT and UPDATE, `run_start`, `run_handle_stragglers`, `run_purge`, `run_task_disabled`, `run_horizon_change`, `api_run_post` | the timeline is not double booked; states only move along `run_state_transition_is_valid`; nothing in progress is purged; every run is settled |
| Conflict rules (`run.sql`, `scheduling_class.sql`) | none | `run_has_conflicts`, `run_can_proceed` over the view `run_conflictable` | runs the scheduling classes keep apart do not run together; only a higher priority preempts |
| Runner (`daemons/runner`) | workers by thread, `run_dict` of the runs that have one | main loop: select, put on deck, start threads; worker: register, sleep, `run_start`, run the tool, store, gather and merge | no run is executed twice at once; a run that lost its worker is settled; a run in cleanup is finished |
| Scheduler (`daemons/scheduler`) | workers by task, lists of participants' answers | for each task, find a time all participants have free, POST the run on the lead, PUT it on the others, PUT part-data-full to all; roll back by DELETE; post a non-starter when nothing works | all participants have the run or none does; conflicts are retried; a task is handled by one worker |
| Task table and API (`database/task.sql`, `pschedulerapiserver/tasks.py`) | one row per task: participants, repeat and until, max-runs, counters, enabled | post on all participants, disable everywhere | no participant keeps a task the others refused; a disabled task is disabled everywhere in the end |
| Time slots (`database/schedule.sql`) | none | `api_proposed_times`, views of the timeline | what is proposed is free |
| Archiver (`daemons/archiver.raw`, `database/archiving.sql`) | one row per archiving: attempts, next attempt, archived, diags; pool of archiver processes | insert on result, attempt, retry or give up, purge | a result is archived at least once or given up after its time to live; no two attempts at once |
| HTTP queue (`database/http_queue.sql`) | queued DELETEs with next attempt and attempts left | enqueue, attempt, back off, expire | each request is sent or expires |
| Ticker (`daemons/ticker`) | none | the periodic maintenance functions | they keep being called |
| REST API for runs (`pschedulerapiserver/runs.py`) | none | POST, PUT, DELETE, GET that waits for a result | what it writes keeps to the rules of the run table |
| Latest-run, heartbeat, boot tables | one row each per task, program, boot | kept by triggers and daemons | status only |
| Archiver processes (`archiver.raw`, library `program.py`, `psjson.py`) | a pool of programs, their pipes | take one out, ask it, put it back, skim, drain | each thread gets the answer to its own question; no process is lost or shared |
| Limit processor (library `limitprocessor/`, `limitproc.py`) | per API process: the configuration loaded, lists fetched from URLs | look whether the file changed, load, evaluate a task or run, fetch a list | what may run may be posted; the configuration in force becomes that of the file; readers of a list never see half of it |
| Daemons' lives (library `saferun.py`, `log.py`) | process, environment | start, throw, back off, exec; signals that change the log level | crashes are spaced; children and the next life log at the level that was set |
| Programs and exit (library `program.py`, `exit.py`) | registry of running programs, two locks, handlers | run, time out, kill; a signal makes a worker kill all of them | no registered program outlives the daemon; a signal makes it exit |
| Connections (library `db.py`, `psurl.py`, `api.py`, `psdns.py`, `expiringset.py`; API `dbcursor.py`) | notifications captured, default headers, a cache of connections, a pool of resolvers | query, wait, post, ask, purge | an answer is the answer to what was asked; a notification is heard; no connection that failed is used again |
| Esmond archiver (`pscheduler-archiver-esmond`) | a cache of metadata keys shared by processes | declare, put, drop a stale key, ask for a retry | what is stored was declared; a key the server forgot does not stay |
| powstream's parser, plug-ins' limits, task scripts | none | output to statistics; a test against a limit; a script on a task | pure functions, compared with what they mean |
| Batch processor (library `batchprocessor/`) | jobs, threads, results | post tasks, find their runs, wait for results | results are in their places; serial runs do not overlap; the batch ends |
| Command line, other plug-ins | files | client-side | outside the node's shared state |

### How they interact

- The API's processes (one transaction per request) and the daemons write to the
  same tables. There is no lock but the row locks PostgreSQL takes and the
  `LISTEN`/`NOTIFY` channels that wake the daemons up. All rules of the run table
  live in its trigger.
- The scheduler reaches the API of its own node and of every other participant
  over HTTP, each request of which may fail or time out after it took effect.
- The runner of the lead participant fetches the results of the others over HTTP.
- The ticker sweeps the tables whatever the other daemons do, and sends what the
  HTTP queue holds.
- A result that is stored makes rows of the archiving table (a trigger), which the
  archiver hands to its pools of archiver programs over pipes.
- The API's processes ask the limit processor about each task and run; each process
  has its own copy of the limits, shared by its threads without a lock.
- All daemons stand on the library: `safe_run` starts them again, `Log` passes its
  level on in the environment, the exit handler kills the programs they run.

### What is hard in it

- **Concurrency.** The conflict check of an INSERT does not see uncommitted rows.
  A run is fetched, waited for and then started, and may be canceled, deleted or
  preempted in between. The runner's loop and its workers share `run_dict`.
- **Crashes.** The runner may die with runs on deck, running or in cleanup. What
  it comes back to is the table.
- **Partial failure.** A run posted on some participants only; an UPDATE of many
  rows that one row makes fail; an `on-deck` UPDATE whose failure is ignored.
- **Time.** Ranges are half-open when scheduled and closed when cut short; the
  start margin; late tools that answer after the ticker gave them up; purging
  with different margins.
- **Threads.** The archiver's threads, the API's and the exit handler share
  dictionaries, pools, lists and modules' variables, with a lock on part of it.
- **Delivery.** A DELETE may be queued, retried, and expire; an archiver's answer may
  come when nobody waits for it; a batch's task may run though its POST failed.
- **Priorities.** Higher priorities may be put on top of lower ones; who runs is
  decided only at the start.

`PROJECT.json` lists these as hazards, each at its line, with the properties that
would show it going wrong.

## 2. Plan

In this order, all but 9 and 10 done (sections 3 to 6).

1. `RunTable`: states, transitions and conflict rules as operators, and the run table
   with every writer but the runner.
2. `Runner`, composed with `RunTable`, with its properties; `RunLife`, the abstract
   specification of a single run's life, and the refinement.
3. `RunnerProofs`: type correctness,
4. and exclusion at the start, booking, purging, the refinement.
5. `Scheduler`: one run posted on all participants by workers that compete for
   the same times, with failing and lost requests, roll-back, retries and crashes;
   `SchedulerProofs`.
6. `TaskPost`: a task on all participants, its disabling everywhere by the HTTP queue;
   `TaskPostProofs`.
7. `Archiving`: archivings, attempts, time to live, threads; `ArchivingProofs`;
8. and `ArchiverPool`, the processes the threads share.
9. `RowLocks`: lock orders of `run_start`, inserts and disabling, to show the
   deadlocks PostgreSQL has to break. Not done: a statement is a step in all of these
   modules, and the deadlock's resolution is PostgreSQL's.
10. `ProposedTimes`: `api_proposed_times` with runs of any length and gaps, as a
    function, checked against a reference. Not done: of it, `Scheduler` has what
    decides which runs compete.
11. The limits: `LimitProcessor`, `LimitFile`, `TaskScripts`, `PluginLimits`;
    `LimitFileProofs`.
12. `Batch`; `BatchProofs`.
13. The library's parts, each a small module, put together in `Library`;
    `LibraryProofs`, `OutputProofs`.

A theorem that would be next: what `EveryRunSettles` says as a bound, that no run is in
progress for longer than it lasts, straggling and the ticker's period together.

## 3. The modules

| Module | Lines of code it stands for |
|---|---|
| `RunTable` | `run_state.sql`, `scheduling_class.sql`; `run.sql` (conflict rules, trigger, start, stragglers, purge, horizon, post), `task.sql:940-1013`, `control.sql`, `runs.py` |
| `RunLife` | abstract: none, scheduled, active, over, gone |
| `Runner` | `daemons/runner`; its properties, fairness and the refinement mapping `Stage` |
| `MCRunner` | values of the constants for TLC |
| `RunnerProofs` | theorems about `Runner` |
| `Scheduler` | `daemons/scheduler`; `schedule.sql` (what needs a run, proposed times), `task.sql` (`task_next_run`), `runs.py` (POST, PUT, DELETE) as far as a run's placement on the nodes goes; its properties and fairness |
| `MCScheduler` | values of the constants for TLC |
| `SchedulerProofs` | theorems about `Scheduler` |
| `TaskPost` | `tasks.py`, `task.sql` (post, enable, disable, purge), `http_queue.sql`; its properties and fairness |
| `TaskPostProofs` | theorems about `TaskPost` |
| `Archiving` | `archiving.sql`, `archiver.raw` (main loop, `ArchiveWorker`); its properties and fairness |
| `ArchivingProofs` | theorems about `Archiving` and `ArchiverPool` |
| `ArchiverPool` | `archiver.raw:270-470`, `program.py` (`StreamingJSONProgram`), `psjson.py` |
| `LimitProcessor` | `limitprocessor.py`, the kinds of identifiers and limits (`limitprocessor/identifier/`, `limitprocessor/limit/`) and the sets of identifiers, classifiers, limits and applications |
| `LimitFile` | `limitproc.py` of the API server, `identifier/ipcidrlisturl.py`; what limits must get right |
| `LimitFileProofs` | theorems about `LimitFile` |
| `TaskScripts` | `rewriter.py`, `prioritizer.py`, `jqfilter.py` |
| `PluginLimits` | `limits.py`, `ipaddr.py` and the matchers |
| `Batch`, `BatchProofs` | `batchprocessor.py`; a theorem about it |
| `DaemonLife` | `saferun.py`, `log.py` |
| `GracefulExit`, `Chain` | `exit.py`, `program.py` |
| `Notifications`, `DbCursor` | `db.py` with the scheduler's wait; `dbcursor.py` |
| `Url`, `Resolve`, `ConnectionCache` | `psurl.py`, `api.py`; `psdns.py`; `expiringset.py` with the RabbitMQ archiver |
| `Esmond` | `esmond_util.py`, the archiver `esmond/archive`, `retry.py` |
| `ToolOutput` | powstream's parser; `latency_utils.py` |
| `Library` | composes `DaemonLife` and the eleven parts that have no state in common with it or each other |
| `LibraryProofs` | theorems about `DaemonLife` and `Library` |
| `OutputProofs` | a theorem about `Library`, of `ToolOutput` and `Url` |
| `MCTaskPost`, `MCArchiving`, `MCLimits`, `MCBatch`, `MCLibrary` | values of the constants for TLC |

**Rows.** A row of the run table is a record: its task, `lo` and `hi` of its range
of times, `closed` when the range includes `hi` (a run that ends early is cut to
`[]`), its priority, its state, two flags, `pdf` when the lead has sent every
participant's data and `merged` when the merged result is there, and `beside`, the rows
that were not committed when its insert looked for conflicts, which no code keeps and
which is there for the properties only. What the results
contain is left out. `run` is a function from ids to rows, `txn` the rows inserted
and not yet committed, which no other transaction sees.

**Statements are steps.** Each UPDATE or DELETE is one step; the trigger's whole
effect on the row and on the task's counters belongs to it (`Altered`, `Allowed`,
`CountStart`). If the trigger raises an exception for one row, the whole statement
has no effect. An INSERT is two steps, `RunPost` (the check for conflicts) and
`RunCommit`, since concurrent inserts race there. The lock an insert holds on its
task's row is `TaskLocked`; it delays what else updates that row.

**The runner's loop** is three steps: `LoopSelect` (query, and a worker made for
each row with none in `run_dict`), `LoopOnDeck` (the UPDATE, whose failure is
logged and ignored), `LoopStart` (one thread at a time). **A worker** is
`WorkerBegin` (registers, fetches), `WorkerStart` (`run_start` when the time has
come, in one statement), `WorkerResult` (results of background-multi runs),
`WorkerExit` (the tool ends or is killed), `WorkerStore` (local result),
`WorkerMerge` (the lead gathers and merges). `WorkerDbFailure` is a statement of its
that fails, which ends the thread; a failing commit is only logged, and the thread goes
on without what it had written: `WorkerStartLost`, `WorkerStoreLost`
(`runner:205-224`). `Crash` ends all threads; `Restart` is what `safe_run` and the
service manager do.

**What is asked of the node** is `Request`; which of the rarer requests may occur
is the constant `Extras`, so that each run of TLC has those its question needs.
A start that has passed may be asked for: neither the API nor the trigger forbids it. What
the limits say about a run and what the tool's exit code is are free choices.

**Data left out.** In the conflict rules a NULL priority is 0 (each of their uses
is a COALESCE). Task ids, UUIDs and names are model values.

### The scheduler

`Runner` is one node with everything that happens to a run once it has a row.
`Scheduler` is all nodes, and only the question which of them have a row for which
run. The two meet in the INSERT: `RunPost`/`RunCommit` there, `InsertOnLead` and
`Insert` here.

**State.** `run` is the sequence of runs ever made; each has the nodes that hold a
row for it (`held`), those on which it is a non-starter (`barred`) and those that
were given all participants' data (`full`), without which a runner will not execute
it. `task` has the two columns of the task that the selection reads. `worker[t]` is
the worker of task `t` (the scheduler keeps at most one, in its `workers`
dictionary) and where it is in `schedule_task` and `run_post`.

**Actions.** `Start` is the main loop choosing a task (`Selectable`, the view
`schedule_runs_to_schedule`) and starting its worker. `Try` fetches the task and pings
the participants; `Propose` asks one participant for its free times, without and then,
if the task has one, with a priority, which a node that is too old to know priorities (a
member of `Old`) answers with 501, taken for no time at all; `PostLead` and `PutOther`
put the run on the participants in turn; `Gather` fetches the data of each; `PutFull`
sends all of it to one of them; `Delete` rolls one of them back; `Decide` is the end of
`schedule_task`'s loop (try again, give up, done); `NonStart` posts the non-starter.
`Crash` ends all workers of a node's daemon, `Tick` is the clock. Each request is a
step, so that other workers' requests come between any two.

**Failures.** A `Fault` is a request that fails before or after it took effect on
the other side, a participant that is down, or a daemon's death.

**Abstractions.** Runs are exclusive, one unit of time long, and occupy the start they
are scheduled for. All priorities are 0 or absent, and a task has the same one on all
its nodes. The start margin of proposals is 0. Which of the free starts is taken (a
random slip) is a free choice. The requests of `Gather` that are made in parallel are
one step, which fails if any of them does. A node that is running a run may avoid it in
a proposal or not, since how far it has come is not in the model. What the limits of a
node in `Strict` say about a run is a free choice. Tasks stay enabled; repeats by cron
expressions, start and until times are left out, and so is the bound on parallel
workers.

### Tasks on their participants

**State.** `row[n][t]` is what node `n` has of task `t` (nothing, a row that is not
enabled, an enabled one), `age` how long the row has been there, `queue` each node's
HTTP queue, and `client[t]` where the request that posts `t` is in `tasks.py`.

**Actions.** `Submit`, `AskTools` (ping a participant and get its tools), `Insert`
(choose the tool as `pick_tool` does, insert the row on the lead), `PostTo` and
`Fetch` for each other participant in turn, `Enable`. Each may fail; then `GiveUp` is
the disabling on the lead. `PostAnswerLost` is a participant that took the task
without the lead learning it. `Delete` is a user, `Cancel` the lead's scheduler that
a participant told of no such task; both call `Disable`, which queues a DELETE for
each other participant if the row was enabled on the lead. `ProcessQueue` is one run
of `http_queue_process_all`: one transaction, which an exception undoes although the
requests have been made. `Disable` may raise in the trigger, and then does nothing.
`Purge` is `task_purge`, which goes by the task's until, or its start, or the time it
was added; one-shot tasks of `Dated` are posted with a start in `Dates`, which may be
past. `Tick` is the clock.

In `TaskPost` (and `Archiving`) a row's times are kept as distances from now, so that
time need not be bounded.

### Archiving

**State.** `row[a]` is an archiving's row, `workers` the dictionary of the main loop,
`thread[w]` what a thread does. **Actions.** `Query`, `Start` (the thread runs from
its constructor on), `Register` (the loop enters it in the dictionary) are the loop's;
`Work` a thread's: `Transform`, `Send` to the archiver, `Update` of the row, `End` (it
takes itself off the dictionary). An archiver that dies or falls silent is asked again, up
to `Tries` times, and may have stored the result each time (`SendLost`, which also stands
for an answer that is lost on the way); one that prints a stray line is a request behind
from then on, and its answers are those to the request before (`SendStray`, `SendBehind`).
`archiving_run_after` is the trigger, `archiving_maint_minute` the ticker's part,
`Cascade` what a purged run takes with it, `Crash` the daemon's death.
`ArchiverPool` is below it: `Take` a process or `Create` one, `RoundTrip` (write a
request, read an answer), `CreateFails` (the program cannot be started: the thread gets
an exception), `Fail` (the process dies or is silent, and its program is
started anew while there are retries), `RoundTripStray` (it prints a line that is no answer),
`PutBack`; meanwhile `drain` and `skim`.

### Limits

`LimitProcessor` is functions: a configuration and a request give
who is asking, the classifiers that apply, whether a limit, a group of limits and an
application pass, and what becomes of the task. `Load` says which configurations are
accepted. `LimitFile` is the API's process around them: threads that find the last look
at the file long enough ago (`Check`), each note the time (`Begin`), load what has changed,
and assign the module's variables one after the other; and a list that is fetched in a
critical section and read without one. What an identifier or a
test plug-in would find out is a member of a small set, given with the configuration.

### The library

Each part is a machine with its own variables. They share nothing that matters here, so
`Library` gives each a *scene*: a behaviour picks one and lives in it. The scenes
without steps (`Asked`) are inputs of the pure functions, each of which is compared
with what it is to mean. The external parts (the signal, the server, the database, a
context's program) are actions with free choices.

## 4. The runs

| Run | Checks | Shows |
|---|---|---|
| `exclusion` | `TypeOK`, `EqualPriorityExclusion`, `OneToolOnceOnDeck`, `LifeSpec` | Two inserts race for the same time of two tasks that may not overlap, the runner may crash once, a statement or a commit may fail: still no two of equal priority run together, no tool runs twice at once unless its run could not be put on deck, and each run's life only goes forward (`RunLife`) |
| `booking` | `DoublyBookedOnlyInRace`, `PreemptedByHigher`, `PurgeOnlyFinished` | Two inserts at a time, two priorities, pausing, posted results, deletion and two horizons: no double booking and no preemption by an equal priority but by an insert that could not be seen, no purge of a run in progress |
| `progress` | `EveryRunSettles` | The clock and the ticker alone settle every run, with a crash and a failing statement |
| `multi` | `RunningMultiIsRestarted` | Background-multi: a running one that lost its worker gets another |
| `post` | `TypeOK`, `AllOrNothing`, `LimitKept`, `FullOnlyWhenAllHold`, `WorkersEnd` | Two tasks, each led by a participant of the other, compete for the same times while one request, answer or daemon may be lost, one participant is old and its limits may forbid a run: without a failure a run is on all participants or on none, nobody is told to execute a run some participant lacks, the number of runs is limited, and no worker stays for good |
| `tasks` | `AccountedFor`, `EnabledOnlyWhenHeld`, `DisabledEverywhere` | Two tasks are posted, deleted, canceled, purged and their DELETEs queued, with two faults: every enabled copy is accounted for, the lead enables a task when all hold it or may have purged it, and what is disabled on the lead is disabled everywhere, or its DELETE has expired |
| `archive` | `OneWorkerEach`, `StoredOnce`, `EverySettles` | Threads that end before the loop has entered them, retries within a try and between tries, a stray line, times to live, two faults: no archiving is in two threads' hands, none is stored more often than failures explain, each settles unless a dead thread's entry stays behind |
| `pool` | `PoolSound`, `OwnAnswer`, `Served` | Four threads, two processes at a time, two mishaps, a drain: none is used twice or lost, each thread gets its own answer (until a program prints a line that is no answer), all are served |
| `limits` | `ListSound`, `VerdictsSound`, `EndsUpCurrent` | The list is written by one thread at a time and never seems empty once it was not; a limit on times does not keep a task from being posted that could be run; the process ends up with the file's limits |
| `batch` | `BatchInOrder`, `EveryBatchEnds` | A parallel, a disabled and a serial job, with a request that fails or is never answered at any place: the batch ends unless one is never answered |
| `library` | twelve properties, one or more per scene | Crashes are spaced, log levels propagate, registered programs are killed and a signal ends the daemon, connections and statements are sound, due tasks are heeded, names get their own answers, tools run inside their contexts, Esmond's data fits its metadata and stale keys go, output and limits agree with what they mean |

In several places the code is at odds with what the repository says of it. The run
`go_ahead` is kept to show one of them, in which a step of the code itself contradicts the
comment above it: TLC finds `GoAheadMeansRunning` violated. Of the others the model takes
the steps too, and the passing property they concern says in its comment what it does not
claim because of them.

| Where | What is said, and what happens | Property |
|---|---|---|
| `run.sql:706`, `735` | `run_start` is to return NULL when the run is marked as started; of a run canceled while its worker sleeps the trigger drops the UPDATE silently (`run.sql:477`), and NULL it is | `GoAheadMeansRunning`, violated |
| `run.sql:546-550` | the check for conflicts comes last since "the entire table has to be locked"; nobody locks it, and two inserts check before either commits | `DoublyBookedOnlyInRace`, `PreemptedByHigher` |
| `runner:960` | runs are put on deck so that the next iteration does not pick them up again; when that UPDATE fails the workers are started all the same, and two execute one run | `OneToolOnceOnDeck` |
| `applicationset.py:204` | applications are gone through "stopping when one passes"; the loop goes on, and a later one may refuse | none |
| `limitset.py:136` | limits on times are disregarded when there are none; they pass, and where something turns that around they refuse | `VerdictsSound` |
| `saferun.py:29` | the wait of a daemon that ran for long is reset; the variable assigned is spelt otherwise (`saferun.py:93`) | `CrashesSpaced` |
| `http/archive:41` | a Content-Type that is given is obeyed; it is overwritten (`psurl.py:124-159`) | `ChannelsSound` |
| `developers-guide.tex:1109` | `succeeded` says whether the attempt to archive succeeded; of a PUT that failed it is true (`esmond/archive:289-291`) | `DataFits` |
| the latency test's `validate.py:229` | `packets-duplicated` is the number of duplicates seen; what was seen is never noted (`powstream_utils.py:171`, `207`) | `OutputAgrees` |

Some properties hold with exceptions that the code makes necessary; they are part of
the property, next to a comment that says where they come from: `DoublyBookedOnlyInRace`
and `PreemptedByHigher` (inserts that race), `OneToolOnceOnDeck` (a run that could not be
put on deck), `StoredOnce` and `OwnAnswer` (a stray line), `EverySettles` (a dead entry),
`EndsUpCurrent` (a removed file's time is kept, two loads cross), `KilledOff` (programs of
another user, or that their own threads had dropped), `EverySignalExits` (a lock held by
the interrupted main thread, a second signal), `AccountedFor` (a failed posting leaves
copies), `EveryBatchEnds` (a request that is never answered), `DataFits` (types that no
code declares), `ChannelsSound` (types of data given meanwhile by others who share the
default headers).

Seen while modelling, where nothing in the repository says otherwise. Runs and tasks:

- A run preempted or missed within the start margin keeps its task from being disabled
  for as long as its time lasts (`run.sql:597`).
- A lead whose tool ends late with success asks for cleanup, which overdue may not
  become; the result is lost (`runner:569`).
- A background-multi run on deck at a crash is never selected again (`runner:918`).
- A run scheduled on the last try is taken for given up, and a non-starter is posted
  beside it (`scheduler:732`).
- A repeating task whose first run was rolled back counts as having runs and has none:
  no part of the view selects it again (`schedule.sql:133`).
- After a crash a background-multi run may get two workers: a thread that has not
  registered yet is invisible to the next query (`runner:930`).
- A canceled run that asks to start again is counted in `runs_started` again
  (`run.sql:438`).
- Exclusive runs of different priority may overlap while running: the start check
  looks only at equal or higher priorities and stops nothing (`run.sql:676`).
- A run missed or preempted before its time still turns new runs away
  (`run.sql:226`).
- The run's priority is the `LEAST` of the task's and the variable being assigned,
  so what is proposed makes no difference (`run.sql:1015`).
- In `api_proposed_times` a condition is inverted: a task that has a priority
  proposes with none, and avoids only running runs (`schedule.sql:474`).
- A run that ends just when its interval does makes a repeating task skip the next
  interval (`task.sql:776`).
- A participant whose limits forbid a run answers as if all was well, and the run
  stays on the others (`runs.py:424-444`); so `AllOrNothing` is about rows, not
  about what is executed.
- `max-runs` counts rolled-back and non-starting runs (`schedule.sql:217`).
- A run whose POST or PUT took effect but was not answered is nobody's to delete.
- A task that could not be posted everywhere is disabled on a lead where it was never
  enabled, so no DELETE is queued for the participants that took it (`tasks.py:553`); a
  DELETE while it is being posted is answered well and then undone (`tasks.py:570`).
- A task with a start that is long past may be purged before it was ever enabled
  (`task.sql:823`).
- The ticker's thread for the queue is not under `safe_run`; one exception rolls back
  what was recorded of all rows; a 404 is retried until the row expires.

Archiving: the entry of a thread that ended before it was entered stays
(`archiver.raw:938`); a name is undefined at 706, a format is at fault at 670; a stray
line puts a process one answer behind for good.

Limits:

- Limits judge the task as it was proposed, not as it was rewritten.
- An identifier that is inverted never identifies; a clone drops its `invert`; a
  `url-fetch` refusal without a message raises `KeyError`; an upper end that wraps
  is off (`runschedule.py:40`), a run is judged by its two ends only, and no limit on
  weeks can be loaded (`runschedule.py:214`).
- When the file is removed the time that is reset is another variable
  (`limitproc.py:53`); each process of the API has its own copy.
- Limits of plug-ins: one on a field the test leaves out passes; an inverted range is
  passed by a range that straddles it; a host that does not resolve raises `IndexError`
  (`limits.py:47`). A string limit that is itself inverted would never pass
  (`limits.py:363`), but its schema (`jsonval.py:1196-1205`) has no such field.
- A rewriter's script can change the task without saying so, and raises if it yields
  nothing.

Library and clients:

- A second signal's handler waits at a barrier on top of the first's; the main thread
  may be interrupted with the lock the handler needs (`exit.py:64-83`). A program that
  cannot be killed is dropped all the same (`program.py:53-57`).
- The default headers of a POST or PUT are one dictionary for all callers
  (`psurl.py:116-165`).
- `wait` of a database connection sleeps although a notification was already read by a
  query (`db.py:162`). The thread's cursor is never kept (`dbcursor.py:77`); a statement
  that is retried may be executed twice.
- The batch processor asks for `wait-merged`, the server reads `wait`, and its condition
  is inverted (`runs.py:624`); its requests have no time-out; an exception aborts the
  whole batch; a task whose POST was not answered runs though it is reported as failed.
- Esmond: archivers with different policies share keys; the types of TCP's round trips and
  windows are put though they were never declared (`esmond_util.py:658-796`).

### Bounds

Two tasks, one exclusive and one normal, are the smallest pair that excludes each other;
each conflict rule relates two runs. Two runs, starting at the same second or one apart
and two long, meet every way ranges can (equal, overlapping, touching at an open end,
and at a closed end when the first is cut short). The clock (`MaxTime`) runs until after
the last run can be purged: start at most 3, two long, straggle 1, keep 2, active 1.
`Refresh` is more than the earliest start away, so a run may be selected at once or
late. Two posters race (`MaxPosters`), in `booking` as in `exclusion`; more would repeat
the pair. Two threads are what one tool running twice takes. One crash and one failing
statement or commit (`DbFailures`) put the table in every state a later one could find.
Threads are interchangeable, so safety runs use them as a symmetry set; the runs that
check liveness do not. `MaxRuns` and `MaxTime` bound counters in guards (`RunPost`,
`WorkerResult`, `Tick`); `Crashes` and `DbFailures` bound failures. A behaviour that
comes to the end of its time still has the sweeping and restarting steps, so no run of
`Runner` turns deadlock checking off.

For the scheduler, `t1` with participants a, b, c and `t2` with b, a: each leads on
a node the other needs, so their requests can cross, and c is a third one for a
request to fail on after two succeeded, whose limits may forbid a run (`Strict`), and which
is too old for priorities (`Old`). `t1`
repeats every 2, may not slip, has a priority and may run twice; `t2` runs once and
may slip by 1 into `t1`'s time. Two tries are what a conflict followed by a last try takes.
Three workers (`MaxSessions`) are one for `t2` and two for `t1`, the second of which
finds the first's run. One failure at each possible place; every property but the
one conditional on no failure is meant to hold with any number, as the theorems show
for `FullOnlyWhenAllHold`. The clock moves once, which makes a proposal's start pass
and a run due. This run says `CHECK_DEADLOCK FALSE`: when all tasks have their
runs, or the bounds are reached, the scheduler has nothing left to do. So do `tasks`,
`archive`, `pool`, `batch` and `library`, where everything may be done.

`tasks`: one task that repeats, on three nodes, and one that does not, led by another;
two faults, so that a lost answer can be followed by a lost DELETE; a queue that tries
twice before a row expires; tasks are kept for two units, so that both a slow posting
and a purge come about. The one-shot task has a start that is past or to come (`Dated`,
`Dates`). Node c may refuse.

`archive`: two archivings of one run: one is retried and has a time to live, the other
is for failed runs only, and its transform leaves nothing or fails. Two may run at once,
with three threads, so that one that is ending and its successor meet. An archiver is
asked twice (`Tries`; the code's three would repeat the second), and of two faults one
may be a stray line and the other what is made of it. `pool`: a pool that is full with
threads waiting, three processes over its life, one drain, two mishaps.

`limits`: more than a thousand files (each kind of limit, cloned, inverted, in groups of
each kind), a rewriter and a prioritizer, runs inside, across and outside of the
calendar's fields, for the verdicts; one valid and one broken file, two threads, one
change and one outage for loading. The verdicts do not depend on the threads, hence two
parts of one run. `batch`: two parallel and two serial iterations; one request that
fails or hangs.

`library`: for each part two of everything that races, and one more than the limit of
everything that is limited; of two programs one belongs to another user (`Foreign`) and one
has to be killed (`Stubborn`); of three tasks one is passed over by the scheduler and stays
due (`Skipped`); inputs of pure functions up to three elements (packets: enough that
quantiles fall between buckets), among them one that cannot be read (`Garbled`).

### Fairness

- `TickerSpec`: the clock and the sweep. The ticker is a loop under `safe_run`
  whose sleep is at most fifteen seconds (`ticker:115-160`). Nothing is assumed of
  runner, API or operator: `EveryRunSettles` holds although the runner may stay
  down for good.
- `LoopSpec`: the main loop's wait is bounded by the refresh time, `safe_run` and
  the service manager restart it. Enough threads are not assumed: the code makes
  as many as it needs, the model has few, hence `OutOfThreads`.
- `WorkSpec`: each scheduler worker goes on. All of its requests have timeouts, and
  no two workers wait for each other. Neither the main loop nor the clock is
  assumed fair.
- `TaskSpec`: time and each node's run of its queue, a thread of the ticker that comes
  round every fifteen seconds. Not the posting of tasks, whose process may die.
- `ArchivingSpec`: the loop and its threads (archivers are timed out), the ticker's
  maintenance, time. Starting again after a crash is not assumed beyond that.
- `PoolFairSpec`: each thread goes on; its waits have time limits.
- `LimitFileSpec`: requests keep coming and are served, time passes.
- `BatchSpec`: time, the main thread and each iteration's thread. A request need not be
  answered (no time-out is given for it, `psurl.py:49-50`), hence `Stuck` in the
  property. That a run is ever scheduled is not assumed.
- `LibrarySpec`: the exit handler and its worker, programs, which end or are ended,
  the scheduler's loop (its wait has a time-out) and its workers, and the resolver's
  threads, which do not wait longer than told. A task that the loop passes over stays
  due, and as many of those as there may be workers starve the others, hence the premise
  of `ChangesHeeded`.

## 5. Mutants

Each checked property is broken by a plausible mistake in the code it depends on: only
higher priorities block; a run blocks itself; runs on deck are selected again; runs that
lost their worker are not; any transition is accepted; the sweep skips runs on deck; the
purge counts from the start; a thread goes on when its run is gone. For the scheduler: a
retry does not look at the tries left; the run is kept where it was accepted; a
roll-back deletes nothing; one run over the limit; tries are not counted. For tasks:
only one participant is told; the lead's row is enabled at once; the queue tries new
rows only. Archiving: the loop starts again while its threads live on; half of a record
is written; a row is eligible once; a process stays in the pool when it is taken, is
kept with an answer unread, or is dropped without being counted. Limits: the list is
populated by two threads; a limit on times fails when there are none yet; the file's
time is taken after its content. Batch: a run's end is not waited for; a task that
failed gives no result. Library: a crash is always excused, the environment is updated
only when forced, the registry is looked at but once, the program that was killed is not
forgotten, a connection that failed is dropped only if it had expired, a statement is
retried on the broken connection, every context executes the tool, a quantile is looked
for without its bucket, and so on. The operators stand beside the ones they replace,
marked `Mutant`.

## 6. The theorems

They hold for all values of the constants that satisfy the named assumptions
`ClassAssumption`, `MarginAssumption`, `TableAssumption`, `RunnerAssumption` (types, a
task has a positive duration), `SchedulerAssumption` and `TaskAssumption` (types; a task
has a first participant and none twice), `QueueAssumption`, `LifeAssumption` (times and
levels are numbers), `ArchivingAssumption` (finitely many archivings and threads, of
which there are more than may run at once; each is tried at least once),
`PoolAssumption` (types; there are processes for a pool of its size), `BatchAssumption`
and `LibraryAssumption` (types; what stands for nothing is no number), `FileAssumption`
(types; finitely many threads, and lists that are finite) and `KindsAssumption` (a field
of a calendar wraps from more to less). Values that stand for nothing are none of the
others. Three are about inputs, of any size and number: `PropertiesAssumption` (a limit
file has the parts its schema demands, and one that is valid is not loaded as what
stands for none), `AskedAssumption` (ends, limits and scripts are of the form of their
kind; priorities are numbers, of which `prioritizer.py:68` says only that they must be
integers; answers and packets are what `Url`'s `AreReplies` and `ToolOutput`'s
`IsPackets` state) and `GivenAssumption` (lists are lists; times, attempts and MTUs are
numbers).

The provers have no induction over data: the library's theorems of induction take an
operator. It is done by hand: `Least` (of numbers of which there is one, there is a
least) comes from the library's well-foundedness of `<`, which needs none, and a
statement about a prefix is refuted by the least length at which it fails. What a recursive
function is at an argument has to be shown in the same way, since a definition of one is a
`CHOOSE`: some function meets its equation up to `n` (`MadeExists`), and no two differ
(`MadeOnly`). The modules these theorems use therefore have recursive functions with a
number for an argument where they might have folds.

- `TypeCorrect` (`RunnerProofs`): `Spec => []TypeOK`. `TypeOK` is inductive as it
  stands; one lemma for each group of actions (`RequestType`, `LoopType`, ...),
  `AlteredRow` for the trigger and `WorkerUpdate` for the threads.
- Its safety theorems first classify what a step does to the table (`TableSteps`): it
  is kept (rows removed or moved along the transitions, times cut but not moved),
  a row is posted, committed, a finished result is delivered, or a run is started or
  turned away. The theorems then look at five kinds of steps instead of some
  twenty actions.
  - `Exclusion`: `Spec => []EqualPriorityExclusion`. Inductive with `TypeOK`: only
    a start makes a run running, its check sees every committed row, and kept rows
    only shrink. That shrinking may close a range is why `Kept` says that a row's
    times change only when it ends.
  - `Booking`: `Spec => []DoublyBookedOnlyInRace`, for any number of inserts at a time.
    The invariant is strengthened to `Booked`: any two rows but non-starters, those that
    are over and the uncommitted ones included, are clear of each other if their priority
    is the same, or one was not committed when the other was checked (`RacedInsert`). It
    is kept because what an insert saw it is clear of, times only shrink, and a non-starter
    stays one. What raced is in `beside`; two such inserts do book twice.
  - `Preemption`: `Spec => PreemptedByHigher`, from the same invariant. That rows that
    are over are clear, too, is needed since `run_can_proceed` looks at them.
  - `Purge`: if `RunStraggle <= KeepRuns + KeepActive`, maintenance purges no run
    that is in progress. The premise is about configurables, true of the defaults.
  - `Refinement`: `Spec => LifeSpec`. Each kind of step moves the stage of every
    run along `MayBecome` (`OneWay`, `LifeStep`).
  - `OneTool`: `Spec => []OneToolOnceOnDeck`, whatever statements and commits fail.
    `Single` says that a run with a worker, or about to be given one, that was put on deck
    is never again pending, and that the threads and the main loop's selection share no
    such run. `NotTooFar` shows that the trigger lets the on-deck UPDATE through, however the
    horizon changes: a run gets its data only within the horizon, and a shorter one takes
    the runs beyond it off the table. Runs that were given a worker without being put on deck
    are in `undecked`: after a failing UPDATE, and
    background-multi runs that are selected while they run.

- `SchedulerProofs` has one invariant, `Inv`, for its theorems: the types, what a
  worker knows at each of its steps (`WorkerOK`: whose run its id is, which
  participants accepted it), and, as long as nothing fails, that the rows are exactly
  where the worker believes them (`Exact`). Two lemmas carry most of the argument:
  a step of one task's worker leaves the rows of other tasks' runs alone (`Apart`),
  and given that, only that worker's part of the invariant needs a proof (`Step`).
  - `SchedulerTypeCorrect`: `Spec => []TypeOK`.
  - `Placement`: `Spec => []AllOrNothing`, for any number of tasks, participants and
    workers in each other's way. `Exact` is needed since a roll-back deletes from
    `posted`, not from where the rows are.
  - `DataAfterAll`: `Spec => FullOnlyWhenAllHold`, with failures: a worker in step
    `full` has seen all participants accept, and nobody else deletes its run.
  - `LimitRespected`: `Spec => []LimitKept`, with failures. The code looks at the limit
    once, and a worker may insert any number of runs after that. `LimitInv` relates the
    number of rows to the task's counter, and says that a worker that may yet give
    its lead data (`Early`) is still below the limit; one that has, never tries again.

- `TaskPostProofs`. `PostInv` says, of each task being posted: nobody has it before the
  lead does, where the request is among the participants (`Index`), that no
  participant's copy is older than the lead's (`Younger`), and that those passed have
  it unless the lead's own copy is old enough for theirs to be purged (`PassedHave`).
  Ages are needed because a purge may take a copy away while others are still posted to.
    They are counted from what the purge goes by, which of a task with a start or an until
    is the same on all nodes.
  - `EnablingIsSafe`: `Spec => EnabledOnlyWhenHeld`, by `PassedHave` at the last step.
  - `NothingForgotten`: `Spec => []AccountedFor`. A step touches one task (`Only`), or
    is a run of a queue, a purge, or time; for a run of the queue, every row that leaves
    the queue has disabled a copy or has expired (`Leaving`, `RunAccounted`).
- `ArchivingProofs`. `Working` relates dictionary, threads and loop: what a thread works
  on is taken (in the dictionary, or about to be entered), no more than `max_parallel`
  are taken, and what the loop has still to start is not. `Sending` bounds how often an
  archiving was sent by the faults so far, by one less while its row is open and nobody
  works on it, and in between by the step its thread is at (`Slack`). Each try that is lost
  is a fault; a process that is behind is known by `strayed`.
  - `OneWorker`: `Spec => []OneWorkerEach`; `StoredOnceEach`: `Spec => []StoredOnce`.
- `ArchivingProofs`, of the pool. `PoolInv` says where each process is (pooled, or in the
  hands of one thread at one of two of its steps: `HandsOK`, `InUse`, `NoneLost`), and
  that a thread knows the reset cycle its process is of, so that what it returns after a drain
  is not pooled.
  - `PoolTypeCorrect`: `PoolSpec => []PoolTypeOK`; `PoolFits`: `PoolSpec => []PoolSound`.
  - `AnswersOwn`: `PoolSpec => []OwnAnswer`. As long as nothing has babbled, no process has
    anything unread between requests (`NothingUnread`): whatever was given up on was
    ended.
- `BatchProofs`. `BatchInv` says what each thread of an iteration waits for, which task
  is at work or over (`Followed`), that the results so far are those of the tasks so
  far (`ResultsOK`), and that a thread that is past its wait has the end of its run behind
  it (`TaskOK`), so that a run that is scheduled for a task that follows starts after
  that end (`Apart`).
  - `RunsInOrder`: `Spec => []BatchInOrder`.
- `LimitFileProofs`. `FileInv`: the list of an object that was fetched once is one of
  those that are served, and its length that of one of them, maybe another while it is
  swapped (`ObjectOK`); a thread that updates a list has marked it (`ThreadOK`), so that
  no other begins; and objects that nobody refers to are gone (`Referred`), so that there
  is a number for a new one.
  - `ListsServe`: `Spec => []ListSound`.
  - `VerdictsAreSound`: `Spec => []VerdictsSound`, for any limit files, tasks and hints. The
    verdicts are functions of a file, so the argument is about these. A limit that does not
    look at times is the same with a run's times and without (`LimitSame`; of scripts that is
    a premise), one that does passes without them (`LimitPasses`), so groups without limits
    on times are the same (`GroupSame`) and those with pass if they pass with times, as they
    need any or all of theirs (`GroupPasses`, `MoreMet`); and so each application
    (`ApplicationPasses`) and the set of those that apply (`SetPasses`). Where limits on
    times are turned around it does not hold.
- `LibraryProofs`. In each scene only one part moves, so each part's invariant is proved
  against that part's steps and put into `LibrarySpec` at the end.
  - `CrashesAreSpaced`: `LifeSpec => []CrashesSpaced`: the back-off in the environment, the
    variable and the times of the crashes agree through execs.
  - `LoggingPropagates`: `LifeSpec => []Propagated`. The level and the forced flag agree but
    between the first two assignments of a handler, until a handler has interrupted
    another, after which they may not; the environment is right once no handler runs,
    since the outermost one writes it last (`LogInv`).
  - `ProgramsAreKilled`: `LibrarySpec => []KilledOff`. `ExitInv`: what was condemned when
    the exit began and is still alive is still registered, or is the one at hand, until
    the worker has found the registry empty.
  - `ToolsAreInside`: `LibrarySpec => []ToolInsideContexts`. While the scripts run, those
    before the one at hand are applied, each stage runs the script of its own number and
    executes the next (`ChainInv`).
  - `StaleKeysGo`: `LibrarySpec => []StaleKeyDropped`. `KeyInv`: if the cached key is
    unknown to a server that has forgotten nothing meanwhile, a process is about to drop
    it or about to use it and find out.
  - `ChannelsHold`: `LibrarySpec => []ChannelsSound`, from an invariant for each of its
    three parts. `CacheInv`: no connection is there under two keys, so that dropping one
    key drops the one that failed; nothing that had expired at the last purge is left.
    `HttpInv`: the shared headers are empty or have the type of some data, and whatever a
    thread finds when it sends is the type of its own data, or of data of one that has
    shared its headers since. `DbInv`: connections
    are numbered, those of the query at hand are the last ones, as many as it was tried,
    and all but the one at hand broke.
  - `LimitsDoAgree`: `LibrarySpec => []LimitsAgree`, for any limits, addresses, numbers
    and scripts, in three parts. `EndpointLimitsAgree` takes the case without a source,
    where the destination is tried in all versions that are asked for, apart from the
    one with a source, where the version is fixed and each check sees one address;
    `ValueLimitsAgree` is arithmetic, of single values and of ranges of two.
    `ScriptsAgree` goes along a script: putting its imports first changes nothing of
    what it does (`PartsIs`, `Groomed`), each statement has its effect on the task, the
    mark of a change and the priority (`Effects`), and these add up to what the script's
    list of statements says (`SumIs`, `SumMore`).
  - `DataDoesFit`: `LibrarySpec => []DataFits`, for any results, any number of processes
    and any retry policy they have in common, in three parts. `TypesDoFit` rests on
    `StoredInv`: whatever has been declared, stored or answered is of some process,
    declared before it stores. `AnswersDoFit`: a failed attempt is to wait as the
    policy's segment it falls into says, as it lies between the numbers of attempts up
    to that segment and with it (`WaitsOf`). `ValuesDoFit` goes through the kinds of
    data: a histogram counts each round trip once, by induction over the packets
    (`HistogramCounts`), the MTU of a path is the least of its hops' (`TraceFits`).
- `OutputProofs` goes on from the lemmas of `LibraryProofs` about sequences and histograms.
  - `OutputDoesAgree`: `LibrarySpec => []OutputAgrees`, for packets and hosts of any
    number, in two parts.
    - `PacketsAre`. That the quantiles of the histogram are NIST's is about a loop with a
      state: after each bucket (`After`) the quantiles found so far are those whose place
      is counted, and the value that is kept is the one before the next place, if that lies
      between two values in different buckets. Of one bucket the code looks for up to four
      quantiles (`Look`); this is right as two of them are never between the same two
      neighbours inside the sample (`Places`): the code keeps one value, and drops it with
      the first quantile it serves. That they are near those of the delays themselves
      follows as rounding keeps the order, so that the value of a rank in the histogram
      is the bucket of the delay of that rank (`RankedBucket`), which is at most half a
      bucket away (`BucketIs`), and so is what lies between two (`Between`).
    - `AnswersAre`: what a server answers is heard, whatever other hosts answer.

Model-checked only: the liveness properties, which are out of the prover's reach, as is
anything about `ENABLED`. Every safety property of a passing run is stated by a theorem; but
for `Purge`, whose premise is about configurables, none has a premise beyond the
assumptions.

## 7. Not modelled

- Row locks and deadlocks (item 9): only as far as `TaskLocked`; that PostgreSQL
  aborts one side of a deadlock is outside the code.
- `api_proposed_times` for runs of any length, cron-style repeats, start and until times,
  and the monitoring views (item 10); the bound on the scheduler's parallel workers.
- What `task_alter` derives from a task's JSON (participants, duration, limits on runs)
  and the validation of packages by test plug-ins: a package is valid or the request
  ends before anything is stored.
- The API's read-only and administrative handlers, JSON views, formatting; heartbeat
  and boot tables (status only).
- The maintainer of the default archives, which copies a directory into a table.
- JSON schemas (`jsonval.py`, the plug-ins' `validate.py`): data without behaviour;
  of the limit file's only what is said of `run-schedule`.
- The parsers of nuttcp, iperf2 and iperf3: what they make of a line depends on what the
  tools print, of which the repository has but samples, and an input that was assumed to be
  of a form would prove that form.
- Conversions without state: ISO 8601, SI numbers, URLs; test helpers (`unittesting.py`).
- The command line, the test, tool and context plug-ins' command lines and regular
  expressions, archivers other than Esmond and RabbitMQ: they keep no state shared with
  the rest.
- Third-party and generated code, packaging.
