# TLA+ models of bullmq-rs

bullmq-rs is a job queue: clients add jobs to Redis, workers claim them, run a
handler and report the outcome. All state that matters is in Redis and is changed
by Lua scripts (`src/lua/`), which Redis runs one at a time; the Rust crate
(`src/src/`) decides when to call which script and keeps a little state of its own
in each worker.

This directory holds TLA+ modules of that system, TLC configurations that check
them on small instances, and proofs checked by TLAPS.

## 1. The system

| Component | State | Operations | Hard behaviour |
|---|---|---|---|
| **Queue scripts** `lua/*.lua`, called from `queue.rs`, `job.rs`, `worker.rs` | per queue: lists `wait`, `paused`, `active`; sorted sets `prioritized`, `delayed`, `completed`, `failed`, `marker`; set `stalled`; `meta.paused`; `limiter`. Per job: a hash and a lock key with a time to live | add (plain, prioritised, delayed), claim, finish, delay, retry, back to wait, extend lock, stalled check, pause/resume, promote, change priority, bulk retry/promote, remove | interleaving of all callers; locks that expire under a running handler; crashes; calls on a job in another state than the caller thinks |
| **Worker** `worker.rs` | permits, `active_jobs`, the fast-path channel and its counter `prefetched`, `limit_until`, paused and shutdown flags | fetch loop, handler tasks, lock renewal every `lock_duration/2`, stalled checker, pause, cancel, shutdown | marker popped before the claim; prefetch against pause and shutdown; renewal against expiry |
| **Flows** `flow_producer.rs`, `addParentJob-6.lua`, `includes/*Parent*` | `waiting-children`, a set of pending children and a hash of processed ones per parent | add a tree (INCRBY, WATCH, EXISTS, MULTI/EXEC), release of a parent by its last child, removal, `get_dependencies` | the window between check and EXEC; children that fail or are removed; two reads that are not one |
| **Schedulers** `*JobScheduler*.lua`, `repeat.rs` | sorted set `repeat` and a hash per scheduler | upsert, remove, next iteration after each finish | the chain lives in two calls that may be separated by a crash, an upsert or a removal; job ids are slots of time, which other jobs may have |
| **Order** `getPriorityScore`, `getDelayedScore`, list ends | counters `pc`, scores | which job is next | counters wrap, a millisecond has 4096 slots, LPUSH against RPUSH |
| **Deduplication** `deduplicateJob`, `removeDeduplicationKey*` | key `de:<id>` with or without expiry | add, finish, remove | keys whose owner is gone |
| **Rate limiter** | key `limiter` with expiry | counted at each claim | claims refused while jobs wait |
| **Retention** `drain`, `clean`, `obliterate` | the same keys | batches of deletions | not atomic; other callers in between |
| **Events** `queue_events.rs`, `Job::wait_until_finished` | an event stream, the task's `last_id`, a broadcast channel | publish, read, subscribe, wait | an event missed between check and wait, or while the task reconnects; a subscriber that lags |
| **Metrics, logs, progress, connection, script loading** | write-only keys, settings | - | no transition depends on them |

Interactions. Clients and workers share nothing but Redis. A worker's loop blocks
on `marker` (`BZPOPMIN`), then calls `moveToActive`; the script that finishes a job
(`moveToFinished`) also claims the next one and returns it, so a worker's normal
rhythm is one script per job. `addX` and every script that makes a job wait set the
base marker. A claim writes a lock with the worker's token; the worker renews it,
and a stalled checker in some worker returns active jobs whose lock is gone.

What makes each component correct:

* queue scripts: a job is in one place, is executed by one handler at a time, moves
  only along its life cycle, is never lost, is signalled when it waits, and ends up
  processed;
* worker: no claimed job is left without a handler or a renewal, `pause(false)`
  returns only when nothing runs, concurrency is respected, shutdown strands nothing;
* flows: a parent runs after all its children and does run; a tree is added whole or
  not at all;
* schedulers: at most one, and in the end exactly one, pending iteration;
* order: priority first, then age; delayed jobs in the order of their times;
* deduplication: one live job per id, and a finished job frees its id;
* retention: what is kept is complete, what is removed leaves nothing behind;
* events: a wait returns once the job has finished.

`PROJECT.json` lists the components with their status, and under `hazards` the
places where the code is hard to test.

## 2. Modules

| Module | Content |
|---|---|
| `JobQueue` | one queue: its keys, one operator per script or shared include, one action per call; the properties of the queue |
| `JobLifecycle` | abstract: the states of a job, the steps between them and who holds it |
| `JobQueueRefinement` | the mapping under which `JobQueue` implements `JobLifecycle` |
| `JobQueueClaims` | statements of comments and docs that the code contradicts |
| `MCJobQueue` | definitions for TLC |
| `JobQueueProofs` | theorems about `JobQueue` for every value of its constants |
| `JobQueueExclusion` | theorems for a queue without stalled checker: one place per job, one handler per job, the refinement of `JobLifecycle` |
| `JobQueueAttempts` | theorems on `JobOptions::attempts` |
| `WorkerLoop` | one worker: its loop, its tasks, the caller of its handle, and the server as the worker sees it |
| `WorkerLoopClaims` | statements of comments and docs about the worker that the code contradicts |
| `MCWorkerLoop` | definitions for TLC |
| `WorkerLoopProofs` | theorems about a worker with any number of slots and jobs |
| `Flow` | trees of jobs: producers that add them, jobs that run, finish and are removed, parents that are released |
| `Scheduler` | one scheduler: its callers, its chain of iterations, the workers that continue the chain |
| `Events` | the event stream, the task of `QueueEvents`, its broadcast channel, `wait_until_finished` |
| `SchedulerClaims`, `EventsClaims` | statements of comments and docs that the code contradicts |
| `MCFlow`, `MCScheduler`, `MCEvents` | definitions for TLC |
| `FlowProofs`, `SchedulerProofs`, `EventsProofs` | theorems about `Flow`, `Scheduler` and `Events` for every value of their constants |

The modules meet in the scripts they share. `JobQueue` has the lists, locks and retries
of a job without parent or scheduler; `WorkerLoop` takes its scripts as `JobQueue` states
them and adds the threads; `Flow` keeps one place per job, which `OnePlace` of `JobQueue`
permits, and adds what the same scripts do to a parent; `Scheduler` adds the second call
a worker makes after a finish; `Events` adds what a finish appends to the stream.

### How `JobQueue` corresponds to the code

The variable `q` is a record with one field per Redis key, or per field of the job
hashes that a transition reads. A Lua script is atomic, so each call is one action
whose next value of `q` is a composition of operators in the order of the script's
commands; includes shared by scripts are shared operators (`AddBaseMarkerIfNeeded`,
`RPushTarget`, `PromoteDelayedJobs`, ...). `runs` is the set of handlers in
execution, each with what its worker was told about the job (worker, attempt,
attempts made, priority); `alive` the workers whose process lives.

| Field | Redis |
|---|---|
| `wait`, `paused` | the lists, left end first |
| `active` | how often the list `active` holds a job (its order is never used) |
| `prioritized`, `delayed`, `completed`, `failed`, `stalled` | members of the sorted sets and the set; scores are left out |
| `lock` | the value of `<id>:lock`, or `NoToken`; a worker's token is the worker |
| `isPaused`, `marker`, `limiter` | `meta.paused`; the members of `marker`; the counter |
| `hash` | no hash, a hash written by an add, or a bare hash that HSET/HINCRBY recreated |
| `priority`, `atm`, `stc` | hash fields |
| `ats` | claims of the job id; unlike the hash field it survives a removal, so that it tells runs of one id apart |

| Action | Code |
|---|---|
| `AddStandardJob`, `AddPrioritizedJob`, `AddDelayedJob` | `Queue::add` with the three scripts; an id that exists is returned unchanged |
| `MoveToActive` | `moveToActive-11.lua` with `prepareJobForProcessing` |
| `HandlerOk` | `moveToFinished-14.lua`, target completed, with or without the fetch of the next job |
| `HandlerErr` | `moveToDelayed-8.lua` while attempts remain, else `moveToFinished` with target failed |
| `HandlerRateLimited` | `moveJobFromActiveToWait-9.lua` |
| `HandlerRejected`, `HandlerCancelled` | the script's refusal, and a handler dropped by `cancel_job`: nothing is written |
| `HandlerMoves` | `Job::retry`, `change_delay`, `move_to_completed`, `move_to_failed` called by a handler that goes on running |
| `ExtendLock`, `LockExpires` | `extendLock-2.lua` (and `extendLocks`, its loop); the key's PX |
| `Crash` | the death of a worker process |
| `MoveStalledJobsToWait` | `moveStalledJobsToWait-8.lua` |
| `Pause`, `Resume`, `Promote`, `PromoteJobs`, `RetryJobs`, `ChangePriority`, `RemoveJob`, `RateLimit` | the calls of the same names |

What is abstracted. Time is left out: a delayed job may be due at any claim, a lock
or a limiter may expire at any moment. Among jobs of one priority, and among delayed
jobs due together, any may come first. The pop of the marker before a claim belongs
to the worker: `MoveToActive` may happen whether or not a marker is there, which is
what a worker does when `BZPOPMIN` times out, so `Signalled` is a statement about
the scripts and not about the loop. `Queue::get_next_job` is the same script and its
caller counts as a worker. `meta.concurrency` is written by nothing in the crate, so
the queue is never "maxed" by it. Parents, schedulers, deduplication, retention
options, events and metrics inside these scripts are left to the modules of the plan;
a job here has no parent, no scheduler and no deduplication id.

`Env` names the optional events of an instance (a stalled checker, lock expiry,
cancellation, each family of client calls). What a queue guarantees depends on it:
with `skip_stalled_check` execution is exclusive, with the stalled checker it is not,
because the checker also takes jobs that were claimed since the last lock extension
(see the findings).

### How `WorkerLoop` corresponds to the code

`worker.rs` starts one task for the loop, one per job, and background tasks for lock
renewal and the stalled check; the handle is used from anywhere. A step of the model
is what one of them does between two accesses to something shared: an atomic, the
semaphore, the channel, `active_jobs`, a watch flag, or Redis. Local computation, the
callbacks and the local events between such accesses belong to the step before.

| Variable | Code |
|---|---|
| `setup` | `WorkerOptions::concurrency`, with the jobs and the optional events of an instance |
| `loop` | where the loop is, the job in its hand, and whether it holds `fetch_permit` |
| `tasks` | one record per slot: where the task is, its job, and the job its `moveToFinished` returned |
| `permits`, `channel`, `prefetched`, `activeJobs`, `limitUntil` | the semaphore, `next_job_tx/rx`, the atomic counter, `active_jobs`, whether `limit_until` is in the future |
| `paused`, `unseen` | the watch channel of the pause flag: its value, and whether `changed()` would return at once |
| `pauser` | a caller of `pause(false)`, who then resumes |
| `shutdown` | the watch channel of the shutdown flag |
| `srv` | of each job: the places it is in (waiting, delayed, active by this worker; none if it is elsewhere); the locks this worker has; the stalled set; the markers; whether the limiter is full |

| Actions | Code (`worker.rs`) |
|---|---|
| `Bootstrap`, `TakePrefetched`, `CountOut`, `FindNothing`, `Wake` | the head of the loop (480-540); `try_recv` and the `fetch_sub` after it are two steps |
| `AcquireForFetch`, `PopMarker`, `EndSleep`, `MoveToActive`, `EndLimit` | permit, `BZPOPMIN`, delay marker, claim, limiter (541-809) |
| `Unreadable`, `Readable`, `AcquireForStart`, `Spawn` | a job in hand (810-885) |
| `Break`, `Drain` | the `break`s at shutdown and the end (1266-1280) |
| `Register`, `Succeed`, `MoveToFinished`, `MoveToFinishedFetch`, `RegisterNext`, `Count`, `Send`, `Uncount`, `Unsend`, `Leave` | a task whose handler returns Ok (884-1021, 1257); a `try_send` that fails, its `fetch_sub` and the removal from `active_jobs` are three steps |
| `Fail`, `FailRateLimited`, `Cancelled`, `Panic` | the other ends of a handler |
| `Pause`, `PollCounter`, `PollPermits`, `Resume`, `Shutdown` | `WorkerHandle` |
| `ExtendLock`, `LockExpires`, `StalledCheck` | the renewal, which also takes a job out of the stalled set; the key's PX; the check of any worker, which takes every active job without a lock and every member of the stalled set |

What is abstracted. The queue is not paused; two entries of a job in one list count as
one. A job that a stalled check gave back while its handler runs may wait and be active, as
in the code, and a lock stays with it until another worker's claim overwrites it. A job
that another worker has is in none of the places, and may arrive again whenever it is. The lock
renewal runs twice per lock duration: the lock of a registered job does not expire
before the shutdown, nor does that of a job whose registration is the next thing the
worker does with it (`Renewed`); every other lock may expire at any moment. A handler
that is cancelled and returns in its grace period is one that returned. Failing calls
of Redis are left out, and a handle that is dropped without a shutdown.

### How `Flow` corresponds to the code

| Variable | Code |
|---|---|
| `srv.counter`, `srv.hash`, `srv.place` | the key `id`; a job's hash (parent, options, and as a history variable who added it); the one list or set the job is in |
| `srv.deps`, `srv.processed` | `<job>:dependencies` and the fields of `<job>:processed` |
| `adds` | the calls of `FlowProducer::add`: where the call is, its tree, the ids it computed, whether a key it watches was written, its result, and as history the hashes its EXEC created |
| `reader` | a handler between the two reads of `Job::get_dependencies` |

| Action | Code |
|---|---|
| `PrepareNodes` | INCRBY for the automatic ids, `prepare_node`, the check for a key that occurs twice |
| `Watch`, `EnsureJobKeyDoesNotExist` | WATCH of all keys; one EXISTS per key |
| `Exec` | MULTI, what `queue_insert` queued per node, EXEC, `validate_exec_result` |
| `LoseConnection` | an I/O error, or a caller that drops the future: nothing is written |
| `AddJob`, `MoveToActive`, `MoveToCompleted`, `MoveToFailed`, `RetryJob` | `Queue::add` with an id, a claim, `moveToFinished` with its part on parents, `Queue::retry_jobs` |
| `RemoveJob` | `removeJob-2.lua` with `removeParentDependencyKey` |
| `StallTooOften` | the branch of `moveStalledJobsToWait-8.lua` for a job over its stalled limit, which puts it in no set: place `lost` |
| `ReadProcessed`, `ReadUnprocessed` | HGETALL and SMEMBERS of `get_dependencies` |

What is abstracted. `add` takes a connection of its own, so its watches are its own. All
jobs are in one key space, which stands for the queues a flow may span (a key is a queue
and an id). Pause is left out: it only chooses between two lists; so is a stalled check that
puts a job back, with which a child may be in two places and run twice (`JobQueue` has that). The history variables
`by` and `wrote` change no step. A reply of EXEC that is lost makes `add` return `Err`
although the tree is written, as in the code.

### How `Scheduler` corresponds to the code

| Variable | Code |
|---|---|
| `now` | the clock, in slots; every caller reads it before its script and may be late |
| `srv.next`, `srv.hash` | the score in `repeat`; the hash `repeat:<id>` with its options and `ic` |
| `srv.jobs` | the job `repeat:<id>:<slot>` of each slot: its places, lock, options, iteration count and `prevMillis` |
| `client` | a call of `upsert_job_scheduler` between what it computes and its script |
| `worker` | a handler, and after its finish the two parts of `schedule_next_repeatable_job` |
| `hist` | history: iterations made since the last upsert, whether a slot was used twice, whether the chain was broken by one of the ways named below |

| Action | Code |
|---|---|
| `UpsertJobScheduler`, `AddJobScheduler`, `UpsertLost` | `Queue::upsert_job_scheduler` up to the script, `addJobScheduler-11.lua`, a call that does not arrive |
| `RemoveJobScheduler` | `removeJobScheduler-3.lua` |
| `StartJob`, `FinishJob`, `FailForNow` | a claim; a finish, refused or not; a failure with attempts left, which delays the job |
| `ScheduleNext`, `UpdateJobScheduler` | `schedule_next_repeatable_job` (`worker.rs`) up to the script; `updateJobScheduler-12.lua` |
| `WorkerStops`, `Stalled` | a worker or connection lost at any point; the stalled check, which takes a job with or without its lock and loses one over the limit (place `lost`) |
| `Promote`, `RetryJob`, `RemoveJob`, `Drain` | the calls of the same names on an iteration |

What is abstracted. One scheduler, because its id is part of every key. Priorities and
pause only choose the list and are left out, as are templates, data and time zones; cron
expressions are the times they match. An offset of 0 is one that is not given. An id that a
removal leaves in a second list, after a stalled check of a running job, is not kept. A call that
returns `Err` after its script ran (an upsert whose template data are missing) is a call
that ran.

The properties hold of a chain whose slots are not used twice (`hist.reused`; the runs
stop there). A scheduler that is removed, or replaced, and registered again may compute a
slot that a late worker still holds: the worker's update is then taken for that of the new
iteration, which leaves an iteration with old options or outside the chain. `hist.broken`
names the other ways in which a chain ends without a word: a worker lost between finish
and update, an iteration lost as too often stalled, drained, or removed by an upsert
that then finds its slots busy, and a successor whose id another job has (the script
reports "duplicated" and adds none).

Seen in the same model and not stated as properties: `ic` falls behind the iterations
produced, which `types.rs:342` says it counts, because an upsert makes one without
counting it; an upsert starts the count anew, and with it `limit`.

### How `Events` corresponds to the code

| Variable | Code |
|---|---|
| `jobs` | the place of each job as `check_finished` sees it, and as history the outcomes it has had |
| `stream` | the entries of the stream |
| `reader` | the task of `QueueEvents`: `last_id`, a blocked XREAD or the reply it goes through, the shutdown flag |
| `sent` | all that was sent into the broadcast channel; a receiver sees the last `Capacity` of it |
| `waiters` | calls of `Job::wait_until_finished` |

| Action | Code |
|---|---|
| `Finish`, `RetryJob`, `RemoveJob`, `Publish` | scripts that append an event in the step that changes the job; `QueueEventsProducer::publish` |
| `ReadCall`, `ReadTimesOut`, `ReadFails`, `Deliver`, `Shutdown`, `Stop` | the loop of the task, one entry of a reply at a time |
| `Subscribe`, `CheckCompleted`, `CheckFailed` | `subscribe`, and the two questions of `check_finished` |
| `Receive`, `Lagged`, `TimeOut` | `recv`, `RecvError::Lagged`, the `ttl` |

What is abstracted. The stream is not trimmed (MAXLEN ~10000), an event has no fields
beyond its job, and nobody publishes custom events under the built-in names.
`RecvError::Closed` cannot happen while a call waits, since `QueueEvents` keeps a sender:
after a shutdown a call without `ttl` waits for ever, which is why `WaitReturns` excepts
it. A job that is removed at its finish and whose event a lagging channel drops is never
reported either (`jobs[j].at \notin Outcome` there), and an event that is delivered late
answers a waiter although the job has been retried since; `AnswerTrue` says what remains.

## 3. Runs

| Run | Instance | Question |
|---|---|---|
| `queue_exclusive` | 2 jobs, 2 workers that may crash, priorities 0 and 1, 2 attempts, rate limit 1, no stalled checker | is a job in one place (`OnePlace`), executed by one handler (`SoleRun`), active while locked (`LockedIsActive`), signalled (`Signalled`), and on its life cycle (`ImplementsLifecycle`), while locks expire, handlers are cancelled, the queue is paused, priorities of waiting jobs change and finished jobs are retried in bulk? |
| `queue_client_calls` | 2 jobs, 2 workers, no stalled checker | the same for removals, re-adds of an id and handlers that move their own job; does a living worker hold a lock only while it runs the job (`LockHeldByRun`)? |
| `queue_any_call` | 1 job id, 2 workers, every event | what survives when the stalled checker and `change_priority` of jobs in any state are added: types (`TypeOK`), no lost job (`NeverLost`), an empty paused list after resume (`PausedListOnlyWhilePaused`) |
| `queue_liveness` | 1 job, one worker that may crash and one that does not, stalled checker, expiry, cancellation, fairness | is every job processed in the end (`EventuallyProcessed`), and claimed boundedly often (`StartsBounded`)? |
| `claim_over_limit` | 1 job | does a job that stalls too often move to failed? |
| `worker_loop` | one worker in eight surroundings: one slot with three jobs and pause; one slot, two jobs, and failures, delays, limits, other workers, panics, shutdown; one slot, two jobs, failures, pause; two slots with two jobs; two slots with one job and nearly every event; and beside a stalled check, one slot with two jobs and other workers, one slot with one job, failures, pause and shutdown, two slots with one job and failures | do slots and the prefetch counter add up on every path (`SlotsCounted`, `PrefetchCounted`); does a saturated worker leave the markers to others (`SaturatedTakesNoMarker`); do handlers run under their locks (`RunsUnderItsLock`, one slot, no stalled check); does `pause(false)` wait for handlers and a shutdown for tasks (`PauseWaitsForHandlers`, `StoppedIsQuiet`, `ShutdownStops`); does no job wait beside an idle worker, and does every claim end (`NotIdle`, `ClaimEnds`)? |
| `flow` | two producers, ids 1 to 3, and five trees (two children; automatic ids with a delayed parent; three levels with a priority and a delay; an id twice; a deduplicated leaf), a client that adds id 2, a job 2 that may stall too often, a reader of job 1 | is a tree reported as added only if it is whole, and gone if it was refused for its keys (`FlowWhole`), without touching a job that exists (`FlowAddsOnlyNewJobs`); does a parent wait for its own children (`ParentWaits`) and for nothing else (`BlockedByChildren`); is it released in the end unless a job below it failed or was lost as stalled (`ParentReleased`), and does its handler read the values of all of them (`ChildrenValuesComplete`)? |
| `scheduler` | one client, two workers, three slots, two clock readings, two intervals (one with limit 2 and an end date, one with limit 1 and a start date), a cron pattern that starts at once with limit 3, one mishap | does the chain live (`ChainAlive`), keep its limit (`LimitKept`) and the options of the latest upsert (`LatestOptions`), without orphans (`NoOrphan`)? |
| `events` | two jobs, one waiter, a channel of one entry, a stream of three, one failed read, both ways to start | does each entry arrive once and in order (`Gapless`), are answers true (`AnswerTrue`), and is a waiter answered (`WaitReturns`)? |
| `claim_no_lock_stalled` | one job, two workers, no lock expires, no crash | does a stalled check leave a locked job alone? |
| `claim_scheduler_collision` | one client, two workers, one pattern, no mishap | does an upsert leave jobs alone that are not updatable? |
| `claim_missed_event` | one job, one waiter, `last_event_id` "$" | is no event missed by a waiter that has subscribed first? |

The passing runs show that the properties hold in every reachable state or behaviour
of their instance. `ImplementsLifecycle` is a refinement: `Job::get_state`'s order of
the lists gives the abstract state of a job and its lock the abstract holder; every
step of the queue is then a step of the abstract module. It says that only the holder
of a job's lock settles it, and that one step settles or starts jobs for one worker
only.

Bounds. `MaxStarts` limits the claims of one job id (2 in the safety runs: a second
claim by another worker while the first handler still runs, the case all exclusion
properties are about; 6 in the liveness run, and `StartsBounded` shows that this limit is
never met there, so it cuts off no behaviour). Two jobs suffice for the places where
jobs meet: order in a list, `moveToFinished` finishing one and claiming another, bulk
calls, the limiter. Two workers suffice for two tokens. In `queue_any_call` calls on
jobs in the wrong state duplicate list entries without limit, and the constraint
`ShortLists` keeps both lists to three entries together; a duplicate beside an entry
and a push in between fit in that. Symmetry is used in the safety runs only.

For `worker_loop`: three jobs are what it takes to find the channel of one slot full (one
in the channel, one running that finishes before the loop looks, one to prefetch), two
slots what it takes for two tasks of one job id or a task that ends while another
prefetches. No counter is cut off: jobs come and go without limit and every variable is
finite by itself. The surroundings are initial states of one run, so that each hazard
is met without the product of all of them; the stalled check, which may put any running job
back in wait, has three of them, with the events it meets.

For `flow`: two producers with the same small ids are what the watched window needs
(another producer, a plain add or a removal between any two of its commands), three ids the
largest tree and a chain of three levels; automatic ids start at 1 and so meet the given
ones. One id may exceed its stalls (`Stalling`): 2, which is a child with a sibling, one
above a child of its own, and the plain job. Nothing else is bounded but the ids themselves.
The producers are interchangeable, so of two initial states that differ only in who adds
which tree the run takes one (`SomeInit` in `MCFlow`). For `scheduler`: the slots 1, 2 and 5
hold a chain of three, and the clock jumps over a slot from 1 to 4, so that an iteration is
late, early (promoted) or on time; `MaxMishaps = 1` allows one loss, failure or
interference per behaviour, beside any number of upserts, removals and promotions; a
call that would need another slot is cut off. For `events`: a channel of one entry lags as
soon as two entries are sent, and a stream of three holds a finish, a retry and a second
finish, or the other job's events around it.

Deadlock is checked in every run except `events` and its claim, where the system may
stop: every job is done and the task is shut down.

Fairness (`Fairness` in `JobQueue`), for `queue_liveness` only, and why the code
gives it: the loop of a worker that lives calls `moveToActive` again and again, if
not for a marker then because `BZPOPMIN` times out after five seconds (`worker.rs:747`);
a delay is finite, so a job is not left delayed by every claim; handlers return and
report (`worker.rs:910`); a lock that no handler renews runs into its PX; the stalled checker runs on a
timer (`worker.rs:433`). Nothing is assumed about workers that may crash, nor about
expiry of a lock that is renewed.

Fairness of `WorkerLoop`: the loop, each task, and the caller of `pause` are scheduled
(tokio tasks that are ready run; the semaphore is fair and only the loop takes single
permits); handlers return; `BZPOPMIN` and every sleep have a time-out; a lock that nobody
renews expires. No job has to arrive, no stalled check, resume or shutdown has to
happen, and other workers may take every marker without claiming.

Fairness of `Flow`: workers keep claiming what waits, for the reasons above, and a claimed
job ends, well or badly. Producers and clients owe nothing. Fairness of `Events`: the
runtime runs the task (a reply is delivered, a new XREAD is sent) and a waiter that has
something to receive or to ask. Neither a finish, a timeout nor a failed read has to happen.
`Scheduler` has safety properties only.

### Findings

* `claim_over_limit`: `moveStalledJobsToWait-8.lua:77` says "Too many stalls: move to
  failed". The job leaves `active`, its hash gets a reason, and no set gets the job.
* `claim_no_lock_stalled`: `moveStalledJobsToWait-8.lua:53` says "no lock = stalled". The
  script takes every member of the `stalled` set, into which each claim puts its job until
  the first extension: a check in that window counts a stall of a locked, running job and
  puts it back in wait, where another worker claims it and overwrites the lock.
* `claim_scheduler_collision`: `addJobScheduler-11.lua:193` takes a collision for one with
  the pending iteration it has just removed. A late upsert of a pattern so writes over a
  completed, failed or active job of the slot it computed, which is then in two places;
  the comment at line 160 says such jobs are not updatable.
* `claim_missed_event`: with `last_event_id` "$" (the default) each XREAD resolves "$" anew
  until a first entry has come. What is appended in between is missed by everybody, so the
  order "Subscribe first (before checking Redis) to avoid missing events" (`job.rs:715`)
  does not suffice.

The claims modules state more sentences of the source, which TLC refutes in the same way
with the configurations of the same names; they are not among the listed runs:

* `MovesToPrioritized` (`claim_change_priority.cfg`): `job.rs:566` says `change_priority`
  "moves job to the prioritized sorted set". A job that is delayed, active or finished is
  added there and stays where it was.
* `PrefetchedIsRenewed` (`claim_prefetched_renewed.cfg`): `worker.rs:847` says waiting for a
  slot is safe for a prefetched job because its lock is renewed. A task of an earlier run of
  the job unregisters the id after its callbacks, which may be after the job was delayed,
  prefetched and registered again by the other slot's task; the job then waits without
  renewal.
* `PauseReturns` (`claim_pause_returns.cfg`): `worker.rs:142` says `pause(false)` returns when
  the jobs in flight have finished. A task reads the flag before `moveToFinished` and sends
  the job it got after it; if the pause comes in between and the loop already waits for the
  resume, which does not watch the channel, the job stays there and `pause(false)` never
  returns.
* `RemovalTakesPending` (`claim_scheduler_removal.cfg`): `queue.rs:1167` says
  `remove_job_scheduler` removes the pending iteration. One that is due or promoted waits
  in the queue and runs.

Seen in the same model and not run as claims: `pause(false)` can also return too early,
with a job about to run, because the counter and the permits are read one after the
other (`PauseWaitsForHandlers` states what does hold); a worker that waits for a permit
or a marker when it is paused fetches one more job; the channel of `concurrency` places
can be full, so the comment at `worker.rs:350` is too optimistic; the job of a handler that
panics stays registered and is renewed for ever (the exception in `ClaimEnds`). In `Flow`:
`get_dependencies` may miss a child that completes between its two reads when it is called
by anyone but the parent's handler; the removal of the last child puts the parent into the
wait list whatever its delay or priority; a child that the stalled check has given up keeps
its parent blocked, and as `retry_jobs` does not find it, only its removal releases the
parent (`ParentReleased`); a leaf with a deduplication id makes its script fail inside EXEC,
because `flow_producer.rs:431` gives it no deduplication key, and as the other scripts have
run, `add` returns the error and the parent stays, blocked by a child that does not exist.
Read in the code only: `drain` takes a child out of its parent's set without releasing the
parent.

## 4. Proofs

Every safety property that a passing run checks is also proved, for every value of the
constants that meets the named assumptions of the modules (TLC evaluates these in every
run) and, where the code needs it, for certain sets `Env` of events only.

| Module | Theorem | Property |
|---|---|---|
| `JobQueueProofs` | `TypeCorrect`, `NeverLostHolds`, `PausedListDrained`, `SignalledHolds` | `TypeOK`, `NeverLost`, `PausedListOnlyWhilePaused`, `Signalled` |
| `JobQueueExclusion` | `OnePlaceHolds`, `LockedIsActiveHolds`, `LifecycleImplemented` | `OnePlace`, `LockedIsActive`, `ImplementsLifecycle`, if `Undisturbed` |
| | `SoleRunHolds` | `SoleRun`, if `Undisturbed` and `LeftAlone` |
| | `LockHeldByRunHolds` | `LockHeldByRun`, if `Undisturbed` and nothing is cancelled |
| `JobQueueAttempts` | `AttemptsKept`, `StartsBoundedHolds` | `StartsBounded`, if `Undisturbed`, `LeftAlone` and `NoMoreChances` |
| `WorkerLoopProofs` | `WorkerTypeCorrect`, `SlotsCountedHolds`, `SaturatedTakesNoMarkerHolds`, `PrefetchCountedHolds`, `StoppedIsQuietHolds`, `PauseWaitsForHandlersHolds` | `TypeOK`, `SlotsCounted`, `SaturatedTakesNoMarker`, `PrefetchCounted`, `StoppedIsQuiet`, `PauseWaitsForHandlers` |
| | `RunsUnderItsLockHolds` | `RunsUnderItsLock` (which speaks of one slot and no stalled check) |
| `FlowProofs` | `FlowTypeCorrect`, `FlowWholeHolds`, `ParentWaitsHolds`, `BlockedByChildrenHolds`, `ChildrenValuesCompleteHolds`, `FlowAddsOnlyNewJobsHolds` | `TypeOK`, `FlowWhole`, `ParentWaits`, `BlockedByChildren`, `ChildrenValuesComplete`, `FlowAddsOnlyNewJobs` |
| `SchedulerProofs` | `SchedulerTypeCorrect`, `ChainAliveHolds`, `LimitKeptHolds`, `LatestOptionsHolds`, `NoOrphanHolds` | `TypeOK`, `ChainAlive`, `LimitKept`, `LatestOptions`, `NoOrphan` |
| `EventsProofs` | `EventsTypeCorrect`, `EventsGapless`, `EventsAnswerTrue` | `TypeOK`, `Gapless`, `AnswerTrue` |

### The queue

`JobQueueProofs` proves for any finite set of jobs, any workers and priorities, any
bounds and any `Env`:

| Theorem | Statement |
|---|---|
| `TypeCorrect` | `Spec => []TypeOK` |
| `NeverLostHolds` | `Spec => []NeverLost`: a job that exists and has not stalled too often is in some list or set |
| `PausedListDrained` | `Spec => []PausedListOnlyWhilePaused` |
| `SignalledHolds` | `Spec => []Signalled` |

The only assumption is `ParametersAssumption` of `JobQueue` (`Job` is finite, the
numbers are naturals, `Crashable` is a set of workers, `Env` a set of known events);
TLC evaluates it in every run.

The inductive invariant is `IInv == TypeOK /\ Steady(q)`, where `Steady(s)` says of a
server record `s` that it is well typed, that every job which may not be lost is
somewhere (`Kept`), that the paused list is empty unless the queue is paused
(`Drained`) and that a waiting job is signalled (`Sent`). `NeverLost` counts places
with `Places(q, j) > 0`; the invariant says it as a disjunction, because the provers
do not mix counting with membership. `Drained` is needed for `Kept`: a removal or a
change of priority searches the paused list only when it has reason to.

A script passes through records in which a job has left one list and not yet entered
the next. The lemmas therefore speak of `OnTheWay(s, J)`: all but the jobs of `J` are
kept. Each operator of `JobQueue` has a lemma that says which jobs it takes on the
way and which have arrived: `Released` adds a job to `J`, `Pushed` and `PutInSet` take it
off, `Touched` adds a job whose hash comes back, `BaseMarker` restores `Sent`. They
rest on one lemma per kind of key (`WaitBecomes`, `SetBecomes`, `ActiveBecomes`,
`PlacesStay`) and on facts about the list commands (`ToSetFront` for RPOPLPUSH,
`LRemFirstType` and `LRemAllType` for LREM, `OrdersType` for a batch). A lemma per
group of calls puts them together, `StepSteady` has one step per action.

### One place, one handler

The theorems of `JobQueueExclusion` have hypotheses on `Env`, each of which names calls
with which the code does break the property:

| Hypothesis | Leaves out | Because |
|---|---|---|
| `Undisturbed` | the stalled checker; `change_priority` of jobs that do not wait | the checker requeues running jobs (`NoLockMeansStalled`), the call copies a job into a second set (`MovesToPrioritized`) |
| `LeftAlone` | handlers that move their own job; removals | the handler goes on running beside the next one; an unlocked job can be removed under its handler and added anew |
| no `"cancel"` | `cancel_job` | a handler that is dropped leaves its lock behind |

All other events are allowed in any number: expired locks, crashes, late reports, pauses,
bulk calls, rate limits. `queue_exclusive` and `queue_client_calls` are instances, and the
two claims are TLC's answer if `Undisturbed` is dropped.

The places of the jobs are seven keys, some of them lists in which a job could be twice.
The invariant says it with one map `f` from jobs to places: `Ruled(q, f)` ties each key to
`f` (a list repeats nothing and holds the jobs that `f` puts there), says that the hash is
there exactly if the job is somewhere, and that a locked job is active. An operator of
`JobQueue` then does to `f` what it does to the keys: the lemmas `...Placed` and `...Ruled`
state it as `Moved(f, J, p)`, where `p` is "nowhere" between two commands of a script.
Every action is one of three kinds of step (`EveryStep`): `Calm` (a client's call: no
run starts, no lock is set), `Outcome` (a worker settles the job whose lock it has, and may
claim the next), `Fetch` (a claim). What follows:

* `OnePlace` and `LockedIsActive` from `Ruled` alone (`Located`);
* the refinement: each job moves as `Lawful` says, which is a step of `JobLifecycle` for
  one caller, the step's worker, or nobody; initial states map to initial states;
* `SoleRun` with `Sole(f)`, the jobs of two runs differ and are active: a claim takes a job
  out of a place that `f` says is not `active`;
* `LockHeldByRun` with `Held`: the lock of a living worker is that of one of its runs.

`JobQueueAttempts` builds on `SoleRun`. No script compares claims with attempts: a worker
computes the attempts made from what it was told at the claim, and the script writes
that number into the hash. `Counted` says that the claims of a job are its attempts made
and the one it is making while it is active, and that a run knows the attempts made; it is
preserved because no other handler of the job has changed the hash in between, which is
why `Tidy`, a consequence of the place map, is assumed before and after the step.
`NoMoreChances` leaves out `retry_jobs` and rate limits, which return a job without
counting. With a stalled checker two handlers may run, the later report writes an old number
over the newer one, and `Counted` is false; that the claims are bounded there too
(`StartsBounded` in `queue_liveness`) is checked by TLC and not proved.

### The worker loop

`WorkerLoopProofs` assumes `LoopAssumption`: finitely many jobs, any set of surroundings
with a concurrency of at least one. `Sound` is inductive: the types, with what each
program counter says about the job in hand and the permit (`LoopOK`, `TaskOK`), together
with `SlotsCounted`, `PrefetchCounted` and `StoppedIsQuiet`. `PrefetchCounted` says what the
counter is between a channel operation and its update as well: a job the loop has taken, and
one whose send is due or was refused, are still counted. It can therefore be above the
concurrency. The counts are sums of
cardinalities of sets of slots; one lemma per kind of step says how such a set grows or
shrinks. `SaturatedTakesNoMarker` and `PauseWaitsForHandlers` follow from the sums.

`RunsUnderItsLock` needs `OneSlotUnderLocks`: with one slot, the job in the loop's hand,
the jobs in the channel, the task's job and the job it has claimed next are all
different; each is under its lock; and all but those that are about to be registered are
registered. It says nothing after the shutdown, when renewal ends; it is
false for two slots (`PrefetchedIsRenewed`), and beside a stalled check
(`NoLockMeansStalled`).

### Flows

`FlowProofs` assumes `FlowAssumption`: any set of well-formed trees, any producers, any
number of ids. The invariant `Consistent(srv, adds, reader)` relates the pieces that no
single script sees together:

* `Checked`: the keys a call has passed by EXISTS do not exist, or its connection is marked
  dirty and EXEC will be refused. This is the whole argument for WATCH.
* `Known`: a job that does not exist has left no set behind, and a job of a producer is there
  only after that producer's EXEC. An automatic or given id that is removed and added
  again so is never taken for a child of the old flow.
* `Waits`: a stored child of its flow is processed, or in the dependency set of a parent in
  `waiting-children`.
* `Blocked`: conversely, what a blocked parent of a full tree waits for are its children,
  not yet completed.
* `HalfRead`: between HGETALL and SMEMBERS, each child that still exists is in what has been
  read or in the set that is still to be read.

EXEC runs one script per node, parents before children. `InsertTree` states their joint
result as sets (`Inserted`, `NewHash`, `NewPlace`, `ChildKeys`), which is the same because
the keys of a call differ; that they do is `CallOK`, a part of the invariant.

### Schedulers

`SchedulerProofs` assumes `SchedulerAssumption`: any clients, workers, positive slots and
times, options. `IInv` has types, that a deleted iteration is not locked, what a
handler has checked (`HandlerOK`), and, until a slot is used twice (`hist.reused`, which
the properties except as well), `StartedFirst` and `Current`: the registered iteration and
every worker that has it hold options that follow from the hash, the count it carries
is the number of iterations made, and it is alive unless the history says what broke it.
The two steps that register an iteration, `AddJobScheduler` and `UpdateJobScheduler`,
are shown to make a fresh chain that satisfies `Current` (the successor's slot is later:
`EveryNextIs`, `NextPatternIs`); all other steps keep the registered one alive or set
`broken` (`KeepsAlive`).

### The event stream

`EventsProofs` assumes `EventsAssumption` only (any jobs, waiters, capacity, bounds; a
start id is "$" or 0, the state in which a stream is found). Its invariant
`IInv == StreamInv /\ Gapless /\ ToldInv /\ CallInv /\ AnswerTrue` was checked by TLC
before.

* `StreamInv` ties the task to what it has sent: its `last_id` is the id of the last entry
  sent (or the id it started at), and a reply in hand starts after it. `Gapless` alone does
  not say where the next entry comes from; with it, an entry that is delivered is the
  successor of the last (`DeliverInv`). A timeout or a failed read drops the reply and keeps
  `last_id` (`ReaderStepInv`); an append that serves a blocked read ends it where the
  server saw the stream (`EmitInv`).
* `ToldInv` says that every entry of the stream, and everything sent, that tells of an
  outcome tells of one the job has had; it holds because a script appends in the step that
  changes the job and outcomes are never undone (`EmitTold`).
* `CallInv` says that a call knows its job and has no answer before it is done. With these,
  each of the five ways in which a call is answered keeps `AnswerTrue` (`WaiterStepInv`).

### What is left to TLC

Liveness, which TLAPS cannot treat (fairness and ENABLED): `EventuallyProcessed`,
`NotIdle`, `ShutdownStops`, `ClaimEnds`, `ParentReleased`, `WaitReturns`. And
`StartsBounded` beside a stalled checker.

## 5. Not modelled

* Retention. `drain` reads eight lists, cleans job after job and then deletes the lists and
  the key `id`: a job that is added, or moves, meanwhile keeps its hash and is in no list,
  and automatic ids start again at ids that exist. `clean` works in batches and may remove
  more than its limit asks for above 10 000; `obliterate` leaves `wait` and
  `waiting-children`. These are read, not modelled; `Scheduler` has what `drain` does to an
  iteration.
* Order within a priority and within a millisecond (scores), and deduplication: planned.
* `Job::get_state`'s reads list by list: the refinement uses their order, as one step.
* In `WorkerLoop`: failing Redis calls, a handle that is dropped, the map of cancellation
  tokens. In `Flow`: `drain` and `clean` of a flow's jobs, SCRIPT FLUSH between the loading
  of the scripts and EXEC. In `Events`: trimming.
* Metrics, job logs, progress, data updates, script loading, connections and error types are
  left out for good: no transition depends on them, or they belong to libraries.

`PROJECT.json` says per component what is missing.

## 6. Plan

Modelled and, but for liveness, proved: `JobQueue`, `WorkerLoop`, `Flow`, `Scheduler`,
`Events`. Left, in order of importance:

1. A proof that the claims of a job are bounded with the stalled checker as well. It needs an
   invariant for what handlers that are no longer alone know of the attempts made.
2. `Order` (priority and delay scores, list ends, with integers of their real width).
3. `Dedup` (the deduplication key over the life of its owner).
