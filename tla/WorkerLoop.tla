----------------------------- MODULE WorkerLoop -----------------------------
(***************************************************************************)
(* One worker of bullmq-rs as a process: the loop that fetches jobs, the    *)
(* task of each job, the permits and the fast-path channel between them,    *)
(* the set of jobs whose locks are renewed, and the callers of pause and    *)
(* shutdown.  They run on the threads of one runtime and interleave between *)
(* any two of the steps below; a script call is one step, because Redis     *)
(* runs it at once.                                                         *)
(*                                                                          *)
(* The server is reduced to what this worker sees of it: whether a job      *)
(* waits, is delayed, is active on this worker's account, or none of these  *)
(* (finished, removed, lost, or with another worker), which of its locks    *)
(* the worker still has, the stalled set, the markers, and whether the      *)
(* limiter is full.  A job that a stalled check gave back while its handler *)
(* ran may be in two of these places; two entries in one list count as one. *)
(* JobQueue has the scripts in detail, and a queue that is paused.          *)
(***************************************************************************)
EXTENDS Naturals, FiniteSets, Sequences, SequencesExt

CONSTANTS
  Job,            \* job ids
  NoJob,          \* none of them
  Setups          \* the options and the surroundings a worker may run with

ASSUME LoopAssumption ==
  /\ IsFiniteSet(Job)
  /\ NoJob \notin Job
  /\ \A s \in Setups : s.concurrency \in Nat \ {0} /\ s.jobs \subseteq Job

VARIABLES
  setup,          \* WorkerOptions::concurrency, the jobs there are, and the
                  \* events besides the normal course that may happen
  srv,            \* the server
  loop,           \* the main loop: where it is, its job, whether it has a permit
  tasks,          \* the job tasks
  permits,        \* permits the semaphore has left
  channel,        \* jobs fetched by moveToFinished, for the loop
  prefetched,     \* the counter of these jobs, for pause
  activeJobs,     \* active_jobs: the ids whose locks are renewed
  limitUntil,     \* fetching is suspended after a RateLimited error
  paused,         \* the pause flag of WorkerHandle
  unseen,         \* it was set since the loop last waited for a change
  pauser,         \* the caller of WorkerHandle::pause(false)
  shutdown        \* the shutdown flag

handle == <<paused, unseen, pauser, shutdown>>
local  == <<loop, tasks, permits, channel, prefetched, activeJobs, limitUntil>>
vars   == <<setup, srv, local, handle>>

Slot == 1..setup.concurrency

Can(event) == event \in setup.events

IdleTask == [pc |-> "idle", job |-> NoJob, next |-> NoJob]

Busy == {t \in Slot : tasks[t].pc # "idle"}

In(s, place) == {j \in Job : place \in s.at[j]}

Waiting == In(srv, "waiting")

Init ==
  /\ setup \in Setups
  /\ srv = [ at      |-> [j \in Job |-> {}],
             locks   |-> {},
             stalled |-> {},
             marker  |-> {},
             limited |-> FALSE ]
  /\ loop = [pc |-> "bootstrap", job |-> NoJob, permit |-> FALSE]
  /\ tasks = [t \in Slot |-> IdleTask]
  /\ permits = setup.concurrency
  /\ channel = <<>>
  /\ prefetched = 0
  /\ activeJobs = {}
  /\ limitUntil = FALSE
  /\ paused = FALSE
  /\ unseen = FALSE
  /\ pauser = "idle"
  /\ shutdown = FALSE

-----------------------------------------------------------------------------
(* The scripts, as this worker sees them.                                   *)

(* moveToActive, and the end of moveToFinished, from the server s: jobs     *)
(* that are due wake up, then one that waits is claimed.  The result is the *)
(* new server and the job, or none, or that the limiter is full.            *)
Woken(s, due) ==
  IF due = {} THEN s
  ELSE [s EXCEPT !.at     = [j \in Job |-> IF j \in due THEN (@[j] \ {"delayed"}) \union {"waiting"}
                                          ELSE @[j]],
                 !.marker = @ \union {"0"}]

(* A claimed job is in the stalled set until its lock is extended.          *)
Claimed(s, j) ==
  [s EXCEPT !.at[j]   = (@ \ {"waiting"}) \union {"active"},
            !.locks   = @ \union {j},
            !.stalled = @ \union {j},
            !.marker  = (@ \ {"0"}) \union (IF In(s, "waiting") \ {j} = {} THEN {} ELSE {"0"})]

Fetches(s) ==
  UNION { LET w == Woken(s, due)
          IN  IF w.limited THEN {[server |-> w, job |-> NoJob, limited |-> TRUE]}
              ELSE IF In(w, "waiting") = {}
                THEN { [ server  |-> [w EXCEPT !.marker = @ \union (IF In(w, "delayed") = {} THEN {} ELSE {"1"})],
                         job     |-> NoJob,
                         limited |-> FALSE ] }
              ELSE {[server |-> Claimed(w, j), job |-> j, limited |-> FALSE] : j \in In(w, "waiting")}
          : due \in SUBSET In(s, "delayed") }

(* A script that reports an outcome checks the lock against the token.      *)
Owned(s, j) == j \in s.locks

(* The job leaves the active list for where its outcome says, and its lock  *)
(* and its entry of the stalled set go.  A stalled check may have taken it  *)
(* from the active list: then it does not go to wait once more.             *)
Moved(s, j, to) ==
  LET into == IF "active" \in s.at[j] THEN to ELSE to \ {"waiting"}
  IN  [s EXCEPT !.at[j]   = (@ \ {"active"}) \union into,
                !.locks   = @ \ {j},
                !.stalled = @ \ {j},
                !.marker  = @ \union (IF "waiting" \in into THEN {"0"} ELSE {})
                             \union (IF "delayed" \in into THEN {"1"} ELSE {})]

-----------------------------------------------------------------------------
(* The main loop.                                                           *)

At(pc) == [pc |-> pc, job |-> NoJob, permit |-> FALSE]

(* Where the loop goes, dropping the permit it may hold.                    *)
Go(pc) ==
  /\ loop' = At(pc)
  /\ permits' = IF loop.permit THEN permits + 1 ELSE permits

Bootstrap ==
  /\ loop.pc = "bootstrap"
  /\ srv' = [srv EXCEPT !.marker = @ \union {"0"}]
  /\ loop' = At("top")
  /\ UNCHANGED <<tasks, permits, channel, prefetched, activeJobs, limitUntil>>

(* A job of the fast path comes first, even while the worker is paused.  It *)
(* is counted out when it has left the channel.                             *)
TakePrefetched ==
  /\ loop.pc = "top" /\ ~shutdown /\ channel # <<>>
  /\ loop' = [At("taken") EXCEPT !.job = Head(channel)]
  /\ channel' = Tail(channel)
  /\ UNCHANGED <<srv, tasks, permits, prefetched, activeJobs, limitUntil>>

CountOut ==
  /\ loop.pc = "taken"
  /\ loop' = [loop EXCEPT !.pc = "got"]
  /\ prefetched' = prefetched - 1
  /\ UNCHANGED <<srv, tasks, permits, channel, activeJobs, limitUntil>>

(* Mutant: the counter goes down whether or not a job came.                 *)
MutFindNothing ==
  /\ loop.pc = "top" /\ ~shutdown /\ channel = <<>>
  /\ loop' = At(IF paused THEN "parked" ELSE IF limitUntil THEN "suspended" ELSE "acquire")
  /\ prefetched' = prefetched - 1
  /\ UNCHANGED <<srv, tasks, permits, channel, activeJobs, limitUntil>>

(* Otherwise the loop waits for a resume, for the end of a rate limit, or   *)
(* for a permit to fetch with.  It does not look at the channel meanwhile.  *)
FindNothing ==
  /\ loop.pc = "top" /\ ~shutdown /\ channel = <<>>
  /\ loop' = At(IF paused THEN "parked" ELSE IF limitUntil THEN "suspended" ELSE "acquire")
  /\ UNCHANGED <<srv, tasks, permits, channel, prefetched, activeJobs, limitUntil>>

Wake ==
  /\ \/ loop.pc = "parked" /\ unseen
     \/ loop.pc = "suspended"
  /\ loop' = At("top")
  /\ unseen' = IF loop.pc = "parked" THEN FALSE ELSE unseen
  /\ UNCHANGED <<srv, tasks, permits, channel, prefetched, activeJobs, limitUntil>>

(* Mutant: jobs are fetched without a permit of their own.                  *)
MutAcquireForFetch ==
  /\ loop.pc = "acquire"
  /\ loop' = At("pop")
  /\ UNCHANGED <<srv, tasks, permits, channel, prefetched, activeJobs, limitUntil>>

AcquireForFetch ==
  /\ loop.pc = "acquire" /\ permits > 0
  /\ permits' = permits - 1
  /\ loop' = [At("pop") EXCEPT !.permit = TRUE]
  /\ UNCHANGED <<srv, tasks, channel, prefetched, activeJobs, limitUntil>>

(* Mutant: a time-out of BZPOPMIN does not lead to a fetch.                 *)
MutPopMarker ==
  /\ loop.pc = "pop"
  /\ IF "0" \in srv.marker
       THEN srv' = [srv EXCEPT !.marker = @ \ {"0"}] /\ loop' = [loop EXCEPT !.pc = "claim"]
     ELSE /\ srv' = [srv EXCEPT !.marker = {}]
          /\ loop' = [loop EXCEPT !.pc = IF srv.marker = {} THEN "pop" ELSE "sleep"]
  /\ UNCHANGED <<tasks, permits, channel, prefetched, activeJobs, limitUntil>>

(* BZPOPMIN: "0" has the lower score.  Without any marker it times out.     *)
PopMarker ==
  /\ loop.pc = "pop"
  /\ IF "0" \in srv.marker
       THEN srv' = [srv EXCEPT !.marker = @ \ {"0"}] /\ loop' = [loop EXCEPT !.pc = "claim"]
     ELSE /\ srv' = [srv EXCEPT !.marker = {}]
          /\ loop' = [loop EXCEPT !.pc = IF srv.marker = {} THEN "claim" ELSE "sleep"]
  /\ UNCHANGED <<tasks, permits, channel, prefetched, activeJobs, limitUntil>>

(* The time of a delay marker has come.                                     *)
EndSleep ==
  /\ loop.pc = "sleep"
  /\ loop' = [loop EXCEPT !.pc = "claim"]
  /\ UNCHANGED <<srv, tasks, permits, channel, prefetched, activeJobs, limitUntil>>

MoveToActive ==
  /\ loop.pc = "claim"
  /\ \E r \in Fetches(srv) :
       /\ srv' = r.server
       /\ \/ r.job # NoJob /\ loop' = [loop EXCEPT !.pc = "got", !.job = r.job]
                           /\ permits' = permits
          \/ r.job = NoJob /\ Go(IF r.limited THEN "limited" ELSE "top")
  /\ UNCHANGED <<tasks, channel, prefetched, activeJobs, limitUntil>>

(* The marker that was popped is put back after the limiter's time.         *)
EndLimit ==
  /\ loop.pc = "limited"
  /\ srv' = [srv EXCEPT !.marker = @ \union {"0"}]
  /\ loop' = At("top")
  /\ UNCHANGED <<tasks, permits, channel, prefetched, activeJobs, limitUntil>>

(* The hash cannot be deserialised: the job is dropped, and no longer       *)
(* renewed if it was prefetched.                                            *)
Unreadable ==
  /\ Can("failures")
  /\ loop.pc = "got"
  /\ activeJobs' = activeJobs \ {loop.job}
  /\ Go("top")
  /\ UNCHANGED <<srv, tasks, channel, prefetched, limitUntil>>

Readable ==
  /\ loop.pc = "got"
  /\ loop' = [loop EXCEPT !.pc = "start"]
  /\ UNCHANGED <<srv, tasks, permits, channel, prefetched, activeJobs, limitUntil>>

(* A prefetched job waits for a permit here.                                *)
AcquireForStart ==
  /\ loop.pc = "start" /\ ~loop.permit /\ permits > 0
  /\ permits' = permits - 1
  /\ loop' = [loop EXCEPT !.permit = TRUE]
  /\ UNCHANGED <<srv, tasks, channel, prefetched, activeJobs, limitUntil>>

(* The permit goes to the task.                                             *)
Spawn ==
  /\ loop.pc = "start" /\ loop.permit
  /\ \E t \in Slot \ Busy :
       /\ \A u \in Slot \ Busy : t <= u
       /\ tasks' = [tasks EXCEPT ![t] = [IdleTask EXCEPT !.pc = "spawned", !.job = loop.job]]
  /\ loop' = At("top")
  /\ UNCHANGED <<srv, permits, channel, prefetched, activeJobs, limitUntil>>

(* Mutant: the wait for a resume does not watch the shutdown flag.          *)
MutBreak ==
  /\ shutdown
  /\ \/ loop.pc \in {"top", "suspended", "acquire", "sleep", "limited"}
     \/ loop.pc = "start" /\ ~loop.permit
  /\ Go("drain")
  /\ UNCHANGED <<srv, tasks, channel, prefetched, activeJobs, limitUntil>>

(* Every wait of the loop but BZPOPMIN ends at shutdown, and leaves what    *)
(* the loop had in hand where it is.                                        *)
Break ==
  /\ shutdown
  /\ \/ loop.pc \in {"top", "parked", "suspended", "acquire", "sleep", "limited"}
     \/ loop.pc = "start" /\ ~loop.permit
  /\ Go("drain")
  /\ UNCHANGED <<srv, tasks, channel, prefetched, activeJobs, limitUntil>>

(* Mutant: one permit is waited for instead of all.                         *)
MutDrain ==
  /\ loop.pc = "drain" /\ permits > 0
  /\ loop' = At("stopped")
  /\ UNCHANGED <<srv, tasks, permits, channel, prefetched, activeJobs, limitUntil>>

Drain ==
  /\ loop.pc = "drain" /\ permits = setup.concurrency
  /\ loop' = At("stopped")
  /\ UNCHANGED <<srv, tasks, permits, channel, prefetched, activeJobs, limitUntil>>

LoopStep ==
  \/ Wake /\ UNCHANGED <<paused, pauser, shutdown>>
  \/ /\ \/ Bootstrap \/ TakePrefetched \/ CountOut \/ FindNothing \/ AcquireForFetch \/ PopMarker
        \/ EndSleep \/ MoveToActive \/ EndLimit \/ Unreadable \/ Readable
        \/ AcquireForStart \/ Spawn \/ Break \/ Drain
     /\ UNCHANGED handle

-----------------------------------------------------------------------------
(* The task of a job.  It holds one permit until it ends.                   *)

Goes(t, pc) == tasks' = [tasks EXCEPT ![t].pc = pc]

ToLeave(t) == tasks' = [tasks EXCEPT ![t].pc = "leave", ![t].next = NoJob]

(* The job is registered for renewal, then the handler starts.              *)
Register(t) ==
  /\ tasks[t].pc = "spawned"
  /\ activeJobs' = activeJobs \union {tasks[t].job}
  /\ Goes(t, "running")
  /\ UNCHANGED <<srv, loop, permits, channel, prefetched, limitUntil>>

(* The handler returned Ok.  The pause flag is read before the script runs. *)
Succeed(t) ==
  /\ tasks[t].pc = "running"
  /\ Goes(t, IF paused THEN "finish" ELSE "finishFetch")
  /\ UNCHANGED <<srv, loop, permits, channel, prefetched, activeJobs, limitUntil>>

MoveToFinished(t) ==
  /\ tasks[t].pc = "finish"
  /\ srv' = IF Owned(srv, tasks[t].job) THEN Moved(srv, tasks[t].job, {}) ELSE srv
  /\ ToLeave(t)
  /\ UNCHANGED <<loop, permits, channel, prefetched, activeJobs, limitUntil>>

(* With fetchNext the script also claims the next job for this worker.      *)
MoveToFinishedFetch(t) ==
  /\ tasks[t].pc = "finishFetch"
  /\ \/ /\ ~Owned(srv, tasks[t].job)
        /\ ToLeave(t)
        /\ UNCHANGED srv
     \/ /\ Owned(srv, tasks[t].job)
        /\ \E r \in Fetches(Moved(srv, tasks[t].job, {})) :
             /\ srv' = r.server
             /\ tasks' = [tasks EXCEPT ![t].pc   = IF r.job = NoJob THEN "leave" ELSE "next",
                                       ![t].next = r.job]
  /\ UNCHANGED <<loop, permits, channel, prefetched, activeJobs, limitUntil>>

(* Mutant: it is registered only when its own task starts.                  *)
MutRegisterNext(t) ==
  /\ tasks[t].pc = "next"
  /\ Goes(t, "count")
  /\ UNCHANGED <<srv, loop, permits, channel, prefetched, activeJobs, limitUntil>>

(* The next job is registered for renewal, counted, and sent to the loop;   *)
(* or counted out again and unregistered when the channel is full.          *)
RegisterNext(t) ==
  /\ tasks[t].pc = "next"
  /\ activeJobs' = activeJobs \union {tasks[t].next}
  /\ Goes(t, "count")
  /\ UNCHANGED <<srv, loop, permits, channel, prefetched, limitUntil>>

Count(t) ==
  /\ tasks[t].pc = "count"
  /\ prefetched' = prefetched + 1
  /\ Goes(t, "send")
  /\ UNCHANGED <<srv, loop, permits, channel, activeJobs, limitUntil>>

Send(t) ==
  /\ tasks[t].pc = "send"
  /\ IF Len(channel) < setup.concurrency
       THEN channel' = Append(channel, tasks[t].next) /\ ToLeave(t)
       ELSE channel' = channel /\ Goes(t, "full")
  /\ UNCHANGED <<srv, loop, permits, prefetched, activeJobs, limitUntil>>

(* Mutant: a job that does not fit is not counted out.                      *)
MutUncount(t) ==
  /\ tasks[t].pc = "full"
  /\ Goes(t, "unsend")
  /\ UNCHANGED <<srv, loop, permits, channel, prefetched, activeJobs, limitUntil>>

Uncount(t) ==
  /\ tasks[t].pc = "full"
  /\ prefetched' = prefetched - 1
  /\ Goes(t, "unsend")
  /\ UNCHANGED <<srv, loop, permits, channel, activeJobs, limitUntil>>

Unsend(t) ==
  /\ tasks[t].pc = "unsend"
  /\ activeJobs' = activeJobs \ {tasks[t].next}
  /\ ToLeave(t)
  /\ UNCHANGED <<srv, loop, permits, channel, prefetched, limitUntil>>

(* The handler returned Err: the job is retried later or fails for good.    *)
Fail(t) ==
  /\ Can("failures")
  /\ tasks[t].pc = "running"
  /\ srv' \in IF Owned(srv, tasks[t].job)
                THEN {Moved(srv, tasks[t].job, to) : to \in {{"delayed"}, {}}}
                ELSE {srv}
  /\ ToLeave(t)
  /\ UNCHANGED <<loop, permits, channel, prefetched, activeJobs, limitUntil>>

(* The handler returned RateLimited: the job goes back to wait, and the     *)
(* worker fetches nothing for the rest of the limiter's time.               *)
FailRateLimited(t) ==
  /\ Can("limits")
  /\ tasks[t].pc = "running"
  /\ IF Owned(srv, tasks[t].job)
       THEN /\ srv' = Moved(srv, tasks[t].job, {"waiting"})
            /\ limitUntil' = (limitUntil \/ srv.limited)
       ELSE UNCHANGED <<srv, limitUntil>>
  /\ ToLeave(t)
  /\ UNCHANGED <<loop, permits, channel, prefetched, activeJobs>>

(* The job was cancelled and the handler dropped after the grace period.    *)
Cancelled(t) ==
  /\ Can("failures")
  /\ tasks[t].pc = "running"
  /\ ToLeave(t)
  /\ UNCHANGED <<srv, loop, permits, channel, prefetched, activeJobs, limitUntil>>

(* Mutant: the permit is lost with the task.                                *)
MutPanic(t) ==
  /\ Can("panics")
  /\ tasks[t].pc = "running"
  /\ tasks' = [tasks EXCEPT ![t] = IdleTask]
  /\ UNCHANGED <<srv, loop, permits, channel, prefetched, activeJobs, limitUntil>>

(* The handler panicked.  Unwinding drops the permit, and nothing else.     *)
Panic(t) ==
  /\ Can("panics")
  /\ tasks[t].pc = "running"
  /\ tasks' = [tasks EXCEPT ![t] = IdleTask]
  /\ permits' = permits + 1
  /\ UNCHANGED <<srv, loop, channel, prefetched, activeJobs, limitUntil>>

(* Mutant: the job stays registered.                                        *)
MutLeave(t) ==
  /\ tasks[t].pc = "leave"
  /\ tasks' = [tasks EXCEPT ![t] = IdleTask]
  /\ permits' = permits + 1
  /\ UNCHANGED <<srv, loop, channel, prefetched, activeJobs, limitUntil>>

(* Last, after the callbacks: the job is unregistered and the permit drops. *)
Leave(t) ==
  /\ tasks[t].pc = "leave"
  /\ activeJobs' = activeJobs \ {tasks[t].job}
  /\ tasks' = [tasks EXCEPT ![t] = IdleTask]
  /\ permits' = permits + 1
  /\ UNCHANGED <<srv, loop, channel, prefetched, limitUntil>>

TaskStep(t) ==
  /\ t \in Slot
  /\ \/ Register(t) \/ Succeed(t) \/ MoveToFinished(t) \/ MoveToFinishedFetch(t)
     \/ RegisterNext(t) \/ Count(t) \/ Send(t) \/ Uncount(t) \/ Unsend(t)
     \/ Fail(t) \/ FailRateLimited(t) \/ Cancelled(t) \/ Panic(t) \/ Leave(t)
  /\ UNCHANGED handle

-----------------------------------------------------------------------------
(* The handle.                                                              *)

Pause ==
  /\ Can("pauses") /\ pauser = "idle"
  /\ paused' = TRUE /\ unseen' = TRUE
  /\ pauser' = "poll"
  /\ UNCHANGED shutdown

(* pause(false) reads the counter of prefetched jobs, then the permits,     *)
(* then whether the worker has stopped.                                     *)
PollCounter ==
  /\ pauser = "poll"
  /\ pauser' = IF prefetched = 0 THEN "permits"
               ELSE IF loop.pc = "stopped" THEN "returned" ELSE "poll"
  /\ UNCHANGED <<paused, unseen, shutdown>>

(* Mutant: only the counter is looked at.                                   *)
MutPollPermits ==
  /\ pauser = "permits"
  /\ pauser' = "returned"
  /\ UNCHANGED <<paused, unseen, shutdown>>

PollPermits ==
  /\ pauser = "permits"
  /\ pauser' = IF permits = setup.concurrency \/ loop.pc = "stopped" THEN "returned" ELSE "poll"
  /\ UNCHANGED <<paused, unseen, shutdown>>

Resume ==
  /\ pauser = "returned"
  /\ paused' = FALSE /\ unseen' = TRUE
  /\ pauser' = "idle"
  /\ UNCHANGED shutdown

Shutdown ==
  /\ Can("shutdown") /\ ~shutdown
  /\ shutdown' = TRUE
  /\ UNCHANGED <<paused, unseen, pauser>>

HandleStep ==
  /\ Pause \/ PollCounter \/ PollPermits \/ Resume \/ Shutdown
  /\ UNCHANGED <<srv, local>>

-----------------------------------------------------------------------------
(* What else happens on the server.                                         *)

(* A job is added, or comes back: added again, retried, promoted, given     *)
(* back by another worker or by a check of its stall there.                 *)
Arrive(j) ==
  /\ srv.at[j] \subseteq {"delayed"} /\ j \notin srv.locks
  /\ \/ srv' = [srv EXCEPT !.at[j] = {"waiting"}, !.marker = @ \union {"0"}]
     \/ /\ Can("delays")
        /\ srv' = [srv EXCEPT !.at[j] = {"delayed"}, !.marker = @ \union {"1"}]

(* Another worker pops the marker, and claims a job or not.  Its claim      *)
(* takes the lock over, and the entry of the stalled set.                   *)
OtherPops ==
  /\ Can("others") /\ "0" \in srv.marker
  /\ srv' = [srv EXCEPT !.marker = @ \ {"0"}]

OtherClaims(j) ==
  /\ Can("others") /\ "waiting" \in srv.at[j] /\ ~srv.limited
  /\ srv' = [Claimed(srv, j) EXCEPT !.at[j]   = srv.at[j] \ {"waiting"},
                                    !.locks   = @ \ {j},
                                    !.stalled = @ \ {j}]

(* The lock extender runs twice per lock duration until the shutdown: a     *)
(* lock expires when its job is not registered.  A job that is claimed with *)
(* a permit is registered sooner than its lock expires.                     *)
Renewed(j) ==
  \/ j \in activeJobs /\ ~shutdown
  \/ loop.job = j /\ loop.permit
  \/ \E t \in Slot : tasks[t].pc = "spawned" /\ tasks[t].job = j
  \/ \E t \in Slot : tasks[t].pc = "next" /\ tasks[t].next = j

LockExpires(j) ==
  /\ j \in srv.locks /\ ~Renewed(j)
  /\ srv' = [srv EXCEPT !.locks = @ \ {j}]

(* The extender takes a job it renews out of the stalled set.               *)
ExtendLock(j) ==
  /\ Can("stalled_check")
  /\ j \in activeJobs \intersect srv.locks /\ ~shutdown
  /\ srv' = [srv EXCEPT !.stalled = @ \ {j}]

(* The stalled checker of some worker takes the active jobs without a lock, *)
(* and all that are still in the stalled set: a job that runs and has its   *)
(* lock, if no renewal came between its claim and the check.  They wait     *)
(* again or, over the limit, are in no list or set; a lock stays.           *)
StalledCheck ==
  /\ Can("stalled_check")
  /\ LET stalled == srv.stalled \union (In(srv, "active") \ srv.locks)
     IN  \E back \in SUBSET stalled :
           srv' = [srv EXCEPT
             !.at      = [j \in Job |-> IF j \notin stalled THEN @[j]
                                       ELSE (@[j] \ {"active"}) \union (IF j \in back THEN {"waiting"} ELSE {})],
             !.stalled = {},
             !.marker  = @ \union (IF back = {} THEN {} ELSE {"0"})]

FillLimiter ==
  /\ Can("limits") /\ ~srv.limited
  /\ srv' = [srv EXCEPT !.limited = TRUE]

LimiterExpires ==
  /\ srv.limited
  /\ srv' = [srv EXCEPT !.limited = FALSE]

ServerStep ==
  /\ \/ \E j \in setup.jobs : Arrive(j) \/ OtherClaims(j) \/ LockExpires(j) \/ ExtendLock(j)
     \/ StalledCheck \/ OtherPops \/ FillLimiter \/ LimiterExpires
  /\ UNCHANGED <<local, handle>>

(* The time the worker suspended fetching for is over.                      *)
SuspensionEnds ==
  /\ limitUntil
  /\ limitUntil' = FALSE
  /\ UNCHANGED <<srv, loop, tasks, permits, channel, prefetched, activeJobs, handle>>

Next ==
  /\ \/ LoopStep
     \/ \E t \in Slot : TaskStep(t)
     \/ HandleStep
     \/ ServerStep
     \/ SuspensionEnds
  /\ UNCHANGED setup

Spec == Init /\ [][Next]_vars

(* The runtime schedules every thread, handlers return, timers fire, and a  *)
(* lock that nobody renews expires.  Nobody has to add a job, run a stalled *)
(* check, resume, or shut down.                                             *)
Slots == UNION {1..s.concurrency : s \in Setups}

Fairness ==
  /\ WF_vars(LoopStep /\ UNCHANGED setup)
  /\ \A t \in Slots : WF_vars(TaskStep(t) /\ UNCHANGED setup)
  /\ WF_vars(SuspensionEnds /\ UNCHANGED setup)
  /\ WF_vars((PollCounter \/ PollPermits) /\ UNCHANGED <<setup, srv, local>>)
  /\ \A j \in Job : WF_vars(LockExpires(j) /\ UNCHANGED <<setup, local, handle>>)

FairSpec == Spec /\ Fairness

-----------------------------------------------------------------------------
(* Properties.                                                              *)

(* Every variable has its type: the permits stay between zero and the       *)
(* concurrency, the counter of prefetched jobs does not go below zero, only *)
(* active jobs are in the stalled set and, where no stalled check gives     *)
(* them back, only active jobs have locks.                                  *)
TypeOK ==
  /\ setup \in Setups
  /\ srv.at \in [Job -> SUBSET {"waiting", "delayed", "active"}]
  /\ srv.stalled \subseteq In(srv, "active")
  /\ srv.locks \subseteq (IF Can("stalled_check") THEN Job ELSE In(srv, "active"))
  /\ srv.marker \subseteq {"0", "1"}
  /\ srv.limited \in BOOLEAN
  /\ loop \in [ pc : {"bootstrap", "top", "parked", "suspended", "acquire", "pop", "sleep",
                      "claim", "limited", "taken", "got", "start", "drain", "stopped"},
                job : Job \union {NoJob}, permit : BOOLEAN ]
  /\ tasks \in [ Slot -> [ pc : {"idle", "spawned", "running", "finish", "finishFetch", "next",
                                 "count", "send", "full", "unsend", "leave"},
                           job : Job \union {NoJob}, next : Job \union {NoJob} ] ]
  /\ permits \in 0..setup.concurrency
  /\ channel \in Seq(Job) /\ Len(channel) <= setup.concurrency
  /\ prefetched \in Nat
  /\ activeJobs \subseteq Job
  /\ {limitUntil, paused, unseen, shutdown} \subseteq BOOLEAN
  /\ pauser \in {"idle", "poll", "permits", "returned"}

(* No permit is lost or made up, whatever way a fetch, a task, a panic or a *)
(* shutdown takes: what the semaphore has not left is with a task or with   *)
(* the loop.                                                                *)
SlotsCounted ==
  permits + Cardinality(Busy) + (IF loop.permit THEN 1 ELSE 0) = setup.concurrency

(* "A saturated worker leaves markers for other workers instead of          *)
(* consuming them": when the loop takes a marker or claims a job there is a *)
(* slot for the job.                                                        *)
SaturatedTakesNoMarker ==
  loop.pc \in {"pop", "sleep", "claim"} => Cardinality(Busy) < setup.concurrency

(* The counter that pause reads covers every job in the channel: it is the  *)
(* number of these, of the jobs counted in before they are sent, and of the *)
(* one that has left the channel and is not counted out yet.                *)
PrefetchCounted ==
  prefetched = Len(channel) + Cardinality({t \in Slot : tasks[t].pc \in {"send", "full"}})
                            + (IF loop.pc = "taken" THEN 1 ELSE 0)

(* A worker that reports it has stopped runs no handler.                    *)
StoppedIsQuiet == loop.pc = "stopped" => Busy = {}

(* With one slot, and where every worker skips the stalled check, a handler *)
(* runs under the lock of its claim until the shutdown, however long the    *)
(* job waited in the channel: the registrations of prefetched jobs, of      *)
(* tasks and of their ends do not undo one another.  With more slots they   *)
(* do (PrefetchedIsRenewed of WorkerLoopClaims); and a stalled check gives  *)
(* a job back whose handler runs, if it comes before the first renewal.     *)
RunsUnderItsLock ==
  (setup.concurrency = 1 /\ ~shutdown /\ ~Can("stalled_check")) =>
    \A t \in Slot : tasks[t].pc = "running" => tasks[t].job \in srv.locks

(* pause(false) does not return while a handler runs.  (It may return while *)
(* a fetched job is about to be run.)                                       *)
PauseWaitsForHandlers ==
  [][(pauser # "returned" /\ pauser' = "returned") => Busy = {}]_vars

(* A worker with a free slot does not leave jobs waiting, even if another   *)
(* took the marker and did not claim: it gets a job, unless it is paused,   *)
(* shut down or limited.                                                    *)
NotIdle ==
  (Waiting # {}) ~>
    \/ Waiting = {} \/ loop.job # NoJob \/ Cardinality(Busy) = setup.concurrency
    \/ paused \/ shutdown \/ srv.limited \/ limitUntil

(* A shutdown ends, wherever it finds the loop and the tasks.               *)
ShutdownStops == shutdown ~> loop.pc = "stopped"

(* No claim lasts for ever: the job is finished, given back or taken from   *)
(* the active list by a stalled check, or its lock expires, so that it can  *)
(* stall.  But for two cases: a job that arrived in the channel of a paused *)
(* worker, and, where handlers panic, the job of one that did, which is     *)
(* renewed with nobody to run it.                                           *)
Stranded(j) == paused /\ j \in ToSet(channel)

Held(j) ==
  \/ loop.job = j
  \/ j \in ToSet(channel)
  \/ \E t \in Slot : j \in {tasks[t].job, tasks[t].next}

Orphaned(j) == Can("panics") /\ j \in activeJobs /\ ~Held(j)

ClaimEnds ==
  \A j \in Job :
    j \in srv.locks ~> \/ j \notin srv.locks \/ "active" \notin srv.at[j]
                       \/ Stranded(j) \/ Orphaned(j)
=============================================================================
