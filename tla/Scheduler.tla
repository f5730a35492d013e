------------------------------ MODULE Scheduler ------------------------------
(***************************************************************************)
(* One job scheduler: a chain of jobs, one per slot of time.                *)
(* Queue::upsert_job_scheduler registers the scheduler and adds its first   *)
(* job; when a job of the chain has finished, its worker adds the next one  *)
(* by a second script, which the server accepts from the registered         *)
(* iteration only.                                                          *)
(*                                                                          *)
(* The keys of a scheduler hold its id, so schedulers do not meet and one   *)
(* is enough.  A script is one step; what a client or a worker computes     *)
(* before it calls one (the clock, the next slot) may be old by then.       *)
(***************************************************************************)
EXTENDS Integers, FiniteSets, FiniteSetsExt

CONSTANTS
  Client,       \* callers of upsert_job_scheduler
  Worker,       \* job handlers
  NoOne,        \* not a worker: the lock of a job that nobody runs
  Times,        \* bound: the readings of the clock
  Slot,         \* bound: the times that iterations are made for
  MaxMishaps,   \* bound: lost locks and workers, failures, and calls on single jobs
  Occurrences,  \* the times that cron patterns match
  RepeatChoices \* bound: the RepeatOptions of upserts

None == 0       \* an option that is not given, a slot that is not there

(* The lists and sets; lost is a job that a stalled check has taken off     *)
(* active and put nowhere.                                                  *)
Place == {"delayed", "wait", "active", "completed", "failed", "lost"}

RepeatOptions ==
  [pattern : BOOLEAN, every : Nat, offset : Nat, startDate : Nat,
   endDate : Nat, limit : Nat, immediately : BOOLEAN]

NoOptions == [pattern |-> FALSE, every |-> 0, offset |-> 0, startDate |-> 0,
              endDate |-> 0, limit |-> 0, immediately |-> FALSE]

ASSUME SchedulerAssumption ==
  /\ Times \subseteq Nat \ {0} /\ Times # {} /\ Slot \subseteq Nat \ {0} /\ MaxMishaps \in Nat
  /\ Occurrences \subseteq Nat \ {0}
  /\ RepeatChoices \subseteq RepeatOptions
  /\ NoOne \notin Worker

VARIABLES
  now,     \* the clock, in slots
  srv,     \* the server's keys: next (score in repeat), hash, jobs
  client,  \* each client's call of upsert_job_scheduler
  worker,  \* each worker's handler
  hist     \* history: what the properties are about

vars == <<now, srv, client, worker, hist>>

(* What a job's options say of its iteration; at is the set of places the   *)
(* job is in, empty if it has no hash.  An id that a removal leaves in a    *)
(* second list is not kept.                                                 *)
Job == [at : SUBSET Place, started : BOOLEAN, repeat : RepeatOptions,
        count : Nat, prev : Nat, lock : Worker \union {NoOne}]

NoJob == [at |-> {}, started |-> FALSE, repeat |-> NoOptions, count |-> 0, prev |-> 0,
          lock |-> NoOne]

(* The hash repeat:<id>: the options and the iteration count.               *)
NoHash == [repeat |-> NoOptions, ic |-> 0]

IdleClient == [at |-> "idle", repeat |-> NoOptions, next |-> 0, now |-> 0]
IdleWorker == [at |-> "idle", slot |-> 0, repeat |-> NoOptions, count |-> 0,
               prev |-> 0, next |-> 0, now |-> 0]

Init ==
  /\ now = Min(Times)
  /\ srv = [next |-> None, hash |-> NoHash, jobs |-> [s \in Slot |-> NoJob]]
  /\ client = [c \in Client |-> IdleClient]
  /\ worker = [w \in Worker |-> IdleWorker]
  /\ hist = [reused |-> FALSE, broken |-> FALSE, made |-> 0, mishaps |-> 0]

Exists(s) == srv.jobs[s].at # {}
Larger(a, b) == IF a < b THEN b ELSE a

-----------------------------------------------------------------------------
(* The next slot                                                            *)

NextOccurrence(t) ==
  LET later == {o \in Occurrences : o > t} IN IF later = {} THEN None ELSE Min(later)

(* next_pattern_millis                                                      *)
NextPatternMillis(millis, repeat) ==
  IF repeat.immediately THEN now
  ELSE LET next == NextOccurrence(Larger(millis, repeat.startDate))
       IN  IF repeat.endDate # None /\ next > repeat.endDate THEN None ELSE next

Floor(t, every) == (t \div every) * every

(* getJobSchedulerEveryNextMillis                                           *)
EveryNextMillis(prev, every, t, offset, startDate) ==
  IF prev = None
  THEN IF startDate # None THEN Larger(startDate, t)
       ELSE IF offset = 0 THEN t
       ELSE LET aligned == Floor(t, every) + offset
            IN  IF aligned <= t THEN aligned + every ELSE aligned
  ELSE IF prev + every < t THEN Floor(t, every) + every + offset
       ELSE prev + every

EveryOffset(next, every, offset) == IF offset = 0 THEN next - Floor(next, every) ELSE offset

(* build_iteration_opts: the options of an iteration's job.                 *)
IterationOpts(repeat) == [repeat EXCEPT !.immediately = FALSE,
                                        !.offset = IF repeat.every = None THEN 0 ELSE @]

(* Mutant: an iteration keeps the count of the last.                        *)
MutSameCount(repeat, count) == count

(* The count that the next iteration carries; a user gives none.            *)
IterationCount(repeat, count) == count + 1

OverLimit(repeat, count) == repeat.limit # None /\ IterationCount(repeat, count) > repeat.limit
PastEnd(repeat, t) == repeat.endDate # None /\ t > repeat.endDate

-----------------------------------------------------------------------------
(* Queue::upsert_job_scheduler                                              *)

BadOptions(repeat) ==
  \/ repeat.pattern <=> repeat.every # None
  \/ repeat.immediately /\ repeat.startDate # None

(* scheduler_opts_json: an offset is sent with an interval only.            *)
SchedulerOpts(repeat) == [repeat EXCEPT !.offset = IF repeat.every = None THEN 0 ELSE @]

(* What the client computes before it calls the script; a call that is      *)
(* refused leaves nothing.                                                  *)
UpsertJobScheduler(c, repeat) ==
  LET found == NextPatternMillis(now, repeat)
  IN  /\ client[c].at = "idle"
      /\ ~BadOptions(repeat)
      /\ ~OverLimit(repeat, 0)
      /\ ~PastEnd(repeat, now)
      /\ repeat.pattern => found # None
      /\ client' = [client EXCEPT ![c] =
           [at |-> "called", repeat |-> SchedulerOpts(repeat), now |-> now,
            next |-> IF repeat.pattern THEN Larger(found, now) ELSE 0]]
      /\ UNCHANGED <<now, srv, worker, hist>>

(* storeJob and the list or set that storeAndEnqueueJob chooses; where a    *)
(* job of that slot is already, and its lock, stay.                         *)
StoreAndEnqueueJob(jobs, slot, t, repeat, count, prev) ==
  [jobs EXCEPT ![slot] =
     [at |-> @.at \union {IF slot > t THEN "delayed" ELSE "wait"}, started |-> FALSE,
      repeat |-> repeat, count |-> count, prev |-> prev, lock |-> @.lock]]

(* A slot's job is reused if it is written over a job that exists or that a *)
(* worker still holds.                                                      *)
Reuses(jobs, slot) == jobs[slot].at # {} \/ \E w \in Worker : worker[w].slot = slot

(* Mutant: an iteration that waits is not replaced.                         *)
MutOnlyDelayed(slot) == "delayed" \in srv.jobs[slot].at

(* removeJobFromScheduler: may the registered iteration be replaced?        *)
Replaceable(slot) == srv.jobs[slot].at \cap {"delayed", "wait"} # {}

(* addJobScheduler, with what the client has computed.                      *)
AddJobScheduler(c) ==
  LET call == client[c]
      repeat == call.repeat
      isEvery == repeat.every # None
      prev == srv.next
      updatedEvery == isEvery /\ prev # None /\ srv.hash.repeat.every # repeat.every
      millis == IF updatedEvery THEN None ELSE prev
      computed == IF isEvery
                  THEN EveryNextMillis(millis, repeat.every, call.now, repeat.offset,
                                       repeat.startDate)
                  ELSE call.next
      removedPrev == prev # None /\ Replaceable(prev)
      jobs == IF removedPrev THEN [srv.jobs EXCEPT ![prev] = NoJob] ELSE srv.jobs
      wanted == IF removedPrev /\ isEvery /\ ~updatedEvery THEN prev ELSE computed
      collision == jobs[wanted].at # {}
      slot == IF isEvery /\ collision THEN wanted + repeat.every ELSE wanted
      offset == IF ~removedPrev /\ isEvery
                THEN EveryOffset(computed, repeat.every, repeat.offset)
                ELSE IF ~removedPrev \/ repeat.offset # 0 THEN repeat.offset
                ELSE srv.hash.repeat.offset
  IN  /\ call.at = "called"
      /\ wanted \in Slot /\ slot \in Slot
      /\ client' = [client EXCEPT ![c] = IdleClient]
      /\ \/ (* SchedulerJobSlotsBusy: the removed iteration is gone *)
            /\ isEvery /\ collision /\ jobs[slot].at # {}
            /\ srv' = [srv EXCEPT !.jobs = jobs]
            /\ hist' = [hist EXCEPT !.broken = @ \/ removedPrev]
         \/ (* SchedulerJobIdCollision *)
            /\ ~isEvery /\ collision /\ ~removedPrev
            /\ UNCHANGED <<srv, hist>>
         \/ /\ IF isEvery THEN jobs[slot].at = {} ELSE ~collision \/ removedPrev
            /\ srv' = [srv EXCEPT
                 !.next = slot,
                 !.hash = [repeat |-> [repeat EXCEPT !.offset = offset],
                           ic |-> IF @ = NoHash THEN 1 ELSE @.ic],
                 !.jobs = StoreAndEnqueueJob(jobs, slot, call.now, IterationOpts(repeat),
                            1, IF isEvery THEN None ELSE call.next)]
            /\ hist' = [hist EXCEPT !.reused = @ \/ Reuses(jobs, slot),
                                    !.broken = FALSE, !.made = 1]
      /\ UNCHANGED <<now, worker>>

(* The call does not reach the server.                                      *)
UpsertLost(c) ==
  /\ client[c].at = "called"
  /\ client' = [client EXCEPT ![c] = IdleClient]
  /\ UNCHANGED <<now, srv, worker, hist>>

(* Mutant: the hash is not deleted.                                         *)
MutKeepHash(hash) == hash

(* DEL of the scheduler's hash.                                             *)
DeletedHash(hash) == NoHash

(* Queue::remove_job_scheduler: of the pending iteration only a delayed one *)
(* is removed.                                                              *)
RemoveJobScheduler ==
  /\ srv.next # None
  /\ srv' = [srv EXCEPT
       !.next = None, !.hash = DeletedHash(@),
       !.jobs[srv.next] = IF "delayed" \in @.at THEN NoJob ELSE @]
  /\ hist' = [hist EXCEPT !.broken = FALSE, !.made = 0]
  /\ UNCHANGED <<now, client, worker>>

-----------------------------------------------------------------------------
(* A worker: the job's run, and then its successor                          *)

Moved(job, from, to) == [job EXCEPT !.at = (@ \ {from}) \union {to}]

StartJob(w, s) ==
  /\ worker[w].at = "idle" /\ "wait" \in srv.jobs[s].at
  /\ srv' = [srv EXCEPT !.jobs[s] = [Moved(@, "wait", "active") EXCEPT !.started = TRUE,
                                                                       !.lock = w]]
  /\ worker' = [worker EXCEPT ![w] =
       [IdleWorker EXCEPT !.at = "running", !.slot = s, !.repeat = srv.jobs[s].repeat,
                          !.count = srv.jobs[s].count, !.prev = srv.jobs[s].prev]]
  /\ UNCHANGED <<now, client, hist>>

(* The active job of a worker that still has its lock goes to another list. *)
Released(w, to) ==
  LET s == worker[w].slot
  IN  IF srv.jobs[s].lock # w THEN srv
      ELSE [srv EXCEPT !.jobs[s] = [Moved(@, "active", to) EXCEPT !.lock = NoOne]]

(* The finish is refused if the lock is lost; the worker goes on to the     *)
(* successor all the same.                                                  *)
FinishJob(w, to) ==
  /\ worker[w].at = "running"
  /\ srv' = Released(w, to)
  /\ worker' = [worker EXCEPT ![w].at = "finished"]
  /\ UNCHANGED <<now, client, hist>>

Mishap(breaks) ==
  /\ hist.mishaps < MaxMishaps
  /\ hist' = [hist EXCEPT !.mishaps = @ + 1, !.broken = @ \/ breaks]

(* A failure that leaves an attempt: the job is delayed and runs again;     *)
(* there is no successor.                                                   *)
FailForNow(w) ==
  /\ worker[w].at = "running"
  /\ srv' = Released(w, "delayed")
  /\ worker' = [worker EXCEPT ![w] = IdleWorker]
  /\ Mishap(FALSE)
  /\ UNCHANGED <<now, client>>

(* Mutant: the previous iteration is not looked at.                         *)
MutNotAfterPrev(t, prev) == t

(* The time after which a worker looks for the next occurrence.             *)
SearchFrom(t, prev) == Larger(t, prev)

EndsChain(repeat, count, prev) ==
  \/ OverLimit(repeat, count)
  \/ PastEnd(repeat, now)
  \/ repeat.pattern /\ NextPatternMillis(SearchFrom(now, prev), repeat) = None

(* schedule_next_repeatable_job up to its script.                           *)
ScheduleNext(w) ==
  LET me == worker[w]
      from == SearchFrom(now, me.prev)
  IN  /\ me.at = "finished"
      /\ worker' = [worker EXCEPT ![w] =
           IF srv.hash = NoHash \/ EndsChain(me.repeat, me.count, me.prev) THEN IdleWorker
           ELSE [me EXCEPT !.at = "checked", !.now = now,
                           !.next = IF me.repeat.pattern
                                    THEN Larger(NextPatternMillis(from, me.repeat), from)
                                    ELSE 0]]
      /\ UNCHANGED <<now, srv, client, hist>>

(* Mutant: any finished iteration has a successor.                          *)
MutAnyProducer(producer) == TRUE

(* Only the job of the registered slot has a successor.                     *)
IsCurrent(producer) == producer = srv.next

(* updateJobScheduler                                                       *)
UpdateJobScheduler(w) ==
  LET me == worker[w]
      every == IF srv.hash.repeat.every # None THEN srv.hash.repeat.every
               ELSE me.repeat.every
      next == IF every # None
              THEN EveryNextMillis(srv.next, every, me.now, srv.hash.repeat.offset,
                                   srv.hash.repeat.startDate)
              ELSE me.next
  IN  /\ me.at = "checked"
      /\ worker' = [worker EXCEPT ![w] = IdleWorker]
      /\ \/ /\ srv.next = None \/ ~IsCurrent(me.slot)
            /\ UNCHANGED <<srv, hist>>
         \/ /\ srv.next # None /\ IsCurrent(me.slot) /\ next \in Slot
            /\ Exists(next)   \* the event duplicated, and no successor
            /\ hist' = [hist EXCEPT !.broken = @ \/ next # srv.next]
            /\ UNCHANGED srv
         \/ /\ srv.next # None /\ IsCurrent(me.slot) /\ next \in Slot
            /\ ~Exists(next)
            /\ srv' = [srv EXCEPT
                 !.next = next, !.hash.ic = @ + 1,
                 !.jobs = StoreAndEnqueueJob(@, next, me.now, IterationOpts(me.repeat),
                            IterationCount(me.repeat, me.count),
                            IF me.repeat.pattern THEN me.next ELSE None)]
            /\ hist' = [hist EXCEPT !.reused = @ \/ Reuses(srv.jobs, next),
                                    !.broken = FALSE, !.made = @ + 1]
      /\ UNCHANGED <<now, client>>

(* The worker stops, or its connection fails, at any point.                 *)
WorkerStops(w) ==
  /\ worker[w].at # "idle"
  /\ worker' = [worker EXCEPT ![w] = IdleWorker]
  /\ Mishap(worker[w].at # "running" /\ worker[w].slot = srv.next)
  /\ UNCHANGED <<now, srv, client>>

-----------------------------------------------------------------------------
(* What else happens to the jobs of the chain (module JobQueue has it all)  *)

(* A delayed job is due, or Job::promote is called before that.             *)
Promote(s) ==
  /\ "delayed" \in srv.jobs[s].at
  /\ srv' = [srv EXCEPT !.jobs[s] = Moved(@, "delayed", "wait")]
  /\ UNCHANGED <<now, client, worker, hist>>

(* The stalled check takes an active job, whose lock may have expired or    *)
(* not: it waits again, or is lost if that has happened too often.          *)
Stalled(s, to) ==
  /\ "active" \in srv.jobs[s].at
  /\ \E lock \in {NoOne, srv.jobs[s].lock} :
       srv' = [srv EXCEPT !.jobs[s] = [Moved(@, "active", to) EXCEPT !.lock = lock]]
  /\ Mishap(to = "lost" /\ s = srv.next)
  /\ UNCHANGED <<now, client, worker>>

(* Queue::retry_jobs                                                        *)
RetryJob(s, from) ==
  /\ from \in srv.jobs[s].at
  /\ srv' = [srv EXCEPT !.jobs[s] = Moved(@, from, "wait")]
  /\ Mishap(FALSE)
  /\ UNCHANGED <<now, client, worker>>

(* Job::remove refuses a locked job and the registered iteration.           *)
RemoveJob(s) ==
  /\ Exists(s) /\ s # srv.next /\ srv.jobs[s].lock = NoOne
  /\ srv' = [srv EXCEPT !.jobs[s] = NoJob]
  /\ Mishap(FALSE)
  /\ UNCHANGED <<now, client, worker>>

(* Queue::drain deletes the jobs of every list, with their locks, and knows *)
(* nothing of schedulers.  It deletes one after the other.                  *)
Drain(s) ==
  /\ srv.jobs[s].at \ {"lost"} # {}
  /\ srv' = [srv EXCEPT !.jobs[s] = NoJob]
  /\ Mishap(s = srv.next)
  /\ UNCHANGED <<now, client, worker>>

Tick ==
  /\ \E t \in Times : t > now /\ now' = t
  /\ UNCHANGED <<srv, client, worker, hist>>

Next ==
  \/ \E c \in Client : \/ \E r \in RepeatChoices : UpsertJobScheduler(c, r)
                       \/ AddJobScheduler(c)
                       \/ UpsertLost(c)
  \/ RemoveJobScheduler
  \/ \E w \in Worker :
       \/ \E s \in Slot : StartJob(w, s)
       \/ \E to \in {"completed", "failed"} : FinishJob(w, to)
       \/ FailForNow(w)
       \/ ScheduleNext(w)
       \/ UpdateJobScheduler(w)
       \/ WorkerStops(w)
  \/ \E s \in Slot : \/ Promote(s)
                     \/ \E to \in {"wait", "lost"} : Stalled(s, to)
                     \/ \E from \in {"completed", "failed"} : RetryJob(s, from)
                     \/ RemoveJob(s)
                     \/ Drain(s)
  \/ Tick

Spec == Init /\ [][Next]_vars

-----------------------------------------------------------------------------
(* Properties                                                               *)

(* Every variable has its type, a scheduler is registered exactly if it has *)
(* its hash, and its next iteration is a slot.                              *)
TypeOK ==
  /\ now \in Times
  /\ srv.next \in Slot \union {None}
  /\ srv.hash \in [repeat : RepeatOptions, ic : Nat]
  /\ srv.jobs \in [Slot -> Job]
  /\ srv.next = None <=> srv.hash = NoHash
  /\ client \in [Client -> [at : {"idle", "called"}, repeat : RepeatOptions,
                            next : Nat, now : Nat]]
  /\ worker \in [Worker -> [at : {"idle", "running", "finished", "checked"},
                            slot : Slot \union {None}, repeat : RepeatOptions,
                            count : Nat, prev : Nat, next : Nat, now : Nat]]
  /\ hist \in [reused : BOOLEAN, broken : BOOLEAN, made : Nat, mishaps : 0..MaxMishaps]

(* A registered scheduler is alive: its iteration is pending or running, or *)
(* its worker is about to add the successor, or limit, end date or pattern  *)
(* end the chain.  broken names the other ways in which it can end: a       *)
(* worker lost between the two scripts, an iteration lost as stalled,       *)
(* drained or removed by an upsert that finds its slots busy, and a         *)
(* successor whose slot another job has taken.                              *)
ChainAlive ==
  (srv.next # None /\ ~hist.broken /\ ~hist.reused) =>
    LET job == srv.jobs[srv.next]
    IN  \/ job.at \cap {"delayed", "wait", "active"} # {}
        \/ \E w \in Worker : worker[w].slot = srv.next /\ worker[w].at # "running"
        \/ EndsChain(job.repeat, job.count, job.prev)

(* limit bounds the iterations that are made from one upsert, whatever      *)
(* stalls, retries, lost workers and late finishes lie between.             *)
LimitKept ==
  (~hist.reused /\ srv.next # None /\ srv.hash.repeat.limit # None) =>
    hist.made <= srv.hash.repeat.limit

(* As long as no slot has been made anew, the registered iteration has the  *)
(* options of the latest upsert: a worker that finishes an iteration of an  *)
(* earlier upsert, in another slot, cannot bring those back.                *)
LatestOptions ==
  (~hist.reused /\ srv.next # None /\ Exists(srv.next)) =>
    srv.jobs[srv.next].repeat =
      [IterationOpts(srv.hash.repeat) EXCEPT !.offset = srv.jobs[srv.next].repeat.offset]

(* No orphan is left behind: the iteration from which the registration      *)
(* moves on has been started, or is gone.                                   *)
NoOrphan ==
  [][ (srv.next # None /\ srv'.next \notin {None, srv.next} /\ ~hist'.reused) =>
        \/ srv'.jobs[srv.next].started
        \/ srv'.jobs[srv.next].at = {} ]_vars
=============================================================================
