------------------------------ MODULE JobQueue ------------------------------
(***************************************************************************)
(* One queue of bullmq-rs: the keys it keeps in Redis and the Lua scripts   *)
(* that change them.  Redis runs a script without interleaving any other    *)
(* command, so one script is one step.                                      *)
(*                                                                          *)
(* The server's state is a record q.  A script is written as the            *)
(* composition of operators that map such a record to the next one, in the  *)
(* order of the script's commands; an action says who may call the script   *)
(* and with which arguments.  The lists wait and paused are sequences whose *)
(* head is the left end of the Redis list: LPUSH prepends, RPUSH appends    *)
(* and RPOPLPUSH takes the last element.                                    *)
(*                                                                          *)
(* The callers are workers (and clients that took a job with get_next_job). *)
(* A run is one execution of a handler: the job as the worker received it.  *)
(***************************************************************************)
EXTENDS Naturals, FiniteSets, Sequences, SequencesExt, Functions

CONSTANTS
  Job,              \* job ids
  Worker,           \* worker instances; a worker's lock token is its own
  NoToken,          \* the lock key does not exist
  Priority,         \* the priorities jobs are given; 0 means none
  MaxAttempts,      \* JobOptions::attempts
  MaxStalledCount,  \* WorkerOptions::max_stalled_count
  MaxJobs,          \* RateLimiterOptions::max, 0 without a limiter
  MaxStarts,        \* bound: how often one job is claimed
  Crashable,        \* the workers whose process may die
  Env               \* the optional events of this instance, see Events

(* What the surroundings of the scripts may do, besides adding jobs,        *)
(* running them and reporting the outcome.                                  *)
Events == { "stalled_check",   \* some worker has skip_stalled_check = false
            "expiry",          \* a lock's PX runs out before it is extended
            "cancel",          \* WorkerHandle::cancel_job drops a handler
            "handler_moves",   \* a handler calls Job::retry, change_delay, ...
            "pause",           \* Queue::pause and Queue::resume
            "promote",         \* Job::promote, Queue::promote_jobs
            "retry_jobs",      \* Queue::retry_jobs
            "remove",          \* Queue::remove
            "rate_limit",      \* RateLimited errors, Queue::rate_limit
            "reprioritise",    \* change_priority of a job that waits
            "reprioritise_any" \* change_priority of a job in any state
          }

ASSUME ParametersAssumption ==
  /\ IsFiniteSet(Job)
  /\ NoToken \notin Worker
  /\ Priority \subseteq Nat /\ 0 \in Priority
  /\ MaxAttempts \in Nat \ {0}
  /\ MaxStalledCount \in Nat
  /\ MaxJobs \in Nat
  /\ MaxStarts \in Nat
  /\ Crashable \subseteq Worker
  /\ Env \subseteq Events

VARIABLES
  q,     \* the queue's keys in Redis
  runs,  \* the handlers in execution
  alive  \* the workers whose process has not died

vars == <<q, runs, alive>>

Server ==
  [ wait        : Seq(Job),
    paused      : Seq(Job),
    active      : [Job -> Nat],         \* how often the active list holds it
    prioritized : SUBSET Job,
    delayed     : SUBSET Job,
    completed   : SUBSET Job,
    failed      : SUBSET Job,
    stalled     : SUBSET Job,
    lock        : [Job -> Worker \union {NoToken}],
    isPaused    : BOOLEAN,              \* meta.paused
    marker      : SUBSET {"0", "1"},
    limiter     : Nat,
    hash        : [Job -> {"none", "stored", "bare"}],
    priority    : [Job -> Nat],
    atm         : [Job -> Nat],         \* attempts made
    ats         : [Job -> Nat],         \* attempts started, see below
    stc         : [Job -> Nat] ]        \* stalled count

(* A job's hash is "bare" when a script's HSET or HINCRBY recreated the     *)
(* hash of a job that had been removed: it exists, without name or data.    *)
(* ats counts the claims of a job id.  It lives on when a job is removed,   *)
(* where the code starts again from 0, so that it tells all runs apart.     *)

Run == [worker : Worker, job : Job, ats : Nat, atm : Nat, priority : Nat]

Init ==
  /\ q = [ wait |-> <<>>, paused |-> <<>>, active |-> [j \in Job |-> 0],
           prioritized |-> {}, delayed |-> {}, completed |-> {}, failed |-> {},
           stalled |-> {}, lock |-> [j \in Job |-> NoToken], isPaused |-> FALSE,
           marker |-> {}, limiter |-> 0, hash |-> [j \in Job |-> "none"],
           priority |-> [j \in Job |-> 0], atm |-> [j \in Job |-> 0],
           ats |-> [j \in Job |-> 0], stc |-> [j \in Job |-> 0] ]
  /\ runs = {}
  /\ alive = Worker

-----------------------------------------------------------------------------
(* Markers.  Workers block on the zset marker: member "0" says that a job   *)
(* waits now, "1" that one is delayed.                                      *)

AddBaseMarkerIfNeeded(s, isPausedOrMaxed) ==
  IF isPausedOrMaxed THEN s ELSE [s EXCEPT !.marker = @ \union {"0"}]

AddDelayMarkerIfNeeded(s) ==
  IF s.delayed = {} THEN s ELSE [s EXCEPT !.marker = @ \union {"1"}]

(* Lists.                                                                   *)

(* Every order of the elements of S.                                        *)
Orders(S) == Bijection(1..Cardinality(S), S)

(* LREM s 0 j: what is left of s, in its order (a set of one sequence).     *)
LRemAll(s, j) ==
  LET kept == {i \in DOMAIN s : s[i] # j}
  IN  { [k \in DOMAIN e |-> s[e[k]]] :
          e \in {o \in Orders(kept) : \A a, b \in DOMAIN o : a < b => o[a] < o[b]} }

(* LREM s 1 j, when j is in s: the first occurrence goes.                   *)
LRemFirst(s, j) ==
  { RemoveAt(s, i) : i \in {k \in DOMAIN s : s[k] = j /\ j \notin ToSet(SubSeq(s, 1, k - 1))} }

(* getTargetQueueList: nothing in the crate writes meta.concurrency, so the *)
(* list depends on the pause alone.                                         *)
LPushTarget(s, j) ==
  IF s.isPaused THEN [s EXCEPT !.paused = <<j>> \o @]
                ELSE [s EXCEPT !.wait = <<j>> \o @]

RPushTarget(s, j) ==
  IF s.isPaused THEN [s EXCEPT !.paused = Append(@, j)]
                ELSE [s EXCEPT !.wait = Append(@, j)]

(* Back into the queue: by priority, or next in line.                       *)
Requeue(s, j, priority) ==
  IF priority > 0 THEN [s EXCEPT !.prioritized = @ \union {j}] ELSE RPushTarget(s, j)

(* HSET or HINCRBY on the hashes of the jobs J: a missing hash comes back.  *)
Touch(s, J) ==
  [s EXCEPT !.hash = [j \in Job |-> IF j \in J /\ @[j] = "none" THEN "bare" ELSE @[j]]]

-----------------------------------------------------------------------------
(* Adding a job.  An id that exists already is returned as it is: no step.  *)

StoreJob(s, j, priority) ==
  [s EXCEPT !.hash[j] = "stored", !.priority[j] = priority, !.atm[j] = 0]

AddStandardJob(j) ==
  /\ q.hash[j] = "none"
  /\ q' = AddBaseMarkerIfNeeded(LPushTarget(StoreJob(q, j, 0), j), q.isPaused)
  /\ UNCHANGED <<runs, alive>>

AddPrioritizedJob(j, priority) ==
  /\ priority > 0
  /\ q.hash[j] = "none"
  /\ q' = AddBaseMarkerIfNeeded(
            [StoreJob(q, j, priority) EXCEPT !.prioritized = @ \union {j}], q.isPaused)
  /\ UNCHANGED <<runs, alive>>

AddDelayedJob(j, priority) ==
  /\ q.hash[j] = "none"
  /\ q' = AddDelayMarkerIfNeeded(
            [StoreJob(q, j, priority) EXCEPT !.delayed = @ \union {j}])
  /\ UNCHANGED <<runs, alive>>

-----------------------------------------------------------------------------
(* Taking the next job.                                                     *)

(* The delayed jobs due have reached their time.  Delays are left out, so   *)
(* any may be due, and the plain ones enter the list in any order.          *)
PromoteDelayedJobs(s, due, order) ==
  IF due = {} THEN s
  ELSE AddBaseMarkerIfNeeded(
         Touch([s EXCEPT !.delayed     = @ \ due,
                         !.wait        = order \o @,
                         !.prioritized = @ \union {j \in due : s.priority[j] > 0}], due),
         s.isPaused)

Promotions(s) ==
  UNION { { PromoteDelayedJobs(s, due, order) :
              order \in Orders({j \in due : s.priority[j] = 0}) } : due \in SUBSET s.delayed }

RateLimited(s) == MaxJobs > 0 /\ s.limiter >= MaxJobs

(* RPOPLPUSH wait, else ZPOPMIN prioritized.  A score is the priority with  *)
(* a counter below it: among equal priorities any job may be the next.  The *)
(* hash's priority stands for the one in the score, from which a retry      *)
(* under an older priority can differ.                                      *)
Candidates(s) ==
  IF s.wait # <<>> THEN {Last(s.wait)}
  ELSE {j \in s.prioritized : \A k \in s.prioritized : s.priority[j] <= s.priority[k]}

(* Mutant: the tail of wait is read and pushed to active, but not popped.   *)
MutTakeNextPeeks(s, j) ==
  IF s.wait # <<>> THEN [s EXCEPT !.active[j] = @ + 1]
                   ELSE [s EXCEPT !.prioritized = @ \ {j}, !.active[j] = @ + 1]

TakeNext(s, j) ==
  IF s.wait # <<>> THEN [s EXCEPT !.wait = Front(@), !.active[j] = @ + 1]
                   ELSE [s EXCEPT !.prioritized = @ \ {j}, !.active[j] = @ + 1]

(* Mutant: the base marker is taken away even if more jobs wait.            *)
MutClaimDropsMarker(s, j, w) ==
  LET taken == Touch(TakeNext(s, j), {j})
  IN  [taken EXCEPT !.lock[j] = w, !.stalled = @ \union {j}, !.ats[j] = @ + 1,
                    !.limiter = IF MaxJobs > 0 THEN @ + 1 ELSE @, !.marker = @ \ {"0"}]

(* Lock, stalled set and attempt counter of the job taken, then the marker. *)
Claim(s, j, w) ==
  LET taken == Touch(TakeNext(s, j), {j})
      held  == [taken EXCEPT !.lock[j] = w,
                             !.stalled = @ \union {j},
                             !.ats[j]  = @ + 1,
                             !.limiter = IF MaxJobs > 0 THEN @ + 1 ELSE @,
                             !.marker  = @ \ {"0"}]
  IN  AddBaseMarkerIfNeeded(held, held.wait = <<>> /\ held.prioritized = {})

(* The job as HGETALL returns it.  Without its data it cannot be            *)
(* deserialised and no handler runs.                                        *)
Received(s, j, w) ==
  IF s.hash[j] = "bare" THEN {}
  ELSE { [worker |-> w, job |-> j, ats |-> s.ats[j], atm |-> s.atm[j],
          priority |-> s.priority[j]] }

(* The part moveToActive and moveToFinished share, from a state s of the    *)
(* server and with the handlers others that stay in execution.              *)
FetchNext(s, w, others) ==
  \E p \in Promotions(s) :
    \/ /\ RateLimited(p) \/ p.isPaused
       /\ q' = p
       /\ runs' = others
    \/ /\ ~RateLimited(p) /\ ~p.isPaused
       /\ Candidates(p) = {}
       /\ q' = AddDelayMarkerIfNeeded(p)
       /\ runs' = others
    \/ /\ ~RateLimited(p) /\ ~p.isPaused
       /\ \E j \in Candidates(p) :
            /\ p.ats[j] < MaxStarts
            /\ q' = Claim(p, j, w)
            /\ runs' = others \union Received(q', j, w)

MoveToActive(w) ==
  /\ w \in alive
  /\ FetchNext(q, w, runs)
  /\ UNCHANGED alive

-----------------------------------------------------------------------------
(* Leaving the active list.                                                 *)

(* Mutant: the token is not compared.                                       *)
MutOwnsAnyLock(s, r) == s.hash[r.job] # "none"

(* The scripts check that the hash exists and that the lock is the caller's.*)
Owns(s, r) == s.hash[r.job] # "none" /\ s.lock[r.job] = r.worker

(* Mutant: the lock is checked and left in place.                           *)
MutReleaseKeepsLock(s, j) ==
  [s EXCEPT !.stalled = @ \ {j}, !.active[j] = IF @ > 0 THEN @ - 1 ELSE 0]

(* Mutant: the active list is taken to hold the job.                        *)
MutReleaseUnchecked(s, j) ==
  [s EXCEPT !.lock[j] = NoToken, !.stalled = @ \ {j}, !.active[j] = @ - 1]

(* removeLock, then LREM active 1.                                          *)
Release(s, j) ==
  [s EXCEPT !.lock[j]   = NoToken,
            !.stalled   = @ \ {j},
            !.active[j] = IF @ > 0 THEN @ - 1 ELSE 0]

FinishAs(s, r, target, attemptsMade) ==
  IF target = "completed"
  THEN [Release(s, r.job) EXCEPT !.completed = @ \union {r.job}, !.atm[r.job] = attemptsMade]
  ELSE [Release(s, r.job) EXCEPT !.failed    = @ \union {r.job}, !.atm[r.job] = attemptsMade]

MoveToDelayed(s, r, attemptsMade) ==
  AddDelayMarkerIfNeeded(
    [Release(s, r.job) EXCEPT !.delayed = @ \union {r.job}, !.atm[r.job] = attemptsMade])

(* Mutant: a retry leaves its lock to expire.                               *)
MutRetryJobKeepsLock(s, r) ==
  AddBaseMarkerIfNeeded(
    Requeue([s EXCEPT !.active[r.job] = @ - 1, !.atm[r.job] = r.atm], r.job, r.priority),
    s.isPaused)

(* Job::retry passes the attempts and the priority its handler received.    *)
RetryJob(s, r) ==
  AddBaseMarkerIfNeeded(
    Requeue([Release(s, r.job) EXCEPT !.atm[r.job] = r.atm], r.job, r.priority), s.isPaused)

(* Only a job that LREM found goes back, and a prioritised one without a    *)
(* marker.                                                                  *)
MoveJobFromActiveToWait(s, j) ==
  LET released == Release(s, j)
  IN  IF s.active[j] = 0 THEN released
      ELSE IF s.priority[j] > 0 THEN Requeue(released, j, s.priority[j])
      ELSE AddBaseMarkerIfNeeded(RPushTarget(released, j), s.isPaused)

-----------------------------------------------------------------------------
(* The outcome of a handler, reported by its worker.                        *)

(* Ok: the worker skips the fetch while it is paused itself.                *)
HandlerOk(r) ==
  /\ Owns(q, r)
  /\ \/ /\ q' = FinishAs(q, r, "completed", r.atm + 1)
        /\ runs' = runs \ {r}
     \/ FetchNext(FinishAs(q, r, "completed", r.atm + 1), r.worker, runs \ {r})
  /\ UNCHANGED alive

(* Err: back to delayed while attempts remain, else failed.                 *)
HandlerErr(r) ==
  /\ Owns(q, r)
  /\ q' = IF r.atm + 1 < MaxAttempts THEN MoveToDelayed(q, r, r.atm + 1)
                                     ELSE FinishAs(q, r, "failed", r.atm + 1)
  /\ runs' = runs \ {r}
  /\ UNCHANGED alive

(* Err(RateLimited).                                                        *)
HandlerRateLimited(r) ==
  /\ "rate_limit" \in Env
  /\ Owns(q, r)
  /\ q' = MoveJobFromActiveToWait(q, r.job)
  /\ runs' = runs \ {r}
  /\ UNCHANGED alive

(* The report comes too late: the script answers -1, -2 or -6, the worker   *)
(* logs it and is done with the job.                                        *)
HandlerRejected(r) ==
  /\ ~Owns(q, r)
  /\ runs' = runs \ {r}
  /\ UNCHANGED <<q, alive>>

(* A cancelled handler is dropped and nothing is reported.                  *)
HandlerCancelled(r) ==
  /\ "cancel" \in Env
  /\ runs' = runs \ {r}
  /\ UNCHANGED <<q, alive>>

(* A handler moves its job itself and goes on.                              *)
HandlerMoves(r) ==
  /\ "handler_moves" \in Env
  /\ Owns(q, r)
  /\ q' \in { RetryJob(q, r), MoveToDelayed(q, r, r.atm),
              FinishAs(q, r, "completed", r.atm + 1), FinishAs(q, r, "failed", r.atm + 1) }
  /\ UNCHANGED <<runs, alive>>

-----------------------------------------------------------------------------
(* Locks and stalled jobs.                                                  *)

(* The tick of the lock extender for one job.  A lock it does not hold any  *)
(* more is left alone.                                                      *)
ExtendLock(r) ==
  /\ q.lock[r.job] = r.worker
  /\ q' = [q EXCEPT !.stalled = @ \ {r.job}]
  /\ UNCHANGED <<runs, alive>>

LockExpires(j) ==
  /\ "expiry" \in Env \/ q.lock[j] \notin alive
  /\ q.lock[j] # NoToken
  /\ q' = [q EXCEPT !.lock[j] = NoToken]
  /\ UNCHANGED <<runs, alive>>

Crash(w) ==
  /\ w \in alive \intersect Crashable
  /\ alive' = alive \ {w}
  /\ runs' = {r \in runs : r.worker # w}
  /\ UNCHANGED q

(* Mutant: active jobs without a lock are not looked for.                   *)
MutStaleMarkedOnly(s) == s.stalled

(* The jobs the script puts into the stalled set or finds there.            *)
Stale(s) == s.stalled \union {j \in Job : s.active[j] > 0 /\ s.lock[j] = NoToken}

(* Mutant: the stalled count stays.                                         *)
MutUnstallUncounted(s, back, over, order) ==
  [s EXCEPT !.stalled     = {},
            !.active      = [j \in Job |-> IF j \in back \union over THEN 0 ELSE @[j]],
            !.prioritized = @ \union {j \in back : s.priority[j] > 0},
            !.wait        = @ \o order]

(* The jobs of back return to their queue, those of over are given up.      *)
Unstall(s, back, over, order) ==
  LET plain == [s EXCEPT
                  !.stalled     = {},
                  !.active      = [j \in Job |-> IF j \in back \union over /\ @[j] > 0
                                                 THEN @[j] - 1 ELSE @[j]],
                  !.stc         = [j \in Job |-> IF j \in back \union over
                                                 THEN @[j] + 1 ELSE @[j]],
                  !.prioritized = @ \union {j \in back : s.priority[j] > 0},
                  !.wait        = IF s.isPaused THEN @ ELSE @ \o order,
                  !.paused      = IF s.isPaused THEN @ \o order ELSE @]
  IN  AddBaseMarkerIfNeeded(plain, s.isPaused \/ back = {})

(* Mutant: one stall too few is allowed.                                    *)
MutMoveStalledTooStrict ==
  LET found == {j \in Stale(q) : q.hash[j] # "none"}
      back  == {j \in found : q.stc[j] + 1 < MaxStalledCount}
  IN  /\ "stalled_check" \in Env
      /\ Stale(q) # {}
      /\ \E order \in Orders({j \in back : q.priority[j] = 0}) :
           q' = Unstall(q, back, found \ back, order)
      /\ UNCHANGED <<runs, alive>>

MoveStalledJobsToWait ==
  LET found == {j \in Stale(q) : q.hash[j] # "none"}
      back  == {j \in found : q.stc[j] < MaxStalledCount}
  IN  /\ "stalled_check" \in Env
      /\ alive # {}
      /\ Stale(q) # {}
      /\ \E order \in Orders({j \in back : q.priority[j] = 0}) :
           q' = Unstall(q, back, found \ back, order)
      /\ UNCHANGED <<runs, alive>>

-----------------------------------------------------------------------------
(* Calls of clients.                                                        *)

Pause ==
  /\ "pause" \in Env
  /\ q' = [q EXCEPT !.isPaused = TRUE, !.paused = q.wait \o @, !.wait = <<>>]
  /\ UNCHANGED <<runs, alive>>

(* Mutant: one job is moved instead of all.                                 *)
MutResumeMovesOne ==
  /\ "pause" \in Env
  /\ q' = AddBaseMarkerIfNeeded(
            IF q.paused = <<>> THEN [q EXCEPT !.isPaused = FALSE]
            ELSE [q EXCEPT !.isPaused = FALSE, !.wait = <<Last(q.paused)>> \o @,
                           !.paused = Front(@)], FALSE)
  /\ UNCHANGED <<runs, alive>>

Resume ==
  /\ "pause" \in Env
  /\ q' = AddBaseMarkerIfNeeded(
            [q EXCEPT !.isPaused = FALSE, !.wait = q.paused \o @, !.paused = <<>>], FALSE)
  /\ UNCHANGED <<runs, alive>>

Promote(j) ==
  /\ "promote" \in Env
  /\ j \in q.delayed
  /\ LET out == Touch([q EXCEPT !.delayed = @ \ {j}], {j})
     IN  q' = AddBaseMarkerIfNeeded(Requeue(out, j, q.priority[j]),
                                    q.isPaused /\ q.priority[j] = 0)
  /\ UNCHANGED <<runs, alive>>

(* moveJobsToWait: a batch of the jobs of one set, already taken out of it  *)
(* in s, enters the list, whatever their priorities.                        *)
MoveJobsToWait(s, batch) ==
  { AddBaseMarkerIfNeeded(
      IF s.isPaused THEN [s EXCEPT !.paused = order \o @] ELSE [s EXCEPT !.wait = order \o @],
      s.isPaused) : order \in Orders(batch) }

RetryJobs ==
  /\ "retry_jobs" \in Env
  /\ \/ \E batch \in SUBSET q.failed \ {{}} :
          q' \in MoveJobsToWait([q EXCEPT !.failed = @ \ batch], batch)
     \/ \E batch \in SUBSET q.completed \ {{}} :
          q' \in MoveJobsToWait([q EXCEPT !.completed = @ \ batch], batch)
  /\ UNCHANGED <<runs, alive>>

PromoteJobs ==
  /\ "promote" \in Env
  /\ \E batch \in SUBSET q.delayed \ {{}} :
       q' \in MoveJobsToWait([q EXCEPT !.delayed = @ \ batch], batch)
  /\ UNCHANGED <<runs, alive>>

(* Mutant: the paused list is not searched.                                 *)
MutReprioritisedWaitOnly(s, j, priority) ==
  LET withField == Touch([s EXCEPT !.priority[j] = priority], {j})
      inSet     == [withField EXCEPT !.prioritized = @ \union {j}]
  IN  IF priority > 0 /\ s.priority[j] = 0 /\ j \in ToSet(s.wait)
        THEN { [inSet EXCEPT !.wait = rest] : rest \in LRemAll(s.wait, j) }
      ELSE IF priority > 0 THEN {inSet}
      ELSE IF s.priority[j] > 0
        THEN { RPushTarget([withField EXCEPT !.prioritized = @ \ {j}], j) }
      ELSE {withField}

(* changePriority looks at the job's priority field, never at its state.    *)
Reprioritised(s, j, priority) ==
  LET withField == Touch([s EXCEPT !.priority[j] = priority], {j})
      inSet     == [withField EXCEPT !.prioritized = @ \union {j}]
  IN  IF priority > 0 /\ s.priority[j] > 0 THEN {inSet}
      ELSE IF priority > 0 /\ j \in ToSet(s.wait)
        THEN { [inSet EXCEPT !.wait = rest] : rest \in LRemAll(s.wait, j) }
      ELSE IF priority > 0 /\ s.isPaused
        THEN { [inSet EXCEPT !.paused = rest] : rest \in LRemAll(s.paused, j) }
      ELSE IF priority > 0 THEN {inSet}
      ELSE IF s.priority[j] > 0
        THEN { RPushTarget([withField EXCEPT !.prioritized = @ \ {j}], j) }
      ELSE {withField}

ChangePriority(j, priority) ==
  /\ q.hash[j] # "none"
  /\ \/ "reprioritise_any" \in Env
     \/ /\ "reprioritise" \in Env
        /\ IF q.priority[j] > 0 THEN j \in q.prioritized
                                ELSE j \in ToSet(q.wait) \union ToSet(q.paused)
  /\ \E s \in Reprioritised(q, j, priority) : q' = AddBaseMarkerIfNeeded(s, q.isPaused)
  /\ UNCHANGED <<runs, alive>>

(* Mutant: delayed jobs are forgotten.                                      *)
MutRemovedExceptDelayed(s, j) ==
  IF j \in s.completed THEN {[s EXCEPT !.completed = @ \ {j}]}
  ELSE IF j \in s.failed THEN {[s EXCEPT !.failed = @ \ {j}]}
  ELSE IF j \in s.prioritized THEN {[s EXCEPT !.prioritized = @ \ {j}]}
  ELSE IF j \in ToSet(s.wait) \union ToSet(s.paused)
    THEN { [s EXCEPT !.wait = w, !.paused = p] :
             w \in LRemAll(s.wait, j), p \in LRemAll(s.paused, j) }
  ELSE {[s EXCEPT !.active[j] = 0]}

(* removeJobFromAnyState: one entry, in the first place that has one.       *)
RemovedFromAnyState(s, j) ==
  IF j \in s.completed THEN {[s EXCEPT !.completed = @ \ {j}]}
  ELSE IF j \in s.delayed THEN {[s EXCEPT !.delayed = @ \ {j}]}
  ELSE IF j \in s.failed THEN {[s EXCEPT !.failed = @ \ {j}]}
  ELSE IF j \in s.prioritized THEN {[s EXCEPT !.prioritized = @ \ {j}]}
  ELSE IF j \in ToSet(s.wait)
    THEN { [s EXCEPT !.wait = rest] : rest \in LRemFirst(s.wait, j) }
  ELSE IF j \in ToSet(s.paused)
    THEN { [s EXCEPT !.paused = rest] : rest \in LRemFirst(s.paused, j) }
  ELSE IF s.active[j] > 0 THEN {[s EXCEPT !.active[j] = @ - 1]}
  ELSE {s}

(* Mutant: a locked job can be removed.                                     *)
MutRemoveLockedJob(j) ==
  /\ "remove" \in Env
  /\ \E s \in RemovedFromAnyState(q, j) :
       q' = [s EXCEPT !.hash[j] = "none", !.priority[j] = 0, !.atm[j] = 0, !.stc[j] = 0]
  /\ UNCHANGED <<runs, alive>>

(* The script does not ask whether the hash exists: an entry without one    *)
(* goes as well.                                                            *)
RemoveJob(j) ==
  /\ "remove" \in Env
  /\ q.lock[j] = NoToken
  /\ \E s \in RemovedFromAnyState(q, j) :
       q' = [s EXCEPT !.hash[j] = "none", !.priority[j] = 0,
                      !.atm[j] = 0, !.stc[j] = 0]
  /\ UNCHANGED <<runs, alive>>

(* Queue::rate_limit fills the limiter, whose key expires in the end.       *)
RateLimit ==
  /\ "rate_limit" \in Env
  /\ q' = [q EXCEPT !.limiter = MaxJobs]
  /\ UNCHANGED <<runs, alive>>

LimiterExpires ==
  /\ q.limiter > 0
  /\ q' = [q EXCEPT !.limiter = 0]
  /\ UNCHANGED <<runs, alive>>

-----------------------------------------------------------------------------
Add(j) == AddStandardJob(j) \/ \E p \in Priority : AddPrioritizedJob(j, p) \/ AddDelayedJob(j, p)

Handler(r) ==
  \/ HandlerOk(r) \/ HandlerErr(r) \/ HandlerRateLimited(r)
  \/ HandlerRejected(r) \/ HandlerCancelled(r) \/ HandlerMoves(r)

JobCall(j) ==
  \/ LockExpires(j) \/ Promote(j) \/ RemoveJob(j)
  \/ \E p \in Priority : ChangePriority(j, p)

QueueCall == Pause \/ Resume \/ RetryJobs \/ PromoteJobs \/ RateLimit \/ LimiterExpires

Next ==
  \/ \E j \in Job : Add(j) \/ JobCall(j)
  \/ \E w \in Worker : MoveToActive(w) \/ Crash(w)
  \/ \E r \in runs : Handler(r) \/ ExtendLock(r)
  \/ MoveStalledJobsToWait
  \/ QueueCall

Spec == Init /\ [][Next]_vars

(* What the surroundings owe the queue: the worker loops and the stalled    *)
(* checker keep running, handlers return, a delay passes, and a lock nobody *)
(* renews expires.                                                          *)
HandlerReturns(w, j) ==
  \E r \in runs : /\ r.worker = w /\ r.job = j
                  /\ HandlerOk(r) \/ HandlerErr(r) \/ HandlerRejected(r)

AbandonedLockExpires(j) ==
  /\ \A r \in runs : r.job = j => r.worker # q.lock[j]
  /\ LockExpires(j)

Fairness ==
  /\ \A w \in Worker \ Crashable : WF_vars(MoveToActive(w))
  /\ \A j \in Job : WF_vars(\E w \in Worker : MoveToActive(w) /\ j \notin q'.delayed)
  /\ \A w \in Worker, j \in Job : WF_vars(HandlerReturns(w, j))
  /\ \A j \in Job : WF_vars(AbandonedLockExpires(j))
  /\ WF_vars(MoveStalledJobsToWait)

FairSpec == Spec /\ Fairness

-----------------------------------------------------------------------------
(* Properties.                                                              *)

(* Every key holds a value of its type.                                     *)
TypeOK ==
  /\ q \in Server
  /\ runs \subseteq Run
  /\ alive \subseteq Worker

Bit(b) == IF b THEN 1 ELSE 0

(* How many of the queue's lists and sets hold the job.                     *)
Places(s, j) ==
  Bit(j \in ToSet(s.wait)) + Bit(j \in ToSet(s.paused)) + s.active[j]
  + Bit(j \in s.prioritized) + Bit(j \in s.delayed)
  + Bit(j \in s.completed) + Bit(j \in s.failed)

(* A job that exists is in exactly one list or set, once; a job that does   *)
(* not exist is in none.  It takes every script to remove the entry the job *)
(* has and add one.                                                         *)
OnePlace ==
  /\ IsInjective(q.wait) /\ IsInjective(q.paused)
  /\ \A j \in Job : Places(q, j) = Bit(q.hash[j] # "none")

(* A job that has not used up its stalls is somewhere, so that some call    *)
(* can still process or return it, whatever the locks did meanwhile.        *)
NeverLost ==
  \A j \in Job :
    q.hash[j] # "none" /\ q.stc[j] <= MaxStalledCount => Places(q, j) > 0

(* No job is executed by two handlers at a time, and none while it is not   *)
(* active.                                                                  *)
SoleRun ==
  /\ \A r1, r2 \in runs : r1.job = r2.job => r1 = r2
  /\ \A r \in runs : q.active[r.job] = 1

(* A locked job is active: nothing takes a job away from the holder of its  *)
(* lock.                                                                    *)
LockedIsActive == \A j \in Job : q.lock[j] # NoToken => q.active[j] = 1

(* A worker that lives holds a lock only while one of its handlers runs the *)
(* job, so every lock is released or taken over.  A job that could not be   *)
(* deserialised is the exception: its lock has to expire.                   *)
LockHeldByRun ==
  \A j \in Job :
    q.lock[j] \in alive /\ q.hash[j] # "bare" =>
      \E r \in runs : r.worker = q.lock[j] /\ r.job = j

(* No job is left behind in the paused list of a queue that is not paused.  *)
PausedListOnlyWhilePaused == ~q.isPaused => q.paused = <<>>

(* While a plain job waits in a queue that is not paused, workers are told. *)
Signalled == ~q.isPaused /\ q.wait # <<>> => "0" \in q.marker

(* A job that was added ends up completed or failed, or has stalled more    *)
(* often than allowed: crashes, lost locks and cancelled handlers do not    *)
(* keep it from being processed.                                            *)
EventuallyProcessed ==
  \A j \in Job :
    q.hash[j] = "stored" ~>
      \/ j \in q.completed \union q.failed
      \/ q.stc[j] > MaxStalledCount

(* The stalled checker and the retries together claim a job boundedly often.*)
StartsBounded == \A j \in Job : q.ats[j] < MaxStarts
=============================================================================
