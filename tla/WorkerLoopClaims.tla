-------------------------- MODULE WorkerLoopClaims --------------------------
(***************************************************************************)
(* What comments of worker.rs say of the worker and the code does not do.   *)
(***************************************************************************)
EXTENDS WorkerLoop

CONSTANTS j1, j2, none

TheJobs == {j1, j2}

TwoSlots == {[concurrency |-> 2, jobs |-> TheJobs, events |-> {"failures", "delays"}]}

OnePause == {[concurrency |-> 1, jobs |-> TheJobs, events |-> {"pauses"}]}

(* "Fast-path (prefetched) jobs ... may block here at the concurrency       *)
(* limit: that is safe because they were registered in active_jobs when     *)
(* prefetched, so their lock keeps being renewed while they wait." A job in *)
(* the channel, or waiting for a slot, is registered until a shutdown.      *)
PrefetchedIsRenewed ==
  ~shutdown =>
    /\ ToSet(channel) \subseteq activeJobs
    /\ (loop.pc = "start" /\ ~loop.permit) => loop.job \in activeJobs

(* "Jobs already fetched keep processing. If `do_not_wait_active` is        *)
(* `false`, this waits until all in-flight jobs have finished before        *)
(* returning": handlers return, so a call of pause(false) does.             *)
PauseReturns == (pauser = "poll") ~> (pauser = "returned")
=============================================================================
