--------------------------- MODULE SchedulerClaims ---------------------------
(* Statements of comments and docs about schedulers that the code           *)
(* contradicts.                                                             *)
EXTENDS MCScheduler

(* addJobScheduler.lua: a job that is active, completed or failed is not    *)
(* updatable, and an upsert that meets one handles the collision.  A        *)
(* pattern's upsert that has removed the pending iteration writes over such *)
(* a job all the same: the job is completed and pending at once.            *)
NotUpdatable ==
  [][ \A s \in Slot :
        (srv.jobs[s].at \cap {"active", "completed", "failed"} # {} /\ ~srv'.jobs[s].started)
          => srv'.jobs[s].at = {} ]_vars

(* Queue::remove_job_scheduler removes the scheduler and its pending        *)
(* iteration job.  An iteration that waits, because it is due or was        *)
(* promoted, is left in the queue and runs.                                 *)
RemovalTakesPending ==
  [][ (srv.next # None /\ srv'.next = None) =>
        \/ srv.jobs[srv.next].started
        \/ srv'.jobs[srv.next].at = {} ]_vars
=============================================================================
