--------------------------- MODULE JobQueueClaims ---------------------------
(***************************************************************************)
(* What comments in the scripts and in the crate say of one queue, where    *)
(* the code does something else.  TLC refutes each of these.                *)
(***************************************************************************)
EXTENDS JobQueue

(* moveStalledJobsToWait-8.lua:53, "no lock = stalled": the stalled count   *)
(* of a job that has a lock does not grow.                                  *)
NoLockMeansStalled ==
  [][\A j \in Job : q.lock[j] # NoToken => q'.stc[j] = q.stc[j]]_vars

(* moveStalledJobsToWait-8.lua:77, "Too many stalls: move to failed": a job *)
(* that exceeds its stalls is a failed job.                                 *)
TooManyStallsMovesToFailed ==
  [][\A j \in Job :
       q.stc[j] = MaxStalledCount /\ q'.stc[j] > MaxStalledCount => j \in q'.failed]_vars

(* job.rs:566, change_priority "moves job to the prioritized sorted set":   *)
(* it does not leave the job where it was and add it there as well.         *)
MovesToPrioritized ==
  [][\A j \in Job :
       q.hash[j] = "stored" /\ q'.priority[j] > q.priority[j]
         => Places(q', j) = Places(q, j)]_vars
=============================================================================
