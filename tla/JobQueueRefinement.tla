------------------------- MODULE JobQueueRefinement -------------------------
(***************************************************************************)
(* JobQueue implements JobLifecycle: the state of a job is the list or set  *)
(* that has it, and its holder is the token in its lock.                    *)
(***************************************************************************)
EXTENDS JobQueue

(* Job::get_state: the first list or set, in its order, that has the job.   *)
StateOf(s, j) ==
  IF j \in s.completed       THEN "completed"
  ELSE IF j \in s.failed     THEN "failed"
  ELSE IF j \in s.delayed    THEN "delayed"
  ELSE IF s.active[j] > 0    THEN "active"
  ELSE IF j \in ToSet(s.wait) \union ToSet(s.paused) \union s.prioritized THEN "waiting"
  ELSE "absent"

Lifecycle == INSTANCE JobLifecycle WITH
               state  <- [j \in Job |-> StateOf(q, j)],
               holder <- q.lock

(* Every job only ever moves the way its life cycle says, and only the      *)
(* holder of a job's lock reports its outcome.                              *)
ImplementsLifecycle == Lifecycle!Spec
=============================================================================
