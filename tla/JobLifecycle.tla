---------------------------- MODULE JobLifecycle ----------------------------
(***************************************************************************)
(* What a queue promises about each of its jobs, without lists, locks or    *)
(* scripts: the states of a job, the steps between them, and the worker     *)
(* that holds an active job.                                                *)
(*                                                                          *)
(* One call may move several jobs (a worker that finishes one job is given  *)
(* the next, and delayed jobs wake up on the way), so a step of the queue   *)
(* is a step, or none, of each job.                                         *)
(***************************************************************************)
CONSTANTS Job, Worker, NoToken

VARIABLES state, holder

State == {"absent", "waiting", "delayed", "active", "completed", "failed"}

Holder == Worker \union {NoToken}

Init ==
  /\ state = [j \in Job |-> "absent"]
  /\ holder = [j \in Job |-> NoToken]

(* From one state to one of several, with nobody holding the job.           *)
Goes(j, from, to) ==
  /\ state[j] \in from /\ holder[j] = NoToken
  /\ state'[j] \in to  /\ holder'[j] = NoToken

Create(j) == Goes(j, {"absent"}, {"waiting", "delayed"})

Wake(j) == Goes(j, {"delayed"}, {"waiting"})

Again(j) == Goes(j, {"completed", "failed"}, {"waiting"})

Recover(j) == Goes(j, {"active"}, {"waiting", "failed"})

Remove(j) == Goes(j, State \ {"absent"}, {"absent"})

(* A delayed job that is due may be taken at once.                          *)
Start(j) ==
  /\ state[j] \in {"waiting", "delayed"} /\ holder[j] = NoToken
  /\ state'[j] = "active" /\ holder'[j] \in Worker

(* Only a holder reports an outcome.                                        *)
Settle(j) ==
  /\ state[j] = "active" /\ holder[j] \in Worker
  /\ state'[j] \in {"completed", "failed", "delayed", "waiting"}
  /\ holder'[j] = NoToken

LoseHolder(j) ==
  /\ state[j] = "active" /\ holder[j] \in Worker
  /\ state'[j] = "active" /\ holder'[j] = NoToken

JobStep(j) ==
  \/ Create(j) \/ Wake(j) \/ Again(j) \/ Recover(j) \/ Remove(j)
  \/ Start(j) \/ Settle(j) \/ LoseHolder(j)

(* All jobs settled or started in one step belong to one worker.            *)
OneCaller ==
  \E w \in Holder : \A j \in Job :
    /\ Settle(j) => holder[j] = w
    /\ Start(j) => holder'[j] = w

Next ==
  /\ state' \in [Job -> State] /\ holder' \in [Job -> Holder]
  /\ \A j \in Job : JobStep(j) \/ <<state'[j], holder'[j]>> = <<state[j], holder[j]>>
  /\ OneCaller

Spec == Init /\ [][Next]_<<state, holder>>
=============================================================================
