---------------------------- MODULE MCWorkerLoop ----------------------------
(***************************************************************************)
(* Workers for TLC.  Three jobs are what it takes to find the channel of    *)
(* one slot full; two slots, to have two tasks of one job id.  A stalled    *)
(* check puts a job where a handler's report may not find it, which         *)
(* multiplies the states: the last three setups have it, with the events    *)
(* that it meets.                                                           *)
(***************************************************************************)
EXTENDS WorkerLoop

CONSTANTS j1, j2, j3, none

TheJobs == {j1, j2, j3}

TheSetups ==
  { [concurrency |-> 1, jobs |-> {j1, j2, j3}, events |-> {"pauses"}],
    [concurrency |-> 1, jobs |-> {j1, j2},
     events |-> {"failures", "delays", "limits", "others", "panics", "shutdown"}],
    [concurrency |-> 1, jobs |-> {j1, j2}, events |-> {"failures", "pauses"}],
    [concurrency |-> 2, jobs |-> {j1, j2}, events |-> {}],
    [concurrency |-> 2, jobs |-> {j1},
     events |-> {"failures", "delays", "others", "panics", "pauses", "shutdown"}],
    [concurrency |-> 1, jobs |-> {j1, j2}, events |-> {"others", "stalled_check"}],
    [concurrency |-> 1, jobs |-> {j1},
     events |-> {"failures", "pauses", "shutdown", "stalled_check"}],
    [concurrency |-> 2, jobs |-> {j1}, events |-> {"failures", "stalled_check"}] }
=============================================================================
