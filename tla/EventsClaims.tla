---------------------------- MODULE EventsClaims ----------------------------
(* A statement of a comment about waiting that the code contradicts.        *)
EXTENDS MCEvents

(* wait_until_finished subscribes before it checks, to avoid missing        *)
(* events.  With the default last_event_id the task itself misses what is   *)
(* appended before its first XREAD, or between two XREADs until the first   *)
(* entry has come: the job is finished and its waiter waits for ever.       *)
NoMissedEvent ==
  \A w \in Waiter : \A j \in Job :
    (Waits(w) /\ waiters[w].job = j /\ jobs[j].at \in Outcome)
    ~> (~Waits(w) \/ jobs[j].at \notin Outcome \/ reader.shutdown)
=============================================================================
