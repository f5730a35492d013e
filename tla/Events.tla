-------------------------------- MODULE Events --------------------------------
(***************************************************************************)
(* The event stream of a queue and Job::wait_until_finished.                *)
(* Scripts append an event to the stream in the step that changes a job.    *)
(* The task of QueueEvents reads the stream with XREAD BLOCK and sends each *)
(* entry into a broadcast channel of bounded capacity, from which a waiter  *)
(* reads; a waiter also asks the server, once when it has subscribed and    *)
(* again whenever the channel tells it that it has missed entries.          *)
(***************************************************************************)
EXTENDS Naturals, Sequences

CONSTANTS
  Job,
  Awaited,     \* bound: the jobs that waiters wait for
  Waiter,      \* calls of wait_until_finished
  NoJob,       \* a custom event's job, and the job of a waiter that has not called
  Latest,      \* the id "$": what is appended after the command has been served
  StartIds,    \* last_event_id: Latest, or an entry's id; the stream starts after that one
  Capacity,    \* entries that the broadcast channel keeps
  MaxStream,   \* bound: events in the stream
  MaxErrors    \* bound: XREAD calls that fail

ASSUME EventsAssumption ==
  /\ Latest \notin Nat /\ NoJob \notin Job /\ Awaited \subseteq Job
  /\ StartIds \subseteq {0, Latest}
  /\ Capacity \in Nat \ {0} /\ MaxStream \in Nat /\ MaxErrors \in Nat

VARIABLES
  jobs,    \* each job's place, and the outcomes it has had
  stream,  \* the entries of the stream; an entry's id is its index
  reader,  \* the task of QueueEvents
  sent,    \* everything sent into the broadcast channel
  waiters  \* the calls

vars == <<jobs, stream, reader, sent, waiters>>

Outcome == {"completed", "failed"}
Event == [event : Outcome \union {"waiting", "removed", "custom"}, job : Job \union {NoJob}]

Init ==
  /\ jobs = [j \in Job |-> [at |-> "active", past |-> {}]]
  /\ stream = <<>>
  /\ \E id \in StartIds :
       reader = [start |-> id, last |-> id, at |-> "idle", cut |-> 0, upto |-> 0,
                 shutdown |-> FALSE, errors |-> 0]
  /\ sent = <<>>
  /\ waiters = [w \in Waiter |-> [at |-> "idle", job |-> NoJob, pos |-> 0, again |-> FALSE,
                                  answer |-> "none"]]

-----------------------------------------------------------------------------
(* What happens to jobs, and its events                                     *)

(* XADD: a blocked XREAD is served by the command that appends.             *)
Emit(event, job) ==
  /\ Len(stream) < MaxStream
  /\ stream' = Append(stream, [event |-> event, job |-> job])
  /\ reader' = IF reader.at = "blocked"
               THEN [reader EXCEPT !.at = "replied", !.upto = Len(stream) + 1]
               ELSE reader

(* moveToFinished; a job that is not kept is deleted at once.               *)
Finish(j, outcome, kept) ==
  /\ jobs[j].at = "active"
  /\ jobs' = [jobs EXCEPT ![j] = [at |-> IF kept THEN outcome ELSE "gone",
                                  past |-> @.past \union {outcome}]]
  /\ Emit(outcome, j)
  /\ UNCHANGED <<sent, waiters>>

(* Queue::retry_jobs; "active" is a job that waits or runs.                 *)
RetryJob(j) ==
  /\ jobs[j].at \in Outcome
  /\ jobs' = [jobs EXCEPT ![j].at = "active"]
  /\ Emit("waiting", j)
  /\ UNCHANGED <<sent, waiters>>

RemoveJob(j) ==
  /\ jobs[j].at \in Outcome
  /\ jobs' = [jobs EXCEPT ![j].at = "gone"]
  /\ Emit("removed", j)
  /\ UNCHANGED <<sent, waiters>>

(* QueueEventsProducer::publish                                             *)
Publish ==
  /\ Emit("custom", NoJob)
  /\ UNCHANGED <<jobs, sent, waiters>>

-----------------------------------------------------------------------------
(* The task of QueueEvents                                                  *)

(* The entry after which the server starts to read.                         *)
Resolve(id) == IF id = Latest THEN Len(stream) ELSE id

(* Mutant: the id that is given is included.                                *)
MutReadFrom ==
  LET cut == Resolve(reader.last)
  IN  /\ reader.at = "idle" /\ ~reader.shutdown
      /\ reader' = [reader EXCEPT
           !.at = IF Len(stream) >= cut THEN "replied" ELSE "blocked",
           !.cut = cut, !.upto = Len(stream)]
      /\ UNCHANGED <<jobs, stream, sent, waiters>>

(* XREAD BLOCK from last_id.                                                *)
ReadCall ==
  LET cut == Resolve(reader.last)
  IN  /\ reader.at = "idle" /\ ~reader.shutdown
      /\ reader' = [reader EXCEPT
           !.at = IF Len(stream) > cut THEN "replied" ELSE "blocked",
           !.cut = cut, !.upto = Len(stream)]
      /\ UNCHANGED <<jobs, stream, sent, waiters>>

ReadTimesOut ==
  /\ reader.at = "blocked"
  /\ reader' = [reader EXCEPT !.at = "idle"]
  /\ UNCHANGED <<jobs, stream, sent, waiters>>

(* The connection fails, before or after the server has replied.            *)
ReadFails ==
  /\ reader.at \in {"blocked", "replied"} /\ reader.errors < MaxErrors
  /\ reader' = [reader EXCEPT !.at = "idle", !.errors = @ + 1]
  /\ UNCHANGED <<jobs, stream, sent, waiters>>

(* Mutant: the id is not moved on.                                          *)
MutKeepId(last, id) == last

(* last_id after an entry.                                                  *)
NextId(last, id) == id

(* An entry of a reply, with its id.                                        *)
Message(id) == [id |-> id, entry |-> stream[id]]

(* The loop over the entries of a reply.                                    *)
Deliver ==
  LET id == reader.cut + 1
  IN  /\ reader.at \in {"replied", "delivering"}
      /\ sent' = Append(sent, Message(id))
      /\ reader' = [reader EXCEPT !.last = NextId(@, id), !.cut = id,
                                  !.at = IF id = reader.upto THEN "idle" ELSE "delivering"]
      /\ UNCHANGED <<jobs, stream, waiters>>

Shutdown ==
  /\ ~reader.shutdown
  /\ reader' = [reader EXCEPT !.shutdown = TRUE]
  /\ UNCHANGED <<jobs, stream, sent, waiters>>

(* The loop ends; the sender that QueueEvents keeps leaves the channel open.*)
Stop ==
  /\ reader.at = "idle" /\ reader.shutdown
  /\ reader' = [reader EXCEPT !.at = "stopped"]
  /\ UNCHANGED <<jobs, stream, sent, waiters>>

-----------------------------------------------------------------------------
(* Job::wait_until_finished                                                 *)

Subscribe(w, j) ==
  /\ waiters[w].at = "idle"
  /\ waiters' = [waiters EXCEPT ![w] = [@ EXCEPT !.at = "check completed", !.job = j,
                                                 !.pos = Len(sent)]]
  /\ UNCHANGED <<jobs, stream, reader, sent>>

Answered(w, answer) == [waiters EXCEPT ![w] = [@ EXCEPT !.at = "done", !.answer = answer]]

(* check_finished: two questions, and the job may change between them.      *)
CheckCompleted(w) ==
  /\ waiters[w].at = "check completed"
  /\ waiters' = IF jobs[waiters[w].job].at = "completed" THEN Answered(w, "completed")
                ELSE [waiters EXCEPT ![w].at = "check failed"]
  /\ UNCHANGED <<jobs, stream, reader, sent>>

CheckFailed(w) ==
  /\ waiters[w].at = "check failed"
  /\ waiters' = IF jobs[waiters[w].job].at = "failed" THEN Answered(w, "failed")
                ELSE [waiters EXCEPT ![w].at = "receive"]
  /\ UNCHANGED <<jobs, stream, reader, sent>>

(* Mutant: any job will do.                                                 *)
MutAnyJob(message, j) == message.entry.event \in Outcome

(* Is the message the one that the waiter waits for?                        *)
Matches(message, j) == message.entry.event \in Outcome /\ message.entry.job = j

(* recv: the next message that the channel still keeps.                     *)
Receive(w) ==
  LET next == waiters[w].pos + 1
  IN  /\ waiters[w].at = "receive"
      /\ next \in (Len(sent) - Capacity + 1)..Len(sent)
      /\ waiters' = IF Matches(sent[next], waiters[w].job)
                    THEN Answered(w, sent[next].entry.event)
                    ELSE [waiters EXCEPT ![w].pos = next]
      /\ UNCHANGED <<jobs, stream, reader, sent>>

(* Mutant: the server is not asked again.                                   *)
MutNoCheck(waiter) == [waiter EXCEPT !.pos = Len(sent) - Capacity]

(* After RecvError::Lagged: the server is asked again.                      *)
AskAgain(waiter) ==
  [waiter EXCEPT !.pos = Len(sent) - Capacity, !.at = "check completed", !.again = TRUE]

(* recv: the channel has dropped messages that this waiter has not read.    *)
Lagged(w) ==
  /\ waiters[w].at = "receive"
  /\ Len(sent) > waiters[w].pos + Capacity
  /\ waiters' = [waiters EXCEPT ![w] = AskAgain(@)]
  /\ UNCHANGED <<jobs, stream, reader, sent>>

(* The ttl, if one is given, covers everything but the first check.         *)
TimeOut(w) ==
  /\ waiters[w].at = "receive" \/ waiters[w].again
  /\ waiters[w].at # "done"
  /\ waiters' = Answered(w, "timed out")
  /\ UNCHANGED <<jobs, stream, reader, sent>>

-----------------------------------------------------------------------------
Next ==
  \/ \E j \in Job : \/ \E outcome \in Outcome, kept \in BOOLEAN : Finish(j, outcome, kept)
                    \/ RetryJob(j)
                    \/ RemoveJob(j)
  \/ Publish
  \/ ReadCall \/ ReadTimesOut \/ ReadFails \/ Deliver \/ Shutdown \/ Stop
  \/ \E w \in Waiter : \/ \E j \in Awaited : Subscribe(w, j)
                       \/ CheckCompleted(w)
                       \/ CheckFailed(w)
                       \/ Receive(w)
                       \/ Lagged(w)
                       \/ TimeOut(w)

Spec == Init /\ [][Next]_vars

(* The runtime runs the task and the waiters; nobody has to shut the task   *)
(* down, to give a ttl, or to do anything with a job.                       *)
Fairness ==
  /\ WF_vars(ReadCall) /\ WF_vars(Deliver)
  /\ \A w \in Waiter : /\ WF_vars(CheckCompleted(w)) /\ WF_vars(CheckFailed(w))
                       /\ WF_vars(Receive(w)) /\ WF_vars(Lagged(w))

LiveSpec == Spec /\ Fairness

-----------------------------------------------------------------------------
(* Properties                                                               *)

(* Every variable has its type, and a reply that is being delivered has an  *)
(* entry left.                                                              *)
TypeOK ==
  /\ jobs \in [Job -> [at : Outcome \union {"active", "gone"}, past : SUBSET Outcome]]
  /\ stream \in Seq(Event)
  /\ reader \in [start : Nat \union {Latest}, last : Nat \union {Latest},
                 at : {"idle", "blocked", "replied", "delivering", "stopped"},
                 cut : 0..MaxStream, upto : 0..MaxStream, shutdown : BOOLEAN,
                 errors : 0..MaxErrors]
  /\ reader.at \in {"replied", "delivering"} => reader.cut < reader.upto
  /\ sent \in Seq([id : 1..MaxStream, entry : Event])
  /\ waiters \in [Waiter -> [at : {"idle", "check completed", "check failed", "receive", "done"},
                             job : Job \union {NoJob}, pos : Nat, again : BOOLEAN,
                             answer : Outcome \union {"none", "timed out"}]]

(* From the first entry that the task delivers, subscribers get every entry *)
(* of the stream, once and in order, through timeouts, failed reads and     *)
(* replies that are lost.                                                   *)
Gapless ==
  /\ \A i \in 1..(Len(sent) - 1) : sent[i + 1].id = sent[i].id + 1
  /\ (reader.start # Latest /\ sent # <<>>) => sent[1].id = reader.start + 1

(* An answer is an outcome that the job has really had.                     *)
AnswerTrue ==
  \A w \in Waiter : waiters[w].answer \in Outcome =>
    waiters[w].answer \in jobs[waiters[w].job].past

Waits(w) == waiters[w].at \in {"check completed", "check failed", "receive"}

(* A waiter whose job has finished is answered, unless the job is retried   *)
(* or removed again, or the task is shut down.  It needs a task that was    *)
(* given an id to start from: see EventsClaims.                             *)
WaitReturns ==
  \A w \in Waiter : \A j \in Job :
    ( /\ reader.start # Latest
      /\ Waits(w) /\ waiters[w].job = j /\ jobs[j].at \in Outcome )
    ~> (~Waits(w) \/ jobs[j].at \notin Outcome \/ reader.shutdown)
=============================================================================
