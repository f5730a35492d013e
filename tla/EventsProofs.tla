----------------------------- MODULE EventsProofs -----------------------------
(***************************************************************************)
(* What holds of the event stream for any number of jobs and waiters, any   *)
(* capacity of the channel and any number of failed reads: subscribers get  *)
(* each entry once and in order, and a waiter's answer is true.             *)
(***************************************************************************)
EXTENDS Events, SequenceTheorems, TLAPS

Reading == {"blocked", "replied", "delivering"}

(* What the task knows of the stream: its last id is that of the entry it   *)
(* has delivered last, and the server reads on from there.                  *)
ReaderInv ==
  /\ Len(stream) <= MaxStream
  /\ reader.start \in {0, Latest}
  /\ reader.last \in Nat => reader.last <= Len(stream)
  /\ reader.at = "blocked" => reader.cut = Len(stream)
  /\ reader.at \in {"replied", "delivering"} => reader.upto <= Len(stream)
  /\ reader.at \in Reading /\ reader.last # Latest => reader.cut = reader.last
  /\ reader.at = "delivering" => sent # <<>>
  /\ sent = <<>> => reader.last = reader.start
  /\ sent # <<>> => reader.last = sent[Len(sent)].id

(* An entry that tells of an outcome tells of one that the job has had.     *)
Told(entry) ==
  entry.event \in Outcome => entry.job \in Job /\ entry.event \in jobs[entry.job].past

(* All that a waiter may hear is true.                                      *)
ToldInv ==
  /\ \A i \in 1..Len(stream) : Told(stream[i])
  /\ \A i \in 1..Len(sent) : Told(sent[i].entry)
  /\ \A j \in Job : jobs[j].at \in Outcome => jobs[j].at \in jobs[j].past

(* A call knows its job, and has no answer before it is done.               *)
CallInv ==
  \A w \in Waiter :
    /\ waiters[w].at # "idle" => waiters[w].job \in Job
    /\ waiters[w].answer # "none" => waiters[w].at = "done"
    /\ waiters[w].again => waiters[w].at # "idle"

(* The type of the reader, and those of the other variables.                *)
ReaderType ==
  [ start : Nat \union {Latest}, last : Nat \union {Latest},
    at : {"idle", "blocked", "replied", "delivering", "stopped"},
    cut : 0..MaxStream, upto : 0..MaxStream, shutdown : BOOLEAN, errors : 0..MaxErrors ]

ReaderTyped ==
  /\ reader \in ReaderType
  /\ reader.at \in {"replied", "delivering"} => reader.cut < reader.upto

JobsTyped == jobs \in [Job -> [at : Outcome \union {"active", "gone"}, past : SUBSET Outcome]]

Sendable == [id : 1..MaxStream, entry : Event]

WaitersTyped ==
  waiters \in [Waiter -> [at : {"idle", "check completed", "check failed", "receive", "done"},
                          job : Job \union {NoJob}, pos : Nat, again : BOOLEAN,
                          answer : Outcome \union {"none", "timed out"}]]

Typed ==
  JobsTyped /\ stream \in Seq(Event) /\ ReaderTyped /\ sent \in Seq(Sendable) /\ WaitersTyped

StreamInv == Typed /\ ReaderInv
IInv == StreamInv /\ Gapless /\ ToldInv /\ CallInv /\ AnswerTrue

-----------------------------------------------------------------------------
(* Steps of the stream.                                                     *)

LEMMA TypedIsTypeOK == TypeOK <=> Typed
  BY DEF TypeOK, Typed, JobsTyped, ReaderTyped, ReaderType, Sendable, WaitersTyped

LEMMA InitInv == Init => IInv
<1> SUFFICES ASSUME Init PROVE IInv
  OBVIOUS
<1>1. Typed
  BY EventsAssumption
  DEF Init, Typed, JobsTyped, ReaderTyped, ReaderType, Sendable, WaitersTyped, Outcome, Event
<1>2. ReaderInv
  BY EventsAssumption DEF Init, ReaderInv, Reading
<1>3. Gapless /\ ToldInv /\ CallInv /\ AnswerTrue
  BY DEF Init, Gapless, ToldInv, CallInv, AnswerTrue, Outcome
<1> QED BY <1>1, <1>2, <1>3 DEF IInv, StreamInv

(* An append serves a blocked read with the entry it appends.               *)
LEMMA EmitInv ==
  ASSUME StreamInv, NEW e \in Outcome \union {"waiting", "removed", "custom"},
         NEW j \in Job \union {NoJob}, Emit(e, j), sent' = sent, waiters' = waiters, JobsTyped'
  PROVE  StreamInv'
<1> USE EventsAssumption
<1> DEFINE entry == [event |-> e, job |-> j]
<1>1. stream \in Seq(Event) /\ entry \in Event
  BY DEF StreamInv, Typed, Event
<1>2. /\ stream' \in Seq(Event) /\ Len(stream') = Len(stream) + 1
      /\ Len(stream) < MaxStream /\ Len(stream) \in Nat
  BY <1>1, AppendProperties, LenProperties DEF Emit
<1>3. CASE reader.at = "blocked"
  <2>1. reader' = [reader EXCEPT !.at = "replied", !.upto = Len(stream) + 1]
    BY <1>3 DEF Emit
  <2>2. reader \in ReaderType /\ reader.cut = Len(stream) /\ Len(stream) + 1 \in 0..MaxStream
    BY <1>2, <1>3 DEF StreamInv, Typed, ReaderTyped, ReaderInv
  <2>3. ReaderTyped'
    <3>1. reader' \in ReaderType
      BY <2>1, <2>2 DEF ReaderType
    <3>2. reader'.cut < reader'.upto
      BY <1>2, <2>1, <2>2 DEF ReaderType
    <3> QED BY <3>1, <3>2 DEF ReaderTyped
  <2>4. ReaderInv'
    BY <1>2, <1>3, <2>1 DEF StreamInv, Typed, ReaderTyped, ReaderType, ReaderInv, Reading
  <2> QED BY <1>2, <2>3, <2>4 DEF StreamInv, Typed, WaitersTyped
<1>4. CASE reader.at # "blocked"
  <2>1. reader' = reader
    BY <1>4 DEF Emit
  <2>2. ReaderTyped' /\ ReaderInv'
    BY <1>2, <1>4, <2>1 DEF StreamInv, Typed, ReaderTyped, ReaderType, ReaderInv, Reading
  <2> QED BY <1>2, <2>2 DEF StreamInv, Typed, WaitersTyped
<1> QED BY <1>3, <1>4

(* The task's other steps leave its last id alone.                          *)
LEMMA ReaderStepInv ==
  ASSUME StreamInv, ReadCall \/ ReadTimesOut \/ ReadFails \/ Shutdown \/ Stop
  PROVE  StreamInv' /\ UNCHANGED <<jobs, stream, sent, waiters>> /\ reader'.start = reader.start
<1> USE EventsAssumption
<1>0. Len(stream) \in Nat
  BY LenProperties DEF StreamInv, Typed
<1>1. UNCHANGED <<jobs, stream, sent, waiters>>
  BY DEF ReadCall, ReadTimesOut, ReadFails, Shutdown, Stop
<1>2. SUFFICES ReaderTyped' /\ ReaderInv' /\ reader'.start = reader.start
  BY <1>1 DEF StreamInv, Typed, JobsTyped, WaitersTyped
<1> USE DEF StreamInv, Typed, ReaderTyped, ReaderType, ReaderInv, Reading
<1>3. CASE ReadCall
  <2> DEFINE cut == Resolve(reader.last)
  <2>1. cut \in 0..Len(stream) /\ (reader.last # Latest => cut = reader.last)
    BY <1>0 DEF Resolve
  <2>2. reader' = [reader EXCEPT !.at = IF Len(stream) > cut THEN "replied" ELSE "blocked",
                                 !.cut = cut, !.upto = Len(stream)]
    BY <1>3 DEF ReadCall
  <2> HIDE DEF cut
  <2>3. ReaderTyped' /\ reader'.start = reader.start
    <3>1. cut \in 0..MaxStream /\ Len(stream) \in 0..MaxStream
      BY <1>0, <2>1
    <3>2. reader' \in ReaderType /\ reader'.start = reader.start
      BY <2>2, <3>1
    <3>3. reader'.at = "replied" => reader'.cut < reader'.upto
      BY <1>0, <2>1, <2>2
    <3>4. reader'.at # "delivering"
      BY <2>2
    <3> QED BY <3>2, <3>3, <3>4
  <2>4. ReaderInv'
    BY <1>0, <1>1, <2>1, <2>2
  <2> QED BY <2>3, <2>4
<1>4. CASE ReadTimesOut
  BY <1>1, <1>4 DEF ReadTimesOut
<1>5. CASE ReadFails
  <2>1. reader' = [reader EXCEPT !.at = "idle", !.errors = @ + 1] /\ reader.errors < MaxErrors
    BY <1>5 DEF ReadFails
  <2>2. reader.errors + 1 \in 0..MaxErrors
    BY <2>1
  <2>3. reader' \in ReaderType
    BY <2>1, <2>2
  <2>4. ReaderTyped' /\ reader'.start = reader.start
    BY <2>1, <2>3
  <2>5. ReaderInv'
    BY <1>1, <1>5 DEF ReadFails
  <2> QED BY <2>4, <2>5
<1>6. CASE Shutdown
  BY <1>1, <1>6 DEF Shutdown
<1>7. CASE Stop
  BY <1>1, <1>7 DEF Stop
<1> QED BY <1>3, <1>4, <1>5, <1>6, <1>7

(* A delivery sends the entry after the last one.                           *)
LEMMA DeliverInv ==
  ASSUME StreamInv, Gapless, Deliver
  PROVE  /\ StreamInv' /\ Gapless'
         /\ reader.cut + 1 \in 1..Len(stream)
         /\ sent' = Append(sent, Message(reader.cut + 1))
         /\ sent \in Seq(Sendable) /\ Message(reader.cut + 1) \in Sendable
<1> USE EventsAssumption
<1> DEFINE id == reader.cut + 1
<1>1. /\ reader.at \in {"replied", "delivering"}
      /\ sent' = Append(sent, Message(id))
      /\ reader' = [reader EXCEPT !.last = id, !.cut = id,
                                  !.at = IF id = reader.upto THEN "idle" ELSE "delivering"]
      /\ UNCHANGED <<jobs, stream, waiters>>
  BY DEF Deliver, NextId
<1>2. /\ Len(stream) \in Nat /\ stream \in Seq(Event)
      /\ reader.cut \in Nat /\ reader.upto \in Nat
      /\ reader.cut < reader.upto /\ reader.upto <= Len(stream) /\ Len(stream) <= MaxStream
  BY <1>1, LenProperties DEF StreamInv, Typed, ReaderTyped, ReaderType, ReaderInv
<1>3. id \in 1..Len(stream) /\ id \in 1..MaxStream /\ id <= reader.upto
  BY <1>2
<1>4. sent \in Seq(Sendable) /\ Message(id) \in Sendable
  <2>1. stream[id] \in Event
    BY <1>2, <1>3, ElementOfSeq
  <2> QED BY <1>3, <2>1 DEF StreamInv, Typed, Message, Sendable
<1> HIDE DEF id
<1>5. /\ sent' \in Seq(Sendable) /\ Len(sent') = Len(sent) + 1 /\ Len(sent) \in Nat
      /\ \A i \in 1..Len(sent) : sent'[i] = sent[i]
      /\ sent'[Len(sent) + 1] = Message(id) /\ sent' # <<>>
  <2>1. Len(sent) \in Nat
    BY <1>4, LenProperties
  <2>2. /\ sent' \in Seq(Sendable) /\ Len(sent') = Len(sent) + 1
        /\ \A i \in 1..Len(sent) : sent'[i] = sent[i]
        /\ sent'[Len(sent) + 1] = Message(id)
    BY <1>1, <1>4, <2>1, AppendProperties
  <2>3. sent' # <<>>
    BY <2>1, <2>2, EmptySeq
  <2> QED BY <2>1, <2>2, <2>3
<1>6. Typed'
  <2>1. ReaderTyped'
    <3>1. reader \in ReaderType /\ id \in Nat
      BY <1>3 DEF StreamInv, Typed, ReaderTyped
    <3>2. PICK at \in {"idle", "delivering"} :
            reader' = [reader EXCEPT !.last = id, !.cut = id, !.at = at]
      BY <1>1
    <3>3. id \in 0..MaxStream
      BY <1>3
    <3>4. reader' \in ReaderType
      BY <3>1, <3>2, <3>3 DEF ReaderType
    <3>5. id # reader.upto => id < reader.upto
      BY <1>2, <1>3, <3>1
    <3>6. /\ reader'.cut = id /\ reader'.upto = reader.upto
          /\ reader'.at = "delivering" => id # reader.upto
      BY <1>1, <3>1 DEF ReaderType
    <3>7. reader'.at = "delivering" => reader'.cut < reader'.upto
      BY <3>5, <3>6
    <3>8. reader'.at # "replied"
      BY <1>1, <3>1 DEF ReaderType
    <3> QED BY <3>4, <3>7, <3>8 DEF ReaderTyped
  <2> QED BY <1>1, <1>5, <2>1 DEF StreamInv, Typed, JobsTyped, WaitersTyped
<1>7. ReaderInv'
  <2>1. /\ reader'.last = id /\ reader'.cut = id /\ reader'.start = reader.start
        /\ reader'.upto = reader.upto /\ reader'.at \in {"idle", "delivering"}
    BY <1>1 DEF StreamInv, Typed, ReaderTyped, ReaderType
  <2>2. sent'[Len(sent')].id = id
    BY <1>5 DEF Message
  <2> QED BY <1>1, <1>2, <1>3, <1>5, <2>1, <2>2 DEF StreamInv, ReaderInv, Reading
<1>8. Gapless'
  <2>1. ASSUME NEW i \in 1..(Len(sent') - 1)
        PROVE  sent'[i + 1].id = sent'[i].id + 1
    <3>1. CASE i < Len(sent)
      <4>1. i \in 1..(Len(sent) - 1) /\ i \in 1..Len(sent) /\ i + 1 \in 1..Len(sent)
        BY <1>5, <3>1
      <4> QED BY <1>5, <4>1 DEF Gapless
    <3>2. CASE i = Len(sent)
      <4>1. i \in 1..Len(sent) /\ sent[i] \in Sendable /\ sent # <<>>
        BY <1>4, <1>5, <3>2, ElementOfSeq, EmptySeq
      <4>2. reader.last = sent[i].id /\ sent[i].id \in Nat
        BY <3>2, <4>1 DEF StreamInv, ReaderInv, Sendable
      <4>3. reader.cut = reader.last
        BY <1>1, <4>2 DEF StreamInv, ReaderInv, Reading
      <4> QED BY <1>5, <3>2, <4>1, <4>2, <4>3 DEF Message, id
    <3> QED BY <1>5, <3>1, <3>2
  <2>2. ASSUME reader.start # Latest
        PROVE  sent'[1].id = reader.start + 1
    <3>1. CASE sent = <<>>
      <4>1. reader.last = reader.start /\ reader.cut = reader.last
        BY <1>1, <2>2, <3>1 DEF StreamInv, ReaderInv, Reading
      <4>2. Len(sent) = 0
        BY <3>1
      <4> QED BY <1>5, <4>1, <4>2 DEF Message, id
    <3>2. CASE sent # <<>>
      <4>1. 1 \in 1..Len(sent)
        BY <1>4, <1>5, <3>2, EmptySeq
      <4> QED BY <1>5, <2>2, <3>2, <4>1 DEF Gapless
    <3> QED BY <3>1, <3>2
  <2>3. reader'.start = reader.start
    BY <1>1 DEF StreamInv, Typed, ReaderTyped, ReaderType
  <2> QED BY <2>1, <2>2, <2>3 DEF Gapless
<1> QED BY <1>1, <1>3, <1>4, <1>6, <1>7, <1>8 DEF StreamInv, id

-----------------------------------------------------------------------------
(* Steps of the jobs: an event that tells of an outcome is appended in the  *)
(* step that gives the job this outcome, and outcomes are never undone.     *)

LEMMA EmitTold ==
  ASSUME StreamInv, ToldInv, CallInv, AnswerTrue, Gapless,
         NEW e \in Outcome \union {"waiting", "removed", "custom"},
         NEW j \in Job \union {NoJob}, Emit(e, j), UNCHANGED <<sent, waiters>>, JobsTyped',
         \A k \in Job : jobs[k].past \subseteq jobs'[k].past,
         e \in Outcome => j \in Job /\ e \in jobs'[j].past,
         \A k \in Job : jobs'[k].at \in Outcome => jobs'[k].at \in jobs'[k].past
  PROVE  IInv'
<1> DEFINE entry == [event |-> e, job |-> j]
<1>1. /\ stream \in Seq(Event) /\ entry \in Event /\ Len(stream) \in Nat
      /\ stream' = Append(stream, entry)
  BY LenProperties DEF StreamInv, Typed, Event, Emit
<1>2. StreamInv'
  BY EmitInv
<1>3. /\ Len(stream') = Len(stream) + 1
      /\ \A i \in 1..Len(stream) : stream'[i] = stream[i]
      /\ stream'[Len(stream) + 1] = entry
  BY <1>1, AppendProperties
<1>4. ASSUME NEW i \in 1..Len(stream')
      PROVE  Told(stream[i])'
  <2>1. CASE i \in 1..Len(stream)
    BY <1>3, <2>1 DEF ToldInv, Told
  <2>2. CASE i = Len(stream) + 1
    BY <1>3, <2>2 DEF Told
  <2> QED BY <1>1, <1>3, <2>1, <2>2
<1>5. \A i \in 1..Len(sent) : Told(sent[i].entry)'
  BY DEF ToldInv, Told
<1>6. ToldInv'
  BY <1>4, <1>5 DEF ToldInv
<1>7. reader'.start = reader.start
  BY DEF Emit, StreamInv, Typed, ReaderTyped, ReaderType
<1>8. Gapless' /\ CallInv'
  BY <1>7 DEF Gapless, CallInv
<1>9. AnswerTrue'
  <2> SUFFICES ASSUME NEW w \in Waiter, waiters[w].answer \in Outcome
               PROVE  waiters[w].answer \in jobs'[waiters[w].job].past
    BY DEF AnswerTrue
  <2>1. waiters[w].job \in Job
    BY DEF CallInv, Outcome
  <2> QED BY <2>1 DEF AnswerTrue
<1> QED BY <1>2, <1>6, <1>8, <1>9 DEF IInv

LEMMA JobStepInv ==
  ASSUME IInv, NEW j \in Job,
         \/ \E outcome \in Outcome, kept \in BOOLEAN : Finish(j, outcome, kept)
         \/ RetryJob(j)
         \/ RemoveJob(j)
  PROVE  IInv'
<1> USE DEF IInv
<1>1. jobs \in [Job -> [at : Outcome \union {"active", "gone"}, past : SUBSET Outcome]]
  BY DEF StreamInv, Typed, JobsTyped
<1>2. CASE \E outcome \in Outcome, kept \in BOOLEAN : Finish(j, outcome, kept)
  <2>1. PICK outcome \in Outcome, kept \in BOOLEAN : Finish(j, outcome, kept)
    BY <1>2
  <2>2. PICK at \in {outcome, "gone"} :
          jobs' = [jobs EXCEPT ![j] = [at |-> at, past |-> @.past \union {outcome}]]
    BY <2>1 DEF Finish
  <2>3. JobsTyped'
    BY <1>1, <2>2 DEF JobsTyped
  <2>4. \A k \in Job : jobs[k].past \subseteq jobs'[k].past
    BY <1>1, <2>2
  <2>5. outcome \in jobs'[j].past
    BY <1>1, <2>2
  <2>6. \A k \in Job : jobs'[k].at \in Outcome => jobs'[k].at \in jobs'[k].past
    BY <1>1, <2>2 DEF ToldInv, Outcome
  <2> QED BY <2>1, <2>3, <2>4, <2>5, <2>6, EmitTold DEF Finish
<1>3. ASSUME NEW e \in {"waiting", "removed"}, NEW at \in {"active", "gone"},
             jobs' = [jobs EXCEPT ![j].at = at], Emit(e, j), UNCHANGED <<sent, waiters>>
      PROVE  IInv'
  <2>1. JobsTyped' /\ \A k \in Job : jobs[k].past \subseteq jobs'[k].past
    BY <1>1, <1>3 DEF JobsTyped
  <2>2. \A k \in Job : jobs'[k].at \in Outcome => jobs'[k].at \in jobs'[k].past
    BY <1>1, <1>3 DEF ToldInv, Outcome
  <2>3. e \notin Outcome
    BY DEF Outcome
  <2> QED BY <1>3, <2>1, <2>2, <2>3, EmitTold
<1>4. CASE RetryJob(j)
  <2>1. /\ jobs' = [jobs EXCEPT ![j].at = "active"]
        /\ Emit("waiting", j) /\ UNCHANGED <<sent, waiters>>
    BY <1>4 DEF RetryJob
  <2> HIDE DEF IInv
  <2> QED BY <1>3, <2>1
<1>5. CASE RemoveJob(j)
  <2>1. /\ jobs' = [jobs EXCEPT ![j].at = "gone"]
        /\ Emit("removed", j) /\ UNCHANGED <<sent, waiters>>
    BY <1>5 DEF RemoveJob
  <2> HIDE DEF IInv
  <2> QED BY <1>3, <2>1
<1> QED BY <1>2, <1>4, <1>5

LEMMA PublishInv == IInv /\ Publish => IInv'
<1> SUFFICES ASSUME IInv, Publish PROVE IInv'
  OBVIOUS
<1>1. "custom" \notin Outcome
  BY DEF Outcome
<1> QED BY <1>1, EmitTold DEF IInv, StreamInv, Typed, JobsTyped, ToldInv, Publish

-----------------------------------------------------------------------------
(* Steps of the task and of the waiters                                     *)

LEMMA TaskStepInv ==
  ASSUME IInv, ReadCall \/ ReadTimesOut \/ ReadFails \/ Shutdown \/ Stop
  PROVE  IInv'
<1>1. StreamInv' /\ UNCHANGED <<jobs, stream, sent, waiters>> /\ reader'.start = reader.start
  BY ReaderStepInv DEF IInv
<1> QED BY <1>1 DEF IInv, Gapless, ToldInv, Told, CallInv, AnswerTrue

LEMMA DeliverStepInv == IInv /\ Deliver => IInv'
<1> SUFFICES ASSUME IInv, Deliver PROVE IInv'
  OBVIOUS
<1> DEFINE id == reader.cut + 1
<1>1. /\ StreamInv' /\ Gapless' /\ id \in 1..Len(stream)
      /\ sent' = Append(sent, Message(id)) /\ sent \in Seq(Sendable) /\ Message(id) \in Sendable
  BY DeliverInv DEF IInv
<1>2. UNCHANGED <<jobs, stream, waiters>>
  BY DEF Deliver
<1> HIDE DEF id
<1>3. /\ Len(sent) \in Nat /\ Len(sent') = Len(sent) + 1
      /\ \A i \in 1..Len(sent) : sent'[i] = sent[i]
      /\ sent'[Len(sent) + 1] = Message(id)
  BY <1>1, LenProperties, AppendProperties
<1>4. Told(Message(id).entry)
  BY <1>1 DEF IInv, ToldInv, Message
<1>5. ASSUME NEW i \in 1..Len(sent')
      PROVE  Told(sent'[i].entry)
  <2>1. CASE i \in 1..Len(sent)
    BY <1>3, <2>1 DEF IInv, ToldInv
  <2>2. CASE i = Len(sent) + 1
    BY <1>3, <1>4, <2>2
  <2> QED BY <1>3, <2>1, <2>2
<1>6. ToldInv'
  BY <1>2, <1>5 DEF IInv, ToldInv, Told
<1> QED BY <1>1, <1>2, <1>6 DEF IInv, CallInv, AnswerTrue

(* A waiter's answer is the place of its job or an outcome it was told.     *)
LEMMA WaiterStepInv ==
  ASSUME IInv, NEW w \in Waiter,
         \/ \E j \in Awaited : Subscribe(w, j)
         \/ CheckCompleted(w) \/ CheckFailed(w) \/ Receive(w) \/ Lagged(w) \/ TimeOut(w)
  PROVE  IInv'
<1> USE EventsAssumption
<1>1. UNCHANGED <<jobs, stream, reader, sent>>
  BY DEF Subscribe, CheckCompleted, CheckFailed, Receive, Lagged, TimeOut
<1>2. waiters \in [Waiter -> [at : {"idle", "check completed", "check failed", "receive", "done"},
                              job : Job \union {NoJob}, pos : Nat, again : BOOLEAN,
                              answer : Outcome \union {"none", "timed out"}]]
  BY DEF IInv, StreamInv, Typed, WaitersTyped
<1>3. /\ waiters[w].at # "idle" => waiters[w].job \in Job
      /\ waiters[w].answer # "none" => waiters[w].at = "done"
      /\ waiters[w].again => waiters[w].at # "idle"
  BY DEF IInv, CallInv
<1>4. Len(sent) \in Nat
  BY LenProperties DEF IInv, StreamInv, Typed
<1>5. waiters[w].pos \in Nat
  BY <1>2
<1> DEFINE Changed(v) == waiters' = [waiters EXCEPT ![w] = v]
           Call == [at : {"idle", "check completed", "check failed", "receive", "done"},
                    job : Job \union {NoJob}, pos : Nat, again : BOOLEAN,
                    answer : Outcome \union {"none", "timed out"}]
<1>6. ASSUME NEW v \in Call, Changed(v), v.job \in Job, v.answer # "none" => v.at = "done",
             v.at # "idle", v.answer \in Outcome => v.answer \in jobs[v.job].past
      PROVE  IInv'
  <2>1. WaitersTyped'
    BY <1>2, <1>6 DEF WaitersTyped
  <2>2. CallInv'
    BY <1>2, <1>6 DEF IInv, CallInv
  <2>3. AnswerTrue'
    BY <1>1, <1>2, <1>6 DEF IInv, AnswerTrue
  <2>4. StreamInv'
    BY <1>1, <2>1
    DEF IInv, StreamInv, Typed, JobsTyped, ReaderTyped, ReaderInv
  <2> QED BY <1>1, <2>2, <2>3, <2>4 DEF IInv, Gapless, ToldInv, Told
<1>7. CASE \E j \in Awaited : Subscribe(w, j)
  <2>1. PICK j \in Awaited : Subscribe(w, j)
    BY <1>7
  <2> DEFINE v == [waiters[w] EXCEPT !.at = "check completed", !.job = j, !.pos = Len(sent)]
  <2>2. Changed(v) /\ j \in Job /\ waiters[w].at = "idle"
    BY <2>1 DEF Subscribe
  <2>3. waiters[w].answer = "none"
    BY <1>3, <2>2
  <2>4. v \in Call /\ v.job \in Job /\ v.answer = "none" /\ v.at # "idle"
    BY <1>2, <1>4, <2>2, <2>3
  <2> HIDE DEF v
  <2> QED BY <1>6, <2>2, <2>4 DEF Outcome
(* An answer that the job has had, whatever the waiter knows.               *)
<1>8. ASSUME NEW answer \in Outcome \union {"timed out"}, waiters' = Answered(w, answer),
             waiters[w].at # "idle",
             answer \in Outcome => answer \in jobs[waiters[w].job].past
      PROVE  IInv'
  <2> DEFINE v == [waiters[w] EXCEPT !.at = "done", !.answer = answer]
  <2>1. Changed(v) /\ v \in Call /\ v.job = waiters[w].job /\ v.answer = answer /\ v.at = "done"
    BY <1>2, <1>8 DEF Answered
  <2> HIDE DEF v
  <2> QED BY <1>3, <1>6, <1>8, <2>1
(* A step to another question, or to the next message.                      *)
<1>9. ASSUME NEW at \in {"check completed", "check failed", "receive"}, NEW pos \in Nat,
             NEW again \in BOOLEAN, waiters[w].at # "idle", waiters[w].at # "done",
             waiters' = [waiters EXCEPT ![w] = [@ EXCEPT !.at = at, !.pos = pos, !.again = again]]
      PROVE  IInv'
  <2> DEFINE v == [waiters[w] EXCEPT !.at = at, !.pos = pos, !.again = again]
  <2>1. /\ Changed(v) /\ v \in Call /\ v.job = waiters[w].job /\ v.answer = waiters[w].answer
        /\ v.at # "idle"
    BY <1>2, <1>9
  <2>2. v.answer = "none" /\ v.job \in Job
    BY <1>3, <1>9, <2>1
  <2> HIDE DEF v
  <2> QED BY <1>6, <2>1, <2>2 DEF Outcome
<1>10. CASE CheckCompleted(w)
  <2>1. CASE jobs[waiters[w].job].at = "completed"
    <3>1. waiters' = Answered(w, "completed") /\ waiters[w].at # "idle"
      BY <1>10, <2>1 DEF CheckCompleted
    <3>2. "completed" \in jobs[waiters[w].job].past
      BY <1>3, <2>1, <3>1 DEF IInv, ToldInv, Outcome
    <3> QED BY <1>8, <3>1, <3>2 DEF Outcome
  <2>2. CASE jobs[waiters[w].job].at # "completed"
    <3>1. /\ waiters' = [waiters EXCEPT ![w].at = "check failed"]
          /\ waiters[w].at = "check completed"
      BY <1>10, <2>2 DEF CheckCompleted
    <3>2. waiters' = [waiters EXCEPT ![w] = [@ EXCEPT !.at = "check failed",
                                  !.pos = waiters[w].pos, !.again = waiters[w].again]]
      BY <1>2, <3>1
    <3> QED BY <1>2, <1>9, <3>1, <3>2
  <2> QED BY <2>1, <2>2
<1>11. CASE CheckFailed(w)
  <2>1. CASE jobs[waiters[w].job].at = "failed"
    <3>1. waiters' = Answered(w, "failed") /\ waiters[w].at # "idle"
      BY <1>11, <2>1 DEF CheckFailed
    <3>2. "failed" \in jobs[waiters[w].job].past
      BY <1>3, <2>1, <3>1 DEF IInv, ToldInv, Outcome
    <3> QED BY <1>8, <3>1, <3>2 DEF Outcome
  <2>2. CASE jobs[waiters[w].job].at # "failed"
    <3>1. /\ waiters' = [waiters EXCEPT ![w].at = "receive"]
          /\ waiters[w].at = "check failed"
      BY <1>11, <2>2 DEF CheckFailed
    <3>2. waiters' = [waiters EXCEPT ![w] = [@ EXCEPT !.at = "receive",
                                  !.pos = waiters[w].pos, !.again = waiters[w].again]]
      BY <1>2, <3>1
    <3> QED BY <1>2, <1>9, <3>1, <3>2
  <2> QED BY <2>1, <2>2
<1>12. CASE Receive(w)
  <2> DEFINE next == waiters[w].pos + 1
  <2>1. next \in 1..Len(sent) /\ next \in Nat /\ waiters[w].at = "receive"
    <3>1. waiters[w].at = "receive" /\ next \in (Len(sent) - Capacity + 1)..Len(sent)
      BY <1>12 DEF Receive
    <3> QED BY <1>4, <1>5, <3>1
  <2>2. CASE Matches(sent[next], waiters[w].job)
    <3>1. waiters' = Answered(w, sent[next].entry.event)
      BY <1>12, <2>2 DEF Receive
    <3>2. /\ sent[next].entry.event \in Outcome
          /\ sent[next].entry.event \in jobs[waiters[w].job].past
      BY <2>1, <2>2 DEF IInv, ToldInv, Told, Matches
    <3> QED BY <1>8, <2>1, <3>1, <3>2
  <2>3. CASE ~Matches(sent[next], waiters[w].job)
    <3>1. waiters' = [waiters EXCEPT ![w].pos = next]
      BY <1>12, <2>3 DEF Receive
    <3>2. waiters' = [waiters EXCEPT ![w] = [@ EXCEPT !.at = "receive", !.pos = next,
                                                      !.again = waiters[w].again]]
      BY <1>2, <2>1, <3>1
    <3> QED BY <1>2, <1>9, <2>1, <3>2
  <2> QED BY <2>2, <2>3
<1>13. CASE Lagged(w)
  <2>1. Len(sent) - Capacity \in Nat /\ waiters[w].at = "receive"
    <3>1. waiters[w].at = "receive" /\ Len(sent) > waiters[w].pos + Capacity
      BY <1>13 DEF Lagged
    <3> QED BY <1>4, <1>5, <3>1
  <2>2. waiters' = [waiters EXCEPT ![w] = [@ EXCEPT !.at = "check completed",
                                  !.pos = Len(sent) - Capacity, !.again = TRUE]]
    BY <1>13 DEF Lagged, AskAgain
  <2> QED BY <1>9, <2>1, <2>2
<1>14. CASE TimeOut(w)
  <2>1. waiters' = Answered(w, "timed out") /\ waiters[w].at # "idle"
    BY <1>3, <1>14 DEF TimeOut
  <2> QED BY <1>8, <2>1 DEF Outcome
<1> QED BY <1>7, <1>10, <1>11, <1>12, <1>13, <1>14

LEMMA StutterInv == IInv /\ UNCHANGED vars => IInv'
<1> SUFFICES ASSUME IInv, UNCHANGED vars PROVE IInv'
  OBVIOUS
<1>1. UNCHANGED <<jobs, stream, reader, sent, waiters>>
  BY DEF vars
<1>2. StreamInv'
  BY <1>1 DEF IInv, StreamInv, Typed, JobsTyped, ReaderTyped, WaitersTyped, ReaderInv
<1> QED BY <1>1, <1>2 DEF IInv, Gapless, ToldInv, Told, CallInv, AnswerTrue

LEMMA StepInv == IInv /\ [Next]_vars => IInv'
<1> SUFFICES ASSUME IInv, [Next]_vars PROVE IInv'
  OBVIOUS
<1>1. CASE \E j \in Job :
             \/ \E outcome \in Outcome, kept \in BOOLEAN : Finish(j, outcome, kept)
             \/ RetryJob(j)
             \/ RemoveJob(j)
  BY <1>1, JobStepInv
<1>2. CASE Publish
  BY <1>2, PublishInv
<1>3. CASE ReadCall \/ ReadTimesOut \/ ReadFails \/ Shutdown \/ Stop
  BY <1>3, TaskStepInv
<1>4. CASE Deliver
  BY <1>4, DeliverStepInv
<1>5. CASE \E w \in Waiter :
             \/ \E j \in Awaited : Subscribe(w, j)
             \/ CheckCompleted(w) \/ CheckFailed(w) \/ Receive(w) \/ Lagged(w) \/ TimeOut(w)
  BY <1>5, WaiterStepInv
<1>6. CASE UNCHANGED vars
  BY <1>6, StutterInv
<1> QED BY <1>1, <1>2, <1>3, <1>4, <1>5, <1>6 DEF Next

(* The inductive invariant holds in every behaviour.                        *)
THEOREM SpecInv == Spec => []IInv
  BY InitInv, StepInv, PTL DEF Spec

-----------------------------------------------------------------------------
(* What follows                                                             *)

(* Every variable has its type, and the task of QueueEvents never looks for *)
(* another entry of a reply that it has delivered to the end.               *)
THEOREM EventsTypeCorrect == Spec => []TypeOK
<1>1. IInv => TypeOK
  BY TypedIsTypeOK DEF IInv, StreamInv
<1> QED BY <1>1, SpecInv, PTL

(* Through timeouts, failed reads and lost replies, the task of QueueEvents *)
(* sends every entry of the stream once and in order.                       *)
THEOREM EventsGapless == Spec => []Gapless
<1>1. IInv => Gapless
  BY DEF IInv
<1> QED BY <1>1, SpecInv, PTL

(* The answer of wait_until_finished is an outcome that the job has had,    *)
(* whether it comes from an event or from the server, late or not.          *)
THEOREM EventsAnswerTrue == Spec => []AnswerTrue
<1>1. IInv => AnswerTrue
  BY DEF IInv
<1> QED BY <1>1, SpecInv, PTL
=============================================================================
