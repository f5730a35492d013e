-------------------------- MODULE WorkerLoopProofs --------------------------
(***************************************************************************)
(* What holds of a worker with any number of slots and jobs: no permit is   *)
(* lost, markers are taken only for a free slot, the counter that pause     *)
(* reads covers the channel, and a worker that has stopped is quiet.  And   *)
(* of a worker with one slot where no stalled check runs: its handlers run  *)
(* under their locks.                                                       *)
(***************************************************************************)
EXTENDS WorkerLoop, FiniteSetTheorems, SequenceTheorems, TLAPS

LoopPc == { "bootstrap", "top", "parked", "suspended", "acquire", "pop", "sleep",
            "claim", "limited", "taken", "got", "start", "drain", "stopped" }

TaskPc == { "idle", "spawned", "running", "finish", "finishFetch", "next",
            "count", "send", "full", "unsend", "leave" }

Places   == SUBSET {"waiting", "delayed", "active"}
Outcomes == {{}, {"waiting"}, {"delayed"}}

Server == [ at      : [Job -> Places],
            locks   : SUBSET Job,
            stalled : SUBSET Job,
            marker  : SUBSET {"0", "1"},
            limited : BOOLEAN ]

Loop == [pc : LoopPc, job : Job \union {NoJob}, permit : BOOLEAN]
Task == [pc : TaskPc, job : Job \union {NoJob}, next : Job \union {NoJob}]

(* Without a stalled check a job is in one place, and active if it has a   *)
(* lock.                                                                    *)
AtOne(s) ==
  \A j \in Job :
    /\ s.at[j] \in {{}, {"waiting"}, {"delayed"}, {"active"}}
    /\ j \in s.locks => s.at[j] = {"active"}

ServerOK(s, c) ==
  /\ s \in Server /\ s.stalled \subseteq In(s, "active")
  /\ "stalled_check" \notin c.events => AtOne(s)

(* Where the loop has a job in hand, and a task the next one.               *)
InHand(l) == l.pc \in {"taken", "got", "start"}
HasNext(k) == k.pc \in {"next", "count", "send", "full", "unsend"}

Sending  == {t \in Slot : tasks[t].pc \in {"send", "full"}}
Taken(l) == IF l.pc = "taken" THEN 1 ELSE 0

(* The loop holds a permit where it pops and claims, and nowhere but there  *)
(* and where it has claimed a job.                                          *)
LoopOK(l) ==
  /\ l \in Loop
  /\ InHand(l) => l.job \in Job
  /\ l.pc \in {"pop", "sleep", "claim"} => l.permit
  /\ l.permit => l.pc \in {"pop", "sleep", "claim", "got", "start"}

TaskOK(k) ==
  /\ k \in Task
  /\ k.pc # "idle" => k.job \in Job
  /\ HasNext(k) => k.next \in Job

Typed ==
  /\ setup \in Setups /\ ServerOK(srv, setup) /\ LoopOK(loop)
  /\ tasks \in [Slot -> Task] /\ \A t \in Slot : TaskOK(tasks[t])
  /\ permits \in Nat /\ prefetched \in Nat
  /\ channel \in Seq(Job) /\ Len(channel) <= setup.concurrency
  /\ activeJobs \subseteq Job
  /\ limitUntil \in BOOLEAN /\ paused \in BOOLEAN /\ unseen \in BOOLEAN /\ shutdown \in BOOLEAN
  /\ pauser \in {"idle", "poll", "permits", "returned"}

Sound == Typed /\ SlotsCounted /\ PrefetchCounted /\ StoppedIsQuiet

(* The jobs that a loop l and one task k have, and those in the channel,    *)
(* are different ones; all but a finished one are under their locks, and    *)
(* all but those that are about to be registered are renewed.               *)
UnderLocks(locks, l, k, waiting, renewed) ==
  /\ InHand(l) => /\ l.job \in locks /\ l.job \notin waiting
                  /\ l.permit \/ l.job \in renewed
  /\ waiting \subseteq locks \intersect renewed
  /\ k.pc \in {"spawned", "running"} => k.job \in locks
  /\ k.pc = "running" => k.job \in renewed
  /\ k.pc # "idle" => k.job \notin waiting /\ (InHand(l) => l.job # k.job)
  /\ HasNext(k) => /\ k.next \in locks /\ k.next \notin waiting /\ k.next # k.job
                   /\ k.pc # "next" => k.next \in renewed
                   /\ InHand(l) => l.job # k.next

OneSlotUnderLocks ==
  setup.concurrency = 1 /\ ~shutdown /\ ~Can("stalled_check") =>
    UnderLocks(srv.locks, loop, tasks[1], ToSet(channel), activeJobs)

(* The inductive invariant.                                                 *)
IInv == Sound /\ OneSlotUnderLocks

-----------------------------------------------------------------------------
(* Slots, channels and the scripts.                                         *)

LEMMA SetupType ==
  ASSUME setup \in Setups
  PROVE  /\ setup.concurrency \in Nat \ {0} /\ setup.jobs \subseteq Job
         /\ IsFiniteSet(Slot) /\ Cardinality(Slot) = setup.concurrency
         /\ setup.concurrency = 1 => Slot = {1}
<1>1. setup.concurrency \in Nat \ {0} /\ setup.jobs \subseteq Job
  BY LoopAssumption
<1>2. IsFiniteSet(Slot) /\ Cardinality(Slot) = setup.concurrency
  BY <1>1, FS_Interval, SMTT(30) DEF Slot
<1>3. setup.concurrency = 1 => Slot = {1}
  BY DEF Slot
<1> QED BY <1>1, <1>2, <1>3

(* One member comes or goes.                                                *)
LEMMA Recount ==
  ASSUME NEW S, IsFiniteSet(S), NEW t \in S, NEW A \in SUBSET S, NEW B \in SUBSET S,
         \A u \in S : u # t => (u \in A <=> u \in B)
  PROVE  /\ IsFiniteSet(A) /\ Cardinality(A) \in Nat /\ Cardinality(B) \in Nat
         /\ Cardinality(B) = Cardinality(A) + (IF t \in B THEN 1 ELSE 0)
                                            - (IF t \in A THEN 1 ELSE 0)
<1>1. IsFiniteSet(A) /\ IsFiniteSet(B)
  BY FS_Subset
<1>2. Cardinality(A) \in Nat /\ Cardinality(B) \in Nat
  BY <1>1, FS_CardinalityType
<1>3. CASE t \in A <=> t \in B
  <2>1. A = B
    BY <1>3
  <2> QED BY <1>1, <1>2, <1>3, <2>1
<1>4. CASE t \in A /\ t \notin B
  <2>1. B = A \ {t}
    BY <1>4
  <2>2. Cardinality(B) = Cardinality(A) - 1
    BY <1>1, <1>4, <2>1, FS_RemoveElement
  <2> QED BY <1>1, <1>2, <1>4, <2>2
<1>5. CASE t \notin A /\ t \in B
  <2>1. A = B \ {t}
    BY <1>5
  <2>2. Cardinality(A) = Cardinality(B) - 1
    BY <1>1, <1>5, <2>1, FS_RemoveElement
  <2> QED BY <1>1, <1>2, <1>5, <2>2
<1> QED BY <1>3, <1>4, <1>5

(* One task changes: how many are busy, and how many send.                  *)
LEMMA TaskChanges ==
  ASSUME Typed, NEW t \in Slot, NEW k \in Task, TaskOK(k), tasks' = [tasks EXCEPT ![t] = k],
         setup' = setup
  PROVE  /\ tasks' \in [Slot' -> Task] /\ \A u \in Slot' : TaskOK(tasks'[u])
         /\ tasks'[t] = k /\ \A u \in Slot : u # t => tasks'[u] = tasks[u]
         /\ Cardinality(Busy) \in Nat /\ Cardinality(Busy') \in Nat
         /\ Cardinality(Busy') = Cardinality(Busy) + (IF k.pc # "idle" THEN 1 ELSE 0)
                                                   - (IF tasks[t].pc # "idle" THEN 1 ELSE 0)
         /\ Cardinality(Sending) \in Nat /\ Cardinality(Sending') \in Nat
         /\ Cardinality(Sending') = Cardinality(Sending) + (IF k.pc \in {"send", "full"} THEN 1 ELSE 0)
                                                   - (IF tasks[t].pc \in {"send", "full"} THEN 1 ELSE 0)
<1>1. /\ setup \in Setups /\ tasks \in [Slot -> Task] /\ \A u \in Slot : TaskOK(tasks[u])
      /\ k \in Task /\ Slot' = Slot
  BY DEF Typed, TaskOK, Slot
<1>2. IsFiniteSet(Slot)
  BY <1>1, SetupType
<1>3. /\ tasks' \in [Slot -> Task] /\ tasks'[t] = k
      /\ \A u \in Slot : u # t => tasks'[u] = tasks[u]
  BY <1>1
<1>4. \A u \in Slot : TaskOK(tasks'[u])
  BY <1>1, <1>3
<1>5. /\ Busy \in SUBSET Slot /\ Busy' \in SUBSET Slot
      /\ \A u \in Slot : /\ u \in Busy <=> tasks[u].pc # "idle"
                         /\ u \in Busy' <=> tasks'[u].pc # "idle"
  BY <1>1 DEF Busy
<1>6. /\ Sending \in SUBSET Slot /\ Sending' \in SUBSET Slot
      /\ \A u \in Slot : /\ u \in Sending <=> tasks[u].pc \in {"send", "full"}
                         /\ u \in Sending' <=> tasks'[u].pc \in {"send", "full"}
  BY <1>1 DEF Sending
<1>7. /\ Cardinality(Busy) \in Nat /\ Cardinality(Busy') \in Nat
      /\ Cardinality(Busy') = Cardinality(Busy) + (IF t \in Busy' THEN 1 ELSE 0)
                                                - (IF t \in Busy THEN 1 ELSE 0)
  <2>1. \A u \in Slot : u # t => (u \in Busy <=> u \in Busy')
    BY <1>3, <1>5
  <2> QED BY <1>2, <1>5, <2>1, Recount
<1>8. /\ Cardinality(Sending) \in Nat /\ Cardinality(Sending') \in Nat
      /\ Cardinality(Sending') = Cardinality(Sending) + (IF t \in Sending' THEN 1 ELSE 0)
                                                      - (IF t \in Sending THEN 1 ELSE 0)
  <2>1. \A u \in Slot : u # t => (u \in Sending <=> u \in Sending')
    BY <1>3, <1>6
  <2> QED BY <1>2, <1>6, <2>1, Recount
<1> QED BY <1>1, <1>3, <1>4, <1>5, <1>6, <1>7, <1>8

(* With one slot, the loop holds the permit only while the task is idle.    *)
LEMMA OneSlot ==
  ASSUME Sound, setup.concurrency = 1
  PROVE  /\ Slot = {1} /\ TaskOK(tasks[1])
         /\ loop.permit => tasks[1].pc = "idle" /\ permits = 0
<1>1. /\ setup \in Setups /\ LoopOK(loop) /\ permits \in Nat /\ SlotsCounted
      /\ tasks \in [Slot -> Task] /\ \A t \in Slot : TaskOK(tasks[t])
      /\ channel \in Seq(Job) /\ Len(channel) <= 1
  BY DEF Sound, Typed
<1>2. Slot = {1} /\ IsFiniteSet(Slot)
  BY <1>1, SetupType
<1>3. Busy \in SUBSET Slot
  BY DEF Busy
<1>4. Cardinality(Busy) \in Nat
  BY <1>2, <1>3, FS_Subset, FS_CardinalityType
<1>5. loop.permit => Cardinality(Busy) = 0 /\ permits = 0
  BY <1>1, <1>4 DEF SlotsCounted
<1>6. Cardinality(Busy) = 0 => Busy = {}
  BY <1>2, <1>3, FS_Subset, FS_EmptySet
<1> QED BY <1>1, <1>2, <1>5, <1>6 DEF Busy

LEMMA ChannelSets ==
  ASSUME NEW c \in Seq(Job), NEW j \in Job
  PROVE  /\ ToSet(c) \subseteq Job /\ ToSet(Append(c, j)) = ToSet(c) \union {j}
         /\ Append(c, j) \in Seq(Job) /\ Len(Append(c, j)) = Len(c) + 1 /\ Len(c) \in Nat
         /\ c # <<>> => /\ Head(c) \in ToSet(c) /\ Head(c) \in Job /\ Tail(c) \in Seq(Job)
                        /\ Len(Tail(c)) = Len(c) - 1 /\ Len(c) # 0
                        /\ Len(c) = 1 => ToSet(Tail(c)) = {}
         /\ c = <<>> => ToSet(c) = {}
<1>1. Len(c) \in Nat /\ DOMAIN c = 1..Len(c) /\ \A i \in 1..Len(c) : c[i] \in Job
  OBVIOUS
<1>2. /\ Append(c, j) \in Seq(Job) /\ Len(Append(c, j)) = Len(c) + 1
      /\ DOMAIN Append(c, j) = 1..(Len(c) + 1) /\ Append(c, j)[Len(c) + 1] = j
      /\ \A i \in 1..Len(c) : Append(c, j)[i] = c[i]
  OBVIOUS
<1>3. ToSet(Append(c, j)) = ToSet(c) \union {j}
  <2>1. \A i : i \in 1..(Len(c) + 1) <=> i \in 1..Len(c) \/ i = Len(c) + 1
    BY <1>1
  <2> QED BY <1>1, <1>2, <2>1 DEF ToSet
<1>4. ASSUME c # <<>>
      PROVE  /\ Head(c) \in ToSet(c) /\ Head(c) \in Job /\ Tail(c) \in Seq(Job)
             /\ Len(Tail(c)) = Len(c) - 1 /\ Len(c) # 0
             /\ Len(c) = 1 => ToSet(Tail(c)) = {}
  <2>1. Len(c) # 0 /\ Head(c) = c[1] /\ Tail(c) \in Seq(Job) /\ Len(Tail(c)) = Len(c) - 1
    BY <1>4
  <2>2. 1 \in 1..Len(c)
    BY <1>1, <2>1
  <2>3. ASSUME Len(c) = 1 PROVE ToSet(Tail(c)) = {}
    <3>1. Len(Tail(c)) = 0
      BY <2>1, <2>3
    <3>2. Tail(c) = <<>>
      BY <2>1, <3>1, EmptySeq
    <3> QED BY <3>2 DEF ToSet
  <2> QED BY <1>1, <2>1, <2>2, <2>3 DEF ToSet
<1>5. c = <<>> => ToSet(c) = {}
  BY DEF ToSet
<1> QED BY <1>1, <1>2, <1>3, <1>4, <1>5 DEF ToSet

LEMMA OutcomesAre ==
  {} \in Outcomes /\ {"waiting"} \in Outcomes /\ {"delayed"} \in Outcomes
BY DEF Outcomes

(* A job that is reported loses its lock.                                   *)
LEMMA MovedIs ==
  ASSUME NEW s, NEW c, ServerOK(s, c), NEW j \in s.locks,
         NEW to \in Outcomes
  PROVE  /\ Moved(s, j, to) \in Server /\ ServerOK(Moved(s, j, to), c)
         /\ Moved(s, j, to).locks = s.locks \ {j}
         /\ AtOne(s) => Moved(s, j, to).at[j] = to
<1> DEFINE into == IF "active" \in s.at[j] THEN to ELSE to \ {"waiting"}
           m == s.marker \union (IF "waiting" \in into THEN {"0"} ELSE {})
                         \union (IF "delayed" \in into THEN {"1"} ELSE {})
           a == [s.at EXCEPT ![j] = (s.at[j] \ {"active"}) \union into]
<1>1. /\ s \in Server /\ s.stalled \subseteq In(s, "active") /\ j \in Job
      /\ "stalled_check" \notin c.events => AtOne(s)
  BY DEF ServerOK, Server
<1>2. m \in SUBSET {"0", "1"}
  BY <1>1 DEF Server
<1>3. into \in SUBSET {"waiting", "delayed"}
  BY DEF Outcomes
<1>4. a \in [Job -> Places] /\ a[j] = (s.at[j] \ {"active"}) \union into
      /\ \A k \in Job : k # j => a[k] = s.at[k]
  <2> HIDE DEF into
  <2>1. (s.at[j] \ {"active"}) \union into \in Places
    BY <1>1, <1>3 DEF Server, Places
  <2> QED BY <1>1, <2>1 DEF Server
<1>5. AtOne(s) => a[j] = to
  <2>1. AtOne(s) => s.at[j] = {"active"}
    BY <1>1 DEF AtOne
  <2> QED BY <1>4, <2>1
<1> DEFINE n == [s EXCEPT !.at = a, !.locks = s.locks \ {j}, !.stalled = s.stalled \ {j}, !.marker = m]
<1>6. Moved(s, j, to) = n
  BY <1>1 DEF Moved, Server
<1> HIDE DEF m, a, into
<1>7. n \in Server /\ n.at = a /\ n.locks = s.locks \ {j} /\ n.stalled = s.stalled \ {j}
  BY <1>1, <1>2, <1>4 DEF Server
<1> HIDE DEF n
<1>8. n.stalled \subseteq In(n, "active")
  BY <1>1, <1>4, <1>7 DEF In, Server
<1>9. AtOne(s) => AtOne(n)
  <2> SUFFICES ASSUME AtOne(s), NEW k \in Job
               PROVE  /\ n.at[k] \in {{}, {"waiting"}, {"delayed"}, {"active"}}
                      /\ k \in n.locks => n.at[k] = {"active"}
    BY DEF AtOne
  <2>1. CASE k = j
    BY <1>5, <1>7, <2>1 DEF Outcomes
  <2>2. CASE k # j
    BY <1>4, <1>7, <2>2 DEF AtOne
  <2> QED BY <2>1, <2>2
<1> QED BY <1>1, <1>5, <1>6, <1>7, <1>8, <1>9 DEF ServerOK

(* A claim gives the job a lock.                                            *)
LEMMA ClaimedIs ==
  ASSUME NEW s, NEW c, ServerOK(s, c), NEW j \in In(s, "waiting")
  PROVE  /\ Claimed(s, j) \in Server /\ ServerOK(Claimed(s, j), c)
         /\ Claimed(s, j).locks = s.locks \union {j}
         /\ Claimed(s, j).stalled = s.stalled \union {j}
         /\ Claimed(s, j).at = [s.at EXCEPT ![j] = (s.at[j] \ {"waiting"}) \union {"active"}]
         /\ AtOne(s) => j \notin s.locks /\ s.at[j] = {"waiting"}
<1> DEFINE m == (s.marker \ {"0"}) \union (IF In(s, "waiting") \ {j} = {} THEN {} ELSE {"0"})
           a == [s.at EXCEPT ![j] = (s.at[j] \ {"waiting"}) \union {"active"}]
<1>1. /\ s \in Server /\ s.stalled \subseteq In(s, "active") /\ j \in Job /\ "waiting" \in s.at[j]
      /\ "stalled_check" \notin c.events => AtOne(s)
  BY DEF ServerOK, Server, In
<1>2. m \in SUBSET {"0", "1"}
  BY <1>1 DEF Server
<1>3. a \in [Job -> Places] /\ a[j] = (s.at[j] \ {"waiting"}) \union {"active"}
      /\ \A k \in Job : k # j => a[k] = s.at[k]
  <2>1. (s.at[j] \ {"waiting"}) \union {"active"} \in Places
    BY <1>1 DEF Server, Places
  <2> QED BY <1>1, <2>1 DEF Server
<1>4. AtOne(s) => j \notin s.locks /\ s.at[j] = {"waiting"}
  BY <1>1 DEF AtOne
<1> DEFINE n == [s EXCEPT !.at = a, !.locks = s.locks \union {j}, !.stalled = s.stalled \union {j},
                          !.marker = m]
<1>5. Claimed(s, j) = n
  BY <1>1 DEF Claimed, Server
<1> HIDE DEF m
<1>6. n \in Server /\ n.at = a /\ n.locks = s.locks \union {j} /\ n.stalled = s.stalled \union {j}
  <2> HIDE DEF a
  <2> QED BY <1>1, <1>2, <1>3 DEF Server
<1> HIDE DEF n
<1>7. n.stalled \subseteq In(n, "active")
  <2> HIDE DEF a
  <2> QED BY <1>1, <1>3, <1>6 DEF In, Server
<1>8. AtOne(s) => AtOne(n)
  <2> HIDE DEF a
  <2> SUFFICES ASSUME AtOne(s), NEW k \in Job
               PROVE  /\ n.at[k] \in {{}, {"waiting"}, {"delayed"}, {"active"}}
                      /\ k \in n.locks => n.at[k] = {"active"}
    BY DEF AtOne
  <2>1. CASE k = j
    <3>1. n.at[k] = {"active"}
      BY <1>3, <1>4, <1>6, <2>1
    <3> QED BY <3>1
  <2>2. CASE k # j
    BY <1>3, <1>6, <2>2 DEF AtOne
  <2> QED BY <2>1, <2>2
<1> QED BY <1>1, <1>4, <1>5, <1>6, <1>7, <1>8 DEF ServerOK

(* Jobs that are due wait.                                                  *)
LEMMA WokenIs ==
  ASSUME NEW s, NEW c, ServerOK(s, c), NEW due \in SUBSET In(s, "delayed")
  PROVE  /\ ServerOK(Woken(s, due), c) /\ Woken(s, due).locks = s.locks
         /\ \A j \in Job : s.at[j] = {} => Woken(s, due).at[j] = {}
         /\ AtOne(s) => AtOne(Woken(s, due))
<1>1. CASE due = {}
  BY <1>1 DEF Woken
<1>2. CASE due # {}
  <2> DEFINE a == [j \in Job |-> IF j \in due THEN (s.at[j] \ {"delayed"}) \union {"waiting"}
                                 ELSE s.at[j]]
             m == s.marker \union {"0"}
             n == [s EXCEPT !.at = a, !.marker = m]
  <2>1. /\ s \in Server /\ s.stalled \subseteq In(s, "active")
        /\ "stalled_check" \notin c.events => AtOne(s)
    BY DEF ServerOK
  <2>2. a \in [Job -> Places] /\ m \in SUBSET {"0", "1"}
    <3>1. \A j \in Job : s.at[j] \in Places /\ (s.at[j] \ {"delayed"}) \union {"waiting"} \in Places
      BY <2>1 DEF Server, Places
    <3> QED BY <2>1, <3>1 DEF Server
  <2>3. \A j \in Job : a[j] = IF j \in due THEN (s.at[j] \ {"delayed"}) \union {"waiting"}
                              ELSE s.at[j]
    OBVIOUS
  <2>4. Woken(s, due) = n
    BY <1>2 DEF Woken
  <2> HIDE DEF a, m
  <2>5. n \in Server /\ n.at = a /\ n.locks = s.locks /\ n.stalled = s.stalled
    BY <2>1, <2>2 DEF Server
  <2> HIDE DEF n
  <2>6. \A j \in Job : "active" \in s.at[j] => "active" \in n.at[j]
    BY <2>3, <2>5
  <2>7. n.stalled \subseteq In(n, "active")
    BY <2>1, <2>5, <2>6 DEF In, Server
  <2>8. \A j \in due : j \in Job /\ "delayed" \in s.at[j]
    BY DEF In
  <2>9. AtOne(s) => AtOne(n)
    <3> SUFFICES ASSUME AtOne(s), NEW j \in Job
                 PROVE  /\ n.at[j] \in {{}, {"waiting"}, {"delayed"}, {"active"}}
                        /\ j \in n.locks => n.at[j] = {"active"}
      BY DEF AtOne
    <3>1. CASE j \in due
      <4>1. s.at[j] = {"delayed"} /\ j \notin s.locks
        BY <2>8, <3>1 DEF AtOne
      <4>2. n.at[j] = {"waiting"}
        BY <2>3, <2>5, <3>1, <4>1
      <4> QED BY <2>5, <4>1, <4>2
    <3>2. CASE j \notin due
      BY <2>3, <2>5, <3>2 DEF AtOne
    <3> QED BY <3>1, <3>2
  <2> QED BY <2>1, <2>3, <2>4, <2>5, <2>7, <2>8, <2>9 DEF ServerOK
<1> QED BY <1>1, <1>2

(* What a fetch finds is claimed; where jobs are in one place, it had no    *)
(* lock.                                                                    *)
LEMMA FetchesAre ==
  ASSUME NEW s, NEW c, ServerOK(s, c), NEW r \in Fetches(s)
  PROVE  /\ ServerOK(r.server, c) /\ r.job \in Job \union {NoJob} /\ r.limited \in BOOLEAN
         /\ r.job = NoJob => r.server.locks = s.locks
         /\ r.job # NoJob => /\ r.server.locks = s.locks \union {r.job}
                             /\ s.at[r.job] # {}
                             /\ AtOne(s) => r.job \notin s.locks
<1>1. NoJob \notin Job
  BY LoopAssumption
<1>2. PICK due \in SUBSET In(s, "delayed") :
        LET w == Woken(s, due)
        IN  r \in (IF w.limited THEN {[server |-> w, job |-> NoJob, limited |-> TRUE]}
              ELSE IF In(w, "waiting") = {}
                THEN { [ server  |-> [w EXCEPT !.marker = @ \union (IF In(w, "delayed") = {} THEN {} ELSE {"1"})],
                         job     |-> NoJob,
                         limited |-> FALSE ] }
              ELSE {[server |-> Claimed(w, j), job |-> j, limited |-> FALSE] : j \in In(w, "waiting")})
  BY DEF Fetches
<1> DEFINE w == Woken(s, due)
           x == [w EXCEPT !.marker = w.marker \union (IF In(w, "delayed") = {} THEN {} ELSE {"1"})]
<1>3. /\ ServerOK(w, c) /\ w.locks = s.locks
      /\ AtOne(s) => AtOne(w)
      /\ \A j \in Job : s.at[j] = {} => w.at[j] = {}
  BY WokenIs
<1> HIDE DEF w
<1>4. w \in Server
  BY <1>3 DEF ServerOK
<1>5. CASE w.limited
  <2>1. r = [server |-> w, job |-> NoJob, limited |-> TRUE]
    BY <1>2, <1>5 DEF w
  <2> QED BY <1>3, <2>1
<1>6. CASE ~w.limited /\ In(w, "waiting") = {}
  <2>1. r = [server |-> x, job |-> NoJob, limited |-> FALSE]
    BY <1>2, <1>6 DEF w
  <2>2. x \in Server /\ x.locks = w.locks /\ x.at = w.at /\ x.stalled = w.stalled
    BY <1>4 DEF Server
  <2> HIDE DEF x
  <2>3. ServerOK(x, c)
    BY <1>3, <2>2 DEF ServerOK, AtOne, In
  <2> QED BY <1>3, <2>1, <2>2, <2>3
<1>7. CASE ~w.limited /\ In(w, "waiting") # {}
  <2>1. PICK j \in In(w, "waiting") : r = [server |-> Claimed(w, j), job |-> j, limited |-> FALSE]
    BY <1>2, <1>7 DEF w
  <2>2. j \in Job /\ w.at[j] # {}
    BY DEF In
  <2>3. /\ ServerOK(Claimed(w, j), c) /\ Claimed(w, j).locks = w.locks \union {j}
        /\ AtOne(w) => j \notin w.locks
    BY <1>3, ClaimedIs
  <2> QED BY <1>1, <1>3, <2>1, <2>2, <2>3
<1> QED BY <1>5, <1>6, <1>7

(* The markers and the limiter do not matter, and fewer locks or entries of *)
(* the stalled set are right too.                                           *)
LEMMA OtherwiseOK ==
  ASSUME NEW s, NEW c, ServerOK(s, c), NEW marker \in SUBSET {"0", "1"}, NEW limited \in BOOLEAN,
         NEW locks \in SUBSET s.locks, NEW stalled \in SUBSET s.stalled
  PROVE  /\ ServerOK([s EXCEPT !.marker = marker], c)
         /\ ServerOK([s EXCEPT !.limited = limited], c)
         /\ ServerOK([s EXCEPT !.locks = locks], c)
         /\ ServerOK([s EXCEPT !.stalled = stalled], c)
         /\ [s EXCEPT !.marker = marker].locks = s.locks
         /\ [s EXCEPT !.limited = limited].locks = s.locks
         /\ [s EXCEPT !.locks = locks].locks = locks
         /\ [s EXCEPT !.stalled = stalled].locks = s.locks
<1>1. /\ s \in Server /\ s.stalled \subseteq In(s, "active")
      /\ "stalled_check" \notin c.events => AtOne(s)
  BY DEF ServerOK
<1>2. ASSUME NEW n \in Server, n.at = s.at, n.locks \subseteq s.locks, n.stalled \subseteq s.stalled
      PROVE  ServerOK(n, c)
  BY <1>1, <1>2 DEF ServerOK, AtOne, In
<1> DEFINE a == [s EXCEPT !.marker = marker]
           b == [s EXCEPT !.limited = limited]
           d == [s EXCEPT !.locks = locks]
           e == [s EXCEPT !.stalled = stalled]
<1>3. a \in Server /\ a.at = s.at /\ a.locks = s.locks /\ a.stalled = s.stalled
  BY <1>1 DEF Server
<1>4. b \in Server /\ b.at = s.at /\ b.locks = s.locks /\ b.stalled = s.stalled
  BY <1>1 DEF Server
<1>5. d \in Server /\ d.at = s.at /\ d.locks = locks /\ d.stalled = s.stalled
  BY <1>1 DEF Server
<1>6. e \in Server /\ e.at = s.at /\ e.locks = s.locks /\ e.stalled = stalled
  BY <1>1 DEF Server
<1> HIDE DEF a, b, d, e
<1>7. ServerOK(a, c) /\ ServerOK(b, c) /\ ServerOK(d, c) /\ ServerOK(e, c)
  BY <1>2, <1>3, <1>4, <1>5, <1>6
<1> QED BY <1>3, <1>4, <1>5, <1>6, <1>7 DEF a, b, d, e

-----------------------------------------------------------------------------
(* Types and counters.                                                      *)

LEMMA SumKept ==
  \A p, q, b, x, y, c \in Nat : p + b + x = c /\ q + y = p + x => q + b + y = c
OBVIOUS

(* The loop goes on, with the permit it has, one more or one less.          *)
LEMMA LoopMoves ==
  ASSUME Sound, LoopOK(loop'), UNCHANGED <<setup, tasks, channel, prefetched>>,
         permits' \in Nat, permits' + (IF loop'.permit THEN 1 ELSE 0)
                           = permits + (IF loop.permit THEN 1 ELSE 0),
         "taken" \notin {loop.pc, loop'.pc}, loop'.pc = "stopped" => Busy = {},
         ServerOK(srv', setup), activeJobs' \subseteq Job, limitUntil' \in BOOLEAN,
         unseen' \in BOOLEAN, UNCHANGED <<paused, pauser, shutdown>>
  PROVE  Sound'
<1>1. Typed /\ SlotsCounted /\ PrefetchCounted /\ StoppedIsQuiet
  BY DEF Sound
<1>2. Slot' = Slot /\ Busy' = Busy /\ Sending' = Sending
  BY DEF Slot, Busy, Sending
<1>3. Typed'
  BY <1>1, <1>2 DEF Typed
<1>4. SlotsCounted'
  <2>1. Cardinality(Busy) \in Nat
    BY <1>1, SetupType, FS_Subset, FS_CardinalityType DEF Typed, Busy
  <2> DEFINE held(l) == IF l.permit THEN 1 ELSE 0
             b == Cardinality(Busy)
  <2>2. permits + b + held(loop) = setup.concurrency
    BY <1>1 DEF SlotsCounted
  <2>3. permits' + held(loop') = permits + held(loop)
    OBVIOUS
  <2>4. permits \in Nat /\ permits' \in Nat /\ setup.concurrency \in Nat
    BY <1>1, SetupType DEF Typed
  <2>5. held(loop) \in Nat /\ held(loop') \in Nat /\ b \in Nat
    BY <2>1
  <2> HIDE DEF held, b
  <2>6. permits' + b + held(loop') = setup.concurrency
    BY <2>2, <2>3, <2>4, <2>5, SumKept
  <2> QED BY <1>2, <2>6 DEF SlotsCounted, b, held
<1>5. PrefetchCounted'
  BY <1>1, <1>2 DEF PrefetchCounted, Sending
<1>6. StoppedIsQuiet'
  BY <1>1, <1>2 DEF StoppedIsQuiet
<1> QED BY <1>3, <1>4, <1>5, <1>6 DEF Sound

LEMMA LoopSound ==
  ASSUME Sound, LoopStep, setup' = setup
  PROVE  Sound'
<1>1. /\ setup \in Setups /\ ServerOK(srv, setup) /\ LoopOK(loop) /\ loop \in Loop /\ srv \in Server
      /\ tasks \in [Slot -> Task] /\ \A t \in Slot : TaskOK(tasks[t])
      /\ permits \in Nat /\ prefetched \in Nat
      /\ channel \in Seq(Job) /\ Len(channel) <= setup.concurrency
      /\ activeJobs \subseteq Job
      /\ limitUntil \in BOOLEAN /\ paused \in BOOLEAN /\ unseen \in BOOLEAN /\ shutdown \in BOOLEAN
      /\ pauser \in {"idle", "poll", "permits", "returned"} /\ Typed
      /\ SlotsCounted /\ PrefetchCounted /\ StoppedIsQuiet
  BY DEF Sound, Typed, LoopOK, ServerOK
<1>2. \A pc \in LoopPc \ {"pop", "sleep", "claim", "taken", "got", "start"} :
        LoopOK(At(pc)) /\ ~At(pc).permit /\ At(pc).pc = pc /\ At(pc).pc # "taken"
  BY DEF At, LoopOK, Loop, LoopPc, InHand
<1>3. {"top", "parked", "suspended", "acquire", "limited", "drain", "stopped"}
        \subseteq LoopPc \ {"pop", "sleep", "claim", "taken", "got", "start"}
  BY DEF LoopPc
<1>4. ASSUME NEW marker \in SUBSET {"0", "1"}
      PROVE  ServerOK([srv EXCEPT !.marker = marker], setup)
  BY <1>1, OtherwiseOK
<1>5. srv.marker \in SUBSET {"0", "1"}
  BY <1>1 DEF Server
<1>6. CASE Wake /\ UNCHANGED <<paused, pauser, shutdown>>
  <2>1. ~loop.permit /\ loop.pc # "taken" /\ loop' = At("top")
    BY <1>1, <1>6 DEF Wake, LoopOK, InHand
  <2> QED BY <1>1, <1>2, <1>3, <1>6, <2>1, LoopMoves DEF Wake
<1>7. CASE Bootstrap /\ UNCHANGED handle
  <2>1. /\ ~loop.permit /\ loop.pc # "taken" /\ loop' = At("top")
        /\ srv' = [srv EXCEPT !.marker = srv.marker \union {"0"}]
    BY <1>1, <1>7 DEF Bootstrap, LoopOK, InHand
  <2>2. ServerOK(srv', setup)
    BY <1>4, <1>5, <2>1
  <2> QED BY <1>1, <1>2, <1>3, <1>7, <2>1, <2>2, LoopMoves DEF Bootstrap, handle
<1>8. CASE (TakePrefetched \/ CountOut) /\ UNCHANGED handle
  <2>1. Slot' = Slot /\ Busy' = Busy /\ Sending' = Sending
    BY <1>8 DEF Slot, Busy, Sending, TakePrefetched, CountOut
  <2>2. Cardinality(Sending) \in Nat
    BY <1>1, SetupType, FS_Subset, FS_CardinalityType DEF Sending
  <2>3. /\ prefetched = Len(channel) + Cardinality(Sending) + Taken(loop)
        /\ Len(channel) \in Nat /\ setup.concurrency \in Nat
    BY <1>1, SetupType DEF PrefetchCounted, Sending, Taken
  <2>4. /\ LoopOK(loop') /\ ~loop.permit /\ ~loop'.permit /\ loop'.pc # "stopped"
        /\ channel' \in Seq(Job) /\ Len(channel') <= setup.concurrency /\ prefetched' \in Nat
        /\ prefetched' = Len(channel') + Cardinality(Sending) + Taken(loop')
        /\ UNCHANGED <<srv, tasks, permits, activeJobs, limitUntil>>
    <3>1. CASE TakePrefetched
      <4>1. /\ loop.pc = "top" /\ channel # <<>> /\ loop' = [At("taken") EXCEPT !.job = Head(channel)]
            /\ channel' = Tail(channel)
            /\ UNCHANGED <<srv, tasks, permits, prefetched, activeJobs, limitUntil>>
        BY <3>1 DEF TakePrefetched
      <4>2. /\ Head(channel) \in Job /\ Tail(channel) \in Seq(Job)
            /\ Len(channel) # 0 /\ Len(Tail(channel)) = Len(channel) - 1
        BY <1>1, <4>1
      <4>3. LoopOK(loop') /\ ~loop'.permit /\ loop'.pc = "taken" /\ ~loop.permit
        BY <1>1, <4>1, <4>2 DEF At, LoopOK, Loop, LoopPc, InHand
      <4>4. Taken(loop) = 0 /\ Taken(loop') = 1
        BY <4>1, <4>3 DEF Taken
      <4>5. prefetched' = Len(channel') + Cardinality(Sending) + Taken(loop')
        BY <2>2, <2>3, <4>1, <4>2, <4>4
      <4>6. Len(channel') <= setup.concurrency
        BY <1>1, <2>3, <4>1, <4>2
      <4> QED BY <1>1, <4>1, <4>2, <4>3, <4>5, <4>6
    <3>2. CASE CountOut
      <4>1. /\ loop.pc = "taken" /\ loop' = [loop EXCEPT !.pc = "got"] /\ prefetched' = prefetched - 1
            /\ UNCHANGED <<srv, tasks, permits, channel, activeJobs, limitUntil>>
        BY <3>2 DEF CountOut
      <4>2. LoopOK(loop') /\ loop'.permit = loop.permit /\ loop'.pc = "got" /\ ~loop.permit
        BY <1>1, <4>1 DEF LoopOK, Loop, LoopPc, InHand
      <4>3. Taken(loop) = 1 /\ Taken(loop') = 0
        BY <4>1, <4>2 DEF Taken
      <4>4. /\ prefetched' = Len(channel') + Cardinality(Sending) + Taken(loop')
            /\ prefetched' \in Nat
        BY <2>2, <2>3, <4>1, <4>3
      <4> QED BY <1>1, <4>1, <4>2, <4>4
    <3> QED BY <1>8, <3>1, <3>2
  <2>5. Typed'
    BY <1>1, <1>8, <2>1, <2>4 DEF Typed, handle
  <2>6. SlotsCounted'
    BY <1>1, <2>1, <2>4 DEF SlotsCounted
  <2>7. PrefetchCounted'
    BY <2>1, <2>4 DEF PrefetchCounted, Sending, Taken
  <2> QED BY <2>4, <2>5, <2>6, <2>7 DEF Sound, StoppedIsQuiet
<1>9. CASE FindNothing /\ UNCHANGED handle
  <2>1. PICK pc \in {"parked", "suspended", "acquire"} : loop' = At(pc)
    BY <1>9 DEF FindNothing
  <2>2. ~loop.permit /\ loop.pc # "taken"
    BY <1>1, <1>9 DEF FindNothing, LoopOK, InHand
  <2>3. LoopOK(loop') /\ ~loop'.permit /\ loop'.pc \notin {"taken", "stopped"}
    BY <1>2, <1>3, <2>1
  <2> QED BY <1>1, <1>9, <2>2, <2>3, LoopMoves DEF FindNothing, handle
<1>10. CASE AcquireForFetch /\ UNCHANGED handle
  <2>1. /\ loop.pc = "acquire" /\ permits > 0 /\ permits' = permits - 1
        /\ loop' = [At("pop") EXCEPT !.permit = TRUE] /\ srv' = srv
        /\ UNCHANGED <<tasks, channel, prefetched, activeJobs, limitUntil>>
    BY <1>10 DEF AcquireForFetch
  <2>2. LoopOK(loop') /\ loop'.permit /\ loop'.pc = "pop" /\ ~loop.permit
    BY <1>1, <2>1 DEF At, LoopOK, Loop, LoopPc, InHand
  <2> QED BY <1>1, <1>10, <2>1, <2>2, LoopMoves DEF handle
<1>11. CASE PopMarker /\ UNCHANGED handle
  <2>1. PICK pc \in {"claim", "sleep"}, marker \in SUBSET {"0", "1"} :
          loop' = [loop EXCEPT !.pc = pc] /\ srv' = [srv EXCEPT !.marker = marker]
    <3>1. /\ srv.marker \ {"0"} \in SUBSET {"0", "1"} /\ {} \in SUBSET {"0", "1"}
      BY <1>5
    <3> QED BY <1>11, <3>1 DEF PopMarker
  <2>2. loop.pc = "pop" /\ loop.permit
    BY <1>1, <1>11 DEF PopMarker, LoopOK
  <2>3. LoopOK(loop') /\ loop'.permit = loop.permit /\ {"taken", "stopped"} \intersect {loop.pc, loop'.pc} = {}
    BY <1>1, <2>1, <2>2 DEF LoopOK, Loop, LoopPc, InHand
  <2>4. ServerOK(srv', setup)
    BY <1>4, <2>1
  <2> QED BY <1>1, <1>11, <2>2, <2>3, <2>4, LoopMoves DEF PopMarker, handle
<1>12. CASE EndSleep /\ UNCHANGED handle
  <2>1. LoopOK(loop') /\ loop'.permit = loop.permit /\ {"taken", "stopped"} \intersect {loop.pc, loop'.pc} = {}
    BY <1>1, <1>12 DEF EndSleep, LoopOK, Loop, LoopPc, InHand
  <2> QED BY <1>1, <1>12, <2>1, LoopMoves DEF EndSleep, handle
<1>13. CASE MoveToActive /\ UNCHANGED handle
  <2>1. PICK r \in Fetches(srv) :
          /\ srv' = r.server
          /\ \/ r.job # NoJob /\ loop' = [loop EXCEPT !.pc = "got", !.job = r.job]
                              /\ permits' = permits
             \/ r.job = NoJob /\ Go(IF r.limited THEN "limited" ELSE "top")
    BY <1>13 DEF MoveToActive
  <2>2. ServerOK(srv', setup) /\ r.job \in Job \union {NoJob}
    BY <1>1, <2>1, FetchesAre
  <2>3. loop.pc = "claim" /\ loop.permit
    BY <1>1, <1>13 DEF MoveToActive, LoopOK
  <2>4. CASE r.job # NoJob
    <3>1. loop' = [loop EXCEPT !.pc = "got", !.job = r.job] /\ permits' = permits /\ r.job \in Job
      BY <2>1, <2>2, <2>4
    <3>2. LoopOK(loop') /\ loop'.permit = loop.permit /\ {"taken", "stopped"} \intersect {loop.pc, loop'.pc} = {}
      BY <1>1, <2>3, <3>1 DEF LoopOK, Loop, LoopPc, InHand
    <3> QED BY <1>1, <1>13, <2>2, <3>1, <3>2, LoopMoves DEF MoveToActive, handle
  <2>5. CASE r.job = NoJob
    <3>1. PICK pc \in {"limited", "top"} : loop' = At(pc) /\ permits' = permits + 1
      BY <2>1, <2>3, <2>5 DEF Go
    <3>2. LoopOK(loop') /\ ~loop'.permit /\ loop'.pc \notin {"taken", "stopped"}
      BY <1>2, <1>3, <3>1
    <3> QED BY <1>1, <1>13, <2>2, <2>3, <3>1, <3>2, LoopMoves DEF MoveToActive, handle
  <2> QED BY <2>4, <2>5
<1>14. CASE EndLimit /\ UNCHANGED handle
  <2>1. /\ ~loop.permit /\ loop.pc # "taken" /\ loop' = At("top")
        /\ srv' = [srv EXCEPT !.marker = srv.marker \union {"0"}]
    BY <1>1, <1>14 DEF EndLimit, LoopOK, InHand
  <2>2. ServerOK(srv', setup)
    BY <1>4, <1>5, <2>1
  <2> QED BY <1>1, <1>2, <1>3, <1>14, <2>1, <2>2, LoopMoves DEF EndLimit, handle
<1>15. CASE Unreadable /\ UNCHANGED handle
  <2>1. /\ loop' = At("top") /\ permits' = (IF loop.permit THEN permits + 1 ELSE permits)
        /\ activeJobs' \subseteq Job /\ loop.pc # "taken"
    BY <1>1, <1>15 DEF Unreadable, Go
  <2>2. permits' \in Nat /\ LoopOK(loop') /\ ~loop'.permit /\ loop'.pc \notin {"taken", "stopped"}
    BY <1>1, <1>2, <1>3, <2>1
  <2> QED BY <1>1, <1>15, <2>1, <2>2, LoopMoves DEF Unreadable, handle
<1>16. CASE Readable /\ UNCHANGED handle
  <2>1. LoopOK(loop') /\ loop'.permit = loop.permit /\ {"taken", "stopped"} \intersect {loop.pc, loop'.pc} = {}
    BY <1>1, <1>16 DEF Readable, LoopOK, Loop, LoopPc, InHand
  <2> QED BY <1>1, <1>16, <2>1, LoopMoves DEF Readable, handle
<1>17. CASE AcquireForStart /\ UNCHANGED handle
  <2>1. /\ loop.pc = "start" /\ ~loop.permit /\ permits > 0 /\ permits' = permits - 1
        /\ loop' = [loop EXCEPT !.permit = TRUE] /\ srv' = srv
        /\ UNCHANGED <<tasks, channel, prefetched, activeJobs, limitUntil>>
    BY <1>17 DEF AcquireForStart
  <2>2. LoopOK(loop') /\ loop'.permit /\ loop'.pc \notin {"taken", "stopped"}
    BY <1>1, <2>1 DEF LoopOK, Loop, LoopPc, InHand
  <2> QED BY <1>1, <1>17, <2>1, <2>2, LoopMoves DEF handle
<1>18. CASE Spawn /\ UNCHANGED handle
  <2>1. PICK t \in Slot \ Busy :
          tasks' = [tasks EXCEPT ![t] = [IdleTask EXCEPT !.pc = "spawned", !.job = loop.job]]
    BY <1>18 DEF Spawn
  <2>2. /\ loop.pc = "start" /\ loop.permit /\ loop' = At("top") /\ loop.job \in Job
        /\ UNCHANGED <<srv, permits, channel, prefetched, activeJobs, limitUntil>>
    BY <1>1, <1>18 DEF Spawn, LoopOK, InHand
  <2> DEFINE k == [IdleTask EXCEPT !.pc = "spawned", !.job = loop.job]
  <2>3. tasks' = [tasks EXCEPT ![t] = k] /\ tasks[t].pc = "idle"
    BY <2>1 DEF Busy
  <2>4. k \in Task /\ TaskOK(k) /\ k.pc = "spawned"
    BY <2>2 DEF IdleTask, TaskOK, Task, TaskPc, HasNext
  <2> HIDE DEF k
  <2>5. /\ tasks' \in [Slot' -> Task] /\ \A u \in Slot' : TaskOK(tasks'[u])
        /\ Cardinality(Busy) \in Nat /\ Cardinality(Busy') = Cardinality(Busy) + 1
        /\ Cardinality(Sending) \in Nat /\ Cardinality(Sending') = Cardinality(Sending)
    <3>1. t \in Slot /\ Typed
      BY <1>1
    <3>2. /\ tasks' \in [Slot' -> Task] /\ \A u \in Slot' : TaskOK(tasks'[u])
          /\ Cardinality(Busy) \in Nat
          /\ Cardinality(Busy') = Cardinality(Busy) + (IF k.pc # "idle" THEN 1 ELSE 0)
                                                    - (IF tasks[t].pc # "idle" THEN 1 ELSE 0)
          /\ Cardinality(Sending) \in Nat
          /\ Cardinality(Sending') = Cardinality(Sending) + (IF k.pc \in {"send", "full"} THEN 1 ELSE 0)
                                                    - (IF tasks[t].pc \in {"send", "full"} THEN 1 ELSE 0)
      BY <2>3, <2>4, <3>1, TaskChanges
    <3> QED BY <2>3, <2>4, <3>2
  <2>6. LoopOK(loop') /\ ~loop'.permit /\ loop'.pc \notin {"taken", "stopped"}
    BY <1>2, <1>3, <2>2
  <2>7. Typed'
    BY <1>1, <1>18, <2>2, <2>5, <2>6 DEF Typed, handle
  <2>8. SlotsCounted'
    BY <1>1, <2>2, <2>5, <2>6 DEF SlotsCounted
  <2>9. PrefetchCounted'
    BY <1>1, <2>2, <2>5, <2>6 DEF PrefetchCounted, Sending
  <2> QED BY <2>6, <2>7, <2>8, <2>9 DEF Sound, StoppedIsQuiet
<1>19. CASE Break /\ UNCHANGED handle
  <2>1. /\ loop' = At("drain") /\ permits' = (IF loop.permit THEN permits + 1 ELSE permits)
        /\ loop.pc # "taken"
    BY <1>19 DEF Break, Go
  <2>2. permits' \in Nat /\ LoopOK(loop') /\ ~loop'.permit /\ loop'.pc \notin {"taken", "stopped"}
    BY <1>1, <1>2, <1>3, <2>1
  <2> QED BY <1>1, <1>19, <2>1, <2>2, LoopMoves DEF Break, handle
<1>20. CASE Drain /\ UNCHANGED handle
  <2>1. ~loop.permit /\ loop.pc = "drain" /\ loop' = At("stopped") /\ permits = setup.concurrency
    BY <1>1, <1>20 DEF Drain, LoopOK, InHand
  <2>2. Busy = {}
    <3>1. IsFiniteSet(Busy) /\ Cardinality(Busy) \in Nat
      BY <1>1, SetupType, FS_Subset, FS_CardinalityType DEF Busy
    <3>2. Cardinality(Busy) = 0
      BY <1>1, <2>1, <3>1, SetupType DEF SlotsCounted
    <3> QED BY <3>1, <3>2, FS_EmptySet
  <2> QED BY <1>1, <1>2, <1>3, <1>20, <2>1, <2>2, LoopMoves DEF Drain, handle
<1> QED BY <1>6, <1>7, <1>8, <1>9, <1>10, <1>11, <1>12, <1>13, <1>14, <1>15, <1>16, <1>17,
           <1>18, <1>19, <1>20 DEF LoopStep

(* One when the task is over, when it sends, and when the loop has a permit. *)
Over(k)  == IF k.pc = "idle" THEN 1 ELSE 0
Sends(k) == IF k.pc \in {"send", "full"} THEN 1 ELSE 0
Has(l)   == IF l.permit THEN 1 ELSE 0

LEMMA SlotsMove ==
  \A p, b, h, c, g, b1 \in Nat : p + b + h = c /\ b1 = b - g => (p + g) + b1 + h = c
OBVIOUS

LEMMA SendsMove ==
  \A p, l, s, l1, s1, out, in, x \in Nat : \A p1 \in Int :
    p = l + s + x /\ s1 = s + in - out /\ p1 + l + out = p + l1 + in => p1 = l1 + s1 + x
OBVIOUS

(* A busy task goes on, or ends and gives its permit back.                  *)
LEMMA TaskMoves ==
  ASSUME Sound, NEW t \in Slot, NEW k \in Task, TaskOK(k), tasks[t].pc # "idle",
         tasks' = [tasks EXCEPT ![t] = k], setup' = setup, loop' = loop, UNCHANGED handle,
         permits' = permits + Over(k),
         channel' \in Seq(Job), Len(channel') <= setup.concurrency, prefetched' \in Int,
         prefetched' + Len(channel) + Sends(tasks[t])
         = prefetched + Len(channel') + Sends(k),
         ServerOK(srv', setup), activeJobs' \subseteq Job, limitUntil' \in BOOLEAN
  PROVE  Sound'
<1>1. Typed /\ SlotsCounted /\ PrefetchCounted /\ StoppedIsQuiet
  BY DEF Sound
<1>2. /\ permits \in Nat /\ prefetched \in Nat /\ setup.concurrency \in Nat
      /\ Len(channel) \in Nat /\ Len(channel') \in Nat
  BY <1>1, SetupType DEF Typed
<1>3. /\ tasks' \in [Slot' -> Task] /\ \A u \in Slot' : TaskOK(tasks'[u])
      /\ Cardinality(Busy) \in Nat /\ Cardinality(Busy') \in Nat
      /\ Cardinality(Busy') = Cardinality(Busy) + (IF k.pc # "idle" THEN 1 ELSE 0)
                                                - (IF tasks[t].pc # "idle" THEN 1 ELSE 0)
      /\ Cardinality(Sending) \in Nat /\ Cardinality(Sending') \in Nat
      /\ Cardinality(Sending') = Cardinality(Sending) + (IF k.pc \in {"send", "full"} THEN 1 ELSE 0)
                                                      - (IF tasks[t].pc \in {"send", "full"} THEN 1 ELSE 0)
  BY <1>1, TaskChanges
<1>4. Cardinality(Busy') = Cardinality(Busy) - Over(k)
  BY <1>3 DEF Over
<1>5. Cardinality(Sending') = Cardinality(Sending) + Sends(k) - Sends(tasks[t])
  BY <1>3 DEF Sends
<1>6. /\ permits + Cardinality(Busy) + Has(loop) = setup.concurrency
      /\ prefetched = Len(channel) + Cardinality(Sending) + Taken(loop)
  BY <1>1 DEF SlotsCounted, PrefetchCounted, Sending, Has, Taken
<1>7. /\ Over(k) \in Nat /\ Sends(k) \in Nat /\ Sends(tasks[t]) \in Nat
      /\ Has(loop) \in Nat /\ Taken(loop) \in Nat
  BY DEF Over, Sends, Has, Taken
<1>8. permits' \in Nat /\ permits' + Cardinality(Busy') + Has(loop) = setup.concurrency
  <2>1. PICK p, b, b1, h, g, c \in Nat :
          /\ p = permits /\ b = Cardinality(Busy) /\ b1 = Cardinality(Busy')
          /\ h = Has(loop) /\ g = Over(k) /\ c = setup.concurrency
    BY <1>2, <1>3, <1>7
  <2>2. p + b + h = c /\ b1 = b - g /\ permits' = p + g
    BY <1>4, <1>6, <2>1
  <2>3. p + g \in Nat /\ (p + g) + b1 + h = c
    BY <2>2, SlotsMove
  <2> QED BY <2>1, <2>2, <2>3
<1>9. prefetched' = Len(channel') + Cardinality(Sending') + Taken(loop)
  <2>1. PICK p, l, l1, n, n1, out, in, x \in Nat :
          /\ p = prefetched /\ l = Len(channel) /\ l1 = Len(channel')
          /\ n = Cardinality(Sending) /\ n1 = Cardinality(Sending')
          /\ out = Sends(tasks[t]) /\ in = Sends(k) /\ x = Taken(loop)
    BY <1>2, <1>3, <1>7
  <2>2. PICK p1 \in Int : p1 = prefetched'
    OBVIOUS
  <2>3. p = l + n + x /\ n1 = n + in - out /\ p1 + l + out = p + l1 + in
    BY <1>5, <1>6, <2>1, <2>2
  <2>4. p1 = l1 + n1 + x
    BY <2>3, SendsMove
  <2> QED BY <2>1, <2>2, <2>4
<1>10. permits' \in Nat /\ prefetched' \in Nat
  <2>1. PICK l1, n1, x \in Nat :
          l1 = Len(channel') /\ n1 = Cardinality(Sending') /\ x = Taken(loop)
    BY <1>2, <1>3, <1>7
  <2>2. l1 + n1 + x \in Nat
    OBVIOUS
  <2> QED BY <1>8, <1>9, <2>1, <2>2
<1>11. Typed'
  BY <1>1, <1>3, <1>10 DEF Typed, handle
<1>12. SlotsCounted'
  BY <1>8 DEF SlotsCounted, Has
<1>13. PrefetchCounted'
  BY <1>9 DEF PrefetchCounted, Sending, Taken
<1>14. StoppedIsQuiet'
  BY <1>1 DEF StoppedIsQuiet, Busy
<1> QED BY <1>11, <1>12, <1>13, <1>14 DEF Sound

(* A step that neither ends the task nor sends.                             *)
LEMMA TaskGoesOn ==
  ASSUME Sound, NEW t \in Slot, NEW k \in Task, TaskOK(k),
         tasks[t].pc \notin {"idle", "send", "full"}, k.pc \notin {"idle", "send", "full"},
         tasks' = [tasks EXCEPT ![t] = k], setup' = setup, loop' = loop, UNCHANGED handle,
         UNCHANGED <<permits, channel, prefetched>>,
         ServerOK(srv', setup), activeJobs' \subseteq Job, limitUntil' \in BOOLEAN
  PROVE  Sound'
<1>1. /\ permits \in Nat /\ prefetched \in Nat /\ channel \in Seq(Job) /\ Len(channel) \in Nat
      /\ Len(channel) <= setup.concurrency
  BY DEF Sound, Typed
<1>2. /\ Over(k) = 0 /\ Sends(tasks[t]) = 0 /\ Sends(k) = 0
  BY DEF Over, Sends
<1>3. /\ permits' = permits + Over(k)
      /\ channel' \in Seq(Job) /\ Len(channel') <= setup.concurrency /\ prefetched' \in Int
      /\ prefetched' + Len(channel) + Sends(tasks[t])
         = prefetched + Len(channel') + Sends(k)
  BY <1>1, <1>2
<1> QED BY <1>3, TaskMoves

LEMMA TaskSound ==
  ASSUME Sound, NEW t \in Slot, TaskStep(t), setup' = setup
  PROVE  Sound'
<1> DEFINE k == tasks[t]
<1>1. /\ setup \in Setups /\ ServerOK(srv, setup) /\ srv \in Server /\ tasks \in [Slot -> Task]
      /\ k \in Task /\ TaskOK(k)
      /\ permits \in Nat /\ prefetched \in Nat
      /\ channel \in Seq(Job) /\ Len(channel) <= setup.concurrency /\ Len(channel) \in Nat
      /\ activeJobs \subseteq Job /\ limitUntil \in BOOLEAN
  BY DEF Sound, Typed, ServerOK
<1>2. UNCHANGED handle
  BY DEF TaskStep
<1>3. ASSUME NEW pc \in TaskPc
      PROVE  /\ [k EXCEPT !.pc = pc] \in Task /\ [k EXCEPT !.pc = pc].pc = pc
             /\ [k EXCEPT !.pc = pc].job = k.job /\ [k EXCEPT !.pc = pc].next = k.next
             /\ Goes(t, pc) => tasks' = [tasks EXCEPT ![t] = [k EXCEPT !.pc = pc]]
  BY <1>1 DEF Task, Goes
<1> DEFINE gone == [k EXCEPT !.pc = "leave", !.next = NoJob]
<1>4. /\ gone \in Task /\ gone.pc = "leave" /\ gone.job = k.job
      /\ ToLeave(t) => tasks' = [tasks EXCEPT ![t] = gone]
  BY <1>1 DEF Task, TaskPc, ToLeave
<1>5. k.pc # "idle" => TaskOK(gone)
  <2> HIDE DEF gone, k
  <2> QED BY <1>1, <1>4 DEF TaskOK, HasNext
<1>6. IdleTask \in Task /\ TaskOK(IdleTask) /\ IdleTask.pc = "idle"
  BY DEF IdleTask, Task, TaskPc, TaskOK, HasNext
<1>7. {"running", "finish", "finishFetch", "count", "send", "full", "unsend", "leave", "next"}
        \subseteq TaskPc
  BY DEF TaskPc
<1>8. /\ HasNext(k) => k.next \in Job
      /\ k.pc # "idle" => k.job \in Job
  BY <1>1 DEF TaskOK
<1> HIDE DEF gone
(* The steps that change neither the channel nor the counters.              *)
<1>9. ASSUME ToLeave(t), k.pc \notin {"idle", "send", "full"}, ServerOK(srv', setup), activeJobs' \subseteq Job,
             limitUntil' \in BOOLEAN, UNCHANGED <<loop, permits, channel, prefetched>>
      PROVE  Sound'
  <2>1. /\ gone \in Task /\ TaskOK(gone) /\ gone.pc \notin {"idle", "send", "full"}
        /\ tasks' = [tasks EXCEPT ![t] = gone]
    BY <1>4, <1>5, <1>9
  <2> QED BY <1>2, <1>9, <2>1, TaskGoesOn
<1>10. ASSUME NEW pc \in TaskPc \ {"idle", "send", "full"}, Goes(t, pc), k.pc \notin {"idle", "send", "full"},
              pc \in {"next", "count", "unsend"} => HasNext(k), ServerOK(srv', setup),
              activeJobs' \subseteq Job, UNCHANGED <<limitUntil, loop, permits, channel, prefetched>>
       PROVE  Sound'
  <2> DEFINE n == [k EXCEPT !.pc = pc]
  <2>1. n \in Task /\ n.pc = pc /\ n.job = k.job /\ n.next = k.next /\ tasks' = [tasks EXCEPT ![t] = n]
    BY <1>3, <1>10
  <2> HIDE DEF n
  <2>2. TaskOK(n)
    BY <1>8, <1>10, <2>1 DEF TaskOK, HasNext
  <2> QED BY <1>1, <1>2, <1>10, <2>1, <2>2, TaskGoesOn
<1>11. ASSUME NEW to \in Outcomes, Owned(srv, k.job)
       PROVE  ServerOK(Moved(srv, k.job, to), setup)
  BY <1>1, <1>11, MovedIs DEF Owned
<1> HIDE DEF k
(* The task ends.                                                           *)
<1>12. ASSUME k.pc \notin {"idle", "send", "full"}, tasks' = [tasks EXCEPT ![t] = IdleTask],
              permits' = permits + 1, activeJobs' \subseteq Job,
              UNCHANGED <<srv, loop, channel, prefetched, limitUntil>>
       PROVE  Sound'
  <2>1. /\ Over(IdleTask) = 1 /\ Sends(tasks[t]) = 0
        /\ Sends(IdleTask) = 0
    BY <1>6, <1>12 DEF Over, Sends, k
  <2>2. /\ permits' = permits + Over(IdleTask) /\ prefetched' \in Int
        /\ prefetched' + Len(channel) + Sends(tasks[t])
           = prefetched + Len(channel') + Sends(IdleTask)
    BY <1>1, <1>12, <2>1
  <2>3. tasks[t].pc # "idle" /\ loop' = loop /\ ServerOK(srv', setup) /\ activeJobs' \subseteq Job
        /\ limitUntil' \in BOOLEAN /\ channel' \in Seq(Job) /\ Len(channel') <= setup.concurrency
    BY <1>1, <1>12 DEF k
  <2> QED BY <1>2, <1>6, <1>12, <2>2, <2>3, TaskMoves
<1>13. CASE Register(t)
  BY <1>1, <1>7, <1>8, <1>10, <1>13 DEF Register, k
<1>14. CASE Succeed(t)
  BY <1>1, <1>7, <1>10, <1>14 DEF Succeed, k
<1>15. CASE MoveToFinished(t)
  BY <1>1, <1>9, <1>11, OutcomesAre, <1>15 DEF MoveToFinished, k
<1>16. CASE MoveToFinishedFetch(t)
  <2>1. k.pc = "finishFetch" /\ UNCHANGED <<loop, permits, channel, prefetched, activeJobs, limitUntil>>
    BY <1>16 DEF MoveToFinishedFetch, k
  <2>2. CASE ~Owned(srv, k.job)
    <3>1. ToLeave(t) /\ UNCHANGED srv
      BY <1>16, <2>2 DEF MoveToFinishedFetch, k
    <3> QED BY <1>1, <1>9, <2>1, <3>1
  <2>3. CASE Owned(srv, k.job)
    <3>1. PICK r \in Fetches(Moved(srv, k.job, {})) :
               /\ srv' = r.server
               /\ tasks' = [tasks EXCEPT ![t].pc   = IF r.job = NoJob THEN "leave" ELSE "next",
                                         ![t].next = r.job]
      BY <1>16, <2>3 DEF MoveToFinishedFetch, k
    <3>2. ServerOK(Moved(srv, k.job, {}), setup)
      BY <1>11, OutcomesAre, <2>3
    <3>3. ServerOK(srv', setup) /\ r.job \in Job \union {NoJob}
      BY <3>1, <3>2, FetchesAre
    <3> DEFINE pc == IF r.job = NoJob THEN "leave" ELSE "next"
               n == [k EXCEPT !.pc = pc, !.next = r.job]
    <3>4. n \in Task /\ n.pc = pc /\ n.job = k.job /\ n.next = r.job
      BY <1>1, <1>7, <3>3 DEF Task
    <3>5. tasks' = [tasks EXCEPT ![t] = n]
      BY <1>1, <3>1 DEF k
    <3>6. pc \in {"leave", "next"} /\ (pc = "next" => r.job \in Job)
      BY <3>3
    <3> HIDE DEF n, pc
    <3>7. TaskOK(n)
      BY <1>8, <2>1, <3>4, <3>6 DEF TaskOK, HasNext
    <3>8. n.pc \notin {"idle", "send", "full"} /\ tasks[t].pc \notin {"idle", "send", "full"}
      BY <2>1, <3>4, <3>6 DEF k
    <3> QED BY <1>1, <1>2, <2>1, <3>3, <3>4, <3>5, <3>7, <3>8, TaskGoesOn
  <2> QED BY <2>2, <2>3
<1>17. CASE RegisterNext(t)
  <2>1. /\ k.pc = "next" /\ activeJobs' = activeJobs \union {k.next} /\ Goes(t, "count")
        /\ UNCHANGED <<srv, loop, permits, channel, prefetched, limitUntil>>
    BY <1>17 DEF RegisterNext, k
  <2>2. HasNext(k) /\ k.next \in Job
    BY <1>8, <2>1 DEF HasNext
  <2> QED BY <1>1, <1>7, <1>10, <2>1, <2>2
<1>18. CASE Count(t)
  <2>1. /\ k.pc = "count" /\ prefetched' = prefetched + 1 /\ Goes(t, "send")
        /\ UNCHANGED <<srv, loop, permits, channel, activeJobs, limitUntil>>
    BY <1>18 DEF Count, k
  <2> DEFINE n == [k EXCEPT !.pc = "send"]
  <2>2. n \in Task /\ n.pc = "send" /\ n.job = k.job /\ n.next = k.next /\ tasks' = [tasks EXCEPT ![t] = n]
    BY <1>3, <1>7, <2>1
  <2> HIDE DEF n
  <2>3. TaskOK(n)
    BY <1>8, <2>1, <2>2 DEF TaskOK, HasNext
  <2>4. /\ Over(n) = 0 /\ Sends(tasks[t]) = 0 /\ Sends(n) = 1
    BY <2>1, <2>2 DEF Over, Sends, k
  <2>5. /\ permits' = permits + Over(n) /\ prefetched' \in Int
        /\ prefetched' + Len(channel) + Sends(tasks[t])
           = prefetched + Len(channel') + Sends(n)
    BY <1>1, <2>1, <2>4
  <2>6. tasks[t].pc # "idle" /\ loop' = loop /\ ServerOK(srv', setup) /\ activeJobs' \subseteq Job
        /\ limitUntil' \in BOOLEAN /\ channel' \in Seq(Job) /\ Len(channel') <= setup.concurrency
    BY <1>1, <2>1 DEF k
  <2> QED BY <1>2, <2>2, <2>3, <2>5, <2>6, TaskMoves
<1>19. CASE Send(t)
  <2>1. /\ k.pc = "send" /\ UNCHANGED <<srv, loop, permits, prefetched, activeJobs, limitUntil>>
        /\ IF Len(channel) < setup.concurrency
             THEN channel' = Append(channel, k.next) /\ ToLeave(t)
             ELSE channel' = channel /\ Goes(t, "full")
    BY <1>19 DEF Send, k
  <2>2. setup.concurrency \in Nat
    BY <1>1, SetupType
  <2>3. HasNext(k) /\ k.next \in Job
    BY <1>8, <2>1 DEF HasNext
  <2>4. CASE Len(channel) < setup.concurrency
    <3>1. channel' = Append(channel, k.next) /\ ToLeave(t) /\ prefetched' = prefetched
      BY <2>1, <2>4
    <3>2. /\ channel' \in Seq(Job) /\ Len(channel') = Len(channel) + 1
      BY <1>1, <2>3, <3>1
    <3>3. Len(channel') <= setup.concurrency
      BY <1>1, <2>2, <2>4, <3>2
    <3>4. tasks' = [tasks EXCEPT ![t] = gone] /\ TaskOK(gone) /\ gone \in Task /\ gone.pc = "leave"
      BY <1>4, <1>5, <2>1, <3>1
    <3>5. /\ Over(gone) = 0 /\ Sends(tasks[t]) = 1
          /\ Sends(gone) = 0
      BY <2>1, <3>4 DEF Over, Sends, k
    <3>6. /\ permits' = permits + Over(gone) /\ prefetched' \in Int
          /\ prefetched' + Len(channel) + Sends(tasks[t])
             = prefetched + Len(channel') + Sends(gone)
      BY <1>1, <2>1, <3>1, <3>2, <3>5
    <3>7. tasks[t].pc # "idle" /\ loop' = loop /\ ServerOK(srv', setup) /\ activeJobs' \subseteq Job
          /\ limitUntil' \in BOOLEAN
      BY <1>1, <2>1 DEF k
    <3> QED BY <1>2, <3>2, <3>3, <3>4, <3>6, <3>7, TaskMoves
  <2>5. CASE ~(Len(channel) < setup.concurrency)
    <3>1. prefetched' = prefetched /\ Goes(t, "full") /\ channel' = channel
      BY <2>1, <2>5
    <3> DEFINE n == [k EXCEPT !.pc = "full"]
    <3>2. n \in Task /\ n.pc = "full" /\ n.job = k.job /\ n.next = k.next /\ tasks' = [tasks EXCEPT ![t] = n]
      BY <1>3, <1>7, <3>1
    <3> HIDE DEF n
    <3>3. TaskOK(n)
      BY <1>8, <2>1, <2>3, <3>2 DEF TaskOK, HasNext
    <3>4. /\ Over(n) = 0 /\ Sends(tasks[t]) = 1 /\ Sends(n) = 1
      BY <2>1, <3>2 DEF Over, Sends, k
    <3>5. /\ permits' = permits + Over(n) /\ prefetched' \in Int
          /\ prefetched' + Len(channel) + Sends(tasks[t])
             = prefetched + Len(channel') + Sends(n)
      BY <1>1, <2>1, <3>1, <3>4
    <3>6. tasks[t].pc # "idle" /\ loop' = loop /\ ServerOK(srv', setup) /\ activeJobs' \subseteq Job
          /\ limitUntil' \in BOOLEAN /\ channel' \in Seq(Job) /\ Len(channel') <= setup.concurrency
      BY <1>1, <2>1, <3>1 DEF k
    <3> QED BY <1>2, <3>2, <3>3, <3>5, <3>6, TaskMoves
  <2> QED BY <2>4, <2>5
<1>26. CASE Uncount(t)
  <2>1. /\ k.pc = "full" /\ prefetched' = prefetched - 1 /\ Goes(t, "unsend")
        /\ UNCHANGED <<srv, loop, permits, channel, activeJobs, limitUntil>>
    BY <1>26 DEF Uncount, k
  <2> DEFINE n == [k EXCEPT !.pc = "unsend"]
  <2>2. n \in Task /\ n.pc = "unsend" /\ n.job = k.job /\ n.next = k.next /\ tasks' = [tasks EXCEPT ![t] = n]
    BY <1>3, <1>7, <2>1
  <2> HIDE DEF n
  <2>3. TaskOK(n)
    BY <1>8, <2>1, <2>2 DEF TaskOK, HasNext
  <2>4. /\ Over(n) = 0 /\ Sends(tasks[t]) = 1 /\ Sends(n) = 0
    BY <2>1, <2>2 DEF Over, Sends, k
  <2>5. /\ permits' = permits + Over(n) /\ prefetched' \in Int
        /\ prefetched' + Len(channel) + Sends(tasks[t])
           = prefetched + Len(channel') + Sends(n)
    BY <1>1, <2>1, <2>4
  <2>6. tasks[t].pc # "idle" /\ loop' = loop /\ ServerOK(srv', setup) /\ activeJobs' \subseteq Job
        /\ limitUntil' \in BOOLEAN /\ channel' \in Seq(Job) /\ Len(channel') <= setup.concurrency
    BY <1>1, <2>1 DEF k
  <2> QED BY <1>2, <2>2, <2>3, <2>5, <2>6, TaskMoves
<1>20. CASE Unsend(t)
  BY <1>1, <1>9, <1>20 DEF Unsend, k
<1>21. CASE Fail(t)
  <2>1. /\ k.pc = "running" /\ ToLeave(t)
        /\ UNCHANGED <<loop, permits, channel, prefetched, activeJobs, limitUntil>>
    BY <1>21 DEF Fail, k
  <2>2. ServerOK(srv', setup)
    BY <1>1, <1>11, OutcomesAre, <1>21, <2>1 DEF Fail, k
  <2> QED BY <1>1, <1>9, <2>1, <2>2
<1>22. CASE FailRateLimited(t)
  <2>1. /\ k.pc = "running" /\ ToLeave(t)
        /\ UNCHANGED <<loop, permits, channel, prefetched, activeJobs>>
    BY <1>22 DEF FailRateLimited, k
  <2>2. ServerOK(srv', setup) /\ limitUntil' \in BOOLEAN
    <3>1. srv.limited \in BOOLEAN
      BY <1>1 DEF Server
    <3> QED BY <1>1, <1>11, OutcomesAre, <1>22, <2>1, <3>1 DEF FailRateLimited, k
  <2> QED BY <1>1, <1>9, <2>1, <2>2
<1>23. CASE Cancelled(t)
  BY <1>1, <1>9, <1>23 DEF Cancelled, k
<1>24. CASE Panic(t)
  <2>1. /\ k.pc = "running" /\ tasks' = [tasks EXCEPT ![t] = IdleTask] /\ permits' = permits + 1
        /\ UNCHANGED <<srv, loop, channel, prefetched, activeJobs, limitUntil>>
    BY <1>24 DEF Panic, k
  <2> QED BY <1>1, <1>12, <2>1
<1>25. CASE Leave(t)
  <2>1. /\ k.pc = "leave" /\ tasks' = [tasks EXCEPT ![t] = IdleTask] /\ permits' = permits + 1
        /\ activeJobs' \subseteq Job
        /\ UNCHANGED <<srv, loop, channel, prefetched, limitUntil>>
    BY <1>1, <1>25 DEF Leave, k
  <2> QED BY <1>12, <2>1
<1> QED BY <1>13, <1>14, <1>15, <1>16, <1>17, <1>18, <1>19, <1>20, <1>21, <1>22, <1>23, <1>24,
           <1>25, <1>26 DEF TaskStep

(* The steps that leave the counters alone.                                 *)
LEMMA QuietSound ==
  ASSUME Sound, UNCHANGED <<setup, loop, tasks, permits, channel, prefetched>>,
         ServerOK(srv', setup), activeJobs' \subseteq Job, limitUntil' \in BOOLEAN, paused' \in BOOLEAN,
         unseen' \in BOOLEAN, shutdown' \in BOOLEAN, pauser' \in {"idle", "poll", "permits", "returned"}
  PROVE  Sound'
<1>1. Slot' = Slot /\ Busy' = Busy /\ Sending' = Sending
  BY DEF Slot, Busy, Sending
<1>2. Typed'
  BY <1>1 DEF Sound, Typed
<1>3. SlotsCounted' /\ PrefetchCounted' /\ StoppedIsQuiet'
  BY <1>1 DEF Sound, SlotsCounted, PrefetchCounted, Sending, StoppedIsQuiet
<1> QED BY <1>2, <1>3 DEF Sound

LEMMA HandleSound ==
  ASSUME Sound, HandleStep, setup' = setup
  PROVE  Sound'
<1>1. /\ ServerOK(srv, setup) /\ activeJobs \subseteq Job
      /\ limitUntil \in BOOLEAN /\ paused \in BOOLEAN /\ unseen \in BOOLEAN /\ shutdown \in BOOLEAN
      /\ pauser \in {"idle", "poll", "permits", "returned"}
  BY DEF Sound, Typed
<1>2. UNCHANGED <<srv, local>>
  BY DEF HandleStep
<1>3. /\ paused' \in BOOLEAN /\ unseen' \in BOOLEAN /\ shutdown' \in BOOLEAN
      /\ pauser' \in {"idle", "poll", "permits", "returned"}
  BY <1>1 DEF HandleStep, Pause, PollCounter, PollPermits, Resume, Shutdown
<1> QED BY <1>1, <1>2, <1>3, QuietSound DEF local

(* Where no stalled check runs, only an expiry takes a lock of this worker  *)
(* away: a job with a lock neither arrives nor is claimed by another.       *)
LEMMA ServerMoves ==
  ASSUME Sound, ServerStep
  PROVE  /\ ServerOK(srv', setup)
         /\ ~Can("stalled_check") =>
              \/ srv'.locks = srv.locks
              \/ \E j \in Job : ~Renewed(j) /\ srv'.locks = srv.locks \ {j}
<1>1. /\ setup \in Setups /\ ServerOK(srv, setup) /\ srv \in Server
      /\ srv.stalled \subseteq In(srv, "active") /\ (~Can("stalled_check") => AtOne(srv))
  BY DEF Sound, Typed, ServerOK, Can
<1>2. setup.jobs \subseteq Job /\ srv.locks \subseteq Job /\ srv.stalled \subseteq Job
  BY <1>1, SetupType DEF Server
<1>3. ASSUME NEW j \in setup.jobs, Arrive(j)
      PROVE  ServerOK(srv', setup) /\ srv'.locks = srv.locks
  <2>1. j \in Job /\ j \notin srv.locks /\ srv.at[j] \subseteq {"delayed"}
    BY <1>2, <1>3 DEF Arrive
  <2>2. PICK to \in {{"waiting"}, {"delayed"}}, marker \in SUBSET {"0", "1"} :
          srv' = [srv EXCEPT !.at[j] = to, !.marker = marker]
    <3>1. srv.marker \union {"0"} \in SUBSET {"0", "1"} /\ srv.marker \union {"1"} \in SUBSET {"0", "1"}
      BY <1>1 DEF Server
    <3> QED BY <1>3, <3>1 DEF Arrive
  <2> DEFINE a == [srv.at EXCEPT ![j] = to]
             n == [srv EXCEPT !.at = a, !.marker = marker]
  <2>3. srv' = n
    BY <1>1, <2>2 DEF Server
  <2>4. a \in [Job -> Places] /\ a[j] = to /\ \A k \in Job : k # j => a[k] = srv.at[k]
    <3>1. to \in Places
      BY DEF Places
    <3> QED BY <1>1, <2>1, <3>1 DEF Server
  <2> HIDE DEF a
  <2>5. n \in Server /\ n.at = a /\ n.locks = srv.locks /\ n.stalled = srv.stalled
    BY <1>1, <2>4 DEF Server
  <2> HIDE DEF n
  <2>6. j \notin srv.stalled
    BY <1>1, <2>1 DEF In
  <2>7. n.stalled \subseteq In(n, "active")
    BY <1>1, <2>4, <2>5, <2>6 DEF In
  <2>8. AtOne(srv) => AtOne(n)
    BY <2>1, <2>4, <2>5 DEF AtOne
  <2> QED BY <1>1, <2>3, <2>5, <2>7, <2>8 DEF ServerOK, Can
<1>4. ASSUME NEW j \in setup.jobs, OtherClaims(j)
      PROVE  ServerOK(srv', setup) /\ (AtOne(srv) => srv'.locks = srv.locks)
  <2> DEFINE c == Claimed(srv, j)
             a == [c.at EXCEPT ![j] = srv.at[j] \ {"waiting"}]
             n == [c EXCEPT !.at = a, !.locks = c.locks \ {j}, !.stalled = c.stalled \ {j}]
  <2>1. j \in Job /\ "waiting" \in srv.at[j] /\ j \in In(srv, "waiting")
    BY <1>2, <1>4 DEF OtherClaims, In
  <2>2. /\ c \in Server /\ c.locks = srv.locks \union {j} /\ c.stalled = srv.stalled \union {j}
        /\ c.at = [srv.at EXCEPT ![j] = (srv.at[j] \ {"waiting"}) \union {"active"}]
        /\ AtOne(srv) => j \notin srv.locks /\ srv.at[j] = {"waiting"}
    BY <1>1, <2>1, ClaimedIs
  <2> HIDE DEF c
  <2>3. srv' = n
    BY <1>4, <2>2 DEF OtherClaims, Server, c
  <2>4. /\ a \in [Job -> Places] /\ a[j] = srv.at[j] \ {"waiting"}
        /\ \A k \in Job : k # j => a[k] = srv.at[k]
    <3>1. srv.at[j] \ {"waiting"} \in Places
      BY <1>1, <2>1 DEF Server, Places
    <3> QED BY <1>1, <2>1, <2>2, <3>1 DEF Server
  <2> HIDE DEF a
  <2>5. n \in Server /\ n.at = a /\ n.locks = srv.locks \ {j} /\ n.stalled = srv.stalled \ {j}
    BY <2>2, <2>4 DEF Server
  <2> HIDE DEF n
  <2>6. n.stalled \subseteq In(n, "active")
    BY <1>1, <2>4, <2>5 DEF In
  <2>7. ASSUME AtOne(srv)
        PROVE  AtOne(n) /\ n.locks = srv.locks
    <3>1. n.at[j] = {} /\ j \notin n.locks /\ n.locks = srv.locks
      BY <2>2, <2>4, <2>5, <2>7
    <3>2. \A k \in Job : k # j => /\ n.at[k] \in {{}, {"waiting"}, {"delayed"}, {"active"}}
                                  /\ k \in n.locks => n.at[k] = {"active"}
      BY <2>4, <2>5, <2>7 DEF AtOne
    <3> QED BY <3>1, <3>2 DEF AtOne
  <2> QED BY <1>1, <2>3, <2>5, <2>6, <2>7 DEF ServerOK, Can
<1>5. ASSUME NEW j \in setup.jobs, LockExpires(j)
      PROVE  ServerOK(srv', setup) /\ ~Renewed(j) /\ srv'.locks = srv.locks \ {j}
  <2>1. srv.locks \ {j} \in SUBSET srv.locks /\ {} \in SUBSET srv.stalled
    OBVIOUS
  <2> QED BY <1>1, <1>5, <2>1, OtherwiseOK DEF LockExpires, Server
<1>6. ASSUME NEW j \in setup.jobs, ExtendLock(j)
      PROVE  ServerOK(srv', setup) /\ srv'.locks = srv.locks
  <2>1. srv.stalled \ {j} \in SUBSET srv.stalled
    OBVIOUS
  <2> QED BY <1>1, <1>6, <2>1, OtherwiseOK DEF ExtendLock, Server
<1>7. ASSUME StalledCheck
      PROVE  ServerOK(srv', setup) /\ Can("stalled_check")
  <2> DEFINE stalled == srv.stalled \union (In(srv, "active") \ srv.locks)
  <2>1. PICK back \in SUBSET stalled :
          srv' = [srv EXCEPT
             !.at      = [j \in Job |-> IF j \notin stalled THEN srv.at[j]
                                       ELSE (srv.at[j] \ {"active"})
                                              \union (IF j \in back THEN {"waiting"} ELSE {})],
             !.stalled = {},
             !.marker  = srv.marker \union (IF back = {} THEN {} ELSE {"0"})]
    BY <1>7 DEF StalledCheck
  <2> DEFINE m == srv.marker \union (IF back = {} THEN {} ELSE {"0"})
             a == [j \in Job |-> IF j \notin stalled THEN srv.at[j]
                                 ELSE (srv.at[j] \ {"active"})
                                        \union (IF j \in back THEN {"waiting"} ELSE {})]
             n == [srv EXCEPT !.at = a, !.stalled = {}, !.marker = m]
  <2>2. srv' = n
    BY <2>1
  <2>3. m \in SUBSET {"0", "1"} /\ a \in [Job -> Places]
    <3> HIDE DEF stalled
    <3>1. m \in SUBSET {"0", "1"}
      BY <1>1 DEF Server
    <3>2. \A j \in Job : /\ srv.at[j] \in Places
                         /\ (srv.at[j] \ {"active"})
                              \union (IF j \in back THEN {"waiting"} ELSE {}) \in Places
      BY <1>1 DEF Server, Places
    <3> QED BY <3>1, <3>2
  <2> HIDE DEF m, a
  <2>4. n \in Server /\ n.stalled = {}
    BY <1>1, <2>3 DEF Server
  <2> HIDE DEF n
  <2>5. Can("stalled_check")
    BY <1>7 DEF StalledCheck
  <2> QED BY <2>2, <2>4, <2>5 DEF ServerOK, Can
<1>8. ASSUME OtherPops
      PROVE  ServerOK(srv', setup) /\ srv'.locks = srv.locks
  <2>1. srv.marker \ {"0"} \in SUBSET {"0", "1"}
    BY <1>1 DEF Server
  <2> QED BY <1>1, <1>8, <2>1, OtherwiseOK DEF OtherPops
<1>9. ASSUME NEW full \in BOOLEAN, srv' = [srv EXCEPT !.limited = full]
      PROVE  ServerOK(srv', setup) /\ srv'.locks = srv.locks
  BY <1>1, <1>9, OtherwiseOK
<1> QED BY <1>1, <1>2, <1>3, <1>4, <1>5, <1>6, <1>7, <1>8, <1>9
        DEF ServerStep, FillLimiter, LimiterExpires

LEMMA ServerSound ==
  ASSUME Sound, ServerStep, setup' = setup
  PROVE  Sound'
<1>1. /\ activeJobs \subseteq Job
      /\ limitUntil \in BOOLEAN /\ paused \in BOOLEAN /\ unseen \in BOOLEAN /\ shutdown \in BOOLEAN
      /\ pauser \in {"idle", "poll", "permits", "returned"}
  BY DEF Sound, Typed
<1>2. UNCHANGED <<local, handle>> /\ ServerOK(srv', setup)
  BY ServerMoves DEF ServerStep
<1> QED BY <1>1, <1>2, QuietSound DEF local, handle

LEMMA InitSound == Init => Sound
<1> SUFFICES ASSUME Init
             PROVE  Sound
  OBVIOUS
<1>1. setup \in Setups /\ setup.concurrency \in Nat \ {0}
  BY SetupType DEF Init
<1>2. ServerOK(srv, setup)
  <2>1. [j \in Job |-> {}] \in [Job -> Places]
    BY DEF Places
  <2>2. srv \in Server /\ srv.at = [j \in Job |-> {}] /\ srv.locks = {} /\ srv.stalled = {}
    BY <2>1 DEF Init, Server
  <2> QED BY <2>2 DEF ServerOK, AtOne
<1>3. LoopOK(loop) /\ ~loop.permit /\ loop.pc = "bootstrap"
  BY DEF Init, LoopOK, Loop, LoopPc, InHand
<1>4. IdleTask \in Task /\ TaskOK(IdleTask) /\ IdleTask.pc = "idle"
  BY DEF IdleTask, Task, TaskPc, TaskOK, HasNext
<1>5. tasks \in [Slot -> Task] /\ \A t \in Slot : TaskOK(tasks[t]) /\ tasks[t].pc = "idle"
  BY <1>4 DEF Init
<1>6. Busy = {} /\ Sending = {} /\ Cardinality(Busy) = 0 /\ Cardinality(Sending) = 0
  BY <1>5, FS_EmptySet DEF Busy, Sending
<1>7. channel = <<>> /\ channel \in Seq(Job) /\ Len(channel) = 0 /\ 0 <= setup.concurrency
  BY <1>1 DEF Init
<1>8. Typed
  <2>1. /\ permits \in Nat /\ prefetched \in Nat /\ activeJobs \subseteq Job
        /\ limitUntil \in BOOLEAN /\ paused \in BOOLEAN /\ unseen \in BOOLEAN /\ shutdown \in BOOLEAN
        /\ pauser \in {"idle", "poll", "permits", "returned"}
    BY <1>1 DEF Init
  <2> QED BY <1>1, <1>2, <1>3, <1>5, <1>7, <2>1 DEF Typed
<1>9. SlotsCounted
  BY <1>1, <1>3, <1>6 DEF SlotsCounted, Init
<1>10. PrefetchCounted
  BY <1>6, <1>7 DEF PrefetchCounted, Sending, Init
<1>11. StoppedIsQuiet
  BY <1>3 DEF StoppedIsQuiet
<1> QED BY <1>8, <1>9, <1>10, <1>11 DEF Sound

LEMMA NextSound ==
  ASSUME Sound, [Next]_vars
  PROVE  Sound'
<1>1. CASE LoopStep /\ setup' = setup
  BY <1>1, LoopSound
<1>2. CASE (\E t \in Slot : TaskStep(t)) /\ setup' = setup
  BY <1>2, TaskSound
<1>3. CASE HandleStep /\ setup' = setup
  BY <1>3, HandleSound
<1>4. CASE ServerStep /\ setup' = setup
  BY <1>4, ServerSound
<1>5. CASE SuspensionEnds /\ setup' = setup
  <2>1. /\ ServerOK(srv, setup) /\ activeJobs \subseteq Job
        /\ paused \in BOOLEAN /\ unseen \in BOOLEAN /\ shutdown \in BOOLEAN
        /\ pauser \in {"idle", "poll", "permits", "returned"}
    BY DEF Sound, Typed
  <2> QED BY <1>5, <2>1, QuietSound DEF SuspensionEnds, handle
<1>6. CASE UNCHANGED vars
  <2>1. /\ ServerOK(srv, setup) /\ activeJobs \subseteq Job /\ limitUntil \in BOOLEAN
        /\ paused \in BOOLEAN /\ unseen \in BOOLEAN /\ shutdown \in BOOLEAN
        /\ pauser \in {"idle", "poll", "permits", "returned"}
    BY DEF Sound, Typed
  <2> QED BY <1>6, <2>1, QuietSound DEF vars, local, handle
<1> QED BY <1>1, <1>2, <1>3, <1>4, <1>5, <1>6 DEF Next

LEMMA SpecSound == Spec => []Sound
<1>1. Init => Sound
  BY InitSound
<1>2. Sound /\ [Next]_vars => Sound'
  BY NextSound
<1> QED BY <1>1, <1>2, PTL DEF Spec

(* All slots free: nobody is busy.                                          *)
LEMMA AllFree ==
  ASSUME Sound
  PROVE  /\ IsFiniteSet(Busy) /\ Cardinality(Busy) \in Nat
         /\ Cardinality(Sending) \in Nat /\ Cardinality(Sending) <= setup.concurrency
         /\ permits = setup.concurrency => Busy = {}
<1>1. setup \in Setups /\ permits \in Nat /\ SlotsCounted
  BY DEF Sound, Typed
<1>2. IsFiniteSet(Slot) /\ Cardinality(Slot) = setup.concurrency /\ setup.concurrency \in Nat
  BY <1>1, SetupType
<1>3. Busy \in SUBSET Slot /\ Sending \in SUBSET Slot
  BY DEF Busy, Sending
<1>4. /\ IsFiniteSet(Busy) /\ Cardinality(Busy) \in Nat
      /\ Cardinality(Sending) \in Nat /\ Cardinality(Sending) <= setup.concurrency
  BY <1>2, <1>3, FS_Subset, FS_CardinalityType
<1>5. ASSUME permits = setup.concurrency PROVE Busy = {}
  <2>1. permits + Cardinality(Busy) + Has(loop) = setup.concurrency /\ Has(loop) \in Nat
    BY <1>1 DEF SlotsCounted, Has
  <2>2. Cardinality(Busy) = 0
    BY <1>2, <1>4, <1>5, <2>1
  <2> QED BY <1>4, <2>2, FS_EmptySet
<1> QED BY <1>4, <1>5

-----------------------------------------------------------------------------
(* One slot: jobs under their locks.                                        *)

(* What the one-slot case is about, and that its task is as it should be.   *)
LEMMA OneSlotFacts ==
  ASSUME Sound, setup.concurrency = 1, ~shutdown, ~Can("stalled_check"), OneSlotUnderLocks
  PROVE  /\ UnderLocks(srv.locks, loop, tasks[1], ToSet(channel), activeJobs)
         /\ Slot = {1} /\ tasks \in [Slot -> Task] /\ tasks[1] \in Task /\ TaskOK(tasks[1])
         /\ loop \in Loop /\ LoopOK(loop) /\ NoJob \notin Job
         /\ srv \in Server /\ ServerOK(srv, setup) /\ AtOne(srv)
         /\ channel \in Seq(Job) /\ Len(channel) <= 1 /\ ToSet(channel) \subseteq Job
         /\ loop.permit => tasks[1].pc = "idle"
<1>1. UnderLocks(srv.locks, loop, tasks[1], ToSet(channel), activeJobs)
  BY DEF OneSlotUnderLocks
<1>2. /\ Slot = {1} /\ TaskOK(tasks[1]) /\ (loop.permit => tasks[1].pc = "idle")
  BY OneSlot
<1>3. /\ tasks \in [Slot -> Task] /\ LoopOK(loop) /\ ServerOK(srv, setup)
      /\ channel \in Seq(Job) /\ Len(channel) <= 1
  BY DEF Sound, Typed
<1>4. loop \in Loop /\ srv \in Server /\ AtOne(srv) /\ tasks[1] \in Task /\ NoJob \notin Job
  BY <1>2, <1>3, LoopAssumption DEF LoopOK, ServerOK, Can
<1>5. ToSet(channel) \subseteq Job
  BY <1>3 DEF ToSet
<1> QED BY <1>1, <1>2, <1>3, <1>4, <1>5

LEMMA LoopUnderLocks ==
  ASSUME Sound, LoopStep, setup' = setup, OneSlotUnderLocks
  PROVE  OneSlotUnderLocks'
<1> SUFFICES ASSUME setup.concurrency = 1, ~shutdown', ~Can("stalled_check")
             PROVE  UnderLocks(srv.locks, loop, tasks[1], ToSet(channel), activeJobs)'
  BY DEF OneSlotUnderLocks, Can
<1>1. ~shutdown
  BY DEF LoopStep, handle
<1>2. /\ UnderLocks(srv.locks, loop, tasks[1], ToSet(channel), activeJobs)
      /\ Slot = {1} /\ tasks \in [Slot -> Task] /\ tasks[1] \in Task /\ TaskOK(tasks[1])
      /\ loop \in Loop /\ LoopOK(loop) /\ NoJob \notin Job
      /\ srv \in Server /\ ServerOK(srv, setup) /\ AtOne(srv)
      /\ channel \in Seq(Job) /\ Len(channel) <= 1 /\ ToSet(channel) \subseteq Job
      /\ loop.permit => tasks[1].pc = "idle"
  BY <1>1, OneSlotFacts
(* The loop ends up without a job.                                          *)
<1>3. ASSUME ~InHand(loop'), srv'.locks = srv.locks, UNCHANGED <<tasks, channel>>,
             \/ activeJobs' = activeJobs
             \/ InHand(loop) /\ activeJobs' = activeJobs \ {loop.job}
      PROVE  UnderLocks(srv.locks, loop, tasks[1], ToSet(channel), activeJobs)'
  BY <1>2, <1>3 DEF UnderLocks, InHand, HasNext
<1>4. \A pc \in {"top", "parked", "suspended", "acquire", "limited", "drain", "stopped"} :
        ~InHand(At(pc))
  BY DEF At, InHand
<1>5. \A marker \in SUBSET {"0", "1"} : [srv EXCEPT !.marker = marker].locks = srv.locks
  BY <1>2 DEF Server
<1>6. srv.marker \in SUBSET {"0", "1"}
  BY <1>2 DEF Server
<1>7. ASSUME NEW marker \in SUBSET {"0", "1"}, srv' = [srv EXCEPT !.marker = marker], ~InHand(loop'),
             UNCHANGED <<tasks, channel, activeJobs>>
      PROVE  UnderLocks(srv.locks, loop, tasks[1], ToSet(channel), activeJobs)'
  BY <1>3, <1>5, <1>7
<1>8. CASE Wake
  BY <1>3, <1>4, <1>8 DEF Wake
<1>9. CASE Bootstrap
  BY <1>4, <1>6, <1>7, <1>9 DEF Bootstrap
<1>10. CASE TakePrefetched
  <2>1. /\ loop.pc = "top" /\ channel # <<>> /\ loop' = [At("taken") EXCEPT !.job = Head(channel)]
        /\ channel' = Tail(channel) /\ UNCHANGED <<srv, tasks, activeJobs>>
    BY <1>10 DEF TakePrefetched
  <2>2. loop'.pc = "taken" /\ loop'.job = Head(channel) /\ ~loop'.permit
    BY <2>1 DEF At
  <2>3. Len(channel) \in Nat /\ Len(channel) # 0 /\ Head(channel) \in ToSet(channel)
    <3>1. \A j \in Job : Len(channel) \in Nat /\ Len(channel) # 0 /\ Head(channel) \in ToSet(channel)
      BY <1>2, <2>1, ChannelSets
    <3>2. Head(channel) \in Job
      BY <1>2, <2>1
    <3> QED BY <3>1, <3>2
  <2>4. Len(channel) = 1
    BY <1>2, <2>3
  <2>5. ToSet(channel') = {}
    BY <1>2, <2>1, <2>3, <2>4, ChannelSets
  <2> QED BY <1>2, <2>1, <2>2, <2>3, <2>5 DEF UnderLocks, InHand, HasNext
<1>11. CASE FindNothing
  BY <1>3, <1>4, <1>11 DEF FindNothing
<1>12. CASE AcquireForFetch
  <2>1. loop' = [At("pop") EXCEPT !.permit = TRUE]
    BY <1>12 DEF AcquireForFetch
  <2>2. ~InHand(loop')
    BY <2>1 DEF At, InHand
  <2> QED BY <1>3, <1>12, <2>2 DEF AcquireForFetch
<1>13. CASE PopMarker
  <2>1. PICK pc \in {"claim", "sleep"}, marker \in SUBSET {"0", "1"} :
          loop' = [loop EXCEPT !.pc = pc] /\ srv' = [srv EXCEPT !.marker = marker]
    <3>1. /\ srv.marker \ {"0"} \in SUBSET {"0", "1"} /\ {} \in SUBSET {"0", "1"}
      BY <1>6
    <3> QED BY <1>13, <3>1 DEF PopMarker
  <2>2. ~InHand(loop')
    BY <1>2, <2>1 DEF Loop, InHand
  <2> QED BY <1>7, <1>13, <2>1, <2>2 DEF PopMarker
<1>14. CASE EndSleep
  <2>1. ~InHand(loop')
    BY <1>2, <1>14 DEF EndSleep, Loop, InHand
  <2> QED BY <1>3, <1>14, <2>1 DEF EndSleep
<1>15. CASE MoveToActive
  <2>1. PICK r \in Fetches(srv) :
          /\ srv' = r.server
          /\ \/ r.job # NoJob /\ loop' = [loop EXCEPT !.pc = "got", !.job = r.job]
             \/ r.job = NoJob /\ loop' = At(IF r.limited THEN "limited" ELSE "top")
    BY <1>15 DEF MoveToActive, Go
  <2>2. loop.permit /\ loop.pc = "claim" /\ UNCHANGED <<tasks, channel, activeJobs>>
    BY <1>2, <1>15 DEF MoveToActive, LoopOK
  <2>3. /\ r.job = NoJob => srv'.locks = srv.locks
        /\ r.job # NoJob => srv'.locks = srv.locks \union {r.job} /\ r.job \notin srv.locks
    BY <1>2, <2>1, FetchesAre
  <2>4. CASE r.job = NoJob
    <3>1. ~InHand(loop')
      BY <1>4, <2>1, <2>4
    <3> QED BY <1>3, <2>2, <2>3, <2>4, <3>1
  <2>5. CASE r.job # NoJob
    <3>1. loop'.pc = "got" /\ loop'.job = r.job /\ loop'.permit
      BY <1>2, <2>1, <2>2, <2>5 DEF Loop
    <3> QED BY <1>2, <2>2, <2>3, <2>5, <3>1 DEF UnderLocks, HasNext, InHand
  <2> QED BY <2>4, <2>5
<1>16. CASE EndLimit
  BY <1>4, <1>6, <1>7, <1>16 DEF EndLimit
<1>17. CASE Unreadable
  BY <1>3, <1>4, <1>17 DEF Unreadable, Go, InHand
<1>18. CASE CountOut \/ Readable \/ AcquireForStart
  <2>1. /\ InHand(loop) /\ InHand(loop') /\ loop'.job = loop.job
        /\ loop.permit => loop'.permit
        /\ UNCHANGED <<srv, tasks, channel, activeJobs>>
    BY <1>2, <1>18 DEF CountOut, Readable, AcquireForStart, Loop, InHand
  <2> QED BY <1>2, <2>1 DEF UnderLocks
<1>19. CASE Spawn
  <2>1. PICK t \in Slot :
          tasks' = [tasks EXCEPT ![t] = [IdleTask EXCEPT !.pc = "spawned", !.job = loop.job]]
    BY <1>19 DEF Spawn
  <2>2. tasks'[1].pc = "spawned" /\ tasks'[1].job = loop.job /\ InHand(loop) /\ ~InHand(loop')
    BY <1>2, <1>4, <1>19, <2>1 DEF Spawn, IdleTask, InHand
  <2>3. UNCHANGED <<srv, channel, activeJobs>>
    BY <1>19 DEF Spawn
  <2> QED BY <1>2, <2>2, <2>3 DEF UnderLocks, HasNext
<1>20. CASE Break
  BY <1>3, <1>4, <1>20 DEF Break, Go
<1>21. CASE Drain
  BY <1>3, <1>4, <1>21 DEF Drain
<1> QED BY <1>8, <1>9, <1>10, <1>11, <1>12, <1>13, <1>14, <1>15, <1>16, <1>17, <1>18, <1>19,
           <1>20, <1>21 DEF LoopStep

LEMMA TaskUnderLocks ==
  ASSUME Sound, NEW t \in Slot, TaskStep(t), setup' = setup, OneSlotUnderLocks
  PROVE  OneSlotUnderLocks'
<1> SUFFICES ASSUME setup.concurrency = 1, ~shutdown', ~Can("stalled_check")
             PROVE  UnderLocks(srv.locks, loop, tasks[1], ToSet(channel), activeJobs)'
  BY DEF OneSlotUnderLocks, Can
<1>1. ~shutdown
  BY DEF TaskStep, handle
<1> DEFINE k == tasks[1]
<1>2. /\ UnderLocks(srv.locks, loop, k, ToSet(channel), activeJobs)
      /\ Slot = {1} /\ t = 1 /\ tasks \in [Slot -> Task] /\ k \in Task /\ TaskOK(k)
      /\ loop \in Loop /\ srv \in Server /\ ServerOK(srv, setup) /\ AtOne(srv) /\ NoJob \notin Job
      /\ channel \in Seq(Job) /\ ToSet(channel) \subseteq Job
  BY <1>1, OneSlotFacts
<1>3. k.pc # "idle" => k.job \in Job
  BY <1>2 DEF TaskOK
<1>4. \A pc \in TaskPc :
        Goes(t, pc) => tasks'[1].pc = pc /\ tasks'[1].job = k.job /\ tasks'[1].next = k.next
  BY <1>2 DEF Goes, Task
<1>5. ToLeave(t) => tasks'[1].pc = "leave" /\ tasks'[1].job = k.job
  BY <1>2 DEF ToLeave, Task
<1>6. IdleTask.pc = "idle"
  BY DEF IdleTask
<1>7. {"running", "finish", "finishFetch", "count", "send", "full", "unsend"} \subseteq TaskPc
  BY DEF TaskPc
(* The job has left the worker's hands, or the task has ended.              *)
<1>8. ASSUME k.pc # "idle", tasks'[1].pc = "leave", tasks'[1].job = k.job, UNCHANGED <<loop, channel>>,
             srv'.locks = srv.locks \/ srv'.locks = srv.locks \ {k.job},
             \/ activeJobs' = activeJobs
             \/ HasNext(k) /\ activeJobs' = activeJobs \ {k.next}
      PROVE  UnderLocks(srv.locks, loop, tasks[1], ToSet(channel), activeJobs)'
  BY <1>2, <1>8 DEF UnderLocks, HasNext
<1>9. ASSUME k.pc # "idle", tasks'[1].pc = "idle", UNCHANGED <<srv, loop, channel>>,
             activeJobs' = activeJobs \/ activeJobs' = activeJobs \ {k.job}
      PROVE  UnderLocks(srv.locks, loop, tasks[1], ToSet(channel), activeJobs)'
  BY <1>2, <1>9 DEF UnderLocks, HasNext
<1>10. ASSUME NEW to \in Outcomes, Owned(srv, k.job)
       PROVE  /\ ServerOK(Moved(srv, k.job, to), setup)
              /\ Moved(srv, k.job, to).locks = srv.locks \ {k.job}
              /\ Moved(srv, k.job, to).at[k.job] = to
  <2>1. k.job \in srv.locks
    BY <1>10 DEF Owned
  <2>2. ServerOK(srv, setup) /\ AtOne(srv)
    BY <1>2
  <2>3. ServerOK(Moved(srv, k.job, to), setup)
    BY <2>1, <2>2, MovedIs
  <2>4. Moved(srv, k.job, to).locks = srv.locks \ {k.job}
    BY <2>1, <2>2, <2>3, MovedIs
  <2>5. Moved(srv, k.job, to).at[k.job] = to
    BY <2>1, <2>2, <2>3, MovedIs
  <2> QED BY <2>3, <2>4, <2>5
<1> HIDE DEF k
<1>11. CASE Register(t)
  <2>1. /\ k.pc = "spawned" /\ activeJobs' = activeJobs \union {k.job} /\ Goes(t, "running")
        /\ UNCHANGED <<srv, loop, channel>>
    BY <1>2, <1>11 DEF Register, k
  <2>2. tasks'[1].pc = "running" /\ tasks'[1].job = k.job
    BY <1>4, <1>7, <2>1
  <2> QED BY <1>2, <2>1, <2>2 DEF UnderLocks, HasNext
<1>12. CASE Succeed(t)
  <2>1. PICK pc \in {"finish", "finishFetch"} : Goes(t, pc)
    BY <1>12 DEF Succeed
  <2>2. k.pc = "running" /\ UNCHANGED <<srv, loop, channel, activeJobs>>
    BY <1>2, <1>12 DEF Succeed, k
  <2>3. tasks'[1].pc = pc /\ tasks'[1].job = k.job
    BY <1>4, <1>7, <2>1
  <2> QED BY <1>2, <2>1, <2>2, <2>3 DEF UnderLocks, HasNext
<1>13. CASE MoveToFinished(t)
  <2>1. k.pc = "finish" /\ ToLeave(t) /\ UNCHANGED <<loop, channel, activeJobs>>
    BY <1>2, <1>13 DEF MoveToFinished, k
  <2>2. srv' = srv \/ (Owned(srv, k.job) /\ srv' = Moved(srv, k.job, {}))
    BY <1>2, <1>13 DEF MoveToFinished, k
  <2>3. srv'.locks = srv.locks \/ srv'.locks = srv.locks \ {k.job}
    BY <1>10, OutcomesAre, <2>1, <2>2
  <2> QED BY <1>5, <1>8, <2>1, <2>3
<1>14. CASE MoveToFinishedFetch(t)
  <2>1. k.pc = "finishFetch" /\ UNCHANGED <<loop, channel, activeJobs>>
    BY <1>2, <1>14 DEF MoveToFinishedFetch, k
  <2>2. CASE ~Owned(srv, k.job)
    <3>1. ToLeave(t) /\ UNCHANGED srv
      BY <1>2, <1>14, <2>2 DEF MoveToFinishedFetch, k
    <3> QED BY <1>5, <1>8, <2>1, <3>1
  <2>3. CASE Owned(srv, k.job)
    <3> DEFINE m == Moved(srv, k.job, {})
    <3>1. PICK r \in Fetches(m) :
               /\ srv' = r.server
               /\ tasks' = [tasks EXCEPT ![t].pc   = IF r.job = NoJob THEN "leave" ELSE "next",
                                         ![t].next = r.job]
      BY <1>2, <1>14, <2>3 DEF MoveToFinishedFetch, k
    <3>2. ServerOK(m, setup) /\ AtOne(m) /\ m.locks = srv.locks \ {k.job} /\ m.at[k.job] = {}
      <4>1. ServerOK(m, setup) /\ m.locks = srv.locks \ {k.job} /\ m.at[k.job] = {}
        BY <1>10, OutcomesAre, <2>3
      <4> HIDE DEF m
      <4> QED BY <4>1 DEF ServerOK, Can
    <3>3. /\ tasks'[1].pc = (IF r.job = NoJob THEN "leave" ELSE "next")
          /\ tasks'[1].next = r.job /\ tasks'[1].job = k.job
      BY <1>2, <3>1 DEF Task, k
    <3> HIDE DEF m
    <3>4. /\ r.job = NoJob => srv'.locks = srv.locks \ {k.job}
          /\ r.job # NoJob => /\ srv'.locks = (srv.locks \ {k.job}) \union {r.job}
                              /\ r.job \notin srv.locks \ {k.job} /\ r.job # k.job
      BY <3>1, <3>2, FetchesAre
    <3>5. CASE r.job = NoJob
      BY <1>8, <2>1, <3>3, <3>4, <3>5
    <3>6. CASE r.job # NoJob
      BY <1>2, <2>1, <3>3, <3>4, <3>6 DEF UnderLocks, HasNext
    <3> QED BY <3>5, <3>6
  <2> QED BY <2>2, <2>3
<1>15. CASE RegisterNext(t)
  <2>1. /\ k.pc = "next" /\ activeJobs' = activeJobs \union {k.next} /\ Goes(t, "count")
        /\ UNCHANGED <<srv, loop, channel>>
    BY <1>2, <1>15 DEF RegisterNext, k
  <2>2. tasks'[1].pc = "count" /\ tasks'[1].job = k.job /\ tasks'[1].next = k.next
    BY <1>4, <1>7, <2>1
  <2> QED BY <1>2, <2>1, <2>2 DEF UnderLocks, HasNext
<1>16. CASE Count(t)
  <2>1. k.pc = "count" /\ Goes(t, "send") /\ UNCHANGED <<srv, loop, channel, activeJobs>>
    BY <1>2, <1>16 DEF Count, k
  <2>2. tasks'[1].pc = "send" /\ tasks'[1].job = k.job /\ tasks'[1].next = k.next
    BY <1>4, <1>7, <2>1
  <2> QED BY <1>2, <2>1, <2>2 DEF UnderLocks, HasNext
<1>17. CASE Send(t)
  <2>1. k.pc = "send" /\ UNCHANGED <<srv, loop, activeJobs>>
    BY <1>2, <1>17 DEF Send, k
  <2>2. CASE channel' = Append(channel, k.next) /\ ToLeave(t)
    <3>1. k.next \in Job
      BY <1>2, <2>1 DEF TaskOK, HasNext
    <3>2. ToSet(channel') = ToSet(channel) \union {k.next}
      BY <1>2, <2>2, <3>1, ChannelSets
    <3>3. tasks'[1].pc = "leave" /\ tasks'[1].job = k.job
      BY <1>5, <2>2
    <3> QED BY <1>2, <2>1, <3>2, <3>3 DEF UnderLocks, HasNext
  <2>3. CASE channel' = channel /\ Goes(t, "full")
    <3>1. tasks'[1].pc = "full" /\ tasks'[1].job = k.job /\ tasks'[1].next = k.next
      BY <1>4, <1>7, <2>3
    <3> QED BY <1>2, <2>1, <2>3, <3>1 DEF UnderLocks, HasNext
  <2> QED BY <1>2, <1>17, <2>2, <2>3 DEF Send, k
<1>23. CASE Uncount(t)
  <2>1. k.pc = "full" /\ Goes(t, "unsend") /\ UNCHANGED <<srv, loop, channel, activeJobs>>
    BY <1>2, <1>23 DEF Uncount, k
  <2>2. tasks'[1].pc = "unsend" /\ tasks'[1].job = k.job /\ tasks'[1].next = k.next
    BY <1>4, <1>7, <2>1
  <2> QED BY <1>2, <2>1, <2>2 DEF UnderLocks, HasNext
<1>18. CASE Unsend(t)
  <2>1. /\ k.pc = "unsend" /\ activeJobs' = activeJobs \ {k.next} /\ ToLeave(t) /\ HasNext(k)
        /\ UNCHANGED <<srv, loop, channel>>
    BY <1>2, <1>18 DEF Unsend, HasNext, k
  <2> QED BY <1>5, <1>8, <2>1
<1>19. CASE Fail(t)
  <2>1. k.pc = "running" /\ ToLeave(t) /\ UNCHANGED <<loop, channel, activeJobs>>
    BY <1>2, <1>19 DEF Fail, k
  <2>2. \/ srv' = srv
        \/ Owned(srv, k.job) /\ \E to \in {{"delayed"}, {}} : srv' = Moved(srv, k.job, to)
    BY <1>2, <1>19 DEF Fail, k
  <2>3. srv'.locks = srv.locks \/ srv'.locks = srv.locks \ {k.job}
    BY <1>10, OutcomesAre, <2>1, <2>2
  <2> QED BY <1>5, <1>8, <2>1, <2>3
<1>20. CASE FailRateLimited(t)
  <2>1. k.pc = "running" /\ ToLeave(t) /\ UNCHANGED <<loop, channel, activeJobs>>
    BY <1>2, <1>20 DEF FailRateLimited, k
  <2>2. srv' = srv \/ (Owned(srv, k.job) /\ srv' = Moved(srv, k.job, {"waiting"}))
    BY <1>2, <1>20 DEF FailRateLimited, k
  <2>3. srv'.locks = srv.locks \/ srv'.locks = srv.locks \ {k.job}
    BY <1>10, OutcomesAre, <2>1, <2>2
  <2> QED BY <1>5, <1>8, <2>1, <2>3
<1>21. CASE Cancelled(t)
  <2>1. k.pc = "running" /\ ToLeave(t) /\ UNCHANGED <<srv, loop, channel, activeJobs>>
    BY <1>2, <1>21 DEF Cancelled, k
  <2> QED BY <1>5, <1>8, <2>1
<1>22. CASE Panic(t) \/ Leave(t)
  <2>1. /\ k.pc # "idle" /\ tasks' = [tasks EXCEPT ![1] = IdleTask]
        /\ activeJobs' = activeJobs \/ activeJobs' = activeJobs \ {k.job}
        /\ UNCHANGED <<srv, loop, channel>>
    BY <1>2, <1>22 DEF Panic, Leave, k
  <2>2. tasks'[1].pc = "idle"
    BY <1>2, <1>6, <2>1
  <2> QED BY <1>9, <2>1, <2>2
<1> QED BY <1>11, <1>12, <1>13, <1>14, <1>15, <1>16, <1>17, <1>18, <1>19, <1>20, <1>21, <1>22,
           <1>23 DEF TaskStep

LEMMA ServerUnderLocks ==
  ASSUME Sound, ServerStep, setup' = setup, OneSlotUnderLocks
  PROVE  OneSlotUnderLocks'
<1> SUFFICES ASSUME setup.concurrency = 1, ~shutdown', ~Can("stalled_check")
             PROVE  UnderLocks(srv.locks, loop, tasks[1], ToSet(channel), activeJobs)'
  BY DEF OneSlotUnderLocks, Can
<1>1. ~shutdown /\ UNCHANGED <<loop, tasks, channel, activeJobs>>
  BY DEF ServerStep, local, handle
<1>2. /\ UnderLocks(srv.locks, loop, tasks[1], ToSet(channel), activeJobs) /\ Slot = {1}
      /\ tasks[1] \in Task
  BY <1>1, OneSlotFacts
<1>3. CASE srv'.locks = srv.locks
  BY <1>1, <1>2, <1>3
<1>4. ASSUME NEW j \in Job, ~Renewed(j), srv'.locks = srv.locks \ {j}
      PROVE  UnderLocks(srv.locks, loop, tasks[1], ToSet(channel), activeJobs)'
  <2>1. /\ j \notin activeJobs /\ ~(loop.job = j /\ loop.permit)
        /\ ~(tasks[1].pc = "spawned" /\ tasks[1].job = j)
        /\ ~(tasks[1].pc = "next" /\ tasks[1].next = j)
    BY <1>1, <1>2, <1>4 DEF Renewed
  <2> QED BY <1>1, <1>2, <1>4, <2>1 DEF UnderLocks, HasNext
<1> QED BY <1>3, <1>4, ServerMoves

LEMMA IInvInductive ==
  ASSUME IInv, [Next]_vars
  PROVE  IInv'
<1>1. Sound /\ OneSlotUnderLocks
  BY DEF IInv
<1>2. Sound'
  BY <1>1, NextSound
<1> SUFFICES OneSlotUnderLocks'
  BY <1>2 DEF IInv
<1>3. ASSUME UNCHANGED <<setup, srv, loop, tasks, channel, activeJobs>>, ~shutdown' => ~shutdown
      PROVE  OneSlotUnderLocks'
  BY <1>1, <1>3 DEF OneSlotUnderLocks, Can
<1>4. CASE LoopStep /\ setup' = setup
  BY <1>1, <1>4, LoopUnderLocks
<1>5. CASE (\E t \in Slot : TaskStep(t)) /\ setup' = setup
  BY <1>1, <1>5, TaskUnderLocks
<1>6. CASE HandleStep /\ setup' = setup
  <2>1. ~shutdown' => ~shutdown
    BY <1>6 DEF HandleStep, Pause, PollCounter, PollPermits, Resume, Shutdown
  <2> QED BY <1>3, <1>6, <2>1 DEF HandleStep, local
<1>7. CASE ServerStep /\ setup' = setup
  BY <1>1, <1>7, ServerUnderLocks
<1>8. CASE SuspensionEnds /\ setup' = setup
  BY <1>3, <1>8 DEF SuspensionEnds, handle
<1>9. CASE UNCHANGED vars
  BY <1>3, <1>9 DEF vars, local, handle
<1> QED BY <1>4, <1>5, <1>6, <1>7, <1>8, <1>9 DEF Next

-----------------------------------------------------------------------------
(* The theorems.                                                            *)

(* Whatever the concurrency and the jobs are, every variable of a worker    *)
(* has its type; the permits stay between zero and the concurrency, the     *)
(* counter of prefetched jobs does not go below zero, only active jobs are  *)
(* in the stalled set and, without a stalled check, have locks.             *)
THEOREM WorkerTypeCorrect == Spec => []TypeOK
<1>1. Sound => TypeOK
  <2> SUFFICES ASSUME Sound
               PROVE  TypeOK
    OBVIOUS
  <2>1. Typed /\ SlotsCounted /\ PrefetchCounted
    BY DEF Sound
  <2>2. /\ permits \in Nat /\ prefetched \in Nat /\ setup.concurrency \in Nat
        /\ Len(channel) \in Nat /\ Len(channel) <= setup.concurrency
    BY <2>1, SetupType DEF Typed
  <2>3. /\ Cardinality(Busy) \in Nat
        /\ Cardinality(Sending) \in Nat /\ Cardinality(Sending) <= setup.concurrency
    BY AllFree
  <2>4. permits \in 0..setup.concurrency
    <3>1. permits + Cardinality(Busy) + Has(loop) = setup.concurrency /\ Has(loop) \in Nat
      BY <2>1 DEF SlotsCounted, Has
    <3> QED BY <2>2, <2>3, <3>1
  <2>5. /\ srv.at \in [Job -> Places] /\ srv.stalled \subseteq In(srv, "active")
        /\ srv.locks \subseteq Job /\ (~Can("stalled_check") => AtOne(srv))
        /\ srv.marker \subseteq {"0", "1"} /\ srv.limited \in BOOLEAN
    BY <2>1 DEF Typed, ServerOK, Server, Can
  <2>6. srv.locks \subseteq (IF Can("stalled_check") THEN Job ELSE In(srv, "active"))
    BY <2>5 DEF AtOne, In
  <2>7. /\ loop \in [ pc : LoopPc, job : Job \union {NoJob}, permit : BOOLEAN ]
        /\ tasks \in [Slot -> [ pc : TaskPc, job : Job \union {NoJob}, next : Job \union {NoJob} ]]
    BY <2>1 DEF Typed, LoopOK, Loop, Task
  <2> QED BY <2>1, <2>4, <2>5, <2>6, <2>7 DEF Typed, TypeOK, LoopPc, TaskPc, Places
<1> QED BY <1>1, SpecSound, PTL

(* For every concurrency, no way through fetches, tasks, panics and         *)
(* shutdown loses a permit or makes one up.                                 *)
THEOREM SlotsCountedHolds == Spec => []SlotsCounted
<1>1. Sound => SlotsCounted
  BY DEF Sound
<1> QED BY <1>1, SpecSound, PTL

(* For every concurrency, the loop pops a marker or claims a job only when  *)
(* a slot is free for the job.                                              *)
THEOREM SaturatedTakesNoMarkerHolds == Spec => []SaturatedTakesNoMarker
<1>1. Sound => SaturatedTakesNoMarker
  <2> SUFFICES ASSUME Sound, loop.pc \in {"pop", "sleep", "claim"}
               PROVE  Cardinality(Busy) < setup.concurrency
    BY DEF SaturatedTakesNoMarker
  <2>1. SlotsCounted /\ permits \in Nat /\ setup.concurrency \in Nat /\ loop.permit
    BY SetupType DEF Sound, Typed, LoopOK
  <2>2. Cardinality(Busy) \in Nat
    BY AllFree
  <2>3. permits + Cardinality(Busy) + 1 = setup.concurrency
    BY <2>1 DEF SlotsCounted
  <2> QED BY <2>1, <2>2, <2>3
<1> QED BY <1>1, SpecSound, PTL

(* For every concurrency, the counter that pause reads is the number of the *)
(* jobs in the channel, of those counted in before their send and not       *)
(* counted out after it failed, and of the one the loop has taken and not   *)
(* counted out yet.                                                         *)
THEOREM PrefetchCountedHolds == Spec => []PrefetchCounted
<1>1. Sound => PrefetchCounted
  BY DEF Sound
<1> QED BY <1>1, SpecSound, PTL

(* For every concurrency, a worker that reports it has stopped runs no      *)
(* handler.                                                                 *)
THEOREM StoppedIsQuietHolds == Spec => []StoppedIsQuiet
<1>1. Sound => StoppedIsQuiet
  BY DEF Sound
<1> QED BY <1>1, SpecSound, PTL

(* For every concurrency, pause(false) does not return while a handler      *)
(* runs.                                                                    *)
THEOREM PauseWaitsForHandlersHolds == Spec => PauseWaitsForHandlers
<1>1. Sound /\ [Next]_vars => ((pauser # "returned" /\ pauser' = "returned") => Busy = {})
  <2> SUFFICES ASSUME Sound, Next, pauser # "returned", pauser' = "returned"
               PROVE  Busy = {}
    BY DEF vars, handle
  <2>1. PollCounter \/ PollPermits
    BY DEF Next, LoopStep, TaskStep, HandleStep, ServerStep, SuspensionEnds, handle,
           Pause, Resume, Shutdown
  <2>2. CASE PollCounter
    BY <2>2 DEF PollCounter, Sound, StoppedIsQuiet
  <2>3. CASE PollPermits
    BY <2>3, AllFree DEF PollPermits, Sound, StoppedIsQuiet
  <2> QED BY <2>1, <2>2, <2>3
<1> QED BY <1>1, SpecSound, PTL DEF Spec, PauseWaitsForHandlers

(* With one slot, and where every worker skips the stalled check, a handler *)
(* runs under the lock of its claim until the shutdown, however many jobs   *)
(* there are and whatever fails: a job that waits in the channel, the one   *)
(* in the loop's hand, the task's own and the next one it has claimed are   *)
(* different jobs, and each is renewed by the registration of the one that  *)
(* has it.                                                                  *)
THEOREM RunsUnderItsLockHolds == Spec => []RunsUnderItsLock
<1>1. Init => IInv
  <2> SUFFICES ASSUME Init
               PROVE  Sound /\ OneSlotUnderLocks
    BY DEF IInv
  <2>1. Sound
    BY InitSound
  <2>2. ASSUME setup.concurrency = 1
        PROVE  UnderLocks(srv.locks, loop, tasks[1], ToSet(channel), activeJobs)
    <3>1. Slot = {1}
      BY <2>2, SetupType DEF Init
    <3>2. ToSet(channel) = {} /\ tasks[1].pc = "idle" /\ ~InHand(loop)
      BY <3>1 DEF Init, ToSet, IdleTask, InHand
    <3> QED BY <3>2 DEF UnderLocks, HasNext
  <2> QED BY <2>1, <2>2 DEF OneSlotUnderLocks
<1>2. IInv /\ [Next]_vars => IInv'
  BY IInvInductive
<1>3. IInv => RunsUnderItsLock
  <2> SUFFICES ASSUME IInv, setup.concurrency = 1, ~shutdown, ~Can("stalled_check"),
                      NEW t \in Slot, tasks[t].pc = "running"
               PROVE  tasks[t].job \in srv.locks
    BY DEF RunsUnderItsLock
  <2>1. Slot = {1} /\ UnderLocks(srv.locks, loop, tasks[1], ToSet(channel), activeJobs)
    BY OneSlotFacts DEF IInv
  <2> QED BY <2>1 DEF UnderLocks
<1> QED BY <1>1, <1>2, <1>3, PTL DEF Spec
=============================================================================
