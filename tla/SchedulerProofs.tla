--------------------------- MODULE SchedulerProofs ---------------------------
(***************************************************************************)
(* What holds of a chain of iterations for any clients, workers, clocks,    *)
(* options and mishaps: it has the options of the latest upsert, keeps its  *)
(* limit, leaves no orphan behind, and is alive until something ends it     *)
(* that the code lets end it.                                               *)
(***************************************************************************)
EXTENDS Scheduler, WellFoundedInduction, TLAPS

Server == [next : Slot \union {None}, hash : [repeat : RepeatOptions, ic : Nat], jobs : [Slot -> Job]]

Call == [at : {"idle", "called"}, repeat : RepeatOptions, next : Nat, now : Nat]

Handler == [ at : {"idle", "running", "finished", "checked"}, slot : Slot \union {None},
             repeat : RepeatOptions, count : Nat, prev : Nat, next : Nat, now : Nat ]

History == [reused : BOOLEAN, broken : BOOLEAN, made : Nat, mishaps : 0..MaxMishaps]

(* A call under way has options that the client has not refused.            *)
Clients ==
  /\ client \in [Client -> Call]
  /\ \A c \in Client : client[c].at = "called" => ~BadOptions(client[c].repeat)

(* Types; the hash of a scheduler tells that there is one.                  *)
Typed ==
  /\ now \in Times /\ srv \in Server
  /\ srv.next = None <=> srv.hash = NoHash
  /\ srv.next # None => srv.hash.ic # 0
  /\ Clients
  /\ worker \in [Worker -> Handler] /\ hist \in History

-----------------------------------------------------------------------------
(* Times.                                                                   *)

LEMMA Constants ==
  /\ Times \subseteq Nat \ {0} /\ Times # {} /\ Slot \subseteq Nat \ {0} /\ MaxMishaps \in Nat
  /\ Occurrences \subseteq Nat \ {0} /\ RepeatChoices \subseteq RepeatOptions
  /\ NoOne \notin Worker
BY SchedulerAssumption

(* A set of numbers has a least one.                                        *)
LEMMA MinIs ==
  ASSUME NEW S \in SUBSET Nat, S # {}
  PROVE  Min(S) \in S /\ \A y \in S : Min(S) <= y
<1> DEFINE R == {ss \in Nat \X Nat : ss[1] < ss[2]}
<1>1. IsWellFoundedOn(R, Nat)
  BY NatLessThanWellFounded DEF OpToRel
<1> HIDE DEF R
<1>2. PICK x \in S : \A y \in S : ~(<<y, x>> \in R)
  BY <1>1, WFMin
<1>3. \A m, n \in Nat : <<m, n>> \in R <=> m < n
  BY DEF R
<1>4. \A y \in S : x <= y
  <2> SUFFICES ASSUME NEW y \in S
               PROVE  x <= y
    OBVIOUS
  <2>1. x \in Nat /\ y \in Nat /\ ~(y < x)
    BY <1>2, <1>3
  <2> QED BY <2>1
<1> QED BY <1>4 DEF Min

LEMMA FloorIs ==
  ASSUME NEW t \in Nat, NEW every \in Nat \ {0}
  PROVE  Floor(t, every) \in Nat /\ Floor(t, every) <= t /\ t < Floor(t, every) + every
<1> DEFINE q == t \div every
<1>1. q \in Int /\ every * q <= t /\ t < every * q + every
  OBVIOUS
<1>2. q >= 0
  BY <1>1
<1> QED BY <1>1, <1>2 DEF Floor

(* The slot after another one is later.                                     *)
LEMMA EveryNextIs ==
  ASSUME NEW prev \in Nat, NEW every \in Nat \ {0}, NEW t \in Nat, NEW offset \in Nat,
         NEW startDate \in Nat
  PROVE  /\ EveryNextMillis(prev, every, t, offset, startDate) \in Nat
         /\ prev # None => EveryNextMillis(prev, every, t, offset, startDate) > prev
<1>1. Floor(t, every) \in Nat /\ Floor(t, every) <= t /\ t < Floor(t, every) + every
  BY FloorIs
<1> QED BY <1>1 DEF EveryNextMillis, Larger, None

LEMMA EveryOffsetIs ==
  ASSUME NEW next \in Nat, NEW every \in Nat \ {0}, NEW offset \in Nat
  PROVE  EveryOffset(next, every, offset) \in Nat
<1>1. Floor(next, every) \in Nat /\ Floor(next, every) <= next
  BY FloorIs
<1> QED BY <1>1 DEF EveryOffset

(* An occurrence lies in the future; when there is none, there will be none.*)
LEMMA NextOccurrenceIs ==
  ASSUME NEW t \in Nat
  PROVE  /\ NextOccurrence(t) \in Nat
         /\ NextOccurrence(t) # None => NextOccurrence(t) > t
         /\ \A u \in Nat : t <= u /\ NextOccurrence(u) # None =>
              NextOccurrence(t) # None /\ NextOccurrence(t) <= NextOccurrence(u)
<1>1. Occurrences \subseteq Nat \ {0}
  BY Constants
<1>2. ASSUME NEW v \in Nat
      PROVE  /\ NextOccurrence(v) = None \/ (NextOccurrence(v) \in Occurrences /\ NextOccurrence(v) > v)
             /\ \A o \in Occurrences : o > v => NextOccurrence(v) # None /\ NextOccurrence(v) <= o
  <2> DEFINE later == {o \in Occurrences : o > v}
  <2>1. \A o : o \in later <=> o \in Occurrences /\ o > v
    OBVIOUS
  <2>2. later \in SUBSET Nat
    BY <1>1
  <2>3. NextOccurrence(v) = IF later = {} THEN None ELSE Min(later)
    BY DEF NextOccurrence
  <2> HIDE DEF later
  <2>4. later # {} => Min(later) \in later /\ \A o \in later : Min(later) <= o
    BY <2>2, MinIs
  <2>5. later # {} => NextOccurrence(v) # None
    BY <1>1, <2>1, <2>3, <2>4 DEF None
  <2> QED BY <2>1, <2>3, <2>4, <2>5
<1>3. NextOccurrence(t) \in Nat /\ (NextOccurrence(t) # None => NextOccurrence(t) > t)
  <2>1. CASE NextOccurrence(t) = None
    BY <2>1 DEF None
  <2>2. CASE NextOccurrence(t) # None
    <3>1. NextOccurrence(t) \in Occurrences /\ NextOccurrence(t) > t
      BY <1>2, <2>2
    <3> QED BY <1>1, <3>1
  <2> QED BY <2>1, <2>2
<1>4. ASSUME NEW u \in Nat, t <= u, NextOccurrence(u) # None
      PROVE  NextOccurrence(t) # None /\ NextOccurrence(t) <= NextOccurrence(u)
  <2>1. NextOccurrence(u) \in Occurrences /\ NextOccurrence(u) > u
    BY <1>2, <1>4
  <2>2. PICK o \in Nat : o = NextOccurrence(u) /\ o > u
    BY <1>1, <2>1
  <2>3. NextOccurrence(u) > t
    BY <1>4, <2>2
  <2> QED BY <1>2, <2>1, <2>3
<1> QED BY <1>3, <1>4
-----------------------------------------------------------------------------
(* The inductive invariant.                                                 *)

(* Locked, or in a list that only a started job gets to.                    *)
Begun(j) == j.lock # NoOne \/ j.at \cap {"active", "completed", "failed", "lost"} # {}

(* The options r of an iteration are those of the hash h.                   *)
Follows(r, h) ==
  /\ r.pattern = h.pattern /\ r.every = h.every /\ r.startDate = h.startDate
  /\ r.endDate = h.endDate /\ r.limit = h.limit /\ ~r.immediately

(* What the registered iteration, or a handler that has it, says of itself: *)
(* how many there have been since the upsert, and when it was made for.     *)
Registered(i) ==
  /\ Follows(i.repeat, srv.hash.repeat)
  /\ i.count = hist.made
  /\ i.repeat.pattern => i.prev = srv.next

(* A handler has a job; one that has checked the chain makes a later        *)
(* iteration within the limit.                                              *)
HandlerOK(h) ==
  /\ h.at # "idle" => h.slot # None
  /\ (h.at = "checked" /\ ~h.repeat.immediately) =>
       ~OverLimit(h.repeat, h.count) /\ (h.repeat.pattern => h.next > h.prev)

StartedFirst ==
  /\ \A s \in Slot : Begun(srv.jobs[s]) => srv.jobs[s].started
  /\ \A w \in Worker : worker[w].slot # None =>
       srv.jobs[worker[w].slot].started \/ srv.jobs[worker[w].slot].at = {}

Alive ==
  /\ Exists(srv.next)
  /\ \/ srv.jobs[srv.next].at \cap {"delayed", "wait", "active"} # {}
     \/ \E w \in Worker : worker[w].slot = srv.next /\ worker[w].at \in {"finished", "checked"}
     \/ EndsChain(srv.jobs[srv.next].repeat, srv.jobs[srv.next].count, srv.jobs[srv.next].prev)

Current ==
  srv.next # None =>
    /\ srv.hash.repeat.pattern <=> srv.hash.repeat.every = None
    /\ srv.hash.repeat.limit # None => hist.made <= srv.hash.repeat.limit
    /\ Exists(srv.next) => Registered(srv.jobs[srv.next])
    /\ \A w \in Worker : worker[w].slot = srv.next => Registered(worker[w])
    /\ ~hist.broken => Alive

(* A job that is gone is not locked.                                        *)
GoneUnlocked == \A s \in Slot : srv.jobs[s].at = {} => srv.jobs[s].lock = NoOne

IInv ==
  /\ Typed
  /\ GoneUnlocked
  /\ \A w \in Worker : HandlerOK(worker[w])
  /\ ~hist.reused => StartedFirst /\ Current
-----------------------------------------------------------------------------
(* Options and jobs.                                                        *)

LEMMA OptionsAre ==
  /\ NoOptions \in RepeatOptions /\ NoHash \in [repeat : RepeatOptions, ic : Nat]
  /\ NoJob \in Job /\ NoJob.at = {} /\ NoJob.lock = NoOne /\ NoHash.ic = 0 /\ NoHash.repeat = NoOptions
  /\ NoOptions.every = None /\ ~NoOptions.pattern
  /\ IdleClient \in Call /\ IdleClient.at = "idle"
  /\ IdleWorker \in Handler /\ IdleWorker.at = "idle" /\ IdleWorker.slot = None
<1>1. NoOptions \in RepeatOptions /\ NoOptions.every = None /\ ~NoOptions.pattern
  BY DEF NoOptions, RepeatOptions, None
<1> QED BY <1>1 DEF NoHash, NoJob, Job, IdleClient, Call, IdleWorker, Handler, None

LEMMA IterationOptsIs ==
  ASSUME NEW r \in RepeatOptions
  PROVE  /\ IterationOpts(r) \in RepeatOptions /\ ~IterationOpts(r).immediately
         /\ IterationOpts(r).pattern = r.pattern /\ IterationOpts(r).every = r.every
         /\ IterationOpts(r).startDate = r.startDate /\ IterationOpts(r).endDate = r.endDate
         /\ IterationOpts(r).limit = r.limit
BY DEF IterationOpts, RepeatOptions

LEMMA NextPatternIs ==
  ASSUME now \in Nat, NEW millis \in Nat, NEW r \in RepeatOptions
  PROVE  /\ NextPatternMillis(millis, r) \in Nat
         /\ ~r.immediately /\ NextPatternMillis(millis, r) # None => NextPatternMillis(millis, r) > millis
<1>1. r.startDate \in Nat /\ r.endDate \in Nat
  BY DEF RepeatOptions
<1>2. Larger(millis, r.startDate) \in Nat /\ millis <= Larger(millis, r.startDate)
  BY <1>1 DEF Larger
<1> DEFINE from == Larger(millis, r.startDate)
           next == NextOccurrence(from)
<1>3. next \in Nat /\ (next # None => next > from)
  BY <1>2, NextOccurrenceIs
<1>4. NextPatternMillis(millis, r) =
        IF r.immediately THEN now
        ELSE IF r.endDate # None /\ next > r.endDate THEN None ELSE next
  BY DEF NextPatternMillis
<1> HIDE DEF from, next
<1>5. millis <= from /\ from \in Nat
  BY <1>2 DEF from
<1> QED BY <1>3, <1>4, <1>5 DEF None

(* A chain that has ended stays ended.                                      *)
LEMMA EndsChainStays ==
  ASSUME now \in Nat, now' \in Nat, now <= now', NEW r \in RepeatOptions, ~r.immediately,
         NEW count \in Nat, NEW prev \in Nat, EndsChain(r, count, prev)
  PROVE  EndsChain(r, count, prev)'
<1>1. r.startDate \in Nat /\ r.endDate \in Nat
  BY DEF RepeatOptions
<1>2. CASE OverLimit(r, count)
  BY <1>2 DEF EndsChain
<1>3. CASE PastEnd(r, now)
  <2>1. PastEnd(r, now')
    BY <1>1, <1>3 DEF PastEnd
  <2> QED BY <2>1 DEF EndsChain
<1>4. CASE r.pattern /\ NextPatternMillis(SearchFrom(now, prev), r) = None
  <2> DEFINE t == Larger(SearchFrom(now, prev), r.startDate)
             u == Larger(SearchFrom(now', prev), r.startDate)
  <2>1. t \in Nat /\ u \in Nat /\ t <= u
    BY <1>1 DEF SearchFrom, Larger
  <2>2. /\ NextPatternMillis(SearchFrom(now, prev), r) =
             IF r.endDate # None /\ NextOccurrence(t) > r.endDate THEN None ELSE NextOccurrence(t)
        /\ NextPatternMillis(SearchFrom(now, prev), r)' =
             IF r.endDate # None /\ NextOccurrence(u) > r.endDate THEN None ELSE NextOccurrence(u)
    BY DEF NextPatternMillis
  <2> HIDE DEF t, u
  <2>3. PICK a, b \in Nat : a = NextOccurrence(t) /\ b = NextOccurrence(u)
    BY <2>1, NextOccurrenceIs
  <2>4. b # None => a # None /\ a <= b
    BY <2>1, <2>3, NextOccurrenceIs
  <2>5. NextPatternMillis(SearchFrom(now, prev), r)' = None
    BY <1>1, <1>4, <2>2, <2>3, <2>4 DEF None
  <2> QED BY <1>4, <2>5 DEF EndsChain
<1> QED BY <1>2, <1>3, <1>4 DEF EndsChain

(* It has ended for the job and for its handler alike.                      *)
LEMMA EndsChainAgrees ==
  ASSUME NEW h, NEW r \in RepeatOptions, NEW q \in RepeatOptions, Follows(r, h), Follows(q, h),
         NEW count \in Nat, NEW p1 \in Nat, NEW p2 \in Nat,
         r.pattern => p1 = p2, EndsChain(r, count, p1)
  PROVE  EndsChain(q, count, p2)
<1>1. /\ q.limit = r.limit /\ q.endDate = r.endDate /\ q.pattern = r.pattern
      /\ q.startDate = r.startDate /\ ~r.immediately /\ ~q.immediately
      /\ q.pattern <=> r.pattern
  BY DEF Follows
<1>2. ASSUME r.pattern
      PROVE  NextPatternMillis(SearchFrom(now, p2), q) = NextPatternMillis(SearchFrom(now, p1), r)
  BY <1>1, <1>2 DEF NextPatternMillis
<1>3. OverLimit(q, count) <=> OverLimit(r, count)
  BY <1>1 DEF OverLimit, IterationCount
<1>4. PastEnd(q, now) <=> PastEnd(r, now)
  BY <1>1 DEF PastEnd
<1> QED BY <1>1, <1>2, <1>3, <1>4 DEF EndsChain

LEMMA MovedIs ==
  ASSUME NEW j \in Job, NEW from, NEW to \in Place
  PROVE  /\ Moved(j, from, to) \in Job /\ Moved(j, from, to).at = (j.at \ {from}) \union {to}
         /\ Moved(j, from, to).started = j.started /\ Moved(j, from, to).repeat = j.repeat
         /\ Moved(j, from, to).count = j.count /\ Moved(j, from, to).prev = j.prev
         /\ Moved(j, from, to).lock = j.lock
<1>1. (j.at \ {from}) \union {to} \in SUBSET Place
  BY DEF Job
<1> QED BY <1>1 DEF Moved, Job

(* One job changes.                                                         *)
LEMMA JobChanges ==
  ASSUME srv \in Server, NEW s \in Slot, NEW j \in Job
  PROVE  /\ [srv EXCEPT !.jobs[s] = j] \in Server
         /\ [srv EXCEPT !.jobs[s] = j].next = srv.next
         /\ [srv EXCEPT !.jobs[s] = j].hash = srv.hash
         /\ [srv EXCEPT !.jobs[s] = j].jobs[s] = j
         /\ \A u \in Slot : u # s => [srv EXCEPT !.jobs[s] = j].jobs[u] = srv.jobs[u]
<1> DEFINE f == [srv.jobs EXCEPT ![s] = j]
<1>1. f \in [Slot -> Job] /\ f[s] = j /\ \A u \in Slot : u # s => f[u] = srv.jobs[u]
  BY DEF Server
<1>2. [srv EXCEPT !.jobs[s] = j] = [srv EXCEPT !.jobs = f]
  BY DEF Server
<1> HIDE DEF f
<1> QED BY <1>1, <1>2 DEF Server

-----------------------------------------------------------------------------
(* The steps that leave the registration alone.                             *)

(* A job stays what it is, or is gone.                                      *)
JobStep(a, b) ==
  \/ b = a
  \/ b = NoJob
  \/ /\ a.at # {} /\ b.at # {} /\ b.repeat = a.repeat /\ b.count = a.count /\ b.prev = a.prev
     /\ a.started => b.started
     /\ Begun(b) => Begun(a) \/ b.started

(* A handler goes on with its job, drops it, or takes one that waits.       *)
HandlerStep(w) ==
  \/ worker'[w] = worker[w]
  \/ worker'[w] = IdleWorker
  \/ /\ worker'[w].slot = worker[w].slot /\ worker'[w].repeat = worker[w].repeat
     /\ worker'[w].count = worker[w].count /\ worker'[w].prev = worker[w].prev
     /\ HandlerOK(worker'[w])
  \/ \E s \in Slot :
       /\ worker'[w].slot = s /\ worker'[w].at = "running" /\ Exists(s) /\ srv'.jobs[s].started
       /\ worker'[w].repeat = srv.jobs[s].repeat
       /\ worker'[w].count = srv.jobs[s].count /\ worker'[w].prev = srv.jobs[s].prev

Pending(j) == j.at \cap {"delayed", "wait", "active"} # {}
Completes(h) == h.slot = srv.next /\ h.at \in {"finished", "checked"}

(* The registered iteration is not lost unless the chain is broken.         *)
KeepsAlive ==
  LET job == srv.jobs[srv.next]
  IN  /\ srv'.jobs[srv.next] # NoJob
      /\ Pending(job) => Pending(srv'.jobs[srv.next]) \/ \E w \in Worker : Completes(worker'[w])
      /\ \A w \in Worker : Completes(worker[w]) =>
           Completes(worker'[w]) \/ EndsChain(job.repeat, job.count, job.prev)

LEMMA AliveStays ==
  ASSUME Typed, Current, srv.next # None, ~hist.broken, now' \in Nat, now <= now',
         srv' \in Server, srv'.next = srv.next, worker' \in [Worker -> Handler],
         JobStep(srv.jobs[srv.next], srv'.jobs[srv.next]), KeepsAlive
  PROVE  Alive'
<1> DEFINE n == srv.next
           a == srv.jobs[n]
           b == srv'.jobs[n]
<1>1. /\ Alive /\ Exists(n) /\ Registered(a) /\ n \in Slot /\ now \in Nat /\ a \in Job /\ b \in Job
  BY Constants DEF Current, Alive, Typed, Server
<1>2. a.at # {}
  BY <1>1 DEF Exists
<1>3. /\ b.at # {} /\ b.repeat = a.repeat /\ b.count = a.count /\ b.prev = a.prev
  BY <1>2 DEF JobStep, KeepsAlive
<1>4. Exists(n)'
  BY <1>3 DEF Exists
<1>5. PICK r \in RepeatOptions, count \in Nat, prev \in Nat :
        r = a.repeat /\ count = a.count /\ prev = a.prev /\ ~r.immediately
  BY <1>1 DEF Job, Registered, Follows
<1>6. Alive' <=> \/ Pending(b) \/ \E w \in Worker : Completes(worker'[w])
                 \/ EndsChain(r, count, prev)'
  <2>1. srv'.jobs[srv'.next] = b /\ b.repeat = r /\ b.count = count /\ b.prev = prev
    BY <1>3, <1>5
  <2>2. EndsChain(srv.jobs[srv.next].repeat, srv.jobs[srv.next].count, srv.jobs[srv.next].prev)'
          <=> EndsChain(r, count, prev)'
    BY <2>1 DEF EndsChain, NextPatternMillis
  <2> QED BY <1>4, <2>1, <2>2 DEF Alive, Pending, Completes
<1>7. CASE Pending(a)
  BY <1>6, <1>7 DEF KeepsAlive
<1>8. CASE EndsChain(r, count, prev)
  BY <1>1, <1>5, <1>6, <1>8, EndsChainStays
<1>9. CASE \E w \in Worker : Completes(worker[w])
  BY <1>5, <1>6, <1>8, <1>9 DEF KeepsAlive
<1> QED BY <1>1, <1>5, <1>7, <1>8, <1>9 DEF Alive, Pending, Completes

LEMMA Calm ==
  ASSUME IInv, srv' \in Server, srv'.next = srv.next, srv'.hash = srv.hash,
         now' \in Times, now <= now', Clients', worker' \in [Worker -> Handler],
         hist' \in History, hist'.reused = hist.reused, hist'.made = hist.made,
         hist.broken => hist'.broken,
         \A s \in Slot : JobStep(srv.jobs[s], srv'.jobs[s]),
         \A w \in Worker : HandlerStep(w),
         (srv.next # None /\ Current /\ ~hist.reused /\ ~hist'.broken) => KeepsAlive
  PROVE  IInv'
<1>1. Typed /\ GoneUnlocked /\ \A w \in Worker : HandlerOK(worker[w])
  BY DEF IInv
<1>2. Typed'
  BY <1>1 DEF Typed
<1>3. /\ srv.jobs \in [Slot -> Job] /\ srv'.jobs \in [Slot -> Job] /\ srv.next \in Slot \union {None}
      /\ worker \in [Worker -> Handler] /\ 0 \notin Slot /\ now' \in Nat
  BY <1>1, Constants DEF Typed, Server
<1>4. GoneUnlocked'
  <2> SUFFICES ASSUME NEW s \in Slot, srv'.jobs[s].at = {}
               PROVE  srv'.jobs[s].lock = NoOne
    BY DEF GoneUnlocked
  <2>1. JobStep(srv.jobs[s], srv'.jobs[s])
    OBVIOUS
  <2> QED BY <1>1, <2>1, OptionsAre DEF JobStep, GoneUnlocked
<1>5. ASSUME NEW w \in Worker
      PROVE  HandlerOK(worker'[w])
  BY <1>1, <1>3, OptionsAre DEF HandlerStep, HandlerOK, None
<1>6. ASSUME ~hist.reused
      PROVE  StartedFirst' /\ Current'
  <2>1. StartedFirst /\ Current
    BY <1>6 DEF IInv
  <2>2. ASSUME NEW s \in Slot, Begun(srv'.jobs[s])
        PROVE  srv'.jobs[s].started
    <3>1. JobStep(srv.jobs[s], srv'.jobs[s])
      OBVIOUS
    <3>2. ~Begun(NoJob)
      BY OptionsAre DEF Begun
    <3> QED BY <2>1, <2>2, <3>1, <3>2 DEF JobStep, StartedFirst
  <2>3. ASSUME NEW s \in Slot, srv.jobs[s].started \/ srv.jobs[s].at = {}
        PROVE  srv'.jobs[s].started \/ srv'.jobs[s].at = {}
    <3>1. JobStep(srv.jobs[s], srv'.jobs[s])
      OBVIOUS
    <3> QED BY <2>3, <3>1, OptionsAre DEF JobStep
  <2>4. ASSUME NEW w \in Worker, worker'[w].slot # None
        PROVE  srv'.jobs[worker'[w].slot].started \/ srv'.jobs[worker'[w].slot].at = {}
    <3>1. CASE worker'[w].slot = worker[w].slot
      <4>1. worker[w].slot \in Slot
        BY <1>3, <2>4, <3>1 DEF Handler
      <4> QED BY <2>1, <2>3, <2>4, <3>1, <4>1 DEF StartedFirst
    <3>2. HandlerStep(w)
      OBVIOUS
    <3> QED BY <2>4, <3>1, <3>2, OptionsAre DEF HandlerStep
  <2>5. StartedFirst'
    BY <2>2, <2>4 DEF StartedFirst
  <2>6. ASSUME srv.next # None
        PROVE  /\ srv.hash.repeat.pattern <=> srv.hash.repeat.every = None
               /\ srv.hash.repeat.limit # None => hist.made <= srv.hash.repeat.limit
               /\ Exists(srv.next) => Registered(srv.jobs[srv.next])
               /\ \A w \in Worker : worker[w].slot = srv.next => Registered(worker[w])
    BY <2>1, <2>6 DEF Current
  <2>7. ASSUME srv.next # None, srv'.jobs[srv.next].at # {}
        PROVE  Registered(srv.jobs[srv.next])'
    <3>1. JobStep(srv.jobs[srv.next], srv'.jobs[srv.next])
      BY <1>3, <2>7
    <3>2. /\ srv.jobs[srv.next].at # {} /\ srv'.jobs[srv.next].repeat = srv.jobs[srv.next].repeat
          /\ srv'.jobs[srv.next].count = srv.jobs[srv.next].count
          /\ srv'.jobs[srv.next].prev = srv.jobs[srv.next].prev
      BY <2>7, <3>1, OptionsAre DEF JobStep
    <3> QED BY <2>6, <2>7, <3>2 DEF Registered, Exists
  <2>8. ASSUME srv.next # None, NEW w \in Worker, worker'[w].slot = srv.next
        PROVE  Registered(worker[w])'
    <3>1. CASE /\ worker'[w].slot = worker[w].slot /\ worker'[w].repeat = worker[w].repeat
               /\ worker'[w].count = worker[w].count /\ worker'[w].prev = worker[w].prev
      BY <2>6, <2>8, <3>1 DEF Registered
    <3>2. CASE /\ Exists(srv.next) /\ worker'[w].repeat = srv.jobs[srv.next].repeat
               /\ worker'[w].count = srv.jobs[srv.next].count
               /\ worker'[w].prev = srv.jobs[srv.next].prev
      BY <2>6, <2>8, <3>2 DEF Registered
    <3>3. HandlerStep(w)
      OBVIOUS
    <3> QED BY <2>8, <3>1, <3>2, <3>3, OptionsAre DEF HandlerStep
  <2>9. ASSUME srv.next # None, ~hist'.broken
         PROVE  Alive'
    <3>1. ~hist.broken /\ srv.next \in Slot
      BY <1>3, <2>9
    <3> QED BY <1>1, <1>3, <1>6, <2>1, <2>9, <3>1, AliveStays
  <2>10. Current'
    BY <2>6, <2>7, <2>8, <2>9 DEF Current, Exists
  <2> QED BY <2>5, <2>10
<1> QED BY <1>2, <1>4, <1>5, <1>6 DEF IInv

LEMMA IdleOK == HandlerOK(IdleWorker)
BY OptionsAre DEF HandlerOK

(* Only a client, or the clock, moves.                                      *)
LEMMA NothingMoves ==
  ASSUME IInv, UNCHANGED <<srv, worker, hist>>, now' \in Times, now <= now', Clients'
  PROVE  IInv'
<1>1. /\ srv \in Server /\ worker \in [Worker -> Handler] /\ hist \in History
  BY DEF IInv, Typed
<1>2. (\A s \in Slot : JobStep(srv.jobs[s], srv'.jobs[s])) /\ \A w \in Worker : HandlerStep(w)
  BY DEF JobStep, HandlerStep
<1>3. (srv.next # None /\ Current /\ ~hist.reused /\ ~hist'.broken) => KeepsAlive
  BY OptionsAre DEF Current, Alive, KeepsAlive, Exists, Completes
<1> QED BY <1>1, <1>2, <1>3, Calm

(* A job moves to another list, or is deleted.                              *)
LEMMA OneJobMoves ==
  ASSUME IInv, NEW s \in Slot, NEW j \in Job, srv' = [srv EXCEPT !.jobs[s] = j],
         UNCHANGED <<now, client, worker>>, hist' \in History,
         hist'.reused = hist.reused, hist'.made = hist.made, hist.broken => hist'.broken,
         JobStep(srv.jobs[s], j),
         (s = srv.next /\ ~hist'.broken) => j # NoJob /\ (Pending(srv.jobs[s]) => Pending(j))
  PROVE  IInv'
<1>1. /\ srv \in Server /\ worker \in [Worker -> Handler] /\ Clients /\ now \in Times /\ now \in Nat
      /\ srv.next \in Slot \union {None}
  BY Constants DEF IInv, Typed, Server
<1>2. /\ srv' \in Server /\ srv'.next = srv.next /\ srv'.hash = srv.hash /\ srv'.jobs[s] = j
      /\ \A u \in Slot : u # s => srv'.jobs[u] = srv.jobs[u]
  BY <1>1, JobChanges
<1>3. Clients' /\ now' \in Times /\ now <= now' /\ worker' \in [Worker -> Handler]
  BY <1>1 DEF Clients
<1>4. \A u \in Slot : JobStep(srv.jobs[u], srv'.jobs[u])
  BY <1>2 DEF JobStep
<1>5. \A w \in Worker : HandlerStep(w)
  BY DEF HandlerStep
<1>6. ASSUME srv.next # None, Current, ~hist.reused, ~hist'.broken
      PROVE  KeepsAlive
  <2>1. srv.next \in Slot /\ srv.jobs[srv.next] # NoJob
    BY <1>1, <1>6, OptionsAre DEF Current, Alive, Exists
  <2>2. /\ srv'.jobs[srv.next] # NoJob
        /\ Pending(srv.jobs[srv.next]) => Pending(srv'.jobs[srv.next])
    BY <1>2, <1>6, <2>1
  <2> QED BY <2>2 DEF KeepsAlive, Completes
<1> QED BY <1>2, <1>3, <1>4, <1>5, <1>6, Calm

LEMMA MishapIs ==
  ASSUME hist \in History, NEW breaks \in BOOLEAN, Mishap(breaks)
  PROVE  /\ hist' \in History /\ hist'.reused = hist.reused /\ hist'.made = hist.made
         /\ hist'.broken = (hist.broken \/ breaks)
<1>1. hist.mishaps + 1 \in 0..MaxMishaps
  BY Constants DEF Mishap, History
<1>2. hist' = [hist EXCEPT !.mishaps = hist.mishaps + 1, !.broken = hist.broken \/ breaks]
  BY DEF Mishap
<1> QED BY <1>1, <1>2 DEF History
LEMMA JobsSound ==
  ASSUME IInv, NEW s \in Slot,
         \/ Promote(s)
         \/ \E to \in {"wait", "lost"} : Stalled(s, to)
         \/ \E from \in {"completed", "failed"} : RetryJob(s, from)
         \/ RemoveJob(s)
         \/ Drain(s)
  PROVE  IInv'
<1> DEFINE a == srv.jobs[s]
<1>1. srv \in Server /\ a \in Job /\ hist \in History /\ NoJob \in Job
  BY OptionsAre DEF IInv, Typed, Server
<1>2. {"wait", "lost"} \subseteq Place
  BY DEF Place
<1>3. ASSUME NEW from \in Place, NEW to \in Place, from \in a.at
      PROVE  /\ Moved(a, from, to) \in Job /\ to \in Moved(a, from, to).at
             /\ Moved(a, from, to).at \subseteq a.at \union {to} /\ a.at \ {from} \subseteq Moved(a, from, to).at
             /\ Moved(a, from, to).started = a.started /\ Moved(a, from, to).repeat = a.repeat
             /\ Moved(a, from, to).count = a.count /\ Moved(a, from, to).prev = a.prev
             /\ Moved(a, from, to).lock = a.lock
  BY <1>1, MovedIs
<1>4. NoJob.at = {}
  BY OptionsAre
<1> HIDE DEF a
<1>5. CASE Promote(s)
  <2> DEFINE j == Moved(a, "delayed", "wait")
  <2>1. "delayed" \in a.at /\ srv' = [srv EXCEPT !.jobs[s] = j] /\ UNCHANGED <<now, client, worker, hist>>
    BY <1>5 DEF Promote, a
  <2>2. /\ j \in Job /\ "wait" \in j.at /\ j.at \subseteq a.at \union {"wait"} /\ j.started = a.started
        /\ j.repeat = a.repeat /\ j.count = a.count /\ j.prev = a.prev /\ j.lock = a.lock
    BY <1>2, <1>3, <2>1 DEF Place
  <2> HIDE DEF j
  <2>3. JobStep(a, j) /\ Pending(j) /\ j # NoJob
    BY <1>4, <2>1, <2>2 DEF JobStep, Begun, Pending
  <2> QED BY <1>1, <2>1, <2>2, <2>3, OneJobMoves DEF a
<1>6. ASSUME NEW to \in {"wait", "lost"}, Stalled(s, to)
      PROVE  IInv'
  <2> DEFINE m == Moved(a, "active", to)
             breaks == to = "lost" /\ s = srv.next
  <2>0. PICK lock \in {NoOne, a.lock} : srv' = [srv EXCEPT !.jobs[s] = [m EXCEPT !.lock = lock]]
    BY <1>6 DEF Stalled, a
  <2> DEFINE j == [m EXCEPT !.lock = lock]
  <2>1. /\ "active" \in a.at /\ srv' = [srv EXCEPT !.jobs[s] = j] /\ UNCHANGED <<now, client, worker>>
        /\ Mishap(breaks)
    BY <1>6, <2>0 DEF Stalled, a
  <2>2. /\ m \in Job /\ to \in m.at /\ m.at \subseteq a.at \union {to} /\ m.started = a.started
        /\ m.repeat = a.repeat /\ m.count = a.count /\ m.prev = a.prev
    BY <1>2, <1>3, <2>1 DEF Place
  <2> HIDE DEF m
  <2>3. /\ j \in Job /\ j.at = m.at /\ j.started = m.started /\ j.repeat = m.repeat
        /\ j.count = m.count /\ j.prev = m.prev /\ j.lock = lock
    BY <1>1, <2>0, <2>2 DEF Job
  <2> HIDE DEF j, breaks
  <2>4. /\ hist' \in History /\ hist'.reused = hist.reused /\ hist'.made = hist.made
        /\ hist'.broken = (hist.broken \/ breaks)
    BY <1>1, <2>1, MishapIs DEF breaks
  <2>5. JobStep(a, j) /\ j # NoJob
    BY <1>4, <2>0, <2>1, <2>2, <2>3 DEF JobStep, Begun
  <2>6. ~breaks /\ s = srv.next => Pending(j)
    BY <2>2, <2>3 DEF breaks, Pending
  <2>7. hist.broken => hist'.broken
    BY <2>4
  <2>8. s = srv.next /\ ~hist'.broken => Pending(j)
    BY <2>4, <2>6
  <2> QED BY <2>1, <2>3, <2>4, <2>5, <2>7, <2>8, OneJobMoves DEF a
<1>7. ASSUME NEW from \in {"completed", "failed"}, RetryJob(s, from)
      PROVE  IInv'
  <2> DEFINE j == Moved(a, from, "wait")
  <2>1. /\ from \in a.at /\ srv' = [srv EXCEPT !.jobs[s] = j] /\ UNCHANGED <<now, client, worker>>
        /\ Mishap(FALSE)
    BY <1>7 DEF RetryJob, a
  <2>2. /\ j \in Job /\ "wait" \in j.at /\ j.at \subseteq a.at \union {"wait"} /\ j.started = a.started
        /\ j.repeat = a.repeat /\ j.count = a.count /\ j.prev = a.prev /\ j.lock = a.lock
    BY <1>2, <1>3, <2>1 DEF Place
  <2> HIDE DEF j
  <2>3. JobStep(a, j) /\ Pending(j) /\ j # NoJob
    BY <1>4, <2>1, <2>2 DEF JobStep, Begun, Pending
  <2>4. /\ hist' \in History /\ hist'.reused = hist.reused /\ hist'.made = hist.made
        /\ hist.broken => hist'.broken
    BY <1>1, <2>1, MishapIs
  <2> QED BY <2>1, <2>2, <2>3, <2>4, OneJobMoves DEF a
<1>8. CASE RemoveJob(s)
  <2>1. /\ srv' = [srv EXCEPT !.jobs[s] = NoJob] /\ UNCHANGED <<now, client, worker>>
        /\ Mishap(FALSE) /\ s # srv.next
    BY <1>8 DEF RemoveJob
  <2>2. /\ hist' \in History /\ hist'.reused = hist.reused /\ hist'.made = hist.made
        /\ hist.broken => hist'.broken
    BY <1>1, <2>1, MishapIs
  <2>3. JobStep(a, NoJob)
    BY DEF JobStep
  <2> QED BY <1>1, <2>1, <2>2, <2>3, OneJobMoves DEF a
<1>9. CASE Drain(s)
  <2> DEFINE breaks == s = srv.next
  <2>1. /\ srv' = [srv EXCEPT !.jobs[s] = NoJob] /\ UNCHANGED <<now, client, worker>>
        /\ Mishap(breaks)
    BY <1>9 DEF Drain
  <2> HIDE DEF breaks
  <2>2. /\ hist' \in History /\ hist'.reused = hist.reused /\ hist'.made = hist.made
        /\ hist'.broken = (hist.broken \/ breaks)
    BY <1>1, <2>1, MishapIs DEF breaks
  <2>3. JobStep(a, NoJob)
    BY DEF JobStep
  <2>4. /\ hist.broken => hist'.broken
        /\ ~(s = srv.next /\ ~hist'.broken)
    BY <2>2 DEF breaks
  <2> QED BY <1>1, <2>1, <2>2, <2>3, <2>4, OneJobMoves DEF a
<1> QED BY <1>5, <1>6, <1>7, <1>8, <1>9

LEMMA ClientsSound ==
  ASSUME IInv,
         \/ \E c \in Client : (\E r \in RepeatChoices : UpsertJobScheduler(c, r)) \/ UpsertLost(c)
         \/ Tick
  PROVE  IInv'
<1>1. now \in Times /\ now \in Nat /\ Clients /\ client \in [Client -> Call]
  BY Constants DEF IInv, Typed, Clients
<1>2. ASSUME NEW c \in Client, NEW call \in Call, client' = [client EXCEPT ![c] = call],
             call.at = "called" => ~BadOptions(call.repeat)
      PROVE  Clients'
  <2>1. /\ client' \in [Client -> Call] /\ client'[c] = call
        /\ \A d \in Client : d # c => client'[d] = client[d]
    BY <1>1, <1>2
  <2> QED BY <1>1, <1>2, <2>1 DEF Clients
<1>3. ASSUME NEW c \in Client, NEW r \in RepeatChoices, UpsertJobScheduler(c, r)
      PROVE  IInv'
  <2> DEFINE found == NextPatternMillis(now, r)
             next == IF r.pattern THEN Larger(found, now) ELSE 0
             sent == SchedulerOpts(r)
             call == [at |-> "called", repeat |-> sent, now |-> now, next |-> next]
  <2>1. /\ client' = [client EXCEPT ![c] = call] /\ ~BadOptions(r)
        /\ UNCHANGED <<now, srv, worker, hist>>
    BY <1>3 DEF UpsertJobScheduler
  <2>2. r \in RepeatOptions
    BY Constants
  <2>3. next \in Nat
    BY <1>1, <2>2, NextPatternIs DEF Larger
  <2>4. sent \in RepeatOptions /\ ~BadOptions(sent)
    BY <2>1, <2>2 DEF SchedulerOpts, BadOptions, RepeatOptions
  <2> HIDE DEF next, sent
  <2>5. call \in Call /\ call.repeat = sent
    BY <1>1, <2>3, <2>4 DEF Call
  <2> HIDE DEF call
  <2>6. Clients'
    BY <1>2, <2>1, <2>4, <2>5
  <2> QED BY <1>1, <2>1, <2>6, NothingMoves
<1>4. ASSUME NEW c \in Client, UpsertLost(c)
      PROVE  IInv'
  <2>1. Clients'
    BY <1>2, <1>4, OptionsAre DEF UpsertLost
  <2> QED BY <1>1, <1>4, <2>1, NothingMoves DEF UpsertLost
<1>5. CASE Tick
  <2>1. now' \in Times /\ now' \in Nat /\ now < now' /\ UNCHANGED <<srv, client, worker, hist>>
    BY <1>5, Constants DEF Tick
  <2>2. Clients'
    BY <1>1, <2>1 DEF Clients
  <2> QED BY <1>1, <2>1, <2>2, NothingMoves
<1> QED BY <1>3, <1>4, <1>5
-----------------------------------------------------------------------------
(* Handlers.                                                                *)

LEMMA OneHandlerMoves ==
  ASSUME IInv, NEW w \in Worker, NEW h \in Handler, worker' = [worker EXCEPT ![w] = h],
         UNCHANGED <<now, client>>, srv' \in Server, srv'.next = srv.next, srv'.hash = srv.hash,
         hist' \in History, hist'.reused = hist.reused, hist'.made = hist.made,
         hist.broken => hist'.broken,
         \A s \in Slot : JobStep(srv.jobs[s], srv'.jobs[s]), HandlerStep(w),
         srv.next # None /\ Current /\ ~hist.reused /\ ~hist'.broken =>
           LET job == srv.jobs[srv.next]
           IN  /\ srv'.jobs[srv.next] # NoJob
               /\ Pending(job) => Pending(srv'.jobs[srv.next]) \/ Completes(h)
               /\ Completes(worker[w]) => Completes(h) \/ EndsChain(job.repeat, job.count, job.prev)
  PROVE  IInv'
<1>1. /\ worker \in [Worker -> Handler] /\ Clients /\ now \in Times /\ now \in Nat
  BY Constants DEF IInv, Typed
<1>2. /\ worker' \in [Worker -> Handler] /\ worker'[w] = h
      /\ \A v \in Worker : v # w => worker'[v] = worker[v]
  BY <1>1
<1>3. Clients' /\ now' \in Times /\ now <= now'
  BY <1>1 DEF Clients
<1>4. \A v \in Worker : HandlerStep(v)
  BY <1>2 DEF HandlerStep
<1>5. (srv.next # None /\ Current /\ ~hist.reused /\ ~hist'.broken) => KeepsAlive
  BY <1>2 DEF KeepsAlive
<1> QED BY <1>2, <1>3, <1>4, <1>5, Calm

(* What the job of a handler becomes when it is released.                   *)
LEMMA ReleasedIs ==
  ASSUME IInv, NEW w \in Worker, worker[w].at # "idle", NEW to \in Place
  PROVE  /\ worker[w].slot \in Slot
         /\ Released(w, to) \in Server
         /\ Released(w, to).next = srv.next /\ Released(w, to).hash = srv.hash
         /\ \A u \in Slot : JobStep(srv.jobs[u], Released(w, to).jobs[u])
         /\ \A u \in Slot : \/ Released(w, to).jobs[u] = srv.jobs[u]
                            \/ u = worker[w].slot /\ to \in Released(w, to).jobs[u].at
<1> DEFINE s == worker[w].slot
           m == Moved(srv.jobs[s], "active", to)
           j == [m EXCEPT !.lock = NoOne]
           n == [srv EXCEPT !.jobs[s] = j]
<1>1. srv \in Server /\ worker[w] \in Handler /\ HandlerOK(worker[w]) /\ GoneUnlocked
  BY DEF IInv, Typed
<1>2. s \in Slot
  BY <1>1 DEF HandlerOK, Handler
<1>3. srv.jobs[s] \in Job
  BY <1>1, <1>2 DEF Server
<1>4. Released(w, to) = IF srv.jobs[s].lock # w THEN srv ELSE n
  BY DEF Released
<1>5. CASE srv.jobs[s].lock # w
  <2>1. Released(w, to) = srv
    BY <1>4, <1>5
  <2> QED BY <1>1, <1>2, <2>1 DEF JobStep
<1>6. CASE srv.jobs[s].lock = w
  <2>1. srv.jobs[s].at # {} /\ Begun(srv.jobs[s])
    BY <1>1, <1>2, <1>6, Constants DEF GoneUnlocked, Begun
  <2>2. /\ m \in Job /\ to \in m.at /\ m.started = srv.jobs[s].started /\ m.repeat = srv.jobs[s].repeat
        /\ m.count = srv.jobs[s].count /\ m.prev = srv.jobs[s].prev
    BY <1>3, MovedIs
  <2> HIDE DEF m
  <2>3. /\ j \in Job /\ j.at = m.at /\ j.started = m.started /\ j.repeat = m.repeat
        /\ j.count = m.count /\ j.prev = m.prev
    BY <2>2 DEF Job
  <2> HIDE DEF j
  <2>4. JobStep(srv.jobs[s], j)
    BY <2>1, <2>2, <2>3 DEF JobStep
  <2>5. /\ n \in Server /\ n.next = srv.next /\ n.hash = srv.hash /\ n.jobs[s] = j
        /\ \A u \in Slot : u # s => n.jobs[u] = srv.jobs[u]
    BY <1>1, <1>2, <2>3, JobChanges
  <2>6. Released(w, to) = n
    BY <1>4, <1>6
  <2> HIDE DEF n
  <2>7. \A u \in Slot : JobStep(srv.jobs[u], n.jobs[u])
    BY <2>4, <2>5 DEF JobStep
  <2> QED BY <1>2, <2>2, <2>3, <2>5, <2>6, <2>7
<1> QED BY <1>5, <1>6

LEMMA StartJobSound ==
  ASSUME IInv, NEW w \in Worker, NEW s \in Slot, StartJob(w, s)
  PROVE  IInv'
<1> DEFINE a == srv.jobs[s]
           m == Moved(a, "wait", "active")
           j == [m EXCEPT !.started = TRUE, !.lock = w]
           h == [IdleWorker EXCEPT !.at = "running", !.slot = s, !.repeat = a.repeat,
                                   !.count = a.count, !.prev = a.prev]
<1>1. srv \in Server /\ a \in Job /\ hist \in History /\ worker \in [Worker -> Handler]
  BY DEF IInv, Typed, Server
<1>2. /\ srv' = [srv EXCEPT !.jobs[s] = j] /\ worker' = [worker EXCEPT ![w] = h]
      /\ worker[w].at = "idle" /\ "wait" \in a.at /\ UNCHANGED <<now, client, hist>>
  BY DEF StartJob
<1>3. /\ m \in Job /\ "active" \in m.at /\ m.repeat = a.repeat /\ m.count = a.count /\ m.prev = a.prev
  BY <1>1, MovedIs DEF Place
<1> HIDE DEF m
<1>4. /\ j \in Job /\ j.at = m.at /\ j.started /\ j.repeat = m.repeat
      /\ j.count = m.count /\ j.prev = m.prev
  BY <1>3 DEF Job
<1>5. /\ h \in Handler /\ h.at = "running" /\ h.slot = s /\ h.repeat = a.repeat
      /\ h.count = a.count /\ h.prev = a.prev
  BY <1>1, OptionsAre DEF Handler, Job
<1> HIDE DEF j, h
<1>6. /\ srv' \in Server /\ srv'.next = srv.next /\ srv'.hash = srv.hash /\ srv'.jobs[s] = j
      /\ \A u \in Slot : u # s => srv'.jobs[u] = srv.jobs[u]
  BY <1>1, <1>2, <1>4, JobChanges
<1>7. JobStep(a, j)
  BY <1>2, <1>3, <1>4 DEF JobStep
<1>8. \A u \in Slot : JobStep(srv.jobs[u], srv'.jobs[u])
  BY <1>6, <1>7 DEF JobStep
<1>9. HandlerStep(w)
  <2>1. worker'[w] = h /\ Exists(s) /\ srv'.jobs[s].started
    BY <1>1, <1>2, <1>4, <1>6 DEF Exists
  <2> QED BY <1>5, <2>1 DEF HandlerStep
<1>10. ASSUME srv.next # None, Current, ~hist.reused, ~hist'.broken
       PROVE  /\ srv'.jobs[srv.next] # NoJob
              /\ Pending(srv.jobs[srv.next]) => Pending(srv'.jobs[srv.next])
  <2>1. srv.next \in Slot /\ srv.jobs[srv.next].at # {}
    BY <1>1, <1>2, <1>10 DEF Current, Alive, Exists, Server
  <2>2. Pending(j) /\ j # NoJob
    BY <1>3, <1>4, OptionsAre DEF Pending
  <2> QED BY <1>6, <2>1, <2>2, OptionsAre
<1>11. ~Completes(worker[w])
  BY <1>2 DEF Completes
<1>12. /\ hist' \in History /\ hist'.reused = hist.reused /\ hist'.made = hist.made
       /\ hist.broken => hist'.broken
  BY <1>1, <1>2
<1> QED BY <1>2, <1>5, <1>6, <1>8, <1>9, <1>10, <1>11, <1>12, OneHandlerMoves

LEMMA FinishJobSound ==
  ASSUME IInv, NEW w \in Worker, NEW to \in {"completed", "failed"}, FinishJob(w, to)
  PROVE  IInv'
<1> DEFINE h == [worker[w] EXCEPT !.at = "finished"]
<1>1. /\ worker[w].at = "running" /\ srv' = Released(w, to) /\ worker' = [worker EXCEPT ![w] = h]
      /\ UNCHANGED <<now, client, hist>>
  BY DEF FinishJob
<1>2. worker \in [Worker -> Handler] /\ hist \in History /\ srv \in Server
  BY DEF IInv, Typed
<1>3. to \in Place
  BY DEF Place
<1>4. /\ worker[w].slot \in Slot /\ srv' \in Server /\ srv'.next = srv.next /\ srv'.hash = srv.hash
      /\ \A u \in Slot : JobStep(srv.jobs[u], srv'.jobs[u])
      /\ \A u \in Slot : srv'.jobs[u] = srv.jobs[u] \/ (u = worker[w].slot /\ to \in srv'.jobs[u].at)
  BY <1>1, <1>3, ReleasedIs
<1>5. /\ h \in Handler /\ h.at = "finished" /\ h.slot = worker[w].slot /\ h.repeat = worker[w].repeat
      /\ h.count = worker[w].count /\ h.prev = worker[w].prev
  BY <1>2 DEF Handler
<1> HIDE DEF h
<1>6. HandlerStep(w)
  <2>1. worker'[w] = h
    BY <1>1, <1>2
  <2>2. HandlerOK(h)
    BY <1>4, <1>5, Constants DEF HandlerOK, None
  <2> QED BY <1>5, <2>1, <2>2 DEF HandlerStep
<1>7. ASSUME srv.next # None, Current, ~hist.reused, ~hist'.broken
      PROVE  /\ srv'.jobs[srv.next] # NoJob
             /\ Pending(srv.jobs[srv.next]) => Pending(srv'.jobs[srv.next]) \/ Completes(h)
  <2>1. srv.next \in Slot /\ srv.jobs[srv.next].at # {}
    BY <1>1, <1>2, <1>7 DEF Current, Alive, Exists, Server
  <2> QED BY <1>4, <1>5, <2>1, OptionsAre DEF Completes
<1>8. ~Completes(worker[w])
  BY <1>1 DEF Completes
<1>9. /\ hist' \in History /\ hist'.reused = hist.reused /\ hist'.made = hist.made
      /\ hist.broken => hist'.broken
  BY <1>1, <1>2
<1> QED BY <1>1, <1>4, <1>5, <1>6, <1>7, <1>8, <1>9, OneHandlerMoves

LEMMA FailForNowSound ==
  ASSUME IInv, NEW w \in Worker, FailForNow(w)
  PROVE  IInv'
<1>1. /\ worker[w].at = "running" /\ srv' = Released(w, "delayed")
      /\ worker' = [worker EXCEPT ![w] = IdleWorker] /\ Mishap(FALSE) /\ UNCHANGED <<now, client>>
  BY DEF FailForNow
<1>2. worker \in [Worker -> Handler] /\ hist \in History /\ srv \in Server
  BY DEF IInv, Typed
<1>3. "delayed" \in Place
  BY DEF Place
<1>4. /\ worker[w].slot \in Slot /\ srv' \in Server /\ srv'.next = srv.next /\ srv'.hash = srv.hash
      /\ \A u \in Slot : JobStep(srv.jobs[u], srv'.jobs[u])
      /\ \A u \in Slot : srv'.jobs[u] = srv.jobs[u] \/ (u = worker[w].slot /\ "delayed" \in srv'.jobs[u].at)
  BY <1>1, <1>3, ReleasedIs
<1>5. HandlerStep(w)
  BY <1>1, <1>2 DEF HandlerStep
<1>6. /\ hist' \in History /\ hist'.reused = hist.reused /\ hist'.made = hist.made
      /\ hist'.broken = (hist.broken \/ FALSE)
  BY <1>1, <1>2, MishapIs
<1>7. ASSUME srv.next # None, Current, ~hist.reused, ~hist'.broken
      PROVE  /\ srv'.jobs[srv.next] # NoJob
             /\ Pending(srv.jobs[srv.next]) => Pending(srv'.jobs[srv.next])
  <2>1. srv.next \in Slot /\ srv.jobs[srv.next].at # {}
    BY <1>2, <1>6, <1>7 DEF Current, Alive, Exists, Server
  <2> QED BY <1>4, <2>1, OptionsAre DEF Pending
<1>8. ~Completes(worker[w]) /\ (hist.broken => hist'.broken) /\ IdleWorker \in Handler
  BY <1>1, <1>6, OptionsAre DEF Completes
<1> QED BY <1>1, <1>4, <1>5, <1>6, <1>7, <1>8, OneHandlerMoves
LEMMA WorkerStopsSound ==
  ASSUME IInv, NEW w \in Worker, WorkerStops(w)
  PROVE  IInv'
<1> DEFINE breaks == worker[w].at # "running" /\ worker[w].slot = srv.next
<1>1. /\ worker[w].at # "idle" /\ worker' = [worker EXCEPT ![w] = IdleWorker]
      /\ Mishap(breaks) /\ UNCHANGED <<now, srv, client>>
  BY DEF WorkerStops
<1>2. worker \in [Worker -> Handler] /\ hist \in History /\ srv \in Server
  BY DEF IInv, Typed
<1>3. ~breaks => ~Completes(worker[w])
  BY DEF Completes
<1>4. breaks \in BOOLEAN
  OBVIOUS
<1> HIDE DEF breaks
<1>5. /\ hist' \in History /\ hist'.reused = hist.reused /\ hist'.made = hist.made
      /\ hist'.broken = (hist.broken \/ breaks)
  BY <1>1, <1>2, <1>4, MishapIs
<1>6. HandlerStep(w)
  BY <1>1, <1>2 DEF HandlerStep
<1>7. \A s \in Slot : JobStep(srv.jobs[s], srv'.jobs[s])
  BY <1>1 DEF JobStep
<1>8. ASSUME srv.next # None, Current, ~hist.reused, ~hist'.broken
      PROVE  /\ srv'.jobs[srv.next] # NoJob
             /\ Pending(srv.jobs[srv.next]) => Pending(srv'.jobs[srv.next])
             /\ ~Completes(worker[w])
  <2>1. ~hist.broken /\ ~breaks
    BY <1>5, <1>8
  <2> QED BY <1>1, <1>3, <1>8, <2>1, OptionsAre DEF Current, Alive, Exists
<1> QED BY <1>1, <1>2, <1>5, <1>6, <1>7, <1>8, OptionsAre, OneHandlerMoves

(* A handler that goes on has found the next slot.                          *)
LEMMA CheckedIsLater ==
  ASSUME now \in Nat, NEW r \in RepeatOptions, NEW count \in Nat, NEW prev \in Nat,
         ~EndsChain(r, count, prev)
  PROVE  LET from == SearchFrom(now, prev)
         IN  /\ ~OverLimit(r, count) /\ Larger(NextPatternMillis(from, r), from) \in Nat
             /\ r.pattern /\ ~r.immediately => Larger(NextPatternMillis(from, r), from) > prev
<1> DEFINE from == SearchFrom(now, prev)
<1>1. from \in Nat /\ prev <= from
  BY DEF SearchFrom, Larger
<1>2. ~OverLimit(r, count) /\ (r.pattern => NextPatternMillis(from, r) # None)
  BY DEF EndsChain
<1> HIDE DEF from
<1>3. PICK p \in Nat : p = NextPatternMillis(from, r) /\ (~r.immediately /\ p # None => p > from)
  BY <1>1, NextPatternIs
<1>4. Larger(p, from) \in Nat /\ (p > from => Larger(p, from) > prev)
  BY <1>1, <1>3 DEF Larger
<1> QED BY <1>2, <1>3, <1>4 DEF from

LEMMA ScheduleNextSound ==
  ASSUME IInv, NEW w \in Worker, ScheduleNext(w)
  PROVE  IInv'
<1> DEFINE me == worker[w]
           from == SearchFrom(now, me.prev)
           found == IF me.repeat.pattern THEN Larger(NextPatternMillis(from, me.repeat), from) ELSE 0
           checked == [me EXCEPT !.at = "checked", !.now = now, !.next = found]
           ends == srv.hash = NoHash \/ EndsChain(me.repeat, me.count, me.prev)
           h == IF ends THEN IdleWorker ELSE checked
<1>1. me.at = "finished" /\ worker' = [worker EXCEPT ![w] = h] /\ UNCHANGED <<now, srv, client, hist>>
  BY DEF ScheduleNext
<1>2. /\ worker \in [Worker -> Handler] /\ me \in Handler /\ hist \in History /\ srv \in Server
      /\ now \in Nat /\ (srv.next = None <=> srv.hash = NoHash) /\ HandlerOK(me)
  BY Constants DEF IInv, Typed
<1>3. me.repeat \in RepeatOptions /\ me.count \in Nat /\ me.prev \in Nat
  BY <1>2 DEF Handler
<1>4. ASSUME ~ends
      PROVE  /\ checked \in Handler /\ checked.at = "checked" /\ checked.slot = me.slot
             /\ checked.repeat = me.repeat /\ checked.count = me.count /\ checked.prev = me.prev
             /\ HandlerOK(checked)
  <2>1. /\ ~OverLimit(me.repeat, me.count) /\ found \in Nat
        /\ me.repeat.pattern /\ ~me.repeat.immediately => found > me.prev
    BY <1>2, <1>3, <1>4, CheckedIsLater
  <2> HIDE DEF found
  <2>2. /\ checked \in Handler /\ checked.at = "checked" /\ checked.slot = me.slot
        /\ checked.repeat = me.repeat /\ checked.count = me.count /\ checked.prev = me.prev
        /\ checked.next = found
    BY <1>2, <2>1 DEF Handler
  <2> HIDE DEF checked
  <2>3. me.slot # None
    BY <1>1, <1>2 DEF HandlerOK
  <2> QED BY <2>1, <2>2, <2>3 DEF HandlerOK
<1> HIDE DEF checked
<1>5. h \in Handler /\ worker'[w] = h
  BY <1>1, <1>2, <1>4, OptionsAre
<1>6. HandlerStep(w)
  <2>1. CASE ends
    BY <1>5, <2>1 DEF HandlerStep
  <2>2. CASE ~ends
    BY <1>4, <1>5, <2>2 DEF HandlerStep
  <2> QED BY <2>1, <2>2
<1>7. \A s \in Slot : JobStep(srv.jobs[s], srv'.jobs[s])
  BY <1>1 DEF JobStep
<1>8. ASSUME srv.next # None, Current, ~hist.reused, ~hist'.broken
      PROVE  LET job == srv.jobs[srv.next]
             IN  /\ job # NoJob
                 /\ Completes(me) => Completes(h) \/ EndsChain(job.repeat, job.count, job.prev)
  <2> DEFINE job == srv.jobs[srv.next]
  <2>1. Exists(srv.next) /\ Registered(job) /\ srv.next \in Slot /\ job \in Job
    BY <1>1, <1>2, <1>8 DEF Current, Alive, Server
  <2>2. job # NoJob
    BY <2>1, OptionsAre DEF Exists
  <2>3. CASE ~ends
    BY <1>4, <2>2, <2>3 DEF Completes
  <2>4. ASSUME ends, Completes(me)
        PROVE  EndsChain(job.repeat, job.count, job.prev)
    <3>1. EndsChain(me.repeat, me.count, me.prev)
      BY <1>2, <1>8, <2>4
    <3>2. Registered(me)
      BY <1>8, <2>4 DEF Current, Completes
    <3>3. job.repeat \in RepeatOptions /\ job.count \in Nat /\ job.prev \in Nat
      BY <2>1 DEF Job
    <3>4. /\ Follows(job.repeat, srv.hash.repeat) /\ Follows(me.repeat, srv.hash.repeat)
          /\ job.count = me.count /\ (me.repeat.pattern => me.prev = job.prev)
      BY <2>1, <3>2 DEF Registered, Follows
    <3> QED BY <1>3, <3>1, <3>3, <3>4, EndsChainAgrees
  <2> QED BY <2>2, <2>3, <2>4
<1> HIDE DEF h
<1> QED BY <1>1, <1>2, <1>5, <1>6, <1>7, <1>8, OneHandlerMoves-----------------------------------------------------------------------------
(* The steps that register another iteration.                               *)

(* slot becomes the registered iteration: its job gets the options r of the *)
(* hash and the count of the history.                                       *)
Registers(jobs, slot, t, r, count, prev, hash) ==
  /\ srv' = [srv EXCEPT !.next = slot, !.hash = hash,
                        !.jobs = StoreAndEnqueueJob(jobs, slot, t, r, count, prev)]
  /\ \A s \in Slot : jobs[s] = srv.jobs[s] \/ jobs[s] = NoJob
  /\ hash.ic # 0
  /\ hist' \in History /\ hist'.reused = (hist.reused \/ Reuses(jobs, slot)) /\ ~hist'.broken
  /\ ~hist'.reused => /\ hist'.made = count
                      /\ hash.repeat.pattern <=> hash.repeat.every = None
                      /\ hash.repeat.limit # None => count <= hash.repeat.limit
                      /\ Follows(r, hash.repeat) /\ (r.pattern => prev = slot)

LEMMA AnotherRegistered ==
  ASSUME IInv, UNCHANGED now, Clients', worker' \in [Worker -> Handler],
         \A w \in Worker : worker'[w] = worker[w] \/ worker'[w] = IdleWorker,
         NEW jobs \in [Slot -> Job], NEW slot \in Slot, NEW t \in Nat,
         NEW r \in RepeatOptions, NEW count \in Nat, NEW prev \in Nat,
         NEW hash \in [repeat : RepeatOptions, ic : Nat],
         Registers(jobs, slot, t, r, count, prev, hash)
  PROVE  IInv'
<1>0. /\ srv' = [srv EXCEPT !.next = slot, !.hash = hash,
                        !.jobs = StoreAndEnqueueJob(jobs, slot, t, r, count, prev)]
      /\ \A s \in Slot : jobs[s] = srv.jobs[s] \/ jobs[s] = NoJob
      /\ hash.ic # 0
      /\ hist' \in History /\ hist'.reused = (hist.reused \/ Reuses(jobs, slot)) /\ ~hist'.broken
      /\ ~hist'.reused => /\ hist'.made = count
                          /\ hash.repeat.pattern <=> hash.repeat.every = None
                          /\ hash.repeat.limit # None => count <= hash.repeat.limit
                          /\ Follows(r, hash.repeat) /\ (r.pattern => prev = slot)
  BY DEF Registers
<1> DEFINE f == StoreAndEnqueueJob(jobs, slot, t, r, count, prev)
<1>1. Typed /\ srv \in Server /\ worker \in [Worker -> Handler] /\ 0 \notin Slot /\ GoneUnlocked
  BY Constants DEF IInv, Typed
<1>2. /\ f \in [Slot -> Job] /\ \A s \in Slot : s # slot => f[s] = jobs[s]
      /\ f[slot].at \cap {"delayed", "wait"} # {} /\ ~f[slot].started /\ f[slot].repeat = r
      /\ f[slot].count = count /\ f[slot].prev = prev /\ f[slot].lock = jobs[slot].lock
      /\ jobs[slot].at = {} => f[slot].at \subseteq {"delayed", "wait"}
  <2> DEFINE a == jobs[slot]
             to == IF slot > t THEN "delayed" ELSE "wait"
             j == [at |-> a.at \union {to}, started |-> FALSE, repeat |-> r, count |-> count,
                   prev |-> prev, lock |-> a.lock]
  <2>1. a \in Job /\ to \in {"delayed", "wait"}
    OBVIOUS
  <2>2. f = [jobs EXCEPT ![slot] = j]
    BY DEF StoreAndEnqueueJob
  <2> HIDE DEF f, a, to
  <2>3. /\ j \in Job /\ j.at = a.at \union {to} /\ ~j.started /\ j.repeat = r
        /\ j.count = count /\ j.prev = prev /\ j.lock = a.lock
    BY <2>1 DEF Job, Place
  <2> HIDE DEF j
  <2>4. f \in [Slot -> Job] /\ f[slot] = j /\ \A s \in Slot : s # slot => f[s] = jobs[s]
    BY <2>2, <2>3
  <2> QED BY <2>1, <2>3, <2>4 DEF a
<1>3. srv' = [srv EXCEPT !.next = slot, !.hash = hash, !.jobs = f]
  BY <1>0
<1> HIDE DEF f
<1>4. srv' \in Server /\ srv'.next = slot /\ srv'.hash = hash /\ srv'.jobs = f
  BY <1>1, <1>2, <1>3 DEF Server
<1>5. Typed'
  BY <1>0, <1>1, <1>4, OptionsAre DEF Typed, None
<1>6. GoneUnlocked'
  <2> SUFFICES ASSUME NEW s \in Slot, f[s].at = {}
               PROVE  f[s].lock = NoOne
    BY <1>4 DEF GoneUnlocked
  <2>1. f[s] = jobs[s]
    BY <1>2
  <2> QED BY <1>0, <1>1, <2>1, OptionsAre DEF GoneUnlocked
<1>7. \A w \in Worker : HandlerOK(worker'[w])
  BY IdleOK DEF IInv
<1>8. ASSUME ~hist'.reused
      PROVE  StartedFirst' /\ Current'
  <2>1. StartedFirst /\ jobs[slot].at = {} /\ \A w \in Worker : worker[w].slot # slot
    BY <1>0, <1>8 DEF IInv, Reuses
  <2>2. f[slot].lock = NoOne /\ ~Begun(f[slot])
    <3>1. jobs[slot].lock = NoOne
      BY <1>0, <1>1, <2>1, OptionsAre DEF GoneUnlocked
    <3> QED BY <1>2, <2>1, <3>1 DEF Begun
  <2>3. ASSUME NEW s \in Slot, Begun(f[s])
        PROVE  f[s].started
    <3>1. f[s] = jobs[s] /\ ~Begun(NoJob)
      BY <1>2, <2>2, <2>3, OptionsAre DEF Begun
    <3> QED BY <1>0, <2>1, <2>3, <3>1 DEF StartedFirst
  <2>4. ASSUME NEW w \in Worker
        PROVE  worker'[w].slot # slot
    BY <1>1, <2>1, OptionsAre DEF None
  <2>5. ASSUME NEW w \in Worker, worker'[w].slot # None
        PROVE  f[worker'[w].slot].started \/ f[worker'[w].slot].at = {}
    <3>1. worker'[w] = worker[w] /\ worker[w].slot \in Slot
      BY <1>1, <2>5, OptionsAre DEF Handler
    <3>2. f[worker[w].slot] = jobs[worker[w].slot]
      BY <1>2, <2>1, <3>1
    <3> QED BY <1>0, <2>1, <2>5, <3>1, <3>2, OptionsAre DEF StartedFirst
  <2>6. StartedFirst'
    BY <1>4, <2>3, <2>5 DEF StartedFirst
  <2>7. Registered(srv.jobs[srv.next])'
    BY <1>0, <1>2, <1>4, <1>8 DEF Registered
  <2>8. Alive'
    BY <1>2, <1>4 DEF Alive, Exists
  <2>9. Current'
    BY <1>0, <1>4, <1>8, <2>4, <2>7, <2>8 DEF Current
  <2> QED BY <2>6, <2>9
<1> QED BY <1>5, <1>6, <1>7, <1>8 DEF IInv

LEMMA RegisteredHistory ==
  ASSUME hist \in History, NEW b \in BOOLEAN, NEW m \in Nat,
         hist' = [hist EXCEPT !.reused = b, !.broken = FALSE, !.made = m]
  PROVE  hist' \in History /\ hist'.reused = b /\ ~hist'.broken /\ hist'.made = m
BY DEF History

(* The slot that a handler's successor gets.                                *)
SuccessorSlot(me) ==
  LET every == IF srv.hash.repeat.every # None THEN srv.hash.repeat.every ELSE me.repeat.every
  IN  IF every # None
      THEN EveryNextMillis(srv.next, every, me.now, srv.hash.repeat.offset, srv.hash.repeat.startDate)
      ELSE me.next

(* The successor's slot is later than the registered one, and the limit     *)
(* allows for it.                                                           *)
LEMMA SuccessorIs ==
  ASSUME IInv, ~hist.reused, NEW w \in Worker, worker[w].at = "checked",
         worker[w].slot = srv.next, srv.next # None
  PROVE  /\ SuccessorSlot(worker[w]) # srv.next
         /\ Registered(worker[w]) /\ ~OverLimit(worker[w].repeat, worker[w].count)
         /\ srv.hash.repeat.pattern <=> srv.hash.repeat.every = None
         /\ worker[w].repeat.pattern => SuccessorSlot(worker[w]) = worker[w].next
<1> DEFINE me == worker[w]
           hash == srv.hash.repeat
<1>1. srv \in Server /\ me \in Handler /\ HandlerOK(me) /\ Current
  BY DEF IInv, Typed
<1>2. /\ srv.next \in Nat /\ hash \in RepeatOptions /\ me.repeat \in RepeatOptions
      /\ me.next \in Nat /\ me.now \in Nat /\ me.prev \in Nat
  BY <1>1, Constants DEF Server, Handler
<1>3. Registered(me) /\ (hash.pattern <=> hash.every = None)
  BY <1>1 DEF Current
<1>4. /\ me.repeat.pattern = hash.pattern /\ me.repeat.every = hash.every /\ ~me.repeat.immediately
      /\ me.repeat.pattern => me.prev = srv.next
  BY <1>3 DEF Registered, Follows
<1>5. ~OverLimit(me.repeat, me.count) /\ (me.repeat.pattern => me.next > me.prev)
  BY <1>1, <1>4 DEF HandlerOK
<1>6. CASE hash.every = None
  <2>1. SuccessorSlot(me) = me.next /\ me.repeat.pattern
    BY <1>3, <1>4, <1>6 DEF SuccessorSlot
  <2> QED BY <1>2, <1>3, <1>4, <1>5, <2>1
<1>7. CASE hash.every # None
  <2>1. hash.every \in Nat \ {0} /\ hash.offset \in Nat /\ hash.startDate \in Nat
    BY <1>2, <1>7 DEF RepeatOptions, None
  <2>2. SuccessorSlot(me) = EveryNextMillis(srv.next, hash.every, me.now, hash.offset, hash.startDate)
    BY <1>7 DEF SuccessorSlot
  <2>3. SuccessorSlot(me) > srv.next /\ SuccessorSlot(me) \in Nat
    <3>1. PICK p \in Nat, e \in Nat \ {0}, t \in Nat, o \in Nat, d \in Nat :
            p = srv.next /\ e = hash.every /\ t = me.now /\ o = hash.offset /\ d = hash.startDate
      BY <1>2, <2>1
    <3>2. EveryNextMillis(p, e, t, o, d) \in Nat /\ EveryNextMillis(p, e, t, o, d) > p
      BY <3>1, EveryNextIs
    <3> QED BY <2>2, <3>1, <3>2
  <2> QED BY <1>2, <1>3, <1>4, <1>5, <1>7, <2>3
<1> QED BY <1>6, <1>7

LEMMA UpdateJobSchedulerSound ==
  ASSUME IInv, NEW w \in Worker, UpdateJobScheduler(w)
  PROVE  IInv'
<1> DEFINE me == worker[w]
           next == SuccessorSlot(me)
<1>1. /\ worker \in [Worker -> Handler] /\ me \in Handler /\ hist \in History /\ srv \in Server
      /\ Clients /\ srv.next \in Slot \union {None} /\ IdleWorker \in Handler
  BY OptionsAre DEF IInv, Typed, Server
<1>2. me.at = "checked" /\ worker' = [worker EXCEPT ![w] = IdleWorker] /\ UNCHANGED <<now, client>>
  BY DEF UpdateJobScheduler
<1>3. \/ (srv.next = None \/ ~IsCurrent(me.slot)) /\ UNCHANGED <<srv, hist>>
      \/ /\ srv.next # None /\ IsCurrent(me.slot) /\ Exists(next)
         /\ hist' = [hist EXCEPT !.broken = hist.broken \/ next # srv.next] /\ UNCHANGED srv
      \/ /\ srv.next # None /\ IsCurrent(me.slot) /\ next \in Slot /\ ~Exists(next)
         /\ srv' = [srv EXCEPT
              !.next = next, !.hash.ic = srv.hash.ic + 1,
              !.jobs = StoreAndEnqueueJob(srv.jobs, next, me.now, IterationOpts(me.repeat),
                         IterationCount(me.repeat, me.count),
                         IF me.repeat.pattern THEN me.next ELSE None)]
         /\ hist' = [hist EXCEPT !.reused = hist.reused \/ Reuses(srv.jobs, next),
                                 !.broken = FALSE, !.made = hist.made + 1]
  BY DEF UpdateJobScheduler, SuccessorSlot
<1> HIDE DEF next
<1>4. HandlerStep(w) /\ \A s \in Slot : UNCHANGED srv => JobStep(srv.jobs[s], srv'.jobs[s])
  BY <1>1, <1>2 DEF HandlerStep, JobStep
<1>5. CASE (srv.next = None \/ ~IsCurrent(me.slot)) /\ UNCHANGED <<srv, hist>>
  <2>1. srv.next # None => ~Completes(me)
    BY <1>5 DEF Completes, IsCurrent
  <2>2. Current /\ srv.next # None /\ ~hist'.broken => srv'.jobs[srv.next] # NoJob
    BY <1>5, OptionsAre DEF Current, Alive, Exists
  <2> QED BY <1>1, <1>2, <1>4, <1>5, <2>1, <2>2, OneHandlerMoves
<1>6. CASE /\ srv.next # None /\ IsCurrent(me.slot) /\ Exists(next)
           /\ hist' = [hist EXCEPT !.broken = hist.broken \/ next # srv.next] /\ UNCHANGED srv
  <2>1. /\ hist' \in History /\ hist'.reused = hist.reused /\ hist'.made = hist.made
        /\ hist'.broken = (hist.broken \/ next # srv.next)
    BY <1>1, <1>6 DEF History
  <2>2. hist.broken => hist'.broken
    BY <2>1
  <2>3. ~hist.reused => hist'.broken
    BY <1>2, <1>6, <2>1, SuccessorIs DEF IsCurrent, next
  <2> QED BY <1>1, <1>2, <1>4, <1>6, <2>1, <2>2, <2>3, OneHandlerMoves
<1>7. CASE /\ srv.next # None /\ IsCurrent(me.slot) /\ next \in Slot /\ ~Exists(next)
           /\ srv' = [srv EXCEPT
                !.next = next, !.hash.ic = srv.hash.ic + 1,
                !.jobs = StoreAndEnqueueJob(srv.jobs, next, me.now, IterationOpts(me.repeat),
                           IterationCount(me.repeat, me.count),
                           IF me.repeat.pattern THEN me.next ELSE None)]
           /\ hist' = [hist EXCEPT !.reused = hist.reused \/ Reuses(srv.jobs, next),
                                   !.broken = FALSE, !.made = hist.made + 1]
  <2> DEFINE hash == [srv.hash EXCEPT !.ic = srv.hash.ic + 1]
             prev == IF me.repeat.pattern THEN me.next ELSE None
             r == IterationOpts(me.repeat)
  <2>1. /\ me.repeat \in RepeatOptions /\ me.count \in Nat /\ me.now \in Nat /\ prev \in Nat
        /\ srv.jobs \in [Slot -> Job] /\ srv.hash \in [repeat : RepeatOptions, ic : Nat]
    BY <1>1 DEF Handler, Server, None
  <2>2. PICK count \in Nat : count = IterationCount(me.repeat, me.count) /\ count = me.count + 1
    BY <2>1 DEF IterationCount
  <2>3. /\ hash \in [repeat : RepeatOptions, ic : Nat] /\ hash.ic # 0 /\ hash.repeat = srv.hash.repeat
    BY <2>1
  <2>4. r \in RepeatOptions
    BY <2>1, IterationOptsIs
  <2>5. srv' = [srv EXCEPT !.next = next, !.hash = hash,
                           !.jobs = StoreAndEnqueueJob(srv.jobs, next, me.now, r, count, prev)]
    BY <1>1, <1>7, <2>2 DEF Server
  <2>6. PICK b \in BOOLEAN : b = (hist.reused \/ Reuses(srv.jobs, next))
    OBVIOUS
  <2>7. /\ hist' \in History /\ hist'.reused = (hist.reused \/ Reuses(srv.jobs, next))
        /\ ~hist'.broken /\ hist'.made = hist.made + 1
    <3>1. hist' = [hist EXCEPT !.reused = b, !.broken = FALSE, !.made = hist.made + 1]
      BY <1>7, <2>6
    <3>2. PICK m \in Nat : m = hist.made + 1
      BY <1>1 DEF History
    <3> QED BY <1>1, <2>6, <3>1, <3>2, RegisteredHistory
  <2>8. /\ worker' \in [Worker -> Handler]
        /\ \A v \in Worker : worker'[v] = worker[v] \/ worker'[v] = IdleWorker
    BY <1>1, <1>2
  <2>9. Clients'
    BY <1>1, <1>2 DEF Clients
  <2>10. ASSUME ~hist'.reused
         PROVE  /\ hist'.made = count
                /\ hash.repeat.pattern <=> hash.repeat.every = None
                /\ hash.repeat.limit # None => count <= hash.repeat.limit
                /\ Follows(r, hash.repeat) /\ (r.pattern => prev = next)
    <3>1. /\ Registered(me) /\ ~OverLimit(me.repeat, me.count)
          /\ srv.hash.repeat.pattern <=> srv.hash.repeat.every = None
          /\ me.repeat.pattern => next = me.next
      BY <1>2, <1>7, <2>7, <2>10, SuccessorIs DEF IsCurrent, next
    <3>2. Follows(me.repeat, srv.hash.repeat) /\ me.count = hist.made
      BY <3>1 DEF Registered
    <3>3. Follows(r, hash.repeat)
      BY <2>1, <2>3, <3>2, IterationOptsIs DEF Follows
    <3>4. hash.repeat.limit # None => count <= hash.repeat.limit
      <4>1. me.repeat.limit = hash.repeat.limit /\ hash.repeat.limit \in Nat
        BY <2>3, <3>2 DEF Follows, RepeatOptions
      <4> QED BY <2>2, <3>1, <4>1 DEF OverLimit
    <3>5. r.pattern => prev = next
      BY <2>1, <3>1, IterationOptsIs
    <3> QED BY <2>2, <2>3, <2>7, <3>1, <3>2, <3>3, <3>4, <3>5
  <2>11. Registers(srv.jobs, next, me.now, r, count, prev, hash)
    BY <2>3, <2>5, <2>7, <2>10 DEF Registers
  <2> HIDE DEF hash, prev, r
  <2> QED BY <1>2, <1>7, <2>1, <2>3, <2>4, <2>8, <2>9, <2>11, AnotherRegistered
<1> QED BY <1>3, <1>5, <1>6, <1>7
(* The offset that the server finds for an upsert.                          *)
LEMMA FoundOffsetIs ==
  ASSUME NEW r \in RepeatOptions, r.every # None, NEW millis \in Nat, NEW t \in Nat
  PROVE  EveryOffset(EveryNextMillis(millis, r.every, t, r.offset, r.startDate), r.every, r.offset)
           \in Nat
<1>1. PICK e \in Nat \ {0}, o \in Nat, d \in Nat : e = r.every /\ o = r.offset /\ d = r.startDate
  BY DEF RepeatOptions, None
<1>2. EveryNextMillis(millis, e, t, o, d) \in Nat
  BY EveryNextIs
<1>3. EveryOffset(EveryNextMillis(millis, e, t, o, d), e, o) \in Nat
  BY <1>2, EveryOffsetIs
<1> QED BY <1>1, <1>3

LEMMA AddJobSchedulerSound ==
  ASSUME IInv, NEW c \in Client, AddJobScheduler(c)
  PROVE  IInv'
<1> DEFINE call == client[c]
           repeat == call.repeat
           isEvery == repeat.every # None
           prev == srv.next
           updatedEvery == isEvery /\ prev # None /\ srv.hash.repeat.every # repeat.every
           millis == IF updatedEvery THEN None ELSE prev
           computed == IF isEvery
                       THEN EveryNextMillis(millis, repeat.every, call.now, repeat.offset,
                                            repeat.startDate)
                       ELSE call.next
           removedPrev == prev # None /\ Replaceable(prev)
           jobs == IF removedPrev THEN [srv.jobs EXCEPT ![prev] = NoJob] ELSE srv.jobs
           wanted == IF removedPrev /\ isEvery /\ ~updatedEvery THEN prev ELSE computed
           collision == jobs[wanted].at # {}
           slot == IF isEvery /\ collision THEN wanted + repeat.every ELSE wanted
           offset == IF ~removedPrev /\ isEvery
                     THEN EveryOffset(computed, repeat.every, repeat.offset)
                     ELSE IF ~removedPrev \/ repeat.offset # 0 THEN repeat.offset
                     ELSE srv.hash.repeat.offset
           hash == [repeat |-> [repeat EXCEPT !.offset = offset],
                    ic |-> IF srv.hash = NoHash THEN 1 ELSE srv.hash.ic]
           at == IF isEvery THEN None ELSE call.next
           r == IterationOpts(repeat)
<1>1. /\ client \in [Client -> Call] /\ call \in Call /\ worker \in [Worker -> Handler]
      /\ hist \in History /\ srv \in Server /\ now \in Times /\ now \in Nat
      /\ call.at = "called" => ~BadOptions(repeat)
      /\ srv.next = None <=> srv.hash = NoHash
      /\ srv.next # None => srv.hash.ic # 0
  BY Constants DEF IInv, Typed, Clients
<1>2. /\ call.at = "called" /\ slot \in Slot /\ client' = [client EXCEPT ![c] = IdleClient]
      /\ UNCHANGED <<now, worker>>
      /\ \/ /\ isEvery /\ collision /\ jobs[slot].at # {}
            /\ srv' = [srv EXCEPT !.jobs = jobs]
            /\ hist' = [hist EXCEPT !.broken = hist.broken \/ removedPrev]
         \/ UNCHANGED <<srv, hist>>
         \/ /\ srv' = [srv EXCEPT !.next = slot, !.hash = hash,
                                  !.jobs = StoreAndEnqueueJob(jobs, slot, call.now, r, 1, at)]
            /\ hist' = [hist EXCEPT !.reused = hist.reused \/ Reuses(jobs, slot),
                                    !.broken = FALSE, !.made = 1]
  BY DEF AddJobScheduler
<1>3. ~isEvery => slot = call.next
  OBVIOUS
<1>4. /\ repeat \in RepeatOptions /\ call.next \in Nat /\ call.now \in Nat /\ millis \in Nat
      /\ srv.hash.repeat \in RepeatOptions /\ srv.hash.ic \in Nat /\ srv.jobs \in [Slot -> Job]
      /\ prev \in Slot \union {None}
  <2>1. repeat \in RepeatOptions /\ call.next \in Nat /\ call.now \in Nat
    BY <1>1 DEF Call
  <2>2. /\ srv.hash.repeat \in RepeatOptions /\ srv.hash.ic \in Nat /\ srv.jobs \in [Slot -> Job]
        /\ srv.next \in Slot \union {None}
    BY <1>1 DEF Server
  <2>3. None \in Nat /\ Slot \subseteq Nat
    BY Constants DEF None
  <2> QED BY <2>1, <2>2, <2>3
<1>5. offset \in Nat
  <2>1. isEvery => EveryOffset(computed, repeat.every, repeat.offset) \in Nat
    <3> SUFFICES ASSUME isEvery
                 PROVE  EveryOffset(computed, repeat.every, repeat.offset) \in Nat
      OBVIOUS
    <3>1. computed = EveryNextMillis(millis, repeat.every, call.now, repeat.offset, repeat.startDate)
      OBVIOUS
    <3> HIDE DEF millis, computed
    <3> QED BY <1>4, <3>1, FoundOffsetIs
  <2>2. repeat.offset \in Nat /\ srv.hash.repeat.offset \in Nat
    BY <1>4 DEF RepeatOptions
  <2> QED BY <2>1, <2>2
<1>6. /\ jobs \in [Slot -> Job] /\ \A s \in Slot : jobs[s] = srv.jobs[s] \/ jobs[s] = NoJob
      /\ ~removedPrev => jobs = srv.jobs
  BY <1>4, OptionsAre
<1>7. Clients'
  <2>1. client' \in [Client -> Call] /\ \A d \in Client : client'[d] = client[d] \/ client'[d] = IdleClient
    BY <1>1, <1>2, OptionsAre
  <2> QED BY <1>1, <2>1, OptionsAre DEF IInv, Typed, Clients
<1> HIDE DEF jobs, removedPrev, slot, offset, updatedEvery, millis, computed, wanted, collision
<1>8. CASE /\ srv' = [srv EXCEPT !.jobs = jobs]
           /\ hist' = [hist EXCEPT !.broken = hist.broken \/ removedPrev]
  <2>1. srv' \in Server /\ srv'.next = srv.next /\ srv'.hash = srv.hash /\ srv'.jobs = jobs
    BY <1>1, <1>6, <1>8 DEF Server
  <2>2. PICK b \in BOOLEAN : b = (hist.broken \/ removedPrev)
    OBVIOUS
  <2>3. hist' = [hist EXCEPT !.broken = b]
    BY <1>8, <2>2
  <2>4. /\ hist' \in History /\ hist'.reused = hist.reused /\ hist'.made = hist.made
        /\ hist'.broken = b
    BY <1>1, <2>3 DEF History
  <2>5. \A s \in Slot : JobStep(srv.jobs[s], srv'.jobs[s])
    BY <1>6, <2>1 DEF JobStep
  <2>6. \A w \in Worker : HandlerStep(w)
    BY <1>2 DEF HandlerStep
  <2>7. (srv.next # None /\ Current /\ ~hist.reused /\ ~hist'.broken) => KeepsAlive
    <3>1. ~hist'.broken => srv'.jobs = srv.jobs /\ ~hist.broken
      BY <1>6, <2>1, <2>2, <2>4
    <3> QED BY <1>2, <2>1, <3>1, OptionsAre DEF Current, Alive, KeepsAlive, Exists, Completes
  <2>8. hist.broken => hist'.broken
    BY <2>2, <2>4
  <2> QED BY <1>1, <1>2, <1>7, <2>1, <2>4, <2>5, <2>6, <2>7, <2>8, Calm
<1>9. CASE UNCHANGED <<srv, hist>>
  BY <1>1, <1>2, <1>7, <1>9, NothingMoves
<1>10. CASE /\ srv' = [srv EXCEPT !.next = slot, !.hash = hash,
                                  !.jobs = StoreAndEnqueueJob(jobs, slot, call.now, r, 1, at)]
            /\ hist' = [hist EXCEPT !.reused = hist.reused \/ Reuses(jobs, slot),
                                    !.broken = FALSE, !.made = 1]
  <2>1. PICK b \in BOOLEAN : b = (hist.reused \/ Reuses(jobs, slot))
    OBVIOUS
  <2>2. /\ hist' \in History /\ hist'.reused = (hist.reused \/ Reuses(jobs, slot))
        /\ ~hist'.broken /\ hist'.made = 1
    BY <1>1, <1>10, <2>1, RegisteredHistory
  <2>3. /\ hash \in [repeat : RepeatOptions, ic : Nat] /\ hash.ic # 0
        /\ hash.repeat = [repeat EXCEPT !.offset = offset]
    <3>1. [repeat EXCEPT !.offset = offset] \in RepeatOptions
      BY <1>4, <1>5 DEF RepeatOptions
    <3>2. srv.hash # NoHash => srv.hash.ic # 0
      BY <1>1
    <3> QED BY <1>4, <3>1, <3>2
  <2>4. r \in RepeatOptions /\ at \in Nat
    BY <1>4, IterationOptsIs DEF None
  <2>5. /\ hash.repeat.pattern = repeat.pattern /\ hash.repeat.every = repeat.every
        /\ hash.repeat.limit = repeat.limit /\ hash.repeat.startDate = repeat.startDate
        /\ hash.repeat.endDate = repeat.endDate
    BY <1>4, <2>3 DEF RepeatOptions
  <2>6. repeat.pattern <=> ~isEvery
    BY <1>1, <1>2 DEF BadOptions
  <2>7. Follows(r, hash.repeat) /\ (r.pattern => at = slot)
    BY <1>3, <1>4, <2>5, <2>6, IterationOptsIs DEF Follows
  <2>8. /\ hash.repeat.pattern <=> hash.repeat.every = None
        /\ hash.repeat.limit # None => 1 <= hash.repeat.limit
    <3>1. repeat.limit \in Nat
      BY <1>4 DEF RepeatOptions
    <3> QED BY <2>5, <2>6, <3>1 DEF None
  <2> HIDE DEF hash, r, at
  <2>9. Registers(jobs, slot, call.now, r, 1, at, hash)
    BY <1>6, <1>10, <2>2, <2>3, <2>7, <2>8 DEF Registers
  <2> QED BY <1>1, <1>2, <1>4, <1>6, <1>7, <2>3, <2>4, <2>9, AnotherRegistered
<1> QED BY <1>2, <1>8, <1>9, <1>10

LEMMA RemoveJobSchedulerSound ==
  ASSUME IInv, RemoveJobScheduler
  PROVE  IInv'
<1> DEFINE a == srv.jobs[srv.next]
           j == IF "delayed" \in a.at THEN NoJob ELSE a
           f == [srv.jobs EXCEPT ![srv.next] = j]
<1>1. /\ worker \in [Worker -> Handler] /\ hist \in History /\ srv \in Server /\ GoneUnlocked
      /\ srv.next \in Slot \union {None} /\ Clients /\ now \in Times
  BY DEF IInv, Typed, Server
<1>2. /\ srv.next # None /\ srv' = [srv EXCEPT !.next = None, !.hash = NoHash, !.jobs = f]
      /\ hist' = [hist EXCEPT !.broken = FALSE, !.made = 0] /\ UNCHANGED <<now, client, worker>>
  BY <1>1 DEF RemoveJobScheduler, DeletedHash, Server
<1>3. f \in [Slot -> Job] /\ \A s \in Slot : f[s] = srv.jobs[s] \/ f[s] = NoJob
  BY <1>1, <1>2, OptionsAre DEF Server
<1> HIDE DEF f
<1>4. srv' \in Server /\ srv'.next = None /\ srv'.hash = NoHash /\ srv'.jobs = f
  BY <1>1, <1>2, <1>3, OptionsAre DEF Server
<1>5. hist' \in History /\ hist'.reused = hist.reused
  BY <1>1, <1>2 DEF History
<1>6. Typed'
  BY <1>1, <1>2, <1>4, <1>5 DEF Typed, Clients
<1>7. GoneUnlocked' /\ \A w \in Worker : HandlerOK(worker'[w])
  BY <1>1, <1>2, <1>3, <1>4, OptionsAre DEF GoneUnlocked, IInv
<1>8. ~hist'.reused => StartedFirst'
  <2> SUFFICES ASSUME ~hist.reused
               PROVE  StartedFirst'
    BY <1>5
  <2>1. StartedFirst
    BY DEF IInv
  <2>2. ASSUME NEW s \in Slot, Begun(f[s])
        PROVE  f[s].started
    <3>1. ~Begun(NoJob)
      BY OptionsAre DEF Begun
    <3> QED BY <1>3, <2>1, <2>2, <3>1 DEF StartedFirst
  <2>3. ASSUME NEW w \in Worker, worker[w].slot # None
        PROVE  f[worker[w].slot].started \/ f[worker[w].slot].at = {}
    <3>1. worker[w].slot \in Slot
      BY <1>1, <2>3 DEF Handler
    <3> QED BY <1>3, <2>1, <2>3, <3>1, OptionsAre DEF StartedFirst
  <2> QED BY <1>2, <1>4, <2>2, <2>3 DEF StartedFirst
<1>9. Current'
  BY <1>4 DEF Current
<1> QED BY <1>6, <1>7, <1>8, <1>9 DEF IInv-----------------------------------------------------------------------------
(* Every state of every behaviour.                                          *)

LEMMA InitIInv ==
  ASSUME Init
  PROVE  IInv
<1>1. now \in Times
  <2>1. Times \in SUBSET Nat /\ Times # {}
    BY Constants
  <2> QED BY <2>1, MinIs DEF Init
<1>2. /\ srv.next = None /\ srv.hash = NoHash /\ srv.jobs = [s \in Slot |-> NoJob]
      /\ client = [c \in Client |-> IdleClient] /\ worker = [w \in Worker |-> IdleWorker]
  BY DEF Init
<1>3. srv \in Server
  BY OptionsAre DEF Init, Server
<1>4. hist \in History
  BY Constants DEF Init, History
<1>5. Typed
  BY <1>1, <1>2, <1>3, <1>4, OptionsAre DEF Typed, Clients
<1>6. GoneUnlocked /\ StartedFirst
  BY <1>2, OptionsAre DEF GoneUnlocked, StartedFirst, Begun
<1>7. \A w \in Worker : HandlerOK(worker[w])
  BY <1>2, IdleOK
<1>8. Current
  BY <1>2 DEF Current
<1> QED BY <1>5, <1>6, <1>7, <1>8 DEF IInv

LEMMA NextIInv ==
  ASSUME IInv, [Next]_vars
  PROVE  IInv'
<1>1. ASSUME NEW c \in Client, \/ \E r \in RepeatChoices : UpsertJobScheduler(c, r)
                              \/ AddJobScheduler(c)
                              \/ UpsertLost(c)
      PROVE  IInv'
  BY <1>1, ClientsSound, AddJobSchedulerSound
<1>2. CASE RemoveJobScheduler
  BY <1>2, RemoveJobSchedulerSound
<1>3. ASSUME NEW w \in Worker, \/ \E s \in Slot : StartJob(w, s)
                              \/ \E to \in {"completed", "failed"} : FinishJob(w, to)
                              \/ FailForNow(w)
                              \/ ScheduleNext(w)
                              \/ UpdateJobScheduler(w)
                              \/ WorkerStops(w)
      PROVE  IInv'
  BY <1>3, StartJobSound, FinishJobSound, FailForNowSound, ScheduleNextSound,
     UpdateJobSchedulerSound, WorkerStopsSound
<1>4. ASSUME NEW s \in Slot, \/ Promote(s)
                            \/ \E to \in {"wait", "lost"} : Stalled(s, to)
                            \/ \E from \in {"completed", "failed"} : RetryJob(s, from)
                            \/ RemoveJob(s)
                            \/ Drain(s)
      PROVE  IInv'
  BY <1>4, JobsSound
<1>5. CASE Tick
  BY <1>5, ClientsSound
<1>6. CASE UNCHANGED vars
  <2>1. now \in Times /\ now \in Nat /\ Clients
    BY Constants DEF IInv, Typed
  <2>2. Clients' /\ now' \in Times /\ now <= now'
    BY <1>6, <2>1 DEF vars, Clients
  <2> QED BY <1>6, <2>2, NothingMoves DEF vars
<1> QED BY <1>1, <1>2, <1>3, <1>4, <1>5, <1>6 DEF Next

LEMMA SpecIInv == Spec => []IInv
<1>1. Init => IInv
  BY InitIInv
<1>2. IInv /\ [Next]_vars => IInv'
  BY NextIInv
<1> QED BY <1>1, <1>2, PTL DEF Spec

(* Every variable has its type, whatever clients, workers and the clock do: *)
(* a scheduler is registered exactly if it has its hash                     *)
(* (addJobScheduler and updateJobScheduler write both, ZREM and DEL of      *)
(* removeJobScheduler delete both).                                         *)
THEOREM SchedulerTypeCorrect == Spec => []TypeOK
<1>1. IInv => TypeOK
  BY DEF IInv, Typed, TypeOK, Server, Clients, Call, Handler, History
<1> QED BY <1>1, SpecIInv, PTL

(* A registered scheduler is alive until a worker lost between its two      *)
(* scripts, a stalled, drained or reused iteration or a busy slot breaks    *)
(* the chain, or limit, end date or pattern end it: no other interleaving   *)
(* of upserts, removals, late finishes and retries of updateJobScheduler    *)
(* loses the successor.                                                     *)
THEOREM ChainAliveHolds == Spec => []ChainAlive
<1>1. IInv => ChainAlive
  BY DEF IInv, ChainAlive, Current, Alive
<1> QED BY <1>1, SpecIInv, PTL

(* No more iterations than limit are made from one upsert: the count that   *)
(* schedule_next_repeatable_job checks is the number made so far, because   *)
(* only the registered iteration has a successor.                           *)
THEOREM LimitKeptHolds == Spec => []LimitKept
<1>1. IInv => LimitKept
  BY DEF IInv, LimitKept, Current
<1> QED BY <1>1, SpecIInv, PTL

(* The registered iteration has the options of the latest upsert, whichever *)
(* worker finishes an iteration of an earlier one.                          *)
THEOREM LatestOptionsHolds == Spec => []LatestOptions
<1>1. ASSUME NEW a \in RepeatOptions, NEW h \in RepeatOptions, Follows(a, h)
      PROVE  a = [IterationOpts(h) EXCEPT !.offset = a.offset]
  <2> DEFINE b == IterationOpts(h)
  <2>1. /\ b \in RepeatOptions /\ b.pattern = a.pattern /\ b.every = a.every
        /\ b.startDate = a.startDate /\ b.endDate = a.endDate /\ b.limit = a.limit
        /\ ~b.immediately /\ ~a.immediately
    BY <1>1, IterationOptsIs DEF Follows
  <2> HIDE DEF b
  <2>2. b.immediately = a.immediately
    BY <2>1 DEF RepeatOptions
  <2>3. a = [b EXCEPT !.offset = a.offset]
    BY <2>1, <2>2 DEF RepeatOptions
  <2> QED BY <2>3 DEF b
<1>2. ASSUME IInv, ~hist.reused, srv.next # None, Exists(srv.next)
      PROVE  /\ srv.jobs[srv.next].repeat \in RepeatOptions /\ srv.hash.repeat \in RepeatOptions
             /\ Follows(srv.jobs[srv.next].repeat, srv.hash.repeat)
  <2>1. srv \in Server /\ Registered(srv.jobs[srv.next])
    BY <1>2 DEF IInv, Typed, Current
  <2>2. srv.jobs[srv.next] \in Job /\ srv.hash.repeat \in RepeatOptions
    BY <1>2, <2>1 DEF Server
  <2> QED BY <2>1, <2>2 DEF Registered, Job
<1>3. IInv => LatestOptions
  BY <1>1, <1>2 DEF LatestOptions
<1> QED BY <1>3, SpecIInv, PTL
(* What NoOrphan says of a step.                                            *)
LeavesNoOrphan ==
  (srv.next # None /\ srv'.next \notin {None, srv.next} /\ ~hist'.reused) =>
    \/ srv'.jobs[srv.next].started
    \/ srv'.jobs[srv.next].at = {}

(* An iteration that is neither delayed nor waits has been started, or is   *)
(* gone.                                                                    *)
LEMMA NotReplaceable ==
  ASSUME Typed, StartedFirst, srv.next # None, ~Replaceable(srv.next)
  PROVE  srv.jobs[srv.next].started \/ srv.jobs[srv.next].at = {}
<1>1. srv.next \in Slot /\ srv.jobs[srv.next] \in Job
  BY DEF Typed, Server
<1>2. srv.jobs[srv.next].at \subseteq {"active", "completed", "failed", "lost"}
  BY <1>1 DEF Replaceable, Job, Place
<1>3. srv.jobs[srv.next].at # {} => Begun(srv.jobs[srv.next])
  BY <1>2 DEF Begun
<1> QED BY <1>1, <1>3 DEF StartedFirst

LEMMA UpsertLeavesNoOrphan ==
  ASSUME IInv, NEW c \in Client, AddJobScheduler(c)
  PROVE  LeavesNoOrphan
<1> DEFINE prev == srv.next
           removedPrev == prev # None /\ Replaceable(prev)
           jobs == IF removedPrev THEN [srv.jobs EXCEPT ![prev] = NoJob] ELSE srv.jobs
<1> SUFFICES ASSUME srv.next # None, srv'.next \notin {None, srv.next}, ~hist'.reused
             PROVE  srv'.jobs[prev].started \/ srv'.jobs[prev].at = {}
  BY DEF LeavesNoOrphan
<1>1. srv \in Server /\ hist \in History /\ prev \in Slot /\ Typed
  BY DEF IInv, Typed, Server
<1> DEFINE call == client[c]
           repeat == call.repeat
           isEvery == repeat.every # None
           updatedEvery == isEvery /\ prev # None /\ srv.hash.repeat.every # repeat.every
           millis == IF updatedEvery THEN None ELSE prev
           computed == IF isEvery
                       THEN EveryNextMillis(millis, repeat.every, call.now, repeat.offset,
                                            repeat.startDate)
                       ELSE call.next
           wanted == IF removedPrev /\ isEvery /\ ~updatedEvery THEN prev ELSE computed
           collision == jobs[wanted].at # {}
           slot == IF isEvery /\ collision THEN wanted + repeat.every ELSE wanted
           offset == IF ~removedPrev /\ isEvery
                     THEN EveryOffset(computed, repeat.every, repeat.offset)
                     ELSE IF ~removedPrev \/ repeat.offset # 0 THEN repeat.offset
                     ELSE srv.hash.repeat.offset
           hash == [repeat |-> [repeat EXCEPT !.offset = offset],
                    ic |-> IF srv.hash = NoHash THEN 1 ELSE srv.hash.ic]
           f == StoreAndEnqueueJob(jobs, slot, call.now, IterationOpts(repeat), 1,
                                   IF isEvery THEN None ELSE call.next)
           Moves == /\ srv' = [srv EXCEPT !.next = slot, !.hash = hash, !.jobs = f]
                    /\ hist' = [hist EXCEPT !.reused = hist.reused \/ Reuses(jobs, slot),
                                            !.broken = FALSE, !.made = 1]
<1>2. Moves
  <2>1. srv' = [srv EXCEPT !.jobs = jobs] \/ srv' = srv \/ Moves
    BY DEF AddJobScheduler
  <2> HIDE DEF Moves, jobs
  <2>2. srv' # srv /\ srv' # [srv EXCEPT !.jobs = jobs]
    BY <1>1 DEF Server
  <2> QED BY <2>1, <2>2
<1> HIDE DEF slot, hash, jobs
<1>3. srv'.next = slot /\ srv'.jobs = f
  BY <1>1, <1>2 DEF Server
<1>4. jobs \in [Slot -> Job]
  BY <1>1, OptionsAre DEF Server, jobs
<1>5. srv'.jobs[prev] = jobs[prev]
  BY <1>1, <1>3, <1>4 DEF StoreAndEnqueueJob
<1>6. StartedFirst
  <2>1. ~hist.reused
    BY <1>1, <1>2 DEF History
  <2> QED BY <2>1 DEF IInv
<1>7. CASE removedPrev
  BY <1>1, <1>5, <1>7, OptionsAre DEF Server, jobs
<1>8. CASE ~removedPrev
  BY <1>1, <1>5, <1>6, <1>8, NotReplaceable DEF jobs
<1> QED BY <1>7, <1>8

LEMMA SuccessorLeavesNoOrphan ==
  ASSUME IInv, NEW w \in Worker, UpdateJobScheduler(w)
  PROVE  LeavesNoOrphan
<1> DEFINE prev == srv.next
<1> SUFFICES ASSUME srv.next # None, srv'.next \notin {None, srv.next}, ~hist'.reused
             PROVE  srv'.jobs[prev].started \/ srv'.jobs[prev].at = {}
  BY DEF LeavesNoOrphan
<1>1. srv \in Server /\ hist \in History /\ prev \in Slot
  BY DEF IInv, Typed, Server
<1> DEFINE me == worker[w]
           slot == SuccessorSlot(me)
           f == StoreAndEnqueueJob(srv.jobs, slot, me.now, IterationOpts(me.repeat),
                  IterationCount(me.repeat, me.count), IF me.repeat.pattern THEN me.next ELSE None)
           Moves == /\ me.slot = srv.next
                    /\ srv' = [srv EXCEPT !.next = slot, !.hash.ic = srv.hash.ic + 1, !.jobs = f]
                    /\ hist' = [hist EXCEPT !.reused = hist.reused \/ Reuses(srv.jobs, slot),
                                            !.broken = FALSE, !.made = hist.made + 1]
<1>2. Moves
  <2>1. UNCHANGED srv \/ Moves
    BY DEF UpdateJobScheduler, SuccessorSlot, IsCurrent
  <2> QED BY <2>1
<1>3. srv'.next = slot /\ srv'.jobs = f
  BY <1>1, <1>2 DEF Server
<1>4. srv'.jobs[prev] = srv.jobs[prev]
  BY <1>1, <1>3 DEF Server, StoreAndEnqueueJob
<1>5. ~hist.reused
  BY <1>1, <1>2 DEF History
<1> QED BY <1>1, <1>2, <1>4, <1>5 DEF IInv, StartedFirst

(* When the registration moves on, by an upsert or by a successor, the      *)
(* iteration that it leaves has been started or is gone: the only one that  *)
(* addJobScheduler does not remove and the only one that                    *)
(* updateJobScheduler takes for the producer.                               *)
THEOREM NoOrphanHolds == Spec => NoOrphan
<1>1. ASSUME IInv, [Next]_vars
      PROVE  [LeavesNoOrphan]_vars
  <2>1. ASSUME NEW c \in Client, AddJobScheduler(c)
        PROVE  LeavesNoOrphan
    BY <1>1, <2>1, UpsertLeavesNoOrphan
  <2>2. ASSUME NEW w \in Worker, UpdateJobScheduler(w)
        PROVE  LeavesNoOrphan
    BY <1>1, <2>2, SuccessorLeavesNoOrphan
  <2>3. srv'.next \in {None, srv.next} => LeavesNoOrphan
    BY DEF LeavesNoOrphan
  <2>4. srv \in Server
    BY <1>1 DEF IInv, Typed
  <2>5. ASSUME NEW c \in Client, (\E r \in RepeatChoices : UpsertJobScheduler(c, r)) \/ UpsertLost(c)
        PROVE  srv' = srv
    BY <2>5 DEF UpsertJobScheduler, UpsertLost
  <2>6. CASE RemoveJobScheduler
    BY <2>3, <2>4, <2>6 DEF RemoveJobScheduler, Server
  <2>7. ASSUME NEW w \in Worker, \/ \E s \in Slot : StartJob(w, s)
                                \/ \E to \in {"completed", "failed"} : FinishJob(w, to)
                                \/ FailForNow(w)
                                \/ ScheduleNext(w)
                                \/ WorkerStops(w)
        PROVE  srv'.next = srv.next
    BY <2>4, <2>7 DEF StartJob, FinishJob, FailForNow, ScheduleNext, WorkerStops, Released, Server
  <2>8. ASSUME NEW s \in Slot, \/ Promote(s)
                              \/ \E to \in {"wait", "lost"} : Stalled(s, to)
                              \/ \E from \in {"completed", "failed"} : RetryJob(s, from)
                              \/ RemoveJob(s)
                              \/ Drain(s)
        PROVE  srv'.next = srv.next
    BY <2>4, <2>8 DEF Promote, Stalled, RetryJob, RemoveJob, Drain, Server
  <2>9. CASE Tick \/ UNCHANGED vars
    BY <2>3, <2>9 DEF Tick, vars
  <2>10. CASE Next
    BY <2>1, <2>2, <2>3, <2>5, <2>6, <2>7, <2>8, <2>9, <2>10 DEF Next
  <2> QED BY <1>1, <2>10
<1>2. [LeavesNoOrphan]_vars => [(srv.next # None /\ srv'.next \notin {None, srv.next} /\ ~hist'.reused) =>
        \/ srv'.jobs[srv.next].started
        \/ srv'.jobs[srv.next].at = {}]_vars
  BY DEF LeavesNoOrphan
<1> QED BY <1>1, <1>2, SpecIInv, PTL DEF Spec, NoOrphan
=============================================================================
