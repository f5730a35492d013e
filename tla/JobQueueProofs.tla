--------------------------- MODULE JobQueueProofs ---------------------------
(***************************************************************************)
(* What holds of a queue for any number of jobs and workers and whichever   *)
(* optional events its surroundings have (Env): the keys keep their types,  *)
(* no job is lost before it has used up its stalls, the paused list is      *)
(* empty unless the queue is paused, and waiting jobs are signalled.        *)
(*                                                                          *)
(* Each is a fact about the server's record.  The lemmas follow the record  *)
(* through the operators of which the scripts are composed; between two of  *)
(* them a job may be in no list, hence the set J of Kept.                   *)
(***************************************************************************)
EXTENDS JobQueue, SequenceTheorems, FiniteSetTheorems, TLAPS

(* Some list or set has the job.                                            *)
Somewhere(s, j) ==
  \/ j \in ToSet(s.wait) \/ j \in ToSet(s.paused) \/ s.active[j] > 0
  \/ j \in s.prioritized \/ j \in s.delayed \/ j \in s.completed \/ j \in s.failed

(* No job is lost, those of J left aside.                                   *)
Kept(s, J) ==
  \A j \in Job \ J :
    s.hash[j] # "none" /\ s.stc[j] <= MaxStalledCount => Somewhere(s, j)

(* The paused list is used by a paused queue only.                          *)
Drained(s) == ~s.isPaused => s.paused = <<>>

(* Workers have been told of the plain jobs that wait.                      *)
Sent(s) == ~s.isPaused /\ s.wait # <<>> => "0" \in s.marker

(* What every step keeps, and what a script has kept so far while the jobs  *)
(* of J are on their way and the marker is yet to be set.                   *)
OnTheWay(s, J) == s \in Server /\ Kept(s, J) /\ Drained(s)

(* What a script starts from and ends in.                                   *)
Steady(s) == OnTheWay(s, {}) /\ Sent(s)

-----------------------------------------------------------------------------
(* Sequences.                                                               *)

(* An order of a set of jobs is a list of exactly these jobs.               *)
LEMMA OrdersType ==
  ASSUME NEW S \in SUBSET Job, NEW order \in Orders(S)
  PROVE  order \in Seq(Job) /\ ToSet(order) = S
<1>1. Cardinality(S) \in Nat
  BY FS_Subset, FS_CardinalityType, ParametersAssumption
<1>2. order \in [1..Cardinality(S) -> S]
  BY DEF Orders, Bijection, Injection
<1>3. ToSet(order) = S
  BY <1>2 DEF Orders, Bijection, Surjection, ToSet
<1>4. order \in Seq(Job)
  BY <1>1, <1>2, SeqDef
<1> QED BY <1>3, <1>4

(* Joining two lists loses and invents no job.                              *)
LEMMA ToSetConcat ==
  ASSUME NEW s \in Seq(Job), NEW t \in Seq(Job)
  PROVE  s \o t \in Seq(Job) /\ ToSet(s \o t) = ToSet(s) \union ToSet(t)
<1>1. /\ s \o t \in Seq(Job)
      /\ Len(s \o t) = Len(s) + Len(t)
      /\ \A i \in 1..Len(s) + Len(t) :
           (s \o t)[i] = IF i <= Len(s) THEN s[i] ELSE t[i - Len(s)]
  BY ConcatProperties
<1>2. \A i \in 1..Len(s) : s[i] = (s \o t)[i] /\ i \in 1..Len(s \o t)
  BY <1>1
<1>3. \A i \in 1..Len(t) : t[i] = (s \o t)[i + Len(s)] /\ i + Len(s) \in 1..Len(s \o t)
  BY <1>1
<1>4. \A i \in 1..Len(s \o t) :
        \/ i \in 1..Len(s) /\ (s \o t)[i] = s[i]
        \/ i - Len(s) \in 1..Len(t) /\ (s \o t)[i] = t[i - Len(s)]
  BY <1>1
<1>5. /\ DOMAIN s = 1..Len(s) /\ DOMAIN t = 1..Len(t)
      /\ DOMAIN (s \o t) = 1..Len(s \o t)
  BY <1>1
<1>6. ToSet(s) \union ToSet(t) \subseteq ToSet(s \o t)
  BY <1>2, <1>3, <1>5 DEF ToSet
<1>7. ToSet(s \o t) \subseteq ToSet(s) \union ToSet(t)
  BY <1>4, <1>5 DEF ToSet
<1> QED BY <1>1, <1>6, <1>7

(* The list of one job.                                                     *)
LEMMA ToSetOne ==
  ASSUME NEW j \in Job
  PROVE  <<j>> \in Seq(Job) /\ ToSet(<<j>>) = {j}
  BY DEF ToSet

(* RPUSH.                                                                   *)
LEMMA ToSetAppend ==
  ASSUME NEW s \in Seq(Job), NEW j \in Job
  PROVE  Append(s, j) \in Seq(Job) /\ ToSet(Append(s, j)) = ToSet(s) \union {j}
<1>1. Append(s, j) = s \o <<j>>
  BY AppendIsConcat
<1>2. <<j>> \in Seq(Job) /\ ToSet(<<j>>) = {j}
  BY ToSetOne
<1> QED BY <1>1, <1>2, ToSetConcat

(* RPOPLPUSH: nothing but the last element leaves a list.                   *)
LEMMA ToSetFront ==
  ASSUME NEW s \in Seq(Job), s # <<>>
  PROVE  /\ Front(s) \in Seq(Job) /\ Last(s) \in Job
         /\ ToSet(s) = ToSet(Front(s)) \union {Last(s)}
<1>1. Len(s) \in Nat /\ Len(s) >= 1
  BY EmptySeq
<1>2. /\ Front(s) \in Seq(Job) /\ Len(Front(s)) = Len(s) - 1
      /\ \A i \in 1..Len(s) - 1 : Front(s)[i] = s[i]
  <2>1. PICK n \in Nat : Len(s) = n + 1
    BY <1>1
  <2>2. Front(s) = SubSeq(s, 1, n) /\ Len(s) - 1 = n
    BY <2>1 DEF Front
  <2>3. \A i \in 1..n : s[i] \in Job
    BY <2>1
  <2>4. /\ SubSeq(s, 1, n) \in Seq(Job)
        /\ Len(SubSeq(s, 1, n)) = n
        /\ \A i \in 1..n : SubSeq(s, 1, n)[i] = s[i]
    BY <2>1, <2>3
  <2> QED BY <2>2, <2>4
<1>3. DOMAIN s = 1..Len(s) /\ DOMAIN Front(s) = 1..Len(s) - 1
  BY <1>1, <1>2
<1>4. Last(s) = s[Len(s)] /\ Last(s) \in Job
  BY <1>1 DEF Last
<1>5. \A i \in 1..Len(s) : i \in 1..Len(s) - 1 \/ i = Len(s)
  BY <1>1
<1>6. 1..Len(s) - 1 \subseteq 1..Len(s) /\ Len(s) \in 1..Len(s)
  BY <1>1
<1> QED BY <1>2, <1>3, <1>4, <1>5, <1>6 DEF ToSet

(* LREM 1: of a list that has the job nothing else is lost.                 *)
LEMMA LRemFirstType ==
  ASSUME NEW s \in Seq(Job), NEW j \in Job, NEW rest \in LRemFirst(s, j)
  PROVE  rest \in Seq(Job) /\ ToSet(s) \ {j} \subseteq ToSet(rest)
<1>1. PICK i \in DOMAIN s : s[i] = j /\ rest = RemoveAt(s, i)
  BY DEF LRemFirst
<1>2. i \in 1..Len(s) /\ Len(s) \in Nat /\ DOMAIN s = 1..Len(s)
  BY <1>1
<1> DEFINE a == SubSeq(s, 1, i - 1)
           b == SubSeq(s, i + 1, Len(s))
<1>3. a \in Seq(Job) /\ Len(a) = i - 1 /\ \A k \in 1..i - 1 : a[k] = s[k]
  BY <1>2
<1>4. /\ b \in Seq(Job) /\ Len(b) = Len(s) - i
      /\ \A k \in 1..Len(s) - i : b[k] = s[k + i]
  BY <1>2
<1>5. rest \in Seq(Job) /\ ToSet(rest) = ToSet(a) \union ToSet(b)
  BY <1>1, <1>3, <1>4, ToSetConcat DEF RemoveAt
<1>6. \A k \in 1..Len(s) : k = i \/ k \in 1..i - 1 \/ (k - i \in 1..Len(s) - i /\ b[k - i] = s[k])
  <2> SUFFICES ASSUME NEW k \in 1..Len(s), k # i, k \notin 1..i - 1
               PROVE  k - i \in 1..Len(s) - i /\ b[k - i] = s[k]
    OBVIOUS
  <2>1. k - i \in 1..Len(s) - i /\ (k - i) + i = k
    BY <1>2
  <2> HIDE DEF b
  <2> QED BY <1>4, <2>1
<1>7. DOMAIN a = 1..i - 1 /\ DOMAIN b = 1..Len(s) - i
  BY <1>2, <1>3, <1>4
<1>8. \A k \in 1..Len(s) : s[k] = j \/ s[k] \in ToSet(a) \/ s[k] \in ToSet(b)
  BY <1>1, <1>3, <1>6, <1>7 DEF ToSet
<1> QED BY <1>2, <1>5, <1>8 DEF ToSet

(* LREM 0: exactly the job is lost.                                         *)
LEMMA LRemAllType ==
  ASSUME NEW s \in Seq(Job), NEW j \in Job, NEW rest \in LRemAll(s, j)
  PROVE  rest \in Seq(Job) /\ ToSet(rest) = ToSet(s) \ {j}
<1> DEFINE kept == {i \in DOMAIN s : s[i] # j}
<1>1. PICK e \in Orders(kept) : rest = [k \in DOMAIN e |-> s[e[k]]]
  BY DEF LRemAll
<1>2. DOMAIN s = 1..Len(s) /\ Len(s) \in Nat
  OBVIOUS
<1>3. IsFiniteSet(kept)
  <2>1. IsFiniteSet(1..Len(s))
    BY <1>2, FS_Interval
  <2>2. kept \in SUBSET (1..Len(s))
    BY <1>2
  <2> QED BY <2>1, <2>2, FS_Subset
<1>4. Cardinality(kept) \in Nat
  BY <1>3, FS_CardinalityType
<1>5. /\ e \in [1..Cardinality(kept) -> kept]
      /\ \A i \in kept : \E k \in 1..Cardinality(kept) : e[k] = i
  BY DEF Orders, Bijection, Injection, Surjection
<1>6. \A i \in kept : s[i] \in Job /\ s[i] # j
  BY <1>2
<1> HIDE DEF kept
<1>7. rest \in [1..Cardinality(kept) -> Job]
  BY <1>1, <1>5, <1>6
<1>8. rest \in Seq(Job) /\ DOMAIN rest = 1..Cardinality(kept)
  BY <1>4, <1>7, SeqDef
<1>9. ToSet(rest) = {s[i] : i \in kept}
  BY <1>1, <1>5, <1>8 DEF ToSet
<1> QED BY <1>8, <1>9 DEF ToSet, kept

-----------------------------------------------------------------------------
(* One key changes.                                                         *)

(* A list loses no job but those of K, and its own jobs are not lost.       *)
LEMMA WaitBecomes ==
  ASSUME NEW s, NEW J, OnTheWay(s, J), NEW l \in Seq(Job), NEW K,
         ToSet(s.wait) \ K \subseteq ToSet(l),
         NEW t, t = [s EXCEPT !.wait = l]
  PROVE  OnTheWay(t, (J \union K) \ ToSet(l)) /\ t.isPaused = s.isPaused
  BY DEF OnTheWay, Kept, Somewhere, Drained, Server

(* The same of the paused list, which only a paused queue may fill.         *)
LEMMA PausedBecomes ==
  ASSUME NEW s, NEW J, OnTheWay(s, J), NEW l \in Seq(Job), NEW K,
         ToSet(s.paused) \ K \subseteq ToSet(l), s.isPaused,
         NEW t, t = [s EXCEPT !.paused = l]
  PROVE  OnTheWay(t, (J \union K) \ ToSet(l)) /\ t.isPaused = s.isPaused
  BY DEF OnTheWay, Kept, Somewhere, Drained, Server

(* The same of a set.                                                       *)
LEMMA SetBecomes ==
  ASSUME NEW s, NEW J, OnTheWay(s, J), NEW S \in SUBSET Job, NEW K, NEW t,
         \/ s.prioritized \ K \subseteq S /\ t = [s EXCEPT !.prioritized = S]
         \/ s.delayed     \ K \subseteq S /\ t = [s EXCEPT !.delayed = S]
         \/ s.completed   \ K \subseteq S /\ t = [s EXCEPT !.completed = S]
         \/ s.failed      \ K \subseteq S /\ t = [s EXCEPT !.failed = S]
  PROVE  /\ OnTheWay(t, (J \union K) \ S) /\ t.isPaused = s.isPaused
         /\ Sent(s) => Sent(t)
<1>1. s \in Server
  BY DEF OnTheWay
<1>2. CASE s.prioritized \ K \subseteq S /\ t = [s EXCEPT !.prioritized = S]
  BY <1>1, <1>2 DEF OnTheWay, Kept, Somewhere, Drained, Sent, Server
<1>3. CASE s.delayed \ K \subseteq S /\ t = [s EXCEPT !.delayed = S]
  BY <1>1, <1>3 DEF OnTheWay, Kept, Somewhere, Drained, Sent, Server
<1>4. CASE s.completed \ K \subseteq S /\ t = [s EXCEPT !.completed = S]
  BY <1>1, <1>4 DEF OnTheWay, Kept, Somewhere, Drained, Sent, Server
<1>5. CASE s.failed \ K \subseteq S /\ t = [s EXCEPT !.failed = S]
  BY <1>1, <1>5 DEF OnTheWay, Kept, Somewhere, Drained, Sent, Server
<1> QED BY <1>2, <1>3, <1>4, <1>5

(* Markers alone.                                                           *)
LEMMA BaseMarker ==
  ASSUME NEW s, NEW J, OnTheWay(s, J), NEW b \in BOOLEAN
  PROVE  /\ OnTheWay(AddBaseMarkerIfNeeded(s, b), J)
         /\ Sent(s) \/ (b => s.isPaused) => Sent(AddBaseMarkerIfNeeded(s, b))
  BY DEF OnTheWay, Kept, Somewhere, Drained, Sent, AddBaseMarkerIfNeeded, Server

(* The delay marker disturbs nothing.                                       *)
LEMMA DelayMarker ==
  ASSUME NEW s, NEW J, OnTheWay(s, J)
  PROVE  /\ OnTheWay(AddDelayMarkerIfNeeded(s), J)
         /\ Sent(s) => Sent(AddDelayMarkerIfNeeded(s))
  BY DEF OnTheWay, Kept, Somewhere, Drained, Sent, AddDelayMarkerIfNeeded, Server

(* The same of the active list.                                             *)
LEMMA ActiveBecomes ==
  ASSUME NEW s, NEW J, OnTheWay(s, J), NEW a \in [Job -> Nat], NEW K,
         \A k \in Job \ K : k \in J \/ s.active[k] > 0 => a[k] > 0,
         NEW t, t = [s EXCEPT !.active = a]
  PROVE  /\ OnTheWay(t, K) /\ t.isPaused = s.isPaused
         /\ Sent(s) => Sent(t)
  BY DEF OnTheWay, Kept, Somewhere, Drained, Sent, Server

(* The two states agree on where the jobs are.                              *)
SamePlaces(s, t) ==
  /\ t.wait = s.wait /\ t.paused = s.paused /\ t.active = s.active
  /\ t.prioritized = s.prioritized /\ t.delayed = s.delayed
  /\ t.completed = s.completed /\ t.failed = s.failed

(* Where the jobs are stays as it is, and only for those of K the question  *)
(* whether they may be lost changes.                                        *)
LEMMA PlacesStay ==
  ASSUME NEW s, NEW J, OnTheWay(s, J), NEW t \in Server, SamePlaces(s, t), NEW K,
         \A k \in Job \ K : /\ s.hash[k] = "none" => t.hash[k] = "none"
                            /\ s.stc[k] <= t.stc[k],
         t.isPaused = s.isPaused
  PROVE  /\ OnTheWay(t, J \union K)
         /\ s.marker \subseteq t.marker /\ Sent(s) => Sent(t)
<1>1. \A k \in Job : Somewhere(s, k) => Somewhere(t, k)
  BY DEF SamePlaces, Somewhere
<1>2. \A k \in Job : s.stc[k] \in Nat /\ t.stc[k] \in Nat
  BY DEF OnTheWay, Server
<1>3. Kept(t, J \union K)
  BY <1>1, <1>2, ParametersAssumption DEF OnTheWay, Kept
<1> QED BY <1>3 DEF OnTheWay, Drained, Sent, SamePlaces

(* Jobs that have arrived are no longer on their way.                       *)
LEMMA Arrived ==
  ASSUME NEW s, NEW J, OnTheWay(s, J), NEW K, \A k \in J \ K : Somewhere(s, k)
  PROVE  OnTheWay(s, K)
  BY DEF OnTheWay, Kept

(* A hash that comes back asks for its job to be somewhere, no other.       *)
LEMMA Touched ==
  ASSUME NEW s, NEW J, OnTheWay(s, J), NEW T \in SUBSET Job
  PROVE  /\ OnTheWay(Touch(s, T), J \union T)
         /\ SamePlaces(s, Touch(s, T)) /\ Touch(s, T).isPaused = s.isPaused
         /\ Touch(s, T).marker = s.marker
         /\ Sent(s) => Sent(Touch(s, T))
<1> DEFINE h == [j \in Job |-> IF j \in T /\ s.hash[j] = "none" THEN "bare" ELSE s.hash[j]]
<1>1. s \in Server /\ h \in [Job -> {"none", "stored", "bare"}]
  BY DEF OnTheWay, Server
<1>2. Touch(s, T) = [s EXCEPT !.hash = h]
  BY <1>1 DEF Touch, Server
<1>3. \A k \in Job \ T : h[k] = s.hash[k]
  OBVIOUS
<1> HIDE DEF h
<1>4. /\ Touch(s, T) \in Server /\ SamePlaces(s, Touch(s, T))
      /\ Touch(s, T).isPaused = s.isPaused /\ Touch(s, T).marker = s.marker
      /\ Touch(s, T).stc = s.stc /\ Touch(s, T).hash = h
  BY <1>1, <1>2 DEF Server, SamePlaces
<1>5. \A k \in Job : s.stc[k] <= s.stc[k]
  BY <1>1 DEF Server
<1> QED BY <1>3, <1>4, <1>5, PlacesStay

(* A job added has a hash before any list or set has it.                    *)
LEMMA Stored ==
  ASSUME NEW s, Steady(s), NEW j \in Job, NEW priority \in Nat
  PROVE  /\ OnTheWay(StoreJob(s, j, priority), {j}) /\ Sent(StoreJob(s, j, priority))
         /\ StoreJob(s, j, priority).isPaused = s.isPaused
<1> DEFINE h == [s.hash EXCEPT ![j] = "stored"]
           p == [s.priority EXCEPT ![j] = priority]
           m == [s.atm EXCEPT ![j] = 0]
           t == StoreJob(s, j, priority)
<1>1. /\ s \in Server /\ OnTheWay(s, {}) /\ Sent(s)
      /\ h \in [Job -> {"none", "stored", "bare"}]
      /\ p \in [Job -> Nat] /\ m \in [Job -> Nat]
  BY DEF Steady, OnTheWay, Server
<1>2. t = [s EXCEPT !.hash = h, !.priority = p, !.atm = m]
  BY <1>1 DEF StoreJob, Server
<1>3. \A k \in Job \ {j} : h[k] = s.hash[k]
  BY <1>1 DEF Server
<1> HIDE DEF h, p, m, t
<1>4. /\ t \in Server /\ SamePlaces(s, t) /\ t.isPaused = s.isPaused
      /\ t.marker = s.marker /\ t.stc = s.stc /\ t.hash = h
  BY <1>1, <1>2 DEF Server, SamePlaces
<1>5. \A k \in Job : s.stc[k] <= s.stc[k]
  BY <1>1 DEF Server
<1>6. OnTheWay(t, {} \union {j}) /\ Sent(t)
  BY <1>1, <1>3, <1>4, <1>5, PlacesStay
<1> QED BY <1>4, <1>6 DEF t

(* removeLock and LREM: the job leaves active, and only that job.           *)
LEMMA Released ==
  ASSUME NEW s, NEW J, OnTheWay(s, J), NEW j \in Job
  PROVE  /\ OnTheWay(Release(s, j), J \union {j})
         /\ s.active[j] = 0 => OnTheWay(Release(s, j), J)
         /\ Sent(s) => Sent(Release(s, j))
         /\ Release(s, j).isPaused = s.isPaused
<1> DEFINE l == [s.lock EXCEPT ![j] = NoToken]
           a == [s.active EXCEPT ![j] = IF @ > 0 THEN @ - 1 ELSE 0]
           u == s.stalled \ {j}
<1>1. l \in [Job -> Worker \union {NoToken}] BY DEF OnTheWay, Server
<1>2. a \in [Job -> Nat] BY DEF OnTheWay, Server
<1>3. u \in SUBSET Job BY DEF OnTheWay, Server
<1>4. Release(s, j) = [s EXCEPT !.lock = l, !.stalled = u, !.active = a]
  BY DEF Release, OnTheWay, Server
<1>5. \A k \in Job \ {j} : a[k] = s.active[k]
  BY DEF OnTheWay, Server
<1>6. s.active[j] = 0 => a = s.active
  BY DEF OnTheWay, Server
<1> HIDE DEF l, a, u
<1>7. Release(s, j) \in Server
  BY <1>1, <1>2, <1>3, <1>4 DEF OnTheWay, Server
<1>8. Kept(Release(s, j), J \union {j})
  BY <1>4, <1>5 DEF OnTheWay, Server, Kept, Somewhere
<1>9. s.active[j] = 0 => Kept(Release(s, j), J)
  BY <1>4, <1>6 DEF OnTheWay, Server, Kept, Somewhere
<1>10. /\ Drained(s) => Drained(Release(s, j))
       /\ Sent(s) => Sent(Release(s, j))
       /\ Release(s, j).isPaused = s.isPaused
  BY <1>4 DEF OnTheWay, Server, Drained, Sent
<1> QED BY <1>7, <1>8, <1>9, <1>10 DEF OnTheWay

(* The attempts made are no part of where the jobs are.                     *)
LEMMA AttemptsSet ==
  ASSUME NEW s, NEW J, OnTheWay(s, J), NEW j \in Job, NEW n \in Nat,
         NEW t, t = [s EXCEPT !.atm[j] = n]
  PROVE  /\ OnTheWay(t, J) /\ t.isPaused = s.isPaused
         /\ Sent(s) => Sent(t)
         /\ SamePlaces(s, t) /\ t.priority = s.priority
<1> DEFINE m == [s.atm EXCEPT ![j] = n]
<1>1. s \in Server /\ m \in [Job -> Nat] /\ t = [s EXCEPT !.atm = m]
  BY DEF OnTheWay, Server
<1> HIDE DEF m
<1> QED BY <1>1 DEF OnTheWay, Kept, Somewhere, Drained, Sent, SamePlaces, Server

(* ZADD: the job has arrived.                                               *)
LEMMA PutInSet ==
  ASSUME NEW s, NEW J, OnTheWay(s, J), NEW j \in Job, NEW t,
         \/ t = [s EXCEPT !.prioritized = s.prioritized \union {j}]
         \/ t = [s EXCEPT !.delayed = s.delayed \union {j}]
         \/ t = [s EXCEPT !.completed = s.completed \union {j}]
         \/ t = [s EXCEPT !.failed = s.failed \union {j}]
  PROVE  /\ OnTheWay(t, J \ {j}) /\ t.isPaused = s.isPaused
         /\ Sent(s) => Sent(t)
<1>1. s \in Server
  BY DEF OnTheWay
<1>2. CASE t = [s EXCEPT !.prioritized = s.prioritized \union {j}]
  BY <1>1, <1>2 DEF OnTheWay, Kept, Somewhere, Drained, Sent, Server
<1>3. CASE t = [s EXCEPT !.delayed = s.delayed \union {j}]
  BY <1>1, <1>3 DEF OnTheWay, Kept, Somewhere, Drained, Sent, Server
<1>4. CASE t = [s EXCEPT !.completed = s.completed \union {j}]
  BY <1>1, <1>4 DEF OnTheWay, Kept, Somewhere, Drained, Sent, Server
<1>5. CASE t = [s EXCEPT !.failed = s.failed \union {j}]
  BY <1>1, <1>5 DEF OnTheWay, Kept, Somewhere, Drained, Sent, Server
<1> QED BY <1>2, <1>3, <1>4, <1>5

-----------------------------------------------------------------------------
(* A job that leaves the active list arrives elsewhere.                     *)

(* moveToFinished loses no job, whether it completes or fails it.           *)
LEMMA Finished ==
  ASSUME NEW s, Steady(s), NEW r \in Run, NEW target, NEW n \in Nat
  PROVE  Steady(FinishAs(s, r, target, n))
<1> DEFINE j == r.job
           u == Release(s, j)
           v == [u EXCEPT !.atm[j] = n]
<1>1. j \in Job /\ OnTheWay(s, {}) /\ Sent(s)
  BY DEF Run, Steady
<1>2. OnTheWay(u, {} \union {j}) /\ Sent(u)
  BY <1>1, Released
<1>3. OnTheWay(v, {} \union {j}) /\ Sent(v)
  BY <1>1, <1>2, AttemptsSet
<1>4. \/ FinishAs(s, r, target, n) = [v EXCEPT !.completed = v.completed \union {j}]
      \/ FinishAs(s, r, target, n) = [v EXCEPT !.failed = v.failed \union {j}]
  BY <1>2 DEF FinishAs, OnTheWay, Server
<1> HIDE DEF v
<1>5. OnTheWay(FinishAs(s, r, target, n), ({} \union {j}) \ {j}) /\ Sent(FinishAs(s, r, target, n))
  BY <1>1, <1>3, <1>4, PutInSet
<1> QED BY <1>5 DEF Steady, OnTheWay, Kept

(* moveToDelayed loses no job.                                              *)
LEMMA Delayed ==
  ASSUME NEW s, Steady(s), NEW r \in Run, NEW n \in Nat
  PROVE  Steady(MoveToDelayed(s, r, n))
<1> DEFINE j == r.job
           u == Release(s, j)
           v == [u EXCEPT !.atm[j] = n]
           t == [v EXCEPT !.delayed = v.delayed \union {j}]
<1>1. j \in Job /\ OnTheWay(s, {}) /\ Sent(s)
  BY DEF Run, Steady
<1>2. OnTheWay(u, {} \union {j}) /\ Sent(u)
  BY <1>1, Released
<1>3. OnTheWay(v, {} \union {j}) /\ Sent(v)
  BY <1>1, <1>2, AttemptsSet
<1>4. MoveToDelayed(s, r, n) = AddDelayMarkerIfNeeded(t)
  BY <1>2 DEF MoveToDelayed, OnTheWay, Server
<1>5. t = [v EXCEPT !.delayed = v.delayed \union {j}]
  OBVIOUS
<1> HIDE DEF v, t
<1>6. OnTheWay(t, ({} \union {j}) \ {j}) /\ Sent(t)
  BY <1>1, <1>3, <1>5, PutInSet
<1>7. OnTheWay(t, {}) /\ Sent(t)
  BY <1>6 DEF OnTheWay, Kept
<1> QED BY <1>4, <1>7, DelayMarker DEF Steady

(* RPUSH and LPUSH.                                                         *)
LEMMA Pushed ==
  ASSUME NEW s, NEW J, OnTheWay(s, J), NEW j \in Job
  PROVE  /\ OnTheWay(RPushTarget(s, j), J \ {j}) /\ RPushTarget(s, j).isPaused = s.isPaused
         /\ OnTheWay(LPushTarget(s, j), J \ {j}) /\ LPushTarget(s, j).isPaused = s.isPaused
<1>1. s \in Server /\ s.wait \in Seq(Job) /\ s.paused \in Seq(Job)
  BY DEF OnTheWay, Server
<1>2. \A l \in Seq(Job) : Append(l, j) \in Seq(Job) /\ ToSet(Append(l, j)) = ToSet(l) \union {j}
  BY ToSetAppend
<1>3. \A l \in Seq(Job) : <<j>> \o l \in Seq(Job) /\ ToSet(<<j>> \o l) = ToSet(l) \union {j}
  <2>1. <<j>> \in Seq(Job) /\ ToSet(<<j>>) = {j}
    BY ToSetOne
  <2>2. \A l \in Seq(Job) : <<j>> \o l \in Seq(Job) /\ ToSet(<<j>> \o l) = ToSet(<<j>>) \union ToSet(l)
    BY <2>1, ToSetConcat
  <2> QED BY <2>1, <2>2
<1>4. ASSUME NEW t, NEW l \in Seq(Job), NEW old \in Seq(Job), ToSet(l) = ToSet(old) \union {j},
             \/ s.isPaused /\ old = s.paused /\ t = [s EXCEPT !.paused = l]
             \/ ~s.isPaused /\ old = s.wait /\ t = [s EXCEPT !.wait = l]
      PROVE  OnTheWay(t, J \ {j}) /\ t.isPaused = s.isPaused
  <2>1. OnTheWay(t, (J \union {}) \ ToSet(l)) /\ t.isPaused = s.isPaused
    <3>1. ToSet(old) \ {} \subseteq ToSet(l)
      BY <1>4
    <3>2. CASE s.isPaused /\ old = s.paused /\ t = [s EXCEPT !.paused = l]
      BY <3>1, <3>2, PausedBecomes
    <3>3. CASE ~s.isPaused /\ old = s.wait /\ t = [s EXCEPT !.wait = l]
      BY <3>1, <3>3, WaitBecomes
    <3> QED BY <1>4, <3>2, <3>3
  <2>2. (J \union {}) \ ToSet(l) \subseteq J \ {j}
    BY <1>4
  <2> QED BY <2>1, <2>2 DEF OnTheWay, Kept
<1>5. /\ s.isPaused => RPushTarget(s, j) = [s EXCEPT !.paused = Append(s.paused, j)]
      /\ ~s.isPaused => RPushTarget(s, j) = [s EXCEPT !.wait = Append(s.wait, j)]
      /\ s.isPaused => LPushTarget(s, j) = [s EXCEPT !.paused = <<j>> \o s.paused]
      /\ ~s.isPaused => LPushTarget(s, j) = [s EXCEPT !.wait = <<j>> \o s.wait]
  BY DEF RPushTarget, LPushTarget
<1>6. OnTheWay(RPushTarget(s, j), J \ {j}) /\ RPushTarget(s, j).isPaused = s.isPaused
  <2>1. CASE s.isPaused
    BY <1>1, <1>2, <1>4, <1>5, <2>1
  <2>2. CASE ~s.isPaused
    BY <1>1, <1>2, <1>4, <1>5, <2>2
  <2> QED BY <2>1, <2>2
<1>7. OnTheWay(LPushTarget(s, j), J \ {j}) /\ LPushTarget(s, j).isPaused = s.isPaused
  <2>1. CASE s.isPaused
    BY <1>1, <1>3, <1>4, <1>5, <2>1
  <2>2. CASE ~s.isPaused
    BY <1>1, <1>3, <1>4, <1>5, <2>2
  <2> QED BY <2>1, <2>2
<1> QED BY <1>6, <1>7

(* A job goes back by priority or to the end of its list.                   *)
LEMMA Requeued ==
  ASSUME NEW s, NEW J, OnTheWay(s, J), NEW j \in Job, NEW priority \in Nat
  PROVE  /\ OnTheWay(Requeue(s, j, priority), J \ {j})
         /\ Requeue(s, j, priority).isPaused = s.isPaused
         /\ Sent(s) /\ priority > 0 => Sent(Requeue(s, j, priority))
<1>1. CASE priority > 0
  <2>1. Requeue(s, j, priority) = [s EXCEPT !.prioritized = s.prioritized \union {j}]
    BY <1>1 DEF Requeue
  <2> QED BY <2>1, PutInSet
<1>2. CASE ~(priority > 0)
  BY <1>2, Pushed DEF Requeue
<1> QED BY <1>1, <1>2

(* retryJob loses no job and signals it.                                    *)
LEMMA Retried ==
  ASSUME NEW s, Steady(s), NEW r \in Run
  PROVE  Steady(RetryJob(s, r))
<1> DEFINE j == r.job
           u == Release(s, j)
           v == [u EXCEPT !.atm[j] = r.atm]
           w == Requeue(v, j, r.priority)
<1>1. /\ j \in Job /\ r.atm \in Nat /\ r.priority \in Nat
      /\ OnTheWay(s, {}) /\ Sent(s) /\ s.isPaused \in BOOLEAN
  BY DEF Run, Steady, OnTheWay, Server
<1>2. RetryJob(s, r) = AddBaseMarkerIfNeeded(w, s.isPaused)
  BY DEF RetryJob
<1>3. OnTheWay(u, {} \union {j}) /\ u.isPaused = s.isPaused
  BY <1>1, Released
<1>4. OnTheWay(v, {} \union {j}) /\ v.isPaused = s.isPaused
  BY <1>1, <1>3, AttemptsSet
<1> HIDE DEF v
<1>5. OnTheWay(w, ({} \union {j}) \ {j}) /\ w.isPaused = s.isPaused
  BY <1>1, <1>4, Requeued
<1> HIDE DEF w
<1>6. OnTheWay(w, {})
  BY <1>5 DEF OnTheWay, Kept
<1> QED BY <1>1, <1>2, <1>5, <1>6, BaseMarker DEF Steady

(* moveJobFromActiveToWait loses no job, found by LREM or not.              *)
LEMMA MovedToWait ==
  ASSUME NEW s, Steady(s), NEW j \in Job
  PROVE  Steady(MoveJobFromActiveToWait(s, j))
<1> DEFINE u == Release(s, j)
           w == Requeue(u, j, s.priority[j])
           l == RPushTarget(u, j)
<1>1. /\ OnTheWay(s, {}) /\ Sent(s) /\ s.isPaused \in BOOLEAN
      /\ s.priority[j] \in Nat /\ s.active[j] \in Nat
  BY DEF Steady, OnTheWay, Server
<1>2. /\ OnTheWay(u, {} \union {j}) /\ Sent(u) /\ u.isPaused = s.isPaused
      /\ s.active[j] = 0 => OnTheWay(u, {})
  BY <1>1, Released
<1>3. CASE s.active[j] = 0
  BY <1>2, <1>3 DEF MoveJobFromActiveToWait, Steady
<1>4. CASE s.active[j] # 0 /\ s.priority[j] > 0
  <2>1. OnTheWay(w, ({} \union {j}) \ {j}) /\ Sent(w)
    BY <1>1, <1>2, <1>4, Requeued
  <2>2. MoveJobFromActiveToWait(s, j) = w
    BY <1>4 DEF MoveJobFromActiveToWait
  <2> HIDE DEF w
  <2> QED BY <2>1, <2>2 DEF Steady, OnTheWay, Kept
<1>5. CASE s.active[j] # 0 /\ ~(s.priority[j] > 0)
  <2>1. OnTheWay(l, ({} \union {j}) \ {j}) /\ l.isPaused = s.isPaused
    BY <1>2, Pushed
  <2>2. MoveJobFromActiveToWait(s, j) = AddBaseMarkerIfNeeded(l, s.isPaused)
    BY <1>5 DEF MoveJobFromActiveToWait
  <2> HIDE DEF l
  <2>3. OnTheWay(l, {})
    BY <2>1 DEF OnTheWay, Kept
  <2> QED BY <1>1, <2>1, <2>2, <2>3, BaseMarker DEF Steady
<1> QED BY <1>3, <1>4, <1>5

-----------------------------------------------------------------------------
(* Taking the next job.                                                     *)

(* Every delayed job due arrives in wait or prioritized.                    *)
LEMMA Promoted ==
  ASSUME NEW s, Steady(s), NEW due \in SUBSET s.delayed,
         NEW order \in Orders({j \in due : s.priority[j] = 0})
  PROVE  /\ Steady(PromoteDelayedJobs(s, due, order))
         /\ PromoteDelayedJobs(s, due, order).isPaused = s.isPaused
<1> DEFINE l == order \o s.wait
           p == s.prioritized \union {j \in due : s.priority[j] > 0}
           a == [s EXCEPT !.delayed = s.delayed \ due]
           b == [a EXCEPT !.wait = l]
           c == [b EXCEPT !.prioritized = p]
           d == Touch(c, due)
<1>1. /\ OnTheWay(s, {}) /\ s \in Server /\ s.isPaused \in BOOLEAN
      /\ due \subseteq Job /\ s.wait \in Seq(Job)
      /\ \A j \in Job : s.priority[j] \in Nat
  BY DEF Steady, OnTheWay, Server
<1>2. order \in Seq(Job) /\ ToSet(order) = {j \in due : s.priority[j] = 0}
  BY <1>1, OrdersType
<1>3. l \in Seq(Job) /\ ToSet(l) = {j \in due : s.priority[j] = 0} \union ToSet(s.wait)
  BY <1>1, <1>2, ToSetConcat
<1>4. p \in SUBSET Job /\ s.prioritized \subseteq p
  BY <1>1 DEF Server
<1>5. \A j \in due : j \in ToSet(l) \/ j \in p
  BY <1>1, <1>3
<1>6. PromoteDelayedJobs(s, due, order)
        = IF due = {} THEN s ELSE AddBaseMarkerIfNeeded(d, s.isPaused)
  <2>1. c = [s EXCEPT !.delayed = s.delayed \ due, !.wait = l, !.prioritized = p]
    <3> HIDE DEF l, p
    <3> QED BY <1>1 DEF Server
  <2> QED BY <2>1 DEF PromoteDelayedJobs
<1> HIDE DEF l, p
<1>7. OnTheWay(a, due) /\ a.isPaused = s.isPaused /\ a.wait = s.wait /\ a.prioritized = s.prioritized
  <2>1. s.delayed \ due \in SUBSET Job
    BY <1>1 DEF Server
  <2>2. OnTheWay(a, ({} \union due) \ (s.delayed \ due)) /\ a.isPaused = s.isPaused
    <3> DEFINE e == s.delayed \ due
    <3>1. s.delayed \ due \subseteq e /\ e \in SUBSET Job /\ a = [s EXCEPT !.delayed = e]
      BY <2>1
    <3> HIDE DEF e, a
    <3>2. OnTheWay(a, ({} \union due) \ e) /\ a.isPaused = s.isPaused
      BY <1>1, <3>1, SetBecomes
    <3> QED BY <3>2 DEF e
  <2> QED BY <1>1, <2>2 DEF OnTheWay, Kept, Server
<1> HIDE DEF a
<1>8. OnTheWay(b, (due \union {}) \ ToSet(l)) /\ b.isPaused = s.isPaused
      /\ b.wait = l /\ b.prioritized = s.prioritized
  <2>1. ToSet(a.wait) \ {} \subseteq ToSet(l)
    BY <1>3, <1>7
  <2>2. OnTheWay(b, (due \union {}) \ ToSet(l)) /\ b.isPaused = a.isPaused
    BY <1>3, <1>7, <2>1, WaitBecomes
  <2> QED BY <1>7, <2>2 DEF OnTheWay, Server
<1> HIDE DEF b
<1>9. OnTheWay(c, (((due \union {}) \ ToSet(l)) \union {}) \ p) /\ c.isPaused = s.isPaused
  <2>1. b.prioritized \ {} \subseteq p
    BY <1>4, <1>8
  <2> QED BY <1>4, <1>8, <2>1, SetBecomes
<1>10. c.wait = l /\ c.prioritized = p
  BY <1>8 DEF OnTheWay, Server
<1> HIDE DEF c
<1>11. OnTheWay(c, {})
  BY <1>5, <1>9 DEF OnTheWay, Kept
<1>12. OnTheWay(d, {} \union due) /\ SamePlaces(c, d) /\ d.isPaused = s.isPaused
  BY <1>1, <1>9, <1>11, Touched
<1> HIDE DEF d
<1>13. OnTheWay(d, {})
  BY <1>5, <1>10, <1>12 DEF OnTheWay, Kept, SamePlaces, Somewhere
<1>14. /\ OnTheWay(AddBaseMarkerIfNeeded(d, s.isPaused), {})
       /\ Sent(AddBaseMarkerIfNeeded(d, s.isPaused))
  BY <1>1, <1>12, <1>13, BaseMarker
<1>15. AddBaseMarkerIfNeeded(d, s.isPaused).isPaused = s.isPaused
  BY <1>12, <1>13 DEF AddBaseMarkerIfNeeded, OnTheWay, Server
<1> QED BY <1>6, <1>14, <1>15 DEF Steady

(* RPOPLPUSH and ZPOPMIN: the job taken is in the active list.              *)
LEMMA Taken ==
  ASSUME NEW s, Steady(s), ~s.isPaused, NEW j \in Candidates(s)
  PROVE  /\ j \in Job /\ OnTheWay(TakeNext(s, j), {})
         /\ Somewhere(TakeNext(s, j), j) /\ TakeNext(s, j).isPaused = s.isPaused
<1> DEFINE a == [s.active EXCEPT ![j] = s.active[j] + 1]
<1>1. /\ OnTheWay(s, {}) /\ s \in Server /\ s.wait \in Seq(Job)
      /\ s.prioritized \subseteq Job /\ s.active \in [Job -> Nat]
  BY DEF Steady, OnTheWay, Server
<1>2. j \in Job
  <2>1. CASE s.wait # <<>>
    BY <1>1, <2>1, ToSetFront DEF Candidates
  <2>2. CASE s.wait = <<>>
    BY <1>1, <2>2 DEF Candidates
  <2> QED BY <2>1, <2>2
<1>3. /\ a \in [Job -> Nat] /\ a[j] > 0
      /\ \A k \in Job \ {} : s.active[k] > 0 => a[k] > 0
  BY <1>1, <1>2
<1>4. ASSUME NEW t, OnTheWay(t, {j}), t.active = s.active, t.isPaused = s.isPaused,
             TakeNext(s, j) = [t EXCEPT !.active = a]
      PROVE  /\ OnTheWay(TakeNext(s, j), {}) /\ Somewhere(TakeNext(s, j), j)
             /\ TakeNext(s, j).isPaused = s.isPaused
  <2> HIDE DEF a
  <2>1. OnTheWay(TakeNext(s, j), {}) /\ TakeNext(s, j).isPaused = t.isPaused
    <3>1. \A k \in Job \ {} : k \in {j} \/ t.active[k] > 0 => a[k] > 0
      BY <1>3, <1>4
    <3> QED BY <1>3, <1>4, <3>1, ActiveBecomes
  <2>2. TakeNext(s, j).active = a
    BY <1>4 DEF OnTheWay, Server
  <2>3. Somewhere(TakeNext(s, j), j)
    BY <1>3, <2>2 DEF Somewhere
  <2> QED BY <1>4, <2>1, <2>3
<1>5. CASE s.wait # <<>>
  <2> DEFINE f == Front(s.wait)
             t == [s EXCEPT !.wait = f]
  <2>1. f \in Seq(Job) /\ ToSet(s.wait) \ {j} \subseteq ToSet(f)
    BY <1>1, <1>5, ToSetFront DEF Candidates
  <2> HIDE DEF f
  <2>2. OnTheWay(t, ({} \union {j}) \ ToSet(f)) /\ t.isPaused = s.isPaused
    BY <1>1, <2>1, WaitBecomes
  <2>3. t.active = s.active
    BY <1>1 DEF Server
  <2>4. TakeNext(s, j) = [t EXCEPT !.active = a]
    BY <1>1, <1>5 DEF TakeNext, Server, f
  <2> HIDE DEF t, a
  <2>5. OnTheWay(t, {j})
    BY <2>2 DEF OnTheWay, Kept
  <2> QED BY <1>2, <1>4, <2>2, <2>3, <2>4, <2>5
<1>6. CASE s.wait = <<>>
  <2> DEFINE p == s.prioritized \ {j}
             t == [s EXCEPT !.prioritized = p]
  <2>1. p \in SUBSET Job /\ s.prioritized \ {j} \subseteq p
    BY <1>1
  <2>2. TakeNext(s, j) = [t EXCEPT !.active = a] /\ t.active = s.active
    BY <1>1, <1>6 DEF TakeNext, Server
  <2> HIDE DEF p, a
  <2>3. OnTheWay(t, ({} \union {j}) \ p) /\ t.isPaused = s.isPaused
    BY <1>1, <2>1, SetBecomes
  <2> HIDE DEF t
  <2>4. OnTheWay(t, {j})
    BY <2>3 DEF OnTheWay, Kept
  <2> QED BY <1>2, <1>4, <2>2, <2>3, <2>4
<1> QED BY <1>2, <1>5, <1>6

(* A claim loses no job, and leaves the marker if more jobs wait.           *)
LEMMA Claimed ==
  ASSUME NEW s, Steady(s), ~s.isPaused, NEW j \in Candidates(s), NEW w \in Worker
  PROVE  Steady(Claim(s, j, w)) /\ j \in Job
<1> DEFINE t == Touch(TakeNext(s, j), {j})
           l == [t.lock EXCEPT ![j] = w]
           u == t.stalled \union {j}
           n == [t.ats EXCEPT ![j] = t.ats[j] + 1]
           m == IF MaxJobs > 0 THEN t.limiter + 1 ELSE t.limiter
           k == t.marker \ {"0"}
           h == [t EXCEPT !.lock = l, !.stalled = u, !.ats = n, !.limiter = m, !.marker = k]
           b == h.wait = <<>> /\ h.prioritized = {}
<1>1. /\ j \in Job /\ OnTheWay(TakeNext(s, j), {}) /\ Somewhere(TakeNext(s, j), j)
  BY Taken
<1>2. OnTheWay(t, {} \union {j}) /\ SamePlaces(TakeNext(s, j), t)
  BY <1>1, Touched
<1>3. Claim(s, j, w) = AddBaseMarkerIfNeeded(h, b)
  BY DEF Claim
<1> HIDE DEF t
<1>4. OnTheWay(t, {}) /\ t \in Server
  BY <1>1, <1>2 DEF OnTheWay, Kept, SamePlaces, Somewhere
<1>5. /\ l \in [Job -> Worker \union {NoToken}] /\ u \in SUBSET Job
      /\ n \in [Job -> Nat] /\ m \in Nat /\ k \in SUBSET {"0", "1"}
  BY <1>1, <1>4, ParametersAssumption DEF Server
<1> HIDE DEF l, u, n, m, k
<1>6. /\ h \in Server /\ SamePlaces(t, h) /\ h.isPaused = t.isPaused
      /\ h.hash = t.hash /\ h.stc = t.stc
  BY <1>4, <1>5 DEF Server, SamePlaces
<1> HIDE DEF h
<1>7. OnTheWay(h, {})
  BY <1>4, <1>6 DEF OnTheWay, Kept, SamePlaces, Somewhere, Drained
<1>8. Sent(h) \/ ~b
  BY DEF Sent
<1>9. b \in BOOLEAN
  OBVIOUS
<1> HIDE DEF b
<1> QED BY <1>1, <1>3, <1>7, <1>8, <1>9, BaseMarker DEF Steady

(* moveToActive, and the second half of moveToFinished.                     *)
LEMMA Fetched ==
  ASSUME NEW s, Steady(s), NEW w \in Worker, NEW others \in SUBSET Run,
         FetchNext(s, w, others)
  PROVE  Steady(q') /\ runs' \subseteq Run
<1>1. PICK p \in Promotions(s) :
        \/ q' = p /\ runs' = others
        \/ q' = AddDelayMarkerIfNeeded(p) /\ runs' = others
        \/ /\ ~p.isPaused
           /\ \E j \in Candidates(p) :
                q' = Claim(p, j, w) /\ runs' = others \union Received(q', j, w)
  BY DEF FetchNext
<1>2. Steady(p)
  <2>1. PICK due \in SUBSET s.delayed :
          \E order \in Orders({j \in due : s.priority[j] = 0}) :
            p = PromoteDelayedJobs(s, due, order)
    BY DEF Promotions
  <2> QED BY <2>1, Promoted
<1>3. CASE q' = p /\ runs' = others
  BY <1>2, <1>3
<1>4. CASE q' = AddDelayMarkerIfNeeded(p) /\ runs' = others
  BY <1>2, <1>4, DelayMarker DEF Steady
<1>5. ASSUME ~p.isPaused, NEW j \in Candidates(p),
             q' = Claim(p, j, w), runs' = others \union Received(q', j, w)
      PROVE  Steady(q') /\ runs' \subseteq Run
  <2>1. Steady(q') /\ j \in Job
    BY <1>2, <1>5, Claimed
  <2>2. Received(q', j, w) \subseteq Run
    BY <2>1 DEF Received, Run, Steady, OnTheWay, Server
  <2> QED BY <1>5, <2>1, <2>2
<1> QED BY <1>1, <1>3, <1>4, <1>5

-----------------------------------------------------------------------------
(* Stalled jobs.                                                            *)

(* A stalled job goes back unless it has used up its stalls.                *)
LEMMA Unstalled ==
  ASSUME NEW s, Steady(s), NEW back \in SUBSET Job, NEW over \in SUBSET Job,
         \A j \in over : s.stc[j] >= MaxStalledCount,
         NEW order \in Orders({j \in back : s.priority[j] = 0})
  PROVE  Steady(Unstall(s, back, over, order))
<1> DEFINE a == [j \in Job |-> IF j \in back \union over /\ s.active[j] > 0
                               THEN s.active[j] - 1 ELSE s.active[j]]
           c == [j \in Job |-> IF j \in back \union over THEN s.stc[j] + 1 ELSE s.stc[j]]
           p == s.prioritized \union {j \in back : s.priority[j] > 0}
           w == IF s.isPaused THEN s.wait ELSE s.wait \o order
           u == IF s.isPaused THEN s.paused \o order ELSE s.paused
           t == [s EXCEPT !.stalled = {}, !.active = a, !.stc = c, !.prioritized = p,
                          !.wait = w, !.paused = u]
<1>1. /\ OnTheWay(s, {}) /\ Sent(s) /\ s \in Server /\ s.isPaused \in BOOLEAN
      /\ s.wait \in Seq(Job) /\ s.paused \in Seq(Job)
      /\ \A j \in Job : s.priority[j] \in Nat /\ s.stc[j] \in Nat /\ s.active[j] \in Nat
      /\ MaxStalledCount \in Nat
  BY ParametersAssumption DEF Steady, OnTheWay, Server
<1>2. order \in Seq(Job) /\ ToSet(order) = {j \in back : s.priority[j] = 0}
  BY OrdersType
<1>3. /\ w \in Seq(Job) /\ u \in Seq(Job)
      /\ s.isPaused => w = s.wait /\ ToSet(u) = ToSet(s.paused) \union ToSet(order)
      /\ ~s.isPaused => u = s.paused /\ ToSet(w) = ToSet(s.wait) \union ToSet(order)
  BY <1>1, <1>2, ToSetConcat
<1>4. back = {} => order = <<>>
  <2>1. ASSUME back = {} PROVE 1 \notin DOMAIN order
    BY <1>2, <2>1 DEF ToSet
  <2> QED BY <1>2, <2>1, EmptySeq
<1>5. back = {} => w = s.wait
  <2>1. s.wait \o <<>> = s.wait
    BY <1>1, ConcatEmptySeq
  <2> QED BY <1>4, <2>1
<1>6. /\ a \in [Job -> Nat] /\ c \in [Job -> Nat] /\ p \in SUBSET Job
      /\ \A j \in Job \ (back \union over) : a[j] = s.active[j] /\ c[j] = s.stc[j]
      /\ \A j \in over : c[j] > MaxStalledCount
      /\ s.prioritized \subseteq p
      /\ \A j \in back : j \in p \/ j \in ToSet(order)
  BY <1>1, <1>2, SMTT(30) DEF Server
<1>7. Unstall(s, back, over, order) = AddBaseMarkerIfNeeded(t, s.isPaused \/ back = {})
  BY DEF Unstall
<1> HIDE DEF a, c, p, w, u
<1>8. /\ t \in Server /\ t.active = a /\ t.stc = c /\ t.prioritized = p
      /\ t.wait = w /\ t.paused = u /\ t.isPaused = s.isPaused /\ t.marker = s.marker
      /\ t.hash = s.hash /\ t.delayed = s.delayed
      /\ t.completed = s.completed /\ t.failed = s.failed
  BY <1>1, <1>3, <1>6 DEF Server
<1> HIDE DEF t
<1>9. ToSet(s.wait) \subseteq ToSet(w) /\ ToSet(s.paused) \subseteq ToSet(u)
  BY <1>1, <1>3
<1>10. ASSUME NEW j \in Job, s.hash[j] # "none", c[j] <= MaxStalledCount
       PROVE  Somewhere(t, j)
  <2>1. j \notin over
    BY <1>1, <1>6, <1>10
  <2>2. CASE j \in back
    <3>1. j \in p \/ j \in ToSet(w) \/ j \in ToSet(u)
      BY <1>1, <1>3, <1>6, <2>2
    <3> QED BY <3>1, <1>8 DEF Somewhere
  <2>3. CASE j \notin back
    <3>1. a[j] = s.active[j] /\ s.stc[j] <= MaxStalledCount
      BY <1>6, <1>10, <2>1, <2>3
    <3>2. Somewhere(s, j)
      BY <1>1, <1>10, <3>1 DEF OnTheWay, Kept
    <3> QED BY <1>6, <1>8, <1>9, <3>1, <3>2 DEF Somewhere
  <2> QED BY <2>2, <2>3
<1>11. OnTheWay(t, {})
  <2>1. Kept(t, {})
    BY <1>8, <1>10 DEF Kept
  <2>2. Drained(t)
    BY <1>1, <1>3, <1>8 DEF OnTheWay, Drained
  <2> QED BY <1>8, <2>1, <2>2 DEF OnTheWay
<1>12. Sent(t) \/ (s.isPaused \/ back = {} => t.isPaused)
  BY <1>1, <1>5, <1>8 DEF Sent
<1> QED BY <1>1, <1>7, <1>11, <1>12, BaseMarker DEF Steady

(* Jobs taken out of a set in one batch.                                    *)
LEMMA BatchMoved ==
  ASSUME NEW s, NEW batch \in SUBSET Job, OnTheWay(s, batch),
         NEW t \in MoveJobsToWait(s, batch)
  PROVE  Steady(t)
<1> DEFINE v(order) == IF s.isPaused THEN [s EXCEPT !.paused = order \o s.paused]
                                     ELSE [s EXCEPT !.wait = order \o s.wait]
<1>1. PICK order \in Orders(batch) : t = AddBaseMarkerIfNeeded(v(order), s.isPaused)
  BY DEF MoveJobsToWait
<1>2. /\ s \in Server /\ s.isPaused \in BOOLEAN
      /\ s.wait \in Seq(Job) /\ s.paused \in Seq(Job)
  BY DEF OnTheWay, Server
<1>3. order \in Seq(Job) /\ ToSet(order) = batch
  BY OrdersType
<1>4. CASE s.isPaused
  <2> DEFINE l == order \o s.paused
  <2>1. l \in Seq(Job) /\ ToSet(l) = batch \union ToSet(s.paused)
    BY <1>2, <1>3, ToSetConcat
  <2>2. v(order) = [s EXCEPT !.paused = l]
    BY <1>4
  <2> HIDE DEF l, v
  <2>3. ToSet(s.paused) \ {} \subseteq ToSet(l)
    BY <2>1
  <2>4. OnTheWay(v(order), (batch \union {}) \ ToSet(l)) /\ v(order).isPaused = s.isPaused
    BY <1>4, <2>1, <2>2, <2>3, PausedBecomes
  <2>5. OnTheWay(v(order), {})
    BY <2>1, <2>4 DEF OnTheWay, Kept
  <2> QED BY <1>1, <1>2, <2>4, <2>5, BaseMarker DEF Steady
<1>5. CASE ~s.isPaused
  <2> DEFINE l == order \o s.wait
  <2>1. l \in Seq(Job) /\ ToSet(l) = batch \union ToSet(s.wait)
    BY <1>2, <1>3, ToSetConcat
  <2>2. v(order) = [s EXCEPT !.wait = l]
    BY <1>5
  <2> HIDE DEF l, v
  <2>3. ToSet(s.wait) \ {} \subseteq ToSet(l)
    BY <2>1
  <2>4. OnTheWay(v(order), (batch \union {}) \ ToSet(l)) /\ v(order).isPaused = s.isPaused
    BY <2>1, <2>2, <2>3, WaitBecomes
  <2>5. OnTheWay(v(order), {})
    BY <2>1, <2>4 DEF OnTheWay, Kept
  <2> QED BY <1>1, <1>2, <1>5, <2>4, <2>5, BaseMarker DEF Steady
<1> QED BY <1>4, <1>5

-----------------------------------------------------------------------------
(* Jobs leave a list or set for good, or change their priority.             *)

(* Removal takes at most the one job away.                                  *)
LEMMA TakenOut ==
  ASSUME NEW s, Steady(s), NEW j \in Job, NEW t \in RemovedFromAnyState(s, j)
  PROVE  OnTheWay(t, {j}) /\ Sent(t)
<1>1. /\ OnTheWay(s, {}) /\ Sent(s) /\ s \in Server
      /\ s.wait \in Seq(Job) /\ s.paused \in Seq(Job) /\ s.active \in [Job -> Nat]
  BY DEF Steady, OnTheWay, Server
<1>2. ASSUME NEW S \in SUBSET Job, NEW f \in {"prioritized", "delayed", "completed", "failed"},
             t = [s EXCEPT ![f] = S], s[f] \ {j} \subseteq S
      PROVE  OnTheWay(t, {j}) /\ Sent(t)
  <2>1. OnTheWay(t, ({} \union {j}) \ S) /\ (Sent(s) => Sent(t))
    <3>1. CASE f = "prioritized" BY <1>1, <1>2, <3>1, SetBecomes
    <3>2. CASE f = "delayed" BY <1>1, <1>2, <3>2, SetBecomes
    <3>3. CASE f = "completed" BY <1>1, <1>2, <3>3, SetBecomes
    <3>4. CASE f = "failed" BY <1>1, <1>2, <3>4, SetBecomes
    <3> QED BY <3>1, <3>2, <3>3, <3>4
  <2> QED BY <1>1, <2>1 DEF OnTheWay, Kept
<1>3. CASE t = [s EXCEPT !.completed = s.completed \ {j}]
  BY <1>1, <1>2, <1>3 DEF Server
<1>4. CASE t = [s EXCEPT !.delayed = s.delayed \ {j}]
  BY <1>1, <1>2, <1>4 DEF Server
<1>5. CASE t = [s EXCEPT !.failed = s.failed \ {j}]
  BY <1>1, <1>2, <1>5 DEF Server
<1>6. CASE t = [s EXCEPT !.prioritized = s.prioritized \ {j}]
  BY <1>1, <1>2, <1>6 DEF Server
<1>7. ASSUME NEW l \in LRemFirst(s.wait, j), t = [s EXCEPT !.wait = l], s.wait # <<>>
      PROVE  OnTheWay(t, {j}) /\ Sent(t)
  <2>1. l \in Seq(Job) /\ ToSet(s.wait) \ {j} \subseteq ToSet(l)
    BY <1>1, LRemFirstType
  <2>2. OnTheWay(t, ({} \union {j}) \ ToSet(l))
    BY <1>1, <1>7, <2>1, WaitBecomes
  <2>3. Sent(t)
    BY <1>1, <1>7 DEF Sent, Server
  <2> QED BY <2>2, <2>3 DEF OnTheWay, Kept
<1>8. ASSUME NEW l \in LRemFirst(s.paused, j), t = [s EXCEPT !.paused = l], s.paused # <<>>
      PROVE  OnTheWay(t, {j}) /\ Sent(t)
  <2>1. l \in Seq(Job) /\ ToSet(s.paused) \ {j} \subseteq ToSet(l)
    BY <1>1, LRemFirstType
  <2>2. s.isPaused
    BY <1>1, <1>8 DEF OnTheWay, Drained
  <2>3. OnTheWay(t, ({} \union {j}) \ ToSet(l))
    BY <1>1, <1>8, <2>1, <2>2, PausedBecomes
  <2>4. Sent(t)
    BY <1>1, <1>8 DEF Sent, Server
  <2> QED BY <2>3, <2>4 DEF OnTheWay, Kept
<1>9. CASE s.active[j] > 0 /\ t = [s EXCEPT !.active[j] = s.active[j] - 1]
  <2> DEFINE a == [s.active EXCEPT ![j] = s.active[j] - 1]
  <2>1. a \in [Job -> Nat] /\ \A k \in Job \ {j} : k \in {} \/ s.active[k] > 0 => a[k] > 0
    BY <1>1, <1>9
  <2>2. t = [s EXCEPT !.active = a]
    BY <1>9
  <2> HIDE DEF a
  <2>3. \A J, K : OnTheWay(s, J) /\ (\A k \in Job \ K : k \in J \/ s.active[k] > 0 => a[k] > 0)
                    => OnTheWay(t, K) /\ (Sent(s) => Sent(t))
    BY <2>1, <2>2, ActiveBecomes
  <2> QED BY <1>1, <2>1, <2>3
<1>10. CASE t = s
  BY <1>1, <1>10 DEF OnTheWay, Kept
<1>11. ToSet(<<>>) = {}
  BY DEF ToSet
<1>12. s.wait = <<>> => j \notin ToSet(s.wait)
  BY <1>11
<1>13. s.paused = <<>> => j \notin ToSet(s.paused)
  BY <1>11
<1> QED
  BY <1>3, <1>4, <1>5, <1>6, <1>7, <1>8, <1>9, <1>10, <1>12, <1>13 DEF RemovedFromAnyState

(* The priority field is no part of where the jobs are.                     *)
LEMMA PrioritySet ==
  ASSUME NEW s, Steady(s), NEW j \in Job, s.hash[j] # "none", NEW priority \in Nat,
         NEW t, t = [s EXCEPT !.priority[j] = priority]
  PROVE  /\ OnTheWay(Touch(t, {j}), {}) /\ SamePlaces(s, Touch(t, {j}))
         /\ Touch(t, {j}).isPaused = s.isPaused /\ Sent(Touch(t, {j}))
<1> DEFINE p == [s.priority EXCEPT ![j] = priority]
<1>1. s \in Server /\ OnTheWay(s, {}) /\ Sent(s) /\ p \in [Job -> Nat] /\ t = [s EXCEPT !.priority = p]
  BY DEF Steady, OnTheWay, Server
<1> HIDE DEF p
<1>2. /\ OnTheWay(t, {}) /\ SamePlaces(s, t) /\ t.isPaused = s.isPaused /\ Sent(t)
      /\ t.hash = s.hash
  BY <1>1 DEF OnTheWay, Kept, Somewhere, Drained, Sent, SamePlaces, Server
<1>3. Touch(t, {j}) = t
  <2>1. [k \in Job |-> IF k \in {j} /\ t.hash[k] = "none" THEN "bare" ELSE t.hash[k]] = t.hash
    BY <1>1, <1>2 DEF Server
  <2>2. t \in Server
    BY <1>2 DEF OnTheWay
  <2> QED BY <2>1, <2>2 DEF Touch, Server
<1> QED BY <1>2, <1>3

(* changePriority: a job taken out of one list enters another.              *)
LEMMA ReprioritisedJob ==
  ASSUME NEW s, Steady(s), NEW j \in Job, s.hash[j] # "none", NEW priority \in Nat,
         NEW t \in Reprioritised(s, j, priority)
  PROVE  Steady(AddBaseMarkerIfNeeded(t, s.isPaused))
<1> DEFINE f == Touch([s EXCEPT !.priority[j] = priority], {j})
           g == [f EXCEPT !.prioritized = f.prioritized \union {j}]
<1>1. /\ OnTheWay(f, {}) /\ f.isPaused = s.isPaused
      /\ f.wait = s.wait /\ f.paused = s.paused
      /\ s.isPaused \in BOOLEAN
  <2>1. [s EXCEPT !.priority[j] = priority] = [s EXCEPT !.priority[j] = priority]
    OBVIOUS
  <2>2. OnTheWay(f, {}) /\ f.isPaused = s.isPaused /\ SamePlaces(s, f)
    BY <2>1, PrioritySet
  <2> HIDE DEF f
  <2> QED BY <2>2 DEF SamePlaces, Steady, OnTheWay, Server
<1>2. /\ s.wait \in Seq(Job) /\ s.paused \in Seq(Job)
  BY DEF Steady, OnTheWay, Server
<1>3. \/ t = g
      \/ t \in {[g EXCEPT !.wait = rest] : rest \in LRemAll(s.wait, j)}
      \/ s.isPaused /\ t \in {[g EXCEPT !.paused = rest] : rest \in LRemAll(s.paused, j)}
      \/ t = RPushTarget([f EXCEPT !.prioritized = f.prioritized \ {j}], j)
      \/ t = f
  BY DEF Reprioritised
<1> HIDE DEF f
<1>4. /\ OnTheWay(g, {}) /\ g.isPaused = s.isPaused
      /\ g.wait = s.wait /\ g.paused = s.paused /\ j \in g.prioritized
  <2>1. g = [f EXCEPT !.prioritized = f.prioritized \union {j}]
    OBVIOUS
  <2>2. OnTheWay(g, {} \ {j}) /\ g.isPaused = f.isPaused
    <3> HIDE DEF g
    <3> QED BY <1>1, <2>1, PutInSet
  <2>3. {} \ {j} = {}
    OBVIOUS
  <2>4. g.wait = f.wait /\ g.paused = f.paused /\ g.prioritized = f.prioritized \union {j}
    BY <1>1 DEF OnTheWay, Server
  <2> HIDE DEF g
  <2> QED BY <1>1, <2>2, <2>3, <2>4
<1> HIDE DEF g
<1>5. ASSUME NEW u, OnTheWay(u, {j}), j \in u.prioritized
      PROVE  OnTheWay(u, {})
  BY <1>5 DEF OnTheWay, Kept, Somewhere
<1>6. OnTheWay(t, {}) /\ t.isPaused = s.isPaused
  <2>1. CASE t = g
    BY <2>1, <1>4
  <2>2. CASE t \in {[g EXCEPT !.wait = rest] : rest \in LRemAll(s.wait, j)}
    <3>1. PICK l \in LRemAll(s.wait, j) : t = [g EXCEPT !.wait = l]
      BY <2>2
    <3>2. l \in Seq(Job) /\ ToSet(g.wait) \ {j} \subseteq ToSet(l)
      BY <1>2, <1>4, LRemAllType
    <3>3. OnTheWay(t, ({} \union {j}) \ ToSet(l)) /\ t.isPaused = g.isPaused
      <4>1. OnTheWay(g, {})
        BY <1>4
      <4> QED BY <4>1, <3>1, <3>2, WaitBecomes
    <3>4. OnTheWay(t, {j}) /\ j \in t.prioritized
      BY <1>4, <3>1, <3>3 DEF OnTheWay, Kept, Server
    <3> QED BY <1>4, <1>5, <3>3, <3>4
  <2>3. CASE s.isPaused /\ t \in {[g EXCEPT !.paused = rest] : rest \in LRemAll(s.paused, j)}
    <3>1. PICK l \in LRemAll(s.paused, j) : t = [g EXCEPT !.paused = l]
      BY <2>3
    <3>2. l \in Seq(Job) /\ ToSet(g.paused) \ {j} \subseteq ToSet(l)
      BY <1>2, <1>4, LRemAllType
    <3>3. OnTheWay(t, ({} \union {j}) \ ToSet(l)) /\ t.isPaused = g.isPaused
      BY <1>4, <2>3, <3>1, <3>2, PausedBecomes
    <3>4. OnTheWay(t, {j}) /\ j \in t.prioritized
      BY <1>4, <3>1, <3>3 DEF OnTheWay, Kept, Server
    <3> QED BY <1>4, <1>5, <3>3, <3>4
  <2>4. CASE t = RPushTarget([f EXCEPT !.prioritized = f.prioritized \ {j}], j)
    <3> DEFINE S == f.prioritized \ {j}
               u == [f EXCEPT !.prioritized = S]
    <3>1. S \in SUBSET Job /\ f.prioritized \ {j} \subseteq S
      BY <1>1 DEF OnTheWay, Server
    <3>2. t = RPushTarget(u, j)
      BY <2>4
    <3> HIDE DEF S
    <3>3. OnTheWay(u, ({} \union {j}) \ S) /\ u.isPaused = f.isPaused
      <4>1. OnTheWay(f, {}) /\ u = [f EXCEPT !.prioritized = S]
        BY <1>1
      <4> HIDE DEF u
      <4> QED BY <4>1, <3>1, SetBecomes
    <3> HIDE DEF u
    <3>4. OnTheWay(u, {j})
      BY <3>3 DEF OnTheWay, Kept
    <3>5. OnTheWay(t, {j} \ {j}) /\ t.isPaused = u.isPaused
      BY <3>2, <3>4, Pushed
    <3> QED BY <1>1, <3>3, <3>5 DEF OnTheWay, Kept
  <2>5. CASE t = f
    BY <2>5, <1>1
  <2> QED BY <1>3, <2>1, <2>2, <2>3, <2>4, <2>5
<1> QED BY <1>1, <1>6, BaseMarker DEF Steady

-----------------------------------------------------------------------------
(* The actions.                                                             *)

(* The inductive invariant.                                                 *)
IInv == TypeOK /\ Steady(q)

(* An empty queue has nothing to lose.                                      *)
LEMMA InitSteady == Init => IInv
<1> SUFFICES ASSUME Init PROVE IInv
  OBVIOUS
<1>1. q \in Server
  BY ParametersAssumption DEF Init, Server
<1>2. Kept(q, {}) /\ Drained(q) /\ Sent(q)
  BY DEF Init, Kept, Drained, Sent
<1> QED BY <1>1, <1>2 DEF Init, IInv, TypeOK, Steady, OnTheWay

(* The three ways to add a job.                                             *)
LEMMA AddSteady ==
  ASSUME Steady(q), NEW j \in Job, Add(j)
  PROVE  Steady(q') /\ UNCHANGED <<runs, alive>>
<1>1. q.isPaused \in BOOLEAN /\ 0 \in Nat /\ Priority \subseteq Nat
  BY ParametersAssumption DEF Steady, OnTheWay, Server
<1>2. CASE AddStandardJob(j)
  <2> DEFINE t == StoreJob(q, j, 0)
             u == LPushTarget(t, j)
  <2>1. OnTheWay(t, {j}) /\ t.isPaused = q.isPaused
    BY <1>1, Stored
  <2> HIDE DEF t
  <2>2. OnTheWay(u, {j} \ {j}) /\ u.isPaused = q.isPaused
    BY <2>1, Pushed
  <2>3. q' = AddBaseMarkerIfNeeded(u, q.isPaused) /\ UNCHANGED <<runs, alive>>
    BY <1>2 DEF AddStandardJob, t
  <2> HIDE DEF u
  <2>4. OnTheWay(u, {})
    BY <2>2 DEF OnTheWay, Kept
  <2> QED BY <1>1, <2>2, <2>3, <2>4, BaseMarker DEF Steady
<1>3. ASSUME NEW p \in Priority, AddPrioritizedJob(j, p)
      PROVE  Steady(q') /\ UNCHANGED <<runs, alive>>
  <2> DEFINE t == StoreJob(q, j, p)
             u == [t EXCEPT !.prioritized = t.prioritized \union {j}]
  <2>1. OnTheWay(t, {j}) /\ Sent(t) /\ t.isPaused = q.isPaused
    BY <1>1, Stored
  <2>2. q' = AddBaseMarkerIfNeeded(u, q.isPaused) /\ UNCHANGED <<runs, alive>>
    BY <1>3 DEF AddPrioritizedJob
  <2> HIDE DEF t
  <2>3. u = [t EXCEPT !.prioritized = t.prioritized \union {j}]
    OBVIOUS
  <2> HIDE DEF u
  <2>4. OnTheWay(u, {j} \ {j}) /\ u.isPaused = q.isPaused
    BY <2>1, <2>3, PutInSet
  <2>5. OnTheWay(u, {})
    BY <2>4 DEF OnTheWay, Kept
  <2> QED BY <1>1, <2>2, <2>4, <2>5, BaseMarker DEF Steady
<1>4. ASSUME NEW p \in Priority, AddDelayedJob(j, p)
      PROVE  Steady(q') /\ UNCHANGED <<runs, alive>>
  <2> DEFINE t == StoreJob(q, j, p)
             u == [t EXCEPT !.delayed = t.delayed \union {j}]
  <2>1. OnTheWay(t, {j}) /\ Sent(t) /\ t.isPaused = q.isPaused
    BY <1>1, Stored
  <2>2. q' = AddDelayMarkerIfNeeded(u) /\ UNCHANGED <<runs, alive>>
    BY <1>4 DEF AddDelayedJob
  <2> HIDE DEF t
  <2>3. u = [t EXCEPT !.delayed = t.delayed \union {j}]
    OBVIOUS
  <2> HIDE DEF u
  <2>4. OnTheWay(u, {j} \ {j}) /\ Sent(u)
    BY <2>1, <2>3, PutInSet
  <2>5. OnTheWay(u, {})
    BY <2>4 DEF OnTheWay, Kept
  <2> QED BY <2>2, <2>4, <2>5, DelayMarker DEF Steady
<1> QED BY <1>2, <1>3, <1>4 DEF Add

(* Each outcome of a handler.                                               *)
LEMMA HandlerSteady ==
  ASSUME Steady(q), runs \subseteq Run, NEW r \in runs, Handler(r)
  PROVE  Steady(q') /\ runs' \subseteq Run /\ alive' = alive
<1>1. /\ r \in Run /\ r.job \in Job /\ r.worker \in Worker /\ r.atm \in Nat /\ r.atm + 1 \in Nat
      /\ runs \ {r} \in SUBSET Run
  BY DEF Run
<1>2. CASE HandlerOk(r)
  <2>1. Steady(FinishAs(q, r, "completed", r.atm + 1))
    BY <1>1, Finished
  <2>2. CASE FetchNext(FinishAs(q, r, "completed", r.atm + 1), r.worker, runs \ {r})
    <3>1. alive' = alive
      BY <1>2 DEF HandlerOk
    <3> QED BY <1>1, <2>1, <2>2, <3>1, Fetched
  <2>3. CASE q' = FinishAs(q, r, "completed", r.atm + 1) /\ runs' = runs \ {r}
    BY <1>1, <1>2, <2>1, <2>3 DEF HandlerOk
  <2> QED BY <1>2, <2>2, <2>3 DEF HandlerOk
<1>3. CASE HandlerErr(r)
  BY <1>1, <1>3, Finished, Delayed DEF HandlerErr
<1>4. CASE HandlerRateLimited(r)
  BY <1>1, <1>4, MovedToWait DEF HandlerRateLimited
<1>5. CASE HandlerRejected(r) \/ HandlerCancelled(r)
  BY <1>1, <1>5 DEF HandlerRejected, HandlerCancelled
<1>6. CASE HandlerMoves(r)
  BY <1>1, <1>6, Finished, Delayed, Retried DEF HandlerMoves
<1> QED BY <1>2, <1>3, <1>4, <1>5, <1>6 DEF Handler

(* The stalled check gives up only jobs over the limit.                     *)
LEMMA StalledSteady ==
  ASSUME Steady(q), MoveStalledJobsToWait
  PROVE  Steady(q') /\ UNCHANGED <<runs, alive>>
<1> DEFINE found == {j \in Stale(q) : q.hash[j] # "none"}
           back  == {j \in found : q.stc[j] < MaxStalledCount}
           over  == found \ back
<1>1. PICK order \in Orders({j \in back : q.priority[j] = 0}) : q' = Unstall(q, back, over, order)
  BY DEF MoveStalledJobsToWait
<1>2. Stale(q) \subseteq Job /\ \A j \in Job : q.stc[j] \in Nat
  BY DEF Steady, OnTheWay, Server, Stale
<1>3. /\ back \in SUBSET Job /\ over \in SUBSET Job
      /\ \A j \in over : q.stc[j] >= MaxStalledCount
  BY <1>2, ParametersAssumption
<1> HIDE DEF back, over
<1>4. Steady(q')
  BY <1>1, <1>3, Unstalled
<1> QED BY <1>4 DEF MoveStalledJobsToWait

(* Locks, the stalled set and the limiter are no part of it.                *)
LEMMA LockKeysSteady ==
  ASSUME NEW s, Steady(s), NEW l \in [Job -> Worker \union {NoToken}],
         NEW u \in SUBSET Job, NEW m \in Nat,
         NEW t, t = [s EXCEPT !.lock = l, !.stalled = u, !.limiter = m]
  PROVE  Steady(t)
  BY DEF Steady, OnTheWay, Kept, Somewhere, Drained, Sent, Server

(* Calls about one job, and the expiry of its lock.                         *)
LEMMA JobCallSteady ==
  ASSUME Steady(q), NEW j \in Job, JobCall(j)
  PROVE  Steady(q') /\ UNCHANGED <<runs, alive>>
<1>1. /\ q \in Server /\ OnTheWay(q, {}) /\ Sent(q) /\ q.isPaused \in BOOLEAN
      /\ q.lock \in [Job -> Worker \union {NoToken}] /\ q.stalled \in SUBSET Job
      /\ q.limiter \in Nat /\ q.priority[j] \in Nat
      /\ Priority \subseteq Nat
  BY ParametersAssumption DEF Steady, OnTheWay, Server
<1>2. CASE LockExpires(j)
  <2> DEFINE l == [q.lock EXCEPT ![j] = NoToken]
  <2>1. l \in [Job -> Worker \union {NoToken}]
    BY <1>1
  <2>2. q' = [q EXCEPT !.lock = l, !.stalled = q.stalled, !.limiter = q.limiter]
    BY <1>1, <1>2 DEF LockExpires, Server
  <2> HIDE DEF l
  <2>3. Steady(q')
    BY <1>1, <2>1, <2>2, LockKeysSteady
  <2> QED BY <1>2, <2>3 DEF LockExpires
<1>3. CASE Promote(j)
  <2> DEFINE S == q.delayed \ {j}
             u == [q EXCEPT !.delayed = S]
             v == Touch(u, {j})
             w == Requeue(v, j, q.priority[j])
             b == q.isPaused /\ q.priority[j] = 0
  <2>1. S \in SUBSET Job /\ q.delayed \ {j} \subseteq S
    BY <1>1 DEF Server
  <2>2. q' = AddBaseMarkerIfNeeded(w, b) /\ UNCHANGED <<runs, alive>>
    BY <1>3 DEF Promote
  <2> HIDE DEF S
  <2>3. OnTheWay(u, ({} \union {j}) \ S) /\ u.isPaused = q.isPaused
    BY <1>1, <2>1, SetBecomes
  <2> HIDE DEF u
  <2>4. OnTheWay(u, {j})
    BY <2>3 DEF OnTheWay, Kept
  <2>5. OnTheWay(v, {j} \union {j}) /\ v.isPaused = q.isPaused
    BY <2>3, <2>4, Touched
  <2> HIDE DEF v
  <2>6. OnTheWay(w, ({j} \union {j}) \ {j}) /\ w.isPaused = q.isPaused
    BY <1>1, <2>5, Requeued
  <2> HIDE DEF w
  <2>7. OnTheWay(w, {}) /\ b \in BOOLEAN /\ (b => w.isPaused)
    BY <1>1, <2>6 DEF OnTheWay, Kept
  <2> HIDE DEF b
  <2> QED BY <2>2, <2>7, BaseMarker DEF Steady
<1>4. CASE RemoveJob(j)
  <2>1. PICK s \in RemovedFromAnyState(q, j) :
          q' = [s EXCEPT !.hash[j] = "none", !.priority[j] = 0, !.atm[j] = 0, !.stc[j] = 0]
    BY <1>4 DEF RemoveJob
  <2>2. OnTheWay(s, {j}) /\ Sent(s)
    BY TakenOut
  <2> DEFINE h == [s.hash EXCEPT ![j] = "none"]
             p == [s.priority EXCEPT ![j] = 0]
             m == [s.atm EXCEPT ![j] = 0]
             c == [s.stc EXCEPT ![j] = 0]
  <2>3. /\ s \in Server /\ h \in [Job -> {"none", "stored", "bare"}] /\ h[j] = "none"
        /\ p \in [Job -> Nat] /\ m \in [Job -> Nat] /\ c \in [Job -> Nat]
        /\ \A k \in Job \ {j} : h[k] = s.hash[k] /\ c[k] = s.stc[k]
    BY <2>2 DEF OnTheWay, Server
  <2>4. q' = [s EXCEPT !.hash = h, !.priority = p, !.atm = m, !.stc = c]
    BY <2>1, <2>3 DEF Server
  <2> HIDE DEF h, p, m, c
  <2>5. /\ q' \in Server /\ SamePlaces(s, q') /\ q'.isPaused = s.isPaused
        /\ q'.marker = s.marker /\ q'.hash = h /\ q'.stc = c
    BY <2>3, <2>4 DEF Server, SamePlaces
  <2>6. Kept(q', {})
    BY <2>2, <2>3, <2>5 DEF OnTheWay, Kept, Somewhere, SamePlaces
  <2>7. Drained(q') /\ Sent(q')
    BY <2>2, <2>5 DEF OnTheWay, Drained, Sent, SamePlaces
  <2> QED BY <1>4, <2>5, <2>6, <2>7 DEF RemoveJob, Steady, OnTheWay
<1>5. ASSUME NEW p \in Priority, ChangePriority(j, p)
      PROVE  Steady(q') /\ UNCHANGED <<runs, alive>>
  BY <1>1, <1>5, ReprioritisedJob DEF ChangePriority
<1> QED BY <1>2, <1>3, <1>4, <1>5 DEF JobCall

(* Batches out of the failed, completed or delayed set.                     *)
LEMMA BatchesSteady ==
  ASSUME Steady(q), NEW batch,
         \/ /\ batch \in SUBSET q.failed
            /\ q' \in MoveJobsToWait([q EXCEPT !.failed = @ \ batch], batch)
         \/ /\ batch \in SUBSET q.completed
            /\ q' \in MoveJobsToWait([q EXCEPT !.completed = @ \ batch], batch)
         \/ /\ batch \in SUBSET q.delayed
            /\ q' \in MoveJobsToWait([q EXCEPT !.delayed = @ \ batch], batch)
  PROVE  Steady(q')
<1>1. /\ OnTheWay(q, {})
      /\ q.failed \in SUBSET Job /\ q.completed \in SUBSET Job /\ q.delayed \in SUBSET Job
  BY DEF Steady, OnTheWay, Server
<1>2. batch \in SUBSET Job
  BY <1>1
<1>3. ASSUME NEW u, NEW S \in SUBSET Job, q' \in MoveJobsToWait(u, batch),
             \/ q.failed \ batch \subseteq S /\ u = [q EXCEPT !.failed = S]
             \/ q.completed \ batch \subseteq S /\ u = [q EXCEPT !.completed = S]
             \/ q.delayed \ batch \subseteq S /\ u = [q EXCEPT !.delayed = S]
      PROVE  Steady(q')
  <2>1. OnTheWay(u, ({} \union batch) \ S)
    BY <1>1, <1>3, SetBecomes
  <2>2. OnTheWay(u, batch)
    BY <2>1 DEF OnTheWay, Kept
  <2> QED BY <1>2, <1>3, <2>2, BatchMoved
<1>4. CASE q' \in MoveJobsToWait([q EXCEPT !.failed = @ \ batch], batch)
  <2> DEFINE S == q.failed \ batch
             u == [q EXCEPT !.failed = S]
  <2>1. S \in SUBSET Job /\ q.failed \ batch \subseteq S
    BY <1>1
  <2>2. q' \in MoveJobsToWait(u, batch)
    BY <1>4
  <2> HIDE DEF S
  <2>3. u = [q EXCEPT !.failed = S]
    OBVIOUS
  <2> HIDE DEF u
  <2> QED BY <1>3, <2>1, <2>2, <2>3
<1>5. CASE q' \in MoveJobsToWait([q EXCEPT !.completed = @ \ batch], batch)
  <2> DEFINE S == q.completed \ batch
             u == [q EXCEPT !.completed = S]
  <2>1. S \in SUBSET Job /\ q.completed \ batch \subseteq S
    BY <1>1
  <2>2. q' \in MoveJobsToWait(u, batch)
    BY <1>5
  <2> HIDE DEF S
  <2>3. u = [q EXCEPT !.completed = S]
    OBVIOUS
  <2> HIDE DEF u
  <2> QED BY <1>3, <2>1, <2>2, <2>3
<1>6. CASE q' \in MoveJobsToWait([q EXCEPT !.delayed = @ \ batch], batch)
  <2> DEFINE S == q.delayed \ batch
             u == [q EXCEPT !.delayed = S]
  <2>1. S \in SUBSET Job /\ q.delayed \ batch \subseteq S
    BY <1>1
  <2>2. q' \in MoveJobsToWait(u, batch)
    BY <1>6
  <2> HIDE DEF S
  <2>3. u = [q EXCEPT !.delayed = S]
    OBVIOUS
  <2> HIDE DEF u
  <2> QED BY <1>3, <2>1, <2>2, <2>3
<1> QED BY <1>4, <1>5, <1>6

(* Calls about the whole queue.                                             *)
LEMMA QueueCallSteady ==
  ASSUME Steady(q), QueueCall
  PROVE  Steady(q') /\ UNCHANGED <<runs, alive>>
<1>1. /\ q \in Server /\ OnTheWay(q, {}) /\ Sent(q)
      /\ q.wait \in Seq(Job) /\ q.paused \in Seq(Job)
      /\ q.lock \in [Job -> Worker \union {NoToken}] /\ q.stalled \in SUBSET Job
      /\ MaxJobs \in Nat /\ 0 \in Nat
  BY ParametersAssumption DEF Steady, OnTheWay, Server
<1> <<>> \in Seq(Job)
  OBVIOUS
<1>2. CASE Pause
  <2> DEFINE l == q.wait \o q.paused
  <2>1. l \in Seq(Job) /\ ToSet(l) = ToSet(q.wait) \union ToSet(q.paused)
    BY <1>1, ToSetConcat
  <2>2. q' = [q EXCEPT !.isPaused = TRUE, !.paused = l, !.wait = <<>>]
    BY <1>2 DEF Pause
  <2> HIDE DEF l
  <2>3. Steady(q')
    <3>1. /\ q' \in Server /\ q'.isPaused /\ q'.paused = l
          /\ q'.active = q.active /\ q'.prioritized = q.prioritized /\ q'.delayed = q.delayed
          /\ q'.completed = q.completed /\ q'.failed = q.failed
          /\ q'.hash = q.hash /\ q'.stc = q.stc
      BY <1>1, <2>1, <2>2 DEF Server
    <3>2. Kept(q', {})
      BY <1>1, <2>1, <3>1 DEF OnTheWay, Kept, Somewhere
    <3> QED BY <3>1, <3>2 DEF Steady, OnTheWay, Drained, Sent
  <2> QED BY <1>2, <2>3 DEF Pause
<1>3. CASE Resume
  <2> DEFINE l == q.paused \o q.wait
             t == [q EXCEPT !.isPaused = FALSE, !.wait = l, !.paused = <<>>]
  <2>1. l \in Seq(Job) /\ ToSet(l) = ToSet(q.paused) \union ToSet(q.wait)
    BY <1>1, ToSetConcat
  <2>2. q' = AddBaseMarkerIfNeeded(t, FALSE) /\ UNCHANGED <<runs, alive>>
    BY <1>3 DEF Resume
  <2> HIDE DEF l
  <2>3. /\ t \in Server /\ t.wait = l /\ t.paused = <<>>
        /\ t.active = q.active /\ t.prioritized = q.prioritized /\ t.delayed = q.delayed
        /\ t.completed = q.completed /\ t.failed = q.failed
        /\ t.hash = q.hash /\ t.stc = q.stc
    BY <1>1, <2>1 DEF Server
  <2> HIDE DEF t
  <2>4. Kept(t, {})
    BY <1>1, <2>1, <2>3 DEF OnTheWay, Kept, Somewhere
  <2>5. OnTheWay(t, {}) /\ FALSE \in BOOLEAN
    BY <2>3, <2>4 DEF OnTheWay, Drained
  <2> QED BY <2>2, <2>5, BaseMarker DEF Steady
<1>4. CASE RetryJobs \/ PromoteJobs
  <2>1. Steady(q')
    BY <1>4, BatchesSteady DEF RetryJobs, PromoteJobs
  <2> QED BY <1>4, <2>1 DEF RetryJobs, PromoteJobs
<1>5. CASE RateLimit \/ LimiterExpires
  <2>1. PICK m \in Nat : q' = [q EXCEPT !.limiter = m]
    BY <1>1, <1>5 DEF RateLimit, LimiterExpires
  <2>2. q' = [q EXCEPT !.lock = q.lock, !.stalled = q.stalled, !.limiter = m]
    BY <1>1, <2>1 DEF Server
  <2>3. Steady(q')
    BY <1>1, <2>2, LockKeysSteady
  <2> QED BY <1>5, <2>3 DEF RateLimit, LimiterExpires
<1> QED BY <1>2, <1>3, <1>4, <1>5 DEF QueueCall

(* Every step keeps the invariant.                                          *)
LEMMA StepSteady == IInv /\ [Next]_vars => IInv'
<1> SUFFICES ASSUME IInv, [Next]_vars PROVE IInv'
  OBVIOUS
<1>1. Steady(q) /\ q \in Server /\ runs \subseteq Run /\ alive \subseteq Worker
  BY DEF IInv, TypeOK
<1>2. ASSUME Steady(q'), runs' \subseteq Run, alive' \subseteq Worker PROVE IInv'
  BY <1>2 DEF IInv, TypeOK, Steady, OnTheWay, Kept, Somewhere, Drained, Sent
<1>3. ASSUME NEW j \in Job, Add(j) PROVE IInv'
  BY <1>1, <1>2, <1>3, AddSteady
<1>4. ASSUME NEW j \in Job, JobCall(j) PROVE IInv'
  BY <1>1, <1>2, <1>4, JobCallSteady
<1>5. ASSUME NEW w \in Worker, MoveToActive(w) PROVE IInv'
  BY <1>1, <1>2, <1>5, Fetched DEF MoveToActive
<1>6. ASSUME NEW w \in Worker, Crash(w) PROVE IInv'
  BY <1>1, <1>2, <1>6 DEF Crash
<1>7. ASSUME NEW r \in runs, Handler(r) PROVE IInv'
  BY <1>1, <1>2, <1>7, HandlerSteady
<1>8. ASSUME NEW r \in runs, ExtendLock(r) PROVE IInv'
  <2>1. /\ q.lock \in [Job -> Worker \union {NoToken}] /\ q.limiter \in Nat
        /\ q.stalled \ {r.job} \in SUBSET Job
    BY <1>1 DEF Server
  <2>2. q' = [q EXCEPT !.lock = q.lock, !.stalled = q.stalled \ {r.job}, !.limiter = q.limiter]
    BY <1>1, <1>8 DEF ExtendLock, Server
  <2>3. Steady(q')
    BY <1>1, <2>1, <2>2, LockKeysSteady
  <2> QED BY <1>1, <1>2, <1>8, <2>3 DEF ExtendLock
<1>9. CASE MoveStalledJobsToWait
  BY <1>1, <1>2, <1>9, StalledSteady
<1>10. CASE QueueCall
  BY <1>1, <1>2, <1>10, QueueCallSteady
<1>11. CASE UNCHANGED vars
  BY <1>1, <1>2, <1>11 DEF vars
<1> QED BY <1>3, <1>4, <1>5, <1>6, <1>7, <1>8, <1>9, <1>10, <1>11 DEF Next

-----------------------------------------------------------------------------
(* Theorems.                                                                *)

(* The invariant holds in every reachable state.                            *)
LEMMA SpecSteady == Spec => []IInv
  BY InitSteady, StepSteady, PTL DEF Spec

(* Every key of the queue, and every run, keeps its type.                   *)
THEOREM TypeCorrect == Spec => []TypeOK
<1>1. IInv => TypeOK
  BY DEF IInv
<1> QED BY <1>1, SpecSteady, PTL

(* A job that exists and has not used up its stalls is in some list or set, *)
(* whatever calls, crashes and lost locks there were.                       *)
THEOREM NeverLostHolds == Spec => []NeverLost
<1>1. IInv => NeverLost
  <2> SUFFICES ASSUME IInv, NEW j \in Job,
                      q.hash[j] # "none", q.stc[j] <= MaxStalledCount
               PROVE  Places(q, j) > 0
    BY DEF NeverLost
  <2>1. Somewhere(q, j) /\ q.active[j] \in Nat
    BY DEF IInv, Steady, OnTheWay, Kept, Server
  <2> DEFINE b1 == Bit(j \in ToSet(q.wait))
             b2 == Bit(j \in ToSet(q.paused))
             b3 == Bit(j \in q.prioritized)
             b4 == Bit(j \in q.delayed)
             b5 == Bit(j \in q.completed)
             b6 == Bit(j \in q.failed)
  <2>2. /\ b1 \in Nat /\ b2 \in Nat /\ b3 \in Nat /\ b4 \in Nat /\ b5 \in Nat /\ b6 \in Nat
    BY DEF Bit
  <2>3. \/ b1 = 1 \/ b2 = 1 \/ q.active[j] > 0 \/ b3 = 1 \/ b4 = 1 \/ b5 = 1 \/ b6 = 1
    BY <2>1 DEF Somewhere, Bit
  <2>4. Places(q, j) = b1 + b2 + q.active[j] + b3 + b4 + b5 + b6
    BY DEF Places
  <2> HIDE DEF b1, b2, b3, b4, b5, b6
  <2> QED BY <2>1, <2>2, <2>3, <2>4
<1> QED BY <1>1, SpecSteady, PTL

(* Nothing is put into the paused list of a queue that is not paused, and   *)
(* resume leaves nothing behind.                                            *)
THEOREM PausedListDrained == Spec => []PausedListOnlyWhilePaused
<1>1. IInv => PausedListOnlyWhilePaused
  BY DEF IInv, Steady, OnTheWay, Drained, PausedListOnlyWhilePaused
<1> QED BY <1>1, SpecSteady, PTL

(* Scripts never leave a plain job waiting without the base marker.         *)
THEOREM SignalledHolds == Spec => []Signalled
<1>1. IInv => Signalled
  BY DEF IInv, Steady, Sent, Signalled
<1> QED BY <1>1, SpecSteady, PTL
=============================================================================
