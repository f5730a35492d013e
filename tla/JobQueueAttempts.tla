-------------------------- MODULE JobQueueAttempts --------------------------
(***************************************************************************)
(* JobOptions::attempts is how often a job is executed: while no worker     *)
(* checks for stalled jobs, and no call gives a job another chance, no job  *)
(* is claimed more often than that, whatever crashes, expired locks, late   *)
(* reports and cancelled handlers do.                                       *)
(*                                                                          *)
(* The scripts never compare the two.  A handler's worker computes the      *)
(* attempts made from what it was told at the claim, and the script writes  *)
(* that into the hash: it is true only because no other handler has changed *)
(* the hash in between.                                                     *)
(***************************************************************************)
EXTENDS JobQueueExclusion

(* No call sends a job back that has had its attempts, or returns one       *)
(* without counting the attempt.                                            *)
NoMoreChances == "retry_jobs" \notin Env /\ "rate_limit" \notin Env

(* What the lists, sets and runs agree about (see JobQueueExclusion).       *)
Tidy ==
  /\ q \in Server /\ runs \subseteq Run
  /\ \A j \in Job :
       /\ q.active[j] \in {0, 1}
       /\ q.active[j] = 1 => q.hash[j] # "none" /\ j \notin q.completed \union q.failed
       /\ q.hash[j] = "none" => j \notin q.completed \union q.failed
  /\ \A r \in runs : q.active[r.job] = 1
  /\ \A r1, r2 \in runs : r1.job = r2.job => r1 = r2

(* The claims of a job are the attempts it has made and, while it is        *)
(* active, the one it is making; and a run knows the attempts made.         *)
Counted(s, R) ==
  /\ \A j \in Job :
       /\ s.hash[j] = "none" => s.atm[j] = 0
       /\ j \notin s.completed \union s.failed
            => s.atm[j] < MaxAttempts /\ s.ats[j] = s.atm[j] + s.active[j]
       /\ s.ats[j] <= MaxAttempts
  /\ \A r \in R : r.atm = s.atm[r.job]

LEMMA LocatedTidy ==
  ASSUME IInv, LocatedSole
  PROVE  Tidy
<1>1. PICK f \in [Job -> Where] : Ruled(q, f) /\ Sole(f)
  BY DEF LocatedSole
<1>2. q \in Server /\ runs \subseteq Run /\ \A r \in runs : r.job \in Job
  BY DEF IInv, TypeOK, Run
<1> QED BY <1>1, <1>2 DEF Tidy, Ruled, Placed, Sole

-----------------------------------------------------------------------------
(* Steps that count nothing.                                                *)

Keys == {"wait", "paused", "active", "prioritized", "delayed", "completed", "failed",
         "stalled", "lock", "isPaused", "marker", "limiter", "hash", "priority",
         "atm", "ats", "stc"}

(* No job has been claimed, has finished or left the active list.           *)
Same(s, t) ==
  /\ DOMAIN t = Keys
  /\ t.atm = s.atm /\ t.ats = s.ats /\ t.active = s.active
  /\ t.completed = s.completed /\ t.failed = s.failed
  /\ \A j \in Job : t.hash[j] = "none" => s.hash[j] = "none"

LEMMA SameTwice ==
  ASSUME NEW s, NEW t, NEW u, Same(s, t), Same(t, u)
  PROVE  Same(s, u)
  BY DEF Same

(* Such a step keeps the count.                                             *)
LEMMA SameCounted ==
  ASSUME NEW s, NEW t, NEW R, NEW S, Counted(s, R), Same(s, t), S \subseteq R
  PROVE  Counted(t, S)
  BY DEF Counted, Same

LEMMA ServerKeys ==
  ASSUME NEW s \in Server
  PROVE  DOMAIN s = Keys
  BY DEF Server, Keys

(* The helpers of the scripts.                                              *)
LEMMA HelpersSame ==
  ASSUME NEW s, DOMAIN s = Keys, NEW j, NEW p, NEW b, NEW J
  PROVE  /\ Same(s, s)
         /\ Same(s, AddBaseMarkerIfNeeded(s, b)) /\ Same(s, AddDelayMarkerIfNeeded(s))
         /\ Same(s, RPushTarget(s, j)) /\ Same(s, Requeue(s, j, p))
         /\ Same(s, Touch(s, J))
<1>1. Same(s, s)
  BY DEF Same
<1>2. Same(s, AddBaseMarkerIfNeeded(s, b)) /\ Same(s, AddDelayMarkerIfNeeded(s))
  BY DEF Same, Keys, AddBaseMarkerIfNeeded, AddDelayMarkerIfNeeded
<1>3. Same(s, RPushTarget(s, j))
  BY DEF Same, Keys, RPushTarget
<1>4. Same(s, Requeue(s, j, p))
  BY <1>3 DEF Same, Keys, Requeue
<1>5. Same(s, Touch(s, J))
  BY DEF Same, Keys, Touch
<1> QED BY <1>1, <1>2, <1>3, <1>4, <1>5

(* Waking delayed jobs.                                                     *)
LEMMA PromotionSame ==
  ASSUME NEW s \in Server, NEW p \in Promotions(s)
  PROVE  Same(s, p)
<1>1. PICK due \in SUBSET s.delayed : \E order : p = PromoteDelayedJobs(s, due, order)
  BY DEF Promotions
<1>2. PICK order : p = PromoteDelayedJobs(s, due, order)
  BY <1>1
<1> DEFINE a == [s EXCEPT !.delayed = @ \ due, !.wait = order \o @,
                          !.prioritized = @ \union {j \in due : s.priority[j] > 0}]
<1>3. Same(s, a)
  BY ServerKeys DEF Same, Keys
<1>4. p = s \/ p = AddBaseMarkerIfNeeded(Touch(a, due), s.isPaused)
  BY <1>2 DEF PromoteDelayedJobs
<1> HIDE DEF a
<1>5. Same(s, s) /\ DOMAIN a = Keys
  BY <1>3, ServerKeys DEF Same
<1>6. Same(a, Touch(a, due))
  BY <1>5, HelpersSame
<1>7. DOMAIN Touch(a, due) = Keys
  BY <1>6 DEF Same
<1>8. Same(Touch(a, due), AddBaseMarkerIfNeeded(Touch(a, due), s.isPaused))
  BY <1>7, HelpersSame
<1> QED BY <1>3, <1>4, <1>5, <1>6, <1>8, SameTwice

(* A batch that is already out of its set.                                  *)
LEMMA BatchSame ==
  ASSUME NEW s, DOMAIN s = Keys, NEW batch, NEW t \in MoveJobsToWait(s, batch)
  PROVE  Same(s, t)
<1>1. PICK order : t = AddBaseMarkerIfNeeded(
                         IF s.isPaused THEN [s EXCEPT !.paused = order \o @]
                                       ELSE [s EXCEPT !.wait = order \o @], s.isPaused)
  BY DEF MoveJobsToWait
<1> DEFINE a == IF s.isPaused THEN [s EXCEPT !.paused = order \o @]
                              ELSE [s EXCEPT !.wait = order \o @]
<1>2. Same(s, a)
  BY DEF Same, Keys
<1> HIDE DEF a
<1>3. Same(a, AddBaseMarkerIfNeeded(a, s.isPaused))
  BY <1>2, HelpersSame DEF Same
<1>4. t = AddBaseMarkerIfNeeded(a, s.isPaused)
  BY <1>1 DEF a
<1> QED BY <1>2, <1>3, <1>4, SameTwice

(* A change of priority.                                                    *)
LEMMA PrioritySame ==
  ASSUME NEW s \in Server, NEW j, NEW priority, NEW t \in Reprioritised(s, j, priority)
  PROVE  Same(s, t)
<1> DEFINE a == [s EXCEPT !.priority[j] = priority]
           b == Touch(a, {j})
           c == [b EXCEPT !.prioritized = @ \union {j}]
           d == [b EXCEPT !.prioritized = @ \ {j}]
<1>1. Same(s, a)
  BY ServerKeys DEF Same, Keys
<1>2. \/ t = b \/ t = c \/ t = RPushTarget(d, j)
      \/ \E rest : t = [c EXCEPT !.wait = rest]
      \/ \E rest : t = [c EXCEPT !.paused = rest]
  BY DEF Reprioritised
<1> HIDE DEF a
<1>3. Same(a, b)
  BY <1>1, HelpersSame DEF Same
<1> HIDE DEF b
<1>4. Same(b, c) /\ Same(b, d)
  BY <1>3 DEF Same, Keys
<1> HIDE DEF c, d
<1>5. /\ Same(d, RPushTarget(d, j))
      /\ \A rest : Same(c, [c EXCEPT !.wait = rest]) /\ Same(c, [c EXCEPT !.paused = rest])
  <2>1. Same(d, RPushTarget(d, j))
    <3>1. DOMAIN d = Keys
      BY <1>4 DEF Same
    <3> QED BY <3>1, HelpersSame
  <2>2. \A rest : Same(c, [c EXCEPT !.wait = rest]) /\ Same(c, [c EXCEPT !.paused = rest])
    BY <1>4 DEF Same, Keys
  <2> QED BY <2>1, <2>2
<1>6. Same(s, b)
  BY <1>1, <1>3, SameTwice
<1>7. Same(s, c) /\ Same(s, d)
  BY <1>4, <1>6, SameTwice
<1> QED BY <1>2, <1>5, <1>6, <1>7, SameTwice
-----------------------------------------------------------------------------
(* Claims.                                                                  *)

LEMMA ClaimCounts ==
  ASSUME NEW s \in Server, NEW j \in Job, NEW w
  PROVE  LET t == Claim(s, j, w)
         IN  /\ t.atm = s.atm /\ t.completed = s.completed /\ t.failed = s.failed
             /\ t.ats    = [s.ats EXCEPT ![j] = s.ats[j] + 1]
             /\ t.active = [s.active EXCEPT ![j] = s.active[j] + 1]
             /\ \A k \in Job : t.hash[k] = "none" => s.hash[k] = "none"
<1> DEFINE a == TakeNext(s, j)
           b == Touch(a, {j})
           c == [b EXCEPT !.lock[j] = w, !.stalled = @ \union {j}, !.ats[j] = @ + 1,
                          !.limiter = IF MaxJobs > 0 THEN @ + 1 ELSE @,
                          !.marker = @ \ {"0"}]
<1>1. /\ DOMAIN a = Keys /\ a.atm = s.atm /\ a.ats = s.ats /\ a.hash = s.hash
      /\ a.completed = s.completed /\ a.failed = s.failed
      /\ a.active = [s.active EXCEPT ![j] = s.active[j] + 1]
  BY ServerKeys DEF TakeNext, Keys
<1> HIDE DEF a
<1>2. Same(a, b)
  BY <1>1, HelpersSame
<1> HIDE DEF b
<1>3. /\ DOMAIN c = Keys /\ c.atm = b.atm /\ c.hash = b.hash /\ c.active = b.active
      /\ c.completed = b.completed /\ c.failed = b.failed
      /\ c.ats = [b.ats EXCEPT ![j] = b.ats[j] + 1]
  BY <1>2 DEF Same, Keys
<1>4. PICK x : Claim(s, j, w) = AddBaseMarkerIfNeeded(c, x)
  BY DEF Claim, a, b
<1> HIDE DEF c
<1>5. Same(c, AddBaseMarkerIfNeeded(c, x))
  BY <1>3, HelpersSame
<1> QED BY <1>1, <1>2, <1>3, <1>4, <1>5 DEF Same

(* moveToActive, and the second half of moveToFinished: the job claimed was *)
(* not active and had an attempt left.                                      *)
LEMMA FetchCounted ==
  ASSUME NEW s, Steady(s), NEW others, Counted(s, others), NEW w \in Worker,
         FetchNext(s, w, others), Tidy'
  PROVE  Counted(q', runs')
<1>1. PICK p \in Promotions(s) :
        \/ q' = p /\ runs' = others
        \/ q' = AddDelayMarkerIfNeeded(p) /\ runs' = others
        \/ /\ ~p.isPaused
           /\ \E j \in Candidates(p) :
                q' = Claim(p, j, w) /\ runs' = others \union Received(q', j, w)
  BY DEF FetchNext
<1>2. Steady(p)
  <2>1. PICK due \in SUBSET s.delayed :
          \E order \in Orders({j \in due : s.priority[j] = 0}) :
            p = PromoteDelayedJobs(s, due, order)
    BY DEF Promotions
  <2> QED BY <2>1, Promoted
<1>3. s \in Server /\ p \in Server
  BY <1>2 DEF Steady, OnTheWay
<1>4. Counted(p, others)
  BY <1>3, PromotionSame, SameCounted
<1>5. CASE runs' = others /\ (q' = p \/ q' = AddDelayMarkerIfNeeded(p))
  <2>1. Same(p, q')
    BY <1>3, <1>5, ServerKeys, HelpersSame
  <2> QED BY <1>4, <1>5, <2>1, SameCounted
<1>6. ASSUME ~p.isPaused, NEW j \in Candidates(p), q' = Claim(p, j, w),
             runs' = others \union Received(q', j, w)
      PROVE  Counted(q', runs')
  <2>1. j \in Job
    BY <1>2, <1>6, Claimed
  <2>2. /\ q'.atm = p.atm /\ q'.completed = p.completed /\ q'.failed = p.failed
        /\ q'.ats    = [p.ats EXCEPT ![j] = p.ats[j] + 1]
        /\ q'.active = [p.active EXCEPT ![j] = p.active[j] + 1]
        /\ \A k \in Job : q'.hash[k] = "none" => p.hash[k] = "none"
    BY <1>3, <1>6, <2>1, ClaimCounts
  <2>3. /\ p.active \in [Job -> Nat] /\ p.ats \in [Job -> Nat] /\ p.atm \in [Job -> Nat]
        /\ MaxAttempts \in Nat
    BY <1>3, ParametersAssumption DEF Server
  <2>4. /\ q'.active[j] \in {0, 1}
        /\ q'.active[j] = 1 => j \notin q'.completed \union q'.failed
    BY <2>1 DEF Tidy
  <2>5. p.active[j] = 0 /\ j \notin p.completed \union p.failed
    BY <2>1, <2>2, <2>3, <2>4
  <2>6. p.atm[j] < MaxAttempts /\ p.ats[j] = p.atm[j]
    BY <1>4, <2>1, <2>3, <2>5 DEF Counted
  <2>7. ASSUME NEW k \in Job
        PROVE  /\ q'.hash[k] = "none" => q'.atm[k] = 0
               /\ k \notin q'.completed \union q'.failed
                    => q'.atm[k] < MaxAttempts /\ q'.ats[k] = q'.atm[k] + q'.active[k]
               /\ q'.ats[k] <= MaxAttempts
    <3>1. CASE k = j
      BY <1>4, <2>1, <2>2, <2>3, <2>5, <2>6, <3>1 DEF Counted
    <3>2. CASE k # j
      BY <1>4, <2>1, <2>2, <2>3, <3>2 DEF Counted
    <3> QED BY <3>1, <3>2
  <2>8. \A r \in runs' : r.atm = q'.atm[r.job]
    BY <1>4, <1>6, <2>2 DEF Counted, Received
  <2> QED BY <2>7, <2>8 DEF Counted
<1> QED BY <1>1, <1>5, <1>6

-----------------------------------------------------------------------------
(* Outcomes.                                                                *)

(* The only handler of the job reports what it was told at the claim, so    *)
(* that its attempt is counted once.                                        *)
LEMMA OutcomeCounted ==
  ASSUME Tidy, Counted(q, runs), NEW r \in runs, Owns(q, r), NEW s,
         \/ s = FinishAs(q, r, "completed", r.atm + 1)
         \/ s = FinishAs(q, r, "failed", r.atm + 1)
         \/ s = MoveToDelayed(q, r, r.atm + 1) /\ r.atm + 1 < MaxAttempts
  PROVE  Counted(s, runs \ {r})
<1> DEFINE j == r.job
           a == Release(q, j)
           b == [a EXCEPT !.atm[j] = r.atm + 1]
<1>1. /\ j \in Job /\ r.atm = q.atm[j] /\ q.active[j] = 1
      /\ j \notin q.completed \union q.failed /\ q.hash[j] # "none"
      /\ \A x \in runs \ {r} : x.job # j /\ x.job \in Job
  BY DEF Tidy, Counted, Run
<1>2. /\ q.active \in [Job -> Nat] /\ q.ats \in [Job -> Nat] /\ q.atm \in [Job -> Nat]
      /\ DOMAIN q = Keys /\ MaxAttempts \in Nat
  BY ServerKeys, ParametersAssumption DEF Tidy, Server
<1>3. q.atm[j] < MaxAttempts /\ q.ats[j] = q.atm[j] + 1
  BY <1>1, <1>2 DEF Counted
<1>4. /\ DOMAIN a = Keys /\ a.atm = q.atm /\ a.ats = q.ats /\ a.hash = q.hash
      /\ a.completed = q.completed /\ a.failed = q.failed
      /\ a.active = [q.active EXCEPT ![j] = 0]
  BY <1>1, <1>2 DEF Release, Keys
<1>5. \/ s = [a EXCEPT !.completed = a.completed \union {j}, !.atm[j] = r.atm + 1]
      \/ s = [a EXCEPT !.failed = a.failed \union {j}, !.atm[j] = r.atm + 1]
      \/ /\ s = AddDelayMarkerIfNeeded([a EXCEPT !.delayed = a.delayed \union {j},
                                                 !.atm[j] = r.atm + 1])
         /\ r.atm + 1 < MaxAttempts
  BY DEF FinishAs, MoveToDelayed
<1> HIDE DEF a
<1>6. /\ s.atm = [q.atm EXCEPT ![j] = r.atm + 1] /\ s.ats = q.ats
      /\ s.active = [q.active EXCEPT ![j] = 0]
      /\ \A k \in Job : s.hash[k] = "none" => q.hash[k] = "none"
      /\ \A k \in Job : k # j => /\ k \in s.completed <=> k \in q.completed
                                 /\ k \in s.failed <=> k \in q.failed
      /\ j \in s.completed \union s.failed \/ r.atm + 1 < MaxAttempts
  <2> DEFINE d == [a EXCEPT !.delayed = a.delayed \union {j}, !.atm[j] = r.atm + 1]
  <2>1. CASE s = [a EXCEPT !.completed = a.completed \union {j}, !.atm[j] = r.atm + 1]
    BY <1>4, <2>1 DEF Keys
  <2>2. CASE s = [a EXCEPT !.failed = a.failed \union {j}, !.atm[j] = r.atm + 1]
    BY <1>4, <2>2 DEF Keys
  <2>3. CASE s = AddDelayMarkerIfNeeded(d) /\ r.atm + 1 < MaxAttempts
    <3>1. /\ DOMAIN d = Keys /\ d.atm = [q.atm EXCEPT ![j] = r.atm + 1]
          /\ d.ats = q.ats /\ d.hash = q.hash /\ d.completed = q.completed
          /\ d.failed = q.failed /\ d.active = [q.active EXCEPT ![j] = 0]
      BY <1>4 DEF Keys
    <3> HIDE DEF d
    <3>2. Same(d, s)
      BY <2>3, <3>1, HelpersSame
    <3> QED BY <2>3, <3>1, <3>2 DEF Same
  <2> QED BY <1>5, <2>1, <2>2, <2>3
<1>7. ASSUME NEW k \in Job
      PROVE  /\ s.hash[k] = "none" => s.atm[k] = 0
             /\ k \notin s.completed \union s.failed
                  => s.atm[k] < MaxAttempts /\ s.ats[k] = s.atm[k] + s.active[k]
             /\ s.ats[k] <= MaxAttempts
  <2>1. CASE k = j
    <3>1. s.atm[j] = q.atm[j] + 1 /\ s.ats[j] = q.ats[j] /\ s.active[j] = 0
      BY <1>1, <1>2, <1>6
    <3>2. s.hash[j] # "none" /\ (j \in s.completed \union s.failed \/ q.atm[j] + 1 < MaxAttempts)
      BY <1>1, <1>6
    <3>3. q.atm[j] \in Nat
      BY <1>1, <1>2
    <3> HIDE DEF j
    <3> QED BY <1>2, <1>3, <2>1, <3>1, <3>2, <3>3
  <2>2. CASE k # j
    <3>1. s.atm[k] = q.atm[k] /\ s.ats[k] = q.ats[k] /\ s.active[k] = q.active[k]
      BY <1>2, <1>6, <2>2
    <3>2. /\ s.hash[k] = "none" => q.hash[k] = "none"
          /\ k \in s.completed <=> k \in q.completed
          /\ k \in s.failed <=> k \in q.failed
      BY <1>6, <2>2
    <3> QED BY <3>1, <3>2 DEF Counted
  <2> QED BY <2>1, <2>2
<1>8. \A x \in runs \ {r} : x.atm = s.atm[x.job]
  BY <1>1, <1>2, <1>6 DEF Counted
<1> QED BY <1>7, <1>8 DEF Counted
-----------------------------------------------------------------------------
(* The actions.                                                             *)

(* A new job has been claimed never and has all its attempts left.          *)
LEMMA AddCounted ==
  ASSUME Tidy, Counted(q, runs), NEW j \in Job, Add(j)
  PROVE  Counted(q', runs')
<1>1. /\ q.active \in [Job -> Nat] /\ q.ats \in [Job -> Nat] /\ q.atm \in [Job -> Nat]
      /\ DOMAIN q = Keys /\ q.hash \in [Job -> {"none", "stored", "bare"}]
      /\ MaxAttempts \in Nat \ {0}
  BY ServerKeys, ParametersAssumption DEF Tidy, Server
<1>2. q.hash[j] = "none" /\ UNCHANGED <<runs, alive>>
  BY DEF Add, AddStandardJob, AddPrioritizedJob, AddDelayedJob
<1>3. q.atm[j] = 0
  BY <1>2 DEF Counted
<1>4. ASSUME NEW p PROVE Same(q, StoreJob(q, j, p))
  <2>1. [q.atm EXCEPT ![j] = 0] = q.atm
    BY <1>1, <1>3
  <2>2. /\ DOMAIN StoreJob(q, j, p) = Keys
        /\ StoreJob(q, j, p).atm = [q.atm EXCEPT ![j] = 0]
        /\ StoreJob(q, j, p).hash = [q.hash EXCEPT ![j] = "stored"]
        /\ StoreJob(q, j, p).ats = q.ats /\ StoreJob(q, j, p).active = q.active
        /\ StoreJob(q, j, p).completed = q.completed /\ StoreJob(q, j, p).failed = q.failed
    BY <1>1 DEF StoreJob, Keys
  <2> QED BY <1>1, <2>1, <2>2 DEF Same
<1>5. \E p, s, b : /\ \/ s = LPushTarget(StoreJob(q, j, p), j)
                      \/ s = [StoreJob(q, j, p) EXCEPT !.prioritized = @ \union {j}]
                      \/ s = [StoreJob(q, j, p) EXCEPT !.delayed = @ \union {j}]
                   /\ q' = AddBaseMarkerIfNeeded(s, b) \/ q' = AddDelayMarkerIfNeeded(s)
  BY DEF Add, AddStandardJob, AddPrioritizedJob, AddDelayedJob
<1>6. PICK p, s, b : /\ \/ s = LPushTarget(StoreJob(q, j, p), j)
                        \/ s = [StoreJob(q, j, p) EXCEPT !.prioritized = @ \union {j}]
                        \/ s = [StoreJob(q, j, p) EXCEPT !.delayed = @ \union {j}]
                     /\ q' = AddBaseMarkerIfNeeded(s, b) \/ q' = AddDelayMarkerIfNeeded(s)
  BY <1>5
<1> DEFINE t == StoreJob(q, j, p)
<1>7. Same(q, t)
  BY <1>4
<1> HIDE DEF t
<1>8. Same(t, s)
  <2>1. DOMAIN t = Keys
    BY <1>7 DEF Same
  <2>2. \/ s = LPushTarget(t, j)
        \/ s = [t EXCEPT !.prioritized = @ \union {j}]
        \/ s = [t EXCEPT !.delayed = @ \union {j}]
    BY <1>6 DEF t
  <2> QED BY <2>1, <2>2 DEF Same, Keys, LPushTarget
<1>9. Same(s, q')
  <2>1. DOMAIN s = Keys
    BY <1>8 DEF Same
  <2> QED BY <1>6, <2>1, HelpersSame
<1>10. Same(q, q')
  BY <1>7, <1>8, <1>9, SameTwice
<1> QED BY <1>2, <1>10, SameCounted

(* Calls about one job.                                                     *)
LEMMA JobCallSame ==
  ASSUME LeftAlone, Tidy, NEW j \in Job, JobCall(j)
  PROVE  Same(q, q') /\ runs' = runs
<1>1. q \in Server /\ DOMAIN q = Keys
  BY ServerKeys DEF Tidy
<1>2. CASE LockExpires(j)
  BY <1>1, <1>2 DEF LockExpires, Same, Keys
<1>3. CASE Promote(j)
  <2> DEFINE a == [q EXCEPT !.delayed = @ \ {j}]
             b == Touch(a, {j})
             c == Requeue(b, j, q.priority[j])
  <2>1. Same(q, a) /\ DOMAIN a = Keys
    BY <1>1 DEF Same, Keys
  <2>2. PICK x : q' = AddBaseMarkerIfNeeded(c, x)
    BY <1>3 DEF Promote
  <2>3. runs' = runs
    BY <1>3 DEF Promote
  <2> HIDE DEF a
  <2>4. Same(a, b)
    BY <2>1, HelpersSame
  <2>5. DOMAIN b = Keys
    BY <2>4 DEF Same
  <2> HIDE DEF b
  <2>6. Same(b, c)
    BY <2>5, HelpersSame
  <2>7. DOMAIN c = Keys
    BY <2>6 DEF Same
  <2> HIDE DEF c
  <2>8. Same(c, q')
    BY <2>2, <2>7, HelpersSame
  <2> QED BY <2>1, <2>3, <2>4, <2>6, <2>8, SameTwice
<1>4. CASE RemoveJob(j)
  BY <1>4 DEF RemoveJob, LeftAlone
<1>5. ASSUME NEW p \in Priority, ChangePriority(j, p)
      PROVE  Same(q, q') /\ runs' = runs
  <2>1. PICK s \in Reprioritised(q, j, p) : q' = AddBaseMarkerIfNeeded(s, q.isPaused)
    BY <1>5 DEF ChangePriority
  <2>2. Same(q, s)
    BY <1>1, PrioritySame
  <2>3. DOMAIN s = Keys
    BY <2>2 DEF Same
  <2>4. Same(s, q')
    BY <2>1, <2>3, HelpersSame
  <2>5. runs' = runs
    BY <1>5 DEF ChangePriority
  <2> QED BY <2>2, <2>4, <2>5, SameTwice
<1> QED BY <1>2, <1>3, <1>4, <1>5 DEF JobCall

(* Calls about the whole queue.                                             *)
LEMMA QueueCallSame ==
  ASSUME NoMoreChances, Tidy, QueueCall
  PROVE  Same(q, q') /\ runs' = runs
<1>1. q \in Server /\ DOMAIN q = Keys
  BY ServerKeys DEF Tidy
<1>2. CASE Pause
  BY <1>1, <1>2 DEF Pause, Same, Keys
<1>3. CASE Resume
  <2> DEFINE a == [q EXCEPT !.isPaused = FALSE, !.wait = q.paused \o @, !.paused = <<>>]
  <2>1. Same(q, a) /\ DOMAIN a = Keys
    BY <1>1 DEF Same, Keys
  <2>2. q' = AddBaseMarkerIfNeeded(a, FALSE) /\ runs' = runs
    BY <1>3 DEF Resume
  <2> HIDE DEF a
  <2>3. Same(a, q')
    BY <2>1, <2>2, HelpersSame
  <2> QED BY <2>1, <2>2, <2>3, SameTwice
<1>4. CASE PromoteJobs
  <2>1. PICK batch : q' \in MoveJobsToWait([q EXCEPT !.delayed = @ \ batch], batch)
    BY <1>4 DEF PromoteJobs
  <2> DEFINE a == [q EXCEPT !.delayed = @ \ batch]
  <2>2. Same(q, a) /\ DOMAIN a = Keys
    BY <1>1 DEF Same, Keys
  <2>3. runs' = runs /\ q' \in MoveJobsToWait(a, batch)
    BY <1>4, <2>1 DEF PromoteJobs
  <2> HIDE DEF a
  <2>4. Same(a, q')
    BY <2>2, <2>3, BatchSame
  <2> QED BY <2>2, <2>3, <2>4, SameTwice
<1>5. CASE LimiterExpires
  BY <1>1, <1>5 DEF LimiterExpires, Same, Keys
<1>6. CASE RetryJobs \/ RateLimit
  BY <1>6 DEF RetryJobs, RateLimit, NoMoreChances
<1> QED BY <1>2, <1>3, <1>4, <1>5, <1>6 DEF QueueCall

(* Each end of a handler.                                                   *)
LEMMA HandlerCounted ==
  ASSUME LeftAlone, NoMoreChances, Steady(q), Tidy, Tidy', Counted(q, runs),
         NEW r \in runs, Handler(r)
  PROVE  Counted(q', runs')
<1>1. r \in Run /\ r.worker \in Worker /\ r.atm + 1 \in Nat
  BY DEF Tidy, Run
<1>2. CASE HandlerOk(r)
  <2> DEFINE s == FinishAs(q, r, "completed", r.atm + 1)
  <2>1. /\ Owns(q, r)
        /\ \/ q' = s /\ runs' = runs \ {r}
           \/ FetchNext(s, r.worker, runs \ {r})
    BY <1>2 DEF HandlerOk
  <2>2. Steady(s)
    BY <1>1, Finished
  <2>3. Counted(s, runs \ {r})
    BY <2>1, OutcomeCounted
  <2> HIDE DEF s
  <2> QED BY <1>1, <2>1, <2>2, <2>3, FetchCounted
<1>3. CASE HandlerErr(r)
  BY <1>3, OutcomeCounted DEF HandlerErr
<1>4. CASE HandlerRejected(r) \/ HandlerCancelled(r)
  <2>1. q' = q /\ runs' = runs \ {r}
    BY <1>4 DEF HandlerRejected, HandlerCancelled
  <2> QED BY <2>1 DEF Counted
<1>5. CASE HandlerRateLimited(r) \/ HandlerMoves(r)
  BY <1>5 DEF HandlerRateLimited, HandlerMoves, LeftAlone, NoMoreChances
<1> QED BY <1>2, <1>3, <1>4, <1>5 DEF Handler

LEMMA StepCounted ==
  ASSUME Undisturbed, LeftAlone, NoMoreChances, IInv, Tidy, Tidy', Counted(q, runs), [Next]_vars
  PROVE  Counted(q', runs')
<1>1. Steady(q) /\ DOMAIN q = Keys
  BY ServerKeys DEF IInv, Tidy
<1>2. ASSUME NEW j \in Job, Add(j) \/ JobCall(j)
      PROVE  Counted(q', runs')
  BY <1>2, AddCounted, JobCallSame, SameCounted
<1>3. ASSUME NEW w \in Worker, MoveToActive(w)
      PROVE  Counted(q', runs')
  BY <1>1, <1>3, FetchCounted DEF MoveToActive
<1>4. ASSUME NEW w \in Worker, Crash(w)
      PROVE  Counted(q', runs')
  BY <1>4 DEF Crash, Counted
<1>5. ASSUME NEW r \in runs, Handler(r)
      PROVE  Counted(q', runs')
  BY <1>1, <1>5, HandlerCounted
<1>6. ASSUME NEW r \in runs, ExtendLock(r)
      PROVE  Counted(q', runs')
  <2>1. Same(q, q') /\ runs' = runs
    BY <1>1, <1>6 DEF ExtendLock, Same, Keys
  <2> QED BY <2>1, SameCounted
<1>7. CASE QueueCall
  BY <1>7, QueueCallSame, SameCounted
<1>8. CASE UNCHANGED vars
  BY <1>8 DEF vars, Counted
<1>9. ~MoveStalledJobsToWait
  BY DEF MoveStalledJobsToWait, Undisturbed
<1> QED BY <1>2, <1>3, <1>4, <1>5, <1>6, <1>7, <1>8, <1>9 DEF Next

-----------------------------------------------------------------------------
(* Theorems.                                                                *)

LEMMA SpecCounted ==
  ASSUME Undisturbed, LeftAlone, NoMoreChances
  PROVE  Spec => []Counted(q, runs)
<1> DEFINE C == Counted(q, runs)
<1>1. Init => C
  BY ParametersAssumption DEF Init, Counted
<1>2. IInv /\ Tidy /\ Tidy' /\ C /\ [Next]_vars => C'
  BY StepCounted DEF Counted
<1>3. IInv /\ LocatedSole => Tidy
  BY LocatedTidy
<1> HIDE DEF C
<1>4. Spec => []C
  BY <1>1, <1>2, <1>3, SpecSteady, SpecSole, PTL DEF Spec
<1> QED BY <1>4 DEF C

(* No job is claimed more often than its attempts allow.                    *)
THEOREM AttemptsKept ==
  ASSUME Undisturbed, LeftAlone, NoMoreChances
  PROVE  Spec => [](\A j \in Job : q.ats[j] <= MaxAttempts)
<1>1. Counted(q, runs) => \A j \in Job : q.ats[j] <= MaxAttempts
  BY DEF Counted
<1> QED BY <1>1, SpecCounted, PTL

(* So a bound of more claims than attempts cuts off no behaviour.           *)
THEOREM StartsBoundedHolds ==
  ASSUME Undisturbed, LeftAlone, NoMoreChances, MaxAttempts < MaxStarts
  PROVE  Spec => []StartsBounded
<1>1. IInv /\ Counted(q, runs) => StartsBounded
  <2> SUFFICES ASSUME IInv, Counted(q, runs), NEW j \in Job PROVE q.ats[j] < MaxStarts
    BY DEF StartsBounded
  <2>1. q.ats[j] \in Nat /\ MaxAttempts \in Nat /\ MaxStarts \in Nat
    BY ParametersAssumption DEF IInv, TypeOK, Server
  <2> QED BY <2>1 DEF Counted
<1> QED BY <1>1, SpecCounted, SpecSteady, PTL
=============================================================================
