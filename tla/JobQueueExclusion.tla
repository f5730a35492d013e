------------------------- MODULE JobQueueExclusion -------------------------
(***************************************************************************)
(* One job, one place: while no worker checks for stalled jobs and nobody   *)
(* changes the priority of a job that does not wait, every job of a queue   *)
(* that exists is in exactly one of its lists and sets, once; a locked job  *)
(* is active; and every job moves as its life cycle says.  If, in addition, *)
(* handlers leave their jobs alone and jobs are not removed, no job is      *)
(* executed twice at a time.                                                *)
(*                                                                          *)
(* The proofs follow a map f from the jobs to the places they are in.  What *)
(* a script does to the server's record, it does to f: it moves jobs from   *)
(* one place to another, or, between two commands, to nowhere.              *)
(***************************************************************************)
EXTENDS JobQueueRefinement, JobQueueProofs

-----------------------------------------------------------------------------
(* Lists without repetitions.                                               *)

(* An order of a set of jobs repeats none.                                  *)
LEMMA OrdersInjective ==
  ASSUME NEW S, NEW order \in Orders(S)
  PROVE  IsInjective(order)
  BY DEF Orders, Bijection, Injection

(* Two lists without a job in common are joined to a list that repeats none. *)
LEMMA ConcatInjective ==
  ASSUME NEW s \in Seq(Job), NEW t \in Seq(Job), IsInjective(s), IsInjective(t),
         ToSet(s) \intersect ToSet(t) = {}
  PROVE  IsInjective(s \o t)
<1>1. /\ s \o t \in Seq(Job) /\ Len(s \o t) = Len(s) + Len(t)
      /\ Len(s) \in Nat /\ Len(t) \in Nat
      /\ \A i \in 1..Len(s) + Len(t) :
           (s \o t)[i] = IF i <= Len(s) THEN s[i] ELSE t[i - Len(s)]
  BY ConcatProperties
<1>2. /\ DOMAIN s = 1..Len(s) /\ DOMAIN t = 1..Len(t)
      /\ DOMAIN (s \o t) = 1..Len(s) + Len(t)
  BY <1>1
<1> SUFFICES ASSUME NEW a \in 1..Len(s) + Len(t), NEW b \in 1..Len(s) + Len(t),
                    (s \o t)[a] = (s \o t)[b]
             PROVE  a = b
  BY <1>2 DEF IsInjective
<1>3. CASE a <= Len(s) /\ b <= Len(s)
  BY <1>1, <1>2, <1>3 DEF IsInjective
<1>4. CASE ~(a <= Len(s)) /\ ~(b <= Len(s))
  <2>1. a - Len(s) \in 1..Len(t) /\ b - Len(s) \in 1..Len(t)
    BY <1>1, <1>4
  <2>2. t[a - Len(s)] = t[b - Len(s)]
    BY <1>1, <1>4
  <2>3. a - Len(s) = b - Len(s)
    BY <1>2, <2>1, <2>2 DEF IsInjective
  <2> QED BY <1>1, <2>3
<1>5. ASSUME NEW i \in 1..Len(s) + Len(t), NEW k \in 1..Len(s) + Len(t),
             i <= Len(s), ~(k <= Len(s)), (s \o t)[i] = (s \o t)[k]
      PROVE  FALSE
  <2>1. i \in 1..Len(s) /\ k - Len(s) \in 1..Len(t)
    BY <1>1, <1>5
  <2>2. s[i] = t[k - Len(s)]
    BY <1>1, <1>5
  <2>3. s[i] \in ToSet(s) /\ t[k - Len(s)] \in ToSet(t)
    BY <1>2, <2>1 DEF ToSet
  <2> QED BY <2>2, <2>3
<1>6. CASE a <= Len(s) /\ ~(b <= Len(s))
  BY <1>5, <1>6
<1>7. CASE ~(a <= Len(s)) /\ b <= Len(s)
  BY <1>5, <1>7
<1> QED BY <1>3, <1>4, <1>6, <1>7

(* RPUSH of a job that is not in the list.                                  *)
LEMMA PushInjective ==
  ASSUME NEW s \in Seq(Job), NEW j \in Job, IsInjective(s), j \notin ToSet(s)
  PROVE  IsInjective(Append(s, j)) /\ IsInjective(<<j>> \o s)
<1>1. <<j>> \in Seq(Job) /\ ToSet(<<j>>) = {j} /\ IsInjective(<<j>>)
  BY ToSetOne DEF IsInjective
<1>2. Append(s, j) = s \o <<j>>
  BY AppendIsConcat
<1> DEFINE u == <<j>>
<1>3. /\ u \in Seq(Job) /\ IsInjective(u)
      /\ ToSet(s) \intersect ToSet(u) = {} /\ ToSet(u) \intersect ToSet(s) = {}
  BY <1>1
<1> HIDE DEF u
<1>4. IsInjective(s \o u) /\ IsInjective(u \o s)
  BY <1>3, ConcatInjective
<1> QED BY <1>2, <1>4 DEF u

(* RPOPLPUSH: of a list without repetitions, the last job is gone.          *)
LEMMA FrontInjective ==
  ASSUME NEW s \in Seq(Job), s # <<>>, IsInjective(s)
  PROVE  /\ IsInjective(Front(s)) /\ ToSet(Front(s)) = ToSet(s) \ {Last(s)}
         /\ Last(s) \in ToSet(s) /\ Front(s) \in Seq(Job)
<1>1. PICK n \in Nat : Len(s) = n + 1
  BY EmptySeq
<1>2. Front(s) = SubSeq(s, 1, n) /\ Last(s) = s[n + 1]
  BY <1>1 DEF Front, Last
<1>3. \A i \in 1..n : s[i] \in Job
  BY <1>1
<1>4. /\ Front(s) \in Seq(Job) /\ DOMAIN Front(s) = 1..n
      /\ \A i \in 1..n : Front(s)[i] = s[i]
  BY <1>1, <1>2, <1>3
<1>5. DOMAIN s = 1..n + 1 /\ 1..n \subseteq 1..n + 1 /\ n + 1 \in 1..n + 1 /\ n + 1 \notin 1..n
  BY <1>1
<1>6. \A i \in 1..n + 1 : i \in 1..n \/ i = n + 1
  BY <1>1
<1>7. IsInjective(Front(s))
  BY <1>4, <1>5 DEF IsInjective
<1>8. \A i \in 1..n : s[i] # s[n + 1]
  BY <1>5 DEF IsInjective
<1> QED BY <1>2, <1>4, <1>5, <1>6, <1>7, <1>8 DEF ToSet

(* LREM 1 and LREM 0 take exactly the job out.                              *)
LEMMA LRemFirstInjective ==
  ASSUME NEW s \in Seq(Job), NEW j \in Job, IsInjective(s), NEW rest \in LRemFirst(s, j)
  PROVE  rest \in Seq(Job) /\ IsInjective(rest) /\ ToSet(rest) = ToSet(s) \ {j}
<1>1. PICK i \in DOMAIN s : s[i] = j /\ rest = RemoveAt(s, i)
  BY DEF LRemFirst
<1>2. i \in 1..Len(s) /\ Len(s) \in Nat /\ DOMAIN s = 1..Len(s)
  BY <1>1
<1> DEFINE a == SubSeq(s, 1, i - 1)
           b == SubSeq(s, i + 1, Len(s))
<1>3. /\ a \in Seq(Job) /\ DOMAIN a = 1..i - 1
      /\ \A k \in 1..i - 1 : a[k] = s[k] /\ k \in 1..Len(s) /\ k # i
  BY <1>2
<1>4. /\ b \in Seq(Job) /\ DOMAIN b = 1..Len(s) - i
      /\ \A k \in 1..Len(s) - i :
           b[k] = s[k + i] /\ k + i \in 1..Len(s) /\ k + i # i /\ k + i \notin 1..i - 1
  BY <1>2
<1>5. rest = a \o b
  BY <1>1 DEF RemoveAt
<1> HIDE DEF a, b
<1>6. IsInjective(a)
  BY <1>2, <1>3 DEF IsInjective
<1>7. IsInjective(b)
  <2> SUFFICES ASSUME NEW k \in 1..Len(s) - i, NEW l \in 1..Len(s) - i, b[k] = b[l]
               PROVE  k = l
    BY <1>4 DEF IsInjective
  <2>1. k + i = l + i
    BY <1>2, <1>4 DEF IsInjective
  <2> QED BY <1>2, <2>1
<1>8. ToSet(a) \intersect ToSet(b) = {}
  <2> SUFFICES ASSUME NEW k \in 1..i - 1, NEW l \in 1..Len(s) - i, a[k] = b[l]
               PROVE  FALSE
    BY <1>3, <1>4 DEF ToSet
  <2>1. s[k] = s[l + i] /\ k \in 1..Len(s) /\ l + i \in 1..Len(s)
    BY <1>3, <1>4
  <2>2. k = l + i
    BY <1>2, <2>1 DEF IsInjective
  <2> QED BY <1>4, <2>2
<1>9. j \notin ToSet(a) /\ j \notin ToSet(b)
  BY <1>1, <1>2, <1>3, <1>4 DEF ToSet, IsInjective
<1>10. ToSet(a) \subseteq ToSet(s) /\ ToSet(b) \subseteq ToSet(s)
  BY <1>2, <1>3, <1>4 DEF ToSet
<1>11. rest \in Seq(Job) /\ ToSet(rest) = ToSet(a) \union ToSet(b)
  BY <1>3, <1>4, <1>5, ToSetConcat
<1>12. ToSet(s) \ {j} \subseteq ToSet(rest)
  BY LRemFirstType
<1>13. IsInjective(rest)
  BY <1>3, <1>4, <1>5, <1>6, <1>7, <1>8, ConcatInjective
<1> QED BY <1>9, <1>10, <1>11, <1>12, <1>13

(* LREM 0 of any job.                                                       *)
LEMMA LRemAllInjective ==
  ASSUME NEW s \in Seq(Job), NEW j \in Job, IsInjective(s), NEW rest \in LRemAll(s, j)
  PROVE  rest \in Seq(Job) /\ IsInjective(rest) /\ ToSet(rest) = ToSet(s) \ {j}
<1> DEFINE kept == {i \in DOMAIN s : s[i] # j}
<1>1. PICK e \in Orders(kept) : rest = [k \in DOMAIN e |-> s[e[k]]]
  BY DEF LRemAll
<1>2. IsInjective(e)
  BY OrdersInjective
<1>3. \A k \in DOMAIN e : e[k] \in DOMAIN s
  BY DEF Orders, Bijection, Injection
<1>4. IsInjective(rest)
  BY <1>1, <1>2, <1>3 DEF IsInjective
<1> QED BY <1>4, LRemAllType

-----------------------------------------------------------------------------
(* Places.                                                                  *)

Where == {"nowhere", "wait", "paused", "prioritized", "delayed", "active",
          "completed", "failed"}

(* The jobs are where f says: in no list or set besides, and once.          *)
Placed(s, f) ==
  /\ s \in Server /\ f \in [Job -> Where]
  /\ IsInjective(s.wait) /\ IsInjective(s.paused)
  /\ \A j \in Job :
       /\ j \in ToSet(s.wait)   <=> f[j] = "wait"
       /\ j \in ToSet(s.paused) <=> f[j] = "paused"
       /\ j \in s.prioritized   <=> f[j] = "prioritized"
       /\ j \in s.delayed       <=> f[j] = "delayed"
       /\ j \in s.completed     <=> f[j] = "completed"
       /\ j \in s.failed        <=> f[j] = "failed"
       /\ s.active[j] = IF f[j] = "active" THEN 1 ELSE 0

(* The jobs of J go to p.                                                   *)
Moved(f, J, p) == [j \in Job |-> IF j \in J THEN p ELSE f[j]]

(* Jobs only enter or leave the place p.                                    *)
Only(p, f, g) ==
  /\ g \in [Job -> Where]
  /\ \A j \in Job : g[j] = f[j] \/ (f[j] \in {p, "nowhere"} /\ g[j] \in {p, "nowhere"})

(* What a command that moves a job leaves alone.                            *)
Keeps(s, t) ==
  /\ t.lock = s.lock /\ t.hash = s.hash
  /\ t.isPaused = s.isPaused /\ t.priority = s.priority

(* The wait list and f agree after both have changed.                       *)
LEMMA WaitIs ==
  ASSUME NEW s, NEW f, Placed(s, f), NEW g, Only("wait", f, g),
         NEW l \in Seq(Job), IsInjective(l), \A j \in Job : j \in ToSet(l) <=> g[j] = "wait",
         NEW t, t = [s EXCEPT !.wait = l]
  PROVE  Placed(t, g) /\ Keeps(s, t)
<1>1. /\ t \in Server /\ t.wait = l /\ t.paused = s.paused /\ t.active = s.active
      /\ t.prioritized = s.prioritized /\ t.delayed = s.delayed
      /\ t.completed = s.completed /\ t.failed = s.failed /\ Keeps(s, t)
  BY DEF Placed, Server, Keeps
<1> QED BY <1>1 DEF Placed, Only

(* The same of the paused list.                                             *)
LEMMA PausedIs ==
  ASSUME NEW s, NEW f, Placed(s, f), NEW g, Only("paused", f, g),
         NEW l \in Seq(Job), IsInjective(l), \A j \in Job : j \in ToSet(l) <=> g[j] = "paused",
         NEW t, t = [s EXCEPT !.paused = l]
  PROVE  Placed(t, g) /\ Keeps(s, t)
<1>1. /\ t \in Server /\ t.paused = l /\ t.wait = s.wait /\ t.active = s.active
      /\ t.prioritized = s.prioritized /\ t.delayed = s.delayed
      /\ t.completed = s.completed /\ t.failed = s.failed /\ Keeps(s, t)
  BY DEF Placed, Server, Keeps
<1> QED BY <1>1 DEF Placed, Only

(* The same of the active list.                                             *)
LEMMA ActiveIs ==
  ASSUME NEW s, NEW f, Placed(s, f), NEW g, Only("active", f, g),
         NEW a \in [Job -> Nat], \A j \in Job : a[j] = IF g[j] = "active" THEN 1 ELSE 0,
         NEW t, t = [s EXCEPT !.active = a]
  PROVE  Placed(t, g) /\ Keeps(s, t)
<1>1. /\ t \in Server /\ t.active = a /\ t.wait = s.wait /\ t.paused = s.paused
      /\ t.prioritized = s.prioritized /\ t.delayed = s.delayed
      /\ t.completed = s.completed /\ t.failed = s.failed /\ Keeps(s, t)
  BY DEF Placed, Server, Keeps
<1> QED BY <1>1 DEF Placed, Only

(* The keys that are sets of jobs and places at the same time.              *)
Sets == {"prioritized", "delayed", "completed", "failed"}

(* The set p of s becomes S.                                                *)
SetTo(s, p, S) == [s EXCEPT ![p] = S]

(* The same of each set.                                                    *)
LEMMA SetIs ==
  ASSUME NEW s, NEW f, Placed(s, f), NEW p \in Sets, NEW g, Only(p, f, g),
         NEW S \in SUBSET Job, \A j \in Job : j \in S <=> g[j] = p,
         NEW t, t = SetTo(s, p, S)
  PROVE  Placed(t, g) /\ Keeps(s, t)
<1>1. s \in Server
  BY DEF Placed
<1>2. /\ t \in Server /\ t.active = s.active /\ t.wait = s.wait /\ t.paused = s.paused
      /\ t.prioritized = (IF p = "prioritized" THEN S ELSE s.prioritized)
      /\ t.delayed     = (IF p = "delayed"     THEN S ELSE s.delayed)
      /\ t.completed   = (IF p = "completed"   THEN S ELSE s.completed)
      /\ t.failed      = (IF p = "failed"      THEN S ELSE s.failed)
      /\ Keeps(s, t)
  <2>1. CASE p = "prioritized" BY <1>1, <2>1 DEF Server, Keeps, SetTo
  <2>2. CASE p = "delayed"     BY <1>1, <2>2 DEF Server, Keeps, SetTo
  <2>3. CASE p = "completed"   BY <1>1, <2>3 DEF Server, Keeps, SetTo
  <2>4. CASE p = "failed"      BY <1>1, <2>4 DEF Server, Keeps, SetTo
  <2> QED BY <2>1, <2>2, <2>3, <2>4 DEF Sets
<1>3. /\ g \in [Job -> Where]
      /\ \A j \in Job : g[j] = f[j] \/ (f[j] \in {p, "nowhere"} /\ g[j] \in {p, "nowhere"})
      /\ p \in {"prioritized", "delayed", "completed", "failed"}
  BY DEF Only, Sets
<1> QED BY <1>2, <1>3 DEF Placed

(* Other keys do not matter.                                                *)
LEMMA PlacesKept ==
  ASSUME NEW s, NEW f, Placed(s, f), NEW t \in Server, SamePlaces(s, t)
  PROVE  Placed(t, f)
  BY DEF Placed, SamePlaces

(* Markers.                                                                 *)
LEMMA MarkersPlaced ==
  ASSUME NEW s, NEW f, Placed(s, f), NEW b
  PROVE  /\ Placed(AddBaseMarkerIfNeeded(s, b), f) /\ Keeps(s, AddBaseMarkerIfNeeded(s, b))
         /\ Placed(AddDelayMarkerIfNeeded(s), f) /\ Keeps(s, AddDelayMarkerIfNeeded(s))
<1>1. ASSUME NEW m \in SUBSET {"0", "1"}, NEW t, t = [s EXCEPT !.marker = m]
      PROVE  Placed(t, f) /\ Keeps(s, t)
  <2>1. t \in Server /\ SamePlaces(s, t) /\ Keeps(s, t)
    BY <1>1 DEF Placed, Server, SamePlaces, Keeps
  <2> QED BY <2>1, PlacesKept
<1>2. s.marker \union {"0"} \in SUBSET {"0", "1"} /\ s.marker \union {"1"} \in SUBSET {"0", "1"}
  BY DEF Placed, Server
<1>3. Keeps(s, s)
  BY DEF Keeps
<1> QED BY <1>1, <1>2, <1>3 DEF AddBaseMarkerIfNeeded, AddDelayMarkerIfNeeded

(* Touching the hashes of jobs that have one.                               *)
LEMMA TouchedPlaced ==
  ASSUME NEW s, NEW f, Placed(s, f), NEW T, \A j \in Job : j \in T => s.hash[j] # "none"
  PROVE  Touch(s, T) = s
<1>1. [j \in Job |-> IF j \in T /\ s.hash[j] = "none" THEN "bare" ELSE s.hash[j]] = s.hash
  BY DEF Placed, Server
<1> QED BY <1>1 DEF Touch, Placed, Server

-----------------------------------------------------------------------------
(* A job enters or leaves a place.                                          *)

(* A job that goes from p to nowhere and on to another place has gone there. *)
LEMMA MovedOn ==
  ASSUME NEW f \in [Job -> Where], NEW J, NEW o, NEW p \in Where
  PROVE  /\ Moved(f, J, p) \in [Job -> Where]
         /\ Moved(Moved(f, J, o), J, p) = Moved(f, J, p)
         /\ \A j \in Job : Moved(f, J, p)[j] = IF j \in J THEN p ELSE f[j]
  BY DEF Moved

(* A set agrees with f.                                                     *)
LEMMA SetPlaced ==
  ASSUME NEW s, NEW f, Placed(s, f), NEW p \in Sets
  PROVE  /\ s[p] \in SUBSET Job /\ \A j \in Job : j \in s[p] <=> f[j] = p
         /\ p \in Where /\ "nowhere" \in Where
<1>1. CASE p = "prioritized" BY <1>1 DEF Placed, Server, Where
<1>2. CASE p = "delayed"     BY <1>2 DEF Placed, Server, Where
<1>3. CASE p = "completed"   BY <1>3 DEF Placed, Server, Where
<1>4. CASE p = "failed"      BY <1>4 DEF Placed, Server, Where
<1> QED BY <1>1, <1>2, <1>3, <1>4 DEF Sets

(* Into one of the sets.                                                    *)
LEMMA SetGets ==
  ASSUME NEW s, NEW f, Placed(s, f), NEW J \in SUBSET Job,
         \A j \in J : f[j] = "nowhere", NEW p \in Sets,
         NEW t, t = SetTo(s, p, s[p] \union J)
  PROVE  Placed(t, Moved(f, J, p)) /\ Keeps(s, t)
<1> DEFINE g == Moved(f, J, p)
           S == s[p] \union J
<1>1. Only(p, f, g)
  BY SetPlaced DEF Only, Moved, Placed
<1>2. S \in SUBSET Job /\ \A j \in Job : j \in S <=> g[j] = p
  BY SetPlaced DEF Moved
<1>3. t = SetTo(s, p, S)
  OBVIOUS
<1> HIDE DEF g, S
<1>4. Placed(t, g) /\ Keeps(s, t)
  BY <1>1, <1>2, <1>3, SetIs
<1> QED BY <1>4 DEF g

(* Out of one of the sets.                                                  *)
LEMMA SetLoses ==
  ASSUME NEW s, NEW f, Placed(s, f), NEW p \in Sets, NEW J, \A j \in J : f[j] = p,
         NEW t, t = SetTo(s, p, s[p] \ J)
  PROVE  Placed(t, Moved(f, J, "nowhere")) /\ Keeps(s, t)
<1> DEFINE g == Moved(f, J, "nowhere")
           S == s[p] \ J
<1>1. Only(p, f, g)
  BY SetPlaced DEF Only, Moved, Placed
<1>2. S \in SUBSET Job /\ \A j \in Job : j \in S <=> g[j] = p
  <2>1. p # "nowhere"
    BY DEF Sets
  <2> QED BY <2>1, SetPlaced DEF Moved
<1>3. t = SetTo(s, p, S)
  OBVIOUS
<1> HIDE DEF g, S
<1>4. Placed(t, g) /\ Keeps(s, t)
  BY <1>1, <1>2, <1>3, SetIs
<1> QED BY <1>4 DEF g

(* RPUSH and LPUSH: into the list that is in use.                           *)
LEMMA PushPlaced ==
  ASSUME NEW s, NEW f, Placed(s, f), NEW j \in Job, f[j] = "nowhere",
         NEW t \in {RPushTarget(s, j), LPushTarget(s, j)}
  PROVE  /\ Placed(t, Moved(f, {j}, IF s.isPaused THEN "paused" ELSE "wait"))
         /\ Keeps(s, t)
<1>1. /\ s.wait \in Seq(Job) /\ s.paused \in Seq(Job) /\ f \in [Job -> Where]
      /\ IsInjective(s.wait) /\ IsInjective(s.paused)
      /\ \A k \in Job : /\ k \in ToSet(s.wait)   <=> f[k] = "wait"
                        /\ k \in ToSet(s.paused) <=> f[k] = "paused"
  BY DEF Placed, Server
<1>2. \A k \in Job : /\ k \in ToSet(s.wait)   => k # j
                    /\ k \in ToSet(s.paused) => k # j
  BY <1>1
<1>3. ASSUME NEW l \in Seq(Job), IsInjective(l), j \notin ToSet(l),
             NEW m \in {Append(l, j), <<j>> \o l}
      PROVE  m \in Seq(Job) /\ IsInjective(m) /\ ToSet(m) = ToSet(l) \union {j}
  <2> DEFINE o == <<j>>
  <2>1. o \in Seq(Job) /\ ToSet(o) = {j}
    BY ToSetOne
  <2> HIDE DEF o
  <2>2. o \o l \in Seq(Job) /\ ToSet(o \o l) = ToSet(l) \union {j}
    BY <2>1, ToSetConcat
  <2>3. Append(l, j) \in Seq(Job) /\ ToSet(Append(l, j)) = ToSet(l) \union {j}
    BY ToSetAppend
  <2>4. IsInjective(Append(l, j)) /\ IsInjective(o \o l)
    BY <1>3, PushInjective DEF o
  <2> QED BY <1>3, <2>2, <2>3, <2>4 DEF o
<1>4. CASE s.isPaused
  <2> DEFINE g == Moved(f, {j}, "paused")
  <2>1. PICK m \in {Append(s.paused, j), <<j>> \o s.paused} : t = [s EXCEPT !.paused = m]
    BY <1>4 DEF RPushTarget, LPushTarget
  <2>2. m \in Seq(Job) /\ IsInjective(m) /\ ToSet(m) = ToSet(s.paused) \union {j}
    BY <1>1, <1>2, <1>3
  <2>3. Only("paused", f, g) /\ \A k \in Job : k \in ToSet(m) <=> g[k] = "paused"
    BY <1>1, <2>2 DEF Only, Moved, Where
  <2> HIDE DEF g
  <2>4. Placed(t, g) /\ Keeps(s, t)
    BY <2>1, <2>2, <2>3, PausedIs
  <2> QED BY <1>4, <2>4 DEF g
<1>5. CASE ~s.isPaused
  <2> DEFINE g == Moved(f, {j}, "wait")
  <2>1. PICK m \in {Append(s.wait, j), <<j>> \o s.wait} : t = [s EXCEPT !.wait = m]
    BY <1>5 DEF RPushTarget, LPushTarget
  <2>2. m \in Seq(Job) /\ IsInjective(m) /\ ToSet(m) = ToSet(s.wait) \union {j}
    BY <1>1, <1>2, <1>3
  <2>3. Only("wait", f, g) /\ \A k \in Job : k \in ToSet(m) <=> g[k] = "wait"
    BY <1>1, <2>2 DEF Only, Moved, Where
  <2> HIDE DEF g
  <2>4. Placed(t, g) /\ Keeps(s, t)
    BY <2>1, <2>2, <2>3, WaitIs
  <2> QED BY <1>5, <2>4 DEF g
<1> QED BY <1>4, <1>5

Waiting == {"wait", "paused", "prioritized"}

(* A job that goes back is in one of the places from which jobs are claimed. *)
LEMMA RequeuePlaced ==
  ASSUME NEW s, NEW f, Placed(s, f), NEW j \in Job, f[j] = "nowhere", NEW priority
  PROVE  \E p \in Waiting : /\ Placed(Requeue(s, j, priority), Moved(f, {j}, p))
                            /\ Keeps(s, Requeue(s, j, priority))
<1>1. CASE priority > 0
  <2> DEFINE t == Requeue(s, j, priority)
  <2>1. t = SetTo(s, "prioritized", s["prioritized"] \union {j})
    BY <1>1 DEF Requeue, SetTo
  <2>2. {j} \in SUBSET Job /\ (\A k \in {j} : f[k] = "nowhere") /\ "prioritized" \in Sets
    BY DEF Sets
  <2> HIDE DEF t
  <2>3. Placed(t, Moved(f, {j}, "prioritized")) /\ Keeps(s, t)
    BY <2>1, <2>2, SetGets
  <2> QED BY <2>3 DEF Waiting, t
<1>2. CASE ~(priority > 0)
  BY <1>2, PushPlaced DEF Requeue, Waiting
<1> QED BY <1>1, <1>2

(* What leaving the active list changes besides the job's place.            *)
Unlocks(s, t, j) ==
  /\ t.lock = [s.lock EXCEPT ![j] = NoToken] /\ t.hash = s.hash
  /\ t.isPaused = s.isPaused /\ t.priority = s.priority

(* removeLock and LREM: an active job is nowhere, and has no lock.          *)
LEMMA ReleasePlaced ==
  ASSUME NEW s, NEW f, Placed(s, f), NEW j \in Job, f[j] = "active"
  PROVE  /\ Placed(Release(s, j), Moved(f, {j}, "nowhere"))
         /\ Unlocks(s, Release(s, j), j)
<1> DEFINE g == Moved(f, {j}, "nowhere")
           a == [s.active EXCEPT ![j] = IF @ > 0 THEN @ - 1 ELSE 0]
           l == [s.lock EXCEPT ![j] = NoToken]
           u == s.stalled \ {j}
           t == [s EXCEPT !.active = a]
<1>1. /\ s \in Server /\ a \in [Job -> Nat] /\ u \in SUBSET Job
      /\ l \in [Job -> Worker \union {NoToken}]
  <2>1. s \in Server BY DEF Placed
  <2>2. a \in [Job -> Nat] BY <2>1 DEF Server
  <2>3. l \in [Job -> Worker \union {NoToken}] BY <2>1 DEF Server
  <2>4. u \in SUBSET Job BY <2>1 DEF Server
  <2> QED BY <2>1, <2>2, <2>3, <2>4
<1>2. Only("active", f, g)
  BY DEF Placed, Only, Moved, Where
<1>3. \A k \in Job : a[k] = IF g[k] = "active" THEN 1 ELSE 0
  BY DEF Placed, Moved, Server
<1>4. t = [s EXCEPT !.active = a]
  OBVIOUS
<1>5. Release(s, j) = [t EXCEPT !.lock = l, !.stalled = u]
  BY <1>1 DEF Release, Server
<1> HIDE DEF a, g, l, u, t
<1>6. Placed(t, g) /\ Keeps(s, t)
  BY <1>1, <1>2, <1>3, <1>4, ActiveIs
<1>7. /\ Release(s, j) \in Server /\ SamePlaces(t, Release(s, j))
      /\ Release(s, j).lock = l /\ Release(s, j).hash = t.hash
      /\ Release(s, j).isPaused = t.isPaused /\ Release(s, j).priority = t.priority
  <2>1. t \in Server BY <1>6 DEF Placed
  <2>2. [t EXCEPT !.lock = l, !.stalled = u] \in Server BY <1>1, <2>1 DEF Server
  <2>3. Release(s, j) \in Server BY <1>5, <2>2
  <2> QED BY <1>5, <2>1, <2>3 DEF Server, SamePlaces
<1>8. Placed(Release(s, j), g)
  BY <1>6, <1>7, PlacesKept
<1> QED BY <1>6, <1>7, <1>8 DEF g, l, Keeps, Unlocks

(* The attempts made are no part of it.                                     *)
LEMMA AttemptsPlaced ==
  ASSUME NEW s, NEW f, Placed(s, f), NEW j \in Job, NEW n \in Nat
  PROVE  Placed([s EXCEPT !.atm[j] = n], f) /\ Keeps(s, [s EXCEPT !.atm[j] = n])
<1> DEFINE m == [s.atm EXCEPT ![j] = n]
           t == [s EXCEPT !.atm = m]
<1>1. s \in Server /\ m \in [Job -> Nat] /\ t = [s EXCEPT !.atm[j] = n]
  BY DEF Placed, Server
<1> HIDE DEF m
<1>2. t \in Server /\ SamePlaces(s, t) /\ Keeps(s, t)
  BY <1>1 DEF Server, SamePlaces, Keeps
<1> HIDE DEF t
<1> QED BY <1>1, <1>2, PlacesKept

(* moveToFinished: from active to completed or failed.                      *)
LEMMA FinishedPlaced ==
  ASSUME NEW s, NEW f, Placed(s, f), NEW r \in Run, f[r.job] = "active",
         NEW target \in {"completed", "failed"}, NEW n \in Nat
  PROVE  /\ Placed(FinishAs(s, r, target, n), Moved(f, {r.job}, target))
         /\ Unlocks(s, FinishAs(s, r, target, n), r.job)
<1> DEFINE j == r.job
           u == Release(s, j)
           v == [u EXCEPT !.atm[j] = n]
           t == FinishAs(s, r, target, n)
           o == Moved(f, {j}, "nowhere")
<1>1. j \in Job /\ f \in [Job -> Where] /\ target \in Sets /\ target \in Where
  BY DEF Run, Placed, Sets, Where
<1>2. Placed(u, o) /\ Unlocks(s, u, j)
  BY <1>1, ReleasePlaced
<1>3. Placed(v, o) /\ Keeps(u, v)
  BY <1>1, <1>2, AttemptsPlaced
<1>4. t = SetTo(v, target, v[target] \union {j})
  <2>1. u \in Server
    BY <1>2 DEF Placed
  <2>2. CASE target = "completed"
    BY <2>1, <2>2 DEF FinishAs, Server, SetTo
  <2>3. CASE target = "failed"
    BY <2>1, <2>3 DEF FinishAs, Server, SetTo
  <2> QED BY <2>2, <2>3
<1>5. {j} \in SUBSET Job /\ \A k \in {j} : o[k] = "nowhere"
  BY <1>1 DEF Moved
<1> HIDE DEF u, v, t, o
<1>6. Placed(t, Moved(o, {j}, target)) /\ Keeps(v, t)
  BY <1>1, <1>3, <1>4, <1>5, SetGets
<1>7. Moved(o, {j}, target) = Moved(f, {j}, target)
  BY <1>1, MovedOn DEF o
<1> QED BY <1>2, <1>3, <1>6, <1>7 DEF t, Keeps, Unlocks

(* moveToDelayed: from active to delayed.                                   *)
LEMMA DelayedPlaced ==
  ASSUME NEW s, NEW f, Placed(s, f), NEW r \in Run, f[r.job] = "active", NEW n \in Nat
  PROVE  /\ Placed(MoveToDelayed(s, r, n), Moved(f, {r.job}, "delayed"))
         /\ Unlocks(s, MoveToDelayed(s, r, n), r.job)
<1> DEFINE j == r.job
           u == Release(s, j)
           v == [u EXCEPT !.atm[j] = n]
           t == [v EXCEPT !.delayed = v.delayed \union {j}]
           o == Moved(f, {j}, "nowhere")
           g == Moved(f, {j}, "delayed")
<1>1. j \in Job /\ f \in [Job -> Where] /\ "delayed" \in Sets /\ "delayed" \in Where
  BY DEF Run, Placed, Sets, Where
<1>2. Placed(u, o) /\ Unlocks(s, u, j)
  BY <1>1, ReleasePlaced
<1>3. Placed(v, o) /\ Keeps(u, v)
  BY <1>1, <1>2, AttemptsPlaced
<1>4. MoveToDelayed(s, r, n) = AddDelayMarkerIfNeeded(t)
  <2>1. u \in Server BY <1>2 DEF Placed
  <2> QED BY <2>1 DEF MoveToDelayed, Server
<1>5. t = SetTo(v, "delayed", v["delayed"] \union {j})
  BY DEF SetTo
<1>6. {j} \in SUBSET Job /\ \A k \in {j} : o[k] = "nowhere"
  BY <1>1 DEF Moved
<1>7. Moved(o, {j}, "delayed") = g
  BY <1>1, MovedOn
<1> HIDE DEF u, v, t, o, g
<1>8. Placed(t, g) /\ Keeps(v, t)
  BY <1>1, <1>3, <1>5, <1>6, <1>7, SetGets
<1>9. Placed(AddDelayMarkerIfNeeded(t), g) /\ Keeps(t, AddDelayMarkerIfNeeded(t))
  BY <1>8, MarkersPlaced
<1> QED BY <1>2, <1>3, <1>4, <1>8, <1>9 DEF g, Keeps, Unlocks

(* retryJob and moveJobFromActiveToWait: from active to waiting.            *)
LEMMA BackPlaced ==
  ASSUME NEW s, NEW f, Placed(s, f), NEW r \in Run, f[r.job] = "active",
         NEW t \in {RetryJob(s, r), MoveJobFromActiveToWait(s, r.job)}
  PROVE  \E p \in Waiting : Placed(t, Moved(f, {r.job}, p)) /\ Unlocks(s, t, r.job)
<1> DEFINE j == r.job
           u == Release(s, j)
           v == [u EXCEPT !.atm[j] = r.atm]
           o == Moved(f, {j}, "nowhere")
<1>1. j \in Job /\ r.atm \in Nat /\ f \in [Job -> Where] /\ o[j] = "nowhere" /\ Waiting \subseteq Where
  BY DEF Run, Placed, Moved, Waiting, Where
<1>2. Placed(u, o) /\ Unlocks(s, u, j)
  BY <1>1, ReleasePlaced
<1>3. Placed(v, o) /\ Keeps(u, v)
  BY <1>1, <1>2, AttemptsPlaced
<1>4. \/ \E priority : t = AddBaseMarkerIfNeeded(Requeue(v, j, priority), s.isPaused)
      \/ \E priority : t = Requeue(u, j, priority)
      \/ t = AddBaseMarkerIfNeeded(RPushTarget(u, j), s.isPaused)
  <2>1. s.active[j] # 0
    BY <1>1 DEF Placed
  <2> QED BY <2>1 DEF RetryJob, MoveJobFromActiveToWait
<1> HIDE DEF u, v
<1>5. PICK w, x : /\ x = u \/ x = v
                  /\ \E p \in Waiting : Placed(w, Moved(o, {j}, p)) /\ Keeps(x, w)
                  /\ t = w \/ t = AddBaseMarkerIfNeeded(w, s.isPaused)
  <2>1. ASSUME NEW x, Placed(x, o), NEW priority
        PROVE  \E p \in Waiting : /\ Placed(Requeue(x, j, priority), Moved(o, {j}, p))
                                  /\ Keeps(x, Requeue(x, j, priority))
    BY <1>1, <2>1, RequeuePlaced
  <2>2. \E p \in Waiting : Placed(RPushTarget(u, j), Moved(o, {j}, p)) /\ Keeps(u, RPushTarget(u, j))
    BY <1>1, <1>2, PushPlaced DEF Waiting
  <2> QED BY <1>2, <1>3, <1>4, <2>1, <2>2
<1>6. PICK p \in Waiting : Placed(w, Moved(o, {j}, p)) /\ Keeps(x, w)
  BY <1>5
<1>7. Placed(t, Moved(o, {j}, p)) /\ Keeps(w, t)
  BY <1>5, <1>6, MarkersPlaced DEF Keeps
<1>8. Moved(o, {j}, p) = Moved(f, {j}, p)
  BY <1>1, MovedOn
<1>9. Unlocks(s, t, j)
  BY <1>2, <1>3, <1>5, <1>6, <1>7 DEF Keeps, Unlocks
<1> QED BY <1>7, <1>8, <1>9

-----------------------------------------------------------------------------
(* Taking the next job.                                                     *)

(* What every step keeps: the jobs are where f says, those that exist are   *)
(* somewhere and none has lost its data, and only active jobs are locked.   *)
Ruled(s, f) ==
  /\ Placed(s, f)
  /\ \A j \in Job : s.hash[j] = IF f[j] = "nowhere" THEN "none" ELSE "stored"
  /\ \A j \in Job : s.lock[j] # NoToken => f[j] = "active"

(* Many jobs enter the wait list at its left end.                           *)
LEMMA WaitGets ==
  ASSUME NEW s, NEW f, Placed(s, f), NEW J \in SUBSET Job, \A j \in J : f[j] = "nowhere",
         NEW order \in Orders(J), NEW t, t = [s EXCEPT !.wait = order \o s.wait]
  PROVE  Placed(t, Moved(f, J, "wait")) /\ Keeps(s, t)
<1> DEFINE g == Moved(f, J, "wait")
           l == order \o s.wait
<1>1. /\ s.wait \in Seq(Job) /\ IsInjective(s.wait) /\ f \in [Job -> Where]
      /\ \A k \in Job : k \in ToSet(s.wait) <=> f[k] = "wait"
  BY DEF Placed, Server
<1>2. order \in Seq(Job) /\ ToSet(order) = J /\ IsInjective(order)
  BY OrdersType, OrdersInjective
<1>3. J \intersect ToSet(s.wait) = {}
  BY <1>1
<1>4. l \in Seq(Job) /\ ToSet(l) = J \union ToSet(s.wait) /\ IsInjective(l)
  BY <1>1, <1>2, <1>3, ToSetConcat, ConcatInjective
<1>5. Only("wait", f, g) /\ \A k \in Job : k \in ToSet(l) <=> g[k] = "wait"
  BY <1>1, <1>4 DEF Only, Moved, Where
<1>6. t = [s EXCEPT !.wait = l]
  OBVIOUS
<1> HIDE DEF g, l
<1>7. Placed(t, g) /\ Keeps(s, t)
  BY <1>4, <1>5, <1>6, WaitIs, SMTT(30)
<1> QED BY <1>7 DEF g

(* The same of the paused list.                                             *)
LEMMA PausedGets ==
  ASSUME NEW s, NEW f, Placed(s, f), NEW J \in SUBSET Job, \A j \in J : f[j] = "nowhere",
         NEW order \in Orders(J), NEW t, t = [s EXCEPT !.paused = order \o s.paused]
  PROVE  Placed(t, Moved(f, J, "paused")) /\ Keeps(s, t)
<1> DEFINE g == Moved(f, J, "paused")
           l == order \o s.paused
<1>1. /\ s.paused \in Seq(Job) /\ IsInjective(s.paused) /\ f \in [Job -> Where]
      /\ \A k \in Job : k \in ToSet(s.paused) <=> f[k] = "paused"
  BY DEF Placed, Server
<1>2. order \in Seq(Job) /\ ToSet(order) = J /\ IsInjective(order)
  BY OrdersType, OrdersInjective
<1>3. J \intersect ToSet(s.paused) = {}
  BY <1>1
<1>4. l \in Seq(Job) /\ ToSet(l) = J \union ToSet(s.paused) /\ IsInjective(l)
  BY <1>1, <1>2, <1>3, ToSetConcat, ConcatInjective
<1>5. Only("paused", f, g) /\ \A k \in Job : k \in ToSet(l) <=> g[k] = "paused"
  BY <1>1, <1>4 DEF Only, Moved, Where
<1>6. t = [s EXCEPT !.paused = l]
  OBVIOUS
<1> HIDE DEF g, l
<1>7. Placed(t, g) /\ Keeps(s, t)
  BY <1>4, <1>5, <1>6, PausedIs, SMTT(30)
<1> QED BY <1>7 DEF g

(* Delayed jobs that are due wait, and nothing else moves.                  *)
LEMMA PromotedRuled ==
  ASSUME NEW s, NEW f, Ruled(s, f), NEW due \in SUBSET s.delayed,
         NEW order \in Orders({j \in due : s.priority[j] = 0}),
         NEW t, t = PromoteDelayedJobs(s, due, order)
  PROVE  \E g : /\ Ruled(t, g) /\ t.lock = s.lock
                /\ \A k \in Job : g[k] = f[k] \/ (f[k] = "delayed" /\ g[k] \in Waiting)
<1> DEFINE A  == {j \in due : s.priority[j] = 0}
           B  == {j \in due : s.priority[j] > 0}
           f1 == Moved(f, due, "nowhere")
           f2 == Moved(f1, A, "wait")
           f3 == Moved(f2, B, "prioritized")
           a  == [s EXCEPT !.delayed = s.delayed \ due]
           b  == [a EXCEPT !.wait = order \o a.wait]
           c  == [b EXCEPT !.prioritized = b.prioritized \union B]
           d  == Touch(c, due)
<1>1. /\ Placed(s, f) /\ s \in Server /\ f \in [Job -> Where] /\ due \subseteq Job
      /\ A \subseteq Job /\ B \subseteq Job /\ A \union B = due /\ A \intersect B = {}
      /\ \A j \in due : f[j] = "delayed"
  <2>1. Placed(s, f) /\ s \in Server /\ f \in [Job -> Where] /\ due \subseteq Job
    BY DEF Ruled, Placed, Server
  <2>2. \A j \in due : f[j] = "delayed" /\ s.priority[j] \in Nat
    BY <2>1 DEF Placed, Server
  <2> QED BY <2>1, <2>2
<1>2. PromoteDelayedJobs(s, due, order)
        = IF due = {} THEN s ELSE AddBaseMarkerIfNeeded(d, s.isPaused)
  <2>1. c = [s EXCEPT !.delayed = s.delayed \ due, !.wait = order \o s.wait,
                      !.prioritized = s.prioritized \union B]
    <3> HIDE DEF B
    <3> QED BY <1>1 DEF Server
  <2> QED BY <2>1 DEF PromoteDelayedJobs
<1>3. /\ a = SetTo(s, "delayed", s["delayed"] \ due)
      /\ b = [a EXCEPT !.wait = order \o a.wait]
      /\ c = SetTo(b, "prioritized", b["prioritized"] \union B)
      /\ d = Touch(c, due)
      /\ "delayed" \in Sets /\ "prioritized" \in Sets
  BY DEF SetTo, Sets
<1>4. /\ \A j \in Job : f1[j] = IF j \in due THEN "nowhere" ELSE f[j]
      /\ \A j \in Job : f2[j] = IF j \in A THEN "wait" ELSE f1[j]
      /\ \A j \in Job : f3[j] = IF j \in B THEN "prioritized" ELSE f2[j]
  BY DEF Moved
<1>5. order \in Orders(A)
  OBVIOUS
<1> HIDE DEF a, b, c, d, A, B
<1>6. Placed(a, f1) /\ Keeps(s, a)
  BY <1>1, <1>3, SetLoses
<1>7. Placed(b, f2) /\ Keeps(a, b)
  <2>1. A \in SUBSET Job /\ \A j \in A : f1[j] = "nowhere"
    BY <1>1, <1>4
  <2> HIDE DEF f1
  <2> QED BY <1>3, <1>5, <1>6, <2>1, WaitGets
<1>8. Placed(c, f3) /\ Keeps(b, c)
  <2>1. B \in SUBSET Job /\ \A j \in B : f2[j] = "nowhere"
    BY <1>1, <1>4
  <2> HIDE DEF f2
  <2> QED BY <1>3, <1>7, <2>1, SetGets
<1> HIDE DEF f1, f2, f3
<1>9. c.hash = s.hash /\ c.lock = s.lock
  BY <1>6, <1>7, <1>8 DEF Keeps
<1>10. d = c
  <2>1. \A j \in Job : j \in due => c.hash[j] # "none"
    BY <1>1, <1>9 DEF Ruled
  <2> QED BY <1>3, <1>8, <2>1, TouchedPlaced
<1>11. CASE due = {}
  <2>1. t = s
    BY <1>2, <1>11
  <2> QED BY <2>1
<1>12. CASE due # {}
  <2>1. Placed(t, f3) /\ Keeps(c, t)
    BY <1>2, <1>8, <1>10, <1>12, MarkersPlaced
  <2>2. \A k \in Job : \/ f3[k] = f[k]
                       \/ f[k] = "delayed" /\ f3[k] \in Waiting /\ f3[k] # "nowhere"
    BY <1>1, <1>4 DEF Waiting
  <2>3. t.hash = s.hash /\ t.lock = s.lock
    BY <1>9, <2>1 DEF Keeps
  <2>4. Ruled(t, f3)
    BY <2>1, <2>2, <2>3 DEF Ruled
  <2> QED BY <2>2, <2>3, <2>4
<1> QED BY <1>11, <1>12

(* RPOPLPUSH and ZPOPMIN: a waiting job becomes active.                     *)
LEMMA TakenPlaced ==
  ASSUME NEW s, NEW f, Placed(s, f), NEW j \in Candidates(s)
  PROVE  /\ j \in Job /\ f[j] \in Waiting
         /\ Placed(TakeNext(s, j), Moved(f, {j}, "active")) /\ Keeps(s, TakeNext(s, j))
<1> DEFINE o == Moved(f, {j}, "nowhere")
           g == Moved(o, {j}, "active")
           a == [s.active EXCEPT ![j] = s.active[j] + 1]
<1>1. /\ s \in Server /\ s.wait \in Seq(Job) /\ IsInjective(s.wait)
      /\ f \in [Job -> Where] /\ s.active \in [Job -> Nat]
      /\ \A k \in Job : /\ k \in ToSet(s.wait) <=> f[k] = "wait"
                        /\ k \in s.prioritized <=> f[k] = "prioritized"
                        /\ s.active[k] = IF f[k] = "active" THEN 1 ELSE 0
  BY DEF Placed, Server
<1>2. ASSUME j \in Job, f[j] \in Waiting,
             NEW t, Placed(t, o), Keeps(s, t), t.active = s.active,
             TakeNext(s, j) = [t EXCEPT !.active = a]
      PROVE  Placed(TakeNext(s, j), Moved(f, {j}, "active")) /\ Keeps(s, TakeNext(s, j))
  <2>1. a \in [Job -> Nat] /\ \A k \in Job : a[k] = IF g[k] = "active" THEN 1 ELSE 0
    BY <1>1, <1>2 DEF Moved, Waiting
  <2>2. Only("active", o, g)
    BY <1>1 DEF Only, Moved, Where
  <2>3. g = Moved(f, {j}, "active")
    BY <1>1, MovedOn DEF Where
  <2> HIDE DEF o, g, a
  <2>4. Placed(TakeNext(s, j), g) /\ Keeps(t, TakeNext(s, j))
    BY <1>2, <2>1, <2>2, ActiveIs
  <2> QED BY <1>2, <2>3, <2>4 DEF Keeps
<1>3. CASE s.wait # <<>>
  <2> DEFINE l == Front(s.wait)
             t == [s EXCEPT !.wait = l]
  <2>1. l \in Seq(Job) /\ IsInjective(l) /\ ToSet(l) = ToSet(s.wait) \ {j} /\ j \in ToSet(s.wait) /\ j \in Job
    BY <1>1, <1>3, FrontInjective, ToSetFront DEF Candidates
  <2>2. f[j] \in Waiting
    BY <1>1, <2>1 DEF Waiting
  <2>3. Only("wait", f, o) /\ \A k \in Job : k \in ToSet(l) <=> o[k] = "wait"
    BY <1>1, <2>1 DEF Only, Moved, Where
  <2>4. TakeNext(s, j) = [t EXCEPT !.active = a] /\ t.active = s.active
    BY <1>1, <1>3 DEF TakeNext, Server
  <2>5. t = [s EXCEPT !.wait = l]
    OBVIOUS
  <2> HIDE DEF l, t, a, o
  <2>6. Placed(t, o) /\ Keeps(s, t)
    BY <2>1, <2>3, <2>5, WaitIs
  <2> QED BY <1>2, <2>1, <2>2, <2>4, <2>6
<1>4. CASE s.wait = <<>>
  <2> DEFINE t == [s EXCEPT !.prioritized = s.prioritized \ {j}]
  <2>1. j \in s.prioritized /\ j \in Job
    BY <1>1, <1>4 DEF Candidates, Server
  <2>2. f[j] \in Waiting /\ (\A k \in {j} : f[k] = "prioritized") /\ "prioritized" \in Sets
    BY <1>1, <2>1 DEF Waiting, Sets
  <2>3. TakeNext(s, j) = [t EXCEPT !.active = a] /\ t.active = s.active
    BY <1>1, <1>4 DEF TakeNext, Server
  <2>4. t = SetTo(s, "prioritized", s["prioritized"] \ {j})
    BY DEF SetTo
  <2> HIDE DEF t, a
  <2>5. Placed(t, o) /\ Keeps(s, t)
    BY <2>2, <2>4, SetLoses
  <2> HIDE DEF o
  <2> QED BY <1>2, <2>1, <2>2, <2>3, <2>5
<1> QED BY <1>3, <1>4

(* A claim makes a waiting job active and locks it, and nothing else.       *)
LEMMA ClaimedRuled ==
  ASSUME NEW s, NEW f, Ruled(s, f), NEW j \in Candidates(s), NEW w \in Worker
  PROVE  /\ j \in Job /\ f[j] \in Waiting
         /\ Ruled(Claim(s, j, w), Moved(f, {j}, "active"))
         /\ Claim(s, j, w).lock = [s.lock EXCEPT ![j] = w]
         /\ Claim(s, j, w).hash[j] = "stored"
<1> DEFINE v == TakeNext(s, j)
           t == Touch(v, {j})
           l == [t.lock EXCEPT ![j] = w]
           u == t.stalled \union {j}
           n == [t.ats EXCEPT ![j] = t.ats[j] + 1]
           m == IF MaxJobs > 0 THEN t.limiter + 1 ELSE t.limiter
           k == t.marker \ {"0"}
           h == [t EXCEPT !.lock = l, !.stalled = u, !.ats = n, !.limiter = m, !.marker = k]
           b == h.wait = <<>> /\ h.prioritized = {}
           g == Moved(f, {j}, "active")
<1>1. /\ j \in Job /\ f[j] \in Waiting /\ Placed(v, g) /\ Keeps(s, v)
      /\ f \in [Job -> Where] /\ s.lock \in [Job -> Worker \union {NoToken}]
  <2>1. Placed(s, f)
    BY DEF Ruled
  <2>2. f \in [Job -> Where] /\ s.lock \in [Job -> Worker \union {NoToken}]
    BY <2>1 DEF Placed, Server
  <2> QED BY <2>1, <2>2, TakenPlaced
<1>2. s.hash[j] = "stored"
  BY <1>1 DEF Ruled, Waiting
<1>3. t = v
  BY <1>1, <1>2, TouchedPlaced DEF Keeps
<1>4. Claim(s, j, w) = AddBaseMarkerIfNeeded(h, b)
  BY DEF Claim
<1>5. \A i \in Job : g[i] = IF i = j THEN "active" ELSE f[i]
  BY DEF Moved
<1> HIDE DEF t, v, g
<1>6. t \in Server /\ Placed(t, g)
  BY <1>1, <1>3 DEF Placed
<1>7. /\ l \in [Job -> Worker \union {NoToken}] /\ u \in SUBSET Job
      /\ n \in [Job -> Nat] /\ m \in Nat /\ k \in SUBSET {"0", "1"}
  BY <1>1, <1>6, ParametersAssumption DEF Server
<1> HIDE DEF u, n, m, k
<1>8. /\ h \in Server /\ SamePlaces(t, h) /\ h.lock = l /\ h.hash = t.hash
  <2> HIDE DEF l
  <2> QED BY <1>6, <1>7 DEF Server, SamePlaces
<1> HIDE DEF h, b
<1>9. Placed(h, g)
  BY <1>6, <1>8, PlacesKept
<1>10. Placed(Claim(s, j, w), g) /\ Keeps(h, Claim(s, j, w))
  BY <1>4, <1>9, MarkersPlaced
<1>11. Claim(s, j, w).hash = s.hash /\ Claim(s, j, w).lock = [s.lock EXCEPT ![j] = w]
  BY <1>1, <1>3, <1>8, <1>10 DEF Keeps
<1>12. Ruled(Claim(s, j, w), g)
  BY <1>1, <1>2, <1>5, <1>10, <1>11 DEF Ruled, Waiting
<1> QED BY <1>1, <1>2, <1>11, <1>12 DEF g

-----------------------------------------------------------------------------
(* The moves of one job.                                                    *)

(* The state a place stands for.                                            *)
Life(p) ==
  IF p \in Waiting THEN "waiting" ELSE IF p = "nowhere" THEN "absent" ELSE p

(* Worker w claims the job: where the jobs are goes from f to g, and their  *)
(* locks from l to m.                                                       *)
Starts(f, l, g, m, w, j) ==
  /\ f[j] \in Waiting \union {"delayed"} /\ l[j] = NoToken
  /\ g[j] = "active" /\ m[j] = w /\ w \in Worker

(* Worker w, which holds the lock, gives the job up.                        *)
Settles(f, l, g, m, w, j) ==
  /\ f[j] = "active" /\ l[j] = w /\ w \in Worker
  /\ g[j] \in Waiting \union {"completed", "failed", "delayed"} /\ m[j] = NoToken

(* The lock of an active job expires.                                       *)
LosesLock(f, l, g, m, j) ==
  /\ f[j] = "active" /\ g[j] = "active" /\ l[j] \in Worker /\ m[j] = NoToken

(* A job without a lock is added, woken, taken up again or removed.         *)
GoesUnheld(f, l, g, m, j) ==
  /\ l[j] = NoToken /\ m[j] = NoToken
  /\ \/ f[j] = "nowhere" /\ g[j] \in Waiting \union {"delayed"}
     \/ f[j] \in {"delayed", "completed", "failed"} /\ g[j] \in Waiting
     \/ f[j] # "nowhere" /\ g[j] = "nowhere"

Rests(f, l, g, m, j) == Life(g[j]) = Life(f[j]) /\ m[j] = l[j]

(* Every job moves lawfully, those settled or claimed for the worker w.     *)
Lawful(f, l, g, m, w) ==
  \A j \in Job :
    \/ Rests(f, l, g, m, j) \/ GoesUnheld(f, l, g, m, j) \/ LosesLock(f, l, g, m, j)
    \/ Starts(f, l, g, m, w, j) \/ Settles(f, l, g, m, w, j)

(* The runs are the others and, if a job was claimed, the one run of it.    *)
NewRuns(f, l, g, w, others) ==
  \/ runs' = others /\ \A j \in Job : ~Starts(f, l, g, q'.lock, w, j)
  \/ \E x \in Run : /\ x.worker = w /\ runs' = others \union {x}
                   /\ \A j \in Job : Starts(f, l, g, q'.lock, w, j) <=> j = x.job

(* A claim makes the one run it starts, and otherwise jobs wake up only.    *)
Fetches(s, f, g, w, others) ==
  /\ Ruled(q', g)
  /\ \A j \in Job : \/ Rests(f, s.lock, g, q'.lock, j)
                    \/ f[j] = "delayed" /\ g[j] \in Waiting /\ q'.lock[j] = s.lock[j]
                    \/ Starts(f, s.lock, g, q'.lock, w, j)
  /\ NewRuns(f, s.lock, g, w, others)

(* moveToActive, and the second half of moveToFinished.                     *)
LEMMA FetchRuled ==
  ASSUME NEW s, NEW f, Ruled(s, f), NEW w \in Worker, NEW others,
         FetchNext(s, w, others)
  PROVE  \E g : Fetches(s, f, g, w, others)
<1>1. PICK p \in Promotions(s) :
        \/ q' = p /\ runs' = others
        \/ q' = AddDelayMarkerIfNeeded(p) /\ runs' = others
        \/ \E j \in Candidates(p) :
             q' = Claim(p, j, w) /\ runs' = others \union Received(q', j, w)
  BY DEF FetchNext
<1>2. PICK e : /\ Ruled(p, e) /\ p.lock = s.lock
               /\ \A k \in Job : e[k] = f[k] \/ (f[k] = "delayed" /\ e[k] \in Waiting)
  <2>1. PICK due \in SUBSET s.delayed :
          \E order \in Orders({j \in due : s.priority[j] = 0}) :
            p = PromoteDelayedJobs(s, due, order)
    BY DEF Promotions
  <2> QED BY <2>1, PromotedRuled
<1>3. \A k \in Job : f[k] # "active" => s.lock[k] = NoToken
  BY DEF Ruled
<1>4. CASE runs' = others /\ (q' = p \/ q' = AddDelayMarkerIfNeeded(p))
  <2>1. Ruled(q', e) /\ q'.lock = s.lock
    <3>1. Placed(AddDelayMarkerIfNeeded(p), e) /\ Keeps(p, AddDelayMarkerIfNeeded(p))
      BY <1>2, MarkersPlaced DEF Ruled
    <3> QED BY <1>2, <1>4, <3>1 DEF Ruled, Keeps
  <2>2. \A j \in Job : /\ \/ Rests(f, s.lock, e, q'.lock, j)
                          \/ f[j] = "delayed" /\ e[j] \in Waiting /\ q'.lock[j] = s.lock[j]
                       /\ ~Starts(f, s.lock, e, q'.lock, w, j)
    BY <1>2, <2>1 DEF Rests, Starts, Waiting
  <2> QED BY <1>4, <2>1, <2>2 DEF Fetches, NewRuns
<1>5. ASSUME NEW j \in Candidates(p), q' = Claim(p, j, w),
             runs' = others \union Received(q', j, w)
      PROVE  \E g : Fetches(s, f, g, w, others)
  <2> DEFINE g == Moved(e, {j}, "active")
             x == [worker |-> w, job |-> j, ats |-> q'.ats[j], atm |-> q'.atm[j],
                   priority |-> q'.priority[j]]
  <2>1. /\ j \in Job /\ e[j] \in Waiting /\ Ruled(q', g)
        /\ q'.lock = [s.lock EXCEPT ![j] = w] /\ q'.hash[j] = "stored"
    <3>1. /\ j \in Job /\ e[j] \in Waiting /\ Ruled(Claim(p, j, w), g)
          /\ Claim(p, j, w).lock = [p.lock EXCEPT ![j] = w]
          /\ Claim(p, j, w).hash[j] = "stored"
      BY <1>2, ClaimedRuled
    <3> QED BY <1>2, <1>5, <3>1
  <2>2. q' \in Server /\ s \in Server
    BY <2>1 DEF Ruled, Placed
  <2>3. s.lock \in [Job -> Worker \union {NoToken}]
    BY <2>2 DEF Server
  <2>4. x \in Run
    BY <2>1, <2>2 DEF Run, Server
  <2>5. runs' = others \union {x} /\ x.worker = w /\ x.job = j
    BY <1>5, <2>1 DEF Received
  <2>6. \A k \in Job : g[k] = IF k = j THEN "active" ELSE e[k]
    BY DEF Moved
  <2>7. \A k \in Job : q'.lock[k] = IF k = j THEN w ELSE s.lock[k]
    BY <2>1, <2>3
  <2> HIDE DEF g, x
  <2>8. Starts(f, s.lock, g, q'.lock, w, j)
    BY <1>2, <1>3, <2>1, <2>6, <2>7 DEF Starts, Waiting
  <2>9. \A k \in Job \ {j} :
           /\ \/ Rests(f, s.lock, g, q'.lock, k)
              \/ f[k] = "delayed" /\ g[k] \in Waiting /\ q'.lock[k] = s.lock[k]
           /\ ~Starts(f, s.lock, g, q'.lock, w, k)
    <3> TAKE k \in Job \ {j}
    <3>1. /\ g[k] = f[k] \/ (f[k] = "delayed" /\ g[k] \in Waiting)
          /\ q'.lock[k] = s.lock[k]
      BY <1>2, <2>6, <2>7
    <3> QED BY <3>1 DEF Rests, Starts, Waiting
  <2> QED BY <2>1, <2>4, <2>5, <2>8, <2>9 DEF Fetches, NewRuns
<1> QED BY <1>1, <1>4, <1>5

-----------------------------------------------------------------------------
(* Calls of clients.                                                        *)

(* A job leaves the wait list.                                              *)
LEMMA WaitLoses ==
  ASSUME NEW s, NEW f, Placed(s, f), NEW j \in Job, f[j] = "wait",
         NEW l \in LRemFirst(s.wait, j) \union LRemAll(s.wait, j),
         NEW t, t = [s EXCEPT !.wait = l]
  PROVE  Placed(t, Moved(f, {j}, "nowhere")) /\ Keeps(s, t)
<1> DEFINE g == Moved(f, {j}, "nowhere")
<1>1. /\ s.wait \in Seq(Job) /\ IsInjective(s.wait) /\ f \in [Job -> Where]
      /\ \A k \in Job : k \in ToSet(s.wait) <=> f[k] = "wait"
  BY DEF Placed, Server
<1>2. l \in Seq(Job) /\ IsInjective(l) /\ ToSet(l) = ToSet(s.wait) \ {j}
  BY <1>1, LRemFirstInjective, LRemAllInjective
<1>3. Only("wait", f, g) /\ \A k \in Job : k \in ToSet(l) <=> g[k] = "wait"
  BY <1>1, <1>2 DEF Only, Moved, Where
<1> HIDE DEF g
<1>4. Placed(t, g) /\ Keeps(s, t)
  BY <1>2, <1>3, WaitIs
<1> QED BY <1>4 DEF g

(* A job leaves the paused list.                                            *)
LEMMA PausedLoses ==
  ASSUME NEW s, NEW f, Placed(s, f), NEW j \in Job, f[j] = "paused",
         NEW l \in LRemFirst(s.paused, j) \union LRemAll(s.paused, j),
         NEW t, t = [s EXCEPT !.paused = l]
  PROVE  Placed(t, Moved(f, {j}, "nowhere")) /\ Keeps(s, t)
<1> DEFINE g == Moved(f, {j}, "nowhere")
<1>1. /\ s.paused \in Seq(Job) /\ IsInjective(s.paused) /\ f \in [Job -> Where]
      /\ \A k \in Job : k \in ToSet(s.paused) <=> f[k] = "paused"
  BY DEF Placed, Server
<1>2. l \in Seq(Job) /\ IsInjective(l) /\ ToSet(l) = ToSet(s.paused) \ {j}
  BY <1>1, LRemFirstInjective, LRemAllInjective
<1>3. Only("paused", f, g) /\ \A k \in Job : k \in ToSet(l) <=> g[k] = "paused"
  BY <1>1, <1>2 DEF Only, Moved, Where
<1> HIDE DEF g
<1>4. Placed(t, g) /\ Keeps(s, t)
  BY <1>2, <1>3, PausedIs
<1> QED BY <1>4 DEF g

(* removeJobFromAnyState takes out the one entry there is.                  *)
LEMMA RemovedPlaced ==
  ASSUME NEW s, NEW f, Placed(s, f), NEW j \in Job, NEW t \in RemovedFromAnyState(s, j)
  PROVE  Placed(t, Moved(f, {j}, "nowhere")) /\ Keeps(s, t)
<1> DEFINE g == Moved(f, {j}, "nowhere")
<1>1. /\ s \in Server /\ f \in [Job -> Where] /\ s.active \in [Job -> Nat]
      /\ j \in ToSet(s.wait)   <=> f[j] = "wait"
      /\ j \in ToSet(s.paused) <=> f[j] = "paused"
      /\ j \in s.prioritized   <=> f[j] = "prioritized"
      /\ j \in s.delayed       <=> f[j] = "delayed"
      /\ j \in s.completed     <=> f[j] = "completed"
      /\ j \in s.failed        <=> f[j] = "failed"
      /\ \A k \in Job : s.active[k] = IF f[k] = "active" THEN 1 ELSE 0
  BY DEF Placed, Server
<1>2. ASSUME NEW p \in Sets, f[j] = p, t = SetTo(s, p, s[p] \ {j})
      PROVE  Placed(t, g) /\ Keeps(s, t)
  <2>1. \A k \in {j} : f[k] = p
    BY <1>2
  <2> QED BY <1>2, <2>1, SetLoses
<1>3. CASE f[j] \in Sets
  <2>1. t = SetTo(s, f[j], s[f[j]] \ {j})
    <3>1. CASE f[j] = "prioritized"
      BY <1>1, <3>1 DEF RemovedFromAnyState, SetTo
    <3>2. CASE f[j] = "delayed"
      BY <1>1, <3>2 DEF RemovedFromAnyState, SetTo
    <3>3. CASE f[j] = "completed"
      BY <1>1, <3>3 DEF RemovedFromAnyState, SetTo
    <3>4. CASE f[j] = "failed"
      BY <1>1, <3>4 DEF RemovedFromAnyState, SetTo
    <3> QED BY <1>3, <3>1, <3>2, <3>3, <3>4 DEF Sets
  <2> QED BY <1>2, <1>3, <2>1
<1>4. CASE f[j] = "wait"
  <2>1. PICK l \in LRemFirst(s.wait, j) : t = [s EXCEPT !.wait = l]
    BY <1>1, <1>4 DEF RemovedFromAnyState
  <2> QED BY <1>4, <2>1, WaitLoses
<1>5. CASE f[j] = "paused"
  <2>1. PICK l \in LRemFirst(s.paused, j) : t = [s EXCEPT !.paused = l]
    BY <1>1, <1>5 DEF RemovedFromAnyState
  <2> QED BY <1>5, <2>1, PausedLoses
<1>6. CASE f[j] = "active"
  <2> DEFINE a == [s.active EXCEPT ![j] = s.active[j] - 1]
  <2>1. t = [s EXCEPT !.active = a]
    BY <1>1, <1>6 DEF RemovedFromAnyState
  <2>2. a \in [Job -> Nat] /\ \A k \in Job : a[k] = IF g[k] = "active" THEN 1 ELSE 0
    BY <1>1, <1>6 DEF Moved
  <2>3. Only("active", f, g)
    BY <1>1, <1>6 DEF Only, Moved, Where
  <2> HIDE DEF a, g
  <2>4. Placed(t, g) /\ Keeps(s, t)
    BY <2>1, <2>2, <2>3, ActiveIs
  <2> QED BY <2>4 DEF g
<1>7. CASE f[j] = "nowhere"
  <2>1. t = s /\ g = f
    BY <1>1, <1>7 DEF RemovedFromAnyState, Moved
  <2> QED BY <2>1 DEF Keeps
<1> QED BY <1>1, <1>3, <1>4, <1>5, <1>6, <1>7 DEF Where, Sets

(* moveJobsToWait: a batch that has left its set enters the list in use.    *)
LEMMA BatchPlaced ==
  ASSUME NEW s, NEW f, Placed(s, f), NEW batch \in SUBSET Job,
         \A j \in batch : f[j] = "nowhere", NEW t \in MoveJobsToWait(s, batch)
  PROVE  \E p \in Waiting : Placed(t, Moved(f, batch, p)) /\ Keeps(s, t)
<1> DEFINE v(order) == IF s.isPaused THEN [s EXCEPT !.paused = order \o s.paused]
                                     ELSE [s EXCEPT !.wait = order \o s.wait]
<1>1. PICK order \in Orders(batch) : t = AddBaseMarkerIfNeeded(v(order), s.isPaused)
  BY DEF MoveJobsToWait
<1>2. PICK p \in Waiting : Placed(v(order), Moved(f, batch, p)) /\ Keeps(s, v(order))
  <2>1. CASE s.isPaused
    <3>1. v(order) = [s EXCEPT !.paused = order \o s.paused]
      BY <2>1
    <3> HIDE DEF v
    <3>2. Placed(v(order), Moved(f, batch, "paused")) /\ Keeps(s, v(order))
      BY <3>1, PausedGets
    <3> QED BY <3>2 DEF Waiting
  <2>2. CASE ~s.isPaused
    <3>1. v(order) = [s EXCEPT !.wait = order \o s.wait]
      BY <2>2
    <3> HIDE DEF v
    <3>2. Placed(v(order), Moved(f, batch, "wait")) /\ Keeps(s, v(order))
      BY <3>1, WaitGets
    <3> QED BY <3>2 DEF Waiting
  <2> QED BY <2>1, <2>2
<1> HIDE DEF v
<1>3. Placed(t, Moved(f, batch, p)) /\ Keeps(v(order), t)
  BY <1>1, <1>2, MarkersPlaced
<1> QED BY <1>2, <1>3 DEF Keeps

(* changePriority of a job that waits: it waits in the other kind of place,  *)
(* or where it was.                                                         *)
LEMMA ReprioritisedPlaced ==
  ASSUME NEW s, NEW f, Ruled(s, f), Drained(s), NEW j \in Job,
         IF s.priority[j] > 0 THEN j \in s.prioritized
                              ELSE j \in ToSet(s.wait) \union ToSet(s.paused),
         NEW priority \in Nat, NEW t \in Reprioritised(s, j, priority)
  PROVE  \E p \in Waiting : /\ f[j] \in Waiting /\ Placed(t, Moved(f, {j}, p))
                            /\ t.hash = s.hash /\ t.lock = s.lock
<1> DEFINE v == [s EXCEPT !.priority[j] = priority]
           c == [s.priority EXCEPT ![j] = priority]
           o == Moved(f, {j}, "nowhere")
           inSet(x) == SetTo(x, "prioritized", x["prioritized"] \union {j})
<1>1. /\ Placed(s, f) /\ s \in Server /\ f \in [Job -> Where] /\ s.isPaused \in BOOLEAN
      /\ j \in ToSet(s.wait)   <=> f[j] = "wait"
      /\ j \in ToSet(s.paused) <=> f[j] = "paused"
      /\ j \in s.prioritized   <=> f[j] = "prioritized"
  <2>1. Placed(s, f)
    BY DEF Ruled
  <2> QED BY <2>1 DEF Placed, Server
<1>2. Placed(v, f) /\ v.hash = s.hash /\ v.lock = s.lock
      /\ v.wait = s.wait /\ v.paused = s.paused /\ v.isPaused = s.isPaused
  <2>1. c \in [Job -> Nat] /\ v = [s EXCEPT !.priority = c]
    BY <1>1 DEF Server
  <2> HIDE DEF c, v
  <2>2. v \in Server /\ SamePlaces(s, v) /\ v.hash = s.hash /\ v.lock = s.lock
        /\ v.isPaused = s.isPaused
    BY <1>1, <2>1 DEF Server, SamePlaces
  <2> QED BY <1>1, <2>2, PlacesKept DEF SamePlaces
<1>3. f[j] \in Waiting
  BY <1>1 DEF Waiting
<1>4. Touch(v, {j}) = v
  <2>1. v.hash[j] # "none"
    BY <1>2, <1>3 DEF Ruled, Waiting
  <2> HIDE DEF v
  <2> QED BY <1>2, <2>1, TouchedPlaced
<1>5. /\ o[j] = "nowhere" /\ \A p \in Where : Moved(o, {j}, p) = Moved(f, {j}, p)
      /\ f = Moved(f, {j}, f[j]) /\ "prioritized" \in Sets /\ Waiting \subseteq Where
  BY <1>1, MovedOn DEF Moved, Sets, Waiting, Where
<1>6. ASSUME NEW x, Placed(x, o), Keeps(v, x), t = inSet(x)
      PROVE  Placed(t, Moved(f, {j}, "prioritized")) /\ t.hash = s.hash /\ t.lock = s.lock
  <2>1. {j} \in SUBSET Job /\ \A k \in {j} : o[k] = "nowhere"
    BY <1>5
  <2>2. Placed(t, Moved(o, {j}, "prioritized")) /\ Keeps(x, t)
    <3> HIDE DEF v, o
    <3> QED BY <1>5, <1>6, <2>1, SetGets
  <2>3. Moved(o, {j}, "prioritized") = Moved(f, {j}, "prioritized")
    BY <1>5 DEF Waiting
  <2> HIDE DEF v, o
  <2> QED BY <1>2, <1>6, <2>2, <2>3 DEF Keeps
<1>7. CASE priority > 0 /\ s.priority[j] > 0
  <2>1. t = inSet(v) /\ f[j] = "prioritized"
    BY <1>1, <1>4, <1>7 DEF Reprioritised, SetTo
  <2>2. v["prioritized"] \union {j} = v["prioritized"]
    BY <1>1, <1>2, <2>1 DEF Placed
  <2>3. inSet(v) = v
    <3>1. v \in Server
      BY <1>2 DEF Placed
    <3> HIDE DEF v
    <3> QED BY <2>2, <3>1 DEF SetTo, Server
  <2> QED BY <1>2, <1>5, <2>1, <2>3 DEF Waiting
<1>8. CASE priority > 0 /\ ~(s.priority[j] > 0) /\ f[j] = "wait"
  <2>1. PICK l \in LRemAll(s.wait, j) :
          t = [[v EXCEPT !.prioritized = v.prioritized \union {j}] EXCEPT !.wait = l]
    <3> DEFINE y == Touch(v, {j})
    <3>1. PICK l \in LRemAll(s.wait, j) :
            t = [[y EXCEPT !.prioritized = y.prioritized \union {j}] EXCEPT !.wait = l]
      BY <1>1, <1>8 DEF Reprioritised
    <3> QED BY <1>4, <3>1
  <2> DEFINE x == [v EXCEPT !.wait = l]
  <2>2. t = inSet(x)
    <3>1. v \in Server
      BY <1>2 DEF Placed
    <3> HIDE DEF v
    <3> QED BY <2>1, <3>1 DEF SetTo, Server
  <2>3. x = [v EXCEPT !.wait = l] /\ l \in LRemFirst(v.wait, j) \union LRemAll(v.wait, j)
    BY <1>2, <2>1
  <2> HIDE DEF x, v, inSet
  <2>4. Placed(x, o) /\ Keeps(v, x)
    BY <1>2, <1>8, <2>3, WaitLoses
  <2> QED BY <1>6, <2>2, <2>4, <1>3 DEF Waiting
<1>9. CASE priority > 0 /\ ~(s.priority[j] > 0) /\ f[j] = "paused"
  <2>1. s.isPaused
    <3>1. s.paused # <<>>
      BY <1>1, <1>9 DEF ToSet
    <3> QED BY <3>1 DEF Drained
  <2>2. PICK l \in LRemAll(s.paused, j) :
          t = [[v EXCEPT !.prioritized = v.prioritized \union {j}] EXCEPT !.paused = l]
    <3> DEFINE y == Touch(v, {j})
    <3>1. PICK l \in LRemAll(s.paused, j) :
            t = [[y EXCEPT !.prioritized = y.prioritized \union {j}] EXCEPT !.paused = l]
      BY <1>1, <1>9, <2>1 DEF Reprioritised
    <3> QED BY <1>4, <3>1
  <2> DEFINE x == [v EXCEPT !.paused = l]
  <2>3. t = inSet(x)
    <3>1. v \in Server
      BY <1>2 DEF Placed
    <3> HIDE DEF v
    <3> QED BY <2>2, <3>1 DEF SetTo, Server
  <2>4. x = [v EXCEPT !.paused = l] /\ l \in LRemFirst(v.paused, j) \union LRemAll(v.paused, j)
    BY <1>2, <2>2
  <2> HIDE DEF x, v, inSet
  <2>5. Placed(x, o) /\ Keeps(v, x)
    BY <1>2, <1>9, <2>4, PausedLoses
  <2> QED BY <1>6, <2>3, <2>5, <1>3 DEF Waiting
<1>10. CASE ~(priority > 0) /\ s.priority[j] > 0
  <2> DEFINE x == SetTo(v, "prioritized", v["prioritized"] \ {j})
  <2>1. t = RPushTarget(x, j) /\ f[j] = "prioritized"
    BY <1>1, <1>4, <1>10 DEF Reprioritised, SetTo
  <2>2. \A k \in {j} : f[k] = "prioritized"
    BY <2>1
  <2>3. x = SetTo(v, "prioritized", v["prioritized"] \ {j})
    OBVIOUS
  <2> HIDE DEF v, x
  <2>4. Placed(x, o) /\ Keeps(v, x)
    BY <1>2, <1>5, <2>2, <2>3, SetLoses
  <2> HIDE DEF o
  <2>5. PICK p \in Waiting : Placed(t, Moved(o, {j}, p)) /\ Keeps(x, t)
    BY <1>5, <2>1, <2>4, PushPlaced DEF Waiting
  <2>6. Moved(o, {j}, p) = Moved(f, {j}, p)
    BY <1>5
  <2> QED BY <1>2, <1>3, <2>4, <2>5, <2>6 DEF Keeps
<1>11. CASE ~(priority > 0) /\ ~(s.priority[j] > 0)
  <2>1. t = v
    BY <1>4, <1>11 DEF Reprioritised
  <2> QED BY <1>2, <1>3, <1>5, <2>1
<1>12. s.priority[j] > 0 \/ f[j] = "wait" \/ f[j] = "paused"
  BY <1>1
<1> QED BY <1>7, <1>8, <1>9, <1>10, <1>11, <1>12

-----------------------------------------------------------------------------
(* The actions.                                                             *)

(* No worker checks for stalled jobs (skip_stalled_check), and priorities   *)
(* are changed of jobs that wait.                                           *)
Undisturbed == "stalled_check" \notin Env /\ "reprioritise_any" \notin Env

(* A step of the queue, for a worker w if it settles or claims jobs.        *)
Moves(f, g, w) == Ruled(q', g) /\ Lawful(f, q.lock, g, q'.lock, w)

(* A call that is no worker's: it starts no run, locks no job and takes no  *)
(* job away from a worker unless it removes it.                             *)
Calm(f, g) ==
  /\ Moves(f, g, NoToken) /\ runs' = runs /\ alive' = alive
  /\ \A j \in Job : /\ q'.lock[j] \in {q.lock[j], NoToken}
                    /\ f[j] = "active" /\ "remove" \notin Env => g[j] = "active"

(* A lawful move of several jobs that leaves the locks alone.               *)
LEMMA UnheldMove ==
  ASSUME NEW f, Ruled(q, f), NEW J, NEW p \in Where, NEW g, g = Moved(f, J, p),
         Placed(q', g), q'.lock = q.lock, UNCHANGED <<runs, alive>>,
         \A j \in Job : q'.hash[j] = IF g[j] = "nowhere" THEN "none" ELSE "stored",
         \A j \in Job : j \in J =>
           \/ f[j] \in Waiting /\ p \in Waiting
           \/ f[j] = "nowhere" /\ p \in Waiting \union {"delayed"}
           \/ f[j] \in {"delayed", "completed", "failed"} /\ p \in Waiting
           \/ p = "nowhere" /\ "remove" \in Env /\ q.lock[j] = NoToken
  PROVE  Calm(f, g)
<1>1. \A j \in Job : g[j] = IF j \in J THEN p ELSE f[j]
  BY DEF Moved
<1>2. \A j \in Job : q.lock[j] # NoToken => f[j] = "active"
  BY DEF Ruled
<1>3. Ruled(q', g)
  BY <1>1, <1>2 DEF Ruled, Waiting
<1>4. ASSUME NEW j \in Job
      PROVE  Rests(f, q.lock, g, q'.lock, j) \/ GoesUnheld(f, q.lock, g, q'.lock, j)
  <2>1. CASE j \notin J
    BY <1>1, <2>1 DEF Rests
  <2>2. CASE j \in J /\ f[j] \in Waiting /\ p \in Waiting
    BY <1>1, <2>2 DEF Rests, Life
  <2>3. CASE j \in J /\ f[j] = "nowhere" /\ p \in Waiting \union {"delayed"}
    BY <1>1, <1>2, <2>3 DEF GoesUnheld
  <2>4. CASE j \in J /\ f[j] \in {"delayed", "completed", "failed"} /\ p \in Waiting
    BY <1>1, <1>2, <2>4 DEF GoesUnheld
  <2>5. CASE j \in J /\ p = "nowhere" /\ q.lock[j] = NoToken
    BY <1>1, <2>5 DEF GoesUnheld, Rests
  <2> QED BY <2>1, <2>2, <2>3, <2>4, <2>5
<1>5. \A j \in Job : f[j] = "active" /\ "remove" \notin Env => g[j] = "active"
  BY <1>1 DEF Waiting
<1> QED BY <1>3, <1>4, <1>5 DEF Calm, Moves, Lawful

(* A job added has a hash before it is in a list or set.                    *)
LEMMA StoredPlaced ==
  ASSUME NEW s, NEW f, Placed(s, f), NEW j \in Job, NEW priority \in Nat
  PROVE  /\ Placed(StoreJob(s, j, priority), f)
         /\ StoreJob(s, j, priority).hash = [s.hash EXCEPT ![j] = "stored"]
         /\ StoreJob(s, j, priority).lock = s.lock
<1> DEFINE h == [s.hash EXCEPT ![j] = "stored"]
           p == [s.priority EXCEPT ![j] = priority]
           m == [s.atm EXCEPT ![j] = 0]
           t == [s EXCEPT !.hash = h, !.priority = p, !.atm = m]
<1>1. s \in Server
  BY DEF Placed
<1>2. /\ h \in [Job -> {"none", "stored", "bare"}]
      /\ p \in [Job -> Nat] /\ m \in [Job -> Nat]
  BY <1>1 DEF Server
<1>3. StoreJob(s, j, priority) = t
  BY <1>1 DEF StoreJob, Server
<1> HIDE DEF h, p, m
<1>4. t \in Server /\ SamePlaces(s, t) /\ t.hash = h /\ t.lock = s.lock
  BY <1>1, <1>2 DEF Server, SamePlaces
<1> HIDE DEF t
<1> QED BY <1>3, <1>4, PlacesKept DEF h

(* The three ways to add a job.                                             *)
LEMMA AddCalm ==
  ASSUME NEW f, Ruled(q, f), NEW j \in Job, Add(j)
  PROVE  \E g : Calm(f, g)
<1>1. /\ Placed(q, f) /\ 0 \in Nat /\ Priority \subseteq Nat /\ f \in [Job -> Where]
      /\ q.hash \in [Job -> {"none", "stored", "bare"}]
  <2>1. Placed(q, f)
    BY DEF Ruled
  <2> QED BY <2>1, ParametersAssumption DEF Placed, Server
<1>2. q.hash[j] = "none" /\ UNCHANGED <<runs, alive>>
  BY DEF Add, AddStandardJob, AddPrioritizedJob, AddDelayedJob
<1>3. f[j] = "nowhere"
  BY <1>2 DEF Ruled
<1>4. PICK priority \in Nat :
        \/ q' = AddBaseMarkerIfNeeded(LPushTarget(StoreJob(q, j, priority), j), q.isPaused)
        \/ q' = AddBaseMarkerIfNeeded(
                  SetTo(StoreJob(q, j, priority), "prioritized",
                        StoreJob(q, j, priority)["prioritized"] \union {j}), q.isPaused)
        \/ q' = AddDelayMarkerIfNeeded(
                  SetTo(StoreJob(q, j, priority), "delayed",
                        StoreJob(q, j, priority)["delayed"] \union {j}))
  BY <1>1 DEF Add, AddStandardJob, AddPrioritizedJob, AddDelayedJob, SetTo
<1> DEFINE t == StoreJob(q, j, priority)
<1>5. Placed(t, f) /\ t.hash = [q.hash EXCEPT ![j] = "stored"] /\ t.lock = q.lock
  BY <1>1, StoredPlaced
<1> HIDE DEF t
<1>6. {j} \in SUBSET Job /\ \A k \in {j} : f[k] = "nowhere"
  BY <1>3
<1>7. ASSUME NEW u, NEW p \in Waiting \union {"delayed"}, Placed(u, Moved(f, {j}, p)), Keeps(t, u),
             Placed(q', Moved(f, {j}, p)), Keeps(u, q')
      PROVE  Calm(f, Moved(f, {j}, p))
  <2>1. /\ p \in Where /\ p # "nowhere"
    BY DEF Waiting, Where
  <2>2. q'.lock = q.lock /\ q'.hash = [q.hash EXCEPT ![j] = "stored"]
    BY <1>5, <1>7 DEF Keeps
  <2> DEFINE g == Moved(f, {j}, p)
  <2>3. \A k \in Job : q'.hash[k] = IF g[k] = "nowhere" THEN "none" ELSE "stored"
    BY <1>1, <2>1, <2>2 DEF Moved, Ruled
  <2>4. Placed(q', g) /\ g = Moved(f, {j}, p)
    BY <1>7
  <2> HIDE DEF g
  <2>5. Calm(f, g)
    BY <1>2, <1>3, <2>1, <2>2, <2>3, <2>4, UnheldMove
  <2> QED BY <2>5 DEF g
<1>8. CASE q' = AddBaseMarkerIfNeeded(LPushTarget(t, j), q.isPaused)
  <2>1. PICK p \in Waiting : Placed(LPushTarget(t, j), Moved(f, {j}, p)) /\ Keeps(t, LPushTarget(t, j))
    BY <1>3, <1>5, PushPlaced DEF Waiting
  <2> QED BY <1>7, <1>8, <2>1, MarkersPlaced
<1>9. CASE q' = AddBaseMarkerIfNeeded(SetTo(t, "prioritized", t["prioritized"] \union {j}), q.isPaused)
  <2> DEFINE u == SetTo(t, "prioritized", t["prioritized"] \union {j})
  <2>1. u = SetTo(t, "prioritized", t["prioritized"] \union {j}) /\ "prioritized" \in Sets
        /\ "prioritized" \in Waiting
    BY DEF Sets, Waiting
  <2>2. q' = AddBaseMarkerIfNeeded(u, q.isPaused)
    BY <1>9
  <2> HIDE DEF u
  <2>3. Placed(u, Moved(f, {j}, "prioritized")) /\ Keeps(t, u)
    BY <1>5, <1>6, <2>1, SetGets
  <2> QED BY <1>7, <2>1, <2>2, <2>3, MarkersPlaced
<1>10. CASE q' = AddDelayMarkerIfNeeded(SetTo(t, "delayed", t["delayed"] \union {j}))
  <2> DEFINE u == SetTo(t, "delayed", t["delayed"] \union {j})
  <2>1. u = SetTo(t, "delayed", t["delayed"] \union {j}) /\ "delayed" \in Sets
    BY DEF Sets
  <2>2. q' = AddDelayMarkerIfNeeded(u)
    BY <1>10
  <2> HIDE DEF u
  <2>3. Placed(u, Moved(f, {j}, "delayed")) /\ Keeps(t, u)
    BY <1>5, <1>6, <2>1, SetGets
  <2> QED BY <1>7, <2>2, <2>3, MarkersPlaced
<1> QED BY <1>4, <1>8, <1>9, <1>10 DEF t

(* A call leaves the jobs where they are, and the marker or limiter changes. *)
LEMMA SamePlacesCalm ==
  ASSUME NEW f, Ruled(q, f), q' \in Server, SamePlaces(q, q'),
         q'.lock = q.lock, q'.hash = q.hash, UNCHANGED <<runs, alive>>
  PROVE  Calm(f, f)
<1>1. Placed(q', f)
  BY PlacesKept DEF Ruled
<1>2. Ruled(q', f)
  BY <1>1 DEF Ruled
<1> QED BY <1>2 DEF Calm, Moves, Lawful, Rests

(* Calls about one job, and the expiry of its lock.                         *)
LEMMA JobCallCalm ==
  ASSUME Undisturbed, NEW f, Ruled(q, f), Drained(q), NEW j \in Job, JobCall(j)
  PROVE  \E g : Calm(f, g)
<1>1. /\ Placed(q, f) /\ q \in Server /\ f \in [Job -> Where] /\ Waiting \subseteq Where
      /\ q.lock \in [Job -> Worker \union {NoToken}]
      /\ q.hash \in [Job -> {"none", "stored", "bare"}]
      /\ Priority \subseteq Nat /\ "nowhere" \in Where
  <2>1. Placed(q, f)
    BY DEF Ruled
  <2>2. q \in Server /\ f \in [Job -> Where]
    BY <2>1 DEF Placed
  <2> QED BY <2>1, <2>2, ParametersAssumption DEF Server, Where, Waiting
<1>2. CASE LockExpires(j)
  <2> DEFINE l == [q.lock EXCEPT ![j] = NoToken]
  <2>1. l \in [Job -> Worker \union {NoToken}] /\ q' = [q EXCEPT !.lock = l]
    BY <1>1, <1>2 DEF LockExpires
  <2>2. q.lock[j] \in Worker /\ f[j] = "active" /\ UNCHANGED <<runs, alive>>
    BY <1>1, <1>2 DEF LockExpires, Ruled
  <2>3. \A k \in Job : l[k] = IF k = j THEN NoToken ELSE q.lock[k]
    BY <1>1
  <2> HIDE DEF l
  <2>4. q' \in Server /\ SamePlaces(q, q') /\ q'.lock = l /\ q'.hash = q.hash
    BY <1>1, <2>1 DEF Server, SamePlaces
  <2>5. Placed(q', f)
    BY <1>1, <2>4, PlacesKept
  <2>6. Ruled(q', f)
    BY <2>3, <2>4, <2>5 DEF Ruled
  <2>7. \A k \in Job : Rests(f, q.lock, f, q'.lock, k) \/ LosesLock(f, q.lock, f, q'.lock, k)
    BY <2>2, <2>3, <2>4 DEF Rests, LosesLock
  <2>8. Calm(f, f)
    BY <2>2, <2>3, <2>4, <2>6, <2>7 DEF Calm, Moves, Lawful
  <2> QED BY <2>8
<1>3. CASE Promote(j)
  <2> DEFINE u == SetTo(q, "delayed", q["delayed"] \ {j})
             v == Touch(u, {j})
             o == Moved(f, {j}, "nowhere")
             w == Requeue(v, j, q.priority[j])
  <2>1. /\ u = SetTo(q, "delayed", q["delayed"] \ {j}) /\ "delayed" \in Sets
        /\ f[j] = "delayed" /\ (\A k \in {j} : f[k] = "delayed") /\ UNCHANGED <<runs, alive>>
    BY <1>1, <1>3 DEF Promote, Placed, Sets
  <2>2. \E b : q' = AddBaseMarkerIfNeeded(w, b)
    BY <1>3 DEF Promote, SetTo
  <2> HIDE DEF u
  <2>3. Placed(u, o) /\ Keeps(q, u)
    BY <1>1, <2>1, SetLoses
  <2>4. v = u
    <3>1. u.hash[j] # "none"
      BY <2>1, <2>3 DEF Keeps, Ruled
    <3> QED BY <2>3, <3>1, TouchedPlaced
  <2>5. o[j] = "nowhere" /\ \A p \in Where : Moved(o, {j}, p) = Moved(f, {j}, p)
    BY <1>1, MovedOn DEF Moved
  <2> HIDE DEF v, o
  <2>6. PICK p \in Waiting : Placed(w, Moved(o, {j}, p)) /\ Keeps(v, w)
    BY <2>3, <2>4, <2>5, RequeuePlaced
  <2> HIDE DEF w
  <2> DEFINE g == Moved(f, {j}, p)
  <2>7. Placed(w, g)
    BY <1>1, <2>5, <2>6
  <2>8. Placed(q', g) /\ q'.lock = q.lock /\ q'.hash = q.hash
    <3> HIDE DEF g
    <3> QED BY <2>2, <2>3, <2>4, <2>6, <2>7, MarkersPlaced DEF Keeps
  <2>9. \A k \in Job : q'.hash[k] = IF g[k] = "nowhere" THEN "none" ELSE "stored"
    BY <2>1, <2>8 DEF Ruled, Moved, Waiting
  <2>10. g = Moved(f, {j}, p) /\ p \in Where
    BY <1>1
  <2> HIDE DEF g
  <2>11. Calm(f, g)
    BY <2>1, <2>8, <2>9, <2>10, UnheldMove
  <2> QED BY <2>11
<1>4. CASE RemoveJob(j)
  <2>1. PICK s \in RemovedFromAnyState(q, j) :
          q' = [s EXCEPT !.hash[j] = "none", !.priority[j] = 0, !.atm[j] = 0, !.stc[j] = 0]
    BY <1>4 DEF RemoveJob
  <2> DEFINE g == Moved(f, {j}, "nowhere")
             h == [s.hash EXCEPT ![j] = "none"]
             p == [s.priority EXCEPT ![j] = 0]
             m == [s.atm EXCEPT ![j] = 0]
             c == [s.stc EXCEPT ![j] = 0]
  <2>2. Placed(s, g) /\ Keeps(q, s)
    BY <1>1, RemovedPlaced
  <2>3. s \in Server
    BY <2>2 DEF Placed
  <2>4. /\ h \in [Job -> {"none", "stored", "bare"}]
        /\ p \in [Job -> Nat] /\ m \in [Job -> Nat] /\ c \in [Job -> Nat]
    BY <2>3 DEF Server
  <2>5. q' = [s EXCEPT !.hash = h, !.priority = p, !.atm = m, !.stc = c]
    BY <2>1, <2>3 DEF Server
  <2>6. \A k \in Job : h[k] = IF g[k] = "nowhere" THEN "none" ELSE "stored"
    BY <1>1, <2>2 DEF Keeps, Ruled, Moved
  <2>7. g = Moved(f, {j}, "nowhere")
    OBVIOUS
  <2> HIDE DEF g, h, p, m, c
  <2>8. q' \in Server /\ SamePlaces(s, q') /\ q'.hash = h /\ q'.lock = s.lock
    BY <2>3, <2>4, <2>5 DEF Server, SamePlaces
  <2>9. Placed(q', g) /\ q'.lock = q.lock
    BY <2>2, <2>8, PlacesKept DEF Keeps
  <2>10. q.lock[j] = NoToken /\ "remove" \in Env /\ UNCHANGED <<runs, alive>>
    BY <1>4 DEF RemoveJob
  <2>11. /\ \A k \in Job : q'.hash[k] = IF g[k] = "nowhere" THEN "none" ELSE "stored"
         /\ \A k \in Job : k \in {j} => "remove" \in Env /\ q.lock[k] = NoToken
    BY <2>6, <2>8, <2>10
  <2>12. PICK e \in Where : e = "nowhere" /\ g = Moved(f, {j}, e)
    BY <1>1, <2>7
  <2>13. Calm(f, g)
    BY <2>9, <2>10, <2>11, <2>12, UnheldMove
  <2> QED BY <2>13
<1>5. ASSUME NEW priority \in Priority, ChangePriority(j, priority)
      PROVE  \E g : Calm(f, g)
  <2>1. PICK t \in Reprioritised(q, j, priority) : q' = AddBaseMarkerIfNeeded(t, q.isPaused)
    BY <1>5 DEF ChangePriority
  <2>2. /\ IF q.priority[j] > 0 THEN j \in q.prioritized
                                ELSE j \in ToSet(q.wait) \union ToSet(q.paused)
        /\ UNCHANGED <<runs, alive>>
    BY <1>5 DEF ChangePriority, Undisturbed
  <2>3. PICK p \in Waiting : /\ f[j] \in Waiting /\ Placed(t, Moved(f, {j}, p))
                            /\ t.hash = q.hash /\ t.lock = q.lock
    <3>1. priority \in Nat
      BY <1>1
    <3>2. \E p \in Waiting : /\ f[j] \in Waiting /\ Placed(t, Moved(f, {j}, p))
                            /\ t.hash = q.hash /\ t.lock = q.lock
      <4> HIDE DEF Waiting
      <4> QED BY <2>2, <3>1, ReprioritisedPlaced, ZenonT(60)
    <3> QED BY <3>2
  <2> DEFINE g == Moved(f, {j}, p)
  <2>4. Placed(q', g) /\ q'.lock = q.lock /\ q'.hash = q.hash
    BY <2>1, <2>3, MarkersPlaced DEF Keeps
  <2>5. \A k \in Job : q'.hash[k] = IF g[k] = "nowhere" THEN "none" ELSE "stored"
    BY <2>3, <2>4 DEF Ruled, Moved, Waiting
  <2>6. g = Moved(f, {j}, p) /\ p \in Where
    BY <1>1
  <2> HIDE DEF g
  <2>7. Calm(f, g)
    BY <2>2, <2>3, <2>4, <2>5, <2>6, UnheldMove
  <2> QED BY <2>7
<1> QED BY <1>2, <1>3, <1>4, <1>5 DEF JobCall

(* Batches out of the failed, completed or delayed set.                     *)
LEMMA BatchesCalm ==
  ASSUME NEW f, Ruled(q, f), RetryJobs \/ PromoteJobs
  PROVE  \E g : Calm(f, g)
<1>1. PICK from \in {"delayed", "completed", "failed"} : \E batch \in SUBSET q[from] :
        q' \in MoveJobsToWait(SetTo(q, from, q[from] \ batch), batch)
  <2>1. CASE RetryJobs
    BY <2>1 DEF RetryJobs, SetTo
  <2>2. CASE PromoteJobs
    BY <2>2 DEF PromoteJobs, SetTo
  <2> QED BY <2>1, <2>2
<1>2. PICK batch \in SUBSET q[from] : q' \in MoveJobsToWait(SetTo(q, from, q[from] \ batch), batch)
  BY <1>1
<1> DEFINE s == SetTo(q, from, q[from] \ batch)
           o == Moved(f, batch, "nowhere")
<1>3. /\ Placed(q, f) /\ from \in Sets /\ f \in [Job -> Where] /\ Waiting \subseteq Where
      /\ UNCHANGED <<runs, alive>>
  BY DEF Ruled, Placed, Sets, Where, Waiting, RetryJobs, PromoteJobs
<1>4. batch \in SUBSET Job /\ \A k \in batch : f[k] = from
  BY <1>3, SetPlaced
<1>5. s = SetTo(q, from, q[from] \ batch) /\ q' \in MoveJobsToWait(s, batch)
  BY <1>2
<1> HIDE DEF s
<1>6. Placed(s, o) /\ Keeps(q, s)
  BY <1>3, <1>4, <1>5, SetLoses
<1>7. /\ \A k \in batch : o[k] = "nowhere"
      /\ \A p \in Where : Moved(o, batch, p) = Moved(f, batch, p)
  BY <1>3, <1>4, MovedOn DEF Moved
<1> HIDE DEF o
<1>8. PICK p \in Waiting : Placed(q', Moved(o, batch, p)) /\ Keeps(s, q')
  BY <1>4, <1>5, <1>6, <1>7, BatchPlaced
<1> DEFINE g == Moved(f, batch, p)
<1>9. Placed(q', g) /\ q'.lock = q.lock /\ q'.hash = q.hash
  BY <1>3, <1>6, <1>7, <1>8 DEF Keeps
<1>10. \A k \in Job : q'.hash[k] = IF g[k] = "nowhere" THEN "none" ELSE "stored"
  BY <1>4, <1>9 DEF Ruled, Moved, Waiting
<1>11. g = Moved(f, batch, p) /\ p \in Where
  BY <1>3
<1> HIDE DEF g
<1>12. Calm(f, g)
  BY <1>3, <1>4, <1>9, <1>10, <1>11, UnheldMove
<1> QED BY <1>12

(* Calls about the whole queue.                                             *)
LEMMA QueueCallCalm ==
  ASSUME NEW f, Ruled(q, f), QueueCall
  PROVE  \E g : Calm(f, g)
<1>1. /\ Placed(q, f) /\ q \in Server /\ f \in [Job -> Where]
      /\ q.wait \in Seq(Job) /\ q.paused \in Seq(Job)
      /\ IsInjective(q.wait) /\ IsInjective(q.paused)
      /\ \A k \in Job : /\ k \in ToSet(q.wait)   <=> f[k] = "wait"
                        /\ k \in ToSet(q.paused) <=> f[k] = "paused"
  <2>1. Placed(q, f)
    BY DEF Ruled
  <2> QED BY <2>1 DEF Placed, Server
<1>2. ToSet(q.wait) \intersect ToSet(q.paused) = {} /\ ToSet(q.paused) \intersect ToSet(q.wait) = {}
  <2>1. ToSet(q.wait) \subseteq Job /\ ToSet(q.paused) \subseteq Job
    BY <1>1 DEF ToSet
  <2> QED BY <1>1, <2>1
<1>3. <<>> \in Seq(Job) /\ IsInjective(<<>>) /\ ToSet(<<>>) = {}
  BY DEF IsInjective, ToSet
<1>4. CASE Pause
  <2> DEFINE l == q.wait \o q.paused
             J == {k \in Job : f[k] = "wait"}
             g == Moved(f, J, "paused")
  <2>1. l \in Seq(Job) /\ ToSet(l) = ToSet(q.wait) \union ToSet(q.paused) /\ IsInjective(l)
    BY <1>1, <1>2, ToSetConcat, ConcatInjective
  <2>2. q' = [q EXCEPT !.isPaused = TRUE, !.paused = l, !.wait = <<>>] /\ UNCHANGED <<runs, alive>>
    BY <1>4 DEF Pause
  <2>3. g \in [Job -> Where] /\ \A k \in Job : g[k] = IF f[k] = "wait" THEN "paused" ELSE f[k]
    BY <1>1 DEF Moved, Where
  <2> HIDE DEF l
  <2>4. /\ q' \in Server /\ q'.wait = <<>> /\ q'.paused = l /\ q'.active = q.active
        /\ q'.prioritized = q.prioritized /\ q'.delayed = q.delayed
        /\ q'.completed = q.completed /\ q'.failed = q.failed
        /\ q'.lock = q.lock /\ q'.hash = q.hash
    BY <1>1, <1>3, <2>1, <2>2 DEF Server
  <2>5. PICK e \in Where : /\ e \in Waiting /\ g = Moved(f, J, e)
                          /\ \A k \in J : f[k] \in Waiting
    BY DEF Where, Waiting
  <2> HIDE DEF g, J
  <2>6. Placed(q', g)
    BY <1>1, <1>3, <2>1, <2>3, <2>4 DEF Placed
  <2>7. \A k \in Job : q'.hash[k] = IF g[k] = "nowhere" THEN "none" ELSE "stored"
    BY <2>3, <2>4 DEF Ruled
  <2>8. Calm(f, g)
    BY <2>2, <2>4, <2>5, <2>6, <2>7, UnheldMove
  <2> QED BY <2>8
<1>5. CASE Resume
  <2> DEFINE l == q.paused \o q.wait
             J == {k \in Job : f[k] = "paused"}
             g == Moved(f, J, "wait")
             t == [q EXCEPT !.isPaused = FALSE, !.wait = l, !.paused = <<>>]
  <2>1. l \in Seq(Job) /\ ToSet(l) = ToSet(q.wait) \union ToSet(q.paused) /\ IsInjective(l)
    BY <1>1, <1>2, ToSetConcat, ConcatInjective
  <2>2. q' = AddBaseMarkerIfNeeded(t, FALSE) /\ UNCHANGED <<runs, alive>>
    BY <1>5 DEF Resume
  <2>3. g \in [Job -> Where] /\ \A k \in Job : g[k] = IF f[k] = "paused" THEN "wait" ELSE f[k]
    BY <1>1 DEF Moved, Where
  <2> HIDE DEF l
  <2>4. /\ t \in Server /\ t.wait = l /\ t.paused = <<>> /\ t.active = q.active
        /\ t.prioritized = q.prioritized /\ t.delayed = q.delayed
        /\ t.completed = q.completed /\ t.failed = q.failed
        /\ t.lock = q.lock /\ t.hash = q.hash
    BY <1>1, <1>3, <2>1 DEF Server
  <2>5. PICK e \in Where : /\ e \in Waiting /\ g = Moved(f, J, e)
                          /\ \A k \in J : f[k] \in Waiting
    BY DEF Where, Waiting
  <2> HIDE DEF g, J, t
  <2>6. Placed(t, g)
    <3>1. /\ t.active = q.active /\ t.prioritized = q.prioritized /\ t.delayed = q.delayed
          /\ t.completed = q.completed /\ t.failed = q.failed /\ t.wait = l /\ t.paused = <<>>
      BY <2>4
    <3>2. ASSUME NEW k \in Job
          PROVE  /\ k \in ToSet(t.wait)   <=> g[k] = "wait"
                 /\ k \in ToSet(t.paused) <=> g[k] = "paused"
      <4>1. k \in ToSet(t.wait) <=> f[k] = "wait" \/ f[k] = "paused"
        BY <1>1, <2>1, <3>1
      <4>2. k \notin ToSet(t.paused)
        BY <1>3, <3>1
      <4>3. g[k] = IF f[k] = "paused" THEN "wait" ELSE f[k]
        BY <2>3
      <4> QED BY <4>1, <4>2, <4>3
    <3>3. ASSUME NEW k \in Job
          PROVE  /\ k \in t.prioritized <=> g[k] = "prioritized"
                 /\ k \in t.delayed     <=> g[k] = "delayed"
                 /\ k \in t.completed   <=> g[k] = "completed"
                 /\ k \in t.failed      <=> g[k] = "failed"
                 /\ t.active[k] = IF g[k] = "active" THEN 1 ELSE 0
      <4>1. /\ k \in q.prioritized <=> f[k] = "prioritized"
            /\ k \in q.delayed     <=> f[k] = "delayed"
            /\ k \in q.completed   <=> f[k] = "completed"
            /\ k \in q.failed      <=> f[k] = "failed"
            /\ q.active[k] = IF f[k] = "active" THEN 1 ELSE 0
        BY <1>1 DEF Placed
      <4>2. g[k] = IF f[k] = "paused" THEN "wait" ELSE f[k]
        BY <2>3
      <4> QED BY <3>1, <4>1, <4>2
    <3>4. t \in Server /\ g \in [Job -> Where] /\ IsInjective(t.wait) /\ IsInjective(t.paused)
      BY <1>3, <2>1, <2>3, <2>4, <3>1
    <3> QED BY <3>2, <3>3, <3>4, Zenon DEF Placed
  <2>7. Placed(q', g) /\ q'.lock = q.lock /\ q'.hash = q.hash
    <3>1. Placed(q', g) /\ Keeps(t, q')
      BY <2>2, <2>6, MarkersPlaced
    <3> QED BY <2>4, <3>1 DEF Keeps
  <2>8. \A k \in Job : q'.hash[k] = IF g[k] = "nowhere" THEN "none" ELSE "stored"
    BY <2>3, <2>7 DEF Ruled
  <2>9. UNCHANGED <<runs, alive>>
    BY <2>2
  <2>10. Calm(f, g)
    BY <2>5, <2>7, <2>8, <2>9, UnheldMove
  <2> QED BY <2>10
<1>6. CASE RetryJobs \/ PromoteJobs
  BY <1>6, BatchesCalm
<1>7. CASE RateLimit \/ LimiterExpires
  <2>1. PICK m \in Nat : q' = [q EXCEPT !.limiter = m] /\ UNCHANGED <<runs, alive>>
    BY <1>7, ParametersAssumption DEF RateLimit, LimiterExpires
  <2>2. q' \in Server /\ SamePlaces(q, q') /\ q'.lock = q.lock /\ q'.hash = q.hash
    <3>1. q' \in Server
      BY <1>1, <2>1 DEF Server
    <3> QED BY <1>1, <2>1, <3>1 DEF Server, SamePlaces
  <2>3. Calm(f, f)
    BY <2>1, <2>2, SamePlacesCalm
  <2> QED BY <2>3
<1> QED BY <1>4, <1>5, <1>6, <1>7 DEF QueueCall

(* The lock extender touches the stalled set alone.                         *)
LEMMA ExtendLockCalm ==
  ASSUME NEW f, Ruled(q, f), NEW r \in runs, ExtendLock(r)
  PROVE  Calm(f, f)
<1>1. q \in Server
  BY DEF Ruled, Placed
<1>2. q' = [q EXCEPT !.stalled = q.stalled \ {r.job}] /\ UNCHANGED <<runs, alive>>
  BY DEF ExtendLock
<1>3. q' \in Server /\ SamePlaces(q, q') /\ q'.lock = q.lock /\ q'.hash = q.hash
  <2>1. q.stalled \ {r.job} \in SUBSET Job
    BY <1>1 DEF Server
  <2> QED BY <1>1, <1>2, <2>1 DEF Server, SamePlaces
<1> QED BY <1>2, <1>3, SamePlacesCalm

(* What the outcome of a run does: only its own job stops being active, its *)
(* own lock is released, and unless its handler goes on, it is no run.      *)
Outcome(r, f, g) ==
  /\ Moves(f, g, r.worker) /\ alive' = alive
  /\ \A j \in Job :
       /\ f[j] = "active" /\ j # r.job => g[j] = "active"
       /\ q'.lock[j] \in {q.lock[j], NoToken} \/ Starts(f, q.lock, g, q'.lock, r.worker, j)
  /\ q'.lock[r.job] = r.worker => "cancel" \in Env
  /\ \/ NewRuns(f, q.lock, g, r.worker, runs \ {r})
     \/ "handler_moves" \in Env /\ NewRuns(f, q.lock, g, r.worker, runs)

(* A run that gives its job up.                                             *)
LEMMA SettledOutcome ==
  ASSUME NEW f, Ruled(q, f), NEW r \in Run, q.lock[r.job] = r.worker, f[r.job] = "active",
         NEW p \in Waiting \union {"delayed", "completed", "failed"}, NEW g,
         g = Moved(f, {r.job}, p), Placed(q', g), Unlocks(q, q', r.job), alive' = alive,
         \/ runs' = runs \ {r}
         \/ runs' = runs /\ "handler_moves" \in Env
  PROVE  Outcome(r, f, g)
<1>1. /\ r.job \in Job /\ r.worker \in Worker /\ NoToken \notin Worker /\ q \in Server
  BY ParametersAssumption DEF Run, Ruled, Placed
<1>2. q.lock \in [Job -> Worker \union {NoToken}]
  BY <1>1 DEF Server
<1>3. \A j \in Job : g[j] = IF j = r.job THEN p ELSE f[j]
  BY DEF Moved
<1>4. \A j \in Job : q'.lock[j] = IF j = r.job THEN NoToken ELSE q.lock[j]
  BY <1>2 DEF Unlocks
<1>5. Ruled(q', g)
  BY <1>1, <1>3, <1>4 DEF Ruled, Unlocks, Waiting
<1>6. ASSUME NEW j \in Job
      PROVE  /\ \/ Rests(f, q.lock, g, q'.lock, j)
                \/ Settles(f, q.lock, g, q'.lock, r.worker, j)
             /\ ~Starts(f, q.lock, g, q'.lock, r.worker, j)
  <2>1. CASE j = r.job
    BY <1>1, <1>3, <1>4, <2>1 DEF Settles, Starts
  <2>2. CASE j # r.job
    BY <1>3, <1>4, <2>2 DEF Rests, Starts, Waiting
  <2> QED BY <2>1, <2>2
<1>7. Moves(f, g, r.worker)
  BY <1>5, <1>6 DEF Moves, Lawful
<1>8. NewRuns(f, q.lock, g, r.worker, runs')
  BY <1>6 DEF NewRuns
<1> QED BY <1>1, <1>3, <1>4, <1>7, <1>8 DEF Outcome
-----------------------------------------------------------------------------
(* The outcome of a handler.                                                *)

(* Only an active job has a lock to own.                                    *)
LEMMA OwnedActive ==
  ASSUME NEW f, Ruled(q, f), NEW r \in Run, Owns(q, r)
  PROVE  /\ f[r.job] = "active" /\ q.lock[r.job] = r.worker /\ r.job \in Job
         /\ r.worker \in Worker /\ r.worker # NoToken /\ r.atm \in Nat
  BY ParametersAssumption DEF Owns, Ruled, Run

(* Ok: the job is completed and, unless the worker is paused, the next one  *)
(* taken in the same script.                                                *)
LEMMA OkOutcome ==
  ASSUME NEW f, Ruled(q, f), NEW r \in Run, HandlerOk(r)
  PROVE  \E g : Outcome(r, f, g)
<1> DEFINE s == FinishAs(q, r, "completed", r.atm + 1)
           o == Moved(f, {r.job}, "completed")
<1>1. /\ f[r.job] = "active" /\ q.lock[r.job] = r.worker /\ r.job \in Job
      /\ r.worker \in Worker /\ r.worker # NoToken /\ r.atm \in Nat
  BY OwnedActive DEF HandlerOk
<1>2. Placed(s, o) /\ Unlocks(q, s, r.job) /\ Placed(q, f)
  <2>1. r.atm + 1 \in Nat /\ "completed" \in {"completed", "failed"} /\ Placed(q, f)
    BY <1>1 DEF Ruled
  <2> QED BY <1>1, <2>1, FinishedPlaced
<1>3. /\ alive' = alive
      /\ \/ q' = s /\ runs' = runs \ {r}
         \/ FetchNext(s, r.worker, runs \ {r})
  BY DEF HandlerOk
<1>4. PICK p \in Waiting \union {"delayed", "completed", "failed"} :
        p = "completed" /\ o = Moved(f, {r.job}, p)
  OBVIOUS
<1>5. \A j \in Job : o[j] = IF j = r.job THEN "completed" ELSE f[j]
  BY DEF Moved
<1> HIDE DEF s, o
<1>6. CASE q' = s /\ runs' = runs \ {r}
  BY <1>1, <1>2, <1>3, <1>4, <1>6, SettledOutcome
<1>7. CASE FetchNext(s, r.worker, runs \ {r})
  <2>1. q.lock \in [Job -> Worker \union {NoToken}]
    <3>1. q \in Server
      BY <1>2 DEF Placed
    <3> QED BY <3>1 DEF Server
  <2>2. /\ \A j \in Job : s.lock[j] = IF j = r.job THEN NoToken ELSE q.lock[j]
        /\ s.hash = q.hash
    BY <1>2, <2>1 DEF Unlocks
  <2>3. Ruled(s, o)
    BY <1>1, <1>2, <1>5, <2>2 DEF Ruled
  <2>4. PICK g : Fetches(s, o, g, r.worker, runs \ {r})
    BY <1>1, <1>7, <2>3, FetchRuled
  <2>5. ASSUME NEW j \in Job
        PROVE  /\ Starts(o, s.lock, g, q'.lock, r.worker, j)
                    <=> Starts(f, q.lock, g, q'.lock, r.worker, j)
               /\ \/ Rests(f, q.lock, g, q'.lock, j)
                  \/ GoesUnheld(f, q.lock, g, q'.lock, j)
                  \/ Starts(f, q.lock, g, q'.lock, r.worker, j)
                  \/ Settles(f, q.lock, g, q'.lock, r.worker, j)
               /\ f[j] = "active" /\ j # r.job => g[j] = "active"
               /\ q'.lock[j] \in {q.lock[j], NoToken}
                    \/ Starts(f, q.lock, g, q'.lock, r.worker, j)
               /\ j = r.job => q'.lock[j] = NoToken
    <3>1. \/ Rests(o, s.lock, g, q'.lock, j)
          \/ o[j] = "delayed" /\ g[j] \in Waiting /\ q'.lock[j] = s.lock[j]
          \/ Starts(o, s.lock, g, q'.lock, r.worker, j)
      BY <2>4 DEF Fetches
    <3>2. s.lock[j] # NoToken => o[j] = "active"
      BY <2>3 DEF Ruled
    <3>3. f[j] \in Where /\ g[j] \in Where
      BY <1>2, <2>4 DEF Fetches, Ruled, Placed
    <3>4. CASE j = r.job
      <4>1. o[j] = "completed" /\ s.lock[j] = NoToken /\ f[j] = "active" /\ q.lock[j] = r.worker
        BY <1>1, <1>5, <2>2, <3>4
      <4>2. Rests(o, s.lock, g, q'.lock, j)
        BY <3>1, <4>1 DEF Starts, Waiting
      <4>3. g[j] = "completed" /\ q'.lock[j] = NoToken
        BY <3>3, <4>1, <4>2 DEF Rests, Life, Waiting, Where
      <4> QED BY <1>1, <3>4, <4>1, <4>3 DEF Starts, Settles, Waiting
    <3>5. CASE j # r.job
      <4>1. o[j] = f[j] /\ s.lock[j] = q.lock[j]
        BY <1>5, <2>2, <3>5
      <4>2. Starts(o, s.lock, g, q'.lock, r.worker, j)
              <=> Starts(f, q.lock, g, q'.lock, r.worker, j)
        BY <4>1 DEF Starts
      <4>3. CASE Rests(o, s.lock, g, q'.lock, j)
        <5>1. Rests(f, q.lock, g, q'.lock, j)
          BY <4>1, <4>3 DEF Rests
        <5>2. f[j] = "active" => g[j] = "active"
          BY <3>3, <5>1 DEF Rests, Life, Waiting, Where
        <5> QED BY <3>5, <4>2, <5>1, <5>2 DEF Rests
      <4>4. CASE o[j] = "delayed" /\ g[j] \in Waiting /\ q'.lock[j] = s.lock[j]
        BY <3>2, <3>5, <4>1, <4>2, <4>4 DEF GoesUnheld
      <4>5. CASE Starts(o, s.lock, g, q'.lock, r.worker, j)
        BY <3>5, <4>1, <4>2, <4>5 DEF Starts, Waiting
      <4> QED BY <3>1, <4>3, <4>4, <4>5
    <3> QED BY <3>4, <3>5
  <2>6. Moves(f, g, r.worker)
    BY <2>4, <2>5 DEF Moves, Lawful, Fetches
  <2>7. NewRuns(f, q.lock, g, r.worker, runs \ {r})
    BY <2>4, <2>5 DEF NewRuns, Fetches
  <2>8. Outcome(r, f, g)
    BY <1>1, <1>3, <2>5, <2>6, <2>7 DEF Outcome
  <2> QED BY <2>8
<1> QED BY <1>3, <1>6, <1>7
(* A handler that is rejected or cancelled leaves the queue alone.          *)
LEMMA DroppedOutcome ==
  ASSUME NEW f, Ruled(q, f), NEW r \in Run, q' = q, runs' = runs \ {r}, alive' = alive,
         q.lock[r.job] = r.worker => "cancel" \in Env
  PROVE  Outcome(r, f, f)
<1>1. \A j \in Job : /\ Rests(f, q.lock, f, q'.lock, j)
                     /\ ~Starts(f, q.lock, f, q'.lock, r.worker, j)
  BY DEF Rests, Starts, Waiting
<1>2. Moves(f, f, r.worker)
  <2>1. Ruled(q', f)
    OBVIOUS
  <2> QED BY <1>1, <2>1 DEF Moves, Lawful
<1>3. NewRuns(f, q.lock, f, r.worker, runs \ {r})
  BY <1>1 DEF NewRuns
<1> QED BY <1>2, <1>3 DEF Outcome

LEMMA HandlerOutcome ==
  ASSUME NEW f, Ruled(q, f), NEW r \in Run, Handler(r)
  PROVE  \E g : Outcome(r, f, g)
<1>1. Placed(q, f) /\ "completed" \in {"completed", "failed"} /\ "failed" \in {"completed", "failed"}
  BY DEF Ruled
<1>2. CASE HandlerOk(r)
  BY <1>2, OkOutcome
<1>3. ASSUME Owns(q, r), NEW n \in Nat, alive' = alive,
             \/ runs' = runs \ {r}
             \/ runs' = runs /\ "handler_moves" \in Env,
             NEW target \in {"completed", "failed"}, q' = FinishAs(q, r, target, n)
      PROVE  \E g : Outcome(r, f, g)
  <2>1. f[r.job] = "active" /\ q.lock[r.job] = r.worker
    BY <1>3, OwnedActive
  <2> DEFINE g == Moved(f, {r.job}, target)
  <2>2. Placed(q', g) /\ Unlocks(q, q', r.job)
    BY <1>1, <1>3, <2>1, FinishedPlaced
  <2>3. g = Moved(f, {r.job}, target) /\ target \in Waiting \union {"delayed", "completed", "failed"}
    OBVIOUS
  <2> HIDE DEF g
  <2>4. Outcome(r, f, g)
    BY <1>3, <2>1, <2>2, <2>3, SettledOutcome
  <2> QED BY <2>4
<1>4. ASSUME Owns(q, r), NEW n \in Nat, alive' = alive,
             \/ runs' = runs \ {r}
             \/ runs' = runs /\ "handler_moves" \in Env,
             q' = MoveToDelayed(q, r, n)
      PROVE  \E g : Outcome(r, f, g)
  <2>1. f[r.job] = "active" /\ q.lock[r.job] = r.worker
    BY <1>4, OwnedActive
  <2>2. PICK p \in Waiting \union {"delayed", "completed", "failed"} : p = "delayed"
    OBVIOUS
  <2> DEFINE g == Moved(f, {r.job}, p)
  <2>3. Placed(q', g) /\ Unlocks(q, q', r.job)
    BY <1>1, <1>4, <2>1, <2>2, DelayedPlaced
  <2>4. g = Moved(f, {r.job}, p)
    OBVIOUS
  <2> HIDE DEF g
  <2>5. Outcome(r, f, g)
    BY <1>4, <2>1, <2>3, <2>4, SettledOutcome
  <2> QED BY <2>5
<1>5. ASSUME Owns(q, r), alive' = alive,
             \/ runs' = runs \ {r}
             \/ runs' = runs /\ "handler_moves" \in Env,
             q' \in {RetryJob(q, r), MoveJobFromActiveToWait(q, r.job)}
      PROVE  \E g : Outcome(r, f, g)
  <2>1. f[r.job] = "active" /\ q.lock[r.job] = r.worker
    BY <1>5, OwnedActive
  <2>2. PICK p \in Waiting : Placed(q', Moved(f, {r.job}, p)) /\ Unlocks(q, q', r.job)
    BY <1>1, <1>5, <2>1, BackPlaced
  <2> DEFINE g == Moved(f, {r.job}, p)
  <2>3. /\ Placed(q', g) /\ g = Moved(f, {r.job}, p)
        /\ p \in Waiting \union {"delayed", "completed", "failed"}
    BY <2>2
  <2> HIDE DEF g
  <2>4. Outcome(r, f, g)
    BY <1>5, <2>1, <2>2, <2>3, SettledOutcome
  <2> QED BY <2>4
<1>6. r.atm \in Nat /\ r.atm + 1 \in Nat
  BY DEF Run
<1>7. CASE HandlerErr(r)
  <2>1. /\ Owns(q, r) /\ alive' = alive /\ runs' = runs \ {r}
        /\ \/ q' = MoveToDelayed(q, r, r.atm + 1)
           \/ q' = FinishAs(q, r, "failed", r.atm + 1)
    BY <1>7 DEF HandlerErr
  <2> QED BY <1>1, <1>3, <1>4, <1>6, <2>1
<1>8. CASE HandlerRateLimited(r)
  BY <1>5, <1>8 DEF HandlerRateLimited
<1>9. CASE HandlerRejected(r)
  <2>1. q.lock[r.job] # r.worker
    <3>1. q.lock[r.job] = r.worker => Owns(q, r)
      BY ParametersAssumption DEF Owns, Ruled, Run
    <3> QED BY <1>9, <3>1 DEF HandlerRejected
  <2> QED BY <1>9, <2>1, DroppedOutcome DEF HandlerRejected
<1>10. CASE HandlerCancelled(r)
  BY <1>10, DroppedOutcome DEF HandlerCancelled
<1>11. CASE HandlerMoves(r)
  <2>1. /\ Owns(q, r) /\ alive' = alive /\ runs' = runs /\ "handler_moves" \in Env
        /\ \/ q' = RetryJob(q, r) \/ q' = MoveToDelayed(q, r, r.atm)
           \/ q' = FinishAs(q, r, "completed", r.atm + 1)
           \/ q' = FinishAs(q, r, "failed", r.atm + 1)
    BY <1>11 DEF HandlerMoves
  <2> QED BY <1>1, <1>3, <1>4, <1>5, <1>6, <2>1
<1> QED BY <1>2, <1>7, <1>8, <1>9, <1>10, <1>11 DEF Handler

-----------------------------------------------------------------------------
(* Every step.                                                              *)

(* A worker fetches: jobs wake up, and at most one starts.                  *)
Fetch(w, f, g) ==
  /\ Moves(f, g, w) /\ NewRuns(f, q.lock, g, w, runs) /\ w \in alive /\ alive' = alive
  /\ \A j \in Job : /\ f[j] = "active" => g[j] = "active"
                    /\ q'.lock[j] = q.lock[j] \/ Starts(f, q.lock, g, q'.lock, w, j)

LEMMA FetchMoves ==
  ASSUME NEW f, Ruled(q, f), NEW w \in Worker, MoveToActive(w)
  PROVE  \E g : Fetch(w, f, g)
<1>1. PICK g : Fetches(q, f, g, w, runs)
  BY FetchRuled DEF MoveToActive
<1>2. ASSUME NEW j \in Job
      PROVE  /\ \/ Rests(f, q.lock, g, q'.lock, j)
                \/ GoesUnheld(f, q.lock, g, q'.lock, j)
                \/ Starts(f, q.lock, g, q'.lock, w, j)
             /\ f[j] = "active" => g[j] = "active"
             /\ q'.lock[j] = q.lock[j] \/ Starts(f, q.lock, g, q'.lock, w, j)
  <2>1. \/ Rests(f, q.lock, g, q'.lock, j)
        \/ f[j] = "delayed" /\ g[j] \in Waiting /\ q'.lock[j] = q.lock[j]
        \/ Starts(f, q.lock, g, q'.lock, w, j)
    BY <1>1 DEF Fetches
  <2>2. (q.lock[j] # NoToken => f[j] = "active") /\ f[j] \in Where /\ g[j] \in Where
    BY <1>1 DEF Fetches, Ruled, Placed
  <2>3. CASE Rests(f, q.lock, g, q'.lock, j)
    BY <2>2, <2>3 DEF Rests, Life, Waiting, Where
  <2>4. CASE f[j] = "delayed" /\ g[j] \in Waiting /\ q'.lock[j] = q.lock[j]
    BY <2>2, <2>4 DEF GoesUnheld
  <2>5. CASE Starts(f, q.lock, g, q'.lock, w, j)
    BY <2>5 DEF Starts
  <2> QED BY <2>1, <2>3, <2>4, <2>5
<1>3. Fetch(w, f, g)
  BY <1>1, <1>2 DEF Fetch, Moves, Lawful, Fetches, MoveToActive
<1> QED BY <1>3

(* What any step of the queue does to the places of its jobs.               *)
Step(f, g) ==
  \/ Calm(f, g)
  \/ \E r \in runs : Outcome(r, f, g)
  \/ \E w \in Worker : Fetch(w, f, g)
  \/ g = f /\ q' = q /\ UNCHANGED <<runs, alive>>
  \/ g = f /\ q' = q /\ \E w \in Worker :
       alive' = alive \ {w} /\ runs' = {r \in runs : r.worker # w}

LEMMA EveryStep ==
  ASSUME Undisturbed, NEW f, Ruled(q, f), IInv, [Next]_vars
  PROVE  \E g : Step(f, g)
<1>1. Drained(q) /\ runs \subseteq Run
  BY DEF IInv, TypeOK, Steady, OnTheWay
<1>2. ASSUME NEW j \in Job, Add(j)
      PROVE  \E g : Step(f, g)
  BY <1>2, AddCalm DEF Step
<1>3. ASSUME NEW j \in Job, JobCall(j)
      PROVE  \E g : Step(f, g)
  BY <1>1, <1>3, JobCallCalm DEF Step
<1>4. ASSUME NEW w \in Worker, MoveToActive(w)
      PROVE  \E g : Step(f, g)
  BY <1>4, FetchMoves DEF Step
<1>5. ASSUME NEW w \in Worker, Crash(w)
      PROVE  \E g : Step(f, g)
  BY <1>5 DEF Step, Crash
<1>6. ASSUME NEW r \in runs, Handler(r)
      PROVE  \E g : Step(f, g)
  BY <1>1, <1>6, HandlerOutcome DEF Step
<1>7. ASSUME NEW r \in runs, ExtendLock(r)
      PROVE  \E g : Step(f, g)
  BY <1>7, ExtendLockCalm DEF Step
<1>8. CASE QueueCall
  BY <1>8, QueueCallCalm DEF Step
<1>9. CASE UNCHANGED vars
  BY <1>9 DEF Step, vars
<1>10. ~MoveStalledJobsToWait
  BY DEF MoveStalledJobsToWait, Undisturbed
<1> QED BY <1>2, <1>3, <1>4, <1>5, <1>6, <1>7, <1>8, <1>9, <1>10 DEF Next

(* Whatever the step, the new places are ruled, and one caller moved jobs.  *)
LEMMA StepMoves ==
  ASSUME NEW f, NEW g, Ruled(q, f), IInv, Step(f, g)
  PROVE  \E w \in Worker \union {NoToken} : Moves(f, g, w)
<1>1. runs \subseteq Run
  BY DEF IInv, TypeOK
<1>2. CASE Calm(f, g)
  BY <1>2 DEF Calm
<1>3. ASSUME NEW r \in runs, Outcome(r, f, g)
      PROVE  \E w \in Worker \union {NoToken} : Moves(f, g, w)
  BY <1>1, <1>3 DEF Outcome, Run
<1>4. ASSUME NEW w \in Worker, Fetch(w, f, g)
      PROVE  \E v \in Worker \union {NoToken} : Moves(f, g, v)
  BY <1>4 DEF Fetch
<1>5. CASE g = f /\ q' = q
  <2>1. Ruled(q', g)
    BY <1>5
  <2>2. Lawful(f, q.lock, g, q'.lock, NoToken)
    BY <1>5 DEF Lawful, Rests
  <2> QED BY <2>1, <2>2 DEF Moves
<1> QED BY <1>2, <1>3, <1>4, <1>5 DEF Step
-----------------------------------------------------------------------------
(* The invariant.                                                           *)

(* The queue's keys agree with one place for each job.                      *)
Located == \E f \in [Job -> Where] : Ruled(q, f)

LEMMA InitLocated == Init => Located
<1> SUFFICES ASSUME Init PROVE Located
  OBVIOUS
<1> DEFINE f == [j \in Job |-> "nowhere"]
<1>1. q \in Server /\ f \in [Job -> Where]
  BY ParametersAssumption DEF Init, Server, Where
<1>2. IsInjective(<<>>) /\ ToSet(<<>>) = {}
  BY DEF IsInjective, ToSet
<1>3. Placed(q, f)
  BY <1>1, <1>2 DEF Init, Placed
<1>4. Ruled(q, f)
  BY <1>3 DEF Init, Ruled
<1> QED BY <1>1, <1>4 DEF Located

LEMMA StepLocated ==
  ASSUME Undisturbed
  PROVE  IInv /\ Located /\ [Next]_vars => Located'
<1> SUFFICES ASSUME IInv, Located, [Next]_vars PROVE Located'
  OBVIOUS
<1>1. PICK f : Ruled(q, f)
  BY DEF Located
<1>2. PICK g : Step(f, g)
  BY <1>1, EveryStep
<1>3. PICK w \in Worker \union {NoToken} : Moves(f, g, w)
  BY <1>1, <1>2, StepMoves
<1>4. Ruled(q', g) /\ g \in [Job -> Where]
  BY <1>3 DEF Moves, Ruled, Placed
<1>5. \E h \in [Job -> Where] : Ruled(q', h)
  BY <1>4
<1> QED BY <1>5 DEF Located, Ruled, Placed

LEMMA SpecLocated ==
  ASSUME Undisturbed
  PROVE  Spec => [](IInv /\ Located)
<1>1. Init => IInv /\ Located
  BY InitSteady, InitLocated
<1>2. IInv /\ Located /\ [Next]_vars => (IInv /\ Located)'
  BY StepSteady, StepLocated
<1> QED BY <1>1, <1>2, PTL DEF Spec

(* How many places a job of a located queue is in.                          *)
LEMMA OnePlaceCounted ==
  ASSUME NEW s, NEW f, Placed(s, f), NEW j \in Job
  PROVE  Places(s, j) = Bit(f[j] # "nowhere")
<1>1. f[j] \in Where
  BY DEF Placed
<1>2. /\ Bit(j \in ToSet(s.wait)) = IF f[j] = "wait" THEN 1 ELSE 0
      /\ Bit(j \in ToSet(s.paused)) = IF f[j] = "paused" THEN 1 ELSE 0
      /\ Bit(j \in s.prioritized) = IF f[j] = "prioritized" THEN 1 ELSE 0
      /\ Bit(j \in s.delayed) = IF f[j] = "delayed" THEN 1 ELSE 0
      /\ Bit(j \in s.completed) = IF f[j] = "completed" THEN 1 ELSE 0
      /\ Bit(j \in s.failed) = IF f[j] = "failed" THEN 1 ELSE 0
      /\ s.active[j] = IF f[j] = "active" THEN 1 ELSE 0
  BY DEF Placed, Bit
<1> QED BY <1>1, <1>2 DEF Places, Bit, Where

-----------------------------------------------------------------------------
(* Theorems.                                                                *)

(* A job that exists is in exactly one list or set, once; a job that does   *)
(* not exist is in none: every script takes the entry a job has and adds    *)
(* one, unless the stalled checker or a change of priority meets a job      *)
(* elsewhere than it expects.                                               *)
THEOREM OnePlaceHolds ==
  ASSUME Undisturbed
  PROVE  Spec => []OnePlace
<1>1. Located => OnePlace
  <2> SUFFICES ASSUME Located PROVE OnePlace
    OBVIOUS
  <2>1. PICK f : Ruled(q, f)
    BY DEF Located
  <2>2. Placed(q, f) /\ IsInjective(q.wait) /\ IsInjective(q.paused)
    BY <2>1 DEF Ruled, Placed
  <2>3. ASSUME NEW j \in Job PROVE Places(q, j) = Bit(q.hash[j] # "none")
    <3>1. Places(q, j) = Bit(f[j] # "nowhere")
      BY <2>2, OnePlaceCounted
    <3>2. q.hash[j] # "none" <=> f[j] # "nowhere"
      BY <2>1 DEF Ruled
    <3> QED BY <3>1, <3>2 DEF Bit
  <2> QED BY <2>2, <2>3 DEF OnePlace
<1> QED BY <1>1, SpecLocated, PTL

(* Nothing takes a job out of the active list while a worker holds its lock.*)
THEOREM LockedIsActiveHolds ==
  ASSUME Undisturbed
  PROVE  Spec => []LockedIsActive
<1>1. Located => LockedIsActive
  <2> SUFFICES ASSUME Located, NEW j \in Job, q.lock[j] # NoToken PROVE q.active[j] = 1
    BY DEF LockedIsActive
  <2>1. PICK f : Ruled(q, f)
    BY DEF Located
  <2> QED BY <2>1 DEF Ruled, Placed
<1> QED BY <1>1, SpecLocated, PTL
(* The list or set that get_state finds is the job's place.                 *)
LEMMA StateIsLife ==
  ASSUME NEW s, NEW f, Placed(s, f), NEW j \in Job
  PROVE  StateOf(s, j) = Life(f[j])
<1>1. f[j] \in Where
  BY DEF Placed
<1>2. /\ j \in s.completed <=> f[j] = "completed"
      /\ j \in s.failed <=> f[j] = "failed"
      /\ j \in s.delayed <=> f[j] = "delayed"
      /\ s.active[j] > 0 <=> f[j] = "active"
      /\ j \in ToSet(s.wait) \union ToSet(s.paused) \union s.prioritized <=> f[j] \in Waiting
  BY DEF Placed, Waiting
<1> QED BY <1>1, <1>2 DEF StateOf, Life, Where, Waiting

(* A lawful move is a step of each job's life cycle, by one caller.         *)
LEMMA MovesAreLifecycle ==
  ASSUME NEW f, NEW g, Ruled(q, f), NEW w \in Worker \union {NoToken}, Moves(f, g, w)
  PROVE  Lifecycle!Next
<1> DEFINE a == [j \in Job |-> StateOf(q, j)]
<1>1. /\ Placed(q, f) /\ Placed(q', g) /\ q \in Server /\ q' \in Server
      /\ f \in [Job -> Where] /\ g \in [Job -> Where]
      /\ \A j \in Job : (q.lock[j] # NoToken => f[j] = "active")
                        /\ (q'.lock[j] # NoToken => g[j] = "active")
  BY DEF Moves, Ruled, Placed
<1>2. /\ q.lock \in [Job -> Worker \union {NoToken}]
      /\ q'.lock \in [Job -> Worker \union {NoToken}]
  BY <1>1 DEF Server
<1>3. \A j \in Job : a[j] = Life(f[j])
  BY <1>1, StateIsLife
<1>4. a' = [j \in Job |-> StateOf(q', j)]
  BY DEF StateOf
<1>5. \A j \in Job : a'[j] = Life(g[j])
  BY <1>1, <1>4, StateIsLife
<1>6. a' \in [Job -> Lifecycle!State]
  <2>1. \A j \in Job : Life(g[j]) \in Lifecycle!State
    BY <1>1 DEF Life, Where, Waiting, Lifecycle!State
  <2> QED BY <1>4, <1>5, <2>1
<1> HIDE DEF a
<1>7. ASSUME NEW j \in Job
      PROVE  /\ \/ Lifecycle!JobStep(j)
                \/ a'[j] = a[j] /\ q'.lock[j] = q.lock[j]
             /\ a[j] = "active" /\ q.lock[j] \in Worker /\ a'[j] # "active"
                  => q.lock[j] = w
             /\ a[j] # "active" /\ a'[j] = "active" => q'.lock[j] = w
  <2>1. /\ f[j] \in Where /\ g[j] \in Where /\ NoToken \notin Worker
        /\ q.lock[j] \in Worker \union {NoToken} /\ q'.lock[j] \in Worker \union {NoToken}
        /\ a[j] = Life(f[j]) /\ a'[j] = Life(g[j])
        /\ q.lock[j] # NoToken => f[j] = "active"
    BY <1>1, <1>2, <1>3, <1>5, ParametersAssumption
  <2>2. ASSUME NEW from, NEW to, a[j] \in from, a'[j] \in to,
               q.lock[j] = NoToken, q'.lock[j] = NoToken
        PROVE  Lifecycle!Goes(j, from, to)
    BY <2>2 DEF Lifecycle!Goes, a
  <2>3. CASE Rests(f, q.lock, g, q'.lock, j)
    BY <2>1, <2>3 DEF Rests
  <2>4. CASE GoesUnheld(f, q.lock, g, q'.lock, j)
    <3>1. CASE f[j] = "nowhere" /\ g[j] \in Waiting \union {"delayed"}
      <4>1. a[j] = "absent" /\ a'[j] \in {"waiting", "delayed"}
        BY <2>1, <3>1 DEF Life, Waiting
      <4>2. Lifecycle!Create(j)
        BY <2>2, <2>4, <4>1 DEF Lifecycle!Create, GoesUnheld
      <4> QED BY <2>1, <2>4, <4>1, <4>2 DEF Lifecycle!JobStep, GoesUnheld
    <3>2. CASE f[j] \in {"delayed", "completed", "failed"} /\ g[j] \in Waiting
      <4>1. a[j] \in {"delayed", "completed", "failed"} /\ a'[j] = "waiting"
        BY <2>1, <3>2 DEF Life, Waiting
      <4>2. Lifecycle!Wake(j) \/ Lifecycle!Again(j)
        BY <2>2, <2>4, <4>1 DEF Lifecycle!Wake, Lifecycle!Again, GoesUnheld
      <4> QED BY <2>1, <2>4, <4>1, <4>2 DEF Lifecycle!JobStep, GoesUnheld
    <3>3. CASE f[j] # "nowhere" /\ g[j] = "nowhere"
      <4>1. a[j] \in Lifecycle!State \ {"absent"} /\ a'[j] = "absent"
        BY <2>1, <3>3 DEF Life, Where, Waiting, Lifecycle!State
      <4>2. Lifecycle!Remove(j)
        BY <2>2, <2>4, <4>1 DEF Lifecycle!Remove, GoesUnheld
      <4> QED BY <2>1, <2>4, <4>1, <4>2 DEF Lifecycle!JobStep, GoesUnheld
    <3> QED BY <2>4, <3>1, <3>2, <3>3 DEF GoesUnheld
  <2>5. CASE LosesLock(f, q.lock, g, q'.lock, j)
    <3>1. a[j] = "active" /\ a'[j] = "active"
      BY <2>1, <2>5 DEF LosesLock, Life, Waiting
    <3>2. Lifecycle!LoseHolder(j)
      BY <2>5, <3>1 DEF Lifecycle!LoseHolder, LosesLock, a
    <3> QED BY <3>1, <3>2 DEF Lifecycle!JobStep
  <2>6. CASE Starts(f, q.lock, g, q'.lock, w, j)
    <3>1. a[j] \in {"waiting", "delayed"} /\ a'[j] = "active"
      BY <2>1, <2>6 DEF Starts, Life, Waiting
    <3>2. Lifecycle!Start(j)
      BY <2>6, <3>1 DEF Lifecycle!Start, Starts, a
    <3> QED BY <2>1, <2>6, <3>1, <3>2 DEF Lifecycle!JobStep, Starts
  <2>7. CASE Settles(f, q.lock, g, q'.lock, w, j)
    <3>1. a[j] = "active" /\ a'[j] \in {"completed", "failed", "delayed", "waiting"}
      BY <2>1, <2>7 DEF Settles, Life, Waiting
    <3>2. Lifecycle!Settle(j)
      BY <2>7, <3>1 DEF Lifecycle!Settle, Settles, a
    <3> QED BY <2>7, <3>1, <3>2 DEF Lifecycle!JobStep, Settles
  <2> QED BY <2>3, <2>4, <2>5, <2>6, <2>7 DEF Moves, Lawful
<1>8. ASSUME NEW j \in Job
      PROVE  /\ Lifecycle!Settle(j) => q.lock[j] = w
             /\ Lifecycle!Start(j) => q'.lock[j] = w
  <2>1. Lifecycle!Settle(j) => a[j] = "active" /\ q.lock[j] \in Worker /\ a'[j] # "active"
    BY DEF Lifecycle!Settle, a
  <2>2. Lifecycle!Start(j) => a[j] # "active" /\ a'[j] = "active"
    BY DEF Lifecycle!Start, a
  <2> QED BY <1>7, <2>1, <2>2
<1>9. Lifecycle!OneCaller
  BY <1>8 DEF Lifecycle!OneCaller, Lifecycle!Holder
<1>10. /\ a' \in [Job -> Lifecycle!State] /\ q'.lock \in [Job -> Lifecycle!Holder]
       /\ \A j \in Job : Lifecycle!JobStep(j)
                         \/ <<a'[j], q'.lock[j]>> = <<a[j], q.lock[j]>>
  BY <1>2, <1>6, <1>7 DEF Lifecycle!Holder
<1> QED BY <1>9, <1>10 DEF Lifecycle!Next, a

(* Every job only ever moves the way its life cycle says, and only the      *)
(* holder of a job's lock reports its outcome: what the scripts do to the   *)
(* lists, sets and locks implements the abstract life cycle.                *)
THEOREM LifecycleImplemented ==
  ASSUME Undisturbed
  PROVE  Spec => ImplementsLifecycle
<1>1. Init => Lifecycle!Init
  <2> SUFFICES ASSUME Init PROVE Lifecycle!Init
    OBVIOUS
  <2>1. ToSet(<<>>) = {}
    BY DEF ToSet
  <2> QED BY <2>1 DEF Init, Lifecycle!Init, StateOf
<1>2. IInv /\ Located /\ [Next]_vars =>
        [Lifecycle!Next]_<<[j \in Job |-> StateOf(q, j)], q.lock>>
  <2> SUFFICES ASSUME IInv, Located, [Next]_vars
               PROVE  [Lifecycle!Next]_<<[j \in Job |-> StateOf(q, j)], q.lock>>
    OBVIOUS
  <2>1. PICK f : Ruled(q, f)
    BY DEF Located
  <2>2. PICK g : Step(f, g)
    BY <2>1, EveryStep
  <2>3. PICK w \in Worker \union {NoToken} : Moves(f, g, w)
    BY <2>1, <2>2, StepMoves
  <2> QED BY <2>1, <2>3, MovesAreLifecycle
<1> QED BY <1>1, <1>2, SpecLocated, PTL DEF Spec, ImplementsLifecycle, Lifecycle!Spec
-----------------------------------------------------------------------------
(* Runs.                                                                    *)

(* Handlers leave their jobs to the worker, and jobs stay in the queue.     *)
LeftAlone == "handler_moves" \notin Env /\ "remove" \notin Env

(* Every run has an active job of its own.                                  *)
Sole(f) ==
  /\ \A r1, r2 \in runs : r1.job = r2.job => r1 = r2
  /\ \A r \in runs : f[r.job] = "active"

(* A fetch adds a run of a job that was not active before.                  *)
LEMMA NewRunsSole ==
  ASSUME NEW f, NEW g, NEW w, NEW others \in SUBSET runs, runs \subseteq Run,
         Sole(f), NewRuns(f, q.lock, g, w, others),
         \A r \in others : g[r.job] = "active"
  PROVE  /\ \A r1, r2 \in runs' : r1.job = r2.job => r1 = r2
         /\ \A r \in runs' : g[r.job] = "active"
<1>1. CASE runs' = others
  BY <1>1 DEF Sole
<1>2. ASSUME NEW x \in Run, runs' = others \union {x}, Starts(f, q.lock, g, q'.lock, w, x.job)
      PROVE  /\ \A r1, r2 \in runs' : r1.job = r2.job => r1 = r2
             /\ \A r \in runs' : g[r.job] = "active"
  <2>1. f[x.job] # "active" /\ g[x.job] = "active"
    BY <1>2 DEF Starts, Waiting
  <2>2. \A r \in others : r.job # x.job
    BY <2>1 DEF Sole
  <2> QED BY <1>2, <2>1, <2>2 DEF Sole
<1>3. \A x \in Run : x.job \in Job
  BY DEF Run
<1> QED BY <1>1, <1>2, <1>3 DEF NewRuns

LEMMA StepSole ==
  ASSUME LeftAlone, NEW f, NEW g, IInv, Step(f, g), Sole(f)
  PROVE  /\ \A r1, r2 \in runs' : r1.job = r2.job => r1 = r2
         /\ \A r \in runs' : g[r.job] = "active"
<1>1. runs \subseteq Run /\ \A r \in runs : r.job \in Job
  BY DEF IInv, TypeOK, Run
<1>2. CASE Calm(f, g)
  BY <1>1, <1>2 DEF Calm, LeftAlone, Sole
<1>3. ASSUME NEW r \in runs, Outcome(r, f, g)
      PROVE  /\ \A r1, r2 \in runs' : r1.job = r2.job => r1 = r2
             /\ \A x \in runs' : g[x.job] = "active"
  <2>1. \A x \in runs \ {r} : x.job # r.job /\ x.job \in Job /\ f[x.job] = "active"
    BY <1>1 DEF Sole
  <2>2. \A x \in runs \ {r} : g[x.job] = "active"
    BY <1>3, <2>1 DEF Outcome
  <2>3. NewRuns(f, q.lock, g, r.worker, runs \ {r})
    BY <1>3 DEF Outcome, LeftAlone
  <2> QED BY <1>1, <2>2, <2>3, NewRunsSole
<1>4. ASSUME NEW w \in Worker, Fetch(w, f, g)
      PROVE  /\ \A r1, r2 \in runs' : r1.job = r2.job => r1 = r2
             /\ \A x \in runs' : g[x.job] = "active"
  <2>1. \A x \in runs : g[x.job] = "active"
    BY <1>1, <1>4 DEF Fetch, Sole
  <2>2. NewRuns(f, q.lock, g, w, runs)
    BY <1>4 DEF Fetch
  <2> QED BY <1>1, <2>1, <2>2, NewRunsSole
<1>5. CASE g = f /\ runs' \subseteq runs
  BY <1>5 DEF Sole
<1> QED BY <1>2, <1>3, <1>4, <1>5 DEF Step

(* The queue's keys agree with one place for each job, and with the runs.   *)
LocatedSole == \E f \in [Job -> Where] : Ruled(q, f) /\ Sole(f)

LEMMA SpecSole ==
  ASSUME Undisturbed, LeftAlone
  PROVE  Spec => []LocatedSole
<1>1. Init => LocatedSole
  <2> SUFFICES ASSUME Init PROVE LocatedSole
    OBVIOUS
  <2>1. PICK f \in [Job -> Where] : Ruled(q, f)
    BY InitLocated DEF Located
  <2>2. Sole(f)
    BY DEF Init, Sole
  <2> QED BY <2>1, <2>2 DEF LocatedSole
<1>2. IInv /\ LocatedSole /\ [Next]_vars => LocatedSole'
  <2> SUFFICES ASSUME IInv, LocatedSole, [Next]_vars PROVE LocatedSole'
    OBVIOUS
  <2>1. PICK f \in [Job -> Where] : Ruled(q, f) /\ Sole(f)
    BY DEF LocatedSole
  <2>2. PICK g : Step(f, g)
    BY <2>1, EveryStep
  <2>3. Ruled(q', g)
    BY <2>1, <2>2, StepMoves DEF Moves
  <2>4. g \in [Job -> Where]
    BY <2>3 DEF Ruled, Placed
  <2>5. /\ \A r1, r2 \in runs' : r1.job = r2.job => r1 = r2
        /\ \A r \in runs' : g[r.job] = "active"
    BY <2>1, <2>2, StepSole
  <2> QED BY <2>3, <2>4, <2>5 DEF LocatedSole, Ruled, Placed, Sole
<1> QED BY <1>1, <1>2, SpecSteady, PTL DEF Spec

(* No job is executed by two handlers at a time, and none while it is not   *)
(* active: neither an expired lock nor a late report lets a second handler  *)
(* start while the first one runs.                                          *)
THEOREM SoleRunHolds ==
  ASSUME Undisturbed, LeftAlone
  PROVE  Spec => []SoleRun
<1>1. IInv /\ LocatedSole => SoleRun
  <2> SUFFICES ASSUME IInv, LocatedSole PROVE SoleRun
    OBVIOUS
  <2>1. PICK f \in [Job -> Where] : Ruled(q, f) /\ Sole(f)
    BY DEF LocatedSole
  <2>2. \A r \in runs : r.job \in Job
    BY DEF IInv, TypeOK, Run
  <2> QED BY <2>1, <2>2 DEF SoleRun, Sole, Ruled, Placed
<1> QED BY <1>1, SpecSole, SpecSteady, PTL

(* A worker that lives holds a lock only while one of its handlers runs the *)
(* job.                                                                     *)
Held(l, R, A) == \A j \in Job : l[j] \in A => \E r \in R : r.worker = l[j] /\ r.job = j

LEMMA StepHeld ==
  ASSUME "cancel" \notin Env, NEW f, NEW g, IInv, Step(f, g), Held(q.lock, runs, alive)
  PROVE  Held(q'.lock, runs', alive')
<1>1. alive \subseteq Worker /\ NoToken \notin alive
  BY ParametersAssumption DEF IInv, TypeOK
<1>2. CASE Calm(f, g)
  BY <1>1, <1>2 DEF Calm, Held
<1>3. ASSUME NEW w, NEW others, NewRuns(f, q.lock, g, w, others), NEW j \in Job,
             Starts(f, q.lock, g, q'.lock, w, j)
      PROVE  \E x \in runs' : x.worker = q'.lock[j] /\ x.job = j
  BY <1>3 DEF NewRuns, Starts
<1>4. ASSUME NEW w, NEW others, NewRuns(f, q.lock, g, w, others)
      PROVE  others \subseteq runs'
  BY <1>4 DEF NewRuns
<1>5. ASSUME NEW r \in runs, Outcome(r, f, g), NEW j \in Job, q'.lock[j] \in alive'
      PROVE  \E x \in runs' : x.worker = q'.lock[j] /\ x.job = j
  <2>1. PICK others \in {runs, runs \ {r}} : NewRuns(f, q.lock, g, r.worker, others)
    BY <1>5 DEF Outcome
  <2>2. CASE Starts(f, q.lock, g, q'.lock, r.worker, j)
    BY <1>3, <2>1, <2>2
  <2>3. CASE q'.lock[j] \in {q.lock[j], NoToken}
    <3>1. q'.lock[j] = q.lock[j] /\ q.lock[j] \in alive
      BY <1>1, <1>5, <2>3 DEF Outcome
    <3>2. PICK x \in runs : x.worker = q.lock[j] /\ x.job = j
      BY <3>1 DEF Held
    <3>3. x # r
      BY <1>5, <3>1, <3>2 DEF Outcome
    <3> QED BY <1>4, <2>1, <3>1, <3>2, <3>3
  <2> QED BY <1>5, <2>2, <2>3 DEF Outcome
<1>6. ASSUME NEW w \in Worker, Fetch(w, f, g), NEW j \in Job, q'.lock[j] \in alive'
      PROVE  \E x \in runs' : x.worker = q'.lock[j] /\ x.job = j
  <2>1. NewRuns(f, q.lock, g, w, runs) /\ alive' = alive
    BY <1>6 DEF Fetch
  <2>2. CASE Starts(f, q.lock, g, q'.lock, w, j)
    BY <1>3, <2>1, <2>2
  <2>3. CASE q'.lock[j] = q.lock[j]
    BY <1>4, <1>6, <2>1, <2>3 DEF Held
  <2> QED BY <1>6, <2>2, <2>3 DEF Fetch
<1>7. CASE q' = q /\ UNCHANGED <<runs, alive>>
  BY <1>7
<1>8. ASSUME q' = q, NEW w \in Worker, alive' = alive \ {w},
             runs' = {r \in runs : r.worker # w}
      PROVE  Held(q'.lock, runs', alive')
  BY <1>8 DEF Held
<1>9. (\E r \in runs : Outcome(r, f, g)) => Held(q'.lock, runs', alive')
  BY <1>5 DEF Held
<1>10. (\E w \in Worker : Fetch(w, f, g)) => Held(q'.lock, runs', alive')
  BY <1>6 DEF Held
<1> QED BY <1>2, <1>7, <1>8, <1>9, <1>10 DEF Step

(* Every lock a living worker holds is renewed and, in the end, released:   *)
(* its holder still runs the job.                                           *)
THEOREM LockHeldByRunHolds ==
  ASSUME Undisturbed, "cancel" \notin Env
  PROVE  Spec => []LockHeldByRun
<1> DEFINE H == Held(q.lock, runs, alive)
<1>1. Init => H
  BY ParametersAssumption DEF Init, Held
<1>2. IInv /\ Located /\ H /\ [Next]_vars => H'
  <2> SUFFICES ASSUME IInv, Located, H, [Next]_vars PROVE H'
    OBVIOUS
  <2>1. PICK f : Ruled(q, f)
    BY DEF Located
  <2>2. PICK g : Step(f, g)
    BY <2>1, EveryStep
  <2>3. Held(q'.lock, runs', alive')
    BY <2>2, StepHeld
  <2> QED BY <2>3 DEF Held
<1>3. H => LockHeldByRun
  BY DEF Held, LockHeldByRun
<1> QED BY <1>1, <1>2, <1>3, SpecLocated, PTL DEF Spec
=============================================================================
