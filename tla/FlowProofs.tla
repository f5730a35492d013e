----------------------------- MODULE FlowProofs -----------------------------
(***************************************************************************)
(* What holds of flows for any trees, any number of producers and of job    *)
(* ids: a tree is written in full or not at all unless a script fails, a    *)
(* parent waits exactly for the children of its own flow, and a handler     *)
(* that asks for their values gets all of them.                             *)
(*                                                                          *)
(* The invariant is about three pieces of state that no single step ties    *)
(* together: what a call of add has checked, who added a job, and which     *)
(* children a parent's two sets still hold.                                 *)
(***************************************************************************)
EXTENDS Flow, FiniteSetTheorems, SequenceTheorems, TLAPS

(* A call of add: its keys are known from WATCH on, and differ; it has      *)
(* written nothing before it returns, and what its outcome says after.      *)
CallOK(a) ==
  /\ a.at \in {"watch", "check", "exec"} => Len(a.keys) = Len(a.tree) /\ IsInjective(a.keys)
  /\ a.at = "check" => a.next \in 1..Len(a.keys)
  /\ a.at # "returned" => a.outcome = "" /\ a.wrote = {}
  /\ a.outcome = "ok" => a.wrote = ToSet(a.keys) /\ Cardinality(a.wrote) = Len(a.tree)
  /\ a.outcome \in {"duplicate", "exists", "aborted"} => a.wrote = {}

(* The keys a call has checked do not exist, or it will notice.             *)
Checked(s, a) ==
  ~a.dirty =>
    /\ a.at = "check" => \A i \in 1..Len(a.keys) : i < a.next => ~Stored(s, a.keys[i])
    /\ a.at = "exec"  => \A i \in 1..Len(a.keys) : ~Stored(s, a.keys[i])

(* A job knows who added it; one that does not exist has left nothing.      *)
Known(s, a) ==
  \A j \in Id :
    /\ ~Stored(s, j) => s.hash[j] = NoHash /\ s.deps[j] = {} /\ s.processed[j] = {}
    /\ s.hash[j].by = NoOne => s.hash[j].parent = NoParent
    /\ s.hash[j].by \in Producer => a[s.hash[j].by].at = "returned"

(* c was added as a child of r, in one flow with it.                        *)
Child(s, c, r) ==
  /\ Stored(s, c) /\ s.hash[c].parent = r
  /\ Stored(s, r) /\ s.hash[c].by = s.hash[r].by

(* A child is in one of its parent's two sets, and the parent blocked while *)
(* it is in the first.                                                      *)
Waits(s) ==
  /\ \A r, c \in Id : c \in s.deps[r] => c \notin s.processed[r]
  /\ \A r, c \in Id : Child(s, c, r) /\ c \notin s.processed[r] =>
                        c \in s.deps[r] /\ s.place[r] = "waiting-children"

Full(a, p) == p \in Producer /\ Cardinality(a[p].wrote) = Len(a[p].tree)

(* A blocked parent of a complete flow waits for children of that flow.     *)
Blocked(s, a) ==
  \A r \in Id : s.place[r] = "waiting-children" /\ Full(a, s.hash[r].by) =>
    /\ s.deps[r] # {}
    /\ \A c \in s.deps[r] : Child(s, c, r) /\ s.place[c] # "completed"

(* Between its two reads, a handler has the children that still exist.      *)
HalfRead(s, a, rd) ==
  rd.at = "half" =>
    /\ rd.by \in Producer /\ a[rd.by].at = "returned"
    /\ \A c \in Id : s.hash[c].parent = rd.of /\ s.hash[c].by = rd.by =>
                       c \in rd.processed /\ c \notin s.deps[rd.of]

(* All of it, of a server s, calls a and a reader rd.                       *)
Consistent(s, a, rd) ==
  /\ s \in Server /\ a \in [Producer -> Call] /\ rd \in Reader
  /\ \A p \in Producer : CallOK(a[p]) /\ Checked(s, a[p])
  /\ Known(s, a) /\ Waits(s) /\ Blocked(s, a) /\ HalfRead(s, a, rd)

(* The inductive invariant.                                                 *)
IInv == Consistent(srv, adds, reader)

-----------------------------------------------------------------------------
(* Trees and their keys.                                                    *)

LEMMA TreeType ==
  ASSUME NEW t \in Trees
  PROVE  /\ t \in Seq(Node) /\ Len(t) \in Nat \ {0} /\ DOMAIN t = 1..Len(t)
         /\ \A i \in 1..Len(t) : /\ t[i] \in Node /\ t[i].id \in Id \union {AutoId}
                                 /\ t[i].opts \in Options /\ t[i].up \in 0..(i - 1)
<1>1. IsTree(t)
  BY FlowAssumption
<1>2. t \in Seq(Node) /\ t # <<>> /\ t[1].up = 0
      /\ \A i \in 2..Len(t) : t[i].up \in 1..(i - 1)
  BY <1>1 DEF IsTree
<1>3. Len(t) \in Nat \ {0} /\ DOMAIN t = 1..Len(t) /\ \A i \in 1..Len(t) : t[i] \in Node
  BY <1>2
<1>4. \A i \in 1..Len(t) : t[i].id \in Id \union {AutoId} /\ t[i].opts \in Options
  BY <1>3 DEF Node
<1>5. \A i \in 1..Len(t) : t[i].up \in 0..(i - 1)
  <2> SUFFICES ASSUME NEW i \in 1..Len(t) PROVE t[i].up \in 0..(i - 1)
    OBVIOUS
  <2>1. CASE i = 1
    BY <1>2, <2>1
  <2>2. CASE i # 1
    <3>1. i \in 2..Len(t)
      BY <1>3, <2>2
    <3> QED BY <1>2, <3>1
  <2> QED BY <2>1, <2>2
<1> QED BY <1>2, <1>3, <1>4, <1>5

(* How many automatic ids INCRBY reserves.                                  *)
LEMMA AutoNodesCounted ==
  ASSUME NEW t \in Trees
  PROVE  /\ IsFiniteSet(AutoNodes(t)) /\ Cardinality(AutoNodes(t)) \in Nat
         /\ \A i \in AutoNodes(t) :
              Cardinality({k \in AutoNodes(t) : k < i}) \in 0..(Cardinality(AutoNodes(t)) - 1)
<1>1. AutoNodes(t) \subseteq 1..Len(t) /\ Len(t) \in Nat
  BY TreeType DEF AutoNodes
<1>2. IsFiniteSet(AutoNodes(t))
  <2>1. IsFiniteSet(1..Len(t))
    BY <1>1, FS_Interval
  <2> QED BY <1>1, <2>1, FS_Subset
<1>3. Cardinality(AutoNodes(t)) \in Nat
  BY <1>2, FS_CardinalityType
<1>4. ASSUME NEW i \in AutoNodes(t)
      PROVE  Cardinality({k \in AutoNodes(t) : k < i}) \in 0..(Cardinality(AutoNodes(t)) - 1)
  <2> DEFINE S == AutoNodes(t) \ {i}
             B == {k \in AutoNodes(t) : k < i}
  <2>1. IsFiniteSet(S) /\ Cardinality(S) = Cardinality(AutoNodes(t)) - 1
    BY <1>2, FS_RemoveElement
  <2>2. B \in SUBSET S
    BY <1>1
  <2>3. IsFiniteSet(B) /\ Cardinality(B) <= Cardinality(S)
    BY <2>1, <2>2, FS_Subset
  <2>4. Cardinality(B) \in Nat
    BY <2>3, FS_CardinalityType
  <2> HIDE DEF S, B
  <2>5. Cardinality(B) \in 0..(Cardinality(AutoNodes(t)) - 1)
    BY <1>3, <2>1, <2>3, <2>4
  <2> QED BY <2>5 DEF B
<1> QED BY <1>2, <1>3, <1>4

(* The ids of a tree's nodes are ids, as far as the counter goes.           *)
LEMMA IdsType ==
  ASSUME NEW t \in Trees, NEW n \in Nat, n + Cardinality(AutoNodes(t)) <= MaxId
  PROVE  IdsOf(t, n + 1) \in Seq(Id) /\ Len(IdsOf(t, n + 1)) = Len(t)
<1> DEFINE c(i) == Cardinality({k \in AutoNodes(t) : k < i})
<1>1. /\ Len(t) \in Nat /\ DOMAIN t = 1..Len(t)
      /\ \A i \in 1..Len(t) : t[i].id \in Id \union {AutoId}
  BY TreeType
<1>2. \A i \in 1..Len(t) : t[i].id = AutoId => n + 1 + c(i) \in Id
  <2> SUFFICES ASSUME NEW i \in 1..Len(t), t[i].id = AutoId
               PROVE  n + 1 + c(i) \in Id
    OBVIOUS
  <2>1. i \in AutoNodes(t)
    BY <1>1 DEF AutoNodes
  <2>2. Cardinality(AutoNodes(t)) \in Nat /\ c(i) \in 0..(Cardinality(AutoNodes(t)) - 1)
    BY <2>1, AutoNodesCounted
  <2> HIDE DEF c
  <2> QED BY <2>2, FlowAssumption DEF Id
<1> HIDE DEF c
<1>3. IdsOf(t, n + 1) = [i \in 1..Len(t) |-> IF t[i].id # AutoId THEN t[i].id ELSE n + 1 + c(i)]
  BY <1>1 DEF IdsOf, c
<1>4. \A i \in 1..Len(t) : (IF t[i].id # AutoId THEN t[i].id ELSE n + 1 + c(i)) \in Id
  BY <1>1, <1>2
<1>5. IdsOf(t, n + 1) \in [1..Len(t) -> Id]
  BY <1>3, <1>4
<1> HIDE DEF Id
<1> QED BY <1>1, <1>5

(* Keys that differ are as many as the nodes.                               *)
LEMMA KeysCounted ==
  ASSUME NEW keys \in Seq(Id), IsInjective(keys)
  PROVE  IsFiniteSet(ToSet(keys)) /\ Cardinality(ToSet(keys)) = Len(keys)
<1>1. Len(keys) \in Nat /\ DOMAIN keys = 1..Len(keys) /\ keys \in [1..Len(keys) -> ToSet(keys)]
  BY DEF ToSet
<1>2. keys \in Surjection(1..Len(keys), ToSet(keys)) /\ keys \in Injection(1..Len(keys), ToSet(keys))
  BY <1>1 DEF Surjection, Injection, IsInjective, ToSet
<1>3. IsFiniteSet(1..Len(keys)) /\ Cardinality(1..Len(keys)) = Len(keys)
  BY <1>1, FS_Interval
<1> QED BY <1>2, <1>3, FS_Surjection

-----------------------------------------------------------------------------
(* The calls of add, up to EXEC.                                            *)

LEMMA InitConsistent == Init => IInv
<1> SUFFICES ASSUME Init PROVE IInv
  OBVIOUS
<1>1. 1 \in Id /\ NoOne \notin Producer
  BY FlowAssumption DEF Id
<1>2. NoHash \in Hash
  BY DEF NoHash, Hash, Plain, Options
<1>3. srv \in Server
  <2> DEFINE h == [j \in Id |-> NoHash]
             l == [j \in Id |-> "none"]
             e == [j \in Id |-> {}]
  <2>1. /\ 0 \in 0..MaxId /\ h \in [Id -> Hash] /\ l \in [Id -> Place]
        /\ e \in [Id -> SUBSET Id]
    BY <1>2, FlowAssumption DEF Place
  <2>2. srv = [counter |-> 0, hash |-> h, place |-> l, deps |-> e, processed |-> e]
    BY DEF Init
  <2> HIDE DEF h, l, e
  <2> QED BY <2>1, <2>2 DEF Server
<1>4. /\ adds \in [Producer -> Call]
      /\ \A p \in Producer : /\ adds[p].at = "start" /\ adds[p].outcome = ""
                             /\ adds[p].wrote = {}
  <2> DEFINE C == [ at : {"start"}, tree : Trees, keys : {<<>>}, next : {0},
                    dirty : {FALSE}, outcome : {""}, wrote : {{}} ]
  <2>1. adds \in [Producer -> C]
    BY DEF Init
  <2>2. \A c \in C : c \in Call /\ c.at = "start" /\ c.outcome = "" /\ c.wrote = {}
    <3>1. /\ <<>> \in Seq(Id) /\ 0 \in Nat /\ FALSE \in BOOLEAN /\ "" \in Outcome
          /\ {} \in SUBSET Id
      BY DEF Outcome
    <3> QED BY <3>1 DEF Call
  <2> HIDE DEF C
  <2> QED BY <2>1, <2>2
<1>5. reader \in Reader /\ reader.at = "idle"
  BY <1>1 DEF Init, NotReading, Reader
<1>6. \A p \in Producer : CallOK(adds[p]) /\ Checked(srv, adds[p])
  BY <1>4 DEF CallOK, Checked
<1>7. \A j \in Id : /\ srv.hash[j] = NoHash /\ srv.deps[j] = {} /\ srv.processed[j] = {}
                   /\ srv.place[j] = "none" /\ ~Stored(srv, j)
  BY DEF Init, Stored, NoHash
<1>8. Known(srv, adds) /\ Waits(srv) /\ Blocked(srv, adds)
  <2>1. NoHash.by = NoOne /\ NoHash.parent = NoParent
    BY DEF NoHash
  <2>2. Known(srv, adds)
    BY <1>1, <1>7, <2>1 DEF Known
  <2>3. Waits(srv)
    BY <1>7 DEF Waits, Child
  <2>4. Blocked(srv, adds)
    BY <1>7 DEF Blocked
  <2> QED BY <2>2, <2>3, <2>4
<1>9. HalfRead(srv, adds, reader)
  BY <1>5 DEF HalfRead
<1> QED BY <1>3, <1>4, <1>5, <1>6, <1>8, <1>9 DEF IInv, Consistent

(* A call that goes on, or returns without having written anything.         *)
LEMMA CallGoesOn ==
  ASSUME IInv, NEW p \in Producer, NEW c \in Call, adds' = [adds EXCEPT ![p] = c],
         adds[p].at # "returned", c.wrote = {}, CallOK(c), Checked(srv, c),
         srv' \in Server, srv'.hash = srv.hash, srv'.place = srv.place,
         srv'.deps = srv.deps, srv'.processed = srv.processed, reader' = reader
  PROVE  IInv'
<1>1. /\ srv \in Server /\ adds \in [Producer -> Call] /\ reader \in Reader
      /\ \A x \in Producer : CallOK(adds[x]) /\ Checked(srv, adds[x])
      /\ Known(srv, adds) /\ Waits(srv) /\ Blocked(srv, adds) /\ HalfRead(srv, adds, reader)
  BY DEF IInv, Consistent
<1>2. /\ adds' \in [Producer -> Call]
      /\ \A x \in Producer : adds'[x] = IF x = p THEN c ELSE adds[x]
  BY <1>1
<1>3. \A j \in Id : Stored(srv', j) <=> Stored(srv, j)
  BY DEF Stored
<1>4. \A j \in Id : srv.hash[j].by # p
  BY <1>1 DEF Known
<1>5. \A x \in Producer : CallOK(adds'[x]) /\ Checked(srv', adds'[x])
  BY <1>1, <1>2 DEF Checked, Stored
<1>6. Known(srv', adds')
  BY <1>1, <1>2, <1>3, <1>4 DEF Known
<1>7. Waits(srv')
  BY <1>1 DEF Waits, Child, Stored
<1>8. Blocked(srv', adds')
  <2>1. \A j \in Id : Full(adds', srv.hash[j].by) <=> Full(adds, srv.hash[j].by)
    BY <1>2, <1>4 DEF Full
  <2> QED BY <1>1, <2>1 DEF Blocked, Child, Stored
<1>9. HalfRead(srv', adds', reader')
  BY <1>1, <1>2 DEF HalfRead
<1>10. Consistent(srv', adds', reader')
  BY <1>1, <1>2, <1>5, <1>6, <1>7, <1>8, <1>9 DEF Consistent
<1> QED BY <1>10 DEF IInv, Consistent, Known, Waits, Blocked, HalfRead, Child, Full, Stored, CallOK, Checked

(* A call returns with an outcome that says nothing was written.            *)
LEMMA CallReturns ==
  ASSUME IInv, NEW p \in Producer, NEW outcome \in {"duplicate", "exists", "aborted", "io"},
         adds' = Return(p, outcome), adds[p].at # "returned",
         srv' \in Server, srv'.hash = srv.hash, srv'.place = srv.place,
         srv'.deps = srv.deps, srv'.processed = srv.processed, reader' = reader
  PROVE  IInv'
<1> DEFINE c == [adds[p] EXCEPT !.at = "returned", !.outcome = outcome]
<1>1. adds[p] \in Call /\ adds \in [Producer -> Call] /\ CallOK(adds[p])
  BY DEF IInv, Consistent
<1>2. adds' = [adds EXCEPT ![p] = c]
  BY <1>1 DEF Return
<1>3. /\ c \in Call /\ c.at = "returned" /\ c.outcome = outcome
      /\ c.wrote = adds[p].wrote
  BY <1>1 DEF Call, Outcome
<1> HIDE DEF c
<1>4. c.wrote = {} /\ CallOK(c) /\ Checked(srv, c)
  BY <1>1, <1>3 DEF CallOK, Checked
<1> QED BY <1>2, <1>3, <1>4, CallGoesOn

(* A call under way.                                                        *)
LEMMA UnderWay ==
  ASSUME NEW c \in Call, c.at \in {"watch", "check", "exec"}, c.outcome = "", c.wrote = {},
         Len(c.keys) = Len(c.tree), IsInjective(c.keys),
         c.at = "check" => c.next \in 1..Len(c.keys)
  PROVE  CallOK(c)
  BY DEF CallOK

LEMMA CallConsistent ==
  ASSUME IInv, NEW p \in Producer,
         PrepareNodes(p) \/ Watch(p) \/ EnsureJobKeyDoesNotExist(p) \/ LoseConnection(p)
  PROVE  IInv'
<1>1. /\ srv \in Server /\ adds \in [Producer -> Call] /\ adds[p] \in Call
      /\ CallOK(adds[p]) /\ Checked(srv, adds[p]) /\ adds[p].tree \in Trees
  BY DEF IInv, Consistent, Call
<1>2. /\ adds[p].at \in {"start", "watch", "check", "exec"} =>
           adds[p].outcome = "" /\ adds[p].wrote = {}
      /\ adds[p].at \in {"watch", "check", "exec"} =>
           Len(adds[p].keys) = Len(adds[p].tree) /\ IsInjective(adds[p].keys)
  BY <1>1 DEF CallOK
<1>3. adds[p].at = "check" => adds[p].next \in 1..Len(adds[p].keys)
  BY <1>1 DEF CallOK
<1>4. Len(adds[p].keys) \in Nat /\ adds[p].next \in Nat /\ adds[p].next + 1 \in Nat
  <2>1. adds[p].keys \in Seq(Id) /\ adds[p].next \in Nat
    BY <1>1 DEF Call
  <2> QED BY <2>1
<1>5. CASE PrepareNodes(p)
  <2> DEFINE t == adds[p].tree
             n == Cardinality(AutoNodes(t))
             keys == IdsOf(t, srv.counter + 1)
  <2>1. /\ adds[p].at = "start" /\ srv.counter + n <= MaxId /\ reader' = reader
        /\ srv' = [srv EXCEPT !.counter = srv.counter + n]
        /\ adds' = IF IsInjective(keys)
                   THEN [adds EXCEPT ![p].at = "watch", ![p].keys = keys]
                   ELSE Return(p, "duplicate")
    BY <1>5 DEF PrepareNodes
  <2>2. srv.counter \in Nat /\ n \in Nat
    BY <1>1, AutoNodesCounted, FlowAssumption DEF Server
  <2>3. keys \in Seq(Id) /\ Len(keys) = Len(t)
    BY <1>1, <2>1, <2>2, IdsType
  <2> HIDE DEF t, n, keys
  <2>4. /\ srv' \in Server /\ srv'.hash = srv.hash /\ srv'.place = srv.place
        /\ srv'.deps = srv.deps /\ srv'.processed = srv.processed
    <3>1. srv.counter + n \in 0..MaxId
      BY <2>1, <2>2, FlowAssumption
    <3> QED BY <1>1, <2>1, <3>1 DEF Server
  <2>5. CASE ~IsInjective(keys)
    <3>1. adds' = Return(p, "duplicate") /\ adds[p].at # "returned"
      BY <2>1, <2>5
    <3> QED BY <2>1, <2>4, <3>1, CallReturns
  <2>6. CASE IsInjective(keys)
    <3> DEFINE c == [adds[p] EXCEPT !.at = "watch", !.keys = keys]
    <3>1. adds' = [adds EXCEPT ![p] = c]
      BY <1>1, <2>1, <2>6
    <3>2. /\ c \in Call /\ c.at = "watch" /\ c.keys = keys /\ c.tree = t
          /\ c.wrote = adds[p].wrote /\ c.outcome = adds[p].outcome
      BY <1>1, <2>3 DEF Call, t
    <3> HIDE DEF c
    <3>3. c.wrote = {} /\ CallOK(c) /\ Checked(srv, c)
      <4>1. c.wrote = {} /\ c.outcome = ""
        BY <1>2, <2>1, <3>2
      <4>2. CallOK(c)
        BY <2>3, <2>6, <3>2, <4>1, UnderWay
      <4> QED BY <3>2, <4>1, <4>2 DEF Checked
    <3>4. adds[p].at # "returned"
      BY <2>1
    <3> QED BY <2>1, <2>4, <3>1, <3>2, <3>3, <3>4, CallGoesOn
  <2> QED BY <2>5, <2>6
<1>6. CASE Watch(p)
  <2> DEFINE c == [adds[p] EXCEPT !.at = "check", !.next = 1]
  <2>1. /\ adds[p].at = "watch" /\ srv' = srv /\ reader' = reader
        /\ adds' = [adds EXCEPT ![p] = c]
    BY <1>1, <1>6 DEF Watch
  <2>2. /\ c \in Call /\ c.at = "check" /\ c.next = 1 /\ c.keys = adds[p].keys
        /\ c.tree = adds[p].tree /\ c.wrote = adds[p].wrote /\ c.outcome = adds[p].outcome
    BY <1>1 DEF Call
  <2> HIDE DEF c
  <2>3. /\ c.wrote = {} /\ c.outcome = ""
        /\ Len(c.keys) = Len(c.tree) /\ IsInjective(c.keys)
    BY <1>2, <2>1, <2>2
  <2>4. c.wrote = {} /\ CallOK(c) /\ Checked(srv, c)
    <3>1. Len(c.keys) \in Nat \ {0}
      BY <1>1, <2>2, <2>3, TreeType
    <3>2. 1 \in 1..Len(c.keys) /\ \A i \in 1..Len(c.keys) : ~(i < 1)
      BY <3>1
    <3>3. c.next \in 1..Len(c.keys) /\ \A i \in 1..Len(c.keys) : ~(i < c.next)
      BY <2>2, <3>2
    <3>4. CallOK(c)
      BY <2>2, <2>3, <3>3, UnderWay
    <3> QED BY <2>2, <2>3, <3>3, <3>4 DEF Checked
  <2>5. adds[p].at # "returned"
    BY <2>1
  <2> QED BY <1>1, <2>1, <2>2, <2>4, <2>5, CallGoesOn
<1>7. CASE EnsureJobKeyDoesNotExist(p)
  <2>1. /\ adds[p].at = "check" /\ adds[p].at # "returned" /\ srv' = srv /\ reader' = reader
    BY <1>7 DEF EnsureJobKeyDoesNotExist
  <2>2. CASE Stored(srv, adds[p].keys[adds[p].next])
    BY <1>1, <1>7, <2>1, <2>2, CallReturns DEF EnsureJobKeyDoesNotExist
  <2>3. CASE /\ ~Stored(srv, adds[p].keys[adds[p].next])
             /\ adds[p].next < Len(adds[p].keys)
    <3> DEFINE c == [adds[p] EXCEPT !.next = adds[p].next + 1]
    <3>1. adds' = [adds EXCEPT ![p] = c]
      BY <1>1, <1>7, <2>3 DEF EnsureJobKeyDoesNotExist
    <3>2. /\ c \in Call /\ c.at = "check" /\ c.next = adds[p].next + 1
          /\ c.keys = adds[p].keys /\ c.dirty = adds[p].dirty
          /\ c.tree = adds[p].tree /\ c.wrote = adds[p].wrote /\ c.outcome = adds[p].outcome
      BY <1>1, <1>4, <2>1 DEF Call
    <3> HIDE DEF c
    <3>3. c.wrote = {} /\ CallOK(c)
      <4>1. adds[p].next + 1 \in 1..Len(adds[p].keys)
        BY <1>4, <1>3, <2>1, <2>3
      <4>2. /\ c.next \in 1..Len(c.keys) /\ Len(c.keys) = Len(c.tree) /\ IsInjective(c.keys)
            /\ c.wrote = {} /\ c.outcome = ""
        BY <1>2, <2>1, <3>2, <4>1
      <4> QED BY <3>2, <4>2, UnderWay
    <3>4. Checked(srv, c)
      <4>1. ~adds[p].dirty => \A i \in 1..Len(adds[p].keys) :
               i < adds[p].next => ~Stored(srv, adds[p].keys[i])
        BY <1>1, <2>1 DEF Checked
      <4>2. \A i \in 1..Len(adds[p].keys) :
              i < adds[p].next + 1 => i < adds[p].next \/ i = adds[p].next
        BY <1>4
      <4>3. ~adds[p].dirty => \A i \in 1..Len(adds[p].keys) :
               i < adds[p].next + 1 => ~Stored(srv, adds[p].keys[i])
        BY <2>3, <4>1, <4>2
      <4> QED BY <3>2, <4>3 DEF Checked
    <3> QED BY <1>1, <2>1, <3>1, <3>2, <3>3, <3>4, CallGoesOn
  <2>4. CASE /\ ~Stored(srv, adds[p].keys[adds[p].next])
             /\ ~(adds[p].next < Len(adds[p].keys))
    <3> DEFINE c == [adds[p] EXCEPT !.at = "exec"]
    <3>1. adds' = [adds EXCEPT ![p] = c]
      BY <1>1, <1>7, <2>4 DEF EnsureJobKeyDoesNotExist
    <3>2. /\ c \in Call /\ c.at = "exec" /\ c.keys = adds[p].keys /\ c.dirty = adds[p].dirty
          /\ c.tree = adds[p].tree /\ c.wrote = adds[p].wrote /\ c.outcome = adds[p].outcome
      BY <1>1, <2>1 DEF Call
    <3> HIDE DEF c
    <3>3. c.wrote = {} /\ CallOK(c)
      BY <1>2, <2>1, <3>2, UnderWay
    <3>4. Checked(srv, c)
      <4>1. ~adds[p].dirty => \A i \in 1..Len(adds[p].keys) :
               i < adds[p].next => ~Stored(srv, adds[p].keys[i])
        BY <1>1, <2>1 DEF Checked
      <4>2. \A i \in 1..Len(adds[p].keys) : i < adds[p].next \/ i = adds[p].next
        BY <1>4, <1>3, <2>1, <2>4
      <4>3. ~adds[p].dirty => \A i \in 1..Len(adds[p].keys) : ~Stored(srv, adds[p].keys[i])
        BY <2>4, <4>1, <4>2
      <4> QED BY <3>2, <4>3 DEF Checked
    <3> QED BY <1>1, <2>1, <3>1, <3>2, <3>3, <3>4, CallGoesOn
  <2> QED BY <2>2, <2>3, <2>4
<1>8. CASE LoseConnection(p)
  <2>1. /\ adds[p].at # "returned" /\ srv' = srv /\ reader' = reader
        /\ adds' = Return(p, "io")
    BY <1>8 DEF LoseConnection
  <2> QED BY <1>1, <2>1, CallReturns
<1> QED BY <1>5, <1>6, <1>7, <1>8

-----------------------------------------------------------------------------
(* Jobs.                                                                    *)

(* A write is noticed by the calls that watch the key, and changes nothing  *)
(* else of a call.                                                          *)
LEMMA NoticeIs ==
  ASSUME NEW a \in [Producer -> Call], NEW J, NEW p \in Producer
  PROVE  /\ Notice(a, J) \in [Producer -> Call]
         /\ Notice(a, J)[p].at = a[p].at /\ Notice(a, J)[p].tree = a[p].tree
         /\ Notice(a, J)[p].keys = a[p].keys /\ Notice(a, J)[p].next = a[p].next
         /\ Notice(a, J)[p].outcome = a[p].outcome /\ Notice(a, J)[p].wrote = a[p].wrote
         /\ ~Notice(a, J)[p].dirty =>
              /\ ~a[p].dirty
              /\ a[p].at \in {"check", "exec"} => \A i \in 1..Len(a[p].keys) : a[p].keys[i] \notin J
<1> DEFINE n(x) == IF a[x].at \in {"check", "exec"} /\ ToSet(a[x].keys) \intersect J # {}
                   THEN [a[x] EXCEPT !.dirty = TRUE] ELSE a[x]
<1>1. \A x \in Producer : a[x] \in Call
  OBVIOUS
<1>2. \A x \in Producer : n(x) \in Call
  BY <1>1 DEF Call
<1>3. Notice(a, J) = [x \in Producer |-> n(x)]
  BY DEF Notice
<1>4. Notice(a, J) \in [Producer -> Call] /\ Notice(a, J)[p] = n(p)
  BY <1>2, <1>3
<1>5. /\ n(p).at = a[p].at /\ n(p).tree = a[p].tree /\ n(p).keys = a[p].keys
      /\ n(p).next = a[p].next /\ n(p).outcome = a[p].outcome /\ n(p).wrote = a[p].wrote
      /\ ~n(p).dirty => ~a[p].dirty
  BY <1>1 DEF Call
<1>6. ASSUME ~n(p).dirty, a[p].at \in {"check", "exec"}
      PROVE  \A i \in 1..Len(a[p].keys) : a[p].keys[i] \notin J
  <2>1. ToSet(a[p].keys) \intersect J = {}
    BY <1>1, <1>6 DEF Call
  <2>2. a[p].keys \in Seq(Id)
    BY <1>1 DEF Call
  <2>3. DOMAIN a[p].keys = 1..Len(a[p].keys)
    BY <2>2
  <2> QED BY <2>1, <2>3 DEF ToSet
<1> HIDE DEF n
<1> QED BY <1>4, <1>5, <1>6

LEMMA NoticeOK ==
  ASSUME NEW a \in [Producer -> Call], NEW J, NEW p \in Producer, CallOK(a[p])
  PROVE  CallOK(Notice(a, J)[p])
<1> DEFINE c == Notice(a, J)[p]
           b == a[p]
<1>1. /\ c.at = b.at /\ c.tree = b.tree /\ c.keys = b.keys /\ c.next = b.next
      /\ c.outcome = b.outcome /\ c.wrote = b.wrote /\ c \in Call /\ b \in Call /\ CallOK(b)
  BY NoticeIs
<1> HIDE DEF c, b
<1>2. CallOK(c)
  BY <1>1 DEF CallOK
<1> QED BY <1>2 DEF c

(* A job that is not blocked goes to another place where it is not.         *)
LEMMA JobMoves ==
  ASSUME IInv, NEW j \in Id, NEW x \in Place \ {"waiting-children", "completed"},
         srv.place[j] # "waiting-children", srv' = [srv EXCEPT !.place[j] = x],
         UNCHANGED <<adds, reader>>
  PROVE  IInv'
<1>1. /\ srv \in Server /\ adds \in [Producer -> Call] /\ reader \in Reader
      /\ \A p \in Producer : CallOK(adds[p]) /\ Checked(srv, adds[p])
      /\ Known(srv, adds) /\ Waits(srv) /\ Blocked(srv, adds) /\ HalfRead(srv, adds, reader)
  BY DEF IInv, Consistent
<1> DEFINE l == [srv.place EXCEPT ![j] = x]
<1>2. srv.place \in [Id -> Place] /\ l \in [Id -> Place] /\ x \in Place
  BY <1>1 DEF Server
<1>3. \A k \in Id : l[k] = IF k = j THEN x ELSE srv.place[k]
  BY <1>2
<1>4. srv' = [srv EXCEPT !.place = l]
  BY <1>1 DEF Server
<1> HIDE DEF l
<1>5. /\ srv' \in Server /\ srv'.place = l /\ srv'.hash = srv.hash
      /\ srv'.deps = srv.deps /\ srv'.processed = srv.processed
  BY <1>1, <1>2, <1>4 DEF Server
<1>6. \A p \in Producer : CallOK(adds'[p]) /\ Checked(srv', adds'[p])
  BY <1>1, <1>5 DEF Checked, Stored
<1>7. Known(srv', adds')
  BY <1>1, <1>5 DEF Known, Stored
<1>8. Waits(srv')
  BY <1>1, <1>3, <1>5 DEF Waits, Child, Stored
<1>9. Blocked(srv', adds')
  BY <1>1, <1>3, <1>5 DEF Blocked, Child, Stored, Full
<1>10. HalfRead(srv', adds', reader')
  BY <1>1, <1>5 DEF HalfRead
<1>11. Consistent(srv', adds', reader')
  BY <1>1, <1>5, <1>6, <1>7, <1>8, <1>9, <1>10 DEF Consistent
<1> QED BY <1>11 DEF IInv, Consistent, Known, Waits, Blocked, HalfRead, Child, Full, Stored, CallOK, Checked

LEMMA PlaceForType ==
  ASSUME NEW opts
  PROVE  PlaceFor(opts) \in Place \ {"waiting-children", "completed", "none"}
  BY DEF PlaceFor, Place

(* The parent of a job that completes loses it from its dependencies, and   *)
(* the last one releases it.                                                *)
LEMMA CompletedConsistent ==
  ASSUME IInv, NEW j \in Id, MoveToCompleted(j)
  PROVE  IInv'
<1>1. /\ srv \in Server /\ adds \in [Producer -> Call] /\ reader \in Reader
      /\ \A p \in Producer : CallOK(adds[p]) /\ Checked(srv, adds[p])
      /\ Known(srv, adds) /\ Waits(srv) /\ Blocked(srv, adds) /\ HalfRead(srv, adds, reader)
  BY DEF IInv, Consistent
<1> DEFINE p == srv.hash[j].parent
           reports == p # NoParent /\ j \in srv.deps[p]
           released == /\ reports /\ srv.deps[p] \ {j} = {} /\ Stored(srv, p)
                       /\ srv.place[p] = "waiting-children"
           l == [k \in Id |-> IF k = j THEN "completed"
                              ELSE IF k = p /\ released THEN PlaceFor(srv.hash[p].opts)
                              ELSE srv.place[k]]
           d == [k \in Id |-> IF k = p /\ reports THEN srv.deps[k] \ {j} ELSE srv.deps[k]]
           e == [k \in Id |-> IF k = p /\ reports THEN srv.processed[k] \union {j}
                              ELSE srv.processed[k]]
<1>2. /\ srv.place \in [Id -> Place] /\ srv.hash \in [Id -> Hash]
      /\ srv.deps \in [Id -> SUBSET Id] /\ srv.processed \in [Id -> SUBSET Id]
      /\ srv.place[j] = "active" /\ UNCHANGED <<adds, reader>>
      /\ srv' = UpdateParentDeps([srv EXCEPT !.place[j] = "completed"], j)
      /\ NoOne \notin Producer
  BY <1>1, FlowAssumption DEF Server, MoveToCompleted
<1>3. p \in Id \union {NoParent} /\ NoParent \notin Id
  <2>1. srv.hash[j] \in Hash /\ NoParent \notin Id
    BY <1>2, FlowAssumption DEF Id, NoParent
  <2> QED BY <2>1 DEF Hash
<1>4. /\ srv' \in Server /\ srv'.place = l /\ srv'.hash = srv.hash
      /\ srv'.deps = d /\ srv'.processed = e
  <2> DEFINE m == [srv.place EXCEPT ![j] = "completed"]
             s0 == [srv EXCEPT !.place = m]
  <2>1. m \in [Id -> Place] /\ \A k \in Id : m[k] = IF k = j THEN "completed" ELSE srv.place[k]
    BY <1>2 DEF Place
  <2>2. srv' = UpdateParentDeps(s0, j)
    BY <1>1, <1>2 DEF Server
  <2>3. /\ s0 \in Server /\ s0.place = m /\ s0.hash = srv.hash
        /\ s0.deps = srv.deps /\ s0.processed = srv.processed
    <3> HIDE DEF m
    <3> QED BY <1>1, <2>1 DEF Server
  <2> HIDE DEF m, s0
  <2>4. CASE ~reports
    <3>1. srv' = s0
      BY <1>3, <2>2, <2>3, <2>4 DEF UpdateParentDeps
    <3>2. l = m /\ d = srv.deps /\ e = srv.processed
      BY <1>2, <2>1, <2>4
    <3> QED BY <2>3, <3>1, <3>2
  <2>5. CASE reports
    <3> DEFINE t == [s0 EXCEPT !.deps[p] = s0.deps[p] \ {j},
                               !.processed[p] = s0.processed[p] \union {j}]
    <3>1. p \in Id /\ srv' = MoveParentToWaitIfNoPendingDependencies(t, p)
      BY <1>3, <2>2, <2>3, <2>5 DEF UpdateParentDeps
    <3>2. /\ d = [srv.deps EXCEPT ![p] = srv.deps[p] \ {j}]
          /\ e = [srv.processed EXCEPT ![p] = srv.processed[p] \union {j}]
          /\ d \in [Id -> SUBSET Id] /\ e \in [Id -> SUBSET Id] /\ d[p] = srv.deps[p] \ {j}
      BY <1>2, <2>5, <3>1
    <3> HIDE DEF d, e
    <3>3. t = [s0 EXCEPT !.deps = d, !.processed = e]
      BY <2>3, <3>2 DEF Server
    <3>4. /\ t \in Server /\ t.place = m /\ t.hash = srv.hash
          /\ t.deps = d /\ t.processed = e
      BY <2>3, <3>2, <3>3 DEF Server
    <3> HIDE DEF t
    <3>5. released <=> t.deps[p] = {} /\ Stored(t, p) /\ t.place[p] = "waiting-children" /\ p # j
      BY <2>1, <2>5, <3>1, <3>2, <3>4, <1>2 DEF Stored
    <3>6. p = j => t.place[p] # "waiting-children"
      BY <2>1, <3>4
    <3>7. CASE ~released
      <4>1. srv' = t
        BY <3>1, <3>5, <3>6, <3>7
             DEF MoveParentToWaitIfNoPendingDependencies, MoveParentToWaitIfNeeded
      <4>2. l = m
        BY <1>2, <2>1, <3>7
      <4> QED BY <3>4, <4>1, <4>2
    <3>8. CASE released
      <4> DEFINE x == PlaceFor(srv.hash[p].opts)
      <4>1. srv' = [t EXCEPT !.place[p] = x] /\ p # j
        BY <3>1, <3>4, <3>5, <3>8
             DEF MoveParentToWaitIfNoPendingDependencies, MoveParentToWaitIfNeeded
      <4>2. x \in Place
        BY PlaceForType
      <4> HIDE DEF x
      <4>3. l = [m EXCEPT ![p] = x]
        <5>1. l = [k \in Id |-> IF k = j THEN "completed" ELSE IF k = p THEN x ELSE srv.place[k]]
          BY <3>8 DEF x
        <5> QED BY <2>1, <3>1, <4>1, <5>1
      <4>4. l \in [Id -> Place]
        BY <2>1, <3>1, <4>2, <4>3
      <4> HIDE DEF l
      <4>5. srv' = [t EXCEPT !.place = l]
        BY <3>4, <4>1, <4>3 DEF Server
      <4> QED BY <3>4, <4>4, <4>5 DEF Server
    <3> QED BY <3>7, <3>8
  <2> QED BY <2>4, <2>5
<1>5. /\ \A k \in Id : k # j /\ ~(k = p /\ released) => l[k] = srv.place[k]
      /\ l[j] = "completed"
      /\ \A k \in Id : l[k] = "waiting-children" => srv.place[k] = "waiting-children"
                                                   /\ k # j /\ ~(k = p /\ released)
      /\ \A k \in Id : l[k] = "completed" => k = j \/ srv.place[k] = "completed"
  BY PlaceForType
<1>6. \A k, c \in Id :
        /\ (c \in d[k]) <=> (c \in srv.deps[k] /\ ~(k = p /\ c = j))
        /\ (c \in e[k]) <=> (c \in srv.processed[k] \/ (k = p /\ reports /\ c = j))
  BY <1>2, <1>3
<1>7. \A k \in Id : k = p /\ k # j /\ srv.place[k] = "waiting-children" /\ Stored(srv, k)
                     /\ ~released /\ reports => \E c \in Id : c \in srv.deps[k] /\ c # j
  BY <1>2
<1>8. d \in [Id -> SUBSET Id]
  BY <1>4 DEF Server
<1>9. reports => p \in Id /\ j \in srv.deps[p]
  BY <1>3
<1>10. \A c \in Id : srv.hash[c].parent \in Id /\ c = j => srv.hash[c].parent = p
  OBVIOUS
<1> HIDE DEF l, d, e, released
<1>11. \A x \in Producer : CallOK(adds'[x]) /\ Checked(srv', adds'[x])
  BY <1>1, <1>2, <1>4 DEF Checked, Stored
<1>12. Known(srv', adds')
  <2>1. ASSUME NEW k \in Id, ~Stored(srv, k)
        PROVE  d[k] = {} /\ e[k] = {}
    <3>1. srv.deps[k] = {} /\ srv.processed[k] = {}
      BY <1>1, <2>1 DEF Known
    <3>2. ~(k = p /\ reports)
      BY <1>9, <3>1
    <3>3. d[k] \subseteq Id /\ e[k] \subseteq Id
      BY <1>4 DEF Server
    <3>4. \A c \in Id : c \notin d[k] /\ c \notin e[k]
      BY <1>6, <3>1, <3>2
    <3> QED BY <3>3, <3>4
  <2> QED BY <1>1, <1>2, <1>4, <2>1 DEF Known, Stored
<1>13. Waits(srv')
  <2>1. \A r, c \in Id : c \in d[r] => c \notin e[r]
    BY <1>1, <1>6 DEF Waits
  <2>2. ASSUME NEW r \in Id, NEW c \in Id, Child(srv, c, r), c \notin e[r]
        PROVE  c \in d[r] /\ l[r] = "waiting-children"
    <3>1. c \in srv.deps[r] /\ srv.place[r] = "waiting-children"
      BY <1>1, <1>6, <2>2 DEF Waits
    <3>2. c \in d[r]
      <4>1. ~(r = p /\ c = j)
        BY <1>3, <1>6, <2>2, <3>1
      <4> QED BY <1>6, <3>1, <4>1
    <3>3. r # j
      BY <1>2, <3>1
    <3>4. ~(r = p /\ released)
      BY <1>6, <3>1, <3>2 DEF released
    <3> QED BY <1>5, <3>1, <3>2, <3>3, <3>4
  <2> QED BY <1>4, <2>1, <2>2 DEF Waits, Child, Stored
<1>14. Blocked(srv', adds')
  <2>1. ASSUME NEW r \in Id, l[r] = "waiting-children", Full(adds, srv.hash[r].by)
        PROVE  d[r] # {} /\ \A c \in d[r] : Child(srv, c, r) /\ l[c] # "completed"
    <3>1. /\ srv.place[r] = "waiting-children" /\ srv.deps[r] # {} /\ r # j
          /\ ~(r = p /\ released)
          /\ \A c \in srv.deps[r] : Child(srv, c, r) /\ srv.place[c] # "completed"
      BY <1>1, <1>5, <2>1 DEF Blocked
    <3>2. ASSUME NEW c \in d[r] PROVE Child(srv, c, r) /\ l[c] # "completed"
      <4>1. c \in Id /\ c \in srv.deps[r] /\ ~(r = p /\ c = j)
        BY <1>6, <1>8
      <4>2. Child(srv, c, r) /\ srv.place[c] # "completed"
        BY <3>1, <4>1
      <4>3. c # j
        BY <4>1, <4>2 DEF Child
      <4> QED BY <1>5, <4>1, <4>2, <4>3
    <3>3. d[r] # {}
      <4>1. PICK c \in Id : c \in srv.deps[r] /\ Child(srv, c, r)
        BY <1>2, <3>1
      <4>2. CASE r = p /\ reports
        <5>1. \E b \in Id : b \in srv.deps[r] /\ b # j
          BY <1>7, <3>1, <4>1, <4>2 DEF Child
        <5> QED BY <1>6, <5>1
      <4>3. CASE ~(r = p /\ reports)
        <5>1. ~(r = p /\ c = j)
          BY <1>3, <4>1, <4>3
        <5> QED BY <1>6, <4>1, <5>1
      <4> QED BY <4>2, <4>3
    <3> QED BY <3>2, <3>3
  <2> QED BY <1>2, <1>4, <2>1 DEF Blocked, Child, Stored
<1>15. HalfRead(srv', adds', reader')
  <2>1. reader.at = "half" => reader.of \in Id
    BY <1>1 DEF Reader
  <2> QED BY <1>1, <1>2, <1>4, <1>6, <2>1 DEF HalfRead
<1>16. Consistent(srv', adds', reader')
  BY <1>1, <1>2, <1>4, <1>11, <1>12, <1>13, <1>14, <1>15 DEF Consistent
<1> QED BY <1>16 DEF IInv, Consistent, Known, Waits, Blocked, HalfRead, Child, Full, Stored, CallOK, Checked

(* The parent of a job that is removed loses it as well.                    *)
LEMMA RemovedConsistent ==
  ASSUME IInv, NEW j \in Id, RemoveJob(j)
  PROVE  IInv'
<1>1. /\ srv \in Server /\ adds \in [Producer -> Call] /\ reader \in Reader
      /\ \A p \in Producer : CallOK(adds[p]) /\ Checked(srv, adds[p])
      /\ Known(srv, adds) /\ Waits(srv) /\ Blocked(srv, adds) /\ HalfRead(srv, adds, reader)
  BY DEF IInv, Consistent
<1> DEFINE p == srv.hash[j].parent
           leaves == p # NoParent /\ Stored(srv, p) /\ j \in srv.deps[p]
           released == leaves /\ srv.deps[p] \ {j} = {} /\ srv.place[p] = "waiting-children"
           t == RemoveParentDependencyKey(srv, j)
           h == [srv.hash EXCEPT ![j] = NoHash]
           l == [k \in Id |-> IF k = j THEN "none"
                              ELSE IF k = p /\ released THEN "wait" ELSE srv.place[k]]
           d == [k \in Id |-> IF k = j THEN {}
                              ELSE IF k = p /\ leaves THEN srv.deps[k] \ {j} ELSE srv.deps[k]]
           e == [srv.processed EXCEPT ![j] = {}]
<1>2. /\ srv.place \in [Id -> Place] /\ srv.hash \in [Id -> Hash]
      /\ srv.deps \in [Id -> SUBSET Id] /\ srv.processed \in [Id -> SUBSET Id]
      /\ adds' = Notice(adds, {j}) /\ UNCHANGED reader
      /\ srv' = [t EXCEPT !.place[j] = "none", !.hash[j] = NoHash,
                          !.deps[j] = {}, !.processed[j] = {}]
      /\ NoOne \notin Producer
  BY <1>1, FlowAssumption DEF Server, RemoveJob
<1>3. p \in Id \union {NoParent} /\ NoParent \notin Id /\ NoHash \in Hash
  <2>1. srv.hash[j] \in Hash /\ NoParent \notin Id
    BY <1>2, FlowAssumption DEF Id, NoParent
  <2>2. NoHash \in Hash
    BY DEF NoHash, Hash, Plain, Options
  <2> QED BY <2>1, <2>2 DEF Hash
<1>4. \E m \in [Id -> Place], b \in [Id -> SUBSET Id] :
        /\ t = [srv EXCEPT !.place = m, !.deps = b]
        /\ \A k \in Id : m[k] = IF k = p /\ released THEN "wait" ELSE srv.place[k]
        /\ \A k \in Id : b[k] = IF k = p /\ leaves THEN srv.deps[k] \ {j} ELSE srv.deps[k]
  <2>1. CASE ~leaves
    <3>1. t = srv
      BY <1>3, <2>1 DEF RemoveParentDependencyKey
    <3>2. t = [srv EXCEPT !.place = srv.place, !.deps = srv.deps]
      BY <1>1, <3>1 DEF Server
    <3> QED BY <1>2, <2>1, <3>2
  <2>2. CASE leaves
    <3> DEFINE kept == [srv.deps EXCEPT ![p] = srv.deps[p] \ {j}]
               u == [srv EXCEPT !.deps = kept]
               moved == [srv.place EXCEPT ![p] = "wait"]
    <3>1. p \in Id
      BY <1>3, <2>2
    <3>2. /\ kept \in [Id -> SUBSET Id] /\ kept[p] = srv.deps[p] \ {j}
          /\ \A k \in Id : kept[k] = IF k = p /\ leaves THEN srv.deps[k] \ {j} ELSE srv.deps[k]
      BY <1>2, <2>2, <3>1
    <3>3. t = IF u.deps[p] = {} /\ u.place[p] = "waiting-children"
              THEN [u EXCEPT !.place[p] = "wait"] ELSE u
      BY <1>1, <2>2, <3>1 DEF RemoveParentDependencyKey, Server
    <3>4. /\ moved \in [Id -> Place] /\ moved[p] = "wait"
          /\ \A k \in Id : k # p => moved[k] = srv.place[k]
      BY <1>2, <3>1 DEF Place
    <3> HIDE DEF kept
    <3>5. u.deps = kept /\ u.place = srv.place /\ u = [srv EXCEPT !.place = srv.place, !.deps = kept]
      BY <1>1 DEF Server
    <3>6. [u EXCEPT !.place[p] = "wait"] = [srv EXCEPT !.place = moved, !.deps = kept]
      BY <1>1 DEF Server
    <3> HIDE DEF u, t, moved
    <3>7. CASE released
      <4>1. t = [srv EXCEPT !.place = moved, !.deps = kept]
        BY <3>2, <3>3, <3>5, <3>6, <3>7
      <4>2. \A k \in Id : moved[k] = IF k = p /\ released THEN "wait" ELSE srv.place[k]
        BY <3>4, <3>7
      <4> HIDE DEF released, leaves
      <4> QED BY <3>2, <3>4, <4>1, <4>2
    <3>8. CASE ~released
      <4>1. t = [srv EXCEPT !.place = srv.place, !.deps = kept]
        BY <2>2, <3>2, <3>3, <3>5, <3>8
      <4>2. \A k \in Id : srv.place[k] = IF k = p /\ released THEN "wait" ELSE srv.place[k]
        BY <3>8
      <4> HIDE DEF released, leaves
      <4> QED BY <1>2, <3>2, <4>1, <4>2
    <3> QED BY <3>7, <3>8
  <2> QED BY <2>1, <2>2
<1> HIDE DEF t
<1>5. /\ srv' \in Server /\ srv'.place = l /\ srv'.hash = h
      /\ srv'.deps = d /\ srv'.processed = e
  <2> HIDE DEF released, leaves
  <2>1. PICK m \in [Id -> Place], b \in [Id -> SUBSET Id] :
               /\ t = [srv EXCEPT !.place = m, !.deps = b]
               /\ \A k \in Id : m[k] = IF k = p /\ released THEN "wait" ELSE srv.place[k]
               /\ \A k \in Id : b[k] = IF k = p /\ leaves THEN srv.deps[k] \ {j} ELSE srv.deps[k]
    BY <1>4
  <2>2. l = [m EXCEPT ![j] = "none"] /\ d = [b EXCEPT ![j] = {}]
    BY <2>1
  <2>3. /\ l \in [Id -> Place] /\ d \in [Id -> SUBSET Id] /\ h \in [Id -> Hash]
        /\ e \in [Id -> SUBSET Id]
    BY <1>2, <1>3, <2>1, <2>2 DEF Place
  <2>4. /\ t \in Server /\ t.place = m /\ t.deps = b /\ t.hash = srv.hash
        /\ t.processed = srv.processed
    BY <1>1, <2>1 DEF Server
  <2> HIDE DEF l, d, h, e
  <2>5. srv' = [t EXCEPT !.place = l, !.hash = h, !.deps = d, !.processed = e]
    BY <1>2, <2>2, <2>4 DEF Server, h, e
  <2> QED BY <2>3, <2>4, <2>5 DEF Server
<1>6. /\ \A k \in Id : l[k] = "waiting-children" =>
            srv.place[k] = "waiting-children" /\ k # j /\ ~(k = p /\ released)
      /\ \A k \in Id : k # j /\ ~(k = p /\ released) => l[k] = srv.place[k]
      /\ \A k \in Id : l[k] = "completed" => srv.place[k] = "completed"
  OBVIOUS
<1>7. \A k, c \in Id :
        /\ c \in d[k] => c \in srv.deps[k] /\ k # j /\ ~(k = p /\ leaves /\ c = j)
        /\ c \in srv.deps[k] /\ k # j /\ c # j => c \in d[k]
        /\ (c \in e[k]) <=> (k # j /\ c \in srv.processed[k])
  BY <1>2
<1>8. \A k \in Id : k = p /\ srv.place[k] = "waiting-children" /\ ~released /\ leaves =>
        \E c \in Id : c \in srv.deps[k] /\ c # j
  BY <1>2
<1>9. \A k \in Id : h[k] = IF k = j THEN NoHash ELSE srv.hash[k]
  BY <1>2
<1>10. \A k \in Id : (Stored(srv', k) <=> k # j /\ Stored(srv, k))
  <2>1. ~NoHash.stored /\ srv'.hash = h
    BY <1>5 DEF NoHash
  <2> HIDE DEF h, l, d, e, p, leaves, released
  <2> QED BY <1>9, <2>1 DEF Stored
<1>11. NoHash.by = NoOne /\ NoHash.parent = NoParent /\ d[j] = {} /\ e[j] = {}
  <2>1. NoHash.by = NoOne /\ NoHash.parent = NoParent
    BY DEF NoHash
  <2>2. d[j] = {} /\ e[j] = {}
    BY <1>2
  <2> QED BY <2>1, <2>2
<1>12. d \in [Id -> SUBSET Id] /\ e \in [Id -> SUBSET Id]
  BY <1>5 DEF Server
<1>13. ASSUME NEW r \in Id, NEW c \in Id
       PROVE  Child(srv', c, r) <=> Child(srv, c, r) /\ c # j /\ r # j
  BY <1>5, <1>9, <1>10 DEF Child
<1>14. \A c, r \in Id : Child(srv, c, r) => srv.hash[c].parent = r /\ Stored(srv, r)
  BY DEF Child
<1> HIDE DEF l, d, e, h, released
<1>15. adds' \in [Producer -> Call] /\ \A x \in Producer : CallOK(adds'[x])
       /\ adds'[x].at = adds[x].at /\ adds'[x].wrote = adds[x].wrote
       /\ adds'[x].tree = adds[x].tree /\ adds'[x].keys = adds[x].keys
       /\ adds'[x].next = adds[x].next /\ (~adds'[x].dirty => ~adds[x].dirty)
  <2>1. ASSUME NEW x \in Producer PROVE adds' \in [Producer -> Call]
    BY <1>1, <1>2, NoticeIs
  <2>2. adds' \in [Producer -> Call]
    <3>1. CASE Producer = {}
      BY <1>2, <3>1 DEF Notice
    <3> QED BY <2>1, <3>1
  <2> QED BY <1>1, <1>2, <2>2, NoticeIs, NoticeOK
<1>16. \A x \in Producer : Checked(srv', adds'[x])
  <2> SUFFICES ASSUME NEW x \in Producer PROVE Checked(srv', adds'[x])
    OBVIOUS
  <2>1. Checked(srv, adds[x]) /\ adds[x].keys \in Seq(Id)
    BY <1>1 DEF Call
  <2>2. \A i \in 1..Len(adds[x].keys) : adds[x].keys[i] \in Id
    BY <2>1
  <2> QED BY <1>10, <1>15, <2>1, <2>2 DEF Checked
<1>17. Known(srv', adds')
  <2> SUFFICES ASSUME NEW k \in Id
               PROVE  /\ ~Stored(srv', k) => h[k] = NoHash /\ d[k] = {} /\ e[k] = {}
                      /\ h[k].by = NoOne => h[k].parent = NoParent
                      /\ h[k].by \in Producer => adds'[h[k].by].at = "returned"
    BY <1>5 DEF Known
  <2>1. CASE k = j
    BY <1>2, <1>9, <1>11, <2>1
  <2>2. CASE k # j
    <3>1. h[k] = srv.hash[k]
      BY <1>9, <2>2
    <3>2. ~Stored(srv, k) => d[k] = {} /\ e[k] = {}
      BY <1>1, <1>7, <1>12 DEF Known
    <3> QED BY <1>1, <1>10, <1>15, <2>2, <3>1, <3>2 DEF Known
  <2> QED BY <2>1, <2>2
<1>18. Waits(srv')
  <2>1. \A r, c \in Id : c \in d[r] => c \notin e[r]
    BY <1>1, <1>7 DEF Waits
  <2>2. ASSUME NEW r \in Id, NEW c \in Id, Child(srv', c, r), c \notin e[r]
        PROVE  c \in d[r] /\ l[r] = "waiting-children"
    <3>1. Child(srv, c, r) /\ c # j /\ r # j
      BY <1>13, <2>2
    <3>2. c \in srv.deps[r] /\ srv.place[r] = "waiting-children"
      BY <1>1, <1>7, <2>2, <3>1 DEF Waits
    <3>3. ~(r = p /\ released)
      BY <3>1, <3>2 DEF released
    <3> QED BY <1>6, <1>7, <3>1, <3>2, <3>3
  <2> QED BY <1>5, <2>1, <2>2 DEF Waits
<1>19. Blocked(srv', adds')
  <2>1. ASSUME NEW r \in Id, l[r] = "waiting-children", Full(adds', h[r].by)
        PROVE  d[r] # {} /\ \A c \in d[r] : Child(srv', c, r) /\ l[c] # "completed"
    <3>1. r # j /\ srv.place[r] = "waiting-children" /\ ~(r = p /\ released)
      BY <1>6, <2>1
    <3>2. Full(adds, srv.hash[r].by)
      BY <1>9, <1>15, <2>1, <3>1 DEF Full
    <3>3. srv.deps[r] # {} /\ \A c \in srv.deps[r] : Child(srv, c, r) /\ srv.place[c] # "completed"
      BY <1>1, <3>1, <3>2 DEF Blocked
    <3>4. ASSUME NEW c \in Id, c \in srv.deps[r], c = j
          PROVE  r = p /\ leaves
      <4>1. Child(srv, c, r)
        BY <3>3, <3>4
      <4> QED BY <1>3, <1>14, <3>4, <4>1
    <3>5. ASSUME NEW c \in d[r] PROVE Child(srv', c, r) /\ l[c] # "completed"
      <4>1. c \in Id /\ c \in srv.deps[r] /\ ~(r = p /\ leaves /\ c = j)
        BY <1>7, <1>12
      <4>2. c # j /\ Child(srv, c, r) /\ srv.place[c] # "completed"
        BY <3>3, <3>4, <4>1
      <4> QED BY <1>6, <1>13, <3>1, <4>1, <4>2
    <3>6. d[r] # {}
      <4>1. PICK c \in Id : c \in srv.deps[r]
        BY <1>2, <3>3
      <4>2. CASE c # j
        BY <1>7, <3>1, <4>1, <4>2
      <4>3. CASE c = j
        <5>1. PICK b \in Id : b \in srv.deps[r] /\ b # j
          BY <1>8, <3>1, <3>4, <4>1, <4>3
        <5> QED BY <1>7, <3>1, <5>1
      <4> QED BY <4>2, <4>3
    <3> QED BY <3>5, <3>6
  <2> QED BY <1>5, <2>1 DEF Blocked
<1>20. HalfRead(srv', adds', reader')
  <2>1. reader.at = "half" => reader.of \in Id
    BY <1>1 DEF Reader
  <2>2. ASSUME reader.at = "half", NEW c \in Id, h[c].parent = reader.of, h[c].by = reader.by
        PROVE  c \in reader.processed /\ c \notin d[reader.of]
    <3>1. c # j
      BY <1>1, <1>2, <1>9, <1>11, <2>2 DEF HalfRead
    <3>2. c \in reader.processed /\ c \notin srv.deps[reader.of]
      BY <1>1, <1>9, <2>2, <3>1 DEF HalfRead
    <3> QED BY <1>7, <2>1, <2>2, <3>2
  <2> QED BY <1>1, <1>2, <1>5, <1>15, <2>2 DEF HalfRead
<1>21. Consistent(srv', adds', reader')
  BY <1>1, <1>2, <1>5, <1>15, <1>16, <1>17, <1>18, <1>19, <1>20 DEF Consistent
<1> QED BY <1>21 DEF IInv, Consistent, Known, Waits, Blocked, HalfRead, Child, Full, Stored, CallOK, Checked

(* A plain job is nobody's child, and the flows that want its id notice it. *)
LEMMA AddedConsistent ==
  ASSUME IInv, NEW j \in Id, AddJob(j)
  PROVE  IInv'
<1>1. /\ srv \in Server /\ adds \in [Producer -> Call] /\ reader \in Reader
      /\ \A p \in Producer : CallOK(adds[p]) /\ Checked(srv, adds[p])
      /\ Known(srv, adds) /\ Waits(srv) /\ Blocked(srv, adds) /\ HalfRead(srv, adds, reader)
  BY DEF IInv, Consistent
<1> DEFINE new == [stored |-> TRUE, parent |-> NoParent, opts |-> Plain, by |-> NoOne]
           h == [srv.hash EXCEPT ![j] = new]
           l == [srv.place EXCEPT ![j] = "wait"]
<1>2. /\ ~Stored(srv, j) /\ adds' = Notice(adds, {j}) /\ reader' = reader
      /\ srv' = [srv EXCEPT !.hash[j] = new, !.place[j] = "wait"]
  <2>1. PlaceFor(Plain) = "wait"
    BY DEF PlaceFor, Plain
  <2> QED BY <2>1 DEF AddJob, StoreJob
<1>3. /\ srv.place \in [Id -> Place] /\ srv.hash \in [Id -> Hash]
      /\ srv.deps \in [Id -> SUBSET Id] /\ srv.processed \in [Id -> SUBSET Id]
      /\ NoParent \notin Id /\ NoOne \notin Producer
  BY <1>1, FlowAssumption DEF Server, Id, NoParent
<1>4. new \in Hash /\ new.parent = NoParent /\ new.by = NoOne /\ new.stored
  BY DEF Hash, Plain, Options
<1>5. /\ h \in [Id -> Hash] /\ l \in [Id -> Place]
      /\ \A k \in Id : h[k] = IF k = j THEN new ELSE srv.hash[k]
      /\ \A k \in Id : l[k] = IF k = j THEN "wait" ELSE srv.place[k]
  BY <1>3, <1>4 DEF Place
<1>6. srv' = [srv EXCEPT !.hash = h, !.place = l]
  BY <1>1, <1>2 DEF Server
<1> HIDE DEF h, l, new
<1>7. /\ srv' \in Server /\ srv'.hash = h /\ srv'.place = l
      /\ srv'.deps = srv.deps /\ srv'.processed = srv.processed
  BY <1>1, <1>5, <1>6 DEF Server
<1>8. \A k \in Id : Stored(srv', k) <=> k = j \/ Stored(srv, k)
  BY <1>4, <1>5, <1>7 DEF Stored
<1>9. \A c, r \in Id : Child(srv', c, r) => Child(srv, c, r) /\ c # j
  <2> SUFFICES ASSUME NEW c \in Id, NEW r \in Id, Child(srv', c, r)
               PROVE  Child(srv, c, r) /\ c # j
    OBVIOUS
  <2>1. c # j
    BY <1>3, <1>4, <1>5, <1>7 DEF Child
  <2>2. h[c] = srv.hash[c] /\ Stored(srv, c) /\ srv.hash[c].parent = r
    BY <1>5, <1>7, <1>8, <2>1 DEF Child
  <2>3. srv.hash[c].by # NoOne
    BY <1>1, <1>3, <2>2 DEF Known
  <2>4. r # j
    BY <1>4, <1>5, <1>7, <2>2, <2>3 DEF Child
  <2> QED BY <1>5, <1>7, <1>8, <2>1, <2>2, <2>4 DEF Child
<1>10. \A c, r \in Id : Child(srv, c, r) => Child(srv', c, r) /\ c # j /\ r # j
  BY <1>2, <1>5, <1>7, <1>8 DEF Child
<1>11. /\ adds' \in [Producer -> Call]
       /\ \A x \in Producer :
            /\ CallOK(adds'[x])
            /\ adds'[x].at = adds[x].at /\ adds'[x].wrote = adds[x].wrote
            /\ adds'[x].tree = adds[x].tree /\ adds'[x].keys = adds[x].keys
            /\ adds'[x].next = adds[x].next
            /\ ~adds'[x].dirty =>
                 /\ ~adds[x].dirty
                 /\ adds[x].at \in {"check", "exec"} =>
                      \A i \in 1..Len(adds[x].keys) : adds[x].keys[i] # j
  <2>1. ASSUME NEW x \in Producer PROVE adds' \in [Producer -> Call]
    BY <1>1, <1>2, NoticeIs
  <2>2. adds' \in [Producer -> Call]
    <3>1. CASE Producer = {}
      BY <1>2, <3>1 DEF Notice
    <3> QED BY <2>1, <3>1
  <2> QED BY <1>1, <1>2, <2>2, NoticeIs, NoticeOK
<1>12. \A x \in Producer : Checked(srv', adds'[x])
  <2> SUFFICES ASSUME NEW x \in Producer PROVE Checked(srv', adds'[x])
    OBVIOUS
  <2>1. Checked(srv, adds[x]) /\ adds[x].keys \in Seq(Id)
    BY <1>1 DEF Call
  <2>2. \A i \in 1..Len(adds[x].keys) : adds[x].keys[i] \in Id
    BY <2>1
  <2> QED BY <1>8, <1>11, <2>1, <2>2 DEF Checked
<1>13. Known(srv', adds')
  <2> SUFFICES ASSUME NEW k \in Id
               PROVE  /\ ~Stored(srv', k) => /\ h[k] = NoHash /\ srv.deps[k] = {}
                                             /\ srv.processed[k] = {}
                      /\ h[k].by = NoOne => h[k].parent = NoParent
                      /\ h[k].by \in Producer => adds'[h[k].by].at = "returned"
    BY <1>7 DEF Known
  <2>1. CASE k = j
    BY <1>3, <1>4, <1>5, <1>8, <2>1
  <2>2. CASE k # j
    <3>1. h[k] = srv.hash[k]
      BY <1>5, <2>2
    <3> QED BY <1>1, <1>8, <1>11, <2>2, <3>1 DEF Known
  <2> QED BY <2>1, <2>2
<1>14. Waits(srv')
  BY <1>1, <1>5, <1>7, <1>9, <1>10 DEF Waits
<1>15. Blocked(srv', adds')
  <2> SUFFICES ASSUME NEW r \in Id, l[r] = "waiting-children", Full(adds', h[r].by)
               PROVE  /\ srv.deps[r] # {}
                      /\ \A c \in srv.deps[r] : Child(srv', c, r) /\ l[c] # "completed"
    BY <1>7 DEF Blocked
  <2>1. r # j /\ srv.place[r] = "waiting-children" /\ h[r] = srv.hash[r]
    BY <1>5
  <2>2. Full(adds, srv.hash[r].by)
    BY <1>11, <2>1 DEF Full
  <2>3. /\ srv.deps[r] # {}
        /\ \A c \in srv.deps[r] : c \in Id /\ Child(srv, c, r) /\ srv.place[c] # "completed"
    BY <1>1, <1>3, <2>1, <2>2 DEF Blocked
  <2> QED BY <1>5, <1>10, <2>3
<1>16. HalfRead(srv', adds', reader')
  <2>1. reader.at = "half" => reader.of \in Id
    BY <1>1 DEF Reader
  <2>2. ASSUME reader.at = "half", NEW c \in Id, h[c].parent = reader.of, h[c].by = reader.by
        PROVE  c \in reader.processed /\ c \notin srv.deps[reader.of]
    <3>1. c # j
      BY <1>3, <1>4, <1>5, <2>1, <2>2
    <3> QED BY <1>1, <1>5, <2>2, <3>1 DEF HalfRead
  <2> QED BY <1>1, <1>2, <1>7, <1>11, <2>2 DEF HalfRead
<1>17. Consistent(srv', adds', reader')
  BY <1>1, <1>2, <1>7, <1>11, <1>12, <1>13, <1>14, <1>15, <1>16 DEF Consistent
<1> QED BY <1>17 DEF IInv, Consistent, Known, Waits, Blocked, HalfRead, Child, Full, Stored, CallOK, Checked

-----------------------------------------------------------------------------
(* EXEC.                                                                    *)

(* What a call that has checked its keys knows when EXEC finds none written.*)
LEMMA KeysFree ==
  ASSUME IInv, NEW p \in Producer, adds[p].at = "exec", ~adds[p].dirty
  PROVE  /\ adds[p].tree \in Trees /\ adds[p].keys \in Seq(Id) /\ IsInjective(adds[p].keys)
         /\ Len(adds[p].tree) \in Nat /\ Len(adds[p].keys) = Len(adds[p].tree)
         /\ DOMAIN adds[p].tree = 1..Len(adds[p].tree)
         /\ DOMAIN adds[p].keys = 1..Len(adds[p].tree)
         /\ \A i \in 1..Len(adds[p].tree) :
              adds[p].keys[i] \in Id /\ ~Stored(srv, adds[p].keys[i])
<1> DEFINE a == adds[p]
<1>1. a \in Call /\ CallOK(a) /\ Checked(srv, a) /\ a.at = "exec" /\ ~a.dirty
  BY DEF IInv, Consistent
<1> HIDE DEF a
<1>2. a.tree \in Trees /\ a.keys \in Seq(Id)
  BY <1>1 DEF Call
<1>3. Len(a.keys) = Len(a.tree) /\ IsInjective(a.keys)
  BY <1>1 DEF CallOK
<1>4. Len(a.tree) \in Nat /\ DOMAIN a.tree = 1..Len(a.tree)
  BY <1>2, TreeType
<1>5. DOMAIN a.keys = 1..Len(a.tree) /\ \A i \in 1..Len(a.tree) : a.keys[i] \in Id
  BY <1>2, <1>3
<1>6. \A i \in 1..Len(a.tree) : ~Stored(srv, a.keys[i])
  BY <1>1, <1>3 DEF Checked
<1> QED BY <1>2, <1>3, <1>4, <1>5, <1>6 DEF a

(* Who is new, and what EXEC leaves of the others.                          *)
LEMMA TreeInserted ==
  ASSUME IInv, NEW p \in Producer, adds[p].at = "exec", ~adds[p].dirty
  PROVE  LET t == adds[p].tree
             keys == adds[p].keys
             u == InsertTree(p)
             new == Created(srv, u)
         IN  /\ u \in Server /\ u.processed = srv.processed
             /\ \A j \in Id : u.deps[j] = srv.deps[j] \union ChildKeys(p, j)
             /\ \A j \in Id : j \notin new =>
                  u.hash[j] = srv.hash[j] /\ u.place[j] = srv.place[j] /\ ChildKeys(p, j) = {}
             /\ \A j \in new : \E i \in 1..Len(t) :
                  keys[i] = j /\ u.hash[j] = NewHash(p, i) /\ u.place[j] = NewPlace(t, i)
             /\ \A j \in Id : j \in new => ~Stored(srv, j)
             /\ new \subseteq ToSet(keys)
             /\ (\A i \in 1..Len(t) : ~ScriptFails(p, i)) => new = ToSet(keys)
<1> DEFINE t == adds[p].tree
           keys == adds[p].keys
           u == InsertTree(p)
           nodes(j) == {i \in Inserted(p) : keys[i] = j}
           node(j) == CHOOSE i \in nodes(j) : TRUE
           h == [j \in Id |-> IF nodes(j) = {} THEN srv.hash[j] ELSE NewHash(p, node(j))]
           l == [j \in Id |-> IF nodes(j) = {} THEN srv.place[j] ELSE NewPlace(t, node(j))]
           d == [j \in Id |-> srv.deps[j] \union ChildKeys(p, j)]
<1>1. /\ t \in Trees /\ keys \in Seq(Id) /\ IsInjective(keys) /\ Len(t) \in Nat
      /\ DOMAIN t = 1..Len(t) /\ DOMAIN keys = 1..Len(t)
      /\ \A i \in 1..Len(t) : keys[i] \in Id /\ ~Stored(srv, keys[i])
  BY KeysFree
<1>2. \A i \in 1..Len(t) : t[i].up \in 0..(i - 1) /\ t[i].opts \in Options
  BY <1>1, TreeType
<1>3. srv \in Server /\ srv.hash \in [Id -> Hash] /\ srv.place \in [Id -> Place]
      /\ srv.deps \in [Id -> SUBSET Id]
  BY DEF IInv, Consistent, Server
<1>4. Inserted(p) = {i \in 1..Len(t) : ~ScriptFails(p, i)}
  BY <1>1 DEF Inserted
<1>5. \A i \in 1..Len(t) : t[i].up # 0 => t[i].up \in 1..Len(t)
  BY <1>1, <1>2
<1>6. \A i \in 1..Len(t) : NewHash(p, i) \in Hash /\ NewHash(p, i).stored
  <2> SUFFICES ASSUME NEW i \in 1..Len(t) PROVE NewHash(p, i) \in Hash /\ NewHash(p, i).stored
    OBVIOUS
  <2>1. (IF t[i].up = 0 THEN NoParent ELSE keys[t[i].up]) \in Id \union {NoParent}
    BY <1>1, <1>5
  <2>2. t[i].opts \in Options
    BY <1>2
  <2> QED BY <2>1, <2>2 DEF NewHash, Hash
<1>7. \A i \in 1..Len(t) : NewPlace(t, i) \in Place
  <2>1. "waiting-children" \in Place
    BY DEF Place
  <2> QED BY <2>1, PlaceForType DEF NewPlace
<1>8. \A j \in Id : ChildKeys(p, j) \subseteq Id
  BY <1>1 DEF ChildKeys
<1>9. \A j \in Id : nodes(j) # {} =>
        node(j) \in Inserted(p) /\ keys[node(j)] = j /\ node(j) \in 1..Len(t)
  <2> SUFFICES ASSUME NEW j \in Id, nodes(j) # {} PROVE node(j) \in nodes(j)
    BY <1>4
  <2> QED OBVIOUS
<1>10. u = [srv EXCEPT !.hash = h, !.place = l, !.deps = d]
  BY DEF InsertTree
<1> HIDE DEF node
<1>11. h \in [Id -> Hash] /\ l \in [Id -> Place] /\ d \in [Id -> SUBSET Id]
  <2>1. h \in [Id -> Hash]
    BY <1>3, <1>6, <1>9
  <2>2. l \in [Id -> Place]
    BY <1>3, <1>7, <1>9
  <2>3. d \in [Id -> SUBSET Id]
    BY <1>3, <1>8
  <2> QED BY <2>1, <2>2, <2>3
<1>12. \A j \in Id : nodes(j) # {} => ~Stored(srv, j)
  BY <1>1, <1>4
<1>13. \A j \in Id : nodes(j) = {} => ChildKeys(p, j) = {}
  <2> SUFFICES ASSUME NEW j \in Id, NEW k \in DOMAIN t, t[k].up # 0, keys[t[k].up] = j
               PROVE  nodes(j) # {}
    BY DEF ChildKeys
  <2>1. t[k].up \in 1..Len(t)
    BY <1>1, <1>5
  <2>2. Children(t, t[k].up) # {}
    BY DEF Children
  <2>3. t[k].up \in Inserted(p)
    BY <1>4, <2>1, <2>2 DEF ScriptFails
  <2> QED BY <2>3
<1>14. \A j \in Id : /\ nodes(j) = {} => h[j] = srv.hash[j] /\ l[j] = srv.place[j]
                     /\ nodes(j) # {} => /\ h[j] = NewHash(p, node(j))
                                         /\ l[j] = NewPlace(t, node(j))
                     /\ d[j] = srv.deps[j] \union ChildKeys(p, j)
  OBVIOUS
<1> HIDE DEF h, l, d, u
<1>15. u \in Server /\ u.hash = h /\ u.place = l /\ u.deps = d /\ u.processed = srv.processed
  BY <1>3, <1>10, <1>11 DEF Server
<1> DEFINE new == Created(srv, u)
<1>16. \A j \in Id : j \in new <=> nodes(j) # {}
  <2>1. \A j \in Id : nodes(j) # {} => Stored(u, j)
    BY <1>6, <1>9, <1>14, <1>15 DEF Stored
  <2>2. \A j \in Id : nodes(j) = {} => (Stored(u, j) <=> Stored(srv, j))
    BY <1>14, <1>15 DEF Stored
  <2> QED BY <1>12, <2>1, <2>2 DEF Created
<1>17. new \subseteq Id
  BY DEF Created
<1>18. \A j \in Id : nodes(j) # {} => j \in ToSet(keys)
  BY <1>1, <1>9 DEF ToSet
<1>19. (\A i \in 1..Len(t) : ~ScriptFails(p, i)) => \A j \in ToSet(keys) : j \in Id /\ nodes(j) # {}
  BY <1>1, <1>4 DEF ToSet
<1> HIDE DEF new, nodes
<1>20. /\ \A j \in Id : u.deps[j] = srv.deps[j] \union ChildKeys(p, j)
       /\ \A j \in Id : j \notin new =>
            u.hash[j] = srv.hash[j] /\ u.place[j] = srv.place[j] /\ ChildKeys(p, j) = {}
       /\ \A j \in new : \E i \in 1..Len(t) :
            keys[i] = j /\ u.hash[j] = NewHash(p, i) /\ u.place[j] = NewPlace(t, i)
       /\ \A j \in Id : j \in new => ~Stored(srv, j)
       /\ new \subseteq ToSet(keys)
       /\ (\A i \in 1..Len(t) : ~ScriptFails(p, i)) => new = ToSet(keys)
  BY <1>9, <1>12, <1>13, <1>14, <1>15, <1>16, <1>17, <1>18, <1>19
<1> QED BY <1>15, <1>20 DEF new, u

(* The tree is consistent with itself, and meets nothing of the others.     *)
LEMMA ExecConsistent ==
  ASSUME IInv, NEW p \in Producer, Exec(p)
  PROVE  IInv'
<1>1. /\ srv \in Server /\ adds \in [Producer -> Call] /\ reader \in Reader
      /\ \A x \in Producer : CallOK(adds[x]) /\ Checked(srv, adds[x])
      /\ Known(srv, adds) /\ Waits(srv) /\ Blocked(srv, adds) /\ HalfRead(srv, adds, reader)
  BY DEF IInv, Consistent
<1>2. adds[p].at = "exec" /\ reader' = reader
  BY DEF Exec
<1>3. CASE adds[p].dirty
  <2>1. adds' = Return(p, "aborted") /\ srv' = srv
    BY <1>3 DEF Exec
  <2> QED BY <1>1, <1>2, <2>1, CallReturns
<1>4. CASE ~adds[p].dirty
  <2> DEFINE t == adds[p].tree
             keys == adds[p].keys
             u == InsertTree(p)
             new == Created(srv, u)
  <2>1. /\ t \in Trees /\ keys \in Seq(Id) /\ IsInjective(keys) /\ Len(t) \in Nat
        /\ Len(keys) = Len(t) /\ DOMAIN t = 1..Len(t) /\ DOMAIN keys = 1..Len(t)
        /\ \A i \in 1..Len(t) : keys[i] \in Id /\ ~Stored(srv, keys[i])
    BY <1>2, <1>4, KeysFree
  <2>2. /\ u \in Server /\ u.processed = srv.processed
        /\ \A j \in Id : u.deps[j] = srv.deps[j] \union ChildKeys(p, j)
        /\ \A j \in Id : j \notin new =>
             u.hash[j] = srv.hash[j] /\ u.place[j] = srv.place[j] /\ ChildKeys(p, j) = {}
        /\ \A j \in new : \E i \in 1..Len(t) :
             keys[i] = j /\ u.hash[j] = NewHash(p, i) /\ u.place[j] = NewPlace(t, i)
        /\ \A j \in Id : j \in new => ~Stored(srv, j)
        /\ new \subseteq ToSet(keys)
        /\ (\A i \in 1..Len(t) : ~ScriptFails(p, i)) => new = ToSet(keys)
    BY <1>2, <1>4, TreeInserted
  <2>3. PICK outcome \in {ValidateExecResult(p), "io"} :
          /\ srv' = u
          /\ adds' = Notice([Return(p, outcome) EXCEPT ![p].wrote = new], new)
    BY <1>4 DEF Exec
  <2> DEFINE c == [adds[p] EXCEPT !.at = "returned", !.outcome = outcome, !.wrote = new]
             b == [adds EXCEPT ![p] = c]
  <2>4. adds' = Notice(b, new)
    BY <1>1, <2>3 DEF Return
  <2>5. new \subseteq Id /\ outcome \in Outcome /\ outcome \in {"ok", "script_error", "io"}
    BY <2>3 DEF Created, ValidateExecResult, Outcome
  <2>6. \A i \in 1..Len(t) : /\ NewHash(p, i).stored /\ NewHash(p, i).by = p
                             /\ t[i].up # 0 => /\ t[i].up \in 1..Len(t)
                                               /\ NewHash(p, i).parent = keys[t[i].up]
                             /\ t[i].up = 0 => NewHash(p, i).parent = NoParent
    <3>1. \A i \in 1..Len(t) : t[i].up # 0 => t[i].up \in 1..Len(t)
      <4>1. \A i \in 1..Len(t) : t[i].up \in 0..(i - 1)
        BY <2>1, TreeType
      <4> QED BY <2>1, <4>1
    <3> QED BY <3>1 DEF NewHash
  <2>7. NoParent \notin Id /\ NoOne \notin Producer
    BY FlowAssumption DEF Id, NoParent
  <2> HIDE DEF u, new
  (* The calls. *)
  <2>8. /\ c \in Call /\ c.at = "returned" /\ c.outcome = outcome /\ c.wrote = new
        /\ c.keys = keys /\ c.tree = t
    <3>1. adds[p] \in Call
      BY <1>1
    <3> QED BY <2>5, <3>1 DEF Call
  <2> HIDE DEF c
  <2>9. CallOK(c)
    <3>1. outcome = "ok" => new = ToSet(keys)
      BY <2>1, <2>2, <2>3 DEF ValidateExecResult
    <3>2. outcome = "ok" => Cardinality(new) = Len(t)
      BY <2>1, <3>1, KeysCounted
    <3> QED BY <2>5, <2>8, <3>1, <3>2 DEF CallOK
  <2>10. /\ b \in [Producer -> Call] /\ \A x \in Producer : CallOK(b[x])
         /\ b[p] = c /\ \A x \in Producer : x # p => b[x] = adds[x]
    BY <1>1, <2>8, <2>9
  <2> HIDE DEF b
  <2>11. /\ adds' \in [Producer -> Call]
         /\ \A x \in Producer :
              /\ CallOK(adds'[x])
              /\ adds'[x].at = b[x].at /\ adds'[x].wrote = b[x].wrote
              /\ adds'[x].tree = b[x].tree /\ adds'[x].keys = b[x].keys
              /\ adds'[x].next = b[x].next
              /\ ~adds'[x].dirty =>
                   /\ ~b[x].dirty
                   /\ b[x].at \in {"check", "exec"} =>
                        \A i \in 1..Len(b[x].keys) : b[x].keys[i] \notin new
    <3>1. adds' \in [Producer -> Call] /\ \A x \in Producer : CallOK(adds'[x])
      BY <2>4, <2>10, NoticeIs, NoticeOK
    <3> QED BY <2>4, <2>10, <3>1, NoticeIs
  <2>12. \A x \in Producer :
           /\ adds[x].at = "returned" => adds'[x].at = "returned" /\ x # p
           /\ x # p => (Full(adds', x) <=> Full(adds, x))
    BY <1>2, <2>10, <2>11 DEF Full
  <2>13. adds'[p].at = "returned" /\ adds'[p].wrote = new /\ adds'[p].tree = t
    BY <2>8, <2>10, <2>11
  (* The jobs. *)
  <2>14. \A j \in Id : j \in new =>
           \E i \in 1..Len(t) : /\ keys[i] = j /\ u.hash[j] = NewHash(p, i)
                                /\ u.place[j] = NewPlace(t, i)
    BY <2>2
  <2>15. ASSUME NEW j \in Id, j \notin new
         PROVE  /\ u.hash[j] = srv.hash[j] /\ u.place[j] = srv.place[j]
                /\ u.deps[j] = srv.deps[j] /\ ChildKeys(p, j) = {}
    <3>1. u.deps[j] = srv.deps[j] \union ChildKeys(p, j) /\ ChildKeys(p, j) = {}
      BY <2>2, <2>15
    <3>2. u.deps[j] = srv.deps[j]
      BY <3>1
    <3> QED BY <2>2, <2>15, <3>1, <3>2
  <2>16. \A j \in Id : /\ j \in new => u.hash[j].stored /\ u.hash[j].by = p
                       /\ Stored(u, j) <=> Stored(srv, j) \/ j \in new
                       /\ srv.hash[j].by # p
    <3>1. \A j \in Id : srv.hash[j].by # p
      BY <1>1, <1>2 DEF Known
    <3> QED BY <2>2, <2>6, <2>14, <3>1 DEF Stored
  <2>17. \A r, k \in Id : k \in ChildKeys(p, r) => r \in new /\ ~Stored(srv, k) /\
           \E i \in 1..Len(t) : keys[i] = k /\ t[i].up # 0 /\ keys[t[i].up] = r
    <3> SUFFICES ASSUME NEW r \in Id, NEW k \in Id, k \in ChildKeys(p, r)
                 PROVE  r \in new /\ ~Stored(srv, k) /\
                        \E i \in 1..Len(t) : keys[i] = k /\ t[i].up # 0 /\ keys[t[i].up] = r
      OBVIOUS
    <3>1. PICK i \in 1..Len(t) : keys[i] = k /\ t[i].up # 0 /\ keys[t[i].up] = r
      BY <2>1 DEF ChildKeys
    <3>2. r \in new
      BY <2>2
    <3> QED BY <2>1, <3>1, <3>2
  <2>18. ASSUME NEW i \in 1..Len(t), t[i].up # 0
         PROVE  keys[i] \in ChildKeys(p, keys[t[i].up]) /\ Children(t, t[i].up) # {}
    BY <2>1, <2>18 DEF ChildKeys, Children
  <2>19. \A i, k \in 1..Len(t) : keys[i] = keys[k] => i = k
    BY <2>1 DEF IsInjective
  <2>20. ASSUME NEW k \in Id, k \in new, NEW r \in Id, u.hash[k].parent = r
         PROVE  /\ k \in u.deps[r] /\ r \in new /\ u.place[r] = "waiting-children"
                /\ u.hash[r].by = p
    <3>1. PICK i \in 1..Len(t) : keys[i] = k /\ u.hash[k] = NewHash(p, i)
      BY <2>14, <2>20
    <3>2. t[i].up # 0 /\ t[i].up \in 1..Len(t) /\ keys[t[i].up] = r
      BY <2>6, <2>7, <2>20, <3>1
    <3>3. k \in ChildKeys(p, r) /\ Children(t, t[i].up) # {}
      BY <2>18, <3>1, <3>2
    <3>4. r \in new
      BY <2>17, <3>3
    <3>5. PICK n \in 1..Len(t) : keys[n] = r /\ u.place[r] = NewPlace(t, n)
      BY <2>14, <3>4
    <3>6. n = t[i].up
      BY <2>19, <3>2, <3>5
    <3> QED BY <2>2, <2>16, <3>3, <3>4, <3>5, <3>6 DEF NewPlace
  <2>21. ASSUME NEW k \in Id, k \notin new, NEW r \in Id, Child(u, k, r)
         PROVE  Child(srv, k, r) /\ r \notin new
    BY <2>2, <2>16, <2>21 DEF Child
  <2>22. ASSUME NEW k \in Id, NEW r \in Id, Child(srv, k, r)
         PROVE  Child(u, k, r) /\ k \notin new /\ r \notin new
    BY <2>2, <2>16, <2>22 DEF Child
  <2>23. \A x \in Producer : Checked(u, adds'[x])
    <3> SUFFICES ASSUME NEW x \in Producer PROVE Checked(u, adds'[x])
      OBVIOUS
    <3>1. CASE x = p
      BY <2>13, <3>1 DEF Checked
    <3>2. CASE x # p
      <4>1. Checked(srv, adds[x]) /\ adds[x].keys \in Seq(Id) /\ b[x] = adds[x]
        BY <1>1, <2>10, <3>2 DEF Call
      <4>2. \A i \in 1..Len(adds[x].keys) : adds[x].keys[i] \in Id
        BY <4>1
      <4> QED BY <2>11, <2>16, <4>1, <4>2 DEF Checked
    <3> QED BY <3>1, <3>2
  <2>24. Known(u, adds')
    <3> SUFFICES ASSUME NEW j \in Id
                 PROVE  /\ ~Stored(u, j) => /\ u.hash[j] = NoHash /\ u.deps[j] = {}
                                            /\ u.processed[j] = {}
                        /\ u.hash[j].by = NoOne => u.hash[j].parent = NoParent
                        /\ u.hash[j].by \in Producer => adds'[u.hash[j].by].at = "returned"
      BY DEF Known
    <3>1. CASE j \in new
      BY <2>7, <2>13, <2>16, <3>1
    <3>2. CASE j \notin new
      <4>1. u.hash[j] = srv.hash[j] /\ u.deps[j] = srv.deps[j]
        BY <2>15, <3>2
      <4> QED BY <1>1, <2>2, <2>12, <2>16, <3>2, <4>1 DEF Known
    <3> QED BY <3>1, <3>2
  <2>25. Waits(u)
    <3>1. ASSUME NEW r \in Id, NEW k \in Id, k \in u.deps[r]
          PROVE  k \notin u.processed[r]
      <4>1. CASE k \in srv.deps[r]
        BY <1>1, <2>2, <4>1 DEF Waits
      <4>2. CASE k \in ChildKeys(p, r)
        <5>1. ~Stored(srv, r)
          BY <2>2, <2>17, <4>2
        <5> QED BY <1>1, <2>2, <5>1 DEF Known
      <4> QED BY <2>2, <3>1, <4>1, <4>2
    <3>2. ASSUME NEW r \in Id, NEW k \in Id, Child(u, k, r), k \notin u.processed[r]
          PROVE  k \in u.deps[r] /\ u.place[r] = "waiting-children"
      <4>1. CASE k \in new
        BY <2>20, <3>2, <4>1 DEF Child
      <4>2. CASE k \notin new
        <5>1. Child(srv, k, r) /\ r \notin new
          BY <2>21, <3>2, <4>2
        <5>2. k \in srv.deps[r] /\ srv.place[r] = "waiting-children"
          BY <1>1, <2>2, <3>2, <5>1 DEF Waits
        <5> QED BY <2>2, <5>1, <5>2
      <4> QED BY <4>1, <4>2
    <3> QED BY <3>1, <3>2 DEF Waits
  <2>26. Blocked(u, adds')
    <3>1. ASSUME NEW r \in Id, u.place[r] = "waiting-children", Full(adds', u.hash[r].by)
          PROVE  /\ u.deps[r] # {}
                 /\ \A k \in u.deps[r] : Child(u, k, r) /\ u.place[k] # "completed"
      <4>1. CASE r \notin new
        <5>1. u.hash[r] = srv.hash[r] /\ u.place[r] = srv.place[r] /\ u.deps[r] = srv.deps[r]
          BY <2>15, <4>1
        <5>2. Full(adds, srv.hash[r].by)
          BY <2>12, <2>16, <3>1, <5>1 DEF Full
        <5>3. /\ srv.deps[r] # {}
              /\ \A k \in srv.deps[r] : k \in Id /\ Child(srv, k, r) /\ srv.place[k] # "completed"
          BY <1>1, <3>1, <5>1, <5>2 DEF Blocked, Server
        <5> QED BY <2>2, <2>22, <5>1, <5>3
      <4>2. CASE r \in new
        <5>1. Cardinality(new) = Len(t) /\ u.hash[r].by = p /\ ~Stored(srv, r)
          BY <2>2, <2>13, <2>16, <3>1, <4>2 DEF Full
        <5>2. new = ToSet(keys)
          <6>1. IsFiniteSet(ToSet(keys)) /\ Cardinality(ToSet(keys)) = Len(t)
            BY <2>1, KeysCounted
          <6> QED BY <2>2, <5>1, <6>1, FS_Subset
        <5>3. \A i \in 1..Len(t) : keys[i] \in new
          BY <2>1, <5>2 DEF ToSet
        <5>4. PICK n \in 1..Len(t) : keys[n] = r /\ u.place[r] = NewPlace(t, n)
          BY <2>14, <4>2
        <5>5. Children(t, n) # {}
          BY <3>1, <5>4, PlaceForType DEF NewPlace
        <5>6. PICK i \in 1..Len(t) : t[i].up = n
          BY <2>1, <5>5 DEF Children
        <5>7. keys[i] \in ChildKeys(p, r)
          <6>1. t[i].up # 0
            BY <5>6
          <6> QED BY <2>18, <5>4, <5>6, <6>1
        <5>8. u.deps[r] # {}
          BY <2>2, <5>7
        <5>9. ASSUME NEW k \in u.deps[r]
              PROVE  Child(u, k, r) /\ u.place[k] # "completed"
          <6>1. k \in Id /\ k \in ChildKeys(p, r)
            BY <1>1, <2>2, <5>1 DEF Known, Server
          <6>2. PICK x \in 1..Len(t) : keys[x] = k /\ t[x].up # 0 /\ keys[t[x].up] = r
            BY <2>17, <6>1
          <6>3. k \in new
            BY <5>3, <6>2
          <6>4. PICK y \in 1..Len(t) : /\ keys[y] = k /\ u.hash[k] = NewHash(p, y)
                                       /\ u.place[k] = NewPlace(t, y)
            BY <2>14, <6>1, <6>3
          <6>5. x = y
            BY <2>19, <6>2, <6>4
          <6>6. u.hash[k].parent = r /\ u.hash[k].by = p
            BY <2>6, <6>2, <6>4, <6>5
          <6>7. Child(u, k, r)
            BY <2>16, <4>2, <5>1, <6>1, <6>3, <6>6 DEF Child
          <6> QED BY <6>4, <6>7, PlaceForType DEF NewPlace
        <5> QED BY <5>8, <5>9
      <4> QED BY <4>1, <4>2
    <3> QED BY <3>1 DEF Blocked
  <2>27. HalfRead(u, adds', reader)
    <3> SUFFICES ASSUME reader.at = "half"
                 PROVE  /\ reader.by \in Producer /\ adds'[reader.by].at = "returned"
                        /\ \A k \in Id : u.hash[k].parent = reader.of /\ u.hash[k].by = reader.by =>
                             k \in reader.processed /\ k \notin u.deps[reader.of]
      BY DEF HalfRead
    <3>1. /\ reader.by \in Producer /\ adds[reader.by].at = "returned" /\ reader.of \in Id
          /\ \A k \in Id : srv.hash[k].parent = reader.of /\ srv.hash[k].by = reader.by =>
               k \in reader.processed /\ k \notin srv.deps[reader.of]
      BY <1>1 DEF HalfRead, Reader
    <3>2. adds'[reader.by].at = "returned" /\ reader.by # p
      BY <2>12, <3>1
    <3>3. ASSUME NEW k \in Id, u.hash[k].parent = reader.of, u.hash[k].by = reader.by
          PROVE  k \in reader.processed /\ k \notin u.deps[reader.of]
      <4>1. k \notin new /\ u.hash[k] = srv.hash[k]
        BY <2>2, <2>16, <3>2, <3>3
      <4>2. Stored(srv, k)
        <5>1. NoHash.by = NoOne
          BY DEF NoHash
        <5> QED BY <1>1, <2>7, <3>1, <3>3, <4>1, <5>1 DEF Known
      <4> QED BY <2>2, <2>17, <3>1, <3>3, <4>1, <4>2
    <3> QED BY <3>1, <3>2, <3>3
  <2>28. Consistent(srv', adds', reader')
    BY <1>1, <1>2, <2>2, <2>3, <2>11, <2>23, <2>24, <2>25, <2>26, <2>27 DEF Consistent
  <2> QED BY <2>28 DEF IInv, Consistent, Known, Waits, Blocked, HalfRead, Child, Full, Stored, CallOK, Checked
<1> QED BY <1>3, <1>4

-----------------------------------------------------------------------------
(* The handler of a parent, and all steps together.                         *)

LEMMA ReadConsistent ==
  ASSUME IInv, \/ \E j \in Observed : ReadProcessed(j)
               \/ ReadUnprocessed
  PROVE  IInv'
<1>1. /\ srv \in Server /\ adds \in [Producer -> Call] /\ reader \in Reader
      /\ \A p \in Producer : CallOK(adds[p]) /\ Checked(srv, adds[p])
      /\ Known(srv, adds) /\ Waits(srv) /\ Blocked(srv, adds)
  BY DEF IInv, Consistent
<1>2. srv' = srv /\ adds' = adds
  BY DEF ReadProcessed, ReadUnprocessed
<1>3. reader' \in Reader /\ HalfRead(srv, adds, reader')
  <2>1. CASE ReadUnprocessed
    <3>1. reader' = NotReading /\ 1 \in Id
      BY <2>1, FlowAssumption DEF ReadUnprocessed, Id
    <3> QED BY <3>1 DEF NotReading, Reader, HalfRead
  <2>2. CASE \E j \in Observed : ReadProcessed(j)
    <3>1. PICK j \in Id : ReadProcessed(j)
      BY <2>2, FlowAssumption
    <3>2. /\ srv.place[j] = "active" /\ srv.hash[j].by \in Producer
          /\ reader' = [at |-> "half", of |-> j, by |-> srv.hash[j].by,
                        processed |-> srv.processed[j]]
      BY <3>1 DEF ReadProcessed
    <3>3. srv.processed[j] \in SUBSET Id
      BY <1>1 DEF Server
    <3>4. reader' \in Reader
      BY <3>2, <3>3 DEF Reader
    <3>5. \A k \in Id : srv.hash[k].by \in Producer => Stored(srv, k)
      <4>1. NoHash.by \notin Producer
        BY FlowAssumption DEF NoHash
      <4> QED BY <1>1, <4>1 DEF Known
    <3>6. ASSUME NEW c \in Id, srv.hash[c].parent = j, srv.hash[c].by = srv.hash[j].by
          PROVE  c \in srv.processed[j] /\ c \notin srv.deps[j]
      <4>1. Child(srv, c, j)
        BY <3>2, <3>5, <3>6 DEF Child
      <4> QED BY <1>1, <3>2, <4>1 DEF Waits
    <3>7. adds[srv.hash[j].by].at = "returned"
      BY <1>1, <3>2 DEF Known
    <3> QED BY <3>2, <3>4, <3>6, <3>7 DEF HalfRead
  <2> QED BY <2>1, <2>2
<1>4. Consistent(srv', adds', reader')
  BY <1>1, <1>2, <1>3 DEF Consistent
<1> QED BY <1>4 DEF IInv, Consistent, Known, Waits, Blocked, HalfRead, Child, Full, Stored, CallOK, Checked

LEMMA StepConsistent == IInv /\ [Next]_vars => IInv'
<1> SUFFICES ASSUME IInv, [Next]_vars PROVE IInv'
  OBVIOUS
<1>1. ASSUME NEW p \in Producer,
             PrepareNodes(p) \/ Watch(p) \/ EnsureJobKeyDoesNotExist(p) \/ LoseConnection(p)
      PROVE  IInv'
  BY <1>1, CallConsistent
<1>2. ASSUME NEW p \in Producer, Exec(p) PROVE IInv'
  BY <1>2, ExecConsistent
<1>3. ASSUME NEW j \in Id, MoveToActive(j) \/ MoveToFailed(j) \/ StallTooOften(j) \/ RetryJob(j)
      PROVE  IInv'
  <2>1. {"wait", "active", "failed", "lost"} \subseteq Place \ {"waiting-children", "completed"}
    BY DEF Place
  <2>2. CASE MoveToActive(j)
    BY <2>1, <2>2, JobMoves DEF MoveToActive
  <2>3. CASE MoveToFailed(j)
    BY <2>1, <2>3, JobMoves DEF MoveToFailed
  <2>4. CASE StallTooOften(j)
    BY <2>1, <2>4, JobMoves DEF StallTooOften
  <2>5. CASE RetryJob(j)
    BY <2>1, <2>5, JobMoves DEF RetryJob
  <2> QED BY <1>3, <2>2, <2>3, <2>4, <2>5
<1>4. ASSUME NEW j \in Id, MoveToCompleted(j) PROVE IInv'
  BY <1>4, CompletedConsistent
<1>5. ASSUME NEW j \in Id, RemoveJob(j) PROVE IInv'
  BY <1>5, RemovedConsistent
<1>6. ASSUME NEW j \in PlainIds, AddJob(j) PROVE IInv'
  BY <1>6, AddedConsistent, FlowAssumption
<1>7. CASE (\E j \in Observed : ReadProcessed(j)) \/ ReadUnprocessed
  BY <1>7, ReadConsistent
<1>8. CASE UNCHANGED vars
  <2>1. srv' = srv /\ adds' = adds /\ reader' = reader
    BY <1>8 DEF vars
  <2>2. Consistent(srv', adds', reader')
    BY <2>1 DEF IInv
  <2> QED BY <2>2 DEF IInv, Consistent, Known, Waits, Blocked, HalfRead, Child, Full, Stored, CallOK, Checked
<1> QED BY <1>1, <1>2, <1>3, <1>4, <1>5, <1>6, <1>7, <1>8, FlowAssumption DEF Next

LEMMA SpecConsistent == Spec => []IInv
<1> QED BY InitConsistent, StepConsistent, PTL DEF Spec

-----------------------------------------------------------------------------
(* What follows.                                                            *)

(* Every key of the flows' jobs, every call of add and the read of a        *)
(* parent's handler keep their types.                                       *)
THEOREM FlowTypeCorrect == Spec => []TypeOK
<1>1. IInv => TypeOK
  BY DEF IInv, Consistent, TypeOK
<1> QED BY <1>1, SpecConsistent, PTL

(* FlowProducer::add returns Ok exactly for a tree whose every job it has   *)
(* written, and one that is refused for its keys, before WATCH, by EXISTS   *)
(* or by EXEC, has written nothing, whatever other producers and clients do *)
(* with those ids meanwhile.                                                *)
THEOREM FlowWholeHolds == Spec => []FlowWhole
<1>1. IInv => FlowWhole
  BY DEF IInv, Consistent, CallOK, FlowWhole, Keys
<1> QED BY <1>1, SpecConsistent, PTL

(* A parent can not be claimed while a child of its flow has not completed, *)
(* for any trees, and whichever jobs are removed, added anew or retried.    *)
THEOREM ParentWaitsHolds == Spec => []ParentWaits
<1>1. IInv => ParentWaits
  BY DEF IInv, Consistent, Waits, Child, ParentWaits, ChildOf
<1> QED BY <1>1, SpecConsistent, PTL

(* A blocked parent of a flow that was written in full has something to     *)
(* wait for, and all of it are children of that flow that have not          *)
(* completed: moveToFinished will find it in their parentKey.               *)
THEOREM BlockedByChildrenHolds == Spec => []BlockedByChildren
<1>1. IInv => BlockedByChildren
  BY DEF IInv, Consistent, Blocked, Child, Full, BlockedByChildren, ChildOf, InFull
<1> QED BY <1>1, SpecConsistent, PTL

(* The values that Job::get_children_values returns are those of all the    *)
(* children of the flow that still exist, although HGETALL and SMEMBERS     *)
(* are two commands.                                                        *)
THEOREM ChildrenValuesCompleteHolds == Spec => ChildrenValuesComplete
<1> DEFINE Complete == reader.at = "half" /\ reader' = NotReading =>
             \A c \in Id :
               /\ srv.hash[c].parent = reader.of /\ srv.hash[c].by = reader.by
               => c \in reader.processed /\ c \notin srv.deps[reader.of]
<1>1. IInv => [Complete]_vars
  BY DEF IInv, Consistent, HalfRead
<1> QED BY <1>1, SpecConsistent, PTL DEF ChildrenValuesComplete

(* The EXEC of a flow leaves every job alone that exists: WATCH and EXISTS  *)
(* make addJob find none of them.                                           *)
THEOREM FlowAddsOnlyNewJobsHolds == Spec => FlowAddsOnlyNewJobs
<1> DEFINE Kept == \A j \in Id : Stored(srv, j) =>
             /\ srv'.hash[j] = srv.hash[j] /\ srv'.place[j] = srv.place[j]
             /\ srv'.deps[j] = srv.deps[j]
           OnlyNew == \A p \in Producer :
             adds[p].at = "exec" /\ adds'[p].at = "returned" => Kept
<1>1. ASSUME IInv, Next PROVE OnlyNew
  <2> SUFFICES ASSUME NEW p \in Producer, adds[p].at = "exec", adds'[p].at = "returned"
               PROVE  Kept
    OBVIOUS
  <2>1. adds \in [Producer -> Call]
    BY <1>1 DEF IInv, Consistent
  <2>2. ASSUME NEW J, adds' = Notice(adds, J) PROVE FALSE
    BY <2>1, <2>2, NoticeIs
  <2>3. CASE UNCHANGED srv
    BY <2>3
  <2>4. CASE ~UNCHANGED srv /\ ~UNCHANGED adds
    <3>1. ASSUME NEW x \in Producer, Exec(x) PROVE Kept
      <4>1. srv' = InsertTree(x) /\ adds[x].at = "exec" /\ ~adds[x].dirty
        BY <2>4, <3>1 DEF Exec
      <4> DEFINE new == Created(srv, InsertTree(x))
      <4>2. ASSUME NEW j \in Id, Stored(srv, j)
            PROVE  /\ InsertTree(x).hash[j] = srv.hash[j] /\ InsertTree(x).place[j] = srv.place[j]
                   /\ InsertTree(x).deps[j] = srv.deps[j]
        <5>1. j \notin new
          BY <4>2 DEF Created
        <5>2. /\ InsertTree(x).deps[j] = srv.deps[j] \union ChildKeys(x, j)
              /\ InsertTree(x).hash[j] = srv.hash[j] /\ InsertTree(x).place[j] = srv.place[j]
              /\ ChildKeys(x, j) = {}
          BY <1>1, <4>1, <5>1, TreeInserted
        <5> QED BY <5>2
      <4> QED BY <4>1, <4>2
    <3>2. ASSUME NEW x \in Producer, PrepareNodes(x) PROVE FALSE
      <4>1. adds[x].at = "start" /\ \A y \in Producer : y # x => adds'[y] = adds[y]
        BY <2>1, <3>2 DEF PrepareNodes, Return
      <4> QED BY <4>1
    <3>3. ASSUME NEW j \in Id, AddJob(j) \/ RemoveJob(j) PROVE FALSE
      BY <2>2, <3>3 DEF AddJob, RemoveJob
    <3>4. PlainIds \subseteq Id
      BY FlowAssumption
    <3> QED BY <1>1, <2>4, <3>1, <3>2, <3>3, <3>4
            DEF Next, Watch, EnsureJobKeyDoesNotExist, LoseConnection, MoveToActive,
                MoveToCompleted, MoveToFailed, StallTooOften, RetryJob, ReadProcessed,
                ReadUnprocessed
  <2> QED BY <2>3, <2>4
<1>2. IInv /\ [Next]_vars => [OnlyNew]_vars
  BY <1>1
<1> QED BY <1>2, SpecConsistent, PTL DEF Spec, FlowAddsOnlyNewJobs
=============================================================================
