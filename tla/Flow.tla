-------------------------------- MODULE Flow --------------------------------
(***************************************************************************)
(* Flows: trees of jobs in which a parent runs after its children.          *)
(* FlowProducer::add writes a tree with WATCH, EXISTS, MULTI and EXEC; the  *)
(* scripts that finish or remove a child take it out of its parent's        *)
(* dependency set and release the parent when that set becomes empty.       *)
(*                                                                          *)
(* Producers, workers and clients share the server only.  A command, a      *)
(* script or an EXEC is one step.  Of a queue, this module keeps the place  *)
(* each job is in (module JobQueue has the lists, locks and retries).       *)
(***************************************************************************)
EXTENDS Naturals, FiniteSets, Sequences, SequencesExt

CONSTANTS
  Producer,   \* calls of FlowProducer::add
  MaxId,      \* bound: job ids are 1..MaxId
  Trees,      \* the trees that producers are given
  PlainIds,   \* bound: the ids that Queue::add uses
  Observed,   \* bound: the jobs whose dependencies are read
  Stalling,   \* bound: the jobs that may exceed their stalls
  NoOne       \* not a producer: who added a plain job

Id == 1..MaxId
AutoId == 0    \* FlowJob::opts.job_id is None
NoParent == 0  \* a job without parentKey

Options == [priority : BOOLEAN, delay : BOOLEAN, dedup : BOOLEAN]

Plain == [priority |-> FALSE, delay |-> FALSE, dedup |-> FALSE]

(* A tree is the sequence of its nodes in the order in which the code walks *)
(* it, parents first; up is the position of the parent, 0 at the root.      *)
Node == [id : Id \union {AutoId}, up : Nat, opts : Options]

IsTree(t) ==
  /\ t \in Seq(Node) /\ t # <<>> /\ t[1].up = 0
  /\ \A i \in 2..Len(t) : t[i].up \in 1..(i - 1)

ASSUME FlowAssumption ==
  /\ MaxId \in Nat \ {0}
  /\ PlainIds \subseteq Id /\ Observed \subseteq Id /\ Stalling \subseteq Id
  /\ NoOne \notin Producer
  /\ \A t \in Trees : IsTree(t)

VARIABLES
  srv,     \* the server's keys
  adds,    \* each producer's call of add
  reader   \* a handler's call of Job::get_dependencies

vars == <<srv, adds, reader>>

Place == { "none", "wait", "prioritized", "delayed", "waiting-children",
           "active", "completed", "failed",
           "lost" }   \* in no list or set

(* A job's hash, and who added it.                                          *)
Hash == [stored : BOOLEAN, parent : Id \union {NoParent}, opts : Options,
         by : Producer \union {NoOne}]

NoHash == [stored |-> FALSE, parent |-> NoParent, opts |-> Plain, by |-> NoOne]

Server ==
  [ counter   : 0..MaxId,              \* the key id
    hash      : [Id -> Hash],
    place     : [Id -> Place],
    deps      : [Id -> SUBSET Id],     \* <job>:dependencies
    processed : [Id -> SUBSET Id] ]    \* the fields of <job>:processed

Outcome == { "", "ok", "duplicate", "exists", "aborted", "script_error", "io" }

(* keys are the ids of the tree's nodes once they are known; dirty is the   *)
(* server's note that a watched key was written; at counts EXISTS checks.   *)
Call ==
  [ at      : {"start", "watch", "check", "exec", "returned"},
    tree    : Trees,
    keys    : Seq(Id),
    next    : Nat,
    dirty   : BOOLEAN,
    outcome : Outcome,
    wrote   : SUBSET Id ]              \* the hashes its EXEC created

Reader ==
  [ at        : {"idle", "half"},
    of        : Id,
    by        : Producer \union {NoOne},  \* who added the job
    processed : SUBSET Id ]

NotReading == [at |-> "idle", of |-> 1, by |-> NoOne, processed |-> {}]

Init ==
  /\ srv = [ counter   |-> 0,
             hash      |-> [j \in Id |-> NoHash],
             place     |-> [j \in Id |-> "none"],
             deps      |-> [j \in Id |-> {}],
             processed |-> [j \in Id |-> {}] ]
  /\ adds \in [Producer -> [ at : {"start"}, tree : Trees, keys : {<<>>}, next : {0},
                             dirty : {FALSE}, outcome : {""}, wrote : {{}} ]]
  /\ reader = NotReading

Stored(s, j) == s.hash[j].stored

-----------------------------------------------------------------------------
(* Scripts.                                                                 *)

(* Where a job without pending children waits, by its options.              *)
PlaceFor(opts) ==
  IF opts.delay THEN "delayed" ELSE IF opts.priority THEN "prioritized" ELSE "wait"

(* storeJob and the ZADD or LPUSH after it; an id that exists is left alone.*)
StoreJob(s, j, parent, opts, by, place) ==
  IF Stored(s, j) THEN s
  ELSE [s EXCEPT !.hash[j] = [stored |-> TRUE, parent |-> parent, opts |-> opts, by |-> by],
                 !.place[j] = place]

(* moveParentToWait, if the parent exists and is blocked.                   *)
MoveParentToWaitIfNeeded(s, p) ==
  IF Stored(s, p) /\ s.place[p] = "waiting-children"
  THEN [s EXCEPT !.place[p] = PlaceFor(s.hash[p].opts)]
  ELSE s

(* Mutant: the parent is released by its first child.                       *)
MutNoScard(s, p) == MoveParentToWaitIfNeeded(s, p)

MoveParentToWaitIfNoPendingDependencies(s, p) ==
  IF s.deps[p] = {} THEN MoveParentToWaitIfNeeded(s, p) ELSE s

(* Mutant: the value of the child is not recorded.                          *)
MutNotProcessed(s, j) ==
  LET p == s.hash[j].parent
  IN  IF p = NoParent \/ (p # NoParent /\ j \notin s.deps[p]) THEN s
      ELSE MoveParentToWaitIfNoPendingDependencies([s EXCEPT !.deps[p] = @ \ {j}], p)

(* Mutant: SCARD before SREM.                                               *)
MutCountedFirst(s, j) ==
  LET p == s.hash[j].parent
  IN  IF p = NoParent \/ (p # NoParent /\ j \notin s.deps[p]) THEN s
      ELSE [ MoveParentToWaitIfNoPendingDependencies(s, p) EXCEPT
               !.deps[p] = @ \ {j}, !.processed[p] = @ \union {j} ]

(* The part of moveToFinished that concerns the parent of a completed job.  *)
UpdateParentDeps(s, j) ==
  LET p == s.hash[j].parent
  IN  IF p = NoParent \/ (p # NoParent /\ j \notin s.deps[p]) THEN s
      ELSE MoveParentToWaitIfNoPendingDependencies(
             [s EXCEPT !.deps[p] = @ \ {j}, !.processed[p] = @ \union {j}], p)

(* Mutant: the dependency goes, the parent is not released.                 *)
MutOnlySrem(s, j) ==
  LET p == s.hash[j].parent
  IN  IF p = NoParent THEN s ELSE [s EXCEPT !.deps[p] = @ \ {j}]

(* The parent loses a child; the last one puts it at the head of the wait   *)
(* list, whatever its options (_moveParentToWait).                          *)
RemoveParentDependencyKey(s, j) ==
  LET p == s.hash[j].parent
  IN  IF p = NoParent \/ (p # NoParent /\ (~Stored(s, p) \/ j \notin s.deps[p])) THEN s
      ELSE LET t == [s EXCEPT !.deps[p] = @ \ {j}]
           IN  IF t.deps[p] = {} /\ t.place[p] = "waiting-children"
               THEN [t EXCEPT !.place[p] = "wait"] ELSE t

-----------------------------------------------------------------------------
(* FlowProducer::add.                                                       *)

(* Mutant: the keys are not watched.                                        *)
MutNoWatch(calls, J) == calls

(* The jobs J are created or deleted: calls that watch one of them notice.  *)
(* (Other writes to a watched hash need no note: the key exists, and the    *)
(* call either finds it or misses it because it was deleted meanwhile.)     *)
Notice(calls, J) ==
  [ p \in Producer |->
      IF calls[p].at \in {"check", "exec"} /\ ToSet(calls[p].keys) \intersect J # {}
      THEN [calls[p] EXCEPT !.dirty = TRUE] ELSE calls[p] ]

AutoNodes(t) == {i \in DOMAIN t : t[i].id = AutoId}

(* Mutant: automatic ids start at the last one reserved.                    *)
MutLastId(t, first) ==
  [ i \in DOMAIN t |->
      IF t[i].id # AutoId THEN t[i].id
      ELSE first + Cardinality(AutoNodes(t)) - 1 + Cardinality({k \in AutoNodes(t) : k < i}) ]

(* The ids in the order of the walk: automatic ones are consecutive.        *)
IdsOf(t, first) ==
  [ i \in DOMAIN t |->
      IF t[i].id # AutoId THEN t[i].id
      ELSE first + Cardinality({k \in AutoNodes(t) : k < i}) ]

Return(p, outcome) == [adds EXCEPT ![p].at = "returned", ![p].outcome = outcome]

(* INCRBY reserves the automatic ids, then prepare_node gives every node    *)
(* its key; a key that occurs twice ends the call before anything else.     *)
PrepareNodes(p) ==
  LET t == adds[p].tree
      n == Cardinality(AutoNodes(t))
      keys == IdsOf(t, srv.counter + 1)
  IN  /\ adds[p].at = "start"
      /\ srv.counter + n <= MaxId
      /\ srv' = [srv EXCEPT !.counter = @ + n]
      /\ adds' = IF IsInjective(keys)
                 THEN [adds EXCEPT ![p].at = "watch", ![p].keys = keys]
                 ELSE Return(p, "duplicate")
      /\ UNCHANGED reader

Watch(p) ==
  /\ adds[p].at = "watch"
  /\ adds' = [adds EXCEPT ![p].at = "check", ![p].next = 1]
  /\ UNCHANGED <<srv, reader>>

(* One EXISTS for each key; the first that exists ends the call (UNWATCH).  *)
EnsureJobKeyDoesNotExist(p) ==
  /\ adds[p].at = "check"
  /\ adds' = IF Stored(srv, adds[p].keys[adds[p].next]) THEN Return(p, "exists")
             ELSE IF adds[p].next < Len(adds[p].keys) THEN [adds EXCEPT ![p].next = @ + 1]
             ELSE [adds EXCEPT ![p].at = "exec"]
  /\ UNCHANGED <<srv, reader>>

Children(t, i) == {k \in DOMAIN t : t[k].up = i}

(* A leaf with a deduplication id: its script is given no deduplication key *)
(* (queue_insert passes "") and stops at the SET with an error.             *)
ScriptFails(p, i) ==
  /\ Children(adds[p].tree, i) = {} /\ adds[p].tree[i].opts.dedup
  /\ ~Stored(srv, adds[p].keys[i])

(* The nodes whose script adds a job: it does not fail, and finds no job.   *)
Inserted(p) ==
  {i \in DOMAIN adds[p].tree : ~ScriptFails(p, i) /\ ~Stored(srv, adds[p].keys[i])}

(* prepare_node hands the key of a node down to its children.               *)
NewHash(p, i) ==
  LET up == adds[p].tree[i].up
  IN  [ stored |-> TRUE, parent |-> IF up = 0 THEN NoParent ELSE adds[p].keys[up],
        opts |-> adds[p].tree[i].opts, by |-> p ]

(* addParentJob for a node with children, else the script for its options.  *)
NewPlace(t, i) == IF Children(t, i) = {} THEN PlaceFor(t[i].opts) ELSE "waiting-children"

(* The keys that SADD puts into the dependency set of j: those of its       *)
(* children.  (The scripts of those that are parents put theirs there, too.)*)
ChildKeys(p, j) ==
  LET t == adds[p].tree
  IN  {adds[p].keys[k] : k \in {c \in DOMAIN t : t[c].up # 0 /\ adds[p].keys[t[c].up] = j}}

(* What queue_insert queued for the nodes, one after the other.  Their keys *)
(* differ, so that none meets the job of another.  A job that exists is     *)
(* left alone by its script, not by SADD.                                   *)
InsertTree(p) ==
  LET nodes(j) == {i \in Inserted(p) : adds[p].keys[i] = j}
      node(j)  == CHOOSE i \in nodes(j) : TRUE
  IN  [ srv EXCEPT
          !.hash  = [j \in Id |-> IF nodes(j) = {} THEN @[j] ELSE NewHash(p, node(j))],
          !.place = [j \in Id |-> IF nodes(j) = {} THEN @[j]
                                  ELSE NewPlace(adds[p].tree, node(j))],
          !.deps  = [j \in Id |-> @[j] \union ChildKeys(p, j)] ]

(* Mutant: the replies inside EXEC are not looked at.                       *)
MutAcceptReplies(p) == "ok"

(* A server error among the replies of EXEC.                                *)
ValidateExecResult(p) ==
  IF \E i \in DOMAIN adds[p].tree : ScriptFails(p, i) THEN "script_error" ELSE "ok"

Created(s, t) == {j \in Id : ~Stored(s, j) /\ Stored(t, j)}

(* MULTI, the queued commands and EXEC.  An EXEC whose reply is lost with   *)
(* the connection has been done all the same.                               *)
Exec(p) ==
  /\ adds[p].at = "exec"
  /\ IF adds[p].dirty
     THEN /\ adds' = Return(p, "aborted")
          /\ UNCHANGED srv
     ELSE LET new == Created(srv, InsertTree(p))
          IN  /\ srv' = InsertTree(p)
              /\ \E outcome \in {ValidateExecResult(p), "io"} :
                   adds' = Notice([Return(p, outcome) EXCEPT ![p].wrote = new], new)
  /\ UNCHANGED reader

(* The connection or the caller goes away: what was queued is forgotten.    *)
LoseConnection(p) ==
  /\ adds[p].at \in {"check", "exec"}
  /\ adds' = Return(p, "io")
  /\ UNCHANGED <<srv, reader>>

-----------------------------------------------------------------------------
(* Jobs of the queue, with or without a parent.                             *)

(* Queue::add of a job with an id of its own (JobOptions::job_id).          *)
AddJob(j) ==
  /\ ~Stored(srv, j)
  /\ srv' = StoreJob(srv, j, NoParent, Plain, NoOne, PlaceFor(Plain))
  /\ adds' = Notice(adds, {j})
  /\ UNCHANGED reader

(* A worker claims a job that waits; a delayed one once it is due.          *)
MoveToActive(j) ==
  /\ srv.place[j] \in {"wait", "prioritized", "delayed"}
  /\ srv' = [srv EXCEPT !.place[j] = "active"]
  /\ UNCHANGED <<adds, reader>>

(* moveToFinished, target completed.  (The next job that the same script    *)
(* may claim is claimed after the parent's release: MoveToActive.)          *)
MoveToCompleted(j) ==
  /\ srv.place[j] = "active"
  /\ srv' = UpdateParentDeps([srv EXCEPT !.place[j] = "completed"], j)
  /\ UNCHANGED <<adds, reader>>

(* moveToFinished, target failed: no word to a parent.                      *)
MoveToFailed(j) ==
  /\ srv.place[j] = "active"
  /\ srv' = [srv EXCEPT !.place[j] = "failed"]
  /\ UNCHANGED <<adds, reader>>

(* The stalled check finds the job over its limit: it leaves the active     *)
(* list, and is added to no set (TooManyStallsMovesToFailed of              *)
(* JobQueueClaims).  Nothing that runs a job again will find it.            *)
StallTooOften(j) ==
  /\ srv.place[j] = "active"
  /\ srv' = [srv EXCEPT !.place[j] = "lost"]
  /\ UNCHANGED <<adds, reader>>

(* Queue::retry_jobs: a finished job runs again.                            *)
RetryJob(j) ==
  /\ srv.place[j] \in {"failed", "completed"}
  /\ srv' = [srv EXCEPT !.place[j] = "wait"]
  /\ UNCHANGED <<adds, reader>>

(* Queue::remove, Job::remove.  An active job goes too once its lock has    *)
(* expired.                                                                 *)
RemoveJob(j) ==
  /\ Stored(srv, j)
  /\ srv' = [ RemoveParentDependencyKey(srv, j) EXCEPT
                !.place[j] = "none", !.hash[j] = NoHash,
                !.deps[j] = {}, !.processed[j] = {} ]
  /\ adds' = Notice(adds, {j})
  /\ UNCHANGED reader

(* Job::get_dependencies and get_children_values, called by the handler of  *)
(* a parent: HGETALL of the processed children, then SMEMBERS of the others.*)
ReadProcessed(j) ==
  /\ reader.at = "idle"
  /\ srv.place[j] = "active" /\ srv.hash[j].by \in Producer
  /\ reader' = [at |-> "half", of |-> j, by |-> srv.hash[j].by, processed |-> srv.processed[j]]
  /\ UNCHANGED <<srv, adds>>

ReadUnprocessed ==
  /\ reader.at = "half"
  /\ reader' = NotReading
  /\ UNCHANGED <<srv, adds>>

-----------------------------------------------------------------------------
Next ==
  \/ \E p \in Producer :
       \/ PrepareNodes(p) \/ Watch(p) \/ EnsureJobKeyDoesNotExist(p)
       \/ Exec(p) \/ LoseConnection(p)
  \/ \E j \in Id :
       \/ MoveToActive(j) \/ MoveToCompleted(j) \/ MoveToFailed(j)
       \/ RetryJob(j) \/ RemoveJob(j)
  \/ \E j \in Stalling : StallTooOften(j)
  \/ \E j \in PlainIds : AddJob(j)
  \/ \E j \in Observed : ReadProcessed(j)
  \/ ReadUnprocessed

(* Workers keep claiming and handlers end, well or badly.  Clients owe      *)
(* nothing.                                                                 *)
Fairness ==
  \A j \in Id : WF_vars(MoveToActive(j)) /\ WF_vars(MoveToCompleted(j) \/ MoveToFailed(j))

Spec == Init /\ [][Next]_vars /\ Fairness

-----------------------------------------------------------------------------
TypeOK == srv \in Server /\ adds \in [Producer -> Call] /\ reader \in Reader

Keys(p) == ToSet(adds[p].keys)

(* The children that a parent was added with.                               *)
ChildOf(c, r) ==
  /\ Stored(srv, c) /\ srv.hash[c].parent = r
  /\ Stored(srv, r) /\ srv.hash[c].by = srv.hash[r].by

(* add returns Ok only for a tree that was written in full, and a tree that *)
(* is refused because of its keys leaves nothing behind, whoever adds or    *)
(* removes jobs of those ids between the check and EXEC.  (A whole tree may *)
(* also be answered with an error, when the reply of its EXEC is lost.)     *)
FlowWhole ==
  \A p \in Producer :
    /\ adds[p].outcome = "ok" =>
         adds[p].wrote = Keys(p) /\ Cardinality(adds[p].wrote) = Len(adds[p].tree)
    /\ adds[p].outcome \in {"duplicate", "exists", "aborted"} => adds[p].wrote = {}

(* As long as a child of its flow has not completed (it waits, runs, has    *)
(* failed or was lost), a parent is blocked: it can not be claimed.         *)
ParentWaits ==
  \A r, c \in Id :
    ChildOf(c, r) /\ c \notin srv.processed[r] => srv.place[r] = "waiting-children"

(* The tree that r belongs to was written in full, without a script error.  *)
InFull(r) ==
  LET p == srv.hash[r].by
  IN  p \in Producer /\ Cardinality(adds[p].wrote) = Len(adds[p].tree)

(* No parent is blocked for nothing: every member of its dependency set is  *)
(* a job that will report to it if it completes.                            *)
BlockedByChildren ==
  \A r \in Id :
    srv.place[r] = "waiting-children" /\ InFull(r) =>
      /\ srv.deps[r] # {}
      /\ \A c \in srv.deps[r] : ChildOf(c, r) /\ srv.place[c] # "completed"

(* A handler that asks for its children's values gets those of all the      *)
(* children of its flow that still exist, although it takes two reads and   *)
(* the job, or a child, may be removed or added anew in between.            *)
ChildrenValuesComplete ==
  [][ reader.at = "half" /\ reader' = NotReading =>
        \A c \in Id :
          /\ srv.hash[c].parent = reader.of /\ srv.hash[c].by = reader.by
          => c \in reader.processed /\ c \notin srv.deps[reader.of] ]_vars

(* The EXEC of one flow changes no job that exists: it neither adopts nor   *)
(* requeues a job that somebody added after the check.                      *)
FlowAddsOnlyNewJobs ==
  [][ \A p \in Producer :
        adds[p].at = "exec" /\ adds'[p].at = "returned" =>
          \A j \in Id : Stored(srv, j) =>
            /\ srv'.hash[j] = srv.hash[j] /\ srv'.place[j] = srv.place[j]
            /\ srv'.deps[j] = srv.deps[j] ]_vars

(* c is r or below it: every set that holds c, and with a job its parent,   *)
(* holds r.                                                                 *)
Below(c, r) ==
  \A S \in SUBSET Id :
    c \in S /\ (\A j \in S : srv.hash[j].parent \in S \union {NoParent}) => r \in S

(* A blocked parent is released in the end.  Only a job below it keeps it   *)
(* waiting that failed, and can be retried, or that stalled too often, and  *)
(* then only its removal releases the parent.                               *)
ParentReleased ==
  \A r \in Id :
    srv.place[r] = "waiting-children" /\ InFull(r) ~>
      \/ srv.place[r] # "waiting-children"
      \/ \E c \in Id : Below(c, r) /\ srv.place[c] \in {"failed", "lost"}
=============================================================================
