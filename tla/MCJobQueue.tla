----------------------------- MODULE MCJobQueue -----------------------------
(* Instances of JobQueue for TLC.                                           *)
EXTENDS JobQueueRefinement, JobQueueClaims

Symmetry == Permutations(Job) \union Permutations(Worker)

Priorities == {0, 1}
(* Bounds the lists where calls on jobs in any state may duplicate entries. *)
ShortLists == Len(q.wait) + Len(q.paused) <= 3
=============================================================================
