------------------------------ MODULE MCEvents ------------------------------
(* The two ways to start: from "$", and from an id, here the first one.     *)
EXTENDS Events

BothStarts == {Latest, 0}
OnlyLatest == {Latest}
=============================================================================
