------------------------------- MODULE MCFlow -------------------------------
(* Trees for TLC.  Automatic ids start at 1 and so may meet the ids that    *)
(* other trees and plain jobs use.                                          *)
EXTENDS Flow, TLC

N(id, up) == [id |-> id, up |-> up, opts |-> Plain]
With(node, option) == [node EXCEPT !.opts[option] = TRUE]

TwoChildren == << N(1, 0), N(2, 1), N(3, 1) >>
AutomaticIds == << With(N(AutoId, 0), "delay"), N(AutoId, 1) >>
Nested == << With(N(3, 0), "priority"), N(2, 1), With(N(1, 2), "delay") >>
SameIdTwice == << N(2, 0), N(AutoId, 1), N(2, 1) >>
Deduplicated == << N(3, 0), With(N(2, 1), "dedup") >>

SomeTrees == {TwoChildren, AutomaticIds, Nested, SameIdTwice, Deduplicated}

(* Nothing tells the producers apart, so that of two initial states that    *)
(* differ only in who adds which tree one will do.                          *)
Order == <<TwoChildren, AutomaticIds, Nested, SameIdTwice, Deduplicated>>

First == CHOOSE p \in Producer : TRUE

SomeInit ==
  /\ Init
  /\ \A p \in Producer, i, k \in DOMAIN Order :
       adds[First].tree = Order[i] /\ adds[p].tree = Order[k] => i <= k

SomeSpec == SomeInit /\ [][Next]_vars /\ Fairness
=============================================================================
