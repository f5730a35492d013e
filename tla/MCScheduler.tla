----------------------------- MODULE MCScheduler -----------------------------
(* Repeat options for TLC: two intervals with their limits, and a cron      *)
(* pattern that starts at once.                                             *)
EXTENDS Scheduler, TLC

Every(n) == [NoOptions EXCEPT !.every = n]
Pattern == [NoOptions EXCEPT !.pattern = TRUE]

PatternChoices == {[Pattern EXCEPT !.immediately = TRUE, !.limit = 3]}
SomeChoices == { [Every(1) EXCEPT !.limit = 2, !.endDate = 3],
                 [Every(3) EXCEPT !.startDate = 2, !.limit = 1] } \union PatternChoices

CronTimes == {2, 5}

(* The properties are about a chain whose slots are not reused.             *)
FreshSlots == ~hist.reused
Symmetry == Permutations(Worker)
=============================================================================
