---------------------------- MODULE MCTimerStore ----------------------------
(* Small instances of TimerStore: every object is created under one name.   *)
EXTENDS TimerStore, TLC

CONSTANT n1

OneName  == [t \in Timers |-> n1]
Symmetry == Permutations(Writers) \cup Permutations(Flushers) \cup Permutations(Timers)
=============================================================================
