--------------------------- MODULE MCCounterStore ---------------------------
(* Small instances of CounterStore.                                         *)
EXTENDS CounterLedger, TLC

CONSTANTS w1, w2, f1, f2, n1, c1, c2

(* Objects that all belong to one name.                                     *)
OneName == [c \in Counters |-> n1]

Symmetry      == Permutations({w1, w2}) \cup Permutations({f1, f2})
RivalSymmetry == Symmetry \cup Permutations({c1, c2})
=============================================================================
