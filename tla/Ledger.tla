------------------------------- MODULE Ledger -------------------------------
(***************************************************************************)
(* What a store promises to whoever counts with it (stats.go, the comment   *)
(* of Store): each amount added to a name is outstanding until a Flush moves *)
(* it, whole or in parts, to the sink; nothing else ever changes either     *)
(* side, and nothing stays outstanding for ever.                            *)
(*                                                                         *)
(* The specification knows no objects, no map and no pruning; CounterLedger *)
(* shows that CounterStore implements it.                                   *)
(***************************************************************************)
EXTENDS Integers

CONSTANTS
  Names,    \* serialized stat names
  Deltas    \* arguments of Add

VARIABLES
  outstanding,  \* what was added to each name and not reported yet
  reported      \* what the sink has received for each name

ledger == <<outstanding, reported>>

Init ==
  /\ outstanding = [n \in Names |-> 0]
  /\ reported = [n \in Names |-> 0]

Add(n, d) ==
  /\ outstanding' = [outstanding EXCEPT ![n] = @ + d]
  /\ UNCHANGED reported

Report(n) ==
  \E k \in 1 .. outstanding[n] :
    /\ outstanding' = [outstanding EXCEPT ![n] = @ - k]
    /\ reported' = [reported EXCEPT ![n] = @ + k]

Next == \E n \in Names : Report(n) \/ \E d \in Deltas : Add(n, d)

Spec == Init /\ [][Next]_ledger

(* The store is flushed again and again.                                    *)
FairSpec == Spec /\ \A n \in Names : WF_ledger(Report(n))

=============================================================================
