--------------------------- MODULE CounterLedger ---------------------------
(***************************************************************************)
(* CounterStore implements Ledger while every name has one object, that is, *)
(* until a pruned name is looked up again, and is only added to.            *)
(***************************************************************************)
EXTENDS CounterStore

(* The object of a name, and the Flush inside latch's callers, which has    *)
(* taken a delta out of it that the sink has not received yet.              *)
ObjectsOf(n) == {c \in Counters : NameOf[c] = n}
InTransit(c) ==
  IF flushMu # None /\ pc[flushMu] \in LatchUses /\ frame[flushMu].obj = c
    THEN Latched(flushMu)
    ELSE 0

(* What is owed to the sink: the part the counter still holds, and the part *)
(* on its way.                                                              *)
Owed ==
  [n \in Names |->
     IF ObjectsOf(n) = {} THEN 0
     ELSE LET c == CHOOSE o \in ObjectsOf(n) : TRUE IN Pending(c) + InTransit(c)]

L == INSTANCE Ledger WITH outstanding <- Owed

(* Pruning, detaching, rejoining and the two latches of Flush are invisible *)
(* to whoever counts: each step of the store adds, reports what was owed,   *)
(* or changes nothing anyone can see, and what is owed is reported at last  *)
(* (docs/idle-pruning.md: "Nothing is lost").                               *)
ImplementsLedger == L!FairSpec

=============================================================================
