------------------------- MODULE TimerStore_proofs -------------------------
(***************************************************************************)
(* Proofs about TimerStore, for every set of goroutines, names, objects and *)
(* units and every threshold.                                               *)
(***************************************************************************)
EXTENDS TimerStore, TLAPS

(* What the local variables of a call under way refer to, and who makes     *)
(* which call.                                                              *)
CallsOK ==
  \A p \in Procs :
    /\ pc[p] \in {"create", "emit"} => p \in Writers
    /\ pc[p] \in {"range", "delete"} => p \in Flushers
    /\ pc[p] \in {"create", "emit", "delete"} => obj[p] \in Timers

(* A name is occupied by an object that carries it and was allocated.       *)
OccupantsOK ==
  \A n \in Names : timers[n] # None => NameOf[timers[n]] = n /\ Allocated(timers[n])

(* An object a lookup has allocated and not stored yet is that lookup's     *)
(* alone: no other holds it and no name is occupied by it.                  *)
CreatorsOK ==
  \A w \in Writers :
    pc[w] = "create" =>
      /\ Allocated(obj[w])
      /\ timers[NameOf[obj[w]]] # obj[w]
      /\ \A v \in Writers : pc[v] = "create" /\ obj[v] = obj[w] => v = w

(* flushMu is held from the first to the last step of Flush.                *)
FlushSerialized == \A f \in Flushers : pc[f] # "idle" => flushMu = f

(* active tells whether anybody used the timer since Flush last saw it, and *)
(* idleFlushes how many flushes in a row found that nobody had.             *)
MarksOK ==
  \A t \in Timers : (active[t] <=> t \in used) /\ quiet[t] = idleFlushes[t]

Deleting(f, t) == pc[f] = "delete" /\ obj[f] = t

(* Who has reached the threshold: the occupant a Flush is about to delete,   *)
(* and objects that have left the map for good.  An object not stored yet   *)
(* has not been visited.                                                    *)
AgesOK ==
  /\ \A t \in Timers : ~Allocated(t) => idleFlushes[t] = 0
  /\ \A w \in Writers : pc[w] = "create" => idleFlushes[obj[w]] = 0
  /\ PruneAfter > 0 =>
       \A n \in Names :
         timers[n] # None /\ idleFlushes[timers[n]] = PruneAfter
           => \E f \in Flushers : Deleting(f, timers[n])

IInv ==
  /\ TypeOK /\ CallsOK /\ OccupantsOK /\ CreatorsOK /\ FlushSerialized /\ MarksOK
  /\ AgesOK /\ PrunedOnlyWhenUnused /\ DeletesWhatItAged

(* The timer a Flush is about to swap has not reached the threshold: a Flush *)
(* that brought it there has deleted it before it released flushMu.         *)
LEMMA VisitedIsYoung ==
  ASSUME TypeOK, FlushSerialized, AgesOK,
         NEW f \in Flushers, pc[f] = "range",
         NEW n \in Names, timers[n] # None, PruneAfter > 0
  PROVE  idleFlushes[timers[n]] < PruneAfter
<1>1. \A g \in Flushers : ~Deleting(g, timers[n])
  BY DEF FlushSerialized, Deleting
<1>2. idleFlushes[timers[n]] # PruneAfter
  BY <1>1 DEF AgesOK
<1>3. idleFlushes[timers[n]] \in 0 .. PruneAfter
  BY DEF TypeOK
<1> QED
  BY <1>2, <1>3, TimerAssumption

(* Every step keeps the invariant.                                          *)
LEMMA InvStep ==
  ASSUME IInv, [Next]_vars
  PROVE  IInv'
<1> USE TimerAssumption
        DEF IInv, TypeOK, CallsOK, OccupantsOK, CreatorsOK, FlushSerialized, MarksOK,
            AgesOK, Deleting, PrunedOnlyWhenUnused, DeletesWhatItAged, InMap, Allocated,
            Goto, Procs, fields, history
<1>1. ASSUME NEW w \in Writers, NEW n \in Names, LookupHit(w, n)
      PROVE  IInv'
  <2>1. TypeOK'
    BY <1>1 DEF LookupHit
  <2>2. CallsOK' /\ FlushSerialized' /\ MarksOK'
    BY <1>1 DEF LookupHit
  <2>3. OccupantsOK' /\ CreatorsOK'
    BY <1>1 DEF LookupHit
  <2>4. AgesOK'
    BY <1>1 DEF LookupHit
  <2>5. PrunedOnlyWhenUnused' /\ DeletesWhatItAged'
    BY <1>1 DEF LookupHit
  <2> QED
    BY <2>1, <2>2, <2>3, <2>4, <2>5
<1>2. ASSUME NEW w \in Writers, NEW n \in Names, LookupMiss(w, n)
      PROVE  IInv'
  <2>1. TypeOK'
    BY <1>2 DEF LookupMiss
  <2>2. CallsOK' /\ FlushSerialized' /\ MarksOK'
    BY <1>2 DEF LookupMiss
  <2>3. OccupantsOK' /\ CreatorsOK'
    BY <1>2 DEF LookupMiss
  <2>4. AgesOK'
    BY <1>2 DEF LookupMiss
  <2>5. PrunedOnlyWhenUnused' /\ DeletesWhatItAged'
    BY <1>2 DEF LookupMiss
  <2> QED
    BY <2>1, <2>2, <2>3, <2>4, <2>5
<1>3. ASSUME NEW w \in Writers, Create(w)
      PROVE  IInv'
  <2>1. TypeOK'
    BY <1>3 DEF Create, LoadOrStore
  <2>2. CallsOK' /\ FlushSerialized' /\ MarksOK'
    BY <1>3 DEF Create, LoadOrStore
  <2>3. OccupantsOK' /\ CreatorsOK'
    BY <1>3 DEF Create, LoadOrStore
  <2>4. AgesOK'
    BY <1>3 DEF Create, LoadOrStore
  <2>5. PrunedOnlyWhenUnused' /\ DeletesWhatItAged'
    BY <1>3 DEF Create, LoadOrStore
  <2> QED
    BY <2>1, <2>2, <2>3, <2>4, <2>5
<1>4. ASSUME NEW w \in Writers, NEW t \in Timers, AddValue(w, t)
      PROVE  IInv'
  <2>1. TypeOK'
    BY <1>4 DEF AddValue, Marked
  <2>2. CallsOK' /\ FlushSerialized' /\ MarksOK'
    BY <1>4 DEF AddValue, Marked
  <2>3. OccupantsOK' /\ CreatorsOK'
    BY <1>4 DEF AddValue, Marked
  <2>4. AgesOK'
    BY <1>4 DEF AddValue, Marked
  <2>5. PrunedOnlyWhenUnused' /\ DeletesWhatItAged'
    BY <1>4 DEF AddValue, Marked
  <2> QED
    BY <2>1, <2>2, <2>3, <2>4, <2>5
<1>5. ASSUME NEW w \in Writers, FlushTimer(w)
      PROVE  IInv'
  <2>1. TypeOK'
    BY <1>5 DEF FlushTimer
  <2>2. CallsOK' /\ FlushSerialized' /\ MarksOK'
    BY <1>5 DEF FlushTimer
  <2>3. OccupantsOK' /\ CreatorsOK'
    BY <1>5 DEF FlushTimer
  <2>4. AgesOK'
    BY <1>5 DEF FlushTimer
  <2>5. PrunedOnlyWhenUnused' /\ DeletesWhatItAged'
    BY <1>5 DEF FlushTimer
  <2> QED
    BY <2>1, <2>2, <2>3, <2>4, <2>5
<1>6. ASSUME NEW f \in Flushers, FlushLock(f)
      PROVE  IInv'
  <2>1. TypeOK'
    BY <1>6 DEF FlushLock, FlushMuFree, Present
  <2>2. CallsOK' /\ FlushSerialized' /\ MarksOK'
    BY <1>6 DEF FlushLock, FlushMuFree, Present
  <2>3. OccupantsOK' /\ CreatorsOK'
    BY <1>6 DEF FlushLock, FlushMuFree, Present
  <2>4. AgesOK'
    BY <1>6 DEF FlushLock, FlushMuFree, Present
  <2>5. PrunedOnlyWhenUnused' /\ DeletesWhatItAged'
    BY <1>6 DEF FlushLock, FlushMuFree, Present
  <2> QED
    BY <2>1, <2>2, <2>3, <2>4, <2>5
<1>7. ASSUME NEW f \in Flushers, NEW n \in Names, SwapUsed(f, n)
      PROVE  IInv'
  <2>1. TypeOK'
    BY <1>7 DEF SwapUsed
  <2>2. CallsOK' /\ FlushSerialized' /\ MarksOK'
    BY <1>7 DEF SwapUsed
  <2>3. OccupantsOK' /\ CreatorsOK'
    BY <1>7 DEF SwapUsed
  <2>4. AgesOK'
    BY <1>7 DEF SwapUsed
  <2>5. PrunedOnlyWhenUnused' /\ DeletesWhatItAged'
    BY <1>7 DEF SwapUsed
  <2> QED
    BY <2>1, <2>2, <2>3, <2>4, <2>5
<1>8. ASSUME NEW f \in Flushers, NEW n \in Names, SwapUnused(f, n)
      PROVE  IInv'
  <2> DEFINE t == timers[n]
  <2>1. t \in Timers /\ ~active[t] /\ t \notin used
    BY <1>8 DEF SwapUnused
  <2>2. PruneAfter > 0 => idleFlushes[t] < PruneAfter
    BY <1>8, VisitedIsYoung DEF SwapUnused
  <2>3. PruneAfter > 0 => /\ NextIdle(t) \in 0 .. PruneAfter
                          /\ idleFlushes' = [idleFlushes EXCEPT ![t] = NextIdle(t)]
                          /\ quiet' = [quiet EXCEPT ![t] = NextIdle(t)]
    <3>1. idleFlushes[t] \in 0 .. PruneAfter /\ quiet[t] = idleFlushes[t]
      BY <2>1
    <3>2. PruneAfter > 0 => idleFlushes' = [idleFlushes EXCEPT ![t] = NextIdle(t)]
      BY <1>8 DEF SwapUnused
    <3>3. PruneAfter > 0 => quiet' = [quiet EXCEPT ![t] = quiet[t] + 1]
      BY <1>8, <2>1, <2>2, <3>1 DEF SwapUnused
    <3> QED
      BY <2>2, <3>1, <3>2, <3>3 DEF NextIdle
  <2>4. PruneAfter = 0 => UNCHANGED <<idleFlushes, quiet, pc, obj>>
    BY <1>8, <2>1 DEF SwapUnused
  <2>5. TypeOK'
    BY SMTT(30), <1>8, <2>1, <2>3, <2>4 DEF SwapUnused
  <2>6. CallsOK' /\ FlushSerialized' /\ MarksOK'
    BY <1>8, <2>1, <2>3, <2>4 DEF SwapUnused
  <2>7. OccupantsOK' /\ CreatorsOK'
    BY <1>8 DEF SwapUnused
  <2>8. AgesOK'
    BY <1>8, <2>2 DEF SwapUnused, NextIdle, BelowThreshold
  <2>9. PrunedOnlyWhenUnused' /\ DeletesWhatItAged'
    BY <1>8 DEF SwapUnused, NextIdle, BelowThreshold
  <2> QED
    BY <2>5, <2>6, <2>7, <2>8, <2>9
<1>9. ASSUME NEW f \in Flushers, Delete(f)
      PROVE  IInv'
  <2>1. TypeOK'
    BY <1>9 DEF Delete
  <2>2. CallsOK' /\ FlushSerialized' /\ MarksOK'
    BY <1>9 DEF Delete
  <2>3. OccupantsOK' /\ CreatorsOK'
    BY <1>9 DEF Delete
  <2>4. AgesOK'
    BY <1>9 DEF Delete
  <2>5. PrunedOnlyWhenUnused' /\ DeletesWhatItAged'
    BY <1>9 DEF Delete
  <2> QED
    BY <2>1, <2>2, <2>3, <2>4, <2>5
<1>10. ASSUME NEW f \in Flushers, FlushUnlock(f)
      PROVE  IInv'
  <2>1. TypeOK'
    BY <1>10 DEF FlushUnlock
  <2>2. CallsOK' /\ FlushSerialized' /\ MarksOK'
    BY <1>10 DEF FlushUnlock
  <2>3. OccupantsOK' /\ CreatorsOK'
    BY <1>10 DEF FlushUnlock
  <2>4. AgesOK'
    BY <1>10 DEF FlushUnlock
  <2>5. PrunedOnlyWhenUnused' /\ DeletesWhatItAged'
    BY <1>10 DEF FlushUnlock
  <2> QED
    BY <2>1, <2>2, <2>3, <2>4, <2>5
<1>11. CASE UNCHANGED vars
  BY <1>11 DEF vars
<1> QED
  BY <1>1, <1>2, <1>3, <1>4, <1>5, <1>6, <1>7, <1>8, <1>9, <1>10, <1>11
     DEF Next, WriterStep, FlusherStep, Lookup, Visit

(* The invariant holds in every reachable state of the timers (Flush).      *)
THEOREM Invariance == Spec => []IInv
<1>1. Init => IInv
  BY TimerAssumption
     DEF Init, IInv, TypeOK, CallsOK, OccupantsOK, CreatorsOK, FlushSerialized,
         MarksOK, AgesOK, Deleting, PrunedOnlyWhenUnused, DeletesWhatItAged, InMap,
         Allocated, Procs
<1> QED
  BY <1>1, InvStep, PTL DEF Spec

(* Every variable has its type; no count exceeds the threshold.             *)
THEOREM TypeCorrect == Spec => []TypeOK
BY Invariance, PTL DEF IInv

(* A timer is pruned only after PruneAfter flushes between which nobody      *)
(* called AddValue on it (Flush, timers.Range).                             *)
THEOREM PrunesOnlyUnused == Spec => []PrunedOnlyWhenUnused
BY Invariance, PTL DEF IInv

(* What Flush deletes by name is the timer it has aged (Flush, Delete).     *)
THEOREM DeletesOnlyAged == Spec => []DeletesWhatItAged
BY Invariance, PTL DEF IInv

=============================================================================
