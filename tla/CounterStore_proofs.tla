------------------------ MODULE CounterStore_proofs ------------------------
(***************************************************************************)
(* Proofs about CounterStore and CounterLedger, for every set of            *)
(* goroutines, names and objects, every threshold and every width of the    *)
(* counters.                                                                *)
(***************************************************************************)
EXTENDS CounterLedger, FiniteLemmas

(* What the local variables of a call under way refer to: the receiver and  *)
(* the counter it forwards to are objects a lookup has returned and share a *)
(* name, the caller of latch is the one control returns to, and only a      *)
(* flusher is in Flush.                                                     *)
Namesakes(c, d) == NameOf[c] = NameOf[d]

CallsOK ==
  \A p \in Procs :
    /\ pc[p] = "create" => frame[p].obj \in Counters /\ p \in Writers
    /\ pc[p] \notin {"idle", "range", "create"} => frame[p].obj \in held
    /\ pc[p] \in {"idle", "range", "create", "check"} => frame[p].ret = "none"
    /\ pc[p] \in LatchUses => frame[p].ret = pc[p]
    /\ pc[p] \in LatchSteps => frame[p].ret \in LatchUses
    /\ pc[p] \in LatchSteps \cup {"fold"} /\ frame[p].ret = "fold"
         => frame[p].other \in held /\ Namesakes(frame[p].other, frame[p].obj)
    /\ pc[p] \in {"range", "delete", "detach", "visit", "recheck"} => p \in Flushers
    /\ pc[p] \in LatchSteps /\ frame[p].ret \in {"visit", "recheck"} => p \in Flushers

(* A name is occupied by an object that carries it and that is held.        *)
OccupantsOK ==
  \A n \in Names : counters[n] # None => counters[n] \in held /\ NameOf[counters[n]] = n

(* flushMu is held from the first to the last step of Flush.                *)
FlushSerialized == \A f \in Flushers : pc[f] # "idle" => flushMu = f

(* The counter a flusher visits stays the occupant of its name until that   *)
(* flusher deletes it: nobody else deletes, and nobody else stores over it. *)
Visiting(f) == \/ pc[f] \in {"visit", "delete"}
               \/ pc[f] \in LatchSteps /\ frame[f].ret = "visit"

VisitedInMap == \A f \in Flushers : Visiting(f) => InMap(frame[f].obj)

IInv == TypeOK /\ CallsOK /\ OccupantsOK /\ FlushSerialized /\ VisitedInMap /\ Attached

(* The arithmetic of uint64 stays within its words.                         *)
LEMMA WordArithmetic ==
  ASSUME NEW a \in Word, NEW b \in Word
  PROVE  Plus(a, b) \in Word /\ Minus(a, b) \in Word
BY ConstantsAssumption DEF Plus, Minus, Word

(* A delta is zero exactly when nothing is new.                             *)
LEMMA MinusZero ==
  ASSUME NEW a \in Word, NEW b \in Word
  PROVE  Minus(a, b) = 0 <=> a = b
BY ConstantsAssumption DEF Minus, Word

(* The empty frame is a frame.                                              *)
LEMMA NoFrameType == NoFrame \in Frames
BY ConstantsAssumption DEF Frames, NoFrame, Word

(* The assignments to local variables the actions make.                     *)
LEMMA FrameTypes ==
  ASSUME NEW fr \in Frames, NEW c \in Counters \cup {None}
  PROVE  /\ [fr EXCEPT !.obj = c] \in Frames
         /\ \A v \in Word : /\ [fr EXCEPT !.value = v] \in Frames
                           /\ [fr EXCEPT !.last = v] \in Frames
         /\ \A r \in LatchUses : /\ [fr EXCEPT !.obj = c, !.ret = r] \in Frames
                                /\ [fr EXCEPT !.other = c, !.ret = r] \in Frames
<1>1. [fr EXCEPT !.obj = c] \in Frames
  BY DEF Frames
<1>2. ASSUME NEW v \in Word
      PROVE  [fr EXCEPT !.value = v] \in Frames /\ [fr EXCEPT !.last = v] \in Frames
  BY DEF Frames
<1>3. ASSUME NEW r \in LatchUses
      PROVE  [fr EXCEPT !.obj = c, !.ret = r] \in Frames
  BY DEF Frames
<1>4. ASSUME NEW r \in LatchUses
      PROVE  [fr EXCEPT !.other = c, !.ret = r] \in Frames
  BY DEF Frames
<1> QED
  BY <1>1, <1>2, <1>3, <1>4

(* The local variables of a goroutine are typed.                            *)
LEMMA FrameFields ==
  ASSUME TypeOK, NEW p \in Procs
  PROVE  /\ frame[p] \in Frames
         /\ frame[p].obj \in Counters \cup {None}
         /\ frame[p].other \in Counters \cup {None}
         /\ frame[p].value \in Word
         /\ frame[p].last \in Word
BY DEF TypeOK, Frames

(* What latch returns is a word.                                            *)
LEMMA LatchedType ==
  ASSUME TypeOK, NEW p \in Procs
  PROVE  Latched(p) \in Word /\ Latched(p) \in Nat
<1>1. Latched(p) \in Word
  BY FrameFields, WordArithmetic DEF Latched
<1> QED
  BY <1>1, ConstantsAssumption DEF Word

(* Returning from a call keeps control and locals typed.                    *)
LEMMA ReturnType ==
  ASSUME TypeOK, NEW p \in Procs, Return(p)
  PROVE  pc' \in [Procs -> PCs] /\ frame' \in [Procs -> Frames]
<1>1. pc' \in [Procs -> PCs]
  BY DEF TypeOK, Return, Goto, PCs
<1> QED
  BY <1>1, NoFrameType DEF TypeOK, Return

(* Every step keeps the types.                                              *)
LEMMA TypeStep ==
  ASSUME TypeOK, CallsOK, [Next]_vars
  PROVE  TypeOK'
<1> USE ConstantsAssumption
        DEF TypeOK, CallsOK, Goto, objects, history, Procs, PCs, LatchSteps, LatchUses
<1>1. ASSUME NEW w \in Writers, NEW n \in Names, LookupHit(w, n)
      PROVE  TypeOK'
  BY <1>1 DEF LookupHit
<1>2. ASSUME NEW w \in Writers, NEW n \in Names, LookupMiss(w, n)
      PROVE  TypeOK'
  <2>1. pc' \in [Procs -> PCs]
    BY <1>2 DEF LookupMiss
  <2>2. frame' \in [Procs -> Frames]
    <3>1. PICK c \in Counters : frame' = [frame EXCEPT ![w].obj = c]
      BY <1>2 DEF LookupMiss
    <3>2. [frame[w] EXCEPT !.obj = c] \in Frames
      BY FrameTypes, FrameFields
    <3> QED
      BY <3>1, <3>2
  <2> QED
    BY <1>2, <2>1, <2>2, FrameFields DEF LookupMiss
<1>3. ASSUME NEW w \in Writers, Create(w)
      PROVE  TypeOK'
  <2>1. pc' \in [Procs -> PCs] /\ frame' \in [Procs -> Frames]
    BY <1>3, ReturnType DEF Create
  <2> QED
    BY <1>3, <2>1, FrameFields DEF Create, LoadOrStore
<1>4. ASSUME NEW w \in Writers, NEW c \in Counters, NEW d \in Deltas, Add(w, c, d)
      PROVE  TypeOK'
  <2>1. pc' \in [Procs -> PCs]
    BY SMTT(30), <1>4 DEF Add, WriteValue
  <2>2. frame' \in [Procs -> Frames]
    BY <1>4, FrameTypes, FrameFields DEF Add, WriteValue
  <2>3. currentValue' \in [Counters -> Word] /\ added' \in [Names -> Int]
    <3>1. Plus(currentValue[c], d) \in Word
      BY WordArithmetic
    <3> QED
      BY <1>4, <3>1 DEF Add, WriteValue, Word
  <2> QED
    BY <1>4, <2>1, <2>2, <2>3 DEF Add, WriteValue
<1>5. ASSUME NEW w \in Writers, NEW c \in Counters, NEW v \in SetValues, Set(w, c, v)
      PROVE  TypeOK'
  <2>1. pc' \in [Procs -> PCs]
    BY SMTT(30), <1>5 DEF Set, WriteValue
  <2>2. frame' \in [Procs -> Frames]
    BY <1>5, FrameTypes, FrameFields DEF Set, WriteValue
  <2>3. currentValue' \in [Counters -> Word] /\ added' \in [Names -> Int]
    BY <1>5 DEF Set, WriteValue, Word
  <2> QED
    BY <1>5, <2>1, <2>2, <2>3 DEF Set, WriteValue
<1>6. ASSUME NEW p \in Procs, MaybeRejoin(p)
      PROVE  TypeOK'
  <2>1. pc' \in [Procs -> PCs] /\ frame' \in [Procs -> Frames]
    BY <1>6, ReturnType DEF MaybeRejoin
  <2> QED
    BY <1>6, <2>1, FrameFields DEF MaybeRejoin
<1>7. ASSUME NEW p \in Procs, RejoinAttach(p)
      PROVE  TypeOK'
  <2>1. pc' \in [Procs -> PCs] /\ frame' \in [Procs -> Frames]
    BY <1>7, ReturnType DEF RejoinAttach
  <2> QED
    BY <1>7, <2>1, FrameFields DEF RejoinAttach
<1>8. ASSUME NEW p \in Procs, RejoinOther(p)
      PROVE  TypeOK'
  <2>1. pc' \in [Procs -> PCs]
    BY <1>8 DEF RejoinOther
  <2>2. frame' \in [Procs -> Frames]
    BY <1>8, FrameTypes, FrameFields DEF RejoinOther
  <2> QED
    BY SMTT(30), <1>8, <2>1, <2>2, FrameFields DEF RejoinOther
<1>9. ASSUME NEW p \in Procs, LatchLoad(p)
      PROVE  TypeOK'
  <2>1. pc' \in [Procs -> PCs]
    BY <1>9 DEF LatchLoad
  <2>2. frame' \in [Procs -> Frames]
    BY <1>9, FrameTypes, FrameFields DEF LatchLoad
  <2> QED
    BY <1>9, <2>1, <2>2, FrameFields DEF LatchLoad
<1>10. ASSUME NEW p \in Procs, LatchLoadLast(p)
      PROVE  TypeOK'
  <2>1. pc' \in [Procs -> PCs]
    BY <1>10 DEF LatchLoadLast
  <2>2. frame' \in [Procs -> Frames]
    BY <1>10, FrameTypes, FrameFields DEF LatchLoadLast
  <2> QED
    BY <1>10, <2>1, <2>2, FrameFields DEF LatchLoadLast
<1>11. ASSUME NEW p \in Procs, LatchCas(p)
      PROVE  TypeOK'
  <2>1. pc' \in [Procs -> PCs]
    BY <1>11 DEF LatchCas
  <2>2. frame' \in [Procs -> Frames]
    BY <1>11 DEF LatchCas
  <2> QED
    BY <1>11, <2>1, <2>2, FrameFields DEF LatchCas
<1>12. ASSUME NEW p \in Procs, Forward(p)
      PROVE  TypeOK'
  <2>1. pc' \in [Procs -> PCs]
    BY <1>12 DEF Forward, Forwarded, Latched
  <2>2. frame' \in [Procs -> Frames]
    BY <1>12, NoFrameType, FrameTypes, FrameFields DEF Forward, Forwarded, Latched
  <2> QED
    BY SMTT(30), <1>12, <2>1, <2>2, FrameFields, WordArithmetic DEF Forward, Forwarded, Latched
<1>13. ASSUME NEW f \in Flushers, FlushLock(f)
      PROVE  TypeOK'
  <2>1. pc' \in [Procs -> PCs]
    BY <1>13 DEF FlushLock, Present
  <2>2. frame' \in [Procs -> Frames]
    BY <1>13 DEF FlushLock, Present
  <2> QED
    BY <1>13, <2>1, <2>2, FrameFields DEF FlushLock, Present
<1>14. ASSUME NEW f \in Flushers, NEW n \in Names, Visit(f, n)
      PROVE  TypeOK'
  <2>1. pc' \in [Procs -> PCs]
    BY <1>14 DEF Visit
  <2>2. frame' \in [Procs -> Frames]
    <3>1. CASE counters[n] = None
      BY <1>14, <3>1 DEF Visit
    <3>2. CASE counters[n] # None
      <4>1. [frame[f] EXCEPT !.obj = counters[n], !.ret = "visit"] \in Frames
        BY FrameTypes, FrameFields
      <4>2. frame' = [frame EXCEPT ![f].obj = counters[n], ![f].ret = "visit"]
        BY <1>14, <3>2 DEF Visit
      <4>3. frame \in [Procs -> Frames] /\ f \in Procs
        OBVIOUS
      <4> QED
        BY ONLY SMTT(30), <4>1, <4>2, <4>3
    <3> QED
      BY <3>1, <3>2
  <2> QED
    BY <1>14, <2>1, <2>2, FrameFields DEF Visit
<1>15. ASSUME NEW f \in Flushers, FlushUnlock(f)
      PROVE  TypeOK'
  <2>1. pc' \in [Procs -> PCs]
    BY <1>15 DEF FlushUnlock
  <2>2. frame' \in [Procs -> Frames]
    BY <1>15 DEF FlushUnlock
  <2> QED
    BY <1>15, <2>1, <2>2, FrameFields DEF FlushUnlock
<1>16. ASSUME NEW f \in Flushers, VisitActive(f)
      PROVE  TypeOK'
  <2>1. pc' \in [Procs -> PCs] /\ frame' \in [Procs -> Frames]
    BY <1>16, ReturnType DEF VisitActive
  <2>3. Latched(f) \in Nat
    BY LatchedType
  <2>4. reported' \in [Names -> Nat]
    BY <1>16, <2>3 DEF VisitActive, Report
  <2> QED
    BY <1>16, <2>1, <2>4 DEF VisitActive, Report, ResetIdle
<1>17. ASSUME NEW f \in Flushers, VisitIdle(f)
      PROVE  TypeOK'
  <2>1. pc' \in [Procs -> PCs] /\ frame' \in [Procs -> Frames]
    BY <1>17, ReturnType DEF VisitIdle
  <2> QED
    BY <1>17, <2>1, FrameFields DEF VisitIdle, NextIdle
<1>18. ASSUME NEW f \in Flushers, Delete(f)
      PROVE  TypeOK'
  <2>1. pc' \in [Procs -> PCs]
    BY <1>18 DEF Delete
  <2>2. frame' \in [Procs -> Frames]
    BY <1>18 DEF Delete
  <2> QED
    BY <1>18, <2>1, <2>2, FrameFields DEF Delete
<1>19. ASSUME NEW f \in Flushers, Detach(f)
      PROVE  TypeOK'
  <2>1. pc' \in [Procs -> PCs]
    BY <1>19 DEF Detach
  <2>2. frame' \in [Procs -> Frames]
    BY <1>19, NoFrameType, FrameTypes, FrameFields DEF Detach
  <2> QED
    BY SMTT(30), <1>19, <2>1, <2>2, FrameFields DEF Detach
<1>20. ASSUME NEW f \in Flushers, RecheckActive(f)
      PROVE  TypeOK'
  <2>1. pc' \in [Procs -> PCs]
    BY <1>20 DEF RecheckActive, Report, ResetIdle, Latched
  <2>2. frame' \in [Procs -> Frames]
    BY <1>20 DEF RecheckActive, Report, ResetIdle, Latched
  <2>3. Latched(f) \in Nat
    BY LatchedType
  <2>4. reported' \in [Names -> Nat]
    BY <1>20, <2>3 DEF RecheckActive, Report
  <2> QED
    BY <1>20, <2>1, <2>2, <2>4 DEF RecheckActive, Report, ResetIdle
<1>21. ASSUME NEW f \in Flushers, RecheckIdle(f)
      PROVE  TypeOK'
  <2>1. pc' \in [Procs -> PCs] /\ frame' \in [Procs -> Frames]
    BY <1>21, ReturnType DEF RecheckIdle
  <2> QED
    BY <1>21, <2>1, FrameFields DEF RecheckIdle
<1>22. CASE UNCHANGED vars
  BY <1>22 DEF vars
<1> QED
  BY <1>1, <1>2, <1>3, <1>4, <1>5, <1>6, <1>7, <1>8, <1>9, <1>10, <1>11, <1>12,
     <1>13, <1>14, <1>15, <1>16, <1>17, <1>18, <1>19, <1>20, <1>21, <1>22
        DEF Next, WriterStep, FlusherStep, Lookup, Write, Call, Rejoin, Latch, Visits

(* Every step keeps CallsOK.                                                *)
LEMMA CallsStep ==
  ASSUME TypeOK, CallsOK, OccupantsOK, [Next]_vars
  PROVE  CallsOK'
<1> USE ConstantsAssumption
        DEF TypeOK, CallsOK, Namesakes, OccupantsOK, Goto, Return, NoFrame, Frames, objects,
            history, Procs, PCs, LatchSteps, LatchUses
<1>1. ASSUME NEW w \in Writers, NEW n \in Names, LookupHit(w, n)
      PROVE  CallsOK'
  BY <1>1 DEF LookupHit
<1>2. ASSUME NEW w \in Writers, NEW n \in Names, LookupMiss(w, n)
      PROVE  CallsOK'
  BY <1>2 DEF LookupMiss
<1>3. ASSUME NEW w \in Writers, Create(w)
      PROVE  CallsOK'
  BY <1>3 DEF Create, LoadOrStore
<1>4. ASSUME NEW w \in Writers, NEW c \in Counters, NEW d \in Deltas, Add(w, c, d)
      PROVE  CallsOK'
  BY <1>4 DEF Add, WriteValue
<1>5. ASSUME NEW w \in Writers, NEW c \in Counters, NEW v \in SetValues, Set(w, c, v)
      PROVE  CallsOK'
  BY <1>5 DEF Set, WriteValue
<1>6. ASSUME NEW p \in Procs, MaybeRejoin(p)
      PROVE  CallsOK'
  <2>1. CASE NeedsRejoin(frame[p].obj)
    BY <1>6, <2>1 DEF MaybeRejoin
  <2>2. CASE ~NeedsRejoin(frame[p].obj)
    BY <1>6, <2>2 DEF MaybeRejoin
  <2> QED
    BY <2>1, <2>2
<1>7. ASSUME NEW p \in Procs, RejoinAttach(p)
      PROVE  CallsOK'
  BY <1>7 DEF RejoinAttach
<1>8. ASSUME NEW p \in Procs, RejoinOther(p)
      PROVE  CallsOK'
  <2>1. PICK other : other = counters[NameOf[frame[p].obj]]
    OBVIOUS
  <2>2. /\ pc[p] = "rejoin" /\ pc' = [pc EXCEPT ![p] = "load"] /\ held' = held
        /\ frame' = [frame EXCEPT ![p].other = other, ![p].ret = "fold"]
    BY <1>8, <2>1 DEF RejoinOther
  <2>3. frame[p].obj \in held /\ other \in held /\ NameOf[other] = NameOf[frame[p].obj]
    BY <1>8, <2>1 DEF RejoinOther
  <2>4. /\ pc'[p] = "load" /\ frame'[p].obj = frame[p].obj
        /\ frame'[p].other = other /\ frame'[p].ret = "fold"
    BY <2>2
  <2>5. \A q \in Procs \ {p} : pc'[q] = pc[q] /\ frame'[q] = frame[q]
    BY <2>2
  <2> QED
    BY <2>2, <2>3, <2>4, <2>5
<1>9. ASSUME NEW p \in Procs, LatchLoad(p)
      PROVE  CallsOK'
  BY <1>9 DEF LatchLoad
<1>10. ASSUME NEW p \in Procs, LatchLoadLast(p)
      PROVE  CallsOK'
  BY <1>10 DEF LatchLoadLast
<1>11. ASSUME NEW p \in Procs, LatchCas(p)
      PROVE  CallsOK'
  BY <1>11 DEF LatchCas
<1>12. ASSUME NEW p \in Procs, Forward(p)
      PROVE  CallsOK'
  BY <1>12 DEF Forward
<1>13. ASSUME NEW f \in Flushers, FlushLock(f)
      PROVE  CallsOK'
  BY <1>13 DEF FlushLock, FlushMuFree
<1>14. ASSUME NEW f \in Flushers, NEW n \in Names, Visit(f, n)
      PROVE  CallsOK'
  BY <1>14 DEF Visit
<1>15. ASSUME NEW f \in Flushers, FlushUnlock(f)
      PROVE  CallsOK'
  BY <1>15 DEF FlushUnlock
<1>16. ASSUME NEW f \in Flushers, VisitActive(f)
      PROVE  CallsOK'
  BY <1>16 DEF VisitActive, Report
<1>17. ASSUME NEW f \in Flushers, VisitIdle(f)
      PROVE  CallsOK'
  BY <1>17 DEF VisitIdle
<1>18. ASSUME NEW f \in Flushers, Delete(f)
      PROVE  CallsOK'
  BY <1>18 DEF Delete
<1>19. ASSUME NEW f \in Flushers, Detach(f)
      PROVE  CallsOK'
  BY <1>19 DEF Detach
<1>20. ASSUME NEW f \in Flushers, RecheckActive(f)
      PROVE  CallsOK'
  BY <1>20 DEF RecheckActive, Report
<1>21. ASSUME NEW f \in Flushers, RecheckIdle(f)
      PROVE  CallsOK'
  BY <1>21 DEF RecheckIdle
<1>22. CASE UNCHANGED vars
  BY <1>22 DEF vars
<1> QED
  BY <1>1, <1>2, <1>3, <1>4, <1>5, <1>6, <1>7, <1>8, <1>9, <1>10, <1>11, <1>12,
     <1>13, <1>14, <1>15, <1>16, <1>17, <1>18, <1>19, <1>20, <1>21, <1>22
        DEF Next, WriterStep, FlusherStep, Lookup, Write, Call, Rejoin, Latch, Visits

(* Every step keeps OccupantsOK.                                            *)
LEMMA OccupantsStep ==
  ASSUME TypeOK, CallsOK, OccupantsOK, [Next]_vars
  PROVE  OccupantsOK'
<1> USE ConstantsAssumption
        DEF TypeOK, CallsOK, OccupantsOK, Goto, Return, objects, history, Procs, PCs
<1>1. ASSUME NEW w \in Writers, NEW n \in Names, LookupHit(w, n)
      PROVE  OccupantsOK'
  BY <1>1 DEF LookupHit
<1>2. ASSUME NEW w \in Writers, NEW n \in Names, LookupMiss(w, n)
      PROVE  OccupantsOK'
  BY <1>2 DEF LookupMiss
<1>3. ASSUME NEW w \in Writers, Create(w)
      PROVE  OccupantsOK'
  BY <1>3 DEF Create, LoadOrStore
<1>4. ASSUME NEW w \in Writers, NEW c \in Counters, NEW d \in Deltas, Add(w, c, d)
      PROVE  OccupantsOK'
  BY <1>4 DEF Add, WriteValue
<1>5. ASSUME NEW w \in Writers, NEW c \in Counters, NEW v \in SetValues, Set(w, c, v)
      PROVE  OccupantsOK'
  BY <1>5 DEF Set, WriteValue
<1>6. ASSUME NEW p \in Procs, MaybeRejoin(p)
      PROVE  OccupantsOK'
  BY <1>6 DEF MaybeRejoin
<1>7. ASSUME NEW p \in Procs, RejoinAttach(p)
      PROVE  OccupantsOK'
  BY <1>7 DEF RejoinAttach
<1>8. ASSUME NEW p \in Procs, RejoinOther(p)
      PROVE  OccupantsOK'
  BY <1>8 DEF RejoinOther
<1>9. ASSUME NEW p \in Procs, LatchLoad(p)
      PROVE  OccupantsOK'
  BY <1>9 DEF LatchLoad
<1>10. ASSUME NEW p \in Procs, LatchLoadLast(p)
      PROVE  OccupantsOK'
  BY <1>10 DEF LatchLoadLast
<1>11. ASSUME NEW p \in Procs, LatchCas(p)
      PROVE  OccupantsOK'
  BY <1>11 DEF LatchCas
<1>12. ASSUME NEW p \in Procs, Forward(p)
      PROVE  OccupantsOK'
  BY <1>12 DEF Forward
<1>13. ASSUME NEW f \in Flushers, FlushLock(f)
      PROVE  OccupantsOK'
  BY <1>13 DEF FlushLock, FlushMuFree
<1>14. ASSUME NEW f \in Flushers, NEW n \in Names, Visit(f, n)
      PROVE  OccupantsOK'
  BY <1>14 DEF Visit
<1>15. ASSUME NEW f \in Flushers, FlushUnlock(f)
      PROVE  OccupantsOK'
  BY <1>15 DEF FlushUnlock
<1>16. ASSUME NEW f \in Flushers, VisitActive(f)
      PROVE  OccupantsOK'
  BY <1>16 DEF VisitActive, Report
<1>17. ASSUME NEW f \in Flushers, VisitIdle(f)
      PROVE  OccupantsOK'
  BY <1>17 DEF VisitIdle
<1>18. ASSUME NEW f \in Flushers, Delete(f)
      PROVE  OccupantsOK'
  BY <1>18 DEF Delete
<1>19. ASSUME NEW f \in Flushers, Detach(f)
      PROVE  OccupantsOK'
  BY <1>19 DEF Detach
<1>20. ASSUME NEW f \in Flushers, RecheckActive(f)
      PROVE  OccupantsOK'
  BY <1>20 DEF RecheckActive, Report
<1>21. ASSUME NEW f \in Flushers, RecheckIdle(f)
      PROVE  OccupantsOK'
  BY <1>21 DEF RecheckIdle
<1>22. CASE UNCHANGED vars
  BY <1>22 DEF vars
<1> QED
  BY <1>1, <1>2, <1>3, <1>4, <1>5, <1>6, <1>7, <1>8, <1>9, <1>10, <1>11, <1>12,
     <1>13, <1>14, <1>15, <1>16, <1>17, <1>18, <1>19, <1>20, <1>21, <1>22
        DEF Next, WriterStep, FlusherStep, Lookup, Write, Call, Rejoin, Latch, Visits

(* Every step keeps FlushSerialized: only FlushLock enters Flush, and it    *)
(* finds flushMu free.                                                      *)
LEMMA SerializedStep ==
  ASSUME TypeOK, CallsOK, FlushSerialized, [Next]_vars
  PROVE  FlushSerialized'
<1> USE ConstantsAssumption
        DEF TypeOK, CallsOK, FlushSerialized, Goto, Return, objects, history, Procs, PCs
<1>1. ASSUME NEW w \in Writers, NEW n \in Names, LookupHit(w, n)
      PROVE  FlushSerialized'
  BY <1>1 DEF LookupHit
<1>2. ASSUME NEW w \in Writers, NEW n \in Names, LookupMiss(w, n)
      PROVE  FlushSerialized'
  BY <1>2 DEF LookupMiss
<1>3. ASSUME NEW w \in Writers, Create(w)
      PROVE  FlushSerialized'
  BY <1>3 DEF Create, LoadOrStore
<1>4. ASSUME NEW w \in Writers, NEW c \in Counters, NEW d \in Deltas, Add(w, c, d)
      PROVE  FlushSerialized'
  BY <1>4 DEF Add, WriteValue
<1>5. ASSUME NEW w \in Writers, NEW c \in Counters, NEW v \in SetValues, Set(w, c, v)
      PROVE  FlushSerialized'
  BY <1>5 DEF Set, WriteValue
<1>6. ASSUME NEW p \in Procs, MaybeRejoin(p)
      PROVE  FlushSerialized'
  BY <1>6 DEF MaybeRejoin
<1>7. ASSUME NEW p \in Procs, RejoinAttach(p)
      PROVE  FlushSerialized'
  BY <1>7 DEF RejoinAttach
<1>8. ASSUME NEW p \in Procs, RejoinOther(p)
      PROVE  FlushSerialized'
  BY <1>8 DEF RejoinOther
<1>9. ASSUME NEW p \in Procs, LatchLoad(p)
      PROVE  FlushSerialized'
  BY <1>9 DEF LatchLoad
<1>10. ASSUME NEW p \in Procs, LatchLoadLast(p)
      PROVE  FlushSerialized'
  BY <1>10 DEF LatchLoadLast
<1>11. ASSUME NEW p \in Procs, LatchCas(p)
      PROVE  FlushSerialized'
  BY <1>11 DEF LatchCas
<1>12. ASSUME NEW p \in Procs, Forward(p)
      PROVE  FlushSerialized'
  BY <1>12 DEF Forward
<1>13. ASSUME NEW f \in Flushers, FlushLock(f)
      PROVE  FlushSerialized'
  BY <1>13 DEF FlushLock, FlushMuFree
<1>14. ASSUME NEW f \in Flushers, NEW n \in Names, Visit(f, n)
      PROVE  FlushSerialized'
  BY <1>14 DEF Visit
<1>15. ASSUME NEW f \in Flushers, FlushUnlock(f)
      PROVE  FlushSerialized'
  BY <1>15 DEF FlushUnlock
<1>16. ASSUME NEW f \in Flushers, VisitActive(f)
      PROVE  FlushSerialized'
  BY <1>16 DEF VisitActive, Report
<1>17. ASSUME NEW f \in Flushers, VisitIdle(f)
      PROVE  FlushSerialized'
  BY <1>17 DEF VisitIdle
<1>18. ASSUME NEW f \in Flushers, Delete(f)
      PROVE  FlushSerialized'
  BY <1>18 DEF Delete
<1>19. ASSUME NEW f \in Flushers, Detach(f)
      PROVE  FlushSerialized'
  BY <1>19 DEF Detach
<1>20. ASSUME NEW f \in Flushers, RecheckActive(f)
      PROVE  FlushSerialized'
  BY <1>20 DEF RecheckActive, Report
<1>21. ASSUME NEW f \in Flushers, RecheckIdle(f)
      PROVE  FlushSerialized'
  BY <1>21 DEF RecheckIdle
<1>22. CASE UNCHANGED vars
  BY <1>22 DEF vars
<1> QED
  BY <1>1, <1>2, <1>3, <1>4, <1>5, <1>6, <1>7, <1>8, <1>9, <1>10, <1>11, <1>12,
     <1>13, <1>14, <1>15, <1>16, <1>17, <1>18, <1>19, <1>20, <1>21, <1>22
        DEF Next, WriterStep, FlusherStep, Lookup, Write, Call, Rejoin, Latch, Visits

(* Every step keeps VisitedInMap: the one step that empties a name is       *)
(* Delete, of the flusher that owns flushMu.                                *)
LEMMA VisitedStep ==
  ASSUME TypeOK, CallsOK, OccupantsOK, FlushSerialized, VisitedInMap, [Next]_vars
  PROVE  VisitedInMap'
<1> USE ConstantsAssumption
        DEF TypeOK, CallsOK, OccupantsOK, FlushSerialized, VisitedInMap, Visiting,
            InMap, Goto, Return, NoFrame, Frames, objects, history, Procs, PCs,
            LatchSteps, LatchUses
<1>1. ASSUME NEW w \in Writers, NEW n \in Names, LookupHit(w, n)
      PROVE  VisitedInMap'
  BY <1>1 DEF LookupHit
<1>2. ASSUME NEW w \in Writers, NEW n \in Names, LookupMiss(w, n)
      PROVE  VisitedInMap'
  BY <1>2 DEF LookupMiss
<1>3. ASSUME NEW w \in Writers, Create(w)
      PROVE  VisitedInMap'
  BY <1>3 DEF Create, LoadOrStore
<1>4. ASSUME NEW w \in Writers, NEW c \in Counters, NEW d \in Deltas, Add(w, c, d)
      PROVE  VisitedInMap'
  BY <1>4 DEF Add, WriteValue
<1>5. ASSUME NEW w \in Writers, NEW c \in Counters, NEW v \in SetValues, Set(w, c, v)
      PROVE  VisitedInMap'
  BY <1>5 DEF Set, WriteValue
<1>6. ASSUME NEW p \in Procs, MaybeRejoin(p)
      PROVE  VisitedInMap'
  BY <1>6 DEF MaybeRejoin
<1>7. ASSUME NEW p \in Procs, RejoinAttach(p)
      PROVE  VisitedInMap'
  BY <1>7 DEF RejoinAttach
<1>8. ASSUME NEW p \in Procs, RejoinOther(p)
      PROVE  VisitedInMap'
  BY <1>8 DEF RejoinOther
<1>9. ASSUME NEW p \in Procs, LatchLoad(p)
      PROVE  VisitedInMap'
  BY <1>9 DEF LatchLoad
<1>10. ASSUME NEW p \in Procs, LatchLoadLast(p)
      PROVE  VisitedInMap'
  BY <1>10 DEF LatchLoadLast
<1>11. ASSUME NEW p \in Procs, LatchCas(p)
      PROVE  VisitedInMap'
  BY <1>11 DEF LatchCas
<1>12. ASSUME NEW p \in Procs, Forward(p)
      PROVE  VisitedInMap'
  BY <1>12 DEF Forward
<1>13. ASSUME NEW f \in Flushers, FlushLock(f)
      PROVE  VisitedInMap'
  BY <1>13 DEF FlushLock, FlushMuFree
<1>14. ASSUME NEW f \in Flushers, NEW n \in Names, Visit(f, n)
      PROVE  VisitedInMap'
  BY <1>14 DEF Visit
<1>15. ASSUME NEW f \in Flushers, FlushUnlock(f)
      PROVE  VisitedInMap'
  BY <1>15 DEF FlushUnlock
<1>16. ASSUME NEW f \in Flushers, VisitActive(f)
      PROVE  VisitedInMap'
  BY <1>16 DEF VisitActive, Report
<1>17. ASSUME NEW f \in Flushers, VisitIdle(f)
      PROVE  VisitedInMap'
  BY <1>17 DEF VisitIdle
<1>18. ASSUME NEW f \in Flushers, Delete(f)
      PROVE  VisitedInMap'
  BY <1>18 DEF Delete
<1>19. ASSUME NEW f \in Flushers, Detach(f)
      PROVE  VisitedInMap'
  BY <1>19 DEF Detach
<1>20. ASSUME NEW f \in Flushers, RecheckActive(f)
      PROVE  VisitedInMap'
  BY <1>20 DEF RecheckActive, Report
<1>21. ASSUME NEW f \in Flushers, RecheckIdle(f)
      PROVE  VisitedInMap'
  BY <1>21 DEF RecheckIdle
<1>22. CASE UNCHANGED vars
  BY <1>22 DEF vars
<1> QED
  BY <1>1, <1>2, <1>3, <1>4, <1>5, <1>6, <1>7, <1>8, <1>9, <1>10, <1>11, <1>12,
     <1>13, <1>14, <1>15, <1>16, <1>17, <1>18, <1>19, <1>20, <1>21, <1>22
        DEF Next, WriterStep, FlusherStep, Lookup, Write, Call, Rejoin, Latch, Visits

(* Every step keeps Attached: Delete hands over to Detach, and VisitActive  *)
(* clears detached only of an occupant.                                     *)
LEMMA AttachedStep ==
  ASSUME TypeOK, CallsOK, OccupantsOK, FlushSerialized, VisitedInMap, Attached, [Next]_vars
  PROVE  Attached'
<1> USE ConstantsAssumption
        DEF TypeOK, CallsOK, OccupantsOK, VisitedInMap, Visiting, Attached, InMap,
            Goto, Return, NoFrame, Frames, objects, history, Procs, PCs, LatchSteps,
            LatchUses
<1>1. ASSUME NEW w \in Writers, NEW n \in Names, LookupHit(w, n)
      PROVE  Attached'
  BY <1>1 DEF LookupHit
<1>2. ASSUME NEW w \in Writers, NEW n \in Names, LookupMiss(w, n)
      PROVE  Attached'
  BY <1>2 DEF LookupMiss
<1>3. ASSUME NEW w \in Writers, Create(w)
      PROVE  Attached'
  BY <1>3 DEF Create, LoadOrStore
<1>4. ASSUME NEW w \in Writers, NEW c \in Counters, NEW d \in Deltas, Add(w, c, d)
      PROVE  Attached'
  BY <1>4 DEF Add, WriteValue
<1>5. ASSUME NEW w \in Writers, NEW c \in Counters, NEW v \in SetValues, Set(w, c, v)
      PROVE  Attached'
  BY <1>5 DEF Set, WriteValue
<1>6. ASSUME NEW p \in Procs, MaybeRejoin(p)
      PROVE  Attached'
  BY <1>6 DEF MaybeRejoin
<1>7. ASSUME NEW p \in Procs, RejoinAttach(p)
      PROVE  Attached'
  BY <1>7 DEF RejoinAttach
<1>8. ASSUME NEW p \in Procs, RejoinOther(p)
      PROVE  Attached'
  BY <1>8 DEF RejoinOther
<1>9. ASSUME NEW p \in Procs, LatchLoad(p)
      PROVE  Attached'
  BY <1>9 DEF LatchLoad
<1>10. ASSUME NEW p \in Procs, LatchLoadLast(p)
      PROVE  Attached'
  BY <1>10 DEF LatchLoadLast
<1>11. ASSUME NEW p \in Procs, LatchCas(p)
      PROVE  Attached'
  BY <1>11 DEF LatchCas
<1>12. ASSUME NEW p \in Procs, Forward(p)
      PROVE  Attached'
  BY <1>12 DEF Forward
<1>13. ASSUME NEW f \in Flushers, FlushLock(f)
      PROVE  Attached'
  BY <1>13 DEF FlushLock, FlushMuFree
<1>14. ASSUME NEW f \in Flushers, NEW n \in Names, Visit(f, n)
      PROVE  Attached'
  BY <1>14 DEF Visit
<1>15. ASSUME NEW f \in Flushers, FlushUnlock(f)
      PROVE  Attached'
  BY <1>15 DEF FlushUnlock
<1>16. ASSUME NEW f \in Flushers, VisitActive(f)
      PROVE  Attached'
  BY <1>16 DEF VisitActive, Report
<1>17. ASSUME NEW f \in Flushers, VisitIdle(f)
      PROVE  Attached'
  BY <1>17 DEF VisitIdle
<1>18. ASSUME NEW f \in Flushers, Delete(f)
      PROVE  Attached'
  BY <1>18 DEF Delete
<1>19. ASSUME NEW f \in Flushers, Detach(f)
      PROVE  Attached'
  BY <1>19 DEF Detach
<1>20. ASSUME NEW f \in Flushers, RecheckActive(f)
      PROVE  Attached'
  BY <1>20 DEF RecheckActive, Report
<1>21. ASSUME NEW f \in Flushers, RecheckIdle(f)
      PROVE  Attached'
  BY <1>21 DEF RecheckIdle
<1>22. CASE UNCHANGED vars
  BY <1>22 DEF vars
<1> QED
  BY <1>1, <1>2, <1>3, <1>4, <1>5, <1>6, <1>7, <1>8, <1>9, <1>10, <1>11, <1>12,
     <1>13, <1>14, <1>15, <1>16, <1>17, <1>18, <1>19, <1>20, <1>21, <1>22
        DEF Next, WriterStep, FlusherStep, Lookup, Write, Call, Rejoin, Latch, Visits

(* The inductive invariant: IInv holds of every reachable state.            *)
THEOREM Invariance == Spec => []IInv
<1>1. Init => IInv
  <2> SUFFICES ASSUME Init
               PROVE  IInv
    OBVIOUS
  <2>1. TypeOK
    BY ConstantsAssumption, NoFrameType DEF Init, TypeOK, Word, PCs, Procs
  <2>2. CallsOK /\ OccupantsOK /\ FlushSerialized /\ VisitedInMap /\ Attached
    BY ConstantsAssumption
       DEF Init, CallsOK, OccupantsOK, FlushSerialized, VisitedInMap, Visiting,
           Attached,
           LatchSteps, LatchUses, Procs, NoFrame
  <2> QED
    BY <2>1, <2>2 DEF IInv
<1>2. IInv /\ [Next]_vars => IInv'
  BY TypeStep, CallsStep, OccupantsStep, SerializedStep, VisitedStep, AttachedStep
     DEF IInv
<1> QED
  BY <1>1, <1>2, PTL DEF Spec

(* Every variable keeps its type; in particular the values of a counter     *)
(* stay within 64 bits and what Flush reports is never negative.            *)
THEOREM TypeCorrect == Spec => []TypeOK
BY Invariance, PTL DEF IInv

(* No counter that anybody holds is ever orphaned (rejoin, flushMu).        *)
THEOREM NeverOrphaned == Spec => []Attached
BY Invariance, PTL DEF IInv

(* Two calls of Flush never visit the counters at the same time (flushMu).  *)
THEOREM FlushesSerialized == Spec => []FlushSerialized
BY Invariance, PTL DEF IInv

-----------------------------------------------------------------------------
(* Pruning and the count of idle flushes.                                   *)

(* The count a counter keeps is the number of flushes that found nothing in *)
(* it, and Flush reaches its deletion only with pruning enabled.            *)
QuietOK ==
  /\ \A c \in Counters :
       quiet[c] = IF idleFlushes[c] < PruneAfter THEN idleFlushes[c] ELSE PruneAfter
  /\ \A f \in Flushers :
       pc[f] = "delete" => PruneAfter > 0 /\ quiet[frame[f].obj] >= PruneAfter
  /\ \A f \in Flushers : pc[f] = "detach" => PruneAfter > 0
  /\ \A c \in Counters : detached[c] => PruneAfter > 0

(* Every step keeps QuietOK.                                                *)
LEMMA QuietStep ==
  ASSUME IInv, QuietOK, [Next]_vars
  PROVE  QuietOK'
<1> USE ConstantsAssumption
        DEF IInv, TypeOK, CallsOK, FlushSerialized, QuietOK, Goto, Return, NoFrame,
            objects, history, Procs, PCs, LatchSteps, LatchUses
<1>1. ASSUME NEW w \in Writers, NEW n \in Names, LookupHit(w, n)
      PROVE  QuietOK'
  BY <1>1 DEF LookupHit
<1>2. ASSUME NEW w \in Writers, NEW n \in Names, LookupMiss(w, n)
      PROVE  QuietOK'
  BY <1>2 DEF LookupMiss
<1>3. ASSUME NEW w \in Writers, Create(w)
      PROVE  QuietOK'
  BY <1>3 DEF Create, LoadOrStore
<1>4. ASSUME NEW w \in Writers, NEW c \in Counters, NEW d \in Deltas, Add(w, c, d)
      PROVE  QuietOK'
  BY <1>4 DEF Add, WriteValue
<1>5. ASSUME NEW w \in Writers, NEW c \in Counters, NEW v \in SetValues, Set(w, c, v)
      PROVE  QuietOK'
  BY <1>5 DEF Set, WriteValue
<1>6. ASSUME NEW p \in Procs, MaybeRejoin(p)
      PROVE  QuietOK'
  BY <1>6 DEF MaybeRejoin
<1>7. ASSUME NEW p \in Procs, RejoinAttach(p)
      PROVE  QuietOK'
  BY <1>7 DEF RejoinAttach
<1>8. ASSUME NEW p \in Procs, RejoinOther(p)
      PROVE  QuietOK'
  BY <1>8 DEF RejoinOther
<1>9. ASSUME NEW p \in Procs, LatchLoad(p)
      PROVE  QuietOK'
  BY <1>9 DEF LatchLoad
<1>10. ASSUME NEW p \in Procs, LatchLoadLast(p)
      PROVE  QuietOK'
  BY <1>10 DEF LatchLoadLast
<1>11. ASSUME NEW p \in Procs, LatchCas(p)
      PROVE  QuietOK'
  BY <1>11 DEF LatchCas
<1>12. ASSUME NEW p \in Procs, Forward(p)
      PROVE  QuietOK'
  BY <1>12 DEF Forward
<1>13. ASSUME NEW f \in Flushers, FlushLock(f)
      PROVE  QuietOK'
  BY <1>13 DEF FlushLock, FlushMuFree
<1>14. ASSUME NEW f \in Flushers, NEW n \in Names, Visit(f, n)
      PROVE  QuietOK'
  BY <1>14 DEF Visit
<1>15. ASSUME NEW f \in Flushers, FlushUnlock(f)
      PROVE  QuietOK'
  BY <1>15 DEF FlushUnlock
<1>16. ASSUME NEW f \in Flushers, VisitActive(f)
      PROVE  QuietOK'
  BY <1>16 DEF VisitActive, Report, ResetIdle
<1>17. ASSUME NEW f \in Flushers, VisitIdle(f)
      PROVE  QuietOK'
  <2>1. CASE PruneAfter = 0
    BY <1>17, <2>1 DEF VisitIdle
  <2>2. CASE PruneAfter # 0
    <3> DEFINE c == frame[f].obj
    <3>1. c \in Counters /\ pc[f] = "visit"
      BY <1>17 DEF VisitIdle
    <3>2. /\ idleFlushes' = [idleFlushes EXCEPT ![c] = @ + 1]
          /\ quiet' = [quiet EXCEPT ![c] = IF @ < PruneAfter THEN @ + 1 ELSE @]
          /\ detached' = detached
      BY <1>17, <2>2 DEF VisitIdle, NextIdle
    <3>3. \A x \in Counters :
            quiet'[x] = IF idleFlushes'[x] < PruneAfter THEN idleFlushes'[x] ELSE PruneAfter
      BY <3>1, <3>2
    <3>4. CASE BelowThreshold(c)
      <4>1. pc' = [pc EXCEPT ![f] = "range"] /\ frame' = [frame EXCEPT ![f] = NoFrame]
        BY <1>17, <2>2, <3>4 DEF VisitIdle
      <4>2. \A g \in Flushers : g # f => pc[g] = "idle"
        BY <3>1
      <4> QED
        BY <3>2, <3>3, <4>1, <4>2
    <3>5. CASE ~BelowThreshold(c)
      <4>1. pc' = [pc EXCEPT ![f] = "delete"] /\ frame' = frame
        BY <1>17, <2>2, <3>5 DEF VisitIdle
      <4>2. \A g \in Flushers : g # f => pc[g] = "idle"
        BY <3>1
      <4>3. quiet'[c] >= PruneAfter
        BY <3>1, <3>2, <3>3, <3>5 DEF BelowThreshold, NextIdle
      <4> QED
        BY <2>2, <3>2, <3>3, <4>1, <4>2, <4>3
    <3> QED
      BY <3>4, <3>5
  <2> QED
    BY <2>1, <2>2
<1>18. ASSUME NEW f \in Flushers, Delete(f)
      PROVE  QuietOK'
  BY <1>18 DEF Delete
<1>19. ASSUME NEW f \in Flushers, Detach(f)
      PROVE  QuietOK'
  BY <1>19 DEF Detach
<1>20. ASSUME NEW f \in Flushers, RecheckActive(f)
      PROVE  QuietOK'
  BY <1>20 DEF RecheckActive, Report, ResetIdle
<1>21. ASSUME NEW f \in Flushers, RecheckIdle(f)
      PROVE  QuietOK'
  BY <1>21 DEF RecheckIdle
<1>22. CASE UNCHANGED vars
  BY <1>22 DEF vars
<1> QED
  BY <1>1, <1>2, <1>3, <1>4, <1>5, <1>6, <1>7, <1>8, <1>9, <1>10, <1>11, <1>12,
     <1>13, <1>14, <1>15, <1>16, <1>17, <1>18, <1>19, <1>20, <1>21, <1>22
        DEF Next, WriterStep, FlusherStep, Lookup, Write, Call, Rejoin, Latch, Visits

(* QuietOK holds of every reachable state.                                  *)
LEMMA QuietInvariance == Spec => []QuietOK
<1>1. Init => QuietOK
  BY ConstantsAssumption DEF Init, QuietOK, Procs
<1>2. IInv /\ QuietOK /\ [Next]_vars => QuietOK'
  BY QuietStep
<1> QED
  BY <1>1, <1>2, Invariance, PTL DEF Spec

(* A counter is pruned only after PruneAfter idle flushes.                  *)
THEOREM PrunesOnlyIdle == Spec => []PrunedOnlyWhenIdle
<1>1. QuietOK => PrunedOnlyWhenIdle
  BY DEF QuietOK, PrunedOnlyWhenIdle
<1> QED
  BY <1>1, QuietInvariance, PTL

(* A name loses its object only to the Flush that found it idle: nobody     *)
(* stores over an occupied name, and VisitedInMap says that what Delete      *)
(* removes is what that Flush visited.                                      *)
THEOREM NamesKept == Spec => NameKeepsItsCounter
<1> DEFINE Keeps == \A n \in Names : counters[n] \notin {None, counters'[n]} =>
             /\ PruneAfter > 0
             /\ \E f \in Flushers : pc[f] = "delete" /\ frame[f].obj = counters[n]
             /\ counters'[n] = None
<1>1. ASSUME IInv, QuietOK, [Next]_vars
      PROVE  [Keeps]_counters
  <2> USE <1>1, ConstantsAssumption DEF IInv, TypeOK, CallsOK, QuietOK, objects, history
  <2>1. ASSUME NEW w \in Writers, NEW n \in Names, LookupHit(w, n)
        PROVE  Keeps
    BY <2>1 DEF LookupHit
  <2>2. ASSUME NEW w \in Writers, NEW n \in Names, LookupMiss(w, n)
        PROVE  Keeps
    BY <2>2 DEF LookupMiss
  <2>3. ASSUME NEW w \in Writers, Create(w)
        PROVE  Keeps
    BY <2>3 DEF Create, LoadOrStore
  <2>4. ASSUME NEW w \in Writers, NEW c \in Counters, NEW d \in Deltas, Add(w, c, d)
        PROVE  Keeps
    BY <2>4 DEF Add, WriteValue
  <2>5. ASSUME NEW w \in Writers, NEW c \in Counters, NEW v \in SetValues, Set(w, c, v)
        PROVE  Keeps
    BY <2>5 DEF Set, WriteValue
  <2>6. ASSUME NEW p \in Procs, MaybeRejoin(p)
        PROVE  Keeps
    BY <2>6 DEF MaybeRejoin
  <2>7. ASSUME NEW p \in Procs, RejoinAttach(p)
        PROVE  Keeps
    BY <2>7 DEF RejoinAttach
  <2>8. ASSUME NEW p \in Procs, RejoinOther(p)
        PROVE  Keeps
    BY <2>8 DEF RejoinOther
  <2>9. ASSUME NEW p \in Procs, LatchLoad(p)
        PROVE  Keeps
    BY <2>9 DEF LatchLoad
  <2>10. ASSUME NEW p \in Procs, LatchLoadLast(p)
        PROVE  Keeps
    BY <2>10 DEF LatchLoadLast
  <2>11. ASSUME NEW p \in Procs, LatchCas(p)
        PROVE  Keeps
    BY <2>11 DEF LatchCas
  <2>12. ASSUME NEW p \in Procs, Forward(p)
        PROVE  Keeps
    BY <2>12 DEF Forward
  <2>13. ASSUME NEW f \in Flushers, FlushLock(f)
        PROVE  Keeps
    BY <2>13 DEF FlushLock, FlushMuFree
  <2>14. ASSUME NEW f \in Flushers, NEW n \in Names, Visit(f, n)
        PROVE  Keeps
    BY <2>14 DEF Visit
  <2>15. ASSUME NEW f \in Flushers, FlushUnlock(f)
        PROVE  Keeps
    BY <2>15 DEF FlushUnlock
  <2>16. ASSUME NEW f \in Flushers, VisitActive(f)
        PROVE  Keeps
    BY <2>16 DEF VisitActive, Report
  <2>17. ASSUME NEW f \in Flushers, VisitIdle(f)
        PROVE  Keeps
    BY <2>17 DEF VisitIdle
  <2>18. ASSUME NEW f \in Flushers, Delete(f)
        PROVE  Keeps
    <3>1. counters[NameOf[frame[f].obj]] = frame[f].obj
      BY <2>18 DEF Delete, VisitedInMap, Visiting, InMap
    <3>2. PruneAfter > 0
      BY <2>18 DEF Delete
    <3> QED
      BY <2>18, <3>1, <3>2 DEF Delete
  <2>19. ASSUME NEW f \in Flushers, Detach(f)
        PROVE  Keeps
    BY <2>19 DEF Detach
  <2>20. ASSUME NEW f \in Flushers, RecheckActive(f)
        PROVE  Keeps
    BY <2>20 DEF RecheckActive, Report
  <2>21. ASSUME NEW f \in Flushers, RecheckIdle(f)
        PROVE  Keeps
    BY <2>21 DEF RecheckIdle
  <2>22. CASE UNCHANGED vars
    BY <2>22 DEF vars
  <2> QED
    BY <2>1, <2>2, <2>3, <2>4, <2>5, <2>6, <2>7, <2>8, <2>9, <2>10, <2>11, <2>12,
       <2>13, <2>14, <2>15, <2>16, <2>17, <2>18, <2>19, <2>20, <2>21, <2>22
          DEF Next, WriterStep, FlusherStep, Lookup, Write, Call, Rejoin, Latch,
              Visits, Procs
<1> QED
  BY <1>1, Invariance, QuietInvariance, PTL DEF Spec, NameKeepsItsCounter

-----------------------------------------------------------------------------
(* Nothing is stranded while every name has one object, the case in which   *)
(* nobody looks a name up again after it was pruned.                        *)

OneObjectPerName == \A c, d \in Counters : NameOf[c] = NameOf[d] => c = d

(* Nobody then forwards: rejoin never finds its name taken.                 *)
NoForwarding == \A p \in Procs : pc[p] # "fold" /\ frame[p].ret # "fold"

(* After Flush has detached a counter, a write its second latch does not    *)
(* see is one whose writer will, or did, reattach the counter.              *)
Writing(c)    == \E p \in Procs : pc[p] \in {"check", "rejoin"} /\ frame[p].obj = c
Rechecking(f) == pc[f] \in LatchSteps \cup {"recheck"} /\ frame[f].ret = "recheck"

RecheckOK ==
  \A f \in Flushers : Rechecking(f) =>
    LET c == frame[f].obj
    IN /\ detached[c]
       /\ pc[f] # "load" => currentValue[c] = frame[f].value \/ InMap(c) \/ Writing(c)
       /\ pc[f] = "recheck" => lastSentValue[c] = frame[f].value

StrandInv == IInv /\ QuietOK /\ NoForwarding /\ RecheckOK

(* Every step keeps NoForwarding: rejoin finds its name free or its own.    *)
LEMMA ForwardingStep ==
  ASSUME OneObjectPerName, IInv, NoForwarding, [Next]_vars
  PROVE  NoForwarding'
<1> USE ConstantsAssumption
        DEF IInv, TypeOK, CallsOK, OccupantsOK, NoForwarding, Goto, Return, NoFrame,
            objects, history, Procs, PCs, LatchSteps, LatchUses
<1>1. ASSUME NEW w \in Writers, NEW n \in Names, LookupHit(w, n)
      PROVE  NoForwarding'
  BY <1>1 DEF LookupHit
<1>2. ASSUME NEW w \in Writers, NEW n \in Names, LookupMiss(w, n)
      PROVE  NoForwarding'
  BY <1>2 DEF LookupMiss
<1>3. ASSUME NEW w \in Writers, Create(w)
      PROVE  NoForwarding'
  BY <1>3 DEF Create, LoadOrStore
<1>4. ASSUME NEW w \in Writers, NEW c \in Counters, NEW d \in Deltas, Add(w, c, d)
      PROVE  NoForwarding'
  BY <1>4 DEF Add, WriteValue
<1>5. ASSUME NEW w \in Writers, NEW c \in Counters, NEW v \in SetValues, Set(w, c, v)
      PROVE  NoForwarding'
  BY <1>5 DEF Set, WriteValue
<1>6. ASSUME NEW p \in Procs, MaybeRejoin(p)
      PROVE  NoForwarding'
  BY <1>6 DEF MaybeRejoin
<1>7. ASSUME NEW p \in Procs, RejoinAttach(p)
      PROVE  NoForwarding'
  BY <1>7 DEF RejoinAttach
<1>8. ASSUME NEW p \in Procs, RejoinOther(p)
      PROVE  NoForwarding'
  BY <1>8 DEF RejoinOther, OneObjectPerName
<1>9. ASSUME NEW p \in Procs, LatchLoad(p)
      PROVE  NoForwarding'
  BY <1>9 DEF LatchLoad
<1>10. ASSUME NEW p \in Procs, LatchLoadLast(p)
      PROVE  NoForwarding'
  BY <1>10 DEF LatchLoadLast
<1>11. ASSUME NEW p \in Procs, LatchCas(p)
      PROVE  NoForwarding'
  BY <1>11 DEF LatchCas
<1>12. ASSUME NEW p \in Procs, Forward(p)
      PROVE  NoForwarding'
  BY <1>12 DEF Forward
<1>13. ASSUME NEW f \in Flushers, FlushLock(f)
      PROVE  NoForwarding'
  BY <1>13 DEF FlushLock, FlushMuFree
<1>14. ASSUME NEW f \in Flushers, NEW n \in Names, Visit(f, n)
      PROVE  NoForwarding'
  <2>1. CASE counters[n] = None
    BY <1>14, <2>1 DEF Visit
  <2>2. CASE counters[n] # None
    <3>1. /\ pc' = [pc EXCEPT ![f] = "load"]
          /\ frame' = [frame EXCEPT ![f].obj = counters[n], ![f].ret = "visit"]
          /\ UNCHANGED <<counters, currentValue, lastSentValue, detached>>
      BY <1>14, <2>2 DEF Visit
    <3>2. frame'[f].ret = "visit"
      BY <3>1, FrameFields DEF Frames
    <3>3. \A q \in Procs : q # f => frame'[q] = frame[q] /\ pc'[q] = pc[q]
      BY <3>1
    <3> QED
      BY <1>14, <3>1, <3>2, <3>3 DEF Visit
  <2> QED
    BY <2>1, <2>2
<1>15. ASSUME NEW f \in Flushers, FlushUnlock(f)
      PROVE  NoForwarding'
  BY <1>15 DEF FlushUnlock
<1>16. ASSUME NEW f \in Flushers, VisitActive(f)
      PROVE  NoForwarding'
  BY <1>16 DEF VisitActive, Report
<1>17. ASSUME NEW f \in Flushers, VisitIdle(f)
      PROVE  NoForwarding'
  BY <1>17 DEF VisitIdle
<1>18. ASSUME NEW f \in Flushers, Delete(f)
      PROVE  NoForwarding'
  BY <1>18 DEF Delete
<1>19. ASSUME NEW f \in Flushers, Detach(f)
      PROVE  NoForwarding'
  BY <1>19 DEF Detach
<1>20. ASSUME NEW f \in Flushers, RecheckActive(f)
      PROVE  NoForwarding'
  BY <1>20 DEF RecheckActive, Report
<1>21. ASSUME NEW f \in Flushers, RecheckIdle(f)
      PROVE  NoForwarding'
  BY <1>21 DEF RecheckIdle
<1>22. CASE UNCHANGED vars
  BY SMTT(30), <1>22 DEF vars
<1> QED
  BY <1>1, <1>2, <1>3, <1>4, <1>5, <1>6, <1>7, <1>8, <1>9, <1>10, <1>11, <1>12,
     <1>13, <1>14, <1>15, <1>16, <1>17, <1>18, <1>19, <1>20, <1>21, <1>22
        DEF Next, WriterStep, FlusherStep, Lookup, Write, Call, Rejoin, Latch, Visits

(* Every step keeps RecheckOK.                                              *)
LEMMA RecheckStep ==
  ASSUME OneObjectPerName, StrandInv, [Next]_vars
  PROVE  RecheckOK'
<1> USE ConstantsAssumption
        DEF StrandInv, IInv, TypeOK, CallsOK, FlushSerialized, NoForwarding,
            RecheckOK, Rechecking, Writing, InMap, Goto, Return, NoFrame, objects,
            history, Procs, PCs, LatchSteps, LatchUses
<1>1. ASSUME NEW w \in Writers, NEW n \in Names, LookupHit(w, n)
      PROVE  RecheckOK'
  BY <1>1 DEF LookupHit
<1>2. ASSUME NEW w \in Writers, NEW n \in Names, LookupMiss(w, n)
      PROVE  RecheckOK'
  BY <1>2 DEF LookupMiss
<1>3. ASSUME NEW w \in Writers, Create(w)
      PROVE  RecheckOK'
  BY <1>3 DEF Create, LoadOrStore
<1>4. ASSUME NEW w \in Writers, NEW c \in Counters, NEW d \in Deltas, Add(w, c, d)
      PROVE  RecheckOK'
  BY <1>4 DEF Add, WriteValue
<1>5. ASSUME NEW w \in Writers, NEW c \in Counters, NEW v \in SetValues, Set(w, c, v)
      PROVE  RecheckOK'
  BY <1>5 DEF Set, WriteValue
<1>6. ASSUME NEW p \in Procs, MaybeRejoin(p)
      PROVE  RecheckOK'
  <2>1. CASE NeedsRejoin(frame[p].obj)
    BY <1>6, <2>1 DEF MaybeRejoin
  <2>2. CASE ~NeedsRejoin(frame[p].obj)
    <3>1. \A g \in Flushers : Rechecking(g) => frame[g].obj # frame[p].obj
      BY <1>6, <2>2 DEF NeedsRejoin, QuietOK, MaybeRejoin
    <3> QED
      BY <1>6, <2>2, <3>1 DEF MaybeRejoin
  <2> QED
    BY <2>1, <2>2
<1>7. ASSUME NEW p \in Procs, RejoinAttach(p)
      PROVE  RecheckOK'
  BY SMTT(30), <1>7 DEF RejoinAttach
<1>8. ASSUME NEW p \in Procs, RejoinOther(p)
      PROVE  RecheckOK'
  <2>1. frame[p].obj \in Counters
    BY <1>8 DEF RejoinOther
  <2>2. counters[NameOf[frame[p].obj]] \in {None, frame[p].obj}
    BY <2>1 DEF OneObjectPerName, OccupantsOK
  <2> QED
    BY <1>8, <2>2 DEF RejoinOther
<1>9. ASSUME NEW p \in Procs, LatchLoad(p)
      PROVE  RecheckOK'
  BY <1>9 DEF LatchLoad
<1>10. ASSUME NEW p \in Procs, LatchLoadLast(p)
      PROVE  RecheckOK'
  BY <1>10 DEF LatchLoadLast
<1>11. ASSUME NEW p \in Procs, LatchCas(p)
      PROVE  RecheckOK'
  BY <1>11 DEF LatchCas
<1>12. ASSUME NEW p \in Procs, Forward(p)
      PROVE  RecheckOK'
  BY <1>12 DEF Forward
<1>13. ASSUME NEW f \in Flushers, FlushLock(f)
      PROVE  RecheckOK'
  BY <1>13 DEF FlushLock, FlushMuFree
<1>14. ASSUME NEW f \in Flushers, NEW n \in Names, Visit(f, n)
      PROVE  RecheckOK'
  <2>1. CASE counters[n] = None
    BY <1>14, <2>1 DEF Visit
  <2>2. CASE counters[n] # None
    <3>1. /\ pc' = [pc EXCEPT ![f] = "load"]
          /\ frame' = [frame EXCEPT ![f].obj = counters[n], ![f].ret = "visit"]
          /\ UNCHANGED <<counters, currentValue, lastSentValue, detached>>
      BY <1>14, <2>2 DEF Visit
    <3>2. frame'[f].ret = "visit"
      BY <3>1, FrameFields DEF Frames
    <3>3. \A q \in Procs : q # f => frame'[q] = frame[q] /\ pc'[q] = pc[q]
      BY <3>1
    <3> QED
      BY <1>14, <3>1, <3>2, <3>3 DEF Visit
  <2> QED
    BY <2>1, <2>2
<1>15. ASSUME NEW f \in Flushers, FlushUnlock(f)
      PROVE  RecheckOK'
  BY <1>15 DEF FlushUnlock
<1>16. ASSUME NEW f \in Flushers, VisitActive(f)
      PROVE  RecheckOK'
  BY <1>16 DEF VisitActive, Report
<1>17. ASSUME NEW f \in Flushers, VisitIdle(f)
      PROVE  RecheckOK'
  BY <1>17 DEF VisitIdle
<1>18. ASSUME NEW f \in Flushers, Delete(f)
      PROVE  RecheckOK'
  BY <1>18 DEF Delete
<1>19. ASSUME NEW f \in Flushers, Detach(f)
      PROVE  RecheckOK'
  BY <1>19 DEF Detach
<1>20. ASSUME NEW f \in Flushers, RecheckActive(f)
      PROVE  RecheckOK'
  BY <1>20 DEF RecheckActive, Report
<1>21. ASSUME NEW f \in Flushers, RecheckIdle(f)
      PROVE  RecheckOK'
  BY <1>21 DEF RecheckIdle
<1>22. CASE UNCHANGED vars
  BY <1>22 DEF vars
<1> QED
  BY <1>1, <1>2, <1>3, <1>4, <1>5, <1>6, <1>7, <1>8, <1>9, <1>10, <1>11, <1>12,
     <1>13, <1>14, <1>15, <1>16, <1>17, <1>18, <1>19, <1>20, <1>21, <1>22
        DEF Next, WriterStep, FlusherStep, Lookup, Write, Call, Rejoin, Latch, Visits

(* No step can leave a pending value in a counter out of the map without a  *)
(* call that rescues it.                                                    *)
LEMMA StrandedStep ==
  ASSUME OneObjectPerName, StrandInv, NoStranded, [Next]_vars,
         NEW c \in held', Pending(c)' # 0, ~InMap(c)', \A p \in Procs : ~Rescues(p, c)'
  PROVE  FALSE
<1> USE ConstantsAssumption
        DEF StrandInv, IInv, TypeOK, CallsOK, NoForwarding, NoStranded, Rescues,
            InMap, Pending, Goto, Return, NoFrame, objects, history, Procs, PCs,
            LatchSteps, LatchUses
<1>1. ASSUME NEW w \in Writers, NEW n \in Names, LookupHit(w, n)
      PROVE  FALSE
  BY <1>1 DEF LookupHit, OccupantsOK
<1>2. ASSUME NEW w \in Writers, NEW n \in Names, LookupMiss(w, n)
      PROVE  FALSE
  <2>1. PICK x \in Counters : frame' = [frame EXCEPT ![w].obj = x]
    BY <1>2 DEF LookupMiss
  <2>2. \A q \in Procs : Rescues(q, c) => Rescues(q, c)'
    BY <1>2, <2>1 DEF LookupMiss
  <2> QED
    BY <1>2, <2>2 DEF LookupMiss
<1>3. ASSUME NEW w \in Writers, Create(w)
      PROVE  FALSE
  BY <1>3 DEF Create, LoadOrStore, OccupantsOK
<1>4. ASSUME NEW w \in Writers, NEW x \in Counters, NEW d \in Deltas, Add(w, x, d)
      PROVE  FALSE
  <2>1. frame'[w].obj = x /\ pc'[w] = "check"
    BY <1>4, FrameFields DEF Add, WriteValue, Frames
  <2>2. \A q \in Procs : Rescues(q, c) => Rescues(q, c)'
    BY <1>4 DEF Add, WriteValue
  <2> QED
    BY <1>4, <2>1, <2>2 DEF Add, WriteValue
<1>5. ASSUME NEW w \in Writers, NEW x \in Counters, NEW v \in SetValues, Set(w, x, v)
      PROVE  FALSE
  <2>1. frame'[w].obj = x /\ pc'[w] = "check"
    BY <1>5, FrameFields DEF Set, WriteValue, Frames
  <2>2. \A q \in Procs : Rescues(q, c) => Rescues(q, c)'
    BY <1>5 DEF Set, WriteValue
  <2> QED
    BY <1>5, <2>1, <2>2 DEF Set, WriteValue
<1>6. ASSUME NEW p \in Procs, MaybeRejoin(p)
      PROVE  FALSE
  <2>1. CASE NeedsRejoin(frame[p].obj)
    BY <1>6, <2>1 DEF MaybeRejoin
  <2>2. CASE ~NeedsRejoin(frame[p].obj)
    <3>1. frame[p].obj \in held /\ ~detached[frame[p].obj]
      BY <1>6, <2>2 DEF MaybeRejoin, NeedsRejoin, QuietOK
    <3>2. \A q \in Procs : q # p /\ Rescues(q, c) => Rescues(q, c)'
      BY <1>6, <2>2 DEF MaybeRejoin
    <3>3. c \in held /\ Pending(c) # 0 /\ ~InMap(c)
      BY <1>6 DEF MaybeRejoin
    <3>4. frame[p].obj = c
      BY <1>6, <3>2, <3>3 DEF MaybeRejoin
    <3>5. PICK f \in Flushers : pc[f] = "detach" /\ frame[f].obj = c
      BY <3>1, <3>3, <3>4 DEF Attached
    <3> QED
      BY <1>6, <3>2, <3>5 DEF MaybeRejoin
  <2> QED
    BY <2>1, <2>2
<1>7. ASSUME NEW p \in Procs, RejoinAttach(p)
      PROVE  FALSE
  BY <1>7 DEF RejoinAttach
<1>8. ASSUME NEW p \in Procs, RejoinOther(p)
      PROVE  FALSE
  <2>1. frame[p].obj \in Counters
    BY <1>8 DEF RejoinOther
  <2>2. counters[NameOf[frame[p].obj]] \in {None, frame[p].obj}
    BY <2>1 DEF OneObjectPerName, OccupantsOK
  <2> QED
    BY <1>8, <2>2 DEF RejoinOther
<1>9. ASSUME NEW p \in Procs, LatchLoad(p)
      PROVE  FALSE
  BY <1>9 DEF LatchLoad
<1>10. ASSUME NEW p \in Procs, LatchLoadLast(p)
      PROVE  FALSE
  BY <1>10 DEF LatchLoadLast
<1>11. ASSUME NEW p \in Procs, LatchCas(p)
      PROVE  FALSE
  <2>1. pc[p] = "cas" /\ frame' = frame /\ UNCHANGED <<counters, held, currentValue>>
    BY <1>11 DEF LatchCas
  <2>2. CASE frame[p].obj = c
    <3>1. frame[p].ret # "recheck"
      BY <2>1, <2>2
    <3>2. p \in Flushers /\ frame[p].ret = "visit"
      BY <2>1, <3>1
    <3> QED
      BY <2>1, <2>2, <3>2 DEF VisitedInMap, Visiting
  <2>3. CASE frame[p].obj # c
    BY <1>11, <2>3 DEF LatchCas
  <2> QED
    BY <2>2, <2>3
<1>12. ASSUME NEW p \in Procs, Forward(p)
      PROVE  FALSE
  BY <1>12 DEF Forward
<1>13. ASSUME NEW f \in Flushers, FlushLock(f)
      PROVE  FALSE
  BY <1>13 DEF FlushLock, FlushMuFree
<1>14. ASSUME NEW f \in Flushers, NEW n \in Names, Visit(f, n)
      PROVE  FALSE
  <2>1. CASE counters[n] = None
    BY <1>14, <2>1 DEF Visit
  <2>2. CASE counters[n] # None
    <3>1. \A q \in Procs : Rescues(q, c) => q # f
      BY <1>14 DEF Visit
    <3>2. \A q \in Procs : q # f => frame'[q] = frame[q] /\ pc'[q] = pc[q]
      BY <1>14, <2>2 DEF Visit
    <3> QED
      BY <1>14, <3>1, <3>2 DEF Visit
  <2> QED
    BY <2>1, <2>2
<1>15. ASSUME NEW f \in Flushers, FlushUnlock(f)
      PROVE  FALSE
  BY <1>15 DEF FlushUnlock
<1>16. ASSUME NEW f \in Flushers, VisitActive(f)
      PROVE  FALSE
  BY <1>16 DEF VisitActive, Report
<1>17. ASSUME NEW f \in Flushers, VisitIdle(f)
      PROVE  FALSE
  BY <1>17 DEF VisitIdle
<1>18. ASSUME NEW f \in Flushers, Delete(f)
      PROVE  FALSE
  BY <1>18 DEF Delete, VisitedInMap, Visiting, OccupantsOK
<1>19. ASSUME NEW f \in Flushers, Detach(f)
      PROVE  FALSE
  BY <1>19 DEF Detach
<1>20. ASSUME NEW f \in Flushers, RecheckActive(f)
      PROVE  FALSE
  BY <1>20 DEF RecheckActive, Report
<1>21. ASSUME NEW f \in Flushers, RecheckIdle(f)
      PROVE  FALSE
  <2>1. pc[f] = "recheck" /\ frame[f].value = frame[f].last
    BY <1>21, FrameFields, MinusZero DEF RecheckIdle, Latched
  <2>2. c \in held /\ Pending(c) # 0 /\ ~InMap(c)
    BY <1>21 DEF RecheckIdle
  <2>3. \A q \in Procs : q # f /\ Rescues(q, c) => Rescues(q, c)'
    BY <1>21 DEF RecheckIdle
  <2>4. frame[f].obj = c
    BY <1>21, <2>2, <2>3 DEF RecheckIdle
  <2>5. Rechecking(f)
    BY <1>21, <2>1 DEF Rechecking
  <2>6. currentValue[c] = lastSentValue[c] \/ Writing(c)
    BY <2>1, <2>2, <2>4, <2>5 DEF RecheckOK
  <2>7. currentValue[c] # lastSentValue[c]
    BY <2>2, MinusZero
  <2> QED
    BY <2>1, <2>3, <2>4, <2>6, <2>7 DEF Writing
<1>22. CASE UNCHANGED vars
  BY <1>22 DEF vars
<1> QED
  BY <1>1, <1>2, <1>3, <1>4, <1>5, <1>6, <1>7, <1>8, <1>9, <1>10, <1>11, <1>12,
     <1>13, <1>14, <1>15, <1>16, <1>17, <1>18, <1>19, <1>20, <1>21, <1>22
        DEF Next, WriterStep, FlusherStep, Lookup, Write, Call, Rejoin, Latch, Visits

(* With one object for each name, a value that is not yet reported always   *)
(* has somebody who will report it: the next Flush, or a call under way.    *)
THEOREM NothingStranded ==
  ASSUME OneObjectPerName
  PROVE  Spec => []NoStranded
<1>1. Init => NoForwarding /\ RecheckOK /\ NoStranded
  BY ConstantsAssumption
     DEF Init, NoForwarding, RecheckOK, Rechecking, NoStranded, NoFrame, LatchSteps,
         Procs
<1>2. StrandInv /\ NoStranded /\ [Next]_vars => NoForwarding' /\ RecheckOK'
  BY ForwardingStep, RecheckStep DEF StrandInv
<1>3. StrandInv /\ NoStranded /\ [Next]_vars => NoStranded'
  <2> SUFFICES ASSUME StrandInv, NoStranded, [Next]_vars, NEW c \in held',
                      Pending(c)' # 0, ~InMap(c)', \A p \in Procs : ~Rescues(p, c)'
               PROVE  FALSE
    BY DEF NoStranded
  <2> QED
    BY StrandedStep
<1> QED
  BY <1>1, <1>2, <1>3, Invariance, QuietInvariance, PTL DEF Spec, StrandInv

-----------------------------------------------------------------------------
(* The sums: what is written under a name, modulo 2^64, is what the sink    *)
(* has received, what waits in its counters and what is on its way.         *)

(* A whole number of times the modulus, and what keeps it one.              *)
Turns(a) == \E q \in Int : a = q * Modulus

LEMMA TurnsRemain ==
  ASSUME NEW a \in Int, Turns(a)
  PROVE  /\ a % Modulus = 0
         /\ \A k \in {-Modulus, 0, Modulus} : Turns(a + k)
<1>1. Modulus \in Nat \ {0}
  BY ConstantsAssumption
<1>2. PICK q \in Int : a = q * Modulus
  BY DEF Turns
<1>3. (q + 1) * Modulus = q * Modulus + Modulus /\ (q - 1) * Modulus = q * Modulus - Modulus
  BY <1>1
<1>4. a + Modulus = (q + 1) * Modulus /\ q + 1 \in Int
  BY <1>2, <1>3
<1>5. a + (-Modulus) = (q - 1) * Modulus /\ q - 1 \in Int
  BY <1>1, <1>2, <1>3
<1>6. (q * Modulus) % Modulus = 0
  BY <1>1
<1>7. Turns(a + Modulus) /\ Turns(a + (-Modulus)) /\ Turns(a + 0)
  BY <1>4, <1>5 DEF Turns
<1> QED
  BY <1>2, <1>6, <1>7

(* What is under the name n in each object, and in the hands of each call.  *)
Waiting(n) == [c \in Counters |-> IF NameOf[c] = n THEN Pending(c) ELSE 0]
Carrying(n) ==
  [p \in Procs |-> IF frame[p].obj \in Counters /\ NameOf[frame[p].obj] = n
                     THEN Using(p) ELSE 0]

Books(n) == reported[n] + SumFunctionOnSet(Waiting(n), Counters)
              + SumFunctionOnSet(Carrying(n), Procs) - added[n]

(* They are integers.                                                       *)
LEMMA ShareTypes ==
  ASSUME TypeOK, NEW n
  PROVE  /\ \A c \in Counters : Waiting(n)[c] \in Int
         /\ \A p \in Procs : Carrying(n)[p] \in Int
<1>1. \A c \in Counters : Pending(c) \in Word
  BY WordArithmetic DEF TypeOK, Pending
<1>2. \A p \in Procs : Using(p) \in Int
  BY LatchedType DEF Using
<1> QED
  BY <1>1, <1>2, ConstantsAssumption DEF Waiting, Carrying, Word

(* The same after a step.                                                   *)
LEMMA ShareTypesNext ==
  ASSUME TypeOK', NEW n
  PROVE  /\ \A c \in Counters : Waiting(n)'[c] \in Int
         /\ \A p \in Procs : Carrying(n)'[p] \in Int
<1>1. \A a, b \in Word : Minus(a, b) \in Int
  BY ConstantsAssumption DEF Minus, Word
<1>2. \A c \in Counters : Pending(c)' \in Int
  BY <1>1 DEF TypeOK, Pending
<1>3. \A p \in Procs : frame'[p].value \in Word /\ frame'[p].last \in Word
  BY DEF TypeOK, Frames
<1>4. \A p \in Procs : Using(p)' \in Int
  BY <1>1, <1>3 DEF Using, Latched
<1> QED
  BY <1>2, <1>4 DEF Waiting, Carrying

(* The sums of Conservation, as sums of a function.                         *)
LEMMA PendingSum ==
  ASSUME NEW S
  PROVE  MapThenSumSet(Pending, S) = SumFunctionOnSet([c \in S |-> Pending(c)], S)
<1> DEFINE w == [c \in S |-> Pending(c)]
           F(g) == Unrolled(w, g, SUBSET S)
           G(g) == [s \in SUBSET S |->
                      IF s = {} THEN 0
                      ELSE Pending(CHOOSE c \in s : TRUE) + g[s \ {CHOOSE c \in s : TRUE}]]
<1>1. \A s \in SUBSET S : s # {} => (CHOOSE c \in s : TRUE) \in S
  OBVIOUS
<1>2. \A g : F(g) = G(g)
  BY <1>1 DEF Unrolled, First
<1>3. \A g : g = F(g) <=> g = G(g)
  BY <1>2
<1>4. (CHOOSE g : g = F(g)) = (CHOOSE g : g = G(g))
  <2> HIDE DEF F, G
  <2> QED
    BY <1>3
<1>5. MapThenSumSet(Pending, S) = (CHOOSE g : g = G(g))[S]
  BY DEF MapThenSumSet, MapThenFoldSet
<1>6. SumFunctionOnSet(w, S) = (CHOOSE g : g = F(g))[S]
  BY SumIsRecursion DEF Recursion
<1> QED
  BY <1>4, <1>5, <1>6

(* The same for what the calls carry.                                       *)
LEMMA UsingSum ==
  ASSUME NEW S
  PROVE  MapThenSumSet(Using, S) = SumFunctionOnSet([p \in S |-> Using(p)], S)
<1> DEFINE w == [p \in S |-> Using(p)]
           F(g) == Unrolled(w, g, SUBSET S)
           G(g) == [s \in SUBSET S |->
                      IF s = {} THEN 0
                      ELSE Using(CHOOSE p \in s : TRUE) + g[s \ {CHOOSE p \in s : TRUE}]]
<1>1. \A s \in SUBSET S : s # {} => (CHOOSE p \in s : TRUE) \in S
  OBVIOUS
<1>2. \A g : F(g) = G(g)
  BY <1>1 DEF Unrolled, First
<1>3. \A g : g = F(g) <=> g = G(g)
  BY <1>2
<1>4. (CHOOSE g : g = F(g)) = (CHOOSE g : g = G(g))
  <2> HIDE DEF F, G
  <2> QED
    BY <1>3
<1>5. MapThenSumSet(Using, S) = (CHOOSE g : g = G(g))[S]
  BY DEF MapThenSumSet, MapThenFoldSet
<1>6. SumFunctionOnSet(w, S) = (CHOOSE g : g = F(g))[S]
  BY SumIsRecursion DEF Recursion
<1> QED
  BY <1>4, <1>5, <1>6

(* Conservation says that the books of every name come to whole turns.      *)
LEMMA BooksMeanConservation ==
  ASSUME IsFiniteSet(Counters), IsFiniteSet(Procs), TypeOK, \A n \in Names : Turns(Books(n))
  PROVE  Conservation
<1> SUFFICES ASSUME NEW n \in Names
             PROVE  LET mine   == {c \in Counters : NameOf[c] = n}
                        moving == {p \in Procs : frame[p].obj \in mine}
                    IN (reported[n] + MapThenSumSet(Pending, mine)
                          + MapThenSumSet(Using, moving) - added[n]) % Modulus = 0
  BY DEF Conservation
<1> DEFINE mine   == {c \in Counters : NameOf[c] = n}
           moving == {p \in Procs : frame[p].obj \in mine}
<1>1. IsFiniteSet(mine) /\ IsFiniteSet(moving)
  BY FS_Subset
<1>2. MapThenSumSet(Pending, mine) = SumFunctionOnSet(Waiting(n), Counters)
  <2>1. \A c \in mine : [b \in mine |-> Pending(b)][c] = Waiting(n)[c]
    BY DEF Waiting
  <2>2. SumFunctionOnSet([b \in mine |-> Pending(b)], mine) = SumFunctionOnSet(Waiting(n), mine)
    <3>1. \A c \in mine : [b \in mine |-> Pending(b)][c] \in Int
      BY <2>1, ShareTypes
    <3> QED
      BY ONLY <1>1, <2>1, <3>1, SumCongruent
  <2>3. \A c \in Counters \ mine : Waiting(n)[c] = 0
    BY DEF Waiting
  <2>4. SumFunctionOnSet(Waiting(n), Counters) = SumFunctionOnSet(Waiting(n), mine)
    BY <2>3, ShareTypes, SumPart
  <2> QED
    BY <2>2, <2>4, PendingSum
<1>3. MapThenSumSet(Using, moving) = SumFunctionOnSet(Carrying(n), Procs)
  <2>1. \A p \in moving : [q \in moving |-> Using(q)][p] = Carrying(n)[p]
    BY DEF Carrying
  <2>2. SumFunctionOnSet([q \in moving |-> Using(q)], moving) = SumFunctionOnSet(Carrying(n), moving)
    <3>1. \A p \in moving : [q \in moving |-> Using(q)][p] \in Int
      BY <2>1, ShareTypes
    <3> QED
      BY ONLY <1>1, <2>1, <3>1, SumCongruent
  <2>3. \A p \in Procs \ moving : Carrying(n)[p] = 0
    BY DEF Carrying
  <2>4. SumFunctionOnSet(Carrying(n), Procs) = SumFunctionOnSet(Carrying(n), moving)
    BY <2>3, ShareTypes, SumPart
  <2> QED
    BY <2>2, <2>4, UsingSum
<1>4. /\ SumFunctionOnSet(Waiting(n), Counters) \in Int
      /\ SumFunctionOnSet(Carrying(n), Procs) \in Int
      /\ reported[n] \in Int /\ added[n] \in Int
  BY ShareTypes, SumElement DEF TypeOK
<1>5. Books(n) \in Int /\ Turns(Books(n))
  BY <1>4 DEF Books
<1>6. Books(n) % Modulus = 0
  <2> HIDE DEF Books
  <2> QED
    BY <1>5, TurnsRemain
<1> QED
  BY <1>2, <1>3, <1>6 DEF Books

(* A change of what waits in one object is a change of the books of its     *)
(* name.                                                                    *)
LEMMA WaitingChange ==
  ASSUME IsFiniteSet(Counters), TypeOK, TypeOK', NEW o \in Counters, NEW n \in Names,
         \A c \in Counters : c # o => Pending(c)' = Pending(c)
  PROVE  SumFunctionOnSet(Waiting(n), Counters)'
           = SumFunctionOnSet(Waiting(n), Counters)
               + IF NameOf[o] = n THEN Pending(o)' - Pending(o) ELSE 0
<1> DEFINE w == Waiting(n)
           v == Waiting(n)'
<1>1. \A c \in Counters : w[c] \in Int
  BY ShareTypes
<1>2. \A c \in Counters : v[c] \in Int
  BY ShareTypesNext
<1>3. \A c \in Counters \ {o} : v[c] = w[c]
  BY DEF Waiting
<1>4. v[o] - w[o] = IF NameOf[o] = n THEN Pending(o)' - Pending(o) ELSE 0
  BY DEF Waiting
<1>5. SumFunctionOnSet(w, Counters)' = SumFunctionOnSet(v, Counters)
  OBVIOUS
<1> HIDE DEF w, v
<1>6. SumFunctionOnSet(v, Counters) = SumFunctionOnSet(w, Counters) + (v[o] - w[o])
  BY <1>1, <1>2, <1>3, SumUpdate
<1> QED
  BY <1>4, <1>5, <1>6 DEF w

(* The same for a call.                                                     *)
LEMMA CarryingChange ==
  ASSUME IsFiniteSet(Procs), TypeOK, TypeOK', NEW p \in Procs, NEW n \in Names,
         \A q \in Procs : q # p => pc'[q] = pc[q] /\ frame'[q] = frame[q]
  PROVE  SumFunctionOnSet(Carrying(n), Procs)'
           = SumFunctionOnSet(Carrying(n), Procs) + (Carrying(n)'[p] - Carrying(n)[p])
<1> DEFINE w == Carrying(n)
           v == Carrying(n)'
<1>1. \A q \in Procs : w[q] \in Int
  BY ShareTypes
<1>2. \A q \in Procs : v[q] \in Int
  BY ShareTypesNext
<1>3. \A q \in Procs \ {p} : v[q] = w[q]
  BY DEF Carrying, Using, Latched
<1>5. SumFunctionOnSet(w, Procs)' = SumFunctionOnSet(v, Procs)
  OBVIOUS
<1> HIDE DEF w, v
<1>6. SumFunctionOnSet(v, Procs) = SumFunctionOnSet(w, Procs) + (v[p] - w[p])
  BY <1>1, <1>2, <1>3, SumUpdate
<1> QED
  BY <1>5, <1>6 DEF w, v

(* A step that writes to no object.                                         *)
LEMMA WaitingSame ==
  ASSUME UNCHANGED <<currentValue, lastSentValue>>, NEW n
  PROVE  UNCHANGED SumFunctionOnSet(Waiting(n), Counters)
BY DEF Waiting, Pending

(* A goroutine that carries nothing before or after its step leaves the     *)
(* books alone.                                                             *)
BooksSame == \A n \in Names : Books(n)' = Books(n)

LEMMA EmptyHands ==
  ASSUME IsFiniteSet(Procs), TypeOK, TypeOK', NEW p \in Procs,
         UNCHANGED <<currentValue, lastSentValue, added, reported>>,
         \A q \in Procs : q # p => pc'[q] = pc[q] /\ frame'[q] = frame[q],
         pc[p] \notin LatchUses \/ Latched(p) = 0,
         pc'[p] \notin LatchUses \/ Latched(p)' = 0
  PROVE  BooksSame
<1> SUFFICES ASSUME NEW n \in Names
             PROVE  Books(n)' = Books(n)
  BY DEF BooksSame
<1>1. Carrying(n)[p] = 0 /\ Carrying(n)'[p] = 0
  BY DEF Carrying, Using
<1>2. SumFunctionOnSet(Carrying(n), Procs) \in Int
  BY ShareTypes, SumElement
<1>3. SumFunctionOnSet(Carrying(n), Procs)' = SumFunctionOnSet(Carrying(n), Procs)
  BY <1>1, <1>2, CarryingChange
<1> QED
  BY <1>3, WaitingSame DEF Books

(* So does a step that moves no goroutine.                                  *)
LEMMA UntouchedBooks ==
  ASSUME UNCHANGED <<currentValue, lastSentValue, added, reported, pc, frame>>
  PROVE  BooksSame
BY DEF BooksSame, Books, Waiting, Carrying, Pending, Using, Latched

(* Every other step leaves the books alone.                                 *)
Moves == \/ \E w \in Writers, c \in Counters :
              (\E d \in Deltas : Add(w, c, d)) \/ (\E v \in SetValues : Set(w, c, v))
         \/ \E p \in Procs : LatchCas(p) \/ Forward(p)
         \/ \E f \in Flushers : VisitActive(f) \/ RecheckActive(f)

LEMMA BooksRest ==
  ASSUME IsFiniteSet(Procs), IInv, TypeOK', [Next]_vars
  PROVE  BooksSame \/ Moves
<1> USE ConstantsAssumption DEF LatchUses
<1>0. pc \in [Procs -> PCs] /\ frame \in [Procs -> Frames] /\ Writers \cup Flushers = Procs
  BY DEF IInv, TypeOK, Procs
<1>1. ASSUME NEW w \in Writers, NEW n \in Names, LookupHit(w, n)
      PROVE  BooksSame
  BY <1>1, UntouchedBooks DEF LookupHit, objects, history
<1>2. ASSUME NEW w \in Writers, NEW n \in Names, LookupMiss(w, n)
      PROVE  BooksSame
  BY <1>0, <1>2, EmptyHands DEF LookupMiss, Goto, objects, history, IInv
<1>3. ASSUME NEW w \in Writers, Create(w)
      PROVE  BooksSame
  BY <1>0, <1>3, EmptyHands DEF Create, Return, Goto, objects, history, IInv
<1>4. ASSUME NEW p \in Procs, MaybeRejoin(p)
      PROVE  BooksSame
  BY <1>0, <1>4, EmptyHands DEF MaybeRejoin, Return, Goto, objects, history, IInv
<1>5. ASSUME NEW p \in Procs, RejoinAttach(p)
      PROVE  BooksSame
  BY <1>0, <1>5, EmptyHands DEF RejoinAttach, Return, Goto, objects, history, IInv
<1>6. ASSUME NEW p \in Procs, RejoinOther(p)
      PROVE  BooksSame
  BY <1>0, <1>6, EmptyHands DEF RejoinOther, Goto, objects, history, IInv
<1>7. ASSUME NEW p \in Procs, LatchLoad(p)
      PROVE  BooksSame
  BY <1>0, <1>7, EmptyHands DEF LatchLoad, Goto, objects, history, IInv
<1>8. ASSUME NEW p \in Procs, LatchLoadLast(p)
      PROVE  BooksSame
  <2>1. /\ \A q \in Procs : q # p => pc'[q] = pc[q] /\ frame'[q] = frame[q]
        /\ UNCHANGED <<currentValue, lastSentValue, added, reported>>
        /\ pc[p] = "loadLast"
    BY <1>0, <1>8 DEF LatchLoadLast, Goto, objects, history
  <2>2. pc'[p] = "cas" \/ Latched(p)' = 0
    <3> DEFINE last == lastSentValue[frame[p].obj]
    <3>1. /\ frame'[p].last = last /\ frame'[p].value = frame[p].value
          /\ pc'[p] = IF last = frame[p].value THEN frame[p].ret ELSE "cas"
      BY <1>0, <1>8 DEF LatchLoadLast, Goto, Frames
    <3>2. frame'[p].value \in Word /\ frame'[p].last \in Word
      BY <1>0, <1>8 DEF TypeOK, Frames
    <3>3. Minus(frame'[p].value, frame'[p].last) = 0 \/ pc'[p] = "cas"
      BY <3>1, <3>2, MinusZero
    <3> QED
      BY <3>3 DEF Latched
  <2> QED
    BY <1>0, <2>1, <2>2, EmptyHands DEF IInv
<1>9. ASSUME NEW p \in Procs, LatchCas(p) \/ Forward(p)
      PROVE  Moves
  BY <1>9 DEF Moves
<1>10. ASSUME NEW f \in Flushers, FlushLock(f)
       PROVE  BooksSame
  BY <1>0, <1>10, EmptyHands DEF FlushLock, Goto, objects, history, IInv
<1>11. ASSUME NEW f \in Flushers, NEW n \in Names, Visit(f, n)
       PROVE  BooksSame
  <2>1. CASE counters[n] = None
    BY <1>11, <2>1, UntouchedBooks DEF Visit, objects, history
  <2>2. CASE counters[n] # None
    BY <1>0, <1>11, <2>2, EmptyHands DEF Visit, Goto, objects, history, IInv
  <2> QED
    BY <2>1, <2>2
<1>12. ASSUME NEW f \in Flushers, FlushUnlock(f)
       PROVE  BooksSame
  BY <1>0, <1>12, EmptyHands DEF FlushUnlock, Goto, objects, history, IInv
<1>13. ASSUME NEW f \in Flushers, VisitActive(f) \/ RecheckActive(f)
       PROVE  Moves
  BY <1>13 DEF Moves
<1>14. ASSUME NEW f \in Flushers, VisitIdle(f)
       PROVE  BooksSame
  BY <1>0, <1>14, EmptyHands DEF VisitIdle, Return, Goto, objects, history, IInv
<1>15. ASSUME NEW f \in Flushers, Delete(f)
       PROVE  BooksSame
  BY <1>0, <1>15, EmptyHands DEF Delete, Goto, objects, history, IInv
<1>16. ASSUME NEW f \in Flushers, Detach(f)
       PROVE  BooksSame
  BY <1>0, <1>16, EmptyHands DEF Detach, Goto, objects, history, IInv
<1>17. ASSUME NEW f \in Flushers, RecheckIdle(f)
       PROVE  BooksSame
  BY <1>0, <1>17, EmptyHands DEF RecheckIdle, Return, Goto, objects, history, IInv
<1>18. CASE UNCHANGED vars
  BY <1>18, UntouchedBooks DEF vars, objects, history
<1>19. ASSUME NEW w \in Writers, Write(w)
       PROVE  Moves
  BY <1>19 DEF Write, Moves
<1> QED
  BY <1>0, <1>1, <1>2, <1>3, <1>4, <1>5, <1>6, <1>7, <1>8, <1>9, <1>10, <1>11, <1>12,
     <1>13, <1>14, <1>15, <1>16, <1>17, <1>18, <1>19
     DEF Next, WriterStep, FlusherStep, Lookup, Call, Rejoin, Latch, Visits

(* The arithmetic of the steps that do move something.                      *)
LEMMA TurnsOfWords ==
  ASSUME NEW a \in Word, NEW b \in Word, NEW d \in Word
  PROVE  /\ Minus(Plus(a, d), b) - Minus(a, b) - d \in {-Modulus, 0, Modulus}
         /\ Minus(d, b) - Minus(a, b) - (d - a) \in {-Modulus, 0, Modulus}
         /\ Minus(a, d) + Minus(d, b) - Minus(a, b) \in {-Modulus, 0, Modulus}
<1> USE ConstantsAssumption DEF Word
<1>1. Minus(Plus(a, d), b) - Minus(a, b) - d \in {-Modulus, 0, Modulus}
  BY DEF Minus, Plus
<1>2. Minus(d, b) - Minus(a, b) - (d - a) \in {-Modulus, 0, Modulus}
  BY DEF Minus
<1>3. Minus(a, d) + Minus(d, b) - Minus(a, b) \in {-Modulus, 0, Modulus}
  BY DEF Minus
<1> QED
  BY <1>1, <1>2, <1>3

(* A write: what waits grows by what is written.                            *)
LEMMA BooksWrite ==
  ASSUME IsFiniteSet(Counters), IsFiniteSet(Procs), IInv, TypeOK',
         NEW w \in Writers, NEW c \in Counters, NEW v \in Word, WriteValue(w, c, v),
         NEW d \in Int, added' = [added EXCEPT ![NameOf[c]] = @ + d],
         Pending(c)' - Pending(c) - d \in {-Modulus, 0, Modulus}, NEW n \in Names
  PROVE  Books(n)' - Books(n) \in {-Modulus, 0, Modulus}
<1> USE ConstantsAssumption
<1>1. w \in Procs /\ TypeOK
  BY DEF Procs, IInv
<1>2. /\ \A q \in Procs : q # w => pc'[q] = pc[q] /\ frame'[q] = frame[q]
      /\ \A b \in Counters : b # c => Pending(b)' = Pending(b)
      /\ pc[w] = "idle" /\ pc'[w] = "check" /\ reported' = reported
  BY <1>1 DEF WriteValue, Goto, Pending, TypeOK
<1>3. SumFunctionOnSet(Carrying(n), Procs)' = SumFunctionOnSet(Carrying(n), Procs)
  <2>1. Carrying(n)[w] = 0 /\ Carrying(n)'[w] = 0
    BY <1>1, <1>2 DEF Carrying, Using, LatchUses
  <2>2. SumFunctionOnSet(Carrying(n), Procs) \in Int
    BY <1>1, ShareTypes, SumElement
  <2> QED
    BY <1>1, <1>2, <2>1, <2>2, CarryingChange
<1>4. SumFunctionOnSet(Waiting(n), Counters)'
        = SumFunctionOnSet(Waiting(n), Counters)
            + IF NameOf[c] = n THEN Pending(c)' - Pending(c) ELSE 0
  BY <1>1, <1>2, WaitingChange
<1>5. /\ SumFunctionOnSet(Waiting(n), Counters) \in Int
      /\ SumFunctionOnSet(Carrying(n), Procs) \in Int
      /\ reported[n] \in Int /\ added[n] \in Int
  BY <1>1, ShareTypes, SumElement DEF TypeOK
<1>6. added'[n] = added[n] + IF NameOf[c] = n THEN d ELSE 0
  BY <1>1 DEF TypeOK
<1>7. Pending(c)' \in Int /\ Pending(c) \in Int
  <2>1. \A a, b \in Word : Minus(a, b) \in Int
    BY DEF Minus, Word
  <2> QED
    BY <1>1, <2>1 DEF Pending, TypeOK
<1> QED
  BY <1>2, <1>3, <1>4, <1>5, <1>6, <1>7 DEF Books

(* A latch that commits: what waited is in its hands.                       *)
LEMMA BooksLatch ==
  ASSUME IsFiniteSet(Counters), IsFiniteSet(Procs), IInv, TypeOK',
         NEW p \in Procs, LatchCas(p), NEW n \in Names
  PROVE  Books(n)' - Books(n) \in {-Modulus, 0, Modulus}
<1> USE ConstantsAssumption
<1> DEFINE o == frame[p].obj
<1>1. TypeOK /\ frame' = frame /\ UNCHANGED <<currentValue, reported, added>> /\ pc[p] = "cas"
  BY DEF LatchCas, IInv, history
<1>2. \A q \in Procs : q # p => pc'[q] = pc[q] /\ frame'[q] = frame[q]
  BY <1>1 DEF LatchCas, Goto, TypeOK
<1>3. CASE ~CasFinds(p)
  <2>1. pc'[p] = "load" /\ UNCHANGED lastSentValue
    BY <1>1, <1>3 DEF LatchCas, Goto, TypeOK
  <2>2. BooksSame
    BY <1>1, <1>2, <2>1, EmptyHands DEF LatchUses
  <2>3. Books(n) \in Int
    BY <1>1, ShareTypes, SumElement DEF TypeOK, Books
  <2>4. Books(n)' = Books(n)
    BY <2>2 DEF BooksSame
  <2> HIDE DEF Books
  <2> QED
    BY <2>3, <2>4
<1>4. CASE CasFinds(p)
  <2>1. o \in Counters /\ frame[p].ret \in LatchUses
    BY <1>1 DEF IInv, CallsOK, TypeOK, LatchSteps
  <2>2. /\ pc'[p] \in LatchUses /\ frame[p].last = lastSentValue[o]
        /\ lastSentValue' = [lastSentValue EXCEPT ![o] = frame[p].value]
    BY <1>1, <1>4, <2>1 DEF LatchCas, CasFinds, Goto, TypeOK
  <2>3. /\ currentValue[o] \in Word /\ lastSentValue[o] \in Word /\ frame[p].value \in Word
    BY <1>1, <2>1, FrameFields DEF TypeOK
  <2>4. /\ Pending(o) = Minus(currentValue[o], lastSentValue[o])
        /\ Pending(o)' = Minus(currentValue[o], frame[p].value)
        /\ Latched(p)' = Minus(frame[p].value, lastSentValue[o])
        /\ \A b \in Counters : b # o => Pending(b)' = Pending(b)
    BY <1>1, <2>1, <2>2 DEF Pending, Latched, TypeOK
  <2>5. /\ Carrying(n)[p] = 0
        /\ Carrying(n)'[p] = IF NameOf[o] = n THEN Latched(p)' ELSE 0
    BY <1>1, <2>1, <2>2 DEF Carrying, Using, LatchUses
  <2>6. /\ SumFunctionOnSet(Waiting(n), Counters)'
             = SumFunctionOnSet(Waiting(n), Counters)
                 + IF NameOf[o] = n THEN Pending(o)' - Pending(o) ELSE 0
        /\ SumFunctionOnSet(Carrying(n), Procs)'
             = SumFunctionOnSet(Carrying(n), Procs)
                 + IF NameOf[o] = n THEN Latched(p)' ELSE 0
    <3>1. SumFunctionOnSet(Carrying(n), Procs)'
             = SumFunctionOnSet(Carrying(n), Procs) + (Carrying(n)'[p] - Carrying(n)[p])
      BY <1>1, <1>2, CarryingChange
    <3>2. \A a, b \in Word : Minus(a, b) \in Int
      BY DEF Minus, Word
    <3>3. Latched(p)' \in Int
      BY <2>3, <2>4, <3>2
    <3> QED
      BY <1>1, <2>1, <2>4, <2>5, <3>1, <3>3, WaitingChange
  <2>7. /\ SumFunctionOnSet(Waiting(n), Counters) \in Int
        /\ SumFunctionOnSet(Carrying(n), Procs) \in Int
        /\ reported[n] \in Int /\ added[n] \in Int
    BY <1>1, ShareTypes, SumElement DEF TypeOK
  <2>8. /\ Pending(o)' \in Int /\ Pending(o) \in Int /\ Latched(p)' \in Int
        /\ Pending(o)' + Latched(p)' - Pending(o) \in {-Modulus, 0, Modulus}
    <3>1. \A a, b \in Word : Minus(a, b) \in Int
      BY DEF Minus, Word
    <3> QED
      BY <2>3, <2>4, <3>1, TurnsOfWords
  <2>9. /\ Books(n)' = reported[n] + SumFunctionOnSet(Waiting(n), Counters)'
                         + SumFunctionOnSet(Carrying(n), Procs)' - added[n]
        /\ Books(n) = reported[n] + SumFunctionOnSet(Waiting(n), Counters)
                         + SumFunctionOnSet(Carrying(n), Procs) - added[n]
    BY <1>1 DEF Books
  <2> HIDE DEF o
  <2> QED
    BY ONLY <2>6, <2>7, <2>8, <2>9, ConstantsAssumption
<1> QED
  BY <1>3, <1>4

(* A delta that is forwarded goes from the call to its namesake.            *)
LEMMA BooksForward ==
  ASSUME IsFiniteSet(Counters), IsFiniteSet(Procs), IInv, TypeOK',
         NEW p \in Procs, Forward(p), NEW n \in Names
  PROVE  Books(n)' - Books(n) \in {-Modulus, 0, Modulus}
<1> USE ConstantsAssumption
<1> DEFINE d == Latched(p)
<1>1. TypeOK /\ UNCHANGED <<lastSentValue, reported, added>> /\ pc[p] = "fold" /\ pc'[p] = "check"
  BY DEF Forward, IInv, history, Goto, TypeOK
<1>2. \A q \in Procs : q # p => pc'[q] = pc[q] /\ frame'[q] = frame[q]
  BY <1>1 DEF Forward, Goto, TypeOK
<1>3. PICK o \in Counters :
         /\ frame[p].obj \in Counters /\ NameOf[o] = NameOf[frame[p].obj]
         /\ currentValue' = [currentValue EXCEPT ![o] = Plus(currentValue[o], d)]
  BY <1>1 DEF IInv, CallsOK, Namesakes, TypeOK, LatchSteps, LatchUses, Forward, Forwarded
<1>4. currentValue[o] \in Word /\ lastSentValue[o] \in Word /\ d \in Word
  BY <1>1, <1>3, LatchedType DEF TypeOK
<1>5. /\ Pending(o) = Minus(currentValue[o], lastSentValue[o])
      /\ Pending(o)' = Minus(Plus(currentValue[o], d), lastSentValue[o])
      /\ \A b \in Counters : b # o => Pending(b)' = Pending(b)
  <2> HIDE DEF d
  <2> QED
    BY <1>1, <1>3 DEF Pending, TypeOK
<1>6. Carrying(n)[p] = (IF NameOf[o] = n THEN d ELSE 0) /\ Carrying(n)'[p] = 0
  BY <1>1, <1>3 DEF Carrying, Using, LatchUses
<1>7. /\ SumFunctionOnSet(Waiting(n), Counters)'
           = SumFunctionOnSet(Waiting(n), Counters)
               + IF NameOf[o] = n THEN Pending(o)' - Pending(o) ELSE 0
      /\ SumFunctionOnSet(Carrying(n), Procs)'
           = SumFunctionOnSet(Carrying(n), Procs) - IF NameOf[o] = n THEN d ELSE 0
  <2>1. SumFunctionOnSet(Carrying(n), Procs)'
          = SumFunctionOnSet(Carrying(n), Procs) + (Carrying(n)'[p] - Carrying(n)[p])
    BY <1>1, <1>2, CarryingChange
  <2>2. SumFunctionOnSet(Carrying(n), Procs) \in Int /\ d \in Int
    BY <1>1, ShareTypes, SumElement, LatchedType
  <2>3. SumFunctionOnSet(Waiting(n), Counters)'
           = SumFunctionOnSet(Waiting(n), Counters)
               + IF NameOf[o] = n THEN Pending(o)' - Pending(o) ELSE 0
    BY <1>1, <1>3, <1>5, WaitingChange
  <2> HIDE DEF d
  <2> QED
    BY <1>6, <2>1, <2>2, <2>3
<1>8. /\ SumFunctionOnSet(Waiting(n), Counters) \in Int
      /\ SumFunctionOnSet(Carrying(n), Procs) \in Int
      /\ reported[n] \in Int /\ added[n] \in Int
  BY <1>1, ShareTypes, SumElement DEF TypeOK
<1>9. /\ Pending(o)' \in Int /\ Pending(o) \in Int /\ d \in Int
      /\ Pending(o)' - Pending(o) - d \in {-Modulus, 0, Modulus}
  <2>1. \A a, b \in Word : Minus(a, b) \in Int
    BY DEF Minus, Word
  <2>2. Plus(currentValue[o], d) \in Word
    BY <1>4, WordArithmetic
  <2>3. d \in Int
    BY <1>4, ConstantsAssumption DEF Word
  <2> HIDE DEF d
  <2>4. Minus(Plus(currentValue[o], d), lastSentValue[o])
          - Minus(currentValue[o], lastSentValue[o]) - d \in {-Modulus, 0, Modulus}
    BY <1>4, TurnsOfWords
  <2>5. Pending(o)' \in Int /\ Pending(o) \in Int
    BY <1>4, <1>5, <2>1, <2>2
  <2> QED
    BY <1>5, <2>3, <2>4, <2>5
<1>10. /\ Books(n)' = reported[n] + SumFunctionOnSet(Waiting(n), Counters)'
                        + SumFunctionOnSet(Carrying(n), Procs)' - added[n]
       /\ Books(n) = reported[n] + SumFunctionOnSet(Waiting(n), Counters)
                       + SumFunctionOnSet(Carrying(n), Procs) - added[n]
  BY <1>1 DEF Books
<1> HIDE DEF d
<1> QED
  BY ONLY <1>7, <1>8, <1>9, <1>10, ConstantsAssumption

(* A report takes it to the sink.                                           *)
LEMMA BooksReport ==
  ASSUME IsFiniteSet(Counters), IsFiniteSet(Procs), IInv, TypeOK',
         NEW f \in Flushers, VisitActive(f) \/ RecheckActive(f), NEW n \in Names
  PROVE  Books(n)' = Books(n) /\ Books(n) \in Int
<1> USE ConstantsAssumption
<1> DEFINE o == frame[f].obj
           d == Latched(f)
<1>1. /\ TypeOK /\ UNCHANGED <<currentValue, lastSentValue, added>>
      /\ pc[f] \in {"visit", "recheck"} /\ pc'[f] \in {"range", "rejoin"} /\ f \in Procs
      /\ reported' = [reported EXCEPT ![NameOf[o]] = @ + d]
  BY DEF VisitActive, RecheckActive, Report, IInv, Goto, Return, TypeOK, Procs
<1>2. \A q \in Procs : q # f => pc'[q] = pc[q] /\ frame'[q] = frame[q]
  BY <1>1 DEF VisitActive, RecheckActive, Goto, Return, TypeOK
<1>3. o \in Counters
  BY <1>1 DEF IInv, CallsOK, TypeOK
<1>4. Carrying(n)[f] = (IF NameOf[o] = n THEN d ELSE 0) /\ Carrying(n)'[f] = 0
  BY <1>1, <1>3 DEF Carrying, Using, LatchUses
<1>5. d \in Int
  BY <1>1, LatchedType
<1>6. SumFunctionOnSet(Carrying(n), Procs)'
        = SumFunctionOnSet(Carrying(n), Procs) + (Carrying(n)'[f] - Carrying(n)[f])
  BY <1>1, <1>2, CarryingChange
<1>7. /\ SumFunctionOnSet(Waiting(n), Counters)' = SumFunctionOnSet(Waiting(n), Counters)
  BY <1>1, WaitingSame
<1>8. /\ SumFunctionOnSet(Waiting(n), Counters) \in Int
      /\ SumFunctionOnSet(Carrying(n), Procs) \in Int
      /\ reported[n] \in Int /\ added[n] \in Int
  BY <1>1, ShareTypes, SumElement DEF TypeOK
<1>9. reported'[n] = reported[n] + IF NameOf[o] = n THEN d ELSE 0
  <2> HIDE DEF d
  <2> QED
    BY <1>1, <1>8 DEF TypeOK
<1>10. /\ Books(n)' = reported'[n] + SumFunctionOnSet(Waiting(n), Counters)'
                        + SumFunctionOnSet(Carrying(n), Procs)' - added[n]
       /\ Books(n) = reported[n] + SumFunctionOnSet(Waiting(n), Counters)
                       + SumFunctionOnSet(Carrying(n), Procs) - added[n]
  BY <1>1 DEF Books
<1> HIDE DEF o, d
<1> QED
  BY ONLY <1>4, <1>5, <1>6, <1>7, <1>8, <1>9, <1>10

(* Every step keeps the books in whole turns.                               *)
BooksOK == \A n \in Names : Books(n) \in Int /\ Turns(Books(n))

LEMMA BooksStep ==
  ASSUME IsFiniteSet(Counters), IsFiniteSet(Procs), IInv, TypeOK', BooksOK, [Next]_vars
  PROVE  BooksOK'
<1>1. CASE BooksSame
  BY <1>1 DEF BooksSame, BooksOK, Turns
<1>2. ASSUME \A n \in Names : Books(n)' - Books(n) \in {-Modulus, 0, Modulus}
      PROVE  BooksOK'
  <2> SUFFICES ASSUME NEW n \in Names
               PROVE  Books(n)' \in Int /\ Turns(Books(n)')
    BY DEF BooksOK, Turns
  <2>1. Books(n) \in Int /\ Turns(Books(n))
    BY DEF BooksOK
  <2>2. Books(n)' \in Int
    <3>1. /\ SumFunctionOnSet(Waiting(n), Counters)' \in Int
          /\ SumFunctionOnSet(Carrying(n), Procs)' \in Int
      <4>1. \A c \in Counters : Waiting(n)'[c] \in Int
        BY ShareTypesNext
      <4>2. \A p \in Procs : Carrying(n)'[p] \in Int
        BY ShareTypesNext
      <4> QED
        BY <4>1, <4>2, SumElement
    <3> QED
      BY <3>1 DEF Books, TypeOK
  <2>3. PICK k \in {-Modulus, 0, Modulus} : Books(n)' = Books(n) + k
    <3> DEFINE a == Books(n)
               b == Books(n)'
    <3>1. b - a \in {-Modulus, 0, Modulus} /\ b = a + (b - a)
      <4> HIDE DEF a
      <4>1. a \in Int /\ b \in Int /\ b - a \in {-Modulus, 0, Modulus}
        BY <1>2, <2>1, <2>2 DEF a
      <4> HIDE DEF b
      <4> QED
        BY <4>1
    <3> HIDE DEF a, b
    <3> QED
      BY <3>1 DEF a, b
  <2> HIDE DEF Books
  <2> QED
    BY <2>1, <2>2, <2>3, TurnsRemain
<1>3. CASE Moves
  <2>1. ASSUME NEW w \in Writers, NEW c \in Counters, NEW d \in Deltas, Add(w, c, d)
        PROVE  BooksOK'
    <3>1. /\ currentValue[c] \in Word /\ lastSentValue[c] \in Word /\ d \in Word /\ d \in Int
          /\ currentValue \in [Counters -> Word]
      BY ConstantsAssumption DEF IInv, TypeOK, Word
    <3>2. Plus(currentValue[c], d) \in Word
      BY <3>1, WordArithmetic
    <3>3. Pending(c)' - Pending(c) - d \in {-Modulus, 0, Modulus}
      <4>1. /\ Pending(c)' = Minus(Plus(currentValue[c], d), lastSentValue[c])
            /\ Pending(c) = Minus(currentValue[c], lastSentValue[c])
        BY <2>1, <3>1 DEF Add, WriteValue, Pending
      <4> QED
        BY <3>1, <4>1, TurnsOfWords
    <3>4. /\ WriteValue(w, c, Plus(currentValue[c], d))
          /\ added' = [added EXCEPT ![NameOf[c]] = @ + d]
      BY <2>1 DEF Add
    <3> QED
      BY <1>2, <3>1, <3>2, <3>3, <3>4, BooksWrite
  <2>2. ASSUME NEW w \in Writers, NEW c \in Counters, NEW v \in SetValues, Set(w, c, v)
        PROVE  BooksOK'
    <3>1. /\ currentValue[c] \in Word /\ lastSentValue[c] \in Word /\ v \in Word
          /\ currentValue \in [Counters -> Word] /\ NameOf[c] \in Names
          /\ added \in [Names -> Int] /\ v - currentValue[c] \in Int
      BY ConstantsAssumption DEF IInv, TypeOK, Word
    <3>2. Pending(c)' - Pending(c) - (v - currentValue[c]) \in {-Modulus, 0, Modulus}
      <4>1. /\ Pending(c)' = Minus(v, lastSentValue[c])
            /\ Pending(c) = Minus(currentValue[c], lastSentValue[c])
        BY <2>2, <3>1 DEF Set, WriteValue, Pending
      <4> QED
        BY <3>1, <4>1, TurnsOfWords
    <3>3. added' = [added EXCEPT ![NameOf[c]] = @ + (v - currentValue[c])]
      <4>1. added[NameOf[c]] + v - currentValue[c] = added[NameOf[c]] + (v - currentValue[c])
        BY <3>1, ConstantsAssumption DEF Word
      <4> QED
        BY <2>2, <4>1 DEF Set
    <3>4. WriteValue(w, c, v)
      BY <2>2 DEF Set
    <3> QED
      BY <1>2, <3>1, <3>2, <3>3, <3>4, BooksWrite
  <2>3. ASSUME NEW p \in Procs, LatchCas(p)
        PROVE  BooksOK'
    BY <1>2, <2>3, BooksLatch
  <2>4. ASSUME NEW p \in Procs, Forward(p)
        PROVE  BooksOK'
    BY <1>2, <2>4, BooksForward
  <2>5. ASSUME NEW f \in Flushers, VisitActive(f) \/ RecheckActive(f)
        PROVE  BooksOK'
    <3>1. BooksSame
      BY <2>5, BooksReport DEF BooksSame
    <3> QED
      BY <1>1, <3>1
  <2> QED
    BY <1>3, <2>1, <2>2, <2>3, <2>4, <2>5 DEF Moves
<1> QED
  BY <1>1, <1>3, BooksRest

(* Pruning, rejoining and forwarding neither drop nor duplicate a value: it *)
(* holds for any number of objects of one name, for Set, for counters that  *)
(* wrap around, and when the latches of two calls collide.                  *)
THEOREM ValuesConserved ==
  ASSUME IsFiniteSet(Counters), IsFiniteSet(Procs)
  PROVE  Spec => []Conservation
<1>1. Init => BooksOK
  <2> SUFFICES ASSUME Init, NEW n \in Names
               PROVE  Books(n) \in Int /\ Turns(Books(n))
    BY DEF BooksOK
  <2>1. \A c \in Counters : Waiting(n)[c] = 0
    BY ConstantsAssumption DEF Init, Waiting, Pending, Minus
  <2>2. \A p \in Procs : Carrying(n)[p] = 0
    BY DEF Init, Carrying, Using, LatchUses
  <2>3. /\ SumFunctionOnSet(Waiting(n), Counters) = 0
        /\ SumFunctionOnSet(Carrying(n), Procs) = 0
    BY <2>1, <2>2, SumEmpty, SumPart
  <2>4. Books(n) = 0
    BY <2>3 DEF Init, Books
  <2>5. 0 = 0 * Modulus
    BY ConstantsAssumption
  <2> HIDE DEF Books
  <2> QED
    BY <2>4, <2>5 DEF Turns
<1>2. IInv /\ IInv' /\ BooksOK /\ [Next]_vars => BooksOK'
  BY BooksStep DEF IInv
<1>3. IInv /\ BooksOK => Conservation
  BY BooksMeanConservation DEF IInv, BooksOK
<1> QED
  BY <1>1, <1>2, <1>3, Invariance, PTL DEF Spec

-----------------------------------------------------------------------------
(* CounterStore implements Ledger, as long as no name is given a second     *)
(* object, Set is not called, and less than 2^64 waits in a counter at any  *)
(* time.                                                                    *)

(* An Add finds room in the counter: what is pending does not wrap around.  *)
Fits ==
  \A w \in Writers, c \in Counters, d \in Deltas :
    Add(w, c, d) => Pending(c) + d < Modulus

(* What latch has read since its first load is pending still, and nobody    *)
(* has changed lastSentValue under it: latches of one object never collide. *)
Fresh(f) == Minus(frame[f].value, lastSentValue[frame[f].obj]) <= Pending(frame[f].obj)

LatchOK ==
  \A f \in Flushers :
    /\ pc[f] \in {"loadLast", "cas"} => Fresh(f)
    /\ pc[f] = "cas" => frame[f].last = lastSentValue[frame[f].obj]

(* What is owed for one object: the part in it and the part on its way.     *)
Total(c) == Pending(c) + InTransit(c)

(* Adding to a counter that has room adds to what is pending in it.         *)
LEMMA AddGrows ==
  ASSUME NEW a \in Word, NEW b \in Word, NEW d \in Word, Minus(a, b) + d < Modulus
  PROVE  Minus(Plus(a, d), b) = Minus(a, b) + d
BY ConstantsAssumption DEF Minus, Plus, Word

(* A latch splits what is pending in the part it takes and the part that    *)
(* came later.                                                              *)
LEMMA LatchSplits ==
  ASSUME NEW a \in Word, NEW v \in Word, NEW b \in Word, Minus(v, b) <= Minus(a, b)
  PROVE  Minus(a, b) = Minus(a, v) + Minus(v, b)
BY ConstantsAssumption DEF Minus, Word

(* Only the Flush that holds flushMu is inside latch.                       *)
LEMMA OnlyFlushLatches ==
  ASSUME IInv, NoForwarding, NEW p \in Procs, pc[p] \in LatchSteps \cup LatchUses
  PROVE  p \in Flushers /\ flushMu = p /\ frame[p].obj \in Counters
<1>1. p \in Flushers /\ frame[p].obj \in held
  BY DEF IInv, CallsOK, NoForwarding, LatchSteps, LatchUses
<1> QED
  BY <1>1 DEF IInv, TypeOK, FlushSerialized, LatchSteps, LatchUses

(* The words and the locals are typed.                                      *)
LEMMA Words ==
  ASSUME TypeOK
  PROVE  /\ \A c \in Counters : /\ currentValue[c] \in Word /\ lastSentValue[c] \in Word
                                /\ Pending(c) \in Word /\ Pending(c) \in Nat
         /\ \A p \in Procs : /\ frame[p].value \in Word /\ frame[p].last \in Word
                             /\ Latched(p) \in Word /\ Latched(p) \in Nat
<1>1. \A c \in Counters : currentValue[c] \in Word /\ lastSentValue[c] \in Word
  BY DEF TypeOK
<1>2. \A c \in Counters : Pending(c) \in Word
  BY <1>1, WordArithmetic DEF Pending
<1>3. \A x \in Word : x \in Nat
  BY ConstantsAssumption DEF Word
<1> QED
  BY <1>1, <1>2, <1>3, FrameFields, LatchedType

(* A step that changes nothing of what is owed: no value, nothing in the    *)
(* hands of the Flush, and no latch that has begun.                         *)
Silent ==
  /\ UNCHANGED <<currentValue, lastSentValue, reported>>
  /\ \A f \in Flushers :
       pc'[f] \in {"loadLast", "cas"} => pc'[f] = pc[f] /\ frame'[f] = frame[f]
  /\ \A c \in Counters : InTransit(c)' = InTransit(c)

(* The other steps.                                                         *)
Loud == \/ \E w \in Writers, c \in Counters, d \in Deltas : Add(w, c, d)
        \/ \E p \in Procs : Latch(p)
        \/ \E f \in Flushers : VisitActive(f) \/ RecheckActive(f)

(* A goroutine with no delta in its hands before or after its step changes  *)
(* nothing of what is owed.                                                 *)
LEMMA Still ==
  ASSUME NEW p \in Procs, pc \in [Procs -> PCs], pc[p] \notin LatchUses \/ Latched(p) = 0,
         NEW label \in PCs \ (LatchUses \cup {"loadLast", "cas"}), Goto(p, label),
         \A q \in Procs : q # p => frame'[q] = frame[q], flushMu \in Flushers \cup {None},
         UNCHANGED <<currentValue, lastSentValue, reported, flushMu>>
  PROVE  Silent
<1>1. pc'[p] \notin LatchUses \cup {"loadLast", "cas"}
  BY DEF Goto
<1>2. \A q \in Procs : q # p => pc'[q] = pc[q] /\ frame'[q] = frame[q]
  BY DEF Goto
<1>3. ASSUME NEW c \in Counters
      PROVE  InTransit(c)' = InTransit(c)
  <2>1. CASE flushMu = p
    BY <1>1, <2>1, ConstantsAssumption DEF InTransit
  <2>2. CASE flushMu # p
    <3>1. flushMu # None => pc'[flushMu] = pc[flushMu] /\ frame'[flushMu] = frame[flushMu]
      BY <1>2, <2>2 DEF Procs
    <3> QED
      BY <3>1 DEF InTransit, Latched
  <2> QED
    BY <2>1, <2>2
<1>4. \A f \in Flushers :
        pc'[f] \in {"loadLast", "cas"} => pc'[f] = pc[f] /\ frame'[f] = frame[f]
  BY <1>1, <1>2 DEF Procs
<1> QED
  BY <1>3, <1>4 DEF Silent

(* Nor does a step that moves no goroutine.                                 *)
LEMMA Untouched ==
  ASSUME UNCHANGED <<currentValue, lastSentValue, reported, pc, frame, flushMu>>
  PROVE  Silent
BY DEF Silent, InTransit, Latched

(* Every other step is silent.                                              *)
LEMMA SilentStep ==
  ASSUME OneObjectPerName, SetValues = {}, IInv, NoForwarding, [Next]_vars
  PROVE  Silent \/ Loud
<1> USE ConstantsAssumption
<1>1. ASSUME NEW w \in Writers, NEW n \in Names, LookupHit(w, n)
      PROVE  Silent \/ Loud
  BY <1>1, Untouched DEF LookupHit, objects, history
<1>2. ASSUME NEW w \in Writers, NEW n \in Names, LookupMiss(w, n)
      PROVE  Silent \/ Loud
  <2>1. "create" \in PCs \ (LatchUses \cup {"loadLast", "cas"}) /\ Goto(w, "create")
    BY <1>2 DEF LookupMiss, PCs, LatchUses, LatchSteps, Return, Procs
  <2>2. /\ \A q \in Procs : q # w => frame'[q] = frame[q]
        /\ UNCHANGED <<currentValue, lastSentValue, reported, flushMu>>
    BY <1>2 DEF LookupMiss, objects, history, Return
  <2>3. w \in Procs /\ (pc[w] \notin LatchUses)
    BY <1>2 DEF LookupMiss, LatchUses, Procs
  <2> QED
    BY <2>1, <2>2, <2>3, Still DEF IInv, TypeOK
<1>3. ASSUME NEW w \in Writers, Create(w)
      PROVE  Silent \/ Loud
  <2>1. "idle" \in PCs \ (LatchUses \cup {"loadLast", "cas"}) /\ Goto(w, "idle")
    BY <1>3 DEF Create, LoadOrStore, PCs, LatchUses, LatchSteps, Return, Procs
  <2>2. /\ \A q \in Procs : q # w => frame'[q] = frame[q]
        /\ UNCHANGED <<currentValue, lastSentValue, reported, flushMu>>
    BY <1>3 DEF Create, LoadOrStore, objects, history, Return
  <2>3. w \in Procs /\ (pc[w] \notin LatchUses)
    BY <1>3 DEF Create, LoadOrStore, LatchUses, Procs
  <2> QED
    BY <2>1, <2>2, <2>3, Still DEF IInv, TypeOK
<1>4. ASSUME NEW w \in Writers, NEW c \in Counters, NEW d \in Deltas, Add(w, c, d)
      PROVE  Silent \/ Loud
  BY <1>4 DEF Loud
<1>5. ASSUME NEW p \in Procs, MaybeRejoin(p)
      PROVE  Silent \/ Loud
  <2> DEFINE label == IF NeedsRejoin(frame[p].obj) THEN "rejoin"
                     ELSE IF p \in Flushers THEN "range" ELSE "idle"
  <2>1. label \in PCs \ (LatchUses \cup {"loadLast", "cas"}) /\ Goto(p, label)
    BY <1>5 DEF MaybeRejoin, PCs, LatchUses, LatchSteps, Return, Procs
  <2>2. frame' = frame \/ frame' = [frame EXCEPT ![p] = NoFrame]
    BY <1>5 DEF MaybeRejoin, Return
  <2>3. frame \in [Procs -> Frames]
    BY DEF IInv, TypeOK
  <2>4. /\ \A q \in Procs : q # p => frame'[q] = frame[q]
        /\ UNCHANGED <<currentValue, lastSentValue, reported, flushMu>>
    BY <1>5, <2>2, <2>3 DEF MaybeRejoin, objects, history
  <2>5. p \in Procs /\ (pc[p] \notin LatchUses)
    BY <1>5 DEF MaybeRejoin, LatchUses, Procs
  <2> QED
    BY <2>1, <2>4, <2>5, Still DEF IInv, TypeOK
<1>6. ASSUME NEW p \in Procs, RejoinAttach(p)
      PROVE  Silent \/ Loud
  <2>1. /\ (IF p \in Flushers THEN "range" ELSE "idle")
             \in PCs \ (LatchUses \cup {"loadLast", "cas"})
        /\ Goto(p, IF p \in Flushers THEN "range" ELSE "idle")
    BY <1>6 DEF RejoinAttach, PCs, LatchUses, LatchSteps, Return, Procs
  <2>2. /\ \A q \in Procs : q # p => frame'[q] = frame[q]
        /\ UNCHANGED <<currentValue, lastSentValue, reported, flushMu>>
    BY <1>6 DEF RejoinAttach, objects, history, Return
  <2>3. p \in Procs /\ (pc[p] \notin LatchUses)
    BY <1>6 DEF RejoinAttach, LatchUses, Procs
  <2> QED
    BY <2>1, <2>2, <2>3, Still DEF IInv, TypeOK
<1>7. ASSUME NEW p \in Procs, RejoinOther(p)
      PROVE  Silent \/ Loud
  <2>1. "load" \in PCs \ (LatchUses \cup {"loadLast", "cas"}) /\ Goto(p, "load")
    BY <1>7 DEF RejoinOther, PCs, LatchUses, LatchSteps, Return, Procs
  <2>2. /\ \A q \in Procs : q # p => frame'[q] = frame[q]
        /\ UNCHANGED <<currentValue, lastSentValue, reported, flushMu>>
    BY <1>7 DEF RejoinOther, objects, history, IInv, TypeOK
  <2>3. p \in Procs /\ (pc[p] \notin LatchUses)
    BY <1>7 DEF RejoinOther, LatchUses, Procs
  <2> QED
    BY <2>1, <2>2, <2>3, Still DEF IInv, TypeOK
<1>8. ASSUME NEW p \in Procs, LatchLoad(p)
      PROVE  Silent \/ Loud
  BY <1>8 DEF Loud, Latch
<1>9. ASSUME NEW p \in Procs, LatchLoadLast(p)
      PROVE  Silent \/ Loud
  BY <1>9 DEF Loud, Latch
<1>10. ASSUME NEW p \in Procs, LatchCas(p)
      PROVE  Silent \/ Loud
  BY <1>10 DEF Loud, Latch
<1>11. ASSUME NEW p \in Procs, Forward(p)
      PROVE  Silent \/ Loud
  BY <1>11 DEF Forward, NoForwarding
<1>12. ASSUME NEW f \in Flushers, FlushLock(f)
      PROVE  Silent \/ Loud
  <2>1. /\ pc' = [pc EXCEPT ![f] = "range"] /\ flushMu = None /\ flushMu' = f
        /\ UNCHANGED <<currentValue, lastSentValue, reported, frame>>
    BY <1>12 DEF FlushLock, FlushMuFree, Goto, objects, history
  <2>2. f \in Procs /\ pc \in [Procs -> PCs]
    BY DEF IInv, TypeOK, Procs
  <2>3. pc'[f] = "range" /\ \A g \in Flushers : g # f => pc'[g] = pc[g]
    BY <2>1, <2>2 DEF Procs
  <2>4. \A c \in Counters : InTransit(c) = 0 /\ InTransit(c)' = 0
    BY <2>1, <2>3 DEF InTransit, LatchUses
  <2> QED
    BY <2>1, <2>3, <2>4 DEF Silent
<1>13. ASSUME NEW f \in Flushers, NEW n \in Names, Visit(f, n)
      PROVE  Silent \/ Loud
  <2>1. CASE counters[n] = None
    BY <1>13, <2>1, Untouched DEF Visit, objects, history
  <2>2. CASE counters[n] # None
    <3>1. "load" \in PCs \ (LatchUses \cup {"loadLast", "cas"}) /\ Goto(f, "load")
      BY <1>13, <2>2 DEF Visit, PCs, LatchUses, LatchSteps
    <3>2. /\ \A q \in Procs : q # f => frame'[q] = frame[q]
          /\ UNCHANGED <<currentValue, lastSentValue, reported, flushMu>>
      BY <1>13, <2>2 DEF Visit, objects, history, IInv, TypeOK
    <3>3. f \in Procs /\ pc[f] \notin LatchUses
      BY <1>13 DEF Visit, LatchUses, Procs
    <3> QED
      BY <3>1, <3>2, <3>3, Still DEF IInv, TypeOK
  <2> QED
    BY <2>1, <2>2
<1>14. ASSUME NEW f \in Flushers, FlushUnlock(f)
      PROVE  Silent \/ Loud
  <2>1. /\ pc[f] = "range" /\ pc' = [pc EXCEPT ![f] = "idle"] /\ flushMu' = None
        /\ UNCHANGED <<currentValue, lastSentValue, reported, frame>>
    BY <1>14 DEF FlushUnlock, Goto, objects, history
  <2>2. f \in Procs /\ pc \in [Procs -> PCs] /\ flushMu = f
    BY <2>1 DEF IInv, TypeOK, FlushSerialized, Procs
  <2>3. pc'[f] = "idle" /\ \A g \in Flushers : g # f => pc'[g] = pc[g]
    BY <2>1, <2>2 DEF Procs
  <2>4. \A c \in Counters : InTransit(c) = 0 /\ InTransit(c)' = 0
    BY <2>1, <2>2 DEF InTransit, LatchUses
  <2> QED
    BY <2>1, <2>3, <2>4 DEF Silent
<1>15. ASSUME NEW f \in Flushers, VisitActive(f)
      PROVE  Silent \/ Loud
  BY <1>15 DEF Loud
<1>16. ASSUME NEW f \in Flushers, VisitIdle(f)
      PROVE  Silent \/ Loud
  <2> DEFINE label == IF PruneAfter = 0 \/ BelowThreshold(frame[f].obj)
                     THEN "range" ELSE "delete"
  <2>1. label \in PCs \ (LatchUses \cup {"loadLast", "cas"}) /\ Goto(f, label)
    BY <1>16 DEF VisitIdle, PCs, LatchUses, LatchSteps, Return, Procs
  <2>2. frame' = frame \/ frame' = [frame EXCEPT ![f] = NoFrame]
    BY <1>16 DEF VisitIdle, Return
  <2>3. frame \in [Procs -> Frames]
    BY DEF IInv, TypeOK
  <2>4. /\ \A q \in Procs : q # f => frame'[q] = frame[q]
        /\ UNCHANGED <<currentValue, lastSentValue, reported, flushMu>>
    BY <1>16, <2>2, <2>3 DEF VisitIdle, objects, history
  <2>5. f \in Procs /\ (Latched(f) = 0)
    BY <1>16 DEF VisitIdle, LatchUses, Procs
  <2> QED
    BY <2>1, <2>4, <2>5, Still DEF IInv, TypeOK
<1>17. ASSUME NEW f \in Flushers, Delete(f)
      PROVE  Silent \/ Loud
  <2>1. "detach" \in PCs \ (LatchUses \cup {"loadLast", "cas"}) /\ Goto(f, "detach")
    BY <1>17 DEF Delete, PCs, LatchUses, LatchSteps, Return, Procs
  <2>2. /\ \A q \in Procs : q # f => frame'[q] = frame[q]
        /\ UNCHANGED <<currentValue, lastSentValue, reported, flushMu>>
    BY <1>17 DEF Delete, objects, history, Return
  <2>3. f \in Procs /\ (pc[f] \notin LatchUses)
    BY <1>17 DEF Delete, LatchUses, Procs
  <2> QED
    BY <2>1, <2>2, <2>3, Still DEF IInv, TypeOK
<1>18. ASSUME NEW f \in Flushers, Detach(f)
      PROVE  Silent \/ Loud
  <2>1. "load" \in PCs \ (LatchUses \cup {"loadLast", "cas"}) /\ Goto(f, "load")
    BY <1>18 DEF Detach, PCs, LatchUses, LatchSteps, Return, Procs
  <2>2. /\ \A q \in Procs : q # f => frame'[q] = frame[q]
        /\ UNCHANGED <<currentValue, lastSentValue, reported, flushMu>>
    BY <1>18 DEF Detach, objects, history, Return
  <2>3. f \in Procs /\ (pc[f] \notin LatchUses)
    BY <1>18 DEF Detach, LatchUses, Procs
  <2> QED
    BY <2>1, <2>2, <2>3, Still DEF IInv, TypeOK
<1>19. ASSUME NEW f \in Flushers, RecheckActive(f)
      PROVE  Silent \/ Loud
  BY <1>19 DEF Loud
<1>20. ASSUME NEW f \in Flushers, RecheckIdle(f)
      PROVE  Silent \/ Loud
  <2>1. "range" \in PCs \ (LatchUses \cup {"loadLast", "cas"}) /\ Goto(f, "range")
    BY <1>20 DEF RecheckIdle, PCs, LatchUses, LatchSteps, Return, Procs
  <2>2. /\ \A q \in Procs : q # f => frame'[q] = frame[q]
        /\ UNCHANGED <<currentValue, lastSentValue, reported, flushMu>>
    BY <1>20 DEF RecheckIdle, objects, history, Return
  <2>3. f \in Procs /\ (Latched(f) = 0)
    BY <1>20 DEF RecheckIdle, LatchUses, Procs
  <2> QED
    BY <2>1, <2>2, <2>3, Still DEF IInv, TypeOK
<1>21. CASE UNCHANGED vars
  BY <1>21, Untouched DEF vars, objects, history
<1> QED
  BY <1>1, <1>2, <1>3, <1>4, <1>5, <1>6, <1>7, <1>8, <1>9, <1>10, <1>11,
     <1>12, <1>13, <1>14, <1>15, <1>16, <1>17, <1>18, <1>19, <1>20, <1>21
     DEF Next, WriterStep, FlusherStep, Lookup, Write, Call, Rejoin, Latch,
         Visits, Procs

(* Every step keeps LatchOK.                                                *)
LEMMA LatchStep ==
  ASSUME OneObjectPerName, SetValues = {}, IInv, NoForwarding, LatchOK, Fits, [Next]_vars
  PROVE  LatchOK'
<1> USE ConstantsAssumption
<1>1. /\ TypeOK /\ pc \in [Procs -> PCs] /\ frame \in [Procs -> Frames]
      /\ Flushers \subseteq Procs
  BY DEF IInv, TypeOK, Procs
<1>2. CASE Silent
  BY <1>2 DEF Silent, LatchOK, Fresh, Pending
<1>3. ASSUME NEW w \in Writers, NEW c \in Counters, NEW d \in Deltas, Add(w, c, d)
      PROVE  LatchOK'
  <2>1. /\ currentValue' = [currentValue EXCEPT ![c] = Plus(currentValue[c], d)]
        /\ lastSentValue' = lastSentValue
        /\ pc' = [pc EXCEPT ![w] = "check"] /\ frame' = [frame EXCEPT ![w].obj = c]
    BY <1>3 DEF Add, WriteValue, Goto
  <2>2. \A f \in Flushers : pc'[f] = pc[f] /\ frame'[f] = frame[f]
    BY <1>1, <2>1
  <2>3. ASSUME NEW x \in Counters
        PROVE  Pending(x) <= Pending(x)'
    <3>1. currentValue[x] \in Word /\ lastSentValue[x] \in Word /\ Pending(x) \in Nat
      BY <1>1, Words
    <3>2. d \in Word /\ d \in Nat
      BY DEF Word
    <3>3. CASE x = c
      <4>1. Pending(c) + d < Modulus
        BY <1>3 DEF Fits
      <4>2. Pending(c)' = Minus(Plus(currentValue[c], d), lastSentValue[c])
        BY <1>1, <2>1 DEF Pending, TypeOK
      <4>3. Minus(currentValue[c], lastSentValue[c]) + d < Modulus
        BY <4>1 DEF Pending
      <4>4. Pending(c)' = Minus(currentValue[c], lastSentValue[c]) + d
        <5>1. currentValue[c] \in Word /\ lastSentValue[c] \in Word
          BY <3>1, <3>3
        <5> QED
          BY ONLY <3>2, <4>2, <4>3, <5>1, AddGrows
      <4>5. Pending(c)' = Pending(c) + d
        BY <4>4 DEF Pending
      <4> QED
        BY <3>1, <3>2, <3>3, <4>5
    <3>4. CASE x # c
      <4>1. Pending(x)' = Pending(x)
        BY <2>1, <3>4 DEF Pending
      <4> QED
        BY <3>1, <4>1
    <3> QED
      BY <3>3, <3>4
  <2>4. ASSUME NEW f \in Flushers, pc'[f] \in {"loadLast", "cas"}
        PROVE  Fresh(f)'
    <3>1. frame[f].obj \in Counters /\ pc[f] \in {"loadLast", "cas"} /\ Fresh(f)
      BY <1>1, <2>2, <2>4, OnlyFlushLatches DEF LatchOK, LatchSteps
    <3>2. PICK x \in Counters : x = frame[f].obj
      BY <3>1
    <3> DEFINE m == Minus(frame[f].value, lastSentValue[x])
    <3>3. m \in Nat /\ Pending(x) \in Nat
      <4>1. frame[f].value \in Word /\ lastSentValue[x] \in Word
        BY <1>1, Words
      <4>2. m \in Word
        BY <4>1, WordArithmetic
      <4> QED
        BY <1>1, <4>2, Words DEF Word
    <3>4. m <= Pending(x) /\ Pending(x) <= Pending(x)'
      BY <2>3, <3>1, <3>2 DEF Fresh
    <3>5. Pending(x)' \in Int
      <4>1. Plus(currentValue[c], d) \in Word
        BY <1>1, Words, WordArithmetic
      <4>2. currentValue'[x] \in Word /\ lastSentValue'[x] \in Word
        BY <1>1, <2>1, <4>1 DEF TypeOK
      <4>3. Minus(currentValue'[x], lastSentValue'[x]) \in Word
        BY <4>2, WordArithmetic
      <4>4. Pending(x)' = Minus(currentValue'[x], lastSentValue'[x])
        BY DEF Pending
      <4> QED
        BY <4>3, <4>4 DEF Word
    <3>6. m <= Pending(x)'
      BY <3>3, <3>4, <3>5
    <3>7. frame'[f] = frame[f] /\ lastSentValue'[x] = lastSentValue[x]
      BY <2>1, <2>2
    <3> QED
      BY <3>2, <3>6, <3>7 DEF Fresh
  <2> QED
    BY <2>1, <2>2, <2>4 DEF LatchOK
<1>4. ASSUME NEW p \in Procs, LatchLoad(p)
      PROVE  LatchOK'
  <2>1. /\ pc[p] = "load" /\ pc' = [pc EXCEPT ![p] = "loadLast"]
        /\ frame' = [frame EXCEPT ![p].value = currentValue[frame[p].obj]]
        /\ UNCHANGED <<currentValue, lastSentValue>>
    BY <1>4 DEF LatchLoad, Goto, objects
  <2>2. frame[p].obj \in Counters
    BY <2>1, OnlyFlushLatches DEF LatchSteps
  <2>3. \A f \in Flushers : f # p => pc'[f] = pc[f] /\ frame'[f] = frame[f]
    BY <1>1, <2>1
  <2>4. pc'[p] = "loadLast" /\ frame'[p].obj = frame[p].obj
          /\ frame'[p].value = currentValue[frame[p].obj]
    BY <1>1, <2>1 DEF Frames
  <2>5. Pending(frame[p].obj) \in Nat
    BY <1>1, <2>2, Words
  <2>6. Fresh(p)'
    BY <2>1, <2>4, <2>5 DEF Fresh, Pending
  <2> QED
    BY <2>1, <2>3, <2>4, <2>6 DEF LatchOK, Fresh, Pending
<1>5. ASSUME NEW p \in Procs, LatchLoadLast(p)
      PROVE  LatchOK'
  <2>1. /\ pc[p] = "loadLast"
        /\ frame' = [frame EXCEPT ![p].last = lastSentValue[frame[p].obj]]
        /\ UNCHANGED <<currentValue, lastSentValue>>
        /\ \A f \in Procs : f # p => pc'[f] = pc[f]
    BY <1>1, <1>5 DEF LatchLoadLast, Goto, objects
  <2>2. p \in Flushers /\ Fresh(p)
    BY <2>1, OnlyFlushLatches DEF LatchSteps, LatchOK
  <2>3. \A f \in Flushers : f # p => pc'[f] = pc[f] /\ frame'[f] = frame[f]
    BY <1>1, <2>1
  <2>4. /\ frame'[p].obj = frame[p].obj /\ frame'[p].value = frame[p].value
        /\ frame'[p].last = lastSentValue[frame[p].obj]
    BY <1>1, <2>1 DEF Frames
  <2>5. Fresh(p)'
    BY <2>1, <2>2, <2>4 DEF Fresh, Pending
  <2> QED
    BY <2>1, <2>3, <2>4, <2>5 DEF LatchOK, Fresh, Pending
<1>6. ASSUME NEW p \in Procs, LatchCas(p)
      PROVE  LatchOK'
  <2>1. /\ pc[p] = "cas"
        /\ \E label \in {frame[p].ret, "load"} : pc' = [pc EXCEPT ![p] = label]
    BY <1>6 DEF LatchCas, Goto
  <2>2. p \in Flushers /\ flushMu = p /\ frame[p].ret \in LatchUses
    BY <2>1, OnlyFlushLatches DEF LatchSteps, IInv, CallsOK
  <2>3. pc'[p] \notin {"loadLast", "cas"}
    BY <1>1, <2>1, <2>2 DEF LatchUses
  <2>4. \A f \in Flushers : f # p => pc[f] = "idle"
    BY <2>2 DEF IInv, FlushSerialized
  <2>5. \A f \in Flushers : f # p => pc'[f] = "idle"
    BY <1>1, <2>1, <2>4
  <2> QED
    BY <2>3, <2>5 DEF LatchOK
<1>7. ASSUME NEW p \in Flushers, VisitActive(p) \/ RecheckActive(p)
      PROVE  LatchOK'
  <2>1. /\ \E label \in {"range", "rejoin"} : pc' = [pc EXCEPT ![p] = label]
        /\ frame' = frame \/ frame' = [frame EXCEPT ![p] = NoFrame]
        /\ UNCHANGED <<currentValue, lastSentValue>>
    BY <1>7 DEF VisitActive, RecheckActive, Goto, Return
  <2>2. pc'[p] \notin {"loadLast", "cas"}
    BY <1>1, <2>1
  <2>3. \A f \in Flushers : f # p => pc'[f] = pc[f] /\ frame'[f] = frame[f]
    BY <1>1, <2>1
  <2> QED
    BY <2>1, <2>2, <2>3 DEF LatchOK, Fresh, Pending
<1> QED
  BY <1>2, <1>3, <1>4, <1>5, <1>6, <1>7, SilentStep DEF Loud, Latch

(* What one object gains or loses, its name gains or loses, and no other.   *)
LEMMA OwedChanges ==
  ASSUME OneObjectPerName, NEW c \in Counters, NEW k \in Int,
         \A x \in Counters : Total(x) \in Nat,
         \A x \in Counters : Total(x)' = IF x = c THEN Total(x) + k ELSE Total(x)
  PROVE  /\ NameOf[c] \in Names /\ Owed[NameOf[c]] = Total(c)
         /\ Owed' = [Owed EXCEPT ![NameOf[c]] = @ + k]
<1> DEFINE obj(n) == CHOOSE o \in ObjectsOf(n) : TRUE
<1>1. NameOf[c] \in Names /\ ObjectsOf(NameOf[c]) = {c} /\ obj(NameOf[c]) = c
  BY ConstantsAssumption DEF ObjectsOf, OneObjectPerName
<1>2. ASSUME NEW n \in Names, n # NameOf[c], ObjectsOf(n) # {}
      PROVE  obj(n) \in Counters /\ obj(n) # c
  BY <1>2 DEF ObjectsOf
<1> DEFINE old(n) == IF ObjectsOf(n) = {} THEN 0 ELSE Total(obj(n))
           new(n) == IF ObjectsOf(n) = {} THEN 0 ELSE Total(obj(n))'
<1>3. Owed = [n \in Names |-> old(n)]
  BY DEF Owed, Total
<1>4. Owed' = [n \in Names |-> new(n)]
  BY DEF Owed, Total, ObjectsOf
<1>5. ASSUME NEW n \in Names
      PROVE  new(n) = IF n = NameOf[c] THEN old(n) + k ELSE old(n)
  BY <1>1, <1>2
<1>6. old(NameOf[c]) = Total(c)
  BY <1>1
<1> HIDE DEF old, new, obj
<1> QED
  BY <1>1, <1>3, <1>4, <1>5, <1>6

(* Nothing but an Add changes what was written.                             *)
LEMMA OnlyAddsWrite ==
  ASSUME SetValues = {}, [Next]_vars
  PROVE  \/ \E w \in Writers, c \in Counters, d \in Deltas : Add(w, c, d)
         \/ UNCHANGED <<writes, added>>
<1>1. ASSUME NEW p \in Procs, Call(p)
      PROVE  UNCHANGED <<writes, added>>
  BY <1>1 DEF Call, Rejoin, MaybeRejoin, RejoinAttach, RejoinOther, Latch, LatchLoad,
              LatchLoadLast, LatchCas, Forward, history
<1>2. ASSUME NEW f \in Flushers, Visits(f)
      PROVE  UNCHANGED <<writes, added>>
  BY <1>2 DEF Visits, Visit, VisitActive, VisitIdle, Delete, Detach, RecheckActive,
              RecheckIdle, Report, history
<1>3. ASSUME NEW f \in Flushers, FlushLock(f) \/ FlushUnlock(f)
      PROVE  UNCHANGED <<writes, added>>
  BY <1>3 DEF FlushLock, FlushUnlock, history
<1>4. ASSUME NEW w \in Writers, Lookup(w) \/ Create(w)
      PROVE  UNCHANGED <<writes, added>>
  BY <1>4 DEF Lookup, LookupHit, LookupMiss, Create, history
<1>5. CASE UNCHANGED vars
  BY <1>5 DEF vars, history
<1> QED
  BY <1>1, <1>2, <1>3, <1>4, <1>5 DEF Next, WriterStep, FlusherStep, Write, Procs

(* Every step of the store is a step of the ledger, or changes nothing in   *)
(* it: an Add adds, the end of a visit that found something reports, and    *)
(* the two latches, pruning, detaching and rejoining are not seen.          *)
AddStep ==
  \E w \in Writers, c \in Counters, d \in Deltas : Add(w, c, d) /\ L!Add(NameOf[c], d)
ReportStep == \E n \in Names : L!Report(n)

LEMMA LedgerStep ==
  ASSUME OneObjectPerName, SetValues = {}, IInv, NoForwarding, LatchOK, Fits, [Next]_vars
  PROVE  \/ AddStep
         \/ UNCHANGED <<writes, added>> /\ (ReportStep \/ UNCHANGED L!ledger)
<1> USE ConstantsAssumption
<1>1. /\ TypeOK /\ pc \in [Procs -> PCs] /\ frame \in [Procs -> Frames]
      /\ Flushers \subseteq Procs
  BY DEF IInv, TypeOK, Procs
<1>2. \A c \in Counters : InTransit(c) \in Nat /\ Total(c) \in Nat
  <2>1. ASSUME NEW c \in Counters
        PROVE  InTransit(c) \in Nat /\ Pending(c) \in Nat
    BY <1>1, Words DEF InTransit, TypeOK
  <2> QED
    BY <2>1 DEF Total
<1>3. ASSUME UNCHANGED reported, \A c \in Counters : Total(c)' = Total(c)
      PROVE  UNCHANGED L!ledger
  BY <1>3 DEF L!ledger, Owed, Total, ObjectsOf
<1>4. ASSUME NEW w \in Writers, NEW c \in Counters, NEW d \in Deltas, Add(w, c, d)
      PROVE  AddStep
  <2>1. /\ currentValue' = [currentValue EXCEPT ![c] = Plus(currentValue[c], d)]
        /\ pc' = [pc EXCEPT ![w] = "check"] /\ frame' = [frame EXCEPT ![w].obj = c]
        /\ UNCHANGED <<lastSentValue, flushMu, reported>>
    BY <1>4 DEF Add, WriteValue, Goto
  <2>2. \A f \in Flushers : pc'[f] = pc[f] /\ frame'[f] = frame[f]
    BY <1>1, <2>1
  <2>3. \A x \in Counters : InTransit(x)' = InTransit(x)
    BY <1>1, <2>1, <2>2 DEF InTransit, Latched, TypeOK
  <2>4. d \in Word /\ d \in Nat
    BY DEF Word
  <2>5. Pending(c)' = Pending(c) + d
    <3>1. currentValue[c] \in Word /\ lastSentValue[c] \in Word
      BY <1>1, Words
    <3>2. Minus(currentValue[c], lastSentValue[c]) + d < Modulus
      BY <1>4 DEF Fits, Pending
    <3>3. Pending(c)' = Minus(Plus(currentValue[c], d), lastSentValue[c])
      BY <1>1, <2>1 DEF Pending, TypeOK
    <3>4. Pending(c)' = Minus(currentValue[c], lastSentValue[c]) + d
      BY ONLY <2>4, <3>1, <3>2, <3>3, AddGrows
    <3> QED
      BY <3>4 DEF Pending
  <2>6. \A x \in Counters : x # c => Pending(x)' = Pending(x)
    BY <2>1 DEF Pending
  <2>7. \A x \in Counters : Total(x)' = IF x = c THEN Total(x) + d ELSE Total(x)
    <3>1. Pending(c) \in Nat /\ InTransit(c) \in Nat
      BY <1>1, <1>2, Words
    <3> QED
      BY <2>3, <2>4, <2>5, <2>6, <3>1 DEF Total
  <2>8. Owed' = [Owed EXCEPT ![NameOf[c]] = @ + d] /\ NameOf[c] \in Names
    BY <1>2, <2>4, <2>7, OwedChanges
  <2> QED
    BY <1>4, <2>1, <2>8 DEF AddStep, L!Add
<1>5. ASSUME NEW p \in Procs, LatchLoad(p)
      PROVE  UNCHANGED L!ledger
  <2>1. /\ pc[p] = "load" /\ pc' = [pc EXCEPT ![p] = "loadLast"]
        /\ UNCHANGED <<currentValue, lastSentValue, flushMu, reported>>
    BY <1>5 DEF LatchLoad, Goto, objects, history
  <2>2. p \in Flushers /\ flushMu = p /\ flushMu' = p
    BY <2>1, OnlyFlushLatches DEF LatchSteps
  <2>3. pc'[p] = "loadLast" /\ pc[p] \notin LatchUses /\ pc'[p] \notin LatchUses
    BY <1>1, <2>1 DEF LatchUses
  <2>4. \A c \in Counters : InTransit(c) = 0 /\ InTransit(c)' = 0
    BY <2>2, <2>3 DEF InTransit
  <2>5. \A c \in Counters : Pending(c)' = Pending(c)
    BY <2>1 DEF Pending
  <2> QED
    BY <1>3, <2>1, <2>4, <2>5 DEF Total
<1>6. ASSUME NEW p \in Procs, LatchLoadLast(p)
      PROVE  UNCHANGED L!ledger
  <2> DEFINE last == lastSentValue[frame[p].obj]
  <2>1. /\ pc[p] = "loadLast" /\ frame' = [frame EXCEPT ![p].last = last]
        /\ pc' = [pc EXCEPT ![p] = IF last = frame[p].value THEN frame[p].ret ELSE "cas"]
        /\ UNCHANGED <<currentValue, lastSentValue, flushMu, reported>>
    BY <1>6 DEF LatchLoadLast, Goto, objects, history
  <2>2. p \in Flushers /\ flushMu = p /\ flushMu' = p /\ frame[p].obj \in Counters
    BY <2>1, OnlyFlushLatches DEF LatchSteps
  <2>3. pc[p] \notin LatchUses /\ (pc'[p] \in LatchUses => last = frame[p].value)
    BY <1>1, <2>1 DEF LatchUses
  <2>4. frame'[p].last = last /\ frame'[p].value = frame[p].value /\ last \in Word
    BY <1>1, <2>1, <2>2, Words DEF Frames
  <2>5. pc'[p] \in LatchUses => Latched(p)' = 0
    BY <2>3, <2>4, MinusZero DEF Latched
  <2>6. \A c \in Counters : InTransit(c) = 0 /\ InTransit(c)' = 0
    BY <2>2, <2>3, <2>5 DEF InTransit
  <2>7. \A c \in Counters : Pending(c)' = Pending(c)
    BY <2>1 DEF Pending
  <2> QED
    BY <1>3, <2>1, <2>6, <2>7 DEF Total
<1>7. ASSUME NEW p \in Procs, LatchCas(p)
      PROVE  UNCHANGED L!ledger
  <2>1. pc[p] = "cas"
    BY <1>7 DEF LatchCas
  <2>2. /\ p \in Flushers /\ flushMu = p /\ frame[p].obj \in Counters
        /\ frame[p].ret \in LatchUses
    BY <2>1, OnlyFlushLatches DEF LatchSteps, IInv, CallsOK
  <2>3. PICK x \in Counters : x = frame[p].obj
    BY <2>2
  <2>4. frame[p].last = lastSentValue[x] /\ Fresh(p)
    BY <2>1, <2>2, <2>3 DEF LatchOK
  <2>5. /\ lastSentValue' = [lastSentValue EXCEPT ![x] = frame[p].value]
        /\ pc' = [pc EXCEPT ![p] = frame[p].ret]
        /\ UNCHANGED <<currentValue, frame, flushMu, reported>>
    BY <1>7, <2>3, <2>4 DEF LatchCas, CasFinds, Goto, history
  <2>6. pc'[p] \in LatchUses /\ pc[p] \notin LatchUses
    BY <1>1, <2>1, <2>2, <2>5 DEF LatchUses
  <2>7. /\ \A c \in Counters : InTransit(c) = 0
        /\ \A c \in Counters : InTransit(c)' = IF c = x THEN Latched(p) ELSE 0
    BY <2>2, <2>3, <2>5, <2>6 DEF InTransit, Latched
  <2>8. Pending(x) = Pending(x)' + Latched(p)
    <3>1. currentValue[x] \in Word /\ lastSentValue[x] \in Word /\ frame[p].value \in Word
      BY <1>1, Words
    <3>2. Minus(frame[p].value, lastSentValue[x]) <= Minus(currentValue[x], lastSentValue[x])
      BY <2>3, <2>4 DEF Fresh, Pending
    <3>3. Minus(currentValue[x], lastSentValue[x])
            = Minus(currentValue[x], frame[p].value) + Minus(frame[p].value, lastSentValue[x])
      BY <3>1, <3>2, LatchSplits
    <3>4. Pending(x)' = Minus(currentValue[x], frame[p].value)
      BY <1>1, <2>5 DEF Pending, TypeOK
    <3> QED
      BY <2>4, <3>3, <3>4 DEF Pending, Latched
  <2>9. \A c \in Counters : c # x => Pending(c)' = Pending(c)
    BY <2>5 DEF Pending
  <2>10. \A c \in Counters : Total(c)' = Total(c)
    <3>1. Pending(x) \in Nat /\ Pending(x)' \in Int /\ Latched(p) \in Nat
      <4>1. currentValue[x] \in Word /\ frame[p].value \in Word
        BY <1>1, Words
      <4>2. Pending(x)' = Minus(currentValue[x], frame[p].value)
        BY <1>1, <2>5 DEF Pending, TypeOK
      <4>3. Pending(x)' \in Word
        BY <4>1, <4>2, WordArithmetic
      <4> QED
        BY <1>1, <4>3, Words DEF Word
    <3>2. Total(x)' = Total(x)
      BY <2>7, <2>8, <3>1 DEF Total
    <3>3. \A c \in Counters : c # x => Total(c)' = Total(c)
      BY <2>7, <2>9 DEF Total
    <3> QED
      BY <3>2, <3>3
  <2> QED
    BY <1>3, <2>5, <2>10
<1>8. ASSUME NEW f \in Flushers, VisitActive(f) \/ RecheckActive(f)
      PROVE  ReportStep
  <2>1. /\ pc[f] \in {"visit", "recheck"}
        /\ \E label \in {"range", "rejoin"} : pc' = [pc EXCEPT ![f] = label]
        /\ UNCHANGED <<currentValue, lastSentValue, flushMu>>
        /\ Report(f)
    BY <1>8 DEF VisitActive, RecheckActive, Goto, Return
  <2>2. flushMu = f /\ flushMu' = f /\ frame[f].obj \in Counters
    BY <1>1, <2>1, OnlyFlushLatches DEF LatchUses
  <2>3. PICK c \in Counters : c = frame[f].obj
    BY <2>2
  <2>4. PICK k \in Nat : k = Latched(f) /\ k # 0
    BY <1>1, <2>1, Words DEF Report
  <2>5. reported' = [reported EXCEPT ![NameOf[c]] = @ + k]
    BY <2>1, <2>3, <2>4 DEF Report
  <2>6. pc[f] \in LatchUses /\ pc'[f] \notin LatchUses
    BY <1>1, <2>1 DEF LatchUses
  <2>7. \A x \in Counters : /\ InTransit(x) = IF x = c THEN k ELSE 0
                            /\ InTransit(x)' = 0
    BY <2>2, <2>3, <2>4, <2>6 DEF InTransit
  <2>8. \A x \in Counters : Pending(x)' = Pending(x)
    BY <2>1 DEF Pending
  <2>9. \A x \in Counters : Pending(x) \in Nat
    BY <1>1, Words
  <2>10. PICK j \in Int : j = -k
    BY <2>4
  <2>11. \A x \in Counters : Total(x)' = IF x = c THEN Total(x) + j ELSE Total(x)
    BY <2>4, <2>7, <2>8, <2>9, <2>10 DEF Total
  <2>12. NameOf[c] \in Names /\ Owed[NameOf[c]] = Total(c)
    BY <1>2, <2>11, OwedChanges
  <2>13. Owed' = [Owed EXCEPT ![NameOf[c]] = @ + j]
    BY <1>2, <2>11, OwedChanges
  <2>14. Total(c) + j = Total(c) - k /\ k \in 1 .. Total(c)
    BY <2>4, <2>7, <2>9, <2>10 DEF Total
  <2>15. Owed' = [Owed EXCEPT ![NameOf[c]] = @ - k]
    BY <2>12, <2>13, <2>14
  <2> QED
    BY <2>5, <2>12, <2>14, <2>15 DEF ReportStep, L!Report
<1>9. ASSUME Silent
      PROVE  UNCHANGED L!ledger
  <2>1. UNCHANGED <<currentValue, lastSentValue, reported>>
    BY <1>9 DEF Silent
  <2>2. \A c \in Counters : Pending(c)' = Pending(c) /\ InTransit(c)' = InTransit(c)
    BY <1>9, <2>1 DEF Silent, Pending
  <2>3. \A c \in Counters : Total(c)' = Total(c)
    BY <2>2 DEF Total
  <2> QED
    BY <1>3, <2>1, <2>3
<1>10. AddStep \/ ReportStep \/ UNCHANGED L!ledger
  BY <1>4, <1>5, <1>6, <1>7, <1>8, <1>9, SilentStep DEF Loud, Latch
<1> QED
  BY <1>4, <1>10, OnlyAddsWrite

(* At first nothing is owed.                                                *)
LEMMA InitLedger ==
  ASSUME Init
  PROVE  L!Init /\ LatchOK /\ NoForwarding /\ Owed = [n \in Names |-> 0]
<1>1. ASSUME NEW c \in Counters
      PROVE  Pending(c) = 0 /\ InTransit(c) = 0
  BY <1>1, ConstantsAssumption DEF Init, Pending, Minus, InTransit
<1>2. Owed = [n \in Names |-> 0]
  BY <1>1 DEF Owed, ObjectsOf
<1>3. LatchOK /\ NoForwarding
  BY ConstantsAssumption DEF Init, LatchOK, NoForwarding, NoFrame, Procs
<1> QED
  BY <1>2, <1>3 DEF L!Init, Init

(* What is owed is never negative.                                          *)
LEMMA TransitType ==
  ASSUME TypeOK, NEW c \in Counters
  PROVE  InTransit(c) \in Nat
BY Words DEF InTransit, TypeOK, Procs

LEMMA OwedType == ASSUME TypeOK PROVE Owed \in [Names -> Nat]
<1>1. \A c \in Counters : Pending(c) + InTransit(c) \in Nat
  BY Words, TransitType
<1>2. ASSUME NEW n \in Names, ObjectsOf(n) # {}
      PROVE  (CHOOSE o \in ObjectsOf(n) : TRUE) \in Counters
  BY <1>2 DEF ObjectsOf
<1> QED
  BY <1>1, <1>2 DEF Owed

(* A product grows with its first factor.                                   *)
LEMMA Distributes ==
  ASSUME NEW i \in Nat, NEW m \in Nat, NEW D \in Nat, i + 1 <= m
  PROVE  i * D + D <= m * D
<1>1. PICK j \in Nat : m = i + 1 + j
  <2>1. m - i - 1 \in Nat /\ m = i + 1 + (m - i - 1)
    OBVIOUS
  <2> QED
    BY <2>1
<1>2. m * D = i * D + D + j * D
  BY <1>1
<1>3. j * D \in Nat /\ i * D \in Nat
  BY <1>1
<1> QED
  BY <1>2, <1>3

-----------------------------------------------------------------------------
(* What follows for the whole run.                                          *)

(* With one object for each name, no delta is ever forwarded.               *)
LEMMA NeverForwards == ASSUME OneObjectPerName PROVE Spec => []NoForwarding
<1>1. Init => NoForwarding
  BY InitLedger
<1>2. IInv /\ NoForwarding /\ [Next]_vars => NoForwarding'
  BY ForwardingStep
<1> QED
  BY <1>1, <1>2, Invariance, PTL DEF Spec

(* While every Add finds room, each step keeps LatchOK and is one of the    *)
(* ledger's, or none.                                                       *)
LEMMA RoomyStep ==
  ASSUME OneObjectPerName, SetValues = {}, IInv, NoForwarding, LatchOK,
         [Fits]_vars, [Next]_vars
  PROVE  /\ LatchOK'
         /\ \/ AddStep
            \/ UNCHANGED <<writes, added>> /\ (ReportStep \/ UNCHANGED L!ledger)
<1>1. CASE Fits
  BY <1>1, LatchStep, LedgerStep
<1>2. CASE UNCHANGED vars
  <2>1. UNCHANGED <<writes, added, L!ledger>>
    BY <1>2 DEF vars, objects, history, L!ledger, Owed, Pending, InTransit, Latched
  <2>2. LatchOK'
    BY <1>2 DEF vars, objects, history, LatchOK, Fresh, Pending
  <2> QED
    BY <2>1, <2>2
<1> QED
  BY <1>1, <1>2

LEMMA LatchInvariance ==
  ASSUME OneObjectPerName, SetValues = {}
  PROVE  Spec /\ [][Fits]_vars => []LatchOK
<1>1. Init => LatchOK
  BY InitLedger
<1>2. IInv /\ NoForwarding /\ LatchOK /\ [Fits]_vars /\ [Next]_vars => LatchOK'
  BY RoomyStep
<1> QED
  BY <1>1, <1>2, Invariance, NeverForwards, PTL DEF Spec

(* The store implements the ledger: with one object for each name, only     *)
(* added to, and room in every counter, each step adds, reports what was    *)
(* owed, or changes nothing that can be seen, whatever is pruned, detached, *)
(* rejoined and latched meanwhile.                                          *)
THEOREM ImplementsLedgerSteps ==
  ASSUME OneObjectPerName, SetValues = {}
  PROVE  Spec /\ [][Fits]_vars => L!Spec
<1>1. Init => L!Init
  BY InitLedger
<1>2. IInv /\ NoForwarding /\ LatchOK /\ [Fits]_vars /\ [Next]_vars
        => [L!Next]_(L!ledger)
  <2>1. AddStep => L!Next
    BY ConstantsAssumption DEF AddStep, L!Next
  <2>2. ReportStep => L!Next
    BY DEF ReportStep, L!Next
  <2> QED
    BY <2>1, <2>2, RoomyStep
<1> QED
  BY <1>1, <1>2, Invariance, NeverForwards, LatchInvariance, PTL DEF Spec, L!Spec

(* Under the same hypotheses nothing is lost and nothing is counted twice:  *)
(* what was added to a name is what the sink has received and what is owed. *)
Balanced == \A n \in Names : added[n] = reported[n] + Owed[n]

THEOREM NothingLost ==
  ASSUME OneObjectPerName, SetValues = {}
  PROVE  Spec /\ [][Fits]_vars => []Balanced
<1>1. Init => Balanced
  BY InitLedger DEF Init, Balanced
<1>2. ASSUME IInv, NoForwarding, LatchOK, [Fits]_vars, [Next]_vars, Balanced
      PROVE  Balanced'
  <2>1. /\ added \in [Names -> Int] /\ reported \in [Names -> Nat]
        /\ Owed \in [Names -> Nat]
    BY <1>2, OwedType DEF IInv, TypeOK
  <2>2. CASE AddStep
    <3>1. PICK w \in Writers, c \in Counters, d \in Deltas :
            Add(w, c, d) /\ L!Add(NameOf[c], d)
      BY <2>2 DEF AddStep
    <3>2. d \in Int /\ NameOf[c] \in Names
      BY ConstantsAssumption DEF Word
    <3>3. /\ added' = [added EXCEPT ![NameOf[c]] = @ + d]
          /\ Owed' = [Owed EXCEPT ![NameOf[c]] = @ + d]
          /\ reported' = reported
      BY <3>1 DEF Add, L!Add
    <3> QED
      BY <1>2, <2>1, <3>2, <3>3 DEF Balanced
  <2>3. CASE UNCHANGED added /\ ReportStep
    <3>1. PICK n \in Names : L!Report(n)
      BY <2>3 DEF ReportStep
    <3>2. PICK k \in 1 .. Owed[n] : /\ Owed' = [Owed EXCEPT ![n] = @ - k]
                                    /\ reported' = [reported EXCEPT ![n] = @ + k]
      BY <3>1 DEF L!Report
    <3> QED
      BY <1>2, <2>1, <2>3, <3>2 DEF Balanced
  <2>4. CASE UNCHANGED added /\ UNCHANGED L!ledger
    BY <1>2, <2>4 DEF Balanced, L!ledger
  <2> QED
    BY <1>2, <2>2, <2>3, <2>4, RoomyStep
<1> QED
  BY <1>1, <1>2, Invariance, NeverForwards, LatchInvariance, PTL DEF Spec

(* There is room in every counter when all the writes together fit in one:  *)
(* what is owed is at most what was written.                                *)
Room(D) == \A n \in Names : Owed[n] <= writes * D

LEMMA RoomFits ==
  ASSUME OneObjectPerName, IInv, NEW D \in Nat, \A d \in Deltas : d <= D,
         MaxWrites * D < Modulus, Room(D)
  PROVE  Fits
<1> SUFFICES ASSUME NEW w \in Writers, NEW c \in Counters, NEW d \in Deltas, Add(w, c, d)
             PROVE  Pending(c) + d < Modulus
  BY DEF Fits
<1>1. writes \in Nat /\ writes + 1 <= MaxWrites /\ MaxWrites \in Nat
  BY ConstantsAssumption DEF Add, WriteValue, IInv, TypeOK
<1>2. NameOf[c] \in Names /\ Owed[NameOf[c]] = Pending(c) + InTransit(c)
  <2>1. NameOf[c] \in Names /\ ObjectsOf(NameOf[c]) = {c}
    BY ConstantsAssumption DEF ObjectsOf, OneObjectPerName
  <2> QED
    BY <2>1 DEF Owed
<1>3. Pending(c) \in Nat /\ InTransit(c) \in Nat /\ d \in Nat
  BY Words, TransitType, ConstantsAssumption DEF IInv, Word
<1>4. Pending(c) + d <= writes * D + D
  <2>1. Owed[NameOf[c]] <= writes * D
    BY <1>2 DEF Room
  <2>2. d <= D
    OBVIOUS
  <2>3. PICK m \in Nat : m = writes * D
    BY <1>1
  <2> QED
    BY <1>2, <1>3, <2>1, <2>2, <2>3
<1>5. writes * D + D <= MaxWrites * D
  BY <1>1, Distributes
<1>6. writes * D \in Nat /\ MaxWrites * D \in Nat /\ Modulus \in Nat
  BY <1>1, ConstantsAssumption
<1> QED
  BY <1>3, <1>4, <1>5, <1>6

LEMMA RoomStep ==
  ASSUME OneObjectPerName, SetValues = {}, IInv, NoForwarding, LatchOK, [Next]_vars,
         NEW D \in Nat, \A d \in Deltas : d <= D, MaxWrites * D < Modulus, Room(D)
  PROVE  LatchOK' /\ Room(D)'
<1>1. [Fits]_vars
  BY RoomFits
<1>2. LatchOK'
  BY <1>1, RoomyStep
<1>3. Owed \in [Names -> Nat] /\ writes \in Nat
  BY OwedType, ConstantsAssumption DEF IInv, TypeOK
<1>4. CASE AddStep
  <2>1. PICK w \in Writers, c \in Counters, d \in Deltas :
          Add(w, c, d) /\ L!Add(NameOf[c], d)
    BY <1>4 DEF AddStep
  <2>2. writes' = writes + 1 /\ Owed' = [Owed EXCEPT ![NameOf[c]] = @ + d]
    BY <2>1 DEF Add, WriteValue, L!Add
  <2>3. writes' * D = writes * D + D /\ writes * D \in Nat
    BY <1>3, <2>2
  <2>4. d \in Nat /\ d <= D /\ NameOf[c] \in Names
    BY ConstantsAssumption DEF Word
  <2>5. ASSUME NEW n \in Names
        PROVE  Owed'[n] <= writes' * D
    <3>1. PICK m \in Nat : m = writes * D
      BY <2>3
    <3>2. Owed[n] \in Nat /\ Owed[n] <= m
      BY <1>3, <3>1 DEF Room
    <3>3. Owed'[n] = Owed[n] \/ Owed'[n] = Owed[n] + d
      BY <1>3, <2>2, <2>4
    <3> QED
      BY <2>3, <2>4, <3>1, <3>2, <3>3
  <2> QED
    BY <1>2, <2>5 DEF Room
<1>5. CASE UNCHANGED writes /\ ReportStep
  <2>1. PICK n \in Names : L!Report(n)
    BY <1>5 DEF ReportStep
  <2>2. PICK k \in 1 .. Owed[n] : Owed' = [Owed EXCEPT ![n] = @ - k]
    BY <2>1 DEF L!Report
  <2>3. writes * D \in Nat
    BY <1>3
  <2>4. \A x \in Names : Owed'[x] <= Owed[x] /\ Owed'[x] \in Int
    BY <1>3, <2>2
  <2> QED
    BY <1>2, <1>3, <1>5, <2>3, <2>4 DEF Room
<1>6. CASE UNCHANGED writes /\ UNCHANGED L!ledger
  BY <1>2, <1>6 DEF Room, L!ledger
<1> QED
  BY <1>1, <1>4, <1>5, <1>6, RoomyStep

(* So the two theorems hold of every run in which all the writes together   *)
(* stay below 2^64: their hypothesis is no restriction on the interleaving. *)
THEOREM FewWritesFit ==
  ASSUME OneObjectPerName, SetValues = {}, NEW D \in Nat, \A d \in Deltas : d <= D,
         MaxWrites * D < Modulus
  PROVE  Spec => [][Fits]_vars /\ L!Spec /\ []Balanced
<1>1. Init => LatchOK /\ Room(D)
  <2> SUFFICES ASSUME Init
               PROVE  LatchOK /\ Room(D)
    OBVIOUS
  <2>1. writes * D = 0
    BY DEF Init
  <2> QED
    BY <2>1, InitLedger DEF Room
<1>2. IInv /\ NoForwarding /\ LatchOK /\ Room(D) /\ [Next]_vars => LatchOK' /\ Room(D)'
  BY RoomStep
<1>3. IInv /\ Room(D) => Fits
  BY RoomFits
<1>4. Spec => [][Fits]_vars
  BY <1>1, <1>2, <1>3, Invariance, NeverForwards, PTL DEF Spec
<1> QED
  BY <1>4, ImplementsLedgerSteps, NothingLost, PTL

(* No counter has wrapped around when all the writes together fit in one.   *)
Straight(D) ==
  \A c \in Counters : lastSentValue[c] <= currentValue[c] /\ currentValue[c] <= writes * D

LEMMA StraightStep ==
  ASSUME OneObjectPerName, SetValues = {}, IInv, NoForwarding, LatchOK, [Next]_vars,
         NEW D \in Nat, \A d \in Deltas : d <= D, MaxWrites * D < Modulus, Straight(D)
  PROVE  Straight(D)' /\ \A c \in Counters : lastSentValue'[c] >= lastSentValue[c]
<1> USE ConstantsAssumption
<1>1. /\ TypeOK /\ writes \in Nat /\ Modulus \in Nat /\ Flushers \subseteq Procs
      /\ currentValue \in [Counters -> Word] /\ lastSentValue \in [Counters -> Word]
  BY DEF IInv, TypeOK, Procs
<1>2. \A c \in Counters : currentValue[c] \in Nat /\ lastSentValue[c] \in Nat
  BY <1>1 DEF Word
<1>3. ASSUME UNCHANGED <<currentValue, lastSentValue, writes>>
      PROVE  Straight(D)' /\ \A c \in Counters : lastSentValue'[c] >= lastSentValue[c]
  BY <1>2, <1>3 DEF Straight
<1>4. ASSUME NEW w \in Writers, NEW c \in Counters, NEW d \in Deltas, Add(w, c, d)
      PROVE  Straight(D)' /\ \A x \in Counters : lastSentValue'[x] >= lastSentValue[x]
  <2>1. /\ currentValue' = [currentValue EXCEPT ![c] = Plus(currentValue[c], d)]
        /\ lastSentValue' = lastSentValue /\ writes' = writes + 1 /\ writes < MaxWrites
    BY <1>4 DEF Add, WriteValue
  <2>2. d \in Nat /\ d <= D
    BY DEF Word
  <2>3. PICK m \in Nat : m = writes * D
    BY <1>1
  <2>4. writes' * D = m + D
    BY <1>1, <2>1, <2>3
  <2>5. m + D < Modulus
    <3>1. writes + 1 <= MaxWrites /\ MaxWrites \in Nat
      BY <1>1, <2>1
    <3>2. writes * D + D <= MaxWrites * D
      BY <1>1, <3>1, Distributes
    <3>3. MaxWrites * D \in Nat
      BY <3>1
    <3> QED
      BY <1>1, <2>3, <3>2, <3>3
  <2>6. \A x \in Counters : lastSentValue[x] <= currentValue[x] /\ currentValue[x] <= m
    BY <2>3 DEF Straight
  <2>7. currentValue'[c] = currentValue[c] + d
    <3>1. currentValue[c] + d < Modulus
      BY <1>1, <1>2, <2>2, <2>5, <2>6
    <3> QED
      BY <1>1, <2>1, <3>1 DEF Plus
  <2>8. \A x \in Counters : x # c => currentValue'[x] = currentValue[x]
    BY <1>1, <2>1
  <2>9. \A x \in Counters :
          lastSentValue'[x] <= currentValue'[x] /\ currentValue'[x] <= m + D
    BY <1>2, <2>1, <2>2, <2>3, <2>6, <2>7, <2>8
  <2> QED
    BY <1>2, <2>1, <2>4, <2>9 DEF Straight
<1>5. ASSUME NEW p \in Procs, Latch(p), UNCHANGED writes
      PROVE  Straight(D)' /\ \A x \in Counters : lastSentValue'[x] >= lastSentValue[x]
  <2>1. /\ UNCHANGED currentValue
        /\ UNCHANGED lastSentValue \/ (LatchCas(p) /\ CasFinds(p))
    <3>1. CASE LatchLoad(p)
      BY <3>1 DEF LatchLoad, objects
    <3>2. CASE LatchLoadLast(p)
      BY <3>2 DEF LatchLoadLast, objects
    <3>3. CASE LatchCas(p)
      BY <3>3 DEF LatchCas
    <3> QED
      BY <1>5, <3>1, <3>2, <3>3 DEF Latch
  <2>2. CASE UNCHANGED lastSentValue
    BY <1>3, <1>5, <2>1, <2>2
  <2>3. CASE LatchCas(p) /\ CasFinds(p)
    <3> DEFINE o == frame[p].obj
               v == frame[p].value
    <3>1. p \in Flushers /\ o \in Counters /\ v \in Word
      BY <1>1, <1>5, <2>3, OnlyFlushLatches, Words DEF LatchCas, LatchSteps
    <3>2. /\ lastSentValue' = [lastSentValue EXCEPT ![o] = v]
          /\ currentValue' = currentValue
      BY <2>3 DEF LatchCas
    <3>3. Minus(v, lastSentValue[o]) <= Minus(currentValue[o], lastSentValue[o])
      BY <2>3, <3>1 DEF LatchOK, LatchCas, Fresh, Pending
    <3>4. lastSentValue[o] <= currentValue[o]
      BY <3>1 DEF Straight
    <3>5. currentValue[o] \in Word /\ lastSentValue[o] \in Word
      BY <1>1, <3>1
    <3>6. lastSentValue[o] <= v /\ v <= currentValue[o]
      BY ONLY <3>1, <3>3, <3>4, <3>5, ConstantsAssumption DEF Minus, Word
    <3>7. /\ lastSentValue'[o] = v
          /\ \A x \in Counters : x # o => lastSentValue'[x] = lastSentValue[x]
      BY <1>1, <3>1, <3>2
    <3>8. \A x \in Counters : lastSentValue'[x] >= lastSentValue[x]
      BY <1>2, <3>6, <3>7
    <3>9. \A x \in Counters : lastSentValue'[x] <= currentValue[x]
      BY <3>6, <3>7 DEF Straight
    <3> QED
      BY <1>5, <3>2, <3>8, <3>9 DEF Straight
  <2> QED
    BY <2>1, <2>2, <2>3
<1>6. CASE UNCHANGED writes /\ (Silent \/ \E f \in Flushers : VisitActive(f) \/ RecheckActive(f))
  BY <1>3, <1>6 DEF Silent, VisitActive, RecheckActive, objects
<1> QED
  BY <1>4, <1>5, <1>6, SilentStep, OnlyAddsWrite DEF Loud

(* With one object for each name a stale read is never committed, as the    *)
(* comment of latch says: lastSentValue never goes back.  CounterLatch      *)
(* shows that it does when two objects share a name.                        *)
THEOREM LatchesGoForward ==
  ASSUME OneObjectPerName, SetValues = {}, NEW D \in Nat, \A d \in Deltas : d <= D,
         MaxWrites * D < Modulus
  PROVE  Spec => LatchNeverRegresses
<1>1. Init => Straight(D)
  BY ConstantsAssumption DEF Init, Straight
<1>2. IInv /\ NoForwarding /\ LatchOK /\ Straight(D) /\ [Next]_vars
      => /\ Straight(D)'
         /\ [\A c \in Counters : lastSentValue'[c] >= lastSentValue[c]]_lastSentValue
  BY StraightStep
<1>3. Spec => [][Fits]_vars
  BY FewWritesFit
<1> QED
  BY <1>1, <1>2, <1>3, Invariance, NeverForwards, LatchInvariance, PTL
     DEF Spec, LatchNeverRegresses

=============================================================================
