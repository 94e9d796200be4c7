------------------------- MODULE StatHandler_proofs -------------------------
(***************************************************************************)
(* Proofs about StatHandler, for every set of requests and of status codes  *)
(* and every number of calls a delegate makes.                              *)
(***************************************************************************)
EXTENDS StatHandler, TLAPS

(* codesMtx: who is inside, and who has it or waits for the readers to      *)
(* leave, are the requests whose calls say so.                              *)
LockOK ==
  /\ \A r \in Requests : r \in readers <=> pc[r] = "read"
  /\ \A r \in Requests : writer = r <=> pc[r] \in {"wait", "write"}
  /\ \A r \in Requests : pc[r] = "write" => readers = {}

(* A request is counted under the code of its first header, and has been by *)
(* the time its delegate goes on; it increments a counter that exists.      *)
CountOf(r) ==
  /\ pc[r] = "new" => ~headerWritten[r]
  /\ headerWritten[r] <=> code[r] # None
  /\ pc[r] \in Counting => headerWritten[r]
  /\ counted[r] = IF headerWritten[r] /\ pc[r] \notin Counting THEN <<code[r]>> ELSE <<>>
  /\ pc[r] = "inc" => code[r] \in codes

CountOK == \A r \in Requests : CountOf(r)

(* What net/http has sent: 200 behind the back of the wrapper, or nothing   *)
(* before the header the wrapper has counted.                               *)
StatusOf(r) ==
  /\ r \in bypassed => status[r] = OK
  /\ r \notin bypassed /\ counted[r] = <<>> /\ pc[r] # "done" => status[r] = None
  /\ r \notin bypassed /\ counted[r] # <<>> =>
       IF code[r] \in Informational THEN status[r] \in {None, OK}
                                    ELSE status[r] = code[r]
  /\ pc[r] = "done" => status[r] # None
  /\ pc[r] = "done" /\ counted[r] = <<>> => status[r] = OK

StatusOK == \A r \in Requests : StatusOf(r)

IInv == TypeOK /\ LockOK /\ CountOK /\ StatusOK /\ CreatedOnce

(* Every step keeps the invariant.                                         *)
LEMMA InvStep ==
  ASSUME IInv, [Next]_vars
  PROVE  IInv'
<1> USE StatHandlerAssumption
        DEF IInv, TypeOK, LockOK, CountOK, CountOf, StatusOK, StatusOf, CreatedOnce,
            Counting, Goto, lock, local
<1>1. ASSUME NEW r \in Requests, ServeHTTP(r)
      PROVE  IInv'
  <2>1. TypeOK'
    BY <1>1 DEF ServeHTTP
  <2>2. LockOK'
    BY <1>1 DEF ServeHTTP
  <2>3. CountOK'
    BY <1>1 DEF ServeHTTP
  <2>4. StatusOK'
    BY <1>1 DEF ServeHTTP
  <2>5. CreatedOnce'
    BY <1>1 DEF ServeHTTP
  <2> QED
    BY <2>1, <2>2, <2>3, <2>4, <2>5
<1>2. ASSUME NEW r \in Requests, NEW c \in Codes, WriteHeader(r, c)
      PROVE  IInv'
  <2>1. CASE headerWritten[r]
    <3>1. UNCHANGED <<headerWritten, code, pc>>
      BY <1>2, <2>1 DEF WriteHeader, FirstHeader
    <3>2. ops' \in [Requests -> 0 .. MaxOps]
      BY <1>2 DEF WriteHeader, Op
    <3>3. TypeOK' /\ LockOK' /\ CountOK' /\ CreatedOnce'
      BY <1>2, <2>1, <3>1, <3>2 DEF WriteHeader, FinalStatus
    <3>4. StatusOK'
      BY <1>2, <2>1, <3>1 DEF WriteHeader, Op, FirstHeader, FinalStatus
    <3> QED
      BY <3>3, <3>4
  <2>2. CASE ~headerWritten[r]
    <3>1. /\ pc[r] = "delegate" /\ pc' = [pc EXCEPT ![r] = "rlock"]
          /\ headerWritten' = [headerWritten EXCEPT ![r] = TRUE]
          /\ code' = [code EXCEPT ![r] = c]
          /\ UNCHANGED <<build, offers, codes, readers, writer, status, created,
                         counted, bypassed>>
      BY <1>2, <2>2 DEF WriteHeader, Op, FirstHeader
    <3>2. ops' \in [Requests -> 0 .. MaxOps]
      BY <1>2 DEF WriteHeader, Op
    <3>3. TypeOK'
      BY <3>1, <3>2
    <3>4. LockOK' /\ CreatedOnce'
      BY <3>1
    <3>5. CountOK'
      BY <2>2, <3>1
    <3>6. StatusOK'
      BY <2>2, <3>1
    <3> QED
      BY <3>3, <3>4, <3>5, <3>6
  <2> QED
    BY <2>1, <2>2
<1>3. ASSUME NEW r \in Requests, Write(r)
      PROVE  IInv'
  <2>1. CASE headerWritten[r]
    <3>1. UNCHANGED <<headerWritten, code, pc>>
      BY <1>3, <2>1 DEF Write, ImplicitHeader
    <3>2. ops' \in [Requests -> 0 .. MaxOps]
      BY <1>3 DEF Write, Op
    <3>3. /\ pc[r] = "delegate" /\ status' = [status EXCEPT ![r] = FinalStatus(r, OK)]
          /\ UNCHANGED <<build, offers, codes, readers, writer, created, counted,
                         bypassed>>
      BY <1>3, <2>1 DEF Write, Op, ImplicitHeader
    <3>4. TypeOK'
      BY <3>1, <3>2, <3>3 DEF FinalStatus
    <3>5. LockOK' /\ CountOK' /\ CreatedOnce'
      BY <3>1, <3>3
    <3>6. ASSUME NEW q \in Requests
          PROVE  StatusOf(q)'
      <4>1. CASE q = r
        <5>1. status'[r] = IF status[r] = None THEN OK ELSE status[r]
          BY <3>3 DEF FinalStatus
        <5>2. counted[r] = <<code[r]>> /\ code[r] # None
          BY <2>1, <3>3
        <5>3. CountOf(r) /\ StatusOf(r)
          BY DEF CountOK, StatusOK
        <5> QED
          BY <3>1, <3>3, <4>1, <5>1, <5>2, <5>3
      <4>2. CASE q # r
        BY <3>1, <3>3, <4>2
      <4> QED
        BY <4>1, <4>2
    <3> QED
      BY <3>4, <3>5, <3>6
  <2>2. CASE ~headerWritten[r]
    <3>1. /\ pc[r] = "delegate" /\ pc' = [pc EXCEPT ![r] = "rlock"]
          /\ headerWritten' = [headerWritten EXCEPT ![r] = TRUE]
          /\ code' = [code EXCEPT ![r] = OK]
          /\ UNCHANGED <<build, offers, codes, readers, writer, status, created,
                         counted, bypassed>>
      BY <1>3, <2>2 DEF Write, Op, ImplicitHeader
    <3>2. ops' \in [Requests -> 0 .. MaxOps]
      BY <1>3 DEF Write, Op
    <3>3. TypeOK'
      BY <3>1, <3>2
    <3>4. LockOK' /\ CreatedOnce'
      BY <3>1
    <3>5. CountOK'
      BY <2>2, <3>1
    <3>6. StatusOK'
      BY <2>2, <3>1
    <3> QED
      BY <3>3, <3>4, <3>5, <3>6
  <2> QED
    BY <2>1, <2>2
<1>4. ASSUME NEW r \in Requests, Flush(r)
      PROVE  IInv'
  <2>1. TypeOK' /\ LockOK' /\ CountOK' /\ CreatedOnce'
    BY <1>4 DEF Flush, Op, FinalStatus
  <2>2. ASSUME NEW q \in Requests
        PROVE  StatusOf(q)'
    <3>1. CASE q = r
      <4>1. pc[r] = "delegate" /\ UNCHANGED <<pc, code, headerWritten, counted>>
        BY <1>4 DEF Flush, Op
      <4>2. /\ status'[r] = IF status[r] = None THEN OK ELSE status[r]
            /\ r \in bypassed' <=> r \in bypassed \/ ~headerWritten[r]
        BY <1>4 DEF Flush, FinalStatus
      <4>3. CountOf(r) /\ StatusOf(r)
        BY DEF CountOK, StatusOK
      <4> QED
        BY <3>1, <4>1, <4>2, <4>3
    <3>2. CASE q # r
      BY <1>4, <3>2 DEF Flush, Op, FinalStatus
    <3> QED
      BY <3>1, <3>2
  <2> QED
    BY <2>1, <2>2
<1>5. ASSUME NEW r \in Requests, RLock(r)
      PROVE  IInv'
  <2>1. TypeOK'
    BY <1>5 DEF RLock
  <2>2. LockOK'
    BY <1>5 DEF RLock
  <2>3. CountOK'
    BY <1>5 DEF RLock
  <2>4. StatusOK'
    BY <1>5 DEF RLock
  <2>5. CreatedOnce'
    BY <1>5 DEF RLock
  <2> QED
    BY <2>1, <2>2, <2>3, <2>4, <2>5
<1>6. ASSUME NEW r \in Requests, RUnlock(r)
      PROVE  IInv'
  <2>1. TypeOK'
    BY <1>6 DEF RUnlock
  <2>2. LockOK'
    BY <1>6 DEF RUnlock
  <2>3. CountOK'
    BY <1>6 DEF RUnlock
  <2>4. StatusOK'
    BY <1>6 DEF RUnlock
  <2>5. CreatedOnce'
    BY <1>6 DEF RUnlock
  <2> QED
    BY <2>1, <2>2, <2>3, <2>4, <2>5
<1>7. ASSUME NEW r \in Requests, Lock(r)
      PROVE  IInv'
  <2>1. TypeOK'
    BY <1>7 DEF Lock
  <2>2. LockOK'
    BY <1>7 DEF Lock
  <2>3. CountOK'
    BY <1>7 DEF Lock
  <2>4. StatusOK'
    BY <1>7 DEF Lock
  <2>5. CreatedOnce'
    BY <1>7 DEF Lock
  <2> QED
    BY <2>1, <2>2, <2>3, <2>4, <2>5
<1>8. ASSUME NEW r \in Requests, Locked(r)
      PROVE  IInv'
  <2>1. TypeOK'
    BY <1>8 DEF Locked, NoReaders
  <2>2. LockOK'
    BY <1>8 DEF Locked, NoReaders
  <2>3. CountOK'
    BY <1>8 DEF Locked, NoReaders
  <2>4. StatusOK'
    BY <1>8 DEF Locked, NoReaders
  <2>5. CreatedOnce'
    BY <1>8 DEF Locked, NoReaders
  <2> QED
    BY <2>1, <2>2, <2>3, <2>4, <2>5
<1>9. ASSUME NEW r \in Requests, Unlock(r)
      PROVE  IInv'
  <2>1. code[r] \in Codes
    BY <1>9 DEF Unlock
  <2>2. created' \in [Codes -> Nat]
    <3>1. created[code[r]] + 1 \in Nat
      BY <2>1
    <3> QED
      BY <1>9, <3>1 DEF Unlock, StillMissing
  <2>3. TypeOK'
    BY <1>9, <2>1, <2>2 DEF Unlock, Unlocked
  <2>4. LockOK' /\ CountOK' /\ StatusOK'
    BY <1>9 DEF Unlock, Unlocked, StillMissing
  <2>5. CreatedOnce'
    BY <1>9, <2>1 DEF Unlock, Unlocked, StillMissing
  <2> QED
    BY <2>3, <2>4, <2>5
<1>10. ASSUME NEW r \in Requests, Inc(r)
      PROVE  IInv'
  <2>1. code[r] \in Codes /\ counted[r] = <<>> /\ headerWritten[r] /\ pc[r] = "inc"
    BY <1>10 DEF Inc
  <2>2. counted' = [counted EXCEPT ![r] = <<code[r]>>]
    BY <1>10, <2>1 DEF Inc
  <2>3. TypeOK'
    BY <1>10, <2>1, <2>2 DEF Inc, FinalStatus
  <2>4. LockOK' /\ CreatedOnce'
    BY <1>10, <2>1 DEF Inc
  <2>5. CountOK'
    BY <1>10, <2>1, <2>2 DEF Inc
  <2>6. ASSUME NEW q \in Requests
        PROVE  StatusOf(q)'
    <3>1. CASE q = r
      BY <1>10, <2>1, <2>2, <3>1 DEF Inc, FinalStatus
    <3>2. CASE q # r
      BY <1>10, <2>2, <3>2 DEF Inc, FinalStatus
    <3> QED
      BY <3>1, <3>2
  <2> QED
    BY <2>3, <2>4, <2>5, <2>6
<1>11. ASSUME NEW r \in Requests, Complete(r)
      PROVE  IInv'
  <2>1. TypeOK'
    BY <1>11 DEF Complete, FinalStatus
  <2>2. LockOK' /\ CountOK' /\ CreatedOnce'
    BY <1>11 DEF Complete, FinalStatus
  <2>3. ASSUME NEW q \in Requests
        PROVE  StatusOf(q)'
    <3>1. CASE q = r
      BY <1>11, <3>1 DEF Complete, FinalStatus
    <3>2. CASE q # r
      BY <1>11, <3>2 DEF Complete, FinalStatus
    <3> QED
      BY <3>1, <3>2
  <2> QED
    BY <2>1, <2>2, <2>3
<1>12. ASSUME NEW r \in Requests, Panic(r)
      PROVE  IInv'
  <2>1. TypeOK'
    BY <1>12 DEF Panic
  <2>2. LockOK'
    BY <1>12 DEF Panic
  <2>3. CountOK'
    BY <1>12 DEF Panic
  <2>4. StatusOK'
    BY <1>12 DEF Panic
  <2>5. CreatedOnce'
    BY <1>12 DEF Panic
  <2> QED
    BY <2>1, <2>2, <2>3, <2>4, <2>5
<1>13. CASE UNCHANGED vars
  BY <1>13 DEF vars
<1> QED
  BY <1>1, <1>2, <1>3, <1>4, <1>5, <1>6, <1>7, <1>8, <1>9, <1>10, <1>11,
     <1>12, <1>13
     DEF Next, Serve, Delegate, Counter

(* The invariant holds in every reachable state of the handler (ServeHTTP). *)
THEOREM Invariance == Spec => []IInv
<1>1. Init => IInv
  BY StatHandlerAssumption
     DEF Init, IInv, TypeOK, LockOK, CountOK, CountOf, StatusOK, StatusOf,
         CreatedOnce, Counting
<1> QED
  BY <1>1, InvStep, PTL DEF Spec

(* Every variable has its type.                                             *)
THEOREM TypeCorrect == Spec => []TypeOK
BY Invariance, PTL DEF IInv

(* Nobody writes the map of codes while another reads or writes it          *)
(* (httpHandler.codesMtx).                                                  *)
THEOREM MapExclusive == Spec => []MapExclusion
<1>1. IInv => MapExclusion
  BY DEF IInv, LockOK, MapExclusion
<1> QED
  BY <1>1, Invariance, PTL

(* A code has one counter, whoever raced to create it (counter).            *)
THEOREM CountersCreatedOnce == Spec => []CreatedOnce
BY Invariance, PTL DEF IInv

(* A response is counted once, at its first header (WriteHeader).           *)
THEOREM ResponsesCountedOnce == Spec => []CountedOnce
<1>1. IInv => CountedOnce
  BY DEF IInv, TypeOK, CountOK, CountOf, CountedOnce
<1> QED
  BY <1>1, Invariance, PTL

(* It is counted under the status its client gets, but for the 200s that    *)
(* CountedAsSent lists (WriteHeader, Write).                                *)
THEOREM ResponsesCountedAsSent == Spec => []CountedAsSent
<1>1. ASSUME IInv, NEW r \in Requests, pc[r] = "done"
      PROVE  \/ counted[r] = <<status[r]>>
             \/ /\ status[r] = OK
                /\ \/ r \in bypassed
                   \/ counted[r] = <<>>
                   \/ counted[r][1] \in Informational
  <2>1. CountOf(r) /\ StatusOf(r)
    BY <1>1 DEF IInv, CountOK, StatusOK
  <2>2. counted[r] # <<>> => counted[r] = <<code[r]>>
    BY <2>1 DEF CountOf
  <2> QED
    BY <1>1, <2>1, <2>2 DEF StatusOf
<1>2. IInv => CountedAsSent
  BY <1>1 DEF CountedAsSent
<1> QED
  BY <1>2, Invariance, PTL

-----------------------------------------------------------------------------
(* wrapResponse.                                                            *)

(* Which case has which interface, from Go 1.8 on.                          *)
LEMMA Cases18Members ==
  /\ Len(Cases18) = 16
  /\ \A k \in 1 .. 16 :
       /\ Cases18[k] \subseteq {F, H, P, N}
       /\ F \in Cases18[k] <=> k \in {1, 2, 3, 4, 6, 7, 8, 12}
       /\ H \in Cases18[k] <=> k \in {1, 2, 3, 5, 6, 9, 10, 13}
       /\ P \in Cases18[k] <=> k \in {1, 2, 4, 5, 7, 9, 11, 14}
       /\ N \in Cases18[k] <=> k \in {1, 3, 4, 5, 8, 10, 11, 15}
<1>1. Len(Cases18) = 16
  BY DEF Cases18
<1>2. Cases18[1] = {F, H, P, N}
  BY DEF Cases18
<1>3. Cases18[2] = {F, H, P}
  BY DEF Cases18
<1>4. Cases18[3] = {F, H, N}
  BY DEF Cases18
<1>5. Cases18[4] = {F, P, N}
  BY DEF Cases18
<1>6. Cases18[5] = {H, P, N}
  BY DEF Cases18
<1>7. Cases18[6] = {F, H}
  BY DEF Cases18
<1>8. Cases18[7] = {F, P}
  BY DEF Cases18
<1>9. Cases18[8] = {F, N}
  BY DEF Cases18
<1>10. Cases18[9] = {H, P}
  BY DEF Cases18
<1>11. Cases18[10] = {H, N}
  BY DEF Cases18
<1>12. Cases18[11] = {P, N}
  BY DEF Cases18
<1>13. Cases18[12] = {F}
  BY DEF Cases18
<1>14. Cases18[13] = {H}
  BY DEF Cases18
<1>15. Cases18[14] = {P}
  BY DEF Cases18
<1>16. Cases18[15] = {N}
  BY DEF Cases18
<1>17. Cases18[16] = {}
  BY DEF Cases18
<1> QED
  BY <1>1, <1>2, <1>3, <1>4, <1>5, <1>6, <1>7, <1>8, <1>9, <1>10, <1>11, <1>12,
     <1>13, <1>14, <1>15, <1>16, <1>17
  DEF F, H, P, N

(* Which case has which interface, before Go 1.8.                           *)
LEMMA Cases17Members ==
  /\ Len(Cases17) = 8
  /\ \A k \in 1 .. 8 :
       /\ Cases17[k] \subseteq {F, H, N}
       /\ F \in Cases17[k] <=> k \in {1, 2, 3, 5}
       /\ H \in Cases17[k] <=> k \in {1, 2, 4, 6}
       /\ N \in Cases17[k] <=> k \in {1, 3, 4, 7}
<1>1. Len(Cases17) = 8
  BY DEF Cases17
<1>2. Cases17[1] = {F, H, N}
  BY DEF Cases17
<1>3. Cases17[2] = {F, H}
  BY DEF Cases17
<1>4. Cases17[3] = {F, N}
  BY DEF Cases17
<1>5. Cases17[4] = {H, N}
  BY DEF Cases17
<1>6. Cases17[5] = {F}
  BY DEF Cases17
<1>7. Cases17[6] = {H}
  BY DEF Cases17
<1>8. Cases17[7] = {N}
  BY DEF Cases17
<1>9. Cases17[8] = {}
  BY DEF Cases17
<1> QED
  BY <1>1, <1>2, <1>3, <1>4, <1>5, <1>6, <1>7, <1>8, <1>9 DEF F, H, P, N

(* No case is contained in a later one: the order a type switch needs.      *)
LEMMA CasesOrdered ==
  /\ \A j, k \in 1 .. 16 : Cases18[j] \subseteq Cases18[k] => k <= j
  /\ \A j, k \in 1 .. 8 : Cases17[j] \subseteq Cases17[k] => k <= j
<1>1. ASSUME NEW j \in 1 .. 16, NEW k \in 1 .. 16, Cases18[j] \subseteq Cases18[k]
      PROVE  k <= j
  BY <1>1, Cases18Members
<1>2. ASSUME NEW j \in 1 .. 8, NEW k \in 1 .. 8, Cases17[j] \subseteq Cases17[k]
      PROVE  k <= j
  BY <1>2, Cases17Members
<1> QED
  BY <1>1, <1>2

(* Every combination of interfaces has its case.                            *)
LEMMA CasesComplete ==
  ASSUME NEW S
  PROVE  /\ S \subseteq {F, H, P, N} => \E k \in 1 .. 16 : Cases18[k] = S
         /\ S \subseteq {F, H, N} => \E k \in 1 .. 8 : Cases17[k] = S
<1>1. ASSUME S \subseteq {F, H, P, N}
      PROVE  \E k \in 1 .. 16 : Cases18[k] = S
  <2>1. \E k \in 1 .. 16 : /\ F \in S <=> k \in {1, 2, 3, 4, 6, 7, 8, 12}
                           /\ H \in S <=> k \in {1, 2, 3, 5, 6, 9, 10, 13}
                           /\ P \in S <=> k \in {1, 2, 4, 5, 7, 9, 11, 14}
                           /\ N \in S <=> k \in {1, 3, 4, 5, 8, 10, 11, 15}
    OBVIOUS
  <2> QED
    BY <1>1, <2>1, Cases18Members
<1>2. ASSUME S \subseteq {F, H, N}
      PROVE  \E k \in 1 .. 8 : Cases17[k] = S
  <2>1. \E k \in 1 .. 8 : /\ F \in S <=> k \in {1, 2, 3, 5}
                          /\ H \in S <=> k \in {1, 2, 4, 6}
                          /\ N \in S <=> k \in {1, 3, 4, 7}
    OBVIOUS
  <2> QED
    BY <1>2, <2>1, Cases17Members
<1> QED
  BY <1>1, <1>2

(* WrapResponse takes the first case that the ResponseWriter satisfies.     *)
LEMMA FirstCase ==
  ASSUME NEW k \in 1 .. Len(Cases), Cases[k] \subseteq offers, Len(Cases) \in Nat,
         \A j \in 1 .. Len(Cases) : Cases[j] \subseteq offers => k <= j
  PROVE  WrapResponse = Cases[k]
<1> DEFINE I == {j \in 1 .. Len(Cases) : Cases[j] \subseteq offers}
<1>1. k \in I /\ \A j \in I : k <= j
  OBVIOUS
<1>2. Min(I) = k
  BY <1>1 DEF Min
<1>3. SelectInSeq(Cases, LAMBDA case : case \subseteq offers) = Min(I)
  BY <1>1 DEF SelectInSeq
<1> QED
  BY <1>2, <1>3 DEF WrapResponse

(* The wrapped ResponseWriter offers what the one underneath does, which    *)
(* before Go 1.8 had no Pusher to hide (wrapResponse).                      *)
THEOREM WrapperIsTransparent == Spec => []OffersTheSame
<1>1. TypeOK => OffersTheSame
  <2> SUFFICES ASSUME TypeOK
               PROVE  OffersTheSame
    OBVIOUS
  <2>1. CASE build = "go1.8"
    <3>1. Cases = Cases18 /\ Len(Cases) = 16 /\ offers \subseteq {F, H, P, N}
      BY <2>1, Cases18Members DEF TypeOK, Cases, Interfaces, F, H, P, N
    <3>2. PICK k \in 1 .. 16 : Cases18[k] = offers
      BY <3>1, CasesComplete
    <3>3. WrapResponse = offers
      BY <3>1, <3>2, CasesOrdered, FirstCase
    <3> QED
      BY <2>1, <3>3 DEF OffersTheSame
  <2>2. CASE build = "go1.7"
    <3>1. Cases = Cases17 /\ Len(Cases) = 8 /\ offers \ {P} \subseteq {F, H, N}
      BY <2>2, Cases17Members DEF TypeOK, Cases, Interfaces, F, H, P, N
    <3>2. PICK k \in 1 .. 8 : Cases17[k] = offers \ {P}
      BY <3>1, CasesComplete
    <3>3. \A j \in 1 .. 8 : Cases17[j] \subseteq offers => k <= j
      BY <3>2, CasesOrdered, Cases17Members DEF F, H, P, N
    <3>4. WrapResponse = offers \ {P}
      BY <3>1, <3>2, <3>3, FirstCase
    <3> QED
      BY <2>2, <3>4 DEF OffersTheSame
  <2> QED
    BY <2>1, <2>2 DEF TypeOK
<1> QED
  BY <1>1, TypeCorrect, PTL

=============================================================================
