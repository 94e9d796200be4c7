-------------------------- MODULE Lifecycle_proofs --------------------------
(***************************************************************************)
(* Proofs about Lifecycle, for every set of goroutines, counters, gauges    *)
(* and generators and every width of the gauges.                            *)
(***************************************************************************)
EXTENDS Lifecycle, TLAPS

InFlush == Flushing \ {"flush"}

(* flushMu and mu are held, and mu is awaited, by those whose calls say so; *)
(* a writer that has got past the readers keeps new ones out.               *)
LocksOK ==
  /\ \A p \in Procs : pc[p] \in InFlush <=> flushMu = p
  /\ \A p \in Procs : p \in readers <=> pc[p] = "generate"
  /\ \A u \in Users : pc[u] \in {"append", "store"} <=> writer = u
  /\ \A u \in Users : pc[u] = "store" => readers = {}

(* What a Flush has still to visit, and what it has in its hands.           *)
HandsOK ==
  \A p \in Procs :
    /\ pc[p] \in {"counters", "send"} => todo[p] \subseteq Names
    /\ pc[p] = "gauges" => todo[p] \subseteq AllGauges
    /\ pc[p] = "send" => \E n \in Names : arg[p] = <<n, p>>

(* What sits between a latch and the call of the sink: in the hands of p,   *)
(* and, since only one goroutine flushes at a time, at all.                 *)
Taken(p, n)  == IF pc[p] = "send" /\ arg[p][1] = n THEN taken[p] ELSE 0
InTransit(n) == IF flushMu = None THEN 0 ELSE Taken(flushMu, n)

(* Nothing that was added is lost or sent twice, and the histories are what *)
(* their names say.                                                         *)
SumOf(n) ==
  /\ added[n] = outstanding[n] + reported[n] + InTransit(n)
  /\ flushed[n] <= reported[n]
  /\ cancelled => atCancel[n] <= added[n]
  /\ \A p \in Procs : due[p][n] <= added[n]

SumsOK == \A n \in Names : SumOf(n)

(* How far a Flush has come with what it is due to send: a counter it has   *)
(* passed by is reported, or in its hands.                                  *)
DueOf(p, n) ==
  /\ pc[p] \in {"counters", "send"} =>
       n \in todo[p] \/ due[p][n] <= reported[n] + Taken(p, n)
  /\ pc[p] = "gauges" => due[p][n] <= reported[n]
  /\ pc[p] = "sink" => due[p][n] <= flushed[n]

DueOK == \A p \in Procs, n \in Names : DueOf(p, n)

(* The Flush on exit is called after the context was cancelled.             *)
ExitOK ==
  /\ exiting => cancelled
  /\ pc[Loop] = "done" => exiting
  /\ pc[Loop] = "select" => ~exiting
  /\ \A n \in Names : exiting /\ pc[Loop] \in Flushing => atCancel[n] <= due[Loop][n]
  /\ ExitSendsAll

Elements(s) == {s[i] : i \in 1 .. Len(s)}

(* The registry: append stores what it has read under the lock, with the    *)
(* generator it was given.                                                  *)
RegistryOK ==
  /\ joined = Elements(statGenerators)
  /\ \A u \in Users : pc[u] = "store" => slice[u] = statGenerators
  /\ \A u \in Users : pc[u] \in {"append", "store"} =>
                        \E g \in Generators : arg[u] = <<g, Loop>>
  /\ \A p \in Procs : inForce[p] \subseteq joined

(* The registry holds each generator once.                                  *)
NoRepeats(s) == \A i, j \in 1 .. Len(s) : i < j => s[i] # s[j]

OnceOK ==
  /\ NoRepeats(statGenerators)
  /\ \A u \in Users : pc[u] \in {"append", "store"} => arg[u][1] \notin joined

(* A gauge has one object, and the object holds what the calls amount to;   *)
(* that of a generator is written by the generator alone.                   *)
GaugeOf(n) ==
  IF gauges[n] = None
    THEN net[n] = 0 /\ \A p \in Procs : value[<<n, p>>] = 0
    ELSE (\E p \in Procs : gauges[n] = <<n, p>>) /\ net[n] = value[gauges[n]]

GaugesOK ==
  /\ \A g \in Generators : gauges[g] = <<g, Loop>>
  /\ \A n \in GaugeNames : GaugeOf(n)
  /\ \A u \in Users :
       /\ pc[u] = "create" => \E n \in GaugeNames : arg[u] = <<n, u>>
       /\ pc[u] = "write" => \E n \in GaugeNames : arg[u] = gauges[n] /\ gauges[n] # None
  /\ \A p \in Procs : \A n \in settled[p] : gauges[n] # None

(* How far a Flush has come with its generators.                            *)
MadeOf(p, g) ==
  /\ pc[p] \notin InFlush => made[p][g] = None
  /\ made[p][g] # None => value[gauges[g]] = made[p][g]
  /\ g \in inForce[p] =>
       /\ pc[p] = "generate" => made[p][g] # None \/ g \in Elements(slice[p])
       /\ pc[p] \in {"counters", "send", "gauges", "sink"} => made[p][g] # None
       /\ pc[p] = "gauges" => g \in todo[p] \/ shown[g] = made[p][g]
       /\ pc[p] = "sink" => shown[g] = made[p][g]

MadeOK == \A p \in Procs, g \in Generators : MadeOf(p, g)

(* Those a Flush has still to run, it has not run yet.                      *)
RunsOK ==
  \A p \in Procs :
    /\ pc[p] = "rlock" => \A g \in Generators : made[p][g] = None
    /\ pc[p] = "generate" =>
         NoRepeats(slice[p]) /\ \A g \in Elements(slice[p]) : made[p][g] = None

(* How far a Flush has come with the gauges.                                *)
ShownOf(p, n) ==
  /\ pc[p] = "gauges" => n \in todo[p] \/ shown[n] = net[n]
  /\ pc[p] = "sink" => shown[n] = net[n]

ShownOK == \A p \in Procs : \A n \in settled[p] : ShownOf(p, n)

IInv == /\ TypeOK /\ LocksOK /\ HandsOK /\ SumsOK /\ DueOK /\ ExitOK /\ RegistryOK
        /\ OnceOK /\ GaugesOK /\ MadeOK /\ RunsOK /\ ShownOK

(* What appending to a slice and taking its head away do to its elements.   *)
LEMMA ElementsAppend ==
  ASSUME NEW S, NEW s \in Seq(S), NEW e \in S
  PROVE  Elements(Append(s, e)) = Elements(s) \cup {e}
BY DEF Elements

LEMMA ElementsTail ==
  ASSUME NEW S, NEW s \in Seq(S), s # <<>>
  PROVE  Elements(s) \subseteq {Head(s)} \cup Elements(Tail(s)) /\ Head(s) \in S
BY DEF Elements

LEMMA NoRepeatsAppend ==
  ASSUME NEW S, NEW s \in Seq(S), NEW e \in S, NoRepeats(s), e \notin Elements(s)
  PROVE  NoRepeats(Append(s, e))
BY DEF NoRepeats, Elements

LEMMA NoRepeatsTail ==
  ASSUME NEW S, NEW s \in Seq(S), s # <<>>, NoRepeats(s)
  PROVE  /\ NoRepeats(Tail(s)) /\ Head(s) \notin Elements(Tail(s))
         /\ Elements(Tail(s)) \subseteq Elements(s)
<1>1. /\ Len(s) \in Nat /\ Len(s) >= 1 /\ Len(Tail(s)) = Len(s) - 1 /\ Head(s) = s[1]
      /\ \A i \in 1 .. Len(Tail(s)) : Tail(s)[i] = s[i + 1]
  OBVIOUS
<1>2. \A i \in 1 .. Len(Tail(s)) : i + 1 \in 1 .. Len(s) /\ 1 < i + 1
  BY <1>1
<1>3. 1 \in 1 .. Len(s)
  BY <1>1
<1> QED
  BY <1>1, <1>2, <1>3 DEF NoRepeats, Elements

(* Readings and objects are told apart from None.                           *)
LEMMA Distinct ==
  /\ \A k \in Amounts : k \in Word /\ k # None
  /\ \A n \in AllGauges, p \in Procs : <<n, p>> \in Objects /\ <<n, p>> # None
  /\ Loop \in Procs /\ Generators \subseteq AllGauges
BY LifecycleAssumption DEF Objects, Procs, AllGauges

(* The sums are natural numbers.                                            *)
LEMMA Numbers ==
  ASSUME TypeOK, NEW n \in Names
  PROVE  /\ outstanding[n] \in Nat /\ added[n] \in Nat /\ reported[n] \in Nat
         /\ flushed[n] \in Nat /\ atCancel[n] \in Nat
         /\ \A p \in Procs : due[p][n] \in Nat /\ taken[p] \in Nat /\ Taken(p, n) \in Nat
         /\ InTransit(n) \in Nat
BY DEF TypeOK, Taken, InTransit

(* A generator adds to a counter what it makes outstanding, and what it     *)
(* adds its Flush is due to send.                                           *)
LEMMA GenerateGrows ==
  ASSUME TypeOK, SumsOK, NEW f \in Procs, Generate(f)
  PROVE  /\ outstanding' \in [Names -> Nat] /\ added' \in [Names -> Nat]
         /\ due' \in [Procs -> [Names -> Nat]] /\ calls' \in 0 .. MaxCalls
         /\ \A m \in Names :
              /\ added'[m] - added[m] = outstanding'[m] - outstanding[m]
              /\ added[m] <= added'[m]
              /\ \A p \in Procs : due[p][m] <= due'[p][m] /\ due'[p][m] <= added'[m]
<1>1. /\ outstanding \in [Names -> Nat] /\ added \in [Names -> Nat]
      /\ due \in [Procs -> [Names -> Nat]] /\ calls \in 0 .. MaxCalls
      /\ \A m \in Names, p \in Procs : due[p][m] <= added[m]
  BY DEF TypeOK, SumsOK, SumOf
<1>2. CASE UNCHANGED <<outstanding, added, due, calls>>
  BY <1>1, <1>2
<1>3. ASSUME NEW n \in Names, calls < MaxCalls, calls' = calls + 1,
             outstanding' = [outstanding EXCEPT ![n] = @ + 1],
             added' = [added EXCEPT ![n] = @ + 1],
             due' = [due EXCEPT ![f][n] = added[n] + 1]
      PROVE  /\ outstanding' \in [Names -> Nat] /\ added' \in [Names -> Nat]
             /\ due' \in [Procs -> [Names -> Nat]] /\ calls' \in 0 .. MaxCalls
             /\ \A m \in Names :
                  /\ added'[m] - added[m] = outstanding'[m] - outstanding[m]
                  /\ added[m] <= added'[m]
                  /\ \A p \in Procs : due[p][m] <= due'[p][m] /\ due'[p][m] <= added'[m]
  <2>1. outstanding' \in [Names -> Nat] /\ added' \in [Names -> Nat]
    BY <1>1, <1>3
  <2>2. due' \in [Procs -> [Names -> Nat]]
    BY <1>1, <1>3
  <2>3. ASSUME NEW m \in Names
        PROVE  added'[m] - added[m] = outstanding'[m] - outstanding[m] /\ added[m] <= added'[m]
    BY <1>1, <1>3
  <2>4. ASSUME NEW m \in Names, NEW p \in Procs
        PROVE  due[p][m] <= due'[p][m] /\ due'[p][m] <= added'[m]
    <3>1. due[p][m] \in Nat /\ added[m] \in Nat /\ due[p][m] <= added[m]
      BY <1>1
    <3>2. added'[m] = IF m = n THEN added[m] + 1 ELSE added[m]
      BY <1>1, <1>3
    <3>3. due'[p][m] = IF p = f /\ m = n THEN added[m] + 1 ELSE due[p][m]
      BY <1>1, <1>3
    <3> QED
      BY <3>1, <3>2, <3>3
  <2>5. calls' \in 0 .. MaxCalls
    BY <1>1, <1>3, LifecycleAssumption
  <2> QED
    BY <2>1, <2>2, <2>3, <2>4, <2>5
<1> QED
  BY <1>2, <1>3 DEF Generate

(* Sub adds the complement, and that takes away what it should: a gauge     *)
(* that agrees with its calls agrees after any of them.                     *)
LEMMA Complement ==
  ASSUME NEW v \in Word, NEW k \in Word
  PROVE  /\ Plus(v, k) = (v + k) % Modulus /\ Plus(v, k) \in Word
         /\ Plus(v, Negative(k)) = (v - k) % Modulus /\ Plus(v, Negative(k)) \in Word
<1>1. \A x \in Int : x % Modulus \in Word
  BY LifecycleAssumption DEF Word
<1>2. v \in Int /\ k \in Int /\ Modulus \in Nat /\ Modulus > 0
  BY LifecycleAssumption DEF Word
<1>3. CASE k = 0
  <2>1. (k - 1) % Modulus = Modulus - 1
    BY <1>2, <1>3
  <2>2. Negative(k) = 0
    BY <1>2, <2>1 DEF Negative
  <2> QED
    BY <1>1, <1>2, <1>3, <2>2 DEF Plus
<1>4. CASE k > 0
  <2>1. (k - 1) % Modulus = k - 1
    BY <1>2, <1>4 DEF Word
  <2>2. Negative(k) = Modulus - k
    BY <1>2, <2>1 DEF Negative
  <2>3. (v + (Modulus - k)) % Modulus = (v - k) % Modulus
    <3>1. v < Modulus /\ k < Modulus /\ 0 <= v
      BY <1>2 DEF Word
    <3>2. CASE k <= v
      <4> DEFINE x == v + (Modulus - k)
      <4>1. x \in Int /\ Modulus <= x /\ x < 2 * Modulus /\ x - Modulus = v - k
        BY <1>2, <1>4, <3>1, <3>2
      <4>2. x % Modulus = x - Modulus
        <5> HIDE DEF x
        <5> QED
          BY <1>2, <4>1
      <4>3. (v - k) % Modulus = v - k
        <5> DEFINE y == v - k
        <5>1. y \in Int /\ 0 <= y /\ y < Modulus
          BY <1>2, <1>4, <3>1, <3>2
        <5> HIDE DEF y
        <5>2. y % Modulus = y
          BY <1>2, <5>1
        <5> QED
          BY <5>2 DEF y
      <4> QED
        BY <4>1, <4>2, <4>3
    <3>3. CASE v < k
      <4>1. (v - k) % Modulus = (v - k) + Modulus
        BY <1>2, <3>1, <3>3
      <4>2. (v + (Modulus - k)) % Modulus = v + (Modulus - k)
        BY <1>2, <3>1, <3>3
      <4> QED
        BY <1>2, <4>1, <4>2
    <3> QED
      BY <1>2, <3>2, <3>3
  <2> QED
    BY <1>1, <1>2, <2>2, <2>3 DEF Plus
<1> QED
  BY <1>3, <1>4 DEF Word

LEMMA WriteEffect ==
  ASSUME NEW u \in Users, WriteGauge(u), NEW n, NEW o, arg[u] = o, o[1] = n,
         value[o] = net[n], net[n] \in Word
  PROVE  \E x \in Word : value' = [value EXCEPT ![o] = x] /\ net' = [net EXCEPT ![n] = x]
<1>1. PICK k \in Amounts :
        \/ /\ value' = [value EXCEPT ![o] = k]
           /\ net' = [net EXCEPT ![n] = k]
        \/ /\ value' = [value EXCEPT ![o] = Plus(value[o], k)]
           /\ net' = [net EXCEPT ![n] = (net[n] + k) % Modulus]
        \/ /\ value' = [value EXCEPT ![o] = Plus(value[o], Negative(k))]
           /\ net' = [net EXCEPT ![n] = (net[n] - k) % Modulus]
  BY DEF WriteGauge
<1>2. k \in Word
  BY SMTT(30), LifecycleAssumption
<1> QED
  BY <1>1, <1>2, Complement

(* Every step keeps the types.                                             *)
LEMMA TypeStep ==
  ASSUME TypeOK, HandsOK, SumsOK, RegistryOK, GaugesOK, [Next]_vars
  PROVE  TypeOK'
<1> USE LifecycleAssumption DEF TypeOK, HandsOK, RegistryOK, GaugesOK,
        GaugeOf, Flushing, Procs, Word, AllGauges, Objects, Goto, locks,
        control, locals, sums, counts, registry, levels
<1>1. ASSUME Cancel
      PROVE  TypeOK'
  BY <1>1 DEF Cancel
<1>2. ASSUME SelectTick
      PROVE  TypeOK'
  BY <1>2 DEF SelectTick, CallFlush
<1>3. ASSUME SelectDone
      PROVE  TypeOK'
  BY <1>3 DEF SelectDone, CallFlush
<1>4. ASSUME NEW u \in Users, UserFlush(u)
      PROVE  TypeOK'
  BY <1>4 DEF UserFlush, CallFlush
<1>5. ASSUME NEW u \in Users, NEW g \in Generators, AddLock(u, g)
      PROVE  TypeOK'
  <2>1. arg' \in [Procs -> Objects \cup (Names \X Procs) \cup {None}]
    <3>1. <<g, Loop>> \in Objects
      OBVIOUS
    <3> QED
      BY <1>5, <3>1 DEF AddLock
  <2>2. calls' \in 0 .. MaxCalls
    <3>1. calls < MaxCalls /\ calls' = calls + 1
      BY <1>5 DEF AddLock, Calls
    <3>2. calls \in 0 .. MaxCalls /\ MaxCalls \in Nat
      OBVIOUS
    <3> QED
      BY ONLY <3>1, <3>2
  <2>3. pc' = [pc EXCEPT ![u] = "append"]
    BY <1>5 DEF AddLock
  <2>4. writer' \in Users
    BY <1>5 DEF AddLock
  <2>5. UNCHANGED <<flushMu, readers, control, slice, todo, taken, counts, registry,
                    levels>>
    BY <1>5 DEF AddLock
  <2> HIDE DEF HandsOK, RegistryOK, GaugesOK, GaugeOf, Objects, Word, AllGauges
  <2> QED
    BY <2>1, <2>2, <2>3, <2>4, <2>5
<1>6. ASSUME NEW u \in Users, AppendReads(u)
      PROVE  TypeOK'
  BY <1>6 DEF AppendReads
<1>7. ASSUME NEW u \in Users, AppendStores(u)
      PROVE  TypeOK'
  <2>1. PICK g \in Generators : arg[u] = <<g, Loop>>
    BY <1>7 DEF AppendStores
  <2>2. statGenerators' \in Seq(Generators) /\ joined' \subseteq Generators
    BY <1>7, <2>1 DEF AppendStores
  <2>3. slice' \in [Procs -> Seq(Generators)]
    BY <1>7 DEF AppendStores
  <2>4. arg' \in [Procs -> Objects \cup (Names \X Procs) \cup {None}]
    BY <1>7 DEF AppendStores
  <2>5. writer' = None /\ pc' = [pc EXCEPT ![u] = "idle"]
    BY <1>7 DEF AppendStores
  <2>6. UNCHANGED <<flushMu, readers, control, todo, taken, counts, inForce, made,
                    levels, calls>>
    BY <1>7 DEF AppendStores
  <2> HIDE DEF HandsOK, RegistryOK, GaugesOK, GaugeOf, Objects, Word, AllGauges
  <2> QED
    BY <2>1, <2>2, <2>3, <2>4, <2>5, <2>6
<1>8. ASSUME NEW u \in Users, NEW n \in Names, NEW k \in Amounts, Add(u, n, k)
      PROVE  TypeOK'
  <2>1. outstanding' \in [Names -> Nat] /\ added' \in [Names -> Nat]
    <3>1. k \in Nat /\ outstanding[n] \in Nat /\ added[n] \in Nat
      OBVIOUS
    <3>2. outstanding[n] + k \in Nat /\ added[n] + k \in Nat
      BY ONLY <3>1
    <3> QED
      BY <1>8, <3>2 DEF Add
  <2>2. calls' \in 0 .. MaxCalls
    <3>1. calls < MaxCalls /\ calls' = calls + 1
      BY <1>8 DEF Add, Calls
    <3>2. calls \in 0 .. MaxCalls /\ MaxCalls \in Nat
      OBVIOUS
    <3> QED
      BY ONLY <3>1, <3>2
  <2>3. UNCHANGED <<locks, control, pc, locals, reported, flushed, due, atCancel,
                    registry, levels>>
    BY <1>8 DEF Add
  <2> HIDE DEF HandsOK, RegistryOK, GaugesOK, GaugeOf, Objects, Word, AllGauges
  <2> QED
    BY <2>1, <2>2, <2>3
<1>9. ASSUME NEW u \in Users, NEW n \in GaugeNames, LoadGauge(u, n)
      PROVE  TypeOK'
  <2>1. arg' \in [Procs -> Objects \cup (Names \X Procs) \cup {None}]
    <3>1. <<n, u>> \in Objects /\ gauges[n] \in Objects \cup {None}
      OBVIOUS
    <3> QED
      BY <1>9, <3>1 DEF LoadGauge
  <2>2. calls' \in 0 .. MaxCalls
    <3>1. calls < MaxCalls /\ calls' = calls + 1
      BY <1>9 DEF LoadGauge, Calls
    <3>2. calls \in 0 .. MaxCalls /\ MaxCalls \in Nat
      OBVIOUS
    <3> QED
      BY ONLY <3>1, <3>2
  <2>3. pc' = [pc EXCEPT ![u] = IF gauges[n] = None THEN "create" ELSE "write"]
    BY <1>9 DEF LoadGauge
  <2>4. UNCHANGED <<locks, control, slice, todo, taken, counts, registry, levels>>
    BY <1>9 DEF LoadGauge
  <2> HIDE DEF HandsOK, RegistryOK, GaugesOK, GaugeOf, Objects, Word, AllGauges
  <2> QED
    BY <2>1, <2>2, <2>3, <2>4
<1>10. ASSUME NEW u \in Users, CreateGauge(u)
      PROVE  TypeOK'
  <2>1. PICK n \in GaugeNames : arg[u] = <<n, u>>
    BY <1>10 DEF CreateGauge
  <2>2. LoadOrStore(arg[u]) \in Objects
    BY <2>1 DEF LoadOrStore
  <2>3. gauges' \in [AllGauges -> Objects \cup {None}]
    BY <1>10, <2>1, <2>2 DEF CreateGauge
  <2>4. arg' \in [Procs -> Objects \cup (Names \X Procs) \cup {None}]
    BY <1>10, <2>2 DEF CreateGauge
  <2>5. pc' = [pc EXCEPT ![u] = "write"]
    BY <1>10 DEF CreateGauge
  <2>6. UNCHANGED <<locks, control, slice, todo, taken, counts, registry, value, net,
                    shown, settled, calls>>
    BY <1>10 DEF CreateGauge
  <2> HIDE DEF HandsOK, RegistryOK, GaugesOK, GaugeOf, Objects, Word, AllGauges
  <2> QED
    BY <2>1, <2>2, <2>3, <2>4, <2>5, <2>6
<1>11. ASSUME NEW u \in Users, WriteGauge(u)
      PROVE  TypeOK'
  <2>1. PICK n \in GaugeNames : arg[u] = gauges[n] /\ gauges[n] # None
    BY <1>11 DEF WriteGauge
  <2>2. PICK p \in Procs : gauges[n] = <<n, p>>
    BY <2>1
  <2>3. PICK x \in Word : /\ value' = [value EXCEPT ![<<n, p>>] = x]
                         /\ net' = [net EXCEPT ![n] = x]
    <3>1. GaugeOf(n) /\ n \in AllGauges /\ net \in [AllGauges -> Word]
      OBVIOUS
    <3>2. arg[u] = <<n, p>> /\ arg[u][1] = n /\ value[<<n, p>>] = net[n] /\ net[n] \in Word
      BY <2>1, <2>2, <3>1
    <3> HIDE DEF TypeOK, HandsOK, RegistryOK, GaugesOK
    <3> QED
      BY <1>11, <3>2, WriteEffect
  <2>4. value' \in [Objects -> Word] /\ net' \in [AllGauges -> Word]
    BY <2>3
  <2>5. settled' \in [Procs -> SUBSET GaugeNames]
    BY <1>11 DEF WriteGauge
  <2>6. arg' \in [Procs -> Objects \cup (Names \X Procs) \cup {None}]
    BY <1>11 DEF WriteGauge
  <2>7. pc' = [pc EXCEPT ![u] = "idle"]
    BY <1>11 DEF WriteGauge
  <2>8. UNCHANGED <<locks, control, slice, todo, taken, counts, registry, gauges,
                    shown, calls>>
    BY <1>11 DEF WriteGauge
  <2> HIDE DEF HandsOK, RegistryOK, GaugesOK, GaugeOf, Objects, Word, AllGauges
  <2> QED
    BY <2>1, <2>2, <2>3, <2>4, <2>5, <2>6, <2>7, <2>8
<1>12. ASSUME NEW f \in Procs, FlushLock(f)
      PROVE  TypeOK'
  BY <1>12 DEF FlushLock, FlushMuFree
<1>13. ASSUME NEW f \in Procs, RLock(f)
      PROVE  TypeOK'
  <2>1. slice' \in [Procs -> Seq(Generators)]
    BY <1>13 DEF RLock
  <2>2. pc' = [pc EXCEPT ![f] = "generate"]
    BY <1>13 DEF RLock
  <2>3. readers' \subseteq Procs
    BY <1>13 DEF RLock
  <2>4. UNCHANGED <<flushMu, writer, control, todo, arg, taken, counts, registry,
                    levels, calls>>
    BY <1>13 DEF RLock
  <2> HIDE DEF HandsOK, RegistryOK, GaugesOK, GaugeOf, Objects, Word, AllGauges
  <2> QED
    BY <2>1, <2>2, <2>3, <2>4
<1>14. ASSUME NEW f \in Procs, Generate(f)
      PROVE  TypeOK'
  <2> DEFINE g == Head(slice[f])
  <2>1. g \in Generators /\ Tail(slice[f]) \in Seq(Generators)
    BY <1>14 DEF Generate
  <2>2. slice' \in [Procs -> Seq(Generators)]
    BY <1>14, <2>1 DEF Generate
  <2>3. PICK k \in Amounts : /\ value' = [value EXCEPT ![gauges[g]] = k]
                             /\ made' = [made EXCEPT ![f][g] = k]
    BY <1>14 DEF Generate
  <2>4. k \in Word /\ gauges[g] \in Objects
    <3>1. gauges[g] = <<g, Loop>>
      BY <2>1
    <3> QED
      BY <2>1, <3>1, Distinct
  <2>5. value' \in [Objects -> Word] /\ made' \in [Procs -> [Generators -> Word \cup {None}]]
    BY <2>1, <2>3, <2>4
  <2>6. /\ outstanding' \in [Names -> Nat] /\ added' \in [Names -> Nat]
        /\ due' \in [Procs -> [Names -> Nat]] /\ calls' \in 0 .. MaxCalls
    BY <1>14, GenerateGrows
  <2>7. UNCHANGED <<locks, control, pc, todo, arg, taken, reported, flushed, atCancel,
                    statGenerators, joined, inForce, gauges, net, shown, settled>>
    BY <1>14 DEF Generate
  <2> HIDE DEF HandsOK, RegistryOK, GaugesOK, GaugeOf, Objects, Word, AllGauges
  <2> QED
    BY <2>2, <2>5, <2>6, <2>7
<1>15. ASSUME NEW f \in Procs, RUnlock(f)
      PROVE  TypeOK'
  <2>1. todo' \in [Procs -> SUBSET (Names \cup AllGauges)]
    BY <1>15 DEF RUnlock
  <2>2. readers' \subseteq Procs
    BY <1>15 DEF RUnlock, Left
  <2>3. pc' = [pc EXCEPT ![f] = "counters"]
    BY <1>15 DEF RUnlock
  <2>4. UNCHANGED <<flushMu, writer, control, slice, arg, taken, counts, registry,
                    levels, calls>>
    BY <1>15 DEF RUnlock
  <2> HIDE DEF HandsOK, RegistryOK, GaugesOK, GaugeOf, Objects, Word, AllGauges
  <2> QED
    BY <2>1, <2>2, <2>3, <2>4
<1>16. ASSUME NEW f \in Procs, Latch(f)
      PROVE  TypeOK'
  <2>1. pc[f] = "counters" /\ todo[f] \subseteq Names
    BY <1>16 DEF Latch
  <2>2. PICK n \in todo[f] :
          /\ todo' = [todo EXCEPT ![f] = @ \ {n}]
          /\ IF outstanding[n] = 0
               THEN UNCHANGED <<pc, arg, taken, outstanding>>
               ELSE /\ taken' = [taken EXCEPT ![f] = outstanding[n]]
                    /\ outstanding' = [outstanding EXCEPT ![n] = 0]
                    /\ arg' = [arg EXCEPT ![f] = <<n, f>>]
                    /\ Goto(f, "send")
    BY <1>16 DEF Latch
  <2>3. n \in Names /\ <<n, f>> \in Names \X Procs
    BY <2>1, <2>2
  <2>4. todo' \in [Procs -> SUBSET (Names \cup AllGauges)]
    BY <2>2
  <2>5. UNCHANGED <<locks, control, slice, sums, due, atCancel, registry, levels, calls>>
    BY <1>16 DEF Latch
  <2>6. CASE outstanding[n] = 0
    <3>1. UNCHANGED <<pc, arg, taken, outstanding>>
      BY ONLY <2>2, <2>6
    <3> HIDE DEF HandsOK, RegistryOK, GaugesOK, GaugeOf, Objects, Word, AllGauges
    <3> QED
      BY <2>4, <2>5, <3>1
  <2>7. CASE outstanding[n] # 0
    <3>1. /\ taken' = [taken EXCEPT ![f] = outstanding[n]]
          /\ outstanding' = [outstanding EXCEPT ![n] = 0]
          /\ arg' = [arg EXCEPT ![f] = <<n, f>>]
          /\ pc' = [pc EXCEPT ![f] = "send"]
      BY ONLY <2>2, <2>7 DEF Goto
    <3>2. taken \in [Procs -> Nat] /\ outstanding \in [Names -> Nat]
      OBVIOUS
    <3>3. taken' \in [Procs -> Nat] /\ outstanding' \in [Names -> Nat]
      BY ONLY <2>3, <3>1, <3>2
    <3>4. arg \in [Procs -> Objects \cup (Names \X Procs) \cup {None}]
      OBVIOUS
    <3>5. arg' \in [Procs -> Objects \cup (Names \X Procs) \cup {None}]
      BY ONLY <2>3, <3>1, <3>4
    <3> QED
      BY <2>4, <2>5, <3>1, <3>3, <3>5
  <2> QED
    BY <2>6, <2>7
<1>17. ASSUME NEW f \in Procs, SendCounter(f)
      PROVE  TypeOK'
  <2>1. PICK n \in Names : arg[f] = <<n, f>>
    BY <1>17 DEF SendCounter
  <2>2. reported' \in [Names -> Nat]
    <3>1. reported[n] \in Nat /\ taken[f] \in Nat
      OBVIOUS
    <3>2. reported[n] + taken[f] \in Nat
      BY ONLY <3>1
    <3> QED
      BY <1>17, <2>1, <3>2 DEF SendCounter
  <2>3. taken' \in [Procs -> Nat]
    BY <1>17 DEF SendCounter
  <2>4. arg' \in [Procs -> Objects \cup (Names \X Procs) \cup {None}]
    BY <1>17 DEF SendCounter
  <2>5. pc' = [pc EXCEPT ![f] = "counters"]
    BY <1>17 DEF SendCounter
  <2>6. UNCHANGED <<locks, control, slice, todo, outstanding, added, flushed, due,
                    atCancel, registry, levels, calls>>
    BY <1>17 DEF SendCounter
  <2> HIDE DEF HandsOK, RegistryOK, GaugesOK, GaugeOf, Objects, Word, AllGauges
  <2> QED
    BY <2>1, <2>2, <2>3, <2>4, <2>5, <2>6
<1>18. ASSUME NEW f \in Procs, RangeGauges(f)
      PROVE  TypeOK'
  <2>1. todo' \in [Procs -> SUBSET (Names \cup AllGauges)]
    BY <1>18 DEF RangeGauges
  <2>2. pc' = [pc EXCEPT ![f] = "gauges"]
    BY <1>18 DEF RangeGauges
  <2>3. UNCHANGED <<locks, control, slice, arg, taken, counts, registry, levels, calls>>
    BY <1>18 DEF RangeGauges
  <2> HIDE DEF HandsOK, RegistryOK, GaugesOK, GaugeOf, Objects, Word, AllGauges
  <2> QED
    BY <2>1, <2>2, <2>3
<1>19. ASSUME NEW f \in Procs, SendGauge(f)
      PROVE  TypeOK'
  <2>1. todo' \in [Procs -> SUBSET (Names \cup AllGauges)]
    BY <1>19 DEF SendGauge
  <2>2. shown' \in [AllGauges -> Word \cup {None}]
    BY <1>19 DEF SendGauge
  <2>3. UNCHANGED <<locks, control, pc, slice, arg, taken, counts, registry, gauges,
                    value, net, settled, calls>>
    BY <1>19 DEF SendGauge
  <2> HIDE DEF HandsOK, RegistryOK, GaugesOK, GaugeOf, Objects, Word, AllGauges
  <2> QED
    BY <2>1, <2>2, <2>3
<1>20. ASSUME NEW f \in Procs, SinkFlush(f)
      PROVE  TypeOK'
  BY <1>20 DEF SinkFlush
<1>21. ASSUME NEW f \in Procs, FlushReturn(f)
      PROVE  TypeOK'
  BY <1>21 DEF FlushReturn
<1>22. CASE UNCHANGED vars
  BY <1>22 DEF vars
<1> QED
  BY <1>1, <1>2, <1>3, <1>4, <1>5, <1>6, <1>7, <1>8, <1>9, <1>10, <1>11,
     <1>12, <1>13, <1>14, <1>15, <1>16, <1>17, <1>18, <1>19, <1>20, <1>21,
     <1>22
     DEF Next, FlushStep, AddStep, GaugeStep

(* Every step keeps LocksOK.                                               *)
LEMMA LocksStep ==
  ASSUME TypeOK, LocksOK, [Next]_vars
  PROVE  LocksOK'
<1> USE LifecycleAssumption DEF TypeOK, LocksOK, InFlush, Flushing, Procs,
        Goto, locks, control, locals, sums, counts, registry, levels
<1>1. ASSUME Cancel
      PROVE  LocksOK'
  BY <1>1 DEF Cancel
<1>2. ASSUME SelectTick
      PROVE  LocksOK'
  BY <1>2 DEF SelectTick, CallFlush
<1>3. ASSUME SelectDone
      PROVE  LocksOK'
  BY <1>3 DEF SelectDone, CallFlush
<1>4. ASSUME NEW u \in Users, UserFlush(u)
      PROVE  LocksOK'
  BY <1>4 DEF UserFlush, CallFlush
<1>5. ASSUME NEW u \in Users, NEW g \in Generators, AddLock(u, g)
      PROVE  LocksOK'
  BY <1>5 DEF AddLock, Calls, WriterFree
<1>6. ASSUME NEW u \in Users, AppendReads(u)
      PROVE  LocksOK'
  BY <1>6 DEF AppendReads
<1>7. ASSUME NEW u \in Users, AppendStores(u)
      PROVE  LocksOK'
  BY <1>7 DEF AppendStores
<1>8. ASSUME NEW u \in Users, NEW n \in Names, NEW k \in Amounts, Add(u, n, k)
      PROVE  LocksOK'
  BY <1>8 DEF Add, Calls
<1>9. ASSUME NEW u \in Users, NEW n \in GaugeNames, LoadGauge(u, n)
      PROVE  LocksOK'
  BY <1>9 DEF LoadGauge, Calls
<1>10. ASSUME NEW u \in Users, CreateGauge(u)
      PROVE  LocksOK'
  BY <1>10 DEF CreateGauge, LoadOrStore
<1>11. ASSUME NEW u \in Users, WriteGauge(u)
      PROVE  LocksOK'
  BY <1>11 DEF WriteGauge
<1>12. ASSUME NEW f \in Procs, FlushLock(f)
      PROVE  LocksOK'
  BY <1>12 DEF FlushLock, FlushMuFree
<1>13. ASSUME NEW f \in Procs, RLock(f)
      PROVE  LocksOK'
  BY <1>13 DEF RLock
<1>14. ASSUME NEW f \in Procs, Generate(f)
      PROVE  LocksOK'
  BY <1>14 DEF Generate
<1>15. ASSUME NEW f \in Procs, RUnlock(f)
      PROVE  LocksOK'
  BY <1>15 DEF RUnlock, Left
<1>16. ASSUME NEW f \in Procs, Latch(f)
      PROVE  LocksOK'
  BY <1>16 DEF Latch
<1>17. ASSUME NEW f \in Procs, SendCounter(f)
      PROVE  LocksOK'
  BY <1>17 DEF SendCounter
<1>18. ASSUME NEW f \in Procs, RangeGauges(f)
      PROVE  LocksOK'
  BY <1>18 DEF RangeGauges
<1>19. ASSUME NEW f \in Procs, SendGauge(f)
      PROVE  LocksOK'
  BY <1>19 DEF SendGauge
<1>20. ASSUME NEW f \in Procs, SinkFlush(f)
      PROVE  LocksOK'
  BY <1>20 DEF SinkFlush
<1>21. ASSUME NEW f \in Procs, FlushReturn(f)
      PROVE  LocksOK'
  BY <1>21 DEF FlushReturn
<1>22. CASE UNCHANGED vars
  BY <1>22 DEF vars
<1> QED
  BY <1>1, <1>2, <1>3, <1>4, <1>5, <1>6, <1>7, <1>8, <1>9, <1>10, <1>11,
     <1>12, <1>13, <1>14, <1>15, <1>16, <1>17, <1>18, <1>19, <1>20, <1>21,
     <1>22
     DEF Next, FlushStep, AddStep, GaugeStep

(* Every step keeps HandsOK.                                               *)
LEMMA HandsStep ==
  ASSUME TypeOK, LocksOK, HandsOK, [Next]_vars
  PROVE  HandsOK'
<1> USE LifecycleAssumption DEF TypeOK, LocksOK, HandsOK, AllGauges, InFlush,
        Flushing, Procs, Goto, locks, control, locals, sums, counts, registry,
        levels
<1>1. ASSUME Cancel
      PROVE  HandsOK'
  BY <1>1 DEF Cancel
<1>2. ASSUME SelectTick
      PROVE  HandsOK'
  BY <1>2 DEF SelectTick, CallFlush
<1>3. ASSUME SelectDone
      PROVE  HandsOK'
  BY <1>3 DEF SelectDone, CallFlush
<1>4. ASSUME NEW u \in Users, UserFlush(u)
      PROVE  HandsOK'
  BY <1>4 DEF UserFlush, CallFlush
<1>5. ASSUME NEW u \in Users, NEW g \in Generators, AddLock(u, g)
      PROVE  HandsOK'
  BY <1>5 DEF AddLock, Calls, WriterFree
<1>6. ASSUME NEW u \in Users, AppendReads(u)
      PROVE  HandsOK'
  BY <1>6 DEF AppendReads
<1>7. ASSUME NEW u \in Users, AppendStores(u)
      PROVE  HandsOK'
  BY <1>7 DEF AppendStores
<1>8. ASSUME NEW u \in Users, NEW n \in Names, NEW k \in Amounts, Add(u, n, k)
      PROVE  HandsOK'
  BY <1>8 DEF Add, Calls
<1>9. ASSUME NEW u \in Users, NEW n \in GaugeNames, LoadGauge(u, n)
      PROVE  HandsOK'
  BY <1>9 DEF LoadGauge, Calls
<1>10. ASSUME NEW u \in Users, CreateGauge(u)
      PROVE  HandsOK'
  BY <1>10 DEF CreateGauge, LoadOrStore
<1>11. ASSUME NEW u \in Users, WriteGauge(u)
      PROVE  HandsOK'
  BY <1>11 DEF WriteGauge
<1>12. ASSUME NEW f \in Procs, FlushLock(f)
      PROVE  HandsOK'
  BY <1>12 DEF FlushLock, FlushMuFree
<1>13. ASSUME NEW f \in Procs, RLock(f)
      PROVE  HandsOK'
  BY <1>13 DEF RLock
<1>14. ASSUME NEW f \in Procs, Generate(f)
      PROVE  HandsOK'
  BY <1>14 DEF Generate
<1>15. ASSUME NEW f \in Procs, RUnlock(f)
      PROVE  HandsOK'
  BY <1>15 DEF RUnlock, Left
<1>16. ASSUME NEW f \in Procs, Latch(f)
      PROVE  HandsOK'
  <2>1. pc[f] = "counters" /\ flushMu = f /\ flushMu' = f
    BY <1>16 DEF Latch
  <2>2. PICK n \in todo[f] :
          /\ todo' = [todo EXCEPT ![f] = @ \ {n}]
          /\ IF outstanding[n] = 0
               THEN UNCHANGED <<pc, arg, taken, outstanding>>
               ELSE /\ taken' = [taken EXCEPT ![f] = outstanding[n]]
                    /\ outstanding' = [outstanding EXCEPT ![n] = 0]
                    /\ arg' = [arg EXCEPT ![f] = <<n, f>>]
                    /\ Goto(f, "send")
    BY <1>16 DEF Latch
  <2>3. \A p \in Procs : p # f => pc'[p] = pc[p] /\ pc[p] \notin InFlush
    BY <2>1, <2>2
  <2>4. n \in Names /\ todo'[f] \subseteq Names /\ pc'[f] # "gauges"
    BY <2>1, <2>2
  <2>5. pc'[f] = "send" => arg'[f] = <<n, f>>
    BY <2>1, <2>2
  <2> QED
    BY <2>3, <2>4, <2>5
<1>17. ASSUME NEW f \in Procs, SendCounter(f)
      PROVE  HandsOK'
  BY <1>17 DEF SendCounter
<1>18. ASSUME NEW f \in Procs, RangeGauges(f)
      PROVE  HandsOK'
  BY <1>18 DEF RangeGauges
<1>19. ASSUME NEW f \in Procs, SendGauge(f)
      PROVE  HandsOK'
  BY <1>19 DEF SendGauge
<1>20. ASSUME NEW f \in Procs, SinkFlush(f)
      PROVE  HandsOK'
  BY <1>20 DEF SinkFlush
<1>21. ASSUME NEW f \in Procs, FlushReturn(f)
      PROVE  HandsOK'
  BY <1>21 DEF FlushReturn
<1>22. CASE UNCHANGED vars
  BY <1>22 DEF vars
<1> QED
  BY <1>1, <1>2, <1>3, <1>4, <1>5, <1>6, <1>7, <1>8, <1>9, <1>10, <1>11,
     <1>12, <1>13, <1>14, <1>15, <1>16, <1>17, <1>18, <1>19, <1>20, <1>21,
     <1>22
     DEF Next, FlushStep, AddStep, GaugeStep

(* Every step keeps SumsOK.                                                *)
LEMMA SumsStep ==
  ASSUME TypeOK, LocksOK, HandsOK, SumsOK, NEW m \in Names, [Next]_vars
  PROVE  SumOf(m)'
<1> USE LifecycleAssumption DEF TypeOK, LocksOK, HandsOK, SumsOK, SumOf,
        InTransit, Taken, InFlush, Flushing, Procs, Goto, locks, control,
        locals, sums, counts, registry, levels
<1>1. ASSUME Cancel
      PROVE  SumOf(m)'
  BY <1>1 DEF Cancel
<1>2. ASSUME SelectTick
      PROVE  SumOf(m)'
  BY <1>2 DEF SelectTick, CallFlush
<1>3. ASSUME SelectDone
      PROVE  SumOf(m)'
  BY <1>3 DEF SelectDone, CallFlush
<1>4. ASSUME NEW u \in Users, UserFlush(u)
      PROVE  SumOf(m)'
  <2>1. InTransit(m)' = InTransit(m)
    BY <1>4 DEF UserFlush, CallFlush
  <2>2. /\ due' = [due EXCEPT ![u] = added]
        /\ UNCHANGED <<added, outstanding, reported, flushed, cancelled, atCancel>>
    BY <1>4 DEF UserFlush, CallFlush
  <2>3. SumOf(m) /\ due \in [Procs -> [Names -> Nat]]
    OBVIOUS
  <2> HIDE DEF TypeOK, LocksOK, HandsOK, SumsOK, InTransit, Taken
  <2> QED
    BY <2>1, <2>2, <2>3, Numbers
<1>5. ASSUME NEW u \in Users, NEW g \in Generators, AddLock(u, g)
      PROVE  SumOf(m)'
  BY <1>5 DEF AddLock, Calls, WriterFree
<1>6. ASSUME NEW u \in Users, AppendReads(u)
      PROVE  SumOf(m)'
  BY <1>6 DEF AppendReads
<1>7. ASSUME NEW u \in Users, AppendStores(u)
      PROVE  SumOf(m)'
  BY <1>7 DEF AppendStores
<1>8. ASSUME NEW u \in Users, NEW n \in Names, NEW k \in Amounts, Add(u, n, k)
      PROVE  SumOf(m)'
  <2>1. InTransit(m)' = InTransit(m)
    BY <1>8 DEF Add
  <2>2. k \in Nat
    BY DEF Word
  <2>3. \/ added'[m] = added[m] /\ outstanding'[m] = outstanding[m]
        \/ added'[m] = added[m] + k /\ outstanding'[m] = outstanding[m] + k
    BY <1>8 DEF Add
  <2>4. UNCHANGED <<reported, flushed, cancelled, atCancel, due>>
    BY <1>8 DEF Add
  <2>5. SumOf(m)
    OBVIOUS
  <2> HIDE DEF TypeOK, LocksOK, HandsOK, DueOK, SumsOK, InTransit, Taken
  <2> QED
    BY <2>1, <2>2, <2>3, <2>4, <2>5, Numbers
<1>9. ASSUME NEW u \in Users, NEW n \in GaugeNames, LoadGauge(u, n)
      PROVE  SumOf(m)'
  BY <1>9 DEF LoadGauge, Calls
<1>10. ASSUME NEW u \in Users, CreateGauge(u)
      PROVE  SumOf(m)'
  BY <1>10 DEF CreateGauge, LoadOrStore
<1>11. ASSUME NEW u \in Users, WriteGauge(u)
      PROVE  SumOf(m)'
  BY <1>11 DEF WriteGauge
<1>12. ASSUME NEW f \in Procs, FlushLock(f)
      PROVE  SumOf(m)'
  BY <1>12 DEF FlushLock, FlushMuFree
<1>13. ASSUME NEW f \in Procs, RLock(f)
      PROVE  SumOf(m)'
  BY <1>13 DEF RLock
<1>14. ASSUME NEW f \in Procs, Generate(f)
      PROVE  SumOf(m)'
  <2>1. InTransit(m)' = 0 /\ InTransit(m) = 0
    BY <1>14 DEF Generate
  <2>2. UNCHANGED <<reported, flushed, cancelled, atCancel>>
    BY <1>14 DEF Generate
  <2>3. SumOf(m)
    OBVIOUS
  <2> HIDE DEF TypeOK, LocksOK, HandsOK, DueOK, SumsOK, InTransit, Taken
  <2>4. /\ added'[m] - added[m] = outstanding'[m] - outstanding[m]
        /\ added[m] <= added'[m] /\ added'[m] \in Nat /\ outstanding'[m] \in Nat
        /\ \A p \in Procs : due'[p][m] <= added'[m]
    BY <1>14, GenerateGrows
  <2> QED
    BY <2>1, <2>2, <2>3, <2>4, Numbers
<1>15. ASSUME NEW f \in Procs, RUnlock(f)
      PROVE  SumOf(m)'
  BY <1>15 DEF RUnlock, Left
<1>16. ASSUME NEW f \in Procs, Latch(f)
      PROVE  SumOf(m)'
  <2>1. pc[f] = "counters" /\ flushMu = f /\ flushMu' = f
    BY <1>16 DEF Latch
  <2>2. PICK n \in todo[f] :
          /\ todo' = [todo EXCEPT ![f] = @ \ {n}]
          /\ IF outstanding[n] = 0
               THEN UNCHANGED <<pc, arg, taken, outstanding>>
               ELSE /\ taken' = [taken EXCEPT ![f] = outstanding[n]]
                    /\ outstanding' = [outstanding EXCEPT ![n] = 0]
                    /\ arg' = [arg EXCEPT ![f] = <<n, f>>]
                    /\ Goto(f, "send")
    BY <1>16 DEF Latch
  <2>3. UNCHANGED <<added, reported, flushed, cancelled, atCancel, due>>
    BY <1>16 DEF Latch
  <2>4. CASE outstanding[n] = 0
    BY <2>1, <2>2, <2>3, <2>4
  <2>5. CASE outstanding[n] # 0
    <3>1. InTransit(m) = 0
      BY <2>1
    <3>2. InTransit(m)' = IF n = m THEN outstanding[n] ELSE 0
      <4>1. /\ taken' = [taken EXCEPT ![f] = outstanding[n]]
            /\ arg' = [arg EXCEPT ![f] = <<n, f>>] /\ pc' = [pc EXCEPT ![f] = "send"]
        BY <2>2, <2>5
      <4>2. f \in DOMAIN taken /\ f \in DOMAIN arg /\ f \in DOMAIN pc
        BY DEF TypeOK
      <4>3. f # None
        OBVIOUS
      <4>4. taken'[f] = outstanding[n] /\ arg'[f] = <<n, f>> /\ pc'[f] = "send"
        BY ONLY <4>1, <4>2
      <4>5. <<n, f>>[1] = n
        OBVIOUS
      <4> QED
        BY ONLY <2>1, <4>3, <4>4, <4>5 DEF InTransit, Taken
    <3>3. outstanding'[m] = IF n = m THEN 0 ELSE outstanding[m]
      <4>1. outstanding \in [Names -> Nat] /\ outstanding' = [outstanding EXCEPT ![n] = 0]
        BY <2>2, <2>5
      <4> HIDE DEF TypeOK, LocksOK, HandsOK, DueOK, SumsOK, InTransit, Taken
      <4> QED
        BY <4>1
    <3>4. SumOf(m)
      OBVIOUS
    <3> HIDE DEF TypeOK, LocksOK, HandsOK, DueOK, SumsOK, InTransit, Taken
    <3> QED
      BY <2>3, <3>1, <3>2, <3>3, <3>4, Numbers
  <2> QED
    BY <2>4, <2>5
<1>17. ASSUME NEW f \in Procs, SendCounter(f)
      PROVE  SumOf(m)'
  <2>1. pc[f] = "send" /\ flushMu = f /\ flushMu' = f /\ pc'[f] = "counters"
    BY <1>17 DEF SendCounter
  <2>2. PICK n \in Names : arg[f] = <<n, f>>
    BY <2>1
  <2>3. reported' = [reported EXCEPT ![n] = @ + taken[f]]
    BY <1>17, <2>2 DEF SendCounter
  <2>4. UNCHANGED <<added, outstanding, flushed, cancelled, atCancel, due>>
    BY <1>17 DEF SendCounter
  <2>5. InTransit(m) = (IF n = m THEN taken[f] ELSE 0) /\ InTransit(m)' = 0
    <3>1. InTransit(m) = Taken(f, m) /\ InTransit(m)' = Taken(f, m)'
      BY <2>1
    <3>2. Taken(f, m) = (IF n = m THEN taken[f] ELSE 0) /\ Taken(f, m)' = 0
      BY <2>1, <2>2
    <3> HIDE DEF TypeOK, LocksOK, HandsOK, DueOK, SumsOK, InTransit, Taken
    <3> QED
      BY <3>1, <3>2
  <2>6. SumOf(m)
    OBVIOUS
  <2>7. reported \in [Names -> Nat] /\ taken \in [Procs -> Nat]
    OBVIOUS
  <2> HIDE DEF TypeOK, LocksOK, HandsOK, DueOK, SumsOK, InTransit, Taken
  <2>8. reported'[m] = reported[m] + InTransit(m)
    BY <2>3, <2>5, <2>7
  <2> QED
    BY <2>4, <2>5, <2>6, <2>7, <2>8, Numbers
<1>18. ASSUME NEW f \in Procs, RangeGauges(f)
      PROVE  SumOf(m)'
  BY <1>18 DEF RangeGauges
<1>19. ASSUME NEW f \in Procs, SendGauge(f)
      PROVE  SumOf(m)'
  BY <1>19 DEF SendGauge
<1>20. ASSUME NEW f \in Procs, SinkFlush(f)
      PROVE  SumOf(m)'
  <2>1. /\ pc[f] = "gauges" /\ flushMu = f /\ flushMu' = f /\ pc'[f] = "sink"
        /\ flushed' = reported
        /\ UNCHANGED <<added, outstanding, reported, cancelled, atCancel, due>>
    BY <1>20 DEF SinkFlush
  <2>2. InTransit(m) = 0 /\ InTransit(m)' = 0
    BY <2>1
  <2>3. SumOf(m)
    OBVIOUS
  <2> HIDE DEF TypeOK, LocksOK, HandsOK, SumsOK, InTransit, Taken
  <2> QED
    BY <2>1, <2>2, <2>3, Numbers
<1>21. ASSUME NEW f \in Procs, FlushReturn(f)
      PROVE  SumOf(m)'
  <2>1. /\ pc[f] = "sink" /\ flushMu = f /\ flushMu' = None
        /\ due' = [due EXCEPT ![f] = [x \in Names |-> 0]]
        /\ UNCHANGED <<added, outstanding, reported, flushed, cancelled, atCancel>>
    BY <1>21 DEF FlushReturn
  <2>2. InTransit(m) = 0 /\ InTransit(m)' = 0
    BY <2>1
  <2>3. SumOf(m) /\ due \in [Procs -> [Names -> Nat]]
    OBVIOUS
  <2> HIDE DEF TypeOK, LocksOK, HandsOK, SumsOK, InTransit, Taken
  <2>4. \A p \in Procs : due'[p][m] = IF p = f THEN 0 ELSE due[p][m]
    BY <2>1, <2>3
  <2> QED
    BY <2>1, <2>2, <2>3, <2>4, Numbers
<1>22. CASE UNCHANGED vars
  BY <1>22 DEF vars
<1> QED
  BY <1>1, <1>2, <1>3, <1>4, <1>5, <1>6, <1>7, <1>8, <1>9, <1>10, <1>11,
     <1>12, <1>13, <1>14, <1>15, <1>16, <1>17, <1>18, <1>19, <1>20, <1>21,
     <1>22
     DEF Next, FlushStep, AddStep, GaugeStep

(* Every step keeps DueOK.                                                 *)
LEMMA DueStep ==
  ASSUME TypeOK, LocksOK, HandsOK, SumsOK, DueOK, NEW q \in Procs, NEW m \in Names, [Next]_vars
  PROVE  DueOf(q, m)'
<1> USE LifecycleAssumption DEF TypeOK, LocksOK, HandsOK, DueOK, SumsOK,
        SumOf, DueOf, InTransit, Taken, InFlush, Flushing, Procs, Goto, locks,
        control, locals, sums, counts, registry, levels
<1>1. ASSUME Cancel
      PROVE  DueOf(q, m)'
  BY <1>1 DEF Cancel
<1>2. ASSUME SelectTick
      PROVE  DueOf(q, m)'
  BY <1>2 DEF SelectTick, CallFlush
<1>3. ASSUME SelectDone
      PROVE  DueOf(q, m)'
  BY <1>3 DEF SelectDone, CallFlush
<1>4. ASSUME NEW u \in Users, UserFlush(u)
      PROVE  DueOf(q, m)'
  BY <1>4 DEF UserFlush, CallFlush
<1>5. ASSUME NEW u \in Users, NEW g \in Generators, AddLock(u, g)
      PROVE  DueOf(q, m)'
  BY <1>5 DEF AddLock, Calls, WriterFree
<1>6. ASSUME NEW u \in Users, AppendReads(u)
      PROVE  DueOf(q, m)'
  BY <1>6 DEF AppendReads
<1>7. ASSUME NEW u \in Users, AppendStores(u)
      PROVE  DueOf(q, m)'
  BY <1>7 DEF AppendStores
<1>8. ASSUME NEW u \in Users, NEW n \in Names, NEW k \in Amounts, Add(u, n, k)
      PROVE  DueOf(q, m)'
  BY <1>8 DEF Add, Calls
<1>9. ASSUME NEW u \in Users, NEW n \in GaugeNames, LoadGauge(u, n)
      PROVE  DueOf(q, m)'
  BY <1>9 DEF LoadGauge, Calls
<1>10. ASSUME NEW u \in Users, CreateGauge(u)
      PROVE  DueOf(q, m)'
  BY <1>10 DEF CreateGauge, LoadOrStore
<1>11. ASSUME NEW u \in Users, WriteGauge(u)
      PROVE  DueOf(q, m)'
  BY <1>11 DEF WriteGauge
<1>12. ASSUME NEW f \in Procs, FlushLock(f)
      PROVE  DueOf(q, m)'
  BY <1>12 DEF FlushLock, FlushMuFree
<1>13. ASSUME NEW f \in Procs, RLock(f)
      PROVE  DueOf(q, m)'
  BY <1>13 DEF RLock
<1>14. ASSUME NEW f \in Procs, Generate(f)
      PROVE  DueOf(q, m)'
  BY <1>14 DEF Generate
<1>15. ASSUME NEW f \in Procs, RUnlock(f)
      PROVE  DueOf(q, m)'
  <2>1. CASE q # f
    <3>1. pc'[q] = pc[q] /\ pc[q] \notin InFlush
      BY <1>15, <2>1 DEF RUnlock
    <3> QED
      BY <3>1
  <2>2. CASE q = f
    <3>1. UNCHANGED <<reported, due, flushed>> /\ pc'[f] = "counters"
      BY <1>15 DEF RUnlock
    <3>2. added[m] > 0 => m \in todo'[f]
      BY <1>15 DEF RUnlock
    <3>3. added[m] <= 0 => due[f][m] <= reported[m]
      OBVIOUS
    <3>4. Taken(f, m)' = 0 /\ added[m] \in Nat
      BY <3>1
    <3> QED
      BY <2>2, <3>1, <3>2, <3>3, <3>4
  <2> QED
    BY <2>1, <2>2
<1>16. ASSUME NEW f \in Procs, Latch(f)
      PROVE  DueOf(q, m)'
  <2>1. pc[f] = "counters" /\ flushMu = f /\ flushMu' = f
    BY <1>16 DEF Latch
  <2>2. PICK n \in todo[f] :
          /\ todo' = [todo EXCEPT ![f] = @ \ {n}]
          /\ IF outstanding[n] = 0
               THEN UNCHANGED <<pc, arg, taken, outstanding>>
               ELSE /\ taken' = [taken EXCEPT ![f] = outstanding[n]]
                    /\ outstanding' = [outstanding EXCEPT ![n] = 0]
                    /\ arg' = [arg EXCEPT ![f] = <<n, f>>]
                    /\ Goto(f, "send")
    BY <1>16 DEF Latch
  <2>3. UNCHANGED <<added, reported, flushed, due>>
    BY <1>16 DEF Latch
  <2>4. CASE q # f
    <3>1. pc'[q] = pc[q] /\ pc[q] \notin InFlush
      BY <2>1, <2>2, <2>4
    <3> QED
      BY <3>1
  <2>5. CASE q = f
    <3>1. m # n => m \in todo'[f] \/ due[f][m] <= reported[m]
      <4>1. DueOf(f, m) /\ Taken(f, m) = 0
        <5>1. DueOf(f, m)
          BY ONLY DueOK DEF DueOK
        <5> QED
          BY ONLY <2>1, <5>1 DEF Taken
      <4>2. m # n /\ m \in todo[f] => m \in todo'[f]
        BY <2>2
      <4> HIDE DEF TypeOK, LocksOK, HandsOK, DueOK, SumsOK, InTransit, Taken
      <4> QED
        BY <2>1, <4>1, <4>2, Numbers
    <3>2. Taken(f, m)' \in Nat /\ (m = n => Taken(f, m)' = outstanding[m])
      <4>1. CASE outstanding[n] = 0
        <5>1. UNCHANGED <<pc, arg, taken>>
          BY ONLY <2>2, <4>1
        <5> QED
          BY ONLY <2>1, <4>1, <5>1 DEF Taken
      <4>2. CASE outstanding[n] # 0
        <5>1. /\ taken' = [taken EXCEPT ![f] = outstanding[n]]
              /\ arg' = [arg EXCEPT ![f] = <<n, f>>] /\ pc' = [pc EXCEPT ![f] = "send"]
          BY ONLY <2>2, <4>2 DEF Goto
        <5>2. f \in DOMAIN taken /\ f \in DOMAIN arg /\ f \in DOMAIN pc
          BY ONLY TypeOK DEF TypeOK
        <5>3. outstanding[n] \in Nat /\ <<n, f>>[1] = n
          <6>1. n \in Names
            BY ONLY <2>1, HandsOK DEF HandsOK
          <6> QED
            BY ONLY <6>1, TypeOK DEF TypeOK
        <5>4. taken'[f] = outstanding[n] /\ arg'[f] = <<n, f>> /\ pc'[f] = "send"
          BY ONLY <5>1, <5>2
        <5> QED
          BY ONLY <5>3, <5>4 DEF Taken
      <4> QED
        BY ONLY <4>1, <4>2
    <3>3. SumOf(m) /\ InTransit(m) = 0
      <4>1. SumOf(m)
        BY ONLY SumsOK DEF SumsOK
      <4>2. InTransit(m) = Taken(f, m) /\ Taken(f, m) = 0
        BY ONLY <2>1, LifecycleAssumption DEF InTransit, Taken
      <4> QED
        BY ONLY <4>1, <4>2
    <3>4. m = n => due[f][m] <= reported[m] + Taken(f, m)'
      <4> HIDE DEF TypeOK, LocksOK, HandsOK, DueOK, SumsOK, InTransit, Taken
      <4>1. due[f][m] <= added[m] /\ added[m] = outstanding[m] + reported[m] + InTransit(m)
        BY <3>3
      <4>2. due[f][m] \in Nat /\ outstanding[m] \in Nat /\ reported[m] \in Nat
        BY Numbers
      <4> QED
        BY <3>2, <3>3, <4>1, <4>2
    <3>5. pc'[f] \in {"counters", "send"}
      <4>1. pc \in [Procs -> Flushing \cup {"select", "done", "idle", "append", "store",
                                            "create", "write"}]
        BY ONLY TypeOK DEF TypeOK
      <4>2. pc' = pc \/ pc' = [pc EXCEPT ![f] = "send"]
        BY ONLY <2>2 DEF Goto
      <4> QED
        BY ONLY <2>1, <4>1, <4>2
    <3> HIDE DEF TypeOK, LocksOK, HandsOK, DueOK, SumsOK, InTransit, Taken
    <3>6. due[f][m] \in Nat /\ reported[m] \in Nat
      BY Numbers
    <3>7. m \in todo'[f] \/ due[f][m] <= reported[m] + Taken(f, m)'
      BY <3>1, <3>2, <3>4, <3>6
    <3> QED
      BY <2>3, <2>5, <3>5, <3>7
  <2> QED
    BY <2>4, <2>5
<1>17. ASSUME NEW f \in Procs, SendCounter(f)
      PROVE  DueOf(q, m)'
  <2>1. pc[f] = "send" /\ flushMu = f /\ flushMu' = f /\ pc'[f] = "counters"
    BY <1>17 DEF SendCounter
  <2>2. PICK n \in Names : arg[f] = <<n, f>>
    BY <2>1
  <2>3. reported' = [reported EXCEPT ![n] = @ + taken[f]]
    BY <1>17, <2>2 DEF SendCounter
  <2>4. UNCHANGED <<todo, flushed, due>>
    BY <1>17 DEF SendCounter
  <2>5. CASE q # f
    <3>1. pc'[q] = pc[q] /\ pc[q] \notin InFlush
      BY <1>17, <2>1, <2>5 DEF SendCounter
    <3> QED
      BY <3>1
  <2>6. CASE q = f
    <3>1. Taken(f, m) = IF n = m THEN taken[f] ELSE 0
      BY <2>1, <2>2
    <3>2. Taken(f, m)' = 0
      BY <2>1
    <3>3. reported'[m] = reported[m] + Taken(f, m)
      <4>1. reported \in [Names -> Nat] /\ taken \in [Procs -> Nat]
        BY DEF TypeOK
      <4> HIDE DEF TypeOK, LocksOK, HandsOK, DueOK, SumsOK, InTransit, Taken
      <4> QED
        BY <2>3, <3>1, <4>1
    <3>4. DueOf(f, m)
      OBVIOUS
    <3> HIDE DEF TypeOK, LocksOK, HandsOK, DueOK, SumsOK, InTransit, Taken
    <3> QED
      BY <2>1, <2>4, <2>6, <3>2, <3>3, <3>4, Numbers
  <2> QED
    BY <2>5, <2>6
<1>18. ASSUME NEW f \in Procs, RangeGauges(f)
      PROVE  DueOf(q, m)'
  <2>1. CASE q # f
    <3>1. pc'[q] = pc[q] /\ pc[q] \notin InFlush
      BY <1>18, <2>1 DEF RangeGauges
    <3> QED
      BY <3>1
  <2>2. CASE q = f
    <3>1. UNCHANGED <<reported, due, flushed>> /\ pc'[f] = "gauges" /\ pc[f] = "counters"
      BY <1>18 DEF RangeGauges
    <3>2. todo[f] = {} /\ Taken(f, m) = 0
      BY <1>18, <3>1 DEF RangeGauges
    <3>3. due[f][m] <= reported[m] + 0
      BY <3>1, <3>2
    <3> QED
      BY <2>2, <3>1, <3>3
  <2> QED
    BY <2>1, <2>2
<1>19. ASSUME NEW f \in Procs, SendGauge(f)
      PROVE  DueOf(q, m)'
  BY <1>19 DEF SendGauge
<1>20. ASSUME NEW f \in Procs, SinkFlush(f)
      PROVE  DueOf(q, m)'
  BY <1>20 DEF SinkFlush
<1>21. ASSUME NEW f \in Procs, FlushReturn(f)
      PROVE  DueOf(q, m)'
  BY <1>21 DEF FlushReturn
<1>22. CASE UNCHANGED vars
  BY <1>22 DEF vars
<1> QED
  BY <1>1, <1>2, <1>3, <1>4, <1>5, <1>6, <1>7, <1>8, <1>9, <1>10, <1>11,
     <1>12, <1>13, <1>14, <1>15, <1>16, <1>17, <1>18, <1>19, <1>20, <1>21,
     <1>22
     DEF Next, FlushStep, AddStep, GaugeStep

(* Every step keeps ExitOK.                                                *)
LEMMA ExitStep ==
  ASSUME TypeOK, LocksOK, SumsOK, DueOK, ExitOK, [Next]_vars
  PROVE  ExitOK'
<1> USE LifecycleAssumption DEF TypeOK, LocksOK, SumsOK, SumOf, DueOK, DueOf,
        ExitOK, ExitSendsAll, InFlush, Flushing, Procs, Goto, locks, control,
        locals, sums, counts, registry, levels
<1>1. ASSUME Cancel
      PROVE  ExitOK'
  BY <1>1 DEF Cancel
<1>2. ASSUME SelectTick
      PROVE  ExitOK'
  BY <1>2 DEF SelectTick, CallFlush
<1>3. ASSUME SelectDone
      PROVE  ExitOK'
  BY <1>3 DEF SelectDone, CallFlush
<1>4. ASSUME NEW u \in Users, UserFlush(u)
      PROVE  ExitOK'
  BY <1>4 DEF UserFlush, CallFlush
<1>5. ASSUME NEW u \in Users, NEW g \in Generators, AddLock(u, g)
      PROVE  ExitOK'
  BY <1>5 DEF AddLock, Calls, WriterFree
<1>6. ASSUME NEW u \in Users, AppendReads(u)
      PROVE  ExitOK'
  BY <1>6 DEF AppendReads
<1>7. ASSUME NEW u \in Users, AppendStores(u)
      PROVE  ExitOK'
  BY <1>7 DEF AppendStores
<1>8. ASSUME NEW u \in Users, NEW n \in Names, NEW k \in Amounts, Add(u, n, k)
      PROVE  ExitOK'
  BY <1>8 DEF Add, Calls
<1>9. ASSUME NEW u \in Users, NEW n \in GaugeNames, LoadGauge(u, n)
      PROVE  ExitOK'
  BY <1>9 DEF LoadGauge, Calls
<1>10. ASSUME NEW u \in Users, CreateGauge(u)
      PROVE  ExitOK'
  BY <1>10 DEF CreateGauge, LoadOrStore
<1>11. ASSUME NEW u \in Users, WriteGauge(u)
      PROVE  ExitOK'
  BY <1>11 DEF WriteGauge
<1>12. ASSUME NEW f \in Procs, FlushLock(f)
      PROVE  ExitOK'
  BY <1>12 DEF FlushLock, FlushMuFree
<1>13. ASSUME NEW f \in Procs, RLock(f)
      PROVE  ExitOK'
  BY <1>13 DEF RLock
<1>14. ASSUME NEW f \in Procs, Generate(f)
      PROVE  ExitOK'
  <2>1. UNCHANGED <<pc, cancelled, exiting, flushed, atCancel>>
    BY <1>14 DEF Generate
  <2>2. ExitOK
    OBVIOUS
  <2> HIDE DEF TypeOK, LocksOK, DueOK, SumsOK
  <2>3. \A n \in Names : due'[Loop][n] \in Nat /\ due[Loop][n] <= due'[Loop][n]
    BY <1>14, GenerateGrows DEF Procs
  <2> QED
    BY <2>1, <2>2, <2>3, Numbers DEF Procs
<1>15. ASSUME NEW f \in Procs, RUnlock(f)
      PROVE  ExitOK'
  BY <1>15 DEF RUnlock, Left
<1>16. ASSUME NEW f \in Procs, Latch(f)
      PROVE  ExitOK'
  BY <1>16 DEF Latch
<1>17. ASSUME NEW f \in Procs, SendCounter(f)
      PROVE  ExitOK'
  BY <1>17 DEF SendCounter
<1>18. ASSUME NEW f \in Procs, RangeGauges(f)
      PROVE  ExitOK'
  BY <1>18 DEF RangeGauges
<1>19. ASSUME NEW f \in Procs, SendGauge(f)
      PROVE  ExitOK'
  BY <1>19 DEF SendGauge
<1>20. ASSUME NEW f \in Procs, SinkFlush(f)
      PROVE  ExitOK'
  <2>1. UNCHANGED <<cancelled, exiting, due, atCancel>> /\ flushed' = reported
    BY <1>20 DEF SinkFlush
  <2>2. pc[f] = "gauges" /\ pc' = [pc EXCEPT ![f] = "sink"]
    BY <1>20 DEF SinkFlush
  <2>3. \A n \in Names : flushed[n] <= reported[n] /\ SumOf(n)
    OBVIOUS
  <2>4. pc'[Loop] = "done" <=> pc[Loop] = "done"
    BY <2>2
  <2>5. pc'[Loop] \in Flushing => pc[Loop] \in Flushing
    BY <2>2
  <2>6. pc'[Loop] = "select" => pc[Loop] = "select"
    BY <2>2
  <2>7. ExitOK
    OBVIOUS
  <2> HIDE DEF TypeOK, LocksOK, DueOK, SumsOK, Flushing, InFlush
  <2> QED
    BY <2>1, <2>3, <2>4, <2>5, <2>6, <2>7, Numbers
<1>21. ASSUME NEW f \in Procs, FlushReturn(f)
      PROVE  ExitOK'
  BY <1>21 DEF FlushReturn
<1>22. CASE UNCHANGED vars
  BY <1>22 DEF vars
<1> QED
  BY <1>1, <1>2, <1>3, <1>4, <1>5, <1>6, <1>7, <1>8, <1>9, <1>10, <1>11,
     <1>12, <1>13, <1>14, <1>15, <1>16, <1>17, <1>18, <1>19, <1>20, <1>21,
     <1>22
     DEF Next, FlushStep, AddStep, GaugeStep

(* Every step keeps RegistryOK.                                            *)
LEMMA RegistryStep ==
  ASSUME TypeOK, LocksOK, RegistryOK, [Next]_vars
  PROVE  RegistryOK'
<1> USE LifecycleAssumption DEF TypeOK, LocksOK, RegistryOK, InFlush,
        Flushing, Procs, Goto, locks, control, locals, sums, counts, registry,
        levels
<1>1. ASSUME Cancel
      PROVE  RegistryOK'
  BY <1>1 DEF Cancel
<1>2. ASSUME SelectTick
      PROVE  RegistryOK'
  BY <1>2 DEF SelectTick, CallFlush
<1>3. ASSUME SelectDone
      PROVE  RegistryOK'
  BY <1>3 DEF SelectDone, CallFlush
<1>4. ASSUME NEW u \in Users, UserFlush(u)
      PROVE  RegistryOK'
  BY <1>4 DEF UserFlush, CallFlush
<1>5. ASSUME NEW u \in Users, NEW g \in Generators, AddLock(u, g)
      PROVE  RegistryOK'
  BY <1>5 DEF AddLock, Calls, WriterFree
<1>6. ASSUME NEW u \in Users, AppendReads(u)
      PROVE  RegistryOK'
  BY <1>6 DEF AppendReads
<1>7. ASSUME NEW u \in Users, AppendStores(u)
      PROVE  RegistryOK'
  <2>1. PICK g \in Generators : arg[u] = <<g, Loop>>
    BY <1>7 DEF AppendStores
  <2>2. statGenerators' = Append(statGenerators, g) /\ joined' = joined \cup {g}
    BY <1>7, <2>1 DEF AppendStores
  <2>3. Elements(statGenerators') = Elements(statGenerators) \cup {g}
    BY <2>2, ElementsAppend
  <2> QED
    BY <1>7, <2>1, <2>2, <2>3 DEF AppendStores
<1>8. ASSUME NEW u \in Users, NEW n \in Names, NEW k \in Amounts, Add(u, n, k)
      PROVE  RegistryOK'
  BY <1>8 DEF Add, Calls
<1>9. ASSUME NEW u \in Users, NEW n \in GaugeNames, LoadGauge(u, n)
      PROVE  RegistryOK'
  BY <1>9 DEF LoadGauge, Calls
<1>10. ASSUME NEW u \in Users, CreateGauge(u)
      PROVE  RegistryOK'
  BY <1>10 DEF CreateGauge, LoadOrStore
<1>11. ASSUME NEW u \in Users, WriteGauge(u)
      PROVE  RegistryOK'
  BY <1>11 DEF WriteGauge
<1>12. ASSUME NEW f \in Procs, FlushLock(f)
      PROVE  RegistryOK'
  BY <1>12 DEF FlushLock, FlushMuFree
<1>13. ASSUME NEW f \in Procs, RLock(f)
      PROVE  RegistryOK'
  BY <1>13 DEF RLock
<1>14. ASSUME NEW f \in Procs, Generate(f)
      PROVE  RegistryOK'
  <2>1. UNCHANGED <<pc, arg, statGenerators, joined, inForce>>
    BY <1>14 DEF Generate
  <2>2. pc[f] = "generate" /\ slice' = [slice EXCEPT ![f] = Tail(@)]
    BY <1>14 DEF Generate
  <2>3. \A u \in Users : pc[u] = "store" => slice'[u] = slice[u]
    BY <2>2
  <2> QED
    BY <2>1, <2>3
<1>15. ASSUME NEW f \in Procs, RUnlock(f)
      PROVE  RegistryOK'
  BY <1>15 DEF RUnlock, Left
<1>16. ASSUME NEW f \in Procs, Latch(f)
      PROVE  RegistryOK'
  <2>1. pc[f] = "counters" /\ pc'[f] \in {"counters", "send"}
    BY <1>16 DEF Latch
  <2>2. \A u \in Users : u # f => arg'[u] = arg[u] /\ pc'[u] = pc[u]
    BY <1>16 DEF Latch
  <2>3. UNCHANGED <<joined, statGenerators, inForce, slice>>
    BY <1>16 DEF Latch
  <2>4. writer' = writer /\ flushMu = f
    BY <1>16 DEF Latch
  <2>5. \A u \in Users : pc'[u] \in {"append", "store"} => u # f /\ arg'[u] = arg[u]
    BY <2>1, <2>2
  <2> QED
    BY <2>2, <2>3, <2>5
<1>17. ASSUME NEW f \in Procs, SendCounter(f)
      PROVE  RegistryOK'
  BY <1>17 DEF SendCounter
<1>18. ASSUME NEW f \in Procs, RangeGauges(f)
      PROVE  RegistryOK'
  BY <1>18 DEF RangeGauges
<1>19. ASSUME NEW f \in Procs, SendGauge(f)
      PROVE  RegistryOK'
  BY <1>19 DEF SendGauge
<1>20. ASSUME NEW f \in Procs, SinkFlush(f)
      PROVE  RegistryOK'
  BY <1>20 DEF SinkFlush
<1>21. ASSUME NEW f \in Procs, FlushReturn(f)
      PROVE  RegistryOK'
  BY <1>21 DEF FlushReturn
<1>22. CASE UNCHANGED vars
  BY <1>22 DEF vars
<1> QED
  BY <1>1, <1>2, <1>3, <1>4, <1>5, <1>6, <1>7, <1>8, <1>9, <1>10, <1>11,
     <1>12, <1>13, <1>14, <1>15, <1>16, <1>17, <1>18, <1>19, <1>20, <1>21,
     <1>22
     DEF Next, FlushStep, AddStep, GaugeStep

(* Every step keeps OnceOK.                                                *)
LEMMA OnceStep ==
  ASSUME TypeOK, LocksOK, RegistryOK, OnceOK, [Next]_vars
  PROVE  OnceOK'
<1> USE LifecycleAssumption DEF TypeOK, LocksOK, OnceOK, InFlush, Flushing, Procs, Goto,
        locks, control, locals, sums, counts, registry, levels
<1>1. ASSUME Cancel
      PROVE  OnceOK'
  BY <1>1 DEF Cancel
<1>2. ASSUME SelectTick
      PROVE  OnceOK'
  BY <1>2 DEF SelectTick, CallFlush
<1>3. ASSUME SelectDone
      PROVE  OnceOK'
  BY <1>3 DEF SelectDone, CallFlush
<1>4. ASSUME NEW u \in Users, UserFlush(u)
      PROVE  OnceOK'
  BY <1>4 DEF UserFlush, CallFlush
<1>5. ASSUME NEW u \in Users, NEW g \in Generators, AddLock(u, g)
      PROVE  OnceOK'
  BY <1>5 DEF AddLock, Calls, WriterFree
<1>6. ASSUME NEW u \in Users, AppendReads(u)
      PROVE  OnceOK'
  BY <1>6 DEF AppendReads
<1>7. ASSUME NEW u \in Users, AppendStores(u)
      PROVE  OnceOK'
  <2>1. PICK g \in Generators : arg[u] = <<g, Loop>>
    BY <1>7 DEF AppendStores, RegistryOK
  <2>2. statGenerators' = Append(statGenerators, g) /\ g \notin Elements(statGenerators)
    BY <1>7, <2>1 DEF AppendStores, RegistryOK
  <2>3. NoRepeats(statGenerators')
    BY <2>2, NoRepeatsAppend
  <2>4. \A v \in Users : pc'[v] \notin {"append", "store"}
    BY <1>7 DEF AppendStores
  <2> QED
    BY <2>3, <2>4
<1>8. ASSUME NEW u \in Users, NEW n \in Names, NEW k \in Amounts, Add(u, n, k)
      PROVE  OnceOK'
  BY <1>8 DEF Add, Calls
<1>9. ASSUME NEW u \in Users, NEW n \in GaugeNames, LoadGauge(u, n)
      PROVE  OnceOK'
  BY <1>9 DEF LoadGauge, Calls
<1>10. ASSUME NEW u \in Users, CreateGauge(u)
      PROVE  OnceOK'
  BY <1>10 DEF CreateGauge, LoadOrStore
<1>11. ASSUME NEW u \in Users, WriteGauge(u)
      PROVE  OnceOK'
  BY <1>11 DEF WriteGauge
<1>12. ASSUME NEW f \in Procs, FlushLock(f)
      PROVE  OnceOK'
  BY <1>12 DEF FlushLock, FlushMuFree
<1>13. ASSUME NEW f \in Procs, RLock(f)
      PROVE  OnceOK'
  BY <1>13 DEF RLock
<1>14. ASSUME NEW f \in Procs, Generate(f)
      PROVE  OnceOK'
  BY <1>14 DEF Generate
<1>15. ASSUME NEW f \in Procs, RUnlock(f)
      PROVE  OnceOK'
  BY <1>15 DEF RUnlock, Left
<1>16. ASSUME NEW f \in Procs, Latch(f)
      PROVE  OnceOK'
  <2>1. pc[f] = "counters" /\ pc'[f] \in {"counters", "send"}
    BY <1>16 DEF Latch
  <2>2. \A u \in Users : u # f => arg'[u] = arg[u] /\ pc'[u] = pc[u]
    BY <1>16 DEF Latch
  <2>3. UNCHANGED <<joined, statGenerators>>
    BY <1>16 DEF Latch
  <2>4. \A u \in Users : pc'[u] \in {"append", "store"} => u # f /\ arg'[u] = arg[u]
    BY <2>1, <2>2
  <2> QED
    BY <2>2, <2>3, <2>4
<1>17. ASSUME NEW f \in Procs, SendCounter(f)
      PROVE  OnceOK'
  BY <1>17 DEF SendCounter
<1>18. ASSUME NEW f \in Procs, RangeGauges(f)
      PROVE  OnceOK'
  BY <1>18 DEF RangeGauges
<1>19. ASSUME NEW f \in Procs, SendGauge(f)
      PROVE  OnceOK'
  BY <1>19 DEF SendGauge
<1>20. ASSUME NEW f \in Procs, SinkFlush(f)
      PROVE  OnceOK'
  BY <1>20 DEF SinkFlush
<1>21. ASSUME NEW f \in Procs, FlushReturn(f)
      PROVE  OnceOK'
  BY <1>21 DEF FlushReturn
<1>22. CASE UNCHANGED vars
  BY <1>22 DEF vars
<1> QED
  BY <1>1, <1>2, <1>3, <1>4, <1>5, <1>6, <1>7, <1>8, <1>9, <1>10, <1>11,
     <1>12, <1>13, <1>14, <1>15, <1>16, <1>17, <1>18, <1>19, <1>20, <1>21,
     <1>22
     DEF Next, FlushStep, AddStep, GaugeStep

(* A step that leaves what those about to run generators see keeps RunsOK.  *)
Undisturbed(p) ==
  pc'[p] \in {"rlock", "generate"} =>
    pc'[p] = pc[p] /\ slice'[p] = slice[p] /\ made'[p] = made[p]

LEMMA RunsFrame ==
  ASSUME RunsOK, \A p \in Procs : Undisturbed(p)
  PROVE  RunsOK'
BY DEF RunsOK, Undisturbed

(* Every step keeps RunsOK.                                                *)
LEMMA RunsStep ==
  ASSUME TypeOK, LocksOK, RegistryOK, OnceOK, MadeOK, RunsOK, [Next]_vars
  PROVE  RunsOK'
<1>0. DOMAIN pc = Procs /\ DOMAIN slice = Procs /\ DOMAIN made = Procs
  BY DEF TypeOK
<1> USE DEF Procs, Undisturbed, Goto, locks, control, locals, sums, counts, registry, levels
<1>1. ASSUME Cancel
      PROVE  \A p \in Procs : Undisturbed(p)
  BY <1>0, <1>1 DEF Cancel
<1>2. ASSUME SelectTick
      PROVE  \A p \in Procs : Undisturbed(p)
  BY <1>0, <1>2 DEF SelectTick, CallFlush
<1>3. ASSUME SelectDone
      PROVE  \A p \in Procs : Undisturbed(p)
  BY <1>0, <1>3 DEF SelectDone, CallFlush
<1>4. ASSUME NEW u \in Users, UserFlush(u)
      PROVE  \A p \in Procs : Undisturbed(p)
  BY <1>0, <1>4 DEF UserFlush, CallFlush
<1>5. ASSUME NEW u \in Users, NEW g \in Generators, AddLock(u, g)
      PROVE  \A p \in Procs : Undisturbed(p)
  BY <1>0, <1>5 DEF AddLock, Calls
<1>6. ASSUME NEW u \in Users, AppendReads(u)
      PROVE  \A p \in Procs : Undisturbed(p)
  BY <1>0, <1>6 DEF AppendReads
<1>7. ASSUME NEW u \in Users, AppendStores(u)
      PROVE  \A p \in Procs : Undisturbed(p)
  BY <1>0, <1>7 DEF AppendStores
<1>8. ASSUME NEW u \in Users, NEW n \in Names, NEW k \in Amounts, Add(u, n, k)
      PROVE  \A p \in Procs : Undisturbed(p)
  BY <1>0, <1>8 DEF Add
<1>9. ASSUME NEW u \in Users, NEW n \in GaugeNames, LoadGauge(u, n)
      PROVE  \A p \in Procs : Undisturbed(p)
  BY <1>0, <1>9 DEF LoadGauge
<1>10. ASSUME NEW u \in Users, CreateGauge(u)
      PROVE  \A p \in Procs : Undisturbed(p)
  BY <1>0, <1>10 DEF CreateGauge
<1>11. ASSUME NEW u \in Users, WriteGauge(u)
      PROVE  \A p \in Procs : Undisturbed(p)
  BY <1>0, <1>11 DEF WriteGauge
<1>12. ASSUME NEW f \in Procs, FlushLock(f)
      PROVE  RunsOK'
  <2>1. \A g \in Generators : made[f][g] = None
    BY <1>12 DEF FlushLock, MadeOK, MadeOf, InFlush, Flushing
  <2> QED
    BY <1>0, <1>12, <2>1 DEF FlushLock, RunsOK
<1>13. ASSUME NEW f \in Procs, RLock(f)
      PROVE  RunsOK'
  <2>1. NoRepeats(statGenerators) /\ Elements(statGenerators) \subseteq Generators
    BY DEF TypeOK, OnceOK, Elements
  <2>2. \A g \in Elements(statGenerators) : made[f][g] = None
    BY <1>13, <2>1 DEF RLock, RunsOK
  <2> QED
    BY <1>0, <1>13, <2>1, <2>2 DEF RLock, RunsOK
<1>14. ASSUME NEW f \in Procs, Generate(f)
      PROVE  RunsOK'
  <2>1. PICK k \in Amounts : made' = [made EXCEPT ![f][Head(slice[f])] = k]
    BY <1>14 DEF Generate
  <2>2. pc[f] = "generate" /\ slice[f] # <<>> /\ slice' = [slice EXCEPT ![f] = Tail(slice[f])]
    BY <1>14 DEF Generate
  <2>3. UNCHANGED pc
    BY <1>14 DEF Generate
  <2>4. /\ NoRepeats(Tail(slice[f])) /\ Head(slice[f]) \notin Elements(Tail(slice[f]))
        /\ Elements(Tail(slice[f])) \subseteq Elements(slice[f])
    BY <2>2, NoRepeatsTail DEF TypeOK, RunsOK
  <2>5. \A g \in Elements(Tail(slice[f])) : g \in Generators /\ made'[f][g] = None
    <3>1. Elements(slice[f]) \subseteq Generators
      BY DEF TypeOK, Elements
    <3>2. \A g \in Elements(slice[f]) : made[f][g] = None
      BY <2>2 DEF RunsOK
    <3> QED
      BY <1>0, <2>1, <2>4, <3>1, <3>2 DEF TypeOK
  <2>6. \A p \in Procs : p # f => slice'[p] = slice[p] /\ made'[p] = made[p]
    BY <1>0, <2>1, <2>2
  <2>7. slice'[f] = Tail(slice[f])
    BY <1>0, <2>2
  <2> QED
    BY <2>2, <2>3, <2>4, <2>5, <2>6, <2>7 DEF RunsOK
<1>15. ASSUME NEW f \in Procs, RUnlock(f)
      PROVE  \A p \in Procs : Undisturbed(p)
  BY <1>0, <1>15 DEF RUnlock
<1>16. ASSUME NEW f \in Procs, Latch(f)
      PROVE  \A p \in Procs : Undisturbed(p)
  BY <1>0, <1>16 DEF Latch
<1>17. ASSUME NEW f \in Procs, SendCounter(f)
      PROVE  \A p \in Procs : Undisturbed(p)
  BY <1>0, <1>17 DEF SendCounter
<1>18. ASSUME NEW f \in Procs, RangeGauges(f)
      PROVE  \A p \in Procs : Undisturbed(p)
  BY <1>0, <1>18 DEF RangeGauges
<1>19. ASSUME NEW f \in Procs, SendGauge(f)
      PROVE  \A p \in Procs : Undisturbed(p)
  BY <1>0, <1>19 DEF SendGauge
<1>20. ASSUME NEW f \in Procs, SinkFlush(f)
      PROVE  \A p \in Procs : Undisturbed(p)
  BY <1>0, <1>20 DEF SinkFlush
<1>21. ASSUME NEW f \in Procs, FlushReturn(f)
      PROVE  \A p \in Procs : Undisturbed(p)
  BY <1>0, <1>21 DEF FlushReturn
<1>22. CASE UNCHANGED vars
  BY <1>22, RunsFrame DEF vars
<1> QED
  BY RunsFrame, <1>1, <1>2, <1>3, <1>4, <1>5, <1>6, <1>7, <1>8, <1>9, <1>10, <1>11,
     <1>12, <1>13, <1>14, <1>15, <1>16, <1>17, <1>18, <1>19, <1>20, <1>21, <1>22
     DEF Next, FlushStep, AddStep, GaugeStep

(* Every step keeps GaugesOK.                                              *)
LEMMA GaugesStep ==
  ASSUME TypeOK, LocksOK, RegistryOK, GaugesOK, [Next]_vars
  PROVE  GaugesOK'
<1> USE LifecycleAssumption DEF TypeOK, LocksOK, GaugesOK, GaugeOf, AllGauges,
        Objects, InFlush, Flushing, Procs, Goto, locks, control, locals, sums,
        counts, registry, levels
<1>1. ASSUME Cancel
      PROVE  GaugesOK'
  BY <1>1 DEF Cancel
<1>2. ASSUME SelectTick
      PROVE  GaugesOK'
  BY <1>2 DEF SelectTick, CallFlush
<1>3. ASSUME SelectDone
      PROVE  GaugesOK'
  BY <1>3 DEF SelectDone, CallFlush
<1>4. ASSUME NEW u \in Users, UserFlush(u)
      PROVE  GaugesOK'
  BY <1>4 DEF UserFlush, CallFlush
<1>5. ASSUME NEW u \in Users, NEW g \in Generators, AddLock(u, g)
      PROVE  GaugesOK'
  BY <1>5 DEF AddLock, Calls, WriterFree
<1>6. ASSUME NEW u \in Users, AppendReads(u)
      PROVE  GaugesOK'
  BY <1>6 DEF AppendReads
<1>7. ASSUME NEW u \in Users, AppendStores(u)
      PROVE  GaugesOK'
  BY <1>7 DEF AppendStores
<1>8. ASSUME NEW u \in Users, NEW n \in Names, NEW k \in Amounts, Add(u, n, k)
      PROVE  GaugesOK'
  <2>1. UNCHANGED <<gauges, net, value, arg, pc, settled>>
    BY <1>8 DEF Add
  <2> QED
    BY ONLY <2>1, GaugesOK DEF GaugesOK, GaugeOf
<1>9. ASSUME NEW u \in Users, NEW n \in GaugeNames, LoadGauge(u, n)
      PROVE  GaugesOK'
  BY <1>9 DEF LoadGauge, Calls
<1>10. ASSUME NEW u \in Users, CreateGauge(u)
      PROVE  GaugesOK'
  <2>1. PICK n \in GaugeNames : arg[u] = <<n, u>>
    BY <1>10 DEF CreateGauge
  <2>2. /\ gauges' = [gauges EXCEPT ![n] = IF gauges[n] = None THEN <<n, u>> ELSE gauges[n]]
        /\ arg' = [arg EXCEPT ![u] = IF gauges[n] = None THEN <<n, u>> ELSE gauges[n]]
        /\ pc' = [pc EXCEPT ![u] = "write"]
        /\ UNCHANGED <<net, value, settled>>
    BY <1>10, <2>1 DEF CreateGauge, LoadOrStore
  <2>3. \A m \in AllGauges : m # n => gauges'[m] = gauges[m]
    BY <2>2
  <2>4. gauges'[n] = arg'[u] /\ gauges'[n] # None /\ <<n, u>> # None
    BY <2>2
  <2>5. GaugeOf(n)'
    BY <2>2, <2>4
  <2>6. ASSUME NEW m \in GaugeNames, m # n
        PROVE  GaugeOf(m)'
    BY <2>2, <2>3, <2>6
  <2>7. n \notin Generators
    OBVIOUS
  <2>8. \A v \in Users : v # u => pc'[v] = pc[v] /\ arg'[v] = arg[v]
    BY <2>2
  <2>9. \A m \in GaugeNames : gauges[m] # None => gauges'[m] = gauges[m]
    BY <2>2
  <2> QED
    BY <2>2, <2>3, <2>4, <2>5, <2>6, <2>7, <2>8, <2>9
<1>11. ASSUME NEW u \in Users, WriteGauge(u)
      PROVE  GaugesOK'
  <2>1. PICK n \in GaugeNames : arg[u] = gauges[n] /\ gauges[n] # None
    BY <1>11 DEF WriteGauge
  <2>2. PICK p \in Procs : gauges[n] = <<n, p>>
    BY <2>1
  <2>3. value[<<n, p>>] = net[n] /\ net[n] \in Word
    <3>1. GaugeOf(n) /\ n \in AllGauges /\ net \in [AllGauges -> Word]
      OBVIOUS
    <3> QED
      BY <2>1, <2>2, <3>1
  <2>4. \E x \in Word : /\ value' = [value EXCEPT ![<<n, p>>] = x]
                        /\ net' = [net EXCEPT ![n] = x]
    <3>1. arg[u] = <<n, p>> /\ arg[u][1] = n /\ <<n, p>>[1] = n
      BY <2>1, <2>2
    <3> HIDE DEF TypeOK, LocksOK, GaugesOK
    <3> QED
      BY <1>11, <2>3, <3>1, WriteEffect
  <2>5. \A m \in GaugeNames : m # n => GaugeOf(m)'
    BY <1>11, <2>4 DEF WriteGauge
  <2>6. GaugeOf(n)'
    BY <1>11, <2>1, <2>2, <2>3, <2>4 DEF WriteGauge
  <2>7. /\ UNCHANGED gauges
        /\ pc' = [pc EXCEPT ![u] = "idle"] /\ arg' = [arg EXCEPT ![u] = None]
        /\ \A q \in Procs : settled'[q] \subseteq settled[q]
    BY <1>11 DEF WriteGauge
  <2> QED
    BY <2>5, <2>6, <2>7
<1>12. ASSUME NEW f \in Procs, FlushLock(f)
      PROVE  GaugesOK'
  BY <1>12 DEF FlushLock, FlushMuFree
<1>13. ASSUME NEW f \in Procs, RLock(f)
      PROVE  GaugesOK'
  BY <1>13 DEF RLock
<1>14. ASSUME NEW f \in Procs, Generate(f)
      PROVE  GaugesOK'
  BY <1>14 DEF Generate
<1>15. ASSUME NEW f \in Procs, RUnlock(f)
      PROVE  GaugesOK'
  BY <1>15 DEF RUnlock, Left
<1>16. ASSUME NEW f \in Procs, Latch(f)
      PROVE  GaugesOK'
  BY <1>16 DEF Latch
<1>17. ASSUME NEW f \in Procs, SendCounter(f)
      PROVE  GaugesOK'
  BY <1>17 DEF SendCounter
<1>18. ASSUME NEW f \in Procs, RangeGauges(f)
      PROVE  GaugesOK'
  BY <1>18 DEF RangeGauges
<1>19. ASSUME NEW f \in Procs, SendGauge(f)
      PROVE  GaugesOK'
  <2>1. UNCHANGED <<gauges, net, value, arg, pc, settled>>
    BY <1>19 DEF SendGauge
  <2> QED
    BY <2>1
<1>20. ASSUME NEW f \in Procs, SinkFlush(f)
      PROVE  GaugesOK'
  BY <1>20 DEF SinkFlush
<1>21. ASSUME NEW f \in Procs, FlushReturn(f)
      PROVE  GaugesOK'
  BY <1>21 DEF FlushReturn
<1>22. CASE UNCHANGED vars
  BY <1>22 DEF vars
<1> QED
  BY <1>1, <1>2, <1>3, <1>4, <1>5, <1>6, <1>7, <1>8, <1>9, <1>10, <1>11,
     <1>12, <1>13, <1>14, <1>15, <1>16, <1>17, <1>18, <1>19, <1>20, <1>21,
     <1>22
     DEF Next, FlushStep, AddStep, GaugeStep

(* Every step keeps MadeOK.                                                *)
LEMMA MadeStep ==
  ASSUME TypeOK, LocksOK, HandsOK, RegistryOK, GaugesOK, MadeOK,
         NEW q \in Procs, NEW h \in Generators, [Next]_vars
  PROVE  MadeOf(q, h)'
<1> USE LifecycleAssumption DEF TypeOK, LocksOK, HandsOK, RegistryOK,
        GaugesOK, GaugeOf, MadeOK, MadeOf, AllGauges, Objects, InFlush,
        Flushing, Procs, Goto, locks, control, locals, sums, counts, registry,
        levels
<1>1. ASSUME Cancel
      PROVE  MadeOf(q, h)'
  BY <1>1 DEF Cancel
<1>2. ASSUME SelectTick
      PROVE  MadeOf(q, h)'
  <2>1. MadeOf(q, h) /\ UNCHANGED <<value, gauges, made, slice, todo, shown>>
    BY <1>2 DEF SelectTick, CallFlush
  <2>2. CASE q = Loop
    <3>1. pc[q] = "select" /\ pc'[q] = "flush"
      BY <1>2, <2>2 DEF SelectTick, CallFlush
    <3> QED
      BY <2>1, <3>1
  <2>3. CASE q # Loop
    <3>1. pc'[q] = pc[q] /\ inForce'[q] = inForce[q]
      BY <1>2, <2>3 DEF SelectTick, CallFlush
    <3> QED
      BY <2>1, <3>1
  <2> QED
    BY <2>2, <2>3
<1>3. ASSUME SelectDone
      PROVE  MadeOf(q, h)'
  <2>1. MadeOf(q, h) /\ UNCHANGED <<value, gauges, made, slice, todo, shown>>
    BY <1>3 DEF SelectDone, CallFlush
  <2>2. CASE q = Loop
    <3>1. pc[q] = "select" /\ pc'[q] = "flush"
      BY <1>3, <2>2 DEF SelectDone, CallFlush
    <3> QED
      BY <2>1, <3>1
  <2>3. CASE q # Loop
    <3>1. pc'[q] = pc[q] /\ inForce'[q] = inForce[q]
      BY <1>3, <2>3 DEF SelectDone, CallFlush
    <3> QED
      BY <2>1, <3>1
  <2> QED
    BY <2>2, <2>3
<1>4. ASSUME NEW u \in Users, UserFlush(u)
      PROVE  MadeOf(q, h)'
  BY <1>4 DEF UserFlush, CallFlush
<1>5. ASSUME NEW u \in Users, NEW g \in Generators, AddLock(u, g)
      PROVE  MadeOf(q, h)'
  BY <1>5 DEF AddLock, Calls, WriterFree
<1>6. ASSUME NEW u \in Users, AppendReads(u)
      PROVE  MadeOf(q, h)'
  BY <1>6 DEF AppendReads
<1>7. ASSUME NEW u \in Users, AppendStores(u)
      PROVE  MadeOf(q, h)'
  BY <1>7 DEF AppendStores
<1>8. ASSUME NEW u \in Users, NEW n \in Names, NEW k \in Amounts, Add(u, n, k)
      PROVE  MadeOf(q, h)'
  <2>1. UNCHANGED <<pc, gauges, value, made, inForce, slice, todo, shown>>
    BY <1>8 DEF Add
  <2>2. MadeOf(q, h)
    BY ONLY MadeOK DEF MadeOK
  <2> QED
    BY <2>1, <2>2
<1>9. ASSUME NEW u \in Users, NEW n \in GaugeNames, LoadGauge(u, n)
      PROVE  MadeOf(q, h)'
  BY <1>9 DEF LoadGauge, Calls
<1>10. ASSUME NEW u \in Users, CreateGauge(u)
      PROVE  MadeOf(q, h)'
  BY <1>10 DEF CreateGauge, LoadOrStore
<1>11. ASSUME NEW u \in Users, WriteGauge(u)
      PROVE  MadeOf(q, h)'
  <2>1. PICK n \in GaugeNames, p \in Procs : arg[u] = <<n, p>>
    BY <1>11 DEF WriteGauge
  <2>2. gauges[h] = <<h, Loop>> /\ h # n /\ <<h, Loop>> \in Objects
    OBVIOUS
  <2>3. value'[<<h, Loop>>] = value[<<h, Loop>>]
    BY <1>11, <2>1, <2>2 DEF WriteGauge
  <2>4. UNCHANGED <<gauges, made, inForce, slice, todo, shown>> /\ MadeOf(q, h)
    BY <1>11 DEF WriteGauge
  <2>5. pc'[q] = pc[q] \/ (pc[q] \notin InFlush /\ pc'[q] \notin InFlush)
    BY <1>11 DEF WriteGauge
  <2> QED
    BY <2>2, <2>3, <2>4, <2>5
<1>12. ASSUME NEW f \in Procs, FlushLock(f)
      PROVE  MadeOf(q, h)'
  BY <1>12 DEF FlushLock, FlushMuFree
<1>13. ASSUME NEW f \in Procs, RLock(f)
      PROVE  MadeOf(q, h)'
  BY <1>13 DEF RLock
<1>14. ASSUME NEW f \in Procs, Generate(f)
      PROVE  MadeOf(q, h)'
  <2> DEFINE g == Head(slice[f])
  <2>1. /\ pc[f] = "generate" /\ flushMu = f /\ slice[f] # <<>> /\ slice[f] \in Seq(Generators)
        /\ UNCHANGED <<pc, gauges, inForce, todo, shown>> /\ MadeOf(q, h)
    BY <1>14 DEF Generate
  <2>2. g \in Generators /\ Elements(slice[f]) \subseteq {g} \cup Elements(Tail(slice[f]))
    BY <2>1, ElementsTail
  <2>3. PICK k \in Amounts : /\ value' = [value EXCEPT ![gauges[g]] = k]
                             /\ made' = [made EXCEPT ![f][g] = k]
    BY <1>14 DEF Generate
  <2>4. slice'[f] = Tail(slice[f]) /\ k # None
    <3>1. slice'[f] = Tail(slice[f])
      BY <1>14 DEF Generate
    <3> QED
      BY <3>1, Distinct
  <2>5. gauges[g] = <<g, Loop>> /\ gauges[h] = <<h, Loop>>
    BY <2>2
  <2>6. CASE q # f
    <3>1. made'[q] = made[q] /\ pc[q] \notin InFlush
      BY <2>1, <2>3, <2>6
    <3> QED
      BY <2>1, <3>1
  <2>7. CASE q = f /\ h = g
    <3>1. made'[q][h] = k /\ value'[gauges[h]] = k
      BY <2>2, <2>3, <2>5, <2>7
    <3> QED
      BY <2>1, <2>4, <2>7, <3>1
  <2>8. CASE q = f /\ h # g
    <3>1. made'[q][h] = made[q][h] /\ value'[gauges[h]] = value[gauges[h]]
      BY <2>2, <2>3, <2>5, <2>8
    <3> QED
      BY <2>1, <2>2, <2>4, <2>8, <3>1
  <2> QED
    BY <2>6, <2>7, <2>8
<1>15. ASSUME NEW f \in Procs, RUnlock(f)
      PROVE  MadeOf(q, h)'
  <2>1. /\ pc[f] = "generate" /\ flushMu = f /\ slice[f] = <<>> /\ MadeOf(q, h)
        /\ UNCHANGED <<gauges, value, made, inForce, slice, shown>>
    BY <1>15 DEF RUnlock
  <2>2. Elements(slice[f]) = {}
    BY <2>1 DEF Elements
  <2>3. CASE q # f
    BY <1>15, <2>1, <2>3 DEF RUnlock
  <2>4. CASE q = f
    <3>1. pc'[q] = "counters"
      BY <1>15, <2>4 DEF RUnlock
    <3> QED
      BY <2>1, <2>2, <2>4, <3>1
  <2> QED
    BY <2>3, <2>4
<1>16. ASSUME NEW f \in Procs, Latch(f)
      PROVE  MadeOf(q, h)'
  <2>1. /\ pc[f] = "counters" /\ flushMu = f /\ MadeOf(q, h)
        /\ UNCHANGED <<gauges, value, made, inForce, slice, shown>>
    <3>1. pc[f] = "counters" /\ flushMu = f
      BY <1>16 DEF Latch
    <3>2. MadeOf(q, h)
      BY ONLY MadeOK DEF MadeOK
    <3>3. UNCHANGED <<gauges, value, made, inForce, slice, shown>>
      BY <1>16 DEF Latch
    <3> QED
      BY <3>1, <3>2, <3>3
  <2>2. CASE q # f
    <3>1. pc'[q] = pc[q] /\ todo'[q] = todo[q]
      BY <1>16, <2>2 DEF Latch
    <3> QED
      BY <2>1, <3>1
  <2>3. CASE q = f
    <3>1. pc'[q] \in {"counters", "send"}
      BY <1>16, <2>3 DEF Latch
    <3> QED
      BY <2>1, <2>3, <3>1
  <2> QED
    BY <2>2, <2>3
<1>17. ASSUME NEW f \in Procs, SendCounter(f)
      PROVE  MadeOf(q, h)'
  <2>1. pc[f] = "send" /\ flushMu = f
    BY <1>17 DEF SendCounter
  <2>2. MadeOf(q, h) /\ (q # f => pc[q] \notin InFlush)
    <3>1. MadeOf(q, h)
      BY ONLY MadeOK DEF MadeOK
    <3>2. q # f => pc[q] \notin InFlush
      BY ONLY <2>1, LocksOK DEF LocksOK
    <3> QED
      BY ONLY <3>1, <3>2
  <2>3. UNCHANGED <<gauges, value, made, inForce, slice, todo, shown>>
    BY <1>17 DEF SendCounter
  <2>4. pc' = [pc EXCEPT ![f] = "counters"]
    BY <1>17 DEF SendCounter
  <2>5. pc'[q] = IF q = f THEN "counters" ELSE pc[q]
    BY <2>4
  <2> QED
    BY <2>1, <2>2, <2>3, <2>5
<1>18. ASSUME NEW f \in Procs, RangeGauges(f)
      PROVE  MadeOf(q, h)'
  <2>1. /\ pc[f] = "counters" /\ flushMu = f /\ MadeOf(q, h)
        /\ UNCHANGED <<gauges, value, made, inForce, slice, shown>>
    BY <1>18 DEF RangeGauges
  <2>2. CASE q # f
    BY <1>18, <2>1, <2>2 DEF RangeGauges
  <2>3. CASE q = f
    <3>1. gauges[h] = <<h, Loop>> /\ <<h, Loop>> # None /\ h \in AllGauges
      BY Distinct
    <3>2. h \in {n \in AllGauges : gauges[n] # None}
      BY <3>1
    <3>3. pc'[q] = "gauges" /\ h \in todo'[q]
      BY <1>18, <2>3, <3>2 DEF RangeGauges
    <3> QED
      BY <2>1, <2>3, <3>3
  <2> QED
    BY <2>2, <2>3
<1>19. ASSUME NEW f \in Procs, SendGauge(f)
      PROVE  MadeOf(q, h)'
  <2>1. PICK n \in todo[f] :
          /\ todo' = [todo EXCEPT ![f] = @ \ {n}]
          /\ shown' = [shown EXCEPT ![n] = IF gauges[n] = None THEN @ ELSE value[gauges[n]]]
    BY <1>19 DEF SendGauge
  <2>2. /\ pc[f] = "gauges" /\ flushMu = f /\ MadeOf(q, h)
        /\ UNCHANGED <<pc, gauges, value, made, inForce, slice>>
    BY <1>19 DEF SendGauge
  <2>3. CASE q # f
    <3>1. pc[q] \notin InFlush
      BY <2>2, <2>3
    <3> QED
      BY <2>2, <3>1
  <2>4. CASE q = f
    <3>1. gauges[h] = <<h, Loop>> /\ gauges[h] # None /\ h \in AllGauges
      <4>1. gauges[h] = <<h, Loop>>
        OBVIOUS
      <4> QED
        BY <4>1, Distinct
    <3>2. h = n => shown'[h] = value[gauges[h]]
      BY <2>1, <3>1
    <3>3. h # n => shown'[h] = shown[h] /\ (h \in todo[f] => h \in todo'[f])
      BY <2>1
    <3> QED
      BY <2>2, <2>4, <3>2, <3>3
  <2> QED
    BY <2>3, <2>4
<1>20. ASSUME NEW f \in Procs, SinkFlush(f)
      PROVE  MadeOf(q, h)'
  BY <1>20 DEF SinkFlush
<1>21. ASSUME NEW f \in Procs, FlushReturn(f)
      PROVE  MadeOf(q, h)'
  BY <1>21 DEF FlushReturn
<1>22. CASE UNCHANGED vars
  BY <1>22 DEF vars
<1> QED
  BY <1>1, <1>2, <1>3, <1>4, <1>5, <1>6, <1>7, <1>8, <1>9, <1>10, <1>11,
     <1>12, <1>13, <1>14, <1>15, <1>16, <1>17, <1>18, <1>19, <1>20, <1>21,
     <1>22
     DEF Next, FlushStep, AddStep, GaugeStep

(* Every step keeps ShownOK.                                               *)
LEMMA ShownStep ==
  ASSUME TypeOK, LocksOK, HandsOK, GaugesOK, ShownOK,
         NEW q \in Procs, NEW m \in settled'[q], [Next]_vars
  PROVE  ShownOf(q, m)'
<1> USE LifecycleAssumption DEF TypeOK, LocksOK, HandsOK, GaugesOK, GaugeOf,
        ShownOK, ShownOf, AllGauges, Objects, InFlush, Flushing, Procs, Goto,
        locks, control, locals, sums, counts, registry, levels
<1>1. ASSUME Cancel
      PROVE  ShownOf(q, m)'
  BY <1>1 DEF Cancel
<1>2. ASSUME SelectTick
      PROVE  ShownOf(q, m)'
  BY <1>2 DEF SelectTick, CallFlush
<1>3. ASSUME SelectDone
      PROVE  ShownOf(q, m)'
  BY <1>3 DEF SelectDone, CallFlush
<1>4. ASSUME NEW u \in Users, UserFlush(u)
      PROVE  ShownOf(q, m)'
  BY <1>4 DEF UserFlush, CallFlush
<1>5. ASSUME NEW u \in Users, NEW g \in Generators, AddLock(u, g)
      PROVE  ShownOf(q, m)'
  BY <1>5 DEF AddLock, Calls, WriterFree
<1>6. ASSUME NEW u \in Users, AppendReads(u)
      PROVE  ShownOf(q, m)'
  BY <1>6 DEF AppendReads
<1>7. ASSUME NEW u \in Users, AppendStores(u)
      PROVE  ShownOf(q, m)'
  BY <1>7 DEF AppendStores
<1>8. ASSUME NEW u \in Users, NEW n \in Names, NEW k \in Amounts, Add(u, n, k)
      PROVE  ShownOf(q, m)'
  BY <1>8 DEF Add, Calls
<1>9. ASSUME NEW u \in Users, NEW n \in GaugeNames, LoadGauge(u, n)
      PROVE  ShownOf(q, m)'
  BY <1>9 DEF LoadGauge, Calls
<1>10. ASSUME NEW u \in Users, CreateGauge(u)
      PROVE  ShownOf(q, m)'
  BY <1>10 DEF CreateGauge, LoadOrStore
<1>11. ASSUME NEW u \in Users, WriteGauge(u)
      PROVE  ShownOf(q, m)'
  BY <1>11 DEF WriteGauge
<1>12. ASSUME NEW f \in Procs, FlushLock(f)
      PROVE  ShownOf(q, m)'
  BY <1>12 DEF FlushLock, FlushMuFree
<1>13. ASSUME NEW f \in Procs, RLock(f)
      PROVE  ShownOf(q, m)'
  BY <1>13 DEF RLock
<1>14. ASSUME NEW f \in Procs, Generate(f)
      PROVE  ShownOf(q, m)'
  BY <1>14 DEF Generate
<1>15. ASSUME NEW f \in Procs, RUnlock(f)
      PROVE  ShownOf(q, m)'
  BY <1>15 DEF RUnlock, Left
<1>16. ASSUME NEW f \in Procs, Latch(f)
      PROVE  ShownOf(q, m)'
  <2>1. UNCHANGED <<gauges, value, net, shown, settled>>
    BY <1>16 DEF Latch
  <2>2. pc[f] = "counters"
    BY <1>16 DEF Latch
  <2>3. CASE q = f
    <3>1. pc'[q] \in {"counters", "send"}
      BY <1>16, <2>2, <2>3 DEF Latch
    <3> QED
      BY <3>1
  <2>4. CASE q # f
    <3>1. pc'[q] = pc[q] /\ todo'[q] = todo[q]
      BY <1>16, <2>4 DEF Latch
    <3> QED
      BY <2>1, <3>1
  <2> QED
    BY <2>3, <2>4
<1>17. ASSUME NEW f \in Procs, SendCounter(f)
      PROVE  ShownOf(q, m)'
  BY <1>17 DEF SendCounter
<1>18. ASSUME NEW f \in Procs, RangeGauges(f)
      PROVE  ShownOf(q, m)'
  BY <1>18 DEF RangeGauges
<1>19. ASSUME NEW f \in Procs, SendGauge(f)
      PROVE  ShownOf(q, m)'
  <2>1. PICK n \in todo[f] :
          /\ todo' = [todo EXCEPT ![f] = @ \ {n}]
          /\ shown' = [shown EXCEPT ![n] = IF gauges[n] = None THEN @ ELSE value[gauges[n]]]
    BY <1>19 DEF SendGauge
  <2>2. pc[f] = "gauges" /\ UNCHANGED <<pc, net, settled, gauges, value>> /\ flushMu = f
    BY <1>19 DEF SendGauge
  <2>3. CASE q # f
    BY <2>2, <2>3
  <2>4. CASE q = f
    <3>1. m \in GaugeNames /\ gauges[m] # None /\ net[m] = value[gauges[m]]
      BY <2>2, <2>4
    <3>2. CASE m = n
      BY <2>1, <2>2, <2>4, <3>1, <3>2
    <3>3. CASE m # n
      BY <2>1, <2>2, <2>4, <3>1, <3>3
    <3> QED
      BY <3>2, <3>3
  <2> QED
    BY <2>3, <2>4
<1>20. ASSUME NEW f \in Procs, SinkFlush(f)
      PROVE  ShownOf(q, m)'
  BY <1>20 DEF SinkFlush
<1>21. ASSUME NEW f \in Procs, FlushReturn(f)
      PROVE  ShownOf(q, m)'
  BY <1>21 DEF FlushReturn
<1>22. CASE UNCHANGED vars
  BY <1>22 DEF vars
<1> QED
  BY <1>1, <1>2, <1>3, <1>4, <1>5, <1>6, <1>7, <1>8, <1>9, <1>10, <1>11,
     <1>12, <1>13, <1>14, <1>15, <1>16, <1>17, <1>18, <1>19, <1>20, <1>21,
     <1>22
     DEF Next, FlushStep, AddStep, GaugeStep

(* Every step keeps the invariant.                                          *)
LEMMA InvStep ==
  ASSUME IInv, [Next]_vars
  PROVE  IInv'
<1>1. TypeOK' /\ LocksOK' /\ HandsOK' /\ ExitOK' /\ RegistryOK' /\ GaugesOK'
  BY TypeStep, LocksStep, HandsStep, ExitStep, RegistryStep, GaugesStep DEF IInv
<1>2. SumsOK'
  BY SumsStep DEF IInv, SumsOK
<1>3. DueOK'
  BY DueStep DEF IInv, DueOK
<1>4. MadeOK'
  BY MadeStep DEF IInv, MadeOK
<1>5. ShownOK'
  BY ShownStep DEF IInv, ShownOK
<1>6. OnceOK' /\ RunsOK'
  BY OnceStep, RunsStep DEF IInv
<1> QED
  BY <1>1, <1>2, <1>3, <1>4, <1>5, <1>6 DEF IInv

(* It holds at first.                                                       *)
LEMMA InitInv == Init => IInv
<1> SUFFICES ASSUME Init PROVE IInv
  OBVIOUS
<1> USE LifecycleAssumption DEF Init, Procs, AllGauges
<1>1. /\ pc = [p \in Procs |-> IF p = Loop THEN "select" ELSE "idle"]
      /\ flushMu = None /\ readers = {} /\ writer = None
  OBVIOUS
<1>2. TypeOK
  <2>1. statGenerators \in Seq(Generators) /\ slice \in [Procs -> Seq(Generators)]
    OBVIOUS
  <2>2. gauges \in [AllGauges -> Objects \cup {None}]
    BY Distinct
  <2>3. 0 \in Word
    BY DEF Word
  <2>4. value \in [Objects -> Word] /\ net \in [AllGauges -> Word]
    BY ONLY Init, <2>3 DEF Init
  <2>5. shown \in [AllGauges -> Word \cup {None}]
    BY ONLY Init DEF Init
  <2>6. made \in [Procs -> [Generators -> Word \cup {None}]]
    BY ONLY Init DEF Init
  <2>7. /\ outstanding \in [Names -> Nat] /\ added \in [Names -> Nat]
        /\ reported \in [Names -> Nat] /\ flushed \in [Names -> Nat]
        /\ atCancel \in [Names -> Nat] /\ due \in [Procs -> [Names -> Nat]]
        /\ taken \in [Procs -> Nat] /\ calls \in 0 .. MaxCalls
    OBVIOUS
  <2>8. /\ pc \in [Procs -> Flushing \cup {"select", "done", "idle", "append", "store",
                                         "create", "write"}]
        /\ \A p \in Procs : pc[p] \in {"select", "done"} => p = Loop
        /\ pc[Loop] \in Flushing \cup {"select", "done"}
    BY <1>1 DEF Flushing
  <2>9. /\ todo \in [Procs -> SUBSET (Names \cup AllGauges)]
        /\ arg \in [Procs -> Objects \cup (Names \X Procs) \cup {None}]
        /\ joined \subseteq Generators /\ inForce \in [Procs -> SUBSET Generators]
        /\ settled \in [Procs -> SUBSET GaugeNames]
    OBVIOUS
  <2>10. cancelled \in BOOLEAN /\ exiting \in BOOLEAN
    OBVIOUS
  <2> HIDE DEF Init, Procs, AllGauges
  <2> QED
    BY <1>1, <2>1, <2>2, <2>4, <2>5, <2>6, <2>7, <2>8, <2>9, <2>10 DEF TypeOK
<1>3. LocksOK
  BY <1>1 DEF LocksOK, InFlush, Flushing
<1>4. HandsOK
  BY <1>1 DEF HandsOK
<1>5. SumsOK
  BY DEF SumsOK, SumOf, InTransit
<1>6. DueOK
  BY <1>1 DEF DueOK, DueOf
<1>7. ExitOK
  BY <1>1 DEF ExitOK, ExitSendsAll
<1>8. RegistryOK
  BY <1>1 DEF RegistryOK, Elements
<1>9. GaugesOK
  <2>1. \A n \in GaugeNames : GaugeOf(n)
    BY DEF GaugeOf, Objects
  <2> QED
    BY <1>1, <2>1 DEF GaugesOK
<1>10. MadeOK
  BY <1>1 DEF MadeOK, MadeOf, InFlush, Flushing
<1>11. ShownOK
  BY <1>1 DEF ShownOK, ShownOf
<1>12. OnceOK /\ RunsOK
  BY <1>1 DEF OnceOK, RunsOK, NoRepeats
<1> QED
  BY <1>2, <1>3, <1>4, <1>5, <1>6, <1>7, <1>8, <1>9, <1>10, <1>11, <1>12 DEF IInv

(* The invariant holds in every state of every behaviour of the store's     *)
(* flushes, users and generators.                                           *)
THEOREM Invariance == Spec => []IInv
<1>1. Init => IInv
  BY InitInv
<1>2. IInv /\ [Next]_vars => IInv'
  BY InvStep
<1> QED
  BY <1>1, <1>2, PTL DEF Spec

(* The variables have their types: no sum is ever negative, and a gauge     *)
(* stays within its word.                                                   *)
THEOREM TypeCorrect == Spec => []TypeOK
<1>1. IInv => TypeOK
  BY DEF IInv
<1> QED
  BY <1>1, Invariance, PTL

(* What was added before a Flush was called, and what its generators added, *)
(* has been sent and the sink flushed when it returns (stats.go, Flush).    *)
THEOREM FlushDeliversItsDue == Spec => []FlushSendsAll
<1>1. IInv => FlushSendsAll
  <2> SUFFICES ASSUME IInv, NEW p \in Procs, pc[p] = "sink", NEW n \in Names
               PROVE  flushed[n] >= due[p][n]
    BY DEF FlushSendsAll
  <2>1. DueOf(p, n) /\ TypeOK
    BY DEF IInv, DueOK
  <2>2. due[p][n] <= flushed[n]
    BY <2>1 DEF DueOf
  <2> QED
    BY <2>1, <2>2, Numbers
<1> QED
  BY <1>1, Invariance, PTL

(* What was added before the context was cancelled has reached the sink     *)
(* when StartContext returns, whoever else was flushing (stats.go,          *)
(* StartContext).                                                           *)
THEOREM ExitDeliversAll == Spec => []ExitSendsAll
<1>1. IInv => ExitSendsAll
  BY DEF IInv, ExitOK
<1> QED
  BY <1>1, Invariance, PTL

(* Every generator added before a Flush is called has run in it, once, and  *)
(* what is sent of its gauge is what it has just set (stats.go, Flush and   *)
(* AddStatGenerator).                                                       *)
THEOREM GeneratorsRunInEveryFlush == Spec => []GeneratorsSeen
<1>1. IInv => GeneratorsSeen
  <2> SUFFICES ASSUME IInv, NEW p \in Procs
               PROVE  /\ pc[p] = "sink" =>
                           \A g \in inForce[p] : made[p][g] # None /\ shown[g] = made[p][g]
                      /\ pc[p] = "generate" /\ slice[p] # <<>> =>
                           made[p][Head(slice[p])] = None
    BY DEF GeneratorsSeen
  <2>1. ASSUME pc[p] = "sink", NEW g \in inForce[p]
        PROVE  made[p][g] # None /\ shown[g] = made[p][g]
    <3>1. g \in Generators
      BY DEF IInv, TypeOK
    <3> QED
      BY <2>1, <3>1 DEF IInv, MadeOK, MadeOf
  <2>2. ASSUME pc[p] = "generate", slice[p] # <<>>
        PROVE  made[p][Head(slice[p])] = None
    <3>1. slice[p] \in Seq(Generators)
      BY DEF IInv, TypeOK
    <3>2. Head(slice[p]) \in Elements(slice[p])
      BY <2>2, <3>1 DEF Elements
    <3> QED
      BY <2>2, <3>2 DEF IInv, RunsOK
  <2> QED
    BY <2>1, <2>2
<1> QED
  BY <1>1, Invariance, PTL

(* A Flush sends of a gauge what the calls on it amount to, however its     *)
(* creation was raced for (stats.go, newGauge, Set, Add and Sub).           *)
THEOREM GaugesShownAsWritten == Spec => []GaugesShown
<1>1. IInv => GaugesShown
  BY DEF IInv, ShownOK, ShownOf, GaugesShown
<1> QED
  BY <1>1, Invariance, PTL

=============================================================================
