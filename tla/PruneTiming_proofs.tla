------------------------- MODULE PruneTiming_proofs -------------------------
(***************************************************************************)
(* Proofs about PruneTiming, for integers of every width and every setting. *)
(***************************************************************************)
EXTENDS PruneTiming, TLAPS

-----------------------------------------------------------------------------
(* Settings.                                                                *)

(* No sum of settings goes beyond MaxInt (PruneOverflow shows what happens   *)
(* when one does), and the ages that matter are counted, whoever calls      *)
(* Start.                                                                   *)
Integer(E)     == E \ {Malformed, Unset}
FlushIntervals == {DefaultFlushIntervalS} \cup {i \in Integer(IntervalEnv) : i > 0}
NoOverflow     == \A p \in Integer(PruneEnv), i \in FlushIntervals : p > 0 => p + i - 1 <= MaxInt
AgesCounted    ==
  \A p \in Integer(PruneEnv), i \in FlushIntervals :
    \A d \in {i, LoggingIntervalS} : p * d <= MaxAge * i

-----------------------------------------------------------------------------
(* Arithmetic.                                                              *)

LEMMA Division ==
  ASSUME NEW a \in Nat, NEW b \in Nat \ {0}
  PROVE  /\ a \div b \in Nat /\ a % b \in 0 .. b - 1
         /\ a = b * (a \div b) + (a % b)
         /\ a < b => a % b = a
<1>1. a \div b \in Nat /\ a % b \in 0 .. b - 1 /\ a = b * (a \div b) + (a % b)
  <2>1. a \div b \in Nat /\ a % b \in 0 .. b - 1
    OBVIOUS
  <2>2. a = b * (a \div b) + (a % b)
    OBVIOUS
  <2> QED
    BY <2>1, <2>2
<1>2. PICK q \in Nat, r \in 0 .. b - 1 : q = a \div b /\ r = a % b
  BY <1>1
<1>3. a = b * q + r
  BY <1>1, <1>2
<1>4. ASSUME a < b
      PROVE  q = 0
  <2>1. CASE q # 0
    <3>1. PICK k \in Nat : q = k + 1
      <4>1. q - 1 \in Nat /\ q = (q - 1) + 1
        BY <2>1
      <4> QED
        BY <4>1
    <3>2. b * q = b * k + b /\ b * k \in Nat
      BY <3>1
    <3> QED
      BY <1>3, <1>4, <3>2
  <2> QED
    BY <2>1
<1>5. a < b => a % b = a
  BY <1>2, <1>3, <1>4
<1> QED
  BY <1>1, <1>5

LEMMA Products ==
  ASSUME NEW k \in Nat, NEW m \in Nat, NEW d \in Nat
  PROVE  /\ k * d \in Nat /\ (k + 1) * d = k * d + d /\ 0 * d = 0
         /\ k <= m => k * d <= m * d
OBVIOUS

(* An age in periods of the ticker against the seconds asked for: k flushes *)
(* last at least as long in their own ticks as they were to last in         *)
(* seconds, and not much longer.                                            *)
LEMMA FlushesLast ==
  ASSUME NEW a \in Nat, NEW k \in Nat, NEW d \in Nat, NEW i \in Nat, NEW p \in Nat,
         a >= k * d, k * i >= p
  PROVE  a * i >= p * d
<1>1. k * d \in Nat /\ k * i \in Nat
  OBVIOUS
<1>2. (k * d) * i <= a * i
  BY <1>1, Products
<1>3. p * d <= (k * i) * d
  BY <1>1, Products
<1>4. (k * i) * d = (k * d) * i
  OBVIOUS
<1>5. /\ (k * d) * i \in Nat /\ a * i \in Nat /\ p * d \in Nat
  BY <1>1
<1> QED
  BY <1>2, <1>3, <1>4, <1>5

LEMMA FlushesEnd ==
  ASSUME NEW a \in Nat, NEW k \in Nat, NEW d \in Nat \ {0}, NEW i \in Nat \ {0}, NEW p \in Nat,
         a <= k * d + d, k * i <= p + i - 1
  PROVE  a * i < (p + 2 * i) * d
<1> DEFINE top == p + 2 * i - 1
<1>1. top \in Nat /\ k * i + i <= top /\ k * i + i \in Nat /\ k * d + d \in Nat
  OBVIOUS
<1>2. a * i <= (k * d + d) * i
  BY <1>1, Products
<1>3. (k * i + i) * d <= top * d
  BY <1>1, Products
<1>4. (k * d + d) * i = (k * i + i) * d
  OBVIOUS
<1>5. (top + 1) * d = top * d + d /\ top * d \in Nat
  <2> HIDE DEF top
  <2> QED
    BY <1>1, Products
<1>6. top + 1 = p + 2 * i
  OBVIOUS
<1>7. a * i \in Nat /\ (k * d + d) * i \in Nat
  BY <1>1
<1> HIDE DEF top
<1> QED
  BY <1>2, <1>3, <1>4, <1>5, <1>6, <1>7

(* The division is rounded up: the least number of flushes that lasts.      *)
LEMMA CeilRoundsUp ==
  ASSUME NEW p \in 1 .. MaxInt, NEW i \in 1 .. MaxInt, p + i - 1 <= MaxInt
  PROVE  LET n == Ceil(p, i)
         IN n \in Nat /\ n >= 1 /\ n * i >= p /\ n * i <= p + i - 1
<1>1. MaxInt \in Nat
  BY TimingAssumption
<1> DEFINE w == p + i - 1 + MaxInt + 1
           n == (p + i - 1) \div i
<1>2. w \in Nat /\ 2 * (MaxInt + 1) \in Nat \ {0} /\ w < 2 * (MaxInt + 1)
  BY <1>1
<1>3. w % (2 * (MaxInt + 1)) = w
  <2> HIDE DEF w
  <2> QED
    BY <1>2, Division
<1>4. Wrap(p + i - 1) = p + i - 1
  BY <1>1, <1>3 DEF Wrap
<1>5. Ceil(p, i) = n
  BY <1>1, <1>4 DEF Ceil, Quotient
<1>6. PICK a \in Nat, r \in 0 .. i - 1 : a = n /\ p + i - 1 = i * a + r
  <2>1. p + i - 1 \in Nat /\ i \in Nat \ {0}
    BY <1>1
  <2> QED
    BY <2>1, Division
<1>7. i * a = a * i /\ a * i \in Nat
  BY <1>1
<1>8. a * i >= p /\ a * i <= p + i - 1
  BY <1>1, <1>6, <1>7
<1>9. a >= 1
  <2>1. a = 0 => a * i = 0
    BY <1>1
  <2> QED
    BY <1>1, <1>8, <2>1
<1> QED
  BY <1>5, <1>6, <1>8, <1>9

-----------------------------------------------------------------------------
(* The threshold, which Init computes and no step changes.                  *)

ThresholdOK ==
  /\ interval \in Nat \ {0} /\ prune \in Int /\ pruneAfterFlushes \in 0 .. MaxUint32
  /\ RoundedUp
  /\ prune > 0 => pruneAfterFlushes * interval <= prune + interval - 1
  /\ prune <= 0 => pruneAfterFlushes = 0

LEMMA InitThreshold ==
  ASSUME NoOverflow, Init
  PROVE  ThresholdOK
<1>0. MaxInt \in Nat /\ MaxUint32 \in Nat /\ MaxUint32 >= 1
  BY TimingAssumption
<1>1. PICK p \in PruneEnv, i \in IntervalEnv :
        prune = PruneIdleSeconds(p) /\ interval = FlushIntervalS(i)
  BY DEF Init
<1>2. /\ prune \in Int /\ prune <= MaxInt
      /\ prune > 0 => prune \in Integer(PruneEnv)
  BY <1>1, TimingAssumption DEF PruneIdleSeconds, IsError, EnvInt, Integer
<1>3. interval \in 1 .. MaxInt /\ interval \in FlushIntervals
  BY <1>1, TimingAssumption DEF FlushIntervalS, IsError, EnvInt, Integer, FlushIntervals
<1>4. CASE prune <= 0
  BY <1>0, <1>2, <1>3, <1>4 DEF Init, PruneAfterFlushes, ThresholdOK, RoundedUp
<1>5. CASE prune > 0
  <2>1. prune \in 1 .. MaxInt /\ prune + interval - 1 <= MaxInt
    BY <1>2, <1>3, <1>5 DEF NoOverflow
  <2>2. PICK n \in Nat : /\ n = Ceil(prune, interval) /\ n >= 1
                         /\ n * interval >= prune /\ n * interval <= prune + interval - 1
    BY <1>3, <2>1, CeilRoundsUp
  <2>3. PICK c \in 1 .. MaxUint32 : c = Clamp(n) /\ c <= n /\ (c = n \/ c = MaxUint32)
    BY <1>0, <2>2 DEF Clamp
  <2>4. Uint32(c) = c
    <3>1. c \in Nat /\ MaxUint32 + 1 \in Nat \ {0} /\ c < MaxUint32 + 1
      BY <1>0
    <3> QED
      BY <3>1, Division DEF Uint32
  <2>5. pruneAfterFlushes = c
    BY <1>5, <1>2, <2>2, <2>3, <2>4 DEF Init, PruneAfterFlushes
  <2>6. c * interval <= n * interval /\ c * interval \in Nat
    BY <1>0, <1>3, <2>3, Products
  <2>7. c * interval <= prune + interval - 1
    BY <1>2, <1>3, <2>2, <2>6
  <2>8. c = MaxUint32 \/ c * interval >= prune
    BY <2>2, <2>3
  <2> QED
    BY <1>2, <1>3, <1>5, <2>3, <2>5, <2>7, <2>8 DEF ThresholdOK, RoundedUp, Clamped
<1> QED
  BY <1>2, <1>4, <1>5

LEMMA ThresholdKept ==
  ASSUME ThresholdOK, [Next]_vars
  PROVE  ThresholdOK'
<1>1. UNCHANGED config
  BY DEF Next, Second, Write, Flush, vars
<1> QED
  BY <1>1 DEF config, ThresholdOK, RoundedUp, Clamped

(* As long as no sum of settings overflows, the number of flushes lasts at  *)
(* least the seconds asked for, and pruning that is on stays on             *)
(* (pruneAfterFlushesFromEnv).                                              *)
THEOREM ThresholdIsEnough ==
  ASSUME NoOverflow
  PROVE  Spec => []RoundedUp
<1>1. Init => ThresholdOK
  BY InitThreshold
<1>2. ThresholdOK /\ [Next]_vars => ThresholdOK'
  BY ThresholdKept
<1>3. ThresholdOK => RoundedUp
  BY DEF ThresholdOK
<1> QED
  BY <1>1, <1>2, <1>3, PTL DEF Spec

-----------------------------------------------------------------------------
(* The life of a counter.                                                   *)

(* Between its last flush as an active counter and its pruning, an idle     *)
(* counter gets a period older at each flush, idleFlushes of them; the      *)
(* first may come less than a period after it was written to.               *)
LifeOK ==
  /\ period \in Nat \ {0} /\ prune * period <= MaxAge * interval
  /\ present \in BOOLEAN /\ active \in BOOLEAN /\ written \in BOOLEAN
  /\ sinceFlush \in 0 .. period /\ age \in 0 .. MaxAge
  /\ idleFlushes \in 0 .. pruneAfterFlushes
  /\ active => present /\ age <= sinceFlush
  /\ present /\ ~active /\ pruneAfterFlushes > 0 =>
       /\ idleFlushes < pruneAfterFlushes
       /\ age <= (idleFlushes + 1) * period + sinceFlush
  /\ present /\ ~active /\ written =>
       age >= idleFlushes * period + sinceFlush \/ age = MaxAge
  /\ SurvivesRequested

TInv == ThresholdOK /\ LifeOK

LEMMA InitLife ==
  ASSUME AgesCounted, NoOverflow, Init
  PROVE  TInv
<1>1. ThresholdOK
  BY InitThreshold
<1>2. PICK p \in PruneEnv, i \in IntervalEnv, driver \in Drivers :
        /\ prune = PruneIdleSeconds(p) /\ interval = FlushIntervalS(i)
        /\ period = Period(driver, FlushIntervalS(i))
  BY DEF Init
<1>3. /\ interval \in FlushIntervals /\ interval \in Nat \ {0}
      /\ period \in {interval, LoggingIntervalS} /\ period \in Nat \ {0}
  BY <1>2, TimingAssumption
     DEF Period, FlushIntervalS, IsError, EnvInt, Integer, FlushIntervals
<1>4. prune * period <= MaxAge * interval
  <2>1. prune \in Integer(PruneEnv) \/ prune = 0
    BY <1>2, TimingAssumption DEF PruneIdleSeconds, IsError, EnvInt, Integer
  <2>2. CASE prune = 0
    <3>1. prune * period = 0 /\ MaxAge * interval \in Nat
      BY <1>3, <2>2, TimingAssumption
    <3> QED
      BY <3>1
  <2>3. CASE prune \in Integer(PruneEnv)
    BY <1>3, <2>3 DEF AgesCounted
  <2> QED
    BY <2>1, <2>2, <2>3
<1>5. /\ present /\ ~active /\ ~written /\ idleFlushes = 0 /\ age = 0
      /\ sinceFlush \in 0 .. period
  BY DEF Init
<1>6. /\ period \in Nat \ {0} /\ MaxAge \in Nat /\ pruneAfterFlushes \in Nat
  BY <1>1, <1>3, TimingAssumption DEF ThresholdOK
<1>7. (idleFlushes + 1) * period = period
  BY <1>5, <1>6
<1>8. present \in BOOLEAN /\ active \in BOOLEAN /\ written \in BOOLEAN
  BY DEF Init
<1>9. LifeOK
  BY <1>3, <1>4, <1>5, <1>6, <1>7, <1>8 DEF LifeOK, SurvivesRequested
<1> QED
  BY <1>1, <1>9 DEF TInv

(* What the proofs about the steps use of the arithmetic.                   *)
LEMMA Ages ==
  ASSUME TInv
  PROVE  /\ MaxAge \in Nat /\ MaxUint32 \in Nat
         /\ period \in Nat \ {0} /\ interval \in Nat \ {0}
         /\ sinceFlush \in Nat /\ age \in Nat
         /\ idleFlushes \in Nat /\ pruneAfterFlushes \in Nat /\ prune \in Int
         /\ idleFlushes * period \in Nat /\ pruneAfterFlushes * period \in Nat
         /\ (idleFlushes + 1) * period = idleFlushes * period + period
         /\ (idleFlushes + 2) * period = idleFlushes * period + period + period
<1>1. /\ MaxAge \in Nat /\ MaxUint32 \in Nat
      /\ period \in Nat \ {0} /\ interval \in Nat \ {0}
      /\ sinceFlush \in Nat /\ age \in Nat
      /\ idleFlushes \in Nat /\ pruneAfterFlushes \in Nat /\ prune \in Int
  BY TimingAssumption DEF TInv, ThresholdOK, LifeOK
<1>2. PICK k \in Nat, d \in Nat : k = idleFlushes /\ d = period
  BY <1>1
<1>3. /\ k * d \in Nat /\ (k + 1) * d = k * d + d
      /\ (k + 2) * d = k * d + d + d
  OBVIOUS
<1>4. pruneAfterFlushes * period \in Nat
  BY <1>1
<1> QED
  BY <1>1, <1>2, <1>3, <1>4

LEMMA SecondStep ==
  ASSUME TInv, Second
  PROVE  LifeOK'
<1>1. /\ sinceFlush < period /\ sinceFlush' = sinceFlush + 1
      /\ age' = IF present THEN Older ELSE age
      /\ UNCHANGED <<prune, interval, pruneAfterFlushes, period, present, active,
                     idleFlushes, written>>
  BY DEF Second, config
<1>2. PICK lower, upper \in Nat : /\ lower = idleFlushes * period
                                  /\ upper = (idleFlushes + 1) * period
  BY Ages
<1> QED
  BY <1>1, <1>2, Ages DEF TInv, LifeOK, Older, SurvivesRequested, Clamped

LEMMA WriteStep ==
  ASSUME TInv, Write
  PROVE  LifeOK'
BY Ages DEF Write, config, TInv, LifeOK, SurvivesRequested, Clamped

LEMMA FlushStep ==
  ASSUME TInv, Flush
  PROVE  LifeOK'
<1>1. /\ sinceFlush = period /\ sinceFlush' = 0
      /\ UNCHANGED <<prune, interval, pruneAfterFlushes, period, written, age>>
  BY DEF Flush, config
<1>2. CASE FlushActive
  <2>1. idleFlushes' = 0 /\ present /\ active /\ active' = FALSE /\ UNCHANGED present
    BY <1>2 DEF FlushActive
  <2>2. (idleFlushes' + 1) * period' = period /\ idleFlushes' * period' = 0
    BY <1>1, <2>1, Ages
  <2>3. age <= period
    BY <1>1, <2>1 DEF TInv, LifeOK
  <2>4. SurvivesRequested'
    BY <2>1 DEF SurvivesRequested
  <2>5. /\ period' \in Nat \ {0} /\ prune' * period' <= MaxAge * interval'
        /\ present' \in BOOLEAN /\ active' \in BOOLEAN /\ written' \in BOOLEAN
        /\ age' \in 0 .. MaxAge
    BY <1>1, <2>1 DEF TInv, LifeOK
  <2>6. sinceFlush' \in 0 .. period' /\ idleFlushes' \in 0 .. pruneAfterFlushes'
    BY <1>1, <2>1, Ages
  <2> QED
    BY <1>1, <2>1, <2>2, <2>3, <2>4, <2>5, <2>6, Ages DEF LifeOK
<1>3. CASE FlushIdle
  <2>0. present' \in BOOLEAN
    BY <1>3 DEF FlushIdle, Spared
  <2>1. /\ present /\ ~active /\ pruneAfterFlushes > 0 /\ UNCHANGED active
        /\ idleFlushes' = idleFlushes + 1
        /\ (present' <=> idleFlushes + 1 < pruneAfterFlushes)
    BY <1>3 DEF FlushIdle, Spared
  <2>2. PICK k \in Nat, done \in Nat : /\ k = idleFlushes /\ done = idleFlushes * period
                                       /\ (k + 1) * period = done + period
                                       /\ (k + 2) * period = done + period + period
    BY Ages
  <2>3. /\ k < pruneAfterFlushes /\ age <= done + period + sinceFlush
        /\ written => age >= done + sinceFlush \/ age = MaxAge
    BY <2>1, <2>2 DEF TInv, LifeOK
  <2>4. idleFlushes' \in 0 .. pruneAfterFlushes
    BY <2>1, <2>2, <2>3, Ages
  <2>5. /\ age <= (idleFlushes' + 1) * period
        /\ written => age >= idleFlushes' * period \/ age = MaxAge
    <3>1. idleFlushes' = k + 1 /\ idleFlushes' + 1 = k + 2
      BY <2>1, <2>2
    <3>2. age <= done + period + period /\ (written => age >= done + period \/ age = MaxAge)
      BY <1>1, <2>3, Ages
    <3> QED
      BY <2>2, <3>1, <3>2
  <2>6. SurvivesRequested'
    <3> SUFFICES ASSUME written, ~present'
                 PROVE  age * interval >= prune * period \/ Clamped
      BY <1>1 DEF SurvivesRequested, Clamped
    <3>1. pruneAfterFlushes = k + 1
      BY <2>1, <2>2, <2>3, Ages
    <3>2. age >= pruneAfterFlushes * period \/ age = MaxAge
      BY <2>1, <2>2, <2>5, <3>1
    <3>3. prune > 0 /\ (Clamped \/ pruneAfterFlushes * interval >= prune)
      BY <2>1, Ages DEF TInv, ThresholdOK, RoundedUp
    <3>4. CASE age = MaxAge
      BY <3>4 DEF TInv, LifeOK
    <3>5. CASE Clamped
      BY <3>5
    <3>6. CASE age >= pruneAfterFlushes * period /\ ~Clamped
      BY <3>3, <3>6, Ages, FlushesLast
    <3> QED
      BY <3>2, <3>4, <3>5, <3>6
  <2>7. present' => idleFlushes' < pruneAfterFlushes
    BY <2>1
  <2>8. PICK upper, lower \in Nat : /\ upper = (idleFlushes' + 1) * period
                                    /\ lower = idleFlushes' * period
    BY <2>1, <2>2, Ages
  <2> QED
    BY <1>1, <2>0, <2>1, <2>4, <2>5, <2>6, <2>7, <2>8, Ages DEF TInv, LifeOK
<1>4. CASE FlushNothing
  <2>1. /\ ~present \/ (~active /\ pruneAfterFlushes = 0)
        /\ UNCHANGED <<active, idleFlushes, present>>
    BY <1>4 DEF FlushNothing
  <2>2. PICK lower \in Nat : lower = idleFlushes * period
    BY Ages
  <2> QED
    BY <1>1, <2>1, <2>2, Ages DEF TInv, LifeOK, SurvivesRequested, Clamped
<1> QED
  BY <1>2, <1>3, <1>4 DEF Flush

LEMMA LifeStep ==
  ASSUME TInv, [Next]_vars
  PROVE  TInv'
<1>1. ThresholdOK'
  BY ThresholdKept DEF TInv
<1>2. ASSUME UNCHANGED vars
      PROVE  LifeOK'
  BY <1>2 DEF vars, config, TInv, LifeOK, SurvivesRequested, Clamped
<1>3. LifeOK'
  BY <1>2, SecondStep, WriteStep, FlushStep DEF Next
<1> QED
  BY <1>1, <1>3 DEF TInv

(* The inductive invariant of an idle counter's life, for every ticker.     *)
THEOREM Invariance ==
  ASSUME AgesCounted, NoOverflow
  PROVE  Spec => []TInv
<1>1. Init => TInv
  BY InitLife
<1>2. TInv /\ [Next]_vars => TInv'
  BY LifeStep
<1> QED
  BY <1>1, <1>2, PTL DEF Spec

(* A counter that was written to is not pruned before the seconds asked for *)
(* have passed since, in units of the ticker there is, unless the threshold *)
(* is at its largest (pruneAfterFlushesFromEnv: it "always survives at      *)
(* least the requested number of seconds", and with another ticker "that    *)
(* many of its own flushes").                                               *)
THEOREM IdleCountersSurvive ==
  ASSUME AgesCounted, NoOverflow
  PROVE  Spec => []SurvivesRequested
<1>1. TInv => SurvivesRequested
  BY DEF TInv, LifeOK
<1> QED
  BY <1>1, Invariance, PTL

(* And it stays at most two periods longer (statStore.Flush).               *)
THEOREM IdleCountersGo ==
  ASSUME AgesCounted, NoOverflow
  PROVE  Spec => []PrunedInTime
<1>1. TInv => PrunedInTime
  <2> SUFFICES ASSUME TInv, prune > 0, present
               PROVE  age * interval < (prune + 2 * interval) * period
    BY DEF PrunedInTime
  <2>0. /\ pruneAfterFlushes >= 1 /\ pruneAfterFlushes * interval <= prune + interval - 1
        /\ sinceFlush <= period
    BY DEF TInv, ThresholdOK, LifeOK, RoundedUp
  <2>1. CASE active
    <3>1. age <= pruneAfterFlushes * period + period
      BY <2>1, Ages DEF TInv, LifeOK
    <3> QED
      BY <2>0, <3>1, Ages, FlushesEnd
  <2>2. CASE ~active
    <3>1. idleFlushes < pruneAfterFlushes /\ age <= (idleFlushes + 1) * period + sinceFlush
      BY <2>0, <2>2, Ages DEF TInv, LifeOK
    <3>2. (idleFlushes + 1) * period <= pruneAfterFlushes * period
      <4>1. idleFlushes + 1 \in Nat /\ idleFlushes + 1 <= pruneAfterFlushes
        BY <3>1, Ages
      <4> QED
        BY <4>1, Ages, Products
    <3>3. age <= pruneAfterFlushes * period + period
      BY <2>0, <3>1, <3>2, Ages
    <3> QED
      BY <2>0, <3>3, Ages, FlushesEnd
  <2> QED
    BY <2>1, <2>2, Ages DEF TInv, LifeOK
<1> QED
  BY <1>1, Invariance, PTL

=============================================================================
