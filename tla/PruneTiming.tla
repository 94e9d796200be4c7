---------------------------- MODULE PruneTiming ----------------------------
(***************************************************************************)
(* From the environment to the time an idle counter survives.  Two          *)
(* variables of the environment give a number of flushes after which an     *)
(* idle counter is pruned (pruneAfterFlushesFromEnv); a ticker gives those  *)
(* flushes their length.  One counter is followed, second by second, from   *)
(* its creation: it is written to, flushed, pruned, and written to again.   *)
(*                                                                         *)
(* Integers are Go's: an int wraps around beyond MaxInt.                    *)
(***************************************************************************)
EXTENDS Integers

CONSTANTS
  PruneEnv, IntervalEnv,    \* what the two variables may hold: integers,
  Malformed, Unset,         \* what is not one, and nothing
  DefaultPruneIdleSeconds,
  DefaultFlushIntervalS,
  LoggingIntervalS,         \* the ticker of NewDefaultStore without statsd
  MaxInt, MaxUint32,
  Drivers,                  \* who calls Start: see Period
  MaxAge                    \* bound on the seconds counted

ASSUME TimingAssumption ==
  /\ PruneEnv \ {Malformed, Unset} \subseteq -MaxInt - 1 .. MaxInt
  /\ IntervalEnv \ {Malformed, Unset} \subseteq -MaxInt - 1 .. MaxInt
  /\ DefaultPruneIdleSeconds = 0
  /\ DefaultFlushIntervalS \in 1 .. MaxInt
  /\ LoggingIntervalS \in 1 .. MaxInt
  /\ MaxInt \in Nat /\ MaxUint32 \in 1 .. MaxInt
  /\ Drivers \subseteq {"own", "statsd", "logging"}
  /\ MaxAge \in Nat

-----------------------------------------------------------------------------
(* pruneAfterFlushesFromEnv.                                                *)

Wrap(n) == ((n + MaxInt + 1) % (2 * (MaxInt + 1))) - (MaxInt + 1)
Quotient(a, b) == IF a >= 0 THEN a \div b ELSE -((-a) \div b)

(* envInt: a value that is not an integer is an error.                      *)
EnvInt(v, default) == IF v = Unset THEN default ELSE v
IsError(v) == v = Malformed

PruneIdleSeconds(v) ==
  IF IsError(v) THEN 0 ELSE EnvInt(v, DefaultPruneIdleSeconds)

FlushIntervalS(v) ==
  IF IsError(v) \/ (EnvInt(v, DefaultFlushIntervalS) <= 0)
    THEN DefaultFlushIntervalS
    ELSE EnvInt(v, DefaultFlushIntervalS)

Floor(p, i) == Quotient(p, i)  \* mutated form of Ceil: rounds down
Ceil(p, i)  == Quotient(Wrap(p + i - 1), i)

Uint32(n) == n % (MaxUint32 + 1)

NoClamp(n) == n  \* mutated form of Clamp
Clamp(n)   == IF n > MaxUint32 THEN MaxUint32 ELSE n

PruneAfterFlushes(p, i) == IF p <= 0 THEN 0 ELSE Uint32(Clamp(Ceil(p, i)))

-----------------------------------------------------------------------------
VARIABLES
  prune, interval,   \* pruneIdleSeconds and flushIntervalS
  pruneAfterFlushes,
  period,            \* seconds between two ticks
  sinceFlush,        \* seconds since the last tick
  present,           \* whether the counter is in the store
  active,            \* whether it was written to since the last flush
  idleFlushes,
  written,           \* history: whether it was ever written to
  age                \* history: seconds since it was written to, or created

config == <<prune, interval, pruneAfterFlushes, period>>
vars == <<config, sinceFlush, present, active, idleFlushes, written, age>>

(* The ticker: the caller's own, at the configured interval; or that of     *)
(* NewDefaultStore, whose GetSettings panics over a malformed value and     *)
(* whose NewTicker panics over an interval that is not positive.            *)
Period(driver, i) == IF driver = "logging" THEN LoggingIntervalS ELSE i

Starts(driver, p, i) ==
  /\ driver # "own" => ~IsError(p) /\ ~IsError(i)
  /\ driver = "statsd" => EnvInt(i, DefaultFlushIntervalS) > 0

Init ==
  /\ \E p \in PruneEnv, i \in IntervalEnv, driver \in Drivers :
       /\ Starts(driver, p, i)
       /\ prune = PruneIdleSeconds(p)
       /\ interval = FlushIntervalS(i)
       /\ period = Period(driver, FlushIntervalS(i))
  /\ pruneAfterFlushes = PruneAfterFlushes(prune, interval)
  /\ sinceFlush \in 0 .. period
  /\ present = TRUE /\ active = FALSE /\ idleFlushes = 0
  /\ written = FALSE /\ age = 0

Older == IF age < MaxAge THEN age + 1 ELSE age

Second ==
  /\ sinceFlush < period
  /\ sinceFlush' = sinceFlush + 1
  /\ age' = IF present THEN Older ELSE age
  /\ UNCHANGED <<config, present, active, idleFlushes, written>>

(* A write that adds something; a pruned counter rejoins the store.         *)
Write ==
  /\ active' = TRUE
  /\ present' = TRUE
  /\ written' = TRUE
  /\ age' = 0
  /\ UNCHANGED <<config, sinceFlush, idleFlushes>>

(* The visit of Flush.                                                      *)
OneMore(k) == k <= pruneAfterFlushes  \* mutated form of Spared: off by one
Spared(k)  == k < pruneAfterFlushes

FlushActive ==
  /\ present /\ active
  /\ active' = FALSE
  /\ idleFlushes' = 0
  /\ UNCHANGED present

FlushIdle ==
  /\ present /\ ~active
  /\ pruneAfterFlushes > 0
  /\ idleFlushes' = idleFlushes + 1
  /\ present' = Spared(idleFlushes + 1)
  /\ UNCHANGED active

FlushNothing ==
  /\ ~present \/ (~active /\ pruneAfterFlushes = 0)
  /\ UNCHANGED <<active, idleFlushes, present>>

Flush ==
  /\ sinceFlush = period
  /\ sinceFlush' = 0
  /\ FlushActive \/ FlushIdle \/ FlushNothing
  /\ UNCHANGED <<config, written, age>>

Next == Second \/ Write \/ Flush

Spec == Init /\ [][Next]_vars

-----------------------------------------------------------------------------
(* Properties.                                                              *)

TypeOK ==
  /\ prune \in -MaxInt - 1 .. MaxInt
  /\ interval \in 1 .. MaxInt
  /\ period \in 1 .. MaxInt
  /\ pruneAfterFlushes \in 0 .. MaxUint32
  /\ sinceFlush \in 0 .. period
  /\ present \in BOOLEAN /\ active \in BOOLEAN /\ written \in BOOLEAN
  /\ idleFlushes \in 0 .. pruneAfterFlushes
  /\ age \in 0 .. MaxAge

Clamped == pruneAfterFlushes = MaxUint32

(* The number of flushes lasts at least the seconds asked for, and is not 0 *)
(* unless pruning is off (stats.go: "both operands >= 1, so n >= 1 always", *)
(* and "clamp: silently wrapping could turn "never prune" into "prune every *)
(* flush"").                                                                *)
RoundedUp ==
  prune > 0 => /\ pruneAfterFlushes >= 1
               /\ Clamped \/ pruneAfterFlushes * interval >= prune

(* A counter that was written to survives the seconds asked for since, in    *)
(* units of the ticker there is: with one of the configured interval these  *)
(* are seconds (stats.go: "an idle counter or timer always survives at      *)
(* least the requested number of seconds"), with another "that many of its  *)
(* own flushes".                                                            *)
SurvivesRequested ==
  written /\ ~present => age * interval >= prune * period \/ Clamped

(* The same, for a counter that was only created.                           *)
SurvivesFromCreation == ~present => age * interval >= prune * period \/ Clamped

(* The same in seconds, which a ticker faster than the interval does not    *)
(* give ("not after PruneIdleSeconds of wall time").                        *)
SurvivesSeconds == written /\ ~present => age >= prune \/ Clamped

(* An idle counter does not stay much longer: at most two periods more, of  *)
(* whatever ticker drives Flush.                                            *)
PrunedInTime == prune > 0 /\ present => age * interval < (prune + 2 * interval) * period

=============================================================================
