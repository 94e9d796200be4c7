----------------------------- MODULE Lifecycle -----------------------------
(***************************************************************************)
(* When and in what order a store is flushed: StartContext with its ticker, *)
(* its context and its Flush on exit; users that call Flush themselves; the *)
(* stat generators behind the RWMutex mu; the gauges; and the sink's own    *)
(* Flush at the end of every Flush of the store.                            *)
(*                                                                         *)
(* Counters are what Ledger says of them, each by its name; a latch and the *)
(* call of sink.FlushCounter that follows it are two steps.  Generators do  *)
(* what that of runtime.go does: they write gauges and counters, and do not *)
(* call back into Flush or AddStatGenerator (see the comment of Store).     *)
(***************************************************************************)
EXTENDS Integers, SequencesExt

CONSTANTS
  Loop,        \* the goroutine in StartContext
  Users,       \* goroutines that use the store, and may call Flush as well
  Names,       \* names of counters
  GaugeNames,  \* names of gauges that users write
  Generators,  \* stat generators; each has a gauge of its own name
  Modulus,     \* 2^64
  Amounts,     \* arguments of Add and Sub, readings of a generator
  MaxCalls,    \* bound on the calls that write or register something
  None

Procs == Users \cup {Loop}
Word  == 0 .. Modulus - 1

(* A gauge object is known by its name and the goroutine that allocated it; *)
(* that of a generator is created before the generator is added.            *)
AllGauges == GaugeNames \cup Generators
Objects   == AllGauges \X Procs

ASSUME LifecycleAssumption ==
  /\ Loop \notin Users
  /\ Modulus \in Nat \ {0} /\ Amounts \subseteq Word
  /\ MaxCalls \in Nat
  /\ None \notin Procs \cup Word \cup Objects
  /\ GaugeNames \cap Generators = {}

VARIABLES
  flushMu,           \* owner of statStore.flushMu, or None
  readers, writer,   \* mu: who has the read lock; who has or awaits the write lock
  statGenerators,
  cancelled,         \* ctx is done
  exiting,           \* StartContext is in the Flush that precedes its return
  pc,                \* where each goroutine is
  slice, todo, arg,  \* locals: statGenerators as read; names still to visit; the
                     \* generator, counter or gauge object at hand
  taken,             \* local: what latch has returned
  outstanding,       \* per counter: added, and not latched by a Flush
  gauges, value,     \* statStore.gauges: the object of each name; their words
  calls,             \* number of bounded calls so far
  added, reported,   \* history: per counter, what was added and what was sent
  flushed,           \* history: what was sent before the sink's last Flush
  due, atCancel,     \* history: what each Flush must send; added when ctx was cancelled
  joined, inForce,   \* history: generators added; those added before each Flush
  made,              \* history: what each generator set in each Flush
  net, shown,        \* history: what a gauge should hold; what was sent of it last
  settled            \* history: gauges there when each Flush was called and not
                     \* written since

locks    == <<flushMu, readers, writer>>
control  == <<cancelled, exiting>>
locals   == <<slice, todo, arg, taken>>
sums     == <<added, reported, flushed>>
counts   == <<outstanding, sums, due, atCancel>>
registry == <<statGenerators, joined, inForce, made>>
levels   == <<gauges, value, net, shown, settled>>
vars == <<locks, control, pc, locals, counts, registry, levels, calls>>

Init ==
  /\ flushMu = None /\ readers = {} /\ writer = None
  /\ statGenerators = <<>>
  /\ cancelled = FALSE /\ exiting = FALSE
  /\ pc = [p \in Procs |-> IF p = Loop THEN "select" ELSE "idle"]
  /\ slice = [p \in Procs |-> <<>>] /\ todo = [p \in Procs |-> {}]
  /\ arg = [p \in Procs |-> None] /\ taken = [p \in Procs |-> 0]
  /\ outstanding = [n \in Names |-> 0]
  /\ gauges = [n \in AllGauges |-> IF n \in Generators THEN <<n, Loop>> ELSE None]
  /\ value = [o \in Objects |-> 0]
  /\ calls = 0
  /\ added = outstanding /\ reported = outstanding /\ flushed = outstanding
  /\ atCancel = outstanding
  /\ due = [p \in Procs |-> outstanding]
  /\ joined = {} /\ inForce = [p \in Procs |-> {}]
  /\ made = [p \in Procs |-> [g \in Generators |-> None]]
  /\ net = [n \in AllGauges |-> 0]
  /\ shown = [n \in AllGauges |-> None]
  /\ settled = [p \in Procs |-> {}]

Goto(p, label) == pc' = [pc EXCEPT ![p] = label]

(* A call of a user that writes or registers something.                     *)
Calls(u) == pc[u] = "idle" /\ calls < MaxCalls /\ calls' = calls + 1

-----------------------------------------------------------------------------
(* StartContext, its ticker and its context; Start is the case in which the *)
(* context is never done.                                                   *)

Cancel ==
  /\ ~cancelled
  /\ cancelled' = TRUE
  /\ atCancel' = added
  /\ UNCHANGED <<locks, exiting, pc, locals, outstanding, sums, due, registry,
                 levels, calls>>

(* The call of Flush: what it is expected to do is fixed here.              *)
CallFlush(p) ==
  /\ Goto(p, "flush")
  /\ due' = [due EXCEPT ![p] = added]
  /\ inForce' = [inForce EXCEPT ![p] = joined]
  /\ settled' = [settled EXCEPT ![p] = {n \in GaugeNames : gauges[n] # None}]
  /\ UNCHANGED <<locks, cancelled, locals, outstanding, sums, atCancel, statGenerators,
                 joined, made, gauges, value, net, shown, calls>>

(* The ticker's channel holds one tick, which may have come at any time.    *)
SelectTick ==
  /\ pc[Loop] = "select"
  /\ CallFlush(Loop)
  /\ UNCHANGED exiting

(* Mutated form of SelectDone: a Flush under way is taken for the last one. *)
SkipsWhenBusy ==
  /\ pc[Loop] = "select" /\ cancelled
  /\ exiting' = TRUE
  /\ IF flushMu = None
       THEN CallFlush(Loop)
       ELSE /\ Goto(Loop, "done")
            /\ UNCHANGED <<locks, cancelled, locals, counts, registry, levels, calls>>

SelectDone ==
  /\ pc[Loop] = "select" /\ cancelled
  /\ exiting' = TRUE
  /\ CallFlush(Loop)

UserFlush(u) ==
  /\ pc[u] = "idle"
  /\ CallFlush(u)
  /\ UNCHANGED exiting

-----------------------------------------------------------------------------
(* AddStatGenerator.  Lock holds off other writers and new readers, then    *)
(* waits for the reader inside; append reads the slice and stores it.       *)

AnyTime(u) == TRUE  \* mutated form of WriterFree

WriterFree(u) == writer = None

AddLock(u, g) ==
  /\ Calls(u) /\ WriterFree(u)
  /\ \A p \in Users : arg[p] # <<g, Loop>>
  /\ g \notin joined
  /\ writer' = u
  /\ arg' = [arg EXCEPT ![u] = <<g, Loop>>]
  /\ Goto(u, "append")
  /\ UNCHANGED <<flushMu, readers, control, slice, todo, taken, counts, registry, levels>>

AppendReads(u) ==
  /\ pc[u] = "append" /\ readers = {}
  /\ slice' = [slice EXCEPT ![u] = statGenerators]
  /\ Goto(u, "store")
  /\ UNCHANGED <<locks, control, todo, arg, taken, counts, registry, levels, calls>>

AppendStores(u) ==
  /\ pc[u] = "store"
  /\ statGenerators' = Append(slice[u], arg[u][1])
  /\ joined' = joined \cup {arg[u][1]}
  /\ slice' = [slice EXCEPT ![u] = <<>>]
  /\ arg' = [arg EXCEPT ![u] = None]
  /\ writer' = None
  /\ Goto(u, "idle")
  /\ UNCHANGED <<flushMu, readers, control, todo, taken, counts, inForce, made, levels,
                 calls>>

-----------------------------------------------------------------------------
(* Counters and gauges in the hands of users.                               *)

Add(u, n, k) ==
  /\ Calls(u)
  /\ outstanding' = [outstanding EXCEPT ![n] = @ + k]
  /\ added' = [added EXCEPT ![n] = @ + k]
  /\ UNCHANGED <<locks, control, pc, locals, reported, flushed, due, atCancel, registry,
                 levels>>

(* newGauge: Load, then on a miss LoadOrStore of an object of one's own.    *)
LoadGauge(u, n) ==
  /\ Calls(u)
  /\ arg' = [arg EXCEPT ![u] = IF gauges[n] = None THEN <<n, u>> ELSE gauges[n]]
  /\ Goto(u, IF gauges[n] = None THEN "create" ELSE "write")
  /\ UNCHANGED <<locks, control, slice, todo, taken, counts, registry, levels>>

PlainStore(o) == o  \* mutated form of LoadOrStore

LoadOrStore(o) == IF gauges[o[1]] = None THEN o ELSE gauges[o[1]]

CreateGauge(u) ==
  /\ pc[u] = "create"
  /\ gauges' = [gauges EXCEPT ![arg[u][1]] = LoadOrStore(arg[u])]
  /\ arg' = [arg EXCEPT ![u] = LoadOrStore(arg[u])]
  /\ Goto(u, "write")
  /\ UNCHANGED <<locks, control, slice, todo, taken, counts, registry, value, net, shown,
                 settled, calls>>

(* Set, Add, and Sub, which adds the complement of k - 1 in uint64.         *)
ComplementOf(k) == Modulus - 1 - k  \* mutated form of Negative

Plus(a, b)  == (a + b) % Modulus
Negative(k) == Modulus - 1 - ((k - 1) % Modulus)

WriteGauge(u) ==
  LET o == arg[u]
      n == o[1]
  IN /\ pc[u] = "write"
     /\ \E k \in Amounts :
          \/ /\ value' = [value EXCEPT ![o] = k]
             /\ net' = [net EXCEPT ![n] = k]
          \/ /\ value' = [value EXCEPT ![o] = Plus(@, k)]
             /\ net' = [net EXCEPT ![n] = (@ + k) % Modulus]
          \/ /\ value' = [value EXCEPT ![o] = Plus(@, Negative(k))]
             /\ net' = [net EXCEPT ![n] = (@ - k) % Modulus]
     /\ settled' = [p \in Procs |-> settled[p] \ {n}]
     /\ arg' = [arg EXCEPT ![u] = None]
     /\ Goto(u, "idle")
     /\ UNCHANGED <<locks, control, slice, todo, taken, counts, registry, gauges, shown,
                    calls>>

-----------------------------------------------------------------------------
(* Flush.                                                                   *)

NoFlushMu == TRUE  \* mutated form of FlushMuFree

FlushMuFree == flushMu = None

FlushLock(f) ==
  /\ pc[f] = "flush" /\ FlushMuFree
  /\ flushMu' = f
  /\ Goto(f, "rlock")
  /\ UNCHANGED <<readers, writer, control, locals, counts, registry, levels, calls>>

(* The range loop evaluates statGenerators once, under the read lock, which *)
(* a writer that waits holds off.                                           *)
RLock(f) ==
  /\ pc[f] = "rlock" /\ writer = None
  /\ readers' = readers \cup {f}
  /\ slice' = [slice EXCEPT ![f] = statGenerators]
  /\ Goto(f, "generate")
  /\ UNCHANGED <<flushMu, writer, control, todo, arg, taken, counts, registry, levels, calls>>

(* GenerateStats: a gauge is set to a fresh reading, a counter may grow.    *)
Generate(f) ==
  LET g == Head(slice[f])
  IN /\ pc[f] = "generate" /\ slice[f] # <<>>
     /\ slice' = [slice EXCEPT ![f] = Tail(@)]
     /\ \E k \in Amounts :
          /\ value' = [value EXCEPT ![gauges[g]] = k]
          /\ made' = [made EXCEPT ![f][g] = k]
     /\ \/ UNCHANGED <<outstanding, added, due, calls>>
        \/ \E n \in Names :
             /\ calls < MaxCalls /\ calls' = calls + 1
             /\ outstanding' = [outstanding EXCEPT ![n] = @ + 1]
             /\ added' = [added EXCEPT ![n] = @ + 1]
             /\ due' = [due EXCEPT ![f][n] = added[n] + 1]
     /\ UNCHANGED <<locks, control, pc, todo, arg, taken, reported, flushed, atCancel,
                    statGenerators, joined, inForce, gauges, net, shown, settled>>

StaysReading(f) == readers  \* mutated form of Left: an exit without RUnlock

Left(f) == readers \ {f}

(* RUnlock; counters.Range visits the counters there are, and may meet one  *)
(* that is created while it runs.                                           *)
RUnlock(f) ==
  /\ pc[f] = "generate" /\ slice[f] = <<>>
  /\ readers' = Left(f)
  /\ \E late \in SUBSET {n \in Names : added[n] = 0} :
       todo' = [todo EXCEPT ![f] = {n \in Names : added[n] > 0} \cup late]
  /\ Goto(f, "counters")
  /\ UNCHANGED <<flushMu, writer, control, slice, arg, taken, counts, registry, levels, calls>>

Latch(f) ==
  /\ pc[f] = "counters"
  /\ \E n \in todo[f] :
       /\ todo' = [todo EXCEPT ![f] = @ \ {n}]
       /\ IF outstanding[n] = 0
            THEN UNCHANGED <<pc, arg, taken, outstanding>>
            ELSE /\ taken' = [taken EXCEPT ![f] = outstanding[n]]
                 /\ outstanding' = [outstanding EXCEPT ![n] = 0]
                 /\ arg' = [arg EXCEPT ![f] = <<n, f>>]
                 /\ Goto(f, "send")
  /\ UNCHANGED <<locks, control, slice, sums, due, atCancel, registry, levels, calls>>

SendCounter(f) ==
  /\ pc[f] = "send"
  /\ reported' = [reported EXCEPT ![arg[f][1]] = @ + taken[f]]
  /\ taken' = [taken EXCEPT ![f] = 0]
  /\ arg' = [arg EXCEPT ![f] = None]
  /\ Goto(f, "counters")
  /\ UNCHANGED <<locks, control, slice, todo, outstanding, added, flushed, due, atCancel,
                 registry, levels, calls>>

(* gauges.Range.                                                            *)
RangeGauges(f) ==
  LET present == {n \in AllGauges : gauges[n] # None}
  IN /\ pc[f] = "counters" /\ todo[f] = {}
     /\ \E late \in SUBSET (AllGauges \ present) :
          todo' = [todo EXCEPT ![f] = present \cup late]
     /\ Goto(f, "gauges")
     /\ UNCHANGED <<locks, control, slice, arg, taken, counts, registry, levels, calls>>

SendGauge(f) ==
  /\ pc[f] = "gauges"
  /\ \E n \in todo[f] :
       /\ todo' = [todo EXCEPT ![f] = @ \ {n}]
       /\ shown' = [shown EXCEPT ![n] = IF gauges[n] = None THEN @ ELSE value[gauges[n]]]
  /\ UNCHANGED <<locks, control, pc, slice, arg, taken, counts, registry, gauges, value, net,
                 settled, calls>>

(* The sink's Flush may take its time; then Flush returns.                  *)
SinkFlush(f) ==
  /\ pc[f] = "gauges" /\ todo[f] = {}
  /\ flushed' = reported
  /\ Goto(f, "sink")
  /\ UNCHANGED <<locks, control, locals, outstanding, added, reported, due, atCancel,
                 registry, levels, calls>>

FlushReturn(f) ==
  /\ pc[f] = "sink"
  /\ flushMu' = None
  /\ Goto(f, IF f # Loop THEN "idle" ELSE IF exiting THEN "done" ELSE "select")
  /\ due' = [due EXCEPT ![f] = [n \in Names |-> 0]]
  /\ inForce' = [inForce EXCEPT ![f] = {}]
  /\ made' = [made EXCEPT ![f] = [g \in Generators |-> None]]
  /\ settled' = [settled EXCEPT ![f] = {}]
  /\ UNCHANGED <<readers, writer, control, locals, outstanding, sums, atCancel,
                 statGenerators, joined, gauges, value, net, shown, calls>>

-----------------------------------------------------------------------------
FlushStep(p) == \/ FlushLock(p) \/ RLock(p) \/ Generate(p) \/ RUnlock(p) \/ Latch(p)
                \/ SendCounter(p) \/ RangeGauges(p) \/ SendGauge(p) \/ SinkFlush(p)
                \/ FlushReturn(p)

AddStep(u)   == (\E g \in Generators : AddLock(u, g)) \/ AppendReads(u) \/ AppendStores(u)
GaugeStep(u) == (\E n \in GaugeNames : LoadGauge(u, n)) \/ CreateGauge(u) \/ WriteGauge(u)

Next == \/ Cancel \/ SelectTick \/ SelectDone
        \/ \E p \in Procs : FlushStep(p)
        \/ \E u \in Users : \/ UserFlush(u) \/ AddStep(u) \/ GaugeStep(u)
                            \/ \E n \in Names, k \in Amounts : Add(u, n, k)

Spec == Init /\ [][Next]_vars

-----------------------------------------------------------------------------
(* Properties.                                                              *)

Flushing == {"flush", "rlock", "generate", "counters", "send", "gauges", "sink"}

TypeOK ==
  /\ flushMu \in Procs \cup {None} /\ readers \subseteq Procs /\ writer \in Users \cup {None}
  /\ statGenerators \in Seq(Generators)
  /\ cancelled \in BOOLEAN /\ exiting \in BOOLEAN
  /\ pc \in [Procs -> Flushing \cup {"select", "done", "idle", "append", "store", "create",
                                     "write"}]
  /\ \A p \in Procs : pc[p] \in {"select", "done"} => p = Loop
  /\ pc[Loop] \in Flushing \cup {"select", "done"}
  /\ slice \in [Procs -> Seq(Generators)]
  /\ todo \in [Procs -> SUBSET (Names \cup AllGauges)]
  /\ arg \in [Procs -> Objects \cup (Names \X Procs) \cup {None}]
  /\ taken \in [Procs -> Nat] /\ outstanding \in [Names -> Nat]
  /\ gauges \in [AllGauges -> Objects \cup {None}] /\ value \in [Objects -> Word]
  /\ calls \in 0 .. MaxCalls
  /\ added \in [Names -> Nat] /\ reported \in [Names -> Nat]
  /\ flushed \in [Names -> Nat] /\ atCancel \in [Names -> Nat]
  /\ due \in [Procs -> [Names -> Nat]]
  /\ joined \subseteq Generators /\ inForce \in [Procs -> SUBSET Generators]
  /\ made \in [Procs -> [Generators -> Word \cup {None}]]
  /\ net \in [AllGauges -> Word] /\ shown \in [AllGauges -> Word \cup {None}]
  /\ settled \in [Procs -> SUBSET GaugeNames]

(* When a Flush returns, what was added before it was called, and what its  *)
(* own generators added, has been sent to the sink and the sink flushed,    *)
(* even if it was another Flush that had latched it.                        *)
FlushSendsAll ==
  \A p \in Procs : pc[p] = "sink" => \A n \in Names : flushed[n] >= due[p][n]

(* "If the passed-in context is cancelled, then this call exits. Flush will *)
(* be called on exit" (stats.go, StartContext): what was added before the   *)
(* context was cancelled has reached the sink when StartContext returns.    *)
ExitSendsAll == pc[Loop] = "done" => \A n \in Names : flushed[n] >= atCancel[n]

(* "Whenever the store is flushed, the store will call GenerateStats() on   *)
(* all of its stat generators" (stats.go, Store): every generator added     *)
(* before a Flush is called runs in it, and what goes to the sink is what   *)
(* it has just set; none runs twice in one Flush.                           *)
GeneratorsSeen ==
  \A p \in Procs :
    /\ pc[p] = "sink" =>
         \A g \in inForce[p] : made[p][g] # None /\ shown[g] = made[p][g]
    /\ pc[p] = "generate" /\ slice[p] # <<>> => made[p][Head(slice[p])] = None

(* However many goroutines race to create a gauge and write to it, the next *)
(* Flush sends what their calls amount to: they share one object, nothing   *)
(* is lost in it, and Sub, which adds in uint64, takes away what Add adds.  *)
GaugesShown ==
  \A p \in Procs : pc[p] = "sink" =>
    \A n \in settled[p] : shown[n] = net[n]

(* flushMu, the read lock and a writer waiting for mu never make a circle:  *)
(* whoever holds one of them can go on, or waits for someone who can.       *)
Appends(u) == AppendReads(u) \/ AppendStores(u)

NoCircularWait ==
  /\ writer # None => \/ ENABLED Appends(writer)
                      \/ \E p \in readers : ENABLED FlushStep(p)
  /\ flushMu # None => \/ ENABLED FlushStep(flushMu)
                       \/ writer # None /\ ENABLED Appends(writer)

=============================================================================
