---------------------------- MODULE CounterStore ----------------------------
(***************************************************************************)
(* The lock-free counters of stats.go: the sync.Map of a statStore, the    *)
(* counter objects it points to and the references user code keeps to them. *)
(* Writers look counters up, Add to them and Set them at any moment;        *)
(* Flush, serialised by flushMu, latches every counter, reports what is new *)
(* to the sink, prunes the counters that stayed idle, and a write to a      *)
(* pruned counter reattaches it or forwards its value.                      *)
(*                                                                         *)
(* Every atomic operation of the code (an atomic load, store, add or CAS, a *)
(* sync.Map call, a lock) is a step of its own.  A local computation, or a  *)
(* store to a field only Flush reads, belongs to the step before it.        *)
(***************************************************************************)
EXTENDS Integers, FiniteSetsExt

CONSTANTS
  Writers,     \* goroutines that look counters up and write to them
  Flushers,    \* goroutines that call Store.Flush
  Names,       \* serialized stat names
  Counters,    \* the counter objects that can ever be allocated (a bound)
  NameOf,      \* the name an object is created under
  PruneAfter,  \* pruneAfterFlushes: 0 disables pruning
  Modulus,     \* 2^64: the values a uint64 can hold
  Deltas,      \* arguments of Add
  SetValues,   \* arguments of Set
  MaxWrites,   \* bound on the number of Add and Set calls
  None         \* no object: a nil pointer, an absent key, an unlocked mutex

Procs == Writers \cup Flushers
Word  == 0 .. Modulus - 1

ASSUME ConstantsAssumption ==
  /\ Writers \cap Flushers = {}
  /\ NameOf \in [Counters -> Names]
  /\ PruneAfter \in Nat
  /\ Modulus \in Nat \ {0}
  /\ Deltas \subseteq Word
  /\ SetValues \subseteq Word
  /\ MaxWrites \in Nat
  /\ None \notin Counters \cup Flushers

(* Addition and subtraction of Go's uint64. *)
SignedMinus(a, b) == a - b  \* mutated form of Minus: a signed delta

Plus(a, b)  == IF a + b < Modulus THEN a + b ELSE a + b - Modulus
Minus(a, b) == IF b <= a THEN a - b ELSE a - b + Modulus

VARIABLES
  counters,       \* statStore.counters: the occupant of each name, or None
  currentValue, lastSentValue, idleFlushes, detached,  \* fields of counter
  held,           \* objects some lookup has returned: a write may come any time
  flushMu,        \* owner of statStore.flushMu, or None
  todo,           \* names the counters.Range of a flusher still visits
  pc, frame,      \* where each goroutine is, and its local variables
  writes,         \* number of Add and Set calls so far
  added,          \* history: what was written under each name
  reported,       \* history: what the sink received for each name
  quiet           \* history: visits of a counter by Flush that found nothing
                  \* to report since it last had something, up to PruneAfter

objects == <<currentValue, lastSentValue, idleFlushes, detached>>
history == <<added, reported, quiet>>
vars == <<counters, objects, held, flushMu, todo, pc, frame, writes, history>>

(* The program counters.  "check" is maybeRejoin; "load", "loadLast" and    *)
(* "cas" are the statements of latch; "visit", "recheck" and "fold" are the *)
(* places where its result is used: the two calls in Flush, and rejoin.     *)
LatchSteps == {"load", "loadLast", "cas"}
LatchUses  == {"visit", "recheck", "fold"}
PCs == {"idle", "create", "check", "rejoin", "range", "delete", "detach"}
         \cup LatchSteps \cup LatchUses

(* Local variables: the receiver, the object rejoin forwards to, what latch *)
(* has read, and which of its callers latch returns to.                     *)
Frames == [obj : Counters \cup {None}, other : Counters \cup {None},
           value : Word, last : Word, ret : LatchUses \cup {"none"}]
NoFrame == [obj |-> None, other |-> None, value |-> 0, last |-> 0, ret |-> "none"]

Init ==
  /\ counters = [n \in Names |-> None]
  /\ currentValue = [c \in Counters |-> 0]
  /\ lastSentValue = [c \in Counters |-> 0]
  /\ idleFlushes = [c \in Counters |-> 0]
  /\ detached = [c \in Counters |-> FALSE]
  /\ held = {}
  /\ flushMu = None
  /\ todo = [f \in Flushers |-> {}]
  /\ pc = [p \in Procs |-> "idle"]
  /\ frame = [p \in Procs |-> NoFrame]
  /\ writes = 0
  /\ added = [n \in Names |-> 0]
  /\ reported = [n \in Names |-> 0]
  /\ quiet = [c \in Counters |-> 0]

Goto(p, label) == pc' = [pc EXCEPT ![p] = label]

(* The end of a call: a writer is back in user code, a flusher in its Range. *)
Return(p) ==
  /\ Goto(p, IF p \in Flushers THEN "range" ELSE "idle")
  /\ frame' = [frame EXCEPT ![p] = NoFrame]

-----------------------------------------------------------------------------
(* newCounter: a Load that hits returns the occupant; one that misses is    *)
(* followed by the allocation of an object nobody else refers to.           *)

Allocated(c) == c \in held \/ \E p \in Procs : pc[p] = "create" /\ frame[p].obj = c

LookupHit(w, n) ==
  /\ pc[w] = "idle"
  /\ counters[n] # None
  /\ held' = held \cup {counters[n]}
  /\ UNCHANGED <<counters, objects, flushMu, todo, pc, frame, writes, history>>

LookupMiss(w, n) ==
  /\ pc[w] = "idle"
  /\ counters[n] = None
  /\ \E c \in Counters :
       /\ NameOf[c] = n
       /\ ~Allocated(c)
       /\ frame' = [frame EXCEPT ![w].obj = c]
  /\ Goto(w, "create")
  /\ UNCHANGED <<counters, objects, held, flushMu, todo, writes, history>>

PlainStore(n, c) == c  \* mutated form of LoadOrStore: the last creator wins

(* LoadOrStore: the loser of the race to create n returns the winner's.     *)
LoadOrStore(n, c) == IF counters[n] = None THEN c ELSE counters[n]

Create(w) ==
  LET c == frame[w].obj
      n == NameOf[c]
      winner == LoadOrStore(n, c)
  IN /\ pc[w] = "create"
     /\ counters' = [counters EXCEPT ![n] = winner]
     /\ held' = held \cup {winner}
     /\ Return(w)
     /\ UNCHANGED <<objects, flushMu, todo, writes, history>>

-----------------------------------------------------------------------------
(* Writes to a counter somebody holds, then maybeRejoin.                    *)

WriteValue(w, c, v) ==
  /\ pc[w] = "idle"
  /\ c \in held
  /\ writes < MaxWrites
  /\ writes' = writes + 1
  /\ currentValue' = [currentValue EXCEPT ![c] = v]
  /\ frame' = [frame EXCEPT ![w].obj = c]
  /\ Goto(w, "check")
  /\ UNCHANGED <<counters, lastSentValue, idleFlushes, detached, held,
                 flushMu, todo, reported, quiet>>

Add(w, c, d) ==
  /\ WriteValue(w, c, Plus(currentValue[c], d))
  /\ added' = [added EXCEPT ![NameOf[c]] = @ + d]

Set(w, c, v) ==
  /\ WriteValue(w, c, v)
  /\ added' = [added EXCEPT ![NameOf[c]] = @ + v - currentValue[c]]

NeverRejoins(c) == FALSE  \* mutated form of NeedsRejoin

(* c.store is nil when the store does not prune: nothing to rejoin.         *)
NeedsRejoin(c) == PruneAfter > 0 /\ detached[c]

MaybeRejoin(p) ==
  /\ pc[p] = "check"
  /\ IF NeedsRejoin(frame[p].obj)
       THEN Goto(p, "rejoin") /\ UNCHANGED frame
       ELSE Return(p)
  /\ UNCHANGED <<counters, objects, held, flushMu, todo, writes, history>>

(* rejoin: LoadOrStore attaches the counter, or finds it attached already,  *)
(* and is done; or it finds that another counter has taken the name, and    *)
(* latches its own delta to forward it.  detached is never cleared here.    *)
RejoinAttach(p) ==
  LET c == frame[p].obj
  IN /\ pc[p] = "rejoin"
     /\ counters[NameOf[c]] \in {None, c}
     /\ counters' = [counters EXCEPT ![NameOf[c]] = c]
     /\ Return(p)
     /\ UNCHANGED <<objects, held, flushMu, todo, writes, history>>

(* Mutated form of RejoinOther: rejoin clears detached though c stays out.  *)
RejoinClearing(p) ==
  LET other == counters[NameOf[frame[p].obj]]
  IN /\ pc[p] = "rejoin"
     /\ other \notin {None, frame[p].obj}
     /\ frame' = [frame EXCEPT ![p].other = other, ![p].ret = "fold"]
     /\ detached' = [detached EXCEPT ![frame[p].obj] = FALSE]
     /\ Goto(p, "load")
     /\ UNCHANGED <<counters, currentValue, lastSentValue, idleFlushes, held,
                    flushMu, todo, writes, history>>

RejoinOther(p) ==
  LET other == counters[NameOf[frame[p].obj]]
  IN /\ pc[p] = "rejoin"
     /\ other \notin {None, frame[p].obj}
     /\ frame' = [frame EXCEPT ![p].other = other, ![p].ret = "fold"]
     /\ Goto(p, "load")
     /\ UNCHANGED <<counters, objects, held, flushMu, todo, writes, history>>

-----------------------------------------------------------------------------
(* latch: two loads, then a CAS that must find lastSentValue unchanged.     *)

LatchLoad(p) ==
  /\ pc[p] = "load"
  /\ frame' = [frame EXCEPT ![p].value = currentValue[frame[p].obj]]
  /\ Goto(p, "loadLast")
  /\ UNCHANGED <<counters, objects, held, flushMu, todo, writes, history>>

LatchLoadLast(p) ==
  LET last == lastSentValue[frame[p].obj]
  IN /\ pc[p] = "loadLast"
     /\ frame' = [frame EXCEPT ![p].last = last]
     /\ Goto(p, IF last = frame[p].value THEN frame[p].ret ELSE "cas")
     /\ UNCHANGED <<counters, objects, held, flushMu, todo, writes, history>>

CasFinds(p) == lastSentValue[frame[p].obj] = frame[p].last

LatchCas(p) ==
  /\ pc[p] = "cas"
  /\ IF CasFinds(p)
       THEN /\ lastSentValue' = [lastSentValue EXCEPT ![frame[p].obj] = frame[p].value]
            /\ Goto(p, frame[p].ret)
       ELSE UNCHANGED lastSentValue /\ Goto(p, "load")
  /\ UNCHANGED <<counters, currentValue, idleFlushes, detached, held,
                 flushMu, todo, frame, writes, history>>

WholeValue(p) == frame[p].value  \* mutated form of Latched: not a delta

(* The delta latch returns.                                                 *)
Latched(p) == Minus(frame[p].value, frame[p].last)

(* Mutated form of Forwarded: forwards c.Value() instead of c.latch().      *)
ForwardedValue(p) == Plus(currentValue[frame[p].other], currentValue[frame[p].obj])

(* other.Add(c.latch()): even a zero delta is added, and other is asked in  *)
(* turn whether it has to rejoin.                                           *)
Forwarded(p) == Plus(currentValue[frame[p].other], Latched(p))

Forward(p) ==
  /\ pc[p] = "fold"
  /\ currentValue' = [currentValue EXCEPT ![frame[p].other] = Forwarded(p)]
  /\ frame' = [frame EXCEPT ![p] = [NoFrame EXCEPT !.obj = frame[p].other]]
  /\ Goto(p, "check")
  /\ UNCHANGED <<counters, lastSentValue, idleFlushes, detached, held,
                 flushMu, todo, writes, history>>

-----------------------------------------------------------------------------
(* Flush.                                                                   *)

Present == {n \in Names : counters[n] # None}

(* Range visits every key present when it starts, at most once and in any   *)
(* order; of the keys stored while it runs it visits whichever it happens   *)
(* to meet.                                                                 *)
NoFlushMu == TRUE  \* mutated form of FlushMuFree: Flush takes no lock

FlushMuFree == flushMu = None

FlushLock(f) ==
  /\ pc[f] = "idle"
  /\ FlushMuFree
  /\ flushMu' = f
  /\ \E extra \in SUBSET (Names \ Present) :
       todo' = [todo EXCEPT ![f] = Present \cup extra]
  /\ Goto(f, "range")
  /\ UNCHANGED <<counters, objects, held, frame, writes, history>>

Visit(f, n) ==
  /\ pc[f] = "range"
  /\ n \in todo[f]
  /\ todo' = [todo EXCEPT ![f] = @ \ {n}]
  /\ IF counters[n] = None
       THEN UNCHANGED <<pc, frame>>
       ELSE /\ frame' = [frame EXCEPT ![f].obj = counters[n], ![f].ret = "visit"]
            /\ Goto(f, "load")
  /\ UNCHANGED <<counters, objects, held, flushMu, writes, history>>

FlushUnlock(f) ==
  /\ pc[f] = "range"
  /\ todo[f] = {}
  /\ flushMu' = None
  /\ Goto(f, "idle")
  /\ UNCHANGED <<counters, objects, held, todo, frame, writes, history>>

(* sink.FlushCounter, and the counter is no longer idle.                    *)
ResetIdle(c) == idleFlushes' = [idleFlushes EXCEPT ![c] = 0]

Report(f) ==
  LET c == frame[f].obj
  IN /\ Latched(f) # 0
     /\ reported' = [reported EXCEPT ![NameOf[c]] = @ + Latched(f)]
     /\ ResetIdle(c)
     /\ quiet' = [quiet EXCEPT ![c] = 0]

VisitActive(f) ==
  /\ pc[f] = "visit"
  /\ Report(f)
  /\ detached' = [detached EXCEPT ![frame[f].obj] = FALSE]
  /\ Return(f)
  /\ UNCHANGED <<counters, currentValue, lastSentValue, held, flushMu, todo,
                 writes, added>>

NeverAges(c)   == idleFlushes[c]                   \* mutated form of NextIdle
PrunesEarly(c) == idleFlushes[c] + 2 < PruneAfter  \* mutated form of BelowThreshold

(* The idle branch: with pruning disabled the count is not even kept.       *)
NextIdle(c)       == idleFlushes[c] + 1
BelowThreshold(c) == NextIdle(c) < PruneAfter

VisitIdle(f) ==
  LET c == frame[f].obj
  IN /\ pc[f] = "visit"
     /\ Latched(f) = 0
     /\ IF PruneAfter = 0
          THEN Return(f) /\ UNCHANGED <<idleFlushes, quiet>>
          ELSE /\ idleFlushes' = [idleFlushes EXCEPT ![c] = NextIdle(c)]
               /\ quiet' = [quiet EXCEPT ![c] = IF @ < PruneAfter THEN @ + 1 ELSE @]
               /\ IF BelowThreshold(c)
                    THEN Return(f)
                    ELSE Goto(f, "delete") /\ UNCHANGED frame
     /\ UNCHANGED <<counters, currentValue, lastSentValue, detached, held,
                    flushMu, todo, writes, added, reported>>

Delete(f) ==
  /\ pc[f] = "delete"
  /\ counters' = [counters EXCEPT ![NameOf[frame[f].obj]] = None]
  /\ Goto(f, "detach")
  /\ UNCHANGED <<objects, held, flushMu, todo, frame, writes, history>>

Detach(f) ==
  /\ pc[f] = "detach"
  /\ detached' = [detached EXCEPT ![frame[f].obj] = TRUE]
  /\ frame' = [frame EXCEPT ![f] = [NoFrame EXCEPT !.obj = frame[f].obj,
                                                  !.ret = "recheck"]]
  /\ Goto(f, "load")
  /\ UNCHANGED <<counters, currentValue, lastSentValue, idleFlushes, held,
                 flushMu, todo, writes, history>>

(* The second latch found a write that raced with the deletion.             *)
RecheckActive(f) ==
  /\ pc[f] = "recheck"
  /\ Report(f)
  /\ Goto(f, "rejoin")
  /\ UNCHANGED <<counters, currentValue, lastSentValue, detached, held,
                 flushMu, todo, frame, writes, added>>

RecheckIdle(f) ==
  /\ pc[f] = "recheck"
  /\ Latched(f) = 0
  /\ Return(f)
  /\ UNCHANGED <<counters, objects, held, flushMu, todo, writes, history>>

-----------------------------------------------------------------------------
Lookup(w) == \E n \in Names : LookupHit(w, n) \/ LookupMiss(w, n)
Write(w) == \E c \in Counters : \/ \E d \in Deltas : Add(w, c, d)
                                \/ \E v \in SetValues : Set(w, c, v)

(* The rest of a call to Add, Set or Flush once it has begun.               *)
Rejoin(p) == MaybeRejoin(p) \/ RejoinAttach(p) \/ RejoinOther(p)
Latch(p)  == LatchLoad(p) \/ LatchLoadLast(p) \/ LatchCas(p)
Visits(f) == \/ (\E n \in Names : Visit(f, n)) \/ VisitActive(f) \/ VisitIdle(f)
             \/ Delete(f) \/ Detach(f) \/ RecheckActive(f) \/ RecheckIdle(f)

Call(p)        == Rejoin(p) \/ Latch(p) \/ Forward(p)
WriterStep(w)  == Lookup(w) \/ Create(w) \/ Write(w) \/ Call(w)
FlusherStep(f) == FlushLock(f) \/ Visits(f) \/ FlushUnlock(f) \/ Call(f)

Next == (\E w \in Writers : WriterStep(w)) \/ (\E f \in Flushers : FlusherStep(f))

Spec == Init /\ [][Next]_vars

(* The Go scheduler runs every goroutine that can run, and a flush loop     *)
(* flushes again at its next tick; nobody has to look up or write anything. *)
Fairness ==
  /\ \A w \in Writers : WF_vars(Create(w) \/ Call(w))
  /\ \A f \in Flushers : WF_vars(FlusherStep(f))

FairSpec == Spec /\ Fairness

-----------------------------------------------------------------------------
(* Properties.                                                              *)

TypeOK ==
  /\ counters \in [Names -> Counters \cup {None}]
  /\ currentValue \in [Counters -> Word]
  /\ lastSentValue \in [Counters -> Word]
  /\ idleFlushes \in [Counters -> Nat]
  /\ detached \in [Counters -> BOOLEAN]
  /\ held \subseteq Counters
  /\ flushMu \in Flushers \cup {None}
  /\ todo \in [Flushers -> SUBSET Names]
  /\ pc \in [Procs -> PCs]
  /\ frame \in [Procs -> Frames]
  /\ writes \in 0 .. MaxWrites
  /\ added \in [Names -> Int]
  /\ reported \in [Names -> Nat]
  /\ quiet \in [Counters -> Nat]

InMap(c)   == counters[NameOf[c]] = c
Pending(c) == Minus(currentValue[c], lastSentValue[c])

(* No counter anybody can write to is orphaned: one that is out of the map  *)
(* is marked detached, so that its next write calls rejoin, or is about to  *)
(* be marked by the Flush that has just deleted it (stats.go, rejoin and    *)
(* flushMu: "a permanent orphan").                                          *)
Attached ==
  \A c \in held :
    ~detached[c] => \/ InMap(c)
                    \/ \E f \in Flushers : pc[f] = "detach" /\ frame[f].obj = c

(* What is written under a name is, modulo 2^64, what the sink has received *)
(* plus what sits in its counters plus the deltas latched and on their way: *)
(* pruning, rejoining and forwarding neither drop nor duplicate a value.    *)
(* It holds for Set, and even when two latches of one counter collide.      *)
Using(p) == IF pc[p] \in LatchUses THEN Latched(p) ELSE 0

Conservation ==
  \A n \in Names :
    LET mine   == {c \in Counters : NameOf[c] = n}
        moving == {p \in Procs : frame[p].obj \in mine}
    IN (reported[n] + MapThenSumSet(Pending, mine) + MapThenSumSet(Using, moving)
          - added[n]) % Modulus = 0


(* When there is one counter for each name: a value not yet reported is in  *)
(* a counter the next Flush will visit, or some call under way will put it  *)
(* back or report it (docs/idle-pruning.md: "Nothing is lost").             *)
Rescues(p, c) ==
  /\ frame[p].obj = c
  /\ \/ pc[p] \in {"check", "rejoin", "detach"}
     \/ frame[p].ret = "recheck"

NoStranded ==
  \A c \in held : Pending(c) # 0 => InMap(c) \/ \E p \in Procs : Rescues(p, c)

(* A counter is pruned only after PruneAfter consecutive flushes have found *)
(* nothing to report in it since it last reported something.                *)
PrunedOnlyWhenIdle ==
  \A f \in Flushers :
    pc[f] = "delete" => PruneAfter > 0 /\ quiet[frame[f].obj] >= PruneAfter

(* lastSentValue never goes back while counters are only added to (latch:   *)
(* a stale read is never committed).                                        *)
LatchNeverRegresses ==
  [][\A c \in Counters : lastSentValue'[c] >= lastSentValue[c]]_lastSentValue

(* Once nobody writes any more, everything that was written is reported     *)
(* (docs/idle-pruning.md: "Nothing is lost").                               *)
EventuallyReported ==
  <>[](\A n \in Names : (reported[n] - added[n]) % Modulus = 0)

(* Memory is bounded by what is in use: when nobody writes any more, every  *)
(* counter leaves the map.                                                  *)
EventuallyPruned == PruneAfter > 0 => <>[](Present = {})

(* A name keeps the object it was given, however many lookups race to       *)
(* create it and whatever rejoins, until the Flush that found this very      *)
(* object idle deletes it: Delete takes a name, not an object, and removes   *)
(* whatever it finds there.  With pruning disabled it keeps it for ever.     *)
NameKeepsItsCounter ==
  [][\A n \in Names : counters[n] \notin {None, counters'[n]} =>
       /\ PruneAfter > 0
       /\ \E f \in Flushers : pc[f] = "delete" /\ frame[f].obj = counters[n]
       /\ counters'[n] = None]_counters

=============================================================================
