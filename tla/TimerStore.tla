----------------------------- MODULE TimerStore -----------------------------
(***************************************************************************)
(* The timers of stats.go.  A timer keeps no value: AddValue marks it used  *)
(* and sends the value straight to the sink, whether or not the timer is    *)
(* still in the store.  Flush only ages timers, and prunes those nobody     *)
(* used; a lookup that follows allocates another object for the name,       *)
(* perhaps with another unit (NewTimer counts microseconds, NewMilliTimer   *)
(* milliseconds).                                                           *)
(*                                                                         *)
(* Each atomic operation and each sync.Map call is a step of its own, as in *)
(* CounterStore.                                                            *)
(***************************************************************************)
EXTENDS Integers, FiniteSets

CONSTANTS
  Writers, Flushers, Names,
  Timers,      \* the timer objects that can ever be allocated (a bound)
  NameOf,      \* the name an object is created under
  Units,       \* the values of base
  PruneAfter,  \* pruneAfterFlushes: 0 disables pruning
  MaxWrites,   \* bound on the number of calls of AddValue
  None

Procs == Writers \cup Flushers

ASSUME TimerAssumption ==
  /\ Writers \cap Flushers = {}
  /\ NameOf \in [Timers -> Names]
  /\ PruneAfter \in Nat
  /\ MaxWrites \in Nat
  /\ None \notin Timers \cup Flushers \cup Units

VARIABLES
  timers,            \* statStore.timers: the occupant of each name, or None
  base, active, idleFlushes,  \* fields of timer
  held,              \* objects some lookup has returned
  flushMu, todo,     \* as in CounterStore
  pc, obj,           \* where each goroutine is, and the timer in its hands
  writes,            \* number of calls of AddValue so far
  used,              \* history: timers marked used since Flush last saw them
  quiet,             \* history: visits in a row that found a timer not used
  late               \* history: writers whose AddValue found its timer out of the map

fields  == <<base, active, idleFlushes>>
history == <<used, quiet, late>>
vars == <<timers, fields, held, flushMu, todo, pc, obj, writes, history>>

Init ==
  /\ timers = [n \in Names |-> None]
  /\ base = [t \in Timers |-> None]
  /\ active = [t \in Timers |-> FALSE]
  /\ idleFlushes = [t \in Timers |-> 0]
  /\ held = {}
  /\ flushMu = None
  /\ todo = [f \in Flushers |-> {}]
  /\ pc = [p \in Procs |-> "idle"]
  /\ obj = [p \in Procs |-> None]
  /\ writes = 0
  /\ used = {}
  /\ quiet = [t \in Timers |-> 0]
  /\ late = {}

Goto(p, label, t) == /\ pc' = [pc EXCEPT ![p] = label]
                     /\ obj' = [obj EXCEPT ![p] = t]

-----------------------------------------------------------------------------
(* newTimer: the unit asked for counts only when the object is new.         *)

Allocated(t) == base[t] # None

LookupHit(w, n) ==
  /\ pc[w] = "idle"
  /\ timers[n] # None
  /\ held' = held \cup {timers[n]}
  /\ UNCHANGED <<timers, fields, flushMu, todo, pc, obj, writes, history>>

LookupMiss(w, n) ==
  /\ pc[w] = "idle"
  /\ timers[n] = None
  /\ \E t \in Timers, u \in Units :
       /\ NameOf[t] = n
       /\ ~Allocated(t)
       /\ base' = [base EXCEPT ![t] = u]
       /\ Goto(w, "create", t)
  /\ UNCHANGED <<timers, active, idleFlushes, held, flushMu, todo, writes, history>>

PlainStore(n, t) == t  \* mutated form of LoadOrStore: the last creator wins

LoadOrStore(n, t) == IF timers[n] = None THEN t ELSE timers[n]

Create(w) ==
  LET n == NameOf[obj[w]]
      winner == LoadOrStore(n, obj[w])
  IN /\ pc[w] = "create"
     /\ timers' = [timers EXCEPT ![n] = winner]
     /\ held' = held \cup {winner}
     /\ Goto(w, "idle", None)
     /\ UNCHANGED <<fields, flushMu, todo, writes, history>>

-----------------------------------------------------------------------------
(* AddValue, and so AddDuration and the two Complete of a timespan.         *)

MarkedNever(t) == active[t]  \* mutated form of Marked: AddValue does not mark

Marked(t) == TRUE

InMap(t) == timers[NameOf[t]] = t

AddValue(w, t) ==
  /\ pc[w] = "idle"
  /\ t \in held
  /\ writes < MaxWrites
  /\ writes' = writes + 1
  /\ active' = [active EXCEPT ![t] = Marked(t)]
  /\ used' = used \cup {t}
  /\ late' = IF InMap(t) THEN late ELSE late \cup {w}
  /\ Goto(w, "emit", t)
  /\ UNCHANGED <<timers, base, idleFlushes, held, flushMu, todo, quiet>>

FlushTimer(w) ==
  /\ pc[w] = "emit"
  /\ Goto(w, "idle", None)
  /\ late' = late \ {w}
  /\ UNCHANGED <<timers, fields, held, flushMu, todo, writes, used, quiet>>

-----------------------------------------------------------------------------
(* Flush.                                                                   *)

Present == {n \in Names : timers[n] # None}

FlushMuFree == flushMu = None

FlushLock(f) ==
  /\ pc[f] = "idle"
  /\ FlushMuFree
  /\ flushMu' = f
  /\ \E extra \in SUBSET (Names \ Present) :
       todo' = [todo EXCEPT ![f] = Present \cup extra]
  /\ Goto(f, "range", None)
  /\ UNCHANGED <<timers, fields, held, writes, history>>

(* The swap of active: a timer that was used is young again.                *)
SwapUsed(f, n) ==
  LET t == timers[n]
  IN /\ pc[f] = "range"
     /\ n \in todo[f] /\ t # None
     /\ active[t]
     /\ active' = [active EXCEPT ![t] = FALSE]
     /\ idleFlushes' = [idleFlushes EXCEPT ![t] = 0]
     /\ used' = used \ {t}
     /\ quiet' = [quiet EXCEPT ![t] = 0]
     /\ todo' = [todo EXCEPT ![f] = @ \ {n}]
     /\ UNCHANGED <<timers, base, held, flushMu, pc, obj, writes, late>>

BelowThreshold(k) == k < PruneAfter

NeverAges(t) == idleFlushes[t]  \* mutated form of NextIdle
NextIdle(t)  == idleFlushes[t] + 1

SwapUnused(f, n) ==
  LET t == timers[n]
  IN /\ pc[f] = "range"
     /\ n \in todo[f] /\ t # None
     /\ ~active[t]
     /\ todo' = [todo EXCEPT ![f] = @ \ {n}]
     /\ used' = used \ {t}
     /\ quiet' = [quiet EXCEPT ![t] = IF t \in used THEN 0
                                      ELSE IF @ < PruneAfter THEN @ + 1 ELSE @]
     /\ IF PruneAfter = 0
          THEN UNCHANGED <<idleFlushes, pc, obj>>
          ELSE /\ idleFlushes' = [idleFlushes EXCEPT ![t] = NextIdle(t)]
               /\ IF BelowThreshold(NextIdle(t))
                    THEN UNCHANGED <<pc, obj>>
                    ELSE Goto(f, "delete", t)
     /\ UNCHANGED <<timers, base, active, held, flushMu, writes, late>>

Delete(f) ==
  /\ pc[f] = "delete"
  /\ timers' = [timers EXCEPT ![NameOf[obj[f]]] = None]
  /\ Goto(f, "range", None)
  /\ UNCHANGED <<fields, held, flushMu, todo, writes, history>>

FlushUnlock(f) ==
  /\ pc[f] = "range"
  /\ todo[f] \cap Present = {}
  /\ flushMu' = None
  /\ todo' = [todo EXCEPT ![f] = {}]
  /\ Goto(f, "idle", None)
  /\ UNCHANGED <<timers, fields, held, writes, history>>

-----------------------------------------------------------------------------
Lookup(w) == \E n \in Names : LookupHit(w, n) \/ LookupMiss(w, n)
Visit(f)  == \/ \E n \in Names : SwapUsed(f, n) \/ SwapUnused(f, n)
             \/ Delete(f)

WriterStep(w)  == \/ Lookup(w) \/ Create(w) \/ FlushTimer(w)
                  \/ \E t \in Timers : AddValue(w, t)
FlusherStep(f) == FlushLock(f) \/ Visit(f) \/ FlushUnlock(f)

Next == (\E w \in Writers : WriterStep(w)) \/ (\E f \in Flushers : FlusherStep(f))

Spec == Init /\ [][Next]_vars

(* Goroutines that can run do run; nobody has to look up or time anything.  *)
Fairness ==
  /\ \A w \in Writers : WF_vars(Create(w) \/ FlushTimer(w))
  /\ \A f \in Flushers : WF_vars(FlusherStep(f))

FairSpec == Spec /\ Fairness

-----------------------------------------------------------------------------
(* Properties.                                                              *)

(* With the bound on idleFlushes: a timer is deleted the moment it reaches  *)
(* the threshold and nothing ever puts it back, so no count exceeds it.     *)
TypeOK ==
  /\ timers \in [Names -> Timers \cup {None}]
  /\ base \in [Timers -> Units \cup {None}]
  /\ active \in [Timers -> BOOLEAN]
  /\ idleFlushes \in [Timers -> 0 .. PruneAfter]
  /\ held \subseteq Timers
  /\ flushMu \in Flushers \cup {None}
  /\ todo \in [Flushers -> SUBSET Names]
  /\ pc \in [Procs -> {"idle", "create", "emit", "range", "delete"}]
  /\ obj \in [Procs -> Timers \cup {None}]
  /\ writes \in 0 .. MaxWrites
  /\ used \subseteq Timers
  /\ quiet \in [Timers -> 0 .. PruneAfter]
  /\ late \subseteq Writers

(* A timer is pruned only after PruneAfter consecutive flushes between which *)
(* nobody called AddValue on it; a call that comes after the last of those  *)
(* swaps does not save it (Flush, timers.Range).                            *)
PrunedOnlyWhenUnused ==
  \A f \in Flushers :
    pc[f] = "delete" => PruneAfter > 0 /\ quiet[obj[f]] >= PruneAfter

(* Flush deletes the timer it has aged and no other: what it holds is the   *)
(* occupant of its name, though lookups create timers meanwhile.            *)
DeletesWhatItAged ==
  \A f \in Flushers : pc[f] = "delete" => InMap(obj[f])

(* When nobody calls AddValue any more, every timer leaves the map.         *)
EventuallyPruned == PruneAfter > 0 => <>[](Present = {})

(* A call of AddValue that begins when its timer is no longer in the map     *)
(* brings the timer back (docs/idle-pruning.md: "that write reattaches it    *)
(* to the store").                                                          *)
WriteReattaches ==
  \A w \in Writers, t \in Timers :
    w \in late /\ obj[w] = t ~> InMap(t)

=============================================================================
