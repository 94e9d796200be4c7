------------------------------ MODULE Pipeline ------------------------------
(***************************************************************************)
(* From Add to the wire: a store flushed by StartContext writes to a        *)
(* network sink.  The store is what Ledger promises (CounterLedger shows    *)
(* that the counters keep it); the sink is NetSink itself.  StartContext    *)
(* flushes at each tick and once more when its context is done; each        *)
(* counter it reports becomes a line of the sink, and then it calls the     *)
(* sink's own Flush and waits for it.  Users add to counters at any time,   *)
(* and a timer of theirs writes its line to the sink at once.               *)
(***************************************************************************)
EXTENDS NetSink

CONSTANTS
  Loop,      \* the goroutine in StartContext: one of the callers of the sink
  Names,     \* names of counters
  MaxCalls   \* bound on the calls of Add and AddValue

ASSUME PipelineAssumption == Loop \in Callers /\ MaxCalls \in 0 .. MaxLines

VARIABLES
  outstanding, reported,  \* those of Ledger
  stage,        \* where StartContext is
  todo,         \* the names its counters.Range has still to visit
  cancelled,    \* ctx is done
  exiting,      \* the Flush under way is the last one
  calls,        \* the number of calls so far
  carries,      \* history: what each line adds to each counter
  before,       \* history: when ctx was cancelled, the lines there were and the
                \* amounts added
  refused       \* history: the sink's Flush gave up for want of room in outc

Users == Callers \ {Loop}

Store == INSTANCE Ledger WITH Deltas <- {1}

store == <<outstanding, reported>>
context == <<stage, todo, cancelled, exiting>>
all == <<vars, store, context, calls, carries, before, refused>>

Added == [n \in Names |-> outstanding[n] + reported[n]]

PipelineInit ==
  /\ Init
  /\ Store!Init
  /\ stage = "select" /\ todo = {}
  /\ cancelled = FALSE /\ exiting = FALSE
  /\ calls = 0
  /\ carries = [l \in Lines |-> [n \in Names |-> 0]]
  /\ before = [lines |-> 0, added |-> Added]
  /\ refused = FALSE

-----------------------------------------------------------------------------
(* StartContext.                                                            *)

Cancel ==
  /\ ~cancelled
  /\ cancelled' = TRUE
  /\ before' = [lines |-> next - 1, added |-> Added]
  /\ UNCHANGED <<vars, store, stage, todo, exiting, calls, carries, refused>>

ForgetsReported == {n \in Names : reported[n] = 0}  \* mutated form of Visited

(* counters.Range visits what has been added to.                            *)
Visited == {n \in Names : Added[n] > 0}

(* The select: a tick may have come at any time.                            *)
StartFlush(last) ==
  /\ stage = "select"
  /\ exiting' = last
  /\ todo' = Visited
  /\ stage' = "counters"
  /\ UNCHANGED <<vars, store, cancelled, calls, carries, before, refused>>

SelectTick == StartFlush(FALSE)
SelectDone == cancelled /\ StartFlush(TRUE)

(* latch and sink.FlushCounter: what is outstanding becomes a line.         *)
FlushCounter(n) ==
  /\ stage = "counters" /\ n \in todo
  /\ todo' = todo \ {n}
  /\ Store!Report(n) /\ outstanding'[n] = 0
  /\ WriteLock(Loop)
  /\ carries' = [carries EXCEPT ![next][n] = outstanding[n]]
  /\ UNCHANGED <<stage, cancelled, exiting, calls, before, refused>>

SkipCounter(n) ==
  /\ stage = "counters" /\ n \in todo
  /\ outstanding[n] = 0
  /\ todo' = todo \ {n}
  /\ UNCHANGED <<vars, store, stage, cancelled, exiting, calls, carries, before, refused>>

FlushSink ==
  /\ stage = "counters" /\ todo = {}
  /\ FlushStart(Loop)
  /\ refused' = FlushFails
  /\ stage' = "sink"
  /\ UNCHANGED <<store, todo, cancelled, exiting, calls, carries, before>>

NoWaiting == TRUE  \* mutated form of SinkReturned

SinkReturned == pc[Loop] = "idle"

FlushDone ==
  /\ stage = "sink" /\ SinkReturned
  /\ stage' = IF exiting THEN "done" ELSE "select"
  /\ refused' = (refused /\ exiting)
  /\ UNCHANGED <<vars, store, todo, cancelled, exiting, calls, carries, before>>

StartContext ==
  \/ SelectTick \/ SelectDone \/ FlushSink \/ FlushDone
  \/ \E n \in Names : FlushCounter(n) \/ SkipCounter(n)

-----------------------------------------------------------------------------
(* The sink, and what users do.                                             *)

SinkOnly == UNCHANGED <<store, context, calls, carries, before, refused>>

(* The rest of a call of the sink once it has begun.                        *)
InSink(p) == (WriteLine(p) \/ FlushSend(p) \/ FlushReturn(p)) /\ SinkOnly
Run       == RunStep /\ SinkOnly

Calls == calls < MaxCalls /\ calls' = calls + 1

Add(u) ==
  /\ pc[u] = "idle" /\ Calls
  /\ \E n \in Names : Store!Add(n, 1)
  /\ UNCHANGED <<vars, context, carries, before, refused>>

AddValue(u) == WriteLock(u) /\ Calls /\ UNCHANGED <<store, context, carries, before, refused>>

PipelineNext ==
  \/ Cancel \/ StartContext \/ Run
  \/ \E p \in Callers : InSink(p)
  \/ \E u \in Users : Add(u) \/ AddValue(u)

PipelineSpec == PipelineInit /\ [][PipelineNext]_all

(* StartContext runs, and its select takes ctx.Done sooner or later; the    *)
(* sink's own goroutine and channels are as fair as in NetSink.  Nobody has *)
(* to add anything, and no dial has to succeed.                             *)
PipelineFairness ==
  /\ WF_all(StartContext) /\ SF_all(SelectDone)
  /\ WF_all(Run)
  /\ SF_all(Tick /\ SinkOnly) /\ SF_all(TakeFlush /\ SinkOnly) /\ SF_all(TakeBuffer /\ SinkOnly)
  /\ \A p \in Callers : WF_all(InSink(p))

FairPipeline == PipelineSpec /\ PipelineFairness

-----------------------------------------------------------------------------
(* Properties.                                                              *)

PipelineTypeOK ==
  /\ TypeOK
  /\ outstanding \in [Names -> Nat] /\ reported \in [Names -> Nat]
  /\ stage \in {"select", "counters", "sink", "done"}
  /\ todo \subseteq Names
  /\ cancelled \in BOOLEAN /\ exiting \in BOOLEAN /\ refused \in BOOLEAN
  /\ calls \in 0 .. MaxCalls
  /\ carries \in [Lines -> [Names -> Nat]]
  /\ before \in [lines : 0 .. MaxLines, added : [Names -> Nat]]

(* What lines carry for a counter, the lines that have left the sink, and   *)
(* those that run has, or will find in its channels.                        *)
Carried(n, ls) == MapThenSumSet(LAMBDA l : carries[l][n], ls)
Arrived  == ToSet(sent) \cup torn \cup lost
OnTheWay == Contents(outc) \cup Contents(retryc) \cup ToSet(current.lines)

(* "Flush will be called on exit" (stats.go, StartContext): when            *)
(* StartContext returns, everything that was added or timed before the      *)
(* context was cancelled is on the wire, or was dropped for want of room.   *)
(* If the sink gave that Flush up, a write failed since it began, or there  *)
(* was no connection to answer it, older lines may still be on their way;   *)
(* but they are out of the bufio.Writer, which nobody may flush again.      *)
Unhindered == ~refused /\ ~trouble[Loop]

ExitDelivers ==
  stage = "done" =>
    LET out == IF Unhindered THEN Arrived ELSE Arrived \cup OnTheWay
    IN /\ 1 .. before.lines \subseteq out
       /\ \A n \in Names : Carried(n, out) >= before.added[n]

(* StartContext returns once its context is done, whatever becomes of the   *)
(* connection: the Flush of the sink is answered or released, and a write    *)
(* that fails is not retried for ever.                                      *)
StopsWhenCancelled == cancelled ~> stage = "done"

(* If the connection stays up, whatever is added reaches the wire or is     *)
(* dropped for want of room, unless the store is not flushed any more.      *)
AddedArrives ==
  <>[]conn /\ []~cancelled =>
    <>[](\A n \in Names : outstanding[n] = 0 /\ Carried(n, Arrived) = reported[n])

=============================================================================
