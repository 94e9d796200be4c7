------------------------------- MODULE NetSink -------------------------------
(***************************************************************************)
(* The network sink of net_sink.go.  Callers append stat lines to a shared  *)
(* bufio.Writer under mu; full buffers go, without ever blocking, into the  *)
(* channel outc; the goroutine run() writes them to the connection, puts a  *)
(* buffer whose write failed into retryc, reconnects, and answers Flush     *)
(* calls, which it receives through the channel doFlush.                    *)
(*                                                                         *)
(* Lines are numbered in the order in which their writer takes mu.  A step  *)
(* is one channel operation, one write or dial, or a section under mu that  *)
(* contains at most one channel operation.  The connection may fail at any  *)
(* dial and at any write, after any part of the data.                       *)
(***************************************************************************)
EXTENDS Integers, SequencesExt

CONSTANTS
  Callers,    \* goroutines that write lines and call Flush
  MaxLines,   \* bound on the number of lines written
  Oversized,  \* the lines longer than a whole buffer
  LineSize,   \* bytes in any other line
  BufSize,    \* bytes in the bufio.Writer
  OutCap,     \* capacity of outc
  FlushCap,   \* capacity of doFlush
  LogEvery,   \* logOnEveryNDroppedBytes
  None        \* no caller: mu is free, no Flush is being answered

Lines == 1 .. MaxLines

ASSUME NetSinkAssumption ==
  /\ MaxLines \in Nat
  /\ Oversized \subseteq Lines
  /\ LineSize \in Nat /\ LineSize > 1  \* a line ends in "|c\n"
  /\ BufSize \in Nat /\ BufSize >= LineSize
  /\ OutCap \in Nat \ {0}
  /\ FlushCap \in Nat \ {0}
  /\ LogEvery \in Nat \ {0}
  /\ None \notin Callers

VARIABLES
  buf,             \* lines in the bufio.Writer
  mu,              \* the caller inside writeBuffer, or None
  outc, retryc,    \* channels of buffers
  doFlush,         \* channel of callers waiting in Flush
  closed,          \* callers whose done channel has been closed
  conn,            \* whether there is a connection
  reconnectFailed, \* local of run: the last dial failed
  droppedBytes,    \* the count that is logged
  pc, line,        \* where each caller is, and the line it writes
  loop,            \* where run is
  current,         \* the buffer run holds after a failed write
  left,            \* loop counter of run: buffers, or callers, still to serve
  answering,       \* the caller whose Flush run is answering
  next,            \* the number of the next line
  sent,            \* history: lines written whole, in order
  torn, lost,      \* history: lines cut by a failed write, lines dropped
  lostBytes, logs, \* history: bytes really dropped, and messages logged
  asked, trouble   \* history: the last line before each Flush, and whether a
                   \* write has failed since or run released the caller

buffers == <<buf, outc, retryc>>
drops   == <<droppedBytes, lost, lostBytes, logs>>
wire    == <<conn, sent, torn>>
callers == <<pc, line, asked, closed>>
runner  == <<loop, current, left, answering, reconnectFailed>>
vars == <<buffers, mu, doFlush, drops, wire, callers, runner, trouble, next>>

(* What is in a channel: lines, of which the first may already be cut.      *)
Buffer(ls)  == [lines |-> ls, cut |-> FALSE]
NoBuffer    == Buffer(<<>>)
Whole(b)    == IF b.cut THEN Tail(b.lines) ELSE b.lines
Cut(b)      == IF b.cut THEN {Head(b.lines)} ELSE {}

(* The bytes of a line, and of several: the ordinary part of each, and what *)
(* the oversized ones have more.                                            *)
Size(l)     == IF l \in Oversized THEN BufSize + 1 ELSE LineSize
Bytes(ls)   == LineSize * Len(ls)
                 + (BufSize + 1 - LineSize) * Cardinality({i \in DOMAIN ls : ls[i] \in Oversized})
Available   == BufSize - Bytes(buf)

(* Of a cut line, one byte at least is on the wire and one is not.          *)
Remaining(b) == Bytes(b.lines) - IF b.cut THEN 1 ELSE 0

Init ==
  /\ buf = <<>> /\ outc = <<>> /\ retryc = <<>> /\ doFlush = <<>>
  /\ mu = None
  /\ closed = {}
  /\ conn = FALSE /\ reconnectFailed = FALSE
  /\ droppedBytes = 0
  /\ pc = [p \in Callers |-> "idle"]
  /\ line = [p \in Callers |-> 0]
  /\ loop = "loop" /\ current = NoBuffer /\ left = 0 /\ answering = None
  /\ next = 1
  /\ sent = <<>> /\ torn = {} /\ lost = {} /\ lostBytes = 0 /\ logs = 0
  /\ asked = [p \in Callers |-> 0]
  /\ trouble = [p \in Callers |-> FALSE]

-----------------------------------------------------------------------------
(* Sending to outc never blocks (sinkWriter.Write): a full channel is an    *)
(* error.  After an error the bufio.Writer is reset, whatever it holds.     *)

OutcFull == Len(outc) >= OutCap

Logs(d) == (droppedBytes + d) % LogEvery > droppedBytes % LogEvery

(* handleFlushErrorSize: d bytes are counted; the lines gone, the n bytes   *)
(* they make, and those of the buffer reset on the way are what is lost.    *)
HandleFlushError(d, gone, n) ==
  /\ droppedBytes' = droppedBytes + d
  /\ logs' = IF Logs(d) THEN logs + 1 ELSE logs
  /\ lost' = lost \cup gone
  /\ lostBytes' = lostBytes + n

(* bufWriter.Flush, with handleFlushError when outc is full.                *)
FlushFails == buf # <<>> /\ OutcFull

FlushBuf ==
  /\ buf' = <<>>
  /\ IF FlushFails
       THEN HandleFlushError(Bytes(buf), ToSet(buf), Bytes(buf)) /\ UNCHANGED outc
       ELSE /\ outc' = IF buf = <<>> THEN outc ELSE Append(outc, Buffer(buf))
            /\ UNCHANGED drops

-----------------------------------------------------------------------------
(* writeBuffer: lock, make room if the line does not fit ...                *)
NeedsRoom(l) == Available < Size(l)

WriteLock(p) ==
  /\ pc[p] = "idle" /\ mu = None
  /\ next <= MaxLines
  /\ next' = next + 1
  /\ mu' = p
  /\ line' = [line EXCEPT ![p] = next]
  /\ pc' = [pc EXCEPT ![p] = "write"]
  /\ IF NeedsRoom(next) THEN FlushBuf ELSE UNCHANGED <<buf, outc, drops>>
  /\ UNCHANGED <<retryc, doFlush, wire, asked, closed, runner, trouble>>

(* ... then append the line, or send it at once when no buffer can hold it. *)
(* If that fails, nothing is buffered: no byte of it is counted.            *)
WriteLine(p) ==
  LET l == line[p]
  IN /\ pc[p] = "write"
     /\ mu' = None
     /\ pc' = [pc EXCEPT ![p] = "idle"]
     /\ CASE Size(l) <= BufSize -> buf' = Append(buf, l) /\ UNCHANGED <<outc, drops>>
          [] Size(l) > BufSize /\ ~OutcFull ->
               outc' = Append(outc, Buffer(<<l>>)) /\ UNCHANGED <<buf, drops>>
          [] OTHER -> HandleFlushError(Bytes(buf), {l}, Size(l)) /\ UNCHANGED <<buf, outc>>
     /\ UNCHANGED <<retryc, doFlush, wire, line, asked, closed, runner, trouble, next>>

(* Flush: what is buffered goes to outc, or Flush gives up; then run is     *)
(* asked to write out the channel, and the caller waits for it.             *)
FlushStart(p) ==
  /\ pc[p] = "idle" /\ mu = None
  /\ FlushBuf
  /\ pc' = [pc EXCEPT ![p] = IF FlushFails THEN "idle" ELSE "send"]
  /\ asked' = [asked EXCEPT ![p] = IF FlushFails THEN @ ELSE next - 1]
  /\ trouble' = [trouble EXCEPT ![p] = FALSE]
  /\ UNCHANGED <<retryc, mu, doFlush, wire, line, closed, runner, next>>

FlushSend(p) ==
  /\ pc[p] = "send"
  /\ Len(doFlush) < FlushCap
  /\ doFlush' = Append(doFlush, p)
  /\ pc' = [pc EXCEPT ![p] = "await"]
  /\ UNCHANGED <<buffers, mu, drops, wire, line, asked, closed, runner, trouble, next>>

FlushReturn(p) ==
  /\ pc[p] = "await"
  /\ p \in closed
  /\ closed' = closed \ {p}
  /\ asked' = [asked EXCEPT ![p] = 0]
  /\ pc' = [pc EXCEPT ![p] = "idle"]
  /\ UNCHANGED <<buffers, mu, doFlush, drops, wire, line, runner, trouble, next>>

-----------------------------------------------------------------------------
(* writeToConn: the buffer goes out whole, or the write fails after some    *)
(* lines and perhaps a part of the next one, and the connection is dropped. *)
(* What bytes.Buffer.WriteTo has written is gone from the buffer.           *)

RewriteAll(b, k) == b.lines  \* mutated form of Unwritten: Write, not WriteTo
Unwritten(b, k) == SubSeq(b.lines, k + 1, Len(b.lines))

WriteOk(b) ==
  /\ sent' = sent \o Whole(b)
  /\ torn' = torn \cup Cut(b)
  /\ UNCHANGED <<conn, current, trouble>>

WriteFails(b) ==
  /\ \E k \in 0 .. Len(b.lines) - 1, cutNow \in BOOLEAN :
       LET out == [b EXCEPT !.lines = SubSeq(@, 1, k)]
       IN /\ sent' = IF k = 0 THEN sent ELSE sent \o Whole(out)
          /\ torn' = IF k = 0 THEN torn ELSE torn \cup Cut(out)
          /\ current' = [lines |-> Unwritten(b, k),
                         cut |-> cutNow \/ (k = 0 /\ b.cut)]
  /\ conn' = FALSE
  /\ trouble' = [p \in Callers |-> TRUE]

(* run, at the top of its loop: dial until there is a connection.           *)
ConnectOk ==
  /\ loop = "loop" /\ ~conn
  /\ conn' = TRUE
  /\ reconnectFailed' = FALSE
  /\ UNCHANGED <<buffers, mu, doFlush, drops, sent, torn, callers, loop, current, left,
                 answering, trouble, next>>

NeverDrains == FALSE  \* mutated form of DrainsCallers

(* The second dial in a row that fails releases the callers of Flush, at    *)
(* most eight times as many as doFlush holds; then run sleeps.              *)
DrainsCallers == reconnectFailed

ConnectFail ==
  /\ loop = "loop" /\ ~conn
  /\ reconnectFailed' = TRUE
  /\ IF DrainsCallers
       THEN loop' = "drain" /\ left' = FlushCap * 8
       ELSE loop' = "sleep" /\ UNCHANGED left
  /\ UNCHANGED <<buffers, mu, doFlush, drops, wire, callers, current, answering,
                 trouble, next>>

DrainOne ==
  /\ loop = "drain"
  /\ doFlush # <<>> /\ left > 0
  /\ closed' = closed \cup {Head(doFlush)}
  /\ trouble' = [trouble EXCEPT ![Head(doFlush)] = TRUE]
  /\ doFlush' = Tail(doFlush)
  /\ left' = left - 1
  /\ UNCHANGED <<buffers, mu, drops, wire, pc, line, asked, loop, current, answering,
                 reconnectFailed, next>>

DrainEnd ==
  /\ loop = "drain"
  /\ doFlush = <<>> \/ left = 0
  /\ loop' = "sleep" /\ left' = 0
  /\ UNCHANGED <<buffers, mu, doFlush, drops, wire, callers, current, answering,
                 reconnectFailed, trouble, next>>

Wake ==
  /\ loop = "sleep"
  /\ loop' = "loop"
  /\ UNCHANGED <<buffers, mu, doFlush, drops, wire, callers, current, left, answering,
                 reconnectFailed, trouble, next>>

(* A buffer to retry goes before everything else; if it fails again it is   *)
(* dropped, under mu, and the bufio.Writer is reset with it.                *)
Connected == loop = "loop" /\ conn

Retry ==
  /\ Connected /\ retryc # <<>>
  /\ retryc' = Tail(retryc)
  /\ \/ WriteOk(Head(retryc)) /\ UNCHANGED loop
     \/ WriteFails(Head(retryc)) /\ loop' = "dropRetry"
  /\ UNCHANGED <<buf, outc, mu, doFlush, drops, callers, left, answering,
                 reconnectFailed, next>>

CountsAll(b) == Bytes(b.lines)  \* mutated form of Counted: forgets what was written
Counted(b)   == Remaining(b)

DropRetry ==
  /\ loop = "dropRetry" /\ mu = None
  /\ HandleFlushError(Counted(current), ToSet(Whole(current)) \cup ToSet(buf),
                      Remaining(current) + Bytes(buf))
  /\ torn' = torn \cup Cut(current)
  /\ buf' = <<>>
  /\ current' = NoBuffer
  /\ loop' = "loop"
  /\ UNCHANGED <<outc, retryc, mu, doFlush, conn, sent, callers, left, answering,
                 reconnectFailed, trouble, next>>

(* The select of run: the ticker, a caller of Flush, or a buffer.           *)
NotPreferring == Connected  \* mutated form of Selecting: retryc is not first

Selecting == Connected /\ retryc = <<>>

Tick ==
  /\ Selecting /\ mu = None
  /\ FlushBuf
  /\ UNCHANGED <<retryc, mu, doFlush, wire, callers, runner, trouble, next>>

QueuedButOne == Len(outc) - 1  \* mutated form of Queued: off by one
Queued == Len(outc)

(* Only the buffers in outc at this moment are written for the caller.      *)
TakeFlush ==
  /\ Selecting /\ doFlush # <<>>
  /\ answering' = Head(doFlush)
  /\ doFlush' = Tail(doFlush)
  /\ left' = Queued
  /\ loop' = "flushing"
  /\ UNCHANGED <<buffers, mu, drops, wire, callers, current, reconnectFailed, trouble, next>>

(* Writing the first buffer of outc; if that fails it goes to retryc, which *)
(* blocks run while retryc is full.                                         *)
WriteNext ==
  /\ outc # <<>>
  /\ outc' = Tail(outc)
  /\ \/ WriteOk(Head(outc)) /\ UNCHANGED loop
     \/ WriteFails(Head(outc))
        /\ loop' = IF answering = None THEN "requeue" ELSE "requeueFlushing"

TakeBuffer ==
  /\ Selecting
  /\ WriteNext
  /\ UNCHANGED <<buf, retryc, mu, doFlush, drops, callers, left, answering,
                 reconnectFailed, next>>

IgnoresConn == left > 0  \* mutated form of MoreToFlush: conn is not looked at

MoreToFlush == left > 0 /\ conn

FlushOne ==
  /\ loop = "flushing" /\ MoreToFlush
  /\ left' = left - 1
  /\ WriteNext
  /\ UNCHANGED <<buf, retryc, mu, doFlush, drops, callers, answering,
                 reconnectFailed, next>>

AnsweredIfConnected == IF conn THEN closed \cup {answering} ELSE closed
  \* mutated form of Answered: a Flush that loses the connection is left waiting

Answered == closed \cup {answering}

FlushAnswer ==
  /\ loop = "flushing" /\ ~MoreToFlush
  /\ closed' = Answered
  /\ answering' = None
  /\ left' = 0
  /\ loop' = "loop"
  /\ UNCHANGED <<buffers, mu, doFlush, drops, wire, pc, line, asked, current,
                 reconnectFailed, trouble, next>>

Requeue ==
  /\ loop \in {"requeue", "requeueFlushing"}
  /\ retryc = <<>>
  /\ retryc' = <<current>>
  /\ current' = NoBuffer
  /\ loop' = IF loop = "requeue" THEN "loop" ELSE "flushing"
  /\ UNCHANGED <<buf, outc, mu, doFlush, drops, wire, callers, left, answering,
                 reconnectFailed, trouble, next>>

-----------------------------------------------------------------------------
CallerStep(p) == \/ WriteLock(p) \/ WriteLine(p)
                 \/ FlushStart(p) \/ FlushSend(p) \/ FlushReturn(p)

RunStep == \/ ConnectOk \/ ConnectFail \/ DrainOne \/ DrainEnd \/ Wake \/ Retry \/ DropRetry
           \/ Tick \/ TakeFlush \/ TakeBuffer \/ FlushOne \/ FlushAnswer \/ Requeue

Next == RunStep \/ \E p \in Callers : CallerStep(p)

Spec == Init /\ [][Next]_vars

-----------------------------------------------------------------------------
(* Properties.                                                              *)

Buffers == [lines : Seq(Lines), cut : BOOLEAN]
Loops   == {"loop", "drain", "sleep", "dropRetry", "flushing", "requeue", "requeueFlushing"}

TypeOK ==
  /\ buf \in Seq(Lines) /\ outc \in Seq(Buffers) /\ retryc \in Seq(Buffers)
  /\ Len(outc) <= OutCap /\ Len(retryc) <= 1 /\ Len(doFlush) <= FlushCap
  /\ mu \in Callers \cup {None}
  /\ doFlush \in Seq(Callers) /\ closed \subseteq Callers
  /\ conn \in BOOLEAN /\ reconnectFailed \in BOOLEAN
  /\ droppedBytes \in Nat /\ lostBytes \in Nat /\ logs \in Nat
  /\ pc \in [Callers -> {"idle", "write", "send", "await"}]
  /\ line \in [Callers -> 0 .. MaxLines] /\ asked \in [Callers -> 0 .. MaxLines]
  /\ loop \in Loops /\ current \in Buffers
  /\ left \in 0 .. (IF OutCap > FlushCap * 8 THEN OutCap ELSE FlushCap * 8)
  /\ answering \in Callers \cup {None}
  /\ next \in 1 .. MaxLines + 1
  /\ sent \in Seq(Lines) /\ torn \subseteq Lines /\ lost \subseteq Lines
  /\ trouble \in [Callers -> BOOLEAN]

(* retryc holds one buffer, and that is enough for run never to block on it *)
(* (NewNetSink: "It should be okay to limit this given we preferentially    *)
(* process from this over outc").                                           *)
RetryNeverBlocks == loop \in {"requeue", "requeueFlushing"} => retryc = <<>>

(* The lines in a channel.                                                  *)
Contents(bs) == UNION {ToSet(bs[i].lines) : i \in DOMAIN bs}

(* Every line written is in exactly one place: being written, buffered, in  *)
(* a channel, in the hands of run, on the wire, cut in two, or dropped.     *)
Writing == {line[p] : p \in {q \in Callers : pc[q] = "write"}}
Places  == <<Writing, ToSet(buf), Contents(outc), Contents(retryc),
             ToSet(current.lines), ToSet(sent), torn, lost>>

EachLineOnce ==
  /\ UNION {Places[i] : i \in DOMAIN Places} = 1 .. next - 1
  /\ \A i, j \in DOMAIN Places : i < j => Places[i] \cap Places[j] = {}

(* The lines that reach the wire whole do so in the order they were written, *)
(* each of them once, through failures, retries and reconnections.          *)
SentInOrder == \A i, j \in DOMAIN sent : i < j => sent[i] < sent[j]

(* A Flush that returns, no write having failed and run having answered it  *)
(* rather than released it for want of a connection, has put on the wire    *)
(* every line that was written before it and not dropped.                   *)
FlushDelivers ==
  \A p \in closed :
    ~trouble[p] => 1 .. asked[p] \subseteq ToSet(sent) \cup torn \cup lost

(* The logged count of dropped bytes never exceeds what was lost.           *)
DropsNotOverstated == droppedBytes <= lostBytes

(* Drops are logged once for every LogEvery bytes (net_sink.go: "Log once   *)
(* per 32kb of dropped stats"), counting the first of them too.             *)
LogsOncePerInterval == logs <= droppedBytes \div LogEvery + 1

(* A caller that waits in Flush is never forgotten: its request is in the   *)
(* queue, or being answered, or answered; and run, which alone can answer,  *)
(* can always go on, or waits for a caller inside mu that can.              *)
NobodyForgotten ==
  /\ \A p \in Callers : pc[p] = "await" => p \in closed \cup ToSet(doFlush) \cup {answering}
  /\ \/ ENABLED RunStep
     \/ mu # None /\ ENABLED WriteLine(mu)

=============================================================================
