--------------------------- MODULE NetSink_proofs ---------------------------
(***************************************************************************)
(* Proofs about NetSink and about Pipeline, for every set of callers, every *)
(* size of lines and buffers and every capacity of the channels.            *)
(***************************************************************************)
EXTENDS Pipeline, FiniteLemmas

-----------------------------------------------------------------------------
(* Sequences of lines, and of buffers.                                      *)

Sorted(s)    == \A i, j \in DOMAIN s : i < j => s[i] < s[j]
Before(S, T) == \A a \in S, b \in T : a < b

(* Each buffer is in order, and they are in order among themselves.         *)
Chain(bs) ==
  /\ \A i \in DOMAIN bs : Sorted(bs[i].lines)
  /\ \A i, j \in DOMAIN bs : i < j => Before(ToSet(bs[i].lines), ToSet(bs[j].lines))

LEMMA Elements ==
  ASSUME NEW S, NEW s \in Seq(S)
  PROVE  ToSet(s) = {s[i] : i \in 1 .. Len(s)} /\ ToSet(s) \subseteq S
BY DEF ToSet

LEMMA AppendLine ==
  ASSUME NEW s \in Seq(Lines), NEW l \in Lines
  PROVE  /\ ToSet(Append(s, l)) = ToSet(s) \cup {l}
         /\ Sorted(s) /\ Before(ToSet(s), {l}) => Sorted(Append(s, l))
<1>1. ToSet(Append(s, l)) = ToSet(s) \cup {l}
  <2> DEFINE t == Append(s, l)
  <2>1. /\ t \in Seq(Lines) /\ Len(t) = Len(s) + 1 /\ t[Len(s) + 1] = l
        /\ \A i \in 1 .. Len(s) : t[i] = s[i]
    OBVIOUS
  <2> HIDE DEF t
  <2>2. 1 .. Len(t) = 1 .. Len(s) \cup {Len(s) + 1}
    BY <2>1
  <2>3. ToSet(t) = ToSet(s) \cup {l}
    BY <2>1, <2>2, Elements
  <2> QED
    BY <2>3 DEF t
<1>2. ASSUME Sorted(s), Before(ToSet(s), {l})
      PROVE  Sorted(Append(s, l))
  BY <1>2 DEF Sorted, Before, ToSet
<1> QED
  BY <1>1, <1>2

LEMMA TailLines ==
  ASSUME NEW s \in Seq(Lines), s # <<>>
  PROVE  /\ ToSet(s) = {Head(s)} \cup ToSet(Tail(s))
         /\ Head(s) \in Lines /\ Tail(s) \in Seq(Lines)
         /\ Sorted(s) => Sorted(Tail(s)) /\ Before({Head(s)}, ToSet(Tail(s)))
<1> DEFINE t == Tail(s)
           h == Head(s)
<1>1. /\ t \in Seq(Lines) /\ Len(t) = Len(s) - 1 /\ h = s[1] /\ 1 \in 1 .. Len(s)
      /\ h \in Lines /\ \A i \in 1 .. Len(s) - 1 : t[i] = s[i + 1]
  OBVIOUS
<1> HIDE DEF t, h
<1>2. 1 .. Len(s) = {1} \cup {i + 1 : i \in 1 .. Len(t)}
  <2>1. \A j \in 1 .. Len(s) : j = 1 \/ (j - 1 \in 1 .. Len(t) /\ j = (j - 1) + 1)
    BY <1>1
  <2>2. \A i \in 1 .. Len(t) : i + 1 \in 1 .. Len(s)
    BY <1>1
  <2> QED
    BY <1>1, <2>1, <2>2
<1>3. ToSet(s) = {h} \cup ToSet(t)
  <2>1. ToSet(s) = {s[i] : i \in 1 .. Len(s)} /\ ToSet(t) = {t[i] : i \in 1 .. Len(t)}
    BY <1>1, Elements
  <2>2. \A i \in 1 .. Len(t) : t[i] = s[i + 1]
    BY <1>1
  <2>3. ASSUME NEW j \in 1 .. Len(s)
        PROVE  s[j] \in {h} \cup ToSet(t)
    <3>1. CASE j = 1
      BY <1>1, <3>1
    <3>2. CASE j # 1
      <4>1. PICK i \in 1 .. Len(t) : j = i + 1
        BY <1>2, <3>2
      <4> QED
        BY <2>1, <2>2, <4>1
    <3> QED
      BY <3>1, <3>2
  <2>4. \A i \in 1 .. Len(t) : t[i] \in ToSet(s)
    BY <1>2, <2>1, <2>2
  <2>5. h \in ToSet(s)
    BY <1>1, <2>1
  <2> QED
    BY <2>1, <2>3, <2>4, <2>5
<1>4. ASSUME Sorted(s)
      PROVE  Sorted(t) /\ Before({h}, ToSet(t))
  <2>1. \A i, j \in 1 .. Len(s) : i < j => s[i] < s[j]
    BY <1>4 DEF Sorted
  <2>2. \A i \in 1 .. Len(t) : i + 1 \in 1 .. Len(s) /\ t[i] = s[i + 1] /\ 1 < i + 1
    BY <1>1
  <2>3. \A i, j \in 1 .. Len(t) : i < j => t[i] < t[j]
    BY <2>1, <2>2
  <2>4. \A i \in 1 .. Len(t) : h < t[i]
    BY <1>1, <2>1, <2>2
  <2> QED
    BY <1>1, <2>3, <2>4, Elements DEF Sorted, Before
<1> QED
  BY <1>1, <1>3, <1>4 DEF t, h

LEMMA JoinLines ==
  ASSUME NEW s \in Seq(Lines), NEW t \in Seq(Lines)
  PROVE  /\ s \o t \in Seq(Lines)
         /\ ToSet(s \o t) = ToSet(s) \cup ToSet(t)
         /\ Sorted(s) /\ Sorted(t) /\ Before(ToSet(s), ToSet(t)) => Sorted(s \o t)
<1>1. ASSUME NEW l \in ToSet(t)
      PROVE  l \in ToSet(s \o t)
  <2>1. PICK i \in 1 .. Len(t) : l = t[i]
    BY DEF ToSet
  <2>2. i + Len(s) \in 1 .. Len(s \o t) /\ (s \o t)[i + Len(s)] = l
    BY <2>1
  <2> QED
    BY <2>2 DEF ToSet
<1>2. ToSet(s) \subseteq ToSet(s \o t) /\ ToSet(s \o t) \subseteq ToSet(s) \cup ToSet(t)
  BY DEF ToSet
<1>3. ASSUME Sorted(s), Sorted(t), Before(ToSet(s), ToSet(t))
      PROVE  Sorted(s \o t)
  BY <1>3 DEF Sorted, Before, ToSet
<1> QED
  BY <1>1, <1>2, <1>3

LEMMA SplitLines ==
  ASSUME NEW s \in Seq(Lines), NEW k \in 0 .. Len(s)
  PROVE  LET a == SubSeq(s, 1, k)
             b == SubSeq(s, k + 1, Len(s))
         IN /\ a \in Seq(Lines) /\ b \in Seq(Lines)
            /\ Len(a) = k /\ Len(b) = Len(s) - k
            /\ k > 0 => Head(a) = Head(s)
            /\ ToSet(a) \cup ToSet(b) = ToSet(s)
            /\ Sorted(s) => Sorted(a) /\ Sorted(b) /\ Before(ToSet(a), ToSet(b))
<1> DEFINE a == SubSeq(s, 1, k)
           b == SubSeq(s, k + 1, Len(s))
<1>1. /\ a \in Seq(Lines) /\ Len(a) = k /\ \A i \in 1 .. k : a[i] = s[i]
      /\ b \in Seq(Lines) /\ Len(b) = Len(s) - k
      /\ \A i \in 1 .. Len(s) - k : b[i] = s[k + i]
  OBVIOUS
<1> HIDE DEF a, b
<1>2. ToSet(a) \cup ToSet(b) \subseteq ToSet(s)
  <2>1. \A i \in 1 .. k : i \in 1 .. Len(s)
    OBVIOUS
  <2>2. \A i \in 1 .. Len(s) - k : k + i \in 1 .. Len(s)
    OBVIOUS
  <2> QED
    BY <1>1, <2>1, <2>2, Elements
<1>3. ASSUME NEW l \in ToSet(s)
      PROVE  l \in ToSet(a) \cup ToSet(b)
  <2>1. PICK i \in 1 .. Len(s) : l = s[i]
    BY DEF ToSet
  <2>2. CASE i <= k
    BY <1>1, <2>1, <2>2 DEF ToSet
  <2>3. CASE i > k
    <3>1. i - k \in 1 .. Len(b) /\ b[i - k] = l
      BY <1>1, <2>1, <2>3
    <3> QED
      BY <1>1, <3>1 DEF ToSet
  <2> QED
    BY <2>2, <2>3
<1>4. ASSUME Sorted(s)
      PROVE  Sorted(a) /\ Sorted(b) /\ Before(ToSet(a), ToSet(b))
  <2>1. DOMAIN a = 1 .. k /\ DOMAIN b = 1 .. Len(s) - k /\ DOMAIN s = 1 .. Len(s)
    BY <1>1
  <2>2. ASSUME NEW i \in 1 .. k, NEW j \in 1 .. k, i < j
        PROVE  a[i] < a[j]
    <3>1. s[i] < s[j]
      BY <1>4, <2>2 DEF Sorted
    <3> QED
      BY <1>1, <3>1
  <2>3. ASSUME NEW i \in 1 .. Len(s) - k, NEW j \in 1 .. Len(s) - k, i < j
        PROVE  b[i] < b[j]
    <3>1. k + i \in 1 .. Len(s) /\ k + j \in 1 .. Len(s) /\ k + i < k + j
      BY <2>3
    <3>2. s[k + i] < s[k + j]
      BY <1>4, <3>1 DEF Sorted
    <3> QED
      BY <1>1, <3>2
  <2>4. ASSUME NEW i \in 1 .. k, NEW j \in 1 .. Len(s) - k
        PROVE  a[i] < b[j]
    <3>1. k + j \in 1 .. Len(s) /\ i \in 1 .. Len(s) /\ i < k + j
      OBVIOUS
    <3>2. s[i] < s[k + j]
      BY <1>4, <3>1 DEF Sorted
    <3> QED
      BY <1>1, <3>2
  <2> QED
    BY <2>1, <2>2, <2>3, <2>4 DEF Sorted, Before, ToSet
<1>5. k > 0 => Head(a) = Head(s)
  BY <1>1
<1> QED
  BY <1>1, <1>2, <1>3, <1>4, <1>5 DEF a, b

LEMMA AppendBuffer ==
  ASSUME NEW bs \in Seq(Buffers), NEW b \in Buffers
  PROVE  /\ Append(bs, b) \in Seq(Buffers) /\ Len(Append(bs, b)) = Len(bs) + 1
         /\ Append(bs, b)[Len(bs) + 1] = b
         /\ \A i \in 1 .. Len(bs) : Append(bs, b)[i] = bs[i]
         /\ Contents(Append(bs, b)) = Contents(bs) \cup ToSet(b.lines)
         /\ Chain(bs) /\ Sorted(b.lines) /\ Before(Contents(bs), ToSet(b.lines))
              => Chain(Append(bs, b))
<1> DEFINE t == Append(bs, b)
<1>1. /\ t \in Seq(Buffers) /\ Len(t) = Len(bs) + 1 /\ t[Len(bs) + 1] = b
      /\ \A i \in 1 .. Len(bs) : t[i] = bs[i]
  OBVIOUS
<1> HIDE DEF t
<1>2. Contents(t) = Contents(bs) \cup ToSet(b.lines)
  BY <1>1 DEF Contents
<1>3. ASSUME Chain(bs), Sorted(b.lines), Before(Contents(bs), ToSet(b.lines))
      PROVE  Chain(t)
  <2>1. \A i \in 1 .. Len(bs) : Before(ToSet(bs[i].lines), ToSet(b.lines))
    BY <1>3 DEF Contents, Before
  <2> QED
    BY <1>1, <1>3, <2>1 DEF Chain
<1> QED
  BY <1>1, <1>2, <1>3 DEF t

LEMMA TailBuffers ==
  ASSUME NEW bs \in Seq(Buffers), bs # <<>>
  PROVE  /\ Tail(bs) \in Seq(Buffers) /\ Len(Tail(bs)) = Len(bs) - 1 /\ Head(bs) \in Buffers
         /\ \A i \in 1 .. Len(bs) - 1 : Tail(bs)[i] = bs[i + 1]
         /\ Contents(bs) = ToSet(Head(bs).lines) \cup Contents(Tail(bs))
         /\ Chain(bs) => /\ Chain(Tail(bs)) /\ Sorted(Head(bs).lines)
                         /\ Before(ToSet(Head(bs).lines), Contents(Tail(bs)))
<1> DEFINE t == Tail(bs)
           h == Head(bs)
<1>1. /\ t \in Seq(Buffers) /\ Len(t) = Len(bs) - 1 /\ h \in Buffers
      /\ \A i \in 1 .. Len(bs) - 1 : t[i] = bs[i + 1]
      /\ 1 \in 1 .. Len(bs) /\ bs[1] = h
  OBVIOUS
<1> HIDE DEF t, h
<1>2. ToSet(h.lines) \cup Contents(t) \subseteq Contents(bs)
  BY <1>1 DEF Contents
<1>3. ASSUME NEW l \in Contents(bs)
      PROVE  l \in ToSet(h.lines) \cup Contents(t)
  <2>1. PICK i \in 1 .. Len(bs) : l \in ToSet(bs[i].lines)
    BY DEF Contents
  <2>2. CASE i # 1
    <3>1. i - 1 \in 1 .. Len(t) /\ t[i - 1] = bs[i]
      BY <1>1, <2>2
    <3> QED
      BY <1>1, <2>1, <3>1 DEF Contents
  <2> QED
    BY <1>1, <2>1, <2>2
<1>4. ASSUME Chain(bs)
      PROVE  Chain(t) /\ Sorted(h.lines) /\ Before(ToSet(h.lines), Contents(t))
  <2>1. Chain(t) /\ Sorted(h.lines)
    <3>1. DOMAIN t = 1 .. Len(bs) - 1 /\ DOMAIN bs = 1 .. Len(bs)
      BY <1>1
    <3>2. \A i \in 1 .. Len(bs) - 1 : i + 1 \in 1 .. Len(bs)
      OBVIOUS
    <3>3. \A i, j \in 1 .. Len(bs) - 1 : i < j => i + 1 < j + 1
      OBVIOUS
    <3> QED
      BY <1>1, <1>4, <3>1, <3>2, <3>3 DEF Chain
  <2>2. \A i \in 1 .. Len(t) : Before(ToSet(h.lines), ToSet(t[i].lines))
    BY <1>1, <1>4 DEF Chain
  <2> QED
    BY <1>1, <2>1, <2>2 DEF Contents, Before
<1> QED
  BY <1>1, <1>2, <1>3, <1>4 DEF t, h

-----------------------------------------------------------------------------
(* The inductive invariant.                                                 *)

(* Who holds mu and what it writes; a line no buffer can hold meets an      *)
(* empty one.  What run has in its hands: a buffer it could not write only  *)
(* when retryc is empty, so that it can always put it there.                *)
HoldsBuffer == loop \in {"dropRetry", "requeue", "requeueFlushing"}
CutOK(b)    == b.cut => b.lines # <<>>

RunOK ==
  /\ \A p \in Callers : pc[p] = "write" <=> mu = p
  /\ \A p \in Callers : pc[p] = "write" => /\ line[p] = next - 1 /\ line[p] \in Lines
                                           /\ line[p] \in Oversized => buf = <<>>
  /\ answering # None <=> loop \in {"flushing", "requeueFlushing"}
  /\ HoldsBuffer => ~conn
  /\ HoldsBuffer \/ (loop = "flushing" /\ conn) => retryc = <<>>
  /\ ~HoldsBuffer => current = NoBuffer
  /\ CutOK(current) /\ \A i \in DOMAIN retryc : CutOK(retryc[i])
  /\ \A i \in DOMAIN outc : ~outc[i].cut

(* A caller that waits in Flush is in one place: in the queue, once, being  *)
(* answered, or answered.                                                   *)
WaitOK ==
  /\ \A p \in Callers : pc[p] = "await" => p \in closed \cup ToSet(doFlush) \cup {answering}
  /\ \A p \in closed : pc[p] = "await" /\ answering # p
  /\ \A i \in DOMAIN doFlush : /\ pc[doFlush[i]] = "await"
                               /\ doFlush[i] \notin closed /\ answering # doFlush[i]
  /\ \A i, j \in DOMAIN doFlush : doFlush[i] = doFlush[j] => i = j
  /\ answering # None => pc[answering] = "await"

(* The lines of run, in its hands and in retryc.                            *)
InHands == ToSet(current.lines) \cup Contents(retryc)
Queue   == Contents(outc)
Behind  == ToSet(buf) \cup Writing

(* The sink is one queue: what is on the wire comes before what run could   *)
(* not write, that before outc, that before the buffer, that before the     *)
(* line being written.                                                      *)
OrderOK ==
  /\ Sorted(sent) /\ Sorted(current.lines) /\ Chain(retryc) /\ Chain(outc) /\ Sorted(buf)
  /\ Before(ToSet(sent), InHands \cup Queue \cup Behind)
  /\ Before(InHands, Queue \cup Behind)
  /\ Before(Queue, Behind)
  /\ Before(ToSet(buf), Writing)

(* Every line written is somewhere, and nothing cut or lost is anywhere     *)
(* else.                                                                    *)
Alive == ToSet(sent) \cup InHands \cup Queue \cup Behind

PlacesOK ==
  /\ Alive \cup torn \cup lost = 1 .. next - 1
  /\ Alive \cap torn = {} /\ Alive \cap lost = {} /\ torn \cap lost = {}

(* What a Flush waits for is not behind it, and is in the buffers run still *)
(* has to write for it, unless a write has failed since.                    *)
Ahead(p) == pc[p] \in {"send", "await"} =>
              asked[p] < next /\ \A l \in Behind : asked[p] < l

AnswerOK ==
  answering # None /\ ~trouble[answering] =>
    /\ loop = "flushing" /\ conn
    /\ \A i \in DOMAIN outc : i > left => \A l \in ToSet(outc[i].lines) : asked[answering] < l

FlushOK == (\A p \in Callers : Ahead(p)) /\ AnswerOK /\ FlushDelivers

IInv == TypeOK /\ RunOK /\ WaitOK /\ OrderOK /\ PlacesOK /\ FlushOK /\ DropsNotOverstated

-----------------------------------------------------------------------------
(* What the parts of the actions do.                                        *)

LEMMA BytesType ==
  ASSUME NEW ls \in Seq(Lines)
  PROVE  /\ Bytes(ls) \in Nat /\ Bytes(<<>>) = 0
         /\ ls # <<>> => Bytes(ls) > 1
         /\ \A l \in Lines : Size(l) \in Nat
<1>1. ASSUME NEW s \in Seq(Lines)
      PROVE  Cardinality({i \in DOMAIN s : s[i] \in Oversized}) \in Nat
  <2>1. IsFiniteSet(1 .. Len(s))
    BY FS_Interval
  <2>2. IsFiniteSet({i \in DOMAIN s : s[i] \in Oversized})
    BY <2>1, FS_Subset
  <2> QED
    BY <2>2, FS_CardinalityType
<1>2. Bytes(<<>>) = 0
  <2>1. {i \in DOMAIN <<>> : <<>>[i] \in Oversized} = {}
    OBVIOUS
  <2> QED
    BY <2>1, FS_EmptySet, NetSinkAssumption DEF Bytes
<1>3. PICK k \in Nat : k = Cardinality({i \in DOMAIN ls : ls[i] \in Oversized})
  BY <1>1
<1>4. PICK m \in Nat : m = BufSize + 1 - LineSize
  BY NetSinkAssumption
<1>5. Bytes(ls) = LineSize * Len(ls) + m * k
  BY <1>3, <1>4 DEF Bytes
<1>6. m * k \in Nat /\ LineSize * Len(ls) \in Nat
  BY NetSinkAssumption
<1>7. ls # <<>> => LineSize * Len(ls) > 1
  <2> SUFFICES ASSUME ls # <<>>
               PROVE  LineSize * Len(ls) > 1
    BY SMTT(30)
  <2>1. PICK n \in Nat : Len(ls) = n + 1
    <3>1. Len(ls) - 1 \in Nat /\ Len(ls) = (Len(ls) - 1) + 1
      OBVIOUS
    <3> QED
      BY <3>1
  <2>2. LineSize * Len(ls) = LineSize * n + LineSize /\ LineSize * n \in Nat
    BY <2>1, NetSinkAssumption
  <2> QED
    BY <2>2, NetSinkAssumption
<1>8. \A l \in Lines : Size(l) \in Nat
  BY NetSinkAssumption DEF Size
<1> QED
  BY <1>2, <1>5, <1>6, <1>7, <1>8

LEMMA RemainingType ==
  ASSUME NEW b \in Buffers, CutOK(b)
  PROVE  Remaining(b) \in Nat
<1>1. b.lines \in Seq(Lines) /\ b.cut \in BOOLEAN
  BY DEF Buffers
<1> QED
  BY <1>1, BytesType DEF Remaining, CutOK

LEMMA EmptyBuffer ==
  /\ NoBuffer \in Buffers /\ NoBuffer.lines = <<>> /\ ~NoBuffer.cut /\ CutOK(NoBuffer)
  /\ ToSet(<<>>) = {} /\ Contents(<<>>) = {} /\ Sorted(<<>>) /\ Chain(<<>>)
  /\ \A ls \in Seq(Lines) : /\ Buffer(ls) \in Buffers /\ Buffer(ls).lines = ls
                            /\ ~Buffer(ls).cut
<1>1. NoBuffer \in Buffers /\ NoBuffer.lines = <<>> /\ ~NoBuffer.cut
  BY DEF NoBuffer, Buffer, Buffers
<1>2. ToSet(<<>>) = {} /\ Contents(<<>>) = {} /\ Sorted(<<>>) /\ Chain(<<>>)
  BY DEF ToSet, Contents, Sorted, Chain
<1>3. \A ls \in Seq(Lines) : /\ Buffer(ls) \in Buffers /\ Buffer(ls).lines = ls
                             /\ ~Buffer(ls).cut
  BY DEF Buffer, Buffers
<1> QED
  BY <1>1, <1>2, <1>3 DEF CutOK

(* Dropping counts bytes and lines.                                         *)
LEMMA DropEffect ==
  ASSUME TypeOK, NEW d \in Nat, NEW n \in Nat, NEW gone \in SUBSET Lines,
         HandleFlushError(d, gone, n)
  PROVE  /\ droppedBytes' \in Nat /\ lostBytes' \in Nat /\ logs' \in Nat
         /\ lost' = lost \cup gone /\ lost' \subseteq Lines
         /\ d <= n /\ DropsNotOverstated => DropsNotOverstated'
BY DEF HandleFlushError, TypeOK, DropsNotOverstated

(* A flush of the buffer moves it to the end of outc, or loses it.          *)
FlushedTo ==
  \/ /\ lost' = lost \cup ToSet(buf) /\ outc' = outc
     /\ buf # <<>> /\ FlushFails
  \/ /\ lost' = lost /\ outc' = outc /\ buf = <<>> /\ ~FlushFails
  \/ /\ lost' = lost /\ outc' = Append(outc, Buffer(buf)) /\ ~FlushFails
     /\ Len(outc) < OutCap

LEMMA FlushBufEffect ==
  ASSUME TypeOK, FlushBuf
  PROVE  /\ buf' = <<>> /\ FlushedTo
         /\ outc' \in Seq(Buffers) /\ Len(outc') <= OutCap
         /\ droppedBytes' \in Nat /\ lostBytes' \in Nat /\ logs' \in Nat
         /\ lost' \subseteq Lines
         /\ DropsNotOverstated => DropsNotOverstated'
<1>1. buf \in Seq(Lines) /\ ToSet(buf) \in SUBSET Lines /\ Bytes(buf) \in Nat
  BY BytesType, Elements DEF TypeOK
<1>2. buf' = <<>>
  BY DEF FlushBuf
<1>3. CASE FlushFails
  <2>1. HandleFlushError(Bytes(buf), ToSet(buf), Bytes(buf)) /\ outc' = outc
    BY <1>3 DEF FlushBuf
  <2>2. Bytes(buf) <= Bytes(buf)
    BY <1>1
  <2> QED
    BY <1>1, <1>2, <1>3, <2>1, <2>2, DropEffect DEF FlushedTo, FlushFails, TypeOK
<1>4. CASE ~FlushFails
  <2>1. /\ outc' = IF buf = <<>> THEN outc ELSE Append(outc, Buffer(buf))
        /\ UNCHANGED <<droppedBytes, lost, lostBytes, logs>>
    BY <1>4 DEF FlushBuf, drops
  <2>2. buf # <<>> => Len(outc) < OutCap
    BY <1>4, NetSinkAssumption DEF FlushFails, OutcFull, TypeOK
  <2>3. Buffer(buf) \in Buffers /\ outc \in Seq(Buffers)
    BY <1>1, EmptyBuffer DEF TypeOK
  <2>4. FlushedTo
    BY <1>4, <2>1, <2>2 DEF FlushedTo
  <2>5. outc' \in Seq(Buffers) /\ Len(outc') <= OutCap
    BY <2>1, <2>2, <2>3, AppendBuffer, NetSinkAssumption DEF TypeOK
  <2> QED
    BY <1>2, <2>1, <2>4, <2>5 DEF TypeOK, DropsNotOverstated
<1> QED
  BY <1>3, <1>4

(* A buffer is the lines it will put on the wire whole, and the cut one.    *)
LEMMA PiecesOf ==
  ASSUME NEW b \in Buffers, CutOK(b), Sorted(b.lines)
  PROVE  /\ Whole(b) \in Seq(Lines) /\ Cut(b) \in SUBSET Lines /\ Sorted(Whole(b))
         /\ ToSet(Whole(b)) \cup Cut(b) = ToSet(b.lines)
         /\ ToSet(Whole(b)) \cap Cut(b) = {}
<1>1. b.lines \in Seq(Lines) /\ b.cut \in BOOLEAN
  BY DEF Buffers
<1>2. CASE ~b.cut
  BY <1>1, <1>2 DEF Whole, Cut
<1>3. CASE b.cut
  <2>1. b.lines # <<>>
    BY <1>3 DEF CutOK
  <2>2. /\ ToSet(b.lines) = {Head(b.lines)} \cup ToSet(Tail(b.lines))
        /\ Head(b.lines) \in Lines /\ Tail(b.lines) \in Seq(Lines)
        /\ Sorted(Tail(b.lines)) /\ Before({Head(b.lines)}, ToSet(Tail(b.lines)))
    BY <1>1, <2>1, TailLines
  <2>3. Head(b.lines) \notin ToSet(Tail(b.lines))
    <3>1. Head(b.lines) \in ToSet(Tail(b.lines)) => Head(b.lines) < Head(b.lines)
      BY <2>2 DEF Before
    <3>2. Head(b.lines) \in Int
      BY <2>2 DEF Lines
    <3> QED
      BY <3>1, <3>2
  <2>4. Whole(b) = Tail(b.lines) /\ Cut(b) = {Head(b.lines)}
    BY <1>3 DEF Whole, Cut
  <2> QED
    BY <2>2, <2>3, <2>4
<1> QED
  BY <1>1, <1>2, <1>3

(* A write puts the lines w on the wire, cuts those of x for good, and      *)
(* leaves the buffer u, of which nothing has gone out whole.                *)
Outcome(b, w, x, u) ==
  /\ sent' \in Seq(Lines) /\ Sorted(sent') /\ ToSet(sent') = ToSet(sent) \cup w
  /\ torn' = torn \cup x
  /\ w \cup x \cup ToSet(u.lines) = ToSet(b.lines)
  /\ w \cap x = {} /\ (w \cup x) \cap ToSet(u.lines) = {}
  /\ Before(w, ToSet(u.lines)) /\ Sorted(u.lines) /\ CutOK(u)
  /\ \/ WriteOk(b) /\ u = NoBuffer /\ UNCHANGED <<conn, current, trouble>>
     \/ /\ WriteFails(b) /\ current' = u /\ conn' = FALSE
        /\ trouble' = [p \in Callers |-> TRUE]

LEMMA NonEmpty ==
  ASSUME NEW S, NEW s \in Seq(S)
  PROVE  s # <<>> <=> Len(s) > 0
OBVIOUS

LEMMA Apart ==
  ASSUME NEW S \in SUBSET Lines, NEW T \in SUBSET Lines, Before(S, T)
  PROVE  S \cap T = {}
<1> SUFFICES ASSUME NEW l \in S, l \in T
             PROVE  FALSE
  OBVIOUS
<1>1. l < l /\ l \in Int
  BY DEF Before, Lines
<1> QED
  BY <1>1

LEMMA WriteEffect ==
  ASSUME NEW b \in Buffers, CutOK(b), Sorted(b.lines), TypeOK, Sorted(sent),
         Before(ToSet(sent), ToSet(b.lines)), WriteOk(b) \/ WriteFails(b)
  PROVE  \E w, x \in SUBSET Lines, u \in Buffers : Outcome(b, w, x, u)
<1>1. b.lines \in Seq(Lines) /\ b.cut \in BOOLEAN /\ sent \in Seq(Lines)
  BY DEF Buffers, TypeOK
<1>2. ASSUME WriteOk(b)
      PROVE  Outcome(b, ToSet(Whole(b)), Cut(b), NoBuffer)
  <2>1. sent' = sent \o Whole(b) /\ torn' = torn \cup Cut(b)
        /\ UNCHANGED <<conn, current, trouble>>
    BY <1>2 DEF WriteOk
  <2>2. Before(ToSet(sent), ToSet(Whole(b)))
    BY PiecesOf DEF Before
  <2>3. sent' \in Seq(Lines) /\ Sorted(sent') /\ ToSet(sent') = ToSet(sent) \cup ToSet(Whole(b))
    BY <1>1, <2>1, <2>2, PiecesOf, JoinLines
  <2>4. ToSet(NoBuffer.lines) = {} /\ Sorted(NoBuffer.lines) /\ CutOK(NoBuffer)
    BY EmptyBuffer
  <2>5. Before(ToSet(Whole(b)), {})
    BY DEF Before
  <2> QED
    BY <1>2, <2>1, <2>3, <2>4, <2>5, PiecesOf DEF Outcome
<1>3. ASSUME NEW k \in 0 .. Len(b.lines) - 1, NEW cutNow \in BOOLEAN,
             LET out == [b EXCEPT !.lines = SubSeq(@, 1, k)]
             IN /\ sent' = IF k = 0 THEN sent ELSE sent \o Whole(out)
                /\ torn' = IF k = 0 THEN torn ELSE torn \cup Cut(out)
                /\ current' = [lines |-> Unwritten(b, k),
                               cut |-> cutNow \/ (k = 0 /\ b.cut)],
             WriteFails(b)
      PROVE  \E w, x \in SUBSET Lines, u \in Buffers : Outcome(b, w, x, u)
  <2> DEFINE out == [b EXCEPT !.lines = SubSeq(@, 1, k)]
             u == [lines |-> SubSeq(b.lines, k + 1, Len(b.lines)),
                   cut |-> cutNow \/ (k = 0 /\ b.cut)]
  <2>1. /\ sent' = IF k = 0 THEN sent ELSE sent \o Whole(out)
        /\ torn' = IF k = 0 THEN torn ELSE torn \cup Cut(out)
        /\ current' = u /\ conn' = FALSE /\ trouble' = [p \in Callers |-> TRUE]
    BY <1>3 DEF WriteFails, Unwritten
  <2>2. /\ out.lines \in Seq(Lines) /\ u.lines \in Seq(Lines)
        /\ Len(out.lines) = k /\ Len(u.lines) = Len(b.lines) - k
        /\ ToSet(out.lines) \cup ToSet(u.lines) = ToSet(b.lines)
        /\ Sorted(out.lines) /\ Sorted(u.lines)
        /\ Before(ToSet(out.lines), ToSet(u.lines))
        /\ out.cut = b.cut
    <3>1. k \in 0 .. Len(b.lines)
      BY <1>1
    <3>2. out.lines = SubSeq(b.lines, 1, k) /\ out.cut = b.cut
      BY DEF Buffers
    <3>3. u.lines = SubSeq(b.lines, k + 1, Len(b.lines))
      OBVIOUS
    <3> QED
      BY <1>1, <3>1, <3>2, <3>3, SplitLines
  <2>3. u \in Buffers /\ CutOK(u)
    <3>1. u.cut \in BOOLEAN
      BY <1>1
    <3>2. u.lines # <<>>
      <4>1. Len(u.lines) = Len(b.lines) - k /\ u.lines \in Seq(Lines) /\ Len(b.lines) \in Nat
        BY <1>1, <2>2
      <4> HIDE DEF u, out
      <4>2. Len(u.lines) > 0
        BY ONLY <4>1, k \in 0 .. Len(b.lines) - 1
      <4> QED
        BY <4>1, <4>2, NonEmpty
    <3> QED
      BY <2>2, <3>1, <3>2 DEF Buffers, CutOK
  <2>4. out \in Buffers
    BY <2>2 DEF Buffers
  <2> HIDE DEF out, u
  <2>5. CASE k = 0
    <3>1. ToSet(out.lines) = {}
      BY <2>2, <2>5, Elements
    <3>2. Outcome(b, {}, {}, u)
      BY <1>1, <1>3, <2>1, <2>2, <2>3, <2>5, <3>1 DEF Outcome, Before
    <3> QED
      BY <2>3, <3>2
  <2>6. CASE k # 0
    <3>1. CutOK(out)
      BY <2>2, <2>6 DEF CutOK
    <3>2. /\ Whole(out) \in Seq(Lines) /\ Cut(out) \in SUBSET Lines /\ Sorted(Whole(out))
          /\ ToSet(Whole(out)) \cup Cut(out) = ToSet(out.lines)
          /\ ToSet(Whole(out)) \cap Cut(out) = {}
      BY <2>2, <2>4, <3>1, PiecesOf
    <3>3. Before(ToSet(sent), ToSet(Whole(out)))
      BY <2>2, <3>2 DEF Before
    <3>4. sent' = sent \o Whole(out) /\ torn' = torn \cup Cut(out)
      BY <2>1, <2>6
    <3>5. /\ sent' \in Seq(Lines)
          /\ Sorted(sent')
          /\ ToSet(sent') = ToSet(sent) \cup ToSet(Whole(out))
      BY <1>1, <3>2, <3>3, <3>4, JoinLines
    <3>6. ToSet(out.lines) \in SUBSET Lines /\ ToSet(u.lines) \in SUBSET Lines
      BY <2>2, Elements
    <3>7. ToSet(out.lines) \cap ToSet(u.lines) = {}
      BY <2>2, <3>6, Apart
    <3>8. Before(ToSet(Whole(out)), ToSet(u.lines))
      BY <2>2, <3>2 DEF Before
    <3>9. Outcome(b, ToSet(Whole(out)), Cut(out), u)
      BY <1>3, <2>1, <2>2, <2>3, <3>2, <3>4, <3>5, <3>7, <3>8 DEF Outcome
    <3>10. ToSet(Whole(out)) \in SUBSET Lines
      BY <3>2, Elements
    <3> QED
      BY <2>3, <3>2, <3>9, <3>10
  <2> QED
    BY <2>5, <2>6
<1>4. CASE WriteFails(b)
  BY <1>3, <1>4 DEF WriteFails
<1>5. CASE WriteOk(b)
  <2>1. ToSet(Whole(b)) \in SUBSET Lines
    BY PiecesOf, Elements
  <2> QED
    BY <1>2, <1>5, <2>1, PiecesOf, EmptyBuffer
<1> QED
  BY <1>4, <1>5

-----------------------------------------------------------------------------
(* What every step needs.                                                   *)

(* The places hold lines, and only the caller inside mu is writing one.     *)
LEMMA PlaceTypes ==
  ASSUME TypeOK, RunOK
  PROVE  /\ ToSet(sent) \in SUBSET Lines /\ ToSet(buf) \in SUBSET Lines
         /\ ToSet(current.lines) \in SUBSET Lines
         /\ Contents(outc) \in SUBSET Lines /\ Contents(retryc) \in SUBSET Lines
         /\ Writing = (IF mu = None THEN {} ELSE {line[mu]})
         /\ Writing \in SUBSET Lines
<1>1. current.lines \in Seq(Lines) /\ sent \in Seq(Lines) /\ buf \in Seq(Lines)
  BY DEF TypeOK, Buffers
<1>2. ASSUME NEW bs \in Seq(Buffers)
      PROVE  Contents(bs) \in SUBSET Lines
  <2>1. ASSUME NEW i \in DOMAIN bs
        PROVE  ToSet(bs[i].lines) \subseteq Lines
    <3>1. bs[i] \in Buffers
      OBVIOUS
    <3> QED
      BY <3>1, Elements DEF Buffers
  <2> QED
    BY <2>1 DEF Contents
<1>3. Writing = (IF mu = None THEN {} ELSE {line[mu]})
  <2>1. ASSUME NEW l \in Writing
        PROVE  mu # None /\ l = line[mu]
    BY NetSinkAssumption DEF Writing, RunOK
  <2>2. mu # None => line[mu] \in Writing
    BY DEF Writing, RunOK, TypeOK
  <2> QED
    BY <2>1, <2>2
<1>4. Writing \in SUBSET Lines
  BY DEF Writing, RunOK
<1> QED
  BY <1>1, <1>2, <1>3, <1>4, Elements DEF TypeOK

(* Nothing moves in a step that leaves the places alone.                    *)
LEMMA LinesKept ==
  ASSUME OrderOK, PlacesOK, UNCHANGED <<sent, current, retryc, outc, buf, torn, lost, next>>,
         Writing' = Writing
  PROVE  OrderOK' /\ PlacesOK'
<1>1. /\ ToSet(sent)' = ToSet(sent) /\ ToSet(buf)' = ToSet(buf)
      /\ InHands' = InHands /\ Queue' = Queue
  BY DEF InHands, Queue, Contents, ToSet
<1>2. Behind' = Behind
  BY <1>1 DEF Behind
<1>3. Alive' = Alive
  BY <1>1, <1>2 DEF Alive
<1>4. PlacesOK'
  BY <1>3 DEF PlacesOK
<1>5. /\ Sorted(sent') /\ Sorted(current'.lines) /\ Chain(retryc') /\ Chain(outc')
      /\ Sorted(buf')
  BY DEF OrderOK
<1>6. OrderOK'
  BY <1>1, <1>2, <1>5 DEF OrderOK, Before, Sorted, Chain
<1> QED
  BY <1>4, <1>6

LEMMA WritingKept ==
  ASSUME UNCHANGED line, \A p \in Callers : pc'[p] = "write" <=> pc[p] = "write"
  PROVE  Writing' = Writing
BY DEF Writing

(* The lines behind a Flush stay behind it.                                 *)
LEMMA AheadKept ==
  ASSUME TypeOK, FlushOK, next' \in Nat, next <= next',
         \A l \in Behind' : l \in Behind \/ next <= l,
         \A p \in Callers : pc'[p] \in {"send", "await"} =>
           pc[p] \in {"send", "await"} /\ asked'[p] = asked[p],
         Behind' \subseteq Lines
  PROVE  \A p \in Callers : Ahead(p)'
<1> SUFFICES ASSUME NEW p \in Callers, pc'[p] \in {"send", "await"}
             PROVE  asked'[p] < next' /\ \A l \in Behind' : asked'[p] < l
  BY DEF Ahead
<1>1. asked[p] \in Int /\ next \in Int /\ asked'[p] = asked[p]
  BY DEF TypeOK
<1>2. asked[p] < next /\ \A l \in Behind : asked[p] < l
  BY DEF FlushOK, Ahead
<1>3. ASSUME NEW l \in Behind'
      PROVE  asked[p] < l
  <2>1. l \in Int
    BY DEF Lines
  <2> QED
    BY <1>1, <1>2, <2>1
<1> QED
  BY <1>1, <1>2, <1>3

(* What a Flush is answered for stays ahead of what comes after it.         *)
LEMMA AnswerKept ==
  ASSUME TypeOK, WaitOK, FlushOK, UNCHANGED <<answering, loop, conn, left>>,
         answering # None =>
           asked'[answering] = asked[answering] /\ (trouble[answering] => trouble'[answering]),
         \A i \in DOMAIN outc' : \/ i \in DOMAIN outc /\ outc'[i] = outc[i]
                                 \/ ToSet(outc'[i].lines) \subseteq Behind
  PROVE  AnswerOK'
<1> SUFFICES ASSUME answering # None, ~trouble[answering]
             PROVE  /\ loop = "flushing" /\ conn
                    /\ \A i \in DOMAIN outc' : i > left =>
                         \A l \in ToSet(outc'[i].lines) : asked[answering] < l
  BY DEF AnswerOK, ToSet
<1>1. Ahead(answering) /\ pc[answering] = "await"
  BY DEF FlushOK, WaitOK, TypeOK
<1>2. \A l \in Behind : asked[answering] < l
  BY <1>1 DEF Ahead
<1> QED
  BY <1>2 DEF FlushOK, AnswerOK

(* What was delivered stays delivered.                                      *)
LEMMA DeliversKept ==
  ASSUME FlushOK, closed' \subseteq closed,
         \A p \in closed' : asked'[p] = asked[p] /\ (trouble[p] => trouble'[p]),
         ToSet(sent) \cup torn \cup lost \subseteq ToSet(sent') \cup torn' \cup lost'
  PROVE  FlushDelivers'
<1>1. \A p \in closed : ~trouble[p] => 1 .. asked[p] \subseteq ToSet(sent) \cup torn \cup lost
  BY DEF FlushOK, FlushDelivers
<1>2. ToSet(sent)' = ToSet(sent')
  BY DEF ToSet
<1> QED
  BY <1>1, <1>2 DEF FlushDelivers

(* A step that may flush the buffer, and moves nothing else, keeps every    *)
(* line and the order of outc.                                              *)
Shifted ==
  /\ buf' \in {<<>>, buf} /\ buf' \in Seq(Lines)
  /\ outc' \in Seq(Buffers) /\ Len(outc') <= OutCap
  /\ droppedBytes' \in Nat /\ lostBytes' \in Nat /\ logs' \in Nat /\ lost' \subseteq Lines
  /\ DropsNotOverstated'
  /\ Chain(outc') /\ \A i \in DOMAIN outc' : ~outc'[i].cut
  /\ ToSet(buf') \cup Contents(outc') \cup lost' = ToSet(buf) \cup Contents(outc) \cup lost
  /\ ToSet(buf') \subseteq ToSet(buf) /\ lost \subseteq lost'
  /\ Contents(outc') \subseteq Contents(outc) \cup ToSet(buf)
  /\ Contents(outc') \cap lost' = {} /\ ToSet(buf') \cap lost' = {}
  /\ Before(Contents(outc'), ToSet(buf'))
  /\ \A i \in DOMAIN outc' : \/ i \in DOMAIN outc /\ outc'[i] = outc[i]
                             \/ ToSet(outc'[i].lines) \subseteq ToSet(buf)

LEMMA Shift ==
  ASSUME IInv, FlushBuf \/ UNCHANGED <<buf, outc, drops>>
  PROVE  Shifted
<1>1. /\ Contents(outc) \cap lost = {} /\ ToSet(buf) \cap lost = {}
      /\ Before(Contents(outc), ToSet(buf))
  BY DEF IInv, PlacesOK, Alive, Queue, Behind, OrderOK, Before
<1>2. Contents(outc) \cap ToSet(buf) = {}
  BY <1>1, PlaceTypes, Apart DEF IInv
<1>3. /\ Chain(outc) /\ Sorted(buf) /\ outc \in Seq(Buffers) /\ buf \in Seq(Lines)
      /\ Len(outc) <= OutCap /\ \A i \in DOMAIN outc : ~outc[i].cut
  BY DEF IInv, OrderOK, TypeOK, RunOK
<1>4. CASE UNCHANGED <<buf, outc, drops>>
  BY <1>1, <1>3, <1>4 DEF IInv, Shifted, drops, TypeOK, DropsNotOverstated
<1>5. CASE FlushBuf
  <2>1. /\ buf' = <<>> /\ FlushedTo
        /\ outc' \in Seq(Buffers) /\ Len(outc') <= OutCap
        /\ droppedBytes' \in Nat /\ lostBytes' \in Nat /\ logs' \in Nat
        /\ lost' \subseteq Lines /\ DropsNotOverstated'
    BY <1>5, FlushBufEffect DEF IInv
  <2>2. /\ ToSet(buf') = {} /\ Before(Contents(outc'), ToSet(buf'))
        /\ buf' \in Seq(Lines) /\ (buf = <<>> => ToSet(buf) = {})
    BY <2>1, EmptyBuffer DEF Before
  <2>3. CASE outc' = outc
    BY <1>1, <1>2, <1>3, <2>1, <2>2, <2>3, AppendBuffer DEF FlushedTo, Shifted
  <2>4. CASE outc' = Append(outc, Buffer(buf)) /\ lost' = lost
    <3> DEFINE b == Buffer(buf)
    <3>1. b \in Buffers /\ b.lines = buf /\ ~b.cut
      BY <1>3, EmptyBuffer
    <3> HIDE DEF b
    <3>2. /\ Len(outc') = Len(outc) + 1 /\ outc'[Len(outc) + 1] = b
          /\ \A i \in 1 .. Len(outc) : outc'[i] = outc[i]
          /\ Contents(outc') = Contents(outc) \cup ToSet(buf) /\ Chain(outc')
      BY <1>1, <1>3, <2>4, <3>1, AppendBuffer DEF b
    <3>3. \A i \in DOMAIN outc' : i \in DOMAIN outc \/ i = Len(outc) + 1
      BY <1>3, <2>1, <3>2
    <3>4. \A i \in DOMAIN outc' : \/ i \in DOMAIN outc /\ outc'[i] = outc[i]
                                  \/ outc'[i] = b
      BY <1>3, <3>2, <3>3
    <3> QED
      BY <1>1, <1>2, <1>3, <2>1, <2>2, <2>4, <3>1, <3>2, <3>4 DEF Shifted
  <2> QED
    BY <2>1, <2>3, <2>4 DEF FlushedTo
<1> QED
  BY <1>4, <1>5

(* It may also hand out the number of the next line.                        *)
LEMMA ShiftOrder ==
  ASSUME IInv, Shifted, mu = None, UNCHANGED <<sent, current, retryc, torn>>,
         next' \in {next, next + 1}, Writing' = next .. next' - 1
  PROVE  OrderOK' /\ PlacesOK' /\ Behind' = ToSet(buf') \cup Writing'
<1>1. Writing = {} /\ next \in Nat
  BY PlaceTypes DEF IInv, TypeOK
<1>2. /\ ToSet(sent)' = ToSet(sent) /\ ToSet(buf)' = ToSet(buf') /\ InHands' = InHands
      /\ Queue' = Contents(outc') /\ Behind' = ToSet(buf') \cup Writing'
      /\ Queue = Contents(outc) /\ Behind = ToSet(buf)
  BY <1>1 DEF InHands, Queue, Behind, Contents, ToSet
<1>3. \A l \in Alive : l \in Int /\ l < next
  BY <1>1 DEF IInv, PlacesOK
<1>4. \A l \in Writing' : l = next
  <2>1. CASE next' = next
    BY <1>1, <2>1
  <2>2. CASE next' = next + 1
    <3>1. next .. next' - 1 = {next}
      BY <1>1, <2>2
    <3> QED
      BY <3>1
  <2> QED
    BY <2>1, <2>2
<1>5. OrderOK'
  <2>1. /\ Sorted(sent') /\ Sorted(current'.lines) /\ Chain(retryc') /\ Chain(outc')
        /\ Sorted(buf')
    BY EmptyBuffer DEF IInv, OrderOK, Shifted
  <2>2. Before(ToSet(sent), InHands \cup Contents(outc') \cup ToSet(buf') \cup Writing')
    BY <1>2, <1>3, <1>4 DEF IInv, OrderOK, Shifted, Before, Alive
  <2>3. Before(InHands, Contents(outc') \cup ToSet(buf') \cup Writing')
    BY <1>2, <1>3, <1>4 DEF IInv, OrderOK, Shifted, Before, Alive
  <2>4. /\ Before(Contents(outc'), ToSet(buf') \cup Writing')
        /\ Before(ToSet(buf'), Writing')
    BY <1>2, <1>3, <1>4 DEF Shifted, Before, Alive
  <2> QED
    BY <1>2, <2>1, <2>2, <2>3, <2>4 DEF OrderOK, Before, Sorted, Chain
<1>6. PlacesOK'
  <2> DEFINE rest == ToSet(sent) \cup InHands
             now == rest \cup Contents(outc') \cup ToSet(buf') \cup Writing'
  <2>1. Alive' = now /\ Alive = rest \cup Contents(outc) \cup ToSet(buf)
    BY <1>2, <1>1 DEF Alive
  <2>2. /\ Alive \cup torn \cup lost = 1 .. next - 1
        /\ Alive \cap torn = {} /\ Alive \cap lost = {} /\ torn \cap lost = {}
    BY DEF IInv, PlacesOK
  <2> HIDE DEF rest
  <2>3. now \cup torn \cup lost' = 1 .. next' - 1
    <3>1. 1 .. next' - 1 = 1 .. next - 1 \cup Writing'
      BY <1>1, next \in 1 .. MaxLines + 1 DEF IInv, TypeOK
    <3> QED
      BY <2>1, <2>2, <3>1 DEF Shifted
  <2>4. ASSUME NEW l \in now \cup torn \cup lost'
        PROVE  /\ l \notin now \/ l \notin torn
               /\ l \notin now \/ l \notin lost'
               /\ l \notin torn \/ l \notin lost'
    <3>1. l \in Writing' => l \notin Alive \cup torn \cup lost
      BY <1>1, <1>4, <2>2
    <3>2. rest \cap (Contents(outc) \cup ToSet(buf)) = {}
      <4>1. Before(rest, Contents(outc) \cup ToSet(buf))
        BY <1>2 DEF rest, IInv, OrderOK, Before
      <4>2. rest \in SUBSET Lines /\ Contents(outc) \cup ToSet(buf) \in SUBSET Lines
        BY PlaceTypes DEF rest, InHands, IInv
      <4> QED
        BY <4>1, <4>2, Apart
    <3>3. l \notin ToSet(buf') \cup Contents(outc') \/ l \notin lost'
      BY DEF Shifted
    <3>4. /\ ToSet(buf') \cup Contents(outc') \subseteq ToSet(buf) \cup Contents(outc)
          /\ lost' \subseteq lost \cup ToSet(buf) \cup Contents(outc)
      BY DEF Shifted
    <3> QED
      BY <2>1, <2>2, <3>1, <3>2, <3>3, <3>4
  <2> QED
    BY <2>1, <2>3, <2>4 DEF PlacesOK
<1> QED
  BY <1>2, <1>5, <1>6

-----------------------------------------------------------------------------
(* The steps of the callers.                                                *)

LEMMA WriteLockStep ==
  ASSUME IInv, NEW p \in Callers, WriteLock(p)
  PROVE  IInv'
<1> USE DEF IInv
<1>1. /\ pc[p] = "idle" /\ mu = None /\ next \in Lines /\ next' = next + 1 /\ mu' = p
      /\ line' = [line EXCEPT ![p] = next] /\ pc' = [pc EXCEPT ![p] = "write"]
      /\ UNCHANGED <<retryc, doFlush, conn, sent, torn, asked, closed, loop, current, left,
                     answering, reconnectFailed, trouble>>
  BY DEF WriteLock, TypeOK, Lines, wire, runner
<1>2. Shifted
  BY Shift DEF WriteLock, drops
<1>3. next \in Oversized => buf' = <<>>
  <2>1. ASSUME next \in Oversized
        PROVE  NeedsRoom(next)
    <3>1. Bytes(buf) \in Nat /\ Size(next) = BufSize + 1
      BY <2>1, BytesType DEF TypeOK, Size
    <3> QED
      BY <3>1, NetSinkAssumption DEF NeedsRoom, Available
  <2> QED
    BY <2>1 DEF WriteLock, FlushBuf
<1>4. \A q \in Callers : pc[q] # "write"
  BY <1>1, NetSinkAssumption DEF RunOK
<1>5. TypeOK'
  <2>1. /\ buf' \in Seq(Lines)
        /\ next' \in 1 .. MaxLines + 1 /\ next \in 0 .. MaxLines
    <3>1. buf' \in Seq(Lines)
      BY <1>2 DEF Shifted
    <3> QED
      BY <1>1, <3>1, NetSinkAssumption DEF Lines
  <2>2. /\ pc' \in [Callers -> {"idle", "write", "send", "await"}]
        /\ line' \in [Callers -> 0 .. MaxLines]
    BY <1>1, <2>1 DEF TypeOK
  <2> QED
    BY <1>1, <1>2, <2>1, <2>2 DEF TypeOK, Shifted
<1>6. RunOK'
  <2>1. \A q \in Callers : pc'[q] = "write" <=> mu' = q
    BY <1>1, <1>4 DEF TypeOK
  <2>2. line'[p] = next' - 1 /\ line'[p] \in Lines
    BY <1>1 DEF TypeOK, Lines
  <2>3. \A q \in Callers : pc'[q] = "write" => q = p
    BY <1>1, <2>1
  <2>4. \A q \in Callers : pc'[q] = "write" =>
          /\ line'[q] = next' - 1 /\ line'[q] \in Lines
          /\ line'[q] \in Oversized => buf' = <<>>
    BY <1>1, <1>3, <2>2, <2>3 DEF TypeOK
  <2>5. \A i \in DOMAIN outc' : ~outc'[i].cut
    BY <1>2 DEF Shifted
  <2> QED
    BY <1>1, <2>1, <2>4, <2>5 DEF RunOK, HoldsBuffer, CutOK
<1>7. WaitOK'
  BY <1>1 DEF WaitOK, TypeOK, ToSet
<1>8. Writing' = next .. next' - 1
  <2>1. Writing' = {line'[p]} /\ line'[p] = next
    <3>1. \A q \in Callers : pc'[q] = "write" <=> q = p
      BY <1>1, <1>6 DEF RunOK
    <3> QED
      BY <1>1, <3>1 DEF Writing, TypeOK
  <2>2. next .. next' - 1 = {next}
    BY <1>1 DEF TypeOK, Lines
  <2> QED
    BY <2>1, <2>2
<1>9. OrderOK' /\ PlacesOK' /\ Behind' = ToSet(buf') \cup Writing'
  BY <1>1, <1>2, <1>8, ShiftOrder
<1>10. \A l \in Behind' : l \in Behind \/ next <= l
  BY <1>1, <1>2, <1>8, <1>9 DEF Behind, Shifted, TypeOK
<1>11. \A q \in Callers : Ahead(q)'
  <2>1. Behind' \subseteq Lines
    <3>1. Writing' \subseteq Lines
      BY <1>5, <1>6, PlaceTypes DEF Writing, RunOK
    <3> QED
      BY <1>2, <1>9, <3>1, PlaceTypes DEF Shifted
  <2>2. next' \in Nat /\ next <= next'
    <3>1. next \in Nat /\ next' = next + 1
      BY <1>1 DEF Lines
    <3> QED
      BY ONLY <3>1
  <2>3. \A q \in Callers : pc'[q] \in {"send", "await"} =>
          pc[q] \in {"send", "await"} /\ asked'[q] = asked[q]
    BY <1>1
  <2>4. TypeOK /\ FlushOK
    OBVIOUS
  <2> QED
    BY ONLY <1>10, <2>1, <2>2, <2>3, <2>4, AheadKept
<1>12. AnswerOK'
  BY <1>1, <1>2, AnswerKept DEF Shifted, Behind
<1>13. FlushDelivers'
  BY <1>1, <1>2, DeliversKept DEF Shifted
<1> QED
  BY <1>2, <1>5, <1>6, <1>7, <1>9, <1>11, <1>12, <1>13 DEF FlushOK, Shifted

LEMMA WriteLineStep ==
  ASSUME IInv, NEW p \in Callers, WriteLine(p)
  PROVE  IInv'
<1> USE DEF IInv
<1>0. PICK l \in Lines : l = line[p]
  BY DEF RunOK, WriteLine
<1>1. /\ pc[p] = "write" /\ mu = p /\ mu' = None /\ pc' = [pc EXCEPT ![p] = "idle"]
      /\ UNCHANGED <<retryc, doFlush, conn, sent, torn, line, asked, closed, loop, current,
                     left, answering, reconnectFailed, trouble, next>>
  BY DEF WriteLine, RunOK, wire, runner
<1>2. /\ Writing = {l} /\ l = next - 1
      /\ l \in Oversized => buf = <<>>
      /\ \A q \in Callers : pc[q] = "write" => q = p
  BY <1>0, <1>1, PlaceTypes, NetSinkAssumption DEF RunOK
<1>3. \A q \in Callers : pc'[q] # "write"
  BY <1>1, <1>2 DEF TypeOK
<1>4. Writing' = {}
  BY <1>3 DEF Writing
<1>5. /\ ToSet(buf) \in SUBSET Lines /\ Contents(outc) \in SUBSET Lines
      /\ buf \in Seq(Lines) /\ outc \in Seq(Buffers) /\ Len(outc) <= OutCap
      /\ ToSet(sent) \cup InHands \in SUBSET Lines
  BY PlaceTypes DEF TypeOK, InHands
(* Where the line goes: to the buffer, to outc, or nowhere.                 *)
<1>6. \/ buf' = Append(buf, l) /\ UNCHANGED <<outc, drops>>
      \/ /\ buf = <<>> /\ buf' = <<>> /\ Len(outc) < OutCap
         /\ outc' = Append(outc, Buffer(<<l>>)) /\ UNCHANGED drops
      \/ /\ buf = <<>> /\ buf' = <<>> /\ outc' = outc
         /\ HandleFlushError(0, {l}, Size(l)) /\ Size(l) \in Nat
  <2>1. Size(l) \in Nat /\ BufSize \in Nat /\ Bytes(<<>>) = 0
    BY <1>5, BytesType, NetSinkAssumption
  <2>2. Size(l) > BufSize => buf = <<>>
    BY <1>2, NetSinkAssumption DEF Size
  <2>3. ~OutcFull => Len(outc) < OutCap
    BY <1>5, NetSinkAssumption DEF OutcFull
  <2>4. CASE Size(l) <= BufSize
    BY <1>0, <2>1, <2>4 DEF WriteLine
  <2>5. CASE Size(l) > BufSize /\ ~OutcFull
    BY <1>0, <2>1, <2>2, <2>3, <2>5 DEF WriteLine
  <2>6. CASE Size(l) > BufSize /\ OutcFull
    BY <1>0, <2>1, <2>2, <2>6 DEF WriteLine
  <2> QED
    BY <2>1, <2>4, <2>5, <2>6
<1>7. WaitOK'
  BY <1>1 DEF WaitOK, TypeOK, ToSet
<1>8. /\ ToSet(sent)' = ToSet(sent) /\ InHands' = InHands
      /\ ToSet(buf)' = ToSet(buf') /\ Queue' = Contents(outc') /\ Queue = Contents(outc)
      /\ Behind' = ToSet(buf') /\ Behind = ToSet(buf) \cup {l}
  BY <1>1, <1>2, <1>4 DEF InHands, Queue, Behind, Contents, ToSet
<1>9. /\ Before(ToSet(sent), InHands \cup Contents(outc) \cup ToSet(buf) \cup {l})
      /\ Before(InHands, Contents(outc) \cup ToSet(buf) \cup {l})
      /\ Before(Contents(outc), ToSet(buf) \cup {l})
      /\ Before(ToSet(buf), {l})
      /\ Sorted(sent) /\ Sorted(current.lines) /\ Chain(retryc) /\ Chain(outc) /\ Sorted(buf)
  BY <1>2, <1>8 DEF OrderOK, Before
<1>10. l \notin ToSet(sent) \cup InHands \cup Contents(outc)
  <2>1. Before(ToSet(sent) \cup InHands \cup Contents(outc), {l})
    BY <1>9 DEF Before
  <2>2. (ToSet(sent) \cup InHands \cup Contents(outc)) \cap {l} = {}
    <3> DEFINE S == ToSet(sent) \cup InHands \cup Contents(outc)
    <3>1. S \in SUBSET Lines /\ {l} \in SUBSET Lines /\ Before(S, {l})
      BY <1>5, <2>1
    <3> HIDE DEF S
    <3>2. S \cap {l} = {}
      BY <3>1, Apart
    <3> QED
      BY <3>2 DEF S
  <2> QED
    BY <2>2
<1>11. /\ buf' \in Seq(Lines) /\ outc' \in Seq(Buffers) /\ Len(outc') <= OutCap
       /\ droppedBytes' \in Nat /\ lostBytes' \in Nat /\ logs' \in Nat
       /\ lost' \subseteq Lines /\ lost \subseteq lost' /\ DropsNotOverstated'
       /\ \A i \in DOMAIN outc' : ~outc'[i].cut
       /\ \A i \in DOMAIN outc' : \/ i \in DOMAIN outc /\ outc'[i] = outc[i]
                                  \/ ToSet(outc'[i].lines) \subseteq Behind
       /\ OrderOK' /\ PlacesOK' /\ Behind' \subseteq Behind
  <2>1. CASE buf' = Append(buf, l) /\ UNCHANGED <<outc, drops>>
    <3>1. ToSet(buf') = ToSet(buf) \cup {l} /\ Sorted(buf') /\ buf' \in Seq(Lines)
      BY <1>5, <1>9, <2>1, AppendLine
    <3>2. UNCHANGED <<outc, droppedBytes, lost, lostBytes, logs>>
      BY <2>1 DEF drops
    <3>3. OrderOK'
      BY <1>1, <1>4, <1>8, <1>9, <3>1, <3>2 DEF OrderOK, Before, Sorted, Chain
    <3>4. PlacesOK'
      BY <1>1, <1>8, <3>1, <3>2 DEF PlacesOK, Alive
    <3> QED
      BY <1>5, <1>8, <3>1, <3>2, <3>3, <3>4 DEF TypeOK, DropsNotOverstated, RunOK
  <2>2. CASE /\ buf = <<>> /\ buf' = <<>> /\ Len(outc) < OutCap
             /\ outc' = Append(outc, Buffer(<<l>>)) /\ UNCHANGED drops
    <3> DEFINE b == Buffer(<<l>>)
    <3>1. /\ b \in Buffers /\ ToSet(b.lines) = {l} /\ Sorted(b.lines) /\ ~b.cut
      <4>1. <<l>> \in Seq(Lines) /\ ToSet(<<l>>) = {l} /\ Sorted(<<l>>)
        BY DEF ToSet, Sorted
      <4> QED
        BY <4>1, EmptyBuffer
    <3> HIDE DEF b
    <3>2. /\ outc' \in Seq(Buffers) /\ Len(outc') = Len(outc) + 1
          /\ outc'[Len(outc) + 1] = b /\ \A i \in 1 .. Len(outc) : outc'[i] = outc[i]
          /\ Contents(outc') = Contents(outc) \cup {l} /\ Chain(outc')
      <4>1. Before(Contents(outc), ToSet(b.lines))
        BY <1>9, <3>1 DEF Before
      <4>2. outc' = Append(outc, b)
        BY <2>2 DEF b
      <4>3. outc \in Seq(Buffers) /\ b \in Buffers /\ Sorted(b.lines) /\ Chain(outc)
        BY <1>5, <1>9, <3>1
      <4> HIDE DEF IInv
      <4>4. /\ outc' \in Seq(Buffers) /\ Len(outc') = Len(outc) + 1
            /\ outc'[Len(outc) + 1] = b /\ \A i \in 1 .. Len(outc) : outc'[i] = outc[i]
            /\ Contents(outc') = Contents(outc) \cup ToSet(b.lines) /\ Chain(outc')
        BY ONLY <4>1, <4>2, <4>3, AppendBuffer
      <4> QED
        BY ONLY <3>1, <4>4
    <3>3. \A i \in DOMAIN outc' : i \in DOMAIN outc \/ i = Len(outc) + 1
      BY <1>5, <3>2
    <3>4. \A i \in DOMAIN outc' : \/ i \in DOMAIN outc /\ outc'[i] = outc[i]
                                  \/ outc'[i] = b
      BY <1>5, <3>2, <3>3
    <3>5. UNCHANGED <<droppedBytes, lost, lostBytes, logs>>
      BY <2>2 DEF drops
    <3>6. ToSet(buf) = {} /\ ToSet(buf') = {} /\ Sorted(buf') /\ buf' \in Seq(Lines)
      BY <1>5, <2>2, EmptyBuffer
    <3>7. OrderOK'
      BY <1>1, <1>4, <1>8, <1>9, <3>2, <3>6 DEF OrderOK, Before, Sorted, Chain
    <3>8. PlacesOK'
      BY <1>1, <1>8, <3>2, <3>5, <3>6 DEF PlacesOK, Alive
    <3>9. \A i \in DOMAIN outc' : ~outc'[i].cut
      BY <3>1, <3>4 DEF RunOK
    <3>10. /\ \A i \in DOMAIN outc' : \/ i \in DOMAIN outc /\ outc'[i] = outc[i]
                                     \/ ToSet(outc'[i].lines) \subseteq Behind
           /\ Behind' \subseteq Behind /\ Len(outc') <= OutCap
      BY <1>5, <1>8, <2>2, <3>1, <3>2, <3>4, <3>6, NetSinkAssumption
    <3> QED
      BY <3>2, <3>5, <3>6, <3>7, <3>8, <3>9, <3>10 DEF TypeOK, DropsNotOverstated
  <2>3. CASE /\ buf = <<>> /\ buf' = <<>> /\ outc' = outc
             /\ HandleFlushError(0, {l}, Size(l)) /\ Size(l) \in Nat
    <3>1. ToSet(buf) = {} /\ ToSet(buf') = {} /\ Sorted(buf') /\ buf' \in Seq(Lines)
      BY <1>5, <2>3, EmptyBuffer
    <3>2. /\ droppedBytes' \in Nat /\ lostBytes' \in Nat /\ logs' \in Nat
          /\ lost' = lost \cup {l} /\ lost' \subseteq Lines /\ DropsNotOverstated'
      BY <2>3, DropEffect
    <3>3. OrderOK'
      BY <1>1, <1>4, <1>8, <1>9, <2>3, <3>1 DEF OrderOK, Before, Sorted, Chain
    <3>4. PlacesOK'
      BY <1>1, <1>8, <1>10, <2>3, <3>1, <3>2 DEF PlacesOK, Alive
    <3> QED
      BY <1>5, <1>8, <2>3, <3>1, <3>2, <3>3, <3>4 DEF RunOK
  <2> QED
    BY <1>6, <2>1, <2>2, <2>3
<1>12. TypeOK'
  <2>1. pc' \in [Callers -> {"idle", "write", "send", "await"}]
    BY <1>1 DEF TypeOK
  <2> QED
    BY <1>1, <1>11, <2>1 DEF TypeOK
<1>13. RunOK'
  BY <1>1, <1>3, <1>11, NetSinkAssumption DEF RunOK, HoldsBuffer, CutOK
<1>14. \A q \in Callers : Ahead(q)'
  <2>1. Behind' \subseteq Lines
    BY <1>2, <1>11, PlaceTypes DEF Behind
  <2>2. next' \in Nat /\ next <= next'
    BY <1>1 DEF TypeOK
  <2>3. \A q \in Callers : pc'[q] \in {"send", "await"} =>
          pc[q] \in {"send", "await"} /\ asked'[q] = asked[q]
    BY <1>1 DEF TypeOK
  <2>4. \A k \in Behind' : k \in Behind \/ next <= k
    BY <1>11
  <2> QED
    BY <2>1, <2>2, <2>3, <2>4, AheadKept
<1>15. AnswerOK'
  BY <1>1, <1>11, AnswerKept
<1>16. FlushDelivers'
  BY <1>1, <1>11, DeliversKept
<1> QED
  BY <1>7, <1>11, <1>12, <1>13, <1>14, <1>15, <1>16 DEF FlushOK

LEMMA FlushStartStep ==
  ASSUME IInv, NEW p \in Callers, FlushStart(p)
  PROVE  IInv'
<1> USE DEF IInv
<1>1. /\ pc[p] = "idle" /\ mu = None
      /\ \E label \in {"idle", "send"} :
           /\ pc' = [pc EXCEPT ![p] = label]
           /\ asked' = [asked EXCEPT ![p] = IF label = "idle" THEN @ ELSE next - 1]
           /\ label = "send" => ~FlushFails
      /\ trouble' = [trouble EXCEPT ![p] = FALSE]
      /\ UNCHANGED <<retryc, mu, doFlush, conn, sent, torn, line, closed, loop, current,
                     left, answering, reconnectFailed, next>>
  BY DEF FlushStart, wire, runner
<1>2. Shifted /\ buf' = <<>>
  BY Shift DEF FlushStart, FlushBuf
<1>3. /\ \A q \in Callers : pc'[q] = "write" <=> pc[q] = "write"
      /\ p \notin closed /\ answering # p /\ \A i \in DOMAIN doFlush : doFlush[i] # p
      /\ \A q \in Callers : q # p => /\ pc'[q] = pc[q] /\ asked'[q] = asked[q]
                                     /\ trouble'[q] = trouble[q]
      /\ pc'[p] \in {"idle", "send"} /\ next - 1 \in 0 .. MaxLines
      /\ asked'[p] \in {asked[p], next - 1}
      /\ pc'[p] = "send" => asked'[p] = next - 1
  BY <1>1, NetSinkAssumption DEF TypeOK, WaitOK
<1>4. TypeOK'
  <2>1. /\ pc' \in [Callers -> {"idle", "write", "send", "await"}]
        /\ asked' \in [Callers -> 0 .. MaxLines] /\ trouble' \in [Callers -> BOOLEAN]
    BY <1>1, <1>3 DEF TypeOK
  <2> QED
    BY <1>1, <1>2, <2>1 DEF TypeOK, Shifted
<1>5. RunOK'
  BY <1>1, <1>2, <1>3 DEF RunOK, Shifted, HoldsBuffer, CutOK
<1>6. WaitOK'
  BY <1>1, <1>3 DEF WaitOK, TypeOK, ToSet
<1>7. Writing' = {} /\ Writing = {}
  BY <1>1, <1>3, WritingKept, PlaceTypes
<1>8. OrderOK' /\ PlacesOK' /\ Behind' = {}
  <2>1. next .. next' - 1 = {}
    BY <1>1 DEF TypeOK
  <2>2. ToSet(buf') = {}
    BY <1>2, EmptyBuffer
  <2> QED
    BY <1>1, <1>2, <1>7, <2>1, <2>2, ShiftOrder
<1>9. \A q \in Callers : Ahead(q)'
  <2>1. ASSUME NEW q \in Callers, pc'[q] \in {"send", "await"}
        PROVE  asked'[q] < next
    <3>1. CASE q = p
      BY <1>3, <2>1, <3>1 DEF TypeOK
    <3>2. CASE q # p
      BY <1>3, <2>1, <3>2 DEF FlushOK, Ahead
    <3> QED
      BY <3>1, <3>2
  <2> QED
    BY <1>1, <1>8, <2>1 DEF Ahead
<1>10. AnswerOK'
  <2>1. answering # None => answering \in Callers
    BY DEF TypeOK
  <2> QED
    BY <1>1, <1>2, <1>3, <2>1, AnswerKept DEF Shifted, Behind
<1>11. FlushDelivers'
  <2>1. closed \subseteq Callers
    BY DEF TypeOK
  <2> QED
    BY <1>1, <1>2, <1>3, <2>1, DeliversKept DEF Shifted
<1> QED
  BY <1>2, <1>4, <1>5, <1>6, <1>8, <1>9, <1>10, <1>11 DEF FlushOK, Shifted

(* Most of the other steps move no line.                                    *)
LEMMA NothingMoves ==
  ASSUME IInv, UNCHANGED <<buffers, mu, drops, sent, torn, line, current, next>>,
         \A q \in Callers : pc'[q] = "write" <=> pc[q] = "write"
  PROVE  OrderOK' /\ PlacesOK' /\ Behind' = Behind /\ DropsNotOverstated'
<1>1. Writing' = Writing
  BY WritingKept
<1>2. OrderOK' /\ PlacesOK'
  BY <1>1, LinesKept DEF IInv, buffers, drops
<1>3. Behind' = Behind
  BY <1>1 DEF Behind, buffers, ToSet
<1>4. DropsNotOverstated'
  BY DEF drops, DropsNotOverstated, IInv
<1> QED
  BY <1>2, <1>3, <1>4

(* Nor do they change what a Flush has to wait for.                         *)
LEMMA FlushKept ==
  ASSUME IInv, UNCHANGED <<buffers, mu, drops, sent, torn, line, current, next>>,
         \A q \in Callers : /\ pc'[q] = "write" <=> pc[q] = "write"
                            /\ pc'[q] \in {"send", "await"} =>
                                 pc[q] \in {"send", "await"} /\ asked'[q] = asked[q]
  PROVE  \A q \in Callers : Ahead(q)'
<1>1. Behind' = Behind
  BY NothingMoves
<1>2. Behind \subseteq Lines
  BY PlaceTypes DEF IInv, Behind
<1> QED
  BY <1>1, <1>2, AheadKept DEF IInv, TypeOK

LEMMA FlushSendStep ==
  ASSUME IInv, NEW p \in Callers, FlushSend(p)
  PROVE  IInv'
<1> USE DEF IInv
<1>1. /\ pc[p] = "send" /\ pc' = [pc EXCEPT ![p] = "await"]
      /\ Len(doFlush) < FlushCap /\ doFlush' = Append(doFlush, p)
      /\ UNCHANGED <<buf, outc, retryc, mu, conn, sent, torn, line, asked, closed, loop,
                     current, left, answering, reconnectFailed, trouble, next,
                     droppedBytes, lost, lostBytes, logs>>
      /\ UNCHANGED <<buffers, drops>>
  BY DEF FlushSend, buffers, drops, wire, runner
<1>2. /\ pc'[p] = "await" /\ \A q \in Callers : q # p => pc'[q] = pc[q]
      /\ \A q \in Callers : pc'[q] = "write" <=> pc[q] = "write"
  BY <1>1 DEF TypeOK
<1>3. /\ doFlush' \in Seq(Callers) /\ Len(doFlush') = Len(doFlush) + 1
      /\ doFlush'[Len(doFlush) + 1] = p
      /\ \A i \in 1 .. Len(doFlush) : doFlush'[i] = doFlush[i]
  BY <1>1 DEF TypeOK
<1>4. /\ DOMAIN doFlush' = 1 .. Len(doFlush) + 1 /\ DOMAIN doFlush = 1 .. Len(doFlush)
      /\ doFlush \in Seq(Callers) /\ Len(doFlush) \in Nat
      /\ \A i \in 1 .. Len(doFlush) + 1 : i \in 1 .. Len(doFlush) \/ i = Len(doFlush) + 1
  <2>1. doFlush \in Seq(Callers) /\ Len(doFlush) \in Nat
    BY DEF TypeOK
  <2>2. \A i \in 1 .. Len(doFlush) + 1 : i \in 1 .. Len(doFlush) \/ i = Len(doFlush) + 1
    BY <2>1
  <2> QED
    BY <1>3, <2>1, <2>2
<1>5. TypeOK'
  <2>1. pc' \in [Callers -> {"idle", "write", "send", "await"}]
    BY <1>1 DEF TypeOK
  <2>2. Len(doFlush') <= FlushCap
    BY <1>1, <1>3, <1>4, NetSinkAssumption
  <2> QED
    BY <1>1, <1>3, <2>1, <2>2 DEF TypeOK
<1>6. RunOK'
  BY <1>1, <1>2 DEF RunOK, HoldsBuffer, CutOK
<1>7. WaitOK'
  <2>1. p \notin closed /\ answering # p /\ \A i \in DOMAIN doFlush : doFlush[i] # p
    BY <1>1, NetSinkAssumption DEF WaitOK
  <2>2. \A i \in DOMAIN doFlush' : \/ i \in DOMAIN doFlush /\ doFlush'[i] = doFlush[i]
                                   \/ i = Len(doFlush) + 1 /\ doFlush'[i] = p
    BY <1>3, <1>4
  <2>3. p \in ToSet(doFlush') /\ ToSet(doFlush) \subseteq ToSet(doFlush')
    BY <1>3, <1>4, Elements
  <2>4. \A q \in Callers : pc'[q] = "await" =>
          q \in closed \cup ToSet(doFlush') \cup {answering}
    BY <1>2, <2>3 DEF WaitOK
  <2>5. \A i, j \in DOMAIN doFlush' : doFlush'[i] = doFlush'[j] => i = j
    BY <2>1, <2>2 DEF WaitOK
  <2>6. \A i \in DOMAIN doFlush' : /\ pc'[doFlush'[i]] = "await"
                                   /\ doFlush'[i] \notin closed /\ answering # doFlush'[i]
    BY <1>2, <1>4, <2>1, <2>2 DEF WaitOK
  <2>7. /\ \A q \in closed : pc'[q] = "await" /\ answering # q
        /\ answering # None => pc'[answering] = "await"
    BY <1>2 DEF WaitOK, TypeOK
  <2> QED
    BY <1>1, <2>4, <2>5, <2>6, <2>7 DEF WaitOK, ToSet
<1>8. OrderOK' /\ PlacesOK' /\ DropsNotOverstated'
  BY <1>1, <1>2, NothingMoves
<1>9. \A q \in Callers : Ahead(q)'
  BY <1>1, <1>2, FlushKept
<1>10. AnswerOK' /\ FlushDelivers'
  BY <1>1, AnswerKept, DeliversKept
<1> QED
  BY <1>5, <1>6, <1>7, <1>8, <1>9, <1>10 DEF FlushOK

LEMMA FlushReturnStep ==
  ASSUME IInv, NEW p \in Callers, FlushReturn(p)
  PROVE  IInv'
<1> USE DEF IInv
<1>1. /\ pc[p] = "await" /\ pc' = [pc EXCEPT ![p] = "idle"] /\ p \in closed
      /\ closed' = closed \ {p} /\ asked' = [asked EXCEPT ![p] = 0]
      /\ UNCHANGED <<buf, outc, retryc, mu, doFlush, conn, sent, torn, line, loop,
                     current, left, answering, reconnectFailed, trouble, next,
                     droppedBytes, lost, lostBytes, logs>>
      /\ UNCHANGED <<buffers, drops>>
  BY DEF FlushReturn, buffers, drops, wire, runner
<1>2. /\ pc'[p] = "idle"
      /\ \A q \in Callers : q # p => pc'[q] = pc[q] /\ asked'[q] = asked[q]
      /\ \A q \in Callers : pc'[q] = "write" <=> pc[q] = "write"
      /\ answering # p /\ \A i \in DOMAIN doFlush : doFlush[i] # p
  BY <1>1 DEF TypeOK, WaitOK
<1>3. TypeOK'
  <2>1. /\ pc' \in [Callers -> {"idle", "write", "send", "await"}]
        /\ asked' \in [Callers -> 0 .. MaxLines] /\ closed' \subseteq Callers
    BY <1>1, NetSinkAssumption DEF TypeOK
  <2> QED
    BY <1>1, <2>1 DEF TypeOK
<1>4. RunOK'
  BY <1>1, <1>2 DEF RunOK, HoldsBuffer, CutOK
<1>5. WaitOK'
  BY <1>1, <1>2 DEF WaitOK, TypeOK, ToSet
<1>6. OrderOK' /\ PlacesOK' /\ DropsNotOverstated'
  BY <1>1, <1>2, NothingMoves
<1>7. \A q \in Callers : Ahead(q)'
  BY <1>1, <1>2, FlushKept
<1>8. AnswerOK'
  <2>1. answering # None => answering \in Callers
    BY DEF TypeOK
  <2> QED
    BY <1>1, <1>2, <2>1, AnswerKept
<1>9. FlushDelivers'
  <2>1. closed \subseteq Callers
    BY DEF TypeOK
  <2> QED
    BY <1>1, <1>2, <2>1, DeliversKept
<1> QED
  BY <1>3, <1>4, <1>5, <1>6, <1>7, <1>8, <1>9 DEF FlushOK

-----------------------------------------------------------------------------
(* The steps of run.                                                        *)

(* Dialling and sleeping: nothing is in the hands of run.                   *)
LEMMA DialStep ==
  ASSUME IInv, ConnectOk \/ ConnectFail \/ DrainEnd \/ Wake
  PROVE  IInv'
<1> USE DEF IInv
<1>1. /\ loop \in {"loop", "drain", "sleep"} /\ loop' \in {"loop", "drain", "sleep"}
      /\ conn' \in BOOLEAN /\ reconnectFailed' \in BOOLEAN
      /\ left' \in {left, 0, FlushCap * 8}
      /\ UNCHANGED <<buf, outc, retryc, mu, doFlush, sent, torn, pc, line, asked, closed,
                     current, answering, trouble, next, droppedBytes, lost, lostBytes, logs>>
      /\ UNCHANGED <<buffers, drops>>
  BY DEF ConnectOk, ConnectFail, DrainEnd, Wake, buffers, drops, callers, wire, TypeOK
<1>2. answering = None /\ ~HoldsBuffer /\ ~HoldsBuffer'
  BY <1>1 DEF RunOK, HoldsBuffer
<1>3. TypeOK'
  <2>1. left' \in 0 .. (IF OutCap > FlushCap * 8 THEN OutCap ELSE FlushCap * 8)
    BY <1>1, NetSinkAssumption DEF TypeOK
  <2>2. loop' \in Loops
    BY <1>1 DEF Loops
  <2> QED
    BY <1>1, <2>1, <2>2 DEF TypeOK
<1>4. RunOK'
  BY <1>1, <1>2 DEF RunOK, CutOK
<1>5. WaitOK'
  BY <1>1 DEF WaitOK, ToSet
<1>6. OrderOK' /\ PlacesOK' /\ DropsNotOverstated'
  BY <1>1, NothingMoves
<1>7. \A q \in Callers : Ahead(q)'
  BY <1>1, FlushKept
<1>8. AnswerOK'
  BY <1>1, <1>2 DEF AnswerOK
<1>9. FlushDelivers'
  BY <1>1, DeliversKept
<1> QED
  BY <1>3, <1>4, <1>5, <1>6, <1>7, <1>8, <1>9 DEF FlushOK

(* The first caller leaves the queue, for good or to be answered.           *)
LEMMA HeadOfQueue ==
  ASSUME TypeOK, WaitOK, doFlush # <<>>, doFlush' = Tail(doFlush)
  PROVE  /\ Head(doFlush) \in Callers /\ pc[Head(doFlush)] = "await"
         /\ Head(doFlush) \notin closed /\ answering # Head(doFlush)
         /\ doFlush' \in Seq(Callers) /\ Len(doFlush') <= FlushCap
         /\ \A i \in DOMAIN doFlush' : /\ pc[doFlush'[i]] = "await" /\ doFlush'[i] \notin closed
                                       /\ answering # doFlush'[i]
                                       /\ doFlush'[i] # Head(doFlush)
         /\ \A i, j \in DOMAIN doFlush' : doFlush'[i] = doFlush'[j] => i = j
         /\ ToSet(doFlush) \subseteq {Head(doFlush)} \cup ToSet(doFlush')
<1> DEFINE t == Tail(doFlush)
           n == Len(doFlush)
           h == Head(doFlush)
<1>1. /\ doFlush \in Seq(Callers) /\ n \in Nat /\ n > 0 /\ n <= FlushCap
      /\ DOMAIN doFlush = 1 .. n
  BY NonEmpty DEF TypeOK
<1>2. /\ t \in Seq(Callers) /\ Len(t) = n - 1 /\ DOMAIN t = 1 .. n - 1 /\ h = doFlush[1]
      /\ \A i \in 1 .. n - 1 : t[i] = doFlush[i + 1]
  BY <1>1
<1> HIDE DEF t, n, h
<1>3. 1 \in 1 .. n /\ \A i \in 1 .. n - 1 : i + 1 \in 1 .. n /\ i + 1 # 1
  BY <1>1
<1>4. h \in Callers /\ pc[h] = "await" /\ h \notin closed /\ answering # h
  BY <1>1, <1>2, <1>3 DEF WaitOK
<1>5. ASSUME NEW i \in 1 .. n - 1
      PROVE  /\ pc[t[i]] = "await" /\ t[i] \notin closed /\ answering # t[i] /\ t[i] # h
             /\ \A j \in 1 .. n - 1 : t[i] = t[j] => i = j
  <2>1. t[i] = doFlush[i + 1] /\ i + 1 \in 1 .. n /\ i + 1 # 1
    BY <1>2, <1>3
  <2>2. \A k \in 1 .. n : doFlush[i + 1] = doFlush[k] => i + 1 = k
    BY <1>1, <2>1 DEF WaitOK
  <2>3. t[i] # h
    BY <1>2, <1>3, <2>1, <2>2
  <2>4. ASSUME NEW j \in 1 .. n - 1, t[i] = t[j]
        PROVE  i = j
    <3>1. t[j] = doFlush[j + 1] /\ j + 1 \in 1 .. n
      BY <1>2, <1>3
    <3>2. i + 1 = j + 1
      BY <2>1, <2>2, <2>4, <3>1
    <3> QED
      BY <3>2
  <2> QED
    BY <1>1, <2>1, <2>3, <2>4 DEF WaitOK
<1>6. \A i, j \in 1 .. n - 1 : t[i] = t[j] => i = j
  BY <1>5
<1>7. ToSet(doFlush) \subseteq {h} \cup ToSet(t)
  <2>1. ASSUME NEW i \in 1 .. n
        PROVE  doFlush[i] \in {h} \cup ToSet(t)
    <3>1. CASE i = 1
      BY <1>2, <3>1
    <3>2. CASE i # 1
      <4>1. i - 1 \in 1 .. n - 1 /\ (i - 1) + 1 = i
        BY <1>1, <3>2
      <4>2. PICK k \in 1 .. n - 1 : i = k + 1
        BY <4>1
      <4>3. t[k] = doFlush[i] /\ k \in DOMAIN t
        BY <1>2, <4>2
      <4> QED
        BY <4>3 DEF ToSet
    <3> QED
      BY <3>1, <3>2
  <2> QED
    BY <1>1, <2>1, Elements
<1>8. Len(t) <= FlushCap
  BY <1>1, <1>2, NetSinkAssumption
<1>9. doFlush' = t
  BY DEF t
<1> QED
  BY <1>2, <1>4, <1>5, <1>6, <1>7, <1>8, <1>9 DEF h

LEMMA DrainOneStep ==
  ASSUME IInv, DrainOne
  PROVE  IInv'
<1> USE DEF IInv
<1>1. /\ loop = "drain" /\ loop' = "drain" /\ doFlush # <<>> /\ doFlush' = Tail(doFlush)
      /\ left > 0 /\ left' = left - 1
      /\ UNCHANGED <<buf, outc, retryc, mu, conn, sent, torn, pc, line, asked, current,
                     answering, reconnectFailed, next, droppedBytes, lost, lostBytes, logs>>
      /\ UNCHANGED <<buffers, drops>>
  BY DEF DrainOne, buffers, drops, wire
<1>2. PICK h \in Callers : h = Head(doFlush)
  BY <1>1, HeadOfQueue
<1>3. closed' = closed \cup {h} /\ trouble' = [trouble EXCEPT ![h] = TRUE]
  BY <1>2 DEF DrainOne
<1>4. answering = None
  BY <1>1 DEF RunOK
<1>5. TypeOK'
  <2>1. left' \in 0 .. (IF OutCap > FlushCap * 8 THEN OutCap ELSE FlushCap * 8)
    BY <1>1, NetSinkAssumption DEF TypeOK
  <2>2. closed' \subseteq Callers /\ trouble' \in [Callers -> BOOLEAN]
    BY <1>3 DEF TypeOK
  <2>3. doFlush' \in Seq(Callers) /\ Len(doFlush') <= FlushCap
    BY <1>1, HeadOfQueue
  <2> QED
    BY <1>1, <2>1, <2>2, <2>3 DEF TypeOK
<1>6. RunOK'
  BY <1>1 DEF RunOK, HoldsBuffer, CutOK
<1>7. WaitOK'
  <2>1. /\ pc[h] = "await"
        /\ \A i \in DOMAIN doFlush' : /\ pc[doFlush'[i]] = "await" /\ doFlush'[i] \notin closed
                                      /\ doFlush'[i] # h
        /\ \A i, j \in DOMAIN doFlush' : doFlush'[i] = doFlush'[j] => i = j
        /\ ToSet(doFlush) \subseteq {h} \cup ToSet(doFlush')
    BY <1>1, <1>2, HeadOfQueue
  <2>2. doFlush' \in Seq(Callers)
    BY <1>5 DEF TypeOK
  <2>3. \A q \in Callers : pc[q] = "await" => q \in closed' \cup ToSet(doFlush') \cup {None}
    BY <1>3, <1>4, <2>1 DEF WaitOK
  <2>4. \A q \in closed' : pc[q] = "await" /\ q # None
    <3>1. \A q \in closed : pc[q] = "await" /\ q # None
      BY <1>4 DEF WaitOK
    <3>2. h # None
      BY NetSinkAssumption
    <3> QED
      BY <1>3, <2>1, <3>1, <3>2
  <2>5. \A i \in DOMAIN doFlush' : doFlush'[i] \notin closed' /\ doFlush'[i] # None
    BY <1>3, <2>1, <2>2, NetSinkAssumption
  <2> QED
    BY <1>1, <1>4, <2>1, <2>3, <2>4, <2>5 DEF WaitOK, ToSet
<1>8. OrderOK' /\ PlacesOK' /\ DropsNotOverstated'
  BY <1>1, NothingMoves
<1>9. \A q \in Callers : Ahead(q)'
  BY <1>1, FlushKept
<1>10. AnswerOK'
  BY <1>1, <1>4 DEF AnswerOK
<1>11. FlushDelivers'
  <2>1. trouble'[h] /\ \A q \in Callers : q # h => trouble'[q] = trouble[q]
    BY <1>3 DEF TypeOK
  <2>2. \A q \in closed' : (q \in closed /\ trouble'[q] = trouble[q]) \/ trouble'[q]
    BY <1>3, <2>1 DEF TypeOK
  <2> QED
    BY <1>1, <2>2 DEF FlushOK, FlushDelivers, ToSet
<1> QED
  BY <1>5, <1>6, <1>7, <1>8, <1>9, <1>10, <1>11 DEF FlushOK

LEMMA TickStep ==
  ASSUME IInv, Tick
  PROVE  IInv'
<1> USE DEF IInv
<1>1. /\ loop = "loop" /\ mu = None /\ retryc = <<>>
      /\ UNCHANGED <<retryc, mu, doFlush, conn, sent, torn, pc, line, asked, closed, loop,
                     current, left, answering, reconnectFailed, trouble, next>>
  BY DEF Tick, Selecting, Connected, wire, callers, runner
<1>2. Shifted
  BY Shift DEF Tick
<1>3. Writing = {} /\ Writing' = {}
  BY <1>1, WritingKept, PlaceTypes
<1>4. OrderOK' /\ PlacesOK' /\ Behind' = ToSet(buf') \cup Writing'
  <2>1. next .. next' - 1 = {}
    BY <1>1 DEF TypeOK
  <2> QED
    BY <1>1, <1>2, <1>3, <2>1, ShiftOrder
<1>5. TypeOK'
  BY <1>1, <1>2 DEF TypeOK, Shifted
<1>6. RunOK'
  <2>1. \A q \in Callers : pc[q] # "write"
    BY <1>1, NetSinkAssumption DEF RunOK
  <2> QED
    BY <1>1, <1>2, <2>1 DEF RunOK, Shifted, HoldsBuffer, CutOK
<1>7. WaitOK'
  BY <1>1 DEF WaitOK, ToSet
<1>8. \A q \in Callers : Ahead(q)'
  <2>1. \A l \in Behind' : l \in Behind
    BY <1>2, <1>3, <1>4 DEF Shifted, Behind
  <2>2. Behind' \subseteq Lines
    BY <2>1, PlaceTypes DEF Behind
  <2> QED
    BY <1>1, <2>1, <2>2, AheadKept DEF TypeOK
<1>9. AnswerOK' /\ FlushDelivers'
  BY <1>1, <1>2, AnswerKept, DeliversKept DEF Shifted, Behind
<1> QED
  BY <1>2, <1>4, <1>5, <1>6, <1>7, <1>8, <1>9 DEF FlushOK, Shifted

LEMMA TakeFlushStep ==
  ASSUME IInv, TakeFlush
  PROVE  IInv'
<1> USE DEF IInv
<1>1. /\ loop = "loop" /\ conn /\ retryc = <<>> /\ loop' = "flushing"
      /\ doFlush # <<>> /\ doFlush' = Tail(doFlush) /\ left' = Len(outc)
      /\ UNCHANGED <<buf, outc, retryc, mu, conn, sent, torn, pc, line, asked, closed,
                     current, reconnectFailed, trouble, next, droppedBytes, lost,
                     lostBytes, logs>>
      /\ UNCHANGED <<buffers, drops>>
  BY DEF TakeFlush, Selecting, Connected, Queued, buffers, drops, wire, callers
<1>2. PICK h \in Callers : h = Head(doFlush) /\ h # None
  BY <1>1, HeadOfQueue, NetSinkAssumption
<1>3. answering' = h /\ answering = None
  BY <1>1, <1>2 DEF TakeFlush, RunOK
<1>4. /\ pc[h] = "await" /\ h \notin closed
      /\ doFlush' \in Seq(Callers) /\ Len(doFlush') <= FlushCap
      /\ \A i \in DOMAIN doFlush' : /\ pc[doFlush'[i]] = "await" /\ doFlush'[i] \notin closed
                                    /\ doFlush'[i] # h
      /\ \A i, j \in DOMAIN doFlush' : doFlush'[i] = doFlush'[j] => i = j
      /\ ToSet(doFlush) \subseteq {h} \cup ToSet(doFlush')
  BY <1>1, <1>2, HeadOfQueue
<1>5. TypeOK'
  <2>1. left' \in 0 .. (IF OutCap > FlushCap * 8 THEN OutCap ELSE FlushCap * 8)
    BY <1>1, NetSinkAssumption DEF TypeOK
  <2>2. loop' \in Loops
    BY <1>1 DEF Loops
  <2> QED
    BY <1>1, <1>3, <1>4, <2>1, <2>2 DEF TypeOK
<1>6. RunOK'
  BY <1>1, <1>2, <1>3 DEF RunOK, HoldsBuffer, CutOK
<1>7. WaitOK'
  <2>1. \A q \in Callers : pc[q] = "await" => q \in closed \cup ToSet(doFlush') \cup {h}
    BY <1>3, <1>4, NetSinkAssumption DEF WaitOK
  <2>2. \A q \in closed : pc[q] = "await" /\ h # q
    BY <1>4 DEF WaitOK
  <2> QED
    BY <1>1, <1>2, <1>3, <1>4, <2>1, <2>2 DEF WaitOK, ToSet
<1>8. OrderOK' /\ PlacesOK' /\ DropsNotOverstated'
  BY <1>1, NothingMoves
<1>9. \A q \in Callers : Ahead(q)'
  BY <1>1, FlushKept
<1>10. AnswerOK'
  <2>1. \A i \in DOMAIN outc : ~(i > Len(outc))
    BY DEF TypeOK
  <2> QED
    BY <1>1, <2>1 DEF AnswerOK, ToSet
<1>11. FlushDelivers'
  BY <1>1, DeliversKept
<1> QED
  BY <1>5, <1>6, <1>7, <1>8, <1>9, <1>10, <1>11 DEF FlushOK

(* The answer: the buffers that were in outc when run took the request are  *)
(* written, and what is left is behind the Flush.                           *)
LEMMA FlushAnswerStep ==
  ASSUME IInv, FlushAnswer
  PROVE  IInv'
<1> USE DEF IInv
<1>1. /\ loop = "flushing" /\ ~(left > 0 /\ conn) /\ loop' = "loop"
      /\ answering' = None /\ left' = 0 /\ closed' = closed \cup {answering}
      /\ UNCHANGED <<buf, outc, retryc, mu, doFlush, conn, sent, torn, pc, line, asked,
                     current, reconnectFailed, trouble, next, droppedBytes, lost,
                     lostBytes, logs>>
      /\ UNCHANGED <<buffers, drops>>
  BY DEF FlushAnswer, MoreToFlush, Answered, buffers, drops, wire
<1>2. PICK a \in Callers : a = answering /\ a # None
  BY <1>1 DEF RunOK, TypeOK
<1>3. pc[a] = "await" /\ a \notin closed /\ \A i \in DOMAIN doFlush : doFlush[i] # a
  BY <1>2 DEF WaitOK
<1>4. TypeOK'
  <2>1. left' \in 0 .. (IF OutCap > FlushCap * 8 THEN OutCap ELSE FlushCap * 8)
    BY <1>1, NetSinkAssumption
  <2>2. loop' \in Loops /\ closed' \subseteq Callers
    BY <1>1, <1>2 DEF Loops, TypeOK
  <2> QED
    BY <1>1, <2>1, <2>2 DEF TypeOK
<1>5. RunOK'
  BY <1>1 DEF RunOK, HoldsBuffer, CutOK
<1>6. WaitOK'
  <2>1. \A i \in DOMAIN doFlush : doFlush[i] # None
    BY NetSinkAssumption DEF TypeOK
  <2>2. \A q \in closed' : pc[q] = "await" /\ q # None
    BY <1>1, <1>2, <1>3, NetSinkAssumption DEF WaitOK, TypeOK
  <2>3. \A q \in Callers : pc[q] = "await" => q \in closed' \cup ToSet(doFlush) \cup {None}
    BY <1>1 DEF WaitOK
  <2>4. \A i \in DOMAIN doFlush : pc[doFlush[i]] = "await" /\ doFlush[i] \notin closed'
    BY <1>1, <1>2, <1>3 DEF WaitOK
  <2> QED
    BY <1>1, <2>1, <2>2, <2>3, <2>4 DEF WaitOK, ToSet
<1>7. OrderOK' /\ PlacesOK' /\ DropsNotOverstated'
  BY <1>1, NothingMoves
<1>8. \A q \in Callers : Ahead(q)'
  BY <1>1, FlushKept
<1>9. AnswerOK'
  BY <1>1 DEF AnswerOK
<1>10. ~trouble[a] => 1 .. asked[a] \subseteq ToSet(sent) \cup torn \cup lost
  <2> SUFFICES ASSUME ~trouble[a], NEW l \in 1 .. asked[a]
               PROVE  l \in ToSet(sent) \cup torn \cup lost
    OBVIOUS
  <2>1. asked[a] \in Nat /\ next \in Nat /\ l \in Nat /\ l >= 1 /\ l <= asked[a]
    BY DEF TypeOK
  <2>2. asked[a] < next /\ \A k \in Behind : asked[a] < k
    BY <1>3 DEF FlushOK, Ahead
  <2>3. conn /\ left = 0
    BY <1>1, <1>2 DEF FlushOK, AnswerOK, TypeOK
  <2>4. \A k \in Queue : asked[a] < k
    <3>1. \A i \in DOMAIN outc : i > 0
      BY DEF TypeOK
    <3>2. \A i \in DOMAIN outc : \A k \in ToSet(outc[i].lines) : asked[a] < k
      BY <1>2, <2>3, <3>1 DEF FlushOK, AnswerOK
    <3> QED
      BY <3>2 DEF Queue, Contents
  <2>5. InHands = {}
    <3>1. current = NoBuffer /\ retryc = <<>>
      BY <1>1, <2>3 DEF RunOK, HoldsBuffer
    <3> QED
      BY <3>1, EmptyBuffer DEF InHands
  <2>6. l \in Alive \cup torn \cup lost
    <3>1. l \in 1 .. next - 1
      BY <2>1, <2>2
    <3> QED
      BY <3>1 DEF PlacesOK
  <2>7. l \notin Queue \cup Behind
    BY <2>1, <2>2, <2>4
  <2> QED
    BY <2>5, <2>6, <2>7 DEF Alive
<1>11. FlushDelivers'
  BY <1>1, <1>2, <1>10 DEF FlushOK, FlushDelivers, ToSet
<1> QED
  BY <1>4, <1>5, <1>6, <1>7, <1>8, <1>9, <1>11 DEF FlushOK

(* retryc is empty, and takes the buffer.                                   *)
LEMMA RequeueStep ==
  ASSUME IInv, Requeue
  PROVE  IInv'
<1> USE DEF IInv
<1>1. /\ loop \in {"requeue", "requeueFlushing"} /\ retryc = <<>>
      /\ retryc' = <<current>> /\ current' = NoBuffer
      /\ loop' = (IF loop = "requeue" THEN "loop" ELSE "flushing")
      /\ UNCHANGED <<buf, outc, mu, doFlush, conn, sent, torn, pc, line, asked, closed,
                     left, answering, reconnectFailed, trouble, next, droppedBytes, lost,
                     lostBytes, logs>>
  BY DEF Requeue, drops, wire, callers
<1>2. /\ current \in Buffers /\ CutOK(current) /\ Sorted(current.lines) /\ ~conn
      /\ loop # "flushing"
  BY <1>1 DEF TypeOK, RunOK, OrderOK, HoldsBuffer
<1>3. /\ retryc' \in Seq(Buffers) /\ Len(retryc') = 1 /\ retryc'[1] = current
      /\ DOMAIN retryc' = {1}
  BY <1>1, <1>2
<1>4. Contents(retryc') = ToSet(current.lines) /\ Chain(retryc')
  <2>1. Contents(retryc') = ToSet(current.lines)
    BY <1>3 DEF Contents
  <2>2. Chain(retryc')
    BY <1>2, <1>3 DEF Chain
  <2> QED
    BY <2>1, <2>2
<1>5. TypeOK'
  BY SMTT(30), <1>1, <1>3, EmptyBuffer DEF TypeOK, Loops
<1>6. RunOK'
  <2>1. /\ CutOK(current') /\ current' = NoBuffer /\ \A i \in DOMAIN retryc' : CutOK(retryc'[i])
        /\ ~HoldsBuffer'
    BY <1>1, <1>2, <1>3, EmptyBuffer DEF HoldsBuffer
  <2>2. answering # None <=> loop' \in {"flushing", "requeueFlushing"}
    BY <1>1 DEF RunOK
  <2> QED
    BY <1>1, <1>2, <2>1, <2>2 DEF RunOK, CutOK
<1>7. WaitOK'
  BY <1>1 DEF WaitOK, ToSet
<1>8. /\ InHands' = InHands /\ Queue' = Queue /\ Behind' = Behind
      /\ ToSet(sent)' = ToSet(sent) /\ Writing' = Writing
  <2>1. InHands = ToSet(current.lines)
    BY <1>1, EmptyBuffer DEF InHands
  <2>2. InHands' = Contents(retryc')
    BY <1>1, EmptyBuffer DEF InHands, Contents, ToSet
  <2>3. Writing' = Writing
    BY <1>1, WritingKept
  <2> QED
    BY <1>1, <1>4, <2>1, <2>2, <2>3 DEF Queue, Behind, Contents, ToSet
<1>9. OrderOK'
  <2>1. /\ Sorted(sent') /\ Sorted(current'.lines) /\ Chain(retryc') /\ Chain(outc')
        /\ Sorted(buf')
    BY <1>1, <1>4, EmptyBuffer DEF OrderOK
  <2>2. ToSet(buf)' = ToSet(buf)
    BY <1>1 DEF ToSet
  <2> QED
    BY <1>8, <2>1, <2>2 DEF OrderOK, Before, Sorted, Chain
<1>10. PlacesOK'
  BY <1>1, <1>8 DEF PlacesOK, Alive
<1>11. \A q \in Callers : Ahead(q)'
  BY <1>1, <1>8 DEF FlushOK, Ahead
<1>12. AnswerOK'
  BY <1>1, <1>2 DEF FlushOK, AnswerOK
<1>13. FlushDelivers'
  BY <1>1, DeliversKept
<1>14. DropsNotOverstated'
  BY <1>1 DEF DropsNotOverstated
<1> QED
  BY <1>5, <1>6, <1>7, <1>9, <1>10, <1>11, <1>12, <1>13, <1>14 DEF FlushOK

(* The second failure of a buffer: it is dropped with all that is buffered. *)
LEMMA DropRetryStep ==
  ASSUME IInv, DropRetry
  PROVE  IInv'
<1> USE DEF IInv
<1> DEFINE gone == ToSet(Whole(current)) \cup ToSet(buf)
<1>1. /\ loop = "dropRetry" /\ mu = None /\ loop' = "loop"
      /\ HandleFlushError(Remaining(current), gone, Remaining(current) + Bytes(buf))
      /\ torn' = torn \cup Cut(current) /\ buf' = <<>> /\ current' = NoBuffer
      /\ UNCHANGED <<outc, retryc, mu, doFlush, conn, sent, pc, line, asked, closed, left,
                     answering, reconnectFailed, trouble, next>>
  BY DEF DropRetry, Counted, callers
<1>2. /\ answering = None /\ retryc = <<>> /\ current \in Buffers /\ CutOK(current)
      /\ Sorted(current.lines)
  BY <1>1 DEF RunOK, HoldsBuffer, TypeOK, OrderOK
<1>3. /\ ToSet(Whole(current)) \cup Cut(current) = ToSet(current.lines)
      /\ ToSet(Whole(current)) \cap Cut(current) = {}
  BY <1>2, PiecesOf
<1>4. /\ ToSet(sent) \in SUBSET Lines /\ ToSet(buf) \in SUBSET Lines
      /\ ToSet(current.lines) \in SUBSET Lines /\ Contents(outc) \in SUBSET Lines
      /\ Writing = {}
  BY <1>1, PlaceTypes
<1>5. /\ droppedBytes' \in Nat /\ lostBytes' \in Nat /\ logs' \in Nat
      /\ lost' = lost \cup gone /\ lost' \subseteq Lines /\ DropsNotOverstated'
  <2>1. PICK d \in Nat : d = Remaining(current)
    BY <1>2, RemainingType
  <2>2. PICK k \in Nat : k = Bytes(buf)
    BY BytesType DEF TypeOK
  <2>3. d + k \in Nat /\ d <= d + k
    OBVIOUS
  <2>4. gone \in SUBSET Lines
    BY <1>3, <1>4
  <2>5. HandleFlushError(d, gone, d + k)
    BY <1>1, <2>1, <2>2
  <2> HIDE DEF gone
  <2> QED
    BY <2>3, <2>4, <2>5, DropEffect
<1>6. /\ InHands = ToSet(current.lines) /\ InHands' = {} /\ ToSet(sent)' = ToSet(sent)
      /\ Queue' = Queue /\ Queue = Contents(outc) /\ Behind = ToSet(buf) /\ Behind' = {}
      /\ ToSet(buf)' = {}
  <2>1. /\ ToSet(<<>>) = {} /\ Contents(<<>>) = {} /\ ToSet(NoBuffer.lines) = {}
    BY EmptyBuffer
  <2>2. Writing' = {}
    BY <1>1, <1>4, WritingKept
  <2>3. InHands = ToSet(current.lines) /\ Queue = Contents(outc) /\ Behind = ToSet(buf)
    BY <1>2, <1>4, <2>1 DEF InHands, Queue, Behind
  <2>4. ToSet(current.lines)' = {}
    BY <1>1, <2>1 DEF ToSet
  <2>5. Contents(retryc)' = {}
    BY <1>1, <1>2, <2>1 DEF Contents
  <2>6. ToSet(buf)' = {}
    BY <1>1, <2>1 DEF ToSet
  <2>7. ToSet(sent)' = ToSet(sent) /\ Contents(outc)' = Contents(outc)
    BY <1>1 DEF ToSet, Contents
  <2> QED
    BY <2>2, <2>3, <2>4, <2>5, <2>6, <2>7 DEF InHands, Queue, Behind
<1>7. /\ Before(ToSet(sent), InHands \cup Queue \cup Behind)
      /\ Before(InHands, Queue \cup Behind) /\ Before(Queue, Behind)
  BY DEF OrderOK
<1>8. /\ ToSet(sent) \cap (InHands \cup Queue \cup Behind) = {}
      /\ InHands \cap (Queue \cup Behind) = {} /\ Queue \cap Behind = {}
  <2>1. /\ InHands \cup Queue \cup Behind \in SUBSET Lines
        /\ InHands \in SUBSET Lines /\ Queue \in SUBSET Lines /\ Behind \in SUBSET Lines
        /\ Queue \cup Behind \in SUBSET Lines
    BY <1>4, <1>6
  <2> QED
    BY <1>4, <1>7, <2>1, Apart
<1>9. TypeOK'
  <2>1. torn' \subseteq Lines
    BY <1>1, <1>3, <1>4 DEF TypeOK
  <2> QED
    BY SMTT(30), <1>1, <1>5, <2>1, EmptyBuffer DEF TypeOK, Loops
<1>10. RunOK'
  <2>1. \A q \in Callers : pc[q] # "write"
    BY <1>1, NetSinkAssumption DEF RunOK
  <2> QED
    BY <1>1, <1>2, <2>1, EmptyBuffer DEF RunOK, HoldsBuffer, CutOK
<1>11. WaitOK'
  BY <1>1 DEF WaitOK, ToSet
<1>12. OrderOK'
  <2>1. /\ Sorted(sent') /\ Sorted(current'.lines) /\ Chain(retryc') /\ Chain(outc')
        /\ Sorted(buf')
    BY <1>1, EmptyBuffer DEF OrderOK
  <2>2. Before(ToSet(sent), Queue)
    BY <1>7 DEF Before
  <2> QED
    BY <1>6, <2>1, <2>2 DEF OrderOK, Before, Sorted, Chain
<1>13. PlacesOK'
  <2>1. Alive' = ToSet(sent) \cup Queue /\ Alive = ToSet(sent) \cup InHands \cup Queue \cup Behind
    BY <1>6 DEF Alive
  <2>2. /\ Alive \cup torn \cup lost = 1 .. next - 1
        /\ Alive \cap torn = {} /\ Alive \cap lost = {} /\ torn \cap lost = {}
    BY DEF PlacesOK
  <2>3. /\ torn' = torn \cup Cut(current) /\ lost' = lost \cup gone
        /\ gone = ToSet(Whole(current)) \cup Behind
        /\ InHands = ToSet(Whole(current)) \cup Cut(current)
    BY <1>1, <1>3, <1>5, <1>6
  <2> HIDE DEF gone
  <2>4. Alive' \cup torn' \cup lost' = 1 .. next - 1
    BY <2>1, <2>2, <2>3
  <2>5. Alive' \cap torn' = {} /\ Alive' \cap lost' = {} /\ torn' \cap lost' = {}
    BY <1>3, <1>8, <2>1, <2>2, <2>3
  <2> QED
    BY <1>1, <2>4, <2>5 DEF PlacesOK
<1>14. \A q \in Callers : Ahead(q)'
  BY <1>1, <1>6 DEF FlushOK, Ahead
<1>15. AnswerOK'
  BY <1>1, <1>2 DEF AnswerOK
<1>16. FlushDelivers'
  BY <1>1, <1>5, DeliversKept
<1> QED
  BY <1>5, <1>9, <1>10, <1>11, <1>12, <1>13, <1>14, <1>15, <1>16 DEF FlushOK

-----------------------------------------------------------------------------
(* Writing a buffer.                                                        *)

(* The buffer comes from retryc or from the head of outc; what is written   *)
(* of it comes after all that was sent, and what is left before all that    *)
(* still waits.                                                             *)
Takes(b) ==
  /\ b \in Buffers /\ CutOK(b) /\ Sorted(b.lines)
  /\ loop \in {"loop", "flushing"} /\ conn
  /\ retryc' = <<>> /\ outc' \in Seq(Buffers) /\ Len(outc') <= OutCap
  /\ Chain(outc') /\ \A i \in DOMAIN outc' : ~outc'[i].cut
  /\ ToSet(b.lines) \cup Contents(outc') = InHands \cup Queue
  /\ Contents(outc') \subseteq Queue
  /\ Before(ToSet(b.lines), Contents(outc'))
  /\ \/ WriteOk(b) /\ loop' = loop
     \/ WriteFails(b) /\ loop' \in {"dropRetry", "requeue", "requeueFlushing"}
  /\ answering # None <=> loop' \in {"flushing", "requeueFlushing"}
  /\ UNCHANGED <<buf, mu, doFlush, pc, line, asked, closed, answering, reconnectFailed,
                 next, droppedBytes, lost, lostBytes, logs>>

LEMMA WireOrder ==
  ASSUME IInv, NEW b, Takes(b), current = NoBuffer,
         NEW w \in SUBSET Lines, NEW x \in SUBSET Lines, NEW u \in Buffers,
         Outcome(b, w, x, u)
  PROVE  OrderOK' /\ PlacesOK' /\ Behind' = Behind
<1> USE DEF IInv
<1> DEFINE B == ToSet(b.lines)
           U == ToSet(u.lines)
           S == ToSet(sent)
           Q == Contents(outc')
<1>1. /\ Sorted(sent') /\ ToSet(sent') = S \cup w /\ torn' = torn \cup x
      /\ w \cup x \cup U = B /\ w \cap x = {} /\ (w \cup x) \cap U = {}
      /\ Before(w, U) /\ Sorted(u.lines) /\ current' = u
  BY DEF Outcome
<1>2. /\ retryc' = <<>> /\ Chain(outc') /\ B \cup Q = InHands \cup Queue /\ Q \subseteq Queue
      /\ Before(B, Q)
      /\ UNCHANGED <<buf, pc, line, next, lost>>
  BY DEF Takes
<1>3. Writing' = Writing /\ Behind' = Behind /\ ToSet(buf)' = ToSet(buf)
  <2>1. Writing' = Writing
    BY <1>2, WritingKept
  <2> QED
    BY <1>2, <2>1 DEF Behind, ToSet
<1>4. /\ S \in SUBSET Lines /\ Behind \in SUBSET Lines /\ InHands \cup Queue \in SUBSET Lines
  BY PlaceTypes DEF InHands, Queue, Behind
<1>5. /\ Before(S, InHands \cup Queue \cup Behind) /\ Before(InHands, Queue \cup Behind)
      /\ Before(Queue, Behind) /\ Before(ToSet(buf), Writing) /\ Sorted(buf)
  BY DEF OrderOK
<1>6. InHands' = U /\ Queue' = Q /\ ToSet(sent)' = S \cup w
  <2>1. Contents(retryc)' = {}
    <3>1. Contents(retryc)' = Contents(<<>>)
      BY <1>2 DEF Contents
    <3> QED
      BY <3>1, EmptyBuffer
  <2>2. /\ Contents(outc)' = Q /\ ToSet(current.lines)' = ToSet(current'.lines)
        /\ ToSet(sent)' = ToSet(sent')
    BY DEF Contents, ToSet
  <2>3. current'.lines = u.lines
    BY <1>1
  <2> QED
    BY <1>1, <2>1, <2>2, <2>3 DEF InHands, Queue
<1> HIDE DEF B, U, S, Q
<1>7. w \subseteq B /\ U \subseteq B /\ x \subseteq B /\ B \subseteq InHands \cup Queue
  BY <1>1, <1>2
<1>8. Before(S, B \cup Q \cup Behind) /\ Before(B, Q \cup Behind) /\ Before(Q, Behind)
  BY <1>2, <1>5, <1>7 DEF Before
<1>9. OrderOK'
  <2>1. Before(S \cup w, U \cup Q \cup Behind) /\ Before(U, Q \cup Behind)
    BY <1>1, <1>7, <1>8 DEF Before
  <2>2. Sorted(current'.lines) /\ Chain(retryc') /\ Sorted(buf')
    BY <1>1, <1>2, <1>5, EmptyBuffer
  <2> QED
    BY <1>1, <1>2, <1>3, <1>5, <1>6, <1>8, <2>1, <2>2 DEF OrderOK, Before, Sorted, Chain
<1>10. S \cap (B \cup Q \cup Behind) = {} /\ B \cap (Q \cup Behind) = {}
  <2>1. /\ B \cup Q \cup Behind \in SUBSET Lines /\ B \in SUBSET Lines
        /\ Q \cup Behind \in SUBSET Lines
    BY <1>2, <1>4, <1>7
  <2> QED
    BY <1>4, <1>8, <2>1, Apart
<1>11. PlacesOK'
  <2>1. Alive' = S \cup w \cup U \cup Q \cup Behind
    BY <1>3, <1>6 DEF Alive
  <2>2. Alive = S \cup B \cup Q \cup Behind
    BY <1>2 DEF Alive, S
  <2>3. /\ Alive \cup torn \cup lost = 1 .. next - 1
        /\ Alive \cap torn = {} /\ Alive \cap lost = {} /\ torn \cap lost = {}
    BY DEF PlacesOK
  <2>4. Alive' \cup torn' \cup lost = 1 .. next - 1
    BY <1>1, <2>1, <2>2, <2>3
  <2>5. x \cap Alive' = {}
    BY <1>1, <1>7, <1>10, <2>1
  <2>6. Alive' \cap torn' = {} /\ Alive' \cap lost = {} /\ torn' \cap lost = {}
    BY <1>1, <1>7, <2>1, <2>2, <2>3, <2>5
  <2> QED
    BY <1>2, <2>4, <2>6 DEF PlacesOK
<1> QED
  BY <1>3, <1>9, <1>11

(* The rest of the invariant, once AnswerOK is known to be kept.            *)
LEMMA WireStep ==
  ASSUME IInv, NEW b, Takes(b), current = NoBuffer,
         left' \in 0 .. (IF OutCap > FlushCap * 8 THEN OutCap ELSE FlushCap * 8),
         WriteOk(b) => AnswerOK'
  PROVE  IInv'
<1> USE DEF IInv
<1>1. /\ b \in Buffers /\ CutOK(b) /\ Sorted(b.lines) /\ (WriteOk(b) \/ WriteFails(b))
      /\ loop \in {"loop", "flushing"} /\ conn
      /\ retryc' = <<>> /\ outc' \in Seq(Buffers) /\ Len(outc') <= OutCap
      /\ \A i \in DOMAIN outc' : ~outc'[i].cut
      /\ answering # None <=> loop' \in {"flushing", "requeueFlushing"}
      /\ UNCHANGED <<buf, mu, doFlush, pc, line, asked, closed, answering, reconnectFailed,
                     next, droppedBytes, lost, lostBytes, logs>>
  BY DEF Takes
<1>2. Before(ToSet(sent), ToSet(b.lines)) /\ Sorted(sent)
  <2>1. ToSet(b.lines) \subseteq InHands \cup Queue
    BY DEF Takes
  <2> QED
    BY <2>1 DEF OrderOK, Before
<1>3. PICK w \in SUBSET Lines, x \in SUBSET Lines, u \in Buffers : Outcome(b, w, x, u)
  BY <1>1, <1>2, WriteEffect
<1>4. OrderOK' /\ PlacesOK' /\ Behind' = Behind
  BY <1>3, WireOrder
<1>5. /\ sent' \in Seq(Lines) /\ ToSet(sent') = ToSet(sent) \cup w /\ torn' = torn \cup x
      /\ CutOK(u)
      /\ \/ /\ loop' = loop /\ current' = NoBuffer /\ UNCHANGED <<conn, trouble>>
         \/ /\ loop' \in {"dropRetry", "requeue", "requeueFlushing"} /\ current' = u
            /\ conn' = FALSE /\ trouble' = [p \in Callers |-> TRUE]
  <2>1. WriteOk(b) /\ WriteFails(b) => FALSE
    BY <1>1 DEF WriteOk, WriteFails
  <2> QED
    BY <1>3, <2>1 DEF Outcome, Takes
<1>6. TypeOK'
  <2>1. /\ loop' \in Loops /\ current' \in Buffers /\ conn' \in BOOLEAN
        /\ trouble' \in [Callers -> BOOLEAN] /\ torn' \subseteq Lines
    BY <1>1, <1>3, <1>5, EmptyBuffer DEF TypeOK, Loops
  <2>2. retryc' \in Seq(Buffers) /\ Len(retryc') <= 1
    BY <1>1
  <2> QED
    BY <1>1, <1>5, <2>1, <2>2 DEF TypeOK
<1>7. RunOK'
  <2>1. ~HoldsBuffer' => current' = NoBuffer
    BY <1>1, <1>5 DEF HoldsBuffer
  <2>2. HoldsBuffer' => ~conn'
    BY <1>1, <1>5 DEF HoldsBuffer
  <2>3. CutOK(current') /\ \A i \in DOMAIN retryc' : CutOK(retryc'[i])
    <3>1. CutOK(NoBuffer) /\ DOMAIN retryc' = {}
      BY <1>1, EmptyBuffer
    <3> QED
      BY <1>5, <3>1
  <2> QED
    BY <1>1, <2>1, <2>2, <2>3 DEF RunOK, CutOK
<1>8. WaitOK'
  BY <1>1 DEF WaitOK, ToSet
<1>9. \A q \in Callers : Ahead(q)'
  BY <1>1, <1>4 DEF FlushOK, Ahead
<1>10. AnswerOK'
  <2>1. CASE WriteOk(b)
    BY <2>1
  <2>2. CASE WriteFails(b)
    BY <1>1, <2>2 DEF AnswerOK, TypeOK, WriteFails
  <2> QED
    BY <1>1, <2>1, <2>2
<1>11. FlushDelivers'
  <2>1. \A q \in closed : trouble[q] => trouble'[q]
    BY <1>5 DEF TypeOK
  <2> QED
    BY <1>1, <1>5, <2>1, DeliversKept
<1>12. DropsNotOverstated'
  BY <1>1 DEF DropsNotOverstated
<1> QED
  BY <1>4, <1>6, <1>7, <1>8, <1>9, <1>10, <1>11, <1>12 DEF FlushOK

(* The buffer in retryc.                                                    *)
LEMMA TakesRetry ==
  ASSUME IInv, Retry
  PROVE  Takes(Head(retryc)) /\ current = NoBuffer /\ answering = None
<1> USE DEF IInv
<1> DEFINE b == Head(retryc)
<1>1. /\ loop = "loop" /\ conn /\ retryc # <<>> /\ retryc' = Tail(retryc)
      /\ \/ WriteOk(b) /\ loop' = loop
         \/ WriteFails(b) /\ loop' = "dropRetry"
      /\ UNCHANGED <<buf, outc, mu, doFlush, pc, line, asked, closed, left, answering,
                     reconnectFailed, next, droppedBytes, lost, lostBytes, logs>>
  BY DEF Retry, Connected, drops, callers
<1>2. /\ answering = None /\ current = NoBuffer
      /\ retryc \in Seq(Buffers) /\ Len(retryc) = 1 /\ DOMAIN retryc = {1} /\ b = retryc[1]
  <2>1. retryc \in Seq(Buffers) /\ Len(retryc) \in Nat /\ Len(retryc) <= 1 /\ Len(retryc) > 0
    BY <1>1, NonEmpty DEF TypeOK
  <2>2. \A n \in Nat : n <= 1 /\ n > 0 => n = 1
    OBVIOUS
  <2>3. Len(retryc) = 1
    BY <2>1, <2>2
  <2> QED
    BY <1>1, <2>1, <2>3 DEF RunOK, HoldsBuffer
<1>3. b \in Buffers /\ CutOK(b) /\ Sorted(b.lines)
  BY <1>2 DEF RunOK, OrderOK, Chain
<1>4. retryc' = <<>>
  BY <1>1, <1>2
<1>5. InHands = ToSet(b.lines)
  <2>1. Contents(retryc) = ToSet(b.lines)
    BY <1>2 DEF Contents
  <2>2. ToSet(current.lines) = {}
    BY <1>2, EmptyBuffer
  <2> QED
    BY <2>1, <2>2 DEF InHands
<1> HIDE DEF b
<1>6. Contents(outc') = Queue /\ Chain(outc')
  BY <1>1 DEF Queue, OrderOK
<1>7. Before(ToSet(b.lines), Contents(outc'))
  BY <1>5, <1>6 DEF OrderOK, Before
<1>8. Takes(b)
  BY <1>1, <1>2, <1>3, <1>4, <1>5, <1>6, <1>7 DEF Takes, TypeOK, RunOK
<1> QED
  BY <1>2, <1>8 DEF b

LEMMA RetryStep ==
  ASSUME IInv, Retry
  PROVE  IInv'
<1>1. UNCHANGED <<left, answering>>
  BY DEF Retry
<1>2. AnswerOK'
  BY <1>1, TakesRetry DEF AnswerOK
<1>3. left' \in 0 .. (IF OutCap > FlushCap * 8 THEN OutCap ELSE FlushCap * 8)
  BY <1>1 DEF IInv, TypeOK
<1> QED
  BY <1>2, <1>3, TakesRetry, WireStep

(* The first buffer of outc.                                                *)
LEMMA TakesNext ==
  ASSUME IInv, WriteNext, loop \in {"loop", "flushing"}, conn, retryc = <<>>,
         UNCHANGED <<buf, retryc, mu, doFlush, drops, callers, answering, reconnectFailed,
                     next>>
  PROVE  /\ Takes(Head(outc)) /\ current = NoBuffer
         /\ \A i \in DOMAIN outc' : i + 1 \in DOMAIN outc /\ outc'[i] = outc[i + 1]
         /\ WriteOk(Head(outc)) => loop' = loop /\ UNCHANGED conn
<1> USE DEF IInv
<1> DEFINE b == Head(outc)
<1>1. /\ outc # <<>> /\ outc' = Tail(outc) /\ outc \in Seq(Buffers) /\ Chain(outc)
      /\ \/ WriteOk(b) /\ loop' = loop
         \/ WriteFails(b) /\ loop' = IF answering = None THEN "requeue" ELSE "requeueFlushing"
      /\ answering # None <=> loop = "flushing"
      /\ current = NoBuffer
      /\ UNCHANGED <<buf, retryc, mu, doFlush, pc, line, asked, closed, answering,
                     reconnectFailed, next, droppedBytes, lost, lostBytes, logs>>
  BY DEF WriteNext, TypeOK, OrderOK, RunOK, HoldsBuffer, drops, callers
<1>2. /\ outc' \in Seq(Buffers) /\ Len(outc') = Len(outc) - 1 /\ b \in Buffers
      /\ \A i \in 1 .. Len(outc) - 1 : outc'[i] = outc[i + 1]
      /\ Contents(outc) = ToSet(b.lines) \cup Contents(outc')
      /\ Chain(outc') /\ Sorted(b.lines) /\ Before(ToSet(b.lines), Contents(outc'))
  BY <1>1, TailBuffers
<1>3. \A i \in DOMAIN outc' : i + 1 \in DOMAIN outc /\ outc'[i] = outc[i + 1]
  <2>1. DOMAIN outc' = 1 .. Len(outc) - 1 /\ DOMAIN outc = 1 .. Len(outc)
    BY <1>1, <1>2
  <2>2. \A i \in 1 .. Len(outc) - 1 : i + 1 \in 1 .. Len(outc)
    BY <1>1
  <2> QED
    BY <1>2, <2>1, <2>2
<1>4. CutOK(b) /\ \A i \in DOMAIN outc' : ~outc'[i].cut
  <2>1. 1 \in DOMAIN outc /\ b = outc[1]
    BY <1>1, NonEmpty
  <2> QED
    BY <1>3, <2>1 DEF RunOK, CutOK
<1>5. InHands = {}
  BY <1>1, EmptyBuffer DEF InHands
<1>6. Len(outc') <= OutCap
  <2>1. Len(outc) \in Nat /\ Len(outc) <= OutCap /\ OutCap \in Nat
    BY NetSinkAssumption DEF TypeOK
  <2> QED
    BY <1>2, <2>1
<1>7. WriteOk(b) => loop' = loop /\ UNCHANGED conn
  BY <1>1 DEF WriteOk, WriteFails
<1> QED
  BY <1>1, <1>2, <1>3, <1>4, <1>5, <1>6, <1>7 DEF Takes, Queue

LEMMA TakeBufferStep ==
  ASSUME IInv, TakeBuffer
  PROVE  IInv'
<1> USE DEF IInv
<1>1. /\ loop = "loop" /\ conn /\ retryc = <<>> /\ WriteNext
      /\ UNCHANGED <<buf, retryc, mu, doFlush, drops, callers, answering, reconnectFailed,
                     next>>
      /\ UNCHANGED <<left, answering>>
  BY DEF TakeBuffer, Selecting, Connected
<1>2. Takes(Head(outc)) /\ current = NoBuffer
  BY <1>1, TakesNext
<1>3. AnswerOK'
  BY <1>1 DEF RunOK, AnswerOK
<1> QED
  BY <1>1, <1>2, <1>3, WireStep DEF TypeOK

(* The buffers in outc move up by one, and so does the last that the caller *)
(* waits for.                                                               *)
LEMMA FlushOneStep ==
  ASSUME IInv, FlushOne
  PROVE  IInv'
<1> USE DEF IInv
<1>1. /\ loop = "flushing" /\ conn /\ left > 0 /\ left' = left - 1 /\ WriteNext
      /\ UNCHANGED <<buf, retryc, mu, doFlush, drops, callers, answering, reconnectFailed,
                     next>>
      /\ UNCHANGED <<asked, answering>>
  BY DEF FlushOne, MoreToFlush, callers
<1>2. retryc = <<>>
  BY <1>1 DEF RunOK
<1>3. /\ Takes(Head(outc)) /\ current = NoBuffer
      /\ \A i \in DOMAIN outc' : i + 1 \in DOMAIN outc /\ outc'[i] = outc[i + 1]
      /\ WriteOk(Head(outc)) => loop' = loop /\ UNCHANGED conn
  BY <1>1, <1>2, TakesNext
<1>4. left' \in 0 .. (IF OutCap > FlushCap * 8 THEN OutCap ELSE FlushCap * 8)
  BY <1>1, NetSinkAssumption DEF TypeOK
<1>5. ASSUME WriteOk(Head(outc))
      PROVE  AnswerOK'
  <2>1. UNCHANGED <<trouble, loop, conn>>
    BY <1>3, <1>5 DEF WriteOk
  <2> SUFFICES ASSUME answering # None, ~trouble[answering],
                      NEW i \in DOMAIN outc', i > left',
                      NEW l \in ToSet(outc'[i].lines)
               PROVE  asked[answering] < l
    BY <1>1, <2>1 DEF AnswerOK, ToSet
  <2>2. i + 1 \in DOMAIN outc /\ outc'[i] = outc[i + 1]
    BY <1>3
  <2>3. i + 1 > left
    <3>1. left \in Int /\ i \in Int
      BY <1>3 DEF TypeOK, Takes
    <3> QED
      BY <1>1, <3>1
  <2> QED
    BY <2>2, <2>3 DEF FlushOK, AnswerOK
<1> QED
  BY <1>3, <1>4, <1>5, WireStep

-----------------------------------------------------------------------------
(* The invariant holds at first, and every step keeps it.                   *)

LEMMA InitInv == Init => IInv
<1> SUFFICES ASSUME Init
             PROVE  IInv
  OBVIOUS
<1> USE NetSinkAssumption, EmptyBuffer DEF Init
<1>1. TypeOK
  <2>1. /\ pc \in [Callers -> {"idle", "write", "send", "await"}]
        /\ line \in [Callers -> 0 .. MaxLines] /\ asked \in [Callers -> 0 .. MaxLines]
        /\ trouble \in [Callers -> BOOLEAN]
    <3>1. 0 \in 0 .. MaxLines
      OBVIOUS
    <3> QED
      BY <3>1
  <2>2. /\ buf \in Seq(Lines) /\ outc \in Seq(Buffers) /\ retryc \in Seq(Buffers)
        /\ doFlush \in Seq(Callers) /\ sent \in Seq(Lines)
        /\ Len(outc) <= OutCap /\ Len(retryc) <= 1 /\ Len(doFlush) <= FlushCap
    <3>1. \A S : <<>> \in Seq(S) /\ Len(<<>>) = 0
      OBVIOUS
    <3> QED
      BY <3>1
  <2>3. /\ left \in 0 .. (IF OutCap > FlushCap * 8 THEN OutCap ELSE FlushCap * 8)
        /\ next \in 1 .. MaxLines + 1
    OBVIOUS
  <2> QED
    BY <2>1, <2>2, <2>3 DEF TypeOK, Loops
<1>2. RunOK
  BY DEF RunOK, HoldsBuffer
<1>3. WaitOK
  BY DEF WaitOK
<1>4. Writing = {} /\ InHands = {} /\ Queue = {} /\ Behind = {} /\ Alive = {}
  <2>1. Writing = {}
    BY DEF Writing
  <2> QED
    BY <2>1 DEF InHands, Queue, Behind, Alive
<1>5. OrderOK
  BY <1>4 DEF OrderOK, Before
<1>6. PlacesOK
  BY <1>4 DEF PlacesOK
<1>7. FlushOK
  BY DEF FlushOK, Ahead, AnswerOK, FlushDelivers
<1>8. DropsNotOverstated
  BY DEF DropsNotOverstated
<1> QED
  BY <1>1, <1>2, <1>3, <1>5, <1>6, <1>7, <1>8 DEF IInv

LEMMA StutterStep ==
  ASSUME IInv, UNCHANGED vars
  PROVE  IInv'
<1> USE DEF vars, buffers, drops, wire, callers, runner
<1>1. TypeOK' /\ RunOK' /\ WaitOK'
  BY DEF IInv, TypeOK, RunOK, WaitOK, HoldsBuffer, CutOK, ToSet
<1>2. OrderOK' /\ PlacesOK' /\ DropsNotOverstated'
  BY NothingMoves
<1>3. \A q \in Callers : Ahead(q)'
  BY FlushKept
<1>4. AnswerOK' /\ FlushDelivers'
  BY AnswerKept, DeliversKept DEF IInv
<1> QED
  BY <1>1, <1>2, <1>3, <1>4 DEF IInv, FlushOK

LEMMA InvStep ==
  ASSUME IInv, [Next]_vars
  PROVE  IInv'
<1>1. ASSUME NEW p \in Callers, CallerStep(p)
      PROVE  IInv'
  BY <1>1, WriteLockStep, WriteLineStep, FlushStartStep, FlushSendStep, FlushReturnStep
     DEF CallerStep
<1>2. CASE RunStep
  BY <1>2, DialStep, DrainOneStep, RetryStep, DropRetryStep, TickStep, TakeFlushStep,
     TakeBufferStep, FlushOneStep, FlushAnswerStep, RequeueStep DEF RunStep
<1>3. CASE UNCHANGED vars
  BY <1>3, StutterStep
<1> QED
  BY <1>1, <1>2, <1>3 DEF Next

(* What has left the sink.                                                  *)
Gone == ToSet(sent) \cup torn \cup lost

LEMMA WireGrows ==
  ASSUME IInv, NEW b, Takes(b)
  PROVE  Gone \subseteq Gone'
<1>1. b \in Buffers /\ CutOK(b) /\ Sorted(b.lines) /\ (WriteOk(b) \/ WriteFails(b))
      /\ lost' = lost
  BY DEF Takes
<1>2. Before(ToSet(sent), ToSet(b.lines)) /\ Sorted(sent)
  <2>1. ToSet(b.lines) \subseteq InHands \cup Queue
    BY DEF Takes
  <2> QED
    BY <2>1 DEF IInv, OrderOK, Before
<1>3. PICK w \in SUBSET Lines, x \in SUBSET Lines, u \in Buffers : Outcome(b, w, x, u)
  BY <1>1, <1>2, WriteEffect DEF IInv
<1>4. ToSet(sent)' = ToSet(sent')
  BY DEF ToSet
<1> QED
  BY <1>1, <1>3, <1>4 DEF Outcome, Gone

LEMMA GoneGrows ==
  ASSUME IInv, [Next]_vars
  PROVE  Gone \subseteq Gone'
<1> USE DEF HandleFlushError
<1>1. CASE Retry
  BY <1>1, TakesRetry, WireGrows
<1>2. CASE TakeBuffer \/ FlushOne
  <2>1. /\ loop \in {"loop", "flushing"} /\ conn /\ retryc = <<>> /\ WriteNext
        /\ UNCHANGED <<buf, retryc, mu, doFlush, drops, callers, answering, reconnectFailed,
                       next>>
    BY <1>2 DEF TakeBuffer, FlushOne, Selecting, Connected, MoreToFlush, IInv, RunOK
  <2> QED
    BY <2>1, TakesNext, WireGrows
<1>3. ASSUME sent' = sent, torn \subseteq torn', lost \subseteq lost'
      PROVE  Gone \subseteq Gone'
  BY <1>3 DEF Gone, ToSet
<1>4. FlushBuf => lost \subseteq lost'
  BY DEF FlushBuf, drops
<1>5. ASSUME NEW p \in Callers, CallerStep(p)
      PROVE  sent' = sent /\ torn' = torn /\ lost \subseteq lost'
  BY <1>4, <1>5 DEF CallerStep, WriteLock, WriteLine, FlushStart, FlushSend, FlushReturn, wire,
     drops
<1>6. CASE ConnectOk \/ ConnectFail \/ DrainOne \/ DrainEnd \/ Wake \/ DropRetry \/ Tick
           \/ TakeFlush \/ FlushAnswer \/ Requeue
  <2>1. sent' = sent /\ torn \subseteq torn' /\ lost \subseteq lost'
    BY <1>4, <1>6 DEF ConnectOk, ConnectFail, DrainOne, DrainEnd, Wake, DropRetry, Tick,
       TakeFlush, FlushAnswer, Requeue, wire, drops
  <2> QED
    BY <1>3, <2>1
<1>7. CASE UNCHANGED vars
  <2>1. sent' = sent /\ torn' = torn /\ lost' = lost
    BY <1>7 DEF vars, wire, drops
  <2> QED
    BY <1>3, <2>1
<1> QED
  BY <1>1, <1>2, <1>3, <1>5, <1>6, <1>7 DEF Next, RunStep

(* The inductive invariant of the network sink (net_sink.go): the writer,   *)
(* outc, retryc and the buffer in the hands of run form one queue, and a    *)
(* Flush knows how much of it is ahead.                                     *)
THEOREM Invariance == Spec => []IInv
<1>1. Init => IInv
  BY InitInv
<1>2. IInv /\ [Next]_vars => IInv'
  BY InvStep
<1> QED
  BY <1>1, <1>2, PTL DEF Spec

(* The variables keep their types; outc, retryc and doFlush never hold more *)
(* than the capacity that NewNetSink gives them.                            *)
THEOREM TypeCorrect == Spec => []TypeOK
<1>1. IInv => TypeOK
  BY DEF IInv
<1> QED
  BY <1>1, Invariance, PTL

(* run never blocks putting a buffer into retryc: one place is enough       *)
(* (writeToConn's callers in run and the remark in NewNetSink).             *)
THEOREM RetryBufferSuffices == Spec => []RetryNeverBlocks
<1>1. IInv => RetryNeverBlocks
  BY DEF IInv, RunOK, HoldsBuffer, RetryNeverBlocks
<1> QED
  BY <1>1, Invariance, PTL

(* Lines reach the wire in the order in which their writers took mu, each   *)
(* once, whatever fails in between (writeToConn, run and retryc).           *)
THEOREM WireInOrder == Spec => []SentInOrder
<1>1. IInv => SentInOrder
  BY DEF IInv, OrderOK, Sorted, SentInOrder
<1> QED
  BY <1>1, Invariance, PTL

(* No line is duplicated or forgotten: each is in one place (writeBuffer,   *)
(* sinkWriter.Write, writeToConn, handleFlushErrorSize).                    *)
THEOREM OnePlaceEach == Spec => []EachLineOnce
<1>1. IInv => EachLineOnce
  <2> SUFFICES ASSUME IInv
               PROVE  EachLineOnce
    OBVIOUS
  <2>1. DOMAIN Places = 1 .. 8
    BY DEF Places
  <2>2. UNION {Places[i] : i \in DOMAIN Places} = 1 .. next - 1
    <3>1. UNION {Places[i] : i \in DOMAIN Places} = Alive \cup torn \cup lost
      <4>1. \A i \in 1 .. 8 : i \in {1, 2, 3, 4, 5, 6, 7, 8}
        OBVIOUS
      <4>2. {Places[i] : i \in DOMAIN Places}
              = {Writing, ToSet(buf), Contents(outc), Contents(retryc),
                 ToSet(current.lines), ToSet(sent), torn, lost}
        BY <2>1, <4>1 DEF Places
      <4> QED
        BY <4>2 DEF Alive, InHands, Queue, Behind
    <3> QED
      BY <3>1 DEF IInv, PlacesOK
  <2>3. /\ ToSet(sent) \in SUBSET Lines /\ ToSet(buf) \in SUBSET Lines
        /\ ToSet(current.lines) \in SUBSET Lines
        /\ Contents(outc) \in SUBSET Lines /\ Contents(retryc) \in SUBSET Lines
        /\ Writing \in SUBSET Lines
    BY PlaceTypes DEF IInv
  <2>4. ToSet(current.lines) \cap Contents(retryc) = {}
    <3>1. CASE HoldsBuffer
      BY <3>1, EmptyBuffer DEF IInv, RunOK
    <3>2. CASE ~HoldsBuffer
      BY <3>2, EmptyBuffer DEF IInv, RunOK
    <3> QED
      BY <3>1, <3>2
  <2>5. /\ ToSet(sent) \cap (InHands \cup Queue \cup Behind) = {}
        /\ InHands \cap (Queue \cup Behind) = {} /\ Queue \cap Behind = {}
        /\ ToSet(buf) \cap Writing = {}
    <3>1. /\ InHands \in SUBSET Lines /\ Queue \in SUBSET Lines /\ Behind \in SUBSET Lines
          /\ InHands \cup Queue \cup Behind \in SUBSET Lines
          /\ Queue \cup Behind \in SUBSET Lines
      BY <2>3 DEF InHands, Queue, Behind
    <3>2. /\ Before(ToSet(sent), InHands \cup Queue \cup Behind)
          /\ Before(InHands, Queue \cup Behind)
          /\ Before(Queue, Behind)
          /\ Before(ToSet(buf), Writing)
      BY DEF IInv, OrderOK
    <3> QED
      BY <2>3, <3>1, <3>2, Apart
  <2>6. Alive \cap torn = {} /\ Alive \cap lost = {} /\ torn \cap lost = {}
    BY DEF IInv, PlacesOK
  <2>7. ASSUME NEW i \in 1 .. 8, NEW j \in 1 .. 8, i < j
        PROVE  Places[i] \cap Places[j] = {}
    <3>1. /\ Places[1] = Writing /\ Places[2] = ToSet(buf) /\ Places[3] = Contents(outc)
          /\ Places[4] = Contents(retryc) /\ Places[5] = ToSet(current.lines)
          /\ Places[6] = ToSet(sent) /\ Places[7] = torn /\ Places[8] = lost
      BY DEF Places
    <3>2. CASE j = 8
      <4>1. i \in 1 .. 7
        BY <2>7, <3>2
      <4> QED
        BY <2>6, <3>1, <3>2, <4>1 DEF Alive, InHands, Queue, Behind
    <3>3. CASE j = 7
      <4>1. i \in 1 .. 6
        BY <2>7, <3>3
      <4> QED
        BY <2>6, <3>1, <3>3, <4>1 DEF Alive, InHands, Queue, Behind
    <3>4. CASE j = 6
      <4>1. i \in 1 .. 5
        BY <2>7, <3>4
      <4> QED
        BY <2>5, <3>1, <3>4, <4>1 DEF InHands, Queue, Behind
    <3>5. CASE j = 5
      <4>1. i \in 1 .. 4
        BY <2>7, <3>5
      <4> QED
        BY <2>4, <2>5, <3>1, <3>5, <4>1 DEF InHands, Queue, Behind
    <3>6. CASE j = 4
      <4>1. i \in 1 .. 3
        BY <2>7, <3>6
      <4> QED
        BY <2>5, <3>1, <3>6, <4>1 DEF InHands, Queue, Behind
    <3>7. CASE j = 3
      <4>1. i \in 1 .. 2
        BY <2>7, <3>7
      <4> QED
        BY <2>5, <3>1, <3>7, <4>1 DEF Queue, Behind
    <3>8. CASE j = 2
      <4>1. i = 1
        BY <2>7, <3>8
      <4> QED
        BY <2>5, <3>1, <3>8, <4>1
    <3>9. j \in 2 .. 8
      BY <2>7
    <3> QED
      BY <3>2, <3>3, <3>4, <3>5, <3>6, <3>7, <3>8, <3>9
  <2> QED
    BY <2>1, <2>2, <2>7 DEF EachLineOnce
<1> QED
  BY <1>1, Invariance, PTL

(* A Flush that run answers, no write having failed since it began, has put *)
(* on the wire every line written before it and not dropped (Flush, and the *)
(* case of doFlush in run).                                                 *)
THEOREM FlushIsComplete == Spec => []FlushDelivers
<1>1. IInv => FlushDelivers
  BY DEF IInv, FlushOK
<1> QED
  BY <1>1, Invariance, PTL

(* The count of dropped bytes that is logged is never more than what was    *)
(* lost (handleFlushErrorSize and its callers).                             *)
THEOREM CountIsLowerBound == Spec => []DropsNotOverstated
<1>1. IInv => DropsNotOverstated
  BY DEF IInv
<1> QED
  BY <1>1, Invariance, PTL

(* The request of a caller that waits in Flush is in the queue, being       *)
(* answered or answered, and in only one of these, once: the done channel   *)
(* of a request is closed by run, or by its release, never twice.           *)
THEOREM RequestsAreKept == Spec => []WaitOK
<1>1. IInv => WaitOK
  BY DEF IInv
<1> QED
  BY <1>1, Invariance, PTL

-----------------------------------------------------------------------------
(* Pipeline: the composition runs the sink of NetSink and the store of      *)
(* Ledger, and the last Flush of StartContext sends everything.             *)

(* What a step of the pipeline is to the sink, and to the store.            *)
LEMMA SinkStep == [PipelineNext]_all => [Next]_vars
<1>1. Loop \in Callers /\ Users \subseteq Callers
  BY PipelineAssumption DEF Users
<1>2. UNCHANGED all => UNCHANGED vars
  BY DEF all
<1>3. ASSUME NEW p \in Callers, WriteLock(p) \/ FlushStart(p) \/ InSink(p)
      PROVE  Next
  BY <1>3 DEF InSink, CallerStep, Next
<1>4. CASE Cancel
  BY <1>4 DEF Cancel
<1>5. CASE StartContext
  BY <1>1, <1>3, <1>5 DEF StartContext, SelectTick, SelectDone, StartFlush, FlushSink, FlushDone,
     FlushCounter, SkipCounter
<1>6. CASE Run
  BY <1>6 DEF Run, Next
<1>7. ASSUME NEW u \in Users, Add(u) \/ AddValue(u)
      PROVE  [Next]_vars
  BY <1>1, <1>3, <1>7 DEF Add, AddValue
<1> QED
  BY <1>2, <1>3, <1>4, <1>5, <1>6, <1>7 DEF PipelineNext

LEMMA StoreStep == [PipelineNext]_all => [Store!Next]_store
<1>1. CASE StartContext
  <2>1. ASSUME NEW n \in Names, FlushCounter(n) \/ SkipCounter(n)
        PROVE  [Store!Next]_store
    BY <2>1 DEF FlushCounter, SkipCounter, Store!Next
  <2>2. CASE SelectTick \/ SelectDone \/ FlushSink \/ FlushDone
    BY <2>2 DEF SelectTick, SelectDone, StartFlush, FlushSink, FlushDone
  <2> QED
    BY <1>1, <2>1, <2>2 DEF StartContext
<1>2. ASSUME NEW u \in Users, Add(u) \/ AddValue(u)
      PROVE  [Store!Next]_store
  BY <1>2 DEF Add, AddValue, Store!Next
<1>3. CASE Cancel \/ Run \/ (\E p \in Callers : InSink(p)) \/ UNCHANGED all
  BY <1>3 DEF Cancel, Run, InSink, SinkOnly, all
<1> QED
  BY <1>1, <1>2, <1>3 DEF PipelineNext

(* Whatever is proved of the sink holds in the pipeline (StartContext and   *)
(* its users call the sink only as its callers do).                         *)
THEOREM RunsTheSink == PipelineSpec => Spec
<1>1. PipelineInit => Init
  BY DEF PipelineInit
<1> QED
  BY <1>1, SinkStep, PTL DEF PipelineSpec, Spec

(* And of the store (a counter is reported by latch, and added to by Add).  *)
THEOREM RunsTheStore == PipelineSpec => Store!Spec
<1>1. PipelineInit => Store!Init
  BY DEF PipelineInit
<1>2. [PipelineNext]_all => [Store!Next]_(Store!ledger)
  BY StoreStep DEF store, Store!ledger
<1> QED
  BY <1>1, <1>2, PTL DEF PipelineSpec, Store!Spec

-----------------------------------------------------------------------------
(* The last Flush.                                                          *)

(* The lines that must be out when StartContext returns: those written      *)
(* before the context was cancelled, and those that carry a counter.        *)
Carriers == {l \in Lines : \E n \in Names : carries[l][n] # 0}
Due      == 1 .. before.lines \cup Carriers

(* The amounts added before the context was cancelled have been reported,   *)
(* in lines that have all left the sink, when StartContext returns.         *)
ExitReportsAll ==
  stage = "done" /\ ~refused /\ ~trouble[Loop] =>
    /\ Due \subseteq Arrived
    /\ \A n \in Names : reported[n] >= before.added[n]

(* The amounts: what was added before is reported, but for the counters     *)
(* that the last Flush has still to visit.                                  *)
AmountsOK ==
  /\ outstanding \in [Names -> Nat] /\ reported \in [Names -> Nat]
  /\ carries \in [Lines -> [Names -> Nat]]
  /\ before.added \in [Names -> Nat]
  /\ \A n \in Names : before.added[n] <= Added[n]
  /\ exiting /\ stage \in {"counters", "sink", "done"} =>
       \A n \in Names : (stage = "counters" /\ n \in todo) \/ before.added[n] <= reported[n]

(* The lines: they are numbered before those to come; the last Flush of the *)
(* sink is asked for after them, and its caller goes on when they are out.  *)
LinesOK ==
  /\ stage \in {"select", "counters", "sink", "done"}
  /\ exiting \in BOOLEAN /\ cancelled \in BOOLEAN /\ refused \in BOOLEAN
  /\ exiting => cancelled
  /\ stage = "done" => exiting
  /\ stage = "sink" => pc[Loop] \in {"idle", "send", "await"}
  /\ before.lines \in Nat /\ \A l \in Due : l < next
  /\ exiting /\ ~refused /\ stage = "sink" /\ pc[Loop] # "idle" =>
       \A l \in Due : l <= asked[Loop]
  /\ /\ exiting /\ ~refused /\ ~trouble[Loop]
     /\ stage = "done" \/ (stage = "sink" /\ pc[Loop] = "idle")
     => Due \subseteq Arrived

PInv == IInv /\ AmountsOK /\ LinesOK

LEMMA PipelineInitInv == PipelineInit => PInv
<1> SUFFICES ASSUME PipelineInit
             PROVE  PInv
  OBVIOUS
<1>1. IInv
  BY InitInv DEF PipelineInit
<1>2. /\ outstanding = [n \in Names |-> 0] /\ reported = [n \in Names |-> 0]
      /\ carries = [l \in Lines |-> [n \in Names |-> 0]]
      /\ before = [lines |-> 0, added |-> Added] /\ Added = [n \in Names |-> 0 + 0]
      /\ stage = "select" /\ ~cancelled /\ ~exiting /\ ~refused
      /\ cancelled \in BOOLEAN /\ exiting \in BOOLEAN /\ refused \in BOOLEAN
  BY DEF PipelineInit, Store!Init, Added
<1>3. AmountsOK
  BY <1>2 DEF AmountsOK
<1>4. Due = {}
  BY <1>2 DEF Due, Carriers
<1>5. LinesOK
  BY <1>2, <1>4 DEF LinesOK
<1> QED
  BY <1>1, <1>3, <1>5 DEF PInv

(* The steps that change no amount.                                         *)
LEMMA AmountsKept ==
  ASSUME AmountsOK, UNCHANGED <<store, carries, before>>,
         exiting' /\ stage' \in {"counters", "sink", "done"} =>
           \A n \in Names : (stage' = "counters" /\ n \in todo') \/ before.added[n] <= reported[n]
  PROVE  AmountsOK' /\ Due' = Due
BY DEF AmountsOK, store, Added, Due, Carriers

(* The steps of the sink, whoever takes them, once the last Flush is asked  *)
(* for.                                                                     *)
LEMMA SinkKeepsLines ==
  ASSUME PInv, [Next]_vars, UNCHANGED <<stage, exiting, cancelled, refused, before, carries>>,
         pc'[Loop] = pc[Loop], asked'[Loop] = asked[Loop],
         trouble[Loop] => trouble'[Loop]
  PROVE  LinesOK'
<1>1. Due' = Due
  BY DEF Due, Carriers
<1>2. Arrived \subseteq Arrived'
  BY GoneGrows DEF PInv, Gone, Arrived
<1>3. next \in Nat /\ next' \in Nat /\ next <= next'
  <2>1. next \in Nat /\ IInv'
    <3>1. IInv
      BY DEF PInv
    <3>2. IInv'
      BY <3>1, InvStep
    <3>3. next \in Nat
      BY <3>1 DEF IInv, TypeOK
    <3> QED
      BY <3>2, <3>3
  <2>2. next' \in Nat
    BY <2>1 DEF IInv, TypeOK
  <2>3. next' = next \/ next' = next + 1
    <3>1. ASSUME NEW p \in Callers, CallerStep(p)
          PROVE  next' = next \/ next' = next + 1
      BY <3>1 DEF CallerStep, WriteLock, WriteLine, FlushStart, FlushSend, FlushReturn
    <3>2. CASE RunStep
      BY <3>2 DEF RunStep, ConnectOk, ConnectFail, DrainOne, DrainEnd, Wake, Retry, DropRetry,
         Tick, TakeFlush, TakeBuffer, FlushOne, FlushAnswer, Requeue
    <3>3. CASE UNCHANGED vars
      BY <3>3 DEF vars
    <3> QED
      BY <3>1, <3>2, <3>3 DEF Next
  <2> QED
    BY <2>1, <2>2, <2>3
<1>4. \A l \in Due : l \in Int
  BY DEF Due, Carriers, Lines
<1>5. \A l \in Due' : l < next'
  BY <1>1, <1>3, <1>4 DEF PInv, LinesOK
<1> QED
  BY <1>1, <1>2, <1>5 DEF PInv, LinesOK

-----------------------------------------------------------------------------
(* The steps.                                                               *)

LEMMA CancelStep ==
  ASSUME PInv, Cancel
  PROVE  AmountsOK' /\ LinesOK'
<1>1. /\ ~cancelled /\ cancelled' = TRUE /\ ~exiting
      /\ before' = [lines |-> next - 1, added |-> Added]
      /\ UNCHANGED <<vars, store, stage, todo, exiting, calls, carries, refused>>
  BY DEF Cancel, PInv, LinesOK
<1>2. /\ next' = next /\ pc' = pc /\ next \in Nat /\ next >= 1
      /\ outstanding' = outstanding /\ reported' = reported
  BY <1>1 DEF vars, callers, store, PInv, IInv, TypeOK
<1>3. AmountsOK'
  <2>1. Added \in [Names -> Nat] /\ Added' = Added /\ before'.added = Added
    BY <1>1, <1>2 DEF Added, PInv, AmountsOK
  <2> QED
    BY <1>1, <1>2, <2>1 DEF PInv, AmountsOK
<1>4. \A l \in Due' : l < next
  <2>1. Due' = 1 .. next - 1 \cup Carriers
    BY <1>1 DEF Due, Carriers
  <2>2. \A l \in Carriers : l < next
    BY DEF PInv, LinesOK, Due
  <2> QED
    BY <1>2, <2>1, <2>2
<1>5. before'.lines \in Nat
  BY <1>1, <1>2
<1>6. LinesOK'
  BY <1>1, <1>2, <1>4, <1>5 DEF PInv, LinesOK
<1> QED
  BY <1>3, <1>6

LEMMA StartFlushStep ==
  ASSUME PInv, SelectTick \/ SelectDone
  PROVE  AmountsOK' /\ LinesOK'
<1>1. /\ stage = "select" /\ stage' = "counters" /\ exiting' \in BOOLEAN
      /\ exiting' => cancelled
      /\ todo' = Visited
      /\ UNCHANGED <<vars, store, cancelled, calls, carries, before, refused>>
  BY DEF SelectTick, SelectDone, StartFlush
<1>2. \A n \in Names : n \in Visited \/ before.added[n] <= reported[n]
  <2>1. ASSUME NEW n \in Names, n \notin Visited
        PROVE  before.added[n] <= reported[n]
    <3>1. /\ outstanding[n] \in Nat /\ reported[n] \in Nat /\ before.added[n] \in Nat
          /\ before.added[n] <= Added[n] /\ Added[n] = outstanding[n] + reported[n]
      BY DEF PInv, AmountsOK, Added
    <3>2. ~(Added[n] > 0)
      BY <2>1 DEF Visited
    <3> QED
      BY <3>1, <3>2
  <2> QED
    BY <2>1
<1>3. AmountsOK' /\ Due' = Due
  BY <1>1, <1>2, AmountsKept DEF PInv
<1>4. next' = next /\ pc' = pc
  BY <1>1 DEF vars, callers
<1>5. LinesOK'
  BY <1>1, <1>3, <1>4 DEF PInv, LinesOK
<1> QED
  BY <1>3, <1>5

LEMMA FlushCounterStep ==
  ASSUME PInv, NEW n \in Names, FlushCounter(n)
  PROVE  AmountsOK' /\ LinesOK'
<1>1. /\ stage = "counters" /\ n \in todo /\ todo' = todo \ {n}
      /\ Store!Report(n) /\ outstanding'[n] = 0 /\ WriteLock(Loop)
      /\ carries' = [carries EXCEPT ![next][n] = outstanding[n]]
      /\ UNCHANGED <<stage, cancelled, exiting, calls, before, refused>>
  BY DEF FlushCounter
<1>2. next \in Lines /\ next' = next + 1 /\ next \in Nat
  BY <1>1 DEF WriteLock, Lines, PInv, IInv, TypeOK
<1>3. PICK k \in 1 .. outstanding[n] :
        /\ outstanding' = [outstanding EXCEPT ![n] = @ - k]
        /\ reported' = [reported EXCEPT ![n] = @ + k]
  BY <1>1 DEF Store!Report
<1>4. /\ outstanding[n] \in Nat /\ reported[n] \in Nat /\ k = outstanding[n]
      /\ reported'[n] = reported[n] + outstanding[n]
      /\ \A x \in Names : x # n => /\ outstanding'[x] = outstanding[x]
                                   /\ reported'[x] = reported[x]
      /\ outstanding' \in [Names -> Nat] /\ reported' \in [Names -> Nat]
  <2>1. outstanding \in [Names -> Nat] /\ reported \in [Names -> Nat]
    BY DEF PInv, AmountsOK
  <2>2. PICK o, r \in Nat : o = outstanding[n] /\ r = reported[n]
    BY <2>1
  <2>3. outstanding'[n] = o - k /\ reported'[n] = r + k
    BY <1>3, <2>1, <2>2
  <2>4. k = o
    BY <1>1, <1>3, <2>2, <2>3
  <2>5. /\ outstanding' \in [Names -> Nat] /\ reported' \in [Names -> Nat]
        /\ \A x \in Names : x # n => /\ outstanding'[x] = outstanding[x]
                                     /\ reported'[x] = reported[x]
    <3>1. o - k \in Nat /\ r + k \in Nat
      BY <1>3, <2>2, <2>4
    <3> QED
      BY <1>3, <2>1, <2>2, <3>1
  <2> QED
    BY <2>2, <2>3, <2>4, <2>5
<1>5. \A x \in Names : Added'[x] = Added[x]
  BY <1>1, <1>4 DEF Added, PInv, AmountsOK
<1>6. before.added[n] <= reported'[n]
  <2>1. before.added[n] <= Added[n] /\ Added[n] = outstanding[n] + reported[n]
    BY DEF PInv, AmountsOK, Added
  <2> QED
    BY <1>4, <2>1 DEF PInv, AmountsOK
<1>7. carries' \in [Lines -> [Names -> Nat]]
  BY <1>1, <1>2, <1>4 DEF PInv, AmountsOK
<1>8. AmountsOK'
  <2>1. \A x \in Names : before.added[x] <= Added'[x]
    BY <1>5 DEF PInv, AmountsOK
  <2>2. exiting => \A x \in Names : x \in todo' \/ before.added[x] <= reported'[x]
    BY <1>1, <1>4, <1>6 DEF PInv, AmountsOK
  <2> QED
    BY <1>1, <1>4, <1>7, <2>1, <2>2 DEF PInv, AmountsOK
<1>9. \A l \in Due' : l < next'
  <2>1. ASSUME NEW l \in Carriers', l # next
        PROVE  l \in Carriers
    BY <1>1, <1>2, <2>1 DEF Carriers, PInv, AmountsOK
  <2>2. \A l \in Due : l < next /\ l \in Int
    BY DEF PInv, LinesOK, Due, Carriers, Lines
  <2>3. Due' = 1 .. before.lines \cup Carriers'
    BY <1>1 DEF Due
  <2> QED
    BY <1>2, <2>1, <2>2, <2>3 DEF Due
<1>10. LinesOK'
  BY <1>1, <1>9 DEF PInv, LinesOK
<1> QED
  BY <1>8, <1>10

LEMMA SkipCounterStep ==
  ASSUME PInv, NEW n \in Names, SkipCounter(n)
  PROVE  AmountsOK' /\ LinesOK'
<1>1. /\ stage = "counters" /\ outstanding[n] = 0 /\ todo' = todo \ {n}
      /\ UNCHANGED <<vars, store, stage, cancelled, exiting, calls, carries, before, refused>>
  BY DEF SkipCounter
<1>2. before.added[n] <= reported[n]
  <2>1. /\ before.added[n] <= Added[n] /\ Added[n] = outstanding[n] + reported[n]
        /\ reported[n] \in Nat
    BY DEF PInv, AmountsOK, Added
  <2> QED
    BY <1>1, <2>1
<1>3. AmountsOK' /\ Due' = Due
  <2>1. exiting => \A x \in Names : x \in todo' \/ before.added[x] <= reported[x]
    BY <1>1, <1>2 DEF PInv, AmountsOK
  <2> QED
    BY <1>1, <2>1, AmountsKept DEF PInv
<1>4. next' = next /\ pc' = pc
  BY <1>1 DEF vars, callers
<1>5. LinesOK'
  BY <1>1, <1>3, <1>4 DEF PInv, LinesOK
<1> QED
  BY <1>3, <1>5

LEMMA FlushSinkStep ==
  ASSUME PInv, FlushSink
  PROVE  AmountsOK' /\ LinesOK'
<1>1. /\ stage = "counters" /\ todo = {} /\ FlushStart(Loop) /\ stage' = "sink"
      /\ refused' = FlushFails
      /\ UNCHANGED <<store, todo, cancelled, exiting, calls, carries, before>>
  BY DEF FlushSink
<1>2. AmountsOK' /\ Due' = Due
  BY <1>1, AmountsKept DEF PInv, AmountsOK
<1>3. /\ Loop \in Callers /\ pc \in [Callers -> {"idle", "write", "send", "await"}]
      /\ asked \in [Callers -> 0 .. MaxLines] /\ next \in Nat
  BY PipelineAssumption DEF PInv, IInv, TypeOK
<1>4. /\ pc'[Loop] = IF FlushFails THEN "idle" ELSE "send"
      /\ asked'[Loop] = IF FlushFails THEN asked[Loop] ELSE next - 1
      /\ next' = next
  BY <1>1, <1>3 DEF FlushStart
<1>5. \A l \in Due : l < next /\ l \in Int
  BY DEF PInv, LinesOK, Due, Carriers, Lines
<1>6. refused' \in BOOLEAN
  BY <1>1 DEF FlushFails, OutcFull
<1>7. ~refused' => pc'[Loop] = "send" /\ \A l \in Due : l <= asked'[Loop]
  BY <1>1, <1>3, <1>4, <1>5
<1>8. LinesOK'
  BY <1>1, <1>2, <1>4, <1>5, <1>6, <1>7 DEF PInv, LinesOK
<1> QED
  BY <1>2, <1>8

LEMMA FlushDoneStep ==
  ASSUME PInv, FlushDone
  PROVE  AmountsOK' /\ LinesOK'
<1>1. /\ stage = "sink" /\ pc[Loop] = "idle"
      /\ stage' = IF exiting THEN "done" ELSE "select"
      /\ refused' = (refused /\ exiting)
      /\ UNCHANGED <<vars, store, todo, cancelled, exiting, calls, carries, before>>
  BY DEF FlushDone, SinkReturned
<1>2. AmountsOK' /\ Due' = Due
  BY <1>1, AmountsKept DEF PInv, AmountsOK
<1>3. /\ next' = next /\ pc' = pc /\ trouble' = trouble /\ asked' = asked
      /\ Arrived' = Arrived
  BY <1>1 DEF vars, callers, wire, drops, Arrived, ToSet
<1>4. LinesOK'
  BY <1>1, <1>2, <1>3 DEF PInv, LinesOK
<1> QED
  BY <1>2, <1>4

(* The answer to the last Flush, when it is the caller's turn.              *)
LEMMA InSinkStep ==
  ASSUME PInv, NEW p \in Callers, InSink(p)
  PROVE  AmountsOK' /\ LinesOK'
<1>1. /\ WriteLine(p) \/ FlushSend(p) \/ FlushReturn(p)
      /\ UNCHANGED <<store, stage, todo, cancelled, exiting, calls, carries, before, refused>>
  BY DEF InSink, SinkOnly, context
<1>2. AmountsOK' /\ Due' = Due
  BY <1>1, AmountsKept DEF PInv, AmountsOK
<1>3. /\ Loop \in Callers /\ pc \in [Callers -> {"idle", "write", "send", "await"}]
      /\ asked \in [Callers -> 0 .. MaxLines] /\ next \in Nat
  BY PipelineAssumption DEF PInv, IInv, TypeOK
<1>4. [Next]_vars
  BY <1>1 DEF Next, CallerStep
<1>5. trouble' = trouble /\ next' = next
  BY <1>1 DEF WriteLine, FlushSend, FlushReturn
<1>6. CASE p # Loop
  <2>1. pc'[Loop] = pc[Loop] /\ asked'[Loop] = asked[Loop]
    BY <1>1, <1>3, <1>6 DEF WriteLine, FlushSend, FlushReturn
  <2> QED
    BY <1>1, <1>2, <1>4, <1>5, <2>1, SinkKeepsLines
<1>7. CASE p = Loop /\ FlushReturn(p)
  <2>1. /\ pc[Loop] = "await" /\ pc'[Loop] = "idle" /\ Loop \in closed
        /\ Arrived' = Arrived
    BY <1>3, <1>7 DEF FlushReturn, wire, drops, Arrived, ToSet
  <2>2. ~trouble[Loop] => 1 .. asked[Loop] \subseteq Arrived
    BY <2>1 DEF PInv, IInv, FlushOK, FlushDelivers, Arrived
  <2>3. exiting /\ ~refused /\ stage = "sink" => Due \subseteq 1 .. asked[Loop]
    <3>1. \A l \in Due : l \in Int /\ l >= 1
      BY DEF Due, Carriers, Lines
    <3>2. asked[Loop] \in Int
      BY <1>3
    <3>3. exiting /\ ~refused /\ stage = "sink" => \A l \in Due : l <= asked[Loop]
      BY <2>1 DEF PInv, LinesOK
    <3> QED
      BY <3>1, <3>2, <3>3
  <2>4. exiting /\ ~refused /\ ~trouble[Loop] /\ (stage = "sink" \/ stage = "done")
          => Due \subseteq Arrived
    BY <2>2, <2>3 DEF PInv, LinesOK
  <2> QED
    BY <1>1, <1>2, <1>5, <2>1, <2>4 DEF PInv, LinesOK
<1>8. CASE p = Loop /\ FlushSend(p)
  <2>1. /\ pc[Loop] = "send" /\ pc'[Loop] = "await" /\ asked' = asked /\ Arrived' = Arrived
    BY <1>3, <1>8 DEF FlushSend, wire, drops, Arrived, ToSet
  <2> QED
    BY <1>1, <1>2, <1>5, <2>1 DEF PInv, LinesOK
<1>9. CASE p = Loop /\ WriteLine(p)
  <2>1. pc[Loop] = "write" /\ stage # "sink"
    BY <1>9 DEF WriteLine, PInv, LinesOK
  <2>2. Arrived \subseteq Arrived'
    BY <1>4, GoneGrows DEF PInv, Gone, Arrived
  <2> QED
    BY <1>1, <1>2, <1>5, <2>1, <2>2 DEF PInv, LinesOK
<1> QED
  BY <1>1, <1>6, <1>7, <1>8, <1>9

LEMMA RunnerStep ==
  ASSUME PInv, Run
  PROVE  AmountsOK' /\ LinesOK'
<1>1. /\ RunStep
      /\ UNCHANGED <<store, stage, todo, cancelled, exiting, calls, carries, before, refused>>
  BY DEF Run, SinkOnly, context
<1>2. AmountsOK' /\ Due' = Due
  BY <1>1, AmountsKept DEF PInv, AmountsOK
<1>3. Loop \in Callers /\ trouble \in [Callers -> BOOLEAN]
  BY PipelineAssumption DEF PInv, IInv, TypeOK
<1>4. pc' = pc /\ asked' = asked
  BY <1>1 DEF RunStep, ConnectOk, ConnectFail, DrainOne, DrainEnd, Wake, Retry, DropRetry, Tick,
     TakeFlush, TakeBuffer, FlushOne, FlushAnswer, Requeue, callers
<1>5. trouble[Loop] => trouble'[Loop]
  <2>1. ASSUME NEW b, WriteOk(b) \/ WriteFails(b)
        PROVE  trouble[Loop] => trouble'[Loop]
    BY <1>3, <2>1 DEF WriteOk, WriteFails
  <2>2. CASE Retry \/ TakeBuffer \/ FlushOne
    BY <2>1, <2>2 DEF Retry, TakeBuffer, FlushOne, WriteNext
  <2>3. CASE DrainOne
    BY <1>3, <2>3 DEF DrainOne
  <2>4. CASE ConnectOk \/ ConnectFail \/ DrainEnd \/ Wake \/ DropRetry \/ Tick \/ TakeFlush
             \/ FlushAnswer \/ Requeue
    BY <2>4 DEF ConnectOk, ConnectFail, DrainEnd, Wake, DropRetry, Tick, TakeFlush, FlushAnswer,
       Requeue
  <2> QED
    BY <1>1, <2>2, <2>3, <2>4 DEF RunStep
<1>6. [Next]_vars
  BY <1>1 DEF Next
<1> QED
  BY <1>1, <1>2, <1>4, <1>5, <1>6, SinkKeepsLines

LEMMA UserStep ==
  ASSUME PInv, NEW u \in Users, Add(u) \/ AddValue(u)
  PROVE  AmountsOK' /\ LinesOK'
<1>1. u \in Callers /\ u # Loop /\ Loop \in Callers
  BY PipelineAssumption DEF Users
<1>2. CASE Add(u)
  <2>1. UNCHANGED <<vars, stage, todo, cancelled, exiting, carries, before, refused>>
    BY <1>2 DEF Add, context
  <2>2. PICK n \in Names : outstanding' = [outstanding EXCEPT ![n] = @ + 1] /\ reported' = reported
    BY <1>2 DEF Add, Store!Add
  <2>3. /\ outstanding' \in [Names -> Nat]
        /\ \A x \in Names : outstanding[x] <= outstanding'[x]
    BY <2>2 DEF PInv, AmountsOK
  <2>4. \A x \in Names : before.added[x] <= Added'[x]
    <3>1. ASSUME NEW x \in Names
          PROVE  before.added[x] <= Added'[x]
      <4>1. /\ Added[x] = outstanding[x] + reported[x] /\ before.added[x] <= Added[x]
            /\ Added'[x] = outstanding'[x] + reported[x]
            /\ outstanding[x] \in Nat /\ outstanding'[x] \in Nat /\ reported[x] \in Nat
            /\ before.added[x] \in Nat /\ outstanding[x] <= outstanding'[x]
        BY <2>2, <2>3 DEF Added, PInv, AmountsOK
      <4> QED
        BY <4>1
    <3> QED
      BY <3>1
  <2>5. AmountsOK'
    BY <2>1, <2>2, <2>3, <2>4 DEF PInv, AmountsOK
  <2>6. LinesOK'
    BY <2>1, SinkKeepsLines DEF vars, callers
  <2> QED
    BY <2>5, <2>6
<1>3. CASE AddValue(u)
  <2>1. /\ WriteLock(u)
        /\ UNCHANGED <<store, stage, todo, cancelled, exiting, carries, before, refused>>
    BY <1>3 DEF AddValue, context
  <2>2. AmountsOK'
    BY <2>1, AmountsKept DEF PInv, AmountsOK
  <2>3. /\ pc'[Loop] = pc[Loop] /\ asked' = asked /\ trouble' = trouble /\ [Next]_vars
    BY <1>1, <2>1 DEF WriteLock, Next, CallerStep, PInv, IInv, TypeOK
  <2> QED
    BY <2>1, <2>2, <2>3, SinkKeepsLines
<1> QED
  BY <1>2, <1>3

(* Every step keeps the invariant.                                          *)
LEMMA PInvStep ==
  ASSUME PInv, [PipelineNext]_all
  PROVE  PInv'
<1>1. IInv'
  BY SinkStep, InvStep DEF PInv
<1>2. CASE UNCHANGED all
  <2>1. UNCHANGED <<vars, store, stage, todo, cancelled, exiting, carries, before, refused>>
    BY <1>2 DEF all, context
  <2>2. AmountsOK'
    BY <2>1, AmountsKept DEF PInv, AmountsOK
  <2>3. LinesOK'
    BY <2>1, SinkKeepsLines DEF vars, callers
  <2> QED
    BY <1>1, <2>2, <2>3 DEF PInv
<1>3. CASE StartContext
  BY <1>1, <1>3, StartFlushStep, FlushSinkStep, FlushDoneStep, FlushCounterStep, SkipCounterStep
     DEF StartContext, PInv
<1>4. CASE Cancel
  BY <1>1, <1>4, CancelStep DEF PInv
<1>5. CASE Run
  BY <1>1, <1>5, RunnerStep DEF PInv
<1>6. ASSUME NEW p \in Callers, InSink(p)
      PROVE  PInv'
  BY <1>1, <1>6, InSinkStep DEF PInv
<1>7. ASSUME NEW u \in Users, Add(u) \/ AddValue(u)
      PROVE  PInv'
  BY <1>1, <1>7, UserStep DEF PInv
<1> QED
  BY <1>2, <1>3, <1>4, <1>5, <1>6, <1>7 DEF PipelineNext

(* The inductive invariant of the pipeline: that of the sink, and how far   *)
(* the last Flush has come (StartContext, Flush, and Flush of the sink).    *)
THEOREM PipelineInvariance == PipelineSpec => []PInv
<1>1. PipelineInit => PInv
  BY PipelineInitInv
<1>2. PInv /\ [PipelineNext]_all => PInv'
  BY PInvStep
<1> QED
  BY <1>1, <1>2, PTL DEF PipelineSpec

(* When StartContext returns, its last Flush not given up and no write      *)
(* having failed since, all that was added before its context was cancelled *)
(* has been reported, and every line that carries a report or was written   *)
(* before then has left the sink (stats.go: "Flush will be called on exit").*)
THEOREM LastFlushIsComplete == PipelineSpec => []ExitReportsAll
<1>1. PInv => ExitReportsAll
  BY DEF PInv, AmountsOK, LinesOK, ExitReportsAll
<1> QED
  BY <1>1, PipelineInvariance, PTL

-----------------------------------------------------------------------------
(* What the lines carry.                                                    *)

(* What each line adds to the counter n.                                    *)
Shares(n) == [l \in Lines |-> carries[l][n]]

(* What the sink has been given for a counter is what its lines carry.      *)
ReportedInLines == \A n \in Names : reported[n] = SumFunctionOnSet(Shares(n), Lines)

(* There are finitely many lines.                                           *)
LEMMA LinesFinite == IsFiniteSet(Lines)
BY FS_Interval, NetSinkAssumption DEF Lines

(* The sum of ExitDelivers, as the sum of a function.                       *)
LEMMA CarriedSum ==
  ASSUME AmountsOK, NEW n \in Names, NEW S \in SUBSET Lines
  PROVE  Carried(n, S) = SumFunctionOnSet(Shares(n), S)
<1> DEFINE w == [l \in S |-> carries[l][n]]
           F(g) == Unrolled(w, g, SUBSET S)
           G(g) == [s \in SUBSET S |->
                      IF s = {} THEN 0
                      ELSE carries[CHOOSE l \in s : TRUE][n] + g[s \ {CHOOSE l \in s : TRUE}]]
<1>1. \A s \in SUBSET S : s # {} => (CHOOSE l \in s : TRUE) \in S
  OBVIOUS
<1>2. \A g : F(g) = G(g)
  BY <1>1 DEF Unrolled, First
<1>3. \A g : g = F(g) <=> g = G(g)
  BY <1>2
<1>4. (CHOOSE g : g = F(g)) = (CHOOSE g : g = G(g))
  <2> HIDE DEF F, G
  <2> QED
    BY <1>3
<1>5. Carried(n, S) = (CHOOSE g : g = G(g))[S]
  BY DEF Carried, MapThenSumSet, MapThenFoldSet
<1>6. SumFunctionOnSet(w, S) = (CHOOSE g : g = F(g))[S]
  BY SumIsRecursion DEF Recursion
<1>7. SumFunctionOnSet(w, S) = SumFunctionOnSet(Shares(n), S)
  <2>1. IsFiniteSet(S)
    BY LinesFinite, FS_Subset
  <2>2. \A l \in S : w[l] \in Int /\ Shares(n)[l] = w[l]
    BY DEF AmountsOK, Shares
  <2> HIDE DEF w
  <2> QED
    BY <2>1, <2>2, SumCongruent
<1> QED
  BY <1>4, <1>5, <1>6, <1>7

(* A report is a line: whatever it takes out of the counter, the line       *)
(* carries, and no line carried anything before it was written.             *)
LEMMA ReportedStep ==
  ASSUME PInv, PInv', ReportedInLines, [PipelineNext]_all
  PROVE  ReportedInLines'
<1>1. CASE UNCHANGED <<reported, carries>>
  BY <1>1 DEF ReportedInLines, Shares
<1>2. ASSUME NEW n \in Names, FlushCounter(n)
      PROVE  ReportedInLines'
  <2>1. /\ Store!Report(n) /\ outstanding'[n] = 0 /\ next \in Lines
        /\ carries' = [carries EXCEPT ![next][n] = outstanding[n]]
    BY <1>2 DEF FlushCounter, WriteLock, PInv, IInv, TypeOK, Lines
  <2>2. /\ outstanding \in [Names -> Nat] /\ reported \in [Names -> Nat]
        /\ carries \in [Lines -> [Names -> Nat]]
        /\ outstanding' \in [Names -> Nat] /\ reported' \in [Names -> Nat]
    BY DEF PInv, AmountsOK
  <2>3. PICK k \in 1 .. outstanding[n] :
          /\ outstanding' = [outstanding EXCEPT ![n] = @ - k]
          /\ reported' = [reported EXCEPT ![n] = @ + k]
    BY <2>1 DEF Store!Report
  <2>4. k = outstanding[n]
    <3>1. PICK o \in Nat : o = outstanding[n]
      BY <2>2
    <3>2. outstanding'[n] = o - k /\ k \in Int
      BY <2>2, <2>3, <3>1
    <3> QED
      BY <2>1, <3>1, <3>2
  <2>5. carries[next][n] = 0
    <3>1. next \notin Carriers
      BY <2>1 DEF PInv, LinesOK, Due, Lines
    <3> QED
      BY <2>1, <3>1 DEF Carriers
  <2> SUFFICES ASSUME NEW x \in Names
               PROVE  reported'[x] = SumFunctionOnSet(Shares(x)', Lines)
    BY DEF ReportedInLines
  <2> DEFINE w == Shares(x)
             v == Shares(x)'
  <2>6. /\ \A l \in Lines : w[l] \in Int /\ v[l] \in Int
        /\ \A l \in Lines \ {next} : v[l] = w[l]
        /\ v[next] - w[next] = IF x = n THEN outstanding[n] ELSE 0
    <3>1. carries' \in [Lines -> [Names -> Nat]]
      BY DEF PInv, AmountsOK
    <3>2. \A l \in Lines : w[l] \in Int /\ v[l] \in Int
      BY <2>2, <3>1 DEF Shares
    <3>3. \A l \in Lines \ {next} : v[l] = w[l]
      BY <2>1, <2>2 DEF Shares
    <3>4. w[next] = carries[next][x] /\ v[next] = carries'[next][x]
      BY <2>1 DEF Shares
    <3>5. carries'[next][x] = IF x = n THEN outstanding[n] ELSE carries[next][x]
      BY <2>1, <2>2
    <3> HIDE DEF w, v
    <3> QED
      BY <2>1, <2>2, <2>5, <3>2, <3>3, <3>4, <3>5
  <2> HIDE DEF w, v
  <2>7. SumFunctionOnSet(v, Lines) = SumFunctionOnSet(w, Lines) + (v[next] - w[next])
    BY <2>1, <2>6, LinesFinite, SumUpdate
  <2>8. reported[x] = SumFunctionOnSet(w, Lines) /\ reported[x] \in Nat
    BY <2>2 DEF ReportedInLines, w
  <2>9. reported'[x] = reported[x] + IF x = n THEN outstanding[n] ELSE 0
    BY <2>2, <2>3, <2>4
  <2> QED
    BY <2>6, <2>7, <2>8, <2>9 DEF v
<1>3. UNCHANGED <<reported, carries>> \/ \E n \in Names : FlushCounter(n)
  <2>1. CASE StartContext
    BY <2>1 DEF StartContext, SelectTick, SelectDone, StartFlush, FlushSink, FlushDone,
       SkipCounter, store
  <2>2. CASE Cancel \/ Run \/ (\E p \in Callers : InSink(p)) \/ UNCHANGED all
    BY <2>2 DEF Cancel, Run, InSink, SinkOnly, all, store
  <2>3. ASSUME NEW u \in Users, Add(u) \/ AddValue(u)
        PROVE  UNCHANGED <<reported, carries>>
    BY <2>3 DEF Add, AddValue, Store!Add, store
  <2> QED
    BY <2>1, <2>2, <2>3 DEF PipelineNext
<1> QED
  BY <1>1, <1>2, <1>3

(* So it is in every reachable state.                                       *)
LEMMA ReportedInvariance == PipelineSpec => []ReportedInLines
<1>1. PipelineInit => ReportedInLines
  <2> SUFFICES ASSUME PipelineInit, NEW n \in Names
               PROVE  reported[n] = SumFunctionOnSet(Shares(n), Lines)
    BY DEF ReportedInLines
  <2>1. \A l \in Lines : Shares(n)[l] = 0
    BY DEF PipelineInit, Shares
  <2>2. SumFunctionOnSet(Shares(n), Lines) = 0
    BY <2>1, LinesFinite, SumEmpty, SumPart
  <2> QED
    BY <2>2 DEF PipelineInit, Store!Init
<1>2. PInv /\ PInv' /\ ReportedInLines /\ [PipelineNext]_all => ReportedInLines'
  BY ReportedStep
<1> QED
  BY <1>1, <1>2, PipelineInvariance, PTL DEF PipelineSpec

(* Once the sink's part of the last Flush has begun, no line that is due is *)
(* in the bufio.Writer or about to get there: they have left the sink, or   *)
(* run has them.                                                            *)
LeftOK == exiting /\ stage \in {"sink", "done"} => Due \cap Behind = {}

(* Only a new line joins those that run cannot reach.                       *)
LEMMA BehindStep ==
  ASSUME IInv, [Next]_vars
  PROVE  Behind' \subseteq Behind \cup {next}
<1> USE DEF Behind
<1>1. TypeOK /\ RunOK
  BY DEF IInv
<1>2. ASSUME UNCHANGED <<pc, line>>, buf' = buf \/ buf' = <<>>
      PROVE  Behind' \subseteq Behind
  BY <1>2 DEF Writing, ToSet
<1>3. FlushBuf => buf' = <<>>
  BY DEF FlushBuf
<1>4. ASSUME NEW p \in Callers, CallerStep(p)
      PROVE  Behind' \subseteq Behind \cup {next}
  <2>1. CASE WriteLock(p)
    <3>1. buf' = buf \/ buf' = <<>>
      BY <1>3, <2>1 DEF WriteLock
    <3>2. Writing' \subseteq Writing \cup {next}
      BY <1>1, <2>1 DEF WriteLock, Writing, TypeOK
    <3> QED
      BY <3>1, <3>2 DEF ToSet
  <2>2. CASE WriteLine(p)
    <3>1. line[p] \in Writing /\ line[p] \in Lines /\ line' = line
      BY <1>1, <2>2 DEF WriteLine, Writing, RunOK
    <3>2. Writing' \subseteq Writing
      BY <1>1, <2>2 DEF WriteLine, Writing, TypeOK
    <3>3. buf' = buf \/ buf' = Append(buf, line[p])
      BY <2>2 DEF WriteLine
    <3>4. ToSet(buf') \subseteq ToSet(buf) \cup {line[p]}
      BY <1>1, <3>1, <3>3, AppendLine DEF TypeOK
    <3> QED
      BY <3>1, <3>2, <3>4 DEF ToSet
  <2>3. CASE FlushStart(p) \/ FlushSend(p) \/ FlushReturn(p)
    <3>1. buf' = buf \/ buf' = <<>>
      BY <1>3, <2>3 DEF FlushStart, FlushSend, FlushReturn, buffers
    <3>2. Writing' \subseteq Writing
      BY <1>1, <2>3 DEF FlushStart, FlushSend, FlushReturn, Writing, TypeOK
    <3> QED
      BY <3>1, <3>2 DEF ToSet
  <2> QED
    BY <1>4, <2>1, <2>2, <2>3 DEF CallerStep
<1>5. CASE RunStep
  <2>1. UNCHANGED <<pc, line>>
    BY <1>5 DEF RunStep, ConnectOk, ConnectFail, DrainOne, DrainEnd, Wake, Retry, DropRetry, Tick,
       TakeFlush, TakeBuffer, FlushOne, FlushAnswer, Requeue, callers
  <2>2. buf' = buf \/ buf' = <<>>
    BY <1>3, <1>5 DEF RunStep, ConnectOk, ConnectFail, DrainOne, DrainEnd, Wake, Retry, DropRetry,
       Tick, TakeFlush, TakeBuffer, FlushOne, FlushAnswer, Requeue, buffers
  <2> QED
    BY <1>2, <2>1, <2>2
<1>6. CASE UNCHANGED vars
  BY <1>2, <1>6 DEF vars, callers, buffers
<1> QED
  BY <1>4, <1>5, <1>6 DEF Next

LEMMA LeftStep ==
  ASSUME PInv, LeftOK, [PipelineNext]_all
  PROVE  LeftOK'
<1>1. CASE FlushSink
  <2>1. FlushStart(Loop)
    BY <1>1 DEF FlushSink
  <2>2. buf' = <<>> /\ mu = None
    BY <2>1 DEF FlushStart, FlushBuf
  <2>3. \A p \in Callers : pc'[p] # "write"
    BY <2>1, <2>2, NetSinkAssumption DEF FlushStart, PInv, IInv, RunOK, TypeOK
  <2>4. Behind' = {}
    BY <2>2, <2>3 DEF Behind, Writing, ToSet
  <2> QED
    BY <2>4 DEF LeftOK
<1>2. CASE UNCHANGED <<exiting, stage, carries, before>> \/ FlushDone
  <2>1. /\ UNCHANGED <<carries, before, exiting>>
        /\ stage' \in {"sink", "done"} => stage \in {"sink", "done"}
    BY <1>2 DEF FlushDone
  <2>2. Due' = Due /\ \A l \in Due : l < next /\ l \in Int
    BY <2>1 DEF Due, Carriers, PInv, LinesOK, Lines
  <2>3. next \notin Due
    BY <2>2
  <2>4. Behind' \subseteq Behind \cup {next}
    BY SinkStep, BehindStep DEF PInv
  <2> QED
    BY <2>1, <2>2, <2>3, <2>4 DEF LeftOK
<1>3. CASE Cancel
  BY <1>3 DEF Cancel, LeftOK, PInv, LinesOK
<1>4. CASE SelectTick \/ SelectDone
  BY <1>4 DEF SelectTick, SelectDone, StartFlush, LeftOK
<1>5. ASSUME NEW n \in Names, FlushCounter(n) \/ SkipCounter(n)
      PROVE  LeftOK'
  BY <1>5 DEF FlushCounter, SkipCounter, LeftOK
<1>6. CASE Run \/ UNCHANGED all
  BY <1>2, <1>6 DEF Run, SinkOnly, all, context
<1>7. ASSUME NEW p \in Callers, InSink(p)
      PROVE  LeftOK'
  BY <1>2, <1>7 DEF InSink, SinkOnly, context
<1>8. ASSUME NEW u \in Users, Add(u) \/ AddValue(u)
      PROVE  LeftOK'
  BY <1>2, <1>8 DEF Add, AddValue, context
<1> QED
  BY <1>1, <1>2, <1>3, <1>4, <1>5, <1>6, <1>7, <1>8 DEF PipelineNext, StartContext

LEMMA LeftInvariance == PipelineSpec => []LeftOK
<1>1. PipelineInit => LeftOK
  BY DEF PipelineInit, LeftOK
<1>2. PInv /\ LeftOK /\ [PipelineNext]_all => LeftOK'
  BY LeftStep
<1> QED
  BY <1>1, <1>2, PipelineInvariance, PTL DEF PipelineSpec

(* When StartContext returns, the lines that have left the sink carry at    *)
(* least all that was added before its context was cancelled; with those    *)
(* still on their way, if its last Flush was given up or met a failed write *)
(* (stats.go: "Flush will be called on exit").                              *)
THEOREM ExitFlushDelivers == PipelineSpec => []ExitDelivers
<1>1. PInv /\ ReportedInLines /\ LeftOK => ExitDelivers
  <2> SUFFICES ASSUME PInv, ReportedInLines, LeftOK, stage = "done"
               PROVE  LET out == IF Unhindered THEN Arrived ELSE Arrived \cup OnTheWay
                      IN /\ 1 .. before.lines \subseteq out
                         /\ \A n \in Names : Carried(n, out) >= before.added[n]
    BY DEF ExitDelivers
  <2> DEFINE out == IF Unhindered THEN Arrived ELSE Arrived \cup OnTheWay
  <2>1. exiting /\ \A n \in Names : reported[n] >= before.added[n]
    BY DEF PInv, LinesOK, AmountsOK
  <2>2. Arrived \subseteq Lines /\ OnTheWay \subseteq Lines
    <3>1. Arrived \subseteq Lines
      BY DEF Arrived, PInv, IInv, TypeOK, ToSet
    <3> QED
      BY <3>1, PlaceTypes DEF OnTheWay, PInv, IInv
  <2>3. Due \subseteq out
    <3>1. CASE Unhindered
      BY <2>1, <3>1 DEF Unhindered, PInv, LinesOK
    <3>2. CASE ~Unhindered
      <4>1. Due \subseteq 1 .. next - 1
        <5>1. next \in Nat
          BY DEF PInv, IInv, TypeOK
        <5>2. \A l \in Due : l \in Int /\ l >= 1 /\ l < next
          BY DEF PInv, LinesOK, Due, Carriers, Lines
        <5> QED
          BY <5>1, <5>2
      <4>2. Due \cap Behind = {}
        BY <2>1 DEF LeftOK
      <4> QED
        BY <3>2, <4>1, <4>2
           DEF PInv, IInv, PlacesOK, Alive, InHands, Queue, Arrived, OnTheWay
    <3> QED
      BY <3>1, <3>2
  <2>4. ASSUME NEW n \in Names
        PROVE  Carried(n, out) = reported[n]
    <3>1. \A l \in Lines \ out : Shares(n)[l] = 0
      BY <2>3 DEF Due, Carriers, Shares
    <3>2. \A l \in Lines : Shares(n)[l] \in Int
      BY DEF PInv, AmountsOK, Shares
    <3>3. out \in SUBSET Lines
      BY <2>2
    <3> HIDE DEF out
    <3>4. SumFunctionOnSet(Shares(n), Lines) = SumFunctionOnSet(Shares(n), out)
      BY <3>1, <3>2, <3>3, LinesFinite, SumPart
    <3> QED
      BY <3>3, <3>4, CarriedSum DEF PInv, ReportedInLines
  <2> HIDE DEF out
  <2>5. 1 .. before.lines \subseteq out /\ \A n \in Names : Carried(n, out) >= before.added[n]
    BY <2>1, <2>3, <2>4 DEF Due
  <2> QED
    BY <2>5 DEF out
<1> QED
  BY <1>1, PipelineInvariance, ReportedInvariance, LeftInvariance, PTL

=============================================================================
