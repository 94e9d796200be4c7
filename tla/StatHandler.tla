---------------------------- MODULE StatHandler ----------------------------
(***************************************************************************)
(* The HTTP handler of stat_handler.go: requests served concurrently, each  *)
(* by a delegate that may call what its ResponseWriter offers in any order, *)
(* return or panic.  The first WriteHeader, explicit or made by Write,      *)
(* counts the response under its status code, in a map of counters guarded  *)
(* by the RWMutex codesMtx and filled by double-checked locking.            *)
(*                                                                         *)
(* The ResponseWriter underneath is that of net/http: it sends the first    *)
(* final status it is given, 200 if it has to send without one, and         *)
(* informational ones besides; the wrapper hides none of its interfaces.    *)
(***************************************************************************)
EXTENDS Integers, SequencesExt

CONSTANTS
  Requests,       \* requests to serve
  Codes,          \* status codes
  OK,             \* http.StatusOK
  Informational,  \* the codes 1xx
  MaxOps,         \* bound on the calls a delegate makes
  None

ASSUME StatHandlerAssumption ==
  /\ OK \in Codes \ Informational
  /\ MaxOps \in Nat
  /\ None \notin Codes \cup Requests

Interfaces == {"Flusher", "Hijacker", "Pusher", "CloseNotifier"}

VARIABLES
  build, offers,     \* Go before 1.8 or not; what the ResponseWriters implement
  codes,             \* httpHandler.codes: the codes that have a counter
  readers, writer,   \* codesMtx: who reads; who has or awaits the write lock
  pc, code,          \* where each request is; the argument of WriteHeader
  headerWritten,     \* field of responseWriter
  ops,               \* calls the delegate has made
  status,            \* what net/http has sent as final status, or None
  created,           \* history: how often each counter was created
  counted,           \* history: the codes each request was counted under
  bypassed           \* history: requests whose delegate flushed the response before
                     \* it wrote a header

lock  == <<readers, writer>>
local == <<code, ops>>
vars == <<build, offers, codes, lock, pc, local, headerWritten, status, created, counted,
          bypassed>>

Init ==
  /\ build \in {"go1.8", "go1.7"}
  /\ offers \in SUBSET Interfaces
  /\ codes = {}
  /\ readers = {} /\ writer = None
  /\ pc = [r \in Requests |-> "new"]
  /\ code = [r \in Requests |-> None]
  /\ headerWritten = [r \in Requests |-> FALSE]
  /\ ops = [r \in Requests |-> 0]
  /\ status = [r \in Requests |-> None]
  /\ created = [c \in Codes |-> 0]
  /\ counted = [r \in Requests |-> <<>>]
  /\ bypassed = {}

Goto(r, label) == pc' = [pc EXCEPT ![r] = label]

-----------------------------------------------------------------------------
(* wrapResponse: the first case of which the ResponseWriter implements all, *)
(* in the order of the source; the struct of the case has just these.       *)
F == "Flusher"
H == "Hijacker"
P == "Pusher"
N == "CloseNotifier"

Cases18 == <<{F, H, P, N}, {F, H, P}, {F, H, N}, {F, P, N}, {H, P, N}, {F, H}, {F, P},
             {F, N}, {H, P}, {H, N}, {P, N}, {F}, {H}, {P}, {N}, {}>>
Cases17 == <<{F, H, N}, {F, H}, {F, N}, {H, N}, {F}, {H}, {N}, {}>>

Misordered == <<{F, H, P, N}, {F, H, P}, {F, H}, {F, H, N}>> \o SubSeq(Cases18, 4, 16)
  \* mutated form of Cases: a pair is tried before a triple

Cases == IF build = "go1.8" THEN Cases18 ELSE Cases17

WrapResponse ==
  LET i == SelectInSeq(Cases, LAMBDA case : case \subseteq offers) IN Cases[i]

(* What net/http does underneath.                                           *)
FinalStatus(r, c) == IF status[r] = None /\ c \notin Informational THEN c ELSE status[r]

-----------------------------------------------------------------------------
(* ServeHTTP starts the timer and calls the delegate.                       *)
ServeHTTP(r) ==
  /\ pc[r] = "new"
  /\ Goto(r, "delegate")
  /\ UNCHANGED <<build, offers, codes, lock, local, headerWritten, status, created, counted,
                 bypassed>>

Op(r) == pc[r] = "delegate" /\ ops[r] < MaxOps /\ ops' = [ops EXCEPT ![r] = @ + 1]

CountsEach(r) == TRUE  \* mutated form of FirstHeader

FirstHeader(r) == ~headerWritten[r]

(* WriteHeader returns at once when a header was written, else counts it.   *)
WriteHeader(r, c) ==
  /\ Op(r)
  /\ IF FirstHeader(r)
       THEN /\ headerWritten' = [headerWritten EXCEPT ![r] = TRUE]
            /\ code' = [code EXCEPT ![r] = c]
            /\ Goto(r, "rlock")
       ELSE UNCHANGED <<headerWritten, code, pc>>
  /\ UNCHANGED <<build, offers, codes, lock, status, created, counted, bypassed>>

NoImplicit(r) == FALSE  \* mutated form of ImplicitHeader

ImplicitHeader(r) == ~headerWritten[r]

(* Write: WriteHeader(200) first if need be.  The data that follow do not   *)
(* change the status any more.                                              *)
Write(r) ==
  /\ Op(r)
  /\ IF ImplicitHeader(r)
       THEN /\ headerWritten' = [headerWritten EXCEPT ![r] = TRUE]
            /\ code' = [code EXCEPT ![r] = OK]
            /\ Goto(r, "rlock")
            /\ UNCHANGED status
       ELSE /\ status' = [status EXCEPT ![r] = FinalStatus(r, OK)]
            /\ UNCHANGED <<headerWritten, code, pc>>
  /\ UNCHANGED <<build, offers, codes, lock, created, counted, bypassed>>

(* Flush is that of the ResponseWriter underneath: it happens behind the    *)
(* back of the wrapper.  (So does Hijack, after which there is no response  *)
(* of net/http to speak of.)                                                *)
Flush(r) ==
  /\ F \in WrapResponse
  /\ Op(r)
  /\ status' = [status EXCEPT ![r] = FinalStatus(r, OK)]
  /\ bypassed' = IF headerWritten[r] THEN bypassed ELSE bypassed \cup {r}
  /\ UNCHANGED <<build, offers, codes, lock, pc, code, headerWritten, created, counted>>

-----------------------------------------------------------------------------
(* counter: look the code up under the read lock; on a miss, again under    *)
(* the write lock, and only then create it.                                 *)

RLock(r) ==
  /\ pc[r] = "rlock" /\ writer = None
  /\ readers' = readers \cup {r}
  /\ Goto(r, "read")
  /\ UNCHANGED <<build, offers, codes, writer, local, headerWritten, status, created,
                 counted, bypassed>>

RUnlock(r) ==
  /\ pc[r] = "read"
  /\ readers' = readers \ {r}
  /\ Goto(r, IF code[r] \in codes THEN "inc" ELSE "lock")
  /\ UNCHANGED <<build, offers, codes, writer, local, headerWritten, status, created,
                 counted, bypassed>>

(* Lock holds off new readers, then waits for those inside.                 *)
Lock(r) ==
  /\ pc[r] = "lock" /\ writer = None
  /\ writer' = r
  /\ Goto(r, "wait")
  /\ UNCHANGED <<build, offers, codes, readers, local, headerWritten, status, created,
                 counted, bypassed>>

DoesNotWait == TRUE  \* mutated form of NoReaders

NoReaders == readers = {}

Locked(r) ==
  /\ pc[r] = "wait" /\ NoReaders
  /\ Goto(r, "write")
  /\ UNCHANGED <<build, offers, codes, lock, local, headerWritten, status, created, counted,
                 bypassed>>

NoRecheck(r) == TRUE  \* mutated form of StillMissing

StillMissing(r) == code[r] \notin codes

KeepsLock == writer  \* mutated form of Unlocked

Unlocked == None

Unlock(r) ==
  /\ pc[r] = "write"
  /\ IF StillMissing(r)
       THEN /\ created' = [created EXCEPT ![code[r]] = @ + 1]
            /\ codes' = codes \cup {code[r]}
       ELSE UNCHANGED <<created, codes>>
  /\ writer' = Unlocked
  /\ Goto(r, "inc")
  /\ UNCHANGED <<build, offers, readers, local, headerWritten, status, counted, bypassed>>

(* Inc, and the WriteHeader underneath.                                     *)
Inc(r) ==
  /\ pc[r] = "inc"
  /\ counted' = [counted EXCEPT ![r] = Append(@, code[r])]
  /\ status' = [status EXCEPT ![r] = FinalStatus(r, code[r])]
  /\ Goto(r, "delegate")
  /\ UNCHANGED <<build, offers, codes, lock, local, headerWritten, created, bypassed>>

(* The delegate returns: the time is taken, and net/http sends what it has  *)
(* to.  When it panics neither happens.                                     *)
Complete(r) ==
  /\ pc[r] = "delegate"
  /\ status' = [status EXCEPT ![r] = FinalStatus(r, OK)]
  /\ Goto(r, "done")
  /\ UNCHANGED <<build, offers, codes, lock, local, headerWritten, created, counted, bypassed>>

Panic(r) ==
  /\ pc[r] = "delegate"
  /\ Goto(r, "panicked")
  /\ UNCHANGED <<build, offers, codes, lock, local, headerWritten, status, created, counted,
                 bypassed>>

-----------------------------------------------------------------------------
Delegate(r) == (\E c \in Codes : WriteHeader(r, c)) \/ Write(r) \/ Flush(r)
Counter(r)  == RLock(r) \/ RUnlock(r) \/ Lock(r) \/ Locked(r) \/ Unlock(r) \/ Inc(r)
Serve(r)    == ServeHTTP(r) \/ Delegate(r) \/ Counter(r) \/ Complete(r) \/ Panic(r)

Next == \E r \in Requests : Serve(r)

Spec == Init /\ [][Next]_vars

(* Goroutines run, and those that wait for codesMtx have their turn; a      *)
(* delegate may keep its request for ever.                                  *)
Fairness == \A r \in Requests : /\ WF_vars(Counter(r))
                                /\ SF_vars(RLock(r)) /\ SF_vars(Lock(r))
FairSpec == Spec /\ Fairness

-----------------------------------------------------------------------------
(* Properties.                                                              *)

Counting == {"rlock", "read", "lock", "wait", "write", "inc"}

(* The type of every variable.                                              *)
TypeOK ==
  /\ build \in {"go1.8", "go1.7"} /\ offers \subseteq Interfaces
  /\ codes \subseteq Codes
  /\ readers \subseteq Requests /\ writer \in Requests \cup {None}
  /\ pc \in [Requests -> Counting \cup {"new", "delegate", "done", "panicked"}]
  /\ code \in [Requests -> Codes \cup {None}]
  /\ headerWritten \in [Requests -> BOOLEAN]
  /\ ops \in [Requests -> 0 .. MaxOps]
  /\ status \in [Requests -> (Codes \ Informational) \cup {None}]
  /\ created \in [Codes -> Nat]
  /\ counted \in [Requests -> Seq(Codes)]
  /\ bypassed \subseteq Requests

(* The map is written by one goroutine at a time, while none reads it:      *)
(* otherwise the Go runtime stops the program (httpHandler.codesMtx).       *)
MapExclusion ==
  \A r \in Requests : pc[r] = "write" =>
    \A q \in Requests \ {r} : pc[q] \notin {"read", "write"}

(* One counter for each code in the map, however many requests raced to be  *)
(* the first with it (counter, the second look under the write lock).       *)
CreatedOnce == \A c \in Codes : created[c] = IF c \in codes THEN 1 ELSE 0

(* A response is counted once, when its first header has been written       *)
(* (responseWriter.headerWritten).                                          *)
CountedOnce ==
  \A r \in Requests :
    Len(counted[r]) = IF headerWritten[r] /\ pc[r] \notin Counting THEN 1 ELSE 0

(* A response is counted under the status its client gets.  The exceptions  *)
(* are all 200s: the delegate flushed the response before the wrapper knew  *)
(* of a header, wrote nothing at all, or began with an informational code.  *)
CountedAsSent ==
  \A r \in Requests : pc[r] = "done" =>
    \/ counted[r] = <<status[r]>>
    \/ /\ status[r] = OK
       /\ \/ r \in bypassed
          \/ counted[r] = <<>>
          \/ counted[r][1] \in Informational

(* The wrapped ResponseWriter offers what the one underneath does, neither  *)
(* less nor more, whatever the order of the cases; before Go 1.8 there was  *)
(* no Pusher (wrapResponse).                                                *)
OffersTheSame == WrapResponse = IF build = "go1.8" THEN offers ELSE offers \ {P}

(* A request that waits for its counter gets it (counter, codesMtx).        *)
CountingEnds == \A r \in Requests : pc[r] \in Counting ~> pc[r] = "delegate"

=============================================================================
