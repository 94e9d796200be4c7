\* StartContext, a user of counters and timers, and a connection that may fail for ever.
CONSTANTS
  None = None
  Loop = Loop
  Callers = {Loop, u1}
  Names = {n1}
  MaxCalls = 2
  MaxLines = 2
  Oversized = {}
  LineSize = 2
  BufSize = 2
  OutCap = 1
  FlushCap = 1
  LogEvery = 100
SPECIFICATION FairPipeline
INVARIANT ExitDelivers
PROPERTIES StopsWhenCancelled AddedArrives
