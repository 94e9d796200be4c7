\* Two callers, a connection that may fail at any time, and a line longer than a buffer.
CONSTANTS
  None = None
  Callers = {p1, p2}
  MaxLines = 3
  Oversized = {3}
  LineSize = 2
  BufSize = 4
  OutCap = 2
  FlushCap = 1
  LogEvery = 4
SPECIFICATION Spec
SYMMETRY Symmetry
INVARIANTS RetryNeverBlocks SentInOrder EachLineOnce FlushDelivers DropsNotOverstated NobodyForgotten
