CONSTANTS
  Source = 4
  WorkCap = 1
  Lines = 2
  StdinCap = 1
  StdoutCap = 1
  StderrCap = 1
  ChanCap = 1
SPECIFICATION PipeSpec
INVARIANTS FailureSurfaced
\* A response may have ended.
CHECK_DEADLOCK FALSE
