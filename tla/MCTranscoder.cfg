CONSTANTS
  Requests = {r1, r2, r3, r4}
  Concurrency = 2
SPECIFICATION LiveSpec
INVARIANTS PermitsConserved NoIdlePermit RunningBounded
PROPERTIES WaitersServed ResponsesReclaimed
\* Every request may have ended.
CHECK_DEADLOCK FALSE
