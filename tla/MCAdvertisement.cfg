CONSTANTS
  Handlers = {h1, h2}
  Main = mainThread
SPECIFICATION LiveSpec
INVARIANTS OneGoodbye ExitAsksGoodbye CleanStop
PROPERTIES StopsInTheEnd
\* The process ends.
CHECK_DEADLOCK FALSE
