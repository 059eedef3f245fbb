CONSTANTS
  Handlers = {h1, h2}
  Main = mainThread
SPECIFICATION LiveDnsSpec
INVARIANTS NoChildLeft TerminatesOwnChild
PROPERTIES StopsInTheEnd
\* The process ends.
CHECK_DEADLOCK FALSE
