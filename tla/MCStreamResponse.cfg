CONSTANTS
  None = None
  Tracks <- MCTracks
  Configs <- MCConfigs
  Clients <- MCClients
  Backends = {"file", "skipping", "remote", "untold"}
  Starts = {0, 1, 3, 5, 31, 54, 55, 77, 100, 113, 114, 200}
  Ends = {0, 2, 3, 5, 60, 113, 300}
  SourceCap = 8
  Word = 65536
SPECIFICATION Spec
INVARIANTS PiecesJoin RangeIsHonest PromiseIsKept SeekNeverSkips ListedIsServed
\* A client stops when it has the track or was refused.
CHECK_DEADLOCK FALSE
