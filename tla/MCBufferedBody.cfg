\* Channel at its floor of four messages, a two-byte header.
CONSTANTS
  Chunk = 2
  CapBytes = 3
  PrefixLen = 2
  RoomMax = 3
  MaxBytes = 15
SPECIFICATION LiveSpec
INVARIANTS RunAheadBounded
PROPERTIES PipeSpec DrainerIsReleased EndIsDelivered
\* A drained body that was dropped has nothing left to do.
CHECK_DEADLOCK FALSE
