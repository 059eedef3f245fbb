CONSTANTS
  None = None
  Tracks <- FourTracks
  Lists <- EmptyList
  Sorts <- MCSorts
  Orders <- OneOrder
  Queries <- NoQueries
  Endpoints = {"container"}
  Cids = {1, 5}
  Metas <- MCMetas
  MaxPage = 2
SPECIFICATION Spec
INVARIANTS AlwaysAnswered
\* A client stops when it has the listing.
CHECK_DEADLOCK FALSE
