CONSTANTS
  None = None
  Tracks <- FourTracks
  Lists <- FourLists
  Sorts <- MCSorts
  Orders <- AnyOrder
  Queries <- MCQueries
  Endpoints = {"items", "containers", "container"}
  Cids = {1, 2, 3, 7}
  Metas <- MCMetas
  MaxPage = 3
  Romaji <- MCRomaji
  Composed <- MCComposed
  Approx <- MCApprox
  Byte <- MCByte
  Me = "me"
  Others = {"other"}
  MaxLogins = 3
  MaxUpdates = 2
  Name <- MCName
  Databases <- MCDatabases
  Meta <- MCMeta
  ServedAs <- MCServedAs
  Headers <- MCHeaders
  Longest = 5
  MaxText = 20
SPECIFICATION DaapSpec
INVARIANTS ReadsBack PagesJoin PositionsGrow CountsAgree SessionsDistinct
PROPERTIES UpdateIsNews
\* A client stops when it has logged out.
CHECK_DEADLOCK FALSE
