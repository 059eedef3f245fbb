CONSTANTS
  Args <- MCArgs
  MaxStarts = 2
  Urls <- MCUrls
  Servers <- MCServers
  FriendlyName <- MCName
  Holds <- MCHolds
  Total <- MCTotal
  SkipTopLevel <- MCSkip
  MaxDepth = 2
  PageSize = 2
  Artists <- MCArtists
  AlbumsOf <- MCAlbumsOf
  SongsOf <- MCSongsOf
  ServerLists <- MCLists
  EntriesOf <- MCEntriesOf
  Concurrency = 2
  Files <- MCFiles
  AudioExts = {"mp3", "flac"}
SPECIFICATION Spec
INVARIANTS IdsIdentify PlaylistsAreContainers CatalogueWhole CacheSound
PROPERTY StartsUp
