CONSTANTS
  None = None
  Albums <- MCAlbums
  CacheSize = 2
  MaxBox = 3
  MaxJpegDim = 10
  MaxRun = 4
  CountMod = 8
  ShortRow = 4
  LongRow = 5
  RowMod = 32
  MaxDim = 9
SPECIFICATION Spec
INVARIANTS AnswerIsForItsRequest OriginalOnlyIfHopeless PictShowsTheImage FitsTheBox KeysAreCanonical
