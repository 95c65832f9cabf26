SPECIFICATION BrowserSpec
CONSTANTS
  Songs = {s1, s2}
  LinkSongs = {s1, s2}
  NoSong = NoSong
  MaxRequests = 2
  MaxReports = 2
  MaxSaves = 1
  MaxGestures = 3
  MaxPlays = 3
  MaxQueue = 3
  NoText = NoText
  MaxLoads = 3
  MaxWrites = 1
  NoDraft = NoDraft
  MaxOpens = 2
  MaxChanges = 2
  MaxQueues = 1
  Clips = {c1}
  SongOf <- OneSong
  NoClip = NoClip
  MaxAsks = 3
  MaxJobs = 1
  MaxFiles = 3
  MaxAlarms = 2
  MaxDeaths = 1
  MaxDisturbances = 3
SYMMETRY SongsInterchangeable
INVARIANTS
  BrowserTypeOK
  DraftsAreReported
  ReadyMeansOpened
  OverlapIsBeingEnded
  HeardIsKnown
  SavedMeansStored
  UnsavedWorkIsInDraft
  RecordsAreCorrected
PROPERTIES
  DraftsAreNotReplaced
  OnlyTheLastSongOpens
CHECK_DEADLOCK FALSE
