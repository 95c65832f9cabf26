SPECIFICATION Spec
CONSTANTS
  Clips = {c1, c2}
  SongOf <- OneSong
  NoClip = NoClip
  MaxAsks = 2
  MaxJobs = 2
  MaxFiles = 2
  MaxAlarms = 1
  MaxDeaths = 0
SYMMETRY ClipsInterchangeable
INVARIANTS DownloadedOnce
CHECK_DEADLOCK FALSE
