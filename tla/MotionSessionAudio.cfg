SPECIFICATION Spec
CONSTANTS
  Songs = {s1, s2}
  NoSong = NoSong
  NoDraft = NoDraft
  MaxOpens = 2
  MaxChanges = 1
  MaxQueues = 1
INVARIANT ExportsAreOfOneSong
CHECK_DEADLOCK FALSE
