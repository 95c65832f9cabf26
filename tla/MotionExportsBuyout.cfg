SPECIFICATION Spec
CONSTANTS
  j1 = j1
  j2 = j2
  j3 = j3
  s1 = s1
  s2 = s2
  Jobs = {j1, j2}
  Songs = {s1}
  NoSong = NoSong
  MaxRenders = 2
INVARIANT BoughtOnce
CHECK_DEADLOCK FALSE
