SPECIFICATION Spec
CONSTANTS
  j1 = j1
  j2 = j2
  j3 = j3
  s1 = s1
  s2 = s2
  Jobs = {j1, j2, j3}
  Songs = {s1, s2}
  NoSong = NoSong
  MaxRenders = 2
SYMMETRY Interchangeable
INVARIANTS
  TypeOK
  HeldWhileActive
  ChargedIffDelivered
  RendersBounded
PROPERTIES
  EndedStaysEnded
CHECK_DEADLOCK FALSE
