SPECIFICATION BoundedSpec
CONSTANTS
  LastFile = 1
  Game = {g1, g2}
  Seed = {s1, s2}
  Initial = Initial
  Blank = Blank
  Garbage = Garbage
  None = None
  MaxTurns = 5
SYMMETRY Interchangeable
INVARIANTS
  SavesKept
  OccupiedIsWhole
  PartySound
  SavesPlayed
  IInv
PROPERTIES
  LoadsKept
