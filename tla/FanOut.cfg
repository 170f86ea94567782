\* Two workers over a changing fleet, and one worker over one that comes to rest.
CONSTANTS
  a = a
  b = b
  c = c
  Targets = {a, b, c}
  Settings <- PoolAndSerial
SPECIFICATION RelistedSpec
INVARIANTS
  TypeOK
PROPERTIES
  ReadingsSurvive
  RefreshEnds
  ResumesAtFirstStarved
  WholeUnlessRefused
  EveryoneGetsATurn
