SPECIFICATION FairSpec
CONSTANTS
  d1 = d1
  d2 = d2
  n1 = n1
  n2 = n2
  s1 = s1
  Port = {p1, p2}
  Device = {d1, d2}
  Serial = {d1}
  Name = {n1, n2}
  Midi = {n2}
  Sig = {s1}
  Fits <- OneModel
  Board <- Renamed
  Installed = {}
  Nothing = Nothing
  MaxActs = 3
INVARIANTS TypeOK InForce StoppedWhenGone UndeployIsComplete OneReader
PROPERTIES CatchesUp
CHECK_DEADLOCK FALSE
