SPECIFICATION Spec
CONSTANTS
  d1 = d1
  d2 = d2
  n1 = n1
  n2 = n2
  s1 = s1
  Port = {p1, p2}
  Device = {d1, d2}
  Serial = {d1}
  Name = {n1}
  Midi = {}
  Sig = {s1}
  Fits <- OneModel
  Board <- OneBoard
  Installed <- OneBoard
  Nothing = Nothing
  MaxActs = 2
INVARIANTS MoveWorks
CHECK_DEADLOCK FALSE
