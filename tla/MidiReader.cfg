SPECIFICATION Spec
CONSTANTS
  ReadMax = 7
  SignalSize = 4
  SysexCap = 9
  ShortLength = {1, 3}
  SysexLength = {4, 8, 10}
  MaxMessages = 3
INVARIANTS TypeOK SpacedIsHanded OnlyMessages
CHECK_DEADLOCK FALSE
