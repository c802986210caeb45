SPECIFICATION FairSpec
CONSTANTS
  Key = {"a", "b"}
  ModeId = {1, 2}
  First = 1
  Rules <- TwoModes
  Longest = 2
  None = None
  Repeating = {"a"}
  MaxQueue = 2
INVARIANTS TypeOK OncePerPress InTime
PROPERTIES HoldFires
CHECK_DEADLOCK FALSE
