SPECIFICATION Spec
CONSTANTS
  Kind = "evdev"
  Versions = {1, 2, 3}
  ModeIds = {1, 2}
  ModesOf <- MCModesOf
  Shapes <- OneShape
  MaxBatches = 2
  MaxBurst = 1
INVARIANTS TypeOK Ordered Accounted NothingQueuedInReload LogLostToOutstopOnly StoppedClean
