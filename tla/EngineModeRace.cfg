SPECIFICATION Spec
CONSTANTS
  Kind = "evdev"
  Versions = {1, 2}
  ModeIds = {1, 2}
  ModesOf <- MCModesOf
  Shapes <- OneShape
  MaxBatches = 1
  MaxBurst = 1
PROPERTIES ChangeModeSwitches
