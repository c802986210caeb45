SPECIFICATION FairSpec
CONSTANTS
  Kind = "midi"
  Versions = {1, 3}
  ModeIds = {1, 2}
  ModesOf <- MCModesOf
  Shapes <- TwoShapes
  MaxBatches = 2
  MaxBurst = 1
PROPERTIES ImplementsPromise StopCompletes
