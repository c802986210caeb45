SPECIFICATION Spec
CONSTANTS
  Name = {n1, n2}
  Bundled = {n1}
  None = None
  MaxFlows = 2
  MaxOps = 3
  MaxEdits = 1
  MaxFaults = 1
  MaxReloads = 1
INVARIANTS TypeOK Linked SavedIsStored StaysDeleted
CHECK_DEADLOCK FALSE
