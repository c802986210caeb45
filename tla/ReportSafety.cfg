SPECIFICATION Spec
CONSTANTS
  Devs = {d1}
  Unregistered = {}
  NoUuid = NoUuid
  Cap = 2
  History = 1
  Socks = {0, 1, 2}
  Users = {u1, u2}
  MaxReports = 4
  MaxCrashes = 1
SYMMETRY UserSymmetry
INVARIANTS TypeOK RecordedOnce StreamFresh QueueIsNewest OutOfOrderOnlyLate
