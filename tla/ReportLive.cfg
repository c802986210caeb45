SPECIFICATION FairSpec
CONSTANTS
  Devs = {d1, d2}
  Unregistered = {}
  NoUuid = NoUuid
  Cap = 1
  History = 1
  Socks = {0, 1}
  Users = {u1}
  MaxReports = 1
  MaxCrashes = 1
PROPERTIES DieReturns ReportLeaves SlotIsEmptied
