SPECIFICATION FairSpec
CONSTANTS
  Devs = {d1}
  Socks = {0, 1}
  MaxStarts = 2
  MaxPosts = 1
  MaxCrashes = 1
PROPERTIES HeartbeatReturns PendingIsFetched StaysInRoster
