\* Both shapes of failure; the longest window that the provider retains, and one day more.
SPECIFICATION FairSpec
CONSTANTS
  p1 = p1
  p2 = p2
  p3 = p3
  NoOne = NoOne
  Principal <- MCPrincipal
  Matches <- MCMatches
  Action <- MCAction
  AdminAction = {}
  Canon <- MCCanon
  Resource <- MCResource
  AnyResource = "*"
  Foreign = {"foreign"}
  Concurrency = 2
  MinSeverity = "LOW"
  Requests = {90, 91}
  Limit = 90
  HasAccountID = FALSE
  Faults = {"error", "warn"}
  MaxFaults = 2
  Accounts <- MCAccounts
INVARIANTS
  TypeOK
  BoundedReads
  NothingLost
  CleanScanIsWhole
  InventedVerdictIsTraced
PROPERTIES
  KeepsPromise
  Terminates
