SPECIFICATION OfflineSpec
CONSTANTS
  ci = ci
  ops = ops
  Proc <- MCProc
  Path <- MCPath
  Name <- MCName
  Row <- MCRow
  Accounts <- MCAccounts
  Commands <- MCCommands
  MaxAccountChanges = 1
  MaxFailures = 1
  MaxCommands = 4
SYMMETRY MCSymmetry
INVARIANTS
  ComparisonIsEvidence
  VerdictsAreEvidence
  BenchmarkGateHolds
