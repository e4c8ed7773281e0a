SPECIFICATION FairSpec
CONSTANTS
  aws = aws
  other = other
  Domain = {"iam", "storage", "orphans", "tags"}
  Factories <- MCFactories
  Implements <- MCImplements
  Reported = {"HIGH"}
  Accounts <- MCAccounts
  Commands <- MCCommands
  MaxFaults = 2
INVARIANTS
  ExitZeroIsEvidence
  ZeroIsExplained
  NoFalseAlarm
  FindingsOutrankGaps
PROPERTIES
  Ends
