SPECIFICATION FairSpec
CONSTANTS
  StateFile <- MCStateFile
  Filter <- MCFilter
  Concurrency <- MCConcurrency
  Object <- MCObject
  Elsewhere <- MCElsewhere
  Attribute <- MCAttribute
  MaxChanges = 2
  MaxFaults = 1
INVARIANTS
  TypeOK
  EveryInstanceHasItsRow
  VerdictFollowsAccount
  ExitIsEvidence
PROPERTY
  EveryRunEnds
