SPECIFICATION Spec
CONSTANTS
  alpha = alpha
  beta = beta
  extra = extra
  manual = manual
  Listing <- MCListing
  Deployments <- MCDeployments
  Becomes <- MCBecomes
  Floors = {"LOW", "CRITICAL", "typo"}
  Gates = {"", "HIGH"}
  Extra = extra
  ByHand = manual
  MaxChanges = 2
  MaxFaults = 1
INVARIANTS
  TypeOK
  VerdictHasGround
  LastingGapIsKnown
  ExitZeroCoversTheContract
