SPECIFICATION FairSpec
CONSTANTS
  network = network
  secrets = secrets
  east = east
  south = south
  west = west
  NoRegion = NoRegion
  Sweep = {network, secrets}
  Region = {east, south, west}
  Enabled = {east, south, west}
  Configured = {east, NoRegion}
  Requests <- MCRequests
  Fanout = 2
  MaxFaults = 3
INVARIANTS
  OneDiscovery
  QuietSweepIsWhole
  EveryGapIsWarned
  OneDenialIsContained
PROPERTY
  EverySweepEnds
