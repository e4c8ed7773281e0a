SPECIFICATION Spec
CONSTANTS
  east = east
  west = west
  disk = disk
  plug = plug
  lb = lb
  blue = blue
  green = green
  snap = snap
  ami = ami
  box = box
  db = db
  dump = dump
  dev = dev
  logs = logs
  rule = rule
  debris = debris
  NoThing = NoThing
  Region = {east, west}
  Thing <- MCThing
  kind <- MCKind
  home <- MCHome
  page <- MCPage
  owners <- MCOwners
  Unnamed = {}
  Cheap = {disk, logs}
  Accounts <- MCAccounts
  Creations <- MCCreations
  Pages <- MCPages
  MaxMoves = 2
  MaxFaults = 1
  Sorted <- MCSorted
  Accepted <- MCAccepted
  OtherReports <- MCOtherReports
  Floors = {"LOW", "HIGH"}
  Directories <- MCDirectories
  MaxRuns = 2
INVARIANTS
  TypeOK
  SparesTheLiving
  QuietScanIsWhole
  ScriptsAreTheReport
  RefusalLeavesNoTrace
PROPERTIES
  GoodScriptStaysGood
