\* The Terraform names of two principals collide, the raw ones do not.
SPECIFICATION Spec
CONSTANTS
  user = user
  role = role
  deploy = deploy
  Absent = Absent
  Symlink = Symlink
  Stale = Stale
  Torn = Torn
  Principal <- MCPrincipal
  Action = {"get", "list"}
  Resource = {"arn", "bucket", "*"}
  Arn = {"arn"}
  AnyResource = "*"
  TfSlug <- Colliding
  RawSlug <- Distinct
  File <- MCFile
  Note = "AAA-PARTIAL-SCAN-README"
  Reports <- MCReports
  Commands <- MCCommands
INVARIANTS
  LostAccessIsDeclared
  PolicyIsWhatWasUsed
  ExitZeroCoversReport
