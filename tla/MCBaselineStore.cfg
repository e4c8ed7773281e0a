\* Saves of one name one after the other, everything else at once.
SPECIFICATION Spec
CONSTANTS
  a = a
  b = b
  long = long
  short = short
  NoInode = NoInode
  Missing = Missing
  Idle = Idle
  Client = {a, b}
  Name = {"prod"}
  Report = {long, short}
  Length <- MCLength
  Inode = {1, 2, 3, 4}
  Serialised = TRUE
  MaxCalls = 4
INVARIANTS
  StoredIsWhole
PROPERTY
  KeepsRegister
