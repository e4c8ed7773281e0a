\* Two Saves of one name at once.
SPECIFICATION Spec
CONSTANTS
  a = a
  b = b
  long = long
  short = short
  NoInode = NoInode
  Missing = Missing
  Idle = Idle
  Client = {a, b}
  Name = {"prod"}
  Report = {long, short}
  Length <- MCLength
  Inode = {1, 2, 3, 4}
  Serialised = FALSE
  MaxCalls = 4
INVARIANT StoredIsWhole
