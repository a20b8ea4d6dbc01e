CONSTANTS
  Paths = {p1}
  Users = {u1, u2}
  Clusters = {2, 3}
  MaxVersion = 2
  JOURNAL_CAPACITY = 1
  PATH_CAPACITY = 1
  INODE_CAPACITY = 2
  MaxFaults = 0
  MaxCrashes = 1
  None = None
SPECIFICATION Spec
INVARIANT OwnerMatchesData
CHECK_DEADLOCK FALSE
