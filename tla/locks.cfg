\* Three processes, two of which may be killed; the file is created twice.
SPECIFICATION FairSpec
CONSTANTS
  Process = {p1, p2, p3}
  Rules <- RepositoryRules
  MaxLocks = 2
  MaxDeaths = 2
  None = None
INVARIANTS LockInv
PROPERTIES LeftLockFreed
\* Every token may be used up.
CHECK_DEADLOCK FALSE
