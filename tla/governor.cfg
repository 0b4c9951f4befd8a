\* A thread in each of two processes, one of which may be killed; one slot, or two.
SPECIFICATION FairSpec
CONSTANTS
  u1 = u1
  u2 = u2
  p1 = p1
  p2 = p2
  User <- MCUsers
  Proc <- MCProcs
  ProcOf <- MCProcOf
  Limits = {1, 2}
  Ram = 2
  MinFree = 1
  TTL = 1
  Lifetime = 2
  Window = 1
  Wait = 1
  MaxDeaths = 1
  None = None
INVARIANTS GovernorInv
PROPERTIES LiveOwnerKeepsLease SlotComesBack
