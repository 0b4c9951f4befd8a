\* Two callers, two requests, two successors, and three faults.
SPECIFICATION FairSpec
CONSTANTS
  c1 = c1
  c2 = c2
  q1 = q1
  q2 = q2
  s1 = s1
  s2 = s2
  Caller <- MCCallers
  Request <- MCRequests
  Child <- MCChildren
  MaxFaults = 3
  None = None
INVARIANTS ResumeInv
PROPERTIES SealedForGood HandleUsedOnce EndedIsReported
