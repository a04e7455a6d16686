SPECIFICATION FairSpec
CONSTANTS
  Job = {j1, j2}
  Owner = {o1}
  OwnerOf <- MCOwnerOf
  Slot = {s1, s2}
  Request = {r1}
  Concurrency = 1
  MaxPending = 2
  MaxPendingPerOwner = 2
  MaxAttempts = 2
  MaxReviews = 0
  NoSlot = NoSlot
  NoJob = NoJob
PROPERTIES
  EveryJobSettles
