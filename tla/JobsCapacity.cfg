SPECIFICATION Spec
CONSTANTS
  Job = {j1, j2, j3}
  Owner = {o1, o2}
  OwnerOf <- MCOwnerOf
  Slot = {s1, s2}
  Request = {r1, r2}
  Concurrency = 1
  MaxPending = 2
  MaxPendingPerOwner = 1
  MaxAttempts = 1
  MaxReviews = 1
  NoSlot = NoSlot
  NoJob = NoJob
SYMMETRY SlotSymmetry
INVARIANTS
  BoundedQueue
