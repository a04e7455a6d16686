SPECIFICATION OrderSpec
CONSTANTS
  Job = {j1, j2}
  Owner = {o1}
  OwnerOf <- MCOwnerOf
  Slot = {s1, s2}
  Request = {r1}
  Concurrency = 2
  MaxPending = 2
  MaxPendingPerOwner = 2
  MaxAttempts = 2
  MaxReviews = 1
  NoSlot = NoSlot
  NoJob = NoJob
SYMMETRY SlotSymmetry
INVARIANTS
  BoundedBypass
PROPERTIES
  ImplementsContract
