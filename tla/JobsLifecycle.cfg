SPECIFICATION Spec
CONSTANTS
  Job = {j1, j2}
  Owner = {o1}
  OwnerOf <- MCOwnerOf
  Slot = {s1, s2}
  Request = {r1, r2}
  Concurrency = 1
  MaxPending = 2
  MaxPendingPerOwner = 2
  MaxAttempts = 2
  MaxReviews = 1
  NoSlot = NoSlot
  NoJob = NoJob
SYMMETRY SlotSymmetry
INVARIANTS
  TypeOK
  BoundedConcurrency
  LeaseIsLatest
  PayloadKeptWhileNeeded
  ResultIsTheProposal
PROPERTIES
  ProposalIsFinal
  SettledIsFinal
  FencedCompletion
