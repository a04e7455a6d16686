--------------------------- MODULE JobsRefinement ---------------------------
(* The job queue implements JobContract. *)
EXTENDS Jobs

\* What the owner can see of a row: the three active statuses are one.
Fate(row) ==
  CASE row.status = "absent"      -> "none"
    [] row.status \in Active      -> "open"
    [] row.status = "succeeded"   -> "done"
    [] row.status = "dead_letter" -> "failed"
    [] row.status = "cancelled"   -> "withdrawn"

Contract == INSTANCE JobContract WITH
  Effect   <- Slot,
  NoEffect <- NoSlot,
  MaxOpen  <- MaxPending,
  task     <- [j \in Job |-> Fate(job[j])],
  effect   <- proposal,
  shown    <- [j \in Job |-> job[j].result],
  reviews  <- [j \in Job |-> job[j].review_retries]

\* The queue with its leases, zombies and split transactions allows only what
\* the contract allows: one proposal per job, shown by the job that succeeds.
ImplementsContract == Contract!ContractSafety
=============================================================================
