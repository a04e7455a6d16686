--------------------------- MODULE MCJobsContract ---------------------------
(* Small instances of the job queue with its claim-order history, against  *)
(* its contract.                                                           *)
EXTENDS JobsOrder, JobsRefinement, TLC

MCOwnerOf == CHOOSE f \in [Job -> Owner] : \A o \in Owner : \E j \in Job : f[j] = o

SlotSymmetry == Permutations(Slot) \cup Permutations(Request)
=============================================================================
