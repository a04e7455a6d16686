------------------------------- MODULE MCJobs -------------------------------
(* Small instances of the job queue for TLC. *)
EXTENDS Jobs, TLC

\* Every owner has a row; which row it is does not matter.
MCOwnerOf == CHOOSE f \in [Job -> Owner] : \A o \in Owner : \E j \in Job : f[j] = o

\* Slots are interchangeable, and so are requests; rows are not, they have owners.
SlotSymmetry == Permutations(Slot) \cup Permutations(Request)
=============================================================================
