------------------------------ MODULE JobsOrder ------------------------------
(***************************************************************************)
(* The job queue with a history variable that counts, for every waiting    *)
(* row, how often a claim preferred another row since it fell due. A row   *)
(* that an open cancel has locked is skipped, and is about to leave.        *)
(***************************************************************************)
EXTENDS Jobs

VARIABLE bypassed

NowRunning(j) == job[j].status # "running" /\ job'[j].status = "running"

OrderInit == Init /\ bypassed = [j \in Job |-> 0]

OrderNext ==
  /\ Next
  /\ bypassed' = [j \in Job |->
       IF j \notin due \/ RowLocked(j) THEN 0
       ELSE bypassed[j] + Cardinality({k \in Job \ {j} : NowRunning(k)})]

OrderSpec == OrderInit /\ [][OrderNext]_<<vars, bypassed>>

\* A job that keeps failing and coming back cannot starve one that waits: a due
\* row sees every other row claimed at most once before its own turn (the ORDER
\* BY available_at of claim() against the backoff of retries).
BoundedBypass == \A j \in Job : bypassed[j] < Cardinality(Job)
=============================================================================
