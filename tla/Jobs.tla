-------------------------------- MODULE Jobs --------------------------------
(***************************************************************************)
(* The durable job queue of apps/api/app/jobs: rows of the table "jobs",   *)
(* the API requests that enqueue, retry and cancel them, and the worker    *)
(* slots that claim them under a lease, extract a financial proposal and   *)
(* record the outcome.                                                     *)
(*                                                                         *)
(* One database transaction is split where the code reads something and    *)
(* acts on it later: a transaction that takes the admission lock is a      *)
(* Begin step (lock, reads, decision) and a Commit step (writes, unlock);  *)
(* finish() reads the clock in one step and the row in the next.           *)
(*                                                                         *)
(* Time is seen only through the two comparisons the code makes with it.   *)
(* lease_expires_at <= now is the column "lease" of a row, turned from     *)
(* live to lapsed by LeaseExpires; available_at <= now is membership of    *)
(* "due", and the order of available_at is the order in which rows became  *)
(* due ("ahead").                                                          *)
(***************************************************************************)
EXTENDS Integers, FiniteSets

CONSTANTS
  Job,                  \* rows, each named by its (owner, idempotency_key)
  Owner,                \* users
  OwnerOf,              \* the owner of each row
  Slot,                 \* worker slots, over all worker processes
  Request,              \* API requests that may be open at the same time
  Concurrency,          \* JOBS_CONCURRENCY
  MaxPending,           \* JOBS_MAX_PENDING
  MaxPendingPerOwner,   \* JOBS_MAX_PENDING_PER_OWNER
  MaxAttempts,          \* JOBS_MAX_ATTEMPTS, copied to every row
  MaxReviews,           \* the literal 3 of review_retry()
  NoSlot, NoJob         \* SQL NULL

ASSUME JobsAssumption ==
  /\ IsFiniteSet(Job) /\ IsFiniteSet(Slot)
  /\ OwnerOf \in [Job -> Owner]
  /\ NoSlot \notin Slot /\ NoJob \notin Job
  /\ NoSlot \notin Request /\ Slot \cap Request = {}
  /\ Concurrency \in Nat \ {0} /\ MaxPending \in Nat \ {0}
  /\ MaxPendingPerOwner \in Nat \ {0}
  /\ MaxAttempts \in Nat \ {0} /\ MaxReviews \in Nat

VARIABLES
  job,        \* the table: one record of columns per row
  due,        \* queued and retry_wait rows whose available_at has passed
  ahead,      \* ahead[j]: the rows that were due before j became due
  proposal,   \* the proposal of the job's raw event: the slot that inserted it
  slot,       \* what each worker slot is doing
  request,    \* what each API request is doing
  admission   \* the holder of the transaction advisory lock ADMISSION_LOCK

vars == <<job, due, ahead, proposal, slot, request, admission>>

-----------------------------------------------------------------------------
(* Types *)

Active   == {"queued", "running", "retry_wait"}
Waiting  == {"queued", "retry_wait"}
Settled  == {"succeeded", "dead_letter", "cancelled"}
Status   == {"absent"} \cup Active \cup Settled

\* The token is a fresh uuid4 that one slot receives and that is only ever
\* compared for equality; a slot holds one lease at a time, so the slot names it.
Row == [status: Status, attempts: 0..MaxAttempts, review_retries: 0..MaxReviews,
        token: Slot \cup {NoSlot}, lease: {"none", "live", "lapsed"},
        payload: {"note", "empty"}, result: Slot \cup {NoSlot}]

Absent == [status |-> "absent", attempts |-> 0, review_retries |-> 0,
           token |-> NoSlot, lease |-> "none", payload |-> "empty", result |-> NoSlot]

Phase   == {"idle", "claiming", "submitting", "extracting", "finishing", "closing"}
Outcome == {"none", "result", "retryable", "fatal"}

\* In phase "claiming", lapsed, ripe and room are what claim() read; afterwards
\* job and attempts are the Lease, and clock says how finish() found its expiry.
SlotState == [phase: Phase, job: Job \cup {NoJob}, attempts: 0..MaxAttempts,
              outcome: Outcome, found: Slot \cup {NoSlot}, clock: {"live", "lapsed"},
              lapsed: SUBSET Job, ripe: SUBSET Job, room: {"free", "full"}]

Idle == [phase |-> "idle", job |-> NoJob, attempts |-> 0, outcome |-> "none",
         found |-> NoSlot, clock |-> "lapsed", lapsed |-> {}, ripe |-> {}, room |-> "full"]

RequestState == [op: {"none", "enqueue", "review", "cancel"}, job: Job \cup {NoJob}]
NoRequest    == [op |-> "none", job |-> NoJob]

TypeOK ==
  /\ job \in [Job -> Row]
  /\ due \in SUBSET Job
  /\ ahead \in [Job -> SUBSET Job]
  /\ proposal \in [Job -> Slot \cup {NoSlot}]
  /\ slot \in [Slot -> SlotState]
  /\ request \in [Request -> RequestState]
  /\ admission \in Slot \cup Request \cup {NoSlot}

Init ==
  /\ job = [j \in Job |-> Absent]
  /\ due = {}
  /\ ahead = [j \in Job |-> {}]
  /\ proposal = [j \in Job |-> NoSlot]
  /\ slot = [s \in Slot |-> Idle]
  /\ request = [r \in Request |-> NoRequest]
  /\ admission = NoSlot

-----------------------------------------------------------------------------
(* Helpers *)

InStatus(S) == {j \in Job : job[j].status \in S}
Running     == InStatus({"running"})
Pending     == InStatus(Active)
OwnedBy(o)  == {j \in Job : OwnerOf[j] = o}

\* check_capacity(): both counts are strictly below their limits.
HasCapacity(o) ==
  /\ Cardinality(Pending) < MaxPending
  /\ Cardinality(Pending \cap OwnedBy(o)) < MaxPendingPerOwner

RowLockedNever(j) == FALSE   \* mutant: cancel and review read without FOR UPDATE

\* Rows an open request has locked FOR UPDATE.
RowLocked(j) == \E r \in Request : request[r] \in [op: {"review", "cancel"}, job: {j}]

AcquireAdmissionFreely(p) == admission' = p   \* mutant: no advisory lock

AcquireAdmission(p) == admission = NoSlot /\ admission' = p
ReleaseAdmission(p) == admission' = IF admission = p THEN NoSlot ELSE admission

\* available_at <= now starts to hold of j: it is behind every row already due.
FallDue(j) ==
  /\ due' = due \cup {j}
  /\ ahead' = [k \in Job |-> IF k = j THEN due \ {j} ELSE ahead[k] \ {j}]

LeaveDue(j) ==
  /\ due' = due \ {j}
  /\ ahead' = [k \in Job |-> IF k = j THEN {} ELSE ahead[k] \ {j}]

-----------------------------------------------------------------------------
(* API requests: JobService.enqueue, retry and cancel. A request that is   *)
(* refused (404, 409, 429), or that finds its idempotency key in the table, *)
(* changes nothing and is not an action.                                   *)

EnqueueBegin(r, j) ==
  /\ request[r] = NoRequest
  /\ AcquireAdmission(r)
  /\ job[j].status = "absent"
  /\ HasCapacity(OwnerOf[j])
  /\ request' = [request EXCEPT ![r] = [op |-> "enqueue", job |-> j]]
  /\ UNCHANGED <<job, due, ahead, proposal, slot>>

Enqueued == [Absent EXCEPT !.status = "queued", !.payload = "note"]

EnqueueCommit(r) ==
  LET j == request[r].job IN
  /\ request[r].op = "enqueue"
  /\ job[j].status = "absent"
  /\ job' = [job EXCEPT ![j] = Enqueued]
  /\ FallDue(j)
  /\ request' = [request EXCEPT ![r] = NoRequest]
  /\ ReleaseAdmission(r)
  /\ UNCHANGED <<proposal, slot>>

ReviewableForEver(j) == job[j].status = "dead_letter"   \* mutant: no review limit

Reviewable(j) == job[j].status = "dead_letter" /\ job[j].review_retries < MaxReviews

ReviewBegin(r, j) ==
  /\ request[r] = NoRequest
  /\ AcquireAdmission(r)
  /\ ~RowLocked(j)
  /\ Reviewable(j)
  /\ HasCapacity(OwnerOf[j])
  /\ request' = [request EXCEPT ![r] = [op |-> "review", job |-> j]]
  /\ UNCHANGED <<job, due, ahead, proposal, slot>>

Reviewed(row) == [row EXCEPT !.status = "queued", !.attempts = 0, !.review_retries = @ + 1]

ReviewCommit(r) ==
  LET j == request[r].job IN
  /\ request[r].op = "review"
  /\ job' = [job EXCEPT ![j] = Reviewed(@)]
  /\ FallDue(j)
  /\ request' = [request EXCEPT ![r] = NoRequest]
  /\ ReleaseAdmission(r)
  /\ UNCHANGED <<proposal, slot>>

\* cancel() takes the row lock only, never the admission lock.
CancelBegin(r, j) ==
  /\ request[r] = NoRequest
  /\ ~RowLocked(j)
  /\ job[j].status \in Waiting
  /\ request' = [request EXCEPT ![r] = [op |-> "cancel", job |-> j]]
  /\ UNCHANGED <<job, due, ahead, proposal, slot, admission>>

Cancelled(row) == [row EXCEPT !.status = "cancelled", !.payload = "empty"]

CancelCommit(r) ==
  LET j == request[r].job IN
  /\ request[r].op = "cancel"
  /\ job' = [job EXCEPT ![j] = Cancelled(@)]
  /\ LeaveDue(j)
  /\ request' = [request EXCEPT ![r] = NoRequest]
  /\ UNCHANGED <<proposal, slot, admission>>

-----------------------------------------------------------------------------
(* Claiming: JobRepository.claim, called by JobWorker.run_once *)

\* mutant: the first UPDATE of claim(), for rows out of attempts, is dropped
LapsedBelowLimit == {j \in Running : job[j].lease = "lapsed" /\ job[j].attempts < MaxAttempts}

Lapsed == {j \in Running : job[j].lease = "lapsed"}

\* Lock, read the clock, and count the rows that stay running once the lapsed
\* leases are recovered.
ClaimBegin(s) ==
  /\ slot[s].phase = "idle"
  /\ AcquireAdmission(s)
  /\ slot' = [slot EXCEPT ![s] = [Idle EXCEPT
                !.phase = "claiming", !.lapsed = Lapsed, !.ripe = due,
                !.room = IF Cardinality(Running \ Lapsed) < Concurrency THEN "free" ELSE "full"]]
  /\ UNCHANGED <<job, due, ahead, proposal, request>>

\* mutant: recovery leaves the token of the lapsed lease behind
RecoverKeepingToken(row) ==
  [row EXCEPT !.status = IF row.attempts >= MaxAttempts THEN "dead_letter" ELSE "retry_wait",
              !.lease = "none"]

\* A running row whose lease had lapsed loses it: dead letter when its attempts
\* are used up, otherwise another wait. A finish that locked the row first wins.
Recover(row) ==
  [row EXCEPT !.status = IF row.attempts >= MaxAttempts THEN "dead_letter" ELSE "retry_wait",
              !.token = NoSlot, !.lease = "none"]

Recovered(s) ==
  [j \in Job |-> IF j \in slot[s].lapsed \cap Lapsed THEN Recover(job[j]) ELSE job[j]]

\* The rows the FOR UPDATE SKIP LOCKED query can return.
Claimable(s) ==
  {j \in slot[s].ripe \cap due :
     /\ job[j].status \in Waiting
     /\ job[j].attempts < MaxAttempts
     /\ ~RowLocked(j)}

OldestOrNot(S) == S   \* mutant: no ORDER BY

\* ORDER BY available_at LIMIT 1.
Oldest(S) == {j \in S : ahead[j] \cap S = {}}

Claimed(row, s) ==
  [row EXCEPT !.status = "running", !.attempts = @ + 1, !.token = s, !.lease = "live"]

ClaimRow(s, j) ==
  /\ slot[s].room = "free"
  /\ j \in Oldest(Claimable(s))
  /\ job' = [Recovered(s) EXCEPT ![j] = Claimed(job[j], s)]
  /\ LeaveDue(j)
  /\ slot' = [slot EXCEPT ![s] = [Idle EXCEPT !.phase = "submitting", !.job = j,
                                              !.attempts = job[j].attempts + 1]]
  /\ ReleaseAdmission(s)
  /\ UNCHANGED <<proposal, request>>

\* No room or no row: the recovery alone is committed and the slot polls again.
ClaimNothing(s) ==
  /\ slot[s].room = "full" \/ Claimable(s) = {}
  /\ job' = Recovered(s)
  /\ slot' = [slot EXCEPT ![s] = Idle]
  /\ ReleaseAdmission(s)
  /\ UNCHANGED <<due, ahead, proposal, request>>

ClaimCommit(s) ==
  /\ slot[s].phase = "claiming"
  /\ ClaimNothing(s) \/ \E j \in Job : ClaimRow(s, j)

-----------------------------------------------------------------------------
(* Executing: JobWorker._execute. Nothing here reads the job row, so a slot  *)
(* whose lease is gone (a zombie) runs on until finish() refuses it.        *)

Conclude(s, o, p) ==
  slot' = [slot EXCEPT ![s] = [@ EXCEPT !.phase = "finishing", !.outcome = o, !.found = p]]

\* existing_for_prompt(): a replayed job returns the proposal it already has,
\* otherwise the provider is called outside any transaction.
SubmitCheck(s) ==
  LET p == proposal[slot[s].job] IN
  /\ slot[s].phase = "submitting"
  /\ \/ p # NoSlot /\ Conclude(s, "result", p)
     \/ p = NoSlot /\ slot' = [slot EXCEPT ![s] = [@ EXCEPT !.phase = "extracting"]]
  /\ UNCHANGED <<job, due, ahead, proposal, request, admission>>

StoredLast(j, s) == s   \* mutant: ON CONFLICT DO UPDATE

\* create_or_get(): ON CONFLICT DO NOTHING, then select.
Stored(j, s) == IF proposal[j] = NoSlot THEN s ELSE proposal[j]

\* A timeout or a lost connection can hide the commit from the worker.
Persist(s) ==
  LET j == slot[s].job
      p == Stored(j, s)
  IN
  /\ slot[s].phase = "extracting"
  /\ proposal' = [proposal EXCEPT ![j] = p]
  /\ Conclude(s, "result", p) \/ Conclude(s, "retryable", NoSlot)
  /\ UNCHANGED <<job, due, ahead, request, admission>>

\* Provider or database failures and the timeout are retryable; a disabled
\* provider, an invalid output or an invalid payload are not.
ExtractFails(s) ==
  /\ slot[s].phase \in {"submitting", "extracting"}
  /\ \E o \in {"retryable", "fatal"} : Conclude(s, o, NoSlot)
  /\ UNCHANGED <<job, due, ahead, proposal, request, admission>>

\* finish() reads the clock before it locks the row.
FinishBegin(s) ==
  /\ slot[s].phase = "finishing"
  /\ slot' = [slot EXCEPT ![s] = [@ EXCEPT !.phase = "closing",
                                           !.clock = IF job[slot[s].job].lease = "lapsed"
                                                       THEN "lapsed" ELSE "live"]]
  /\ UNCHANGED <<job, due, ahead, proposal, request, admission>>

\* mutants: finish() compares no token, or looks the row up by id alone
HoldsSomeLease(s) == job[slot[s].job].status = "running" /\ slot[s].clock = "live"
HoldsAnything(s) == slot[s].clock = "live"

\* The WHERE clause of finish(): the fence.
HoldsLease(s) ==
  LET j == slot[s].job IN
  job[j].status = "running" /\ job[j].token = s /\ slot[s].clock = "live"

\* mutant: the note is scrubbed whatever the outcome
FinishedScrubbing(row, o, p) ==
  LET freed == [row EXCEPT !.token = NoSlot, !.lease = "none", !.payload = "empty"] IN
  IF o = "result"
    THEN [freed EXCEPT !.status = "succeeded", !.result = p]
  ELSE IF o = "retryable" /\ row.attempts < MaxAttempts
    THEN [freed EXCEPT !.status = "retry_wait"]
    ELSE [freed EXCEPT !.status = "dead_letter"]

Finished(row, o, p) ==
  LET freed == [row EXCEPT !.token = NoSlot, !.lease = "none"] IN
  IF o = "result"
    THEN [freed EXCEPT !.status = "succeeded", !.result = p, !.payload = "empty"]
  ELSE IF o = "retryable" /\ row.attempts < MaxAttempts
    THEN [freed EXCEPT !.status = "retry_wait"]
    ELSE [freed EXCEPT !.status = "dead_letter"]

FinishCommit(s) ==
  LET j == slot[s].job IN
  /\ slot[s].phase = "closing"
  /\ job' = IF HoldsLease(s)
              THEN [job EXCEPT ![j] = Finished(@, slot[s].outcome, slot[s].found)]
              ELSE job
  /\ slot' = [slot EXCEPT ![s] = Idle]
  /\ UNCHANGED <<due, ahead, proposal, request, admission>>

\* The worker dies, or the finish transaction fails: the slot forgets its lease.
Abandon(s) ==
  /\ slot[s].phase \in {"submitting", "extracting", "finishing", "closing"}
  /\ slot' = [slot EXCEPT ![s] = Idle]
  /\ UNCHANGED <<job, due, ahead, proposal, request, admission>>

-----------------------------------------------------------------------------
(* Time *)

LeaseExpires(j) ==
  /\ job[j].lease = "live"
  /\ job' = [job EXCEPT ![j] = [@ EXCEPT !.lease = "lapsed"]]
  /\ UNCHANGED <<due, ahead, proposal, slot, request, admission>>

BackoffEnds(j) ==
  /\ job[j].status = "retry_wait" /\ j \notin due
  /\ FallDue(j)
  /\ UNCHANGED <<job, proposal, slot, request, admission>>

-----------------------------------------------------------------------------

RequestStep(r) ==
  \/ \E j \in Job : EnqueueBegin(r, j) \/ ReviewBegin(r, j) \/ CancelBegin(r, j)
  \/ EnqueueCommit(r) \/ ReviewCommit(r) \/ CancelCommit(r)

SlotStep(s) ==
  \/ ClaimBegin(s) \/ ClaimCommit(s)
  \/ SubmitCheck(s) \/ Persist(s) \/ ExtractFails(s)
  \/ FinishBegin(s) \/ FinishCommit(s) \/ Abandon(s)

TimeStep(j) == LeaseExpires(j) \/ BackoffEnds(j)

Next ==
  \/ \E r \in Request : RequestStep(r)
  \/ \E s \in Slot : SlotStep(s)
  \/ \E j \in Job : TimeStep(j)

Spec == Init /\ [][Next]_vars

\* Time passes, an open transaction ends, a slot that has a lease goes on to
\* finish or dies, and idle slots keep polling (JobWorker.run loops for ever).
Fairness ==
  /\ \A j \in Job : WF_vars(LeaseExpires(j)) /\ WF_vars(BackoffEnds(j))
  /\ \A r \in Request : WF_vars(EnqueueCommit(r) \/ ReviewCommit(r) \/ CancelCommit(r))
  /\ \A s \in Slot :
       /\ WF_vars(ClaimBegin(s)) /\ WF_vars(ClaimCommit(s))
       /\ WF_vars(SubmitCheck(s)) /\ WF_vars(Persist(s) \/ ExtractFails(s))
       /\ WF_vars(FinishBegin(s)) /\ WF_vars(FinishCommit(s))

FairSpec == Spec /\ Fairness

-----------------------------------------------------------------------------
(* Properties *)

\* No number of worker processes ever has more rows in "running" than the
\* configured concurrency: claim() counts and claims under one admission lock.
BoundedConcurrency == Cardinality(Running) <= Concurrency

\* Admission control holds globally and for every owner although enqueue,
\* review_retry, claim, finish and cancel all move rows in and out of the
\* active statuses and only some of them take the lock.
BoundedQueue ==
  /\ Cardinality(Pending) <= MaxPending
  /\ \A o \in Owner : Cardinality(Pending \cap OwnedBy(o)) <= MaxPendingPerOwner

\* The lease columns are set together exactly on running rows, and the token of
\* a row is never that of an earlier attempt: the slot it names, if it still
\* works on the row, got it from the row's latest claim.
LeaseIsLatest ==
  \A j \in Job :
    /\ job[j].status = "running" <=> job[j].token # NoSlot
    /\ job[j].status = "running" <=> job[j].lease # "none"
    /\ \A s \in Slot :
         job[j].token = s /\ slot[s].job = j => slot[s].attempts = job[j].attempts

\* A job that can still run, or be retried by its owner, keeps its note; a job
\* that has succeeded or was cancelled no longer holds a copy of it.
PayloadKeptWhileNeeded ==
  \A j \in Job :
    /\ job[j].status \in Active \cup {"dead_letter"} => job[j].payload = "note"
    /\ job[j].status \in {"succeeded", "cancelled"} => job[j].payload = "empty"

\* The result a succeeded job shows is the one proposal stored for its raw
\* event, whichever attempt or zombie stored it; no other job shows a result.
ResultIsTheProposal ==
  \A j \in Job :
    IF job[j].status = "succeeded"
      THEN job[j].result # NoSlot /\ job[j].result = proposal[j]
      ELSE job[j].result = NoSlot

\* A stored proposal is never replaced: replays and concurrent zombies find it.
ProposalIsFinal ==
  [][\A j \in Job : proposal[j] # NoSlot => proposal'[j] = proposal[j]]_vars

\* A row that succeeded or was cancelled is never touched again, whatever
\* workers, recovery, retries and late requests still do.
SettledIsFinal ==
  [][\A j \in Job : job[j].status \in {"succeeded", "cancelled"} => job'[j] = job[j]]_vars

\* Only the claim that is current may move a row out of "running": either the
\* slot that claimed this very attempt closes it, or a claim recovers the row
\* after its lease lapsed.
FencedCompletion ==
  [][\A j \in Job :
       job[j].status = "running" /\ job'[j].status # "running" =>
         \/ job[j].lease = "lapsed" /\ job'[j].status \in {"retry_wait", "dead_letter"}
         \/ \E s \in Slot :
              /\ slot[s].phase = "closing" /\ slot[s].job = j
              /\ slot[s].attempts = job[j].attempts]_vars

\* Every admitted job ends, however often workers die: it succeeds, is given up
\* as a dead letter, or is cancelled.
EveryJobSettles ==
  \A j \in Job : job[j].status \in Active ~> job[j].status \in Settled
=============================================================================
