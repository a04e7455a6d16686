----------------------------- MODULE JobsProofs -----------------------------
(***************************************************************************)
(* Theorems about the job queue, for every number of jobs, owners, worker  *)
(* slots and requests and every setting of the limits: its safety, the     *)
(* order in which it claims rows, and the contract it implements.          *)
(***************************************************************************)
EXTENDS JobsOrder, JobsRefinement, FiniteSetTheorems, TLAPS

-----------------------------------------------------------------------------
(* The inductive invariant *)

(* What one row satisfies by itself: the CHECK constraints of the table, the *)
(* lease columns exactly on running rows, the note as long as it is needed,  *)
(* and a result exactly on the rows that succeeded.                          *)
GoodRow == {row \in Row :
  /\ row.status = "running" <=> row.token # NoSlot
  /\ row.status = "running" <=> row.lease # "none"
  /\ row.status \in Active \cup {"dead_letter"} => row.payload = "note"
  /\ row.status \in {"succeeded", "cancelled"} => row.payload = "empty"
  /\ row.status = "succeeded" <=> row.result # NoSlot}

RowsGood == job \in [Job -> GoodRow]

(* What an open request still knows when it commits: it holds the admission  *)
(* lock if it is going to add a row, and the row is as it saw it.            *)
RequestInv ==
  \A r \in Request :
    /\ request[r].op # "none" => request[r].job \in Job
    /\ request[r].op = "enqueue" => admission = r
    /\ request[r].op = "review" => admission = r /\ Reviewable(request[r].job)
    /\ request[r].op = "cancel" =>
         /\ job[request[r].job].status \in Waiting
         /\ \A q \in Request \ {r} : request[q].op = "cancel" => request[q].job # request[r].job

(* A slot past its claim works on a row that exists, at an attempt the row   *)
(* has reached, and an outcome "result" carries the stored proposal.         *)
SlotInv ==
  \A s \in Slot :
    /\ slot[s].phase = "claiming" => admission = s
    /\ slot[s].phase \in {"idle", "claiming"} <=> slot[s].job = NoJob
    /\ slot[s].outcome = "result" =>
         /\ slot[s].phase \in {"finishing", "closing"}
         /\ slot[s].found # NoSlot /\ slot[s].found = proposal[slot[s].job]

(* The row that names a slot is at the attempt that slot claimed.            *)
TokenInv ==
  \A j \in Job, s \in Slot :
    job[j].token = s /\ slot[s].job = j => slot[s].attempts = job[j].attempts

(* A result is the proposal of the row's raw event.                          *)
ResultInv == \A j \in Job : job[j].result # NoSlot => job[j].result = proposal[j]

IInv == TypeOK /\ RowsGood /\ RequestInv /\ SlotInv /\ TokenInv /\ ResultInv

-----------------------------------------------------------------------------
(* Rows: every UPDATE of the repository turns a good row into a good row *)

\* A row not yet made and a new one are good.
LEMMA EnqueuedRow == Absent \in GoodRow /\ Enqueued \in GoodRow
<1>1. 0 \in 0..MaxAttempts /\ 0 \in 0..MaxReviews
  BY JobsAssumption
<1> QED BY <1>1 DEF GoodRow, Row, Absent, Enqueued, Status, Active, Settled

\* A dead letter that is retried is good and has lost its claim.
LEMMA ReviewedRow ==
  ASSUME NEW row \in GoodRow, row.status = "dead_letter", row.review_retries < MaxReviews
  PROVE  Reviewed(row) \in GoodRow /\ Reviewed(row).token = NoSlot /\ Reviewed(row).result = NoSlot
<1>1. row.review_retries + 1 \in 0..MaxReviews /\ 0 \in 0..MaxAttempts
  BY JobsAssumption DEF GoodRow, Row
<1> QED BY <1>1 DEF GoodRow, Row, Reviewed, Status, Active, Settled

\* A cancelled row is good and has no claim.
LEMMA CancelledRow ==
  ASSUME NEW row \in GoodRow, row.status \in Waiting
  PROVE  Cancelled(row) \in GoodRow /\ Cancelled(row).token = NoSlot /\ Cancelled(row).result = NoSlot
BY DEF GoodRow, Row, Cancelled, Status, Active, Settled, Waiting

\* A row with a lapsed lease is good once it is recovered.
LEMMA RecoveredRow ==
  ASSUME NEW row \in GoodRow, row.status = "running"
  PROVE  Recover(row) \in GoodRow
BY DEF GoodRow, Row, Recover, Status, Active, Settled

\* A waiting row is good once it is claimed.
LEMMA ClaimedRow ==
  ASSUME NEW row \in GoodRow, NEW s \in Slot, row.status \in Waiting, row.attempts < MaxAttempts
  PROVE  Claimed(row, s) \in GoodRow
<1>1. row.attempts + 1 \in 0..MaxAttempts /\ s # NoSlot
  BY JobsAssumption DEF GoodRow, Row
<1> QED BY <1>1 DEF GoodRow, Row, Claimed, Status, Active, Settled, Waiting

\* A finished row is good and runs no longer.
LEMMA FinishedRow ==
  ASSUME NEW row \in GoodRow, row.status = "running", NEW o, NEW p \in Slot \cup {NoSlot},
         o = "result" => p # NoSlot
  PROVE  Finished(row, o, p) \in GoodRow /\ Finished(row, o, p).status # "running"
BY DEF GoodRow, Row, Finished, Status, Active, Settled

\* A row is good when its lease lapses.
LEMMA ExpiredRow ==
  ASSUME NEW row \in GoodRow, row.lease = "live"
  PROVE  [row EXCEPT !.lease = "lapsed"] \in GoodRow
BY DEF GoodRow, Row

-----------------------------------------------------------------------------
(* Initial states, and helpers of the actions *)

\* The invariant holds in an empty queue.
LEMMA InitInv == Init => IInv
<1> SUFFICES ASSUME Init PROVE IInv
  OBVIOUS
<1>1. TypeOK
  BY JobsAssumption DEF Init, TypeOK, Row, Absent, Status, Active, Settled, SlotState, Idle,
       Phase, Outcome, RequestState, NoRequest
<1>2. RowsGood
  BY EnqueuedRow DEF Init, RowsGood
<1>3. RequestInv /\ SlotInv
  BY DEF Init, RequestInv, NoRequest, SlotInv, Idle
<1>4. TokenInv /\ ResultInv
  BY JobsAssumption DEF Init, TokenInv, Idle, ResultInv, Absent
<1> QED BY <1>1, <1>2, <1>3, <1>4 DEF IInv

\* Ordering the rows that are due keeps its type.
LEMMA DueType ==
  ASSUME TypeOK, NEW j \in Job, FallDue(j) \/ LeaveDue(j)
  PROVE  due' \in SUBSET Job /\ ahead' \in [Job -> SUBSET Job]
BY DEF TypeOK, FallDue, LeaveDue

\* A row is locked by a review or a cancellation in progress.
LEMMA Locked ==
  ASSUME TypeOK, NEW j
  PROVE  RowLocked(j) <=> \E r \in Request : request[r].op \in {"review", "cancel"}
                                          /\ request[r].job = j
BY DEF TypeOK, RowLocked, RequestState

\* Requests and slots that have nothing to do have their types.
LEMMA ResetTypes == NoRequest \in RequestState /\ Idle \in SlotState
BY JobsAssumption DEF NoRequest, RequestState, Idle, SlotState, Phase, Outcome

-----------------------------------------------------------------------------
(* Requests *)

\* A request that begins keeps the invariant.
LEMMA RequestBegins ==
  ASSUME IInv, NEW r \in Request, NEW j \in Job,
         EnqueueBegin(r, j) \/ ReviewBegin(r, j) \/ CancelBegin(r, j)
  PROVE  IInv'
<1> USE DEF EnqueueBegin, ReviewBegin, CancelBegin
<1>1. PICK o \in {"enqueue", "review", "cancel"} :
        request' = [request EXCEPT ![r] = [op |-> o, job |-> j]]
  OBVIOUS
<1>2. TypeOK'
  <2>1. [op |-> o, job |-> j] \in RequestState
    BY <1>1 DEF RequestState
  <2>2. request' \in [Request -> RequestState]
    BY <1>1, <2>1 DEF IInv, TypeOK
  <2> QED BY <2>2 DEF IInv, TypeOK, AcquireAdmission
<1>3. RowsGood' /\ TokenInv' /\ ResultInv'
  BY DEF IInv, RowsGood, TokenInv, ResultInv
<1>4. SlotInv'
  BY JobsAssumption DEF IInv, SlotInv, AcquireAdmission
<1>5. RequestInv'
  <2>1. \A q \in Request : request'[q] = IF q = r THEN [op |-> o, job |-> j] ELSE request[q]
    BY <1>1 DEF IInv, TypeOK
  <2>2. CASE EnqueueBegin(r, j)
    BY <2>1, <2>2, <1>1, JobsAssumption DEF IInv, RequestInv, AcquireAdmission, Reviewable
  <2>3. CASE ReviewBegin(r, j)
    BY <2>1, <2>3, <1>1, JobsAssumption DEF IInv, RequestInv, AcquireAdmission, Reviewable
  <2>4. CASE CancelBegin(r, j)
    BY <2>1, <2>4, <1>1, Locked DEF IInv, RequestInv, Reviewable
  <2> QED BY <2>2, <2>3, <2>4
<1> QED BY <1>2, <1>3, <1>4, <1>5 DEF IInv

\* A request that commits keeps the invariant.
LEMMA RequestCommits ==
  ASSUME IInv, NEW r \in Request, EnqueueCommit(r) \/ ReviewCommit(r) \/ CancelCommit(r)
  PROVE  IInv'
<1>1. PICK j \in Job : j = request[r].job
  BY DEF IInv, RequestInv, EnqueueCommit, ReviewCommit, CancelCommit
<1>2. PICK row \in GoodRow :
        /\ job' = [job EXCEPT ![j] = row]
        /\ row.token = NoSlot /\ row.result = NoSlot
  <2>1. CASE EnqueueCommit(r)
    BY <1>1, <2>1, EnqueuedRow DEF EnqueueCommit, Enqueued, Absent
  <2>2. CASE ReviewCommit(r)
    <3>1. job[j] \in GoodRow /\ Reviewable(j)
      BY <1>1, <2>2 DEF IInv, RowsGood, RequestInv, ReviewCommit
    <3> QED BY <1>1, <2>2, <3>1, ReviewedRow DEF ReviewCommit, Reviewable
  <2>3. CASE CancelCommit(r)
    <3>1. job[j] \in GoodRow /\ job[j].status \in Waiting
      BY <1>1, <2>3 DEF IInv, RowsGood, RequestInv, CancelCommit
    <3> QED BY <1>1, <2>3, <3>1, CancelledRow DEF CancelCommit
  <2> QED BY <2>1, <2>2, <2>3
<1>3. /\ request' = [request EXCEPT ![r] = NoRequest]
      /\ FallDue(j) \/ LeaveDue(j)
      /\ ReleaseAdmission(r) \/ UNCHANGED admission
      /\ UNCHANGED <<proposal, slot>>
  BY <1>1 DEF EnqueueCommit, ReviewCommit, CancelCommit
<1>4. RowsGood'
  BY <1>2 DEF IInv, RowsGood
<1>5. TypeOK'
  <2>1. job' \in [Job -> Row]
    BY <1>4 DEF RowsGood, GoodRow
  <2>2. request' \in [Request -> RequestState]
    BY <1>3, ResetTypes DEF IInv, TypeOK
  <2> QED BY <1>3, <2>1, <2>2, DueType DEF IInv, TypeOK, ReleaseAdmission
<1>6. TokenInv' /\ ResultInv'
  BY <1>2, <1>3, JobsAssumption DEF IInv, TypeOK, TokenInv, ResultInv
<1>7. SlotInv'
  BY <1>3, JobsAssumption DEF IInv, SlotInv, ReleaseAdmission
<1>8. RequestInv'
  <2>1. \A q \in Request : request'[q] = IF q = r THEN NoRequest ELSE request[q]
    BY <1>3 DEF IInv, TypeOK
  <2>2. \A k \in Job \ {j} : job'[k] = job[k]
    BY <1>2 DEF IInv, TypeOK
  <2>3. ASSUME NEW q \in Request, q # r, request[q].op \in {"enqueue", "review"}
        PROVE  admission' = q /\ (request[q].op = "review" => request[q].job # j)
    BY <2>3, <1>1, <1>3 DEF IInv, RequestInv, EnqueueCommit, ReviewCommit, CancelCommit,
       ReleaseAdmission, Waiting, Reviewable
  <2>4. ASSUME NEW q \in Request, q # r, request[q].op = "cancel"
        PROVE  request[q].job # j
    BY <2>4, <1>1 DEF IInv, RequestInv, EnqueueCommit, ReviewCommit, CancelCommit, Waiting, Reviewable
  <2> QED BY <2>1, <2>2, <2>3, <2>4 DEF IInv, RequestInv, NoRequest, Reviewable
<1> QED BY <1>4, <1>5, <1>6, <1>7, <1>8 DEF IInv

-----------------------------------------------------------------------------
(* Worker slots *)

\* A claim that begins keeps the invariant.
LEMMA ClaimBegins ==
  ASSUME IInv, NEW s \in Slot, ClaimBegin(s)
  PROVE  IInv'
<1>1. PICK l \in SUBSET Job, d \in SUBSET Job, m \in {"free", "full"} :
        slot' = [slot EXCEPT ![s] = [Idle EXCEPT !.phase = "claiming", !.lapsed = l,
                                                 !.ripe = d, !.room = m]]
  BY DEF ClaimBegin, Lapsed, Running, InStatus, IInv, TypeOK
<1> DEFINE c == [Idle EXCEPT !.phase = "claiming", !.lapsed = l, !.ripe = d, !.room = m]
<1>2. c \in SlotState /\ c.phase = "claiming" /\ c.job = NoJob /\ c.outcome = "none"
  <2>1. Idle \in SlotState
    BY ResetTypes
  <2> QED BY <2>1 DEF Idle, SlotState, Phase
<1> HIDE DEF c
<1>3. \A q \in Slot : slot'[q] = IF q = s THEN c ELSE slot[q]
  BY <1>1 DEF IInv, TypeOK, c
<1>4. TypeOK'
  BY <1>1, <1>2 DEF IInv, TypeOK, c, ClaimBegin, AcquireAdmission
<1>5. RowsGood' /\ ResultInv'
  BY DEF IInv, RowsGood, ResultInv, ClaimBegin
<1>6. RequestInv'
  BY JobsAssumption DEF IInv, RequestInv, Reviewable, ClaimBegin, AcquireAdmission
<1>7. SlotInv'
  <2>1. admission = NoSlot /\ admission' = s /\ proposal' = proposal
    BY DEF ClaimBegin, AcquireAdmission
  <2>2. \A q \in Slot : slot[q].phase # "claiming"
    BY <2>1, JobsAssumption DEF IInv, SlotInv
  <2> QED BY <1>2, <1>3, <2>1, <2>2 DEF IInv, SlotInv
<1>8. TokenInv'
  <2>1. job' = job /\ c.job \notin Job
    BY <1>2, JobsAssumption DEF ClaimBegin
  <2> QED BY <1>3, <2>1 DEF IInv, TokenInv
<1> QED BY <1>4, <1>5, <1>6, <1>7, <1>8 DEF IInv

\* The steps between a claim and its finish touch no row: a slot moves on with
\* the lease it has, and at most stores the proposal of its own row.
LEMMA Executes ==
  ASSUME IInv, NEW s \in Slot, NEW c \in SlotState,
         slot' = [slot EXCEPT ![s] = c],
         slot[s].phase \notin {"idle", "claiming"},
         c.phase \notin {"idle", "claiming"} /\ c.job = slot[s].job /\ c.attempts = slot[s].attempts,
         c.outcome = "result" =>
           /\ c.phase \in {"finishing", "closing"}
           /\ c.found # NoSlot /\ c.found = proposal'[c.job],
         proposal' \in [Job -> Slot \cup {NoSlot}],
         \A j \in Job : proposal[j] # NoSlot => proposal'[j] = proposal[j],
         UNCHANGED <<job, due, ahead, request, admission>>
  PROVE  IInv'
<1>1. \A q \in Slot : slot'[q] = IF q = s THEN c ELSE slot[q]
  BY DEF IInv, TypeOK
<1>2. TypeOK'
  BY DEF IInv, TypeOK
<1>3. RowsGood' /\ RequestInv' /\ ResultInv'
  BY DEF IInv, RowsGood, RequestInv, Reviewable, ResultInv
<1>4. SlotInv'
  <2>1. ASSUME NEW q \in Slot, q # s, slot[q].outcome = "result"
        PROVE  slot[q].found = proposal'[slot[q].job]
    <3>1. slot[q].job \in Job
      BY <2>1 DEF IInv, TypeOK, SlotInv, SlotState
    <3> QED BY <2>1, <3>1 DEF IInv, SlotInv
  <2> QED BY <1>1, <2>1 DEF IInv, SlotInv
<1>5. TokenInv'
  BY <1>1 DEF IInv, TokenInv
<1> QED BY <1>2, <1>3, <1>4, <1>5 DEF IInv

\* A slot with a job keeps its type when it moves on.
LEMMA SlotRecord ==
  ASSUME IInv, NEW s \in Slot, slot[s].phase \notin {"idle", "claiming"},
         NEW o \in Outcome, NEW p \in Slot \cup {NoSlot}, NEW ph \in Phase,
         NEW k \in {"live", "lapsed"}
  PROVE  /\ slot[s] \in SlotState /\ slot[s].job \in Job
         /\ [slot[s] EXCEPT !.phase = ph] \in SlotState
         /\ [slot[s] EXCEPT !.phase = ph, !.clock = k] \in SlotState
         /\ [slot[s] EXCEPT !.phase = ph, !.outcome = o, !.found = p] \in SlotState
<1>1. slot[s] \in SlotState
  BY DEF IInv, TypeOK
<1>2. slot[s].job \in Job
  BY <1>1 DEF IInv, SlotInv, SlotState
<1> QED BY <1>1, <1>2 DEF SlotState

\* What a slot concludes with is a good outcome of its own claim.
LEMMA Concludes ==
  ASSUME IInv, NEW s \in Slot, slot[s].phase \in {"submitting", "extracting"},
         NEW o \in Outcome, NEW p \in Slot \cup {NoSlot}, Conclude(s, o, p),
         o = "result" => p # NoSlot /\ p = proposal'[slot[s].job],
         proposal' \in [Job -> Slot \cup {NoSlot}],
         \A j \in Job : proposal[j] # NoSlot => proposal'[j] = proposal[j],
         UNCHANGED <<job, due, ahead, request, admission>>
  PROVE  IInv'
<1> DEFINE c == [slot[s] EXCEPT !.phase = "finishing", !.outcome = o, !.found = p]
<1>1. c \in SlotState /\ slot[s] \in SlotState
  BY SlotRecord DEF Phase
<1>2. /\ c.phase = "finishing" /\ c.job = slot[s].job /\ c.attempts = slot[s].attempts
      /\ c.outcome = o /\ c.found = p
  BY <1>1 DEF SlotState
<1>3. slot' = [slot EXCEPT ![s] = c]
  BY DEF Conclude
<1> HIDE DEF c
<1> QED BY <1>1, <1>2, <1>3, Executes

\* The steps of a slot between claim and finish keep the invariant.
LEMMA WorkSteps ==
  ASSUME IInv, NEW s \in Slot, SubmitCheck(s) \/ Persist(s) \/ ExtractFails(s) \/ FinishBegin(s)
  PROVE  IInv'
<1>0. slot[s].phase \notin {"idle", "claiming"}
  BY DEF SubmitCheck, Persist, ExtractFails, FinishBegin
<1>1. slot[s] \in SlotState /\ slot[s].job \in Job
  BY <1>0, SlotRecord DEF Outcome, Phase
<1>2. proposal \in [Job -> Slot \cup {NoSlot}]
  BY DEF IInv, TypeOK
<1>3. CASE SubmitCheck(s)
  <2>1. CASE proposal[slot[s].job] # NoSlot /\ Conclude(s, "result", proposal[slot[s].job])
    BY <1>1, <1>2, <1>3, <2>1, Concludes DEF SubmitCheck, Outcome
  <2>2. CASE slot' = [slot EXCEPT ![s] = [slot[s] EXCEPT !.phase = "extracting"]]
    <3> DEFINE c == [slot[s] EXCEPT !.phase = "extracting"]
    <3>1. c \in SlotState /\ slot[s].outcome # "result"
      BY <1>0, <1>3, SlotRecord DEF IInv, SlotInv, SubmitCheck, Phase, Outcome
    <3>2. /\ c.phase = "extracting" /\ c.job = slot[s].job
          /\ c.attempts = slot[s].attempts /\ c.outcome = slot[s].outcome
      BY <1>1 DEF SlotState
    <3> HIDE DEF c
    <3>3. slot' = [slot EXCEPT ![s] = c]
      BY <2>2 DEF c
    <3> QED BY <1>0, <1>2, <1>3, <3>1, <3>2, <3>3, Executes DEF SubmitCheck
  <2> QED BY <1>3, <2>1, <2>2 DEF SubmitCheck
<1>4. CASE Persist(s)
  <2>1. PICK p \in Slot : p = Stored(slot[s].job, s)
    BY <1>1, <1>2 DEF Stored
  <2>2. proposal' = [proposal EXCEPT ![slot[s].job] = p]
    BY <1>4, <2>1 DEF Persist
  <2>3. p # NoSlot /\ p = proposal'[slot[s].job]
    BY <1>1, <1>2, <2>1, <2>2, JobsAssumption
  <2>4. \A j \in Job : proposal[j] # NoSlot => proposal'[j] = proposal[j]
    BY <1>1, <1>2, <2>1, <2>2 DEF Stored
  <2>5. proposal' \in [Job -> Slot \cup {NoSlot}]
    BY <1>2, <2>2
  <2>6. Conclude(s, "result", p) \/ Conclude(s, "retryable", NoSlot)
    BY <1>4, <2>1 DEF Persist
  <2> QED BY <1>4, <2>3, <2>4, <2>5, <2>6, Concludes DEF Persist, Outcome
<1>5. CASE ExtractFails(s)
  BY <1>2, <1>5, Concludes DEF ExtractFails, Outcome
<1>6. CASE FinishBegin(s)
  <2>1. PICK k \in {"live", "lapsed"} :
          slot' = [slot EXCEPT ![s] = [slot[s] EXCEPT !.phase = "closing", !.clock = k]]
    BY <1>6 DEF FinishBegin
  <2> DEFINE c == [slot[s] EXCEPT !.phase = "closing", !.clock = k]
  <2>2. c \in SlotState
    BY <1>0, SlotRecord DEF Phase, Outcome
  <2>3. /\ c.phase = "closing" /\ c.job = slot[s].job /\ c.attempts = slot[s].attempts
        /\ c.outcome = slot[s].outcome /\ c.found = slot[s].found
    BY <1>1 DEF SlotState
  <2>4. slot' = [slot EXCEPT ![s] = c]
    BY <2>1
  <2> HIDE DEF c
  <2>5. slot[s].outcome = "result" => slot[s].found # NoSlot /\ slot[s].found = proposal[slot[s].job]
    BY DEF IInv, SlotInv
  <2>6. UNCHANGED <<job, due, ahead, proposal, request, admission>>
    BY <1>6 DEF FinishBegin
  <2> QED BY <1>0, <1>2, <2>2, <2>3, <2>4, <2>5, <2>6, Executes
<1> QED BY <1>3, <1>4, <1>5, <1>6

-----------------------------------------------------------------------------
(* Slots that end their work, and time *)

\* A slot that forgets its lease changes no row.
LEMMA Abandons ==
  ASSUME IInv, NEW s \in Slot, Abandon(s)
  PROVE  IInv'
<1>1. \A q \in Slot : slot'[q] = IF q = s THEN Idle ELSE slot[q]
  BY DEF Abandon, IInv, TypeOK
<1>2. TypeOK'
  BY ResetTypes DEF Abandon, IInv, TypeOK
<1>3. RowsGood' /\ RequestInv' /\ ResultInv'
  BY DEF Abandon, IInv, RowsGood, RequestInv, Reviewable, ResultInv
<1>4. SlotInv' /\ TokenInv'
  BY <1>1, JobsAssumption DEF Abandon, IInv, SlotInv, TokenInv, Idle
<1> QED BY <1>2, <1>3, <1>4 DEF IInv

\* Leases that lapse and backoffs that end keep the invariant.
LEMMA TimeSteps ==
  ASSUME IInv, NEW j \in Job, TimeStep(j)
  PROVE  IInv'
<1>1. CASE LeaseExpires(j)
  <2> DEFINE row == [job[j] EXCEPT !.lease = "lapsed"]
  <2>1. job[j] \in GoodRow /\ row \in GoodRow
    BY <1>1, ExpiredRow DEF IInv, RowsGood, LeaseExpires
  <2>2. /\ row.status = job[j].status /\ row.review_retries = job[j].review_retries
        /\ row.token = job[j].token /\ row.attempts = job[j].attempts
        /\ row.result = job[j].result
    BY <2>1 DEF GoodRow, Row
  <2>3. \A k \in Job : job'[k] = IF k = j THEN row ELSE job[k]
    BY <1>1 DEF IInv, TypeOK, LeaseExpires
  <2>4. RowsGood'
    BY <1>1, <2>1 DEF IInv, RowsGood, LeaseExpires
  <2> HIDE DEF row
  <2>5. TypeOK'
    BY <1>1, <2>4 DEF IInv, TypeOK, RowsGood, GoodRow, LeaseExpires
  <2>6. RequestInv'
    BY <1>1, <2>2, <2>3 DEF IInv, RequestInv, Reviewable, LeaseExpires
  <2>7. SlotInv' /\ TokenInv' /\ ResultInv'
    BY <1>1, <2>2, <2>3 DEF IInv, SlotInv, TokenInv, ResultInv, LeaseExpires
  <2> QED BY <2>4, <2>5, <2>6, <2>7 DEF IInv
<1>2. CASE BackoffEnds(j)
  <2>1. TypeOK'
    BY <1>2, DueType DEF IInv, TypeOK, BackoffEnds
  <2> QED BY <1>2, <2>1 DEF IInv, RowsGood, RequestInv, Reviewable, SlotInv, TokenInv, ResultInv,
             BackoffEnds
<1> QED BY <1>1, <1>2 DEF TimeStep

-----------------------------------------------------------------------------
(* Claims and finishes *)

\* The rows a claim recovers are good and keep their counts.
LEMMA RecoveredRows ==
  ASSUME IInv, NEW s \in Slot, NEW j \in Job
  PROVE  /\ Recovered(s)[j] \in GoodRow
         /\ Recovered(s)[j].review_retries = job[j].review_retries
         /\ Recovered(s)[j].attempts = job[j].attempts
         /\ Recovered(s)[j].result = job[j].result
         /\ Recovered(s)[j].token \in {job[j].token, NoSlot}
         /\ job[j].status # "running" => Recovered(s)[j] = job[j]
<1>1. job[j] \in GoodRow
  BY DEF IInv, RowsGood
<1>2. CASE j \in slot[s].lapsed \cap Lapsed
  <2>1. Recovered(s)[j] = Recover(job[j]) /\ job[j].status = "running"
    BY <1>2 DEF Recovered, Lapsed, Running, InStatus
  <2>2. Recover(job[j]) \in GoodRow
    BY <1>1, <2>1, RecoveredRow
  <2> QED BY <1>1, <2>1, <2>2 DEF Recover, GoodRow, Row
<1>3. CASE j \notin slot[s].lapsed \cap Lapsed
  BY <1>1, <1>3 DEF Recovered
<1> QED BY <1>2, <1>3

\* A claim, with the recovery before it, keeps the invariant.
LEMMA ClaimCommits ==
  ASSUME IInv, NEW s \in Slot, ClaimCommit(s)
  PROVE  IInv'
<1>1. /\ slot[s].phase = "claiming" /\ admission = s
      /\ \A q \in Slot \ {s} : slot[q].phase # "claiming"
      /\ \A r \in Request : request[r].op \notin {"enqueue", "review"}
  BY JobsAssumption DEF ClaimCommit, IInv, SlotInv, RequestInv
<1>2. \A j \in Job : Recovered(s)[j] \in GoodRow
  BY RecoveredRows
<1>3. Recovered(s) \in [Job -> GoodRow]
  BY <1>2 DEF Recovered
<1>4. CASE ClaimNothing(s)
  <2>1. job' = Recovered(s) /\ UNCHANGED <<due, ahead, proposal, request>>
    BY <1>4 DEF ClaimNothing
  <2>2. \A q \in Slot : slot'[q] = IF q = s THEN Idle ELSE slot[q]
    BY <1>4 DEF ClaimNothing, IInv, TypeOK
  <2>3. RowsGood'
    BY <1>3, <2>1 DEF RowsGood
  <2>4. TypeOK'
    BY <1>4, <2>3, ResetTypes DEF ClaimNothing, ReleaseAdmission, IInv, TypeOK, RowsGood, GoodRow
  <2>5. RequestInv'
    BY <1>1, <2>1, RecoveredRows DEF IInv, RequestInv, Waiting
  <2>6. SlotInv'
    BY <1>1, <2>1, <2>2 DEF IInv, SlotInv, Idle
  <2>7. TokenInv' /\ ResultInv'
    BY <2>1, <2>2, RecoveredRows, JobsAssumption DEF IInv, TokenInv, ResultInv, Idle
  <2> QED BY <2>3, <2>4, <2>5, <2>6, <2>7 DEF IInv
<1>5. ASSUME NEW j \in Job, ClaimRow(s, j)
      PROVE  IInv'
  <2>1. /\ job[j].status \in Waiting /\ job[j].attempts < MaxAttempts /\ ~RowLocked(j)
        /\ job[j] \in GoodRow
    BY <1>5 DEF ClaimRow, Oldest, Claimable, IInv, RowsGood
  <2> DEFINE row == Claimed(job[j], s)
             c   == [Idle EXCEPT !.phase = "submitting", !.job = j, !.attempts = job[j].attempts + 1]
  <2>2. row \in GoodRow
    BY <2>1, ClaimedRow
  <2>3. row.token = s /\ row.attempts = job[j].attempts + 1 /\ row.result = NoSlot
    BY <2>1 DEF Claimed, GoodRow, Row, Waiting
  <2>4. c \in SlotState
    <3>1. job[j].attempts + 1 \in 0..MaxAttempts
      BY <2>1, JobsAssumption DEF GoodRow, Row
    <3>2. Idle \in SlotState
      BY ResetTypes
    <3> QED BY <3>1, <3>2 DEF SlotState, Phase
  <2>5. /\ c.phase = "submitting" /\ c.job = j /\ c.outcome = "none"
        /\ c.attempts = job[j].attempts + 1
    BY DEF Idle
  <2>6. job' = [Recovered(s) EXCEPT ![j] = row] /\ slot' = [slot EXCEPT ![s] = c]
    BY <1>5 DEF ClaimRow
  <2> HIDE DEF row, c
  <2>7. /\ \A k \in Job : job'[k] = IF k = j THEN row ELSE Recovered(s)[k]
        /\ \A q \in Slot : slot'[q] = IF q = s THEN c ELSE slot[q]
        /\ UNCHANGED <<proposal, request>>
    BY <1>3, <1>5, <2>6 DEF ClaimRow, IInv, TypeOK
  <2>8. RowsGood'
    BY <1>3, <2>2, <2>6 DEF RowsGood
  <2>9. TypeOK'
    BY <1>5, <2>4, <2>6, <2>8, DueType DEF ClaimRow, ReleaseAdmission, IInv, TypeOK, RowsGood, GoodRow
  <2>10. RequestInv'
    <3>1. \A r \in Request : request[r].op = "cancel" => request[r].job # j
      BY <2>1, Locked DEF IInv
    <3> QED BY <1>1, <2>7, <3>1, RecoveredRows DEF IInv, RequestInv, Waiting
  <2>11. SlotInv'
    BY <1>1, <2>5, <2>7, JobsAssumption DEF IInv, SlotInv
  <2>12. TokenInv'
    BY <2>3, <2>5, <2>7, RecoveredRows, JobsAssumption DEF IInv, TokenInv
  <2>13. ResultInv'
    BY <2>3, <2>7, RecoveredRows DEF IInv, ResultInv
  <2> QED BY <2>8, <2>9, <2>10, <2>11, <2>12, <2>13 DEF IInv
<1> QED BY <1>4, <1>5 DEF ClaimCommit

\* A finish keeps the invariant, fenced off or not.
LEMMA FinishCommits ==
  ASSUME IInv, NEW s \in Slot, FinishCommit(s)
  PROVE  IInv'
<1> DEFINE j == slot[s].job
<1>1. slot[s] \in SlotState /\ j \in Job /\ job[j] \in GoodRow
  BY DEF FinishCommit, IInv, TypeOK, RowsGood, SlotInv, SlotState
<1>2. /\ \A q \in Slot : slot'[q] = IF q = s THEN Idle ELSE slot[q]
      /\ UNCHANGED <<due, ahead, proposal, request, admission>>
  BY DEF FinishCommit, IInv, TypeOK
<1>3. SlotInv'
  BY <1>2 DEF FinishCommit, IInv, SlotInv, Idle
<1>4. CASE ~HoldsLease(s)
  <2>1. job' = job
    BY <1>4 DEF FinishCommit
  <2>2. TypeOK'
    BY <1>2, <2>1, ResetTypes DEF FinishCommit, IInv, TypeOK
  <2> QED BY <1>2, <1>3, <2>1, <2>2, JobsAssumption
        DEF IInv, RowsGood, RequestInv, Reviewable, TokenInv, ResultInv, Idle
<1>5. CASE HoldsLease(s)
  <2> DEFINE row == Finished(job[j], slot[s].outcome, slot[s].found)
  <2>1. job[j].status = "running" /\ job' = [job EXCEPT ![j] = row]
    BY <1>5 DEF FinishCommit, HoldsLease
  <2>2. row \in GoodRow
    BY <1>1, <2>1, FinishedRow DEF IInv, SlotInv, SlotState
  <2>3. row.token = NoSlot /\ (row.result # NoSlot => row.result = proposal[j])
    BY <1>1, <2>1 DEF Finished, GoodRow, Row, IInv, SlotInv
  <2> HIDE DEF row
  <2>4. \A k \in Job : job'[k] = IF k = j THEN row ELSE job[k]
    BY <2>1 DEF IInv, TypeOK
  <2>5. RowsGood'
    BY <2>1, <2>2 DEF IInv, RowsGood
  <2>6. TypeOK'
    BY <1>2, <2>5, ResetTypes DEF FinishCommit, IInv, TypeOK, RowsGood, GoodRow
  <2>7. RequestInv'
    BY <1>2, <2>1, <2>4 DEF IInv, RequestInv, Reviewable, Waiting
  <2>8. TokenInv' /\ ResultInv'
    BY <1>2, <2>3, <2>4, JobsAssumption DEF IInv, TokenInv, ResultInv, Idle
  <2> QED BY <1>3, <2>5, <2>6, <2>7, <2>8 DEF IInv
<1> QED BY <1>4, <1>5

-----------------------------------------------------------------------------
(* Theorems *)

\* Every step keeps the invariant.
LEMMA Induction == IInv /\ [Next]_vars => IInv'
<1> SUFFICES ASSUME IInv, [Next]_vars PROVE IInv'
  OBVIOUS
<1>1. CASE UNCHANGED vars
  BY <1>1 DEF vars, IInv, TypeOK, RowsGood, RequestInv, Reviewable, SlotInv, TokenInv, ResultInv
<1>2. CASE \E r \in Request : RequestStep(r)
  BY <1>2, RequestBegins, RequestCommits DEF RequestStep
<1>3. CASE \E s \in Slot : SlotStep(s)
  BY <1>3, ClaimBegins, ClaimCommits, WorkSteps, FinishCommits, Abandons DEF SlotStep
<1>4. CASE \E j \in Job : TimeStep(j)
  BY <1>4, TimeSteps
<1> QED BY <1>1, <1>2, <1>3, <1>4 DEF Next

\* The invariant holds in every reachable state.
THEOREM Invariance == Spec => []IInv
BY InitInv, Induction, PTL DEF Spec

\* Every column and every piece of worker state stays in its domain; for
\* review_retries this is the CHECK constraint that review_retry() must not hit.
THEOREM Typed == Spec => []TypeOK
<1>1. IInv => TypeOK
  BY DEF IInv
<1> QED BY <1>1, Invariance, PTL

\* A token stands for the latest claim of its row: the fence of finish().
THEOREM Fence == Spec => []LeaseIsLatest
<1>1. IInv => LeaseIsLatest
  BY DEF IInv, RowsGood, GoodRow, TokenInv, LeaseIsLatest
<1> QED BY <1>1, Invariance, PTL

\* The note is there for every attempt still to come, and gone afterwards.
THEOREM NoteKept == Spec => []PayloadKeptWhileNeeded
<1>1. IInv => PayloadKeptWhileNeeded
  BY DEF IInv, RowsGood, GoodRow, PayloadKeptWhileNeeded
<1> QED BY <1>1, Invariance, PTL

\* A succeeded job shows the one proposal of its raw event.
THEOREM ResultShown == Spec => []ResultIsTheProposal
<1>1. IInv => ResultIsTheProposal
  BY DEF IInv, RowsGood, GoodRow, ResultInv, ResultIsTheProposal
<1> QED BY <1>1, Invariance, PTL

-----------------------------------------------------------------------------
(* What a step may never do *)

\* Which rows a step may change, and how: a request the row it has locked, a
\* claim or a finish a row that is running or a waiting row that it claims.
LEMMA RowChanges ==
  ASSUME IInv, Next, NEW j \in Job, job'[j] # job[j]
  PROVE  \/ /\ job[j].status \in {"absent", "dead_letter"}
            /\ \E r \in Request : request[r].job = j /\ (EnqueueCommit(r) \/ ReviewCommit(r))
         \/ job[j].status \in Waiting /\ job'[j].status = "cancelled"
         \/ job[j].status \in Waiting /\ \E s \in Slot : ClaimCommit(s) /\ ClaimRow(s, j)
         \/ job[j].status = "running" /\ job'[j].status = "running" /\ job'[j].lease = "lapsed"
         \/ job[j].lease = "lapsed" /\ job'[j].status \in {"retry_wait", "dead_letter"}
         \/ \E s \in Slot : FinishCommit(s) /\ slot[s].job = j /\ HoldsLease(s)
<1>0. job[j] \in GoodRow /\ job \in [Job -> Row]
  BY DEF IInv, RowsGood, TypeOK
<1>1. CASE \E r \in Request : RequestStep(r)
  <2>1. PICK r \in Request : EnqueueCommit(r) \/ ReviewCommit(r) \/ CancelCommit(r)
    BY <1>1 DEF RequestStep, EnqueueBegin, ReviewBegin, CancelBegin
  <2>2. CASE EnqueueCommit(r)
    BY <1>0, <2>2 DEF EnqueueCommit
  <2>3. CASE ReviewCommit(r)
    BY <1>0, <2>3 DEF ReviewCommit, IInv, RequestInv, Reviewable
  <2>4. CASE CancelCommit(r)
    <3>1. j = request[r].job /\ job'[j] = Cancelled(job[j]) /\ job[j].status \in Waiting
      BY <1>0, <2>4 DEF CancelCommit, IInv, RequestInv
    <3> QED BY <1>0, <3>1 DEF Cancelled, GoodRow, Row
  <2> QED BY <2>1, <2>2, <2>3, <2>4
<1>2. CASE \E s \in Slot : SlotStep(s)
  <2>1. PICK s \in Slot : ClaimCommit(s) \/ FinishCommit(s)
    BY <1>2 DEF SlotStep, ClaimBegin, SubmitCheck, Persist, ExtractFails, FinishBegin, Abandon
  <2>2. CASE FinishCommit(s)
    BY <1>0, <2>2 DEF FinishCommit
  <2>3. ASSUME job'[j] = Recovered(s)[j]
        PROVE  job[j].lease = "lapsed" /\ job'[j].status \in {"retry_wait", "dead_letter"}
    BY <1>0, <2>3 DEF Recovered, Recover, Lapsed, GoodRow, Row
  <2>4. CASE ClaimNothing(s)
    BY <2>3, <2>4 DEF ClaimNothing
  <2>5. ASSUME NEW k \in Job, ClaimRow(s, k)
        PROVE  \/ j = k /\ job[j].status \in Waiting
               \/ job[j].lease = "lapsed" /\ job'[j].status \in {"retry_wait", "dead_letter"}
    <3>1. job' = [Recovered(s) EXCEPT ![k] = Claimed(job[k], s)] /\ job[k].status \in Waiting
      BY <2>5 DEF ClaimRow, Oldest, Claimable
    <3>2. CASE j # k
      BY <2>3, <3>1, <3>2 DEF Recovered
    <3> QED BY <3>1, <3>2
  <2> QED BY <2>1, <2>2, <2>4, <2>5 DEF ClaimCommit
<1>3. CASE \E k \in Job : TimeStep(k)
  <2>1. PICK k \in Job : LeaseExpires(k)
    BY <1>3 DEF TimeStep, BackoffEnds
  <2>2. j = k /\ job'[j] = [job[j] EXCEPT !.lease = "lapsed"] /\ job[j].lease = "live"
    BY <1>0, <2>1 DEF LeaseExpires
  <2> QED BY <1>0, <2>2 DEF GoodRow, Row
<1> QED BY <1>1, <1>2, <1>3 DEF Next

-----------------------------------------------------------------------------
(* The bounds *)

(* What a transaction under the admission lock has counted stays an upper    *)
(* bound until it commits, because nobody else adds rows meanwhile.          *)
CapacityInv ==
  /\ \A r \in Request :
       request[r].op \in {"enqueue", "review"} => HasCapacity(OwnerOf[request[r].job])
  /\ \A s \in Slot : slot[s].phase = "claiming" =>
       /\ slot[s].lapsed \cap Running \subseteq Lapsed
       /\ slot[s].room = "free" => Cardinality(Running \ slot[s].lapsed) < Concurrency

BoundInv == CapacityInv /\ BoundedConcurrency /\ BoundedQueue

\* A subset of the jobs has no more elements.
LEMMA Smaller ==
  ASSUME NEW S \in SUBSET Job, NEW T \in SUBSET S
  PROVE  Cardinality(T) \in Nat /\ Cardinality(S) \in Nat /\ Cardinality(T) <= Cardinality(S)
BY JobsAssumption, FS_Subset, FS_CardinalityType

\* One more job adds at most one.
LEMMA OneMore ==
  ASSUME NEW S \in SUBSET Job, NEW T \in SUBSET Job, NEW j, T \subseteq S \cup {j}
  PROVE  Cardinality(T) <= Cardinality(S) + 1
<1>1. IsFiniteSet(S) /\ IsFiniteSet(S \cup {j})
  BY JobsAssumption, FS_Subset, FS_AddElement
<1>2. Cardinality(S \cup {j}) <= Cardinality(S) + 1
  BY <1>1, FS_AddElement, FS_CardinalityType
<1>3. Cardinality(T) <= Cardinality(S \cup {j})
  BY <1>1, FS_Subset
<1> QED BY <1>1, <1>2, <1>3, FS_CardinalityType, FS_Subset

\* What is counted are sets of jobs.
LEMMA CountedSets ==
  /\ Running \in SUBSET Job /\ Pending \in SUBSET Job
  /\ Running' \in SUBSET Job /\ Pending' \in SUBSET Job
BY DEF Running, Pending, InStatus

\* As long as no row becomes pending, every count under its limit stays there.
LEMMA QueueShrinks ==
  ASSUME Pending' \subseteq Pending
  PROVE  /\ BoundedQueue => BoundedQueue'
         /\ \A o : HasCapacity(o) => HasCapacity(o)'
<1>1. Cardinality(Pending') <= Cardinality(Pending)
      /\ Cardinality(Pending') \in Nat /\ Cardinality(Pending) \in Nat
  BY CountedSets, Smaller
<1>2. \A o : /\ Cardinality(Pending' \cap OwnedBy(o)) <= Cardinality(Pending \cap OwnedBy(o))
             /\ Cardinality(Pending' \cap OwnedBy(o)) \in Nat
             /\ Cardinality(Pending \cap OwnedBy(o)) \in Nat
  BY CountedSets, Smaller
<1>3. MaxPending \in Int /\ MaxPendingPerOwner \in Int
  BY JobsAssumption
<1>4. ASSUME NEW o, HasCapacity(o)
      PROVE  HasCapacity(o)'
  <2>1. /\ Cardinality(Pending') < MaxPending
        /\ Cardinality(Pending' \cap OwnedBy(o)) < MaxPendingPerOwner
    BY <1>1, <1>2, <1>3, <1>4 DEF HasCapacity
  <2> QED BY <2>1 DEF HasCapacity, OwnedBy
<1>5. ASSUME BoundedQueue
      PROVE  BoundedQueue'
  <2>1. Cardinality(Pending') <= MaxPending
    BY <1>1, <1>3, <1>5 DEF BoundedQueue
  <2>2. ASSUME NEW o \in Owner
        PROVE  Cardinality(Pending' \cap OwnedBy(o)) <= MaxPendingPerOwner
    <3>1. Cardinality(Pending \cap OwnedBy(o)) <= MaxPendingPerOwner
      BY <1>5 DEF BoundedQueue
    <3> QED BY <1>2, <1>3, <3>1
  <2> QED BY <2>1, <2>2 DEF BoundedQueue, OwnedBy
<1> QED BY <1>4, <1>5

\* But for claims and new or retried jobs no step raises what is bounded.
LEMMA BoundsStay ==
  ASSUME IInv, Next, BoundInv,
         \A s \in Slot, j \in Job : ~(ClaimCommit(s) /\ ClaimRow(s, j)),
         \A r \in Request : ~(EnqueueCommit(r) \/ ReviewCommit(r))
  PROVE  /\ Running' \subseteq Running /\ Running' \cap Lapsed \subseteq Lapsed'
         /\ Pending' \subseteq Pending
<1>0. \A j \in Job : job[j] \in GoodRow
  BY DEF IInv, RowsGood
<1> SUFFICES ASSUME NEW j \in Job
             PROVE  /\ j \in Running' => j \in Running /\ (j \in Lapsed => j \in Lapsed')
                    /\ j \in Pending' => j \in Pending
  BY DEF Running, Pending, InStatus
<1>1. CASE job'[j] = job[j]
  BY <1>1 DEF Running, Pending, Lapsed, InStatus
<1>2. CASE job'[j] # job[j]
  <2>1. \/ job'[j].status = "cancelled"
        \/ job[j].status = "running" /\ job'[j].status = "running" /\ job'[j].lease = "lapsed"
        \/ job[j].lease = "lapsed" /\ job'[j].status \in {"retry_wait", "dead_letter"}
        \/ \E s \in Slot : FinishCommit(s) /\ slot[s].job = j /\ HoldsLease(s)
    BY <1>2, RowChanges
  <2>2. ASSUME NEW s \in Slot, FinishCommit(s), slot[s].job = j, HoldsLease(s)
        PROVE  job[j].status = "running" /\ job'[j].status # "running"
    <3>1. job[j].status = "running"
      BY <2>2 DEF HoldsLease
    <3>2. slot[s].found \in Slot \cup {NoSlot} /\ (slot[s].outcome = "result" => slot[s].found # NoSlot)
      BY DEF IInv, SlotInv, TypeOK, SlotState
    <3>3. Finished(job[j], slot[s].outcome, slot[s].found).status # "running"
      BY <1>0, <3>1, <3>2, FinishedRow
    <3>4. job'[j] = Finished(job[j], slot[s].outcome, slot[s].found)
      BY <2>2 DEF FinishCommit, IInv, TypeOK
    <3> QED BY <3>1, <3>3, <3>4
  <2>3. job[j].lease = "lapsed" => job[j].status = "running"
    BY <1>0 DEF GoodRow
  <2> QED BY <2>1, <2>2, <2>3 DEF Running, Pending, Lapsed, InStatus, Active
<1> QED BY <1>1, <1>2

\* An empty queue is within the bounds.
LEMMA BoundInit == Init => BoundInv
<1> SUFFICES ASSUME Init PROVE BoundInv
  OBVIOUS
<1>1. Running = {} /\ Pending = {} /\ \A o : Pending \cap OwnedBy(o) = {}
  BY DEF Init, Running, Pending, InStatus, Absent, Active
<1>2. BoundedConcurrency /\ BoundedQueue
  BY <1>1, FS_EmptySet, JobsAssumption DEF BoundedConcurrency, BoundedQueue
<1>3. CapacityInv
  BY DEF Init, CapacityInv, NoRequest, Idle
<1> QED BY <1>2, <1>3 DEF BoundInv

\* The only step that makes a row run counted the others under the lock.
LEMMA ClaimBound ==
  ASSUME IInv, BoundInv, NEW s \in Slot, NEW j \in Job, ClaimCommit(s), ClaimRow(s, j)
  PROVE  BoundedConcurrency' /\ Pending' \subseteq Pending
<1>1. \A k \in Job : job[k] \in GoodRow /\ job'[k] = IF k = j THEN Claimed(job[j], s)
        ELSE Recovered(s)[k]
  BY DEF IInv, RowsGood, ClaimRow, Recovered
<1>2. job[j].status \in Waiting
  BY DEF ClaimRow, Oldest, Claimable
<1>3. \A k \in Job :
        /\ job[k].status = "running" /\ k \in slot[s].lapsed => Recovered(s)[k].status # "running"
        /\ job[k].status # "running" => Recovered(s)[k] = job[k]
  <2> SUFFICES ASSUME NEW k \in Job, job[k].status = "running", k \in slot[s].lapsed
               PROVE  Recovered(s)[k].status # "running"
    BY RecoveredRows
  <2>1. k \in Lapsed
    BY DEF BoundInv, CapacityInv, ClaimCommit, Running, InStatus
  <2>2. Recovered(s)[k] = Recover(job[k])
    BY <2>1 DEF Recovered
  <2> QED BY <1>1, <2>2 DEF Recover, GoodRow, Row
<1>4. Running' \subseteq (Running \ slot[s].lapsed) \cup {j}
  BY <1>1, <1>3 DEF Running, InStatus
<1>5. Cardinality(Running \ slot[s].lapsed) < Concurrency
  BY DEF BoundInv, CapacityInv, ClaimCommit, ClaimRow
<1>6. Running \ slot[s].lapsed \in SUBSET Job
  BY CountedSets
<1>7. Cardinality(Running') <= Cardinality(Running \ slot[s].lapsed) + 1
  BY <1>4, <1>6, CountedSets, OneMore
<1>8. Cardinality(Running') \in Nat /\ Cardinality(Running \ slot[s].lapsed) \in Nat
        /\ Concurrency \in Nat
  BY <1>6, CountedSets, Smaller, JobsAssumption
<1>9. Pending' \subseteq Pending
  BY <1>1, <1>2, <1>3 DEF Pending, Running, InStatus, Active, Waiting
<1> QED BY <1>5, <1>7, <1>8, <1>9 DEF BoundedConcurrency

\* The only steps that add a row counted the others under the lock.
LEMMA AddBound ==
  ASSUME IInv, BoundInv, Next, NEW r \in Request, EnqueueCommit(r) \/ ReviewCommit(r)
  PROVE  BoundedQueue' /\ Running' \subseteq Running
<1> DEFINE j == request[r].job
<1>1. j \in Job /\ HasCapacity(OwnerOf[j])
  BY DEF EnqueueCommit, ReviewCommit, IInv, RequestInv, BoundInv, CapacityInv
<1>2. \A k \in Job : k # j => job'[k] = job[k]
  BY DEF EnqueueCommit, ReviewCommit, IInv, TypeOK
<1>3. job'[j].status # "running"
  <2>1. CASE EnqueueCommit(r)
    BY <1>1, <2>1 DEF EnqueueCommit, IInv, TypeOK, Enqueued, Absent
  <2>2. CASE ReviewCommit(r)
    <3>1. job'[j] = Reviewed(job[j]) /\ job[j] \in GoodRow
      BY <1>1, <2>2 DEF ReviewCommit, IInv, TypeOK, RowsGood
    <3>2. Reviewed(job[j]).status = "queued"
      BY <3>1 DEF Reviewed, GoodRow, Row
    <3> QED BY <3>1, <3>2
  <2> QED BY <2>1, <2>2
<1>4. Running' \subseteq Running /\ Pending' \subseteq Pending \cup {j}
  BY <1>2, <1>3 DEF Running, Pending, InStatus
<1>5. Cardinality(Pending') <= MaxPending
  <2>1. Cardinality(Pending') <= Cardinality(Pending) + 1
    BY <1>4, CountedSets, OneMore
  <2> QED BY <1>1, <2>1, CountedSets, Smaller, JobsAssumption DEF HasCapacity
<1>6. ASSUME NEW o \in Owner
      PROVE  Cardinality(Pending' \cap OwnedBy(o)) <= MaxPendingPerOwner
  <2> DEFINE S == Pending \cap OwnedBy(o)
             T == Pending' \cap OwnedBy(o)
  <2>1. S \in SUBSET Job /\ T \in SUBSET Job
    BY CountedSets
  <2>2. Cardinality(S) \in Nat /\ Cardinality(T) \in Nat
    BY <2>1, Smaller
  <2>3. CASE o = OwnerOf[j]
    <3>1. T \subseteq S \cup {j}
      BY <1>4
    <3>2. Cardinality(T) <= Cardinality(S) + 1
      BY <2>1, <3>1, OneMore
    <3>3. Cardinality(S) < MaxPendingPerOwner
      BY <1>1, <2>3 DEF HasCapacity
    <3> QED BY <2>2, <3>2, <3>3, JobsAssumption
  <2>4. CASE o # OwnerOf[j]
    <3>1. T \subseteq S
      BY <1>4, <2>4 DEF OwnedBy
    <3>2. Cardinality(T) <= Cardinality(S)
      BY <2>1, <3>1, Smaller
    <3>3. Cardinality(S) <= MaxPendingPerOwner
      BY DEF BoundInv, BoundedQueue
    <3> QED BY <2>2, <3>2, <3>3, JobsAssumption
  <2> QED BY <2>3, <2>4
<1>7. BoundedQueue'
  BY <1>5, <1>6 DEF BoundedQueue, OwnedBy
<1> QED BY <1>4, <1>7

\* A request that is still open after a step has just counted, or held the lock.
LEMMA RequestCapacity ==
  ASSUME IInv, BoundInv, Next, NEW r \in Request, request'[r].op \in {"enqueue", "review"}
  PROVE  HasCapacity(OwnerOf[request[r].job])'
<1>1. CASE \E j \in Job : EnqueueBegin(r, j) \/ ReviewBegin(r, j)
  <2>1. PICK j \in Job : EnqueueBegin(r, j) \/ ReviewBegin(r, j)
    BY <1>1
  <2>2. HasCapacity(OwnerOf[j]) /\ job' = job /\ request'[r].job = j
    BY <2>1 DEF EnqueueBegin, ReviewBegin, IInv, TypeOK
  <2>3. Pending' = Pending
    BY <2>2 DEF Pending, InStatus
  <2>4. PICK o : o = OwnerOf[j]
    OBVIOUS
  <2>5. HasCapacity(o)'
    BY <2>2, <2>3, <2>4, QueueShrinks
  <2> QED BY <2>2, <2>4, <2>5
<1>2. CASE ~ \E j \in Job : EnqueueBegin(r, j) \/ ReviewBegin(r, j)
  <2>1. request'[r] = request[r]
    <3>1. CASE \E q \in Request : RequestStep(q)
      <4>1. PICK q \in Request : RequestStep(q)
        BY <3>1
      <4>2. CASE q # r
        BY <4>1, <4>2 DEF RequestStep, EnqueueBegin, EnqueueCommit, ReviewBegin, ReviewCommit,
             CancelBegin, CancelCommit, IInv, TypeOK
      <4>3. CASE EnqueueCommit(r) \/ ReviewCommit(r) \/ CancelCommit(r)
        BY <4>3 DEF EnqueueCommit, ReviewCommit, CancelCommit, NoRequest, IInv, TypeOK
      <4>4. CASE \E j \in Job : CancelBegin(r, j)
        BY <4>4 DEF CancelBegin, IInv, TypeOK
      <4> QED BY <1>2, <4>1, <4>2, <4>3, <4>4 DEF RequestStep
    <3>2. CASE UNCHANGED request
      BY <3>2
    <3>3. \/ \E q \in Request : RequestStep(q)
          \/ UNCHANGED request
      BY DEF Next, SlotStep, ClaimBegin, ClaimCommit, ClaimNothing, ClaimRow, SubmitCheck, Persist,
           ExtractFails, FinishBegin, FinishCommit, Abandon, TimeStep, LeaseExpires, BackoffEnds
    <3> QED BY <3>1, <3>2, <3>3
  <2>2. admission = r /\ HasCapacity(OwnerOf[request[r].job])
    BY <2>1 DEF IInv, RequestInv, BoundInv, CapacityInv
  <2>3. \A q \in Request : ~(EnqueueCommit(q) \/ ReviewCommit(q))
    BY <2>1, <2>2 DEF IInv, TypeOK, RequestInv, EnqueueCommit, ReviewCommit, NoRequest
  <2>4. Pending' \subseteq Pending
    BY <2>3, BoundsStay, ClaimBound
  <2>5. PICK o : o = OwnerOf[request[r].job]
    OBVIOUS
  <2>6. HasCapacity(o)'
    BY <2>2, <2>4, <2>5, QueueShrinks
  <2> QED BY <2>1, <2>5, <2>6
<1> QED BY <1>1, <1>2

\* Only ClaimBegin brings a slot into phase "claiming".
LEMMA SlotMoves ==
  ASSUME IInv, NEW s \in Slot
  PROVE  /\ ClaimCommit(s) => slot[s].phase = "claiming" /\ slot'[s].phase # "claiming"
         /\ SlotStep(s) => ClaimBegin(s) \/ slot'[s].phase # "claiming"
         /\ SlotStep(s) => \A q \in Slot \ {s} : slot'[q] = slot[q]
<1>0. slot \in [Slot -> SlotState]
  BY DEF IInv, TypeOK
<1>1. ClaimCommit(s) => slot[s].phase = "claiming" /\ slot'[s].phase # "claiming"
  <2>1. ClaimNothing(s) => slot'[s].phase = "idle"
    BY <1>0 DEF ClaimNothing, Idle
  <2>2. ASSUME NEW j \in Job, ClaimRow(s, j)
        PROVE  slot'[s].phase = "submitting"
    BY <1>0, <2>2 DEF ClaimRow, Idle
  <2> QED BY <2>1, <2>2 DEF ClaimCommit
<1>2. FinishCommit(s) \/ Abandon(s) => slot'[s].phase # "claiming"
  BY <1>0 DEF FinishCommit, Abandon, Idle
<1>3. ASSUME NEW o, NEW p, Conclude(s, o, p)
      PROVE  slot'[s].phase # "claiming"
  <2> DEFINE c == [slot[s] EXCEPT !.phase = "finishing", !.outcome = o, !.found = p]
  <2>1. slot[s] \in SlotState
    BY <1>0
  <2>2. c.phase = "finishing"
    BY <2>1 DEF SlotState
  <2>3. slot'[s] = c
    BY <1>0, <1>3 DEF Conclude
  <2> QED BY <2>2, <2>3
<1>4. SubmitCheck(s) \/ Persist(s) \/ ExtractFails(s) \/ FinishBegin(s) => slot'[s].phase # "claiming"
  <2>1. SubmitCheck(s) => slot'[s].phase # "claiming"
    BY <1>0, <1>3 DEF SubmitCheck, SlotState
  <2>2. FinishBegin(s) => slot'[s].phase # "claiming"
    BY <1>0 DEF FinishBegin, SlotState
  <2> QED BY <2>1, <2>2, <1>3 DEF Persist, ExtractFails
<1>5. SlotStep(s) => \A q \in Slot \ {s} : slot'[q] = slot[q]
  BY <1>0 DEF SlotStep, ClaimBegin, ClaimCommit, ClaimNothing, ClaimRow, SubmitCheck,
       Persist, ExtractFails, Conclude, FinishBegin, FinishCommit, Abandon
<1> QED BY <1>1, <1>2, <1>4, <1>5 DEF SlotStep

\* What a claim has read stays true until it commits: its room was not taken,
\* and the leases that had lapsed have not come back.
LEMMA ClaimCapacity ==
  ASSUME IInv, BoundInv, Next, NEW s \in Slot, slot'[s].phase = "claiming"
  PROVE  /\ slot'[s].lapsed \cap Running' \subseteq Lapsed'
         /\ slot'[s].room = "free" => Cardinality(Running' \ slot'[s].lapsed) < Concurrency
<1>1. CASE ClaimBegin(s)
  <2>1. /\ job' = job /\ slot'[s].lapsed = Lapsed
        /\ slot'[s].room = "free" => Cardinality(Running \ Lapsed) < Concurrency
    BY <1>1 DEF ClaimBegin, Idle, IInv, TypeOK
  <2>2. Running' = Running /\ Lapsed' = Lapsed
    BY <2>1 DEF Running, Lapsed, InStatus
  <2> QED BY <2>1, <2>2
<1>2. CASE ~ClaimBegin(s)
  <2>1. slot'[s] = slot[s] /\ ~ClaimCommit(s)
    <3>1. CASE UNCHANGED slot
      BY <3>1, SlotMoves
    <3>2. CASE \E q \in Slot : SlotStep(q)
      BY <1>2, <3>2, SlotMoves DEF IInv, TypeOK
    <3>3. UNCHANGED slot \/ \E q \in Slot : SlotStep(q)
      BY DEF Next, RequestStep, EnqueueBegin, EnqueueCommit, ReviewBegin, ReviewCommit,
         CancelBegin, CancelCommit, TimeStep, LeaseExpires, BackoffEnds
    <3> QED BY <3>1, <3>2, <3>3
  <2>2. /\ admission = s /\ slot[s].lapsed \cap Running \subseteq Lapsed
        /\ slot[s].room = "free" => Cardinality(Running \ slot[s].lapsed) < Concurrency
    BY <2>1 DEF IInv, SlotInv, BoundInv, CapacityInv
  <2>3. \A q \in Slot, j \in Job : ~(ClaimCommit(q) /\ ClaimRow(q, j))
    BY <2>1, <2>2 DEF IInv, SlotInv, ClaimCommit
  <2>4. \A q \in Request : ~(EnqueueCommit(q) \/ ReviewCommit(q))
    BY <2>2, JobsAssumption DEF IInv, RequestInv, EnqueueCommit, ReviewCommit
  <2>5. Running' \subseteq Running /\ Running' \cap Lapsed \subseteq Lapsed'
    BY <2>3, <2>4, BoundsStay
  <2>6. Cardinality(Running' \ slot[s].lapsed) <= Cardinality(Running \ slot[s].lapsed)
        /\ Cardinality(Running' \ slot[s].lapsed) \in Nat
        /\ Cardinality(Running \ slot[s].lapsed) \in Nat
    BY <2>5, CountedSets, Smaller
  <2> QED BY <2>1, <2>2, <2>5, <2>6, JobsAssumption
<1> QED BY <1>1, <1>2

\* Every step keeps within the bounds.
LEMMA BoundStep == IInv /\ BoundInv /\ [Next]_vars => BoundInv'
<1> SUFFICES ASSUME IInv, BoundInv, [Next]_vars PROVE BoundInv'
  OBVIOUS
<1>1. CASE UNCHANGED vars
  BY <1>1 DEF vars, BoundInv, CapacityInv, BoundedConcurrency, BoundedQueue, HasCapacity,
       Running, Pending, Lapsed, InStatus, OwnedBy
<1>2. CASE Next
  <2>1. CapacityInv'
    BY <1>2, RequestCapacity, ClaimCapacity DEF CapacityInv
  <2>2. Running' \subseteq Running => BoundedConcurrency'
    <3>1. Cardinality(Running) <= Concurrency
      BY DEF BoundInv, BoundedConcurrency
    <3> QED BY <3>1, CountedSets, Smaller, JobsAssumption DEF BoundedConcurrency
  <2>3. Pending' \subseteq Pending => BoundedQueue'
    BY QueueShrinks DEF BoundInv
  <2>4. BoundedConcurrency' /\ BoundedQueue'
    BY <1>2, <2>2, <2>3, AddBound, ClaimBound, BoundsStay
  <2> QED BY <2>1, <2>4 DEF BoundInv
<1> QED BY <1>1, <1>2

\* No more rows run than the configured concurrency, over all worker processes.
THEOREM ConcurrencyBounded == Spec => []BoundedConcurrency
<1>1. BoundInv => BoundedConcurrency
  BY DEF BoundInv
<1> QED BY <1>1, BoundInit, BoundStep, Invariance, PTL DEF Spec

\* No more rows are pending than the queue, and each of its owners, may hold.
THEOREM QueueBounded == Spec => []BoundedQueue
<1>1. BoundInv => BoundedQueue
  BY DEF BoundInv
<1> QED BY <1>1, BoundInit, BoundStep, Invariance, PTL DEF Spec

-----------------------------------------------------------------------------
(* What a step may never do, continued *)

\* No step replaces a stored proposal.
THEOREM ProposalFinal == Spec => ProposalIsFinal
<1>1. ASSUME IInv, [Next]_vars, NEW j \in Job, proposal[j] # NoSlot
      PROVE  proposal'[j] = proposal[j]
  <2>1. CASE \E s \in Slot : Persist(s)
    BY <1>1, <2>1 DEF IInv, TypeOK, Persist, Stored
  <2>2. CASE UNCHANGED proposal
    BY <2>2
  <2>3. \/ \E s \in Slot : Persist(s)
        \/ UNCHANGED proposal
    BY <1>1 DEF Next, vars, RequestStep, EnqueueBegin, EnqueueCommit, ReviewBegin, ReviewCommit,
         CancelBegin, CancelCommit, SlotStep, ClaimBegin, ClaimCommit, ClaimNothing, ClaimRow,
         SubmitCheck, ExtractFails, FinishBegin, FinishCommit, Abandon,
         TimeStep, LeaseExpires, BackoffEnds
  <2> QED BY <2>1, <2>2, <2>3
<1>2. IInv /\ [Next]_vars => [\A j \in Job : proposal[j] # NoSlot => proposal'[j] = proposal[j]]_vars
  BY <1>1
<1> QED BY <1>2, Invariance, PTL DEF Spec, ProposalIsFinal

\* No step changes a row that succeeded or was cancelled.
THEOREM SettledFinal == Spec => SettledIsFinal
<1>1. ASSUME IInv, [Next]_vars, NEW j \in Job, job[j].status \in {"succeeded", "cancelled"}
      PROVE  job'[j] = job[j]
  <2>1. job[j].lease # "lapsed"
    BY <1>1 DEF IInv, RowsGood, GoodRow
  <2>2. \A s \in Slot : slot[s].job = j => ~HoldsLease(s)
    BY <1>1 DEF HoldsLease
  <2> QED BY <1>1, <2>1, <2>2, RowChanges DEF Waiting, vars
<1>2. IInv /\ [Next]_vars =>
        [\A j \in Job : job[j].status \in {"succeeded", "cancelled"} => job'[j] = job[j]]_vars
  BY <1>1
<1> QED BY <1>2, Invariance, PTL DEF Spec, SettledIsFinal

\* Only the current claim, or recovery after its lease lapsed, ends a run.
THEOREM Fenced == Spec => FencedCompletion
<1> DEFINE Fence1 ==
      \A j \in Job :
        job[j].status = "running" /\ job'[j].status # "running" =>
          \/ job[j].lease = "lapsed" /\ job'[j].status \in {"retry_wait", "dead_letter"}
          \/ \E s \in Slot : /\ slot[s].phase = "closing" /\ slot[s].job = j
                             /\ slot[s].attempts = job[j].attempts
<1>1. ASSUME IInv, Next PROVE Fence1
  <2>1. \A j \in Job, s \in Slot : slot[s].job = j /\ HoldsLease(s)
          => slot[s].attempts = job[j].attempts
    BY <1>1 DEF IInv, TokenInv, HoldsLease
  <2>2. \A s \in Slot : FinishCommit(s) => slot[s].phase = "closing"
    BY DEF FinishCommit
  <2> QED BY <1>1, <2>1, <2>2, RowChanges DEF Waiting
<1>2. IInv /\ [Next]_vars => [Fence1]_vars
  BY <1>1
<1> QED BY <1>2, Invariance, PTL DEF Spec, FencedCompletion

-----------------------------------------------------------------------------
(* The order of claims and the contract: the inductive invariants *)

\* A row that is not there has no history, and no slot works on it.
PresentInv ==
  /\ \A j \in Job : job[j].status = "absent" => job[j] = Absent
  /\ \A s \in Slot : slot[s].job \in Job => job[slot[s].job].status # "absent"

(* The rows that are due wait for an attempt they still have, and of any two *)
(* of them one is ahead of the other.                                        *)
DueInv ==
  /\ \A j \in Job : job[j].status \in Waiting => job[j].attempts < MaxAttempts
  /\ \A j \in due : job[j].status \in Waiting
  /\ \A j \in Job : ahead[j] \subseteq due \ {j}
  /\ \A j, k \in due : j # k => j \in ahead[k] \/ k \in ahead[j]

(* A claim that is under way knows the rows that were due when it began: of  *)
(* them only a cancelled one is due no longer, and the others are ahead of   *)
(* every row that fell due since.                                            *)
RipeInv ==
  \A s \in Slot : slot[s].phase = "claiming" =>
    /\ \A j \in slot[s].ripe \ due : job[j].status = "cancelled"
    /\ \A k \in slot[s].ripe \cap due, j \in due \ slot[s].ripe : k \in ahead[j]

\* Every row ahead of a waiting row is claimed once at most before it.
BypassInv ==
  /\ bypassed \in [Job -> Nat]
  /\ \A j \in Job : bypassed[j] + Cardinality(ahead[j]) < Cardinality(Job)

-----------------------------------------------------------------------------
(* What the owner can see of a row *)

\* What the contract calls each status.
LEMMA FateOf ==
  ASSUME NEW row
  PROVE  /\ row.status = "absent" => Fate(row) = "none"
         /\ row.status \in Active => Fate(row) = "open"
         /\ row.status = "succeeded" => Fate(row) = "done"
         /\ row.status = "dead_letter" => Fate(row) = "failed"
         /\ row.status = "cancelled" => Fate(row) = "withdrawn"
<1>1. row.status = "absent" => Fate(row) = "none"
  BY DEF Fate, Active
<1>2. row.status \in Active => Fate(row) = "open"
  BY DEF Fate, Active
<1>3. row.status = "succeeded" => Fate(row) = "done"
  BY DEF Fate, Active
<1>4. row.status = "dead_letter" => Fate(row) = "failed"
  BY DEF Fate, Active
<1>5. row.status = "cancelled" => Fate(row) = "withdrawn"
  BY DEF Fate, Active
<1> QED BY <1>1, <1>2, <1>3, <1>4, <1>5

\* The open tasks are the pending rows, and the limit is MaxPending.
LEMMA OpenIsPending ==
  ASSUME TypeOK
  PROVE  Contract!Open = Pending /\ Contract!Cardinality(Contract!Open) = Cardinality(Pending)
<1>1. ASSUME NEW j \in Job
      PROVE  Fate(job[j]) = "open" <=> job[j].status \in Active
  <2>1. job[j].status \in Status
    BY DEF TypeOK, Row
  <2> QED BY <2>1, FateOf DEF Status, Settled
<1>2. Contract!Open = Pending
  BY <1>1 DEF Contract!Open, Pending, InStatus
<1>3. Contract!Cardinality(Pending) = Cardinality(Pending)
  BY DEF Contract!Cardinality, Cardinality
<1> QED BY <1>2, <1>3

\* What a step that changes one row shows of it.
Shows(j, fate, result, reviews) ==
  /\ Fate(job'[j]) = fate /\ job'[j].result = result /\ job'[j].review_retries = reviews
  /\ \A k \in Job \ {j} : UNCHANGED job[k]

\* The same, as the contract's variables see it.
Sees(j, from, to, result, reviews) ==
  /\ [k \in Job |-> Fate(job[k])][j] = from
  /\ [k \in Job |-> Fate(job[k])]' = [[k \in Job |-> Fate(job[k])] EXCEPT ![j] = to]
  /\ [k \in Job |-> job[k].result]' = [[k \in Job |-> job[k].result] EXCEPT ![j] = result]
  /\ [k \in Job |-> job[k].review_retries]' = [[k \in Job |-> job[k].review_retries] EXCEPT ![j]
       = reviews]
  /\ result = job[j].result =>
       [k \in Job |-> job[k].result]' = [k \in Job |-> job[k].result]
  /\ reviews = job[j].review_retries =>
       [k \in Job |-> job[k].review_retries]' = [k \in Job |-> job[k].review_retries]
  /\ [k \in Job |-> job[k].review_retries][j] = job[j].review_retries

\* A step that changes no fate, result or retry count is a stutter of the contract.
LEMMA Nothing ==
  ASSUME UNCHANGED proposal,
         \A j \in Job : /\ Fate(job'[j]) = Fate(job[j])
                        /\ job'[j].result = job[j].result
                        /\ job'[j].review_retries = job[j].review_retries
  PROVE  UNCHANGED Contract!cvars
BY DEF Contract!cvars

-----------------------------------------------------------------------------
(* Rows come and stay *)

\* No row is deleted, and none becomes what a row is before it is inserted.
LEMMA StaysPresent ==
  ASSUME IInv, Next, NEW j \in Job, job'[j].status = "absent"
  PROVE  job'[j] = job[j]
<1> SUFFICES ASSUME job'[j] # job[j] PROVE FALSE
  OBVIOUS
<1>1. job[j] \in GoodRow /\ job \in [Job -> Row]
  BY DEF IInv, RowsGood, TypeOK
<1>2. ASSUME NEW r \in Request, request[r].job = j, EnqueueCommit(r) \/ ReviewCommit(r) PROVE FALSE
  <2>1. job'[j] = Enqueued \/ job'[j] = Reviewed(job[j])
    BY <1>1, <1>2 DEF EnqueueCommit, ReviewCommit
  <2> QED BY <1>1, <2>1 DEF Enqueued, Absent, Reviewed, GoodRow, Row
<1>3. ASSUME NEW s \in Slot, ClaimRow(s, j) PROVE FALSE
  <2>1. job'[j] = Claimed(job[j], s)
    BY <1>3 DEF ClaimRow, Recovered
  <2> QED BY <1>1, <2>1 DEF Claimed, GoodRow, Row
<1>4. ASSUME NEW s \in Slot, FinishCommit(s), slot[s].job = j, HoldsLease(s) PROVE FALSE
  <2>1. job'[j] = Finished(job[j], slot[s].outcome, slot[s].found)
    BY <1>1, <1>4 DEF FinishCommit
  <2> QED BY <1>1, <2>1 DEF Finished, GoodRow, Row
<1> QED BY <1>2, <1>3, <1>4, RowChanges

\* A slot gets its row from a claim.
LEMMA SlotJobs ==
  ASSUME IInv, Next, NEW s \in Slot, slot'[s].job \in Job
  PROVE  slot'[s].job = slot[s].job \/ ClaimRow(s, slot'[s].job)
<1>0. slot \in [Slot -> SlotState] /\ Idle.job \notin Job
  BY JobsAssumption DEF IInv, TypeOK, Idle
<1>1. CASE UNCHANGED slot
  BY <1>1
<1>2. CASE \E q \in Slot : SlotStep(q)
  <2>1. PICK q \in Slot : SlotStep(q)
    BY <1>2
  <2>2. CASE q # s
    BY <2>1, <2>2, SlotMoves
  <2>3. CASE ClaimBegin(s) \/ ClaimNothing(s) \/ FinishCommit(s) \/ Abandon(s)
    BY <1>0, <2>3 DEF ClaimBegin, ClaimNothing, FinishCommit, Abandon, Idle
  <2>4. ASSUME NEW j \in Job, ClaimRow(s, j) PROVE slot'[s].job = j
    BY <1>0, <2>4 DEF ClaimRow, Idle
  <2>5. ASSUME NEW o, NEW p, Conclude(s, o, p) PROVE slot'[s].job = slot[s].job
    <3>1. slot'[s] = [slot[s] EXCEPT !.phase = "finishing", !.outcome = o, !.found = p]
            /\ slot[s] \in SlotState
      BY <1>0, <2>5 DEF Conclude
    <3> QED BY <3>1 DEF SlotState
  <2>6. CASE SubmitCheck(s) \/ Persist(s) \/ ExtractFails(s)
    <3>1. CASE slot' = [slot EXCEPT ![s] = [slot[s] EXCEPT !.phase = "extracting"]]
      BY <1>0, <3>1 DEF SlotState
    <3> QED BY <2>5, <2>6, <3>1 DEF SubmitCheck, Persist, ExtractFails
  <2>7. CASE FinishBegin(s)
    BY <1>0, <2>7 DEF FinishBegin, SlotState
  <2> QED BY <2>1, <2>2, <2>3, <2>4, <2>6, <2>7 DEF SlotStep, ClaimCommit
<1>3. UNCHANGED slot \/ \E q \in Slot : SlotStep(q)
  BY DEF Next, RequestStep, EnqueueBegin, EnqueueCommit, ReviewBegin, ReviewCommit,
     CancelBegin, CancelCommit, TimeStep, LeaseExpires, BackoffEnds
<1> QED BY <1>1, <1>2, <1>3

\* A row that is not there gets no history, and no slot to work on it.
LEMMA PresentStep == IInv /\ PresentInv /\ [Next]_vars => PresentInv'
<1> SUFFICES ASSUME IInv, PresentInv, [Next]_vars PROVE PresentInv'
  OBVIOUS
<1>1. CASE UNCHANGED vars
  BY <1>1 DEF vars, PresentInv
<1>2. CASE Next
  <2>1. ASSUME NEW j \in Job, job'[j].status = "absent" PROVE job'[j] = Absent
    BY <1>2, <2>1, StaysPresent DEF PresentInv
  <2>2. ASSUME NEW s \in Slot, slot'[s].job \in Job PROVE job'[slot'[s].job].status # "absent"
    <3>1. PICK j \in Job : j = slot'[s].job
      BY <2>2
    <3>2. CASE slot[s].job = j
      BY <1>2, <3>1, <3>2, StaysPresent DEF PresentInv
    <3>3. CASE ClaimRow(s, j)
      <4>1. job'[j] = Claimed(job[j], s) /\ job[j] \in GoodRow
        BY <3>3 DEF ClaimRow, Recovered, IInv, RowsGood
      <4> QED BY <3>1, <4>1 DEF Claimed, GoodRow, Row
    <3> QED BY <1>2, <3>1, <3>2, <3>3, SlotJobs
  <2> QED BY <2>1, <2>2 DEF PresentInv
<1> QED BY <1>1, <1>2
-----------------------------------------------------------------------------
(* Every step maps to a step of the contract, or to none *)

\* A request that commits is a step of the contract.
LEMMA RequestMaps ==
  ASSUME IInv, PresentInv, BoundInv, NEW r \in Request,
         EnqueueCommit(r) \/ ReviewCommit(r) \/ CancelCommit(r)
  PROVE  Contract!ContractNext
<1>1. PICK j : j = request[r].job
  OBVIOUS
<1>2. j \in Job /\ job[j] \in GoodRow /\ job[j] \in Row /\ job \in [Job -> Row]
  BY <1>1 DEF IInv, TypeOK, RowsGood, RequestInv, EnqueueCommit, ReviewCommit, CancelCommit
<1>3. Contract!Cardinality(Contract!Open) = Cardinality(Pending)
  BY OpenIsPending DEF IInv
<1>4. CASE EnqueueCommit(r) \/ ReviewCommit(r)
  <2>1. HasCapacity(OwnerOf[j])
    BY <1>1, <1>4 DEF BoundInv, CapacityInv, EnqueueCommit, ReviewCommit
  <2>2. Contract!Cardinality(Contract!Open) < MaxPending
    BY <1>3, <2>1 DEF HasCapacity
  <2>3. CASE EnqueueCommit(r)
    <3>1. job' = [job EXCEPT ![j] = Enqueued] /\ job[j] = Absent
      BY <1>1, <1>2, <2>3 DEF EnqueueCommit, PresentInv
    <3>2. Enqueued.status = "queued" /\ job[j].status = "absent"
      BY <3>1 DEF Enqueued, Absent
    <3>3. Fate(Enqueued) = "open" /\ Fate(job[j]) = "none"
      BY <3>2, FateOf DEF Active
    <3>4. Shows(j, "open", job[j].result, job[j].review_retries)
      BY <1>2, <3>1, <3>3 DEF Shows, Enqueued, Absent
    <3>5. Sees(j, "none", "open", job[j].result, job[j].review_retries)
      BY <1>2, <3>3, <3>4 DEF Shows, Sees
    <3>6. Contract!Accept(j)
      BY <2>2, <2>3, <3>5 DEF Sees, Contract!Accept, EnqueueCommit
    <3> QED BY <1>2, <3>6 DEF Contract!ContractNext
  <2>4. CASE ReviewCommit(r)
    <3>1. job' = [job EXCEPT ![j] = Reviewed(job[j])] /\ Reviewable(j)
      BY <1>1, <1>2, <2>4 DEF ReviewCommit, IInv, RequestInv
    <3>2. /\ Reviewed(job[j]).status = "queued" /\ Reviewed(job[j]).result = job[j].result
          /\ Reviewed(job[j]).review_retries = job[j].review_retries + 1
      BY <1>2 DEF Reviewed, Row
    <3>3. Fate(Reviewed(job[j])) = "open" /\ Fate(job[j]) = "failed"
      BY <3>1, <3>2, FateOf DEF Reviewable, Active
    <3>4. Shows(j, "open", job[j].result, job[j].review_retries + 1)
      BY <1>2, <3>1, <3>2, <3>3 DEF Shows
    <3>5. Sees(j, "failed", "open", job[j].result, job[j].review_retries + 1)
      BY <1>2, <3>3, <3>4 DEF Shows, Sees
    <3>6. Contract!Accept(j)
      BY <1>2, <2>2, <2>4, <3>1, <3>5 DEF Sees, Contract!Accept, ReviewCommit, Reviewable
    <3> QED BY <1>2, <3>6 DEF Contract!ContractNext
  <2> QED BY <1>4, <2>3, <2>4
<1>5. CASE CancelCommit(r)
  <2>1. job' = [job EXCEPT ![j] = Cancelled(job[j])] /\ job[j].status \in Waiting
    BY <1>1, <1>2, <1>5 DEF CancelCommit, IInv, RequestInv
  <2>2. /\ Cancelled(job[j]).status = "cancelled" /\ Cancelled(job[j]).result = job[j].result
        /\ Cancelled(job[j]).review_retries = job[j].review_retries
    BY <1>2 DEF Cancelled, Row
  <2>3. Fate(Cancelled(job[j])) = "withdrawn" /\ Fate(job[j]) = "open"
    BY <2>1, <2>2, FateOf DEF Waiting, Active
  <2>4. Shows(j, "withdrawn", job[j].result, job[j].review_retries)
    BY <1>2, <2>1, <2>2, <2>3 DEF Shows
  <2>5. Sees(j, "open", "withdrawn", job[j].result, job[j].review_retries)
    BY <1>2, <2>3, <2>4 DEF Shows, Sees
  <2>6. Contract!Withdraw(j)
    BY <1>5, <2>5 DEF Sees, Contract!Withdraw, CancelCommit
  <2> QED BY <1>2, <2>6 DEF Contract!ContractNext
<1> QED BY <1>4, <1>5

\* A step in which rows are only recovered, claimed or closed without a result.
LEMMA GivesUp ==
  ASSUME UNCHANGED proposal,
         \A j \in Job : /\ \/ Fate(job'[j]) = Fate(job[j])
                           \/ Fate(job[j]) = "open" /\ Fate(job'[j]) = "failed"
                        /\ job'[j].result = job[j].result
                        /\ job'[j].review_retries = job[j].review_retries
  PROVE  [Contract!ContractNext]_Contract!cvars
<1> DEFINE S == {j \in Job : Fate(job'[j]) # Fate(job[j])}
<1>1. CASE S = {}
  BY <1>1, Nothing
<1>2. CASE S # {}
  <2>1. S \subseteq Contract!Open
    BY DEF Contract!Open
  <2>2. [j \in Job |-> Fate(job[j])]' = [j \in Job |-> IF j \in S THEN "failed"
          ELSE [k \in Job |-> Fate(job[k])][j]]
    OBVIOUS
  <2>3. /\ [j \in Job |-> job[j].result]' = [j \in Job |-> job[j].result]
        /\ [j \in Job |-> job[j].review_retries]' = [j \in Job |-> job[j].review_retries]
    OBVIOUS
  <2>4. S \in SUBSET Job
    OBVIOUS
  <2> HIDE DEF S
  <2>5. Contract!GiveUp(S)
    BY <1>2, <2>1, <2>2, <2>3 DEF Contract!GiveUp
  <2> QED BY <2>4, <2>5 DEF Contract!ContractNext
<1> QED BY <1>1, <1>2

\* A claim fails what it gives up, or is a stutter of the contract.
LEMMA ClaimMaps ==
  ASSUME IInv, NEW s \in Slot, ClaimCommit(s)
  PROVE  [Contract!ContractNext]_Contract!cvars
<1>1. ASSUME NEW j \in Job
      PROVE  /\ \/ Fate(Recovered(s)[j]) = Fate(job[j])
                \/ Fate(job[j]) = "open" /\ Fate(Recovered(s)[j]) = "failed"
             /\ Recovered(s)[j].result = job[j].result
             /\ Recovered(s)[j].review_retries = job[j].review_retries
  <2>1. CASE Recovered(s)[j] = job[j]
    BY <2>1
  <2>2. CASE Recovered(s)[j] = Recover(job[j]) /\ job[j].status = "running"
    <3>1. job[j] \in Row
      BY DEF IInv, TypeOK
    <3>2. Recover(job[j]).status \in {"dead_letter", "retry_wait"}
      BY <3>1 DEF Recover, Row
    <3> QED BY <2>2, <3>2, FateOf, RecoveredRows DEF Active
  <2> QED BY <2>1, <2>2 DEF Recovered, Lapsed, Running, InStatus
<1>2. CASE ClaimNothing(s)
  BY <1>1, <1>2, GivesUp DEF ClaimNothing
<1>3. ASSUME NEW k \in Job, ClaimRow(s, k) PROVE [Contract!ContractNext]_Contract!cvars
  <2>1. /\ UNCHANGED proposal /\ job'[k] = Claimed(job[k], s)
        /\ \A j \in Job \ {k} : job'[j] = Recovered(s)[j]
    BY <1>3 DEF ClaimRow, Recovered
  <2>2. job[k] \in Row /\ job[k].status \in Waiting
    BY <1>3 DEF ClaimRow, Oldest, Claimable, IInv, TypeOK
  <2>3. /\ Claimed(job[k], s).status = "running" /\ Claimed(job[k], s).result = job[k].result
        /\ Claimed(job[k], s).review_retries = job[k].review_retries
    BY <2>2 DEF Claimed, Row
  <2>4. Fate(job'[k]) = Fate(job[k])
    BY <2>1, <2>2, <2>3, FateOf DEF Waiting, Active
  <2> QED BY <1>1, <2>1, <2>3, <2>4, GivesUp
<1> QED BY <1>2, <1>3 DEF ClaimCommit

\* The proposal that is kept is the step of the contract that keeps it.
LEMMA PersistMaps ==
  ASSUME IInv, PresentInv, NEW s \in Slot, Persist(s)
  PROVE  [Contract!ContractNext]_Contract!cvars
<1>1. PICK j : j = slot[s].job
  OBVIOUS
<1>2. j \in Job /\ job[j].status # "absent" /\ job[j].status \in Status
  BY <1>1 DEF IInv, TypeOK, SlotInv, SlotState, Persist, PresentInv, Row
<1>3. proposal' = [proposal EXCEPT ![j] = Stored(j, s)] /\ UNCHANGED job
  BY <1>1 DEF Persist
<1>4. CASE proposal[j] # NoSlot
  BY <1>2, <1>3, <1>4, Nothing DEF Stored, IInv, TypeOK
<1>5. CASE proposal[j] = NoSlot
  <2>1. Fate(job[j]) # "none"
    BY <1>2, FateOf DEF Status, Settled
  <2>2. Contract!Record(j)
    BY <1>2, <1>3, <1>5, <2>1 DEF Stored, Contract!Record
  <2> QED BY <1>2, <2>2 DEF Contract!ContractNext
<1> QED BY <1>4, <1>5

\* A finish is the end of a job in the contract, or a stutter.
LEMMA FinishMaps ==
  ASSUME IInv, NEW s \in Slot, FinishCommit(s)
  PROVE  [Contract!ContractNext]_Contract!cvars
<1>1. CASE ~HoldsLease(s)
  BY <1>1, Nothing DEF FinishCommit
<1>2. CASE HoldsLease(s)
  <2>1. PICK j, o, p : j = slot[s].job /\ o = slot[s].outcome /\ p = slot[s].found
    OBVIOUS
  <2>2. j \in Job /\ job[j] \in GoodRow /\ job[j] \in Row /\ job \in [Job -> Row]
    BY <2>1 DEF FinishCommit, IInv, TypeOK, RowsGood, SlotInv, SlotState
  <2>3. job' = [job EXCEPT ![j] = Finished(job[j], o, p)] /\ UNCHANGED proposal
          /\ job[j].status = "running"
    BY <1>2, <2>1 DEF FinishCommit, HoldsLease
  <2>4. o = "result" => p # NoSlot /\ p = proposal[j]
    BY <2>1 DEF IInv, SlotInv
  <2>5. /\ Finished(job[j], o, p).review_retries = job[j].review_retries
        /\ o = "result" => Finished(job[j], o, p).status = "succeeded"
             /\ Finished(job[j], o, p).result = p
        /\ o # "result" => /\ Finished(job[j], o, p).status \in {"retry_wait", "dead_letter"}
                           /\ Finished(job[j], o, p).result = job[j].result
    BY <2>2 DEF Finished, Row
  <2>6. Fate(job[j]) = "open"
    BY <2>3, FateOf DEF Active
  <2>7. CASE o = "result"
    <3>1. Fate(Finished(job[j], o, p)) = "done"
      BY <2>5, <2>7, FateOf
    <3>2. Shows(j, "done", p, job[j].review_retries)
      BY <2>2, <2>3, <2>5, <2>7, <3>1 DEF Shows
    <3>3. Sees(j, "open", "done", p, job[j].review_retries)
      BY <2>2, <2>6, <3>2 DEF Shows, Sees
    <3>4. Contract!Complete(j)
      BY <2>3, <2>4, <2>7, <3>3 DEF Sees, Contract!Complete
    <3> QED BY <2>2, <3>4 DEF Contract!ContractNext
  <2>8. CASE o # "result"
    <3>1. Fate(Finished(job[j], o, p)) \in {"open", "failed"}
      BY <2>5, <2>8, FateOf DEF Active
    <3>2. /\ job'[j] = Finished(job[j], o, p)
          /\ \A k \in Job \ {j} : job'[k] = job[k]
      BY <2>2, <2>3
    <3> QED BY <2>3, <2>5, <2>6, <2>8, <3>1, <3>2, GivesUp
  <2> QED BY <2>7, <2>8
<1> QED BY <1>1, <1>2

\* Every step of the queue is one of the contract, or a stutter.
LEMMA ContractStep == IInv /\ PresentInv /\ BoundInv /\ [Next]_vars
  => [Contract!ContractNext]_Contract!cvars
<1> SUFFICES ASSUME IInv, PresentInv, BoundInv, [Next]_vars PROVE [Contract!ContractNext]_Contract!cvars
  OBVIOUS
<1>1. CASE UNCHANGED <<job, proposal>>
  BY <1>1, Nothing
<1>2. ASSUME NEW r \in Request, RequestStep(r) PROVE [Contract!ContractNext]_Contract!cvars
  BY <1>1, <1>2, RequestMaps DEF RequestStep, EnqueueBegin, ReviewBegin, CancelBegin
<1>3. ASSUME NEW s \in Slot, SlotStep(s) PROVE [Contract!ContractNext]_Contract!cvars
  BY <1>1, <1>3, ClaimMaps, PersistMaps, FinishMaps
     DEF SlotStep, ClaimBegin, SubmitCheck, ExtractFails, FinishBegin, Abandon
<1>4. ASSUME NEW j \in Job, TimeStep(j) PROVE [Contract!ContractNext]_Contract!cvars
  <2>1. CASE LeaseExpires(j)
    <3>1. job \in [Job -> Row] /\ job' = [job EXCEPT ![j] = [job[j] EXCEPT !.lease = "lapsed"]]
            /\ UNCHANGED proposal
      BY <2>1 DEF LeaseExpires, IInv, TypeOK
    <3>2. /\ job'[j].status = job[j].status /\ job'[j].result = job[j].result
          /\ job'[j].review_retries = job[j].review_retries
          /\ \A k \in Job \ {j} : job'[k] = job[k]
      BY <3>1 DEF Row
    <3>3. Fate(job'[j]) = Fate(job[j])
      BY <3>2 DEF Fate
    <3> QED BY <3>1, <3>2, <3>3, Nothing
  <2> QED BY <1>1, <1>4, <2>1 DEF TimeStep, BackoffEnds
<1> QED BY <1>1, <1>2, <1>3, <1>4 DEF Next, vars

\* An empty queue is an initial state of the contract.
LEMMA ContractBegins == Init => Contract!ContractInit /\ PresentInv
<1> SUFFICES ASSUME Init PROVE Contract!ContractInit /\ PresentInv
  OBVIOUS
<1>1. Fate(Absent) = "none"
  BY FateOf DEF Absent
<1>2. Contract!ContractInit
  BY <1>1 DEF Init, Contract!ContractInit, Absent
<1>3. PresentInv
  BY JobsAssumption DEF Init, PresentInv, Idle
<1> QED BY <1>2, <1>3
-----------------------------------------------------------------------------
(* The order of the rows that are due *)

\* A slot that is claiming after a step has just begun, or was claiming before.
LEMMA StillClaiming ==
  ASSUME IInv, Next, NEW s \in Slot, slot'[s].phase = "claiming"
  PROVE  ClaimBegin(s) \/ slot'[s] = slot[s]
<1>1. CASE \E q \in Slot : SlotStep(q)
  BY <1>1, SlotMoves
<1>2. UNCHANGED slot \/ \E q \in Slot : SlotStep(q)
  BY DEF Next, RequestStep, EnqueueBegin, EnqueueCommit, ReviewBegin, ReviewCommit,
     CancelBegin, CancelCommit, TimeStep, LeaseExpires, BackoffEnds
<1> QED BY <1>1, <1>2

\* Steps that leave the order alone.
LEMMA OrderKept ==
  ASSUME IInv, DueInv, RipeInv, Next, UNCHANGED <<due, ahead>>,
         \A j \in Job :
           \/ job'[j].status = job[j].status /\ job'[j].attempts = job[j].attempts
           \/ job[j].status = "running"
                /\ (job'[j].status \in Waiting => job'[j].attempts < MaxAttempts)
  PROVE  DueInv' /\ RipeInv'
<1>0. due \subseteq Job
  BY DEF IInv, TypeOK
<1>1. DueInv'
  BY <1>0 DEF DueInv, Waiting
<1>2. RipeInv'
  <2>1. ASSUME NEW s \in Slot, slot'[s].phase = "claiming"
        PROVE  /\ \A j \in slot'[s].ripe \ due' : job'[j].status = "cancelled"
               /\ \A k \in slot'[s].ripe \cap due', j \in due' \ slot'[s].ripe : k \in ahead'[j]
    <3>1. CASE ClaimBegin(s)
      <4>1. slot'[s].ripe = due
        BY <3>1 DEF ClaimBegin, IInv, TypeOK, Idle
      <4> QED BY <4>1
    <3>2. CASE slot'[s] = slot[s]
      <4>1. slot[s].ripe \subseteq Job
        BY DEF IInv, TypeOK, SlotState
      <4> QED BY <2>1, <3>2, <4>1 DEF RipeInv
    <3> QED BY <2>1, <3>1, <3>2, StillClaiming
  <2> QED BY <2>1 DEF RipeInv
<1> QED BY <1>1, <1>2

\* Requests that commit keep the order by due time.
LEMMA OrderRequests ==
  ASSUME IInv, DueInv, RipeInv, NEW r \in Request, EnqueueCommit(r) \/ ReviewCommit(r)
         \/ CancelCommit(r)
  PROVE  DueInv' /\ RipeInv'
<1>1. PICK j : j = request[r].job
  OBVIOUS
<1>2. /\ j \in Job /\ job[j] \in Row /\ job \in [Job -> Row] /\ UNCHANGED slot
      /\ due \subseteq Job /\ ahead \in [Job -> SUBSET Job]
  BY <1>1 DEF IInv, TypeOK, RequestInv, EnqueueCommit, ReviewCommit, CancelCommit
<1>3. CASE EnqueueCommit(r) \/ ReviewCommit(r)
  <2>1. \A s \in Slot : slot[s].phase # "claiming"
    BY <1>3, JobsAssumption DEF IInv, SlotInv, RequestInv, EnqueueCommit, ReviewCommit
  <2>2. RipeInv'
    BY <1>2, <2>1 DEF RipeInv
  <2>3. FallDue(j) /\ \A k \in Job \ {j} : job'[k] = job[k]
    BY <1>1, <1>2, <1>3 DEF EnqueueCommit, ReviewCommit
  <2>4. job'[j].status = "queued" /\ job'[j].attempts = 0 /\ j \notin due
    <3>1. CASE EnqueueCommit(r)
      BY <1>1, <1>2, <3>1 DEF EnqueueCommit, Enqueued, Absent, DueInv, Waiting
    <3>2. CASE ReviewCommit(r)
      <4>1. job'[j] = Reviewed(job[j]) /\ job[j].status = "dead_letter"
        BY <1>1, <1>2, <3>2 DEF ReviewCommit, IInv, RequestInv, Reviewable
      <4> QED BY <1>2, <4>1 DEF Reviewed, Row, DueInv, Waiting
    <3> QED BY <1>3, <3>1, <3>2
  <2>5. DueInv'
    BY <1>2, <2>3, <2>4, JobsAssumption DEF DueInv, FallDue, Waiting
  <2> QED BY <2>2, <2>5
<1>4. CASE CancelCommit(r)
  <2>1. LeaveDue(j) /\ job'[j] = Cancelled(job[j]) /\ \A k \in Job \ {j} : job'[k] = job[k]
    BY <1>1, <1>2, <1>4 DEF CancelCommit
  <2>2. job'[j].status = "cancelled"
    BY <1>2, <2>1 DEF Cancelled, Row
  <2>3. DueInv'
    BY <1>2, <2>1, <2>2 DEF DueInv, LeaveDue, Waiting
  <2>4. \A s \in Slot : slot[s].ripe \subseteq Job
    BY DEF IInv, TypeOK, SlotState
  <2>5. RipeInv'
    BY <1>2, <2>1, <2>2, <2>4 DEF RipeInv, LeaveDue
  <2> QED BY <2>3, <2>5
<1> QED BY <1>3, <1>4

\* A backoff that ends keeps the order by due time.
LEMMA OrderBackoff ==
  ASSUME IInv, DueInv, RipeInv, NEW j \in Job, BackoffEnds(j)
  PROVE  DueInv' /\ RipeInv'
<1>1. /\ FallDue(j) /\ UNCHANGED <<job, slot>> /\ j \notin due /\ job[j].status = "retry_wait"
      /\ due \subseteq Job /\ ahead \in [Job -> SUBSET Job]
      /\ \A s \in Slot : slot[s].ripe \subseteq Job
  BY DEF BackoffEnds, IInv, TypeOK, SlotState
<1>2. DueInv'
  BY <1>1 DEF DueInv, FallDue, Waiting
<1>3. RipeInv'
  BY <1>1 DEF RipeInv, FallDue
<1> QED BY <1>2, <1>3

\* What is recovered was running, and may be claimed again if it waits.
LEMMA RecoveryWaits ==
  ASSUME IInv, NEW s \in Slot, NEW k \in Job
  PROVE  \/ Recovered(s)[k] = job[k]
         \/ /\ job[k].status = "running"
            /\ Recovered(s)[k].status \in Waiting => Recovered(s)[k].attempts < MaxAttempts
<1>1. job \in [Job -> Row]
  BY DEF IInv, TypeOK
<1> QED BY <1>1, JobsAssumption DEF Recovered, Recover, Lapsed, Running, InStatus, Row, Waiting

\* A claim takes the first that is due and keeps the order.
LEMMA OrderClaims ==
  ASSUME IInv, DueInv, RipeInv, NEW s \in Slot, NEW j \in Job, ClaimCommit(s), ClaimRow(s, j)
  PROVE  DueInv' /\ RipeInv'
<1>1. /\ LeaveDue(j) /\ job'[j] = Claimed(job[j], s) /\ \A k \in Job \ {j} : job'[k] = Recovered(s)[k]
      /\ due \subseteq Job /\ ahead \in [Job -> SUBSET Job] /\ job \in [Job -> Row]
  BY DEF ClaimRow, Recovered, IInv, TypeOK
<1>2. RipeInv'
  <2>1. \A q \in Slot : slot'[q].phase # "claiming"
    <3>1. \A q \in Slot \ {s} : slot[q].phase # "claiming" /\ slot'[q] = slot[q]
      BY SlotMoves DEF IInv, SlotInv, ClaimCommit, SlotStep
    <3> QED BY <3>1, SlotMoves
  <2> QED BY <2>1 DEF RipeInv
<1>3. job'[j].status = "running"
  BY <1>1 DEF Claimed, Row
<1>4. DueInv'
  BY <1>1, <1>3, RecoveryWaits DEF DueInv, LeaveDue, Waiting
<1> QED BY <1>2, <1>4

\* Every step keeps the order by due time.
LEMMA OrderStep == IInv /\ DueInv /\ RipeInv /\ [Next]_vars => DueInv' /\ RipeInv'
<1> SUFFICES ASSUME IInv, DueInv, RipeInv, [Next]_vars PROVE DueInv' /\ RipeInv'
  OBVIOUS
<1>0. job \in [Job -> Row]
  BY DEF IInv, TypeOK
<1>1. CASE UNCHANGED vars
  BY <1>1 DEF vars, DueInv, RipeInv
<1>2. ASSUME NEW r \in Request, RequestStep(r), Next PROVE DueInv' /\ RipeInv'
  <2>1. CASE \E j \in Job : EnqueueBegin(r, j) \/ ReviewBegin(r, j) \/ CancelBegin(r, j)
    BY <1>2, <2>1, OrderKept DEF EnqueueBegin, ReviewBegin, CancelBegin
  <2> QED BY <1>2, <2>1, OrderRequests DEF RequestStep
<1>3. ASSUME NEW s \in Slot, SlotStep(s), Next PROVE DueInv' /\ RipeInv'
  <2>1. CASE ClaimBegin(s) \/ SubmitCheck(s) \/ Persist(s) \/ ExtractFails(s) \/ FinishBegin(s)
          \/ Abandon(s)
    BY <1>3, <2>1, OrderKept DEF ClaimBegin, SubmitCheck, Persist, ExtractFails, FinishBegin, Abandon
  <2>2. CASE ClaimCommit(s) /\ ClaimNothing(s)
    BY <1>3, <2>2, RecoveryWaits, OrderKept DEF ClaimNothing
  <2>3. CASE ClaimCommit(s) /\ \E j \in Job : ClaimRow(s, j)
    BY <2>3, OrderClaims
  <2>4. CASE FinishCommit(s)
    <3>1. \A j \in Job :
            \/ job'[j] = job[j]
            \/ job[j].status = "running"
                 /\ (job'[j].status \in Waiting => job'[j].attempts < MaxAttempts)
      <4>1. ASSUME NEW j \in Job, NEW o, NEW p, job'[j] = Finished(job[j], o, p)
            PROVE  job'[j].status \in Waiting => job'[j].attempts < MaxAttempts
        BY <1>0, <4>1 DEF Finished, Row, Waiting
      <4> QED BY <1>0, <2>4, <4>1 DEF FinishCommit, HoldsLease
    <3> QED BY <1>3, <2>4, <3>1, OrderKept DEF FinishCommit
  <2> QED BY <1>3, <2>1, <2>2, <2>3, <2>4 DEF SlotStep, ClaimCommit
<1>4. ASSUME NEW j \in Job, TimeStep(j), Next PROVE DueInv' /\ RipeInv'
  <2>1. CASE LeaseExpires(j)
    <3>1. \A k \in Job : job'[k].status = job[k].status /\ job'[k].attempts = job[k].attempts
      BY <1>0, <2>1 DEF LeaseExpires, Row
    <3> QED BY <1>4, <2>1, <3>1, OrderKept DEF LeaseExpires
  <2> QED BY <1>4, <2>1, OrderBackoff DEF TimeStep
<1> QED BY <1>1, <1>2, <1>3, <1>4 DEF Next

-----------------------------------------------------------------------------
(* Bypassing *)

\* A row starts to run by a claim only.
LEMMA Claims ==
  ASSUME IInv, Next, NEW k \in Job, NowRunning(k)
  PROVE  \E s \in Slot : ClaimCommit(s) /\ ClaimRow(s, k)
<1>1. job[k] \in GoodRow /\ job[k] \in Row /\ job \in [Job -> Row] /\ job'[k] # job[k]
  BY DEF IInv, RowsGood, TypeOK, NowRunning
<1>2. ASSUME NEW r \in Request, request[r].job = k, EnqueueCommit(r) \/ ReviewCommit(r) PROVE FALSE
  <2>1. job'[k] = Enqueued \/ job'[k] = Reviewed(job[k])
    BY <1>1, <1>2 DEF EnqueueCommit, ReviewCommit
  <2> QED BY <1>1, <2>1 DEF NowRunning, Enqueued, Absent, Reviewed, Row
<1>3. job[k].lease # "lapsed"
  BY <1>1 DEF GoodRow, NowRunning
<1>4. \A s \in Slot : slot[s].job = k => ~HoldsLease(s)
  BY DEF HoldsLease, NowRunning
<1> QED BY <1>1, <1>2, <1>3, <1>4, RowChanges DEF NowRunning

\* A claim takes the row that is ahead of every other row it could have taken.
LEMMA ClaimsAhead ==
  ASSUME IInv, DueInv, RipeInv, NEW s \in Slot, NEW k \in Job, ClaimCommit(s), ClaimRow(s, k),
         NEW j \in due \ {k}, ~RowLocked(j)
  PROVE  k \in ahead[j] /\ ahead'[j] = ahead[j] \ {k} /\ \A i \in Job \ {k} : ~NowRunning(i)
<1>1. /\ slot[s].phase = "claiming" /\ LeaveDue(k) /\ j \in Job
      /\ k \in Claimable(s) /\ ahead[k] \cap Claimable(s) = {}
  BY DEF ClaimCommit, ClaimRow, Oldest, IInv, TypeOK
<1>2. k \in slot[s].ripe \cap due
  BY <1>1 DEF Claimable
<1>3. k \in ahead[j]
  <2>1. CASE j \in slot[s].ripe
    <3>1. j \in Claimable(s)
      BY <1>1, <2>1 DEF Claimable, DueInv
    <3> QED BY <1>1, <1>2, <3>1 DEF DueInv
  <2>2. CASE j \notin slot[s].ripe
    BY <1>1, <1>2, <2>2 DEF RipeInv
  <2> QED BY <2>1, <2>2
<1>4. ahead'[j] = ahead[j] \ {k}
  BY <1>1 DEF LeaveDue
<1>5. ASSUME NEW i \in Job \ {k} PROVE ~NowRunning(i)
  <2>1. job'[i] = Recovered(s)[i] /\ job \in [Job -> Row]
    BY DEF ClaimRow, Recovered, IInv, TypeOK
  <2> QED BY <2>1, RecoveredRows DEF NowRunning
<1> QED BY <1>3, <1>4, <1>5

\* Nothing gets ahead of a row that is due.
LEMMA AheadShrinks ==
  ASSUME IInv, DueInv, Next, NEW j \in due
  PROVE  ahead'[j] \subseteq ahead[j]
<1>1. j \in Job /\ job[j].status \in Waiting
  BY DEF IInv, TypeOK, DueInv
<1>2. ASSUME NEW i, FallDue(i), i # j PROVE ahead'[j] \subseteq ahead[j]
  BY <1>1, <1>2 DEF FallDue
<1>3. ASSUME NEW i, LeaveDue(i) PROVE ahead'[j] \subseteq ahead[j]
  BY <1>1, <1>3 DEF LeaveDue
<1>4. CASE \E r \in Request : RequestStep(r)
  <2>1. PICK r \in Request : RequestStep(r)
    BY <1>4
  <2>2. CASE EnqueueCommit(r)
    BY <1>1, <1>2, <2>2 DEF EnqueueCommit, Waiting
  <2>3. CASE ReviewCommit(r)
    BY <1>1, <1>2, <2>3 DEF ReviewCommit, IInv, RequestInv, Reviewable, Waiting
  <2>4. CASE CancelCommit(r)
    BY <1>3, <2>4 DEF CancelCommit
  <2> QED BY <2>1, <2>2, <2>3, <2>4 DEF RequestStep, EnqueueBegin, ReviewBegin, CancelBegin
<1>5. CASE \E s \in Slot : SlotStep(s)
  <2>1. UNCHANGED ahead \/ \E i : LeaveDue(i)
    BY <1>5 DEF SlotStep, ClaimBegin, ClaimCommit, ClaimNothing, ClaimRow, SubmitCheck, Persist,
         ExtractFails, FinishBegin, FinishCommit, Abandon
  <2> QED BY <1>3, <2>1
<1>6. CASE \E i \in Job : TimeStep(i)
  BY <1>2, <1>6 DEF TimeStep, LeaseExpires, BackoffEnds
<1> QED BY <1>4, <1>5, <1>6 DEF Next

\* Every row ahead of a waiting row is still claimed once at most before it.
LEMMA BypassStep ==
  ASSUME IInv, DueInv, RipeInv, BypassInv, [OrderNext]_<<vars, bypassed>>
  PROVE  BypassInv'
<1>1. CASE UNCHANGED <<vars, bypassed>>
  BY <1>1 DEF vars, BypassInv
<1>2. CASE OrderNext
  <2>1. Next /\ DueInv'
    BY <1>2, OrderStep DEF OrderNext
  <2> DEFINE N(j) == {k \in Job \ {j} : NowRunning(k)}
  <2>2. \A j \in Job : /\ bypassed'[j] = IF j \notin due \/ RowLocked(j) THEN 0
                                         ELSE bypassed[j] + Cardinality(N(j))
                       /\ bypassed[j] \in Nat /\ bypassed[j] + Cardinality(ahead[j]) < Cardinality(Job)
    BY <1>2 DEF OrderNext, BypassInv
  <2>3. DOMAIN bypassed' = Job /\ bypassed' = [j \in Job |-> bypassed'[j]]
    BY <1>2 DEF OrderNext
  <2>4. Cardinality(Job) \in Nat
    BY JobsAssumption, FS_CardinalityType
  <2>5. ASSUME NEW j \in Job
        PROVE  bypassed'[j] \in Nat /\ bypassed'[j] + Cardinality(ahead'[j]) < Cardinality(Job)
    <3>0. /\ j \notin due \/ RowLocked(j) => bypassed'[j] = 0
          /\ j \in due /\ ~RowLocked(j) => bypassed'[j] = bypassed[j] + Cardinality(N(j))
          /\ bypassed[j] \in Nat /\ bypassed[j] + Cardinality(ahead[j]) < Cardinality(Job)
      BY <2>2
    <3>1. /\ ahead[j] \in SUBSET Job /\ ahead'[j] \in SUBSET (Job \ {j})
          /\ Job \ {j} \in SUBSET Job /\ N(j) \in SUBSET Job
      <4>1. due' \subseteq Job /\ IInv'
        BY <2>1, Induction DEF IInv, TypeOK
      <4>2. ahead[j] \in SUBSET Job /\ ahead'[j] \in SUBSET (Job \ {j})
        BY <2>1, <4>1 DEF IInv, TypeOK, DueInv
      <4> QED BY <4>2
    <3>2. /\ Cardinality(ahead'[j]) \in Nat /\ Cardinality(ahead[j]) \in Nat
          /\ Cardinality(N(j)) \in Nat
          /\ Cardinality(Job \ {j}) \in Nat /\ Cardinality(ahead'[j]) <= Cardinality(Job \ {j})
      BY <3>1, Smaller
    <3>3. Cardinality(Job \ {j}) = Cardinality(Job) - 1
      BY JobsAssumption, FS_RemoveElement
    <3>4. CASE j \notin due \/ RowLocked(j)
      BY <2>4, <3>0, <3>2, <3>3, <3>4
    <3>5. CASE j \in due /\ ~RowLocked(j) /\ N(j) = {}
      <4>1. Cardinality(N(j)) = 0
        BY <3>5, FS_EmptySet
      <4>2. Cardinality(ahead'[j]) <= Cardinality(ahead[j])
        BY <2>1, <3>1, <3>5, AheadShrinks, Smaller
      <4> QED BY <2>4, <3>0, <3>2, <3>5, <4>1, <4>2
    <3>6. CASE j \in due /\ ~RowLocked(j) /\ N(j) # {}
      <4>1. PICK k \in Job \ {j} : NowRunning(k)
        BY <3>6
      <4>2. PICK s \in Slot : ClaimCommit(s) /\ ClaimRow(s, k)
        BY <2>1, <4>1, Claims
      <4>3. k \in ahead[j] /\ ahead'[j] = ahead[j] \ {k} /\ \A i \in Job \ {k} : ~NowRunning(i)
        BY <3>6, <4>1, <4>2, ClaimsAhead
      <4>4. N(j) = {k}
        BY <4>1, <4>3
      <4>5. Cardinality(N(j)) = 1
        BY <4>4, FS_Singleton
      <4>6. IsFiniteSet(ahead[j])
        BY <3>1, JobsAssumption, FS_Subset
      <4>7. Cardinality(ahead'[j]) = Cardinality(ahead[j]) - 1
        BY <4>3, <4>6, FS_RemoveElement
      <4> QED BY <2>4, <3>0, <3>2, <3>6, <4>5, <4>7
    <3> QED BY <3>4, <3>5, <3>6
  <2> HIDE DEF N
  <2> QED BY <2>3, <2>5 DEF BypassInv
<1> QED BY <1>1, <1>2

\* The order holds in an empty queue.
LEMMA OrderBegins == OrderInit => DueInv /\ RipeInv /\ BypassInv
<1> SUFFICES ASSUME OrderInit PROVE DueInv /\ RipeInv /\ BypassInv
  OBVIOUS
<1>1. DueInv /\ RipeInv
  BY DEF OrderInit, Init, DueInv, RipeInv, Absent, Waiting, Idle
<1>2. ASSUME NEW j \in Job PROVE Cardinality(Job) \in Nat /\ Cardinality(Job) > 0
  BY JobsAssumption, FS_CardinalityType, FS_EmptySet
<1>3. BypassInv
  BY <1>2, FS_EmptySet DEF OrderInit, Init, BypassInv
<1> QED BY <1>1, <1>3

-----------------------------------------------------------------------------
(* The order of claims and the contract: the theorems *)

(* The queue, with its leases, zombies and split transactions, implements    *)
(* its contract: a bounded set of open tasks, one effect each, and an effect *)
(* to show for every task reported done.                                     *)
THEOREM ContractHolds == Spec => ImplementsContract
<1> QED BY Invariance, BoundInit, BoundStep, ContractBegins, PresentStep, ContractStep, PTL
        DEF Spec, ImplementsContract, Contract!ContractSafety

(* The ORDER BY available_at of claim() keeps its promise although a claim   *)
(* reads the clock before its query and skips the rows others have locked:   *)
(* every other row is claimed at most once before a row that is due.         *)
THEOREM BypassBounded == OrderSpec => []BoundedBypass
<1>1. OrderInit => Init
  BY DEF OrderInit
<1>2. [OrderNext]_<<vars, bypassed>> => [Next]_vars
  BY DEF OrderNext
<1>3. OrderSpec => [](IInv /\ DueInv /\ RipeInv)
  BY <1>1, <1>2, InitInv, Induction, OrderBegins, OrderStep, PTL DEF OrderSpec
<1>4. IInv /\ DueInv /\ RipeInv /\ BypassInv /\ [OrderNext]_<<vars, bypassed>> => BypassInv'
  BY BypassStep
<1>5. IInv /\ BypassInv => BoundedBypass
  <2> SUFFICES ASSUME IInv, BypassInv, NEW j \in Job PROVE bypassed[j] < Cardinality(Job)
    BY DEF BoundedBypass
  <2>1. Cardinality(ahead[j]) \in Nat /\ Cardinality(Job) \in Nat
    BY Smaller DEF IInv, TypeOK
  <2> QED BY <2>1 DEF BypassInv
<1> QED BY <1>3, <1>4, <1>5, OrderBegins, PTL DEF OrderSpec
=============================================================================
