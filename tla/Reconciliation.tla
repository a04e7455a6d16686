--------------------------- MODULE Reconciliation ---------------------------
(***************************************************************************)
(* How source events of one owner become canonical transactions: ingestion *)
(* (app/ingestion), review of AI proposals (app/ai/proposal_service.py)    *)
(* and duplicate reconciliation (app/reconciliation), over one database.   *)
(*                                                                         *)
(* Every operation is one transaction of a session. It takes its locks one *)
(* at a time, each step reading and checking what the code reads once that *)
(* lock is held, and writes everything when it commits; what it read is    *)
(* not read again. A session may roll back at any point: a refusal, an     *)
(* error, a cancelled request, a lost connection or a crash.               *)
(*                                                                         *)
(* Only what the decisions tell apart is kept of an event's content: how   *)
(* alike two pieces of content score, and whether they share a payment     *)
(* identifier. The cap of 20 candidates is not reached; last_error_code    *)
(* and attempt_count, which no guard reads, are left out.                  *)
(***************************************************************************)
EXTENDS Naturals, Sequences, FiniteSets

CONSTANTS
  Event,       \* raw events of the owner
  TextEvent,   \* those with extraction_text (Gmail, Keep, manual note): their
               \* connectors normalize to kind "unknown", the AI proposes
  Manual,      \* contents of transactions the owner enters by hand
  Txn,         \* transaction ids
  Session,     \* database sessions open at the same time
  Likeness,    \* the decision the score of an event and a candidate leads to (not
               \* symmetric: SequenceMatcher.ratio depends on the order)
  SameRef,     \* pairs of events that share a typed payment identifier
  NoTxn, Other, NoContent

ASSUME ReconciliationAssumption ==
  /\ TextEvent \subseteq Event /\ Event \cap Manual = {}
  /\ Likeness \in [Event \X (Event \cup Manual) -> {"no_candidate", "new", "review", "merge"}]
  /\ SameRef \subseteq Event \X Event
  /\ \A d, e \in Event : <<d, e>> \in SameRef => <<e, d>> \in SameRef
  /\ NoTxn \notin Txn /\ Other \notin Txn /\ NoTxn # Other
  /\ NoContent \notin Event \cup Manual

VARIABLES
  raw,       \* raw_event_processing.state
  proposal,  \* the financial proposal of a raw event
  case,      \* the reconciliation case of its normalized transaction event
  evidence,  \* the transaction its evidence row points to
  txn,       \* the canonical transactions: what each was created from
  trail,     \* the reconciliation_actions of each case
  session    \* what each session is doing

data == <<raw, proposal, case, evidence, txn, trail>>
vars == <<raw, proposal, case, evidence, txn, trail, session>>

-----------------------------------------------------------------------------
(* Types *)

\* RawEventState.NORMALIZED is never committed: the transaction that sets it goes
\* on to one of the terminal states.
Terminal == {"needs_review", "processed"}
RawState == {"absent", "received", "failed"} \cup Terminal

Proposal == [status: {"none", "needs_review", "reconciliation_review", "approved", "rejected"},
             kind: {"transaction", "other", "unusable"}, target: Txn \cup {NoTxn, Other}]
NoProposal == [status |-> "none", kind |-> "unusable", target |-> NoTxn]

Case == [status: {"none", "pending", "merged", "kept_separate", "unmerged"},
         candidate: Txn \cup {NoTxn}, result: Txn \cup {NoTxn}]
NoCase == [status |-> "none", candidate |-> NoTxn, result |-> NoTxn]

Action == [type: {"candidate_flagged", "auto_merged", "created_new",
                  "user_merged", "user_kept_separate", "user_unmerged"},
           from: Txn \cup {NoTxn}, to: Txn \cup {NoTxn}]

\* The owner's advisory lock, and the row locks of a proposal and of a raw
\* event's processing row. Case and candidate rows are only ever locked by a
\* holder of the advisory lock.
OwnerLock     == <<"owner", "owner">>
ProposalRow(e)   == <<"proposal", e>>
ProcessingRow(e) == <<"processing", e>>
Lock == {OwnerLock} \cup ({"proposal", "processing"} \X Event)

Op      == {"post", "park", "fail", "extract", "approve", "reject", "merge", "keep", "unmerge"}
Verdict == [decision: {"none", "merge", "review", "new"}, candidate: Txn \cup {NoTxn}]
Unseen  == [decision |-> "none", candidate |-> NoTxn]

SessionState == [op: Op \cup {"idle"}, event: Event \cup {NoContent}, held: SUBSET Lock, seen: Verdict]
IdleSession  == [op |-> "idle", event |-> NoContent, held |-> {}, seen |-> Unseen]

TypeOK ==
  /\ raw \in [Event -> RawState]
  /\ proposal \in [Event -> Proposal]
  /\ case \in [Event -> Case]
  /\ evidence \in [Event -> Txn \cup {NoTxn}]
  /\ txn \in [Txn -> Event \cup Manual \cup {NoContent}]
  /\ trail \in [Event -> Seq(Action)]
  /\ session \in [Session -> SessionState]

Init ==
  /\ raw = [e \in Event |-> "absent"]
  /\ proposal = [e \in Event |-> NoProposal]
  /\ case = [e \in Event |-> NoCase]
  /\ evidence = [e \in Event |-> NoTxn]
  /\ txn = [t \in Txn |-> NoContent]
  /\ trail = [e \in Event |-> <<>>]
  /\ session = [s \in Session |-> IdleSession]

-----------------------------------------------------------------------------
(* Locks *)

\* mutant: reconcile_transaction() takes no advisory lock
PostingUnlocked(op, e) ==
  IF op = "post" THEN <<ProcessingRow(e)>> ELSE <<ProposalRow(e), ProcessingRow(e)>>

\* Which locks an operation takes, in the order of the code. proposal_for_raw_event
\* selects, and so locks, only a proposal that is approved or under reconciliation;
\* an insert holds the key of its row until it commits.
PostingPlan(op, e) ==
  IF op = "post"
    THEN <<ProcessingRow(e), OwnerLock>>
    ELSE <<ProposalRow(e), ProcessingRow(e), OwnerLock>>

LinkedProposal(e) ==
  IF proposal[e].status \in {"reconciliation_review", "approved"} THEN <<ProposalRow(e)>> ELSE <<>>

Plan(op, e) ==
  CASE op = "post" \/ (op = "approve" /\ proposal[e].kind = "transaction") -> PostingPlan(op, e)
    [] op = "approve" /\ proposal[e].kind # "transaction" -> <<ProposalRow(e), ProcessingRow(e)>>
    [] op \in {"park", "fail"} \/ (op = "extract" /\ proposal[e] # NoProposal) -> <<ProcessingRow(e)>>
    [] op = "reject" \/ (op = "extract" /\ proposal[e] = NoProposal) -> <<ProposalRow(e), ProcessingRow(e)>>
    [] op \in {"merge", "keep"} -> <<OwnerLock, ProcessingRow(e)>> \o LinkedProposal(e)
    [] op = "unmerge" -> <<OwnerLock>> \o LinkedProposal(e)

\* Granted: the locks before the i-th of the plan are held.
Granted(s, i) ==
  \A k \in 1..(i - 1) : Plan(session[s].op, session[s].event)[k] \in session[s].held

Ready(s) ==
  /\ session[s].op # "idle"
  /\ Granted(s, Len(Plan(session[s].op, session[s].event)) + 1)

\* Session s asks for l, the first lock of its plan that it does not hold.
Waits(s, l) ==
  /\ session[s].op # "idle" /\ l \notin session[s].held
  /\ LET plan == Plan(session[s].op, session[s].event) IN
       \E i \in 1..Len(plan) : plan[i] = l /\ Granted(s, i)

Free(l) == \A s \in Session : l \notin session[s].held

-----------------------------------------------------------------------------
(* Scoring *)

\* How transaction t stands as a candidate of event e: by a payment identifier of
\* the evidence t has at the moment, otherwise by the score of their contents.
Standing(e, t) ==
  IF txn[t] = NoContent THEN "no_candidate"
  ELSE IF \E d \in Event : evidence[d] = t /\ <<e, d>> \in SameRef THEN "merge"
  ELSE Likeness[e, txn[t]]

Candidates(e, d) == {t \in Txn : Standing(e, t) = d}

\* reconcile_candidates(): the decision of the best candidate. Which of several
\* with the same decision scores best is left open.
Verdicts(e) ==
  LET best == CHOOSE d \in {"merge", "review", "new"} :
                \/ d = "merge" /\ Candidates(e, "merge") # {}
                \/ d = "review" /\ Candidates(e, "merge") = {} /\ Candidates(e, "review") # {}
                \/ d = "new" /\ Candidates(e, "merge") \cup Candidates(e, "review") = {}
  IN IF Candidates(e, best) = {}
       THEN {[decision |-> "new", candidate |-> NoTxn]}
       ELSE {[decision |-> best, candidate |-> t] : t \in Candidates(e, best)}

-----------------------------------------------------------------------------
(* What a session checks of the rows that a lock it just got protects *)

ReviewableTwice(e) ==   \* mutant: a proposal under reconciliation is approved again
  proposal[e].status \in {"needs_review", "reconciliation_review"}

Reviewable(e) == proposal[e].status = "needs_review"

Resolvable(e) == case[e].status = "pending" /\ evidence[e] = NoTxn

UnmergeableTwice(e) ==   \* mutant: a case that was unmerged is unmerged again
  case[e].status \in {"merged", "unmerged"} /\ evidence[e] = case[e].result

Unmergeable(e) == case[e].status = "merged" /\ evidence[e] = case[e].result

Passes(op, e, l) ==
  CASE op \in {"post", "park", "fail"} /\ l = ProcessingRow(e) -> raw[e] \notin Terminal
    [] op \in {"approve", "reject"} /\ l = ProposalRow(e) -> Reviewable(e)
    [] op \in {"merge", "keep"} /\ l = OwnerLock -> Resolvable(e)
    [] op \in {"merge", "keep"} /\ l = ProcessingRow(e) -> raw[e] = "needs_review"
    [] op \in {"merge", "keep"} /\ l = ProposalRow(e) -> proposal[e].status = "reconciliation_review"
    [] op = "unmerge" /\ l = OwnerLock -> Unmergeable(e)
    [] OTHER -> TRUE

-----------------------------------------------------------------------------
(* Sessions *)

\* What the caller has seen when it starts: an envelope of its connector, an
\* ingested text event, or an entry of one of the owner's review lists.
MayBegin(op, e) ==
  CASE op \in {"post", "fail"} -> e \notin TextEvent /\ raw[e] \notin Terminal
    [] op = "park" -> raw[e] \notin Terminal
    [] op = "extract" -> e \in TextEvent /\ raw[e] \in Terminal /\ proposal[e].status = "none"
    [] op = "approve" -> proposal[e].status = "needs_review" /\ proposal[e].kind # "unusable"
    [] op = "reject" -> proposal[e].status = "needs_review"
    [] op \in {"merge", "keep"} -> case[e].status = "pending"
    [] op = "unmerge" -> case[e].status = "merged"

\* An envelope is stored first, in a transaction of its own, unless it is known.
Begin(s, op, e) ==
  /\ session[s].op = "idle"
  /\ MayBegin(op, e)
  /\ session' = [session EXCEPT ![s] = [IdleSession EXCEPT !.op = op, !.event = e]]
  /\ raw' = IF raw[e] = "absent" THEN [raw EXCEPT ![e] = "received"] ELSE raw
  /\ UNCHANGED <<proposal, case, evidence, txn, trail>>

\* The candidates are read with the last lock of a posting.
Scores(op, e, l) ==
  /\ op = "post" \/ (op = "approve" /\ proposal[e].kind = "transaction")
  /\ l = Plan(op, e)[Len(Plan(op, e))]

\* The lock is granted and what it protects is read.
Acquire(s, l) ==
  LET op == session[s].op
      e  == session[s].event
  IN
  /\ Waits(s, l) /\ Free(l)
  /\ Passes(op, e, l)
  /\ \E v \in IF Scores(op, e, l) THEN Verdicts(e) ELSE {Unseen} :
       session' = [session EXCEPT ![s].held = @ \cup {l}, ![s].seen = v]
  /\ UNCHANGED data

-----------------------------------------------------------------------------
(* What a commit writes *)

Release(s) == session' = [session EXCEPT ![s] = IdleSession]

Create(t, c) == txn[t] = NoContent /\ txn' = [txn EXCEPT ![t] = c]

Audit(e, type, from, to) ==
  trail' = [trail EXCEPT ![e] = Append(@, [type |-> type, from |-> from, to |-> to])]

\* add_evidence() and create_case(); a normalized event has one case at most.
Decide(e, v, status, type, t) ==
  /\ case[e].status = "none"
  /\ case' = [case EXCEPT ![e] = [status |-> status, candidate |-> v.candidate, result |-> t]]
  /\ evidence' = [evidence EXCEPT ![e] = t]
  /\ Audit(e, type, NoTxn, t)

\* The three ends of reconcile_transaction().
AutoMerge(e, v)    == v.decision = "merge" /\ Decide(e, v, "merged", "auto_merged", v.candidate) /\ UNCHANGED txn
CreateNew(e, v, t) == v.decision = "new" /\ Create(t, e) /\ Decide(e, v, "kept_separate", "created_new", t)
Flag(e, v)         == v.decision = "review" /\ Decide(e, v, "pending", "candidate_flagged", NoTxn) /\ UNCHANGED txn

Post(s) ==
  LET e == session[s].event
      v == session[s].seen
  IN
  /\ Ready(s) /\ session[s].op = "post"
  /\ \/ /\ AutoMerge(e, v) \/ \E t \in Txn : CreateNew(e, v, t)
        /\ raw' = [raw EXCEPT ![e] = "processed"]
     \/ /\ Flag(e, v)
        /\ raw' = [raw EXCEPT ![e] = "needs_review"]
  /\ Release(s)
  /\ UNCHANGED proposal

\* An event without complete transaction fields, or that the ledger refuses,
\* waits for review; content the connector cannot read fails, to be tried again.
Park(s) ==
  /\ Ready(s)
  /\ \/ session[s].op = "park" /\ raw' = [raw EXCEPT ![session[s].event] = "needs_review"]
     \/ session[s].op = "fail" /\ raw' = [raw EXCEPT ![session[s].event] = "failed"]
  /\ Release(s)
  /\ UNCHANGED <<proposal, case, evidence, txn, trail>>

\* create_or_get(): the first extraction of a raw event is the one that is kept.
Extract(s) ==
  LET e == session[s].event IN
  /\ Ready(s) /\ session[s].op = "extract"
  /\ IF proposal[e] = NoProposal
       THEN \E k \in {"transaction", "other", "unusable"} :
              proposal' = [proposal EXCEPT ![e] = [status |-> "needs_review", kind |-> k, target |-> NoTxn]]
       ELSE UNCHANGED proposal
  /\ Release(s)
  /\ UNCHANGED <<raw, case, evidence, txn, trail>>

Approved(p, t) == [p EXCEPT !.status = "approved", !.target = t]

\* mutant: the event is left in the state between normalization and its outcome
ProcessHalf(e) == raw[e] = "needs_review" /\ raw' = [raw EXCEPT ![e] = "normalized"]

\* The state machine lets only a raw event that needs review become processed.
Process(e) == raw[e] = "needs_review" /\ raw' = [raw EXCEPT ![e] = "processed"]

ApproveTransaction(s) ==
  LET e == session[s].event
      v == session[s].seen
  IN
  /\ Ready(s) /\ session[s].op = "approve" /\ proposal[e].kind = "transaction"
  /\ \/ /\ AutoMerge(e, v)
        /\ proposal' = [proposal EXCEPT ![e] = Approved(@, v.candidate)]
        /\ Process(e)
     \/ \E t \in Txn :
          /\ CreateNew(e, v, t)
          /\ proposal' = [proposal EXCEPT ![e] = Approved(@, t)]
          /\ Process(e)
     \/ /\ Flag(e, v)
        /\ proposal' = [proposal EXCEPT ![e] = [@ EXCEPT !.status = "reconciliation_review"]]
        /\ UNCHANGED raw
  /\ Release(s)

\* A receivable, payable or recurring payment: nothing to reconcile.
ApproveOther(s) ==
  LET e == session[s].event IN
  /\ Ready(s) /\ session[s].op = "approve" /\ proposal[e].kind # "transaction"
  /\ proposal' = [proposal EXCEPT ![e] = Approved(@, Other)]
  /\ Process(e)
  /\ Release(s)
  /\ UNCHANGED <<case, evidence, txn, trail>>

Reject(s) ==
  /\ Ready(s) /\ session[s].op = "reject"
  /\ proposal' = [proposal EXCEPT ![session[s].event] = [@ EXCEPT !.status = "rejected"]]
  /\ Release(s)
  /\ UNCHANGED <<raw, case, evidence, txn, trail>>

\* mutant: an unmerge repoints all evidence of the transaction it splits
ResolveForAll(e, status, type, from, t) ==
  /\ evidence' = [d \in Event |-> IF d = e \/ (from # NoTxn /\ evidence[d] = from) THEN t ELSE evidence[d]]
  /\ case' = [case EXCEPT ![e] = [@ EXCEPT !.status = status, !.result = t]]
  /\ Audit(e, type, from, t)

\* mutant: the previous transaction is read after the evidence was repointed
ResolveThenAudit(e, status, type, from, t) ==
  /\ evidence' = [evidence EXCEPT ![e] = t]
  /\ case' = [case EXCEPT ![e] = [@ EXCEPT !.status = status, !.result = t]]
  /\ Audit(e, type, IF from = NoTxn THEN NoTxn ELSE t, t)

\* The owner's decision on a case: evidence, case and audit entry together.
Resolve(e, status, type, from, t) ==
  /\ evidence' = [evidence EXCEPT ![e] = t]
  /\ case' = [case EXCEPT ![e] = [@ EXCEPT !.status = status, !.result = t]]
  /\ Audit(e, type, from, t)

\* mutant: only the case is resolved, the proposal stays under reconciliation
CompleteRawOnly(e, t) == Process(e) /\ UNCHANGED proposal

\* _complete_source()
CompleteSource(e, t) ==
  /\ Process(e)
  /\ proposal' = IF LinkedProposal(e) = <<>> THEN proposal ELSE [proposal EXCEPT ![e] = Approved(@, t)]

Merge(s) ==
  LET e == session[s].event IN
  /\ Ready(s) /\ session[s].op = "merge"
  /\ Resolve(e, "merged", "user_merged", NoTxn, case[e].candidate)
  /\ CompleteSource(e, case[e].candidate)
  /\ Release(s)
  /\ UNCHANGED txn

KeepSeparate(s) ==
  LET e == session[s].event IN
  /\ Ready(s) /\ session[s].op = "keep"
  /\ \E t \in Txn :
       /\ Create(t, e)
       /\ Resolve(e, "kept_separate", "user_kept_separate", NoTxn, t)
       /\ CompleteSource(e, t)
  /\ Release(s)

\* The raw event stays processed; its approved proposal follows the evidence.
Unmerge(s) ==
  LET e == session[s].event IN
  /\ Ready(s) /\ session[s].op = "unmerge"
  /\ \E t \in Txn :
       /\ Create(t, e)
       /\ Resolve(e, "unmerged", "user_unmerged", evidence[e], t)
       /\ proposal' = IF LinkedProposal(e) = <<>> THEN proposal ELSE [proposal EXCEPT ![e] = [@ EXCEPT !.target = t]]
  /\ Release(s)
  /\ UNCHANGED raw

Rollback(s) ==
  /\ session[s].op # "idle"
  /\ Release(s)
  /\ UNCHANGED data

\* LedgerService.create_transaction(), or a recorded recurring payment: one insert,
\* without the advisory lock.
EnterManually(t, m) ==
  /\ Create(t, m)
  /\ UNCHANGED <<raw, proposal, case, evidence, trail, session>>

Commit(s) ==
  \/ Post(s) \/ Park(s) \/ Extract(s)
  \/ ApproveTransaction(s) \/ ApproveOther(s) \/ Reject(s)
  \/ Merge(s) \/ KeepSeparate(s) \/ Unmerge(s)

Next ==
  \/ \E s \in Session :
       \/ \E op \in Op, e \in Event : Begin(s, op, e)
       \/ \E l \in Lock : Acquire(s, l)
       \/ Commit(s) \/ Rollback(s)
  \/ \E t \in Txn, m \in Manual : EnterManually(t, m)

Spec == Init /\ [][Next]_vars

-----------------------------------------------------------------------------
(* Properties *)

\* No set of sessions waits for locks that its own members hold. Approvals lock
\* proposal, processing row and owner in this order, a merge locks them in the
\* reverse order: it is the states of the rows that keep the two apart.
NoDeadlock ==
  \A S \in SUBSET Session : S # {} =>
    \E s \in S : \A l \in Lock : Waits(s, l) => \A r \in S : l \notin session[r].held

\* An event is posted to at most one canonical transaction, however often it is
\* delivered, reviewed, merged and unmerged: a transaction that was created from
\* an event is the one that event's evidence points to.
OnePosting == \A t \in Txn, e \in Event : txn[t] = e => evidence[e] = t

\* Two events that resemble each other, scored either way, are never both posted as new without
\* anyone having compared them, however their sessions interleave.
Resemble(d, e) ==
  {Likeness[d, e], Likeness[e, d]} \subseteq {"review", "merge"} \/ <<d, e>> \in SameRef
PostedAsNew(e) == trail[e] # <<>> /\ trail[e][1].type = "created_new"

NoUnseenDuplicate ==
  \A d, e \in Event : d # e /\ PostedAsNew(d) /\ PostedAsNew(e) => ~Resemble(d, e)

\* What case, evidence, proposal and processing row say of one event agrees:
\* a resolved case shows the transaction the evidence points to, and so does the
\* approved proposal; the case keeps to the constraint of its table; an event is processed exactly when something came of it;
\* and a pending case finds what merge and keep_separate ask for.
TargetsConsistent(e) ==
  /\ case[e].status = "pending" => case[e].candidate # NoTxn /\ case[e].result = NoTxn
  /\ case[e].status = "merged" => case[e].result = case[e].candidate
  /\ case[e].status \in {"kept_separate", "unmerged"} => case[e].result # case[e].candidate

EvidenceAgrees(e) ==
  /\ evidence[e] = case[e].result
  /\ evidence[e] = NoTxn <=> case[e].status \in {"none", "pending"}
  /\ proposal[e].status = "approved" => proposal[e].target \in {evidence[e], Other} \ {NoTxn}

ProcessedAgrees(e) ==
  raw[e] = "processed" <=> evidence[e] # NoTxn \/ proposal[e].target = Other

PendingAgrees(e) ==
  /\ case[e].status = "pending" => raw[e] = "needs_review"
  /\ proposal[e].status = "reconciliation_review" <=> case[e].status = "pending" /\ e \in TextEvent

Agreement ==
  \A e \in Event : TargetsConsistent(e) /\ EvidenceAgrees(e) /\ ProcessedAgrees(e) /\ PendingAgrees(e)

\* The insert-only actions replay to the case: each starts from the transaction
\* the one before it ended in, and the last one explains status and result.
Explains == [candidate_flagged |-> "pending", auto_merged |-> "merged", created_new |-> "kept_separate",
             user_merged |-> "merged", user_kept_separate |-> "kept_separate", user_unmerged |-> "unmerged"]

AuditReplays ==
  \A e \in Event :
    LET n == Len(trail[e]) IN
    /\ n = 0 <=> case[e].status = "none"
    /\ n > 0 => /\ trail[e][1].from = NoTxn
                /\ trail[e][n].to = case[e].result
                /\ Explains[trail[e][n].type] = case[e].status
    /\ \A i \in 2..n : trail[e][i].from = trail[e][i - 1].to
=============================================================================
