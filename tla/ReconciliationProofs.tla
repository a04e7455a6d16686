------------------------ MODULE ReconciliationProofs ------------------------
(***************************************************************************)
(* Theorems about ingestion, review and reconciliation, for every number   *)
(* of events, transactions and sessions and every likeness of contents.    *)
(***************************************************************************)
EXTENDS ReconciliationRefinement, TLAPS

-----------------------------------------------------------------------------
(* The inductive invariant *)

(* The locks of an operation that has got as far as h: they are locks of its *)
(* own event, and those of its plan before any that it holds.                *)
HeldShape(op, e, h) ==
  /\ h \subseteq {OwnerLock, ProcessingRow(e), ProposalRow(e)}
  /\ op \in {"post", "park", "fail"} => ProposalRow(e) \notin h
  /\ op \in {"park", "fail", "reject", "extract"} => OwnerLock \notin h
  /\ op \in {"post", "approve"} => (OwnerLock \in h => ProcessingRow(e) \in h)
  /\ op \in {"approve", "reject"} => (ProcessingRow(e) \in h => ProposalRow(e) \in h)
  /\ op \in {"merge", "keep"} => /\ ProcessingRow(e) \in h => OwnerLock \in h
                                 /\ ProposalRow(e) \in h => ProcessingRow(e) \in h
  /\ op = "unmerge" => ProcessingRow(e) \notin h /\ (ProposalRow(e) \in h => OwnerLock \in h)

(* What a session read of its rows still holds while it has their locks; what *)
(* its caller read before it had any only as far as no step can undo it.      *)
StillTrue(op, e, h) ==
  /\ op \in {"post", "fail"} => e \notin TextEvent
  /\ op \in {"post", "park", "fail"} /\ ProcessingRow(e) \in h => raw[e] \notin Terminal
  /\ op = "extract" => /\ e \in TextEvent /\ raw[e] \in Terminal
                       /\ ProposalRow(e) \in h => proposal[e] = NoProposal
                       /\ ProcessingRow(e) \in h /\ ProposalRow(e) \notin h => proposal[e] # NoProposal
  /\ op \in {"approve", "reject"} => /\ proposal[e].status # "none"
                                     /\ ProposalRow(e) \in h => Reviewable(e)
  /\ op = "approve" /\ OwnerLock \in h => proposal[e].kind = "transaction"
  /\ op \in {"merge", "keep"} /\ OwnerLock \in h => Resolvable(e)
  /\ op = "unmerge" /\ OwnerLock \in h => Unmergeable(e)

(* The verdict of a posting holds as long as the owner's lock is held: its  *)
(* candidate exists, and "new" means that nothing posted resembles the event. *)
VerdictHolds(op, e, h, v) ==
  /\ v.decision # "none" => op \in {"post", "approve"} /\ OwnerLock \in h
  /\ v.candidate # NoTxn => txn[v.candidate] # NoContent
  /\ v.decision \in {"merge", "review"} => v.candidate # NoTxn
  /\ v.decision = "new" => \A d \in Event : d # e /\ PostedAsNew(d) => ~Resemble(d, e)

SessionOK(s) ==
  LET op == session[s].op
      e  == session[s].event
      h  == session[s].held
  IN  IF op = "idle" THEN session[s] = IdleSession
      ELSE /\ e \in Event
           /\ HeldShape(op, e, h)
           /\ StillTrue(op, e, h)
           /\ VerdictHolds(op, e, h, session[s].seen)

SessionsOK == \A s \in Session : SessionOK(s)

\* A lock is granted to one session at a time.
Exclusive == \A r, s \in Session : r # s => session[r].held \cap session[s].held = {}

(* The rows of one event beyond what Agreement says of them: a proposal is  *)
(* there only for text and only once its event was parked, its target is    *)
(* the one its approval gave it, and a case refers to transactions that exist. *)
ProposalOK(e) ==
  /\ e \notin TextEvent => proposal[e] = NoProposal
  /\ proposal[e].status = "none" => proposal[e] = NoProposal
  /\ proposal[e].status # "none" => raw[e] \in Terminal
  /\ proposal[e].status # "approved" => proposal[e].target = NoTxn
  /\ proposal[e].status = "approved" /\ proposal[e].kind # "transaction" => proposal[e].target = Other
  /\ proposal[e].status = "approved" /\ proposal[e].kind = "transaction"
       => proposal[e].target = evidence[e]
  /\ e \in TextEvent /\ case[e].status # "none" =>
       proposal[e].kind = "transaction" /\ proposal[e].status \in {"reconciliation_review", "approved"}

CaseOK(e) ==
  /\ case[e].status = "none" => case[e] = NoCase
  /\ case[e].status = "merged" => case[e].candidate # NoTxn
  /\ case[e].candidate # NoTxn => txn[case[e].candidate] # NoContent
  /\ PostedAsNew(e) => case[e].status = "kept_separate" /\ txn[evidence[e]] = e

RowsOK == \A e \in Event : ProposalOK(e) /\ CaseOK(e)

\* The transaction of an event that has one of its own is where its evidence is.
PostingOK ==
  \A t \in Txn, e \in Event :
    txn[t] = e => evidence[e] = t /\ case[e].status \in {"kept_separate", "unmerged"}

IInv ==
  /\ TypeOK /\ Exclusive /\ SessionsOK
  /\ RowsOK /\ PostingOK /\ Agreement /\ AuditReplays /\ NoUnseenDuplicate

-----------------------------------------------------------------------------
(* Locks and plans *)

\* Locks of different rows are different.
LEMMA LockNames ==
  ASSUME NEW d, NEW e
  PROVE  /\ OwnerLock # ProcessingRow(e) /\ OwnerLock # ProposalRow(e)
         /\ ProcessingRow(d) # ProposalRow(e)
         /\ ProcessingRow(d) = ProcessingRow(e) => d = e
         /\ ProposalRow(d) = ProposalRow(e) => d = e
BY DEF OwnerLock, ProcessingRow, ProposalRow

\* The plan of each operation.
LEMMA Plans ==
  ASSUME NEW e, NEW op
  PROVE  /\ op = "post" => Plan(op, e) = <<ProcessingRow(e), OwnerLock>>
         /\ op \in {"park", "fail"} => Plan(op, e) = <<ProcessingRow(e)>>
         /\ op = "extract" /\ proposal[e] = NoProposal
              => Plan(op, e) = <<ProposalRow(e), ProcessingRow(e)>>
         /\ op = "extract" /\ proposal[e] # NoProposal => Plan(op, e) = <<ProcessingRow(e)>>
         /\ op = "approve" /\ proposal[e].kind = "transaction" =>
              Plan(op, e) = <<ProposalRow(e), ProcessingRow(e), OwnerLock>>
         /\ op = "approve" /\ proposal[e].kind # "transaction" =>
              Plan(op, e) = <<ProposalRow(e), ProcessingRow(e)>>
         /\ op = "reject" => Plan(op, e) = <<ProposalRow(e), ProcessingRow(e)>>
         /\ op \in {"merge", "keep"}
              => Plan(op, e) = <<OwnerLock, ProcessingRow(e)>> \o LinkedProposal(e)
         /\ op = "unmerge" => Plan(op, e) = <<OwnerLock>> \o LinkedProposal(e)
<1>1. op = "post" => Plan(op, e) = <<ProcessingRow(e), OwnerLock>>
  BY DEF Plan, PostingPlan
<1>2. op \in {"park", "fail"} => Plan(op, e) = <<ProcessingRow(e)>>
  BY DEF Plan, PostingPlan
<1>3. op = "extract" /\ proposal[e] = NoProposal => Plan(op, e) = <<ProposalRow(e), ProcessingRow(e)>>
  BY DEF Plan, PostingPlan
<1>4. op = "extract" /\ proposal[e] # NoProposal => Plan(op, e) = <<ProcessingRow(e)>>
  BY DEF Plan, PostingPlan
<1>5. op = "approve" /\ proposal[e].kind = "transaction" =>
              Plan(op, e) = <<ProposalRow(e), ProcessingRow(e), OwnerLock>>
  BY DEF Plan, PostingPlan
<1>6. op = "approve" /\ proposal[e].kind # "transaction" =>
              Plan(op, e) = <<ProposalRow(e), ProcessingRow(e)>>
  BY DEF Plan, PostingPlan
<1>7. op = "reject" => Plan(op, e) = <<ProposalRow(e), ProcessingRow(e)>>
  BY DEF Plan, PostingPlan
<1>8. op \in {"merge", "keep"} => Plan(op, e) = <<OwnerLock, ProcessingRow(e)>> \o LinkedProposal(e)
  BY DEF Plan, PostingPlan
<1>9. op = "unmerge" => Plan(op, e) = <<OwnerLock>> \o LinkedProposal(e)
  BY DEF Plan, PostingPlan
<1> QED BY <1>1, <1>2, <1>3, <1>4, <1>5, <1>6, <1>7, <1>8, <1>9

\* A proposal is locked with its event only when it is reviewed or approved.
LEMMA Linked ==
  ASSUME NEW e
  PROVE  /\ LinkedProposal(e) \in {<<>>, <<ProposalRow(e)>>}
         /\ LinkedProposal(e) # <<>> => proposal[e].status \in {"reconciliation_review", "approved"}
BY DEF LinkedProposal

\* What an operation has been granted once it may commit.
Complete(op, e, h) ==
  /\ op \in {"post", "park", "fail", "extract", "merge", "keep"} => ProcessingRow(e) \in h
  /\ op \in {"post", "merge", "keep", "unmerge"} => OwnerLock \in h
  /\ op \in {"approve", "reject"} => ProposalRow(e) \in h /\ ProcessingRow(e) \in h
  /\ op = "approve" /\ proposal[e].kind = "transaction" => OwnerLock \in h
  /\ op = "extract" /\ proposal[e] = NoProposal => ProposalRow(e) \in h
  /\ op \in {"merge", "keep", "unmerge"} /\ LinkedProposal(e) # <<>> => ProposalRow(e) \in h

\* The locks an operation that has been granted h may ask for.
MayAsk(op, e, h, l) ==
  /\ op # "idle" /\ l \notin h
  /\ op = "post" => l = ProcessingRow(e) \/ (l = OwnerLock /\ ProcessingRow(e) \in h)
  /\ op \in {"park", "fail"} => l = ProcessingRow(e)
  /\ op = "extract" =>
       \/ l = ProposalRow(e) /\ proposal[e] = NoProposal
       \/ l = ProcessingRow(e) /\ (proposal[e] # NoProposal \/ ProposalRow(e) \in h)
  /\ op \in {"approve", "reject"} =>
       \/ l = ProposalRow(e)
       \/ l = ProcessingRow(e) /\ ProposalRow(e) \in h
       \/ /\ op = "approve" /\ proposal[e].kind = "transaction"
          /\ l = OwnerLock /\ ProposalRow(e) \in h /\ ProcessingRow(e) \in h
  /\ op \in {"merge", "keep"} =>
       \/ l = OwnerLock
       \/ l = ProcessingRow(e) /\ OwnerLock \in h
       \/ l = ProposalRow(e) /\ OwnerLock \in h /\ ProcessingRow(e) \in h /\ LinkedProposal(e) # <<>>
  /\ op = "unmerge" => l = OwnerLock \/ (l = ProposalRow(e) /\ OwnerLock \in h
       /\ LinkedProposal(e) # <<>>)

\* A session that commits has asked for every lock it needs.
LEMMA ReadyIsComplete ==
  ASSUME NEW s, Ready(s)
  PROVE  Complete(session[s].op, session[s].event, session[s].held)
<1> SUFFICES ASSUME NEW op, NEW e, NEW h, op = session[s].op, e = session[s].event, h = session[s].held
             PROVE  Complete(op, e, h)
  OBVIOUS
<1> DEFINE p == Plan(op, e)
<1>1. \A k \in 1..Len(p) : p[k] \in h
  BY DEF Ready, Granted
<1> HIDE DEF p
<1>2. ASSUME NEW a, p = <<a>> PROVE a \in h
  BY <1>1, <1>2
<1>3. ASSUME NEW a, NEW b, p = <<a, b>> PROVE a \in h /\ b \in h
  BY <1>1, <1>3
<1>4. ASSUME NEW a, NEW b, NEW c, p = <<a, b, c>> PROVE a \in h /\ b \in h /\ c \in h
  BY <1>1, <1>4
<1>5. CASE op \in {"merge", "keep", "unmerge"}
  <2>1. op \in {"merge", "keep"} => p = <<OwnerLock, ProcessingRow(e)>> \o LinkedProposal(e)
    BY Plans DEF p
  <2>2. op = "unmerge" => p = <<OwnerLock>> \o LinkedProposal(e)
    BY Plans DEF p
  <2>3. CASE LinkedProposal(e) = <<>>
    BY <1>2, <1>3, <1>5, <2>1, <2>2, <2>3 DEF Complete
  <2>4. CASE LinkedProposal(e) = <<ProposalRow(e)>>
    BY <1>3, <1>4, <1>5, <2>1, <2>2, <2>4 DEF Complete
  <2> QED BY <2>3, <2>4, Linked
<1>6. CASE op \notin {"merge", "keep", "unmerge"}
  BY <1>2, <1>3, <1>4, <1>6, Plans DEF p, Complete
<1> QED BY <1>5, <1>6

\* A session waits for the next lock in its order.
LEMMA WaitsForNext ==
  ASSUME NEW s, NEW l, Waits(s, l)
  PROVE  MayAsk(session[s].op, session[s].event, session[s].held, l)
<1> SUFFICES ASSUME NEW op, NEW e, NEW h, op = session[s].op, e = session[s].event, h = session[s].held
             PROVE  MayAsk(op, e, h, l)
  OBVIOUS
<1> DEFINE p == Plan(op, e)
<1>1. op # "idle" /\ l \notin h
  BY DEF Waits
<1>2. PICK i \in 1..Len(p) : p[i] = l /\ \A k \in 1..(i - 1) : p[k] \in h
  BY DEF Waits, Granted
<1> HIDE DEF p
<1>3. ASSUME NEW a, p = <<a>> PROVE l = a
  BY <1>2, <1>3
<1>4. ASSUME NEW a, NEW b, p = <<a, b>> PROVE l = a \/ (l = b /\ a \in h)
  BY <1>2, <1>4
<1>5. ASSUME NEW a, NEW b, NEW c, p = <<a, b, c>>
      PROVE  l = a \/ (l = b /\ a \in h) \/ (l = c /\ a \in h /\ b \in h)
  BY <1>2, <1>5
<1>6. CASE op \in {"merge", "keep", "unmerge"}
  <2>1. op \in {"merge", "keep"} => p = <<OwnerLock, ProcessingRow(e)>> \o LinkedProposal(e)
    BY Plans DEF p
  <2>2. op = "unmerge" => p = <<OwnerLock>> \o LinkedProposal(e)
    BY Plans DEF p
  <2>3. CASE LinkedProposal(e) = <<>>
    BY <1>1, <1>3, <1>4, <1>6, <2>1, <2>2, <2>3 DEF MayAsk
  <2>4. CASE LinkedProposal(e) = <<ProposalRow(e)>>
    BY <1>1, <1>4, <1>5, <1>6, <2>1, <2>2, <2>4 DEF MayAsk
  <2> QED BY <2>3, <2>4, Linked
<1>7. CASE op \in {"post", "park", "fail", "reject"}
  BY <1>1, <1>3, <1>4, <1>7, Plans DEF p, MayAsk
<1>8. CASE op = "extract"
  BY <1>1, <1>3, <1>4, <1>8, Plans DEF p, MayAsk
<1>9. CASE op = "approve"
  <2>1. CASE proposal[e].kind = "transaction"
    <3>1. p = <<ProposalRow(e), ProcessingRow(e), OwnerLock>>
      BY <1>9, <2>1, Plans DEF p
    <3> QED BY <1>1, <1>5, <1>9, <2>1, <3>1 DEF MayAsk
  <2>2. CASE proposal[e].kind # "transaction"
    <3>1. p = <<ProposalRow(e), ProcessingRow(e)>>
      BY <1>9, <2>2, Plans DEF p
    <3> QED BY <1>1, <1>4, <1>9, <2>2, <3>1 DEF MayAsk
  <2> QED BY <2>1, <2>2
<1>10. CASE op \notin Op
  BY <1>1, <1>10 DEF MayAsk, Op
<1> QED BY <1>6, <1>7, <1>8, <1>9, <1>10 DEF Op

-----------------------------------------------------------------------------
(* Initial states *)

\* The values that stand for nothing are apart from all others.
LEMMA Constants ==
  /\ TextEvent \subseteq Event /\ NoTxn \notin Txn /\ Other \notin Txn /\ NoTxn # Other
  /\ NoContent \notin Event /\ NoContent \notin Manual
  /\ NoProposal \in Proposal /\ NoCase \in Case /\ Unseen \in Verdict /\ IdleSession \in SessionState
  /\ "failed" \notin Terminal /\ "received" \notin Terminal /\ "absent" \notin Terminal
BY ReconciliationAssumption DEF NoProposal, Proposal, NoCase, Case, Unseen, Verdict, IdleSession,
     SessionState, Terminal

\* The invariant holds while nothing has been ingested.
LEMMA InitInv == Init => IInv
<1> SUFFICES ASSUME Init PROVE IInv
  OBVIOUS
<1>1. TypeOK
  BY Constants DEF Init, TypeOK, RawState
<1>2. Exclusive /\ SessionsOK
  BY DEF Init, Exclusive, SessionsOK, SessionOK, IdleSession
<1>3. RowsOK /\ PostingOK
  BY Constants DEF Init, RowsOK, ProposalOK, CaseOK, NoProposal, NoCase, PostedAsNew, PostingOK
<1>4. Agreement
  BY Constants DEF Init, Agreement, TargetsConsistent, EvidenceAgrees, ProcessedAgrees, PendingAgrees,
       NoProposal, NoCase
<1>5. AuditReplays /\ NoUnseenDuplicate
  BY DEF Init, AuditReplays, NoCase, NoUnseenDuplicate, PostedAsNew
<1> QED BY <1>1, <1>2, <1>3, <1>4, <1>5 DEF IInv

-----------------------------------------------------------------------------
(* The discipline of the locks *)

(* A step of a session that holds h for event e writes a row only under the *)
(* lock of that row, and undoes nothing that others rely on without a lock. *)
Disciplined(e, h) ==
  /\ \A d \in Event :
       /\ raw[d] \in Terminal => raw'[d] \in Terminal
       /\ raw'[d] \in Terminal /\ raw[d] \notin Terminal => d = e /\ ProcessingRow(e) \in h
       /\ proposal'[d] # proposal[d] => d = e /\ ProposalRow(e) \in h
       /\ proposal[d].status # "none" =>
            proposal'[d].status # "none" /\ proposal'[d].kind = proposal[d].kind
  /\ OwnerLock \notin h => UNCHANGED <<case, evidence, trail>>
  /\ \A t \in Txn : txn[t] # NoContent => txn'[t] = txn[t]

\* What other sessions know survives every disciplined step.
LEMMA OthersOK ==
  ASSUME IInv, NEW e, NEW h, Disciplined(e, h),
         NEW r \in Session, UNCHANGED session[r], session[r].held \cap h = {}
  PROVE  SessionOK(r)'
<1> DEFINE op == session[r].op  d == session[r].event  g == session[r].held  v == session[r].seen
<1>1. SessionOK(r) /\ session'[r] = session[r] /\ g \cap h = {}
  BY DEF IInv, SessionsOK
<1>2. CASE op = "idle"
  BY <1>1, <1>2 DEF SessionOK
<1>3. CASE op # "idle"
  <2>1. d \in Event /\ HeldShape(op, d, g) /\ StillTrue(op, d, g) /\ VerdictHolds(op, d, g, v)
    BY <1>1, <1>3 DEF SessionOK
  <2>2. v \in Verdict
    BY DEF IInv, TypeOK, SessionState
  <2> HIDE DEF op, d, g, v
  <2>3. /\ raw[d] \in Terminal => raw'[d] \in Terminal
        /\ ProcessingRow(d) \in g /\ raw[d] \notin Terminal => raw'[d] \notin Terminal
        /\ ProposalRow(d) \in g => proposal'[d] = proposal[d]
        /\ proposal[d].status # "none" => proposal'[d].status # "none"
             /\ proposal'[d].kind = proposal[d].kind
        /\ OwnerLock \in g => case' = case /\ evidence' = evidence /\ trail' = trail
    BY <1>1, <2>1 DEF Disciplined
  <2>4. proposal[d] # NoProposal => proposal'[d] # NoProposal
    BY <2>1, <2>3 DEF IInv, RowsOK, ProposalOK, NoProposal
  <2>5. StillTrue(op, d, g)'
    BY <2>1, <2>3, <2>4 DEF StillTrue, Reviewable, Resolvable, Unmergeable, op, d, g
  <2>6. VerdictHolds(op, d, g, v)'
    <3>1. op' = op /\ d' = d /\ g' = g /\ v' = v
      BY <1>1 DEF op, d, g, v
    <3>2. v.candidate # NoTxn => txn'[v.candidate] # NoContent
      BY <2>1, <2>2 DEF VerdictHolds, Verdict, Disciplined
    <3>3. v.decision = "new" => \A c \in Event : PostedAsNew(c)' = PostedAsNew(c)
      BY <2>1, <2>3 DEF VerdictHolds, PostedAsNew
    <3> QED BY <2>1, <3>1, <3>2, <3>3 DEF VerdictHolds, Resemble
  <2>7. op' = op /\ op' # "idle" /\ (d \in Event)' /\ HeldShape(op, d, g)'
    BY <1>1, <1>3, <2>1 DEF HeldShape, op, d, g
  <2> QED BY <2>5, <2>6, <2>7 DEF SessionOK, op, d, g, v
<1> QED BY <1>2, <1>3

\* A commit releases every lock of its session.
LEMMA Released ==
  ASSUME IInv, NEW s \in Session, Release(s), Disciplined(session[s].event, session[s].held)
  PROVE  session' \in [Session -> SessionState] /\ Exclusive' /\ SessionsOK'
<1>1. \A r \in Session : session'[r] = IF r = s THEN IdleSession ELSE session[r]
  BY DEF Release, IInv, TypeOK
<1>2. session' \in [Session -> SessionState]
  BY Constants DEF Release, IInv, TypeOK
<1>3. Exclusive'
  BY <1>1 DEF IInv, Exclusive, IdleSession
<1>4. ASSUME NEW r \in Session PROVE SessionOK(r)'
  <2>1. CASE r = s
    BY <1>1, <2>1 DEF SessionOK, IdleSession
  <2>2. CASE r # s
    <3>1. UNCHANGED session[r] /\ session[r].held \cap session[s].held = {}
      BY <1>1, <2>2 DEF IInv, Exclusive
    <3> QED BY <3>1, OthersOK
  <2> QED BY <2>1, <2>2
<1> QED BY <1>2, <1>3, <1>4 DEF SessionsOK

-----------------------------------------------------------------------------
(* Rows *)

AuditOK(e) ==
  LET n == Len(trail[e]) IN
  /\ n = 0 <=> case[e].status = "none"
  /\ n > 0 => /\ trail[e][1].from = NoTxn
              /\ trail[e][n].to = case[e].result
              /\ Explains[trail[e][n].type] = case[e].status
  /\ \A i \in 2..n : trail[e][i].from = trail[e][i - 1].to

\* All that the invariant says of the rows of one event.
EventOK(e) ==
  /\ ProposalOK(e) /\ CaseOK(e) /\ AuditOK(e)
  /\ TargetsConsistent(e) /\ EvidenceAgrees(e) /\ ProcessedAgrees(e) /\ PendingAgrees(e)

\* Rows, audit and ledger agree when they do event by event.
LEMMA EventsOK == RowsOK /\ Agreement /\ AuditReplays <=> \A e \in Event : EventOK(e)
BY DEF EventOK, RowsOK, Agreement, AuditReplays, AuditOK

\* An event that a step leaves alone.
LEMMA Untouched ==
  ASSUME TypeOK, NEW d \in Event, EventOK(d),
         UNCHANGED <<raw[d], proposal[d], case[d], evidence[d], trail[d]>>,
         \A t \in Txn : txn[t] # NoContent => txn'[t] = txn[t]
  PROVE  EventOK(d)'
<1>1. case[d].candidate # NoTxn => txn'[case[d].candidate] # NoContent
  BY DEF EventOK, CaseOK, TypeOK, Case
<1>2. PostedAsNew(d) => txn'[evidence[d]] = d
  <2>1. PostedAsNew(d) => evidence[d] \in Txn /\ txn[evidence[d]] = d
    BY Constants DEF EventOK, CaseOK, EvidenceAgrees, TypeOK
  <2> QED BY <2>1, Constants
<1>3. ProposalOK(d)' /\ CaseOK(d)'
  BY <1>1, <1>2 DEF EventOK, ProposalOK, CaseOK, PostedAsNew
<1>4. AuditOK(d)' /\ TargetsConsistent(d)' /\ EvidenceAgrees(d)' /\ ProcessedAgrees(d)'
        /\ PendingAgrees(d)'
  BY DEF EventOK, AuditOK, TargetsConsistent, EvidenceAgrees, ProcessedAgrees, PendingAgrees
<1> QED BY <1>3, <1>4 DEF EventOK

\* A step that touches one event at most keeps the rows of all.
LEMMA OneTouched ==
  ASSUME IInv, NEW e \in Event, EventOK(e)',
         \A d \in Event \ {e} : UNCHANGED <<raw[d], proposal[d], case[d], evidence[d], trail[d]>>,
         \A t \in Txn : txn[t] # NoContent => txn'[t] = txn[t]
  PROVE  RowsOK' /\ Agreement' /\ AuditReplays'
<1>1. \A d \in Event : EventOK(d)
  BY EventsOK DEF IInv
<1>2. ASSUME NEW d \in Event PROVE EventOK(d)'
  <2>1. CASE d = e
    BY <2>1
  <2>2. CASE d # e
    BY <1>1, <2>2, Untouched DEF IInv
  <2> QED BY <2>1, <2>2
<1>3. (\A d \in Event : EventOK(d))'
  BY <1>2
<1>4. (RowsOK /\ Agreement /\ AuditReplays)' <=> (\A d \in Event : EventOK(d))'
  BY DEF EventOK, RowsOK, Agreement, AuditReplays, AuditOK
<1> QED BY <1>3, <1>4

\* A step that decides nothing about an event.
LEMMA NothingPosted ==
  ASSUME IInv, UNCHANGED <<evidence, case, trail, txn>>
  PROVE  PostingOK' /\ NoUnseenDuplicate'
<1>1. PostingOK'
  BY DEF IInv, PostingOK
<1>2. NoUnseenDuplicate'
  BY DEF IInv, NoUnseenDuplicate, PostedAsNew, Resemble
<1> QED BY <1>1, <1>2

\* An entry that continues the trail of its event.
LEMMA Audited ==
  ASSUME TypeOK, NEW e \in Event, AuditOK(e),
         NEW type, NEW from \in Txn \cup {NoTxn}, NEW to \in Txn \cup {NoTxn}, Audit(e, type, from, to),
         type \in DOMAIN Explains, Explains[type] = case'[e].status, case'[e].result = to,
         case[e].status = "none" => from = NoTxn,
         case[e].status # "none" => from = case[e].result
  PROVE  /\ trail' \in [Event -> Seq(Action)]
         /\ \A d \in Event \ {e} : trail'[d] = trail[d]
         /\ AuditOK(e)'
         /\ case[e].status = "none" => trail'[e][1].type = type
         /\ case[e].status # "none" => trail'[e][1] = trail[e][1] /\ trail[e] # <<>>
<1> DEFINE a == [type |-> type, from |-> from, to |-> to]
           q == trail[e]
           n == Len(q)
<1>1. a \in Action /\ a.type = type /\ a.from = from /\ a.to = to
  BY DEF Explains, Action
<1>2. q \in Seq(Action) /\ n \in Nat /\ trail' = [trail EXCEPT ![e] = Append(q, a)]
  BY DEF TypeOK, Audit
<1>3. trail' \in [Event -> Seq(Action)] /\ trail'[e] = Append(q, a)
        /\ \A d \in Event \ {e} : trail'[d] = trail[d]
  BY <1>1, <1>2 DEF TypeOK
<1> HIDE DEF a
<1>4. /\ Len(Append(q, a)) = n + 1
      /\ Append(q, a)[n + 1] = a
      /\ \A i \in 1..n : Append(q, a)[i] = q[i]
  BY <1>1, <1>2
<1>5. n = 0 <=> case[e].status = "none"
  BY DEF AuditOK
<1>6. Explains[type] # "none"
  BY DEF Explains
<1>7. AuditOK(e)'
  <2>1. Len(trail'[e]) = n + 1 /\ n + 1 # 0 /\ case'[e].status # "none"
    BY <1>2, <1>3, <1>4, <1>6
  <2>2. trail'[e][1].from = NoTxn
    BY <1>1, <1>2, <1>3, <1>4, <1>5 DEF AuditOK
  <2>3. trail'[e][n + 1].to = case'[e].result /\ Explains[trail'[e][n + 1].type] = case'[e].status
    BY <1>1, <1>3, <1>4
  <2>4. ASSUME NEW i \in 2..(n + 1) PROVE trail'[e][i].from = trail'[e][i - 1].to
    <3>1. CASE i = n + 1
      <4>1. q[n].to = case[e].result /\ n \in 1..n /\ trail'[e][n] = q[n]
        BY <1>2, <1>3, <1>4, <3>1 DEF AuditOK
      <4> QED BY <1>1, <1>2, <1>3, <1>4, <1>5, <3>1, <4>1
    <3>2. CASE i # n + 1
      BY <1>2, <1>3, <1>4, <3>2 DEF AuditOK
    <3> QED BY <3>1, <3>2
  <2> QED BY <2>1, <2>2, <2>3, <2>4 DEF AuditOK
<1>8. case[e].status = "none" => trail'[e][1].type = type
  BY <1>1, <1>3, <1>4, <1>5
<1>9. case[e].status # "none" => trail'[e][1] = trail[e][1] /\ trail[e] # <<>>
  BY <1>2, <1>3, <1>4, <1>5
<1> QED BY <1>3, <1>7, <1>8, <1>9

-----------------------------------------------------------------------------
(* Sessions begin and take their locks *)

\* A session that begins keeps the invariant.
LEMMA Begins ==
  ASSUME IInv, NEW s \in Session, NEW op \in Op, NEW e \in Event, Begin(s, op, e)
  PROVE  IInv'
<1> DEFINE b == [IdleSession EXCEPT !.op = op, !.event = e]
<1>1. /\ session' = [session EXCEPT ![s] = b] /\ session[s].op = "idle"
      /\ raw' = IF raw[e] = "absent" THEN [raw EXCEPT ![e] = "received"] ELSE raw
      /\ UNCHANGED <<proposal, case, evidence, txn, trail>>
  BY DEF Begin
<1>2. b \in SessionState /\ b.op = op /\ b.event = e /\ b.held = {} /\ b.seen = Unseen
  BY Constants DEF IdleSession, SessionState
<1> HIDE DEF b
<1>3. \A r \in Session : session'[r] = IF r = s THEN b ELSE session[r]
  BY <1>1 DEF IInv, TypeOK
<1>4. \A d \in Event : raw'[d] # raw[d] => raw[d] = "absent" /\ raw'[d] = "received" /\ d = e
  BY <1>1 DEF IInv, TypeOK
<1>5. TypeOK'
  BY <1>1, <1>2 DEF IInv, TypeOK, RawState
<1>6. Exclusive'
  BY <1>2, <1>3 DEF IInv, Exclusive
<1>7. Disciplined(e, {})
  BY <1>1, <1>4, Constants DEF Disciplined
<1>8. SessionsOK'
  <2>1. /\ op \in {"post", "fail"} => e \notin TextEvent
        /\ op = "extract" => e \in TextEvent /\ raw[e] \in Terminal
        /\ op \in {"approve", "reject"} => proposal[e].status = "needs_review"
    BY Zenon DEF Begin, MayBegin
  <2>2. ASSUME NEW r \in Session PROVE SessionOK(r)'
    <3>1. CASE r = s
      <4>1. HeldShape(op, e, {}) /\ VerdictHolds(op, e, {}, Unseen)'
        BY DEF HeldShape, VerdictHolds, Unseen
      <4>2. StillTrue(op, e, {})'
        BY <1>1, <1>4, <2>1, Constants DEF StillTrue
      <4>3. session'[r] = b
        BY <1>3, <3>1
      <4>4. op # "idle"
        BY DEF Op
      <4> QED BY <1>2, <4>1, <4>2, <4>3, <4>4 DEF SessionOK, HeldShape
    <3>2. CASE r # s
      BY <1>3, <1>7, <3>2, OthersOK
    <3> QED BY <3>1, <3>2
  <2> QED BY <2>2 DEF SessionsOK
<1>9. EventOK(e)'
  <2>1. EventOK(e)
    BY EventsOK DEF IInv
  <2>2. /\ raw'[e] \in Terminal <=> raw[e] \in Terminal
        /\ raw'[e] = "processed" <=> raw[e] = "processed"
        /\ raw'[e] = "needs_review" <=> raw[e] = "needs_review"
    BY <1>4 DEF Terminal
  <2>3. ProposalOK(e)' /\ CaseOK(e)'
    BY <1>1, <2>1, <2>2 DEF EventOK, ProposalOK, CaseOK, PostedAsNew
  <2>4. AuditOK(e)' /\ TargetsConsistent(e)' /\ EvidenceAgrees(e)' /\ ProcessedAgrees(e)'
          /\ PendingAgrees(e)'
    BY <1>1, <2>1, <2>2 DEF EventOK, AuditOK, TargetsConsistent, EvidenceAgrees, ProcessedAgrees,
       PendingAgrees
  <2> QED BY <2>3, <2>4 DEF EventOK
<1>10. RowsOK' /\ Agreement' /\ AuditReplays' /\ PostingOK' /\ NoUnseenDuplicate'
  <2>1. \A d \in Event \ {e} : UNCHANGED <<raw[d], proposal[d], case[d], evidence[d], trail[d]>>
    BY <1>1, <1>4
  <2> QED BY <1>1, <1>9, <2>1, OneTouched, NothingPosted
<1> QED BY <1>5, <1>6, <1>8, <1>10 DEF IInv

\* The verdict of the candidates as they are now.
LEMMA Verdicted ==
  ASSUME IInv, NEW e \in Event, NEW v \in Verdicts(e)
  PROVE  /\ v \in Verdict
         /\ v.candidate # NoTxn => txn[v.candidate] # NoContent
         /\ v.decision \in {"merge", "review"} => v.candidate # NoTxn
         /\ v.decision = "new" => \A d \in Event : d # e /\ PostedAsNew(d) => ~Resemble(d, e)
<1> DEFINE B(d) == \/ d = "merge" /\ Candidates(e, "merge") # {}
                   \/ d = "review" /\ Candidates(e, "merge") = {} /\ Candidates(e, "review") # {}
                   \/ d = "new" /\ Candidates(e, "merge") \cup Candidates(e, "review") = {}
           best == CHOOSE d \in {"merge", "review", "new"} : B(d)
<1>1. best \in {"merge", "review", "new"} /\ B(best)
  <2>1. \E d \in {"merge", "review", "new"} : B(d)
    OBVIOUS
  <2> QED BY <2>1, Zenon
<1>2. IF Candidates(e, best) = {} THEN v = [decision |-> "new", candidate |-> NoTxn]
      ELSE \E t \in Candidates(e, best) : v = [decision |-> best, candidate |-> t]
  BY DEF Verdicts
<1> HIDE DEF best
<1>3. ASSUME NEW t \in Candidates(e, best) PROVE t \in Txn /\ txn[t] # NoContent
  BY <1>1, <1>3 DEF Candidates, Standing
<1>4. \/ v = [decision |-> "new", candidate |-> NoTxn]
      \/ \E t \in Txn : v = [decision |-> best, candidate |-> t] /\ txn[t] # NoContent
  BY <1>2, <1>3
<1>5. v \in Verdict /\ v.decision \in {best, "new"}
  BY <1>1, <1>4 DEF Verdict
<1>6. /\ v.candidate # NoTxn => txn[v.candidate] # NoContent
      /\ v.decision \in {"merge", "review"} => v.candidate # NoTxn
  BY <1>4, Constants
<1>7. v.decision = "new" => Candidates(e, "merge") = {} /\ Candidates(e, "review") = {}
  BY <1>1, <1>2
<1>8. ASSUME v.decision = "new", NEW d \in Event, d # e, PostedAsNew(d) PROVE ~Resemble(d, e)
  <2>1. evidence[d] \in Txn /\ txn[evidence[d]] = d
    <3>1. CaseOK(d) /\ EvidenceAgrees(d) /\ evidence[d] \in Txn \cup {NoTxn}
      BY DEF IInv, TypeOK, RowsOK, Agreement
    <3> QED BY <1>8, <3>1 DEF CaseOK, EvidenceAgrees
  <2>2. Standing(e, evidence[d]) \notin {"merge", "review"}
    BY <1>7, <1>8, <2>1 DEF Candidates
  <2>3. <<e, d>> \notin SameRef
    BY <2>1, <2>2, Constants DEF Standing
  <2>4. Likeness[e, d] \notin {"merge", "review"}
    BY <2>1, <2>2, <2>3, Constants, Zenon DEF Standing
  <2> QED BY <2>3, <2>4, ReconciliationAssumption, Zenon DEF Resemble
<1> QED BY <1>5, <1>6, <1>8

\* What a session has checked under its locks.
LEMMA Passed ==
  ASSUME NEW op, NEW e, NEW l, Passes(op, e, l)
  PROVE  /\ op \in {"post", "park", "fail"} /\ l = ProcessingRow(e) => raw[e] \notin Terminal
         /\ op \in {"approve", "reject"} /\ l = ProposalRow(e) => Reviewable(e)
         /\ op \in {"merge", "keep"} /\ l = OwnerLock => Resolvable(e)
         /\ op = "unmerge" /\ l = OwnerLock => Unmergeable(e)
<1>1. op \in {"post", "park", "fail"} /\ l = ProcessingRow(e) => raw[e] \notin Terminal
  BY Zenon DEF Passes
<1>2. op \in {"approve", "reject"} /\ l = ProposalRow(e) => Reviewable(e)
  BY Zenon DEF Passes
<1>3. ASSUME op \in {"merge", "keep"}, l = OwnerLock PROVE Resolvable(e)
  <2>1. l # ProcessingRow(e) /\ l # ProposalRow(e)
    BY <1>3, LockNames
  <2> QED BY <1>3, <2>1, Zenon DEF Passes
<1>4. op = "unmerge" /\ l = OwnerLock => Unmergeable(e)
  BY Zenon DEF Passes
<1> QED BY <1>1, <1>2, <1>3, <1>4

\* A session that gets a lock keeps the invariant.
LEMMA Acquires ==
  ASSUME IInv, NEW s \in Session, NEW l \in Lock, Acquire(s, l)
  PROVE  IInv'
<1>1. PICK op, e, h : op = session[s].op /\ e = session[s].event /\ h = session[s].held
  OBVIOUS
<1>2. Waits(s, l) /\ Free(l) /\ Passes(op, e, l) /\ UNCHANGED data
  BY <1>1 DEF Acquire
<1>3. PICK v \in IF Scores(op, e, l) THEN Verdicts(e) ELSE {Unseen} :
        session' = [session EXCEPT ![s].held = @ \cup {l}, ![s].seen = v]
  BY <1>1 DEF Acquire
<1>4. op # "idle" /\ MayAsk(op, e, h, l)
  BY <1>1, <1>2, WaitsForNext DEF Waits
<1>5. /\ op \in Op /\ e \in Event /\ session[s] \in SessionState
      /\ HeldShape(op, e, h) /\ StillTrue(op, e, h)
  BY <1>1, <1>4 DEF IInv, SessionsOK, SessionOK, TypeOK, SessionState
<1> DEFINE b == [session[s] EXCEPT !.held = @ \cup {l}, !.seen = v]
<1>6. /\ Scores(op, e, l) => v \in Verdicts(e) /\ op \in {"post", "approve"} /\ l = OwnerLock
      /\ ~Scores(op, e, l) => v = Unseen
  <2>1. ASSUME Scores(op, e, l) PROVE op \in {"post", "approve"} /\ l = OwnerLock
    <3>1. op = "post" \/ (op = "approve" /\ proposal[e].kind = "transaction")
      BY <2>1 DEF Scores
    <3>2. l = Plan(op, e)[Len(Plan(op, e))]
      BY <2>1 DEF Scores
    <3>3. \/ Plan(op, e) = <<ProcessingRow(e), OwnerLock>>
          \/ Plan(op, e) = <<ProposalRow(e), ProcessingRow(e), OwnerLock>>
      BY <3>1, Plans
    <3> QED BY <3>1, <3>2, <3>3
  <2> QED BY <1>3, <2>1
<1>7. v \in Verdict
  BY <1>3, <1>5, <1>6, Verdicted, Constants
<1>8. b \in SessionState /\ b.op = op /\ b.event = e /\ b.held = h \cup {l} /\ b.seen = v
  BY <1>1, <1>5, <1>7 DEF SessionState
<1>9. session' = [session EXCEPT ![s] = b]
  BY <1>3 DEF IInv, TypeOK
<1> HIDE DEF b
<1>10. \A r \in Session : session'[r] = IF r = s THEN b ELSE session[r]
  BY <1>9 DEF IInv, TypeOK
<1>11. TypeOK'
  BY <1>2, <1>8, <1>9 DEF IInv, TypeOK, data
<1>12. Exclusive'
  <2>1. \A r \in Session : l \notin session[r].held
    BY <1>2 DEF Free
  <2> QED BY <1>1, <1>8, <1>10, <2>1 DEF IInv, Exclusive
<1>13. HeldShape(op, e, h \cup {l})
  <2>1. OwnerLock # ProcessingRow(e) /\ OwnerLock # ProposalRow(e) /\ ProcessingRow(e) # ProposalRow(e)
    BY LockNames
  <2>2. CASE op \in {"post", "park", "fail", "extract"}
    BY <1>4, <1>5, <2>1, <2>2 DEF HeldShape, MayAsk
  <2>3. CASE op \in {"approve", "reject"}
    BY <1>4, <1>5, <2>1, <2>3 DEF HeldShape, MayAsk
  <2>4. CASE op \in {"merge", "keep", "unmerge"}
    BY <1>4, <1>5, <2>1, <2>4 DEF HeldShape, MayAsk
  <2> QED BY <1>5, <2>2, <2>3, <2>4 DEF Op
<1>14. StillTrue(op, e, h \cup {l})
  <2>1. /\ op \in {"post", "park", "fail"} /\ l = ProcessingRow(e) => raw[e] \notin Terminal
        /\ op \in {"approve", "reject"} /\ l = ProposalRow(e) => Reviewable(e)
        /\ op \in {"merge", "keep"} /\ l = OwnerLock => Resolvable(e)
        /\ op = "unmerge" /\ l = OwnerLock => Unmergeable(e)
    BY <1>2, Passed
  <2>2. op = "approve" /\ l = OwnerLock => proposal[e].kind = "transaction"
    BY <1>4, LockNames DEF MayAsk
  <2>3. op = "extract" =>
          /\ l = ProposalRow(e) => proposal[e] = NoProposal
          /\ l = ProcessingRow(e) /\ ProposalRow(e) \notin h => proposal[e] # NoProposal
    BY <1>4, LockNames DEF MayAsk
  <2> QED BY <1>5, <2>1, <2>2, <2>3, LockNames DEF StillTrue
<1>15. VerdictHolds(op, e, h \cup {l}, v)
  BY <1>5, <1>6, Verdicted DEF VerdictHolds, Unseen
<1>16. SessionsOK'
  <2>1. Disciplined(e, {})
    BY <1>2 DEF Disciplined, data
  <2>2. ASSUME NEW r \in Session PROVE SessionOK(r)'
    <3>1. CASE r = s
      <4>1. session'[r] = b
        BY <1>10, <3>1
      <4>2. StillTrue(op, e, h \cup {l})' /\ VerdictHolds(op, e, h \cup {l}, v)'
        BY <1>2, <1>14, <1>15
           DEF StillTrue, VerdictHolds, Reviewable, Resolvable, Unmergeable, PostedAsNew, Resemble, data
      <4> QED BY <1>4, <1>5, <1>8, <1>13, <4>1, <4>2 DEF SessionOK, HeldShape, StillTrue, VerdictHolds
    <3>2. CASE r # s
      BY <1>10, <2>1, <3>2, OthersOK
    <3> QED BY <3>1, <3>2
  <2> QED BY <2>2 DEF SessionsOK
<1>17. RowsOK' /\ Agreement' /\ AuditReplays' /\ PostingOK' /\ NoUnseenDuplicate'
  <2>1. UNCHANGED <<raw, proposal, case, evidence, txn, trail>>
    BY <1>2 DEF data
  <2>2. \A d \in Event : EventOK(d)
    BY EventsOK DEF IInv
  <2>3. EventOK(e)'
    <3>1. EventOK(e) /\ TypeOK /\ UNCHANGED <<raw[e], proposal[e], case[e], evidence[e], trail[e]>>
      BY <1>5, <2>1, <2>2 DEF IInv
    <3> QED BY <1>5, <2>1, <3>1, Untouched
  <2>4. \A d \in Event \ {e} : UNCHANGED <<raw[d], proposal[d], case[d], evidence[d], trail[d]>>
    BY <2>1
  <2> QED BY <1>5, <2>1, <2>3, <2>4, OneTouched, NothingPosted
<1> QED BY <1>11, <1>12, <1>16, <1>17 DEF IInv

-----------------------------------------------------------------------------
(* Commits *)

\* What a session that commits still knows.
LEMMA Committing ==
  ASSUME IInv, NEW s \in Session, Ready(s)
  PROVE  /\ session[s].op \in Op /\ session[s].event \in Event /\ session[s].seen \in Verdict
         /\ Complete(session[s].op, session[s].event, session[s].held)
         /\ HeldShape(session[s].op, session[s].event, session[s].held)
         /\ StillTrue(session[s].op, session[s].event, session[s].held)
         /\ VerdictHolds(session[s].op, session[s].event, session[s].held, session[s].seen)
<1>1. session[s].op # "idle" /\ SessionOK(s) /\ session[s] \in SessionState
  BY DEF Ready, IInv, SessionsOK, TypeOK
<1> QED BY <1>1, ReadyIsComplete DEF SessionOK, SessionState

\* What is left to show of a commit.
LEMMA Commits ==
  ASSUME IInv, NEW s \in Session, NEW e \in Event, e = session[s].event, Release(s),
         Disciplined(e, session[s].held),
         raw' \in [Event -> RawState] /\ proposal' \in [Event -> Proposal] /\ case' \in [Event -> Case],
         evidence' \in [Event -> Txn \cup {NoTxn}]
           /\ txn' \in [Txn -> Event \cup Manual \cup {NoContent}],
         trail' \in [Event -> Seq(Action)],
         \A d \in Event \ {e} : UNCHANGED <<raw[d], proposal[d], case[d], evidence[d], trail[d]>>,
         EventOK(e)', PostingOK', NoUnseenDuplicate'
  PROVE  IInv'
<1>1. session' \in [Session -> SessionState] /\ Exclusive' /\ SessionsOK'
  BY Released
<1>2. \A t \in Txn : txn[t] # NoContent => txn'[t] = txn[t]
  BY DEF Disciplined
<1>3. RowsOK' /\ Agreement' /\ AuditReplays'
  BY <1>2, OneTouched
<1> QED BY <1>1, <1>3 DEF IInv, TypeOK

\* A commit that decides nothing about its event.
LEMMA CommitsPlain ==
  ASSUME IInv, NEW s \in Session, NEW e \in Event, e = session[s].event, Release(s),
         NEW st \in RawState, NEW p \in Proposal,
         raw' = [raw EXCEPT ![e] = st], proposal' = [proposal EXCEPT ![e] = p],
         UNCHANGED <<case, evidence, txn, trail>>,
         st # raw[e] => ProcessingRow(e) \in session[s].held
           /\ (raw[e] \in Terminal => st \in Terminal),
         p # proposal[e] => ProposalRow(e) \in session[s].held
                            /\ (proposal[e].status # "none" => p.status # "none"
                                 /\ p.kind = proposal[e].kind),
         ProposalOK(e)', ProcessedAgrees(e)', PendingAgrees(e)', EvidenceAgrees(e)'
  PROVE  IInv'
<1>1. /\ raw' \in [Event -> RawState] /\ raw'[e] = st /\ \A d \in Event \ {e} : raw'[d] = raw[d]
      /\ proposal' \in [Event -> Proposal] /\ proposal'[e] = p
      /\ \A d \in Event \ {e} : proposal'[d] = proposal[d]
  BY DEF IInv, TypeOK
<1>2. Disciplined(e, session[s].held)
  BY <1>1 DEF Disciplined
<1>3. EventOK(e)'
  <2>1. EventOK(e)
    BY EventsOK DEF IInv
  <2>2. CaseOK(e)' /\ AuditOK(e)' /\ TargetsConsistent(e)'
    BY <2>1 DEF EventOK, CaseOK, AuditOK, TargetsConsistent, PostedAsNew
  <2> QED BY <2>2 DEF EventOK
<1>4. PostingOK' /\ NoUnseenDuplicate'
  BY NothingPosted
<1>5. \A d \in Event \ {e} : UNCHANGED <<raw[d], proposal[d], case[d], evidence[d], trail[d]>>
  BY <1>1
<1> QED BY <1>1, <1>2, <1>3, <1>4, <1>5, Commits DEF IInv, TypeOK

\* A parked event keeps the invariant when it commits.
LEMMA ParkCommits ==
  ASSUME IInv, NEW s \in Session, Park(s)
  PROVE  IInv'
<1>1. PICK op, e, h : op = session[s].op /\ e = session[s].event /\ h = session[s].held
  OBVIOUS
<1>2. PICK st \in {"needs_review", "failed"} :
        /\ st = "failed" => op = "fail"
        /\ op \in {"park", "fail"} /\ raw' = [raw EXCEPT ![e] = st]
        /\ Release(s) /\ UNCHANGED <<proposal, case, evidence, txn, trail>>
  BY <1>1 DEF Park
<1>3. e \in Event /\ Complete(op, e, h) /\ StillTrue(op, e, h)
  BY <1>1, Committing DEF Park
<1>4. raw[e] \notin Terminal /\ ProcessingRow(e) \in h /\ st \in RawState
  BY <1>2, <1>3 DEF Complete, StillTrue, RawState, Terminal
<1>5. EventOK(e) /\ TypeOK
  BY <1>3, EventsOK DEF IInv
<1>6. raw'[e] = st /\ UNCHANGED <<proposal, case, evidence, txn, trail>>
  BY <1>2, <1>3, <1>5 DEF TypeOK
<1>7. raw[e] # "processed" /\ raw[e] # "needs_review" /\ proposal[e].status = "none"
  BY <1>4, <1>5 DEF EventOK, ProposalOK, Terminal
<1>8. ProposalOK(e)' /\ ProcessedAgrees(e)' /\ PendingAgrees(e)' /\ EvidenceAgrees(e)'
  BY <1>5, <1>6, <1>7 DEF EventOK, ProposalOK, ProcessedAgrees, PendingAgrees, EvidenceAgrees
<1>9. proposal' = [proposal EXCEPT ![e] = proposal[e]] /\ proposal[e] \in Proposal
  BY <1>3, <1>5, <1>6 DEF TypeOK
<1> QED BY <1>1, <1>2, <1>3, <1>4, <1>8, <1>9, CommitsPlain

\* An extraction keeps the invariant when it commits.
LEMMA ExtractCommits ==
  ASSUME IInv, NEW s \in Session, Extract(s)
  PROVE  IInv'
<1>1. PICK op, e, h : op = session[s].op /\ e = session[s].event /\ h = session[s].held
  OBVIOUS
<1>2. op = "extract" /\ Release(s) /\ UNCHANGED <<raw, case, evidence, txn, trail>>
  BY <1>1 DEF Extract
<1>3. e \in Event /\ Complete(op, e, h) /\ StillTrue(op, e, h)
  BY <1>1, Committing DEF Extract
<1>4. EventOK(e) /\ TypeOK
  BY <1>3, EventsOK DEF IInv
<1>5. PICK p \in Proposal :
        /\ proposal' = [proposal EXCEPT ![e] = p]
        /\ p # proposal[e] => /\ proposal[e] = NoProposal
                              /\ p.status = "needs_review" /\ p.target = NoTxn
  <2>1. CASE proposal[e] = NoProposal
    <3>1. PICK k \in {"transaction", "other", "unusable"} :
            proposal' = [proposal EXCEPT ![e] = [status |-> "needs_review", kind |-> k,
              target |-> NoTxn]]
      BY <1>1, <2>1 DEF Extract
    <3>2. [status |-> "needs_review", kind |-> k, target |-> NoTxn] \in Proposal
      BY DEF Proposal
    <3> QED BY <2>1, <3>1, <3>2
  <2>2. CASE proposal[e] # NoProposal
    <3>1. proposal' = [proposal EXCEPT ![e] = proposal[e]] /\ proposal[e] \in Proposal
      BY <1>1, <1>3, <1>4, <2>2 DEF Extract, TypeOK
    <3> QED BY <3>1
  <2> QED BY <2>1, <2>2
<1>6. raw' = [raw EXCEPT ![e] = raw[e]] /\ raw[e] \in RawState /\ raw'[e] = raw[e] /\ proposal'[e] = p
  BY <1>2, <1>3, <1>4, <1>5 DEF TypeOK
<1>7. p # proposal[e] => proposal[e].status = "none" /\ ProposalRow(e) \in h
  BY <1>2, <1>3, <1>5 DEF NoProposal, Complete
<1>8. ProposalOK(e)' /\ ProcessedAgrees(e)' /\ PendingAgrees(e)' /\ EvidenceAgrees(e)'
  <2>1. CASE p = proposal[e]
    BY <1>2, <1>4, <1>6, <2>1 DEF EventOK, ProposalOK, ProcessedAgrees, PendingAgrees, EvidenceAgrees
  <2>2. CASE p # proposal[e]
    <3>1. e \in TextEvent /\ raw[e] \in Terminal /\ case[e].status = "none"
            /\ proposal[e].target = NoTxn
      BY <1>2, <1>3, <1>4, <1>5, <1>7, <2>2 DEF EventOK, ProposalOK, StillTrue, NoProposal
    <3> QED BY <1>2, <1>4, <1>5, <1>6, <2>2, <3>1, Constants
            DEF EventOK, ProposalOK, ProcessedAgrees, PendingAgrees, EvidenceAgrees
  <2> QED BY <2>1, <2>2
<1> QED BY <1>1, <1>2, <1>3, <1>5, <1>6, <1>7, <1>8, CommitsPlain

\* An approval of another kind or a rejection keeps the invariant when it commits.
LEMMA ReviewCommits ==
  ASSUME IInv, NEW s \in Session, ApproveOther(s) \/ Reject(s)
  PROVE  IInv'
<1>1. PICK op, e, h : op = session[s].op /\ e = session[s].event /\ h = session[s].held
  OBVIOUS
<1>2. op \in {"approve", "reject"} /\ Release(s) /\ UNCHANGED <<case, evidence, txn, trail>>
  BY <1>1 DEF ApproveOther, Reject
<1>3. e \in Event /\ Complete(op, e, h) /\ StillTrue(op, e, h)
  BY <1>1, Committing DEF ApproveOther, Reject
<1>4. EventOK(e) /\ TypeOK
  BY <1>3, EventsOK DEF IInv
<1>5. /\ ProposalRow(e) \in h /\ ProcessingRow(e) \in h
      /\ proposal[e] \in Proposal /\ raw[e] \in RawState
      /\ proposal[e].status = "needs_review" /\ proposal[e].target = NoTxn /\ raw[e] \in Terminal
      /\ e \in TextEvent /\ case[e].status = "none"
  BY <1>2, <1>3, <1>4 DEF Complete, StillTrue, Reviewable, EventOK, ProposalOK, TypeOK, NoProposal
<1>6. PICK st \in RawState, p \in Proposal :
        /\ raw' = [raw EXCEPT ![e] = st] /\ proposal' = [proposal EXCEPT ![e] = p]
        /\ \/ /\ raw[e] = "needs_review" /\ st = "processed" /\ p.status = "approved"
             /\ p.target = Other
              /\ p.kind = proposal[e].kind /\ p.kind # "transaction"
           \/ /\ st = raw[e] /\ p.status = "rejected" /\ p.target = NoTxn /\ p.kind = proposal[e].kind
  <2>1. CASE ApproveOther(s)
    <3> DEFINE p == [proposal[e] EXCEPT !.status = "approved", !.target = Other]
    <3>1. p \in Proposal /\ p.status = "approved" /\ p.target = Other /\ p.kind = proposal[e].kind
      BY <1>5 DEF Proposal
    <3>2. proposal' = [proposal EXCEPT ![e] = p]
      BY <1>1, <2>1 DEF ApproveOther, Approved
    <3>3. /\ raw[e] = "needs_review" /\ raw' = [raw EXCEPT ![e] = "processed"]
          /\ proposal[e].kind # "transaction"
      BY <1>1, <2>1 DEF ApproveOther, Process
    <3> QED BY <3>1, <3>2, <3>3 DEF RawState, Terminal
  <2>2. CASE Reject(s)
    <3> DEFINE p == [proposal[e] EXCEPT !.status = "rejected"]
    <3>1. p \in Proposal /\ p.status = "rejected" /\ p.target = NoTxn /\ p.kind = proposal[e].kind
      BY <1>5 DEF Proposal
    <3>2. proposal' = [proposal EXCEPT ![e] = p]
      BY <1>1, <2>2 DEF Reject
    <3>3. raw' = [raw EXCEPT ![e] = raw[e]]
      BY <1>3, <1>4, <2>2 DEF Reject, TypeOK
    <3> QED BY <1>5, <3>1, <3>2, <3>3
  <2> QED BY <2>1, <2>2
<1>7. raw'[e] = st /\ proposal'[e] = p
  BY <1>3, <1>4, <1>6 DEF TypeOK
<1>8. ProposalOK(e)' /\ ProcessedAgrees(e)' /\ PendingAgrees(e)' /\ EvidenceAgrees(e)'
  BY <1>2, <1>4, <1>5, <1>6, <1>7, Constants
     DEF EventOK, ProposalOK, ProcessedAgrees, PendingAgrees, EvidenceAgrees, Terminal
<1> QED BY <1>1, <1>2, <1>3, <1>5, <1>6, <1>8, CommitsPlain DEF Terminal

(* The three ends of reconcile_transaction(), told apart by what they write. *)
Decided(e, v, status, type, t) ==
  /\ Decide(e, v, status, type, t)
  /\ \/ /\ v.decision = "merge" /\ status = "merged" /\ type = "auto_merged"
        /\ t = v.candidate /\ UNCHANGED txn
     \/ /\ v.decision = "new" /\ status = "kept_separate" /\ type = "created_new"
        /\ t \in Txn /\ Create(t, e)
     \/ /\ v.decision = "review" /\ status = "pending" /\ type = "candidate_flagged"
        /\ t = NoTxn /\ UNCHANGED txn

\* Each way a reconciliation ends decides the event once.
LEMMA Ends ==
  ASSUME NEW e, NEW v
  PROVE  /\ AutoMerge(e, v) => Decided(e, v, "merged", "auto_merged", v.candidate)
         /\ \A t \in Txn : CreateNew(e, v, t) => Decided(e, v, "kept_separate", "created_new", t)
         /\ Flag(e, v) => Decided(e, v, "pending", "candidate_flagged", NoTxn)
BY DEF AutoMerge, CreateNew, Flag, Decided

(* What they make of the rows of an event that had no case. *)
LEMMA Decides ==
  ASSUME IInv, NEW e \in Event, NEW v \in Verdict,
         v.candidate # NoTxn => txn[v.candidate] # NoContent,
         v.decision \in {"merge", "review"} => v.candidate # NoTxn,
         v.decision = "new" => \A d \in Event : d # e /\ PostedAsNew(d) => ~Resemble(d, e),
         NEW status, NEW type, NEW t \in Txn \cup {NoTxn}, Decided(e, v, status, type, t)
  PROVE  /\ case' \in [Event -> Case] /\ evidence' \in [Event -> Txn \cup {NoTxn}]
         /\ txn' \in [Txn -> Event \cup Manual \cup {NoContent}] /\ trail' \in [Event -> Seq(Action)]
         /\ \A c \in Txn : txn[c] # NoContent => txn'[c] = txn[c]
         /\ \A d \in Event \ {e} : UNCHANGED <<case[d], evidence[d], trail[d]>>
         /\ case[e].status = "none" /\ evidence[e] = NoTxn
         /\ case'[e].status = status /\ case'[e].result = t /\ evidence'[e] = t
         /\ CaseOK(e)' /\ AuditOK(e)' /\ TargetsConsistent(e)'
         /\ PostingOK' /\ NoUnseenDuplicate'
<1> USE DEF Decided
<1> DEFINE c == [status |-> status, candidate |-> v.candidate, result |-> t]
<1>1. EventOK(e) /\ TypeOK /\ \A d \in Event : EventOK(d)
  BY EventsOK DEF IInv
<1>2. case[e].status = "none" /\ case' = [case EXCEPT ![e] = c]
        /\ evidence' = [evidence EXCEPT ![e] = t]
  BY DEF Decide
<1>3. evidence[e] = NoTxn /\ case[e].result = NoTxn
  BY <1>1, <1>2 DEF EventOK, EvidenceAgrees
<1>4. v.candidate \in Txn \cup {NoTxn} /\ v.decision \in {"none", "merge", "review", "new"}
  BY DEF Verdict
<1>5. c \in Case /\ c.status = status /\ c.candidate = v.candidate /\ c.result = t
  BY <1>4 DEF Case
<1> HIDE DEF c
<1>6. case' \in [Event -> Case] /\ case'[e] = c /\ \A d \in Event \ {e} : case'[d] = case[d]
  BY <1>1, <1>2, <1>5 DEF TypeOK
<1>7. evidence' \in [Event -> Txn \cup {NoTxn}] /\ evidence'[e] = t
      /\ \A d \in Event \ {e} : evidence'[d] = evidence[d]
  BY <1>1, <1>2 DEF TypeOK
<1>8. Audit(e, type, NoTxn, t) /\ type \in DOMAIN Explains /\ Explains[type] = status
  BY DEF Decide, Explains
<1>9. /\ trail' \in [Event -> Seq(Action)] /\ \A d \in Event \ {e} : trail'[d] = trail[d]
      /\ AuditOK(e)' /\ trail'[e][1].type = type
  <2>1. TypeOK /\ AuditOK(e) /\ NoTxn \in Txn \cup {NoTxn}
    BY <1>1 DEF EventOK
  <2>2. Explains[type] = case'[e].status /\ case'[e].result = t
    BY <1>5, <1>6, <1>8
  <2> QED BY <1>2, <1>8, <2>1, <2>2, Audited, Zenon
<1>10. /\ txn' \in [Txn -> Event \cup Manual \cup {NoContent}]
       /\ \A d \in Txn : txn[d] # NoContent => txn'[d] = txn[d]
       /\ \A d \in Txn : txn'[d] # txn[d] => d = t /\ txn'[d] = e /\ status = "kept_separate"
  BY <1>1 DEF TypeOK, Create
<1>11. status = "kept_separate" => t \in Txn /\ txn[t] = NoContent /\ txn'[t] = e
  BY <1>1 DEF TypeOK, Create
<1>12. CaseOK(e)'
  <2>1. v.candidate # NoTxn => txn'[v.candidate] # NoContent
    BY <1>4, <1>10
  <2>2. PostedAsNew(e)' => status = "kept_separate"
    BY <1>9 DEF PostedAsNew
  <2>3. status \in {"merged", "pending"} => v.candidate # NoTxn
    OBVIOUS
  <2> QED BY <1>5, <1>6, <1>7, <1>11, <2>1, <2>2, <2>3 DEF CaseOK
<1>13. TargetsConsistent(e)'
  BY <1>5, <1>6, <1>11, Constants DEF TargetsConsistent
<1>14. PostingOK'
  <2>1. ASSUME NEW k \in Txn, NEW d \in Event, txn'[k] = d
        PROVE  evidence'[d] = k /\ case'[d].status \in {"kept_separate", "unmerged"}
    <3>1. CASE d = e
      <4>1. txn[k] # e
        BY <1>2 DEF IInv, PostingOK
      <4> QED BY <1>5, <1>6, <1>7, <1>10, <2>1, <3>1, <4>1
    <3>2. CASE d # e
      BY <1>6, <1>7, <1>10, <2>1, <3>2 DEF IInv, PostingOK
    <3> QED BY <3>1, <3>2
  <2> QED BY <2>1 DEF PostingOK
<1>15. NoUnseenDuplicate'
  <2>1. ASSUME NEW d \in Event \ {e}, PostedAsNew(d)' PROVE PostedAsNew(d)
    BY <1>9, <2>1 DEF PostedAsNew
  <2>2. ASSUME PostedAsNew(e)', NEW d \in Event \ {e}, PostedAsNew(d)
        PROVE  ~Resemble(d, e) /\ ~Resemble(e, d)
    <3>1. v.decision = "new"
      BY <1>9, <2>2 DEF PostedAsNew
    <3>2. ~Resemble(d, e)
      BY <2>2, <3>1
    <3> QED BY <3>2, ReconciliationAssumption, Zenon DEF Resemble
  <2>3. ASSUME NEW d \in Event, NEW f \in Event, d # f, PostedAsNew(d)', PostedAsNew(f)'
        PROVE  ~Resemble(d, f)
    <3>1. CASE d # e /\ f # e
      BY <2>1, <2>3, <3>1 DEF IInv, NoUnseenDuplicate
    <3>2. CASE d = e \/ f = e
      BY <2>1, <2>2, <2>3, <3>2
    <3> QED BY <3>1, <3>2
  <2> QED BY <2>3, Zenon DEF NoUnseenDuplicate, Resemble
<1> QED BY <1>2, <1>3, <1>5, <1>6, <1>7, <1>9, <1>10, <1>12, <1>13, <1>14, <1>15

\* A posting that commits, with or without a proposal that led to it.
Posts(s, e, h, v, status, type, t, st, p) ==
  /\ e = session[s].event /\ h = session[s].held /\ Release(s)
  /\ OwnerLock \in h /\ ProcessingRow(e) \in h
  /\ \E op \in Op : VerdictHolds(op, e, h, v)
  /\ Decided(e, v, status, type, t) /\ t \in Txn \cup {NoTxn}
  /\ st = (IF t = NoTxn THEN "needs_review" ELSE "processed")
  /\ raw' = [raw EXCEPT ![e] = st] /\ proposal' = [proposal EXCEPT ![e] = p] /\ p \in Proposal
  /\ \/ e \notin TextEvent /\ p = proposal[e]
     \/ /\ e \in TextEvent /\ ProposalRow(e) \in h
        /\ proposal[e].status = "needs_review" /\ proposal[e].kind = "transaction"
        /\ p.kind = "transaction" /\ p.target = t
        /\ p.status = (IF t = NoTxn THEN "reconciliation_review" ELSE "approved")

\* Posting one event, with the ledger and the audit it writes, keeps the invariant.
LEMMA PostingCommits ==
  ASSUME IInv, NEW s \in Session, NEW e \in Event, NEW h, NEW v \in Verdict,
         NEW status, NEW type, NEW t, NEW st, NEW p, Posts(s, e, h, v, status, type, t, st, p)
  PROVE  IInv'
<1> USE DEF Posts
<1>1. EventOK(e) /\ TypeOK
  BY EventsOK DEF IInv
<1>2. /\ case' \in [Event -> Case] /\ evidence' \in [Event -> Txn \cup {NoTxn}]
      /\ txn' \in [Txn -> Event \cup Manual \cup {NoContent}] /\ trail' \in [Event -> Seq(Action)]
      /\ \A c \in Txn : txn[c] # NoContent => txn'[c] = txn[c]
      /\ \A d \in Event \ {e} : UNCHANGED <<case[d], evidence[d], trail[d]>>
      /\ case'[e].status = status /\ case'[e].result = t /\ evidence'[e] = t
      /\ CaseOK(e)' /\ AuditOK(e)' /\ TargetsConsistent(e)'
      /\ PostingOK' /\ NoUnseenDuplicate'
  <2>1. /\ v.candidate # NoTxn => txn[v.candidate] # NoContent
        /\ v.decision \in {"merge", "review"} => v.candidate # NoTxn
        /\ v.decision = "new" => \A d \in Event : d # e /\ PostedAsNew(d) => ~Resemble(d, e)
    BY DEF VerdictHolds
  <2> QED BY <2>1, Decides
<1>3. /\ raw' \in [Event -> RawState] /\ raw'[e] = st /\ \A d \in Event \ {e} : raw'[d] = raw[d]
      /\ proposal' \in [Event -> Proposal] /\ proposal'[e] = p
      /\ \A d \in Event \ {e} : proposal'[d] = proposal[d]
  BY <1>1 DEF TypeOK, RawState, Terminal
<1>4. status \in {"pending", "merged", "kept_separate"} /\ (status = "pending" <=> t = NoTxn)
  BY Constants DEF VerdictHolds, Decided
<1>5. Disciplined(e, h)
  BY <1>2, <1>3 DEF Disciplined, Terminal
<1>6. ProposalOK(e)' /\ EvidenceAgrees(e)' /\ ProcessedAgrees(e)' /\ PendingAgrees(e)'
  <2>1. CASE e \notin TextEvent /\ p = proposal[e]
    <3>1. p = NoProposal
      BY <1>1, <2>1 DEF EventOK, ProposalOK
    <3> QED BY <1>2, <1>3, <1>4, <2>1, <3>1, Constants
            DEF ProposalOK, EvidenceAgrees, ProcessedAgrees, PendingAgrees, NoProposal
  <2>2. CASE /\ e \in TextEvent /\ p.kind = "transaction" /\ p.target = t
             /\ p.status = IF t = NoTxn THEN "reconciliation_review" ELSE "approved"
    BY <1>2, <1>3, <1>4, <2>2, Constants
       DEF ProposalOK, EvidenceAgrees, ProcessedAgrees, PendingAgrees, Terminal
  <2> QED BY <2>1, <2>2
<1>7. EventOK(e)'
  BY <1>2, <1>6 DEF EventOK
<1>8. \A d \in Event \ {e} : UNCHANGED <<raw[d], proposal[d], case[d], evidence[d], trail[d]>>
  BY <1>2, <1>3
<1> QED BY <1>2, <1>3, <1>5, <1>7, <1>8, Commits

\* An automatic posting keeps the invariant when it commits.
LEMMA PostCommits ==
  ASSUME IInv, NEW s \in Session, Post(s)
  PROVE  IInv'
<1>1. PICK e, h, v : e = session[s].event /\ h = session[s].held /\ v = session[s].seen
  OBVIOUS
<1>2. /\ session[s].op = "post" /\ Release(s)
      /\ e \in Event /\ v \in Verdict /\ Complete("post", e, h)
      /\ StillTrue("post", e, h) /\ VerdictHolds("post", e, h, v)
  BY <1>1, Committing DEF Post
<1>3. proposal' = [proposal EXCEPT ![e] = proposal[e]] /\ proposal[e] \in Proposal
  BY <1>2 DEF Post, IInv, TypeOK
<1>4. e \notin TextEvent /\ ProcessingRow(e) \in h /\ OwnerLock \in h
  BY <1>2 DEF StillTrue, Complete
<1>5. CASE AutoMerge(e, v) /\ raw' = [raw EXCEPT ![e] = "processed"]
  <2>1. v.candidate \in Txn /\ v.candidate # NoTxn
    BY <1>2, <1>5, Constants DEF AutoMerge, VerdictHolds, Verdict
  <2>2. Posts(s, e, h, v, "merged", "auto_merged", v.candidate, "processed", proposal[e])
    BY <1>1, <1>2, <1>3, <1>4, <1>5, <2>1, Ends DEF Posts, Op
  <2> QED BY <1>2, <2>2, PostingCommits
<1>6. ASSUME NEW t \in Txn, CreateNew(e, v, t), raw' = [raw EXCEPT ![e] = "processed"] PROVE IInv'
  <2>1. Posts(s, e, h, v, "kept_separate", "created_new", t, "processed", proposal[e])
    BY <1>1, <1>2, <1>3, <1>4, <1>6, Ends, Constants DEF Posts, Op
  <2> QED BY <1>2, <2>1, PostingCommits
<1>7. CASE Flag(e, v) /\ raw' = [raw EXCEPT ![e] = "needs_review"]
  <2>1. Posts(s, e, h, v, "pending", "candidate_flagged", NoTxn, "needs_review", proposal[e])
    BY <1>1, <1>2, <1>3, <1>4, <1>7, Ends DEF Posts, Op
  <2> QED BY <1>2, <2>1, PostingCommits
<1> QED BY <1>1, <1>5, <1>6, <1>7 DEF Post

\* An approved transaction keeps the invariant when it commits.
LEMMA ApproveTransactionCommits ==
  ASSUME IInv, NEW s \in Session, ApproveTransaction(s)
  PROVE  IInv'
<1>1. PICK e, h, v : e = session[s].event /\ h = session[s].held /\ v = session[s].seen
  OBVIOUS
<1>2. /\ session[s].op = "approve" /\ proposal[e].kind = "transaction" /\ Release(s)
      /\ e \in Event /\ v \in Verdict /\ Complete("approve", e, h)
      /\ StillTrue("approve", e, h) /\ VerdictHolds("approve", e, h, v)
  BY <1>1, Committing DEF ApproveTransaction
<1>3. EventOK(e) /\ TypeOK
  BY <1>2, EventsOK DEF IInv
<1>4. /\ ProposalRow(e) \in h /\ ProcessingRow(e) \in h /\ OwnerLock \in h
      /\ proposal[e] \in Proposal /\ proposal[e].status = "needs_review" /\ proposal[e].target = NoTxn
      /\ e \in TextEvent /\ raw[e] \in Terminal
  BY <1>2, <1>3 DEF StillTrue, Complete, Reviewable, EventOK, ProposalOK, NoProposal, TypeOK
<1> DEFINE A(t) == Approved(proposal[e], t)
           F == [proposal[e] EXCEPT !.status = "reconciliation_review"]
<1>5. ASSUME NEW t \in Txn
      PROVE  A(t) \in Proposal /\ A(t).kind = "transaction" /\ A(t).target = t
             /\ A(t).status = "approved"
  BY <1>2, <1>4 DEF Approved, Proposal
<1>6. F \in Proposal /\ F.kind = "transaction" /\ F.target = NoTxn /\ F.status = "reconciliation_review"
  BY <1>2, <1>4 DEF Proposal
<1> HIDE DEF A, F
<1>7. CASE AutoMerge(e, v) /\ proposal' = [proposal EXCEPT ![e] = A(v.candidate)] /\ Process(e)
  <2>1. v.candidate \in Txn /\ v.candidate # NoTxn
    BY <1>2, <1>7, Constants DEF AutoMerge, VerdictHolds, Verdict
  <2>2. Posts(s, e, h, v, "merged", "auto_merged", v.candidate, "processed", A(v.candidate))
    BY <1>1, <1>2, <1>4, <1>5, <1>7, <2>1, Ends DEF Posts, Process, Op
  <2> QED BY <1>2, <2>2, PostingCommits
<1>8. ASSUME NEW t \in Txn, CreateNew(e, v, t), proposal' = [proposal EXCEPT ![e] = A(t)], Process(e)
      PROVE  IInv'
  <2>1. Posts(s, e, h, v, "kept_separate", "created_new", t, "processed", A(t))
    BY <1>1, <1>2, <1>4, <1>5, <1>8, Ends, Constants DEF Posts, Process, Op
  <2> QED BY <1>2, <2>1, PostingCommits
<1>9. CASE Flag(e, v) /\ proposal' = [proposal EXCEPT ![e] = F] /\ UNCHANGED raw
  <2>1. raw[e] = "needs_review"
    <3>1. case[e].status = "none"
      BY <1>9 DEF Flag, Decide
    <3> QED BY <1>3, <1>4, <3>1, Constants DEF EventOK, EvidenceAgrees, ProcessedAgrees, Terminal
  <2>2. raw' = [raw EXCEPT ![e] = "needs_review"]
    BY <1>2, <1>3, <1>9, <2>1 DEF TypeOK
  <2>3. Posts(s, e, h, v, "pending", "candidate_flagged", NoTxn, "needs_review", F)
    BY <1>1, <1>2, <1>4, <1>6, <1>9, <2>2, Ends DEF Posts, Op
  <2> QED BY <1>2, <2>3, PostingCommits
<1> QED BY <1>1, <1>7, <1>8, <1>9 DEF ApproveTransaction, A, F

\* The proposal behind a case that is resolved to t.
ProposalResolves(e, h, t, p) ==
  /\ p \in Proposal /\ proposal' = [proposal EXCEPT ![e] = p]
  /\ \/ e \notin TextEvent /\ p = proposal[e]
     \/ /\ e \in TextEvent /\ ProposalRow(e) \in h
        /\ p.kind = "transaction" /\ p.target = t /\ p.status = "approved"

Resolves(s, e, h, status, type, t, p) ==
  /\ e = session[s].event /\ h = session[s].held /\ Release(s) /\ OwnerLock \in h
  /\ status \in {"merged", "kept_separate", "unmerged"} /\ t \in Txn
  /\ type \in DOMAIN Explains /\ Explains[type] = status
  /\ case[e].status \in {"pending", "merged"} /\ Resolve(e, status, type, case[e].result, t)
  /\ \/ status = "merged" /\ t = case[e].candidate /\ UNCHANGED txn
     \/ status # "merged" /\ Create(t, e)
  /\ raw' = [raw EXCEPT ![e] = "processed"] /\ (raw[e] \notin Terminal => ProcessingRow(e) \in h)
  /\ ProposalResolves(e, h, t, p)

(* A resolved case: nothing was posted from its event before, the trail goes *)
(* on from where the case was, and case, evidence, proposal and processing   *)
(* row move together.                                                        *)
LEMMA ResolutionCommits ==
  ASSUME IInv, NEW s \in Session, NEW e \in Event, NEW h,
         NEW status, NEW type, NEW t, NEW p, Resolves(s, e, h, status, type, t, p)
  PROVE  IInv'
<1> USE DEF Resolves, ProposalResolves
<1> DEFINE c == [case[e] EXCEPT !.status = status, !.result = t]
<1>1. EventOK(e) /\ TypeOK /\ case[e] \in Case
  BY EventsOK DEF IInv, TypeOK
<1>2. /\ case' = [case EXCEPT ![e] = c] /\ evidence' = [evidence EXCEPT ![e] = t]
      /\ Audit(e, type, case[e].result, t)
  BY <1>1 DEF Resolve, TypeOK
<1>3. c \in Case /\ c.status = status /\ c.candidate = case[e].candidate /\ c.result = t
  BY <1>1 DEF Case
<1> HIDE DEF c
<1>4. case' \in [Event -> Case] /\ case'[e] = c /\ \A d \in Event \ {e} : case'[d] = case[d]
  BY <1>1, <1>2, <1>3 DEF TypeOK
<1>5. evidence' \in [Event -> Txn \cup {NoTxn}] /\ evidence'[e] = t
      /\ \A d \in Event \ {e} : evidence'[d] = evidence[d]
  BY <1>1, <1>2 DEF TypeOK
<1>6. /\ trail' \in [Event -> Seq(Action)] /\ \A d \in Event \ {e} : trail'[d] = trail[d]
      /\ AuditOK(e)' /\ trail'[e][1] = trail[e][1] /\ trail[e] # <<>>
  <2>1. AuditOK(e) /\ case[e].result \in Txn \cup {NoTxn} /\ t \in Txn \cup {NoTxn}
    BY <1>1 DEF EventOK, Case
  <2>2. /\ Explains[type] = case'[e].status /\ case'[e].result = t
        /\ case[e].status = "none" => case[e].result = NoTxn
        /\ case[e].status # "none"
    BY <1>3, <1>4
  <2> QED BY <1>1, <1>2, <2>1, <2>2, Audited, Zenon
<1>7. /\ txn' \in [Txn -> Event \cup Manual \cup {NoContent}]
      /\ \A k \in Txn : txn[k] # NoContent => txn'[k] = txn[k]
      /\ \A k \in Txn : txn'[k] # txn[k] => k = t /\ txn'[k] = e /\ status # "merged"
      /\ status # "merged" => txn[t] = NoContent /\ txn'[t] = e
  BY <1>1 DEF TypeOK, Create
<1>8. ~PostedAsNew(e) /\ ~PostedAsNew(e)'
  BY <1>1, <1>6 DEF EventOK, CaseOK, PostedAsNew
<1>9. case[e].candidate \in Txn \cup {NoTxn} /\ case[e].candidate # NoTxn
      /\ txn[case[e].candidate] # NoContent
  BY <1>1 DEF Case, EventOK, CaseOK, TargetsConsistent
<1>10. CaseOK(e)' /\ TargetsConsistent(e)'
  <2>1. txn'[case[e].candidate] # NoContent
    BY <1>7, <1>9
  <2>2. status # "merged" => t # case[e].candidate
    BY <1>7, <1>9
  <2> QED BY <1>3, <1>4, <1>8, <1>9, <2>1, <2>2 DEF CaseOK, TargetsConsistent
<1>11. /\ raw' \in [Event -> RawState] /\ raw'[e] = "processed"
       /\ \A d \in Event \ {e} : raw'[d] = raw[d]
       /\ proposal' \in [Event -> Proposal] /\ proposal'[e] = p
       /\ \A d \in Event \ {e} : proposal'[d] = proposal[d]
  BY <1>1 DEF TypeOK, RawState, Terminal
<1>12. e \in TextEvent => proposal[e].kind = "transaction"
  BY <1>1 DEF EventOK, ProposalOK
<1>13. ProposalOK(e)' /\ EvidenceAgrees(e)' /\ ProcessedAgrees(e)' /\ PendingAgrees(e)'
  <2>1. CASE e \notin TextEvent /\ p = proposal[e]
    <3>1. p = NoProposal
      BY <1>1, <2>1 DEF EventOK, ProposalOK
    <3> QED BY <1>3, <1>4, <1>5, <1>11, <2>1, <3>1, Constants
            DEF ProposalOK, EvidenceAgrees, ProcessedAgrees, PendingAgrees, NoProposal
  <2>2. CASE e \in TextEvent /\ p.kind = "transaction" /\ p.target = t /\ p.status = "approved"
    BY <1>3, <1>4, <1>5, <1>11, <2>2, Constants
       DEF ProposalOK, EvidenceAgrees, ProcessedAgrees, PendingAgrees, Terminal
  <2> QED BY <2>1, <2>2
<1>14. EventOK(e)'
  BY <1>6, <1>10, <1>13 DEF EventOK
<1>15. PostingOK'
  <2>1. ASSUME NEW k \in Txn, NEW d \in Event, txn'[k] = d
        PROVE  evidence'[d] = k /\ case'[d].status \in {"kept_separate", "unmerged"}
    <3>1. CASE d = e
      <4>1. txn[k] # e
        BY DEF IInv, PostingOK
      <4> QED BY <1>3, <1>4, <1>5, <1>7, <2>1, <3>1, <4>1
    <3>2. CASE d # e
      BY <1>4, <1>5, <1>7, <2>1, <3>2 DEF IInv, PostingOK
    <3> QED BY <3>1, <3>2
  <2> QED BY <2>1 DEF PostingOK
<1>16. NoUnseenDuplicate'
  <2>1. ASSUME NEW d \in Event, PostedAsNew(d)' PROVE PostedAsNew(d)
    <3>1. d # e /\ trail'[d] = trail[d]
      BY <1>6, <1>8, <2>1
    <3> QED BY <2>1, <3>1 DEF PostedAsNew
  <2> QED BY <2>1, Zenon DEF IInv, NoUnseenDuplicate, Resemble
<1>17. Disciplined(e, h)
  BY <1>1, <1>4, <1>5, <1>7, <1>11, <1>12 DEF Disciplined, Terminal
<1>18. \A d \in Event \ {e} : UNCHANGED <<raw[d], proposal[d], case[d], evidence[d], trail[d]>>
  BY <1>4, <1>5, <1>6, <1>11
<1> QED BY <1>4, <1>5, <1>6, <1>7, <1>11, <1>14, <1>15, <1>16, <1>17, <1>18, Commits

\* What the proposal behind a case becomes when the case is resolved.
LEMMA LinkedResolves ==
  ASSUME IInv, NEW e \in Event, case[e].status # "none", NEW h, NEW t \in Txn,
         LinkedProposal(e) # <<>> => ProposalRow(e) \in h,
         \/ proposal' = IF LinkedProposal(e) = <<>> THEN proposal
              ELSE [proposal EXCEPT ![e] = Approved(@, t)]
         \/ /\ case[e].status = "merged"
            /\ proposal' = IF LinkedProposal(e) = <<>> THEN proposal
                 ELSE [proposal EXCEPT ![e] = [@ EXCEPT !.target = t]]
  PROVE  \E p : ProposalResolves(e, h, t, p)
<1> USE DEF ProposalResolves
<1>1. EventOK(e) /\ TypeOK /\ proposal[e] \in Proposal
  BY EventsOK DEF IInv, TypeOK
<1>2. CASE e \notin TextEvent
  <2>1. LinkedProposal(e) = <<>>
    BY <1>1, <1>2 DEF EventOK, ProposalOK, LinkedProposal, NoProposal
  <2>2. proposal' = [proposal EXCEPT ![e] = proposal[e]]
    BY <1>1, <2>1 DEF TypeOK
  <2> QED BY <1>1, <1>2, <2>2
<1>3. CASE e \in TextEvent
  <2>1. proposal[e].kind = "transaction" /\ proposal[e].status \in {"reconciliation_review", "approved"}
    BY <1>1, <1>3 DEF EventOK, ProposalOK
  <2>2. LinkedProposal(e) = <<ProposalRow(e)>> /\ ProposalRow(e) \in h
    BY <2>1 DEF LinkedProposal
  <2>3. CASE proposal' = [proposal EXCEPT ![e] = Approved(proposal[e], t)]
    <3>1. /\ Approved(proposal[e], t) \in Proposal /\ Approved(proposal[e], t).kind = "transaction"
          /\ Approved(proposal[e], t).target = t /\ Approved(proposal[e], t).status = "approved"
      BY <1>1, <2>1 DEF Approved, Proposal
    <3> QED BY <1>3, <2>2, <2>3, <3>1
  <2>4. CASE case[e].status = "merged"
          /\ proposal' = [proposal EXCEPT ![e] = [proposal[e] EXCEPT !.target = t]]
    <3> DEFINE p == [proposal[e] EXCEPT !.target = t]
    <3>1. proposal[e].status = "approved"
      BY <1>1, <2>1, <2>4 DEF EventOK, PendingAgrees
    <3>2. p \in Proposal /\ p.kind = "transaction" /\ p.target = t /\ p.status = "approved"
      BY <1>1, <2>1, <3>1 DEF Proposal
    <3> QED BY <1>3, <2>2, <2>4, <3>2
  <2>5. LinkedProposal(e) # <<>>
    BY <2>2
  <2> QED BY <2>3, <2>4, <2>5
<1> QED BY <1>2, <1>3

\* A resolved case keeps the invariant when it commits.
LEMMA ResolveCommits ==
  ASSUME IInv, NEW s \in Session, Merge(s) \/ KeepSeparate(s)
  PROVE  IInv'
<1>1. PICK op, e, h : op = session[s].op /\ e = session[s].event /\ h = session[s].held
  OBVIOUS
<1>2. /\ op \in {"merge", "keep"} /\ Release(s) /\ e \in Event
      /\ Complete(op, e, h) /\ StillTrue(op, e, h)
  BY <1>1, Committing DEF Merge, KeepSeparate
<1>3. PICK status, type, t :
        /\ status \in {"merged", "kept_separate"} /\ type \in {"user_merged", "user_kept_separate"}
        /\ Resolve(e, status, type, NoTxn, t) /\ CompleteSource(e, t)
        /\ \/ status = "merged" /\ type = "user_merged" /\ t = case[e].candidate /\ UNCHANGED txn
           \/ status = "kept_separate" /\ type = "user_kept_separate" /\ t \in Txn /\ Create(t, e)
  <2>1. CASE Merge(s)
    BY <1>1, <2>1 DEF Merge
  <2>2. CASE KeepSeparate(s)
    BY <1>1, <2>2 DEF KeepSeparate
  <2> QED BY <2>1, <2>2
<1>4. EventOK(e) /\ TypeOK /\ case[e] \in Case
  BY <1>2, EventsOK DEF IInv, TypeOK
<1>5. /\ OwnerLock \in h /\ ProcessingRow(e) \in h /\ (LinkedProposal(e) # <<>> => ProposalRow(e) \in h)
      /\ case[e].status = "pending"
  BY <1>2 DEF Complete, StillTrue, Resolvable
<1>6. case[e].candidate \in Txn /\ case[e].result = NoTxn /\ t \in Txn
  BY <1>3, <1>4, <1>5 DEF Case, EventOK, TargetsConsistent
<1>7. PICK p : ProposalResolves(e, h, t, p)
  <2>1. proposal' = IF LinkedProposal(e) = <<>> THEN proposal
          ELSE [proposal EXCEPT ![e] = Approved(@, t)]
    BY <1>3 DEF CompleteSource
  <2>2. case[e].status # "none"
    BY <1>5
  <2> QED BY <1>2, <1>5, <1>6, <2>1, <2>2, LinkedResolves
<1>8. raw' = [raw EXCEPT ![e] = "processed"]
  BY <1>3 DEF CompleteSource, Process
<1>9. Resolves(s, e, h, status, type, t, p)
  BY <1>1, <1>2, <1>3, <1>5, <1>6, <1>7, <1>8 DEF Resolves, Explains
<1> QED BY <1>2, <1>9, ResolutionCommits

\* An unmerge keeps the invariant when it commits.
LEMMA UnmergeCommits ==
  ASSUME IInv, NEW s \in Session, Unmerge(s)
  PROVE  IInv'
<1>1. PICK e, h : e = session[s].event /\ h = session[s].held
  OBVIOUS
<1>2. Release(s) /\ UNCHANGED raw /\ e \in Event /\ Complete("unmerge", e, h)
        /\ StillTrue("unmerge", e, h)
  BY <1>1, Committing DEF Unmerge
<1>3. PICK t \in Txn :
        /\ Create(t, e) /\ Resolve(e, "unmerged", "user_unmerged", evidence[e], t)
        /\ proposal' = IF LinkedProposal(e) = <<>> THEN proposal
             ELSE [proposal EXCEPT ![e] = [@ EXCEPT !.target = t]]
  BY <1>1 DEF Unmerge
<1>4. EventOK(e) /\ TypeOK
  BY <1>2, EventsOK DEF IInv
<1>5. /\ OwnerLock \in h /\ (LinkedProposal(e) # <<>> => ProposalRow(e) \in h)
      /\ case[e].status = "merged" /\ evidence[e] = case[e].result
  BY <1>2 DEF Complete, StillTrue, Unmergeable
<1>6. PICK p : ProposalResolves(e, h, t, p)
  <2>1. case[e].status # "none"
    BY <1>5
  <2> QED BY <1>2, <1>3, <1>5, <2>1, LinkedResolves
<1>7. raw' = [raw EXCEPT ![e] = "processed"] /\ raw[e] \in Terminal
  <2>1. raw[e] = "processed"
    BY <1>4, <1>5 DEF EventOK, EvidenceAgrees, ProcessedAgrees
  <2> QED BY <1>2, <1>4, <2>1 DEF TypeOK, Terminal
<1>8. Resolves(s, e, h, "unmerged", "user_unmerged", t, p)
  BY <1>1, <1>2, <1>3, <1>5, <1>6, <1>7 DEF Resolves, Explains, Unmerge
<1> QED BY <1>2, <1>8, ResolutionCommits

\* A session that rolls back keeps the invariant.
LEMMA RollsBack ==
  ASSUME IInv, NEW s \in Session, Rollback(s)
  PROVE  IInv'
<1>1. Release(s) /\ UNCHANGED data
  BY DEF Rollback
<1>2. PICK e : e = session[s].event
  OBVIOUS
<1>3. e \in Event
  BY <1>2 DEF Rollback, IInv, SessionsOK, SessionOK
<1>4. EventOK(e) /\ TypeOK
  BY <1>3, EventsOK DEF IInv
<1>5. /\ raw' = [raw EXCEPT ![e] = raw[e]] /\ raw[e] \in RawState
      /\ proposal' = [proposal EXCEPT ![e] = proposal[e]] /\ proposal[e] \in Proposal
      /\ UNCHANGED <<raw, proposal, case, evidence, txn, trail>>
  BY <1>1, <1>3, <1>4 DEF data, TypeOK
<1>6. ProposalOK(e)' /\ ProcessedAgrees(e)' /\ PendingAgrees(e)' /\ EvidenceAgrees(e)'
  BY <1>4, <1>5 DEF EventOK, ProposalOK, ProcessedAgrees, PendingAgrees, EvidenceAgrees
<1> QED BY <1>1, <1>2, <1>3, <1>5, <1>6, CommitsPlain

\* A transaction entered by hand is posted from no event.
LEMMA ManualEntry ==
  ASSUME IInv, NEW t \in Txn, NEW m \in Manual, EnterManually(t, m)
  PROVE  IInv'
<1>1. Create(t, m) /\ UNCHANGED <<raw, proposal, case, evidence, trail, session>>
  BY DEF EnterManually
<1>2. m \notin Event
  BY ReconciliationAssumption
<1>3. /\ txn' \in [Txn -> Event \cup Manual \cup {NoContent}]
      /\ \A k \in Txn : txn[k] # NoContent => txn'[k] = txn[k]
      /\ \A k \in Txn : txn'[k] \in Event => txn'[k] = txn[k]
  BY <1>1, <1>2 DEF Create, IInv, TypeOK
<1>4. TypeOK' /\ Exclusive'
  BY <1>1, <1>3 DEF IInv, TypeOK, Exclusive
<1>5. SessionsOK'
  <2>1. Disciplined(NoContent, {})
    BY <1>1, <1>3 DEF Disciplined
  <2>2. \A r \in Session : UNCHANGED session[r] /\ session[r].held \cap {} = {}
    BY <1>1
  <2> QED BY <2>1, <2>2, OthersOK DEF SessionsOK
<1>6. RowsOK' /\ Agreement' /\ AuditReplays'
  <2>1. \A d \in Event : EventOK(d)
    BY EventsOK DEF IInv
  <2>2. ASSUME NEW d \in Event PROVE EventOK(d)'
    BY <1>1, <1>3, <2>1, Untouched DEF IInv
  <2>3. (\A d \in Event : EventOK(d))'
    BY <2>2
  <2> QED BY <2>3 DEF EventOK, RowsOK, Agreement, AuditReplays, AuditOK
<1>7. PostingOK'
  BY <1>1, <1>3 DEF IInv, PostingOK
<1>8. NoUnseenDuplicate'
  <2>1. \A d \in Event : PostedAsNew(d)' <=> PostedAsNew(d)
    BY <1>1 DEF PostedAsNew
  <2> QED BY <2>1, Zenon DEF IInv, NoUnseenDuplicate, Resemble
<1> QED BY <1>4, <1>5, <1>6, <1>7, <1>8 DEF IInv

-----------------------------------------------------------------------------
(* Every step *)

\* Every step keeps the invariant.
LEMMA StepInv == IInv /\ [Next]_vars => IInv'
<1> SUFFICES ASSUME IInv, [Next]_vars PROVE IInv'
  OBVIOUS
<1>1. CASE UNCHANGED vars
  <2>1. UNCHANGED <<raw, proposal, case, evidence, txn, trail, session>>
    BY <1>1 DEF vars
  <2>2. TypeOK' /\ Exclusive'
    BY <2>1 DEF IInv, TypeOK, Exclusive
  <2>3. SessionsOK'
    <3>1. Disciplined(NoContent, {})
      BY <2>1 DEF Disciplined
    <3>2. \A r \in Session : UNCHANGED session[r] /\ session[r].held \cap {} = {}
      BY <2>1
    <3> QED BY <3>1, <3>2, OthersOK DEF SessionsOK
  <2>4. RowsOK'
    BY <2>1 DEF IInv, RowsOK, ProposalOK, CaseOK, PostedAsNew
  <2>5. Agreement' /\ AuditReplays'
    BY <2>1 DEF IInv, Agreement, TargetsConsistent, EvidenceAgrees, ProcessedAgrees, PendingAgrees,
       AuditReplays
  <2>6. PostingOK' /\ NoUnseenDuplicate'
    BY <2>1, NothingPosted
  <2> QED BY <2>2, <2>3, <2>4, <2>5, <2>6 DEF IInv
<1>2. ASSUME NEW s \in Session, NEW op \in Op, NEW e \in Event, Begin(s, op, e) PROVE IInv'
  BY <1>2, Begins
<1>3. ASSUME NEW s \in Session, NEW l \in Lock, Acquire(s, l) PROVE IInv'
  BY <1>3, Acquires
<1>4. ASSUME NEW s \in Session, Commit(s) PROVE IInv'
  BY <1>4, PostCommits, ParkCommits, ExtractCommits, ApproveTransactionCommits, ReviewCommits,
     ResolveCommits,
     UnmergeCommits DEF Commit
<1>5. ASSUME NEW s \in Session, Rollback(s) PROVE IInv'
  BY <1>5, RollsBack
<1>6. ASSUME NEW t \in Txn, NEW m \in Manual, EnterManually(t, m) PROVE IInv'
  BY <1>6, ManualEntry
<1> QED BY <1>1, <1>2, <1>3, <1>4, <1>5, <1>6 DEF Next

-----------------------------------------------------------------------------
(* No deadlock *)

\* What a session works on, as long as it holds a lock or waits for one.
LEMMA Working ==
  ASSUME IInv, NEW s \in Session, session[s].op # "idle"
  PROVE  /\ session[s].op \in Op /\ session[s].event \in Event
         /\ HeldShape(session[s].op, session[s].event, session[s].held)
         /\ StillTrue(session[s].op, session[s].event, session[s].held)
<1>1. SessionOK(s) /\ session[s] \in SessionState
  BY DEF IInv, SessionsOK, TypeOK
<1> QED BY <1>1 DEF SessionOK, SessionState

\* Whoever holds a lock works on what it locks.
LEMMA HoldersWork ==
  ASSUME IInv, NEW s \in Session, NEW l \in session[s].held
  PROVE  /\ session[s].op # "idle"
         /\ l \in {OwnerLock, ProcessingRow(session[s].event), ProposalRow(session[s].event)}
<1>1. session[s].op # "idle"
  BY DEF IInv, SessionsOK, SessionOK, IdleSession
<1> QED BY <1>1, Working DEF HeldShape

(* A session that has the processing row waits for the owner's lock at most, *)
(* and one that has only the proposal row for the other two.                 *)
LEMMA Needs ==
  ASSUME IInv, NEW s \in Session, NEW l, Waits(s, l), NEW e, e = session[s].event, NEW h,
         h = session[s].held
  PROVE  /\ e \in Event /\ l \in {OwnerLock, ProcessingRow(e), ProposalRow(e)} /\ l \notin h
         /\ OwnerLock \in h =>
              \/ l = ProcessingRow(e) /\ Resolvable(e)
              \/ l = ProposalRow(e) /\ LinkedProposal(e) # <<>>
         /\ OwnerLock \notin h /\ ProcessingRow(e) \in h => l = OwnerLock
         /\ ProposalRow(e) \in h => l # ProposalRow(e)
<1>1. PICK op : op = session[s].op
  OBVIOUS
<1>2. op # "idle" /\ MayAsk(op, e, h, l)
  BY <1>1, WaitsForNext DEF Waits
<1>3. op \in Op /\ e \in Event /\ HeldShape(op, e, h) /\ StillTrue(op, e, h)
  BY <1>1, <1>2, Working
<1>4. OwnerLock # ProcessingRow(e) /\ OwnerLock # ProposalRow(e) /\ ProcessingRow(e) # ProposalRow(e)
  BY LockNames
<1>5. CASE op \in {"post", "park", "fail"}
  BY <1>2, <1>3, <1>4, <1>5 DEF MayAsk, HeldShape
<1>6. CASE op = "extract"
  BY <1>2, <1>3, <1>4, <1>6 DEF MayAsk, HeldShape, StillTrue
<1>7. CASE op \in {"approve", "reject"}
  BY <1>2, <1>3, <1>4, <1>7 DEF MayAsk, HeldShape
<1>8. CASE op \in {"merge", "keep"}
  BY <1>2, <1>3, <1>4, <1>8 DEF MayAsk, HeldShape, StillTrue
<1>9. CASE op = "unmerge"
  BY <1>2, <1>3, <1>4, <1>9 DEF MayAsk, HeldShape
<1> QED BY <1>3, <1>5, <1>6, <1>7, <1>8, <1>9 DEF Op

(* A merge that waits for the processing row of its event can only find an   *)
(* extraction there that has all it needs, and no one on the proposal row.   *)
LEMMA Against ==
  ASSUME IInv, NEW o \in Session, OwnerLock \in session[o].held, NEW l, Waits(o, l),
         NEW r \in Session, l \in session[r].held
  PROVE  \A k : ~Waits(r, k)
<1> DEFINE e == session[o].event  op == session[r].op  h == session[r].held
<1>1. /\ e \in Event /\ l \notin session[o].held /\ r # o /\ OwnerLock \notin h
      /\ \/ l = ProcessingRow(e) /\ Resolvable(e)
         \/ l = ProposalRow(e) /\ LinkedProposal(e) # <<>>
  BY Needs DEF IInv, Exclusive
<1>2. session[r].event = e
  BY <1>1, HoldersWork, LockNames
<1>3. op \in Op /\ HeldShape(op, e, h) /\ StillTrue(op, e, h) /\ l \in h
  BY <1>2, HoldersWork, Working
<1> HIDE DEF e, op, h
<1>4. EventOK(e)
  BY <1>1, EventsOK DEF IInv
<1>5. OwnerLock # ProcessingRow(e) /\ OwnerLock # ProposalRow(e) /\ ProcessingRow(e) # ProposalRow(e)
  BY LockNames
<1>6. CASE l = ProposalRow(e) /\ LinkedProposal(e) # <<>>
  <2>1. proposal[e].status \in {"reconciliation_review", "approved"} /\ proposal[e] # NoProposal
    BY <1>6, Linked DEF NoProposal
  <2> QED BY <1>1, <1>3, <1>5, <1>6, <2>1 DEF HeldShape, StillTrue, Reviewable, Op
<1>7. CASE l = ProcessingRow(e) /\ Resolvable(e)
  <2>1. raw[e] \in Terminal /\ proposal[e].status \notin {"needs_review"}
    BY <1>4, <1>7 DEF EventOK, PendingAgrees, ProposalOK, Resolvable, Terminal, NoProposal
  <2>2. op = "extract"
    BY <1>1, <1>3, <1>5, <1>7, <2>1 DEF HeldShape, StillTrue, Reviewable, Op
  <2>3. ASSUME NEW k, Waits(r, k) PROVE FALSE
    <3>1. MayAsk(op, e, h, k)
      BY <1>2, <2>3, WaitsForNext DEF op, h
    <3> QED BY <1>3, <1>5, <1>7, <2>2, <3>1 DEF MayAsk, StillTrue
  <2> QED BY <2>3
<1> QED BY <1>1, <1>6, <1>7

\* The order of the locks leaves no circle of waiting sessions.
LEMMA DeadlockFree == IInv => NoDeadlock
<1> SUFFICES ASSUME IInv, NEW S \in SUBSET Session, S # {}
             PROVE  \E s \in S : \A l \in Lock : Waits(s, l) => \A r \in S : l \notin session[r].held
  BY DEF NoDeadlock
<1>1. CASE \E o \in S : OwnerLock \in session[o].held
  <2>1. PICK o \in S : OwnerLock \in session[o].held
    BY <1>1
  <2>2. CASE \E l \in Lock : Waits(o, l) /\ \E r \in S : l \in session[r].held
    <3>1. PICK l \in Lock, r \in S : Waits(o, l) /\ l \in session[r].held
      BY <2>2
    <3>2. \A k : ~Waits(r, k)
      BY <2>1, <3>1, Against
    <3> QED BY <3>2
  <2> QED BY <2>1, <2>2
<1>2. CASE /\ \A o \in S : OwnerLock \notin session[o].held
           /\ \E s \in S : ProcessingRow(session[s].event) \in session[s].held
  BY <1>2, Needs
<1>3. CASE /\ \A o \in S : OwnerLock \notin session[o].held
           /\ \A s \in S : ProcessingRow(session[s].event) \notin session[s].held
  <2>1. ASSUME NEW r \in S, NEW l \in session[r].held
        PROVE  l = ProposalRow(session[r].event)
    BY <1>3, <2>1, HoldersWork
  <2>2. CASE \E s \in S : ProposalRow(session[s].event) \in session[s].held
    <3>1. PICK s \in S : ProposalRow(session[s].event) \in session[s].held
      BY <2>2
    <3>2. ASSUME NEW l \in Lock, Waits(s, l), NEW r \in S PROVE l \notin session[r].held
      <4>1. l \in {OwnerLock, ProcessingRow(session[s].event)}
        BY <3>1, <3>2, Needs
      <4> QED BY <2>1, <4>1, LockNames
    <3> QED BY <3>2
  <2>3. CASE ~ \E s \in S : ProposalRow(session[s].event) \in session[s].held
    BY <2>1, <2>3
  <2> QED BY <2>2, <2>3
<1> QED BY <1>1, <1>2, <1>3

-----------------------------------------------------------------------------
(* The abstract ledger *)

\* How the fate of an event follows its case.
LEMMA FateMoves ==
  ASSUME NEW e \in Event, NEW f, Fate[case'[e].status] = f, \A d \in Event \ {e} : UNCHANGED case[d]
  PROVE  /\ [d \in Event |-> Fate[case[d].status]][e] = Fate[case[e].status]
         /\ [d \in Event |-> Fate[case[d].status]]'
              = [[d \in Event |-> Fate[case[d].status]] EXCEPT ![e] = f]
OBVIOUS

\* A step that decides nothing and creates nothing is a stutter of the ledger.
LEMMA Stutters == UNCHANGED <<txn, evidence, case>> => UNCHANGED Ledger!lvars
BY DEF Ledger!lvars

\* A posting gives its event a transaction of its own, one that is there, or doubt.
LEMMA PostingMaps ==
  ASSUME IInv, NEW s \in Session, Ready(s), NEW e, e = session[s].event, NEW v, v = session[s].seen,
         AutoMerge(e, v) \/ (\E t \in Txn : CreateNew(e, v, t)) \/ Flag(e, v)
  PROVE  Ledger!LedgerNext
<1>1. e \in Event /\ v \in Verdict /\ case[e].status = "none"
        /\ v.decision \in {"merge", "new", "review"}
  BY Committing DEF AutoMerge, CreateNew, Flag, Decide
<1>2. TypeOK /\ evidence[e] = NoTxn
  BY <1>1, EventsOK DEF IInv, EventOK, EvidenceAgrees
<1>3. ASSUME NEW status, NEW type, NEW t, Decided(e, v, status, type, t)
      PROVE  /\ case'[e].status = status /\ \A d \in Event \ {e} : UNCHANGED case[d]
             /\ evidence' = [evidence EXCEPT ![e] = t]
  BY <1>1, <1>2, <1>3 DEF Decided, Decide, TypeOK
<1>4. CASE AutoMerge(e, v)
  <2>1. v.candidate \in Txn /\ txn[v.candidate] # NoContent
    BY <1>1, <1>4, Committing, Constants DEF AutoMerge, VerdictHolds, Verdict
  <2>2. /\ case'[e].status = "merged" /\ \A d \in Event \ {e} : UNCHANGED case[d]
        /\ evidence' = [evidence EXCEPT ![e] = v.candidate] /\ UNCHANGED txn
    BY <1>3, <1>4, Ends DEF AutoMerge
  <2>3. Ledger!Join(e, v.candidate)
    BY <1>1, <2>1, <2>2, FateMoves DEF Ledger!Join, Fate
  <2> QED BY <1>1, <2>1, <2>3 DEF Ledger!LedgerNext
<1>5. ASSUME NEW t \in Txn, CreateNew(e, v, t) PROVE Ledger!LedgerNext
  <2>1. /\ case'[e].status = "kept_separate" /\ \A d \in Event \ {e} : UNCHANGED case[d]
        /\ evidence' = [evidence EXCEPT ![e] = t] /\ Create(t, e)
    BY <1>3, <1>5, Ends DEF CreateNew
  <2>2. Ledger!Own(e, t)
    BY <1>1, <2>1, FateMoves DEF Ledger!Own, Ledger!Give, Create, Fate
  <2> QED BY <1>1, <2>2 DEF Ledger!LedgerNext
<1>6. CASE Flag(e, v)
  <2>1. /\ case'[e].status = "pending" /\ \A d \in Event \ {e} : UNCHANGED case[d]
        /\ evidence' = evidence /\ UNCHANGED txn
    BY <1>1, <1>2, <1>3, <1>6, Ends DEF Flag, TypeOK
  <2>2. Ledger!Doubt(e)
    BY <1>1, <2>1, FateMoves DEF Ledger!Doubt, Fate
  <2> QED BY <1>1, <2>2 DEF Ledger!LedgerNext
<1> QED BY <1>4, <1>5, <1>6

\* The owner's decision joins the event, gives it its own, or splits it off.
LEMMA ResolutionMaps ==
  ASSUME IInv, NEW s \in Session, Merge(s) \/ KeepSeparate(s) \/ Unmerge(s)
  PROVE  Ledger!LedgerNext
<1>1. PICK e, h : e = session[s].event /\ h = session[s].held
  OBVIOUS
<1>2. e \in Event /\ Complete(session[s].op, e, h) /\ StillTrue(session[s].op, e, h)
  BY <1>1, Committing DEF Merge, KeepSeparate, Unmerge
<1>3. EventOK(e) /\ TypeOK
  BY <1>2, EventsOK DEF IInv
<1>4. ASSUME NEW status, NEW type, NEW from, NEW t, Resolve(e, status, type, from, t)
      PROVE  /\ case'[e].status = status /\ \A d \in Event \ {e} : UNCHANGED case[d]
             /\ evidence' = [evidence EXCEPT ![e] = t]
  BY <1>2, <1>3, <1>4 DEF Resolve, TypeOK, Case
<1>5. CASE Merge(s)
  <2>1. PICK t : t = case[e].candidate
    OBVIOUS
  <2>2. case[e].status = "pending" /\ Resolve(e, "merged", "user_merged", NoTxn, t) /\ UNCHANGED txn
    BY <1>1, <1>2, <1>5, <2>1 DEF Merge, Complete, StillTrue, Resolvable
  <2>3. t \in Txn /\ txn[t] # NoContent
    BY <1>2, <1>3, <2>1, <2>2 DEF EventOK, TargetsConsistent, CaseOK, TypeOK, Case
  <2>4. Ledger!Join(e, t)
    BY <1>2, <1>4, <2>2, <2>3, FateMoves DEF Ledger!Join, Fate
  <2> QED BY <1>2, <2>3, <2>4 DEF Ledger!LedgerNext
<1>6. CASE KeepSeparate(s)
  <2>1. PICK t \in Txn : Create(t, e) /\ Resolve(e, "kept_separate", "user_kept_separate", NoTxn, t)
    BY <1>1, <1>6 DEF KeepSeparate
  <2>2. case[e].status = "pending"
    BY <1>1, <1>2, <1>6 DEF KeepSeparate, Complete, StillTrue, Resolvable
  <2>3. Ledger!Own(e, t)
    BY <1>2, <1>4, <2>1, <2>2, FateMoves DEF Ledger!Own, Ledger!Give, Create, Fate
  <2> QED BY <1>2, <2>3 DEF Ledger!LedgerNext
<1>7. CASE Unmerge(s)
  <2>1. PICK t \in Txn : Create(t, e) /\ Resolve(e, "unmerged", "user_unmerged", evidence[e], t)
    BY <1>1, <1>7 DEF Unmerge
  <2>2. case[e].status = "merged"
    BY <1>1, <1>2, <1>7 DEF Unmerge, Complete, StillTrue, Unmergeable
  <2>3. Ledger!Split(e, t)
    BY <1>2, <1>4, <2>1, <2>2, FateMoves DEF Ledger!Split, Ledger!Give, Create, Fate
  <2> QED BY <1>2, <2>3 DEF Ledger!LedgerNext
<1> QED BY <1>5, <1>6, <1>7

\* Initial states are initial states of the canonical ledger.
LEMMA InitMaps == Init => Ledger!LedgerInit
<1> SUFFICES ASSUME Init PROVE Ledger!LedgerInit
  OBVIOUS
<1>1. \A e \in Event : Fate[case[e].status] = "open"
  BY DEF Init, NoCase, Fate
<1> QED BY <1>1 DEF Init, Ledger!LedgerInit

\* Every step is one of the canonical ledger, or a stutter.
LEMMA StepMaps == IInv /\ [Next]_vars => [Ledger!LedgerNext]_Ledger!lvars
<1> SUFFICES ASSUME IInv, [Next]_vars PROVE [Ledger!LedgerNext]_Ledger!lvars
  OBVIOUS
<1>1. CASE UNCHANGED vars
  BY <1>1, Stutters DEF vars
<1>2. ASSUME NEW s \in Session, NEW op \in Op, NEW e \in Event, Begin(s, op, e)
      PROVE  UNCHANGED Ledger!lvars
  BY <1>2, Stutters DEF Begin
<1>3. ASSUME NEW s \in Session, NEW l \in Lock, Acquire(s, l) PROVE UNCHANGED Ledger!lvars
  BY <1>3, Stutters DEF Acquire, data
<1>4. ASSUME NEW s \in Session, Commit(s) PROVE [Ledger!LedgerNext]_Ledger!lvars
  <2>1. CASE Post(s)
    BY <2>1, PostingMaps DEF Post
  <2>2. CASE ApproveTransaction(s)
    BY <2>2, PostingMaps DEF ApproveTransaction
  <2>3. CASE Park(s) \/ Extract(s) \/ ApproveOther(s) \/ Reject(s)
    BY <2>3, Stutters DEF Park, Extract, ApproveOther, Reject
  <2>4. CASE Merge(s) \/ KeepSeparate(s) \/ Unmerge(s)
    BY <2>4, ResolutionMaps
  <2> QED BY <1>4, <2>1, <2>2, <2>3, <2>4 DEF Commit
<1>5. ASSUME NEW s \in Session, Rollback(s) PROVE UNCHANGED Ledger!lvars
  BY <1>5, Stutters DEF Rollback, data
<1>6. ASSUME NEW t \in Txn, NEW m \in Manual, EnterManually(t, m) PROVE Ledger!LedgerNext
  <2>1. Ledger!Enter(t, m)
    BY <1>6 DEF EnterManually, Create, Ledger!Enter
  <2> QED BY <2>1 DEF Ledger!LedgerNext
<1> QED BY <1>1, <1>2, <1>3, <1>4, <1>5, <1>6 DEF Next

-----------------------------------------------------------------------------
(* Theorems *)

(* The invariant holds in every reachable state, whatever sessions are open  *)
(* on whatever events, and wherever they are cut off.                        *)
THEOREM Invariance == Spec => []IInv
<1>1. Init => IInv
  BY InitInv
<1>2. IInv /\ [Next]_vars => IInv'
  BY StepInv
<1> QED BY <1>1, <1>2, PTL DEF Spec

(* Every row a commit writes stays of its type: no state machine of          *)
(* raw_event_processing, proposals or cases leaves its states.               *)
THEOREM Typed == Spec => []TypeOK
<1>1. IInv => TypeOK
  BY DEF IInv
<1> QED BY <1>1, Invariance, PTL

(* One event is the origin of one transaction at most, over any number of    *)
(* deliveries, approvals, merges and unmerges in any number of sessions.     *)
THEOREM OnePosted == Spec => []OnePosting
<1>1. IInv => OnePosting
  BY DEF IInv, PostingOK, OnePosting
<1> QED BY <1>1, Invariance, PTL

(* What the five tables say of an event agrees after every commit, although  *)
(* each operation checks under different locks and writes other rows.        *)
THEOREM Agrees == Spec => []Agreement
<1>1. IInv => Agreement
  BY DEF IInv
<1> QED BY <1>1, Invariance, PTL

(* The audit trail of a case, however long, replays to the case.             *)
THEOREM Replays == Spec => []AuditReplays
<1>1. IInv => AuditReplays
  BY DEF IInv
<1> QED BY <1>1, Invariance, PTL

(* The advisory lock of reconcile_transaction() makes it impossible that two *)
(* resembling events both become new transactions uncompared.                *)
THEOREM DuplicatesSeen == Spec => []NoUnseenDuplicate
<1>1. IInv => NoUnseenDuplicate
  BY DEF IInv
<1> QED BY <1>1, Invariance, PTL

(* Approvals and merges take the same locks in opposite orders and yet never *)
(* wait for each other in a circle, of two sessions or of any number.        *)
THEOREM NeverDeadlocked == Spec => []NoDeadlock
<1> QED BY DeadlockFree, Invariance, PTL

(* Ingestion, review and reconciliation implement the abstract ledger: every *)
(* commit is one of its steps or changes nothing of it.                      *)
THEOREM Implements == Spec => ImplementsLedger
<1> QED BY Invariance, InitMaps, StepMaps, PTL DEF Spec, ImplementsLedger, Ledger!LedgerSpec
=============================================================================
