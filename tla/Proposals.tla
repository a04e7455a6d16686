------------------------------ MODULE Proposals ------------------------------
(***************************************************************************)
(* What the answer of a model is worth: the schema it must satisfy and the *)
(* reasons for review drawn from it (app/ai/extraction.py), the proposal   *)
(* kept of the first answer (proposal_repository.py), and the fields and   *)
(* limits its approval insists on (proposal_service.py and the commands of *)
(* app/ledger). Nobody can edit a proposal: what is missing stays missing. *)
(*                                                                         *)
(* One raw event with its proposal. A field is present or not; a           *)
(* counterparty is the length of its name, 0 for none, with the limits     *)
(* scaled down and their order kept. Texts that only have to fit, and the  *)
(* rows an approval writes, are left out: Reconciliation posts             *)
(* transactions, Obligations and Recurring go on from the others.          *)
(***************************************************************************)
EXTENDS Integers, FiniteSets

CONSTANTS
    Answers,      \* what the model may say of the note: see IsAnswer
    Extractors,   \* extractions under way: a worker, one that lost its lease, a caller
    MaxName,      \* longest counterparty of an event (160)
    MaxPerson,    \* longest name of a person (120)
    DayLength,    \* instants in a day
    Offset,       \* of the owner's time zone
    None

VARIABLES
    running,   \* extractions that found no proposal and asked the model
    proposal,  \* the row of financial_event_proposals, or None
    raw,       \* state of the raw event
    error      \* its last_error_code, or None

vars == <<running, proposal, raw, error>>

TransactionKinds == {"expense", "income", "transfer", "refund", "shared_expense"}
ObligationKinds  == {"receivable", "payable"}

\* _KINDS_REQUIRING_MONEY
MoneyKinds == (TransactionKinds \ {"transfer"}) \cup ObligationKinds \cup {"recurring"}

IsAnswer(a) ==
    /\ a.kind \in TransactionKinds \cup ObligationKinds \cup {"recurring", "unknown"}
    /\ {a.amount, a.currency, a.merchant, a.rule, a.next, a.confident} \subseteq BOOLEAN
    /\ a.occurred = None \/ a.occurred \in Int   \* an instant
    /\ a.due = None \/ a.due \in Int             \* a day
    /\ a.counterparty \in Nat

-----------------------------------------------------------------------------
(* Extraction.                                                             *)

SchemaValid(a) == a.amount = a.currency /\ a.counterparty <= MaxName

\* mutant: whoever is owed money need not be named.
ReasonsOfMoney(a) ==
    {"AI_REVIEW_REQUIRED"}
    \cup {r \in {"LOW_CONFIDENCE"} : ~a.confident}
    \cup {r \in {"MISSING_AMOUNT_OR_CURRENCY"} : a.kind \in MoneyKinds /\ ~a.amount}
    \cup {r \in {"MISSING_OCCURRED_AT"} : a.occurred = None}
    \cup {r \in {"MISSING_RECURRENCE_RULE"} : a.kind = "recurring" /\ ~a.rule}
    \cup {r \in {"MISSING_NEXT_EXPECTED_DATE"} : a.kind = "recurring" /\ ~a.next}

Reasons(a) ==
    {"AI_REVIEW_REQUIRED"}
    \cup {r \in {"LOW_CONFIDENCE"} : ~a.confident}
    \cup {r \in {"MISSING_AMOUNT_OR_CURRENCY"} : a.kind \in MoneyKinds /\ ~a.amount}
    \cup {r \in {"MISSING_OCCURRED_AT"} : a.occurred = None}
    \cup {r \in {"MISSING_COUNTERPARTY"} : a.kind \in ObligationKinds /\ a.counterparty = 0}
    \cup {r \in {"MISSING_RECURRENCE_RULE"} : a.kind = "recurring" /\ ~a.rule}
    \cup {r \in {"MISSING_NEXT_EXPECTED_DATE"} : a.kind = "recurring" /\ ~a.next}

\* The target is whichever of four columns is set.
Row == [event   : {a \in Answers : SchemaValid(a)},
        reasons : {Reasons(a) : a \in Answers},
        status  : {"needs_review", "reconciliation_review", "approved", "rejected"},
        target  : {None, "transaction", "recurring"} \cup ObligationKinds]

ProposalsAssumption ==
    /\ \A a \in Answers : IsAnswer(a)
    /\ None \notin Int /\ None \notin Row
    /\ None \notin {"transaction", "recurring"} \cup ObligationKinds
    /\ MaxPerson \in Nat /\ MaxName \in Nat
    /\ DayLength \in Nat \ {0} /\ Offset \in Int

\* Rows are inserted for review.
Fresh(a) == [event |-> a, reasons |-> Reasons(a), status |-> "needs_review", target |-> None]

\* mutant: the answer that comes last is kept.
StoredLast(a) == Fresh(a)

\* ON CONFLICT DO NOTHING: the answer that comes first is kept.
Stored(a) == IF proposal = None THEN Fresh(a) ELSE proposal

\* A proposal that exists is returned, and no model asked.
Ask(e) ==
    /\ proposal = None /\ e \notin running
    /\ running' = running \cup {e}
    /\ UNCHANGED <<proposal, raw, error>>

\* The provider gave up, or what it said does not satisfy the schema.
ExtractionFails(e) ==
    /\ e \in running
    /\ running' = running \ {e}
    /\ error' = "AI_ERROR"
    /\ UNCHANGED <<proposal, raw>>

Extracted(e, a) ==
    /\ e \in running /\ SchemaValid(a)
    /\ running' = running \ {e}
    /\ proposal' = Stored(a)
    /\ error' = None
    /\ UNCHANGED raw

-----------------------------------------------------------------------------
(* Review.                                                                 *)

Pending == proposal # None /\ proposal.status = "needs_review"

\* The owner's local date of an instant.
LocalDay(at) == (at + Offset) \div DayLength

MoneyAndTime(a) == a.amount /\ a.currency /\ a.occurred # None

\* parse_create_person() and parse_create_obligation()
ObligationAccepted(a) ==
    /\ a.counterparty \in 1..MaxPerson
    /\ a.due # None => a.due >= LocalDay(a.occurred)

\* mutant: the fields of a schedule are not looked at.
RecurringAccepted1(a) == a.amount /\ a.currency /\ a.merchant

RecurringAccepted(a) == a.amount /\ a.currency /\ a.merchant /\ a.rule /\ a.next

Approvable(a) ==
    \/ a.kind \in TransactionKinds /\ MoneyAndTime(a)
    \/ a.kind \in ObligationKinds /\ MoneyAndTime(a) /\ ObligationAccepted(a)
    \/ a.kind = "recurring" /\ RecurringAccepted(a)

TargetOf(a) == IF a.kind \in TransactionKinds THEN "transaction" ELSE a.kind

\* A transaction that may be a duplicate waits for a second decision. A refused
\* approval rolls back and leaves no trace.
Approve(duplicate) ==
    /\ Pending /\ Approvable(proposal.event)
    /\ duplicate => proposal.event.kind \in TransactionKinds
    /\ IF duplicate
       THEN /\ proposal' = [proposal EXCEPT !.status = "reconciliation_review"]
            /\ error' = "POSSIBLE_DUPLICATE"
            /\ UNCHANGED raw
       ELSE /\ proposal' = [proposal EXCEPT !.status = "approved", !.target = TargetOf(proposal.event)]
            /\ raw' = "processed" /\ error' = None
    /\ UNCHANGED running

\* mutant: the case is resolved and its proposal approved, but not linked.
ResolvedUnlinked == [proposal EXCEPT !.status = "approved"]

Resolved == [proposal EXCEPT !.status = "approved", !.target = "transaction"]

\* merge() or keep_separate() of the case.
Resolve ==
    /\ proposal # None /\ proposal.status = "reconciliation_review"
    /\ proposal' = Resolved
    /\ raw' = "processed" /\ error' = None
    /\ UNCHANGED running

Reject ==
    /\ Pending
    /\ proposal' = [proposal EXCEPT !.status = "rejected"]
    /\ error' = "USER_REJECTED"
    /\ UNCHANGED <<running, raw>>

Init == running = {} /\ proposal = None /\ raw = "needs_review" /\ error = None

Next ==
    \/ \E e \in Extractors : Ask(e) \/ ExtractionFails(e)
    \/ \E e \in Extractors, a \in Answers : Extracted(e, a)
    \/ \E duplicate \in BOOLEAN : Approve(duplicate)
    \/ Resolve
    \/ Reject

Spec == Init /\ [][Next]_vars

-----------------------------------------------------------------------------
(* Properties.                                                             *)

TypeOK ==
    /\ running \subseteq Extractors
    /\ raw \in {"needs_review", "processed"}
    /\ error \in {None, "AI_ERROR", "POSSIBLE_DUPLICATE", "USER_REJECTED"}
    /\ proposal \in Row \cup {None}

Missing == proposal.reasons \ {"AI_REVIEW_REQUIRED", "LOW_CONFIDENCE"}

\* A reason that names something missing is no idle warning: such a proposal is
\* never approved, but for a recurring payment, which needs no time of occurrence.
MissingBlocks ==
    proposal # None /\ proposal.status \in {"approved", "reconciliation_review"} =>
        Missing \subseteq {r \in {"MISSING_OCCURRED_AT"} : proposal.event.kind = "recurring"}

\* docs/phase2-ingestion.md:101, "unknown required facts [...] add visible review
\* reasons", as far as it is so: a proposal whose approval is refused names what is
\* missing, unless it is of no kind, a transfer without money, a recurring payment
\* without a merchant, or an obligation with too long a name or due before its day.
GapsAreShown ==
    Pending /\ ~Approvable(proposal.event) =>
        LET a == proposal.event
        IN  \/ Missing # {}
            \/ a.kind = "unknown"
            \/ a.kind = "transfer" /\ ~a.amount
            \/ a.kind = "recurring" /\ ~a.merchant
            \/ a.kind \in ObligationKinds /\ a.counterparty > MaxPerson
            \/ a.kind \in ObligationKinds /\ a.due # None /\ a.due < LocalDay(a.occurred)

\* data-model.md:81, "an approved proposal must have exactly one canonical target",
\* which the table insists on, and then its event is processed; otherwise neither.
TargetsAgree ==
    /\ (raw = "processed") = (proposal # None /\ proposal.status = "approved")
    /\ proposal # None => (proposal.target # None) = (raw = "processed")

\* Answers that come late, from an attempt that was given up or a second caller,
\* change no fact under review and reopen nothing that was reviewed.
FirstAnswerStays ==
    [][proposal # None =>
         /\ proposal'.event = proposal.event
         /\ proposal.status # "needs_review" => proposal'.status # "needs_review"]_vars

=============================================================================
