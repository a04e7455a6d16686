--------------------------- MODULE MCServices ---------------------------
(***************************************************************************)
(* The services around the queue, for TLC: sign-in, the mailbox sync,      *)
(* questions to the finance agent, the attempts of one extraction in time, *)
(* what the answers of its model are worth, and what the sources deliver.  *)
(* They share no state, so each behaviour is one of a single component, and *)
(* the others rest.                                                        *)
(***************************************************************************)
EXTENDS Integers, FiniteSets, Sequences, FiniteSetsExt, TLC

CONSTANTS
    None,
    Requests, Processes,                   \* logins and questions; browsers, syncs, slots, extractions
    Subjects,                              \* of sign-in
    Messages, Relevant, Hostile, Malformed, PageSize, MaxFaults,                 \* of the mailbox
    Questions, MaxConcurrent,                                                    \* of the agent
    Leases, Timeouts, Margin, MaxAttempts, Backoff, MaxBackoff, AiAttempts, AiBackoff, Stall, Gap,
    Replies, MaxName, MaxPerson, DayLength, Offset,                              \* of a proposal
    r1, r2, f1, f2, n1, n2,                     \* rows, files and names of the documents
    Documents, LabelNames, MaxDescription, DescriptionCut, SubjectCut, MaxNote, MaxTag, MaxTags,
    MaxDeliveries                                                                \* of the connectors

VARIABLES
    part,   \* the component that acts
    login_login, login_identity, login_users, login_session, login_flow, login_cookie, login_leaving,
    mail_mailbox, mail_arrived, mail_cursor, mail_state, mail_attempts, mail_sync, mail_passed, mail_faults,
    ask_session, ask_ask,
    extract_now, extract_settings, extract_job, extract_slot, extract_proposal, extract_calls,
    review_running, review_proposal, review_raw, review_error,
    deliver_stored, deliver_state, deliver_last, deliver_sent, deliver_settled, deliver_deliveries

-----------------------------------------------------------------------------
(* Values for the configuration.                                           *)

Symmetry  == Permutations(Requests) \cup Permutations(Processes)

Question(tool, blocked, period, person, transaction) ==
    [tool |-> tool, blocked |-> blocked, period |-> period, person |-> person,
     transaction |-> transaction]

\* One question of each way of routing, and the tool with two reads.
EachQuestion ==
    {Question("relationship", FALSE, FALSE, TRUE, TRUE),
     Question("unsupported", FALSE, FALSE, TRUE, FALSE),
     Question("unsupported", FALSE, TRUE, TRUE, TRUE),
     Question("summary", TRUE, FALSE, TRUE, TRUE)}

\* Every answer of a model, as far as the fields matter to its kind. At instant
\* 3 it is day 0 by UTC and day 1 where the owner lives.
Flag == [amount : BOOLEAN, currency : BOOLEAN, confident : BOOLEAN, occurred : {None, 3}]

Said(kind, f, due, counterparty, merchant, rule, next) ==
    [kind |-> kind, amount |-> f.amount, currency |-> f.currency, confident |-> f.confident,
     occurred |-> f.occurred, due |-> due, counterparty |-> counterparty,
     merchant |-> merchant, rule |-> rule, next |-> next]

EachAnswer ==
    {Said(k, f, None, 0, FALSE, FALSE, FALSE) :
        k \in {"expense", "income", "transfer", "refund", "shared_expense", "unknown"}, f \in Flag}
    \cup {Said(k, f, due, c, FALSE, FALSE, FALSE) :
        k \in {"receivable", "payable"}, f \in Flag, due \in {None, 0, 1}, c \in {0, 2, 3, 4}}
    \cup {Said("recurring", f, None, 0, m, r, n) :
        f \in Flag, m \in BOOLEAN, r \in BOOLEAN, n \in BOOLEAN}

\* Documents with lengths around the bounds.
Label(name, size) == [name |-> name, size |-> size]

LabelSets == {<<>>, <<Label("a", 1), Label("a", 2), Label("b", 2)>>,
              <<Label("a", 1), Label("b", 0), Label("b", 1), Label("c", 2)>>,
              <<Label("a", 2), Label("b", 2), Label("c", 3)>>,
              <<Label("a", 2), Label("b", 2), Label("c", 2), Label("d", 2)>>}

Manual(notes, labels) == [source : {"manual"}, id : {n1}, note : notes, labels : labels]

Keep(ids, trashed, titles, notes, labels) ==
    [source : {"keep"}, id : ids, trashed : trashed, title : titles, note : notes,
     labels : labels]

\* One title is longer than a description may be.
Notes ==
    Manual(0..4, {<<>>}) \cup Manual({1}, LabelSets)
    \cup Keep({n1, n2}, {FALSE}, {0, 2}, {0, 4}, {<<>>})
    \cup Keep({n1}, {FALSE}, {2}, {0}, LabelSets) \cup Keep({n1}, {TRUE}, {2}, {0}, {<<>>})
    \cup Keep({n2}, {FALSE}, {3}, {0}, {<<>>})

Mail(ids, relevant, subjects) ==
    [source : {"gmail"}, id : ids, relevant : relevant, subject : subjects]

Mails == Mail({n1}, {TRUE}, 0..3) \cup Mail({n2}, {TRUE}, {1}) \cup Mail({n1}, {FALSE}, {1})

Row(ids, files, rows, descriptions, amounts, labels) ==
    [source : {"csv"}, id : ids, file : files, row : rows, description : descriptions,
     amount : amounts, currency : {TRUE}, labels : labels]

\* Rows that look equal in two files, with and without their provider's id, and
\* one row with every set of labels.
FileRows ==
    Row({None, n1}, {f1, f2}, {r1, r2}, {1, 3}, {TRUE}, {<<>>})
    \cup Row({None, n1}, {f1}, {r1}, {1}, {FALSE}, {<<>>})
    \cup Row({None}, {f1}, {r1}, {0, 1}, {TRUE}, LabelSets)

AllDocuments == Notes \cup Mails \cup FileRows

-----------------------------------------------------------------------------
(* The components.                                                         *)

SignIn == INSTANCE Login WITH
    Logins <- Requests, Browsers <- Processes, login <- login_login,
    identity <- login_identity, users <- login_users, session <- login_session,
    flow <- login_flow, cookie <- login_cookie, leaving <- login_leaving

Mailbox == INSTANCE Sync WITH
    Syncs <- Processes, mailbox <- mail_mailbox, arrived <- mail_arrived, cursor <- mail_cursor,
    state <- mail_state, attempts <- mail_attempts, sync <- mail_sync, passed <- mail_passed,
    faults <- mail_faults

Asking == INSTANCE Agent WITH
    Askers <- Requests, session <- ask_session, ask <- ask_ask

Extraction == INSTANCE Attempts WITH
    Slots <- Processes, now <- extract_now, settings <- extract_settings, job <- extract_job,
    slot <- extract_slot, proposal <- extract_proposal, calls <- extract_calls

Review == INSTANCE Proposals WITH
    Extractors <- Processes, Answers <- Replies, running <- review_running, proposal <- review_proposal,
    raw <- review_raw, error <- review_error

Delivery == INSTANCE Connectors WITH
    stored <- deliver_stored, state <- deliver_state, last <- deliver_last, sent <- deliver_sent,
    settled <- deliver_settled, deliveries <- deliver_deliveries

ASSUME ServicesAssumptions ==
    /\ SignIn!LoginAssumption
    /\ Mailbox!SyncAssumption
    /\ Asking!AgentAssumption
    /\ Extraction!AttemptsAssumption
    /\ Review!ProposalsAssumption
    /\ Delivery!ConnectorsAssumption

-----------------------------------------------------------------------------
(* One component acts, the others stay where they began. Where the attempts *)
(* rest their process has one pair of lease and timeout, else any accepted.*)

Init ==
    /\ part \in {"signin", "mailbox", "questions", "extraction", "review", "deliveries"}
    /\ SignIn!Init /\ Mailbox!Init /\ Asking!Init /\ Extraction!Init /\ Review!Init /\ Delivery!Init
    /\ part = "extraction"
       \/ extract_settings = CHOOSE s \in [lease : Leases, timeout : Timeouts] : Extraction!Valid(s)

login_vars == <<login_login, login_identity, login_users, login_session, login_flow, login_cookie, login_leaving>>
mail_vars == <<mail_mailbox, mail_arrived, mail_cursor, mail_state, mail_attempts, mail_sync, mail_passed, mail_faults>>
ask_vars == <<ask_session, ask_ask>>
extract_vars == <<extract_now, extract_settings, extract_job, extract_slot, extract_proposal, extract_calls>>
review_vars == <<review_running, review_proposal, review_raw, review_error>>
deliver_vars == <<deliver_stored, deliver_state, deliver_last, deliver_sent, deliver_settled, deliver_deliveries>>

\* All components but p rest.
Rest(p) ==
    /\ IF p = "signin" THEN TRUE ELSE UNCHANGED login_vars
    /\ IF p = "mailbox" THEN TRUE ELSE UNCHANGED mail_vars
    /\ IF p = "questions" THEN TRUE ELSE UNCHANGED ask_vars
    /\ IF p = "extraction" THEN TRUE ELSE UNCHANGED extract_vars
    /\ IF p = "review" THEN TRUE ELSE UNCHANGED review_vars
    /\ IF p = "deliveries" THEN TRUE ELSE UNCHANGED deliver_vars
    /\ UNCHANGED part

Next ==
    \/ part = "signin" /\ SignIn!Next /\ Rest("signin")
    \/ part = "mailbox" /\ Mailbox!Next /\ Rest("mailbox")
    \/ part = "questions" /\ Asking!Next /\ Rest("questions")
    \/ part = "extraction" /\ Extraction!Next /\ Rest("extraction")
    \/ part = "review" /\ Review!Next /\ Rest("review")
    \/ part = "deliveries" /\ Delivery!Next /\ Rest("deliveries")

vars == <<part, login_vars, mail_vars, ask_vars, extract_vars, review_vars, deliver_vars>>
Spec == Init /\ [][Next]_vars

-----------------------------------------------------------------------------
(* The properties, stated one by one in the modules of the components and  *)
(* looked at while the component acts: the others are in initial states.   *)

\* Every variable of the component that acts has its type.
TypeOK ==
    CASE part = "signin"      -> SignIn!TypeOK
      [] part = "mailbox"     -> Mailbox!TypeOK
      [] part = "questions"   -> Asking!TypeOK
      [] part = "extraction"  -> Extraction!TypeOK
      [] part = "review"      -> Review!TypeOK
      [] part = "deliveries"  -> Delivery!TypeOK

\* Signing in, however logins, logouts and expiry interleave: two first logins
\* of one subject leave one user and no row behind, a session is of the user of
\* the subject it was made for, the session a browser came with does not outlive
\* its next login, and a subject never changes its user.
LoginsHold ==
    /\ [](part = "signin" => /\ SignIn!NoOrphanUser
                             /\ SignIn!SessionOfSubject
                             /\ SignIn!Rotated)
    /\ SignIn!IdentityIsFinal

\* Syncs that overlap, fail or meet what they cannot store: the cursor moves
\* past no message that is not kept, and a message is accepted once.
SyncsKeepAll == part = "mailbox" => Mailbox!PassedIsKept /\ Mailbox!AcceptedOnce

\* Questions while sessions end and timers fire: a session that has ended gets
\* one read at most, an answer rests on all the reads of its tool, a question
\* that is denied reads nothing, and no more run than there are slots.
QuestionsAreGuarded ==
    part = "questions" =>
        /\ Asking!LogoutStopsReads
        /\ Asking!NoPartialAnswer
        /\ Asking!RefusedReadNothing
        /\ Asking!SlotsSuffice

\* Extraction. With every accepted pair of lease and timeout two slots never work
\* on one job, a slot that lives on ends while it holds the lease, the two bounded
\* retries bound the calls to the provider, and a job is settled by a time known
\* in advance. What the model said is judged once: late answers change nothing,
\* what is missing blocks its approval, what blocks it is shown but for five named
\* gaps, and exactly the approved proposals have a target.
ExtractionsHold ==
    /\ [](part = "extraction" => /\ Extraction!NoOverlap
                                 /\ Extraction!EndsWithinLease
                                 /\ Extraction!BoundedCalls
                                 /\ Extraction!SettledByDeadline)
    /\ [](part = "review" => /\ Review!MissingBlocks
                             /\ Review!GapsAreShown
                             /\ Review!TargetsAgree)
    /\ Review!FirstAnswerStays

\* Deliveries and redeliveries in any order: but for a note whose title is too
\* long, whatever is accepted can be normalized or is refused by the connector
\* itself, a document delivered again is replayed, equal rows of one file are two
\* events, and the content under an identity is never replaced.
DeliveriesHold ==
    /\ [](part = "deliveries" => /\ Delivery!NormalizerAnswers
                                 /\ Delivery!RedeliveryReplays
                                 /\ Delivery!EqualRowsAreTwo)
    /\ Delivery!ContentIsFinal

=============================================================================
