------------------------------ MODULE MCLiveness ------------------------------
(***************************************************************************)
(* What must happen in the end, for TLC: a disconnect is answered, a        *)
(* mailbox is ingested, a question gets its outcome. The three share no     *)
(* state, so each behaviour is one of a single component.                   *)
(***************************************************************************)
EXTENDS Integers, FiniteSets, Sequences, TLC

CONSTANTS None, t1, c1, o1, o2, d1, a1, m1, m2, m3, s1, s2, q1, q2

VARIABLES
    part,   \* the component that acts
    gmail_clock, gmail_cred, gmail_tickets, gmail_callbacks, gmail_ops, gmail_cuts,
    gmail_holder, gmail_conns, gmail_valid, gmail_issued, gmail_stranded, gmail_lastCut,
    mail_mailbox, mail_arrived, mail_cursor, mail_state, mail_attempts, mail_sync,
    mail_passed, mail_faults,
    page_mailbox, page_arrived, page_cursor, page_state, page_attempts, page_sync,
    page_passed, page_faults,
    ask_session, ask_ask

-----------------------------------------------------------------------------
(* Bounds and values.                                                      *)

Question(tool, blocked, period, person, transaction) ==
    [tool |-> tool, blocked |-> blocked, period |-> period, person |-> person,
     transaction |-> transaction]

\* Every way routing can take a question: to a tool of one read or of two, to
\* the model, for want of input, for its period, or because it is denied.
AllQuestions ==
    {Question("summary", FALSE, FALSE, TRUE, TRUE),
     Question("relationship", FALSE, FALSE, TRUE, TRUE),
     Question("relationship", FALSE, FALSE, FALSE, TRUE),
     Question("unsupported", FALSE, FALSE, TRUE, FALSE),
     Question("unsupported", FALSE, TRUE, TRUE, TRUE),
     Question("summary", TRUE, FALSE, TRUE, TRUE)}

-----------------------------------------------------------------------------
(* The components.                                                         *)

\* Refreshes and syncs that may hang until their timer fires.
Gmail == INSTANCE GmailConnection WITH
    Tickets <- {t1}, Callbacks <- {c1}, Operations <- {o1, o2}, Disconnects <- {d1},
    Accounts <- {a1}, MaxVersion <- 1, clock <- gmail_clock, cred <- gmail_cred,
    tickets <- gmail_tickets, callbacks <- gmail_callbacks, ops <- gmail_ops,
    cuts <- gmail_cuts, holder <- gmail_holder, conns <- gmail_conns,
    valid <- gmail_valid, issued <- gmail_issued, stranded <- gmail_stranded,
    lastCut <- gmail_lastCut

\* Two messages, one a page, with overlapping syncs.
Mailbox == INSTANCE Sync WITH
    Messages <- {m1, m2}, Relevant <- {m1, m2}, Hostile <- {}, Malformed <- {m2},
    Syncs <- {s1, s2}, PageSize <- 1, MaxFaults <- 0, mailbox <- mail_mailbox,
    arrived <- mail_arrived, cursor <- mail_cursor, state <- mail_state,
    attempts <- mail_attempts, sync <- mail_sync, passed <- mail_passed,
    faults <- mail_faults

\* Three messages, one a page.
Pages == INSTANCE Sync WITH
    Messages <- {m1, m2, m3}, Relevant <- {m1, m2, m3}, Hostile <- {}, Malformed <- {m3},
    Syncs <- {s1}, PageSize <- 1, MaxFaults <- 0, mailbox <- page_mailbox,
    arrived <- page_arrived, cursor <- page_cursor, state <- page_state,
    attempts <- page_attempts, sync <- page_sync, passed <- page_passed,
    faults <- page_faults

\* Two requests, one slot.
Questions == INSTANCE Agent WITH
    Askers <- {q1, q2}, Questions <- AllQuestions, MaxConcurrent <- 1,
    session <- ask_session, ask <- ask_ask

ASSUME LivenessAssumptions ==
    /\ Gmail!GmailAssumption
    /\ Mailbox!SyncAssumption /\ Pages!SyncAssumption
    /\ Questions!AgentAssumption

-----------------------------------------------------------------------------
(* One component acts, the others stay where they began.                   *)

Init ==
    /\ part \in {"gmail", "mailbox", "pages", "questions"}
    /\ Gmail!Init /\ Mailbox!Init /\ Pages!Init /\ Questions!Init

gmail_vars == <<gmail_clock, gmail_cred, gmail_tickets, gmail_callbacks, gmail_ops,
                gmail_cuts, gmail_holder, gmail_conns, gmail_valid, gmail_issued,
                gmail_stranded, gmail_lastCut>>
mail_vars == <<mail_mailbox, mail_arrived, mail_cursor, mail_state, mail_attempts,
               mail_sync, mail_passed, mail_faults>>
page_vars == <<page_mailbox, page_arrived, page_cursor, page_state, page_attempts,
               page_sync, page_passed, page_faults>>
ask_vars == <<ask_session, ask_ask>>

\* All components but p rest.
Rest(p) ==
    /\ part = p
    /\ IF p = "gmail" THEN TRUE ELSE UNCHANGED gmail_vars
    /\ IF p = "mailbox" THEN TRUE ELSE UNCHANGED mail_vars
    /\ IF p = "pages" THEN TRUE ELSE UNCHANGED page_vars
    /\ IF p = "questions" THEN TRUE ELSE UNCHANGED ask_vars
    /\ UNCHANGED part

Next ==
    \/ part = "gmail" /\ Gmail!Next /\ Rest("gmail")
    \/ part = "mailbox" /\ Mailbox!Next /\ Rest("mailbox")
    \/ part = "pages" /\ Pages!Next /\ Rest("pages")
    \/ part = "questions" /\ Questions!Next /\ Rest("questions")

vars == <<part, gmail_vars, mail_vars, page_vars, ask_vars>>
Spec == Init /\ [][Next]_vars

\* The fairness of each component, stated in its module: timers fire and a
\* request that holds the row goes on; the owner goes on asking for syncs and
\* a sync goes on; the limit of a question fires.
FairSpec ==
    /\ Spec
    /\ \A o \in {o1, o2} :
         /\ WF_vars(part = "gmail" /\ Gmail!Timeout(o) /\ Rest("gmail"))
         /\ WF_vars(part = "gmail" /\ Gmail!GiveUp(o) /\ Rest("gmail"))
    /\ WF_vars(part = "gmail" /\ Gmail!Cut(d1) /\ Rest("gmail"))
    /\ \A s \in {s1, s2} :
         /\ WF_vars(part = "mailbox" /\ Mailbox!Start(s) /\ Rest("mailbox"))
         /\ WF_vars(part = "mailbox" /\ Mailbox!Step(s) /\ Rest("mailbox"))
    /\ WF_vars(part = "pages" /\ Pages!Start(s1) /\ Rest("pages"))
    /\ WF_vars(part = "pages" /\ Pages!Step(s1) /\ Rest("pages"))
    /\ \A q \in {q1, q2} :
         WF_vars(part = "questions" /\ Questions!Timeout(q) /\ Rest("questions"))

-----------------------------------------------------------------------------
(* The properties. A component at rest satisfies its own by never leaving  *)
(* its initial state: nothing waits, nothing is listed, nothing runs.      *)

\* Whatever holds the row when the owner disconnects, the request ends.
DisconnectAnswered == Gmail!DisconnectAnswered

\* A relevant message that stays in the mailbox is ingested in the end.
EverythingIsIngested == Mailbox!EverythingIsIngested /\ Pages!EverythingIsIngested

\* Every question gets an outcome, even if a provider or the database hangs.
EveryQuestionEnds == Questions!EveryQuestionEnds

=============================================================================
