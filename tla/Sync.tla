--------------------------------- MODULE Sync ---------------------------------
(***************************************************************************)
(* Reading a mailbox page by page: IngestionService.sync_connector with the *)
(* Gmail connector (app/ingestion/service.py, app/ingestion/repository.py,  *)
(* app/connectors/gmail.py), for one source connection.                     *)
(*                                                                         *)
(* A sync reads the cursor in one transaction, fetches a page from Google,  *)
(* stores and processes each of its messages in transactions of their own,  *)
(* and writes the cursor in a last one. Nothing in the service orders two   *)
(* syncs of one connection: the credential lock of the caller does, as long *)
(* as its database connection lives.                                        *)
(*                                                                         *)
(* The mailbox is external: messages arrive at the front and are deleted    *)
(* anywhere while syncs run. A page token stands for a position in the      *)
(* listing; the last page has none, and the next sync starts from the top.  *)
(***************************************************************************)
EXTENDS Integers, Sequences, SequencesExt, FiniteSetsExt

CONSTANTS
    Messages,       \* messages that may arrive
    Relevant,       \* those the relevance filter keeps
    Hostile,        \* those no row can hold (a NUL character, too large)
    Malformed,      \* those the normalizer refuses
    Syncs,          \* syncs that may overlap
    PageSize,       \* gmail_sync_max_results
    MaxFaults       \* bound: failures of Google, of the database, crashes

SyncAssumption ==
    /\ Relevant \subseteq Messages
    /\ Hostile \subseteq Relevant
    /\ Malformed \subseteq Relevant
    /\ PageSize \in Nat \ {0}
    /\ MaxFaults \in Nat

VARIABLES
    mailbox,    \* external: the messages Gmail lists, newest first
    arrived,    \* external: the messages that have been in it
    cursor,     \* source_connections.cursor: the position, 0 for {}
    state,      \* raw_event_processing.state of each message, or "none"
    attempts,   \* raw_event_processing.attempt_count, up to AttemptCap
    sync,       \* where each sync stands, and what it carries
    passed,     \* history: messages of the pages the cursor moved past
    faults      \* faults so far

vars == <<mailbox, arrived, cursor, state, attempts, sync, passed, faults>>

mail == <<mailbox, arrived>>

AttemptCap == 2     \* bound: attempt_count is not told apart beyond it

-----------------------------------------------------------------------------
States == {"none", "received", "failed", "needs_review"}

Terminal == {"needs_review"}

Runs == [pc : {"idle", "asked", "reading", "storing", "stored", "normalizing"},
         cursor : Nat, page : Seq(Messages), todo : SUBSET Nat, next : Nat]

Idle == [pc |-> "idle", cursor |-> 0, page |-> <<>>, todo |-> {}, next |-> 0]

Listed == {mailbox[i] : i \in DOMAIN mailbox}

TypeOK ==
    /\ mailbox \in Seq(Messages)
    /\ Listed \subseteq arrived /\ arrived \subseteq Messages
    /\ cursor \in Nat
    /\ state \in [Messages -> States]
    /\ attempts \in [Messages -> 0..AttemptCap]
    /\ sync \in [Syncs -> Runs]
    /\ passed \subseteq Messages
    /\ faults \in 0..MaxFaults

Init ==
    /\ mailbox = <<>>
    /\ arrived = {}
    /\ cursor = 0
    /\ state = [m \in Messages |-> "none"]
    /\ attempts = [m \in Messages |-> 0]
    /\ sync = [s \in Syncs |-> Idle]
    /\ passed = {}
    /\ faults = 0

-----------------------------------------------------------------------------
(* The mailbox.                                                            *)

Arrive(m) ==
    /\ m \notin arrived
    /\ mailbox' = <<m>> \o mailbox
    /\ arrived' = arrived \cup {m}
    /\ UNCHANGED <<cursor, state, attempts, sync, passed, faults>>

Delete(m) ==
    /\ \E i \in DOMAIN mailbox : mailbox[i] = m /\ mailbox' = RemoveAt(mailbox, i)
    /\ UNCHANGED <<arrived, cursor, state, attempts, sync, passed, faults>>

-----------------------------------------------------------------------------
(* One sync.                                                               *)

\* ensure_connection: the row, with the cursor it has now.
Start(s) ==
    /\ sync[s].pc = "idle"
    /\ sync' = [sync EXCEPT ![s] = [Idle EXCEPT !.pc = "asked", !.cursor = cursor]]
    /\ UNCHANGED <<mail, cursor, state, attempts, passed, faults>>

PageAt(k) ==
    IF k >= Len(mailbox) THEN <<>>
    ELSE SubSeq(mailbox, k + 1, IF k + PageSize < Len(mailbox) THEN k + PageSize
                                                                ELSE Len(mailbox))

\* mutant: the token of the page before.
NextPageBack(k) == k - PageSize

\* nextPageToken of that page; none on the last one.
NextPage(k) == IF k + PageSize < Len(mailbox) THEN k + PageSize ELSE 0

List(s) ==
    /\ sync[s].pc = "asked"
    /\ sync' = [sync EXCEPT ![s].pc = "reading", ![s].page = PageAt(sync[s].cursor),
                            ![s].next = NextPage(sync[s].cursor)]
    /\ UNCHANGED <<mail, cursor, state, attempts, passed, faults>>

\* _minimize_message keeps what looks financial: positions of the page.
Kept(page) == {i \in DOMAIN page : page[i] \in Relevant}

\* Every message of the page is read, one GET each.
Read(s) ==
    LET page == sync[s].page IN
    /\ sync[s].pc = "reading"
    /\ \A i \in DOMAIN page : page[i] \in Listed
    /\ sync' = [sync EXCEPT ![s].pc = "storing", ![s].todo = Kept(page)]
    /\ UNCHANGED <<mail, cursor, state, attempts, passed, faults>>

\* A message deleted since the listing is a 404, which ends the sync.
ReadFails(s) ==
    LET page == sync[s].page IN
    /\ sync[s].pc = "reading"
    /\ \E i \in DOMAIN page : page[i] \notin Listed
    /\ sync' = [sync EXCEPT ![s] = Idle]
    /\ UNCHANGED <<mail, cursor, state, attempts, passed, faults>>

\* The batch is worked off in the order of the page.
Current(s) == sync[s].page[Min(sync[s].todo)]

Others(s) == sync[s].todo \ {Min(sync[s].todo)}

\* The raw event and its processing row, once per identity.
StoreRaw(s) ==
    LET m == Current(s) IN
    /\ sync[s].pc = "storing"
    /\ sync[s].todo # {}
    /\ m \notin Hostile
    /\ state' = [state EXCEPT ![m] = IF @ = "none" THEN "received" ELSE @]
    /\ sync' = [sync EXCEPT ![s].pc = "stored"]
    /\ UNCHANGED <<mail, cursor, attempts, passed, faults>>

\* mutant: a message that cannot be stored is left out.
OnRefusalSkip(s) == [sync EXCEPT ![s].todo = Others(s)]

\* Neither caught by _ingest_for_connection nor by sync_connector.
OnRefusal(s) == [sync EXCEPT ![s] = Idle]

StoreRefused(s) ==
    /\ sync[s].pc = "storing"
    /\ sync[s].todo # {}
    /\ Current(s) \in Hostile
    /\ sync' = OnRefusal(s)
    /\ UNCHANGED <<mail, cursor, state, attempts, passed, faults>>

NextMessage(s) == [sync EXCEPT ![s].pc = "storing", ![s].todo = Others(s)]

\* A first look, without a lock: a redelivered message needs no work.
TerminalResult(s) ==
    /\ sync[s].pc = "stored"
    /\ sync' = IF state[Current(s)] \in Terminal
               THEN NextMessage(s) ELSE [sync EXCEPT ![s].pc = "normalizing"]
    /\ UNCHANGED <<mail, cursor, state, attempts, passed, faults>>

Counted(m) == [attempts EXCEPT ![m] = IF @ < AttemptCap THEN @ + 1 ELSE @]

\* mutant: the state is not read again once the row is locked.
SettledUnlocked(m) == FALSE

\* The state is read again with the row locked.
Settled(m) == state[m] \in Terminal

\* The normalizer's verdict is recorded. A Gmail message is of unknown kind,
\* which always waits for a review.
Process(s) ==
    LET m == Current(s) IN
    /\ sync[s].pc = "normalizing"
    /\ \/ /\ Settled(m)
          /\ UNCHANGED <<state, attempts>>
       \/ /\ ~Settled(m)
          /\ state' = [state EXCEPT ![m] = IF m \in Malformed THEN "failed"
                                                              ELSE "needs_review"]
          /\ attempts' = Counted(m)
    /\ sync' = NextMessage(s)
    /\ UNCHANGED <<mail, cursor, passed, faults>>

\* mutant: the cursor never moves back.
CursorForward(s) == IF sync[s].next > cursor THEN sync[s].next ELSE cursor

\* update_connection_cursor, whatever the cursor has become meanwhile.
CursorAfter(s) == sync[s].next

Advance(s) ==
    /\ sync[s].pc = "storing"
    /\ sync[s].todo = {}
    /\ cursor' = CursorAfter(s)
    /\ passed' = passed \cup {sync[s].page[i] : i \in DOMAIN sync[s].page}
    /\ sync' = [sync EXCEPT ![s] = Idle]
    /\ UNCHANGED <<mail, state, attempts, faults>>

\* The connector is unhealthy, Google answers with an error, the time limit is
\* reached or the process dies: what was committed stays.
Fault(s) ==
    /\ faults < MaxFaults
    /\ faults' = faults + 1
    /\ sync[s].pc # "idle"
    /\ sync' = [sync EXCEPT ![s] = Idle]
    /\ UNCHANGED <<mail, cursor, state, attempts, passed>>

-----------------------------------------------------------------------------
Step(s) ==
    \/ List(s) \/ Read(s) \/ ReadFails(s) \/ StoreRaw(s) \/ StoreRefused(s)
    \/ TerminalResult(s) \/ Process(s) \/ Advance(s)

Next ==
    \/ \E m \in Messages : Arrive(m) \/ Delete(m)
    \/ \E s \in Syncs : Start(s) \/ Step(s) \/ Fault(s)

Spec == Init /\ [][Next]_vars

\* The owner goes on asking for syncs, and a sync that runs goes on.
FairSpec == Spec /\ \A s \in Syncs : WF_vars(Start(s)) /\ WF_vars(Step(s))

-----------------------------------------------------------------------------
(* Properties.                                                             *)

\* The cursor moves past a page only when all that is relevant on it is kept,
\* whatever ended the syncs before, and whichever of two syncs wrote it.
PassedIsKept == \A m \in passed \cap Relevant : state[m] # "none"

\* A message is accepted once, however many syncs deliver it at a time.
AcceptedOnce ==
    \A m \in Messages \ Malformed : state[m] = "needs_review" => attempts[m] = 1

\* A relevant message that stays in the mailbox is ingested in the end, though
\* the pages shift while they are read and a slow sync takes the cursor back.
EverythingIsIngested ==
    \A m \in Relevant \ Hostile :
        m \in Listed ~> (state[m] \in {"failed", "needs_review"} \/ m \notin Listed)

=============================================================================
