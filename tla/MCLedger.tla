--------------------------- MODULE MCLedger ---------------------------
(***************************************************************************)
(* The components around the ledger, for TLC: obligations, recurring       *)
(* payments, what the owner is shown, categories, the monthly report, and  *)
(* the search for copies of an event. They share no row that one of them   *)
(* decides on, so each behaviour is one of a single component, and the     *)
(* others rest. A component appears twice where two questions need         *)
(* different bounds.                                                       *)
(***************************************************************************)
EXTENDS Integers, FiniteSets, Sequences, FiniteSetsExt, TLC

CONSTANTS
    None,
    Sessions,                                             \* requests that may be open at once
    Receivables,                                          \* of the obligations; the others are payables
    SettledIds, SettledCurrencies, MaxSettled, SettledDays,    \* where they are settled
    ExposedIds, ExposedCurrencies, MaxExposed, ExposedDays,    \* where they add up
    Payments, FirstDates, Rules, MaxRecorded,             \* recurring payments
    Zones, MonthLength, LastMonth,                        \* the owner's calendar
    SummaryIds, SummaryInstants, Amounts, Kinds, Statuses, Currencies, Purposes, Shops,
    PageIds, PageInstants, PageSize, Walkers,             \* the timeline
    Transactions, Texts, Patterns, Merchants, Labels, Priorities, RecallLimit, LastStamp,
    Postings, Headings, Debts, MonthDays, HistoryMonths, MinGap, MaxGap, FirstDay, LastDay, MaxChanges,
    Policies, Ledgers, Events, Likeness(_, _), Window, MaxCandidates

VARIABLES
    part,   \* the component that acts
    settle_row, settle_settled, settle_session, settle_receipt, settle_today,
    expose_row, expose_settled, expose_session, expose_receipt, expose_today,
    schedule_row, schedule_posted, schedule_session,
    sum_zone, sum_ledger, sum_walk,
    page_zone, page_ledger, page_walk,
    label_transaction, label_rules, label_learned, label_corrections, label_session, label_stamp,
    report_ledger, report_category, report_open, report_today, report_changes, report_report,
    copy_policy, copy_event, copy_ledger, copy_candidates, copy_result

-----------------------------------------------------------------------------
(* Zones whose clock never jumps over a first midnight or back behind it: *)
(* see the README.                                                         *)

Plain(z) ==
    \A m \in 0..(LastMonth + 1) :
        LET ends == {z.at + z.before, z.at + z.after}
        IN  ~(Min(ends) < m * MonthLength /\ m * MonthLength < Max(ends))

-----------------------------------------------------------------------------
(* Values for the configuration.                                           *)

Symmetry == Permutations(Sessions) \cup Permutations(Labels)

\* The ends of months of each length, in a common year and in a leap year.
MonthEnds ==
    {t \in [year : 2023..2024, month : {1, 2, 11}, day : 28..31] :
        t.day <= CASE t.month = 2  -> (IF t.year = 2024 THEN 29 ELSE 28)
                   [] t.month = 11 -> 30
                   [] OTHER        -> 31}

\* Around the midnight between two months, offsets change once.
PlainZones == {z \in [at : {3, 4}, before : -1..1, after : -1..1] : Plain(z)}

\* {"w1", "w2"} is similar to {"w1", "w2", "w3"} and to nothing else.
SimilarTexts == {{"w1", "w2"}, {"w1", "w2", "w3"}}

Entry(id, day, amount, type, merchant, cat, counts) ==
    [id |-> id, day |-> day, amount |-> amount, type |-> type, merchant |-> merchant,
     category |-> cat, counts |-> counts]

\* A monthly payment at m1 that a fourth one breaks, a refund, a large expense,
\* rows that do not count, and a row of the month after.
ReportRows ==
    {Entry(1, 1, 2, "expense", "m1", "rent", TRUE), Entry(2, 5, 2, "expense", "m1", "rent", TRUE),
     Entry(3, 9, 2, "expense", "m1", "rent", TRUE), Entry(4, 11, 2, "expense", "m2", "food", TRUE),
     Entry(5, 8, 8, "refund", "m1", "food", TRUE), Entry(6, 10, 4, "expense", None, "food", TRUE),
     Entry(7, 12, 2, "expense", "m1", "rent", TRUE), Entry(8, 9, 1, "expense", "m1", "food", FALSE)}

DueDebts == {[id |-> 1, due |-> 10], [id |-> 2, due |-> 11]}

Policy(flag, merge, amount, time, merchant, description) ==
    [flag |-> flag, merge |-> merge, amount |-> amount, time |-> time, merchant |-> merchant,
     description |-> description]

DefaultPolicy == Policy(70, 92, 35, 25, 20, 20)

\* The default policy and others, not all of them valid.
EachPolicy ==
    {DefaultPolicy, Policy(0, 1, 100, 0, 0, 0), Policy(95, 90, 35, 25, 20, 20),
     Policy(70, 92, 55, 25, 20, 20), Policy(70, 92, 25, 25, 20, 20)}

Alike(a, b) == 70

Near(id, ats) ==
    [id : {id}, at : ats, matches : {TRUE}, merchant : {None, "n1"}, description : {"n1", "n2"},
     ids : {{}, {"i1"}}]

\* No transaction, two of which one may not match, and three of which two are
\* looked at.
EachLedger ==
    {{}}
    \cup {{t, [u EXCEPT !.matches = FALSE]} : t \in Near(1, {8, 16}), u \in Near(2, {10})}
    \cup {{t, u, v} : t \in Near(1, {10, 13}), u \in Near(2, {8, 10}), v \in Near(3, {10, 13})}

EachEvent == [at : {10}, merchant : {None, "n1"}, description : {None, "n1"}, ids : {{}, {"i1"}}]

-----------------------------------------------------------------------------
(* The components.                                                         *)

TableOf(os) == [o \in os |-> IF o \in Receivables THEN "receivable" ELSE "payable"]

Settlements == INSTANCE Obligations WITH
    Obligation <- SettledIds, KindOf <- TableOf(SettledIds), Currency <- SettledCurrencies,
    MaxAmount <- MaxSettled, LastDay <- SettledDays, Session <- Sessions, row <- settle_row,
    settled <- settle_settled, session <- settle_session, receipt <- settle_receipt,
    today <- settle_today

Exposure == INSTANCE Obligations WITH
    Obligation <- ExposedIds, KindOf <- TableOf(ExposedIds), Currency <- ExposedCurrencies,
    MaxAmount <- MaxExposed, LastDay <- ExposedDays, Session <- Sessions, row <- expose_row,
    settled <- expose_settled, session <- expose_session, receipt <- expose_receipt,
    today <- expose_today

Schedules == INSTANCE Recurring WITH
    Payment <- Payments, FirstDate <- FirstDates, Rule <- Rules, Session <- Sessions,
    row <- schedule_row, posted <- schedule_posted, session <- schedule_session

\* The zone of a component that rests.
AZone == CHOOSE z \in Zones : TRUE

Summaries == INSTANCE LedgerViews WITH
    Zone <- Zones, TransactionId <- SummaryIds, Instant <- SummaryInstants, Amount <- Amounts,
    Kind <- Kinds, PostingStatus <- Statuses, Currency <- Currencies, Category <- Purposes,
    Merchant <- Shops, NoCategory <- None, NoMerchant <- None, Walker <- {}, zone <- sum_zone,
    ledger <- sum_ledger, walk <- sum_walk

Pages == INSTANCE LedgerViews WITH
    Zone <- {AZone}, TransactionId <- PageIds, Instant <- PageInstants, Amount <- Amounts,
    Kind <- {"expense"}, PostingStatus <- {"posted"}, Currency <- Currencies, Category <- {},
    Merchant <- {}, NoCategory <- None, NoMerchant <- None, Walker <- Walkers, zone <- page_zone,
    ledger <- page_ledger, walk <- page_walk

Classification == INSTANCE Categorization WITH
    Txn <- Transactions, Text <- Texts, Pattern <- Patterns, Merchant <- Merchants,
    NoMerchant <- None, Category <- Labels, Priority <- Priorities, Session <- Sessions,
    transaction <- label_transaction, rules <- label_rules, learned <- label_learned,
    corrections <- label_corrections, session <- label_session, stamp <- label_stamp

Report == INSTANCE Insights WITH
    Rows <- Postings, Categories <- Headings, Receivables <- Debts, ledger <- report_ledger,
    category <- report_category, open <- report_open, today <- report_today,
    changes <- report_changes, report <- report_report

Copies == INSTANCE Scoring WITH
    Alike <- Likeness, policy <- copy_policy, event <- copy_event, ledger <- copy_ledger,
    candidates <- copy_candidates, result <- copy_result

ASSUME LedgerAssumptions ==
    /\ Settlements!ObligationsAssumption /\ Exposure!ObligationsAssumption
    /\ Schedules!RecurringAssumption
    /\ Summaries!MonthsAssumption /\ Summaries!LedgerViewsAssumption
    /\ Pages!LedgerViewsAssumption
    /\ Zones # {} /\ \A z \in Zones : Plain(z)
    /\ Classification!CategorizationAssumption
    /\ Report!InsightsAssumption
    /\ Copies!ScoringAssumption

-----------------------------------------------------------------------------
(* One component acts, the others stay where they began. Where a component *)
(* begins in one of several states, those at rest begin in a chosen one.   *)

Init ==
    /\ part \in {"settlements", "exposure", "schedules", "summaries", "pages",
                 "categories", "report", "copies"}
    /\ Settlements!Init /\ Exposure!Init /\ Schedules!Init /\ Pages!Init
    /\ Classification!Init
    /\ sum_zone \in IF part = "summaries" THEN Zones ELSE {AZone}
    /\ Summaries!Init
    /\ part = "report" \/ report_ledger = {}
    /\ Report!Init
    /\ part = "copies" \/ /\ copy_policy = CHOOSE p \in Policies : Copies!Valid(p)
                          /\ copy_event = CHOOSE e \in Events : TRUE
                          /\ copy_ledger = CHOOSE L \in Ledgers : TRUE
    /\ Copies!Init

settle_vars == <<settle_row, settle_settled, settle_session, settle_receipt, settle_today>>
expose_vars == <<expose_row, expose_settled, expose_session, expose_receipt, expose_today>>
schedule_vars == <<schedule_row, schedule_posted, schedule_session>>
sum_vars == <<sum_zone, sum_ledger, sum_walk>>
page_vars == <<page_zone, page_ledger, page_walk>>
label_vars == <<label_transaction, label_rules, label_learned, label_corrections, label_session,
                label_stamp>>
report_vars == <<report_ledger, report_category, report_open, report_today, report_changes,
                 report_report>>
copy_vars == <<copy_policy, copy_event, copy_ledger, copy_candidates, copy_result>>

\* All components but p rest.
Rest(p) ==
    /\ IF p = "settlements" THEN TRUE ELSE UNCHANGED settle_vars
    /\ IF p = "exposure" THEN TRUE ELSE UNCHANGED expose_vars
    /\ IF p = "schedules" THEN TRUE ELSE UNCHANGED schedule_vars
    /\ IF p = "summaries" THEN TRUE ELSE UNCHANGED sum_vars
    /\ IF p = "pages" THEN TRUE ELSE UNCHANGED page_vars
    /\ IF p = "categories" THEN TRUE ELSE UNCHANGED label_vars
    /\ IF p = "report" THEN TRUE ELSE UNCHANGED report_vars
    /\ IF p = "copies" THEN TRUE ELSE UNCHANGED copy_vars
    /\ UNCHANGED part

Next ==
    \/ part = "settlements" /\ Settlements!Next /\ Rest("settlements")
    \/ part = "exposure" /\ Exposure!Next /\ Rest("exposure")
    \/ part = "schedules" /\ Schedules!Next /\ Rest("schedules")
    \/ part = "summaries" /\ Summaries!Next /\ Rest("summaries")
    \/ part = "pages" /\ Pages!Next /\ Rest("pages")
    \/ part = "categories" /\ Classification!Next /\ Rest("categories")
    \/ part = "report" /\ Report!Next /\ Rest("report")
    \/ part = "copies" /\ Copies!Next /\ Rest("copies")

vars == <<part, settle_vars, expose_vars, schedule_vars, sum_vars, page_vars,
          label_vars, report_vars, copy_vars>>
Spec == Init /\ [][Next]_vars

-----------------------------------------------------------------------------
(* The properties, stated one by one in the modules of the components and  *)
(* looked at while the component acts: the others are in initial states.   *)

\* Every variable of the component that acts has its type.
TypeOK ==
    CASE part = "settlements" -> Settlements!TypeOK
      [] part = "exposure"    -> Exposure!TypeOK
      [] part = "schedules"   -> Schedules!TypeOK
      [] part = "summaries"   -> Summaries!TypeOK
      [] part = "pages"       -> Pages!TypeOK
      [] part = "categories"  -> Classification!TypeOK
      [] part = "report"      -> Report!TypeOK
      [] part = "copies"      -> Copies!TypeOK

\* Obligations, however settlements, cancellations and midnight interleave: the
\* stored status tells what the settlement rows add up to; what is paid or
\* cancelled keeps its history, though settlements wait for its row; no two
\* payers are told that they paid the same rest; a receipt computed for
\* yesterday calls nothing overdue that is not; and open exposure rises only
\* when an obligation is opened.
ObligationsHold ==
    /\ [](part = "settlements" => Settlements!StatusFollowsHistory)
    /\ Settlements!TerminalIsFinal
    /\ Settlements!ReceiptsCountDown
    /\ Settlements!OverdueIsLate
    /\ Exposure!ExposureMovesOneWay

\* Recurring payments, however clients retry and schedules pause and end: no
\* occurrence is posted twice or skipped, what is upcoming is not posted yet, a
\* paused schedule posts nothing and an ended one stays ended, and each advance
\* lands in the right month on a day that exists.
SchedulesHold ==
    /\ [](part = "schedules" => Schedules!OccurrencesInStep /\ Schedules!UpcomingIsUnpaid)
    /\ Schedules!SilentUnlessActive
    /\ Schedules!CalendarSteps

\* What the owner is shown: a transaction is in the one month its owner lived
\* it in, summary, categories, merchants and series show one spending, and a
\* walk through the pages shows nothing twice and, once finished, everything
\* that was there when it began, whatever is posted meanwhile.
ViewsAgree ==
    /\ part = "summaries" => Summaries!OneMonthEach /\ Summaries!SpendingViewsAgree
    /\ part = "pages" => Pages!WalkDescends /\ Pages!WalkMissesNothing

\* Categories: the corrections of a transaction form a chain that ends in what
\* is shown, the classifier has learned from none that another one replaced,
\* and a posting is not classified by a weaker layer than a rule, a merchant or an
\* exact correction that had an answer when it began, though the layers are read
\* one after the other.
CategoriesHold ==
    /\ [](part = "categories" => Classification!CorrectionsChain /\ Classification!LearnsTheLatest)
    /\ Classification!StrongerEvidenceWins

\* A report of four statements, between which rows and the day may change: its
\* deltas add up to its total, no transaction is in both of its months, its
\* history holds what the months show, and no claim rests on a refund or on a
\* broken chain of payments.
ReportsHold ==
    part = "report" =>
        /\ Report!ContributionsAddUp
        /\ Report!NoneTwice
        /\ Report!HistoryHoldsBoth
        /\ Report!SupportIsSound

\* The search for the transaction an event is a copy of: the choice does not
\* depend on the order of rows, the limit on candidates hides none that is
\* nearer, a shared payment identifier always merges, a copy in every respect
\* merges under every accepted policy, and with the default weights a text that
\* is missing never flags a transaction.
CopiesAreFound ==
    part = "copies" =>
        /\ Copies!OrderIsNoMatter
        /\ Copies!NothingBetterNearer
        /\ Copies!IdentifierMerges
        /\ Copies!CopyMerges
        /\ copy_policy = DefaultPolicy => Copies!AbsentTextIsNoEvidence

=============================================================================
