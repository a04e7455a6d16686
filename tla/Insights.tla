------------------------------- MODULE Insights -------------------------------
(***************************************************************************)
(* The monthly report and its insights (app/analytics): four statements    *)
(* that each read what is committed at that moment, over a ledger that     *)
(* grows and is recategorized meanwhile, and the pure rules that turn the  *)
(* rows into claims.                                                       *)
(*                                                                         *)
(* Days are numbered, a month is MonthDays of them, amounts are integers   *)
(* in the smallest unit. Rows of other owners, currencies or types, and    *)
(* rows that are not posted, are told apart by one flag. The average size  *)
(* of a transaction is left out, no claim rests on it; the UTC date that    *)
(* gaps are measured with is the local one.                                *)
(***************************************************************************)
EXTENDS Integers, FiniteSets, Functions, Orders

CONSTANTS
    Rows,          \* transactions that exist or may come: see TypeOK
    Categories,
    Receivables,   \* [id, due]
    MonthDays,     \* days of a month
    HistoryMonths, \* months of history, the current one included (12)
    MinGap,        \* shortest and
    MaxGap,        \*   longest distance of monthly payments (25, 35)
    FirstDay,      \* bound: the report begins on this day or later
    LastDay,       \* bound: the last day of the clock
    MaxChanges,    \* bound: changes of the ledger during a behaviour
    None

\* The category of a row is kept apart: it changes.
IsRow(r) ==
    /\ DOMAIN r = {"id", "day", "amount", "type", "merchant", "category", "counts"}
    /\ r.id \in Int /\ r.category \in Categories
    /\ r.amount \in Nat \ {0} /\ r.day \in Int /\ r.counts \in BOOLEAN
    /\ r.type \in {"expense", "shared_expense", "refund"}

IsReceivable(o) == o.due \in Int

InsightsAssumption ==
    /\ IsFiniteSet(Rows) /\ \A r \in Rows : IsRow(r)
    /\ \A r \in Rows, s \in Rows : r.id = s.id => r = s
    /\ \A o \in Receivables : IsReceivable(o)
    /\ MonthDays \in Nat \ {0} /\ HistoryMonths \in Nat \ {0, 1}
    /\ MinGap \in Nat /\ MaxGap \in Nat /\ MinGap <= MaxGap
    /\ FirstDay \in Nat /\ LastDay \in Nat /\ FirstDay <= LastDay
    /\ MaxChanges \in Nat

VARIABLES
    ledger,    \* the rows posted so far
    category,  \* their categories
    open,      \* receivables that are open or partially paid
    today,     \* the owner's local date
    changes,   \* changes of the ledger so far
    report     \* what the report has read, and how far it is

vars == <<ledger, category, open, today, changes, report>>

Month(day) == day \div MonthDays
InMonths(r, first, last) == first <= Month(r.day) /\ Month(r.day) <= last

-----------------------------------------------------------------------------
(* Pure calculations, on sets of rows as they were read.                   *)

Signed(r) == IF r.type = "refund" THEN -r.amount ELSE r.amount

Spent(rows) == SumFunction([r \in rows |-> Signed(r)])
Total(rows) == SumFunction([r \in rows |-> r.amount])

\* mutant: only the categories of the current month are listed.
GroupedCurrent(cur, prev) == {r.category : r \in cur}

Grouped(cur, prev) == {r.category : r \in cur} \cup {r.category : r \in prev}

Of(rows, c) == {r \in rows : r.category = c}

Contributions(cur, prev) ==
    [c \in Grouped(cur, prev) |-> Spent(Of(cur, c)) - Spent(Of(prev, c))]

\* mutant: refunds count as spending.
PositiveAll(rows) == rows

Positive(rows) == {r \in rows : r.type \in {"expense", "shared_expense"}}

\* 100 * part / whole, rounded half up to an integer (whole > 0).
Percent(part, whole) == (200 * part + whole) \div (2 * whole)

SpendingIncrease(cur, prev) ==
    IF Spent(prev) > 0 /\ Percent(Spent(cur) - Spent(prev), Spent(prev)) >= 25
    THEN {[code |-> "spending_increase", rows |-> cur]} ELSE {}

\* Twice the median: the two middle amounts, or the middle one twice.
TwiceMedian(rows) ==
    LET less(r, s) == r.amount < s.amount \/ (r.amount = s.amount /\ r.id < s.id)
        sorted == InOrder(rows, less)
        n == Cardinality(rows)
    IN  sorted[(n + 1) \div 2].amount + sorted[(n \div 2) + 1].amount

LargeTransactions(cur) ==
    LET rows == Positive(cur) IN
    IF Cardinality(rows) < 3 THEN {}
    ELSE {[code |-> "large_transaction", rows |-> {r}] :
             r \in {s \in rows : s.amount >= TwiceMedian(rows)}}

\* The merchant with the largest sum; which one, if two have it, is left open.
MerchantConcentration(cur) ==
    LET rows == Positive(cur)
        of(m) == {r \in rows : r.merchant = m}
        merchants == {r.merchant : r \in rows} \ {None}
        first == {m \in merchants : \A k \in merchants : Total(of(k)) <= Total(of(m))}
    IN  {[code |-> "merchant_concentration", rows |-> of(m)] :
            m \in {k \in first : Percent(Total(of(k)), Total(rows)) >= 50}}

Monthly(gap) == MinGap <= gap /\ gap <= MaxGap

Earlier(r, s) == r.day < s.day \/ (r.day = s.day /\ r.id < s.id)

\* Neighbours in the order of days.
Follows(s, r, rows) == Earlier(r, s) /\ ~\E t \in rows : Earlier(r, t) /\ Earlier(t, s)

PossibleRecurring(history) ==
    LET rows == {r \in Positive(history) : r.merchant # None}
        groups == {{r \in rows : r.merchant = s.merchant /\ r.amount = s.amount} : s \in rows}
    IN  {[code |-> "possible_recurring", rows |-> g] :
            g \in {h \in groups :
                /\ Cardinality(h) >= 3
                /\ \A r \in h, s \in h : Follows(s, r, h) => Monthly(s.day - r.day)}}

-----------------------------------------------------------------------------
(* The report.                                                             *)

Read == {[r EXCEPT !.category = category[r.id]] : r \in {s \in ledger : s.counts}}

Unread == [pc |-> "none", month |-> 0, current |-> {}, previous |-> {}, history |-> {},
           overdue |-> {}]

TypeOK ==
    /\ ledger \subseteq Rows
    /\ DOMAIN category = {r.id : r \in Rows}
    /\ \A i \in DOMAIN category : category[i] \in Categories
    /\ open \subseteq Receivables
    /\ today \in FirstDay..LastDay
    /\ changes \in 0..MaxChanges
    /\ report.pc \in {"none", "current", "previous", "history", "overdue", "built"}
    /\ \A r \in report.current \cup report.previous \cup report.history :
          r.counts /\ InMonths(r, report.month - HistoryMonths + 1, report.month)

Init ==
    /\ ledger \in SUBSET Rows
    /\ category = [i \in {r.id : r \in Rows} |-> (CHOOSE r \in Rows : r.id = i).category]
    /\ open = Receivables
    /\ today = FirstDay
    /\ changes = 0
    /\ report = Unread

\* A transaction is entered, or posted by a connector or an approval.
Post(r) ==
    /\ r \notin ledger /\ changes < MaxChanges
    /\ ledger' = ledger \cup {r}
    /\ changes' = changes + 1
    /\ UNCHANGED <<category, open, today, report>>

\* The owner corrects a category.
Recategorize(r, c) ==
    /\ r \in ledger /\ c # category[r.id] /\ changes < MaxChanges
    /\ category' = [category EXCEPT ![r.id] = c]
    /\ changes' = changes + 1
    /\ UNCHANGED <<ledger, open, today, report>>

\* A receivable is settled or cancelled.
Close(o) ==
    /\ o \in open /\ changes < MaxChanges
    /\ open' = open \ {o}
    /\ changes' = changes + 1
    /\ UNCHANGED <<ledger, category, today, report>>

Midnight ==
    /\ today < LastDay
    /\ today' = today + 1
    /\ UNCHANGED <<ledger, category, open, changes, report>>

\* All periods come from one look at the clock.
Begin ==
    /\ report.pc = "none"
    /\ report' = [report EXCEPT !.pc = "current", !.month = Month(today)]
    /\ UNCHANGED <<ledger, category, open, today, changes>>

InPeriod(first, last) == {r \in Read : InMonths(r, first, last)}

ReadCurrent ==
    /\ report.pc = "current"
    /\ report' = [report EXCEPT !.pc = "previous",
                                !.current = InPeriod(report.month, report.month)]
    /\ UNCHANGED <<ledger, category, open, today, changes>>

\* mutant: the month before is taken from the clock again.
PreviousByClock == Month(today) - 1

Previous == report.month - 1

ReadPrevious ==
    /\ report.pc = "previous"
    /\ report' = [report EXCEPT !.pc = "history", !.previous = InPeriod(Previous, Previous)]
    /\ UNCHANGED <<ledger, category, open, today, changes>>

\* mutant: the history ends where the current month begins.
HistoryEndBefore == report.month - 1

HistoryEnd == report.month

ReadHistory ==
    /\ report.pc = "history"
    /\ report' = [report EXCEPT !.pc = "overdue",
                     !.history = InPeriod(report.month - HistoryMonths + 1, HistoryEnd)]
    /\ UNCHANGED <<ledger, category, open, today, changes>>

\* The date of the overdue receivables is a second look at the clock.
ReadOverdue ==
    /\ report.pc = "overdue"
    /\ report' = [report EXCEPT !.pc = "built", !.overdue = {o \in open : o.due < today}]
    /\ UNCHANGED <<ledger, category, open, today, changes>>

Next ==
    \/ \E r \in Rows : Post(r) \/ \E c \in Categories : Recategorize(r, c)
    \/ \E o \in Receivables : Close(o)
    \/ Midnight \/ Begin \/ ReadCurrent \/ ReadPrevious \/ ReadHistory \/ ReadOverdue

Spec == Init /\ [][Next]_vars

-----------------------------------------------------------------------------
(* Properties.                                                             *)

Built == report.pc = "built"

Insights ==
    SpendingIncrease(report.current, report.previous) \cup LargeTransactions(report.current)
        \cup MerchantConcentration(report.current) \cup PossibleRecurring(report.history)

\* The category deltas of a report add up to its total change, whatever is
\* posted or recategorized between its statements.
ContributionsAddUp ==
    Built => SumFunction(Contributions(report.current, report.previous))
                = Spent(report.current) - Spent(report.previous)

Ids(rows) == {r.id : r \in rows}

\* No transaction is in both months of a comparison, though midnight of a new
\* month may pass while the report is read.
NoneTwice == Ids(report.current) \cap Ids(report.previous) = {}

\* What the months of the comparison show, the history shows too: a row of the
\* first statements cannot be missing in the last.
HistoryHoldsBoth ==
    Built => Ids(report.current) \cup Ids(report.previous) \subseteq Ids(report.history)

\* Refunds may lower totals but support no claim about a large, a recurring or
\* a concentrated expense, and a "monthly" payment really is a chain of at
\* least three with no gap outside the window.
SupportIsSound ==
    Built => \A i \in Insights :
        /\ i.code # "spending_increase" => \A r \in i.rows : r.type # "refund"
        /\ i.code = "possible_recurring" =>
             /\ Cardinality(i.rows) > 2
             /\ \A r \in i.rows :
                  \/ \A s \in i.rows : s.day <= r.day
                  \/ \E s \in i.rows : r.day + MinGap <= s.day /\ s.day <= r.day + MaxGap

=============================================================================
