---------------------------- MODULE LedgerViews ----------------------------
(***************************************************************************)
(* What an owner is shown of the posted transactions: monthly totals, the  *)
(* shares of categories and merchants, a monthly series, and a timeline in *)
(* pages, while transactions are still being added                         *)
(* (apps/api/app/ledger/service.py, repository.py, pagination.py).         *)
(*                                                                         *)
(* Each total is one SELECT of its own with its own WHERE and CASE; a page *)
(* is one SELECT too, and the pages of a walk are read at different times. *)
(* Transactions are never deleted, and only their category changes.        *)
(***************************************************************************)
EXTENDS Months, Orders, Sequences, FiniteSetsExt, SequencesExt

CONSTANTS
  TransactionId,   \* a set of naturals: identifiers are compared
  Instant,         \* the instants transactions are dated to
  Amount,
  Kind,            \* transaction types in use
  PostingStatus,   \* "pending", "posted", "voided": those in use
  Currency, Category, Merchant,
  NoCategory, NoMerchant,
  PageSize,
  Walker           \* clients that walk through the pages

LedgerViewsAssumption ==
  /\ TransactionId \subseteq Nat
  /\ Instant \subseteq Int
  /\ Amount \subseteq Nat \ {0}
  /\ Kind \subseteq {"expense", "shared_expense", "refund", "income", "transfer"}
  /\ PageSize \in Nat \ {0}
  /\ IsFiniteSet(Category) /\ NoCategory \notin Category
  /\ IsFiniteSet(Merchant) /\ NoMerchant \notin Merchant

VARIABLES
  zone,     \* the owner's time zone
  ledger,   \* the owner's rows of the table transactions
  walk      \* how far each walker is

vars == <<zone, ledger, walk>>

-----------------------------------------------------------------------------
(* Rows, sums and pages *)

Row == [id: TransactionId, at: Instant, kind: Kind, status: PostingStatus, amount: Amount,
        currency: Currency, category: Category \cup {NoCategory}, merchant: Merchant \cup {NoMerchant}]

Sum(rows, Value(_)) == SumFunction([r \in rows |-> Value(r)])

\* The WHERE that every total shares.
Posted(currency, period) ==
  {r \in ledger : r.currency = currency /\ r.status = "posted" /\ Within(r.at, period)}

SpendingKinds == {"expense", "shared_expense", "refund"}   \* _SPENDING_TYPES

\* The CASE of financial_totals(): what is no spending counts as zero.
Spending(r) ==
  CASE r.kind \in {"expense", "shared_expense"} -> r.amount
    [] r.kind = "refund" -> -r.amount
    [] OTHER -> 0

Spent(currency, period) == Sum(Posted(currency, period), Spending)

\* mutant: the grouped totals read every posted row
GroupedRowsAll(currency, period) == Posted(currency, period)

GroupedRows(currency, period) == {r \in Posted(currency, period) : r.kind \in SpendingKinds}

\* The CASE of the grouped totals: what is no expense is subtracted.
Signed(r) == IF r.kind \in {"expense", "shared_expense"} THEN r.amount ELSE -r.amount

CategoryTotal(currency, period, c) ==
  Sum({r \in GroupedRows(currency, period) : r.category = c}, Signed)

MerchantTotal(currency, period, k) ==
  Sum({r \in GroupedRows(currency, period) : r.merchant = k}, Signed)

\* One SELECT over a window of many months, cut by local month.
MonthTotal(currency, window, m) ==
  Sum({r \in GroupedRows(currency, window) : Containing(zone, r.at) = m}, Signed)

\* What the four queries show: of a month its sum and its parts by category and by
\* merchant, and a series of the months up to one, with the empty ones filled in.
FinancialSummary(currency, m) == Spent(currency, Period(zone, m))

SpendingByCategory(currency, m) ==
  [c \in Category \cup {NoCategory} |-> CategoryTotal(currency, Period(zone, m), c)]

SpendingByMerchant(currency, m) ==
  [k \in Merchant \cup {NoMerchant} |-> MerchantTotal(currency, Period(zone, m), k)]

MonthlySpending(currency, ending, count) ==
  LET months == PreviousMonths(ending, count)
      window == [start |-> Period(zone, Min(months)).start, end |-> Period(zone, Max(months)).end]
  IN [m \in months |-> MonthTotal(currency, window, m)]

Newer(r, s) == r.at > s.at \/ (r.at = s.at /\ r.id > s.id)

\* mutant: the cursor compares the date alone
BehindByDate(r, cursor) == cursor = <<>> \/ r.at < cursor[1].at

\* mutant: the row of the cursor itself is read again
BehindInclusive(r, cursor) == cursor = <<>> \/ ~Newer(r, cursor[1])

\* The keyset predicate; no cursor reads from the top.
Behind(r, cursor) == cursor = <<>> \/ Newer(cursor[1], r)

\* A cursor holds the two sort keys of a row, and is decoded to just these.
CursorOf(r) == [id |-> r.id, at |-> r.at]

FirstOf(rows, n) == SubSeq(rows, 1, Min({n, Len(rows)}))   \* LIMIT n

\* The first rows behind the cursor, newest first: one more than a page holds.
RowsBehind(cursor) ==
  FirstOf(InOrder({r \in ledger : Behind(r, cursor)}, Newer), PageSize + 1)

-----------------------------------------------------------------------------
(* Actions *)

Fresh == [seen |-> <<>>, cursor |-> <<>>, present |-> {}, phase |-> "idle"]

Init ==
  /\ zone \in Zone
  /\ ledger = {}
  /\ walk = [w \in Walker |-> Fresh]

\* create_transaction() and the postings of recurring payments, proposals and syncs
Post(r) ==
  /\ \A s \in ledger : s.id # r.id
  /\ ledger' = ledger \cup {r}
  /\ UNCHANGED <<zone, walk>>

\* A corrected category.
Recategorize(r, c) ==
  /\ r \in ledger /\ r.category # c
  /\ ledger' = (ledger \ {r}) \cup {[r EXCEPT !.category = c]}
  /\ UNCHANGED <<zone, walk>>

StartWalk(w) ==
  /\ walk[w].phase = "idle"
  /\ walk' = [walk EXCEPT ![w] = [@ EXCEPT !.phase = "walking", !.present = {r.id : r \in ledger}]]
  /\ UNCHANGED <<zone, ledger>>

\* The end cursor is the last edge of the page; without a further row the walk ends.
ReadPage(w) ==
  LET rows == RowsBehind(walk[w].cursor)
      page == FirstOf(rows, PageSize)
      more == Len(rows) > PageSize
  IN /\ walk[w].phase = "walking"
     /\ walk' = [walk EXCEPT ![w].seen   = @ \o [i \in DOMAIN page |-> CursorOf(page[i])],
                             ![w].cursor = IF page = <<>> THEN @ ELSE <<CursorOf(Last(page))>>,
                             ![w].phase  = IF more THEN "walking" ELSE "done"]
     /\ UNCHANGED <<zone, ledger>>

Next ==
  \/ \E r \in Row : Post(r)
  \/ \E r \in ledger, c \in Category \cup {NoCategory} : Recategorize(r, c)
  \/ \E w \in Walker : StartWalk(w) \/ ReadPage(w)

Spec == Init /\ [][Next]_vars

-----------------------------------------------------------------------------
(* Properties *)

TypeOK ==
  /\ zone \in Zone
  /\ ledger \subseteq Row
  /\ \A r \in ledger, s \in ledger : r.id = s.id => r = s
  /\ \A w \in Walker : walk[w].phase \in {"idle", "walking", "done"} /\ Len(walk[w].cursor) <= 1

\* Every transaction is in the period of exactly one month, the one its owner's
\* clock showed (periods.py:76, "a DST-safe half-open UTC interval").
OneMonthEach ==
  \A r \in ledger :
    {m \in Month : Within(r.at, Period(zone, m))} = {Containing(zone, r.at)} \cap Month

\* The spending an owner sees is one number: the summary of a month, the sum of its
\* categories, the sum of its merchants and its bar in any monthly series, though four
\* queries compute them (docs/data-model.md:341-349).
SpendingViewsAgree ==
  \A c \in Currency, m \in Month :
    LET spent == FinancialSummary(c, m) IN
    /\ SumFunction(SpendingByCategory(c, m)) = spent
    /\ SumFunction(SpendingByMerchant(c, m)) = spent
    /\ \A ending \in Month : \A count \in 1..(ending + 1) :
         m \in PreviousMonths(ending, count) => MonthlySpending(c, ending, count)[m] = spent

\* A walk shows newest first and nothing twice, whatever is posted between its pages.
WalkDescends ==
  \A w \in Walker : \A i \in DOMAIN walk[w].seen : \A j \in 1..(i - 1) :
    Newer(walk[w].seen[j], walk[w].seen[i])

\* A walk that has ended has shown everything that was there when it began.
WalkMissesNothing ==
  \A w \in Walker : walk[w].phase = "done" =>
    walk[w].present \subseteq {walk[w].seen[i].id : i \in DOMAIN walk[w].seen}
=============================================================================
