\* The components of the ledger, one at a time.
SPECIFICATION Spec
CONSTANTS
    None = None
    Sessions = {s1, s2}
    Receivables = {o1}
    SettledIds = {o1}
    SettledCurrencies = {USD, EUR}
    MaxSettled = 3
    SettledDays = 2
    ExposedIds = {o1, o2}
    ExposedCurrencies = {USD}
    MaxExposed = 2
    ExposedDays = 1
    Payments = {p1}
    FirstDates <- MonthEnds
    Rules = {"weekly", "monthly", "quarterly", "yearly"}
    MaxRecorded = 3
    Zones <- PlainZones
    MonthLength = 4
    LastMonth = 1
    SummaryIds = {1, 2}
    SummaryInstants = {3, 4, 5}
    Amounts = {1}
    Kinds = {"expense", "refund", "income", "transfer"}
    Statuses = {"pending", "posted"}
    Currencies = {USD}
    Purposes = {k1}
    Shops = {m1}
    PageIds = {1, 2, 3, 4}
    PageInstants = {1, 2, 3}
    PageSize = 2
    Walkers = {u1}
    Transactions = {t1, t2}
    Texts <- SimilarTexts
    Patterns = {"w1"}
    Merchants = {m1}
    Labels = {c1, c2}
    Priorities = {100}
    RecallLimit = 1
    LastStamp = 2
    Postings <- ReportRows
    Headings = {"food", "rent"}
    Debts <- DueDebts
    MonthDays = 4
    HistoryMonths = 3
    MinGap = 3
    MaxGap = 5
    FirstDay = 11
    LastDay = 12
    MaxChanges = 1
    Policies <- EachPolicy
    Ledgers <- EachLedger
    Events <- EachEvent
    Likeness <- Alike
    Window = 4
    MaxCandidates = 2
SYMMETRY Symmetry
INVARIANTS TypeOK ViewsAgree ReportsHold CopiesAreFound
PROPERTIES ObligationsHold SchedulesHold CategoriesHold
CHECK_DEADLOCK FALSE
