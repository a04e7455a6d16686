------------------------------- MODULE Months -------------------------------
(***************************************************************************)
(* The months of an owner's calendar as intervals of UTC instants          *)
(* (apps/api/app/ledger/periods.py). A time zone is abstracted to one      *)
(* change of its offset: it is "before" until the instant "at" and "after" *)
(* from then on. A month is MonthLength ticks of local time, which is      *)
(* enough to put a change before, on and around its first midnight.        *)
(***************************************************************************)
EXTENDS Integers, FiniteSets

CONSTANTS
  MonthLength,   \* ticks of local time in a month
  LastMonth,     \* months are numbered 0..LastMonth
  Zone           \* the time zones of the instance

MonthsAssumption ==
  /\ MonthLength \in Nat \ {0}
  /\ LastMonth \in Nat
  /\ Zone \subseteq [at : Int, before : Int, after : Int]

Month == 0..LastMonth

\* instant.astimezone(timezone)
Local(z, i) == i + (IF i < z.at THEN z.before ELSE z.after)

\* local.astimezone(UTC) with fold=0: the first of two instants with one local time,
\* and for a local time that is skipped, the one the old offset gives.
Utc(z, w) ==
  LET later == IF z.before < z.after THEN z.after ELSE z.before
  IN w - (IF w < z.at + later THEN z.before ELSE z.after)

\* YearMonth.containing(), and date_trunc('month', timezone(...)) in PostgreSQL
Containing(z, i) == Local(z, i) \div MonthLength

\* mutant: the new offset is used for every midnight
StartUtcNew(z, m) == m * MonthLength - z.after

StartUtc(z, m) == Utc(z, m * MonthLength)

\* month_period(): from one month's first midnight to the next one's
Period(z, m) == [start |-> StartUtc(z, m), end |-> StartUtc(z, m + 1)]

Within(i, period) == period.start <= i /\ i < period.end

\* previous_months(): count months that end with the given one
PreviousMonths(ending, count) == (ending - count + 1)..ending
=============================================================================
