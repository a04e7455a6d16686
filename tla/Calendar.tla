------------------------------ MODULE Calendar ------------------------------
(***************************************************************************)
(* Proleptic Gregorian dates as Python's datetime.date and                 *)
(* calendar.monthrange give them to the ledger.                            *)
(***************************************************************************)
EXTENDS Integers

Leap(y) == y % 4 = 0 /\ (y % 100 # 0 \/ y % 400 = 0)

\* monthrange(y, m)[1]
MonthEnd(y, m) ==
  CASE m = 2 -> IF Leap(y) THEN 29 ELSE 28
    [] m \in {4, 6, 9, 11} -> 30
    [] OTHER -> 31

DateOf(y, m, d) == [year |-> y, month |-> m, day |-> d]

IsDate(t) == t.month \in 1..12 /\ t.day \in 1..MonthEnd(t.year, t.month)

CalendarDate == {t \in [year: Int, month: 1..12, day: 1..31] : IsDate(t)}

\* Months since year 0, and a key in the order of the calendar.
AbsoluteMonth(t) == t.year * 12 + t.month - 1
Before(s, t)     == AbsoluteMonth(s) * 32 + s.day < AbsoluteMonth(t) * 32 + t.day

IsMonthEnd(t) == t.day = MonthEnd(t.year, t.month)

\* divmod(absolute, 12), and date(year, month, day)
OfAbsolute(month, d) == DateOf(month \div 12, (month % 12) + 1, d)

\* t + timedelta(days=7)
WeekLater(t) ==
  LET end == MonthEnd(t.year, t.month)
  IN IF t.day + 7 <= end THEN [t EXCEPT !.day = @ + 7]
     ELSE OfAbsolute(AbsoluteMonth(t) + 1, t.day + 7 - end)
=============================================================================
