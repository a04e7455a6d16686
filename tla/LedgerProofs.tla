----------------------------- MODULE LedgerProofs -----------------------------
(***************************************************************************)
(* Theorems about what the ledger keeps, for every choice of constants     *)
(* that LedgerAssumptions allows: the calendar of recurring payments, the  *)
(* layers and corrections of categories, and obligations, which have their *)
(* proofs in ObligationsProofs and two instances here, that of the run and *)
(* one of the module with its proofs. The last theorem is about the types  *)
(* of the whole run and cites what ViewsProofs says of the other parts.    *)
(***************************************************************************)
EXTENDS ViewsProofs

-----------------------------------------------------------------------------
(* The calendar of recurring payments *)

\* A month has 28 to 31 days.
LEMMA MonthEndRange ==
  ASSUME NEW y \in Int, NEW m \in Int
  PROVE  Schedules!MonthEnd(y, m) \in 28..31
<1> DEFINE leap == Schedules!Leap(y)
<1>1. CASE m = 2
  BY <1>1 DEF Schedules!MonthEnd
<1>2. CASE m # 2 /\ m \in {4, 6, 9, 11}
  BY <1>2 DEF Schedules!MonthEnd
<1>3. CASE m # 2 /\ m \notin {4, 6, 9, 11}
  BY <1>3 DEF Schedules!MonthEnd
<1> QED BY <1>1, <1>2, <1>3

\* Counting months and turning the count back into a year and a month agree.
LEMMA OfAbsoluteIs ==
  ASSUME NEW a \in Int, NEW d \in Int
  PROVE  /\ Schedules!OfAbsolute(a, d).year \in Int /\ Schedules!OfAbsolute(a, d).month \in 1..12
         /\ Schedules!OfAbsolute(a, d).day = d
         /\ Schedules!AbsoluteMonth(Schedules!OfAbsolute(a, d)) = a
         /\ Schedules!OfAbsolute(a, d) = [year |-> Schedules!OfAbsolute(a, d).year,
              month |-> Schedules!OfAbsolute(a, d).month, day |-> d]
<1>1. PICK q, r : q = a \div 12 /\ r = a % 12
  OBVIOUS
<1>3. q \in Int /\ r \in 0..11
  BY <1>1
<1>4. a = 12 * (a \div 12) + (a % 12)
  OBVIOUS
<1>5. a = 12 * q + r
  BY <1>1, <1>4
<1>2. Schedules!OfAbsolute(a, d) = [year |-> q, month |-> r + 1, day |-> d]
  BY <1>1 DEF Schedules!OfAbsolute, Schedules!DateOf
<1>6. Schedules!AbsoluteMonth(Schedules!OfAbsolute(a, d)) = q * 12 + (r + 1) - 1
  BY <1>2 DEF Schedules!AbsoluteMonth
<1>7. Schedules!AbsoluteMonth(Schedules!OfAbsolute(a, d)) = a
  BY <1>6, <1>5, <1>3
<1> QED BY <1>2, <1>3, <1>7

\* The parts of a date of the calendar.
LEMMA DateParts ==
  ASSUME NEW t \in Schedules!CalendarDate
  PROVE  /\ t.year \in Int /\ t.month \in 1..12 /\ t.day \in 1..Schedules!MonthEnd(t.year, t.month)
         /\ Schedules!MonthEnd(t.year, t.month) \in 28..31 /\ t.day \in 1..31
         /\ Schedules!AbsoluteMonth(t) \in Int
         /\ t = [year |-> t.year, month |-> t.month, day |-> t.day]
<1>1. t \in [year: Int, month: 1..12, day: 1..31] /\ Schedules!IsDate(t)
  BY DEF Schedules!CalendarDate
<1>2. Schedules!MonthEnd(t.year, t.month) \in 28..31
  BY <1>1, MonthEndRange
<1> QED BY <1>1, <1>2 DEF Schedules!IsDate, Schedules!AbsoluteMonth

\* A date n months on lies n months on, and on a day as late as the month allows.
LEMMA LaterMonth ==
  ASSUME NEW t \in Schedules!CalendarDate, NEW n \in Nat, n >= 1
  PROVE  LET a == Schedules!AdvanceMonths(t, n) IN
         /\ a \in Schedules!CalendarDate
         /\ Schedules!AbsoluteMonth(a) = Schedules!AbsoluteMonth(t) + n /\ Schedules!Before(t, a)
         /\ t.day <= 27 => a.day = t.day
         /\ t.day > 27 => a.day > 27
<1> DEFINE g == Schedules!OfAbsolute(Schedules!AbsoluteMonth(t) + n, 1)
           end == Schedules!MonthEnd(g.year, g.month)
           d == IF Schedules!IsMonthEnd(t) \/ t.day > end THEN end ELSE t.day
           a == Schedules!AdvanceMonths(t, n)
<1>1. /\ t.year \in Int /\ t.month \in 1..12 /\ t.day \in 1..Schedules!MonthEnd(t.year, t.month)
      /\ Schedules!MonthEnd(t.year, t.month) \in 28..31 /\ t.day \in 1..31
      /\ Schedules!AbsoluteMonth(t) \in Int
  BY DateParts
<1>2. /\ g.year \in Int /\ g.month \in 1..12 /\ g.day = 1
      /\ Schedules!AbsoluteMonth(g) = Schedules!AbsoluteMonth(t) + n
      /\ g = [year |-> g.year, month |-> g.month, day |-> 1]
  <2>1. Schedules!AbsoluteMonth(t) + n \in Int /\ 1 \in Int
    BY <1>1
  <2> QED BY <2>1, OfAbsoluteIs
<1>3. end \in 28..31
  BY <1>2, MonthEndRange
<1>4. a = [g EXCEPT !.day = d]
  BY DEF Schedules!AdvanceMonths
<1> HIDE DEF g, end, a
<1>5. d \in 1..end /\ (t.day <= 27 => d = t.day) /\ (t.day > 27 => d > 27) /\ d \in 1..31
  BY <1>1, <1>3 DEF Schedules!IsMonthEnd
<1> HIDE DEF d
<1>6. a = [year |-> g.year, month |-> g.month, day |-> d]
  BY <1>4, <1>2
<1>7. a \in [year: Int, month: 1..12, day: 1..31] /\ a.year = g.year /\ a.month = g.month /\ a.day = d
  BY <1>6, <1>5, <1>2
<1>8. a \in Schedules!CalendarDate
  BY <1>7, <1>5, <1>2 DEF Schedules!CalendarDate, Schedules!IsDate, end
<1>9. Schedules!AbsoluteMonth(a) = Schedules!AbsoluteMonth(t) + n
  BY <1>7, <1>2 DEF Schedules!AbsoluteMonth
<1>10. Schedules!Before(t, a)
  BY <1>9, <1>7, <1>5, <1>1 DEF Schedules!Before
<1> QED BY <1>5, <1>7, <1>8, <1>9, <1>10 DEF a

\* A week on is a later date of the calendar.
LEMMA LaterWeek ==
  ASSUME NEW t \in Schedules!CalendarDate
  PROVE  Schedules!WeekLater(t) \in Schedules!CalendarDate
         /\ Schedules!Before(t, Schedules!WeekLater(t))
<1> DEFINE end == Schedules!MonthEnd(t.year, t.month)
           w == Schedules!WeekLater(t)
           over == t.day + 7 - end
<1>1. /\ t.year \in Int /\ t.month \in 1..12 /\ t.day \in 1..end
      /\ end \in 28..31 /\ t.day \in 1..31
      /\ Schedules!AbsoluteMonth(t) \in Int
      /\ t = [year |-> t.year, month |-> t.month, day |-> t.day]
  BY DateParts
<1>2. CASE t.day + 7 <= end
  <2>1. w = [t EXCEPT !.day = t.day + 7]
    BY <1>2 DEF Schedules!WeekLater
  <2>2. w = [year |-> t.year, month |-> t.month, day |-> t.day + 7]
    BY <2>1, <1>1
  <2> HIDE DEF end, w
  <2>3. w \in [year: Int, month: 1..12, day: 1..31] /\ w.year = t.year /\ w.month = t.month
          /\ w.day = t.day + 7
    BY <2>2, <1>1, <1>2
  <2>4. Schedules!IsDate(w)
    BY <2>3, <1>1, <1>2 DEF Schedules!IsDate, end
  <2>5. Schedules!AbsoluteMonth(w) = Schedules!AbsoluteMonth(t)
    BY <2>3 DEF Schedules!AbsoluteMonth
  <2>6. Schedules!Before(t, w)
    BY <2>5, <2>3, <1>1 DEF Schedules!Before
  <2> QED BY <2>3, <2>4, <2>6 DEF Schedules!CalendarDate, w
<1>3. CASE ~(t.day + 7 <= end)
  <2>1. w = Schedules!OfAbsolute(Schedules!AbsoluteMonth(t) + 1, over)
    BY <1>3 DEF Schedules!WeekLater
  <2>2. over \in 1..7
    BY <1>1, <1>3
  <2> HIDE DEF end, w, over
  <2>3. /\ w.year \in Int /\ w.month \in 1..12 /\ w.day = over
        /\ Schedules!AbsoluteMonth(w) = Schedules!AbsoluteMonth(t) + 1
        /\ w = [year |-> w.year, month |-> w.month, day |-> over]
    <3>1. Schedules!AbsoluteMonth(t) + 1 \in Int /\ over \in Int
      BY <1>1, <2>2
    <3> QED BY <2>1, <3>1, OfAbsoluteIs
  <2>4. w \in [year: Int, month: 1..12, day: 1..31]
    BY <2>2, <2>3
  <2>5. Schedules!MonthEnd(w.year, w.month) \in 28..31
    BY <2>3, MonthEndRange
  <2>6. Schedules!IsDate(w)
    BY <2>2, <2>3, <2>5 DEF Schedules!IsDate
  <2>7. Schedules!Before(t, w)
    BY <2>2, <2>3, <1>1 DEF Schedules!Before
  <2> QED BY <2>4, <2>6, <2>7 DEF Schedules!CalendarDate, w
<1> QED BY <1>2, <1>3

Lands(s, t, rule) ==
  /\ Schedules!Before(s, t) /\ t \in Schedules!CalendarDate
  /\ rule # "weekly" => Schedules!AbsoluteMonth(t)
       = Schedules!AbsoluteMonth(s) + Schedules!MonthsOf[rule]
  /\ rule # "weekly" /\ s.day <= 27 => t.day = s.day
  /\ rule # "weekly" /\ s.day > 27 => t.day > 27

\* Every rule advances a date as CalendarSteps says.
LEMMA Advances ==
  ASSUME Schedules!RecurringAssumption, NEW t \in Schedules!CalendarDate, NEW rule \in Rules
  PROVE  Lands(t, Schedules!Advance(t, rule), rule)
<1>1. CASE rule = "weekly"
  BY <1>1, LaterWeek DEF Schedules!Advance, Lands
<1>2. CASE rule # "weekly"
  <2>1. Schedules!MonthsOf[rule] \in Nat /\ Schedules!MonthsOf[rule] >= 1
    BY <1>2 DEF Schedules!MonthsOf, Schedules!RecurringAssumption
  <2>2. Schedules!Advance(t, rule) = Schedules!AdvanceMonths(t, Schedules!MonthsOf[rule])
    BY <1>2 DEF Schedules!Advance
  <2> QED BY <1>2, <2>1, <2>2, LaterMonth DEF Lands
<1> QED BY <1>1, <1>2

\* Dates are ordered.
LEMMA BeforeTransitive ==
  ASSUME NEW r \in Schedules!CalendarDate, NEW s \in Schedules!CalendarDate,
         NEW t \in Schedules!CalendarDate, Schedules!Before(r, s), Schedules!Before(s, t)
  PROVE  Schedules!Before(r, t)
<1>1. /\ Schedules!AbsoluteMonth(r) \in Int /\ r.day \in Int /\ Schedules!AbsoluteMonth(s) \in Int
      /\ s.day \in Int
      /\ Schedules!AbsoluteMonth(t) \in Int /\ t.day \in Int
  BY DateParts
<1> QED BY <1>1 DEF Schedules!Before

ScheduleSession ==
  [op: {"idle", "record", "transition"}, locked: BOOLEAN, payment: Payments,
    expected: Schedules!CalendarDate,
   target: Schedules!Status, read: Schedules!Row]

SchedulesTyped ==
  /\ schedule_row \in [Payments -> Schedules!Row]
  /\ schedule_posted \in [Payments -> Seq(Schedules!CalendarDate)]
  /\ schedule_session \in [Sessions -> ScheduleSession]

ScheduleLocks ==
  /\ \A s \in Sessions : schedule_session[s].op # "idle"
       => Schedules!Exists(schedule_session[s].payment)
  /\ \A s \in Sessions : schedule_session[s].locked =>
       schedule_session[s].op # "idle"
         /\ schedule_session[s].read = schedule_row[schedule_session[s].payment]
  /\ \A s \in Sessions, u \in Sessions :
       schedule_session[s].locked /\ schedule_session[u].locked
         /\ schedule_session[s].payment = schedule_session[u].payment => s = u

InStep(p) ==
  /\ schedule_row[p].status = "absent" => schedule_posted[p] = <<>>
  /\ \A i \in 1..(Len(schedule_posted[p]) - 1) : schedule_posted[p][i + 1]
       = Schedules!Advance(schedule_posted[p][i], schedule_row[p].rule)
  /\ schedule_posted[p] # <<>>
       => schedule_row[p].next = Schedules!Advance(schedule_posted[p][Len(schedule_posted[p])],
         schedule_row[p].rule)
  /\ \A i \in 1..Len(schedule_posted[p]) : Schedules!Before(schedule_posted[p][i], schedule_row[p].next)

SchedulesInv == SchedulesTyped /\ ScheduleLocks /\ \A p \in Payments : InStep(p)

\* The row of a payment not yet made has its type.
LEMMA VacantTyped ==
  ASSUME Schedules!RecurringAssumption
  PROVE  Schedules!Vacant \in Schedules!Row /\ Schedules!Vacant.status = "absent"
         /\ Schedules!Vacant.next \in Schedules!CalendarDate
<1>1. (CHOOSE r \in Rules : TRUE) \in Rules
        /\ (CHOOSE t \in FirstDates : TRUE) \in Schedules!CalendarDate
  BY DEF Schedules!RecurringAssumption
<1> QED BY <1>1 DEF Schedules!Vacant, Schedules!Row, Schedules!Status

\* The record of an idle request has its type.
LEMMA IdleTyped ==
  ASSUME Schedules!RecurringAssumption, Payments # {}
  PROVE  Schedules!Idle \in ScheduleSession /\ Schedules!Idle.op = "idle"
         /\ Schedules!Idle.locked = FALSE
<1>1. (CHOOSE p \in Payments : TRUE) \in Payments
  OBVIOUS
<1> QED BY <1>1, VacantTyped DEF Schedules!Idle, ScheduleSession, Schedules!Status

\* The invariant holds before the first payment.
LEMMA SchedulesInit == ASSUME Schedules!RecurringAssumption, Payments # {}, Schedules!Init
  PROVE SchedulesInv
<1>1. SchedulesTyped
  <2>1. <<>> \in Seq(Schedules!CalendarDate)
    OBVIOUS
  <2> QED BY <2>1, VacantTyped, IdleTyped DEF Schedules!Init, SchedulesTyped
<1>2. ScheduleLocks
  BY IdleTyped DEF Schedules!Init, ScheduleLocks
<1>3. \A p \in Payments : InStep(p)
  BY DEF Schedules!Init, InStep
<1> QED BY <1>1, <1>2, <1>3 DEF SchedulesInv

\* Every step keeps the invariant; only what is active is posted, and what has ended stays.
LEMMA SchedulesStep ==
  ASSUME Schedules!RecurringAssumption, Payments # {}, SchedulesInv, [Schedules!Next]_(Schedules!vars)
  PROVE  /\ SchedulesInv'
         /\ \A p \in Payments :
              /\ schedule_posted'[p] # schedule_posted[p] => schedule_row[p].status = "active"
                   /\ schedule_row'[p].status = "active"
              /\ schedule_row[p].status = "ended" => schedule_row'[p] = schedule_row[p]
              /\ Schedules!Exists(p) /\ schedule_row'[p].next # schedule_row[p].next
                   => Lands(schedule_row[p].next, schedule_row'[p].next, schedule_row[p].rule)
<1> DEFINE Quiet ==
       \A p \in Payments :
              /\ schedule_posted'[p] # schedule_posted[p] => schedule_row[p].status = "active"
                   /\ schedule_row'[p].status = "active"
              /\ schedule_row[p].status = "ended" => schedule_row'[p] = schedule_row[p]
              /\ Schedules!Exists(p) /\ schedule_row'[p].next # schedule_row[p].next
                   => Lands(schedule_row[p].next, schedule_row'[p].next, schedule_row[p].rule)
<1> SUFFICES SchedulesInv' /\ Quiet
  OBVIOUS
<1>0. SchedulesTyped /\ ScheduleLocks /\ \A p \in Payments : InStep(p)
  BY DEF SchedulesInv
<1>i. Schedules!Idle \in ScheduleSession /\ Schedules!Idle.op = "idle" /\ Schedules!Idle.locked = FALSE
  BY IdleTyped
<1>r. ASSUME UNCHANGED <<schedule_row, schedule_posted>> PROVE Quiet /\ \A p \in Payments : InStep(p)'
  BY <1>0, <1>r DEF InStep
<1>f. ASSUME NEW s \in Sessions, Schedules!Finish(s), schedule_row' = schedule_row
      PROVE  schedule_session' \in [Sessions -> ScheduleSession] /\ ScheduleLocks'
  <2>1. schedule_session' = [schedule_session EXCEPT ![s] = Schedules!Idle]
    BY <1>f DEF Schedules!Finish
  <2>2. schedule_session' \in [Sessions -> ScheduleSession]
    BY <2>1, <1>i, <1>0 DEF SchedulesTyped
  <2>3. \A u \in Sessions : schedule_session'[u] = IF u = s THEN Schedules!Idle ELSE schedule_session[u]
    BY <2>1, <1>0 DEF SchedulesTyped
  <2> QED BY <2>2, <2>3, <1>i, <1>0, <1>f DEF ScheduleLocks, Schedules!Exists
<1>1. CASE UNCHANGED Schedules!vars
  BY <1>1, <1>0, <1>r DEF Schedules!vars, SchedulesInv, SchedulesTyped, ScheduleLocks, Schedules!Exists
<1>2. ASSUME NEW p \in Payments, NEW r \in Rules, NEW t \in FirstDates, Schedules!Create(p, r, t)
      PROVE  SchedulesInv' /\ Quiet
  <2>1. /\ schedule_row[p].status = "absent" /\ UNCHANGED <<schedule_posted, schedule_session>>
        /\ schedule_row' = [schedule_row EXCEPT ![p] = Schedules!NewRow(r, t)]
    BY <1>2 DEF Schedules!Create, Schedules!Exists
  <2>2. Schedules!NewRow(r, t) \in Schedules!Row /\ Schedules!NewRow(r, t).status = "active"
    BY DEF Schedules!NewRow, Schedules!Row, Schedules!Status, Schedules!RecurringAssumption
  <2>3. schedule_row' \in [Payments -> Schedules!Row] /\ schedule_row'[p] = Schedules!NewRow(r, t)
          /\ \A q \in Payments : q # p => schedule_row'[q] = schedule_row[q]
    BY <2>1, <2>2, <1>0 DEF SchedulesTyped
  <2>4. SchedulesTyped'
    BY <2>1, <2>3, <1>0 DEF SchedulesTyped
  <2>5. \A s \in Sessions : schedule_session[s].op # "idle" => schedule_session[s].payment # p
          /\ schedule_session[s].payment \in Payments
    BY <2>1, <1>0 DEF ScheduleLocks, Schedules!Exists, SchedulesTyped, ScheduleSession
  <2>6. ScheduleLocks'
    BY <2>1, <2>3, <2>5, <2>2, <1>0 DEF ScheduleLocks, Schedules!Exists
  <2>7. schedule_posted[p] = <<>>
    BY <2>1, <1>0 DEF InStep
  <2>8. InStep(p)'
    BY <2>7, <2>1, <2>3, <2>2 DEF InStep
  <2>9. ASSUME NEW q \in Payments, q # p PROVE InStep(q)'
    BY <2>1, <2>3, <2>9, <1>0 DEF InStep
  <2>10. \A q \in Payments : InStep(q)'
    BY <2>8, <2>9
  <2>11. Quiet
    BY <2>1, <2>3, <2>2 DEF Schedules!Exists
  <2> QED BY <2>4, <2>6, <2>10, <2>11 DEF SchedulesInv
<1>3. ASSUME NEW s \in Sessions, NEW p \in Payments, NEW t \in Schedules!Shown(p),
             Schedules!AskRecord(s, p, t)
      PROVE  SchedulesInv' /\ Quiet
  <2>1. t \in Schedules!CalendarDate
    BY <1>0 DEF Schedules!Shown, SchedulesTyped, Schedules!Row
  <2>2. /\ schedule_session[s].op = "idle" /\ Schedules!Exists(p)
        /\ UNCHANGED <<schedule_row, schedule_posted>>
        /\ schedule_session' = [schedule_session EXCEPT ![s]
             = [Schedules!Idle EXCEPT !.op = "record", !.payment = p, !.expected = t]]
    BY <1>3 DEF Schedules!AskRecord
  <2> DEFINE e == [Schedules!Idle EXCEPT !.op = "record", !.payment = p, !.expected = t]
  <2>3. e \in ScheduleSession /\ e.payment = p /\ e.locked = FALSE
    BY <1>i, <2>1 DEF ScheduleSession
  <2> HIDE DEF e
  <2>4. schedule_session' \in [Sessions -> ScheduleSession]
          /\ \A u \in Sessions : schedule_session'[u] = IF u = s THEN e ELSE schedule_session[u]
    BY <2>2, <2>3, <1>0 DEF SchedulesTyped, e
  <2>5. SchedulesTyped'
    BY <2>2, <2>4, <1>0 DEF SchedulesTyped
  <2>6. ScheduleLocks'
    BY <2>2, <2>4, <2>3, <1>0 DEF ScheduleLocks, Schedules!Exists
  <2> QED BY <2>5, <2>6, <2>2, <1>r DEF SchedulesInv
<1>4. ASSUME NEW s \in Sessions, NEW p \in Payments, NEW target \in {"active", "paused", "ended"},
             Schedules!AskTransition(s, p, target)
      PROVE  SchedulesInv' /\ Quiet
  <2> DEFINE e == [Schedules!Idle EXCEPT !.op = "transition", !.payment = p, !.target = target]
  <2>2. /\ schedule_session[s].op = "idle" /\ Schedules!Exists(p)
        /\ UNCHANGED <<schedule_row, schedule_posted>>
        /\ schedule_session' = [schedule_session EXCEPT ![s] = e]
    BY <1>4 DEF Schedules!AskTransition
  <2>3. e \in ScheduleSession /\ e.payment = p /\ e.locked = FALSE
    BY <1>i DEF ScheduleSession, Schedules!Status
  <2> HIDE DEF e
  <2>4. schedule_session' \in [Sessions -> ScheduleSession]
          /\ \A u \in Sessions : schedule_session'[u] = IF u = s THEN e ELSE schedule_session[u]
    BY <2>2, <2>3, <1>0 DEF SchedulesTyped
  <2>5. SchedulesTyped'
    BY <2>2, <2>4, <1>0 DEF SchedulesTyped
  <2>6. ScheduleLocks'
    BY <2>2, <2>4, <2>3, <1>0 DEF ScheduleLocks, Schedules!Exists
  <2> QED BY <2>5, <2>6, <2>2, <1>r DEF SchedulesInv
<1>5. ASSUME NEW s \in Sessions, Schedules!Lock(s) PROVE SchedulesInv' /\ Quiet
  <2> DEFINE p == schedule_session[s].payment
             e == [schedule_session[s] EXCEPT !.locked = TRUE, !.read = schedule_row[p]]
  <2>1. p \in Payments /\ schedule_row[p] \in Schedules!Row /\ schedule_session[s] \in ScheduleSession
    BY <1>0 DEF SchedulesTyped, ScheduleSession
  <2>2. /\ schedule_session[s].op # "idle" /\ ~Schedules!Locked(p)
             /\ UNCHANGED <<schedule_row, schedule_posted>>
        /\ schedule_session' = [schedule_session EXCEPT ![s] = e]
    BY <1>5 DEF Schedules!Lock
  <2>3. e \in ScheduleSession /\ e.payment = p /\ e.op = schedule_session[s].op
          /\ e.read = schedule_row[p]
    BY <2>1 DEF ScheduleSession
  <2>l. \A u \in Sessions : ~(schedule_session[u].locked /\ schedule_session[u].payment = p)
    BY <2>2 DEF Schedules!Locked
  <2> HIDE DEF e
  <2>4. schedule_session' \in [Sessions -> ScheduleSession]
          /\ \A u \in Sessions : schedule_session'[u] = IF u = s THEN e ELSE schedule_session[u]
    BY <2>2, <2>3, <1>0 DEF SchedulesTyped
  <2>5. SchedulesTyped'
    BY <2>2, <2>4, <1>0 DEF SchedulesTyped
  <2>6. \A u \in Sessions : schedule_session'[u].op # "idle"
          => schedule_row'[schedule_session'[u].payment].status # "absent"
    BY <2>2, <2>4, <2>3, <1>0 DEF ScheduleLocks, Schedules!Exists
  <2>7. \A u \in Sessions : schedule_session'[u].locked => schedule_session'[u].op # "idle"
          /\ schedule_session'[u].read = schedule_row'[schedule_session'[u].payment]
    BY <2>2, <2>4, <2>3, <1>0 DEF ScheduleLocks
  <2>8. ASSUME NEW u \in Sessions, NEW v \in Sessions, schedule_session'[u].locked,
               schedule_session'[v].locked,
               schedule_session'[u].payment = schedule_session'[v].payment
        PROVE  u = v
    <3>1. CASE u = s /\ v # s
      BY <3>1, <2>8, <2>4, <2>3, <2>l
    <3>2. CASE u # s /\ v = s
      BY <3>2, <2>8, <2>4, <2>3, <2>l
    <3>3. CASE u # s /\ v # s
      BY <3>3, <2>8, <2>4, <1>0 DEF ScheduleLocks
    <3> QED BY <3>1, <3>2, <3>3
  <2>9. ScheduleLocks'
    BY <2>6, <2>7, <2>8 DEF ScheduleLocks, Schedules!Exists
  <2> QED BY <2>5, <2>9, <2>2, <1>r DEF SchedulesInv
<1>6. ASSUME NEW s \in Sessions, Schedules!Record(s) PROVE SchedulesInv' /\ Quiet
  <2> PICK p : p = schedule_session[s].payment
    OBVIOUS
  <2> DEFINE n == schedule_row[p].next
             a == Schedules!Advance(schedule_row[p].next, schedule_row[p].rule)
             e == [schedule_row[p] EXCEPT !.next = a]
  <2>1. p \in Payments /\ schedule_row[p] \in Schedules!Row /\ schedule_session[s].locked
          /\ schedule_session[s].read = schedule_row[p]
    BY <1>6, <1>0 DEF Schedules!Record, SchedulesTyped, ScheduleSession, ScheduleLocks
  <2>2. /\ schedule_row[p].status = "active" /\ schedule_session[s].expected = n
        /\ schedule_posted' = [schedule_posted EXCEPT ![p] = Append(schedule_posted[p], n)]
        /\ schedule_row' = [schedule_row EXCEPT ![p] = e]
        /\ Schedules!Finish(s)
    BY <1>6, <2>1 DEF Schedules!Record, Schedules!Due, Schedules!PostAndAdvance
  <2>3. n \in Schedules!CalendarDate /\ schedule_row[p].rule \in Rules
          /\ Lands(n, a, schedule_row[p].rule)
    BY <2>1, Advances DEF Schedules!Row
  <2>4. a \in Schedules!CalendarDate /\ Schedules!Before(n, a)
    BY <2>3 DEF Lands
  <2> HIDE DEF a
  <2>5. e \in Schedules!Row /\ e.status = "active" /\ e.rule = schedule_row[p].rule /\ e.next = a
    BY <2>1, <2>2, <2>4 DEF Schedules!Row
  <2> HIDE DEF e
  <2>6. schedule_row' \in [Payments -> Schedules!Row] /\ schedule_row'[p] = e
          /\ \A q \in Payments : q # p => schedule_row'[q] = schedule_row[q]
    BY <2>1, <2>2, <2>5, <1>0 DEF SchedulesTyped
  <2>7. schedule_posted[p] \in Seq(Schedules!CalendarDate)
          /\ schedule_posted \in [Payments -> Seq(Schedules!CalendarDate)]
    BY <2>1, <1>0 DEF SchedulesTyped
  <2>8. Append(schedule_posted[p], n) \in Seq(Schedules!CalendarDate)
    BY <2>7, <2>3
  <2>9. schedule_posted' \in [Payments -> Seq(Schedules!CalendarDate)]
          /\ schedule_posted'[p] = Append(schedule_posted[p], n)
        /\ \A q \in Payments : q # p => schedule_posted'[q] = schedule_posted[q]
    BY <2>1, <2>2, <2>7, <2>8
  <2>10. schedule_session' = [schedule_session EXCEPT ![s] = Schedules!Idle]
    BY <2>2 DEF Schedules!Finish
  <2>11. schedule_session' \in [Sessions -> ScheduleSession]
           /\ \A u \in Sessions : schedule_session'[u] = IF u = s THEN Schedules!Idle
                                                                  ELSE schedule_session[u]
    BY <2>10, <1>i, <1>0 DEF SchedulesTyped
  <2>12. SchedulesTyped'
    BY <2>6, <2>9, <2>11 DEF SchedulesTyped
  <2>13. \A u \in Sessions : u # s /\ schedule_session[u].locked => schedule_session[u].payment # p
    BY <2>1, <1>0 DEF ScheduleLocks
  <2>14. \A u \in Sessions : schedule_session'[u].op # "idle"
           => schedule_row'[schedule_session'[u].payment].status # "absent"
    <3>1. \A q \in Payments : schedule_row[q].status # "absent" => schedule_row'[q].status # "absent"
      BY <2>6, <2>5
    <3>2. \A u \in Sessions : schedule_session[u].payment \in Payments
      BY <1>0 DEF SchedulesTyped, ScheduleSession
    <3> QED BY <3>1, <3>2, <2>11, <1>i, <1>0 DEF ScheduleLocks, Schedules!Exists
  <2>15. \A u \in Sessions : schedule_session'[u].locked => schedule_session'[u].op # "idle"
           /\ schedule_session'[u].read = schedule_row'[schedule_session'[u].payment]
    <3>2. \A u \in Sessions : schedule_session[u].payment \in Payments
      BY <1>0 DEF SchedulesTyped, ScheduleSession
    <3> QED BY <3>2, <2>11, <2>13, <2>6, <1>i, <1>0 DEF ScheduleLocks
  <2>16. ScheduleLocks'
    BY <2>14, <2>15, <2>11, <1>i, <1>0 DEF ScheduleLocks, Schedules!Exists
  <2>17. InStep(p)'
    <3> DEFINE old == schedule_posted[p]
               new == Append(schedule_posted[p], n)
    <3>1. /\ Len(old) \in Nat /\ Len(new) = Len(old) + 1
          /\ \A i \in 1..Len(old) : new[i] = old[i] /\ old[i] \in Schedules!CalendarDate
          /\ new[Len(old) + 1] = n
      BY <2>7, <2>3
    <3>2. ASSUME NEW i \in 1..(Len(new) - 1)
          PROVE new[i + 1] = Schedules!Advance(new[i], schedule_row[p].rule)
      <4>1. CASE i = Len(old)
        <5>1. old # <<>> /\ i \in 1..Len(old)
          BY <4>1, <3>2, <3>1, <2>7
        <5> QED BY <5>1, <4>1, <3>1, <1>0, <2>1 DEF InStep
      <4>2. CASE i # Len(old)
        <5>1. i \in 1..(Len(old) - 1) /\ i \in 1..Len(old) /\ i + 1 \in 1..Len(old)
          BY <4>2, <3>2, <3>1
        <5> QED BY <5>1, <3>1, <1>0, <2>1 DEF InStep
      <4> QED BY <4>1, <4>2
    <3>3. new # <<>> /\ a = Schedules!Advance(new[Len(new)], schedule_row[p].rule)
      BY <3>1 DEF a
    <3>4. ASSUME NEW i \in 1..Len(new) PROVE Schedules!Before(new[i], a)
      <4>1. CASE i = Len(old) + 1
        BY <4>1, <3>1, <2>4
      <4>2. CASE i # Len(old) + 1
        <5>1. i \in 1..Len(old)
          BY <4>2, <3>4, <3>1
        <5>2. Schedules!Before(old[i], n) /\ new[i] = old[i] /\ old[i] \in Schedules!CalendarDate
          BY <5>1, <3>1, <1>0, <2>1 DEF InStep
        <5> QED BY <5>2, <2>3, <2>4, BeforeTransitive
      <4> QED BY <4>1, <4>2
    <3> HIDE DEF new
    <3>5. /\ schedule_row'[p].status = "active" /\ schedule_row'[p].rule = schedule_row[p].rule
          /\ schedule_row'[p].next = a /\ schedule_posted'[p] = new
      BY <2>6, <2>5, <2>9 DEF new
    <3> QED BY <3>2, <3>3, <3>4, <3>5 DEF InStep
  <2>18. ASSUME NEW q \in Payments, q # p PROVE InStep(q)'
    BY <2>18, <2>6, <2>9, <1>0 DEF InStep
  <2>19. \A q \in Payments : InStep(q)'
    BY <2>17, <2>18
  <2>20. Quiet
    BY <2>6, <2>5, <2>9, <2>3, <2>2 DEF Schedules!Exists
  <2> QED BY <2>12, <2>16, <2>19, <2>20 DEF SchedulesInv
<1>7. ASSUME NEW s \in Sessions, Schedules!Transition(s) PROVE SchedulesInv' /\ Quiet
  <2> DEFINE p == schedule_session[s].payment
             target == schedule_session[s].target
             e == [schedule_row[p] EXCEPT !.status = target]
  <2>1. /\ p \in Payments /\ schedule_row[p] \in Schedules!Row /\ schedule_session[s].locked
        /\ schedule_session[s].read = schedule_row[p]
        /\ schedule_row[p].status # "absent"
    BY <1>7, <1>0 DEF Schedules!Transition, SchedulesTyped, ScheduleSession, ScheduleLocks,
       Schedules!Exists
  <2>2. /\ target \in Schedules!Transitions[schedule_row[p].status]
        /\ schedule_row' = [schedule_row EXCEPT ![p] = e]
        /\ Schedules!Finish(s) /\ UNCHANGED schedule_posted
    BY <1>7, <2>1 DEF Schedules!Transition
  <2>3. target \in {"active", "paused", "ended"} /\ schedule_row[p].status # "ended"
    BY <2>1, <2>2 DEF Schedules!Transitions, Schedules!Row, Schedules!Status
  <2>5. e \in Schedules!Row /\ e.status # "absent" /\ e.rule = schedule_row[p].rule
          /\ e.next = schedule_row[p].next
    BY <2>1, <2>3 DEF Schedules!Row, Schedules!Status
  <2> HIDE DEF e
  <2>6. schedule_row' \in [Payments -> Schedules!Row] /\ schedule_row'[p] = e
          /\ \A q \in Payments : q # p => schedule_row'[q] = schedule_row[q]
    BY <2>1, <2>2, <2>5, <1>0 DEF SchedulesTyped
  <2>10. schedule_session' = [schedule_session EXCEPT ![s] = Schedules!Idle]
    BY <2>2 DEF Schedules!Finish
  <2>11. schedule_session' \in [Sessions -> ScheduleSession]
           /\ \A u \in Sessions : schedule_session'[u] = IF u = s THEN Schedules!Idle
                                                                  ELSE schedule_session[u]
    BY <2>10, <1>i, <1>0 DEF SchedulesTyped
  <2>12. SchedulesTyped'
    BY <2>6, <2>2, <2>11, <1>0 DEF SchedulesTyped
  <2>13. \A u \in Sessions : u # s /\ schedule_session[u].locked => schedule_session[u].payment # p
    BY <2>1, <1>0 DEF ScheduleLocks
  <2>14. \A u \in Sessions : schedule_session'[u].op # "idle"
           => schedule_row'[schedule_session'[u].payment].status # "absent"
    <3>1. \A q \in Payments : schedule_row[q].status # "absent" => schedule_row'[q].status # "absent"
      BY <2>6, <2>5
    <3>2. \A u \in Sessions : schedule_session[u].payment \in Payments
      BY <1>0 DEF SchedulesTyped, ScheduleSession
    <3> QED BY <3>1, <3>2, <2>11, <1>i, <1>0 DEF ScheduleLocks, Schedules!Exists
  <2>15. \A u \in Sessions : schedule_session'[u].locked => schedule_session'[u].op # "idle"
           /\ schedule_session'[u].read = schedule_row'[schedule_session'[u].payment]
    <3>2. \A u \in Sessions : schedule_session[u].payment \in Payments
      BY <1>0 DEF SchedulesTyped, ScheduleSession
    <3> QED BY <3>2, <2>11, <2>13, <2>6, <1>i, <1>0 DEF ScheduleLocks
  <2>16. ScheduleLocks'
    BY <2>14, <2>15, <2>11, <1>i, <1>0 DEF ScheduleLocks, Schedules!Exists
  <2>17. ASSUME NEW q \in Payments PROVE InStep(q)'
    <3>1. schedule_row'[q].rule = schedule_row[q].rule
            /\ schedule_row'[q].next = schedule_row[q].next /\ schedule_posted'[q] = schedule_posted[q]
      BY <2>6, <2>5, <2>2
    <3>2. schedule_row'[q].status = "absent" => schedule_row[q].status = "absent"
      BY <2>6, <2>5
    <3> QED BY <3>1, <3>2, <1>0 DEF InStep
  <2>20. Quiet
    BY <2>6, <2>5, <2>3, <2>2 DEF Schedules!Exists
  <2> QED BY <2>12, <2>16, <2>17, <2>20 DEF SchedulesInv
<1>8. ASSUME NEW s \in Sessions, Schedules!Rollback(s) PROVE SchedulesInv' /\ Quiet
  <2>1. Schedules!Finish(s) /\ UNCHANGED <<schedule_row, schedule_posted>>
    BY <1>8 DEF Schedules!Rollback
  <2>2. SchedulesTyped' /\ ScheduleLocks'
    BY <2>1, <1>f, <1>0 DEF SchedulesTyped
  <2> QED BY <2>1, <2>2, <1>r DEF SchedulesInv
<1> HIDE DEF Quiet
<1> QED BY <1>1, <1>2, <1>3, <1>4, <1>5, <1>6, <1>7, <1>8 DEF Schedules!Next

\* What the invariant says of the properties of the run.
LEMMA SchedulesSay ==
  ASSUME Schedules!RecurringAssumption, SchedulesInv
  PROVE  Schedules!TypeOK /\ Schedules!OccurrencesInStep /\ Schedules!UpcomingIsUnpaid
<1>0. SchedulesTyped /\ ScheduleLocks /\ \A p \in Payments : InStep(p)
  BY DEF SchedulesInv
<1>1. Schedules!TypeOK
  BY <1>0 DEF SchedulesTyped, ScheduleLocks, Schedules!TypeOK, ScheduleSession
<1>2. ASSUME NEW p \in Payments, NEW i \in DOMAIN schedule_posted[p]
      PROVE  Append(schedule_posted[p], schedule_row[p].next)[i + 1]
             = Schedules!Advance(Append(schedule_posted[p], schedule_row[p].next)[i],
               schedule_row[p].rule)
  <2>1. schedule_posted[p] \in Seq(Schedules!CalendarDate)
    BY <1>0 DEF SchedulesTyped
  <2>2. i \in 1..Len(schedule_posted[p]) /\ Len(schedule_posted[p]) \in Nat
    BY <2>1, <1>2
  <2>3. CASE i = Len(schedule_posted[p])
    <3>1. schedule_posted[p] # <<>>
      BY <2>1, <2>2
    <3> QED BY <3>1, <2>1, <2>2, <2>3, <1>0 DEF InStep
  <2>4. CASE i # Len(schedule_posted[p])
    <3>1. i \in 1..(Len(schedule_posted[p]) - 1) /\ i + 1 \in 1..Len(schedule_posted[p])
      BY <2>2, <2>4
    <3> QED BY <3>1, <2>1, <2>2, <1>0 DEF InStep
  <2> QED BY <2>3, <2>4
<1>3. Schedules!UpcomingIsUnpaid
  <2> SUFFICES ASSUME NEW q \in Payments,
                      NEW p \in Schedules!Upcoming(schedule_row[q].next, schedule_row[q].next),
                        NEW i \in DOMAIN schedule_posted[p]
               PROVE  Schedules!Before(schedule_posted[p][i], schedule_row[q].next)
    BY DEF Schedules!UpcomingIsUnpaid
  <2>1. p \in Payments /\ ~Schedules!Before(schedule_row[q].next, schedule_row[p].next)
          /\ ~Schedules!Before(schedule_row[p].next, schedule_row[q].next)
    BY DEF Schedules!Upcoming
  <2>2. schedule_posted[p] \in Seq(Schedules!CalendarDate)
          /\ schedule_row[p].next \in Schedules!CalendarDate
          /\ schedule_row[q].next \in Schedules!CalendarDate
    BY <2>1, <1>0 DEF SchedulesTyped, Schedules!Row
  <2>3. i \in 1..Len(schedule_posted[p]) /\ schedule_posted[p][i] \in Schedules!CalendarDate
    BY <2>2
  <2>4. Schedules!Before(schedule_posted[p][i], schedule_row[p].next)
    BY <2>3, <2>1, <1>0 DEF InStep
  <2> DEFINE key(d) == Schedules!AbsoluteMonth(d) * 32 + d.day
  <2>5. \A d \in Schedules!CalendarDate : key(d) \in Int
    BY DateParts
  <2>6. \A c, d \in Schedules!CalendarDate : Schedules!Before(c, d) <=> key(c) < key(d)
    BY DEF Schedules!Before
  <2> HIDE DEF key
  <2>7. key(schedule_posted[p][i]) < key(schedule_row[p].next)
          /\ ~(key(schedule_row[q].next) < key(schedule_row[p].next))
    BY <2>1, <2>2, <2>3, <2>4, <2>6
  <2>8. key(schedule_posted[p][i]) < key(schedule_row[q].next)
    BY <2>7, <2>5, <2>2, <2>3
  <2> QED BY <2>8, <2>6, <2>2, <2>3
<1> QED BY <1>1, <1>2, <1>3 DEF Schedules!OccurrencesInStep

\* The invariant holds in every reachable state.
LEMMA SchedulesInvariance ==
  ASSUME Schedules!RecurringAssumption, Payments # {}
  PROVE  Schedules!Spec => []SchedulesInv
<1>1. Schedules!Init => SchedulesInv
  BY SchedulesInit
<1>2. SchedulesInv /\ [Schedules!Next]_(Schedules!vars) => SchedulesInv'
  BY SchedulesStep
<1> QED BY <1>1, <1>2, PTL DEF Schedules!Spec

(* The calendar, for every rule: occurrences follow one another by the rule, *)
(* none that is due has been posted, only what is active moves on and an     *)
(* advance lands a fixed number of months later, on a day as late as it was. *)
THEOREM SchedulesCorrect ==
  ASSUME Schedules!RecurringAssumption, Payments # {}
  PROVE  Schedules!Spec => []Schedules!TypeOK
         /\ [](Schedules!OccurrencesInStep /\ Schedules!UpcomingIsUnpaid)
         /\ Schedules!SilentUnlessActive /\ Schedules!CalendarSteps
<1>1. SchedulesInv => Schedules!TypeOK /\ Schedules!OccurrencesInStep /\ Schedules!UpcomingIsUnpaid
  BY SchedulesSay
<1>2. SchedulesInv /\ [Schedules!Next]_(Schedules!vars) =>
        [\A p \in Payments :
          /\ schedule_posted'[p] # schedule_posted[p] => schedule_row[p].status = "active"
               /\ schedule_row'[p].status = "active"
          /\ schedule_row[p].status = "ended" => schedule_row'[p] = schedule_row[p]]_(Schedules!vars)
  BY SchedulesStep
<1>3. SchedulesInv /\ [Schedules!Next]_(Schedules!vars) =>
      [\A p \in Payments : Schedules!Exists(p) /\ schedule_row'[p].next # schedule_row[p].next =>
        LET s == schedule_row[p].next  t == schedule_row'[p].next  rule == schedule_row[p].rule IN
        /\ Schedules!Before(s, t) /\ Schedules!IsDate(t)
        /\ rule # "weekly" => Schedules!AbsoluteMonth(t)
             = Schedules!AbsoluteMonth(s) + Schedules!MonthsOf[rule]
        /\ rule # "weekly" /\ s.day <= 27 => t.day = s.day
        /\ rule # "weekly" /\ s.day > 27 => t.day > 27]_(Schedules!vars)
  BY SchedulesStep DEF Lands, Schedules!CalendarDate
<1> QED BY <1>1, <1>2, <1>3, SchedulesInvariance, PTL
           DEF Schedules!Spec, Schedules!SilentUnlessActive, Schedules!CalendarSteps

-----------------------------------------------------------------------------
(* Categories: the inductive invariant *)

LabelSession ==
  [op: {"idle", "post", "correct"},
   step: {"idle", "rule", "merchant", "exact", "recall", "insert", "wait", "locked"},
   txn: Transactions, row: Classification!Row, choice: Labels \cup {None}, begun: 0..LastStamp,
   known: SUBSET [category: Labels, source: {"user_rule", "merchant_map", "verified_correction"}]]

Categorized(r) == r.category = None <=> r.source = "none"

CategoriesTyped ==
  /\ label_transaction \in [Transactions -> Classification!Row]
  /\ \A t \in Transactions : Categorized(label_transaction[t])
  /\ label_rules \in Seq(Classification!Rule)
  /\ label_learned \in [Merchants -> Labels \cup {None}]
  /\ label_corrections \in Seq(Classification!Correction)
  /\ label_session \in [Sessions -> LabelSession]
  /\ label_stamp \in 0..LastStamp

\* What a request in progress has found and still has.
InProgress(s) ==
  /\ label_session[s].op = "idle" => label_session[s].step = "idle"
  /\ label_session[s].op = "post" =>
       /\ label_session[s].step \in {"rule", "merchant", "exact", "recall", "insert"}
       /\ ~label_transaction[label_session[s].txn].present
       /\ label_session[s].row.present /\ Categorized(label_session[s].row)
  /\ label_session[s].op = "correct" =>
       /\ label_session[s].step \in {"wait", "locked"}
       /\ label_transaction[label_session[s].txn].present
       /\ label_session[s].begun \in 1..label_stamp /\ label_session[s].choice \in Labels
  /\ label_session[s].step = "locked" => label_session[s].row = label_transaction[label_session[s].txn]

PostingsApart ==
  \A s \in Sessions, u \in Sessions : s # u /\ label_session[s].txn = label_session[u].txn =>
    /\ ~(label_session[s].op = "post" /\ label_session[u].op = "post")
    /\ ~(label_session[s].step = "locked" /\ label_session[u].step = "locked")

\* Corrections are committed in the order of their clocks at the commit.
CommitOrder ==
  /\ \A i \in DOMAIN label_corrections :
       /\ label_corrections[i].begun <= label_corrections[i].done
       /\ label_corrections[i].done <= label_stamp
       /\ label_transaction[label_corrections[i].txn].present
  /\ \A i, j \in DOMAIN label_corrections : i <= j
       => label_corrections[i].done <= label_corrections[j].done

LearnedLast ==
  \A m \in Merchants : label_learned[m] # None =>
    \E i \in DOMAIN label_corrections :
      /\ label_corrections[i].merchant = m /\ label_corrections[i].category = label_learned[m]
      /\ \A j \in DOMAIN label_corrections : label_corrections[j].merchant = m => j <= i

HasRule(text)       == \E i \in DOMAIN label_rules : label_rules[i].pattern \in text
HasMerchant(m)      == m # None /\ label_learned[m] # None
HasCorrection(text) == \E i \in DOMAIN label_corrections : label_corrections[i].text = text

\* What was known when the posting began still is, and nothing stronger than the
\* layer that is asked next.
Ceiling == [rule |-> 4, merchant |-> 3, exact |-> 2, recall |-> 1]

Evident(s) ==
  label_session[s].op = "post" => \A e \in label_session[s].known :
    /\ e.source = "user_rule" => HasRule(label_session[s].row.text)
    /\ e.source = "merchant_map" => HasMerchant(label_session[s].row.merchant)
    /\ e.source = "verified_correction" => HasCorrection(label_session[s].row.text)
    /\ Classification!Strength[e.source] <= IF label_session[s].step = "insert"
         THEN Classification!Strength[label_session[s].row.source]
         ELSE Ceiling[label_session[s].step]

CategoriesInv ==
  /\ CategoriesTyped /\ PostingsApart /\ CommitOrder /\ LearnedLast /\ Classification!CorrectionsChain
  /\ \A s \in Sessions : InProgress(s) /\ Evident(s)

-----------------------------------------------------------------------------
(* Categories: the layers *)

\* The rules answer when one of them has a pattern that is in the text.
LEMMA RuleFound ==
  ASSUME Classification!CategorizationAssumption, label_rules \in Seq(Classification!Rule), NEW text
  PROVE  /\ Classification!ByRule(text) # Classification!NoMatch <=> HasRule(text)
         /\ Classification!ByRule(text) # Classification!NoMatch
              => \E c \in Labels : Classification!ByRule(text) = Classification!Assigned(c, "user_rule")
<1> DEFINE matching == {i \in DOMAIN label_rules : label_rules[i].pattern \in text}
           first(i) == \A j \in matching : label_rules[i].priority < label_rules[j].priority
                                           \/ (label_rules[i].priority = label_rules[j].priority
                                                /\ i <= j)
<1>1. Classification!ByRule(text) = IF matching = {} THEN Classification!NoMatch
                     ELSE Classification!Assigned(label_rules[CHOOSE i \in matching
                       : first(i)].category, "user_rule")
  BY DEF Classification!ByRule
<1>2. \A c : Classification!Assigned(c, "user_rule") # Classification!NoMatch
  BY DEF Classification!Assigned, Classification!NoMatch
<1>3. matching # {} <=> HasRule(text)
  BY DEF HasRule
<1>4. ASSUME NEW i \in matching
      PROVE i \in Nat /\ label_rules[i] \in Classification!Rule /\ label_rules[i].priority \in Nat
  <2>1. i \in Nat /\ label_rules[i] \in Classification!Rule
    OBVIOUS
  <2>2. label_rules[i].priority \in Priorities
    BY <2>1 DEF Classification!Rule
  <2>3. label_rules[i].priority \in 0..1000
    BY <2>2 DEF Classification!CategorizationAssumption
  <2>4. \A n \in 0..1000 : n \in Nat
    OBVIOUS
  <2> QED BY <2>1, <2>3, <2>4, Zenon
<1>5. ASSUME matching # {} PROVE \E i \in matching : first(i)
  <2> DEFINE P == {label_rules[i].priority : i \in matching}
  <2>1. P \in SUBSET Nat /\ P # {}
    BY <1>4, <1>5
  <2>2. PICK p \in P : \A q \in P : p <= q
    BY <2>1, Smallest
  <2> DEFINE I == {i \in matching : label_rules[i].priority = p}
  <2>3. I \in SUBSET Nat /\ I # {}
    BY <1>4, <2>2
  <2>4. PICK i \in I : \A j \in I : i <= j
    BY <2>3, Smallest
  <2>5. i \in matching /\ label_rules[i].priority = p
    BY <2>4
  <2>6. ASSUME NEW j \in matching PROVE label_rules[i].priority < label_rules[j].priority
                                           \/ (label_rules[i].priority = label_rules[j].priority
                                                /\ i <= j)
    <3>1. label_rules[j].priority \in P /\ p <= label_rules[j].priority /\ p \in Nat
            /\ label_rules[j].priority \in Nat
      BY <2>2, <2>1, <1>4
    <3>2. CASE label_rules[j].priority = p
      BY <3>2, <2>4, <2>5
    <3>3. CASE label_rules[j].priority # p
      BY <3>1, <3>3, <2>5
    <3> QED BY <3>2, <3>3
  <2> QED BY <2>5, <2>6
<1>6. ASSUME matching # {} PROVE label_rules[CHOOSE i \in matching : first(i)].category \in Labels
  <2> HIDE DEF first, matching
  <2>1. (CHOOSE i \in matching : first(i)) \in matching
    BY <1>5, <1>6
  <2> QED BY <2>1, <1>4 DEF Classification!Rule
<1> HIDE DEF matching, first
<1> QED BY <1>1, <1>2, <1>3, <1>6

\* The merchants answer when the merchant has been learned.
LEMMA MerchantFound ==
  ASSUME Classification!CategorizationAssumption,
         label_learned \in [Merchants -> Labels \cup {None}], NEW m \in Merchants \cup {None}
  PROVE  /\ Classification!ByMerchant(m) # Classification!NoMatch <=> HasMerchant(m)
         /\ Classification!ByMerchant(m) # Classification!NoMatch
              => \E c \in Labels : Classification!ByMerchant(m) =
                 Classification!Assigned(c, "merchant_map")
<1>1. \A c : Classification!Assigned(c, "merchant_map") # Classification!NoMatch
  BY DEF Classification!Assigned, Classification!NoMatch
<1> QED BY <1>1 DEF Classification!ByMerchant, HasMerchant

\* Of some corrections, one began last.
LEMMA NewestIs ==
  ASSUME NEW cs, cs # {}, \A c \in cs : c.begun \in 1..LastStamp, LastStamp \in Nat
  PROVE  Classification!Newest(cs) \in cs /\ \A d \in cs : d.begun <= Classification!Newest(cs).begun
<1> DEFINE S == {LastStamp - c.begun : c \in cs}
<1>1. S \in SUBSET Nat /\ S # {}
  OBVIOUS
<1>2. PICK n \in S : \A m \in S : n <= m
  BY <1>1, Smallest
<1>3. PICK c \in cs : n = LastStamp - c.begun
  BY <1>2
<1>4. ASSUME NEW d \in cs PROVE d.begun <= c.begun
  <2>1. LastStamp - d.begun \in S
    OBVIOUS
  <2>2. LastStamp - c.begun <= LastStamp - d.begun
    BY <2>1, <1>2, <1>3
  <2> QED BY <2>2
<1>5. \E x \in cs : \A d \in cs : d.begun <= x.begun
  BY <1>4
<1> QED BY <1>5 DEF Classification!Newest

\* Corrections answer when one of the same text has been made.
LEMMA CorrectionFound ==
  ASSUME Classification!CategorizationAssumption,
         label_corrections \in Seq(Classification!Correction), NEW text
  PROVE  /\ Classification!ByCorrection(text) # Classification!NoMatch <=> HasCorrection(text)
         /\ Classification!ByCorrection(text) # Classification!NoMatch
              => \E c \in Labels : Classification!ByCorrection(text) =
                 Classification!Assigned(c, "verified_correction")
<1> DEFINE exact == {c \in Classification!History : c.text = text}
<1>1. Classification!ByCorrection(text) = IF exact = {} THEN Classification!NoMatch
        ELSE Classification!Assigned(Classification!Newest(exact).category, "verified_correction")
  BY DEF Classification!ByCorrection
<1>2. \A c : Classification!Assigned(c, "verified_correction") # Classification!NoMatch
  BY DEF Classification!Assigned, Classification!NoMatch
<1>3. exact # {} <=> HasCorrection(text)
  BY DEF HasCorrection, Classification!History
<1>4. \A c \in exact : c \in Classification!Correction
  BY DEF Classification!History
<1>5. ASSUME exact # {} PROVE Classification!Newest(exact).category \in Labels
  <2>1. \A c \in exact : c.begun \in 1..LastStamp
    BY <1>4 DEF Classification!Correction
  <2>2. Classification!Newest(exact) \in exact
    BY <2>1, <1>5, NewestIs DEF Classification!CategorizationAssumption
  <2> QED BY <2>2, <1>4 DEF Classification!Correction
<1> HIDE DEF exact
<1> QED BY <1>1, <1>2, <1>3, <1>5

\* The operator of the instance is that of the theorems about finite sets.
LEMMA LabelCardinality == \A S : Classification!Cardinality(S) = Cardinality(S)
BY DEF Classification!Cardinality, Cardinality, Classification!IsFiniteSet, IsFiniteSet

\* What retrieval answers is a category.
LEMMA RetrievalFound ==
  ASSUME Classification!CategorizationAssumption,
         label_corrections \in Seq(Classification!Correction), NEW text
  PROVE  Classification!ByRetrieval(text) # Classification!NoMatch
         => \E c \in Labels : Classification!ByRetrieval(text) = Classification!Assigned(c, "retrieval")
<1> DEFINE eligible == {c \in Classification!Recalled :
                          Classification!Score(text, c.text) >= Classification!Threshold}
           best     == {c \in eligible : \A d \in eligible :
                          Classification!Score(text, d.text) <= Classification!Score(text, c.text)}
           found    == {c.category : c \in best}
<1>1. Classification!ByRetrieval(text) = IF Classification!Cardinality(found) = 1
        THEN Classification!Assigned(CHOOSE c \in found : TRUE, "retrieval") ELSE Classification!NoMatch
  BY DEF Classification!ByRetrieval
<1>2. best \subseteq Classification!Correction
  BY DEF Classification!Recalled, Classification!History
<1>3. found \subseteq Labels
  BY <1>2 DEF Classification!Correction
<1> HIDE DEF best, found
<1>4. Classification!Cardinality(found) = 1 => found # {}
  <2>1. Classification!Cardinality({}) = Cardinality({})
    BY LabelCardinality
  <2>2. Cardinality({}) = 0
    BY FS_EmptySet
  <2>3. PICK n : n = Classification!Cardinality(found)
    OBVIOUS
  <2>4. found = {} => n = 0
    BY <2>1, <2>2, <2>3
  <2> QED BY <2>3, <2>4
<1>5. Classification!Cardinality(found) = 1 => (CHOOSE c \in found : TRUE) \in Labels
  BY <1>3, <1>4
<1> QED BY <1>1, <1>5

\* The row of no transaction and an idle request have their types.
LEMMA RestTyped ==
  ASSUME Classification!CategorizationAssumption
  PROVE  /\ Classification!Vacant \in Classification!Row /\ ~Classification!Vacant.present
         /\ Categorized(Classification!Vacant)
         /\ Classification!Idle \in LabelSession /\ Classification!Idle.op = "idle"
         /\ Classification!Idle.step = "idle" /\ Classification!Idle.known = {}
<1>1. (CHOOSE t \in Texts : TRUE) \in Texts /\ (CHOOSE t \in Transactions : TRUE) \in Transactions
  BY DEF Classification!CategorizationAssumption
<1>2. Classification!Vacant \in Classification!Row /\ ~Classification!Vacant.present
        /\ Categorized(Classification!Vacant)
  BY <1>1 DEF Classification!Vacant, Classification!Row, Classification!Source, Categorized
<1>3. 0 \in 0..LastStamp
  BY DEF Classification!CategorizationAssumption
<1> QED BY <1>1, <1>2, <1>3 DEF Classification!Idle, LabelSession

\* The invariant holds before the first transaction.
LEMMA CategoriesInit == ASSUME Classification!CategorizationAssumption, Classification!Init
  PROVE CategoriesInv
<1>1. CategoriesTyped
  <2>1. <<>> \in Seq(Classification!Rule) /\ <<>> \in Seq(Classification!Correction)
          /\ 0 \in 0..LastStamp
    BY DEF Classification!CategorizationAssumption
  <2> QED BY <2>1, RestTyped DEF Classification!Init, CategoriesTyped
<1>2. PostingsApart /\ \A s \in Sessions : InProgress(s) /\ Evident(s)
  BY RestTyped DEF Classification!Init, PostingsApart, InProgress, Evident
<1>3. DOMAIN label_corrections = {} /\ \A m \in Merchants : label_learned[m] = None
  BY DEF Classification!Init
<1>4. CommitOrder /\ LearnedLast /\ Classification!CorrectionsChain
  BY <1>3 DEF CommitOrder, LearnedLast, Classification!CorrectionsChain
<1> QED BY <1>1, <1>2, <1>4 DEF CategoriesInv

-----------------------------------------------------------------------------
(* Categories: the steps *)

\* The part of the invariant that the history of corrections carries.
PastCorrections == CommitOrder /\ LearnedLast /\ Classification!CorrectionsChain

\* A step without a correction keeps what corrections say of the rows.
LEMMA PastKept ==
  ASSUME CategoriesTyped, PastCorrections, UNCHANGED <<label_corrections, label_learned>>,
         label_stamp' \in Int, label_stamp <= label_stamp',
         \A t \in Transactions : label_transaction[t].present
           => label_transaction'[t] = label_transaction[t]
  PROVE  PastCorrections'
<1>1. \A i \in DOMAIN label_corrections : label_corrections[i] \in Classification!Correction
        /\ label_corrections[i].txn \in Transactions
                                    /\ label_corrections[i].done \in Int
  <2>1. \A i \in DOMAIN label_corrections : label_corrections[i] \in Classification!Correction
    BY DEF CategoriesTyped
  <2> QED BY <2>1 DEF Classification!Correction
<1>2. CommitOrder'
  BY <1>1 DEF CommitOrder, PastCorrections, CategoriesTyped
<1>3. LearnedLast'
  BY DEF LearnedLast, PastCorrections
<1>4. Classification!CorrectionsChain'
  <2>1. \A t \in Transactions : \A i \in DOMAIN label_corrections : label_corrections[i].txn = t
          => label_transaction'[t] = label_transaction[t]
    BY DEF CommitOrder, PastCorrections
  <2>2. Classification!CorrectionsChain
    BY DEF PastCorrections
  <2> QED BY <2>1, <2>2 DEF Classification!CorrectionsChain
<1> QED BY <1>2, <1>3, <1>4 DEF PastCorrections

\* A step of s, with all others as they were.
LEMMA SessionsKept ==
  ASSUME CategoriesTyped, PostingsApart, \A u \in Sessions : InProgress(u) /\ Evident(u),
         NEW s \in Sessions, NEW e \in LabelSession, label_session' = [label_session EXCEPT ![s] = e],
         label_stamp' \in Int, label_stamp <= label_stamp', label_stamp \in Int,
         \A u \in Sessions : u # s =>
            /\ label_session[u].op = "post" => label_transaction'[label_session[u].txn].present
                 = label_transaction[label_session[u].txn].present
            /\ label_session[u].op = "correct" => label_transaction'[label_session[u].txn].present
                 = label_transaction[label_session[u].txn].present
            /\ label_session[u].step = "locked" => label_transaction'[label_session[u].txn]
                 = label_transaction[label_session[u].txn],
         \A text : HasRule(text) => HasRule(text)',
         \A m : HasMerchant(m) => HasMerchant(m)',
         \A text : HasCorrection(text) => HasCorrection(text)'
  PROVE  /\ label_session' \in [Sessions -> LabelSession]
         /\ label_session'[s] = e /\ \A u \in Sessions : u # s => label_session'[u] = label_session[u]
         /\ \A u \in Sessions : u # s => InProgress(u)' /\ Evident(u)'
<1>1. /\ label_session' \in [Sessions -> LabelSession]
      /\ label_session'[s] = e /\ \A u \in Sessions : u # s => label_session'[u] = label_session[u]
  BY DEF CategoriesTyped
<1>2. ASSUME NEW u \in Sessions, u # s PROVE InProgress(u)' /\ Evident(u)'
  <2>1. label_session'[u] = label_session[u] /\ InProgress(u) /\ Evident(u)
          /\ label_session[u].begun \in Int
    BY <1>1, <1>2 DEF CategoriesTyped, LabelSession
  <2>2. InProgress(u)'
    BY <2>1, <1>2 DEF InProgress
  <2>3. Evident(u)'
    <3> SUFFICES ASSUME label_session[u].op = "post", NEW e2 \in label_session[u].known
                 PROVE  /\ e2.source = "user_rule" => HasRule(label_session[u].row.text)'
                        /\ e2.source = "merchant_map" => HasMerchant(label_session[u].row.merchant)'
                        /\ e2.source = "verified_correction"
                             => HasCorrection(label_session[u].row.text)'
                        /\ Classification!Strength[e2.source] <= IF label_session[u].step = "insert"
                             THEN Classification!Strength[label_session[u].row.source]
                             ELSE Ceiling[label_session[u].step]
      BY <2>1, Zenon DEF Evident
    <3> QED BY <2>1 DEF Evident
  <2> QED BY <2>2, <2>3
<1> QED BY <1>1, <1>2

\* Without a write to it a layer keeps what it knows.
LEMMA Unchanging ==
  /\ UNCHANGED label_rules => \A text : HasRule(text) => HasRule(text)'
  /\ UNCHANGED label_learned => \A m : HasMerchant(m) => HasMerchant(m)'
  /\ UNCHANGED label_corrections => \A text : HasCorrection(text) => HasCorrection(text)'
BY DEF HasRule, HasMerchant, HasCorrection

\* A request that ends leaves the others as they were.
LEMMA LabelFinishStep ==
  ASSUME Classification!CategorizationAssumption, CategoriesInv, NEW s \in Sessions,
         Classification!Finish(s), UNCHANGED label_stamp,
         \A u \in Sessions : u # s =>
            /\ label_session[u].op = "post" => label_transaction'[label_session[u].txn].present
                 = label_transaction[label_session[u].txn].present
            /\ label_session[u].op = "correct" => label_transaction'[label_session[u].txn].present
                 = label_transaction[label_session[u].txn].present
            /\ label_session[u].step = "locked" => label_transaction'[label_session[u].txn]
                 = label_transaction[label_session[u].txn],
         \A text : HasRule(text) => HasRule(text)',
         \A m : HasMerchant(m) => HasMerchant(m)',
         \A text : HasCorrection(text) => HasCorrection(text)'
  PROVE  label_session' \in [Sessions -> LabelSession] /\ PostingsApart'
         /\ \A u \in Sessions : InProgress(u)' /\ Evident(u)'
<1>0. CategoriesTyped /\ PostingsApart /\ \A u \in Sessions : InProgress(u) /\ Evident(u)
  BY DEF CategoriesInv
<1>1. Classification!Idle \in LabelSession /\ Classification!Idle.op = "idle"
        /\ Classification!Idle.step = "idle" /\ Classification!Idle.known = {}
  BY RestTyped
<1>2. label_session' = [label_session EXCEPT ![s] = Classification!Idle]
  BY DEF Classification!Finish
<1>3. label_stamp \in Int /\ label_stamp' \in Int /\ label_stamp <= label_stamp'
  BY <1>0 DEF CategoriesTyped, Classification!CategorizationAssumption
<1>4. /\ label_session' \in [Sessions -> LabelSession]
      /\ label_session'[s] = Classification!Idle /\ \A u \in Sessions : u # s
           => label_session'[u] = label_session[u]
      /\ \A u \in Sessions : u # s => InProgress(u)' /\ Evident(u)'
  BY <1>0, <1>1, <1>2, <1>3, SessionsKept
<1>5. InProgress(s)' /\ Evident(s)'
  BY <1>1, <1>4 DEF InProgress, Evident
<1>6. PostingsApart'
  BY <1>0, <1>1, <1>4 DEF PostingsApart
<1> QED BY <1>4, <1>5, <1>6

\* A request that rolls back keeps the invariant.
LEMMA LabelRollbackStep ==
  ASSUME Classification!CategorizationAssumption, CategoriesInv, NEW s \in Sessions,
         Classification!Rollback(s)
  PROVE  CategoriesInv'
<1>1. Classification!Finish(s) /\ UNCHANGED <<label_transaction, label_rules, label_learned,
        label_corrections, label_stamp>>
  BY DEF Classification!Rollback
<1>2. label_session' \in [Sessions -> LabelSession] /\ PostingsApart'
        /\ \A u \in Sessions : InProgress(u)' /\ Evident(u)'
  BY <1>1, LabelFinishStep, Unchanging
<1>3. CategoriesTyped'
  BY <1>1, <1>2 DEF CategoriesInv, CategoriesTyped, Categorized
<1>4. PastCorrections'
  <2>1. label_stamp' \in Int /\ label_stamp <= label_stamp'
    BY <1>1 DEF CategoriesInv, CategoriesTyped, Classification!CategorizationAssumption
  <2> QED BY <1>1, <2>1, PastKept DEF CategoriesInv, PastCorrections
<1> QED BY <1>2, <1>3, <1>4 DEF CategoriesInv, PastCorrections

\* A posting with a category of the owner's keeps the invariant.
LEMMA SelectedStep ==
  ASSUME Classification!CategorizationAssumption, CategoriesInv, NEW t \in Transactions,
         NEW text \in Texts,
         NEW m \in Merchants \cup {None}, NEW c \in Labels, Classification!PostSelected(t, text, m, c)
  PROVE  CategoriesInv'
<1> DEFINE r == Classification!NewRow(text, m, c, "user_override")
<1>0. /\ CategoriesTyped /\ PostingsApart /\ PastCorrections /\ \A u \in Sessions : InProgress(u)
           /\ Evident(u)
      /\ UNCHANGED <<label_rules, label_learned, label_corrections, label_session, label_stamp>>
      /\ label_transaction' = [label_transaction EXCEPT ![t] = r]
      /\ ~label_transaction[t].present /\ \A u \in Sessions : label_session[u].op = "post"
           => label_session[u].txn # t
  BY DEF CategoriesInv, PastCorrections, Classification!PostSelected, Classification!Free
<1>1. r \in Classification!Row /\ Categorized(r) /\ r.present
  BY DEF Classification!NewRow, Classification!Row, Classification!Source, Categorized,
     Classification!CategorizationAssumption
<1> HIDE DEF r
<1>2. label_transaction' \in [Transactions -> Classification!Row] /\ label_transaction'[t] = r
        /\ \A u \in Transactions : u # t => label_transaction'[u] = label_transaction[u]
  BY <1>0, <1>1 DEF CategoriesTyped
<1>3. CategoriesTyped'
  <2>1. \A u \in Transactions : Categorized(label_transaction'[u])
    BY <1>0, <1>1, <1>2 DEF CategoriesTyped
  <2> QED BY <2>1, <1>0, <1>2 DEF CategoriesTyped
<1>4. PostingsApart'
  BY <1>0 DEF PostingsApart
<1>5. ASSUME NEW u \in Sessions PROVE InProgress(u)' /\ Evident(u)'
  <2>1. InProgress(u) /\ Evident(u) /\ label_session[u].txn \in Transactions
          /\ label_session' = label_session
    BY <1>0 DEF CategoriesTyped, LabelSession
  <2>2. label_session[u].op \in {"post", "correct", "idle"}
    BY <1>0 DEF CategoriesTyped, LabelSession
  <2>3. label_session[u].step = "locked" => label_session[u].op = "correct"
    BY <2>1, <2>2 DEF InProgress
  <2>4. label_session[u].op # "idle" => label_session[u].txn # t
    BY <2>1, <2>2, <1>0 DEF InProgress
  <2>5. InProgress(u)'
    BY <2>1, <2>2, <2>3, <2>4, <1>0, <1>2 DEF InProgress
  <2>6. Evident(u)'
    BY <2>1, <1>0 DEF Evident, HasRule, HasMerchant, HasCorrection
  <2> QED BY <2>5, <2>6
<1>6. PastCorrections'
  <2>1. label_stamp' \in Int /\ label_stamp <= label_stamp'
    BY <1>0 DEF CategoriesTyped, Classification!CategorizationAssumption
  <2> QED BY <1>0, <1>2, <2>1, PastKept
<1> QED BY <1>3, <1>4, <1>5, <1>6 DEF CategoriesInv, PastCorrections

\* A posting that begins keeps the invariant.
LEMMA BeginPostStep ==
  ASSUME Classification!CategorizationAssumption, CategoriesInv, NEW s \in Sessions,
         NEW t \in Transactions, NEW text \in Texts,
         NEW m \in Merchants \cup {None}, NEW hint \in Labels \cup {None},
           Classification!BeginPost(s, t, text, m, hint)
  PROVE  CategoriesInv'
<1> DEFINE r == Classification!NewRow(text, m, None, "none")
           e == [Classification!Idle EXCEPT !.op = "post", !.step = "rule", !.txn = t, !.choice = hint,
                             !.known = Classification!Evidence(text, m), !.row = r]
<1>0. /\ CategoriesTyped /\ PostingsApart /\ PastCorrections /\ \A u \in Sessions : InProgress(u)
           /\ Evident(u)
      /\ UNCHANGED <<label_transaction, label_rules, label_learned, label_corrections, label_stamp>>
      /\ label_session' = [label_session EXCEPT ![s] = e]
      /\ ~label_transaction[t].present /\ \A u \in Sessions : label_session[u].op = "post"
           => label_session[u].txn # t
      /\ label_session[s].op = "idle"
  BY DEF CategoriesInv, PastCorrections, Classification!BeginPost, Classification!Free
<1>1. r \in Classification!Row /\ Categorized(r) /\ r.present /\ r.text = text /\ r.merchant = m
  BY DEF Classification!NewRow, Classification!Row, Classification!Source, Categorized,
     Classification!CategorizationAssumption
<1> HIDE DEF r
<1>2. /\ label_rules \in Seq(Classification!Rule)
      /\ label_learned \in [Merchants -> Labels \cup {None}]
      /\ label_corrections \in Seq(Classification!Correction)
  BY <1>0 DEF CategoriesTyped
<1>3. ASSUME NEW x \in Classification!Evidence(text, m)
      PROVE  /\ x \in [category: Labels, source: {"user_rule", "merchant_map", "verified_correction"}]
             /\ x.source = "user_rule" => HasRule(text)
             /\ x.source = "merchant_map" => HasMerchant(m)
             /\ x.source = "verified_correction" => HasCorrection(text)
             /\ Classification!Strength[x.source] <= 4
  <2>1. x \in {Classification!ByRule(text), Classification!ByMerchant(m),
          Classification!ByCorrection(text)} /\ x # Classification!NoMatch
    BY DEF Classification!Evidence
  <2>2. CASE x = Classification!ByRule(text)
    <3>1. HasRule(text) /\ \E c \in Labels : x = Classification!Assigned(c, "user_rule")
      BY <2>1, <2>2, <1>2, RuleFound
    <3> QED BY <3>1 DEF Classification!Assigned, Classification!Strength
  <2>3. CASE x = Classification!ByMerchant(m)
    <3>1. HasMerchant(m) /\ \E c \in Labels : x = Classification!Assigned(c, "merchant_map")
      BY <2>1, <2>3, <1>2, MerchantFound
    <3> QED BY <3>1 DEF Classification!Assigned, Classification!Strength
  <2>4. CASE x = Classification!ByCorrection(text)
    <3>1. HasCorrection(text) /\ \E c \in Labels : x = Classification!Assigned(c, "verified_correction")
      BY <2>1, <2>4, <1>2, CorrectionFound
    <3> QED BY <3>1 DEF Classification!Assigned, Classification!Strength
  <2> QED BY <2>1, <2>2, <2>3, <2>4
<1>4. /\ e \in LabelSession /\ e.op = "post" /\ e.step = "rule" /\ e.txn = t /\ e.row = r
      /\ e.known = Classification!Evidence(text, m)
  <2>1. Classification!Evidence(text, m) \in SUBSET [category: Labels,
          source: {"user_rule", "merchant_map", "verified_correction"}]
    BY <1>3
  <2> QED BY <2>1, <1>1, RestTyped DEF LabelSession
<1> HIDE DEF e
<1>5. label_stamp' \in Int /\ label_stamp <= label_stamp' /\ label_stamp \in Int
  BY <1>0 DEF CategoriesTyped, Classification!CategorizationAssumption
<1>6. /\ label_session' \in [Sessions -> LabelSession]
      /\ label_session'[s] = e /\ \A u \in Sessions : u # s => label_session'[u] = label_session[u]
      /\ \A u \in Sessions : u # s => InProgress(u)' /\ Evident(u)'
  BY <1>0, <1>4, <1>5, SessionsKept, Unchanging
<1>7. InProgress(s)'
  BY <1>6, <1>4, <1>1, <1>0 DEF InProgress
<1>8. Evident(s)'
  <2>1. /\ HasRule(text) => HasRule(text)'
        /\ HasMerchant(m) => HasMerchant(m)'
        /\ HasCorrection(text) => HasCorrection(text)'
    BY <1>0, Unchanging
  <2>2. /\ label_session'[s].known = Classification!Evidence(text, m)
        /\ label_session'[s].row.text = text /\ label_session'[s].row.merchant = m
        /\ label_session'[s].step = "rule"
    BY <1>6, <1>4, <1>1
  <2>3. Ceiling["rule"] = 4
    BY DEF Ceiling
  <2> SUFFICES ASSUME NEW x \in Classification!Evidence(text, m)
               PROVE  /\ x.source = "user_rule" => HasRule(text)'
                      /\ x.source = "merchant_map" => HasMerchant(m)'
                      /\ x.source = "verified_correction" => HasCorrection(text)'
                      /\ Classification!Strength[x.source] <= Ceiling["rule"]
    BY <2>2, Zenon DEF Evident
  <2> QED BY <1>3, <2>1, <2>3
<1>9. PostingsApart'
  BY <1>0, <1>4, <1>6 DEF PostingsApart
<1>10. CategoriesTyped'
  BY <1>0, <1>6 DEF CategoriesTyped, Categorized
<1>11. PastCorrections'
  BY <1>0, <1>5, PastKept
<1> QED BY <1>6, <1>7, <1>8, <1>9, <1>10, <1>11 DEF CategoriesInv, PastCorrections

\* Asking one layer keeps the invariant: a stronger one had nothing to say.
LEMMA ClassifyStep ==
  ASSUME Classification!CategorizationAssumption, CategoriesInv, NEW s \in Sessions,
         Classification!Classify(s)
  PROVE  CategoriesInv'
<1> PICK f, o, r, k : f = Classification!Layer(s) /\ o = label_session[s]
      /\ r = label_session[s].row /\ k = label_session[s].step
  OBVIOUS
<1>0. /\ CategoriesTyped /\ PostingsApart /\ PastCorrections /\ \A u \in Sessions : InProgress(u)
           /\ Evident(u)
      /\ UNCHANGED <<label_transaction, label_rules, label_learned, label_corrections, label_stamp>>
      /\ o.op = "post" /\ k # "insert"
      /\ label_session' = [label_session EXCEPT ![s] =
           IF f = Classification!NoMatch THEN [o EXCEPT !.step = Classification!NextLayer[o.step]]
           ELSE [o EXCEPT !.step = "insert", !.row.category = f.category, !.row.source = f.source]]
  <2>1. CategoriesTyped /\ PostingsApart /\ PastCorrections /\ \A u \in Sessions : InProgress(u)
          /\ Evident(u)
    BY DEF CategoriesInv, PastCorrections
  <2>2. UNCHANGED <<label_transaction, label_rules, label_learned, label_corrections, label_stamp>>
          /\ label_session[s].op = "post" /\ label_session[s].step # "insert"
    BY DEF Classification!Classify
  <2>3. label_session' = [label_session EXCEPT ![s] =
           IF Classification!Layer(s) = Classification!NoMatch
             THEN [label_session[s] EXCEPT !.step = Classification!NextLayer[label_session[s].step]]
             ELSE [label_session[s] EXCEPT !.step = "insert",
             !.row.category = Classification!Layer(s).category,
               !.row.source = Classification!Layer(s).source]]
    BY DEF Classification!Classify
  <2> QED BY <2>1, <2>2, <2>3
<1>1. o \in LabelSession /\ r \in Classification!Row
        /\ k \in {"rule", "merchant", "exact", "recall"} /\ InProgress(s) /\ Evident(s)
      /\ o.step = k /\ o.row = r
  <2>1. o \in LabelSession /\ InProgress(s) /\ Evident(s)
    BY <1>0 DEF CategoriesTyped
  <2>2. r \in Classification!Row
    BY <2>1 DEF LabelSession
  <2>3. k \in {"rule", "merchant", "exact", "recall", "insert"}
    BY <2>1, <1>0 DEF InProgress
  <2> QED BY <2>1, <2>2, <2>3, <1>0
<1>2. /\ label_rules \in Seq(Classification!Rule)
      /\ label_learned \in [Merchants -> Labels \cup {None}]
      /\ label_corrections \in Seq(Classification!Correction)
      /\ r.text \in Texts /\ r.merchant \in Merchants \cup {None}
  BY <1>0, <1>1 DEF CategoriesTyped, Classification!Row
<1> DEFINE S == [rule |-> "user_rule", merchant |-> "merchant_map", exact |-> "verified_correction",
      recall |-> "retrieval"]
<1>3. /\ f # Classification!NoMatch => \E c \in Labels : f = Classification!Assigned(c, S[k])
      /\ f = Classification!NoMatch => ((k = "rule" => ~HasRule(r.text))
                        /\ (k = "merchant" => ~HasMerchant(r.merchant))
                        /\ (k = "exact" => ~HasCorrection(r.text)))
  <2>1. CASE k = "rule"
    <3>1. f = Classification!ByRule(r.text)
      BY <2>1 DEF Classification!Layer
    <3> QED BY <3>1, <2>1, <1>2, RuleFound
  <2>2. CASE k = "merchant"
    <3>1. f = Classification!ByMerchant(r.merchant)
      BY <2>2 DEF Classification!Layer
    <3> QED BY <3>1, <2>2, <1>2, MerchantFound
  <2>3. CASE k = "exact"
    <3>1. f = Classification!ByCorrection(r.text)
      BY <2>3 DEF Classification!Layer
    <3> QED BY <3>1, <2>3, <1>2, CorrectionFound
  <2>4. CASE k = "recall"
    <3>1. f = Classification!ByRetrieval(r.text)
      BY <2>4 DEF Classification!Layer
    <3> QED BY <3>1, <2>4, <1>2, RetrievalFound
  <2> QED BY <2>1, <2>2, <2>3, <2>4, <1>1
<1>4. ASSUME NEW x \in o.known
      PROVE  /\ x \in [category: Labels, source: {"user_rule", "merchant_map", "verified_correction"}]
             /\ x.source = "user_rule" => HasRule(r.text)
             /\ x.source = "merchant_map" => HasMerchant(r.merchant)
             /\ x.source = "verified_correction" => HasCorrection(r.text)
             /\ Classification!Strength[x.source] <= Ceiling[k]
  <2>1. x \in [category: Labels, source: {"user_rule", "merchant_map", "verified_correction"}]
    BY <1>1 DEF LabelSession
  <2>2. x \in label_session[s].known /\ label_session[s].op = "post"
    BY <1>0
  <2>3. /\ x.source = "user_rule" => HasRule(label_session[s].row.text)
        /\ x.source = "merchant_map" => HasMerchant(label_session[s].row.merchant)
        /\ x.source = "verified_correction" => HasCorrection(label_session[s].row.text)
    BY <1>1, <2>2 DEF Evident
  <2>4. Classification!Strength[x.source] <= IF label_session[s].step = "insert"
          THEN Classification!Strength[label_session[s].row.source]
          ELSE Ceiling[label_session[s].step]
    BY <1>1, <2>2 DEF Evident
  <2>5. Classification!Strength[x.source] <= Ceiling[k]
    BY <2>4, <1>0
  <2> QED BY <2>1, <2>3, <2>5
<1>5. label_stamp' \in Int /\ label_stamp <= label_stamp' /\ label_stamp \in Int
  BY <1>0 DEF CategoriesTyped, Classification!CategorizationAssumption
<1> DEFINE Goal(e) ==
      /\ label_session' = [label_session EXCEPT ![s] = e] /\ e \in LabelSession
      /\ e.op = "post" /\ e.step \in {"rule", "merchant", "exact", "recall", "insert"} /\ e.txn = o.txn
      /\ e.row.present /\ Categorized(e.row) /\ e.row.text = r.text /\ e.row.merchant = r.merchant
      /\ e.known = o.known
      /\ \A x \in o.known : Classification!Strength[x.source] <= IF e.step = "insert"
           THEN Classification!Strength[e.row.source] ELSE Ceiling[e.step]
<1>6. \E e : Goal(e)
  <2>1. r.present /\ Categorized(r)
    BY <1>1, <1>0 DEF InProgress
  <2>2. CASE f = Classification!NoMatch
    <3> PICK n : n = Classification!NextLayer[k]
      OBVIOUS
    <3>1. n \in {"merchant", "exact", "recall", "insert"}
      BY <1>1 DEF Classification!NextLayer
    <3> DEFINE e == [o EXCEPT !.step = n]
    <3>2. e \in LabelSession /\ e.op = "post" /\ e.step = n /\ e.txn = o.txn /\ e.row = r
            /\ e.known = o.known
      BY <1>1, <1>0, <3>1 DEF LabelSession
    <3>3. label_session' = [label_session EXCEPT ![s] = e]
      BY <1>0, <1>1, <2>2
    <3> HIDE DEF e
    <3>5. Ceiling["merchant"] = 3 /\ Ceiling["exact"] = 2 /\ Ceiling["recall"] = 1
            /\ Classification!Strength["none"] = 0
          /\ Classification!Strength["user_rule"] = 4 /\ Classification!Strength["merchant_map"] = 3
          /\ Classification!Strength["verified_correction"] = 2
          /\ Ceiling["rule"] = 4
      BY DEF Ceiling, Classification!Strength
    <3>6. \A x \in o.known : x.source \in {"user_rule", "merchant_map", "verified_correction"}
      BY <1>4
    <3>8. ASSUME NEW x \in o.known PROVE Classification!Strength[x.source] <= IF n = "insert"
                 THEN Classification!Strength[r.source] ELSE Ceiling[n]
      <4>1. CASE k = "rule"
        <5>0. n = "merchant"
          BY <4>1 DEF Classification!NextLayer
        <5>1. n = "merchant" /\ x.source # "user_rule"
          BY <5>0, <4>1, <1>3, <2>2, <1>4
        <5> QED BY <5>1, <3>5, <3>6
      <4>2. CASE k = "merchant"
        <5>0. n = "exact"
          BY <4>2 DEF Classification!NextLayer
        <5>1. n = "exact" /\ x.source # "merchant_map"
          BY <5>0, <4>2, <1>3, <2>2, <1>4
        <5>2. x.source # "user_rule"
          BY <4>2, <1>4, <3>5
        <5> QED BY <5>1, <5>2, <3>5, <3>6
      <4>3. CASE k = "exact"
        <5>0. n = "recall"
          BY <4>3 DEF Classification!NextLayer
        <5>1. n = "recall" /\ x.source # "verified_correction"
          BY <5>0, <4>3, <1>3, <2>2, <1>4
        <5>2. x.source # "user_rule" /\ x.source # "merchant_map"
          BY <4>3, <1>4, <3>5
        <5> QED BY <5>1, <5>2, <3>5, <3>6
      <4>4. CASE k = "recall"
        BY <4>4, <1>4, <3>5, <3>6
      <4> QED BY <4>1, <4>2, <4>3, <4>4, <1>1
    <3>9. Goal(e)
      BY <3>2, <3>3, <3>8, <3>1, <2>1
    <3> QED BY <3>9
  <2>3. CASE f # Classification!NoMatch
    <3>1. PICK c \in Labels : f = Classification!Assigned(c, S[k])
      BY <1>3, <2>3
    <3> PICK src : src = S[k]
      OBVIOUS
    <3>2. f.category = c /\ f.source = src /\ src \in {"user_rule", "merchant_map",
            "verified_correction", "retrieval"}
          /\ c # None
      BY <3>1, <1>1 DEF Classification!Assigned, Classification!CategorizationAssumption
    <3> DEFINE q == [r EXCEPT !.category = c, !.source = src]
               e == [o EXCEPT !.step = "insert", !.row = q]
    <3>3. q \in Classification!Row /\ q.present /\ Categorized(q) /\ q.text = r.text
            /\ q.merchant = r.merchant /\ q.source = src
      BY <3>2, <1>1, <2>1 DEF Classification!Row, Classification!Source, Categorized
    <3>4. [o EXCEPT !.step = "insert", !.row.category = f.category, !.row.source = f.source] = e
      BY <3>2, <1>1 DEF LabelSession, Classification!Row
    <3> HIDE DEF q
    <3>5. e \in LabelSession /\ e.op = "post" /\ e.step = "insert" /\ e.txn = o.txn /\ e.row = q
            /\ e.known = o.known
      BY <3>3, <1>1, <1>0 DEF LabelSession
    <3>6. label_session' = [label_session EXCEPT ![s] = e]
      BY <3>4, <1>0, <2>3
    <3>7. Ceiling[k] = Classification!Strength[src]
      BY <1>1 DEF Ceiling, Classification!Strength
    <3> HIDE DEF e
    <3>8. Goal(e)
      BY <3>3, <3>5, <3>6, <3>7, <1>4
    <3> QED BY <3>8
  <2> QED BY <2>2, <2>3
<1>7. PICK e : Goal(e)
  BY <1>6
<1>8. /\ label_session' \in [Sessions -> LabelSession]
      /\ label_session'[s] = e /\ \A u \in Sessions : u # s => label_session'[u] = label_session[u]
      /\ \A u \in Sessions : u # s => InProgress(u)' /\ Evident(u)'
  BY <1>0, <1>5, <1>7, SessionsKept, Unchanging
<1>9. InProgress(s)'
  <2>1. ~label_transaction[o.txn].present
    BY <1>1, <1>0 DEF InProgress
  <2> QED BY <2>1, <1>8, <1>7, <1>0 DEF InProgress
<1>10. Evident(s)'
  <2>1. /\ HasRule(r.text) => HasRule(r.text)'
        /\ HasMerchant(r.merchant) => HasMerchant(r.merchant)'
        /\ HasCorrection(r.text) => HasCorrection(r.text)'
    BY <1>0, Unchanging
  <2>2. /\ label_session'[s].known = o.known /\ label_session'[s].row.text = r.text
        /\ label_session'[s].row.merchant = r.merchant
        /\ label_session'[s].step = e.step /\ label_session'[s].row.source = e.row.source
    BY <1>8, <1>7
  <2> SUFFICES ASSUME NEW x \in o.known
               PROVE  /\ x.source = "user_rule" => HasRule(r.text)'
                      /\ x.source = "merchant_map" => HasMerchant(r.merchant)'
                      /\ x.source = "verified_correction" => HasCorrection(r.text)'
                      /\ Classification!Strength[x.source] <= IF e.step = "insert"
                           THEN Classification!Strength[e.row.source] ELSE Ceiling[e.step]
    BY <2>2, Zenon DEF Evident
  <2> QED BY <1>4, <1>7, <2>1
<1>11. PostingsApart'
  <2>1. e.op = "post" /\ e.step # "locked" /\ e.txn = label_session[s].txn
          /\ label_session[s].op = "post"
    BY <1>0, <1>7
  <2>2. ASSUME NEW a \in Sessions, NEW b \in Sessions, a # b,
               label_session'[a].txn = label_session'[b].txn
        PROVE  /\ ~(label_session'[a].op = "post" /\ label_session'[b].op = "post")
               /\ ~(label_session'[a].step = "locked" /\ label_session'[b].step = "locked")
    <3>0. PostingsApart
      BY <1>0
    <3>1. CASE a = s
      <4>1. label_session'[b] = label_session[b] /\ label_session'[a] = e
              /\ label_session[b].txn = label_session[a].txn
        BY <3>1, <2>2, <2>1, <1>8
      <4> QED BY <4>1, <3>0, <3>1, <2>1, <2>2 DEF PostingsApart
    <3>2. CASE b = s
      <4>1. label_session'[a] = label_session[a] /\ label_session'[b] = e
              /\ label_session[b].txn = label_session[a].txn
        BY <3>2, <2>2, <2>1, <1>8
      <4> QED BY <4>1, <3>0, <3>2, <2>1, <2>2 DEF PostingsApart
    <3>3. CASE a # s /\ b # s
      BY <3>3, <2>2, <1>0, <1>8 DEF PostingsApart
    <3> QED BY <3>1, <3>2, <3>3
  <2> QED BY <2>2 DEF PostingsApart
<1>12. CategoriesTyped'
  BY <1>0, <1>8 DEF CategoriesTyped, Categorized
<1>13. PastCorrections'
  BY <1>0, <1>5, PastKept
<1> QED BY <1>8, <1>9, <1>10, <1>11, <1>12, <1>13 DEF CategoriesInv, PastCorrections

\* Requests stay apart when one moves to a transaction of its own.
LEMMA ApartKept ==
  ASSUME PostingsApart, NEW s \in Sessions, NEW e, label_session'[s] = e,
         \A u \in Sessions : u # s => label_session'[u] = label_session[u],
         \A u \in Sessions : u # s /\ label_session[u].txn = e.txn =>
            /\ ~(e.op = "post" /\ label_session[u].op = "post")
            /\ ~(e.step = "locked" /\ label_session[u].step = "locked")
  PROVE  PostingsApart'
<1> SUFFICES ASSUME NEW a \in Sessions, NEW b \in Sessions, a # b,
                    label_session'[a].txn = label_session'[b].txn
             PROVE  /\ ~(label_session'[a].op = "post" /\ label_session'[b].op = "post")
                    /\ ~(label_session'[a].step = "locked" /\ label_session'[b].step = "locked")
  BY DEF PostingsApart
<1>1. CASE a = s
  BY <1>1
<1>2. CASE b = s
  BY <1>2
<1>3. CASE a # s /\ b # s
  BY <1>3 DEF PostingsApart
<1> QED BY <1>1, <1>2, <1>3

\* What a request does says whether it has its transaction and its lock.
LEMMA Doing ==
  ASSUME CategoriesInv, NEW u \in Sessions
  PROVE  /\ label_session[u] \in LabelSession /\ label_session[u].txn \in Transactions
         /\ label_session[u].row \in Classification!Row
         /\ label_session[u].op = "post" => ~label_transaction[label_session[u].txn].present
         /\ label_session[u].op = "correct" => label_transaction[label_session[u].txn].present
         /\ label_session[u].step \in {"locked", "wait"} => label_session[u].op = "correct"
         /\ label_session[u].step = "locked"
              => label_session[u].row = label_transaction[label_session[u].txn]
<1>1. label_session[u] \in LabelSession
  BY DEF CategoriesInv, CategoriesTyped
<1>2. label_session[u].op \in {"idle", "post", "correct"} /\ label_session[u].txn \in Transactions
        /\ label_session[u].row \in Classification!Row
  BY <1>1 DEF LabelSession
<1>3. InProgress(u)
  BY DEF CategoriesInv
<1> QED BY <1>1, <1>2, <1>3 DEF InProgress

\* A posting that commits keeps the invariant, and its category is as strong as what was known.
LEMMA InsertStep ==
  ASSUME Classification!CategorizationAssumption, CategoriesInv, NEW s \in Sessions,
         Classification!Insert(s)
  PROVE  /\ CategoriesInv'
         /\ \A e \in label_session[s].known
              : Classification!Strength[e.source] <= Classification!Strength[label_transaction'[label_session[s].txn].source]
<1> PICK t, r, h : t = label_session[s].txn /\ r = label_session[s].row /\ h = label_session[s].choice
  OBVIOUS
<1> DEFINE q == IF r.category = None /\ h # None THEN [r EXCEPT !.category = h, !.source = "model"]
                                                 ELSE r
<1>0. /\ CategoriesTyped /\ PostingsApart /\ PastCorrections /\ \A u \in Sessions : InProgress(u)
           /\ Evident(u)
      /\ UNCHANGED <<label_rules, label_learned, label_corrections, label_stamp>>
      /\ label_session[s].op = "post" /\ label_session[s].step = "insert"
      /\ label_transaction' = [label_transaction EXCEPT ![t] = q] /\ Classification!Finish(s)
  <2>1. CategoriesTyped /\ PostingsApart /\ PastCorrections /\ \A u \in Sessions : InProgress(u)
          /\ Evident(u)
    BY DEF CategoriesInv, PastCorrections
  <2> QED BY <2>1 DEF Classification!Insert
<1>1. t \in Transactions /\ r \in Classification!Row /\ h \in Labels \cup {None}
        /\ ~label_transaction[t].present /\ r.present /\ Categorized(r)
  BY <1>0, Doing DEF CategoriesTyped, LabelSession, InProgress
<1>2. q \in Classification!Row /\ Categorized(q) /\ q.present
  <2>1. CASE r.category = None /\ h # None
    BY <2>1, <1>1 DEF Classification!Row, Classification!Source, Categorized
  <2>2. CASE ~(r.category = None /\ h # None)
    BY <2>2, <1>1
  <2> QED BY <2>1, <2>2
<1>3. \A e \in label_session[s].known
        : Classification!Strength[e.source] <= Classification!Strength[q.source]
  <2>1. \A e \in label_session[s].known
          : Classification!Strength[e.source] <= Classification!Strength[r.source]
    BY <1>0 DEF Evident
  <2>2. CASE r.category = None /\ h # None
    <3>1. r.source = "none" /\ q.source = "model"
      BY <2>2, <1>1 DEF Categorized, Classification!Row
    <3>2. Classification!Strength["none"] = Classification!Strength["model"]
      BY DEF Classification!Strength
    <3> QED BY <2>1, <3>1, <3>2
  <2>3. CASE ~(r.category = None /\ h # None)
    BY <2>3, <2>1
  <2> QED BY <2>2, <2>3
<1> HIDE DEF q
<1>4. label_transaction' \in [Transactions -> Classification!Row] /\ label_transaction'[t] = q
        /\ \A u \in Transactions : u # t => label_transaction'[u] = label_transaction[u]
  BY <1>0, <1>1, <1>2 DEF CategoriesTyped
<1>5. \A u \in Sessions : u # s =>
            /\ label_session[u].op = "post" => label_session[u].txn # t
                 /\ label_session[u].txn \in Transactions
            /\ label_session[u].op = "correct" => label_session[u].txn # t
                 /\ label_session[u].txn \in Transactions
            /\ label_session[u].step = "locked" => label_session[u].txn # t
                 /\ label_session[u].txn \in Transactions
  BY <1>0, <1>1, Doing DEF PostingsApart
<1>6. \A u \in Sessions : u # s =>
            /\ label_session[u].op = "post" => label_transaction'[label_session[u].txn].present
                 = label_transaction[label_session[u].txn].present
            /\ label_session[u].op = "correct" => label_transaction'[label_session[u].txn].present
                 = label_transaction[label_session[u].txn].present
            /\ label_session[u].step = "locked" => label_transaction'[label_session[u].txn]
                 = label_transaction[label_session[u].txn]
  BY <1>4, <1>5
<1>7. label_session' \in [Sessions -> LabelSession] /\ PostingsApart'
        /\ \A u \in Sessions : InProgress(u)' /\ Evident(u)'
  BY <1>0, <1>6, LabelFinishStep, Unchanging
<1>8. CategoriesTyped'
  <2>1. \A u \in Transactions : Categorized(label_transaction'[u])
    BY <1>0, <1>2, <1>4 DEF CategoriesTyped
  <2> QED BY <2>1, <1>0, <1>4, <1>7 DEF CategoriesTyped
<1>9. PastCorrections'
  <2>1. label_stamp' \in Int /\ label_stamp <= label_stamp'
    BY <1>0 DEF CategoriesTyped, Classification!CategorizationAssumption
  <2> QED BY <2>1, <1>0, <1>1, <1>4, PastKept
<1> QED BY <1>3, <1>4, <1>7, <1>8, <1>9 DEF CategoriesInv, PastCorrections

\* A new rule keeps the invariant.
LEMMA CreateRuleStep ==
  ASSUME Classification!CategorizationAssumption, CategoriesInv, NEW r \in Classification!Rule,
         Classification!CreateRule(r)
  PROVE  CategoriesInv'
<1>0. /\ CategoriesTyped /\ PostingsApart /\ PastCorrections /\ \A u \in Sessions : InProgress(u)
           /\ Evident(u)
      /\ UNCHANGED <<label_transaction, label_learned, label_corrections, label_session, label_stamp>>
      /\ label_rules' = Append(label_rules, r)
  BY DEF CategoriesInv, PastCorrections, Classification!CreateRule
<1>1. label_rules' \in Seq(Classification!Rule)
        /\ \A i \in DOMAIN label_rules : i \in DOMAIN label_rules' /\ label_rules'[i] = label_rules[i]
  <2>1. label_rules \in Seq(Classification!Rule)
    BY <1>0 DEF CategoriesTyped
  <2> QED BY <1>0, <2>1
<1>2. CategoriesTyped'
  BY <1>0, <1>1 DEF CategoriesTyped, Categorized
<1>3. PostingsApart'
  BY <1>0 DEF PostingsApart
<1>4. \A text : HasRule(text) => HasRule(text)'
  BY <1>1 DEF HasRule
<1>5. (\A m : HasMerchant(m) => HasMerchant(m)')
        /\ (\A text : HasCorrection(text) => HasCorrection(text)')
  BY <1>0, Unchanging
<1>6. ASSUME NEW u \in Sessions PROVE InProgress(u)' /\ Evident(u)'
  <2>1. InProgress(u)'
    BY <1>0 DEF InProgress, Categorized
  <2>2. Evident(u)'
    <3>1. Evident(u) /\ label_session' = label_session
      BY <1>0
    <3> QED BY <3>1, <1>4, <1>5 DEF Evident
  <2> QED BY <2>1, <2>2
<1>7. PastCorrections'
  <2>1. label_stamp' \in Int /\ label_stamp <= label_stamp'
    BY <1>0 DEF CategoriesTyped, Classification!CategorizationAssumption
  <2> QED BY <2>1, <1>0, PastKept
<1> QED BY <1>2, <1>3, <1>6, <1>7 DEF CategoriesInv, PastCorrections

\* A correction that begins keeps the invariant.
LEMMA BeginCorrectStep ==
  ASSUME Classification!CategorizationAssumption, CategoriesInv, NEW s \in Sessions,
         NEW t \in Transactions, NEW c \in Labels, Classification!BeginCorrect(s, t, c)
  PROVE  CategoriesInv'
<1> DEFINE e == [Classification!Idle EXCEPT !.op = "correct", !.step = "wait", !.txn = t,
      !.choice = c, !.begun = label_stamp + 1]
<1>0. /\ CategoriesTyped /\ PostingsApart /\ PastCorrections /\ \A u \in Sessions : InProgress(u)
           /\ Evident(u)
      /\ UNCHANGED <<label_transaction, label_rules, label_learned, label_corrections>>
      /\ label_transaction[t].present /\ label_stamp < LastStamp /\ label_stamp' = label_stamp + 1
      /\ label_session' = [label_session EXCEPT ![s] = e]
  BY DEF CategoriesInv, PastCorrections, Classification!BeginCorrect
<1>1. label_stamp \in Nat /\ label_stamp + 1 \in 0..LastStamp /\ label_stamp' \in Int
        /\ label_stamp <= label_stamp' /\ label_stamp \in Int
      /\ label_stamp + 1 \in 1..(label_stamp + 1)
  BY <1>0 DEF CategoriesTyped, Classification!CategorizationAssumption
<1>2. e \in LabelSession /\ e.op = "correct" /\ e.step = "wait" /\ e.txn = t /\ e.choice = c
        /\ e.begun = label_stamp + 1
  BY <1>1, RestTyped DEF LabelSession
<1> HIDE DEF e
<1>3. /\ label_session' \in [Sessions -> LabelSession]
      /\ label_session'[s] = e /\ \A u \in Sessions : u # s => label_session'[u] = label_session[u]
      /\ \A u \in Sessions : u # s => InProgress(u)' /\ Evident(u)'
  BY <1>0, <1>1, <1>2, SessionsKept, Unchanging
<1>4. InProgress(s)' /\ Evident(s)'
  BY <1>0, <1>1, <1>2, <1>3 DEF InProgress, Evident
<1>5. PostingsApart'
  BY <1>0, <1>2, <1>3, ApartKept
<1>6. CategoriesTyped'
  BY <1>0, <1>1, <1>3 DEF CategoriesTyped, Categorized
<1>7. PastCorrections'
  BY <1>0, <1>1, PastKept
<1> QED BY <1>3, <1>4, <1>5, <1>6, <1>7 DEF CategoriesInv, PastCorrections

\* A correction that gets its row keeps the invariant.
LEMMA CorrectLockStep ==
  ASSUME Classification!CategorizationAssumption, CategoriesInv, NEW s \in Sessions,
         Classification!LockTransaction(s)
  PROVE  CategoriesInv'
<1> PICK t : t = label_session[s].txn
  OBVIOUS
<1> DEFINE e == [label_session[s] EXCEPT !.step = "locked", !.row = label_transaction[t]]
<1>0. /\ CategoriesTyped /\ PostingsApart /\ PastCorrections /\ \A u \in Sessions : InProgress(u)
           /\ Evident(u)
      /\ UNCHANGED <<label_transaction, label_rules, label_learned, label_corrections, label_stamp>>
      /\ label_session[s].step = "wait" /\ \A u \in Sessions : ~(label_session[u].step = "locked"
           /\ label_session[u].txn = t)
      /\ label_session' = [label_session EXCEPT ![s] = e]
  BY DEF CategoriesInv, PastCorrections, Classification!LockTransaction, Classification!Locked
<1>1. /\ label_session[s] \in LabelSession /\ t \in Transactions /\ label_session[s].op = "correct"
      /\ label_transaction[t].present
      /\ label_session[s].begun \in 1..label_stamp /\ label_session[s].choice \in Labels
  BY <1>0, Doing DEF InProgress
<1>2. label_transaction[t] \in Classification!Row
  BY <1>0, <1>1 DEF CategoriesTyped
<1>3. /\ e \in LabelSession /\ e.op = "correct" /\ e.step = "locked" /\ e.txn = t
      /\ e.row = label_transaction[t]
      /\ e.begun = label_session[s].begun /\ e.choice = label_session[s].choice
  BY <1>1, <1>2 DEF LabelSession
<1> HIDE DEF e
<1>4. label_stamp \in Int /\ label_stamp' \in Int /\ label_stamp <= label_stamp'
  BY <1>0 DEF CategoriesTyped, Classification!CategorizationAssumption
<1>5. /\ label_session' \in [Sessions -> LabelSession]
      /\ label_session'[s] = e /\ \A u \in Sessions : u # s => label_session'[u] = label_session[u]
      /\ \A u \in Sessions : u # s => InProgress(u)' /\ Evident(u)'
  BY <1>0, <1>3, <1>4, SessionsKept, Unchanging
<1>6. InProgress(s)' /\ Evident(s)'
  BY <1>0, <1>1, <1>3, <1>5 DEF InProgress, Evident
<1>7. PostingsApart'
  <2>1. \A u \in Sessions : u # s /\ label_session[u].txn = e.txn =>
            /\ ~(e.op = "post" /\ label_session[u].op = "post")
            /\ ~(e.step = "locked" /\ label_session[u].step = "locked")
    BY <1>0, <1>3
  <2> QED BY <2>1, <1>0, <1>5, ApartKept
<1>8. CategoriesTyped'
  BY <1>0, <1>5 DEF CategoriesTyped, Categorized
<1>9. PastCorrections'
  BY <1>0, <1>4, PastKept
<1> QED BY <1>5, <1>6, <1>7, <1>8, <1>9 DEF CategoriesInv, PastCorrections

\* A correction that commits keeps the invariant: it continues the chain, and the merchant learns
\* it.
LEMMA CorrectStep ==
  ASSUME Classification!CategorizationAssumption, CategoriesInv, NEW s \in Sessions,
         Classification!Correct(s)
  PROVE  CategoriesInv'
<1> PICK t, r, c, b : t = label_session[s].txn /\ r = label_session[s].row
      /\ c = label_session[s].choice /\ b = label_session[s].begun
  OBVIOUS
<1> DEFINE n == Len(label_corrections) + 1
           new == [txn |-> t, text |-> r.text, merchant |-> r.merchant, previous |-> r.category,
             category |-> c,
                   begun |-> b, done |-> label_stamp]
           q == Classification!Recategorized(r, c)
<1>0. /\ CategoriesTyped /\ PostingsApart /\ CommitOrder /\ LearnedLast
      /\ Classification!CorrectionsChain
      /\ \A u \in Sessions : InProgress(u) /\ Evident(u)
      /\ label_session[s].step = "locked" /\ UNCHANGED <<label_rules, label_stamp>>
      /\ label_corrections' = Append(label_corrections, new)
      /\ label_transaction' = [label_transaction EXCEPT ![t] = q]
      /\ Classification!Learn(r.merchant, c) /\ Classification!Finish(s)
  BY DEF CategoriesInv, Classification!Correct
<1>1. /\ t \in Transactions /\ r \in Classification!Row /\ r = label_transaction[t] /\ r.present
      /\ c \in Labels /\ b \in 1..label_stamp
      /\ label_session[s].op = "correct" /\ label_stamp \in 0..LastStamp /\ LastStamp \in Nat
  BY <1>0, Doing DEF InProgress, CategoriesTyped, Classification!CategorizationAssumption
<1>2. q \in Classification!Row /\ q.present /\ Categorized(q) /\ q.category = c
        /\ q.source = "user_override"
  <2>1. r \in [present: BOOLEAN, text: Texts, merchant: Merchants \cup {None},
               category: Labels \cup {None}, source: Classification!Source]
    BY <1>1 DEF Classification!Row
  <2>2. "user_override" \in Classification!Source /\ c \in Labels \cup {None} /\ c # None
    BY <1>1 DEF Classification!Source, Classification!CategorizationAssumption
  <2>3. q = [r EXCEPT !.category = c, !.source = "user_override"]
    BY DEF Classification!Recategorized
  <2> HIDE DEF q
  <2>4. q \in Classification!Row
    BY <2>1, <2>2, <2>3 DEF Classification!Row
  <2>5. q.present /\ q.category = c /\ q.source = "user_override"
    BY <2>1, <2>3, <1>1
  <2> QED BY <2>2, <2>4, <2>5 DEF Categorized
<1>3. b \in 1..LastStamp /\ label_stamp \in 1..LastStamp /\ b <= label_stamp
  BY <1>1
<1>4. new \in Classification!Correction
  BY <1>1, <1>3 DEF Classification!Correction, Classification!Row
<1> USE DEF Classification!CorrectionsChain
<1>5. /\ new.txn = t /\ new.text = r.text /\ new.merchant = r.merchant /\ new.previous = r.category
      /\ new.category = c /\ new.begun = b /\ new.done = label_stamp
  OBVIOUS
<1> HIDE DEF q, new, Classification!CorrectionsChain
<1>6. /\ label_transaction' \in [Transactions -> Classification!Row] /\ label_transaction'[t] = q
      /\ \A u \in Transactions : u # t => label_transaction'[u] = label_transaction[u]
  BY <1>0, <1>1, <1>2 DEF CategoriesTyped
<1>7. /\ label_corrections \in Seq(Classification!Correction) /\ n \in Nat
      /\ DOMAIN label_corrections = 1..(n - 1) /\ n \in 1..n
      /\ label_corrections' \in Seq(Classification!Correction) /\ DOMAIN label_corrections' = 1..n
      /\ label_corrections'[n] = new
      /\ \A i \in 1..(n - 1) : i \in 1..n /\ label_corrections'[i] = label_corrections[i]
           /\ label_corrections[i] \in Classification!Correction
  <2>1. label_corrections \in Seq(Classification!Correction)
    BY <1>0 DEF CategoriesTyped
  <2> QED BY <2>1, <1>0, <1>4
<1> HIDE DEF n
<1>8. /\ r.merchant \in Merchants \cup {None} /\ label_learned \in [Merchants -> Labels \cup {None}]
      /\ label_learned' = IF r.merchant = None THEN label_learned
                                               ELSE [label_learned EXCEPT ![r.merchant] = c]
  BY <1>0, <1>1 DEF CategoriesTyped, Classification!Row, Classification!Learn
<1>9. /\ label_learned' \in [Merchants -> Labels \cup {None}]
      /\ \A m \in Merchants : label_learned'[m] = IF m = r.merchant THEN c ELSE label_learned[m]
  <2>1. CASE r.merchant = None
    BY <2>1, <1>8 DEF Classification!CategorizationAssumption
  <2>2. CASE r.merchant # None
    BY <2>2, <1>8, <1>1
  <2> QED BY <2>1, <2>2
<1>10. /\ \A text : HasRule(text) => HasRule(text)'
       /\ \A text : HasCorrection(text) => HasCorrection(text)'
  <2>1. \A text : HasCorrection(text) => HasCorrection(text)'
    BY <1>7 DEF HasCorrection
  <2> QED BY <2>1, <1>0, Unchanging
<1>11. \A m : HasMerchant(m) => HasMerchant(m)'
  <2> SUFFICES ASSUME NEW m, HasMerchant(m) PROVE HasMerchant(m)'
    OBVIOUS
  <2>1. m # None /\ label_learned[m] # None
    BY DEF HasMerchant
  <2>2. CASE r.merchant = None
    BY <2>1, <2>2, <1>8 DEF HasMerchant
  <2>3. CASE r.merchant # None /\ m = r.merchant
    <3>1. m \in Merchants
      BY <2>3, <1>8
    <3>2. label_learned'[m] = c
      BY <3>1, <2>3, <1>9
    <3> QED BY <3>2, <2>1, <1>1 DEF HasMerchant, Classification!CategorizationAssumption
  <2>4. CASE r.merchant # None /\ m # r.merchant
    <3>1. label_learned' = [label_learned EXCEPT ![r.merchant] = c]
      BY <2>4, <1>8
    <3>2. label_learned'[m] = label_learned[m]
      <4>1. CASE m \in Merchants
        BY <4>1, <2>4, <1>9
      <4>2. CASE m \notin Merchants
        BY <4>2, <3>1, <1>8
      <4> QED BY <4>1, <4>2
    <3> QED BY <3>2, <2>1 DEF HasMerchant
  <2> QED BY <2>2, <2>3, <2>4
<1>12. \A u \in Sessions : u # s =>
            /\ label_session[u].op = "post" => label_transaction'[label_session[u].txn].present
                 = label_transaction[label_session[u].txn].present
            /\ label_session[u].op = "correct" => label_transaction'[label_session[u].txn].present
                 = label_transaction[label_session[u].txn].present
            /\ label_session[u].step = "locked" => label_transaction'[label_session[u].txn]
                 = label_transaction[label_session[u].txn]
  <2> SUFFICES ASSUME NEW u \in Sessions, u # s
               PROVE /\ label_session[u].op = "post"
                      => label_transaction'[label_session[u].txn].present
                        = label_transaction[label_session[u].txn].present
                     /\ label_session[u].op = "correct"
                          => label_transaction'[label_session[u].txn].present
                            = label_transaction[label_session[u].txn].present
                     /\ label_session[u].step = "locked" => label_transaction'[label_session[u].txn]
                          = label_transaction[label_session[u].txn]
    OBVIOUS
  <2>1. label_session[u].txn \in Transactions
          /\ (label_session[u].op = "post" => label_session[u].txn # t)
    BY <1>1, Doing
  <2>2. label_session[u].step = "locked" => label_session[u].txn # t
    BY <1>0 DEF PostingsApart
  <2>3. label_session[u].op = "correct" => label_transaction[label_session[u].txn].present
    BY Doing
  <2>4. CASE label_session[u].txn = t
    BY <2>4, <2>1, <2>2, <2>3, <1>6, <1>2
  <2>5. CASE label_session[u].txn # t
    BY <2>5, <2>1, <1>6
  <2> QED BY <2>4, <2>5
<1>13. label_session' \in [Sessions -> LabelSession] /\ PostingsApart'
         /\ \A u \in Sessions : InProgress(u)' /\ Evident(u)'
  <2>1. CategoriesInv /\ Classification!Finish(s) /\ UNCHANGED label_stamp
    BY <1>0
  <2> QED BY <2>1, <1>10, <1>11, <1>12, LabelFinishStep
<1>14. CategoriesTyped'
  <2>1. \A u \in Transactions : Categorized(label_transaction'[u])
    BY <1>0, <1>2, <1>6 DEF CategoriesTyped
  <2> QED BY <2>1, <1>0, <1>6, <1>7, <1>9, <1>13 DEF CategoriesTyped
<1>15. CommitOrder'
  <2>1. \A i \in 1..(n - 1) : label_corrections[i].begun <= label_corrections[i].done
          /\ label_corrections[i].done <= label_stamp
                              /\ label_transaction[label_corrections[i].txn].present
                              /\ label_corrections[i].txn \in Transactions
    BY <1>0, <1>7 DEF CommitOrder, Classification!Correction
  <2>2. ASSUME NEW i \in 1..n
        PROVE  /\ label_corrections'[i].begun <= label_corrections'[i].done
               /\ label_corrections'[i].done <= label_stamp
               /\ label_transaction'[label_corrections'[i].txn].present
    <3>1. CASE i = n
      BY <3>1, <1>7, <1>5, <1>3, <1>6, <1>2
    <3>2. CASE i # n
      <4>1. i \in 1..(n - 1)
        BY <3>2, <1>7
      <4>2. label_transaction'[label_corrections[i].txn].present
        BY <4>1, <2>1, <1>6, <1>2
      <4> QED BY <4>1, <4>2, <2>1, <1>7
    <3> QED BY <3>1, <3>2
  <2>3. ASSUME NEW i \in 1..n, NEW j \in 1..n, i <= j
        PROVE label_corrections'[i].done <= label_corrections'[j].done
    <3>1. CASE j = n
      BY <3>1, <2>2, <1>7, <1>5
    <3>2. CASE j # n
      <4>1. i \in 1..(n - 1) /\ j \in 1..(n - 1)
        BY <3>2, <2>3, <1>7
      <4> QED BY <4>1, <2>3, <1>0, <1>7 DEF CommitOrder
    <3> QED BY <3>1, <3>2
  <2> QED BY <2>2, <2>3, <1>7, <1>0 DEF CommitOrder
<1>16. LearnedLast'
  <2> SUFFICES ASSUME NEW m \in Merchants, label_learned'[m] # None
               PROVE  \E i \in DOMAIN label_corrections' :
                        /\ label_corrections'[i].merchant = m
                        /\ label_corrections'[i].category = label_learned'[m]
                        /\ \A j \in DOMAIN label_corrections' : label_corrections'[j].merchant = m
                             => j <= i
    BY DEF LearnedLast
  <2>1. CASE m = r.merchant
    <3>1. label_corrections'[n].merchant = m /\ label_corrections'[n].category = label_learned'[m]
            /\ \A j \in 1..n : j <= n
      BY <2>1, <1>7, <1>5, <1>9
    <3> QED BY <3>1, <1>7
  <2>2. CASE m # r.merchant
    <3>1. label_learned[m] # None /\ label_learned'[m] = label_learned[m]
      BY <2>2, <1>9
    <3>2. PICK i \in 1..(n - 1) :
            /\ label_corrections[i].merchant = m /\ label_corrections[i].category = label_learned[m]
            /\ \A j \in 1..(n - 1) : label_corrections[j].merchant = m => j <= i
      BY <3>1, <1>0, <1>7 DEF LearnedLast
    <3>3. ASSUME NEW j \in 1..n, label_corrections'[j].merchant = m PROVE j <= i
      <4>1. j # n
        BY <3>3, <2>2, <1>7, <1>5
      <4>2. j \in 1..(n - 1)
        BY <4>1, <1>7
      <4> QED BY <4>2, <3>2, <3>3, <1>7
    <3> QED BY <3>1, <3>2, <3>3, <1>7
  <2> QED BY <2>1, <2>2
<1>17. Classification!CorrectionsChain'
  <2> SUFFICES ASSUME NEW u \in Transactions
               PROVE  LET own == {i \in DOMAIN label_corrections' : label_corrections'[i].txn = u} IN
                      /\ \A i \in own, j \in own :
                           i < j /\ (\A k \in own : k <= i \/ j <= k)
                             => label_corrections'[j].previous = label_corrections'[i].category
                      /\ \A i \in own : (\A k \in own : k <= i) =>
                           label_transaction'[u].category = label_corrections'[i].category
                             /\ label_transaction'[u].source = "user_override"
    BY DEF Classification!CorrectionsChain
  <2> DEFINE old == {i \in 1..(n - 1) : label_corrections[i].txn = u}
             own == {i \in 1..n : label_corrections'[i].txn = u}
  <2>1. /\ \A i \in old, j \in old :
             i < j /\ (\A k \in old : k <= i \/ j <= k)
               => label_corrections[j].previous = label_corrections[i].category
        /\ \A i \in old : (\A k \in old : k <= i) =>
             label_transaction[u].category = label_corrections[i].category
               /\ label_transaction[u].source = "user_override"
    <3>1. old = {i \in DOMAIN label_corrections : label_corrections[i].txn = u}
      BY <1>7
    <3> HIDE DEF old
    <3> QED BY <3>1, <1>0 DEF Classification!CorrectionsChain
  <2>2. own = IF u = t THEN old \cup {n} ELSE old
    BY <1>7, <1>5
  <2>3. \A i \in old : i \in Int /\ i < n /\ label_corrections'[i] = label_corrections[i]
    BY <1>7
  <2> HIDE DEF old, own
  <2>4. CASE u # t
    <3>1. own = old /\ label_transaction'[u] = label_transaction[u]
      BY <2>4, <2>2, <1>6
    <3>2. /\ \A i \in own, j \in own :
               i < j /\ (\A k \in own : k <= i \/ j <= k)
                 => label_corrections'[j].previous = label_corrections'[i].category
          /\ \A i \in own : (\A k \in own : k <= i) =>
               label_transaction'[u].category = label_corrections'[i].category
                 /\ label_transaction'[u].source = "user_override"
      BY <3>1, <2>1, <2>3
    <3> QED BY <3>2, <1>7 DEF own
  <2>5. CASE u = t
    <3>1. own = old \cup {n}
      BY <2>5, <2>2
    <3>2. ASSUME NEW i \in own, NEW j \in own, i < j, \A k \in own : k <= i \/ j <= k
          PROVE  label_corrections'[j].previous = label_corrections'[i].category
      <4>1. i \in old
        BY <3>1, <3>2, <2>3, <1>7
      <4>2. CASE j \in old
        <5>1. \A k \in old : k <= i \/ j <= k
          BY <3>1, <3>2
        <5> QED BY <4>1, <4>2, <5>1, <3>2, <2>1, <2>3
      <4>3. CASE j = n
        <5>1. \A k \in old : k <= i
          BY <3>1, <3>2, <4>3, <2>3, <4>1, <1>7
        <5>2. label_transaction[t].category = label_corrections[i].category
          BY <4>1, <5>1, <2>1, <2>5
        <5> QED BY <5>2, <4>3, <4>1, <2>3, <1>7, <1>5, <1>1
      <4> QED BY <4>2, <4>3, <3>1
    <3>3. ASSUME NEW i \in own, \A k \in own : k <= i
          PROVE  label_transaction'[u].category = label_corrections'[i].category
                 /\ label_transaction'[u].source = "user_override"
      <4>1. i = n
        BY <3>1, <3>3, <2>3, <1>7
      <4> QED BY <4>1, <2>5, <1>7, <1>5, <1>6, <1>2
    <3> QED BY <3>2, <3>3, <1>7 DEF own
  <2> QED BY <2>4, <2>5
<1> QED BY <1>13, <1>14, <1>15, <1>16, <1>17 DEF CategoriesInv

\* What a posting that ends has found: nothing, when it is rolled back.
PostingOutcome ==
  \A s \in Sessions : label_session[s].op = "post" /\ label_session'[s].op = "idle" =>
       LET r == label_transaction'[label_session[s].txn] IN
       r.present => \A e \in label_session[s].known
         : Classification!Strength[e.source] <= Classification!Strength[r.source]

\* When only s ends, the outcome of postings is what became of s.
LEMMA OutcomeOf ==
  ASSUME Classification!CategorizationAssumption, CategoriesInv, NEW s \in Sessions,
         \A u \in Sessions : u # s => label_session'[u] = label_session[u],
         label_session[s].op = "post" /\ label_session'[s].op = "idle" =>
           ~label_transaction'[label_session[s].txn].present
           \/ \A e \in label_session[s].known
                : Classification!Strength[e.source] <= Classification!Strength[label_transaction'[label_session[s].txn].source]
  PROVE  PostingOutcome
BY DEF PostingOutcome

\* Every step keeps the invariant and the outcome of postings.
LEMMA CategoriesStep ==
  ASSUME Classification!CategorizationAssumption, CategoriesInv,
         [Classification!Next]_(Classification!vars)
  PROVE  CategoriesInv' /\ PostingOutcome
<1>0. label_session \in [Sessions -> LabelSession] /\ Classification!Idle.op = "idle"
  BY RestTyped DEF CategoriesInv, CategoriesTyped
<1>1. CASE UNCHANGED Classification!vars
  <2>1. UNCHANGED <<label_transaction, label_rules, label_learned, label_corrections, label_session,
          label_stamp>>
    BY <1>1 DEF Classification!vars
  <2>2. CategoriesTyped' /\ PostingsApart' /\ CommitOrder' /\ LearnedLast'
          /\ Classification!CorrectionsChain'
    BY <2>1 DEF CategoriesInv, CategoriesTyped, PostingsApart, CommitOrder, LearnedLast,
       Classification!CorrectionsChain
  <2>3. \A s \in Sessions : InProgress(s)' /\ Evident(s)'
    BY <2>1 DEF CategoriesInv, InProgress, Evident, HasRule, HasMerchant, HasCorrection
  <2>4. PostingOutcome
    BY <2>1 DEF PostingOutcome
  <2> QED BY <2>2, <2>3, <2>4 DEF CategoriesInv
<1>2. ASSUME NEW t \in Transactions, NEW text \in Texts, NEW m \in Merchants \cup {None},
             NEW c \in Labels,
             Classification!PostSelected(t, text, m, c)
      PROVE  CategoriesInv' /\ PostingOutcome
  <2>1. CategoriesInv'
    BY <1>2, SelectedStep
  <2>2. PostingOutcome
    BY <1>2 DEF Classification!PostSelected, PostingOutcome
  <2> QED BY <2>1, <2>2
<1>3. ASSUME NEW t \in Transactions, NEW text \in Texts, NEW m \in Merchants \cup {None},
             NEW s \in Sessions,
             NEW hint \in Labels \cup {None}, Classification!BeginPost(s, t, text, m, hint)
      PROVE  CategoriesInv' /\ PostingOutcome
  <2>1. CategoriesInv'
    BY <1>3, BeginPostStep
  <2>2. label_session[s].op = "idle" /\ \A u \in Sessions : u # s
          => label_session'[u] = label_session[u]
    BY <1>3, <1>0 DEF Classification!BeginPost
  <2> QED BY <2>1, <2>2, OutcomeOf
<1>4. ASSUME NEW r \in Classification!Rule, Classification!CreateRule(r)
      PROVE CategoriesInv' /\ PostingOutcome
  <2>1. CategoriesInv'
    BY <1>4, CreateRuleStep
  <2>2. PostingOutcome
    BY <1>4 DEF Classification!CreateRule, PostingOutcome
  <2> QED BY <2>1, <2>2
<1>5. ASSUME NEW s \in Sessions, Classification!Classify(s) PROVE CategoriesInv' /\ PostingOutcome
  <2>1. CategoriesInv'
    BY <1>5, ClassifyStep
  <2>2. \A u \in Sessions : u # s => label_session'[u] = label_session[u]
    BY <1>5, <1>0 DEF Classification!Classify
  <2>3. ~label_transaction'[label_session[s].txn].present
    BY <1>5, Doing DEF Classification!Classify
  <2> QED BY <2>1, <2>2, <2>3, OutcomeOf
<1>6. ASSUME NEW s \in Sessions, Classification!Insert(s) PROVE CategoriesInv' /\ PostingOutcome
  <2>1. /\ CategoriesInv'
        /\ \A e \in label_session[s].known
             : Classification!Strength[e.source] <= Classification!Strength[label_transaction'[label_session[s].txn].source]
    BY <1>6, InsertStep
  <2>2. \A u \in Sessions : u # s => label_session'[u] = label_session[u]
    BY <1>6, <1>0 DEF Classification!Insert, Classification!Finish
  <2> QED BY <2>1, <2>2, OutcomeOf
<1>7. ASSUME NEW s \in Sessions, NEW t \in Transactions, NEW c \in Labels,
             Classification!BeginCorrect(s, t, c) PROVE CategoriesInv' /\ PostingOutcome
  <2>1. CategoriesInv'
    BY <1>7, BeginCorrectStep
  <2>2. label_session[s].op = "idle" /\ \A u \in Sessions : u # s
          => label_session'[u] = label_session[u]
    BY <1>7, <1>0 DEF Classification!BeginCorrect
  <2> QED BY <2>1, <2>2, OutcomeOf
<1>8. ASSUME NEW s \in Sessions, Classification!LockTransaction(s)
      PROVE CategoriesInv' /\ PostingOutcome
  <2>1. CategoriesInv'
    BY <1>8, CorrectLockStep
  <2>2. label_session[s].op # "post" /\ \A u \in Sessions : u # s
          => label_session'[u] = label_session[u]
    BY <1>8, <1>0, Doing DEF Classification!LockTransaction
  <2> QED BY <2>1, <2>2, OutcomeOf
<1>9. ASSUME NEW s \in Sessions, Classification!Correct(s) PROVE CategoriesInv' /\ PostingOutcome
  <2>1. CategoriesInv'
    BY <1>9, CorrectStep
  <2>2. label_session[s].op # "post" /\ \A u \in Sessions : u # s
          => label_session'[u] = label_session[u]
    BY <1>9, <1>0, Doing DEF Classification!Correct, Classification!Finish
  <2> QED BY <2>1, <2>2, OutcomeOf
<1>10. ASSUME NEW s \in Sessions, Classification!Rollback(s) PROVE CategoriesInv' /\ PostingOutcome
  <2>1. CategoriesInv'
    BY <1>10, LabelRollbackStep
  <2>2. UNCHANGED label_transaction /\ \A u \in Sessions : u # s => label_session'[u] = label_session[u]
    BY <1>10, <1>0 DEF Classification!Rollback, Classification!Finish
  <2>3. label_session[s].op = "post" => ~label_transaction'[label_session[s].txn].present
    BY <2>2, Doing
  <2> QED BY <2>1, <2>2, <2>3, OutcomeOf
<1> QED BY <1>1, <1>2, <1>3, <1>4, <1>5, <1>6, <1>7, <1>8, <1>9, <1>10 DEF Classification!Next

\* What the invariant says of the properties of the run.
LEMMA CategoriesSay ==
  ASSUME Classification!CategorizationAssumption, CategoriesInv
  PROVE  Classification!TypeOK /\ Classification!CorrectionsChain /\ Classification!LearnsTheLatest
<1>0. CategoriesTyped /\ CommitOrder /\ LearnedLast /\ Classification!CorrectionsChain
  BY DEF CategoriesInv
<1>1. \A i \in DOMAIN label_corrections : label_corrections[i] \in Classification!Correction
  BY <1>0 DEF CategoriesTyped
<1>2. Classification!TypeOK
  <2>1. Classification!History \subseteq Classification!Correction
    BY <1>1 DEF Classification!History
  <2>2. \A s \in Sessions : label_session[s].row \in Classification!Row
    BY <1>0 DEF CategoriesTyped, LabelSession
  <2> QED BY <2>1, <2>2, <1>0 DEF CategoriesTyped, Classification!TypeOK, Categorized
<1>3. ASSUME NEW i \in DOMAIN label_corrections, NEW j \in DOMAIN label_corrections, i <= j
      PROVE  label_corrections[i].begun <= label_corrections[j].done
  <2>1. label_corrections[i].begun \in Int /\ label_corrections[i].done \in Int
          /\ label_corrections[j].done \in Int
    BY <1>1 DEF Classification!Correction
  <2>2. label_corrections[i].begun <= label_corrections[i].done
          /\ label_corrections[i].done <= label_corrections[j].done
    BY <1>3, <1>0 DEF CommitOrder
  <2> QED BY <2>1, <2>2
<1>4. ASSUME NEW m \in Merchants, label_learned[m] # None
      PROVE  LET own == {c \in Classification!History : c.merchant = m}
             IN  \E c \in own : c.category = label_learned[m] /\ Classification!NotSuperseded(c, own)
  <2>1. PICK i \in DOMAIN label_corrections :
          /\ label_corrections[i].merchant = m /\ label_corrections[i].category = label_learned[m]
          /\ \A j \in DOMAIN label_corrections : label_corrections[j].merchant = m => j <= i
    BY <1>0, <1>4 DEF LearnedLast
  <2>2. \A d \in {c \in Classification!History : c.merchant = m} : d.begun <= label_corrections[i].done
    BY <2>1, <1>3 DEF Classification!History
  <2>3. label_corrections[i] \in {c \in Classification!History : c.merchant = m}
    BY <2>1 DEF Classification!History
  <2> QED BY <2>1, <2>2, <2>3 DEF Classification!NotSuperseded
<1>5. ASSUME NEW text \in Texts, {c \in Classification!History : c.text = text} # {}
      PROVE  Classification!NotSuperseded(Classification!Newest({c \in Classification!History
             : c.text = text}), {c \in Classification!History : c.text = text})
  <2> DEFINE own == {c \in Classification!History : c.text = text}
             w == Classification!Newest(own)
  <2>1. \A c \in own : c \in Classification!Correction /\ c.begun \in 1..LastStamp
          /\ c.begun \in Int /\ c.done \in Int
    BY <1>1 DEF Classification!History, Classification!Correction
  <2>2. w \in own /\ \A d \in own : d.begun <= w.begun
    BY <2>1, <1>5, NewestIs DEF Classification!CategorizationAssumption
  <2>3. w.begun <= w.done
    BY <2>2, <1>0 DEF Classification!History, CommitOrder
  <2> HIDE DEF w, own
  <2>4. \A d \in own : d.begun <= w.done
    BY <2>1, <2>2, <2>3
  <2>5. Classification!NotSuperseded(w, own)
    BY <2>4 DEF Classification!NotSuperseded
  <2> QED BY <2>5 DEF w, own
<1>6. Classification!LearnsTheLatest
  BY <1>4, <1>5 DEF Classification!LearnsTheLatest
<1> QED BY <1>0, <1>2, <1>6

\* The invariant holds in every reachable state.
LEMMA CategoriesInvariance ==
  ASSUME Classification!CategorizationAssumption
  PROVE  Classification!Spec => []CategoriesInv
<1>1. Classification!Init => CategoriesInv
  BY CategoriesInit
<1>2. CategoriesInv /\ [Classification!Next]_(Classification!vars) => CategoriesInv'
  BY CategoriesStep
<1> QED BY <1>1, <1>2, PTL DEF Classification!Spec

(* Categories, for all requests and layers: each correction says what it     *)
(* replaced, a merchant maps to the latest correction, and what the stronger *)
(* layers knew when the posting began decides it.                            *)
THEOREM CategoriesCorrect ==
  ASSUME Classification!CategorizationAssumption
  PROVE  Classification!Spec => []Classification!TypeOK /\ []Classification!CorrectionsChain
         /\ []Classification!LearnsTheLatest /\ Classification!StrongerEvidenceWins
<1>1. CategoriesInv => Classification!TypeOK /\ Classification!CorrectionsChain
        /\ Classification!LearnsTheLatest
  BY CategoriesSay
<1>2. CategoriesInv /\ [Classification!Next]_(Classification!vars)
        => [PostingOutcome]_(Classification!vars)
  BY CategoriesStep
<1>3. [][PostingOutcome]_(Classification!vars) => Classification!StrongerEvidenceWins
  BY PTL DEF PostingOutcome, Classification!StrongerEvidenceWins
<1> QED BY <1>1, <1>2, <1>3, CategoriesInvariance, PTL DEF Classification!Spec

-----------------------------------------------------------------------------
(* Obligations, with their theorems *)

SettleProofs == INSTANCE ObligationsProofs WITH
    Obligation <- SettledIds, KindOf <- TableOf(SettledIds), Currency <- SettledCurrencies,
    MaxAmount <- MaxSettled, LastDay <- SettledDays, Session <- Sessions, row <- settle_row,
    settled <- settle_settled, session <- settle_session, receipt <- settle_receipt,
    today <- settle_today

ExposeProofs == INSTANCE ObligationsProofs WITH
    Obligation <- ExposedIds, KindOf <- TableOf(ExposedIds), Currency <- ExposedCurrencies,
    MaxAmount <- MaxExposed, LastDay <- ExposedDays, Session <- Sessions, row <- expose_row,
    settled <- expose_settled, session <- expose_session, receipt <- expose_receipt,
    today <- expose_today

\* The run keeps to the specification of the settlements.
LEMMA SettleSpec == Spec => SettleProofs!Spec
<1>1. Settlements!Vacant = SettleProofs!Vacant /\ Settlements!Idle = SettleProofs!Idle
        /\ Settlements!NoView = SettleProofs!NoView
  BY DEF Settlements!Vacant, SettleProofs!Vacant, Settlements!Idle, SettleProofs!Idle,
     Settlements!NoView, SettleProofs!NoView, Settlements!NoDay, SettleProofs!NoDay
<1>2. Init => SettleProofs!Init
  BY <1>1 DEF Init, Settlements!Init, SettleProofs!Init
<1>3. Settlements!Next => SettleProofs!Next
  <2>1. Settlements!NextDay => SettleProofs!NextDay
    BY DEF Settlements!NextDay, SettleProofs!NextDay
  <2>2. \A o \in SettledIds : Settlements!Exists(o) <=> SettleProofs!Exists(o)
    BY DEF Settlements!Exists, SettleProofs!Exists
  <2>3. ASSUME NEW o, NEW a, NEW c, NEW d, o \in SettledIds, Settlements!Create(o, a, c, d)
        PROVE SettleProofs!Create(o, a, c, d)
    BY <2>2, <2>3 DEF Settlements!Create, SettleProofs!Create, Settlements!Opened, SettleProofs!Opened
  <2>4. ASSUME NEW s, NEW op, NEW p, Settlements!Ask(s, op, p) PROVE SettleProofs!Ask(s, op, p)
    BY <1>1, <2>4 DEF Settlements!Ask, SettleProofs!Ask, Settlements!Exists, SettleProofs!Exists
  <2>5. ASSUME NEW s, Settlements!Lock(s) PROVE SettleProofs!Lock(s)
    <3>1. (Settlements!Locked(Settlements!Target(s))
            <=> SettleProofs!Locked(SettleProofs!Target(s)))
              /\ Settlements!Target(s) = SettleProofs!Target(s)
      BY DEF Settlements!Locked, SettleProofs!Locked, Settlements!Target, SettleProofs!Target
    <3> QED BY <2>5, <3>1 DEF Settlements!Lock, SettleProofs!Lock
  <2>6. ASSUME NEW s, Settlements!Sum(s) PROVE SettleProofs!Sum(s)
    BY <2>6 DEF Settlements!Sum, SettleProofs!Sum, Settlements!Target, SettleProofs!Target
  <2>7. ASSUME NEW s, Settlements!Settle(s) PROVE SettleProofs!Settle(s)
    <3>1. Settlements!Target(s) = SettleProofs!Target(s)
            /\ Settlements!NextStatus(s) = SettleProofs!NextStatus(s)
      BY DEF Settlements!Target, SettleProofs!Target, Settlements!NextStatus, SettleProofs!NextStatus
    <3>2. Settlements!Accepts(s) <=> SettleProofs!Accepts(s)
      BY <3>1 DEF Settlements!Accepts, SettleProofs!Accepts
    <3>3. Settlements!ViewAfter(s) = SettleProofs!ViewAfter(s)
      BY <3>1 DEF Settlements!ViewAfter, SettleProofs!ViewAfter, Settlements!Overdue,
         SettleProofs!Overdue
    <3> QED BY <1>1, <2>7, <3>1, <3>2, <3>3
               DEF Settlements!Settle, SettleProofs!Settle, Settlements!Finish, SettleProofs!Finish
  <2>8. ASSUME NEW s, Settlements!Cancel(s) PROVE SettleProofs!Cancel(s)
    BY <1>1, <2>8 DEF Settlements!Cancel, SettleProofs!Cancel, Settlements!Cancellable,
       SettleProofs!Cancellable, Settlements!Target, SettleProofs!Target, Settlements!Finish,
       SettleProofs!Finish
  <2>9. ASSUME NEW s, Settlements!Rollback(s) PROVE SettleProofs!Rollback(s)
    BY <1>1, <2>9 DEF Settlements!Rollback, SettleProofs!Rollback, Settlements!Finish,
       SettleProofs!Finish
  <2>10. /\ Settlements!Amount = SettleProofs!Amount /\ Settlements!Day = SettleProofs!Day
         /\ Settlements!NoDay = SettleProofs!NoDay
         /\ Settlements!SettlementRow = SettleProofs!SettlementRow
    BY DEF Settlements!Amount, SettleProofs!Amount, Settlements!Day, SettleProofs!Day,
       Settlements!NoDay, SettleProofs!NoDay, Settlements!SettlementRow, SettleProofs!SettlementRow
  <2>11. ASSUME NEW s, NEW p, Settlements!AskSettle(s, p) PROVE SettleProofs!AskSettle(s, p)
    BY <2>4, <2>11 DEF Settlements!AskSettle, SettleProofs!AskSettle
  <2>12. ASSUME NEW s, NEW o, Settlements!AskCancel(s, o) PROVE SettleProofs!AskCancel(s, o)
    BY <1>1, <2>4, <2>12 DEF Settlements!AskCancel, SettleProofs!AskCancel
  <2> QED BY <2>1, <2>3, <2>5, <2>6, <2>7, <2>8, <2>9, <2>10, <2>11, <2>12
             DEF Settlements!Next, SettleProofs!Next
<1>4. [Next]_vars => [SettleProofs!Next]_(SettleProofs!vars)
  <2>1. UNCHANGED settle_vars => UNCHANGED SettleProofs!vars
    BY DEF settle_vars, SettleProofs!vars
  <2>2. [Next]_vars => Settlements!Next \/ UNCHANGED settle_vars
    BY DEF Next, vars, Rest
  <2> QED BY <1>3, <2>1, <2>2
<1> QED BY <1>2, <1>4, PTL DEF Spec, SettleProofs!Spec

\* The run keeps to the specification of the exposure.
LEMMA ExposeSpec == Spec => ExposeProofs!Spec
<1>1. Exposure!Vacant = ExposeProofs!Vacant /\ Exposure!Idle = ExposeProofs!Idle
        /\ Exposure!NoView = ExposeProofs!NoView
  BY DEF Exposure!Vacant, ExposeProofs!Vacant, Exposure!Idle, ExposeProofs!Idle, Exposure!NoView,
     ExposeProofs!NoView, Exposure!NoDay, ExposeProofs!NoDay
<1>2. Init => ExposeProofs!Init
  BY <1>1 DEF Init, Exposure!Init, ExposeProofs!Init
<1>3. Exposure!Next => ExposeProofs!Next
  <2>1. Exposure!NextDay => ExposeProofs!NextDay
    BY DEF Exposure!NextDay, ExposeProofs!NextDay
  <2>2. \A o \in ExposedIds : Exposure!Exists(o) <=> ExposeProofs!Exists(o)
    BY DEF Exposure!Exists, ExposeProofs!Exists
  <2>3. ASSUME NEW o, NEW a, NEW c, NEW d, o \in ExposedIds, Exposure!Create(o, a, c, d)
        PROVE ExposeProofs!Create(o, a, c, d)
    BY <2>2, <2>3 DEF Exposure!Create, ExposeProofs!Create, Exposure!Opened, ExposeProofs!Opened
  <2>4. ASSUME NEW s, NEW op, NEW p, Exposure!Ask(s, op, p) PROVE ExposeProofs!Ask(s, op, p)
    BY <1>1, <2>4 DEF Exposure!Ask, ExposeProofs!Ask, Exposure!Exists, ExposeProofs!Exists
  <2>5. ASSUME NEW s, Exposure!Lock(s) PROVE ExposeProofs!Lock(s)
    <3>1. (Exposure!Locked(Exposure!Target(s)) <=> ExposeProofs!Locked(ExposeProofs!Target(s)))
            /\ Exposure!Target(s) = ExposeProofs!Target(s)
      BY DEF Exposure!Locked, ExposeProofs!Locked, Exposure!Target, ExposeProofs!Target
    <3> QED BY <2>5, <3>1 DEF Exposure!Lock, ExposeProofs!Lock
  <2>6. ASSUME NEW s, Exposure!Sum(s) PROVE ExposeProofs!Sum(s)
    BY <2>6 DEF Exposure!Sum, ExposeProofs!Sum, Exposure!Target, ExposeProofs!Target
  <2>7. ASSUME NEW s, Exposure!Settle(s) PROVE ExposeProofs!Settle(s)
    <3>1. Exposure!Target(s) = ExposeProofs!Target(s)
            /\ Exposure!NextStatus(s) = ExposeProofs!NextStatus(s)
      BY DEF Exposure!Target, ExposeProofs!Target, Exposure!NextStatus, ExposeProofs!NextStatus
    <3>2. Exposure!Accepts(s) <=> ExposeProofs!Accepts(s)
      BY <3>1 DEF Exposure!Accepts, ExposeProofs!Accepts
    <3>3. Exposure!ViewAfter(s) = ExposeProofs!ViewAfter(s)
      BY <3>1 DEF Exposure!ViewAfter, ExposeProofs!ViewAfter, Exposure!Overdue, ExposeProofs!Overdue
    <3> QED BY <1>1, <2>7, <3>1, <3>2, <3>3
               DEF Exposure!Settle, ExposeProofs!Settle, Exposure!Finish, ExposeProofs!Finish
  <2>8. ASSUME NEW s, Exposure!Cancel(s) PROVE ExposeProofs!Cancel(s)
    BY <1>1, <2>8 DEF Exposure!Cancel, ExposeProofs!Cancel, Exposure!Cancellable,
       ExposeProofs!Cancellable, Exposure!Target, ExposeProofs!Target, Exposure!Finish,
       ExposeProofs!Finish
  <2>9. ASSUME NEW s, Exposure!Rollback(s) PROVE ExposeProofs!Rollback(s)
    BY <1>1, <2>9 DEF Exposure!Rollback, ExposeProofs!Rollback, Exposure!Finish, ExposeProofs!Finish
  <2>10. /\ Exposure!Amount = ExposeProofs!Amount /\ Exposure!Day = ExposeProofs!Day
         /\ Exposure!NoDay = ExposeProofs!NoDay
         /\ Exposure!SettlementRow = ExposeProofs!SettlementRow
    BY DEF Exposure!Amount, ExposeProofs!Amount, Exposure!Day, ExposeProofs!Day, Exposure!NoDay,
       ExposeProofs!NoDay, Exposure!SettlementRow, ExposeProofs!SettlementRow
  <2>11. ASSUME NEW s, NEW p, Exposure!AskSettle(s, p) PROVE ExposeProofs!AskSettle(s, p)
    BY <2>4, <2>11 DEF Exposure!AskSettle, ExposeProofs!AskSettle
  <2>12. ASSUME NEW s, NEW o, Exposure!AskCancel(s, o) PROVE ExposeProofs!AskCancel(s, o)
    BY <1>1, <2>4, <2>12 DEF Exposure!AskCancel, ExposeProofs!AskCancel
  <2> QED BY <2>1, <2>3, <2>5, <2>6, <2>7, <2>8, <2>9, <2>10, <2>11, <2>12
             DEF Exposure!Next, ExposeProofs!Next
<1>4. [Next]_vars => [ExposeProofs!Next]_(ExposeProofs!vars)
  <2>1. UNCHANGED expose_vars => UNCHANGED ExposeProofs!vars
    BY DEF expose_vars, ExposeProofs!vars
  <2>2. [Next]_vars => Exposure!Next \/ UNCHANGED expose_vars
    BY DEF Next, vars, Rest
  <2> QED BY <1>3, <2>1, <2>2
<1> QED BY <1>2, <1>4, PTL DEF Spec, ExposeProofs!Spec

\* The sums of one instance are those of the other.
LEMMA SumsAgree ==
  ASSUME NEW f, NEW S
  PROVE  Exposure!SumFunctionOnSet(f, S) = ExposeProofs!SumFunctionOnSet(f, S)
BY DEF Exposure!SumFunctionOnSet, ExposeProofs!SumFunctionOnSet, Exposure!FoldFunctionOnSet,
       ExposeProofs!FoldFunctionOnSet, Exposure!MapThenFoldSet, ExposeProofs!MapThenFoldSet

(* Obligations, however settlements, cancellations and midnight interleave:   *)
(* the status tells the history, what is paid or cancelled stays, receipts   *)
(* count down and call late only what is, and exposure rises only by opening. *)
THEOREM ObligationsKept == Spec => ObligationsHold
<1>1. SettleProofs!ObligationsAssumption /\ ExposeProofs!ObligationsAssumption
  BY LedgerAssumptions
     DEF LedgerAssumptions, Settlements!ObligationsAssumption, SettleProofs!ObligationsAssumption,
         Exposure!ObligationsAssumption, ExposeProofs!ObligationsAssumption
<1>2. SettleProofs!StatusFollowsHistory => (part = "settlements" => Settlements!StatusFollowsHistory)
  BY DEF Settlements!StatusFollowsHistory, SettleProofs!StatusFollowsHistory
<1>3. SettleProofs!Spec => []SettleProofs!StatusFollowsHistory
  BY <1>1, SettleProofs!StatusTells
<1>4. SettleProofs!Spec => SettleProofs!TerminalIsFinal
  BY <1>1, SettleProofs!Terminal
<1>5. SettleProofs!Spec => SettleProofs!ReceiptsCountDown
  BY <1>1, SettleProofs!Receipts
<1>6. SettleProofs!Spec => SettleProofs!OverdueIsLate
  BY <1>1, SettleProofs!Lateness
<1>7. ExposeProofs!Spec => ExposeProofs!ExposureMovesOneWay
  BY <1>1, ExposeProofs!Exposing
<1>8. Settlements!vars = SettleProofs!vars /\ Exposure!vars = ExposeProofs!vars
  BY DEF Settlements!vars, SettleProofs!vars, Exposure!vars, ExposeProofs!vars
<1>9. SettleProofs!TerminalIsFinal => Settlements!TerminalIsFinal
  BY PTL DEF Settlements!TerminalIsFinal, SettleProofs!TerminalIsFinal, Settlements!vars,
     SettleProofs!vars
<1>10. SettleProofs!ReceiptsCountDown => Settlements!ReceiptsCountDown
  BY PTL DEF Settlements!ReceiptsCountDown, SettleProofs!ReceiptsCountDown, Settlements!vars,
     SettleProofs!vars
<1>11. SettleProofs!OverdueIsLate => Settlements!OverdueIsLate
  BY PTL DEF Settlements!OverdueIsLate, SettleProofs!OverdueIsLate, Settlements!vars, SettleProofs!vars
<1>12. ExposeProofs!ExposureMovesOneWay => Exposure!ExposureMovesOneWay
  <2> DEFINE PA == \A k \in {"receivable", "payable"}, c \in ExposedCurrencies :
        ExposeProofs!Exposure(k, c)' > ExposeProofs!Exposure(k, c) =>
          \E o \in ExposedIds : ~ExposeProofs!Exists(o) /\ expose_row'[o].status = "open"
            /\ TableOf(ExposedIds)[o] = k
             AA == \A k \in {"receivable", "payable"}, c \in ExposedCurrencies :
        Exposure!Exposure(k, c)' > Exposure!Exposure(k, c) =>
          \E o \in ExposedIds : ~Exposure!Exists(o) /\ expose_row'[o].status = "open"
            /\ TableOf(ExposedIds)[o] = k
  <2>1. \A k, c : Exposure!Exposure(k, c) = ExposeProofs!Exposure(k, c)
    BY SumsAgree DEF Exposure!Exposure, ExposeProofs!Exposure, Exposure!Outstanding,
       ExposeProofs!Outstanding,
                     Exposure!Remaining, ExposeProofs!Remaining, Exposure!Exists, ExposeProofs!Exists
  <2>2. \A k, c : Exposure!Exposure(k, c)' = ExposeProofs!Exposure(k, c)'
    BY SumsAgree DEF Exposure!Exposure, ExposeProofs!Exposure, Exposure!Outstanding,
       ExposeProofs!Outstanding,
                     Exposure!Remaining, ExposeProofs!Remaining, Exposure!Exists, ExposeProofs!Exists
  <2>3. \A o : Exposure!Exists(o) <=> ExposeProofs!Exists(o)
    BY DEF Exposure!Exists, ExposeProofs!Exists
  <2>4. PA => AA
    BY <2>1, <2>2, <2>3
  <2> HIDE DEF PA, AA
  <2>5. [PA]_(ExposeProofs!vars) => [AA]_(Exposure!vars)
    BY <2>4 DEF Exposure!vars, ExposeProofs!vars
  <2> QED BY <2>5, PTL DEF PA, AA, Exposure!ExposureMovesOneWay, ExposeProofs!ExposureMovesOneWay
<1> QED BY <1>2, <1>3, <1>4, <1>5, <1>6, <1>7, <1>9, <1>10, <1>11, <1>12, SettleSpec, ExposeSpec, PTL
        DEF ObligationsHold

-----------------------------------------------------------------------------
(* The run and the theorems about it *)

\* The run keeps to the specification of the schedules.
LEMMA SchedulesRun == Spec => Schedules!Spec
<1>1. Init => Schedules!Init
  BY DEF Init
<1>2. [Next]_vars => [Schedules!Next]_(Schedules!vars)
  BY DEF Next, vars, Rest, schedule_vars, Schedules!vars
<1> QED BY <1>1, <1>2, PTL DEF Spec, Schedules!Spec

(* Recurring payments, however clients retry and schedules pause and end: no  *)
(* occurrence is posted twice or skipped and each advance lands in its month. *)
THEOREM SchedulesKept == Spec => SchedulesHold
<1>1. Schedules!RecurringAssumption /\ Payments # {}
  BY LedgerAssumptions DEF LedgerAssumptions, Schedules!RecurringAssumption
<1>2. Schedules!Spec => [](Schedules!OccurrencesInStep /\ Schedules!UpcomingIsUnpaid)
        /\ Schedules!SilentUnlessActive
                        /\ Schedules!CalendarSteps
  BY <1>1, SchedulesCorrect, PTL
<1> QED BY <1>2, SchedulesRun, PTL DEF SchedulesHold

\* The run keeps to the specification of the categories.
LEMMA CategoriesRun == Spec => Classification!Spec
<1>1. Init => Classification!Init
  BY DEF Init
<1>2. [Next]_vars => [Classification!Next]_(Classification!vars)
  BY DEF Next, vars, Rest, label_vars, Classification!vars
<1> QED BY <1>1, <1>2, PTL DEF Spec, Classification!Spec

(* Categories: corrections form a chain that ends in what is shown, nothing   *)
(* replaced is learned from, and the strongest layer decides.                 *)
THEOREM CategoriesKept == Spec => CategoriesHold
<1>1. Classification!CategorizationAssumption
  BY LedgerAssumptions DEF LedgerAssumptions
<1>2. Classification!Spec => []Classification!CorrectionsChain /\ []Classification!LearnsTheLatest
                             /\ Classification!StrongerEvidenceWins
  BY <1>1, CategoriesCorrect, PTL
<1> QED BY <1>2, CategoriesRun, PTL DEF CategoriesHold

\* Every variable of the component that acts has its type.
THEOREM LedgerTyped == Spec => []TypeOK
<1> DEFINE Parts == {"settlements", "exposure", "schedules", "summaries", "pages",
                     "categories", "report", "copies"}
           OnePart == part \in Parts
<1>1. /\ Summaries!MonthsAssumption /\ Summaries!LedgerViewsAssumption /\ Pages!LedgerViewsAssumption
      /\ Zones # {} /\ Schedules!RecurringAssumption /\ Payments # {}
      /\ Classification!CategorizationAssumption /\ Report!InsightsAssumption
      /\ Copies!ScoringAssumption
  BY LedgerAssumptions DEF LedgerAssumptions, Schedules!RecurringAssumption
<1>2. SettleProofs!ObligationsAssumption /\ ExposeProofs!ObligationsAssumption
  BY LedgerAssumptions
     DEF LedgerAssumptions, Settlements!ObligationsAssumption, SettleProofs!ObligationsAssumption,
         Exposure!ObligationsAssumption, ExposeProofs!ObligationsAssumption
<1>3. Spec => []SettleProofs!TypeOK
  BY <1>2, SettleProofs!Typed, SettleSpec, PTL
<1>4. Spec => []ExposeProofs!TypeOK
  BY <1>2, ExposeProofs!Typed, ExposeSpec, PTL
<1>5. SettleProofs!TypeOK => Settlements!TypeOK
  <2>1. SettleProofs!Day = Settlements!Day /\ SettleProofs!NoDay = Settlements!NoDay
          /\ SettleProofs!Amount = Settlements!Amount /\ SettleProofs!Status = Settlements!Status
    BY DEF SettleProofs!Day, Settlements!Day, SettleProofs!NoDay, Settlements!NoDay,
       SettleProofs!Amount, Settlements!Amount, SettleProofs!Status, Settlements!Status
  <2>2. SettleProofs!SettlementRow = Settlements!SettlementRow
    BY <2>1 DEF SettleProofs!SettlementRow, Settlements!SettlementRow
  <2>3. SettleProofs!Row = Settlements!Row
    BY <2>1 DEF SettleProofs!Row, Settlements!Row
  <2>4. SettleProofs!SessionState = Settlements!SessionState
    BY <2>1, <2>2 DEF SettleProofs!SessionState, Settlements!SessionState
  <2>5. SettleProofs!View = Settlements!View /\ SettleProofs!NoView = Settlements!NoView
    BY DEF SettleProofs!View, Settlements!View, SettleProofs!NoView, Settlements!NoView
  <2> QED BY <2>1, <2>3, <2>4, <2>5 DEF SettleProofs!TypeOK, Settlements!TypeOK
<1>6. ExposeProofs!TypeOK => Exposure!TypeOK
  <2>1. ExposeProofs!Day = Exposure!Day /\ ExposeProofs!NoDay = Exposure!NoDay
          /\ ExposeProofs!Amount = Exposure!Amount /\ ExposeProofs!Status = Exposure!Status
    BY DEF ExposeProofs!Day, Exposure!Day, ExposeProofs!NoDay, Exposure!NoDay, ExposeProofs!Amount,
       Exposure!Amount, ExposeProofs!Status, Exposure!Status
  <2>2. ExposeProofs!SettlementRow = Exposure!SettlementRow
    BY <2>1 DEF ExposeProofs!SettlementRow, Exposure!SettlementRow
  <2>3. ExposeProofs!Row = Exposure!Row
    BY <2>1 DEF ExposeProofs!Row, Exposure!Row
  <2>4. ExposeProofs!SessionState = Exposure!SessionState
    BY <2>1, <2>2 DEF ExposeProofs!SessionState, Exposure!SessionState
  <2>5. ExposeProofs!View = Exposure!View /\ ExposeProofs!NoView = Exposure!NoView
    BY DEF ExposeProofs!View, Exposure!View, ExposeProofs!NoView, Exposure!NoView
  <2> QED BY <2>1, <2>3, <2>4, <2>5 DEF ExposeProofs!TypeOK, Exposure!TypeOK
<1>7. Spec => []Schedules!TypeOK
  BY <1>1, SchedulesCorrect, SchedulesRun, PTL
<1>8. Spec => []Classification!TypeOK
  BY <1>1, CategoriesCorrect, CategoriesRun, PTL
<1>9. SummariesInv => Summaries!TypeOK
  BY DEF SummariesInv, Summaries!TypeOK
<1>10. PagesInv => Pages!TypeOK
  BY PagesSay
<1>11. ReportInv => Report!TypeOK
  BY <1>1, ReportSays
<1>12. CopiesInv => Copies!TypeOK
  BY <1>1, CopiesSay
<1>13. (Spec => []SummariesInv) /\ (Spec => []PagesInv)
  BY <1>1, SummariesInvariance, PagesInvariance
<1>14. (Spec => []ReportInv) /\ (Spec => []CopiesInv)
  BY <1>1, ReportInvariance, CopiesInvariance
<1>15. Spec => []OnePart
  <2>1. Init => OnePart
    BY DEF Init
  <2>2. OnePart /\ [Next]_vars => OnePart'
    BY DEF Next, vars, Rest
  <2> QED BY <2>1, <2>2, PTL DEF Spec
<1>16. /\ OnePart
       /\ Settlements!TypeOK /\ Exposure!TypeOK /\ Schedules!TypeOK /\ Summaries!TypeOK
       /\ Pages!TypeOK /\ Classification!TypeOK /\ Report!TypeOK /\ Copies!TypeOK
       => TypeOK
  BY DEF TypeOK
<1> QED BY <1>3, <1>4, <1>5, <1>6, <1>7, <1>8, <1>9, <1>10, <1>11, <1>12, <1>13, <1>14, <1>15,
           <1>16, PTL

=============================================================================
