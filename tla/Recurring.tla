----------------------------- MODULE Recurring -----------------------------
(***************************************************************************)
(* The recurring payments of one owner: schedules, the expenses posted for *)
(* their occurrences, and the requests that create, pause, resume, end and *)
(* record them (apps/api/app/ledger/recurring_service.py, _repository.py). *)
(*                                                                         *)
(* A request waits for the row lock, validates what it read under it, and  *)
(* writes: for a due payment an expense and the next expected date, in one *)
(* transaction.                                                            *)
(***************************************************************************)
EXTENDS Calendar, Sequences

CONSTANTS
  Payment,       \* ids
  FirstDate,     \* first expected dates that owners enter
  Rule,          \* recurrence rules in use
  MaxRecorded,   \* bound of the recordings of a payment
  Session        \* requests that may be open at the same time

RecurringAssumption ==
  /\ FirstDate \subseteq CalendarDate /\ FirstDate # {}
  /\ Rule \subseteq {"weekly", "monthly", "quarterly", "yearly"} /\ Rule # {}
  /\ MaxRecorded \in Nat
  /\ Payment # {}

VARIABLES
  row,       \* the table recurring_payments
  posted,    \* the occurrences of each payment an expense was posted for, in order
  session    \* what each request is doing

vars == <<row, posted, session>>

-----------------------------------------------------------------------------
(* Rows and the calendar of a schedule *)

Status == {"absent", "active", "paused", "ended"}

\* The columns that move; the merchant and the positive amount are set for good.
Row == [status: Status, rule: Rule, next: CalendarDate]

\* mutant: an ended schedule may be resumed
TransitionsReviving == [absent |-> {}, active |-> {"paused", "ended"}, paused |-> {"active", "ended"}, ended |-> {"active"}]

\* _STATUS_TRANSITIONS; nothing stores needs_review yet.
Transitions == [absent |-> {}, active |-> {"paused", "ended"}, paused |-> {"active", "ended"}, ended |-> {}]

MonthsOf == [monthly |-> 1, quarterly |-> 3, yearly |-> 12]

\* mutant: the month is counted from 1 where the code subtracts 1
AdvanceMonthsLate(t, n) ==
  LET target == OfAbsolute(AbsoluteMonth(t) + 1 + n, 1)
      end    == MonthEnd(target.year, target.month)
  IN [target EXCEPT !.day = IF IsMonthEnd(t) \/ t.day > end THEN end ELSE t.day]

\* The same day n months later, the end of the month for the end of a month, and
\* never a day the month does not have.
AdvanceMonths(t, n) ==
  LET target == OfAbsolute(AbsoluteMonth(t) + n, 1)
      end    == MonthEnd(target.year, target.month)
  IN [target EXCEPT !.day = IF IsMonthEnd(t) \/ t.day > end THEN end ELSE t.day]

\* advance_expected_date()
Advance(t, rule) == IF rule = "weekly" THEN WeekLater(t) ELSE AdvanceMonths(t, MonthsOf[rule])

Exists(p) == row[p].status # "absent"

\* upcoming_totals(): the active payments expected inside an inclusive window
Upcoming(from, to) ==
  {p \in Payment : row[p].status = "active" /\ ~Before(row[p].next, from) /\ ~Before(to, row[p].next)}

-----------------------------------------------------------------------------
(* The initial state *)

Vacant == [status |-> "absent", rule |-> CHOOSE r \in Rule : TRUE, next |-> CHOOSE t \in FirstDate : TRUE]

Idle == [op |-> "idle", locked |-> FALSE, payment |-> CHOOSE p \in Payment : TRUE,
         expected |-> Vacant.next, target |-> "absent", read |-> Vacant]

Init ==
  /\ row = [p \in Payment |-> Vacant]
  /\ posted = [p \in Payment |-> <<>>]
  /\ session = [s \in Session |-> Idle]

-----------------------------------------------------------------------------
(* Requests *)

\* RecurringPaymentRepository.create()
NewRow(rule, first) == [status |-> "active", rule |-> rule, next |-> first]

\* create(): the merchant is resolved and one active row inserted.
Create(p, rule, first) ==
  /\ ~Exists(p)
  /\ row' = [row EXCEPT ![p] = NewRow(rule, first)]
  /\ UNCHANGED <<posted, session>>

\* The dates a client has been shown as expected and may send, once more or late.
Shown(p) == {posted[p][i] : i \in DOMAIN posted[p]} \cup {row[p].next}

AskRecord(s, p, expected) ==
  /\ session[s].op = "idle" /\ Exists(p)
  /\ session' = [session EXCEPT ![s] = [Idle EXCEPT !.op = "record", !.payment = p, !.expected = expected]]
  /\ UNCHANGED <<row, posted>>

\* parse_recurring_status_transition() lets a client select three statuses.
AskTransition(s, p, target) ==
  /\ session[s].op = "idle" /\ Exists(p)
  /\ session' = [session EXCEPT ![s] = [Idle EXCEPT !.op = "transition", !.payment = p, !.target = target]]
  /\ UNCHANGED <<row, posted>>

LockedNever(p) == FALSE   \* mutant: the row is read without FOR UPDATE

Locked(p) == \E s \in Session : session[s].locked /\ session[s].payment = p

\* RecurringPaymentRepository.lock()
Lock(s) ==
  LET p == session[s].payment IN
  /\ session[s].op # "idle" /\ ~session[s].locked
  /\ ~Locked(p)
  /\ session' = [session EXCEPT ![s] = [@ EXCEPT !.locked = TRUE, !.read = row[p]]]
  /\ UNCHANGED <<row, posted>>

\* mutant: the expected date that the client sends is not compared
DueActive(s) == session[s].read.status = "active"

Due(s) == session[s].read.status = "active" /\ session[s].read.next = session[s].expected

Finish(s) == session' = [session EXCEPT ![s] = Idle]

\* record_expense(), advance()
PostAndAdvance(p, expected, read) ==
  /\ posted' = [posted EXCEPT ![p] = Append(@, expected)]
  /\ row' = [row EXCEPT ![p] = [@ EXCEPT !.next = Advance(read.next, read.rule)]]

\* record_due_payment()
Record(s) ==
  LET p == session[s].payment IN
  /\ session[s].op = "record" /\ session[s].locked
  /\ Due(s)
  /\ Len(posted[p]) < MaxRecorded
  /\ PostAndAdvance(p, session[s].expected, session[s].read)
  /\ Finish(s)

\* transition_status(), update_status()
Transition(s) ==
  LET p == session[s].payment IN
  /\ session[s].op = "transition" /\ session[s].locked
  /\ session[s].target \in Transitions[session[s].read.status]
  /\ row' = [row EXCEPT ![p] = [@ EXCEPT !.status = session[s].target]]
  /\ Finish(s)
  /\ UNCHANGED posted

\* A conflict, an error, a lost connection or a crash ends the transaction.
Rollback(s) ==
  /\ session[s].op # "idle"
  /\ Finish(s)
  /\ UNCHANGED <<row, posted>>

Next ==
  \/ \E p \in Payment, r \in Rule, t \in FirstDate : Create(p, r, t)
  \/ \E s \in Session :
       \/ \E p \in Payment : \E t \in Shown(p) : AskRecord(s, p, t)
       \/ \E p \in Payment, target \in {"active", "paused", "ended"} : AskTransition(s, p, target)
       \/ Lock(s) \/ Record(s) \/ Transition(s) \/ Rollback(s)

Spec == Init /\ [][Next]_vars

-----------------------------------------------------------------------------
(* Properties *)

TypeOK ==
  /\ \A p \in Payment : row[p] \in Row
  /\ \A p \in Payment : \A i \in DOMAIN posted[p] : posted[p][i] \in CalendarDate
  /\ \A s \in Session : session[s].op \in {"idle", "record", "transition"}
  /\ \A s \in Session : session[s].locked => session[s].op # "idle"

\* The posted occurrences of a payment follow each other in its calendar, and the next
\* expected one follows the last: whichever requests are sent twice, late or side by
\* side, no occurrence is posted twice, skipped, or posted without the schedule moving
\* (docs/phase1-ledger.md:68-70).
OccurrencesInStep ==
  \A p \in Payment :
    LET shown == Append(posted[p], row[p].next)
    IN \A i \in DOMAIN posted[p] : shown[i + 1] = Advance(shown[i], row[p].rule)

\* An owner who adds what is posted and what is upcoming counts no occurrence twice:
\* an expected date inside the window of upcoming_totals() is not posted yet, nor is
\* anything later.
UpcomingIsUnpaid ==
  \A t \in {row[p].next : p \in Payment} :
    \A p \in Upcoming(t, t) : \A i \in DOMAIN posted[p] : Before(posted[p][i], t)

\* What is ended posts nothing and changes no more, and a paused schedule posts
\* nothing until it is resumed, though a recording was already waiting for the row.
SilentUnlessActive ==
  [][\A p \in Payment :
        /\ posted'[p] # posted[p] => row[p].status = "active" /\ row'[p].status = "active"
        /\ row[p].status = "ended" => row'[p] = row[p]]_vars

\* Advancing moves forward, and lands exactly one, three or twelve months later on a
\* day that exists: a day up to the 27th is kept, and a later one never falls before
\* the 28th, through years that are leap and years that are not.
CalendarSteps ==
  [][\A p \in Payment : Exists(p) /\ row'[p].next # row[p].next =>
        LET s == row[p].next  t == row'[p].next  rule == row[p].rule IN
        /\ Before(s, t) /\ IsDate(t)
        /\ rule # "weekly" => AbsoluteMonth(t) = AbsoluteMonth(s) + MonthsOf[rule]
        /\ rule # "weekly" /\ s.day <= 27 => t.day = s.day
        /\ rule # "weekly" /\ s.day > 27 => t.day > 27]_vars

=============================================================================
