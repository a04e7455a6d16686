---------------------------- MODULE Obligations ----------------------------
(***************************************************************************)
(* Receivables and payables of one owner, the settlements recorded against *)
(* them, and the requests that open, settle and cancel them at the same    *)
(* time (apps/api/app/ledger/obligation_service.py, _repository.py).       *)
(*                                                                         *)
(* A request is one transaction under READ COMMITTED: it reads the owner's *)
(* date, waits for the row lock, sums the settlements in a second          *)
(* statement, and validates and writes with what it read. Settlement rows  *)
(* are only inserted and only ever summed, so "settled" keeps their sum.   *)
(* Receivables and payables are two tables with the same columns and the   *)
(* same code; KindOf says in which of them an obligation lives.            *)
(***************************************************************************)
EXTENDS Integers, FiniteSets, Functions

CONSTANTS
  Obligation,    \* ids
  KindOf,        \* the table of each: "receivable" or "payable"
  Currency,
  MaxAmount,     \* bound of principals and payments, in units of 0.0001
  LastDay,       \* bound of the calendar
  Session        \* requests that may be open at the same time

ObligationsAssumption ==
  /\ Obligation # {} /\ Currency # {}
  /\ KindOf \in [Obligation -> {"receivable", "payable"}]
  /\ MaxAmount \in Nat \ {0}
  /\ LastDay \in Nat \ {0}

VARIABLES
  row,       \* the two obligation tables
  settled,   \* the sum of the settlement rows of each obligation
  session,   \* what each request is doing
  receipt,   \* the last view of each obligation that a settlement returned
  today      \* the owner's local date

vars == <<row, settled, session, receipt, today>>

-----------------------------------------------------------------------------
(* Rows, commands and views *)

Amount == 1..MaxAmount
Day    == 1..LastDay
NoDay  == 0
Status == {"absent", "open", "partially_paid", "paid", "cancelled"}

\* The check constraints of the tables: a positive amount, and no due date
\* before the issue date (day 1 of the model).
Row == [status: Status, amount: Amount, currency: Currency, due: Day \cup {NoDay}]

SettlementRow == [obligation: Obligation, amount: Amount, currency: Currency]

View == [status: {"open", "partially_paid", "paid", "overdue", "cancelled"},
         outstanding: 0..MaxAmount]

NoView == [status |-> "open", outstanding |-> MaxAmount + 1]

\* phase: the request waits for the row lock, holds it, or has summed as well.
SessionState == [op: {"idle", "settle", "cancel"}, phase: {"wait", "locked", "summed"},
                 payment: SettlementRow, as_of: Day,
                 status: Status, sum: 0..MaxAmount]

Exists(o) == row[o].status # "absent"

Remaining(o) == row[o].amount - settled[o]

Outstanding(o) == IF row[o].status = "cancelled" THEN 0 ELSE Remaining(o)

OverdueFromDueDay(r, rest, as_of) ==   \* mutant: overdue on the due date itself
  r.status \in {"open", "partially_paid"} /\ r.due \in 1..as_of /\ rest > 0

\* Overdue is derived when an obligation is shown, never stored.
Overdue(r, rest, as_of) ==
  r.status \in {"open", "partially_paid"} /\ r.due \in 1..(as_of - 1) /\ rest > 0

\* outstanding_totals(): the open exposure in one currency and direction.
Exposure(kind, c) ==
  SumFunctionOnSet([o \in Obligation |-> Outstanding(o)],
                   {o \in Obligation : Exists(o) /\ KindOf[o] = kind /\ row[o].currency = c})

-----------------------------------------------------------------------------
(* The initial state and the calendar *)

Vacant == [status |-> "absent", amount |-> 1, currency |-> CHOOSE c \in Currency : TRUE, due |-> NoDay]

Idle == [op |-> "idle", phase |-> "wait", as_of |-> 1, status |-> "absent", sum |-> 0,
         payment |-> [obligation |-> CHOOSE o \in Obligation : TRUE, amount |-> 1,
                      currency |-> CHOOSE c \in Currency : TRUE]]

Init ==
  /\ row = [o \in Obligation |-> Vacant]
  /\ settled = [o \in Obligation |-> 0]
  /\ session = [s \in Session |-> Idle]
  /\ receipt = [o \in Obligation |-> NoView]
  /\ today = 1

NextDay ==
  /\ today < LastDay
  /\ today' = today + 1
  /\ UNCHANGED <<row, settled, session, receipt>>

-----------------------------------------------------------------------------
(* Requests *)

Opened(a, c, d) == [status |-> "open", amount |-> a, currency |-> c, due |-> d]

\* create_receivable(), create_payable(): one insert; people and transactions
\* are never deleted, so a reference that was checked stays valid.
Create(o, a, c, d) ==
  /\ ~Exists(o)
  /\ row' = [row EXCEPT ![o] = Opened(a, c, d)]
  /\ UNCHANGED <<settled, session, receipt, today>>

\* A request arrives; owner_today() is read before the lock.
Ask(s, op, payment) ==
  /\ session[s].op = "idle"
  /\ Exists(payment.obligation)
  /\ session' = [session EXCEPT ![s] = [Idle EXCEPT !.op = op, !.payment = payment, !.as_of = today]]
  /\ UNCHANGED <<row, settled, receipt, today>>

AskSettle(s, payment) == Ask(s, "settle", payment)
AskCancel(s, o)       == Ask(s, "cancel", [Idle.payment EXCEPT !.obligation = o])

Target(s) == session[s].payment.obligation

LockedNever(o) == FALSE   \* mutant: the row is read without FOR UPDATE

\* Some request holds the row FOR UPDATE.
Locked(o) == \E s \in Session : session[s].op # "idle" /\ session[s].phase # "wait" /\ Target(s) = o

\* SELECT ... FOR UPDATE: the row is read once nobody else holds it.
Lock(s) ==
  /\ session[s].op # "idle" /\ session[s].phase = "wait"
  /\ ~Locked(Target(s))
  /\ session' = [session EXCEPT ![s] = [@ EXCEPT !.phase = "locked", !.status = row[Target(s)].status]]
  /\ UNCHANGED <<row, settled, receipt, today>>

\* receivable_settled_amount(), payable_settled_amount()
Sum(s) ==
  /\ session[s].op = "settle" /\ session[s].phase = "locked"
  /\ session' = [session EXCEPT ![s] = [@ EXCEPT !.phase = "summed", !.sum = settled[Target(s)]]]
  /\ UNCHANGED <<row, settled, receipt, today>>

\* mutant: only full payment is refused, not payment beyond the rest
AcceptsUnbounded(s) ==
  /\ session[s].status \in {"open", "partially_paid"}
  /\ session[s].payment.currency = row[Target(s)].currency

\* _validate_settlement()
Accepts(s) ==
  /\ session[s].status \in {"open", "partially_paid"}
  /\ session[s].payment.currency = row[Target(s)].currency
  /\ session[s].payment.amount <= row[Target(s)].amount - session[s].sum

NextStatusByPayment(s) ==   \* mutant: the last payment alone is compared
  IF session[s].payment.amount = row[Target(s)].amount THEN "paid" ELSE "partially_paid"

\* _next_status()
NextStatus(s) ==
  IF session[s].sum + session[s].payment.amount = row[Target(s)].amount THEN "paid" ELSE "partially_paid"

\* _obligation_view() of the new state, read back in the same transaction.
ViewAfter(s) ==
  LET r    == row'[Target(s)]
      rest == r.amount - settled'[Target(s)]
  IN [status |-> IF Overdue(r, rest, session[s].as_of) THEN "overdue" ELSE r.status,
      outstanding |-> rest]

Finish(s) == session' = [session EXCEPT ![s] = Idle]

Settle(s) ==
  LET o == Target(s) IN
  /\ session[s].op = "settle" /\ session[s].phase = "summed"
  /\ Accepts(s)
  /\ settled' = [settled EXCEPT ![o] = @ + session[s].payment.amount]
  /\ row' = [row EXCEPT ![o] = [@ EXCEPT !.status = NextStatus(s)]]
  /\ receipt' = [receipt EXCEPT ![o] = ViewAfter(s)]
  /\ Finish(s)
  /\ UNCHANGED today

\* _cancel(): cancelling twice is allowed and changes nothing.
Cancellable(s) == session[s].status # "paid"

Cancel(s) ==
  /\ session[s].op = "cancel" /\ session[s].phase = "locked"
  /\ Cancellable(s)
  /\ row' = [row EXCEPT ![Target(s)] = [@ EXCEPT !.status = "cancelled"]]
  /\ Finish(s)
  /\ UNCHANGED <<settled, receipt, today>>

\* A refusal, an error, a lost connection or a crash ends the transaction.
Rollback(s) ==
  /\ session[s].op # "idle"
  /\ Finish(s)
  /\ UNCHANGED <<row, settled, receipt, today>>

Next ==
  \/ NextDay
  \/ \E o \in Obligation, a \in Amount, c \in Currency, d \in Day \cup {NoDay} : Create(o, a, c, d)
  \/ \E s \in Session :
       \/ \E p \in SettlementRow : AskSettle(s, p)
       \/ \E o \in Obligation : AskCancel(s, o)
       \/ Lock(s) \/ Sum(s) \/ Settle(s) \/ Cancel(s) \/ Rollback(s)

Spec == Init /\ [][Next]_vars

-----------------------------------------------------------------------------
(* Properties *)

TypeOK ==
  /\ row \in [Obligation -> Row]
  /\ settled \in [Obligation -> 0..MaxAmount]
  /\ session \in [Session -> SessionState]
  /\ receipt \in [Obligation -> View \cup {NoView}]
  /\ today \in Day

\* The stored status always tells what the settlement rows add up to, and they
\* never add up to more than the principal, whichever settlements and
\* cancellations ran side by side (obligation_service.py, the row lock).
StatusFollowsHistory ==
  \A o \in Obligation :
    /\ row[o].status \in {"absent", "open"} => settled[o] = 0
    /\ row[o].status = "partially_paid" => settled[o] \in 1..(row[o].amount - 1)
    /\ row[o].status = "paid" => settled[o] = row[o].amount
    /\ row[o].status = "cancelled" => settled[o] < row[o].amount

\* What is paid or cancelled stays so, with its history: a settlement that read
\* the row before a cancellation must not land after it (docs/phase1-ledger.md,
\* settlement of terminal records fails).
TerminalIsFinal ==
  [][\A o \in Obligation : row[o].status \in {"paid", "cancelled"} =>
        row'[o] = row[o] /\ settled'[o] = settled[o]]_vars

\* Each settlement of an obligation is answered with less outstanding than the one
\* before: no two payers are told that they paid the same rest, and only one that
\* the obligation is paid.
ReceiptsCountDown ==
  [][\A o \in Obligation : receipt'[o] # receipt[o] =>
        /\ receipt'[o].outstanding < receipt[o].outstanding
        /\ receipt'[o].status = "paid" <=> receipt'[o].outstanding = 0]_vars

\* The date of a view may be older than the answer, when the request waited for the
\* lock over midnight; it errs on one side only: what a receipt calls overdue is past
\* its due date and still owed at that moment.
OverdueIsLate ==
  [][\A o \in Obligation : receipt'[o] # receipt[o] /\ receipt'[o].status = "overdue" =>
        row[o].due < today /\ row'[o].status = "partially_paid"]_vars

\* A step changes the exposure of one direction and currency at most, and an owner
\* sees it rise only when an obligation is opened.
ExposureMovesOneWay ==
  [][\A k \in {"receivable", "payable"}, c \in Currency :
        Exposure(k, c)' > Exposure(k, c) =>
          \E o \in Obligation : ~Exists(o) /\ row'[o].status = "open" /\ KindOf[o] = k]_vars
=============================================================================
