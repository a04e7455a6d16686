------------------------- MODULE ObligationsProofs -------------------------
(***************************************************************************)
(* Theorems about receivables and payables, for every set of obligations,  *)
(* currencies and requests, and every bound on amounts and days.           *)
(***************************************************************************)
EXTENDS Obligations, Sums

-----------------------------------------------------------------------------
(* The inductive invariant *)

\* The request s has the row of its obligation locked.
Holds(s) == session[s].op # "idle" /\ session[s].phase # "wait"

(* What a request read under the lock is still so: the status, and the sum   *)
(* once it has one. The day it took before it waited may only be past.       *)
SessionOK(s) ==
  /\ session[s].op # "idle" => Exists(Target(s)) /\ session[s].as_of <= today
  /\ Holds(s) => session[s].status = row[Target(s)].status
  /\ Holds(s) /\ session[s].phase = "summed" => session[s].sum = settled[Target(s)]

\* Two requests never have the same row locked.
LocksApart ==
  \A s, t \in Session : s # t /\ Holds(s) /\ Holds(t) => Target(s) # Target(t)

\* The last receipt of an obligation tells what is left of it.
ReceiptOK(o) ==
  receipt[o] = NoView \/ (Exists(o) /\ receipt[o] \in View
                          /\ receipt[o].outstanding = Remaining(o))

IInv ==
  /\ TypeOK /\ StatusFollowsHistory /\ LocksApart
  /\ \A s \in Session : SessionOK(s)
  /\ \A o \in Obligation : ReceiptOK(o)

\* The record of an idle request and that of no row have their types.
LEMMA Resting ==
  ASSUME ObligationsAssumption
  PROVE  Idle \in SessionState /\ Vacant \in Row /\ Idle.op = "idle"
<1>1. (CHOOSE c \in Currency : TRUE) \in Currency
  BY DEF ObligationsAssumption
<1>2. (CHOOSE o \in Obligation : TRUE) \in Obligation
  BY DEF ObligationsAssumption
<1>3. 1 \in Amount /\ 1 \in Day /\ 0 \in 0..MaxAmount
  BY DEF ObligationsAssumption, Amount, Day
<1> QED BY <1>1, <1>2, <1>3 DEF Idle, SessionState, SettlementRow, Status, Vacant, Row

\* The invariant holds while there is neither an obligation nor a request.
LEMMA InitInv ==
  ASSUME ObligationsAssumption, Init
  PROVE  IInv
<1>1. TypeOK
  BY Resting DEF Init, TypeOK, Day, ObligationsAssumption
<1>2. StatusFollowsHistory
  BY DEF Init, StatusFollowsHistory, Vacant
<1>3. \A s \in Session : session[s].op = "idle"
  BY Resting DEF Init
<1>4. LocksApart /\ \A s \in Session : SessionOK(s)
  BY <1>3 DEF LocksApart, SessionOK, Holds
<1>5. \A o \in Obligation : ReceiptOK(o)
  BY DEF Init, ReceiptOK
<1> QED BY <1>1, <1>2, <1>4, <1>5 DEF IInv

-----------------------------------------------------------------------------
(* Requests *)

\* A step of the request s that leaves the rows alone.
LEMMA SessionStep ==
  ASSUME ObligationsAssumption, IInv, NEW s \in Session, NEW x \in SessionState,
         session' = [session EXCEPT ![s] = x],
         UNCHANGED <<row, settled, receipt, today>>,
         SessionOK(s)',
         Holds(s)' => \A t \in Session \ {s} : Holds(t) => Target(t) # Target(s)'
  PROVE  IInv'
<1>1. /\ session' \in [Session -> SessionState] /\ session'[s] = x
      /\ \A t \in Session \ {s} : session'[t] = session[t]
  BY DEF IInv, TypeOK
<1>2. TypeOK'
  BY <1>1 DEF IInv, TypeOK
<1>3. \A t \in Session \ {s} : (Holds(t)' <=> Holds(t)) /\ Target(t)' = Target(t)
  BY <1>1 DEF Holds, Target
<1>4. LocksApart'
  BY <1>3 DEF IInv, LocksApart
<1>5. ASSUME NEW t \in Session PROVE SessionOK(t)'
  BY <1>1, <1>3 DEF IInv, SessionOK, Exists
<1>6. StatusFollowsHistory'
  BY DEF IInv, StatusFollowsHistory
<1>7. ASSUME NEW o \in Obligation PROVE ReceiptOK(o)'
  BY DEF IInv, ReceiptOK, Exists, Remaining
<1> QED BY <1>2, <1>4, <1>5, <1>6, <1>7 DEF IInv

\* A request that begins holds no lock.
LEMMA AskStep ==
  ASSUME ObligationsAssumption, IInv, NEW s \in Session, NEW op \in {"settle", "cancel"},
         NEW payment \in SettlementRow, Ask(s, op, payment)
  PROVE  IInv'
<1>1. PICK x : x = [Idle EXCEPT !.op = op, !.payment = payment, !.as_of = today]
  OBVIOUS
<1>2. /\ x \in SessionState /\ x.op = op /\ x.phase = "wait" /\ x.payment = payment
      /\ x.as_of = today
  BY <1>1, Resting DEF Idle, SessionState, IInv, TypeOK
<1>3. /\ session' = [session EXCEPT ![s] = x] /\ Exists(payment.obligation)
      /\ UNCHANGED <<row, settled, receipt, today>>
  BY <1>1 DEF Ask
<1>4. session'[s] = x
  BY <1>3 DEF IInv, TypeOK
<1>5. SessionOK(s)' /\ ~Holds(s)'
  BY <1>2, <1>3, <1>4 DEF SessionOK, Holds, Target, Exists, IInv, TypeOK, Day
<1> QED BY <1>2, <1>3, <1>5, SessionStep

\* A request that gets the row lock reads the status it finds.
LEMMA LockStep ==
  ASSUME ObligationsAssumption, IInv, NEW s \in Session, Lock(s)
  PROVE  IInv'
<1>1. PICK x : x = [session[s] EXCEPT !.phase = "locked", !.status = row[Target(s)].status]
  OBVIOUS
<1>2. /\ session[s] \in SessionState /\ Target(s) \in Obligation
      /\ row[Target(s)].status \in Status
  BY DEF IInv, TypeOK, SessionState, SettlementRow, Target, Row
<1>3. /\ x \in SessionState /\ x.op = session[s].op /\ x.phase = "locked"
      /\ x.payment = session[s].payment /\ x.as_of = session[s].as_of
      /\ x.status = row[Target(s)].status
  BY <1>1, <1>2 DEF SessionState
<1>4. /\ session' = [session EXCEPT ![s] = x] /\ session[s].op # "idle"
      /\ ~Locked(Target(s))
      /\ UNCHANGED <<row, settled, receipt, today>>
  BY <1>1 DEF Lock
<1>5. session'[s] = x
  BY <1>4 DEF IInv, TypeOK
<1>6. Target(s)' = Target(s)
  BY <1>3, <1>5 DEF Target
<1>7. SessionOK(s)'
  BY <1>3, <1>4, <1>5, <1>6 DEF IInv, SessionOK, Holds, Exists
<1>8. \A t \in Session : Holds(t) => Target(t) # Target(s)'
  BY <1>4, <1>6 DEF Locked, Holds
<1> QED BY <1>3, <1>4, <1>7, <1>8, SessionStep

\* The settlements are summed under the lock.
LEMMA SumStep ==
  ASSUME ObligationsAssumption, IInv, NEW s \in Session, Sum(s)
  PROVE  IInv'
<1>1. PICK x : x = [session[s] EXCEPT !.phase = "summed", !.sum = settled[Target(s)]]
  OBVIOUS
<1>2. /\ session[s] \in SessionState /\ Target(s) \in Obligation
      /\ settled[Target(s)] \in 0..MaxAmount
  BY DEF IInv, TypeOK, SessionState, SettlementRow, Target
<1>3. /\ x \in SessionState /\ x.op = session[s].op /\ x.phase = "summed"
      /\ x.payment = session[s].payment /\ x.as_of = session[s].as_of
      /\ x.status = session[s].status /\ x.sum = settled[Target(s)]
  BY <1>1, <1>2 DEF SessionState
<1>4. /\ session' = [session EXCEPT ![s] = x] /\ Holds(s) /\ session[s].op # "idle"
      /\ UNCHANGED <<row, settled, receipt, today>>
  BY <1>1 DEF Sum, Holds
<1>5. session'[s] = x
  BY <1>4 DEF IInv, TypeOK
<1>6. Target(s)' = Target(s)
  BY <1>3, <1>5 DEF Target
<1>7. SessionOK(s)'
  BY <1>3, <1>4, <1>5, <1>6 DEF IInv, SessionOK, Holds, Exists
<1>8. \A t \in Session \ {s} : Holds(t) => Target(t) # Target(s)'
  BY <1>4, <1>6 DEF IInv, LocksApart
<1> QED BY <1>3, <1>4, <1>7, <1>8, SessionStep

\* A refused request changes no row.
LEMMA RollbackStep ==
  ASSUME ObligationsAssumption, IInv, NEW s \in Session, Rollback(s)
  PROVE  IInv'
<1>1. session' = [session EXCEPT ![s] = Idle] /\ UNCHANGED <<row, settled, receipt, today>>
  BY DEF Rollback, Finish
<1>2. session'[s].op = "idle" /\ Idle \in SessionState
  BY <1>1, Resting DEF IInv, TypeOK
<1>3. SessionOK(s)' /\ ~Holds(s)'
  BY <1>2 DEF SessionOK, Holds
<1> QED BY <1>1, <1>2, <1>3, SessionStep

-----------------------------------------------------------------------------
(* What changes a row *)

\* A new row has no settlements, and no request has asked for it.
LEMMA CreateStep ==
  ASSUME ObligationsAssumption, IInv, NEW o \in Obligation, NEW a \in Amount,
         NEW c \in Currency, NEW d \in Day \cup {NoDay}, Create(o, a, c, d)
  PROVE  IInv'
<1>1. PICK r : r = Opened(a, c, d)
  OBVIOUS
<1>2. r \in Row /\ r.status = "open" /\ r.amount = a
  BY <1>1 DEF Opened, Row, Status
<1>3. /\ row[o].status = "absent" /\ row' = [row EXCEPT ![o] = r]
      /\ UNCHANGED <<settled, session, receipt, today>>
  BY <1>1 DEF Create, Exists
<1>4. /\ row' \in [Obligation -> Row] /\ row'[o] = r
      /\ \A p \in Obligation \ {o} : row'[p] = row[p]
  BY <1>2, <1>3 DEF IInv, TypeOK
<1>5. TypeOK'
  BY <1>3, <1>4 DEF IInv, TypeOK
<1>6. StatusFollowsHistory'
  <2>1. settled[o] = 0
    BY <1>3 DEF IInv, StatusFollowsHistory
  <2> QED BY <1>2, <1>3, <1>4, <2>1 DEF IInv, StatusFollowsHistory
<1>7. ASSUME NEW s \in Session PROVE SessionOK(s)' /\ (Holds(s)' <=> Holds(s))
                                     /\ Target(s)' = Target(s)
  <2>1. Target(s) \in Obligation /\ Target(s)' = Target(s) /\ (Holds(s)' <=> Holds(s))
    BY <1>3 DEF IInv, TypeOK, SessionState, SettlementRow, Target, Holds
  <2>2. session[s].op # "idle" => Target(s) # o
    BY <1>3 DEF IInv, SessionOK, Exists
  <2>3. session[s].op # "idle" => row'[Target(s)] = row[Target(s)]
    BY <1>4, <2>1, <2>2
  <2> QED BY <1>3, <2>1, <2>3 DEF IInv, SessionOK, Exists, Holds
<1>8. LocksApart'
  BY <1>7 DEF IInv, LocksApart
<1>9. ASSUME NEW p \in Obligation PROVE ReceiptOK(p)'
  <2>1. CASE p = o
    BY <1>3, <2>1 DEF IInv, ReceiptOK, Exists
  <2>2. CASE p # o
    BY <1>3, <1>4, <2>2 DEF IInv, ReceiptOK, Exists, Remaining
  <2> QED BY <2>1, <2>2
<1> QED BY <1>5, <1>6, <1>7, <1>8, <1>9 DEF IInv

(* The request that has the row of o locked changes it and ends: the other   *)
(* requests that have a row locked have another one.                         *)
LEMMA RowStep ==
  ASSUME ObligationsAssumption, IInv, NEW s \in Session, Holds(s),
         NEW o \in Obligation, o = Target(s),
         NEW r \in Row, r.status # "absent", r.amount = row[o].amount,
         row' = [row EXCEPT ![o] = r],
         settled' \in [Obligation -> 0..MaxAmount],
         receipt' \in [Obligation -> View \cup {NoView}],
         \A p \in Obligation \ {o} : settled'[p] = settled[p] /\ receipt'[p] = receipt[p],
         session' = [session EXCEPT ![s] = Idle], UNCHANGED today,
         (/\ r.status = "open" => settled'[o] = 0
          /\ r.status = "partially_paid" => settled'[o] \in 1..(r.amount - 1)
          /\ r.status = "paid" => settled'[o] = r.amount
          /\ r.status = "cancelled" => settled'[o] < r.amount),
         ReceiptOK(o)'
  PROVE  IInv'
<1>1. /\ row' \in [Obligation -> Row] /\ row'[o] = r
      /\ \A p \in Obligation \ {o} : row'[p] = row[p]
  BY DEF IInv, TypeOK
<1>2. /\ session' \in [Session -> SessionState] /\ session'[s].op = "idle"
      /\ \A t \in Session \ {s} : session'[t] = session[t]
  BY Resting DEF IInv, TypeOK
<1>3. TypeOK'
  BY <1>1, <1>2 DEF IInv, TypeOK
<1>4. StatusFollowsHistory'
  <2>1. ASSUME NEW p \in Obligation, p # o
        PROVE  row'[p] = row[p] /\ settled'[p] = settled[p]
    BY <1>1, <2>1
  <2> QED BY <1>1, <2>1 DEF IInv, StatusFollowsHistory
<1>5. \A t \in Session \ {s} : (Holds(t)' <=> Holds(t)) /\ Target(t)' = Target(t)
  BY <1>2 DEF Holds, Target
<1>6. ~Holds(s)'
  BY <1>2 DEF Holds
<1>7. LocksApart'
  BY <1>5, <1>6 DEF IInv, LocksApart
<1>8. ASSUME NEW t \in Session PROVE SessionOK(t)'
  <2>1. CASE t = s
    BY <1>2, <2>1 DEF SessionOK, Holds
  <2>2. CASE t # s
    <3>1. SessionOK(t) /\ session'[t] = session[t] /\ Target(t)' = Target(t)
          /\ (Holds(t)' <=> Holds(t)) /\ Target(t) \in Obligation
      BY <1>2, <1>5, <2>2 DEF IInv, TypeOK, SessionState, SettlementRow, Target
    <3>2. Holds(t) => Target(t) # o
      BY <2>2 DEF IInv, LocksApart
    <3>3. row'[Target(t)].status # "absent" \/ ~Exists(Target(t))
      BY <1>1, <3>1 DEF Exists
    <3>4. Holds(t) => row'[Target(t)] = row[Target(t)] /\ settled'[Target(t)] = settled[Target(t)]
      BY <1>1, <3>1, <3>2
    <3> QED BY <3>1, <3>3, <3>4 DEF SessionOK, Exists
  <2> QED BY <2>1, <2>2
<1>9. ASSUME NEW p \in Obligation PROVE ReceiptOK(p)'
  <2>1. CASE p # o
    BY <1>1, <2>1 DEF IInv, ReceiptOK, Exists, Remaining
  <2> QED BY <2>1
<1> QED BY <1>3, <1>4, <1>7, <1>8, <1>9 DEF IInv

(* What a settlement writes: with the rest it may pay, the status that the   *)
(* sum and the payment add up to, and the receipt computed from both.        *)
LEMMA Settling ==
  ASSUME ObligationsAssumption, IInv, NEW s \in Session, Settle(s)
  PROVE  LET o == Target(s)
             pay == session[s].payment.amount
             r == row'[o]
             view == receipt'[o]
         IN
         /\ o \in Obligation /\ Holds(s) /\ pay \in Amount
         /\ row[o].status \in {"open", "partially_paid"}
         /\ settled[o] + pay <= row[o].amount
         /\ settled' = [settled EXCEPT ![o] = settled[o] + pay]
         /\ r = [row[o] EXCEPT !.status = IF settled[o] + pay = row[o].amount
                                          THEN "paid" ELSE "partially_paid"]
         /\ row' = [row EXCEPT ![o] = r]
         /\ view = [status |-> view.status, outstanding |-> view.outstanding]
         /\ view.outstanding = row[o].amount - (settled[o] + pay)
         /\ view.status = IF Overdue(r, view.outstanding, session[s].as_of)
                          THEN "overdue" ELSE r.status
         /\ receipt' = [receipt EXCEPT ![o] = view]
<1>1. PICK o : o = Target(s)
  OBVIOUS
<1>2. /\ o \in Obligation /\ session[s].payment.amount \in Amount /\ session[s] \in SessionState
      /\ row[o] \in Row /\ settled[o] \in 0..MaxAmount
  BY <1>1 DEF IInv, TypeOK, SessionState, SettlementRow, Target
<1>3. Holds(s) /\ session[s].phase = "summed" /\ Accepts(s)
  BY DEF Settle, Holds
<1>4. session[s].status = row[o].status /\ session[s].sum = settled[o]
  BY <1>1, <1>3 DEF IInv, SessionOK
<1>5. /\ row[o].status \in {"open", "partially_paid"}
      /\ settled[o] + session[s].payment.amount <= row[o].amount
  BY <1>1, <1>2, <1>3, <1>4 DEF Accepts, Amount, Row
<1>6. /\ settled' = [settled EXCEPT ![o] = settled[o] + session[s].payment.amount]
      /\ row' = [row EXCEPT ![o] = [row[o] EXCEPT !.status = NextStatus(s)]]
      /\ receipt' = [receipt EXCEPT ![o] = ViewAfter(s)]
  BY <1>1 DEF Settle
<1>7. NextStatus(s) = IF settled[o] + session[s].payment.amount = row[o].amount
                      THEN "paid" ELSE "partially_paid"
  BY <1>1, <1>4 DEF NextStatus
<1>8. /\ settled'[o] = settled[o] + session[s].payment.amount
      /\ row'[o] = [row[o] EXCEPT !.status = NextStatus(s)]
      /\ receipt'[o] = ViewAfter(s)
  BY <1>2, <1>6 DEF IInv, TypeOK
<1>9. row'[o].amount = row[o].amount
  BY <1>2, <1>8 DEF Row
<1>10. /\ ViewAfter(s) = [status |-> ViewAfter(s).status,
                           outstanding |-> ViewAfter(s).outstanding]
       /\ ViewAfter(s).outstanding = row'[o].amount - settled'[o]
       /\ ViewAfter(s).status = IF Overdue(row'[o], row'[o].amount - settled'[o], session[s].as_of)
                                THEN "overdue" ELSE row'[o].status
  BY <1>1 DEF ViewAfter
<1> QED BY <1>1, <1>2, <1>3, <1>5, <1>6, <1>7, <1>8, <1>9, <1>10

\* A settlement raises what is settled and sets the status with it.
LEMMA SettleStep ==
  ASSUME ObligationsAssumption, IInv, NEW s \in Session, Settle(s)
  PROVE  IInv'
<1>1. PICK o : o = Target(s)
  OBVIOUS
<1>2. PICK r : r = row'[o]
  OBVIOUS
<1>3. PICK total : total = settled[o] + session[s].payment.amount
  OBVIOUS
<1>4. PICK view : view = receipt'[o]
  OBVIOUS
<1>5. /\ o \in Obligation /\ Holds(s) /\ session[s].payment.amount \in Amount
      /\ row[o].status \in {"open", "partially_paid"} /\ total <= row[o].amount
      /\ settled' = [settled EXCEPT ![o] = total]
      /\ r = [row[o] EXCEPT !.status = IF total = row[o].amount THEN "paid" ELSE "partially_paid"]
      /\ row' = [row EXCEPT ![o] = r]
      /\ view = [status |-> view.status, outstanding |-> view.outstanding]
      /\ view.outstanding = row[o].amount - total
      /\ view.status = IF Overdue(r, view.outstanding, session[s].as_of)
                       THEN "overdue" ELSE r.status
      /\ receipt' = [receipt EXCEPT ![o] = view]
  BY <1>1, <1>2, <1>3, <1>4, Settling
<1>6. row[o] \in Row /\ settled[o] \in 0..MaxAmount /\ row[o].amount \in 1..MaxAmount
  BY <1>5 DEF IInv, TypeOK, Row, Amount
<1>7. /\ r \in Row /\ r.amount = row[o].amount /\ r.due = row[o].due
      /\ r.status = IF total = row[o].amount THEN "paid" ELSE "partially_paid"
  BY <1>5, <1>6 DEF Row, Status
<1>8. total \in 1..row[o].amount /\ total \in 0..MaxAmount
  BY <1>3, <1>5, <1>6, ObligationsAssumption DEF Amount, ObligationsAssumption
<1>9. view \in View
  <2>1. view.outstanding \in 0..MaxAmount
    BY <1>5, <1>6, <1>8 DEF ObligationsAssumption
  <2>2. view.status \in {"paid", "partially_paid", "overdue"}
    BY <1>5, <1>7
  <2> QED BY <1>5, <2>1, <2>2 DEF View
<1>10. session' = [session EXCEPT ![s] = Idle] /\ UNCHANGED today
  BY DEF Settle, Finish
<1>11. /\ settled' \in [Obligation -> 0..MaxAmount] /\ settled'[o] = total
       /\ receipt' \in [Obligation -> View \cup {NoView}] /\ receipt'[o] = view
       /\ \A p \in Obligation \ {o} : settled'[p] = settled[p] /\ receipt'[p] = receipt[p]
  BY <1>5, <1>8, <1>9 DEF IInv, TypeOK
<1>12. row'[o] = r
  BY <1>2
<1>13. ReceiptOK(o)'
  BY <1>5, <1>7, <1>9, <1>11, <1>12 DEF ReceiptOK, Exists, Remaining
<1>14. /\ r.status = "open" => settled'[o] = 0
       /\ r.status = "partially_paid" => settled'[o] \in 1..(r.amount - 1)
       /\ r.status = "paid" => settled'[o] = r.amount
       /\ r.status = "cancelled" => settled'[o] < r.amount
  BY <1>6, <1>7, <1>8, <1>11
<1>15. /\ o \in Obligation /\ Holds(s) /\ row' = [row EXCEPT ![o] = r]
       /\ r \in Row /\ r.status # "absent" /\ r.amount = row[o].amount
  BY <1>5, <1>7
<1> QED BY <1>1, <1>10, <1>11, <1>13, <1>14, <1>15, RowStep
\* A cancellation changes the status of a row that is not paid, if anything.
LEMMA CancelStep ==
  ASSUME ObligationsAssumption, IInv, NEW s \in Session, Cancel(s)
  PROVE  IInv'
<1>1. PICK o : o = Target(s)
  OBVIOUS
<1>2. PICK r : r = [row[o] EXCEPT !.status = "cancelled"]
  OBVIOUS
<1>3. /\ session[s].op = "cancel" /\ session[s].phase = "locked" /\ Cancellable(s)
      /\ row' = [row EXCEPT ![o] = r] /\ session' = [session EXCEPT ![s] = Idle]
      /\ UNCHANGED <<settled, receipt, today>>
  BY <1>1, <1>2 DEF Cancel, Finish
<1>4. o \in Obligation /\ Holds(s)
  BY <1>1, <1>3 DEF IInv, TypeOK, SessionState, SettlementRow, Target, Holds
<1>5. /\ row[o].status # "paid" /\ row[o].status # "absent"
      /\ row[o] \in Row /\ settled[o] \in 0..MaxAmount
  BY <1>1, <1>3, <1>4 DEF IInv, SessionOK, Exists, Cancellable, TypeOK
<1>6. r \in Row /\ r.status = "cancelled" /\ r.amount = row[o].amount
  BY <1>2, <1>5 DEF Row, Status
<1>7. settled[o] < row[o].amount
  <2>1. row[o].amount \in 1..MaxAmount /\ row[o].status \in Status
    BY <1>5 DEF Row, Amount
  <2> QED BY <1>4, <1>5, <2>1, ObligationsAssumption
          DEF IInv, StatusFollowsHistory, Status, ObligationsAssumption
<1>8. row'[o] = r
  BY <1>3, <1>4 DEF IInv, TypeOK
<1>9. ReceiptOK(o)'
  BY <1>3, <1>4, <1>6, <1>8 DEF IInv, ReceiptOK, Exists, Remaining
<1>10. /\ settled' \in [Obligation -> 0..MaxAmount]
       /\ receipt' \in [Obligation -> View \cup {NoView}]
       /\ \A p \in Obligation \ {o} : settled'[p] = settled[p] /\ receipt'[p] = receipt[p]
  BY <1>3 DEF IInv, TypeOK
<1>11. /\ r.status = "open" => settled'[o] = 0
       /\ r.status = "partially_paid" => settled'[o] \in 1..(r.amount - 1)
       /\ r.status = "paid" => settled'[o] = r.amount
       /\ r.status = "cancelled" => settled'[o] < r.amount
  BY <1>3, <1>6, <1>7
<1> QED BY <1>1, <1>3, <1>4, <1>6, <1>9, <1>10, <1>11, RowStep

\* Midnight makes nothing settled and leaves receipts that may only be past.
LEMMA NextDayStep ==
  ASSUME ObligationsAssumption, IInv, NextDay
  PROVE  IInv'
<1>1. today < LastDay /\ today' = today + 1 /\ UNCHANGED <<row, settled, session, receipt>>
  BY DEF NextDay
<1>2. today \in 1..LastDay /\ LastDay \in Nat
  BY DEF IInv, TypeOK, Day, ObligationsAssumption
<1>3. today' \in Day
  BY <1>1, <1>2 DEF Day
<1>4. TypeOK'
  BY <1>1, <1>3 DEF IInv, TypeOK
<1>5. ASSUME NEW s \in Session PROVE SessionOK(s)'
  <2>1. session[s].as_of \in 1..LastDay
    BY DEF IInv, TypeOK, SessionState, Day
  <2> QED BY <1>1, <1>2, <2>1 DEF IInv, SessionOK, Holds, Target, Exists
<1>6. LocksApart' /\ StatusFollowsHistory'
  BY <1>1 DEF IInv, LocksApart, Holds, Target, StatusFollowsHistory
<1>7. ASSUME NEW o \in Obligation PROVE ReceiptOK(o)'
  BY <1>1 DEF IInv, ReceiptOK, Exists, Remaining
<1> QED BY <1>4, <1>5, <1>6, <1>7 DEF IInv

\* Every step keeps the invariant.
LEMMA StepInv ==
  ASSUME ObligationsAssumption
  PROVE  IInv /\ [Next]_vars => IInv'
<1> SUFFICES ASSUME IInv, [Next]_vars PROVE IInv'
  OBVIOUS
<1>1. ASSUME NEW o \in Obligation, NEW a \in Amount, NEW c \in Currency,
             NEW d \in Day \cup {NoDay}, Create(o, a, c, d)
      PROVE  IInv'
  BY <1>1, CreateStep
<1>2. ASSUME NEW s \in Session, NEW p \in SettlementRow, AskSettle(s, p) PROVE IInv'
  BY <1>2, AskStep DEF AskSettle
<1>3. ASSUME NEW s \in Session, NEW o \in Obligation, AskCancel(s, o) PROVE IInv'
  <2>1. [Idle.payment EXCEPT !.obligation = o] \in SettlementRow
    BY Resting DEF SessionState, SettlementRow
  <2> QED BY <1>3, <2>1, AskStep DEF AskCancel
<1>4. ASSUME NEW s \in Session, Lock(s) \/ Sum(s) \/ Settle(s) \/ Cancel(s) \/ Rollback(s)
      PROVE  IInv'
  BY <1>4, LockStep, SumStep, SettleStep, CancelStep, RollbackStep
<1>5. CASE UNCHANGED vars
  BY <1>5 DEF vars, IInv, TypeOK, StatusFollowsHistory, LocksApart, SessionOK, Holds, Target,
     Exists, ReceiptOK, Remaining
<1> QED BY <1>1, <1>2, <1>3, <1>4, <1>5, NextDayStep DEF Next

-----------------------------------------------------------------------------
(* The theorems *)

\* The invariant holds in every reachable state.
THEOREM Invariance ==
  ASSUME ObligationsAssumption
  PROVE  Spec => []IInv
<1>1. Init => IInv
  BY InitInv
<1> QED BY <1>1, StepInv, PTL DEF Spec

\* Rows, sums, requests and receipts keep their types.
THEOREM Typed ==
  ASSUME ObligationsAssumption
  PROVE  Spec => []TypeOK
<1>1. IInv => TypeOK
  BY DEF IInv
<1> QED BY <1>1, Invariance, PTL

(* The stored status tells what the settlement rows add up to, and they never *)
(* add up to more than the principal: the sum is read after the row lock.     *)
THEOREM StatusTells ==
  ASSUME ObligationsAssumption
  PROVE  Spec => []StatusFollowsHistory
<1>1. IInv => StatusFollowsHistory
  BY DEF IInv
<1> QED BY <1>1, Invariance, PTL

\* The obligation that a step settles or cancels, if any, and how.
LEMMA OnlyRowChanged ==
  ASSUME ObligationsAssumption, IInv, [Next]_vars, NEW o \in Obligation, Exists(o),
         row'[o] # row[o] \/ settled'[o] # settled[o] \/ receipt'[o] # receipt[o]
  PROVE  \E s \in Session : o = Target(s) /\ (Settle(s) \/ Cancel(s))
<1>1. ASSUME NEW p \in Obligation, NEW a \in Amount, NEW c \in Currency,
             NEW d \in Day \cup {NoDay}, Create(p, a, c, d)
      PROVE  FALSE
  BY <1>1 DEF Create, Exists, IInv, TypeOK
<1>2. ASSUME NEW s \in Session, Settle(s) \/ Cancel(s) PROVE o = Target(s)
  BY <1>2 DEF Settle, Cancel, IInv, TypeOK
<1>3. ~NextDay /\ ~UNCHANGED vars
  BY DEF NextDay, vars
<1>4. ASSUME NEW s \in Session, NEW p \in SettlementRow, AskSettle(s, p) PROVE FALSE
  BY <1>4 DEF AskSettle, Ask
<1>5. ASSUME NEW s \in Session, NEW p \in Obligation, AskCancel(s, p) PROVE FALSE
  BY <1>5 DEF AskCancel, Ask
<1>6. ASSUME NEW s \in Session, Lock(s) \/ Sum(s) \/ Rollback(s) PROVE FALSE
  BY <1>6 DEF Lock, Sum, Rollback
<1> QED BY <1>1, <1>2, <1>3, <1>4, <1>5, <1>6 DEF Next

(* What is paid or cancelled keeps its row and its settlements, whatever     *)
(* requests waited for its lock.                                             *)
THEOREM Terminal ==
  ASSUME ObligationsAssumption
  PROVE  Spec => TerminalIsFinal
<1> DEFINE Kept == \A o \in Obligation : row[o].status \in {"paid", "cancelled"} =>
                      row'[o] = row[o] /\ settled'[o] = settled[o]
<1>1. IInv /\ [Next]_vars => Kept
  <2> SUFFICES ASSUME IInv, [Next]_vars, NEW o \in Obligation,
                      row[o].status \in {"paid", "cancelled"},
                      row'[o] # row[o] \/ settled'[o] # settled[o]
               PROVE  FALSE
    OBVIOUS
  <2>1. PICK s \in Session : o = Target(s) /\ (Settle(s) \/ Cancel(s))
    BY OnlyRowChanged DEF Exists
  <2>2. CASE Settle(s)
    BY <2>1, <2>2, Settling
  <2>3. CASE Cancel(s)
    <3>1. row[o].status = "cancelled"
      BY <2>1, <2>3 DEF Cancel, Cancellable, IInv, SessionOK, Holds
    <3> QED BY <2>1, <2>3, <3>1 DEF Cancel, IInv, TypeOK, Row
  <2> QED BY <2>1, <2>2, <2>3
<1> QED BY <1>1, Invariance, PTL DEF Spec, TerminalIsFinal

\* Only a settlement answers with a receipt.
LEMMA Answering ==
  ASSUME ObligationsAssumption, IInv, [Next]_vars, NEW o \in Obligation,
         receipt'[o] # receipt[o]
  PROVE  \E s \in Session : o = Target(s) /\ Settle(s)
<1>1. Exists(o)
  <2>1. ASSUME NEW s \in Session, Settle(s), o = Target(s) PROVE Exists(o)
    BY <2>1, Settling DEF Exists
  <2>2. ASSUME NEW s \in Session, Settle(s), o # Target(s) PROVE FALSE
    BY <2>2 DEF Settle, IInv, TypeOK
  <2>3. UNCHANGED receipt \/ \E s \in Session : Settle(s)
    BY DEF Next, NextDay, Create, AskSettle, AskCancel, Ask, Lock, Sum, Cancel, Rollback, vars
  <2> QED BY <2>1, <2>2, <2>3
<1>2. PICK s \in Session : o = Target(s) /\ (Settle(s) \/ Cancel(s))
  BY <1>1, OnlyRowChanged
<1> QED BY <1>2 DEF Cancel

(* Each settlement is answered with less outstanding than the one before, and *)
(* with "paid" exactly when nothing is left.                                  *)
THEOREM Receipts ==
  ASSUME ObligationsAssumption
  PROVE  Spec => ReceiptsCountDown
<1> DEFINE Down == \A o \in Obligation : receipt'[o] # receipt[o] =>
                      /\ receipt'[o].outstanding < receipt[o].outstanding
                      /\ receipt'[o].status = "paid" <=> receipt'[o].outstanding = 0
<1>1. IInv /\ [Next]_vars => Down
  <2> SUFFICES ASSUME IInv, [Next]_vars, NEW o \in Obligation, receipt'[o] # receipt[o]
               PROVE  /\ receipt'[o].outstanding < receipt[o].outstanding
                      /\ receipt'[o].status = "paid" <=> receipt'[o].outstanding = 0
    OBVIOUS
  <2>1. PICK s \in Session : o = Target(s) /\ Settle(s)
    BY Answering
  <2>2. PICK pay : pay = session[s].payment.amount
    OBVIOUS
  <2>3. /\ pay \in 1..MaxAmount /\ settled[o] + pay <= row[o].amount
        /\ receipt'[o].outstanding = row[o].amount - (settled[o] + pay)
        /\ row'[o] = [row[o] EXCEPT !.status = IF settled[o] + pay = row[o].amount
                                               THEN "paid" ELSE "partially_paid"]
        /\ receipt'[o].status = IF Overdue(row'[o], receipt'[o].outstanding, session[s].as_of)
                                THEN "overdue" ELSE row'[o].status
    BY <2>1, <2>2, Settling DEF Amount
  <2>4. row[o].amount \in 1..MaxAmount /\ settled[o] \in 0..MaxAmount /\ row[o] \in Row
        /\ MaxAmount \in Nat
    BY DEF IInv, TypeOK, Row, Amount, ObligationsAssumption
  <2>5. row'[o].status = IF settled[o] + pay = row[o].amount THEN "paid" ELSE "partially_paid"
    BY <2>3, <2>4 DEF Row
  <2>6. receipt'[o].outstanding < receipt[o].outstanding
    <3>1. CASE receipt[o] = NoView
      BY <2>3, <2>4, <3>1 DEF NoView
    <3>2. CASE receipt[o].outstanding = Remaining(o)
      BY <2>3, <2>4, <3>2 DEF Remaining
    <3> QED BY <3>1, <3>2 DEF IInv, ReceiptOK
  <2>7. receipt'[o].status = "paid" <=> receipt'[o].outstanding = 0
    BY <2>3, <2>4, <2>5 DEF Overdue
  <2> QED BY <2>6, <2>7
<1> QED BY <1>1, Invariance, PTL DEF Spec, ReceiptsCountDown

(* A receipt may be computed for yesterday, when its request waited for the  *)
(* lock over midnight: what it calls overdue is overdue all the same.        *)
THEOREM Lateness ==
  ASSUME ObligationsAssumption
  PROVE  Spec => OverdueIsLate
<1> DEFINE Late == \A o \in Obligation :
                      receipt'[o] # receipt[o] /\ receipt'[o].status = "overdue" =>
                         row[o].due < today /\ row'[o].status = "partially_paid"
<1>1. IInv /\ [Next]_vars => Late
  <2> SUFFICES ASSUME IInv, [Next]_vars, NEW o \in Obligation, receipt'[o] # receipt[o],
                      receipt'[o].status = "overdue"
               PROVE  row[o].due < today /\ row'[o].status = "partially_paid"
    OBVIOUS
  <2>1. PICK s \in Session : o = Target(s) /\ Settle(s)
    BY Answering
  <2>2. PICK total : total = settled[o] + session[s].payment.amount
    OBVIOUS
  <2>3. /\ row'[o] = [row[o] EXCEPT !.status = IF total = row[o].amount
                                               THEN "paid" ELSE "partially_paid"]
        /\ receipt'[o].status = IF Overdue(row'[o], receipt'[o].outstanding, session[s].as_of)
                                THEN "overdue" ELSE row'[o].status
        /\ Holds(s) /\ row[o] \in Row
    BY <2>1, <2>2, Settling DEF IInv, TypeOK
  <2>4. /\ row'[o].status = IF total = row[o].amount THEN "paid" ELSE "partially_paid"
        /\ row'[o].due = row[o].due
    BY <2>3 DEF Row
  <2>5. Overdue(row'[o], receipt'[o].outstanding, session[s].as_of)
    BY <2>3, <2>4
  <2>6. session[s].as_of <= today /\ session[s].as_of \in 1..LastDay /\ today \in 1..LastDay
        /\ LastDay \in Nat
    BY <2>3 DEF IInv, SessionOK, Holds, TypeOK, SessionState, Day, ObligationsAssumption
  <2>7. row[o].due \in 1..(session[s].as_of - 1) /\ row'[o].status = "partially_paid"
    BY <2>4, <2>5 DEF Overdue
  <2> QED BY <2>6, <2>7
<1> QED BY <1>1, Invariance, PTL DEF Spec, OverdueIsLate

\* What a step does to the row of an obligation, as far as exposure goes.
LEMMA RowsMove ==
  ASSUME ObligationsAssumption, IInv, [Next]_vars, NEW o \in Obligation
  PROVE  /\ Exists(o) => /\ Exists(o)' /\ row'[o].currency = row[o].currency
                         /\ Outstanding(o) \in Int /\ Outstanding(o)' \in Int
                         /\ Outstanding(o)' <= Outstanding(o)
         /\ ~Exists(o) => ~Exists(o)' \/ row'[o].status = "open"
<1>1. row[o] \in Row /\ settled[o] \in 0..MaxAmount /\ MaxAmount \in Nat
        /\ row[o].amount \in 1..MaxAmount
  BY DEF IInv, TypeOK, Row, Amount, ObligationsAssumption
<1>2. Outstanding(o) \in Int
  BY <1>1 DEF Outstanding, Remaining
<1>3. CASE Exists(o) /\ row'[o] = row[o] /\ settled'[o] = settled[o]
  BY <1>2, <1>3 DEF Exists, Outstanding, Remaining
<1>4. CASE Exists(o) /\ (row'[o] # row[o] \/ settled'[o] # settled[o])
  <2>1. PICK s \in Session : o = Target(s) /\ (Settle(s) \/ Cancel(s))
    BY <1>4, OnlyRowChanged
  <2>2. CASE Settle(s)
    <3>1. PICK pay : pay = session[s].payment.amount
      OBVIOUS
    <3>2. /\ pay \in 1..MaxAmount
          /\ settled' = [settled EXCEPT ![o] = @ + pay]
          /\ row'[o] = [row[o] EXCEPT !.status = IF settled[o] + pay = row[o].amount
                                                 THEN "paid" ELSE "partially_paid"]
          /\ row[o].status \in {"open", "partially_paid"}
      BY <2>1, <2>2, <3>1, Settling DEF Amount, Settle
    <3>3. settled'[o] = settled[o] + pay
      BY <3>2 DEF IInv, TypeOK
    <3>4. /\ row'[o].status \in {"paid", "partially_paid"} /\ row'[o].amount = row[o].amount
          /\ row'[o].currency = row[o].currency
      BY <1>1, <3>2 DEF Row
    <3>5. Outstanding(o)' = row[o].amount - (settled[o] + pay)
            /\ Outstanding(o) = row[o].amount - settled[o]
      BY <3>2, <3>3, <3>4 DEF Outstanding, Remaining
    <3> QED BY <1>1, <1>4, <3>2, <3>4, <3>5 DEF Exists
  <2>3. CASE Cancel(s)
    <3>1. row'[o] = [row[o] EXCEPT !.status = "cancelled"] /\ settled'[o] = settled[o]
      BY <2>1, <2>3 DEF Cancel, IInv, TypeOK
    <3>2. row'[o].status = "cancelled" /\ row'[o].currency = row[o].currency
      BY <1>1, <3>1 DEF Row
    <3>3. Outstanding(o)' = 0
      BY <3>2 DEF Outstanding
    <3>4. 0 <= Outstanding(o)
      BY <1>1 DEF IInv, StatusFollowsHistory, Outstanding, Remaining, Row, Status
    <3> QED BY <1>2, <1>4, <3>2, <3>3, <3>4 DEF Exists
  <2> QED BY <2>1, <2>2, <2>3
<1>5. CASE ~Exists(o)
  <2>1. ASSUME NEW p \in Obligation, NEW a \in Amount, NEW c \in Currency,
               NEW d \in Day \cup {NoDay}, Create(p, a, c, d)
        PROVE  row'[o] = row[o] \/ row'[o].status = "open"
    BY <2>1 DEF Create, Opened, IInv, TypeOK
  <2>2. ASSUME NEW s \in Session, Settle(s) \/ Cancel(s) PROVE row'[o] = row[o]
    <3>1. Exists(Target(s))
      BY <2>2 DEF IInv, SessionOK, Settle, Cancel
    <3> QED BY <1>5, <2>2, <3>1 DEF Settle, Cancel, IInv, TypeOK
  <2>3. \/ UNCHANGED row
        \/ \E s \in Session : Settle(s) \/ Cancel(s)
        \/ \E p \in Obligation, a \in Amount, c \in Currency,
             d \in Day \cup {NoDay} : Create(p, a, c, d)
    BY DEF Next, NextDay, AskSettle, AskCancel, Ask, Lock, Sum, Rollback, vars
  <2> QED BY <1>5, <2>1, <2>2, <2>3 DEF Exists
<1> QED BY <1>3, <1>4, <1>5

\* The tables hold finitely many rows: a step inserts one at most.
Finite == IsFiniteSet({o \in Obligation : Exists(o)})

\* The exposure is read from tables with finitely many rows.
THEOREM FiniteTables ==
  ASSUME ObligationsAssumption
  PROVE  Spec => []Finite
<1>1. Init => Finite
  <2>1. ASSUME Init PROVE {o \in Obligation : Exists(o)} = {}
    BY <2>1 DEF Init, Exists, Vacant
  <2> QED BY <2>1, FS_EmptySet DEF Finite
<1>2. Finite /\ IInv /\ [Next]_vars => Finite'
  <2> SUFFICES ASSUME Finite, IInv, [Next]_vars PROVE Finite'
    OBVIOUS
  <2> DEFINE Now  == {o \in Obligation : Exists(o)}
             Then == {o \in Obligation : Exists(o)'}
  <2>1. IsFiniteSet(Now)
    BY DEF Finite
  <2>2. CASE \E p \in Obligation, a \in Amount, c \in Currency,
          d \in Day \cup {NoDay} : Create(p, a, c, d)
    <3>1. PICK p \in Obligation, a \in Amount, c \in Currency,
            d \in Day \cup {NoDay} : Create(p, a, c, d)
      BY <2>2
    <3>2. Then \subseteq Now \cup {p}
      BY <3>1 DEF Create, Exists, IInv, TypeOK
    <3>3. IsFiniteSet(Now \cup {p})
      BY <2>1, FS_AddElement
    <3> QED BY <3>2, <3>3, FS_Subset DEF Finite
  <2>3. CASE \E s \in Session : Settle(s) \/ Cancel(s)
    <3>1. PICK s \in Session : Settle(s) \/ Cancel(s)
      BY <2>3
    <3>2. Exists(Target(s))
      BY <3>1 DEF IInv, SessionOK, Settle, Cancel
    <3>3. Then \subseteq Now
      BY <3>1, <3>2 DEF Settle, Cancel, Exists, IInv, TypeOK
    <3> QED BY <2>1, <3>3, FS_Subset DEF Finite
  <2>4. CASE UNCHANGED row
    <3>1. Then = Now
      BY <2>4 DEF Exists
    <3> QED BY <2>1, <3>1 DEF Finite
  <2> QED BY <2>2, <2>3, <2>4 DEF Next, NextDay, AskSettle, AskCancel, Ask, Lock, Sum, Rollback, vars
<1> QED BY <1>1, <1>2, Invariance, PTL DEF Spec

(* Exposure in one direction and currency rises only when an obligation is    *)
(* opened in that direction: the rows it sums stay, and none owes more.       *)
THEOREM Exposing ==
  ASSUME ObligationsAssumption
  PROVE  Spec => ExposureMovesOneWay
<1> DEFINE OneWay == \A k \in {"receivable", "payable"}, c \in Currency :
                        Exposure(k, c)' > Exposure(k, c) =>
                          \E o \in Obligation : ~Exists(o) /\ row'[o].status = "open" /\ KindOf[o] = k
<1>1. IInv /\ Finite /\ [Next]_vars => OneWay
  <2> SUFFICES ASSUME IInv, Finite, [Next]_vars,
                      NEW k \in {"receivable", "payable"}, NEW c \in Currency,
                      ~\E o \in Obligation : ~Exists(o) /\ row'[o].status = "open" /\ KindOf[o] = k
               PROVE  ~(Exposure(k, c)' > Exposure(k, c))
    OBVIOUS
  <2> DEFINE S == {o \in Obligation : Exists(o) /\ KindOf[o] = k /\ row[o].currency = c}
             T == {o \in Obligation : Exists(o)' /\ KindOf[o] = k /\ row'[o].currency = c}
  <2>1. T = S
    <3>1. ASSUME NEW o \in Obligation PROVE o \in T <=> o \in S
      BY RowsMove DEF Exists
    <3> QED BY <3>1
  <2>2. IsFiniteSet(S)
    BY FS_Subset DEF Finite
  <2>3. PICK f : f = [o \in Obligation |-> Outstanding(o)]
    OBVIOUS
  <2>4. PICK g : g = [o \in Obligation |-> Outstanding(o)']
    OBVIOUS
  <2>5. \A o \in S : g[o] \in Int /\ f[o] \in Int /\ g[o] <= f[o]
    BY <2>3, <2>4, RowsMove
  <2> HIDE DEF S, T
  <2>6. SumFunctionOnSet(g, S) <= SumFunctionOnSet(f, S)
    BY <2>2, <2>5, SumOrder
  <2>7. SumFunctionOnSet(g, S) \in Int /\ SumFunctionOnSet(f, S) \in Int
    BY <2>2, <2>5, SumTyped
  <2>8. Exposure(k, c) = SumFunctionOnSet(f, S)
    BY <2>3 DEF Exposure, S
  <2>9. Exposure(k, c)' = SumFunctionOnSet(g, T)
    BY <2>4 DEF Exposure, T
  <2> QED BY <2>1, <2>6, <2>7, <2>8, <2>9
<1> QED BY <1>1, Invariance, FiniteTables, PTL DEF Spec, ExposureMovesOneWay
=============================================================================
