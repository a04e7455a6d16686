-------------------------- MODULE CanonicalLedger --------------------------
(***************************************************************************)
(* What ingestion, review and reconciliation promise to the owner of a     *)
(* ledger, with no locks, sessions, proposals or processing states: every  *)
(* source event ends on one transaction, its own or one that was there, a  *)
(* doubtful event waits for the owner, and only the owner's split moves an *)
(* event, once, to a transaction of its own. Transactions are only added.  *)
(***************************************************************************)
CONSTANTS Event, Manual, Txn, NoTxn, NoContent

VARIABLES
  origin,   \* what each transaction was made from
  posted,   \* the transaction each event is evidence of
  fate      \* what was decided about each event

lvars == <<origin, posted, fate>>

LedgerInit ==
  /\ origin = [t \in Txn |-> NoContent]
  /\ posted = [e \in Event |-> NoTxn]
  /\ fate = [e \in Event |-> "open"]

\* A transaction of the event's own.
Give(e, t, next) ==
  /\ origin[t] = NoContent
  /\ origin' = [origin EXCEPT ![t] = e]
  /\ posted' = [posted EXCEPT ![e] = t]
  /\ fate' = [fate EXCEPT ![e] = next]

Own(e, t) == fate[e] \in {"open", "waiting"} /\ Give(e, t, "own")

Join(e, t) ==
  /\ fate[e] \in {"open", "waiting"}
  /\ origin[t] # NoContent
  /\ posted' = [posted EXCEPT ![e] = t]
  /\ fate' = [fate EXCEPT ![e] = "joined"]
  /\ UNCHANGED origin

Doubt(e) ==
  /\ fate[e] = "open"
  /\ fate' = [fate EXCEPT ![e] = "waiting"]
  /\ UNCHANGED <<origin, posted>>

Split(e, t) == fate[e] = "joined" /\ Give(e, t, "split")

Enter(t, m) ==
  /\ origin[t] = NoContent
  /\ origin' = [origin EXCEPT ![t] = m]
  /\ UNCHANGED <<posted, fate>>

LedgerNext ==
  \/ \E e \in Event : Doubt(e)
  \/ \E e \in Event, t \in Txn : Own(e, t) \/ Join(e, t) \/ Split(e, t)
  \/ \E t \in Txn, m \in Manual : Enter(t, m)

LedgerSpec == LedgerInit /\ [][LedgerNext]_lvars
=============================================================================
