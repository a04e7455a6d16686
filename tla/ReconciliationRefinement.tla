---------------------- MODULE ReconciliationRefinement ----------------------
(* Ingestion, review and reconciliation implement CanonicalLedger. *)
EXTENDS Reconciliation

Fate == [none |-> "open", pending |-> "waiting", merged |-> "joined",
         kept_separate |-> "own", unmerged |-> "split"]

Ledger == INSTANCE CanonicalLedger WITH
  origin <- txn,
  posted <- evidence,
  fate   <- [e \in Event |-> Fate[case[e].status]]

\* Whatever sessions, deliveries and owners do at the same time, the ledger only
\* grows, each event is linked once and at most once split off again, and what
\* happens to one event never moves the evidence of another.
ImplementsLedger == Ledger!LedgerSpec
=============================================================================
