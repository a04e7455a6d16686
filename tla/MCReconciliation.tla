-------------------------- MODULE MCReconciliation --------------------------
(***************************************************************************)
(* Instances of Reconciliation: how alike the contents of the events are.  *)
(***************************************************************************)
EXTENDS ReconciliationRefinement, TLC

CONSTANTS note, memo, bank, csv, cash, t1, t2, t3, t4, s1, s2, s3

\* A note and a memo of one payment, the bank line of it, a line of another account
\* that only shares the bank line's identifier, and the payment entered by hand.
\* The memo is found like the bank line, but not the other way round.
Score(e, c) ==
  CASE {e, c} = {note, bank} -> "review"
    [] {e, c} = {note, memo} -> "merge"
    [] e = memo /\ c = bank -> "review"
    [] e = bank /\ c = cash -> "merge"
    [] e = note /\ c = cash -> "review"
    [] e = csv /\ c = note  -> "no_candidate"
    [] OTHER -> "new"

MCLikeness == [p \in Event \X (Event \cup Manual) |-> Score(p[1], p[2])]
MCSameRef  == {<<bank, csv>>, <<csv, bank>>} \cap (Event \X Event)
Sym        == Permutations(Txn) \cup Permutations(Session)
=============================================================================
