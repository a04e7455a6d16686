------------------------------- MODULE Scoring -------------------------------
(***************************************************************************)
(* How an event finds the transaction it may be a copy of: the lookup of   *)
(* candidates (app/reconciliation/repository.py), their scores and the     *)
(* choice among them (scoring.py), under a validated policy (policy.py).   *)
(* Reconciliation abstracts all of this to the constant Likeness.          *)
(*                                                                         *)
(* Weights, thresholds and similarities are integers in hundredths, scores *)
(* in ten-thousandths, as the code rounds them. A text is a name, and how   *)
(* alike two names are is a constant: what difflib and the token overlap    *)
(* make of them is not modelled. Amount, currency, type and status of a     *)
(* transaction are one flag, whether they match those of the event.         *)
(***************************************************************************)
EXTENDS Integers, FiniteSets, Sequences, SequencesExt, Orders

CONSTANTS
    Policies,      \* policies somebody may configure: see Valid
    Ledgers,       \* sets of transactions to reconcile with
    Events,        \* [at, merchant, description, ids]
    Alike(_, _),   \* similarity of two names, in hundredths
    Window,        \* candidate_window
    MaxCandidates, \* max_candidates
    None

\* Rows are posted transactions; time is in the units of Window.
IsTransaction(t) ==
    /\ t.at \in Int /\ t.matches \in BOOLEAN /\ IsFiniteSet(t.ids)
    /\ t.id \in Int /\ t.id # None

\* An event has a time where it may be reconciled, else its texts and identifiers.
IsEvent(e) == e.at \in Int /\ IsFiniteSet(e.ids)

ScoringAssumption ==
    /\ \A e \in Events : IsEvent(e)
    /\ \A L \in Ledgers : IsFiniteSet(L) /\ \A t \in L : IsTransaction(t)
    /\ Window \in Nat \ {0} /\ MaxCandidates \in Nat \ {0}
    /\ \A L \in Ledgers : \A t, u \in L : t.id = u.id => t = u
    /\ \A e \in Events, L \in Ledgers : \A t \in L :
          {Alike(e.merchant, t.merchant), Alike(e.description, t.description)} \subseteq 0..100

VARIABLES
    policy,      \* the policy of the process
    event,       \* the event to be reconciled
    ledger,      \* the owner's transactions
    candidates,  \* the rows found, in their order, or None
    result       \* the decision, or None

vars == <<policy, event, ledger, candidates, result>>

Abs(n) == IF n < 0 THEN -n ELSE n
Distance(t) == Abs(event.at - t.at)

-----------------------------------------------------------------------------
(* The policy.                                                             *)

\* mutant: the weights need not add up.
ValidUnweighted(p) == p.flag < p.merge

Valid(p) ==
    /\ {p.flag, p.merge, p.amount, p.time, p.merchant, p.description} \subseteq 0..100
    /\ p.flag < p.merge
    /\ p.amount + p.time + p.merchant + p.description = 100

-----------------------------------------------------------------------------
(* The score of one candidate.                                             *)

\* mutant: two missing texts are the same text.
SimilarityOfNone(left, right) == IF left = right THEN 100 ELSE 0

Similarity(left, right) ==
    IF left = None \/ right = None THEN 0 ELSE IF left = right THEN 100 ELSE Alike(left, right)

SharesId(t) == event.ids \cap t.ids # {}

\* The sum of the weighted signals, rounded half up; time falls off linearly.
Weighed(t) ==
    LET near == IF Distance(t) < Window THEN Window - Distance(t) ELSE 0
        sum  == Window * (100 * policy.amount
                          + policy.merchant * Similarity(event.merchant, t.merchant)
                          + policy.description * Similarity(event.description, t.description))
                + 100 * policy.time * near
    IN  (2 * sum + Window) \div (2 * Window)

Score(t) == IF ~t.matches THEN 0 ELSE IF SharesId(t) THEN 10000 ELSE Weighed(t)

Decision(t) ==
    IF ~t.matches THEN "new"
    ELSE IF SharesId(t) \/ Score(t) >= 100 * policy.merge THEN "merge"
    ELSE IF Score(t) >= 100 * policy.flag THEN "flag" ELSE "new"

-----------------------------------------------------------------------------
(* The lookup.                                                             *)

\* mutant: the nearest candidates come last and are cut.
NearerReversed(t, u) == Distance(t) > Distance(u) \/ (Distance(t) = Distance(u) /\ t.id < u.id)

Nearer(t, u) == Distance(t) < Distance(u) \/ (Distance(t) = Distance(u) /\ t.id < u.id)

CutTo(s) == SubSeq(s, 1, IF Len(s) < MaxCandidates THEN Len(s) ELSE MaxCandidates)

Temporal == CutTo(InOrder({t \in ledger : t.matches /\ Distance(t) <= Window}, Nearer))

\* The rows with a shared identifier come in no order, and are cut in none.
Exact ==
    LET all == {t \in ledger : t.matches /\ SharesId(t)}
        some == {S \in SUBSET all : Cardinality(S) =
                    IF Cardinality(all) < MaxCandidates THEN Cardinality(all) ELSE MaxCandidates}
    IN  UNION {SetToSeqs(S) : S \in some}

\* The temporal rows that are not among the exact ones, still the nearest first.
Others(exact) == InOrder(ToSet(Temporal) \ ToSet(exact), Nearer)

\* mutant: the rows with a shared identifier come after the others.
JoinedLate(exact) == CutTo(Temporal \o exact)

Joined(exact) == CutTo(exact \o Others(exact))

Lookup ==
    /\ candidates = None
    /\ \E exact \in Exact : candidates' = Joined(exact)
    /\ UNCHANGED <<policy, event, ledger, result>>

-----------------------------------------------------------------------------
(* The choice.                                                             *)

\* mutant: the first of the best is taken, in the order they were found.
BestFirst(found) ==
    LET best == {i \in DOMAIN found : \A j \in DOMAIN found : Score(found[j]) <= Score(found[i])}
    IN  found[CHOOSE i \in best : \A j \in best : i <= j]

\* The highest score, and of equal ones the smallest id.
Best(found) ==
    CHOOSE t \in ToSet(found) :
        \A u \in ToSet(found) :
            Score(u) < Score(t) \/ (Score(u) = Score(t) /\ t.id <= u.id)

Reconciled(found) ==
    IF found = <<>> THEN [id |-> None, decision |-> "new", score |-> 0]
    ELSE LET t == Best(found) IN [id |-> t.id, decision |-> Decision(t), score |-> Score(t)]

Decide ==
    /\ candidates # None /\ result = None
    /\ result' = Reconciled(candidates)
    /\ UNCHANGED <<policy, event, ledger, candidates>>

TypeOK ==
    /\ Valid(policy) /\ event \in Events
    /\ candidates # None => ToSet(candidates) \subseteq ledger /\ Len(candidates) <= MaxCandidates
    /\ result # None => /\ result.decision \in {"new", "flag", "merge"}
                        /\ result.score \in 0..10000

Init ==
    /\ policy \in {p \in Policies : Valid(p)}
    /\ event \in Events
    /\ ledger \in Ledgers
    /\ candidates = None /\ result = None

Next == Lookup \/ Decide

Spec == Init /\ [][Next]_vars

-----------------------------------------------------------------------------
(* Properties.                                                             *)

Chosen == CHOOSE t \in ledger : t.id = result.id
Decided == result # None

\* The decision does not depend on the order in which PostgreSQL returned the
\* rows with a shared identifier, which no ORDER BY settles: as long as none of
\* them was cut, every order leads to the same transaction.
OrderIsNoMatter ==
    Decided /\ Cardinality({t \in ledger : t.matches /\ SharesId(t)}) <= MaxCandidates =>
        \A exact \in Exact : Reconciled(Joined(exact)) = result

\* An event that shares a typed identifier with a transaction of the same money
\* and type is always merged: no number of nearer candidates crowds it out.
IdentifierMerges ==
    Decided /\ (\E t \in ledger : t.matches /\ SharesId(t)) =>
        result.decision = "merge" /\ result.score = 10000

\* A copy in every respect is merged under every policy that is accepted: the
\* weights add up to one, and no merge threshold is above it. No more than the
\* limit may be of the event's very instant: of those the lookup takes some by
\* their id, and may leave the copy out (repository.py:77-88).
CopyMerges ==
    Decided /\ Cardinality({t \in ledger : t.matches /\ t.at = event.at}) <= MaxCandidates =>
        \A t \in ledger :
            /\ t.matches /\ t.at = event.at
            /\ t.merchant = event.merchant /\ t.merchant # None
            /\ t.description = event.description /\ t.description # None
            => result.decision = "merge"

\* test_reconciliation_scoring.py, test_money_and_time_alone...: with the default
\* weights, money and time are not enough to flag a transaction. A text that is
\* missing on either side is no evidence.
AbsentTextIsNoEvidence ==
    Decided /\ result.decision # "new" =>
        \/ SharesId(Chosen)
        \/ event.merchant # None /\ Chosen.merchant # None
        \/ event.description # None /\ Chosen.description # None

\* The limit on candidates may hide a better one, but never one that is nearer.
NothingBetterNearer ==
    Decided /\ result.id # None =>
        \A t \in ledger :
            t.matches /\ Distance(t) <= Window /\ Distance(t) < Distance(Chosen) =>
                Score(t) <= result.score

=============================================================================
