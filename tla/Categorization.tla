--------------------------- MODULE Categorization ---------------------------
(***************************************************************************)
(* How the transactions of one owner get their category, and what the      *)
(* owner's corrections teach (apps/api/app/categorization/).               *)
(*                                                                         *)
(* A posting reads four layers in four statements and stops at the first   *)
(* that matches; a correction locks its transaction, changes it, appends   *)
(* to the history and overwrites the merchant's category. Rows carry the   *)
(* time their database transaction began, which is not the order in which  *)
(* they are committed. A description is abstracted to its set of words.    *)
(***************************************************************************)
EXTENDS Integers, FiniteSets, FiniteSetsExt, Sequences

CONSTANTS
  Txn,          \* ids of ledger transactions
  Text,         \* descriptions: sets of words
  Pattern,      \* patterns of rules: single words
  Merchant, NoMerchant,
  Category, None,
  Priority,     \* priorities of rules
  RecallLimit,  \* how many corrections retrieval looks at
  Session,      \* requests that may be open at the same time
  LastStamp     \* bound of the corrections begun

CategorizationAssumption ==
  /\ Txn # {} /\ Text # {}
  /\ None \notin Category /\ NoMerchant \notin Merchant
  /\ Priority \subseteq 0..1000
  /\ RecallLimit \in Nat \ {0} /\ LastStamp \in Nat

VARIABLES
  transaction,   \* the rows of the ledger, as far as categories go
  rules,         \* category_rules, in the order they were created
  learned,       \* merchant_category_maps
  corrections,   \* user_corrections, in the order they were committed
  session,       \* what each request is doing
  stamp          \* the last time a correction began

vars == <<transaction, rules, learned, corrections, session, stamp>>

-----------------------------------------------------------------------------
(* Rows and the layers of the classifier *)

Source == {"none", "user_rule", "merchant_map", "verified_correction", "retrieval", "model", "user_override"}

Row == [present: BOOLEAN, text: Text, merchant: Merchant \cup {NoMerchant},
        category: Category \cup {None}, source: Source]

Rule == [pattern: Pattern, category: Category, priority: Priority]

Correction == [txn: Txn, text: Text, merchant: Merchant \cup {NoMerchant}, previous: Category \cup {None},
               category: Category, begun: 1..LastStamp, done: 1..LastStamp]

Assigned(c, source) == [category |-> c, source |-> source]
NoMatch             == Assigned(None, "none")

\* The first of the matching rules with the lowest priority.
ByRule(text) ==
  LET matching == {i \in DOMAIN rules : rules[i].pattern \in text}
      first(i) == \A j \in matching : rules[i].priority < rules[j].priority
                                      \/ (rules[i].priority = rules[j].priority /\ i <= j)
  IN IF matching = {} THEN NoMatch
     ELSE Assigned(rules[CHOOSE i \in matching : first(i)].category, "user_rule")

ByMerchant(m) ==
  IF m = NoMerchant \/ learned[m] = None THEN NoMatch ELSE Assigned(learned[m], "merchant_map")

History == {corrections[i] : i \in DOMAIN corrections}

\* ORDER BY created_at DESC LIMIT 1
Newest(cs) == CHOOSE c \in cs : \A d \in cs : d.begun <= c.begun

ByCorrection(text) ==
  LET exact == {c \in History : c.text = text}
  IN IF exact = {} THEN NoMatch ELSE Assigned(Newest(exact).category, "verified_correction")

\* jaccard(), in units of 0.0001 and rounded
Score(a, b) ==
  LET shared == Cardinality(a \cap b)
      all    == Cardinality(a \cup b)
  IN IF all = 0 THEN 0 ELSE (20000 * shared + all) \div (2 * all)

Threshold == 6000   \* RETRIEVAL_THRESHOLD

Recalled == {c \in History : Cardinality({d \in History : d.begun > c.begun}) < RecallLimit}

\* retrieval_assignment(): the one category of the best scored corrections, if it is one
ByRetrieval(text) ==
  LET eligible == {c \in Recalled : Score(text, c.text) >= Threshold}
      best     == {c \in eligible : \A d \in eligible : Score(text, d.text) <= Score(text, c.text)}
      found    == {c.category : c \in best}
  IN IF Cardinality(found) = 1 THEN Assigned(CHOOSE c \in found : TRUE, "retrieval") ELSE NoMatch

\* The answers of the layers that no later rule or correction can silence: similar
\* corrections may come to disagree.
Evidence(text, m) == {ByRule(text), ByMerchant(m), ByCorrection(text)} \ {NoMatch}

-----------------------------------------------------------------------------
(* The initial state *)

Vacant == [present |-> FALSE, text |-> CHOOSE t \in Text : TRUE, merchant |-> NoMerchant,
           category |-> None, source |-> "none"]

Idle == [op |-> "idle", step |-> "idle", txn |-> CHOOSE t \in Txn : TRUE, row |-> Vacant,
         choice |-> None, begun |-> 0, known |-> {}]

Init ==
  /\ transaction = [t \in Txn |-> Vacant]
  /\ rules = <<>>
  /\ learned = [m \in Merchant |-> None]
  /\ corrections = <<>>
  /\ session = [s \in Session |-> Idle]
  /\ stamp = 0

-----------------------------------------------------------------------------
(* Postings *)

NewRow(text, m, c, source) ==
  [present |-> TRUE, text |-> text, merchant |-> m, category |-> c, source |-> source]

Free(t) == ~transaction[t].present /\ \A s \in Session : session[s].op = "post" => session[s].txn # t

\* A category that the owner selects is no prediction.
PostSelected(t, text, m, c) ==
  /\ Free(t)
  /\ transaction' = [transaction EXCEPT ![t] = NewRow(text, m, c, "user_override")]
  /\ UNCHANGED <<rules, learned, corrections, session, stamp>>

\* A posting without one; a sync or a review may bring a category hint of the model.
BeginPost(s, t, text, m, hint) ==
  /\ session[s].op = "idle"
  /\ Free(t)
  /\ session' = [session EXCEPT ![s] =
       [Idle EXCEPT !.op = "post", !.step = "rule", !.txn = t, !.choice = hint, !.known = Evidence(text, m),
                    !.row = NewRow(text, m, None, "none")]]
  /\ UNCHANGED <<transaction, rules, learned, corrections, stamp>>

Layer(s) ==
  LET r == session[s].row IN
  CASE session[s].step = "rule"     -> ByRule(r.text)
    [] session[s].step = "merchant" -> ByMerchant(r.merchant)
    [] session[s].step = "exact"    -> ByCorrection(r.text)
    [] session[s].step = "recall"   -> ByRetrieval(r.text)

\* mutant: similar descriptions are asked before the merchant and the exact one
NextLayerRecallFirst == [rule |-> "recall", recall |-> "merchant", merchant |-> "exact", exact |-> "insert"]

NextLayer == [rule |-> "merchant", merchant |-> "exact", exact |-> "recall", recall |-> "insert"]

\* classify(): one layer, one statement.
Classify(s) ==
  LET found == Layer(s) IN
  /\ session[s].op = "post" /\ session[s].step # "insert"
  /\ session' = [session EXCEPT ![s] =
       IF found = NoMatch THEN [@ EXCEPT !.step = NextLayer[session[s].step]]
       ELSE [@ EXCEPT !.step = "insert", !.row.category = found.category, !.row.source = found.source]]
  /\ UNCHANGED <<transaction, rules, learned, corrections, stamp>>

Finish(s) == session' = [session EXCEPT ![s] = Idle]

\* create_transaction(); a hint counts only when no layer matched.
Insert(s) ==
  LET r == session[s].row IN
  /\ session[s].op = "post" /\ session[s].step = "insert"
  /\ transaction' = [transaction EXCEPT ![session[s].txn] =
       IF r.category = None /\ session[s].choice # None
       THEN [r EXCEPT !.category = session[s].choice, !.source = "model"] ELSE r]
  /\ Finish(s)
  /\ UNCHANGED <<rules, learned, corrections, stamp>>

-----------------------------------------------------------------------------
(* Rules and corrections *)

\* create_rule(); one rule for each pattern.
CreateRule(r) ==
  /\ \A i \in DOMAIN rules : rules[i].pattern # r.pattern
  /\ rules' = Append(rules, r)
  /\ UNCHANGED <<transaction, learned, corrections, session, stamp>>

\* The visibility of the category is checked, and the clock of the correction fixed.
BeginCorrect(s, t, c) ==
  /\ session[s].op = "idle" /\ transaction[t].present
  /\ stamp < LastStamp
  /\ stamp' = stamp + 1
  /\ session' = [session EXCEPT ![s] =
       [Idle EXCEPT !.op = "correct", !.step = "wait", !.txn = t, !.choice = c, !.begun = stamp + 1]]
  /\ UNCHANGED <<transaction, rules, learned, corrections>>

LockedNever(t) == FALSE   \* mutant: the transaction is read without FOR UPDATE

Locked(t) == \E s \in Session : session[s].step = "locked" /\ session[s].txn = t

LockTransaction(s) ==
  /\ session[s].step = "wait" /\ ~Locked(session[s].txn)
  /\ session' = [session EXCEPT ![s] = [@ EXCEPT !.step = "locked", !.row = transaction[session[s].txn]]]
  /\ UNCHANGED <<transaction, rules, learned, corrections, stamp>>

LearnOnce(m, c) ==   \* mutant: ON CONFLICT DO NOTHING
  learned' = IF m = NoMerchant \/ learned[m] # None THEN learned ELSE [learned EXCEPT ![m] = c]

\* The upsert of the merchant's category.
Learn(m, c) == learned' = IF m = NoMerchant THEN learned ELSE [learned EXCEPT ![m] = c]

Recategorized(r, c) == [r EXCEPT !.category = c, !.source = "user_override"]

\* correct()
Correct(s) ==
  LET t == session[s].txn  r == session[s].row  c == session[s].choice IN
  /\ session[s].step = "locked"
  /\ corrections' = Append(corrections,
       [txn |-> t, text |-> r.text, merchant |-> r.merchant, previous |-> r.category, category |-> c,
        begun |-> session[s].begun, done |-> stamp])
  /\ transaction' = [transaction EXCEPT ![t] = Recategorized(r, c)]
  /\ Learn(r.merchant, c)
  /\ Finish(s)
  /\ UNCHANGED <<rules, stamp>>

\* An error, a lost connection or a crash.
Rollback(s) ==
  /\ session[s].op # "idle"
  /\ Finish(s)
  /\ UNCHANGED <<transaction, rules, learned, corrections, stamp>>

Next ==
  \/ \E t \in Txn, text \in Text, m \in Merchant \cup {NoMerchant} :
       \/ \E c \in Category : PostSelected(t, text, m, c)
       \/ \E s \in Session, hint \in Category \cup {None} : BeginPost(s, t, text, m, hint)
  \/ \E r \in Rule : CreateRule(r)
  \/ \E s \in Session :
       \/ Classify(s) \/ Insert(s)
       \/ \E t \in Txn, c \in Category : BeginCorrect(s, t, c)
       \/ LockTransaction(s) \/ Correct(s) \/ Rollback(s)

Spec == Init /\ [][Next]_vars

-----------------------------------------------------------------------------
(* Properties *)

TypeOK ==
  /\ transaction \in [Txn -> Row]
  /\ \A i \in DOMAIN rules : rules[i] \in Rule
  /\ learned \in [Merchant -> Category \cup {None}]
  /\ History \subseteq Correction
  /\ \A s \in Session : session[s].row \in Row
  /\ \A t \in Txn : transaction[t].category = None <=> transaction[t].source = "none"

\* The corrections of a transaction form a chain: each starts from the category that
\* the one committed before left, and the last one is what the owner sees, marked as
\* the owner's own (docs/phase5-categorization.md:22-32).
CorrectionsChain ==
  \A t \in Txn :
    LET own == {i \in DOMAIN corrections : corrections[i].txn = t} IN
    /\ \A i \in own, j \in own :
         i < j /\ (\A k \in own : k <= i \/ j <= k) => corrections[j].previous = corrections[i].category
    /\ \A i \in own : (\A k \in own : k <= i) =>
         transaction[t].category = corrections[i].category /\ transaction[t].source = "user_override"

\* What the classifier has learned is never older than it must be: neither the
\* merchant's category nor the category of a description comes from a correction that
\* a later one, begun after it was committed, was meant to replace.
NotSuperseded(c, cs) == \A d \in cs : d.begun <= c.done

LearnsTheLatest ==
  /\ \A m \in Merchant : learned[m] # None =>
       LET own == {c \in History : c.merchant = m}
       IN \E c \in own : c.category = learned[m] /\ NotSuperseded(c, own)
  /\ \A text \in Text :
       LET own == {c \in History : c.text = text}
       IN own # {} => NotSuperseded(Newest(own), own)

\* Stronger evidence wins: a posting is not classified by a weaker layer than a rule, a
\* merchant or an exact correction that had an answer when it began, though rules and
\* corrections arrive meanwhile (docs/phase5-categorization.md:8-16).
Strength == [user_rule |-> 4, merchant_map |-> 3, verified_correction |-> 2, retrieval |-> 1, model |-> 0, none |-> 0]

StrongerEvidenceWins ==
  [][\A s \in Session : session[s].op = "post" /\ session'[s].op = "idle" =>
       LET r == transaction'[session[s].txn] IN
       r.present => \A e \in session[s].known : Strength[e.source] <= Strength[r.source]]_vars

=============================================================================
