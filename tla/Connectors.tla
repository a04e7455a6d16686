------------------------------ MODULE Connectors ------------------------------
(***************************************************************************)
(* What a source becomes on its way to a normalized event: the connectors   *)
(* of app/connectors, the envelope's identity (app/ingestion/identity.py)   *)
(* and the validation of events (app/ingestion/contracts.py), for one       *)
(* connection of each source.                                               *)
(*                                                                         *)
(* A text is its length, and the bounds of the code are constants scaled    *)
(* down with their order kept. A label is a name, as it is after it has     *)
(* been cut and folded, with the length it had. A document is delivered     *)
(* again whenever a client retries or a user imports a file twice.          *)
(***************************************************************************)
EXTENDS Naturals, Sequences, FiniteSets

CONSTANTS
    Documents,          \* what may be delivered: see Readings
    LabelNames,         \* what labels may be called
    MaxDescription,     \* description of an event (500 characters)
    DescriptionCut,     \* part of a note used as its description (200)
    SubjectCut,         \* part of a mail's subject that is kept (300)
    MaxNote,            \* note text (8 000 characters)
    MaxTag,             \* length of a tag (40)
    MaxTags,            \* tags of an event (12)
    MaxDeliveries,      \* bound: deliveries in a behaviour
    None

VARIABLES
    stored,     \* raw_events: the content held under each identity that has come
    state,      \* raw_event_processing: the state under each of them
    last,       \* the last document delivered, and what came of it
    sent,       \* history: the documents delivered
    settled,    \* history: those that were normalized
    deliveries  \* deliveries so far

vars == <<stored, state, last, sent, settled, deliveries>>

-----------------------------------------------------------------------------
(* Text and tags.                                                          *)

Cut(size, max) == IF size > max THEN max ELSE size

Tag(name, size) == [name |-> name, size |-> size]

Nothing == [tags |-> <<>>, refused |-> FALSE]

\* What one more label adds: nothing once max tags are kept, when it is empty or
\* when its name is there; one over the length is cut to it or refuses the whole.
Added(kept, l, max, cuts) ==
    IF kept.refused \/ Len(kept.tags) = max \/ l.size = 0 THEN kept
    ELSE IF ~cuts /\ l.size > MaxTag THEN [kept EXCEPT !.refused = TRUE]
    ELSE IF \E i \in DOMAIN kept.tags : kept.tags[i].name = l.name THEN kept
    ELSE [kept EXCEPT !.tags = Append(@, Tag(l.name, Cut(l.size, MaxTag)))]

\* Collecting distinct names in order, stopping at max.
Collect(labels, max, cuts) ==
    LET collected[i \in 0..Len(labels)] ==
            IF i = 0 THEN Nothing ELSE Added(collected[i - 1], labels[i], max, cuts)
    IN  collected[Len(labels)]

ManualLabels(labels) == Collect(labels, MaxTags, FALSE)

\* mutant: no place is left for the tag of the source.
KeepLabelsFull(labels) == Collect(labels, MaxTags, TRUE)

KeepLabels(labels) == Collect(labels, MaxTags - 1, TRUE)

-----------------------------------------------------------------------------
(* From a document to an envelope.                                         *)
(*                                                                         *)
(* A manual note has an id, a keep note a file, a row a file, a row number  *)
(* and perhaps an external id, a mail an id.                                *)

\* The values the client or the export refuses to turn into an envelope.
Refused(d) ==
    CASE d.source = "manual" -> d.note = 0 \/ d.note > MaxNote \/ ManualLabels(d.labels).refused
      [] d.source = "csv"    -> d.description = 0
      [] OTHER               -> FALSE

\* Trashed and empty notes, and mails without a financial keyword.
Ignored(d) ==
    \/ d.source = "keep" /\ (d.trashed \/ (d.title = 0 /\ d.note = 0))
    \/ d.source = "gmail" /\ ~d.relevant

Payload(d) ==
    CASE d.source = "manual" -> [note |-> d.note, labels |-> ManualLabels(d.labels).tags]
      [] d.source = "keep"   -> [title |-> d.title, note |-> Cut(d.note, MaxNote),
                                 labels |-> KeepLabels(d.labels).tags]
      [] d.source = "csv"    -> [description |-> d.description, amount |-> d.amount,
                                 currency |-> d.currency,
                                 labels |-> SelectSeq(d.labels, LAMBDA l : l.size > 0)]
      [] d.source = "gmail"  -> [subject |-> Cut(d.subject, SubjectCut)]

\* mutant: a row is located by its file alone.
LocatorOfFile(d) == IF d.source = "csv" THEN <<d.file>> ELSE <<d.id>>

Locator(d) == IF d.source = "csv" THEN <<d.file, d.row>> ELSE <<d.id>>

\* What canonical_envelope hashes: everything but the external id.
Content(d) == [payload |-> Payload(d), locator |-> Locator(d)]

\* The provider's id where there is one, otherwise the content's hash.
Identity(d) ==
    IF d.id # None THEN <<d.source, "external", d.id, None>>
                   ELSE <<d.source, "sha256", None, Content(d)>>

Labels == [name : LabelNames, size : Nat]

\* What a connector reads from its source.
Readings(d) ==
    CASE d.source = "manual" -> d.note \in Nat /\ d.labels \in Seq(Labels)
      [] d.source = "keep"   -> /\ d.trashed \in BOOLEAN /\ d.title \in Nat /\ d.note \in Nat
                                /\ d.labels \in Seq(Labels)
      [] d.source = "csv"    -> /\ d.description \in Nat /\ d.labels \in Seq(Labels)
                                /\ d.amount \in BOOLEAN /\ d.currency \in BOOLEAN
      [] d.source = "gmail"  -> d.relevant \in BOOLEAN /\ d.subject \in Nat
      [] OTHER               -> FALSE

ConnectorsAssumption ==
    /\ MaxDescription \in Nat /\ MaxNote \in Nat /\ MaxDeliveries \in Nat
    /\ DescriptionCut \in 1..MaxDescription
    /\ SubjectCut \in 1..MaxDescription
    /\ MaxTag \in Nat \ {0} /\ MaxTags \in Nat \ {0, 1}
    /\ \A d \in Documents : Readings(d)

-----------------------------------------------------------------------------
(* From an envelope to an event.                                           *)

KeepTag == Tag("google-keep", 1)

Event(d) ==
    LET p == Payload(d) IN
    CASE d.source = "manual" ->
            [description |-> Cut(p.note, DescriptionCut), tags |-> p.labels,
             amount |-> FALSE, currency |-> FALSE]
      [] d.source = "keep" ->
            [description |-> IF p.title > 0 THEN p.title
                             ELSE IF p.note > 0 THEN Cut(p.note, DescriptionCut) ELSE 1,
             tags |-> <<KeepTag>> \o p.labels, amount |-> FALSE, currency |-> FALSE]
      [] d.source = "csv" ->
            [description |-> p.description, tags |-> p.labels, amount |-> p.amount,
             currency |-> p.currency]
      [] d.source = "gmail" ->
            [description |-> IF p.subject > 0 THEN p.subject ELSE 1, tags |-> <<>>,
             amount |-> FALSE, currency |-> FALSE]

Names(tags) == {tags[i].name : i \in DOMAIN tags}

\* NormalizedFinancialEventV1: lengths, the number of distinct tags, and an
\* amount with its currency or neither.
ValidEvent(e) ==
    /\ 0 < e.description /\ e.description <= MaxDescription
    /\ \A i \in DOMAIN e.tags : e.tags[i].size <= MaxTag
    /\ Cardinality(Names(e.tags)) <= MaxTags
    /\ e.amount = e.currency

\* The CSV and mock connectors turn a ValidationError into a
\* ConnectorContentError, which marks the raw event as failed.
Catches(d) == d.source = "csv"

\* mutant: a rejected event is reported in the state it is left in.
OutcomeByState(d) == IF ValidEvent(Event(d)) THEN "normalized" ELSE "received"

Outcome(d) ==
    IF ValidEvent(Event(d)) THEN "normalized" ELSE IF Catches(d) THEN "failed" ELSE "escaped"

-----------------------------------------------------------------------------
Results == {"none", "refused", "ignored", "conflict", "replayed", "normalized", "failed",
            "escaped"}

TypeOK ==
    /\ stored = [k \in DOMAIN stored |-> stored[k]]
    /\ \A k \in DOMAIN stored : \E d \in sent : k = Identity(d) /\ stored[k] = Content(d)
    /\ state \in [DOMAIN stored -> {"received", "normalized", "failed"}]
    /\ last.outcome \in Results
    /\ settled \subseteq sent /\ sent \subseteq Documents
    /\ deliveries \in 0..MaxDeliveries

Init ==
    /\ stored = [k \in {} |-> None]
    /\ state = [k \in {} |-> None]
    /\ last = [document |-> None, outcome |-> "none", before |-> {}]
    /\ sent = {}
    /\ settled = {}
    /\ deliveries = 0

Ends(d, outcome) ==
    /\ last' = [document |-> d, outcome |-> outcome, before |-> settled]
    /\ sent' = sent \cup {d}
    /\ settled' = IF outcome = "normalized" THEN settled \cup {d} ELSE settled
    /\ deliveries' = deliveries + 1

Refuse(d) ==
    /\ Refused(d) \/ Ignored(d)
    /\ Ends(d, IF Refused(d) THEN "refused" ELSE "ignored")
    /\ UNCHANGED <<stored, state>>

Enveloped(d) == ~Refused(d) /\ ~Ignored(d)

\* mutant: the content of a known event is not compared.
MatchesAlways(d) == TRUE

\* An identity delivered before must bring the content it brought then.
Matches(d) == Identity(d) \in DOMAIN stored => stored[Identity(d)] = Content(d)

\* SOURCE_IDENTITY_CONTENT_MISMATCH.
Conflict(d) ==
    /\ Enveloped(d)
    /\ ~Matches(d)
    /\ Ends(d, "conflict")
    /\ UNCHANGED <<stored, state>>

\* The event is known and settled: the delivery changes nothing.
Replay(d) ==
    /\ Enveloped(d)
    /\ Identity(d) \in DOMAIN stored
    /\ stored[Identity(d)] = Content(d)
    /\ state[Identity(d)] = "normalized"
    /\ Ends(d, "replayed")
    /\ UNCHANGED <<stored, state>>

\* A table with the row v under k, new or in place of another.
Put(table, k, v) == [i \in DOMAIN table \cup {k} |-> IF i = k THEN v ELSE table[i]]

\* mutant: what a redelivered event has become is not looked at.
OpenAlways(k) == TRUE

\* New, or left received or failed by an earlier delivery.
Open(k) == k \in DOMAIN state => state[k] # "normalized"

\* Under the identity k, after an attempt to normalize what came under it.
StateAfter(k, outcome) ==
    IF outcome \in {"normalized", "failed"} THEN outcome
    ELSE IF k \in DOMAIN state THEN state[k] ELSE "received"

Ingest(d) ==
    LET k == Identity(d) IN
    /\ Enveloped(d)
    /\ Matches(d)
    /\ Open(k)
    /\ stored' = Put(stored, k, Content(d))
    /\ state' = Put(state, k, StateAfter(k, Outcome(d)))
    /\ Ends(d, Outcome(d))

\* A file is named by its hash: one line of it reads the same every time.
Readable(d) ==
    d.source = "csv" =>
        \A e \in sent : e.source = "csv" /\ e.file = d.file /\ e.row = d.row => e = d

Deliver(d) ==
    /\ deliveries < MaxDeliveries
    /\ Readable(d)
    /\ Refuse(d) \/ Conflict(d) \/ Replay(d) \/ Ingest(d)

Next == \E d \in Documents : Deliver(d)

Spec == Init /\ [][Next]_vars

-----------------------------------------------------------------------------
(* Properties.                                                             *)

\* Whatever a connector accepts it can also normalize, or it refuses it with
\* an error of its own: the limits it applies to labels, notes and subjects
\* leave no event that the validation rejects. The titles of Keep notes are the
\* exception, since nothing cuts them.
NormalizerAnswers ==
    last.outcome = "escaped" =>
        last.document.source = "keep" /\ last.document.title > MaxDescription

\* The same document delivered again is replayed, not refused, not stored again.
RedeliveryReplays ==
    last.document \in last.before => last.outcome = "replayed"

\* Two rows of one file are two events, however equal they look: a purchase
\* made twice is not taken for a redelivery. Only a row that was delivered
\* before, or that brings the provider's id, is replayed.
EqualRowsAreTwo ==
    last.outcome = "replayed" /\ last.document.source = "csv" /\ last.document.id = None
    => last.document \in last.before

\* The content under an identity is never replaced.
ContentIsFinal ==
    [][\A k \in DOMAIN stored : k \in DOMAIN stored' /\ stored'[k] = stored[k]]_stored

=============================================================================
