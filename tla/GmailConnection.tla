--------------------------- MODULE GmailConnection ---------------------------
(***************************************************************************)
(* One owner's Gmail connection: app/connections/router.py with the OAuth   *)
(* states of app/auth/oauth.py.                                             *)
(*                                                                         *)
(* Four kinds of request meet on one row of gmail_credentials:              *)
(*   connect and callback  start a consent, and store what it granted;      *)
(*   refresh and sync      lock the row, refresh the access token and, for  *)
(*                         a sync, run the connector, all in one            *)
(*                         transaction that commits at the end;             *)
(*   disconnect            locks the row, asks Google to revoke the token   *)
(*                         and leaves a tombstone;                          *)
(*   the timeout handler   marks the row in a transaction of its own.       *)
(* Nothing holds a lock while the browser is at Google, so a callback may   *)
(* arrive with a grant that was asked for before a disconnect.              *)
(*                                                                         *)
(* Google is external: it accepts the tokens in valid, and may replace a    *)
(* refresh token, and retire the old one, whenever it is used.              *)
(***************************************************************************)
EXTENDS Naturals, FiniteSets

CONSTANTS
    Tickets,        \* consents started by the owner (rows of oauth_states)
    Callbacks,      \* browser requests to /connections/gmail/callback
    Operations,     \* refreshes and syncs, from the browser or the worker
    Disconnects,    \* requests to /connections/gmail/disconnect
    Accounts,       \* Google accounts the owner may choose at the consent
    MaxVersion,     \* bound: refresh tokens Google issues for one consent
    None

ASSUME GmailAssumption ==
    /\ MaxVersion \in Nat \ {0}
    /\ None \notin Tickets \cup Callbacks \cup Operations \cup Disconnects \cup Accounts
    /\ None \notin [ticket : Tickets, version : 1..MaxVersion]
    /\ Operations \cap Disconnects = {}

VARIABLES
    clock,      \* the database's time: advances with every stamp taken
    cred,       \* the owner's row of gmail_credentials
    tickets,    \* the owner's rows of oauth_states, and when each began
    callbacks,  \* where each callback stands and the consent it carries
    ops,        \* where each operation stands, with its uncommitted row
    cuts,       \* where each disconnect stands, with the stamp it took
    holder,     \* who holds the lock of the credential row, or None
    conns,      \* source_connections of type gmail, by account key
    valid,      \* external: the refresh tokens Google accepts
    issued,     \* external: refresh tokens issued so far for each consent
    stranded,   \* history: consents whose replacement token was dropped
    lastCut     \* history: the stamp of the latest disconnect

vars == <<clock, cred, tickets, callbacks, ops, cuts, holder, conns, valid,
          issued, stranded, lastCut>>

-----------------------------------------------------------------------------
(* The rows.                                                               *)

Tokens == [ticket : Tickets, version : 1..MaxVersion]

Statuses == {"absent", "connected", "error", "revoked", "disconnected"}

\* disconnected_at is 0 where the column is NULL.
CredentialRows ==
    [status : Statuses, token : Tokens \cup {None}, account : Accounts \cup {None},
     disconnected_at : Nat]

NoRow == [status |-> "absent", token |-> None, account |-> None, disconnected_at |-> 0]

\* "starting": the transaction that stores the state has begun, not committed.
StateRows == [pc : {"none", "starting", "pending", "gone"}, created_at : Nat]

Connections == [Accounts -> {"none", "active", "disconnected"}]

TypeOK ==
    /\ clock \in Nat
    /\ cred \in CredentialRows
    /\ tickets \in [Tickets -> StateRows]
    /\ callbacks \in [Callbacks ->
          [pc : {"idle", "exchanging", "storing", "done"}, ticket : Tickets \cup {None},
           token : Tokens \cup {None}, account : Accounts \cup {None}]]
    /\ ops \in [Operations ->
          [pc : {"idle", "waiting", "refreshing", "syncing", "late", "done"},
           sync : BOOLEAN, row : CredentialRows]]
    /\ cuts \in [Disconnects ->
          [pc : {"idle", "waiting", "revoking", "marking", "marked", "done"}, at : Nat]]
    /\ holder \in Operations \cup Disconnects \cup {None}
    /\ conns \in Connections
    /\ valid \subseteq Tokens
    /\ issued \in [Tickets -> 0..MaxVersion]
    /\ stranded \subseteq Tickets
    /\ lastCut \in Nat

Init ==
    /\ clock = 0
    /\ cred = NoRow
    /\ tickets = [t \in Tickets |-> [pc |-> "none", created_at |-> 0]]
    /\ callbacks = [c \in Callbacks |->
          [pc |-> "idle", ticket |-> None, token |-> None, account |-> None]]
    /\ ops = [o \in Operations |-> [pc |-> "idle", sync |-> FALSE, row |-> NoRow]]
    /\ cuts = [d \in Disconnects |-> [pc |-> "idle", at |-> 0]]
    /\ holder = None
    /\ conns = [a \in Accounts |-> "none"]
    /\ valid = {}
    /\ issued = [t \in Tickets |-> 0]
    /\ stranded = {}
    /\ lastCut = 0

google == <<valid, issued, stranded>>

-----------------------------------------------------------------------------
(* Starting a consent.                                                     *)

\* created_at is the time the storing transaction began.
Connect(t) ==
    /\ tickets[t].pc = "none"
    /\ clock' = clock + 1
    /\ tickets' = [tickets EXCEPT ![t] = [pc |-> "starting", created_at |-> clock + 1]]
    /\ UNCHANGED <<cred, callbacks, ops, cuts, holder, conns, lastCut, google>>

StoreState(t) ==
    /\ tickets[t].pc = "starting"
    /\ tickets' = [tickets EXCEPT ![t].pc = "pending"]
    /\ UNCHANGED <<clock, cred, callbacks, ops, cuts, holder, conns, lastCut, google>>

\* A state past expires_at is no longer accepted; the next consent removes it.
ExpireState(t) ==
    /\ tickets[t].pc = "pending"
    /\ tickets' = [tickets EXCEPT ![t].pc = "gone"]
    /\ UNCHANGED <<clock, cred, callbacks, ops, cuts, holder, conns, lastCut, google>>

-----------------------------------------------------------------------------
(* The callback: consume the state, exchange the code, store the grant.     *)

\* mutant: the state is read, and deleted only by the clean-up.
ConsumeByReading(t) == tickets

\* DELETE ... RETURNING: of two callbacks, one finds the row.
Consumed(t) == [tickets EXCEPT ![t].pc = "gone"]

Consume(c, t) ==
    /\ callbacks[c].pc = "idle"
    /\ tickets[t].pc = "pending"
    /\ tickets' = Consumed(t)
    /\ callbacks' = [callbacks EXCEPT ![c].pc = "exchanging", ![c].ticket = t]
    /\ UNCHANGED <<clock, cred, ops, cuts, holder, conns, lastCut, google>>

\* The code becomes a refresh token, and the profile names the account.
Exchange(c, a) ==
    LET t == callbacks[c].ticket IN
    /\ callbacks[c].pc = "exchanging"
    /\ issued[t] = 0
    /\ issued' = [issued EXCEPT ![t] = 1]
    /\ valid' = valid \cup {[ticket |-> t, version |-> 1]}
    /\ callbacks' = [callbacks EXCEPT ![c].pc = "storing", ![c].account = a,
                                      ![c].token = [ticket |-> t, version |-> 1]]
    /\ UNCHANGED <<clock, cred, tickets, ops, cuts, holder, conns, lastCut, stranded>>

\* Consent refused, wrong scope, no offline grant, provider or profile failed.
ExchangeFails(c) ==
    /\ callbacks[c].pc = "exchanging"
    /\ callbacks' = [callbacks EXCEPT ![c].pc = "done"]
    /\ UNCHANGED <<clock, cred, tickets, ops, cuts, holder, conns, lastCut, google>>

\* The WHERE of the upsert: a tombstone refuses consents older than itself.
Accepted(c) ==
    \/ cred.disconnected_at = 0
    \/ cred.disconnected_at < tickets[callbacks[c].ticket].created_at

\* mutant: the connection of the account used before stays active.
SwitchedTo1(a) == [conns EXCEPT ![a] = IF @ = "none" THEN @ ELSE "active"]

\* Only the connection of the account just granted, if it exists, is active.
SwitchedTo(a) ==
    [b \in Accounts |->
        IF conns[b] = "none" THEN "none" ELSE IF b = a THEN "active" ELSE "disconnected"]

StoreGrant(c) ==
    /\ callbacks[c].pc = "storing"
    /\ holder = None
    /\ callbacks' = [callbacks EXCEPT ![c].pc = "done"]
    /\ \/ /\ Accepted(c)
          /\ cred' = [status |-> "connected", token |-> callbacks[c].token,
                      account |-> callbacks[c].account, disconnected_at |-> 0]
          /\ conns' = SwitchedTo(callbacks[c].account)
       \/ /\ ~Accepted(c)                              \* GMAIL_CONNECTION_CANCELLED
          /\ UNCHANGED <<cred, conns>>
    /\ UNCHANGED <<clock, tickets, ops, cuts, holder, lastCut, google>>

-----------------------------------------------------------------------------
(* Refresh and sync: one transaction that holds the row from its first      *)
(* statement to its commit.                                                 *)

Request(o, sync) ==
    /\ ops[o].pc = "idle"
    /\ ops' = [ops EXCEPT ![o].pc = "waiting", ![o].sync = sync]
    /\ UNCHANGED <<clock, cred, tickets, callbacks, cuts, holder, conns, lastCut, google>>

End(o) == [ops EXCEPT ![o].pc = "done", ![o].row = NoRow]

\* The transaction ends and leaves row behind.
Commit(o, row) ==
    /\ cred' = row
    /\ holder' = None
    /\ ops' = End(o)

\* Only a row with a stored grant is worth a call to Google; the others keep
\* their status and record GMAIL_RECONNECT_REQUIRED.
Lock(o) ==
    /\ ops[o].pc = "waiting"
    /\ holder = None
    /\ \/ /\ cred.status \in {"absent", "revoked", "disconnected"}
          /\ ops' = End(o)
          /\ UNCHANGED holder
       \/ /\ cred.status \in {"connected", "error"}
          /\ ops' = [ops EXCEPT ![o].pc = "refreshing", ![o].row = cred]
          /\ holder' = o
    /\ UNCHANGED <<clock, cred, tickets, callbacks, cuts, conns, lastCut, google>>

Replace(token) == [token EXCEPT !.version = issued[token.ticket] + 1]

\* Google answers a token it accepts with that token or with a new one; it may
\* retire the old one. answer is what it returns.
Answers(token, answer) ==
    \/ /\ answer = token
       /\ UNCHANGED <<valid, issued>>
    \/ /\ issued[token.ticket] < MaxVersion
       /\ answer = Replace(token)
       /\ issued' = [issued EXCEPT ![token.ticket] = @ + 1]
       /\ valid' \in {valid \cup {answer}, (valid \ {token}) \cup {answer}}

Refreshed(row, answer) == [row EXCEPT !.status = "connected", !.token = answer]

\* A refresh request commits at once; a sync keeps the transaction open.
RefreshOk(o) ==
    /\ ops[o].pc = "refreshing"
    /\ ops[o].row.token \in valid
    /\ \E answer \in Tokens :
          /\ Answers(ops[o].row.token, answer)
          /\ \/ /\ ops[o].sync
                /\ ops' = [ops EXCEPT ![o].pc = "syncing",
                                      ![o].row = Refreshed(ops[o].row, answer)]
                /\ UNCHANGED <<cred, holder>>
             \/ ~ops[o].sync /\ Commit(o, Refreshed(ops[o].row, answer))
    /\ UNCHANGED <<clock, tickets, callbacks, cuts, conns, lastCut, stranded>>

\* invalid_grant: the grant is gone, and so is the secret.
RefreshRevoked(o) ==
    /\ ops[o].pc = "refreshing"
    /\ ops[o].row.token \notin valid
    /\ Commit(o, [ops[o].row EXCEPT !.status = "revoked", !.token = None])
    /\ UNCHANGED <<clock, tickets, callbacks, cuts, conns, lastCut, google>>

\* The key is unknown or Google unreachable: the error is committed.
RefreshFails(o) ==
    /\ ops[o].pc = "refreshing"
    /\ Commit(o, [ops[o].row EXCEPT !.status = "error"])
    /\ UNCHANGED <<clock, tickets, callbacks, cuts, conns, lastCut, google>>

\* Google answered, perhaps with a new token, but the answer is refused
\* (no access token, not a bearer token, another scope).
RefreshUnusable(o) ==
    LET token == ops[o].row.token IN
    /\ ops[o].pc = "refreshing"
    /\ token \in valid
    /\ \E answer \in Tokens :
          /\ Answers(token, answer)
          /\ stranded' = IF answer = token THEN stranded ELSE stranded \cup {token.ticket}
    /\ Commit(o, [ops[o].row EXCEPT !.status = "error"])
    /\ UNCHANGED <<clock, tickets, callbacks, cuts, conns, lastCut>>

\* The connector's own transactions: they commit while the row is held. The
\* first of them inserts the account's connection, as active, if it is new.
EnsureConnection(o) ==
    LET a == ops[o].row.account IN
    /\ ops[o].pc = "syncing"
    /\ conns[a] = "none"
    /\ conns' = [conns EXCEPT ![a] = "active"]
    /\ UNCHANGED <<clock, cred, tickets, callbacks, ops, cuts, holder, lastCut, google>>

SyncOk(o) ==
    /\ ops[o].pc = "syncing"
    /\ conns[ops[o].row.account] = "active"
    /\ Commit(o, ops[o].row)
    /\ UNCHANGED <<clock, tickets, callbacks, cuts, conns, lastCut, google>>

\* mutant: an unavailable connector rolls the refresh back.
OnUnavailable1(o) == Commit(o, [cred EXCEPT !.status = "error"])

OnUnavailable(o) == Commit(o, [ops[o].row EXCEPT !.status = "error"])

\* ConnectorUnavailableError: the error and the refreshed token are committed.
SyncUnavailable(o) ==
    /\ ops[o].pc = "syncing"
    /\ OnUnavailable(o)
    /\ UNCHANGED <<clock, tickets, callbacks, cuts, conns, lastCut, google>>

\* Rolling back drops a token Google returned in place of the stored one.
Dropped(o) ==
    IF ops[o].pc = "syncing" /\ ops[o].row.token # cred.token
    THEN stranded \cup {cred.token.ticket} ELSE stranded

\* Any other exception, an inactive connection among them, or a crash: the
\* transaction rolls back and nothing marks the row.
Abort(o) ==
    /\ ops[o].pc \in {"refreshing", "syncing"}
    /\ ops' = End(o)
    /\ holder' = None
    /\ stranded' = Dropped(o)
    /\ UNCHANGED <<clock, cred, tickets, callbacks, cuts, conns, lastCut, valid, issued>>

\* mutant: the cancelled operation keeps its transaction open.
HeldAfterTimeout(o) == holder

ReleasedBy(o) == IF holder = o THEN None ELSE holder

\* asyncio.timeout: the operation is cancelled wherever it is, the lock it
\* waits for included, and its handler starts.
Timeout(o) ==
    /\ ops[o].pc \in {"waiting", "refreshing", "syncing"}
    /\ ops' = [ops EXCEPT ![o].pc = "late", ![o].row = NoRow]
    /\ holder' = ReleasedBy(o)
    /\ stranded' = Dropped(o)
    /\ UNCHANGED <<clock, cred, tickets, callbacks, cuts, conns, lastCut, valid, issued>>

\* mutant: the handler marks the owner's row whatever its status.
MarkableAny == Statuses \ {"absent"}

Markable == {"connected", "error"}

\* The handler's UPDATE waits for the row, and tests the status it then has.
MarkTimeout(o) ==
    /\ ops[o].pc = "late"
    /\ holder = None
    /\ cred' = IF cred.status \in Markable THEN [cred EXCEPT !.status = "error"] ELSE cred
    /\ ops' = End(o)
    /\ UNCHANGED <<clock, tickets, callbacks, cuts, holder, conns, lastCut, google>>

\* Five seconds without the row, or no database: the handler gives up.
GiveUp(o) ==
    /\ ops[o].pc = "late"
    /\ ops' = End(o)
    /\ UNCHANGED <<clock, cred, tickets, callbacks, cuts, holder, conns, lastCut, google>>

-----------------------------------------------------------------------------
(* Disconnect.                                                             *)

Leave(d) ==
    /\ cuts[d].pc = "idle"
    /\ cuts' = [cuts EXCEPT ![d].pc = "waiting"]
    /\ UNCHANGED <<clock, cred, tickets, callbacks, ops, holder, conns, lastCut, google>>

\* SELECT ... FOR UPDATE: there may be no row to lock.
LockToLeave(d) ==
    /\ cuts[d].pc = "waiting"
    /\ holder = None
    /\ cuts' = [cuts EXCEPT ![d].pc = IF cred.token = None THEN "marking" ELSE "revoking"]
    /\ holder' = IF cred.status = "absent" THEN None ELSE d
    /\ UNCHANGED <<clock, cred, tickets, callbacks, ops, conns, lastCut, google>>

\* Google revokes the grant, or the call fails and is forgotten.
Revoke(d) ==
    /\ cuts[d].pc = "revoking"
    /\ \/ valid' = {k \in valid : k.ticket # cred.token.ticket}
       \/ UNCHANGED valid
    /\ cuts' = [cuts EXCEPT ![d].pc = "marking"]
    /\ UNCHANGED <<clock, cred, tickets, callbacks, ops, holder, conns, lastCut, issued,
                   stranded>>

\* The upsert takes clock_timestamp() with the row locked, or inserted.
Mark(d) ==
    /\ cuts[d].pc = "marking"
    /\ holder \in {None, d}
    /\ holder' = d
    /\ clock' = clock + 1
    /\ cuts' = [cuts EXCEPT ![d] = [pc |-> "marked", at |-> clock + 1]]
    /\ UNCHANGED <<cred, tickets, callbacks, ops, conns, lastCut, google>>

\* mutant: the tombstone carries no time.
TombstoneUndated(d) ==
    [status |-> "disconnected", token |-> None, account |-> None, disconnected_at |-> None]

Tombstone(d) ==
    [status |-> "disconnected", token |-> None, account |-> None,
     disconnected_at |-> cuts[d].at]

Closed == [a \in Accounts |-> IF conns[a] = "none" THEN "none" ELSE "disconnected"]

\* The pending states go, the connections close, and the transaction commits.
Disconnect(d) ==
    /\ cuts[d].pc = "marked"
    /\ cred' = Tombstone(d)
    /\ tickets' = [t \in Tickets |->
          IF tickets[t].pc = "pending" THEN [tickets[t] EXCEPT !.pc = "gone"] ELSE tickets[t]]
    /\ conns' = Closed
    /\ holder' = None
    /\ lastCut' = cuts[d].at
    /\ cuts' = [cuts EXCEPT ![d].pc = "done"]
    /\ UNCHANGED <<clock, callbacks, ops, google>>

\* The request dies: nothing it wrote survives, what Google revoked stays so.
DisconnectDies(d) ==
    /\ cuts[d].pc \in {"revoking", "marking", "marked"}
    /\ cuts' = [cuts EXCEPT ![d].pc = "done"]
    /\ holder' = IF holder = d THEN None ELSE holder
    /\ UNCHANGED <<clock, cred, tickets, callbacks, ops, conns, lastCut, google>>

\* External: the owner removes the access at Google.
RemovedAtGoogle(t) ==
    /\ \E k \in valid : k.ticket = t
    /\ valid' = {k \in valid : k.ticket # t}
    /\ UNCHANGED <<clock, cred, tickets, callbacks, ops, cuts, holder, conns, lastCut,
                   issued, stranded>>

-----------------------------------------------------------------------------
Operate(o) ==
    \/ Lock(o) \/ RefreshOk(o) \/ RefreshRevoked(o) \/ RefreshFails(o)
    \/ RefreshUnusable(o) \/ EnsureConnection(o) \/ SyncOk(o) \/ SyncUnavailable(o)
    \/ Abort(o) \/ Timeout(o) \/ MarkTimeout(o) \/ GiveUp(o)

Cut(d) ==
    LockToLeave(d) \/ Revoke(d) \/ Mark(d) \/ Disconnect(d) \/ DisconnectDies(d)

Answer(c) ==
    \/ \E t \in Tickets : Consume(c, t)
    \/ \E a \in Accounts : Exchange(c, a)
    \/ ExchangeFails(c)
    \/ StoreGrant(c)

Next ==
    \/ \E t \in Tickets :
          Connect(t) \/ StoreState(t) \/ ExpireState(t) \/ RemovedAtGoogle(t)
    \/ \E c \in Callbacks : Answer(c)
    \/ \E o \in Operations : Operate(o) \/ \E sync \in BOOLEAN : Request(o, sync)
    \/ \E d \in Disconnects : Cut(d) \/ Leave(d)

Spec == Init /\ [][Next]_vars

\* A request that waits for the row gets it when it is free; an operation ends
\* because its timer fires, and a disconnect because its HTTP client's does.
FairSpec ==
    /\ Spec
    /\ \A o \in Operations : WF_vars(Timeout(o)) /\ WF_vars(GiveUp(o))
    /\ \A d \in Disconnects : WF_vars(Cut(d))

-----------------------------------------------------------------------------
(* Properties.                                                             *)

\* What /connections/gmail/status tells the owner.
Reported == IF cred.status = "absent" THEN "disconnected" ELSE cred.status

\* While the connection is reported as disconnected, no secret is kept and no
\* Gmail source connection is active; otherwise the only active one belongs to
\* the account whose grant is stored. It needs the lock that an operation holds
\* over the connector's own transactions, and the UPDATEs of the callback and
\* of the disconnect.
OnlyGrantedAccount ==
    /\ Reported = "disconnected" => cred.token = None
    /\ \A a \in Accounts :
          conns[a] = "active" => Reported # "disconnected" /\ cred.account = a

\* A tombstone is lifted only by a consent that began after it: no operation in
\* flight, no timeout handler and no callback already exchanging its code puts
\* the row back in use.
TombstoneHolds ==
    [][cred.status = "disconnected" /\ cred'.status # "disconnected"
       => /\ cred'.token # None
          /\ tickets[cred'.token.ticket].created_at > cred.disconnected_at]_vars

\* consume_state deletes what it returns: one callback redeems a consent.
RedeemedOnce ==
    \A c, e \in Callbacks :
        c # e /\ callbacks[c].ticket # None => callbacks[c].ticket # callbacks[e].ticket

\* The stored token is one Google accepts, unless the grant was revoked (no
\* token of it is accepted), the row's holder is about to replace it, or an
\* operation ended between Google's answer and the commit. In particular the
\* error paths that commit keep the token they were given.
UsableUnlessDropped ==
    cred.token # None /\ cred.token \notin valid =>
        \/ \A k \in valid : k.ticket # cred.token.ticket
        \/ holder \in Operations
        \/ cred.token.ticket \in stranded

\* Whatever holds the row when the owner disconnects, the request ends: an
\* operation holds the row no longer than its time limit.
DisconnectAnswered ==
    \A d \in Disconnects : cuts[d].pc = "waiting" ~> cuts[d].pc = "done"

\* docs/security.md: the tombstone prevents an already exchanging callback from
\* resurrecting credentials. The grant in use would then always come from a
\* consent that began after the owner's latest disconnect; a reconnect, which
\* sets disconnected_at to NULL, lets an older callback through.
NeverResurrected ==
    cred.token # None => tickets[cred.token.ticket].created_at > lastCut

=============================================================================
