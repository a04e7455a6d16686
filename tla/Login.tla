-------------------------------- MODULE Login --------------------------------
(***************************************************************************)
(* Signing in: app/auth/router.py with app/auth/session.py and              *)
(* app/auth/oauth.py. A login begins in a browser, goes to the identity     *)
(* provider and comes back as a callback; the callback checks the ID token  *)
(* and then, in one transaction, finds or creates the user of the subject   *)
(* and replaces the browser's session.                                      *)
(*                                                                         *)
(* The transaction runs under READ COMMITTED: what it inserts is seen by    *)
(* the others when it commits, except that a second INSERT of one identity  *)
(* waits for the first (the unique index on issuer and subject).            *)
(***************************************************************************)
EXTENDS Naturals, FiniteSets

CONSTANTS
    Logins,     \* login attempts; each brings one user id and one token
    Browsers,   \* browsers, each with a cookie of either kind
    Subjects,   \* subjects of the configured issuer
    None

LoginAssumption == None \notin Logins \cup Browsers \cup Subjects

VARIABLES
    login,      \* where each attempt stands, with its uncommitted choices
    identity,   \* auth_identities: the user of each subject, or None
    users,      \* committed rows of users created by a login
    session,    \* auth_sessions by token: [state, user]
    flow,       \* the OAuth browser cookie: the attempt begun last
    cookie,     \* the session cookie of each browser
    leaving     \* the token of the logout each browser has in progress

vars == <<login, identity, users, session, flow, cookie, leaving>>

-----------------------------------------------------------------------------
(* A login stands for the user id it may create and for its session token.  *)
Users  == Logins
Tokens == Logins

Attempts ==
    [pc : {"idle", "away", "claimed", "discovered", "validated", "creating", "resolved",
           "committed", "done", "over"},
     browser : Browsers \cup {None}, subject : Subjects \cup {None},
     user : Users \cup {None}, created : BOOLEAN, old : Tokens \cup {None}]

Sessions == [state : {"none", "live", "expired", "deleted"}, user : Users \cup {None}]

TypeOK ==
    /\ login \in [Logins -> Attempts]
    /\ identity \in [Subjects -> Users \cup {None}]
    /\ users \subseteq Users
    /\ session \in [Tokens -> Sessions]
    /\ flow \in [Browsers -> Logins \cup {None}]
    /\ cookie \in [Browsers -> Tokens \cup {None}]
    /\ leaving \in [Browsers -> Tokens \cup {None}]

Init ==
    /\ login = [l \in Logins |->
          [pc |-> "idle", browser |-> None, subject |-> None, user |-> None,
           created |-> FALSE, old |-> None]]
    /\ identity = [s \in Subjects |-> None]
    /\ users = {}
    /\ session = [t \in Tokens |-> [state |-> "none", user |-> None]]
    /\ flow = [b \in Browsers |-> None]
    /\ cookie = [b \in Browsers |-> None]
    /\ leaving = [b \in Browsers |-> None]

\* Who a request of browser b is: a cookie must name a session not yet expired.
Principal(b) ==
    IF cookie[b] # None /\ session[cookie[b]].state = "live"
    THEN session[cookie[b]].user ELSE None

-----------------------------------------------------------------------------
(* From the login to the ID token.                                         *)

\* The browser cookie of an earlier attempt is overwritten.
Begin(l, b) ==
    /\ login[l].pc = "idle"
    /\ login' = [login EXCEPT ![l].pc = "away", ![l].browser = b]
    /\ flow' = [flow EXCEPT ![b] = l]
    /\ UNCHANGED <<identity, users, session, cookie, leaving>>

\* consume_state: the state must belong to the browser's current attempt. The
\* request carries the session cookie the browser has now.
Claim(l) ==
    LET b == login[l].browser IN
    /\ login[l].pc = "away"
    /\ flow[b] = l
    /\ login' = [login EXCEPT ![l].pc = "claimed", ![l].old = cookie[b]]
    /\ UNCHANGED <<identity, users, session, flow, cookie, leaving>>

\* The provider's metadata names this issuer, supports S256 and has endpoints.
Discover(l) ==
    /\ login[l].pc = "claimed"
    /\ login' = [login EXCEPT ![l].pc = "discovered"]
    /\ UNCHANGED <<identity, users, session, flow, cookie, leaving>>

\* The ID token is signed by a key of the provider, for this client and nonce.
Validate(l, s) ==
    /\ login[l].pc = "discovered"
    /\ login' = [login EXCEPT ![l].pc = "validated", ![l].subject = s]
    /\ UNCHANGED <<identity, users, session, flow, cookie, leaving>>

\* Consent refused, an expired or foreign state, metadata or a token refused;
\* and, once the transaction has begun, a crash that rolls it back.
Fail(l) ==
    /\ login[l].pc \in {"away", "claimed", "discovered", "validated", "creating", "resolved"}
    /\ login' = [login EXCEPT ![l].pc = "over"]
    /\ UNCHANGED <<identity, users, session, flow, cookie, leaving>>

-----------------------------------------------------------------------------
(* The transaction of the callback.                                        *)

\* The first SELECT: a known subject has its user, another gets a new one.
FindIdentity(l) ==
    LET known == identity[login[l].subject] IN
    /\ login[l].pc = "validated"
    /\ login' = [login EXCEPT ![l].pc = IF known = None THEN "creating" ELSE "resolved",
                              ![l].created = (known = None),
                              ![l].user = known]
    /\ UNCHANGED <<identity, users, session, flow, cookie, leaving>>

\* Another transaction has inserted the identity and has not committed.
Waits(l) ==
    \E k \in Logins \ {l} :
        /\ login[k].pc = "resolved"
        /\ login[k].user = k
        /\ login[k].subject = login[l].subject

\* mutant: the loser keeps the user it has just inserted.
WinnerSelf(l) == l

\* ON CONFLICT DO NOTHING: the identity is this login's if nobody committed
\* one; otherwise the user is read back.
Winner(l) ==
    IF identity[login[l].subject] = None THEN l ELSE identity[login[l].subject]

InsertIdentity(l) ==
    /\ login[l].pc = "creating"
    /\ ~Waits(l)
    /\ login' = [login EXCEPT ![l].pc = "resolved", ![l].user = Winner(l)]
    /\ UNCHANGED <<identity, users, session, flow, cookie, leaving>>

\* mutant: the user row of the loser is not deleted.
UsersAfterKept(l) == IF login[l].created THEN users \cup {l} ELSE users

\* A user row inserted for nothing is deleted before the commit.
UsersAfter(l) == IF login[l].user = l THEN users \cup {l} ELSE users

\* mutant: ON CONFLICT DO UPDATE, the last login wins.
IdentityAfterLast(l) ==
    IF login[l].created THEN [identity EXCEPT ![login[l].subject] = l] ELSE identity

IdentityAfter(l) ==
    IF login[l].user = l THEN [identity EXCEPT ![login[l].subject] = l] ELSE identity

\* mutant: the session the browser came with is kept.
SessionAfterKept(l) ==
    [session EXCEPT ![l] = [state |-> "live", user |-> login[l].user]]

\* The browser's former session and the expired ones go, the new one comes.
SessionAfter(l) ==
    [t \in Tokens |->
        IF t = l THEN [state |-> "live", user |-> login[l].user]
        ELSE IF t = login[l].old \/ session[t].state = "expired"
        THEN [session[t] EXCEPT !.state = IF @ = "none" THEN @ ELSE "deleted"]
        ELSE session[t]]

Commit(l) ==
    /\ login[l].pc = "resolved"
    /\ users' = UsersAfter(l)
    /\ identity' = IdentityAfter(l)
    /\ session' = SessionAfter(l)
    /\ login' = [login EXCEPT ![l].pc = "committed"]
    /\ UNCHANGED <<flow, cookie, leaving>>

\* The response sets the session cookie and removes the other; it may be lost.
Respond(l) ==
    LET b == login[l].browser IN
    /\ login[l].pc = "committed"
    /\ login' = [login EXCEPT ![l].pc = "done"]
    /\ \/ /\ cookie' = [cookie EXCEPT ![b] = l]
          /\ flow' = [flow EXCEPT ![b] = None]
       \/ UNCHANGED <<cookie, flow>>
    /\ UNCHANGED <<identity, users, session, leaving>>

-----------------------------------------------------------------------------
(* Expiry and logout.                                                      *)

Expire(t) ==
    /\ session[t].state = "live"
    /\ session' = [session EXCEPT ![t].state = "expired"]
    /\ UNCHANGED <<login, identity, users, flow, cookie, leaving>>

\* require_csrf accepts only a live session.
AskLogout(b) ==
    /\ leaving[b] = None
    /\ Principal(b) # None
    /\ leaving' = [leaving EXCEPT ![b] = cookie[b]]
    /\ UNCHANGED <<login, identity, users, session, flow, cookie>>

\* The session named by the request goes, and the cookie whatever it holds now.
Logout(b) ==
    /\ leaving[b] # None
    /\ session' = [session EXCEPT ![leaving[b]].state = "deleted"]
    /\ cookie' = [cookie EXCEPT ![b] = None]
    /\ leaving' = [leaving EXCEPT ![b] = None]
    /\ UNCHANGED <<login, identity, users, flow>>

-----------------------------------------------------------------------------
Next ==
    \/ \E l \in Logins :
          \/ \E b \in Browsers : Begin(l, b)
          \/ Claim(l) \/ Discover(l) \/ Fail(l)
          \/ \E s \in Subjects : Validate(l, s)
          \/ FindIdentity(l) \/ InsertIdentity(l) \/ Commit(l) \/ Respond(l)
          \/ Expire(l)
    \/ \E b \in Browsers : AskLogout(b) \/ Logout(b)

Spec == Init /\ [][Next]_vars

-----------------------------------------------------------------------------
(* Properties.                                                             *)

\* Every user created by a login is the user of exactly one subject: of two
\* first logins of one subject, in whatever order they read, insert, commit or
\* die, one creates the user and the other leaves no row behind.
NoOrphanUser ==
    /\ users = {identity[s] : s \in Subjects} \ {None}
    /\ \A s, r \in Subjects : s # r /\ identity[s] # None => identity[s] # identity[r]

\* A session belongs to the user of the subject whose ID token it was made for,
\* also when that user was created meanwhile by another login.
SessionOfSubject ==
    \A l \in Logins :
        session[l].state # "none" =>
            /\ session[l].user = identity[login[l].subject]
            /\ session[l].user # None

\* A browser's cookie that went into a completed login is dead, and a session
\* that ended stays so: sessions rotate at each login.
Rotated ==
    \A l \in Logins :
        login[l].pc \in {"committed", "done"} /\ login[l].old # None =>
            session[login[l].old].state = "deleted"

\* A subject never changes its user.
IdentityIsFinal ==
    [][\A s \in Subjects : identity[s] # None => identity'[s] = identity[s]]_identity

=============================================================================
