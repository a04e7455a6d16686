---------------------------- MODULE ServicesProofs ----------------------------
(***************************************************************************)
(* Theorems about the services around the queue, for every choice of the   *)
(* constants that ServicesAssumptions allows: sign-in, the mailbox sync,   *)
(* questions to the agent, the attempts of one extraction in time, the     *)
(* review of what it said and the deliveries of the sources, each with its *)
(* inductive invariant, and then the properties that the run of the        *)
(* services checks. The lemmas before those say that the run lets a        *)
(* component take the steps of its specification and no others.            *)
(***************************************************************************)
EXTENDS MCServices, Sums, FiniteSetTheorems, SequenceTheorems, WellFoundedInduction, TLAPS

-----------------------------------------------------------------------------
(* Sign-in: the inductive invariant *)

\* The attempt l has inserted a user of its own and has not committed.
SignInCreates(l) == login_login[l].pc = "resolved" /\ login_login[l].user = l

(* An attempt has a session once it has committed and not before. One that   *)
(* is about to commit has the user of its subject, or is to create it.       *)
SignInAttemptOK(l) ==
    LET a == login_login[l] IN
    /\ login_session[l].state # "none" <=> a.pc \in {"committed", "done"}
    /\ a.pc # "idle" => a.browser \in Processes
    /\ a.pc \in {"validated", "creating", "resolved", "committed", "done"} =>
          a.subject \in Subjects
    /\ a.old # None => a.old # l /\ login_session[a.old].state # "none"
    /\ SignInCreates(l) => login_identity[a.subject] = None
    /\ a.pc = "resolved" /\ a.user # l =>
          a.user # None /\ login_identity[a.subject] = a.user

\* Of the attempts for one subject at most one is creating its user.
SignInOneCreates ==
    \A k, l \in Requests :
        k # l /\ SignInCreates(k) /\ SignInCreates(l) => login_login[k].subject # login_login[l].subject

\* The user of a subject is that of a committed attempt for this subject.
SignInIdentityOK(s) ==
    LET u == login_identity[s] IN
    u # None => login_login[u].pc \in {"committed", "done"} /\ login_login[u].subject = s

\* Cookies and logouts name sessions that have been made.
SignInCookiesOK ==
    \A b \in Processes :
        /\ login_cookie[b] # None => login_session[login_cookie[b]].state # "none"
        /\ login_leaving[b] # None => login_session[login_leaving[b]].state # "none"

SignInInv ==
    /\ SignIn!TypeOK
    /\ \A l \in Requests : SignInAttemptOK(l)
    /\ SignInOneCreates
    /\ \A s \in Subjects : SignInIdentityOK(s)
    /\ SignInCookiesOK
    /\ login_users = {login_identity[s] : s \in Subjects} \ {None}
    /\ SignIn!SessionOfSubject /\ SignIn!Rotated

\* The invariant holds before anyone signs in.
LEMMA SignInInit ==
  ASSUME SignIn!LoginAssumption, SignIn!Init
  PROVE  SignInInv
<1>1. SignIn!TypeOK
  <2>1. [pc |-> "idle", browser |-> None, subject |-> None, user |-> None,
         created |-> FALSE, old |-> None] \in SignIn!Attempts
    BY DEF SignIn!Attempts
  <2>2. [state |-> "none", user |-> None] \in SignIn!Sessions
    BY DEF SignIn!Sessions
  <2> QED BY <2>1, <2>2 DEF SignIn!Init, SignIn!TypeOK
<1>2. ASSUME NEW l \in Requests PROVE SignInAttemptOK(l) /\ ~SignInCreates(l)
  BY DEF SignIn!Init, SignInAttemptOK, SignInCreates, SignIn!Tokens
<1>3. (\A s \in Subjects : SignInIdentityOK(s)) /\ SignInCookiesOK
  BY DEF SignIn!Init, SignInIdentityOK, SignInCookiesOK
<1>4. login_users = {login_identity[s] : s \in Subjects} \ {None}
  <2>1. login_users = {} /\ \A s \in Subjects : login_identity[s] = None
    BY DEF SignIn!Init
  <2> QED BY <2>1
<1>5. SignIn!SessionOfSubject /\ SignIn!Rotated
  BY DEF SignIn!Init, SignIn!SessionOfSubject, SignIn!Rotated, SignIn!Tokens
<1> QED BY <1>1, <1>2, <1>3, <1>4, <1>5 DEF SignInInv, SignInOneCreates

-----------------------------------------------------------------------------
(* Up to the commit *)

\* An attempt moves on, and nothing else changes but the browser's attempt.
LEMMA SignInAttemptStep ==
  ASSUME SignIn!LoginAssumption, SignInInv, NEW l \in Requests,
         login_login[l].pc \notin {"committed", "done"},
         login_login'[l] \in SignIn!Attempts,
         login_login' = [login_login EXCEPT ![l] = login_login'[l]],
         login_flow' \in [Processes -> Requests \cup {None}],
         UNCHANGED <<login_identity, login_users, login_session, login_cookie, login_leaving>>,
         SignInAttemptOK(l)', login_login'[l].pc \notin {"committed", "done"},
         SignInCreates(l)' =>
            \A k \in Requests \ {l} : SignInCreates(k)
              => login_login[k].subject # login_login'[l].subject
  PROVE  SignInInv'
<1>1. /\ login_login' \in [Requests -> SignIn!Attempts]
      /\ \A k \in Requests \ {l} : login_login'[k] = login_login[k]
  BY DEF SignInInv, SignIn!TypeOK
<1>2. SignIn!TypeOK'
  BY <1>1 DEF SignInInv, SignIn!TypeOK
<1>3. ASSUME NEW k \in Requests \ {l}
      PROVE SignInAttemptOK(k)' /\ (SignInCreates(k)' <=> SignInCreates(k))
  BY <1>1 DEF SignInInv, SignInAttemptOK, SignInCreates
<1>4. SignInOneCreates'
  BY <1>1, <1>3 DEF SignInInv, SignInOneCreates
<1>5. ASSUME NEW s \in Subjects PROVE SignInIdentityOK(s)'
  <2>1. login_identity[s] \in Requests \cup {None}
    BY DEF SignInInv, SignIn!TypeOK, SignIn!Users
  <2> QED BY <1>1, <2>1 DEF SignInInv, SignInIdentityOK
<1>6. SignInCookiesOK' /\ (login_users = {login_identity[s] : s \in Subjects} \ {None})'
  BY DEF SignInInv, SignInCookiesOK
<1>7. SignIn!SessionOfSubject'
  <2>1. login_session[l].state = "none"
    BY DEF SignInInv, SignInAttemptOK
  <2> QED BY <1>1, <2>1 DEF SignInInv, SignIn!SessionOfSubject
<1>8. SignIn!Rotated'
  BY <1>1 DEF SignInInv, SignIn!Rotated
<1> QED BY <1>2, <1>3, <1>4, <1>5, <1>6, <1>7, <1>8 DEF SignInInv

\* What an attempt in its steps before the commit brings along.
LEMMA SignInAttemptHas ==
  ASSUME SignInInv, NEW l \in Requests
  PROVE  SignInAttemptOK(l) /\ login_login[l] \in SignIn!Attempts
  BY DEF SignInInv, SignIn!TypeOK

\* A login that begins keeps the invariant.
LEMMA SignInBeginStep ==
  ASSUME SignIn!LoginAssumption, SignInInv, NEW l \in Requests, NEW b \in Processes, SignIn!Begin(l, b)
  PROVE  SignInInv'
<1>1. PICK x : x = [login_login[l] EXCEPT !.pc = "away", !.browser = b]
  OBVIOUS
<1>2. /\ login_login[l].pc = "idle" /\ login_login' = [login_login EXCEPT ![l] = x]
      /\ UNCHANGED <<login_identity, login_users, login_session, login_cookie, login_leaving>>
  BY <1>1 DEF SignIn!Begin
<1>3. login_flow' \in [Processes -> Requests \cup {None}]
  BY DEF SignIn!Begin, SignInInv, SignIn!TypeOK
<1>4. /\ x \in SignIn!Attempts /\ x.pc = "away" /\ x.browser = b /\ x.old = login_login[l].old
  BY <1>1, SignInAttemptHas DEF SignIn!Attempts
<1>5. login_login'[l] = x
  BY <1>2 DEF SignInInv, SignIn!TypeOK
<1>6. SignInAttemptOK(l)' /\ ~SignInCreates(l)'
  BY <1>2, <1>4, <1>5, SignInAttemptHas DEF SignInAttemptOK, SignInCreates
<1> QED BY <1>2, <1>3, <1>4, <1>5, <1>6, SignInAttemptStep

\* A login that claims its flow keeps the invariant.
LEMMA SignInClaimStep ==
  ASSUME SignIn!LoginAssumption, SignInInv, NEW l \in Requests, SignIn!Claim(l)
  PROVE  SignInInv'
<1>1. PICK x : x = [login_login[l] EXCEPT !.pc = "claimed",
        !.old = login_cookie[login_login[l].browser]]
  OBVIOUS
<1>2. /\ login_login[l].pc = "away" /\ login_login' = [login_login EXCEPT ![l] = x]
      /\ UNCHANGED <<login_identity, login_users, login_session, login_flow, login_cookie,
           login_leaving>>
  BY <1>1 DEF SignIn!Claim
<1>3. login_login[l].browser \in Processes /\ login_session[l].state = "none"
  BY <1>2, SignInAttemptHas DEF SignInAttemptOK
<1>4. login_cookie[login_login[l].browser] \in SignIn!Tokens \cup {None}
  BY <1>3 DEF SignInInv, SignIn!TypeOK
<1>5. /\ x \in SignIn!Attempts /\ x.pc = "claimed" /\ x.browser = login_login[l].browser
      /\ x.old = login_cookie[login_login[l].browser]
  BY <1>1, <1>4, SignInAttemptHas DEF SignIn!Attempts
<1>6. login_login'[l] = x
  BY <1>2 DEF SignInInv, SignIn!TypeOK
<1>7. SignInAttemptOK(l)' /\ ~SignInCreates(l)'
  BY <1>2, <1>3, <1>5, <1>6 DEF SignInAttemptOK, SignInCreates, SignInInv, SignInCookiesOK
<1> QED BY <1>2, <1>5, <1>6, <1>7, SignInAttemptStep DEF SignInInv, SignIn!TypeOK

\* Discovering the provider and failing keep the invariant.
LEMMA SignInPassSteps ==
  ASSUME SignIn!LoginAssumption, SignInInv, NEW l \in Requests, SignIn!Discover(l) \/ SignIn!Fail(l)
  PROVE  SignInInv'
<1>1. PICK pc \in {"discovered", "over"} :
        /\ login_login' = [login_login EXCEPT ![l].pc = pc]
        /\ UNCHANGED <<login_identity, login_users, login_session, login_flow, login_cookie,
             login_leaving>>
        /\ login_login[l].pc \notin {"idle", "committed", "done"}
  BY DEF SignIn!Discover, SignIn!Fail
<1>2. PICK x : x = [login_login[l] EXCEPT !.pc = pc]
  OBVIOUS
<1>3. /\ x \in SignIn!Attempts /\ x.pc = pc /\ x.browser = login_login[l].browser
      /\ x.old = login_login[l].old
  BY <1>2, SignInAttemptHas DEF SignIn!Attempts
<1>4. login_login' = [login_login EXCEPT ![l] = x]
  BY <1>1, <1>2
<1>5. login_login'[l] = x
  BY <1>4 DEF SignInInv, SignIn!TypeOK
<1>6. SignInAttemptOK(l)' /\ ~SignInCreates(l)'
  BY <1>1, <1>3, <1>5, SignInAttemptHas DEF SignInAttemptOK, SignInCreates
<1> QED BY <1>1, <1>3, <1>4, <1>5, <1>6, SignInAttemptStep DEF SignInInv, SignIn!TypeOK

\* An ID token that is validated keeps the invariant.
LEMMA SignInValidateStep ==
  ASSUME SignIn!LoginAssumption, SignInInv, NEW l \in Requests, NEW s \in Subjects,
         SignIn!Validate(l, s)
  PROVE  SignInInv'
<1>1. PICK x : x = [login_login[l] EXCEPT !.pc = "validated", !.subject = s]
  OBVIOUS
<1>2. /\ login_login[l].pc = "discovered" /\ login_login' = [login_login EXCEPT ![l] = x]
      /\ UNCHANGED <<login_identity, login_users, login_session, login_flow, login_cookie,
           login_leaving>>
  BY <1>1 DEF SignIn!Validate
<1>3. /\ x \in SignIn!Attempts /\ x.pc = "validated" /\ x.browser = login_login[l].browser
      /\ x.old = login_login[l].old /\ x.subject = s
  BY <1>1, SignInAttemptHas DEF SignIn!Attempts
<1>4. login_login'[l] = x
  BY <1>2 DEF SignInInv, SignIn!TypeOK
<1>5. SignInAttemptOK(l)' /\ ~SignInCreates(l)'
  BY <1>2, <1>3, <1>4, SignInAttemptHas DEF SignInAttemptOK, SignInCreates
<1> QED BY <1>2, <1>3, <1>4, <1>5, SignInAttemptStep DEF SignInInv, SignIn!TypeOK

-----------------------------------------------------------------------------
(* The transaction *)

\* The user of a known subject is never the attempt that looks it up.
LEMMA SignInFindIdentityStep ==
  ASSUME SignIn!LoginAssumption, SignInInv, NEW l \in Requests, SignIn!FindIdentity(l)
  PROVE  SignInInv'
<1>1. PICK known : known = login_identity[login_login[l].subject]
  OBVIOUS
<1>2. PICK x : x = [login_login[l] EXCEPT !.pc = IF known = None THEN "creating" ELSE "resolved",
                                    !.created = (known = None), !.user = known]
  OBVIOUS
<1>3. /\ login_login[l].pc = "validated" /\ login_login' = [login_login EXCEPT ![l] = x]
      /\ UNCHANGED <<login_identity, login_users, login_session, login_flow, login_cookie,
           login_leaving>>
  BY <1>1, <1>2 DEF SignIn!FindIdentity
<1>4. login_login[l].subject \in Subjects /\ known \in SignIn!Users \cup {None}
  BY <1>1, <1>3, SignInAttemptHas DEF SignInAttemptOK, SignInInv, SignIn!TypeOK
<1>5. /\ x \in SignIn!Attempts /\ x.browser = login_login[l].browser /\ x.old = login_login[l].old
      /\ x.pc = IF known = None THEN "creating" ELSE "resolved"
      /\ x.user = known /\ x.subject = login_login[l].subject
  <2>1. (known = None) \in BOOLEAN /\ login_login[l] \in SignIn!Attempts
    BY SignInAttemptHas
  <2> QED BY <1>2, <1>4, <2>1 DEF SignIn!Attempts
<1>6. login_login'[l] = x
  BY <1>3 DEF SignInInv, SignIn!TypeOK
<1>7. known # l
  BY <1>1, <1>3, <1>4, SignIn!LoginAssumption DEF SignInInv, SignInIdentityOK, SignIn!LoginAssumption
<1>8. SignInAttemptOK(l)' /\ ~SignInCreates(l)'
  BY <1>1, <1>3, <1>4, <1>5, <1>6, <1>7, SignInAttemptHas DEF SignInAttemptOK, SignInCreates
<1> QED BY <1>3, <1>5, <1>6, <1>8, SignInAttemptStep DEF SignInInv, SignIn!TypeOK

\* The unique index: who inserts the identity does so alone.
LEMMA SignInInsertIdentityStep ==
  ASSUME SignIn!LoginAssumption, SignInInv, NEW l \in Requests, SignIn!InsertIdentity(l)
  PROVE  SignInInv'
<1>1. PICK x : x = [login_login[l] EXCEPT !.pc = "resolved", !.user = SignIn!Winner(l)]
  OBVIOUS
<1>2. /\ login_login[l].pc = "creating" /\ ~SignIn!Waits(l)
           /\ login_login' = [login_login EXCEPT ![l] = x]
      /\ UNCHANGED <<login_identity, login_users, login_session, login_flow, login_cookie,
           login_leaving>>
  BY <1>1 DEF SignIn!InsertIdentity
<1>3. login_login[l].subject \in Subjects /\ SignIn!Winner(l) \in SignIn!Users
  BY <1>2, SignInAttemptHas DEF SignInAttemptOK, SignInInv, SignIn!TypeOK, SignIn!Winner, SignIn!Users
<1>4. /\ x \in SignIn!Attempts /\ x.browser = login_login[l].browser /\ x.old = login_login[l].old
      /\ x.pc = "resolved" /\ x.user = SignIn!Winner(l) /\ x.subject = login_login[l].subject
  BY <1>1, <1>3, SignInAttemptHas DEF SignIn!Attempts
<1>5. login_login'[l] = x
  BY <1>2 DEF SignInInv, SignIn!TypeOK
<1>6. login_identity[login_login[l].subject] # l
  BY <1>2, <1>3, SignIn!LoginAssumption DEF SignInInv, SignInIdentityOK, SignIn!LoginAssumption
<1>7. SignInAttemptOK(l)'
  BY <1>2, <1>3, <1>4, <1>5, <1>6, SignInAttemptHas, SignIn!LoginAssumption
     DEF SignInAttemptOK, SignInCreates, SignIn!Winner, SignIn!LoginAssumption, SignIn!Users
<1>8. \A k \in Requests \ {l} : SignInCreates(k) => login_login[k].subject # login_login'[l].subject
  BY <1>2, <1>4, <1>5 DEF SignIn!Waits, SignInCreates
<1> QED BY <1>2, <1>4, <1>5, <1>7, <1>8, SignInAttemptStep DEF SignInInv, SignIn!TypeOK

(* The commit. The subject has the attempt's user from now on, as it had     *)
(* before unless the attempt created it; the new session is live, and of the *)
(* others some end.                                                          *)
LEMMA SignInCommitting ==
  ASSUME SignIn!LoginAssumption, SignInInv, NEW l \in Requests, SignIn!Commit(l), NEW a,
         a = login_login[l]
  PROVE  /\ a \in SignIn!Attempts /\ SignInAttemptOK(l)
         /\ a.pc = "resolved" /\ a.subject \in Subjects /\ a.user \in SignIn!Users
         /\ login_login' = [login_login EXCEPT ![l] = login_login'[l]]
         /\ login_login'[l] \in SignIn!Attempts
         /\ login_login'[l].pc = "committed" /\ login_login'[l].browser = a.browser
         /\ login_login'[l].subject = a.subject /\ login_login'[l].old = a.old
         /\ login_identity'[a.subject] = a.user /\ login_identity[a.subject] \in {None, a.user}
         /\ \A s \in Subjects \ {a.subject} : login_identity'[s] = login_identity[s]
         /\ login_identity' \in [Subjects -> SignIn!Users \cup {None}]
         /\ login_users' = login_users \cup {a.user}
         /\ login_identity[a.subject] = None => a.user = l
         /\ login_identity[a.subject] # None => login_identity' = login_identity
         /\ login_session' \in [SignIn!Tokens -> SignIn!Sessions]
         /\ login_session'[l].state = "live" /\ login_session'[l].user = a.user
         /\ \A t \in SignIn!Tokens \ {l} :
               /\ login_session'[t].user = login_session[t].user
               /\ login_session'[t].state = "none" <=> login_session[t].state = "none"
               /\ login_session[t].state = "deleted" => login_session'[t].state = "deleted"
               /\ t = a.old /\ login_session[t].state # "none" => login_session'[t].state = "deleted"
<1>1. a = login_login[l]
  OBVIOUS
<1>2. a \in SignIn!Attempts /\ SignInAttemptOK(l) /\ a.pc = "resolved" /\ a.subject \in Subjects
  BY <1>1, SignInAttemptHas DEF SignIn!Commit, SignInAttemptOK
<1>3. a.user \in SignIn!Users /\ (a.user = l => login_identity[a.subject] = None)
      /\ (a.user # l => login_identity[a.subject] = a.user)
  BY <1>1, <1>2 DEF SignInAttemptOK, SignInCreates, SignIn!Attempts, SignIn!Users
<1>4. /\ login_login' = [login_login EXCEPT ![l] = [a EXCEPT !.pc = "committed"]]
      /\ login_users' = SignIn!UsersAfter(l) /\ login_identity' = SignIn!IdentityAfter(l)
      /\ login_session' = SignIn!SessionAfter(l)
  BY <1>1 DEF SignIn!Commit
<1>5. /\ login_login' = [login_login EXCEPT ![l] = login_login'[l]]
      /\ login_login'[l] \in SignIn!Attempts
      /\ login_login'[l].pc = "committed" /\ login_login'[l].browser = a.browser
      /\ login_login'[l].subject = a.subject /\ login_login'[l].old = a.old
  <2>1. login_login'[l] = [a EXCEPT !.pc = "committed"]
    BY <1>4 DEF SignInInv, SignIn!TypeOK
  <2>2. login_login' = [login_login EXCEPT ![l] = login_login'[l]]
    BY <1>4, <2>1
  <2>3. [a EXCEPT !.pc = "committed"] \in SignIn!Attempts
    BY <1>2 DEF SignIn!Attempts
  <2> QED BY <1>2, <2>1, <2>2, <2>3 DEF SignIn!Attempts
<1>6. login_identity' = IF a.user = l THEN [login_identity EXCEPT ![a.subject] = l] ELSE login_identity
  BY <1>1, <1>4 DEF SignIn!IdentityAfter
<1>7. /\ login_identity'[a.subject] = a.user
      /\ \A s \in Subjects \ {a.subject} : login_identity'[s] = login_identity[s]
      /\ login_identity' \in [Subjects -> SignIn!Users \cup {None}]
  BY <1>2, <1>3, <1>6, SignIn!LoginAssumption
     DEF SignInInv, SignIn!TypeOK, SignIn!Users, SignIn!LoginAssumption
<1>8. login_users' = login_users \cup {a.user}
  <2>1. CASE a.user = l
    BY <1>1, <1>4, <2>1 DEF SignIn!UsersAfter
  <2>2. CASE a.user # l
    <3>1. a.user \in login_users
      BY <1>2, <1>3, <2>2, SignIn!LoginAssumption DEF SignInInv, SignIn!Users, SignIn!LoginAssumption
    <3>2. login_users' = login_users
      BY <1>1, <1>4, <2>2 DEF SignIn!UsersAfter
    <3> QED BY <3>1, <3>2
  <2> QED BY <2>1, <2>2
<1>9. \A t \in SignIn!Tokens :
         login_session'[t] = IF t = l THEN [state |-> "live", user |-> a.user]
                                      ELSE IF t = a.old \/ login_session[t].state = "expired"
                       THEN [login_session[t] EXCEPT
                               !.state = IF login_session[t].state = "none" THEN login_session[t].state
                                                                            ELSE "deleted"]
                       ELSE login_session[t]
  BY <1>1, <1>4 DEF SignIn!SessionAfter
<1>10. login_session'[l] = [state |-> "live", user |-> a.user]
  BY <1>9 DEF SignIn!Tokens
<1>11. ASSUME NEW t \in SignIn!Tokens \ {l}
       PROVE  /\ login_session'[t] \in SignIn!Sessions
              /\ login_session'[t].user = login_session[t].user
              /\ login_session'[t].state = "none" <=> login_session[t].state = "none"
              /\ login_session[t].state = "deleted" => login_session'[t].state = "deleted"
              /\ t = a.old /\ login_session[t].state # "none" => login_session'[t].state = "deleted"
  <2>1. login_session[t] \in SignIn!Sessions
    BY DEF SignInInv, SignIn!TypeOK
  <2>2. CASE t = a.old \/ login_session[t].state = "expired"
    BY <1>9, <2>1, <2>2 DEF SignIn!Sessions
  <2>3. CASE ~(t = a.old \/ login_session[t].state = "expired")
    BY <1>9, <2>1, <2>3
  <2> QED BY <2>2, <2>3
<1>12. login_session' \in [SignIn!Tokens -> SignIn!Sessions]
  <2>1. \A t \in SignIn!Tokens : login_session'[t] \in SignIn!Sessions
    BY <1>3, <1>10, <1>11 DEF SignIn!Sessions
  <2> QED BY <1>4, <2>1 DEF SignIn!SessionAfter
<1>13. login_session'[l].state = "live" /\ login_session'[l].user = a.user
  BY <1>10
<1>14. /\ login_identity[a.subject] \in {None, a.user}
       /\ login_identity[a.subject] = None => a.user = l
       /\ login_identity[a.subject] # None => login_identity' = login_identity
  BY <1>3, <1>6, SignIn!LoginAssumption DEF SignIn!LoginAssumption, SignIn!Users
<1>15. \A t \in SignIn!Tokens \ {l} :
          /\ login_session'[t].user = login_session[t].user
          /\ login_session'[t].state = "none" <=> login_session[t].state = "none"
          /\ login_session[t].state = "deleted" => login_session'[t].state = "deleted"
          /\ t = a.old /\ login_session[t].state # "none" => login_session'[t].state = "deleted"
  BY <1>11
<1> QED BY <1>1, <1>2, <1>3, <1>5, <1>7, <1>8, <1>12, <1>13, <1>14, <1>15

\* A login that commits keeps the invariant.
LEMMA SignInCommitStep ==
  ASSUME SignIn!LoginAssumption, SignInInv, NEW l \in Requests, SignIn!Commit(l)
  PROVE  SignInInv'
<1> USE SignIn!LoginAssumption DEF SignIn!LoginAssumption, SignIn!Users, SignIn!Tokens
<1>1. PICK a : a = login_login[l]
  OBVIOUS
<1>2. /\ a \in SignIn!Attempts /\ SignInAttemptOK(l)
      /\ a.pc = "resolved" /\ a.subject \in Subjects /\ a.user \in Requests
      /\ login_login' = [login_login EXCEPT ![l] = login_login'[l]]
      /\ login_login'[l] \in SignIn!Attempts
      /\ login_login'[l].pc = "committed" /\ login_login'[l].browser = a.browser
      /\ login_login'[l].subject = a.subject /\ login_login'[l].old = a.old
      /\ login_identity'[a.subject] = a.user /\ login_identity[a.subject] \in {None, a.user}
      /\ \A s \in Subjects \ {a.subject} : login_identity'[s] = login_identity[s]
      /\ login_identity' \in [Subjects -> Requests \cup {None}]
      /\ login_users' = login_users \cup {a.user}
      /\ login_identity[a.subject] = None => a.user = l
      /\ login_session' \in [Requests -> SignIn!Sessions]
      /\ login_session'[l].state = "live" /\ login_session'[l].user = a.user
      /\ \A t \in Requests \ {l} :
            /\ login_session'[t].user = login_session[t].user
            /\ login_session'[t].state = "none" <=> login_session[t].state = "none"
            /\ login_session[t].state = "deleted" => login_session'[t].state = "deleted"
            /\ t = a.old /\ login_session[t].state # "none" => login_session'[t].state = "deleted"
  BY <1>1, SignInCommitting
<1>3. UNCHANGED <<login_flow, login_cookie, login_leaving>>
  BY DEF SignIn!Commit
<1>4. /\ login_login' \in [Requests -> SignIn!Attempts]
      /\ \A k \in Requests \ {l} : login_login'[k] = login_login[k]
  BY <1>2 DEF SignInInv, SignIn!TypeOK
<1>5. SignIn!TypeOK'
  BY <1>2, <1>3, <1>4 DEF SignInInv, SignIn!TypeOK
<1>6. ASSUME NEW s \in Subjects PROVE SignInIdentityOK(s)'
  <2>1. CASE s = a.subject
    <3>1. CASE login_identity[s] = None
      BY <1>2, <2>1, <3>1 DEF SignInIdentityOK
    <3>2. CASE login_identity[s] # None
      <4>1. login_identity[s] = a.user /\ a.user # l
        BY <1>1, <1>2, <2>1, <3>2 DEF SignInAttemptOK, SignInCreates
      <4>2. login_login'[a.user] = login_login[a.user]
        BY <1>2, <1>4, <4>1
      <4> QED BY <1>2, <2>1, <3>2, <4>1, <4>2 DEF SignInInv, SignInIdentityOK
    <3> QED BY <3>1, <3>2
  <2>2. CASE s # a.subject
    <3>1. login_identity'[s] = login_identity[s] /\ login_identity[s] \in Requests \cup {None}
      BY <1>2, <2>2 DEF SignInInv, SignIn!TypeOK
    <3>2. login_identity[s] # l
      BY <1>1, <1>2, <3>1 DEF SignInInv, SignInIdentityOK
    <3>3. login_identity[s] # None => login_login'[login_identity[s]] = login_login[login_identity[s]]
      BY <1>4, <3>1, <3>2
    <3> QED BY <3>1, <3>3 DEF SignInInv, SignInIdentityOK
  <2> QED BY <2>1, <2>2
<1>7. ASSUME NEW k \in Requests
      PROVE SignInAttemptOK(k)' /\ (SignInCreates(k)' => k # l /\ SignInCreates(k))
  <2>1. CASE k = l
    <3>1. a.old # None => a.old \in Requests \ {l} /\ login_session'[a.old].state # "none"
      BY <1>1, <1>2 DEF SignInAttemptOK, SignIn!Attempts
    <3> QED BY <1>1, <1>2, <2>1, <3>1 DEF SignInAttemptOK, SignInCreates
  <2>2. CASE k # l
    <3>1. SignInAttemptOK(k) /\ login_login'[k] = login_login[k] /\ login_login[k] \in SignIn!Attempts
          /\ (SignInCreates(k)' <=> SignInCreates(k))
      BY <1>4, <2>2, SignInAttemptHas DEF SignInCreates
    <3>2. (login_session[k].state # "none") <=> (login_session'[k].state # "none")
      BY <1>2, <2>2
    <3>3. login_login[k].old # None => login_session'[login_login[k].old].state # "none"
      <4>1. login_login[k].old \in Requests \cup {None}
        BY <3>1 DEF SignIn!Attempts
      <4>2. login_session'[l].state # "none"
        BY <1>2
      <4>3. \A t \in Requests \ {l} : login_session[t].state # "none"
              => login_session'[t].state # "none"
        BY <1>2
      <4> QED BY <3>1, <4>1, <4>2, <4>3 DEF SignInAttemptOK
    <3>4. SignInCreates(k) => login_identity'[login_login[k].subject] = None
      <4>1. CASE SignInCreates(l)
        <5>1. SignInCreates(k) => login_login[k].subject # a.subject
                /\ login_login[k].subject \in Subjects
          BY <1>1, <2>2, <3>1, <4>1 DEF SignInInv, SignInOneCreates, SignInAttemptOK, SignInCreates
        <5> QED BY <1>2, <3>1, <5>1 DEF SignInAttemptOK
      <4>2. CASE ~SignInCreates(l)
        <5>1. login_identity[a.subject] = a.user
          BY <1>1, <1>2, <4>2 DEF SignInCreates, SignInAttemptOK
        <5>2. \A s \in Subjects : login_identity'[s] = login_identity[s]
          BY <1>2, <5>1
        <5>3. SignInCreates(k) => login_login[k].subject \in Subjects
          BY <3>1 DEF SignInAttemptOK, SignInCreates
        <5> QED BY <3>1, <5>2, <5>3 DEF SignInAttemptOK
      <4> QED BY <4>1, <4>2
    <3>5. login_login[k].pc = "resolved" /\ login_login[k].user # k =>
             login_identity'[login_login[k].subject] = login_login[k].user
      <4>1. login_login[k].pc = "resolved" /\ login_login[k].user # k =>
               /\ login_login[k].subject \in Subjects /\ login_login[k].user # None
               /\ login_identity[login_login[k].subject] = login_login[k].user
        BY <3>1 DEF SignInAttemptOK
      <4> QED BY <1>2, <4>1
    <3> QED BY <2>2, <3>1, <3>2, <3>3, <3>4, <3>5 DEF SignInAttemptOK
  <2> QED BY <2>1, <2>2
<1>8. SignInOneCreates'
  BY <1>4, <1>7 DEF SignInInv, SignInOneCreates
<1>9. SignInCookiesOK'
  <2>1. \A t \in Requests : login_session[t].state # "none" => login_session'[t].state # "none"
    BY <1>2
  <2>2. \A b \in Processes : login_cookie[b] \in Requests \cup {None}
          /\ login_leaving[b] \in Requests \cup {None}
    BY DEF SignInInv, SignIn!TypeOK
  <2> QED BY <1>3, <2>1, <2>2 DEF SignInInv, SignInCookiesOK
<1>10. (login_users = {login_identity[s] : s \in Subjects} \ {None})'
  <2>1. login_users = {login_identity[s] : s \in Subjects} \ {None}
    BY DEF SignInInv
  <2>2. a.user # None
    BY <1>2
  <2> QED BY <1>2, <2>1, <2>2
<1>11. SignIn!SessionOfSubject'
  <2> SUFFICES ASSUME NEW k \in Requests, login_session'[k].state # "none"
               PROVE  login_session'[k].user = login_identity'[login_login'[k].subject]
                      /\ login_session'[k].user # None
    BY DEF SignIn!SessionOfSubject
  <2>1. CASE k = l
    BY <1>2, <2>1
  <2>2. CASE k # l
    <3>1. /\ login_session'[k].user = login_session[k].user /\ login_login'[k] = login_login[k]
          /\ login_session[k].user = login_identity[login_login[k].subject]
          /\ login_session[k].user # None
      BY <1>2, <1>4, <2>2 DEF SignInInv, SignIn!SessionOfSubject
    <3>2. login_login[k].subject \in Subjects
      BY <1>2, <2>2, SignInAttemptHas DEF SignInAttemptOK
    <3> QED BY <1>2, <3>1, <3>2
  <2> QED BY <2>1, <2>2
<1>12. SignIn!Rotated'
  <2> SUFFICES ASSUME NEW k \in Requests, login_login'[k].pc \in {"committed", "done"},
                      login_login'[k].old # None
               PROVE  login_session'[login_login'[k].old].state = "deleted"
    BY DEF SignIn!Rotated
  <2>1. CASE k = l
    BY <1>1, <1>2, <2>1 DEF SignInAttemptOK, SignIn!Attempts
  <2>2. CASE k # l
    <3>1. /\ login_login'[k] = login_login[k] /\ login_login[k].old \in Requests
          /\ login_session[login_login[k].old].state = "deleted"
      BY <1>4, <2>2, SignInAttemptHas DEF SignInInv, SignIn!Rotated, SignIn!Attempts
    <3>2. login_session[l].state = "none"
      BY <1>1, <1>2 DEF SignInAttemptOK
    <3> QED BY <1>2, <3>1, <3>2
  <2> QED BY <2>1, <2>2
<1> QED BY <1>5, <1>6, <1>7, <1>8, <1>9, <1>10, <1>11, <1>12 DEF SignInInv
-----------------------------------------------------------------------------
(* The response, expiry and logout *)

(* Sessions may end, and the browsers' cookies may be set to sessions that   *)
(* were made: the attempts and the users stay.                               *)
LEMMA SignInSessionStep ==
  ASSUME SignIn!LoginAssumption, SignInInv, UNCHANGED <<login_identity, login_users>>,
         login_login' \in [Requests -> SignIn!Attempts],
         \A l \in Requests :
            /\ login_login'[l] = [login_login[l] EXCEPT !.pc = login_login'[l].pc]
            /\ login_login'[l].pc # login_login[l].pc =>
                  login_login[l].pc = "committed" /\ login_login'[l].pc = "done",
         login_session' \in [SignIn!Tokens -> SignIn!Sessions],
         \A t \in SignIn!Tokens :
            /\ login_session'[t].user = login_session[t].user
            /\ login_session'[t].state = "none" <=> login_session[t].state = "none"
            /\ login_session[t].state = "deleted" => login_session'[t].state = "deleted",
         login_flow' \in [Processes -> Requests \cup {None}],
         login_cookie' \in [Processes -> SignIn!Tokens \cup {None}],
         login_leaving' \in [Processes -> SignIn!Tokens \cup {None}],
         SignInCookiesOK'
  PROVE  SignInInv'
<1> USE SignIn!LoginAssumption DEF SignIn!LoginAssumption, SignIn!Users, SignIn!Tokens
<1>1. SignIn!TypeOK'
  BY DEF SignInInv, SignIn!TypeOK
<1>2. ASSUME NEW l \in Requests
      PROVE  /\ login_login[l] \in SignIn!Attempts /\ login_login'[l].browser = login_login[l].browser
             /\ login_login'[l].subject = login_login[l].subject
             /\ login_login'[l].user = login_login[l].user
             /\ login_login'[l].old = login_login[l].old
             /\ login_login'[l].pc = login_login[l].pc
                \/ (login_login[l].pc = "committed" /\ login_login'[l].pc = "done")
  <2>1. login_login[l] \in SignIn!Attempts
          /\ login_login'[l] = [login_login[l] EXCEPT !.pc = login_login'[l].pc]
    BY DEF SignInInv, SignIn!TypeOK
  <2> QED BY <2>1 DEF SignIn!Attempts
<1>3. ASSUME NEW l \in Requests PROVE SignInAttemptOK(l)' /\ (SignInCreates(l)' <=> SignInCreates(l))
  <2>1. SignInAttemptOK(l) /\ login_login[l].old \in Requests \cup {None}
    BY SignInAttemptHas DEF SignIn!Attempts
  <2>2. login_login[l].old # None => login_session'[login_login[l].old].state # "none"
    BY <2>1 DEF SignInAttemptOK
  <2> QED BY <1>2, <2>1, <2>2 DEF SignInAttemptOK, SignInCreates
<1>4. SignInOneCreates'
  BY <1>2, <1>3 DEF SignInInv, SignInOneCreates
<1>5. ASSUME NEW s \in Subjects PROVE SignInIdentityOK(s)'
  <2>1. login_identity[s] \in Requests \cup {None}
    BY DEF SignInInv, SignIn!TypeOK
  <2> QED BY <1>2, <2>1 DEF SignInInv, SignInIdentityOK
<1>6. SignIn!SessionOfSubject'
  BY <1>2 DEF SignInInv, SignIn!SessionOfSubject
<1>7. SignIn!Rotated'
  <2> SUFFICES ASSUME NEW l \in Requests, login_login'[l].pc \in {"committed", "done"},
                      login_login'[l].old # None
               PROVE  login_session'[login_login'[l].old].state = "deleted"
    BY DEF SignIn!Rotated
  <2>1. login_login[l].old \in Requests /\ login_session[login_login[l].old].state = "deleted"
    BY <1>2 DEF SignInInv, SignIn!Rotated, SignIn!Attempts
  <2> QED BY <1>2, <2>1
<1>8. (login_users = {login_identity[s] : s \in Subjects} \ {None})'
  BY DEF SignInInv
<1> QED BY <1>1, <1>3, <1>4, <1>5, <1>6, <1>7, <1>8 DEF SignInInv

\* A response with its cookie keeps the invariant.
LEMMA SignInRespondStep ==
  ASSUME SignIn!LoginAssumption, SignInInv, NEW l \in Requests, SignIn!Respond(l)
  PROVE  SignInInv'
<1> USE DEF SignIn!Tokens
<1>1. PICK b : b = login_login[l].browser
  OBVIOUS
<1>2. /\ login_login[l].pc = "committed" /\ login_login' = [login_login EXCEPT ![l].pc = "done"]
      /\ \/ login_cookie' = [login_cookie EXCEPT ![b] = l]
           /\ login_flow' = [login_flow EXCEPT ![b] = None]
         \/ UNCHANGED <<login_cookie, login_flow>>
      /\ UNCHANGED <<login_identity, login_users, login_session, login_leaving>>
  BY <1>1 DEF SignIn!Respond
<1>3. b \in Processes /\ login_session[l].state # "none"
  BY <1>1, <1>2, SignInAttemptHas DEF SignInAttemptOK
<1>4. [login_login[l] EXCEPT !.pc = "done"] \in SignIn!Attempts
  BY SignInAttemptHas DEF SignIn!Attempts
<1>5. login_login' \in [Requests -> SignIn!Attempts]
  BY <1>2, <1>4 DEF SignInInv, SignIn!TypeOK
<1>6. \A k \in Requests :
         /\ login_login'[k] = [login_login[k] EXCEPT !.pc = login_login'[k].pc]
         /\ login_login'[k].pc # login_login[k].pc =>
               login_login[k].pc = "committed" /\ login_login'[k].pc = "done"
  <2> SUFFICES ASSUME NEW k \in Requests
               PROVE  /\ login_login'[k] = [login_login[k] EXCEPT !.pc = login_login'[k].pc]
                      /\ login_login'[k].pc # login_login[k].pc =>
                            login_login[k].pc = "committed" /\ login_login'[k].pc = "done"
    OBVIOUS
  <2>1. login_login[k] \in SignIn!Attempts
    BY SignInAttemptHas
  <2>2. CASE k = l
    BY <1>2, <2>1, <2>2 DEF SignInInv, SignIn!TypeOK, SignIn!Attempts
  <2>3. CASE k # l
    <3>1. login_login'[k] = login_login[k]
      BY <1>2, <2>3 DEF SignInInv, SignIn!TypeOK
    <3> QED BY <2>1, <3>1 DEF SignIn!Attempts
  <2> QED BY <2>2, <2>3
<1>7. login_cookie' \in [Processes -> SignIn!Tokens \cup {None}]
        /\ login_flow' \in [Processes -> Requests \cup {None}]
      /\ SignInCookiesOK'
  BY <1>2, <1>3 DEF SignInInv, SignIn!TypeOK, SignInCookiesOK
<1> QED BY <1>2, <1>5, <1>6, <1>7, SignInSessionStep DEF SignInInv, SignIn!TypeOK

\* Nothing happens to the attempts when a session ends.
LEMMA SignInEndingStep ==
  ASSUME SignIn!LoginAssumption, SignInInv, NEW t \in SignIn!Tokens, login_session[t].state # "none",
         NEW st \in {"expired", "deleted"}, st = "expired" => login_session[t].state = "live",
         login_session' = [login_session EXCEPT ![t].state = st],
         UNCHANGED <<login_login, login_identity, login_users, login_flow>>,
         login_cookie' \in [Processes -> SignIn!Tokens \cup {None}],
         login_leaving' \in [Processes -> SignIn!Tokens \cup {None}],
         \A b \in Processes : login_cookie'[b] \in {None, login_cookie[b]}
           /\ login_leaving'[b] \in {None, login_leaving[b]}
  PROVE  SignInInv'
<1>1. login_session' \in [SignIn!Tokens -> SignIn!Sessions]
  BY DEF SignInInv, SignIn!TypeOK, SignIn!Sessions
<1>2. \A u \in SignIn!Tokens :
         /\ login_session'[u].user = login_session[u].user
         /\ login_session'[u].state = "none" <=> login_session[u].state = "none"
         /\ login_session[u].state = "deleted" => login_session'[u].state = "deleted"
  BY DEF SignInInv, SignIn!TypeOK, SignIn!Sessions
<1>3. SignInCookiesOK'
  <2>1. \A b \in Processes : login_cookie[b] \in SignIn!Tokens \cup {None}
          /\ login_leaving[b] \in SignIn!Tokens \cup {None}
    BY DEF SignInInv, SignIn!TypeOK
  <2> QED BY <1>2, <2>1 DEF SignInInv, SignInCookiesOK
<1>4. \A k \in Requests : login_login'[k] = [login_login[k] EXCEPT !.pc = login_login'[k].pc]
  BY DEF SignInInv, SignIn!TypeOK, SignIn!Attempts
<1> QED BY <1>1, <1>2, <1>3, <1>4, SignInSessionStep DEF SignInInv, SignIn!TypeOK

\* A session that expires keeps the invariant.
LEMMA SignInExpireStep ==
  ASSUME SignIn!LoginAssumption, SignInInv, NEW t \in SignIn!Tokens, SignIn!Expire(t)
  PROVE  SignInInv'
  BY SignInEndingStep DEF SignIn!Expire, SignInInv, SignIn!TypeOK

\* A logout that reads its session keeps the invariant.
LEMMA SignInAskLogoutStep ==
  ASSUME SignIn!LoginAssumption, SignInInv, NEW b \in Processes, SignIn!AskLogout(b)
  PROVE  SignInInv'
<1>1. /\ login_leaving' = [login_leaving EXCEPT ![b] = login_cookie[b]] /\ login_cookie[b] # None
      /\ UNCHANGED <<login_login, login_identity, login_users, login_session, login_flow, login_cookie>>
  BY DEF SignIn!AskLogout, SignIn!Principal
<1>2. login_leaving' \in [Processes -> SignIn!Tokens \cup {None}] /\ SignInCookiesOK'
  BY <1>1 DEF SignInInv, SignIn!TypeOK, SignInCookiesOK
<1>3. \A k \in Requests : login_login'[k] = [login_login[k] EXCEPT !.pc = login_login'[k].pc]
  BY <1>1 DEF SignInInv, SignIn!TypeOK, SignIn!Attempts
<1> QED BY <1>1, <1>2, <1>3, SignInSessionStep DEF SignInInv, SignIn!TypeOK

\* A logout that commits keeps the invariant.
LEMMA SignInLogoutStep ==
  ASSUME SignIn!LoginAssumption, SignInInv, NEW b \in Processes, SignIn!Logout(b)
  PROVE  SignInInv'
<1>1. PICK t : t = login_leaving[b]
  OBVIOUS
<1>2. /\ t # None /\ login_session' = [login_session EXCEPT ![t].state = "deleted"]
      /\ login_cookie' = [login_cookie EXCEPT ![b] = None]
      /\ login_leaving' = [login_leaving EXCEPT ![b] = None]
      /\ UNCHANGED <<login_login, login_identity, login_users, login_flow>>
  BY <1>1 DEF SignIn!Logout
<1>3. t \in SignIn!Tokens /\ login_session[t].state # "none"
  BY <1>1, <1>2 DEF SignInInv, SignIn!TypeOK, SignInCookiesOK
<1>4. /\ login_cookie' \in [Processes -> SignIn!Tokens \cup {None}]
      /\ login_leaving' \in [Processes -> SignIn!Tokens \cup {None}]
      /\ \A c \in Processes : login_cookie'[c] \in {None, login_cookie[c]}
           /\ login_leaving'[c] \in {None, login_leaving[c]}
  BY <1>2 DEF SignInInv, SignIn!TypeOK
<1> QED BY <1>2, <1>3, <1>4, SignInEndingStep

-----------------------------------------------------------------------------
(* Sign-in: the theorems *)

\* Every step keeps the invariant.
LEMMA SignInNext ==
  ASSUME SignIn!LoginAssumption
  PROVE  SignInInv /\ [SignIn!Next]_(SignIn!vars) => SignInInv'
<1> SUFFICES ASSUME SignInInv, [SignIn!Next]_(SignIn!vars) PROVE SignInInv'
  OBVIOUS
<1>1. ASSUME NEW l \in Requests, NEW b \in Processes, SignIn!Begin(l, b) PROVE SignInInv'
  BY <1>1, SignInBeginStep
<1>2. ASSUME NEW l \in Requests, NEW s \in Subjects, SignIn!Validate(l, s) PROVE SignInInv'
  BY <1>2, SignInValidateStep
<1>3. ASSUME NEW l \in Requests,
             \/ SignIn!Claim(l) \/ SignIn!Discover(l) \/ SignIn!Fail(l) \/ SignIn!FindIdentity(l)
             \/ SignIn!InsertIdentity(l) \/ SignIn!Commit(l) \/ SignIn!Respond(l) \/ SignIn!Expire(l)
      PROVE  SignInInv'
  BY <1>3, SignInClaimStep, SignInPassSteps, SignInFindIdentityStep, SignInInsertIdentityStep,
     SignInCommitStep,
     SignInRespondStep, SignInExpireStep DEF SignIn!Tokens
<1>4. ASSUME NEW b \in Processes, SignIn!AskLogout(b) \/ SignIn!Logout(b) PROVE SignInInv'
  BY <1>4, SignInAskLogoutStep, SignInLogoutStep
<1>5. CASE UNCHANGED SignIn!vars
  BY <1>5 DEF SignIn!vars, SignInInv, SignIn!TypeOK, SignInAttemptOK, SignInCreates,
     SignInOneCreates, SignInIdentityOK, SignInCookiesOK,
     SignIn!SessionOfSubject, SignIn!Rotated
<1> QED BY <1>1, <1>2, <1>3, <1>4, <1>5 DEF SignIn!Next

\* The invariant holds in every reachable state.
THEOREM SignInInvariance ==
  ASSUME SignIn!LoginAssumption
  PROVE  SignIn!Spec => []SignInInv
<1>1. SignIn!Init => SignInInv
  BY SignInInit
<1> QED BY <1>1, SignInNext, PTL DEF SignIn!Spec

\* Attempts, users, sessions and cookies keep their types.
THEOREM SignInTyped ==
  ASSUME SignIn!LoginAssumption
  PROVE  SignIn!Spec => []SignIn!TypeOK
<1>1. SignInInv => SignIn!TypeOK
  BY DEF SignInInv
<1> QED BY <1>1, SignInInvariance, PTL

(* However first logins of one subject read, insert, commit and fail, one    *)
(* creates its user and the others leave no row behind.                      *)
THEOREM SignInNoOrphans ==
  ASSUME SignIn!LoginAssumption
  PROVE  SignIn!Spec => []SignIn!NoOrphanUser
<1>1. SignInInv => SignIn!NoOrphanUser
  <2> SUFFICES ASSUME SignInInv, NEW s \in Subjects, NEW r \in Subjects, s # r, login_identity[s] # None
               PROVE  login_identity[s] # login_identity[r]
    BY DEF SignInInv, SignIn!NoOrphanUser
  <2> QED BY DEF SignInInv, SignInIdentityOK
<1> QED BY <1>1, SignInInvariance, PTL

(* A session is of the user of the subject whose ID token it was made for,   *)
(* and the session a browser came with does not outlive its next login.      *)
THEOREM SignInSessionsRotate ==
  ASSUME SignIn!LoginAssumption
  PROVE  SignIn!Spec => [](SignIn!SessionOfSubject /\ SignIn!Rotated)
<1>1. SignInInv => SignIn!SessionOfSubject /\ SignIn!Rotated
  BY DEF SignInInv
<1> QED BY <1>1, SignInInvariance, PTL

\* A subject never changes its user: the loser of a race writes no identity.
THEOREM SignInIdentityStays ==
  ASSUME SignIn!LoginAssumption
  PROVE  SignIn!Spec => SignIn!IdentityIsFinal
<1> DEFINE Final == \A s \in Subjects : login_identity[s] # None
      => login_identity'[s] = login_identity[s]
<1>1. SignInInv /\ [SignIn!Next]_(SignIn!vars) => Final
  <2> SUFFICES ASSUME SignInInv, [SignIn!Next]_(SignIn!vars), NEW s \in Subjects,
                      login_identity[s] # None
               PROVE  login_identity'[s] = login_identity[s]
    OBVIOUS
  <2>1. ASSUME NEW l \in Requests, SignIn!Commit(l) PROVE login_identity'[s] = login_identity[s]
    <3>1. PICK a : a = login_login[l]
      OBVIOUS
    <3>2. /\ a.subject \in Subjects
          /\ \A r \in Subjects \ {a.subject} : login_identity'[r] = login_identity[r]
          /\ login_identity[a.subject] # None => login_identity' = login_identity
      BY <2>1, <3>1, SignInCommitting
    <3> QED BY <3>2
  <2>2. CASE ~\E l \in Requests : SignIn!Commit(l)
    BY <2>2 DEF SignIn!Next, SignIn!vars, SignIn!Begin, SignIn!Claim, SignIn!Discover, SignIn!Fail,
       SignIn!Validate, SignIn!FindIdentity,
       SignIn!InsertIdentity, SignIn!Respond, SignIn!Expire, SignIn!AskLogout, SignIn!Logout
  <2> QED BY <2>1, <2>2
<1>2. SignInInv /\ [SignIn!Next]_(SignIn!vars) => [Final]_login_identity
  BY <1>1
<1> QED BY <1>2, SignInInvariance, PTL DEF SignIn!Spec, SignIn!IdentityIsFinal

-----------------------------------------------------------------------------
(* The inductive invariant *)

(* What is relevant on the page of a sync that stores is kept, or still to   *)
(* be done; the message it works on after storing it is kept.                *)
MailboxRunOK(s) ==
    LET r == mail_sync[s] IN
    /\ r.todo \subseteq DOMAIN r.page
    /\ r.pc \in {"idle", "asked", "reading"} => r.todo = {}
    /\ r.pc \in {"storing", "stored", "normalizing"} =>
          \A i \in DOMAIN r.page :
              r.page[i] \in Relevant => i \in r.todo \/ mail_state[r.page[i]] # "none"
    /\ r.pc \in {"stored", "normalizing"} => r.todo # {} /\ mail_state[Mailbox!Current(s)] # "none"

\* The attempts of a message the normalizer accepts: none until the one.
MailboxCountOK(m) ==
    m \notin Malformed =>
        /\ mail_state[m] # "failed"
        /\ mail_attempts[m] = IF mail_state[m] = "needs_review" THEN 1 ELSE 0

MailboxInv ==
    /\ Mailbox!TypeOK
    /\ \A s \in Processes : MailboxRunOK(s)
    /\ \A m \in Messages : MailboxCountOK(m)
    /\ Mailbox!PassedIsKept

-----------------------------------------------------------------------------
(* Lemmas about sets and sequences *)

\* A set of naturals that is not empty has a smallest element.
LEMMA MailboxMinExists ==
  ASSUME NEW S, S \subseteq Nat, S # {}
  PROVE  Mailbox!Min(S) \in S
<1>1. PICK R : R = {ss \in Nat \X Nat : ss[1] < ss[2]}
  OBVIOUS
<1>2. IsWellFoundedOn(R, Nat)
  BY <1>1, NatLessThanWellFounded DEF OpToRel
<1>3. PICK x \in S : \A y \in S : ~ (<<y, x>> \in R)
  BY <1>2, WFMin
<1>4. ASSUME NEW y \in S PROVE x <= y
  <2>1. y \in Nat /\ x \in Nat
    OBVIOUS
  <2>2. ~(y < x)
    BY <1>1, <1>3, <2>1
  <2> QED BY <2>1, <2>2
<1> QED BY <1>4 DEF Mailbox!Min

\* A page is a part of the mailbox.
LEMMA MailboxPageIsListed ==
  ASSUME Mailbox!SyncAssumption, mail_mailbox \in Seq(Messages), NEW k \in Nat
  PROVE  Mailbox!PageAt(k) \in Seq(Messages) /\ Mailbox!NextPage(k) \in Nat
<1>1. PageSize \in Nat
  BY DEF Mailbox!SyncAssumption
<1>2. CASE k >= Len(mail_mailbox)
  BY <1>1, <1>2 DEF Mailbox!PageAt, Mailbox!NextPage
<1>3. CASE k < Len(mail_mailbox)
  <2>1. PICK e \in Nat : e <= Len(mail_mailbox) /\ e = IF k + PageSize < Len(mail_mailbox)
          THEN k + PageSize
          ELSE Len(mail_mailbox)
    BY <1>1
  <2>2. Mailbox!PageAt(k) = SubSeq(mail_mailbox, k + 1, e)
    BY <1>3, <2>1 DEF Mailbox!PageAt
  <2>3. SubSeq(mail_mailbox, k + 1, e) \in Seq(Messages)
    BY <2>1
  <2> QED BY <1>1, <2>2, <2>3 DEF Mailbox!NextPage
<1> QED BY <1>2, <1>3

\* The mailbox without one of its messages holds nothing new.
LEMMA MailboxRemoved ==
  ASSUME mail_mailbox \in Seq(Messages), NEW i \in DOMAIN mail_mailbox
  PROVE  /\ Mailbox!RemoveAt(mail_mailbox, i) \in Seq(Messages)
         /\ \A j \in DOMAIN Mailbox!RemoveAt(mail_mailbox, i) : Mailbox!RemoveAt(mail_mailbox,
              i)[j] \in Mailbox!Listed
<1>1. PICK a : a = SubSeq(mail_mailbox, 1, i - 1)
  OBVIOUS
<1>2. PICK b : b = SubSeq(mail_mailbox, i + 1, Len(mail_mailbox))
  OBVIOUS
<1>3. i \in 1..Len(mail_mailbox)
  OBVIOUS
<1>4. a \in Seq(Messages) /\ Len(a) = i - 1 /\ \A j \in 1..Len(a) : a[j] = mail_mailbox[j]
  BY <1>1, <1>3
<1>5. b \in Seq(Messages) /\ Len(b) = Len(mail_mailbox) - i
        /\ \A j \in 1..Len(b) : b[j] = mail_mailbox[i + j]
  BY <1>2, <1>3
<1>6. Mailbox!RemoveAt(mail_mailbox, i) = a \o b
  BY <1>1, <1>2 DEF Mailbox!RemoveAt
<1>7. PICK c : c = a \o b
  OBVIOUS
<1>8. /\ c \in Seq(Messages) /\ Len(c) = Len(a) + Len(b)
      /\ \A j \in 1..(Len(a) + Len(b)) : c[j] = IF j <= Len(a) THEN a[j] ELSE b[j - Len(a)]
  <2>1. a \in Seq(Messages) /\ b \in Seq(Messages)
    BY <1>4, <1>5
  <2> QED BY <1>7, <2>1, ConcatProperties
<1>9. ASSUME NEW j \in DOMAIN c
      PROVE  c[j] \in Mailbox!Listed
  <2>1. j \in 1..(Len(a) + Len(b)) /\ Len(a) \in Nat /\ Len(b) \in Nat
    BY <1>4, <1>5, <1>8
  <2>2. CASE j <= Len(a)
    <3>1. c[j] = mail_mailbox[j] /\ j \in DOMAIN mail_mailbox
      BY <1>3, <1>4, <1>5, <1>8, <2>1, <2>2
    <3> QED BY <3>1 DEF Mailbox!Listed
  <2>3. CASE j > Len(a)
    <3>1. PICK n \in 1..Len(b) : n = j - Len(a)
      BY <2>1, <2>3
    <3>2. c[j] = b[n]
      BY <1>8, <2>1, <2>3, <3>1
    <3>3. b[n] = mail_mailbox[i + n]
      BY <1>5
    <3>4. i + n \in 1..Len(mail_mailbox)
      BY <1>3, <1>5
    <3> QED BY <3>2, <3>3, <3>4 DEF Mailbox!Listed
  <2> QED BY <2>1, <2>2, <2>3
<1> QED BY <1>6, <1>7, <1>8, <1>9

-----------------------------------------------------------------------------
(* Every step keeps the invariant *)

\* The invariant holds before the first message.
LEMMA MailboxInit ==
  ASSUME Mailbox!SyncAssumption, Mailbox!Init
  PROVE  MailboxInv
<1>1. Mailbox!TypeOK
  <2>1. Mailbox!Idle \in Mailbox!Runs
    BY DEF Mailbox!Idle, Mailbox!Runs
  <2>2. Mailbox!Listed \subseteq mail_arrived /\ mail_arrived \subseteq Messages
    BY DEF Mailbox!Init, Mailbox!Listed
  <2> QED BY <2>1, <2>2 DEF Mailbox!Init, Mailbox!TypeOK, Mailbox!States, Mailbox!AttemptCap,
             Mailbox!SyncAssumption
<1>2. ASSUME NEW s \in Processes PROVE MailboxRunOK(s)
  BY DEF Mailbox!Init, MailboxRunOK, Mailbox!Idle
<1>3. (\A m \in Messages : MailboxCountOK(m)) /\ Mailbox!PassedIsKept
  BY DEF Mailbox!Init, MailboxCountOK, Mailbox!PassedIsKept
<1> QED BY <1>1, <1>2, <1>3 DEF MailboxInv

(* A step of the mailbox changes nothing the rest of the invariant is about. *)
LEMMA MailboxFrame ==
  ASSUME Mailbox!SyncAssumption, MailboxInv,
         UNCHANGED <<mail_cursor, mail_state, mail_attempts, mail_sync, mail_passed, mail_faults>>,
         mail_mailbox' \in Seq(Messages), Mailbox!Listed' \subseteq mail_arrived',
           mail_arrived' \subseteq Messages
  PROVE  MailboxInv'
<1>1. Mailbox!TypeOK'
  BY DEF MailboxInv, Mailbox!TypeOK
<1>2. ASSUME NEW s \in Processes PROVE MailboxRunOK(s)'
  BY DEF MailboxInv, MailboxRunOK, Mailbox!Current
<1>3. (\A m \in Messages : MailboxCountOK(m)') /\ Mailbox!PassedIsKept'
  BY DEF MailboxInv, MailboxCountOK, Mailbox!PassedIsKept
<1> QED BY <1>1, <1>2, <1>3 DEF MailboxInv

\* A message that arrives keeps the invariant.
LEMMA MailboxArriveStep ==
  ASSUME Mailbox!SyncAssumption, MailboxInv, NEW m \in Messages, Mailbox!Arrive(m)
  PROVE  MailboxInv'
<1>1. mail_mailbox \in Seq(Messages) /\ mail_mailbox' = <<m>> \o mail_mailbox
  BY DEF Mailbox!Arrive, MailboxInv, Mailbox!TypeOK
<1>2. mail_mailbox' \in Seq(Messages)
  BY <1>1
<1>3. Mailbox!Listed \subseteq mail_arrived /\ mail_arrived' = mail_arrived \cup {m}
        /\ mail_arrived' \subseteq Messages
  BY DEF Mailbox!Arrive, MailboxInv, Mailbox!TypeOK
<1>4. ASSUME NEW i \in DOMAIN mail_mailbox' PROVE mail_mailbox'[i] \in Mailbox!Listed \cup {m}
  <2>1. CASE i = 1
    BY <1>1, <2>1
  <2>2. CASE i # 1
    <3>1. i - 1 \in DOMAIN mail_mailbox /\ mail_mailbox'[i] = mail_mailbox[i - 1]
      BY <1>1, <1>2, <2>2
    <3> QED BY <3>1 DEF Mailbox!Listed
  <2> QED BY <2>1, <2>2
<1>5. Mailbox!Listed' \subseteq mail_arrived'
  BY <1>3, <1>4 DEF Mailbox!Listed
<1> QED BY <1>2, <1>3, <1>5, MailboxFrame DEF Mailbox!Arrive

\* A message that is deleted keeps the invariant.
LEMMA MailboxDeleteStep ==
  ASSUME Mailbox!SyncAssumption, MailboxInv, NEW m \in Messages, Mailbox!Delete(m)
  PROVE  MailboxInv'
<1>1. PICK i \in DOMAIN mail_mailbox : mail_mailbox' = Mailbox!RemoveAt(mail_mailbox, i)
  BY DEF Mailbox!Delete
<1>2. mail_mailbox' \in Seq(Messages)
        /\ \A j \in DOMAIN mail_mailbox' : mail_mailbox'[j] \in Mailbox!Listed
  BY <1>1, MailboxRemoved DEF MailboxInv, Mailbox!TypeOK
<1>3. mail_arrived' = mail_arrived /\ Mailbox!Listed' \subseteq mail_arrived'
        /\ mail_arrived' \subseteq Messages
  BY <1>2 DEF Mailbox!Delete, MailboxInv, Mailbox!TypeOK, Mailbox!Listed
<1> QED BY <1>2, <1>3, MailboxFrame DEF Mailbox!Delete

(* A step of the sync s: its run becomes r, and no message that was kept is  *)
(* dropped.                                                                  *)
LEMMA MailboxSyncStep ==
  ASSUME Mailbox!SyncAssumption, MailboxInv, NEW s \in Processes, NEW r \in Mailbox!Runs,
         mail_sync' = [mail_sync EXCEPT ![s] = r],
         mail_state' \in [Messages -> Mailbox!States],
         \A m \in Messages : mail_state[m] # "none" => mail_state'[m] # "none",
         UNCHANGED Mailbox!mail, mail_cursor' \in Nat, mail_passed' \subseteq Messages,
         mail_attempts' \in [Messages -> 0..Mailbox!AttemptCap], mail_faults' \in 0..MaxFaults,
         MailboxRunOK(s)', \A m \in Messages : MailboxCountOK(m)', Mailbox!PassedIsKept'
  PROVE  MailboxInv'
<1>1. Mailbox!TypeOK'
  BY DEF MailboxInv, Mailbox!TypeOK, Mailbox!mail, Mailbox!Listed
<1>2. ASSUME NEW u \in Processes, u # s PROVE MailboxRunOK(u)'
  <2>1. PICK x : x = mail_sync[u]
    OBVIOUS
  <2>2. x \in Mailbox!Runs /\ mail_sync'[u] = x /\ MailboxRunOK(u)
    BY <1>2, <2>1 DEF MailboxInv, Mailbox!TypeOK
  <2>3. x.todo \subseteq DOMAIN x.page /\ x.todo \subseteq Nat
        /\ \A i \in DOMAIN x.page : x.page[i] \in Messages
    BY <2>1, <2>2 DEF MailboxRunOK, Mailbox!Runs
  <2>4. x.todo # {} => x.page[Mailbox!Min(x.todo)] \in Messages
    BY <2>3, MailboxMinExists
  <2> QED BY <2>1, <2>2, <2>3, <2>4 DEF MailboxRunOK, Mailbox!Current
<1> QED BY <1>1, <1>2 DEF MailboxInv

\* A sync that starts keeps the invariant.
LEMMA MailboxStartStep ==
  ASSUME Mailbox!SyncAssumption, MailboxInv, NEW s \in Processes, Mailbox!Start(s)
  PROVE  MailboxInv'
<1>1. PICK r : r = [Mailbox!Idle EXCEPT !.pc = "asked", !.cursor = mail_cursor]
  OBVIOUS
<1>2. r \in Mailbox!Runs /\ r.pc = "asked" /\ r.todo = {} /\ r.page = <<>>
  <2>1. mail_cursor \in Nat
    BY DEF MailboxInv, Mailbox!TypeOK
  <2>2. Mailbox!Idle \in Mailbox!Runs /\ Mailbox!Idle.todo = {} /\ Mailbox!Idle.page = <<>>
    BY DEF Mailbox!Idle, Mailbox!Runs
  <2> QED BY <1>1, <2>1, <2>2 DEF Mailbox!Runs
<1>3. mail_sync' = [mail_sync EXCEPT ![s] = r] /\ mail_sync'[s] = r
  BY <1>1 DEF Mailbox!Start, MailboxInv, Mailbox!TypeOK
<1>4. MailboxRunOK(s)'
  BY <1>2, <1>3 DEF MailboxRunOK
<1>5. (\A m \in Messages : MailboxCountOK(m)') /\ Mailbox!PassedIsKept'
  BY DEF Mailbox!Start, MailboxInv, MailboxCountOK, Mailbox!PassedIsKept
<1> QED BY <1>2, <1>3, <1>4, <1>5, MailboxSyncStep DEF Mailbox!Start, MailboxInv, Mailbox!TypeOK

(* The run ends where it stands, or asks for a page: no message is touched.  *)
LEMMA MailboxEndStep ==
  ASSUME Mailbox!SyncAssumption, MailboxInv, NEW s \in Processes,
         mail_sync' = [mail_sync EXCEPT ![s] = Mailbox!Idle],
         UNCHANGED <<Mailbox!mail, mail_state, mail_attempts>>, mail_cursor' \in Nat,
           mail_faults' \in 0..MaxFaults,
         mail_passed' \subseteq Messages, Mailbox!PassedIsKept'
  PROVE  MailboxInv'
<1>1. Mailbox!Idle \in Mailbox!Runs
  BY DEF Mailbox!Idle, Mailbox!Runs
<1>2. mail_sync'[s] = Mailbox!Idle
  BY DEF MailboxInv, Mailbox!TypeOK
<1>3. MailboxRunOK(s)'
  BY <1>2 DEF MailboxRunOK, Mailbox!Idle
<1>4. \A m \in Messages : MailboxCountOK(m)'
  BY DEF MailboxInv, MailboxCountOK
<1> QED BY <1>1, <1>3, <1>4, MailboxSyncStep DEF MailboxInv, Mailbox!TypeOK

\* A page that is listed keeps the invariant.
LEMMA MailboxListStep ==
  ASSUME Mailbox!SyncAssumption, MailboxInv, NEW s \in Processes, Mailbox!List(s)
  PROVE  MailboxInv'
<1>1. PICK x : x = mail_sync[s]
  OBVIOUS
<1>2. x \in Mailbox!Runs /\ x.pc = "asked" /\ MailboxRunOK(s) /\ x.cursor \in Nat
  BY <1>1 DEF Mailbox!List, MailboxInv, Mailbox!TypeOK, Mailbox!Runs
<1>3. PICK page : page = Mailbox!PageAt(x.cursor)
  OBVIOUS
<1>4. PICK r : r = [x EXCEPT !.pc = "reading", !.page = page, !.next = Mailbox!NextPage(x.cursor)]
  OBVIOUS
<1>5. page \in Seq(Messages) /\ Mailbox!NextPage(x.cursor) \in Nat
  BY <1>2, <1>3, MailboxPageIsListed DEF MailboxInv, Mailbox!TypeOK
<1>6. r \in Mailbox!Runs /\ r.pc = "reading" /\ r.todo = {} /\ r.page = page
  BY <1>1, <1>2, <1>4, <1>5 DEF Mailbox!Runs, MailboxRunOK
<1>7. mail_sync' = [mail_sync EXCEPT ![s] = r]
  BY <1>1, <1>2, <1>3, <1>4 DEF Mailbox!List, MailboxInv, Mailbox!TypeOK
<1>8. MailboxRunOK(s)'
  <2>1. mail_sync'[s] = r
    BY <1>7 DEF MailboxInv, Mailbox!TypeOK
  <2> QED BY <1>6, <2>1 DEF MailboxRunOK
<1>9. (\A m \in Messages : MailboxCountOK(m)') /\ Mailbox!PassedIsKept'
  BY DEF Mailbox!List, MailboxInv, MailboxCountOK, Mailbox!PassedIsKept
<1> QED BY <1>6, <1>7, <1>8, <1>9, MailboxSyncStep DEF Mailbox!List, MailboxInv, Mailbox!TypeOK

\* A page that is read keeps the invariant.
LEMMA MailboxReadStep ==
  ASSUME Mailbox!SyncAssumption, MailboxInv, NEW s \in Processes, Mailbox!Read(s)
  PROVE  MailboxInv'
<1>1. PICK x : x = mail_sync[s]
  OBVIOUS
<1>2. x \in Mailbox!Runs /\ x.pc = "reading" /\ MailboxRunOK(s) /\ x.page \in Seq(Messages)
  BY <1>1 DEF Mailbox!Read, MailboxInv, Mailbox!TypeOK, Mailbox!Runs
<1>3. PICK todo \in SUBSET DOMAIN x.page : todo = Mailbox!Kept(x.page)
  BY DEF Mailbox!Kept
<1>4. PICK r : r = [x EXCEPT !.pc = "storing", !.todo = todo]
  OBVIOUS
<1>5. todo \subseteq Nat /\ \A i \in DOMAIN x.page : x.page[i] \in Relevant => i \in todo
  BY <1>2, <1>3 DEF Mailbox!Kept
<1>6. r \in Mailbox!Runs /\ r.pc = "storing" /\ r.todo = todo /\ r.page = x.page
  BY <1>2, <1>4, <1>5 DEF Mailbox!Runs
<1>7. mail_sync' = [mail_sync EXCEPT ![s] = r]
  BY <1>1, <1>2, <1>3, <1>4 DEF Mailbox!Read, MailboxInv, Mailbox!TypeOK
<1>8. MailboxRunOK(s)'
  <2>1. mail_sync'[s] = r
    BY <1>7 DEF MailboxInv, Mailbox!TypeOK
  <2> QED BY <1>5, <1>6, <2>1 DEF MailboxRunOK
<1>9. (\A m \in Messages : MailboxCountOK(m)') /\ Mailbox!PassedIsKept'
  BY DEF Mailbox!Read, MailboxInv, MailboxCountOK, Mailbox!PassedIsKept
<1> QED BY <1>6, <1>7, <1>8, <1>9, MailboxSyncStep DEF Mailbox!Read, MailboxInv, Mailbox!TypeOK

(* The message a sync works on is one of its page.                           *)
LEMMA MailboxCurrentIsListed ==
  ASSUME MailboxInv, NEW s \in Processes, mail_sync[s].todo # {}
  PROVE  /\ mail_sync[s] \in Mailbox!Runs /\ MailboxRunOK(s) /\ Mailbox!Current(s) \in Messages
         /\ Mailbox!Min(mail_sync[s].todo) \in DOMAIN mail_sync[s].page
         /\ Mailbox!Current(s) = mail_sync[s].page[Mailbox!Min(mail_sync[s].todo)]
<1>1. PICK x : x = mail_sync[s]
  OBVIOUS
<1>2. x \in Mailbox!Runs /\ MailboxRunOK(s)
  BY <1>1 DEF MailboxInv, Mailbox!TypeOK
<1>3. x.todo \subseteq DOMAIN x.page /\ x.todo \subseteq Nat /\ x.page \in Seq(Messages)
  BY <1>1, <1>2 DEF MailboxRunOK, Mailbox!Runs
<1>4. Mailbox!Min(x.todo) \in x.todo
  BY <1>1, <1>3, MailboxMinExists
<1>5. x.page[Mailbox!Min(x.todo)] \in Messages
  BY <1>3, <1>4
<1> QED BY <1>1, <1>2, <1>3, <1>4, <1>5 DEF Mailbox!Current

\* A message that is stored keeps the invariant.
LEMMA MailboxStoreRawStep ==
  ASSUME Mailbox!SyncAssumption, MailboxInv, NEW s \in Processes, Mailbox!StoreRaw(s)
  PROVE  MailboxInv'
<1>1. PICK x : x = mail_sync[s]
  OBVIOUS
<1>2. PICK m : m = Mailbox!Current(s)
  OBVIOUS
<1>3. x.pc = "storing" /\ x.todo # {}
  BY <1>1 DEF Mailbox!StoreRaw
<1>4. x \in Mailbox!Runs /\ MailboxRunOK(s) /\ m \in Messages /\ m = x.page[Mailbox!Min(x.todo)]
  BY <1>1, <1>2, <1>3, MailboxCurrentIsListed
<1>5. PICK v : v = IF mail_state[m] = "none" THEN "received" ELSE mail_state[m]
  OBVIOUS
<1>6. v \in Mailbox!States /\ v # "none" /\ mail_state' = [mail_state EXCEPT ![m] = v]
  BY <1>2, <1>4, <1>5 DEF Mailbox!StoreRaw, Mailbox!States, MailboxInv, Mailbox!TypeOK
<1>7. PICK r : r = [x EXCEPT !.pc = "stored"]
  OBVIOUS
<1>8. r \in Mailbox!Runs /\ r.pc = "stored" /\ r.todo = x.todo /\ r.page = x.page
  BY <1>4, <1>7 DEF Mailbox!Runs
<1>9. mail_sync' = [mail_sync EXCEPT ![s] = r] /\ mail_sync'[s] = r
  BY <1>1, <1>4, <1>7 DEF Mailbox!StoreRaw, MailboxInv, Mailbox!TypeOK
<1>10. /\ mail_state' \in [Messages -> Mailbox!States] /\ mail_state'[m] # "none"
       /\ \A n \in Messages : mail_state[n] # "none" => mail_state'[n] # "none"
  BY <1>4, <1>6 DEF MailboxInv, Mailbox!TypeOK
<1>11. MailboxRunOK(s)'
  <2>1. Mailbox!Current(s)' = m
    BY <1>4, <1>8, <1>9 DEF Mailbox!Current
  <2>2. \A i \in DOMAIN x.page : x.page[i] \in Messages
    BY <1>4 DEF Mailbox!Runs
  <2> QED BY <1>1, <1>3, <1>4, <1>8, <1>9, <1>10, <2>1, <2>2 DEF MailboxRunOK
<1>12. ASSUME NEW n \in Messages PROVE MailboxCountOK(n)'
  <2>1. mail_state'[n] = IF n = m THEN v ELSE mail_state[n]
    BY <1>4, <1>6 DEF MailboxInv, Mailbox!TypeOK
  <2> QED BY <1>5, <2>1 DEF Mailbox!StoreRaw, MailboxInv, MailboxCountOK
<1>13. Mailbox!PassedIsKept'
  BY <1>10 DEF Mailbox!StoreRaw, MailboxInv, Mailbox!TypeOK, Mailbox!PassedIsKept
<1> QED BY <1>8, <1>9, <1>10, <1>11, <1>12, <1>13, MailboxSyncStep
           DEF Mailbox!StoreRaw, MailboxInv, Mailbox!TypeOK

(* The run turns to the next message; the one it worked on is kept.          *)
LEMMA MailboxNextMessageStep ==
  ASSUME Mailbox!SyncAssumption, MailboxInv, NEW s \in Processes,
         mail_sync[s].pc \in {"stored", "normalizing"}, mail_sync' = Mailbox!NextMessage(s),
         mail_state' \in [Messages -> Mailbox!States],
         \A m \in Messages : mail_state[m] # "none" => mail_state'[m] # "none",
         mail_attempts' \in [Messages -> 0..Mailbox!AttemptCap], \A m \in Messages : MailboxCountOK(m)',
         UNCHANGED <<Mailbox!mail, mail_cursor, mail_passed, mail_faults>>
  PROVE  MailboxInv'
<1>1. PICK x : x = mail_sync[s]
  OBVIOUS
<1>2. x \in Mailbox!Runs /\ MailboxRunOK(s) /\ x.pc \in {"stored", "normalizing"}
  BY <1>1 DEF MailboxInv, Mailbox!TypeOK
<1>3. x.todo # {} /\ mail_state[Mailbox!Current(s)] # "none" /\ x.todo \subseteq DOMAIN x.page
  BY <1>1, <1>2 DEF MailboxRunOK
<1>4. Mailbox!Current(s) = x.page[Mailbox!Min(x.todo)]
  BY <1>1 DEF Mailbox!Current
<1>5. PICK todo : todo = x.todo \ {Mailbox!Min(x.todo)}
  OBVIOUS
<1>6. PICK r : r = [x EXCEPT !.pc = "storing", !.todo = todo]
  OBVIOUS
<1>7. r \in Mailbox!Runs /\ r.pc = "storing" /\ r.todo = todo /\ r.page = x.page
  BY <1>2, <1>5, <1>6 DEF Mailbox!Runs
<1>8. mail_sync' = [mail_sync EXCEPT ![s] = r]
  BY <1>1, <1>5, <1>6 DEF Mailbox!NextMessage, Mailbox!Others, MailboxInv, Mailbox!TypeOK
<1>9. MailboxRunOK(s)'
  <2>1. mail_sync'[s] = r
    BY <1>8 DEF MailboxInv, Mailbox!TypeOK
  <2>2. ASSUME NEW i \in DOMAIN x.page, x.page[i] \in Relevant
        PROVE  i \in todo \/ mail_state'[x.page[i]] # "none"
    <3>1. x.page[i] \in Messages
      BY <1>2 DEF Mailbox!Runs
    <3>2. i \in x.todo \/ mail_state[x.page[i]] # "none"
      BY <1>1, <1>2, <2>2 DEF MailboxRunOK
    <3>3. CASE i = Mailbox!Min(x.todo)
      BY <1>3, <1>4, <3>1, <3>3
    <3>4. CASE i # Mailbox!Min(x.todo)
      BY <1>5, <3>1, <3>2, <3>4
    <3> QED BY <3>3, <3>4
  <2> QED BY <1>3, <1>5, <1>7, <2>1, <2>2 DEF MailboxRunOK
<1>10. Mailbox!PassedIsKept'
  BY DEF MailboxInv, Mailbox!TypeOK, Mailbox!PassedIsKept
<1> QED BY <1>7, <1>8, <1>9, <1>10, MailboxSyncStep DEF MailboxInv, Mailbox!TypeOK

\* A message that has ended before keeps the invariant.
LEMMA MailboxTerminalResultStep ==
  ASSUME Mailbox!SyncAssumption, MailboxInv, NEW s \in Processes, Mailbox!TerminalResult(s)
  PROVE  MailboxInv'
<1>1. UNCHANGED <<Mailbox!mail, mail_cursor, mail_state, mail_attempts, mail_passed, mail_faults>>
  BY DEF Mailbox!TerminalResult
<1>2. (\A m \in Messages : MailboxCountOK(m)') /\ Mailbox!PassedIsKept'
  BY <1>1 DEF MailboxInv, MailboxCountOK, Mailbox!PassedIsKept
<1>3. CASE mail_sync' = Mailbox!NextMessage(s)
  BY <1>1, <1>2, <1>3, MailboxNextMessageStep DEF Mailbox!TerminalResult, MailboxInv, Mailbox!TypeOK
<1>4. CASE mail_sync' = [mail_sync EXCEPT ![s].pc = "normalizing"]
  <2>1. PICK x : x = mail_sync[s]
    OBVIOUS
  <2>2. x \in Mailbox!Runs /\ MailboxRunOK(s) /\ x.pc = "stored"
    BY <2>1 DEF Mailbox!TerminalResult, MailboxInv, Mailbox!TypeOK
  <2>3. PICK r : r = [x EXCEPT !.pc = "normalizing"]
    OBVIOUS
  <2>4. r \in Mailbox!Runs /\ r.pc = "normalizing" /\ r.todo = x.todo /\ r.page = x.page
    BY <2>2, <2>3 DEF Mailbox!Runs
  <2>5. mail_sync' = [mail_sync EXCEPT ![s] = r] /\ mail_sync'[s] = r
    BY <1>4, <2>1, <2>3 DEF MailboxInv, Mailbox!TypeOK
  <2>6. MailboxRunOK(s)'
    BY <1>1, <2>1, <2>2, <2>4, <2>5 DEF MailboxRunOK, Mailbox!Current
  <2> QED BY <1>1, <1>2, <2>4, <2>5, <2>6, MailboxSyncStep DEF MailboxInv, Mailbox!TypeOK
<1> QED BY <1>3, <1>4 DEF Mailbox!TerminalResult

\* A message that is processed keeps the invariant.
LEMMA MailboxProcessStep ==
  ASSUME Mailbox!SyncAssumption, MailboxInv, NEW s \in Processes, Mailbox!Process(s)
  PROVE  MailboxInv'
<1>1. PICK m : m = Mailbox!Current(s)
  OBVIOUS
<1>2. mail_sync[s].pc = "normalizing" /\ mail_sync' = Mailbox!NextMessage(s)
      /\ UNCHANGED <<Mailbox!mail, mail_cursor, mail_passed, mail_faults>>
  BY DEF Mailbox!Process
<1>3. m \in Messages
  BY <1>1, <1>2, MailboxCurrentIsListed DEF MailboxInv, MailboxRunOK
<1>4. CASE UNCHANGED <<mail_state, mail_attempts>>
  <2>1. \A n \in Messages : MailboxCountOK(n)'
    BY <1>4 DEF MailboxInv, MailboxCountOK
  <2> QED BY <1>2, <1>4, <2>1, MailboxNextMessageStep DEF MailboxInv, Mailbox!TypeOK
<1>5. CASE ~UNCHANGED <<mail_state, mail_attempts>>
  <2>1. PICK v : v = IF m \in Malformed THEN "failed" ELSE "needs_review"
    OBVIOUS
  <2>2. PICK c : c = IF mail_attempts[m] < Mailbox!AttemptCap THEN mail_attempts[m] + 1
                                                              ELSE mail_attempts[m]
    OBVIOUS
  <2>3. /\ mail_state' = [mail_state EXCEPT ![m] = v]
        /\ mail_attempts' = [mail_attempts EXCEPT ![m] = c]
        /\ mail_state[m] # "needs_review"
    BY <1>1, <1>3, <1>5, <2>1, <2>2
       DEF Mailbox!Process, Mailbox!Counted, Mailbox!Settled, Mailbox!Terminal, MailboxInv,
           Mailbox!TypeOK
  <2>4. mail_attempts[m] \in 0..2 /\ c \in 0..2
    BY <1>3, <2>2 DEF Mailbox!AttemptCap, MailboxInv, Mailbox!TypeOK
  <2>5. v \in Mailbox!States /\ v # "none"
    BY <2>1 DEF Mailbox!States
  <2>6. mail_state' \in [Messages -> Mailbox!States]
          /\ mail_attempts' \in [Messages -> 0..Mailbox!AttemptCap]
    BY <2>3, <2>4, <2>5 DEF Mailbox!AttemptCap, MailboxInv, Mailbox!TypeOK
  <2>7. \A n \in Messages : mail_state[n] # "none" => mail_state'[n] # "none"
    BY <2>3, <2>5 DEF MailboxInv, Mailbox!TypeOK
  <2>8. ASSUME NEW n \in Messages PROVE MailboxCountOK(n)'
    <3>1. MailboxCountOK(n)
      BY DEF MailboxInv
    <3>2. CASE n = m
      <4>1. mail_state'[n] = v /\ mail_attempts'[n] = c
        BY <1>3, <2>3, <3>2 DEF MailboxInv, Mailbox!TypeOK
      <4>2. n \notin Malformed => mail_attempts[n] = 0
        BY <2>3, <3>1, <3>2 DEF MailboxCountOK
      <4> QED BY <2>1, <2>2, <3>2, <4>1, <4>2 DEF MailboxCountOK, Mailbox!AttemptCap
    <3>3. CASE n # m
      <4>1. mail_state'[n] = mail_state[n] /\ mail_attempts'[n] = mail_attempts[n]
        BY <2>3, <3>3 DEF MailboxInv, Mailbox!TypeOK
      <4> QED BY <3>1, <4>1 DEF MailboxCountOK
    <3> QED BY <3>2, <3>3
  <2> QED BY <1>2, <2>6, <2>7, <2>8, MailboxNextMessageStep
<1> QED BY <1>4, <1>5

\* A cursor that advances keeps the invariant.
LEMMA MailboxAdvanceStep ==
  ASSUME Mailbox!SyncAssumption, MailboxInv, NEW s \in Processes, Mailbox!Advance(s)
  PROVE  MailboxInv'
<1>1. PICK x : x = mail_sync[s]
  OBVIOUS
<1>2. x \in Mailbox!Runs /\ MailboxRunOK(s) /\ x.pc = "storing" /\ x.todo = {}
  BY <1>1 DEF Mailbox!Advance, MailboxInv, Mailbox!TypeOK
<1>3. x.next \in Nat /\ \A i \in DOMAIN x.page : x.page[i] \in Messages
  BY <1>2 DEF Mailbox!Runs
<1>4. PICK pages : pages = {x.page[i] : i \in DOMAIN x.page}
  OBVIOUS
<1>5. pages \subseteq Messages /\ \A m \in pages \cap Relevant : mail_state[m] # "none"
  BY <1>1, <1>2, <1>3, <1>4 DEF MailboxRunOK
<1>6. mail_cursor' = x.next /\ mail_passed' = mail_passed \cup pages
  BY <1>1, <1>4 DEF Mailbox!Advance, Mailbox!CursorAfter
<1>7. mail_sync' = [mail_sync EXCEPT ![s] = Mailbox!Idle] /\ UNCHANGED <<Mailbox!mail, mail_state,
        mail_attempts, mail_faults>>
  BY DEF Mailbox!Advance
<1>8. mail_passed' \subseteq Messages /\ Mailbox!PassedIsKept' /\ mail_cursor' \in Nat
        /\ mail_faults' \in 0..MaxFaults
  BY <1>3, <1>5, <1>6, <1>7 DEF MailboxInv, Mailbox!TypeOK, Mailbox!PassedIsKept
<1> QED BY <1>7, <1>8, MailboxEndStep

\* Every step keeps the invariant.
LEMMA MailboxNext == Mailbox!SyncAssumption /\ MailboxInv /\ [Mailbox!Next]_(Mailbox!vars)
  => MailboxInv'
<1> SUFFICES ASSUME Mailbox!SyncAssumption, MailboxInv, [Mailbox!Next]_(Mailbox!vars)
             PROVE  MailboxInv'
  OBVIOUS
<1>1. ASSUME NEW m \in Messages, Mailbox!Arrive(m) \/ Mailbox!Delete(m) PROVE MailboxInv'
  BY <1>1, MailboxArriveStep, MailboxDeleteStep
<1>2. ASSUME NEW s \in Processes, Mailbox!Step(s) PROVE MailboxInv'
  <2>1. CASE Mailbox!ReadFails(s) \/ Mailbox!StoreRefused(s)
    <3>1. mail_sync' = [mail_sync EXCEPT ![s] = Mailbox!Idle]
          /\ UNCHANGED <<Mailbox!mail, mail_cursor, mail_state, mail_attempts, mail_passed,
               mail_faults>>
      BY <2>1 DEF Mailbox!ReadFails, Mailbox!StoreRefused, Mailbox!OnRefusal
    <3>2. Mailbox!PassedIsKept' /\ mail_cursor' \in Nat /\ mail_faults' \in 0..MaxFaults
            /\ mail_passed' \subseteq Messages
      BY <3>1 DEF MailboxInv, Mailbox!TypeOK, Mailbox!PassedIsKept
    <3> QED BY <3>1, <3>2, MailboxEndStep
  <2> QED BY <1>2, <2>1, MailboxListStep, MailboxReadStep, MailboxStoreRawStep,
             MailboxTerminalResultStep, MailboxProcessStep,
             MailboxAdvanceStep DEF Mailbox!Step
<1>3. ASSUME NEW s \in Processes, Mailbox!Fault(s) PROVE MailboxInv'
  <2>1. mail_sync' = [mail_sync EXCEPT ![s] = Mailbox!Idle] /\ mail_faults' \in 0..MaxFaults
        /\ UNCHANGED <<Mailbox!mail, mail_cursor, mail_state, mail_attempts, mail_passed>>
    BY <1>3 DEF Mailbox!Fault, MailboxInv, Mailbox!TypeOK, Mailbox!SyncAssumption
  <2>2. Mailbox!PassedIsKept' /\ mail_cursor' \in Nat /\ mail_passed' \subseteq Messages
    BY <2>1 DEF MailboxInv, Mailbox!TypeOK, Mailbox!PassedIsKept
  <2> QED BY <2>1, <2>2, MailboxEndStep
<1>4. CASE UNCHANGED Mailbox!vars
  <2>1. UNCHANGED <<mail_cursor, mail_state, mail_attempts, mail_sync, mail_passed, mail_faults,
          mail_mailbox, mail_arrived>>
    BY <1>4 DEF Mailbox!vars
  <2>2. mail_mailbox' \in Seq(Messages) /\ Mailbox!Listed' \subseteq mail_arrived'
          /\ mail_arrived' \subseteq Messages
    BY <2>1 DEF MailboxInv, Mailbox!TypeOK, Mailbox!Listed
  <2> QED BY <2>1, <2>2, MailboxFrame
<1> QED BY <1>1, <1>2, <1>3, <1>4, MailboxStartStep DEF Mailbox!Next

-----------------------------------------------------------------------------
(* The mailbox: the theorems *)

\* The invariant holds in every reachable state.
THEOREM MailboxInvariance ==
  ASSUME Mailbox!SyncAssumption
  PROVE  Mailbox!Spec => []MailboxInv
<1>1. Mailbox!Init => MailboxInv
  BY MailboxInit
<1>2. MailboxInv /\ [Mailbox!Next]_(Mailbox!vars) => MailboxInv'
  BY MailboxNext
<1> QED BY <1>1, <1>2, PTL DEF Mailbox!Spec

\* The mailbox, the cursor, the rows of the messages and the runs keep their types.
THEOREM MailboxTyped ==
  ASSUME Mailbox!SyncAssumption
  PROVE  Mailbox!Spec => []Mailbox!TypeOK
<1>1. MailboxInv => Mailbox!TypeOK
  BY DEF MailboxInv
<1> QED BY <1>1, MailboxInvariance, PTL

(* sync_connector moves the cursor past no relevant message it has not kept, *)
(* however syncs overlap, fail, or find the mailbox changed under them.      *)
THEOREM MailboxNoneSkipped ==
  ASSUME Mailbox!SyncAssumption
  PROVE  Mailbox!Spec => []Mailbox!PassedIsKept
<1>1. MailboxInv => Mailbox!PassedIsKept
  BY DEF MailboxInv
<1> QED BY <1>1, MailboxInvariance, PTL

(* The state read under the row lock lets one sync accept a message that     *)
(* several of them deliver at a time.                                        *)
THEOREM MailboxOnce ==
  ASSUME Mailbox!SyncAssumption
  PROVE  Mailbox!Spec => []Mailbox!AcceptedOnce
<1>1. MailboxInv => Mailbox!AcceptedOnce
  BY DEF MailboxInv, MailboxCountOK, Mailbox!AcceptedOnce
<1> QED BY <1>1, MailboxInvariance, PTL

-----------------------------------------------------------------------------
(* Questions to the agent *)

\* The operators of the instance are those of the theorems about finite sets.
LEMMA SameCardinality ==
  /\ \A S : Asking!Cardinality(S) = Cardinality(S)
  /\ \A S : Asking!IsFiniteSet(S) <=> IsFiniteSet(S)
BY DEF Asking!Cardinality, Cardinality, Asking!IsFiniteSet, IsFiniteSet

Asks ==
    [pc : {"new", "done"} \cup Asking!Running, question : Questions \cup {None}, tool : Asking!Tools,
     facts : 0..2, late : 0..2, outcome : Asking!Outcomes]

\* Neither denied nor about a period that is not served.
Allowed(q) == q \in Questions /\ ~q.blocked /\ ~q.period

(* A request r whose session is valid or not ("live"). What has been read    *)
(* is less than the tool asks for until the answer is there, and only an     *)
(* allowed question gets as far as a tool. A read that ends after the        *)
(* session is followed by an authorization, which fails.                     *)
GoodAsk(r, live) ==
    /\ r.pc = "done" <=> r.outcome # "none"
    /\ r.pc \in Asking!Running => r.question \in Questions
    /\ r.pc \in {"new", "routing", "choosing"} => r.facts = 0 /\ r.late = 0
    /\ r.pc = "choosing" => Allowed(r.question)
    /\ r.pc \in {"authorizing", "reading"} => Allowed(r.question) /\ r.facts < Asking!Reads[r.tool]
    /\ r.outcome = "answered" => Allowed(r.question) /\ r.facts = Asking!Reads[r.tool]
    /\ r.outcome \notin {"none", "answered"} => r.facts = 0
    /\ r.late # 0 => r.late = 1 /\ ~live /\ r.pc \in {"authorizing", "done"}

AskingInv ==
    /\ ask_session \in [Requests -> BOOLEAN]
    /\ ask_ask \in [Requests -> Asks]
    /\ \A a \in Requests : GoodAsk(ask_ask[a], ask_session[a])
    /\ Asking!SlotsSuffice

-----------------------------------------------------------------------------
(* Lemmas *)

\* One or two reads for every tool, none for a question without one.
LEMMA ReadsTyped ==
  \A t \in Asking!Tools : Asking!Reads[t] \in 0..2 /\ (t # "unsupported" => Asking!Reads[t] > 0)
BY DEF Asking!Reads, Asking!Tools

\* The invariant holds before the first question.
LEMMA AskingInit ==
  ASSUME Asking!AgentAssumption, Asking!Init
  PROVE  AskingInv
<1>1. Asking!New \in Asks /\ GoodAsk(Asking!New, TRUE)
  <2>1. "unsupported" \in Asking!Tools
    BY DEF Asking!Tools, Asking!Reads
  <2>2. Asking!New \in Asks
    BY <2>1 DEF Asking!New, Asks, Asking!Outcomes
  <2>3. GoodAsk(Asking!New, TRUE)
    BY DEF Asking!New, GoodAsk, Asking!Running
  <2> QED BY <2>2, <2>3
<1>2. Asking!SlotsSuffice
  <2>1. {a \in Requests : ask_ask[a].pc \in Asking!Running} = {}
    BY DEF Asking!Init, Asking!New, Asking!Running
  <2>2. MaxConcurrent \in Nat
    BY DEF Asking!AgentAssumption
  <2> QED BY <2>1, <2>2, FS_EmptySet, SameCardinality DEF Asking!SlotsSuffice
<1> QED BY <1>1, <1>2 DEF Asking!Init, AskingInv

(* A step of one request that becomes r. It may take a slot only when one is *)
(* free: nothing is awaited between Semaphore.locked() and the acquisition.  *)
LEMMA AskerStep ==
  ASSUME Asking!AgentAssumption, AskingInv, NEW a \in Requests, NEW r \in Asks, UNCHANGED ask_session,
         ask_ask' = [ask_ask EXCEPT ![a] = r], GoodAsk(r, ask_session[a]),
         r.pc \in Asking!Running => ask_ask[a].pc \in Asking!Running \/ ~Asking!Full
  PROVE  AskingInv'
<1>1. ask_ask' \in [Requests -> Asks] /\ \A b \in Requests : GoodAsk(ask_ask'[b], ask_session[b])
  BY DEF AskingInv
<1>2. Asking!SlotsSuffice'
  <2> DEFINE Now  == {b \in Requests : ask_ask[b].pc \in Asking!Running}
             Then == {b \in Requests : ask_ask'[b].pc \in Asking!Running}
  <2>1. IsFiniteSet(Now) /\ Cardinality(Now) \in Nat /\ Cardinality(Now) <= MaxConcurrent
    BY FS_Subset, FS_CardinalityType, SameCardinality
       DEF Asking!AgentAssumption, AskingInv, Asking!SlotsSuffice
  <2>2. Then \subseteq Now \cup {a}
    BY DEF AskingInv
  <2>3. CASE a \in Now \/ r.pc \notin Asking!Running
    <3>1. Then \subseteq Now
      BY <2>2, <2>3 DEF AskingInv
    <3>2. Cardinality(Then) \in Nat /\ Cardinality(Then) <= Cardinality(Now)
      BY <2>1, <3>1, FS_Subset, FS_CardinalityType
    <3> QED BY <2>1, <3>2, SameCardinality DEF Asking!SlotsSuffice, Asking!AgentAssumption
  <2>4. CASE a \notin Now /\ r.pc \in Asking!Running
    <3>1. Cardinality(Now) < MaxConcurrent
      BY <2>1, <2>4, SameCardinality DEF Asking!Full, Asking!AgentAssumption
    <3>2. IsFiniteSet(Now \cup {a}) /\ Cardinality(Now \cup {a}) = Cardinality(Now) + 1
      BY <2>1, <2>4, FS_AddElement
    <3>3. Cardinality(Then) \in Nat /\ Cardinality(Then) <= Cardinality(Now \cup {a})
      BY <2>2, <3>2, FS_Subset, FS_CardinalityType
    <3> QED BY <2>1, <3>1, <3>2, <3>3, SameCardinality DEF Asking!SlotsSuffice, Asking!AgentAssumption
  <2> QED BY <2>3, <2>4
<1> QED BY <1>1, <1>2 DEF AskingInv

\* A request that ends without an answer drops what it has read.
LEMMA EndsStep ==
  ASSUME Asking!AgentAssumption, AskingInv, NEW a \in Requests, UNCHANGED ask_session,
         NEW outcome \in Asking!Outcomes \ {"none", "answered"}, Asking!Ends(a, outcome),
         ask_ask[a].pc # "done"
  PROVE  AskingInv'
<1>1. PICK x : x = ask_ask[a]
  OBVIOUS
<1>2. x \in Asks /\ GoodAsk(x, ask_session[a])
  BY <1>1 DEF AskingInv
<1>3. PICK r : r = [x EXCEPT !.pc = "done", !.outcome = outcome, !.facts = 0]
  OBVIOUS
<1>4. r \in Asks /\ r.pc = "done" /\ r.outcome = outcome /\ r.facts = 0 /\ r.late = x.late
  <2>1. x \in Asks
    BY <1>2
  <2>2. r.pc = "done" /\ r.outcome = outcome /\ r.facts = 0 /\ r.late = x.late
    BY <1>3, <2>1 DEF Asks
  <2>3. outcome \in Asking!Outcomes /\ 0 \in 0..2
    OBVIOUS
  <2>4. r \in Asks
    BY <1>3, <2>1, <2>3 DEF Asks
  <2> QED BY <2>2, <2>4
<1>5. ask_ask' = [ask_ask EXCEPT ![a] = r]
  BY <1>1, <1>3 DEF Asking!Ends, AskingInv
<1>6. GoodAsk(r, ask_session[a])
  <2>1. x.late # 0 => x.late = 1 /\ ~ask_session[a]
    BY <1>2 DEF GoodAsk
  <2>2. r.outcome # "none" /\ r.outcome # "answered"
    BY <1>4
  <2> QED BY <1>4, <2>1, <2>2 DEF GoodAsk, Asking!Running
<1> QED BY <1>4, <1>5, <1>6, AskerStep DEF Asking!Running

\* A session that ends keeps the invariant.
LEMMA LogoutStep ==
  ASSUME Asking!AgentAssumption, AskingInv, NEW a \in Requests, Asking!Logout(a)
  PROVE  AskingInv'
<1>1. ask_ask' = ask_ask /\ ask_session' = [ask_session EXCEPT ![a] = FALSE]
  BY DEF Asking!Logout
<1>2. ASSUME NEW b \in Requests PROVE GoodAsk(ask_ask[b], ask_session'[b])
  <2>1. GoodAsk(ask_ask[b], ask_session[b])
    BY DEF AskingInv
  <2>2. ask_session'[b] => ask_session[b]
    BY <1>1 DEF AskingInv
  <2> QED BY <2>1, <2>2 DEF GoodAsk
<1>3. ask_session' \in [Requests -> BOOLEAN] /\ Asking!SlotsSuffice'
  BY <1>1 DEF AskingInv, Asking!SlotsSuffice
<1> QED BY <1>1, <1>2, <1>3 DEF AskingInv

\* A question that is asked keeps the invariant.
LEMMA AskStep ==
  ASSUME Asking!AgentAssumption, AskingInv, NEW a \in Requests, Asking!Ask(a)
  PROVE  AskingInv'
<1>1. PICK x : x = ask_ask[a]
  OBVIOUS
<1>2. x \in Asks /\ GoodAsk(x, ask_session[a]) /\ x.pc = "new" /\ UNCHANGED ask_session
  BY <1>1 DEF Asking!Ask, AskingInv
<1>3. CASE Asking!Ends(a, "unauthorized") \/ Asking!Ends(a, "busy")
  BY <1>1, <1>2, <1>3, EndsStep DEF Asking!Outcomes
<1>4. ASSUME NEW q \in Questions, ~Asking!Full,
             ask_ask' = [ask_ask EXCEPT ![a].pc = "routing", ![a].question = q]
      PROVE  AskingInv'
  <2>1. PICK r : r = [x EXCEPT !.pc = "routing", !.question = q]
    OBVIOUS
  <2>2. /\ r \in Asks /\ r.pc = "routing" /\ r.question = q
        /\ r.facts = x.facts /\ r.late = x.late /\ r.outcome = x.outcome
    BY <1>2, <2>1 DEF Asks, Asking!Running
  <2>3. ask_ask' = [ask_ask EXCEPT ![a] = r]
    BY <1>1, <1>4, <2>1 DEF AskingInv
  <2>4. GoodAsk(r, ask_session[a])
    BY <1>2, <2>2 DEF GoodAsk
  <2> QED BY <1>2, <1>4, <2>2, <2>3, <2>4, AskerStep
<1> QED BY <1>3, <1>4 DEF Asking!Ask

\* The question of a that is routed or chosen gets its tool.
LEMMA WithStep ==
  ASSUME Asking!AgentAssumption, AskingInv, NEW a \in Requests, NEW tool \in Asking!Tools,
         Asking!With(a, tool),
         ask_ask[a].pc \in {"routing", "choosing"}, UNCHANGED ask_session,
         tool # "unsupported" => Allowed(ask_ask[a].question)
  PROVE  AskingInv'
<1>1. PICK x : x = ask_ask[a]
  OBVIOUS
<1>2. x \in Asks /\ GoodAsk(x, ask_session[a]) /\ x.pc \in {"routing", "choosing"}
  BY <1>1 DEF AskingInv
<1>3. CASE Asking!Ends(a, "unsupported") \/ Asking!Ends(a, "needs_input")
  BY <1>1, <1>2, <1>3, EndsStep DEF Asking!Outcomes
<1>4. CASE tool # "unsupported"
           /\ ask_ask' = [ask_ask EXCEPT ![a].pc = "authorizing", ![a].tool = tool]
  <2>1. PICK r : r = [x EXCEPT !.pc = "authorizing", !.tool = tool]
    OBVIOUS
  <2>2. /\ r \in Asks /\ r.pc = "authorizing" /\ r.question = x.question /\ r.tool = tool
        /\ r.facts = x.facts /\ r.late = x.late /\ r.outcome = x.outcome
    BY <1>2, <2>1 DEF Asks, Asking!Running
  <2>3. ask_ask' = [ask_ask EXCEPT ![a] = r]
    BY <1>1, <1>4, <2>1 DEF AskingInv
  <2>4. x.facts = 0 /\ x.late = 0 /\ x.outcome = "none" /\ x.question \in Questions
    BY <1>2 DEF GoodAsk, Asking!Running
  <2>5. 0 < Asking!Reads[tool]
    BY <1>4, ReadsTyped
  <2>6. GoodAsk(r, ask_session[a])
    BY <1>1, <1>4, <2>2, <2>4, <2>5 DEF GoodAsk, Asking!Running
  <2> QED BY <1>1, <1>2, <2>2, <2>3, <2>6, AskerStep DEF Asking!Running
<1> QED BY <1>3, <1>4 DEF Asking!With

\* A question that is routed keeps the invariant.
LEMMA RouteStep ==
  ASSUME Asking!AgentAssumption, AskingInv, NEW a \in Requests, Asking!Route(a)
  PROVE  AskingInv'
<1>1. PICK x : x = ask_ask[a]
  OBVIOUS
<1>2. PICK q : q = x.question
  OBVIOUS
<1>3. x \in Asks /\ GoodAsk(x, ask_session[a]) /\ x.pc = "routing" /\ UNCHANGED ask_session
  BY <1>1 DEF Asking!Route, AskingInv
<1>4. /\ q \in Questions /\ q.tool \in Asking!Tools /\ (q.period => q.tool = "unsupported")
      /\ q.blocked \in BOOLEAN /\ q.period \in BOOLEAN
  BY <1>2, <1>3 DEF GoodAsk, Asking!Running, Asking!AgentAssumption
<1>5. CASE Asking!Ends(a, "unsupported")
  BY <1>1, <1>3, <1>5, EndsStep DEF Asking!Outcomes
<1>6. CASE ~q.blocked /\ Asking!AsksModel(q) /\ Asking!Goes(a, "choosing")
  <2>1. PICK r : r = [x EXCEPT !.pc = "choosing"]
    OBVIOUS
  <2>2. /\ r \in Asks /\ r.pc = "choosing" /\ r.question = q
        /\ r.facts = x.facts /\ r.late = x.late /\ r.outcome = x.outcome
    BY <1>2, <1>3, <2>1 DEF Asks, Asking!Running
  <2>3. ask_ask' = [ask_ask EXCEPT ![a] = r]
    BY <1>1, <1>6, <2>1 DEF Asking!Goes, AskingInv
  <2>4. Allowed(q)
    BY <1>4, <1>6 DEF Allowed, Asking!AsksModel
  <2>5. GoodAsk(r, ask_session[a])
    BY <1>3, <1>4, <2>2, <2>4 DEF GoodAsk, Asking!Running
  <2> QED BY <1>1, <1>3, <2>2, <2>3, <2>5, AskerStep DEF Asking!Running
<1>7. CASE ~q.blocked /\ ~Asking!AsksModel(q) /\ Asking!With(a, q.tool)
  <2>1. q.tool # "unsupported" => Allowed(q)
    BY <1>4, <1>7 DEF Allowed
  <2> QED BY <1>1, <1>2, <1>3, <1>4, <1>7, <2>1, WithStep
<1> QED BY <1>1, <1>2, <1>5, <1>6, <1>7 DEF Asking!Route

\* A tool that is chosen keeps the invariant.
LEMMA ChooseStep ==
  ASSUME Asking!AgentAssumption, AskingInv, NEW a \in Requests, Asking!Choose(a)
  PROVE  AskingInv'
<1>1. PICK tool \in Asking!Tools : Asking!With(a, tool)
  BY DEF Asking!Choose
<1>2. ask_ask[a].pc = "choosing" /\ UNCHANGED ask_session /\ Allowed(ask_ask[a].question)
  BY DEF Asking!Choose, AskingInv, GoodAsk
<1> QED BY <1>1, <1>2, WithStep

\* An authorization of a read keeps the invariant.
LEMMA AuthorizeStep ==
  ASSUME Asking!AgentAssumption, AskingInv, NEW a \in Requests, Asking!Authorize(a)
  PROVE  AskingInv'
<1>1. PICK x : x = ask_ask[a]
  OBVIOUS
<1>2. x \in Asks /\ GoodAsk(x, ask_session[a]) /\ x.pc = "authorizing" /\ UNCHANGED ask_session
  BY <1>1 DEF Asking!Authorize, AskingInv
<1>3. CASE Asking!Ends(a, "unauthorized")
  BY <1>1, <1>2, <1>3, EndsStep DEF Asking!Outcomes
<1>4. CASE ask_session[a] /\ Asking!Goes(a, "reading")
  <2>1. PICK r : r = [x EXCEPT !.pc = "reading"]
    OBVIOUS
  <2>2. /\ r \in Asks /\ r.pc = "reading" /\ r.question = x.question /\ r.tool = x.tool
        /\ r.facts = x.facts /\ r.late = x.late /\ r.outcome = x.outcome
    BY <1>2, <2>1 DEF Asks, Asking!Running
  <2>3. ask_ask' = [ask_ask EXCEPT ![a] = r]
    BY <1>1, <1>4, <2>1 DEF Asking!Goes, AskingInv
  <2>4. GoodAsk(r, ask_session[a])
    BY <1>2, <1>4, <2>2 DEF GoodAsk, Asking!Running
  <2> QED BY <1>1, <1>2, <2>2, <2>3, <2>4, AskerStep DEF Asking!Running
<1> QED BY <1>3, <1>4 DEF Asking!Authorize, Asking!Authorized

\* A read keeps the invariant.
LEMMA ReadStep ==
  ASSUME Asking!AgentAssumption, AskingInv, NEW a \in Requests, Asking!Read(a)
  PROVE  AskingInv'
<1>1. PICK x : x = ask_ask[a]
  OBVIOUS
<1>2. x \in Asks /\ GoodAsk(x, ask_session[a]) /\ x.pc = "reading" /\ UNCHANGED ask_session
  BY <1>1 DEF Asking!Read, AskingInv
<1>3. /\ Allowed(x.question) /\ x.facts < Asking!Reads[x.tool] /\ x.late = 0 /\ x.outcome = "none"
      /\ x.tool \in Asking!Tools /\ x.facts \in 0..2
  BY <1>2 DEF GoodAsk, Asks
<1>4. Asking!Reads[x.tool] \in 0..2
  BY <1>3, ReadsTyped
<1>5. CASE Asking!Ends(a, "not_found") \/ Asking!Ends(a, "resource_limit")
  BY <1>1, <1>2, <1>5, EndsStep DEF Asking!Outcomes
<1>6. PICK late \in 0..1 : late = IF ask_session[a] THEN 0 ELSE 1
  OBVIOUS
<1>7. CASE /\ Asking!Complete(a)
           /\ ask_ask' = [ask_ask EXCEPT ![a].pc = "done", ![a].outcome = "answered",
                                 ![a].facts = @ + 1, ![a].late = @ + late]
  <2>1. PICK r : r = [x EXCEPT !.pc = "done", !.outcome = "answered",
                               !.facts = x.facts + 1, !.late = x.late + late]
    OBVIOUS
  <2>2. x.facts + 1 = Asking!Reads[x.tool] /\ x.late + late = late
    BY <1>1, <1>3, <1>7 DEF Asking!Complete
  <2>3. x.facts + 1 \in 0..2 /\ x.late + late \in 0..2
    BY <1>4, <1>6, <2>2
  <2>4. /\ r \in Asks /\ r.pc = "done" /\ r.question = x.question /\ r.tool = x.tool
        /\ r.facts = Asking!Reads[x.tool] /\ r.late = late /\ r.outcome = "answered"
    BY <1>2, <2>1, <2>2, <2>3 DEF Asks, Asking!Outcomes
  <2>5. ask_ask' = [ask_ask EXCEPT ![a] = r]
    BY <1>1, <1>7, <2>1 DEF AskingInv
  <2>6. GoodAsk(r, ask_session[a])
    BY <1>3, <1>6, <2>4 DEF GoodAsk, Asking!Running
  <2> QED BY <1>2, <2>4, <2>5, <2>6, AskerStep DEF Asking!Running
<1>8. CASE /\ ~Asking!Complete(a)
           /\ ask_ask' = [ask_ask EXCEPT ![a].pc = "authorizing", ![a].facts = @ + 1,
                                 ![a].late = @ + late]
  <2>1. PICK r : r = [x EXCEPT !.pc = "authorizing", !.facts = x.facts + 1,
                               !.late = x.late + late]
    OBVIOUS
  <2>2. x.facts + 1 < Asking!Reads[x.tool] /\ x.late + late = late
    BY <1>1, <1>3, <1>4, <1>8 DEF Asking!Complete
  <2>3. x.facts + 1 \in 0..2 /\ x.late + late \in 0..2
    BY <1>3, <1>4, <1>6, <2>2
  <2>4. /\ r \in Asks /\ r.pc = "authorizing" /\ r.question = x.question /\ r.tool = x.tool
        /\ r.facts = x.facts + 1 /\ r.late = late /\ r.outcome = x.outcome
    BY <1>2, <2>1, <2>2, <2>3 DEF Asks, Asking!Running
  <2>5. ask_ask' = [ask_ask EXCEPT ![a] = r]
    BY <1>1, <1>8, <2>1 DEF AskingInv
  <2>6. GoodAsk(r, ask_session[a])
    BY <1>3, <1>6, <2>2, <2>4 DEF GoodAsk, Asking!Running, Allowed
  <2> QED BY <1>1, <1>2, <2>4, <2>5, <2>6, AskerStep DEF Asking!Running
<1> QED BY <1>5, <1>6, <1>7, <1>8 DEF Asking!Read

\* Every step keeps the invariant.
LEMMA AskingNext == Asking!AgentAssumption /\ AskingInv /\ [Asking!Next]_(Asking!vars) => AskingInv'
<1> SUFFICES ASSUME Asking!AgentAssumption, AskingInv, [Asking!Next]_(Asking!vars)
             PROVE  AskingInv'
  OBVIOUS
<1>1. ASSUME NEW a \in Requests, Asking!Timeout(a) PROVE AskingInv'
  <2>1. Asking!Ends(a, "resource_limit") /\ UNCHANGED ask_session /\ ask_ask[a].pc # "done"
    BY <1>1 DEF Asking!Timeout, Asking!Interruptible, Asking!Running
  <2> QED BY <2>1, EndsStep DEF Asking!Outcomes
<1>2. ASSUME NEW a \in Requests, Asking!Serve(a) PROVE AskingInv'
  BY <1>2, AskStep, RouteStep, ChooseStep, AuthorizeStep, ReadStep DEF Asking!Serve
<1>3. CASE UNCHANGED Asking!vars
  BY <1>3 DEF Asking!vars, AskingInv, Asking!SlotsSuffice
<1> QED BY <1>1, <1>2, <1>3, LogoutStep DEF Asking!Next

-----------------------------------------------------------------------------
(* The theorems *)

(* In every reachable state: what a request has read fits the phase it is in *)
(* and the session it came with, and the slots suffice.                      *)
THEOREM AskingInvariance ==
  ASSUME Asking!AgentAssumption
  PROVE  Asking!Spec => []AskingInv
<1>1. Asking!Init => AskingInv
  BY AskingInit
<1>2. AskingInv /\ [Asking!Next]_(Asking!vars) => AskingInv'
  BY AskingNext
<1> QED BY <1>1, <1>2, PTL DEF Asking!Spec

\* Sessions and requests keep their types, and a request is done with an outcome.
THEOREM AsksTyped ==
  ASSUME Asking!AgentAssumption
  PROVE  Asking!Spec => []Asking!TypeOK
<1>1. ASSUME AskingInv, NEW a \in Requests
      PROVE  /\ ask_ask[a] \in Asks
             /\ ask_ask[a].facts \in 0..Asking!Reads[ask_ask[a].tool]
             /\ ask_ask[a].pc = "done" <=> ask_ask[a].outcome # "none"
  <2>1. PICK x : x = ask_ask[a]
    OBVIOUS
  <2>2. x \in Asks /\ GoodAsk(x, ask_session[a])
    BY <1>1, <2>1 DEF AskingInv
  <2>3. Asking!Reads[x.tool] \in 0..2 /\ x.facts \in 0..2
    BY <2>2, ReadsTyped DEF Asks
  <2>4. x.facts = 0 \/ x.facts = Asking!Reads[x.tool] \/ x.facts < Asking!Reads[x.tool]
    BY <2>2 DEF GoodAsk, Asks, Asking!Running, Asking!Outcomes
  <2>5. x.facts \in 0..Asking!Reads[x.tool]
    BY <2>3, <2>4
  <2>6. x.pc = "done" <=> x.outcome # "none"
    BY <2>2 DEF GoodAsk
  <2> QED BY <2>1, <2>2, <2>5, <2>6
<1>2. AskingInv => Asking!TypeOK
  BY <1>1 DEF AskingInv, Asking!TypeOK, Asks
<1> QED BY <1>2, AskingInvariance, PTL

(* Every read is authorized again: once its session has ended a question     *)
(* finishes at most the read it is in.                                       *)
THEOREM LogoutStops ==
  ASSUME Asking!AgentAssumption
  PROVE  Asking!Spec => []Asking!LogoutStopsReads
<1>1. AskingInv => Asking!LogoutStopsReads
  BY DEF AskingInv, GoodAsk, Asks, Asking!LogoutStopsReads
<1> QED BY <1>1, AskingInvariance, PTL

(* Whatever ends a question between two reads, an answer has both, and what  *)
(* is not answered has none.                                                 *)
THEOREM NothingPartial ==
  ASSUME Asking!AgentAssumption
  PROVE  Asking!Spec => []Asking!NoPartialAnswer
<1>1. AskingInv => Asking!NoPartialAnswer
  BY DEF AskingInv, GoodAsk, Asking!NoPartialAnswer
<1> QED BY <1>1, AskingInvariance, PTL

(* The tool a model names gives no denied question, and none about a period  *)
(* that is not served, a read.                                               *)
THEOREM Refused ==
  ASSUME Asking!AgentAssumption
  PROVE  Asking!Spec => []Asking!RefusedReadNothing
<1>1. AskingInv => Asking!RefusedReadNothing
  BY DEF AskingInv, GoodAsk, Allowed, Asking!RefusedReadNothing
<1> QED BY <1>1, AskingInvariance, PTL

(* The look at the semaphore and its acquisition are one step, so that no    *)
(* question waits and no more run than there are slots.                      *)
THEOREM SlotsAreEnough ==
  ASSUME Asking!AgentAssumption
  PROVE  Asking!Spec => []Asking!SlotsSuffice
<1>1. AskingInv => Asking!SlotsSuffice
  BY DEF AskingInv
<1> QED BY <1>1, AskingInvariance, PTL

-----------------------------------------------------------------------------
(* The attempts of one extraction *)

\* The states in which a slot has claimed the job.
Live == {"claimed", "ending"} \cup Extraction!Working

Errors == {"none", "provider", "rejected", "disabled", "output", "database", "timeout"}

Works ==
    [pc : {"down", "idle"} \cup Live, since : Nat, start : Nat, token : Nat,
     tries : 0..AiAttempts, error : Errors]

Rows ==
    [status : {"waiting", "running", "succeeded", "dead_letter"}, attempts : 0..MaxAttempts,
     lease : Nat, available : Nat]

ExtractionTyped ==
    /\ extract_now \in Nat
    /\ extract_settings \in [lease : Leases, timeout : Timeouts] /\ Extraction!Valid(extract_settings)
    /\ extract_job \in Rows
    /\ extract_slot \in [Processes -> Works]
    /\ extract_proposal \in BOOLEAN /\ extract_calls \in Nat

\* The calls that so many attempts may make, and the time they may take.
Budget(attempts) == attempts * AiAttempts

Spent(attempts) == attempts * (extract_settings.lease + 3 * Gap + MaxBackoff)

(* How old the state w of a slot can be. What goes on in a claimed job ends   *)
(* before its lease, because the lease exceeds the timeout by the margin.    *)
Timed(w) ==
    /\ w.since <= extract_now
    /\ w.pc \in {"down", "idle"} => extract_now <= w.since + Gap
    /\ w.pc \in {"claimed", "ending", "answered"} => extract_now <= w.since + Stall
    /\ w.pc = "claimed" => extract_job.lease = w.since + extract_settings.lease
    /\ w.pc \in Extraction!Working =>
         /\ w.start <= w.since
         /\ extract_now <= w.start + extract_settings.timeout + Stall
         /\ w.start + extract_settings.lease <= extract_job.lease + Stall
    /\ w.pc = "ending" =>
         w.since + extract_settings.lease <= extract_job.lease + extract_settings.timeout + 2 * Stall

\* It holds the current claim, and its calls are counted in it.
Owns(w) ==
    /\ extract_job.status = "running" /\ extract_job.attempts = w.token
    /\ extract_calls + AiAttempts <= Budget(extract_job.attempts) + w.tries

Counted(w) ==
    /\ w.token <= extract_job.attempts
    /\ w.pc = "claimed" => w.tries = 0
    /\ w.pc = "sleeping" => w.tries < AiAttempts
    /\ w.pc \in Live => Owns(w)

OneLive ==
    \A s, t \in Processes : extract_slot[s].pc \in Live /\ extract_slot[t].pc \in Live => s = t

\* A waiting job is polled by an idle slot once it is due.
Waits ==
    extract_job.status = "waiting" =>
        /\ extract_job.attempts < MaxAttempts
        /\ extract_job.available <= Spent(extract_job.attempts)
        /\ \E s \in Processes : extract_slot[s].pc = "idle"
             /\ extract_slot[s].since <= extract_job.available

(* Works on the job, or will find the lapsed lease in time. *)
Attends(w) ==
    \/ w.pc \in Live
    \/ w.pc = "down" /\ w.since <= extract_job.lease
    \/ w.pc = "idle" /\ w.since <= extract_job.lease + Gap

\* A running job has a slot that works on it, or that will find its lease lapsed.
Recovers ==
    extract_job.status = "running" =>
        /\ extract_job.attempts > 0
        /\ extract_job.lease <= Spent(extract_job.attempts - 1) + Gap + extract_settings.lease
        /\ \E s \in Processes : Attends(extract_slot[s])

ExtractionInv ==
    /\ ExtractionTyped
    /\ \A s \in Processes : Timed(extract_slot[s]) /\ Counted(extract_slot[s])
    /\ OneLive
    /\ extract_calls <= Budget(extract_job.attempts)
    /\ Waits /\ Recovers

\* The constants as the proofs need them.
LEMMA DurationsTyped ==
  ASSUME Extraction!AttemptsAssumption
  PROVE  /\ Stall \in Nat /\ Margin \in Nat /\ 3 * Stall <= Margin
         /\ MaxAttempts \in Nat \ {0} /\ AiAttempts \in Nat \ {0}
         /\ MaxBackoff \in Nat /\ Backoff \in Nat /\ AiBackoff \in Nat /\ Gap \in Nat \ {0}
         /\ Leases \subseteq Nat /\ Timeouts \subseteq Nat \ {0}
BY DEF Extraction!AttemptsAssumption

\* Whatever the powers of two, a backoff is capped.
LEMMA DelaysBounded ==
  ASSUME Extraction!AttemptsAssumption, NEW a \in Int, NEW d \in Extraction!Delays(a)
  PROVE  d \in Nat /\ d <= MaxBackoff
<1> DEFINE e == IF a - 1 < 10 THEN a - 1 ELSE 10
<1>1. 2 ^ e \in Int
  <2>1. e \in Int OBVIOUS
  <2> QED BY <2>1, SMT
<1>2. Backoff * 2 ^ e \in Int
  BY <1>1, DurationsTyped
<1>3. Extraction!Ceiling(a) \in Int /\ Extraction!Ceiling(a) <= MaxBackoff
  BY <1>2, DurationsTyped DEF Extraction!Ceiling
<1> QED BY <1>3, DurationsTyped DEF Extraction!Delays

\* Multiplication, as far as the budget and the deadline need it.
LEMMA BudgetGrows ==
  ASSUME Extraction!AttemptsAssumption, NEW a \in Nat
  PROVE  /\ Budget(a) \in Nat
         /\ Budget(a + 1) = Budget(a) + AiAttempts
         /\ a <= MaxAttempts => Budget(a) <= MaxAttempts * AiAttempts
<1>1. AiAttempts \in Nat /\ MaxAttempts \in Nat
  BY DurationsTyped
<1>2. a * AiAttempts \in Nat /\ (a + 1) * AiAttempts = a * AiAttempts + AiAttempts
  BY <1>1
<1>3. ASSUME a <= MaxAttempts PROVE a * AiAttempts <= MaxAttempts * AiAttempts
  <2>1. PICK d \in Nat : MaxAttempts = a + d
    <3>1. MaxAttempts - a \in Nat /\ MaxAttempts = a + (MaxAttempts - a)
      BY <1>1, <1>3
    <3> QED BY <3>1
  <2>2. (a + d) * AiAttempts = a * AiAttempts + d * AiAttempts /\ d * AiAttempts \in Nat
    BY <1>1
  <2> QED BY <2>1, <2>2, <1>2
<1> QED BY <1>2, <1>3 DEF Budget

\* The time and the calls that attempts may take grow with their number.
LEMMA SpentGrows ==
  ASSUME Extraction!AttemptsAssumption, extract_settings.lease \in Nat, NEW a \in Nat
  PROVE  /\ Spent(a) \in Nat
         /\ Spent(a + 1) = Spent(a) + extract_settings.lease + 3 * Gap + MaxBackoff
         /\ a < MaxAttempts => Spent(a) + Gap <= Extraction!Deadline
         /\ a + 1 <= MaxAttempts => Spent(a) + extract_settings.lease + 3 * Gap <= Extraction!Deadline
<1> DEFINE r == extract_settings.lease + 3 * Gap
           q == r + MaxBackoff
<1>1. r \in Nat /\ q \in Nat /\ MaxBackoff \in Nat /\ MaxAttempts \in Nat \ {0} /\ Gap \in Nat
        /\ r >= Gap
  BY DurationsTyped
<1>2. a * q \in Nat /\ (a + 1) * q = a * q + q
  BY <1>1
<1>3. Extraction!Deadline = (MaxAttempts - 1) * q + r
  <2>1. Extraction!Deadline = MaxAttempts * r + (MaxAttempts - 1) * MaxBackoff
    BY DEF Extraction!Deadline
  <2>2. PICK m \in Nat : MaxAttempts = m + 1
    <3>1. MaxAttempts - 1 \in Nat /\ MaxAttempts = (MaxAttempts - 1) + 1
      BY <1>1
    <3> QED BY <3>1
  <2>3. (m + 1) * r = m * r + r /\ m * q = m * r + m * MaxBackoff
    BY <1>1
  <2> HIDE DEF r, q
  <2> QED BY <2>1, <2>2, <2>3, <1>1
<1>4. ASSUME a + 1 <= MaxAttempts PROVE a * q <= (MaxAttempts - 1) * q
  <2>1. PICK d \in Nat : MaxAttempts - 1 = a + d
    <3>1. MaxAttempts - 1 - a \in Nat /\ MaxAttempts - 1 = a + (MaxAttempts - 1 - a)
      BY <1>1, <1>4
    <3> QED BY <3>1
  <2>2. (a + d) * q = a * q + d * q /\ d * q \in Nat
    BY <1>1
  <2> QED BY <2>1, <2>2, <1>2
<1>5. Spent(a) = a * q /\ Spent(a + 1) = (a + 1) * q
  BY DEF Spent
<1>6. (MaxAttempts - 1) * q \in Nat
  <2>1. MaxAttempts - 1 \in Nat
    BY <1>1
  <2> QED BY <1>1, <2>1
<1> HIDE DEF r, q
<1>7. Spent(a) \in Nat /\ Spent(a + 1) = Spent(a) + q
  BY <1>2, <1>5
<1>8. a + 1 <= MaxAttempts => Spent(a) + r <= Extraction!Deadline
  BY <1>1, <1>2, <1>3, <1>4, <1>5, <1>6
<1>9. a < MaxAttempts => a + 1 <= MaxAttempts
  BY <1>1
<1>10. /\ q = extract_settings.lease + 3 * Gap + MaxBackoff /\ r = extract_settings.lease + 3 * Gap
       /\ Gap \in Nat /\ r >= Gap /\ r \in Nat
  BY <1>1 DEF q, r
<1>11. Extraction!Deadline \in Int
  BY <1>1, <1>3, <1>6
<1>12. Spent(a + 1) = Spent(a) + extract_settings.lease + 3 * Gap + MaxBackoff
  BY <1>1, <1>7, <1>10
<1>13. a < MaxAttempts => Spent(a) + Gap <= Extraction!Deadline
  BY <1>7, <1>8, <1>9, <1>10, <1>11
<1>14. a + 1 <= MaxAttempts => Spent(a) + extract_settings.lease + 3 * Gap <= Extraction!Deadline
  BY <1>7, <1>8, <1>10
<1> QED BY <1>7, <1>12, <1>13, <1>14

\* The invariant holds before the first claim.
LEMMA ExtractionInit ==
  ASSUME Extraction!AttemptsAssumption, Extraction!Init
  PROVE  ExtractionInv
<1>1. Extraction!Idle \in Works
  <2>1. 0 \in 0..AiAttempts /\ extract_now \in Nat
    BY DurationsTyped DEF Extraction!Init
  <2> QED BY <2>1 DEF Extraction!Idle, Works, Errors, Live, Extraction!Working
<1>2. ExtractionTyped
  <2>1. extract_job \in Rows
    <3>1. 0 \in 0..MaxAttempts
      BY DurationsTyped
    <3> QED BY <3>1 DEF Extraction!Init, Rows
  <2> QED BY <1>1, <2>1 DEF Extraction!Init, ExtractionTyped
<1>3. \A s \in Processes : extract_slot[s] = Extraction!Idle
  BY DEF Extraction!Init
<1>4. \A s \in Processes : extract_slot[s].pc = "idle" /\ extract_slot[s].since = 0
        /\ extract_slot[s].token = 0 /\ extract_slot[s].pc \notin Live
  BY <1>3 DEF Extraction!Idle, Extraction!Init, Live, Extraction!Working
<1>5. extract_now = 0 /\ extract_job.status = "waiting" /\ extract_job.attempts = 0
        /\ extract_job.available = 0 /\ extract_calls = 0
  BY DEF Extraction!Init
<1>6. \A s \in Processes : Timed(extract_slot[s]) /\ Counted(extract_slot[s])
  <2> SUFFICES ASSUME NEW s \in Processes PROVE Timed(extract_slot[s]) /\ Counted(extract_slot[s])
    OBVIOUS
  <2>1. Gap \in Nat /\ extract_slot[s].pc = "idle" /\ extract_slot[s].since = 0
          /\ extract_slot[s].token = 0
    BY <1>4, DurationsTyped
  <2>2. Timed(extract_slot[s])
    BY <1>5, <2>1 DEF Timed, Extraction!Working
  <2>3. Counted(extract_slot[s])
    BY <1>5, <2>1 DEF Counted, Live, Extraction!Working
  <2> QED BY <2>2, <2>3
<1>7. Budget(0) = 0 /\ Spent(0) \in Nat
  <2>1. extract_settings.lease \in Nat
    BY <1>2, DurationsTyped DEF ExtractionTyped
  <2> QED BY <2>1, SpentGrows, DurationsTyped DEF Budget
<1>8. Waits
  <2>1. PICK s \in Processes : TRUE
    BY DEF Extraction!AttemptsAssumption
  <2> QED BY <2>1, <1>4, <1>5, <1>7, DurationsTyped DEF Waits
<1>9. Recovers
  BY <1>5 DEF Recovers
<1>10. OneLive
  BY <1>4 DEF OneLive
<1> QED BY <1>2, <1>5, <1>6, <1>7, <1>8, <1>9, <1>10 DEF ExtractionInv

(* A slot that works holds the lease. *)
LEMMA LiveHolds ==
  ASSUME Extraction!AttemptsAssumption, ExtractionInv, NEW s \in Processes, extract_slot[s].pc \in Live
  PROVE  Extraction!Holds(s)
<1>1. /\ extract_slot[s].since \in Nat /\ extract_slot[s].start \in Nat /\ extract_now \in Nat
      /\ extract_job.lease \in Nat
      /\ extract_settings.lease \in Nat /\ extract_settings.timeout \in Nat
      /\ extract_settings.timeout > 0
      /\ extract_settings.lease > extract_settings.timeout + Margin
  BY DurationsTyped DEF ExtractionInv, ExtractionTyped, Works, Rows, Extraction!Valid
<1>2. Timed(extract_slot[s]) /\ Counted(extract_slot[s])
  BY DEF ExtractionInv
<1>3. extract_job.lease > extract_now
  BY <1>1, <1>2, DurationsTyped DEF Timed, Live, Extraction!Working
<1> QED BY <1>2, <1>3 DEF Extraction!Holds, Counted, Owns

(* What a slot that works or ends does while the row of the job stays.       *)
LEMMA LiveStep ==
  ASSUME Extraction!AttemptsAssumption, ExtractionInv, NEW s \in Processes, extract_slot[s].pc \in Live,
         NEW r \in Works, r.pc \in Live, Timed(r), r.token = extract_slot[s].token,
         r.pc = "claimed" => r.tries = 0, r.pc = "sleeping" => r.tries < AiAttempts,
         extract_slot' = [extract_slot EXCEPT ![s] = r],
           UNCHANGED <<extract_now, extract_settings, extract_job>>,
         extract_proposal' \in BOOLEAN, extract_calls' \in Nat,
         extract_calls' + AiAttempts <= Budget(extract_job.attempts) + r.tries
  PROVE  ExtractionInv'
<1>1. ExtractionTyped'
  BY DEF ExtractionInv, ExtractionTyped, Extraction!Valid
<1>2. extract_slot'[s] = r /\ \A t \in Processes : t # s => extract_slot'[t] = extract_slot[t]
        /\ extract_slot[t].pc \notin Live
  BY DEF ExtractionInv, ExtractionTyped, OneLive
<1>3. extract_job.attempts \in Nat /\ extract_job.status = "running" /\ extract_job.attempts = r.token
  BY DEF ExtractionInv, ExtractionTyped, Rows, Counted, Owns
<1>4. r.token <= extract_job.attempts /\ Budget(extract_job.attempts)' = Budget(extract_job.attempts)
  BY <1>3 DEF Budget
<1>5. \A t \in Processes : Timed(extract_slot[t])'
  <2> SUFFICES ASSUME NEW t \in Processes PROVE Timed(extract_slot[t])'
    OBVIOUS
  <2>1. CASE t = s
    BY <1>2, <2>1 DEF Timed
  <2>2. CASE t # s
    BY <1>2, <2>2 DEF Timed, ExtractionInv
  <2> QED BY <2>1, <2>2
<1>6. \A t \in Processes : Counted(extract_slot[t])'
  <2> SUFFICES ASSUME NEW t \in Processes PROVE Counted(extract_slot[t])'
    OBVIOUS
  <2>1. CASE t = s
    BY <1>2, <1>3, <1>4, <2>1 DEF Counted, Owns
  <2>2. CASE t # s
    BY <1>2, <2>2 DEF Counted, ExtractionInv
  <2> QED BY <2>1, <2>2
<1>7. \A t \in Processes : Timed(extract_slot[t])' /\ Counted(extract_slot[t])'
  BY <1>5, <1>6
<1>8. OneLive'
  BY <1>2 DEF OneLive
<1>9. extract_calls' <= Budget(extract_job.attempts)'
  <2>1. r.tries \in Int /\ r.tries <= AiAttempts /\ AiAttempts \in Nat
          /\ Budget(extract_job.attempts) \in Nat
    BY <1>3, DurationsTyped, BudgetGrows DEF Works
  <2> QED BY <1>4, <2>1
<1>10. Waits'
  BY <1>3 DEF Waits
<1>11. Recovers'
  <2>1. Spent(extract_job.attempts - 1)' = Spent(extract_job.attempts - 1)
    BY DEF Spent
  <2> QED BY <1>2, <2>1 DEF Recovers, Attends, ExtractionInv
<1> QED BY <1>1, <1>7, <1>8, <1>9, <1>10, <1>11 DEF ExtractionInv

(* A slot that comes to rest, while no other holds the job or its row stays. *)
LEMMA RestStep ==
  ASSUME Extraction!AttemptsAssumption, ExtractionInv, NEW s \in Processes,
         NEW r \in Works, r.pc \in {"down", "idle"}, Timed(r), r.token = 0,
         extract_slot' = [extract_slot EXCEPT ![s] = r],
           UNCHANGED <<extract_now, extract_settings, extract_proposal, extract_calls>>,
         extract_job' \in Rows, extract_job'.attempts = extract_job.attempts,
         extract_job' = extract_job \/ \A t \in Processes : t # s => extract_slot[t].pc \notin Live,
         Waits', Recovers'
  PROVE  ExtractionInv'
<1>1. ExtractionTyped'
  BY DEF ExtractionInv, ExtractionTyped, Extraction!Valid
<1>2. extract_slot'[s] = r /\ \A t \in Processes : t # s => extract_slot'[t] = extract_slot[t]
  BY DEF ExtractionInv, ExtractionTyped
<1>3. Budget(extract_job.attempts)' = Budget(extract_job.attempts) /\ extract_job.attempts \in Nat
  BY DEF Budget, ExtractionInv, ExtractionTyped, Rows
<1>4. r.pc \notin Live /\ r.pc \notin Extraction!Working
  BY DEF Live, Extraction!Working
<1>5. \A t \in Processes : Timed(extract_slot[t])'
  <2> SUFFICES ASSUME NEW t \in Processes PROVE Timed(extract_slot[t])'
    OBVIOUS
  <2>1. CASE t = s
    BY <1>2, <1>4, <2>1 DEF Timed, Live
  <2>2. CASE t # s /\ extract_job' = extract_job
    BY <1>2, <2>2 DEF Timed, ExtractionInv
  <2>3. CASE t # s /\ extract_slot[t].pc \notin Live
    BY <1>2, <2>3 DEF Timed, ExtractionInv, Live
  <2> QED BY <2>1, <2>2, <2>3
<1>6. \A t \in Processes : Counted(extract_slot[t])'
  <2> SUFFICES ASSUME NEW t \in Processes PROVE Counted(extract_slot[t])'
    OBVIOUS
  <2>1. CASE t = s
    BY <1>2, <1>3, <1>4, <2>1 DEF Counted, Live, Extraction!Working
  <2>2. CASE t # s /\ extract_job' = extract_job
    BY <1>2, <1>3, <2>2 DEF Counted, Owns, ExtractionInv
  <2>3. CASE t # s /\ extract_slot[t].pc \notin Live
    BY <1>2, <2>3 DEF Counted, ExtractionInv, Live, Extraction!Working
  <2> QED BY <2>1, <2>2, <2>3
<1>7. \A t \in Processes : Timed(extract_slot[t])' /\ Counted(extract_slot[t])'
  BY <1>5, <1>6
<1>8. OneLive'
  BY <1>2, <1>4 DEF OneLive, ExtractionInv
<1> QED BY <1>1, <1>3, <1>7, <1>8 DEF ExtractionInv

\* The steps of an extraction: begin, answer, store, retry, fail, time out.
LEMMA LiveStepInv ==
  ASSUME Extraction!AttemptsAssumption, ExtractionInv, NEW s \in Processes,
         Extraction!Begin(s) \/ Extraction!Answers(s) \/ Extraction!Store(s)
           \/ Extraction!FailsForNow(s) \/ Extraction!CallAgain(s)
         \/ Extraction!Rejects(s) \/ Extraction!Fails(s) \/ Extraction!TimesOut(s)
  PROVE  ExtractionInv'
<1> DEFINE w == extract_slot[s]
<1>1. w \in Works /\ Timed(w) /\ Counted(w) /\ extract_now \in Nat /\ extract_calls \in Nat
        /\ extract_job.lease \in Nat
      /\ extract_settings.lease \in Nat /\ extract_settings.timeout \in Nat
      /\ extract_proposal \in BOOLEAN /\ Budget(extract_job.attempts) \in Nat
      /\ extract_slot \in [Processes -> Works]
  BY DurationsTyped, BudgetGrows DEF ExtractionInv, ExtractionTyped, Rows
<1>2. /\ Stall \in Nat /\ AiAttempts \in Nat \ {0}
      /\ w.since \in Nat /\ w.start \in Nat /\ w.tries \in 0..AiAttempts /\ w.tries \in Nat
  BY <1>1, DurationsTyped DEF Works
<1>3. ASSUME w.pc \in Live PROVE extract_calls + AiAttempts <= Budget(extract_job.attempts) + w.tries
  BY <1>1, <1>3 DEF Counted, Owns
<1>4. CASE Extraction!Begin(s)
  <2>1. w.pc = "claimed" /\ w.pc \in Live
    BY <1>4 DEF Extraction!Begin, Live
  <2>2. CASE extract_proposal
    <3> DEFINE r == [w EXCEPT !.pc = "ending", !.since = extract_now, !.start = extract_now,
          !.tries = 0]
    <3>0. /\ extract_slot' = [extract_slot EXCEPT ![s].pc = "ending", ![s].since = extract_now,
               ![s].start = extract_now,
                                  ![s].tries = 0]
          /\ extract_calls' = extract_calls + 0
      BY <1>4, <2>2, Zenon DEF Extraction!Begin
    <3>1. extract_slot' = [extract_slot EXCEPT ![s] = r] /\ extract_calls' = extract_calls
      <4>1. extract_slot' = [extract_slot EXCEPT ![s] = r]
        BY <1>1, <3>0
      <4>2. extract_calls' = extract_calls
        BY <1>1, <3>0
      <4> QED BY <4>1, <4>2
    <3>2. r \in Works /\ r.pc = "ending" /\ r.since = extract_now /\ r.start = extract_now
            /\ r.tries = 0
          /\ r.token = w.token
      <4>1. 0 \in 0..AiAttempts /\ "ending" \in {"down", "idle"} \cup Live
        BY <1>2 DEF Live
      <4> QED BY <1>1, <4>1 DEF Works
    <3>3. r.pc \in Live
      BY <3>2 DEF Live
    <3> HIDE DEF r
    <3>4. Timed(r)
      BY <1>1, <1>2, <2>1, <3>2 DEF Timed, Live, Extraction!Working
    <3>5. extract_calls' + AiAttempts <= Budget(extract_job.attempts) + r.tries
      BY <1>1, <1>3, <2>1, <3>1, <3>2 DEF Counted
    <3>6. UNCHANGED <<extract_now, extract_settings, extract_job>> /\ extract_proposal' \in BOOLEAN
            /\ extract_calls' \in Nat
      BY <1>1, <1>4, <3>1 DEF Extraction!Begin
    <3> QED BY <1>1, <2>1, <3>1, <3>2, <3>3, <3>4, <3>5, <3>6, LiveStep
  <2>3. CASE ~extract_proposal
    <3> DEFINE r == [w EXCEPT !.pc = "calling", !.since = extract_now, !.start = extract_now,
          !.tries = 1]
    <3>1. extract_slot' = [extract_slot EXCEPT ![s] = r] /\ extract_calls' = extract_calls + 1
      BY <1>1, <1>4, <2>3 DEF Extraction!Begin
    <3>2. r \in Works /\ r.pc = "calling" /\ r.since = extract_now /\ r.start = extract_now
            /\ r.tries = 1
          /\ r.token = w.token
      <4>1. 1 \in 0..AiAttempts /\ "calling" \in {"down", "idle"} \cup Live
        BY <1>2 DEF Live, Extraction!Working
      <4> QED BY <1>1, <4>1 DEF Works
    <3>3. r.pc \in Live
      BY <3>2 DEF Live, Extraction!Working
    <3> HIDE DEF r
    <3>4. Timed(r)
      BY <1>1, <1>2, <2>1, <3>2 DEF Timed, Live, Extraction!Working
    <3>5. extract_calls' + AiAttempts <= Budget(extract_job.attempts) + r.tries
      BY <1>1, <1>3, <1>2, <2>1, <3>1, <3>2 DEF Counted
    <3>6. UNCHANGED <<extract_now, extract_settings, extract_job>> /\ extract_proposal' \in BOOLEAN
            /\ extract_calls' \in Nat
      BY <1>1, <1>4, <3>1 DEF Extraction!Begin
    <3> QED BY <1>1, <2>1, <3>1, <3>2, <3>3, <3>4, <3>5, <3>6, LiveStep
  <2> QED BY <2>2, <2>3
<1>5. CASE Extraction!CallAgain(s)
  <2>1. w.pc = "sleeping" /\ w.pc \in Live
    BY <1>5 DEF Extraction!CallAgain, Live, Extraction!Working
  <2> DEFINE r == [w EXCEPT !.pc = "calling", !.since = extract_now, !.tries = @ + 1]
  <2>2. extract_slot' = [extract_slot EXCEPT ![s] = r] /\ extract_calls' = extract_calls + 1
    BY <1>1, <1>5 DEF Extraction!CallAgain
  <2>3. w.tries < AiAttempts /\ w.tries + 1 \in 0..AiAttempts
    BY <1>1, <1>2, <2>1 DEF Counted
  <2>4. r \in Works /\ r.pc = "calling" /\ r.since = extract_now /\ r.start = w.start
          /\ r.tries = w.tries + 1
        /\ r.token = w.token
    BY <1>1, <1>2, <2>3 DEF Works, Live, Extraction!Working
  <2>5. r.pc \in Live
    BY <2>4 DEF Live, Extraction!Working
  <2> HIDE DEF r
  <2>6. Timed(r)
    BY <1>1, <1>2, <2>1, <2>4 DEF Timed, Live, Extraction!Working
  <2>7. extract_calls' + AiAttempts <= Budget(extract_job.attempts) + r.tries
    BY <1>1, <1>2, <1>3, <2>1, <2>2, <2>4
  <2>8. UNCHANGED <<extract_now, extract_settings, extract_job>> /\ extract_proposal' \in BOOLEAN
          /\ extract_calls' \in Nat
    BY <1>1, <1>5, <2>2 DEF Extraction!CallAgain
  <2> QED BY <1>1, <2>1, <2>2, <2>4, <2>5, <2>6, <2>7, <2>8, LiveStep
(* The other steps end the extraction, or go on with it. *)
<1>6. ASSUME NEW pc \in {"answered", "sleeping", "ending"}, NEW error \in Errors,
             extract_slot' = [extract_slot EXCEPT ![s].pc = pc, ![s].since = extract_now,
               ![s].error = error],
             UNCHANGED <<extract_now, extract_settings, extract_job, extract_calls>>,
               extract_proposal' \in BOOLEAN,
             w.pc \in Extraction!Working \/ (w.pc = "claimed" /\ pc = "ending"),
             pc = "sleeping" => w.tries < AiAttempts
      PROVE  ExtractionInv'
  <2> DEFINE r == [w EXCEPT !.pc = pc, !.since = extract_now, !.error = error]
  <2>1. extract_slot' = [extract_slot EXCEPT ![s] = r]
    BY <1>1, <1>6
  <2>2. r \in Works /\ r.pc = pc /\ r.since = extract_now /\ r.start = w.start /\ r.tries = w.tries
        /\ r.token = w.token
    BY <1>1, <1>2, <1>6 DEF Works, Live, Extraction!Working
  <2>3. r.pc \in Live /\ w.pc \in Live
    BY <1>6, <2>2 DEF Live, Extraction!Working
  <2> HIDE DEF r
  <2>4. Timed(r)
    BY <1>1, <1>2, <1>6, <2>2 DEF Timed, Live, Extraction!Working
  <2>5. extract_calls' + AiAttempts <= Budget(extract_job.attempts) + r.tries
    BY <1>3, <1>6, <2>2, <2>3
  <2> QED BY <1>1, <1>6, <2>1, <2>2, <2>3, <2>4, <2>5, LiveStep
<1>7. w.error \in Errors
  BY <1>1 DEF Works
<1>8. \A pc : Extraction!Moves(s, pc) => extract_slot' = [extract_slot EXCEPT ![s].pc = pc,
        ![s].since = extract_now, ![s].error = w.error]
  BY <1>1 DEF Extraction!Moves, Works
<1>9. CASE Extraction!Answers(s)
  BY <1>6, <1>7, <1>8, <1>9, <1>1 DEF Extraction!Answers, Extraction!Working
<1>10. CASE Extraction!Store(s)
  BY <1>6, <1>7, <1>8, <1>10 DEF Extraction!Store, Extraction!Working
<1>11. CASE Extraction!FailsForNow(s)
  <2>1. CASE Extraction!GivesUp(w.tries)
    BY <1>1, <1>6, <1>11, <2>1 DEF Extraction!FailsForNow, Extraction!Ends, Extraction!Working, Errors
  <2>2. CASE ~Extraction!GivesUp(w.tries)
    <3>1. w.tries < AiAttempts
      BY <1>2, <2>2 DEF Extraction!GivesUp
    <3> QED BY <1>1, <1>6, <1>7, <1>8, <1>11, <2>2, <3>1 DEF Extraction!FailsForNow, Extraction!Working
  <2> QED BY <2>1, <2>2
<1>12. CASE Extraction!Rejects(s)
  BY <1>1, <1>6, <1>12 DEF Extraction!Rejects, Extraction!Ends, Extraction!Working, Errors
<1>13. CASE Extraction!Fails(s)
  BY <1>1, <1>6, <1>13 DEF Extraction!Fails, Extraction!Ends, Extraction!Working, Errors
<1>14. CASE Extraction!TimesOut(s)
  BY <1>1, <1>6, <1>14 DEF Extraction!TimesOut, Extraction!Ends, Extraction!Working, Errors
<1> QED BY <1>4, <1>5, <1>9, <1>10, <1>11, <1>12, <1>13, <1>14

\* The clock waits for the slots that have to act.
LEMMA TickInv ==
  ASSUME Extraction!AttemptsAssumption, ExtractionInv, Extraction!Tick
  PROVE  ExtractionInv'
<1>1. extract_now' = extract_now + 1 /\ extract_now \in Nat
        /\ UNCHANGED <<extract_settings, extract_job, extract_slot, extract_proposal, extract_calls>>
  BY DEF Extraction!Tick, ExtractionInv, ExtractionTyped
<1>2. ExtractionTyped'
  BY <1>1 DEF ExtractionInv, ExtractionTyped, Extraction!Valid
<1>3. \A s \in Processes : Timed(extract_slot[s])'
  <2> SUFFICES ASSUME NEW s \in Processes PROVE Timed(extract_slot[s])'
    OBVIOUS
  <2>1. Extraction!MayWait(s) /\ Timed(extract_slot[s])
    BY DEF Extraction!Tick, ExtractionInv
  <2>2. /\ extract_slot[s].since \in Nat /\ extract_slot[s].start \in Nat /\ Stall \in Nat
        /\ Gap \in Nat
        /\ extract_settings.lease \in Nat /\ extract_settings.timeout \in Nat
        /\ extract_job.lease \in Nat
        /\ extract_slot[s].pc \in {"down", "idle"} \cup Live
    BY DurationsTyped DEF ExtractionInv, ExtractionTyped, Works, Rows
  <2>3. extract_slot'[s] = extract_slot[s]
    BY <1>1
  <2>4. CASE extract_slot[s].pc \in {"down", "idle"}
    <3>1. extract_now < extract_slot[s].since + Gap
      BY <2>1, <2>4 DEF Extraction!MayWait
    <3> QED BY <1>1, <2>1, <2>2, <2>3, <2>4, <3>1 DEF Timed, Extraction!Working
  <2>5. CASE extract_slot[s].pc \in {"claimed", "ending"}
    <3>1. extract_now < extract_slot[s].since + Stall
      BY <2>1, <2>5 DEF Extraction!MayWait
    <3> QED BY <1>1, <2>1, <2>2, <2>3, <2>5, <3>1 DEF Timed, Extraction!Working
  <2>6. CASE extract_slot[s].pc \in {"calling", "sleeping"}
    <3>1. extract_now < extract_slot[s].start + extract_settings.timeout + Stall
      BY <2>1, <2>6 DEF Extraction!MayWait
    <3> QED BY <1>1, <2>1, <2>2, <2>3, <2>6, <3>1 DEF Timed, Extraction!Working
  <2>7. CASE extract_slot[s].pc = "answered"
    <3>1. extract_now < extract_slot[s].since + Stall
            /\ extract_now < extract_slot[s].start + extract_settings.timeout + Stall
      BY <2>1, <2>7 DEF Extraction!MayWait
    <3> QED BY <1>1, <2>1, <2>2, <2>3, <2>7, <3>1 DEF Timed, Extraction!Working
  <2> QED BY <2>2, <2>4, <2>5, <2>6, <2>7 DEF Live, Extraction!Working
<1>4. \A s \in Processes : Counted(extract_slot[s])'
  BY <1>1 DEF ExtractionInv, Counted, Owns, Budget
<1>5. \A s \in Processes : Timed(extract_slot[s])' /\ Counted(extract_slot[s])'
  BY <1>3, <1>4
<1>6. OneLive' /\ (extract_calls <= Budget(extract_job.attempts))'
  BY <1>1 DEF ExtractionInv, OneLive, Budget
<1>7. Waits' /\ Recovers'
  BY <1>1 DEF ExtractionInv, Waits, Recovers, Attends, Spent
<1> QED BY <1>2, <1>5, <1>6, <1>7 DEF ExtractionInv

(* A slot that is back at rest polls now, and within the next Gap again.     *)
LEMMA IdleTyped ==
  ASSUME Extraction!AttemptsAssumption, ExtractionInv, NEW pc \in {"idle", "down"}
  PROVE  LET r == [Extraction!Idle EXCEPT !.pc = pc]
         IN  r \in Works /\ r.pc = pc /\ r.token = 0 /\ r.since = extract_now /\ r.start = 0 /\ Timed(r)
<1> DEFINE r == [Extraction!Idle EXCEPT !.pc = pc]
<1>1. r.pc = pc /\ r.token = 0 /\ r.since = extract_now /\ r.start = 0 /\ extract_now \in Nat
        /\ Gap \in Nat
  BY DurationsTyped DEF Extraction!Idle, ExtractionInv, ExtractionTyped
<1>2. r \in Works
  <2>1. 0 \in 0..AiAttempts
    BY DurationsTyped
  <2> QED BY <1>1, <2>1 DEF Extraction!Idle, Works, Errors
<1> HIDE DEF r
<1>3. Timed(r)
  BY <1>1 DEF Timed, Extraction!Working
<1> QED BY <1>1, <1>2, <1>3 DEF r

\* A slot without a job is in the phase idle.
LEMMA IdleIsIdle == Extraction!Idle = [Extraction!Idle EXCEPT !.pc = "idle"]
BY DEF Extraction!Idle

\* A process that dies leaves its claim behind, and the lease runs on.
LEMMA DieInv ==
  ASSUME Extraction!AttemptsAssumption, ExtractionInv, NEW s \in Processes, Extraction!Die(s)
  PROVE  ExtractionInv'
<1> DEFINE r == [Extraction!Idle EXCEPT !.pc = "down"]
<1>1. r \in Works /\ r.pc = "down" /\ r.token = 0 /\ r.since = extract_now /\ Timed(r)
  BY IdleTyped
<1>2. extract_slot' = [extract_slot EXCEPT ![s] = r] /\ UNCHANGED <<extract_now, extract_settings,
        extract_job, extract_proposal, extract_calls>>
  BY DEF Extraction!Die
<1> HIDE DEF r
<1>3. extract_slot[s].pc \in Live
  BY DEF Extraction!Die, ExtractionInv, ExtractionTyped, Works
<1>4. extract_job \in Rows /\ extract_job.status = "running" /\ extract_job.lease > extract_now
  BY <1>3, LiveHolds DEF Extraction!Holds, ExtractionInv, ExtractionTyped
<1>5. Waits'
  BY <1>2, <1>4 DEF Waits
<1>6. Recovers'
  <2>1. extract_slot'[s] = r /\ extract_now \in Nat /\ extract_job.lease \in Nat
    BY <1>2, <1>4 DEF ExtractionInv, ExtractionTyped, Rows
  <2>2. \E t \in Processes : extract_slot'[t].pc = "down" /\ extract_slot'[t].since <= extract_job.lease
    BY <1>1, <1>4, <2>1
  <2> QED BY <1>2, <1>4, <2>2 DEF Recovers, Attends, Spent, ExtractionInv
<1> QED BY <1>1, <1>2, <1>4, <1>5, <1>6, RestStep

\* A slot that comes up again keeps the invariant.
LEMMA RestartInv ==
  ASSUME Extraction!AttemptsAssumption, ExtractionInv, NEW s \in Processes, Extraction!Restart(s)
  PROVE  ExtractionInv'
<1> DEFINE r == [Extraction!Idle EXCEPT !.pc = "idle"]
<1>1. r \in Works /\ r.pc = "idle" /\ r.token = 0 /\ r.since = extract_now /\ Timed(r)
  BY IdleTyped
<1>2. extract_slot' = [extract_slot EXCEPT ![s] = r] /\ UNCHANGED <<extract_now, extract_settings,
        extract_job, extract_proposal, extract_calls>>
  BY IdleIsIdle DEF Extraction!Restart
<1> HIDE DEF r
<1>3. extract_slot[s].pc = "down" /\ extract_slot[s] \in Works
        /\ extract_now <= extract_slot[s].since + Gap /\ extract_job \in Rows
  BY DEF Extraction!Restart, ExtractionInv, ExtractionTyped, Timed
<1>4. extract_slot'[s] = r /\ \A t \in Processes : t # s => extract_slot'[t] = extract_slot[t]
  BY <1>2 DEF ExtractionInv, ExtractionTyped
<1>5. Waits'
  <2>1. ASSUME extract_job.status = "waiting"
        PROVE  \E t \in Processes : extract_slot'[t].pc = "idle"
               /\ extract_slot'[t].since <= extract_job.available
    <3>1. PICK t \in Processes : extract_slot[t].pc = "idle"
            /\ extract_slot[t].since <= extract_job.available
      BY <2>1 DEF ExtractionInv, Waits
    <3> QED BY <1>3, <1>4, <3>1
  <2> QED BY <1>2, <2>1 DEF ExtractionInv, Waits, Spent
<1>6. Recovers'
  <2>1. ASSUME extract_job.status = "running"
        PROVE  \E t \in Processes : Attends(extract_slot'[t])
    <3>0. Recovers
      BY DEF ExtractionInv
    <3>1. PICK t \in Processes : Attends(extract_slot[t])
      BY <2>1, <3>0 DEF Recovers
    <3>2. CASE t # s
      BY <1>4, <3>1, <3>2
    <3>3. CASE t = s
      <4>1. extract_slot[s].since <= extract_job.lease
        BY <1>3, <3>1, <3>3 DEF Attends, Live, Extraction!Working
      <4>2. extract_slot[s].since \in Nat /\ extract_job.lease \in Nat /\ Gap \in Nat
              /\ extract_now \in Nat
        BY <1>3, DurationsTyped DEF Works, Rows, ExtractionInv, ExtractionTyped
      <4>3. extract_slot'[s].pc = "idle" /\ extract_slot'[s].since <= extract_job.lease + Gap
        BY <1>1, <1>3, <1>4, <4>1, <4>2
      <4> QED BY <4>3 DEF Attends
    <3> QED BY <3>2, <3>3
  <2> QED BY <1>2, <2>1 DEF ExtractionInv, Recovers, Spent, Attends
<1> QED BY <1>1, <1>2, <1>3, <1>5, <1>6, RestStep

(* An outcome is written by the slot that holds the lease, and each does.    *)
LEMMA FinishInv ==
  ASSUME Extraction!AttemptsAssumption, ExtractionInv, NEW s \in Processes, Extraction!Finish(s)
  PROVE  ExtractionInv'
<1> DEFINE r == [Extraction!Idle EXCEPT !.pc = "idle"]
<1>1. r \in Works /\ r.pc = "idle" /\ r.token = 0 /\ r.since = extract_now /\ Timed(r)
  BY IdleTyped
<1>2. extract_slot' = [extract_slot EXCEPT ![s] = r] /\ UNCHANGED <<extract_now, extract_settings,
        extract_proposal, extract_calls>>
  BY IdleIsIdle DEF Extraction!Finish
<1> HIDE DEF r
<1>3. extract_slot[s].pc \in Live /\ Extraction!Holds(s)
  BY LiveHolds DEF Extraction!Finish, Live
<1>4. /\ extract_job \in Rows /\ extract_job.attempts \in 0..MaxAttempts /\ extract_job.attempts > 0
      /\ extract_now \in Nat /\ extract_job.lease \in Nat /\ extract_job.lease > extract_now
      /\ extract_settings.lease \in Nat
      /\ extract_job.lease <= Spent(extract_job.attempts - 1) + Gap + extract_settings.lease
  BY <1>3, DurationsTyped DEF ExtractionInv, ExtractionTyped, Rows, Extraction!Holds, Recovers
<1>5. extract_slot'[s] = r /\ \A t \in Processes : t # s => extract_slot[t].pc \notin Live
  BY <1>2, <1>3 DEF ExtractionInv, ExtractionTyped, OneLive
<1>6. CASE \E status \in {"succeeded", "dead_letter"} : extract_job'
        = [extract_job EXCEPT !.status = status]
  <2>1. extract_job' \in Rows /\ extract_job'.attempts = extract_job.attempts
          /\ extract_job'.status \notin {"waiting", "running"}
    BY <1>4, <1>6 DEF Rows
  <2>2. Waits' /\ Recovers'
    BY <2>1 DEF Waits, Recovers
  <2> QED BY <1>1, <1>2, <1>5, <2>1, <2>2, RestStep
<1>7. CASE ~Extraction!Exhausted(extract_job) /\ \E d \in Extraction!Delays(extract_job.attempts) :
             extract_job' = [extract_job EXCEPT !.status = "waiting", !.available = extract_now + d]
  <2>1. PICK d \in Extraction!Delays(extract_job.attempts) :
             extract_job' = [extract_job EXCEPT !.status = "waiting", !.available = extract_now + d]
    BY <1>7
  <2>2. d \in Nat /\ d <= MaxBackoff
    BY <1>4, DelaysBounded
  <2>3. extract_job' \in Rows /\ extract_job'.attempts = extract_job.attempts
          /\ extract_job'.status = "waiting"
        /\ extract_job'.available = extract_now + d
    <3>1. extract_now + d \in Nat
      BY <1>4, <2>2
    <3> QED BY <1>4, <2>1, <3>1 DEF Rows
  <2>4. extract_job.attempts < MaxAttempts
    BY <1>4, <1>7, DurationsTyped DEF Extraction!Exhausted
  <2>5. extract_now + d <= Spent(extract_job.attempts)
    <3>1. extract_job.attempts - 1 \in Nat /\ (extract_job.attempts - 1) + 1 = extract_job.attempts
      BY <1>4
    <3>2. /\ Spent(extract_job.attempts - 1) \in Nat
          /\ Spent(extract_job.attempts)
                 = Spent(extract_job.attempts - 1) + extract_settings.lease + 3 * Gap + MaxBackoff
      BY <1>4, <3>1, SpentGrows
    <3> QED BY <1>4, <2>2, <3>2, DurationsTyped
  <2>6. Waits'
    <3>1. Spent(extract_job.attempts)' = Spent(extract_job.attempts)
      BY <1>2, <2>3 DEF Spent
    <3>2. extract_slot'[s].pc = "idle" /\ extract_slot'[s].since <= extract_job'.available
      BY <1>1, <1>4, <1>5, <2>2, <2>3
    <3>3. extract_job'.attempts < MaxAttempts /\ extract_job'.available <= Spent(extract_job.attempts)'
      BY <2>3, <2>4, <2>5, <3>1
    <3> QED BY <3>2, <3>3 DEF Waits
  <2>7. Recovers'
    BY <2>3 DEF Recovers
  <2> QED BY <1>1, <1>2, <1>5, <2>3, <2>6, <2>7, RestStep
<1> QED BY <1>3, <1>6, <1>7 DEF Extraction!Finish

(* A job without a slot is claimed, no later than a Gap after it is due.     *)
LEMMA ClaimStep ==
  ASSUME Extraction!AttemptsAssumption, ExtractionInv, NEW s \in Processes, NEW j \in Rows,
         j.status = "waiting", j.attempts = extract_job.attempts, j.attempts < MaxAttempts,
         j.available <= Spent(extract_job.attempts), extract_now <= j.available + Gap,
         \A t \in Processes : extract_slot[t].pc \notin Live,
         extract_job' = [j EXCEPT !.status = "running", !.attempts = @ + 1,
                          !.lease = extract_now + extract_settings.lease],
         extract_slot' = [extract_slot EXCEPT ![s] = [Extraction!Idle EXCEPT !.pc = "claimed",
           !.token = j.attempts + 1]],
         UNCHANGED <<extract_now, extract_settings, extract_proposal, extract_calls>>
  PROVE  ExtractionInv'
<1> DEFINE r == [Extraction!Idle EXCEPT !.pc = "claimed", !.token = j.attempts + 1]
<1>1. /\ extract_now \in Nat /\ extract_settings.lease \in Nat /\ j.attempts \in Nat
      /\ j.available \in Nat
      /\ extract_job.attempts \in Nat /\ extract_calls \in Nat /\ MaxAttempts \in Nat
      /\ AiAttempts \in Nat
      /\ Stall \in Nat /\ Gap \in Nat
  BY DurationsTyped DEF ExtractionInv, ExtractionTyped, Rows
<1>2. /\ extract_job' \in Rows /\ extract_job'.status = "running"
      /\ extract_job'.attempts = extract_job.attempts + 1
      /\ extract_job'.lease = extract_now + extract_settings.lease
  <2>1. j.attempts + 1 \in 0..MaxAttempts /\ extract_now + extract_settings.lease \in Nat
    BY <1>1
  <2> QED BY <1>1, <2>1 DEF Rows
<1>3. r.pc = "claimed" /\ r.since = extract_now /\ r.start = 0 /\ r.token = extract_job.attempts + 1
        /\ r.tries = 0
  BY DEF Extraction!Idle
<1>4. r \in Works
  <2>1. 0 \in 0..AiAttempts /\ "claimed" \in {"down", "idle"} \cup Live /\ j.attempts + 1 \in Nat
    BY <1>1 DEF Live
  <2> QED BY <1>1, <2>1 DEF Extraction!Idle, Works, Errors
<1> HIDE DEF r
<1>5. extract_slot'[s] = r /\ \A t \in Processes : t # s => extract_slot'[t] = extract_slot[t]
  BY DEF ExtractionInv, ExtractionTyped, r
<1>6. ExtractionTyped'
  BY <1>2, <1>4 DEF ExtractionInv, ExtractionTyped, Extraction!Valid, r
<1>7. Budget(extract_job.attempts)' = Budget(extract_job.attempts) + AiAttempts
  BY <1>1, <1>2, BudgetGrows DEF Budget
<1>8. extract_calls <= Budget(extract_job.attempts) /\ Budget(extract_job.attempts) \in Nat
  BY <1>1, BudgetGrows DEF ExtractionInv
<1>9. extract_slot'[s].pc = "claimed" /\ extract_slot'[s].since = extract_now
        /\ extract_slot'[s].token = extract_job.attempts + 1
      /\ extract_slot'[s].tries = 0 /\ extract_now' = extract_now
      /\ extract_settings' = extract_settings /\ extract_calls' = extract_calls
  BY <1>3, <1>5
<1>9a. Timed(extract_slot[s])'
  BY <1>1, <1>2, <1>9 DEF Timed, Extraction!Working
<1>10. Counted(extract_slot[s])'
  BY <1>1, <1>2, <1>7, <1>8, <1>9 DEF Counted, Owns
<1>11. ASSUME NEW t \in Processes, t # s PROVE Timed(extract_slot[t])' /\ Counted(extract_slot[t])'
  <2>1. extract_slot'[t] = extract_slot[t] /\ Timed(extract_slot[t]) /\ Counted(extract_slot[t])
          /\ extract_slot[t].pc \notin Live
        /\ extract_slot[t].token \in Nat
    BY <1>5, <1>11 DEF ExtractionInv, ExtractionTyped, Works
  <2>2. Timed(extract_slot[t])'
    BY <2>1 DEF Timed, Live
  <2>3. Counted(extract_slot[t])'
    <3>1. extract_slot'[t].token <= extract_job'.attempts /\ extract_slot'[t].pc \notin Live
      <4>1. extract_slot[t].token <= extract_job.attempts
        BY <2>1 DEF Counted
      <4>2. extract_slot[t].token <= extract_job.attempts + 1
        BY <1>1, <2>1, <4>1
      <4> QED BY <1>2, <2>1, <4>2
    <3> QED BY <3>1 DEF Counted, Live, Extraction!Working
  <2> QED BY <2>2, <2>3
<1>12. \A t \in Processes : Timed(extract_slot[t])' /\ Counted(extract_slot[t])'
  BY <1>9a, <1>10, <1>11
<1>13. OneLive'
  BY <1>5 DEF OneLive
<1>14. (extract_calls <= Budget(extract_job.attempts))'
  BY <1>1, <1>7, <1>8
<1>15. Waits'
  BY <1>2 DEF Waits
<1>16. Recovers'
  <2>1. Spent(extract_job.attempts - 1)' = Spent(extract_job.attempts)
    BY <1>1, <1>2 DEF Spent
  <2>2. Spent(extract_job.attempts) \in Nat
    BY <1>1, SpentGrows
  <2>3. extract_job'.lease <= Spent(extract_job.attempts - 1)' + Gap + extract_settings.lease
    BY <1>1, <1>2, <2>1, <2>2
  <2>4. extract_slot'[s].pc \in Live
    BY <1>3, <1>5 DEF Live
  <2> QED BY <1>1, <1>2, <2>3, <2>4 DEF Recovers, Attends
<1> QED BY <1>6, <1>12, <1>13, <1>14, <1>15, <1>16 DEF ExtractionInv

(* A poll recovers a lapsed lease and claims what is due; while a slot works *)
(* on the job the lease has not lapsed and the poll finds nothing.           *)
LEMMA PollInv ==
  ASSUME Extraction!AttemptsAssumption, ExtractionInv, NEW s \in Processes, Extraction!Poll(s)
  PROVE  ExtractionInv'
<1> DEFINE r == [Extraction!Idle EXCEPT !.pc = "idle"]
<1>1. r \in Works /\ r.pc = "idle" /\ r.token = 0 /\ r.since = extract_now /\ Timed(r)
  BY IdleTyped
<1>2. /\ UNCHANGED <<extract_now, extract_settings, extract_proposal, extract_calls>>
      /\ extract_job \in Rows /\ extract_job.attempts \in Nat /\ extract_job.lease \in Nat
      /\ extract_job.available \in Nat
      /\ extract_now \in Nat /\ extract_settings.lease \in Nat /\ Gap \in Nat /\ MaxAttempts \in Nat
  BY DurationsTyped DEF Extraction!Poll, ExtractionInv, ExtractionTyped, Rows
<1>3. Waits /\ Recovers /\ extract_slot[s].pc = "idle" /\ extract_slot[s].pc \notin Live
  BY DEF Extraction!Poll, ExtractionInv, Live, Extraction!Working
<1>4. PICK j \in Extraction!Recovered :
        IF Extraction!Due(j)
        THEN /\ extract_job' = [j EXCEPT !.status = "running", !.attempts = @ + 1,
                                 !.lease = extract_now + extract_settings.lease]
             /\ extract_slot' = [extract_slot EXCEPT ![s] =
                   [Extraction!Idle EXCEPT !.pc = "claimed", !.token = j.attempts + 1]]
        ELSE /\ extract_job' = j
             /\ extract_slot' = [extract_slot EXCEPT ![s] = r]
  BY IdleIsIdle DEF Extraction!Poll
<1> HIDE DEF r
(* Nothing happens to a job that a slot works on, or that is settled. *)
<1>5. ASSUME j = extract_job, ~Extraction!Due(extract_job) PROVE ExtractionInv'
  <2>1. extract_job' = extract_job /\ extract_slot' = [extract_slot EXCEPT ![s] = r]
    BY <1>4, <1>5
  <2>2. extract_slot'[s] = r /\ \A t \in Processes : t # s => extract_slot'[t] = extract_slot[t]
    BY <2>1 DEF ExtractionInv, ExtractionTyped
  <2>3. Waits'
    <3>1. ASSUME extract_job.status = "waiting"
          PROVE  extract_slot'[s].pc = "idle" /\ extract_slot'[s].since <= extract_job.available
      BY <1>1, <1>2, <1>3, <1>5, <2>2, <3>1 DEF Extraction!Due, Waits
    <3> QED BY <1>2, <1>3, <2>1, <3>1 DEF Waits, Spent
  <2>4. Recovers'
    <3>1. ASSUME extract_job.status = "running"
          PROVE  \E t \in Processes : Attends(extract_slot'[t])
      <4>1. PICK t \in Processes : Attends(extract_slot[t])
        BY <1>3, <3>1 DEF Recovers
      <4>2. CASE t # s
        BY <2>2, <4>1, <4>2
      <4>3. CASE t = s /\ Extraction!Lapsed
        <5>1. extract_job \notin Extraction!Recovered
          <6>1. \A k \in Extraction!Recovered : k.status # "running"
            <7>1. CASE extract_job.attempts >= MaxAttempts
              BY <1>2, <4>3, <7>1 DEF Extraction!Recovered, Rows
            <7>2. CASE ~(extract_job.attempts >= MaxAttempts)
              BY <1>2, <4>3, <7>2 DEF Extraction!Recovered, Rows
            <7> QED BY <7>1, <7>2
          <6> QED BY <3>1, <6>1
        <5> QED BY <1>5, <5>1
      <4>4. CASE t = s /\ ~Extraction!Lapsed
        <5>1. extract_job.lease > extract_now
          BY <1>2, <3>1, <4>4 DEF Extraction!Lapsed
        <5>2. Attends(extract_slot'[s])
          BY <1>1, <1>2, <2>2, <5>1 DEF Attends
        <5> QED BY <5>2
      <4> QED BY <4>2, <4>3, <4>4
    <3> QED BY <1>2, <1>3, <2>1, <3>1 DEF Recovers, Spent, Attends
  <2> QED BY <1>1, <1>2, <2>1, <2>3, <2>4, RestStep
<1>6. CASE \E t \in Processes : extract_slot[t].pc \in Live
  <2>1. extract_job.status = "running" /\ extract_job.lease > extract_now
    BY <1>6, LiveHolds DEF Extraction!Holds
  <2>2. ~Extraction!Lapsed
    BY <1>2, <2>1 DEF Extraction!Lapsed
  <2>3. j = extract_job
    BY <2>2 DEF Extraction!Recovered
  <2> QED BY <1>5, <2>1, <2>3 DEF Extraction!Due
<1>7. CASE (\A t \in Processes : extract_slot[t].pc \notin Live) /\ ~Extraction!Lapsed
  <2>1. j = extract_job
    BY <1>7 DEF Extraction!Recovered
  <2>2. CASE Extraction!Due(extract_job)
    <3>1. PICK t \in Processes : extract_slot[t].pc = "idle"
            /\ extract_slot[t].since <= extract_job.available
      BY <1>3, <2>2 DEF Waits, Extraction!Due
    <3>2. extract_now <= extract_slot[t].since + Gap /\ extract_slot[t].since \in Nat
      BY <3>1 DEF ExtractionInv, Timed, ExtractionTyped, Works
    <3>3. extract_now <= extract_job.available + Gap
      BY <1>2, <3>1, <3>2
    <3>4. extract_job.status = "waiting" /\ extract_job.attempts < MaxAttempts
            /\ extract_job.available <= Spent(extract_job.attempts)
      BY <1>3, <2>2 DEF Waits, Extraction!Due
    <3> QED BY <1>2, <1>4, <1>7, <2>1, <2>2, <3>3, <3>4, ClaimStep
  <2> QED BY <1>5, <2>1, <2>2
<1>8. CASE (\A t \in Processes : extract_slot[t].pc \notin Live) /\ Extraction!Lapsed
  <2>1. extract_job.status = "running"
    BY <1>8 DEF Extraction!Lapsed
  <2>2. CASE extract_job.attempts >= MaxAttempts
    <3>1. j = [extract_job EXCEPT !.status = "dead_letter"]
      BY <1>8, <2>2 DEF Extraction!Recovered
    <3>2. j \in Rows /\ j.attempts = extract_job.attempts /\ j.status = "dead_letter"
      BY <1>2, <3>1 DEF Rows
    <3>3. extract_job' = j /\ extract_slot' = [extract_slot EXCEPT ![s] = r]
      BY <1>4, <3>2 DEF Extraction!Due
    <3>4. Waits' /\ Recovers'
      BY <3>2, <3>3 DEF Waits, Recovers
    <3> QED BY <1>1, <1>2, <1>8, <3>2, <3>3, <3>4, RestStep
  <2>3. CASE extract_job.attempts < MaxAttempts
    <3>1. PICK d \in Extraction!Delays(extract_job.attempts) :
            j = [extract_job EXCEPT !.status = "waiting", !.available = extract_now + d]
      <4>1. ~(extract_job.attempts >= MaxAttempts)
        BY <1>2, <2>3
      <4> QED BY <1>8, <4>1 DEF Extraction!Recovered
    <3>2. d \in Nat /\ d <= MaxBackoff /\ extract_now + d \in Nat /\ MaxBackoff \in Nat
      BY <1>2, DelaysBounded, DurationsTyped
    <3>3. j \in Rows /\ j.attempts = extract_job.attempts /\ j.status = "waiting"
            /\ j.available = extract_now + d
      BY <1>2, <3>1, <3>2 DEF Rows
    <3>4. extract_now <= extract_job.lease + 2 * Gap
      <4>1. PICK t \in Processes : Attends(extract_slot[t])
        BY <1>3, <2>1 DEF Recovers
      <4>2. extract_now <= extract_slot[t].since + Gap /\ extract_slot[t].since \in Nat
              /\ extract_slot[t].since <= extract_job.lease + Gap
        <5>1. extract_slot[t].pc \in {"down", "idle"} /\ extract_slot[t].since \in Nat
                /\ Timed(extract_slot[t])
          BY <1>8, <4>1 DEF Attends, ExtractionInv, ExtractionTyped, Works
        <5> QED BY <1>2, <1>8, <4>1, <5>1 DEF Attends, Timed
      <4> QED BY <1>2, <4>2
    <3>5. extract_now + d <= Spent(extract_job.attempts)
      <4>1. extract_job.attempts > 0 /\ extract_job.lease <= Spent(extract_job.attempts - 1) + Gap + extract_settings.lease
        BY <1>3, <2>1 DEF Recovers
      <4>2. extract_job.attempts - 1 \in Nat /\ (extract_job.attempts - 1) + 1 = extract_job.attempts
        BY <1>2, <4>1
      <4>3. /\ Spent(extract_job.attempts - 1) \in Nat
            /\ Spent(extract_job.attempts)
                   = Spent(extract_job.attempts - 1) + extract_settings.lease + 3 * Gap + MaxBackoff
        BY <1>2, <4>2, SpentGrows
      <4> QED BY <1>2, <3>2, <3>4, <4>1, <4>3
    <3>6. CASE Extraction!Due(j)
      <4>1. extract_now <= j.available + Gap
        BY <1>2, <3>2, <3>3
      <4> QED BY <1>2, <1>4, <1>8, <2>3, <3>3, <3>5, <3>6, <4>1, ClaimStep
    <3>7. CASE ~Extraction!Due(j)
      <4>1. extract_job' = j /\ extract_slot' = [extract_slot EXCEPT ![s] = r]
        BY <1>4, <3>7
      <4>2. extract_slot'[s] = r
        BY <4>1 DEF ExtractionInv, ExtractionTyped
      <4>3. Spent(extract_job.attempts)' = Spent(extract_job.attempts)
        BY <1>2, <3>3, <4>1 DEF Spent
      <4>4. Waits'
        <5>1. extract_slot'[s].pc = "idle" /\ extract_slot'[s].since <= extract_job'.available
          BY <1>1, <1>2, <3>2, <3>3, <4>1, <4>2
        <5> QED BY <2>3, <3>3, <3>5, <4>1, <4>3, <5>1 DEF Waits
      <4>5. Recovers'
        BY <3>3, <4>1 DEF Recovers
      <4> QED BY <1>1, <1>2, <1>8, <3>3, <4>1, <4>4, <4>5, RestStep
    <3> QED BY <3>6, <3>7
  <2> QED BY <1>2, <2>2, <2>3
<1> QED BY <1>6, <1>7, <1>8

\* Every step keeps the invariant.
LEMMA ExtractionNext ==
  ASSUME Extraction!AttemptsAssumption, ExtractionInv, [Extraction!Next]_(Extraction!vars)
  PROVE  ExtractionInv'
<1>1. CASE Extraction!Tick
  BY <1>1, TickInv
<1>2. ASSUME NEW s \in Processes, Extraction!Step(s) PROVE ExtractionInv'
  BY <1>2, PollInv, LiveStepInv, FinishInv, DieInv, RestartInv DEF Extraction!Step
<1>3. CASE UNCHANGED Extraction!vars
  BY <1>3 DEF Extraction!vars, ExtractionInv, ExtractionTyped, Extraction!Valid, Timed, Counted,
     Owns, Budget, OneLive, Waits, Recovers,
             Attends, Spent
<1> QED BY <1>1, <1>2, <1>3 DEF Extraction!Next

(* In every reachable state of one job and its slots: every phase is as old  *)
(* as it may be, one slot at most works, and the waiting job is looked after. *)
THEOREM ExtractionInvariance ==
  ASSUME Extraction!AttemptsAssumption
  PROVE  Extraction!Spec => []ExtractionInv
<1>1. Extraction!Init => ExtractionInv
  BY ExtractionInit
<1>2. ExtractionInv /\ [Extraction!Next]_(Extraction!vars) => ExtractionInv'
  BY ExtractionNext
<1> QED BY <1>1, <1>2, PTL DEF Extraction!Spec

\* What the invariant says of the properties.
LEMMA ExtractionConsequences ==
  ASSUME Extraction!AttemptsAssumption, ExtractionInv
  PROVE  Extraction!TypeOK /\ Extraction!NoOverlap /\ Extraction!EndsWithinLease
         /\ Extraction!BoundedCalls /\ Extraction!SettledByDeadline
<1>1. Extraction!TypeOK
  <2>1. /\ extract_now \in Nat /\ extract_settings.lease \in Leases
        /\ extract_settings.timeout \in Timeouts
        /\ extract_job.status \in {"waiting", "running", "succeeded", "dead_letter"}
        /\ extract_job.attempts \in 0..MaxAttempts /\ extract_job.lease \in Nat
        /\ extract_job.available \in Nat
        /\ extract_proposal \in BOOLEAN /\ extract_calls \in Nat
    BY DEF ExtractionInv, ExtractionTyped, Rows
  <2>2. ASSUME NEW s \in Processes
        PROVE  /\ extract_slot[s].pc \in {"down", "idle", "claimed", "ending"} \cup Extraction!Working
               /\ extract_slot[s].token \in 0..extract_job.attempts
               /\ extract_slot[s].tries \in 0..AiAttempts
               /\ extract_slot[s].error \in Errors
    <3>1. extract_slot[s] \in Works /\ extract_slot[s].token <= extract_job.attempts
      BY DEF ExtractionInv, ExtractionTyped, Counted
    <3> QED BY <2>1, <3>1 DEF Works, Live
  <2> QED BY <2>1, <2>2 DEF Extraction!TypeOK, Errors
<1>2. Extraction!NoOverlap
  BY DEF Extraction!NoOverlap, ExtractionInv, OneLive, Live
<1>3. Extraction!EndsWithinLease
  BY LiveHolds DEF Extraction!EndsWithinLease, Live
<1>4. Extraction!BoundedCalls
  <2>1. extract_job.attempts \in Nat /\ extract_job.attempts <= MaxAttempts
          /\ extract_calls <= Budget(extract_job.attempts)
        /\ extract_calls \in Nat /\ MaxAttempts \in Nat /\ AiAttempts \in Nat
    BY DurationsTyped DEF ExtractionInv, ExtractionTyped, Rows
  <2>2. Budget(extract_job.attempts) \in Nat /\ Budget(extract_job.attempts) <= MaxAttempts * AiAttempts
    BY <2>1, BudgetGrows
  <2>3. MaxAttempts * AiAttempts \in Nat
    BY <2>1
  <2> QED BY <2>1, <2>2, <2>3 DEF Extraction!BoundedCalls
<1>5. Extraction!SettledByDeadline
  <2>1. /\ extract_job.attempts \in Nat /\ extract_job.attempts <= MaxAttempts
        /\ MaxAttempts \in Nat /\ Gap \in Nat
        /\ extract_now \in Nat /\ extract_job.lease \in Nat /\ extract_job.available \in Nat
        /\ extract_settings.lease \in Nat
        /\ extract_job.status \in {"waiting", "running", "succeeded", "dead_letter"}
        /\ Waits /\ Recovers
    BY DurationsTyped DEF ExtractionInv, ExtractionTyped, Rows
  <2>2. ASSUME extract_job.status = "waiting" PROVE extract_now <= Extraction!Deadline
    <3>1. PICK t \in Processes : extract_slot[t].pc = "idle"
            /\ extract_slot[t].since <= extract_job.available
      BY <2>1, <2>2 DEF Waits
    <3>2. extract_now <= extract_slot[t].since + Gap /\ extract_slot[t].since \in Nat
      BY <3>1 DEF ExtractionInv, Timed, ExtractionTyped, Works
    <3>3. extract_job.attempts < MaxAttempts /\ extract_job.available <= Spent(extract_job.attempts)
      BY <2>1, <2>2 DEF Waits
    <3>4. Spent(extract_job.attempts) \in Nat
            /\ Spent(extract_job.attempts) + Gap <= Extraction!Deadline
      BY <2>1, <3>3, SpentGrows
    <3>5. Extraction!Deadline \in Int
      BY <2>1, DurationsTyped DEF Extraction!Deadline
    <3> QED BY <2>1, <3>1, <3>2, <3>3, <3>4, <3>5
  <2>3. ASSUME extract_job.status = "running" PROVE extract_now <= Extraction!Deadline
    <3>1. extract_job.attempts > 0 /\ extract_job.lease <= Spent(extract_job.attempts - 1) + Gap + extract_settings.lease
      BY <2>1, <2>3 DEF Recovers
    <3>2. extract_now <= extract_job.lease + 2 * Gap
      <4>1. PICK t \in Processes : Attends(extract_slot[t])
        BY <2>1, <2>3 DEF Recovers
      <4>2. extract_slot[t].pc \in {"down", "idle"} \cup Live /\ extract_slot[t].since \in Nat
              /\ Timed(extract_slot[t])
        BY DEF ExtractionInv, ExtractionTyped, Works
      <4>3. CASE extract_slot[t].pc \in Live
        BY <2>1, <4>3, LiveHolds DEF Extraction!Holds
      <4>4. CASE extract_slot[t].pc \notin Live
        BY <2>1, <4>1, <4>2, <4>4 DEF Attends, Timed
      <4> QED BY <4>3, <4>4
    <3>3. extract_job.attempts - 1 \in Nat /\ (extract_job.attempts - 1) + 1 <= MaxAttempts
      BY <2>1, <3>1
    <3>4. /\ Spent(extract_job.attempts - 1) \in Nat
          /\ Spent(extract_job.attempts - 1) + extract_settings.lease + 3 * Gap <= Extraction!Deadline
      BY <2>1, <3>3, SpentGrows
    <3>5. Extraction!Deadline \in Int
      BY <2>1, DurationsTyped DEF Extraction!Deadline
    <3> QED BY <2>1, <3>1, <3>2, <3>4, <3>5
  <2>4. Extraction!Deadline \in Int
    BY <2>1, DurationsTyped DEF Extraction!Deadline
  <2> QED BY <2>1, <2>2, <2>3, <2>4 DEF Extraction!SettledByDeadline, Extraction!Settled
<1> QED BY <1>1, <1>2, <1>3, <1>4, <1>5

-----------------------------------------------------------------------------
(* What the answers are worth *)

\* A row says what its answer lacks, and is approved only if that allows it.
Reviewed(p) ==
    /\ p \in Review!Row
    /\ p.reasons = Review!Reasons(p.event)
    /\ p.status \in {"approved", "reconciliation_review"} => Review!Approvable(p.event)
    /\ p.status = "reconciliation_review" => p.event.kind \in Review!TransactionKinds
    /\ p.target # None <=> p.status = "approved"

ReviewInv ==
    /\ review_running \subseteq Processes
    /\ review_raw \in {"needs_review", "processed"}
    /\ review_error \in {None, "AI_ERROR", "POSSIBLE_DUPLICATE", "USER_REJECTED"}
    /\ review_proposal # None => Reviewed(review_proposal)
    /\ review_raw = "processed" <=> (review_proposal # None /\ review_proposal.status = "approved")

\* The row an answer is stored as.
LEMMA FreshReviewed ==
  ASSUME Review!ProposalsAssumption, NEW a \in Replies, Review!SchemaValid(a)
  PROVE  Review!Fresh(a) # None /\ Reviewed(Review!Fresh(a)) /\ Review!Fresh(a).status = "needs_review"
<1>1. Review!Fresh(a) \in Review!Row
  BY DEF Review!Fresh, Review!Row
<1>2. Review!Fresh(a).event = a /\ Review!Fresh(a).reasons = Review!Reasons(a)
        /\ Review!Fresh(a).status = "needs_review"
      /\ Review!Fresh(a).target = None
  BY DEF Review!Fresh
<1>3. Review!Fresh(a) # None
  BY <1>1 DEF Review!ProposalsAssumption
<1>4. Reviewed(Review!Fresh(a))
  BY <1>1, <1>2 DEF Reviewed
<1> QED BY <1>2, <1>3, <1>4

\* The target of a proposal has its type.
LEMMA TargetTyped ==
  ASSUME Review!ProposalsAssumption, NEW a \in Replies, Review!Approvable(a)
  PROVE  Review!TargetOf(a) \in ({"transaction", "recurring"} \cup Review!ObligationKinds)
         /\ Review!TargetOf(a) # None
BY DEF Review!TargetOf, Review!Approvable, Review!TransactionKinds, Review!ObligationKinds,
   Review!ProposalsAssumption

\* The invariant holds before the model has answered.
LEMMA ReviewInit == Review!Init => ReviewInv
BY DEF Review!Init, ReviewInv

(* Every step keeps the invariant, the answer under review, and a decision.  *)
LEMMA ReviewNext ==
  ASSUME Review!ProposalsAssumption, ReviewInv, [Review!Next]_(Review!vars)
  PROVE  ReviewInv' /\ (review_proposal # None =>
                     /\ review_proposal' # None /\ review_proposal'.event = review_proposal.event
                     /\ review_proposal.status # "needs_review"
                          => review_proposal'.status # "needs_review")
<1> DEFINE Goal == ReviewInv' /\ (review_proposal # None =>
                     /\ review_proposal' # None /\ review_proposal'.event = review_proposal.event
                     /\ review_proposal.status # "needs_review"
                          => review_proposal'.status # "needs_review")
<1>0. review_proposal # None => review_proposal \in Review!Row /\ review_proposal.event \in Replies
        /\ review_proposal = [review_proposal EXCEPT !.status = review_proposal.status,
             !.target = review_proposal.target]
  BY DEF ReviewInv, Reviewed, Review!Row
<1>1. ASSUME NEW e \in Processes, Review!Ask(e) \/ Review!ExtractionFails(e) PROVE Goal
  BY <1>1 DEF Review!Ask, Review!ExtractionFails, ReviewInv
<1>2. ASSUME NEW e \in Processes, NEW a \in Replies, Review!Extracted(e, a) PROVE Goal
  <2>1. CASE review_proposal = None
    <3>1. review_proposal' = Review!Fresh(a) /\ Review!SchemaValid(a)
      BY <1>2, <2>1 DEF Review!Extracted, Review!Stored
    <3>2. Review!Fresh(a) # None /\ Reviewed(Review!Fresh(a)) /\ Review!Fresh(a).status = "needs_review"
      BY <3>1, FreshReviewed
    <3> QED BY <1>2, <2>1, <3>1, <3>2 DEF Review!Extracted, ReviewInv
  <2>2. CASE review_proposal # None
    BY <1>2, <2>2 DEF Review!Extracted, Review!Stored, ReviewInv
  <2> QED BY <2>1, <2>2
(* The decisions on a proposal p, of the status and the target given. *)
<1>3. ASSUME review_proposal # None,
             NEW status \in {"reconciliation_review", "approved", "rejected"},
             NEW target \in {None, "transaction", "recurring"} \cup Review!ObligationKinds,
             target # None <=> status = "approved",
             status # "rejected" => Review!Approvable(review_proposal.event),
             status = "reconciliation_review" => review_proposal.event.kind \in Review!TransactionKinds,
             review_proposal' = [review_proposal EXCEPT !.status = status, !.target = target],
             review_running' = review_running,
               review_error' \in {None, "POSSIBLE_DUPLICATE", "USER_REJECTED"},
             review_raw' = IF status = "approved" THEN "processed" ELSE review_raw,
             review_proposal.status # "approved"
      PROVE  Goal
  <2>1. review_proposal' # None /\ Reviewed(review_proposal') /\ review_proposal'.status = status
        /\ review_proposal'.event = review_proposal.event
    <3>1. review_proposal \in Review!Row /\ Reviewed(review_proposal)
      BY <1>0, <1>3 DEF ReviewInv
    <3>2. /\ review_proposal' \in Review!Row /\ review_proposal'.status = status
          /\ review_proposal'.target = target
          /\ review_proposal'.event = review_proposal.event
          /\ review_proposal'.reasons = review_proposal.reasons
      BY <1>3, <3>1 DEF Review!Row
    <3>3. review_proposal' # None
      BY <3>2 DEF Review!ProposalsAssumption
    <3>4. Reviewed(review_proposal')
      BY <1>3, <3>1, <3>2 DEF Reviewed
    <3> QED BY <3>2, <3>3, <3>4
  <2>2. review_raw' = "processed" <=> status = "approved"
    BY <1>3 DEF ReviewInv
  <2>3. review_raw' \in {"needs_review", "processed"}
    BY <1>3 DEF ReviewInv
  <2> QED BY <1>3, <2>1, <2>2, <2>3 DEF ReviewInv
<1>4. ASSUME review_proposal # None
      PROVE review_proposal.target = None <=> review_proposal.status # "approved"
  BY <1>4 DEF ReviewInv, Reviewed
<1>5. ASSUME NEW duplicate \in BOOLEAN, Review!Approve(duplicate) PROVE Goal
  <2>1. review_proposal # None /\ review_proposal.status = "needs_review"
          /\ Review!Approvable(review_proposal.event)
    BY <1>5 DEF Review!Approve, Review!Pending
  <2>2. CASE duplicate
    <3>1. review_proposal' = [review_proposal EXCEPT !.status = "reconciliation_review"]
            /\ review_raw' = review_raw
          /\ review_error' = "POSSIBLE_DUPLICATE" /\ review_running' = review_running
          /\ review_proposal.event.kind \in Review!TransactionKinds
      BY <1>5, <2>2 DEF Review!Approve
    <3>2. review_proposal' = [review_proposal EXCEPT !.status = "reconciliation_review",
            !.target = None]
      BY <1>0, <1>4, <2>1, <3>1 DEF Review!Row
    <3> QED BY <1>3, <2>1, <3>1, <3>2
  <2>3. CASE ~duplicate
    <3>1. review_proposal' = [review_proposal EXCEPT !.status = "approved",
            !.target = Review!TargetOf(review_proposal.event)]
          /\ review_raw' = "processed" /\ review_error' = None /\ review_running' = review_running
      BY <1>5, <2>3 DEF Review!Approve
    <3>2. Review!TargetOf(review_proposal.event) \in ({"transaction",
            "recurring"} \cup Review!ObligationKinds)
          /\ Review!TargetOf(review_proposal.event) # None
      BY <1>0, <2>1, TargetTyped
    <3> QED BY <1>3, <2>1, <3>1, <3>2
  <2> QED BY <2>2, <2>3
<1>6. CASE Review!Resolve
  <2>1. review_proposal # None /\ review_proposal.status = "reconciliation_review"
          /\ Review!Approvable(review_proposal.event)
    BY <1>6 DEF Review!Resolve, ReviewInv, Reviewed
  <2>2. review_proposal' = [review_proposal EXCEPT !.status = "approved", !.target = "transaction"]
        /\ review_raw' = "processed" /\ review_error' = None /\ review_running' = review_running
    BY <1>6 DEF Review!Resolve, Review!Resolved
  <2>3. "transaction" # None
    BY DEF Review!ProposalsAssumption
  <2> QED BY <1>3, <2>1, <2>2, <2>3
<1>7. CASE Review!Reject
  <2>1. review_proposal # None /\ review_proposal.status = "needs_review"
    BY <1>7 DEF Review!Reject, Review!Pending
  <2>2. review_proposal' = [review_proposal EXCEPT !.status = "rejected"] /\ review_raw' = review_raw
        /\ review_error' = "USER_REJECTED" /\ review_running' = review_running
    BY <1>7 DEF Review!Reject
  <2>3. review_proposal' = [review_proposal EXCEPT !.status = "rejected", !.target = None]
    BY <1>0, <1>4, <2>1, <2>2 DEF Review!Row
  <2> QED BY <1>3, <2>1, <2>2, <2>3
<1>8. CASE UNCHANGED Review!vars
  BY <1>8 DEF Review!vars, ReviewInv
<1> QED BY <1>1, <1>2, <1>5, <1>6, <1>7, <1>8 DEF Review!Next

\* What the invariant says of the properties.
LEMMA ReviewConsequences ==
  ASSUME Review!ProposalsAssumption, ReviewInv
  PROVE  Review!TypeOK /\ Review!MissingBlocks /\ Review!GapsAreShown /\ Review!TargetsAgree
<1>1. Review!TypeOK
  BY DEF Review!TypeOK, ReviewInv, Reviewed
<1>2. ASSUME review_proposal # None
      PROVE  /\ review_proposal.event \in Replies /\ Review!IsAnswer(review_proposal.event)
             /\ Review!SchemaValid(review_proposal.event)
             /\ review_proposal.reasons = Review!Reasons(review_proposal.event)
  BY <1>2 DEF ReviewInv, Reviewed, Review!Row, Review!ProposalsAssumption
<1>3. Review!MissingBlocks
  <2> SUFFICES ASSUME review_proposal # None,
                      review_proposal.status \in {"approved", "reconciliation_review"}
               PROVE  Review!Missing \subseteq {r \in {"MISSING_OCCURRED_AT"}
                      : review_proposal.event.kind = "recurring"}
    BY DEF Review!MissingBlocks
  <2> DEFINE a == review_proposal.event
  <2>1. Review!Approvable(a) /\ Review!Missing = Review!Reasons(a) \ {"AI_REVIEW_REQUIRED",
          "LOW_CONFIDENCE"}
    BY <1>2 DEF ReviewInv, Reviewed, Review!Missing
  <2> HIDE DEF a
  <2>2. CASE a.kind \in Review!TransactionKinds /\ Review!MoneyAndTime(a)
    BY <2>1, <2>2, Zenon DEF Review!Reasons, Review!MoneyAndTime, Review!TransactionKinds,
       Review!ObligationKinds
  <2>3. CASE a.kind \in Review!ObligationKinds /\ Review!MoneyAndTime(a) /\ Review!ObligationAccepted(a)
    <3>1. a.counterparty # 0
      BY <2>3 DEF Review!ObligationAccepted, Review!ProposalsAssumption
    <3> QED BY <2>1, <2>3, <3>1, Zenon DEF Review!Reasons, Review!MoneyAndTime, Review!ObligationKinds
  <2>4. CASE a.kind = "recurring" /\ Review!RecurringAccepted(a)
    BY <2>1, <2>4, Zenon DEF Review!Reasons, Review!RecurringAccepted, Review!ObligationKinds, a
  <2> QED BY <2>1, <2>2, <2>3, <2>4 DEF Review!Approvable
<1>4. Review!GapsAreShown
  <2> DEFINE a == review_proposal.event
  <2> SUFFICES ASSUME review_proposal # None, review_proposal.status = "needs_review",
                      ~Review!Approvable(a), Review!Missing = {},
                      a.kind # "unknown", ~(a.kind = "transfer" /\ ~a.amount),
                      ~(a.kind = "recurring" /\ ~a.merchant),
                      ~(a.kind \in Review!ObligationKinds /\ a.counterparty > MaxPerson),
                      ~(a.kind \in Review!ObligationKinds /\ a.due # None
                        /\ a.due < Review!LocalDay(a.occurred))
               PROVE  FALSE
    BY DEF Review!GapsAreShown, Review!Pending
  <2>1. /\ a \in Replies /\ Review!IsAnswer(a) /\ Review!SchemaValid(a)
        /\ Review!Reasons(a) \ {"AI_REVIEW_REQUIRED", "LOW_CONFIDENCE"} = {}
    BY <1>2 DEF Review!Missing
  <2> HIDE DEF a
  <2>2. /\ ~(a.kind \in Review!MoneyKinds /\ ~a.amount)
        /\ a.occurred # None
        /\ ~(a.kind \in Review!ObligationKinds /\ a.counterparty = 0)
        /\ ~(a.kind = "recurring" /\ ~a.rule)
        /\ ~(a.kind = "recurring" /\ ~a.next)
    <3>1. \A x : x \in Review!Reasons(a) => x \in {"AI_REVIEW_REQUIRED", "LOW_CONFIDENCE"}
      BY <2>1
    <3>2. ~(a.kind \in Review!MoneyKinds /\ ~a.amount)
      <4>1. a.kind \in Review!MoneyKinds /\ ~a.amount
              => "MISSING_AMOUNT_OR_CURRENCY" \in Review!Reasons(a)
        BY Zenon DEF Review!Reasons
      <4> QED BY <3>1, <4>1
    <3>3. a.occurred # None
      <4>1. a.occurred = None => "MISSING_OCCURRED_AT" \in Review!Reasons(a)
        BY Zenon DEF Review!Reasons
      <4> QED BY <3>1, <4>1
    <3>4. ~(a.kind \in Review!ObligationKinds /\ a.counterparty = 0)
      <4>1. a.kind \in Review!ObligationKinds /\ a.counterparty = 0
              => "MISSING_COUNTERPARTY" \in Review!Reasons(a)
        BY Zenon DEF Review!Reasons
      <4> QED BY <3>1, <4>1
    <3>5. ~(a.kind = "recurring" /\ ~a.rule)
      <4>1. a.kind = "recurring" /\ ~a.rule => "MISSING_RECURRENCE_RULE" \in Review!Reasons(a)
        BY Zenon DEF Review!Reasons
      <4> QED BY <3>1, <4>1
    <3>6. ~(a.kind = "recurring" /\ ~a.next)
      <4>1. a.kind = "recurring" /\ ~a.next => "MISSING_NEXT_EXPECTED_DATE" \in Review!Reasons(a)
        BY Zenon DEF Review!Reasons
      <4> QED BY <3>1, <4>1
    <3> QED BY <3>2, <3>3, <3>4, <3>5, <3>6
  <2>3. a.amount /\ a.currency
    <3>1. a.kind \in Review!TransactionKinds \cup Review!ObligationKinds \cup {"recurring"}
      BY <2>1 DEF Review!IsAnswer
    <3>2. CASE a.kind = "transfer"
      BY <2>1, <3>2 DEF Review!SchemaValid
    <3>3. CASE a.kind # "transfer"
      <4>1. a.kind \in Review!MoneyKinds
        BY <3>1, <3>3 DEF Review!MoneyKinds
      <4> QED BY <2>1, <2>2, <4>1 DEF Review!SchemaValid
    <3> QED BY <3>2, <3>3
  <2>4. CASE a.kind \in Review!TransactionKinds
    BY <2>2, <2>3, <2>4 DEF Review!Approvable, Review!MoneyAndTime
  <2>5. CASE a.kind \in Review!ObligationKinds
    <3>1. a.counterparty \in 1..MaxPerson
      BY <2>1, <2>2, <2>5 DEF Review!IsAnswer, Review!ProposalsAssumption
    <3>2. a.due # None => a.due >= Review!LocalDay(a.occurred)
      <4>1. a.occurred \in Int /\ Offset \in Int /\ DayLength \in Nat \ {0}
        BY <2>1, <2>2 DEF Review!IsAnswer, Review!ProposalsAssumption
      <4>2. Review!LocalDay(a.occurred) \in Int
        BY <4>1 DEF Review!LocalDay
      <4> QED BY <2>1, <2>5, <4>2 DEF Review!IsAnswer
    <3> QED BY <2>2, <2>3, <2>5, <3>1, <3>2
               DEF Review!Approvable, Review!MoneyAndTime, Review!ObligationAccepted
  <2>6. CASE a.kind = "recurring"
    BY <2>2, <2>3, <2>6 DEF Review!Approvable, Review!RecurringAccepted
  <2> QED BY <2>1, <2>4, <2>5, <2>6 DEF Review!IsAnswer
<1>5. Review!TargetsAgree
  BY DEF Review!TargetsAgree, ReviewInv, Reviewed
<1> QED BY <1>1, <1>3, <1>4, <1>5

(* In every reachable state the row of a proposal agrees with its answer and *)
(* with the state of its raw event.                                          *)
THEOREM ReviewInvariance ==
  ASSUME Review!ProposalsAssumption
  PROVE  Review!Spec => []ReviewInv
<1>1. ReviewInv /\ [Review!Next]_(Review!vars) => ReviewInv'
  BY ReviewNext
<1> QED BY <1>1, ReviewInit, PTL DEF Review!Spec

\* A late answer changes no fact and reopens nothing.
THEOREM FirstAnswer ==
  ASSUME Review!ProposalsAssumption
  PROVE  Review!Spec => Review!FirstAnswerStays
<1>1. ReviewInv /\ [Review!Next]_(Review!vars) =>
        [review_proposal # None =>
         /\ review_proposal'.event = review_proposal.event
         /\ review_proposal.status # "needs_review"
              => review_proposal'.status # "needs_review"]_(Review!vars)
  BY ReviewNext
<1> QED BY <1>1, ReviewInvariance, PTL DEF Review!Spec, Review!FirstAnswerStays

-----------------------------------------------------------------------------
(* Labels and the limits of a document *)

\* g collects the first n labels.
Collects(g, labels, max, cuts, n) ==
    g = [i \in 0..n |-> IF i = 0 THEN Delivery!Nothing
                                 ELSE Delivery!Added(g[i - 1], labels[i], max, cuts)]

\* The labels that are kept are the value, at the last label, of such a function.
LEMMA CollectIs ==
  ASSUME NEW labels, NEW max, NEW cuts
  PROVE  Delivery!Collect(labels, max, cuts)
           = (CHOOSE g : Collects(g, labels, max, cuts, Len(labels)))[Len(labels)]
BY DEF Delivery!Collect, Collects

\* There is one for every number of labels.
LEMMA CollectingExists ==
  ASSUME NEW labels, NEW max, NEW cuts, NEW n \in Nat
  PROVE  \E g : Collects(g, labels, max, cuts, n)
<1> DEFINE Bad == {m \in Nat : ~\E g : Collects(g, labels, max, cuts, m)}
<1>1. ASSUME NEW m \in Bad, \A k \in Bad : m <= k PROVE FALSE
  <2>1. CASE m = 0
    <3>1. Collects([i \in 0..0 |-> Delivery!Nothing], labels, max, cuts, 0)
      BY DEF Collects
    <3> QED BY <2>1, <3>1
  <2>2. CASE m # 0
    <3>1. m - 1 \in Nat /\ m - 1 \notin Bad
      <4>1. m \in Nat /\ m - 1 \in Nat /\ ~(m <= m - 1)
        BY <2>2
      <4> QED BY <1>1, <4>1
    <3>2. PICK g : Collects(g, labels, max, cuts, m - 1)
      BY <3>1
    <3>3. PICK h : h = [i \in 0..m |-> IF i = 0 THEN Delivery!Nothing
                                        ELSE Delivery!Added(g[i - 1], labels[i], max, cuts)]
      OBVIOUS
    <3>4. \A i \in 0..(m - 1) : h[i] = g[i]
      BY <3>1, <3>2, <3>3 DEF Collects
    <3>5. \A i \in 0..m : i # 0 => h[i - 1] = g[i - 1]
      BY <3>1, <3>4
    <3>6. Collects(h, labels, max, cuts, m)
      BY <3>3, <3>5 DEF Collects
    <3> QED BY <3>6
  <2> QED BY <2>1, <2>2
<1>2. Bad = {}
  <2>1. Bad \in SUBSET Nat
    OBVIOUS
  <2> HIDE DEF Bad
  <2> QED BY <1>1, <2>1, Smallest
<1> QED BY <1>2

\* A label as it is kept.
KeptLabels == [name : LabelNames, size : 0..MaxTag]

KeptOK(k, max) ==
    /\ k \in [tags : Seq(KeptLabels), refused : BOOLEAN]
    /\ Len(k.tags) <= max

\* One more label leaves at most max of them, none over the length.
LEMMA AddedKept ==
  ASSUME Delivery!ConnectorsAssumption, NEW max \in Nat, NEW cuts \in BOOLEAN,
         NEW k, KeptOK(k, max), NEW l \in Delivery!Labels
  PROVE  KeptOK(Delivery!Added(k, l, max, cuts), max)
<1>1. Delivery!Cut(l.size, MaxTag) \in 0..MaxTag
  BY DEF Delivery!Cut, Delivery!Labels, Delivery!ConnectorsAssumption
<1> DEFINE t == Delivery!Tag(l.name, Delivery!Cut(l.size, MaxTag))
<1>2. t \in KeptLabels
  BY <1>1 DEF Delivery!Tag, KeptLabels, Delivery!Labels
<1>3. k.tags \in Seq(KeptLabels) /\ Len(k.tags) <= max /\ Len(k.tags) \in Nat /\ k.refused \in BOOLEAN
  BY LenProperties DEF KeptOK
<1> HIDE DEF t
<1>4. Append(k.tags, t) \in Seq(KeptLabels) /\ Len(Append(k.tags, t)) = Len(k.tags) + 1
  BY <1>2, <1>3, AppendProperties
<1>5. ASSUME Len(k.tags) # max PROVE KeptOK([k EXCEPT !.tags = Append(@, t)], max)
  BY <1>3, <1>4, <1>5 DEF KeptOK
<1>6. KeptOK([k EXCEPT !.refused = TRUE], max)
  BY <1>3 DEF KeptOK
<1> QED BY <1>5, <1>6 DEF Delivery!Added, t

\* So are those that a note keeps.
LEMMA CollectKept ==
  ASSUME Delivery!ConnectorsAssumption, NEW labels \in Seq(Delivery!Labels), NEW max \in Nat,
         NEW cuts \in BOOLEAN
  PROVE  KeptOK(Delivery!Collect(labels, max, cuts), max)
<1>1. Len(labels) \in Nat /\ \A i \in 1..Len(labels) : labels[i] \in Delivery!Labels
  BY LenProperties, ElementOfSeq
<1>2. PICK g : /\ Collects(g, labels, max, cuts, Len(labels))
               /\ Delivery!Collect(labels, max, cuts) = g[Len(labels)]
  BY <1>1, CollectIs, CollectingExists
<1>3. \A i \in 0..Len(labels) : g[i] = IF i = 0 THEN Delivery!Nothing
                                       ELSE Delivery!Added(g[i - 1], labels[i], max, cuts)
  BY <1>2 DEF Collects
<1> DEFINE Bad == {i \in 0..Len(labels) : ~KeptOK(g[i], max)}
<1>4. ASSUME NEW i \in Bad, \A j \in Bad : i <= j PROVE FALSE
  <2>1. CASE i = 0
    <3>1. g[0] = Delivery!Nothing
      BY <1>1, <1>3
    <3>2. KeptOK(Delivery!Nothing, max)
      BY EmptySeq DEF KeptOK, Delivery!Nothing
    <3> QED BY <2>1, <3>1, <3>2
  <2>2. CASE i # 0
    <3>1. i \in 1..Len(labels) /\ i - 1 \in 0..Len(labels) /\ ~(i <= i - 1)
      BY <1>1, <2>2
    <3>2. KeptOK(g[i - 1], max)
      BY <1>4, <3>1
    <3>3. g[i] = Delivery!Added(g[i - 1], labels[i], max, cuts)
      BY <1>3, <2>2
    <3> QED BY <1>1, <3>1, <3>2, <3>3, AddedKept
  <2> QED BY <2>1, <2>2
<1>5. Bad = {}
  <2>1. Bad \in SUBSET Nat
    BY <1>1
  <2> HIDE DEF Bad
  <2> QED BY <1>4, <2>1, Smallest
<1> QED BY <1>1, <1>2, <1>5

\* Cardinality is the same as the module of the connectors sees it.
LEMMA TagCardinality == \A S : Delivery!Cardinality(S) = Cardinality(S)
BY DEF Delivery!Cardinality, Cardinality, Delivery!IsFiniteSet, IsFiniteSet

\* A sequence of n tags has at most n names.
LEMMA FewNames ==
  ASSUME NEW S, NEW tags \in Seq(S)
  PROVE  /\ Cardinality(Delivery!Names(tags)) \in Nat
         /\ Cardinality(Delivery!Names(tags)) <= Len(tags)
<1> DEFINE f == [i \in 1..Len(tags) |-> tags[i].name]
<1>1. Len(tags) \in Nat /\ DOMAIN tags = 1..Len(tags)
  BY LenProperties
<1>2. f \in Surjection(1..Len(tags), Delivery!Names(tags))
  BY <1>1 DEF Surjection, Delivery!Names
<1>3. IsFiniteSet(1..Len(tags)) /\ Cardinality(1..Len(tags)) = Len(tags)
  BY <1>1, FS_Interval
<1> QED BY <1>2, <1>3, FS_Surjection, FS_CardinalityType

\* Few short tags are what an event may have.
LEMMA KeptTagsValid ==
  ASSUME Delivery!ConnectorsAssumption, NEW S,
         NEW tags \in Seq([name : S, size : 0..MaxTag]), Len(tags) <= MaxTags
  PROVE  /\ \A i \in DOMAIN tags : tags[i].size <= MaxTag
         /\ Cardinality(Delivery!Names(tags)) <= MaxTags
<1>1. Len(tags) \in Nat /\ DOMAIN tags = 1..Len(tags)
      /\ \A i \in DOMAIN tags : tags[i] \in [name : S, size : 0..MaxTag]
  BY LenProperties, ElementOfSeq
<1>2. \A i \in DOMAIN tags : tags[i].size <= MaxTag
  BY <1>1 DEF Delivery!ConnectorsAssumption
<1>3. Cardinality(Delivery!Names(tags)) <= Len(tags) /\ Cardinality(Delivery!Names(tags)) \in Nat
  BY FewNames
<1> QED BY <1>1, <1>2, <1>3 DEF Delivery!ConnectorsAssumption

\* What is accepted makes a valid event, but for rows, whose errors are caught,
\* and for notes with a title that is too long.
LEMMA AcceptedIsValid ==
  ASSUME Delivery!ConnectorsAssumption, NEW d \in Documents, Delivery!Enveloped(d),
         Delivery!Outcome(d) = "escaped"
  PROVE  d.source = "keep" /\ d.title > MaxDescription
<1>1. Delivery!Readings(d)
  BY DEF Delivery!ConnectorsAssumption
<1>2. ~Delivery!ValidEvent(Delivery!Event(d)) /\ d.source # "csv"
  BY DEF Delivery!Outcome, Delivery!Catches
<1>3. d.source \in {"manual", "keep", "gmail"}
  BY <1>1, <1>2 DEF Delivery!Readings
<1> DEFINE e == Delivery!Event(d)
<1>4. CASE d.source = "manual"
  <2> DEFINE tags == Delivery!ManualLabels(d.labels).tags
  <2>1. d.note \in Nat /\ d.note # 0 /\ d.labels \in Seq(Delivery!Labels)
    BY <1>1, <1>4 DEF Delivery!Readings, Delivery!Enveloped, Delivery!Refused
  <2>2. tags \in Seq(KeptLabels) /\ Len(tags) <= MaxTags
    BY <2>1, CollectKept DEF Delivery!ManualLabels, KeptOK, Delivery!ConnectorsAssumption
  <2>3. (\A i \in DOMAIN tags : tags[i].size <= MaxTag) /\ Cardinality(Delivery!Names(tags)) <= MaxTags
    BY <2>2, KeptTagsValid DEF KeptLabels
  <2> HIDE DEF tags
  <2>4. e = [description |-> Delivery!Cut(d.note, DescriptionCut), tags |-> tags,
             amount |-> FALSE, currency |-> FALSE]
    BY <1>4 DEF Delivery!Event, Delivery!Payload, tags
  <2>5. 0 < Delivery!Cut(d.note, DescriptionCut) /\ Delivery!Cut(d.note, DescriptionCut) <= MaxDescription
    BY <2>1 DEF Delivery!Cut, Delivery!ConnectorsAssumption
  <2> QED BY <1>2, <2>3, <2>4, <2>5, TagCardinality DEF Delivery!ValidEvent
<1>5. CASE d.source = "keep"
  <2> DEFINE kept == Delivery!KeepLabels(d.labels).tags
             tags == <<Delivery!KeepTag>> \o kept
             S == LabelNames \cup {"google-keep"}
  <2>1. /\ d.note \in Nat /\ d.title \in Nat /\ d.labels \in Seq(Delivery!Labels)
        /\ MaxTags - 1 \in Nat /\ MaxTags \in Nat /\ MaxDescription \in Nat /\ MaxNote \in Nat
    BY <1>1, <1>5 DEF Delivery!Readings, Delivery!ConnectorsAssumption
  <2>2. kept \in Seq(KeptLabels) /\ Len(kept) <= MaxTags - 1
    BY <2>1, CollectKept DEF Delivery!KeepLabels, KeptOK
  <2>3. <<Delivery!KeepTag>> \in Seq([name : S, size : 0..MaxTag]) /\ Len(<<Delivery!KeepTag>>) = 1
    BY DEF Delivery!KeepTag, Delivery!Tag, Delivery!ConnectorsAssumption
  <2>4. kept \in Seq([name : S, size : 0..MaxTag])
    <3>1. KeptLabels \subseteq [name : S, size : 0..MaxTag]
      BY DEF KeptLabels
    <3> HIDE DEF kept
    <3> QED BY <2>2, <3>1, SeqMonotonic
  <2>5. tags \in Seq([name : S, size : 0..MaxTag]) /\ Len(tags) <= MaxTags
    <3>1. Len(kept) \in Nat
      BY <2>2, LenProperties
    <3> HIDE DEF kept
    <3>2. tags \in Seq([name : S, size : 0..MaxTag]) /\ Len(tags) = 1 + Len(kept)
      BY <2>3, <2>4, ConcatProperties
    <3> QED BY <2>1, <2>2, <3>1, <3>2
  <2>6. (\A i \in DOMAIN tags : tags[i].size <= MaxTag) /\ Cardinality(Delivery!Names(tags)) <= MaxTags
    BY <2>5, KeptTagsValid
  <2> HIDE DEF tags
  <2> DEFINE note == Delivery!Cut(d.note, MaxNote)
             text == IF d.title > 0 THEN d.title
                     ELSE IF note > 0 THEN Delivery!Cut(note, DescriptionCut) ELSE 1
  <2>7. e = [description |-> text, tags |-> tags, amount |-> FALSE, currency |-> FALSE]
    BY <1>5 DEF Delivery!Event, Delivery!Payload, tags
  <2>8. ASSUME ~(d.title > MaxDescription) PROVE 0 < text /\ text <= MaxDescription
    BY <2>1, <2>8 DEF Delivery!Cut, Delivery!ConnectorsAssumption
  <2> HIDE DEF text
  <2> QED BY <1>2, <1>5, <2>6, <2>7, <2>8, TagCardinality DEF Delivery!ValidEvent
<1>6. CASE d.source = "gmail"
  <2> DEFINE subject == Delivery!Cut(d.subject, SubjectCut)
             text == IF subject > 0 THEN subject ELSE 1
  <2>1. d.subject \in Nat
    BY <1>1, <1>6 DEF Delivery!Readings
  <2>2. e = [description |-> text, tags |-> <<>>, amount |-> FALSE, currency |-> FALSE]
    BY <1>6 DEF Delivery!Event, Delivery!Payload
  <2>3. 0 < text /\ text <= MaxDescription
    BY <2>1 DEF Delivery!Cut, Delivery!ConnectorsAssumption
  <2>4. << >> \in Seq([name : LabelNames, size : 0..MaxTag]) /\ Len(<< >>) = 0
    BY EmptySeq
  <2>5. (\A i \in DOMAIN << >> : << >>[i].size <= MaxTag) /\ Cardinality(Delivery!Names(<< >>)) <= MaxTags
    <3>1. DOMAIN << >> = {} /\ Delivery!Names(<< >>) = {} /\ MaxTags \in Nat
      BY <2>4 DEF Delivery!Names, Delivery!ConnectorsAssumption
    <3> QED BY <3>1, FS_EmptySet
  <2> HIDE DEF text
  <2> QED BY <1>2, <2>2, <2>3, <2>5, TagCardinality DEF Delivery!ValidEvent
<1> QED BY <1>3, <1>4, <1>5, <1>6

-----------------------------------------------------------------------------
(* Deliveries *)

\* A document that was normalized is known by its identity and content.
SettledOK(d) ==
    /\ Delivery!Enveloped(d)
    /\ Delivery!Identity(d) \in DOMAIN deliver_stored
    /\ deliver_stored[Delivery!Identity(d)] = Delivery!Content(d)
    /\ deliver_state[Delivery!Identity(d)] = "normalized"

\* Under each identity that is settled a document was normalized.
IdentitiesOK ==
    \A k \in DOMAIN deliver_stored :
        deliver_state[k] = "normalized" => \E d \in deliver_settled : Delivery!Identity(d) = k

DeliveryInv ==
    /\ Delivery!TypeOK
    /\ \A d \in deliver_settled : SettledOK(d)
    /\ IdentitiesOK
    /\ Delivery!NormalizerAnswers /\ Delivery!RedeliveryReplays /\ Delivery!EqualRowsAreTwo

\* It holds before the first delivery.
LEMMA DeliveryInit ==
  ASSUME Delivery!ConnectorsAssumption, Delivery!Init
  PROVE  DeliveryInv
<1>1. DOMAIN deliver_stored = {} /\ DOMAIN deliver_state = {}
  BY DEF Delivery!Init
<1>2. Delivery!TypeOK
  BY <1>1 DEF Delivery!Init, Delivery!TypeOK, Delivery!Results, Delivery!ConnectorsAssumption
<1> QED BY <1>1, <1>2 DEF Delivery!Init, DeliveryInv, IdentitiesOK, Delivery!NormalizerAnswers,
           Delivery!RedeliveryReplays, Delivery!EqualRowsAreTwo

\* Two documents of one hashed identity have one source and one content.
LEMMA HashedApart ==
  ASSUME NEW d, NEW e, d.id = None, Delivery!Identity(e) = Delivery!Identity(d)
  PROVE  e.source = d.source /\ e.id = None /\ Delivery!Content(e) = Delivery!Content(d)
BY DEF Delivery!Identity

\* A delivery that is refused, ignored, in conflict or replayed leaves the rows.
LEMMA DeliveryUnstored ==
  ASSUME Delivery!ConnectorsAssumption, DeliveryInv, NEW d \in Documents,
         NEW outcome \in {"refused", "ignored", "conflict", "replayed"},
         deliver_deliveries < MaxDeliveries,
         Delivery!Ends(d, outcome), UNCHANGED <<deliver_stored, deliver_state>>,
         d \in deliver_settled => outcome = "replayed",
         outcome = "replayed" /\ d.source = "csv" /\ d.id = None => d \in deliver_settled
  PROVE  DeliveryInv'
<1>1. /\ deliver_last' = [document |-> d, outcome |-> outcome, before |-> deliver_settled]
      /\ deliver_sent' = deliver_sent \cup {d} /\ deliver_settled' = deliver_settled
      /\ deliver_deliveries' = deliver_deliveries + 1
  BY DEF Delivery!Ends
<1>2. Delivery!TypeOK'
  BY <1>1 DEF DeliveryInv, Delivery!TypeOK, Delivery!Results, Delivery!ConnectorsAssumption
<1>3. (\A c \in deliver_settled : SettledOK(c))' /\ IdentitiesOK'
  BY <1>1 DEF DeliveryInv, SettledOK, IdentitiesOK
<1>4. (Delivery!NormalizerAnswers /\ Delivery!RedeliveryReplays /\ Delivery!EqualRowsAreTwo)'
  BY <1>1 DEF Delivery!NormalizerAnswers, Delivery!RedeliveryReplays, Delivery!EqualRowsAreTwo
<1> QED BY <1>2, <1>3, <1>4 DEF DeliveryInv

\* One that is stored is not known as settled; its row then says what became of it.
LEMMA DeliveryStored ==
  ASSUME Delivery!ConnectorsAssumption, DeliveryInv, NEW d \in Documents,
         deliver_deliveries < MaxDeliveries, Delivery!Ingest(d)
  PROVE  /\ DeliveryInv'
         /\ \A k \in DOMAIN deliver_stored :
                k \in DOMAIN deliver_stored' /\ deliver_stored'[k] = deliver_stored[k]
<1> DEFINE id == Delivery!Identity(d)
           out == Delivery!Outcome(d)
<1>1. /\ Delivery!Enveloped(d)
      /\ id \in DOMAIN deliver_stored => deliver_stored[id] = Delivery!Content(d)
      /\ id \in DOMAIN deliver_state => deliver_state[id] # "normalized"
      /\ deliver_stored' = Delivery!Put(deliver_stored, id, Delivery!Content(d))
      /\ deliver_state' = Delivery!Put(deliver_state, id, Delivery!StateAfter(id, out))
  BY DEF Delivery!Ingest, Delivery!Matches, Delivery!Open
<1>2. /\ deliver_last' = [document |-> d, outcome |-> out, before |-> deliver_settled]
      /\ deliver_sent' = deliver_sent \cup {d}
      /\ deliver_settled' = IF out = "normalized" THEN deliver_settled \cup {d} ELSE deliver_settled
      /\ deliver_deliveries' = deliver_deliveries + 1
  BY DEF Delivery!Ends, Delivery!Ingest
<1>3. DOMAIN deliver_state = DOMAIN deliver_stored
  BY DEF DeliveryInv, Delivery!TypeOK
<1>4. out \in {"normalized", "failed", "escaped"}
  BY DEF Delivery!Outcome
<1> HIDE DEF out, id
<1>5. /\ deliver_stored' = [k \in DOMAIN deliver_stored \cup {id} |->
                              IF k = id THEN Delivery!Content(d) ELSE deliver_stored[k]]
      /\ deliver_state' = [k \in DOMAIN deliver_stored \cup {id} |->
                             IF k = id THEN Delivery!StateAfter(id, out) ELSE deliver_state[k]]
  BY <1>1, <1>3 DEF Delivery!Put
<1>6. /\ Delivery!StateAfter(id, out) \in {"received", "normalized", "failed"}
      /\ Delivery!StateAfter(id, out) = "normalized" <=> out = "normalized"
  BY <1>1, <1>3, <1>4 DEF Delivery!StateAfter, DeliveryInv, Delivery!TypeOK
<1> DEFINE after == Delivery!StateAfter(id, out)
<1> HIDE DEF after
<1>7. \A k \in DOMAIN deliver_stored :
        k \in DOMAIN deliver_stored' /\ deliver_stored'[k] = deliver_stored[k]
  BY <1>1, <1>5
<1>8. Delivery!TypeOK'
  <2>1. \A k \in DOMAIN deliver_stored' :
          \E c \in deliver_sent' : k = Delivery!Identity(c) /\ deliver_stored'[k] = Delivery!Content(c)
    BY <1>2, <1>5 DEF DeliveryInv, Delivery!TypeOK, id
  <2>2. deliver_state' \in [DOMAIN deliver_stored' -> {"received", "normalized", "failed"}]
    BY <1>5, <1>6 DEF DeliveryInv, Delivery!TypeOK
  <2>3. deliver_stored' = [k \in DOMAIN deliver_stored' |-> deliver_stored'[k]]
    BY <1>5
  <2>4. deliver_last'.outcome \in Delivery!Results
    BY <1>2, <1>4 DEF Delivery!Results
  <2>5. /\ deliver_settled' \subseteq deliver_sent' /\ deliver_sent' \subseteq Documents
        /\ deliver_deliveries' \in 0..MaxDeliveries
    BY <1>2 DEF DeliveryInv, Delivery!TypeOK, Delivery!ConnectorsAssumption
  <2> QED BY <2>1, <2>2, <2>3, <2>4, <2>5 DEF Delivery!TypeOK
<1>9. d \notin deliver_settled
  BY <1>1, <1>3 DEF DeliveryInv, SettledOK, id
<1>10. ASSUME NEW c \in deliver_settled' PROVE SettledOK(c)'
  <2>1. CASE c = d
    <3>1. out = "normalized"
      BY <1>2, <1>9, <2>1
    <3> QED BY <1>1, <1>5, <1>6, <2>1, <3>1 DEF SettledOK, id
  <2>2. CASE c # d
    <3>1. SettledOK(c)
      BY <1>2, <2>2 DEF DeliveryInv
    <3>2. Delivery!Identity(c) # id
      BY <1>1, <1>3, <3>1 DEF SettledOK
    <3> QED BY <1>5, <3>1, <3>2 DEF SettledOK
  <2> QED BY <2>1, <2>2
<1>11. IdentitiesOK'
  BY <1>2, <1>3, <1>5, <1>6 DEF DeliveryInv, IdentitiesOK, id
<1>12. (Delivery!NormalizerAnswers /\ Delivery!RedeliveryReplays /\ Delivery!EqualRowsAreTwo)'
  <2>1. out = "escaped" => d.source = "keep" /\ d.title > MaxDescription
    BY <1>1, AcceptedIsValid DEF out
  <2> QED BY <1>2, <1>4, <1>9, <2>1 DEF Delivery!NormalizerAnswers, Delivery!RedeliveryReplays,
                                       Delivery!EqualRowsAreTwo
<1> QED BY <1>7, <1>8, <1>10, <1>11, <1>12 DEF DeliveryInv

\* A replayed row without its provider's id is one that was normalized before.
LEMMA ReplayedRow ==
  ASSUME DeliveryInv, NEW d, Delivery!Replay(d), Delivery!Readable(d), d.source = "csv", d.id = None
  PROVE  d \in deliver_settled
<1>1. PICK e \in deliver_settled : Delivery!Identity(e) = Delivery!Identity(d)
  BY DEF Delivery!Replay, DeliveryInv, IdentitiesOK
<1>2. e.source = "csv" /\ Delivery!Content(e) = Delivery!Content(d)
  BY <1>1, HashedApart
<1>3. Delivery!Locator(e) = Delivery!Locator(d)
  BY <1>2 DEF Delivery!Content
<1>4. e.file = d.file /\ e.row = d.row
  BY <1>2, <1>3 DEF Delivery!Locator
<1>5. e \in deliver_sent
  BY DEF DeliveryInv, Delivery!TypeOK
<1> QED BY <1>2, <1>4, <1>5 DEF Delivery!Readable

\* Every delivery keeps the invariant, and no content under an identity is replaced.
LEMMA DeliveryNext ==
  ASSUME Delivery!ConnectorsAssumption, DeliveryInv, [Delivery!Next]_(Delivery!vars)
  PROVE  /\ DeliveryInv'
         /\ \A k \in DOMAIN deliver_stored :
                k \in DOMAIN deliver_stored' /\ deliver_stored'[k] = deliver_stored[k]
<1>1. CASE UNCHANGED Delivery!vars
  BY <1>1 DEF Delivery!vars, DeliveryInv, SettledOK, IdentitiesOK, Delivery!TypeOK,
              Delivery!NormalizerAnswers, Delivery!RedeliveryReplays, Delivery!EqualRowsAreTwo
<1>2. ASSUME NEW d \in Documents, Delivery!Deliver(d)
      PROVE  /\ DeliveryInv'
             /\ \A k \in DOMAIN deliver_stored :
                    k \in DOMAIN deliver_stored' /\ deliver_stored'[k] = deliver_stored[k]
  <2>1. deliver_deliveries < MaxDeliveries /\ Delivery!Readable(d)
    BY <1>2 DEF Delivery!Deliver
  <2>2. d \in deliver_settled => SettledOK(d)
    BY DEF DeliveryInv
  <2>3. CASE Delivery!Refuse(d)
    <3>1. PICK out \in {"refused", "ignored"} :
            Delivery!Ends(d, out) /\ UNCHANGED <<deliver_stored, deliver_state>>
      BY <2>3 DEF Delivery!Refuse
    <3>2. d \notin deliver_settled
      BY <2>2, <2>3 DEF Delivery!Refuse, SettledOK, Delivery!Enveloped
    <3> QED BY <2>1, <3>1, <3>2, DeliveryUnstored
  <2>4. CASE Delivery!Conflict(d)
    <3>1. Delivery!Ends(d, "conflict") /\ UNCHANGED <<deliver_stored, deliver_state>>
      BY <2>4 DEF Delivery!Conflict
    <3>2. d \notin deliver_settled
      BY <2>2, <2>4 DEF Delivery!Conflict, SettledOK, Delivery!Matches
    <3> QED BY <2>1, <3>1, <3>2, DeliveryUnstored
  <2>5. CASE Delivery!Replay(d)
    <3>1. Delivery!Ends(d, "replayed") /\ UNCHANGED <<deliver_stored, deliver_state>>
      BY <2>5 DEF Delivery!Replay
    <3>2. d.source = "csv" /\ d.id = None => d \in deliver_settled
      BY <2>1, <2>5, ReplayedRow
    <3> QED BY <2>1, <3>1, <3>2, DeliveryUnstored
  <2>6. CASE Delivery!Ingest(d)
    BY <2>1, <2>6, DeliveryStored
  <2> QED BY <1>2, <2>3, <2>4, <2>5, <2>6 DEF Delivery!Deliver
<1> QED BY <1>1, <1>2 DEF Delivery!Next

\* The invariant of the deliveries.
THEOREM DeliveryInvariance ==
  ASSUME Delivery!ConnectorsAssumption
  PROVE  Delivery!Spec => []DeliveryInv
<1>1. DeliveryInv /\ [Delivery!Next]_(Delivery!vars) => DeliveryInv'
  BY DeliveryNext
<1> QED BY <1>1, DeliveryInit, PTL DEF Delivery!Spec

\* The content under an identity is never replaced.
THEOREM ContentFinal ==
  ASSUME Delivery!ConnectorsAssumption
  PROVE  Delivery!Spec => Delivery!ContentIsFinal
<1>1. DeliveryInv /\ [Delivery!Next]_(Delivery!vars) =>
        [\A k \in DOMAIN deliver_stored :
            k \in DOMAIN deliver_stored' /\ deliver_stored'[k] = deliver_stored[k]]_(deliver_stored)
  BY DeliveryNext
<1> QED BY <1>1, DeliveryInvariance, PTL DEF Delivery!Spec, Delivery!ContentIsFinal

-----------------------------------------------------------------------------
(* The run and the specifications of the components *)

\* The run keeps to the specification of sign-in.
LEMMA SignInSpec == Spec => SignIn!Spec
<1>1. Init => SignIn!Init
  BY DEF Init
<1>2. [Next]_vars => [SignIn!Next]_(SignIn!vars)
  BY DEF Next, vars, Rest, login_vars, SignIn!vars
<1> QED BY <1>1, <1>2, PTL DEF Spec, SignIn!Spec

\* The run keeps to the specification of the mailbox sync.
LEMMA MailboxSpec == Spec => Mailbox!Spec
<1>1. Init => Mailbox!Init
  BY DEF Init
<1>2. [Next]_vars => [Mailbox!Next]_(Mailbox!vars)
  BY DEF Next, vars, Rest, mail_vars, Mailbox!vars
<1> QED BY <1>1, <1>2, PTL DEF Spec, Mailbox!Spec

\* The run keeps to the specification of the agent.
LEMMA AskingSpec == Spec => Asking!Spec
<1>1. Init => Asking!Init
  BY DEF Init
<1>2. [Next]_vars => [Asking!Next]_(Asking!vars)
  BY DEF Next, vars, Rest, ask_vars, Asking!vars
<1> QED BY <1>1, <1>2, PTL DEF Spec, Asking!Spec

\* The run keeps to the specification of the attempts.
LEMMA ExtractionSpec == Spec => Extraction!Spec
<1>1. Init => Extraction!Init
  BY DEF Init
<1>2. [Next]_vars => [Extraction!Next]_(Extraction!vars)
  BY DEF Next, vars, Rest, extract_vars, Extraction!vars
<1> QED BY <1>1, <1>2, PTL DEF Spec, Extraction!Spec

\* The run keeps to the specification of the review.
LEMMA ReviewSpec == Spec => Review!Spec
<1>1. Init => Review!Init
  BY DEF Init
<1>2. [Next]_vars => [Review!Next]_(Review!vars)
  BY DEF Next, vars, Rest, review_vars, Review!vars
<1> QED BY <1>1, <1>2, PTL DEF Spec, Review!Spec

\* The run keeps to the specification of the connectors.
LEMMA DeliverySpec == Spec => Delivery!Spec
<1>1. Init => Delivery!Init
  BY DEF Init
<1>2. [Next]_vars => [Delivery!Next]_(Delivery!vars)
  BY DEF Next, vars, Rest, deliver_vars, Delivery!vars
<1> QED BY <1>1, <1>2, PTL DEF Spec, Delivery!Spec

-----------------------------------------------------------------------------
(* The theorems about the run *)

(* Signing in, however logins, logouts and expiry interleave: one user and   *)
(* no row behind for a subject, sessions of the right user that rotate, and  *)
(* no subject that changes its user.                                         *)
THEOREM Logins == Spec => LoginsHold
<1>1. SignIn!LoginAssumption
  BY ServicesAssumptions DEF ServicesAssumptions
<1>2. SignIn!Spec => []SignIn!NoOrphanUser
  BY <1>1, SignInNoOrphans
<1>3. SignIn!Spec => [](SignIn!SessionOfSubject /\ SignIn!Rotated)
  BY <1>1, SignInSessionsRotate
<1>4. SignIn!Spec => SignIn!IdentityIsFinal
  BY <1>1, SignInIdentityStays
<1> QED BY <1>2, <1>3, <1>4, SignInSpec, PTL DEF LoginsHold

(* Syncs that overlap, fail or meet what they cannot store: the cursor moves *)
(* past no message that is not kept, and a message is accepted once.         *)
THEOREM Syncs == Spec => []SyncsKeepAll
<1>1. Mailbox!SyncAssumption
  BY ServicesAssumptions DEF ServicesAssumptions
<1>2. Mailbox!PassedIsKept /\ Mailbox!AcceptedOnce => SyncsKeepAll
  BY DEF SyncsKeepAll
<1>3. Mailbox!Spec => []Mailbox!PassedIsKept
  BY <1>1, MailboxNoneSkipped
<1>4. Mailbox!Spec => []Mailbox!AcceptedOnce
  BY <1>1, MailboxOnce
<1> QED BY <1>2, <1>3, <1>4, MailboxSpec, PTL

(* Questions while sessions end and timers fire: one late read at most, no   *)
(* partial answer, no read for what is refused, no more than the slots.      *)
THEOREM Guarded == Spec => []QuestionsAreGuarded
<1>1. Asking!AgentAssumption
  BY ServicesAssumptions DEF ServicesAssumptions
<1>2. Asking!LogoutStopsReads /\ Asking!NoPartialAnswer
      /\ Asking!RefusedReadNothing /\ Asking!SlotsSuffice => QuestionsAreGuarded
  BY DEF QuestionsAreGuarded
<1>3. Asking!Spec => []Asking!LogoutStopsReads
  BY <1>1, LogoutStops
<1>4. Asking!Spec => []Asking!NoPartialAnswer
  BY <1>1, NothingPartial
<1>5. Asking!Spec => []Asking!RefusedReadNothing
  BY <1>1, Refused
<1>6. Asking!Spec => []Asking!SlotsSuffice
  BY <1>1, SlotsAreEnough
<1> QED BY <1>2, <1>3, <1>4, <1>5, <1>6, AskingSpec, PTL

(* Extraction, for all durations that fit together: two slots never work on  *)
(* one job, a slot that lives on ends within its lease, the calls are        *)
(* bounded and the job is settled by its deadline. Review, for all answers:  *)
(* what is missing blocks the approval, what blocks is shown but for the     *)
(* named gaps, approval and target agree, and the first answer stays.        *)
THEOREM Extractions == Spec => ExtractionsHold
<1>1. Extraction!AttemptsAssumption /\ Review!ProposalsAssumption
  BY ServicesAssumptions DEF ServicesAssumptions
<1>2. ExtractionInv => /\ Extraction!NoOverlap /\ Extraction!EndsWithinLease
                       /\ Extraction!BoundedCalls /\ Extraction!SettledByDeadline
  BY <1>1, ExtractionConsequences
<1>3. ReviewInv => Review!MissingBlocks /\ Review!GapsAreShown /\ Review!TargetsAgree
  BY <1>1, ReviewConsequences
<1>4. Extraction!Spec => []ExtractionInv
  BY <1>1, ExtractionInvariance
<1>5. Review!Spec => []ReviewInv
  BY <1>1, ReviewInvariance
<1>6. Review!Spec => Review!FirstAnswerStays
  BY <1>1, FirstAnswer
<1> QED BY <1>2, <1>3, <1>4, <1>5, <1>6, ExtractionSpec, ReviewSpec, PTL DEF ExtractionsHold

(* Deliveries and redeliveries in any order, for all limits that fit          *)
(* together: but for a title that is too long, what is accepted can be        *)
(* normalized; what is delivered again is replayed; equal rows of one file    *)
(* are two events; content is never replaced.                                 *)
THEOREM Deliveries == Spec => DeliveriesHold
<1>1. Delivery!ConnectorsAssumption
  BY ServicesAssumptions DEF ServicesAssumptions
<1>2. DeliveryInv =>
        Delivery!NormalizerAnswers /\ Delivery!RedeliveryReplays /\ Delivery!EqualRowsAreTwo
  BY DEF DeliveryInv
<1>3. Delivery!Spec => []DeliveryInv
  BY <1>1, DeliveryInvariance
<1>4. Delivery!Spec => Delivery!ContentIsFinal
  BY <1>1, ContentFinal
<1> QED BY <1>2, <1>3, <1>4, DeliverySpec, PTL DEF DeliveriesHold

\* Every variable of the component that acts has its type.
THEOREM ServicesTyped == Spec => []TypeOK
<1>1. /\ SignIn!LoginAssumption /\ Mailbox!SyncAssumption
      /\ Asking!AgentAssumption /\ Extraction!AttemptsAssumption /\ Review!ProposalsAssumption
      /\ Delivery!ConnectorsAssumption
  BY ServicesAssumptions DEF ServicesAssumptions
<1>4. ExtractionInv => Extraction!TypeOK
  BY <1>1, ExtractionConsequences
<1>5. ReviewInv => Review!TypeOK
  BY <1>1, ReviewConsequences
<1>6. Spec => []SignIn!TypeOK
  BY <1>1, SignInSpec, SignInTyped, PTL
<1>7. Spec => []Mailbox!TypeOK
  BY <1>1, MailboxSpec, MailboxTyped, PTL
<1>8. Spec => []Asking!TypeOK
  BY <1>1, AskingSpec, AsksTyped, PTL
<1>9. Spec => []ExtractionInv
  BY <1>1, ExtractionSpec, ExtractionInvariance, PTL
<1>10. Spec => []ReviewInv
  BY <1>1, ReviewSpec, ReviewInvariance, PTL
<1>11. Spec => []Delivery!TypeOK
  <2>1. DeliveryInv => Delivery!TypeOK
    BY DEF DeliveryInv
  <2>2. Delivery!Spec => []DeliveryInv
    BY <1>1, DeliveryInvariance
  <2> QED BY <2>1, <2>2, DeliverySpec, PTL
<1> DEFINE Parts == part \in {"signin", "mailbox", "questions", "extraction", "review", "deliveries"}
<1>12. Spec => []Parts
  <2>1. Init => Parts
    BY DEF Init
  <2>2. Parts /\ [Next]_vars => Parts'
    BY DEF Next, Rest, vars
  <2> QED BY <2>1, <2>2, PTL DEF Spec
<1>13. SignIn!TypeOK /\ Mailbox!TypeOK /\ Asking!TypeOK /\ Extraction!TypeOK /\ Review!TypeOK
       /\ Delivery!TypeOK /\ Parts => TypeOK
  <2>1. ASSUME part = "signin", SignIn!TypeOK PROVE TypeOK
    BY <2>1 DEF TypeOK
  <2>2. ASSUME part = "mailbox", Mailbox!TypeOK PROVE TypeOK
    BY <2>2 DEF TypeOK
  <2>3. ASSUME part = "questions", Asking!TypeOK PROVE TypeOK
    BY <2>3 DEF TypeOK
  <2>4. ASSUME part = "extraction", Extraction!TypeOK PROVE TypeOK
    BY <2>4 DEF TypeOK
  <2>5. ASSUME part = "review", Review!TypeOK PROVE TypeOK
    BY <2>5 DEF TypeOK
  <2>6. ASSUME part = "deliveries", Delivery!TypeOK PROVE TypeOK
    BY <2>6 DEF TypeOK
  <2> QED BY <2>1, <2>2, <2>3, <2>4, <2>5, <2>6
<1> QED BY <1>4, <1>5, <1>6, <1>7, <1>8, <1>9, <1>10, <1>11, <1>12, <1>13, PTL

=============================================================================
