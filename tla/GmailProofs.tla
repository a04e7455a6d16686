---------------------------- MODULE GmailProofs ----------------------------
(***************************************************************************)
(* Theorems about the Gmail connection of one owner, for every number of   *)
(* consents, callbacks, operations, disconnects and accounts.              *)
(***************************************************************************)
EXTENDS MCGmailConnection, TLAPS

-----------------------------------------------------------------------------
(* The inductive invariant *)

\* The types of the requests.
CallbackRow ==
    [pc : {"idle", "exchanging", "storing", "done"}, ticket : Tickets \cup {None},
     token : Tokens \cup {None}, account : Accounts \cup {None}]

OperationRow ==
    [pc : {"idle", "waiting", "refreshing", "syncing", "late", "done"},
     sync : BOOLEAN, row : CredentialRows]

DisconnectRow ==
    [pc : {"idle", "waiting", "revoking", "marking", "marked", "done"}, at : Nat]

\* The columns of gmail_credentials go together.
RowOK(row) ==
    /\ row.status = "absent" => row = NoRow
    /\ row.status \in Markable =>
          row.token \in Tokens /\ row.account \in Accounts /\ row.disconnected_at = 0
    /\ row.status = "revoked" =>
          row.token = None /\ row.account \in Accounts /\ row.disconnected_at = 0
    /\ row.status = "disconnected" =>
          row.token = None /\ row.account = None /\ row.disconnected_at # 0

\* Google accepts the token, or none of its consent.
Live(token) == token \in valid \/ \A k \in valid : k.ticket # token.ticket

(* A consent is spent once and for all when a callback redeems it, and the   *)
(* stored grant is never that of a callback still on its way.                *)
CallbackOK(c) ==
    LET b == callbacks[c] IN
    /\ b.ticket # None => tickets[b.ticket].pc = "gone"
    /\ b.pc = "idle" => b.ticket = None
    /\ b.pc \in {"exchanging", "storing"} =>
          b.ticket \in Tickets /\ (cred.token # None => cred.token.ticket # b.ticket)
    /\ b.pc = "storing" =>
          /\ b.token \in Tokens /\ b.token.ticket = b.ticket
          /\ b.account \in Accounts /\ Live(b.token)

Consents ==
    /\ cred.token # None => tickets[cred.token.ticket].pc = "gone"
    /\ \A c \in Callbacks : CallbackOK(c)
    /\ RedeemedOnce

(* An operation holds the row from its first statement on: what it is going  *)
(* to commit is the row as it is, but for the status and the new token.      *)
OperationOK(o) ==
    LET row == ops[o].row IN
    /\ holder = o <=> ops[o].pc \in {"refreshing", "syncing"}
    /\ holder = o =>
          /\ cred.status \in Markable /\ row.status \in Markable
          /\ row.account = cred.account /\ row.disconnected_at = 0
          /\ row.token \in Tokens /\ row.token.ticket = cred.token.ticket
    /\ ops[o].pc = "refreshing" => row.token = cred.token
    /\ ops[o].pc = "syncing" => Live(row.token) \/ row.token.ticket \in stranded

DisconnectOK(d) ==
    /\ cuts[d].pc \in {"revoking", "marked"} => holder = d
    /\ cuts[d].pc = "revoking" => cred.token # None
    /\ cuts[d].pc = "marked" => cuts[d].at # 0

Holders ==
    /\ \A o \in Operations : OperationOK(o)
    /\ \A d \in Disconnects : DisconnectOK(d)

(* The stored token is live, or its consent was stranded, or the row's       *)
(* holder has the token that replaces it.                                    *)
Kept ==
    cred.token # None =>
        \/ Live(cred.token) \/ cred.token.ticket \in stranded
        \/ \E o \in Operations : ops[o].pc = "syncing" /\ ops[o].row.token # cred.token

IInv == TypeOK /\ RowOK(cred) /\ OnlyGrantedAccount /\ Consents /\ Holders /\ Kept

\* The invariant holds before anyone connects.
LEMMA InitInv == Init => IInv
<1> SUFFICES ASSUME Init PROVE IInv
  OBVIOUS
<1> USE GmailAssumption
<1>1. NoRow \in CredentialRows
  BY DEF NoRow, CredentialRows, Statuses
<1>2. TypeOK
  BY <1>1 DEF Init, TypeOK, StateRows, Connections
<1>3. RowOK(cred) /\ cred.token = None
  BY DEF Init, RowOK, NoRow, Markable
<1>4. OnlyGrantedAccount
  BY <1>3 DEF Init, OnlyGrantedAccount
<1>5. Consents /\ Holders
  BY <1>3 DEF Init, Consents, CallbackOK, RedeemedOnce, Holders, OperationOK, DisconnectOK
<1> QED BY <1>2, <1>3, <1>4, <1>5 DEF IInv, Kept

-----------------------------------------------------------------------------
(* What a step leaves alone *)

(* A step keeps the consents when no callback moves, spent consents stay     *)
(* spent, the row takes no token of another consent, and Google touches only *)
(* the tokens of the row's.                                                  *)
LEMMA ConsentsKept ==
  ASSUME IInv, UNCHANGED callbacks,
         \A t \in Tickets : tickets[t].pc = "gone" => tickets'[t].pc = "gone",
         cred'.token # None =>
            cred.token # None /\ cred'.token.ticket = cred.token.ticket,
         \A k \in Tokens : (cred.token # None => k.ticket # cred.token.ticket)
            => (k \in valid' <=> k \in valid),
         valid' \subseteq Tokens
  PROVE  Consents'
<1>1. cred.token # None => cred.token \in Tokens /\ cred.token.ticket \in Tickets
  BY DEF IInv, TypeOK, CredentialRows, Tokens
<1>2. (cred.token # None => tickets[cred.token.ticket].pc = "gone")'
  BY <1>1 DEF IInv, Consents
<1>3. ASSUME NEW c \in Callbacks PROVE CallbackOK(c)'
  <2>1. CallbackOK(c) /\ callbacks[c].ticket \in Tickets \cup {None}
    BY DEF IInv, Consents, TypeOK
  <2>2. callbacks[c].pc = "storing" => Live(callbacks[c].token)'
    BY <2>1, <1>1 DEF CallbackOK, Live, Tokens, IInv, TypeOK
  <2> QED BY <2>1, <2>2, <1>1 DEF CallbackOK
<1>4. RedeemedOnce'
  BY DEF IInv, Consents, RedeemedOnce
<1> QED BY <1>2, <1>3, <1>4 DEF Consents

(* While x has the row, or nobody, no other request may hold it or be in     *)
(* the part of its work that needs it.                                       *)
LEMMA OthersAside ==
  ASSUME IInv, NEW x, x \in Operations \cup Disconnects \cup {None},
         holder \in {None, x}, holder' \in {None, x},
         \A p \in Operations \ {x} : ops'[p] = ops[p],
         \A d \in Disconnects \ {x} : cuts'[d] = cuts[d]
  PROVE  /\ \A p \in Operations \ {x} :
               OperationOK(p)' /\ ops[p].pc \notin {"refreshing", "syncing"}
         /\ \A d \in Disconnects \ {x} : DisconnectOK(d)'
<1> USE GmailAssumption
<1>1. ASSUME NEW p \in Operations \ {x}
      PROVE  OperationOK(p)' /\ ops[p].pc \notin {"refreshing", "syncing"}
  <2>1. OperationOK(p) /\ holder # p /\ holder' # p
    BY DEF IInv, Holders
  <2>2. ops[p].pc \notin {"refreshing", "syncing"} /\ ops'[p] = ops[p]
    BY <2>1 DEF OperationOK
  <2> QED BY <2>1, <2>2 DEF OperationOK
<1>2. ASSUME NEW d \in Disconnects \ {x} PROVE DisconnectOK(d)'
  <2>1. DisconnectOK(d) /\ holder # d /\ holder' # d /\ cuts'[d] = cuts[d]
    BY DEF IInv, Holders
  <2> QED BY <2>1 DEF DisconnectOK
<1> QED BY <1>1, <1>2

\* A step that does not touch the row, its holder's work or Google.
LEMMA RowAside ==
  ASSUME IInv, UNCHANGED <<cred, holder, conns, google>>, TypeOK', Consents',
         \A o \in Operations : \/ ops'[o] = ops[o]
                               \/ holder # o /\ ops'[o].pc \notin {"refreshing", "syncing"},
         \A d \in Disconnects : cuts'[d] = cuts[d]
                                \/ cuts'[d].pc \notin {"revoking", "marked"}
  PROVE  IInv'
<1>1. ASSUME NEW o \in Operations PROVE OperationOK(o)'
  BY DEF IInv, Holders, OperationOK, Live, google
<1>2. ASSUME NEW d \in Disconnects PROVE DisconnectOK(d)'
  BY DEF IInv, Holders, DisconnectOK
<1>3. RowOK(cred)' /\ OnlyGrantedAccount'
  BY DEF IInv, OnlyGrantedAccount, Reported, RowOK
<1>4. Kept'
  <2> SUFFICES ASSUME cred.token # None, ~Live(cred.token), cred.token.ticket \notin stranded
               PROVE  \E o \in Operations :
                         ops'[o].pc = "syncing" /\ ops'[o].row.token # cred.token
    BY DEF Kept, Live, google
  <2>1. PICK o \in Operations : ops[o].pc = "syncing" /\ ops[o].row.token # cred.token
    BY DEF IInv, Kept
  <2>2. holder = o
    BY <2>1 DEF IInv, Holders, OperationOK
  <2> QED BY <2>1, <2>2
<1> QED BY <1>1, <1>2, <1>3, <1>4 DEF IInv, Holders

-----------------------------------------------------------------------------
(* Consents *)

\* No step but an exchange and an answer of Google's changes what it accepts.
LEMMA GoogleAside ==
  ASSUME IInv, UNCHANGED <<cred, callbacks, google>>,
         \A t \in Tickets : tickets[t].pc = "gone" => tickets'[t].pc = "gone"
  PROVE  Consents'
  BY ConsentsKept DEF google, IInv, TypeOK

\* Consents that begin, are stored or expire keep the invariant.
LEMMA ConsentSteps ==
  ASSUME IInv, NEW t \in Tickets, Connect(t) \/ StoreState(t) \/ ExpireState(t)
  PROVE  IInv'
<1>1. /\ UNCHANGED <<cred, callbacks, ops, cuts, holder, conns, lastCut, google>>
      /\ \A u \in Tickets : tickets[u].pc = "gone" => tickets'[u].pc = "gone"
  BY DEF Connect, StoreState, ExpireState, IInv, TypeOK, StateRows
<1>2. clock' \in Nat /\ tickets' \in [Tickets -> StateRows]
  BY DEF Connect, StoreState, ExpireState, IInv, TypeOK, StateRows
<1>3. TypeOK'
  BY <1>1, <1>2 DEF IInv, TypeOK, google
<1> QED BY <1>1, <1>3, GoogleAside, RowAside

\* The owner removes the access at Google: every token of the consent goes.
LEMMA RemovedAtGoogleStep ==
  ASSUME IInv, NEW t \in Tickets, RemovedAtGoogle(t)
  PROVE  IInv'
<1>1. /\ valid' = {k \in valid : k.ticket # t}
      /\ UNCHANGED <<clock, cred, tickets, callbacks, ops, cuts, holder, conns, lastCut,
                     issued, stranded>>
  BY DEF RemovedAtGoogle
<1>2. TypeOK'
  BY <1>1 DEF IInv, TypeOK
<1>3. ASSUME NEW k, Live(k) PROVE Live(k)'
  BY <1>1, <1>3 DEF Live
<1>4. Consents'
  <2>1. ASSUME NEW c \in Callbacks PROVE CallbackOK(c)'
    BY <1>1, <1>3 DEF IInv, Consents, CallbackOK
  <2> QED BY <2>1, <1>1 DEF IInv, Consents, RedeemedOnce
<1>5. Holders'
  <2>1. ASSUME NEW o \in Operations PROVE OperationOK(o)'
    BY <1>1, <1>3 DEF IInv, Holders, OperationOK
  <2> QED BY <2>1, <1>1 DEF IInv, Holders, DisconnectOK
<1>6. Kept'
  BY <1>1, <1>3 DEF IInv, Kept
<1>7. RowOK(cred)' /\ OnlyGrantedAccount'
  BY <1>1 DEF IInv, RowOK, OnlyGrantedAccount, Reported
<1> QED BY <1>2, <1>4, <1>5, <1>6, <1>7 DEF IInv

-----------------------------------------------------------------------------
(* Callbacks *)

(* A callback redeems a consent nobody redeemed before: a spent one is not   *)
(* pending any more.                                                         *)
LEMMA ConsumeStep ==
  ASSUME IInv, NEW c \in Callbacks, NEW t \in Tickets, Consume(c, t)
  PROVE  IInv'
<1> USE GmailAssumption
<1>1. /\ tickets[t].pc = "pending"
      /\ tickets' = [tickets EXCEPT ![t].pc = "gone"]
      /\ callbacks' = [callbacks EXCEPT ![c].pc = "exchanging", ![c].ticket = t]
      /\ UNCHANGED <<clock, cred, ops, cuts, holder, conns, lastCut, google>>
  BY DEF Consume, Consumed
<1>2. tickets' \in [Tickets -> StateRows] /\ callbacks'[c].ticket = t
      /\ callbacks'[c].pc = "exchanging" /\ tickets'[t].pc = "gone"
      /\ \A e \in Callbacks \ {c} : callbacks'[e] = callbacks[e]
      /\ \A u \in Tickets : tickets[u].pc = "gone" => tickets'[u].pc = "gone"
  BY <1>1 DEF IInv, TypeOK, StateRows
<1>3. TypeOK'
  <2>1. callbacks' \in [Callbacks -> CallbackRow]
    <3>1. callbacks[c] \in CallbackRow
      BY DEF IInv, TypeOK, CallbackRow
    <3>2. [callbacks[c] EXCEPT !.pc = "exchanging"] \in CallbackRow
      BY <3>1 DEF CallbackRow
    <3> QED BY <3>1, <1>1 DEF IInv, TypeOK, CallbackRow
  <2> QED BY <1>1, <1>2, <2>1 DEF IInv, TypeOK, CallbackRow, google
<1>4. \A e \in Callbacks : callbacks[e].ticket # t
  BY <1>1 DEF IInv, Consents, CallbackOK
<1>5. cred.token # None => cred.token.ticket \in Tickets /\ cred.token.ticket # t
                           /\ tickets'[cred.token.ticket].pc = "gone"
  BY <1>1, <1>2 DEF IInv, Consents, TypeOK, CredentialRows, Tokens
<1>6. ASSUME NEW e \in Callbacks PROVE CallbackOK(e)'
  <2>1. CASE e = c
    BY <2>1, <1>1, <1>2, <1>5 DEF CallbackOK
  <2>2. CASE e # c
    <3>1. CallbackOK(e) /\ callbacks'[e] = callbacks[e]
          /\ callbacks[e].ticket \in Tickets \cup {None}
      BY <2>2, <1>2 DEF IInv, Consents, TypeOK
    <3> QED BY <3>1, <1>1, <1>2 DEF CallbackOK, Live, google
  <2> QED BY <2>1, <2>2
<1>7. RedeemedOnce'
  BY <1>2, <1>4 DEF IInv, Consents, RedeemedOnce
<1>8. Consents'
  BY <1>1, <1>5, <1>6, <1>7 DEF Consents
<1> QED BY <1>1, <1>3, <1>8, RowAside

\* ExchangeFails keeps the invariant.
LEMMA ExchangeFailsStep ==
  ASSUME IInv, NEW c \in Callbacks, ExchangeFails(c)
  PROVE  IInv'
<1>1. /\ callbacks' = [callbacks EXCEPT ![c].pc = "done"]
      /\ UNCHANGED <<clock, cred, tickets, ops, cuts, holder, conns, lastCut, google>>
  BY DEF ExchangeFails
<1>2. /\ callbacks'[c].ticket = callbacks[c].ticket /\ callbacks'[c].pc = "done"
      /\ \A e \in Callbacks \ {c} : callbacks'[e] = callbacks[e]
  BY <1>1 DEF IInv, TypeOK
<1>3. TypeOK'
  BY <1>1 DEF IInv, TypeOK, google
<1>4. ASSUME NEW e \in Callbacks PROVE CallbackOK(e)'
  <2>1. CallbackOK(e)
    BY DEF IInv, Consents
  <2>2. CASE e = c
    BY <2>1, <2>2, <1>1, <1>2 DEF CallbackOK
  <2>3. CASE e # c
    BY <2>1, <2>3, <1>1, <1>2 DEF CallbackOK, Live, google
  <2> QED BY <2>2, <2>3
<1>5. RedeemedOnce'
  BY <1>2 DEF IInv, Consents, RedeemedOnce
<1>6. Consents'
  BY <1>1, <1>4, <1>5 DEF IInv, Consents
<1> QED BY <1>1, <1>3, <1>6, RowAside

(* Google issues the first token of a consent: no other callback and no row  *)
(* has a token of that consent.                                              *)
LEMMA ExchangeStep ==
  ASSUME IInv, NEW c \in Callbacks, NEW a \in Accounts, Exchange(c, a)
  PROVE  IInv'
<1> USE GmailAssumption
<1>1. PICK t : t = callbacks[c].ticket
  OBVIOUS
<1>2. /\ callbacks[c].pc = "exchanging" /\ CallbackOK(c)
      /\ t \in Tickets /\ (cred.token # None => cred.token.ticket # t)
  BY <1>1 DEF Exchange, IInv, Consents, CallbackOK
<1>0. 1 \in 1..MaxVersion /\ 1 \in 0..MaxVersion
  OBVIOUS
<1>3. PICK k \in Tokens : k = [ticket |-> t, version |-> 1]
  <2>1. [ticket |-> t, version |-> 1] \in Tokens
    BY <1>0, <1>2 DEF Tokens
  <2> QED BY <2>1
<1>4. /\ issued' = [issued EXCEPT ![t] = 1] /\ valid' = valid \cup {k}
      /\ callbacks' = [callbacks EXCEPT ![c].pc = "storing", ![c].account = a, ![c].token = k]
      /\ UNCHANGED <<clock, cred, tickets, ops, cuts, holder, conns, lastCut, stranded>>
  BY <1>1, <1>3 DEF Exchange
<1>5. k.ticket = t
  BY <1>3
<1>6. /\ callbacks'[c].ticket = t /\ callbacks'[c].pc = "storing"
      /\ callbacks'[c].account = a /\ callbacks'[c].token = k
      /\ \A e \in Callbacks \ {c} : callbacks'[e] = callbacks[e]
  BY <1>1, <1>4 DEF IInv, TypeOK
<1>7. TypeOK'
  <2>1. callbacks' \in [Callbacks -> CallbackRow]
    <3>1. callbacks[c] \in CallbackRow /\ k \in Tokens /\ a \in Accounts
      BY DEF IInv, TypeOK, CallbackRow
    <3>2. [callbacks[c] EXCEPT !.pc = "storing"] \in CallbackRow
      BY <3>1 DEF CallbackRow
    <3> QED BY <3>1, <1>4 DEF IInv, TypeOK, CallbackRow
  <2>2. issued' \in [Tickets -> 0..MaxVersion]
    BY <1>0, <1>4 DEF IInv, TypeOK
  <2> QED BY <1>4, <2>1, <2>2 DEF IInv, TypeOK, CallbackRow
<1>8. ASSUME NEW l, l.ticket # t, Live(l) PROVE Live(l)'
  BY <1>8, <1>4, <1>5 DEF Live
<1>9. ASSUME NEW e \in Callbacks PROVE CallbackOK(e)'
  <2>1. CallbackOK(e)
    BY DEF IInv, Consents
  <2>2. CASE e = c
    <3>1. Live(k)'
      BY <1>4 DEF Live
    <3> QED BY <2>2, <3>1, <1>1, <1>2, <1>4, <1>5, <1>6 DEF CallbackOK
  <2>3. CASE e # c
    <3>1. callbacks'[e] = callbacks[e] /\ callbacks[e].ticket # t
      BY <2>3, <1>1, <1>2, <1>6 DEF IInv, Consents, RedeemedOnce
    <3> QED BY <2>1, <3>1, <1>4, <1>8 DEF CallbackOK
  <2> QED BY <2>2, <2>3
<1>10. RedeemedOnce'
  BY <1>1, <1>6 DEF IInv, Consents, RedeemedOnce
<1>11. Consents'
  BY <1>4, <1>9, <1>10 DEF IInv, Consents
<1>12. ASSUME NEW o \in Operations PROVE OperationOK(o)'
  <2>1. OperationOK(o) /\ RowOK(cred)
    BY DEF IInv, Holders
  <2>2. ops[o].pc = "syncing" => ops[o].row.token.ticket # t
    BY <2>1, <1>2 DEF OperationOK, RowOK, Tokens, IInv, TypeOK, CredentialRows
  <2> QED BY <2>1, <2>2, <1>4, <1>8 DEF OperationOK
<1>13. ASSUME NEW d \in Disconnects PROVE DisconnectOK(d)'
  BY <1>4 DEF IInv, Holders, DisconnectOK
<1>14. Kept'
  BY <1>2, <1>4, <1>8 DEF IInv, Kept
<1>15. RowOK(cred)' /\ OnlyGrantedAccount'
  BY <1>4 DEF IInv, RowOK, OnlyGrantedAccount, Reported
<1> QED BY <1>7, <1>11, <1>12, <1>13, <1>14, <1>15 DEF IInv, Holders

(* The grant is stored, or refused: its consent leaves the callbacks, and it *)
(* alone is the row's.                                                       *)
LEMMA StoreGrantStep ==
  ASSUME IInv, NEW c \in Callbacks, StoreGrant(c)
  PROVE  IInv'
<1> USE GmailAssumption
<1>1. PICK b : b = callbacks[c]
  OBVIOUS
<1>2. /\ b \in CallbackRow /\ b.ticket \in Tickets /\ b.token \in Tokens /\ b.token # None
      /\ b.token.ticket = b.ticket /\ b.account \in Accounts /\ Live(b.token)
      /\ tickets[b.ticket].pc = "gone"
  <2>1. CallbackOK(c) /\ b.pc = "storing" /\ b \in CallbackRow
    BY <1>1 DEF StoreGrant, IInv, Consents, TypeOK, CallbackRow
  <2> QED BY <2>1, <1>1 DEF CallbackOK, Tokens
<1>3. /\ holder = None
      /\ callbacks' = [callbacks EXCEPT ![c].pc = "done"]
      /\ UNCHANGED <<clock, tickets, ops, cuts, holder, lastCut, google>>
  BY DEF StoreGrant
<1>4. /\ callbacks'[c].ticket = b.ticket /\ callbacks'[c].pc = "done"
      /\ \A e \in Callbacks \ {c} : callbacks'[e] = callbacks[e]
      /\ callbacks' \in [Callbacks -> CallbackRow]
  <2>1. [callbacks[c] EXCEPT !.pc = "done"] \in CallbackRow
    <3>1. callbacks[c] \in CallbackRow
      BY DEF IInv, TypeOK, CallbackRow
    <3> QED BY <3>1 DEF CallbackRow
  <2>2. callbacks' \in [Callbacks -> CallbackRow]
    BY <1>3, <2>1 DEF IInv, TypeOK, CallbackRow
  <2> QED BY <1>1, <1>3, <2>2 DEF IInv, TypeOK, CallbackRow
<1>5. \A l : Live(l) => Live(l)'
  BY <1>3 DEF Live, google
<1>6. CASE UNCHANGED <<cred, conns>>
  <2>1. TypeOK'
    BY <1>3, <1>4, <1>6 DEF IInv, TypeOK, CallbackRow, google
  <2>2. ASSUME NEW e \in Callbacks PROVE CallbackOK(e)'
    <3>1. CallbackOK(e)
      BY DEF IInv, Consents
    <3> QED BY <3>1, <1>1, <1>3, <1>4, <1>5, <1>6 DEF CallbackOK
  <2>3. RedeemedOnce'
    BY <1>1, <1>4 DEF IInv, Consents, RedeemedOnce
  <2>4. Consents'
    BY <1>3, <1>6, <2>2, <2>3 DEF IInv, Consents
  <2> QED BY <1>3, <1>6, <2>1, <2>4, RowAside
<1>7. CASE /\ cred' = [status |-> "connected", token |-> b.token, account |-> b.account,
                       disconnected_at |-> 0]
           /\ conns' = SwitchedTo(b.account)
  <2>1. cred' \in CredentialRows /\ RowOK(cred)'
    BY <1>2, <1>7 DEF CredentialRows, Statuses, RowOK, Markable
  <2>2. conns' \in Connections
    <3>1. \A a \in Accounts : conns'[a] \in {"none", "active", "disconnected"}
      BY <1>7 DEF SwitchedTo
    <3> QED BY <3>1, <1>7 DEF SwitchedTo, Connections
  <2>3. TypeOK'
    BY <1>3, <1>4, <2>1, <2>2 DEF IInv, TypeOK, CallbackRow, google
  <2>4. ASSUME NEW e \in Callbacks PROVE CallbackOK(e)'
    <3>1. CallbackOK(e)
      BY DEF IInv, Consents
    <3>2. CASE e = c
      BY <3>1, <3>2, <1>1, <1>3, <1>4 DEF CallbackOK
    <3>3. CASE e # c
      <4>1. callbacks'[e] = callbacks[e] /\ callbacks[e].ticket # b.ticket
        BY <3>3, <1>1, <1>2, <1>4 DEF IInv, Consents, RedeemedOnce
      <4> QED BY <3>1, <4>1, <1>2, <1>3, <1>5, <1>7 DEF CallbackOK
    <3> QED BY <3>2, <3>3
  <2>5. RedeemedOnce'
    BY <1>1, <1>4 DEF IInv, Consents, RedeemedOnce
  <2>6. Consents'
    BY <1>2, <1>3, <1>7, <2>4, <2>5 DEF Consents
  <2>7. OnlyGrantedAccount'
    BY <1>7 DEF OnlyGrantedAccount, Reported, SwitchedTo
  <2>8. Holders'
    BY <1>3, OthersAside DEF Holders
  <2>9. Kept'
    BY <1>2, <1>5, <1>7 DEF Kept
  <2> QED BY <2>1, <2>3, <2>6, <2>7, <2>8, <2>9 DEF IInv
<1> QED BY <1>1, <1>6, <1>7 DEF StoreGrant

-----------------------------------------------------------------------------
(* Refresh and sync *)

(* What the transaction of the row's holder leaves behind: the row keeps its *)
(* account and its consent, and with them every other part of the state.     *)
LeavesGoogle(row) ==
    /\ valid' \subseteq Tokens /\ issued' \in [Tickets -> 0..MaxVersion]
    /\ stranded' \subseteq Tickets
    /\ \A k \in Tokens : k.ticket # cred.token.ticket => (k \in valid' <=> k \in valid)
    /\ row.token # None => Live(row.token)' \/ row.token.ticket \in stranded'

\* A request that ends gives up its copy of the row.
LEMMA Ending ==
  ASSUME TypeOK, NEW o \in Operations, NEW pc \in {"late", "done"},
         ops' = [ops EXCEPT ![o].pc = pc, ![o].row = NoRow]
  PROVE  /\ ops' \in [Operations -> OperationRow]
         /\ ops'[o].pc = pc
         /\ \A p \in Operations \ {o} : ops'[p] = ops[p]
<1>1. NoRow \in CredentialRows
  BY DEF NoRow, CredentialRows, Statuses
<1>2. [ops[o] EXCEPT !.pc = pc] \in OperationRow
  BY DEF TypeOK, OperationRow
<1> QED BY <1>1, <1>2 DEF TypeOK, OperationRow

\* The row's holder commits.
LEMMA CommitStep ==
  ASSUME IInv, NEW o \in Operations, holder = o, NEW row \in CredentialRows,
         Commit(o, row), RowOK(row), row.status \in Markable \cup {"revoked"},
         row.account = cred.account,
         row.token # None => row.token.ticket = cred.token.ticket,
         LeavesGoogle(row),
         UNCHANGED <<clock, tickets, callbacks, cuts, conns, lastCut>>
  PROVE  IInv'
<1> USE GmailAssumption
<1>1. cred' = row /\ holder' = None /\ ops' = [ops EXCEPT ![o].pc = "done", ![o].row = NoRow]
  BY DEF Commit, End
<1>2. /\ ops' \in [Operations -> OperationRow] /\ ops'[o].pc = "done"
      /\ \A p \in Operations \ {o} : ops'[p] = ops[p]
  BY <1>1, Ending DEF IInv
<1>3. TypeOK'
  BY <1>1, <1>2 DEF IInv, TypeOK, OperationRow, LeavesGoogle
<1>4. cred.token \in Tokens /\ cred.token # None /\ cred.status \in Markable
  BY DEF IInv, RowOK, Holders, OperationOK, Tokens
<1>5. Consents'
  BY <1>1, <1>4, ConsentsKept DEF LeavesGoogle
<1>6. /\ \A p \in Operations \ {o} : OperationOK(p)'
      /\ \A d \in Disconnects \ {o} : DisconnectOK(d)'
  BY <1>1, <1>2, OthersAside
<1>7. OperationOK(o)'
  BY <1>1, <1>2 DEF OperationOK
<1>8. Holders'
  BY <1>6, <1>7 DEF Holders
<1>9. Kept' /\ RowOK(cred)'
  BY <1>1 DEF Kept, LeavesGoogle
<1>10. OnlyGrantedAccount'
  BY <1>1, <1>4 DEF IInv, OnlyGrantedAccount, Reported, Markable
<1> QED BY <1>3, <1>5, <1>8, <1>9, <1>10 DEF IInv

(* The transaction rolls back: the row stays, and a token that was to        *)
(* replace its own is lost.                                                  *)
LEMMA RollbackStep ==
  ASSUME IInv, NEW o \in Operations, holder = o, NEW pc \in {"late", "done"},
         ops' = [ops EXCEPT ![o].pc = pc, ![o].row = NoRow],
         holder' = None, stranded' = Dropped(o),
         UNCHANGED <<clock, cred, tickets, callbacks, cuts, conns, lastCut, valid, issued>>
  PROVE  IInv'
<1> USE GmailAssumption
<1>1. /\ ops' \in [Operations -> OperationRow] /\ ops'[o].pc = pc
      /\ \A p \in Operations \ {o} : ops'[p] = ops[p]
  BY Ending DEF IInv
<1>2. /\ cred.token \in Tokens /\ cred.token # None /\ cred.token.ticket \in Tickets
      /\ OperationOK(o)
  BY DEF IInv, RowOK, Holders, OperationOK, Tokens
<1>3. stranded' \subseteq Tickets /\ stranded \subseteq stranded'
  BY <1>2 DEF Dropped, IInv, TypeOK
<1>4. TypeOK'
  BY <1>1, <1>3 DEF IInv, TypeOK, OperationRow
<1>5. Consents'
  BY ConsentsKept DEF IInv, TypeOK
<1>6. /\ \A p \in Operations \ {o} : OperationOK(p)' /\ ops[p].pc # "syncing"
      /\ \A d \in Disconnects \ {o} : DisconnectOK(d)'
  BY <1>1, OthersAside
<1>7. OperationOK(o)'
  BY <1>1 DEF OperationOK
<1>8. Holders'
  BY <1>6, <1>7 DEF Holders
<1>9. Kept'
  <2>1. CASE ops[o].pc = "syncing" /\ ops[o].row.token # cred.token
    BY <2>1 DEF Kept, Dropped
  <2>2. CASE ops[o].pc = "syncing" /\ ops[o].row.token = cred.token
    BY <2>2, <1>2, <1>3 DEF Kept, OperationOK, Live
  <2>3. CASE ops[o].pc # "syncing"
    BY <2>3, <1>3, <1>6 DEF IInv, Kept, Live
  <2> QED BY <2>1, <2>2, <2>3
<1>10. RowOK(cred)' /\ OnlyGrantedAccount'
  BY DEF IInv, RowOK, OnlyGrantedAccount, Reported
<1> QED BY <1>4, <1>5, <1>8, <1>9, <1>10 DEF IInv
(* What Google answers is a token of the same consent, and of the others it  *)
(* accepts what it accepted.                                                 *)
LEMMA Answered ==
  ASSUME IInv, NEW token \in Tokens, token \in valid, NEW answer \in Tokens,
         Answers(token, answer)
  PROVE  /\ answer.ticket = token.ticket /\ answer \in valid'
         /\ valid' \subseteq Tokens /\ issued' \in [Tickets -> 0..MaxVersion]
         /\ \A k \in Tokens : k.ticket # token.ticket => (k \in valid' <=> k \in valid)
         /\ answer = token => valid' = valid
<1>1. CASE answer = token /\ UNCHANGED <<valid, issued>>
  BY <1>1 DEF IInv, TypeOK
<1>2. CASE /\ issued[token.ticket] < MaxVersion
           /\ answer = Replace(token)
           /\ issued' = [issued EXCEPT ![token.ticket] = @ + 1]
           /\ valid' \in {valid \cup {answer}, (valid \ {token}) \cup {answer}}
  <2>1. answer.ticket = token.ticket /\ answer \in valid' /\ valid' \subseteq Tokens
    BY <1>2 DEF Replace, Tokens, IInv, TypeOK
  <2>2. token.ticket \in Tickets /\ issued[token.ticket] \in 0..MaxVersion
    BY DEF IInv, TypeOK, Tokens
  <2>3. issued' \in [Tickets -> 0..MaxVersion]
    BY <1>2, <2>2, GmailAssumption DEF IInv, TypeOK
  <2>4. \A k \in Tokens : k.ticket # token.ticket => (k \in valid' <=> k \in valid)
    BY <1>2, <2>1
  <2>5. answer = token => valid' = valid
    BY <1>2
  <2> QED BY <2>1, <2>3, <2>4, <2>5
<1> QED BY <1>1, <1>2 DEF Answers

\* Only the status of the holder's copy and its token may differ from the row.
LEMMA HoldersCopy ==
  ASSUME IInv, NEW o \in Operations, ops[o].pc \in {"refreshing", "syncing"}
  PROVE  /\ holder = o
         /\ cred.status \in Markable /\ cred.token \in Tokens /\ cred.token # None
         /\ cred.account \in Accounts /\ cred.disconnected_at = 0
         /\ ops[o].row \in CredentialRows /\ ops[o].row.status \in Markable
         /\ ops[o].row.account = cred.account /\ ops[o].row.disconnected_at = 0
         /\ ops[o].row.token \in Tokens
         /\ ops[o].row.token.ticket = cred.token.ticket
         /\ ops[o].pc = "refreshing" => ops[o].row.token = cred.token
         /\ ops[o].pc = "syncing" =>
               Live(ops[o].row.token) \/ ops[o].row.token.ticket \in stranded
<1>1. OperationOK(o) /\ RowOK(cred)
  BY DEF IInv, Holders
<1>2. ops[o].row \in CredentialRows
  BY DEF IInv, TypeOK
<1>3. None \notin Tokens
  BY GmailAssumption DEF Tokens
<1> QED BY <1>1, <1>2, <1>3 DEF OperationOK, RowOK

\* A copy whose status is set to error is a row as well.
LEMMA Marked ==
  ASSUME NEW row \in CredentialRows, row.account \in Accounts, row.disconnected_at = 0,
         row.token \in Tokens, NEW new, new = [row EXCEPT !.status = "error"]
  PROVE  /\ new \in CredentialRows /\ RowOK(new) /\ new.status = "error"
         /\ new.token = row.token /\ new.account = row.account
<1>1. /\ new \in CredentialRows /\ new.status = "error" /\ new.token = row.token
      /\ new.account = row.account /\ new.disconnected_at = 0
  BY DEF CredentialRows, Statuses
<1>2. RowOK(new)
  BY <1>1 DEF RowOK, Markable
<1> QED BY <1>1, <1>2

\* A sync or a mailbox request that begins keeps the invariant.
LEMMA RequestStep ==
  ASSUME IInv, NEW o \in Operations, NEW sync \in BOOLEAN, Request(o, sync)
  PROVE  IInv'
<1>1. /\ ops[o].pc = "idle"
      /\ ops' = [ops EXCEPT ![o].pc = "waiting", ![o].sync = sync]
      /\ UNCHANGED <<clock, cred, tickets, callbacks, cuts, holder, conns, lastCut, google>>
  BY DEF Request
<1>2. [ops[o] EXCEPT !.pc = "waiting"] \in OperationRow
  BY DEF IInv, TypeOK, OperationRow
<1>3. /\ ops' \in [Operations -> OperationRow] /\ ops'[o].pc = "waiting"
      /\ \A p \in Operations \ {o} : ops'[p] = ops[p]
  BY <1>1, <1>2 DEF IInv, TypeOK, OperationRow
<1>4. TypeOK'
  BY <1>1, <1>3 DEF IInv, TypeOK, OperationRow, google
<1>5. holder # o
  BY <1>1 DEF IInv, Holders, OperationOK
<1> QED BY <1>1, <1>3, <1>4, <1>5, GoogleAside, RowAside

\* GiveUp keeps the invariant.
LEMMA GiveUpStep ==
  ASSUME IInv, NEW o \in Operations, GiveUp(o)
  PROVE  IInv'
<1>1. /\ ops[o].pc = "late" /\ ops' = [ops EXCEPT ![o].pc = "done", ![o].row = NoRow]
      /\ UNCHANGED <<clock, cred, tickets, callbacks, cuts, holder, conns, lastCut, google>>
  BY DEF GiveUp, End
<1>2. /\ ops' \in [Operations -> OperationRow] /\ ops'[o].pc = "done"
      /\ \A p \in Operations \ {o} : ops'[p] = ops[p]
  BY <1>1, Ending DEF IInv
<1>3. TypeOK'
  BY <1>1, <1>2 DEF IInv, TypeOK, OperationRow, google
<1>4. holder # o
  BY <1>1 DEF IInv, Holders, OperationOK
<1> QED BY <1>1, <1>2, <1>3, <1>4, GoogleAside, RowAside

\* Lock keeps the invariant.
LEMMA LockStep ==
  ASSUME IInv, NEW o \in Operations, Lock(o)
  PROVE  IInv'
<1> USE GmailAssumption
<1>1. /\ ops[o].pc = "waiting" /\ holder = None
      /\ UNCHANGED <<clock, cred, tickets, callbacks, cuts, conns, lastCut, google>>
  BY DEF Lock
<1>2. CASE ops' = End(o) /\ UNCHANGED holder
  <2>1. /\ ops' \in [Operations -> OperationRow] /\ ops'[o].pc = "done"
        /\ \A p \in Operations \ {o} : ops'[p] = ops[p]
    BY <1>2, Ending DEF IInv, End
  <2>2. TypeOK'
    BY <1>1, <1>2, <2>1 DEF IInv, TypeOK, OperationRow, google
  <2> QED BY <1>1, <1>2, <2>1, <2>2, GoogleAside, RowAside
<1>3. CASE /\ cred.status \in Markable /\ holder' = o
           /\ ops' = [ops EXCEPT ![o].pc = "refreshing", ![o].row = cred]
  <2>1. [ops[o] EXCEPT !.pc = "refreshing"] \in OperationRow /\ cred \in CredentialRows
    BY DEF IInv, TypeOK, OperationRow
  <2>2. /\ ops' \in [Operations -> OperationRow]
        /\ ops'[o].pc = "refreshing" /\ ops'[o].row = cred
        /\ \A p \in Operations \ {o} : ops'[p] = ops[p]
    BY <1>3, <2>1 DEF IInv, TypeOK, OperationRow
  <2>3. TypeOK'
    BY <1>1, <1>3, <2>2 DEF IInv, TypeOK, OperationRow, google
  <2>4. /\ \A p \in Operations \ {o} : OperationOK(p)' /\ ops[p].pc # "syncing"
        /\ \A d \in Disconnects \ {o} : DisconnectOK(d)'
    BY <1>1, <1>3, <2>2, OthersAside
  <2>5. OperationOK(o)'
    BY <1>1, <1>3, <2>2 DEF OperationOK, IInv, RowOK
  <2>6. Holders'
    BY <2>4, <2>5 DEF Holders
  <2>7. Kept'
    BY <1>1, <2>4 DEF IInv, Kept, Live, google
  <2>8. RowOK(cred)' /\ OnlyGrantedAccount'
    BY <1>1 DEF IInv, RowOK, OnlyGrantedAccount, Reported
  <2>9. Consents'
    BY <1>1, GoogleAside
  <2> QED BY <2>3, <2>6, <2>7, <2>8, <2>9 DEF IInv
<1> QED BY <1>2, <1>3 DEF Lock, Markable
(* Google answered: a sync goes on with the token it got, in the open        *)
(* transaction, and a refresh commits it.                                    *)
LEMMA RefreshOkStep ==
  ASSUME IInv, NEW o \in Operations, RefreshOk(o)
  PROVE  IInv'
<1>1. /\ ops[o].pc = "refreshing" /\ ops[o].row.token \in valid
      /\ UNCHANGED <<clock, tickets, callbacks, cuts, conns, lastCut, stranded>>
  BY DEF RefreshOk
<1>2. PICK answer \in Tokens :
        /\ Answers(ops[o].row.token, answer)
        /\ \/ /\ ops[o].sync
              /\ ops' = [ops EXCEPT ![o].pc = "syncing",
                                    ![o].row = Refreshed(ops[o].row, answer)]
              /\ UNCHANGED <<cred, holder>>
           \/ ~ops[o].sync /\ Commit(o, Refreshed(ops[o].row, answer))
  BY DEF RefreshOk
<1>3. /\ answer.ticket = cred.token.ticket /\ answer \in valid'
      /\ valid' \subseteq Tokens /\ issued' \in [Tickets -> 0..MaxVersion]
      /\ \A k \in Tokens : k.ticket # cred.token.ticket => (k \in valid' <=> k \in valid)
      /\ answer = cred.token => valid' = valid
  BY <1>1, <1>2, HoldersCopy, Answered
<1>0. PICK row : row = [ops[o].row EXCEPT !.status = "connected", !.token = answer]
  OBVIOUS
<1>4. /\ row \in CredentialRows /\ RowOK(row)
      /\ row.status = "connected" /\ row.token = answer
      /\ row.account = cred.account /\ row.disconnected_at = 0
  <2>1. ops[o].row \in CredentialRows /\ ops[o].row.account \in Accounts
        /\ ops[o].row.account = cred.account /\ ops[o].row.disconnected_at = 0
    BY <1>1, HoldersCopy
  <2>2. /\ row \in CredentialRows /\ row.status = "connected" /\ row.token = answer
        /\ row.account = ops[o].row.account /\ row.disconnected_at = 0
    BY <1>0, <2>1 DEF CredentialRows, Statuses
  <2> QED BY <2>1, <2>2 DEF RowOK, Markable
<1>5. LeavesGoogle(row)
  BY <1>1, <1>3, <1>4 DEF LeavesGoogle, Live, IInv, TypeOK
<1>6. CASE Commit(o, row)
  BY <1>1, <1>3, <1>4, <1>5, <1>6, HoldersCopy, CommitStep DEF Markable
<1>7. CASE /\ ops' = [ops EXCEPT ![o].pc = "syncing", ![o].row = row]
           /\ UNCHANGED <<cred, holder>>
  <2>1. [ops[o] EXCEPT !.pc = "syncing"] \in OperationRow
    BY DEF IInv, TypeOK, OperationRow
  <2>2. /\ ops' \in [Operations -> OperationRow]
        /\ ops'[o].pc = "syncing" /\ ops'[o].row = row
        /\ \A p \in Operations \ {o} : ops'[p] = ops[p]
    BY <1>4, <1>7, <2>1 DEF IInv, TypeOK, OperationRow
  <2>3. TypeOK'
    BY <1>1, <1>3, <1>7, <2>2 DEF IInv, TypeOK, OperationRow
  <2>4. Consents'
    BY <1>1, <1>3, <1>7, HoldersCopy, ConsentsKept
  <2>5. /\ \A p \in Operations \ {o} : OperationOK(p)'
        /\ \A d \in Disconnects \ {o} : DisconnectOK(d)'
    BY <1>1, <1>7, <2>2, HoldersCopy, OthersAside
  <2>6. OperationOK(o)'
    BY <1>1, <1>3, <1>4, <1>7, <2>2, HoldersCopy DEF OperationOK, Live, Markable
  <2>7. Holders'
    BY <2>5, <2>6, GmailAssumption DEF Holders
  <2>8. Kept'
    <3>1. CASE answer = cred.token
      BY <3>1, <1>3, <1>7 DEF Kept, Live
    <3>2. CASE answer # cred.token
      BY <3>2, <1>4, <1>7, <2>2 DEF Kept
    <3> QED BY <3>1, <3>2
  <2>9. RowOK(cred)' /\ OnlyGrantedAccount'
    BY <1>1, <1>7 DEF IInv, RowOK, OnlyGrantedAccount, Reported
  <2> QED BY <2>3, <2>4, <2>7, <2>8, <2>9 DEF IInv
<1> QED BY <1>0, <1>2, <1>6, <1>7 DEF Refreshed

\* RefreshRevoked keeps the invariant.
LEMMA RefreshRevokedStep ==
  ASSUME IInv, NEW o \in Operations, RefreshRevoked(o)
  PROVE  IInv'
<1> PICK row : row = [ops[o].row EXCEPT !.status = "revoked", !.token = None]
  OBVIOUS
<1>1. /\ ops[o].pc = "refreshing" /\ Commit(o, row)
      /\ UNCHANGED <<clock, tickets, callbacks, cuts, conns, lastCut, google>>
  BY DEF RefreshRevoked
<1>2. /\ row \in CredentialRows /\ row.status = "revoked" /\ row.token = None
      /\ row.account = cred.account /\ row.account \in Accounts /\ row.disconnected_at = 0
  BY <1>1, HoldersCopy DEF CredentialRows, Statuses
<1>3. RowOK(row)
  BY <1>2 DEF RowOK, Markable
<1>4. LeavesGoogle(row)
  BY <1>1, <1>2 DEF LeavesGoogle, google, IInv, TypeOK
<1> QED BY <1>1, <1>2, <1>3, <1>4, HoldersCopy, CommitStep

\* RefreshFails keeps the invariant.
LEMMA RefreshFailsStep ==
  ASSUME IInv, NEW o \in Operations, RefreshFails(o)
  PROVE  IInv'
<1> PICK row : row = [ops[o].row EXCEPT !.status = "error"]
  OBVIOUS
<1>1. /\ ops[o].pc = "refreshing" /\ Commit(o, row)
      /\ UNCHANGED <<clock, tickets, callbacks, cuts, conns, lastCut, google>>
  BY DEF RefreshFails
<1>2. /\ row \in CredentialRows /\ RowOK(row) /\ row.status = "error"
      /\ row.token = cred.token /\ row.account = cred.account
  BY <1>1, HoldersCopy, Marked
<1>3. Live(cred.token) \/ cred.token.ticket \in stranded
  <2>1. \A p \in Operations : ops[p].pc # "syncing"
    BY <1>1 DEF IInv, Holders, OperationOK
  <2> QED BY <1>1, <2>1, HoldersCopy DEF IInv, Kept
<1>4. LeavesGoogle(row)
  BY <1>1, <1>2, <1>3 DEF LeavesGoogle, google, Live, IInv, TypeOK
<1> QED BY <1>1, <1>2, <1>4, HoldersCopy, CommitStep DEF Markable

\* An answer that is refused may have replaced the token that is kept.
LEMMA RefreshUnusableStep ==
  ASSUME IInv, NEW o \in Operations, RefreshUnusable(o)
  PROVE  IInv'
<1> PICK row : row = [ops[o].row EXCEPT !.status = "error"]
  OBVIOUS
<1>1. /\ ops[o].pc = "refreshing" /\ ops[o].row.token \in valid /\ Commit(o, row)
      /\ UNCHANGED <<clock, tickets, callbacks, cuts, conns, lastCut>>
  BY DEF RefreshUnusable
<1>2. /\ row \in CredentialRows /\ RowOK(row) /\ row.status = "error"
      /\ row.token = cred.token /\ row.account = cred.account
  BY <1>1, HoldersCopy, Marked
<1>3. PICK answer \in Tokens :
        /\ Answers(cred.token, answer)
        /\ stranded' = IF answer = cred.token THEN stranded
                       ELSE stranded \cup {cred.token.ticket}
  BY <1>1, HoldersCopy DEF RefreshUnusable
<1>4. /\ valid' \subseteq Tokens /\ issued' \in [Tickets -> 0..MaxVersion]
      /\ \A k \in Tokens : k.ticket # cred.token.ticket => (k \in valid' <=> k \in valid)
      /\ answer = cred.token => valid' = valid
  BY <1>1, <1>3, HoldersCopy, Answered
<1>5. cred.token.ticket \in Tickets /\ cred.token \in valid
  BY <1>1, HoldersCopy DEF Tokens
<1>6. Live(row.token)' \/ row.token.ticket \in stranded'
  BY <1>2, <1>3, <1>4, <1>5 DEF Live
<1>7. LeavesGoogle(row)
  BY <1>3, <1>4, <1>5, <1>6 DEF LeavesGoogle, IInv, TypeOK
<1> QED BY <1>1, <1>2, <1>7, HoldersCopy, CommitStep DEF Markable
\* The connector inserts the connection of the account whose row is locked.
LEMMA EnsureConnectionStep ==
  ASSUME IInv, NEW o \in Operations, EnsureConnection(o)
  PROVE  IInv'
<1>1. /\ ops[o].pc = "syncing" /\ conns' = [conns EXCEPT ![ops[o].row.account] = "active"]
      /\ UNCHANGED <<clock, cred, tickets, callbacks, ops, cuts, holder, lastCut, google>>
  BY DEF EnsureConnection
<1>2. /\ cred.status \in Markable /\ cred.account \in Accounts
      /\ ops[o].row.account = cred.account
  BY <1>1, HoldersCopy
<1>3. conns' \in Connections
  BY <1>1, <1>2 DEF IInv, TypeOK, Connections
<1>4. TypeOK'
  BY <1>1, <1>3 DEF IInv, TypeOK, google
<1>5. Consents'
  BY <1>1, GoogleAside
<1>6. OnlyGrantedAccount'
  <2>1. Reported' # "disconnected"
    BY <1>1, <1>2 DEF Reported, Markable
  <2>2. \A a \in Accounts : conns'[a] = "active" => a = cred.account \/ conns[a] = "active"
    BY <1>1, <1>2 DEF IInv, TypeOK, Connections
  <2> QED BY <1>1, <2>1, <2>2 DEF IInv, OnlyGrantedAccount
<1>7. ASSUME NEW p \in Operations PROVE OperationOK(p)'
  BY <1>1 DEF IInv, Holders, OperationOK, Live, google
<1>8. ASSUME NEW d \in Disconnects PROVE DisconnectOK(d)'
  BY <1>1 DEF IInv, Holders, DisconnectOK
<1>9. Kept' /\ RowOK(cred)'
  BY <1>1 DEF IInv, Kept, Live, google, RowOK
<1> QED BY <1>4, <1>5, <1>6, <1>7, <1>8, <1>9 DEF IInv, Holders

\* The row keeps what the transaction read, and Google is not asked again.
LEMMA SyncSteps ==
  ASSUME IInv, NEW o \in Operations, SyncOk(o) \/ SyncUnavailable(o)
  PROVE  IInv'
<1>1. /\ ops[o].pc = "syncing"
      /\ UNCHANGED <<clock, tickets, callbacks, cuts, conns, lastCut, google>>
  BY DEF SyncOk, SyncUnavailable
<1>2. PICK row : \/ row = ops[o].row /\ Commit(o, row)
                 \/ row = [ops[o].row EXCEPT !.status = "error"] /\ Commit(o, row)
  BY DEF SyncOk, SyncUnavailable, OnUnavailable
<1>3. /\ row \in CredentialRows /\ RowOK(row) /\ row.status \in Markable
      /\ row.token = ops[o].row.token /\ row.account = cred.account
  <2>1. CASE row = ops[o].row
    BY <2>1, <1>1, HoldersCopy DEF RowOK, Markable
  <2>2. CASE row = [ops[o].row EXCEPT !.status = "error"]
    BY <2>2, <1>1, HoldersCopy, Marked DEF Markable
  <2> QED BY <1>2, <2>1, <2>2
<1>4. LeavesGoogle(row)
  BY <1>1, <1>3, HoldersCopy DEF LeavesGoogle, google, Live, IInv, TypeOK
<1>5. row.token.ticket = cred.token.ticket
  BY <1>1, <1>3, HoldersCopy
<1>6. Commit(o, row)
  BY <1>2
<1> QED BY <1>1, <1>3, <1>4, <1>5, <1>6, HoldersCopy, CommitStep

\* Abort keeps the invariant.
LEMMA AbortStep ==
  ASSUME IInv, NEW o \in Operations, Abort(o)
  PROVE  IInv'
<1>1. holder = o
  BY HoldersCopy DEF Abort
<1> QED BY <1>1, RollbackStep DEF Abort, End

\* The operation that runs out of time may still be waiting for the row.
LEMMA TimeoutStep ==
  ASSUME IInv, NEW o \in Operations, Timeout(o)
  PROVE  IInv'
<1>1. /\ ops[o].pc \in {"waiting", "refreshing", "syncing"}
      /\ ops' = [ops EXCEPT ![o].pc = "late", ![o].row = NoRow]
      /\ holder' = ReleasedBy(o) /\ stranded' = Dropped(o)
      /\ UNCHANGED <<clock, cred, tickets, callbacks, cuts, conns, lastCut, valid, issued>>
  BY DEF Timeout
<1>2. CASE ops[o].pc = "waiting"
  <2>1. holder # o
    BY <1>2 DEF IInv, Holders, OperationOK
  <2>2. UNCHANGED <<holder, google>>
    BY <1>1, <1>2, <2>1 DEF ReleasedBy, Dropped, google
  <2>3. /\ ops' \in [Operations -> OperationRow] /\ ops'[o].pc = "late"
        /\ \A p \in Operations \ {o} : ops'[p] = ops[p]
    BY <1>1, Ending DEF IInv
  <2>4. TypeOK'
    BY <1>1, <2>2, <2>3 DEF IInv, TypeOK, OperationRow, google
  <2> QED BY <1>1, <2>1, <2>2, <2>3, <2>4, GoogleAside, RowAside
<1>3. CASE ops[o].pc \in {"refreshing", "syncing"}
  <2>1. holder = o /\ holder' = None
    BY <1>1, <1>3, HoldersCopy DEF ReleasedBy
  <2> QED BY <1>1, <2>1, RollbackStep
<1> QED BY <1>1, <1>2, <1>3

\* The timeout handler touches the status only, of a row that has its secret.
LEMMA MarkTimeoutStep ==
  ASSUME IInv, NEW o \in Operations, MarkTimeout(o)
  PROVE  IInv'
<1>1. /\ ops[o].pc = "late" /\ holder = None
      /\ ops' = [ops EXCEPT ![o].pc = "done", ![o].row = NoRow]
      /\ UNCHANGED <<clock, tickets, callbacks, cuts, holder, conns, lastCut, google>>
      /\ cred' = IF cred.status \in Markable THEN [cred EXCEPT !.status = "error"] ELSE cred
  BY DEF MarkTimeout, End
<1>2. /\ ops' \in [Operations -> OperationRow] /\ ops'[o].pc = "done"
      /\ \A p \in Operations \ {o} : ops'[p] = ops[p]
  BY <1>1, Ending DEF IInv
<1>3. CASE cred.status \notin Markable
  <2>1. cred' = cred
    BY <1>1, <1>3
  <2>2. TypeOK'
    BY <1>1, <1>2, <2>1 DEF IInv, TypeOK, OperationRow, google
  <2>3. holder # o
    BY <1>1 DEF IInv, Holders, OperationOK
  <2> QED BY <1>1, <1>2, <2>1, <2>2, <2>3, GoogleAside, RowAside
<1>4. CASE cred.status \in Markable
  <2>1. cred' = [cred EXCEPT !.status = "error"]
    BY <1>1, <1>4
  <2>2. cred \in CredentialRows /\ cred.token \in Tokens /\ cred.account \in Accounts
        /\ cred.disconnected_at = 0
    BY <1>4 DEF IInv, TypeOK, RowOK
  <2>3. /\ cred' \in CredentialRows /\ cred'.status = "error" /\ cred'.token = cred.token
        /\ cred'.account = cred.account /\ cred'.disconnected_at = 0
    BY <2>1, <2>2 DEF CredentialRows, Statuses
  <2>4. TypeOK'
    BY <1>1, <1>2, <2>3 DEF IInv, TypeOK, OperationRow, google
  <2>5. RowOK(cred)'
    BY <2>2, <2>3 DEF RowOK, Markable
  <2>6. OnlyGrantedAccount'
    BY <1>1, <1>4, <2>3 DEF IInv, OnlyGrantedAccount, Reported, Markable
  <2>7. Consents'
    BY <1>1, <2>3, ConsentsKept DEF IInv, TypeOK, google
  <2>8. Holders'
    <3>1. OperationOK(o)'
      BY <1>1, <1>2, GmailAssumption DEF OperationOK
    <3>2. /\ \A p \in Operations \ {o} : OperationOK(p)'
          /\ \A d \in Disconnects \ {o} : DisconnectOK(d)'
      BY <1>1, <1>2, OthersAside
    <3> QED BY <3>1, <3>2, GmailAssumption DEF Holders
  <2>9. Kept'
    <3>1. \A p \in Operations : ops[p].pc # "syncing"
      BY <1>1, GmailAssumption DEF IInv, Holders, OperationOK
    <3> QED BY <1>1, <2>3, <3>1 DEF IInv, Kept, Live, google
  <2> QED BY <2>4, <2>5, <2>6, <2>7, <2>8, <2>9 DEF IInv
<1> QED BY <1>3, <1>4
-----------------------------------------------------------------------------
(* Disconnect *)

\* A request to disconnect moves on.
LEMMA Leaving ==
  ASSUME TypeOK, NEW d \in Disconnects, NEW pc \in {"waiting", "revoking", "marking", "done"},
         cuts' = [cuts EXCEPT ![d].pc = pc]
  PROVE  /\ cuts' \in [Disconnects -> DisconnectRow]
         /\ cuts'[d].pc = pc
         /\ \A e \in Disconnects \ {d} : cuts'[e] = cuts[e]
  BY DEF TypeOK, DisconnectRow

\* While a disconnect has the row, or nobody, no operation is at work on it.
LEMMA NoneAtWork ==
  ASSUME IInv, holder \notin Operations
  PROVE  \A o \in Operations : ops[o].pc \notin {"refreshing", "syncing"}
  BY DEF IInv, Holders, OperationOK

\* Leave keeps the invariant.
LEMMA LeaveStep ==
  ASSUME IInv, NEW d \in Disconnects, Leave(d)
  PROVE  IInv'
<1>1. /\ cuts[d].pc = "idle" /\ cuts' = [cuts EXCEPT ![d].pc = "waiting"]
      /\ UNCHANGED <<clock, cred, tickets, callbacks, ops, holder, conns, lastCut, google>>
  BY DEF Leave
<1>2. /\ cuts' \in [Disconnects -> DisconnectRow] /\ cuts'[d].pc = "waiting"
      /\ \A e \in Disconnects \ {d} : cuts'[e] = cuts[e]
  BY <1>1, Leaving DEF IInv
<1>3. TypeOK'
  BY <1>1, <1>2 DEF IInv, TypeOK, DisconnectRow, google
<1> QED BY <1>1, <1>2, <1>3, GoogleAside, RowAside

(* A disconnect that has the row, or meets none: the row stays as it is, and *)
(* of the tokens Google accepts it may take those of the row's consent.      *)
LEMMA CutStep ==
  ASSUME IInv, NEW d \in Disconnects,
         holder \in {None, d}, holder' \in {None, d},
         clock' \in Nat, cuts' \in [Disconnects -> DisconnectRow],
         \A e \in Disconnects \ {d} : cuts'[e] = cuts[e],
         DisconnectOK(d)',
         UNCHANGED <<cred, tickets, callbacks, ops, conns, lastCut, issued, stranded>>,
         valid' = valid \/ (cred.token # None
                            /\ valid' = {k \in valid : k.ticket # cred.token.ticket})
  PROVE  IInv'
<1> USE GmailAssumption
<1>1. holder \notin Operations /\ holder' \notin Operations
  OBVIOUS
<1>2. holder' \in Operations \cup Disconnects \cup {None} /\ valid' \subseteq Tokens
  BY DEF IInv, TypeOK
<1>3. TypeOK'
  BY <1>2 DEF IInv, TypeOK, DisconnectRow
<1>4. Consents'
  BY <1>2, ConsentsKept
<1>5. /\ \A p \in Operations : OperationOK(p)'
      /\ \A e \in Disconnects \ {d} : DisconnectOK(e)'
  <2>1. d \notin Operations
    OBVIOUS
  <2> QED BY <2>1, OthersAside
<1>6. Kept'
  <2>1. \A o \in Operations : ops[o].pc # "syncing"
    BY <1>1, NoneAtWork
  <2> QED BY <2>1 DEF IInv, Kept, Live
<1>7. RowOK(cred)' /\ OnlyGrantedAccount'
  BY DEF IInv, RowOK, OnlyGrantedAccount, Reported
<1> QED BY <1>3, <1>4, <1>5, <1>6, <1>7 DEF IInv, Holders

\* LockToLeave keeps the invariant.
LEMMA LockToLeaveStep ==
  ASSUME IInv, NEW d \in Disconnects, LockToLeave(d)
  PROVE  IInv'
<1>1. PICK pc : pc = IF cred.token = None THEN "marking" ELSE "revoking"
  OBVIOUS
<1>2. /\ holder = None /\ holder' = IF cred.status = "absent" THEN None ELSE d
      /\ cuts' = [cuts EXCEPT ![d].pc = pc]
      /\ UNCHANGED <<clock, cred, tickets, callbacks, ops, conns, lastCut, google>>
  BY <1>1 DEF LockToLeave
<1>3. pc \in {"marking", "revoking"}
  BY <1>1
<1>4. /\ cuts' \in [Disconnects -> DisconnectRow] /\ cuts'[d].pc = pc
      /\ \A e \in Disconnects \ {d} : cuts'[e] = cuts[e]
  BY <1>2, <1>3, Leaving DEF IInv
<1>5. DisconnectOK(d)'
  BY <1>1, <1>2, <1>4 DEF DisconnectOK, IInv, RowOK, NoRow
<1> QED BY <1>2, <1>4, <1>5, CutStep DEF google, IInv, TypeOK

\* Revoke keeps the invariant.
LEMMA RevokeStep ==
  ASSUME IInv, NEW d \in Disconnects, Revoke(d)
  PROVE  IInv'
<1>1. /\ cuts[d].pc = "revoking" /\ cuts' = [cuts EXCEPT ![d].pc = "marking"]
      /\ \/ valid' = {k \in valid : k.ticket # cred.token.ticket}
         \/ UNCHANGED valid
      /\ UNCHANGED <<clock, cred, tickets, callbacks, ops, holder, conns, lastCut, issued,
                     stranded>>
  BY DEF Revoke
<1>2. holder = d /\ cred.token # None
  BY <1>1 DEF IInv, Holders, DisconnectOK
<1>3. /\ cuts' \in [Disconnects -> DisconnectRow] /\ cuts'[d].pc = "marking"
      /\ \A e \in Disconnects \ {d} : cuts'[e] = cuts[e]
  BY <1>1, Leaving DEF IInv
<1>4. DisconnectOK(d)'
  BY <1>3 DEF DisconnectOK
<1> QED BY <1>1, <1>2, <1>3, <1>4, CutStep DEF IInv, TypeOK

\* Mark keeps the invariant.
LEMMA MarkStep ==
  ASSUME IInv, NEW d \in Disconnects, Mark(d)
  PROVE  IInv'
<1>1. /\ holder \in {None, d} /\ holder' = d /\ clock' = clock + 1
      /\ cuts' = [cuts EXCEPT ![d] = [pc |-> "marked", at |-> clock + 1]]
      /\ UNCHANGED <<cred, tickets, callbacks, ops, conns, lastCut, google>>
  BY DEF Mark
<1>2. /\ cuts' \in [Disconnects -> DisconnectRow] /\ clock' \in Nat
      /\ cuts'[d].pc = "marked" /\ cuts'[d].at # 0
      /\ \A e \in Disconnects \ {d} : cuts'[e] = cuts[e]
  BY <1>1 DEF IInv, TypeOK, DisconnectRow
<1>3. DisconnectOK(d)'
  BY <1>1, <1>2 DEF DisconnectOK
<1> QED BY <1>1, <1>2, <1>3, CutStep DEF google

\* A disconnect that dies with its process keeps the invariant.
LEMMA DisconnectDiesStep ==
  ASSUME IInv, NEW d \in Disconnects, DisconnectDies(d)
  PROVE  IInv'
<1>1. /\ cuts' = [cuts EXCEPT ![d].pc = "done"]
      /\ holder' = IF holder = d THEN None ELSE holder
      /\ UNCHANGED <<clock, cred, tickets, callbacks, ops, conns, lastCut, google>>
  BY DEF DisconnectDies
<1>2. /\ cuts' \in [Disconnects -> DisconnectRow] /\ cuts'[d].pc = "done"
      /\ \A e \in Disconnects \ {d} : cuts'[e] = cuts[e]
  BY <1>1, Leaving DEF IInv
<1>3. CASE holder = d
  <2>1. DisconnectOK(d)'
    BY <1>2 DEF DisconnectOK
  <2> QED BY <1>1, <1>2, <1>3, <2>1, CutStep DEF google, IInv, TypeOK
<1>4. CASE holder # d
  <2>1. TypeOK'
    BY <1>1, <1>2, <1>4 DEF IInv, TypeOK, DisconnectRow, google
  <2> QED BY <1>1, <1>2, <1>4, <2>1, GoogleAside, RowAside
<1> QED BY <1>3, <1>4

\* Disconnect keeps the invariant.
LEMMA DisconnectStep ==
  ASSUME IInv, NEW d \in Disconnects, Disconnect(d)
  PROVE  IInv'
<1> USE GmailAssumption
<1>1. PICK at : at = cuts[d].at
  OBVIOUS
<1>2. /\ cuts[d].pc = "marked"
      /\ cred' = [status |-> "disconnected", token |-> None, account |-> None,
                  disconnected_at |-> at]
      /\ tickets' = [t \in Tickets |->
            IF tickets[t].pc = "pending" THEN [tickets[t] EXCEPT !.pc = "gone"] ELSE tickets[t]]
      /\ conns' = Closed /\ holder' = None /\ lastCut' = at
      /\ cuts' = [cuts EXCEPT ![d].pc = "done"]
      /\ UNCHANGED <<clock, callbacks, ops, google>>
  BY <1>1 DEF Disconnect, Tombstone
<1>3. holder = d /\ at \in Nat /\ at # 0
  BY <1>1, <1>2 DEF IInv, Holders, DisconnectOK, TypeOK
<1>4. /\ cuts' \in [Disconnects -> DisconnectRow] /\ cuts'[d].pc = "done"
      /\ \A e \in Disconnects \ {d} : cuts'[e] = cuts[e]
  BY <1>2, Leaving DEF IInv
<1>5. cred' \in CredentialRows /\ RowOK(cred)'
  BY <1>2, <1>3 DEF CredentialRows, Statuses, RowOK, Markable
<1>6. tickets' \in [Tickets -> StateRows]
      /\ \A t \in Tickets : tickets[t].pc = "gone" => tickets'[t].pc = "gone"
  BY <1>2 DEF IInv, TypeOK, StateRows
<1>7. conns' \in Connections /\ \A a \in Accounts : conns'[a] # "active"
  <2>1. \A a \in Accounts : conns'[a] \in {"none", "disconnected"}
    BY <1>2 DEF Closed
  <2> QED BY <1>2, <2>1 DEF Closed, Connections
<1>8. TypeOK'
  BY <1>2, <1>3, <1>4, <1>5, <1>6, <1>7 DEF IInv, TypeOK, DisconnectRow, google
<1>9. cred'.token = None
  BY <1>2
<1>10. Consents'
  BY <1>2, <1>6, <1>9, ConsentsKept DEF google, IInv, TypeOK
<1>11. Holders'
  <2>1. DisconnectOK(d)' /\ d \notin Operations
    BY <1>4 DEF DisconnectOK
  <2>2. /\ \A p \in Operations \ {d} : OperationOK(p)'
        /\ \A e \in Disconnects \ {d} : DisconnectOK(e)'
    BY <1>2, <1>3, <1>4, OthersAside
  <2> QED BY <2>1, <2>2 DEF Holders
<1>12. OnlyGrantedAccount' /\ Kept'
  BY <1>7, <1>9 DEF OnlyGrantedAccount, Kept
<1> QED BY <1>5, <1>8, <1>10, <1>11, <1>12 DEF IInv
-----------------------------------------------------------------------------
(* The theorems *)

\* Every step keeps the invariant.
LEMMA StepInv == IInv /\ [Next]_vars => IInv'
<1> SUFFICES ASSUME IInv, [Next]_vars PROVE IInv'
  OBVIOUS
<1>1. ASSUME NEW t \in Tickets,
             Connect(t) \/ StoreState(t) \/ ExpireState(t) \/ RemovedAtGoogle(t)
      PROVE  IInv'
  BY <1>1, ConsentSteps, RemovedAtGoogleStep
<1>2. ASSUME NEW c \in Callbacks, Answer(c) PROVE IInv'
  BY <1>2, ConsumeStep, ExchangeStep, ExchangeFailsStep, StoreGrantStep DEF Answer
<1>3. ASSUME NEW o \in Operations, Operate(o) PROVE IInv'
  BY <1>3, LockStep, RefreshOkStep, RefreshRevokedStep, RefreshFailsStep,
     RefreshUnusableStep, EnsureConnectionStep, SyncSteps, AbortStep, TimeoutStep,
     MarkTimeoutStep, GiveUpStep DEF Operate
<1>4. ASSUME NEW o \in Operations, NEW sync \in BOOLEAN, Request(o, sync) PROVE IInv'
  BY <1>4, RequestStep
<1>5. ASSUME NEW d \in Disconnects, Cut(d) \/ Leave(d) PROVE IInv'
  BY <1>5, LockToLeaveStep, RevokeStep, MarkStep, DisconnectStep, DisconnectDiesStep,
     LeaveStep DEF Cut
<1>6. CASE UNCHANGED vars
  <2>1. UNCHANGED <<cred, holder, conns, google, ops, cuts, callbacks, tickets>>
    BY <1>6 DEF vars, google
  <2>2. TypeOK'
    BY <1>6 DEF vars, IInv, TypeOK
  <2> QED BY <2>1, <2>2, GoogleAside, RowAside
<1> QED BY <1>1, <1>2, <1>3, <1>4, <1>5, <1>6 DEF Next

\* The invariant holds in every reachable state.
THEOREM Invariance == Spec => []IInv
<1> QED BY InitInv, StepInv, PTL DEF Spec

\* Every variable keeps its type, the row's columns and Google's tokens included.
THEOREM Typed == Spec => []TypeOK
<1>1. IInv => TypeOK
  BY DEF IInv
<1> QED BY <1>1, Invariance, PTL

(* A consent is redeemed by one callback, nothing of the grant is kept while *)
(* the connection is reported as disconnected, and the only active source is *)
(* that of the account whose grant is stored: consume_state, the lock of the *)
(* row, and the UPDATEs of the callback and of the disconnect.               *)
THEOREM Grants == Spec => []GrantsHold
<1>1. IInv => GrantsHold
  BY DEF IInv, Consents, GrantsHold
<1> QED BY <1>1, Invariance, PTL

(* The stored token is one Google accepts, unless its consent was revoked,   *)
(* the row's holder is about to replace it, or an operation lost the token   *)
(* that replaced it: the commits of the error paths keep what they were      *)
(* given.                                                                    *)
THEOREM Usable == Spec => []UsableUnlessDropped
<1>1. IInv => UsableUnlessDropped
  <2> SUFFICES ASSUME IInv, cred.token # None, cred.token \notin valid,
                      cred.token.ticket \notin stranded,
                      \E k \in valid : k.ticket = cred.token.ticket
               PROVE  holder \in Operations
    BY DEF UsableUnlessDropped
  <2>1. PICK o \in Operations : ops[o].pc = "syncing"
    BY DEF IInv, Kept, Live
  <2> QED BY <2>1 DEF IInv, Holders, OperationOK
<1> QED BY <1>1, Invariance, PTL

\* What a step that lifts a tombstone owes to the consent it stores.
Lifts ==
    cred.status = "disconnected" /\ cred'.status # "disconnected"
    => /\ cred'.token # None
       /\ tickets[cred'.token.ticket].created_at > cred.disconnected_at

(* Only a callback may lift a tombstone: an operation that has the row found *)
(* a stored grant when it locked it, the timeout handler tests the status it *)
(* finds, and a disconnect writes another tombstone.                         *)
LEMMA StepLifts == IInv /\ [Next]_vars => Lifts
<1> SUFFICES ASSUME IInv, [Next]_vars, cred.status = "disconnected",
                    cred'.status # "disconnected"
             PROVE  /\ cred'.token # None
                    /\ tickets[cred'.token.ticket].created_at > cred.disconnected_at
  BY DEF Lifts
<1>1. ASSUME NEW c \in Callbacks, StoreGrant(c)
      PROVE  /\ cred'.token # None
             /\ tickets[cred'.token.ticket].created_at > cred.disconnected_at
  <2>1. CallbackOK(c) /\ callbacks[c].pc = "storing"
    BY <1>1 DEF IInv, Consents, StoreGrant
  <2>2. /\ callbacks[c].token \in Tokens /\ callbacks[c].token # None
        /\ callbacks[c].token.ticket = callbacks[c].ticket
    BY <2>1, GmailAssumption DEF CallbackOK, Tokens
  <2>3. Accepted(c) /\ cred'.token = callbacks[c].token
    BY <1>1 DEF StoreGrant
  <2>4. cred.disconnected_at # 0 /\ cred.disconnected_at \in Nat
        /\ tickets[callbacks[c].ticket].created_at \in Nat
    BY <2>1 DEF IInv, RowOK, TypeOK, CredentialRows, CallbackOK, StateRows
  <2> QED BY <2>2, <2>3, <2>4 DEF Accepted
<1>2. ASSUME NEW o \in Operations, Operate(o) PROVE FALSE
  <2>1. ops[o].pc \notin {"refreshing", "syncing"}
    BY HoldersCopy DEF Markable
  <2>2. UNCHANGED cred
    BY <1>2, <2>1 DEF Operate, Lock, RefreshOk, RefreshRevoked, RefreshFails,
       RefreshUnusable, EnsureConnection, SyncOk, SyncUnavailable, Abort, Timeout,
       MarkTimeout, Markable, GiveUp
  <2> QED BY <2>2
<1>3. ASSUME NEW c \in Callbacks, Answer(c), ~StoreGrant(c) PROVE FALSE
  BY <1>3 DEF Answer, Consume, Exchange, ExchangeFails
<1>4. ASSUME NEW d \in Disconnects, Cut(d) \/ Leave(d) PROVE FALSE
  BY <1>4 DEF Cut, Leave, LockToLeave, Revoke, Mark, Disconnect, Tombstone, DisconnectDies
<1>5. ASSUME NEW t \in Tickets,
             Connect(t) \/ StoreState(t) \/ ExpireState(t) \/ RemovedAtGoogle(t)
      PROVE  FALSE
  BY <1>5 DEF Connect, StoreState, ExpireState, RemovedAtGoogle
<1>6. ASSUME NEW o \in Operations, NEW sync \in BOOLEAN, Request(o, sync) PROVE FALSE
  BY <1>6 DEF Request
<1>7. CASE UNCHANGED vars
  BY <1>7 DEF vars
<1> QED BY <1>1, <1>2, <1>3, <1>4, <1>5, <1>6, <1>7 DEF Next

(* A tombstone is lifted only by a consent that began after it, however many *)
(* operations, timeout handlers and callbacks were in flight.                *)
THEOREM Tombstones == Spec => TombstoneHolds
<1> QED BY StepLifts, Invariance, PTL DEF Spec, TombstoneHolds, Lifts
=============================================================================
