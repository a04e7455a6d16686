-------------------------- MODULE MCGmailConnection --------------------------
(* Model values for TLC: the identities are interchangeable.               *)
EXTENDS GmailConnection, TLC

Symmetry ==
    Permutations(Tickets) \cup Permutations(Callbacks) \cup Permutations(Operations)
        \cup Permutations(Disconnects) \cup Permutations(Accounts)

\* A state is redeemed by one callback only, and while connections are reported
\* the only active source belongs to the account whose grant is stored.
GrantsHold == RedeemedOnce /\ OnlyGrantedAccount

=============================================================================
