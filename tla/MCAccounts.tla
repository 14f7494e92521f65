----------------------------- MODULE MCAccounts -----------------------------
\* A small instance of Accounts for TLC.
EXTENDS Accounts, TLC

CONSTANTS o1, o2, u1, u2, u3, q1, q2, q3

\* An administrator of one organization, and two ids that have no account yet.
Staff == u1 :> o1 @@ u2 :> None @@ u3 :> None

Sym == Permutations(Requests) \cup Permutations({u2, u3})

=============================================================================
