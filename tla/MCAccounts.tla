----------------------------- MODULE MCAccounts -----------------------------
\* Values of the constants of Accounts for TLC.
EXTENDS Accounts, TLC
CONSTANTS j1, j2, u1, u2, mail, t1, t2

MCRequests == {j1, j2}
MCUsers    == {u1, u2}
MCEmails   == u1 :> {mail, None} @@ u2 :> {None}
MCTokens   == {t1, t2}

\* Nothing tells one request from another.
Alike == Permutations(MCRequests)
=============================================================================
