---------------------------- MODULE MCDocuments ----------------------------
\* Small instances of Documents for TLC.
EXTENDS Documents, TLC

CONSTANTS d1, d2, d3, ta, tb, u1, u2, u3, r1, r2

Sym == Permutations(Docs) \cup Permutations(Titles) \cup Permutations(Uploads)
         \cup Permutations(Requests)

=============================================================================
