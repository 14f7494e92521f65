----------------------------- MODULE MCCuration -----------------------------
\* Small instances of Curation for TLC.
EXTENDS Curation, TLC

CONSTANTS f1, f2, r1, r2, r3, cora, cole, tess, t1, t2

Sym == Permutations(Requests) \cup Permutations(Texts) \cup Permutations(Reviewers)
         \cup Permutations(Fixes)

=============================================================================
