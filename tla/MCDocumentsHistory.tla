------------------------- MODULE MCDocumentsHistory -------------------------
\* Small instances of DocumentsHistory for TLC.
EXTENDS DocumentsHistory, TLC

CONSTANTS d1, d2, d3, ta, tb, u1, u2, u3, r1, r2

Sym == Permutations(Docs) \cup Permutations(Titles) \cup Permutations(Uploads)
         \cup Permutations(Requests)

\* At most four of the uploads and requests are made in one run: three revisions
\* and one request, or two revisions and two requests.
AtMostFour ==
  Cardinality({u \in Uploads : task[u].pc # "none"})
    + Cardinality({r \in Requests : req[r].pc # "new"}) <= 4

=============================================================================
