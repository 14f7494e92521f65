----------------------------- MODULE MCAnswers -----------------------------
\* Small instances of Answers for TLC.
EXTENDS Answers, TLC

CONSTANTS c1, a1, a2, v1, v2, v3, k1, k2, m1, m2

\* The second chunk is in scope only while the conversation has no machine, or the
\* other one.
OneEach == k1 :> m1 @@ k2 :> m2

BothOnOne == [k \in {k1, k2} |-> m1]

Sym == Permutations(Asks)

=============================================================================
