---------------------------- MODULE MCRetrieval ----------------------------
\* A small instance of Retrieval for TLC.
EXTENDS Retrieval, TLC

CONSTANTS m1, m2, m3, x1, x2

\* Two ids share their first digit, two their first two.
Ids == m1 :> <<0, 0, 0>> @@ m2 :> <<0, 1, 0>> @@ m3 :> <<1, 0, 0>>
         @@ x1 :> <<1, 0, 1>> @@ x2 :> <<2, 0, 0>>

\* A unit in which the scores of the first three ranks are whole.
ThreeRanks == 61 * 62 * 63

=============================================================================
