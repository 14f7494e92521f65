------------------------------ MODULE Manuals ------------------------------
(***************************************************************************)
(* What the versions of a manual promise (ingestion/pipeline.py,           *)
(* core/models.py): whatever is ingested under a title replaces the        *)
(* revision before it, so answers cite one revision of a title, the        *)
(* current one, or none.  The promise is made of a title until it is       *)
(* forfeited: nothing is said of it afterwards.                            *)
(***************************************************************************)
EXTENDS Naturals

CONSTANTS Titles

VARIABLES
  live,       \* per title: the version numbers of the revisions answers may cite
  forfeited   \* the titles that are kept no promise

Init == forfeited = {} /\ live = [t \in Titles |-> {}]

Kept == Titles \ forfeited

\* The first revision of a title, or the next, which takes the current one's place.
Revise(t) ==
  /\ \/ live[t] = {} /\ live' = [live EXCEPT ![t] = {1}]
     \/ \E v \in live[t] : live[t] = {v} /\ live' = [live EXCEPT ![t] = {v + 1}]
  /\ UNCHANGED forfeited

\* The current revision is deleted: the one before it is current again, if it is
\* still there.
Withdraw(t) ==
  /\ \E v \in live[t] : live[t] = {v} /\ \/ live' = [live EXCEPT ![t] = {}]
                                         \/ v > 1 /\ live' = [live EXCEPT ![t] = {v - 1}]
  /\ UNCHANGED forfeited

\* A manual gets a title that is not in use.
Retitle(t, to) ==
  /\ live[to] = {}
  /\ live' = [live EXCEPT ![t] = {}, ![to] = live[t]]
  /\ UNCHANGED forfeited

\* The machine goes, and its manuals with it.
Clear == live' = [t \in Titles |-> {}] /\ UNCHANGED forfeited

\* Revisions were mixed up.
Forfeit(ts) ==
  /\ forfeited' = forfeited \cup ts
  /\ live' = [t \in Titles |-> IF t \in ts THEN {} ELSE live[t]]

Next ==
  \/ Clear
  \/ \E t \in Kept : Revise(t) \/ Withdraw(t) \/ \E to \in Kept \ {t} : Retitle(t, to)
  \/ \E ts \in SUBSET Titles : Forfeit(ts)

Spec == Init /\ [][Next]_<<live, forfeited>>

=============================================================================
