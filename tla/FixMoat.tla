------------------------------ MODULE FixMoat ------------------------------
(***************************************************************************)
(* What the curation service promises about a fix (curation/service.py,    *)
(* its module docstring): a fix moves only along the lifecycle, and what   *)
(* retrieval can serve of it changes in the same step.  An approved fix    *)
(* serves its text, any other fix serves nothing.  The promise is made of  *)
(* a fix until it is forfeited: nothing is said of it afterwards.          *)
(***************************************************************************)
EXTENDS FixStates

CONSTANTS Fixes, Texts, None

VARIABLE moat   \* per fix: its state, its text and the texts retrieval serves

Gone == {"absent", "deleted", "forfeited"}

Serving(state, t) == IF state = "approved" THEN {t} ELSE {}

Entry(state, t) == [ state |-> state, text |-> t, served |-> Serving(state, t) ]

Init == moat = [f \in Fixes |-> Entry("absent", None)]

Put(f, state, t) == moat' = [moat EXCEPT ![f] = Entry(state, t)]

\* submitted by a technician or created by a curator
Open(f, t) ==
  /\ moat[f].state = "absent"
  /\ Put(f, "pending_review", t)

\* approve (with the text the curator settled on), reject, flag_unsafe, retire
Decide(f, dst, t) ==
  /\ CanTransition(moat[f].state, dst)
  /\ dst # "approved" => t = moat[f].text
  /\ Put(f, dst, t)

Edit(f, t) ==
  /\ moat[f].state \notin Gone
  /\ Put(f, moat[f].state, t)

\* one fix, or all the fixes of a machine or a user
Remove(fs) ==
  /\ \A f \in fs : moat[f].state \notin Gone
  /\ moat' = [f \in Fixes |-> IF f \in fs THEN Entry("deleted", None) ELSE moat[f]]

\* two curator requests on the fix get in each other's way
Forfeit(f) ==
  /\ moat[f].state \notin Gone
  /\ Put(f, "forfeited", None)

Next ==
  \/ \E f \in Fixes : Forfeit(f)
  \/ \E f \in Fixes, t \in Texts :
       \/ Open(f, t) \/ Edit(f, t)
       \/ \E dst \in States : Decide(f, dst, t)
  \/ \E fs \in SUBSET Fixes : Remove(fs)

Spec == Init /\ [][Next]_moat

=============================================================================
