----------------------------- MODULE FixStates -----------------------------
(***************************************************************************)
(* The lifecycle of a fix, as fixmate/curation/states.py declares it: the  *)
(* six states of the CHECK constraint on `fixes` and the moves the         *)
(* curation service may make between them.                                 *)
(***************************************************************************)

States == {"submitted", "pending_review", "approved", "rejected", "unsafe", "retired"}

AllowedTransitions ==
  { <<"submitted", "pending_review">>,
    <<"pending_review", "approved">>,
    <<"pending_review", "rejected">>,
    <<"pending_review", "unsafe">>,
    <<"approved", "retired">>,
    <<"approved", "pending_review">> }

CanTransition(src, dst) == <<src, dst>> \in AllowedTransitions

=============================================================================
