-------------------------- MODULE CurationOverlaps --------------------------
(***************************************************************************)
(* What two curators do to a fix when their requests overlap.  Curation    *)
(* loads a fix, waits and commits without looking again, so a commit may   *)
(* rest on a fix that another commit has changed.  A history kept beside   *)
(* the specification records on which fixes that has happened: it reads    *)
(* the state, and never decides what the service does.                     *)
(***************************************************************************)
EXTENDS Curation

VARIABLES
  overtaken,   \* per request: the fixes in its hands that another one has committed
  contested    \* the fixes that an overtaken request has committed after all

hvars == <<vars, overtaken, contested>>

\* r is deciding on f or editing it, and in this step it commits.
InHand(r, f)   == Open(r) /\ req[r].op \in CuratorOps /\ f \in req[r].targets
Commits(r, f)  == InHand(r, f) /\ req'[r].pc = "done" /\ audit' # audit

Overtaken(p) ==
  {f \in Fixes : InHand(p, f) /\ \E r \in Requests \ {p} : Commits(r, f)}

Remember ==
  /\ overtaken' = [p \in Requests |-> IF req'[p].pc \in {"new", "done"} THEN {}
                                      ELSE overtaken[p] \cup Overtaken(p)]
  /\ contested' = contested \cup
                    {f \in Fixes : \E r \in Requests : f \in overtaken[r] /\ Commits(r, f)}

HInit ==
  /\ Init
  /\ overtaken = [p \in Requests |-> {}]
  /\ contested = {}

HNext == Next /\ Remember

HSpec == HInit /\ [][HNext]_hvars

-----------------------------------------------------------------------------
(***************************************************************************)
(* Properties of the fixes that no overtaken request has committed.        *)
(***************************************************************************)

\* An approved fix has its text in the index, once; any other fix has nothing
\* there ("the index is the single source of truth").  Requests on it may
\* overlap, fail, be aborted or be cut short by a deletion: only a commit that
\* rests on an outdated fix can break this.
IndexInSync ==
  \A f \in Fixes \ contested :
    IF fix[f].state = "approved"
    THEN \E c \in chunks : ChunksOf({f}) = {c} /\ c.text = fix[f].text
    ELSE ChunksOf({f}) = {}

\* Each audited move starts where the move before it ended: the `before` of an
\* event is not a state that had been overwritten by then, unless by a commit
\* that rests on an outdated fix.
AuditChains ==
  \A f \in Fixes \ contested : \A i, j \in Moves(f) :
    i < j /\ (\A k \in Moves(f) : k <= i \/ j <= k) => audit[j].from = audit[i].to

\* The service keeps the promise of FixMoat: a fix moves along the lifecycle and
\* its index moves with it, in one step, until an overtaken request commits.
Moat == INSTANCE FixMoat WITH
  moat <- [f \in Fixes |->
             IF f \in contested
             THEN [ state |-> "forfeited", text |-> None, served |-> {} ]
             ELSE [ state |-> fix[f].state, text |-> fix[f].text,
                    served |-> {c.text : c \in ChunksOf({f})} ]]

KeepsPromise == Moat!Spec

=============================================================================
