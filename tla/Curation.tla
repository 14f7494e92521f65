------------------------------ MODULE Curation ------------------------------
(***************************************************************************)
(* The curation service (fixmate/curation/service.py) over PostgreSQL at   *)
(* READ COMMITTED.  Each HTTP request is one database transaction: it      *)
(* loads a fix, checks it, may call a model or the embedder while holding  *)
(* whatever locks it has, and commits.  Requests interleave freely.        *)
(*                                                                         *)
(* What the database does is modelled where it decides an outcome:         *)
(*   - the ORM writes only the columns whose value differs from the one    *)
(*     it loaded (Flush), whatever the row holds by then;                  *)
(*   - a DELETE removes the rows visible when its statement began;         *)
(*   - an UPDATE or DELETE waits for the lock of an open transaction, and  *)
(*     a cycle of two waits is broken by aborting one of them;             *)
(*   - deleting a fix removes its chunks, deleting a user removes the      *)
(*     fixes they submitted and clears the reviewer of the others.         *)
(***************************************************************************)
EXTENDS FixStates, Naturals, Sequences, FiniteSets

CONSTANTS
  Fixes,       \* identities of fixes: a uuid4 each, never used twice
  Requests,    \* HTTP requests; each is made once, so this set bounds a run
  Users,       \* the people of one organization
  Reviewers,   \* those whose token carries role curator or admin
  Texts,       \* texts of a fix, stripped and not empty
  None         \* SQL NULL, and an argument that is not given

ASSUME CurationAssumption ==
  /\ IsFiniteSet(Fixes)
  /\ Reviewers \subseteq Users
  /\ None \notin Users
  /\ None \notin Texts
  /\ None \notin States

VARIABLES
  fix,       \* the committed row of each fix
  chunks,    \* the committed field_fix chunks: what retrieval can serve
  audit,     \* the committed audit events of fixes, in commit order
  accounts,  \* the rows of `users`
  req        \* the state of each request

vars == <<fix, chunks, audit, accounts, req>>

-----------------------------------------------------------------------------
(***************************************************************************)
(* Rows, events and requests.                                              *)
(***************************************************************************)

LiveRow ==
  [ state     : States,
    text      : Texts,
    submitter : Users,
    reviewer  : Users \cup {None},
    screened  : BOOLEAN ]           \* ai_prescreen_report is not NULL

\* An id that is not in use yet, or no longer.
NoRow(s) ==
  [ state |-> s, text |-> None, submitter |-> None, reviewer |-> None, screened |-> FALSE ]

Row == LiveRow \cup {NoRow("absent"), NoRow("deleted")}

\* The chunks one indexing makes of a text are written and deleted together;
\* `id` is the position of the audit event they were committed with.
Entry == [ fix : Fixes, text : Texts, id : Nat ]

Event ==
  [ fix    : Fixes,
    actor  : Users \cup {None},
    action : {"submit", "create", "edit", "approve", "rejected", "unsafe", "retire",
              "delete", "prescreen"},
    from   : States \cup {None},    \* before["state"]
    to     : States \cup {None},    \* after["state"]
    text   : Texts \cup {None} ]    \* after["proposed_text"]

\* The state each transition operation moves a fix to.
Target == [ approve |-> "approved", reject |-> "rejected", unsafe |-> "unsafe",
            retire |-> "retired" ]

Transitions == DOMAIN Target
CuratorOps  == Transitions \cup {"edit"}

Request ==
  [ pc      : {"new", "loaded", "editing", "reindexing", "purging", "purged",
               "done"},
    op      : CuratorOps \cup {"delete", "queue", None},
    targets : SUBSET Fixes,
    actor   : Users \cup {None},
    text    : Texts \cup {None},
    seen    : [Fixes -> Row],       \* the rows of the targets as loaded
    snap    : SUBSET Entry ]        \* the chunks a DELETE statement saw

Idle(pc) ==
  [ pc |-> pc, op |-> None, targets |-> {}, actor |-> None, text |-> None,
    seen |-> [f \in Fixes |-> NoRow("absent")], snap |-> {} ]

TypeOK ==
  /\ fix \in [Fixes -> Row]
  /\ chunks \subseteq Entry
  /\ audit \in Seq(Event)
  /\ accounts \subseteq Users
  /\ req \in [Requests -> Request]

Exists(f)  == fix[f].state \in States
Open(r)    == req[r].pc \notin {"new", "done"}
ChunksOf(fs) == {c \in chunks : c.fix \in fs}

Init ==
  /\ fix = [f \in Fixes |-> NoRow("absent")]
  /\ chunks = {}
  /\ audit = <<>>
  /\ accounts = Users
  /\ req = [r \in Requests |-> Idle("new")]

-----------------------------------------------------------------------------
(***************************************************************************)
(* Locks of open transactions, and what the ORM writes.                    *)
(***************************************************************************)

HoldsRow_Unlocked(r, f) == FALSE   \* slip: the chunks go before the row is written

\* An open transaction that has written the row of f holds its lock.
HoldsRow(r, f) ==
  /\ req[r].pc \in {"editing", "reindexing"}
  /\ f \in req[r].targets

\* The chunks an open transaction has deleted and not yet committed.
HeldChunks(r) == IF req[r].pc \in {"reindexing", "purged"} THEN req[r].snap ELSE {}

RowsFree(r, fs)   == \A q \in Requests \ {r}, f \in fs : ~HoldsRow(q, f)
ChunksFree(r, cs) == \A q \in Requests \ {r} : HeldChunks(q) \cap cs = {}

\* The chunks a blocked DELETE still has to lock.
WantedChunks(r) ==
  IF req[r].pc \in {"editing", "purging"} THEN req[r].snap ELSE {}

\* r has locks of its own and waits for one that q holds.
Blocks(q, r) ==
  \/ WantedChunks(r) \cap HeldChunks(q) # {}
  \/ req[r].pc = "purged" /\ \E f \in req[r].targets : HoldsRow(q, f)

\* slip: the whole row is written back
Written_Whole(current, loaded, new) == new

\* An UPDATE names only the columns whose value is no longer the loaded one.
Written(current, loaded, new) == IF new = loaded THEN current ELSE new

Flush(row, seen, new) ==
  [ state     |-> Written(row.state, seen.state, new.state),
    text      |-> Written(row.text, seen.text, new.text),
    submitter |-> row.submitter,
    reviewer  |-> Written(row.reviewer, seen.reviewer, new.reviewer),
    screened  |-> Written(row.screened, seen.screened, new.screened) ]

Save(f, seen, new) == fix' = [fix EXCEPT ![f] = Flush(fix[f], seen, new)]

\* The UPDATE matches a row, and a reviewer it names is still a user.
Saves(f, seen, new) ==
  /\ Exists(f)
  /\ new.reviewer # seen.reviewer => new.reviewer \in accounts

Log(f, actor, action, from, to, text) ==
  audit' = Append(audit, [ fix |-> f, actor |-> actor, action |-> action,
                           from |-> from, to |-> to, text |-> text ])

\* The chunks of text t, committed together with the next audit event.
NewEntry(f, t) == [ fix |-> f, text |-> t, id |-> Len(audit) + 1 ]

Finish(r)   == req' = [req EXCEPT ![r] = Idle("done")]
GoTo(r, pc, snap) == req' = [req EXCEPT ![r] = [@ EXCEPT !.pc = pc, !.snap = snap]]

Loaded(r, op) == req[r].pc = "loaded" /\ req[r].op = op

-----------------------------------------------------------------------------
(***************************************************************************)
(* A fix enters review: submitted by a technician whose answer did not     *)
(* help (feedback/service.py), or opened by a curator.  One INSERT of a    *)
(* fresh id: nothing can interfere, so each is one step.                   *)
(***************************************************************************)

Pending(u, t) ==
  [ state |-> "pending_review", text |-> t, submitter |-> u, reviewer |-> None,
    screened |-> FALSE ]

Submit(f, u, t) ==
  /\ fix[f].state = "absent"
  /\ u \in accounts
  /\ fix' = [fix EXCEPT ![f] = Pending(u, t)]
  /\ Log(f, u, "submit", "submitted", "pending_review", None)
  /\ UNCHANGED <<chunks, accounts, req>>

Create(f, u, t) ==
  /\ u \in Reviewers
  /\ fix[f].state = "absent"
  /\ u \in accounts
  /\ fix' = [fix EXCEPT ![f] = Pending(u, t)]
  /\ Log(f, u, "create", None, "pending_review", t)
  /\ UNCHANGED <<chunks, accounts, req>>

-----------------------------------------------------------------------------
(***************************************************************************)
(* A request arrives: the role check, the SELECT and the checks on what    *)
(* it returns.  The role is the token's, whether or not the user's row     *)
(* still exists.                                                           *)
(***************************************************************************)

Begun(op, fs, u, t) ==
  [ pc |-> "loaded", op |-> op, targets |-> fs, actor |-> u, text |-> t,
    seen |-> [f \in Fixes |-> IF f \in fs THEN fix[f] ELSE NoRow("absent")],
    snap |-> {} ]

\* approve, reject, flag_unsafe and retire: _load_for_transition
LoadForTransition(r, op, f, u, t) ==
  /\ req[r].pc = "new"
  /\ u \in Reviewers
  /\ Exists(f)
  /\ CanTransition(fix[f].state, Target[op])
  /\ op # "approve" => t = None
  /\ req' = [req EXCEPT ![r] = Begun(op, {f}, u, t)]
  /\ UNCHANGED <<fix, chunks, audit, accounts>>

LoadForEdit(r, f, u, t) ==
  /\ req[r].pc = "new"
  /\ u \in Reviewers
  /\ Exists(f)
  /\ req' = [req EXCEPT ![r] = Begun("edit", {f}, u, t)]
  /\ UNCHANGED <<fix, chunks, audit, accounts>>

LoadForDelete(r, f, u) ==
  /\ req[r].pc = "new"
  /\ u \in Reviewers
  /\ Exists(f)
  /\ req' = [req EXCEPT ![r] = Begun("delete", {f}, u, None)]
  /\ UNCHANGED <<fix, chunks, audit, accounts>>

\* review_queue: with nothing to screen the request is a mere read
Unscreened == {f \in Fixes : fix[f].state = "pending_review" /\ ~fix[f].screened}

LoadQueue(r) ==
  /\ req[r].pc = "new"
  /\ Unscreened # {}
  /\ req' = [req EXCEPT ![r] = Begun("queue", Unscreened, None, None)]
  /\ UNCHANGED <<fix, chunks, audit, accounts>>

\* NotAuthorized, FixNotFound, IllegalTransition: the request changes nothing.
Refuse(r, op, f, u) ==
  /\ req[r].pc = "new"
  /\ \/ u \notin Reviewers
     \/ ~Exists(f)
     \/ op \in Transitions /\ ~CanTransition(fix[f].state, Target[op])
  /\ Finish(r)
  /\ UNCHANGED <<fix, chunks, audit, accounts>>

-----------------------------------------------------------------------------
(***************************************************************************)
(* The rest of each request.  Between its load and these steps it may      *)
(* have waited for the embedder or the model, holding no lock.             *)
(***************************************************************************)

\* slips: no text is kept when none is given; the reviewer, or the state, is not set
Approval_NoText(seen, u, t) == [seen EXCEPT !.state = "approved", !.reviewer = u, !.text = t]
Approval_NoReviewer(seen, u, t) ==
  [seen EXCEPT !.state = "approved", !.text = IF t = None THEN seen.text ELSE t]
Approval_NoState(seen, u, t) ==
  [seen EXCEPT !.reviewer = u, !.text = IF t = None THEN seen.text ELSE t]

\* approve: the chunks, the row and the event are written at the commit
Approval(seen, u, t) ==
  [ seen EXCEPT !.state = "approved", !.reviewer = u,
                !.text = IF t = None THEN seen.text ELSE t ]

CommitApprove(r, f) ==
  LET seen == req[r].seen[f]
      new  == Approval(seen, req[r].actor, req[r].text)
  IN  /\ Loaded(r, "approve") /\ f \in req[r].targets
      /\ RowsFree(r, {f})
      /\ Saves(f, seen, new)
      /\ Save(f, seen, new)
      /\ chunks' = chunks \cup {NewEntry(f, new.text)}
      /\ Log(f, req[r].actor, "approve", seen.state, "approved", new.text)
      /\ Finish(r)
      /\ UNCHANGED accounts

\* _resolve: reject and flag_unsafe
Resolution(seen, dst, u) == [seen EXCEPT !.state = dst, !.reviewer = u]

CommitResolve(r, f) ==
  LET seen == req[r].seen[f]
      dst  == Target[req[r].op]
      new  == Resolution(seen, dst, req[r].actor)
  IN  /\ Loaded(r, "reject") \/ Loaded(r, "unsafe")
      /\ f \in req[r].targets
      /\ RowsFree(r, {f})
      /\ Saves(f, seen, new)
      /\ Save(f, seen, new)
      /\ Log(f, req[r].actor, dst, seen.state, dst, None)
      /\ Finish(r)
      /\ UNCHANGED <<chunks, accounts>>

\* slip: the chunks are left where they are
BeginPurge_Nothing(r) ==
  /\ Loaded(r, "retire")
  /\ GoTo(r, "purging", {})
  /\ UNCHANGED <<fix, chunks, audit, accounts>>

\* retire: DELETE the chunks it can see, then UPDATE the row and commit
BeginPurge(r) ==
  /\ Loaded(r, "retire")
  /\ GoTo(r, "purging", ChunksOf(req[r].targets))
  /\ UNCHANGED <<fix, chunks, audit, accounts>>

EndPurge(r) ==
  /\ req[r].pc = "purging"
  /\ ChunksFree(r, req[r].snap)
  /\ GoTo(r, "purged", req[r].snap \cap chunks)
  /\ UNCHANGED <<fix, chunks, audit, accounts>>

CommitRetire(r, f) ==
  LET seen == req[r].seen[f]
      new  == Resolution(seen, "retired", req[r].actor)
  IN  /\ req[r].pc = "purged" /\ f \in req[r].targets
      /\ RowsFree(r, {f})
      /\ Saves(f, seen, new)
      /\ Save(f, seen, new)
      /\ chunks' = chunks \ req[r].snap
      /\ Log(f, req[r].actor, "retire", seen.state, "retired", None)
      /\ Finish(r)
      /\ UNCHANGED accounts

\* update_fix: the new text is served only if the fix was loaded as approved
Edition(seen, t) == [seen EXCEPT !.text = IF t = None THEN seen.text ELSE t]

Reindexes_Always(r, f) == req[r].text # None   \* slip: whatever the state
Reindexes_Never(r, f) == FALSE                 \* slip: the index is forgotten

Reindexes(r, f) == req[r].text # None /\ req[r].seen[f].state = "approved"

CommitEdit(r, f) ==
  LET seen == req[r].seen[f]
      new  == Edition(seen, req[r].text)
  IN  /\ Loaded(r, "edit") /\ f \in req[r].targets
      /\ ~Reindexes(r, f)
      /\ RowsFree(r, {f})
      /\ Saves(f, seen, new)
      /\ Save(f, seen, new)
      /\ Log(f, req[r].actor, "edit", None, None, new.text)
      /\ Finish(r)
      /\ UNCHANGED <<chunks, accounts>>

\* the DELETE of the chunks first flushes the UPDATE, which locks the row
LockForEdit(r, f) ==
  /\ Loaded(r, "edit") /\ f \in req[r].targets
  /\ Reindexes(r, f)
  /\ RowsFree(r, {f})
  /\ Exists(f)
  /\ GoTo(r, "editing", ChunksOf({f}))
  /\ UNCHANGED <<fix, chunks, audit, accounts>>

PurgeForEdit(r) ==
  /\ req[r].pc = "editing"
  /\ ChunksFree(r, req[r].snap)
  /\ GoTo(r, "reindexing", req[r].snap \cap chunks)
  /\ UNCHANGED <<fix, chunks, audit, accounts>>

CommitReindex(r, f) ==
  LET seen == req[r].seen[f]
      new  == Edition(seen, req[r].text)
  IN  /\ req[r].pc = "reindexing" /\ f \in req[r].targets
      /\ Save(f, seen, new)
      /\ chunks' = (chunks \ req[r].snap) \cup {NewEntry(f, new.text)}
      /\ Log(f, req[r].actor, "edit", None, None, new.text)
      /\ Finish(r)
      /\ UNCHANGED accounts

\* delete_fix: DELETE the row, which cascades to its chunks
Removed(fs) == [f \in Fixes |-> IF f \in fs THEN NoRow("deleted") ELSE fix[f]]

CommitDelete(r, f) ==
  /\ Loaded(r, "delete") /\ f \in req[r].targets
  /\ Exists(f)
  /\ RowsFree(r, {f}) /\ ChunksFree(r, ChunksOf({f}))
  /\ fix' = Removed({f})
  /\ chunks' = chunks \ ChunksOf({f})
  /\ Log(f, req[r].actor, "delete", req[r].seen[f].state, None, None)
  /\ Finish(r)
  /\ UNCHANGED accounts

\* a DELETE that matches no row is a warning: the event is written all the same
DeleteNothing(r, f) ==
  /\ Loaded(r, "delete") /\ f \in req[r].targets
  /\ ~Exists(f)
  /\ Log(f, req[r].actor, "delete", req[r].seen[f].state, None, None)
  /\ Finish(r)
  /\ UNCHANGED <<fix, chunks, accounts>>

\* review_queue: one flush for every report it made.  Rows that are gone are
\* passed over only when several are flushed together (CommitFails otherwise).
Prescreened(f) ==
  [ fix |-> f, actor |-> None, action |-> "prescreen", from |-> None, to |-> None,
    text |-> None ]

Orders(fs) == {o \in [1..Cardinality(fs) -> fs] : \A i, j \in DOMAIN o : o[i] = o[j] => i = j}

CommitQueue(r) ==
  LET fs == req[r].targets
  IN  /\ Loaded(r, "queue")
      /\ RowsFree(r, fs)
      /\ Cardinality(fs) > 1 \/ \E f \in fs : Exists(f)
      /\ fix' = [f \in Fixes |-> IF f \in fs /\ Exists(f)
                                 THEN [fix[f] EXCEPT !.screened = TRUE] ELSE fix[f]]
      /\ \E o \in Orders(fs) : audit' = audit \o [i \in DOMAIN o |-> Prescreened(o[i])]
      /\ Finish(r)
      /\ UNCHANGED <<chunks, accounts>>

-----------------------------------------------------------------------------
(***************************************************************************)
(* Rows that go with another row: the cascades of the schema.  They wait   *)
(* for every lock they need and write no event of a fix.                   *)
(***************************************************************************)

Unlocked(fs) == \A r \in Requests : /\ \A f \in fs : ~HoldsRow(r, f)
                                    /\ HeldChunks(r) \cap ChunksOf(fs) = {}

\* admin.delete_user: the fixes they submitted go, the others lose their reviewer
DeleteUser(u) ==
  LET theirs   == {f \in Fixes : Exists(f) /\ fix[f].submitter = u}
      reviewed == {f \in Fixes : Exists(f) /\ fix[f].reviewer = u}
  IN  /\ u \in accounts
      /\ Unlocked(theirs)
      /\ \A r \in Requests, f \in reviewed : ~HoldsRow(r, f)
      /\ accounts' = accounts \ {u}
      /\ fix' = [f \in Fixes |->
                   IF f \in theirs THEN NoRow("deleted")
                   ELSE IF f \in reviewed THEN [fix[f] EXCEPT !.reviewer = None]
                   ELSE fix[f]]
      /\ chunks' = chunks \ ChunksOf(theirs)
      /\ UNCHANGED <<audit, req>>

\* equipment.delete: all the fixes of one machine go
DeleteEquipment(fs) ==
  /\ fs # {}
  /\ \A f \in fs : Exists(f)
  /\ Unlocked(fs)
  /\ fix' = Removed(fs)
  /\ chunks' = chunks \ ChunksOf(fs)
  /\ UNCHANGED <<audit, accounts, req>>

-----------------------------------------------------------------------------
(***************************************************************************)
(* Failure.  A transaction that does not commit leaves nothing behind.     *)
(***************************************************************************)

\* An UPDATE that matches no row (StaleDataError), a chunk of a fix that is
\* gone or a reviewer who is no longer a user (foreign keys).
Orphaned(r) ==
  \E f \in req[r].targets :
    \/ ~Exists(f)
    \/ /\ req[r].op \in Transitions
       /\ req[r].actor # req[r].seen[f].reviewer
       /\ req[r].actor \notin accounts

CommitFails(r) ==
  /\ Open(r) /\ req[r].op # "delete"
  /\ req[r].pc \in {"loaded", "purged"}
  /\ Orphaned(r)
  /\ Finish(r)
  /\ UNCHANGED <<fix, chunks, audit, accounts>>

DeadlockAbort_Never(r) == FALSE   \* slip: nobody breaks the cycle

\* PostgreSQL's deadlock detector aborts one transaction of the cycle.
DeadlockAbort(r) ==
  /\ \E q \in Requests \ {r} : Blocks(q, r) /\ Blocks(r, q)
  /\ Finish(r)
  /\ UNCHANGED <<fix, chunks, audit, accounts>>

\* Anything else: the embedder or the model fails, the connection or the
\* process is lost, the client gives up.
Abort(r) ==
  /\ Open(r)
  /\ Finish(r)
  /\ UNCHANGED <<fix, chunks, audit, accounts>>

-----------------------------------------------------------------------------
Arrive(r) ==
  \/ LoadQueue(r)
  \/ \E f \in Fixes, u \in Users :
       \/ LoadForDelete(r, f, u)
       \/ \E t \in Texts \cup {None} :
            \/ LoadForEdit(r, f, u, t)
            \/ \E op \in Transitions : LoadForTransition(r, op, f, u, t)
       \/ \E op \in CuratorOps \cup {"delete"} : Refuse(r, op, f, u)

\* What a request does once it has begun, if nothing goes wrong around it.
Step(r) ==
  \/ BeginPurge(r) \/ EndPurge(r) \/ PurgeForEdit(r)
  \/ CommitQueue(r) \/ CommitFails(r) \/ DeadlockAbort(r)
  \/ \E f \in Fixes :
       \/ CommitApprove(r, f) \/ CommitResolve(r, f) \/ CommitRetire(r, f)
       \/ CommitEdit(r, f) \/ LockForEdit(r, f) \/ CommitReindex(r, f)
       \/ CommitDelete(r, f) \/ DeleteNothing(r, f)

Next ==
  \/ \E f \in Fixes, u \in Users, t \in Texts : Submit(f, u, t) \/ Create(f, u, t)
  \/ \E r \in Requests : Arrive(r) \/ Step(r) \/ Abort(r)
  \/ \E u \in Users : DeleteUser(u)
  \/ \E fs \in SUBSET Fixes : DeleteEquipment(fs)

Spec == Init /\ [][Next]_vars

\* A request that can go on does: the event loop schedules it, every call it
\* makes has a timeout, and the deadlock detector runs.  Nobody has to call.
FairSpec == Spec /\ \A r \in Requests : WF_vars(Step(r))

-----------------------------------------------------------------------------
(***************************************************************************)
(* Properties of every interleaving.                                       *)
(***************************************************************************)

Approvals(f) == {i \in DOMAIN audit : audit[i].fix = f /\ audit[i].action = "approve"}

\* The audited moves of f, and the last of them.
Moves(f) == {i \in DOMAIN audit : audit[i].fix = f /\ audit[i].to # None}
LastMove(f, i) == i \in Moves(f) /\ \A j \in Moves(f) : j <= i

\* Humans approve: whatever retrieval can serve of a fix belongs to a fix that
\* still exists and that a curator or admin has approved, however edits,
\* approvals, retirements and deletions interleave (_index_fix_text's callers).
IndexedOnlyAfterApprove ==
  \A c \in chunks :
    /\ Exists(c.fix)
    /\ \E i \in Approvals(c.fix) : audit[i].actor \in Reviewers

\* The audit trail explains the state of every fix: it is the state that the
\* last event to name one recorded, in the order of the commits.
StateIsLastAudited ==
  \A f \in Fixes : Exists(f) =>
    \E i \in Moves(f) : LastMove(f, i) /\ audit[i].to = fix[f].state

\* The badge of an approved fix names the reviewer who approved it last, or
\* nobody once that user is deleted; never one whose decision came to nothing.
BadgeNamesApprover ==
  \A f \in Fixes : fix[f].state = "approved" =>
    \E i \in Moves(f) :
      /\ LastMove(f, i) /\ audit[i].action = "approve"
      /\ fix[f].reviewer = IF audit[i].actor \in accounts THEN audit[i].actor ELSE None

\* An edit replaces what it re-indexes: only an approval adds a copy, so a fix
\* is never in the index more often than it was approved.
NoExtraCopies ==
  \A f \in Fixes : Cardinality(ChunksOf({f})) <= Cardinality(Approvals(f))

\* No request waits for ever, whatever locks the others hold.
RequestsFinish == \A r \in Requests : Open(r) ~> ~Open(r)

\* A retired fix has vanished from the index ("must vanish immediately").
RetiredVanishes == \A c \in chunks : fix[c.fix].state # "retired"

=============================================================================
