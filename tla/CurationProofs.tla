--------------------------- MODULE CurationProofs ---------------------------
(***************************************************************************)
(* Proofs about Curation, for every set of fixes, requests, users,         *)
(* reviewers and texts.                                                    *)
(***************************************************************************)
EXTENDS Curation, FiniteSetTheorems, TLAPS

-----------------------------------------------------------------------------
(***************************************************************************)
(* The inductive invariant.  What an edit or an approval puts in the index *)
(* depends on the row it loaded, maybe long ago: so an approval must stand *)
(* behind every row that a request loaded as approved, and the row an edit *)
(* has locked must still be there when its chunks are inserted.            *)
(***************************************************************************)

Vouched(f) == \E i \in Approvals(f) : audit[i].actor \in Reviewers

RequestInv(q) ==
  /\ \A f \in q.targets : /\ q.seen[f] \in LiveRow
                          /\ q.seen[f].state = "approved" => Vouched(f)
  /\ q.op # "queue" => \A f, g \in q.targets : f = g
  /\ q.pc \in {"editing", "reindexing"} =>
       /\ q.op = "edit" /\ q.text # None
       /\ \A f \in q.targets : Exists(f) /\ q.seen[f].state = "approved"
  /\ q.pc \in {"purging", "purged"} => q.op = "retire"
  /\ q.pc \notin {"new", "done"} /\ q.op \in CuratorOps => q.actor \in Reviewers

RowsVouched == \A f \in Fixes : fix[f].state = "approved" => Vouched(f)

IndexInv ==
  /\ TypeOK
  /\ \A r \in Requests : RequestInv(req[r])
  /\ RowsVouched
  /\ IndexedOnlyAfterApprove

-----------------------------------------------------------------------------
(***************************************************************************)
(* Types of what the operators of Curation return.                         *)
(***************************************************************************)

\* A row that stands for no fix, and the row of a fix, in terms of its state.
LEMMA RowStates ==
  /\ \A row \in LiveRow : row.state \in States
  /\ NoRow("absent").state = "absent" /\ NoRow("deleted").state = "deleted"
  /\ "absent" \notin States /\ "deleted" \notin States
  BY DEF LiveRow, NoRow, States

\* The row of a fix that exists has a text and a submitter.
LEMMA ExistsLive ==
  ASSUME TypeOK, NEW f \in Fixes PROVE Exists(f) <=> fix[f] \in LiveRow
  BY RowStates DEF TypeOK, Exists, Row

\* A request that is not under way is a request and owes nothing.
LEMMA IdleRequest ==
  ASSUME NEW pc \in {"new", "done"}
  PROVE  Idle(pc) \in Request /\ RequestInv(Idle(pc)) /\ RequestInv(Idle(pc))'
  <1>1. [f \in Fixes |-> NoRow("absent")] \in [Fixes -> Row]
    BY DEF Row
  <1>2. Idle(pc) \in Request
    BY <1>1 DEF Idle, Request
  <1>3. QED
    BY <1>2 DEF Idle, RequestInv

\* A request that has just loaded its rows is a request.
LEMMA BegunType ==
  ASSUME TypeOK, NEW op \in CuratorOps \cup {"delete", "queue"},
         NEW fs \in SUBSET Fixes, NEW u \in Users \cup {None}, NEW t \in Texts \cup {None}
  PROVE  Begun(op, fs, u, t) \in Request
  <1>1. [f \in Fixes |-> IF f \in fs THEN fix[f] ELSE NoRow("absent")] \in [Fixes -> Row]
    BY DEF TypeOK, Row
  <1>2. QED
    BY <1>1 DEF Begun, Request

\* Flushing a row that was loaded and changed over a row that exists.
LEMMA FlushType ==
  ASSUME NEW row \in LiveRow, NEW seen \in LiveRow, NEW new \in LiveRow
  PROVE  Flush(row, seen, new) \in LiveRow
  BY DEF Flush, Written, LiveRow

\* What a request that is under way refers to.
LEMMA LoadedTypes ==
  ASSUME IndexInv, NEW r \in Requests, NEW f \in req[r].targets
  PROVE  /\ f \in Fixes
         /\ req[r].seen[f] \in LiveRow
         /\ req[r].actor \in Users \cup {None}
         /\ req[r].text \in Texts \cup {None}
         /\ req[r].snap \in SUBSET Entry
  BY DEF IndexInv, RequestInv, TypeOK, Request

\* What approve, reject, unsafe, retire and edit make of a loaded row is a row.
LEMMA DecisionTypes ==
  ASSUME NEW seen \in LiveRow, NEW u \in Users, NEW t \in Texts \cup {None},
         NEW dst \in States
  PROVE  /\ Approval(seen, u, t) \in LiveRow
         /\ Resolution(seen, dst, u) \in LiveRow
         /\ Edition(seen, t) \in LiveRow
  BY DEF LiveRow, Approval, Resolution, Edition, States

\* Saving a decision keeps every row a row, and no fix disappears.
LEMMA SaveType ==
  ASSUME TypeOK, NEW f \in Fixes, NEW seen \in LiveRow, NEW new \in LiveRow,
         Exists(f), Save(f, seen, new)
  PROVE  /\ fix' \in [Fixes -> Row]
         /\ \A g \in Fixes : Exists(g) => Exists(g)'
         /\ \A g \in Fixes \ {f} : fix'[g] = fix[g]
         /\ fix'[f] = Flush(fix[f], seen, new)
  <1>1. fix[f] \in LiveRow
    BY ExistsLive
  <1>2. Flush(fix[f], seen, new) \in LiveRow
    BY <1>1, FlushType
  <1>3. fix' = [fix EXCEPT ![f] = Flush(fix[f], seen, new)]
    BY DEF Save
  <1>4. fix' \in [Fixes -> Row]
    BY <1>2, <1>3 DEF TypeOK, Row
  <1>5. /\ \A g \in Fixes \ {f} : fix'[g] = fix[g]
        /\ fix'[f] = Flush(fix[f], seen, new)
    BY <1>3 DEF TypeOK
  <1>6. \A g \in Fixes : Exists(g) => Exists(g)'
    BY <1>2, <1>5, RowStates DEF Exists
  <1>7. QED
    BY <1>4, <1>5, <1>6

\* The audit trail only grows: what was vouched for stays vouched for.
AuditGrows ==
  /\ audit' \in Seq(Event)
  /\ \A f \in Fixes : Vouched(f) => Vouched(f)'

\* A step that logs nothing loses nothing.
LEMMA SameAudit == ASSUME TypeOK, UNCHANGED audit PROVE AuditGrows
  BY DEF TypeOK, AuditGrows, Vouched, Approvals

\* One more event keeps what was vouched for, and an approval vouches for its fix.
LEMMA LogGrows ==
  ASSUME TypeOK, NEW f \in Fixes, NEW actor \in Users \cup {None},
         NEW action \in {"submit", "create", "edit", "approve", "rejected", "unsafe",
                         "retire", "delete", "prescreen"},
         NEW from \in States \cup {None}, NEW to \in States \cup {None},
         NEW text \in Texts \cup {None}, Log(f, actor, action, from, to, text)
  PROVE  /\ AuditGrows
         /\ action = "approve" /\ actor \in Reviewers => Vouched(f)'
  <1> DEFINE e == [ fix |-> f, actor |-> actor, action |-> action,
                    from |-> from, to |-> to, text |-> text ]
  <1>1. e \in Event
    BY DEF Event
  <1>2. audit \in Seq(Event) /\ audit' = Append(audit, e)
    BY DEF TypeOK, Log
  <1>3. /\ audit' \in Seq(Event)
        /\ Len(audit') = Len(audit) + 1
        /\ \A i \in 1 .. Len(audit) : audit'[i] = audit[i]
        /\ audit'[Len(audit) + 1] = e
    BY <1>1, <1>2
  <1>4. DOMAIN audit = 1 .. Len(audit) /\ DOMAIN audit' = 1 .. Len(audit')
    BY <1>2, <1>3
  <1>5. Len(audit) \in Nat
    BY <1>2
  <1>6. ASSUME NEW g \in Fixes, Vouched(g) PROVE Vouched(g)'
    BY <1>3, <1>4, <1>5, <1>6 DEF Vouched, Approvals
  <1>7. ASSUME action = "approve", actor \in Reviewers PROVE Vouched(f)'
    BY <1>3, <1>4, <1>5, <1>7 DEF Vouched, Approvals
  <1>8. QED
    BY <1>3, <1>6, <1>7 DEF AuditGrows

-----------------------------------------------------------------------------
(***************************************************************************)
(* The frame of every step: one request at most moves on, and the rows     *)
(* that the others have locked stay where they are.                        *)
(***************************************************************************)

LockedStay(p) == \A f \in Fixes : HoldsRow(p, f) => Exists(f)'

\* A request keeps its invariant while it stands still, if its locks are respected.
LEMMA RequestStands ==
  ASSUME IndexInv, AuditGrows, NEW p \in Requests, LockedStay(p), req'[p] = req[p]
  PROVE  RequestInv(req[p])'
  <1> DEFINE q == req[p]
  <1>1. RequestInv(req[p]) /\ q \in Request
    BY DEF IndexInv, TypeOK
  <1>2. q.targets \subseteq Fixes
    BY <1>1 DEF Request
  <1>3. \A f \in q.targets : q.seen[f].state = "approved" => Vouched(f)'
    BY <1>1, <1>2 DEF RequestInv, AuditGrows
  <1>4. q.pc \in {"editing", "reindexing"} => \A f \in q.targets : Exists(f)'
    BY <1>2 DEF LockedStay, HoldsRow
  <1>5. QED
    BY <1>1, <1>3, <1>4 DEF RequestInv

\* One request moves on to q, and the invariant of all of them follows.
LEMMA RequestMoves ==
  ASSUME IndexInv, AuditGrows, NEW r \in Requests,
         \A p \in Requests \ {r} : LockedStay(p),
         NEW q \in Request, req' = [req EXCEPT ![r] = q], RequestInv(q)'
  PROVE  req' \in [Requests -> Request] /\ \A p \in Requests : RequestInv(req[p])'
  <1>1. req' \in [Requests -> Request] /\ req'[r] = q
    BY DEF IndexInv, TypeOK
  <1>2. RequestInv(req[r])'
    BY <1>1
  <1>3. ASSUME NEW p \in Requests \ {r} PROVE RequestInv(req[p])'
    <2>1. req'[p] = req[p]
      BY DEF IndexInv, TypeOK
    <2>2. QED
      BY <2>1, RequestStands
  <1>4. QED
    BY <1>1, <1>2, <1>3

\* One request ends.
LEMMA RequestEnds ==
  ASSUME IndexInv, AuditGrows, NEW r \in Requests,
         \A p \in Requests \ {r} : LockedStay(p), Finish(r)
  PROVE  req' \in [Requests -> Request] /\ \A p \in Requests : RequestInv(req[p])'
  <1>1. PICK q \in Request : q = Idle("done")
    BY IdleRequest
  <1>2. RequestInv(q)'
    BY <1>1 DEF Idle, RequestInv
  <1>3. req' = [req EXCEPT ![r] = q]
    BY <1>1 DEF Finish
  <1>4. QED
    BY <1>2, <1>3, RequestMoves

\* No request moves.
LEMMA RequestsStand ==
  ASSUME IndexInv, AuditGrows, UNCHANGED req, \A p \in Requests : LockedStay(p)
  PROVE  req' \in [Requests -> Request] /\ \A p \in Requests : RequestInv(req[p])'
  BY RequestStands DEF IndexInv, TypeOK

\* A locked row exists.
LEMMA LockedExist ==
  ASSUME IndexInv, NEW p \in Requests, NEW f \in Fixes, HoldsRow(p, f)
  PROVE  Exists(f)
  BY DEF IndexInv, RequestInv, HoldsRow

\* If no fix disappears, every lock is respected.
LEMMA AllStay ==
  ASSUME IndexInv, \A f \in Fixes : Exists(f) => Exists(f)'
  PROVE  \A p \in Requests : LockedStay(p)
  BY LockedExist DEF LockedStay

-----------------------------------------------------------------------------
(***************************************************************************)
(* One lemma per kind of step.                                             *)
(***************************************************************************)

\* While the committed rows, chunks and events stand, so does what is said of them.
LEMMA NothingCommitted ==
  ASSUME IndexInv, UNCHANGED <<fix, chunks, audit, accounts>>
  PROVE  /\ AuditGrows
         /\ \A p \in Requests : LockedStay(p)
         /\ req' \in [Requests -> Request] => TypeOK'
         /\ RowsVouched' /\ IndexedOnlyAfterApprove'
  <1>1. AuditGrows
    BY SameAudit DEF IndexInv
  <1>2. \A p \in Requests : LockedStay(p)
    BY AllStay DEF Exists
  <1>3. req' \in [Requests -> Request] => TypeOK'
    BY DEF IndexInv, TypeOK
  <1>4. RowsVouched'
    BY DEF IndexInv, RowsVouched, Vouched, Approvals
  <1>5. IndexedOnlyAfterApprove'
    BY DEF IndexInv, IndexedOnlyAfterApprove, Exists, Approvals
  <1>6. QED
    BY <1>1, <1>2, <1>3, <1>4, <1>5

\* A request that is refused, fails or is aborted leaves nothing behind.
LEMMA NothingDone ==
  ASSUME IndexInv, NEW r \in Requests, Finish(r), UNCHANGED <<fix, chunks, audit, accounts>>
  PROVE  IndexInv'
  BY NothingCommitted, RequestEnds DEF IndexInv

\* A request arrives and loads rows that exist.
LEMMA RequestBegins ==
  ASSUME IndexInv, NEW r \in Requests, NEW op \in CuratorOps \cup {"delete", "queue"},
         NEW fs \in SUBSET Fixes, NEW u \in Users \cup {None}, NEW t \in Texts \cup {None},
         \A f \in fs : Exists(f), op # "queue" => \A f, g \in fs : f = g,
         op \in CuratorOps => u \in Reviewers,
         req' = [req EXCEPT ![r] = Begun(op, fs, u, t)],
         UNCHANGED <<fix, chunks, audit, accounts>>
  PROVE  IndexInv'
  <1>1. PICK q \in Request : q = Begun(op, fs, u, t)
    BY BegunType DEF IndexInv
  <1>2. \A f \in fs : fix[f] \in LiveRow /\ fix'[f] \in LiveRow
    BY ExistsLive DEF IndexInv
  <1>3. \A f \in fs : q.seen[f] = fix[f]
    BY <1>1 DEF Begun
  <1>4. \A f \in fs : fix[f].state = "approved" => Vouched(f)'
    BY NothingCommitted DEF IndexInv, RowsVouched, AuditGrows
  <1>5. RequestInv(q)'
    BY <1>1, <1>2, <1>3, <1>4 DEF RequestInv, Begun
  <1>6. req' = [req EXCEPT ![r] = q]
    BY <1>1
  <1>7. QED
    BY <1>5, <1>6, NothingCommitted, RequestMoves DEF IndexInv

\* A request goes on within its transaction: it starts or ends a DELETE of chunks.
LEMMA RequestGoesOn ==
  ASSUME IndexInv, NEW r \in Requests,
         NEW pc \in {"editing", "reindexing", "purging", "purged"},
         NEW snap \in SUBSET Entry, GoTo(r, pc, snap),
         req[r].pc \notin {"new", "done"},
         pc \in {"editing", "reindexing"} =>
           /\ req[r].op = "edit" /\ req[r].text # None
           /\ \A f \in req[r].targets : Exists(f) /\ req[r].seen[f].state = "approved",
         pc \in {"purging", "purged"} => req[r].op = "retire",
         UNCHANGED <<fix, chunks, audit, accounts>>
  PROVE  IndexInv'
  <1>1. req[r] \in Request /\ RequestInv(req[r])
    BY DEF IndexInv, TypeOK
  <1>2. [req[r] EXCEPT !.pc = pc, !.snap = snap] \in Request
    BY <1>1 DEF Request
  <1>3. PICK q \in Request : q = [req[r] EXCEPT !.pc = pc, !.snap = snap]
    BY <1>2
  <1>4. /\ q.pc = pc /\ q.op = req[r].op /\ q.targets = req[r].targets
        /\ q.text = req[r].text /\ q.seen = req[r].seen /\ q.actor = req[r].actor
    BY <1>1, <1>3 DEF Request
  <1>5. \A f \in q.targets : /\ f \in Fixes
                             /\ q.seen[f] \in LiveRow
                             /\ q.seen[f].state = "approved" => Vouched(f)'
    BY <1>1, <1>4, NothingCommitted DEF RequestInv, AuditGrows, Request
  <1>6. \A f \in q.targets : Exists(f) => Exists(f)'
    BY DEF Exists
  <1>7. RequestInv(q)'
    BY <1>1, <1>4, <1>5, <1>6 DEF RequestInv
  <1>8. req' = [req EXCEPT ![r] = q]
    BY <1>3 DEF GoTo
  <1>9. QED
    BY <1>7, <1>8, NothingCommitted, RequestMoves DEF IndexInv

\* A fix enters review with a fresh id.
LEMMA FixOpens ==
  ASSUME IndexInv, NEW f \in Fixes, NEW u \in Users, NEW t \in Texts,
         fix[f].state = "absent", fix' = [fix EXCEPT ![f] = Pending(u, t)],
         AuditGrows, UNCHANGED <<chunks, accounts, req>>
  PROVE  IndexInv'
  <1>1. Pending(u, t) \in LiveRow /\ Pending(u, t).state = "pending_review"
    BY DEF Pending, LiveRow, States
  <1>2. /\ fix' \in [Fixes -> Row] /\ fix'[f] = Pending(u, t)
        /\ \A g \in Fixes \ {f} : fix'[g] = fix[g]
    BY <1>1 DEF IndexInv, TypeOK, Row
  <1>3. \A g \in Fixes : Exists(g) => Exists(g)'
    BY <1>1, <1>2, RowStates DEF Exists
  <1>4. req' \in [Requests -> Request] /\ \A p \in Requests : RequestInv(req[p])'
    BY <1>3, AllStay, RequestsStand
  <1>5. TypeOK'
    BY <1>2, <1>4 DEF IndexInv, TypeOK, AuditGrows
  <1>6. RowsVouched'
    BY <1>1, <1>2 DEF IndexInv, RowsVouched, AuditGrows
  <1>7. IndexedOnlyAfterApprove'
    BY <1>3 DEF IndexInv, TypeOK, IndexedOnlyAfterApprove, AuditGrows, Vouched, Entry
  <1>8. QED
    BY <1>4, <1>5, <1>6, <1>7 DEF IndexInv

\* A request saves a row, the chunks of the index are among the old ones or
\* belong to a fix that is vouched for, and the request ends.
LEMMA RequestCommits ==
  ASSUME IndexInv, NEW r \in Requests, NEW f \in Fixes,
         NEW seen \in LiveRow, NEW new \in LiveRow, Exists(f), Save(f, seen, new),
         AuditGrows,
         Written(fix[f].state, seen.state, new.state) = "approved" => Vouched(f)',
         chunks' \in SUBSET Entry,
         \A c \in chunks' : c \in chunks \/ (c.fix = f /\ Vouched(f)'),
         Finish(r), UNCHANGED accounts
  PROVE  IndexInv'
  <1>1. /\ fix' \in [Fixes -> Row]
        /\ \A g \in Fixes : Exists(g) => Exists(g)'
        /\ \A g \in Fixes \ {f} : fix'[g] = fix[g]
        /\ fix'[f] = Flush(fix[f], seen, new)
    BY SaveType DEF IndexInv
  <1>2. req' \in [Requests -> Request] /\ \A p \in Requests : RequestInv(req[p])'
    BY <1>1, AllStay, RequestEnds
  <1>3. TypeOK'
    BY <1>1, <1>2 DEF IndexInv, TypeOK, AuditGrows
  <1>4. fix'[f].state = "approved" => Vouched(f)'
    BY <1>1 DEF Flush
  <1>5. RowsVouched'
    BY <1>1, <1>4 DEF IndexInv, RowsVouched, AuditGrows
  <1>6. ASSUME NEW c \in chunks'
        PROVE  Exists(c.fix)' /\ Vouched(c.fix)'
    <2>1. CASE c \in chunks
      BY <1>1, <2>1 DEF IndexInv, TypeOK, IndexedOnlyAfterApprove, AuditGrows, Vouched, Entry
    <2>2. CASE c.fix = f /\ Vouched(f)'
      BY <1>1, <2>2
    <2>3. QED
      BY <2>1, <2>2
  <1>7. IndexedOnlyAfterApprove'
    BY <1>6 DEF IndexedOnlyAfterApprove, Vouched
  <1>8. QED
    BY <1>2, <1>3, <1>5, <1>7 DEF IndexInv

\* Fixes go with their chunks; the others keep their state.
LEMMA FixesGo ==
  ASSUME IndexInv, NEW fs \in SUBSET Fixes, fix' \in [Fixes -> Row],
         \A g \in Fixes \ fs : fix'[g].state = fix[g].state,
         \A g \in fs : fix'[g].state = "deleted",
         chunks' = chunks \ ChunksOf(fs), AuditGrows, accounts' \subseteq Users,
         req' \in [Requests -> Request], \A p \in Requests : RequestInv(req[p])'
  PROVE  IndexInv'
  <1>1. TypeOK'
    BY DEF IndexInv, TypeOK, AuditGrows
  <1>2. RowsVouched'
    BY DEF IndexInv, RowsVouched, AuditGrows
  <1>3. ASSUME NEW c \in chunks' PROVE Exists(c.fix)' /\ Vouched(c.fix)'
    <2>1. c \in chunks /\ c.fix \in Fixes /\ c.fix \notin fs
      BY DEF IndexInv, TypeOK, Entry, ChunksOf
    <2>2. Exists(c.fix) /\ Vouched(c.fix)
      BY <2>1 DEF IndexInv, IndexedOnlyAfterApprove, Vouched
    <2>3. QED
      BY <2>1, <2>2 DEF Exists, AuditGrows
  <1>4. IndexedOnlyAfterApprove'
    BY <1>3 DEF IndexedOnlyAfterApprove, Vouched
  <1>5. QED
    BY <1>1, <1>2, <1>4 DEF IndexInv

\* Rows that no other transaction has locked may go.
LEMMA UnlockedGo ==
  ASSUME IndexInv, NEW fs \in SUBSET Fixes, NEW p \in Requests,
         \A f \in fs : ~HoldsRow(p, f),
         \A g \in Fixes \ fs : fix'[g].state = fix[g].state
  PROVE  LockedStay(p)
  BY LockedExist DEF LockedStay, Exists

\* delete_fix takes a fix and its chunks away; nobody had the row locked.
LEMMA CommitDeleteStep ==
  ASSUME IndexInv, NEW r \in Requests, NEW f \in Fixes, CommitDelete(r, f)
  PROVE  IndexInv'
  <1> USE DEF CommitDelete
  <1>1. f \in req[r].targets
    OBVIOUS
  <1>2. AuditGrows
    <2>1. req[r].seen[f].state \in States \cup {None}
      BY <1>1, LoadedTypes DEF LiveRow
    <2>2. QED
      BY <1>1, <2>1, LoadedTypes, LogGrows DEF IndexInv
  <1>3. PICK fs \in SUBSET Fixes : fs = {f}
    OBVIOUS
  <1>4. fix' = Removed(fs) /\ fix' \in [Fixes -> Row]
    BY <1>3 DEF IndexInv, TypeOK, Removed, Row
  <1>5. /\ \A g \in Fixes \ fs : fix'[g].state = fix[g].state
        /\ \A g \in fs : fix'[g].state = "deleted"
    BY <1>4, RowStates DEF Removed
  <1>6. \A p \in Requests \ {r} : LockedStay(p)
    BY <1>3, <1>5, UnlockedGo DEF RowsFree
  <1>7. req' \in [Requests -> Request] /\ \A p \in Requests : RequestInv(req[p])'
    BY <1>2, <1>6, RequestEnds
  <1>8. chunks' = chunks \ ChunksOf(fs) /\ accounts' \subseteq Users
    BY <1>3 DEF IndexInv, TypeOK
  <1>9. QED
    BY <1>2, <1>4, <1>5, <1>7, <1>8, FixesGo

\* Deleting a user takes the fixes they submitted and clears a reviewer elsewhere.
LEMMA DeleteUserStep ==
  ASSUME IndexInv, NEW u \in Users, DeleteUser(u)
  PROVE  IndexInv'
  <1> DEFINE theirs   == {f \in Fixes : Exists(f) /\ fix[f].submitter = u}
             reviewed == {f \in Fixes : Exists(f) /\ fix[f].reviewer = u}
  <1>1. AuditGrows
    BY SameAudit DEF IndexInv, DeleteUser
  <1>2. fix' = [f \in Fixes |->
                  IF f \in theirs THEN NoRow("deleted")
                  ELSE IF f \in reviewed THEN [fix[f] EXCEPT !.reviewer = None]
                  ELSE fix[f]]
    BY DEF DeleteUser
  <1>3. \A f \in reviewed : fix[f] \in LiveRow /\ [fix[f] EXCEPT !.reviewer = None] \in LiveRow
    BY ExistsLive DEF IndexInv, LiveRow
  <1>4. fix' \in [Fixes -> Row]
    BY <1>2, <1>3 DEF IndexInv, TypeOK, Row
  <1>5. /\ \A g \in Fixes \ theirs : fix'[g].state = fix[g].state
        /\ \A g \in theirs : fix'[g].state = "deleted"
    BY <1>2, <1>3, RowStates DEF LiveRow
  <1>6. \A p \in Requests : LockedStay(p)
    BY <1>5, UnlockedGo DEF DeleteUser, Unlocked
  <1>7. req' \in [Requests -> Request] /\ \A p \in Requests : RequestInv(req[p])'
    BY <1>1, <1>6, RequestsStand DEF DeleteUser
  <1>8. chunks' = chunks \ ChunksOf(theirs) /\ accounts' \subseteq Users
    BY DEF DeleteUser, IndexInv, TypeOK
  <1>9. QED
    BY <1>1, <1>4, <1>5, <1>7, <1>8, FixesGo

\* Deleting a machine takes all its fixes and their chunks.
LEMMA DeleteEquipmentStep ==
  ASSUME IndexInv, NEW fs \in SUBSET Fixes, DeleteEquipment(fs)
  PROVE  IndexInv'
  <1>1. AuditGrows
    BY SameAudit DEF IndexInv, DeleteEquipment
  <1>2. fix' = Removed(fs) /\ fix' \in [Fixes -> Row]
    BY DEF DeleteEquipment, IndexInv, TypeOK, Removed, Row
  <1>3. /\ \A g \in Fixes \ fs : fix'[g].state = fix[g].state
        /\ \A g \in fs : fix'[g].state = "deleted"
    BY <1>2, RowStates DEF Removed
  <1>4. \A p \in Requests : LockedStay(p)
    BY <1>3, UnlockedGo DEF DeleteEquipment, Unlocked
  <1>5. req' \in [Requests -> Request] /\ \A p \in Requests : RequestInv(req[p])'
    BY <1>1, <1>4, RequestsStand DEF DeleteEquipment
  <1>6. chunks' = chunks \ ChunksOf(fs) /\ accounts' \subseteq Users
    BY DEF DeleteEquipment, IndexInv, TypeOK
  <1>7. QED
    BY <1>1, <1>2, <1>3, <1>5, <1>6, FixesGo

\* The prescreen events of one flush keep what was vouched for.
LEMMA PrescreensGrow ==
  ASSUME TypeOK, NEW fs \in SUBSET Fixes, NEW o \in Orders(fs),
         audit' = audit \o [i \in DOMAIN o |-> Prescreened(o[i])]
  PROVE  AuditGrows
  <1> DEFINE evs == [i \in DOMAIN o |-> Prescreened(o[i])]
  <1>1. Cardinality(fs) \in Nat
    BY FS_Subset, FS_CardinalityType, CurationAssumption
  <1>2. \A f \in fs : Prescreened(f) \in Event
    BY DEF Prescreened, Event
  <1>3. evs \in [1 .. Cardinality(fs) -> Event]
    BY <1>2 DEF Orders
  <1>4. evs \in Seq(Event)
    BY <1>1, <1>3
  <1>5. audit \in Seq(Event) /\ audit' = audit \o evs
    BY DEF TypeOK
  <1>6. /\ audit' \in Seq(Event)
        /\ Len(audit') = Len(audit) + Len(evs)
        /\ \A i \in 1 .. Len(audit) : audit'[i] = audit[i]
    BY <1>4, <1>5
  <1>7. /\ DOMAIN audit = 1 .. Len(audit) /\ DOMAIN audit' = 1 .. Len(audit')
        /\ Len(audit) \in Nat /\ Len(evs) \in Nat
    BY <1>4, <1>5, <1>6
  <1>8. ASSUME NEW g \in Fixes, Vouched(g) PROVE Vouched(g)'
    BY <1>6, <1>7, <1>8 DEF Vouched, Approvals
  <1>9. QED
    BY <1>6, <1>8 DEF AuditGrows

\* review_queue sets reports and logs them; no state of a fix changes.
LEMMA CommitQueueStep ==
  ASSUME IndexInv, NEW r \in Requests, CommitQueue(r)
  PROVE  IndexInv'
  <1> DEFINE fs == req[r].targets
  <1>1. fs \in SUBSET Fixes
    BY DEF IndexInv, TypeOK, Request
  <1>2. AuditGrows
    BY <1>1, PrescreensGrow DEF CommitQueue, IndexInv
  <1>3. fix' = [f \in Fixes |-> IF f \in fs /\ Exists(f)
                                THEN [fix[f] EXCEPT !.screened = TRUE] ELSE fix[f]]
    BY DEF CommitQueue
  <1>4. \A f \in Fixes : Exists(f) => /\ fix[f] \in LiveRow
                                      /\ [fix[f] EXCEPT !.screened = TRUE] \in LiveRow
    BY ExistsLive DEF IndexInv, LiveRow
  <1>5. fix' \in [Fixes -> Row]
    BY <1>3, <1>4 DEF IndexInv, TypeOK, Row
  <1>6. \A f \in Fixes : fix'[f].state = fix[f].state
    BY <1>3, <1>4 DEF LiveRow
  <1>7. \A p \in Requests : LockedStay(p)
    BY <1>6, AllStay DEF Exists
  <1>8. req' \in [Requests -> Request] /\ \A p \in Requests : RequestInv(req[p])'
    BY <1>2, <1>7, RequestEnds DEF CommitQueue
  <1>9. PICK none \in SUBSET Fixes : none = {}
    OBVIOUS
  <1>10. chunks' = chunks \ ChunksOf(none) /\ accounts' \subseteq Users
    BY <1>9 DEF CommitQueue, ChunksOf, IndexInv, TypeOK
  <1>11. QED
    BY <1>2, <1>5, <1>6, <1>8, <1>9, <1>10, FixesGo

\* An approval vouches for the fix whose chunks it adds.
LEMMA CommitApproveStep ==
  ASSUME IndexInv, NEW r \in Requests, NEW f \in Fixes, CommitApprove(r, f)
  PROVE  IndexInv'
  <1> DEFINE seen == req[r].seen[f]
             new  == Approval(seen, req[r].actor, req[r].text)
  <1>1. f \in req[r].targets /\ req[r].op = "approve" /\ req[r].pc = "loaded"
    BY DEF CommitApprove, Loaded
  <1>2. seen \in LiveRow /\ req[r].text \in Texts \cup {None}
    BY <1>1, LoadedTypes
  <1>3. req[r].actor \in Reviewers /\ req[r].actor \in Users
    BY <1>1, CurationAssumption
    DEF IndexInv, RequestInv, CuratorOps, Transitions, Target
  <1>4. new \in LiveRow
    <2>1. "approved" \in States
      BY DEF States
    <2>2. QED
      BY <1>2, <1>3, <2>1, DecisionTypes
  <1>5. AuditGrows /\ Vouched(f)'
    <2>1. Log(f, req[r].actor, "approve", seen.state, "approved", new.text)
      BY DEF CommitApprove
    <2>2. seen.state \in States \cup {None} /\ "approved" \in States \cup {None}
      BY <1>2 DEF LiveRow, States
    <2>3. new.text \in Texts \cup {None}
      BY <1>4 DEF LiveRow
    <2>4. QED
      BY <1>3, <2>1, <2>2, <2>3, LogGrows DEF IndexInv
  <1>6. NewEntry(f, new.text) \in Entry
    BY <1>4 DEF IndexInv, TypeOK, NewEntry, Entry, LiveRow
  <1>7. chunks' \in SUBSET Entry
    BY <1>6 DEF CommitApprove, IndexInv, TypeOK
  <1>8. \A c \in chunks' : c \in chunks \/ (c.fix = f /\ Vouched(f)')
    BY <1>5 DEF CommitApprove, NewEntry
  <1>9. Exists(f) /\ Save(f, seen, new) /\ Finish(r) /\ UNCHANGED accounts
    BY DEF CommitApprove, Saves
  <1>10. QED
    BY <1>2, <1>4, <1>5, <1>7, <1>8, <1>9, RequestCommits

\* A rejection or a flag never makes a row approved: at most it leaves one so.
LEMMA CommitResolveStep ==
  ASSUME IndexInv, NEW r \in Requests, NEW f \in Fixes, CommitResolve(r, f)
  PROVE  IndexInv'
  <1> DEFINE seen == req[r].seen[f]
             dst  == Target[req[r].op]
             new  == Resolution(seen, dst, req[r].actor)
  <1>1. f \in req[r].targets /\ req[r].op \in {"reject", "unsafe"} /\ req[r].pc = "loaded"
    BY DEF CommitResolve, Loaded
  <1>2. seen \in LiveRow
    BY <1>1, LoadedTypes
  <1>3. req[r].actor \in Users
    BY <1>1, CurationAssumption
    DEF IndexInv, RequestInv, CuratorOps, Transitions, Target
  <1>4. dst \in States /\ dst \in {"rejected", "unsafe"}
    BY <1>1 DEF Target, States
  <1>5. new \in LiveRow /\ new.state = dst
    <2>1. new \in LiveRow
      BY <1>2, <1>3, <1>4, DecisionTypes
    <2>2. QED
      BY <2>1, <1>2 DEF Resolution, LiveRow
  <1>6. AuditGrows
    <2>1. Log(f, req[r].actor, dst, seen.state, dst, None)
      BY DEF CommitResolve
    <2>2. seen.state \in States \cup {None}
      BY <1>2 DEF LiveRow
    <2>3. QED
      BY <1>3, <1>4, <2>1, <2>2, LogGrows DEF IndexInv
  <1>7. Exists(f) /\ Save(f, seen, new) /\ Finish(r) /\ UNCHANGED <<chunks, accounts>>
    BY DEF CommitResolve, Saves
  <1>8. Written(fix[f].state, seen.state, new.state) = "approved" => Vouched(f)'
    BY <1>4, <1>5, <1>6 DEF Written, AuditGrows, IndexInv, RowsVouched
  <1>9. chunks' \in SUBSET Entry /\ \A c \in chunks' : c \in chunks
    BY <1>7 DEF IndexInv, TypeOK
  <1>10. QED
    BY <1>2, <1>5, <1>6, <1>7, <1>8, <1>9, RequestCommits

\* A retirement takes chunks away and leaves the state retired, or as it was.
LEMMA CommitRetireStep ==
  ASSUME IndexInv, NEW r \in Requests, NEW f \in Fixes, CommitRetire(r, f)
  PROVE  IndexInv'
  <1> DEFINE seen == req[r].seen[f]
             new  == Resolution(seen, "retired", req[r].actor)
  <1>1. f \in req[r].targets /\ req[r].pc = "purged" /\ req[r].op = "retire"
    BY DEF CommitRetire, IndexInv, RequestInv
  <1>2. seen \in LiveRow
    BY <1>1, LoadedTypes
  <1>3. req[r].actor \in Users
    BY <1>1, CurationAssumption
    DEF IndexInv, RequestInv, CuratorOps, Transitions, Target
  <1>4. "retired" \in States
    BY DEF States
  <1>5. new \in LiveRow /\ new.state = "retired"
    <2>1. new \in LiveRow
      BY <1>2, <1>3, <1>4, DecisionTypes
    <2>2. QED
      BY <2>1, <1>2 DEF Resolution, LiveRow
  <1>6. AuditGrows
    <2>1. Log(f, req[r].actor, "retire", seen.state, "retired", None)
      BY DEF CommitRetire
    <2>2. seen.state \in States \cup {None}
      BY <1>2 DEF LiveRow
    <2>3. QED
      BY <1>3, <1>4, <2>1, <2>2, LogGrows DEF IndexInv
  <1>7. Exists(f) /\ Save(f, seen, new) /\ Finish(r) /\ UNCHANGED accounts
    BY DEF CommitRetire, Saves
  <1>8. Written(fix[f].state, seen.state, new.state) = "approved" => Vouched(f)'
    BY <1>5, <1>6 DEF Written, AuditGrows, IndexInv, RowsVouched
  <1>9. chunks' \in SUBSET Entry /\ \A c \in chunks' : c \in chunks
    BY DEF CommitRetire, IndexInv, TypeOK
  <1>10. QED
    BY <1>2, <1>5, <1>6, <1>7, <1>8, <1>9, RequestCommits

\* What both forms of update_fix have in common: the text changes, not the state.
LEMMA EditionStep ==
  ASSUME IndexInv, NEW r \in Requests, NEW f \in req[r].targets, req[r].op = "edit",
         req[r].pc \notin {"new", "done"},
         Log(f, req[r].actor, "edit", None, None, Edition(req[r].seen[f], req[r].text).text)
  PROVE  /\ f \in Fixes
         /\ req[r].seen[f] \in LiveRow
         /\ Edition(req[r].seen[f], req[r].text) \in LiveRow
         /\ AuditGrows
         /\ Written(fix[f].state, req[r].seen[f].state,
                    Edition(req[r].seen[f], req[r].text).state) = "approved" => Vouched(f)'
  <1> DEFINE seen == req[r].seen[f]
             new  == Edition(seen, req[r].text)
  <1>1. f \in Fixes /\ seen \in LiveRow /\ req[r].text \in Texts \cup {None}
    BY LoadedTypes
  <1>2. req[r].actor \in Users
    BY CurationAssumption DEF IndexInv, RequestInv, CuratorOps
  <1>3. new \in LiveRow /\ new.state = seen.state
    <2>1. "approved" \in States
      BY DEF States
    <2>2. new \in LiveRow
      BY <1>1, <1>2, <2>1, DecisionTypes
    <2>3. QED
      BY <1>1, <2>2 DEF Edition, LiveRow
  <1>4. AuditGrows
    <2>1. new.text \in Texts \cup {None}
      BY <1>3 DEF LiveRow
    <2>2. QED
      BY <1>1, <1>2, <2>1, LogGrows DEF IndexInv
  <1>5. Written(fix[f].state, seen.state, new.state) = "approved" => Vouched(f)'
    BY <1>1, <1>3, <1>4 DEF Written, AuditGrows, IndexInv, RowsVouched
  <1>6. QED
    BY <1>1, <1>3, <1>4, <1>5

\* An edit that re-indexes nothing leaves the index alone.
LEMMA CommitEditStep ==
  ASSUME IndexInv, NEW r \in Requests, NEW f \in Fixes, CommitEdit(r, f)
  PROVE  IndexInv'
  <1> DEFINE seen == req[r].seen[f]
             new  == Edition(seen, req[r].text)
  <1>1. /\ f \in req[r].targets /\ req[r].pc = "loaded" /\ req[r].op = "edit"
        /\ Log(f, req[r].actor, "edit", None, None, new.text)
    BY DEF CommitEdit, Loaded
  <1>2. Exists(f) /\ Save(f, seen, new) /\ Finish(r) /\ UNCHANGED <<chunks, accounts>>
    BY DEF CommitEdit, Saves
  <1>3. chunks' \in SUBSET Entry /\ \A c \in chunks' : c \in chunks
    BY <1>2 DEF IndexInv, TypeOK
  <1>4. QED
    BY <1>1, <1>2, <1>3, EditionStep, RequestCommits

\* An edit that re-indexes had loaded an approved row, so its fix is vouched for,
\* and it holds the lock of the row, so the fix is still there.
LEMMA CommitReindexStep ==
  ASSUME IndexInv, NEW r \in Requests, NEW f \in Fixes, CommitReindex(r, f)
  PROVE  IndexInv'
  <1> DEFINE seen == req[r].seen[f]
             new  == Edition(seen, req[r].text)
  <1>1. /\ f \in req[r].targets /\ req[r].pc = "reindexing"
        /\ Log(f, req[r].actor, "edit", None, None, new.text)
    BY DEF CommitReindex
  <1>2. req[r].op = "edit" /\ Exists(f) /\ seen.state = "approved" /\ Vouched(f)
    BY <1>1 DEF IndexInv, RequestInv
  <1>3. seen \in LiveRow /\ new \in LiveRow /\ AuditGrows
    BY <1>1, <1>2, EditionStep
  <1>4. Vouched(f)'
    BY <1>2, <1>3 DEF AuditGrows
  <1>5. NewEntry(f, new.text) \in Entry
    BY <1>3 DEF IndexInv, TypeOK, NewEntry, Entry, LiveRow
  <1>6. chunks' \in SUBSET Entry
    BY <1>5 DEF CommitReindex, IndexInv, TypeOK
  <1>7. \A c \in chunks' : c \in chunks \/ (c.fix = f /\ Vouched(f)')
    BY <1>4 DEF CommitReindex, NewEntry
  <1>8. Save(f, seen, new) /\ Finish(r) /\ UNCHANGED accounts
    BY DEF CommitReindex
  <1>9. QED
    BY <1>2, <1>3, <1>4, <1>6, <1>7, <1>8, RequestCommits

\* Deleting what is already gone only logs.
LEMMA DeleteNothingStep ==
  ASSUME IndexInv, NEW r \in Requests, NEW f \in Fixes, DeleteNothing(r, f)
  PROVE  IndexInv'
  <1>1. f \in req[r].targets /\ UNCHANGED <<fix, chunks, accounts>> /\ Finish(r)
    BY DEF DeleteNothing
  <1>2. AuditGrows
    <2>1. req[r].seen[f].state \in States \cup {None}
      BY <1>1, LoadedTypes DEF LiveRow
    <2>2. QED
      BY <1>1, <2>1, LoadedTypes, LogGrows DEF DeleteNothing, IndexInv
  <1>3. req' \in [Requests -> Request] /\ \A p \in Requests : RequestInv(req[p])'
    <2>1. \A p \in Requests : LockedStay(p)
      BY <1>1, AllStay DEF Exists
    <2>2. QED
      BY <1>1, <1>2, <2>1, RequestEnds
  <1>4. PICK none \in SUBSET Fixes : none = {}
    OBVIOUS
  <1>5. /\ fix' \in [Fixes -> Row] /\ accounts' \subseteq Users
        /\ chunks' = chunks \ ChunksOf(none)
    BY <1>1, <1>4 DEF ChunksOf, IndexInv, TypeOK
  <1>6. \A g \in Fixes : fix'[g].state = fix[g].state
    BY <1>1
  <1>7. QED
    BY <1>2, <1>3, <1>4, <1>5, <1>6, FixesGo

\* What a curator request may begin with: the operations and their targets.
LEMMA Operations ==
  /\ Transitions = {"approve", "reject", "unsafe", "retire"}
  /\ CuratorOps = {"approve", "reject", "unsafe", "retire", "edit"}
  BY DEF CuratorOps, Transitions, Target

\* A request arrives, or is refused at once.
LEMMA ArriveStep ==
  ASSUME IndexInv, NEW r \in Requests, Arrive(r)
  PROVE  IndexInv'
  <1>1. CASE LoadQueue(r)
    <2>1. Unscreened \in SUBSET Fixes
      BY DEF Unscreened
    <2>2. PICK fs \in SUBSET Fixes : fs = Unscreened
      BY <2>1
    <2>3. \A f \in fs : Exists(f)
      BY <2>2 DEF Unscreened, Exists, States
    <2>4. req' = [req EXCEPT ![r] = Begun("queue", fs, None, None)]
      BY <1>1, <2>2 DEF LoadQueue
    <2>5. UNCHANGED <<fix, chunks, audit, accounts>>
      BY <1>1 DEF LoadQueue
    <2>6. "queue" \in CuratorOps \cup {"delete", "queue"} /\ "queue" \notin CuratorOps
      BY Operations
    <2>7. QED
      BY <2>3, <2>4, <2>5, <2>6, RequestBegins
  <1>2. ASSUME NEW f \in Fixes, NEW u \in Users, NEW op \in CuratorOps \cup {"delete"},
               NEW t \in Texts \cup {None},
               Exists(f), u \in Reviewers,
               req' = [req EXCEPT ![r] = Begun(op, {f}, u, t)],
               UNCHANGED <<fix, chunks, audit, accounts>>
        PROVE  IndexInv'
    <2>1. PICK fs \in SUBSET Fixes : fs = {f}
      OBVIOUS
    <2>2. req' = [req EXCEPT ![r] = Begun(op, fs, u, t)]
      BY <1>2, <2>1
    <2>3. op \in CuratorOps \cup {"delete", "queue"} /\ u \in Users \cup {None}
      OBVIOUS
    <2>4. (\A g \in fs : Exists(g)) /\ (\A g, h \in fs : g = h)
      BY <1>2, <2>1
    <2>5. UNCHANGED <<fix, chunks, audit, accounts>> /\ (op \in CuratorOps => u \in Reviewers)
      BY <1>2
    <2>6. QED
      BY <2>2, <2>3, <2>4, <2>5, RequestBegins
  <1>3. ASSUME NEW f \in Fixes, NEW u \in Users, LoadForDelete(r, f, u) PROVE IndexInv'
    BY <1>2, <1>3 DEF LoadForDelete
  <1>4. ASSUME NEW f \in Fixes, NEW u \in Users, NEW t \in Texts \cup {None},
               LoadForEdit(r, f, u, t)
        PROVE  IndexInv'
    BY <1>2, <1>4, Operations DEF LoadForEdit
  <1>5. ASSUME NEW f \in Fixes, NEW u \in Users, NEW t \in Texts \cup {None},
               NEW op \in Transitions, LoadForTransition(r, op, f, u, t)
        PROVE  IndexInv'
    BY <1>2, <1>5, Operations DEF LoadForTransition
  <1>6. ASSUME NEW f \in Fixes, NEW u \in Users, NEW op \in CuratorOps \cup {"delete"},
               Refuse(r, op, f, u)
        PROVE  IndexInv'
    BY <1>6, NothingDone DEF Refuse
  <1>7. QED
    BY <1>1, <1>3, <1>4, <1>5, <1>6 DEF Arrive

\* A request goes on, commits or fails.
LEMMA StepStep ==
  ASSUME IndexInv, NEW r \in Requests, Step(r)
  PROVE  IndexInv'
  <1>1. req[r] \in Request /\ RequestInv(req[r]) /\ chunks \subseteq Entry
    BY DEF IndexInv, TypeOK
  <1>2. req[r].snap \cap chunks \in SUBSET Entry
    BY <1>1
  <1>3. CASE BeginPurge(r)
    <2>1. ChunksOf(req[r].targets) \in SUBSET Entry
      BY <1>1 DEF ChunksOf
    <2>2. QED
      BY <1>3, <2>1, RequestGoesOn DEF BeginPurge, Loaded
  <1>4. CASE EndPurge(r)
    BY <1>1, <1>2, <1>4, RequestGoesOn DEF EndPurge, RequestInv
  <1>5. CASE PurgeForEdit(r)
    BY <1>1, <1>2, <1>5, RequestGoesOn DEF PurgeForEdit, RequestInv
  <1>6. ASSUME NEW f \in Fixes, LockForEdit(r, f) PROVE IndexInv'
    <2>1. ChunksOf({f}) \in SUBSET Entry
      BY <1>1 DEF ChunksOf
    <2>2. req[r].op = "edit" /\ req[r].pc = "loaded" /\ f \in req[r].targets
      BY <1>6 DEF LockForEdit, Loaded
    <2>3. \A g \in req[r].targets : g = f
      BY <1>1, <2>2 DEF RequestInv
    <2>4. QED
      BY <1>6, <2>1, <2>2, <2>3, RequestGoesOn DEF LockForEdit, Reindexes
  <1>7. CASE CommitFails(r) \/ DeadlockAbort(r)
    BY <1>7, NothingDone DEF CommitFails, DeadlockAbort
  <1>8. QED
    BY <1>3, <1>4, <1>5, <1>6, <1>7, CommitQueueStep, CommitApproveStep, CommitResolveStep,
       CommitRetireStep, CommitEditStep, CommitReindexStep, CommitDeleteStep,
       DeleteNothingStep DEF Step

-----------------------------------------------------------------------------
(***************************************************************************)
(* The invariant, and what follows from it.                                *)
(***************************************************************************)

\* Nothing is there at first.
LEMMA IndexInvInit == Init => IndexInv
  <1> SUFFICES ASSUME Init PROVE IndexInv
    OBVIOUS
  <1>1. "new" \in {"new", "done"}
    OBVIOUS
  <1>2. Idle("new") \in Request /\ RequestInv(Idle("new"))
    BY <1>1, IdleRequest
  <1>3. TypeOK
    BY <1>2 DEF Init, TypeOK, Row
  <1>4. \A r \in Requests : RequestInv(req[r])
    BY <1>2 DEF Init
  <1>5. RowsVouched /\ IndexedOnlyAfterApprove
    BY RowStates DEF Init, RowsVouched, IndexedOnlyAfterApprove
  <1>6. QED
    BY <1>3, <1>4, <1>5 DEF IndexInv

\* A fix enters review.
LEMMA OpenStep ==
  ASSUME IndexInv, NEW f \in Fixes, NEW u \in Users, NEW t \in Texts,
         Submit(f, u, t) \/ Create(f, u, t)
  PROVE  IndexInv'
  <1>1. "submitted" \in States /\ "pending_review" \in States
    BY DEF States
  <1>2. AuditGrows
    <2>1. CASE Submit(f, u, t)
      BY <1>1, <2>1, LogGrows DEF Submit, IndexInv
    <2>2. CASE Create(f, u, t)
      BY <1>1, <2>2, LogGrows DEF Create, IndexInv
    <2>3. QED
      BY <2>1, <2>2
  <1>3. QED
    BY <1>2, FixOpens DEF Submit, Create

\* Every step preserves the invariant.
LEMMA IndexInvNext == IndexInv /\ [Next]_vars => IndexInv'
  <1> SUFFICES ASSUME IndexInv, [Next]_vars PROVE IndexInv'
    OBVIOUS
  <1>1. CASE UNCHANGED vars
    <2>1. UNCHANGED <<fix, chunks, audit, accounts>> /\ UNCHANGED req
      BY <1>1 DEF vars
    <2>2. QED
      BY <2>1, NothingCommitted, RequestsStand DEF IndexInv
  <1>2. ASSUME NEW r \in Requests, Abort(r) PROVE IndexInv'
    BY <1>2, NothingDone DEF Abort
  <1>3. QED
    BY <1>1, <1>2, OpenStep, ArriveStep, StepStep, DeleteUserStep, DeleteEquipmentStep
    DEF Next

\* The invariant holds of every behaviour of the curation service.
LEMMA IndexInvAlways == Spec => []IndexInv
  BY IndexInvInit, IndexInvNext, PTL DEF Spec

\* Every row, chunk, event and request of the curation service is well formed,
\* for any number of fixes, users and requests.
THEOREM TypeCorrect == Spec => []TypeOK
  <1>1. IndexInv => TypeOK
    BY DEF IndexInv
  <1>2. QED
    BY <1>1, IndexInvAlways, PTL

\* Humans approve: nothing of a fix is ever in the index unless the fix exists
\* and a curator or admin has approved it, whatever requests overlap on it.
THEOREM OnlyApprovedIsIndexed == Spec => []IndexedOnlyAfterApprove
  <1>1. IndexInv => IndexedOnlyAfterApprove
    BY DEF IndexInv
  <1>2. QED
    BY <1>1, IndexInvAlways, PTL

=============================================================================
