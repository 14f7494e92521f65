----------------------------- MODULE Documents -----------------------------
(***************************************************************************)
(* The manuals of one machine: Celery tasks ingest uploaded PDFs as new    *)
(* versions of a title (ingestion/pipeline.py, registry.py, tasks.py),     *)
(* requests rename and delete them (api/routers/documents.py), and the     *)
(* PDFs and figures are kept in an object store that no transaction spans  *)
(* (core/storage.py).                                                      *)
(*                                                                         *)
(* A document row and its chunks and figure rows are inserted by one       *)
(* transaction and go together by cascade, so `doc` stands for all three.  *)
(* A worker may die at any moment, a call to a model or a store may fail.  *)
(***************************************************************************)
EXTENDS Naturals, Sequences, FiniteSets

CONSTANTS
  Docs,          \* identities of documents: a uuid4 each, never used twice
  Titles,
  Uploads,       \* accepted uploads, each one Celery task
  Requests,      \* PATCH and DELETE requests
  None           \* SQL NULL

ASSUME DocumentsAssumption ==
  /\ None \notin Docs
  /\ None \notin Titles

VARIABLES
  machine,   \* the equipment profile still exists
  doc,       \* the rows of `documents`
  objects,   \* the stored objects: <<document, kind>>
  task,      \* the ingestion task of each upload
  req        \* the state of each request

vars == <<machine, doc, objects, task, req>>

-----------------------------------------------------------------------------
Row == [ title : Titles, version : Nat, next : Docs \cup {None} ]  \* next: superseded_by

\* An id that is not in use yet, or no longer.
NoRow == [ title |-> None, version |-> 0, next |-> None ]

Kinds == {"pdf", "figures"}

\* A task that is under way has chosen its id; one that has read the latest
\* version of its title knows that row and the version it will insert.
Task ==
  [ pc      : {"none", "queued", "reading", "captioned", "stored", "committed",
               "success", "failure", "dead"},
    title   : Titles \cup {None},
    doc     : Docs \cup {None},
    prev    : Docs \cup {None},
    version : Nat ]

NoTask == [ pc |-> "none", title |-> None, doc |-> None, prev |-> None, version |-> 0 ]

\* seen is the title as loaded; todo and left are the objects a deletion has
\* still to remove, and those it tried and failed to remove.
Request ==
  [ pc    : {"new", "loaded", "cleaning", "done"},
    op    : {"rename", "delete", None},
    doc   : Docs \cup {None},
    title : Titles \cup {None},
    seen  : Titles \cup {None},
    todo  : SUBSET Kinds,
    left  : SUBSET Kinds ]

NoRequest ==
  [ pc |-> "new", op |-> None, doc |-> None, title |-> None, seen |-> None,
    todo |-> {}, left |-> {} ]

TypeOK ==
  /\ machine \in BOOLEAN
  /\ doc \in [Docs -> Row \cup {NoRow}]
  /\ objects \subseteq Docs \X Kinds
  /\ task \in [Uploads -> Task]
  /\ req \in [Requests -> Request]

Exists(d)     == doc[d] # NoRow
Superseded(d) == Exists(d) /\ doc[d].next # None
Live(d)       == Exists(d) /\ doc[d].next = None   \* what retrieval may return

Init ==
  /\ machine = TRUE
  /\ doc = [d \in Docs |-> NoRow]
  /\ objects = {}
  /\ task = [u \in Uploads |-> NoTask]
  /\ req = [r \in Requests |-> NoRequest]

-----------------------------------------------------------------------------
(***************************************************************************)
(* Ingestion.                                                              *)
(***************************************************************************)

\* A task that a worker is executing.
Running(u) == task[u].pc \in {"reading", "captioned", "stored", "committed"}

Advance(u, t) == task' = [task EXCEPT ![u] = t]

\* POST /documents/upload: the id of the machine is not looked up
Upload(u, t) ==
  /\ task[u].pc = "none"
  /\ Advance(u, [NoTask EXCEPT !.pc = "queued", !.title = t])
  /\ UNCHANGED <<machine, doc, objects, req>>

\* The worker takes the task: the PDF is read, split and embedded.
Start(u, d) ==
  /\ task[u].pc = "queued"
  /\ \A v \in Uploads : task[v].doc # d
  /\ Advance(u, [task[u] EXCEPT !.pc = "reading", !.doc = d])
  /\ UNCHANGED <<machine, doc, objects, req>>

\* caption_and_store of every figure
StoreFigures(u) ==
  /\ task[u].pc = "reading"
  /\ objects' = objects \cup {<<task[u].doc, "figures">>}
  /\ Advance(u, [task[u] EXCEPT !.pc = "captioned"])
  /\ UNCHANGED <<machine, doc, req>>

\* slip: the latest revision is the one with the lowest version
LatestOf_Lowest(t) ==
  {d \in Docs : /\ Exists(d) /\ doc[d].title = t
                /\ \A e \in Docs : Exists(e) /\ doc[e].title = t =>
                                     doc[d].version <= doc[e].version}

\* registry.latest_document: the highest version; a tie goes either way
LatestOf(t) ==
  {d \in Docs : /\ Exists(d) /\ doc[d].title = t
                /\ \A e \in Docs : Exists(e) /\ doc[e].title = t =>
                                     doc[e].version <= doc[d].version}

\* slip: no version for a first revision
NextVersion_NoFirst(prev) == IF prev = None THEN None ELSE doc[prev].version + 1

NextVersion(prev) == IF prev = None THEN 1 ELSE doc[prev].version + 1

\* The transaction reads the latest version; then the PDF is stored.
ReadLatest(u) ==
  LET latest == LatestOf(task[u].title) IN
  /\ task[u].pc = "captioned"
  /\ \E prev \in (IF latest = {} THEN {None} ELSE latest) :
       Advance(u, [task[u] EXCEPT !.pc = "stored", !.prev = prev, !.version = NextVersion(prev)])
  /\ objects' = objects \cup {<<task[u].doc, "pdf">>}
  /\ UNCHANGED <<machine, doc, req>>

\* slip: the revision before is not marked
Ingested_Beside(u) ==
  [doc EXCEPT ![task[u].doc] = [title |-> task[u].title, version |-> task[u].version, next |-> None]]

Ingested(u) ==
  LET k == task[u] IN
  [d \in Docs |-> IF d = k.doc THEN [title |-> k.title, version |-> k.version, next |-> None]
                  ELSE IF d = k.prev THEN [doc[d] EXCEPT !.next = k.doc]
                  ELSE doc[d]]

\* The INSERT refers to the machine, the UPDATE must find the row of prev.
CommitIngest(u) ==
  /\ task[u].pc = "stored"
  /\ machine
  /\ task[u].prev # None => Exists(task[u].prev)
  /\ doc' = Ingested(u)
  /\ Advance(u, [task[u] EXCEPT !.pc = "committed"])
  /\ UNCHANGED <<machine, objects, req>>

\* The task returns, and its result is published.
Succeed(u) ==
  /\ task[u].pc = "committed"
  /\ Advance(u, [task[u] EXCEPT !.pc = "success"])
  /\ UNCHANGED <<machine, doc, objects, req>>

\* Any exception: an unreadable PDF, a model, a store or Redis that fails, and
\* the two conditions of CommitIngest.  What was stored stays stored.
Fail(u) ==
  /\ Running(u)
  /\ Advance(u, [task[u] EXCEPT !.pc = "failure"])
  /\ UNCHANGED <<machine, doc, objects, req>>

\* The worker dies.  The task was acknowledged when it started: nobody retries it.
Die(u) ==
  /\ Running(u)
  /\ Advance(u, [task[u] EXCEPT !.pc = "dead"])
  /\ UNCHANGED <<machine, doc, objects, req>>

-----------------------------------------------------------------------------
(***************************************************************************)
(* Renaming and deletion.                                                  *)
(***************************************************************************)

Proceed(r, q) == req' = [req EXCEPT ![r] = q]
EndOf(r) == [req[r] EXCEPT !.pc = "done", !.todo = {}, !.left = @ \cup req[r].todo]

Loads(r, op, d, t) ==
  /\ req[r].pc = "new"
  /\ Exists(d)
  /\ Proceed(r, [NoRequest EXCEPT !.pc = "loaded", !.op = op, !.doc = d, !.title = t,
                                  !.seen = doc[d].title])

LoadForRename(r, d, t) == Loads(r, "rename", d, t) /\ UNCHANGED <<machine, doc, objects, task>>

\* slip: the objects go before the row
LoadForDelete_First(r, d) ==
  /\ Loads(r, "delete", d, None)
  /\ objects' = objects \ ({d} \X Kinds)
  /\ UNCHANGED <<machine, doc, task>>

LoadForDelete(r, d) == Loads(r, "delete", d, None) /\ UNCHANGED <<machine, doc, objects, task>>

\* The UPDATE names the title only if it differs from the one that was loaded.
CommitRename(r) ==
  LET q == req[r] IN
  /\ q.pc = "loaded" /\ q.op = "rename"
  /\ q.title # q.seen => Exists(q.doc)
  /\ doc' = IF q.title = q.seen THEN doc ELSE [doc EXCEPT ![q.doc].title = q.title]
  /\ Proceed(r, EndOf(r))
  /\ UNCHANGED <<machine, objects, task>>

\* slip: the rows that point to a deleted one are left alone
Without_Dangling(gone) == [d \in Docs |-> IF d \in gone THEN NoRow ELSE doc[d]]

\* The rows of gone are deleted; superseded_by is ON DELETE SET NULL.
Without(gone) ==
  [d \in Docs |-> IF d \in gone THEN NoRow
                  ELSE IF doc[d].next \in gone THEN [doc[d] EXCEPT !.next = None]
                  ELSE doc[d]]

\* slip: the figures are forgotten
CommitDelete_PdfOnly(r) ==
  LET q == req[r] IN
  /\ q.pc = "loaded" /\ q.op = "delete"
  /\ doc' = IF Exists(q.doc) THEN Without({q.doc}) ELSE doc
  /\ Proceed(r, [q EXCEPT !.pc = "cleaning", !.todo = {"pdf"}])
  /\ UNCHANGED <<machine, objects, task>>

\* A DELETE that finds no row is only a warning.
CommitDelete(r) ==
  LET q == req[r] IN
  /\ q.pc = "loaded" /\ q.op = "delete"
  /\ doc' = IF Exists(q.doc) THEN Without({q.doc}) ELSE doc
  /\ Proceed(r, [q EXCEPT !.pc = "cleaning", !.todo = Kinds])
  /\ UNCHANGED <<machine, objects, task>>

\* After the commit the objects are removed, the PDF first; an error of the
\* store is swallowed and the object stays.
CleanUp(r, kind) ==
  LET q == req[r] IN
  /\ q.pc = "cleaning" /\ kind \in q.todo
  /\ kind = "figures" => "pdf" \notin q.todo
  /\ \/ /\ objects' = objects \ {<<q.doc, kind>>}
        /\ Proceed(r, [q EXCEPT !.todo = @ \ {kind}])
     \/ /\ Proceed(r, [q EXCEPT !.todo = @ \ {kind}, !.left = @ \cup {kind}])
        /\ UNCHANGED objects
  /\ UNCHANGED <<machine, doc, task>>

\* A request ends: it is through, or any other error, or the process is lost.
EndRequest(r) ==
  /\ req[r].pc \in {"loaded", "cleaning"}
  /\ Proceed(r, EndOf(r))
  /\ UNCHANGED <<machine, doc, objects, task>>

\* equipment.delete_equipment: the rows go by cascade, the objects stay
DeleteMachine ==
  /\ machine
  /\ machine' = FALSE
  /\ doc' = Without({d \in Docs : Exists(d)})
  /\ UNCHANGED <<objects, task, req>>

-----------------------------------------------------------------------------
Ingest(u) ==
  \/ \E t \in Titles : Upload(u, t)
  \/ \E d \in Docs : Start(u, d)
  \/ StoreFigures(u) \/ ReadLatest(u) \/ CommitIngest(u) \/ Succeed(u)
  \/ Fail(u) \/ Die(u)

Serve(r) ==
  \/ \E d \in Docs : LoadForDelete(r, d) \/ \E t \in Titles : LoadForRename(r, d, t)
  \/ CommitRename(r) \/ CommitDelete(r) \/ EndRequest(r)
  \/ \E kind \in Kinds : CleanUp(r, kind)

Next ==
  \/ \E u \in Uploads : Ingest(u)
  \/ \E r \in Requests : Serve(r)
  \/ DeleteMachine

Spec == Init /\ [][Next]_vars

-----------------------------------------------------------------------------
(***************************************************************************)
(* Properties of every interleaving.                                       *)
(***************************************************************************)

\* A document that is listed can be downloaded and shows its figures: its row
\* never outlives its objects, whatever fails (upload before the commit,
\* clean-up after it).
RowsHaveObjects == \A d \in Docs : Exists(d) => {d} \X Kinds \subseteq objects

\* superseded_by leads from a document to one of a higher version that still
\* exists, and no document supersedes two: the revisions form chains, never
\* a cycle, whatever is ingested, renamed and deleted at once.
LineageForward ==
  \A d \in Docs : Superseded(d) =>
    /\ Exists(doc[d].next)
    /\ doc[doc[d].next].version > doc[d].version
    /\ \A e \in Docs : Superseded(e) /\ doc[e].next = doc[d].next => e = d

\* An object without a row is one that an ingestion or a deletion still works
\* on or has failed on, or that went with its machine: nothing else leaks.
ObjectsAccounted ==
  \A d \in Docs, kind \in Kinds : <<d, kind>> \in objects /\ ~Exists(d) =>
    \/ ~machine
    \/ \E u \in Uploads : task[u].doc = d /\ task[u].pc \in {"reading", "captioned", "stored",
                                                            "failure", "dead"}
    \/ \E r \in Requests : req[r].doc = d /\ kind \in req[r].todo \cup req[r].left

-----------------------------------------------------------------------------
(***************************************************************************)
(* What the source claims and the code does not keep.                      *)
(***************************************************************************)

\* No revision of a manual is live beside another: a new one is what the old one
\* is superseded by (core/models.py), so answers cite the current one (FR-9).
NothingOutdated ==
  \A d, e \in Docs : Live(d) /\ Live(e) /\ doc[d].title = doc[e].title => d = e

\* A revision whose successor is outdated itself stays out of the answers, whatever
\* is ingested, renamed or deleted (core/models.py: "never cite outdated procedures").
OutdatedStaysOut ==
  [][\A d \in Docs : Superseded(d) /\ Superseded(doc[d].next) => ~Live(d)']_vars

=============================================================================
