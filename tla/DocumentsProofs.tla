--------------------------- MODULE DocumentsProofs ---------------------------
(***************************************************************************)
(* Proofs about Documents and its history, for every set of documents,     *)
(* titles, uploads and requests.                                           *)
(***************************************************************************)
EXTENDS DocumentsHistory, TLAPS

-----------------------------------------------------------------------------
(***************************************************************************)
(* The inductive invariant.  Objects are stored before the row they belong *)
(* to and removed after it; what makes that safe is that an id belongs to  *)
(* one task for ever, so a deletion never meets the ingestion of the       *)
(* document it removes.                                                    *)
(***************************************************************************)

\* An id is chosen once.
OwnIds ==
  /\ \A u, v \in Uploads : task[u].doc # None /\ task[u].doc = task[v].doc => u = v
  /\ \A u \in Uploads : task[u].pc \in {"reading", "captioned", "stored"} =>
       task[u].doc # None /\ ~Exists(task[u].doc)

\* What a task has stored before it commits.
StoredFirst ==
  \A u \in Uploads :
    /\ task[u].pc \in {"captioned", "stored"} => <<task[u].doc, "figures">> \in objects
    /\ task[u].pc = "stored" => <<task[u].doc, "pdf">> \in objects

\* d has had a row.
Ended(d) ==
  \E u \in Uploads :
    task[u].doc = d /\ task[u].pc \in {"committed", "success", "failure", "dead"}

\* Requests and tasks speak of documents that have had a row; requests clean up
\* after it.
Handled ==
  /\ \A d \in Docs : Exists(d) => Ended(d)
  /\ \A u \in Uploads : task[u].prev # None => Ended(task[u].prev)
  /\ \A r \in Requests : req[r].doc # None => Ended(req[r].doc)
  /\ \A r \in Requests : req[r].pc = "cleaning" => req[r].doc # None /\ ~Exists(req[r].doc)
  /\ \A r \in Requests : req[r].pc = "loaded" =>
       req[r].doc # None /\ (req[r].op = "rename" => req[r].title # None)

\* A task has the title it was uploaded with.
Titled == \A u \in Uploads : task[u].pc # "none" => task[u].title # None

\* A task's version follows that of the document it supersedes.
VersionFollows ==
  \A u \in Uploads :
    task[u].pc = "stored" /\ task[u].prev # None /\ Exists(task[u].prev) =>
      task[u].version = doc[task[u].prev].version + 1

DocInv ==
  /\ TypeOK
  /\ OwnIds
  /\ StoredFirst
  /\ Titled
  /\ Handled
  /\ RowsHaveObjects
  /\ VersionFollows
  /\ LineageForward

-----------------------------------------------------------------------------
(***************************************************************************)
(* What the steps write.                                                   *)
(***************************************************************************)

Under == {"reading", "captioned", "stored"}               \* before the commit
Over  == {"committed", "success", "failure", "dead"}

LEMMA RowFacts ==
  ASSUME TypeOK, NEW d \in Docs
  PROVE  /\ Exists(d) <=> doc[d] \in Row
         /\ ~Exists(d) => doc[d].next = None
         /\ doc[d].next \in Docs \cup {None}
         /\ doc[d].version \in Nat
         /\ Superseded(d) => doc[d].next \in Docs
  BY DocumentsAssumption DEF TypeOK, Row, NoRow, Exists, Superseded

LEMMA TaskSet ==
  ASSUME TypeOK, NEW u \in Uploads, NEW t \in Task, Advance(u, t)
  PROVE  /\ task' \in [Uploads -> Task]
         /\ task'[u] = t
         /\ \A v \in Uploads \ {u} : task'[v] = task[v]
  BY DEF TypeOK, Advance

LEMMA RequestSet ==
  ASSUME TypeOK, NEW r \in Requests, NEW q \in Request, Proceed(r, q)
  PROVE  /\ req' \in [Requests -> Request]
         /\ req'[r] = q
         /\ \A s \in Requests \ {r} : req'[s] = req[s]
  BY DEF TypeOK, Proceed

\* A task that is over stays over, and keeps its id.
LEMMA EndedStays ==
  ASSUME TypeOK, NEW u \in Uploads, NEW t \in Task, Advance(u, t),
         task[u].pc \in Over => t.pc \in Over /\ t.doc = task[u].doc
  PROVE  \A d \in Docs : Ended(d) => Ended(d)'
  BY TaskSet DEF Ended, Over

\* A document that is being ingested has not had a row.
LEMMA NotEnded ==
  ASSUME DocInv, NEW u \in Uploads, task[u].pc \in Under
  PROVE  /\ task[u].doc \in Docs
         /\ ~Ended(task[u].doc)
         /\ ~Exists(task[u].doc)
  <1>1. task[u] \in Task /\ task[u].doc # None
    BY DEF DocInv, TypeOK, OwnIds, Under
  <1>2. \A v \in Uploads : task[v].doc = task[u].doc => v = u
    BY <1>1 DEF DocInv, OwnIds
  <1>3. QED
    BY <1>1, <1>2 DEF DocInv, Handled, OwnIds, Ended, Under, Task

\* The invariant holds initially.
LEMMA DocInit == Init => DocInv
  <1> SUFFICES ASSUME Init PROVE DocInv
    OBVIOUS
  <1>1. NoTask \in Task /\ NoRequest \in Request
    BY DEF NoTask, Task, NoRequest, Request
  <1>2. \A d \in Docs : ~Exists(d)
    BY DEF Init, Exists
  <1>3. TypeOK
    BY <1>1 DEF Init, TypeOK
  <1>4. QED
    BY <1>2, <1>3 DEF Init, DocInv, OwnIds, StoredFirst, Titled, Handled,
                      RowsHaveObjects, VersionFollows, LineageForward, Superseded, NoTask, NoRequest

-----------------------------------------------------------------------------
(***************************************************************************)
(* Steps of a task that leave the rows alone.                              *)
(***************************************************************************)

\* A task goes on from task[u] to t, which keeps its own part of the invariant.
LEMMA TaskStep ==
  ASSUME DocInv, NEW u \in Uploads, NEW t \in Task, Advance(u, t),
         task[u].pc \in Over => t.pc \in Over /\ t.doc = task[u].doc,
         objects \subseteq objects', objects' \subseteq Docs \X Kinds,
         UNCHANGED <<machine, doc, req>>,
         t.pc \in Under => t.doc # None /\ ~Exists(t.doc),
         \A v \in Uploads \ {u} : t.doc # None => task[v].doc # t.doc,
         t.pc \in {"captioned", "stored"} => <<t.doc, "figures">> \in objects',
         t.pc = "stored" => <<t.doc, "pdf">> \in objects',
         t.title # None,
         t.prev # None => Ended(t.prev),
         t.pc = "stored" /\ t.prev # None /\ Exists(t.prev) =>
           t.version = doc[t.prev].version + 1
  PROVE  DocInv'
  <1> USE DEF DocInv
  <1>1. /\ task' \in [Uploads -> Task]
        /\ task'[u] = t
        /\ \A v \in Uploads \ {u} : task'[v] = task[v]
    BY TaskSet
  <1>2. TypeOK'
    BY <1>1 DEF TypeOK
  <1>3. \A d \in Docs : Exists(d)' <=> Exists(d)
    BY DEF Exists
  <1>4. \A d \in Docs : Ended(d) => Ended(d)'
    BY EndedStays
  <1>5. OwnIds'
    <2>1. \A v, w \in Uploads : task'[v].doc # None /\ task'[v].doc = task'[w].doc => v = w
      BY <1>1 DEF OwnIds
    <2>2. \A v \in Uploads : (task[v].pc \in Under => task[v].doc # None /\ ~Exists(task[v].doc))'
      BY <1>1, <1>3 DEF OwnIds, Under, Exists
    <2>3. QED
      BY <2>1, <2>2 DEF OwnIds, Under
  <1>6. StoredFirst'
    BY <1>1 DEF StoredFirst
  <1>7. Handled'
    <2>1. \A d \in Docs : Exists(d)' => Ended(d)'
      BY <1>3, <1>4 DEF Handled
    <2>2. \A v \in Uploads : (task[v].prev # None => Ended(task[v].prev))'
      <3>1. \A v \in Uploads : task'[v].prev # None => Ended(task'[v].prev)
        BY <1>1 DEF Handled
      <3>2. \A v \in Uploads : task'[v].prev # None => task'[v].prev \in Docs
        BY <1>1 DEF TypeOK, Task
      <3>3. \A v \in Uploads : Ended(task'[v].prev) => Ended(task[v].prev)' \/ task'[v].prev \notin Docs
        BY <1>4
      <3>4. QED
        BY <3>1, <3>2, <3>3
    <2>3. QED
      BY <1>3, <2>1, <2>2, <1>4 DEF Handled, TypeOK, Request
  <1>8. RowsHaveObjects'
    BY <1>3 DEF RowsHaveObjects
  <1>9. VersionFollows'
    BY <1>1 DEF VersionFollows, Exists
  <1>10. LineageForward'
    BY DEF LineageForward, Superseded, Exists
  <1>11. Titled'
    BY <1>1 DEF Titled
  <1>12. QED
    BY <1>2, <1>5, <1>6, <1>7, <1>8, <1>9, <1>10, <1>11

\* A document read as the latest one has a row, and its version counts on.
LEMMA LatestFacts ==
  ASSUME DocInv, NEW t, NEW d \in LatestOf(t)
  PROVE  /\ d \in Docs /\ Exists(d) /\ Ended(d)
         /\ NextVersion(d) = doc[d].version + 1
         /\ NextVersion(d) \in Nat
  <1>1. d \in Docs /\ Exists(d)
    BY DEF LatestOf
  <1>2. doc[d].version \in Nat
    BY <1>1, RowFacts DEF DocInv
  <1>3. d # None
    BY <1>1, DocumentsAssumption
  <1>4. QED
    BY <1>1, <1>2, <1>3 DEF DocInv, Handled, NextVersion

LEMMA UploadKeeps ==
  ASSUME DocInv, NEW u \in Uploads, NEW t \in Titles, Upload(u, t)
  PROVE  DocInv'
  <1> DEFINE k == [NoTask EXCEPT !.pc = "queued", !.title = t]
  <1>1. k \in Task /\ k.pc = "queued" /\ k.doc = None /\ k.prev = None /\ k.title # None
    BY DocumentsAssumption DEF Task, NoTask
  <1>2. Advance(u, k) /\ task[u].pc = "none" /\ UNCHANGED <<machine, doc, objects, req>>
    BY DEF Upload
  <1>3. QED
    BY <1>1, <1>2, TaskStep DEF Over, Under, DocInv, TypeOK

LEMMA StartKeeps ==
  ASSUME DocInv, NEW u \in Uploads, NEW d \in Docs, Start(u, d)
  PROVE  DocInv'
  <1> DEFINE k == [task[u] EXCEPT !.pc = "reading", !.doc = d]
  <1>1. task[u] \in Task
    BY DEF DocInv, TypeOK
  <1>2. k \in Task /\ k.pc = "reading" /\ k.doc = d /\ k.prev = task[u].prev /\ k.title = task[u].title
    BY <1>1 DEF Task
  <1>3. /\ Advance(u, k) /\ task[u].pc = "queued" /\ UNCHANGED <<machine, doc, objects, req>>
        /\ \A v \in Uploads : task[v].doc # d
    BY DEF Start
  <1>4. d # None /\ ~Exists(d)
    BY <1>3, DocumentsAssumption DEF DocInv, Handled, Ended
  <1>5. k.title # None /\ (k.prev # None => Ended(k.prev))
    BY <1>2, <1>3 DEF DocInv, Handled, Titled
  <1> HIDE DEF k
  <1>6. QED
    BY <1>2, <1>3, <1>4, <1>5, TaskStep DEF Over, Under, DocInv, TypeOK

LEMMA StoreFiguresKeeps ==
  ASSUME DocInv, NEW u \in Uploads, StoreFigures(u)
  PROVE  DocInv'
  <1> DEFINE k == [task[u] EXCEPT !.pc = "captioned"]
  <1>1. task[u] \in Task
    BY DEF DocInv, TypeOK
  <1>2. /\ k \in Task /\ k.pc = "captioned" /\ k.doc = task[u].doc /\ k.prev = task[u].prev
        /\ k.title = task[u].title
    BY <1>1 DEF Task
  <1>3. /\ Advance(u, k) /\ task[u].pc = "reading" /\ UNCHANGED <<machine, doc, req>>
        /\ objects' = objects \cup {<<task[u].doc, "figures">>}
    BY DEF StoreFigures
  <1>4. task[u].doc \in Docs /\ ~Exists(task[u].doc)
    BY <1>3, NotEnded DEF Under
  <1>5. objects' \subseteq Docs \X Kinds
    BY <1>3, <1>4 DEF DocInv, TypeOK, Kinds
  <1>6. k.title # None /\ (k.prev # None => Ended(k.prev))
    BY <1>2, <1>3 DEF DocInv, Handled, Titled
  <1>7. k.doc # None /\ \A v \in Uploads \ {u} : task[v].doc # k.doc
    BY <1>2, <1>4, DocumentsAssumption DEF DocInv, OwnIds
  <1> HIDE DEF k
  <1>8. QED
    BY <1>2, <1>3, <1>4, <1>5, <1>6, <1>7, TaskStep DEF Over, Under

LEMMA ReadLatestKeeps ==
  ASSUME DocInv, NEW u \in Uploads, ReadLatest(u)
  PROVE  DocInv'
  <1>1. task[u] \in Task
    BY DEF DocInv, TypeOK
  <1>2. PICK prev \in (IF LatestOf(task[u].title) = {} THEN {None} ELSE LatestOf(task[u].title)) :
          Advance(u, [task[u] EXCEPT !.pc = "stored", !.prev = prev, !.version = NextVersion(prev)])
    BY DEF ReadLatest
  <1> DEFINE k == [task[u] EXCEPT !.pc = "stored", !.prev = prev, !.version = NextVersion(prev)]
  <1>3. /\ prev \in Docs \cup {None}
        /\ NextVersion(prev) \in Nat
        /\ prev # None => Ended(prev) /\ NextVersion(prev) = doc[prev].version + 1
    <2>1. CASE prev = None
      BY <2>1 DEF NextVersion
    <2>2. CASE prev # None
      BY <1>2, <2>2, LatestFacts
    <2>3. QED
      BY <2>1, <2>2
  <1>4. /\ k \in Task /\ k.pc = "stored" /\ k.doc = task[u].doc
        /\ k.prev = prev /\ k.version = NextVersion(prev) /\ k.title = task[u].title
    BY <1>1, <1>3 DEF Task
  <1>5. /\ task[u].pc = "captioned" /\ UNCHANGED <<machine, doc, req>>
        /\ objects' = objects \cup {<<task[u].doc, "pdf">>}
    BY DEF ReadLatest
  <1>6. task[u].doc \in Docs /\ ~Exists(task[u].doc)
    BY <1>5, NotEnded DEF Under
  <1>7. objects' \subseteq Docs \X Kinds
    BY <1>5, <1>6 DEF DocInv, TypeOK, Kinds
  <1>8. /\ k.doc # None /\ k.title # None
        /\ \A v \in Uploads \ {u} : task[v].doc # k.doc
    BY <1>4, <1>5, <1>6, DocumentsAssumption DEF DocInv, OwnIds, Titled
  <1>9. <<k.doc, "figures">> \in objects' /\ <<k.doc, "pdf">> \in objects'
    <2>1. <<task[u].doc, "figures">> \in objects
      BY <1>5 DEF DocInv, StoredFirst
    <2>2. QED
      BY <1>4, <1>5, <2>1
  <1>10. Advance(u, k)
    BY <1>2
  <1> HIDE DEF k
  <1>11. QED
    BY <1>3, <1>4, <1>5, <1>6, <1>7, <1>8, <1>9, <1>10, TaskStep DEF Over, Under

\* A running task ends: it succeeds, fails or is lost.
LEMMA EndKeeps ==
  ASSUME DocInv, NEW u \in Uploads, Succeed(u) \/ Fail(u) \/ Die(u)
  PROVE  DocInv'
  <1>1. PICK pc \in {"success", "failure", "dead"} : Advance(u, [task[u] EXCEPT !.pc = pc])
    BY DEF Succeed, Fail, Die
  <1> DEFINE k == [task[u] EXCEPT !.pc = pc]
  <1>2. task[u] \in Task
    BY DEF DocInv, TypeOK
  <1>3. /\ k \in Task /\ k.pc = pc /\ k.doc = task[u].doc /\ k.prev = task[u].prev
        /\ k.title = task[u].title
    BY <1>2 DEF Task
  <1>4. task[u].pc # "none" /\ UNCHANGED <<machine, doc, objects, req>>
    BY DEF Succeed, Fail, Die, Running
  <1>5. k.title # None /\ (k.prev # None => Ended(k.prev))
    BY <1>3, <1>4 DEF DocInv, Handled, Titled
  <1>6. \A v \in Uploads \ {u} : k.doc # None => task[v].doc # k.doc
    BY <1>3 DEF DocInv, OwnIds
  <1>7. Advance(u, k)
    BY <1>1
  <1> HIDE DEF k
  <1>8. QED
    BY <1>1, <1>3, <1>4, <1>5, <1>6, <1>7, TaskStep DEF Over, Under, DocInv, TypeOK

-----------------------------------------------------------------------------
(***************************************************************************)
(* The commit of an ingestion.                                             *)
(***************************************************************************)

\* It adds one row and links at most one other to it.
LEMMA IngestWrites ==
  ASSUME DocInv, NEW u \in Uploads, CommitIngest(u)
  PROVE  LET k == task[u] IN
         /\ k.doc \in Docs /\ ~Exists(k.doc) /\ ~Ended(k.doc)
         /\ k.prev \in Docs \cup {None} /\ k.prev # k.doc
         /\ k.prev # None => Exists(k.prev) /\ k.version = doc[k.prev].version + 1
         /\ doc' \in [Docs -> Row \cup {NoRow}]
         /\ doc'[k.doc].title = k.title
         /\ doc'[k.doc].version = k.version /\ doc'[k.doc].next = None
         /\ \A d \in Docs : d # k.doc =>
              /\ doc'[d].title = doc[d].title
              /\ doc'[d].version = doc[d].version
              /\ doc'[d].next = IF d = k.prev THEN k.doc ELSE doc[d].next
         /\ \A d \in Docs : Exists(d)' <=> Exists(d) \/ d = k.doc
  <1> DEFINE k == task[u]
  <1>1. /\ k \in Task /\ k.pc = "stored"
        /\ k.title \in Titles
    BY DEF DocInv, TypeOK, CommitIngest, Titled, Task
  <1>2. k.doc \in Docs /\ ~Exists(k.doc) /\ ~Ended(k.doc)
    BY <1>1, NotEnded DEF Under
  <1>3. /\ k.prev \in Docs \cup {None} /\ k.prev # k.doc
        /\ k.prev # None => Exists(k.prev) /\ k.version = doc[k.prev].version + 1
    BY <1>1, <1>2, DocumentsAssumption DEF CommitIngest, DocInv, VersionFollows, Task
  <1>4. [title |-> k.title, version |-> k.version, next |-> None] \in Row
    BY <1>1 DEF Row, Task
  <1>5. k.prev # None => doc[k.prev] \in Row
    BY <1>3, RowFacts DEF DocInv
  <1>6. k.prev # None => [doc[k.prev] EXCEPT !.next = k.doc] \in Row
    BY <1>2, <1>5 DEF Row
  <1>7. /\ doc'[k.doc] = [title |-> k.title, version |-> k.version, next |-> None]
        /\ k.prev # None => doc'[k.prev] = [doc[k.prev] EXCEPT !.next = k.doc]
        /\ \A d \in Docs : d # k.doc /\ d # k.prev => doc'[d] = doc[d]
    BY <1>2, <1>3 DEF CommitIngest, Ingested
  <1>8. doc' = [d \in Docs |-> doc'[d]]
    BY DEF CommitIngest, Ingested
  <1>9. \A d \in Docs : doc'[d] \in Row \cup {NoRow}
    <2> TAKE d \in Docs
    <2>1. CASE d = k.doc
      BY <1>4, <1>7, <2>1
    <2>2. CASE d = k.prev
      BY <1>6, <1>7, <2>2, DocumentsAssumption
    <2>3. CASE d # k.doc /\ d # k.prev
      BY <1>7, <2>3 DEF DocInv, TypeOK
    <2>4. QED
      BY <2>1, <2>2, <2>3
  <1>10. doc' \in [Docs -> Row \cup {NoRow}]
    BY <1>8, <1>9
  <1>11. NoRow \notin Row
    BY DocumentsAssumption DEF NoRow, Row
  <1>12. \A d \in Docs : Exists(d)' <=> Exists(d) \/ d = k.doc
    <2> TAKE d \in Docs
    <2>1. CASE d = k.doc
      BY <1>4, <1>7, <1>11, <2>1 DEF Exists
    <2>2. CASE d = k.prev
      BY <1>3, <1>6, <1>7, <1>11, <2>2, DocumentsAssumption DEF Exists
    <2>3. CASE d # k.doc /\ d # k.prev
      BY <1>7, <2>3 DEF Exists
    <2>4. QED
      BY <2>1, <2>2, <2>3
  <1>13. \A d \in Docs : d # k.doc =>
           /\ doc'[d].title = doc[d].title
           /\ doc'[d].version = doc[d].version
           /\ doc'[d].next = IF d = k.prev THEN k.doc ELSE doc[d].next
    <2>1. k.prev # None => /\ doc'[k.prev].next = k.doc
                           /\ doc'[k.prev].title = doc[k.prev].title
                           /\ doc'[k.prev].version = doc[k.prev].version
      BY <1>5, <1>7 DEF Row
    <2>2. QED
      BY <1>7, <2>1, DocumentsAssumption
  <1>14. /\ doc'[k.doc].title = k.title
         /\ doc'[k.doc].version = k.version
         /\ doc'[k.doc].next = None
    BY <1>7
  <1>15. QED
    BY <1>2, <1>3, <1>10, <1>12, <1>13, <1>14

LEMMA CommitIngestKeeps ==
  ASSUME DocInv, NEW u \in Uploads, CommitIngest(u)
  PROVE  DocInv'
  <1> DEFINE k == task[u]
             t == [k EXCEPT !.pc = "committed"]
  <1>1. k \in Task /\ k.pc = "stored"
    BY DEF DocInv, TypeOK, CommitIngest
  <1>2. /\ t \in Task /\ t.pc = "committed" /\ t.doc = k.doc /\ t.prev = k.prev
        /\ t.title = k.title /\ t.version = k.version
    BY <1>1 DEF Task
  <1>3. Advance(u, t) /\ UNCHANGED <<machine, objects, req>>
    BY DEF CommitIngest
  <1>4. /\ task' \in [Uploads -> Task] /\ task'[u] = t
        /\ \A v \in Uploads \ {u} : task'[v] = task[v]
    BY <1>2, <1>3, TaskSet DEF DocInv
  <1>5. /\ k.doc \in Docs /\ ~Exists(k.doc) /\ ~Ended(k.doc)
        /\ k.prev \in Docs \cup {None} /\ k.prev # k.doc
        /\ k.prev # None => Exists(k.prev) /\ k.version = doc[k.prev].version + 1
        /\ doc' \in [Docs -> Row \cup {NoRow}]
        /\ doc'[k.doc].version = k.version /\ doc'[k.doc].next = None
        /\ \A d \in Docs : d # k.doc =>
             /\ doc'[d].version = doc[d].version
             /\ doc'[d].next = IF d = k.prev THEN k.doc ELSE doc[d].next
        /\ \A d \in Docs : Exists(d)' <=> Exists(d) \/ d = k.doc
    BY IngestWrites
  <1>6. \A d \in Docs : Ended(d) => Ended(d)'
    BY <1>1, <1>2, <1>3, EndedStays DEF DocInv, Over
  <1>7. \A d \in Docs : d = k.doc => Ended(d)'
    BY <1>2, <1>4 DEF Ended
  <1> HIDE DEF t, k
  <1>8. TypeOK'
    BY <1>3, <1>4, <1>5 DEF DocInv, TypeOK
  <1>9. OwnIds'
    <2>1. \A v, w \in Uploads : task'[v].doc # None /\ task'[v].doc = task'[w].doc => v = w
      BY <1>2, <1>4 DEF DocInv, OwnIds, k
    <2>2. \A v \in Uploads : task'[v].pc \in Under => v # u /\ task[v].pc \in Under
      BY <1>2, <1>4 DEF Under
    <2>3. \A v \in Uploads \ {u} : task[v].pc \in Under => task[v].doc \in Docs /\ ~Exists(task[v].doc)
      BY NotEnded
    <2>4. \A v \in Uploads \ {u} : task[v].doc # k.doc
      BY <1>5, DocumentsAssumption DEF DocInv, OwnIds, k
    <2>5. \A v \in Uploads : task'[v].pc \in Under => task'[v].doc # None /\ doc'[task'[v].doc] = NoRow
      BY <1>4, <1>5, <2>2, <2>3, <2>4, DocumentsAssumption DEF Exists
    <2>6. QED
      BY <2>1, <2>5 DEF OwnIds, Under, Exists
  <1>10. StoredFirst' /\ Titled'
    <2>1. StoredFirst'
      BY <1>2, <1>3, <1>4 DEF DocInv, StoredFirst
    <2>2. Titled'
      BY <1>1, <1>2, <1>4 DEF DocInv, Titled, k
    <2>3. QED
      BY <2>1, <2>2
  <1>11. Handled'
    <2>1. \A d \in Docs : Exists(d)' => Ended(d)'
      <3>1. \A d \in Docs : Exists(d) => Ended(d)
        BY DEF DocInv, Handled
      <3>2. QED
        BY <1>5, <1>6, <1>7, <3>1
    <2>2. \A v \in Uploads : (task[v].prev # None => Ended(task[v].prev))'
      <3>1. \A v \in Uploads : task'[v].prev = task[v].prev /\ task[v].prev \in Docs \cup {None}
        BY <1>2, <1>4 DEF Task, DocInv, TypeOK, k
      <3>2. \A v \in Uploads : task[v].prev # None => Ended(task[v].prev)
        BY DEF DocInv, Handled
      <3>3. \A v \in Uploads : Ended(task'[v].prev) => Ended(task[v].prev)' \/ task'[v].prev \notin Docs
        BY <1>6
      <3>4. QED
        BY <3>1, <3>2, <3>3
    <2>3. \A r \in Requests : req[r].doc # None => req[r].doc \in Docs /\ req[r].doc # k.doc
      BY <1>5 DEF DocInv, TypeOK, Request, Handled
    <2>4. \A r \in Requests : req[r].doc # None => Ended(req[r].doc)
      BY DEF DocInv, Handled
    <2>5. \A r \in Requests : (req[r].doc # None => Ended(req[r].doc))'
      BY <1>3, <1>6, <2>3, <2>4
    <2>6. \A r \in Requests : (req[r].pc = "cleaning" => req[r].doc # None /\ ~Exists(req[r].doc))'
      BY <1>3, <1>5, <2>3 DEF DocInv, Handled
    <2>7. QED
      BY <1>3, <2>1, <2>2, <2>5, <2>6 DEF DocInv, Handled
  <1>12. RowsHaveObjects'
    <2>1. <<k.doc, "figures">> \in objects /\ <<k.doc, "pdf">> \in objects
      BY <1>1 DEF DocInv, StoredFirst, k
    <2>2. {k.doc} \X Kinds \subseteq objects
      BY <2>1 DEF Kinds
    <2>3. QED
      BY <1>3, <1>5, <2>2 DEF DocInv, RowsHaveObjects
  <1>13. \A d \in Docs : Exists(d) => doc'[d].version = doc[d].version
    BY <1>5
  <1>14. VersionFollows'
    <2>1. \A v \in Uploads : task'[v].pc = "stored" => task'[v] = task[v] /\ task[v].pc = "stored"
      BY <1>2, <1>4
    <2>2. \A v \in Uploads : task[v].prev # None => task[v].prev \in Docs /\ task[v].prev # k.doc
      BY <1>5 DEF DocInv, Handled, TypeOK, Task
    <2>3. \A v \in Uploads :
            task'[v].pc = "stored" /\ task'[v].prev # None /\ doc'[task'[v].prev] # NoRow =>
              task'[v].version = doc'[task'[v].prev].version + 1
      BY <1>5, <1>13, <2>1, <2>2 DEF DocInv, VersionFollows, Exists
    <2>4. QED
      BY <2>3 DEF VersionFollows, Exists
  <1>15. LineageForward'
    <2>1. \A d \in Docs : doc[d].next # k.doc
      BY <1>5, RowFacts, DocumentsAssumption DEF DocInv, LineageForward, Superseded
    <2>2. \A d \in Docs : Superseded(d)' => Exists(d) /\ d # k.doc
                            /\ (d = k.prev => doc'[d].next = k.doc)
                            /\ (d # k.prev => Superseded(d) /\ doc'[d].next = doc[d].next)
      <3>1. \A d \in Docs : Exists(d)' /\ doc'[d].next # None => d # k.doc /\ Exists(d)
        BY <1>5
      <3>2. QED
        BY <1>5, <3>1 DEF Superseded
    <2>3. ASSUME NEW d \in Docs, Superseded(d)'
          PROVE  /\ Exists(doc[d].next)'
                 /\ (doc[doc[d].next].version > doc[d].version)'
                 /\ \A e \in Docs : (Superseded(e) /\ doc[e].next = doc[d].next => e = d)'
      <3>1. CASE d = k.prev
        <4>1. doc'[d].next = k.doc /\ doc'[k.doc].version = k.version
          BY <1>5, <2>2, <2>3, <3>1
        <4>2. doc'[d].version = doc[d].version /\ doc[d].version \in Nat
          BY <1>13, <2>2, <2>3, RowFacts DEF DocInv
        <4>3. k.version > doc[d].version
          BY <1>5, <3>1, <4>2, DocumentsAssumption
        <4>4. doc'[k.doc] # NoRow
          BY <1>5 DEF Exists
        <4>5. \A e \in Docs : (Superseded(e) /\ doc[e].next = doc[d].next => e = d)'
          BY <2>1, <2>2, <3>1, <4>1
        <4>6. QED
          BY <4>1, <4>2, <4>3, <4>4, <4>5 DEF Exists
      <3>2. CASE d # k.prev
        <4>1. /\ Superseded(d) /\ doc'[d].next = doc[d].next
              /\ doc'[d].version = doc[d].version
              /\ doc[d].next \in Docs /\ Exists(doc[d].next)
              /\ doc[doc[d].next].version > doc[d].version
          BY <1>13, <2>2, <2>3, <3>2, RowFacts DEF DocInv, LineageForward
        <4>2. doc'[doc[d].next] # NoRow /\ doc'[doc[d].next].version = doc[doc[d].next].version
          BY <1>5, <1>13, <4>1 DEF Exists
        <4>3. \A e \in Docs : (Superseded(e) /\ doc[e].next = doc[d].next => e = d)'
          BY <2>1, <2>2, <4>1 DEF DocInv, LineageForward
        <4>4. QED
          BY <4>1, <4>2, <4>3 DEF Exists
      <3>3. QED
        BY <3>1, <3>2
    <2>4. QED
      BY <2>3 DEF LineageForward
  <1>16. QED
    BY <1>8, <1>9, <1>10, <1>11, <1>12, <1>14, <1>15 DEF DocInv

-----------------------------------------------------------------------------
(***************************************************************************)
(* Requests.                                                               *)
(***************************************************************************)

\* What a request leaves as it is while rows may go or change their title.
LEMMA RequestStep ==
  ASSUME DocInv, NEW r \in Requests, NEW q \in Request, Proceed(r, q),
         UNCHANGED <<machine, objects, task>>,
         doc' \in [Docs -> Row \cup {NoRow}],
         q.doc # None => Ended(q.doc),
         q.pc = "cleaning" => q.doc # None /\ doc'[q.doc] = NoRow,
         q.pc = "loaded" => q.doc # None /\ (q.op = "rename" => q.title # None),
         \A d \in Docs : Exists(d)' => Exists(d) /\ doc'[d].version = doc[d].version,
         \A d \in Docs : Exists(d)' => doc'[d].next = doc[d].next \/ doc'[d].next = None,
         \A d \in Docs : Exists(d)' /\ doc'[d].next # None => doc'[doc[d].next] # NoRow
  PROVE  DocInv'
  <1>1. /\ req' \in [Requests -> Request]
        /\ req'[r] = q
        /\ \A s \in Requests \ {r} : req'[s] = req[s]
    BY RequestSet DEF DocInv
  <1>2. TypeOK'
    BY <1>1 DEF DocInv, TypeOK
  <1>3. \A d \in Docs : ~Exists(d) => doc'[d] = NoRow
    BY DEF Exists
  <1>4. OwnIds'
    <2>1. \A u \in Uploads : task[u].pc \in Under => task[u].doc \in Docs /\ ~Exists(task[u].doc)
      BY NotEnded
    <2>2. \A u \in Uploads : task'[u].pc \in Under => task'[u].doc # None /\ doc'[task'[u].doc] = NoRow
      BY <1>3, <2>1, DocumentsAssumption
    <2>3. \A u, v \in Uploads : task'[u].doc # None /\ task'[u].doc = task'[v].doc => u = v
      BY DEF DocInv, OwnIds
    <2>4. QED
      BY <2>2, <2>3 DEF OwnIds, Under, Exists
  <1>5. StoredFirst' /\ Titled'
    BY DEF DocInv, StoredFirst, Titled
  <1>6. Handled'
    <2>1. \A d \in Docs \cup {None} : Ended(d) => Ended(d)'
      BY DEF Ended
    <2>2. \A d \in Docs : Exists(d)' => Ended(d)'
      BY <2>1 DEF DocInv, Handled
    <2>3. \A u \in Uploads : (task[u].prev # None => Ended(task[u].prev))'
      BY DEF DocInv, Handled, Ended
    <2>4. \A s \in Requests : req'[s].doc # None => Ended(req'[s].doc)
      BY <1>1 DEF DocInv, Handled
    <2>5. \A s \in Requests : (req[s].doc # None => Ended(req[s].doc))'
      BY <2>4 DEF Ended
    <2>6. \A s \in Requests : req[s].pc = "cleaning" => req[s].doc \in Docs /\ ~Exists(req[s].doc)
      BY DEF DocInv, Handled, TypeOK, Request
    <2>7. \A s \in Requests : req'[s].pc = "cleaning" =>
            req'[s].doc # None /\ doc'[req'[s].doc] = NoRow
      BY <1>1, <1>3, <2>6, DocumentsAssumption
    <2>8. \A s \in Requests : req'[s].pc = "loaded" =>
            req'[s].doc # None /\ (req'[s].op = "rename" => req'[s].title # None)
      BY <1>1 DEF DocInv, Handled
    <2>9. QED
      BY <2>2, <2>3, <2>5, <2>7, <2>8 DEF Handled, Exists
  <1>7. RowsHaveObjects'
    BY DEF DocInv, RowsHaveObjects
  <1>8. VersionFollows'
    <2>1. \A u \in Uploads : task[u].prev # None => task[u].prev \in Docs
      BY DEF DocInv, TypeOK, Task
    <2>2. \A u \in Uploads :
            task'[u].pc = "stored" /\ task'[u].prev # None /\ doc'[task'[u].prev] # NoRow =>
              task'[u].version = doc'[task'[u].prev].version + 1
      BY <2>1 DEF DocInv, VersionFollows, Exists
    <2>3. QED
      BY <2>2 DEF VersionFollows, Exists
  <1>9. LineageForward'
    <2>1. \A d \in Docs : Superseded(d)' =>
            /\ Superseded(d) /\ doc'[d].next = doc[d].next /\ doc[d].next \in Docs
            /\ doc'[d].version = doc[d].version
            /\ doc'[doc[d].next] # NoRow
            /\ doc'[doc[d].next].version = doc[doc[d].next].version
      BY RowFacts DEF DocInv, Superseded, Exists
    <2>2. \A d \in Docs : Superseded(d)' =>
            /\ doc'[doc'[d].next] # NoRow
            /\ doc'[doc'[d].next].version > doc'[d].version
      BY <2>1 DEF DocInv, LineageForward
    <2>3. \A d, e \in Docs : Superseded(d)' /\ Superseded(e)' /\ doc'[e].next = doc'[d].next => e = d
      BY <2>1 DEF DocInv, LineageForward
    <2>4. QED
      BY <2>2, <2>3 DEF LineageForward, Exists
  <1>10. QED
    BY <1>2, <1>4, <1>5, <1>6, <1>7, <1>8, <1>9 DEF DocInv

\* Rows that are deleted leave no reference to them behind.
LEMMA WithoutFacts ==
  ASSUME DocInv, NEW gone \in SUBSET Docs, doc' = Without(gone)
  PROVE  /\ doc' \in [Docs -> Row \cup {NoRow}]
         /\ \A d \in Docs : Exists(d)' <=> Exists(d) /\ d \notin gone
         /\ \A d \in Docs : Exists(d)' =>
              /\ doc'[d].version = doc[d].version
              /\ doc'[d].next = doc[d].next \/ doc'[d].next = None
              /\ doc'[d].next # None => doc[d].next \in Docs /\ doc'[doc[d].next] # NoRow
  <1>1. NoRow \notin Row
    BY DocumentsAssumption DEF NoRow, Row
  <1>2. \A d \in Docs : d \in gone => doc'[d] = NoRow
    BY DEF Without
  <1>3. ASSUME NEW d \in Docs, d \notin gone, Exists(d)
        PROVE  /\ doc'[d] \in Row /\ doc'[d].version = doc[d].version
               /\ doc[d].next \in gone => doc'[d].next = None
               /\ doc[d].next \notin gone => doc'[d].next = doc[d].next
    <2>1. doc[d] \in Row
      BY <1>3, RowFacts DEF DocInv
    <2>2. [doc[d] EXCEPT !.next = None] \in Row
      BY <2>1 DEF Row
    <2>3. CASE doc[d].next \in gone
      <3>1. doc'[d] = [doc[d] EXCEPT !.next = None]
        BY <1>3, <2>3 DEF Without
      <3>2. QED
        BY <2>1, <2>2, <2>3, <3>1 DEF Row
    <2>4. CASE doc[d].next \notin gone
      <3>1. doc'[d] = doc[d]
        BY <1>3, <2>4 DEF Without
      <3>2. QED
        BY <2>1, <2>4, <3>1
    <2>5. QED
      BY <2>3, <2>4
  <1>4. \A d \in Docs : ~Exists(d) => doc'[d] = NoRow
    BY DocumentsAssumption DEF Without, Exists, NoRow
  <1>5. \A d \in Docs : doc'[d] \in Row \cup {NoRow}
    BY <1>2, <1>3, <1>4
  <1>6. doc' \in [Docs -> Row \cup {NoRow}]
    BY <1>5 DEF Without
  <1>7. \A d \in Docs : Exists(d)' <=> Exists(d) /\ d \notin gone
    BY <1>1, <1>2, <1>3, <1>4 DEF Exists
  <1>8. ASSUME NEW d \in Docs, Exists(d)', doc'[d].next # None
        PROVE  doc[d].next \in Docs /\ doc'[doc[d].next] # NoRow
    <2>1. Exists(d) /\ d \notin gone
      BY <1>7, <1>8
    <2>2. doc[d].next \notin gone /\ doc[d].next # None
      BY <1>3, <1>8, <2>1
    <2>3. doc[d].next \in Docs /\ Exists(doc[d].next)
      BY <2>1, <2>2, RowFacts DEF DocInv, LineageForward, Superseded
    <2>4. QED
      BY <1>1, <1>3, <2>2, <2>3
  <1>9. QED
    BY <1>3, <1>6, <1>7, <1>8

LEMMA LoadsKeeps ==
  ASSUME DocInv, NEW r \in Requests, NEW d \in Docs,
         (\E t \in Titles : LoadForRename(r, d, t)) \/ LoadForDelete(r, d)
  PROVE  DocInv'
  <1>1. PICK op \in {"rename", "delete"}, t \in Titles \cup {None} :
          Loads(r, op, d, t) /\ (op = "rename" => t # None)
    BY DocumentsAssumption DEF LoadForRename, LoadForDelete
  <1> DEFINE q == [NoRequest EXCEPT !.pc = "loaded", !.op = op, !.doc = d, !.title = t,
                                    !.seen = doc[d].title]
  <1>2. Exists(d) /\ Proceed(r, q)
    BY <1>1 DEF Loads
  <1>3. doc[d].title \in Titles
    BY <1>2, RowFacts DEF DocInv, Row
  <1>4. q \in Request /\ q.pc = "loaded" /\ q.doc = d /\ q.op = op /\ q.title = t
    BY <1>3 DEF Request, NoRequest
  <1>5. UNCHANGED <<machine, objects, task, doc>>
    BY DEF LoadForRename, LoadForDelete
  <1>6. Ended(d) /\ d # None
    BY <1>2, DocumentsAssumption DEF DocInv, Handled
  <1>7. \A e \in Docs : doc[e].next # None /\ Exists(e) => doc[doc[e].next] # NoRow
    BY DEF DocInv, LineageForward, Superseded, Exists
  <1> HIDE DEF q
  <1>8. QED
    BY <1>1, <1>2, <1>4, <1>5, <1>6, <1>7, RequestStep DEF DocInv, TypeOK, Exists

\* A request that ends keeps what it is about.
LEMMA EndOfType ==
  ASSUME DocInv, NEW r \in Requests
  PROVE  /\ EndOf(r) \in Request
         /\ EndOf(r).pc = "done" /\ EndOf(r).doc = req[r].doc
         /\ req[r].doc # None => Ended(req[r].doc)
  <1>1. req[r] \in Request
    BY DEF DocInv, TypeOK
  <1>2. /\ EndOf(r) \in Request
        /\ EndOf(r).pc = "done" /\ EndOf(r).doc = req[r].doc
    BY <1>1 DEF EndOf, Request
  <1>3. QED
    BY <1>2 DEF DocInv, Handled

LEMMA EndRequestKeeps ==
  ASSUME DocInv, NEW r \in Requests, EndRequest(r)
  PROVE  DocInv'
  <1>1. Proceed(r, EndOf(r)) /\ UNCHANGED <<machine, doc, objects, task>>
    BY DEF EndRequest
  <1>2. \A e \in Docs : doc[e].next # None /\ Exists(e) => doc[doc[e].next] # NoRow
    BY DEF DocInv, LineageForward, Superseded, Exists
  <1>3. QED
    BY <1>1, <1>2, EndOfType, RequestStep DEF DocInv, TypeOK, Exists

LEMMA CommitRenameKeeps ==
  ASSUME DocInv, NEW r \in Requests, CommitRename(r)
  PROVE  DocInv'
  <1> DEFINE q == req[r]
             row == [doc[q.doc] EXCEPT !.title = q.title]
  <1>1. /\ q.doc \in Docs
        /\ q.title \in Titles
        /\ Proceed(r, EndOf(r)) /\ UNCHANGED <<machine, objects, task>>
    BY DEF DocInv, TypeOK, Handled, Request, CommitRename
  <1>2. doc' = doc \/ (Exists(q.doc) /\ doc' = [doc EXCEPT ![q.doc] = row])
    BY DEF CommitRename
  <1>3. NoRow \notin Row
    BY DocumentsAssumption DEF NoRow, Row
  <1>4. Exists(q.doc) => /\ row \in Row /\ row # NoRow
                         /\ row.version = doc[q.doc].version /\ row.next = doc[q.doc].next
    BY <1>1, <1>3, RowFacts DEF DocInv, Row
  <1>5. /\ doc' \in [Docs -> Row \cup {NoRow}]
        /\ \A d \in Docs : doc'[d].version = doc[d].version /\ doc'[d].next = doc[d].next
        /\ \A d \in Docs : doc'[d] # NoRow <=> doc[d] # NoRow
    <2>1. CASE doc' = doc
      BY <2>1 DEF DocInv, TypeOK
    <2>2. CASE Exists(q.doc) /\ doc' = [doc EXCEPT ![q.doc] = row]
      <3> HIDE DEF q, row
      <3>1. QED
        BY <1>1, <1>4, <2>2 DEF DocInv, TypeOK, Exists
    <2>3. QED
      BY <1>2, <2>1, <2>2
  <1>6. \A e \in Docs : doc[e].next # None /\ Exists(e) =>
          doc[e].next \in Docs /\ doc[doc[e].next] # NoRow
    BY RowFacts DEF DocInv, LineageForward, Superseded, Exists
  <1>7. \A e \in Docs : Exists(e)' /\ doc'[e].next # None => doc'[doc[e].next] # NoRow
    BY <1>5, <1>6 DEF Exists
  <1> HIDE DEF q, row
  <1>8. QED
    BY <1>1, <1>5, <1>7, EndOfType, RequestStep DEF Exists

LEMMA CommitDeleteKeeps ==
  ASSUME DocInv, NEW r \in Requests, CommitDelete(r)
  PROVE  DocInv'
  <1> DEFINE k == req[r]
             q == [k EXCEPT !.pc = "cleaning", !.todo = Kinds]
             gone == {k.doc}
  <1>1. k \in Request /\ k.doc \in Docs /\ Ended(k.doc)
    BY DEF DocInv, TypeOK, Handled, CommitDelete, Request
  <1>2. q \in Request /\ q.pc = "cleaning" /\ q.doc = k.doc
    BY <1>1 DEF Request
  <1>3. /\ Proceed(r, q) /\ UNCHANGED <<machine, objects, task>>
        /\ doc' = IF Exists(k.doc) THEN Without(gone) ELSE doc
    BY DEF CommitDelete
  <1>4. /\ doc' \in [Docs -> Row \cup {NoRow}]
        /\ doc'[k.doc] = NoRow
        /\ \A d \in Docs : Exists(d)' =>
             /\ Exists(d) /\ doc'[d].version = doc[d].version
             /\ doc'[d].next = doc[d].next \/ doc'[d].next = None
             /\ doc'[d].next # None => doc'[doc[d].next] # NoRow
    <2>1. CASE Exists(k.doc)
      <3>1. doc' = Without(gone) /\ gone \in SUBSET Docs
        BY <1>1, <1>3, <2>1
      <3>2. doc'[k.doc] = NoRow
        BY <1>1, <3>1 DEF Without
      <3> HIDE DEF gone
      <3>3. QED
        BY <3>1, <3>2, WithoutFacts
    <2>2. CASE ~Exists(k.doc)
      BY <1>1, <1>3, <2>2 DEF DocInv, TypeOK, Exists, LineageForward, Superseded
    <2>3. QED
      BY <2>1, <2>2
  <1>5. k.doc # None
    BY <1>1, DocumentsAssumption
  <1> HIDE DEF k, q, gone
  <1>6. QED
    BY <1>1, <1>2, <1>3, <1>4, <1>5, RequestStep

\* What a deletion removes belongs to a document that has had its row.
LEMMA CleanUpKeeps ==
  ASSUME DocInv, NEW r \in Requests, NEW kind \in Kinds, CleanUp(r, kind)
  PROVE  DocInv'
  <1> DEFINE k == req[r]
  <1>1. k \in Request /\ k.doc \in Docs /\ Ended(k.doc) /\ ~Exists(k.doc) /\ k.pc = "cleaning"
    BY DEF DocInv, TypeOK, Handled, CleanUp, Request
  <1>2. PICK q \in Request : Proceed(r, q) /\ q.pc = "cleaning" /\ q.doc = k.doc
    <2>1. /\ [k EXCEPT !.todo = @ \ {kind}] \in Request
          /\ [k EXCEPT !.todo = @ \ {kind}, !.left = @ \cup {kind}] \in Request
      BY <1>1 DEF Request
    <2>2. /\ [k EXCEPT !.todo = @ \ {kind}].pc = "cleaning"
          /\ [k EXCEPT !.todo = @ \ {kind}].doc = k.doc
          /\ [k EXCEPT !.todo = @ \ {kind}, !.left = @ \cup {kind}].pc = "cleaning"
          /\ [k EXCEPT !.todo = @ \ {kind}, !.left = @ \cup {kind}].doc = k.doc
      BY <1>1 DEF Request
    <2>3. QED
      BY <2>1, <2>2 DEF CleanUp
  <1>3. /\ UNCHANGED <<machine, doc, task>>
        /\ objects' = objects \/ objects' = objects \ {<<k.doc, kind>>}
    BY DEF CleanUp
  <1>4. /\ req' \in [Requests -> Request]
        /\ req'[r] = q
        /\ \A s \in Requests \ {r} : req'[s] = req[s]
    BY <1>2, RequestSet DEF DocInv
  <1>5. TypeOK'
    BY <1>3, <1>4 DEF DocInv, TypeOK
  <1>6. \A d \in Docs : d # k.doc => \A o \in Kinds : <<d, o>> \in objects => <<d, o>> \in objects'
    BY <1>3
  <1>7. StoredFirst'
    <2>1. \A u \in Uploads : task[u].pc \in Under => task[u].doc \in Docs /\ task[u].doc # k.doc
      BY <1>1, NotEnded
    <2>2. QED
      BY <1>3, <1>6, <2>1 DEF DocInv, StoredFirst, Under, Kinds
  <1>8. RowsHaveObjects'
    <2>1. \A d \in Docs, o \in Kinds : Exists(d) => <<d, o>> \in objects'
      BY <1>1, <1>6 DEF DocInv, RowsHaveObjects
    <2>2. QED
      BY <1>3, <2>1 DEF RowsHaveObjects, Exists
  <1>9. Handled'
    <2>1. \A d \in Docs : Exists(d)' => Ended(d)'
      BY <1>3 DEF DocInv, Handled, Exists, Ended
    <2>2. \A u \in Uploads : (task[u].prev # None => Ended(task[u].prev))'
      BY <1>3 DEF DocInv, Handled, Ended
    <2>3. \A s \in Requests : req'[s].doc # None => Ended(req'[s].doc)
      BY <1>1, <1>2, <1>4 DEF DocInv, Handled
    <2>4. \A s \in Requests : (req[s].doc # None => Ended(req[s].doc))'
      BY <1>3, <2>3 DEF Ended
    <2>5. \A s \in Requests : req'[s].pc = "cleaning" => req'[s].doc # None /\ doc'[req'[s].doc] = NoRow
      BY <1>1, <1>2, <1>3, <1>4, DocumentsAssumption DEF DocInv, Handled, Exists
    <2>6. \A s \in Requests : req'[s].pc = "loaded" =>
            req'[s].doc # None /\ (req'[s].op = "rename" => req'[s].title # None)
      BY <1>2, <1>4 DEF DocInv, Handled
    <2>7. QED
      BY <2>1, <2>2, <2>4, <2>5, <2>6 DEF Handled, Exists
  <1>10. OwnIds' /\ Titled' /\ VersionFollows' /\ LineageForward'
    BY <1>3 DEF DocInv, OwnIds, Titled, VersionFollows, LineageForward, Superseded, Exists
  <1>11. QED
    BY <1>5, <1>7, <1>8, <1>9, <1>10 DEF DocInv

LEMMA DeleteMachineKeeps ==
  ASSUME DocInv, DeleteMachine
  PROVE  DocInv'
  <1> DEFINE gone == {d \in Docs : Exists(d)}
  <1>1. /\ doc' = Without(gone) /\ gone \in SUBSET Docs
        /\ machine' = FALSE /\ UNCHANGED <<objects, task, req>>
    BY DEF DeleteMachine
  <1>2. \A d \in Docs : Exists(d) => d \in gone
    OBVIOUS
  <1> HIDE DEF gone
  <1>3. /\ doc' \in [Docs -> Row \cup {NoRow}]
        /\ \A d \in Docs : doc'[d] = NoRow
    BY <1>1, <1>2, WithoutFacts DEF Exists
  <1>4. TypeOK'
    BY <1>1, <1>3 DEF DocInv, TypeOK
  <1>5. OwnIds'
    <2>1. \A u \in Uploads : task[u].pc \in Under => task[u].doc \in Docs
      BY NotEnded
    <2>2. QED
      BY <1>1, <1>3, <2>1, DocumentsAssumption DEF DocInv, OwnIds, Under, Exists
  <1>6. StoredFirst' /\ Titled'
    BY <1>1 DEF DocInv, StoredFirst, Titled
  <1>7. Handled'
    <2>1. \A d \in Docs : ~Exists(d)'
      BY <1>3 DEF Exists
    <2>2. \A u \in Uploads : (task[u].prev # None => Ended(task[u].prev))'
      BY <1>1 DEF DocInv, Handled, Ended
    <2>3. \A s \in Requests : (req[s].doc # None => Ended(req[s].doc))'
      BY <1>1 DEF DocInv, Handled, Ended
    <2>4. \A s \in Requests : req[s].pc = "cleaning" => req[s].doc \in Docs
      BY DEF DocInv, Handled, TypeOK, Request
    <2>5. \A s \in Requests : req'[s].pc = "cleaning" => req'[s].doc # None /\ doc'[req'[s].doc] = NoRow
      BY <1>1, <1>3, <2>4, DocumentsAssumption
    <2>6. QED
      BY <1>1, <2>1, <2>2, <2>3, <2>5 DEF DocInv, Handled, Exists
  <1>8. RowsHaveObjects' /\ LineageForward'
    BY <1>3 DEF RowsHaveObjects, LineageForward, Superseded, Exists
  <1>9. VersionFollows'
    <2>1. \A u \in Uploads : task[u].prev # None => task[u].prev \in Docs
      BY DEF DocInv, TypeOK, Task
    <2>2. QED
      BY <1>1, <1>3, <2>1 DEF VersionFollows, Exists
  <1>10. QED
    BY <1>4, <1>5, <1>6, <1>7, <1>8, <1>9 DEF DocInv

-----------------------------------------------------------------------------
(***************************************************************************)
(* The theorems.                                                           *)
(***************************************************************************)

LEMMA DocStep == DocInv /\ [Next]_vars => DocInv'
  <1> SUFFICES ASSUME DocInv, [Next]_vars PROVE DocInv'
    OBVIOUS
  <1>1. ASSUME NEW u \in Uploads, Ingest(u) PROVE DocInv'
    BY <1>1, UploadKeeps, StartKeeps, StoreFiguresKeeps, ReadLatestKeeps,
       CommitIngestKeeps, EndKeeps DEF Ingest
  <1>2. ASSUME NEW r \in Requests, Serve(r) PROVE DocInv'
    BY <1>2, LoadsKeeps, CommitRenameKeeps, CommitDeleteKeeps, EndRequestKeeps,
       CleanUpKeeps DEF Serve
  <1>3. CASE UNCHANGED vars
    BY <1>3 DEF vars, DocInv, TypeOK, OwnIds, StoredFirst, Titled, Handled, Ended,
                RowsHaveObjects, VersionFollows, LineageForward, Superseded, Exists
  <1>4. QED
    BY <1>1, <1>2, <1>3, DeleteMachineKeeps DEF Next

\* Every reachable state satisfies the inductive invariant.
THEOREM DocumentsInvariant == Spec => []DocInv
  BY DocInit, DocStep, PTL DEF Spec

\* The rows, objects, tasks and requests keep their types.
THEOREM DocumentsTypeCorrect == Spec => []TypeOK
  <1>1. DocInv => TypeOK
    BY DEF DocInv
  <1>2. QED
    BY <1>1, DocumentsInvariant, PTL

\* A document that is listed has its PDF and its figures in the object store,
\* however ingestions, deletions, failures and lost workers interleave.
THEOREM RowsKeepTheirObjects == Spec => []RowsHaveObjects
  <1>1. DocInv => RowsHaveObjects
    BY DEF DocInv
  <1>2. QED
    BY <1>1, DocumentsInvariant, PTL

\* superseded_by leads to a higher version that exists and from one document
\* only, however revisions of a title are ingested, renamed and deleted.
THEOREM LineageIsForward == Spec => []LineageForward
  <1>1. DocInv => LineageForward
    BY DEF DocInv
  <1>2. QED
    BY <1>1, DocumentsInvariant, PTL

-----------------------------------------------------------------------------
(***************************************************************************)
(* Nothing leaks but what a failure leaves.  An object is accounted for by *)
(* its row, by the task that stored it or by the request that is to remove *)
(* it, and each hands it on to the next: the commit to the row, the        *)
(* deletion to its request.  A request takes over nothing when it loads    *)
(* its document, so it must not hold anything before.                      *)
(***************************************************************************)

\* The states of a task that answers for what it stored.
Answering == Under \cup {"failure", "dead"}

ByTask(d) == \E u \in Uploads : task[u].doc = d /\ task[u].pc \in Answering

Holds(q, d, kind) == q.doc = d /\ kind \in q.todo \cup q.left

ByRequest(d, kind) == \E r \in Requests : Holds(req[r], d, kind)

\* A request that has not begun has nothing to remove.
NewHoldsNothing == \A r \in Requests : req[r].pc = "new" => req[r].todo = {} /\ req[r].left = {}

AccountInv == DocInv /\ NewHoldsNothing /\ ObjectsAccounted

\* d's object is stored, and no row answers for it.
Loose(d, kind) == <<d, kind>> \in objects /\ ~Exists(d)

LEMMA AccountedMeans ==
  ObjectsAccounted <=>
    \A d \in Docs, kind \in Kinds : Loose(d, kind) => ~machine \/ ByTask(d) \/ ByRequest(d, kind)
  BY DEF ObjectsAccounted, Loose, ByTask, ByRequest, Holds, Answering, Under

\* A task that goes on without a commit keeps answering for what it stores.
LEMMA TaskAnswers ==
  ASSUME AccountInv, NEW u \in Uploads, NEW t \in Task, Advance(u, t),
         UNCHANGED <<machine, doc, req>>,
         task[u].pc \in Answering => t.pc \in Answering /\ t.doc = task[u].doc,
         \A d \in Docs, kind \in Kinds :
           <<d, kind>> \in objects' => <<d, kind>> \in objects \/ (d = t.doc /\ t.pc \in Answering)
  PROVE  NewHoldsNothing' /\ ObjectsAccounted'
  <1>1. /\ task'[u] = t
        /\ \A v \in Uploads \ {u} : task'[v] = task[v]
    BY TaskSet DEF AccountInv, DocInv
  <1>2. \A d \in Docs : ByTask(d) => ByTask(d)'
    BY <1>1 DEF ByTask
  <1>3. \A d \in Docs : d = t.doc /\ t.pc \in Answering => ByTask(d)'
    BY <1>1 DEF ByTask
  <1>4. \A d \in Docs, kind \in Kinds :
          Loose(d, kind)' => ~machine' \/ ByTask(d)' \/ ByRequest(d, kind)'
    BY <1>2, <1>3, AccountedMeans DEF AccountInv, Loose, Exists, ByRequest
  <1>5. ObjectsAccounted'
    BY <1>4 DEF ObjectsAccounted, Loose, ByTask, ByRequest, Holds, Answering, Under
  <1>6. QED
    BY <1>5 DEF AccountInv, NewHoldsNothing

LEMMA IngestAnswers ==
  ASSUME AccountInv, NEW u \in Uploads, Ingest(u)
  PROVE  NewHoldsNothing' /\ ObjectsAccounted'
  <1>1. task[u] \in Task
    BY DEF AccountInv, DocInv, TypeOK
  <1>2. ASSUME NEW t \in Titles, Upload(u, t)
        PROVE  NewHoldsNothing' /\ ObjectsAccounted'
    <2>1. [NoTask EXCEPT !.pc = "queued", !.title = t] \in Task
      BY DEF NoTask, Task
    <2>2. QED
      BY <1>2, <2>1, TaskAnswers DEF Upload, Answering, Under
  <1>3. ASSUME NEW d \in Docs, Start(u, d)
        PROVE  NewHoldsNothing' /\ ObjectsAccounted'
    <2>1. [task[u] EXCEPT !.pc = "reading", !.doc = d] \in Task
      BY <1>1 DEF Task
    <2>2. QED
      BY <1>3, <2>1, TaskAnswers DEF Start, Answering, Under
  <1>4. CASE StoreFigures(u)
    <2> DEFINE t == [task[u] EXCEPT !.pc = "captioned"]
    <2>1. t \in Task /\ t.pc = "captioned" /\ t.doc = task[u].doc
      BY <1>1 DEF Task
    <2>2. /\ Advance(u, t) /\ UNCHANGED <<machine, doc, req>>
          /\ objects' = objects \cup {<<task[u].doc, "figures">>}
      BY <1>4 DEF StoreFigures
    <2> HIDE DEF t
    <2>3. QED
      BY <2>1, <2>2, TaskAnswers DEF Answering, Under
  <1>5. CASE ReadLatest(u)
    <2>1. PICK prev \in (IF LatestOf(task[u].title) = {} THEN {None} ELSE LatestOf(task[u].title)) :
            Advance(u, [task[u] EXCEPT !.pc = "stored", !.prev = prev, !.version = NextVersion(prev)])
      BY <1>5 DEF ReadLatest
    <2> DEFINE t == [task[u] EXCEPT !.pc = "stored", !.prev = prev, !.version = NextVersion(prev)]
    <2>2. prev \in Docs \cup {None} /\ NextVersion(prev) \in Nat
      BY <2>1, LatestFacts DEF NextVersion, AccountInv
    <2>3. t \in Task /\ t.pc = "stored" /\ t.doc = task[u].doc
      BY <1>1, <2>2 DEF Task
    <2>4. /\ Advance(u, t) /\ UNCHANGED <<machine, doc, req>>
          /\ objects' = objects \cup {<<task[u].doc, "pdf">>}
      BY <1>5, <2>1 DEF ReadLatest
    <2> HIDE DEF t
    <2>5. QED
      BY <2>3, <2>4, TaskAnswers DEF Answering, Under
  <1>6. CASE CommitIngest(u)
    <2> DEFINE k == task[u]
               t == [k EXCEPT !.pc = "committed"]
    <2>1. t \in Task /\ Advance(u, t) /\ UNCHANGED <<machine, objects, req>>
      BY <1>1, <1>6 DEF Task, CommitIngest
    <2>2. \A v \in Uploads \ {u} : task'[v] = task[v]
      BY <2>1, TaskSet DEF AccountInv, DocInv
    <2>3. \A d \in Docs : Exists(d)' <=> Exists(d) \/ d = k.doc
      BY <1>6, IngestWrites DEF AccountInv
    <2>4. \A d \in Docs : d # k.doc /\ ByTask(d) => ByTask(d)'
      BY <2>2 DEF ByTask
    <2>5. \A d \in Docs, kind \in Kinds : Loose(d, kind)' => d # k.doc /\ Loose(d, kind)
      BY <2>1, <2>3 DEF Loose
    <2>6. \A d \in Docs, kind \in Kinds :
            Loose(d, kind)' => ~machine' \/ ByTask(d)' \/ ByRequest(d, kind)'
      BY <2>1, <2>4, <2>5, AccountedMeans DEF AccountInv, ByRequest
    <2>7. ObjectsAccounted'
      BY <2>6 DEF ObjectsAccounted, Loose, ByTask, ByRequest, Holds, Answering, Under
    <2>8. QED
      BY <2>1, <2>7 DEF AccountInv, NewHoldsNothing
  <1>7. CASE Succeed(u) \/ Fail(u) \/ Die(u)
    <2>1. PICK pc \in {"success", "failure", "dead"} :
            /\ Advance(u, [task[u] EXCEPT !.pc = pc])
            /\ pc = "success" => task[u].pc = "committed"
      BY <1>7 DEF Succeed, Fail, Die
    <2> DEFINE t == [task[u] EXCEPT !.pc = pc]
    <2>2. t \in Task /\ t.pc = pc /\ t.doc = task[u].doc
      BY <1>1 DEF Task
    <2>3. Advance(u, t) /\ UNCHANGED <<machine, doc, objects, req>>
      BY <1>7, <2>1 DEF Succeed, Fail, Die
    <2> HIDE DEF t
    <2>4. QED
      BY <2>1, <2>2, <2>3, TaskAnswers DEF Answering, Under
  <1>8. QED
    BY <1>2, <1>3, <1>4, <1>5, <1>6, <1>7 DEF Ingest, AccountInv

\* A request keeps what it holds until it is removed, and takes over the objects
\* of the row it deletes.
LEMMA RequestAnswers ==
  ASSUME AccountInv, NEW r \in Requests, NEW q \in Request, Proceed(r, q),
         UNCHANGED <<machine, task>>,
         q.pc # "new",
         \A d \in Docs, kind \in Kinds : Loose(d, kind)' => Loose(d, kind) \/ Holds(q, d, kind),
         \A d \in Docs, kind \in Kinds :
           Holds(req[r], d, kind) /\ Loose(d, kind)' => Holds(q, d, kind)
  PROVE  NewHoldsNothing' /\ ObjectsAccounted'
  <1>1. /\ req'[r] = q
        /\ \A s \in Requests \ {r} : req'[s] = req[s]
    BY RequestSet DEF AccountInv, DocInv
  <1>2. ASSUME NEW d \in Docs, NEW kind \in Kinds, Loose(d, kind)'
        PROVE  ~machine' \/ ByTask(d)' \/ ByRequest(d, kind)'
    <2>1. Holds(q, d, kind) => ByRequest(d, kind)'
      BY <1>1 DEF ByRequest
    <2>2. CASE Holds(q, d, kind)
      BY <2>1, <2>2
    <2>3. CASE ~Holds(q, d, kind)
      <3>1. Loose(d, kind) /\ ~Holds(req[r], d, kind)
        BY <1>2, <2>3
      <3>2. ByRequest(d, kind) => ByRequest(d, kind)'
        BY <1>1, <3>1 DEF ByRequest
      <3>3. ByTask(d) => ByTask(d)'
        BY DEF ByTask
      <3>4. QED
        BY <3>1, <3>2, <3>3, AccountedMeans DEF AccountInv
    <2>4. QED
      BY <2>2, <2>3
  <1>3. ObjectsAccounted'
    BY <1>2 DEF ObjectsAccounted, Loose, ByTask, ByRequest, Holds, Answering, Under
  <1>4. NewHoldsNothing'
    BY <1>1 DEF AccountInv, NewHoldsNothing
  <1>5. QED
    BY <1>3, <1>4

\* What an ending request was to remove is left.
LEMMA EndOfHolds ==
  ASSUME AccountInv, NEW r \in Requests
  PROVE  /\ EndOf(r) \in Request /\ EndOf(r).pc = "done"
         /\ \A d \in Docs, kind \in Kinds : Holds(req[r], d, kind) => Holds(EndOf(r), d, kind)
  <1>1. req[r] \in Request
    BY DEF AccountInv, DocInv, TypeOK
  <1>2. /\ EndOf(r) \in Request /\ EndOf(r).pc = "done" /\ EndOf(r).doc = req[r].doc
        /\ EndOf(r).left = req[r].left \cup req[r].todo
    BY <1>1 DEF EndOf, Request
  <1>3. QED
    BY <1>2 DEF Holds

LEMMA ServeAnswers ==
  ASSUME AccountInv, NEW r \in Requests, Serve(r)
  PROVE  NewHoldsNothing' /\ ObjectsAccounted'
  <1>1. req[r] \in Request
    BY DEF AccountInv, DocInv, TypeOK
  <1>2. ASSUME NEW d \in Docs,
               LoadForDelete(r, d) \/ \E t \in Titles : LoadForRename(r, d, t)
        PROVE  NewHoldsNothing' /\ ObjectsAccounted'
    <2>1. PICK op \in {"rename", "delete"}, t \in Titles \cup {None} : Loads(r, op, d, t)
      BY <1>2 DEF LoadForDelete, LoadForRename
    <2> DEFINE q == [NoRequest EXCEPT !.pc = "loaded", !.op = op, !.doc = d, !.title = t,
                                      !.seen = doc[d].title]
    <2>2. doc[d].title \in Titles
      BY <2>1, RowFacts DEF Loads, AccountInv, DocInv, Row
    <2>3. q \in Request /\ q.pc = "loaded"
      BY <2>2 DEF Request, NoRequest
    <2>4. Proceed(r, q) /\ req[r].pc = "new" /\ UNCHANGED <<machine, doc, objects, task>>
      BY <1>2, <2>1 DEF Loads, LoadForDelete, LoadForRename
    <2>5. \A e \in Docs, kind \in Kinds : ~Holds(req[r], e, kind)
      BY <2>4 DEF AccountInv, NewHoldsNothing, Holds
    <2> HIDE DEF q
    <2>6. QED
      BY <2>3, <2>4, <2>5, RequestAnswers DEF Loose, Exists
  <1>3. CASE CommitRename(r)
    <2>1. /\ Proceed(r, EndOf(r)) /\ UNCHANGED <<machine, objects, task>>
          /\ \A d \in Docs : ~Exists(d)' => ~Exists(d)
      <3> DEFINE q == req[r]
                 row == [doc[q.doc] EXCEPT !.title = q.title]
      <3>1. q.doc \in Docs /\ q.title \in Titles
        BY <1>3 DEF AccountInv, DocInv, TypeOK, Handled, Request, CommitRename
      <3>2. Exists(q.doc) => row \in Row /\ NoRow \notin Row
        BY <3>1, RowFacts, DocumentsAssumption DEF AccountInv, DocInv, Row, NoRow
      <3>3. doc' = doc \/ (Exists(q.doc) /\ doc' = [doc EXCEPT ![q.doc] = row])
        BY <1>3 DEF CommitRename
      <3> HIDE DEF q, row
      <3>4. \A d \in Docs : ~Exists(d)' => ~Exists(d)
        BY <3>1, <3>2, <3>3 DEF Exists, AccountInv, DocInv, TypeOK
      <3>5. QED
        BY <1>3, <3>4 DEF CommitRename
    <2>2. QED
      BY <2>1, EndOfHolds, RequestAnswers DEF Loose
  <1>4. CASE CommitDelete(r)
    <2> DEFINE k == req[r]
               q == [k EXCEPT !.pc = "cleaning", !.todo = Kinds]
               gone == {k.doc}
    <2>1. /\ q \in Request /\ q.pc = "cleaning" /\ q.doc = k.doc /\ q.todo = Kinds
          /\ q.left = k.left
      BY <1>1 DEF Request
    <2>2. k.doc \in Docs
      BY <1>4 DEF AccountInv, DocInv, TypeOK, Handled, Request, CommitDelete
    <2>3. /\ Proceed(r, q) /\ UNCHANGED <<machine, objects, task>>
          /\ doc' = IF Exists(k.doc) THEN Without(gone) ELSE doc
      BY <1>4 DEF CommitDelete
    <2>4. gone \in SUBSET Docs
      BY <2>2
    <2>5. \A d \in Docs : ~Exists(d)' => ~Exists(d) \/ d = k.doc
      BY <2>3, <2>4, WithoutFacts DEF AccountInv, Exists
    <2>6. \A d \in Docs, kind \in Kinds : d = k.doc => Holds(q, d, kind)
      BY <2>1 DEF Holds
    <2>7. \A d \in Docs, kind \in Kinds : Holds(k, d, kind) => d = k.doc
      BY DEF Holds
    <2> HIDE DEF q
    <2>8. QED
      BY <2>1, <2>3, <2>5, <2>6, <2>7, RequestAnswers DEF Loose
  <1>5. CASE EndRequest(r)
    BY <1>5, EndOfHolds, RequestAnswers DEF EndRequest, Loose, Exists
  <1>6. ASSUME NEW kind \in Kinds, CleanUp(r, kind)
        PROVE  NewHoldsNothing' /\ ObjectsAccounted'
    <2> DEFINE k == req[r]
               gone == [k EXCEPT !.todo = @ \ {kind}]
               kept == [k EXCEPT !.todo = @ \ {kind}, !.left = @ \cup {kind}]
    <2>1. /\ gone \in Request /\ gone.pc = k.pc /\ gone.doc = k.doc
          /\ gone.todo = k.todo \ {kind} /\ gone.left = k.left
      BY <1>1 DEF Request
    <2>2. /\ kept \in Request /\ kept.pc = k.pc /\ kept.doc = k.doc
          /\ kept.todo = k.todo \ {kind} /\ kept.left = k.left \cup {kind}
      BY <1>1 DEF Request
    <2>3. k.pc = "cleaning" /\ UNCHANGED <<machine, doc, task>>
      BY <1>6 DEF CleanUp
    <2>4. \/ objects' = objects \ {<<k.doc, kind>>} /\ Proceed(r, gone)
          \/ objects' = objects /\ Proceed(r, kept)
      BY <1>6 DEF CleanUp
    <2> HIDE DEF gone, kept
    <2>5. CASE objects' = objects \ {<<k.doc, kind>>} /\ Proceed(r, gone)
      <3>1. \A d \in Docs, o \in Kinds : Loose(d, o)' => Loose(d, o) /\ ~(d = k.doc /\ o = kind)
        BY <2>3, <2>5 DEF Loose, Exists
      <3>2. \A d \in Docs, o \in Kinds :
              Holds(k, d, o) /\ ~(d = k.doc /\ o = kind) => Holds(gone, d, o)
        BY <2>1 DEF Holds
      <3>3. QED
        BY <2>1, <2>3, <2>5, <3>1, <3>2, RequestAnswers
    <2>6. CASE objects' = objects /\ Proceed(r, kept)
      <3>1. \A d \in Docs, o \in Kinds : Holds(k, d, o) => Holds(kept, d, o)
        BY <2>2 DEF Holds
      <3>2. QED
        BY <2>2, <2>3, <2>6, <3>1, RequestAnswers DEF Loose, Exists
    <2>7. QED
      BY <2>4, <2>5, <2>6
  <1>7. QED
    BY <1>2, <1>3, <1>4, <1>5, <1>6 DEF Serve

LEMMA AccountInit == Init => AccountInv
  BY DocInit DEF Init, AccountInv, NewHoldsNothing, ObjectsAccounted, NoRequest

LEMMA AccountStep == AccountInv /\ [Next]_vars => AccountInv'
  <1> SUFFICES ASSUME AccountInv, [Next]_vars PROVE AccountInv'
    OBVIOUS
  <1>1. DocInv'
    BY DocStep DEF AccountInv
  <1>2. CASE DeleteMachine
    BY <1>1, <1>2 DEF DeleteMachine, AccountInv, NewHoldsNothing, ObjectsAccounted
  <1>3. CASE UNCHANGED vars
    BY <1>1, <1>3 DEF vars, AccountInv, NewHoldsNothing, ObjectsAccounted, Exists
  <1>4. QED
    BY <1>1, <1>2, <1>3, IngestAnswers, ServeAnswers DEF Next, AccountInv

\* Nothing leaks from the object store: an object without a row belongs to an
\* ingestion or a deletion that works on it or has failed on it, or its machine
\* is gone, whatever overlaps, fails or dies.
THEOREM NothingElseLeaks == Spec => []ObjectsAccounted
  <1>1. AccountInv => ObjectsAccounted
    BY DEF AccountInv
  <1>2. QED
    BY <1>1, AccountInit, AccountStep, PTL DEF Spec

-----------------------------------------------------------------------------
(***************************************************************************)
(* One live revision.  Of a title that has not been mixed up the revisions *)
(* form one chain without a gap (Stepwise, NoGap, Distinct), and its end,  *)
(* the revision with the highest version, is the live one (SomeLive,       *)
(* OneLive).  A commit puts a revision at the end, a deletion takes the    *)
(* end or the beginning away, and whatever else happens to a row is        *)
(* recorded as a mix-up of its title.                                      *)
(***************************************************************************)

\* d is a revision of a title that has not been mixed up.
Tidy(d) == Exists(d) /\ doc[d].title \notin mixed

Stepwise ==
  \A d \in Docs : Tidy(d) /\ doc[d].next # None =>
    /\ doc[doc[d].next].title = doc[d].title
    /\ doc[doc[d].next].version = doc[d].version + 1

\* Only the first revision that is left has none before it.
NoGap ==
  \A d, e \in Docs :
    Tidy(d) /\ Tidy(e) /\ doc[d].title = doc[e].title /\ doc[e].version < doc[d].version =>
      \E p \in Docs : Tidy(p) /\ doc[p].next = d /\ doc[p].title = doc[d].title

Distinct ==
  \A d, e \in Docs :
    Tidy(d) /\ Tidy(e) /\ doc[d].title = doc[e].title /\ doc[e].version = doc[d].version => d = e

SomeLive ==
  \A d \in Docs : Tidy(d) => \E e \in Docs : Live(e) /\ doc[e].title = doc[d].title

FirstIsOne ==
  \A u \in Uploads : task[u].pc = "stored" /\ task[u].prev = None => task[u].version = 1

Chained == Stepwise /\ NoGap /\ Distinct /\ SomeLive /\ OneLive

\* Versions are counted from one.
Counted == \A d \in Docs : Exists(d) => doc[d].version >= 1

HistoryInv == DocInv /\ FirstIsOne /\ Counted /\ Chained

\* The latest revision of a tidy title is the live one.
LEMMA LatestIsLive ==
  ASSUME HistoryInv, NEW t, t \notin mixed, NEW d \in LatestOf(t)
  PROVE  /\ d \in Docs /\ Live(d) /\ Tidy(d) /\ doc[d].title = t
         /\ \A e \in Docs : Exists(e) /\ doc[e].title = t /\ e # d =>
              Superseded(e) /\ doc[e].version < doc[d].version
  <1>1. /\ d \in Docs /\ Exists(d) /\ doc[d].title = t
        /\ \A e \in Docs : Exists(e) /\ doc[e].title = t => doc[e].version <= doc[d].version
    BY DEF LatestOf
  <1>2. Tidy(d)
    BY <1>1 DEF Tidy
  <1>3. PICK l \in Docs : Live(l) /\ doc[l].title = t
    BY <1>1, <1>2 DEF HistoryInv, Chained, SomeLive
  <1>4. Exists(l) /\ doc[l].version <= doc[d].version
    BY <1>1, <1>3 DEF Live
  <1>5. doc[l].version \in Nat /\ doc[d].version \in Nat
    BY <1>1, RowFacts DEF HistoryInv, DocInv
  <1>6. d # l => doc[d].version < doc[l].version
    BY <1>1, <1>3 DEF HistoryInv, Chained, OneLive
  <1>7. d = l
    BY <1>4, <1>5, <1>6
  <1>8. QED
    BY <1>1, <1>2, <1>3, <1>7 DEF HistoryInv, Chained, OneLive

\* A tidy title without a latest revision has none.
LEMMA NoLatest ==
  ASSUME HistoryInv, NEW t, t \notin mixed, LatestOf(t) = {}
  PROVE  \A e \in Docs : Exists(e) => doc[e].title # t
  <1>1. SUFFICES ASSUME NEW e \in Docs, Exists(e), doc[e].title = t PROVE FALSE
    OBVIOUS
  <1>2. PICK l \in Docs : Live(l) /\ doc[l].title = t
    BY <1>1 DEF HistoryInv, Chained, SomeLive, Tidy
  <1>3. \A f \in Docs : Exists(f) /\ doc[f].title = t => doc[f].version <= doc[l].version
    <2> TAKE f \in Docs
    <2>1. doc[f].version \in Nat /\ doc[l].version \in Nat
      BY RowFacts DEF HistoryInv, DocInv
    <2>2. QED
      BY <1>2, <2>1 DEF HistoryInv, Chained, OneLive
  <1>4. l \in LatestOf(t)
    BY <1>2, <1>3 DEF LatestOf, Live
  <1>5. QED
    BY <1>4

\* A step that leaves the rows of the titles alone that stay tidy.
LEMMA ChainedFrame ==
  ASSUME HistoryInv, DocInv', mixed \subseteq mixed',
         \A d \in Docs : Tidy(d)' => doc'[d] = doc[d],
         \A d \in Docs : Tidy(d) /\ doc[d].title \notin mixed' => doc'[d] = doc[d]
  PROVE  Chained'
  <1>1. \A d \in Docs : Tidy(d)' => Tidy(d) /\ doc'[d] = doc[d] /\ doc[d].title \notin mixed'
    BY DEF Tidy, Exists
  <1>2. \A d \in Docs : Tidy(d) /\ doc[d].title \notin mixed' => Tidy(d)' /\ doc'[d] = doc[d]
    BY DEF Tidy, Exists
  <1>3. Stepwise'
    <2>1. ASSUME NEW d \in Docs, Tidy(d)', doc'[d].next # None
          PROVE  /\ doc'[doc'[d].next].title = doc'[d].title
                 /\ doc'[doc'[d].next].version = doc'[d].version + 1
      <3>1. Tidy(d) /\ doc'[d] = doc[d] /\ doc[d].title \notin mixed' /\ doc[d].next # None
        BY <1>1, <2>1
      <3>2. /\ doc[doc[d].next].title = doc[d].title
            /\ doc[doc[d].next].version = doc[d].version + 1
        BY <3>1 DEF HistoryInv, Chained, Stepwise
      <3>3. doc[d].next \in Docs /\ Exists(doc[d].next)
        BY <3>1, RowFacts DEF HistoryInv, DocInv, LineageForward, Superseded, Tidy
      <3>4. doc'[doc[d].next] = doc[doc[d].next]
        BY <1>2, <3>1, <3>2, <3>3 DEF Tidy
      <3>5. QED
        BY <3>1, <3>2, <3>4
    <2>2. QED
      BY <2>1 DEF Stepwise
  <1>4. NoGap'
    <2>1. ASSUME NEW d \in Docs, NEW e \in Docs, Tidy(d)', Tidy(e)',
                 doc'[d].title = doc'[e].title, doc'[e].version < doc'[d].version
          PROVE  \E p \in Docs : Tidy(p)' /\ doc'[p].next = d /\ doc'[p].title = doc'[d].title
      <3>1. PICK p \in Docs : Tidy(p) /\ doc[p].next = d /\ doc[p].title = doc[d].title
        BY <1>1, <2>1 DEF HistoryInv, Chained, NoGap
      <3>2. QED
        BY <1>1, <1>2, <2>1, <3>1
    <2>2. QED
      BY <2>1 DEF NoGap
  <1>5. Distinct'
    BY <1>1 DEF HistoryInv, Chained, Distinct
  <1>6. SomeLive'
    <2>1. ASSUME NEW d \in Docs, Tidy(d)'
          PROVE  \E e \in Docs : Live(e)' /\ doc'[e].title = doc'[d].title
      <3>1. PICK e \in Docs : Live(e) /\ doc[e].title = doc[d].title
        BY <1>1, <2>1 DEF HistoryInv, Chained, SomeLive
      <3>2. doc'[e] = doc[e] /\ doc'[d] = doc[d]
        BY <1>1, <1>2, <2>1, <3>1 DEF Live, Tidy
      <3>3. QED
        BY <3>1, <3>2 DEF Live, Exists
    <2>2. QED
      BY <2>1 DEF SomeLive
  <1>7. OneLive'
    <2>1. ASSUME NEW d \in Docs, NEW e \in Docs, Live(d)', Exists(e)',
                 doc'[e].title = doc'[d].title, e # d, doc'[d].title \notin mixed'
          PROVE  Superseded(e)' /\ doc'[e].version < doc'[d].version
      <3>1. doc'[e] = doc[e] /\ doc'[d] = doc[d]
        BY <2>1 DEF Live, Tidy
      <3>2. Superseded(e) /\ doc[e].version < doc[d].version
        BY <1>1, <2>1, <3>1 DEF HistoryInv, Chained, OneLive, Live, Exists, Tidy
      <3>3. QED
        BY <3>1, <3>2 DEF Superseded, Exists
    <2>2. QED
      BY <2>1 DEF OneLive
  <1>8. QED
    BY <1>3, <1>4, <1>5, <1>6, <1>7 DEF Chained

\* A revision that is committed on what its task has read is the end of the chain.
LEMMA CommitChained ==
  ASSUME HistoryInv, DocInv', UNCHANGED mixed, NEW u \in Uploads, CommitIngest(u),
         ~Outdated(u), task[u].title \notin mixed
  PROVE  Chained'
  <1> DEFINE k == task[u]
  <1>1. /\ k.doc \in Docs /\ ~Exists(k.doc)
        /\ k.prev \in Docs \cup {None} /\ k.prev # k.doc
        /\ k.prev # None => Exists(k.prev) /\ k.version = doc[k.prev].version + 1
        /\ doc'[k.doc].version = k.version /\ doc'[k.doc].next = None
        /\ \A d \in Docs : d # k.doc =>
             /\ doc'[d].version = doc[d].version
             /\ doc'[d].next = IF d = k.prev THEN k.doc ELSE doc[d].next
        /\ \A d \in Docs : Exists(d)' <=> Exists(d) \/ d = k.doc
    BY IngestWrites DEF HistoryInv
  <1>2. /\ doc'[k.doc].title = k.title
        /\ \A d \in Docs : d # k.doc => doc'[d].title = doc[d].title
    BY IngestWrites DEF HistoryInv
  <1>3. LatestOf(k.title) = (IF k.prev = None THEN {} ELSE {k.prev})
    BY DEF Outdated
  <1>4. k.prev = None => \A e \in Docs : Exists(e) => doc[e].title # k.title
    BY <1>3, NoLatest
  <1>5. k.prev # None =>
          /\ k.prev \in Docs /\ Live(k.prev) /\ Tidy(k.prev) /\ doc[k.prev].title = k.title
          /\ \A e \in Docs : Exists(e) /\ doc[e].title = k.title /\ e # k.prev =>
               Superseded(e) /\ doc[e].version < doc[k.prev].version
    <2>1. k.prev # None => k.prev \in LatestOf(k.title)
      BY <1>3
    <2>2. QED
      BY <2>1, LatestIsLive
  <1>6. \A d \in Docs : doc[d].version \in Nat
    BY RowFacts DEF HistoryInv, DocInv
  <1>7. k.title \notin mixed /\ k.version \in Nat
    BY DEF HistoryInv, DocInv, TypeOK, Task
  <1> HIDE DEF k
  <1>8. \A d \in Docs : Tidy(d)' <=> Tidy(d) \/ d = k.doc
    BY <1>1, <1>2, <1>7 DEF Tidy
  <1>9. \A d \in Docs : Exists(d) /\ doc[d].next # None => doc[d].next # k.doc
    BY <1>1, RowFacts DEF HistoryInv, DocInv, LineageForward, Superseded
  <1>10. \A d \in Docs : Live(d)' <=> d = k.doc \/ (Live(d) /\ d # k.prev)
    BY <1>1, DocumentsAssumption DEF Live
  <1>11. ASSUME NEW e \in Docs, Exists(e), doc[e].title = k.title
         PROVE  /\ k.prev # None /\ k.prev \in Docs
                /\ doc[e].version < k.version
    BY <1>1, <1>4, <1>5, <1>6, <1>11
  <1>12. Stepwise'
    <2>1. ASSUME NEW d \in Docs, Tidy(d)', doc'[d].next # None
          PROVE  /\ doc'[doc'[d].next].title = doc'[d].title
                 /\ doc'[doc'[d].next].version = doc'[d].version + 1
      <3>1. d # k.doc /\ Tidy(d)
        BY <1>1, <1>8, <2>1
      <3>2. CASE d = k.prev
        BY <1>1, <1>2, <1>5, <3>1, <3>2, DocumentsAssumption
      <3>3. CASE d # k.prev
        <4>1. doc'[d].next = doc[d].next /\ doc[d].next \in Docs /\ doc[d].next # k.doc
          BY <1>1, <1>9, <2>1, <3>1, <3>3, RowFacts DEF HistoryInv, DocInv, Superseded, Tidy
        <4>2. QED
          BY <1>1, <1>2, <2>1, <3>1, <4>1 DEF HistoryInv, Chained, Stepwise
      <3>4. QED
        BY <3>2, <3>3
    <2>2. QED
      BY <2>1 DEF Stepwise
  <1>13. NoGap'
    <2>1. ASSUME NEW d \in Docs, NEW e \in Docs, Tidy(d)', Tidy(e)',
                 doc'[d].title = doc'[e].title, doc'[e].version < doc'[d].version
          PROVE  \E p \in Docs : Tidy(p)' /\ doc'[p].next = d /\ doc'[p].title = doc'[d].title
      <3>1. CASE d = k.doc
        <4>1. e # k.doc
          BY <1>1, <1>7, <2>1, <3>1
        <4>2. Exists(e) /\ doc[e].title = k.title
          BY <1>2, <1>8, <2>1, <3>1, <4>1 DEF Tidy
        <4>3. k.prev # None /\ k.prev \in Docs
          BY <1>11, <4>2
        <4>4. PICK p \in Docs : p = k.prev
          BY <4>3
        <4>5. /\ p # k.doc /\ Tidy(p) /\ doc[p].title = k.title
              /\ doc'[p].next = k.doc
          BY <1>1, <1>5, <4>3, <4>4
        <4>6. doc'[p].title = k.title /\ doc'[d].title = k.title
          BY <1>2, <3>1, <4>5
        <4>7. Tidy(p)'
          BY <1>8, <4>5
        <4>8. QED
          BY <3>1, <4>5, <4>6, <4>7
      <3>2. CASE d # k.doc
        <4>1. e # k.doc
          <5>1. SUFFICES ASSUME e = k.doc PROVE FALSE
            OBVIOUS
          <5>2. Exists(d) /\ doc[d].title = k.title
            BY <1>2, <1>8, <2>1, <3>2, <5>1 DEF Tidy
          <5>3. doc[d].version < k.version /\ k.version \in Nat
            BY <1>1, <1>6, <1>11, <5>2
          <5>4. k.version < doc[d].version
            BY <1>1, <2>1, <3>2, <5>1
          <5>5. QED
            BY <1>6, <5>3, <5>4
        <4>2. PICK p \in Docs : Tidy(p) /\ doc[p].next = d /\ doc[p].title = doc[d].title
          BY <1>1, <1>2, <1>8, <2>1, <3>2, <4>1 DEF HistoryInv, Chained, NoGap
        <4>3. p # k.doc /\ p # k.prev
          BY <1>1, <1>5, <4>2, DocumentsAssumption DEF Tidy, Live
        <4>4. QED
          BY <1>1, <1>2, <1>8, <3>2, <4>2, <4>3
      <3>3. QED
        BY <3>1, <3>2
    <2>2. QED
      BY <2>1 DEF NoGap
  <1>14. Distinct'
    <2>1. ASSUME NEW d \in Docs, NEW e \in Docs, Tidy(d)', Tidy(e)', d # e,
                 doc'[d].title = doc'[e].title, doc'[e].version = doc'[d].version
          PROVE  FALSE
      <3>1. ASSUME NEW f \in Docs, f # k.doc, Tidy(f)', doc'[f].title = k.title
            PROVE  doc'[f].version # k.version
        <4>1. Exists(f) /\ doc[f].title = k.title /\ doc'[f].version = doc[f].version
          BY <1>1, <1>2, <1>8, <3>1 DEF Tidy
        <4>2. doc[f].version < k.version /\ k.version \in Nat /\ doc[f].version \in Nat
          BY <1>1, <1>6, <1>11, <4>1
        <4>3. QED
          BY <4>1, <4>2
      <3>2. d # k.doc /\ e # k.doc
        BY <1>1, <1>2, <2>1, <3>1
      <3>3. QED
        BY <1>1, <1>2, <1>8, <2>1, <3>2 DEF HistoryInv, Chained, Distinct
    <2>2. QED
      BY <2>1 DEF Distinct
  <1>15. SomeLive'
    <2>1. ASSUME NEW d \in Docs, Tidy(d)'
          PROVE  \E e \in Docs : Live(e)' /\ doc'[e].title = doc'[d].title
      <3>1. CASE doc'[d].title = k.title
        BY <1>1, <1>2, <1>10, <3>1
      <3>2. CASE doc'[d].title # k.title
        <4>1. d # k.doc /\ Tidy(d) /\ doc'[d].title = doc[d].title
          BY <1>1, <1>2, <1>8, <2>1, <3>2
        <4>2. PICK e \in Docs : Live(e) /\ doc[e].title = doc[d].title
          BY <4>1 DEF HistoryInv, Chained, SomeLive
        <4>3. e # k.prev /\ e # k.doc
          BY <1>1, <1>5, <3>2, <4>1, <4>2, DocumentsAssumption DEF Live
        <4>4. QED
          BY <1>2, <1>10, <4>1, <4>2, <4>3
      <3>3. QED
        BY <3>1, <3>2
    <2>2. QED
      BY <2>1 DEF SomeLive
  <1>16. OneLive'
    <2>1. ASSUME NEW d \in Docs, NEW e \in Docs, Live(d)', Exists(e)',
                 doc'[e].title = doc'[d].title, e # d, doc'[d].title \notin mixed'
          PROVE  Superseded(e)' /\ doc'[e].version < doc'[d].version
      <3>1. CASE d = k.doc
        <4>1. Exists(e) /\ doc[e].title = k.title /\ doc'[e].version = doc[e].version
          BY <1>1, <1>2, <2>1, <3>1
        <4>2. k.prev # None /\ doc[e].version < k.version
          BY <1>11, <4>1
        <4>3. doc'[e].next # None
          BY <1>1, <1>5, <2>1, <3>1, <4>1, <4>2, DocumentsAssumption DEF Superseded
        <4>4. QED
          BY <1>1, <2>1, <3>1, <4>1, <4>2, <4>3 DEF Superseded
      <3>2. CASE d # k.doc
        <4>1. /\ Live(d) /\ d # k.prev
              /\ doc'[d].version = doc[d].version /\ doc'[d].title = doc[d].title
          BY <1>1, <1>2, <1>10, <2>1, <3>2
        <4>2. e # k.doc
          <5>1. SUFFICES ASSUME e = k.doc PROVE FALSE
            OBVIOUS
          <5>2. doc[d].title = k.title /\ Exists(d)
            BY <1>2, <2>1, <4>1, <5>1 DEF Live
          <5>3. k.prev # None
            BY <1>11, <5>2
          <5>4. Superseded(d)
            BY <1>5, <4>1, <5>2, <5>3
          <5>5. QED
            BY <4>1, <5>4 DEF Live, Superseded
        <4>3. Exists(e) /\ doc[e].title = doc[d].title /\ doc'[e].version = doc[e].version
          BY <1>1, <1>2, <2>1, <4>1, <4>2
        <4>4. Superseded(e) /\ doc[e].version < doc[d].version
          BY <2>1, <4>1, <4>3 DEF HistoryInv, Chained, OneLive
        <4>5. doc'[e].next # None
          BY <1>1, <4>2, <4>4, DocumentsAssumption DEF Superseded
        <4>6. QED
          BY <2>1, <4>1, <4>3, <4>4, <4>5 DEF Superseded
      <3>3. QED
        BY <3>1, <3>2
    <2>2. QED
      BY <2>1 DEF OneLive
  <1>17. QED
    BY <1>12, <1>13, <1>14, <1>15, <1>16 DEF Chained

\* What the deletion of rows leaves of the others.
LEMMA WithoutRows ==
  ASSUME DocInv, NEW gone \in SUBSET Docs, doc' = Without(gone)
  PROVE  \A d \in Docs : Exists(d)' =>
           /\ d \notin gone /\ Exists(d)
           /\ doc'[d].title = doc[d].title
           /\ doc'[d].version = doc[d].version
           /\ doc'[d].next = IF doc[d].next \in gone THEN None ELSE doc[d].next
           /\ doc[d].next \notin gone => doc'[d] = doc[d]
  <1> SUFFICES ASSUME NEW d \in Docs, Exists(d)'
               PROVE  /\ d \notin gone /\ Exists(d)
                      /\ doc'[d].title = doc[d].title
                      /\ doc'[d].version = doc[d].version
                      /\ doc'[d].next = IF doc[d].next \in gone THEN None ELSE doc[d].next
                      /\ doc[d].next \notin gone => doc'[d] = doc[d]
    OBVIOUS
  <1>1. d \notin gone /\ Exists(d)
    BY WithoutFacts
  <1>2. doc[d] \in Row
    BY <1>1, RowFacts DEF DocInv
  <1>3. CASE doc[d].next \in gone
    <2>1. doc'[d] = [doc[d] EXCEPT !.next = None]
      BY <1>1, <1>3 DEF Without
    <2>2. QED
      BY <1>1, <1>2, <1>3, <2>1 DEF Row
  <1>4. CASE doc[d].next \notin gone
    <2>1. doc'[d] = doc[d]
      BY <1>1, <1>4 DEF Without
    <2>2. QED
      BY <1>1, <1>4, <2>1
  <1>5. QED
    BY <1>3, <1>4

\* The end of a chain is deleted, and the revision before it is live again.
LEMMA DeleteLastChained ==
  ASSUME HistoryInv, DocInv', UNCHANGED mixed, NEW x \in Docs, Live(x), Tidy(x),
         doc' = Without({x})
  PROVE  Chained'
  <1>1. \A d \in Docs : Exists(d)' <=> Exists(d) /\ d # x
    BY WithoutFacts DEF HistoryInv
  <1>2. \A d \in Docs : Exists(d)' =>
          /\ doc'[d].title = doc[d].title
          /\ doc'[d].version = doc[d].version
          /\ doc'[d].next = IF doc[d].next = x THEN None ELSE doc[d].next
    BY WithoutRows DEF HistoryInv
  <1>3. \A d \in Docs : Tidy(d)' <=> Tidy(d) /\ d # x
    BY <1>1, <1>2 DEF Tidy
  <1>4. Exists(x) /\ doc[x].next = None /\ doc[x].title \notin mixed
    BY DEF Live, Tidy
  <1>5. \A d \in Docs : doc[d].version \in Nat
    BY RowFacts DEF HistoryInv, DocInv
  <1>6. \A d \in Docs : Exists(d) /\ doc[d].title = doc[x].title /\ d # x =>
          doc[d].next # None /\ doc[d].version < doc[x].version
    BY <1>4 DEF HistoryInv, Chained, OneLive, Superseded
  <1>7. Stepwise'
    <2>1. ASSUME NEW d \in Docs, Tidy(d)', doc'[d].next # None
          PROVE  /\ doc'[doc'[d].next].title = doc'[d].title
                 /\ doc'[doc'[d].next].version = doc'[d].version + 1
      <3>1. Tidy(d) /\ Exists(d)' /\ doc'[d].next = doc[d].next /\ doc[d].next # x
        BY <1>2, <1>3, <2>1 DEF Tidy
      <3>2. PICK f \in Docs : f = doc[d].next /\ Exists(f)
        BY <2>1, <3>1, RowFacts DEF HistoryInv, DocInv, LineageForward, Superseded, Tidy
      <3>3. Exists(f)'
        BY <1>1, <3>1, <3>2
      <3>4. doc[f].title = doc[d].title /\ doc[f].version = doc[d].version + 1
        BY <2>1, <3>1, <3>2 DEF HistoryInv, Chained, Stepwise
      <3>5. QED
        BY <1>2, <3>1, <3>2, <3>3, <3>4
    <2>2. QED
      BY <2>1 DEF Stepwise
  <1>8. NoGap'
    <2>1. ASSUME NEW d \in Docs, NEW e \in Docs, Tidy(d)', Tidy(e)',
                 doc'[d].title = doc'[e].title, doc'[e].version < doc'[d].version
          PROVE  \E p \in Docs : Tidy(p)' /\ doc'[p].next = d /\ doc'[p].title = doc'[d].title
      <3>1. /\ Tidy(d) /\ Tidy(e) /\ d # x /\ doc'[d].title = doc[d].title
            /\ doc[d].title = doc[e].title /\ doc[e].version < doc[d].version
        BY <1>2, <1>3, <2>1 DEF Tidy
      <3>2. PICK p \in Docs : Tidy(p) /\ doc[p].next = d /\ doc[p].title = doc[d].title
        BY <3>1 DEF HistoryInv, Chained, NoGap
      <3>3. p # x
        BY <1>4, <3>2, DocumentsAssumption
      <3>4. Tidy(p)' /\ Exists(p)'
        BY <1>3, <3>2, <3>3 DEF Tidy
      <3>5. QED
        BY <1>2, <3>1, <3>2, <3>4
    <2>2. QED
      BY <2>1 DEF NoGap
  <1>9. Distinct'
    BY <1>2, <1>3 DEF HistoryInv, Chained, Distinct, Tidy
  <1>10. SomeLive'
    <2>1. ASSUME NEW d \in Docs, Tidy(d)'
          PROVE  \E e \in Docs : Live(e)' /\ doc'[e].title = doc'[d].title
      <3>1. Tidy(d) /\ d # x /\ doc'[d].title = doc[d].title
        BY <1>2, <1>3, <2>1 DEF Tidy
      <3>2. CASE doc[d].title = doc[x].title
        <4>1. doc[d].version < doc[x].version
          BY <1>6, <3>1, <3>2 DEF Tidy
        <4>2. PICK p \in Docs : Tidy(p) /\ doc[p].next = x /\ doc[p].title = doc[x].title
          BY <3>1, <3>2, <4>1 DEF HistoryInv, Chained, NoGap
        <4>3. p # x
          BY <1>4, <4>2, DocumentsAssumption
        <4>4. Exists(p)'
          BY <1>1, <4>2, <4>3 DEF Tidy
        <4>5. Live(p)' /\ doc'[p].title = doc[x].title
          BY <1>2, <4>2, <4>4 DEF Live
        <4>6. QED
          BY <3>1, <3>2, <4>5
      <3>3. CASE doc[d].title # doc[x].title
        <4>1. PICK e \in Docs : Live(e) /\ doc[e].title = doc[d].title
          BY <3>1 DEF HistoryInv, Chained, SomeLive
        <4>2. Exists(e)'
          BY <1>1, <3>3, <4>1 DEF Live
        <4>3. Live(e)' /\ doc'[e].title = doc[e].title
          BY <1>2, <4>1, <4>2, DocumentsAssumption DEF Live
        <4>4. QED
          BY <3>1, <4>1, <4>3
      <3>4. QED
        BY <3>2, <3>3
    <2>2. QED
      BY <2>1 DEF SomeLive
  <1>11. OneLive'
    <2>1. ASSUME NEW d \in Docs, NEW e \in Docs, Live(d)', Exists(e)',
                 doc'[e].title = doc'[d].title, e # d, doc'[d].title \notin mixed'
          PROVE  Superseded(e)' /\ doc'[e].version < doc'[d].version
      <3>1. /\ Exists(d) /\ d # x /\ Tidy(d)
            /\ Exists(e) /\ e # x /\ Tidy(e) /\ doc[e].title = doc[d].title
        BY <1>1, <1>2, <2>1 DEF Live, Tidy
      <3>2. doc[d].next = None \/ doc[d].next = x
        BY <1>2, <2>1 DEF Live
      <3>3. /\ doc'[d].version = doc[d].version /\ doc'[e].version = doc[e].version
            /\ doc'[e].next = IF doc[e].next = x THEN None ELSE doc[e].next
        BY <1>2, <2>1 DEF Live
      <3>4. CASE doc[d].next = x
        <4>1. doc[x].title = doc[d].title /\ doc[x].version = doc[d].version + 1
          BY <3>1, <3>4, DocumentsAssumption DEF HistoryInv, Chained, Stepwise
        <4>2. doc[e].next # None /\ doc[e].version < doc[x].version
          BY <1>6, <3>1, <4>1
        <4>3. doc[e].version # doc[d].version
          BY <2>1, <3>1 DEF HistoryInv, Chained, Distinct
        <4>4. doc[e].version < doc[d].version
          BY <1>5, <4>1, <4>2, <4>3
        <4>5. doc[e].next # x
          BY <2>1, <3>1, <3>4, DocumentsAssumption DEF HistoryInv, DocInv, LineageForward, Superseded
        <4>6. QED
          BY <2>1, <3>3, <4>2, <4>4, <4>5 DEF Superseded
      <3>5. CASE doc[d].next = None
        <4>1. Superseded(e) /\ doc[e].version < doc[d].version
          BY <2>1, <3>1, <3>5 DEF HistoryInv, Chained, OneLive, Live, Tidy
        <4>2. doc[d].title # doc[x].title
          BY <1>6, <3>1, <3>5
        <4>3. doc[e].next # x
          BY <3>1, <4>1, <4>2, DocumentsAssumption DEF HistoryInv, Chained, Stepwise
        <4>4. QED
          BY <2>1, <3>3, <4>1, <4>3 DEF Superseded
      <3>6. QED
        BY <3>2, <3>4, <3>5
    <2>2. QED
      BY <2>1 DEF OneLive
  <1>12. QED
    BY <1>7, <1>8, <1>9, <1>10, <1>11 DEF Chained

\* The beginning of a chain is deleted: no row refers to it.
LEMMA DeleteFirstChained ==
  ASSUME HistoryInv, DocInv', UNCHANGED mixed, NEW x \in Docs, Superseded(x), Tidy(x),
         \A e \in Docs : Superseded(e) => doc[e].next # x,
         doc' = Without({x})
  PROVE  Chained'
  <1>1. \A d \in Docs : Exists(d)' <=> Exists(d) /\ d # x
    BY WithoutFacts DEF HistoryInv
  <1>2. \A d \in Docs : Exists(d)' => doc'[d] = doc[d]
    <2> SUFFICES ASSUME NEW d \in Docs, Exists(d)' PROVE doc'[d] = doc[d]
      OBVIOUS
    <2>1. Exists(d) /\ doc[d].next # x
      BY <1>1, DocumentsAssumption DEF Superseded
    <2>2. QED
      BY <2>1, WithoutRows DEF HistoryInv
  <1>3. \A d \in Docs : Tidy(d)' <=> Tidy(d) /\ d # x
    BY <1>1, <1>2 DEF Tidy
  <1>4. \A d \in Docs : doc[d].version \in Nat
    BY RowFacts DEF HistoryInv, DocInv
  <1>5. Stepwise'
    <2>1. ASSUME NEW d \in Docs, Tidy(d)', doc'[d].next # None
          PROVE  /\ doc'[doc'[d].next].title = doc'[d].title
                 /\ doc'[doc'[d].next].version = doc'[d].version + 1
      <3>1. Tidy(d) /\ doc'[d] = doc[d]
        BY <1>2, <1>3, <2>1 DEF Tidy
      <3>2. PICK f \in Docs : f = doc[d].next /\ Exists(f)
        BY <2>1, <3>1, RowFacts DEF HistoryInv, DocInv, LineageForward, Superseded, Tidy
      <3>3. f # x
        BY <2>1, <3>1, <3>2 DEF Superseded, Tidy
      <3>4. doc'[f] = doc[f]
        BY <1>1, <1>2, <3>2, <3>3
      <3>5. QED
        BY <2>1, <3>1, <3>2, <3>4 DEF HistoryInv, Chained, Stepwise
    <2>2. QED
      BY <2>1 DEF Stepwise
  <1>6. NoGap'
    <2>1. ASSUME NEW d \in Docs, NEW e \in Docs, Tidy(d)', Tidy(e)',
                 doc'[d].title = doc'[e].title, doc'[e].version < doc'[d].version
          PROVE  \E p \in Docs : Tidy(p)' /\ doc'[p].next = d /\ doc'[p].title = doc'[d].title
      <3>1. /\ Tidy(d) /\ Tidy(e) /\ e # x /\ doc'[d] = doc[d] /\ doc'[e] = doc[e]
        BY <1>2, <1>3, <2>1 DEF Tidy
      <3>2. PICK p \in Docs : Tidy(p) /\ doc[p].next = d /\ doc[p].title = doc[d].title
        BY <2>1, <3>1 DEF HistoryInv, Chained, NoGap
      <3>3. p # x
        <4>1. SUFFICES ASSUME p = x PROVE FALSE
          OBVIOUS
        <4>2. doc[d].version = doc[x].version + 1
          BY <3>2, <4>1, DocumentsAssumption DEF HistoryInv, Chained, Stepwise
        <4>3. doc[e].version # doc[x].version
          BY <2>1, <3>1, <3>2, <4>1 DEF HistoryInv, Chained, Distinct
        <4>4. doc[e].version < doc[x].version
          BY <1>4, <2>1, <3>1, <4>2, <4>3
        <4>5. PICK q \in Docs : Tidy(q) /\ doc[q].next = x
          BY <2>1, <3>1, <3>2, <4>1, <4>4 DEF HistoryInv, Chained, NoGap
        <4>6. QED
          BY <4>5, DocumentsAssumption DEF Superseded, Tidy
      <3>4. Tidy(p)' /\ doc'[p] = doc[p]
        BY <1>2, <1>3, <3>2, <3>3 DEF Tidy
      <3>5. QED
        BY <3>1, <3>2, <3>4
    <2>2. QED
      BY <2>1 DEF NoGap
  <1>7. Distinct'
    BY <1>2, <1>3 DEF HistoryInv, Chained, Distinct, Tidy
  <1>8. SomeLive'
    <2>1. ASSUME NEW d \in Docs, Tidy(d)'
          PROVE  \E e \in Docs : Live(e)' /\ doc'[e].title = doc'[d].title
      <3>1. Tidy(d) /\ doc'[d] = doc[d]
        BY <1>2, <1>3, <2>1 DEF Tidy
      <3>2. PICK e \in Docs : Live(e) /\ doc[e].title = doc[d].title
        BY <3>1 DEF HistoryInv, Chained, SomeLive
      <3>3. Exists(e)'
        BY <1>1, <3>2 DEF Live, Superseded
      <3>4. QED
        BY <1>2, <3>1, <3>2, <3>3 DEF Live
    <2>2. QED
      BY <2>1 DEF SomeLive
  <1>9. OneLive'
    <2>1. ASSUME NEW d \in Docs, NEW e \in Docs, Live(d)', Exists(e)',
                 doc'[e].title = doc'[d].title, e # d, doc'[d].title \notin mixed'
          PROVE  Superseded(e)' /\ doc'[e].version < doc'[d].version
      <3>1. doc'[e] = doc[e] /\ doc'[d] = doc[d] /\ Exists(d) /\ Exists(e)
        BY <1>1, <1>2, <2>1 DEF Live
      <3>2. Superseded(e) /\ doc[e].version < doc[d].version
        BY <2>1, <3>1 DEF HistoryInv, Chained, OneLive, Live
      <3>3. QED
        BY <2>1, <3>1, <3>2 DEF Superseded
    <2>2. QED
      BY <2>1 DEF OneLive
  <1>10. QED
    BY <1>5, <1>6, <1>7, <1>8, <1>9 DEF Chained

Renamed(x, to) == [doc EXCEPT ![x].title = to]

\* What a rename writes.
LEMMA RenameRows ==
  ASSUME DocInv, NEW x \in Docs, Exists(x), NEW to \in Titles,
         doc' = Renamed(x, to)
  PROVE  /\ \A d \in Docs : d # x => doc'[d] = doc[d]
         /\ doc'[x].title = to
         /\ doc'[x].version = doc[x].version
         /\ doc'[x].next = doc[x].next
         /\ \A d \in Docs : Exists(d)' <=> Exists(d)
  <1>1. doc[x] \in Row /\ NoRow \notin Row
    BY RowFacts, DocumentsAssumption DEF DocInv, NoRow, Row
  <1>2. doc'[x] = [doc[x] EXCEPT !.title = to] /\ \A d \in Docs : d # x => doc'[d] = doc[d]
    BY DEF DocInv, TypeOK, Renamed
  <1>3. [doc[x] EXCEPT !.title = to] \in Row
    BY <1>1 DEF Row
  <1>4. QED
    BY <1>1, <1>2, <1>3 DEF Row, Exists

\* A revision without others gets a title that is not in use.
LEMMA RenameChained ==
  ASSUME HistoryInv, DocInv', UNCHANGED mixed, NEW x \in Docs, Exists(x),
         NEW to \in Titles, doc' = Renamed(x, to),
         doc[x].title # to, doc[x].title \notin mixed,
         Revisions(doc[x].title) = {x}, Revisions(to) = {}
  PROVE  Chained' /\ Live(x)
  <1>1. /\ \A d \in Docs : d # x => doc'[d] = doc[d]
        /\ doc'[x].title = to
        /\ doc'[x].version = doc[x].version
        /\ doc'[x].next = doc[x].next
        /\ \A d \in Docs : Exists(d)' <=> Exists(d)
    BY RenameRows DEF HistoryInv
  <1>2. \A d \in Docs : Exists(d) /\ d # x => doc[d].title # doc[x].title /\ doc[d].title # to
    BY DEF Revisions
  <1>3. doc[x].next = None
    <2>1. Tidy(x)
      BY DEF Tidy
    <2>2. PICK l \in Docs : Live(l) /\ doc[l].title = doc[x].title
      BY <2>1 DEF HistoryInv, Chained, SomeLive
    <2>3. QED
      BY <1>2, <2>2 DEF Live
  <1>4. \A d \in Docs : d # x => (Tidy(d)' <=> Tidy(d))
    BY <1>1 DEF Tidy
  <1>5. Stepwise'
    <2>1. ASSUME NEW d \in Docs, Tidy(d)', doc'[d].next # None
          PROVE  /\ doc'[doc'[d].next].title = doc'[d].title
                 /\ doc'[doc'[d].next].version = doc'[d].version + 1
      <3>1. d # x /\ Tidy(d) /\ doc'[d] = doc[d]
        BY <1>1, <1>3, <1>4, <2>1
      <3>2. PICK f \in Docs : f = doc[d].next /\ Exists(f)
        BY <2>1, <3>1, RowFacts DEF HistoryInv, DocInv, LineageForward, Superseded, Tidy
      <3>3. doc[f].title = doc[d].title /\ doc[f].version = doc[d].version + 1
        BY <2>1, <3>1, <3>2 DEF HistoryInv, Chained, Stepwise
      <3>4. f # x
        BY <1>2, <3>1, <3>3 DEF Tidy
      <3>5. QED
        BY <1>1, <3>1, <3>2, <3>3, <3>4
    <2>2. QED
      BY <2>1 DEF Stepwise
  <1>6. \A d, e \in Docs : Exists(d)' /\ Exists(e)' /\ d # e /\ doc'[d].title = doc'[e].title =>
          d # x /\ e # x
    BY <1>1, <1>2
  <1>7. NoGap'
    <2>1. ASSUME NEW d \in Docs, NEW e \in Docs, Tidy(d)', Tidy(e)',
                 doc'[d].title = doc'[e].title, doc'[e].version < doc'[d].version
          PROVE  \E p \in Docs : Tidy(p)' /\ doc'[p].next = d /\ doc'[p].title = doc'[d].title
      <3>1. d # e
        <4>1. doc'[d].version \in Nat
          BY <1>1, RowFacts DEF HistoryInv, DocInv
        <4>2. QED
          BY <2>1, <4>1
      <3>2. d # x /\ e # x /\ Tidy(d) /\ Tidy(e) /\ doc'[d] = doc[d] /\ doc'[e] = doc[e]
        BY <1>1, <1>4, <1>6, <2>1, <3>1 DEF Tidy
      <3>3. PICK p \in Docs : Tidy(p) /\ doc[p].next = d /\ doc[p].title = doc[d].title
        BY <2>1, <3>2 DEF HistoryInv, Chained, NoGap
      <3>4. p # x
        BY <1>2, <3>2, <3>3 DEF Tidy
      <3>5. Tidy(p)' /\ doc'[p] = doc[p]
        BY <1>1, <1>4, <3>3, <3>4
      <3>6. QED
        BY <3>2, <3>3, <3>5
    <2>2. QED
      BY <2>1 DEF NoGap
  <1>8. Distinct'
    <2>1. ASSUME NEW d \in Docs, NEW e \in Docs, Tidy(d)', Tidy(e)', d # e,
                 doc'[d].title = doc'[e].title, doc'[e].version = doc'[d].version
          PROVE  FALSE
      <3>1. d # x /\ e # x
        BY <1>6, <2>1 DEF Tidy
      <3>2. Tidy(d) /\ Tidy(e) /\ doc'[d] = doc[d] /\ doc'[e] = doc[e]
        BY <1>1, <1>4, <2>1, <3>1
      <3>3. QED
        BY <2>1, <3>2 DEF HistoryInv, Chained, Distinct
    <2>2. \A d, e \in Docs : Tidy(d)' /\ Tidy(e)' /\ doc'[d].title = doc'[e].title
                            /\ doc'[e].version = doc'[d].version => d = e
      BY <2>1
    <2>3. QED
      BY <2>2 DEF Distinct
  <1>9. SomeLive'
    <2>1. ASSUME NEW d \in Docs, Tidy(d)'
          PROVE  \E e \in Docs : Live(e)' /\ doc'[e].title = doc'[d].title
      <3>1. CASE d = x
        BY <1>1, <1>3, <3>1 DEF Live
      <3>2. CASE d # x
        <4>1. Tidy(d) /\ doc'[d] = doc[d]
          BY <1>1, <1>4, <2>1, <3>2
        <4>2. PICK e \in Docs : Live(e) /\ doc[e].title = doc[d].title
          BY <4>1 DEF HistoryInv, Chained, SomeLive
        <4>3. e # x
          BY <1>2, <3>2, <4>1, <4>2 DEF Tidy
        <4>4. QED
          BY <1>1, <4>1, <4>2, <4>3 DEF Live
      <3>3. QED
        BY <3>1, <3>2
    <2>2. QED
      BY <2>1 DEF SomeLive
  <1>10. OneLive'
    <2>1. ASSUME NEW d \in Docs, NEW e \in Docs, Live(d)', Exists(e)',
                 doc'[e].title = doc'[d].title, e # d, doc'[d].title \notin mixed'
          PROVE  Superseded(e)' /\ doc'[e].version < doc'[d].version
      <3>1. doc'[e] = doc[e] /\ doc'[d] = doc[d] /\ Exists(d) /\ Exists(e)
        BY <1>1, <1>6, <2>1 DEF Live
      <3>2. Live(d) /\ doc[e].title = doc[d].title /\ doc[d].title \notin mixed
        BY <2>1, <3>1 DEF Live
      <3>3. Superseded(e) /\ doc[e].version < doc[d].version
        BY <2>1, <3>1, <3>2 DEF HistoryInv, Chained, OneLive
      <3>4. QED
        BY <2>1, <3>1, <3>3 DEF Superseded
    <2>2. QED
      BY <2>1 DEF OneLive
  <1>11. QED
    BY <1>3, <1>5, <1>7, <1>8, <1>9, <1>10 DEF Chained, Live

-----------------------------------------------------------------------------
(***************************************************************************)
(* What answers may cite, and the steps of Manuals.                        *)
(***************************************************************************)

LiveIn(f, t) ==
  {f[d].version : d \in {e \in Docs : f[e] # NoRow /\ f[e].next = None /\ f[e].title = t}}

LEMMA VersionsAre ==
  /\ LiveVersions = [t \in Titles |-> IF t \in mixed THEN {} ELSE LiveIn(doc, t)]
  /\ LiveVersions' = [t \in Titles |-> IF t \in mixed' THEN {} ELSE LiveIn(doc', t)]
  <1>1. \A t : {e \in Revisions(t) : Live(e)} =
              {e \in Docs : doc[e] # NoRow /\ doc[e].next = None /\ doc[e].title = t}
    BY DEF Revisions, Live, Exists
  <1>2. \A t : {e \in Revisions(t)' : Live(e)'} =
              {e \in Docs : doc'[e] # NoRow /\ doc'[e].next = None /\ doc'[e].title = t}
    BY DEF Revisions, Live, Exists
  <1>3. LiveVersions = [t \in Titles |-> IF t \in mixed THEN {} ELSE LiveIn(doc, t)]
    BY <1>1 DEF LiveVersions, LiveIn
  <1>4. LiveVersions' = [t \in Titles |-> IF t \in mixed' THEN {} ELSE LiveIn(doc', t)]
    BY <1>2 DEF LiveVersions, LiveIn
  <1>5. QED
    BY <1>3, <1>4

\* Two sets of rows with the same live rows of a title.
LEMMA SameLive ==
  ASSUME NEW f, NEW g, NEW t,
         \A d \in Docs : (f[d] # NoRow /\ f[d].next = None /\ f[d].title = t) \/
                         (g[d] # NoRow /\ g[d].next = None /\ g[d].title = t) => f[d] = g[d]
  PROVE  LiveIn(f, t) = LiveIn(g, t)
  BY DEF LiveIn

\* d is the only live row of a title.
LEMMA OnlyLive ==
  ASSUME NEW f, NEW t, NEW d \in Docs, f[d] # NoRow, f[d].next = None, f[d].title = t,
         \A e \in Docs : f[e] # NoRow /\ f[e].next = None /\ f[e].title = t => e = d
  PROVE  LiveIn(f, t) = {f[d].version}
  <1>1. {e \in Docs : f[e] # NoRow /\ f[e].next = None /\ f[e].title = t} = {d}
    OBVIOUS
  <1>2. QED
    BY <1>1 DEF LiveIn

\* In a state in which one revision is live, it is the only one.
LEMMA OneLiveIn ==
  ASSUME OneLive, NEW d \in Docs, Live(d), doc[d].title \notin mixed
  PROVE  LiveIn(doc, doc[d].title) = {doc[d].version}
  <1>1. \A e \in Docs : doc[e] # NoRow /\ doc[e].next = None /\ doc[e].title = doc[d].title => e = d
    BY DEF OneLive, Live, Superseded, Exists
  <1>2. QED
    BY <1>1, OnlyLive DEF Live, Exists

\* The rows of tidy titles are left alone: at most some titles are forfeited.
LEMMA FrameForfeits ==
  ASSUME NEW ts \in SUBSET Titles, mixed' = mixed \cup ts,
         \A d \in Docs : Tidy(d)' => doc'[d] = doc[d],
         \A d \in Docs : Tidy(d) /\ doc[d].title \notin mixed' => doc'[d] = doc[d]
  PROVE  Promise!Forfeit(ts)
  <1>1. ASSUME NEW t \in Titles, t \notin mixed'
        PROVE  LiveIn(doc', t) = LiveIn(doc, t)
    <2>1. \A d \in Docs : (doc'[d] # NoRow /\ doc'[d].next = None /\ doc'[d].title = t) \/
                          (doc[d] # NoRow /\ doc[d].next = None /\ doc[d].title = t) =>
                            doc'[d] = doc[d]
      BY <1>1 DEF Tidy, Exists
    <2>2. QED
      BY <2>1, SameLive
  <1>2. \A t \in Titles : LiveVersions'[t] = IF t \in ts THEN {} ELSE LiveVersions[t]
    BY <1>1, VersionsAre
  <1>3. LiveVersions' = [t \in Titles |-> IF t \in ts THEN {} ELSE LiveVersions[t]]
    BY <1>2, VersionsAre
  <1>4. QED
    BY <1>3 DEF Promise!Forfeit

\* The same for the chains and the promise at once.
LEMMA FrameStep ==
  ASSUME HistoryInv, DocInv', NEW ts \in SUBSET Titles, Mix(ts),
         \A d \in Docs : Tidy(d)' => doc'[d] = doc[d],
         \A d \in Docs : Tidy(d) /\ doc[d].title \notin mixed' => doc'[d] = doc[d]
  PROVE  Chained' /\ Promise!Next
  <1>1. mixed' = mixed \cup ts
    BY DEF Mix
  <1>2. Chained'
    BY <1>1, ChainedFrame
  <1>3. Promise!Forfeit(ts)
    BY <1>1, FrameForfeits
  <1>4. QED
    BY <1>2, <1>3 DEF Promise!Next

LEMMA IdleStep ==
  ASSUME HistoryInv, DocInv', UNCHANGED doc, Mix({})
  PROVE  Chained' /\ Promise!Next
  BY FrameStep

LEMMA CommitStep ==
  ASSUME HistoryInv, DocInv', NEW u \in Uploads, CommitIngest(u), Mix(MixedByIngest(u))
  PROVE  Chained' /\ Promise!Next
  <1> DEFINE k == task[u]
  <1>1. /\ k.doc \in Docs /\ ~Exists(k.doc)
        /\ k.prev \in Docs \cup {None} /\ k.prev # k.doc
        /\ k.prev # None => Exists(k.prev) /\ k.version = doc[k.prev].version + 1
        /\ doc'[k.doc].title = k.title
        /\ doc'[k.doc].version = k.version /\ doc'[k.doc].next = None
        /\ \A d \in Docs : d # k.doc => doc'[d].title = doc[d].title
        /\ \A d \in Docs : Exists(d)' <=> Exists(d) \/ d = k.doc
    BY IngestWrites DEF HistoryInv
  <1>2. \A d \in Docs : d # k.doc /\ d # k.prev => doc'[d] = doc[d]
    BY DEF CommitIngest, Ingested
  <1>3. k.title \in Titles
    BY DEF HistoryInv, DocInv, TypeOK, CommitIngest, Titled, Task
  <1>4. CASE Outdated(u) \/ k.title \in mixed
    <2> DEFINE ts == MixedByIngest(u)
    <2>1. ts \in SUBSET Titles
      <3>1. k.prev # None => doc[k.prev].title \in Titles
        BY <1>1, RowFacts DEF HistoryInv, DocInv, Row
      <3>2. QED
        BY <1>3, <3>1 DEF MixedByIngest
    <2>2. mixed' = mixed \cup ts
      BY DEF Mix
    <2>3. k.title \in mixed'
      BY <1>4, <2>2 DEF MixedByIngest
    <2>4. k.prev # None => doc[k.prev].title \in mixed'
      <3>1. CASE Outdated(u)
        BY <2>2, <3>1 DEF MixedByIngest
      <3>2. CASE ~Outdated(u)
        <4>1. k.prev # None => k.prev \in LatestOf(k.title)
          BY <3>2 DEF Outdated
        <4>2. QED
          BY <2>3, <4>1 DEF LatestOf
      <3>3. QED
        BY <3>1, <3>2
    <2>5. ASSUME NEW d \in Docs, Tidy(d)' PROVE doc'[d] = doc[d]
      <3>1. d # k.doc
        BY <1>1, <2>3, <2>5 DEF Tidy
      <3>2. d # k.prev
        BY <1>1, <2>4, <2>5, <3>1, DocumentsAssumption DEF Tidy
      <3>3. QED
        BY <1>2, <3>1, <3>2
    <2>6. ASSUME NEW d \in Docs, Tidy(d), doc[d].title \notin mixed' PROVE doc'[d] = doc[d]
      <3>1. d # k.doc
        BY <1>1, <2>6 DEF Tidy
      <3>2. d # k.prev
        BY <2>4, <2>6, DocumentsAssumption
      <3>3. QED
        BY <1>2, <3>1, <3>2
    <2> HIDE DEF ts
    <2>7. QED
      BY <2>1, <2>5, <2>6, FrameStep DEF ts
  <1>5. CASE ~Outdated(u) /\ k.title \notin mixed
    <2>1. mixed' = mixed
      BY <1>5 DEF Mix, MixedByIngest
    <2>2. Chained'
      BY <1>5, <2>1, CommitChained
    <2>3. PICK n \in Docs : n = k.doc
      BY <1>1
    <2>4. PICK t \in Titles : t = k.title
      BY <1>3
    <2>5. PICK v : v = k.version
      OBVIOUS
    <2>6. LatestOf(t) = (IF k.prev = None THEN {} ELSE {k.prev})
      BY <1>5, <2>4 DEF Outdated
    <2>7. k.prev = None => \A e \in Docs : Exists(e) => doc[e].title # t
      BY <1>5, <2>4, <2>6, NoLatest
    <2>8. k.prev # None => k.prev \in Docs /\ Live(k.prev) /\ doc[k.prev].title = t
      <3>1. k.prev # None => k.prev \in LatestOf(t)
        BY <2>6
      <3>2. QED
        BY <1>5, <2>4, <3>1, LatestIsLive
    <2>9. LiveIn(doc', t) = {v}
      <3>1. doc'[n] # NoRow /\ doc'[n].next = None /\ doc'[n].title = t /\ doc'[n].version = v
        BY <1>1, <2>3, <2>4, <2>5 DEF Exists
      <3>2. \A e \in Docs : doc'[e] # NoRow /\ doc'[e].next = None /\ doc'[e].title = t => e = n
        BY <1>5, <2>1, <2>2, <2>4, <3>1 DEF Chained, OneLive, Live, Superseded, Exists
      <3>3. QED
        BY <3>1, <3>2, OnlyLive
    <2>10. ASSUME NEW s \in Titles, s # t PROVE LiveIn(doc', s) = LiveIn(doc, s)
      <3>1. \A d \in Docs : (doc'[d] # NoRow /\ doc'[d].next = None /\ doc'[d].title = s) \/
                            (doc[d] # NoRow /\ doc[d].next = None /\ doc[d].title = s) =>
                              doc'[d] = doc[d]
        BY <1>1, <1>2, <2>4, <2>8, <2>10, DocumentsAssumption DEF Exists
      <3>2. QED
        BY <3>1, SameLive
    <2>11. t \notin mixed
      BY <1>5, <2>4
    <2>12. \A s \in Titles : LiveVersions'[s] = IF s = t THEN {v} ELSE LiveVersions[s]
      BY <2>1, <2>9, <2>10, <2>11, VersionsAre
    <2>13. LiveVersions' = [LiveVersions EXCEPT ![t] = {v}]
      BY <2>12, VersionsAre
    <2>14. Promise!Revise(t)
      <3>1. CASE k.prev = None
        <4>1. LiveIn(doc, t) = {}
          BY <2>7, <3>1 DEF LiveIn, Exists
        <4>2. LiveVersions[t] = {}
          BY <2>11, <4>1, VersionsAre
        <4>3. v = 1
          BY <2>5, <3>1 DEF HistoryInv, FirstIsOne, CommitIngest
        <4>4. QED
          BY <2>1, <2>13, <4>2, <4>3 DEF Promise!Revise
      <3>2. CASE k.prev # None
        <4>1. PICK p \in Docs : p = k.prev /\ Live(p) /\ doc[p].title = t
          BY <2>8, <3>2
        <4>2. LiveIn(doc, t) = {doc[p].version}
          BY <2>11, <4>1, OneLiveIn DEF HistoryInv, Chained
        <4>3. LiveVersions[t] = {doc[p].version} /\ v = doc[p].version + 1
          BY <1>1, <2>5, <2>11, <3>2, <4>1, <4>2, VersionsAre
        <4>4. QED
          BY <2>1, <2>13, <4>3 DEF Promise!Revise
      <3>3. QED
        BY <3>1, <3>2
    <2>15. QED
      BY <2>2, <2>11, <2>14 DEF Promise!Next, Promise!Kept
  <1>6. QED
    BY <1>4, <1>5

LEMMA RenameStep ==
  ASSUME HistoryInv, DocInv', NEW r \in Requests, CommitRename(r), Mix(MixedByRename(r))
  PROVE  Chained' /\ Promise!Next
  <1>1. /\ req[r].doc \in Docs /\ req[r].title \in Titles
        /\ req[r].title # req[r].seen => Exists(req[r].doc)
    BY DEF HistoryInv, DocInv, TypeOK, Handled, Request, CommitRename
  <1>2. PICK x \in Docs, to \in Titles : x = req[r].doc /\ to = req[r].title
    BY <1>1
  <1>3. CASE to = req[r].seen
    <2>1. UNCHANGED doc /\ Mix({})
      BY <1>2, <1>3 DEF CommitRename, MixedByRename
    <2>2. QED
      BY <2>1, IdleStep
  <1>4. CASE to # req[r].seen
    <2>1. Exists(x) /\ doc' = Renamed(x, to)
      BY <1>1, <1>2, <1>4 DEF CommitRename, Renamed
    <2>2. PICK from \in Titles : from = doc[x].title
      BY <2>1, RowFacts DEF HistoryInv, DocInv, Row
    <2>3. /\ \A d \in Docs : d # x => doc'[d] = doc[d]
          /\ doc'[x].title = to
          /\ doc'[x].version = doc[x].version
          /\ doc'[x].next = doc[x].next
          /\ \A d \in Docs : Exists(d)' <=> Exists(d)
      BY <2>1, RenameRows DEF HistoryInv
    <2> DEFINE alone == from \notin mixed /\ Revisions(from) = {x} /\ Revisions(to) = {}
    <2>4. CASE to = from
      <3>1. Mix({})
        BY <1>2, <2>2, <2>4 DEF MixedByRename
      <3>2. [doc[x] EXCEPT !.title = to] = doc[x]
        BY <2>1, <2>2, <2>4, RowFacts DEF HistoryInv, DocInv, Row
      <3>3. doc'[x] = doc[x]
        BY <2>1, <3>2 DEF Renamed, HistoryInv, DocInv, TypeOK
      <3>4. QED
        BY <2>3, <3>1, <3>3, FrameStep
    <2>5. CASE to # from /\ ~alone
      <3>1. Mix({from, to})
        BY <1>2, <1>4, <2>2, <2>5 DEF MixedByRename
      <3>2. from \in mixed' /\ to \in mixed'
        BY <3>1 DEF Mix
      <3>3. \A d \in Docs : Tidy(d)' => doc'[d] = doc[d]
        BY <2>3, <3>2 DEF Tidy
      <3>4. \A d \in Docs : Tidy(d) /\ doc[d].title \notin mixed' => doc'[d] = doc[d]
        BY <2>2, <2>3, <3>2
      <3>5. {from, to} \in SUBSET Titles
        OBVIOUS
      <3>6. QED
        BY <3>1, <3>3, <3>4, <3>5, FrameStep
    <2>6. CASE to # from /\ alone
      <3>1. mixed' = mixed
        BY <1>2, <2>2, <2>6 DEF Mix, MixedByRename
      <3>2. /\ doc[x].title # to /\ doc[x].title \notin mixed
            /\ Revisions(doc[x].title) = {x} /\ Revisions(to) = {}
        BY <2>2, <2>6
      <3>3. Chained' /\ Live(x)
        BY <2>1, <3>1, <3>2, RenameChained
      <3>4. LiveIn(doc, from) = {doc[x].version}
        BY <2>2, <3>2, <3>3, OneLiveIn DEF HistoryInv, Chained
      <3>5. LiveIn(doc, to) = {}
        BY <3>2 DEF LiveIn, Revisions, Exists
      <3>6. \A d \in Docs : Exists(d) /\ d # x => doc[d].title # from /\ doc[d].title # to
        BY <2>2, <3>2 DEF Revisions
      <3>7. LiveIn(doc', from) = {}
        <4>1. \A d \in Docs : doc'[d] # NoRow => doc'[d].title # from
          BY <2>3, <2>6, <3>6 DEF Exists
        <4>2. QED
          BY <4>1 DEF LiveIn
      <3>8. LiveIn(doc', to) = {doc[x].version}
        <4>1. \A e \in Docs : doc'[e] # NoRow /\ doc'[e].title = to => e = x
          BY <2>3, <3>6 DEF Exists
        <4>2. doc'[x] # NoRow /\ doc'[x].next = None /\ doc'[x].title = to
          BY <2>1, <2>3, <3>3 DEF Live, Exists
        <4>3. LiveIn(doc', to) = {doc'[x].version}
          BY <4>1, <4>2, OnlyLive
        <4>4. QED
          BY <2>3, <4>3
      <3>9. ASSUME NEW s \in Titles, s # from, s # to PROVE LiveIn(doc', s) = LiveIn(doc, s)
        <4>1. \A d \in Docs : (doc'[d] # NoRow /\ doc'[d].next = None /\ doc'[d].title = s) \/
                              (doc[d] # NoRow /\ doc[d].next = None /\ doc[d].title = s) =>
                                doc'[d] = doc[d]
          BY <2>2, <2>3, <3>9
        <4>2. QED
          BY <4>1, SameLive
      <3>10. from \notin mixed
        BY <2>6
      <3>11. LiveVersions[from] = {doc[x].version} /\ LiveVersions'[from] = {}
        BY <3>1, <3>4, <3>7, <3>10, VersionsAre
      <3>12. \A s \in Titles : s # from /\ s # to => LiveVersions'[s] = LiveVersions[s]
        BY <3>1, <3>9, VersionsAre
      <3>13. LiveVersions[to] = {} /\ LiveVersions'[to] = IF to \in mixed THEN {} ELSE {doc[x].version}
        BY <3>1, <3>5, <3>8, VersionsAre
      <3>14. CASE to \in mixed
        <4>1. LiveVersions' = [LiveVersions EXCEPT ![from] = {}]
          BY <3>11, <3>12, <3>13, <3>14, VersionsAre
        <4>2. Promise!Withdraw(from)
          BY <3>1, <3>11, <4>1 DEF Promise!Withdraw
        <4>3. QED
          BY <3>3, <3>10, <4>2 DEF Promise!Next, Promise!Kept
      <3>15. CASE to \notin mixed
        <4>1. LiveVersions' = [LiveVersions EXCEPT ![from] = {}, ![to] = LiveVersions[from]]
          BY <2>6, <3>11, <3>12, <3>13, <3>15, VersionsAre
        <4>2. Promise!Retitle(from, to)
          BY <3>1, <3>13, <4>1 DEF Promise!Retitle
        <4>3. QED
          BY <2>6, <3>3, <3>10, <3>15, <4>2 DEF Promise!Next, Promise!Kept
      <3>16. QED
        BY <3>14, <3>15
    <2>7. QED
      BY <2>4, <2>5, <2>6
  <1>5. QED
    BY <1>3, <1>4

LEMMA DeleteStep ==
  ASSUME HistoryInv, DocInv', NEW r \in Requests, CommitDelete(r), Mix(MixedByDelete(r))
  PROVE  Chained' /\ [Promise!Next]_<<LiveVersions, mixed>>
  <1>1. PICK x \in Docs : x = req[r].doc
    BY DEF HistoryInv, DocInv, TypeOK, Handled, Request, CommitDelete
  <1>2. CASE ~Exists(x)
    <2>1. UNCHANGED doc /\ Mix({})
      BY <1>1, <1>2 DEF CommitDelete, MixedByDelete, Superseded
    <2>2. QED
      BY <2>1, IdleStep
  <1>3. CASE Exists(x)
    <2>1. doc' = Without({x})
      BY <1>1, <1>3 DEF CommitDelete
    <2>2. \A d \in Docs : Exists(d)' <=> Exists(d) /\ d # x
      BY <2>1, WithoutFacts DEF HistoryInv
    <2>3. \A d \in Docs : Exists(d)' =>
            /\ doc'[d].title = doc[d].title
            /\ doc'[d].version = doc[d].version
            /\ doc'[d].next = IF doc[d].next = x THEN None ELSE doc[d].next
            /\ doc[d].next # x => doc'[d] = doc[d]
      BY <2>1, WithoutRows DEF HistoryInv
    <2>4. PICK t \in Titles : t = doc[x].title
      BY <1>3, RowFacts DEF HistoryInv, DocInv, Row
    <2>5. CASE t \in mixed'
      <3>1. ASSUME NEW d \in Docs, Tidy(d), doc[d].title \notin mixed' PROVE doc'[d] = doc[d]
        <4>1. d # x
          BY <2>4, <2>5, <3>1
        <4>2. doc[d].next # x
          BY <2>4, <2>5, <3>1, DocumentsAssumption DEF HistoryInv, Chained, Stepwise
        <4>3. QED
          BY <2>2, <2>3, <3>1, <4>1, <4>2 DEF Tidy
      <3>2. ASSUME NEW d \in Docs, Tidy(d)' PROVE doc'[d] = doc[d]
        <4>1. Tidy(d) /\ doc[d].title \notin mixed'
          BY <2>2, <2>3, <3>2 DEF Tidy, Mix
        <4>2. QED
          BY <3>1, <4>1
      <3>3. MixedByDelete(r) \in SUBSET Titles
        BY <1>1, <2>4 DEF MixedByDelete
      <3>4. QED
        BY <3>1, <3>2, <3>3, FrameStep
    <2>6. CASE t \notin mixed'
      <3>1. /\ mixed' = mixed /\ Tidy(x)
            /\ Superseded(x) => \A e \in Docs : Superseded(e) => doc[e].next # x
        BY <1>1, <1>3, <2>4, <2>6 DEF Mix, MixedByDelete, Tidy
      <3>2. ASSUME NEW s \in Titles, s # t, s \notin mixed
            PROVE  LiveVersions'[s] = LiveVersions[s]
        <4>1. ASSUME NEW d \in Docs, Exists(d), doc[d].title = s
              PROVE  doc'[d] = doc[d]
          <5>1. d # x /\ Tidy(d)
            BY <2>4, <3>2, <4>1 DEF Tidy
          <5>2. doc[d].next # x
            BY <2>4, <3>2, <4>1, <5>1, DocumentsAssumption DEF HistoryInv, Chained, Stepwise
          <5>3. QED
            BY <2>2, <2>3, <4>1, <5>1, <5>2
        <4>2. \A d \in Docs : (doc'[d] # NoRow /\ doc'[d].next = None /\ doc'[d].title = s) \/
                              (doc[d] # NoRow /\ doc[d].next = None /\ doc[d].title = s) =>
                                doc'[d] = doc[d]
          BY <2>2, <2>3, <4>1 DEF Exists
        <4>3. QED
          BY <3>1, <4>2, SameLive, VersionsAre
      <3>3. \A s \in Titles : s \in mixed => LiveVersions'[s] = LiveVersions[s]
        BY <3>1, VersionsAre
      <3>4. t \notin mixed
        BY <2>6, <3>1
      <3>5. CASE Live(x)
        <4>1. Chained'
          BY <2>1, <3>1, <3>5, DeleteLastChained
        <4>2. LiveVersions[t] = {doc[x].version}
          BY <2>4, <3>4, <3>5, OneLiveIn, VersionsAre DEF HistoryInv, Chained
        <4>3. CASE \E p \in Docs : Exists(p) /\ doc[p].next = x
          <5>1. PICK p \in Docs : Exists(p) /\ doc[p].next = x
            BY <4>3
          <5>2. p # x
            BY <3>5, <5>1, DocumentsAssumption DEF Live
          <5>3. CASE doc[p].title \notin mixed
            <6>1. doc[x].title = doc[p].title /\ doc[x].version = doc[p].version + 1
              BY <5>1, <5>3, DocumentsAssumption DEF HistoryInv, Chained, Stepwise, Tidy
            <6>2. /\ doc'[p] # NoRow /\ doc'[p].next = None /\ doc'[p].title = t
                  /\ doc'[p].version = doc[p].version
              BY <2>2, <2>3, <2>4, <5>1, <5>2, <6>1 DEF Exists
            <6>3. \A e \in Docs : doc'[e] # NoRow /\ doc'[e].next = None /\ doc'[e].title = t => e = p
              BY <2>6, <4>1, <6>2 DEF Chained, OneLive, Live, Superseded, Exists
            <6>4. LiveIn(doc', t) = {doc[p].version}
              BY <6>2, <6>3, OnlyLive
            <6>5. LiveVersions'[t] = {doc[p].version}
              BY <2>6, <6>4, VersionsAre
            <6>6. doc[p].version \in Nat /\ doc[p].version >= 1
              BY <5>1, RowFacts DEF HistoryInv, DocInv, Counted
            <6>7. doc[x].version > 1 /\ doc[x].version - 1 = doc[p].version
              BY <6>1, <6>6
            <6>8. LiveVersions' = [LiveVersions EXCEPT ![t] = {doc[x].version - 1}]
              BY <3>2, <3>3, <6>5, <6>7, VersionsAre
            <6>9. Promise!Withdraw(t)
              BY <3>1, <4>2, <6>7, <6>8 DEF Promise!Withdraw
            <6>10. QED
              BY <3>4, <4>1, <6>9 DEF Promise!Next, Promise!Kept
          <5>4. CASE doc[p].title \in mixed
            <6>1. \A e \in Docs : Exists(e) /\ e # x /\ doc[e].title = t => Superseded(e)
              BY <2>4, <3>4, <3>5 DEF HistoryInv, Chained, OneLive
            <6>2. \A e \in Docs : Superseded(e) /\ doc[e].next = x => e = p
              BY <5>1, DocumentsAssumption DEF HistoryInv, DocInv, LineageForward, Superseded
            <6>3. \A e \in Docs : doc'[e] # NoRow /\ doc'[e].title = t => doc'[e].next # None
              BY <2>2, <2>3, <3>4, <5>4, <6>1, <6>2 DEF Superseded, Exists
            <6>4. LiveIn(doc', t) = {}
              BY <6>3 DEF LiveIn
            <6>5. LiveVersions' = [LiveVersions EXCEPT ![t] = {}]
              BY <3>2, <3>3, <6>4, VersionsAre
            <6>6. Promise!Withdraw(t)
              BY <3>1, <4>2, <6>5 DEF Promise!Withdraw
            <6>7. QED
              BY <3>4, <4>1, <6>6 DEF Promise!Next, Promise!Kept
          <5>5. QED
            BY <5>3, <5>4
        <4>4. CASE ~\E p \in Docs : Exists(p) /\ doc[p].next = x
          <5>1. \A e \in Docs : Exists(e) /\ e # x /\ doc[e].title = t => Superseded(e)
            BY <2>4, <3>4, <3>5 DEF HistoryInv, Chained, OneLive
          <5>2. \A e \in Docs : doc'[e] # NoRow /\ doc'[e].title = t => doc'[e].next # None
            BY <2>2, <2>3, <4>4, <5>1 DEF Superseded, Exists
          <5>3. LiveIn(doc', t) = {}
            BY <5>2 DEF LiveIn
          <5>4. LiveVersions' = [LiveVersions EXCEPT ![t] = {}]
            BY <3>2, <3>3, <5>3, VersionsAre
          <5>5. Promise!Withdraw(t)
            BY <3>1, <4>2, <5>4 DEF Promise!Withdraw
          <5>6. QED
            BY <3>4, <4>1, <5>5 DEF Promise!Next, Promise!Kept
        <4>5. QED
          BY <4>3, <4>4
      <3>6. CASE Superseded(x)
        <4>1. Chained'
          BY <2>1, <3>1, <3>6, DeleteFirstChained
        <4>2. \A d \in Docs : Exists(d) => doc[d].next # x
          BY <3>1, <3>6, DocumentsAssumption DEF Superseded
        <4>3. \A d \in Docs : (doc'[d] # NoRow /\ doc'[d].next = None /\ doc'[d].title = t) \/
                              (doc[d] # NoRow /\ doc[d].next = None /\ doc[d].title = t) =>
                                doc'[d] = doc[d]
          BY <2>2, <2>3, <3>6, <4>2 DEF Superseded, Exists
        <4>4. LiveVersions'[t] = LiveVersions[t]
          BY <3>1, <4>3, SameLive, VersionsAre
        <4>5. UNCHANGED LiveVersions
          BY <3>2, <3>3, <4>4, VersionsAre
        <4>6. QED
          BY <3>1, <4>1, <4>5
      <3>7. QED
        BY <1>3, <3>5, <3>6 DEF Live, Superseded
    <2>7. QED
      BY <2>5, <2>6
  <1>4. QED
    BY <1>2, <1>3

LEMMA MachineStep ==
  ASSUME HistoryInv, DeleteMachine, Mix({})
  PROVE  Chained' /\ Promise!Next
  <1> DEFINE gone == {d \in Docs : Exists(d)}
  <1>1. doc' = Without(gone) /\ gone \in SUBSET Docs /\ mixed' = mixed
    BY DEF DeleteMachine, Mix
  <1>2. \A d \in Docs : Exists(d) => d \in gone
    OBVIOUS
  <1> HIDE DEF gone
  <1>3. \A d \in Docs : ~Exists(d)'
    BY <1>1, <1>2, WithoutFacts DEF HistoryInv
  <1>4. Chained'
    BY <1>3 DEF Chained, Stepwise, NoGap, Distinct, SomeLive, OneLive, Tidy, Live
  <1>5. \A t : LiveIn(doc', t) = {}
    BY <1>3 DEF LiveIn, Exists
  <1>6. LiveVersions' = [t \in Titles |-> {}]
    BY <1>5, VersionsAre
  <1>7. QED
    BY <1>1, <1>4, <1>6 DEF Promise!Next, Promise!Clear

-----------------------------------------------------------------------------
(***************************************************************************)
(* The theorems about the history.                                         *)
(***************************************************************************)

LEMMA FirstKeeps ==
  ASSUME HistoryInv, [Next]_vars
  PROVE  FirstIsOne'
  <1>1. ASSUME NEW u \in Uploads, NEW t, Advance(u, t),
               t.pc = "stored" /\ t.prev = None => t.version = 1
        PROVE  FirstIsOne'
    BY <1>1 DEF HistoryInv, FirstIsOne, DocInv, TypeOK, Advance
  <1>2. ASSUME NEW u \in Uploads, Ingest(u) PROVE FirstIsOne'
    <2>1. task[u] \in Task
      BY DEF HistoryInv, DocInv, TypeOK
    <2>2. ASSUME NEW t \in Titles, Upload(u, t) PROVE FirstIsOne'
      <3> DEFINE k == [NoTask EXCEPT !.pc = "queued", !.title = t]
      <3>1. k.pc = "queued" /\ Advance(u, k)
        BY <2>2 DEF Upload, NoTask
      <3> HIDE DEF k
      <3>2. QED
        BY <1>1, <3>1
    <2>3. ASSUME NEW d \in Docs, Start(u, d) PROVE FirstIsOne'
      <3> DEFINE k == [task[u] EXCEPT !.pc = "reading", !.doc = d]
      <3>1. k.pc = "reading" /\ Advance(u, k)
        BY <2>1, <2>3 DEF Start, Task
      <3> HIDE DEF k
      <3>2. QED
        BY <1>1, <3>1
    <2>4. ASSUME ReadLatest(u) PROVE FirstIsOne'
      <3>1. PICK prev :
              Advance(u, [task[u] EXCEPT !.pc = "stored", !.prev = prev, !.version = NextVersion(prev)])
        BY <2>4 DEF ReadLatest
      <3> DEFINE k == [task[u] EXCEPT !.pc = "stored", !.prev = prev, !.version = NextVersion(prev)]
      <3>2. k.prev = prev /\ k.version = NextVersion(prev)
        BY <2>1 DEF Task
      <3>3. k.prev = None => k.version = 1
        BY <3>2 DEF NextVersion
      <3>4. Advance(u, k)
        BY <3>1
      <3> HIDE DEF k
      <3>5. QED
        BY <1>1, <3>3, <3>4
    <2>5. ASSUME NEW pc \in {"captioned", "committed", "success", "failure", "dead"},
                 Advance(u, [task[u] EXCEPT !.pc = pc])
          PROVE  FirstIsOne'
      <3> DEFINE k == [task[u] EXCEPT !.pc = pc]
      <3>1. k.pc # "stored" /\ Advance(u, k)
        BY <2>1, <2>5 DEF Task
      <3> HIDE DEF k
      <3>2. QED
        BY <1>1, <3>1
    <2>6. QED
      BY <1>2, <2>2, <2>3, <2>4, <2>5 DEF Ingest, StoreFigures, CommitIngest, Succeed, Fail, Die
  <1>3. ASSUME UNCHANGED task PROVE FirstIsOne'
    BY <1>3 DEF HistoryInv, FirstIsOne
  <1>4. ASSUME NEW r \in Requests, Serve(r) PROVE UNCHANGED task
    BY <1>4 DEF Serve, LoadForDelete, LoadForRename, CommitRename, CommitDelete, CleanUp, EndRequest
  <1>5. CASE DeleteMachine \/ UNCHANGED vars
    BY <1>3, <1>5 DEF DeleteMachine, vars
  <1>6. QED
    BY <1>2, <1>3, <1>4, <1>5 DEF Next

LEMMA CountedKeeps ==
  ASSUME HistoryInv, [Next]_vars
  PROVE  Counted'
  <1>1. ASSUME UNCHANGED doc PROVE Counted'
    BY <1>1 DEF HistoryInv, Counted, Exists
  <1>2. ASSUME NEW u \in Uploads, CommitIngest(u) PROVE Counted'
    <2> DEFINE k == task[u]
    <2>1. /\ k.prev \in Docs \cup {None}
          /\ k.prev # None => Exists(k.prev) /\ k.version = doc[k.prev].version + 1
          /\ doc'[k.doc].version = k.version
          /\ \A d \in Docs : d # k.doc => doc'[d].version = doc[d].version
          /\ \A d \in Docs : Exists(d)' <=> Exists(d) \/ d = k.doc
      BY <1>2, IngestWrites DEF HistoryInv
    <2>2. k.prev = None => k.version = 1
      BY <1>2 DEF HistoryInv, FirstIsOne, CommitIngest
    <2> HIDE DEF k
    <2>3. k.prev # None => doc[k.prev].version \in Nat
      BY <2>1, RowFacts DEF HistoryInv, DocInv
    <2>4. k.version >= 1
      BY <2>1, <2>2, <2>3
    <2>5. QED
      BY <2>1, <2>4 DEF HistoryInv, Counted
  <1>3. ASSUME NEW gone \in SUBSET Docs, doc' = Without(gone) PROVE Counted'
    BY <1>3, WithoutRows DEF HistoryInv, Counted
  <1>4. ASSUME NEW r \in Requests, CommitRename(r) PROVE Counted'
    <2>1. req[r].doc \in Docs /\ req[r].title \in Titles
      BY <1>4 DEF HistoryInv, DocInv, TypeOK, Handled, Request, CommitRename
    <2>2. PICK x \in Docs, to \in Titles : doc' = doc \/ (Exists(x) /\ doc' = Renamed(x, to))
      BY <1>4, <2>1 DEF CommitRename, Renamed
    <2>3. QED
      BY <1>1, <2>2, RenameRows DEF HistoryInv, Counted
  <1>5. ASSUME NEW r \in Requests, CommitDelete(r) PROVE Counted'
    <2>1. req[r].doc \in Docs
      BY <1>5 DEF HistoryInv, DocInv, TypeOK, Handled, Request, CommitDelete
    <2>2. QED
      BY <1>1, <1>3, <1>5, <2>1 DEF CommitDelete
  <1>6. ASSUME NEW u \in Uploads, Ingest(u) PROVE Counted'
    BY <1>1, <1>2, <1>6 DEF Ingest, Upload, Start, StoreFigures, ReadLatest, Succeed, Fail, Die
  <1>7. ASSUME NEW r \in Requests, Serve(r) PROVE Counted'
    BY <1>1, <1>4, <1>5, <1>7 DEF Serve, LoadForDelete, LoadForRename, Loads, CleanUp, EndRequest
  <1>8. CASE DeleteMachine
    BY <1>3, <1>8 DEF DeleteMachine
  <1>9. CASE UNCHANGED vars
    BY <1>1, <1>9 DEF vars
  <1>10. QED
    BY <1>6, <1>7, <1>8, <1>9 DEF Next

LEMMA HistoryInit == HInit => HistoryInv /\ Promise!Init
  <1> SUFFICES ASSUME HInit PROVE HistoryInv /\ Promise!Init
    OBVIOUS
  <1>1. DocInv /\ mixed = {}
    BY DocInit DEF HInit
  <1>2. \A d \in Docs : ~Exists(d)
    BY DEF HInit, Init, Exists
  <1>3. FirstIsOne
    BY DEF HInit, Init, FirstIsOne, NoTask
  <1>4. Counted /\ Chained
    BY <1>2 DEF Counted, Chained, Stepwise, NoGap, Distinct, SomeLive, OneLive, Tidy, Live
  <1>5. \A t : LiveIn(doc, t) = {}
    BY <1>2 DEF LiveIn, Exists
  <1>6. LiveVersions = [t \in Titles |-> {}]
    BY <1>5, VersionsAre
  <1>7. QED
    BY <1>1, <1>3, <1>4, <1>6 DEF HistoryInv, Promise!Init

\* Every step keeps the chains, and is one of Manuals or none.
LEMMA HistoryStep ==
  ASSUME HistoryInv, [HNext]_hvars
  PROVE  HistoryInv' /\ [Promise!Next]_<<LiveVersions, mixed>>
  <1>1. [Next]_vars
    BY DEF HNext, HIngest, HServe, hvars, Next, Ingest, Serve
  <1>2. DocInv' /\ FirstIsOne' /\ Counted'
    BY <1>1, DocStep, FirstKeeps, CountedKeeps DEF HistoryInv
  <1>3. ASSUME NEW u \in Uploads, HIngest(u) PROVE Chained' /\ Promise!Next
    <2>1. CASE CommitIngest(u) /\ Mix(MixedByIngest(u))
      BY <1>2, <2>1, CommitStep
    <2>2. CASE UNCHANGED doc /\ Mix({})
      BY <1>2, <2>2, IdleStep
    <2>3. QED
      BY <1>3, <2>1, <2>2 DEF HIngest, Upload, Start, StoreFigures, ReadLatest, Succeed, Fail, Die
  <1>4. ASSUME NEW r \in Requests, HServe(r)
        PROVE  Chained' /\ [Promise!Next]_<<LiveVersions, mixed>>
    <2>1. CASE CommitRename(r) /\ Mix(MixedByRename(r))
      BY <1>2, <2>1, RenameStep
    <2>2. CASE CommitDelete(r) /\ Mix(MixedByDelete(r))
      BY <1>2, <2>2, DeleteStep
    <2>3. CASE UNCHANGED doc /\ Mix({})
      BY <1>2, <2>3, IdleStep
    <2>4. QED
      BY <1>4, <2>1, <2>2, <2>3 DEF HServe, LoadForDelete, LoadForRename, CleanUp, EndRequest
  <1>5. CASE DeleteMachine /\ Mix({})
    BY <1>5, MachineStep, <1>2 DEF HistoryInv
  <1>6. CASE UNCHANGED hvars
    <2>1. UNCHANGED <<doc, mixed>>
      BY <1>6 DEF hvars, vars
    <2>2. mixed' = mixed \cup {}
      BY <2>1
    <2>3. Chained'
      BY <1>2, <2>1, ChainedFrame
    <2>4. UNCHANGED LiveVersions
      BY <2>1, VersionsAre
    <2>5. QED
      BY <1>2, <2>1, <2>3, <2>4 DEF HistoryInv
  <1>7. QED
    BY <1>2, <1>3, <1>4, <1>5, <1>6 DEF HNext, HistoryInv

\* Of a title that no overlap, rename or deletion has mixed up, the live revision
\* is the one with the highest version, for any number of documents, titles,
\* tasks and requests, and whatever fails (FR-9).
THEOREM OneRevisionIsLive == HSpec => []OneLive
  <1>1. HistoryInv /\ [HNext]_hvars => HistoryInv'
    BY HistoryStep
  <1>2. HInit => HistoryInv
    BY HistoryInit
  <1>3. HistoryInv => OneLive
    BY DEF HistoryInv, Chained
  <1>4. QED
    BY <1>1, <1>2, <1>3, PTL DEF HSpec

\* Ingestion, renaming and deletion implement Manuals: what answers may cite of a
\* title changes from one revision to the next, or back to the one before, until
\* the title is forfeited.
THEOREM IngestionImplementsManuals == HSpec => KeepsPromise
  <1>1. HInit => HistoryInv /\ Promise!Init
    BY HistoryInit
  <1>2. HistoryInv /\ [HNext]_hvars => HistoryInv' /\ [Promise!Next]_<<LiveVersions, mixed>>
    BY HistoryStep
  <1>3. QED
    BY <1>1, <1>2, PTL DEF HSpec, KeepsPromise, Promise!Spec

=============================================================================
