------------------------ MODULE CurationTrailProofs ------------------------
(***************************************************************************)
(* Proofs about Curation: what the audit trail and the index say of a fix, *)
(* for every interleaving of requests.                                     *)
(***************************************************************************)
EXTENDS CurationProofs

-----------------------------------------------------------------------------
(***************************************************************************)
(* What a step does to one fix: its row, its part of the trail and its     *)
(* chunks.                                                                 *)
(***************************************************************************)

\* Nothing is logged of f but what says nothing of its state.
TrailStands(f) ==
  /\ Moves(f)' = Moves(f) /\ Approvals(f)' = Approvals(f)
  /\ \A i \in Moves(f) : audit'[i] = audit[i]

\* A move of f is logged, after all the others.
TrailMoves(f, actor, action, from, to) ==
  \E n \in Nat :
    /\ Moves(f)' = Moves(f) \cup {n}
    /\ \A i \in Moves(f) : i \in Nat /\ i < n /\ audit'[i] = audit[i]
    /\ audit'[n].actor = actor /\ audit'[n].action = action
    /\ audit'[n].from = from /\ audit'[n].to = to
    /\ n \notin Approvals(f)
    /\ Approvals(f)' = IF action = "approve" THEN Approvals(f) \cup {n} ELSE Approvals(f)

\* Only the report of f may change, and its reviewer when that user goes.
Untouched(f) ==
  /\ fix'[f].state = fix[f].state /\ fix'[f].text = fix[f].text
  /\ fix'[f].reviewer = IF fix[f].reviewer \in accounts \ accounts' THEN None
                        ELSE fix[f].reviewer
  /\ ChunksOf({f})' = ChunksOf({f})
  /\ TrailStands(f)

OthersUntouched(f) == \A g \in Fixes \ {f} : Untouched(g)

Quiet == accounts' \subseteq accounts /\ \A f \in Fixes : Untouched(f)

Opens(f) ==
  /\ fix[f].state = "absent"
  /\ fix'[f].state = "pending_review" /\ fix'[f].reviewer = None /\ fix'[f].text \in Texts
  /\ ChunksOf({f})' = ChunksOf({f})
  /\ \E actor, action, from :
       action # "approve" /\ TrailMoves(f, actor, action, from, "pending_review")
  /\ accounts' = accounts
  /\ OthersUntouched(f)

\* The text a decision or an edit leaves in the object in memory.
NewText(q, f) == IF q.text = None THEN q.seen[f].text ELSE q.text

\* The request q commits a decision on f.
Decides(r, f, q) ==
  /\ q = req[r] /\ f \in q.targets /\ q.op \in Transitions
  /\ q.pc = IF q.op = "retire" THEN "purged" ELSE "loaded"
  /\ Exists(f) /\ \A p \in Requests \ {r} : ~HoldsRow(p, f)
  /\ fix'[f].state = Written(fix[f].state, q.seen[f].state, Target[q.op])
  /\ fix'[f].text = Written(fix[f].text, q.seen[f].text, NewText(q, f))
  /\ fix'[f].reviewer = Written(fix[f].reviewer, q.seen[f].reviewer, q.actor)
  /\ q.actor # q.seen[f].reviewer => q.actor \in accounts
  /\ \E action :
       /\ action = "approve" <=> q.op = "approve"
       /\ TrailMoves(f, q.actor, action, q.seen[f].state, Target[q.op])
  /\ q.op = "approve" => \E n : ChunksOf({f})' = ChunksOf({f}) \cup
                                  {[fix |-> f, text |-> NewText(q, f), id |-> n]}
  /\ q.op = "retire" => ChunksOf({f})' = ChunksOf({f}) \ q.snap
  /\ q.op \in {"reject", "unsafe"} => ChunksOf({f})' = ChunksOf({f})
  /\ accounts' = accounts
  /\ OthersUntouched(f)

\* The request q commits an edit of f.
Edits(r, f, q) ==
  /\ q = req[r] /\ f \in q.targets /\ q.op = "edit"
  /\ Exists(f)
  /\ fix'[f].state = fix[f].state /\ fix'[f].reviewer = fix[f].reviewer
  /\ fix'[f].text = Written(fix[f].text, q.seen[f].text, NewText(q, f))
  /\ TrailStands(f) /\ audit' # audit
  /\ \/ /\ q.pc = "loaded" /\ (q.text = None \/ q.seen[f].state # "approved")
        /\ \A p \in Requests \ {r} : ~HoldsRow(p, f)
        /\ ChunksOf({f})' = ChunksOf({f})
     \/ /\ q.pc = "reindexing"
        /\ \E n : ChunksOf({f})' = (ChunksOf({f}) \ q.snap) \cup
                                      {[fix |-> f, text |-> NewText(q, f), id |-> n]}
  /\ accounts' = accounts
  /\ OthersUntouched(f)

\* Fixes go, that nobody has locked.
Removes(fs) ==
  /\ \A f \in fs : /\ Exists(f) /\ fix'[f].state = "deleted" /\ fix'[f].text = None
                   /\ ChunksOf({f})' = {} /\ TrailStands(f)
                   /\ \A r \in Requests : ~HoldsRow(r, f)
  /\ accounts' \subseteq accounts
  /\ \A g \in Fixes \ fs : Untouched(g)

(***************************************************************************)
(* What a step does to a request.                                          *)
(***************************************************************************)

OthersWait(r) == \A p \in Requests \ {r} : req'[p] = req[p]

Ends(r) == req'[r] = Idle("done") /\ OthersWait(r)

\* No decision or edit of r is committed.
CommitsNone(r) == audit' = audit \/ req[r].op \notin CuratorOps

\* The operation op may load f.
Loadable(op, f) ==
  /\ Exists(f)
  /\ op \in Transitions => CanTransition(fix[f].state, Target[op])

Begins(r, q) ==
  /\ req[r].pc = "new" /\ req'[r] = q /\ OthersWait(r)
  /\ q \in Request /\ q.pc = "loaded" /\ q.snap = {}
  /\ q.op \in Transitions \ {"approve"} => q.text = None
  /\ \A f \in q.targets : Loadable(q.op, f) /\ q.seen[f] = fix[f]

\* A DELETE of chunks begins or ends.
GoesOn(r, p, q) ==
  /\ p = req[r] /\ req'[r] = q /\ OthersWait(r)
  /\ q \in Request /\ q.op = p.op /\ q.targets = p.targets /\ q.actor = p.actor
  /\ q.text = p.text /\ q.seen = p.seen
  /\ \/ p.pc = "loaded" /\ q.pc = "purging" /\ q.snap = ChunksOf(p.targets)
     \/ p.pc = "purging" /\ q.pc = "purged" /\ q.snap = p.snap \cap chunks
     \/ /\ p.pc = "loaded" /\ q.pc = "editing" /\ q.snap \subseteq ChunksOf(p.targets)
        /\ \A f \in p.targets : q.snap = ChunksOf({f}) /\ RowsFree(r, {f})
     \/ p.pc = "editing" /\ q.pc = "reindexing" /\ q.snap = p.snap \cap chunks

\* Everything a step of the curation service may amount to.
Effect ==
  \/ UNCHANGED req /\ \/ Quiet
                      \/ \E f \in Fixes : Opens(f)
                      \/ \E fs \in SUBSET Fixes : Removes(fs)
  \/ \E r \in Requests : \/ Quiet /\ \E q : Begins(r, q)
                         \/ Quiet /\ \E p, q : GoesOn(r, p, q)
                         \/ Ends(r) /\ \/ Quiet /\ CommitsNone(r)
                                       \/ /\ CommitsNone(r)
                                          /\ \E fs \in SUBSET Fixes : Removes(fs)
                                       \/ \E f \in Fixes : \E q : Decides(r, f, q)
                                       \/ \E f \in Fixes : \E q : Edits(r, f, q)

-----------------------------------------------------------------------------
(***************************************************************************)
(* The trail.                                                              *)
(***************************************************************************)

\* A list after another.
LEMMA Concatenated ==
  ASSUME NEW s \in Seq(Event), NEW t \in Seq(Event)
  PROVE  /\ s \o t \in Seq(Event) /\ Len(s) \in Nat /\ Len(t) \in Nat
         /\ Len(s \o t) = Len(s) + Len(t)
         /\ \A i \in 1 .. Len(s) : (s \o t)[i] = s[i]
         /\ \A i \in 1 .. Len(t) : (s \o t)[Len(s) + i] = t[i]
  OBVIOUS

LEMMA SameTrail ==
  ASSUME UNCHANGED audit, NEW f PROVE TrailStands(f)
  BY DEF TrailStands, Moves, Approvals

\* One more event.
LEMMA LogTrail ==
  ASSUME TypeOK, NEW f \in Fixes, NEW actor \in Users \cup {None},
         NEW action \in {"submit", "create", "edit", "approve", "rejected", "unsafe",
                         "retire", "delete", "prescreen"},
         NEW from \in States \cup {None}, NEW to \in States \cup {None},
         NEW text \in Texts \cup {None}, Log(f, actor, action, from, to, text)
  PROVE  /\ \A g \in Fixes \ {f} : TrailStands(g)
         /\ to = None /\ action # "approve" => TrailStands(f)
         /\ to # None => TrailMoves(f, actor, action, from, to)
  <1>1. PICK e : e = [ fix |-> f, actor |-> actor, action |-> action,
                       from |-> from, to |-> to, text |-> text ]
    OBVIOUS
  <1>2. /\ e \in Event
        /\ e.fix = f /\ e.actor = actor /\ e.action = action /\ e.from = from /\ e.to = to
    BY <1>1 DEF Event
  <1>3. audit \in Seq(Event) /\ audit' = Append(audit, e)
    BY <1>1 DEF TypeOK, Log
  <1>4. PICK n : n = Len(audit) + 1
    OBVIOUS
  <1>5. /\ Len(audit) \in Nat /\ n \in Nat
        /\ DOMAIN audit = 1 .. Len(audit) /\ DOMAIN audit' = 1 .. n
        /\ \A i \in 1 .. Len(audit) : audit'[i] = audit[i]
        /\ audit'[n] = e
    BY <1>2, <1>3, <1>4
  <1>6. DOMAIN audit' = DOMAIN audit \cup {n} /\ n \notin DOMAIN audit
    BY <1>4, <1>5
  <1>7. \A g \in Fixes :
          /\ Moves(g) \subseteq DOMAIN audit /\ Approvals(g) \subseteq DOMAIN audit
          /\ Moves(g)' = IF g = f /\ to # None THEN Moves(g) \cup {n} ELSE Moves(g)
          /\ Approvals(g)' = IF g = f /\ action = "approve" THEN Approvals(g) \cup {n}
                             ELSE Approvals(g)
    BY <1>2, <1>5, <1>6 DEF Moves, Approvals
  <1>8. \A i \in DOMAIN audit : i \in Nat /\ i < n /\ audit'[i] = audit[i]
    BY <1>4, <1>5
  <1>9. \A g \in Fixes \ {f} : TrailStands(g)
    BY <1>7, <1>8 DEF TrailStands
  <1>10. ASSUME to = None, action # "approve" PROVE TrailStands(f)
    BY <1>7, <1>8, <1>10 DEF TrailStands
  <1>11. ASSUME to # None PROVE TrailMoves(f, actor, action, from, to)
    <2>1. Moves(f)' = Moves(f) \cup {n}
      BY <1>7, <1>11
    <2>2. Approvals(f)' = IF action = "approve" THEN Approvals(f) \cup {n} ELSE Approvals(f)
      BY <1>7
    <2>3. n \notin Approvals(f) /\ \A i \in Moves(f) : i \in Nat /\ i < n /\ audit'[i] = audit[i]
      BY <1>6, <1>7, <1>8
    <2>4. QED
      BY <1>2, <1>5, <2>1, <2>2, <2>3 DEF TrailMoves
  <1>12. QED
    BY <1>9, <1>10, <1>11

\* The prescreen events of one flush.
LEMMA PrescreensTrail ==
  ASSUME TypeOK, NEW fs \in SUBSET Fixes, NEW o \in Orders(fs),
         audit' = audit \o [i \in DOMAIN o |-> Prescreened(o[i])]
  PROVE  \A g \in Fixes : TrailStands(g)
  <1>1. PICK evs : evs = [i \in DOMAIN o |-> Prescreened(o[i])]
    OBVIOUS
  <1>2. Cardinality(fs) \in Nat
    BY FS_Subset, FS_CardinalityType, CurationAssumption
  <1>3. \A f \in fs : /\ Prescreened(f) \in Event /\ Prescreened(f).to = None
                      /\ Prescreened(f).action # "approve"
    BY DEF Prescreened, Event
  <1>4. DOMAIN o = 1 .. Cardinality(fs) /\ \A i \in DOMAIN o : o[i] \in fs
    BY DEF Orders
  <1>5. /\ evs \in [1 .. Cardinality(fs) -> Event]
        /\ \A i \in 1 .. Cardinality(fs) : evs[i].to = None /\ evs[i].action # "approve"
    BY <1>1, <1>3, <1>4
  <1>6. evs \in Seq(Event) /\ Len(evs) = Cardinality(fs)
    BY <1>2, <1>5
  <1>7. audit \in Seq(Event) /\ audit' = audit \o evs
    BY <1>1 DEF TypeOK
  <1>8. /\ Len(audit) \in Nat
        /\ DOMAIN audit = 1 .. Len(audit) /\ DOMAIN audit' = 1 .. (Len(audit) + Len(evs))
        /\ \A i \in 1 .. Len(audit) : audit'[i] = audit[i]
        /\ \A i \in 1 .. Len(evs) : audit'[Len(audit) + i] = evs[i]
    <2>1. /\ audit \o evs \in Seq(Event) /\ Len(audit) \in Nat /\ Len(evs) \in Nat
          /\ Len(audit \o evs) = Len(audit) + Len(evs)
          /\ \A i \in 1 .. Len(audit) : (audit \o evs)[i] = audit[i]
          /\ \A i \in 1 .. Len(evs) : (audit \o evs)[Len(audit) + i] = evs[i]
      BY <1>6, <1>7, Concatenated, Zenon
    <2>2. PICK t : t = audit \o evs
      OBVIOUS
    <2>3. /\ t \in Seq(Event) /\ Len(t) = Len(audit) + Len(evs)
          /\ \A i \in 1 .. Len(audit) : t[i] = audit[i]
          /\ \A i \in 1 .. Len(evs) : t[Len(audit) + i] = evs[i]
      BY <2>1, <2>2
    <2>4. DOMAIN audit = 1 .. Len(audit) /\ DOMAIN t = 1 .. (Len(audit) + Len(evs))
      BY <1>7, <2>3
    <2>5. QED
      BY <1>7, <2>1, <2>2, <2>3, <2>4
  <1>9. ASSUME NEW i \in DOMAIN audit', i \notin DOMAIN audit
        PROVE  audit'[i].to = None /\ audit'[i].action # "approve"
    <2>1. i - Len(audit) \in 1 .. Len(evs) /\ i = Len(audit) + (i - Len(audit))
      BY <1>2, <1>6, <1>8, <1>9
    <2>2. audit'[i] = evs[i - Len(audit)]
      BY <1>8, <2>1
    <2>3. QED
      BY <1>5, <1>6, <2>1, <2>2
  <1>10. DOMAIN audit \subseteq DOMAIN audit'
    BY <1>2, <1>6, <1>8
  <1>11. ASSUME NEW g \in Fixes PROVE TrailStands(g)
    BY <1>8, <1>9, <1>10 DEF TrailStands, Moves, Approvals
  <1>12. QED
    BY <1>11

-----------------------------------------------------------------------------
(***************************************************************************)
(* Every step has one of the effects.  Of the past it takes what a request *)
(* has kept of what it loaded.                                             *)
(***************************************************************************)

LoadedWell(q) ==
  /\ q.op \in Transitions \ {"approve"} => q.text = None
  /\ \A c \in q.snap : c.fix \in q.targets
  /\ \A f \in q.targets :
       /\ q.op \in Transitions => CanTransition(q.seen[f].state, Target[q.op])
       /\ q.seen[f].state = "pending_review" => q.seen[f].reviewer = None

\* Nothing is committed.
LEMMA Rests ==
  ASSUME UNCHANGED <<fix, chunks, audit, accounts>> PROVE Quiet
  <1>1. \A f \in Fixes : ChunksOf({f})' = ChunksOf({f})
    BY DEF ChunksOf
  <1>2. QED
    BY <1>1, SameTrail DEF Quiet, Untouched

\* A request ends.
LEMMA Finishes ==
  ASSUME TypeOK, NEW r \in Requests, Finish(r) PROVE Ends(r)
  BY DEF TypeOK, Finish, Ends, OthersWait

\* One row is written, and only chunks of that fix come or go.
LEMMA OthersStand ==
  ASSUME NEW f \in Fixes, \A g \in Fixes \ {f} : fix'[g] = fix[g] /\ TrailStands(g),
         \A c \in chunks \cup chunks' : c.fix # f => (c \in chunks <=> c \in chunks'),
         accounts' = accounts
  PROVE  OthersUntouched(f)
  <1>1. \A g \in Fixes \ {f} : ChunksOf({g})' = ChunksOf({g})
    BY DEF ChunksOf
  <1>2. QED
    BY <1>1 DEF OthersUntouched, Untouched

\* A fix enters review.
LEMMA OpensEffect ==
  ASSUME TypeOK, NEW f \in Fixes, NEW u \in Users, NEW t \in Texts,
         Submit(f, u, t) \/ Create(f, u, t)
  PROVE  Opens(f)
  <1>1. "submitted" \in States /\ "pending_review" \in States
    BY DEF States
  <1>2. /\ fix[f].state = "absent" /\ fix' = [fix EXCEPT ![f] = Pending(u, t)]
        /\ UNCHANGED <<chunks, accounts, req>>
    BY DEF Submit, Create
  <1>3. /\ \A g \in Fixes \ {f} : fix'[g] = fix[g]
        /\ fix'[f] = Pending(u, t)
    BY <1>2 DEF TypeOK
  <1>4. None # "pending_review"
    BY <1>1, CurationAssumption
  <1>5. /\ \A g \in Fixes \ {f} : TrailStands(g)
        /\ \E actor, action, from :
             action # "approve" /\ TrailMoves(f, actor, action, from, "pending_review")
    <2>1. CASE Submit(f, u, t)
      <3>1. Log(f, u, "submit", "submitted", "pending_review", None)
        BY <2>1 DEF Submit
      <3>2. /\ \A g \in Fixes \ {f} : TrailStands(g)
            /\ TrailMoves(f, u, "submit", "submitted", "pending_review")
        BY <1>1, <1>4, <3>1, LogTrail
      <3>3. QED
        BY <3>2
    <2>2. CASE Create(f, u, t)
      <3>1. Log(f, u, "create", None, "pending_review", t)
        BY <2>2 DEF Create
      <3>2. /\ \A g \in Fixes \ {f} : TrailStands(g)
            /\ TrailMoves(f, u, "create", None, "pending_review")
        BY <1>1, <1>4, <3>1, LogTrail
      <3>3. QED
        BY <3>2
    <2>3. QED
      BY <2>1, <2>2
  <1>6. OthersUntouched(f)
    BY <1>2, <1>3, <1>5, OthersStand
  <1>7. ChunksOf({f})' = ChunksOf({f})
    BY <1>2 DEF ChunksOf
  <1>8. QED
    BY <1>2, <1>3, <1>5, <1>6, <1>7 DEF Opens, Pending

\* A request arrives, or is refused.
LEMMA ArriveEffect ==
  ASSUME IndexInv, NEW r \in Requests, Arrive(r)
  PROVE  Quiet /\ ((Ends(r) /\ CommitsNone(r)) \/ \E q : Begins(r, q))
  <1>1. ASSUME NEW op \in CuratorOps \cup {"delete", "queue"}, NEW fs \in SUBSET Fixes,
               NEW u \in Users \cup {None}, NEW t \in Texts \cup {None},
               req[r].pc = "new", req' = [req EXCEPT ![r] = Begun(op, fs, u, t)],
               op \in Transitions \ {"approve"} => t = None,
               \A f \in fs : Loadable(op, f)
        PROVE  \E q : Begins(r, q)
    <2>1. PICK q \in Request : q = Begun(op, fs, u, t)
      BY BegunType DEF IndexInv
    <2>2. /\ q.op = op /\ q.targets = fs /\ q.text = t /\ q.pc = "loaded" /\ q.snap = {}
          /\ \A f \in fs : q.seen[f] = fix[f]
      BY <2>1 DEF Begun
    <2>3. req'[r] = q /\ OthersWait(r)
      BY <1>1, <2>1 DEF IndexInv, TypeOK, OthersWait
    <2>4. Begins(r, q)
      BY <1>1, <2>2, <2>3 DEF Begins
    <2>5. QED
      BY <2>4
  <1>2. ASSUME NEW f \in Fixes, NEW u \in Users, NEW op \in CuratorOps \cup {"delete"},
               NEW t \in Texts \cup {None},
               req[r].pc = "new", req' = [req EXCEPT ![r] = Begun(op, {f}, u, t)],
               op \in Transitions \ {"approve"} => t = None,
               Loadable(op, f)
        PROVE  \E q : Begins(r, q)
    <2>1. PICK fs \in SUBSET Fixes : fs = {f}
      OBVIOUS
    <2>2. req' = [req EXCEPT ![r] = Begun(op, fs, u, t)]
      BY <1>2, <2>1
    <2>3. op \in CuratorOps \cup {"delete", "queue"} /\ u \in Users \cup {None}
      OBVIOUS
    <2>4. req[r].pc = "new" /\ (op \in Transitions \ {"approve"} => t = None)
      BY <1>2
    <2>5. \A g \in fs : Loadable(op, g)
      BY <1>2, <2>1
    <2>6. QED
      BY <1>1, <2>2, <2>3, <2>4, <2>5
  <1>3. CASE LoadQueue(r)
    <2>1. PICK fs \in SUBSET Fixes : fs = Unscreened
      BY DEF Unscreened
    <2>2. \A f \in fs : Exists(f)
      BY <2>1 DEF Unscreened, Exists, States
    <2>3. req' = [req EXCEPT ![r] = Begun("queue", fs, None, None)] /\ req[r].pc = "new"
      BY <1>3, <2>1 DEF LoadQueue
    <2>4. "queue" \in CuratorOps \cup {"delete", "queue"} /\ "queue" \notin CuratorOps
          /\ "queue" \notin Transitions
      BY Operations
    <2>5. \A f \in fs : Loadable("queue", f)
      BY <2>2, <2>4 DEF Loadable
    <2>6. \E q : Begins(r, q)
      BY <1>1, <2>3, <2>4, <2>5
    <2>7. QED
      BY <1>3, <2>6, Rests DEF LoadQueue
  <1>4. ASSUME NEW f \in Fixes, NEW u \in Users, LoadForDelete(r, f, u)
        PROVE  Quiet /\ \E q : Begins(r, q)
    <2>1. "delete" \notin CuratorOps /\ "delete" \notin Transitions
      BY Operations
    <2>2. QED
      BY <1>2, <1>4, <2>1, Rests DEF LoadForDelete, Loadable
  <1>5. ASSUME NEW f \in Fixes, NEW u \in Users, NEW t \in Texts \cup {None},
               LoadForEdit(r, f, u, t)
        PROVE  Quiet /\ \E q : Begins(r, q)
    <2>1. "edit" \in CuratorOps /\ "edit" \notin Transitions
      BY Operations
    <2>2. QED
      BY <1>2, <1>5, <2>1, Rests DEF LoadForEdit, Loadable
  <1>6. ASSUME NEW f \in Fixes, NEW u \in Users, NEW t \in Texts \cup {None},
               NEW op \in Transitions, LoadForTransition(r, op, f, u, t)
        PROVE  Quiet /\ \E q : Begins(r, q)
    <2>1. op \in CuratorOps
      BY Operations
    <2>2. QED
      BY <1>2, <1>6, <2>1, Rests DEF LoadForTransition, Loadable
  <1>7. ASSUME NEW f \in Fixes, NEW u \in Users, NEW op \in CuratorOps \cup {"delete"},
               Refuse(r, op, f, u)
        PROVE  Quiet /\ Ends(r) /\ CommitsNone(r)
    BY <1>7, Rests, Finishes DEF Refuse, IndexInv, CommitsNone
  <1>8. QED
    BY <1>3, <1>4, <1>5, <1>6, <1>7 DEF Arrive

\* A request goes on within its transaction.
LEMMA GoesOnEffect ==
  ASSUME IndexInv, NEW r \in Requests,
         \/ BeginPurge(r) \/ EndPurge(r) \/ PurgeForEdit(r)
         \/ \E f \in Fixes : LockForEdit(r, f)
  PROVE  Quiet /\ \E p, q : GoesOn(r, p, q)
  <1>1. req[r] \in Request /\ RequestInv(req[r]) /\ chunks \subseteq Entry
    BY DEF IndexInv, TypeOK
  <1>2. ASSUME NEW pc \in {"editing", "reindexing", "purging", "purged"},
               NEW snap \in SUBSET Entry, GoTo(r, pc, snap),
               \/ req[r].pc = "loaded" /\ pc = "purging" /\ snap = ChunksOf(req[r].targets)
               \/ req[r].pc = "purging" /\ pc = "purged" /\ snap = req[r].snap \cap chunks
               \/ /\ req[r].pc = "loaded" /\ pc = "editing"
                  /\ snap \subseteq ChunksOf(req[r].targets)
                  /\ \A f \in req[r].targets : snap = ChunksOf({f}) /\ RowsFree(r, {f})
               \/ req[r].pc = "editing" /\ pc = "reindexing" /\ snap = req[r].snap \cap chunks
        PROVE  \E p, q : GoesOn(r, p, q)
    <2>1. PICK p, q : p = req[r] /\ q = [req[r] EXCEPT !.pc = pc, !.snap = snap]
      OBVIOUS
    <2>2. /\ q \in Request /\ q.pc = pc /\ q.snap = snap /\ q.op = p.op
          /\ q.targets = p.targets /\ q.actor = p.actor /\ q.text = p.text /\ q.seen = p.seen
      BY <1>1, <2>1 DEF Request
    <2>3. req'[r] = q /\ OthersWait(r)
      BY <1>2, <2>1 DEF IndexInv, TypeOK, OthersWait, GoTo
    <2>4. GoesOn(r, p, q)
      BY <1>2, <2>1, <2>2, <2>3 DEF GoesOn
    <2>5. QED
      BY <2>4
  <1>3. req[r].snap \cap chunks \in SUBSET Entry
    BY <1>1
  <1>4. CASE BeginPurge(r)
    <2>1. ChunksOf(req[r].targets) \in SUBSET Entry
      BY <1>1 DEF ChunksOf
    <2>2. QED
      BY <1>2, <1>4, <2>1, Rests DEF BeginPurge, Loaded
  <1>5. CASE EndPurge(r)
    BY <1>2, <1>3, <1>5, Rests DEF EndPurge
  <1>6. CASE PurgeForEdit(r)
    BY <1>2, <1>3, <1>6, Rests DEF PurgeForEdit
  <1>7. ASSUME NEW f \in Fixes, LockForEdit(r, f)
        PROVE  Quiet /\ \E p, q : GoesOn(r, p, q)
    <2>1. ChunksOf({f}) \in SUBSET Entry
      BY <1>1 DEF ChunksOf
    <2>2. req[r].op = "edit" /\ req[r].pc = "loaded" /\ f \in req[r].targets
      BY <1>7 DEF LockForEdit, Loaded
    <2>3. \A g \in req[r].targets : g = f
      BY <1>1, <2>2 DEF RequestInv
    <2>4. \A g \in req[r].targets : ChunksOf({f}) = ChunksOf({g}) /\ RowsFree(r, {g})
      BY <1>7, <2>3 DEF LockForEdit
    <2>5. ChunksOf({f}) \subseteq ChunksOf(req[r].targets)
      BY <2>2 DEF ChunksOf
    <2>6. QED
      BY <1>2, <1>7, <2>1, <2>2, <2>4, <2>5, Rests DEF LockForEdit
  <1>8. QED
    BY <1>4, <1>5, <1>6, <1>7

\* The reports of one flush.
LEMMA QueueEffect ==
  ASSUME IndexInv, NEW r \in Requests, CommitQueue(r)
  PROVE  Quiet /\ Ends(r) /\ CommitsNone(r)
  <1>1. req[r].targets \in SUBSET Fixes
    BY DEF IndexInv, TypeOK, Request
  <1>2. \A g \in Fixes : TrailStands(g)
    BY <1>1, PrescreensTrail DEF CommitQueue, IndexInv
  <1>3. \A f \in Fixes : Exists(f) => /\ fix[f] \in LiveRow
                                      /\ [fix[f] EXCEPT !.screened = TRUE] \in LiveRow
    BY ExistsLive DEF IndexInv, LiveRow
  <1>4. fix' = [f \in Fixes |-> IF f \in req[r].targets /\ Exists(f)
                                THEN [fix[f] EXCEPT !.screened = TRUE] ELSE fix[f]]
    BY DEF CommitQueue
  <1>5. \A f \in Fixes : /\ fix'[f].state = fix[f].state /\ fix'[f].text = fix[f].text
                         /\ fix'[f].reviewer = fix[f].reviewer
    BY <1>3, <1>4 DEF LiveRow
  <1>6. UNCHANGED <<chunks, accounts>> /\ Finish(r)
    BY DEF CommitQueue
  <1>7. \A f \in Fixes : ChunksOf({f})' = ChunksOf({f})
    BY <1>6 DEF ChunksOf
  <1>8. CommitsNone(r)
    BY Operations DEF CommitQueue, Loaded, CommitsNone
  <1>9. QED
    BY <1>2, <1>5, <1>6, <1>7, <1>8, Finishes DEF Quiet, Untouched, IndexInv

\* A DELETE that matches no row.
LEMMA DeleteNothingEffect ==
  ASSUME IndexInv, NEW r \in Requests, NEW f \in Fixes, DeleteNothing(r, f)
  PROVE  Quiet /\ Ends(r) /\ CommitsNone(r)
  <1>1. f \in req[r].targets /\ UNCHANGED <<fix, chunks, accounts>> /\ Finish(r)
    BY DEF DeleteNothing
  <1>2. req[r].seen[f].state \in States \cup {None} /\ req[r].actor \in Users \cup {None}
    BY <1>1, LoadedTypes DEF LiveRow
  <1>3. Log(f, req[r].actor, "delete", req[r].seen[f].state, None, None)
    BY DEF DeleteNothing
  <1>4. \A g \in Fixes : TrailStands(g)
    BY <1>2, <1>3, LogTrail DEF IndexInv
  <1>5. \A g \in Fixes : ChunksOf({g})' = ChunksOf({g})
    BY <1>1 DEF ChunksOf
  <1>6. CommitsNone(r)
    BY Operations DEF DeleteNothing, Loaded, CommitsNone
  <1>7. QED
    BY <1>1, <1>4, <1>5, <1>6, Finishes DEF Quiet, Untouched, IndexInv

\* Rows that are gone, their chunks with them.
LEMMA GoneRows ==
  ASSUME IndexInv, NEW fs \in SUBSET Fixes, \A f \in fs : Exists(f),
         \A f \in fs : fix'[f] = NoRow("deleted"),
         chunks' = chunks \ ChunksOf(fs), \A g \in Fixes : TrailStands(g),
         \A r \in Requests, f \in fs : ~HoldsRow(r, f),
         accounts' \subseteq accounts,
         \A g \in Fixes \ fs : /\ fix'[g].state = fix[g].state /\ fix'[g].text = fix[g].text
                               /\ fix'[g].reviewer = IF fix[g].reviewer \in accounts \ accounts'
                                                     THEN None ELSE fix[g].reviewer
  PROVE  Removes(fs)
  <1>1. \A f \in fs : fix'[f].state = "deleted" /\ fix'[f].text = None /\ ChunksOf({f})' = {}
    BY DEF NoRow, ChunksOf
  <1>2. \A g \in Fixes \ fs : ChunksOf({g})' = ChunksOf({g})
    BY DEF ChunksOf
  <1>3. QED
    BY <1>1, <1>2 DEF Removes, Untouched

\* delete_fix.
LEMMA DeleteEffect ==
  ASSUME IndexInv, NEW r \in Requests, NEW f \in Fixes, CommitDelete(r, f)
  PROVE  Ends(r) /\ CommitsNone(r) /\ \E fs \in SUBSET Fixes : Removes(fs)
  <1>1. /\ f \in req[r].targets /\ Exists(f) /\ RowsFree(r, {f}) /\ Finish(r)
        /\ req[r].pc = "loaded" /\ accounts' = accounts
    BY DEF CommitDelete, Loaded
  <1>2. PICK fs \in SUBSET Fixes : fs = {f}
    OBVIOUS
  <1>3. req[r].seen[f].state \in States \cup {None} /\ req[r].actor \in Users \cup {None}
    BY <1>1, LoadedTypes DEF LiveRow
  <1>4. Log(f, req[r].actor, "delete", req[r].seen[f].state, None, None)
    BY DEF CommitDelete
  <1>5. \A g \in Fixes : TrailStands(g)
    BY <1>3, <1>4, LogTrail DEF IndexInv
  <1>6. fix' = Removed(fs) /\ chunks' = chunks \ ChunksOf(fs)
    BY <1>2 DEF CommitDelete
  <1>7. /\ \A g \in fs : fix'[g] = NoRow("deleted")
        /\ \A g \in Fixes \ fs : fix'[g] = fix[g]
    BY <1>6 DEF Removed
  <1>8. \A p \in Requests, g \in fs : ~HoldsRow(p, g)
    BY <1>1, <1>2 DEF RowsFree, HoldsRow
  <1>9. Removes(fs)
    BY <1>1, <1>2, <1>5, <1>6, <1>7, <1>8, GoneRows
  <1>10. CommitsNone(r)
    BY Operations DEF CommitDelete, Loaded, CommitsNone
  <1>11. QED
    BY <1>1, <1>9, <1>10, Finishes DEF IndexInv

\* A machine goes.
LEMMA DeleteEquipmentEffect ==
  ASSUME IndexInv, NEW fs \in SUBSET Fixes, DeleteEquipment(fs)
  PROVE  UNCHANGED req /\ Removes(fs)
  <1>1. /\ \A f \in fs : Exists(f)
        /\ fix' = Removed(fs) /\ chunks' = chunks \ ChunksOf(fs)
        /\ UNCHANGED audit /\ UNCHANGED accounts /\ UNCHANGED req
    BY DEF DeleteEquipment
  <1>2. /\ \A g \in fs : fix'[g] = NoRow("deleted")
        /\ \A g \in Fixes \ fs : fix'[g] = fix[g]
    BY <1>1 DEF Removed
  <1>3. \A p \in Requests, g \in fs : ~HoldsRow(p, g)
    BY DEF DeleteEquipment, Unlocked
  <1>4. QED
    BY <1>1, <1>2, <1>3, SameTrail, GoneRows

\* A user goes: a fix they reviewed keeps its state and its text.
LEMMA DeleteUserEffect ==
  ASSUME IndexInv, NEW u \in Users, DeleteUser(u)
  PROVE  UNCHANGED req /\ \E fs \in SUBSET Fixes : Removes(fs)
  <1>1. PICK theirs, reviewed :
          /\ theirs = {f \in Fixes : Exists(f) /\ fix[f].submitter = u}
          /\ reviewed = {f \in Fixes : Exists(f) /\ fix[f].reviewer = u}
    OBVIOUS
  <1>2. /\ fix' = [f \in Fixes |->
                     IF f \in theirs THEN NoRow("deleted")
                     ELSE IF f \in reviewed THEN [fix[f] EXCEPT !.reviewer = None]
                     ELSE fix[f]]
        /\ accounts' = accounts \ {u} /\ u \in accounts
        /\ chunks' = chunks \ ChunksOf(theirs)
        /\ UNCHANGED audit /\ UNCHANGED req
    BY <1>1 DEF DeleteUser
  <1>3. \A g \in theirs : fix'[g] = NoRow("deleted")
    BY <1>1, <1>2
  <1>4. \A f \in reviewed : fix[f] \in LiveRow
    BY <1>1, ExistsLive DEF IndexInv
  <1>5. ASSUME NEW g \in Fixes \ theirs
        PROVE  /\ fix'[g].state = fix[g].state /\ fix'[g].text = fix[g].text
               /\ fix'[g].reviewer = IF fix[g].reviewer \in accounts \ accounts'
                                     THEN None ELSE fix[g].reviewer
    <2>1. CASE g \in reviewed
      <3>1. fix'[g] = [fix[g] EXCEPT !.reviewer = None]
        BY <1>2, <2>1
      <3>2. /\ fix'[g].state = fix[g].state /\ fix'[g].text = fix[g].text
            /\ fix'[g].reviewer = None
        BY <1>4, <2>1, <3>1 DEF LiveRow
      <3>3. QED
        BY <1>1, <1>2, <2>1, <3>2
    <2>2. CASE g \notin reviewed
      <3>1. fix'[g] = fix[g]
        BY <1>2, <2>2
      <3>2. fix[g].reviewer # u
        BY <1>1, <2>2, ExistsLive, CurationAssumption DEF IndexInv, TypeOK, Row, NoRow
      <3>3. fix[g].reviewer \notin accounts \ accounts'
        BY <1>2, <3>2
      <3>4. QED
        BY <3>1, <3>3
    <2>3. QED
      BY <2>1, <2>2
  <1>6. \A p \in Requests, g \in theirs : ~HoldsRow(p, g)
    BY <1>1 DEF DeleteUser, Unlocked
  <1>7. theirs \in SUBSET Fixes /\ accounts' \subseteq accounts /\ \A f \in theirs : Exists(f)
    BY <1>1, <1>2
  <1>8. Removes(theirs)
    BY <1>2, <1>3, <1>5, <1>6, <1>7, SameTrail, GoneRows
  <1>9. QED
    BY <1>2, <1>7, <1>8

\* The columns an UPDATE leaves.
LEMMA Writes ==
  ASSUME TypeOK, NEW f \in Fixes, NEW seen, NEW new, Save(f, seen, new)
  PROVE  /\ \A g \in Fixes \ {f} : fix'[g] = fix[g]
         /\ fix'[f].state = Written(fix[f].state, seen.state, new.state)
         /\ fix'[f].text = Written(fix[f].text, seen.text, new.text)
         /\ fix'[f].reviewer = Written(fix[f].reviewer, seen.reviewer, new.reviewer)
  <1>1. /\ \A g \in Fixes \ {f} : fix'[g] = fix[g]
        /\ fix'[f] = Flush(fix[f], seen, new)
    BY DEF TypeOK, Save
  <1>2. QED
    BY <1>1 DEF Flush

\* What the trail and the other fixes keep when a request commits on f.
LEMMA CommitFrame ==
  ASSUME TypeOK, NEW f \in Fixes, NEW seen, NEW new, Save(f, seen, new),
         NEW actor \in Users \cup {None},
         NEW action \in {"submit", "create", "edit", "approve", "rejected", "unsafe",
                         "retire", "delete", "prescreen"},
         NEW from \in States \cup {None}, NEW to \in States \cup {None},
         NEW text \in Texts \cup {None}, Log(f, actor, action, from, to, text),
         \A c \in chunks \cup chunks' : c.fix # f => (c \in chunks <=> c \in chunks'),
         accounts' = accounts
  PROVE  /\ OthersUntouched(f)
         /\ to = None /\ action # "approve" => TrailStands(f)
         /\ to # None => TrailMoves(f, actor, action, from, to)
  <1>1. /\ \A g \in Fixes \ {f} : TrailStands(g)
        /\ to = None /\ action # "approve" => TrailStands(f)
        /\ to # None => TrailMoves(f, actor, action, from, to)
    BY LogTrail
  <1>2. \A g \in Fixes \ {f} : fix'[g] = fix[g]
    BY Writes
  <1>3. QED
    BY <1>1, <1>2, OthersStand

\* approve.
LEMMA ApproveEffect ==
  ASSUME IndexInv, NEW r \in Requests, NEW f \in Fixes, CommitApprove(r, f)
  PROVE  Ends(r) /\ \E q : Decides(r, f, q)
  <1>1. PICK q, seen, new : /\ q = req[r] /\ seen = q.seen[f]
                            /\ new = Approval(seen, q.actor, q.text)
    OBVIOUS
  <1>2. /\ q.pc = "loaded" /\ q.op = "approve" /\ f \in q.targets /\ RowsFree(r, {f})
        /\ Saves(f, seen, new) /\ Save(f, seen, new) /\ Finish(r) /\ accounts' = accounts
        /\ chunks' = chunks \cup {NewEntry(f, new.text)}
        /\ Log(f, q.actor, "approve", seen.state, "approved", new.text)
    BY <1>1 DEF CommitApprove, Loaded
  <1>3. seen \in LiveRow /\ q.text \in Texts \cup {None} /\ q.actor \in Users \cup {None}
    BY <1>1, <1>2, LoadedTypes
  <1>4. q.actor \in Users
    BY <1>1, <1>2, Operations, CurationAssumption DEF IndexInv, RequestInv
  <1>5. "approved" \in States
    BY DEF States
  <1>6. new \in LiveRow
    BY <1>1, <1>3, <1>4, <1>5, DecisionTypes
  <1>7. new.state = "approved" /\ new.reviewer = q.actor /\ new.text = NewText(q, f)
    BY <1>1, <1>3 DEF Approval, NewText, LiveRow
  <1>8. PICK e : e = NewEntry(f, new.text)
    OBVIOUS
  <1>9. e.fix = f /\ \E n : e = [fix |-> f, text |-> NewText(q, f), id |-> n]
    BY <1>7, <1>8 DEF NewEntry
  <1>10. /\ seen.state \in States \cup {None} /\ "approved" \in States \cup {None}
         /\ new.text \in Texts \cup {None} /\ "approved" # None
    BY <1>3, <1>5, <1>6, CurationAssumption DEF LiveRow
  <1>11. \A c \in chunks \cup chunks' : c.fix # f => (c \in chunks <=> c \in chunks')
    BY <1>2, <1>8, <1>9
  <1>12. OthersUntouched(f) /\ TrailMoves(f, q.actor, "approve", seen.state, "approved")
    BY <1>2, <1>3, <1>10, <1>11, CommitFrame DEF IndexInv
  <1>13. ChunksOf({f})' = ChunksOf({f}) \cup {e}
    BY <1>2, <1>8, <1>9 DEF ChunksOf
  <1>14. \E n : ChunksOf({f})' = ChunksOf({f}) \cup {[fix |-> f, text |-> NewText(q, f), id |-> n]}
    BY <1>9, <1>13
  <1>15. /\ fix'[f].state = Written(fix[f].state, seen.state, "approved")
         /\ fix'[f].text = Written(fix[f].text, seen.text, NewText(q, f))
         /\ fix'[f].reviewer = Written(fix[f].reviewer, seen.reviewer, q.actor)
    BY <1>2, <1>7, Writes DEF IndexInv
  <1>16. /\ Exists(f) /\ (q.actor # seen.reviewer => q.actor \in accounts)
         /\ \A p \in Requests \ {r} : ~HoldsRow(p, f)
    BY <1>2, <1>7 DEF Saves, RowsFree
  <1>17. "approve" \in Transitions /\ Target["approve"] = "approved"
    BY DEF Transitions, Target
  <1>18. Decides(r, f, q)
    BY <1>1, <1>2, <1>12, <1>14, <1>15, <1>16, <1>17 DEF Decides
  <1>19. QED
    BY <1>2, <1>18, Finishes DEF IndexInv

\* reject, flag_unsafe and retire.
LEMMA ResolveEffect ==
  ASSUME IndexInv, NEW r \in Requests, NEW f \in Fixes, LoadedWell(req[r]),
         CommitResolve(r, f) \/ CommitRetire(r, f)
  PROVE  Ends(r) /\ \E q : Decides(r, f, q)
  <1>1. PICK q, seen, new, dst :
           /\ q = req[r] /\ seen = q.seen[f] /\ dst = Target[q.op]
           /\ new = Resolution(seen, dst, q.actor)
    OBVIOUS
  <1>2. /\ q.op \in {"reject", "unsafe", "retire"} /\ q.op \in Transitions
        /\ q.pc = IF q.op = "retire" THEN "purged" ELSE "loaded"
    BY <1>1, Operations DEF CommitResolve, CommitRetire, Loaded, IndexInv, RequestInv
  <1>3. /\ dst = IF q.op = "reject" THEN "rejected" ELSE IF q.op = "unsafe" THEN "unsafe" ELSE "retired"
        /\ dst \in States
    BY <1>1, <1>2 DEF Target, States
  <1>4. /\ f \in q.targets /\ RowsFree(r, {f}) /\ Saves(f, seen, new) /\ Save(f, seen, new)
        /\ Finish(r) /\ accounts' = accounts
        /\ chunks' = IF q.op = "retire" THEN chunks \ q.snap ELSE chunks
    BY <1>1, <1>2, <1>3 DEF CommitResolve, CommitRetire, Loaded
  <1>5. \E action \in {"rejected", "unsafe", "retire"} : Log(f, q.actor, action, seen.state, dst, None)
    BY <1>1, <1>2, <1>3 DEF CommitResolve, CommitRetire, Loaded
  <1>6. seen \in LiveRow /\ q.actor \in Users \cup {None}
    BY <1>1, <1>4, LoadedTypes
  <1>7. new.state = dst /\ new.reviewer = q.actor /\ new.text = seen.text
    BY <1>1, <1>6 DEF Resolution, LiveRow
  <1>8. NewText(q, f) = seen.text
    BY <1>1, <1>2 DEF NewText, LoadedWell
  <1>9. seen.state \in States \cup {None} /\ dst \in States \cup {None} /\ dst # None
    BY <1>3, <1>6, CurationAssumption DEF LiveRow
  <1>10. q.op # "queue" => \A g \in q.targets : g = f
    BY <1>1, <1>4 DEF IndexInv, RequestInv
  <1>11. \A c \in q.snap : c.fix = f
    BY <1>1, <1>2, <1>10 DEF LoadedWell
  <1>12. \A c \in chunks \cup chunks' : c.fix # f => (c \in chunks <=> c \in chunks')
    BY <1>4, <1>11
  <1>13. PICK action \in {"rejected", "unsafe", "retire"} : Log(f, q.actor, action, seen.state, dst, None)
    BY <1>5
  <1>14. OthersUntouched(f) /\ TrailMoves(f, q.actor, action, seen.state, dst)
    BY <1>4, <1>6, <1>9, <1>12, <1>13, CommitFrame DEF IndexInv
  <1>15. ChunksOf({f})' = IF q.op = "retire" THEN ChunksOf({f}) \ q.snap ELSE ChunksOf({f})
    BY <1>4 DEF ChunksOf
  <1>16. /\ fix'[f].state = Written(fix[f].state, seen.state, dst)
         /\ fix'[f].text = Written(fix[f].text, seen.text, NewText(q, f))
         /\ fix'[f].reviewer = Written(fix[f].reviewer, seen.reviewer, q.actor)
    BY <1>4, <1>7, <1>8, Writes DEF IndexInv
  <1>17. /\ Exists(f) /\ (q.actor # seen.reviewer => q.actor \in accounts)
         /\ \A p \in Requests \ {r} : ~HoldsRow(p, f)
    BY <1>4, <1>7 DEF Saves, RowsFree
  <1>18. action # "approve" /\ q.op # "approve"
    BY <1>2, <1>13
  <1>19. Decides(r, f, q)
    BY <1>1, <1>2, <1>4, <1>14, <1>15, <1>16, <1>17, <1>18 DEF Decides
  <1>20. QED
    BY <1>4, <1>19, Finishes DEF IndexInv

\* update_fix, with or without a new copy in the index.
LEMMA EditEffect ==
  ASSUME IndexInv, NEW r \in Requests, NEW f \in Fixes, LoadedWell(req[r]),
         CommitEdit(r, f) \/ CommitReindex(r, f)
  PROVE  Ends(r) /\ \E q : Edits(r, f, q)
  <1>1. PICK q, seen, new, e :
           /\ q = req[r] /\ seen = q.seen[f] /\ new = Edition(seen, q.text)
           /\ e = NewEntry(f, new.text)
    OBVIOUS
  <1>2. /\ q.op = "edit" /\ Exists(f) /\ f \in q.targets
        /\ Save(f, seen, new) /\ Finish(r) /\ accounts' = accounts
        /\ Log(f, q.actor, "edit", None, None, new.text)
    BY <1>1 DEF CommitEdit, CommitReindex, Loaded, Saves, IndexInv, RequestInv
  <1>3. \/ /\ q.pc = "loaded" /\ ~Reindexes(r, f) /\ RowsFree(r, {f}) /\ chunks' = chunks
        \/ q.pc = "reindexing" /\ chunks' = (chunks \ q.snap) \cup {e}
    BY <1>1 DEF CommitEdit, CommitReindex, Loaded
  <1>4. /\ seen \in LiveRow /\ q.actor \in Users \cup {None} /\ q.text \in Texts \cup {None}
    BY <1>1, <1>2, LoadedTypes
  <1>5. /\ new.state = seen.state /\ new.reviewer = seen.reviewer /\ new.text = NewText(q, f)
        /\ new.text \in Texts \cup {None}
    BY <1>1, <1>4 DEF Edition, NewText, LiveRow
  <1>6. e.fix = f /\ \E n : e = [fix |-> f, text |-> NewText(q, f), id |-> n]
    BY <1>1, <1>5 DEF NewEntry
  <1>7. \A c \in q.snap : c.fix = f
    <2>1. q.op # "queue" => \A g \in q.targets : g = f
      BY <1>1, <1>2 DEF IndexInv, RequestInv
    <2>2. QED
      BY <1>1, <1>2, <2>1 DEF LoadedWell
  <1>8. \A c \in chunks \cup chunks' : c.fix # f => (c \in chunks <=> c \in chunks')
    BY <1>3, <1>6, <1>7
  <1>9. OthersUntouched(f) /\ TrailStands(f)
    BY <1>2, <1>4, <1>5, <1>8, CommitFrame DEF IndexInv
  <1>10. /\ fix'[f].state = fix[f].state /\ fix'[f].reviewer = fix[f].reviewer
         /\ fix'[f].text = Written(fix[f].text, seen.text, NewText(q, f))
    BY <1>2, <1>5, Writes DEF IndexInv, Written
  <1>11. \/ /\ q.pc = "loaded" /\ (q.text = None \/ seen.state # "approved")
            /\ \A p \in Requests \ {r} : ~HoldsRow(p, f)
            /\ ChunksOf({f})' = ChunksOf({f})
         \/ /\ q.pc = "reindexing"
            /\ \E n : ChunksOf({f})' = (ChunksOf({f}) \ q.snap) \cup
                                          {[fix |-> f, text |-> NewText(q, f), id |-> n]}
    <2>1. CASE q.pc = "loaded" /\ ~Reindexes(r, f) /\ RowsFree(r, {f}) /\ chunks' = chunks
      BY <1>1, <2>1 DEF Reindexes, RowsFree, ChunksOf
    <2>2. CASE q.pc = "reindexing" /\ chunks' = (chunks \ q.snap) \cup {e}
      <3>1. ChunksOf({f})' = (ChunksOf({f}) \ q.snap) \cup {e}
        BY <1>6, <2>2 DEF ChunksOf
      <3>2. QED
        BY <1>6, <2>2, <3>1
    <2>3. QED
      BY <1>3, <2>1, <2>2
  <1>12. audit' # audit
    <2>1. audit \in Seq(Event) /\ \E e0 : audit' = Append(audit, e0)
      BY <1>2 DEF Log, IndexInv, TypeOK
    <2>2. Len(audit) \in Nat /\ Len(audit') = Len(audit) + 1
      BY <2>1
    <2>3. QED
      BY <2>2
  <1>13. Edits(r, f, q)
    BY <1>1, <1>2, <1>9, <1>10, <1>11, <1>12 DEF Edits
  <1>14. QED
    BY <1>2, <1>13, Finishes DEF IndexInv

\* Every step of the service amounts to one of the effects.
LEMMA StepHasEffect ==
  ASSUME IndexInv, \A r \in Requests : LoadedWell(req[r]), [Next]_vars
  PROVE  Effect
  <1>1. CASE UNCHANGED vars
    BY <1>1, Rests DEF vars, Effect
  <1>2. ASSUME NEW f \in Fixes, NEW u \in Users, NEW t \in Texts,
               Submit(f, u, t) \/ Create(f, u, t)
        PROVE  Effect
    BY <1>2, OpensEffect DEF Effect, IndexInv, Submit, Create
  <1>3. ASSUME NEW r \in Requests, Arrive(r) PROVE Effect
    BY <1>3, ArriveEffect DEF Effect
  <1>4. ASSUME NEW r \in Requests, Abort(r) \/ CommitFails(r) \/ DeadlockAbort(r)
        PROVE  Effect
    <2>1. UNCHANGED <<fix, chunks, audit, accounts>> /\ Finish(r)
      BY <1>4 DEF Abort, CommitFails, DeadlockAbort
    <2>2. Quiet /\ Ends(r) /\ CommitsNone(r)
      BY <2>1, Rests, Finishes DEF IndexInv, CommitsNone
    <2>3. QED
      BY <2>2 DEF Effect
  <1>5. ASSUME NEW r \in Requests, Step(r) PROVE Effect
    <2>1. CASE BeginPurge(r) \/ EndPurge(r) \/ PurgeForEdit(r) \/ \E f \in Fixes : LockForEdit(r, f)
      BY <2>1, GoesOnEffect DEF Effect
    <2>2. CASE CommitQueue(r) \/ \E f \in Fixes : DeleteNothing(r, f)
      BY <2>2, QueueEffect, DeleteNothingEffect DEF Effect
    <2>3. CASE \E f \in Fixes : CommitDelete(r, f)
      BY <2>3, DeleteEffect DEF Effect
    <2>4. CASE \E f \in Fixes : CommitApprove(r, f) \/ CommitResolve(r, f) \/ CommitRetire(r, f)
      BY <2>4, ApproveEffect, ResolveEffect DEF Effect
    <2>5. CASE \E f \in Fixes : CommitEdit(r, f) \/ CommitReindex(r, f)
      BY <2>5, EditEffect DEF Effect
    <2>6. QED
      BY <1>4, <1>5, <2>1, <2>2, <2>3, <2>4, <2>5 DEF Step
  <1>6. ASSUME NEW u \in Users, DeleteUser(u) PROVE Effect
    BY <1>6, DeleteUserEffect DEF Effect
  <1>7. ASSUME NEW fs \in SUBSET Fixes, DeleteEquipment(fs) PROVE Effect
    BY <1>7, DeleteEquipmentEffect DEF Effect
  <1>8. QED
    BY <1>1, <1>2, <1>3, <1>4, <1>5, <1>6, <1>7 DEF Next

-----------------------------------------------------------------------------
(***************************************************************************)
(* The inductive invariant of the trail and the badge.  A decision logs    *)
(* the state it moves to and writes it, because it is never the state it   *)
(* had loaded; it names its actor, because nobody has reviewed a fix that  *)
(* was loaded as pending.  A re-indexing replaces all the copies, because  *)
(* the lock of the row keeps every other writer of copies away.            *)
(***************************************************************************)

FixWell(f) ==
  /\ fix[f].state = "absent" => Moves(f) = {}
  /\ fix[f].state = "pending_review" => fix[f].reviewer = None
  /\ Exists(f) => \E i \in Moves(f) : LastMove(f, i) /\ audit[i].to = fix[f].state
  /\ fix[f].state = "approved" =>
       \E i \in Moves(f) :
         /\ LastMove(f, i) /\ audit[i].action = "approve"
         /\ fix[f].reviewer = IF audit[i].actor \in accounts THEN audit[i].actor ELSE None
  /\ IsFiniteSet(ChunksOf({f}))
  /\ Cardinality(ChunksOf({f})) <= Cardinality(Approvals(f))

RequestWell(r) ==
  /\ LoadedWell(req[r])
  /\ \A f \in req[r].targets : fix[f].state # "absent"
  /\ \A f \in Fixes : HoldsRow(r, f) =>
       /\ req[r].snap = ChunksOf({f})
       /\ \A p \in Requests \ {r} : ~HoldsRow(p, f)

TrailInv ==
  /\ IndexInv
  /\ \A f \in Fixes : FixWell(f)
  /\ \A r \in Requests : RequestWell(r)

\* The approvals of a fix can be counted.
LEMMA ApprovalsFinite ==
  ASSUME TypeOK, NEW f
  PROVE  IsFiniteSet(Approvals(f)) /\ Cardinality(Approvals(f)) \in Nat
  <1>1. Len(audit) \in Nat /\ DOMAIN audit = 1 .. Len(audit)
    BY DEF TypeOK
  <1>2. IsFiniteSet(1 .. Len(audit))
    BY <1>1, FS_Interval
  <1>3. Approvals(f) \subseteq 1 .. Len(audit)
    BY <1>1 DEF Approvals
  <1>4. QED
    BY <1>2, <1>3, FS_Subset, FS_CardinalityType

\* A fix that a step does not touch.
LEMMA UntouchedWell ==
  ASSUME TypeOK, NEW f \in Fixes, FixWell(f), Untouched(f), accounts' \subseteq accounts
  PROVE  FixWell(f)'
  <1>1. /\ fix'[f].state = fix[f].state
        /\ fix'[f].reviewer = IF fix[f].reviewer \in accounts \ accounts' THEN None
                              ELSE fix[f].reviewer
        /\ ChunksOf({f})' = ChunksOf({f})
        /\ Moves(f)' = Moves(f) /\ Approvals(f)' = Approvals(f)
        /\ \A i \in Moves(f) : audit'[i] = audit[i]
    BY DEF Untouched, TrailStands
  <1>2. None \notin accounts
    BY CurationAssumption DEF TypeOK
  <1>3. \A i : LastMove(f, i)' <=> LastMove(f, i)
    BY <1>1 DEF LastMove
  <1>4. fix'[f].state = "approved" =>
          \E i \in Moves(f)' :
            /\ LastMove(f, i)' /\ audit'[i].action = "approve"
            /\ fix'[f].reviewer = IF audit'[i].actor \in accounts' THEN audit'[i].actor ELSE None
    BY <1>1, <1>2, <1>3 DEF FixWell
  <1>5. /\ fix'[f].state = "absent" => Moves(f)' = {}
        /\ fix'[f].state = "pending_review" => fix'[f].reviewer = None
    BY <1>1 DEF FixWell
  <1>6. Exists(f)' => \E i \in Moves(f)' : LastMove(f, i)' /\ audit'[i].to = fix'[f].state
    BY <1>1, <1>3 DEF FixWell, Exists
  <1>7. IsFiniteSet(ChunksOf({f})') /\ Cardinality(ChunksOf({f})') <= Cardinality(Approvals(f)')
    BY <1>1 DEF FixWell
  <1>8. QED
    BY <1>4, <1>5, <1>6, <1>7 DEF FixWell

\* The move a step logs is the last.
LEMMA NewLastMove ==
  ASSUME NEW f, NEW actor, NEW action, NEW from, NEW to, TrailMoves(f, actor, action, from, to)
  PROVE  \E n \in Moves(f)' :
           /\ LastMove(f, n)'
           /\ audit'[n].actor = actor /\ audit'[n].action = action
           /\ audit'[n].from = from /\ audit'[n].to = to
  <1>1. PICK n \in Nat :
          /\ Moves(f)' = Moves(f) \cup {n}
          /\ \A i \in Moves(f) : i \in Nat /\ i < n /\ audit'[i] = audit[i]
          /\ audit'[n].actor = actor /\ audit'[n].action = action
          /\ audit'[n].from = from /\ audit'[n].to = to
    BY DEF TrailMoves
  <1>2. \A j \in Moves(f) \cup {n} : j <= n
    BY <1>1
  <1>3. LastMove(f, n)'
    BY <1>1, <1>2 DEF LastMove
  <1>4. QED
    BY <1>1, <1>3

\* A fix that enters review.
LEMMA OpensWell ==
  ASSUME TypeOK, NEW f \in Fixes, FixWell(f), Opens(f) PROVE FixWell(f)'
  <1>1. /\ fix'[f].state = "pending_review" /\ fix'[f].reviewer = None
        /\ ChunksOf({f})' = ChunksOf({f})
    BY DEF Opens
  <1>2. PICK actor, action, from :
          action # "approve" /\ TrailMoves(f, actor, action, from, "pending_review")
    BY DEF Opens
  <1>3. \E n \in Moves(f)' : LastMove(f, n)' /\ audit'[n].to = "pending_review"
    BY <1>2, NewLastMove
  <1>4. Approvals(f)' = Approvals(f)
    BY <1>2 DEF TrailMoves
  <1>5. IsFiniteSet(ChunksOf({f})') /\ Cardinality(ChunksOf({f})') <= Cardinality(Approvals(f)')
    BY <1>1, <1>4 DEF FixWell
  <1>6. QED
    BY <1>1, <1>3, <1>5 DEF FixWell

\* A fix that goes.
LEMMA RemovesWell ==
  ASSUME TypeOK, NEW fs \in SUBSET Fixes, NEW f \in fs, Removes(fs) PROVE FixWell(f)'
  <1>1. fix'[f].state = "deleted" /\ ChunksOf({f})' = {} /\ Approvals(f)' = Approvals(f)
    BY DEF Removes, TrailStands
  <1>2. IsFiniteSet({}) /\ Cardinality({}) = 0
    BY FS_EmptySet
  <1>3. IsFiniteSet(ChunksOf({f})') /\ Cardinality(ChunksOf({f})') <= Cardinality(Approvals(f)')
    BY <1>1, <1>2, ApprovalsFinite
  <1>4. ~Exists(f)'
    BY <1>1, RowStates DEF Exists
  <1>5. QED
    BY <1>1, <1>3, <1>4 DEF FixWell

\* Where a decision leads.
LEMMA Targets ==
  ASSUME NEW op \in Transitions, NEW src, CanTransition(src, Target[op])
  PROVE  /\ Target[op] \in States /\ Target[op] \notin {src, "pending_review", "absent", "deleted"}
         /\ Target[op] = "approved" <=> op = "approve"
         /\ op = "approve" => src = "pending_review"
         /\ op \in {"reject", "unsafe"} => src = "pending_review"
         /\ op = "retire" => src = "approved"
  BY Operations DEF Target, CanTransition, AllowedTransitions, States

\* A fix that is decided.
LEMMA DecidesWell ==
  ASSUME IndexInv, NEW r \in Requests, NEW f \in Fixes, NEW q, Decides(r, f, q),
         LoadedWell(q), FixWell(f)
  PROVE  FixWell(f)'
  <1>1. q = req[r] /\ f \in q.targets /\ q.op \in Transitions
    BY DEF Decides
  <1>2. CanTransition(q.seen[f].state, Target[q.op])
    BY <1>1 DEF LoadedWell
  <1>3. PICK dst : dst = Target[q.op]
    OBVIOUS
  <1>4. /\ dst \in States /\ dst \notin {q.seen[f].state, "pending_review", "absent", "deleted"}
        /\ dst = "approved" <=> q.op = "approve"
        /\ q.op = "approve" => q.seen[f].state = "pending_review"
    BY <1>1, <1>2, <1>3, Targets
  <1>5. fix'[f].state = dst
    BY <1>3, <1>4 DEF Decides, Written
  <1>6. PICK action : /\ action = "approve" <=> q.op = "approve"
                      /\ TrailMoves(f, q.actor, action, q.seen[f].state, dst)
    BY <1>3 DEF Decides
  <1>7. PICK i \in Moves(f)' : /\ LastMove(f, i)' /\ audit'[i].actor = q.actor
                               /\ audit'[i].action = action /\ audit'[i].to = dst
    BY <1>6, NewLastMove
  <1>8. ASSUME dst = "approved"
        PROVE  /\ audit'[i].action = "approve"
               /\ fix'[f].reviewer = IF audit'[i].actor \in accounts' THEN audit'[i].actor ELSE None
    <2>1. action = "approve" /\ q.seen[f].reviewer = None
      BY <1>1, <1>4, <1>6, <1>8 DEF LoadedWell
    <2>2. q.actor \in Users
      BY <1>1, <1>4, <1>8, Operations, CurationAssumption DEF Decides, IndexInv, RequestInv
    <2>3. q.actor # None
      BY <2>2, CurationAssumption
    <2>4. q.actor \in accounts /\ fix'[f].reviewer = q.actor /\ accounts' = accounts
      BY <2>1, <2>3 DEF Decides, Written
    <2>5. QED
      BY <1>7, <2>1, <2>4
  <1>9. IsFiniteSet(ChunksOf({f})') /\ Cardinality(ChunksOf({f})') <= Cardinality(Approvals(f)')
    <2>1. PICK n \in Nat : /\ n \notin Approvals(f)
                           /\ Approvals(f)' = IF action = "approve" THEN Approvals(f) \cup {n}
                                              ELSE Approvals(f)
      BY <1>6 DEF TrailMoves
    <2>2. IsFiniteSet(Approvals(f)) /\ Cardinality(Approvals(f)) \in Nat
      BY ApprovalsFinite DEF IndexInv
    <2>3. PICK cs, cs2 : cs = ChunksOf({f}) /\ cs2 = ChunksOf({f})'
      OBVIOUS
    <2>4. /\ IsFiniteSet(cs) /\ Cardinality(cs) \in Nat
          /\ Cardinality(cs) <= Cardinality(Approvals(f))
      BY <2>3, FS_CardinalityType DEF FixWell
    <2>5. CASE q.op = "approve"
      <3>1. PICK e : cs2 = cs \cup {e}
        BY <2>3, <2>5 DEF Decides
      <3>2. IsFiniteSet(cs2) /\ Cardinality(cs2) <= Cardinality(cs) + 1
        BY <2>4, <3>1, FS_AddElement
      <3>3. Cardinality(Approvals(f)') = Cardinality(Approvals(f)) + 1
        BY <1>6, <2>1, <2>2, <2>5, FS_AddElement
      <3>4. IsFiniteSet(cs2) /\ Cardinality(cs2) \in Nat
        BY <3>2, FS_CardinalityType
      <3>5. QED
        BY <2>2, <2>3, <2>4, <3>2, <3>3, <3>4
    <2>6. CASE q.op # "approve"
      <3>1. cs2 \subseteq cs
        BY <1>1, <2>3, <2>6, Operations DEF Decides
      <3>2. IsFiniteSet(cs2) /\ Cardinality(cs2) \in Nat /\ Cardinality(cs2) <= Cardinality(cs)
        BY <2>4, <3>1, FS_Subset, FS_CardinalityType
      <3>3. Approvals(f)' = Approvals(f)
        BY <1>6, <2>1, <2>6
      <3>4. QED
        BY <2>2, <2>3, <2>4, <3>2, <3>3
    <2>7. QED
      BY <2>5, <2>6
  <1>10. QED
    BY <1>4, <1>5, <1>7, <1>8, <1>9 DEF FixWell

\* A fix that is edited.
LEMMA EditsWell ==
  ASSUME IndexInv, NEW r \in Requests, RequestWell(r), NEW f \in Fixes, NEW q, Edits(r, f, q),
         FixWell(f)
  PROVE  FixWell(f)'
  <1>1. /\ q = req[r] /\ f \in q.targets
        /\ fix'[f].state = fix[f].state /\ fix'[f].reviewer = fix[f].reviewer
        /\ Moves(f)' = Moves(f) /\ Approvals(f)' = Approvals(f)
        /\ \A i \in Moves(f) : audit'[i] = audit[i]
        /\ accounts' = accounts
    BY DEF Edits, TrailStands
  <1>2. \A i : LastMove(f, i)' <=> LastMove(f, i)
    BY <1>1 DEF LastMove
  <1>3. fix'[f].state = "approved" =>
          \E i \in Moves(f)' :
            /\ LastMove(f, i)' /\ audit'[i].action = "approve"
            /\ fix'[f].reviewer = IF audit'[i].actor \in accounts' THEN audit'[i].actor ELSE None
    BY <1>1, <1>2 DEF FixWell
  <1>4. /\ fix'[f].state = "absent" => Moves(f)' = {}
        /\ fix'[f].state = "pending_review" => fix'[f].reviewer = None
    BY <1>1 DEF FixWell
  <1>5. Exists(f)' => \E i \in Moves(f)' : LastMove(f, i)' /\ audit'[i].to = fix'[f].state
    BY <1>1, <1>2 DEF FixWell, Exists
  <1>6. IsFiniteSet(ChunksOf({f})') /\ Cardinality(ChunksOf({f})') <= Cardinality(Approvals(f)')
    <2>1. CASE ChunksOf({f})' = ChunksOf({f})
      BY <1>1, <2>1 DEF FixWell
    <2>2. CASE q.pc = "reindexing"
      <3>1. q.snap = ChunksOf({f})
        BY <1>1, <2>2 DEF RequestWell, HoldsRow
      <3>2. PICK e : ChunksOf({f})' = (ChunksOf({f}) \ q.snap) \cup {e}
        BY <2>2 DEF Edits
      <3>3. ChunksOf({f})' = {e}
        BY <3>1, <3>2
      <3>4. IsFiniteSet({e}) /\ Cardinality({e}) = 1
        BY FS_Singleton
      <3>5. Vouched(f)
        BY <1>1, <2>2 DEF IndexInv, RequestInv
      <3>6. Approvals(f) # {}
        BY <3>5 DEF Vouched
      <3>7. Cardinality(Approvals(f)) >= 1
        BY <3>6, ApprovalsFinite, FS_EmptySet DEF IndexInv
      <3>8. QED
        BY <1>1, <3>3, <3>4, <3>7
    <2>3. QED
      BY <2>1, <2>2 DEF Edits
  <1>7. QED
    BY <1>3, <1>4, <1>5, <1>6 DEF FixWell

\* No step makes an id unused again.
NoneVanishes == \A f \in Fixes : fix[f].state # "absent" => fix'[f].state # "absent"

\* Only the request itself may change the copies of a fix whose row it has locked.
CopiesStay(p) == \A f \in Fixes : HoldsRow(p, f) => ChunksOf({f})' = ChunksOf({f})

\* The requests that a step leaves alone, and the one that moves.
LEMMA RequestsWell ==
  ASSUME TypeOK, \A p \in Requests : RequestWell(p), NEW r \in Requests, OthersWait(r),
         NoneVanishes, \A p \in Requests \ {r} : CopiesStay(p),
         NEW q, req'[r] = q, LoadedWell(q), q.targets \subseteq Fixes,
         \A f \in q.targets : fix'[f].state # "absent",
         \A f \in q.targets : q.pc \in {"editing", "reindexing"} =>
           /\ q.snap = ChunksOf({f})'
           /\ \A p \in Requests \ {r} : ~HoldsRow(p, f)
  PROVE  \A p \in Requests : RequestWell(p)'
  <1>1. ASSUME NEW p \in Requests \ {r}, NEW f \in Fixes
        PROVE  HoldsRow(p, f)' <=> HoldsRow(p, f)
    BY <1>1 DEF OthersWait, HoldsRow
  <1>2. \A f \in Fixes : HoldsRow(r, f)' => /\ f \in q.targets /\ q.pc \in {"editing", "reindexing"}
                                            /\ q.snap = ChunksOf({f})'
                                            /\ \A p \in Requests \ {r} : ~HoldsRow(p, f)
    BY DEF HoldsRow
  <1>3. LoadedWell(req[r])'
    BY DEF LoadedWell
  <1>4. RequestWell(r)'
    BY <1>1, <1>2, <1>3 DEF RequestWell
  <1>5. ASSUME NEW p \in Requests \ {r} PROVE RequestWell(p)'
    <2>1. RequestWell(p) /\ req'[p] = req[p] /\ CopiesStay(p)
      BY DEF OthersWait
    <2>2. LoadedWell(req[p])'
      BY <2>1 DEF RequestWell, LoadedWell
    <2>3. req[p].targets \subseteq Fixes
      BY DEF TypeOK, Request
    <2>4. \A f \in req'[p].targets : fix'[f].state # "absent"
      BY <2>1, <2>3 DEF RequestWell, NoneVanishes
    <2>5. ASSUME NEW f \in Fixes, HoldsRow(p, f)'
          PROVE  /\ req'[p].snap = ChunksOf({f})'
                 /\ \A o \in Requests \ {p} : ~HoldsRow(o, f)'
      <3>1. HoldsRow(p, f)
        BY <1>1, <2>5
      <3>2. req'[p].snap = ChunksOf({f})'
        BY <2>1, <3>1 DEF RequestWell, CopiesStay
      <3>3. ~HoldsRow(r, f)'
        BY <1>2, <3>1
      <3>4. \A o \in Requests \ {p, r} : ~HoldsRow(o, f)'
        BY <1>1, <2>1, <3>1 DEF RequestWell
      <3>5. QED
        BY <3>2, <3>3, <3>4
    <2>6. QED
      BY <2>2, <2>4, <2>5 DEF RequestWell
  <1>6. QED
    BY <1>4, <1>5

\* No request moves.
LEMMA AllWaitWell ==
  ASSUME TypeOK, \A p \in Requests : RequestWell(p), UNCHANGED req,
         NoneVanishes, \A p \in Requests : CopiesStay(p)
  PROVE  \A p \in Requests : RequestWell(p)'
  <1>1. ASSUME NEW r \in Requests PROVE RequestWell(r)'
    <2>1. PICK q : q = req[r]
      OBVIOUS
    <2>2. OthersWait(r) /\ req'[r] = q /\ q.targets \subseteq Fixes /\ LoadedWell(q)
      BY <2>1 DEF OthersWait, TypeOK, Request, RequestWell
    <2>3. \A f \in q.targets : fix'[f].state # "absent"
      BY <2>1, <2>2 DEF RequestWell, NoneVanishes
    <2>4. \A f \in q.targets : q.pc \in {"editing", "reindexing"} =>
            /\ q.snap = ChunksOf({f})'
            /\ \A p \in Requests \ {r} : ~HoldsRow(p, f)
      BY <2>1, <2>2 DEF RequestWell, HoldsRow, CopiesStay
    <2>5. QED
      BY <2>2, <2>3, <2>4, RequestsWell
  <1>2. QED
    BY <1>1

\* A request that ends.
LEMMA EndsWell ==
  ASSUME TypeOK, \A p \in Requests : RequestWell(p), NEW r \in Requests, Ends(r),
         NoneVanishes, \A p \in Requests \ {r} : CopiesStay(p)
  PROVE  \A p \in Requests : RequestWell(p)'
  <1>1. PICK q : q = Idle("done")
    OBVIOUS
  <1>2. q.targets = {} /\ q.snap = {} /\ q.text = None
    BY <1>1 DEF Idle
  <1>3. LoadedWell(q)
    BY <1>2 DEF LoadedWell
  <1>4. OthersWait(r) /\ req'[r] = q
    BY <1>1 DEF Ends
  <1>5. QED
    BY <1>2, <1>3, <1>4, RequestsWell

\* A request that has loaded its rows.
LEMMA BeginsWell ==
  ASSUME IndexInv, \A f \in Fixes : FixWell(f), \A p \in Requests : RequestWell(p),
         NEW r \in Requests, NEW q, Begins(r, q), Quiet
  PROVE  \A p \in Requests : RequestWell(p)'
  <1>1. /\ q \in Request /\ q.pc = "loaded" /\ q.snap = {} /\ req'[r] = q /\ OthersWait(r)
        /\ q.op \in Transitions \ {"approve"} => q.text = None
        /\ \A f \in q.targets : Loadable(q.op, f) /\ q.seen[f] = fix[f]
    BY DEF Begins
  <1>2. q.targets \subseteq Fixes
    BY <1>1 DEF Request
  <1>3. LoadedWell(q)
    BY <1>1, <1>2 DEF LoadedWell, Loadable, FixWell
  <1>4. NoneVanishes /\ \A p \in Requests : CopiesStay(p)
    BY DEF Quiet, Untouched, NoneVanishes, CopiesStay
  <1>5. \A f \in q.targets : fix'[f].state # "absent"
    BY <1>1, <1>2, <1>4, RowStates DEF Loadable, Exists, NoneVanishes
  <1>6. QED
    BY <1>1, <1>2, <1>3, <1>4, <1>5, RequestsWell DEF IndexInv

\* A request that goes on.
LEMMA GoesOnWell ==
  ASSUME IndexInv, \A p \in Requests : RequestWell(p),
         NEW r \in Requests, NEW p0, NEW q, GoesOn(r, p0, q), Quiet
  PROVE  \A p \in Requests : RequestWell(p)'
  <1>1. /\ p0 = req[r] /\ req'[r] = q /\ OthersWait(r)
        /\ q \in Request /\ q.op = p0.op /\ q.targets = p0.targets
        /\ q.text = p0.text /\ q.seen = p0.seen
    BY DEF GoesOn
  <1>2. LoadedWell(p0) /\ \A f \in p0.targets : fix[f].state # "absent"
    BY <1>1 DEF RequestWell
  <1>3. q.targets \subseteq Fixes
    BY <1>1 DEF Request
  <1>4. NoneVanishes /\ \A p \in Requests : CopiesStay(p)
    BY DEF Quiet, Untouched, NoneVanishes, CopiesStay
  <1>5. \A c \in q.snap : c.fix \in q.targets
    BY <1>1, <1>2 DEF GoesOn, LoadedWell, ChunksOf
  <1>6. LoadedWell(q)
    BY <1>1, <1>2, <1>5 DEF LoadedWell
  <1>7. \A f \in q.targets : fix'[f].state # "absent"
    BY <1>1, <1>2, <1>3, <1>4 DEF NoneVanishes
  <1>8. \A f \in q.targets : q.pc \in {"editing", "reindexing"} =>
          /\ q.snap = ChunksOf({f})'
          /\ \A p \in Requests \ {r} : ~HoldsRow(p, f)
    <2> SUFFICES ASSUME NEW f \in q.targets, q.pc \in {"editing", "reindexing"}
                 PROVE  /\ q.snap = ChunksOf({f})'
                        /\ \A p \in Requests \ {r} : ~HoldsRow(p, f)
      OBVIOUS
    <2>1. f \in Fixes /\ ChunksOf({f})' = ChunksOf({f}) /\ ChunksOf({f}) \subseteq chunks
      BY <1>3 DEF Quiet, Untouched, ChunksOf
    <2>2. CASE p0.pc = "loaded"
      BY <1>1, <2>1, <2>2 DEF GoesOn, RowsFree
    <2>3. CASE p0.pc = "editing"
      <3>1. HoldsRow(r, f)
        BY <1>1, <2>3 DEF HoldsRow
      <3>2. p0.snap = ChunksOf({f}) /\ \A p \in Requests \ {r} : ~HoldsRow(p, f)
        BY <1>1, <2>1, <3>1 DEF RequestWell
      <3>3. q.snap = p0.snap \cap chunks
        BY <2>3 DEF GoesOn
      <3>4. QED
        BY <2>1, <3>2, <3>3
    <2>4. QED
      BY <2>2, <2>3 DEF GoesOn
  <1>9. QED
    BY <1>1, <1>3, <1>4, <1>6, <1>7, <1>8, RequestsWell DEF IndexInv

\* What a deletion, a decision and an edit leave of the rows and the copies.
LEMMA RemovesLeaves ==
  ASSUME NEW fs \in SUBSET Fixes, Removes(fs)
  PROVE  NoneVanishes /\ \A p \in Requests : CopiesStay(p)
  BY DEF Removes, Untouched, NoneVanishes, CopiesStay

LEMMA DecidesLeaves ==
  ASSUME NEW r \in Requests, NEW f \in Fixes, NEW q, Decides(r, f, q), LoadedWell(q)
  PROVE  NoneVanishes /\ \A p \in Requests \ {r} : CopiesStay(p)
  <1>1. q.op \in Transitions /\ f \in q.targets
    BY DEF Decides
  <1>2. CanTransition(q.seen[f].state, Target[q.op])
    BY <1>1 DEF LoadedWell
  <1>3. PICK dst : dst = Target[q.op]
    OBVIOUS
  <1>4. dst # q.seen[f].state /\ dst # "absent"
    BY <1>1, <1>2, <1>3, Targets
  <1>5. fix'[f].state # "absent"
    BY <1>3, <1>4 DEF Decides, Written
  <1>6. \A g \in Fixes \ {f} : fix'[g].state = fix[g].state /\ ChunksOf({g})' = ChunksOf({g})
    BY DEF Decides, OthersUntouched, Untouched
  <1>7. \A p \in Requests \ {r} : ~HoldsRow(p, f)
    BY DEF Decides
  <1>8. QED
    BY <1>5, <1>6, <1>7 DEF NoneVanishes, CopiesStay

LEMMA EditsLeaves ==
  ASSUME NEW r \in Requests, RequestWell(r), NEW f \in Fixes, NEW q, Edits(r, f, q)
  PROVE  NoneVanishes /\ \A p \in Requests \ {r} : CopiesStay(p)
  <1>1. \A p \in Requests \ {r} : ~HoldsRow(p, f)
    BY DEF Edits, RequestWell, HoldsRow
  <1>2. \A g \in Fixes \ {f} : fix'[g].state = fix[g].state /\ ChunksOf({g})' = ChunksOf({g})
    BY DEF Edits, OthersUntouched, Untouched
  <1>3. fix'[f].state = fix[f].state
    BY DEF Edits
  <1>4. QED
    BY <1>1, <1>2, <1>3 DEF NoneVanishes, CopiesStay

LEMMA OpensLeaves ==
  ASSUME NEW f \in Fixes, Opens(f)
  PROVE  NoneVanishes /\ \A p \in Requests : CopiesStay(p)
  BY DEF Opens, OthersUntouched, Untouched, NoneVanishes, CopiesStay

-----------------------------------------------------------------------------
(***************************************************************************)
(* The invariant, and what follows from it.                                *)
(***************************************************************************)

LEMMA TrailInvInit == Init => TrailInv
  <1> SUFFICES ASSUME Init PROVE TrailInv
    OBVIOUS
  <1>1. IndexInv
    BY IndexInvInit
  <1>2. ASSUME NEW f \in Fixes PROVE FixWell(f)
    <2>1. fix[f].state = "absent"
      BY RowStates DEF Init
    <2>2. Moves(f) = {} /\ ChunksOf({f}) = {}
      BY DEF Init, Moves, ChunksOf
    <2>3. IsFiniteSet({}) /\ Cardinality({}) = 0
      BY FS_EmptySet
    <2>4. Cardinality(Approvals(f)) \in Nat
      BY <1>1, ApprovalsFinite DEF IndexInv
    <2>5. IsFiniteSet(ChunksOf({f})) /\ Cardinality(ChunksOf({f})) <= Cardinality(Approvals(f))
      BY <2>2, <2>3, <2>4
    <2>6. ~Exists(f)
      BY <2>1, RowStates DEF Exists
    <2>7. QED
      BY <2>1, <2>2, <2>5, <2>6 DEF FixWell
  <1>3. ASSUME NEW r \in Requests PROVE RequestWell(r)
    <2>1. req[r].targets = {} /\ req[r].snap = {} /\ req[r].text = None
      BY DEF Init, Idle
    <2>2. QED
      BY <2>1 DEF RequestWell, LoadedWell, HoldsRow
  <1>4. QED
    BY <1>1, <1>2, <1>3 DEF TrailInv

\* Every step preserves the invariant.
LEMMA TrailInvNext == TrailInv /\ [Next]_vars => TrailInv'
  <1> SUFFICES ASSUME TrailInv, [Next]_vars PROVE TrailInv'
    OBVIOUS
  <1>1. /\ IndexInv /\ TypeOK
        /\ \A f \in Fixes : FixWell(f)
        /\ \A r \in Requests : RequestWell(r) /\ LoadedWell(req[r])
    BY DEF TrailInv, IndexInv, RequestWell
  <1>2. IndexInv'
    BY <1>1, IndexInvNext
  <1>3. Effect
    BY <1>1, StepHasEffect
  <1>4. ASSUME Quiet
        PROVE  /\ \A f \in Fixes : FixWell(f)'
               /\ NoneVanishes /\ \A p \in Requests : CopiesStay(p)
    <2>1. \A f \in Fixes : FixWell(f)'
      BY <1>1, <1>4, UntouchedWell DEF Quiet
    <2>2. QED
      BY <1>4, <2>1 DEF Quiet, Untouched, NoneVanishes, CopiesStay
  <1>5. ASSUME NEW f \in Fixes, Opens(f)
        PROVE  /\ \A g \in Fixes : FixWell(g)'
               /\ NoneVanishes /\ \A p \in Requests : CopiesStay(p)
    <2>1. FixWell(f)'
      BY <1>1, <1>5, OpensWell
    <2>2. \A g \in Fixes \ {f} : FixWell(g)'
      BY <1>1, <1>5, UntouchedWell DEF Opens, OthersUntouched
    <2>3. QED
      BY <1>5, <2>1, <2>2, OpensLeaves
  <1>6. ASSUME NEW fs \in SUBSET Fixes, Removes(fs)
        PROVE  /\ \A g \in Fixes : FixWell(g)'
               /\ NoneVanishes /\ \A p \in Requests : CopiesStay(p)
    <2>1. \A f \in fs : FixWell(f)'
      BY <1>1, <1>6, RemovesWell
    <2>2. \A g \in Fixes \ fs : FixWell(g)'
      BY <1>1, <1>6, UntouchedWell DEF Removes
    <2>3. QED
      BY <1>6, <2>1, <2>2, RemovesLeaves
  <1>7. ASSUME NEW r \in Requests, NEW f \in Fixes, NEW q, Decides(r, f, q)
        PROVE  /\ \A g \in Fixes : FixWell(g)'
               /\ NoneVanishes /\ \A p \in Requests \ {r} : CopiesStay(p)
    <2>1. LoadedWell(q)
      BY <1>1, <1>7 DEF Decides
    <2>2. FixWell(f)'
      BY <1>1, <1>7, <2>1, DecidesWell
    <2>3. \A g \in Fixes \ {f} : FixWell(g)'
      BY <1>1, <1>7, UntouchedWell DEF Decides, OthersUntouched
    <2>4. QED
      BY <1>7, <2>1, <2>2, <2>3, DecidesLeaves
  <1>8. ASSUME NEW r \in Requests, NEW f \in Fixes, NEW q, Edits(r, f, q)
        PROVE  /\ \A g \in Fixes : FixWell(g)'
               /\ NoneVanishes /\ \A p \in Requests \ {r} : CopiesStay(p)
    <2>1. FixWell(f)'
      BY <1>1, <1>8, EditsWell
    <2>2. \A g \in Fixes \ {f} : FixWell(g)'
      BY <1>1, <1>8, UntouchedWell DEF Edits, OthersUntouched
    <2>3. QED
      BY <1>1, <1>8, <2>1, <2>2, EditsLeaves
  <1>9. CASE UNCHANGED req /\ \/ Quiet
                              \/ \E f \in Fixes : Opens(f)
                              \/ \E fs \in SUBSET Fixes : Removes(fs)
    <2>1. /\ \A g \in Fixes : FixWell(g)'
          /\ NoneVanishes /\ \A p \in Requests : CopiesStay(p)
      BY <1>4, <1>5, <1>6, <1>9
    <2>2. \A p \in Requests : RequestWell(p)'
      BY <1>1, <1>9, <2>1, AllWaitWell
    <2>3. QED
      BY <1>2, <2>1, <2>2 DEF TrailInv
  <1>10. ASSUME NEW r \in Requests, Quiet, NEW q, Begins(r, q) PROVE TrailInv'
    BY <1>1, <1>2, <1>4, <1>10, BeginsWell DEF TrailInv
  <1>11. ASSUME NEW r \in Requests, Quiet, NEW p, NEW q, GoesOn(r, p, q) PROVE TrailInv'
    BY <1>1, <1>2, <1>4, <1>11, GoesOnWell DEF TrailInv
  <1>12. ASSUME NEW r \in Requests, Ends(r),
                \/ Quiet
                \/ \E fs \in SUBSET Fixes : Removes(fs)
                \/ \E f \in Fixes : \E q : Decides(r, f, q)
                \/ \E f \in Fixes : \E q : Edits(r, f, q)
         PROVE  TrailInv'
    <2>1. /\ \A g \in Fixes : FixWell(g)'
          /\ NoneVanishes /\ \A p \in Requests \ {r} : CopiesStay(p)
      BY <1>4, <1>6, <1>7, <1>8, <1>12
    <2>2. \A p \in Requests : RequestWell(p)'
      BY <1>1, <1>12, <2>1, EndsWell
    <2>3. QED
      BY <1>2, <2>1, <2>2 DEF TrailInv
  <1>13. QED
    BY <1>3, <1>9, <1>10, <1>11, <1>12 DEF Effect

\* The invariant holds of every behaviour.
LEMMA TrailInvAlways == Spec => []TrailInv
  BY TrailInvInit, TrailInvNext, PTL DEF Spec

\* The audit trail explains the state of every fix, in the order of the commits,
\* however the decisions on it interleave.
THEOREM TrailExplainsState == Spec => []StateIsLastAudited
  <1>1. TrailInv => StateIsLastAudited
    BY DEF TrailInv, FixWell, StateIsLastAudited
  <1>2. QED
    BY <1>1, TrailInvAlways, PTL

\* The badge of an approved fix names the reviewer of its last approval, as long
\* as that user exists: a decision that came to nothing never signs a fix.
THEOREM BadgeIsEarned == Spec => []BadgeNamesApprover
  <1>1. TrailInv => BadgeNamesApprover
    BY DEF TrailInv, FixWell, BadgeNamesApprover
  <1>2. QED
    BY <1>1, TrailInvAlways, PTL

\* An edit adds no copy to the index: a fix is there at most once per approval.
THEOREM CopiesAreApproved == Spec => []NoExtraCopies
  <1>1. TrailInv => NoExtraCopies
    BY DEF TrailInv, FixWell, NoExtraCopies
  <1>2. QED
    BY <1>1, TrailInvAlways, PTL

=============================================================================
