---------------------- MODULE CurationOverlapsProofs ----------------------
(***************************************************************************)
(* Proofs about Curation with the history of CurationOverlaps: what every  *)
(* interleaving leaves true of the fixes that no overtaken request has     *)
(* committed.                                                              *)
(***************************************************************************)
EXTENDS CurationOverlaps, CurationTrailProofs

-----------------------------------------------------------------------------
(***************************************************************************)
(* The inductive invariant: a fix that a curator request has in hand, and  *)
(* that no other one has committed since, is still what the request        *)
(* loaded, unless it was deleted meanwhile; and the chunks its retirement  *)
(* has seen are all there are.                                             *)
(***************************************************************************)

HandWell(r, f) ==
  InHand(r, f) /\ f \notin overtaken[r] =>
    /\ Exists(f) => /\ fix[f].state = req[r].seen[f].state
                    /\ fix[f].text = req[r].seen[f].text
    /\ req[r].pc \in {"purging", "purged"} => ChunksOf({f}) \subseteq req[r].snap

InSync(f) ==
  IF fix[f].state = "approved"
  THEN \E c \in chunks : ChunksOf({f}) = {c} /\ c.text = fix[f].text
  ELSE ChunksOf({f}) = {}

Chained(f) ==
  \A i, j \in Moves(f) :
    i < j /\ (\A k \in Moves(f) : k <= i \/ j <= k) => audit[j].from = audit[i].to

HistoryInv ==
  /\ TrailInv
  /\ \A f \in Fixes \ contested : InSync(f) /\ Chained(f)
  /\ \A r \in Requests, f \in Fixes : HandWell(r, f)

(***************************************************************************)
(* What the history says of a step.                                        *)
(***************************************************************************)

Recalls ==
  /\ contested \subseteq contested'
  /\ \A f \in contested' \ contested : f \in Fixes /\ \E r \in Requests : Commits(r, f)
  /\ \A p \in Requests, f \in Fixes : InHand(p, f)' /\ f \notin overtaken'[p] =>
       f \notin overtaken[p] /\ \A r \in Requests \ {p} : InHand(p, f) => ~Commits(r, f)
  /\ \A r \in Requests, f \in Fixes : Commits(r, f) /\ f \notin contested' =>
       f \notin overtaken[r]

LEMMA HistoryRecalls == ASSUME [HNext]_hvars PROVE Recalls
  <1>1. CASE Remember
    <2>1. ASSUME NEW p \in Requests, NEW f \in Fixes, InHand(p, f)', f \notin overtaken'[p]
          PROVE  f \notin overtaken[p] /\ \A r \in Requests \ {p} : InHand(p, f) => ~Commits(r, f)
      <3>1. overtaken'[p] = overtaken[p] \cup Overtaken(p)
        BY <1>1, <2>1 DEF Remember, InHand, Open
      <3>2. QED
        BY <2>1, <3>1 DEF Overtaken
    <2>2. contested' = contested \cup
                         {f \in Fixes : \E r \in Requests : f \in overtaken[r] /\ Commits(r, f)}
      BY <1>1 DEF Remember
    <2>3. QED
      BY <2>1, <2>2 DEF Recalls
  <1>2. CASE UNCHANGED hvars
    <2>1. \A r \in Requests, f \in Fixes : ~Commits(r, f)
      BY <1>2 DEF hvars, vars, Commits, InHand, Open
    <2>2. QED
      BY <1>2, <2>1 DEF hvars, Recalls
  <1>3. QED
    BY <1>1, <1>2 DEF HNext

\* A step that commits nothing of a curator contests nothing.
LEMMA NothingContested ==
  ASSUME Recalls,
         \/ UNCHANGED req
         \/ \E r \in Requests : /\ OthersWait(r)
                                /\ req'[r].pc # "done" \/ CommitsNone(r)
  PROVE  contested' = contested
  <1>1. ASSUME NEW p \in Requests, NEW f \in Fixes, Commits(p, f) PROVE FALSE
    <2>1. req'[p].pc = "done" /\ req[p].pc # "done" /\ req[p].op \in CuratorOps /\ audit' # audit
      BY <1>1 DEF Commits, InHand, Open
    <2>2. QED
      BY <2>1 DEF OthersWait, CommitsNone
  <1>2. QED
    BY <1>1 DEF Recalls

\* Only the chunks of f matter to InSync, not which chunks there are besides.
LEMMA InSyncChunks ==
  ASSUME NEW f
  PROVE  /\ InSync(f) <=> IF fix[f].state = "approved"
                          THEN \E c : ChunksOf({f}) = {c} /\ c.text = fix[f].text
                          ELSE ChunksOf({f}) = {}
         /\ InSync(f)' <=> IF fix'[f].state = "approved"
                           THEN \E c : ChunksOf({f})' = {c} /\ c.text = fix'[f].text
                           ELSE ChunksOf({f})' = {}
  <1>1. ChunksOf({f}) \subseteq chunks /\ ChunksOf({f})' \subseteq chunks'
    BY DEF ChunksOf
  <1>2. QED
    BY <1>1 DEF InSync

-----------------------------------------------------------------------------
(***************************************************************************)
(* What each effect leaves of the index and the chain of one fix.          *)
(***************************************************************************)

\* A trail that says nothing new.
LEMMA StandsChained ==
  ASSUME NEW f, TrailStands(f), Chained(f) PROVE Chained(f)'
  BY DEF TrailStands, Chained

\* A move that starts where the last one ended.
LEMMA MovesChained ==
  ASSUME NEW f, NEW actor, NEW action, NEW from, NEW to,
         TrailMoves(f, actor, action, from, to), Chained(f),
         \A i \in Moves(f) : LastMove(f, i) => audit[i].to = from
  PROVE  Chained(f)'
  <1>1. PICK n \in Nat :
          /\ Moves(f)' = Moves(f) \cup {n}
          /\ \A i \in Moves(f) : i \in Nat /\ i < n /\ audit'[i] = audit[i]
          /\ audit'[n].from = from
    BY DEF TrailMoves
  <1>2. ASSUME NEW i \in Moves(f)', NEW j \in Moves(f)', i < j,
               \A k \in Moves(f)' : k <= i \/ j <= k
        PROVE  audit'[j].from = audit'[i].to
    <2>1. i \in Moves(f)
      BY <1>1, <1>2
    <2>2. CASE j \in Moves(f)
      BY <1>1, <1>2, <2>1, <2>2 DEF Chained
    <2>3. CASE j = n
      <3>1. \A k \in Moves(f) : k <= i
        BY <1>1, <1>2, <2>3
      <3>2. LastMove(f, i)
        BY <2>1, <3>1 DEF LastMove
      <3>3. QED
        BY <1>1, <2>1, <2>3, <3>2
    <2>4. QED
      BY <1>1, <2>2, <2>3
  <1>3. QED
    BY <1>2 DEF Chained

LEMMA UntouchedInStep ==
  ASSUME NEW f \in Fixes, Untouched(f), InSync(f), Chained(f)
  PROVE  InSync(f)' /\ Chained(f)'
  <1>1. /\ fix'[f].state = fix[f].state /\ fix'[f].text = fix[f].text
        /\ ChunksOf({f})' = ChunksOf({f}) /\ TrailStands(f)
    BY DEF Untouched
  <1>2. InSync(f)'
    BY <1>1, InSyncChunks
  <1>3. QED
    BY <1>1, <1>2, StandsChained

LEMMA RemovesInStep ==
  ASSUME NEW fs \in SUBSET Fixes, NEW f \in fs, Removes(fs), Chained(f)
  PROVE  InSync(f)' /\ Chained(f)'
  <1>1. fix'[f].state = "deleted" /\ ChunksOf({f})' = {} /\ TrailStands(f)
    BY DEF Removes
  <1>2. InSync(f)'
    BY <1>1, InSyncChunks
  <1>3. QED
    BY <1>1, <1>2, StandsChained

LEMMA OpensInStep ==
  ASSUME NEW f \in Fixes, Opens(f), FixWell(f), InSync(f), Chained(f)
  PROVE  InSync(f)' /\ Chained(f)'
  <1>1. /\ fix[f].state = "absent" /\ fix'[f].state = "pending_review"
        /\ ChunksOf({f})' = ChunksOf({f})
    BY DEF Opens
  <1>2. InSync(f)'
    BY <1>1, InSyncChunks
  <1>3. Moves(f) = {}
    BY <1>1 DEF FixWell
  <1>4. PICK actor, action, from : TrailMoves(f, actor, action, from, "pending_review")
    BY DEF Opens
  <1>5. Chained(f)'
    BY <1>3, <1>4, MovesChained
  <1>6. QED
    BY <1>2, <1>5

\* A curator request commits.
Saving(r, f, q) == Decides(r, f, q) \/ Edits(r, f, q)

LEMMA SavingCommits ==
  ASSUME NEW r \in Requests, NEW f \in Fixes, NEW q, Saving(r, f, q), Ends(r)
  PROVE  Commits(r, f) /\ q = req[r]
  <1>1. q = req[r] /\ f \in q.targets /\ q.op \in CuratorOps
    BY DEF Saving, Decides, Edits, CuratorOps
  <1>2. q.pc \in {"loaded", "purged", "reindexing"}
    BY DEF Saving, Decides, Edits
  <1>3. audit' # audit
    <2>1. CASE Edits(r, f, q)
      BY <2>1 DEF Edits
    <2>2. ASSUME Decides(r, f, q), audit' = audit PROVE FALSE
      <3>1. PICK n \in Nat : Moves(f)' = Moves(f) \cup {n} /\ \A i \in Moves(f) : i < n
        BY <2>2 DEF Decides, TrailMoves
      <3>2. Moves(f)' = Moves(f)
        BY <2>2 DEF Moves
      <3>3. n < n
        BY <3>1, <3>2
      <3>4. QED
        BY <3>3
    <2>3. QED
      BY <2>1, <2>2 DEF Saving
  <1>4. QED
    BY <1>1, <1>2, <1>3 DEF Commits, InHand, Open, Ends, Idle

\* If nobody has overtaken it, the row is what it loaded.
LEMMA SavingInHand ==
  ASSUME NEW r \in Requests, NEW f \in Fixes, NEW q, Saving(r, f, q), HandWell(r, f),
         f \notin overtaken[r]
  PROVE  /\ f \in q.targets /\ InHand(r, f)
         /\ Exists(f) /\ fix[f].state = q.seen[f].state /\ fix[f].text = q.seen[f].text
         /\ q.pc \in {"purging", "purged"} => ChunksOf({f}) \subseteq q.snap
  <1>1. q = req[r] /\ f \in q.targets /\ Exists(f)
    BY DEF Saving, Decides, Edits
  <1>2. q.op \in CuratorOps
    BY DEF Saving, Decides, Edits, CuratorOps
  <1>3. q.pc \in {"loaded", "purged", "reindexing"}
    BY DEF Saving, Decides, Edits
  <1>4. InHand(r, f)
    BY <1>1, <1>2, <1>3 DEF InHand, Open
  <1>5. QED
    BY <1>1, <1>4 DEF HandWell

LEMMA DecidesInStep ==
  ASSUME NEW r \in Requests, NEW f \in Fixes, NEW q, Decides(r, f, q), HandWell(r, f),
         f \notin overtaken[r], LoadedWell(q), FixWell(f), InSync(f), Chained(f)
  PROVE  /\ InSync(f)' /\ Chained(f)'
         /\ fix'[f].state = Target[q.op] /\ CanTransition(fix[f].state, Target[q.op])
         /\ fix'[f].text = NewText(q, f) /\ (q.op # "approve" => NewText(q, f) = fix[f].text)
  <1>1. /\ f \in q.targets /\ Exists(f)
        /\ fix[f].state = q.seen[f].state /\ fix[f].text = q.seen[f].text
        /\ q.pc \in {"purging", "purged"} => ChunksOf({f}) \subseteq q.snap
    <2>1. Saving(r, f, q)
      BY DEF Saving
    <2>2. QED
      BY <2>1, SavingInHand
  <1>2. q.op \in Transitions /\ CanTransition(q.seen[f].state, Target[q.op])
    BY <1>1 DEF LoadedWell, Decides
  <1>3. PICK dst : dst = Target[q.op]
    OBVIOUS
  <1>4. /\ dst # q.seen[f].state
        /\ dst = "approved" <=> q.op = "approve"
        /\ q.op \in {"approve", "reject", "unsafe"} => q.seen[f].state = "pending_review"
    BY <1>2, <1>3, Targets
  <1>5. fix'[f].state = dst /\ fix'[f].text = NewText(q, f)
    BY <1>1, <1>3, <1>4 DEF Decides, Written
  <1>6. InSync(f)'
    <2>1. CASE q.op = "approve"
      <3>1. ChunksOf({f}) = {}
        BY <1>1, <1>4, <2>1, InSyncChunks
      <3>2. PICK e, n : /\ e = [fix |-> f, text |-> NewText(q, f), id |-> n]
                        /\ ChunksOf({f})' = ChunksOf({f}) \cup {e}
        BY <2>1 DEF Decides
      <3>3. ChunksOf({f})' = {e} /\ e.text = fix'[f].text
        BY <1>5, <3>1, <3>2
      <3>4. QED
        BY <1>4, <1>5, <2>1, <3>3, InSyncChunks
    <2>2. CASE q.op = "retire"
      <3>1. ChunksOf({f})' = ChunksOf({f}) \ q.snap /\ q.pc = "purged"
        BY <2>2 DEF Decides
      <3>2. ChunksOf({f})' = {}
        BY <1>1, <3>1
      <3>3. QED
        BY <1>4, <1>5, <2>2, <3>2, InSyncChunks
    <2>3. CASE q.op \in {"reject", "unsafe"}
      <3>1. ChunksOf({f})' = ChunksOf({f}) /\ ChunksOf({f}) = {}
        BY <1>1, <1>4, <2>3, InSyncChunks DEF Decides
      <3>2. QED
        BY <1>4, <1>5, <2>3, <3>1, InSyncChunks
    <2>4. QED
      BY <1>2, <2>1, <2>2, <2>3, Operations
  <1>7. Chained(f)'
    <2>1. PICK action : TrailMoves(f, q.actor, action, q.seen[f].state, Target[q.op])
      BY DEF Decides
    <2>2. \A i \in Moves(f) : LastMove(f, i) => audit[i].to = q.seen[f].state
      <3>1. PICK i \in Moves(f) : LastMove(f, i) /\ audit[i].to = fix[f].state
        BY <1>1 DEF FixWell
      <3>2. \A j \in Moves(f) : j \in Nat
        BY <2>1 DEF TrailMoves
      <3>3. ASSUME NEW j \in Moves(f), LastMove(f, j) PROVE j = i
        <4>1. i <= j /\ j <= i
          BY <3>1, <3>3 DEF LastMove
        <4>2. QED
          BY <3>2, <4>1
      <3>4. QED
        BY <1>1, <3>1, <3>3
    <2>3. QED
      BY <2>1, <2>2, MovesChained
  <1>8. q.op # "approve" => NewText(q, f) = fix[f].text
    BY <1>1, <1>2 DEF NewText, LoadedWell
  <1>9. QED
    BY <1>1, <1>2, <1>3, <1>5, <1>6, <1>7, <1>8

LEMMA EditsInStep ==
  ASSUME IndexInv, NEW r \in Requests, NEW f \in Fixes, NEW q, Edits(r, f, q), HandWell(r, f),
         f \notin overtaken[r], RequestWell(r), InSync(f), Chained(f)
  PROVE  /\ InSync(f)' /\ Chained(f)'
         /\ fix'[f].state = fix[f].state /\ fix'[f].text = NewText(q, f)
  <1>1. /\ q = req[r] /\ f \in q.targets /\ Exists(f)
        /\ fix[f].state = q.seen[f].state /\ fix[f].text = q.seen[f].text
    <2>1. Saving(r, f, q)
      BY DEF Saving
    <2>2. Exists(f) /\ fix[f].state = q.seen[f].state /\ fix[f].text = q.seen[f].text
      BY <2>1, SavingInHand
    <2>3. QED
      BY <2>2 DEF Edits
  <1>2. fix'[f].state = fix[f].state /\ fix'[f].text = NewText(q, f)
    BY <1>1 DEF Edits, Written
  <1>3. InSync(f)'
    <2>1. CASE q.pc = "loaded"
      <3>1. /\ ChunksOf({f})' = ChunksOf({f})
            /\ q.text = None \/ q.seen[f].state # "approved"
        BY <2>1 DEF Edits
      <3>2. fix[f].state = "approved" => fix'[f].text = fix[f].text
        BY <1>1, <1>2, <3>1 DEF NewText
      <3>3. QED
        BY <1>2, <3>1, <3>2, InSyncChunks
    <2>2. CASE q.pc = "reindexing"
      <3>1. q.snap = ChunksOf({f})
        BY <1>1, <2>2 DEF RequestWell, HoldsRow
      <3>2. q.seen[f].state = "approved"
        BY <1>1, <2>2 DEF IndexInv, RequestInv
      <3>3. PICK e, n : /\ e = [fix |-> f, text |-> NewText(q, f), id |-> n]
                        /\ ChunksOf({f})' = (ChunksOf({f}) \ q.snap) \cup {e}
        BY <2>2 DEF Edits
      <3>4. ChunksOf({f})' = {e} /\ e.text = fix'[f].text
        BY <1>2, <3>1, <3>3
      <3>5. QED
        BY <1>1, <1>2, <3>2, <3>4, InSyncChunks
    <2>3. QED
      BY <2>1, <2>2 DEF Edits
  <1>4. Chained(f)'
    BY StandsChained DEF Edits
  <1>5. QED
    BY <1>2, <1>3, <1>4

-----------------------------------------------------------------------------
(***************************************************************************)
(* What is in hand stays as it was loaded, until somebody overtakes it.    *)
(***************************************************************************)

\* The row of f is not written, though it may be deleted, and no copy is added.
LeftAlone(f) ==
  /\ Exists(f)' => Exists(f) /\ fix'[f].state = fix[f].state /\ fix'[f].text = fix[f].text
  /\ ChunksOf({f})' \subseteq ChunksOf({f})

\* What HandWell asks of a request with the row and the chunks of f.
AsLoaded(q, f) ==
  /\ Exists(f)' => fix'[f].state = q.seen[f].state /\ fix'[f].text = q.seen[f].text
  /\ q.pc \in {"purging", "purged"} => ChunksOf({f})' \subseteq q.snap

\* p has f in hand after the step, and has not been overtaken.
Keeps(p, f) == InHand(p, f)' /\ f \notin overtaken'[p]

\* The requests that a step leaves alone.
LEMMA OthersHands ==
  ASSUME Recalls, \A p \in Requests, f \in Fixes : HandWell(p, f),
         NEW ps \in SUBSET Requests, \A p \in ps : req'[p] = req[p],
         \A p \in ps, f \in Fixes : InHand(p, f) /\ Keeps(p, f) => LeftAlone(f)
  PROVE  \A p \in ps, f \in Fixes : HandWell(p, f)'
  <1> SUFFICES ASSUME NEW p \in ps, NEW f \in Fixes, Keeps(p, f) PROVE HandWell(p, f)'
    BY DEF HandWell, Keeps
  <1>1. req'[p] = req[p] /\ InHand(p, f)
    BY DEF Keeps, InHand, Open
  <1>2. LeftAlone(f) /\ f \notin overtaken[p]
    BY <1>1 DEF Recalls, Keeps
  <1>3. HandWell(p, f)
    OBVIOUS
  <1>4. Exists(f)' => /\ fix'[f].state = req'[p].seen[f].state
                      /\ fix'[f].text = req'[p].seen[f].text
    BY <1>1, <1>2, <1>3 DEF HandWell, LeftAlone
  <1>5. req'[p].pc \in {"purging", "purged"} => ChunksOf({f})' \subseteq req'[p].snap
    BY <1>1, <1>2, <1>3 DEF HandWell, LeftAlone
  <1>6. QED
    BY <1>4, <1>5 DEF HandWell

\* The requests that a step leaves alone, and the one that moves.
LEMMA HandsWell ==
  ASSUME Recalls, \A p \in Requests, f \in Fixes : HandWell(p, f),
         NEW r \in Requests, OthersWait(r),
         \A p \in Requests \ {r}, f \in Fixes : InHand(p, f) /\ Keeps(p, f) => LeftAlone(f),
         NEW q, req'[r] = q, \A f \in Fixes : Keeps(r, f) => AsLoaded(q, f)
  PROVE  \A p \in Requests, f \in Fixes : HandWell(p, f)'
  <1>1. \A f \in Fixes : HandWell(r, f)'
    BY DEF HandWell, AsLoaded, Keeps
  <1>2. \A p \in Requests \ {r}, f \in Fixes : HandWell(p, f)'
    BY OthersHands DEF OthersWait
  <1>3. QED
    BY <1>1, <1>2

\* A request that ends has nothing in hand.
LEMMA EndsHands ==
  ASSUME Recalls, \A p \in Requests, f \in Fixes : HandWell(p, f), NEW r \in Requests, Ends(r),
         \A p \in Requests \ {r}, f \in Fixes : InHand(p, f) /\ Keeps(p, f) => LeftAlone(f)
  PROVE  \A p \in Requests, f \in Fixes : HandWell(p, f)'
  <1>1. PICK q : q = Idle("done")
    OBVIOUS
  <1>2. OthersWait(r) /\ req'[r] = q /\ q.pc = "done"
    BY <1>1 DEF Ends, Idle
  <1>3. \A f \in Fixes : ~Keeps(r, f)
    BY <1>2 DEF Keeps, InHand, Open
  <1>4. QED
    BY <1>2, <1>3, HandsWell

\* A step that commits nothing leaves every fix alone.
LEMMA QuietLeaves == ASSUME Quiet PROVE \A f \in Fixes : LeftAlone(f)
  BY DEF Quiet, Untouched, LeftAlone, Exists

LEMMA BeginsHands ==
  ASSUME Recalls, \A p \in Requests, f \in Fixes : HandWell(p, f),
         NEW r \in Requests, NEW q, Begins(r, q), Quiet
  PROVE  \A p \in Requests, f \in Fixes : HandWell(p, f)'
  <1>1. /\ q.pc = "loaded" /\ req'[r] = q /\ OthersWait(r)
        /\ \A f \in q.targets : q.seen[f] = fix[f]
    BY DEF Begins
  <1>2. ASSUME NEW f \in Fixes, Keeps(r, f) PROVE AsLoaded(q, f)
    <2>1. q.seen[f] = fix[f]
      BY <1>1, <1>2 DEF Keeps, InHand
    <2>2. fix'[f].state = fix[f].state /\ fix'[f].text = fix[f].text
      BY DEF Quiet, Untouched
    <2>3. QED
      BY <1>1, <2>1, <2>2 DEF AsLoaded
  <1>3. QED
    BY <1>1, <1>2, QuietLeaves, HandsWell

LEMMA GoesOnHands ==
  ASSUME Recalls, TypeOK, \A p \in Requests, f \in Fixes : HandWell(p, f),
         NEW r \in Requests, NEW p0, NEW q, GoesOn(r, p0, q), Quiet
  PROVE  \A p \in Requests, f \in Fixes : HandWell(p, f)'
  <1>1. /\ p0 = req[r] /\ req'[r] = q /\ OthersWait(r)
        /\ q.op = p0.op /\ q.targets = p0.targets /\ q.seen = p0.seen
        /\ p0.pc \in {"loaded", "purging", "editing"}
    BY DEF GoesOn
  <1>2. ASSUME NEW f \in Fixes, Keeps(r, f) PROVE AsLoaded(q, f)
    <2>1. InHand(r, f) /\ f \in p0.targets /\ f \notin overtaken[r]
      BY <1>1, <1>2 DEF Recalls, Keeps, InHand, Open
    <2>2. /\ Exists(f) => fix[f].state = q.seen[f].state /\ fix[f].text = q.seen[f].text
          /\ p0.pc \in {"purging", "purged"} => ChunksOf({f}) \subseteq p0.snap
      BY <1>1, <2>1 DEF HandWell
    <2>3. /\ Exists(f)' => Exists(f) /\ fix'[f].state = fix[f].state /\ fix'[f].text = fix[f].text
          /\ ChunksOf({f})' = ChunksOf({f})
      BY DEF Quiet, Untouched, Exists
    <2>4. q.pc \in {"purging", "purged"} => ChunksOf({f}) \subseteq q.snap
      <3>1. ChunksOf({f}) \subseteq chunks /\ ChunksOf({f}) \subseteq ChunksOf(p0.targets)
        BY <2>1 DEF ChunksOf
      <3>2. CASE p0.pc = "loaded" /\ q.pc = "purging" /\ q.snap = ChunksOf(p0.targets)
        BY <3>1, <3>2
      <3>3. CASE p0.pc = "purging" /\ q.pc = "purged" /\ q.snap = p0.snap \cap chunks
        BY <2>2, <3>1, <3>3
      <3>4. CASE q.pc \in {"editing", "reindexing"}
        BY <3>4
      <3>5. QED
        BY <3>2, <3>3, <3>4 DEF GoesOn
    <2>5. QED
      BY <2>2, <2>3, <2>4 DEF AsLoaded
  <1>3. QED
    BY <1>1, <1>2, QuietLeaves, HandsWell

\* A fix enters review: nobody can have had it in hand.
LEMMA OpensHands ==
  ASSUME \A p \in Requests : RequestWell(p), NEW f \in Fixes, Opens(f)
  PROVE  \A p \in Requests, g \in Fixes : InHand(p, g) => LeftAlone(g)
  <1>1. \A p \in Requests : ~InHand(p, f)
    BY DEF Opens, RequestWell, InHand
  <1>2. \A g \in Fixes \ {f} : LeftAlone(g)
    BY DEF Opens, OthersUntouched, Untouched, LeftAlone, Exists
  <1>3. QED
    BY <1>1, <1>2

LEMMA RemovesHands ==
  ASSUME NEW fs \in SUBSET Fixes, Removes(fs) PROVE \A f \in Fixes : LeftAlone(f)
  BY RowStates DEF Removes, Untouched, LeftAlone, Exists

\* Who has the fix of a commit in hand is overtaken by it.
LEMMA SavingHands ==
  ASSUME Recalls, NEW r \in Requests, NEW f \in Fixes, NEW q, Saving(r, f, q), Ends(r)
  PROVE  \A p \in Requests \ {r}, g \in Fixes : InHand(p, g) /\ Keeps(p, g) => LeftAlone(g)
  <1>1. Commits(r, f)
    BY SavingCommits
  <1>2. \A p \in Requests \ {r} : ~(InHand(p, f) /\ Keeps(p, f))
    BY <1>1 DEF Recalls, Keeps
  <1>3. \A g \in Fixes \ {f} : LeftAlone(g)
    BY DEF Saving, Decides, Edits, OthersUntouched, Untouched, LeftAlone, Exists
  <1>4. QED
    BY <1>2, <1>3

-----------------------------------------------------------------------------
(***************************************************************************)
(* The invariant, and what follows from it.                                *)
(***************************************************************************)

LEMMA HistoryInvInit == HInit => HistoryInv
  <1> SUFFICES ASSUME HInit PROVE HistoryInv
    OBVIOUS
  <1>1. ASSUME NEW f \in Fixes PROVE InSync(f) /\ Chained(f)
    <2>1. fix[f].state = "absent"
      BY RowStates DEF HInit, Init
    <2>2. Moves(f) = {} /\ ChunksOf({f}) = {}
      BY DEF HInit, Init, Moves, ChunksOf
    <2>3. QED
      BY <2>1, <2>2 DEF InSync, Chained
  <1>2. \A r \in Requests, f \in Fixes : HandWell(r, f)
    BY DEF HInit, Init, Idle, HandWell, InHand, Open
  <1>3. QED
    BY <1>1, <1>2, TrailInvInit DEF HistoryInv, HInit

\* The fixes that stay uncontested.
SyncStays == \A g \in Fixes \ contested' : InSync(g)' /\ Chained(g)'

LEMMA SavingSync ==
  ASSUME HistoryInv, Recalls, NEW r \in Requests, NEW f \in Fixes, NEW q, Saving(r, f, q), Ends(r)
  PROVE  SyncStays
  <1>1. /\ IndexInv /\ FixWell(f) /\ RequestWell(r) /\ LoadedWell(req[r]) /\ HandWell(r, f)
        /\ \A g \in Fixes \ contested : InSync(g) /\ Chained(g)
        /\ contested \subseteq contested'
    BY DEF HistoryInv, TrailInv, RequestWell, Recalls
  <1>2. ASSUME f \notin contested' PROVE InSync(f)' /\ Chained(f)'
    <2>1. f \notin overtaken[r] /\ q = req[r] /\ InSync(f) /\ Chained(f)
      BY <1>1, <1>2, SavingCommits DEF Recalls
    <2>2. CASE Decides(r, f, q)
      BY <1>1, <2>1, <2>2, DecidesInStep
    <2>3. CASE Edits(r, f, q)
      BY <1>1, <2>1, <2>3, EditsInStep
    <2>4. QED
      BY <2>2, <2>3 DEF Saving
  <1>3. \A g \in Fixes \ {f} : Untouched(g)
    BY DEF Saving, Decides, Edits, OthersUntouched
  <1>4. QED
    BY <1>1, <1>2, <1>3, UntouchedInStep DEF SyncStays

\* Every step preserves the invariant.
LEMMA HistoryInvNext == HistoryInv /\ [HNext]_hvars => HistoryInv'
  <1> SUFFICES ASSUME HistoryInv, [HNext]_hvars PROVE HistoryInv'
    OBVIOUS
  <1>1. /\ TrailInv /\ IndexInv /\ TypeOK
        /\ \A f \in Fixes : FixWell(f)
        /\ \A f \in Fixes \ contested : InSync(f) /\ Chained(f)
        /\ \A r \in Requests : RequestWell(r) /\ LoadedWell(req[r])
        /\ \A r \in Requests, f \in Fixes : HandWell(r, f)
    BY DEF HistoryInv, TrailInv, IndexInv, RequestWell
  <1>2. [Next]_vars /\ Recalls /\ contested \subseteq contested'
    BY HistoryRecalls DEF HNext, hvars, Recalls
  <1>3. TrailInv' /\ Effect
    BY <1>1, <1>2, TrailInvNext, StepHasEffect
  <1>4. ASSUME Quiet PROVE SyncStays /\ \A f \in Fixes : LeftAlone(f)
    BY <1>1, <1>2, <1>4, UntouchedInStep, QuietLeaves DEF Quiet, SyncStays
  <1>5. ASSUME NEW f \in Fixes, Opens(f)
        PROVE  SyncStays /\ \A p \in Requests, g \in Fixes : InHand(p, g) => LeftAlone(g)
    <2>1. f \notin contested => InSync(f)' /\ Chained(f)'
      BY <1>1, <1>5, OpensInStep
    <2>2. \A g \in Fixes \ {f} : g \notin contested => InSync(g)' /\ Chained(g)'
      BY <1>1, <1>5, UntouchedInStep DEF Opens, OthersUntouched
    <2>3. QED
      BY <1>1, <1>2, <1>5, <2>1, <2>2, OpensHands DEF SyncStays
  <1>6. ASSUME NEW fs \in SUBSET Fixes, Removes(fs)
        PROVE  SyncStays /\ \A g \in Fixes : LeftAlone(g)
    <2>1. \A g \in fs : g \notin contested => InSync(g)' /\ Chained(g)'
      BY <1>1, <1>6, RemovesInStep
    <2>2. \A g \in Fixes \ fs : g \notin contested => InSync(g)' /\ Chained(g)'
      BY <1>1, <1>6, UntouchedInStep DEF Removes
    <2>3. QED
      BY <1>2, <1>6, <2>1, <2>2, RemovesHands DEF SyncStays
  <1>7. CASE UNCHANGED req /\ \/ Quiet
                              \/ \E f \in Fixes : Opens(f)
                              \/ \E fs \in SUBSET Fixes : Removes(fs)
    <2>1. SyncStays /\ \A p \in Requests, g \in Fixes : InHand(p, g) => LeftAlone(g)
      BY <1>4, <1>5, <1>6, <1>7
    <2>2. \A p \in Requests, f \in Fixes : HandWell(p, f)'
      BY <1>1, <1>2, <1>7, <2>1, OthersHands
    <2>3. QED
      BY <1>3, <2>1, <2>2 DEF HistoryInv, SyncStays
  <1>8. ASSUME NEW r \in Requests, Quiet, NEW q, Begins(r, q) PROVE HistoryInv'
    BY <1>1, <1>2, <1>3, <1>4, <1>8, BeginsHands DEF HistoryInv, SyncStays
  <1>9. ASSUME NEW r \in Requests, Quiet, NEW p, NEW q, GoesOn(r, p, q) PROVE HistoryInv'
    BY <1>1, <1>2, <1>3, <1>4, <1>9, GoesOnHands DEF HistoryInv, SyncStays
  <1>10. ASSUME NEW r \in Requests, Ends(r),
                \/ Quiet
                \/ \E fs \in SUBSET Fixes : Removes(fs)
                \/ \E f \in Fixes : \E q : Saving(r, f, q)
         PROVE  HistoryInv'
    <2>1. /\ SyncStays
          /\ \A p \in Requests \ {r}, g \in Fixes : InHand(p, g) /\ Keeps(p, g) => LeftAlone(g)
      BY <1>2, <1>4, <1>6, <1>10, SavingSync, SavingHands
    <2>2. \A p \in Requests, f \in Fixes : HandWell(p, f)'
      BY <1>1, <1>2, <1>10, <2>1, EndsHands
    <2>3. QED
      BY <1>3, <2>1, <2>2 DEF HistoryInv, SyncStays
  <1>11. QED
    BY <1>3, <1>7, <1>8, <1>9, <1>10 DEF Effect, Saving

LEMMA HistoryInvAlways == HSpec => []HistoryInv
  BY HistoryInvInit, HistoryInvNext, PTL DEF HSpec

\* The index is the single source of truth: as long as no overtaken request has
\* committed a fix, an approved fix has its text there, once, and any other fix has
\* nothing there.
THEOREM IndexStaysInSync == HSpec => []IndexInSync
  <1>1. HistoryInv => IndexInSync
    BY DEF HistoryInv, InSync, IndexInSync
  <1>2. QED
    BY <1>1, HistoryInvAlways, PTL

\* As long as no overtaken request has committed a fix, each of its audited moves
\* starts where the one before it ended.
THEOREM TrailHasNoGaps == HSpec => []AuditChains
  <1>1. HistoryInv => AuditChains
    BY DEF HistoryInv, Chained, AuditChains
  <1>2. QED
    BY <1>1, HistoryInvAlways, PTL

-----------------------------------------------------------------------------
(***************************************************************************)
(* The service keeps the promise of FixMoat: what the index serves of a    *)
(* fix in sync is decided by its state and its text, so every effect on a  *)
(* row is an action of the promise or no change of it, and a commit that   *)
(* contests the fix forfeits it.                                           *)
(***************************************************************************)

MoatOf(f) ==
  IF f \in contested
  THEN [ state |-> "forfeited", text |-> None, served |-> {} ]
  ELSE [ state |-> fix[f].state, text |-> fix[f].text,
         served |-> {c.text : c \in ChunksOf({f})} ]

\* What is served of a fix.
LEMMA MoatEntry ==
  ASSUME NEW f
  PROVE  /\ f \notin contested /\ InSync(f) => MoatOf(f) = Moat!Entry(fix[f].state, fix[f].text)
         /\ f \notin contested' /\ InSync(f)' =>
              MoatOf(f)' = Moat!Entry(fix'[f].state, fix'[f].text)
         /\ f \in contested => MoatOf(f) = Moat!Entry("forfeited", None)
         /\ f \in contested' => MoatOf(f)' = Moat!Entry("forfeited", None)
  <1>1. ASSUME InSync(f) PROVE {c.text : c \in ChunksOf({f})} = Moat!Serving(fix[f].state, fix[f].text)
    BY <1>1, InSyncChunks DEF Moat!Serving
  <1>2. ASSUME InSync(f)' PROVE {c.text : c \in ChunksOf({f})'} = Moat!Serving(fix'[f].state, fix'[f].text)
    BY <1>2, InSyncChunks DEF Moat!Serving
  <1>3. Moat!Serving("forfeited", None) = {}
    BY DEF Moat!Serving
  <1>4. QED
    BY <1>1, <1>2, <1>3 DEF MoatOf, Moat!Entry

MoatView == [f \in Fixes |-> MoatOf(f)]

LEMMA MoatInit == HInit => Moat!Init
  <1> SUFFICES ASSUME HInit PROVE Moat!Init
    OBVIOUS
  <1>1. ASSUME NEW f \in Fixes PROVE MoatOf(f) = Moat!Entry("absent", None)
    <2>1. f \notin contested /\ InSync(f)
      BY HistoryInvInit DEF HistoryInv, HInit
    <2>2. fix[f].state = "absent" /\ fix[f].text = None
      BY DEF HInit, Init, NoRow
    <2>3. QED
      BY <2>1, <2>2, MoatEntry
  <1>2. QED
    BY <1>1 DEF Moat!Init, MoatOf

\* The fixes that are not contested are in sync, before the step and after it.
BothInSync == /\ \A g \in Fixes \ contested : InSync(g)
              /\ \A g \in Fixes \ contested' : InSync(g)'

\* A fix that is not touched promises what it did.
LEMMA UntouchedMoat ==
  ASSUME NEW f \in Fixes, Untouched(f), BothInSync, f \in contested <=> f \in contested'
  PROVE  MoatOf(f)' = MoatOf(f)
  BY MoatEntry DEF Untouched, BothInSync

\* One fix changes.
LEMMA MoatPut ==
  ASSUME NEW f \in Fixes, OthersUntouched(f), BothInSync, f \notin contested',
         contested \subseteq contested', contested' \subseteq contested \cup {f},
         NEW s, NEW t, fix'[f].state = s, fix'[f].text = t
  PROVE  Moat!Put(f, s, t)
  <1>1. \A g \in Fixes \ {f} : MoatOf(g)' = MoatOf(g)
    BY UntouchedMoat DEF OthersUntouched
  <1>2. MoatOf(f)' = Moat!Entry(s, t)
    BY MoatEntry DEF BothInSync
  <1>3. MoatView' = [MoatView EXCEPT ![f] = Moat!Entry(s, t)]
    BY <1>1, <1>2 DEF MoatView
  <1>4. QED
    BY <1>3 DEF Moat!Put, MoatView, MoatOf

\* The moat of a fix, as FixMoat reads it.
LEMMA MoatReads ==
  ASSUME NEW f \in Fixes, f \notin contested
  PROVE MoatView[f].state = fix[f].state /\ MoatView[f].text = fix[f].text
  BY DEF MoatView, MoatOf

LEMMA OpensMoat ==
  ASSUME NEW f \in Fixes, Opens(f), BothInSync, contested' = contested, f \notin contested
  PROVE  Moat!Next
  <1>1. PICK t \in Texts : t = fix'[f].text
    BY DEF Opens
  <1>2. fix[f].state = "absent" /\ fix'[f].state = "pending_review" /\ OthersUntouched(f)
    BY DEF Opens
  <1>3. Moat!Put(f, "pending_review", t)
    BY <1>1, <1>2, MoatPut
  <1>4. Moat!Open(f, t)
    BY <1>2, <1>3, MoatReads DEF Moat!Open, MoatView, MoatOf
  <1>5. QED
    BY <1>4 DEF Moat!Next

LEMMA DecidesMoat ==
  ASSUME IndexInv, NEW r \in Requests, NEW f \in Fixes, NEW q, Decides(r, f, q),
         HandWell(r, f), LoadedWell(q), FixWell(f), Chained(f), f \notin overtaken[r],
         BothInSync, f \notin contested', contested \subseteq contested',
         contested' \subseteq contested \cup {f}
  PROVE  Moat!Next
  <1>1. PICK dst, t : dst = Target[q.op] /\ t = NewText(q, f)
    OBVIOUS
  <1>2. /\ fix'[f].state = dst /\ fix'[f].text = t
        /\ q.op # "approve" => t = fix[f].text
        /\ CanTransition(fix[f].state, Target[q.op])
    <2>1. InSync(f)
      BY DEF BothInSync
    <2>2. QED
      BY <1>1, <2>1, DecidesInStep
  <1>3. /\ q = req[r] /\ q.op \in Transitions /\ OthersUntouched(f) /\ f \in q.targets
    BY DEF Decides
  <1>4. dst \in States /\ (dst = "approved" <=> q.op = "approve")
    <2>1. /\ Target[q.op] \in States
          /\ Target[q.op] = "approved" <=> q.op = "approve"
      BY <1>2, <1>3, Targets
    <2>2. QED
      BY <1>1, <2>1
  <1>5. t \in Texts
    BY <1>1, <1>3, LoadedTypes DEF NewText, LiveRow
  <1>6. Moat!Put(f, dst, t)
    BY <1>2, <1>3, MoatPut
  <1>7. Moat!Decide(f, dst, t)
    <2>1. CanTransition(fix[f].state, dst)
      BY <1>1, <1>2
    <2>2. Moat!CanTransition(fix[f].state, dst)
      BY <2>1 DEF CanTransition, AllowedTransitions, Moat!CanTransition, Moat!AllowedTransitions
    <2>3. dst # "approved" => t = fix[f].text
      BY <1>2, <1>4
    <2>4. MoatView[f].state = fix[f].state /\ MoatView[f].text = fix[f].text
      BY MoatReads
    <2>5. QED
      BY <1>6, <2>2, <2>3, <2>4 DEF Moat!Decide, MoatView, MoatOf
  <1>8. QED
    BY <1>4, <1>5, <1>7 DEF Moat!Next, Moat!States, States

LEMMA EditsMoat ==
  ASSUME IndexInv, NEW r \in Requests, NEW f \in Fixes, NEW q, Edits(r, f, q),
         HandWell(r, f), RequestWell(r), Chained(f), f \notin overtaken[r],
         BothInSync, f \notin contested', contested \subseteq contested',
         contested' \subseteq contested \cup {f}
  PROVE  Moat!Next
  <1>1. PICK s, t : s = fix[f].state /\ t = NewText(q, f)
    OBVIOUS
  <1>2. fix'[f].state = s /\ fix'[f].text = t
    <2>1. InSync(f)
      BY DEF BothInSync
    <2>2. QED
      BY <1>1, <2>1, EditsInStep
  <1>3. q = req[r] /\ OthersUntouched(f) /\ f \in q.targets /\ Exists(f)
    BY DEF Edits
  <1>4. t \in Texts
    BY <1>1, <1>3, LoadedTypes DEF NewText, LiveRow
  <1>5. Moat!Put(f, s, t)
    BY <1>2, <1>3, MoatPut
  <1>6. s \notin Moat!Gone
    BY <1>1, <1>3, RowStates DEF Exists, Moat!Gone, States
  <1>7. Moat!Edit(f, t)
    <2>1. MoatView[f].state = s
      BY <1>1, MoatReads
    <2>2. QED
      BY <1>5, <1>6, <2>1 DEF Moat!Edit, MoatView, MoatOf
  <1>8. QED
    BY <1>4, <1>7 DEF Moat!Next

\* A commit on an outdated fix.
LEMMA ForfeitMoat ==
  ASSUME NEW f \in Fixes, Exists(f), OthersUntouched(f), BothInSync, f \notin contested,
         f \in contested', contested \subseteq contested', contested' \subseteq contested \cup {f}
  PROVE  Moat!Next
  <1>1. \A g \in Fixes \ {f} : MoatOf(g)' = MoatOf(g)
    BY UntouchedMoat DEF OthersUntouched
  <1>2. MoatOf(f)' = Moat!Entry("forfeited", None)
    BY MoatEntry
  <1>3. MoatView' = [MoatView EXCEPT ![f] = Moat!Entry("forfeited", None)]
    BY <1>1, <1>2 DEF MoatView
  <1>4. MoatView[f].state \notin Moat!Gone
    BY MoatReads, RowStates DEF Exists, Moat!Gone, States
  <1>5. Moat!Forfeit(f)
    BY <1>3, <1>4 DEF Moat!Forfeit, Moat!Put, MoatView, MoatOf
  <1>6. QED
    BY <1>5 DEF Moat!Next

\* A commit on a fix that is contested already.
LEMMA ContestedMoat ==
  ASSUME NEW f \in Fixes, OthersUntouched(f), BothInSync, f \in contested, contested' = contested
  PROVE  UNCHANGED MoatView
  <1>1. \A g \in Fixes \ {f} : MoatOf(g)' = MoatOf(g)
    BY UntouchedMoat DEF OthersUntouched
  <1>2. MoatOf(f)' = MoatOf(f)
    BY MoatEntry
  <1>3. QED
    BY <1>1, <1>2 DEF MoatView

\* The contested ones of the fixes that go have been forfeited before.
LEMMA RemovesMoat ==
  ASSUME NEW fs \in SUBSET Fixes, Removes(fs), BothInSync, contested' = contested
  PROVE  Moat!Next
  <1>1. PICK gs \in SUBSET Fixes : gs = fs \ contested
    OBVIOUS
  <1>2. \A g \in gs : MoatOf(g)' = Moat!Entry("deleted", None)
    BY <1>1, MoatEntry DEF Removes, BothInSync
  <1>3. \A g \in Fixes \ fs : MoatOf(g)' = MoatOf(g)
    BY UntouchedMoat DEF Removes
  <1>4. \A g \in fs \ gs : MoatOf(g)' = MoatOf(g)
    BY <1>1, MoatEntry
  <1>5. MoatView' = [f \in Fixes |-> IF f \in gs THEN Moat!Entry("deleted", None) ELSE MoatView[f]]
    BY <1>2, <1>3, <1>4 DEF MoatView
  <1>6. \A f \in gs : MoatView[f].state \notin Moat!Gone
    BY <1>1, MoatReads, RowStates DEF Removes, Exists, Moat!Gone, States
  <1>7. Moat!Remove(gs)
    BY <1>5, <1>6 DEF Moat!Remove, MoatView, MoatOf
  <1>8. QED
    BY <1>7 DEF Moat!Next

LEMMA QuietMoat ==
  ASSUME Quiet, BothInSync, contested' = contested PROVE UNCHANGED MoatView
  BY UntouchedMoat DEF Quiet, MoatView

\* A commit contests its own fix at most.
LEMMA SavingContests ==
  ASSUME IndexInv, Recalls, NEW r \in Requests, NEW f \in Fixes, NEW q, Saving(r, f, q), Ends(r)
  PROVE  contested \subseteq contested' /\ contested' \subseteq contested \cup {f}
  <1>1. Commits(r, f) /\ f \in req[r].targets /\ req[r].op \in CuratorOps
    BY SavingCommits DEF Commits, InHand
  <1>2. \A g \in req[r].targets : g = f
    BY <1>1, Operations DEF IndexInv, RequestInv
  <1>3. ASSUME NEW p \in Requests, NEW g \in Fixes, Commits(p, g) PROVE g = f
    <2>1. p = r
      BY <1>3 DEF Commits, InHand, Open, Ends, OthersWait
    <2>2. QED
      BY <1>2, <1>3, <2>1 DEF Commits, InHand
  <1>4. QED
    BY <1>3 DEF Recalls

LEMMA SavingMoat ==
  ASSUME HistoryInv, Recalls, BothInSync, NEW r \in Requests, NEW f \in Fixes, NEW q,
         Saving(r, f, q), Ends(r)
  PROVE  Moat!Next \/ UNCHANGED MoatView
  <1>1. /\ IndexInv /\ FixWell(f) /\ RequestWell(r) /\ LoadedWell(req[r]) /\ HandWell(r, f)
        /\ f \notin contested => Chained(f)
    BY DEF HistoryInv, TrailInv, RequestWell
  <1>2. contested \subseteq contested' /\ contested' \subseteq contested \cup {f}
    BY <1>1, SavingContests
  <1>3. Exists(f) /\ OthersUntouched(f)
    BY DEF Saving, Decides, Edits
  <1>4. CASE f \in contested
    BY <1>2, <1>3, <1>4, ContestedMoat
  <1>5. CASE f \notin contested /\ f \in contested'
    BY <1>2, <1>3, <1>5, ForfeitMoat
  <1>6. CASE f \notin contested /\ f \notin contested'
    <2>1. f \notin overtaken[r] /\ q = req[r]
      BY <1>6, SavingCommits DEF Recalls
    <2>2. CASE Decides(r, f, q)
      BY <1>1, <1>2, <1>6, <2>1, <2>2, DecidesMoat
    <2>3. CASE Edits(r, f, q)
      BY <1>1, <1>2, <1>6, <2>1, <2>3, EditsMoat
    <2>4. QED
      BY <2>2, <2>3 DEF Saving
  <1>7. QED
    BY <1>4, <1>5, <1>6

\* Every step of the service is a step of the promise, or leaves it as it is.
LEMMA MoatNext ==
  ASSUME HistoryInv, HistoryInv', [HNext]_hvars PROVE Moat!Next \/ UNCHANGED MoatView
  <1>1. /\ IndexInv /\ BothInSync
        /\ \A f \in Fixes : FixWell(f)
        /\ \A r \in Requests : RequestWell(r) /\ LoadedWell(req[r])
    BY DEF HistoryInv, TrailInv, RequestWell, BothInSync
  <1>2. [Next]_vars /\ Recalls
    BY HistoryRecalls DEF HNext, hvars
  <1>3. Effect
    BY <1>1, <1>2, StepHasEffect
  <1>4. CASE UNCHANGED req /\ Quiet
    BY <1>1, <1>2, <1>4, NothingContested, QuietMoat
  <1>5. ASSUME NEW f \in Fixes, UNCHANGED req, Opens(f) PROVE Moat!Next \/ UNCHANGED MoatView
    <2>1. contested' = contested /\ OthersUntouched(f)
      BY <1>2, <1>5, NothingContested DEF Opens
    <2>2. QED
      BY <1>1, <1>5, <2>1, OpensMoat, ContestedMoat
  <1>6. CASE UNCHANGED req /\ \E fs \in SUBSET Fixes : Removes(fs)
    BY <1>1, <1>2, <1>6, NothingContested, RemovesMoat
  <1>7. ASSUME NEW r \in Requests, Quiet, NEW q, Begins(r, q) PROVE UNCHANGED MoatView
    <2>1. OthersWait(r) /\ req'[r].pc # "done"
      BY <1>7 DEF Begins
    <2>2. QED
      BY <1>1, <1>2, <1>7, <2>1, NothingContested, QuietMoat
  <1>8. ASSUME NEW r \in Requests, Quiet, NEW p, NEW q, GoesOn(r, p, q) PROVE UNCHANGED MoatView
    <2>1. OthersWait(r) /\ req'[r].pc # "done"
      BY <1>8 DEF GoesOn
    <2>2. QED
      BY <1>1, <1>2, <1>8, <2>1, NothingContested, QuietMoat
  <1>9. ASSUME NEW r \in Requests, Ends(r), CommitsNone(r),
               Quiet \/ \E fs \in SUBSET Fixes : Removes(fs)
        PROVE  Moat!Next \/ UNCHANGED MoatView
    <2>1. contested' = contested
      BY <1>2, <1>9, NothingContested DEF Ends
    <2>2. QED
      BY <1>1, <1>9, <2>1, QuietMoat, RemovesMoat
  <1>10. ASSUME NEW r \in Requests, Ends(r), NEW f \in Fixes, NEW q, Saving(r, f, q)
         PROVE  Moat!Next \/ UNCHANGED MoatView
    BY <1>1, <1>2, <1>10, SavingMoat
  <1>11. QED
    BY <1>3, <1>4, <1>5, <1>6, <1>7, <1>8, <1>9, <1>10 DEF Effect, Saving

\* The service implements FixMoat: a fix moves only along the lifecycle, and what
\* retrieval can serve of it changes in the same step as its row, until a commit
\* that rests on an outdated fix forfeits the promise.
THEOREM ServiceKeepsPromise == HSpec => KeepsPromise
  <1>1. HistoryInv /\ HistoryInv' /\ [HNext]_hvars => [Moat!Next]_MoatView
    BY MoatNext
  <1>2. [Moat!Next]_MoatView => [Moat!Next]_([f \in Fixes |->
          IF f \in contested
          THEN [ state |-> "forfeited", text |-> None, served |-> {} ]
          ELSE [ state |-> fix[f].state, text |-> fix[f].text,
                 served |-> {c.text : c \in ChunksOf({f})} ]])
    BY DEF MoatView, MoatOf
  <1>3. HistoryInv /\ HistoryInv' /\ [HNext]_hvars => [Moat!Next]_([f \in Fixes |->
          IF f \in contested
          THEN [ state |-> "forfeited", text |-> None, served |-> {} ]
          ELSE [ state |-> fix[f].state, text |-> fix[f].text,
                 served |-> {c.text : c \in ChunksOf({f})} ]])
    BY <1>1, <1>2
  <1>4. QED
    BY <1>3, MoatInit, HistoryInvAlways, PTL DEF HSpec, KeepsPromise, Moat!Spec

=============================================================================
