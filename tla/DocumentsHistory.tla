-------------------------- MODULE DocumentsHistory --------------------------
(***************************************************************************)
(* Which revision of a manual answers may cite.  Ingestion reads the       *)
(* latest revision of a title and commits its successor without looking    *)
(* again, and a document can be renamed or deleted out of its lineage.  A  *)
(* history kept beside Documents records the titles whose revisions have   *)
(* been mixed up that way: it reads the state, and never decides what the  *)
(* system does.                                                            *)
(***************************************************************************)
EXTENDS Documents

VARIABLE mixed   \* the titles whose revisions may have been mixed up

hvars == <<vars, mixed>>

Revisions(t) == {d \in Docs : Exists(d) /\ doc[d].title = t}

\* u commits, and the latest revision is no longer what it has read.
Outdated(u) ==
  LET k == task[u] IN LatestOf(k.title) # (IF k.prev = None THEN {} ELSE {k.prev})

MixedByIngest(u) ==
  LET k == task[u] IN
  IF ~Outdated(u) THEN {}
  ELSE {k.title} \cup (IF k.prev = None THEN {} ELSE {doc[k.prev].title})

\* A document leaves the other revisions of its title, or joins those of another.
MixedByRename(r) ==
  LET d    == req[r].doc
      from == doc[d].title
      to   == req[r].title
  IN  IF \/ to = req[r].seen \/ to = from
         \/ from \notin mixed /\ Revisions(from) = {d} /\ Revisions(to) = {}
      THEN {}
      ELSE {from, to}

\* A revision between two others is deleted.
MixedByDelete(r) ==
  LET d == req[r].doc IN
  IF Superseded(d) /\ \E e \in Docs : Superseded(e) /\ doc[e].next = d
  THEN {doc[d].title} ELSE {}

Mix(ts) == mixed' = mixed \cup ts

HInit == Init /\ mixed = {}

HIngest(u) ==
  \/ (\E t \in Titles : Upload(u, t)) /\ Mix({})
  \/ (\E d \in Docs : Start(u, d)) /\ Mix({})
  \/ StoreFigures(u) /\ Mix({})
  \/ ReadLatest(u) /\ Mix({})
  \/ CommitIngest(u) /\ Mix(MixedByIngest(u))
  \/ Succeed(u) /\ Mix({})
  \/ Fail(u) /\ Mix({})
  \/ Die(u) /\ Mix({})

HServe(r) ==
  \/ (\E d \in Docs : LoadForDelete(r, d)) /\ Mix({})
  \/ (\E d \in Docs, t \in Titles : LoadForRename(r, d, t)) /\ Mix({})
  \/ CommitRename(r) /\ Mix(MixedByRename(r))
  \/ CommitDelete(r) /\ Mix(MixedByDelete(r))
  \/ (\E kind \in Kinds : CleanUp(r, kind)) /\ Mix({})
  \/ EndRequest(r) /\ Mix({})

HNext ==
  \/ \E u \in Uploads : HIngest(u)
  \/ \E r \in Requests : HServe(r)
  \/ DeleteMachine /\ Mix({})

HSpec == HInit /\ [][HNext]_hvars

-----------------------------------------------------------------------------
\* Answers cite the current revision: of the documents of a title that has not
\* been mixed up one is live, and it is the one with the highest version (FR-9),
\* however ingestions overlap, fail and die and whatever is renamed or deleted.
OneLive ==
  \A d, e \in Docs :
    Live(d) /\ Exists(e) /\ doc[e].title = doc[d].title /\ e # d /\ doc[d].title \notin mixed =>
      Superseded(e) /\ doc[e].version < doc[d].version

\* The versions that answers may cite, per title.
LiveVersions ==
  [t \in Titles |-> IF t \in mixed THEN {}
                    ELSE {doc[d].version : d \in {e \in Revisions(t) : Live(e)}}]

\* Ingestion keeps the promise of Manuals: a commit changes what answers may
\* cite of one title, from one revision to the next, a deletion takes the current
\* revision back, a rename takes it along, and nothing else changes it.
Promise == INSTANCE Manuals WITH live <- LiveVersions, forfeited <- mixed

KeepsPromise == Promise!Spec

=============================================================================
