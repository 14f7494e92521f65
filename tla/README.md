# FixMate: specification and proofs

FixMate answers technicians' questions from equipment manuals and from *fixes*
that technicians propose and curators approve. This directory holds TLA+ modules
of the parts of FixMate whose correctness depends on how requests overlap, fail
and follow one another, the TLC configurations that check them on small
instances, and TLAPS proofs of what holds for instances of any size.
All source paths are relative to `src/`.

## 1. The system

One FastAPI process serves the HTTP API, one or more Celery workers ingest
manuals, PostgreSQL (with pgvector) holds all rows, MinIO the PDFs and figures,
Redis the Celery queue and the results, Ollama or Anthropic the models.
A request opens a session (`core/db.py:session_for_org`), which is one database
transaction at READ COMMITTED until it commits; leaving the block without a
commit rolls it back. There is no lock, version check or retry in the Python
code: what two requests do to each other is decided by the database alone.

| Component | Source | State it keeps | Operations |
|---|---|---|---|
| fix lifecycle | `curation/states.py`, `core/models.py` | `fixes.state` | the transition table |
| curation service | `curation/service.py` | `fixes`, field-fix `chunks`, `audit_events` | create, edit, approve, reject, flag unsafe, retire, delete, queue with lazy pre-screen |
| AI pre-screen | `curation/prescreen.py` | none | one advisory per fix, three attempts |
| feedback | `feedback/service.py` | `feedback`, `fixes`, `chunks.positive_signals` | helpful / not helpful, submit a candidate fix |
| ingestion | `ingestion/pipeline.py`, `tasks.py`, `registry.py` | `documents`, manual `chunks`, `figures`, objects, task results | ingest a PDF as a new version |
| manuals API | `api/routers/documents.py`, `core/storage.py` | the same, staged uploads | upload, list, rename, delete, download, status |
| retrieval | `retrieval/*.py` | none | vector and keyword search, fusion, rerank, boost |
| answers | `answers/*.py`, `api/routers/ask.py` | `messages`, `answer_logs` | ask: search, gate, compose, validate, log |
| users and roles | `api/routers/admin.py`, `api/deps.py`, `api/auth_oidc.py` | `users` | create, update, delete, set role |
| equipment, conversations | `api/routers/equipment.py`, `conversations.py` | `equipment_profiles`, `conversations` | create, rename, delete, list |
| tenant sessions | `core/db.py`, migration 0001 | `app.current_org_id` per transaction | row-level security |
| web client | `web/src` | the screen, a polled task | upload and poll, chat, review |
| models | `llm/*.py` | none | complete, embed, caption |
| evaluation, scripts | `evals/`, `scripts/`, `*/cli.py` | none | batch tools |

How they interact. A technician asks (`ask` -> `search` -> `compose_answer`),
rates the reply and may submit a fix (`record_feedback`); the fix waits in the
queue (`review_queue`, which pre-screens it on first view); a curator decides on
it (`approve` indexes it as `field_fix` chunks, `retire` and `delete_fix` remove
them, `update_fix` replaces them); retrieval reads whatever `chunks` holds.
Ingestion adds manual chunks and supersedes the version before. Deleting a user
or a machine removes fixes, documents and chunks by the cascades of the schema.

What is hard about it:

* a request reads a fix, checks it, and may wait seconds for the embedder or a
  model before it writes; nothing is locked meanwhile;
* the ORM writes only the columns that differ from what it loaded, so two
  requests merge column by column;
* a `DELETE` of chunks sees the chunks of the moment its statement began;
* row locks of open transactions make requests wait, and two may wait for each
  other;
* rows disappear under a request by a cascade it knows nothing of;
* object storage and the task queue are outside the transactions.

What makes each component correct:

* fix lifecycle: a fix moves only along the table;
* curation: what is in the index was approved by a curator or admin; an approved
  fix serves its text and nothing else, any other fix nothing; the audit trail
  explains every state; the badge names who approved; no request hangs;
* ingestion and manuals: one live revision of a title, the latest; every row has
  its object; a deleted manual leaves nothing behind; the status tells the truth;
* retrieval: nothing superseded, retired or of another machine; fixes rank above
  comparable manual text, and a chunk good enough to answer from is never lost;
* answers: one immutable log per answer; what is cited was retrieved for this
  question; a transcript in which replies follow their questions;
* feedback: a counter is the number of accepted votes, whatever was refused;
* users: nobody acts outside the organization they name; the trail explains the roles.

`PROJECT.json` lists the components with what is modelled of each, and the
hazards at their lines with the properties that cover them.

## 2. Modules

| Module | What it is |
|---|---|
| `FixStates` | the states of a fix and the transition table |
| `FixMoat` | abstract specification: what the curation service promises about a fix |
| `Curation` | the curation service as interleaved transactions |
| `CurationOverlaps` | `Curation` with a history of which fixes overlapping commits have touched, and its promise |
| `MCCuration`, `MCCurationOverlaps` | model values and symmetry for TLC |
| `CurationProofs` | theorems about `Curation`: types, and what may be in the index |
| `CurationTrailProofs` | what the audit trail, the badge and the index say of a fix, whatever overlaps |
| `CurationOverlapsProofs` | theorems about `CurationOverlaps`: the index, the chain of the trail, the refinement of `FixMoat` |
| `Manuals` | abstract specification: what the versions of a manual promise |
| `Documents` | the ingestion and the manuals API of one machine |
| `DocumentsHistory` | `Documents` with a history of which titles had their revisions mixed up, and its promise |
| `MCDocuments`, `MCDocumentsHistory` | model values and symmetry for TLC |
| `DocumentsProofs` | theorems about `Documents` and `DocumentsHistory` |
| `Answers` | the questions and votes of conversations over an index that changes |
| `Retrieval` | what becomes of the hits of a search, and of the citations in an answer |
| `Progress` | the concurrency inside one ingestion, its percentage and the polling client |
| `Accounts` | the users of the organizations, and the identities that administer them |
| `AnswersProofs`, `RetrievalProofs`, `ProgressProofs`, `AccountsProofs` | theorems about each of them |
| `MCAnswers`, `MCRetrieval`, `MCProgress`, `MCAccounts` | model values, assignments and symmetry for TLC |

### Curation

State and code:

| Variable | Code |
|---|---|
| `fix` | committed rows of `fixes`: state, `proposed_text`, `submitted_by`, `reviewed_by`, whether `ai_prescreen_report` is set; `absent` and `deleted` ids have no row |
| `chunks` | committed `field_fix` chunks; all chunks of one indexing are one entry, since they are written and deleted together |
| `audit` | committed `audit_events` of fixes, in commit order |
| `accounts` | rows of `users` |
| `req` | one record per HTTP request: how far it is, its arguments, the rows it loaded (`seen`), the chunks its DELETE saw (`snap`) |

| Action | Code |
|---|---|
| `Submit`, `Create` | `record_feedback` with a fix text, `create_fix`: one INSERT of a new id |
| `LoadForTransition`, `LoadForEdit`, `LoadForDelete`, `LoadQueue`, `Refuse` | the role check, the SELECT and the checks after it, up to the first wait |
| `CommitApprove`, `CommitResolve`, `CommitEdit`, `CommitDelete`, `DeleteNothing`, `CommitQueue` | the rest of the handler, from its first write to the commit |
| `BeginPurge`, `EndPurge`, `CommitRetire` | `retire`: the snapshot of its DELETE, the end of the DELETE when no chunk of the snapshot is locked, the UPDATE and commit |
| `LockForEdit`, `PurgeForEdit`, `CommitReindex` | `update_fix` of an approved fix: the autoflush locks the row, the DELETE, then embedding and commit |
| `DeleteUser`, `DeleteEquipment` | `admin.delete_user`, `equipment.delete_equipment` with the foreign keys' ON DELETE rules |
| `CommitFails` | an UPDATE of a row that is gone, a foreign key that does not hold any more |
| `DeadlockAbort`, `Abort` | PostgreSQL ends a cycle of waits; any other failure of a request: the transaction is rolled back |

`Flush` is the ORM's unit of work: a column is written when the new value differs
from the *loaded* one, whatever the row holds by then. `RowsFree` and
`ChunksFree` are the row locks a statement waits for.

Abstractions, and why they lose nothing the properties speak of:

* the writes of one flush and the commit after it are one step: nothing in
  between releases a lock or reads, so no other transaction can tell; only the
  writes that precede a wait (the two DELETE statements) are steps of their own;
* one SQL statement takes all the locks it waits for at once;
* a cascade (user, machine, fix) is one step that waits for every lock it needs;
* a request is made once: the set `Requests` bounds the run, a repeated request
  is another member;
* question text, notes, photos and timestamps are left out: nothing reads them
  to decide; `approved_at`/`updated_at` matter only in that they make every
  transition and edit an UPDATE, which is how the actions are written;
* one organization; the role is the identity's, whether or not the user exists.

### FixMoat and CurationOverlaps

`moat[f]` is the state of `f`, its text and the texts retrieval can serve of it.
Its steps change all three together: an approved fix serves exactly its text, any
other nothing, and the state moves along the table. Nothing in the code makes
curators take turns, and some overlaps do break that promise; so it is made of a fix
until it is *forfeited*. When that is, `CurationOverlaps` says with two history
variables, which read the state and never restrict a step of `Curation`:

* `overtaken[r]`: the fixes that request `r` has in hand and that another curator
  request has committed since `r` loaded them;
* `contested`: the fixes that an overtaken request has committed after all.

Overlapping alone does not contest a fix: requests that fail, are refused or aborted,
and every overlap with deletions, queue fetches and cascades, keep the promise.
`KeepsPromise` is the refinement of `FixMoat` with `served` read off the chunks and a
contested fix forfeited.

### Documents

| Variable | Code |
|---|---|
| `machine` | the row of `equipment_profiles` |
| `doc` | committed rows of `documents` (title, version, `superseded_by` as `next`), with their chunks and figure rows, which the same transaction inserts and the same cascade deletes |
| `objects` | the objects in the store: of a document its PDF and its figures |
| `task` | one Celery task per upload: how far it is, the id it chose, the latest revision it read and the version it will insert |
| `req` | one record per PATCH or DELETE: how far it is, the title it loaded, the objects still to be removed and those it could not remove |

| Action | Code |
|---|---|
| `Upload` | `upload_document`: the task is enqueued |
| `Start`, `StoreFigures` | `ingest_document` up to its transaction: a fresh id, `caption_and_store` of every figure |
| `ReadLatest` | `registry.latest_document`, the version, `put_object` of the PDF |
| `CommitIngest` | the INSERTs, `prev.superseded_by`, the commit; it needs the machine and the row of `prev` |
| `Succeed`, `Fail`, `Die` | the result of the task; any exception; the worker process is lost |
| `LoadForRename`, `CommitRename` | `update_document` |
| `LoadForDelete`, `CommitDelete`, `CleanUp` | `delete_document`, then `delete_object` for the PDF and the figures |
| `EndRequest` | the request returns, or any other error, or the API process is lost |
| `DeleteMachine` | `equipment.delete_equipment`: the rows go by cascade, nothing removes the objects |

Any number of tasks may run at once (the container's worker is a prefork pool), and
any document may be renamed or deleted at any time. Abstractions: all figures of a
document are one object; `LoadForDelete` reads the row and the keys of its figures in
one step, two statements between which only another deletion could matter, which then
removes the figures itself; the gap
between reading the latest version and the commit is one pair of steps, and no
row lock matters, since the only rows two transactions write are single rows
whose `superseded_by` or title the later one overwrites; a task id is used once.

### Manuals and DocumentsHistory

`live[t]` is the set of versions of title `t` that answers may cite. It grows
from nothing to `{1}` or from `{v}` to `{v + 1}`, goes back to `{v - 1}` or to nothing
when the current revision is deleted, moves to a title not in use with a rename, or is
cleared with the machine. The promise is made of a title until it is forfeited, that
is until its revisions are *mixed* up. `DocumentsHistory` records when they are, in a
variable `mixed` that no step of `Documents` depends on:

* an ingestion commits although the latest revision of its title is no longer the one
  it read (another ingestion, a rename or a deletion came between);
* a document leaves the other revisions of its title, or joins those of another, by a
  rename;
* a revision between two others is deleted.

`KeepsPromise` is the refinement, with `LiveVersions` for `live` and `mixed` for
`forfeited`. Failures, lost workers, overlapping ingestions of which one fails, and
every other deletion or rename keep the promise.

### Answers

| Variable | Code |
|---|---|
| `machines`, `chunk` | rows of `equipment_profiles` and `chunks`: a chunk is live, of a superseded manual, or gone |
| `signals` | `chunks.positive_signals` |
| `chat`, `thread`, `log` | rows of `conversations`, `messages` (a thread in the order of `created_at`), `answer_logs` |
| `ask`, `vote` | one record per request: how far it is and what it loaded |
| `served`, `crowded` | history: what was retrievable for a request until its searches were over; which requests ran beside another of their conversation |

| Action | Code |
|---|---|
| `OpenChat`, `DeleteOwner` | `create_conversation`; `admin.delete_user` with the cascades to conversations and messages |
| `Publish`, `Supersede`, `Restore`, `Withdraw`, `DeleteMachine` | what ingestion, curation and the deletions of manuals and machines commit |
| `Arrive`, `CommitQuestion` | `ask` up to its first commit: conversation, history and question |
| `SearchVector`, `SearchKeyword` | the two statements of `search`, a snapshot each |
| `Escalate`, `Complete` | `compose_answer`: the gate, the first and the second completion, the log |
| `StoreReply` | the last transaction of `ask` |
| `Fail` | any exception or a lost process: only what is not committed goes |
| `CastVote`, `CommitVote` | `record_feedback` |

A completion is told apart by what the checks on it look at: its citations, whether
it is grounded, whether it abstains. A model may cite anything its prompt shows,
the citations in earlier answers of the history included. `Arrive` reads the
conversation and its history in one step: they are two statements, but nobody
else's turn between them changes what a property says. Each conversation has an
owner of its own; only replies are voted on. Accounts are not in this module, so the
voter's foreign key is a refusal that `CommitVote` may meet at any time. Which hits
come out of a search is left open here and exact in `Retrieval`.

### Retrieval

One search: any list of hits in an order the vector search can produce, any list of
the keyword search, then `Fuse` (`reciprocal_rank_fusion` and the cut to the pool)
and `Rank` (`rerank`, `apply_field_fix_boost`, the final order and cut). `Band` is
`confidence_band`, `Resolves` is `_resolve_citations`. The lists are arbitrary
because the index may change between the two statements and the HNSW index is
approximate. Scores are integers that keep every comparison the code makes:
relevance in hundredths, the reciprocals of ranks in units of `Unit`, any common
multiple of the denominators `RRF_K + rank` (of three ranks in the run). That makes
sums exact where the code adds floats; sorting is stable, as Python's is.

### Progress

One task from the upload to its result: batches of embeddings and captions of
figures, each under its semaphore, `asyncio.gather` with its first exception, the
percentages of `_report`, the result; and `pollIngestion`, which asks the status
endpoint (`Answer`) and shows what it was told (`Show`) a bounded number of times.
What is embedded is counted in texts (`TextsOf`): the last batch takes what is left.
`Omitted` are the chunks an answer of the embedder may leave out: nobody counts what
comes back, so `BatchDone` adds any part of what it may to `returned`. `Gathered` is
what `embed` returns: the vectors at their places (`Place`) when the answers, in the
order of their batches, are joined; `StoredWith` is the `zip` of the pipeline, which
pairs by place and stops at the shorter list.
`Die` leaves the last report in the backend, or a failure when a parent process
records the loss. What the task does to rows and objects is in `Documents`.

### Accounts

| Variable | Code |
|---|---|
| `row`, `audit` | rows of `users`, and of `audit_events` about users, in the order of commits |
| `req` | one record per request: the identity it came with, the row it loaded, what its body asks for |
| `doubted` | history: whether two sign-ins both found no Auto Admin, or the name was given by hand |

`Create`, `LoadForUpdate`, `LoadForRole`, `LoadForDelete`, `CommitChange`,
`CommitDelete` are the handlers of `admin.py`, split at the wait between the SELECT
and the commit; `Flushed` writes a column only when it differs from the one loaded.
`Tokens` is `get_current_user` with `require_role`: *any* organization, subject and
role that is allowed. Neither the development headers nor the claims of an OIDC token
are compared with the rows, so the subject may never have had an account, may have lost
it, or may have one of another role or organization (the Keycloak bootstrap and the
tests act as administrators without an account). `Visible` is the tenant of the session
and the policy of migration 0001. `FindAutoAdmin`, `FindNone`, `Provision` are
`auto_login`, which is also how the demo tenant is seeded. E-mail addresses and the
`actor_id` of events are left out: nothing reads or checks them.

## 3. What TLC checks

| Run | Instance | Checks |
|---|---|---|
| `curation_overlaps` | 1 fix, 3 requests, 2 users, both curators, 2 texts, any overlap | `TypeOK`, `IndexedOnlyAfterApprove`, `StateIsLastAudited`, `BadgeNamesApprover`, `NoExtraCopies`, `IndexInSync`, `AuditChains`, `KeepsPromise` |
| `curation_live` | 1 fix, 3 requests, 1 user, fairness | `RequestsFinish` |
| `curation_retired` | 1 fix, 3 requests | `RetiredVanishes` is violated |
| `documents` | 3 documents, 2 titles, 3 uploads, 2 requests, at most 4 of the 5 made | `TypeOK`, `RowsHaveObjects`, `LineageForward`, `ObjectsAccounted`, `OneLive`, `KeepsPromise` |
| `documents_overlap` | 3 documents, 1 title, 3 uploads, 1 request | `NothingOutdated` is violated |
| `documents_history` | the same | `OutdatedStaysOut` is violated |
| `answers_races` | 2 requests to ask in 1 conversation, 2 chunks of 2 machines | `TypeOK`, `CitedWasServed`, `AnsweredIsBacked`, `RepliesFollow` |
| `answers_votes` | 1 request to ask, 3 votes, 2 chunks of 1 machine, fairness | `SignalsAreVotes`, `AsksFinish` |
| `retrieval` | 3 manual chunks and 2 of fixes, 2 relevances, 3 hits a search, a pool of 4, 2 results | `TypeOK`, `FusionFollowsSearches`, `FixesFirst`, `EscalatesWhenNothingReaches`, `PointsAtWhatWasMeant` |
| `progress` | 7 chunks in batches of 2, 3 at a time, 2 of which an answer may leave out; 3 figures, 2 at a time; 3 polls; fairness of the client | `TypeOK`, `VectorsMatchTexts`, `PercentIsEarned`, `ScreenIsTrue`, `PercentNeverGoesBack`, `PollingEnds` |
| `accounts` | 2 organizations, 1 administrator, 2 ids without an account, 3 requests | `TypeOK`, `TrailExplainsRole`, `OneAutoAdmin`, `TenantsApart`, `OrphanedOnlyByOutsiders` |
| `accounts_twice` | the same | `NoDuplicateAdmins` is violated |

What holds of a fix whatever overlaps (`curation_overlaps`): the index only ever
serves fixes that exist and were approved by somebody entitled to; the state of every
fix is the one its last audited move recorded; an approved fix names its last approver;
editing never multiplies chunks. And of every fix that is not contested: the index is
in step with its state, its audited moves chain, and the service implements `FixMoat`.
The exception is needed: without it TLC finds a rejection and an approval that both
loaded the pending fix and both commit (`states.py:5` calls this impossible), and
`curation_retired` shows a retirement overlapped by a second approval that leaves
chunks of a retired fix behind (`service.py:474`).

What holds of manuals whatever overlaps, fails or dies (`documents`): a
document that is listed has its objects; `superseded_by` leads forward, to a
document that exists, and from one document only; an object without a row is one
that an ingestion or a deletion still works on or has failed on, or that went
with its machine. And of every title that is not mixed up: one revision is live, the
latest, and ingestion implements `Manuals`. The exceptions are needed: two overlapping
ingestions both stay live (`documents_overlap`, `pipeline.py:124`), and deleting the
middle one of three revisions revives the oldest (`documents_history`,
`core/models.py:142`).

What holds of answers (`answers_races`, `answers_votes`): no answer cites a chunk
that was already withdrawn when its question came, though it may cite one withdrawn
since; what is logged as an answer passed every check as it stands, although a
model may repeat citations of earlier turns; replies follow their questions, and
stand directly below them unless another question of the conversation ran beside;
a counter is the number of helpful votes that were accepted (their rows go with the
conversation, the counter stays); a question that was taken ends.
What does not hold, and is not claimed: that a question in the transcript has a
reply (a failure leaves it bare, and asking again repeats it), that a retried vote
counts once, that a conversation stays with its machine (it is searched without one
when the machine is deleted).

What holds of a search (`retrieval`): fusion never prefers a hit to one that both
lists put before it; among what is reranked a fix comes before manual text that is
no more relevant; the order and the cuts never hide a chunk that would have let the
question be answered; an abbreviated citation resolves to the source meant or is
refused. The boost does let a fix of relevance 0.40 through the gate of 0.45.

What holds of an ingestion's progress (`progress`): the percentage never goes back
and never runs ahead of the work; chunks are stored with their own vectors, up to the
first one that an answer left out; a form that says live is right. What does not hold:
that a short answer is noticed (`zip` pairs the chunks after it with vectors of others
and drops the last ones), and that a form which says failed means the manual is not
live (the last report is published after the commit, and its failure fails the task).

What holds of users (`accounts`), for any identity that a request may come with: an
account changes only together with its event in the trail of its own organization,
which it never leaves; the role of an account is what the last event that tells of a
change left, though events overlap and repeat older roles; somebody who administers an
organization when a change commits does not leave it without an administrator by
deleting or demoting others, nor by deleting themselves. What does not hold: that an
organization keeps an administrator (demoting oneself; two administrators who delete
each other, the second one with no account by then), that the role in the database
governs what its user may do (only the identity's does, though `core/models.py:91` says
otherwise), that the demo organization has one Auto Admin when two first sign-ins
overlap (`accounts_twice`; `dev.py:24` says otherwise).

Bounds of `Curation`. Every property of `Curation` speaks of one fix at a time and no action
but `CommitQueue` and the cascades touches two, so one fix shows what can go
wrong with a fix; the theorems are for any number. Three requests are enough for
the worst overlaps known: two that race and a third that reads or undoes the
result (two approvals and a retirement). Two curators distinguish who decided, and
either may be a submitter who is deleted; two texts distinguish the
loaded text from the edited one. Fixes, requests, texts and curators are
symmetric. Runs end when all requests are used up, hence `CHECK_DEADLOCK FALSE`;
that no request is stuck for ever is what `RequestsFinish` says.

Bounds of `Documents`. Two uploads are what it takes to overlap, two documents
to have a revision and the one before, two requests to delete both or to rename
one while the other goes, and a third revision makes a middle one. All of that at once
is beyond the time of a run: `AtMostFour` makes at most four of the three uploads and
two requests, that is three revisions and one request, or two revisions and two
requests. Two titles let a rename move a document into another lineage; the two
violations need one. The proofs are for any number of each.

Bounds of the others. `Answers`: two requests of one conversation are what it takes
to overlap, and the first may be the history of the second; two chunks of two
machines tell in scope from out of scope; three votes race in pairs with one left.
`Retrieval`: a manual of relevance 0.40 is below the gate of 0.45, a fix of 0.40 is
lifted to 0.46 and over it, and a manual of 0.47 is above that fix, so every comparison
can come out both ways (a score exactly at the gate is left to the theorem);
five chunks overfill a
pool of four and a list of three, so every cut cuts. `Progress`: four batches for
three slots, the last one short, three figures for two. `Accounts`: one
request makes a second administrator and two more let both fall out; two changes of one
account overlap with a third to tell; the demo's Auto Admin takes a sign-in, a change
and another sign-in. `Omitted` of `Progress` holds a chunk that others follow, and the last one. In all of them a request is made
once, and runs end when all are used up.

Fairness. `FairSpec` of `Curation` assumes weak fairness of the steps of each request after it
began, and of nothing else: the event loop schedules every handler, calls to
models, embedder and database carry timeouts, and the deadlock detector of
PostgreSQL runs by default after one second. No fairness of arrivals, deletions
or aborts is assumed. In `curation_live` a retirement and a re-indexing edit do
reach the state where each waits for the other. `FairSpec` of `Answers` is the same
for a request to ask: every await ends, with an answer, an exception or a timeout.
`FairSpec` of `Progress` is about the client alone, whose page stays open; nothing is
assumed of the worker, so polling must end also when the worker is lost.

## 4. What is proved

Every safety property a passing run checks is also a theorem: TLC checks it on the
instance above, TLAPS for every value of the constants that satisfies the named
assumption of the module. In each case TLC checked the inductive invariant on the
run first. No theorem assumes anything but those assumptions; in particular none
assumes that requests or tasks take turns.

| Module | Invariant | Theorems |
|---|---|---|
| `CurationProofs` | `IndexInv` | `TypeCorrect`, `OnlyApprovedIsIndexed` |
| `CurationTrailProofs` | `TrailInv` | `TrailExplainsState`, `BadgeIsEarned`, `CopiesAreApproved` |
| `CurationOverlapsProofs` | `HistoryInv` | `IndexStaysInSync`, `TrailHasNoGaps`, `ServiceKeepsPromise` |
| `DocumentsProofs` | `DocInv`, `AccountInv` | `DocumentsTypeCorrect`, `RowsKeepTheirObjects`, `LineageIsForward`, `NothingElseLeaks` |
| | `HistoryInv` | `OneRevisionIsLive`, `IngestionImplementsManuals` |
| `AnswersProofs` | `AnswersInv` | `AnswersTypeCorrect`, `CitationsWereServed`, `AnswersAreBacked`, `RepliesComeAfter`, `SignalsCountVotes` |
| `RetrievalProofs` | `RetrievalInv` | `RetrievalTypeCorrect`, `FusionIsFair`, `FixesComeFirst`, `EscalationIsJust`, `CitationsPointRight` |
| `ProgressProofs` | `ProgressInv` | `ProgressTypeCorrect`, `VectorsGoWithTexts`, `BarIsEarned`, `BarNeverGoesBack`, `ScreenTellsTheTruth` |
| `AccountsProofs` | `AccountsInv` | `AccountsTypeCorrect`, `TrailIsTrue`, `AutoAdminIsOne`, `TenantsStayApart`, `OrphansNeedOutsiders` |

`BarNeverGoesBack`, `TenantsStayApart` and `OrphansNeedOutsiders` are action
properties, `ServiceKeepsPromise` and `IngestionImplementsManuals` refinements of
`FixMoat` and `Manuals`; the others are invariants.

### Curation

Assumed (`CurationAssumption`): finitely many fixes, reviewers are users, `None` is
none of the other values.

`IndexedOnlyAfterApprove` is not inductive: an edit inserts chunks because of the
row it loaded, perhaps long ago. `IndexInv` adds what makes it so: an approval by
a reviewer stands behind every row that is approved now (`RowsVouched`) and
behind every row a request loaded as approved, a row that an edit has locked
still exists, an edit has one target, and the actor of a curator request is a
reviewer (`RequestInv`). The proof has one lemma per kind of step; the lemmas
before them say what the operators return, that the trail only grows
(`AuditGrows`), that no step removes a row somebody else has locked
(`LockedStay`), and that a request that stands still keeps its invariant
(`RequestStands`).

`TrailInv` adds, of each fix (`FixWell`), that its last audited move ends in its
state, that an approved fix names the actor of that move if the user is left, a
pending one nobody, and that it has no more chunks than approvals; of each request
(`RequestWell`), that the decision it is about to write is one the table allows for
the row it loaded, and that an edit
which has locked its row and purged has seen every chunk of the fix, since the
lock keeps approvals and other edits out. The last is why an edit never multiplies
chunks. Two decisions that overlap are harmless here because each is logged with
the state it writes, and a decision always changes the state it loaded, so the ORM
never skips the column. `StepHasEffect` reduces every step to a few effects (a fix is
opened, decided on, edited or removed; a request begins, goes on or ends);
everything after it, `HistoryInv` and the refinement included, is proved of the
effects.

`HistoryInv` adds `HandWell`: a fix that a curator request has in hand, and that no
other one has committed since, is still in the state and has the text the request
loaded unless it is gone, and a retirement's DELETE has seen all its chunks. Requests
may share a fix; `Recalls` says what the history knows of a step: a commit on a fix that
stays uncontested was of a request that nobody had overtaken. From that such a decision
starts where the one before ended (`Chained`) and the index has the one entry of
an approved fix or none (`InSync`). The refinement follows effect by effect: a
decision or an edit is one step of `FixMoat` on its fix, or its `Forfeit` if the request
was overtaken, a deletion or a cascade is
a `Remove` of the fixes it takes, whatever is left is a stutter.

### Documents

Assumed (`DocumentsAssumption`): `None` is no document and no title.

`DocInv` is what the first three rest on. Objects are stored before the row and
removed after it; that is safe because an id belongs to one task for ever
(`OwnIds`), so nothing refers to a document that has not had its row yet
(`Handled`), and a clean-up never meets an ingestion of the same document. The
version a task will insert follows that of the revision it read as long as that
one is there (`VersionFollows`): versions never change. `AccountInv` adds
`ObjectsAccounted`, which is inductive once a request that has not begun is known
to have nothing to remove: an object changes hands from the task that stores it to
its row, from the row to the deletion, and stays with whoever failed.

`OneLive` is about the *tidy* documents, those of titles not mixed up, and needs that
they form one chain per title (`Chained` of `DocumentsProofs`): each is superseded by the
next version of the same title (`Stepwise`), only the first revision that is left has
none before it (`NoGap`), no two have one version (`Distinct`), and some revision is
live (`SomeLive`). So the latest is the live one (`LatestIsLive`), an ingestion that is
not outdated puts its revision at the end of the chain, a deletion that mixes nothing up
takes one off either end, and a rename that mixes nothing up moves a lone revision to
a title not in use. The refinement follows: a commit of an ingestion is a `Revise`, a deletion of
the live revision a `Withdraw`, a rename a `Retitle`, the deletion of the machine a
`Clear`, each of the three mix-ups a `Forfeit`, and any other step changes nothing that
answers may cite.

### Answers

Assumed (`AnswersAssumption`, `NoLogAssumption`): every chunk has a machine, `None`
is no machine, conversation, request or log, and there are finitely many votes
(the counters are sums over them).

A citation reaches an answer through two searches, a completion that may echo
earlier answers, a log and a last transaction, and everything may be withdrawn or
deleted between two of them. `AnswersInv` follows a request through its program
counter: what it found was served to it, and what it may still find is counted as
served until its searches are over (`AsksInv`); its log exists from the commit of
the log on (`LogsInv`); its question is in its thread, and is the last turn there if
nothing ran beside it (`QuestionsInv`, `CrowdInv`); a reply is that of a request
that replied and has its question before it (`RepliesInv`); a vote that was let
through is about a reply (`VotesInv`).

### Retrieval

Assumed (`RetrievalAssumption`): no chunk is both manual and fix, relevances are
percentages, `Unit` is a common multiple of the denominators of the ranks, ids of
chunks have one length and are different.

`RetrievalInv` says what the lists are at each stage, for *any* hits; the theorems
are about the functions. `SortedFacts` says that the stable sort is a permutation in
order, `FirstFacts` what a cut keeps, `EarlierGetsMore` and `BeforeGetsMore` that a
better rank gets the greater reciprocal and that the sums keep it, `FusedFacts` and
`RankedFacts` what the two stages return: whatever scores above a result stands
before it. `EscalationIsJust` follows because the cut comes after the order by the
boosted score, so the best chunk is the first result; under an order by relevance
and a cut before the boost it fails, and TLC shows it.

### Progress

Assumed (`ProgressAssumption`): sizes are natural numbers, and the batch size, the
slots and the number of polls are not zero. There may be no chunk and no figure.

Whether a percentage is right depends on where the work was when it was published,
and calls may complete after another one has failed. `ProgressInv` has for each
phase what is done and what the bar shows (`AtEmbedding`, `AtCaptioning`), and of what is
stored that it was gathered (`Joined`); an
exception leaves both as they were, so the completions that follow it report what
they would have reported (`WhereWork`). `ShareBounds` and `ShareGrows` are the
arithmetic: a share rounded down grows with the part and is full only for the whole,
and `TextsCount` that all texts are embedded only when all batches are. A chunk up to which nothing was
left out has as many vectors up to it as chunks, so its place is its own: that gives
`VectorsGoWithTexts`. `ClientInv`
relates an answer on its way to what has happened since: an end that is reported
stays true.

### Accounts

Assumed (`AccountsAssumption`): the demo organization is one, `None` is no
organization, user, role or name.

A request acts on the row it loaded, for an identity that may have nothing to do with
the rows. In `AccountsInv` an account that ever was stays with its organization, which
is that named by every request let in (`RequestInv`), also when the row has changed or
gone in between: that gives `TenantsStayApart`. A request whose event tells of a change
writes the role that the event tells, because the flush compares with the same loaded
row; one whose event tells of none leaves the role alone: so however requests overlap,
the last event that tells of a change left the role there is (`TrailIsTrue`). A sign-in
that found no Auto Admin is the only one and there is still none (`SignInInv`).
`OrphansNeedOutsiders` rests on the guard kept in `RequestInv`: a deletion is never of
the identity's own id.

### Only model-checked

* Liveness: `RequestsFinish`, `AsksFinish` and `PollingEnds` rest on fairness and
  ENABLED, which are out of the prover's reach.
* The violations (`RetiredVanishes`, `NothingOutdated`, `OutdatedStaysOut`,
  `NoDuplicateAdmins`) are counterexamples and need no proof.

The prover cannot do induction over data. So the trail of an account and the
transcript of a conversation are spoken of by their indices, not by recursion, and
the sort is the list whose places are counted, not computed by insertion.

## 5. Not modelled, and the plan

Not modelled, and why:

* extraction, chunking and the wording of prompts are functions from text to text
  whose result no step of the models depends on; how `groundedness.py` looks for
  numbers and part codes in the sources is one Boolean of a completion;
* the reports of the AI pre-screen: no decision reads them (the report of a fix is
  never cleared, so after an edit it is about the text before);
* figures and badges of an answer are read for the prompt and the screen only;
* creating and renaming machines, and all listings, change nothing another step reads;
* evaluation, seeding and the Keycloak bootstrap run by hand, one step after the
  other; signatures and key rotation of tokens belong to the library and Keycloak;
* the screens other than the upload form send one request and show its answer.

Left out of the composition: each module has the other components as an
environment that may do anything they can do (`Publish` and `Withdraw` in
`Answers` stand for `Curation` and `Documents`), so what is shown of it does not
rest on the others' assumptions.

What is left to do: invariants across modules, above all that what `Curation` and
`Documents` do to chunks is within what `Publish`, `Supersede`, `Restore` and
`Withdraw` of `Answers` allow; and the hazards without a property, of which holding
a session open while figures and badges are read (`composer.py:191`) needs a model
of the connection pool.
