------------------------------ MODULE Progress ------------------------------
(***************************************************************************)
(* How far an ingestion is, and what the screen says of it: the worker     *)
(* embeds batches of chunks and captions figures concurrently, each under  *)
(* a semaphore (llm/embeddings.py, ingestion/pipeline.py), publishes a     *)
(* percentage to the result backend (tasks.py), the status endpoint reads  *)
(* it back (documents.py), and the client polls that endpoint a bounded    *)
(* number of times (DocumentsAdmin.tsx).                                   *)
(*                                                                         *)
(* One upload; what it does to the rows and the store is in Documents.     *)
(***************************************************************************)
EXTENDS Naturals, Sequences, FiniteSets

CONSTANTS
  Texts,            \* number of chunks of the manual
  Omitted,          \* the chunks an answer of the embedder may leave out
  BatchSize,        \* _EMBED_BATCH_SIZE
  EmbedSlots,       \* _EMBED_CONCURRENCY
  Figures,          \* number of figures
  CaptionSlots,     \* _CAPTION_CONCURRENCY
  PollMax           \* POLL_MAX_ATTEMPTS

ASSUME ProgressAssumption ==
  /\ Texts \in Nat /\ Figures \in Nat /\ Omitted \subseteq 1..Texts
  /\ BatchSize \in Nat \ {0} /\ EmbedSlots \in Nat \ {0}
  /\ CaptionSlots \in Nat \ {0} /\ PollMax \in Nat \ {0}

VARIABLES
  phase,      \* where ingest_document is
  batch,      \* the embedding requests
  arrived,    \* the batches that came back, in the order they did
  returned,   \* the chunks that the answers returned a vector for
  vectors,    \* the list of vectors: <<place, the chunk it was made of>>
  figure,     \* the captioning calls
  committed,  \* the document is live
  backend,    \* what the result backend holds of the task
  poll,       \* the polling loop: what it waits for, the attempts left, the last answer
  screen      \* what the upload form shows

worker == <<phase, batch, arrived, returned, vectors, figure, committed, backend>>
client == <<poll, screen>>
vars == <<worker, client>>

-----------------------------------------------------------------------------
Batches == 1..((Texts + BatchSize - 1) \div BatchSize)
Captions == 1..Figures

CallStates == {"waiting", "sent", "done", "failed"}

\* The texts of some batches; the last batch takes what is left.
TextsOf(bs) ==
  {t \in 1..Texts : \E b \in bs : (b - 1) * BatchSize < t /\ t <= b * BatchSize}

InState(calls, s) == {c \in DOMAIN calls : calls[c] = s}

\* A gather is left at the first exception, while the other calls may still end.
Embedding == phase = "embedding" \/ (phase = "failing" /\ InState(batch, "failed") # {})
Captioning == phase = "captioning" \/ (phase = "failing" /\ InState(figure, "failed") # {})

Running == {"reading", "embedding", "captioning", "saving", "stored", "reported", "failing"}
Final == {"success", "failure", "lost"}

States == {"PENDING", "PROGRESS", "SUCCESS", "FAILURE"}

\* AsyncResult of a task nobody has reported on, queued or unknown.
Pending == [state |-> "PENDING", percent |-> 0]

Publish(percent) == backend' = [state |-> "PROGRESS", percent |-> percent]

Init ==
  /\ phase = "none"
  /\ batch = [b \in Batches |-> "waiting"]
  /\ arrived = <<>>
  /\ returned = {}
  /\ vectors = {}
  /\ figure = [f \in Captions |-> "waiting"]
  /\ committed = FALSE
  /\ backend = Pending
  /\ poll = [pc |-> "none", left |-> PollMax, answer |-> Pending]
  /\ screen = "form"

-----------------------------------------------------------------------------
\* The worker.

Start ==
  /\ phase = "queued"
  /\ phase' = "reading"
  /\ Publish(2)
  /\ UNCHANGED <<batch, arrived, returned, vectors, figure, committed, client>>

Extract ==
  /\ phase = "reading"
  /\ phase' = "embedding"
  /\ Publish(8)
  /\ UNCHANGED <<batch, arrived, returned, vectors, figure, committed, client>>

\* slip: the calls made all at once
Starts_Unbounded(calls, c, slots) == calls[c] = "waiting"

\* A semaphore lets calls start in their order, a bounded number at a time.
Starts(calls, c, slots) ==
  /\ calls[c] = "waiting"
  /\ \A d \in DOMAIN calls : calls[d] = "waiting" => c <= d
  /\ Cardinality(InState(calls, "sent")) < slots

SendBatch(b) ==
  /\ Embedding
  /\ Starts(batch, b, EmbedSlots)
  /\ batch' = [batch EXCEPT ![b] = "sent"]
  /\ UNCHANGED <<phase, arrived, returned, vectors, figure, committed, backend, client>>

\* slip: the position of the batch taken for the number of texts embedded
Embedded_Position(b) == Cardinality(TextsOf(1..b))

\* done: the texts of the batches that came back, b included.
Embedded(b) == Cardinality(TextsOf(InState(batch, "done") \cup {b}))

\* Completions in any order; each reports the count so far in the band 10..70.
\* Nobody counts the vectors of an answer: it may hold fewer than were asked for.
BatchDone(b) ==
  /\ Embedding
  /\ batch[b] = "sent"
  /\ batch' = [batch EXCEPT ![b] = "done"]
  /\ arrived' = Append(arrived, b)
  /\ \E short \in SUBSET (Omitted \cap TextsOf({b})) :
       returned' = returned \cup (TextsOf({b}) \ short)
  /\ Publish(10 + (60 * Embedded(b)) \div Texts)
  /\ UNCHANGED <<phase, vectors, figure, committed, client>>

\* The first exception ends the gather.
CallFails(calls, c) == calls[c] = "sent" /\ phase' = "failing"

BatchFails(b) ==
  /\ phase = "embedding"
  /\ CallFails(batch, b)
  /\ batch' = [batch EXCEPT ![b] = "failed"]
  /\ UNCHANGED <<arrived, returned, vectors, figure, committed, backend, client>>

ArrivalOf(t) == CHOOSE i \in DOMAIN arrived : t \in TextsOf({arrived[i]})

\* slip: the vectors joined in the order they arrived
Place_Arrival(t) ==
  Cardinality({s \in returned : \/ ArrivalOf(s) < ArrivalOf(t)
                                \/ ArrivalOf(s) = ArrivalOf(t) /\ s <= t})

\* gather returns the answers in the order of their batches, and they are joined.
Place(t) == Cardinality({s \in returned : s <= t})

Gathered == {<<Place(t), t>> : t \in returned}

FinishEmbedding ==
  /\ phase = "embedding"
  /\ InState(batch, "done") = Batches
  /\ phase' = "captioning"
  /\ vectors' = Gathered
  /\ Publish(70)
  /\ UNCHANGED <<batch, arrived, returned, figure, committed, client>>

SendFigure(f) ==
  /\ Captioning
  /\ Starts(figure, f, CaptionSlots)
  /\ figure' = [figure EXCEPT ![f] = "sent"]
  /\ UNCHANGED <<phase, batch, arrived, returned, vectors, committed, backend, client>>

\* slip: counted when the call is sent
Captioned_Sent(f) == Cardinality(InState(figure, "done") \cup InState(figure, "sent"))

\* captioned: the figures stored so far, f included.
Captioned(f) == Cardinality(InState(figure, "done") \cup {f})

FigureDone(f) ==
  /\ Captioning
  /\ figure[f] = "sent"
  /\ figure' = [figure EXCEPT ![f] = "done"]
  /\ Publish(70 + (18 * Captioned(f)) \div Figures)
  /\ UNCHANGED <<phase, batch, arrived, returned, vectors, committed, client>>

FigureFails(f) ==
  /\ phase = "captioning"
  /\ CallFails(figure, f)
  /\ figure' = [figure EXCEPT ![f] = "failed"]
  /\ UNCHANGED <<batch, arrived, returned, vectors, committed, backend, client>>

Save ==
  /\ phase = "captioning"
  /\ InState(figure, "done") = Captions
  /\ phase' = "saving"
  /\ Publish(88)
  /\ UNCHANGED <<batch, arrived, returned, vectors, figure, committed, client>>

\* zip: the chunk at a place is stored with the vector at that place, and a chunk
\* behind the last vector not at all.
StoredWith(n) == {t \in 1..Texts : <<n, t>> \in vectors}

Commit ==
  /\ phase = "saving"
  /\ phase' = "stored"
  /\ committed' = TRUE
  /\ UNCHANGED <<batch, arrived, returned, vectors, figure, backend, client>>

ReportStored ==
  /\ phase = "stored"
  /\ phase' = "reported"
  /\ Publish(100)
  /\ UNCHANGED <<batch, arrived, returned, vectors, figure, committed, client>>

Succeed ==
  /\ phase = "reported"
  /\ phase' = "success"
  /\ backend' = [state |-> "SUCCESS", percent |-> 100]
  /\ UNCHANGED <<batch, arrived, returned, vectors, figure, committed, client>>

\* Any step of the task may raise, publishing included, also after the commit.
Fail ==
  /\ phase \in Running
  /\ phase' = "failure"
  /\ backend' = [state |-> "FAILURE", percent |-> 0]
  /\ UNCHANGED <<batch, arrived, returned, vectors, figure, committed, client>>

\* The worker is killed: what it published last stays, unless a parent process is
\* left to record the loss.
Die ==
  /\ phase \in Running
  /\ phase' = "lost"
  /\ backend' \in {backend, [state |-> "FAILURE", percent |-> 0]}
  /\ UNCHANGED <<batch, arrived, returned, vectors, figure, committed, client>>

-----------------------------------------------------------------------------
\* The client.

\* The upload is accepted, and the form starts to poll.
Accept ==
  /\ phase = "none"
  /\ phase' = "queued"
  /\ poll' = [poll EXCEPT !.pc = "asking"]
  /\ screen' = "queued"
  /\ UNCHANGED <<batch, arrived, returned, vectors, figure, committed, backend>>

\* The status endpoint reads the backend; the answer is on its way.
Answer ==
  /\ poll.pc = "asking"
  /\ poll' = [poll EXCEPT !.pc = "answered", !.answer = backend]
  /\ UNCHANGED <<worker, screen>>

\* The request for the status fails: the loop is left.
Unreachable ==
  /\ poll.pc = "asking"
  /\ poll' = [poll EXCEPT !.pc = "ended"]
  /\ screen' = "unknown"
  /\ UNCHANGED worker

\* slip: attempts are not counted
ShowOngoing_Uncounted ==
  /\ poll.answer.state \in {"PENDING", "PROGRESS"}
  /\ poll' = [poll EXCEPT !.pc = "asking"]
  /\ screen' = "processing"

\* An answer that is not the last one is shown, until the attempts are used up.
ShowOngoing ==
  /\ poll.answer.state \in {"PENDING", "PROGRESS"}
  /\ poll' = [poll EXCEPT !.left = @ - 1, !.pc = IF poll.left = 1 THEN "ended" ELSE "asking"]
  /\ screen' = IF poll.left = 1 THEN "check back" ELSE "processing"

\* slip: whatever is not a failure taken for success once saving began
ShowEnd_Saving ==
  /\ poll.answer.state \in {"SUCCESS", "FAILURE"} \/ poll.answer.percent >= 88
  /\ poll' = [poll EXCEPT !.pc = "ended"]
  /\ screen' = IF poll.answer.state = "FAILURE" THEN "failed" ELSE "live"

ShowEnd ==
  /\ poll.answer.state \in {"SUCCESS", "FAILURE"}
  /\ poll' = [poll EXCEPT !.pc = "ended"]
  /\ screen' = IF poll.answer.state = "FAILURE" THEN "failed" ELSE "live"

Show ==
  /\ poll.pc = "answered"
  /\ ShowOngoing \/ ShowEnd
  /\ UNCHANGED worker

-----------------------------------------------------------------------------
Work ==
  \/ Start \/ Extract \/ FinishEmbedding \/ Save \/ Commit \/ ReportStored \/ Succeed
  \/ \E b \in Batches : SendBatch(b) \/ BatchDone(b) \/ BatchFails(b)
  \/ \E f \in Captions : SendFigure(f) \/ FigureDone(f) \/ FigureFails(f)
  \/ Fail \/ Die

Poll == Answer \/ Unreachable \/ Show

Next == Accept \/ Work \/ Poll

Spec == Init /\ [][Next]_vars

\* A page that stays open keeps polling; nothing is assumed of the worker.
FairSpec == Spec /\ WF_vars(Poll)

-----------------------------------------------------------------------------
\* The shapes of the variables, and no more calls in flight than a semaphore allows.
TypeOK ==
  /\ phase \in {"none", "queued"} \cup Running \cup Final
  /\ batch \in [Batches -> CallStates] /\ figure \in [Captions -> CallStates]
  /\ Cardinality(InState(batch, "sent")) <= EmbedSlots
  /\ Cardinality(InState(figure, "sent")) <= CaptionSlots
  /\ arrived \in Seq(Batches)
  /\ returned \subseteq 1..Texts /\ vectors \subseteq (1..Texts) \X (1..Texts)
  /\ committed \in BOOLEAN
  /\ backend \in [state : States, percent : 0..100]
  /\ poll \in [pc : {"none", "asking", "answered", "ended"}, left : 0..PollMax,
               answer : [state : States, percent : 0..100]]
  /\ screen \in {"form", "queued", "processing", "live", "failed", "unknown", "check back"}

\* A chunk is stored with its own vector, in whatever order the batches came back
\* (embeddings.py:107-109, pipeline.py:144), unless the answers left out a chunk up
\* to it: then nobody notices, and the vectors are those of later chunks.
VectorsMatchTexts ==
  committed => \A n \in 1..Texts : 1..n \subseteq returned => StoredWith(n) = {n}

\* The percentage says what is done: 70 and more that every chunk is embedded, 88
\* and more that every figure is stored, 100 that the document is live
\* (pipeline.py:86-121, 168).
PercentIsEarned ==
  backend.state = "PROGRESS" =>
    /\ backend.percent >= 70 => InState(batch, "done") = Batches
    /\ backend.percent >= 88 => InState(figure, "done") = Captions
    /\ backend.percent = 100 => committed

\* The bar never goes back, though calls complete in any order and may still
\* complete after one of them failed (embeddings.py:99-104, pipeline.py:113-117).
PercentNeverGoesBack ==
  [][backend.state = "PROGRESS" /\ backend'.state = "PROGRESS"
       => backend'.percent >= backend.percent]_vars

\* The screen calls a manual live only when it is, and an ingestion failed only
\* when it ended without success (DocumentsAdmin.tsx:112-120).
ScreenIsTrue ==
  /\ screen = "live" => committed
  /\ screen = "failed" => phase \in {"failure", "lost"}

\* Polling ends, also when the worker is gone and its last report stays
\* (DocumentsAdmin.tsx:110-132).
PollingEnds == (poll.pc = "asking") ~> (poll.pc = "ended")

=============================================================================
