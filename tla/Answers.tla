------------------------------ MODULE Answers ------------------------------
(***************************************************************************)
(* Questions of a conversation and the answers composed for them           *)
(* (api/routers/ask.py, answers/composer.py, retrieval/service.py), and    *)
(* the votes technicians cast on the answers (feedback/service.py).        *)
(*                                                                         *)
(* A request to ask is a chain of short transactions with awaits between   *)
(* them: it stores the question, reads the index twice, calls the model    *)
(* once or twice, stores the log, and last the reply.  Curators, workers   *)
(* and administrators change the index and delete machines and users in    *)
(* between, and nothing serialises the requests of one conversation.       *)
(***************************************************************************)
EXTENDS Naturals, Sequences, FiniteSets, SequencesExt

CONSTANTS
  Chats,       \* conversations; each has an owner of its own
  Asks,        \* POST /conversations/{id}/ask
  Votes,       \* POST /messages/{id}/feedback
  Chunks,      \* rows of the index: a uuid4 each, never used twice
  Machines,
  MachineOf,   \* the machine of a chunk's manual or fix
  None         \* SQL NULL

ASSUME AnswersAssumption ==
  /\ MachineOf \in [Chunks -> Machines]
  /\ None \notin Machines \cup Chats \cup Asks
  /\ IsFiniteSet(Votes)

VARIABLES
  machines,  \* the equipment profiles that exist
  chunk,     \* the rows of `chunks`
  signals,   \* Chunk.positive_signals
  chat,      \* the rows of `conversations`
  thread,    \* the messages of each conversation, ordered by created_at
  ask,       \* the requests to ask
  log,       \* answer_logs: the log each request wrote
  vote,      \* the requests to vote
  served,    \* history: what was retrievable in the scope of a request until it had searched
  crowded    \* history: the requests that ran beside another of their conversation

vars == <<machines, chunk, signals, chat, thread, ask, log, vote, served, crowded>>

-----------------------------------------------------------------------------
Chat == [ state : {"absent", "open", "deleted"}, machine : Machines \cup {None} ]

\* created_at is the start of the transaction that inserts a message, so a turn
\* has its place in the order from then on and is there once that commits; the
\* place of one that never commits stays empty.
Turn == [ ask : Asks, role : {"user", "assistant"}, there : BOOLEAN ]

\* What a completion says, as far as the checks on it tell: the citations in it,
\* whether its numbers and parts are all in the sources, the abstention token.
Completion ==
  [ cites : SUBSET (Chunks \cup {"unknown"}), grounded : BOOLEAN, abstains : BOOLEAN ]

Ask ==
  [ pc      : {"none", "arrived", "asked", "searching", "composing", "logged",
               "replied", "notfound", "failed"},
    chat    : Chats \cup {None},
    machine : Machines \cup {None},   \* conv.equipment_id as loaded
    echo    : SUBSET Chunks,          \* citations in the history it was given
    hits    : SUBSET Chunks,          \* the results so far
    retry   : BOOLEAN ]               \* the first completion was turned down

NoAsk == [ pc |-> "none", chat |-> None, machine |-> None, echo |-> {}, hits |-> {},
           retry |-> FALSE ]

Log == [ chat : Chats \cup {None}, retrieved : SUBSET Chunks, cited : SUBSET Chunks,
         text : Completion \cup {None} ]  \* None: the canned escalation

ASSUME NoLogAssumption == None \notin Log

\* A vote that proposes a fix needs the machine of the conversation.
Verdicts == {"helped", "not helped", "fix proposed"}

Vote ==
  [ pc : {"none", "loaded", "done", "rejected"}, ask : Asks \cup {None},
    verdict : Verdicts \cup {None}, machine : Machines \cup {None} ]

NoVote == [ pc |-> "none", ask |-> None, verdict |-> None, machine |-> None ]

-----------------------------------------------------------------------------
Running(a) == ask[a].pc \notin {"none", "replied", "notfound", "failed"}
Unsearched(a) == ask[a].pc \in {"arrived", "asked", "searching"}

\* The rows two filters let a search see: not of a superseded manual, and, when
\* the conversation has a machine, of that machine.  slip: superseded rows too.
InScope(k, m) == m = None \/ MachineOf[k] = m

Retrievable_Superseded(m) ==
  {k \in Chunks : chunk[k] \in {"live", "superseded"} /\ InScope(k, m)}

Retrievable(m) == {k \in Chunks : chunk[k] = "live" /\ InScope(k, m)}

\* The places of the turns a reader of the conversation sees, in their order.
Transcript(c) == {i \in DOMAIN thread[c] : thread[c][i].there}

Reply(a) == [ask |-> a, role |-> "assistant", there |-> TRUE]
Question(a, there) == [ask |-> a, role |-> "user", there |-> there]

HasReply(a) == \E c \in Chats : Contains(thread[c], Reply(a))

Init ==
  /\ machines = Machines
  /\ chunk \in [Chunks -> {"absent", "live"}]
  /\ signals = [k \in Chunks |-> 0]
  /\ chat = [c \in Chats |-> [state |-> "absent", machine |-> None]]
  /\ thread = [c \in Chats |-> <<>>]
  /\ ask = [a \in Asks |-> NoAsk]
  /\ log = [a \in Asks |-> None]
  /\ vote = [v \in Votes |-> NoVote]
  /\ served = [a \in Asks |-> {}]
  /\ crowded = {}

-----------------------------------------------------------------------------
\* Conversations.

OpenChat(c, m) ==
  /\ chat[c].state = "absent"
  /\ m \in machines \cup {None}
  /\ chat' = [chat EXCEPT ![c] = [state |-> "open", machine |-> m]]
  /\ UNCHANGED <<machines, chunk, signals, thread, ask, log, vote, served, crowded>>

\* Deleting the owner cascades to the conversation, its messages and the feedback on
\* them; the logs stay and forget it, and the counters keep what the votes added.
DeleteOwner(c) ==
  /\ chat[c].state = "open"
  /\ chat' = [chat EXCEPT ![c] = [state |-> "deleted", machine |-> None]]
  /\ thread' = [thread EXCEPT ![c] = <<>>]
  /\ log' = [a \in Asks |->
               IF log[a] # None /\ log[a].chat = c THEN [log[a] EXCEPT !.chat = None] ELSE log[a]]
  /\ UNCHANGED <<machines, chunk, signals, ask, vote, served, crowded>>

-----------------------------------------------------------------------------
\* The index, as the other components change it.

\* What a change makes retrievable is so for every request that has not searched.
Reindex(chunk2) ==
  /\ chunk' = chunk2
  /\ served' = [a \in Asks |->
       served[a] \cup {k \in Chunks : Unsearched(a) /\ chunk2[k] = "live"
                                                    /\ InScope(k, ask[a].machine)}]

\* An ingestion or an approval commits.
Publish(k) ==
  /\ chunk[k] = "absent"
  /\ MachineOf[k] \in machines
  /\ Reindex([chunk EXCEPT ![k] = "live"])
  /\ UNCHANGED <<machines, signals, chat, thread, ask, log, vote, crowded>>

\* A newer revision of its manual is ingested, or the newer one is deleted.
Supersede(k) ==
  /\ chunk[k] = "live"
  /\ Reindex([chunk EXCEPT ![k] = "superseded"])
  /\ UNCHANGED <<machines, signals, chat, thread, ask, log, vote, crowded>>

Restore(k) ==
  /\ chunk[k] = "superseded"
  /\ Reindex([chunk EXCEPT ![k] = "live"])
  /\ UNCHANGED <<machines, signals, chat, thread, ask, log, vote, crowded>>

\* Its manual is deleted, or its fix is edited or retired.
Withdraw(k) ==
  /\ chunk[k] \in {"live", "superseded"}
  /\ Reindex([chunk EXCEPT ![k] = "gone"])
  /\ UNCHANGED <<machines, signals, chat, thread, ask, log, vote, crowded>>

\* slip: conversations keep the id of a machine that is gone
Unpinned_Never(c, m) == chat[c]

\* A conversation about a machine that is deleted is kept, with no machine.
Unpinned(c, m) == IF chat[c].machine = m THEN [chat[c] EXCEPT !.machine = None] ELSE chat[c]

\* Manuals and fixes go with the machine.
DeleteMachine(m) ==
  /\ m \in machines
  /\ machines' = machines \ {m}
  /\ Reindex([k \in Chunks |-> IF MachineOf[k] = m THEN "gone" ELSE chunk[k]])
  /\ chat' = [c \in Chats |-> Unpinned(c, m)]
  /\ vote' = [v \in Votes |->
                IF vote[v].pc = "done" /\ vote[v].machine = m
                THEN [vote[v] EXCEPT !.machine = None] ELSE vote[v]]
  /\ UNCHANGED <<signals, thread, ask, log, crowded>>

-----------------------------------------------------------------------------
\* Asking.

\* First transaction: the conversation and its history are read, the texts of the
\* earlier turns with the citations in them.
Arrive(a, c) ==
  /\ ask[a].pc = "none"
  /\ IF chat[c].state = "open"
     THEN LET beside == {b \in Asks : Running(b) /\ ask[b].chat = c}
              said   == {i \in Transcript(c) : thread[c][i].role = "assistant"}
          IN /\ ask' = [ask EXCEPT ![a] =
                          [NoAsk EXCEPT !.pc = "arrived", !.chat = c, !.machine = chat[c].machine,
                                        !.echo = UNION {log[thread[c][i].ask].cited : i \in said}]]
             /\ thread' = [thread EXCEPT ![c] = Append(@, Question(a, FALSE))]
             /\ served' = [served EXCEPT ![a] = Retrievable(chat[c].machine)]
             /\ crowded' = crowded \cup beside \cup (IF beside = {} THEN {} ELSE {a})
     ELSE /\ ask' = [ask EXCEPT ![a].pc = "notfound"]
          /\ UNCHANGED <<thread, served, crowded>>
  /\ UNCHANGED <<machines, chunk, signals, chat, log, vote>>

\* The question is stored before anything is searched; the foreign key refuses it
\* when the conversation is gone.
CommitQuestion(a) ==
  /\ ask[a].pc = "arrived"
  /\ chat[ask[a].chat].state = "open"
  /\ thread' = [thread EXCEPT ![ask[a].chat] =
                  [i \in DOMAIN @ |-> IF @[i] = Question(a, FALSE) THEN Question(a, TRUE) ELSE @[i]]]
  /\ ask' = [ask EXCEPT ![a].pc = "asked"]
  /\ UNCHANGED <<machines, chunk, signals, chat, log, vote, served, crowded>>

\* Each search is a statement with a snapshot of its own, and each is limited.
SearchVector(a) ==
  /\ ask[a].pc = "asked"
  /\ \E hits \in SUBSET Retrievable(ask[a].machine) :
       ask' = [ask EXCEPT ![a].pc = "searching", ![a].hits = hits]
  /\ UNCHANGED <<machines, chunk, signals, chat, thread, log, vote, served, crowded>>

\* slip: the filter on superseded revisions left out of the second search
SearchKeyword_Unfiltered(a) ==
  /\ ask[a].pc = "searching"
  /\ \E hits \in SUBSET Retrievable_Superseded(ask[a].machine) :
       ask' = [ask EXCEPT ![a].pc = "composing", ![a].hits = @ \cup hits]
  /\ UNCHANGED <<machines, chunk, signals, chat, thread, log, vote, served, crowded>>

\* The second search, after which fusion, reranking and the cut to the best eight
\* leave some of the hits, and the best of them at least.
SearchKeyword(a) ==
  /\ ask[a].pc = "searching"
  /\ \E hits \in SUBSET Retrievable(ask[a].machine) :
     \E best \in SUBSET (ask[a].hits \cup hits) :
       /\ best = {} => ask[a].hits \cup hits = {}
       /\ ask' = [ask EXCEPT ![a].pc = "composing", ![a].hits = best]
  /\ UNCHANGED <<machines, chunk, signals, chat, thread, log, vote, served, crowded>>

\* The log is inserted and committed; the foreign key refuses it when the
\* conversation is gone.  The request needs only its id from now on.
WriteLog(a, cited, text) ==
  /\ chat[ask[a].chat].state = "open"
  /\ log' = [log EXCEPT ![a] =
       [chat |-> ask[a].chat, retrieved |-> ask[a].hits, cited |-> cited, text |-> text]]
  /\ ask' = [ask EXCEPT ![a] = [NoAsk EXCEPT !.pc = "logged", !.chat = ask[a].chat]]
  /\ UNCHANGED <<machines, chunk, signals, chat, thread, vote, served, crowded>>

\* No result, or none relevant enough: no model is asked.
Escalate(a) ==
  /\ ask[a].pc = "composing"
  /\ ~ ask[a].retry
  /\ WriteLog(a, {}, None)

\* A model can cite what its prompt shows: the sources, and the citations of
\* earlier answers in the history.
MayAnswer(a) ==
  {text \in Completion : text.cites \subseteq ask[a].hits \cup ask[a].echo \cup {"unknown"}}

\* slip: citations of anything but a source are dropped, not held against the answer
Accepted_Dropping(a, text) ==
  /\ text.grounded
  /\ text.cites \cap ask[a].hits # {}

\* Grounded, with a citation, and every citation in it names a source.
Accepted(a, text) ==
  /\ text.grounded
  /\ text.cites \subseteq ask[a].hits
  /\ text.cites # {}

\* slip: asked until a completion passes
Complete_Unbounded(a) ==
  /\ ask[a].pc = "composing"
  /\ ask[a].hits # {}
  /\ \E text \in MayAnswer(a) :
       \/ ~ text.abstains /\ Accepted(a, text) /\ WriteLog(a, text.cites \cap ask[a].hits, text)
       \/ text.abstains /\ WriteLog(a, {}, None)
       \/ /\ ~ text.abstains /\ ~ Accepted(a, text)
          /\ ask' = [ask EXCEPT ![a].retry = ~ @]
          /\ UNCHANGED <<machines, chunk, signals, chat, thread, log, vote, served, crowded>>

\* One call of the model: the completion is accepted, turned down for a second
\* and last try, or the answer is escalated.
Complete(a) ==
  /\ ask[a].pc = "composing"
  /\ ask[a].hits # {}
  /\ \E text \in MayAnswer(a) :
       \/ ~ text.abstains /\ Accepted(a, text) /\ WriteLog(a, text.cites \cap ask[a].hits, text)
       \/ /\ text.abstains \/ (~ Accepted(a, text) /\ ask[a].retry)
          /\ WriteLog(a, {}, None)
       \/ /\ ~ text.abstains /\ ~ Accepted(a, text) /\ ~ ask[a].retry
          /\ ask' = [ask EXCEPT ![a].retry = TRUE]
          /\ UNCHANGED <<machines, chunk, signals, chat, thread, log, vote, served, crowded>>

\* slip: the reply dated when the question came
StoreReply_Dated(a) ==
  /\ ask[a].pc = "logged"
  /\ chat[ask[a].chat].state = "open"
  /\ LET old == thread[ask[a].chat]
         at  == CHOOSE i \in DOMAIN old : old[i] = Question(a, TRUE)
     IN thread' = [thread EXCEPT ![ask[a].chat] = InsertAt(old, at, Reply(a))]
  /\ ask' = [ask EXCEPT ![a] = [NoAsk EXCEPT !.pc = "replied"]]
  /\ UNCHANGED <<machines, chunk, signals, chat, log, vote, served, crowded>>

\* Last transaction: the reply joins the transcript.
StoreReply(a) ==
  /\ ask[a].pc = "logged"
  /\ chat[ask[a].chat].state = "open"
  /\ thread' = [thread EXCEPT ![ask[a].chat] = Append(@, Reply(a))]
  /\ ask' = [ask EXCEPT ![a] = [NoAsk EXCEPT !.pc = "replied"]]
  /\ UNCHANGED <<machines, chunk, signals, chat, log, vote, served, crowded>>

\* A call to the embedding model, the database or the language model raises, or
\* the request is cut off: what is not committed is rolled back, the rest stays.
Fail(a) ==
  /\ Running(a)
  /\ ask' = [ask EXCEPT ![a] = [NoAsk EXCEPT !.pc = "failed"]]
  /\ UNCHANGED <<machines, chunk, signals, chat, thread, log, vote, served, crowded>>

-----------------------------------------------------------------------------
\* Votes on replies.

\* The message, its log, and for a proposed fix its conversation are loaded.  A
\* fix needs a machine; without one nothing of the vote is kept.
CastVote(v, a, verdict) ==
  /\ vote[v].pc = "none"
  /\ HasReply(a)
  /\ LET machine == IF verdict = "fix proposed" THEN chat[log[a].chat].machine ELSE None
     IN vote' = [vote EXCEPT ![v] =
          [pc |-> IF verdict = "fix proposed" /\ machine = None THEN "rejected" ELSE "loaded",
           ask |-> a, verdict |-> verdict, machine |-> machine]]
  /\ UNCHANGED <<machines, chunk, signals, chat, thread, ask, log, served, crowded>>

\* slip: everything retrieved is reinforced, not what was cited
Reinforced_Retrieved(v) ==
  IF vote[v].verdict = "helped" THEN log[vote[v].ask].retrieved ELSE {}

\* What a vote reinforces: the citations of the answer.
Reinforced(v) == IF vote[v].verdict = "helped" THEN log[vote[v].ask].cited ELSE {}

\* slip: the counters are committed before the vote is inserted
CommitVote_Apart(v) ==
  /\ vote[v].pc = "loaded"
  /\ vote' = [vote EXCEPT ![v].pc =
       IF HasReply(vote[v].ask) /\ vote[v].machine \in machines \cup {None}
       THEN "done" ELSE "rejected"]
  /\ signals' = [k \in Chunks |->
       IF k \in Reinforced(v) /\ chunk[k] # "gone" THEN signals[k] + 1 ELSE signals[k]]
  /\ UNCHANGED <<machines, chunk, chat, thread, ask, log, served, crowded>>

\* One transaction: the counters of the rows that still exist, live or not, are
\* incremented in place, the verdict and the candidate are inserted.  Foreign keys
\* refuse all of it when the message, the machine or the voter is gone; accounts are
\* not in this module, so a vote may be refused at any time.
CommitVote(v) ==
  /\ vote[v].pc = "loaded"
  /\ \/ /\ HasReply(vote[v].ask) /\ vote[v].machine \in machines \cup {None}
        /\ vote' = [vote EXCEPT ![v].pc = "done"]
        /\ signals' = [k \in Chunks |->
             IF k \in Reinforced(v) /\ chunk[k] # "gone" THEN signals[k] + 1 ELSE signals[k]]
     \/ /\ vote' = [vote EXCEPT ![v].pc = "rejected"]
        /\ UNCHANGED signals
  /\ UNCHANGED <<machines, chunk, chat, thread, ask, log, served, crowded>>

-----------------------------------------------------------------------------
Step(a) ==
  \/ CommitQuestion(a) \/ SearchVector(a) \/ SearchKeyword(a)
  \/ Escalate(a) \/ Complete(a) \/ StoreReply(a) \/ Fail(a)

Technician ==
  \/ \E c \in Chats, m \in machines \cup {None} : OpenChat(c, m)
  \/ \E a \in Asks, c \in Chats : Arrive(a, c)
  \/ \E v \in Votes, a \in Asks, verdict \in Verdicts : CastVote(v, a, verdict)

Others ==
  \/ \E k \in Chunks : Publish(k) \/ Supersede(k) \/ Restore(k) \/ Withdraw(k)
  \/ \E m \in machines : DeleteMachine(m)
  \/ \E c \in Chats : DeleteOwner(c)

Next ==
  \/ Technician
  \/ Others
  \/ \E a \in Asks : Step(a)
  \/ \E v \in Votes : CommitVote(v)

Spec == Init /\ [][Next]_vars

\* A request that was taken goes on: its coroutine is resumed when what it awaits
\* answers, raises or times out.
FairSpec == Spec /\ \A a \in Asks : WF_vars(Step(a))

-----------------------------------------------------------------------------
\* The shapes of the variables, and the foreign keys between the rows: machines,
\* conversations, messages and logs never point at what is gone (models.py:149-218).
TypeOK ==
  /\ machines \subseteq Machines
  /\ chunk \in [Chunks -> {"absent", "live", "superseded", "gone"}]
  /\ signals \in [Chunks -> Nat]
  /\ chat \in [Chats -> Chat]
  /\ thread \in [Chats -> Seq(Turn)]
  /\ ask \in [Asks -> Ask]
  /\ log \in [Asks -> Log \cup {None}]
  /\ vote \in [Votes -> Vote]
  /\ served \in [Asks -> SUBSET Chunks]
  /\ crowded \subseteq Asks
  /\ \A c \in Chats :
       /\ chat[c].machine \in machines \cup {None}
       /\ chat[c].state # "open" => thread[c] = <<>>
       /\ \A t \in Range(thread[c]) :
            t.role = "assistant" => log[t.ask] # None /\ log[t.ask].chat = c

\* No answer cites what was already withdrawn, superseded or of another machine
\* when its question came, although earlier answers in the history may cite it and
\* two searches with a snapshot each feed it (vector.py:17, composer.py:244,
\* retrieval/service.py:78).
CitedWasServed == \A a \in Asks : log[a] # None => log[a].cited \subseteq served[a]

\* An answer that is not an escalation is backed: the text that was logged is one
\* completion that passed every check, with all its citations among the sources
\* of this question (composer.py:244-252, 286-310).
AnsweredIsBacked ==
  \A a \in Asks :
    log[a] # None /\ log[a].text # None =>
      /\ log[a].text.grounded /\ ~ log[a].text.abstains
      /\ log[a].text.cites = log[a].cited
      /\ log[a].cited # {} /\ log[a].cited \subseteq log[a].retrieved

\* Every reply in a transcript comes after the question it answers, and directly
\* after it when no other request of the conversation ran beside (ask.py:79-108).
RepliesFollow ==
  \A c \in Chats : \A i \in Transcript(c) :
    thread[c][i].role = "assistant" =>
      \E j \in Transcript(c) :
        /\ j < i /\ thread[c][j] = Question(thread[c][i].ask, TRUE)
        /\ thread[c][i].ask \in crowded \/ \A k \in Transcript(c) : ~ (j < k /\ k < i)

\* A chunk's counter is the number of requests to vote that were accepted with "helped" on
\* an answer citing it (feedback/service.py:86-93), whatever ran beside them, and though the
\* rows of the votes go with their conversation.
SignalsAreVotes ==
  \A k \in Chunks :
    chunk[k] # "gone" =>
      signals[k] = Cardinality({v \in Votes : /\ vote[v].pc = "done" /\ vote[v].verdict = "helped"
                                         /\ k \in log[vote[v].ask].cited})

\* Every question that was taken is answered, escalated or failed in the end: the
\* model is not asked again and again for a completion that passes (composer.py:227).
AsksFinish == \A a \in Asks : Running(a) ~> ~ Running(a)

=============================================================================
