---------------------------- MODULE AnswersProofs ----------------------------
(***************************************************************************)
(* Proofs about Answers, for every set of conversations, questions, votes, *)
(* chunks and machines.                                                    *)
(***************************************************************************)
EXTENDS Answers, FiniteSetTheorems, SequenceTheorems, TLAPS

-----------------------------------------------------------------------------
(***************************************************************************)
(* The inductive invariant.  A citation goes through the echo of earlier   *)
(* answers, two searches and a log before it is in an answer, and a reply  *)
(* is appended wherever the thread has got to by then: so the invariant    *)
(* follows a request through its program counter, and says of one that ran *)
(* alone that its question is still the last turn of its conversation.     *)
(***************************************************************************)

\* What a request has found was served to it, and what it may still find.
AsksInv ==
  \A a \in Asks :
    /\ Running(a) => ask[a].chat \in Chats /\ chat[ask[a].chat].state # "absent"
    /\ ask[a].hits \subseteq served[a]
    /\ Unsearched(a) => Retrievable(ask[a].machine) \subseteq served[a]

\* A request that has logged keeps its log, in its conversation while that is open.
LogsInv ==
  \A a \in Asks :
    /\ log[a] # None => ask[a].pc \in {"logged", "replied", "failed"}
    /\ ask[a].pc \in {"logged", "replied"} => log[a] # None
    /\ ask[a].pc = "logged" /\ chat[ask[a].chat].state = "open" => log[a].chat = ask[a].chat

\* A reply is one of a request that has replied, and comes after its question: in
\* the place next to it if nothing ran beside the request.
RepliesInv ==
  \A c \in Chats : \A i \in 1..Len(thread[c]) :
    thread[c][i].role = "assistant" =>
      /\ thread[c][i].there /\ ask[thread[c][i].ask].pc = "replied"
      /\ \E j \in 1..(i - 1) :
           /\ thread[c][j] = Question(thread[c][i].ask, TRUE)
           /\ thread[c][i].ask \in crowded \/ j = i - 1

\* The question of a request under way is in its thread, and last if nothing else
\* ran beside it.
Waits(a, c) ==
  \E j \in 1..Len(thread[c]) :
    /\ thread[c][j] = Question(a, ask[a].pc # "arrived")
    /\ a \in crowded \/ j = Len(thread[c])

QuestionsInv ==
  \A a \in Asks : \A c \in Chats :
    Running(a) /\ ask[a].chat = c /\ chat[c].state = "open" => Waits(a, c)

\* Two requests of one conversation under way are beside each other.
CrowdInv ==
  \A a, b \in Asks :
    Running(a) /\ Running(b) /\ ask[a].chat = ask[b].chat /\ a # b => a \in crowded

\* A vote that was let through is on a request that has replied.
VotesInv ==
  \A v \in Votes :
    vote[v].pc \in {"loaded", "done"} =>
      vote[v].ask \in Asks /\ ask[vote[v].ask].pc = "replied"

AnswersInv ==
  /\ TypeOK /\ AsksInv /\ LogsInv
  /\ RepliesInv /\ QuestionsInv /\ CrowdInv
  /\ VotesInv
  /\ CitedWasServed /\ AnsweredIsBacked /\ SignalsAreVotes

-----------------------------------------------------------------------------
(***************************************************************************)
(* Types.                                                                  *)
(***************************************************************************)

\* The records a request, a vote and the texts are made of.
LEMMA Records ==
  /\ NoAsk \in Ask /\ NoVote \in Vote
  /\ \A a \in Asks : Reply(a) \in Turn
  /\ \A a \in Asks, there \in BOOLEAN : Question(a, there) \in Turn
  BY DEF NoAsk, Ask, NoVote, Vote, Reply, Question, Turn

\* What an assistant's turn refers to.
RepliesLogged ==
  \A c \in Chats : \A i \in 1..Len(thread[c]) :
    thread[c][i].role = "assistant" =>
      log[thread[c][i].ask] # None /\ log[thread[c][i].ask].chat = c

\* The threads, place by place.
LEMMA Threads ==
  ASSUME TypeOK
  PROVE  /\ \A c \in Chats : /\ Len(thread[c]) \in Nat
                             /\ DOMAIN thread[c] = 1..Len(thread[c])
                             /\ \A i \in 1..Len(thread[c]) : thread[c][i] \in Turn
         /\ RepliesLogged
  <1>1. ASSUME NEW c \in Chats
        PROVE  /\ Len(thread[c]) \in Nat
               /\ DOMAIN thread[c] = 1..Len(thread[c])
               /\ \A i \in 1..Len(thread[c]) : thread[c][i] \in Turn
    BY DEF TypeOK
  <1>2. RepliesLogged
    BY <1>1 DEF RepliesLogged, TypeOK, Range
  <1>3. QED
    BY <1>1, <1>2

\* A thread and one more turn.
LEMMA Appended ==
  ASSUME NEW s \in Seq(Turn), NEW t \in Turn
  PROVE  /\ Append(s, t) \in Seq(Turn)
         /\ Len(Append(s, t)) = Len(s) + 1
         /\ \A i \in 1..Len(s) : Append(s, t)[i] = s[i]
         /\ Append(s, t)[Len(s) + 1] = t
  OBVIOUS

\* The shapes of the variables, apart from the keys between them.
Shapes ==
  /\ machines \subseteq Machines
  /\ chunk \in [Chunks -> {"absent", "live", "superseded", "gone"}]
  /\ signals \in [Chunks -> Nat]
  /\ chat \in [Chats -> Chat]
  /\ thread \in [Chats -> Seq(Turn)]
  /\ ask \in [Asks -> Ask]
  /\ log \in [Asks -> Log \cup {None}]
  /\ vote \in [Votes -> Vote]
  /\ served \in [Asks -> SUBSET Chunks]
  /\ crowded \subseteq Asks

Pinned ==
  \A c \in Chats : /\ chat[c].machine \in machines \cup {None}
                   /\ chat[c].state # "open" => thread[c] = <<>>

\* The type invariant, in terms of its parts.
LEMMA TypeParts == TypeOK <=> Shapes /\ Pinned /\ RepliesLogged
  <1>1. TypeOK => Shapes /\ Pinned /\ RepliesLogged
    BY Threads DEF TypeOK, Shapes, Pinned
  <1>2. ASSUME Shapes, Pinned, RepliesLogged PROVE TypeOK
    <2>1. ASSUME NEW c \in Chats, NEW t \in Range(thread[c]), t.role = "assistant"
          PROVE  log[t.ask] # None /\ log[t.ask].chat = c
      <3>1. PICK i \in DOMAIN thread[c] : t = thread[c][i]
        BY DEF Range
      <3>2. DOMAIN thread[c] = 1..Len(thread[c])
        BY <1>2 DEF Shapes
      <3>3. QED
        BY <1>2, <2>1, <3>1, <3>2 DEF RepliesLogged
    <2>2. QED
      BY <1>2, <2>1 DEF TypeOK, Shapes, Pinned
  <1>3. QED
    BY <1>1, <1>2

\* The parts of the type invariant after a step.
LEMMA TypeStep == Shapes' /\ Pinned' /\ RepliesLogged' => TypeOK'
  BY TypeParts, PTL

-----------------------------------------------------------------------------
(***************************************************************************)
(* What a step leaves as it was.                                           *)
(***************************************************************************)

\* Requests go on in the conversation they are in, past the question or before it
\* as they were, and what has replied has replied.
GoesOn ==
  \A b \in Asks :
    /\ Running(b)' => /\ Running(b) /\ ask'[b].chat = ask[b].chat
                      /\ ask'[b].pc = "arrived" <=> ask[b].pc = "arrived"
    /\ ask[b].pc = "replied" => ask'[b].pc = "replied"

\* A log that a reply stands on keeps its citations.
CitationsStay ==
  \A b \in Asks : ask[b].pc = "replied" => log'[b].cited = log[b].cited

\* A step that stores no turn.
LEMMA NoTurn ==
  ASSUME AnswersInv, GoesOn, UNCHANGED <<thread, crowded>>
  PROVE  /\ RepliesInv' /\ CrowdInv'
         /\ UNCHANGED chat => QuestionsInv'
  <1>1. RepliesInv'
    <2>1. \A c \in Chats : \A i \in 1..Len(thread[c]) : thread[c][i].ask \in Asks
      BY Threads DEF AnswersInv, Turn
    <2>2. QED
      BY <2>1 DEF AnswersInv, RepliesInv, GoesOn
  <1>2. CrowdInv'
    BY DEF AnswersInv, CrowdInv, GoesOn
  <1>3. ASSUME UNCHANGED chat PROVE QuestionsInv'
    <2> SUFFICES ASSUME NEW a \in Asks, NEW c \in Chats,
                        Running(a)', ask'[a].chat = c, chat'[c].state = "open"
                 PROVE  Waits(a, c)'
      BY DEF QuestionsInv
    <2>1. Waits(a, c)
      BY <1>3 DEF AnswersInv, QuestionsInv, GoesOn
    <2>2. Question(a, ask'[a].pc # "arrived") = Question(a, ask[a].pc # "arrived")
      BY DEF GoesOn, Question
    <2>3. QED
      BY <2>1, <2>2 DEF Waits
  <1>4. QED
    BY <1>1, <1>2, <1>3

\* A step that leaves the votes alone.
LEMMA NoVotes ==
  ASSUME AnswersInv, GoesOn, CitationsStay, UNCHANGED <<vote, signals>>,
         \A k \in Chunks : chunk[k] = "gone" => chunk'[k] = "gone"
  PROVE  VotesInv' /\ SignalsAreVotes'
  <1>1. VotesInv'
    BY DEF AnswersInv, VotesInv, GoesOn
  <1>2. ASSUME NEW k \in Chunks, NEW v \in Votes, vote[v].pc = "done"
        PROVE  k \in log[vote[v].ask].cited <=> k \in log'[vote[v].ask].cited
    BY <1>2 DEF AnswersInv, VotesInv, CitationsStay
  <1>3. SignalsAreVotes'
    <2> SUFFICES ASSUME NEW k \in Chunks, chunk'[k] # "gone"
                 PROVE  signals[k] = Cardinality(
                          {v \in Votes : /\ vote[v].pc = "done" /\ vote[v].verdict = "helped"
                                         /\ k \in log'[vote[v].ask].cited})
      BY DEF SignalsAreVotes
    <2>1. {v \in Votes : /\ vote[v].pc = "done" /\ vote[v].verdict = "helped"
                         /\ k \in log[vote[v].ask].cited}
          = {v \in Votes : /\ vote[v].pc = "done" /\ vote[v].verdict = "helped"
                           /\ k \in log'[vote[v].ask].cited}
      BY <1>2
    <2>2. QED
      BY <2>1 DEF AnswersInv, SignalsAreVotes
  <1>4. QED
    BY <1>1, <1>3

\* A step that writes no log.
LEMMA NoLog ==
  ASSUME AnswersInv, UNCHANGED log
  PROVE  /\ CitationsStay /\ AnsweredIsBacked'
         /\ (\A a \in Asks : log[a] # None => served[a] \subseteq served'[a]) => CitedWasServed'
  BY DEF AnswersInv, CitationsStay, AnsweredIsBacked, CitedWasServed

\* A step in which no request moves.
LEMMA NoAskMoves == ASSUME UNCHANGED ask PROVE GoesOn
  BY DEF GoesOn, Running

-----------------------------------------------------------------------------
(***************************************************************************)
(* Conversations.                                                          *)
(***************************************************************************)

\* A conversation is opened: nothing was said in it.
LEMMA OpenChatStep ==
  ASSUME AnswersInv, NEW c \in Chats, NEW m \in machines \cup {None}, OpenChat(c, m)
  PROVE  AnswersInv'
  <1> USE DEF AnswersInv
  <1>1. Shapes /\ Pinned /\ RepliesLogged
    BY TypeParts
  <1>2. /\ chat[c].state = "absent"
        /\ chat' = [chat EXCEPT ![c] = [state |-> "open", machine |-> m]]
        /\ UNCHANGED <<machines, chunk, signals, thread, ask, log, vote, served, crowded>>
    BY DEF OpenChat
  <1>3. TypeOK'
    <2>1. Shapes'
      BY <1>1, <1>2 DEF Shapes, Chat
    <2>2. Pinned' /\ RepliesLogged'
      BY <1>1, <1>2 DEF Pinned, RepliesLogged, Shapes
    <2>3. QED
      BY <2>1, <2>2, TypeStep
  <1>4. \A d \in Chats : chat[d].state # "absent" => chat'[d] = chat[d]
    BY <1>1, <1>2 DEF Shapes
  <1>5. AsksInv'
    BY <1>2, <1>4 DEF AsksInv, Running, Unsearched, Retrievable, InScope
  <1>6. LogsInv'
    BY <1>2, <1>4 DEF LogsInv, AsksInv, Running
  <1>7. GoesOn
    BY <1>2, NoAskMoves
  <1>8. QuestionsInv'
    BY <1>2, <1>4 DEF QuestionsInv, AsksInv, Running, Waits
  <1>9. QED
    BY <1>2, <1>3, <1>5, <1>6, <1>7, <1>8, NoTurn, NoLog, NoVotes

\* A log that forgets its conversation is a log of the same answer.
LEMMA Forgotten ==
  ASSUME NEW l \in Log
  PROVE  /\ [l EXCEPT !.chat = None] \in Log
         /\ [l EXCEPT !.chat = None].cited = l.cited
         /\ [l EXCEPT !.chat = None].retrieved = l.retrieved
         /\ [l EXCEPT !.chat = None].text = l.text
  BY DEF Log

\* A conversation is deleted with its thread, and the logs forget it.
LEMMA DeleteOwnerStep ==
  ASSUME AnswersInv, NEW c \in Chats, DeleteOwner(c)
  PROVE  AnswersInv'
  <1> USE DEF AnswersInv
  <1>1. Shapes /\ Pinned /\ RepliesLogged
    BY TypeParts
  <1>2. /\ chat' = [chat EXCEPT ![c] = [state |-> "deleted", machine |-> None]]
        /\ thread' = [thread EXCEPT ![c] = <<>>]
        /\ log' = [a \in Asks |->
             IF log[a] # None /\ log[a].chat = c THEN [log[a] EXCEPT !.chat = None] ELSE log[a]]
        /\ UNCHANGED <<machines, chunk, signals, ask, vote, served, crowded>>
    BY DEF DeleteOwner
  <1>3. ASSUME NEW a \in Asks
        PROVE  /\ log'[a] \in Log \cup {None}
               /\ log'[a] # None <=> log[a] # None
               /\ log[a] # None => /\ log'[a].cited = log[a].cited
                                   /\ log'[a].retrieved = log[a].retrieved
                                   /\ log'[a].text = log[a].text
                                   /\ log[a].chat # c => log'[a].chat = log[a].chat
    <2>1. log[a] \in Log \cup {None}
      BY <1>1 DEF Shapes
    <2>2. CASE log[a] = None
      BY <1>2, <2>2
    <2>3. CASE log[a] # None
      <3>1. log[a] \in Log
        BY <2>1, <2>3
      <3>2. [log[a] EXCEPT !.chat = None] # None
        BY <3>1, Forgotten, NoLogAssumption
      <3>3. log'[a] = IF log[a].chat = c THEN [log[a] EXCEPT !.chat = None] ELSE log[a]
        BY <1>2, <2>3
      <3>4. QED
        BY <2>3, <3>1, <3>2, <3>3, Forgotten
    <2>4. QED
      BY <2>2, <2>3
  <1>4. \A d \in Chats \ {c} : chat'[d] = chat[d] /\ thread'[d] = thread[d]
    BY <1>1, <1>2 DEF Shapes
  <1>5. chat'[c] = [state |-> "deleted", machine |-> None] /\ thread'[c] = <<>>
    BY <1>1, <1>2 DEF Shapes
  <1>6. TypeOK'
    <2>1. log' \in [Asks -> Log \cup {None}]
      BY <1>2, <1>3
    <2>2. [state |-> "deleted", machine |-> None] \in Chat /\ <<>> \in Seq(Turn)
      BY DEF Chat
    <2>3. Shapes'
      BY <1>1, <1>2, <2>1, <2>2 DEF Shapes
    <2>4. Pinned'
      BY <1>1, <1>2, <1>4, <1>5 DEF Pinned
    <2>5. ASSUME NEW d \in Chats, NEW i \in 1..Len(thread'[d]),
                 thread'[d][i].role = "assistant"
          PROVE  log'[thread'[d][i].ask] # None /\ log'[thread'[d][i].ask].chat = d
      <3>1. d # c
        BY <1>5, <2>5
      <3>2. thread'[d] = thread[d] /\ thread[d][i] \in Turn
        BY <1>4, <3>1, Threads
      <3>3. thread[d][i].ask \in Asks
        BY <3>2 DEF Turn
      <3>4. QED
        BY <1>1, <1>3, <2>5, <3>1, <3>2, <3>3 DEF RepliesLogged
    <2>6. QED
      BY <2>3, <2>4, <2>5, TypeStep DEF RepliesLogged
  <1>7. AsksInv'
    BY <1>2, <1>4, <1>5 DEF AsksInv, Running, Unsearched, Retrievable, InScope
  <1>8. LogsInv'
    BY <1>2, <1>3, <1>4, <1>5 DEF LogsInv, AsksInv, Running
  <1>9. RepliesInv'
    <2> SUFFICES ASSUME NEW d \in Chats, NEW i \in 1..Len(thread'[d]),
                        thread'[d][i].role = "assistant"
                 PROVE  /\ thread'[d][i].there /\ ask'[thread'[d][i].ask].pc = "replied"
                        /\ \E j \in 1..(i - 1) :
                             /\ thread'[d][j] = Question(thread'[d][i].ask, TRUE)
                             /\ thread'[d][i].ask \in crowded' \/ j = i - 1
      BY DEF RepliesInv
    <2>1. d # c
      BY <1>5
    <2>2. thread'[d] = thread[d] /\ UNCHANGED <<ask, crowded>>
      BY <1>2, <1>4, <2>1
    <2>3. QED
      BY <2>2 DEF RepliesInv
  <1>10. QuestionsInv'
    BY <1>2, <1>4, <1>5 DEF QuestionsInv, Running, Waits
  <1>11. GoesOn
    BY <1>2, NoAskMoves
  <1>12. CitationsStay
    BY <1>3 DEF CitationsStay, LogsInv
  <1>13. CrowdInv'
    BY <1>2 DEF CrowdInv, Running
  <1>14. CitedWasServed' /\ AnsweredIsBacked'
    BY <1>2, <1>3 DEF CitedWasServed, AnsweredIsBacked
  <1>15. QED
    BY <1>2, <1>6, <1>7, <1>8, <1>9, <1>10, <1>11, <1>12, <1>13, <1>14, NoVotes

-----------------------------------------------------------------------------
(***************************************************************************)
(* The index changes.                                                      *)
(***************************************************************************)

\* What was served grows by what a change makes retrievable.
LEMMA ReindexServes ==
  ASSUME AnswersInv, NEW chunk2 \in [Chunks -> {"absent", "live", "superseded", "gone"}],
         Reindex(chunk2), UNCHANGED ask
  PROVE  /\ served' \in [Asks -> SUBSET Chunks]
         /\ \A a \in Asks : served[a] \subseteq served'[a]
         /\ \A a \in Asks : Unsearched(a) => Retrievable(ask[a].machine)' \subseteq served'[a]
  <1>1. served \in [Asks -> SUBSET Chunks]
    BY DEF AnswersInv, TypeOK
  <1>2. /\ chunk' = chunk2
        /\ served' = [a \in Asks |->
             served[a] \cup {k \in Chunks : Unsearched(a) /\ chunk2[k] = "live"
                                                          /\ InScope(k, ask[a].machine)}]
    BY DEF Reindex
  <1>3. QED
    BY <1>1, <1>2 DEF Retrievable, InScope

\* A change of the index alone.
LEMMA ReindexStep ==
  ASSUME AnswersInv, NEW chunk2 \in [Chunks -> {"absent", "live", "superseded", "gone"}],
         Reindex(chunk2), \A k \in Chunks : chunk[k] = "gone" => chunk2[k] = "gone",
         UNCHANGED <<machines, signals, chat, thread, ask, log, vote, crowded>>
  PROVE  AnswersInv'
  <1> USE DEF AnswersInv
  <1>1. /\ served' \in [Asks -> SUBSET Chunks]
        /\ \A a \in Asks : served[a] \subseteq served'[a]
        /\ \A a \in Asks : Unsearched(a) => Retrievable(ask[a].machine)' \subseteq served'[a]
    BY ReindexServes
  <1>2. chunk' = chunk2
    BY DEF Reindex
  <1>3. TypeOK'
    BY <1>1, <1>2 DEF TypeOK
  <1>4. AsksInv'
    BY <1>1 DEF AsksInv, Running, Unsearched, Retrievable, InScope
  <1>5. LogsInv'
    BY DEF LogsInv
  <1>6. GoesOn
    BY NoAskMoves
  <1>7. QED
    BY <1>1, <1>2, <1>3, <1>4, <1>5, <1>6, NoTurn, NoLog, NoVotes

\* A machine is deleted with its manuals and fixes; conversations and votes forget it.
LEMMA DeleteMachineStep ==
  ASSUME AnswersInv, NEW m \in machines, DeleteMachine(m)
  PROVE  AnswersInv'
  <1> USE DEF AnswersInv
  <1> DEFINE chunk2 == [k \in Chunks |-> IF MachineOf[k] = m THEN "gone" ELSE chunk[k]]
  <1>1. Shapes /\ Pinned /\ RepliesLogged
    BY TypeParts
  <1>2. /\ machines' = machines \ {m}
        /\ Reindex(chunk2)
        /\ chat' = [c \in Chats |-> Unpinned(c, m)]
        /\ vote' = [v \in Votes |->
             IF vote[v].pc = "done" /\ vote[v].machine = m
             THEN [vote[v] EXCEPT !.machine = None] ELSE vote[v]]
        /\ UNCHANGED <<signals, thread, ask, log, crowded>>
    BY DEF DeleteMachine
  <1>3. chunk2 \in [Chunks -> {"absent", "live", "superseded", "gone"}] /\ chunk' = chunk2
    BY <1>1, <1>2 DEF Shapes, Reindex
  <1>4. /\ served' \in [Asks -> SUBSET Chunks]
        /\ \A a \in Asks : served[a] \subseteq served'[a]
        /\ \A a \in Asks : Unsearched(a) => Retrievable(ask[a].machine)' \subseteq served'[a]
    BY <1>2, <1>3, ReindexServes
  <1>5. ASSUME NEW c \in Chats
        PROVE  /\ chat'[c] \in Chat /\ chat'[c].state = chat[c].state
               /\ chat'[c].machine \in machines' \cup {None}
    BY <1>1, <1>2 DEF Unpinned, Shapes, Pinned, Chat
  <1>6. ASSUME NEW v \in Votes
        PROVE  /\ vote'[v] \in Vote /\ vote'[v].pc = vote[v].pc
               /\ vote'[v].ask = vote[v].ask /\ vote'[v].verdict = vote[v].verdict
    BY <1>1, <1>2 DEF Shapes, Vote
  <1>7. TypeOK'
    <2>1. Shapes'
      BY <1>1, <1>2, <1>3, <1>4, <1>5, <1>6 DEF Shapes
    <2>2. Pinned' /\ RepliesLogged'
      BY <1>1, <1>2, <1>5 DEF Pinned, RepliesLogged
    <2>3. QED
      BY <2>1, <2>2, TypeStep
  <1>8. AsksInv'
    BY <1>2, <1>4, <1>5 DEF AsksInv, Running, Unsearched, Retrievable, InScope
  <1>9. LogsInv'
    BY <1>2, <1>5 DEF LogsInv, AsksInv, Running
  <1>10. GoesOn
    BY <1>2, NoAskMoves
  <1>11. QuestionsInv'
    BY <1>2, <1>5 DEF QuestionsInv, Running, Waits
  <1>12. VotesInv'
    BY <1>2, <1>6 DEF VotesInv
  <1>13. SignalsAreVotes'
    <2> SUFFICES ASSUME NEW k \in Chunks, chunk'[k] # "gone"
                 PROVE  signals[k] = Cardinality(
                          {v \in Votes : /\ vote'[v].pc = "done" /\ vote'[v].verdict = "helped"
                                         /\ k \in log[vote'[v].ask].cited})
      BY <1>2 DEF SignalsAreVotes
    <2>1. {v \in Votes : /\ vote'[v].pc = "done" /\ vote'[v].verdict = "helped"
                         /\ k \in log[vote'[v].ask].cited}
          = {v \in Votes : /\ vote[v].pc = "done" /\ vote[v].verdict = "helped"
                           /\ k \in log[vote[v].ask].cited}
      BY <1>6
    <2>2. chunk[k] # "gone"
      BY <1>3
    <2>3. QED
      BY <2>1, <2>2 DEF SignalsAreVotes
  <1>14. QED
    BY <1>2, <1>4, <1>7, <1>8, <1>9, <1>10, <1>11, <1>12, <1>13, NoTurn, NoLog

-----------------------------------------------------------------------------
(***************************************************************************)
(* Asking.                                                                 *)
(***************************************************************************)

\* A request that has loaded its conversation and has nothing else yet.
LEMMA NewAsk ==
  ASSUME NEW c \in Chats, NEW m \in Machines \cup {None}, NEW e \in SUBSET Chunks
  PROVE  LET q == [NoAsk EXCEPT !.pc = "arrived", !.chat = c, !.machine = m, !.echo = e]
         IN  /\ q \in Ask /\ q.pc = "arrived" /\ q.chat = c /\ q.machine = m
             /\ q.hits = {}
  <1>1. NoAsk \in Ask /\ NoAsk.hits = {}
    BY Records DEF NoAsk
  <1>2. QED
    BY <1>1 DEF Ask

\* A question that arrives in an open conversation.
LEMMA ArriveStep ==
  ASSUME AnswersInv, NEW a \in Asks, NEW c \in Chats, Arrive(a, c), chat[c].state = "open"
  PROVE  AnswersInv'
  <1> USE DEF AnswersInv
  <1> DEFINE beside == {b \in Asks : Running(b) /\ ask[b].chat = c}
             said   == {i \in Transcript(c) : thread[c][i].role = "assistant"}
             echo   == UNION {log[thread[c][i].ask].cited : i \in said}
             q      == [NoAsk EXCEPT !.pc = "arrived", !.chat = c, !.machine = chat[c].machine,
                                     !.echo = echo]
  <1>1. Shapes /\ Pinned /\ RepliesLogged
    BY TypeParts
  <1>2. /\ ask[a].pc = "none"
        /\ ask' = [ask EXCEPT ![a] = q]
        /\ thread' = [thread EXCEPT ![c] = Append(@, Question(a, FALSE))]
        /\ served' = [served EXCEPT ![a] = Retrievable(chat[c].machine)]
        /\ crowded' = crowded \cup beside \cup (IF beside = {} THEN {} ELSE {a})
        /\ UNCHANGED <<machines, chunk, signals, chat, log, vote>>
    BY DEF Arrive
  <1>3. echo \in SUBSET Chunks
    <2>1. ASSUME NEW i \in said PROVE log[thread[c][i].ask].cited \subseteq Chunks
      <3>1. i \in 1..Len(thread[c]) /\ thread[c][i].role = "assistant"
        BY Threads DEF Transcript
      <3>2. log[thread[c][i].ask] # None /\ thread[c][i].ask \in Asks
        BY <1>1, <3>1, Threads DEF RepliesLogged, Turn
      <3>3. log[thread[c][i].ask] \in Log
        BY <1>1, <3>2 DEF Shapes
      <3>4. QED
        BY <3>3 DEF Log
    <2>2. QED
      BY <2>1
  <1>4. chat[c] \in Chat /\ Retrievable(chat[c].machine) \in SUBSET Chunks
    BY <1>1 DEF Shapes, Retrievable
  <1> HIDE DEF echo
  <1>5. /\ q \in Ask /\ q.pc = "arrived" /\ q.chat = c /\ q.machine = chat[c].machine
        /\ q.hits = {}
    <2>1. chat[c].machine \in Machines \cup {None}
      BY <1>4 DEF Chat
    <2>2. QED
      BY <1>3, <2>1, NewAsk
  <1> HIDE DEF q
  <1>6. \A b \in Asks : ask'[b] = IF b = a THEN q ELSE ask[b]
    BY <1>1, <1>2 DEF Shapes
  <1>7. q.pc = "arrived" /\ q.chat = c /\ q.machine = chat[c].machine /\ q.hits = {}
    BY <1>5
  <1>8. /\ thread[c] \in Seq(Turn) /\ Question(a, FALSE) \in Turn
        /\ Len(thread[c]) \in Nat
    BY <1>1, Records, Threads DEF Shapes
  <1>9. /\ thread'[c] = Append(thread[c], Question(a, FALSE))
        /\ \A d \in Chats \ {c} : thread'[d] = thread[d]
    BY <1>1, <1>2 DEF Shapes
  <1>10. /\ thread'[c] \in Seq(Turn)
         /\ Len(thread'[c]) = Len(thread[c]) + 1
         /\ \A i \in 1..Len(thread[c]) : thread'[c][i] = thread[c][i]
         /\ thread'[c][Len(thread[c]) + 1] = Question(a, FALSE)
    <2>1. /\ Append(thread[c], Question(a, FALSE)) \in Seq(Turn)
          /\ Len(Append(thread[c], Question(a, FALSE))) = Len(thread[c]) + 1
          /\ \A i \in 1..Len(thread[c]) : Append(thread[c], Question(a, FALSE))[i] = thread[c][i]
          /\ Append(thread[c], Question(a, FALSE))[Len(thread[c]) + 1] = Question(a, FALSE)
      BY <1>8, Appended
    <2>2. QED
      BY <1>9, <2>1
  <1>11. beside \subseteq Asks /\ crowded \subseteq crowded' /\ beside \subseteq crowded'
    BY <1>2
  <1>12. \A d \in Chats : \A i \in 1..Len(thread'[d]) :
           thread'[d][i].role = "assistant" =>
             i \in 1..Len(thread[d]) /\ \A j \in 1..i : thread'[d][j] = thread[d][j]
    <2> SUFFICES ASSUME NEW d \in Chats, NEW i \in 1..Len(thread'[d]),
                        thread'[d][i].role = "assistant"
                 PROVE  i \in 1..Len(thread[d]) /\ \A j \in 1..i : thread'[d][j] = thread[d][j]
      OBVIOUS
    <2>1. CASE d # c
      BY <1>9, <2>1
    <2>2. CASE d = c
      <3>1. i # Len(thread[c]) + 1
        BY <1>10, <2>2 DEF Question
      <3>2. QED
        BY <1>8, <1>10, <2>2, <3>1
    <2>3. QED
      BY <2>1, <2>2
  <1>13. TypeOK'
    <2>1. Shapes'
      BY <1>1, <1>2, <1>4, <1>5, <1>8, <1>10, <1>11 DEF Shapes
    <2>2. Pinned'
      BY <1>1, <1>2, <1>9 DEF Pinned
    <2>3. RepliesLogged'
      <3> SUFFICES ASSUME NEW d \in Chats, NEW i \in 1..Len(thread'[d]),
                          thread'[d][i].role = "assistant"
                   PROVE  log'[thread'[d][i].ask] # None /\ log'[thread'[d][i].ask].chat = d
        BY DEF RepliesLogged
      <3>1. i \in 1..Len(thread[d]) /\ thread'[d][i] = thread[d][i]
        BY <1>12
      <3>2. log' = log
        BY <1>2
      <3>3. QED
        BY <1>1, <3>1, <3>2 DEF RepliesLogged
    <2>4. QED
      BY <2>1, <2>2, <2>3, TypeStep
  <1>14. AsksInv'
    <2> SUFFICES ASSUME NEW b \in Asks
                 PROVE  /\ Running(b)' => /\ ask'[b].chat \in Chats
                                          /\ chat'[ask'[b].chat].state # "absent"
                        /\ ask'[b].hits \subseteq served'[b]
                        /\ Unsearched(b)' => Retrievable(ask[b].machine)' \subseteq served'[b]
      BY DEF AsksInv
    <2>1. CASE b = a
      BY <1>1, <1>2, <1>6, <1>7, <2>1 DEF Shapes, Retrievable, InScope
    <2>2. CASE b # a
      BY <1>1, <1>2, <1>6, <2>2 DEF Shapes, AsksInv, Running, Unsearched, Retrievable, InScope
    <2>3. QED
      BY <2>1, <2>2
  <1>15. log[a] = None
    BY <1>2 DEF LogsInv
  <1>16. LogsInv'
    BY <1>2, <1>6, <1>7, <1>15 DEF LogsInv
  <1>17. RepliesInv'
    <2> SUFFICES ASSUME NEW d \in Chats, NEW i \in 1..Len(thread'[d]),
                        thread'[d][i].role = "assistant"
                 PROVE  /\ thread'[d][i].there /\ ask'[thread'[d][i].ask].pc = "replied"
                        /\ \E j \in 1..(i - 1) :
                             /\ thread'[d][j] = Question(thread'[d][i].ask, TRUE)
                             /\ thread'[d][i].ask \in crowded' \/ j = i - 1
      BY DEF RepliesInv
    <2>1. /\ i \in 1..Len(thread[d]) /\ thread'[d][i] = thread[d][i]
          /\ \A j \in 1..(i - 1) : thread'[d][j] = thread[d][j]
      BY <1>12
    <2>2. thread[d][i].ask \in Asks /\ thread[d][i].role = "assistant"
      BY <2>1, Threads DEF Turn
    <2>3. /\ thread[d][i].there /\ ask[thread[d][i].ask].pc = "replied"
          /\ \E j \in 1..(i - 1) :
                /\ thread[d][j] = Question(thread[d][i].ask, TRUE)
                /\ thread[d][i].ask \in crowded \/ j = i - 1
      BY <2>1, <2>2 DEF RepliesInv
    <2>4. ask'[thread[d][i].ask].pc = "replied"
      BY <1>2, <1>6, <2>2, <2>3
    <2>5. QED
      BY <1>11, <2>1, <2>3, <2>4
  <1>18. QuestionsInv'
    <2> SUFFICES ASSUME NEW b \in Asks, NEW d \in Chats,
                        Running(b)', ask'[b].chat = d, chat'[d].state = "open"
                 PROVE  Waits(b, d)'
      BY DEF QuestionsInv
    <2>1. CASE b = a
      <3>1. d = c /\ ask'[b].pc = "arrived"
        BY <1>6, <1>7, <2>1
      <3>2. Len(thread'[c]) \in 1..Len(thread'[c])
        BY <1>8, <1>10
      <3>3. QED
        BY <1>10, <2>1, <3>1, <3>2 DEF Waits
    <2>2. CASE b # a
      <3>1. ask'[b] = ask[b] /\ Running(b) /\ ask[b].chat = d /\ chat[d].state = "open"
        BY <1>2, <1>6, <2>2 DEF Running
      <3>2. PICK j \in 1..Len(thread[d]) :
              /\ thread[d][j] = Question(b, ask[b].pc # "arrived")
              /\ b \in crowded \/ j = Len(thread[d])
        BY <3>1 DEF QuestionsInv, Waits
      <3>3. CASE d = c
        <4>1. b \in crowded'
          BY <1>11, <3>1, <3>3
        <4>2. j \in 1..Len(thread'[d]) /\ thread'[d][j] = thread[d][j]
          BY <1>8, <1>10, <3>3
        <4>3. QED
          BY <3>1, <3>2, <4>1, <4>2 DEF Waits
      <3>4. CASE d # c
        BY <1>9, <1>11, <3>1, <3>2, <3>4 DEF Waits
      <3>5. QED
        BY <3>3, <3>4
    <2>3. QED
      BY <2>1, <2>2
  <1>19. CrowdInv'
    <2> SUFFICES ASSUME NEW b \in Asks, NEW d \in Asks, Running(b)', Running(d)',
                        ask'[b].chat = ask'[d].chat, b # d
                 PROVE  b \in crowded'
      BY DEF CrowdInv
    <2>1. CASE b # a /\ d # a
      BY <1>6, <1>11, <2>1 DEF CrowdInv, Running
    <2>2. CASE b = a
      <3>1. d \in beside
        BY <1>6, <1>7, <2>2 DEF Running
      <3>2. QED
        BY <1>2, <2>2, <3>1
    <2>3. CASE d = a
      <3>1. b \in beside
        BY <1>6, <1>7, <2>3 DEF Running
      <3>2. QED
        BY <1>11, <3>1
    <2>4. QED
      BY <2>1, <2>2, <2>3
  <1>20. VotesInv'
    BY <1>2, <1>6 DEF VotesInv
  <1>21. SignalsAreVotes' /\ AnsweredIsBacked'
    BY <1>2 DEF SignalsAreVotes, AnsweredIsBacked
  <1>22. CitedWasServed'
    BY <1>1, <1>2, <1>15 DEF CitedWasServed, Shapes
  <1>23. QED
    BY <1>13, <1>14, <1>16, <1>17, <1>18, <1>19, <1>20, <1>21, <1>22

\* One request goes on, in its conversation and past its question or before it as
\* it was, with what was served to it.
MayBecome(a, q) ==
  /\ q \in Ask /\ ask[a].pc # "replied" /\ q.hits \subseteq served[a]
  /\ q.pc \notin {"none", "replied", "notfound", "failed"} =>
       /\ Running(a) /\ q.chat = ask[a].chat
       /\ q.pc = "arrived" <=> ask[a].pc = "arrived"
  /\ q.pc \in {"arrived", "asked", "searching"} => Unsearched(a) /\ q.machine = ask[a].machine

\* A request that goes on without storing a turn.
LEMMA AskMoves ==
  ASSUME AnswersInv, NEW a \in Asks, NEW q, MayBecome(a, q),
         ask' = [ask EXCEPT ![a] = q], UNCHANGED <<chunk, chat, thread, served, crowded>>
  PROVE  /\ ask' \in [Asks -> Ask]
         /\ ask'[a] = q /\ \A b \in Asks \ {a} : ask'[b] = ask[b]
         /\ GoesOn /\ AsksInv'
         /\ RepliesInv' /\ QuestionsInv' /\ CrowdInv'
  <1> USE DEF AnswersInv
  <1>1. /\ ask' \in [Asks -> Ask]
        /\ ask'[a] = q /\ \A b \in Asks \ {a} : ask'[b] = ask[b]
    BY DEF TypeOK, MayBecome
  <1>2. GoesOn
    BY <1>1 DEF GoesOn, Running, MayBecome
  <1>3. AsksInv'
    <2> SUFFICES ASSUME NEW b \in Asks
                 PROVE  /\ Running(b)' => /\ ask'[b].chat \in Chats
                                          /\ chat'[ask'[b].chat].state # "absent"
                        /\ ask'[b].hits \subseteq served'[b]
                        /\ Unsearched(b)' => Retrievable(ask[b].machine)' \subseteq served'[b]
      BY DEF AsksInv
    <2>1. CASE b = a
      BY <1>1, <2>1 DEF AsksInv, MayBecome, Running, Unsearched, Retrievable, InScope
    <2>2. CASE b # a
      BY <1>1, <2>2 DEF AsksInv, Running, Unsearched, Retrievable, InScope
    <2>3. QED
      BY <2>1, <2>2
  <1>4. QED
    BY <1>1, <1>2, <1>3, NoTurn

\* A request that goes on without writing anything.
LEMMA AskStep ==
  ASSUME AnswersInv, NEW a \in Asks, NEW q, MayBecome(a, q), log[a] # None => q.pc = "failed",
         q.pc \notin {"logged", "replied"}, ask' = [ask EXCEPT ![a] = q],
         UNCHANGED <<machines, chunk, signals, chat, thread, log, vote, served, crowded>>
  PROVE  AnswersInv'
  <1> USE DEF AnswersInv
  <1>1. /\ ask' \in [Asks -> Ask]
        /\ ask'[a] = q /\ \A b \in Asks \ {a} : ask'[b] = ask[b]
        /\ GoesOn /\ AsksInv'
        /\ RepliesInv' /\ QuestionsInv' /\ CrowdInv'
    BY AskMoves
  <1>2. TypeOK'
    BY <1>1 DEF TypeOK
  <1>3. LogsInv'
    BY <1>1 DEF LogsInv
  <1>4. QED
    BY <1>1, <1>2, <1>3, NoLog, NoVotes

\* A question that arrives in a conversation that is not there.
LEMMA NotFoundStep ==
  ASSUME AnswersInv, NEW a \in Asks, NEW c \in Chats, Arrive(a, c), chat[c].state # "open"
  PROVE  AnswersInv'
  <1> DEFINE q == [ask[a] EXCEPT !.pc = "notfound"]
  <1>1. ask[a] \in Ask /\ ask[a].pc = "none" /\ log[a] = None /\ ask[a].hits \subseteq served[a]
    BY DEF Arrive, AnswersInv, TypeOK, LogsInv, AsksInv
  <1>2. q \in Ask /\ q.pc = "notfound" /\ q.hits = ask[a].hits
    BY <1>1 DEF Ask
  <1>3. ask' = [ask EXCEPT ![a] = q]
    BY DEF Arrive
  <1>4. UNCHANGED <<machines, chunk, signals, chat, thread, log, vote, served, crowded>>
    BY DEF Arrive
  <1> HIDE DEF q
  <1>5. MayBecome(a, q)
    BY <1>1, <1>2 DEF MayBecome
  <1>6. QED
    BY <1>1, <1>2, <1>3, <1>4, <1>5, AskStep

\* The index is searched, twice.
LEMMA SearchStep ==
  ASSUME AnswersInv, NEW a \in Asks, SearchVector(a) \/ SearchKeyword(a)
  PROVE  AnswersInv'
  <1>1. /\ ask[a] \in Ask /\ log[a] = None /\ Running(a) /\ Unsearched(a)
        /\ ask[a].pc \in {"asked", "searching"}
        /\ UNCHANGED <<machines, chunk, signals, chat, thread, log, vote, served, crowded>>
    BY DEF SearchVector, SearchKeyword, AnswersInv, TypeOK, LogsInv, Running, Unsearched
  <1>2. /\ ask[a].hits \subseteq served[a] /\ Retrievable(ask[a].machine) \subseteq served[a]
        /\ served[a] \subseteq Chunks
    BY <1>1 DEF AnswersInv, AsksInv, TypeOK
  <1>3. ASSUME NEW pc \in {"searching", "composing"}, NEW hits \in SUBSET served[a],
               ask' = [ask EXCEPT ![a] = [ask[a] EXCEPT !.pc = pc, !.hits = hits]]
        PROVE  AnswersInv'
    <2> DEFINE q == [ask[a] EXCEPT !.pc = pc, !.hits = hits]
    <2>1. /\ q \in Ask /\ q.pc = pc /\ q.hits = hits /\ q.chat = ask[a].chat
          /\ q.machine = ask[a].machine
      BY <1>1, <1>2 DEF Ask
    <2>2. ask' = [ask EXCEPT ![a] = q]
      BY <1>3
    <2> HIDE DEF q
    <2>3. MayBecome(a, q)
      BY <1>1, <1>2, <2>1 DEF MayBecome
    <2>4. QED
      BY <1>1, <2>1, <2>2, <2>3, AskStep
  <1>4. CASE SearchVector(a)
    <2>1. PICK hits \in SUBSET Retrievable(ask[a].machine) :
            ask' = [ask EXCEPT ![a].pc = "searching", ![a].hits = hits]
      BY <1>4 DEF SearchVector
    <2>2. ask' = [ask EXCEPT ![a] = [ask[a] EXCEPT !.pc = "searching", !.hits = hits]]
      BY <2>1 DEF AnswersInv, TypeOK
    <2>3. hits \in SUBSET served[a]
      BY <1>2
    <2>4. QED
      BY <1>3, <2>2, <2>3
  <1>5. CASE SearchKeyword(a)
    <2>1. PICK hits \in SUBSET Retrievable(ask[a].machine) :
            \E best \in SUBSET (ask[a].hits \cup hits) :
              ask' = [ask EXCEPT ![a].pc = "composing", ![a].hits = best]
      BY <1>5 DEF SearchKeyword
    <2> PICK best \in SUBSET (ask[a].hits \cup hits) :
          ask' = [ask EXCEPT ![a].pc = "composing", ![a].hits = best]
      BY <2>1
    <2>2. ask' = [ask EXCEPT ![a] = [ask[a] EXCEPT !.pc = "composing", !.hits = best]]
      BY DEF AnswersInv, TypeOK
    <2>3. best \in SUBSET served[a]
      BY <1>2
    <2>4. QED
      BY <1>3, <2>2, <2>3
  <1>6. QED
    BY <1>4, <1>5

\* A completion is turned down for another.
LEMMA RetryStep ==
  ASSUME AnswersInv, NEW a \in Asks, ask[a].pc = "composing",
         ask' = [ask EXCEPT ![a].retry = TRUE],
         UNCHANGED <<machines, chunk, signals, chat, thread, log, vote, served, crowded>>
  PROVE  AnswersInv'
  <1> DEFINE q == [ask[a] EXCEPT !.retry = TRUE]
  <1>1. ask[a] \in Ask /\ log[a] = None /\ Running(a) /\ ask[a].hits \subseteq served[a]
    BY DEF AnswersInv, TypeOK, LogsInv, AsksInv, Running
  <1>2. q \in Ask /\ q.pc = "composing" /\ q.hits = ask[a].hits /\ q.chat = ask[a].chat
    BY <1>1 DEF Ask
  <1>3. ask' = [ask EXCEPT ![a] = q]
    OBVIOUS
  <1> HIDE DEF q
  <1>4. MayBecome(a, q)
    BY <1>1, <1>2 DEF MayBecome
  <1>5. QED
    BY <1>1, <1>2, <1>3, <1>4, AskStep

\* What is left of a request that ended.
LEMMA EndedAsk ==
  ASSUME NEW pc \in {"failed", "replied"}
  PROVE  /\ [NoAsk EXCEPT !.pc = pc] \in Ask
         /\ [NoAsk EXCEPT !.pc = pc].pc = pc /\ [NoAsk EXCEPT !.pc = pc].hits = {}
  <1>1. NoAsk \in Ask /\ NoAsk.hits = {}
    BY Records DEF NoAsk
  <1>2. QED
    BY <1>1 DEF Ask

\* A request fails.
LEMMA FailStep ==
  ASSUME AnswersInv, NEW a \in Asks, Fail(a)
  PROVE  AnswersInv'
  <1> DEFINE q == [NoAsk EXCEPT !.pc = "failed"]
  <1>1. q \in Ask /\ q.pc = "failed" /\ q.hits = {}
    BY EndedAsk
  <1>2. /\ Running(a) /\ ask' = [ask EXCEPT ![a] = q]
        /\ UNCHANGED <<machines, chunk, signals, chat, thread, log, vote, served, crowded>>
    BY DEF Fail
  <1> HIDE DEF q
  <1>3. MayBecome(a, q)
    BY <1>1, <1>2 DEF MayBecome, Running
  <1>4. QED
    BY <1>1, <1>2, <1>3, AskStep

\* Turns in the places of a thread are a thread of the same length.
LEMMA SamePlaces ==
  ASSUME NEW s \in Seq(Turn), NEW s2 \in [1..Len(s) -> Turn]
  PROVE  s2 \in Seq(Turn) /\ Len(s2) = Len(s)
  <1>1. Len(s) \in Nat
    OBVIOUS
  <1>2. s2 \in Seq(Turn)
    BY <1>1, SeqDef
  <1>3. DOMAIN s2 = 1..Len(s) /\ DOMAIN s2 = 1..Len(s2) /\ Len(s2) \in Nat
    BY <1>2, LenProperties
  <1>4. QED
    BY <1>1, <1>2, <1>3

\* The question is committed.
LEMMA CommitQuestionStep ==
  ASSUME AnswersInv, NEW a \in Asks, CommitQuestion(a)
  PROVE  AnswersInv'
  <1> USE DEF AnswersInv
  <1> DEFINE q == [ask[a] EXCEPT !.pc = "asked"]
             c == ask[a].chat
  <1>1. Shapes /\ Pinned /\ RepliesLogged
    BY TypeParts
  <1>2. /\ ask[a].pc = "arrived" /\ chat[c].state = "open"
        /\ ask' = [ask EXCEPT ![a] = q]
        /\ thread' = [thread EXCEPT ![c] =
             [i \in DOMAIN thread[c] |->
                IF thread[c][i] = Question(a, FALSE) THEN Question(a, TRUE) ELSE thread[c][i]]]
        /\ UNCHANGED <<machines, chunk, signals, chat, log, vote, served, crowded>>
    <2>1. ask[a] \in Ask
      BY <1>1 DEF Shapes
    <2>2. CommitQuestion(a)
      OBVIOUS
    <2>3. thread' = [thread EXCEPT ![c] =
             [i \in DOMAIN thread[c] |->
                IF thread[c][i] = Question(a, FALSE) THEN Question(a, TRUE) ELSE thread[c][i]]]
      BY <2>2 DEF CommitQuestion
    <2>4. QED
      BY <2>2, <2>3 DEF CommitQuestion
  <1>3. ask[a] \in Ask /\ Running(a) /\ Unsearched(a) /\ c \in Chats /\ log[a] = None
    BY <1>1, <1>2 DEF Shapes, Running, Unsearched, AsksInv, LogsInv
  <1>4. /\ q \in Ask /\ q.pc = "asked" /\ q.chat = c /\ q.hits = ask[a].hits
        /\ q.machine = ask[a].machine
    BY <1>3 DEF Ask
  <1> HIDE DEF q, c
  <1>5. \A b \in Asks : ask'[b] = IF b = a THEN q ELSE ask[b]
    BY <1>1, <1>2 DEF Shapes
  <1>6. thread[c] \in Seq(Turn) /\ Question(a, TRUE) \in Turn
    BY <1>1, <1>3, Records DEF Shapes
  <1>7. /\ thread'[c] = [i \in DOMAIN thread[c] |->
             IF thread[c][i] = Question(a, FALSE) THEN Question(a, TRUE) ELSE thread[c][i]]
        /\ \A d \in Chats \ {c} : thread'[d] = thread[d]
    BY <1>1, <1>2, <1>3 DEF Shapes
  <1>8. /\ thread'[c] \in Seq(Turn) /\ Len(thread'[c]) = Len(thread[c])
        /\ \A i \in 1..Len(thread[c]) : thread'[c][i] =
             IF thread[c][i] = Question(a, FALSE) THEN Question(a, TRUE) ELSE thread[c][i]
    <2>1. DOMAIN thread[c] = 1..Len(thread[c]) /\ \A i \in 1..Len(thread[c]) : thread[c][i] \in Turn
      BY <1>6
    <2>2. thread'[c] \in [1..Len(thread[c]) -> Turn]
      BY <1>6, <1>7, <2>1
    <2>3. thread'[c] \in Seq(Turn) /\ Len(thread'[c]) = Len(thread[c])
      BY <1>6, <2>2, SamePlaces
    <2>4. QED
      BY <1>7, <2>1, <2>3
  <1>9. ASSUME NEW d \in Chats, NEW i \in 1..Len(thread'[d])
        PROVE  /\ i \in 1..Len(thread[d])
               /\ thread'[d][i] # thread[d][i] =>
                    thread[d][i] = Question(a, FALSE) /\ thread'[d][i] = Question(a, TRUE)
    BY <1>7, <1>8
  <1>10. \A d \in Chats : Len(thread'[d]) = Len(thread[d])
    BY <1>7, <1>8
  <1>11. ASSUME NEW d \in Chats, NEW i \in 1..Len(thread'[d])
         PROVE  /\ thread'[d][i].role = "assistant" => thread'[d][i] = thread[d][i]
                /\ thread[d][i].there => thread'[d][i] = thread[d][i]
    BY <1>9 DEF Question
  <1>12. TypeOK'
    <2>1. Shapes'
      BY <1>1, <1>2, <1>3, <1>4, <1>8 DEF Shapes
    <2>2. Pinned'
      BY <1>1, <1>2, <1>7 DEF Pinned
    <2>3. RepliesLogged'
      <3> SUFFICES ASSUME NEW d \in Chats, NEW i \in 1..Len(thread'[d]),
                          thread'[d][i].role = "assistant"
                   PROVE  log'[thread'[d][i].ask] # None /\ log'[thread'[d][i].ask].chat = d
        BY DEF RepliesLogged
      <3>1. i \in 1..Len(thread[d]) /\ thread'[d][i] = thread[d][i]
        BY <1>9, <1>11
      <3>2. log' = log
        BY <1>2
      <3>3. QED
        BY <1>1, <3>1, <3>2 DEF RepliesLogged
    <2>4. QED
      BY <2>1, <2>2, <2>3, TypeStep
  <1>13. AsksInv'
    <2> SUFFICES ASSUME NEW b \in Asks
                 PROVE  /\ Running(b)' => /\ ask'[b].chat \in Chats
                                          /\ chat'[ask'[b].chat].state # "absent"
                        /\ ask'[b].hits \subseteq served'[b]
                        /\ Unsearched(b)' => Retrievable(ask[b].machine)' \subseteq served'[b]
      BY DEF AsksInv
    <2>1. CASE b = a
      BY <1>2, <1>3, <1>4, <1>5, <2>1 DEF AsksInv, Retrievable, InScope, c
    <2>2. CASE b # a
      BY <1>2, <1>5, <2>2 DEF AsksInv, Running, Unsearched, Retrievable, InScope
    <2>3. QED
      BY <2>1, <2>2
  <1>14. LogsInv'
    BY <1>2, <1>3, <1>4, <1>5 DEF LogsInv
  <1>15. RepliesInv'
    <2> SUFFICES ASSUME NEW d \in Chats, NEW i \in 1..Len(thread'[d]),
                        thread'[d][i].role = "assistant"
                 PROVE  /\ thread'[d][i].there /\ ask'[thread'[d][i].ask].pc = "replied"
                        /\ \E j \in 1..(i - 1) :
                             /\ thread'[d][j] = Question(thread'[d][i].ask, TRUE)
                             /\ thread'[d][i].ask \in crowded' \/ j = i - 1
      BY DEF RepliesInv
    <2>1. /\ i \in 1..Len(thread[d]) /\ thread'[d][i] = thread[d][i]
          /\ thread[d][i] \in Turn
      BY <1>9, <1>11, Threads
    <2>2. PICK j \in 1..(i - 1) :
            /\ thread[d][j] = Question(thread[d][i].ask, TRUE)
            /\ thread[d][i].ask \in crowded \/ j = i - 1
      BY <2>1 DEF RepliesInv
    <2>3. j \in 1..Len(thread'[d]) /\ thread[d][j].there
      BY <2>1, <2>2 DEF Question
    <2>4. thread'[d][j] = thread[d][j]
      BY <1>11, <2>3
    <2>5. ask[thread[d][i].ask].pc = "replied" /\ thread[d][i].there /\ thread[d][i].ask \in Asks
      BY <2>1 DEF RepliesInv, Turn
    <2>6. ask'[thread[d][i].ask].pc = "replied"
      BY <1>2, <1>5, <2>5
    <2>7. crowded' = crowded
      BY <1>2
    <2>8. QED
      BY <2>1, <2>2, <2>4, <2>5, <2>6, <2>7
  <1>16. QuestionsInv'
    <2> SUFFICES ASSUME NEW b \in Asks, NEW d \in Chats,
                        Running(b)', ask'[b].chat = d, chat'[d].state = "open"
                 PROVE  Waits(b, d)'
      BY DEF QuestionsInv
    <2>1. Running(b) /\ ask[b].chat = d /\ chat[d].state = "open"
      BY <1>2, <1>3, <1>4, <1>5 DEF Running, c
    <2>2. PICK j \in 1..Len(thread[d]) :
            /\ thread[d][j] = Question(b, ask[b].pc # "arrived")
            /\ b \in crowded \/ j = Len(thread[d])
      BY <2>1 DEF QuestionsInv, Waits
    <2>3. j \in 1..Len(thread'[d])
      BY <1>10
    <2>4. thread'[d][j] = Question(b, ask'[b].pc # "arrived")
      <3>1. CASE b = a
        <4>1. d = c /\ thread[d][j] = Question(a, FALSE)
          BY <1>2, <2>1, <2>2, <3>1 DEF c
        <4>2. thread'[d][j] = Question(a, TRUE)
          BY <1>8, <4>1
        <4>3. QED
          BY <1>4, <1>5, <3>1, <4>2
      <3>2. CASE b # a
        <4>1. thread[d][j] # Question(a, FALSE)
          BY <2>2, <3>2 DEF Question
        <4>2. QED
          BY <1>5, <1>9, <2>2, <2>3, <3>2, <4>1
      <3>3. QED
        BY <3>1, <3>2
    <2>5. QED
      BY <1>2, <1>10, <2>2, <2>3, <2>4 DEF Waits
  <1>17. CrowdInv'
    BY <1>2, <1>3, <1>4, <1>5 DEF CrowdInv, Running, c
  <1>18. VotesInv'
    BY <1>2, <1>5 DEF VotesInv
  <1>19. SignalsAreVotes' /\ AnsweredIsBacked' /\ CitedWasServed'
    BY <1>2 DEF SignalsAreVotes, AnsweredIsBacked, CitedWasServed
  <1>20. QED
    BY <1>12, <1>13, <1>14, <1>15, <1>16, <1>17, <1>18, <1>19

\* What a request keeps when it has logged.
LEMMA LoggedAsk ==
  ASSUME NEW c \in Chats
  PROVE  LET q == [NoAsk EXCEPT !.pc = "logged", !.chat = c]
         IN  q \in Ask /\ q.pc = "logged" /\ q.chat = c /\ q.hits = {}
  <1>1. NoAsk \in Ask /\ NoAsk.hits = {}
    BY Records DEF NoAsk
  <1>2. QED
    BY <1>1 DEF Ask

\* What a request may log: an escalation, or an answer that passed every check.
Backed(a, cited, text) ==
  /\ cited \subseteq ask[a].hits /\ text \in Completion \cup {None}
  /\ text # None => /\ text.grounded /\ ~ text.abstains
                    /\ text.cites = cited /\ cited # {}

\* The answer is logged.
LEMMA WriteLogStep ==
  ASSUME AnswersInv, NEW a \in Asks, ask[a].pc = "composing",
         NEW cited, NEW text, Backed(a, cited, text), WriteLog(a, cited, text)
  PROVE  AnswersInv'
  <1> USE DEF AnswersInv
  <1> DEFINE q == [NoAsk EXCEPT !.pc = "logged", !.chat = ask[a].chat]
             l == [chat |-> ask[a].chat, retrieved |-> ask[a].hits, cited |-> cited, text |-> text]
  <1>1. Shapes /\ Pinned /\ RepliesLogged
    BY TypeParts
  <1>2. /\ chat[ask[a].chat].state = "open"
        /\ log' = [log EXCEPT ![a] = l]
        /\ ask' = [ask EXCEPT ![a] = q]
        /\ UNCHANGED <<machines, chunk, signals, chat, thread, vote, served, crowded>>
    BY DEF WriteLog
  <1>3. /\ ask[a] \in Ask /\ Running(a) /\ ask[a].chat \in Chats
        /\ ask[a].hits \subseteq served[a] /\ served[a] \subseteq Chunks
    BY <1>1 DEF Shapes, Running, AsksInv
  <1>4. q \in Ask /\ q.pc = "logged" /\ q.chat = ask[a].chat /\ q.hits = {}
    BY <1>3, LoggedAsk
  <1>5. /\ l \in Log /\ l.chat = ask[a].chat /\ l.cited = cited /\ l.text = text
        /\ l.retrieved = ask[a].hits
    BY <1>3 DEF Backed, Log
  <1> HIDE DEF q, l
  <1>6. MayBecome(a, q)
    BY <1>3, <1>4 DEF MayBecome
  <1>7. /\ ask' \in [Asks -> Ask]
        /\ ask'[a] = q /\ \A b \in Asks \ {a} : ask'[b] = ask[b]
        /\ GoesOn /\ AsksInv'
        /\ RepliesInv' /\ QuestionsInv' /\ CrowdInv'
    BY <1>2, <1>6, AskMoves
  <1>8. /\ log' \in [Asks -> Log \cup {None}]
        /\ log'[a] = l /\ l # None /\ \A b \in Asks \ {a} : log'[b] = log[b]
    BY <1>1, <1>2, <1>5, NoLogAssumption DEF Shapes
  <1>9. TypeOK'
    <2>1. Shapes'
      BY <1>1, <1>2, <1>7, <1>8 DEF Shapes
    <2>2. Pinned'
      BY <1>1, <1>2 DEF Pinned
    <2>3. RepliesLogged'
      <3> SUFFICES ASSUME NEW d \in Chats, NEW i \in 1..Len(thread[d]),
                          thread[d][i].role = "assistant"
                   PROVE  log'[thread[d][i].ask] # None /\ log'[thread[d][i].ask].chat = d
        BY <1>2 DEF RepliesLogged
      <3>1. thread[d][i].ask \in Asks /\ ask[thread[d][i].ask].pc = "replied"
        BY Threads DEF RepliesInv, Turn
      <3>2. QED
        BY <1>1, <1>8, <3>1 DEF RepliesLogged
    <2>4. QED
      BY <2>1, <2>2, <2>3, TypeStep
  <1>10. LogsInv'
    BY <1>2, <1>4, <1>5, <1>7, <1>8 DEF LogsInv
  <1>11. CitationsStay
    BY <1>8 DEF CitationsStay
  <1>12. VotesInv' /\ SignalsAreVotes'
    BY <1>2, <1>7, <1>11, NoVotes
  <1>13. CitedWasServed'
    BY <1>2, <1>3, <1>5, <1>8 DEF CitedWasServed, Backed
  <1>14. AnsweredIsBacked'
    BY <1>5, <1>8 DEF AnsweredIsBacked, Backed
  <1>15. QED
    BY <1>7, <1>9, <1>10, <1>12, <1>13, <1>14

\* The model is called once, and its completion accepted, turned down or given up.
LEMMA CompleteStep ==
  ASSUME AnswersInv, NEW a \in Asks, Complete(a)
  PROVE  AnswersInv'
  <1>1. ask[a].pc = "composing" /\ ask[a].hits # {}
    BY DEF Complete
  <1>2. PICK text \in MayAnswer(a) :
          \/ ~ text.abstains /\ Accepted(a, text) /\ WriteLog(a, text.cites \cap ask[a].hits, text)
          \/ WriteLog(a, {}, None)
          \/ /\ ask' = [ask EXCEPT ![a].retry = TRUE]
             /\ UNCHANGED <<machines, chunk, signals, chat, thread, log, vote, served, crowded>>
    BY DEF Complete
  <1>3. text \in Completion
    BY DEF MayAnswer
  <1>4. CASE ~ text.abstains /\ Accepted(a, text) /\ WriteLog(a, text.cites \cap ask[a].hits, text)
    <2>1. Backed(a, text.cites \cap ask[a].hits, text)
      BY <1>3, <1>4 DEF Backed, Accepted
    <2>2. QED
      BY <1>1, <1>4, <2>1, WriteLogStep
  <1>5. Backed(a, {}, None)
    BY DEF Backed
  <1>6. QED
    BY <1>1, <1>2, <1>4, <1>5, WriteLogStep, RetryStep

\* The reply is stored, at the end of the thread.
LEMMA StoreReplyStep ==
  ASSUME AnswersInv, NEW a \in Asks, StoreReply(a)
  PROVE  AnswersInv'
  <1> USE DEF AnswersInv
  <1> DEFINE q == [NoAsk EXCEPT !.pc = "replied"]
             c == ask[a].chat
  <1>1. Shapes /\ Pinned /\ RepliesLogged
    BY TypeParts
  <1>2. /\ ask[a].pc = "logged" /\ chat[c].state = "open"
        /\ thread' = [thread EXCEPT ![c] = Append(@, Reply(a))]
        /\ ask' = [ask EXCEPT ![a] = q]
        /\ UNCHANGED <<machines, chunk, signals, chat, log, vote, served, crowded>>
    BY DEF StoreReply
  <1>3. q \in Ask /\ q.pc = "replied" /\ q.hits = {}
    BY EndedAsk
  <1> HIDE DEF q, c
  <1>4. Running(a) /\ c \in Chats /\ log[a] # None /\ log[a].chat = c /\ c = ask[a].chat
    BY <1>2 DEF Running, AsksInv, LogsInv, c
  <1>5. \A b \in Asks : ask'[b] = IF b = a THEN q ELSE ask[b]
    BY <1>1, <1>2 DEF Shapes
  <1>6. thread[c] \in Seq(Turn) /\ Reply(a) \in Turn /\ Len(thread[c]) \in Nat
    BY <1>1, <1>4, Records, Threads DEF Shapes
  <1>7. /\ thread'[c] = Append(thread[c], Reply(a))
        /\ \A d \in Chats \ {c} : thread'[d] = thread[d]
    BY <1>1, <1>2, <1>4 DEF Shapes
  <1>8. /\ thread'[c] \in Seq(Turn)
        /\ Len(thread'[c]) = Len(thread[c]) + 1
        /\ \A i \in 1..Len(thread[c]) : thread'[c][i] = thread[c][i]
        /\ thread'[c][Len(thread[c]) + 1] = Reply(a)
    <2>1. /\ Append(thread[c], Reply(a)) \in Seq(Turn)
          /\ Len(Append(thread[c], Reply(a))) = Len(thread[c]) + 1
          /\ \A i \in 1..Len(thread[c]) : Append(thread[c], Reply(a))[i] = thread[c][i]
          /\ Append(thread[c], Reply(a))[Len(thread[c]) + 1] = Reply(a)
      BY <1>6, Appended
    <2>2. QED
      BY <1>7, <2>1
  <1>9. Waits(a, c)
    BY <1>2, <1>4 DEF QuestionsInv
  <1>10. ASSUME NEW d \in Chats, NEW i \in 1..Len(thread'[d])
         PROVE  \/ i \in 1..Len(thread[d]) /\ thread'[d][i] = thread[d][i]
                \/ d = c /\ i = Len(thread[c]) + 1 /\ thread'[d][i] = Reply(a)
    BY <1>6, <1>7, <1>8
  <1>11. \A d \in Chats : \A i \in 1..Len(thread[d]) :
           i \in 1..Len(thread'[d]) /\ thread'[d][i] = thread[d][i]
    BY <1>6, <1>7, <1>8
  <1>12. TypeOK'
    <2>1. Shapes'
      BY <1>1, <1>2, <1>3, <1>4, <1>8 DEF Shapes
    <2>2. Pinned'
      BY <1>1, <1>2, <1>7 DEF Pinned
    <2>3. RepliesLogged'
      <3> SUFFICES ASSUME NEW d \in Chats, NEW i \in 1..Len(thread'[d]),
                          thread'[d][i].role = "assistant"
                   PROVE  log[thread'[d][i].ask] # None /\ log[thread'[d][i].ask].chat = d
        BY <1>2 DEF RepliesLogged
      <3>1. CASE i \in 1..Len(thread[d]) /\ thread'[d][i] = thread[d][i]
        BY <1>1, <3>1 DEF RepliesLogged
      <3>2. CASE d = c /\ thread'[d][i] = Reply(a)
        BY <1>4, <3>2 DEF Reply
      <3>3. QED
        BY <1>10, <3>1, <3>2
    <2>4. QED
      BY <2>1, <2>2, <2>3, TypeStep
  <1>13. AsksInv'
    <2> SUFFICES ASSUME NEW b \in Asks
                 PROVE  /\ Running(b)' => /\ ask'[b].chat \in Chats
                                          /\ chat'[ask'[b].chat].state # "absent"
                        /\ ask'[b].hits \subseteq served'[b]
                        /\ Unsearched(b)' => Retrievable(ask[b].machine)' \subseteq served'[b]
      <3>1. ASSUME NEW b \in Asks, Unsearched(b)' PROVE ask'[b].machine = ask[b].machine
        BY <1>3, <1>5, <3>1 DEF Unsearched
      <3>2. QED
        BY <3>1 DEF AsksInv
    <2>1. CASE b = a
      BY <1>3, <1>5, <2>1 DEF Running, Unsearched
    <2>2. CASE b # a
      BY <1>2, <1>5, <2>2 DEF AsksInv, Running, Unsearched, Retrievable, InScope
    <2>3. QED
      BY <2>1, <2>2
  <1>14. LogsInv'
    BY <1>2, <1>3, <1>4, <1>5 DEF LogsInv
  <1>15. RepliesInv'
    <2> SUFFICES ASSUME NEW d \in Chats, NEW i \in 1..Len(thread'[d]),
                        thread'[d][i].role = "assistant"
                 PROVE  /\ thread'[d][i].there /\ ask'[thread'[d][i].ask].pc = "replied"
                        /\ \E j \in 1..(i - 1) :
                             /\ thread'[d][j] = Question(thread'[d][i].ask, TRUE)
                             /\ thread'[d][i].ask \in crowded' \/ j = i - 1
      BY DEF RepliesInv
    <2>1. CASE i \in 1..Len(thread[d]) /\ thread'[d][i] = thread[d][i]
      <3>1. thread[d][i].ask \in Asks
        BY <2>1, Threads DEF Turn
      <3>2. /\ thread[d][i].there /\ ask[thread[d][i].ask].pc = "replied"
            /\ \E j \in 1..(i - 1) :
                  /\ thread[d][j] = Question(thread[d][i].ask, TRUE)
                  /\ thread[d][i].ask \in crowded \/ j = i - 1
        BY <2>1 DEF RepliesInv
      <3>3. ask'[thread[d][i].ask].pc = "replied"
        BY <1>3, <1>5, <3>1, <3>2
      <3>4. crowded' = crowded /\ Len(thread[d]) \in Nat
        BY <1>2, Threads
      <3>5. \A j \in 1..(i - 1) : thread'[d][j] = thread[d][j]
        BY <1>11, <2>1, <3>4
      <3>6. QED
        BY <2>1, <3>2, <3>3, <3>4, <3>5
    <2>2. CASE d = c /\ i = Len(thread[c]) + 1 /\ thread'[d][i] = Reply(a)
      <3>1. thread'[d][i].there /\ thread'[d][i].ask = a /\ ask'[a].pc = "replied"
        BY <1>3, <1>5, <2>2 DEF Reply
      <3>2. PICK j \in 1..Len(thread[c]) :
              /\ thread[c][j] = Question(a, TRUE)
              /\ a \in crowded \/ j = Len(thread[c])
        BY <1>2, <1>9 DEF Waits
      <3>3. /\ j \in 1..(i - 1) /\ thread'[d][j] = Question(a, TRUE)
            /\ a \in crowded' \/ j = i - 1
        <4>1. crowded' = crowded /\ i - 1 = Len(thread[c]) /\ j \in 1..(i - 1)
          BY <1>2, <1>6, <2>2
        <4>2. thread'[d][j] = thread[c][j]
          BY <1>4, <1>11, <2>2
        <4>3. QED
          BY <3>2, <4>1, <4>2
      <3>4. QED
        BY <3>1, <3>3
    <2>3. QED
      BY <1>10, <2>1, <2>2
  <1>16. QuestionsInv'
    <2> SUFFICES ASSUME NEW b \in Asks, NEW d \in Chats,
                        Running(b)', ask'[b].chat = d, chat'[d].state = "open"
                 PROVE  Waits(b, d)'
      BY DEF QuestionsInv
    <2>1. b # a /\ ask'[b] = ask[b] /\ Running(b) /\ ask[b].chat = d /\ chat[d].state = "open"
      BY <1>2, <1>3, <1>5 DEF Running
    <2>2. PICK j \in 1..Len(thread[d]) :
            /\ thread[d][j] = Question(b, ask[b].pc # "arrived")
            /\ b \in crowded \/ j = Len(thread[d])
      BY <2>1 DEF QuestionsInv, Waits
    <2>3. j \in 1..Len(thread'[d]) /\ thread'[d][j] = thread[d][j]
      BY <1>11
    <2>4. b \in crowded' \/ j = Len(thread'[d])
      <3>1. CASE d = c
        BY <1>2, <1>4, <2>1, <3>1 DEF CrowdInv
      <3>2. CASE d # c
        BY <1>2, <1>7, <2>2, <3>2
      <3>3. QED
        BY <3>1, <3>2
    <2>5. QED
      BY <2>1, <2>2, <2>3, <2>4 DEF Waits
  <1>17. CrowdInv'
    BY <1>2, <1>3, <1>5 DEF CrowdInv, Running
  <1>18. VotesInv'
    BY <1>2, <1>3, <1>5 DEF VotesInv
  <1>19. SignalsAreVotes' /\ AnsweredIsBacked' /\ CitedWasServed'
    BY <1>2 DEF SignalsAreVotes, AnsweredIsBacked, CitedWasServed
  <1>20. QED
    BY <1>12, <1>13, <1>14, <1>15, <1>16, <1>17, <1>18, <1>19

-----------------------------------------------------------------------------
(***************************************************************************)
(* Votes.                                                                  *)
(***************************************************************************)

\* A vote on a reply: its request has replied, and its log names the conversation.
LEMMA VotedOn ==
  ASSUME AnswersInv, NEW a \in Asks, HasReply(a)
  PROVE  ask[a].pc = "replied" /\ log[a] # None /\ log[a].chat \in Chats
  <1> PICK c \in Chats : \E i \in 1..Len(thread[c]) : thread[c][i] = Reply(a)
    BY DEF HasReply, Contains
  <1>1. PICK i \in 1..Len(thread[c]) : thread[c][i] = Reply(a)
    OBVIOUS
  <1>2. thread[c][i].role = "assistant" /\ thread[c][i].ask = a
    BY <1>1 DEF Reply
  <1>3. log[a] # None /\ log[a].chat = c
    BY <1>2, Threads DEF AnswersInv, RepliesLogged
  <1>4. QED
    BY <1>2, <1>3 DEF AnswersInv, RepliesInv

\* A vote is loaded, or turned down.
LEMMA CastVoteStep ==
  ASSUME AnswersInv, NEW v \in Votes, NEW a \in Asks, NEW verdict \in Verdicts,
         CastVote(v, a, verdict)
  PROVE  AnswersInv'
  <1> USE DEF AnswersInv
  <1> DEFINE machine == IF verdict = "fix proposed" THEN chat[log[a].chat].machine ELSE None
             w == [pc |-> IF verdict = "fix proposed" /\ machine = None
                          THEN "rejected" ELSE "loaded",
                   ask |-> a, verdict |-> verdict, machine |-> machine]
  <1>1. /\ vote[v].pc = "none" /\ HasReply(a)
        /\ vote' = [vote EXCEPT ![v] = w]
        /\ UNCHANGED <<machines, chunk, signals, chat, thread, ask, log, served, crowded>>
    BY DEF CastVote
  <1>2. ask[a].pc = "replied" /\ log[a] # None /\ log[a].chat \in Chats
    BY <1>1, VotedOn
  <1>3. machine \in Machines \cup {None}
    BY <1>2 DEF TypeOK, Chat
  <1> HIDE DEF machine
  <1>4. w \in Vote /\ w.pc \in {"rejected", "loaded"} /\ w.ask = a
    BY <1>3 DEF Vote
  <1> HIDE DEF w
  <1>5. vote'[v] = w /\ \A u \in Votes \ {v} : vote'[u] = vote[u]
    BY <1>1 DEF TypeOK
  <1>6. TypeOK'
    BY <1>1, <1>4 DEF TypeOK
  <1>7. AsksInv' /\ LogsInv'
    BY <1>1 DEF AsksInv, LogsInv, Running, Unsearched, Retrievable, InScope
  <1>8. GoesOn
    BY <1>1, NoAskMoves
  <1>9. VotesInv'
    BY <1>1, <1>2, <1>4, <1>5 DEF VotesInv
  <1>10. SignalsAreVotes'
    <2>1. \A u \in Votes : vote'[u].pc = "done" <=> vote[u].pc = "done"
      BY <1>1, <1>4, <1>5
    <2>2. \A u \in Votes : vote[u].pc = "done" => vote'[u] = vote[u]
      BY <1>1, <1>5
    <2>3. ASSUME NEW k \in Chunks
          PROVE  {u \in Votes : /\ vote'[u].pc = "done" /\ vote'[u].verdict = "helped"
                                /\ k \in log[vote'[u].ask].cited}
                 = {u \in Votes : /\ vote[u].pc = "done" /\ vote[u].verdict = "helped"
                                  /\ k \in log[vote[u].ask].cited}
      BY <2>1, <2>2
    <2> SUFFICES ASSUME NEW k \in Chunks, chunk[k] # "gone"
                 PROVE  signals[k] = Cardinality(
                          {u \in Votes : /\ vote'[u].pc = "done" /\ vote'[u].verdict = "helped"
                                         /\ k \in log[vote'[u].ask].cited})
      BY <1>1 DEF SignalsAreVotes
    <2>4. QED
      BY <2>3 DEF SignalsAreVotes
  <1>11. QED
    BY <1>1, <1>6, <1>7, <1>8, <1>9, <1>10, NoTurn, NoLog

\* The helpful votes on answers that cite a chunk.
Helpful(k) ==
  {v \in Votes : vote[v].pc = "done" /\ vote[v].verdict = "helped" /\ k \in log[vote[v].ask].cited}

\* A vote is stored, and counts for every chunk that its answer cites.
LEMMA CommitVoteStep ==
  ASSUME AnswersInv, NEW v \in Votes, CommitVote(v)
  PROVE  AnswersInv'
  <1> USE DEF AnswersInv
  <1>1. /\ vote[v].pc = "loaded"
        /\ UNCHANGED <<machines, chunk, chat, thread, ask, log, served, crowded>>
    BY DEF CommitVote
  <1>2. AsksInv' /\ LogsInv'
    BY <1>1 DEF AsksInv, LogsInv, Running, Unsearched, Retrievable, InScope
  <1>3. GoesOn
    BY <1>1, NoAskMoves
  <1>4. vote[v] \in Vote /\ signals \in [Chunks -> Nat]
    BY DEF TypeOK
  <1>5. ASSUME NEW pc \in {"done", "rejected"}, vote' = [vote EXCEPT ![v].pc = pc]
        PROVE  /\ vote' \in [Votes -> Vote] /\ VotesInv'
               /\ vote'[v].pc = pc /\ vote'[v].ask = vote[v].ask
               /\ vote'[v].verdict = vote[v].verdict
               /\ \A u \in Votes \ {v} : vote'[u] = vote[u]
    <2>1. [vote[v] EXCEPT !.pc = pc] \in Vote
      BY <1>4 DEF Vote
    <2>2. vote' \in [Votes -> Vote]
      BY <1>5, <2>1 DEF TypeOK
    <2>3. /\ vote'[v].pc = pc /\ vote'[v].ask = vote[v].ask
          /\ vote'[v].verdict = vote[v].verdict
          /\ \A u \in Votes \ {v} : vote'[u] = vote[u]
      BY <1>4, <1>5 DEF TypeOK, Vote
    <2>4. VotesInv'
      BY <1>1, <2>3 DEF VotesInv
    <2>5. QED
      BY <2>2, <2>3, <2>4
  <1>6. CASE vote' = [vote EXCEPT ![v].pc = "rejected"] /\ UNCHANGED signals
    <2>1. TypeOK' /\ VotesInv'
      BY <1>1, <1>5, <1>6 DEF TypeOK
    <2>2. ASSUME NEW k \in Chunks PROVE Helpful(k)' = Helpful(k)
      BY <1>1, <1>5, <1>6 DEF Helpful
    <2>3. SignalsAreVotes'
      BY <1>1, <1>6, <2>2 DEF SignalsAreVotes, Helpful
    <2>4. QED
      BY <1>1, <1>2, <1>3, <2>1, <2>3, NoTurn, NoLog
  <1>7. CASE /\ vote' = [vote EXCEPT ![v].pc = "done"]
             /\ signals' = [k \in Chunks |->
                  IF k \in Reinforced(v) /\ chunk[k] # "gone" THEN signals[k] + 1 ELSE signals[k]]
    <2>1. TypeOK' /\ VotesInv'
      BY <1>1, <1>4, <1>5, <1>7 DEF TypeOK
    <2>2. ASSUME NEW k \in Chunks, chunk[k] # "gone", signals[k] = Cardinality(Helpful(k))
          PROVE  signals'[k] = Cardinality(Helpful(k)')
      <3>1. v \notin Helpful(k) /\ IsFiniteSet(Helpful(k))
        BY <1>1, AnswersAssumption, FS_Subset DEF Helpful
      <3>2. CASE k \in Reinforced(v)
        <4>1. vote[v].verdict = "helped" /\ k \in log[vote[v].ask].cited
          BY <3>2 DEF Reinforced
        <4>2. Helpful(k)' = Helpful(k) \cup {v}
          BY <1>1, <1>5, <1>7, <4>1 DEF Helpful
        <4>3. Cardinality(Helpful(k) \cup {v}) = Cardinality(Helpful(k)) + 1
          BY <3>1, FS_AddElement
        <4>4. QED
          BY <1>7, <2>2, <3>2, <4>2, <4>3
      <3>3. CASE k \notin Reinforced(v)
        <4>1. ~ (vote[v].verdict = "helped" /\ k \in log[vote[v].ask].cited)
          BY <3>3 DEF Reinforced
        <4>2. Helpful(k)' = Helpful(k)
          BY <1>1, <1>5, <1>7, <4>1 DEF Helpful
        <4>3. QED
          BY <1>7, <2>2, <3>3, <4>2
      <3>4. QED
        BY <3>2, <3>3
    <2>3. SignalsAreVotes'
      BY <1>1, <2>2 DEF SignalsAreVotes, Helpful
    <2>4. QED
      BY <1>1, <1>2, <1>3, <2>1, <2>3, NoTurn, NoLog
  <1>8. QED
    BY <1>6, <1>7 DEF CommitVote

-----------------------------------------------------------------------------
(***************************************************************************)
(* The invariant, and what follows from it.                                *)
(***************************************************************************)

\* Nobody has asked anything at first.
LEMMA AnswersInvInit == Init => AnswersInv
  <1> SUFFICES ASSUME Init PROVE AnswersInv
    OBVIOUS
  <1>1. NoAsk \in Ask /\ NoAsk.pc = "none" /\ NoAsk.hits = {}
    BY Records DEF NoAsk
  <1>2. NoVote \in Vote /\ NoVote.pc = "none"
    BY Records DEF NoVote
  <1>3. Shapes /\ Pinned /\ RepliesLogged
    <2>1. [state |-> "absent", machine |-> None] \in Chat
      BY DEF Chat
    <2>2. QED
      BY <1>1, <1>2, <2>1 DEF Init, Shapes, Pinned, RepliesLogged
  <1>4. TypeOK
    BY <1>3, TypeParts
  <1>5. AsksInv /\ LogsInv /\ RepliesInv /\ QuestionsInv /\ CrowdInv /\ VotesInv
    BY <1>1, <1>2
    DEF Init, AsksInv, LogsInv, RepliesInv, QuestionsInv, CrowdInv, VotesInv, Running, Unsearched
  <1>6. CitedWasServed /\ AnsweredIsBacked
    BY DEF Init, CitedWasServed, AnsweredIsBacked
  <1>7. SignalsAreVotes
    <2>1. \A k \in Chunks : Helpful(k) = {}
      BY <1>2 DEF Init, Helpful
    <2>2. QED
      BY <2>1, FS_EmptySet DEF Init, SignalsAreVotes, Helpful
  <1>8. QED
    BY <1>4, <1>5, <1>6, <1>7 DEF AnswersInv

\* A chunk comes, is superseded or restored, or goes.
LEMMA ChunkStep ==
  ASSUME AnswersInv, NEW k \in Chunks, Publish(k) \/ Supersede(k) \/ Restore(k) \/ Withdraw(k)
  PROVE  AnswersInv'
  <1>1. chunk \in [Chunks -> {"absent", "live", "superseded", "gone"}]
    BY DEF AnswersInv, TypeOK
  <1>2. PICK st \in {"live", "superseded", "gone"} :
          /\ Reindex([chunk EXCEPT ![k] = st]) /\ chunk[k] # "gone"
          /\ UNCHANGED <<machines, signals, chat, thread, ask, log, vote, crowded>>
    BY DEF Publish, Supersede, Restore, Withdraw
  <1>3. /\ [chunk EXCEPT ![k] = st] \in [Chunks -> {"absent", "live", "superseded", "gone"}]
        /\ \A j \in Chunks : chunk[j] = "gone" => [chunk EXCEPT ![k] = st][j] = "gone"
    BY <1>1, <1>2
  <1>4. QED
    BY <1>2, <1>3, ReindexStep

\* Every step preserves the invariant.
LEMMA AnswersInvNext == AnswersInv /\ [Next]_vars => AnswersInv'
  <1> SUFFICES ASSUME AnswersInv, [Next]_vars PROVE AnswersInv'
    OBVIOUS
  <1>1. CASE UNCHANGED vars
    <2>1. UNCHANGED <<machines, chunk, signals, chat, thread, ask, log, vote, served, crowded>>
      BY <1>1 DEF vars
    <2>2. TypeOK' /\ AsksInv' /\ LogsInv'
      BY <2>1 DEF AnswersInv, TypeOK, AsksInv, LogsInv, Running, Unsearched, Retrievable, InScope
    <2>3. QED
      BY <2>1, <2>2, NoAskMoves, NoTurn, NoLog, NoVotes DEF AnswersInv
  <1>2. ASSUME NEW a \in Asks, NEW c \in Chats, Arrive(a, c) PROVE AnswersInv'
    BY <1>2, ArriveStep, NotFoundStep
  <1>3. CASE Technician
    BY <1>2, <1>3, OpenChatStep, CastVoteStep DEF Technician
  <1>4. CASE Others
    BY <1>4, ChunkStep, DeleteMachineStep, DeleteOwnerStep DEF Others
  <1>5. ASSUME NEW a \in Asks, Escalate(a) PROVE AnswersInv'
    <2>1. ask[a].pc = "composing" /\ WriteLog(a, {}, None) /\ Backed(a, {}, None)
      BY <1>5 DEF Escalate, Backed
    <2>2. QED
      BY <2>1, WriteLogStep
  <1>6. ASSUME NEW a \in Asks, Step(a) PROVE AnswersInv'
    BY <1>5, <1>6, CommitQuestionStep, SearchStep, CompleteStep, StoreReplyStep, FailStep DEF Step
  <1>7. QED
    BY <1>1, <1>3, <1>4, <1>6, CommitVoteStep DEF Next

\* The invariant holds of every behaviour.
LEMMA AnswersInvAlways == Spec => []AnswersInv
  BY AnswersInvInit, AnswersInvNext, PTL DEF Spec

\* Every row and request is well formed and every key between them points at what is
\* there, however deletions and questions overlap.
THEOREM AnswersTypeCorrect == Spec => []TypeOK
  <1>1. AnswersInv => TypeOK
    BY DEF AnswersInv
  <1>2. QED
    BY <1>1, AnswersInvAlways, PTL

\* No answer cites what was already withdrawn, superseded or out of scope when its
\* question came.
THEOREM CitationsWereServed == Spec => []CitedWasServed
  <1>1. AnswersInv => CitedWasServed
    BY DEF AnswersInv
  <1>2. QED
    BY <1>1, AnswersInvAlways, PTL

\* An answer that is not an escalation is a completion that passed every check.
THEOREM AnswersAreBacked == Spec => []AnsweredIsBacked
  <1>1. AnswersInv => AnsweredIsBacked
    BY DEF AnswersInv
  <1>2. QED
    BY <1>1, AnswersInvAlways, PTL

\* Every reply comes after its question, and next to it when nothing ran beside.
THEOREM RepliesComeAfter == Spec => []RepliesFollow
  <1>1. AnswersInv => RepliesFollow
    <2> SUFFICES ASSUME AnswersInv, NEW c \in Chats, NEW i \in Transcript(c),
                        thread[c][i].role = "assistant"
                 PROVE  \E j \in Transcript(c) :
                          /\ j < i /\ thread[c][j] = Question(thread[c][i].ask, TRUE)
                          /\ \/ thread[c][i].ask \in crowded
                             \/ \A k \in Transcript(c) : ~ (j < k /\ k < i)
      BY DEF RepliesFollow
    <2>1. Len(thread[c]) \in Nat /\ DOMAIN thread[c] = 1..Len(thread[c]) /\ i \in 1..Len(thread[c])
      BY Threads DEF AnswersInv, Transcript
    <2>2. PICK j \in 1..(i - 1) :
            /\ thread[c][j] = Question(thread[c][i].ask, TRUE)
            /\ thread[c][i].ask \in crowded \/ j = i - 1
      BY <2>1 DEF AnswersInv, RepliesInv
    <2>3. j \in Transcript(c) /\ j < i
      BY <2>1, <2>2 DEF Transcript, Question
    <2>4. \A k \in Transcript(c) : k \in Nat
      BY <2>1 DEF Transcript
    <2>5. j = i - 1 => \A k \in Transcript(c) : ~ (j < k /\ k < i)
      BY <2>1, <2>4
    <2>6. QED
      BY <2>2, <2>3, <2>5
  <1>2. QED
    BY <1>1, AnswersInvAlways, PTL

\* The counter of a chunk is the number of accepted helpful votes on answers that cite it,
\* also of those whose rows are gone.
THEOREM SignalsCountVotes == Spec => []SignalsAreVotes
  <1>1. AnswersInv => SignalsAreVotes
    BY DEF AnswersInv
  <1>2. QED
    BY <1>1, AnswersInvAlways, PTL

=============================================================================
