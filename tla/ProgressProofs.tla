--------------------------- MODULE ProgressProofs ---------------------------
(***************************************************************************)
(* Proofs about Progress, for any number of texts, figures, slots and      *)
(* polls, and any size of a batch.                                         *)
(***************************************************************************)
EXTENDS Progress, FiniteSetTheorems, TLAPS

-----------------------------------------------------------------------------
(***************************************************************************)
(* Arithmetic of the bar.                                                  *)
(***************************************************************************)

LEMMA TimesMono ==
  ASSUME NEW a \in Nat, NEW b \in Nat, NEW c \in Nat, a <= b
  PROVE  a * c <= b * c
  <1>1. PICK d \in Nat : b = a + d
    <2>1. b - a \in Nat /\ b = a + (b - a)
      OBVIOUS
    <2>2. QED
      BY <2>1
  <1>2. b * c = a * c + d * c /\ d * c \in Nat /\ a * c \in Nat
    BY <1>1
  <1>3. QED
    BY <1>2

LEMMA DivBounds ==
  ASSUME NEW a \in Nat, NEW c \in Nat \ {0}
  PROVE  /\ a \div c \in Nat
         /\ (a \div c) * c <= a
         /\ a < (a \div c) * c + c
  OBVIOUS

\* The part of k that n is of c, rounded down: it grows with n, and is all of k
\* only when n is all of c.
ShareOf(k, n, c) == (k * n) \div c

LEMMA ShareBounds ==
  ASSUME NEW k \in Nat \ {0}, NEW c \in Nat \ {0}, NEW n \in 0..c
  PROVE  /\ ShareOf(k, n, c) \in 0..k
         /\ ShareOf(k, n, c) = k => n = c
  <1> DEFINE q == (k * n) \div c
  <1>1. k * n \in Nat /\ k * c \in Nat
    OBVIOUS
  <1>2. q \in Nat /\ q * c <= k * n /\ k * n < q * c + c
    BY <1>1, DivBounds
  <1>3. k * n <= k * c
    BY TimesMono
  <1>4. q <= k
    <2>1. SUFFICES ASSUME k + 1 <= q PROVE FALSE
      BY <1>2
    <2>2. (k + 1) * c <= q * c
      BY <1>2, <2>1, TimesMono
    <2>3. (k + 1) * c = k * c + c
      OBVIOUS
    <2>4. QED
      BY <1>1, <1>2, <1>3, <2>2, <2>3
  <1>5. ASSUME q = k PROVE n = c
    <2>1. k * c <= k * n
      BY <1>2, <1>5
    <2>2. SUFFICES ASSUME n + 1 <= c PROVE FALSE
      OBVIOUS
    <2>3. (n + 1) * k <= c * k
      BY <2>2, TimesMono
    <2>4. (n + 1) * k = k * n + k /\ c * k = k * c
      OBVIOUS
    <2>5. QED
      BY <1>1, <2>1, <2>3, <2>4
  <1>6. QED
    BY <1>2, <1>4, <1>5 DEF ShareOf

LEMMA ShareGrows ==
  ASSUME NEW k \in Nat, NEW c \in Nat \ {0}, NEW m \in Nat, NEW n \in Nat, m <= n
  PROVE  ShareOf(k, m, c) <= ShareOf(k, n, c)
  <1> DEFINE p == (k * m) \div c
             q == (k * n) \div c
  <1>1. k * m \in Nat /\ k * n \in Nat
    OBVIOUS
  <1>2. /\ p \in Nat /\ p * c <= k * m
        /\ q \in Nat /\ k * n < q * c + c
    BY <1>1, DivBounds
  <1>3. m * k <= n * k /\ m * k = k * m /\ n * k = k * n
    BY TimesMono
  <1> HIDE DEF p, q
  <1>4. SUFFICES ASSUME q + 1 <= p PROVE FALSE
    BY <1>2 DEF p, q, ShareOf
  <1>5. (q + 1) * c <= p * c
    BY <1>2, <1>4, TimesMono
  <1>6. (q + 1) * c = q * c + c
    BY <1>2
  <1>7. q * c \in Nat /\ p * c \in Nat
    BY <1>2
  <1>8. QED
    BY <1>1, <1>2, <1>3, <1>5, <1>6, <1>7

-----------------------------------------------------------------------------
(***************************************************************************)
(* The texts of some batches.                                              *)
(***************************************************************************)

LEMMA BatchesFinite ==
  /\ Batches \subseteq Nat \ {0} /\ IsFiniteSet(Batches)
  /\ Captions \subseteq Nat \ {0} /\ IsFiniteSet(Captions) /\ Cardinality(Captions) = Figures
  /\ \A b \in Batches : (b - 1) * BatchSize + 1 <= Texts
  <1> DEFINE last == (Texts + BatchSize - 1) \div BatchSize
  <1>1. last \in Nat /\ last * BatchSize <= Texts + BatchSize - 1
    BY DivBounds, ProgressAssumption
  <1>2. Batches = 1..last
    BY DEF Batches
  <1> HIDE DEF last
  <1>3. ASSUME NEW b \in Batches PROVE (b - 1) * BatchSize + 1 <= Texts
    <2>1. b \in Nat /\ b - 1 \in Nat /\ b <= last
      BY <1>1, <1>2
    <2>2. b * BatchSize <= last * BatchSize
      BY <1>1, <2>1, TimesMono, ProgressAssumption
    <2>3. (b - 1) * BatchSize = b * BatchSize - BatchSize
      BY <2>1, ProgressAssumption
    <2>4. b * BatchSize \in Nat /\ last * BatchSize \in Nat
      BY <1>1, <2>1, ProgressAssumption
    <2>5. QED
      BY <1>1, <2>2, <2>3, <2>4, ProgressAssumption
  <1>4. IsFiniteSet(Batches) /\ Batches \subseteq Nat \ {0}
    BY <1>1, <1>2, FS_Interval
  <1>5. IsFiniteSet(Captions) /\ Captions \subseteq Nat \ {0} /\ Cardinality(Captions) = Figures
    BY FS_Interval, ProgressAssumption DEF Captions
  <1>6. QED
    BY <1>3, <1>4, <1>5

LEMMA TextsCount ==
  ASSUME NEW bs \in SUBSET Batches
  PROVE  /\ Cardinality(TextsOf(bs)) \in 0..Texts
         /\ \A cs \in SUBSET bs : Cardinality(TextsOf(cs)) <= Cardinality(TextsOf(bs))
         /\ Cardinality(TextsOf(bs)) = Texts => bs = Batches
  <1> DEFINE all == 1..Texts
  <1>1. IsFiniteSet(all) /\ Cardinality(all) = Texts
    BY FS_Interval, ProgressAssumption
  <1>2. TextsOf(bs) \in SUBSET all
    BY DEF TextsOf
  <1>3. IsFiniteSet(TextsOf(bs)) /\ Cardinality(TextsOf(bs)) \in 0..Texts
    BY <1>1, <1>2, FS_Subset, FS_CardinalityType, ProgressAssumption
  <1>4. ASSUME NEW cs \in SUBSET bs
        PROVE  Cardinality(TextsOf(cs)) <= Cardinality(TextsOf(bs))
    <2>1. TextsOf(cs) \in SUBSET TextsOf(bs)
      BY DEF TextsOf
    <2>2. QED
      BY <1>3, <2>1, FS_Subset
  <1>5. ASSUME Cardinality(TextsOf(bs)) = Texts, NEW c \in Batches, c \notin bs
        PROVE  FALSE
    <2> DEFINE t == (c - 1) * BatchSize + 1
    <2>1. TextsOf(bs) = all
      BY <1>1, <1>2, <1>5, FS_Subset
    <2>2. c \in Nat \ {0} /\ c - 1 \in Nat /\ (c - 1) * BatchSize \in Nat /\ t <= Texts
      BY BatchesFinite, ProgressAssumption
    <2>3. t \in all
      BY <2>2, ProgressAssumption
    <2>4. PICK b \in bs : (b - 1) * BatchSize < t /\ t <= b * BatchSize
      BY <2>1, <2>3 DEF TextsOf
    <2>5. b \in Nat \ {0} /\ b # c
      BY <1>5, BatchesFinite
    <2>6. CASE b <= c - 1
      <3>1. b * BatchSize <= (c - 1) * BatchSize
        BY <2>2, <2>5, <2>6, TimesMono, ProgressAssumption
      <3>2. b * BatchSize \in Nat
        BY <2>5, ProgressAssumption
      <3>3. QED
        BY <2>2, <2>4, <3>1, <3>2
    <2>7. CASE c <= b - 1
      <3>1. c * BatchSize <= (b - 1) * BatchSize
        BY <2>2, <2>5, <2>7, TimesMono, ProgressAssumption
      <3>2. c * BatchSize = (c - 1) * BatchSize + BatchSize
        BY <2>2, ProgressAssumption
      <3>3. (b - 1) * BatchSize \in Nat /\ c * BatchSize \in Nat
        BY <2>2, <2>5, ProgressAssumption
      <3>4. QED
        BY <2>2, <2>4, <3>1, <3>2, <3>3, ProgressAssumption
    <2>8. QED
      BY <2>2, <2>5, <2>6, <2>7
  <1>6. QED
    BY <1>3, <1>4, <1>5

-----------------------------------------------------------------------------
(***************************************************************************)
(* The inductive invariant.  A percentage is right because of where the    *)
(* work is when it is published: calls of one gather only complete while   *)
(* no call of the other is under way, also after an exception.             *)
(***************************************************************************)

AllWaiting(calls) == \A c \in DOMAIN calls : calls[c] = "waiting"

Done == InState(batch, "done")
Stored == InState(figure, "done")

\* What is reported when n texts are embedded, and when n figures are stored.
EmbedPercent(n) == 10 + (60 * n) \div Texts
CaptionPercent(n) == 70 + (18 * n) \div Figures

\* The work up to the end of the first gather, and up to the end of the second.
AtEmbedding ==
  /\ AllWaiting(figure) /\ vectors = {}
  /\ backend.state = "PROGRESS"
  /\ \/ backend.percent = 8
     \/ Done # {} /\ backend.percent = EmbedPercent(Cardinality(TextsOf(Done)))

AtCaptioning ==
  /\ Done = Batches /\ vectors = Gathered
  /\ backend.state = "PROGRESS"
  /\ \/ backend.percent = 70
     \/ Stored # {} /\ backend.percent = CaptionPercent(Cardinality(Stored))

NotBegun == AllWaiting(batch) /\ AllWaiting(figure) /\ vectors = {}

AllStored == Done = Batches /\ Stored = Captions /\ vectors = Gathered

PhaseInv ==
  /\ phase \in {"none", "queued"} => NotBegun /\ backend = Pending
  /\ phase = "reading" => NotBegun /\ backend = [state |-> "PROGRESS", percent |-> 2]
  /\ phase = "embedding" => AtEmbedding /\ InState(batch, "failed") = {}
  /\ phase = "captioning" => AtCaptioning /\ InState(figure, "failed") = {}
  /\ phase = "failing" => \/ AtEmbedding /\ InState(batch, "failed") # {}
                          \/ AtCaptioning /\ InState(figure, "failed") # {}
  /\ phase \in {"saving", "stored"} => AllStored /\ backend = [state |-> "PROGRESS", percent |-> 88]
  /\ phase = "reported" => AllStored /\ backend = [state |-> "PROGRESS", percent |-> 100]
  /\ phase \in {"stored", "reported", "success"} => committed

\* What the backend and an answer on its way to the client say of the end.
TellsTheEnd(answer) ==
  /\ answer.state = "SUCCESS" => committed
  /\ answer.state = "FAILURE" => phase \in {"failure", "lost"}

ClientInv ==
  /\ TellsTheEnd(backend)
  /\ TellsTheEnd(poll.answer)
  /\ poll.pc \in {"asking", "answered"} => poll.left >= 1
  /\ phase = "none" => poll.pc = "none" /\ poll.left >= 1
  /\ ScreenIsTrue

\* What is stored was gathered.
Joined ==
  committed => /\ vectors = Gathered
               /\ phase \in {"stored", "reported", "success", "failure", "lost"}

ProgressInv ==
  /\ TypeOK
  /\ PhaseInv
  /\ PercentIsEarned
  /\ Joined
  /\ ClientInv

-----------------------------------------------------------------------------
(***************************************************************************)
(* What a call that moves on changes.                                      *)
(***************************************************************************)

LEMMA CallMoves ==
  ASSUME NEW B, NEW calls \in [B -> CallStates], NEW c \in B, NEW s \in CallStates,
         calls[c] # s
  PROVE  /\ [calls EXCEPT ![c] = s] \in [B -> CallStates]
         /\ InState([calls EXCEPT ![c] = s], s) = InState(calls, s) \cup {c}
         /\ \A r \in CallStates : r # s =>
              InState([calls EXCEPT ![c] = s], r) = InState(calls, r) \ {c}
         /\ c \notin InState(calls, s)
         /\ InState(calls, s) \subseteq B
  BY DEF InState

\* A call that leaves the state it is not in leaves it alone.
LEMMA CallLeaves ==
  ASSUME NEW B, NEW calls \in [B -> CallStates], NEW c \in B, NEW s \in CallStates,
         NEW r \in CallStates, r # s, calls[c] # s, calls[c] # r
  PROVE  InState([calls EXCEPT ![c] = s], r) = InState(calls, r)
  BY DEF InState

\* The calls in flight stay within the slots.
LEMMA CallStarts ==
  ASSUME NEW B, IsFiniteSet(B), NEW calls \in [B -> CallStates], NEW c \in B,
         NEW slots \in Nat, Starts(calls, c, slots)
  PROVE  Cardinality(InState([calls EXCEPT ![c] = "sent"], "sent")) <= slots
  <1>1. calls[c] # "sent" /\ Cardinality(InState(calls, "sent")) < slots
    BY DEF Starts
  <1>2. InState([calls EXCEPT ![c] = "sent"], "sent") = InState(calls, "sent") \cup {c}
    BY <1>1 DEF InState
  <1>3. InState(calls, "sent") \in SUBSET B
    BY DEF InState
  <1>4. IsFiniteSet(InState(calls, "sent"))
    BY <1>3, FS_Subset
  <1>5. Cardinality(InState(calls, "sent")) \in Nat
    BY <1>4, FS_CardinalityType
  <1>6. c \notin InState(calls, "sent")
    BY <1>1 DEF InState
  <1>7. Cardinality(InState(calls, "sent") \cup {c}) = Cardinality(InState(calls, "sent")) + 1
    BY <1>4, <1>6, FS_AddElement
  <1>8. Cardinality(InState(calls, "sent") \cup {c}) <= slots
    BY <1>1, <1>5, <1>7
  <1>9. QED
    BY <1>2, <1>8, Zenon

LEMMA CallEnds ==
  ASSUME NEW B, IsFiniteSet(B), NEW calls \in [B -> CallStates], NEW c \in B,
         NEW s \in {"done", "failed"}, calls[c] = "sent",
         NEW slots \in Nat, Cardinality(InState(calls, "sent")) <= slots
  PROVE  Cardinality(InState([calls EXCEPT ![c] = s], "sent")) <= slots
  <1>1. InState([calls EXCEPT ![c] = s], "sent") = InState(calls, "sent") \ {c}
    BY DEF InState
  <1>2. InState(calls, "sent") \in SUBSET B
    BY DEF InState
  <1>3. IsFiniteSet(InState(calls, "sent"))
    BY <1>2, FS_Subset
  <1>4. InState(calls, "sent") \ {c} \in SUBSET InState(calls, "sent")
    OBVIOUS
  <1>5. Cardinality(InState(calls, "sent") \ {c}) <= Cardinality(InState(calls, "sent"))
    BY <1>3, <1>4, FS_Subset
  <1>6. IsFiniteSet(InState(calls, "sent") \ {c})
    BY <1>3, <1>4, FS_Subset
  <1>7. /\ Cardinality(InState(calls, "sent") \ {c}) \in Nat
        /\ Cardinality(InState(calls, "sent")) \in Nat
    BY <1>3, <1>6, FS_CardinalityType
  <1>8. Cardinality(InState(calls, "sent") \ {c}) <= slots
    BY <1>5, <1>7
  <1>9. QED
    BY <1>1, <1>8, Zenon

-----------------------------------------------------------------------------
(***************************************************************************)
(* What the bar shows while the work is under way.                         *)
(***************************************************************************)

\* The percentage of a task that is under way does not go back in this step.
NoStepBack ==
  backend.state = "PROGRESS" /\ backend'.state = "PROGRESS" => backend'.percent >= backend.percent

\* Calls of one gather complete while none of the other is under way.
LEMMA WhereWork ==
  ASSUME ProgressInv
  PROVE  /\ Embedding => AtEmbedding
         /\ Captioning => AtCaptioning
  <1>1. AtCaptioning => InState(batch, "failed") = {}
    BY DEF AtCaptioning, Done, InState, ProgressInv, TypeOK
  <1>2. AtEmbedding => InState(figure, "failed") = {}
    BY DEF AtEmbedding, AllWaiting, InState
  <1>3. QED
    BY <1>1, <1>2 DEF ProgressInv, PhaseInv, Embedding, Captioning

\* Embedding some of the texts fills some of the band from 10 to 70.
LEMMA EmbedBand ==
  ASSUME NEW bs \in SUBSET Batches, bs # {}
  PROVE  /\ EmbedPercent(Cardinality(TextsOf(bs))) \in 10..70
         /\ EmbedPercent(Cardinality(TextsOf(bs))) = 70 => bs = Batches
         /\ \A cs \in SUBSET bs :
              EmbedPercent(Cardinality(TextsOf(cs))) <= EmbedPercent(Cardinality(TextsOf(bs)))
  <1>1. Texts \in Nat \ {0}
    <2>1. PICK b \in bs : TRUE
      OBVIOUS
    <2>2. b - 1 \in Nat /\ (b - 1) * BatchSize \in Nat /\ (b - 1) * BatchSize + 1 <= Texts
      BY BatchesFinite, ProgressAssumption
    <2>3. QED
      BY <2>2, ProgressAssumption
  <1>2. PICK n \in 0..Texts : n = Cardinality(TextsOf(bs)) /\ (n = Texts => bs = Batches)
    BY TextsCount
  <1>3. ShareOf(60, n, Texts) \in 0..60 /\ (ShareOf(60, n, Texts) = 60 => n = Texts)
    <2>1. 60 \in Nat \ {0}
      OBVIOUS
    <2>2. QED
      BY <1>1, <2>1, ShareBounds, Zenon
  <1>4. EmbedPercent(n) = 10 + ShareOf(60, n, Texts)
    BY DEF EmbedPercent, ShareOf
  <1>5. ASSUME NEW cs \in SUBSET bs
        PROVE  EmbedPercent(Cardinality(TextsOf(cs))) <= EmbedPercent(n)
    <2>1. cs \in SUBSET Batches
      OBVIOUS
    <2>2. PICK m \in 0..Texts : m = Cardinality(TextsOf(cs))
      BY <2>1, TextsCount
    <2>3. m <= n
      BY <1>2, <2>2, TextsCount
    <2>4. ShareOf(60, m, Texts) \in 0..60 /\ ShareOf(60, m, Texts) <= ShareOf(60, n, Texts)
      <3>1. 60 \in Nat \ {0} /\ 60 \in Nat /\ m \in Nat /\ n \in Nat
        BY ProgressAssumption
      <3>2. QED
        BY <1>1, <2>3, <3>1, ShareBounds, ShareGrows, Zenon
    <2>5. EmbedPercent(m) = 10 + ShareOf(60, m, Texts)
      BY DEF EmbedPercent, ShareOf
    <2>6. EmbedPercent(m) <= EmbedPercent(n)
      BY <1>3, <1>4, <2>4, <2>5
    <2>7. QED
      BY <2>2, <2>6
  <1>6. EmbedPercent(n) \in 10..70 /\ (EmbedPercent(n) = 70 => bs = Batches)
    BY <1>2, <1>3, <1>4
  <1>7. QED
    BY <1>2, <1>5, <1>6

\* Storing some of the figures fills some of the band from 70 to 88.
LEMMA CaptionBand ==
  ASSUME NEW fs \in SUBSET Captions, fs # {}
  PROVE  /\ CaptionPercent(Cardinality(fs)) \in 70..88
         /\ CaptionPercent(Cardinality(fs)) = 88 => fs = Captions
         /\ \A gs \in SUBSET fs :
              CaptionPercent(Cardinality(gs)) <= CaptionPercent(Cardinality(fs))
  <1>1. IsFiniteSet(Captions) /\ Cardinality(Captions) = Figures
    BY BatchesFinite
  <1>2. IsFiniteSet(fs) /\ Cardinality(fs) <= Figures /\ (Cardinality(fs) = Figures => fs = Captions)
    BY <1>1, FS_Subset
  <1>3. \A gs \in SUBSET fs : IsFiniteSet(gs) /\ Cardinality(gs) <= Cardinality(fs)
    BY <1>2, FS_Subset
  <1>4. \A gs \in SUBSET fs : Cardinality(gs) \in Nat
    BY <1>3, FS_CardinalityType
  <1>5. Cardinality(fs) # 0
    BY <1>2, FS_EmptySet
  <1>6. PICK n \in 0..Figures : n = Cardinality(fs)
    BY <1>2, <1>4, ProgressAssumption
  <1>7. Figures \in Nat \ {0} /\ (n = Figures => fs = Captions)
    BY <1>2, <1>5, <1>6, ProgressAssumption
  <1>8. ShareOf(18, n, Figures) \in 0..18 /\ (ShareOf(18, n, Figures) = 18 => n = Figures)
    <2>1. 18 \in Nat \ {0}
      OBVIOUS
    <2>2. QED
      BY <1>7, <2>1, ShareBounds, Zenon
  <1>9. CaptionPercent(n) = 70 + ShareOf(18, n, Figures)
    BY DEF CaptionPercent, ShareOf
  <1>10. ASSUME NEW gs \in SUBSET fs
         PROVE  CaptionPercent(Cardinality(gs)) <= CaptionPercent(n)
    <2>1. PICK m \in 0..Figures : m = Cardinality(gs) /\ m <= n
      BY <1>3, <1>4, <1>6, ProgressAssumption
    <2>2. ShareOf(18, m, Figures) \in 0..18 /\ ShareOf(18, m, Figures) <= ShareOf(18, n, Figures)
      <3>1. 18 \in Nat \ {0} /\ 18 \in Nat /\ m \in Nat /\ n \in Nat
        BY ProgressAssumption
      <3>2. QED
        BY <1>7, <2>1, <3>1, ShareBounds, ShareGrows, Zenon
    <2>3. CaptionPercent(m) = 70 + ShareOf(18, m, Figures)
      BY DEF CaptionPercent, ShareOf
    <2>4. CaptionPercent(m) <= CaptionPercent(n)
      BY <1>8, <1>9, <2>2, <2>3
    <2>5. QED
      BY <2>1, <2>4
  <1>11. CaptionPercent(n) \in 70..88 /\ (CaptionPercent(n) = 88 => fs = Captions)
    BY <1>7, <1>8, <1>9
  <1>12. QED
    BY <1>6, <1>10, <1>11

\* The bar before the figures is at most 70.
LEMMA EmbeddingShows ==
  ASSUME ProgressInv, AtEmbedding
  PROVE  /\ backend.percent \in 8..70
         /\ \A bs \in SUBSET Batches : bs # {} /\ Done \subseteq bs =>
              backend.percent <= EmbedPercent(Cardinality(TextsOf(bs)))
  <1>1. Done \in SUBSET Batches
    BY DEF ProgressInv, TypeOK, Done, InState
  <1>2. CASE backend.percent = 8
    <2>1. \A bs \in SUBSET Batches : bs # {} => EmbedPercent(Cardinality(TextsOf(bs))) \in 10..70
      BY EmbedBand
    <2>2. QED
      BY <1>2, <2>1
  <1>3. CASE Done # {} /\ backend.percent = EmbedPercent(Cardinality(TextsOf(Done)))
    <2>1. backend.percent \in 10..70
      BY <1>1, <1>3, EmbedBand
    <2>2. \A bs \in SUBSET Batches : bs # {} /\ Done \subseteq bs =>
            EmbedPercent(Cardinality(TextsOf(Done))) <= EmbedPercent(Cardinality(TextsOf(bs)))
      BY EmbedBand
    <2>3. QED
      BY <1>3, <2>1, <2>2
  <1>4. QED
    BY <1>2, <1>3 DEF AtEmbedding

\* The bar of the figures is between 70 and 88.
LEMMA CaptioningShows ==
  ASSUME ProgressInv, AtCaptioning
  PROVE  /\ backend.percent \in 70..88
         /\ \A fs \in SUBSET Captions : fs # {} /\ Stored \subseteq fs =>
              backend.percent <= CaptionPercent(Cardinality(fs))
  <1>1. Stored \in SUBSET Captions
    BY DEF ProgressInv, TypeOK, Stored, InState
  <1>2. CASE backend.percent = 70
    <2>1. \A fs \in SUBSET Captions : fs # {} => CaptionPercent(Cardinality(fs)) \in 70..88
      BY CaptionBand
    <2>2. QED
      BY <1>2, <2>1
  <1>3. CASE Stored # {} /\ backend.percent = CaptionPercent(Cardinality(Stored))
    <2>1. backend.percent \in 70..88
      BY <1>1, <1>3, CaptionBand
    <2>2. \A fs \in SUBSET Captions : fs # {} /\ Stored \subseteq fs =>
            CaptionPercent(Cardinality(Stored)) <= CaptionPercent(Cardinality(fs))
      BY CaptionBand
    <2>3. QED
      BY <1>3, <2>1, <2>2
  <1>4. QED
    BY <1>2, <1>3 DEF AtCaptioning

-----------------------------------------------------------------------------
(***************************************************************************)
(* Steps of the worker that no call makes.                                 *)
(***************************************************************************)

Reports(percent) == [state |-> "PROGRESS", percent |-> percent]

LEMMA GatheredType ==
  ASSUME returned \subseteq 1..Texts
  PROVE  Gathered \subseteq (1..Texts) \X (1..Texts)
  <1>1. ASSUME NEW t \in returned PROVE Place(t) \in 1..Texts
    <2> DEFINE before == {s \in returned : s <= t}
    <2>1. IsFiniteSet(1..Texts) /\ Cardinality(1..Texts) = Texts
      BY FS_Interval, ProgressAssumption
    <2>2. before \subseteq 1..Texts /\ {t} \subseteq before
      <3>1. t \in Int
        BY ProgressAssumption
      <3>2. t <= t
        BY <3>1
      <3>3. QED
        BY <3>2
    <2> HIDE DEF before
    <2>3. IsFiniteSet(before) /\ Cardinality(before) <= Texts
      BY <2>1, <2>2, FS_Subset
    <2>4. Cardinality({t}) <= Cardinality(before) /\ Cardinality({t}) = 1
      BY <2>2, <2>3, FS_Subset, FS_Singleton
    <2>5. Cardinality(before) \in Nat
      BY <2>3, FS_CardinalityType
    <2>6. Cardinality(before) \in 1..Texts
      BY <2>3, <2>4, <2>5, ProgressAssumption
    <2>7. QED
      BY <2>6 DEF Place, before
  <1>2. QED
    BY <1>1 DEF Gathered

\* The vector of a chunk is at its place if those of the chunks before it are
\* there, and none but its own.
LEMMA OwnPlace ==
  ASSUME returned \subseteq 1..Texts, vectors = Gathered, NEW n \in 1..Texts,
         1..n \subseteq returned
  PROVE  StoredWith(n) = {n}
  <1>1. IsFiniteSet(1..n) /\ Cardinality(1..n) = n /\ n \in Nat \ {0}
    BY FS_Interval, ProgressAssumption
  <1>2. IsFiniteSet(1..Texts) /\ \A s \in returned : s \in Nat \ {0}
    BY FS_Interval, ProgressAssumption
  <1>3. Place(n) = n
    <2>1. {s \in returned : s <= n} = 1..n
      <3>1. \A s : s \in returned /\ s <= n => s \in 1..n
        BY <1>1, <1>2
      <3>2. \A s : s \in 1..n => s \in returned /\ s <= n
        BY <1>1
      <3>3. QED
        BY <3>1, <3>2
    <2>2. QED
      BY <1>1, <2>1, Zenon DEF Place
  <1>4. ASSUME NEW t \in returned, Place(t) = n PROVE t = n
    <2>1. t \in Nat \ {0}
      BY ProgressAssumption
    <2> DEFINE before == {s \in returned : s <= t}
    <2>2. Cardinality(before) = n
      BY <1>4 DEF Place
    <2>3. CASE t < n
      <3>1. before \subseteq 1..t
        <4>1. \A s : s \in before => s \in Nat \ {0} /\ s <= t
          BY ProgressAssumption
        <4>2. t \in Nat
          BY <2>1
        <4> HIDE DEF before
        <4>3. QED
          BY <4>1, <4>2
      <3>2. IsFiniteSet(1..t) /\ Cardinality(1..t) = t
        BY <2>1, FS_Interval
      <3> HIDE DEF before
      <3>3. Cardinality(before) <= t
        BY <3>1, <3>2, FS_Subset
      <3>4. QED
        BY <1>1, <2>1, <2>2, <2>3, <3>3
    <2>4. CASE t > n
      <3>1. (1..n) \cup {t} \subseteq before
        BY <1>1, <2>1, <2>4
      <3>2. before \subseteq 1..Texts
        BY ProgressAssumption
      <3>3. t \notin 1..n
        BY <1>1, <2>1, <2>4
      <3> HIDE DEF before
      <3>4. Cardinality((1..n) \cup {t}) = n + 1
        BY <1>1, <3>3, FS_AddElement
      <3>5. n + 1 <= Cardinality(before)
        <4>1. IsFiniteSet(before)
          BY <1>2, <3>2, FS_Subset
        <4>2. Cardinality((1..n) \cup {t}) <= Cardinality(before)
          BY <3>1, <4>1, FS_Subset
        <4>3. QED
          BY <3>4, <4>2
      <3>6. QED
        BY <1>1, <2>2, <3>5
    <2>5. QED
      BY <1>1, <2>1, <2>3, <2>4
  <1>5. n \in returned
    BY <1>1
  <1>6. \A t \in 1..Texts : <<n, t>> \in vectors <=> t = n
    BY <1>3, <1>4, <1>5 DEF Gathered
  <1>7. QED
    BY <1>6 DEF StoredWith

LEMMA GatheredSame ==
  ASSUME UNCHANGED returned
  PROVE  Gathered' = Gathered
  BY DEF Gathered, Place

\* What the client knows stays true while the worker goes on.
LEMMA WorkStep ==
  ASSUME ProgressInv, UNCHANGED client,
         phase \in Running \cup {"queued"}, phase' \in Running \cup Final,
         batch' \in [Batches -> CallStates], figure' \in [Captions -> CallStates],
         (Cardinality(InState(batch, "sent")) <= EmbedSlots)',
         (Cardinality(InState(figure, "sent")) <= CaptionSlots)',
         arrived' \in Seq(Batches), returned' \subseteq 1..Texts,
         vectors' = vectors \/ vectors' = Gathered, Joined',
         committed' \in BOOLEAN, committed => committed',
         backend' \in [state : States, percent : 0..100],
         TellsTheEnd(backend)', PhaseInv', PercentIsEarned'
  PROVE  ProgressInv'
  <1>1. TypeOK'
    <2>1. vectors' \subseteq (1..Texts) \X (1..Texts)
      BY GatheredType DEF ProgressInv, TypeOK
    <2>2. phase' \in {"none", "queued"} \cup Running \cup Final
      OBVIOUS
    <2>3. /\ (poll \in [pc : {"none", "asking", "answered", "ended"}, left : 0..PollMax,
                        answer : [state : States, percent : 0..100]])'
          /\ (screen \in {"form", "queued", "processing", "live", "failed", "unknown",
                          "check back"})'
      BY DEF ProgressInv, TypeOK, client
    <2>4. QED
      BY <2>1, <2>2, <2>3 DEF TypeOK
  <1>2. Joined'
    OBVIOUS
  <1>3. ClientInv'
    <2>1. phase \notin {"failure", "lost"} /\ phase' # "none"
      BY DEF Running, Final
    <2>2. /\ poll' = poll /\ screen' = screen
          /\ poll.answer.state # "FAILURE" /\ screen # "failed"
          /\ poll.answer.state = "SUCCESS" => committed
          /\ screen = "live" => committed
          /\ poll.pc \in {"asking", "answered"} => poll.left >= 1
      BY <2>1 DEF ProgressInv, ClientInv, TellsTheEnd, ScreenIsTrue, client
    <2>3. QED
      BY <2>1, <2>2 DEF ClientInv, TellsTheEnd, ScreenIsTrue
  <1>4. QED
    BY <1>1, <1>2, <1>3 DEF ProgressInv

\* A step that leaves the calls as they are.
LEMMA NoCallMoves ==
  ASSUME UNCHANGED <<batch, figure>>
  PROVE  /\ Done' = Done /\ Stored' = Stored
         /\ \A s \in CallStates :
              /\ InState(batch', s) = InState(batch, s)
              /\ InState(figure', s) = InState(figure, s)
         /\ AllWaiting(batch)' <=> AllWaiting(batch)
         /\ AllWaiting(figure)' <=> AllWaiting(figure)
  BY DEF Done, Stored, InState, AllWaiting

LEMMA QuietStep ==
  ASSUME ProgressInv, UNCHANGED <<client, batch, arrived, returned, figure>>,
         phase \in Running \cup {"queued"}, phase' \in Running \cup Final,
         vectors' = vectors \/ vectors' = Gathered,
         committed' \in BOOLEAN, committed => committed',
         committed' => /\ phase' \in {"stored", "reported", "success", "failure", "lost"}
                       /\ committed \/ vectors = Gathered
                       /\ vectors' = vectors,
         backend' \in [state : States, percent : 0..100],
         TellsTheEnd(backend)', PhaseInv', PercentIsEarned'
  PROVE  ProgressInv'
  <1>1. /\ batch' \in [Batches -> CallStates] /\ figure' \in [Captions -> CallStates]
        /\ (Cardinality(InState(batch, "sent")) <= EmbedSlots)'
        /\ (Cardinality(InState(figure, "sent")) <= CaptionSlots)'
        /\ arrived' \in Seq(Batches) /\ returned' \subseteq 1..Texts
    BY DEF ProgressInv, TypeOK
  <1>2. Joined'
    BY GatheredSame DEF ProgressInv, Joined
  <1>3. QED
    BY <1>1, <1>2, WorkStep

LEMMA ReportType ==
  ASSUME NEW percent \in 0..100
  PROVE  /\ Reports(percent) \in [state : States, percent : 0..100]
         /\ Reports(percent).state = "PROGRESS" /\ Reports(percent).percent = percent
         /\ Publish(percent) <=> backend' = Reports(percent)
  BY DEF Reports, States, Publish

LEMMA StartSteps ==
  ASSUME ProgressInv, Start
  PROVE  ProgressInv' /\ NoStepBack
  <1>1. /\ phase = "queued" /\ phase' = "reading" /\ backend' = Reports(2)
        /\ UNCHANGED <<batch, arrived, returned, vectors, figure, committed, client>>
    BY DEF Start, Publish, Reports
  <1>2. NotBegun /\ backend = Pending
    BY <1>1 DEF ProgressInv, PhaseInv
  <1>3. /\ backend' \in [state : States, percent : 0..100]
        /\ backend'.state = "PROGRESS" /\ backend'.percent = 2
    BY <1>1, ReportType
  <1>4. PhaseInv'
    <2>1. NotBegun'
      BY <1>1, <1>2, NoCallMoves DEF NotBegun
    <2>2. QED
      BY <1>1, <2>1 DEF PhaseInv, Reports
  <1>5. TellsTheEnd(backend)' /\ PercentIsEarned'
    BY <1>3 DEF TellsTheEnd, PercentIsEarned
  <1>6. NoStepBack
    BY <1>2 DEF NoStepBack, Pending
  <1>7. ProgressInv'
    BY <1>1, <1>3, <1>4, <1>5, QuietStep DEF Running, ProgressInv, TypeOK, Joined
  <1>8. QED
    BY <1>6, <1>7

LEMMA ExtractSteps ==
  ASSUME ProgressInv, Extract
  PROVE  ProgressInv' /\ NoStepBack
  <1>1. /\ phase = "reading" /\ phase' = "embedding" /\ backend' = Reports(8)
        /\ UNCHANGED <<batch, arrived, returned, vectors, figure, committed, client>>
    BY DEF Extract, Publish, Reports
  <1>2. NotBegun /\ backend = Reports(2) /\ backend.percent = 2
    BY <1>1 DEF ProgressInv, PhaseInv, Reports
  <1>3. /\ backend' \in [state : States, percent : 0..100]
        /\ backend'.state = "PROGRESS" /\ backend'.percent = 8
    BY <1>1, ReportType
  <1>4. PhaseInv'
    <2>1. AtEmbedding'
      BY <1>1, <1>2, <1>3, NoCallMoves DEF NotBegun, AtEmbedding
    <2>2. InState(batch, "failed") = {}
      BY <1>2 DEF NotBegun, AllWaiting, InState
    <2>3. InState(batch', "failed") = {}
      BY <1>1, <2>2
    <2>4. QED
      BY <1>1, <2>1, <2>3 DEF PhaseInv
  <1>5. TellsTheEnd(backend)' /\ PercentIsEarned'
    BY <1>3 DEF TellsTheEnd, PercentIsEarned
  <1>6. NoStepBack
    BY <1>2, <1>3 DEF NoStepBack
  <1>7. ProgressInv'
    BY <1>1, <1>3, <1>4, <1>5, QuietStep DEF Running, ProgressInv, TypeOK, Joined
  <1>8. QED
    BY <1>6, <1>7

LEMMA FinishSteps ==
  ASSUME ProgressInv, FinishEmbedding
  PROVE  ProgressInv' /\ NoStepBack
  <1>1. /\ phase = "embedding" /\ phase' = "captioning" /\ backend' = Reports(70)
        /\ Done = Batches /\ vectors' = Gathered
        /\ UNCHANGED <<batch, arrived, returned, figure, committed, client>>
    BY DEF FinishEmbedding, Publish, Reports, Done
  <1>2. AtEmbedding
    BY <1>1 DEF ProgressInv, PhaseInv
  <1>3. /\ backend' \in [state : States, percent : 0..100]
        /\ backend'.state = "PROGRESS" /\ backend'.percent = 70
    BY <1>1, ReportType
  <1>4. PhaseInv'
    <2>1. AtCaptioning'
      BY <1>1, <1>3, NoCallMoves DEF AtCaptioning, Gathered, Place
    <2>2. InState(figure, "failed") = {}
      BY <1>2 DEF AtEmbedding, AllWaiting, InState
    <2>3. InState(figure', "failed") = {}
      BY <1>1, <2>2
    <2>4. QED
      BY <1>1, <2>1, <2>3 DEF PhaseInv
  <1>5. TellsTheEnd(backend)' /\ PercentIsEarned'
    BY <1>1, <1>3, NoCallMoves DEF TellsTheEnd, PercentIsEarned, Done
  <1>6. NoStepBack
    BY <1>2, <1>3, EmbeddingShows DEF NoStepBack
  <1>7. ProgressInv'
    BY <1>1, <1>3, <1>4, <1>5, QuietStep DEF Running, ProgressInv, TypeOK, Joined
  <1>8. QED
    BY <1>6, <1>7

LEMMA SaveSteps ==
  ASSUME ProgressInv, Save
  PROVE  ProgressInv' /\ NoStepBack
  <1>1. /\ phase = "captioning" /\ phase' = "saving" /\ backend' = Reports(88)
        /\ Stored = Captions
        /\ UNCHANGED <<batch, arrived, returned, vectors, figure, committed, client>>
    BY DEF Save, Publish, Reports, Stored
  <1>2. AtCaptioning
    BY <1>1 DEF ProgressInv, PhaseInv
  <1>3. /\ backend' \in [state : States, percent : 0..100]
        /\ backend'.state = "PROGRESS" /\ backend'.percent = 88
    BY <1>1, ReportType
  <1>4. AllStored'
    BY <1>1, <1>2, NoCallMoves DEF AtCaptioning, AllStored, Gathered, Place
  <1>5. PhaseInv'
    BY <1>1, <1>4 DEF PhaseInv, Reports
  <1>6. TellsTheEnd(backend)' /\ PercentIsEarned'
    BY <1>3, <1>4 DEF TellsTheEnd, PercentIsEarned, AllStored, Done, Stored
  <1>7. NoStepBack
    BY <1>2, <1>3, CaptioningShows DEF NoStepBack
  <1>8. ProgressInv'
    BY <1>1, <1>3, <1>5, <1>6, QuietStep DEF Running, ProgressInv, TypeOK, Joined
  <1>9. QED
    BY <1>7, <1>8

LEMMA CommitSteps ==
  ASSUME ProgressInv, Commit \/ ReportStored \/ Succeed
  PROVE  ProgressInv' /\ NoStepBack
  <1>1. /\ phase \in {"saving", "stored", "reported"}
        /\ phase' \in {"stored", "reported", "success"}
        /\ UNCHANGED <<batch, arrived, returned, vectors, figure, client>>
    BY DEF Commit, ReportStored, Succeed
  <1>2. committed' = TRUE
    BY DEF Commit, ReportStored, Succeed, ProgressInv, PhaseInv, TypeOK
  <1>3. AllStored
    BY <1>1 DEF ProgressInv, PhaseInv
  <1>4. AllStored'
    BY <1>1, <1>3, NoCallMoves DEF AllStored, Gathered, Place
  <1>5. /\ phase' = "stored" => backend' = Reports(88)
        /\ phase' = "reported" => backend' = Reports(100)
        /\ phase' = "success" => backend' = [state |-> "SUCCESS", percent |-> 100]
    BY DEF Commit, ReportStored, Succeed, Publish, ProgressInv, PhaseInv, Reports
  <1>6. /\ backend' \in [state : States, percent : 0..100]
        /\ backend'.state # "FAILURE"
        /\ backend'.percent \in {88, 100}
    <2>1. CASE phase' = "stored"
      BY <1>5, <2>1, ReportType
    <2>2. CASE phase' = "reported"
      BY <1>5, <2>2, ReportType
    <2>3. CASE phase' = "success"
      BY <1>5, <2>3 DEF States
    <2>4. QED
      BY <1>1, <2>1, <2>2, <2>3
  <1>7. PhaseInv'
    BY <1>1, <1>2, <1>4, <1>5 DEF PhaseInv, Reports
  <1>8. TellsTheEnd(backend)' /\ PercentIsEarned'
    BY <1>2, <1>4, <1>6 DEF TellsTheEnd, PercentIsEarned, AllStored, Done, Stored
  <1>9. NoStepBack
    <2>1. backend.percent \in {88, 100} /\ (phase' = "stored" => backend.percent = 88)
      BY <1>1 DEF ProgressInv, PhaseInv, Commit, ReportStored, Succeed
    <2>2. phase' # "stored" => backend'.percent = 100
      BY <1>1, <1>5 DEF Reports
    <2>3. QED
      BY <1>1, <1>6, <2>1, <2>2 DEF NoStepBack
  <1>10. ProgressInv'
    BY <1>1, <1>2, <1>3, <1>6, <1>7, <1>8, QuietStep DEF Running, Final, AllStored
  <1>11. QED
    BY <1>9, <1>10

\* A task that ends short of success leaves its last report, or a failure.
LEMMA StopSteps ==
  ASSUME ProgressInv, Fail \/ Die
  PROVE  ProgressInv' /\ NoStepBack
  <1>1. /\ phase \in Running /\ phase' \in {"failure", "lost"}
        /\ backend' = backend \/ backend' = [state |-> "FAILURE", percent |-> 0]
        /\ UNCHANGED <<batch, arrived, returned, vectors, figure, committed, client>>
    BY DEF Fail, Die
  <1>2. backend' \in [state : States, percent : 0..100]
    <2>1. [state |-> "FAILURE", percent |-> 0] \in [state : States, percent : 0..100]
      BY DEF States
    <2>2. QED
      BY <1>1, <2>1 DEF ProgressInv, TypeOK
  <1>3. PhaseInv'
    BY <1>1 DEF PhaseInv
  <1>4. TellsTheEnd(backend)'
    BY <1>1 DEF TellsTheEnd, ProgressInv, ClientInv
  <1>5. PercentIsEarned'
    <2>1. CASE backend' = backend
      BY <1>1, <2>1, NoCallMoves DEF ProgressInv, PercentIsEarned, Done, Stored
    <2>2. CASE backend' = [state |-> "FAILURE", percent |-> 0]
      BY <2>2 DEF PercentIsEarned
    <2>3. QED
      BY <1>1, <2>1, <2>2
  <1>6. NoStepBack
    <2>1. backend \in [state : States, percent : 0..100] /\ backend.percent \in Int
      <3>1. backend \in [state : States, percent : 0..100]
        BY DEF ProgressInv, TypeOK
      <3>2. QED
        BY <3>1
    <2>2. CASE backend' = backend
      BY <2>1, <2>2 DEF NoStepBack
    <2>3. CASE backend' = [state |-> "FAILURE", percent |-> 0]
      BY <2>3 DEF NoStepBack
    <2>4. QED
      BY <1>1, <2>2, <2>3
  <1>7. ProgressInv'
    BY <1>1, <1>2, <1>3, <1>4, <1>5, QuietStep DEF Final, ProgressInv, TypeOK
  <1>8. QED
    BY <1>6, <1>7

-----------------------------------------------------------------------------
(***************************************************************************)
(* Steps of the calls of one gather.                                       *)
(***************************************************************************)

\* The call for batch b comes into state s, and the bar shows p.
BatchMoves(b, s, p) ==
  /\ s \in CallStates /\ batch[b] \in {"waiting", "sent"} /\ batch[b] # s
  /\ batch' = [batch EXCEPT ![b] = s]
  /\ phase' = IF s = "failed" THEN "failing" ELSE phase
  /\ backend' = Reports(p)
  /\ p = IF s = "done" THEN EmbedPercent(Cardinality(TextsOf(Done \cup {b}))) ELSE backend.percent
  /\ UNCHANGED <<vectors, figure, committed, client>>

\* A call for a batch that moves on leaves the figures alone, and the work where
\* it is.
LEMMA BatchStep ==
  ASSUME ProgressInv, Embedding, NEW b \in Batches, NEW s,
         NEW p \in 0..100, BatchMoves(b, s, p),
         (Cardinality(InState(batch, "sent")) <= EmbedSlots)',
         arrived' \in Seq(Batches), returned' \subseteq 1..Texts
  PROVE  ProgressInv' /\ NoStepBack
  <1>0. /\ s \in CallStates /\ batch[b] \in {"waiting", "sent"} /\ batch[b] # s
        /\ batch' = [batch EXCEPT ![b] = s]
        /\ phase' = IF s = "failed" THEN "failing" ELSE phase
        /\ s = "done" => p = EmbedPercent(Cardinality(TextsOf(Done \cup {b})))
        /\ s # "done" => p = backend.percent
        /\ backend' = Reports(p)
        /\ UNCHANGED <<vectors, figure, committed, client>>
    BY DEF BatchMoves
  <1>a. /\ backend' \in [state : States, percent : 0..100]
         /\ backend'.state = "PROGRESS" /\ backend'.percent = p
    BY <1>0, ReportType
  <1>1. /\ AtEmbedding /\ batch \in [Batches -> CallStates]
        /\ phase \in {"embedding", "failing"}
        /\ phase = "embedding" => InState(batch, "failed") = {}
        /\ phase = "failing" => InState(batch, "failed") # {}
    BY WhereWork DEF Embedding, ProgressInv, TypeOK, PhaseInv
  <1>2. batch' \in [Batches -> CallStates]
    BY <1>0, <1>1
  <1>3. /\ Done' = IF s = "done" THEN Done \cup {b} ELSE Done
        /\ InState(batch', "failed") =
             IF s = "failed" THEN InState(batch, "failed") \cup {b} ELSE InState(batch, "failed")
    BY <1>0, <1>1 DEF Done, InState
  <1>4. Done \in SUBSET Batches /\ Done \cup {b} \in SUBSET Batches
    BY <1>1 DEF Done, InState
  <1>5. Stored' = Stored /\ (AllWaiting(figure)' <=> AllWaiting(figure))
    BY <1>0 DEF Stored, InState, AllWaiting
  <1>6. AtEmbedding'
    <2>1. AllWaiting(figure)' /\ vectors' = {} /\ backend'.state = "PROGRESS"
      BY <1>0, <1>a, <1>1, <1>5 DEF AtEmbedding
    <2>2. CASE s = "done"
      <3>1. Done' = Done \cup {b}
        BY <1>3, <2>2
      <3>2. backend'.percent = EmbedPercent(Cardinality(TextsOf(Done \cup {b})))
        BY <1>0, <1>a, <2>2, Zenon
      <3>3. (Done # {})' /\ (backend.percent = EmbedPercent(Cardinality(TextsOf(Done))))'
        BY <3>1, <3>2, Zenon
      <3>4. QED
        BY <2>1, <3>3 DEF AtEmbedding
    <2>3. CASE s # "done"
      <3>1. Done' = Done /\ backend'.percent = backend.percent
        BY <1>0, <1>a, <1>3, <2>3
      <3>2. QED
        BY <1>1, <2>1, <3>1 DEF AtEmbedding
    <2>4. QED
      BY <2>2, <2>3
  <1>7. PhaseInv'
    <2>1. CASE s = "failed"
      <3>1. phase' = "failing" /\ InState(batch', "failed") # {}
        BY <1>0, <1>3, <2>1
      <3>2. QED
        BY <1>6, <3>1 DEF PhaseInv
    <2>2. CASE s # "failed"
      <3>1. phase' = phase /\ InState(batch', "failed") = InState(batch, "failed")
        BY <1>0, <1>3, <2>2
      <3>2. QED
        BY <1>1, <1>6, <3>1 DEF PhaseInv
    <2>3. QED
      BY <2>1, <2>2
  <1>8. /\ backend.percent \in 8..70
        /\ backend.percent <= EmbedPercent(Cardinality(TextsOf(Done \cup {b})))
    BY <1>1, <1>4, EmbeddingShows
  <1>9. /\ EmbedPercent(Cardinality(TextsOf(Done \cup {b}))) \in 10..70
        /\ EmbedPercent(Cardinality(TextsOf(Done \cup {b}))) = 70 => Done \cup {b} = Batches
    BY <1>4, EmbedBand
  <1>10. p >= backend.percent /\ p \in 8..70
    <2>1. CASE s = "done"
      BY <1>0, <1>8, <1>9, <2>1
    <2>2. CASE s # "done"
      <3>1. p = backend.percent /\ backend.percent \in 8..70
        BY <1>0, <1>8, <2>2, Zenon
      <3>2. QED
        BY <3>1
    <2>3. QED
      BY <2>1, <2>2
  <1>11. p = 70 => Done' = Batches
    <2>1. CASE s = "done"
      BY <1>0, <1>3, <1>9, <2>1
    <2>2. CASE s # "done"
      <3>1. p = backend.percent /\ Done' = Done
        BY <1>0, <1>3, <2>2
      <3>2. backend.percent = 70 => Done = Batches
        BY <1>1 DEF AtEmbedding, ProgressInv, PercentIsEarned, Done
      <3>3. QED
        BY <3>1, <3>2
    <2>3. QED
      BY <2>1, <2>2
  <1>12. PercentIsEarned'
    <2>1. Done' = Batches => InState(batch', "done") = Batches
      BY DEF Done
    <2>2. ~ p >= 88 /\ p # 100 /\ (p >= 70 => p = 70)
      BY <1>10
    <2>3. QED
      BY <1>a, <1>11, <2>1, <2>2, Zenon DEF PercentIsEarned
  <1>13. TellsTheEnd(backend)'
    BY <1>a DEF TellsTheEnd
  <1>14. /\ phase \in Running /\ phase' \in Running
         /\ figure' \in [Captions -> CallStates]
         /\ (Cardinality(InState(figure, "sent")) <= CaptionSlots)'
         /\ committed' = FALSE
    BY <1>0, <1>1 DEF Running, ProgressInv, TypeOK, Joined
  <1>15. ProgressInv'
    <2>1. committed = FALSE
      BY <1>0, <1>14
    <2>2. Joined'
      BY <1>14 DEF Joined
    <2>3. QED
      BY <1>0, <1>a, <1>2, <1>7, <1>12, <1>13, <1>14, <2>1, <2>2, WorkStep
  <1>16. NoStepBack
    BY <1>a, <1>10 DEF NoStepBack
  <1>17. QED
    BY <1>15, <1>16

LEMMA BatchSteps ==
  ASSUME ProgressInv, NEW b \in Batches, SendBatch(b) \/ BatchDone(b) \/ BatchFails(b)
  PROVE  ProgressInv' /\ NoStepBack
  <1>1. /\ batch \in [Batches -> CallStates] /\ IsFiniteSet(Batches)
        /\ Cardinality(InState(batch, "sent")) <= EmbedSlots /\ EmbedSlots \in Nat
        /\ arrived \in Seq(Batches) /\ returned \subseteq 1..Texts
    BY BatchesFinite, ProgressAssumption DEF ProgressInv, TypeOK
  <1>2. Embedding => backend.percent \in 0..100 /\ backend = Reports(backend.percent)
    <2>1. backend \in [state : States, percent : 0..100]
      BY DEF ProgressInv, TypeOK
    <2>2. Embedding => backend.state = "PROGRESS"
      BY WhereWork DEF AtEmbedding
    <2>3. QED
      BY <2>1, <2>2 DEF Reports
  <1>3. CASE SendBatch(b)
    <2>1. /\ Embedding /\ batch[b] = "waiting" /\ batch' = [batch EXCEPT ![b] = "sent"]
          /\ Starts(batch, b, EmbedSlots)
          /\ UNCHANGED <<phase, arrived, returned, vectors, figure, committed, backend, client>>
      BY <1>3 DEF SendBatch, Starts
    <2>2. Cardinality(InState([batch EXCEPT ![b] = "sent"], "sent")) <= EmbedSlots
      BY <1>1, <2>1, CallStarts
    <2>3. (Cardinality(InState(batch, "sent")) <= EmbedSlots)'
      BY <2>1, <2>2
    <2>4. BatchMoves(b, "sent", backend.percent)
      BY <1>2, <2>1 DEF BatchMoves, CallStates
    <2>5. QED
      BY <1>1, <1>2, <2>1, <2>3, <2>4, BatchStep
  <1>4. CASE BatchDone(b)
    <2>1. /\ Embedding /\ batch[b] = "sent" /\ batch' = [batch EXCEPT ![b] = "done"]
          /\ arrived' = Append(arrived, b)
          /\ backend' = Reports(10 + (60 * Embedded(b)) \div Texts)
          /\ UNCHANGED <<phase, vectors, figure, committed, client>>
      BY <1>4 DEF BatchDone, Publish, Reports
    <2>2. Cardinality(InState([batch EXCEPT ![b] = "done"], "sent")) <= EmbedSlots
      BY <1>1, <2>1, CallEnds
    <2>3. (Cardinality(InState(batch, "sent")) <= EmbedSlots)'
      BY <2>1, <2>2
    <2>4. Done \cup {b} \in SUBSET Batches
      BY <1>1 DEF Done, InState
    <2>5. PICK p \in 10..70 : p = EmbedPercent(Cardinality(TextsOf(Done \cup {b})))
      BY <2>4, EmbedBand
    <2>6. backend' = Reports(p)
      BY <2>1, <2>5 DEF Embedded, EmbedPercent, Done
    <2>7. arrived' \in Seq(Batches) /\ returned' \subseteq 1..Texts
      <3>1. PICK short : returned' = returned \cup (TextsOf({b}) \ short)
        BY <1>4, Zenon DEF BatchDone
      <3>2. TextsOf({b}) \subseteq 1..Texts
        BY DEF TextsOf
      <3>3. returned' \subseteq 1..Texts
        BY <1>1, <3>1, <3>2
      <3>4. QED
        BY <1>1, <2>1, <3>3
    <2>8. BatchMoves(b, "done", p)
      BY <2>1, <2>5, <2>6 DEF BatchMoves, CallStates
    <2>9. QED
      <3>1. p \in 0..100
        OBVIOUS
      <3>2. QED
        BY <2>1, <2>3, <2>7, <2>8, <3>1, BatchStep
  <1>5. CASE BatchFails(b)
    <2>1. /\ Embedding /\ batch[b] = "sent" /\ batch' = [batch EXCEPT ![b] = "failed"]
          /\ phase' = "failing"
          /\ UNCHANGED <<arrived, returned, vectors, figure, committed, backend, client>>
      BY <1>5 DEF BatchFails, CallFails, Embedding
    <2>2. Cardinality(InState([batch EXCEPT ![b] = "failed"], "sent")) <= EmbedSlots
      BY <1>1, <2>1, CallEnds
    <2>3. (Cardinality(InState(batch, "sent")) <= EmbedSlots)'
      BY <2>1, <2>2
    <2>4. BatchMoves(b, "failed", backend.percent)
      BY <1>2, <2>1 DEF BatchMoves, CallStates
    <2>5. QED
      BY <1>1, <1>2, <2>1, <2>3, <2>4, BatchStep
  <1>6. QED
    BY <1>3, <1>4, <1>5

\* The call for figure f comes into state s, and the bar shows p.
FigureMoves(f, s, p) ==
  /\ s \in CallStates /\ figure[f] \in {"waiting", "sent"} /\ figure[f] # s
  /\ figure' = [figure EXCEPT ![f] = s]
  /\ phase' = IF s = "failed" THEN "failing" ELSE phase
  /\ backend' = Reports(p)
  /\ p = IF s = "done" THEN CaptionPercent(Cardinality(Stored \cup {f})) ELSE backend.percent
  /\ UNCHANGED <<batch, arrived, returned, vectors, committed, client>>

\* A call for a figure that moves on leaves the batches alone, and the work where
\* it is.
LEMMA FigureStep ==
  ASSUME ProgressInv, Captioning, NEW f \in Captions, NEW s,
         NEW p \in 0..100, FigureMoves(f, s, p),
         (Cardinality(InState(figure, "sent")) <= CaptionSlots)'
  PROVE  ProgressInv' /\ NoStepBack
  <1>0. /\ s \in CallStates /\ figure[f] \in {"waiting", "sent"} /\ figure[f] # s
        /\ figure' = [figure EXCEPT ![f] = s]
        /\ phase' = IF s = "failed" THEN "failing" ELSE phase
        /\ s = "done" => p = CaptionPercent(Cardinality(Stored \cup {f}))
        /\ s # "done" => p = backend.percent
        /\ backend' = Reports(p)
        /\ UNCHANGED <<batch, arrived, returned, vectors, committed, client>>
    BY DEF FigureMoves
  <1>a. /\ backend' \in [state : States, percent : 0..100]
        /\ backend'.state = "PROGRESS" /\ backend'.percent = p
    BY <1>0, ReportType
  <1>1. /\ AtCaptioning /\ figure \in [Captions -> CallStates]
        /\ phase \in {"captioning", "failing"}
        /\ phase = "captioning" => InState(figure, "failed") = {}
        /\ phase = "failing" => InState(figure, "failed") # {}
    BY WhereWork DEF Captioning, ProgressInv, TypeOK, PhaseInv
  <1>2. figure' \in [Captions -> CallStates]
    BY <1>0, <1>1
  <1>3. /\ Stored' = IF s = "done" THEN Stored \cup {f} ELSE Stored
        /\ InState(figure', "failed") =
             IF s = "failed" THEN InState(figure, "failed") \cup {f} ELSE InState(figure, "failed")
    BY <1>0, <1>1 DEF Stored, InState
  <1>4. Stored \in SUBSET Captions /\ Stored \cup {f} \in SUBSET Captions
    BY <1>1 DEF Stored, InState
  <1>5. Done' = Done /\ Done' = Batches
    BY <1>0, <1>1 DEF Done, InState, AtCaptioning
  <1>6. AtCaptioning'
    <2>1. Done' = Batches /\ (vectors = Gathered)' /\ backend'.state = "PROGRESS"
      BY <1>0, <1>a, <1>1, <1>5 DEF AtCaptioning, Gathered, Place
    <2>2. CASE s = "done"
      <3>1. Stored' = Stored \cup {f}
        BY <1>3, <2>2
      <3>2. backend'.percent = CaptionPercent(Cardinality(Stored \cup {f}))
        BY <1>0, <1>a, <2>2, Zenon
      <3>3. (Stored # {})' /\ (backend.percent = CaptionPercent(Cardinality(Stored)))'
        BY <3>1, <3>2, Zenon
      <3>4. QED
        BY <2>1, <3>3 DEF AtCaptioning
    <2>3. CASE s # "done"
      <3>1. Stored' = Stored /\ backend'.percent = backend.percent
        BY <1>0, <1>a, <1>3, <2>3
      <3>2. QED
        BY <1>1, <2>1, <3>1 DEF AtCaptioning
    <2>4. QED
      BY <2>2, <2>3
  <1>7. PhaseInv'
    <2>1. CASE s = "failed"
      <3>1. phase' = "failing" /\ InState(figure', "failed") # {}
        BY <1>0, <1>3, <2>1
      <3>2. QED
        BY <1>6, <3>1 DEF PhaseInv
    <2>2. CASE s # "failed"
      <3>1. phase' = phase /\ InState(figure', "failed") = InState(figure, "failed")
        BY <1>0, <1>3, <2>2
      <3>2. QED
        BY <1>1, <1>6, <3>1 DEF PhaseInv
    <2>3. QED
      BY <2>1, <2>2
  <1>8. /\ backend.percent \in 70..88
        /\ backend.percent <= CaptionPercent(Cardinality(Stored \cup {f}))
    BY <1>1, <1>4, CaptioningShows
  <1>9. /\ CaptionPercent(Cardinality(Stored \cup {f})) \in 70..88
        /\ CaptionPercent(Cardinality(Stored \cup {f})) = 88 => Stored \cup {f} = Captions
    BY <1>4, CaptionBand
  <1>10. p >= backend.percent /\ p \in 70..88
    <2>1. CASE s = "done"
      BY <1>0, <1>8, <1>9, <2>1
    <2>2. CASE s # "done"
      <3>1. p = backend.percent /\ backend.percent \in 70..88
        BY <1>0, <1>8, <2>2, Zenon
      <3>2. QED
        BY <3>1
    <2>3. QED
      BY <2>1, <2>2
  <1>11. p = 88 => Stored' = Captions
    <2>1. CASE s = "done"
      BY <1>0, <1>3, <1>9, <2>1
    <2>2. CASE s # "done"
      <3>1. p = backend.percent /\ Stored' = Stored
        BY <1>0, <1>3, <2>2
      <3>2. backend.percent = 88 => Stored = Captions
        BY <1>1 DEF AtCaptioning, ProgressInv, PercentIsEarned, Stored
      <3>3. QED
        BY <3>1, <3>2
    <2>3. QED
      BY <2>1, <2>2
  <1>12. PercentIsEarned'
    <2>1. /\ Stored' = Captions => InState(figure', "done") = Captions
          /\ InState(batch', "done") = Batches
      BY <1>5 DEF Stored, Done
    <2>2. p # 100 /\ (p >= 88 => p = 88)
      BY <1>10
    <2>3. QED
      BY <1>a, <1>11, <2>1, <2>2, Zenon DEF PercentIsEarned
  <1>13. TellsTheEnd(backend)'
    BY <1>a DEF TellsTheEnd
  <1>14. /\ phase \in Running /\ phase' \in Running
         /\ batch' \in [Batches -> CallStates]
         /\ (Cardinality(InState(batch, "sent")) <= EmbedSlots)'
         /\ arrived' \in Seq(Batches) /\ returned' \subseteq 1..Texts
         /\ committed' = FALSE
    BY <1>0, <1>1 DEF Running, ProgressInv, TypeOK, Joined
  <1>15. ProgressInv'
    <2>1. committed = FALSE
      BY <1>0, <1>14
    <2>2. Joined'
      BY <1>14 DEF Joined
    <2>3. QED
      BY <1>0, <1>a, <1>2, <1>7, <1>12, <1>13, <1>14, <2>1, <2>2, WorkStep
  <1>16. NoStepBack
    BY <1>a, <1>10 DEF NoStepBack
  <1>17. QED
    BY <1>15, <1>16

LEMMA FigureSteps ==
  ASSUME ProgressInv, NEW f \in Captions, SendFigure(f) \/ FigureDone(f) \/ FigureFails(f)
  PROVE  ProgressInv' /\ NoStepBack
  <1>1. /\ figure \in [Captions -> CallStates] /\ IsFiniteSet(Captions)
        /\ Cardinality(InState(figure, "sent")) <= CaptionSlots /\ CaptionSlots \in Nat
    BY BatchesFinite, ProgressAssumption DEF ProgressInv, TypeOK
  <1>2. Captioning => backend.percent \in 0..100 /\ backend = Reports(backend.percent)
    <2>1. backend \in [state : States, percent : 0..100]
      BY DEF ProgressInv, TypeOK
    <2>2. Captioning => backend.state = "PROGRESS"
      BY WhereWork DEF AtCaptioning
    <2>3. QED
      BY <2>1, <2>2 DEF Reports
  <1>3. CASE SendFigure(f)
    <2>1. /\ Captioning /\ figure[f] = "waiting" /\ figure' = [figure EXCEPT ![f] = "sent"]
          /\ Starts(figure, f, CaptionSlots)
          /\ UNCHANGED <<phase, batch, arrived, returned, vectors, committed, backend, client>>
      BY <1>3 DEF SendFigure, Starts
    <2>2. Cardinality(InState([figure EXCEPT ![f] = "sent"], "sent")) <= CaptionSlots
      BY <1>1, <2>1, CallStarts
    <2>3. (Cardinality(InState(figure, "sent")) <= CaptionSlots)'
      BY <2>1, <2>2
    <2>4. FigureMoves(f, "sent", backend.percent)
      BY <1>2, <2>1 DEF FigureMoves, CallStates
    <2>5. QED
      BY <1>2, <2>1, <2>3, <2>4, FigureStep
  <1>4. CASE FigureDone(f)
    <2>1. /\ Captioning /\ figure[f] = "sent" /\ figure' = [figure EXCEPT ![f] = "done"]
          /\ backend' = Reports(70 + (18 * Captioned(f)) \div Figures)
          /\ UNCHANGED <<phase, batch, arrived, returned, vectors, committed, client>>
      BY <1>4 DEF FigureDone, Publish, Reports
    <2>2. Cardinality(InState([figure EXCEPT ![f] = "done"], "sent")) <= CaptionSlots
      BY <1>1, <2>1, CallEnds
    <2>3. (Cardinality(InState(figure, "sent")) <= CaptionSlots)'
      BY <2>1, <2>2
    <2>4. Stored \cup {f} \in SUBSET Captions
      BY <1>1 DEF Stored, InState
    <2>5. PICK p \in 70..88 : p = CaptionPercent(Cardinality(Stored \cup {f}))
      BY <2>4, CaptionBand
    <2>6. backend' = Reports(p)
      BY <2>1, <2>5 DEF Captioned, CaptionPercent, Stored
    <2>7. FigureMoves(f, "done", p)
      BY <2>1, <2>5, <2>6 DEF FigureMoves, CallStates
    <2>8. QED
      <3>1. p \in 0..100
        OBVIOUS
      <3>2. QED
        BY <2>1, <2>3, <2>7, <3>1, FigureStep
  <1>5. CASE FigureFails(f)
    <2>1. /\ Captioning /\ figure[f] = "sent" /\ figure' = [figure EXCEPT ![f] = "failed"]
          /\ phase' = "failing"
          /\ UNCHANGED <<batch, arrived, returned, vectors, committed, backend, client>>
      BY <1>5 DEF FigureFails, CallFails, Captioning
    <2>2. Cardinality(InState([figure EXCEPT ![f] = "failed"], "sent")) <= CaptionSlots
      BY <1>1, <2>1, CallEnds
    <2>3. (Cardinality(InState(figure, "sent")) <= CaptionSlots)'
      BY <2>1, <2>2
    <2>4. FigureMoves(f, "failed", backend.percent)
      BY <1>2, <2>1 DEF FigureMoves, CallStates
    <2>5. QED
      BY <1>2, <2>1, <2>3, <2>4, FigureStep
  <1>6. QED
    BY <1>3, <1>4, <1>5

-----------------------------------------------------------------------------
(***************************************************************************)
(* Steps of the client.                                                    *)
(***************************************************************************)

\* The work rests: only the task may have been accepted.
WorkRests ==
  /\ UNCHANGED <<batch, arrived, returned, vectors, figure, committed, backend>>
  /\ phase' = phase \/ (phase = "none" /\ phase' = "queued")

LEMMA RestSteps ==
  ASSUME ProgressInv, WorkRests
  PROVE  PhaseInv' /\ PercentIsEarned' /\ Joined'
  <1>1. /\ UNCHANGED <<batch, arrived, returned, vectors, figure, committed, backend>>
        /\ phase' = phase \/ (phase = "none" /\ phase' = "queued")
    BY DEF WorkRests
  <1>2. PhaseInv'
    <2>1. /\ NotBegun' <=> NotBegun
          /\ AtEmbedding' <=> AtEmbedding
          /\ AtCaptioning' <=> AtCaptioning
          /\ AllStored' <=> AllStored
          /\ InState(batch', "failed") = InState(batch, "failed")
          /\ InState(figure', "failed") = InState(figure, "failed")
      <3>1. /\ NotBegun' <=> NotBegun
            /\ AllStored' <=> AllStored
        BY <1>1, NoCallMoves DEF NotBegun, AllStored, Gathered, Place
      <3>2. Done' = Done /\ Stored' = Stored
        BY <1>1, NoCallMoves
      <3>3. AtEmbedding' <=> AtEmbedding
        BY <1>1, <3>2, NoCallMoves DEF AtEmbedding
      <3>4. AtCaptioning' <=> AtCaptioning
        BY <1>1, <3>2 DEF AtCaptioning, Gathered, Place
      <3>5. QED
        BY <1>1, <3>1, <3>3, <3>4
    <2>2. CASE phase' = phase
      BY <1>1, <2>1, <2>2 DEF ProgressInv, PhaseInv
    <2>3. CASE phase = "none" /\ phase' = "queued"
      BY <1>1, <2>1, <2>3 DEF ProgressInv, PhaseInv
    <2>4. QED
      BY <1>1, <2>2, <2>3
  <1>3. PercentIsEarned' /\ Joined'
    BY <1>1, NoCallMoves, GatheredSame DEF ProgressInv, PercentIsEarned, Joined, Done, Stored
  <1>4. QED
    BY <1>2, <1>3

LEMMA ClientSteps ==
  ASSUME ProgressInv, Accept \/ Poll
  PROVE  ProgressInv' /\ UNCHANGED backend
  <1>1. /\ UNCHANGED <<batch, arrived, returned, vectors, figure, committed, backend>>
        /\ phase' = phase \/ (phase = "none" /\ phase' = "queued")
    BY DEF Accept, Poll, Answer, Unreachable, Show, worker
  <1>2. PhaseInv' /\ PercentIsEarned' /\ Joined'
    BY <1>1, RestSteps DEF WorkRests
  <1> DEFINE Polls == [pc : {"none", "asking", "answered", "ended"}, left : 0..PollMax,
                       answer : [state : States, percent : 0..100]]
  <1>4. poll \in Polls /\ backend \in [state : States, percent : 0..100]
    BY DEF ProgressInv, TypeOK
  <1>5. /\ poll' \in Polls
        /\ screen' \in {"form", "queued", "processing", "live", "failed", "unknown", "check back"}
        /\ ClientInv'
    <2>1. /\ TellsTheEnd(backend) /\ TellsTheEnd(poll.answer) /\ ScreenIsTrue
          /\ poll.pc \in {"asking", "answered"} => poll.left >= 1
          /\ phase = "none" => poll.pc = "none" /\ poll.left >= 1
      BY DEF ProgressInv, ClientInv
    <2>2. TellsTheEnd(backend)'
      BY <1>1, <2>1 DEF TellsTheEnd
    <2>3. CASE Accept
      <3>1. /\ phase = "none" /\ phase' = "queued"
            /\ poll' = [poll EXCEPT !.pc = "asking"] /\ screen' = "queued"
        BY <2>3 DEF Accept
      <3>2. /\ poll' \in Polls /\ poll'.pc = "asking" /\ poll'.left = poll.left
            /\ poll'.answer = poll.answer
        BY <1>4, <3>1
      <3>3. TellsTheEnd(poll.answer)'
        BY <1>1, <2>1, <3>1, <3>2 DEF TellsTheEnd
      <3>4. QED
        BY <2>1, <2>2, <3>1, <3>2, <3>3 DEF ClientInv, ScreenIsTrue
    <2>4. CASE Answer
      <3>1. /\ poll.pc = "asking" /\ phase' = phase /\ screen' = screen
            /\ poll' = [poll EXCEPT !.pc = "answered", !.answer = backend]
        BY <2>4 DEF Answer, worker
      <3>2. /\ poll' \in Polls /\ poll'.pc = "answered" /\ poll'.left = poll.left
            /\ poll'.answer = backend
        BY <1>4, <3>1
      <3>3. TellsTheEnd(poll.answer)'
        BY <1>1, <2>1, <3>1, <3>2 DEF TellsTheEnd
      <3>4. ScreenIsTrue'
        BY <1>1, <2>1, <3>1 DEF ScreenIsTrue
      <3>5. screen' \in {"form", "queued", "processing", "live", "failed", "unknown", "check back"}
        BY <3>1 DEF ProgressInv, TypeOK
      <3>6. QED
        BY <2>1, <2>2, <3>1, <3>2, <3>3, <3>4, <3>5 DEF ClientInv
    <2>5. CASE Unreachable
      <3>1. /\ poll.pc = "asking" /\ phase' = phase /\ screen' = "unknown"
            /\ poll' = [poll EXCEPT !.pc = "ended"]
        BY <2>5 DEF Unreachable, worker
      <3>2. poll' \in Polls /\ poll'.pc = "ended" /\ poll'.answer = poll.answer
        BY <1>4, <3>1
      <3>3. TellsTheEnd(poll.answer)'
        BY <1>1, <2>1, <3>1, <3>2 DEF TellsTheEnd
      <3>4. QED
        BY <2>1, <2>2, <3>1, <3>2, <3>3 DEF ClientInv, ScreenIsTrue
    <2>6. CASE Show /\ ShowOngoing
      <3>1. /\ poll.pc = "answered" /\ phase' = phase /\ screen' \in {"processing", "check back"}
            /\ poll' = [poll EXCEPT !.left = @ - 1,
                                    !.pc = IF poll.left = 1 THEN "ended" ELSE "asking"]
        BY <2>6 DEF Show, ShowOngoing, worker
      <3>2. poll.left \in 0..PollMax /\ poll.left >= 1
        BY <1>4, <2>1, <3>1
      <3>3. poll.left - 1 \in 0..PollMax /\ (poll.left # 1 => poll.left - 1 >= 1)
        BY <3>2, ProgressAssumption
      <3>4. /\ poll' \in Polls /\ poll'.left = poll.left - 1 /\ poll'.answer = poll.answer
            /\ poll'.pc = IF poll.left = 1 THEN "ended" ELSE "asking"
        BY <1>4, <3>1, <3>3
      <3>5. TellsTheEnd(poll.answer)'
        BY <1>1, <2>1, <3>1, <3>4 DEF TellsTheEnd
      <3>6. poll'.pc \in {"asking", "answered"} => poll'.left >= 1
        BY <3>3, <3>4
      <3>7. phase # "none"
        BY <2>1, <3>1
      <3>8. QED
        BY <2>2, <3>1, <3>4, <3>5, <3>6, <3>7 DEF ClientInv, ScreenIsTrue
    <2>7. CASE Show /\ ShowEnd
      <3>1. /\ poll.pc = "answered" /\ phase' = phase
            /\ poll.answer.state \in {"SUCCESS", "FAILURE"}
            /\ poll' = [poll EXCEPT !.pc = "ended"]
            /\ screen' = IF poll.answer.state = "FAILURE" THEN "failed" ELSE "live"
        BY <2>7 DEF Show, ShowEnd, worker
      <3>2. poll' \in Polls /\ poll'.pc = "ended" /\ poll'.answer = poll.answer
        BY <1>4, <3>1
      <3>3. TellsTheEnd(poll.answer)'
        BY <1>1, <2>1, <3>1, <3>2 DEF TellsTheEnd
      <3>4. ScreenIsTrue'
        BY <1>1, <2>1, <3>1 DEF ScreenIsTrue, TellsTheEnd
      <3>5. phase # "none"
        BY <2>1, <3>1
      <3>6. QED
        BY <2>2, <3>1, <3>2, <3>3, <3>4, <3>5 DEF ClientInv
    <2>8. QED
      BY <2>3, <2>4, <2>5, <2>6, <2>7 DEF Poll, Show
  <1>6. TypeOK'
    <2>1. /\ batch' \in [Batches -> CallStates] /\ figure' \in [Captions -> CallStates]
          /\ (Cardinality(InState(batch, "sent")) <= EmbedSlots)'
          /\ (Cardinality(InState(figure, "sent")) <= CaptionSlots)'
          /\ arrived' \in Seq(Batches)
          /\ returned' \subseteq 1..Texts /\ vectors' \subseteq (1..Texts) \X (1..Texts)
          /\ committed' \in BOOLEAN
          /\ backend' \in [state : States, percent : 0..100]
      BY <1>1 DEF ProgressInv, TypeOK
    <2>2. phase' \in {"none", "queued"} \cup Running \cup Final
      BY <1>1 DEF ProgressInv, TypeOK
    <2>3. QED
      BY <1>5, <2>1, <2>2 DEF TypeOK
  <1>7. QED
    BY <1>1, <1>2, <1>5, <1>6 DEF ProgressInv

-----------------------------------------------------------------------------
(***************************************************************************)
(* The theorems.                                                           *)
(***************************************************************************)

LEMMA ProgressInit == Init => ProgressInv
  <1> SUFFICES ASSUME Init PROVE ProgressInv
    OBVIOUS
  <1>1. InState(batch, "sent") = {} /\ InState(figure, "sent") = {}
    BY DEF Init, InState
  <1>2. Cardinality({}) = 0
    BY FS_EmptySet
  <1>3. Pending \in [state : States, percent : 0..100]
    BY DEF Pending, States
  <1>4. TypeOK
    <2>1. /\ Cardinality(InState(batch, "sent")) <= EmbedSlots
          /\ Cardinality(InState(figure, "sent")) <= CaptionSlots
      BY <1>1, <1>2, ProgressAssumption
    <2>2. batch \in [Batches -> CallStates] /\ figure \in [Captions -> CallStates]
      BY DEF Init, CallStates
    <2>3. arrived \in Seq(Batches) /\ returned = {} /\ vectors = {}
      BY DEF Init
    <2>4. poll \in [pc : {"none", "asking", "answered", "ended"}, left : 0..PollMax,
                    answer : [state : States, percent : 0..100]]
      BY <1>3, ProgressAssumption DEF Init
    <2>5. QED
      BY <1>3, <2>1, <2>2, <2>3, <2>4 DEF Init, TypeOK
  <1>5. PhaseInv
    BY DEF Init, PhaseInv, NotBegun, AllWaiting
  <1>6. PercentIsEarned /\ Joined
    BY DEF Init, PercentIsEarned, Joined, Pending
  <1>7. ClientInv
    BY ProgressAssumption DEF Init, ClientInv, TellsTheEnd, ScreenIsTrue, Pending
  <1>8. QED
    BY <1>4, <1>5, <1>6, <1>7 DEF ProgressInv

LEMMA ProgressStep ==
  ASSUME ProgressInv, [Next]_vars
  PROVE  ProgressInv' /\ NoStepBack
  <1>1. backend.percent \in Int
    <2>1. backend \in [state : States, percent : 0..100]
      BY DEF ProgressInv, TypeOK
    <2>2. QED
      BY <2>1
  <1>2. CASE Accept \/ Poll
    BY <1>1, <1>2, ClientSteps DEF NoStepBack
  <1>3. CASE Work
    <2>1. CASE Start \/ Extract \/ FinishEmbedding \/ Save
      BY <2>1, StartSteps, ExtractSteps, FinishSteps, SaveSteps
    <2>2. CASE Commit \/ ReportStored \/ Succeed \/ Fail \/ Die
      BY <2>2, CommitSteps, StopSteps
    <2>3. CASE \E b \in Batches : SendBatch(b) \/ BatchDone(b) \/ BatchFails(b)
      BY <2>3, BatchSteps
    <2>4. CASE \E f \in Captions : SendFigure(f) \/ FigureDone(f) \/ FigureFails(f)
      BY <2>4, FigureSteps
    <2>5. QED
      BY <1>3, <2>1, <2>2, <2>3, <2>4 DEF Work
  <1>4. CASE UNCHANGED vars
    <2>1. UNCHANGED <<phase, batch, arrived, returned, vectors, figure, committed, backend, poll, screen>>
      BY <1>4 DEF vars, worker, client
    <2>2. NoStepBack
      BY <1>1, <2>1 DEF NoStepBack
    <2>3. ProgressInv'
      <3>1. PhaseInv' /\ PercentIsEarned' /\ Joined'
        BY <2>1, RestSteps DEF WorkRests
      <3>2. TypeOK'
        BY <2>1 DEF ProgressInv, TypeOK, InState
      <3>3. ClientInv'
        BY <2>1 DEF ProgressInv, ClientInv, TellsTheEnd, ScreenIsTrue
      <3>4. QED
        BY <3>1, <3>2, <3>3 DEF ProgressInv
    <2>4. QED
      BY <2>2, <2>3
  <1>5. QED
    BY <1>2, <1>3, <1>4 DEF Next

LEMMA ProgressAlways == Spec => []ProgressInv
  <1>1. ProgressInv /\ [Next]_vars => ProgressInv'
    BY ProgressStep
  <1>2. QED
    BY <1>1, ProgressInit, PTL DEF Spec

\* The work, the reports and the screen are well formed, and no more calls are in
\* flight than a semaphore has slots, for any number of calls and slots.
THEOREM ProgressTypeCorrect == Spec => []TypeOK
  <1>1. ProgressInv => TypeOK
    BY DEF ProgressInv
  <1>2. QED
    BY <1>1, ProgressAlways, PTL

\* A chunk is stored with its own vector, in whatever order the batches came back,
\* if the answers of the embedder left out no chunk up to it: for any number of
\* chunks, any size of batch and any chunks left out.
THEOREM VectorsGoWithTexts == Spec => []VectorsMatchTexts
  <1>1. ProgressInv => VectorsMatchTexts
    BY OwnPlace DEF ProgressInv, TypeOK, Joined, VectorsMatchTexts
  <1>2. QED
    BY <1>1, ProgressAlways, PTL

\* The percentage never says more than what is done, for any number of texts and
\* figures and any size of a batch, rounding included.
THEOREM BarIsEarned == Spec => []PercentIsEarned
  <1>1. ProgressInv => PercentIsEarned
    BY DEF ProgressInv
  <1>2. QED
    BY <1>1, ProgressAlways, PTL

\* A manual shown as live is live, and one shown as failed has ended without
\* success, however late an answer is.
THEOREM ScreenTellsTheTruth == Spec => []ScreenIsTrue
  <1>1. ProgressInv => ScreenIsTrue
    BY DEF ProgressInv, ClientInv
  <1>2. QED
    BY <1>1, ProgressAlways, PTL

\* The bar never goes back, in whatever order calls complete, also after one of
\* them has failed.
THEOREM BarNeverGoesBack == Spec => PercentNeverGoesBack
  <1>1. ProgressInv /\ [Next]_vars =>
          [backend.state = "PROGRESS" /\ backend'.state = "PROGRESS"
             => backend'.percent >= backend.percent]_vars
    BY ProgressStep DEF NoStepBack
  <1>2. QED
    BY <1>1, ProgressAlways, PTL DEF Spec, PercentNeverGoesBack

=============================================================================
