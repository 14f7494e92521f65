----------------------------- MODULE Retrieval -----------------------------
(***************************************************************************)
(* What becomes of the hits of the two searches (retrieval/service.py,     *)
(* fusion.py, rerank.py), of the confidence that decides whether a model   *)
(* is asked (answers/confidence.py), and of the citations in its answer    *)
(* (answers/composer.py, _resolve_citations).                              *)
(*                                                                         *)
(* The algorithm is deterministic; its inputs are not.  The index may      *)
(* change between the two searches and its nearest-neighbour search is     *)
(* approximate, so the lists of hits are any lists the searches can order. *)
(* Scores are exact: relevance in hundredths, final scores in              *)
(* ten-thousandths.                                                        *)
(***************************************************************************)
EXTENDS Naturals, Sequences, FiniteSets, SequencesExt

CONSTANTS
  Manuals,   \* chunks of manuals
  Fixes,     \* chunks of approved fixes
  Levels,    \* the relevances, (cosine + 1) / 2, that a chunk may have
  Limit,     \* hits of one search
  Pool,      \* CANDIDATE_POOL
  TopK,      \* results
  Unit,      \* scores of fusion are in units of 1 / Unit, which makes them whole
  IdOf       \* the digits of a chunk's id

Chunks == Manuals \cup Fixes

RRF_K == 60

ASSUME RetrievalAssumption ==
  /\ Manuals \cap Fixes = {}
  /\ Levels \subseteq 0..100
  /\ Limit \in Nat /\ Pool \in Nat \ {0} /\ TopK \in Nat \ {0}
  /\ Unit \in Nat \ {0} /\ \A rank \in 1..Limit : Unit % (RRF_K + rank) = 0
  /\ IdOf \in [Chunks -> Seq(0..15)]
  /\ \A c, d \in Chunks : Len(IdOf[c]) = Len(IdOf[d]) /\ (IdOf[c] = IdOf[d] => c = d)

VARIABLES
  relevance,   \* of each chunk to the question
  vec,         \* vec_hits
  kw,          \* kw_hits
  candidates,  \* the pool that is reranked
  results,     \* the chunks the answer is composed from, best first
  stage

vars == <<relevance, vec, kw, candidates, results, stage>>

-----------------------------------------------------------------------------
\* The different elements of a list, in the order of Python's sort by a key, the highest
\* first: elements with equal keys stay in the order they were first met.
Ahead(s, key, x, y) ==
  \/ key[x] > key[y]
  \/ key[x] = key[y] /\ \E i \in DOMAIN s : s[i] = x /\ \A j \in 1..i : s[j] # y

Sorted(s, key) ==
  [n \in 1..Cardinality(Range(s)) |->
     CHOOSE x \in Range(s) : Cardinality({y \in Range(s) : Ahead(s, key, y, x)}) = n - 1]

First(s, n) == IF Len(s) <= n THEN s ELSE SubSeq(s, 1, n)

\* 1 / (60 + rank), for a chunk in the list.
Reciprocal(list, c) ==
  IF \E i \in DOMAIN list : list[i] = c
  THEN Unit \div (RRF_K + CHOOSE i \in DOMAIN list : list[i] = c) ELSE 0

\* slip: assigned, not added
FusionScore_Last(c) == IF Reciprocal(kw, c) > 0 THEN Reciprocal(kw, c) ELSE Reciprocal(vec, c)

FusionScore(c) == Reciprocal(vec, c) + Reciprocal(kw, c)

\* reciprocal_rank_fusion: all the hits, in the order they were first met.
Fused == LET met == vec \o kw IN Sorted(met, [c \in Range(met) |-> FusionScore(c)])

\* slip: the boost left out
Boosted_Never(c) == 100 * relevance[c]

\* apply_field_fix_boost
Boosted(c) == IF c \in Fixes THEN 115 * relevance[c] ELSE 100 * relevance[c]

\* slip: the cut to the best eight comes before the boost
Ranked_CutFirst ==
  LET reranked == First(Sorted(candidates, relevance), TopK)
  IN Sorted(reranked, [c \in Range(reranked) |-> Boosted(c)])

\* rerank, the boost, and the order that search returns.
Ranked ==
  LET reranked == Sorted(candidates, relevance)
  IN First(Sorted(reranked, [c \in Range(reranked) |-> Boosted(c)]), TopK)

\* confidence_band of the first result.
Band ==
  IF results = <<>> THEN "low"
  ELSE LET top == Boosted(results[1])
       IN IF top >= 7000 THEN "high" ELSE IF top >= 4500 THEN "medium" ELSE "low"

-----------------------------------------------------------------------------
\* Citations: the digits a model wrote, all of an id or the beginning of one.

\* slip: the first source that fits
Resolves_First(token, c) ==
  \E n \in DOMAIN results :
    /\ results[n] = c /\ IsPrefix(token, IdOf[c])
    /\ \A i \in 1..(n - 1) : ~ IsPrefix(token, IdOf[results[i]])

\* _resolve_citations: the source that has the id, or the only one it begins.
Resolves(token, c) ==
  /\ c \in Range(results)
  /\ \/ token = IdOf[c]
     \/ {d \in Range(results) : IsPrefix(token, IdOf[d])} = {c}

-----------------------------------------------------------------------------
\* The lists of at most n different elements of S.
Lists(S, n) == {s \in SeqOf(S, n) : IsInjective(s)}

Init ==
  /\ relevance \in [Chunks -> Levels]
  /\ vec = <<>> /\ kw = <<>> /\ candidates = <<>> /\ results = <<>>
  /\ stage = "embedded"

\* The nearest chunks, nearest first: the same cosine the reranker computes.
SearchVector ==
  /\ stage = "embedded"
  /\ \E hits \in Lists(Chunks, Limit) :
       /\ \A i, j \in DOMAIN hits : i < j => relevance[hits[i]] >= relevance[hits[j]]
       /\ vec' = hits
  /\ stage' = "vector"
  /\ UNCHANGED <<relevance, kw, candidates, results>>

\* The best matches of the words, in the order of ts_rank.
SearchKeyword ==
  /\ stage = "vector"
  /\ \E hits \in Lists(Chunks, Limit) : kw' = hits
  /\ stage' = "found"
  /\ UNCHANGED <<relevance, vec, candidates, results>>

\* slip: the pool is not cut
Fuse_Uncut ==
  /\ stage = "found"
  /\ candidates' = Fused
  /\ stage' = "fused"
  /\ UNCHANGED <<relevance, vec, kw, results>>

Fuse ==
  /\ stage = "found"
  /\ candidates' = First(Fused, Pool)
  /\ stage' = "fused"
  /\ UNCHANGED <<relevance, vec, kw, results>>

Rank ==
  /\ stage = "fused"
  /\ results' = Ranked
  /\ stage' = "ranked"
  /\ UNCHANGED <<relevance, vec, kw, candidates>>

Next == SearchVector \/ SearchKeyword \/ Fuse \/ Rank

Spec == Init /\ [][Next]_vars

-----------------------------------------------------------------------------
\* The lists are lists of different chunks within their limits.
TypeOK ==
  /\ relevance \in [Chunks -> Levels]
  /\ \A s \in {vec, kw, candidates, results} : s \in Seq(Chunks) /\ IsInjective(s)
  /\ Len(vec) <= Limit /\ Len(kw) <= Limit /\ Len(candidates) <= Pool /\ Len(results) <= TopK
  /\ stage \in {"embedded", "vector", "found", "fused", "ranked"}

\* The chunk c is in every list d is in, and before d there.
BetterEverywhere(c, d) ==
  /\ c # d
  /\ \A list \in {vec, kw} :
       \A j \in DOMAIN list : list[j] = d => \E i \in 1..(j - 1) : list[i] = c

\* Fusion never prefers a hit to one that both searches put before it: the one is
\* not left out of the pool while the other is kept, and comes first in it
\* (fusion.py:16-32).
FusionFollowsSearches ==
  stage = "fused" =>
    \A n \in DOMAIN candidates, c \in Range(vec) \cup Range(kw) :
      BetterEverywhere(c, candidates[n]) => \E i \in 1..(n - 1) : candidates[i] = c

\* The moat: among what was reranked, a fix at least as relevant as a manual's chunk
\* in the results is there too, and before it (service.py:62-64).
FixesFirst ==
  stage = "ranked" =>
    \A n \in DOMAIN results, f \in Fixes \cap Range(candidates) :
      results[n] \in Manuals /\ relevance[f] >= relevance[results[n]] /\ relevance[f] > 0
        => \E i \in 1..(n - 1) : results[i] = f

\* A question is escalated unasked exactly when nothing in the pool, boost
\* included, reaches the threshold: the order and the cuts never hide a chunk that
\* would have let it be answered (service.py:95-107, confidence.py:18-29).
EscalatesWhenNothingReaches ==
  stage = "ranked" =>
    (Band = "low" <=> \A c \in Range(candidates) : Boosted(c) < 4500)

\* Whatever source a citation abbreviates, it resolves to that source or is
\* refused; written in full it resolves (composer.py:84-105).
PointsAtWhatWasMeant ==
  stage = "ranked" =>
    \A c \in Range(results) :
      /\ Resolves(IdOf[c], c)
      /\ \A n \in 1..Len(IdOf[c]), d \in Range(results) :
           Resolves(SubSeq(IdOf[c], 1, n), d) => d = c

=============================================================================
