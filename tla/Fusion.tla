------------------------------- MODULE Fusion -------------------------------
(***************************************************************************)
(* Reciprocal rank fusion and the order of results.  A document is a        *)
(* number, its place in the order of `collection/path`; a ranked list is a  *)
(* sequence of documents, in which one may occur once per chunk.  Scores    *)
(* are in units of 1/Scale, where Scale makes every 1/(K + rank) whole.     *)
(***************************************************************************)
EXTENDS Integers, Places

CONSTANT Scale

ASSUME ScaleType == Scale \in Nat /\ Scale % 100 = 0

RRF_K == 60

\* The first occurrence of each document.
dedupe_by_filepath(list) ==
  Picked(list, {i \in DOMAIN list : \A j \in 1..(i - 1) : list[j] # list[i]})

\* The place of d in a list without repetitions; 0 for the first.
RankIn(list, d) == (CHOOSE i \in DOMAIN list : list[i] = d) - 1

Fused(lists) == UNION {ToSet(lists[i].docs) : i \in DOMAIN lists}

rrf_weights(list) == IF list.original THEN 2 ELSE 1

\* What list i adds to the score of d.
Contribution(lists, i, d) ==
  LET once == dedupe_by_filepath(lists[i].docs)
  IN  IF d \notin ToSet(once) THEN 0
      ELSE (rrf_weights(lists[i]) * Scale) \div (RRF_K + RankIn(once, d) + 1)

Bonus(lists, d) ==
  LET ranks == {RankIn(dedupe_by_filepath(lists[i].docs), d) :
                  i \in {j \in DOMAIN lists : d \in ToSet(lists[j].docs)}}
  IN  IF Min(ranks) = 0 THEN Scale \div 20
      ELSE IF Min(ranks) <= 2 THEN Scale \div 50 ELSE 0

\* What the first lists add to it, one after the other.
Added(lists, d) ==
  LET upto[n \in 0..Len(lists)] == IF n = 0 THEN 0 ELSE upto[n - 1] + Contribution(lists, n, d)
  IN  upto[Len(lists)]

rrf_score(lists, d) == Added(lists, d) + Bonus(lists, d)

NotFinite == -1       \* the score NaN, which compares equal to every score

\* Score descending, then path.
score_desc_then_path(a, b, score) ==
  IF NotFinite \in {score[a], score[b]} \/ score[a] = score[b] THEN a < b ELSE score[a] > score[b]

InOrder(s, score) ==
  \A i, j \in DOMAIN s : i < j => score_desc_then_path(s[i], s[j], score)

\* Sorting only moves results about.  They are in order afterwards when they
\* can be: with a score that is not finite the comparison may run in a circle.
Ordered(docs, score) ==
  CHOOSE s \in SetToSeqs(docs) : (\E r \in SetToSeqs(docs) : InOrder(r, score)) => InOrder(s, score)

rrf_scores(lists) == [d \in Fused(lists) |-> rrf_score(lists, d)]

reciprocal_rank_fusion(lists) == Ordered(Fused(lists), rrf_scores(lists))
=============================================================================
