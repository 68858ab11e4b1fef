----------------------------- MODULE Neighbours -----------------------------
(***************************************************************************)
(* Search by vectors: `rqmd vsearch` widens the pool of nearest vectors     *)
(* until it leads to enough documents, and `rqmd similar` looks around each *)
(* chunk of a document (crates/rqmd-core/src/store.rs, db.rs), while an     *)
(* update writes the database.                                              *)
(*                                                                          *)
(* Vectors are points 1, 2, ... on a line with the query at 0, so that the  *)
(* nearest are those of least distance; documents are numbered in the order *)
(* of (collection, path).  The ANN search is taken to be exact.             *)
(***************************************************************************)
EXTENDS Integers, Places

CONSTANTS
  Situations,  \* the stores: where each vector comes from (vecs), and rows
  Points,      \* how many vectors the index holds
  CollectionOf,\* the collection of each document
  TooBig,      \* the contents longer than any cap
  Cuts,        \* the offsets at which each document's path cuts each content
  Searches,    \* the searches: kind, doc, limit, scope, per_file
  RuleSets,    \* exclusion rules: ignored documents and capped collections
  AgeWeights,  \* {} for no weighting, or <<the recent documents>> in a set
  OverFetch,   \* 4 in the code: vectors fetched per result wanted
  SourceCap,   \* SIMILAR_MAX_CHUNKS
  AgePool,     \* recency_pool of each limit
  Writes       \* bound: writes by the update

ASSUME NearTypes ==
  /\ {Points, OverFetch, SourceCap} \subseteq Nat \ {0}
  /\ DOMAIN CollectionOf \subseteq Nat /\ IsFiniteSet(DOMAIN CollectionOf)
  /\ \A d \in DOMAIN CollectionOf : \A c \in DOMAIN Cuts[d] : Cuts[d][c] \subseteq Nat
  /\ \A s \in Situations :
       /\ DOMAIN s.rows = DOMAIN CollectionOf
       /\ \A d \in DOMAIN s.rows : s.rows[d].content \in DOMAIN Cuts[d] \cup {"none"}
       /\ \A v \in 1 .. Points :
            s.vecs[v] # <<>> => /\ s.vecs[v] = <<s.vecs[v][1], s.vecs[v][2]>>
                                /\ s.vecs[v][1] # "none" /\ s.vecs[v][2] \in Nat
  /\ \A s \in Searches :
       /\ {s.limit, s.per_file} \subseteq Nat \ {0}
       /\ \/ s.kind = "vsearch" /\ AgePool[s.limit] \in Nat
          \/ s.kind = "similar" /\ s.scope = {}

VARIABLES
  vecs,    \* the <<content, offset>> of each vector; <<>> for one without a row
  row,     \* the row of each document: its content, and whether it is active
  ask,     \* the search, its rules and its weighting
  k,       \* how many vectors it fetches
  byDoc,   \* the documents reached, with the vectors that led to each
  picks,   \* the sections chosen
  results, \* those whose text has been read
  stage,   \* "idle", "pass", "rank", "read" or "done"
  writes   \* writes so far

nearVars == <<vecs, row, ask, k, byDoc, picks, results, stage, writes>>

Vids == 1 .. Points
Documents == DOMAIN CollectionOf
Distance(a, b) == IF a < b THEN b - a ELSE a - b

\* hnsw.search: the n nearest, the lower of two equally near first.
search(from, n) ==
  {v \in Vids : Cardinality({w \in Vids : \/ Distance(from, w) < Distance(from, v)
                                          \/ (Distance(from, w) = Distance(from, v)
                                              /\ w < v)}) < n}

\* A rule of its collection keeps a document, with this content, from the
\* vectors: a glob on its path, or a cap on its text.
reason(d, content) ==
  \/ d \in ask.rules.ignored
  \/ CollectionOf[d] \in ask.rules.capped /\ content \in TooBig

Candidates(vid, scope) ==
  {d \in Documents : /\ vecs[vid] # <<>> /\ row[d].active /\ row[d].content = vecs[vid][1]
                     /\ scope = {} \/ CollectionOf[d] \in scope}

\* The document a vector stands for, if any: of the active ones with its
\* content, in scope and not excluded, the first by collection and path.
doc_chunk_for_vid_in_excluding(vid, scope) ==
  LET kept == {d \in Candidates(vid, scope) : ~reason(d, vecs[vid][1])}
  IN IF kept = {} THEN {} ELSE {Min(kept)}

Reached(hits, scope) ==
  [d \in UNION {doc_chunk_for_vid_in_excluding(v, scope) : v \in hits} |->
     {v \in hits : d \in doc_chunk_for_vid_in_excluding(v, scope)}]

-----------------------------------------------------------------------------
(* vsearch. *)

wanted == IF ask.fresh = {} THEN ask.limit ELSE AgePool[ask.limit]

\* Variant: the pool is fetched once.
fetch_once(found) == TRUE

\* Enough documents, or every vector looked at.
Enough(found) == Cardinality(DOMAIN found) >= wanted \/ k >= Points

Widened(n) == Min({2 * n, Points})

\* One widening pass: search, and look every vector up.
Pass ==
  /\ stage = "pass" /\ ask.kind = "vsearch"
  /\ LET found == Reached(search(0, k), ask.scope)
     IN /\ byDoc' = found
        /\ IF Enough(found) THEN stage' = "rank" /\ UNCHANGED k
           ELSE k' = Widened(k) /\ UNCHANGED stage
  /\ UNCHANGED <<vecs, row, ask, picks, results, writes>>

\* Similarity of two vectors, the query being one at 0.
Nearness(v, w) == 2 * Points - Distance(v, w)
Weight(d) == IF ask.fresh # {} /\ d \in UNION ask.fresh THEN 2 ELSE 1

\* Of the vectors that led to a document, the nearest for each offset.
OnePerChunk(hits) == {v \in hits : \A w \in hits : vecs[w] = vecs[v] => v <= w}
RankIn(v, hits) == Cardinality({w \in OnePerChunk(hits) : w <= v})
BestHits(hits) == {v \in OnePerChunk(hits) : RankIn(v, hits) <= ask.per_file}

PicksOf(d, hits) ==
  {[doc |-> d, rank |-> RankIn(v, hits), score |-> Weight(d) * Nearness(v, 0),
    content |-> vecs[v][1], pos |-> vecs[v][2]] : v \in BestHits(hits)}
AllPicks(found) == UNION {PicksOf(d, found[d]) : d \in DOMAIN found}

\* Equal scores fall by path, then by rank.
Outranks(a, b) ==
  \/ a.score > b.score
  \/ a.score = b.score /\ (a.doc < b.doc \/ (a.doc = b.doc /\ a.rank < b.rank))

Best(S, n) == LET sorted == Sorted(S, {pq \in S \X S : Outranks(pq[1], pq[2])})
              IN SubSeq(sorted, 1, Min({n, Len(sorted)}))

Rank ==
  /\ stage = "rank"
  /\ picks' = Best(AllPicks(byDoc), ask.limit)
  /\ stage' = "read"
  /\ UNCHANGED <<vecs, row, ask, k, byDoc, results, writes>>

\* The chunk that starts nearest to an offset; the first of two as near.
nearest_chunk(cuts, pos) ==
  IF cuts = {} THEN 0
  ELSE Min({c \in cuts : \A e \in cuts : Distance(c, pos) <= Distance(e, pos)})

\* What the row holds now: its text stays when it becomes inactive.
CutsNow(d) == IF row[d].content = "none" THEN {} ELSE Cuts[d][row[d].content]

\* Each survivor's text is read, and its chunk found by the stored offset.
ReadText ==
  /\ stage = "read" /\ Len(results) < Len(picks)
  /\ LET p == picks[Len(results) + 1]
     IN results' = Append(results,
          [doc |-> p.doc, content |-> p.content, text |-> row[p.doc].content,
           pos |-> IF ask.kind = "similar" THEN 0 ELSE nearest_chunk(CutsNow(p.doc), p.pos)])
  /\ UNCHANGED <<vecs, row, ask, k, byDoc, picks, stage, writes>>

Finish ==
  /\ stage = "read" /\ Len(results) = Len(picks)
  /\ stage' = "done"
  /\ UNCHANGED <<vecs, row, ask, k, byDoc, picks, results, writes>>

-----------------------------------------------------------------------------
(* similar. *)

\* Vectors are stored in the order of their chunks.
vids_for_hash(content) ==
  {v \in Vids : vecs[v] # <<>> /\ vecs[v][1] = content}
Sources(content) ==
  {v \in vids_for_hash(content) :
     Cardinality({w \in vids_for_hash(content) : vecs[w][2] < vecs[v][2]}) < SourceCap}

SimilarPool(content) ==
  Min({Points, Max({ask.limit * OverFetch + Cardinality(Sources(content)), ask.limit + 1})})

\* The documents around the chunks, but not the one asked about.
Others(hits) ==
  LET found == Reached(hits, {})
  IN [d \in DOMAIN found \ {ask.doc} |-> found[d]]

\* The best similarity with which a search from a source led to the document.
BestScore(hits, sources, n) ==
  Max({Nearness(p[1], p[2]) : p \in {q \in hits \X sources : q[1] \in search(q[2], n)}})

similar_to_hash ==
  /\ stage = "pass" /\ ask.kind = "similar"
  /\ LET content == row[ask.doc].content
         sources == Sources(content)
         n == SimilarPool(content)
         found == Others(UNION {search(s, n) : s \in sources})
         Pick(d) == [doc |-> d, rank |-> 1, score |-> BestScore(found[d], sources, n),
                     content |-> row[d].content, pos |-> 0]
     IN IF vids_for_hash(content) = {}
        THEN stage' = "done" /\ UNCHANGED <<k, byDoc, picks>>
        ELSE /\ k' = n /\ byDoc' = found
             /\ picks' = Best({Pick(d) : d \in DOMAIN found}, ask.limit)
             /\ stage' = "read"
  /\ UNCHANGED <<vecs, row, ask, results, writes>>

-----------------------------------------------------------------------------
(* The update, in between. *)

Write(d, new) ==
  /\ row' = [row EXCEPT ![d] = new] /\ writes' = writes + 1
  /\ UNCHANGED <<vecs, ask, k, byDoc, picks, results, stage>>

\* A file goes, is rewritten, or its collection is removed.
Update ==
  /\ stage \in {"pass", "rank", "read"} /\ writes < Writes
  /\ \E d \in Documents :
       /\ row[d].content # "none"
       /\ \/ row[d].active /\ Write(d, [row[d] EXCEPT !.active = FALSE])
          \/ \E content \in DOMAIN Cuts[d] \ {row[d].content} :
               Write(d, [content |-> content, active |-> TRUE])
          \/ Write(d, [content |-> "none", active |-> FALSE])

NoAsk == [kind |-> "none", doc |-> 1, limit |-> 1, scope |-> {}, per_file |-> 1,
          rules |-> [ignored |-> {}, capped |-> {}], fresh |-> {}]

NearInit ==
  /\ \E s \in Situations : vecs = s.vecs /\ row = s.rows
  /\ \E s \in Searches, rules \in RuleSets, fresh \in AgeWeights :
       /\ s.kind = "similar" => fresh = {}
       /\ ask = [kind |-> s.kind, doc |-> s.doc, limit |-> s.limit, scope |-> s.scope,
                 per_file |-> s.per_file, rules |-> rules, fresh |-> fresh]
       /\ k = ask.limit * OverFetch
  /\ byDoc = <<>> /\ picks = <<>> /\ results = <<>> /\ stage = "pass" /\ writes = 0

\* Nothing is searched.
NoSearching ==
  /\ vecs = <<>> /\ row = <<>> /\ ask = NoAsk /\ k = 1
  /\ byDoc = <<>> /\ picks = <<>> /\ results = <<>> /\ stage = "idle" /\ writes = 0

NearNext == Pass \/ Rank \/ ReadText \/ Finish \/ similar_to_hash \/ Update

-----------------------------------------------------------------------------

\* Every section that could be shown, from all the vectors at once.
AllInOrder == Best(AllPicks(Reached(Vids, ask.scope)), ask.limit)

\* Widening loses nothing: while nothing is written, the answer is the best
\* sections that the whole index leads to, although the pool stops as soon as
\* enough documents are in it.  Weighting by age can lift a file beyond the
\* pool, or a later section of one.
NothingBetterIsLeft ==
  stage = "read" /\ ask.kind = "vsearch" /\ writes = 0
  /\ (ask.fresh = {} \/ (ask.per_file = 1 /\ wanted >= Cardinality(DOMAIN Reached(Vids, ask.scope)))) =>
    picks = AllInOrder

\* A vector in the pool leads somewhere as long as any document with its content
\* is active, in scope and not excluded, whatever others share the content.
NoVectorIsWasted ==
  stage = "rank" /\ writes = 0 =>
    \A v \in search(0, k) :
      (\E d \in Candidates(v, ask.scope) : ~reason(d, vecs[v][1]))
        => \E d \in DOMAIN byDoc : v \in byDoc[d]

\* No document is shown that the rules keep from the vectors, that the scope
\* leaves out, or, by `similar`, that was asked about.
RulesAreKept ==
  \A i \in DOMAIN results :
    /\ ~reason(results[i].doc, results[i].content)
    /\ ask.scope = {} \/ CollectionOf[results[i].doc] \in ask.scope
    /\ ask.kind = "similar" => results[i].doc # ask.doc

\* No section is shown twice and no file more often than asked for, while the
\* text is there and is cut as it was when its vectors were made.
EachSectionOnce ==
  \A i, j \in DOMAIN results :
    i # j /\ results[i].doc = results[j].doc =>
      \/ results[i].pos # results[j].pos /\ ask.per_file > 1
      \/ \E v \in vids_for_hash(results[i].content) :
           vecs[v][2] \notin Cuts[results[i].doc][results[i].content]
      \/ \E n \in {i, j} : results[n].text # results[n].content

LeastDistance(hits, sources) == Min({Distance(v, s) : v \in hits, s \in sources})

\* `similar` shows the nearest documents when its pool holds every vector: a
\* document stands as near as its nearest chunk to any chunk of the source.
SimilarIsNearest ==
  stage = "read" /\ ask.kind = "similar" /\ writes = 0 /\ k = Points =>
    LET Near(d) == 2 * Points - LeastDistance(byDoc[d], Sources(row[ask.doc].content))
        shown == {picks[i].doc : i \in DOMAIN picks}
    IN /\ \A i, j \in DOMAIN picks : i < j => Near(picks[i].doc) >= Near(picks[j].doc)
       /\ \A d \in DOMAIN byDoc \ shown, e \in shown : Near(d) <= Near(e)
       /\ Cardinality(shown) = ask.limit \/ shown = DOMAIN byDoc

\* What is shown as near is the nearest that the rules allow, each once.
NearestAreShown ==
  /\ stage \in {"idle", "pass", "rank", "read", "done"}
  /\ Len(picks) <= ask.limit /\ Len(results) <= Len(picks)
  /\ NothingBetterIsLeft /\ NoVectorIsWasted /\ RulesAreKept
  /\ EachSectionOnce /\ SimilarIsNearest
=============================================================================
