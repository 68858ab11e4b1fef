------------------------------- MODULE Paging -------------------------------
(***************************************************************************)
(* Paging through a keyword search of the MCP server: `search_blocking`     *)
(* fetches one result more than the page needs, cuts the page out and says  *)
(* whether more follow (crates/rqmd-mcp/src/server.rs); the store takes the *)
(* best hits in scope, weights them by age when asked and resolves them to  *)
(* rows (crates/rqmd-core/src/store.rs, fts.rs).                            *)
(*                                                                          *)
(* Files are numbered by their BM25 rank.  A row of the database can go     *)
(* while its full-text entry is still there, and the entry later.           *)
(***************************************************************************)
EXTENDS Integers, Places

CONSTANTS
  Ranked,          \* how many files the words match
  MaxSearchLimit,  \* MAX_SEARCH_LIMIT
  PoolFactor,      \* RECENCY_POOL_FACTOR
  PoolCap,         \* RECENCY_POOL_CAP
  Sections,        \* how many sections of each file hold the words
  PerFile,         \* the sections per file that clients ask for
  Limits,          \* the page sizes that clients ask for
  Lost             \* bound: rows that go during one listing

ASSUME PageSizes ==
  /\ {Ranked, MaxSearchLimit, PoolFactor, PoolCap} \cup Limits \subseteq Nat
  /\ MaxSearchLimit > 0 /\ PerFile \subseteq Nat \ {0}
  /\ Sections \in [1 .. Ranked -> Nat \ {0}]

VARIABLES
  scope,    \* {} for every file, or the files of the collections asked for
  fresh,    \* the files modified recently
  recency,  \* whether age weighting was asked for
  per_file, \* how many sections of one file were asked for
  limit,    \* the page size asked for
  offset,   \* the offset of the next request
  gone,     \* files whose row has gone
  purged,   \* files whose full-text entry has gone too
  listed,   \* the <<file, section>> pairs shown, page after page
  told      \* what the last reply said: "more", "end", or "none" before any

pageVars == <<scope, fresh, recency, per_file, limit, offset, gone, purged, listed, told>>

Files == 1 .. Ranked
Lower(a, b) == IF a < b THEN a ELSE b
Higher(a, b) == IF a > b THEN a ELSE b
FirstOf(s, n) == SubSeq(s, 1, Lower(n, Len(s)))

clamp_limit(n) == Higher(1, Lower(n, MaxSearchLimit))
clamp_offset(n) == Lower(n, MaxSearchLimit)

fetch_len(from, n) == Lower(from + n + 1, MaxSearchLimit)

page_of(results, from, n) ==
  [page |-> FirstOf(SubSeq(results, from + 1, Len(results)), n),
   more |-> Len(results) > from + n]

\* The best n of some files, by their rank.
BestOf(files, n) == {r \in files : Cardinality({q \in files : q < r}) < n}

\* Variant: the scope is applied to the best n hits of the whole index.
filter_after_cut(n) ==
  {r \in BestOf(Files \ purged, n) : scope = {} \/ r \in scope \ gone}

\* The best n hits.  A scope becomes the ids of its active rows, which filter
\* while hits are collected.
search_fts_scoped(n) ==
  BestOf({r \in Files : r \notin purged /\ (scope = {} \/ r \in scope \ gone)}, n)

recency_pool(n) == Higher(n, Lower(n * PoolFactor, PoolCap))

\* The file's score, halved for an old one when age counts.
Score(r) == (Ranked + 3 - r) * (IF recency /\ r \in fresh THEN 2 ELSE 1)

\* By score, then by path, taken to be the order of the numbers.
Before(a, b) == Score(a) > Score(b) \/ (Score(a) = Score(b) /\ a < b)
weight_hits(hits, n) == {r \in hits : Cardinality({q \in hits : Before(q, r)}) < n}

\* The first n sections: each file's in their own order.
Precedes(p, q) == Before(p[1], q[1]) \/ (p[1] = q[1] /\ p[2] < q[2])
InRanking(picks) == Sorted(picks, {pq \in picks \X picks : Precedes(pq[1], pq[2])})
rank_picks(picks, n) == FirstOf(InRanking(picks), n)

\* What a file yields: its opening, which is its only section then, or as many
\* sections as are asked for.
SectionsOf(docs) == {p \in docs \X (1 .. per_file) : p[2] <= Sections[p[1]]}

\* Hits are resolved to rows after the cut to n files, and one without a row is
\* left out; of the sections, n are kept.
search_fts_multi_with(n) ==
  LET hits == IF recency THEN weight_hits(search_fts_scoped(recency_pool(n)), n)
              ELSE search_fts_scoped(n)
  IN rank_picks(SectionsOf(hits \ gone), n)

PageInit ==
  /\ scope \in {{}, {r \in Files : r % 2 = 0}, {r \in Files : r > 2}}
  /\ fresh \in SUBSET Files
  /\ recency \in BOOLEAN
  /\ per_file \in PerFile
  /\ limit \in Limits
  /\ offset = 0 /\ gone = {} /\ purged = {}
  /\ listed = <<>> /\ told = "none"

\* Nothing is searched.
NoPaging ==
  /\ scope = {} /\ fresh = {} /\ recency = FALSE /\ per_file = 1 /\ limit = 1 /\ offset = 0
  /\ gone = {} /\ purged = {} /\ listed = <<>> /\ told = "idle"

\* A client asks for the page the last reply announced.
search_blocking ==
  /\ told \in {"none", "more"}
  /\ LET from == clamp_offset(offset)
         size == clamp_limit(limit)
         cut == page_of(search_fts_multi_with(fetch_len(from, size)), from, size)
     IN /\ listed' = listed \o cut.page
        /\ told' = IF cut.more THEN "more" ELSE "end"
        /\ offset' = IF cut.more THEN from + Len(cut.page) ELSE offset
  /\ UNCHANGED <<scope, fresh, recency, per_file, limit, gone, purged>>

\* Another process removes a row, and later commits the full-text purge.
RowGoes ==
  /\ told \in {"none", "more"} /\ Cardinality(gone) < Lost
  /\ \E r \in Files \ gone : gone' = gone \cup {r}
  /\ UNCHANGED <<scope, fresh, recency, per_file, limit, offset, purged, listed, told>>

EntryGoes ==
  /\ told \in {"none", "more"} /\ purged # gone
  /\ purged' = gone
  /\ UNCHANGED <<scope, fresh, recency, per_file, limit, offset, gone, listed, told>>

PageNext == search_blocking \/ RowGoes \/ EntryGoes

-----------------------------------------------------------------------------

InScope == {r \in Files : scope = {} \/ r \in scope}

\* Everything in scope in the order it should be shown.
Ranking == InRanking(SectionsOf(InScope))

\* Without age weighting the pages are slices of one ranking: no section is
\* shown twice or before a better one even when rows and entries go between two
\* pages, and none is passed over while no row goes.
PagesAreOneRanking ==
  ~recency =>
    /\ \A i, j \in DOMAIN listed : i < j =>
         \/ listed[i][1] < listed[j][1]
         \/ (listed[i][1] = listed[j][1] /\ listed[i][2] < listed[j][2])
    /\ listed # <<>> /\ gone = {} => listed = FirstOf(Ranking, Len(listed))

\* A reply that announces no further page is the last one: the client has every
\* section in scope, or as many as the server ever ranks.
EndIsTheEnd ==
  told = "end" /\ gone = {} => Len(listed) = Lower(Len(Ranking), MaxSearchLimit)

\* With age weighting the pages are still slices of one ranking when the first
\* page's pool already holds every file: a later page, weighted over a larger
\* pool, then neither repeats nor drops a section.
RecencyIsOneRanking ==
  (/\ recency /\ gone = {}
   /\ recency_pool(fetch_len(0, clamp_limit(limit))) >= Cardinality(InScope))
  => listed = FirstOf(Ranking, Len(listed))

\* Paging through a search shows one ranking, all of it and once.
PagesCoverTheRanking ==
  /\ Range(listed) \subseteq Files \X (1 .. per_file) /\ Len(listed) <= MaxSearchLimit
  /\ offset \in 0 .. MaxSearchLimit
  /\ purged \subseteq gone /\ gone \subseteq Files
  /\ told \in {"idle", "none", "more", "end"}
  /\ PagesAreOneRanking /\ EndIsTheEnd /\ RecencyIsOneRanking
=============================================================================
