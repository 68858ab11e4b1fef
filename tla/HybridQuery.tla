---------------------------- MODULE HybridQuery ----------------------------
(***************************************************************************)
(* `rqmd query`, `search` and `vsearch`: the pipeline of one query, while   *)
(* an update deactivates documents, collections change their default, a     *)
(* deadline passes, models fail, and a second process (Peer) uses the same  *)
(* query cache.  A leg is one keyword or vector search; its ranked list is  *)
(* fixed by the index (`found`).  Each document has one section.            *)
(***************************************************************************)
EXTENDS ModelCache, Fusion

CONSTANTS
  Coll, CollOf,   \* collections, and the one of each document
  Worlds,         \* the query, the default collections, the ranked lists for keywords and
                  \* vectors, the cache an earlier query left, and whether there is a peer
  Limit,          \* -n, the results asked for
  Self, Peer,     \* the process of the query, and the other one
  Typed,          \* the sub-queries of a typed query document
  Lines,          \* what each version of the weights expands the query to
  Relevance       \* what each version of the reranker thinks of a document

ASSUME ProcType == Proc = {Self, Peer} /\ CollOf \in [Doc -> Coll]

\* A plain search ranks a file once; for a query a file may occur once per
\* chunk.
ASSUME WorldType ==
  /\ Limit \in Nat
  /\ \A w \in Worlds :
       /\ w.mode \in {"query", "typed", "search", "vsearch"}
       /\ w.asked \subseteq Coll /\ w.default \subseteq Coll
       /\ w.found \in [{"lex", "vec"} -> Seq(Doc)]
       /\ w.mode \in {"search", "vsearch"} => \A k \in {"lex", "vec"} : IsInjective(w.found[k])

\* What an earlier query left in the cache is what its model said.
ASSUME LeftType ==
  \A w \in Worlds : /\ w.left \in Seq([key : Key, model : Version, of : Key, by : Version])
                    /\ \A r \in ToSet(w.left) : r.of = r.key /\ r.by = r.model

Original == "original"    \* the text of the query, and of a line that repeats it

VARIABLES
  active,     \* documents the database has
  default,    \* collections searched when none is asked for
  found,      \* the ranked list of each kind of leg
  q           \* the query

qVars == <<active, default, found, q>>
vars  == <<rows, cur, conn, weights, loaded, hook, swapped, trouble, active, default, found, q>>

NoQuery ==
  [pc |-> "off", mode |-> "query", asked |-> {}, strict |-> FALSE, late |-> FALSE,
   scope |-> {}, legs |-> <<>>, seen |-> {}, lists |-> <<>>, cands |-> <<>>, docs |-> <<>>,
   got |-> <<>>, status |-> "NotRun", was |-> {}, results |-> <<>>, end |-> "none"]

TypeOK ==
  /\ CacheTypeOK
  /\ active \subseteq Doc /\ default \subseteq Coll
  /\ q.pc \in {"off", "scope", "legs", "expand", "fuse", "resolve", "rerank", "assemble"}
  /\ q.scope \subseteq SUBSET Coll
  /\ ToSet(q.cands) \subseteq Doc /\ ToSet(q.docs) \subseteq Doc /\ ToSet(q.results) \subseteq Doc
  /\ \A i \in DOMAIN q.lists : ToSet(q.lists[i].docs) \subseteq Doc /\ q.lists[i].docs # <<>>
  /\ q.status \in {"NotRun", "Reranked", "Failed", "DeadlineExpired"}
  /\ q.end \in {"none", "ok", "timeout", "error"}

Init ==
  /\ \E w \in Worlds :
       /\ CacheInit(IF w.peer THEN Proc ELSE {Self}, w.left)
       /\ default = w.default
       /\ found = w.found
       /\ q = [NoQuery EXCEPT !.mode = w.mode, !.asked = w.asked, !.strict = w.strict]
  /\ active = Doc

Leg(kind, text, original) == [kind |-> kind, text |-> text, original |-> original]

\* run_query, run_search, run_vsearch: the cache is opened on request, and
\* may fail to.
Start ==
  /\ q.pc = "off" /\ q.end = "none"
  /\ q' = [q EXCEPT !.pc = "scope"]
  /\ \E on \in BOOLEAN :
       /\ on => q.mode \in {"query", "typed"}
       /\ Connect(Self, on)
  /\ UNCHANGED <<rows, cur, weights, loaded, hook, swapped, trouble, active, default, found>>

Fail(how)   == q' = [q EXCEPT !.pc = "off", !.end = how]
Answer(res) == q' = [q EXCEPT !.pc = "off", !.end = "ok", !.results = res]

-----------------------------------------------------------------------------
(* Scope.  {} is no filter and {S} the collections S; to a search, no       *)
(* collections at all are no filter either.                                 *)

effective_collections(asked) ==
  IF asked # {} THEN {asked} ELSE IF default = Coll THEN {} ELSE {default}

InScope(d, scope) == \A S \in scope : S = {} \/ CollOf[d] \in S

\* Nothing is searched when no collection is included by default.
MatchesNothing(scope) == scope = {{}}

FirstLegs(mode) ==
  CASE mode = "typed"   -> [i \in DOMAIN Typed |-> [Typed[i] EXCEPT !.original = i = 1]]
    [] mode = "search"  -> <<Leg("lex", Original, TRUE)>>
    [] mode = "vsearch" -> <<Leg("vec", Original, TRUE)>>
    [] OTHER            -> <<Leg("lex", Original, TRUE), Leg("vec", Original, TRUE)>>

Scope ==
  /\ q.pc = "scope"
  /\ LET scope == effective_collections(q.asked)
     IN  IF MatchesNothing(scope) THEN Answer(<<>>)
         ELSE q' = [q EXCEPT !.pc = "legs", !.scope = scope, !.was = default, !.legs = FirstLegs(q.mode)]
  /\ UNCHANGED <<rows, cur, conn, weights, loaded, hook, swapped, trouble, active, default, found>>

-----------------------------------------------------------------------------
(* Retrieval.                                                              *)

\* fts_scoped: a scope is the set of active ids in it, no scope is the index.
fts_scoped(scope) ==
  Picked(found["lex"], {i \in DOMAIN found["lex"] :
    LET d == found["lex"][i] IN scope \subseteq {{}} \/ (d \in active /\ InScope(d, scope))})

\* search_vec_scoped: a vector leads to an active document in scope.
search_vec_scoped(scope) ==
  Picked(found["vec"], {i \in DOMAIN found["vec"] :
    LET d == found["vec"][i] IN d \in active /\ InScope(d, scope)})

ListOf(leg) ==
  LET docs == IF leg.kind = "lex" THEN fts_scoped(q.scope) ELSE search_vec_scoped(q.scope)
  IN  IF docs = <<>> THEN <<>> ELSE <<[docs |-> docs, original |-> leg.original, leg |-> leg]>>

\* A line is searched unless it is malformed, repeats the query, or repeats
\* an earlier line of its kind.
RunsLine(leg) ==
  q.mode # "expanded" \/
  (leg.kind # "junk" /\ leg.text # Original /\ <<leg.kind, leg.text>> \notin q.seen)

\* Where the legs lead: the probe and the vectors to the expansion, the
\* lines of that to the fusion.  Expansion is left out on request or on a
\* strong keyword match.
AfterLegs == IF q.mode = "query" THEN {"fuse", "expand"} ELSE {"fuse"}

\* The deadline is looked at before every leg but the keyword probe; plain
\* searches have none.
Timed(leg) == q.mode \notin {"search", "vsearch"} /\ ~(q.mode = "query" /\ leg.kind = "lex")

SearchLeg ==
  /\ q.pc = "legs" /\ q.legs # <<>>
  /\ LET leg == Head(q.legs)
         ran == RunsLine(leg)
     IN  IF q.late /\ Timed(leg) THEN Fail("timeout") /\ UNCHANGED trouble
         ELSE \/ /\ q' = [q EXCEPT !.legs = Tail(@),
                                   !.lists = IF ran THEN @ \o ListOf(leg) ELSE @,
                                   !.seen = IF ran THEN @ \cup {<<leg.kind, leg.text>>} ELSE @]
                 /\ UNCHANGED trouble
              \/ /\ leg.kind \in {"vec", "hyde"} /\ ran           \* the embedding fails
                 /\ Goes(FALSE) /\ Fail("error")
  /\ UNCHANGED <<rows, cur, conn, weights, loaded, hook, swapped, active, default, found>>

fetch_size == Min({Max({2 * Limit, 20}), 100})

\* Variant: one short.
first_but_one(n, s) == SubSeq(s, 1, Min({n, Len(s)}) - 1)

First(n, s) == SubSeq(s, 1, Min({n, Len(s)}))

LegsDone ==
  /\ q.pc = "legs" /\ q.legs = <<>>
  /\ IF q.mode \in {"search", "vsearch"}
     THEN Answer(IF q.lists = <<>> THEN <<>> ELSE First(Limit, q.lists[1].docs))
     ELSE \E next \in AfterLegs : q' = [q EXCEPT !.pc = next, !.seen = {}]
  /\ UNCHANGED <<rows, cur, conn, weights, loaded, hook, swapped, trouble, active, default, found>>

\* generate_expansion, between two looks at the deadline.
Expand ==
  /\ q.pc = "expand" /\ hook[Self].pc = "idle"
  /\ IF q.late THEN Fail("timeout") /\ UNCHANGED hook
     ELSE Enter(Self, "generate", <<Expansion>>) /\ UNCHANGED q
  /\ UNCHANGED <<rows, cur, conn, weights, loaded, swapped, trouble, active, default, found>>

\* The lines become legs; a failed expansion leaves the lists as they are.
AfterExpansion(h) ==
  IF h.res = "ok" THEN [q EXCEPT !.pc = "legs", !.mode = "expanded", !.legs = Lines[h.got[Expansion].by]]
  ELSE [q EXCEPT !.pc = "fuse"]

Expanded ==
  /\ q.pc = "expand" /\ hook[Self].pc = "done"
  /\ q' = AfterExpansion(hook[Self])
  /\ Leave(Self)
  /\ UNCHANGED <<rows, cur, conn, weights, loaded, swapped, trouble, active, default, found>>

-----------------------------------------------------------------------------
(* Fusion and reranking.                                                   *)

Fuse ==
  /\ q.pc = "fuse"
  /\ IF q.lists = <<>> THEN Answer(<<>>)
     ELSE q' = [q EXCEPT !.pc = "resolve",
                         !.cands = First(fetch_size, reciprocal_rank_fusion(q.lists))]
  /\ UNCHANGED <<rows, cur, conn, weights, loaded, hook, swapped, trouble, active, default, found>>

\* One lookup per candidate; a document that is gone is left out.
Resolve ==
  /\ q.pc = "resolve" /\ q.cands # <<>>
  /\ q' = [q EXCEPT !.cands = Tail(@),
                    !.docs = IF Head(q.cands) \in active THEN Append(@, Head(q.cands)) ELSE @]
  /\ UNCHANGED <<rows, cur, conn, weights, loaded, hook, swapped, trouble, active, default, found>>

\* Variant: a soft deadline fails the query too.
any_timeout == q.late

\* Only a strict deadline fails a query that has candidates.
StrictTimeout == q.late /\ q.strict

Resolved ==
  /\ q.pc = "resolve" /\ q.cands = <<>>
  /\ IF q.docs = <<>> THEN Answer(<<>>) /\ UNCHANGED hook
     ELSE IF StrictTimeout THEN Fail("timeout") /\ UNCHANGED hook
     ELSE \/ /\ q' = [q EXCEPT !.pc = "assemble"]   \* --no-rerank, or no reranker
             /\ UNCHANGED hook
          \/ /\ q' = [q EXCEPT !.pc = "rerank"] /\ Enter(Self, "rerank", q.docs)
  /\ UNCHANGED <<rows, cur, conn, weights, loaded, swapped, trouble, active, default, found>>

\* How the rerank ended.
RerankStatus(res) ==
  CASE res = "ok" -> "Reranked" [] res = "expired" -> "DeadlineExpired" [] OTHER -> "Failed"

Reranked ==
  /\ q.pc = "rerank" /\ hook[Self].pc = "done"
  /\ q' = [q EXCEPT !.pc = "assemble", !.status = RerankStatus(hook[Self].res),
                    !.got = IF hook[Self].res = "ok" THEN hook[Self].got ELSE <<>>]
  /\ Leave(Self)
  /\ UNCHANGED <<rows, cur, conn, weights, loaded, swapped, trouble, active, default, found>>

\* Variant: a failed rerank blends what scores there are with the fusion.
blend_anyway(d) ==
  LET rrf == rrf_score(q.lists, d)
  IN  IF q.status = "Failed" THEN 3 * Relevance[1][d] + rrf ELSE 4 * rrf

\* Three quarters rerank score and one quarter fusion, or fusion alone; in
\* quarters of a unit.
BlendedScore(d) ==
  LET rrf == rrf_score(q.lists, d)
  IN  IF q.status # "Reranked" THEN 4 * rrf
      ELSE IF q.got[d].by = NaN THEN NotFinite
      ELSE 3 * Relevance[q.got[d].by][q.got[d].of] + rrf

assemble_results ==
  /\ q.pc = "assemble"
  /\ Answer(First(Limit, Ordered(ToSet(q.docs), [d \in ToSet(q.docs) |-> BlendedScore(d)])))
  /\ UNCHANGED <<rows, cur, conn, weights, loaded, hook, swapped, trouble, active, default, found>>

-----------------------------------------------------------------------------
(* The hooks of both processes, and everything else.                       *)

SelfHook ==
  /\ Lookup(Self) \/ Call(Self, q.late /\ ~q.strict) \/ Judge(Self) \/ Store(Self)
  /\ UNCHANGED qVars

\* The steps of others in the cache commute with those the query takes
\* outside of it, and are looked at only between these.
AtCache == q.pc \in {"off", "expand", "rerank"} /\ q.end = "none"

\* The other process runs the same query, of which one hook matters.
PeerEnters(m) ==
  /\ AtCache /\ hook[Peer].pc = "idle"
  /\ \E on \in BOOLEAN : Connect(Peer, on)
  /\ Enter(Peer, m, IF m = "rerank" THEN [n \in 1..Cardinality(Doc) |-> Nth(Doc, n)] ELSE <<Expansion>>)
  /\ UNCHANGED <<rows, cur, weights, loaded, swapped, trouble>> /\ UNCHANGED qVars

PeerHook ==
  /\ AtCache
  /\ Lookup(Peer) \/ Call(Peer, FALSE) \/ Judge(Peer) \/ Store(Peer)
  /\ UNCHANGED qVars

DeadlinePasses ==
  /\ q.pc # "off" /\ ~q.late /\ q.mode \notin {"search", "vsearch"}
  /\ q' = [q EXCEPT !.late = TRUE]
  /\ UNCHANGED <<active, default, found>> /\ UNCHANGED cacheVars

\* An update finds a file gone; the full-text entry goes later.
Deactivate(d) ==
  /\ d \in active /\ Goes(FALSE)
  /\ active' = active \ {d}
  /\ UNCHANGED <<rows, cur, conn, weights, loaded, hook, swapped, default, found, q>>

\* `collection include`, `collection exclude`
SetIncluded(c) ==
  /\ Goes(FALSE)
  /\ default' = SymDiff(default, {c})
  /\ UNCHANGED <<rows, cur, conn, weights, loaded, hook, swapped, active, found, q>>

Step ==
  \/ Scope \/ SearchLeg \/ LegsDone \/ Expand \/ Expanded \/ Fuse
  \/ Resolve \/ Resolved \/ SelfHook \/ Reranked \/ assemble_results

Next ==
  \/ Start
  \/ Step
  \/ \E m \in Model : PeerEnters(m) \/ (AtCache /\ Replace(m) /\ UNCHANGED qVars)
  \/ PeerHook
  \/ AtCache /\ clear_at /\ UNCHANGED qVars
  \/ DeadlinePasses
  \/ \E d \in Doc : Deactivate(d)
  \/ \E c \in Coll : SetIncluded(c)

Spec     == Init /\ [][Next]_vars
-----------------------------------------------------------------------------
(* Properties.                                                             *)

Answered == q.pc = "off" /\ q.end = "ok"

\* Whatever failed on the way (expansion, rerank, cache, a soft deadline),
\* an answer has every document some leg found that is still there, when it
\* has room for them and the pool of candidates has, too.
AnswerKeepsEveryHit ==
  Answered /\ Cardinality(Doc) <= Min({Limit, fetch_size}) =>
    \A i \in DOMAIN q.lists : ToSet(q.lists[i].docs) \cap active \subseteq ToSet(q.results)

\* Results that were not reranked are in fusion order; results that were
\* carry the score of their own section, cached or fresh.
ScoresAreNeverMixed ==
  Answered /\ q.mode \in {"query", "typed", "expanded"} =>
    IF q.status = "Reranked" THEN \A d \in ToSet(q.results) : q.got[d].of = d
    ELSE ToSet(q.results) \subseteq Fused(q.lists) /\ InOrder(q.results, rrf_scores(q.lists))

\* A deadline that passes once there are candidates fails a strict query and
\* no other; a strict query never answers with DeadlineExpired.
OnlyStrictFails ==
  /\ q.end = "timeout" /\ q.docs # <<>> => q.strict
  /\ q.strict => q.status # "DeadlineExpired"

\* A document outside the scope asked for is never in an answer, nor one of
\* a collection that was not included by default when nothing was asked for.
AnswerIsInScope ==
  Answered => \A d \in ToSet(q.results) : CollOf[d] \in (IF q.asked = {} THEN q.was ELSE q.asked)

\* A model that repeats itself, or the query, does not weigh a leg twice.
NoLegCountsTwice ==
  q.mode # "typed" => \A i, j \in DOMAIN q.lists :
    q.lists[i].leg.kind = q.lists[j].leg.kind /\ q.lists[i].leg.text = q.lists[j].leg.text => i = j

\* An answer is the whole answer: every document found, none out of scope, no
\* leg weighed twice.
AnswerIsExact == TypeOK /\ AnswerKeepsEveryHit /\ AnswerIsInScope /\ NoLegCountsTwice
=============================================================================
