----------------------------- MODULE ModelCache -----------------------------
(***************************************************************************)
(* The query cache: model_cache.sqlite, which several `rqmd query --cache`  *)
(* processes share, and the hooks through which a query uses it.  One query *)
(* text is modelled: the expansion of that query is one key and the rerank  *)
(* score of each document's chunk is one key each.                          *)
(*                                                                         *)
(* Weights have a version.  A process that has loaded a model keeps what it *)
(* loaded, while the cache identity is that of the file: name, size, mtime. *)
(* A row is [key, model, of, by]: stored under an identity, it holds what   *)
(* the weights `by` said about `of`.  Rows are in order of last use.        *)
(***************************************************************************)
EXTENDS Places

CONSTANTS
  Proc,         \* processes
  Doc,          \* documents, as numbers: the order of their paths
  MaxRows,      \* MAX_ROWS
  Trouble       \* bound on failures and on changes made by others

Model     == {"generate", "rerank"}
Expansion == 0                        \* the key of the expansion
Key       == {Expansion} \cup Doc
NotRead   == 0                        \* no identity: the weights cannot be read
NaN       == 0                        \* as `by`: a score that is not finite
Version   == 1..(1 + Trouble)
Files     == 1..(1 + Trouble)         \* cache files, one after each --clear-cache
Off       == 0                        \* a store without cache

ASSUME CacheAssumptions ==
  /\ Doc \subseteq Nat \ {0} /\ IsFiniteSet(Doc)
  /\ MaxRows \in Nat \ {0} /\ Trouble \in Nat

VARIABLES
  rows,       \* the rows of each cache file
  cur,        \* the file at the cache's path; earlier ones are deleted
  conn,       \* the file each process has open
  weights,    \* the weights files
  loaded,     \* the version each process has in memory, 0 for none
  hook,       \* each process in a hook
  swapped,    \* history: models replaced while a process was at work
  trouble     \* events that may still happen

cacheVars == <<rows, cur, conn, weights, loaded, hook, swapped, trouble>>

Row  == [key : Key, model : Version, of : Key, by : Version]
Idle == [pc |-> "idle", model |-> "generate", want |-> <<>>, id |-> NotRead, got |-> <<>>, res |-> "none"]

CacheTypeOK ==
  /\ rows \in [Files -> Seq(Row)] /\ cur \in Files
  /\ conn \in [Proc -> Files \cup {Off}]
  /\ weights \in [Model -> [ver : Version, there : BOOLEAN]]
  /\ loaded \in [Proc -> [Model -> Version \cup {0}]]
  /\ \A p \in Proc :
       /\ hook[p].pc \in {"off", "idle", "lookup", "call", "judge", "store", "done"}
       /\ hook[p].want \in Seq(Key) /\ hook[p].id \in Version \cup {NotRead}
       /\ hook[p].res \in {"none", "ok", "expired", "error"}
  /\ swapped \subseteq Model /\ trouble \in 0..Trouble

\* The cache may hold what earlier queries left.
CacheInit(running, left) ==
  /\ rows = [f \in Files |-> IF f = 1 THEN left ELSE <<>>] /\ cur = 1
  /\ conn = [p \in Proc |-> Off]
  /\ weights = [m \in Model |-> [ver |-> 1, there |-> TRUE]]
  /\ loaded = [p \in Proc |-> [m \in Model |-> 0]]
  /\ hook = [p \in Proc |-> IF p \in running THEN Idle ELSE [Idle EXCEPT !.pc = "off"]]
  /\ swapped = {} /\ trouble = Trouble

Goes(b) == IF b THEN trouble' = trouble ELSE trouble > 0 /\ trouble' = trouble - 1

-----------------------------------------------------------------------------
(* The file.                                                               *)

model_identity(m) == IF weights[m].there THEN weights[m].ver ELSE NotRead

\* get_expansion, get_rerank_scores: the row of key k for this identity.
Hits(p, k, id) == {r \in ToSet(rows[conn[p]]) : r.key = k /\ r.model = id}

\* The least recently used rows of both tables make room.
evict(s) == IF Len(s) > MaxRows THEN SubSeq(s, Len(s) - MaxRows + 1, Len(s)) ELSE s

\* A score that is not finite is left out.
Finite(want, got) == Picked(want, {i \in DOMAIN want : got[want[i]].by # NaN})

\* Insert or replace, all under one tick of last_used, and evict, in one
\* transaction.
Put(p, id, got) ==
  LET old  == rows[conn[p]]
      real == Finite(hook[p].want, got)
      new  == [i \in DOMAIN real |-> [key |-> real[i], model |-> id,
                                      of |-> got[real[i]].of, by |-> got[real[i]].by]]
      kept == Picked(old, {i \in DOMAIN old : old[i].key \notin ToSet(real)})
  IN  rows' = [rows EXCEPT ![conn[p]] = evict(kept \o new)]

\* A cache operation runs, is skipped because another process writes, or
\* fails and turns the cache off.
CacheWorks(p)   == conn[p] # Off /\ Goes(TRUE) /\ UNCHANGED conn
CacheBusy(p)    == conn[p] # Off /\ Goes(FALSE) /\ UNCHANGED conn
cache_failed(p) == conn[p] # Off /\ Goes(FALSE) /\ conn' = [conn EXCEPT ![p] = Off]
CacheIsOff(p)   == conn[p] = Off /\ Goes(TRUE) /\ UNCHANGED conn

\* enable_model_cache, or a query without --cache.
Connect(p, on) ==
  /\ conn' = [conn EXCEPT ![p] = IF on THEN cur ELSE Off]

-----------------------------------------------------------------------------
(* The hooks.                                                              *)

Enter(p, m, want) ==
  hook' = [hook EXCEPT ![p] = [Idle EXCEPT !.pc = "lookup", !.model = m, !.want = want]]

\* The identity, then the rows it finds.  An expansion that is found is put
\* again, so that it counts as used; a rerank asks the model for the rest.
Lookup(p) ==
  LET h    == hook[p]
      id   == model_identity(h.model)
      kept == [k \in {k \in ToSet(h.want) : Hits(p, k, id) # {}} |->
                 LET r == CHOOSE r \in Hits(p, k, id) : TRUE IN [of |-> r.of, by |-> r.by]]
      Found(got) == [h EXCEPT !.id = id, !.got = got,
                       !.pc = IF DOMAIN got # ToSet(h.want) THEN "call"
                              ELSE IF h.model = "rerank" THEN "judge" ELSE "store",
                       !.res = IF DOMAIN got = ToSet(h.want) THEN "ok" ELSE "none"]
      Missed == [h EXCEPT !.id = id, !.pc = "call"]
  IN  /\ h.pc = "lookup"
      /\ \/ CacheWorks(p) /\ id # NotRead /\ hook' = [hook EXCEPT ![p] = Found(kept)]
         \/ CacheWorks(p) /\ id = NotRead /\ hook' = [hook EXCEPT ![p] = Missed]
         \/ CacheIsOff(p) /\ hook' = [hook EXCEPT ![p] = Missed]
         \/ id # NotRead /\ (CacheBusy(p) \/ cache_failed(p)) /\ hook' = [hook EXCEPT ![p] = Missed]
      /\ UNCHANGED <<rows, cur, weights, loaded, swapped>>

\* Variant: fresh scores are put behind the cached ones.
append_fresh(want, got, fresh) ==
  LET all == SelectSeq([i \in DOMAIN want |-> IF want[i] \in DOMAIN got THEN got[want[i]]
                                              ELSE [of |-> 0, by |-> NaN]],
                       LAMBDA s : s.by # NaN) \o fresh
  IN  [k \in ToSet(want) |-> all[CHOOSE i \in DOMAIN want : want[i] = k]]

\* Every chunk takes its cached score, or the next fresh one.
MergeScores(want, got, fresh) ==
  LET missing(i) == Cardinality({j \in 1..i : want[j] \notin DOMAIN got})
  IN  [k \in ToSet(want) |->
         IF k \in DOMAIN got THEN got[k]
         ELSE fresh[missing(CHOOSE i \in DOMAIN want : want[i] = k)]]

\* The model says something, loading its weights first, or it fails, as it
\* does without weights.  A rerank may also return scores that are not
\* finite, the wrong number of them, or run into a deadline.
Call(p, late) ==
  LET h      == hook[p]
      misses == Picked(h.want, {i \in DOMAIN h.want : h.want[i] \notin DOMAIN h.got})
      ver    == IF loaded[p][h.model] # 0 THEN loaded[p][h.model] ELSE model_identity(h.model)
      Said(bad) == [i \in DOMAIN misses |->
                      [of |-> misses[i], by |-> IF misses[i] \in bad THEN NaN ELSE ver]]
      Ends(res) == [h EXCEPT !.pc = IF h.model = "rerank" THEN "judge" ELSE "store", !.res = res]
  IN  /\ h.pc = "call"
      /\ \/ \E bad \in {{}} \cup (IF h.model = "rerank" THEN {ToSet(misses)} \cup {{k} : k \in ToSet(misses)} ELSE {}) :
              /\ ver # 0 /\ Goes(bad = {})
              /\ hook' = [hook EXCEPT ![p] =
                            [Ends("ok") EXCEPT !.got = MergeScores(h.want, h.got, Said(bad))]]
              /\ loaded' = [loaded EXCEPT ![p][h.model] = ver]
         \/ /\ Goes(ver = 0)                       \* an error, or too few scores
            /\ hook' = [hook EXCEPT ![p] = Ends("error")]
            /\ loaded' = [loaded EXCEPT ![p][h.model] = ver]
         \/ /\ late /\ h.model = "rerank" /\ Goes(TRUE)
            /\ hook' = [hook EXCEPT ![p] = Ends("expired")]
            /\ UNCHANGED loaded
      /\ UNCHANGED <<rows, cur, conn, weights, swapped>>

\* Scores are used and stored when one at least is finite.
Usable(h) == h.res = "ok" /\ \E k \in DOMAIN h.got : h.got[k].by # NaN

Judge(p) ==
  LET h == hook[p]
  IN  /\ h.pc = "judge"
      /\ hook' = [hook EXCEPT ![p] = [h EXCEPT !.pc = IF Usable(h) THEN "store" ELSE "done",
                                               !.res = IF Usable(h) THEN "ok"
                                                       ELSE IF h.res = "expired" THEN "expired"
                                                       ELSE "error"]]
      /\ UNCHANGED <<rows, cur, conn, weights, loaded, swapped, trouble>>

\* An expansion is stored under the identity read before the call; a rerank
\* reads the identity again.
StoreId(h) == IF h.model = "rerank" THEN model_identity("rerank") ELSE h.id

Store(p) ==
  LET h  == hook[p]
      id == StoreId(h)
  IN  /\ h.pc = "store"
      /\ IF h.res # "ok" \/ id = NotRead \/ conn[p] = Off
         THEN UNCHANGED <<rows, conn, trouble>>
         ELSE \/ CacheWorks(p) /\ Put(p, id, h.got)
              \/ (CacheBusy(p) \/ cache_failed(p)) /\ UNCHANGED rows
      /\ hook' = [hook EXCEPT ![p].pc = "done"]
      /\ UNCHANGED <<cur, weights, loaded, swapped>>

Leave(p) == hook' = [hook EXCEPT ![p] = Idle]

-----------------------------------------------------------------------------
(* Others.                                                                 *)

AtWork(p) == hook[p].pc \notin {"off", "idle"} \/ loaded[p] # [m \in Model |-> 0]

\* The weights are removed, or another version takes their place.
Replace(m) ==
  /\ Goes(FALSE)
  /\ weights' \in {[weights EXCEPT ![m].there = FALSE],
                   [weights EXCEPT ![m] = [ver |-> @.ver + 1, there |-> TRUE]]}
  /\ swapped' = IF \E p \in Proc : AtWork(p) THEN swapped \cup {m} ELSE swapped
  /\ UNCHANGED <<rows, cur, conn, loaded, hook>>

\* clear_at, by `rqmd embed --clear-cache`: a process that has the file open
\* goes on with the deleted one.
clear_at ==
  /\ Goes(FALSE)
  /\ cur' = cur + 1
  /\ UNCHANGED <<rows, conn, weights, loaded, hook, swapped>>

-----------------------------------------------------------------------------

\* A row holds what the weights it is filed under said about its own key,
\* and never a failure; unless the weights were replaced under a process.
CacheTellsTheTruth ==
  \A f \in Files : \A i \in DOMAIN rows[f] :
    LET r == rows[f][i]
        m == IF r.key = Expansion THEN "generate" ELSE "rerank"
    IN  r.of = r.key /\ (r.by = r.model \/ m \in swapped)

=============================================================================
