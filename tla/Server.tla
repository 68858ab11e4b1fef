------------------------------- MODULE Server -------------------------------
(***************************************************************************)
(* One `rqmd mcp` server at work: concurrent tool calls over its pool of    *)
(* full-text stores and its one model store, both opened on first use; the  *)
(* weights it downloads, loads and releases; the idle exit; shutdown.  Other*)
(* processes commit to the index meanwhile.                                 *)
(*                                                                         *)
(* A commit gives the index a new generation, and its files a new mtime.    *)
(* Generation 0 is no index.                                                *)
(***************************************************************************)
EXTENDS Naturals, FiniteSets

CONSTANTS
  Req,           \* tool calls
  Handle,        \* full-text stores of the pool (RQMD_MCP_FTS_READERS)
  MaxGen,        \* bound on the commits
  Trouble,       \* bound on failures, signals and clients that disconnect
  Nobody

ASSUME ReqType == /\ IsFiniteSet(Req) /\ Req \cap {"empty", "set"} = {}
                  /\ Handle # {} /\ "ml" \notin Handle
                  /\ Nobody \notin Req \cup Handle \cup {"ml"}
ASSUME BoundType == MaxGen \in Nat \ {0} /\ Trouble \in Nat

Store == Handle \cup {"ml"}
Pool(kind) == IF kind = "query" THEN {"ml"} ELSE Handle
Gen == 0..MaxGen

VARIABLES
  gen,        \* the generation on disk
  cell,       \* the two OnceCells: empty, set, or the call that initialises
  store,      \* what each store's readers see, the mtime it remembers, its mutex
  weights,    \* the model file in the hub's cache
  model,      \* the model of the model store
  req,        \* the tool calls
  act,        \* Activity: its count, whether it is long since a request began or ended,
              \* and the calls whose guard (Busy) is held: their clients wait for the answer
  srv,        \* up, idle (about to stop), down (shutting down), gone
  slipped,    \* history: a commit came between the opening of a store and its stat
  kept,       \* history: a download that failed its check was left in the cache
  trouble     \* failures, signals and disconnects so far

vars == <<gen, cell, store, weights, model, req, act, srv, slipped, kept, trouble>>

NoCall == [kind |-> "none", at |-> "none", refresh |-> FALSE, floor |-> 0, on |-> Nobody,
           mtime |-> 0, reply |-> "none", saw |-> 0]
Closed == [gen |-> 0, seen |-> 0, holder |-> Nobody, poisoned |-> FALSE]

TypeOK ==
  /\ gen \in Gen
  /\ \A k \in {"fts", "ml"} : cell[k] \in Req \cup {"empty", "set"}
  /\ \A s \in Store : store[s].gen <= gen /\ store[s].seen <= gen
                      /\ store[s].holder \in Req \cup {Nobody}
  /\ \A r, t \in Req : req[r].on = req[t].on => r = t \/ req[r].on = Nobody
  /\ act.n \in 0..Cardinality(Req) /\ act.busy \subseteq Req
  /\ srv \in {"up", "idle", "down", "gone"}
  /\ weights.bytes \in {"none", "good", "bad"}
  /\ model.loaded \in {"none", "good", "bad"} /\ model.layers \in {"gpu", "cpu"}

\* with_fts_readers: the pool is opened at once when there is an index.
Init ==
  /\ gen \in {0, 1}
  /\ cell = [k \in {"fts", "ml"} |-> IF k = "fts" /\ gen = 1 THEN "set" ELSE "empty"]
  /\ store = [s \in Store |-> IF s # "ml" THEN [Closed EXCEPT !.gen = gen, !.seen = gen] ELSE Closed]
  /\ weights \in [bytes : {"none", "good", "bad"}, ref : {FALSE}]
                 \cup {[bytes |-> "good", ref |-> TRUE]}
  /\ model = [loaded |-> "none", layers |-> "gpu", unused |-> FALSE]
  /\ req = [r \in Req |-> NoCall]
  /\ act = [n |-> 0, old |-> FALSE, busy |-> {}]
  /\ srv = "up"
  /\ slipped = FALSE /\ kept = FALSE /\ trouble = 0

Disturb == trouble < Trouble /\ trouble' = trouble + 1
Calm == UNCHANGED trouble
To(r, at) == req' = [req EXCEPT ![r].at = at]
InProgress == {r \in Req : req[r].at \notin {"none", "done"}}

---------------------------------------------------------------------------
(* Activity and the end of the server. *)

begin(r) == [n |-> act.n + 1, old |-> FALSE, busy |-> act.busy \cup {r}]

\* Variant: the end of the body and its drop each count.
counted_twice(r) == TRUE

\* The guard of a POST is in its response body, and is dropped once: when the
\* body has ended, or with the body when the client goes.
Guarded(r) == r \in act.busy

end(r) ==
  IF Guarded(r)
  THEN [n |-> IF act.n > 0 THEN act.n - 1 ELSE 0, old |-> FALSE, busy |-> act.busy \ {r}]
  ELSE act

\* The client of a call disconnects: its guard is dropped, and the call goes on
\* on its blocking thread.
Disconnect(r) ==
  /\ r \in act.busy
  /\ act' = end(r) /\ Disturb
  /\ UNCHANGED <<gen, cell, store, weights, model, req, srv, slipped, kept>>

\* The period of the idle exit passes with no call beginning or ending.
IdlePeriodPasses ==
  /\ srv = "up" /\ ~act.old
  /\ act' = [act EXCEPT !.old = TRUE]
  /\ UNCHANGED <<gen, cell, store, weights, model, req, srv, slipped, kept, trouble>>

idle_expired ==
  /\ srv = "up" /\ act.n = 0 /\ act.old
  /\ srv' = "idle"
  /\ UNCHANGED <<gen, cell, store, weights, model, req, act, slipped, kept, trouble>>

\* SIGTERM or Ctrl-C, or the idle exit: no more calls are taken, and the
\* streams of those in progress are ended without an answer.
Shutdown ==
  /\ \/ srv = "idle" /\ Calm
     \/ srv = "up" /\ Disturb
  /\ srv' = "down"
  /\ act' = [act EXCEPT !.n = 0, !.busy = {}]
  /\ UNCHANGED <<gen, cell, store, weights, model, req, slipped, kept>>

\* The runtime ends once no call is left on a blocking thread.
Gone ==
  /\ srv = "down" /\ InProgress = {}
  /\ srv' = "gone"
  /\ UNCHANGED <<gen, cell, store, weights, model, req, act, slipped, kept, trouble>>

\* A call ends, and is answered if its client is still there.
Reply(r, how, saw) ==
  /\ req' = [req EXCEPT ![r] = [@ EXCEPT !.at = "done", !.on = Nobody, !.saw = saw,
                                         !.reply = IF r \in act.busy THEN how ELSE "cut"]]
  /\ act' = end(r)
Release(r) == [store EXCEPT ![req[r].on].holder = Nobody]

---------------------------------------------------------------------------
(* The index, written by others. *)

Commit ==
  /\ gen < MaxGen
  /\ gen' = gen + 1
  /\ UNCHANGED <<cell, store, weights, model, req, act, srv, slipped, kept, trouble>>

---------------------------------------------------------------------------
(* A tool call: query_blocking or search_blocking; get, multi_get and       *)
(* status are like a search without refresh.                                *)

Arrive(r) ==
  /\ srv \in {"up", "idle"} /\ req[r].at = "none"
  /\ \E kind \in {"search", "query"}, refresh \in BOOLEAN :
       req' = [req EXCEPT ![r] = [NoCall EXCEPT !.kind = kind, !.at = "index", !.refresh = refresh]]
  /\ act' = begin(r)
  /\ UNCHANGED <<gen, cell, store, weights, model, srv, slipped, kept, trouble>>

existing_index(r) ==
  /\ req[r].at = "index"
  /\ \/ /\ gen = 0 /\ Reply(r, "noindex", 0)
     \/ /\ gen # 0
        /\ req' = [req EXCEPT ![r].floor = gen,
                              ![r].at = IF req[r].refresh THEN "refresh" ELSE "cell"]
        /\ UNCHANGED act
  /\ UNCHANGED <<gen, cell, store, weights, model, srv, slipped, kept, trouble>>

\* The pass commits what had changed; a pass that cannot run or complete
\* only adds a note.
refresh_note(r) ==
  /\ req[r].at = "refresh"
  /\ \E g \in {gen, gen + 1} : g \in Gen /\ gen' = g
  /\ req' = [req EXCEPT ![r].floor = gen', ![r].at = "cell"]
  /\ UNCHANGED <<cell, store, weights, model, act, srv, slipped, kept, trouble>>

Cell(r) == IF req[r].kind = "query" THEN "ml" ELSE "fts"

\* get_or_try_init: one call initialises, the others wait for it.
GetCell(r) ==
  /\ req[r].at = "cell"
  /\ \/ cell[Cell(r)] = "set" /\ To(r, "lock") /\ UNCHANGED cell
     \/ /\ cell[Cell(r)] = "empty"
        /\ cell' = [cell EXCEPT ![Cell(r)] = r]
        /\ To(r, IF req[r].kind = "query" THEN "cached" ELSE "open")
  /\ UNCHANGED <<gen, store, weights, model, act, srv, slipped, kept, trouble>>

\* Variant: an initialisation that fails leaves the cell taken.
init_wedges(r) == Reply(r, "error", 0) /\ UNCHANGED cell

\* An initialisation that fails leaves the cell empty for the next call.
InitFails(r) == cell' = [cell EXCEPT ![Cell(r)] = "empty"] /\ Reply(r, "error", 0)

\* resolve_cached: a file with a ref is taken as it is; one without is
\* verified first, and then gets its ref.
resolve_cached(r) ==
  /\ req[r].at = "cached"
  /\ \/ /\ weights.ref
        /\ To(r, "open") /\ UNCHANGED <<cell, weights, act>>
     \/ /\ ~weights.ref /\ weights.bytes = "good"
        /\ weights' = [weights EXCEPT !.ref = TRUE]
        /\ To(r, "open") /\ UNCHANGED <<cell, act>>
     \/ /\ ~weights.ref /\ weights.bytes = "bad"
        /\ InitFails(r) /\ UNCHANGED weights
     \/ /\ weights.bytes = "none"
        /\ To(r, "fetch") /\ UNCHANGED <<cell, weights, act>>
  /\ UNCHANGED <<gen, store, model, srv, slipped, kept, trouble>>

\* get_verified: offline, or the download fails (a rejected credential is
\* retried without one), or the hub's client puts the file and its ref into
\* the cache.
get_verified(r) ==
  /\ req[r].at = "fetch"
  /\ \/ /\ Disturb /\ InitFails(r) /\ UNCHANGED weights
     \/ /\ Calm /\ weights' = [bytes |-> "good", ref |-> TRUE]
        /\ To(r, "verify") /\ UNCHANGED <<cell, act>>
     \/ /\ Disturb /\ weights' = [bytes |-> "bad", ref |-> TRUE]
        /\ To(r, "verify") /\ UNCHANGED <<cell, act>>
  /\ UNCHANGED <<gen, store, model, srv, slipped, kept>>

verify_sha256(r) ==
  /\ req[r].at = "verify"
  /\ \/ weights.bytes = "good" /\ To(r, "open") /\ UNCHANGED <<cell, act, kept>>
     \/ weights.bytes = "bad" /\ InitFails(r) /\ kept' = TRUE
  /\ UNCHANGED <<gen, store, weights, model, srv, slipped, trouble>>

\* Store::open: the readers are made, then the mtimes are taken.
open(r) ==
  /\ req[r].at = "open"
  /\ \/ /\ Disturb /\ InitFails(r) /\ UNCHANGED store
     \/ /\ Calm
        /\ store' = [s \in Store |-> IF s \in Pool(req[r].kind) THEN [store[s] EXCEPT !.gen = gen]
                                                                ELSE store[s]]
        /\ To(r, "stat") /\ UNCHANGED <<cell, act>>
  /\ UNCHANGED <<gen, weights, model, srv, slipped, kept>>

Opened(r) ==
  /\ req[r].at = "stat"
  /\ store' = [s \in Store |-> IF s \in Pool(req[r].kind) THEN [store[s] EXCEPT !.seen = gen]
                                                          ELSE store[s]]
  /\ slipped' = (slipped \/ \E s \in Pool(req[r].kind) : store[s].gen # gen)
  /\ cell' = [cell EXCEPT ![Cell(r)] = "set"]
  /\ To(r, "lock")
  /\ UNCHANGED <<gen, weights, model, act, srv, kept, trouble>>

Locks(r, s) ==
  /\ store[s].holder = Nobody
  /\ store' = [store EXCEPT ![s].holder = r]
  /\ req' = [req EXCEPT ![r].on = s, ![r].at = "fresh"]

\* checkout: any idle handle, poisoned or not; when one was found busy, the
\* wait may be for that one although another is idle by now.
checkout(r) ==
  /\ req[r].at = "lock" /\ req[r].kind # "query"
  /\ \E s \in Handle : Locks(r, s)
  /\ UNCHANGED <<gen, cell, weights, model, act, srv, slipped, kept, trouble>>

\* The one model store; a poisoned mutex fails this and every later query.
ml(r) ==
  /\ req[r].at = "lock" /\ req[r].kind = "query"
  /\ \/ ~store["ml"].poisoned /\ Locks(r, "ml") /\ UNCHANGED act
     \/ /\ store["ml"].poisoned /\ store["ml"].holder = Nobody
        /\ Reply(r, "poisoned", 0) /\ UNCHANGED store
  /\ UNCHANGED <<gen, cell, weights, model, srv, slipped, kept, trouble>>

\* Variant: the mtimes are remembered before the readers are there.
remember_first(r) ==
  /\ req[r].at = "fresh"
  /\ req' = [req EXCEPT ![r].mtime = gen,
                        ![r].at = IF store[req[r].on].seen = gen THEN "run" ELSE "reload"]
  /\ store' = [store EXCEPT ![req[r].on].seen = gen]
  /\ UNCHANGED <<gen, cell, weights, model, act, srv, slipped, kept, trouble>>

\* reload_if_stale: first the mtimes, then the readers, and only when they
\* are there the mtimes are remembered.
Stale(r) ==
  /\ req[r].at = "fresh"
  /\ req' = [req EXCEPT ![r].mtime = gen,
                        ![r].at = IF store[req[r].on].seen = gen THEN "run" ELSE "reload"]
  /\ UNCHANGED <<gen, cell, store, weights, model, act, srv, slipped, kept, trouble>>

\* The readers that were there before the reload stay if it fails.
reload(r) ==
  /\ req[r].at = "reload"
  /\ \/ /\ Calm
        /\ store' = [store EXCEPT ![req[r].on].gen = gen]
        /\ To(r, "reloaded") /\ UNCHANGED act
     \/ /\ Disturb
        /\ store' = Release(r) /\ Reply(r, "error", 0)
  /\ UNCHANGED <<gen, cell, weights, model, srv, slipped, kept>>

Reloaded(r) ==
  /\ req[r].at = "reloaded"
  /\ store' = [store EXCEPT ![req[r].on].seen = req[r].mtime]
  /\ To(r, "run")
  /\ UNCHANGED <<gen, cell, weights, model, act, srv, slipped, kept, trouble>>

\* The call itself, or a panic in it, which poisons the mutex.
run(r) ==
  /\ req[r].at = (IF req[r].kind = "query" THEN "infer" ELSE "run")
  /\ \/ /\ Calm
        /\ store' = Release(r)
        /\ Reply(r, "ok", store[req[r].on].gen)
     \/ /\ Disturb
        /\ store' = [Release(r) EXCEPT ![req[r].on].poisoned = TRUE]
        /\ Reply(r, "panic", 0)
  /\ UNCHANGED <<gen, cell, weights, model, srv, slipped, kept>>

---------------------------------------------------------------------------
(* The model. *)

\* ensure_*: loaded if it is not, on the CPU if the GPU fails, and then
\* always on the CPU; a query whose model cannot be loaded goes on without.
ensure(r) ==
  /\ req[r].at = "run" /\ req[r].kind = "query"
  /\ \/ /\ model.loaded # "none" /\ Calm
        /\ model' = [model EXCEPT !.unused = FALSE]
        /\ To(r, "infer") /\ UNCHANGED <<store, act>>
     \/ /\ model.loaded = "none" /\ Calm
        /\ model' = [model EXCEPT !.loaded = weights.bytes, !.unused = FALSE]
        /\ To(r, "infer") /\ UNCHANGED <<store, act>>
     \/ /\ model.loaded = "none" /\ model.layers = "gpu" /\ Disturb
        /\ model' = [loaded |-> weights.bytes, layers |-> "cpu", unused |-> FALSE]
        /\ To(r, "infer") /\ UNCHANGED <<store, act>>
     \/ /\ model.loaded = "none" /\ Disturb
        /\ store' = Release(r) /\ Reply(r, "ok", store["ml"].gen) /\ UNCHANGED model
  /\ UNCHANGED <<gen, cell, weights, srv, slipped, kept>>

\* RQMD_MODEL_IDLE_TTL passes since the model was last asked for.
TtlPasses ==
  /\ model.loaded # "none" /\ ~model.unused
  /\ model' = [model EXCEPT !.unused = TRUE]
  /\ UNCHANGED <<gen, cell, store, weights, req, act, srv, slipped, kept, trouble>>

\* Variant: the sweep asks nobody.
any_time == TRUE

\* Nobody holds the model store.
TryLock == store["ml"].holder = Nobody /\ ~store["ml"].poisoned

\* The sweep never waits for a query, nor takes its model away.
release_idle_models ==
  /\ srv \in {"up", "idle"} /\ cell["ml"] = "set" /\ TryLock
  /\ model.unused
  /\ model' = [model EXCEPT !.loaded = "none", !.unused = FALSE]
  /\ UNCHANGED <<gen, cell, store, weights, req, act, srv, slipped, kept, trouble>>

Step(r) ==
  \/ existing_index(r) \/ refresh_note(r) \/ GetCell(r) \/ resolve_cached(r) \/ get_verified(r)
  \/ verify_sha256(r) \/ open(r) \/ Opened(r) \/ checkout(r) \/ ml(r) \/ Stale(r) \/ reload(r)
  \/ Reloaded(r) \/ ensure(r) \/ run(r)

Next ==
  \/ IdlePeriodPasses \/ idle_expired \/ Shutdown \/ Gone \/ Commit
  \/ TtlPasses \/ release_idle_models
  \/ \E r \in Req : Arrive(r) \/ Disconnect(r) \/ Step(r)

Spec == Init /\ [][Next]_vars

\* Blocking threads run, a query has a deadline (HybridQuery), time passes
\* and the timers fire.
FairSpec ==
  /\ Spec
  /\ \A r \in Req : WF_vars(Step(r))
  /\ WF_vars(IdlePeriodPasses) /\ WF_vars(idle_expired)
  /\ WF_vars(srv = "idle" /\ Shutdown) /\ WF_vars(Gone)

---------------------------------------------------------------------------
(* Properties. *)

\* A long-lived server never answers from an index older than the one on
\* disk when the call's refresh had ended: a commit between the stat and the
\* reload of reload_if_stale, or while another call holds the store, is seen
\* by the next call at the latest.  (A commit between a store's first
\* readers and its first stat is not: Store::open takes the mtime last.)
FreshAnswers ==
  \A r \in Req : req[r].reply = "ok" /\ ~slipped => req[r].saw >= req[r].floor

\* The idle sweep takes no model from a query that is using it, however long
\* the query is.
ModelStaysLoaded == \A r \in Req : req[r].at = "infer" => model.loaded # "none"

\* Weights whose digest is wrong are never loaded, whether downloaded, found
\* in an old cache or left by another program, as long as no download failed
\* its check before.
VerifiedOnceLoaded == ~kept => model.loaded # "bad"

\* The idle exit is never decided while a client waits for an answer, whoever
\* else came, was answered or disconnected before.  A call whose client has gone
\* spares nobody: the exit may be decided while it runs.
IdleSparesCalls == [][srv = "up" /\ srv' = "idle" => InProgress \cap act.busy = {}]_vars

\* Every call ends, whatever fails or panics before it: nobody waits for ever
\* for a store, or for the initialisation of one.
CallEnds == \A r \in Req : req[r].at \notin {"none", "done"} ~> req[r].at = "done"

\* A server that nobody calls any more, or that was told to stop, ends.
ServerEnds == <>[](srv = "gone")

\* Whatever runs while the model is in use (the idle sweep, a download, another
\* call), the model a call computes with is there and is the verified one.
ModelIsUsable == TypeOK /\ ModelStaysLoaded /\ VerifiedOnceLoaded

\* Calls and, with them, the server come to an end.
EverythingEnds == CallEnds /\ ServerEnds
=============================================================================
