---------------------------- MODULE ServerProofs ----------------------------
(* Proofs about the MCP server: Server for any calls, stores, commits and    *)
(* failures; the listings of Tools for any files, sections and pages; and    *)
(* its searches by vectors for any vectors, documents and writes.            *)
EXTENDS Server, Tools, FiniteSetTheorems, WellFoundedInduction, TLAPS

Using   == {"fresh", "reload", "reloaded", "run", "infer"}
Moments == {"none", "index", "refresh", "cell", "cached", "fetch", "verify", "open",
            "stat", "lock", "done"} \cup Using
Replies == {"none", "noindex", "error", "poisoned", "ok", "panic", "cut"}
Call    == [kind : {"none", "search", "query"}, at : Moments, refresh : BOOLEAN, floor : Nat,
            on : Store \cup {Nobody}, mtime : Nat, reply : Replies, saw : Nat]
Reader  == [gen : Nat, seen : Nat, holder : Req \cup {Nobody}, poisoned : BOOLEAN]

ServerTypes ==
  /\ gen \in Gen /\ gen \in Nat /\ act \in [n : Int, old : BOOLEAN, busy : SUBSET Req]
  /\ cell \in [{"fts", "ml"} -> Req \cup {"empty", "set"}]
  /\ store \in [Store -> Reader]
  /\ weights \in [bytes : {"none", "good", "bad"}, ref : BOOLEAN]
  /\ model \in [loaded : {"none", "good", "bad"}, layers : {"gpu", "cpu"}, unused : BOOLEAN]
  /\ req \in [Req -> Call]
  /\ srv \in {"up", "idle", "down", "gone"}
  /\ slipped \in BOOLEAN /\ kept \in BOOLEAN

\* A call between its lock and its reply holds the mutex of one store of its
\* pool, and no other call holds any.
Holding ==
  \A r \in Req :
    /\ req[r].at \notin Using => req[r].on = Nobody
    /\ req[r].at \in Using => req[r].on \in Pool(req[r].kind) /\ store[req[r].on].holder = r
    /\ req[r].at = "infer" => req[r].kind = "query"

\* What a call saw, or will see, is at least what was there at its refresh.
FreshFor(r) ==
  /\ req[r].floor <= gen
  /\ req[r].at \in {"reload", "reloaded"} => req[r].floor <= req[r].mtime /\ req[r].mtime <= gen
  /\ req[r].at = "reloaded" => req[r].mtime <= store[req[r].on].gen
  /\ ~slipped /\ req[r].at \in {"run", "infer"} => req[r].floor <= store[req[r].on].gen
  /\ ~slipped /\ req[r].reply = "ok" => req[r].floor <= req[r].saw
  /\ req[r].reply = "ok" => req[r].at = "done"

\* What a store remembers is never ahead of what its readers see, and what the
\* readers see catches up with the call that holds them.
Freshness ==
  /\ \A s \in Store : /\ store[s].gen <= gen /\ store[s].seen <= gen
                      /\ ~slipped => store[s].seen <= store[s].gen
  /\ \A r \in Req : FreshFor(r)

\* The model store is only set once its weights are there, and verified unless
\* a bad download was kept.
Verified == weights.bytes # "none" /\ (weights.bytes = "bad" => kept)
ReadyFor(r) ==
  /\ req[r].at \in {"cached", "fetch", "verify"} => req[r].kind = "query"
  /\ req[r].at \in {"cached", "fetch", "verify", "open", "stat"} /\ req[r].kind = "query" =>
       cell["ml"] = r
  /\ req[r].at \in {"open", "stat"} /\ req[r].kind = "query" => Verified
  /\ req[r].at \in {"lock"} \cup Using /\ req[r].kind = "query" => cell["ml"] = "set"
  /\ req[r].at = "infer" => model.loaded # "none"
Readiness ==
  /\ cell["ml"] = "set" => Verified
  /\ weights.ref /\ weights.bytes # "good" =>
       weights.bytes = "bad" /\ (kept \/ \E r \in Req : req[r].at = "verify")
  /\ \A r \in Req : ReadyFor(r)
  /\ ~kept => model.loaded # "bad"

\* Activity counts the guards that are held, which are of calls in progress.
Counting == /\ act.busy \subseteq InProgress /\ IsFiniteSet(act.busy)
            /\ act.n = Cardinality(act.busy)

ServerInv == ServerTypes /\ Holding /\ Freshness /\ Readiness /\ Counting

\* The number of guards changes only when a call begins, is answered or loses
\* its client.
LEMMA CountSame ==
  ASSUME Counting, act'.n = act.n, act'.busy = act.busy, InProgress' = InProgress
  PROVE  Counting'
  BY DEF Counting

LEMMA CountBegins ==
  ASSUME Counting, NEW r \in Req, r \notin InProgress, act' = begin(r),
         InProgress' = InProgress \cup {r}
  PROVE  Counting'
  BY FS_AddElement DEF Counting, begin

\* Dropping the guard of a call, or ending a call without one.
LEMMA CountEnds ==
  ASSUME Counting, NEW r \in Req, act' = end(r),
         InProgress \ {r} \subseteq InProgress'
  PROVE  Counting'
<1>1. CASE r \in act.busy
  <2>1. Cardinality(act.busy) \in Nat
    BY FS_CardinalityType DEF Counting
  <2>2. /\ IsFiniteSet(act.busy \ {r})
        /\ Cardinality(act.busy \ {r}) = Cardinality(act.busy) - 1
    BY <1>1, FS_RemoveElement DEF Counting
  <2>3. act.n > 0
    <3>1. Cardinality(act.busy) # 0
      BY <1>1, FS_EmptySet DEF Counting
    <3> QED BY <2>1, <3>1 DEF Counting
  <2>4. act'.n = act.n - 1 /\ act'.busy = act.busy \ {r}
    BY <1>1, <2>3 DEF end, Guarded
  <2> QED BY <2>2, <2>4 DEF Counting
<1>2. CASE r \notin act.busy
  BY <1>2 DEF Counting, end, Guarded
<1> QED BY <1>1, <1>2

LEMMA EndType ==
  ASSUME ServerTypes, NEW r \in Req
  PROVE  end(r) \in [n : Int, old : BOOLEAN, busy : SUBSET Req]
  BY DEF ServerTypes, end

\* A server that has just started, with or without an index.
LEMMA ServerStart == Init => ServerInv
<1> SUFFICES ASSUME Init PROVE ServerInv
  OBVIOUS
<1>1. NoCall \in Call /\ NoCall.at = "none" /\ NoCall.on = Nobody /\ NoCall.floor = 0
      /\ NoCall.reply = "none"
  BY DEF NoCall, Call, Moments, Using, Replies
<1>2. \A r \in Req : req[r] = NoCall
  BY DEF Init
<1>4. gen \in Gen /\ gen \in Nat
  BY BoundType DEF Init, Gen
<1>5. \A s \in Store : store[s] \in Reader /\ store[s].gen = store[s].seen /\ store[s].gen <= gen
  <2> TAKE s \in Store
  <2>1. CASE s = "ml"
    <3>1. store[s] = Closed
      BY <2>1 DEF Init
    <3> QED BY <1>4, <3>1 DEF Closed, Reader
  <2>2. CASE s # "ml"
    <3>1. store[s] = [gen |-> gen, seen |-> gen, holder |-> Nobody, poisoned |-> FALSE]
      BY <2>2 DEF Init, Closed
    <3> QED BY <1>4, <3>1 DEF Reader
  <2> QED BY <2>1, <2>2
<1>6. store \in [Store -> Reader]
  <2>1. store = [s \in Store |-> store[s]]
    BY DEF Init
  <2> QED BY <2>1, <1>5
<1>7. ServerTypes
  <2>1. req \in [Req -> Call]
    BY <1>1 DEF Init
  <2>2. cell \in [{"fts", "ml"} -> Req \cup {"empty", "set"}]
    BY DEF Init
  <2>3. act \in [n : Int, old : BOOLEAN, busy : SUBSET Req]
    BY DEF Init
  <2>6. slipped \in BOOLEAN /\ kept \in BOOLEAN
        /\ srv \in {"up", "idle", "down", "gone"}
    BY DEF Init
  <2>4. weights \in [bytes : {"none", "good", "bad"}, ref : BOOLEAN]
    <3>1. CASE weights \in [bytes : {"none", "good", "bad"}, ref : {FALSE}]
      BY <3>1
    <3>2. CASE weights = [bytes |-> "good", ref |-> TRUE]
      BY <3>2
    <3> QED BY <3>1, <3>2 DEF Init
  <2>5. model \in [loaded : {"none", "good", "bad"}, layers : {"gpu", "cpu"}, unused : BOOLEAN]
    BY DEF Init
  <2> QED BY <1>4, <1>6, <2>1, <2>2, <2>3, <2>4, <2>5, <2>6 DEF ServerTypes
<1>8. Holding
  BY <1>1, <1>2 DEF Holding, Using
<1>9. Freshness
  BY <1>1, <1>2, <1>4, <1>5 DEF Freshness, FreshFor, Reader
<1>10. Readiness
  <2>1. cell["ml"] = "empty" /\ model.loaded = "none"
    BY DEF Init
  <2>2. weights.ref => weights.bytes = "good"
    <3>1. CASE weights \in [bytes : {"none", "good", "bad"}, ref : {FALSE}]
      BY <3>1
    <3>2. CASE weights = [bytes |-> "good", ref |-> TRUE]
      BY <3>2
    <3> QED BY <3>1, <3>2 DEF Init
  <2> QED BY <1>1, <1>2, <2>1, <2>2 DEF Readiness, ReadyFor, Using
<1>11. Counting
  <2>1. InProgress = {}
    BY <1>1, <1>2 DEF InProgress
  <2> QED BY <2>1, FS_EmptySet DEF Counting, Init
<1> QED BY <1>7, <1>8, <1>9, <1>10, <1>11 DEF ServerInv

\* What moving a call on leaves alone.
LEMMA Moves ==
  ASSUME ServerTypes, NEW r \in Req, NEW at \in Moments, To(r, at)
  PROVE  /\ req' \in [Req -> Call]
         /\ req'[r] = [req[r] EXCEPT !.at = at]
         /\ \A t \in Req \ {r} : req'[t] = req[t]
  BY DEF To, ServerTypes, Call

\* What the end of a call does to it and to the count.
LEMMA ReplyIs ==
  ASSUME ServerTypes, NEW r \in Req, NEW how \in Replies, NEW saw \in Nat, Reply(r, how, saw)
  PROVE  /\ req' \in [Req -> Call]
         /\ req'[r].at = "done" /\ req'[r].on = Nobody /\ req'[r].saw = saw
         /\ req'[r].reply \in {how, "cut"}
         /\ req'[r].kind = req[r].kind /\ req'[r].floor = req[r].floor
         /\ \A t \in Req \ {r} : req'[t] = req[t]
         /\ act' \in [n : Int, old : BOOLEAN, busy : SUBSET Req] /\ act' = end(r)
  <1>1. req[r] \in Call
    BY DEF ServerTypes
  <1>2. req'[r] = [req[r] EXCEPT !.at = "done", !.on = Nobody, !.saw = saw,
                                 !.reply = IF r \in act.busy THEN how ELSE "cut"]
    BY DEF Reply, ServerTypes
  <1>3. req'[r] \in Call
    BY <1>1, <1>2 DEF Call, Moments, Replies
  <1>4. \A t \in Req \ {r} : req'[t] = req[t]
    BY DEF Reply, ServerTypes
  <1>5. req' \in [Req -> Call]
    BY <1>3 DEF Reply, ServerTypes
  <1>6. act' \in [n : Int, old : BOOLEAN, busy : SUBSET Req] /\ act' = end(r)
    BY EndType DEF Reply
  <1> QED BY <1>1, <1>2, <1>4, <1>5, <1>6 DEF Call

\* What unlocking a store leaves alone.
LEMMA Released ==
  ASSUME ServerTypes, NEW r \in Req, req[r].on \in Store, store' = Release(r)
  PROVE  /\ store' \in [Store -> Reader]
         /\ \A s \in Store : /\ store'[s].gen = store[s].gen /\ store'[s].seen = store[s].seen
                             /\ s # req[r].on => store'[s] = store[s]
  BY DEF Release, ServerTypes, Reader

---------------------------------------------------------------------------
(* Every step keeps the invariant.  First the steps of no call.             *)

\* The clocks, the end of the server and a client that goes touch neither calls
\* nor stores.
LEMMA ClockSteps ==
  ASSUME ServerInv, \/ IdlePeriodPasses \/ idle_expired \/ Shutdown \/ Gone
                    \/ \E r \in Req : Disconnect(r)
  PROVE  ServerInv'
  <1>1. UNCHANGED <<gen, cell, store, weights, model, req, slipped, kept>>
    BY DEF IdlePeriodPasses, idle_expired, Shutdown, Gone, Disconnect
  <1>2. srv' \in {"up", "idle", "down", "gone"}
    BY DEF IdlePeriodPasses, idle_expired, Shutdown, Gone, Disconnect, ServerInv, ServerTypes
  <1>3. act' \in [n : Int, old : BOOLEAN, busy : SUBSET Req] /\ Counting'
    <2>0. InProgress' = InProgress
      BY <1>1 DEF InProgress
    <2>1. CASE IdlePeriodPasses \/ idle_expired \/ Gone
      <3>1. /\ act' \in [n : Int, old : BOOLEAN, busy : SUBSET Req]
            /\ act'.n = act.n /\ act'.busy = act.busy
        BY <2>1 DEF IdlePeriodPasses, idle_expired, Gone, ServerInv, ServerTypes
      <3> QED BY <2>0, <3>1, CountSame DEF ServerInv
    <2>2. CASE Shutdown
      <3>1. /\ act' \in [n : Int, old : BOOLEAN, busy : SUBSET Req]
            /\ act'.n = 0 /\ act'.busy = {}
        <4>1. act' = [act EXCEPT !.n = 0, !.busy = {}]
          BY <2>2 DEF Shutdown
        <4>2. act \in [n : Int, old : BOOLEAN, busy : SUBSET Req]
          BY DEF ServerInv, ServerTypes
        <4>3. /\ act.old \in BOOLEAN
              /\ act' = [n |-> 0, old |-> act.old, busy |-> {}]
          BY <4>1, <4>2
        <4> QED BY <4>3
      <3> QED BY <3>1, FS_EmptySet DEF Counting
    <2>3. ASSUME NEW r \in Req, Disconnect(r)
          PROVE  act' \in [n : Int, old : BOOLEAN, busy : SUBSET Req] /\ Counting'
      <3>1. act' = end(r) /\ r \in act.busy
        BY <2>3 DEF Disconnect
      <3>2. act' \in [n : Int, old : BOOLEAN, busy : SUBSET Req]
        BY <3>1, EndType DEF ServerInv
      <3> QED BY <2>0, <3>1, <3>2, CountEnds DEF ServerInv
    <2> QED BY <2>1, <2>2, <2>3
  <1>4. ServerTypes'
    BY <1>1, <1>2, <1>3 DEF ServerInv, ServerTypes
  <1>5. Holding' /\ Freshness' /\ Readiness'
    BY <1>1 DEF ServerInv, Holding, Freshness, FreshFor, Readiness, ReadyFor, Verified
  <1> QED BY <1>3, <1>4, <1>5 DEF ServerInv

\* A commit only moves the generation on.
LEMMA CommitStep == ASSUME ServerInv, Commit PROVE ServerInv'
  <1>1. gen \in Nat /\ gen' = gen + 1
    BY DEF Commit, ServerInv, ServerTypes
  <1>2. UNCHANGED <<cell, store, weights, model, req, act, srv, slipped, kept>>
    BY DEF Commit
  <1>3. ServerTypes'
    <2>1. gen' \in Gen /\ gen' \in Nat
      BY <1>1, BoundType DEF Commit, Gen
    <2> QED BY <1>2, <2>1 DEF ServerInv, ServerTypes
  <1>4. Holding' /\ Readiness'
    BY <1>2 DEF ServerInv, Holding, Readiness, ReadyFor, Verified
  <1>5. Freshness'
    BY <1>1, <1>2 DEF ServerInv, ServerTypes, Freshness, FreshFor, Reader, Call
  <1>6. Counting'
    <2>1. InProgress' = InProgress
      BY <1>2 DEF InProgress
    <2> QED BY <1>2, <2>1, CountSame DEF ServerInv
  <1> QED BY <1>3, <1>4, <1>5, <1>6 DEF ServerInv

\* The sweep takes the model only when no query holds the model store.
LEMMA SweepSteps == ASSUME ServerInv, TtlPasses \/ release_idle_models PROVE ServerInv'
  <1>1. UNCHANGED <<gen, cell, store, weights, req, act, srv, slipped, kept>>
    BY DEF TtlPasses, release_idle_models
  <1>2. model' \in [loaded : {"none", "good", "bad"}, layers : {"gpu", "cpu"}, unused : BOOLEAN]
    BY DEF TtlPasses, release_idle_models, ServerInv, ServerTypes
  <1>3. model'.loaded \in {model.loaded, "none"}
    BY DEF TtlPasses, release_idle_models, ServerInv, ServerTypes
  <1>4. ServerTypes'
    BY <1>1, <1>2 DEF ServerInv, ServerTypes
  <1>5. Holding' /\ Freshness'
    BY <1>1 DEF ServerInv, Holding, Freshness, FreshFor
  <1>6. ASSUME NEW r \in Req, req[r].at = "infer" PROVE model'.loaded # "none"
    <2>1. store["ml"].holder = r
      BY <1>6 DEF ServerInv, Holding, Using, Pool
    <2>2. ~release_idle_models
      BY <2>1, ReqType DEF release_idle_models, TryLock
    <2>3. model'.loaded = model.loaded
      BY <2>2 DEF TtlPasses, ServerInv, ServerTypes
    <2> QED BY <1>6, <2>3 DEF ServerInv, Readiness, ReadyFor
  <1>7. Readiness'
    BY <1>1, <1>3, <1>6 DEF ServerInv, Readiness, ReadyFor, Verified
  <1>8. Counting'
    <2>1. InProgress' = InProgress
      BY <1>1 DEF InProgress
    <2> QED BY <1>1, <2>1, CountSame DEF ServerInv
  <1> QED BY <1>4, <1>5, <1>7, <1>8 DEF ServerInv

---------------------------------------------------------------------------
(* The steps of a call, up to its store.                                    *)

\* A call begins.
LEMMA ArriveStep == ASSUME ServerInv, NEW r \in Req, Arrive(r) PROVE ServerInv'
  <1>1. UNCHANGED <<gen, cell, store, weights, model, srv, slipped, kept>>
    BY DEF Arrive
  <1>2. PICK kind \in {"search", "query"}, refresh \in BOOLEAN :
          req' = [req EXCEPT ![r] = [NoCall EXCEPT !.kind = kind, !.at = "index", !.refresh = refresh]]
    BY DEF Arrive
  <1>3. /\ req'[r] = [kind |-> kind, at |-> "index", refresh |-> refresh, floor |-> 0,
                      on |-> Nobody, mtime |-> 0, reply |-> "none", saw |-> 0]
        /\ \A t \in Req \ {r} : req'[t] = req[t]
        /\ req' \in [Req -> Call]
    BY <1>2 DEF NoCall, ServerInv, ServerTypes, Call, Moments, Replies
  <1>4. act' \in [n : Int, old : BOOLEAN, busy : SUBSET Req] /\ act' = begin(r)
    BY DEF Arrive, begin, ServerInv, ServerTypes
  <1>5. ServerTypes'
    BY <1>1, <1>3, <1>4 DEF ServerInv, ServerTypes
  <1>6. Holding'
    BY <1>1, <1>3 DEF ServerInv, Holding, Using
  <1>7. Freshness'
    BY <1>1, <1>3 DEF ServerInv, ServerTypes, Freshness, FreshFor, Using
  <1>8. Readiness'
    BY <1>1, <1>3 DEF ServerInv, Readiness, ReadyFor, Verified, Using, Arrive
  <1>9. Counting'
    <2>1. r \notin InProgress /\ InProgress' = InProgress \cup {r}
      BY <1>3 DEF InProgress, Arrive
    <2> QED BY <1>4, <2>1, CountBegins DEF ServerInv
  <1> QED BY <1>5, <1>6, <1>7, <1>8, <1>9 DEF ServerInv

\* A call that moves on is still counted, and one that is answered is not.
LEMMA CountMoves ==
  ASSUME ServerInv, NEW r \in InProgress, act' = act,
         req'[r].at \notin {"none", "done"}, \A t \in Req \ {r} : req'[t] = req[t]
  PROVE  Counting'
  <1>1. InProgress' = InProgress
    BY DEF InProgress
  <1> QED BY <1>1, CountSame DEF ServerInv

LEMMA CountReplies ==
  ASSUME ServerInv, NEW r \in InProgress, act' = end(r),
         req'[r].at = "done", \A t \in Req \ {r} : req'[t] = req[t]
  PROVE  Counting'
  <1>1. r \in Req /\ InProgress' = InProgress \ {r}
    BY DEF InProgress
  <1> QED BY <1>1, CountEnds DEF ServerInv

\* A call that has no store, before the step or after, disturbs no holder.
LEMMA HoldsApart ==
  ASSUME ServerInv, NEW r \in Req, req[r].at \notin Using, req'[r].at \notin Using,
         req'[r].on = Nobody, \A t \in Req \ {r} : req'[t] = req[t],
         \A s \in Store : store'[s].holder = store[s].holder
  PROVE  Holding'
  <1>1. ASSUME NEW t \in Req \ {r}
        PROVE  /\ req'[t].at \notin Using => req'[t].on = Nobody
               /\ req'[t].at \in Using => req'[t].on \in Pool(req'[t].kind)
                                          /\ store'[req'[t].on].holder = t
               /\ req'[t].at = "infer" => req'[t].kind = "query"
    <2>1. req'[t] = req[t]
      OBVIOUS
    <2>2. req[t].at \in Using => req[t].on \in Store
      BY DEF ServerInv, Holding, Pool, Store
    <2> QED BY <2>1, <2>2 DEF ServerInv, Holding
  <1>2. req'[r].at # "infer"
    BY DEF Using
  <1> QED BY <1>1, <1>2 DEF Holding

\* Nor does one whose store and model are still to come touch what is known of
\* theirs.
LEMMA FreshApart ==
  ASSUME ServerInv, NEW r \in Req, store' = store, slipped' = slipped,
         gen' \in Nat, gen <= gen', \A t \in Req \ {r} : req'[t] = req[t],
         req'[r].floor <= gen', req'[r].at \notin Using, req'[r].reply # "ok"
  PROVE  Freshness'
  <1>1. gen \in Nat /\ \A s \in Store : store[s] \in Reader
    BY DEF ServerInv, ServerTypes
  <1>2. \A s \in Store : /\ store'[s].gen <= gen' /\ store'[s].seen <= gen'
                         /\ ~slipped' => store'[s].seen <= store'[s].gen
    BY <1>1 DEF ServerInv, Freshness, FreshFor, Reader
  <1>3. ASSUME NEW t \in Req \ {r}
        PROVE  FreshFor(t)'
    <2>1. req'[t] = req[t] /\ req[t] \in Call
      BY DEF ServerInv, ServerTypes
    <2> QED BY <1>1, <2>1 DEF ServerInv, Freshness, FreshFor, Call
  <1> QED BY <1>2, <1>3 DEF Freshness, FreshFor, Using

LEMMA ReadyApart ==
  ASSUME ServerInv, NEW r \in Req, UNCHANGED <<cell, weights, model, kept>>,
         \A t \in Req \ {r} : req'[t] = req[t], req[r].at # "verify",
         req'[r].at \notin {"cached", "fetch", "verify", "open", "stat", "infer"},
         req'[r].at \in {"lock"} \cup Using /\ req'[r].kind = "query" => cell["ml"] = "set"
  PROVE  Readiness'
  <1>1. weights.ref /\ weights.bytes # "good" =>
          weights.bytes = "bad" /\ (kept \/ \E t \in Req : req'[t].at = "verify")
    <2>1. \A t \in Req : req[t].at = "verify" => req'[t].at = "verify"
      OBVIOUS
    <2> QED BY <2>1 DEF ServerInv, Readiness, ReadyFor
  <1>2. ASSUME NEW t \in Req \ {r}
        PROVE  ReadyFor(t)'
    <2>1. req'[t] = req[t] /\ Verified' = Verified
      BY DEF Verified
    <2> QED BY <2>1 DEF ServerInv, Readiness, ReadyFor
  <1>3. cell'["ml"] = "set" => Verified'
    BY DEF ServerInv, Readiness, ReadyFor, Verified
  <1> QED BY <1>1, <1>2, <1>3 DEF ServerInv, Readiness, ReadyFor

\* Without an index the call is over; with one it has its floor.
LEMMA IndexStep == ASSUME ServerInv, NEW r \in Req, existing_index(r) PROVE ServerInv'
  <1>1. UNCHANGED <<gen, cell, store, weights, model, srv, slipped, kept>> /\ req[r].at = "index"
    BY DEF existing_index
  <1>2. req[r] \in Call /\ gen \in Nat
    BY DEF ServerInv, ServerTypes
  <1>3. CASE gen = 0 /\ Reply(r, "noindex", 0)
    <2>1. /\ req' \in [Req -> Call] /\ act' \in [n : Int, old : BOOLEAN, busy : SUBSET Req] /\ act' = end(r)
          /\ req'[r].at = "done" /\ req'[r].on = Nobody /\ req'[r].floor = req[r].floor
          /\ req'[r].reply # "ok" /\ req'[r].kind = req[r].kind
          /\ \A t \in Req \ {r} : req'[t] = req[t]
      BY <1>3, ReplyIs DEF ServerInv, Replies
    <2>2. ServerTypes'
      BY <1>1, <2>1 DEF ServerInv, ServerTypes
    <2>3. Holding'
      BY <1>1, <2>1, HoldsApart DEF Using
    <2>4. Freshness'
      BY <1>1, <2>1 DEF ServerInv, Freshness, FreshFor
    <2>5. Readiness'
      BY <1>1, <2>1 DEF ServerInv, Readiness, ReadyFor, Verified, Using
    <2>6. Counting'
      BY <1>1, <2>1, CountReplies DEF InProgress
    <2> QED BY <2>2, <2>3, <2>4, <2>5, <2>6 DEF ServerInv
  <1>4. CASE /\ gen # 0 /\ UNCHANGED act
             /\ req' = [req EXCEPT ![r].floor = gen,
                                   ![r].at = IF req[r].refresh THEN "refresh" ELSE "cell"]
    <2>1. /\ req'[r] = [req[r] EXCEPT !.floor = gen,
                                      !.at = IF req[r].refresh THEN "refresh" ELSE "cell"]
          /\ \A t \in Req \ {r} : req'[t] = req[t]
      BY <1>4 DEF ServerInv, ServerTypes
    <2>2. /\ req'[r].at \in {"refresh", "cell"} /\ req'[r].on = req[r].on
          /\ req'[r].floor = gen /\ req'[r].reply = req[r].reply /\ req'[r].kind = req[r].kind
      BY <1>2, <2>1 DEF Call
    <2>3. req' \in [Req -> Call]
      <3>1. req'[r] \in Call
        BY <1>2, <2>1 DEF Call, Moments
      <3> QED BY <1>4, <3>1 DEF ServerInv, ServerTypes
    <2>4. ServerTypes'
      BY <1>1, <1>4, <2>3 DEF ServerInv, ServerTypes
    <2>5. Holding'
      <3>1. req[r].on = Nobody
        BY <1>1 DEF ServerInv, Holding, Using
      <3> QED BY <1>1, <2>1, <2>2, <3>1, HoldsApart DEF Using
    <2>6. Freshness'
      <3>1. req[r].reply # "ok"
        BY <1>1 DEF ServerInv, Freshness, FreshFor
      <3>2. gen' \in Nat /\ gen <= gen' /\ req'[r].floor <= gen'
        BY <1>1, <1>2, <2>2
      <3>3. req'[r].at \notin Using /\ req'[r].reply # "ok"
        BY <2>2, <3>1 DEF Using
      <3>4. store' = store /\ slipped' = slipped
        BY <1>1
      <3> QED BY <2>1, <3>2, <3>3, <3>4, FreshApart
    <2>7. Readiness'
      BY <1>1, <2>1, <2>2, ReadyApart DEF Using
    <2>8. Counting'
      BY <1>1, <1>4, <2>1, <2>2, CountMoves DEF InProgress
    <2> QED BY <2>4, <2>5, <2>6, <2>7, <2>8 DEF ServerInv
  <1> QED BY <1>3, <1>4 DEF existing_index

\* The refresh of a call moves its floor up to what it committed.
LEMMA RefreshStep == ASSUME ServerInv, NEW r \in Req, refresh_note(r) PROVE ServerInv'
  <1>1. UNCHANGED <<cell, store, weights, model, act, srv, slipped, kept>> /\ req[r].at = "refresh"
    BY DEF refresh_note
  <1>2. req[r] \in Call /\ gen \in Nat /\ gen' \in Nat /\ gen <= gen'
    BY DEF ServerInv, ServerTypes, refresh_note
  <1>3. /\ req'[r] = [req[r] EXCEPT !.floor = gen', !.at = "cell"]
        /\ \A t \in Req \ {r} : req'[t] = req[t]
    BY DEF ServerInv, ServerTypes, refresh_note
  <1>4. /\ req'[r].at = "cell" /\ req'[r].on = req[r].on
        /\ req'[r].floor = gen' /\ req'[r].reply = req[r].reply /\ req'[r].kind = req[r].kind
    BY <1>2, <1>3 DEF Call
  <1>5. req' \in [Req -> Call]
    <2>1. req'[r] \in Call
      BY <1>2, <1>3 DEF Call, Moments
    <2> QED BY <2>1 DEF ServerInv, ServerTypes, refresh_note
  <1>6. ServerTypes'
    <2>1. gen' \in Gen
      BY DEF refresh_note
    <2> QED BY <1>1, <1>2, <1>5, <2>1 DEF ServerInv, ServerTypes
  <1>7. Holding'
    <2>1. req[r].on = Nobody
      BY <1>1 DEF ServerInv, Holding, Using
    <2> QED BY <1>1, <1>3, <1>4, <2>1, HoldsApart DEF Using
  <1>8. Freshness'
    <2>1. req[r].reply # "ok"
      BY <1>1 DEF ServerInv, Freshness, FreshFor
    <2>2. gen' \in Nat /\ gen <= gen' /\ req'[r].floor <= gen'
      BY <1>2, <1>4
    <2>3. req'[r].at \notin Using /\ req'[r].reply # "ok"
      BY <1>4, <2>1 DEF Using
    <2>4. store' = store /\ slipped' = slipped
      BY <1>1
    <2> QED BY <1>3, <2>2, <2>3, <2>4, FreshApart
  <1>9. Readiness'
    BY <1>1, <1>3, <1>4, ReadyApart DEF Using
  <1>10. Counting'
    BY <1>1, <1>3, <1>4, CountMoves DEF InProgress
  <1> QED BY <1>6, <1>7, <1>8, <1>9, <1>10 DEF ServerInv

\* While a call initialises the model store no other call has to do with it.
LEMMA ReadyOthers ==
  ASSUME ServerInv, NEW r \in Req, \A t \in Req \ {r} : req'[t] = req[t],
         model.loaded # "none" => model'.loaded # "none",
         \/ cell["ml"] \in {"empty", r}
         \/ cell'["ml"] = cell["ml"] /\ weights' = weights /\ (kept => kept')
  PROVE  \A t \in Req \ {r} : ReadyFor(t)'
  <1> TAKE t \in Req \ {r}
  <1>1. req'[t] = req[t] /\ t # "empty" /\ r # "set" /\ "empty" # "set"
    BY ReqType
  <1>2. ReadyFor(t)
    BY DEF ServerInv, Readiness
  <1>3. CASE cell["ml"] \in {"empty", r}
    BY <1>1, <1>2, <1>3 DEF ReadyFor
  <1>4. CASE cell'["ml"] = cell["ml"] /\ weights' = weights /\ (kept => kept')
    <2>1. Verified => Verified'
      BY <1>4 DEF Verified
    <2> QED BY <1>1, <1>2, <1>4, <2>1 DEF ReadyFor
  <1> QED BY <1>3, <1>4

\* One call becomes the one that initialises.
LEMMA GetCellStep == ASSUME ServerInv, NEW r \in Req, GetCell(r) PROVE ServerInv'
  <1>1. /\ UNCHANGED <<gen, store, weights, model, act, srv, slipped, kept>>
        /\ req[r].at = "cell"
    BY DEF GetCell
  <1>2. gen \in Nat /\ req[r] \in Call /\ cell \in [{"fts", "ml"} -> Req \cup {"empty", "set"}]
        /\ Cell(r) \in {"fts", "ml"}
    BY DEF ServerInv, ServerTypes, Cell
  <1>3. PICK at \in {"lock", "cached", "open"} : To(r, at)
    BY DEF GetCell
  <1>4. /\ req' \in [Req -> Call] /\ req'[r] = [req[r] EXCEPT !.at = at]
        /\ \A t \in Req \ {r} : req'[t] = req[t]
    BY <1>3, Moves DEF ServerInv, Moments
  <1>5. /\ req'[r].at = at /\ req'[r].on = req[r].on /\ req'[r].floor = req[r].floor
        /\ req'[r].reply = req[r].reply /\ req'[r].kind = req[r].kind
    BY <1>2, <1>4 DEF Call
  <1>6. /\ cell' \in [{"fts", "ml"} -> Req \cup {"empty", "set"}]
        /\ \/ at = "lock" /\ cell' = cell /\ cell[Cell(r)] = "set"
           \/ /\ cell[Cell(r)] = "empty" /\ cell' = [cell EXCEPT ![Cell(r)] = r]
              /\ at = IF req[r].kind = "query" THEN "cached" ELSE "open"
    <2>1. CASE cell[Cell(r)] = "set" /\ To(r, "lock") /\ UNCHANGED cell
      <3>1. req'[r].at = "lock"
        <4>1. req'[r] = [req[r] EXCEPT !.at = "lock"]
          BY <2>1 DEF To, ServerInv, ServerTypes
        <4> QED BY <1>2, <4>1 DEF Call
      <3> QED BY <1>2, <1>5, <2>1, <3>1
    <2>2. CASE /\ cell[Cell(r)] = "empty" /\ cell' = [cell EXCEPT ![Cell(r)] = r]
               /\ To(r, IF req[r].kind = "query" THEN "cached" ELSE "open")
      <3>1. req'[r].at = IF req[r].kind = "query" THEN "cached" ELSE "open"
        <4>1. req'[r] = [req[r] EXCEPT !.at = IF req[r].kind = "query" THEN "cached" ELSE "open"]
          BY <2>2 DEF To, ServerInv, ServerTypes
        <4> QED BY <1>2, <4>1 DEF Call
      <3> QED BY <1>2, <1>5, <2>2, <3>1
    <2> QED BY <2>1, <2>2 DEF GetCell
  <1>7. ServerTypes'
    BY <1>1, <1>4, <1>6 DEF ServerInv, ServerTypes
  <1>8. Holding'
    <2>1. req[r].on = Nobody
      BY <1>1 DEF ServerInv, Holding, Using
    <2> QED BY <1>1, <1>4, <1>5, <2>1, HoldsApart DEF Using
  <1>9. Freshness'
    <2>1. req[r].reply # "ok" /\ req[r].floor <= gen
      BY <1>1 DEF ServerInv, Freshness, FreshFor
    <2>2. req'[r].at \notin Using /\ req'[r].reply # "ok" /\ req'[r].floor <= gen'
      BY <1>1, <1>5, <2>1 DEF Using
    <2>3. store' = store /\ slipped' = slipped /\ gen' \in Nat /\ gen <= gen'
      BY <1>1, <1>2
    <2> QED BY <1>4, <2>2, <2>3, FreshApart
  <1>10. Readiness'
    <2>1. CASE at = "lock" /\ cell' = cell /\ cell[Cell(r)] = "set"
      BY <1>1, <1>4, <1>5, <2>1, ReadyApart DEF Cell, Using
    <2>2. CASE /\ cell[Cell(r)] = "empty" /\ cell' = [cell EXCEPT ![Cell(r)] = r]
               /\ at = IF req[r].kind = "query" THEN "cached" ELSE "open"
      <3>1. \/ cell["ml"] \in {"empty", r}
            \/ cell'["ml"] = cell["ml"] /\ weights' = weights /\ (kept => kept')
        BY <1>1, <1>2, <2>2 DEF Cell
      <3>2. \A t \in Req \ {r} : ReadyFor(t)'
        BY <1>1, <1>4, <3>1, ReadyOthers
      <3>3. req[r].kind = "query" => cell'["ml"] = r
        BY <1>2, <2>2 DEF Cell
      <3>4. /\ req'[r].at \in {"cached", "fetch", "verify"} => req'[r].kind = "query"
            /\ req'[r].at \in {"cached", "open"}
            /\ req'[r].at = "open" => req'[r].kind # "query"
            /\ req'[r].kind = "query" => cell'["ml"] = r
        BY <1>5, <2>2, <3>3
      <3>5. cell'["ml"] = "set" => Verified'
        <4>1. cell'["ml"] = "set" => cell["ml"] = "set"
          BY <1>2, <2>2, ReqType DEF Cell
        <4> QED BY <1>1, <4>1 DEF ServerInv, Readiness, ReadyFor, Verified
      <3>6. weights'.ref /\ weights'.bytes # "good" =>
              weights'.bytes = "bad" /\ (kept' \/ \E t \in Req : req'[t].at = "verify")
        <4>1. \A t \in Req : req[t].at = "verify" => req'[t].at = "verify"
          BY <1>1, <1>4
        <4> QED BY <1>1, <4>1 DEF ServerInv, Readiness, ReadyFor
      <3>7. ~kept' => model'.loaded # "bad"
        BY <1>1 DEF ServerInv, Readiness, ReadyFor
      <3> QED BY <3>2, <3>4, <3>5, <3>6, <3>7 DEF Readiness, ReadyFor, Using
    <2> QED BY <1>6, <2>1, <2>2
  <1>11. Counting'
    BY <1>1, <1>4, <1>5, CountMoves DEF InProgress
  <1> QED BY <1>7, <1>8, <1>9, <1>10, <1>11 DEF ServerInv

\* A call that initialises moves on, or fails and leaves the cell empty; what
\* it does to the weights is for the actions below to say.
LEMMA Initialises ==
  ASSUME ServerInv, NEW r \in Req, req[r].at \in {"cached", "fetch", "verify", "open"},
         UNCHANGED <<gen, store, model, srv, slipped>>,
         weights' \in [bytes : {"none", "good", "bad"}, ref : BOOLEAN],
         kept' \in BOOLEAN, kept => kept',
         \/ InitFails(r)
         \/ /\ UNCHANGED <<cell, act>> /\ req[r].kind = "query"
            /\ \E at \in {"fetch", "verify", "open"} : To(r, at) /\ (at = "open" => Verified'),
         req[r].kind # "query" => weights' = weights,
         weights'.ref /\ weights'.bytes # "good" =>
           weights'.bytes = "bad" /\ (kept' \/ \E t \in Req : req'[t].at = "verify")
  PROVE  ServerInv'
  <1>1. /\ gen \in Nat /\ req[r] \in Call /\ cell \in [{"fts", "ml"} -> Req \cup {"empty", "set"}]
        /\ Cell(r) \in {"fts", "ml"} /\ act \in [n : Int, old : BOOLEAN, busy : SUBSET Req]
        /\ req[r].on = Nobody /\ req[r].reply # "ok" /\ req[r].floor <= gen
    BY DEF ServerInv, ServerTypes, Cell, Holding, Using, Freshness, FreshFor
  <1>2. CASE InitFails(r)
    <2>1. /\ req' \in [Req -> Call] /\ act' \in [n : Int, old : BOOLEAN, busy : SUBSET Req] /\ act' = end(r)
          /\ req'[r].at = "done" /\ req'[r].on = Nobody /\ req'[r].floor = req[r].floor
          /\ req'[r].reply # "ok" /\ req'[r].kind = req[r].kind
          /\ \A t \in Req \ {r} : req'[t] = req[t]
      BY <1>2, ReplyIs DEF ServerInv, Replies, InitFails
    <2>2. /\ cell' = [cell EXCEPT ![Cell(r)] = "empty"]
          /\ cell' \in [{"fts", "ml"} -> Req \cup {"empty", "set"}]
      BY <1>1, <1>2 DEF InitFails
    <2>3. ServerTypes'
      BY <2>1, <2>2 DEF ServerInv, ServerTypes
    <2>4. Holding'
      BY <2>1, HoldsApart DEF Using
    <2>5. Freshness'
      <3>1. req'[r].at \notin Using /\ req'[r].floor <= gen' /\ gen' \in Nat /\ gen <= gen'
        BY <1>1, <2>1 DEF Using
      <3> QED BY <2>1, <3>1, FreshApart
    <2>6. Readiness'
      <3>1. req[r].kind = "query" => cell["ml"] = r
        BY DEF ServerInv, Readiness, ReadyFor
      <3>2. req[r].kind # "query" => cell'["ml"] = cell["ml"]
        BY <1>1, <2>2 DEF Cell
      <3>3. \/ cell["ml"] \in {"empty", r}
            \/ cell'["ml"] = cell["ml"] /\ weights' = weights /\ (kept => kept')
        BY <3>1, <3>2
      <3>4. \A t \in Req \ {r} : ReadyFor(t)'
        BY <2>1, <3>3, ReadyOthers
      <3>5. cell'["ml"] = "set" => Verified'
        <4>1. CASE req[r].kind = "query"
          BY <1>1, <2>2, <4>1 DEF Cell
        <4>2. CASE req[r].kind # "query"
          BY <3>2, <4>2 DEF ServerInv, Readiness, ReadyFor, Verified
        <4> QED BY <4>1, <4>2
      <3>6. ~kept' => model'.loaded # "bad"
        BY DEF ServerInv, Readiness, ReadyFor
      <3> QED BY <2>1, <3>4, <3>5, <3>6 DEF Readiness, ReadyFor, Using
    <2>7. Counting'
      BY <2>1, CountReplies DEF InProgress
    <2> QED BY <2>3, <2>4, <2>5, <2>6, <2>7 DEF ServerInv
  <1>3. CASE /\ UNCHANGED <<cell, act>> /\ req[r].kind = "query"
             /\ \E at \in {"fetch", "verify", "open"} : To(r, at) /\ (at = "open" => Verified')
    <2>1. PICK at \in {"fetch", "verify", "open"} : To(r, at) /\ (at = "open" => Verified')
      BY <1>3
    <2>2. /\ req' \in [Req -> Call] /\ req'[r] = [req[r] EXCEPT !.at = at]
          /\ \A t \in Req \ {r} : req'[t] = req[t]
      BY <2>1, Moves DEF ServerInv, Moments
    <2>3. /\ req'[r].at = at /\ req'[r].on = Nobody /\ req'[r].floor = req[r].floor
          /\ req'[r].reply = req[r].reply /\ req'[r].kind = "query"
      BY <1>1, <1>3, <2>2 DEF Call
    <2>4. ServerTypes'
      BY <1>3, <2>2 DEF ServerInv, ServerTypes
    <2>5. Holding'
      BY <2>2, <2>3, HoldsApart DEF Using
    <2>6. Freshness'
      <3>1. req'[r].at \notin Using /\ req'[r].floor <= gen' /\ gen' \in Nat /\ gen <= gen'
            /\ req'[r].reply # "ok"
        BY <1>1, <2>3 DEF Using
      <3> QED BY <2>2, <3>1, FreshApart
    <2>7. Readiness'
      <3>1. cell["ml"] = r /\ cell'["ml"] = r /\ r # "set"
        BY <1>3, ReqType DEF ServerInv, Readiness, ReadyFor
      <3>2. \A t \in Req \ {r} : ReadyFor(t)'
        BY <2>2, <3>1, ReadyOthers
      <3>3. ~kept' => model'.loaded # "bad"
        BY DEF ServerInv, Readiness, ReadyFor
      <3> QED BY <2>1, <2>3, <3>1, <3>2, <3>3 DEF Readiness, ReadyFor, Using
    <2>8. Counting'
      BY <1>3, <2>2, <2>3, CountMoves DEF InProgress
    <2> QED BY <2>4, <2>5, <2>6, <2>7, <2>8 DEF ServerInv
  <1> QED BY <1>2, <1>3

\* What is found in the hub's cache is only taken with a ref or verified.
LEMMA CachedStep == ASSUME ServerInv, NEW r \in Req, resolve_cached(r) PROVE ServerInv'
  <1>1. UNCHANGED <<gen, store, model, srv, slipped, kept>> /\ req[r].at = "cached"
    BY DEF resolve_cached
  <1>2. /\ req[r].kind = "query" /\ cell["ml"] = r /\ kept \in BOOLEAN /\ req[r] \in Call
        /\ weights \in [bytes : {"none", "good", "bad"}, ref : BOOLEAN]
    BY <1>1 DEF ServerInv, ServerTypes, Readiness, ReadyFor
  <1>3. weights.ref /\ weights.bytes # "good" => weights.bytes = "bad" /\ kept
    <2>1. ASSUME NEW t \in Req, req[t].at = "verify" PROVE FALSE
      <3>1. cell["ml"] = t
        BY <2>1 DEF ServerInv, Readiness, ReadyFor
      <3> QED BY <1>1, <1>2, <2>1, <3>1
    <2> QED BY <2>1 DEF ServerInv, Readiness, ReadyFor
  <1>4. CASE weights.ref /\ To(r, "open") /\ UNCHANGED <<cell, weights, act>>
    <2>1. Verified'
      BY <1>1, <1>2, <1>3, <1>4 DEF Verified
    <2> QED BY <1>1, <1>2, <1>3, <1>4, <2>1, Initialises
  <1>5. CASE /\ ~weights.ref /\ weights.bytes = "good" /\ weights' = [weights EXCEPT !.ref = TRUE]
             /\ To(r, "open") /\ UNCHANGED <<cell, act>>
    <2>1. /\ weights'.bytes = "good"
          /\ weights' \in [bytes : {"none", "good", "bad"}, ref : BOOLEAN]
      BY <1>2, <1>5
    <2>2. Verified'
      BY <2>1 DEF Verified
    <2> QED BY <1>1, <1>2, <1>5, <2>1, <2>2, Initialises
  <1>6. CASE ~weights.ref /\ weights.bytes = "bad" /\ InitFails(r) /\ UNCHANGED weights
    BY <1>1, <1>2, <1>6, Initialises
  <1>7. CASE weights.bytes = "none" /\ To(r, "fetch") /\ UNCHANGED <<cell, weights, act>>
    BY <1>1, <1>2, <1>3, <1>7, Initialises
  <1> QED BY <1>4, <1>5, <1>6, <1>7 DEF resolve_cached

\* What is downloaded is verified next.
LEMMA FetchStep == ASSUME ServerInv, NEW r \in Req, get_verified(r) PROVE ServerInv'
  <1>1. UNCHANGED <<gen, store, model, srv, slipped, kept>> /\ req[r].at = "fetch"
    BY DEF get_verified
  <1>2. /\ req[r].kind = "query" /\ cell["ml"] = r /\ kept \in BOOLEAN /\ req[r] \in Call
        /\ weights \in [bytes : {"none", "good", "bad"}, ref : BOOLEAN]
    BY <1>1 DEF ServerInv, ServerTypes, Readiness, ReadyFor
  <1>3. CASE InitFails(r) /\ UNCHANGED weights
    <2>1. weights.ref /\ weights.bytes # "good" => weights.bytes = "bad" /\ kept
      <3>1. ASSUME NEW t \in Req, req[t].at = "verify" PROVE FALSE
        <4>1. cell["ml"] = t
          BY <3>1 DEF ServerInv, Readiness, ReadyFor
        <4> QED BY <1>1, <1>2, <3>1, <4>1
      <3> QED BY <3>1 DEF ServerInv, Readiness, ReadyFor
    <2>2. /\ weights' \in [bytes : {"none", "good", "bad"}, ref : BOOLEAN]
          /\ weights'.ref /\ weights'.bytes # "good" =>
               weights'.bytes = "bad" /\ (kept' \/ \E t \in Req : req'[t].at = "verify")
          /\ kept' \in BOOLEAN /\ (kept => kept')
      BY <1>1, <1>2, <1>3, <2>1
    <2>3. InitFails(r) /\ UNCHANGED <<gen, store, model, srv, slipped>> /\ weights' = weights
      BY <1>1, <1>3
    <2> QED BY <1>1, <2>2, <2>3, Initialises
  <1>4. CASE /\ weights' \in {[bytes |-> "good", ref |-> TRUE], [bytes |-> "bad", ref |-> TRUE]}
             /\ To(r, "verify") /\ UNCHANGED <<cell, act>>
    <2>1. /\ weights'.bytes \in {"good", "bad"}
          /\ weights' \in [bytes : {"none", "good", "bad"}, ref : BOOLEAN]
      <3>1. CASE weights' = [bytes |-> "good", ref |-> TRUE]
        BY <3>1
      <3>2. CASE weights' = [bytes |-> "bad", ref |-> TRUE]
        BY <3>2
      <3> QED BY <1>4, <3>1, <3>2
    <2>2. req'[r].at = "verify"
      <3>1. req'[r] = [req[r] EXCEPT !.at = "verify"]
        BY <1>4 DEF To, ServerInv, ServerTypes
      <3> QED BY <1>2, <3>1 DEF Call
    <2> QED BY <1>1, <1>2, <1>4, <2>1, <2>2, Initialises
  <1> QED BY <1>3, <1>4 DEF get_verified

\* A download that is not what it should be goes no further.
LEMMA VerifyStep == ASSUME ServerInv, NEW r \in Req, verify_sha256(r) PROVE ServerInv'
  <1>1. UNCHANGED <<gen, store, weights, model, srv, slipped>> /\ req[r].at = "verify"
    BY DEF verify_sha256
  <1>2. /\ req[r].kind = "query" /\ kept \in BOOLEAN
        /\ weights \in [bytes : {"none", "good", "bad"}, ref : BOOLEAN]
    BY <1>1 DEF ServerInv, ServerTypes, Readiness, ReadyFor
  <1>3. CASE weights.bytes = "good" /\ To(r, "open") /\ UNCHANGED <<cell, act, kept>>
    <2>1. Verified'
      BY <1>1, <1>3 DEF Verified
    <2> QED BY <1>1, <1>2, <1>3, <2>1, Initialises
  <1>4. CASE weights.bytes = "bad" /\ InitFails(r) /\ kept' = TRUE
    BY <1>1, <1>2, <1>4, Initialises
  <1> QED BY <1>3, <1>4 DEF verify_sha256

\* Opening makes the readers of a whole pool; a commit before the stat shows
\* in slipped.
LEMMA OpenStep == ASSUME ServerInv, NEW r \in Req, open(r) PROVE ServerInv'
  <1>1. UNCHANGED <<gen, weights, model, srv, slipped, kept>> /\ req[r].at = "open"
    BY DEF open
  <1>2. /\ gen \in Nat /\ req[r] \in Call /\ kept \in BOOLEAN /\ store \in [Store -> Reader]
        /\ weights \in [bytes : {"none", "good", "bad"}, ref : BOOLEAN]
        /\ req[r].on = Nobody /\ req[r].reply # "ok" /\ req[r].floor <= gen
    BY <1>1 DEF ServerInv, ServerTypes, Holding, Using, Freshness, FreshFor
  <1>3. CASE InitFails(r) /\ UNCHANGED store
    <2>1. req'[r].at = "done" /\ \A t \in Req \ {r} : req'[t] = req[t]
      BY <1>3, ReplyIs DEF InitFails, ServerInv, Replies
    <2>2. \A t \in Req : req[t].at = "verify" => req'[t].at = "verify"
      BY <1>1, <2>1
    <2>3. /\ weights' \in [bytes : {"none", "good", "bad"}, ref : BOOLEAN]
          /\ weights'.ref /\ weights'.bytes # "good" =>
               weights'.bytes = "bad" /\ (kept' \/ \E t \in Req : req'[t].at = "verify")
          /\ kept' \in BOOLEAN /\ (kept => kept')
      BY <1>1, <1>2, <2>2 DEF ServerInv, Readiness, ReadyFor
    <2>4. InitFails(r) /\ UNCHANGED <<gen, store, model, srv, slipped>> /\ weights' = weights
      BY <1>1, <1>3
    <2> QED BY <1>1, <2>3, <2>4, Initialises
  <1>4. CASE /\ store' = [s \in Store |-> IF s \in Pool(req[r].kind) THEN [store[s] EXCEPT !.gen = gen]
                                                                    ELSE store[s]]
             /\ To(r, "stat") /\ UNCHANGED <<cell, act>>
    <2>1. /\ req' \in [Req -> Call] /\ req'[r] = [req[r] EXCEPT !.at = "stat"]
          /\ \A t \in Req \ {r} : req'[t] = req[t]
      BY <1>4, Moves DEF ServerInv, Moments
    <2>2. /\ req'[r].at = "stat" /\ req'[r].on = Nobody /\ req'[r].floor = req[r].floor
          /\ req'[r].reply = req[r].reply /\ req'[r].kind = req[r].kind
      BY <1>2, <2>1 DEF Call
    <2>3. \A s \in Store : /\ store'[s] \in Reader /\ store[s].gen <= store'[s].gen
                           /\ store'[s].gen <= gen /\ store'[s].seen = store[s].seen
                           /\ store'[s].holder = store[s].holder
      <3> TAKE s \in Store
      <3>1. store[s] \in Reader /\ store[s].gen <= gen
        BY <1>2 DEF ServerInv, Freshness, FreshFor
      <3>2. store'[s] \in {store[s], [store[s] EXCEPT !.gen = gen]}
        BY <1>4
      <3> QED BY <1>2, <3>1, <3>2 DEF Reader
    <2>4. ServerTypes'
      <3>1. store' \in [Store -> Reader]
        BY <1>4, <2>3
      <3> QED BY <1>1, <1>4, <2>1, <3>1 DEF ServerInv, ServerTypes
    <2>5. Holding'
      BY <1>1, <2>1, <2>2, <2>3, HoldsApart DEF Using
    <2>6. Freshness'
      <3>1. \A s \in Store : /\ store'[s].gen <= gen' /\ store'[s].seen <= gen'
                             /\ ~slipped' => store'[s].seen <= store'[s].gen
        BY <1>1, <1>2, <2>3 DEF ServerInv, Freshness, FreshFor, Reader
      <3>2. ASSUME NEW t \in Req \ {r}
            PROVE  FreshFor(t)'
        <4>1. req'[t] = req[t] /\ req[t] \in Call
          BY <2>1 DEF ServerInv, ServerTypes
        <4>2. req[t].at \in Using => /\ req[t].on \in Store
                                     /\ store[req[t].on].gen <= store'[req[t].on].gen
                                     /\ store[req[t].on] \in Reader /\ store'[req[t].on] \in Reader
          BY <1>2, <2>3 DEF ServerInv, Holding, Pool, Store
        <4> QED BY <1>1, <4>1, <4>2 DEF ServerInv, Freshness, FreshFor, Call, Reader, Using
      <3> QED BY <1>1, <1>2, <2>2, <3>1, <3>2 DEF Freshness, FreshFor
    <2>7. Readiness'
      <3>1. \A t \in Req \ {r} : ReadyFor(t)'
        BY <1>1, <1>4, <2>1, ReadyOthers
      <3>2. \A t \in Req : req[t].at = "verify" => req'[t].at = "verify"
        BY <1>1, <2>1
      <3>3. weights'.ref /\ weights'.bytes # "good" =>
              weights'.bytes = "bad" /\ (kept' \/ \E t \in Req : req'[t].at = "verify")
        BY <1>1, <3>2 DEF ServerInv, Readiness, ReadyFor
      <3>4. /\ cell'["ml"] = "set" => Verified'
            /\ req[r].kind = "query" => cell'["ml"] = r /\ Verified'
            /\ ~kept' => model'.loaded # "bad"
        BY <1>1, <1>4 DEF ServerInv, Readiness, ReadyFor, Verified
      <3> QED BY <2>2, <3>1, <3>3, <3>4 DEF Readiness, ReadyFor, Using
    <2>8. Counting'
      BY <1>1, <1>4, <2>1, <2>2, CountMoves DEF InProgress
    <2> QED BY <2>4, <2>5, <2>6, <2>7, <2>8 DEF ServerInv
  <1> QED BY <1>3, <1>4 DEF open

\* The stat that ends an initialisation.
LEMMA OpenedStep == ASSUME ServerInv, NEW r \in Req, Opened(r) PROVE ServerInv'
  <1>1. /\ UNCHANGED <<gen, weights, model, act, srv, kept>> /\ req[r].at = "stat"
        /\ store' = [s \in Store |-> IF s \in Pool(req[r].kind) THEN [store[s] EXCEPT !.seen = gen]
                                                                ELSE store[s]]
        /\ slipped' = (slipped \/ \E s \in Pool(req[r].kind) : store[s].gen # gen)
        /\ cell' = [cell EXCEPT ![Cell(r)] = "set"]
    BY DEF Opened
  <1>2. /\ gen \in Nat /\ req[r] \in Call /\ store \in [Store -> Reader] /\ slipped \in BOOLEAN
        /\ cell \in [{"fts", "ml"} -> Req \cup {"empty", "set"}] /\ Cell(r) \in {"fts", "ml"}
        /\ req[r].on = Nobody /\ req[r].reply # "ok" /\ req[r].floor <= gen
    BY <1>1 DEF ServerInv, ServerTypes, Holding, Using, Freshness, FreshFor, Cell
  <1>3. /\ req' \in [Req -> Call] /\ req'[r] = [req[r] EXCEPT !.at = "lock"]
        /\ \A t \in Req \ {r} : req'[t] = req[t]
    BY Moves DEF Opened, ServerInv, Moments
  <1>4. /\ req'[r].at = "lock" /\ req'[r].on = Nobody /\ req'[r].floor = req[r].floor
        /\ req'[r].reply = req[r].reply /\ req'[r].kind = req[r].kind
    BY <1>2, <1>3 DEF Call
  <1>5. \A s \in Store : /\ store'[s] \in Reader /\ store'[s].gen = store[s].gen
                         /\ store'[s].seen <= gen /\ store'[s].holder = store[s].holder
                         /\ ~slipped' => store'[s].seen <= store'[s].gen
    <2> TAKE s \in Store
    <2>1. store[s] \in Reader /\ store[s].gen <= gen /\ store[s].seen <= gen
          /\ (~slipped => store[s].seen <= store[s].gen)
      BY <1>2 DEF ServerInv, Freshness, FreshFor
    <2>2. CASE s \in Pool(req[r].kind)
      <3>1. store'[s] = [store[s] EXCEPT !.seen = gen]
        BY <1>1, <2>2
      <3>2. ~slipped' => store[s].gen = gen
        BY <1>1, <2>2
      <3> QED BY <1>2, <2>1, <3>1, <3>2 DEF Reader
    <2>3. CASE s \notin Pool(req[r].kind)
      <3>1. store'[s] = store[s]
        BY <1>1, <2>3
      <3>2. ~slipped' => ~slipped
        BY <1>1
      <3> QED BY <2>1, <3>1, <3>2
    <2> QED BY <2>2, <2>3
  <1>6. ServerTypes'
    <2>1. store' \in [Store -> Reader]
      BY <1>1, <1>5
    <2>2. cell' \in [{"fts", "ml"} -> Req \cup {"empty", "set"}]
      BY <1>1, <1>2
    <2>3. slipped' \in BOOLEAN
      BY <1>1
    <2> QED BY <1>1, <1>3, <2>1, <2>2, <2>3 DEF ServerInv, ServerTypes
  <1>7. Holding'
    BY <1>1, <1>3, <1>4, <1>5, HoldsApart DEF Using
  <1>8. Freshness'
    <2>1. \A s \in Store : /\ store'[s].gen <= gen' /\ store'[s].seen <= gen'
                           /\ ~slipped' => store'[s].seen <= store'[s].gen
      <3>1. \A s \in Store : store[s].gen <= gen
        BY DEF ServerInv, Freshness, FreshFor
      <3> QED BY <1>1, <1>5, <3>1
    <2>2. ~slipped' => ~slipped
      BY <1>1
    <2>3. ASSUME NEW t \in Req \ {r}
          PROVE  FreshFor(t)'
      <3>1. req'[t] = req[t]
        BY <1>3
      <3>2. req[t].at \in Using => /\ req[t].on \in Store
                                   /\ store'[req[t].on].gen = store[req[t].on].gen
        BY <1>5 DEF ServerInv, Holding, Pool, Store
      <3> QED BY <1>1, <2>2, <3>1, <3>2 DEF ServerInv, Freshness, FreshFor, Using
    <2> QED BY <1>1, <1>2, <1>4, <2>1, <2>3 DEF Freshness, FreshFor
  <1>9. Readiness'
    <2>1. req[r].kind = "query" => cell["ml"] = r /\ cell'["ml"] = "set" /\ Verified
      BY <1>1, <1>2 DEF ServerInv, Readiness, ReadyFor, Cell
    <2>2. req[r].kind # "query" => cell'["ml"] = cell["ml"]
      BY <1>1, <1>2 DEF Cell
    <2>3. \A t \in Req \ {r} : ReadyFor(t)'
      BY <1>1, <1>3, <2>1, <2>2, ReadyOthers
    <2>4. \A t \in Req : req[t].at = "verify" => req'[t].at = "verify"
      BY <1>1, <1>3
    <2>5. weights'.ref /\ weights'.bytes # "good" =>
            weights'.bytes = "bad" /\ (kept' \/ \E t \in Req : req'[t].at = "verify")
      BY <1>1, <2>4 DEF ServerInv, Readiness, ReadyFor
    <2>6. cell'["ml"] = "set" => Verified'
      <3>1. Verified' = Verified
        BY <1>1 DEF Verified
      <3>2. cell["ml"] = "set" => Verified
        BY DEF ServerInv, Readiness, ReadyFor
      <3> QED BY <2>1, <2>2, <3>1, <3>2
    <2>7. ~kept' => model'.loaded # "bad"
      BY <1>1 DEF ServerInv, Readiness, ReadyFor
    <2> QED BY <1>4, <2>1, <2>3, <2>5, <2>6, <2>7 DEF Readiness, ReadyFor, Using
  <1>10. Counting'
    BY <1>1, <1>3, <1>4, CountMoves DEF InProgress
  <1> QED BY <1>6, <1>7, <1>8, <1>9, <1>10 DEF ServerInv

---------------------------------------------------------------------------
(* The steps of a call with a store.                                        *)

\* No step of one call takes from another what its store shows.
LEMMA FreshOthers ==
  ASSUME ServerInv, NEW r \in Req, gen' = gen, slipped' = slipped,
         \A t \in Req \ {r} : req'[t] = req[t],
         \A s \in Store : store'[s] \in Reader /\ store[s].gen <= store'[s].gen
  PROVE  \A t \in Req \ {r} : FreshFor(t)'
  <1> TAKE t \in Req \ {r}
  <1>1. req'[t] = req[t] /\ req[t] \in Call
    BY DEF ServerInv, ServerTypes
  <1>2. req[t].at \in Using => /\ req[t].on \in Store
                               /\ store[req[t].on].gen <= store'[req[t].on].gen
                               /\ store[req[t].on] \in Reader /\ store'[req[t].on] \in Reader
    BY DEF ServerInv, ServerTypes, Holding, Pool, Store
  <1> QED BY <1>1, <1>2 DEF ServerInv, Freshness, FreshFor, Call, Reader, Using

\* A call that keeps its store.
LEMMA HoldsOn ==
  ASSUME ServerInv, NEW r \in Req, req[r].at \in Using, req'[r].at \in Using,
         req'[r].on = req[r].on, req'[r].kind = req[r].kind,
         req'[r].at = "infer" => req[r].kind = "query",
         \A t \in Req \ {r} : req'[t] = req[t],
         \A s \in Store : store'[s].holder = store[s].holder
  PROVE  Holding'
  <1>1. \A t \in Req : req[t].at \in Using => req[t].on \in Store
    BY DEF ServerInv, Holding, Pool, Store
  <1> QED BY <1>1 DEF ServerInv, Holding

\* A call that unlocks its store.
LEMMA LetsGo ==
  ASSUME ServerInv, NEW r \in Req, req[r].at \in Using, req'[r].at = "done",
         req'[r].on = Nobody, \A t \in Req \ {r} : req'[t] = req[t],
         \A s \in Store : s # req[r].on => store'[s].holder = store[s].holder
  PROVE  Holding'
  <1>1. ASSUME NEW t \in Req \ {r}, req[t].at \in Using
        PROVE  store'[req[t].on].holder = t
    <2>1. req[t].on \in Store /\ store[req[t].on].holder = t /\ store[req[r].on].holder = r
      BY <1>1 DEF ServerInv, Holding, Pool, Store
    <2> QED BY <1>1, <2>1
  <1> QED BY <1>1 DEF ServerInv, Holding, Using

\* Locking a store that nobody holds.
LEMMA LockStep ==
  ASSUME ServerInv, NEW r \in Req, req[r].at = "lock", NEW s \in Pool(req[r].kind), Locks(r, s),
         UNCHANGED <<gen, cell, weights, model, act, srv, slipped, kept>>
  PROVE  ServerInv'
  <1>1. /\ req[r] \in Call /\ store \in [Store -> Reader] /\ s \in Store
        /\ gen \in Nat /\ req[r].reply # "ok" /\ req[r].floor <= gen
        /\ req[r].kind = "query" => cell["ml"] = "set"
    BY DEF ServerInv, ServerTypes, Pool, Store, Freshness, FreshFor, Readiness, ReadyFor
  <1>2. /\ req'[r] = [req[r] EXCEPT !.on = s, !.at = "fresh"]
        /\ \A t \in Req \ {r} : req'[t] = req[t]
    BY DEF Locks, ServerInv, ServerTypes
  <1>3. /\ req'[r].at = "fresh" /\ req'[r].on = s /\ req'[r].floor = req[r].floor
        /\ req'[r].reply = req[r].reply /\ req'[r].kind = req[r].kind /\ req'[r] \in Call
    BY <1>1, <1>2 DEF Call, Moments, Using
  <1>4. /\ store' \in [Store -> Reader] /\ store[s].holder = Nobody /\ store'[s].holder = r
        /\ \A u \in Store : /\ store'[u].gen = store[u].gen /\ store'[u].seen = store[u].seen
                            /\ u # s => store'[u] = store[u]
    <2>1. store' = [store EXCEPT ![s].holder = r] /\ store[s].holder = Nobody
      BY DEF Locks
    <2> QED BY <1>1, <2>1 DEF Reader
  <1>5. ServerTypes'
    <2>1. req' \in [Req -> Call]
      BY <1>3 DEF Locks, ServerInv, ServerTypes
    <2> QED BY <1>4, <2>1 DEF ServerInv, ServerTypes
  <1>6. Holding'
    <2>1. ASSUME NEW t \in Req \ {r}, req[t].at \in Using
          PROVE  store'[req[t].on].holder = t
      <3>1. req[t].on \in Store /\ store[req[t].on].holder = t
        BY <2>1 DEF ServerInv, Holding, Pool, Store
      <3> QED BY <1>4, <3>1, ReqType
    <2>2. ASSUME NEW t \in Req \ {r}
          PROVE  /\ req'[t].at \notin Using => req'[t].on = Nobody
                 /\ req'[t].at \in Using => req'[t].on \in Pool(req'[t].kind)
                                            /\ store'[req'[t].on].holder = t
                 /\ req'[t].at = "infer" => req'[t].kind = "query"
      <3>1. req'[t] = req[t]
        BY <1>2
      <3> QED BY <2>1, <3>1 DEF ServerInv, Holding
    <2>3. req'[r].at \in Using /\ req'[r].at # "infer"
          /\ req'[r].on \in Pool(req'[r].kind) /\ store'[req'[r].on].holder = r
      BY <1>3, <1>4 DEF Using
    <2> QED BY <2>2, <2>3 DEF Holding
  <1>7. Freshness'
    <2>1. \A u \in Store : store'[u] \in Reader /\ store[u].gen <= store'[u].gen
      BY <1>1, <1>4 DEF Reader
    <2>2. \A u \in Store : /\ store'[u].gen <= gen' /\ store'[u].seen <= gen'
                           /\ ~slipped' => store'[u].seen <= store'[u].gen
      BY <1>4 DEF ServerInv, Freshness, FreshFor
    <2> QED BY <1>1, <1>2, <1>3, <2>1, <2>2, FreshOthers DEF Freshness, FreshFor
  <1>8. Readiness'
    BY <1>1, <1>2, <1>3, ReadyApart DEF Using
  <1>9. Counting'
    BY <1>2, <1>3, CountMoves DEF InProgress
  <1> QED BY <1>5, <1>6, <1>7, <1>8, <1>9 DEF ServerInv

\* A call takes a handle of the pool.
LEMMA CheckoutStep == ASSUME ServerInv, NEW r \in Req, checkout(r) PROVE ServerInv'
  <1>1. PICK s \in Handle : Locks(r, s)
    BY DEF checkout
  <1>2. s \in Pool(req[r].kind)
    BY DEF checkout, Pool
  <1> QED BY <1>1, <1>2, LockStep DEF checkout

\* A query takes the model store, or finds it poisoned.
LEMMA MlStep == ASSUME ServerInv, NEW r \in Req, ml(r) PROVE ServerInv'
  <1>1. UNCHANGED <<gen, cell, weights, model, srv, slipped, kept>>
        /\ req[r].at = "lock" /\ req[r].kind = "query"
    BY DEF ml
  <1>2. CASE Locks(r, "ml") /\ UNCHANGED act
    <2>1. "ml" \in Pool(req[r].kind)
      BY <1>1 DEF Pool
    <2> QED BY <1>1, <1>2, <2>1, LockStep
  <1>3. CASE Reply(r, "poisoned", 0) /\ UNCHANGED store
    <2>1. /\ req' \in [Req -> Call] /\ act' \in [n : Int, old : BOOLEAN, busy : SUBSET Req] /\ act' = end(r)
          /\ req'[r].at = "done" /\ req'[r].on = Nobody /\ req'[r].floor = req[r].floor
          /\ req'[r].reply # "ok" /\ req'[r].kind = req[r].kind
          /\ \A t \in Req \ {r} : req'[t] = req[t]
      BY <1>3, ReplyIs DEF ServerInv, Replies
    <2>2. ServerTypes'
      BY <1>1, <1>3, <2>1 DEF ServerInv, ServerTypes
    <2>3. Holding'
      BY <1>1, <1>3, <2>1, HoldsApart DEF Using
    <2>4. Freshness'
      <3>1. gen \in Nat /\ req[r].floor <= gen
        BY DEF ServerInv, ServerTypes, Freshness, FreshFor
      <3>3. req'[r].at \notin Using /\ req'[r].floor <= gen' /\ gen' \in Nat /\ gen <= gen'
        BY <1>1, <2>1, <3>1 DEF Using
      <3>2. store' = store /\ slipped' = slipped
        BY <1>1, <1>3
      <3> QED BY <2>1, <3>2, <3>3, FreshApart
    <2>5. Readiness'
      BY <1>1, <2>1, ReadyApart DEF Using
    <2>6. Counting'
      BY <1>1, <2>1, CountReplies DEF InProgress
    <2> QED BY <2>2, <2>3, <2>4, <2>5, <2>6 DEF ServerInv
  <1> QED BY <1>2, <1>3 DEF ml

\* A call that keeps its store and leaves the model alone.
LEMMA KeepsStep ==
  ASSUME ServerInv, NEW r \in Req, req[r].at \in {"fresh", "reload", "reloaded"},
         UNCHANGED <<gen, cell, weights, model, act, srv, slipped, kept>>,
         req'[r] \in Call, req' \in [Req -> Call], \A t \in Req \ {r} : req'[t] = req[t],
         req'[r].at \in Using \ {"infer"}, req'[r].on = req[r].on, req'[r].kind = req[r].kind,
         req'[r].floor = req[r].floor, req'[r].reply = req[r].reply,
         store' \in [Store -> Reader],
         \A s \in Store : /\ store[s].gen <= store'[s].gen /\ store'[s].gen <= gen
                          /\ store'[s].seen <= gen /\ store'[s].holder = store[s].holder
                          /\ ~slipped => store'[s].seen <= store'[s].gen,
         req'[r].at \in {"reload", "reloaded"} => req[r].floor <= req'[r].mtime /\ req'[r].mtime <= gen,
         req'[r].at = "reloaded" => req'[r].mtime <= store'[req[r].on].gen,
         ~slipped /\ req'[r].at = "run" => req[r].floor <= store'[req[r].on].gen
  PROVE  ServerInv'
  <1>1. ServerTypes'
    BY DEF ServerInv, ServerTypes
  <1>2. Holding'
    BY HoldsOn DEF Using
  <1>3. Freshness'
    <2>1. \A s \in Store : store'[s] \in Reader /\ store[s].gen <= store'[s].gen
      OBVIOUS
    <2>2. gen' = gen /\ slipped' = slipped
      OBVIOUS
    <2>3. \A t \in Req \ {r} : FreshFor(t)'
      BY <2>1, <2>2, FreshOthers
    <2>4. req[r].floor <= gen /\ req[r].reply # "ok"
      BY DEF ServerInv, Freshness, FreshFor
    <2> QED BY <2>2, <2>3, <2>4 DEF Freshness, FreshFor, Using
  <1>4. Readiness'
    <2>1. req[r].kind = "query" => cell["ml"] = "set"
      BY DEF ServerInv, Readiness, ReadyFor, Using
    <2> QED BY <2>1, ReadyApart DEF Using
  <1>5. Counting'
    BY CountMoves DEF InProgress, Using
  <1> QED BY <1>1, <1>2, <1>3, <1>4, <1>5 DEF ServerInv

\* A call that is answered and unlocks its store.
LEMMA AnswersStep ==
  ASSUME ServerInv, NEW r \in Req, req[r].at \in Using,
         UNCHANGED <<gen, cell, weights, model, srv, slipped, kept>>,
         NEW how \in Replies, NEW saw \in Nat, Reply(r, how, saw),
         how = "ok" /\ ~slipped => req[r].floor <= saw,
         store' \in [Store -> Reader],
         \A s \in Store : /\ store'[s].gen = store[s].gen /\ store'[s].seen = store[s].seen
                          /\ s # req[r].on => store'[s].holder = store[s].holder
  PROVE  ServerInv'
  <1>1. /\ req' \in [Req -> Call] /\ act' \in [n : Int, old : BOOLEAN, busy : SUBSET Req] /\ act' = end(r)
        /\ req'[r].at = "done" /\ req'[r].on = Nobody /\ req'[r].floor = req[r].floor
        /\ req'[r].saw = saw /\ req'[r].reply \in {how, "cut"} /\ req'[r].kind = req[r].kind
        /\ \A t \in Req \ {r} : req'[t] = req[t]
    BY ReplyIs DEF ServerInv
  <1>2. ServerTypes'
    BY <1>1 DEF ServerInv, ServerTypes
  <1>3. Holding'
    BY <1>1, LetsGo
  <1>4. Freshness'
    <2>1. \A s \in Store : store'[s] \in Reader /\ store[s].gen <= store'[s].gen
      BY DEF ServerInv, ServerTypes, Reader
    <2>2. \A s \in Store : /\ store'[s].gen <= gen' /\ store'[s].seen <= gen'
                           /\ ~slipped' => store'[s].seen <= store'[s].gen
      BY DEF ServerInv, Freshness, FreshFor
    <2>3. \A t \in Req \ {r} : FreshFor(t)'
      BY <1>1, <2>1, FreshOthers
    <2>4. req'[r].floor <= gen'
      BY <1>1 DEF ServerInv, Freshness, FreshFor
    <2> QED BY <1>1, <2>2, <2>3, <2>4 DEF Freshness, FreshFor
  <1>5. Readiness'
    BY <1>1, ReadyApart DEF Using
  <1>6. Counting'
    BY <1>1, CountReplies DEF InProgress, Using
  <1> QED BY <1>2, <1>3, <1>4, <1>5, <1>6 DEF ServerInv

\* What is known of a call that has a store.
LEMMA HasStore ==
  ASSUME ServerInv, NEW r \in Req, req[r].at \in Using
  PROVE  /\ req[r] \in Call /\ req[r].on \in Store /\ store[req[r].on] \in Reader
         /\ store \in [Store -> Reader] /\ gen \in Nat /\ slipped \in BOOLEAN
         /\ store[req[r].on].gen <= gen /\ store[req[r].on].seen <= gen
         /\ ~slipped => store[req[r].on].seen <= store[req[r].on].gen
         /\ req[r].floor <= gen /\ req[r].reply # "ok"
         /\ req[r].kind = "query" => cell["ml"] = "set" /\ req[r].on = "ml"
  <1>1. req[r].on \in Pool(req[r].kind)
    BY DEF ServerInv, Holding
  <1>2. req[r].on \in Store /\ (req[r].kind = "query" => req[r].on = "ml")
    BY <1>1 DEF Pool, Store
  <1> QED BY <1>2 DEF ServerInv, ServerTypes, Freshness, FreshFor, Readiness, ReadyFor, Using

\* The mtime decides whether the readers will do.
LEMMA StaleStep == ASSUME ServerInv, NEW r \in Req, Stale(r) PROVE ServerInv'
  <1>1. /\ UNCHANGED <<gen, cell, store, weights, model, act, srv, slipped, kept>>
        /\ req[r].at = "fresh"
    BY DEF Stale
  <1>2. /\ req[r] \in Call /\ req[r].on \in Store /\ store[req[r].on] \in Reader
        /\ store \in [Store -> Reader] /\ gen \in Nat
        /\ ~slipped => store[req[r].on].seen <= store[req[r].on].gen
        /\ req[r].floor <= gen
    BY <1>1, HasStore DEF Using
  <1>3. /\ req'[r] = [req[r] EXCEPT !.mtime = gen,
                        !.at = IF store[req[r].on].seen = gen THEN "run" ELSE "reload"]
        /\ \A t \in Req \ {r} : req'[t] = req[t]
    BY DEF Stale, ServerInv, ServerTypes
  <1>4. /\ req'[r].at = (IF store[req[r].on].seen = gen THEN "run" ELSE "reload")
        /\ req'[r].mtime = gen /\ req'[r].on = req[r].on /\ req'[r].kind = req[r].kind
        /\ req'[r].floor = req[r].floor /\ req'[r].reply = req[r].reply /\ req'[r] \in Call
    BY <1>2, <1>3 DEF Call, Moments, Using
  <1>5. req' \in [Req -> Call]
    BY <1>4 DEF Stale, ServerInv, ServerTypes
  <1>6. \A s \in Store : /\ store[s].gen <= store'[s].gen /\ store'[s].gen <= gen
                         /\ store'[s].seen <= gen /\ store'[s].holder = store[s].holder
                         /\ ~slipped => store'[s].seen <= store'[s].gen
    <2>1. \A s \in Store : store[s] \in Reader
      BY <1>2
    <2> QED BY <1>1, <2>1 DEF ServerInv, Freshness, FreshFor, Reader
  <1>7. ~slipped /\ req'[r].at = "run" => req[r].floor <= store'[req[r].on].gen
    BY <1>1, <1>2, <1>4 DEF Reader, Call
  <1>8. req'[r].at \in {"run", "reload"}
    BY <1>4
  <1>9. store' \in [Store -> Reader]
    BY <1>1, <1>2
  <1>10. req'[r].at \in {"reload", "reloaded"} => req[r].floor <= req'[r].mtime /\ req'[r].mtime <= gen
    BY <1>2, <1>4
  <1> QED BY <1>1, <1>3, <1>4, <1>5, <1>6, <1>7, <1>8, <1>9, <1>10, KeepsStep DEF Using

\* New readers, or an answer that says why not.
LEMMA ReloadStep == ASSUME ServerInv, NEW r \in Req, reload(r) PROVE ServerInv'
  <1>1. UNCHANGED <<gen, cell, weights, model, srv, slipped, kept>> /\ req[r].at = "reload"
    BY DEF reload
  <1>2. /\ req[r] \in Call /\ req[r].on \in Store /\ store[req[r].on] \in Reader
        /\ store \in [Store -> Reader] /\ gen \in Nat /\ req[r].floor <= gen
    BY <1>1, HasStore DEF Using
  <1>3. CASE /\ store' = [store EXCEPT ![req[r].on].gen = gen]
             /\ To(r, "reloaded") /\ UNCHANGED act
    <2>1. /\ req' \in [Req -> Call] /\ req'[r] = [req[r] EXCEPT !.at = "reloaded"]
          /\ \A t \in Req \ {r} : req'[t] = req[t]
      BY <1>3, Moves DEF ServerInv, Moments, Using
    <2>2. /\ req'[r].at = "reloaded" /\ req'[r].mtime = req[r].mtime
          /\ req'[r].on = req[r].on /\ req'[r].kind = req[r].kind
          /\ req'[r].floor = req[r].floor /\ req'[r].reply = req[r].reply /\ req'[r] \in Call
      BY <1>2, <2>1 DEF Call
    <2>3. /\ store' \in [Store -> Reader] /\ store'[req[r].on].gen = gen
          /\ \A s \in Store : /\ store'[s].seen = store[s].seen /\ store'[s].holder = store[s].holder
                              /\ s # req[r].on => store'[s] = store[s]
      BY <1>2, <1>3 DEF Reader
    <2>4. \A s \in Store : /\ store[s].gen <= store'[s].gen /\ store'[s].gen <= gen
                           /\ store'[s].seen <= gen /\ store'[s].holder = store[s].holder
                           /\ ~slipped => store'[s].seen <= store'[s].gen
      <3> TAKE s \in Store
      <3>1. /\ store[s] \in Reader /\ store[s].gen <= gen /\ store[s].seen <= gen
            /\ ~slipped => store[s].seen <= store[s].gen
        BY <1>2 DEF ServerInv, Freshness, FreshFor
      <3> QED BY <1>2, <2>3, <3>1 DEF Reader
    <2>5. req[r].floor <= req'[r].mtime /\ req'[r].mtime <= gen
      BY <1>1, <2>2 DEF ServerInv, Freshness, FreshFor
    <2>6. req'[r].mtime <= store'[req[r].on].gen
      BY <2>3, <2>5
    <2>7. UNCHANGED <<gen, cell, weights, model, act, srv, slipped, kept>>
      BY <1>1, <1>3
    <2>8. req'[r].at \in Using \ {"infer"} /\ req'[r].at # "run"
      BY <2>2 DEF Using
    <2> QED BY <1>1, <2>1, <2>2, <2>3, <2>4, <2>5, <2>6, <2>7, <2>8, KeepsStep
  <1>4. CASE store' = Release(r) /\ Reply(r, "error", 0)
    <2>1. /\ store' \in [Store -> Reader]
          /\ \A s \in Store : /\ store'[s].gen = store[s].gen /\ store'[s].seen = store[s].seen
                              /\ s # req[r].on => store'[s].holder = store[s].holder
      BY <1>2, <1>4, Released DEF ServerInv
    <2>2. "error" \in Replies /\ 0 \in Nat /\ "error" # "ok"
      BY DEF Replies
    <2> QED BY <1>1, <1>4, <2>1, <2>2, AnswersStep DEF Using
  <1> QED BY <1>3, <1>4 DEF reload

\* The mtime taken before the new readers is remembered.
LEMMA ReloadedStep == ASSUME ServerInv, NEW r \in Req, Reloaded(r) PROVE ServerInv'
  <1>1. /\ UNCHANGED <<gen, cell, weights, model, act, srv, slipped, kept>>
        /\ req[r].at = "reloaded" /\ To(r, "run")
        /\ store' = [store EXCEPT ![req[r].on].seen = req[r].mtime]
    BY DEF Reloaded
  <1>2. /\ req[r] \in Call /\ req[r].on \in Store /\ store[req[r].on] \in Reader
        /\ store \in [Store -> Reader] /\ gen \in Nat
    BY <1>1, HasStore DEF Using
  <1>3. /\ req[r].floor <= req[r].mtime /\ req[r].mtime <= gen
        /\ req[r].mtime <= store[req[r].on].gen
    BY <1>1 DEF ServerInv, Freshness, FreshFor
  <1>4. /\ req' \in [Req -> Call] /\ req'[r] = [req[r] EXCEPT !.at = "run"]
        /\ \A t \in Req \ {r} : req'[t] = req[t]
    BY <1>1, Moves DEF ServerInv, Moments, Using
  <1>5. /\ req'[r].at = "run" /\ req'[r].on = req[r].on /\ req'[r].kind = req[r].kind
        /\ req'[r].floor = req[r].floor /\ req'[r].reply = req[r].reply /\ req'[r] \in Call
    BY <1>2, <1>4 DEF Call
  <1>6. /\ store' \in [Store -> Reader] /\ store'[req[r].on].seen = req[r].mtime
        /\ \A s \in Store : /\ store'[s].gen = store[s].gen /\ store'[s].holder = store[s].holder
                            /\ s # req[r].on => store'[s] = store[s]
    BY <1>1, <1>2 DEF Reader, Call
  <1>7. \A s \in Store : /\ store[s].gen <= store'[s].gen /\ store'[s].gen <= gen
                         /\ store'[s].seen <= gen /\ store'[s].holder = store[s].holder
                         /\ ~slipped => store'[s].seen <= store'[s].gen
    <2> TAKE s \in Store
    <2>1. /\ store[s] \in Reader /\ store[s].gen <= gen /\ store[s].seen <= gen
          /\ ~slipped => store[s].seen <= store[s].gen
      BY <1>2 DEF ServerInv, Freshness, FreshFor
    <2> QED BY <1>2, <1>3, <1>6, <2>1 DEF Reader
  <1>8. req[r].floor <= store'[req[r].on].gen
    BY <1>2, <1>3, <1>6 DEF Reader, Call
  <1>9. req'[r].at \in Using \ {"infer"} /\ req'[r].at \notin {"reload", "reloaded"}
    BY <1>5 DEF Using
  <1> QED BY <1>1, <1>4, <1>5, <1>6, <1>7, <1>8, <1>9, KeepsStep

\* The answer, from the readers the call holds.
LEMMA RunStep == ASSUME ServerInv, NEW r \in Req, run(r) PROVE ServerInv'
  <1>1. /\ UNCHANGED <<gen, cell, weights, model, srv, slipped, kept>>
        /\ req[r].at \in {"run", "infer"}
    BY DEF run
  <1>2. /\ req[r] \in Call /\ req[r].on \in Store /\ store[req[r].on] \in Reader
        /\ store \in [Store -> Reader]
        /\ ~slipped => req[r].floor <= store[req[r].on].gen
    <2>1. ~slipped => req[r].floor <= store[req[r].on].gen
      BY <1>1 DEF ServerInv, Freshness, FreshFor
    <2> QED BY <1>1, <2>1, HasStore DEF Using
  <1>3. CASE store' = Release(r) /\ Reply(r, "ok", store[req[r].on].gen)
    <2>1. /\ store' \in [Store -> Reader]
          /\ \A s \in Store : /\ store'[s].gen = store[s].gen /\ store'[s].seen = store[s].seen
                              /\ s # req[r].on => store'[s].holder = store[s].holder
      BY <1>2, <1>3, Released DEF ServerInv
    <2>2. "ok" \in Replies /\ store[req[r].on].gen \in Nat
      BY <1>2 DEF Replies, Reader
    <2> QED BY <1>1, <1>2, <1>3, <2>1, <2>2, AnswersStep DEF Using
  <1>4. CASE /\ store' = [Release(r) EXCEPT ![req[r].on].poisoned = TRUE]
             /\ Reply(r, "panic", 0)
    <2>1. /\ Release(r) \in [Store -> Reader]
          /\ \A s \in Store : /\ Release(r)[s].gen = store[s].gen /\ Release(r)[s].seen = store[s].seen
                              /\ s # req[r].on => Release(r)[s] = store[s]
      BY <1>2 DEF Release, Reader, ServerInv, ServerTypes
    <2>2. /\ store' \in [Store -> Reader]
          /\ \A s \in Store : /\ store'[s].gen = store[s].gen /\ store'[s].seen = store[s].seen
                              /\ s # req[r].on => store'[s].holder = store[s].holder
      BY <1>2, <1>4, <2>1 DEF Reader
    <2>3. "panic" \in Replies /\ 0 \in Nat /\ "panic" # "ok"
      BY DEF Replies
    <2> QED BY <1>1, <1>4, <2>2, <2>3, AnswersStep DEF Using
  <1> QED BY <1>3, <1>4 DEF run

\* What a query loads is the weights of a store that is set: there, and
\* verified unless a bad download was kept.
LEMMA EnsureStep == ASSUME ServerInv, NEW r \in Req, ensure(r) PROVE ServerInv'
  <1>1. /\ UNCHANGED <<gen, cell, weights, srv, slipped, kept>>
        /\ req[r].at = "run" /\ req[r].kind = "query"
    BY DEF ensure
  <1>2. /\ req[r] \in Call /\ req[r].on \in Store /\ store[req[r].on] \in Reader
        /\ store \in [Store -> Reader] /\ cell["ml"] = "set" /\ req[r].on = "ml"
        /\ req[r].floor <= gen /\ req[r].reply # "ok"
    BY <1>1, HasStore DEF Using
  <1>3. /\ ~slipped => req[r].floor <= store[req[r].on].gen
        /\ weights.bytes # "none" /\ (weights.bytes = "bad" => kept)
        /\ ~kept => model.loaded # "bad"
    BY <1>1, <1>2 DEF ServerInv, Freshness, FreshFor, Readiness, ReadyFor, Verified
  <1>4. CASE store' = Release(r) /\ Reply(r, "ok", store["ml"].gen) /\ UNCHANGED model
    <2>1. /\ store' \in [Store -> Reader]
          /\ \A s \in Store : /\ store'[s].gen = store[s].gen /\ store'[s].seen = store[s].seen
                              /\ s # req[r].on => store'[s].holder = store[s].holder
      BY <1>2, <1>4, Released DEF ServerInv
    <2>2. "ok" \in Replies /\ store["ml"].gen \in Nat
      BY <1>2 DEF Replies, Reader
    <2>3. ~slipped => req[r].floor <= store["ml"].gen
      BY <1>2, <1>3
    <2> QED BY <1>1, <1>4, <2>1, <2>2, <2>3, AnswersStep DEF Using
  <1>5. CASE /\ To(r, "infer") /\ UNCHANGED <<store, act>>
             /\ \/ model.loaded # "none" /\ model' = [model EXCEPT !.unused = FALSE]
                \/ model' = [model EXCEPT !.loaded = weights.bytes, !.unused = FALSE]
                \/ model' = [loaded |-> weights.bytes, layers |-> "cpu", unused |-> FALSE]
    <2>1. /\ req' \in [Req -> Call] /\ req'[r] = [req[r] EXCEPT !.at = "infer"]
          /\ \A t \in Req \ {r} : req'[t] = req[t]
      BY <1>5, Moves DEF ServerInv, Moments, Using
    <2>2. /\ req'[r].at = "infer" /\ req'[r].on = req[r].on /\ req'[r].kind = req[r].kind
          /\ req'[r].floor = req[r].floor /\ req'[r].reply = req[r].reply
      BY <1>2, <2>1 DEF Call
    <2>3. /\ model' \in [loaded : {"none", "good", "bad"}, layers : {"gpu", "cpu"}, unused : BOOLEAN]
          /\ model'.loaded # "none" /\ (~kept => model'.loaded # "bad")
      <3>1. /\ model \in [loaded : {"none", "good", "bad"}, layers : {"gpu", "cpu"}, unused : BOOLEAN]
            /\ weights.bytes \in {"none", "good", "bad"}
        BY DEF ServerInv, ServerTypes
      <3>2. CASE model.loaded # "none" /\ model' = [model EXCEPT !.unused = FALSE]
        BY <1>3, <3>1, <3>2
      <3>3. CASE model' = [model EXCEPT !.loaded = weights.bytes, !.unused = FALSE]
        BY <1>3, <3>1, <3>3
      <3>4. CASE model' = [loaded |-> weights.bytes, layers |-> "cpu", unused |-> FALSE]
        BY <1>3, <3>1, <3>4
      <3> QED BY <1>5, <3>2, <3>3, <3>4
    <2>4. ServerTypes'
      BY <1>1, <1>5, <2>1, <2>3 DEF ServerInv, ServerTypes
    <2>5. Holding'
      <3>1. \A s \in Store : store'[s].holder = store[s].holder
        BY <1>5
      <3> QED BY <1>1, <2>1, <2>2, <3>1, HoldsOn DEF Using
    <2>6. Freshness'
      <3>1. \A s \in Store : store'[s] \in Reader /\ store[s].gen <= store'[s].gen
        BY <1>2, <1>5 DEF Reader
      <3>2. \A s \in Store : /\ store'[s].gen <= gen' /\ store'[s].seen <= gen'
                             /\ ~slipped' => store'[s].seen <= store'[s].gen
        BY <1>1, <1>5 DEF ServerInv, Freshness, FreshFor
      <3>3. \A t \in Req \ {r} : FreshFor(t)'
        BY <1>1, <2>1, <3>1, FreshOthers
      <3>4. ~slipped' => req'[r].floor <= store'[req'[r].on].gen
        BY <1>1, <1>3, <1>5, <2>2
      <3> QED BY <1>1, <1>2, <2>2, <3>2, <3>3, <3>4 DEF Freshness, FreshFor
    <2>7. Readiness'
      <3>1. \A t \in Req \ {r} : ReadyFor(t)'
        BY <1>1, <2>1, <2>3, ReadyOthers
      <3>2. Verified' /\ cell'["ml"] = "set" /\ (~kept' => model'.loaded # "bad")
        BY <1>1, <1>2, <1>3, <2>3 DEF Verified
      <3>3. weights'.bytes \in {"good", "bad"} /\ (weights'.bytes = "bad" => kept')
        BY <1>1, <1>3 DEF ServerInv, ServerTypes
      <3> QED BY <1>1, <2>2, <2>3, <3>1, <3>2, <3>3 DEF Readiness, ReadyFor
    <2>8. Counting'
      BY <1>1, <1>5, <2>1, <2>2, CountMoves DEF InProgress
    <2> QED BY <2>4, <2>5, <2>6, <2>7, <2>8 DEF ServerInv
  <1> QED BY <1>4, <1>5 DEF ensure

---------------------------------------------------------------------------
(* The theorems.                                                            *)

\* Every step keeps the invariant.
LEMMA ServerStep == ServerInv /\ [Next]_vars => ServerInv'
<1> SUFFICES ASSUME ServerInv, [Next]_vars PROVE ServerInv'
  OBVIOUS
<1>1. CASE UNCHANGED vars
  BY <1>1 DEF vars, ServerInv, ServerTypes, Holding, Freshness, FreshFor, Readiness, ReadyFor,
              Verified, Counting, InProgress
<1>2. CASE IdlePeriodPasses \/ idle_expired \/ Shutdown \/ Gone \/ \E r \in Req : Disconnect(r)
  BY <1>2, ClockSteps
<1>3. CASE Commit
  BY <1>3, CommitStep
<1>4. CASE TtlPasses \/ release_idle_models
  BY <1>4, SweepSteps
<1>5. ASSUME NEW r \in Req, Arrive(r) \/ Step(r) PROVE ServerInv'
  BY <1>5, ArriveStep, IndexStep, RefreshStep, GetCellStep, CachedStep, FetchStep, VerifyStep,
     OpenStep, OpenedStep, CheckoutStep, MlStep, StaleStep, ReloadStep, ReloadedStep, EnsureStep,
     RunStep DEF Step
<1> QED BY <1>1, <1>2, <1>3, <1>4, <1>5 DEF Next

\* The invariant behind the theorems below holds of every reachable state of
\* the server.
THEOREM ServerSafe == Spec => []ServerInv
  BY ServerStart, ServerStep, PTL DEF Spec

\* Answers are never older than the index the call's refresh left, for any
\* number of calls, stores and commits (Store::reload_if_stale).
THEOREM AnswersAreFresh == Spec => []FreshAnswers
<1>1. ServerInv => FreshAnswers
  <2> SUFFICES ASSUME ServerInv, NEW r \in Req, req[r].reply = "ok", ~slipped
               PROVE  req[r].saw >= req[r].floor
    BY DEF FreshAnswers
  <2>1. req[r].floor \in Nat /\ req[r].saw \in Nat
    BY DEF ServerInv, ServerTypes, Call
  <2> QED BY <2>1 DEF ServerInv, Freshness, FreshFor
<1> QED BY <1>1, ServerSafe, PTL

\* The model a query computes with is there and verified, whatever the idle
\* sweep and other calls do (release_idle_models, resolve_verified).
THEOREM ModelStaysUsable == Spec => []ModelIsUsable
<1>1. ServerInv => ModelIsUsable
  <2> SUFFICES ASSUME ServerInv PROVE ModelIsUsable
    OBVIOUS
  <2>1. act.busy \subseteq Req /\ IsFiniteSet(Req) /\ act.n = Cardinality(act.busy)
    BY ReqType DEF ServerInv, ServerTypes, Counting
  <2>2. act.n \in 0..Cardinality(Req)
    <3>1. /\ Cardinality(act.busy) <= Cardinality(Req) /\ Cardinality(Req) \in Nat
          /\ Cardinality(act.busy) \in Nat
      BY <2>1, FS_Subset, FS_CardinalityType
    <3> QED BY <2>1, <3>1
  <2>3. \A r, t \in Req : req[r].on = req[t].on => r = t \/ req[r].on = Nobody
    BY DEF ServerInv, Holding
  <2>4. \A s \in Store : store[s].gen <= gen /\ store[s].seen <= gen
                         /\ store[s].holder \in Req \cup {Nobody}
    BY DEF ServerInv, ServerTypes, Freshness, FreshFor, Reader
  <2>5. /\ \A c \in {"fts", "ml"} : cell[c] \in Req \cup {"empty", "set"}
        /\ srv \in {"up", "idle", "down", "gone"} /\ weights.bytes \in {"none", "good", "bad"}
        /\ model.loaded \in {"none", "good", "bad"} /\ model.layers \in {"gpu", "cpu"}
    BY DEF ServerInv, ServerTypes
  <2>6. ModelStaysLoaded /\ VerifiedOnceLoaded
    BY DEF ServerInv, Readiness, ReadyFor, ModelStaysLoaded, VerifiedOnceLoaded
  <2> QED BY <2>1, <2>2, <2>3, <2>4, <2>5, <2>6 DEF ModelIsUsable, TypeOK, ServerInv, ServerTypes
<1> QED BY <1>1, ServerSafe, PTL

\* The idle exit is never decided while a client waits for its answer: every
\* guard is counted once, from the arrival of its call to the end of the answer or
\* to the client's disconnection, whichever is first (Activity, Held,
\* idle_expired).
THEOREM IdleIsIdle == Spec => IdleSparesCalls
<1>1. ServerInv /\ [Next]_vars =>
        [srv = "up" /\ srv' = "idle" => InProgress \cap act.busy = {}]_vars
  <2> SUFFICES ASSUME ServerInv, Next, srv = "up", srv' = "idle" PROVE act.busy = {}
    OBVIOUS
  <2>1. idle_expired
    BY DEF Next, IdlePeriodPasses, Shutdown, Gone, Commit, TtlPasses, release_idle_models, Arrive,
           Disconnect, Step, existing_index, refresh_note, GetCell, resolve_cached, get_verified,
           verify_sha256, open, Opened, checkout, ml, Stale, reload, Reloaded, ensure, run
  <2>2. Cardinality(act.busy) = 0 /\ IsFiniteSet(act.busy)
    BY <2>1 DEF idle_expired, ServerInv, Counting
  <2> QED BY <2>2, FS_EmptySet
<1> QED BY <1>1, ServerSafe, PTL DEF Spec, IdleSparesCalls

-----------------------------------------------------------------------------
(* Tools. *)

\* R puts the members of S in a row.
Row(S, R) ==
  /\ IsFiniteSet(S)
  /\ \A x \in S : <<x, x>> \notin R
  /\ \A x, y \in S : x = y \/ <<x, y>> \in R \/ <<y, x>> \in R
  /\ \A x, y, z \in S : <<x, y>> \in R /\ <<y, z>> \in R => <<x, z>> \in R

Below(S, R, x) == {y \in S : <<y, x>> \in R}

\* The further on, the more there is below.
LEMMA BelowGrows ==
  ASSUME NEW S, NEW R, Row(S, R), NEW x \in S, NEW y \in S, <<x, y>> \in R
  PROVE  /\ Cardinality(Below(S, R, x)) \in Nat /\ Cardinality(Below(S, R, y)) \in Nat
         /\ Cardinality(Below(S, R, x)) < Cardinality(Below(S, R, y))
<1> DEFINE A == Below(S, R, x)
           B == Below(S, R, y)
<1>1. A \in SUBSET S /\ B \in SUBSET S
  BY DEF Below
<1>2. IsFiniteSet(A) /\ IsFiniteSet(B)
  BY <1>1, FS_Subset DEF Row
<1>3. A \in SUBSET B /\ x \in B /\ x \notin A
  BY DEF Below, Row
<1>4. Cardinality(A) <= Cardinality(B) /\ (Cardinality(B) = Cardinality(A) => B = A)
  BY <1>2, <1>3, FS_Subset
<1>5. Cardinality(A) # Cardinality(B)
  BY <1>3, <1>4
<1>6. Cardinality(A) \in Nat /\ Cardinality(B) \in Nat
  BY <1>2, FS_CardinalityType
<1> HIDE DEF A, B
<1>7. Cardinality(A) < Cardinality(B)
  BY <1>4, <1>5, <1>6
<1> QED BY <1>6, <1>7 DEF A, B

\* There is always less than all of it.
LEMMA BelowIsLess ==
  ASSUME NEW S, NEW R, Row(S, R), NEW x \in S
  PROVE  /\ Cardinality(S) \in Nat /\ Cardinality(Below(S, R, x)) \in Nat
         /\ Cardinality(Below(S, R, x)) < Cardinality(S)
<1> DEFINE A == Below(S, R, x)
<1>1. A \in SUBSET S /\ x \notin A /\ IsFiniteSet(S)
  BY DEF Below, Row
<1>2. IsFiniteSet(A) /\ Cardinality(A) <= Cardinality(S) /\ Cardinality(S) # Cardinality(A)
  BY <1>1, FS_Subset
<1>3. Cardinality(A) \in Nat /\ Cardinality(S) \in Nat
  BY <1>1, <1>2, FS_CardinalityType
<1> HIDE DEF A
<1>4. Cardinality(A) < Cardinality(S)
  BY <1>2, <1>3
<1> QED BY <1>3, <1>4 DEF A

\* Each place is taken.
LEMMA PlacesTaken ==
  ASSUME NEW S, NEW R, Row(S, R)
  PROVE  \A n \in 1 .. Cardinality(S) : \E x \in S : Cardinality(Below(S, R, x)) = n - 1
<1>1. PICK N : N = Cardinality(S)
  OBVIOUS
<1>2. IsFiniteSet(S) /\ N \in Nat
  BY <1>1, FS_CardinalityType DEF Row
<1> DEFINE f == [x \in S |-> Cardinality(Below(S, R, x)) + 1]
<1>3. f \in [S -> 1 .. N]
  BY <1>1, <1>2, BelowIsLess
<1>4. ASSUME NEW x \in S, NEW y \in S, f[x] = f[y] PROVE x = y
  <2>1. Cardinality(Below(S, R, x)) \in Nat /\ Cardinality(Below(S, R, y)) \in Nat
    BY BelowIsLess
  <2>2. Cardinality(Below(S, R, x)) = Cardinality(Below(S, R, y))
    BY <1>4, <2>1
  <2>3. <<x, y>> \notin R /\ <<y, x>> \notin R
    BY <2>1, <2>2, BelowGrows
  <2> QED BY <2>3 DEF Row
<1>5. f \in Injection(S, 1 .. N)
  BY <1>3, <1>4 DEF Injection, IsInjective
<1>6. IsFiniteSet(1 .. N) /\ Cardinality(1 .. N) = N
  BY <1>2, FS_Interval
<1>7. f \in Surjection(S, 1 .. N)
  BY <1>1, <1>5, <1>6, FS_Injection
<1>8. \A n \in 1 .. N : \E x \in S : f[x] = n
  BY <1>7 DEF Surjection
<1>9. ASSUME NEW n \in 1 .. N PROVE \E x \in S : Cardinality(Below(S, R, x)) = n - 1
  <2>1. PICK x \in S : f[x] = n
    BY <1>8
  <2>2. Cardinality(Below(S, R, x)) \in Nat
    BY BelowIsLess
  <2> QED BY <2>1, <2>2
<1> QED BY <1>1, <1>9

\* A set in order has each member at the place that what is below it leaves.
LEMMA SortedIs ==
  ASSUME NEW S, NEW R, Row(S, R)
  PROVE  /\ Sorted(S, R) \in Seq(S) /\ Len(Sorted(S, R)) = Cardinality(S)
         /\ Cardinality(S) \in Nat
         /\ \A n \in 1 .. Cardinality(S) : Cardinality(Below(S, R, Sorted(S, R)[n])) = n - 1
<1>1. PICK N : N = Cardinality(S)
  OBVIOUS
<1>2. IsFiniteSet(S) /\ N \in Nat
  BY <1>1, FS_CardinalityType DEF Row
<1>3. PICK s : s = Sorted(S, R)
  OBVIOUS
<1>4. s = [n \in 1 .. N |-> CHOOSE x \in S : Cardinality(Below(S, R, x)) = n - 1]
  BY <1>1, <1>3 DEF Sorted, Below
<1>5. \A n \in 1 .. N : s[n] \in S /\ Cardinality(Below(S, R, s[n])) = n - 1
  BY <1>1, <1>4, PlacesTaken
<1>6. s \in [1 .. N -> S]
  BY <1>4, <1>5
<1>7. s \in Seq(S) /\ Len(s) = N
  BY <1>2, <1>6
<1> QED BY <1>1, <1>2, <1>3, <1>5, <1>7

\* There is no other at that place.
LEMMA PlaceIsOne ==
  ASSUME NEW S, NEW R, Row(S, R), NEW x \in S, NEW y \in S,
         Cardinality(Below(S, R, x)) <= Cardinality(Below(S, R, y))
  PROVE  x = y \/ <<x, y>> \in R
<1>1. <<y, x>> \in R => Cardinality(Below(S, R, y)) < Cardinality(Below(S, R, x))
                        /\ Cardinality(Below(S, R, x)) \in Nat /\ Cardinality(Below(S, R, y)) \in Nat
  BY BelowGrows
<1>2. <<y, x>> \notin R
  BY <1>1
<1> QED BY <1>2 DEF Row

Foremost(S, R, n) == {x \in S : Cardinality(Below(S, R, x)) < n}

\* The first n members: all of them, or n.
LEMMA FirstAreMany ==
  ASSUME NEW S, NEW R, Row(S, R), NEW n \in Nat
  PROVE  /\ Foremost(S, R, n) \in SUBSET S /\ Cardinality(Foremost(S, R, n)) \in Nat
         /\ Cardinality(S) <= n => Foremost(S, R, n) = S
         /\ n <= Cardinality(S) => n <= Cardinality(Foremost(S, R, n))
<1>0. PICK F : F = Foremost(S, R, n) /\ F = {x \in S : Cardinality(Below(S, R, x)) < n}
  BY DEF Foremost
<1>1. F \in SUBSET S /\ IsFiniteSet(F)
  BY <1>0, FS_Subset DEF Row
<1>2. Cardinality(F) \in Nat
  BY <1>1, FS_CardinalityType
<1>3. ASSUME Cardinality(S) <= n PROVE F = S
  <2>1. \A x \in S : Cardinality(Below(S, R, x)) < n
    BY <1>3, BelowIsLess
  <2> QED BY <1>0, <2>1
<1>4. ASSUME n <= Cardinality(S) PROVE n <= Cardinality(F)
  <2>1. PICK s, N : s = Sorted(S, R) /\ N = Cardinality(S)
    OBVIOUS
  <2>2. s \in Seq(S) /\ Len(s) = N /\ N \in Nat
        /\ \A h \in 1 .. N : Cardinality(Below(S, R, s[h])) = h - 1
    BY <2>1, SortedIs
  <2> DEFINE f == [h \in 1 .. n |-> s[h]]
  <2>3. \A h \in 1 .. n : h \in 1 .. N /\ s[h] \in S /\ Cardinality(Below(S, R, s[h])) = h - 1 /\ h - 1 < n
    BY <1>4, <2>1, <2>2
  <2>4. f \in [1 .. n -> F]
    BY <1>0, <2>3
  <2>5. \A h, m \in 1 .. n : f[h] = f[m] => h = m
    <3>1. ASSUME NEW h \in 1 .. n, NEW m \in 1 .. n, f[h] = f[m] PROVE h = m
      <4>1. h - 1 = m - 1
        BY <2>3, <3>1
      <4> QED BY <4>1
    <3> QED BY <3>1
  <2>6. f \in Injection(1 .. n, F)
    BY <2>4, <2>5 DEF Injection, IsInjective
  <2>7. IsFiniteSet(1 .. n) /\ Cardinality(1 .. n) = n
    BY FS_Interval
  <2> QED BY <1>1, <2>6, <2>7, FS_Injection
<1> QED BY <1>0, <1>1, <1>2, <1>3, <1>4

\* The parameters of a listing are what they are said to be.
PageTypes ==
  /\ scope \subseteq Files /\ fresh \subseteq Files /\ recency \in BOOLEAN
  /\ per_file \in Nat \ {0} /\ limit \in Nat
  /\ purged \subseteq gone /\ gone \subseteq Files
  /\ offset \in 0 .. MaxSearchLimit
  /\ told \in {"idle", "none", "more", "end"}

\* The sizes are numbers.
LEMMA PagingSizes ==
  /\ Ranked \in Nat /\ MaxSearchLimit \in Nat /\ PoolFactor \in Nat /\ PoolCap \in Nat
  /\ MaxSearchLimit > 0 /\ Limits \subseteq Nat /\ PerFile \subseteq Nat \ {0}
  /\ \A r \in Files : Sections[r] \in Nat \ {0}
BY PageSizes DEF Files

\* Files are numbers, and no more than can be counted.
LEMMA FilesAre ==
  /\ IsFiniteSet(Files) /\ Files \subseteq Nat
  /\ \A r \in Files : r <= Ranked
BY PagingSizes, FS_Interval DEF Files

\* The order of files is one: by score, then by path.
LEMMA BeforeOrders ==
  /\ \A a \in Files : ~Before(a, a)
  /\ \A a, b \in Files : a = b \/ Before(a, b) \/ Before(b, a)
  /\ \A a, b, c \in Files : Before(a, b) /\ Before(b, c) => Before(a, c)
  /\ ~recency => \A a, b \in Files : Before(a, b) <=> a < b
<1>1. ASSUME NEW r \in Files
      PROVE  Score(r) \in Nat /\ (~recency => Score(r) = Ranked + 3 - r) /\ r \in Nat /\ r <= Ranked
  <2>1. r \in Nat /\ Ranked \in Nat /\ r <= Ranked
    BY PagingSizes, FilesAre
  <2>2. PICK m : m = Ranked + 3 - r
    OBVIOUS
  <2>3. m \in Nat
    BY <2>1, <2>2
  <2>4. Score(r) = m * 2 \/ Score(r) = m * 1
    BY <2>2 DEF Score
  <2>5. ~recency => Score(r) = m * 1
    BY <2>2 DEF Score
  <2> QED BY <2>1, <2>2, <2>3, <2>4, <2>5
<1>2. \A a \in Files : ~Before(a, a)
  BY <1>1 DEF Before
<1>3. \A a, b \in Files : a = b \/ Before(a, b) \/ Before(b, a)
  BY <1>1 DEF Before
<1>4. \A a, b, c \in Files : Before(a, b) /\ Before(b, c) => Before(a, c)
  BY <1>1 DEF Before
<1>5. ASSUME ~recency, NEW a \in Files, NEW b \in Files PROVE Before(a, b) <=> a < b
  <2>1. Score(a) = Ranked + 3 - a /\ Score(b) = Ranked + 3 - b /\ a \in Nat /\ b \in Nat /\ Ranked \in Nat
    BY <1>1, <1>5, PagingSizes
  <2> QED BY <2>1 DEF Before
<1> QED BY <1>2, <1>3, <1>4, <1>5

\* The pairs of S that are in an order.
FilePairs(S) == {ab \in S \X S : Before(ab[1], ab[2])}
RankPairs(S) == {ab \in S \X S : ab[1] < ab[2]}
SectionPairs(S) == {pq \in S \X S : Precedes(pq[1], pq[2])}

Pages == Files \X (1 .. per_file)

\* Files are in a row by score, and by their rank.
LEMMA FilesInRow ==
  ASSUME NEW S \in SUBSET Files
  PROVE  /\ Row(S, FilePairs(S)) /\ Row(S, RankPairs(S))
         /\ \A x \in S : Below(S, FilePairs(S), x) = {q \in S : Before(q, x)}
         /\ \A x \in S : Below(S, RankPairs(S), x) = {q \in S : q < x}
<1>1. IsFiniteSet(S) /\ S \subseteq Nat
  BY FilesAre, FS_Subset
<1>2. Row(S, FilePairs(S))
  <2>1. \A a, b \in S : <<a, b>> \in FilePairs(S) <=> Before(a, b)
    BY DEF FilePairs
  <2> QED BY <1>1, <2>1, BeforeOrders DEF Row
<1>3. Row(S, RankPairs(S))
  <2>1. \A a, b \in S : <<a, b>> \in RankPairs(S) <=> a < b
    BY DEF RankPairs
  <2>2. \A a, b, c \in S : /\ ~(a < a) /\ (a = b \/ a < b \/ b < a)
                           /\ (a < b /\ b < c => a < c)
    BY <1>1
  <2> QED BY <1>1, <2>1, <2>2 DEF Row
<1>4. \A x \in S : Below(S, FilePairs(S), x) = {q \in S : Before(q, x)}
  BY DEF Below, FilePairs
<1>5. \A x \in S : Below(S, RankPairs(S), x) = {q \in S : q < x}
  BY DEF Below, RankPairs
<1> QED BY <1>2, <1>3, <1>4, <1>5

\* Sections are in a row: by their file, then by their place in it.
LEMMA SectionsInRow ==
  ASSUME per_file \in Nat, NEW S \in SUBSET Pages
  PROVE  /\ Row(S, SectionPairs(S)) /\ InRanking(S) = Sorted(S, SectionPairs(S))
         /\ \A x \in S : Below(S, SectionPairs(S), x) = {q \in S : Precedes(q, x)}
<1>1. IsFiniteSet(Pages)
  <2>1. IsFiniteSet(1 .. per_file)
    BY FS_Interval
  <2> QED BY <2>1, FilesAre, FS_Product DEF Pages
<1>2. IsFiniteSet(S)
  BY <1>1, FS_Subset
<1>3. \A x \in S : x[1] \in Files /\ x[2] \in Nat /\ x = <<x[1], x[2]>>
  BY DEF Pages
<1>4. \A p, q \in S : <<p, q>> \in SectionPairs(S) <=> Precedes(p, q)
  BY DEF SectionPairs
<1>5. \A p \in S : ~Precedes(p, p)
  BY <1>3, BeforeOrders DEF Precedes
<1>6. ASSUME NEW p \in S, NEW q \in S PROVE p = q \/ Precedes(p, q) \/ Precedes(q, p)
  <2>1. p[1] = q[1] \/ Before(p[1], q[1]) \/ Before(q[1], p[1])
    BY <1>3, BeforeOrders
  <2>2. p[2] = q[2] \/ p[2] < q[2] \/ q[2] < p[2]
    BY <1>3
  <2>3. p[1] = q[1] /\ p[2] = q[2] => p = q
    BY <1>3
  <2> QED BY <2>1, <2>2, <2>3 DEF Precedes
<1>7. ASSUME NEW p \in S, NEW q \in S, NEW r \in S, Precedes(p, q), Precedes(q, r) PROVE Precedes(p, r)
  <2>1. Before(p[1], q[1]) /\ Before(q[1], r[1]) => Before(p[1], r[1])
    BY <1>3, BeforeOrders
  <2>2. p[2] < q[2] /\ q[2] < r[2] => p[2] < r[2]
    BY <1>3
  <2> QED BY <1>7, <2>1, <2>2 DEF Precedes
<1>8. Row(S, SectionPairs(S))
  BY <1>2, <1>4, <1>5, <1>6, <1>7 DEF Row
<1>9. InRanking(S) = Sorted(S, SectionPairs(S))
  BY DEF InRanking, SectionPairs
<1>10. \A x \in S : Below(S, SectionPairs(S), x) = {q \in S : Precedes(q, x)}
  BY DEF Below, SectionPairs
<1> QED BY <1>8, <1>9, <1>10

\* How many sections of S stand before x.
Ahead(S, x) == Cardinality({q \in S : Precedes(q, x)})

\* A ranking has each section where those before it leave it.
LEMMA RankingIs ==
  ASSUME per_file \in Nat, NEW S \in SUBSET Pages
  PROVE  /\ InRanking(S) \in Seq(S) /\ Len(InRanking(S)) = Cardinality(S) /\ Cardinality(S) \in Nat
         /\ \A n \in 1 .. Cardinality(S) : Ahead(S, InRanking(S)[n]) = n - 1
<1>1. Row(S, SectionPairs(S)) /\ InRanking(S) = Sorted(S, SectionPairs(S))
  BY SectionsInRow
<1>2. /\ InRanking(S) \in Seq(S) /\ Len(InRanking(S)) = Cardinality(S) /\ Cardinality(S) \in Nat
      /\ \A n \in 1 .. Cardinality(S) : Cardinality(Below(S, SectionPairs(S), InRanking(S)[n])) = n - 1
  BY <1>1, SortedIs
<1>3. \A n \in 1 .. Cardinality(S) : InRanking(S)[n] \in S
  BY <1>2
<1> QED BY <1>2, <1>3, SectionsInRow DEF Ahead

\* FirstOf is a beginning.
LEMMA FirstOfIs ==
  ASSUME NEW T, NEW s \in Seq(T), NEW n \in Nat
  PROVE  /\ FirstOf(s, n) \in Seq(T) /\ Len(FirstOf(s, n)) = Lower(n, Len(s))
         /\ Lower(n, Len(s)) \in Nat /\ Lower(n, Len(s)) <= n /\ Lower(n, Len(s)) <= Len(s)
         /\ \A i \in 1 .. Lower(n, Len(s)) : FirstOf(s, n)[i] = s[i]
BY DEF FirstOf, Lower

\* Two sequences of one length and with the same entries are one.
LEMMA SameSeq ==
  ASSUME NEW T, NEW s \in Seq(T), NEW U, NEW t \in Seq(U), Len(s) = Len(t),
         \A i \in 1 .. Len(s) : s[i] = t[i]
  PROVE  s = t
OBVIOUS

\* The files a listing can still show.
Live == InScope \ gone

Avail == {r \in Files : r \notin purged /\ (scope = {} \/ r \in scope \ gone)}

\* The hits that search_fts_multi_with resolves.
Fetched(n) ==
  IF recency THEN weight_hits(search_fts_scoped(recency_pool(n)), n) ELSE search_fts_scoped(n)

LowIn(H, D) == \A r \in H : \A q \in D : Before(q, r) => q \in H

\* The best n files: all of them or as many, and none without a better one.
LEMMA BestAre ==
  ASSUME NEW S \in SUBSET Files, NEW n \in Nat, NEW F,
         F = BestOf(S, n) \/ F = weight_hits(S, n)
  PROVE  /\ F \in SUBSET S /\ Cardinality(S) \in Nat /\ Cardinality(F) \in Nat
         /\ Cardinality(S) <= n => F = S
         /\ n <= Cardinality(S) => n <= Cardinality(F)
<1>1. Row(S, FilePairs(S)) /\ Row(S, RankPairs(S))
  BY FilesInRow
<1>2. Cardinality(S) \in Nat
  BY <1>1, FS_CardinalityType DEF Row
<1>3. PICK R : Row(S, R) /\ F = Foremost(S, R, n)
  <2>1. CASE F = BestOf(S, n)
    <3>1. F = Foremost(S, RankPairs(S), n)
      BY <2>1, FilesInRow DEF BestOf, Foremost
    <3> QED BY <1>1, <3>1
  <2>2. CASE F = weight_hits(S, n)
    <3>1. F = Foremost(S, FilePairs(S), n)
      BY <2>2, FilesInRow DEF weight_hits, Foremost
    <3> QED BY <1>1, <3>1
  <2> QED BY <2>1, <2>2
<1> QED BY <1>2, <1>3, FirstAreMany

\* The best of S hold whatever of S is before one of them.
LEMMA BestAreLow ==
  ASSUME NEW S \in SUBSET Files, NEW n \in Nat, NEW F,
         F = weight_hits(S, n) \/ (~recency /\ F = BestOf(S, n))
  PROVE  LowIn(F, S)
<1> SUFFICES ASSUME NEW r \in F, NEW q \in S, Before(q, r) PROVE q \in F
  BY DEF LowIn
<1>1. r \in S /\ Row(S, FilePairs(S)) /\ Row(S, RankPairs(S))
  BY FilesInRow DEF weight_hits, BestOf
<1>2. CASE F = weight_hits(S, n)
  <2>1. <<q, r>> \in FilePairs(S)
    BY <1>1 DEF FilePairs
  <2>2. Cardinality(Below(S, FilePairs(S), q)) < Cardinality(Below(S, FilePairs(S), r))
        /\ Cardinality(Below(S, FilePairs(S), q)) \in Nat /\ Cardinality(Below(S, FilePairs(S), r)) \in Nat
    BY <1>1, <2>1, BelowGrows
  <2>3. Cardinality(Below(S, FilePairs(S), r)) < n
    BY <1>1, <1>2, FilesInRow DEF weight_hits
  <2>4. Cardinality(Below(S, FilePairs(S), q)) < n
    BY <2>2, <2>3
  <2> QED BY <1>2, <2>4, FilesInRow DEF weight_hits
<1>3. CASE ~recency /\ F = BestOf(S, n)
  <2>1. q < r
    BY <1>1, <1>3, BeforeOrders
  <2>2. <<q, r>> \in RankPairs(S)
    BY <1>1, <2>1 DEF RankPairs
  <2>3. Cardinality(Below(S, RankPairs(S), q)) < Cardinality(Below(S, RankPairs(S), r))
        /\ Cardinality(Below(S, RankPairs(S), q)) \in Nat /\ Cardinality(Below(S, RankPairs(S), r)) \in Nat
    BY <1>1, <2>2, BelowGrows
  <2>4. Cardinality(Below(S, RankPairs(S), r)) < n
    BY <1>1, <1>3, FilesInRow DEF BestOf
  <2>5. Cardinality(Below(S, RankPairs(S), q)) < n
    BY <2>3, <2>4
  <2> QED BY <1>3, <2>5, FilesInRow DEF BestOf
<1> QED BY <1>2, <1>3

\* Without age weighting the files resolved are the best of those that live.
LEMMA FetchedLow ==
  ASSUME PageTypes, ~recency, NEW n \in Nat
  PROVE  Fetched(n) \ gone \in SUBSET Live /\ LowIn(Fetched(n) \ gone, Live)
<1> DEFINE H == Fetched(n)
<1>1. H = BestOf(Avail, n) /\ Avail \in SUBSET Files
  BY DEF Fetched, search_fts_scoped, Avail
<1>2. Live \in SUBSET Avail
  BY DEF Live, Avail, InScope, PageTypes
<1>3. H \in SUBSET Avail /\ LowIn(H, Avail)
  BY <1>1, BestAre, BestAreLow
<1> HIDE DEF H
<1>4. H \ gone \in SUBSET Live
  BY <1>1, <1>3 DEF Live, Avail, InScope
<1>5. LowIn(H \ gone, Live)
  BY <1>2, <1>3 DEF LowIn, Live
<1> QED BY <1>4, <1>5 DEF H

\* The pool is no smaller than what is wanted.
LEMMA PoolHolds ==
  ASSUME NEW n \in Nat
  PROVE  /\ recency_pool(n) \in Nat /\ n <= recency_pool(n)
         /\ \A m \in Nat : n <= m => recency_pool(n) <= recency_pool(m)
<1>1. PoolFactor \in Nat /\ PoolCap \in Nat
  BY PagingSizes
<1>2. \A m \in Nat : m * PoolFactor \in Nat
  BY <1>1
<1>3. \A m \in Nat : recency_pool(m) \in Nat /\ m <= recency_pool(m)
  BY <1>1, <1>2 DEF recency_pool, Higher, Lower
<1>4. ASSUME NEW m \in Nat, n <= m PROVE recency_pool(n) <= recency_pool(m)
  <2>1. n * PoolFactor <= m * PoolFactor
    <3>1. PICK d \in Nat : m = n + d
      <4>1. m - n \in Nat /\ m = n + (m - n)
        BY <1>4
      <4> QED BY <4>1
    <3>2. m * PoolFactor = n * PoolFactor + d * PoolFactor
      BY <1>1, <3>1, SMT
    <3> QED BY <1>2, <3>2
  <2>2. PICK a, b : a = n * PoolFactor /\ b = m * PoolFactor
    OBVIOUS
  <2>3. a \in Nat /\ b \in Nat /\ a <= b
    BY <1>2, <2>1, <2>2
  <2> QED BY <1>1, <1>4, <2>2, <2>3 DEF recency_pool, Higher, Lower
<1> QED BY <1>3, <1>4

\* The pool of the weighting holds every file in scope, or there is none.
Pooled(n) == recency => recency_pool(n) >= Cardinality(InScope)

\* While no row goes, the files fetched are those in scope or as many as are
\* wanted; and the best, where the pool holds all.
LEMMA FetchedAre ==
  ASSUME PageTypes, gone = {}, NEW n \in Nat
  PROVE  /\ Fetched(n) \in SUBSET InScope /\ InScope \in SUBSET Files
         /\ Cardinality(InScope) \in Nat /\ Cardinality(Fetched(n)) \in Nat
         /\ Cardinality(InScope) <= n => Fetched(n) = InScope
         /\ n <= Cardinality(InScope) => n <= Cardinality(Fetched(n))
         /\ Pooled(n) => LowIn(Fetched(n), InScope)
<1>1. Avail = InScope /\ InScope \in SUBSET Files
  BY DEF Avail, InScope, PageTypes
<1>2. CASE ~recency
  <2>1. Fetched(n) = BestOf(InScope, n)
    BY <1>1, <1>2 DEF Fetched, search_fts_scoped, Avail
  <2> QED BY <1>1, <1>2, <2>1, BestAre, BestAreLow
<1>3. CASE recency
  <2>1. PICK P, m : P = BestOf(InScope, m) /\ m = recency_pool(n)
    OBVIOUS
  <2>2. Fetched(n) = weight_hits(P, n)
    BY <1>1, <1>3, <2>1 DEF Fetched, search_fts_scoped, Avail
  <2>3. m \in Nat /\ n <= m
    BY <2>1, PoolHolds
  <2>4. /\ P \in SUBSET InScope /\ Cardinality(InScope) \in Nat /\ Cardinality(P) \in Nat
        /\ Cardinality(InScope) <= m => P = InScope
        /\ m <= Cardinality(InScope) => m <= Cardinality(P)
    BY <1>1, <2>1, <2>3, BestAre
  <2>5. P \in SUBSET Files
    BY <1>1, <2>4
  <2>6. /\ Fetched(n) \in SUBSET P /\ Cardinality(Fetched(n)) \in Nat
        /\ Cardinality(P) <= n => Fetched(n) = P
        /\ n <= Cardinality(P) => n <= Cardinality(Fetched(n))
    BY <2>2, <2>5, BestAre
  <2>7. LowIn(Fetched(n), P)
    BY <2>2, <2>5, BestAreLow
  <2>8. Cardinality(InScope) <= n => Fetched(n) = InScope
    BY <2>3, <2>4, <2>6
  <2>9. n <= Cardinality(InScope) => n <= Cardinality(Fetched(n))
    BY <2>3, <2>4, <2>6
  <2>10. Pooled(n) => LowIn(Fetched(n), InScope)
    BY <1>3, <2>1, <2>3, <2>4, <2>7 DEF Pooled
  <2> QED BY <1>1, <2>4, <2>6, <2>8, <2>9, <2>10
<1> QED BY <1>2, <1>3

\* Sections of files are pages.
LEMMA SectionsAre ==
  ASSUME PageTypes, NEW H \in SUBSET Files
  PROVE  /\ SectionsOf(H) \in SUBSET Pages /\ per_file \in Nat
         /\ \A r \in H : <<r, 1>> \in SectionsOf(H)
         /\ \A p \in SectionsOf(H) : p[1] \in H
         /\ \A D \in SUBSET H : SectionsOf(D) = {p \in SectionsOf(H) : p[1] \in D}
<1>1. 1 \in 1 .. per_file /\ per_file \in Nat
  BY DEF PageTypes
<1>2. \A r \in Files : 1 <= Sections[r]
  BY PagingSizes
<1> QED BY <1>1, <1>2 DEF SectionsOf, Pages

\* There are at least as many sections as files.
LEMMA SectionsAreMany ==
  ASSUME PageTypes, NEW H \in SUBSET Files
  PROVE  Cardinality(H) \in Nat /\ Cardinality(H) <= Cardinality(SectionsOf(H))
         /\ Cardinality(SectionsOf(H)) \in Nat /\ IsFiniteSet(SectionsOf(H))
<1>1. Row(SectionsOf(H), SectionPairs(SectionsOf(H))) /\ IsFiniteSet(H)
  BY SectionsAre, SectionsInRow, FilesAre, FS_Subset
<1>2. IsFiniteSet(SectionsOf(H))
  BY <1>1 DEF Row
<1> DEFINE f == [r \in H |-> <<r, 1>>]
<1>3. f \in [H -> SectionsOf(H)] /\ \A r, q \in H : f[r] = f[q] => r = q
  BY SectionsAre
<1>4. f \in Injection(H, SectionsOf(H))
  BY <1>3 DEF Injection, IsInjective
<1>5. Cardinality(H) <= Cardinality(SectionsOf(H))
  BY <1>2, <1>4, FS_Injection
<1> QED BY <1>1, <1>2, <1>5, FS_CardinalityType

\* With the better files in it, a set of files has the sections ahead in it.
LEMMA SectionsLow ==
  ASSUME PageTypes, NEW D \in SUBSET Files, NEW H \in SUBSET D, LowIn(H, D), NEW x \in SectionsOf(H)
  PROVE  Ahead(SectionsOf(D), x) = Ahead(SectionsOf(H), x)
<1>1. SectionsOf(H) = {p \in SectionsOf(D) : p[1] \in H}
  BY SectionsAre
<1>2. \A q \in SectionsOf(D) : Precedes(q, x) => q[1] \in H
  <2> SUFFICES ASSUME NEW q \in SectionsOf(D), Precedes(q, x) PROVE q[1] \in H
    OBVIOUS
  <2>1. q[1] \in D /\ x[1] \in H
    BY <1>1, SectionsAre
  <2> QED BY <2>1 DEF Precedes, LowIn
<1>3. {q \in SectionsOf(D) : Precedes(q, x)} = {q \in SectionsOf(H) : Precedes(q, x)}
  BY <1>1, <1>2
<1> QED BY <1>3 DEF Ahead

\* Without age weighting the p-th section listed has p - 1 of those that live
\* ahead of it.
LEMMA ListLow ==
  ASSUME PageTypes, ~recency, NEW n \in Nat
  PROVE  LET L == search_fts_multi_with(n)
         IN /\ L \in Seq(Pages) /\ Len(L) \in Nat /\ Len(L) <= n
            /\ \A p \in 1 .. Len(L) : Ahead(SectionsOf(Live), L[p]) = p - 1
<1>1. PICK H : H = Fetched(n) \ gone
  OBVIOUS
<1>2. H \in SUBSET Live /\ LowIn(H, Live) /\ Live \in SUBSET Files
  BY <1>1, FetchedLow DEF Live, InScope
<1>3. PICK L, s : L = search_fts_multi_with(n) /\ s = InRanking(SectionsOf(H))
  OBVIOUS
<1>4. L = FirstOf(s, n)
  BY <1>1, <1>3 DEF search_fts_multi_with, Fetched, rank_picks
<1>5. SectionsOf(H) \in SUBSET Pages /\ per_file \in Nat
  BY <1>2, SectionsAre
<1>6. /\ s \in Seq(SectionsOf(H)) /\ Len(s) \in Nat
      /\ \A p \in 1 .. Len(s) : Ahead(SectionsOf(H), s[p]) = p - 1
  BY <1>3, <1>5, RankingIs
<1>7. s \in Seq(Pages)
  BY <1>5, <1>6
<1>8. /\ L \in Seq(Pages) /\ Len(L) \in Nat /\ Len(L) <= n /\ Len(L) <= Len(s)
      /\ \A p \in 1 .. Len(L) : L[p] = s[p]
  BY <1>4, <1>7, FirstOfIs
<1>9. ASSUME NEW p \in 1 .. Len(L) PROVE Ahead(SectionsOf(Live), L[p]) = p - 1
  <2>1. p \in 1 .. Len(s) /\ s[p] \in SectionsOf(H)
    BY <1>6, <1>8
  <2>2. Ahead(SectionsOf(Live), s[p]) = Ahead(SectionsOf(H), s[p])
    BY <1>2, <2>1, SectionsLow
  <2> QED BY <1>6, <1>8, <2>1, <2>2
<1> QED BY <1>3, <1>8, <1>9

\* The ranking is a sequence of sections.
LEMMA RankingTypes ==
  ASSUME PageTypes
  PROVE  /\ Ranking \in Seq(Pages) /\ Len(Ranking) = Cardinality(SectionsOf(InScope)) /\ Len(Ranking) \in Nat
         /\ InScope \in SUBSET Files /\ SectionsOf(InScope) \in SUBSET Pages
         /\ \A p \in 1 .. Len(Ranking) : /\ Ranking[p] \in SectionsOf(InScope)
                                         /\ Ahead(SectionsOf(InScope), Ranking[p]) = p - 1
<1>1. InScope \in SUBSET Files
  BY DEF InScope
<1>2. SectionsOf(InScope) \in SUBSET Pages /\ per_file \in Nat
  BY <1>1, SectionsAre
<1>3. /\ Ranking \in Seq(SectionsOf(InScope)) /\ Len(Ranking) = Cardinality(SectionsOf(InScope))
      /\ Len(Ranking) \in Nat
      /\ \A p \in 1 .. Len(Ranking) : Ahead(SectionsOf(InScope), Ranking[p]) = p - 1
  BY <1>2, RankingIs DEF Ranking
<1>4. Ranking \in Seq(Pages)
  BY <1>2, <1>3
<1> QED BY <1>1, <1>2, <1>3, <1>4

\* Sections with as many of the ranking ahead are the same.
LEMMA SamePlace ==
  ASSUME per_file \in Nat, NEW S \in SUBSET Pages, NEW x \in S, NEW y \in S, Ahead(S, x) = Ahead(S, y)
  PROVE  x = y
<1>1. Row(S, SectionPairs(S))
  BY SectionsInRow
<1>2. Cardinality(Below(S, SectionPairs(S), x)) = Cardinality(Below(S, SectionPairs(S), y))
  BY SectionsInRow DEF Ahead
<1>3. Cardinality(Below(S, SectionPairs(S), x)) \in Nat /\ Cardinality(Below(S, SectionPairs(S), y)) \in Nat
  BY <1>1, BelowIsLess
<1>4. x = y \/ <<x, y>> \in SectionPairs(S)
  BY <1>1, <1>2, <1>3, PlaceIsOne
<1>5. <<x, y>> \notin SectionPairs(S)
  BY <1>1, <1>2, <1>3, BelowGrows
<1> QED BY <1>4, <1>5

\* While no row goes, a list is as long as can be, and a beginning of the
\* ranking where the pool holds all.
LEMMA ListSame ==
  ASSUME PageTypes, gone = {}, NEW n \in Nat
  PROVE  LET L == search_fts_multi_with(n)
         IN /\ L \in Seq(Pages) /\ Len(L) = Lower(n, Len(Ranking))
            /\ Pooled(n) => \A p \in 1 .. Len(L) : L[p] = Ranking[p]
<1>1. PICK H, N : H = Fetched(n) /\ N = Cardinality(InScope)
  OBVIOUS
<1>2. /\ H \in SUBSET InScope /\ InScope \in SUBSET Files
      /\ N \in Nat /\ Cardinality(H) \in Nat
      /\ N <= n => H = InScope
      /\ n <= N => n <= Cardinality(H)
      /\ Pooled(n) => LowIn(H, InScope)
  BY <1>1, FetchedAre
<1>3. PICK L, s : L = search_fts_multi_with(n) /\ s = InRanking(SectionsOf(H))
  OBVIOUS
<1>4. L = FirstOf(s, n)
  <2>1. H \ gone = H
    OBVIOUS
  <2> QED BY <1>1, <1>3, <2>1 DEF search_fts_multi_with, Fetched, rank_picks
<1>5. H \in SUBSET Files /\ SectionsOf(H) \in SUBSET Pages /\ per_file \in Nat
  BY <1>2, SectionsAre
<1>6. /\ s \in Seq(SectionsOf(H)) /\ Len(s) = Cardinality(SectionsOf(H)) /\ Len(s) \in Nat
      /\ \A p \in 1 .. Len(s) : Ahead(SectionsOf(H), s[p]) = p - 1
  BY <1>3, <1>5, RankingIs
<1>7. s \in Seq(Pages)
  BY <1>5, <1>6
<1>8. /\ L \in Seq(Pages) /\ Len(L) = Lower(n, Len(s)) /\ Len(L) \in Nat /\ Len(L) <= n /\ Len(L) <= Len(s)
      /\ \A p \in 1 .. Len(L) : L[p] = s[p]
  BY <1>4, <1>7, FirstOfIs
<1>9. /\ Cardinality(H) <= Len(s)
      /\ N <= Len(Ranking) /\ Len(Ranking) \in Nat
  BY <1>1, <1>2, <1>5, <1>6, SectionsAreMany, RankingTypes
<1>10. Len(s) <= Len(Ranking)
  <2>1. SectionsOf(H) \in SUBSET SectionsOf(InScope) /\ IsFiniteSet(SectionsOf(InScope))
    BY <1>2, SectionsAre, SectionsAreMany
  <2> QED BY <1>6, <2>1, FS_Subset, RankingTypes
<1>11. Len(L) = Lower(n, Len(Ranking))
  <2>1. CASE N <= n
    <3>1. s = Ranking
      BY <1>2, <1>3, <2>1 DEF Ranking
    <3> QED BY <1>8, <3>1
  <2>2. CASE n <= N
    <3>1. n <= Len(s) /\ n <= Len(Ranking)
      BY <1>2, <1>6, <1>9, <2>2
    <3> QED BY <1>6, <1>8, <1>9, <3>1 DEF Lower
  <2> QED BY <1>2, <2>1, <2>2
<1>12. ASSUME Pooled(n), NEW p \in 1 .. Len(L) PROVE L[p] = Ranking[p]
  <2>1. p \in 1 .. Len(s) /\ s[p] \in SectionsOf(H) /\ p \in 1 .. Len(Ranking) /\ L[p] = s[p]
    BY <1>6, <1>8, <1>9, <1>10
  <2>2. Ahead(SectionsOf(InScope), s[p]) = Ahead(SectionsOf(H), s[p])
    BY <1>2, <1>12, <2>1, SectionsLow
  <2>3. s[p] \in SectionsOf(InScope)
    <3>1. SectionsOf(H) \in SUBSET SectionsOf(InScope)
      BY <1>2, SectionsAre
    <3> QED BY <2>1, <3>1
  <2>5. Ranking[p] \in SectionsOf(InScope) /\ SectionsOf(InScope) \in SUBSET Pages
    BY <2>1, RankingTypes
  <2>4. Ahead(SectionsOf(InScope), s[p]) = Ahead(SectionsOf(InScope), Ranking[p])
    BY <1>6, <2>1, <2>2, RankingTypes
  <2> QED BY <1>5, <2>1, <2>3, <2>4, <2>5, SamePlace
<1> QED BY <1>3, <1>8, <1>11, <1>12

\* What the first page fetches.
AtFirst == fetch_len(0, clamp_limit(limit))

Ascending(s) == \A i, j \in 1 .. Len(s) : i < j => Precedes(s[i], s[j])

\* Without age weighting the sections shown are in order, and no more of those
\* that live are ahead of the last one than were shown before it.
OneRanking ==
  ~recency => /\ Ascending(listed)
              /\ listed # <<>> => Ahead(SectionsOf(Live), listed[Len(listed)]) < Len(listed)

\* While no row goes, what is shown is a beginning of the ranking.
WholeRanking ==
  gone = {} => /\ Len(listed) <= Len(Ranking)
               /\ Pooled(AtFirst) => \A i \in 1 .. Len(listed) : listed[i] = Ranking[i]

PageInv ==
  /\ PageTypes
  /\ listed \in Seq(Pages) /\ Len(listed) <= MaxSearchLimit
  /\ told \in {"none", "more"} => offset = Len(listed)
  /\ told = "none" => listed = <<>>
  /\ OneRanking /\ WholeRanking /\ EndIsTheEnd

\* The invariant says what is to be shown.
LEMMA PageInvSays == PageInv => PagesCoverTheRanking
<1> SUFFICES ASSUME PageInv PROVE PagesCoverTheRanking
  OBVIOUS
<1>1. PageTypes /\ listed \in Seq(Pages) /\ Len(listed) \in Nat /\ Len(listed) <= MaxSearchLimit
      /\ OneRanking /\ WholeRanking /\ EndIsTheEnd
  BY DEF PageInv
<1>2. Range(listed) \subseteq Files \X (1 .. per_file)
  BY <1>1 DEF Range, Pages
<1>3. \A i \in 1 .. Len(listed) : listed[i] \in Pages
  BY <1>1
<1>4. gone = {} /\ Pooled(AtFirst) => listed = FirstOf(Ranking, Len(listed))
  <2> SUFFICES ASSUME gone = {}, Pooled(AtFirst) PROVE listed = FirstOf(Ranking, Len(listed))
    OBVIOUS
  <2>1. PICK t : t = FirstOf(Ranking, Len(listed))
    OBVIOUS
  <2>2. Len(listed) <= Len(Ranking) /\ \A i \in 1 .. Len(listed) : listed[i] = Ranking[i]
    BY <1>1 DEF WholeRanking
  <2>3. /\ t \in Seq(Pages) /\ Len(t) = Lower(Len(listed), Len(Ranking))
        /\ \A i \in 1 .. Len(t) : t[i] = Ranking[i]
    BY <1>1, <2>1, RankingTypes, FirstOfIs
  <2>4. Len(t) = Len(listed)
    BY <1>1, <2>2, <2>3, RankingTypes DEF Lower
  <2>5. \A i \in 1 .. Len(listed) : listed[i] = t[i]
    BY <2>2, <2>3, <2>4
  <2> QED BY <1>1, <2>1, <2>3, <2>4, <2>5, SameSeq
<1>5. PagesAreOneRanking
  <2> SUFFICES ASSUME ~recency
               PROVE  /\ \A i, j \in DOMAIN listed : i < j =>
                           \/ listed[i][1] < listed[j][1]
                           \/ (listed[i][1] = listed[j][1] /\ listed[i][2] < listed[j][2])
                      /\ listed # <<>> /\ gone = {} => listed = FirstOf(Ranking, Len(listed))
    BY DEF PagesAreOneRanking
  <2>1. ASSUME NEW i \in DOMAIN listed, NEW j \in DOMAIN listed, i < j
        PROVE  \/ listed[i][1] < listed[j][1]
               \/ (listed[i][1] = listed[j][1] /\ listed[i][2] < listed[j][2])
    <3>1. i \in 1 .. Len(listed) /\ j \in 1 .. Len(listed) /\ listed[i][1] \in Files /\ listed[j][1] \in Files
      BY <1>1, <1>3 DEF Pages
    <3>2. Precedes(listed[i], listed[j])
      BY <1>1, <2>1, <3>1 DEF OneRanking, Ascending
    <3>3. Before(listed[i][1], listed[j][1]) <=> listed[i][1] < listed[j][1]
      BY <3>1, BeforeOrders
    <3> QED BY <3>2, <3>3 DEF Precedes
  <2>2. Pooled(AtFirst)
    BY DEF Pooled
  <2> QED BY <1>4, <2>1, <2>2
<1>6. RecencyIsOneRanking
  BY <1>4 DEF RecencyIsOneRanking, Pooled, AtFirst
<1>7. /\ offset \in 0 .. MaxSearchLimit /\ purged \subseteq gone /\ gone \subseteq Files
      /\ told \in {"idle", "none", "more", "end"}
  BY <1>1 DEF PageTypes
<1> QED BY <1>1, <1>2, <1>5, <1>6, <1>7 DEF PagesCoverTheRanking

\* A listing starts with nothing shown.
LEMMA PageStart == PageInit \/ NoPaging => PageInv
<1> SUFFICES ASSUME PageInit \/ NoPaging PROVE PageInv
  OBVIOUS
<1>1. /\ listed = <<>> /\ Len(listed) = 0 /\ offset = 0 /\ gone = {} /\ purged = {}
      /\ told \in {"none", "idle"} /\ listed \in Seq(Pages)
  <2>1. listed = <<>> /\ offset = 0 /\ gone = {} /\ purged = {} /\ told \in {"none", "idle"}
    BY DEF PageInit, NoPaging
  <2>2. <<>> \in Seq(Pages) /\ Len(<<>>) = 0
    OBVIOUS
  <2> QED BY <2>1, <2>2
<1>2. PageTypes
  <2>1. 0 \in 0 .. MaxSearchLimit
    BY PagingSizes
  <2>2. CASE PageInit
    <3>1. scope \subseteq Files
      BY <2>2 DEF PageInit
    <3>2. per_file \in Nat \ {0} /\ limit \in Nat
      BY <2>2, PagingSizes DEF PageInit
    <3>3. fresh \subseteq Files /\ recency \in BOOLEAN
      BY <2>2, Zenon DEF PageInit
    <3>4. purged \subseteq gone /\ gone \subseteq Files /\ offset \in 0 .. MaxSearchLimit
          /\ told \in {"idle", "none", "more", "end"}
      BY <1>1, <2>1
    <3> QED BY <3>1, <3>2, <3>3, <3>4, Zenon DEF PageTypes
  <2>3. CASE NoPaging
    <3>1. scope = {} /\ fresh = {} /\ recency = FALSE /\ per_file = 1 /\ limit = 1
      BY <2>3 DEF NoPaging
    <3>2. scope \subseteq Files /\ fresh \subseteq Files /\ per_file \in Nat \ {0} /\ limit \in Nat
      BY <3>1
    <3>3. recency \in BOOLEAN
      BY <3>1, Zenon
    <3>4. purged \subseteq gone /\ gone \subseteq Files /\ offset \in 0 .. MaxSearchLimit
          /\ told \in {"idle", "none", "more", "end"}
      BY <1>1, <2>1
    <3> QED BY <3>2, <3>3, <3>4, Zenon DEF PageTypes
  <2> QED BY <2>2, <2>3
<1>3. OneRanking /\ WholeRanking /\ EndIsTheEnd
  <2>1. 1 .. Len(listed) = {}
    BY <1>1
  <2> QED BY <1>1, <1>2, <2>1, RankingTypes DEF OneRanking, WholeRanking, EndIsTheEnd, Ascending
<1> QED BY <1>1, <1>2, <1>3, PagingSizes DEF PageInv

\* Whatever the page asked for, the reply fetches enough for it and no more
\* than the server ranks.
LEMMA FetchIs ==
  ASSUME PageTypes, NEW from \in 0 .. MaxSearchLimit
  PROVE  LET size == clamp_limit(limit)
             n == fetch_len(from, size)
         IN /\ clamp_offset(from) = from
            /\ size \in Nat /\ size > 0 /\ size <= MaxSearchLimit
            /\ n \in Nat /\ n <= MaxSearchLimit
            /\ n = from + size + 1 \/ (n = MaxSearchLimit /\ n < from + size + 1)
            /\ AtFirst \in Nat /\ AtFirst <= n
BY PagingSizes DEF PageTypes, clamp_offset, clamp_limit, fetch_len, AtFirst, Lower, Higher

\* A page is cut out of its list.
LEMMA PageIs ==
  ASSUME NEW T, NEW L \in Seq(T), NEW from \in Nat, NEW n \in Nat
  PROVE  LET cut == page_of(L, from, n)
         IN /\ cut.page \in Seq(T) /\ Len(cut.page) \in Nat /\ Len(cut.page) <= n
            /\ cut.more <=> Len(L) > from + n
            /\ from <= Len(L) => Len(cut.page) = Lower(n, Len(L) - from)
            /\ Len(L) <= from => Len(cut.page) = 0
            /\ \A i \in 1 .. Len(cut.page) : from + i \in 1 .. Len(L) /\ cut.page[i] = L[from + i]
<1>1. PICK s : s = SubSeq(L, from + 1, Len(L))
  OBVIOUS
<1>2. /\ s \in Seq(T) /\ Len(s) \in Nat
      /\ Len(s) = IF from <= Len(L) THEN Len(L) - from ELSE 0
      /\ \A i \in 1 .. Len(s) : from + i \in 1 .. Len(L) /\ s[i] = L[from + i]
  BY <1>1
<1>3. PICK cut : cut = page_of(L, from, n)
  OBVIOUS
<1>4. cut.page = FirstOf(s, n) /\ (cut.more <=> Len(L) > from + n)
  BY <1>1, <1>3 DEF page_of
<1>5. /\ cut.page \in Seq(T) /\ Len(cut.page) = Lower(n, Len(s)) /\ Len(cut.page) \in Nat
      /\ Len(cut.page) <= n /\ Len(cut.page) <= Len(s)
      /\ \A i \in 1 .. Len(cut.page) : cut.page[i] = s[i]
  <2>1. PICK f : f = cut.page
    OBVIOUS
  <2>2. f = FirstOf(s, n) /\ s \in Seq(T)
    BY <1>2, <1>4, <2>1
  <2>3. /\ f \in Seq(T) /\ Len(f) = Lower(n, Len(s))
        /\ Lower(n, Len(s)) \in Nat /\ Lower(n, Len(s)) <= n /\ Lower(n, Len(s)) <= Len(s)
        /\ \A i \in 1 .. Lower(n, Len(s)) : f[i] = s[i]
    BY <2>2, FirstOfIs
  <2> QED BY <2>1, <2>3
<1>6. \A i \in 1 .. Len(cut.page) : i \in 1 .. Len(s)
  BY <1>2, <1>5
<1>7. from <= Len(L) => Len(cut.page) = Lower(n, Len(L) - from)
  BY <1>2, <1>5
<1>8. Len(L) <= from => Len(cut.page) = 0
  BY <1>2, <1>5
<1> QED BY <1>2, <1>3, <1>4, <1>5, <1>6, <1>7, <1>8

\* What is ahead can be counted.
LEMMA AheadIs ==
  ASSUME per_file \in Nat, NEW S \in SUBSET Pages, NEW x
  PROVE  Ahead(S, x) \in Nat
<1>1. IsFiniteSet(S)
  BY SectionsInRow DEF Row
<1>2. IsFiniteSet({q \in S : Precedes(q, x)})
  BY <1>1, FS_Subset
<1> QED BY <1>2, FS_CardinalityType DEF Ahead

\* A section that no fewer are ahead of than are shown stands after the last.
LEMMA StandsAfter ==
  ASSUME per_file \in Nat, NEW S \in SUBSET Pages, NEW x \in Pages, NEW y \in Pages,
         Ahead(S, y) < Ahead(S, x)
  PROVE  Precedes(y, x)
<1> DEFINE A == {q \in S : Precedes(q, x)}
           B == {q \in S : Precedes(q, y)}
           P == SectionPairs(Pages)
<1>1. Row(Pages, P)
  BY SectionsInRow
<1>2. \A p, q \in Pages : <<p, q>> \in P <=> Precedes(p, q)
  BY DEF SectionPairs
<1>3. IsFiniteSet(A) /\ IsFiniteSet(B)
  <2>1. A \in SUBSET Pages /\ B \in SUBSET Pages
    OBVIOUS
  <2> QED BY <1>1, <2>1, FS_Subset DEF Row
<1>4. SUFFICES ASSUME ~Precedes(y, x) PROVE FALSE
  OBVIOUS
<1>5. x = y \/ Precedes(x, y)
  BY <1>1, <1>2, <1>4 DEF Row
<1>6. A \in SUBSET B
  BY <1>1, <1>2, <1>5 DEF Row
<1>7. Cardinality(A) <= Cardinality(B) /\ Cardinality(A) \in Nat /\ Cardinality(B) \in Nat
  BY <1>3, <1>6, FS_Subset, FS_CardinalityType
<1>8. Cardinality(B) < Cardinality(A)
  BY DEF Ahead
<1> HIDE DEF A, B
<1> QED BY <1>7, <1>8

\* The next section stands after the one before.
LEMMA StandsNext ==
  ASSUME per_file \in Nat, NEW S \in SUBSET Pages, NEW x \in Pages, NEW y \in Pages, NEW z \in Pages,
         Precedes(x, y), Precedes(y, z)
  PROVE  Precedes(x, z)
<1>1. Row(Pages, SectionPairs(Pages))
  BY SectionsInRow
<1>2. \A p, q \in Pages : <<p, q>> \in SectionPairs(Pages) <=> Precedes(p, q)
  BY DEF SectionPairs
<1> QED BY <1>1, <1>2 DEF Row

\* Whatever goes, a list is one of sections.
LEMMA ListTypes ==
  ASSUME PageTypes, NEW n \in Nat
  PROVE  LET L == search_fts_multi_with(n)
         IN L \in Seq(Pages) /\ Len(L) \in Nat /\ Len(L) <= n
<1>1. PICK H : H = Fetched(n) \ gone
  OBVIOUS
<1>2. H \in SUBSET Files
  <2>1. Avail \in SUBSET Files /\ recency_pool(n) \in Nat
    BY PoolHolds DEF Avail
  <2>2. BestOf(Avail, n) \in SUBSET Files /\ BestOf(Avail, recency_pool(n)) \in SUBSET Files
    BY <2>1 DEF BestOf
  <2>3. weight_hits(BestOf(Avail, recency_pool(n)), n) \in SUBSET Files
    BY <2>2 DEF weight_hits
  <2>4. Fetched(n) = BestOf(Avail, n) \/ Fetched(n) = weight_hits(BestOf(Avail, recency_pool(n)), n)
    BY DEF Fetched, search_fts_scoped, Avail
  <2> QED BY <1>1, <2>2, <2>3, <2>4
<1>3. PICK L, s : L = search_fts_multi_with(n) /\ s = InRanking(SectionsOf(H))
  OBVIOUS
<1>4. L = FirstOf(s, n)
  BY <1>1, <1>3 DEF search_fts_multi_with, Fetched, rank_picks
<1>5. SectionsOf(H) \in SUBSET Pages /\ per_file \in Nat
  BY <1>2, SectionsAre
<1>6. s \in Seq(Pages)
  BY <1>3, <1>5, RankingIs
<1> QED BY <1>3, <1>4, <1>6, FirstOfIs

\* A page extends the ranking by its next sections.
LEMMA PageExtends ==
  ASSUME PageInv, search_blocking
  PROVE  PageInv'
<1>1. /\ PageTypes /\ listed \in Seq(Pages) /\ Len(listed) \in Nat /\ Len(listed) <= MaxSearchLimit
      /\ offset = Len(listed) /\ OneRanking /\ WholeRanking
      /\ told \in {"none", "more"} /\ offset \in 0 .. MaxSearchLimit
  BY DEF PageInv, search_blocking, PageTypes
<1>2. UNCHANGED <<scope, fresh, recency, per_file, limit, gone, purged>>
  BY DEF search_blocking
<1>3. PICK from, size, n, L, cut :
        /\ from = Len(listed) /\ size = clamp_limit(limit) /\ n = fetch_len(from, size)
        /\ L = search_fts_multi_with(n) /\ cut = page_of(L, from, size)
  OBVIOUS
<1>4. /\ clamp_offset(offset) = from /\ from \in Nat
      /\ size \in Nat /\ size > 0 /\ size <= MaxSearchLimit
      /\ n \in Nat /\ n <= MaxSearchLimit
      /\ n = from + size + 1 \/ (n = MaxSearchLimit /\ n < from + size + 1)
      /\ AtFirst \in Nat /\ AtFirst <= n
  BY <1>1, <1>3, FetchIs
<1>5. /\ listed' = listed \o cut.page
      /\ told' = IF cut.more THEN "more" ELSE "end"
      /\ offset' = IF cut.more THEN from + Len(cut.page) ELSE offset
  BY <1>3, <1>4 DEF search_blocking
<1>6. L \in Seq(Pages) /\ Len(L) \in Nat /\ Len(L) <= n
  <2>1. CASE ~recency
    BY <1>1, <1>3, <1>4, <2>1, ListLow
  <2>2. CASE recency
    BY <1>1, <1>3, <1>4, <2>2, ListTypes
  <2> QED BY <2>1, <2>2
<1>7. PICK page, h : page = cut.page /\ h = Len(page)
  OBVIOUS
<1>8. /\ page \in Seq(Pages) /\ h \in Nat /\ h <= size
      /\ cut.more <=> Len(L) > from + size
      /\ from <= Len(L) => h = Lower(size, Len(L) - from)
      /\ Len(L) <= from => h = 0
      /\ \A i \in 1 .. h : from + i \in 1 .. Len(L) /\ page[i] = L[from + i]
  <2>1. LET c == page_of(L, from, size)
        IN /\ c.page \in Seq(Pages) /\ Len(c.page) \in Nat /\ Len(c.page) <= size
           /\ c.more <=> Len(L) > from + size
           /\ from <= Len(L) => Len(c.page) = Lower(size, Len(L) - from)
           /\ Len(L) <= from => Len(c.page) = 0
           /\ \A i \in 1 .. Len(c.page) : from + i \in 1 .. Len(L) /\ c.page[i] = L[from + i]
    BY <1>4, <1>6, PageIs
  <2>2. cut = page_of(L, from, size)
    BY <1>3
  <2> HIDE <1>3
  <2> QED BY <1>7, <2>1, <2>2
<1>9. PICK new : new = listed'
  OBVIOUS
<1>10. /\ new \in Seq(Pages) /\ Len(new) = from + h
       /\ \A i \in 1 .. Len(new) : new[i] \in Pages
       /\ \A i \in 1 .. from : new[i] = listed[i]
       /\ \A i \in from + 1 .. from + h : new[i] = L[i] /\ i \in 1 .. Len(L)
  <2>1. new = listed \o page
    BY <1>5, <1>7, <1>9
  <2>2. /\ new \in Seq(Pages) /\ Len(new) = from + h
        /\ \A i \in 1 .. from : new[i] = listed[i]
        /\ \A i \in from + 1 .. from + h : new[i] = page[i - from]
    BY <1>1, <1>3, <1>7, <1>8, <2>1
  <2>3. \A i \in from + 1 .. from + h : i - from \in 1 .. h /\ from + (i - from) = i
    BY <1>4, <1>8
  <2>4. \A i \in from + 1 .. from + h : page[i - from] = L[i] /\ i \in 1 .. Len(L)
    BY <1>8, <2>3
  <2> QED BY <2>2, <2>4
<1>11. Len(new) <= MaxSearchLimit
  <2>1. MaxSearchLimit \in Nat /\ from <= MaxSearchLimit
    BY <1>1, <1>3, PagingSizes
  <2>2. CASE from <= Len(L)
    <3>1. h <= Len(L) - from
      BY <1>4, <1>6, <1>8, <2>2 DEF Lower
    <3> QED BY <1>4, <1>6, <1>8, <1>10, <2>1, <2>2, <3>1
  <2>3. CASE Len(L) <= from
    <3>1. h = 0
      BY <1>8, <2>3
    <3> QED BY <1>4, <1>10, <2>1, <3>1
  <2> QED BY <1>4, <1>6, <2>2, <2>3
<1>12. ASSUME cut.more PROVE h = size /\ from + h \in 0 .. MaxSearchLimit
  <2>1. Len(L) > from + size
    BY <1>8, <1>12
  <2>2. h = Lower(size, Len(L) - from) /\ MaxSearchLimit \in Nat
    BY <1>4, <1>6, <1>8, <2>1, PagingSizes
  <2>3. h = size
    BY <1>4, <1>6, <2>1, <2>2 DEF Lower
  <2> QED BY <1>4, <1>6, <2>1, <2>2, <2>3
<1>13. PageTypes'
  <2>1. offset' \in 0 .. MaxSearchLimit /\ told' \in {"idle", "none", "more", "end"}
    BY <1>1, <1>5, <1>7, <1>12
  <2> QED BY <1>1, <1>2, <2>1 DEF PageTypes, Files
<1>14. told' \in {"none", "more"} => offset' = Len(listed')
  BY <1>5, <1>7, <1>9, <1>10
<1>15. told' # "none"
  BY <1>5
<1>16. /\ Live' = Live /\ InScope' = InScope /\ Pages' = Pages /\ Ranking' = Ranking /\ AtFirst' = AtFirst
       /\ \A S : SectionsOf(S)' = SectionsOf(S)
  BY <1>2 DEF Live, InScope, Pages, Ranking, AtFirst, SectionsOf, InRanking, Precedes, Before, Score,
              fetch_len, clamp_limit, Files
<1>17. OneRanking'
  <2> SUFFICES ASSUME ~recency
               PROVE  /\ Ascending(new)
                      /\ new # <<>> => Ahead(SectionsOf(Live), new[Len(new)]) < Len(new)
    BY <1>2, <1>9, <1>16 DEF OneRanking, Ascending, Ahead, Precedes, Before, Score
  <2>1. \A i \in from + 1 .. from + h : Ahead(SectionsOf(Live), new[i]) = i - 1
    BY <1>1, <1>3, <1>4, <1>10, ListLow
  <2>2. SectionsOf(Live) \in SUBSET Pages /\ per_file \in Nat
    <3>1. Live \in SUBSET Files
      BY DEF Live, InScope
    <3> QED BY <1>1, <3>1, SectionsAre
  <2>3. from > 0 => listed # <<>> /\ listed[from] = new[from] /\ from \in 1 .. from
    BY <1>3, <1>4, <1>10
  <2>4. from > 0 => Ahead(SectionsOf(Live), new[from]) < from /\ new[from] \in Pages
    <3>1. from > 0 => Ahead(SectionsOf(Live), listed[from]) < from /\ listed[from] \in Pages
      BY <1>1, <1>3, <2>3 DEF OneRanking
    <3> QED BY <2>3, <3>1
  <2>5. ASSUME NEW i \in 1 .. Len(new), NEW j \in 1 .. Len(new), i < j PROVE Precedes(new[i], new[j])
    <3>1. new[i] \in Pages /\ new[j] \in Pages /\ i \in Nat /\ j \in Nat /\ i > 0 /\ j <= from + h
      BY <1>10, <2>5
    <3>2. CASE j <= from
      <4>1. new[i] = listed[i] /\ new[j] = listed[j] /\ i \in 1 .. Len(listed) /\ j \in 1 .. Len(listed)
        BY <1>3, <1>4, <1>10, <2>5, <3>1, <3>2
      <4> QED BY <1>1, <2>5, <4>1 DEF OneRanking, Ascending
    <3>3. CASE j > from /\ i > from
      <4>1. i \in from + 1 .. from + h /\ j \in from + 1 .. from + h
        BY <1>4, <1>8, <2>5, <3>1, <3>3, SMTT(30)
      <4>2. Ahead(SectionsOf(Live), new[i]) = i - 1 /\ Ahead(SectionsOf(Live), new[j]) = j - 1
        BY <2>1, <4>1
      <4>3. Ahead(SectionsOf(Live), new[i]) < Ahead(SectionsOf(Live), new[j])
        BY <2>5, <3>1, <4>2
      <4> QED BY <2>2, <3>1, <4>3, StandsAfter
    <3>4. CASE j > from /\ i <= from
      <4>1. j \in from + 1 .. from + h /\ from > 0
        BY <1>4, <1>8, <3>1, <3>4
      <4>2. Ahead(SectionsOf(Live), new[j]) = j - 1
        BY <2>1, <4>1
      <4>3. PICK a, b : a = Ahead(SectionsOf(Live), new[from]) /\ b = Ahead(SectionsOf(Live), new[j])
        OBVIOUS
      <4>4. a \in Nat
        BY <2>2, <4>3, AheadIs
      <4>5. a < b
        BY <1>4, <2>4, <3>1, <3>4, <4>1, <4>2, <4>3, <4>4
      <4>6. Precedes(new[from], new[j])
        BY <2>2, <2>4, <3>1, <4>1, <4>3, <4>5, StandsAfter
      <4>7. CASE i = from
        BY <4>6, <4>7
      <4>8. CASE i # from
        <5>1. i \in 1 .. Len(listed) /\ from \in 1 .. Len(listed) /\ i < from
              /\ new[i] = listed[i] /\ new[from] = listed[from]
          BY <1>3, <1>4, <1>10, <3>1, <3>4, <4>1, <4>8
        <5>2. Precedes(new[i], new[from])
          BY <1>1, <5>1 DEF OneRanking, Ascending
        <5> QED BY <2>2, <2>4, <3>1, <4>1, <4>6, <5>2, StandsNext
      <4> QED BY <4>7, <4>8
    <3> QED BY <1>4, <3>1, <3>2, <3>3, <3>4
  <2>6. ASSUME new # <<>> PROVE Ahead(SectionsOf(Live), new[Len(new)]) < Len(new)
    <3>1. CASE h = 0
      <4>1. Len(new) = from /\ from > 0
        BY <1>4, <1>10, <2>6, <3>1
      <4> QED BY <2>4, <4>1
    <3>2. CASE h > 0
      <4>1. Len(new) \in from + 1 .. from + h
        BY <1>4, <1>8, <1>10, <3>2
      <4>2. Ahead(SectionsOf(Live), new[Len(new)]) = Len(new) - 1
        BY <2>1, <4>1
      <4> QED BY <1>4, <1>8, <1>10, <4>2
    <3> QED BY <1>8, <3>1, <3>2
  <2> QED BY <2>5, <2>6 DEF Ascending
<1>18. WholeRanking' /\ EndIsTheEnd'
  <2> SUFFICES ASSUME gone = {}
               PROVE  /\ Len(new) <= Len(Ranking)
                      /\ Pooled(AtFirst) => \A i \in 1 .. Len(new) : new[i] = Ranking[i]
                      /\ ~cut.more => Len(new) = Lower(Len(Ranking), MaxSearchLimit)
    BY <1>2, <1>5, <1>9, <1>16 DEF WholeRanking, EndIsTheEnd, Pooled, recency_pool
  <2>1. PICK r : r = Len(Ranking)
    OBVIOUS
  <2>2. r \in Nat /\ from <= r
    BY <1>1, <1>3, <2>1, RankingTypes DEF WholeRanking
  <2>3. Len(L) = Lower(n, r)
    BY <1>1, <1>3, <1>4, <2>1, ListSame
  <2>4. Len(new) <= r
    BY <1>4, <1>6, <1>8, <1>10, <2>2, <2>3 DEF Lower
  <2>5. ASSUME Pooled(AtFirst), NEW i \in 1 .. Len(new) PROVE new[i] = Ranking[i]
    <3>1. Pooled(n)
      <4>1. recency_pool(AtFirst) <= recency_pool(n) /\ recency_pool(AtFirst) \in Nat /\ recency_pool(n) \in Nat
        BY <1>4, PoolHolds
      <4>2. Cardinality(InScope) \in Nat
        BY <1>1, <1>4, FetchedAre
      <4> QED BY <2>5, <4>1, <4>2 DEF Pooled
    <3>2. CASE i <= from
      <4>1. i \in 1 .. from
        BY <1>4, <3>2
      <4> QED BY <1>1, <1>3, <1>10, <2>5, <4>1 DEF WholeRanking
    <3>3. CASE i > from
      <4>1. i \in from + 1 .. from + h
        BY <1>4, <1>8, <1>10, <3>3
      <4>2. new[i] = L[i] /\ i \in 1 .. Len(L)
        BY <1>10, <4>1
      <4> QED BY <1>1, <1>3, <1>4, <3>1, <4>2, ListSame
    <3> QED BY <1>4, <1>8, <1>10, <3>2, <3>3
  <2>6. ASSUME ~cut.more PROVE Len(new) = Lower(r, MaxSearchLimit)
    <3>1. Len(L) <= from + size
      BY <1>4, <1>6, <1>8, <2>6
    <3>2. MaxSearchLimit \in Nat /\ from <= MaxSearchLimit
      BY <1>1, <1>3, PagingSizes
    <3>3. CASE from <= Len(L)
      <4>1. h = Len(L) - from
        BY <1>4, <1>6, <1>8, <3>1, <3>3 DEF Lower
      <4>2. Len(new) = Len(L)
        BY <1>4, <1>6, <1>10, <4>1
      <4> QED BY <1>4, <2>2, <2>3, <3>1, <3>2, <4>2 DEF Lower
    <3>4. CASE Len(L) < from
      BY <1>4, <2>2, <2>3, <3>2, <3>4 DEF Lower
    <3> QED BY <1>4, <1>6, <3>3, <3>4
  <2> QED BY <2>1, <2>4, <2>5, <2>6
<1> QED BY <1>9, <1>10, <1>11, <1>13, <1>14, <1>15, <1>16, <1>17, <1>18 DEF PageInv

\* A row or an entry that goes leaves what was shown in order.
LEMMA PageKeeps ==
  ASSUME PageInv, UNCHANGED <<scope, fresh, recency, per_file, limit, offset, listed, told>>,
         gone \subseteq gone', gone' # gone => gone' # {}, PageTypes'
  PROVE  PageInv'
<1>1. /\ PageTypes /\ listed \in Seq(Pages) /\ Len(listed) \in Nat
      /\ OneRanking /\ WholeRanking /\ EndIsTheEnd
  BY DEF PageInv
<1>2. /\ InScope' = InScope /\ Pages' = Pages /\ Ranking' = Ranking /\ AtFirst' = AtFirst
      /\ \A S : SectionsOf(S)' = SectionsOf(S)
  BY DEF InScope, Pages, Ranking, AtFirst, SectionsOf, InRanking, Precedes, Before, Score,
         fetch_len, clamp_limit, Files
<1>3. OneRanking'
  <2> SUFFICES ASSUME ~recency
               PROVE  /\ Ascending(listed)
                      /\ listed # <<>> => Ahead(SectionsOf(Live'), listed[Len(listed)]) < Len(listed)
    BY <1>2 DEF OneRanking, Ascending, Ahead, Precedes, Before, Score, SectionsOf
  <2>1. Live \in SUBSET Files /\ Live' \in SUBSET Live
    BY <1>2 DEF Live, InScope
  <2>2. SectionsOf(Live') \in SUBSET SectionsOf(Live) /\ SectionsOf(Live) \in SUBSET Pages /\ per_file \in Nat
    BY <1>1, <2>1, SectionsAre
  <2>3. PICK x : x = listed[Len(listed)]
    OBVIOUS
  <2> DEFINE A == {q \in SectionsOf(Live) : Precedes(q, x)}
             B == {q \in SectionsOf(Live') : Precedes(q, x)}
  <2>4. B \in SUBSET A
    BY <2>2
  <2>5. IsFiniteSet(A)
    <3>1. IsFiniteSet(SectionsOf(Live)) /\ A \in SUBSET SectionsOf(Live)
      BY <2>2, SectionsInRow DEF Row
    <3> QED BY <3>1, FS_Subset
  <2>6. Cardinality(B) <= Cardinality(A) /\ Cardinality(B) \in Nat /\ Cardinality(A) \in Nat
    BY <2>4, <2>5, FS_Subset, FS_CardinalityType
  <2>7. Ahead(SectionsOf(Live), x) = Cardinality(A) /\ Ahead(SectionsOf(Live'), x) = Cardinality(B)
    BY DEF Ahead
  <2> HIDE DEF A, B
  <2> QED BY <1>1, <2>3, <2>6, <2>7 DEF OneRanking
<1>4. WholeRanking'
  <2> SUFFICES ASSUME gone' = {}
               PROVE  /\ Len(listed) <= Len(Ranking)
                      /\ Pooled(AtFirst) => \A i \in 1 .. Len(listed) : listed[i] = Ranking[i]
    BY <1>2 DEF WholeRanking, Pooled, recency_pool
  <2>1. gone = {}
    OBVIOUS
  <2> QED BY <1>1, <2>1 DEF WholeRanking
<1>5. EndIsTheEnd'
  <2>1. gone' = {} => gone = {}
    OBVIOUS
  <2> QED BY <1>1, <1>2, <2>1 DEF EndIsTheEnd
<1> QED BY <1>1, <1>2, <1>3, <1>4, <1>5 DEF PageInv

\* Every step of a listing keeps the invariant.
LEMMA PageStep ==
  ASSUME PageInv, [PageNext]_pageVars
  PROVE  PageInv'
<1>1. CASE search_blocking
  BY <1>1, PageExtends
<1>2. CASE RowGoes \/ EntryGoes \/ UNCHANGED pageVars
  <2>1. UNCHANGED <<scope, fresh, recency, per_file, limit, offset, listed, told>>
    BY <1>2 DEF RowGoes, EntryGoes, pageVars
  <2>2. PageTypes
    BY DEF PageInv
  <2>3. gone \subseteq gone' /\ purged' \subseteq gone' /\ gone' \subseteq Files
    BY <1>2, <2>2 DEF RowGoes, EntryGoes, pageVars, PageTypes
  <2>4. PageTypes'
    BY <2>1, <2>2, <2>3 DEF PageTypes, Files
  <2>5. gone' # gone => gone' # {}
    BY <2>3
  <2> QED BY <2>1, <2>3, <2>4, <2>5, PageKeeps
<1> QED BY <1>1, <1>2 DEF PageNext

\* A client that pages through a search, while rows and entries go, is shown
\* one ranking, and all of it, for any number of files, sections of each and
\* sizes of pages and of what is fetched for them (search_blocking,
\* search_fts_multi_with).
THEOREM PagesShowOneRanking == ToolSpec => []PagesCoverTheRanking
<1>1. ToolInit => PageInv
  BY PageStart DEF ToolInit
<1>2. PageInv /\ [ToolNext]_toolVars => PageInv'
  <2> SUFFICES ASSUME PageInv, [ToolNext]_toolVars PROVE PageInv'
    OBVIOUS
  <2>1. [PageNext]_pageVars
    BY DEF ToolNext, toolVars
  <2> QED BY <2>1, PageStep
<1>3. PageInv => PagesCoverTheRanking
  BY PageInvSays
<1> QED BY <1>1, <1>2, <1>3, PTL DEF ToolSpec

-----------------------------------------------------------------------------

\* A set of numbers has a least one.
LEMMA LeastOf ==
  ASSUME NEW T \in SUBSET Nat, T # {}
  PROVE  \E x \in T : \A y \in T : x <= y
<1>1. PICK R : R = {ss \in Nat \X Nat : ss[1] < ss[2]}
  OBVIOUS
<1>2. IsWellFoundedOn(R, Nat)
  BY <1>1, NatLessThanWellFounded DEF OpToRel
<1>3. PICK x \in T : \A y \in T : <<y, x>> \notin R
  BY <1>2, WFMin
<1>4. ASSUME NEW y \in T PROVE x <= y
  <2>1. x \in Nat /\ y \in Nat /\ <<y, x>> \notin R
    BY <1>3
  <2>2. ~(y < x)
    BY <1>1, <2>1
  <2> QED BY <2>1, <2>2
<1> QED BY <1>4

\* Min is the least of a set of numbers.
LEMMA MinIs ==
  ASSUME NEW T \in SUBSET Nat, T # {}
  PROVE  Min(T) \in T /\ Min(T) \in Nat /\ \A y \in T : Min(T) <= y
<1>1. \E x \in T : \A y \in T : x <= y
  BY LeastOf
<1>2. Min(T) \in T /\ \A y \in T : Min(T) <= y
  BY <1>1 DEF Min
<1> QED BY <1>2

\* What is left of a number after the least is the most that is left.
LEMMA MaxIs ==
  ASSUME NEW T \in SUBSET Nat, T # {}, NEW c \in Nat
  PROVE  Max({c - x : x \in T}) = c - Min(T)
<1>1. Min(T) \in T /\ Min(T) \in Nat /\ \A y \in T : Min(T) <= y
  BY MinIs
<1> DEFINE U == {c - x : x \in T}
           m == c - Min(T)
<1>2. m \in U /\ m \in Int
  BY <1>1
<1>3. \A u \in U : u \in Int /\ m >= u
  BY <1>1
<1> HIDE DEF U, m
<1>4. ASSUME NEW u \in U, \A w \in U : u >= w PROVE u = m
  <2>1. u >= m /\ m >= u /\ u \in Int
    BY <1>2, <1>3, <1>4
  <2> QED BY <1>2, <2>1
<1>5. Max(U) = CHOOSE x \in U : \A y \in U : x >= y
  BY DEF Max
<1>6. Max(U) = m
  BY <1>2, <1>3, <1>4, <1>5
<1> QED BY <1>6 DEF U, m

\* Of two numbers the lower.
LEMMA MinOfTwo ==
  ASSUME NEW a \in Nat, NEW b \in Nat
  PROVE  /\ Min({a, b}) \in Nat /\ Min({a, b}) <= a /\ Min({a, b}) <= b
         /\ Min({a, b}) = a \/ Min({a, b}) = b
<1>1. {a, b} \in SUBSET Nat /\ {a, b} # {}
  OBVIOUS
<1>2. Min({a, b}) \in {a, b} /\ \A y \in {a, b} : Min({a, b}) <= y
  BY <1>1, MinIs
<1> QED BY <1>2

\* Sections that can be put in a row: no two of a document have one rank.
Rankable(S) ==
  /\ IsFiniteSet(S)
  /\ \A p \in S : p.doc \in Nat /\ p.rank \in Nat /\ p.score \in Int
  /\ \A p, q \in S : p.doc = q.doc /\ p.rank = q.rank => p = q

OutPairs(S) == {pq \in S \X S : Outranks(pq[1], pq[2])}
Above(S, p) == {q \in S : Outranks(q, p)}

LEMMA RankableInRow ==
  ASSUME NEW S, Rankable(S)
  PROVE  /\ Row(S, OutPairs(S))
         /\ \A p \in S : Below(S, OutPairs(S), p) = Above(S, p)
<1>1. \A p, q \in S : <<p, q>> \in OutPairs(S) <=> Outranks(p, q)
  BY DEF OutPairs
<1>2. \A p \in S : ~Outranks(p, p)
  BY DEF Rankable, Outranks
<1>3. \A p, q \in S : p = q \/ Outranks(p, q) \/ Outranks(q, p)
  <2> SUFFICES ASSUME NEW p \in S, NEW q \in S, ~Outranks(p, q), ~Outranks(q, p) PROVE p = q
    OBVIOUS
  <2>1. /\ p.doc \in Nat /\ p.rank \in Nat /\ p.score \in Int
        /\ q.doc \in Nat /\ q.rank \in Nat /\ q.score \in Int
    BY DEF Rankable
  <2>2. p.doc = q.doc /\ p.rank = q.rank
    BY <2>1 DEF Outranks
  <2> QED BY <2>2 DEF Rankable
<1>4. \A p, q, r \in S : Outranks(p, q) /\ Outranks(q, r) => Outranks(p, r)
  <2> SUFFICES ASSUME NEW p \in S, NEW q \in S, NEW r \in S, Outranks(p, q), Outranks(q, r)
               PROVE  Outranks(p, r)
    OBVIOUS
  <2>1. /\ p.doc \in Nat /\ p.rank \in Nat /\ p.score \in Int
        /\ q.doc \in Nat /\ q.rank \in Nat /\ q.score \in Int
        /\ r.doc \in Nat /\ r.rank \in Nat /\ r.score \in Int
    BY DEF Rankable
  <2> QED BY <2>1 DEF Outranks
<1>5. Row(S, OutPairs(S))
  BY <1>1, <1>2, <1>3, <1>4 DEF Row, Rankable
<1>6. \A p \in S : Below(S, OutPairs(S), p) = Above(S, p)
  BY <1>1 DEF Below, Above
<1> QED BY <1>5, <1>6

\* s has the best n sections of S: each is outranked by exactly those before it.
IsBest(s, S, n) ==
  /\ s \in Seq(S) /\ Len(s) \in Nat /\ Cardinality(S) \in Nat
  /\ Len(s) <= n /\ Len(s) <= Cardinality(S) /\ (Len(s) = n \/ Len(s) = Cardinality(S))
  /\ \A i \in 1 .. Len(s) : s[i] \in S /\ Cardinality(Above(S, s[i])) = i - 1

LEMMA BestIs ==
  ASSUME NEW S, Rankable(S), NEW n \in Nat
  PROVE  IsBest(Best(S, n), S, n)
<1>1. PICK s : s = Sorted(S, OutPairs(S))
  OBVIOUS
<1>2. PICK N : N = Cardinality(S)
  OBVIOUS
<1>3. /\ s \in Seq(S) /\ Len(s) = N /\ N \in Nat
      /\ \A i \in 1 .. N : Cardinality(Below(S, OutPairs(S), s[i])) = i - 1
  BY <1>1, <1>2, RankableInRow, SortedIs
<1>4. \A i \in 1 .. N : s[i] \in S /\ Cardinality(Above(S, s[i])) = i - 1
  <2> TAKE i \in 1 .. N
  <2>1. s[i] \in S
    BY <1>3
  <2>2. Below(S, OutPairs(S), s[i]) = Above(S, s[i])
    BY <2>1, RankableInRow
  <2> QED BY <1>3, <2>1, <2>2
<1>5. PICK m : m = Min({n, N})
  OBVIOUS
<1>6. m \in Nat /\ m <= n /\ m <= N /\ (m = n \/ m = N)
  BY <1>3, <1>5, MinOfTwo
<1>7. PICK t : t = SubSeq(s, 1, m)
  OBVIOUS
<1>8. t = Best(S, n)
  BY <1>1, <1>3, <1>5, <1>7 DEF Best, OutPairs
<1>9. t \in Seq(S) /\ Len(t) = m /\ \A i \in 1 .. m : t[i] = s[i]
  BY <1>3, <1>6, <1>7
<1>10. \A i \in 1 .. m : t[i] \in S /\ Cardinality(Above(S, t[i])) = i - 1
  BY <1>3, <1>4, <1>6, <1>9
<1>11. /\ t \in Seq(S) /\ Len(t) \in Nat /\ Len(t) <= n /\ Len(t) <= N /\ (Len(t) = n \/ Len(t) = N)
       /\ \A i \in 1 .. Len(t) : t[i] \in S /\ Cardinality(Above(S, t[i])) = i - 1
  BY <1>6, <1>9, <1>10
<1>12. IsBest(t, S, n)
  BY <1>2, <1>3, <1>11 DEF IsBest
<1> QED BY <1>8, <1>12


\* As many sections outrank one as another only if they are one; a section that
\* outranks another is outranked by fewer.
LEMMA AboveTells ==
  ASSUME NEW S, Rankable(S), NEW x \in S, NEW y \in S
  PROVE  /\ Cardinality(Above(S, x)) \in Nat /\ Cardinality(Above(S, x)) < Cardinality(S)
         /\ Cardinality(S) \in Nat
         /\ Cardinality(Above(S, x)) = Cardinality(Above(S, y)) => x = y
         /\ Outranks(x, y) => Cardinality(Above(S, x)) < Cardinality(Above(S, y))
<1>1. PICK R : R = OutPairs(S)
  OBVIOUS
<1>2. Row(S, R) /\ Below(S, R, x) = Above(S, x) /\ Below(S, R, y) = Above(S, y)
  BY <1>1, RankableInRow
<1>3. Cardinality(Above(S, x)) \in Nat /\ Cardinality(Above(S, x)) < Cardinality(S) /\ Cardinality(S) \in Nat
      /\ Cardinality(Above(S, y)) \in Nat
  BY <1>2, BelowIsLess
<1>4. <<x, y>> \in R => Cardinality(Above(S, x)) < Cardinality(Above(S, y))
  BY <1>2, BelowGrows
<1>5. <<y, x>> \in R => Cardinality(Above(S, y)) < Cardinality(Above(S, x))
  BY <1>2, BelowGrows
<1>6. x = y \/ <<x, y>> \in R \/ <<y, x>> \in R
  BY <1>2 DEF Row
<1>7. Outranks(x, y) => <<x, y>> \in R
  BY <1>1 DEF OutPairs
<1>8. Cardinality(Above(S, x)) = Cardinality(Above(S, y)) => x = y
  BY <1>3, <1>4, <1>5, <1>6
<1> QED BY <1>3, <1>4, <1>7, <1>8

\* The entries of s are different ones of S, in order of their scores; whatever
\* outranks one of them is among them, and all are when there are not more.
BestFirst(s, S) ==
  /\ \A i, j \in 1 .. Len(s) : i # j => s[i] # s[j]
  /\ \A i, j \in 1 .. Len(s) : i < j => s[i].score >= s[j].score
  /\ \A x \in S : (\E i \in 1 .. Len(s) : Outranks(x, s[i])) => \E j \in 1 .. Len(s) : s[j] = x
  /\ Len(s) = Cardinality(S) => \A x \in S : \E j \in 1 .. Len(s) : s[j] = x

LEMMA BestInOrder ==
  ASSUME NEW S, Rankable(S), NEW n \in Nat
  PROVE  BestFirst(Best(S, n), S)
<1>1. PICK s, m : s = Best(S, n) /\ m = Len(s)
  OBVIOUS
<1>2. /\ m \in Nat /\ m <= n /\ m <= Cardinality(S) /\ Cardinality(S) \in Nat
      /\ \A i \in 1 .. m : s[i] \in S /\ Cardinality(Above(S, s[i])) = i - 1
  <2>1. IsBest(s, S, n)
    BY <1>1, BestIs
  <2> QED BY <1>1, <2>1 DEF IsBest
<1>3. ASSUME NEW i \in 1 .. m, NEW j \in 1 .. m, i # j PROVE s[i] # s[j]
  <2>1. Cardinality(Above(S, s[i])) = i - 1 /\ Cardinality(Above(S, s[j])) = j - 1
    BY <1>2
  <2>2. i - 1 # j - 1
    BY <1>2, <1>3
  <2> QED BY <2>1, <2>2
<1>4. ASSUME NEW i \in 1 .. m, NEW j \in 1 .. m, i < j PROVE s[i].score >= s[j].score
  <2>1. /\ Cardinality(Above(S, s[i])) = i - 1 /\ Cardinality(Above(S, s[j])) = j - 1
        /\ s[i] \in S /\ s[j] \in S
    BY <1>2
  <2>2. ~(j - 1 < i - 1)
    BY <1>2, <1>4
  <2>3. ~Outranks(s[j], s[i])
    BY <2>1, <2>2, AboveTells
  <2>4. s[i].score \in Int /\ s[j].score \in Int
    BY <2>1 DEF Rankable
  <2> QED BY <2>3, <2>4 DEF Outranks
<1>5. ASSUME NEW x \in S, Cardinality(Above(S, x)) < m
      PROVE  \E j \in 1 .. m : s[j] = x
  <2>1. PICK c : c = Cardinality(Above(S, x))
    OBVIOUS
  <2>2. c \in Nat /\ c + 1 \in 1 .. m /\ (c + 1) - 1 = c
    BY <1>2, <1>5, <2>1, AboveTells
  <2>3. s[c + 1] \in S /\ Cardinality(Above(S, s[c + 1])) = c
    BY <1>2, <2>2
  <2>4. s[c + 1] = x
    BY <2>1, <2>3, AboveTells
  <2> QED BY <2>2, <2>4
<1>6. ASSUME NEW x \in S, NEW i \in 1 .. m, Outranks(x, s[i]) PROVE \E j \in 1 .. m : s[j] = x
  <2>1. s[i] \in S /\ Cardinality(Above(S, s[i])) = i - 1 /\ i \in Nat /\ i <= m
    BY <1>2
  <2>2. Cardinality(Above(S, x)) \in Nat /\ Cardinality(Above(S, x)) < i - 1
    BY <1>6, <2>1, AboveTells
  <2>3. Cardinality(Above(S, x)) < m
    BY <1>2, <2>1, <2>2
  <2> QED BY <1>5, <2>3
<1>7. ASSUME m = Cardinality(S), NEW x \in S PROVE \E j \in 1 .. m : s[j] = x
  <2>1. Cardinality(Above(S, x)) < m
    BY <1>7, AboveTells
  <2> QED BY <1>5, <2>1
<1>8. BestFirst(s, S)
  BY <1>1, <1>3, <1>4, <1>6, <1>7 DEF BestFirst
<1> QED BY <1>1, <1>8

\* Sections that all the others outrank do not change the best ones, if there
\* are enough others.
LEMMA BestSame ==
  ASSUME NEW A, NEW B, Rankable(B), A \in SUBSET B, NEW n \in Nat, n <= Cardinality(A),
         \A x \in B \ A : \A y \in A : ~Outranks(x, y)
  PROVE  Best(A, n) = Best(B, n)
<1>1. IsFiniteSet(A) /\ Cardinality(A) <= Cardinality(B)
  BY FS_Subset DEF Rankable
<1>2. Rankable(A)
  BY <1>1 DEF Rankable
<1>3. PICK s, t : s = Best(A, n) /\ t = Best(B, n)
  OBVIOUS
<1>4. IsBest(s, A, n)
  BY <1>2, <1>3, BestIs
<1>5. IsBest(t, B, n)
  BY <1>3, BestIs
<1>6. Len(s) = n /\ Len(t) = n
  BY <1>1, <1>4, <1>5 DEF IsBest
<1>7. ASSUME NEW y \in A PROVE Above(A, y) = Above(B, y)
  BY <1>7 DEF Above
<1>8. ASSUME NEW i \in 1 .. n PROVE s[i] = t[i]
  <2>1. s[i] \in A /\ Cardinality(Above(A, s[i])) = i - 1
    BY <1>4, <1>6 DEF IsBest
  <2>2. Cardinality(Above(B, s[i])) = i - 1 /\ s[i] \in B
    BY <1>7, <2>1
  <2>3. t[i] \in B /\ Cardinality(Above(B, t[i])) = i - 1
    BY <1>5, <1>6 DEF IsBest
  <2> QED BY <2>2, <2>3, AboveTells
<1>9. s \in Seq(A) /\ t \in Seq(B)
  BY <1>4, <1>5 DEF IsBest
<1> QED BY <1>3, <1>6, <1>8, <1>9


\* What never changes its type while a search is on.
NearTyped ==
  /\ \A v \in Vids : vecs[v] # <<>> => /\ vecs[v] = <<vecs[v][1], vecs[v][2]>>
                                       /\ vecs[v][1] # "none" /\ vecs[v][2] \in Nat
  /\ DOMAIN row = Documents /\ \A d \in Documents : row[d].content \in DOMAIN Cuts[d] \cup {"none"}
  /\ {ask.limit, ask.per_file} \subseteq Nat \ {0}
  /\ \/ ask.kind = "vsearch" /\ AgePool[ask.limit] \in Nat
     \/ ask.kind = "similar" /\ ask.scope = {}
  /\ k \in Nat /\ writes \in Nat

LEMMA NearSizes ==
  /\ Points \in Nat /\ Points > 0 /\ OverFetch \in Nat /\ SourceCap \in Nat /\ SourceCap > 0
  /\ Documents \subseteq Nat /\ IsFiniteSet(Documents)
  /\ Vids \subseteq Nat /\ IsFiniteSet(Vids) /\ Cardinality(Vids) = Points
  /\ \A v \in Vids : v > 0 /\ v <= Points
<1>1. Points \in Nat /\ Points > 0
  BY NearTypes
<1>2. IsFiniteSet(1 .. Points) /\ Cardinality(1 .. Points) = Points
  BY <1>1, FS_Interval
<1>3. 1 .. Points \subseteq Nat /\ \A v \in 1 .. Points : v > 0 /\ v <= Points
  BY <1>1
<1> QED BY <1>1, <1>2, <1>3, NearTypes DEF Vids, Documents

\* The n nearest of the query are the first n vectors; as many as there are is
\* all of them.
LEMMA SearchIs ==
  ASSUME NEW from \in Nat, NEW n \in Nat
  PROVE  /\ search(from, n) \in SUBSET Vids
         /\ n >= Points => search(from, n) = Vids
         /\ from = 0 => search(from, n) = {v \in Vids : v <= n}
<1> DEFINE W(v) == {w \in Vids : \/ Distance(from, w) < Distance(from, v)
                                 \/ (Distance(from, w) = Distance(from, v) /\ w < v)}
<1>1. search(from, n) = {v \in Vids : Cardinality(W(v)) < n}
  BY DEF search
<1>2. ASSUME NEW v \in Vids PROVE Cardinality(W(v)) \in Nat /\ Cardinality(W(v)) < Points
  <2>1. v \notin W(v)
    <3>1. Distance(from, v) \in Int /\ v \in Nat
      BY NearSizes DEF Distance
    <3> QED BY <3>1
  <2>2. PICK X : X = W(v)
    OBVIOUS
  <2>3. X \in SUBSET Vids /\ v \notin X
    BY <2>1, <2>2
  <2>4. IsFiniteSet(X) /\ Cardinality(X) <= Points /\ (Cardinality(X) = Points => X = Vids)
    BY <2>3, NearSizes, FS_Subset
  <2>5. Cardinality(X) \in Nat
    BY <2>4, FS_CardinalityType
  <2>6. Cardinality(X) # Points
    BY <2>3, <2>4
  <2> QED BY <2>2, <2>4, <2>5, <2>6, NearSizes
<1>3. ASSUME from = 0, NEW v \in Vids PROVE Cardinality(W(v)) = v - 1
  <2>1. W(v) = 1 .. v - 1
    <3>1. \A w \in Vids : Distance(from, w) = w
      BY <1>3, NearSizes DEF Distance
    <3>2. v \in Nat /\ v > 0 /\ v <= Points /\ Points \in Nat
      BY NearSizes
    <3>3. W(v) = {w \in Vids : w < v}
      <4>1. \A w \in Vids : w < v <=> (Distance(from, w) < Distance(from, v)
                                       \/ (Distance(from, w) = Distance(from, v) /\ w < v))
        BY <3>1
      <4> QED BY <4>1
    <3> QED BY <3>2, <3>3 DEF Vids
  <2>2. v - 1 \in Nat /\ v - 1 = (v - 1) - 1 + 1 /\ v \in Nat /\ v > 0
    BY NearSizes
  <2>3. Cardinality(1 .. v - 1) = v - 1
    BY <2>2, FS_Interval
  <2> QED BY <2>1, <2>3
<1> HIDE DEF W
<1>4. ASSUME n >= Points PROVE search(from, n) = Vids
  <2>1. \A v \in Vids : Cardinality(W(v)) < n
    BY <1>2, <1>4, NearSizes
  <2> QED BY <1>1, <2>1
<1>5. ASSUME from = 0 PROVE search(from, n) = {v \in Vids : v <= n}
  <2>1. \A v \in Vids : Cardinality(W(v)) < n <=> v <= n
    BY <1>3, <1>5, NearSizes
  <2> QED BY <1>1, <2>1
<1> QED BY <1>1, <1>4, <1>5

\* A vector leads to one of the documents it may lead to, if there is any.
LEMMA LeadsTo ==
  ASSUME NEW v, NEW where
  PROVE  /\ \A d \in doc_chunk_for_vid_in_excluding(v, where) :
              /\ d \in Candidates(v, where) /\ d \in Documents /\ ~reason(d, vecs[v][1])
              /\ vecs[v] # <<>> /\ row[d].content = vecs[v][1]
              /\ where = {} \/ CollectionOf[d] \in where
         /\ (\E d \in Candidates(v, where) : ~reason(d, vecs[v][1])) =>
              doc_chunk_for_vid_in_excluding(v, where) # {}
<1>1. PICK left : left = {d \in Candidates(v, where) : ~reason(d, vecs[v][1])}
  OBVIOUS
<1>2. doc_chunk_for_vid_in_excluding(v, where) = IF left = {} THEN {} ELSE {Min(left)}
  BY <1>1 DEF doc_chunk_for_vid_in_excluding
<1>3. Candidates(v, where) \in SUBSET Documents
      /\ \A d \in Candidates(v, where) :
           vecs[v] # <<>> /\ row[d].content = vecs[v][1] /\ (where = {} \/ CollectionOf[d] \in where)
  BY DEF Candidates
<1>4. left \in SUBSET Nat
  BY <1>1, <1>3, NearSizes
<1>5. ASSUME left # {} PROVE Min(left) \in left
  BY <1>4, <1>5, MinIs
<1> QED BY <1>1, <1>2, <1>3, <1>5

\* Documents reached, with vectors that may lead to them.
WellFound(f) ==
  \A d \in DOMAIN f :
    /\ d \in Documents /\ f[d] \in SUBSET Vids /\ f[d] # {}
    /\ ask.scope = {} \/ CollectionOf[d] \in ask.scope
    /\ \A v \in f[d] : vecs[v] # <<>> /\ ~reason(d, vecs[v][1])
    /\ \A v, w \in f[d] : vecs[v][1] = vecs[w][1]

LEMMA ReachedIs ==
  ASSUME NEW hits \in SUBSET Vids, NEW where
  PROVE  /\ where = ask.scope => WellFound(Reached(hits, where))
         /\ \A d : d \in DOMAIN Reached(hits, where)
                     <=> \E v \in hits : d \in doc_chunk_for_vid_in_excluding(v, where)
         /\ \A d \in DOMAIN Reached(hits, where) :
              /\ d \in Documents
              /\ \A v : v \in Reached(hits, where)[d]
                          <=> v \in hits /\ d \in doc_chunk_for_vid_in_excluding(v, where)
              /\ \A v \in Reached(hits, where)[d] : row[d].content = vecs[v][1]
<1>1. PICK f : f = Reached(hits, where)
  OBVIOUS
<1>2. /\ \A d : d \in DOMAIN f <=> \E v \in hits : d \in doc_chunk_for_vid_in_excluding(v, where)
      /\ \A d \in DOMAIN f :
           \A v : v \in f[d] <=> v \in hits /\ d \in doc_chunk_for_vid_in_excluding(v, where)
  BY <1>1 DEF Reached
<1>3. ASSUME NEW d \in DOMAIN f
      PROVE  /\ d \in Documents /\ f[d] \in SUBSET Vids /\ f[d] # {}
             /\ where = {} \/ CollectionOf[d] \in where
             /\ \A v \in f[d] : vecs[v] # <<>> /\ ~reason(d, vecs[v][1]) /\ row[d].content = vecs[v][1]
  <2>1. PICK v \in hits : d \in doc_chunk_for_vid_in_excluding(v, where)
    BY <1>2
  <2>2. v \in f[d]
    BY <1>2, <2>1
  <2>3. d \in Documents /\ (where = {} \/ CollectionOf[d] \in where)
    BY <2>1, LeadsTo
  <2>4. f[d] \in SUBSET Vids
    <3>1. \A w \in f[d] : w \in hits
      BY <1>2
    <3>2. f[d] = {w \in hits : d \in doc_chunk_for_vid_in_excluding(w, where)}
      BY <1>1 DEF Reached
    <3> QED BY <3>2
  <2>5. \A w \in f[d] : vecs[w] # <<>> /\ ~reason(d, vecs[w][1]) /\ row[d].content = vecs[w][1]
    <3> TAKE w \in f[d]
    <3>1. d \in doc_chunk_for_vid_in_excluding(w, where)
      BY <1>2
    <3> QED BY <3>1, LeadsTo
  <2> QED BY <2>2, <2>3, <2>4, <2>5
<1>4. where = ask.scope => WellFound(f)
  BY <1>3 DEF WellFound
<1>5. \A d \in DOMAIN f : d \in Documents /\ \A v \in f[d] : row[d].content = vecs[v][1]
  BY <1>3
<1> QED BY <1>1, <1>2, <1>4, <1>5


\* Ranks grow with the vectors, one for each chunk, and the nearest has the first.
LEMMA RanksGrow ==
  ASSUME NEW H \in SUBSET Vids
  PROVE  /\ OnePerChunk(H) \in SUBSET H
         /\ \A v \in OnePerChunk(H) : RankIn(v, H) \in Nat /\ RankIn(v, H) > 0
         /\ \A v, w \in OnePerChunk(H) : v < w => RankIn(v, H) < RankIn(w, H)
         /\ H # {} => /\ Min(H) \in OnePerChunk(H) /\ RankIn(Min(H), H) = 1
                      /\ Min(H) \in H /\ \A v \in H : Min(H) <= v
<1>1. PICK O : O = OnePerChunk(H)
  OBVIOUS
<1>2. O \in SUBSET H /\ O \in SUBSET Vids /\ Vids \subseteq Nat /\ O \subseteq Nat /\ H \in SUBSET Nat
  BY <1>1, NearSizes DEF OnePerChunk
<1> DEFINE U(v) == {w \in O : w <= v}
<1>3. \A v : RankIn(v, H) = Cardinality(U(v))
  BY <1>1 DEF RankIn
<1>4. \A v : IsFiniteSet(U(v)) /\ Cardinality(U(v)) \in Nat
  <2> TAKE v
  <2>1. U(v) \in SUBSET Vids
    BY <1>2
  <2>2. IsFiniteSet(U(v))
    BY <2>1, NearSizes, FS_Subset
  <2> QED BY <2>2, FS_CardinalityType
<1>5. ASSUME NEW v \in O PROVE Cardinality(U(v)) > 0
  <2>1. v \in U(v)
    BY <1>2
  <2>2. Cardinality(U(v)) # 0
    BY <1>4, <2>1, FS_EmptySet
  <2> QED BY <1>4, <2>2
<1>6. ASSUME NEW v \in O, NEW w \in O, v < w PROVE Cardinality(U(v)) < Cardinality(U(w))
  <2>1. U(v) \in SUBSET U(w) /\ w \in U(w) /\ w \notin U(v)
    <3>1. v \in Nat /\ w \in Nat /\ \A x \in O : x \in Nat
      BY <1>2
    <3>2. \A x \in O : x <= v => x <= w
      BY <1>6, <3>1
    <3>3. ~(w <= v) /\ w <= w
      BY <1>6, <3>1
    <3> QED BY <3>2, <3>3
  <2>2. PICK X, Y : X = U(v) /\ Y = U(w)
    OBVIOUS
  <2>3. Cardinality(X) <= Cardinality(Y) /\ (Cardinality(Y) = Cardinality(X) => Y = X)
    BY <1>4, <2>1, <2>2, FS_Subset
  <2>4. Cardinality(X) \in Nat /\ Cardinality(Y) \in Nat /\ X # Y
    BY <1>4, <2>1, <2>2
  <2> QED BY <2>2, <2>3, <2>4
<1>7. ASSUME H # {}
      PROVE  /\ Min(H) \in O /\ Cardinality(U(Min(H))) = 1
             /\ Min(H) \in H /\ \A v \in H : Min(H) <= v
  <2>1. PICK m : m = Min(H)
    OBVIOUS
  <2>2. m \in H /\ m \in Nat /\ \A v \in H : m <= v
    BY <1>2, <1>7, <2>1, MinIs
  <2>3. m \in O
    BY <1>1, <2>2 DEF OnePerChunk
  <2>4. U(m) = {m}
    <3>1. \A w \in O : w <= m <=> w = m
      BY <1>2, <2>2
    <3> QED BY <2>3, <3>1
  <2>5. Cardinality({m}) = 1
    BY FS_Singleton
  <2> QED BY <2>1, <2>2, <2>3, <2>4, <2>5
<1> HIDE DEF U
<1> QED BY <1>1, <1>2, <1>3, <1>4, <1>5, <1>6, <1>7

\* The section that a vector stands for.
PickBy(d, v, hits) ==
  [doc |-> d, rank |-> RankIn(v, hits), score |-> Weight(d) * Nearness(v, 0),
   content |-> vecs[v][1], pos |-> vecs[v][2]]

LEMMA PicksAre ==
  ASSUME NEW f, NEW p
  PROVE  p \in AllPicks(f) <=>
           \E d \in DOMAIN f : \E v \in OnePerChunk(f[d]) :
             RankIn(v, f[d]) <= ask.per_file /\ p = PickBy(d, v, f[d])
BY DEF AllPicks, PicksOf, BestHits, PickBy

\* p is the section of the document d that its vector v stands for.
StandsFor(v, p, d, f) ==
  /\ d \in DOMAIN f /\ v \in OnePerChunk(f[d]) /\ v \in f[d] /\ v \in Vids /\ v \in Nat
  /\ RankIn(v, f[d]) \in Nat /\ 0 < RankIn(v, f[d]) /\ RankIn(v, f[d]) <= ask.per_file
  /\ p.doc = d /\ p.rank = RankIn(v, f[d]) /\ p.score = Weight(d) * Nearness(v, 0)
  /\ p.content = vecs[v][1] /\ p.pos = vecs[v][2] /\ p = PickBy(d, v, f[d])

\* What a search may show: allowed by the rules and in scope.
Allowed(p) ==
  /\ p.doc \in Documents /\ ~reason(p.doc, p.content)
  /\ ask.scope = {} \/ CollectionOf[p.doc] \in ask.scope
  /\ ask.kind = "similar" => p.doc # ask.doc

IsOffset(content, pos) == \E v \in vids_for_hash(content) : vecs[v][2] = pos

\* Two sections of a document are two of the chunks of its text.
Apart(p, q) ==
  p.doc = q.doc =>
    /\ ask.kind = "vsearch" /\ ask.per_file > 1 /\ p.content = q.content /\ p.pos # q.pos
    /\ p.content # "none" /\ p.pos \in Nat /\ q.pos \in Nat
    /\ IsOffset(p.content, p.pos) /\ IsOffset(q.content, q.pos)

LEMMA ScoreIs ==
  ASSUME NEW v \in Vids, NEW d
  PROVE  /\ Weight(d) * Nearness(v, 0) \in Int
         /\ ask.fresh = {} => Weight(d) * Nearness(v, 0) = 2 * Points - v
<1>1. v \in Nat /\ v > 0 /\ Points \in Nat
  BY NearSizes
<1>2. Nearness(v, 0) = 2 * Points - v
  BY <1>1 DEF Nearness, Distance
<1>3. Weight(d) \in {1, 2} /\ (ask.fresh = {} => Weight(d) = 1)
  BY DEF Weight
<1>4. PICK x, y : x = Weight(d) /\ y = Nearness(v, 0)
  OBVIOUS
<1>5. x * y \in Int /\ (x = 1 => x * y = y)
  BY <1>1, <1>2, <1>3, <1>4
<1> QED BY <1>2, <1>3, <1>4, <1>5

\* The sections of documents that were found can be put in a row, are allowed,
\* and are different chunks.
LEMMA PicksRank ==
  ASSUME NearTyped, NEW f, WellFound(f), ask.kind = "vsearch"
  PROVE  /\ Rankable(AllPicks(f))
         /\ \A p \in AllPicks(f) : Allowed(p)
         /\ \A p, q \in AllPicks(f) : p # q => Apart(p, q)
         /\ Cardinality(DOMAIN f) <= Cardinality(AllPicks(f))
         /\ Cardinality(DOMAIN f) \in Nat /\ IsFiniteSet(DOMAIN f)
<1>1. PICK S : S = AllPicks(f)
  OBVIOUS
<1>2. \A d \in DOMAIN f : /\ d \in Documents /\ d \in Nat /\ f[d] \in SUBSET Vids /\ f[d] # {}
                          /\ \A v \in f[d] : vecs[v] # <<>> /\ ~reason(d, vecs[v][1])
                          /\ \A v, w \in f[d] : vecs[v][1] = vecs[w][1]
                          /\ ask.scope = {} \/ CollectionOf[d] \in ask.scope
  BY NearSizes DEF WellFound
<1>3. ask.per_file \in Nat /\ ask.per_file > 0
  BY DEF NearTyped
<1>4. ASSUME NEW p \in S PROVE \E d, v : StandsFor(v, p, d, f)
  <2>1. PICK d \in DOMAIN f : \E v \in OnePerChunk(f[d]) :
               RankIn(v, f[d]) <= ask.per_file /\ p = PickBy(d, v, f[d])
    BY <1>1, <1>4, PicksAre
  <2>2. PICK v \in OnePerChunk(f[d]) : RankIn(v, f[d]) <= ask.per_file /\ p = PickBy(d, v, f[d])
    BY <2>1
  <2>3. v \in f[d] /\ v \in Vids /\ v \in Nat /\ RankIn(v, f[d]) \in Nat /\ 0 < RankIn(v, f[d])
    BY <1>2, RanksGrow, NearSizes
  <2>4. /\ p.doc = d /\ p.rank = RankIn(v, f[d]) /\ p.score = Weight(d) * Nearness(v, 0)
        /\ p.content = vecs[v][1] /\ p.pos = vecs[v][2]
    BY <2>2 DEF PickBy
  <2> QED BY <2>2, <2>3, <2>4 DEF StandsFor
<1> USE DEF StandsFor
<1>5. \A p \in S : p.doc \in Nat /\ p.rank \in Nat /\ p.score \in Int
  <2> TAKE p \in S
  <2>1. PICK d, v : StandsFor(v, p, d, f)
    BY <1>4
  <2> QED BY <1>2, <2>1, ScoreIs
<1>6. ASSUME NEW p \in S, NEW q \in S, p.doc = q.doc, p.rank = q.rank PROVE p = q
  <2>1. PICK d, v : StandsFor(v, p, d, f)
    BY <1>4
  <2>2. PICK e, w : StandsFor(w, q, e, f)
    BY <1>4
  <2>3. d = e /\ RankIn(v, f[d]) = RankIn(w, f[d]) /\ w \in OnePerChunk(f[d])
    BY <1>6, <2>1, <2>2
  <2>4. RankIn(v, f[d]) \in Nat /\ RankIn(w, f[d]) \in Nat
        /\ (v < w => RankIn(v, f[d]) < RankIn(w, f[d])) /\ (w < v => RankIn(w, f[d]) < RankIn(v, f[d]))
    <3>1. PICK H : H = f[d]
      OBVIOUS
    <3>2. H \in SUBSET Vids /\ v \in OnePerChunk(H) /\ w \in OnePerChunk(H)
      BY <1>2, <2>1, <2>3, <3>1
    <3>3. /\ \A x \in OnePerChunk(H) : RankIn(x, H) \in Nat
          /\ \A x, y \in OnePerChunk(H) : x < y => RankIn(x, H) < RankIn(y, H)
      BY <3>2, RanksGrow
    <3> QED BY <3>1, <3>2, <3>3
  <2>5. v = w
    BY <2>1, <2>2, <2>3, <2>4
  <2> QED BY <2>1, <2>2, <2>3, <2>5
<1>7. IsFiniteSet(S)
  <2> DEFINE P == (DOMAIN f) \X Vids
             g == [x \in P |-> PickBy(x[1], x[2], f[x[1]])]
  <2>1. IsFiniteSet(DOMAIN f)
    <3>1. DOMAIN f \in SUBSET Documents
      BY <1>2
    <3> QED BY <3>1, NearSizes, FS_Subset
  <2>2. IsFiniteSet(P)
    BY <2>1, NearSizes, FS_Product
  <2>3. IsFiniteSet({g[x] : x \in P})
    <3>1. PICK Q, h : Q = P /\ h = g
      OBVIOUS
    <3>2. IsFiniteSet(Q) /\ h \in [Q -> {h[x] : x \in Q}]
      BY <2>2, <3>1
    <3>3. h \in Surjection(Q, {h[x] : x \in Q})
      BY <3>2 DEF Surjection
    <3>4. IsFiniteSet({h[x] : x \in Q})
      BY <3>2, <3>3, FS_Surjection
    <3> QED BY <3>1, <3>4
  <2>4. S \in SUBSET {g[x] : x \in P}
    <3> SUFFICES ASSUME NEW p \in S PROVE p \in {g[x] : x \in P}
      OBVIOUS
    <3>1. PICK d, v : StandsFor(v, p, d, f)
      BY <1>4
    <3>2. <<d, v>> \in P /\ g[<<d, v>>] = p
      BY <3>1
    <3> HIDE DEF P, g
    <3> QED BY <3>2
  <2> HIDE DEF P, g
  <2> QED BY <2>3, <2>4, FS_Subset
<1>8. Rankable(S)
  BY <1>5, <1>6, <1>7 DEF Rankable
<1>9. ASSUME NEW p \in S PROVE Allowed(p)
  <2>1. PICK d, v : StandsFor(v, p, d, f)
    BY <1>4
  <2> QED BY <1>2, <2>1 DEF Allowed
<1>10. ASSUME NEW p \in S, NEW q \in S, p # q, p.doc = q.doc
       PROVE  Apart(p, q)
  <2>1. PICK d, v : StandsFor(v, p, d, f)
    BY <1>4
  <2>2. PICK e, w : StandsFor(w, q, e, f)
    BY <1>4
  <2>3. e = d /\ v # w /\ w \in OnePerChunk(f[d])
    BY <1>10, <2>1, <2>2
  <2>4. p.rank # q.rank
    BY <1>6, <1>10
  <2>5. ask.per_file > 1
    BY <1>3, <2>1, <2>2, <2>4
  <2>6. vecs[v] # vecs[w]
    <3>1. w \in f[d] /\ (vecs[w] = vecs[v] => v <= w /\ w <= v)
      BY <2>1, <2>2, <2>3 DEF OnePerChunk
    <3> QED BY <2>1, <2>2, <2>3, <3>1
  <2>7. /\ vecs[v][1] = vecs[w][1] /\ vecs[v] # <<>> /\ vecs[w] # <<>>
    BY <1>2, <2>1, <2>2, <2>3
  <2>8. /\ vecs[v] = <<vecs[v][1], vecs[v][2]>> /\ vecs[w] = <<vecs[w][1], vecs[w][2]>>
        /\ vecs[v][1] # "none" /\ vecs[v][2] \in Nat /\ vecs[w][2] \in Nat
    BY <2>1, <2>2, <2>7 DEF NearTyped
  <2>9. p.pos # q.pos /\ p.content = q.content
    <3>1. vecs[v][2] # vecs[w][2]
      BY <2>6, <2>7, <2>8
    <3> QED BY <2>1, <2>2, <2>7, <3>1
  <2>10. IsOffset(p.content, p.pos) /\ IsOffset(q.content, q.pos)
    BY <2>1, <2>2, <2>7 DEF IsOffset, vids_for_hash
  <2> QED BY <2>1, <2>2, <2>5, <2>8, <2>9, <2>10 DEF Apart
<1>11. /\ Cardinality(DOMAIN f) <= Cardinality(S)
       /\ Cardinality(DOMAIN f) \in Nat /\ IsFiniteSet(DOMAIN f)
  <2>1. PICK D : D = DOMAIN f
    OBVIOUS
  <2>2. IsFiniteSet(D) /\ Cardinality(D) \in Nat
    <3>1. D \in SUBSET Documents
      BY <1>2, <2>1
    <3> QED BY <3>1, NearSizes, FS_Subset, FS_CardinalityType
  <2> DEFINE g == [d \in D |-> PickBy(d, Min(f[d]), f[d])]
  <2>3. \A d \in D : g[d] \in S /\ g[d].doc = d
    <3> TAKE d \in D
    <3>1. f[d] \in SUBSET Vids /\ f[d] # {}
      BY <1>2, <2>1
    <3>2. Min(f[d]) \in OnePerChunk(f[d]) /\ RankIn(Min(f[d]), f[d]) = 1
      BY <3>1, RanksGrow
    <3>3. RankIn(Min(f[d]), f[d]) <= ask.per_file
      BY <1>3, <3>2
    <3>4. PickBy(d, Min(f[d]), f[d]) \in S
      BY <1>1, <2>1, <3>2, <3>3, PicksAre
    <3>5. PickBy(d, Min(f[d]), f[d]).doc = d
      BY DEF PickBy
    <3> QED BY <3>4, <3>5
  <2>4. g \in [D -> S] /\ \A d, e \in D : g[d] = g[e] => d = e
    BY <2>3
  <2> HIDE DEF g
  <2>5. g \in Injection(D, S)
    BY <2>4 DEF Injection, IsInjective
  <2>6. Cardinality(D) <= Cardinality(S)
    BY <1>7, <2>5, FS_Injection
  <2> QED BY <2>1, <2>2, <2>6
<1> QED BY <1>1, <1>8, <1>9, <1>10, <1>11 DEF Apart


\* Of fewer vectors the sections are the same, as far as they go.
LEMMA CutOff ==
  ASSUME NEW X \in SUBSET Vids, NEW n \in Nat, NEW Y, Y = {v \in X : v <= n}
  PROVE  /\ OnePerChunk(Y) = {v \in OnePerChunk(X) : v <= n}
         /\ \A v \in OnePerChunk(Y) : RankIn(v, Y) = RankIn(v, X)
<1>1. X \in SUBSET Nat
  BY NearSizes
<1>2. PICK O, P : O = OnePerChunk(X) /\ P = OnePerChunk(Y)
  OBVIOUS
<1>3. O \in SUBSET Nat /\ P \in SUBSET Nat
  BY <1>1, <1>2 DEF OnePerChunk
<1>4. ASSUME NEW v \in P PROVE v \in O /\ v <= n
  <2>1. v \in Y /\ v \in X /\ v <= n /\ v \in Nat /\ \A w \in Y : vecs[w] = vecs[v] => v <= w
    BY <1>1, <1>2, <1>4 DEF OnePerChunk
  <2>2. ASSUME NEW w \in X, vecs[w] = vecs[v] PROVE v <= w
    <3>1. CASE w <= n
      BY <2>1, <2>2, <3>1
    <3>2. CASE ~(w <= n)
      BY <1>1, <2>1, <3>2
    <3> QED BY <3>1, <3>2
  <2> QED BY <1>2, <2>1, <2>2 DEF OnePerChunk
<1>5. ASSUME NEW v \in O, v <= n PROVE v \in P
  BY <1>2, <1>5 DEF OnePerChunk
<1>6. P = {v \in O : v <= n}
  BY <1>4, <1>5
<1>7. ASSUME NEW v \in P PROVE RankIn(v, Y) = RankIn(v, X)
  <2>1. v \in Nat /\ v <= n
    BY <1>3, <1>4
  <2>2. \A w \in O : w <= v => w <= n
    BY <1>3, <2>1
  <2>3. {w \in P : w <= v} = {w \in O : w <= v}
    BY <1>6, <2>2
  <2> QED BY <1>2, <2>3 DEF RankIn
<1> QED BY <1>2, <1>6, <1>7

\* The best sections are in the pool as soon as enough documents are.
LEMMA PoolIsEnough ==
  ASSUME NearTyped, ask.kind = "vsearch", NEW n \in Nat,
         NEW F, F = Reached(search(0, n), ask.scope), NEW G, G = Reached(Vids, ask.scope),
         Cardinality(DOMAIN F) >= wanted \/ n >= Points,
         ask.fresh = {} \/ (ask.per_file = 1 /\ wanted >= Cardinality(DOMAIN G))
  PROVE  Best(AllPicks(F), ask.limit) = Best(AllPicks(G), ask.limit)
<1>1. PICK H : H = search(0, n)
  OBVIOUS
<1>2. H \in SUBSET Vids /\ H = {v \in Vids : v <= n} /\ (n >= Points => H = Vids)
  BY <1>1, SearchIs
<1>3. CASE n >= Points
  BY <1>1, <1>2, <1>3
<1>4. CASE ~(n >= Points)
  <2>1. PICK A, B : A = AllPicks(F) /\ B = AllPicks(G)
    OBVIOUS
  <2>2. /\ WellFound(F) /\ \A d \in DOMAIN F : \A v :
             v \in F[d] <=> v \in H /\ d \in doc_chunk_for_vid_in_excluding(v, ask.scope)
        /\ \A d : d \in DOMAIN F <=> \E v \in H : d \in doc_chunk_for_vid_in_excluding(v, ask.scope)
    BY <1>1, <1>2, ReachedIs
  <2>3. /\ WellFound(G) /\ \A d \in DOMAIN G : \A v :
             v \in G[d] <=> v \in Vids /\ d \in doc_chunk_for_vid_in_excluding(v, ask.scope)
        /\ \A d : d \in DOMAIN G <=> \E v \in Vids : d \in doc_chunk_for_vid_in_excluding(v, ask.scope)
    BY ReachedIs
  <2>4. /\ Rankable(B) /\ Cardinality(DOMAIN F) <= Cardinality(A)
        /\ IsFiniteSet(DOMAIN G) /\ Cardinality(DOMAIN F) \in Nat /\ Cardinality(DOMAIN G) \in Nat
        /\ Rankable(A)
    BY <2>1, <2>2, <2>3, PicksRank
  <2>5. DOMAIN F \in SUBSET DOMAIN G
    BY <1>2, <2>2, <2>3
  <2>6. ASSUME NEW d \in DOMAIN F
        PROVE  /\ OnePerChunk(F[d]) = {v \in OnePerChunk(G[d]) : v <= n}
               /\ \A v \in OnePerChunk(F[d]) : RankIn(v, F[d]) = RankIn(v, G[d])
    <3>1. F[d] \in SUBSET Vids /\ G[d] \in SUBSET Vids
      BY <2>2, <2>3, <2>5 DEF WellFound
    <3>2. \A v : v \in F[d] <=> v \in G[d] /\ v <= n
      BY <1>2, <2>2, <2>3, <2>5
    <3>3. F[d] = {v \in G[d] : v <= n}
      BY <3>1, <3>2
    <3> QED BY <3>1, <3>3, CutOff
  <2>7. ASSUME NEW p \in A PROVE p \in B /\ \E d, v : StandsFor(v, p, d, G) /\ v <= n
    <3>1. PICK d \in DOMAIN F : \E v \in OnePerChunk(F[d]) :
                 RankIn(v, F[d]) <= ask.per_file /\ p = PickBy(d, v, F[d])
      BY <2>1, <2>7, PicksAre
    <3>2. PICK v \in OnePerChunk(F[d]) : RankIn(v, F[d]) <= ask.per_file /\ p = PickBy(d, v, F[d])
      BY <3>1
    <3>3. v \in OnePerChunk(G[d]) /\ v <= n /\ RankIn(v, G[d]) = RankIn(v, F[d]) /\ d \in DOMAIN G
      BY <2>5, <2>6
    <3>4. p = PickBy(d, v, G[d]) /\ RankIn(v, G[d]) <= ask.per_file
      BY <3>2, <3>3 DEF PickBy
    <3>5. p \in B
      BY <2>1, <3>3, <3>4, PicksAre
    <3>6. G[d] \in SUBSET Vids
      BY <2>3, <3>3 DEF WellFound
    <3>7. v \in G[d] /\ v \in Vids /\ v \in Nat /\ RankIn(v, G[d]) \in Nat /\ 0 < RankIn(v, G[d])
      BY <3>3, <3>6, RanksGrow, NearSizes
    <3>8. StandsFor(v, p, d, G)
      BY <3>3, <3>4, <3>7 DEF StandsFor, PickBy
    <3> QED BY <3>3, <3>5, <3>8
  <2>8. ASSUME NEW p \in B, p \notin A
        PROVE  \E d, v : StandsFor(v, p, d, G) /\ ~(v <= n)
    <3>1. PICK d \in DOMAIN G : \E v \in OnePerChunk(G[d]) :
                 RankIn(v, G[d]) <= ask.per_file /\ p = PickBy(d, v, G[d])
      BY <2>1, <2>8, PicksAre
    <3>2. PICK v \in OnePerChunk(G[d]) : RankIn(v, G[d]) <= ask.per_file /\ p = PickBy(d, v, G[d])
      BY <3>1
    <3>3. G[d] \in SUBSET Vids
      BY <2>3 DEF WellFound
    <3>4. v \in G[d] /\ v \in Vids /\ v \in Nat /\ RankIn(v, G[d]) \in Nat /\ 0 < RankIn(v, G[d])
      BY <3>3, RanksGrow, NearSizes
    <3>5. ASSUME v <= n PROVE FALSE
      <4>1. d \in DOMAIN F
        BY <1>2, <2>2, <2>3, <3>4, <3>5
      <4>2. v \in OnePerChunk(F[d]) /\ RankIn(v, F[d]) = RankIn(v, G[d])
        BY <2>6, <3>5, <4>1
      <4>3. p = PickBy(d, v, F[d]) /\ RankIn(v, F[d]) <= ask.per_file
        BY <3>2, <4>2 DEF PickBy
      <4>4. p \in A
        BY <2>1, <4>1, <4>2, <4>3, PicksAre
      <4> QED BY <2>8, <4>4
    <3>6. StandsFor(v, p, d, G)
      BY <3>2, <3>4 DEF StandsFor, PickBy
    <3> QED BY <3>5, <3>6
  <2>9. A \in SUBSET B
    BY <2>7
  <2>10. CASE ask.fresh = {}
    <3>1. ask.limit \in Nat /\ wanted = ask.limit
      BY <2>10 DEF NearTyped, wanted
    <3>2. ask.limit <= Cardinality(A)
      <4>1. Cardinality(DOMAIN F) >= ask.limit
        BY <1>4, <3>1
      <4>2. Cardinality(A) \in Nat
        BY <2>4, FS_CardinalityType DEF Rankable
      <4> QED BY <2>4, <3>1, <4>1, <4>2
    <3>3. \A x \in B \ A : \A y \in A : ~Outranks(x, y)
      <4> TAKE x \in B \ A
      <4> TAKE y \in A
      <4>1. PICK d, v : StandsFor(v, x, d, G) /\ ~(v <= n)
        BY <2>8
      <4>2. PICK e, w : StandsFor(w, y, e, G) /\ w <= n
        BY <2>7
      <4>3. v \in Nat /\ w \in Nat /\ v \in Vids /\ w \in Vids /\ w < v
        BY <4>1, <4>2 DEF StandsFor
      <4>4. x.score = 2 * Points - v /\ y.score = 2 * Points - w
        BY <2>10, <4>1, <4>2, <4>3, ScoreIs DEF StandsFor
      <4>5. x.score < y.score /\ x.score \in Int /\ y.score \in Int
        BY <4>3, <4>4, NearSizes
      <4> QED BY <4>5 DEF Outranks
    <3> QED BY <2>1, <2>4, <2>9, <3>1, <3>2, <3>3, BestSame
  <2>11. CASE ask.fresh # {}
    <3>1. wanted \in Nat
      BY <2>11 DEF NearTyped, wanted
    <3>2. DOMAIN F = DOMAIN G
      <4>1. Cardinality(DOMAIN F) >= wanted /\ wanted >= Cardinality(DOMAIN G)
        BY <1>4, <2>11
      <4>2. PICK C, D : C = DOMAIN F /\ D = DOMAIN G
        OBVIOUS
      <4>3. Cardinality(C) <= Cardinality(D) /\ (Cardinality(D) = Cardinality(C) => D = C)
        BY <2>4, <2>5, <4>2, FS_Subset
      <4> QED BY <2>4, <3>1, <4>1, <4>2, <4>3
    <3>3. ASSUME NEW x \in B, x \notin A PROVE FALSE
      <4>1. PICK d, v : StandsFor(v, x, d, G) /\ ~(v <= n)
        BY <2>8, <3>3
      <4>2. PICK X, Y : X = F[d] /\ Y = G[d]
        OBVIOUS
      <4>3. d \in DOMAIN F /\ X \in SUBSET Vids /\ X # {} /\ Y \in SUBSET Vids
        BY <2>2, <2>3, <3>2, <4>1, <4>2 DEF WellFound, StandsFor
      <4>4. PICK m : m = Min(X)
        OBVIOUS
      <4>5. m \in OnePerChunk(X) /\ m \in Vids
        BY <4>3, <4>4, RanksGrow
      <4>6. m \in OnePerChunk(Y) /\ m <= n
        BY <2>6, <4>2, <4>3, <4>5
      <4>7. v \in OnePerChunk(Y) /\ RankIn(v, Y) <= ask.per_file /\ v \in Nat /\ m \in Nat
        BY <4>1, <4>2, <4>5, NearSizes DEF StandsFor
      <4>8. m < v
        BY <4>1, <4>6, <4>7
      <4>9. RankIn(m, Y) \in Nat /\ RankIn(m, Y) > 0 /\ RankIn(v, Y) \in Nat /\ RankIn(m, Y) < RankIn(v, Y)
        BY <4>3, <4>6, <4>7, <4>8, RanksGrow
      <4>10. ask.per_file = 1
        BY <2>11
      <4> QED BY <4>7, <4>9, <4>10
    <3>4. A = B
      BY <2>9, <3>3
    <3> QED BY <2>1, <3>4
  <2> QED BY <2>10, <2>11
<1> QED BY <1>3, <1>4


LEMMA ProductIs == \A a, b \in Nat : a * b \in Nat
OBVIOUS

\* What similar_to_hash looks around, how far, and what it reaches.
Around == Sources(row[ask.doc].content)
AroundPool == SimilarPool(row[ask.doc].content)
AroundFound == Others(UNION {search(s, AroundPool) : s \in Around})
AroundPick(d, f, n) ==
  [doc |-> d, rank |-> 1, score |-> BestScore(f[d], Around, n), content |-> row[d].content, pos |-> 0]
AroundPicks(f, n) == {AroundPick(d, f, n) : d \in DOMAIN f}

\* How near a document is, of those reached.
NearIn(d, f) == 2 * Points - LeastDistance(f[d], Around)

LEMMA PoolTypes ==
  ASSUME NearTyped
  PROVE  AroundPool \in Nat /\ Around \in SUBSET Vids
<1>1. Around \in SUBSET Vids
  BY DEF Around, Sources, vids_for_hash
<1>2. Cardinality(Around) \in Nat
  BY <1>1, NearSizes, FS_Subset, FS_CardinalityType
<1>3. ask.limit \in Nat /\ OverFetch \in Nat
  BY NearSizes DEF NearTyped
<1>4. ask.limit * OverFetch \in Nat
  BY <1>3, ProductIs
<1>5. PICK a, b : a = ask.limit * OverFetch + Cardinality(Around) /\ b = ask.limit + 1
  OBVIOUS
<1>6. a \in Nat /\ b \in Nat
  BY <1>2, <1>3, <1>4, <1>5
<1>7. Max({a, b}) \in Nat
  <2>1. \E x \in {a, b} : \A y \in {a, b} : x >= y
    BY <1>6
  <2>2. Max({a, b}) \in {a, b}
    BY <2>1 DEF Max
  <2> QED BY <1>6, <2>2
<1>8. Min({Points, Max({a, b})}) \in Nat
  BY <1>7, NearSizes, MinOfTwo
<1> QED BY <1>1, <1>5, <1>8 DEF AroundPool, SimilarPool, Around

\* The documents around a document's chunks, and not that one.
LEMMA AroundIs ==
  ASSUME NearTyped, ask.kind = "similar", NEW f, f = AroundFound
  PROVE  /\ WellFound(f) /\ IsFiniteSet(DOMAIN f)
         /\ \A d \in DOMAIN f : /\ d \in Documents /\ d # ask.doc
                                /\ \A v \in f[d] : row[d].content = vecs[v][1]
                                /\ f[d] \in SUBSET Vids
                                /\ \E v \in f[d], s \in Around : v \in search(s, AroundPool)
<1>1. PICK H : H = UNION {search(s, AroundPool) : s \in Around}
  OBVIOUS
<1>2. H \in SUBSET Vids
  <2>1. \A s \in Around : search(s, AroundPool) \in SUBSET Vids
    BY PoolTypes, NearSizes, SearchIs
  <2> QED BY <1>1, <2>1
<1>3. PICK g : g = Reached(H, {})
  OBVIOUS
<1>4. ask.scope = {}
  BY DEF NearTyped
<1>5. /\ WellFound(g)
      /\ \A d \in DOMAIN g : /\ \A v \in g[d] : v \in H
                             /\ \A v \in g[d] : row[d].content = vecs[v][1]
  <2>1. PICK where : where = {} /\ where = ask.scope
    BY <1>4
  <2>2. WellFound(Reached(H, where))
    BY <1>2, <2>1, ReachedIs
  <2>3. \A d \in DOMAIN Reached(H, where) :
          /\ \A v : v \in Reached(H, where)[d] => v \in H
          /\ \A v \in Reached(H, where)[d] : row[d].content = vecs[v][1]
    BY <1>2, ReachedIs
  <2>4. g = Reached(H, where)
    BY <1>3, <2>1
  <2> QED BY <2>2, <2>3, <2>4
<1>6. f = [d \in DOMAIN g \ {ask.doc} |-> g[d]]
  BY <1>1, <1>3 DEF AroundFound, Others
<1>7. DOMAIN f = DOMAIN g \ {ask.doc} /\ \A d \in DOMAIN f : f[d] = g[d] /\ d \in DOMAIN g
  BY <1>6
<1>8. WellFound(f)
  BY <1>5, <1>7 DEF WellFound
<1>9. \A d \in DOMAIN f : d \in Documents /\ f[d] \in SUBSET Vids /\ f[d] # {}
  BY <1>8 DEF WellFound
<1>10. IsFiniteSet(DOMAIN f)
  <2>1. DOMAIN f \in SUBSET Documents
    BY <1>9
  <2> QED BY <2>1, NearSizes, FS_Subset
<1>11. ASSUME NEW d \in DOMAIN f PROVE \E v \in f[d], s \in Around : v \in search(s, AroundPool)
  <2>1. PICK v \in f[d] : v \in H
    BY <1>5, <1>7, <1>9
  <2> QED BY <1>1, <2>1
<1> QED BY <1>5, <1>7, <1>8, <1>9, <1>10, <1>11

\* The score is what is left of the range after the least distance.
LEMMA BestScoreIs ==
  ASSUME NEW hits \in SUBSET Vids, NEW sources \in SUBSET Vids, NEW n \in Nat,
         \E v \in hits, s \in sources : v \in search(s, n)
  PROVE  /\ BestScore(hits, sources, n) \in Int
         /\ n >= Points =>
              BestScore(hits, sources, n) = 2 * Points - LeastDistance(hits, sources)
<1>1. PICK Q : Q = {q \in hits \X sources : q[1] \in search(q[2], n)}
  OBVIOUS
<1>2. PICK T : T = {Distance(q[1], q[2]) : q \in Q}
  OBVIOUS
<1>3. \A v, w \in Vids : Distance(v, w) \in Nat /\ Nearness(v, w) = 2 * Points - Distance(v, w)
  <2>1. \A v \in Vids : v \in Int
    BY NearSizes DEF Vids
  <2>2. \A v, w \in Vids : Distance(v, w) \in Nat
    BY <2>1 DEF Distance
  <2>3. \A v, w : Nearness(v, w) = 2 * Points - Distance(v, w)
    BY DEF Nearness
  <2> QED BY <2>2, <2>3
<1>4. \A q \in Q : q[1] \in Vids /\ q[2] \in Vids
  BY <1>1
<1>5. T \in SUBSET Nat
  BY <1>2, <1>3, <1>4
<1>6. T # {}
  <2>1. PICK v \in hits, s \in sources : v \in search(s, n)
    OBVIOUS
  <2>2. <<v, s>> \in Q
    BY <1>1, <2>1
  <2> QED BY <1>2, <2>2
<1>7. PICK c : c = 2 * Points /\ c \in Nat
  BY NearSizes
<1>8. {Nearness(q[1], q[2]) : q \in Q} = {c - x : x \in T}
  <2>1. \A q \in Q : Nearness(q[1], q[2]) = c - Distance(q[1], q[2])
    BY <1>3, <1>4, <1>7
  <2> QED BY <1>2, <2>1
<1>9. Max({c - x : x \in T}) = c - Min(T) /\ Min(T) \in Nat
  BY <1>5, <1>6, <1>7, MaxIs, MinIs
<1>10. BestScore(hits, sources, n) = c - Min(T)
  BY <1>1, <1>8, <1>9 DEF BestScore
<1>11. ASSUME n >= Points PROVE LeastDistance(hits, sources) = Min(T)
  <2>1. \A s \in sources : search(s, n) = Vids
    BY <1>11, NearSizes, SearchIs
  <2>2. Q = hits \X sources
    BY <1>1, <2>1
  <2>3. \A v \in hits : \A s \in sources : \E q \in Q : q[1] = v /\ q[2] = s
    <3>1. TAKE v \in hits
    <3>2. TAKE s \in sources
    <3>3. <<v, s>> \in Q
      BY <2>2
    <3> QED BY <3>3
  <2>4. \A q \in Q : q[1] \in hits /\ q[2] \in sources
    BY <2>2
  <2> DEFINE D == {Distance(v, s) : v \in hits, s \in sources}
  <2>6. \A x \in T : x \in D
    <3>1. TAKE x \in T
    <3>2. PICK q \in Q : x = Distance(q[1], q[2])
      BY <1>2
    <3>3. PICK v \in hits : v = q[1]
      BY <2>4
    <3>4. PICK s \in sources : s = q[2]
      BY <2>4
    <3>5. x = Distance(v, s)
      BY <3>2, <3>3, <3>4
    <3> QED BY <3>5
  <2>7. \A x \in D : x \in T
    <3>1. TAKE x \in D
    <3>2. PICK v \in hits, s \in sources : x = Distance(v, s)
      OBVIOUS
    <3>3. PICK q \in Q : q[1] = v /\ q[2] = s
      <4> HIDE DEF D
      <4> QED BY <2>3
    <3> QED BY <1>2, <3>2, <3>3
  <2>8. T = D
    <3> HIDE DEF D
    <3> QED BY <2>6, <2>7
  <2> QED BY <2>8 DEF LeastDistance
<1>12. BestScore(hits, sources, n) \in Int
  BY <1>7, <1>9, <1>10
<1>13. ASSUME n >= Points
       PROVE  BestScore(hits, sources, n) = 2 * Points - LeastDistance(hits, sources)
  <2>1. PICK m : m = Min(T) /\ BestScore(hits, sources, n) = c - m
    BY <1>10
  <2>2. m = LeastDistance(hits, sources)
    BY <1>11, <1>13, <2>1
  <2> QED BY <1>7, <2>1, <2>2
<1> QED BY <1>12, <1>13

\* The documents around can be put in a row, are allowed and different.
LEMMA AroundRank ==
  ASSUME NearTyped, ask.kind = "similar", NEW f, f = AroundFound,
         NEW S, S = AroundPicks(f, AroundPool)
  PROVE  /\ Rankable(S) /\ \A p \in S : Allowed(p)
         /\ \A p, q \in S : p # q => Apart(p, q)
         /\ AroundPool >= Points => \A p \in S : p.score = NearIn(p.doc, f)
         /\ \A p \in S : p.doc \in DOMAIN f /\ p.rank = 1
         /\ \A d \in DOMAIN f : \E p \in S : p.doc = d
<1>1. PICK n : n = AroundPool
  OBVIOUS
<1>2. n \in Nat /\ Around \in SUBSET Vids
  BY <1>1, PoolTypes
<1>3. /\ WellFound(f) /\ IsFiniteSet(DOMAIN f)
      /\ \A d \in DOMAIN f : /\ d \in Documents /\ d \in Nat /\ d # ask.doc /\ f[d] \in SUBSET Vids
                             /\ \A v \in f[d] : row[d].content = vecs[v][1]
                             /\ \E v \in f[d], s \in Around : v \in search(s, n)
  <2>1. /\ WellFound(f) /\ IsFiniteSet(DOMAIN f)
        /\ \A d \in DOMAIN f : /\ d \in Documents /\ d # ask.doc
                               /\ \A v \in f[d] : row[d].content = vecs[v][1]
                               /\ f[d] \in SUBSET Vids
                               /\ \E v \in f[d], s \in Around : v \in search(s, AroundPool)
    BY AroundIs
  <2>2. \A d \in Documents : d \in Nat
    BY NearSizes
  <2> QED BY <1>1, <2>1, <2>2
<1>4. \A p \in S : \E d \in DOMAIN f : p = AroundPick(d, f, n)
  BY <1>1 DEF AroundPicks
<1>5. \A d \in DOMAIN f : AroundPick(d, f, n) \in S
  BY <1>1 DEF AroundPicks
<1>6. \A d : /\ AroundPick(d, f, n).doc = d /\ AroundPick(d, f, n).rank = 1
             /\ AroundPick(d, f, n).score = BestScore(f[d], Around, n)
             /\ AroundPick(d, f, n).content = row[d].content
  BY DEF AroundPick
<1>7. ASSUME NEW d \in DOMAIN f
      PROVE  /\ BestScore(f[d], Around, n) \in Int
             /\ n >= Points => BestScore(f[d], Around, n) = NearIn(d, f)
  BY <1>2, <1>3, BestScoreIs DEF NearIn
<1>8. \A p \in S : p.doc \in DOMAIN f /\ p.rank = 1 /\ p.score \in Int /\ p = AroundPick(p.doc, f, n)
                   /\ p.doc \in Nat
  BY <1>3, <1>4, <1>6, <1>7
<1>9. \A p, q \in S : p.doc = q.doc => p = q
  BY <1>8
<1>10. IsFiniteSet(S)
  <2>1. PICK D, g : D = DOMAIN f /\ g = [d \in D |-> AroundPick(d, f, n)]
    OBVIOUS
  <2>2. IsFiniteSet(D) /\ g \in [D -> S]
    BY <1>3, <1>5, <2>1
  <2>3. \A p \in S : \E d \in D : g[d] = p
    BY <1>4, <2>1
  <2>4. g \in Surjection(D, S)
    BY <2>2, <2>3 DEF Surjection
  <2> QED BY <2>2, <2>4, FS_Surjection
<1>11. Rankable(S)
  BY <1>8, <1>9, <1>10 DEF Rankable
<1>12. ASSUME NEW p \in S PROVE Allowed(p)
  <2>1. PICK d \in DOMAIN f : p.doc = d /\ p.content = row[d].content
    BY <1>4, <1>6
  <2>2. PICK v \in f[d] : TRUE
    BY <1>3
  <2>3. ~reason(d, vecs[v][1]) /\ row[d].content = vecs[v][1] /\ (ask.scope = {} \/ CollectionOf[d] \in ask.scope)
    BY <1>3 DEF WellFound
  <2> QED BY <1>3, <2>1, <2>3 DEF Allowed
<1>13. \A p, q \in S : p # q => Apart(p, q)
  BY <1>9 DEF Apart
<1>14. n >= Points => \A p \in S : p.score = NearIn(p.doc, f)
  BY <1>6, <1>7, <1>8
<1> QED BY <1>1, <1>5, <1>6, <1>8, <1>11, <1>12, <1>13, <1>14

\* s shows the nearest of the documents found.
IsNearest(s, f) ==
  LET those == {s[i].doc : i \in DOMAIN s}
  IN /\ \A i, j \in DOMAIN s : i < j => NearIn(s[i].doc, f) >= NearIn(s[j].doc, f)
     /\ \A d \in DOMAIN f \ those, e \in those : NearIn(d, f) <= NearIn(e, f)
     /\ Cardinality(those) = ask.limit \/ those = DOMAIN f

LEMMA NearestShown ==
  ASSUME NearTyped, ask.kind = "similar", NEW f, f = AroundFound, AroundPool >= Points,
         NEW s, s = Best(AroundPicks(f, AroundPool), ask.limit)
  PROVE  IsNearest(s, f)
<1>1. PICK S : S = AroundPicks(f, AroundPool)
  OBVIOUS
<1>2. /\ Rankable(S) /\ \A p \in S : p.score = NearIn(p.doc, f)
      /\ \A p \in S : p.doc \in DOMAIN f /\ p.rank = 1
      /\ \A d \in DOMAIN f : \E p \in S : p.doc = d
  BY <1>1, AroundRank
<1>3. ask.limit \in Nat
  BY DEF NearTyped
<1>4. IsBest(s, S, ask.limit) /\ BestFirst(s, S)
  BY <1>1, <1>2, <1>3, BestIs, BestInOrder
<1>5. PICK m : m = Len(s)
  OBVIOUS
<1>6. /\ DOMAIN s = 1 .. m /\ m \in Nat /\ (m = ask.limit \/ m = Cardinality(S))
      /\ \A i \in 1 .. m : s[i] \in S
  BY <1>4, <1>5 DEF IsBest
<1>7. /\ \A i, j \in 1 .. m : i # j => s[i] # s[j]
      /\ \A i, j \in 1 .. m : i < j => s[i].score >= s[j].score
      /\ \A x \in S : (\E i \in 1 .. m : Outranks(x, s[i])) => \E j \in 1 .. m : s[j] = x
      /\ m = Cardinality(S) => \A x \in S : \E j \in 1 .. m : s[j] = x
  BY <1>4, <1>5 DEF BestFirst
<1>8. PICK those : those = {s[i].doc : i \in 1 .. m}
  OBVIOUS
<1>9. \A p, q \in S : p.doc = q.doc => p = q
  BY <1>2 DEF Rankable
<1>10. \A i, j \in 1 .. m : i < j => NearIn(s[i].doc, f) >= NearIn(s[j].doc, f)
  BY <1>2, <1>6, <1>7
<1>11. ASSUME NEW d \in DOMAIN f, d \notin those, NEW i \in 1 .. m
       PROVE  NearIn(d, f) <= NearIn(s[i].doc, f)
  <2>1. PICK x \in S : x.doc = d
    BY <1>2
  <2>2. \A j \in 1 .. m : s[j] # x
    BY <1>8, <1>11, <2>1
  <2>3. ~Outranks(x, s[i])
    BY <1>7, <2>2
  <2>4. /\ x.score \in Int /\ s[i].score \in Int /\ s[i] \in S
        /\ x.score = NearIn(d, f) /\ s[i].score = NearIn(s[i].doc, f)
    BY <1>2, <1>6, <2>1 DEF Rankable
  <2>5. x.score <= s[i].score
    BY <2>3, <2>4 DEF Outranks
  <2> QED BY <2>4, <2>5
<1>12. \A d \in DOMAIN f \ those, e \in those : NearIn(d, f) <= NearIn(e, f)
  BY <1>8, <1>11
<1>13. CASE m = ask.limit
  <2>1. Cardinality(those) = m
    <3>1. PICK g : g = [i \in 1 .. m |-> s[i].doc]
      OBVIOUS
    <3>2. g \in [1 .. m -> those] /\ \A e \in those : \E i \in 1 .. m : g[i] = e
      BY <1>8, <3>1
    <3>3. \A i, j \in 1 .. m : g[i] = g[j] => i = j
      BY <1>6, <1>7, <1>9, <3>1
    <3>4. g \in Surjection(1 .. m, those) /\ g \in Injection(1 .. m, those)
      BY <3>2, <3>3 DEF Surjection, Injection, IsInjective
    <3>5. IsFiniteSet(1 .. m) /\ Cardinality(1 .. m) = m
      BY <1>6, FS_Interval
    <3> QED BY <3>4, <3>5, FS_Surjection
  <2>2. Cardinality(those) = ask.limit
    BY <1>13, <2>1
  <2> QED BY <1>6, <1>8, <1>10, <1>12, <2>2 DEF IsNearest
<1>14. CASE m = Cardinality(S)
  <2>1. \A d \in DOMAIN f : d \in those
    BY <1>2, <1>7, <1>8, <1>14
  <2>2. \A d \in those : d \in DOMAIN f
    BY <1>2, <1>6, <1>8
  <2>3. those = DOMAIN f
    BY <2>1, <2>2
  <2> QED BY <1>6, <1>8, <1>10, <1>12, <2>3 DEF IsNearest
<1> QED BY <1>6, <1>13, <1>14


\* The offsets at which a text of a document is cut.
TextCuts(d, text) == IF text = "none" THEN {} ELSE Cuts[d][text]

\* r shows the section p with a text its document has, or has had.
Shows(r, p) ==
  /\ r.doc = p.doc /\ r.content = p.content
  /\ r.text \in DOMAIN Cuts[p.doc] \cup {"none"}
  /\ ask.kind = "vsearch" => r.pos = nearest_chunk(TextCuts(p.doc, r.text), p.pos)

\* What has been chosen is allowed, and no section twice.
ChosenWell ==
  /\ DOMAIN picks = 1 .. Len(picks) /\ Len(picks) \in Nat /\ Len(picks) <= ask.limit
  /\ \A i \in 1 .. Len(picks) : Allowed(picks[i])
  /\ \A i, j \in 1 .. Len(picks) : i # j => Apart(picks[i], picks[j])

\* What has been read is what was chosen, from the first on.
ReadWell ==
  /\ \E S : results \in Seq(S)
  /\ Len(results) <= Len(picks)
  /\ \A i \in 1 .. Len(results) : Shows(results[i], picks[i])

\* Until a write, what is to be ranked is what the pool leads to, and is enough.
PoolWell ==
  /\ stage = "rank" => ask.kind = "vsearch" /\ WellFound(byDoc)
  /\ stage = "rank" /\ writes = 0 =>
       /\ byDoc = Reached(search(0, k), ask.scope)
       /\ Cardinality(DOMAIN byDoc) >= wanted \/ k >= Points

NearInv ==
  \/ stage = "idle" /\ picks = <<>> /\ results = <<>> /\ ask = NoAsk
  \/ /\ NearTyped /\ stage \in {"pass", "rank", "read", "done"}
     /\ stage \in {"pass", "rank"} => picks = <<>> /\ results = <<>>
     /\ ChosenWell /\ ReadWell /\ PoolWell /\ NothingBetterIsLeft /\ SimilarIsNearest

\* The chunk nearest to the start of a chunk is that one.
LEMMA NearestIs ==
  ASSUME NEW cuts \in SUBSET Nat, NEW pos \in cuts
  PROVE  nearest_chunk(cuts, pos) = pos
<1>1. PICK T : T = {c \in cuts : \A e \in cuts : Distance(c, pos) <= Distance(e, pos)}
  OBVIOUS
<1>2. \A c \in cuts : c \in Nat /\ Distance(c, pos) \in Nat /\ (Distance(c, pos) <= 0 => c = pos)
  BY DEF Distance
<1>3. Distance(pos, pos) = 0
  BY DEF Distance
<1>4. pos \in T /\ \A c \in T : c = pos
  BY <1>1, <1>2, <1>3
<1>5. T \in SUBSET Nat /\ T # {}
  BY <1>2, <1>4
<1>6. Min(T) \in T
  BY <1>5, MinIs
<1>7. Min(T) = pos
  BY <1>4, <1>6
<1>8. cuts # {}
  OBVIOUS
<1> QED BY <1>1, <1>7, <1>8 DEF nearest_chunk

\* What a search may show follows from the invariant.
LEMMA NearInvSays == NearInv => NearestAreShown
<1> SUFFICES ASSUME NearInv PROVE NearestAreShown
  OBVIOUS
<1>1. CASE stage = "idle"
  <2>1. picks = <<>> /\ results = <<>> /\ ask.limit = 1
    BY <1>1 DEF NearInv, NoAsk
  <2>2. Len(picks) = 0 /\ Len(results) = 0 /\ DOMAIN results = {} /\ DOMAIN picks = {}
    BY <2>1
  <2>3. RulesAreKept /\ EachSectionOnce
    BY <2>2 DEF RulesAreKept, EachSectionOnce
  <2>4. NothingBetterIsLeft /\ NoVectorIsWasted /\ SimilarIsNearest
    BY <1>1 DEF NothingBetterIsLeft, NoVectorIsWasted, SimilarIsNearest
  <2> QED BY <1>1, <2>1, <2>2, <2>3, <2>4 DEF NearestAreShown
<1>2. CASE stage # "idle"
  <2>1. /\ NearTyped /\ stage \in {"pass", "rank", "read", "done"}
        /\ ChosenWell /\ ReadWell /\ PoolWell /\ NothingBetterIsLeft /\ SimilarIsNearest
    BY <1>2 DEF NearInv
  <2>2. PICK m : m = Len(results)
    OBVIOUS
  <2>3. /\ DOMAIN results = 1 .. m /\ m \in Nat /\ m <= Len(picks)
        /\ Len(picks) \in Nat /\ Len(picks) <= ask.limit
        /\ \A i \in 1 .. m : Shows(results[i], picks[i]) /\ Allowed(picks[i])
        /\ \A i, j \in 1 .. m : i # j => Apart(picks[i], picks[j])
    BY <2>1, <2>2 DEF ReadWell, ChosenWell
  <2>4. RulesAreKept
    BY <2>3 DEF RulesAreKept, Shows, Allowed
  <2>5. ASSUME NEW i \in 1 .. m, NEW j \in 1 .. m, i # j, results[i].doc = results[j].doc,
               \A v \in vids_for_hash(results[i].content) :
                  vecs[v][2] \in Cuts[results[i].doc][results[i].content],
               \A n \in {i, j} : results[n].text = results[n].content
        PROVE  results[i].pos # results[j].pos /\ ask.per_file > 1
    <3>1. PICK p, q : p = picks[i] /\ q = picks[j]
      OBVIOUS
    <3>2. Shows(results[i], p) /\ Shows(results[j], q) /\ Allowed(p) /\ Apart(p, q)
      BY <2>3, <2>5, <3>1
    <3>3. /\ p.doc = q.doc /\ results[i].doc = p.doc /\ results[i].content = p.content
          /\ results[j].content = q.content
      BY <2>5, <3>2 DEF Shows
    <3>4. /\ ask.kind = "vsearch" /\ ask.per_file > 1 /\ p.content = q.content /\ p.pos # q.pos
          /\ p.content # "none"
          /\ IsOffset(p.content, p.pos) /\ IsOffset(q.content, q.pos)
      BY <3>2, <3>3 DEF Apart
    <3>5. PICK cuts : cuts = Cuts[p.doc][p.content]
      OBVIOUS
    <3>6. p.pos \in cuts /\ q.pos \in cuts
      BY <2>5, <3>3, <3>4, <3>5 DEF IsOffset
    <3>7. results[i].text = p.content /\ results[j].text = p.content
      BY <2>5, <3>3, <3>4
    <3>8. p.content \in DOMAIN Cuts[p.doc] /\ p.doc \in Documents
      BY <3>2, <3>4, <3>7 DEF Shows, Allowed
    <3>9. cuts \in SUBSET Nat
      BY <3>5, <3>8, NearTypes DEF Documents
    <3>10. TextCuts(p.doc, p.content) = cuts
      BY <3>4, <3>5 DEF TextCuts
    <3>11. /\ results[i].pos = nearest_chunk(cuts, p.pos)
           /\ results[j].pos = nearest_chunk(cuts, q.pos)
      BY <3>2, <3>3, <3>4, <3>7, <3>10 DEF Shows
    <3>12. results[i].pos = p.pos /\ results[j].pos = q.pos
      BY <3>6, <3>9, <3>11, NearestIs
    <3> QED BY <3>4, <3>12
  <2>6. EachSectionOnce
    BY <2>3, <2>5 DEF EachSectionOnce
  <2>7. NoVectorIsWasted
    <3> SUFFICES ASSUME stage = "rank", writes = 0, NEW v \in search(0, k),
                        \E d \in Candidates(v, ask.scope) : ~reason(d, vecs[v][1])
                 PROVE  \E d \in DOMAIN byDoc : v \in byDoc[d]
      BY DEF NoVectorIsWasted
    <3>1. PICK H, f : H = search(0, k) /\ f = Reached(H, ask.scope)
      OBVIOUS
    <3>2. f = byDoc
      BY <2>1, <3>1 DEF PoolWell
    <3>3. H \in SUBSET Vids
      BY <2>1, <3>1, SearchIs DEF NearTyped
    <3>4. PICK d : d \in doc_chunk_for_vid_in_excluding(v, ask.scope)
      BY LeadsTo
    <3>5. d \in DOMAIN f /\ v \in f[d]
      BY <3>1, <3>3, <3>4, ReachedIs
    <3> QED BY <3>2, <3>5
  <2> QED BY <2>1, <2>2, <2>3, <2>4, <2>6, <2>7 DEF NearestAreShown
<1> QED BY <1>1, <1>2

\* A search begins with nothing chosen; so does none.
LEMMA NearStart == (NearInit \/ NoSearching) => NearInv
<1>1. NoSearching => NearInv
  BY DEF NoSearching, NearInv
<1>2. ASSUME NearInit PROVE NearInv
  <2>1. PICK s \in Situations : vecs = s.vecs /\ row = s.rows
    BY <1>2 DEF NearInit
  <2>2. PICK t \in Searches :
          /\ ask.kind = t.kind /\ ask.limit = t.limit /\ ask.per_file = t.per_file /\ ask.scope = t.scope
          /\ k = ask.limit * OverFetch
    <3>1. PICK t \in Searches, rules \in RuleSets, young \in AgeWeights :
             /\ ask = [kind |-> t.kind, doc |-> t.doc, limit |-> t.limit, scope |-> t.scope,
                       per_file |-> t.per_file, rules |-> rules, fresh |-> young]
             /\ k = ask.limit * OverFetch
      BY <1>2 DEF NearInit
    <3> QED BY <3>1
  <2>3. /\ t.limit \in Nat \ {0} /\ t.per_file \in Nat \ {0}
        /\ \/ t.kind = "vsearch" /\ AgePool[t.limit] \in Nat
           \/ t.kind = "similar" /\ t.scope = {}
    BY NearTypes
  <2>4. k \in Nat
    BY <2>2, <2>3, NearSizes, ProductIs
  <2>5. /\ DOMAIN row = Documents
        /\ \A d \in Documents : row[d].content \in DOMAIN Cuts[d] \cup {"none"}
    BY <2>1, NearTypes DEF Documents
  <2>6. \A v \in Vids : vecs[v] # <<>> => /\ vecs[v] = <<vecs[v][1], vecs[v][2]>>
                                         /\ vecs[v][1] # "none" /\ vecs[v][2] \in Nat
    BY <2>1, NearTypes DEF Vids
  <2>7. picks = <<>> /\ results = <<>> /\ stage = "pass" /\ writes = 0
    BY <1>2 DEF NearInit
  <2>8. NearTyped
    BY <2>2, <2>3, <2>4, <2>5, <2>6, <2>7 DEF NearTyped
  <2>9. ChosenWell /\ ReadWell
    BY <2>2, <2>3, <2>7 DEF ChosenWell, ReadWell
  <2>10. PoolWell /\ NothingBetterIsLeft /\ SimilarIsNearest
    BY <2>7 DEF PoolWell, NothingBetterIsLeft, SimilarIsNearest
  <2> QED BY <2>7, <2>8, <2>9, <2>10 DEF NearInv
<1> QED BY <1>1, <1>2


\* What the vectors lead to depends on the vectors, the rows and the search.
LEMMA SameAnswers ==
  ASSUME UNCHANGED <<vecs, row, ask>>
  PROVE  /\ AllInOrder' = AllInOrder /\ wanted' = wanted
         /\ \A hits, where : Reached(hits, where)' = Reached(hits, where)
         /\ \A content : Sources(content)' = Sources(content)
<1>1. \A v, where : Candidates(v, where)' = Candidates(v, where)
  BY DEF Candidates
<1>2. \A d, content : reason(d, content)' <=> reason(d, content)
  BY DEF reason
<1>3. \A v, where : doc_chunk_for_vid_in_excluding(v, where)' = doc_chunk_for_vid_in_excluding(v, where)
  <2> TAKE v, where
  <2>1. PICK K, L : /\ K = {d \in Candidates(v, where) : ~reason(d, vecs[v][1])}
                    /\ L = {d \in Candidates(v, where) : ~reason(d, vecs[v][1])}'
    OBVIOUS
  <2>2. K = L
    <3>1. \A d : d \in K <=> d \in Candidates(v, where) /\ ~reason(d, vecs[v][1])
      BY <2>1
    <3>2. \A d : d \in L <=> d \in Candidates(v, where)' /\ ~reason(d, vecs[v][1])'
      BY <2>1
    <3>3. \A d : reason(d, vecs[v][1])' <=> reason(d, vecs[v][1])
      BY DEF reason
    <3> QED BY <1>1, <3>1, <3>2, <3>3
  <2>3. doc_chunk_for_vid_in_excluding(v, where) = IF K = {} THEN {} ELSE {Min(K)}
    BY <2>1 DEF doc_chunk_for_vid_in_excluding
  <2>4. doc_chunk_for_vid_in_excluding(v, where)' = IF L = {} THEN {} ELSE {Min(L)}
    BY <2>1 DEF doc_chunk_for_vid_in_excluding
  <2> QED BY <2>2, <2>3, <2>4
<1>4. \A hits, where : Reached(hits, where)' = Reached(hits, where)
  <2> TAKE hits, where
  <2>1. PICK f : f = Reached(hits, where)
    OBVIOUS
  <2>2. PICK g : g = Reached(hits, where)'
    OBVIOUS
  <2>3. /\ f = [d \in DOMAIN f |-> f[d]] /\ g = [d \in DOMAIN g |-> g[d]]
        /\ \A d : d \in DOMAIN f <=> \E v \in hits : d \in doc_chunk_for_vid_in_excluding(v, where)
        /\ \A d : d \in DOMAIN g <=> \E v \in hits : d \in doc_chunk_for_vid_in_excluding(v, where)'
        /\ \A d \in DOMAIN f : f[d] = {v \in hits : d \in doc_chunk_for_vid_in_excluding(v, where)}
        /\ \A d \in DOMAIN g : g[d] = {v \in hits : d \in doc_chunk_for_vid_in_excluding(v, where)'}
    BY <2>1, <2>2 DEF Reached
  <2>4. DOMAIN f = DOMAIN g
    BY <1>3, <2>3
  <2>5. \A d \in DOMAIN f : f[d] = g[d]
    <3> TAKE d \in DOMAIN f
    <3>1. d \in DOMAIN g
      BY <2>4
    <3>2. f[d] = {v \in hits : d \in doc_chunk_for_vid_in_excluding(v, where)}
      BY <2>3
    <3>3. g[d] = {v \in hits : d \in doc_chunk_for_vid_in_excluding(v, where)'}
      BY <2>3, <3>1
    <3> QED BY <1>3, <3>2, <3>3
  <2>6. f = g
    BY <2>3, <2>4, <2>5
  <2> QED BY <2>1, <2>2, <2>6
<1>5. wanted' = wanted
  BY DEF wanted
<1>6. \A hits : OnePerChunk(hits)' = OnePerChunk(hits)
  BY DEF OnePerChunk
<1>7. \A v, hits : RankIn(v, hits)' = RankIn(v, hits)
  <2> TAKE v, hits
  <2>1. PICK K, L : /\ K = {w \in OnePerChunk(hits) : w <= v}
                    /\ L = {w \in OnePerChunk(hits)' : w <= v}
    OBVIOUS
  <2>2. K = L
    BY <1>6, <2>1
  <2> QED BY <2>1, <2>2 DEF RankIn
<1>8. \A d : Weight(d)' = Weight(d)
  BY DEF Weight
<1>9. \A d, v, hits : PickBy(d, v, hits)' = PickBy(d, v, hits)
  BY <1>7, <1>8 DEF PickBy
<1>10. \A f : AllPicks(f)' = AllPicks(f)
  <2> TAKE f
  <2>1. \A p : p \in AllPicks(f)' <=>
           \E d \in DOMAIN f : \E v \in OnePerChunk(f[d])' :
             RankIn(v, f[d])' <= ask'.per_file /\ p = PickBy(d, v, f[d])'
    BY DEF AllPicks, PicksOf, BestHits, PickBy
  <2>2. \A p : p \in AllPicks(f) <=>
           \E d \in DOMAIN f : \E v \in OnePerChunk(f[d]) :
             RankIn(v, f[d]) <= ask.per_file /\ p = PickBy(d, v, f[d])
    BY PicksAre
  <2>3. \A p : p \in AllPicks(f)' <=> p \in AllPicks(f)
    BY <1>6, <1>7, <1>9, <2>1, <2>2
  <2>4. PICK K, L : K = AllPicks(f) /\ L = AllPicks(f)'
    OBVIOUS
  <2>5. K = L
    BY <2>3, <2>4
  <2> QED BY <2>4, <2>5
<1>11. AllInOrder' = AllInOrder
  <2>1. PICK f, where : where = ask.scope /\ f = Reached(Vids, where)
    OBVIOUS
  <2>2. f = Reached(Vids, ask.scope)' /\ AllPicks(f)' = AllPicks(f)
    BY <1>4, <1>10, <2>1
  <2>3. AllInOrder = Best(AllPicks(f), ask.limit)
    BY <2>1 DEF AllInOrder
  <2>4. AllInOrder' = Best(AllPicks(f)', ask'.limit)
    BY <2>2 DEF AllInOrder
  <2> QED BY <2>2, <2>3, <2>4
<1>12. \A content : Sources(content)' = Sources(content)
  <2> TAKE content
  <2>1. vids_for_hash(content)' = vids_for_hash(content)
    BY DEF vids_for_hash
  <2>2. \A v : {w \in vids_for_hash(content) : vecs[w][2] < vecs[v][2]}
                 = {w \in vids_for_hash(content)' : vecs'[w][2] < vecs'[v][2]}
    BY <2>1
  <2>3. \A v : Cardinality({w \in vids_for_hash(content) : vecs[w][2] < vecs[v][2]})
                 = Cardinality({w \in vids_for_hash(content)' : vecs'[w][2] < vecs'[v][2]})
    BY <2>2
  <2> QED BY <2>1, <2>3 DEF Sources
<1> QED BY <1>4, <1>5, <1>11, <1>12

\* What is chosen stays well chosen, whatever is written.
LEMMA StaysAllowed ==
  ASSUME UNCHANGED <<vecs, ask>>
  PROVE  /\ \A p : Allowed(p) => Allowed(p)'
         /\ \A p, q : Apart(p, q) => Apart(p, q)'
         /\ \A r, p : Shows(r, p) => Shows(r, p)'
         /\ \A f : WellFound(f) => WellFound(f)'
<1>1. \A d, content : reason(d, content)' <=> reason(d, content)
  BY DEF reason
<1>2. \A content : vids_for_hash(content)' = vids_for_hash(content)
  BY DEF vids_for_hash
<1>3. \A content, pos : IsOffset(content, pos)' <=> IsOffset(content, pos)
  BY <1>2 DEF IsOffset
<1>4. \A p : Allowed(p) => Allowed(p)'
  BY <1>1 DEF Allowed
<1>5. \A p, q : Apart(p, q) => Apart(p, q)'
  BY <1>3 DEF Apart
<1>6. \A r, p : Shows(r, p) => Shows(r, p)'
  BY DEF Shows
<1>7. \A f : WellFound(f) => WellFound(f)'
  BY <1>1 DEF WellFound
<1> QED BY <1>4, <1>5, <1>6, <1>7

\* One widening pass.
LEMMA PassStep ==
  ASSUME NearInv, Pass
  PROVE  NearInv'
<1>1. /\ NearTyped /\ stage = "pass" /\ picks = <<>> /\ results = <<>> /\ ChosenWell /\ ReadWell
  BY DEF NearInv, Pass
<1>2. UNCHANGED <<vecs, row, ask, picks, results, writes>> /\ ask.kind = "vsearch"
  BY DEF Pass
<1>3. PICK f : f = Reached(search(0, k), ask.scope)
  OBVIOUS
<1>4. /\ byDoc' = f
      /\ \/ Enough(f) /\ stage' = "rank" /\ k' = k
         \/ k' = Widened(k) /\ stage' = "pass"
  BY <1>1, <1>3 DEF Pass
<1>5. k' \in Nat
  <2>1. k \in Nat /\ 2 * k \in Nat /\ Points \in Nat
    BY <1>1, NearSizes DEF NearTyped
  <2>2. Widened(k) \in Nat
    BY <2>1, MinOfTwo DEF Widened
  <2> QED BY <1>4, <2>1, <2>2
<1>6. NearTyped'
  BY <1>1, <1>2, <1>5 DEF NearTyped
<1>7. ChosenWell' /\ ReadWell'
  <2>1. picks' = <<>> /\ results' = <<>> /\ ask'.limit \in Nat
    BY <1>1, <1>2 DEF NearTyped
  <2> QED BY <2>1 DEF ChosenWell, ReadWell
<1>8. PoolWell'
  <2> SUFFICES ASSUME stage' = "rank"
               PROVE  /\ ask'.kind = "vsearch" /\ WellFound(byDoc)'
                      /\ byDoc' = Reached(search(0, k), ask.scope)'
                      /\ Cardinality(DOMAIN byDoc)' >= wanted' \/ k' >= Points
    BY DEF PoolWell
  <2>1. k' = k /\ Enough(f)
    BY <1>4
  <2>2. search(0, k) \in SUBSET Vids
    BY <1>1, SearchIs DEF NearTyped
  <2>3. WellFound(f)
    BY <1>3, <2>2, ReachedIs
  <2>4. WellFound(f)'
    BY <1>2, <2>3, StaysAllowed
  <2>5. WellFound(byDoc)'
    BY <1>4, <2>4 DEF WellFound
  <2>6. PICK H, where : H = search(0, k) /\ where = ask.scope
    OBVIOUS
  <2>7. Reached(search(0, k), ask.scope)' = Reached(H, where)'
    BY <1>2, <2>1, <2>6
  <2>8. Reached(H, where)' = f
    BY <1>2, <1>3, <2>6, SameAnswers
  <2>9. wanted' = wanted
    BY <1>2, SameAnswers
  <2> QED BY <1>2, <1>4, <2>1, <2>5, <2>7, <2>8, <2>9 DEF Enough
<1>9. NothingBetterIsLeft' /\ SimilarIsNearest'
  BY <1>4 DEF NothingBetterIsLeft, SimilarIsNearest
<1>10. stage' \in {"pass", "rank"} /\ picks' = <<>> /\ results' = <<>>
  BY <1>1, <1>2, <1>4
<1> QED BY <1>6, <1>7, <1>8, <1>9, <1>10 DEF NearInv


\* The best of sections that can be put in a row are well chosen.
LEMMA BestAreWell ==
  ASSUME NearTyped, UNCHANGED <<vecs, ask>>, NEW S, Rankable(S),
         \A p \in S : Allowed(p), \A p, q \in S : p # q => Apart(p, q),
         picks' = Best(S, ask.limit)
  PROVE  ChosenWell'
<1>1. ask.limit \in Nat
  BY DEF NearTyped
<1>2. IsBest(picks', S, ask.limit) /\ BestFirst(picks', S)
  BY <1>1, BestIs, BestInOrder
<1>3. PICK s : s = picks'
  OBVIOUS
<1>4. PICK m : m = Len(s)
  OBVIOUS
<1>5. DOMAIN s = 1 .. m /\ m \in Nat /\ m <= ask.limit /\ \A i \in 1 .. m : s[i] \in S
  BY <1>2, <1>3, <1>4 DEF IsBest
<1>6. \A i, j \in 1 .. m : i # j => s[i] # s[j]
  BY <1>2, <1>3, <1>4 DEF BestFirst
<1>7. \A i \in 1 .. m : Allowed(s[i])'
  BY <1>5, StaysAllowed
<1>8. \A i, j \in 1 .. m : i # j => Apart(s[i], s[j])'
  BY <1>5, <1>6, StaysAllowed
<1>9. \A i \in 1 .. m : Allowed(picks[i])'
  BY <1>3, <1>7 DEF Allowed
<1>10. \A i, j \in 1 .. m : i # j => Apart(picks[i], picks[j])'
  BY <1>3, <1>8 DEF Apart
<1> QED BY <1>3, <1>4, <1>5, <1>9, <1>10 DEF ChosenWell

\* The ranking.
LEMMA RankStep ==
  ASSUME NearInv, Rank
  PROVE  NearInv'
<1>1. /\ NearTyped /\ stage = "rank" /\ results = <<>> /\ ask.kind = "vsearch"
      /\ WellFound(byDoc)
      /\ writes = 0 => /\ byDoc = Reached(search(0, k), ask.scope)
                       /\ Cardinality(DOMAIN byDoc) >= wanted \/ k >= Points
  BY DEF NearInv, Rank, PoolWell
<1>2. /\ UNCHANGED <<vecs, row, ask, k, byDoc, results, writes>>
      /\ stage' = "read" /\ picks' = Best(AllPicks(byDoc), ask.limit)
  BY DEF Rank
<1>3. NearTyped'
  BY <1>1, <1>2 DEF NearTyped
<1>4. ChosenWell'
  <2>1. PICK S : S = AllPicks(byDoc)
    OBVIOUS
  <2>2. Rankable(S) /\ (\A p \in S : Allowed(p)) /\ \A p, q \in S : p # q => Apart(p, q)
    BY <1>1, <2>1, PicksRank
  <2> QED BY <1>1, <1>2, <2>1, <2>2, BestAreWell
<1>5. ReadWell'
  <2>1. results' = <<>> /\ Len(picks)' \in Nat
    BY <1>1, <1>2, <1>4 DEF ChosenWell
  <2> QED BY <2>1 DEF ReadWell
<1>6. NothingBetterIsLeft'
  <2> SUFFICES ASSUME writes = 0,
                      ask.fresh = {} \/ (ask.per_file = 1 /\ wanted' >= Cardinality(DOMAIN Reached(Vids, ask.scope)'))
               PROVE  picks' = AllInOrder'
    <3>1. PICK where : where = ask.scope
      OBVIOUS
    <3>2. Reached(Vids, ask.scope)' = Reached(Vids, where)'
      BY <1>2, <3>1
    <3> QED BY <1>2, <3>1, <3>2 DEF NothingBetterIsLeft
  <2>1. PICK F, G, n : F = byDoc /\ G = Reached(Vids, ask.scope) /\ n = k
    OBVIOUS
  <2>2. wanted' = wanted /\ Reached(Vids, ask.scope)' = G /\ AllInOrder' = AllInOrder
    <3>1. PICK where : where = ask.scope
      OBVIOUS
    <3>2. Reached(Vids, ask.scope)' = Reached(Vids, where)'
      BY <1>2, <3>1
    <3> QED BY <1>2, <2>1, <3>1, <3>2, SameAnswers
  <2>3. /\ F = Reached(search(0, n), ask.scope) /\ n \in Nat
        /\ Cardinality(DOMAIN F) >= wanted \/ n >= Points
    BY <1>1, <2>1 DEF NearTyped
  <2>4. ask.fresh = {} \/ (ask.per_file = 1 /\ wanted >= Cardinality(DOMAIN G))
    BY <2>2
  <2>5. Best(AllPicks(F), ask.limit) = Best(AllPicks(G), ask.limit)
    BY <1>1, <2>1, <2>3, <2>4, PoolIsEnough
  <2> QED BY <1>2, <2>1, <2>2, <2>5 DEF AllInOrder
<1>7. PoolWell' /\ SimilarIsNearest'
  BY <1>1, <1>2 DEF PoolWell, SimilarIsNearest
<1> QED BY <1>2, <1>3, <1>4, <1>5, <1>6, <1>7 DEF NearInv

\* The neighbours of a document.
LEMMA SimilarStep ==
  ASSUME NearInv, similar_to_hash
  PROVE  NearInv'
<1>1. /\ NearTyped /\ stage = "pass" /\ picks = <<>> /\ results = <<>>
  BY DEF NearInv, similar_to_hash
<1>2. UNCHANGED <<vecs, row, ask, results, writes>> /\ ask.kind = "similar"
  BY DEF similar_to_hash
<1>3. PICK n, f, S : n = AroundPool /\ f = AroundFound /\ S = AroundPicks(f, n)
  OBVIOUS
<1>4. \/ stage' = "done" /\ UNCHANGED <<k, byDoc, picks>>
      \/ stage' = "read" /\ k' = n /\ byDoc' = f /\ picks' = Best(S, ask.limit)
  BY <1>1, <1>3 DEF similar_to_hash, AroundPool, AroundFound, AroundPicks, AroundPick, Around
<1>5. n \in Nat
  BY <1>1, <1>3, PoolTypes
<1>6. k' \in Nat
  BY <1>1, <1>4, <1>5 DEF NearTyped
<1>7. NearTyped'
  BY <1>1, <1>2, <1>6 DEF NearTyped
<1>8. ChosenWell'
  <2>1. CASE picks' = picks
    <3>1. picks' = <<>> /\ ask'.limit \in Nat
      BY <1>1, <1>2, <2>1 DEF NearTyped
    <3> QED BY <3>1 DEF ChosenWell
  <2>2. CASE picks' = Best(S, ask.limit)
    <3>1. Rankable(S) /\ (\A p \in S : Allowed(p)) /\ \A p, q \in S : p # q => Apart(p, q)
      BY <1>1, <1>2, <1>3, AroundRank
    <3> QED BY <1>1, <1>2, <2>2, <3>1, BestAreWell
  <2> QED BY <1>4, <2>1, <2>2
<1>9. ReadWell'
  <2>1. results' = <<>> /\ Len(picks)' \in Nat
    BY <1>1, <1>2, <1>8 DEF ChosenWell
  <2> QED BY <2>1 DEF ReadWell
<1>10. SimilarIsNearest'
  <2> SUFFICES ASSUME stage' = "read", k' = Points PROVE SimilarIsNearest'
    BY DEF SimilarIsNearest
  <2>1. byDoc' = f /\ picks' = Best(S, ask.limit) /\ n >= Points
    BY <1>4, <1>5
  <2>2. PICK s : s = picks'
    OBVIOUS
  <2>3. IsNearest(s, f)
    BY <1>1, <1>2, <1>3, <2>1, <2>2, NearestShown
  <2>4. PICK A : A = Around
    OBVIOUS
  <2>5. Sources(row[ask.doc].content)' = A
    <3>1. PICK content : content = row[ask.doc].content
      OBVIOUS
    <3>2. Sources(row[ask.doc].content)' = Sources(content)'
      BY <1>2, <3>1
    <3> QED BY <1>2, <2>4, <3>1, <3>2, SameAnswers DEF Around
  <2>6. LET Near(d) == 2 * Points - LeastDistance(f[d], A)
            those == {s[i].doc : i \in DOMAIN s}
        IN /\ \A i, j \in DOMAIN s : i < j => Near(s[i].doc) >= Near(s[j].doc)
           /\ \A d \in DOMAIN f \ those, e \in those : Near(d) <= Near(e)
           /\ Cardinality(those) = ask.limit \/ those = DOMAIN f
    BY <2>3, <2>4 DEF IsNearest, NearIn
  <2> QED BY <1>2, <2>1, <2>2, <2>5, <2>6 DEF SimilarIsNearest
<1>11. PoolWell' /\ NothingBetterIsLeft'
  BY <1>2, <1>4 DEF PoolWell, NothingBetterIsLeft
<1>12. stage' \in {"read", "done"}
  BY <1>4
<1> QED BY <1>7, <1>8, <1>9, <1>10, <1>11, <1>12 DEF NearInv

\* While nothing but the texts is read, what was chosen stays the nearest.
LEMMA StaysNearest ==
  ASSUME UNCHANGED <<vecs, row, ask, k, byDoc, picks, writes>>, stage = "read",
         NothingBetterIsLeft, SimilarIsNearest
  PROVE  NothingBetterIsLeft' /\ SimilarIsNearest'
<1>1. NothingBetterIsLeft'
  <2>1. AllInOrder' = AllInOrder /\ wanted' = wanted
    BY SameAnswers
  <2>2. Reached(Vids, ask.scope)' = Reached(Vids, ask.scope)
    <3>1. PICK where : where = ask.scope
      OBVIOUS
    <3>2. Reached(Vids, ask.scope)' = Reached(Vids, where)'
      BY <3>1
    <3> QED BY <3>1, <3>2, SameAnswers
  <2> QED BY <2>1, <2>2 DEF NothingBetterIsLeft
<1>2. SimilarIsNearest'
  <2>1. PICK A, s, f : A = Sources(row[ask.doc].content) /\ s = picks /\ f = byDoc
    OBVIOUS
  <2>2. Sources(row[ask.doc].content)' = A
    <3>1. PICK content : content = row[ask.doc].content
      OBVIOUS
    <3>2. Sources(row[ask.doc].content)' = Sources(content)'
      BY <3>1
    <3> QED BY <2>1, <3>1, <3>2, SameAnswers
  <2> SUFFICES ASSUME ask.kind = "similar", writes = 0, k = Points PROVE SimilarIsNearest'
    BY DEF SimilarIsNearest
  <2>3. LET Near(d) == 2 * Points - LeastDistance(f[d], A)
            those == {s[i].doc : i \in DOMAIN s}
        IN /\ \A i, j \in DOMAIN s : i < j => Near(s[i].doc) >= Near(s[j].doc)
           /\ \A d \in DOMAIN f \ those, e \in those : Near(d) <= Near(e)
           /\ Cardinality(those) = ask.limit \/ those = DOMAIN f
    BY <2>1 DEF SimilarIsNearest
  <2>4. s = picks' /\ f = byDoc'
    BY <2>1
  <2> QED BY <2>2, <2>3, <2>4 DEF SimilarIsNearest
<1> QED BY <1>1, <1>2


\* The text of one more section is read.
LEMMA ReadStep ==
  ASSUME NearInv, ReadText
  PROVE  NearInv'
<1>1. /\ NearTyped /\ stage = "read" /\ ChosenWell /\ ReadWell
      /\ NothingBetterIsLeft /\ SimilarIsNearest
  BY DEF NearInv, ReadText
<1>2. UNCHANGED <<vecs, row, ask, k, byDoc, picks, stage, writes>> /\ Len(results) < Len(picks)
  BY DEF ReadText
<1>3. PICK m : m = Len(results)
  OBVIOUS
<1>4. PICK p : p = picks[m + 1]
  OBVIOUS
<1>5. PICK r : r = [doc |-> p.doc, content |-> p.content, text |-> row[p.doc].content,
                    pos |-> IF ask.kind = "similar" THEN 0 ELSE nearest_chunk(CutsNow(p.doc), p.pos)]
  OBVIOUS
<1>6. results' = Append(results, r)
  BY <1>3, <1>4, <1>5 DEF ReadText
<1>7. PICK S : results \in Seq(S)
  BY <1>1 DEF ReadWell
<1>8. m \in Nat /\ m < Len(picks) /\ Len(picks) \in Nat
  BY <1>1, <1>2, <1>3, <1>7 DEF ChosenWell
<1>9. /\ results' \in Seq(S \cup {r}) /\ Len(results') = m + 1 /\ results'[m + 1] = r
      /\ \A i \in 1 .. m : results'[i] = results[i]
  <2>1. PICK R : R = S \cup {r}
    OBVIOUS
  <2>2. results \in Seq(R) /\ r \in R
    BY <1>7, <2>1
  <2> QED BY <1>3, <1>6, <2>1, <2>2
<1>10. Shows(r, p)
  <2>1. p.doc \in Documents
    BY <1>1, <1>4, <1>8 DEF ChosenWell, Allowed
  <2>2. row[p.doc].content \in DOMAIN Cuts[p.doc] \cup {"none"}
    BY <1>1, <2>1 DEF NearTyped
  <2>3. CutsNow(p.doc) = TextCuts(p.doc, row[p.doc].content)
    BY DEF CutsNow, TextCuts
  <2> QED BY <1>5, <2>2, <2>3 DEF Shows
<1>11. NearTyped' /\ ChosenWell'
  <2>1. \A i \in 1 .. Len(picks) : Allowed(picks[i])'
    <3>1. \A x : Allowed(x) => Allowed(x)'
      BY <1>2, StaysAllowed
    <3>2. PICK s : s = picks
      OBVIOUS
    <3>3. \A i \in 1 .. Len(s) : Allowed(s[i])'
      BY <1>1, <3>1, <3>2 DEF ChosenWell
    <3> QED BY <1>2, <3>2, <3>3
  <2>2. \A i, j \in 1 .. Len(picks) : i # j => Apart(picks[i], picks[j])'
    <3>1. \A x, y : Apart(x, y) => Apart(x, y)'
      BY <1>2, StaysAllowed
    <3>2. PICK s : s = picks
      OBVIOUS
    <3>3. \A i, j \in 1 .. Len(s) : i # j => Apart(s[i], s[j])'
      BY <1>1, <3>1, <3>2 DEF ChosenWell
    <3> QED BY <1>2, <3>2, <3>3
  <2>3. NearTyped'
    BY <1>1, <1>2 DEF NearTyped
  <2> QED BY <1>1, <1>2, <2>1, <2>2, <2>3 DEF ChosenWell
<1>12. ReadWell'
  <2>1. PICK t, s : t = results' /\ s = picks
    OBVIOUS
  <2>2. \A i \in 1 .. m : Shows(t[i], s[i])
    BY <1>1, <1>3, <1>9, <2>1 DEF ReadWell
  <2>3. Shows(t[m + 1], s[m + 1])
    BY <1>4, <1>9, <1>10, <2>1
  <2>4. \A i \in 1 .. m + 1 : Shows(t[i], s[i])
    <3>1. \A i \in 1 .. m + 1 : i \in 1 .. m \/ i = m + 1
      BY <1>8
    <3> QED BY <2>2, <2>3, <3>1
  <2>5. \A i \in 1 .. m + 1 : Shows(t[i], s[i])'
    BY <1>2, <2>4, StaysAllowed
  <2>6. \A i \in 1 .. Len(results)' : Shows(results[i], picks[i])'
    BY <1>2, <1>9, <2>1, <2>5 DEF Shows
  <2> QED BY <1>2, <1>8, <1>9, <2>6 DEF ReadWell
<1>13. NothingBetterIsLeft' /\ SimilarIsNearest'
  BY <1>1, <1>2, StaysNearest
<1>14. stage' = "read" /\ PoolWell'
  BY <1>1, <1>2 DEF PoolWell
<1> QED BY <1>11, <1>12, <1>13, <1>14 DEF NearInv

\* What is chosen and read stays so while nothing but rows and stages changes.
LEMMA StaysWell ==
  ASSUME UNCHANGED <<vecs, ask, picks, results>>, ChosenWell, ReadWell
  PROVE  ChosenWell' /\ ReadWell'
<1>1. PICK s, t : s = picks /\ t = results
  OBVIOUS
<1>2. /\ \A i \in 1 .. Len(s) : Allowed(s[i])
      /\ \A i, j \in 1 .. Len(s) : i # j => Apart(s[i], s[j])
      /\ \A i \in 1 .. Len(t) : Shows(t[i], s[i])
  BY <1>1 DEF ChosenWell, ReadWell
<1>3. /\ \A i \in 1 .. Len(s) : Allowed(s[i])'
      /\ \A i, j \in 1 .. Len(s) : i # j => Apart(s[i], s[j])'
      /\ \A i \in 1 .. Len(t) : Shows(t[i], s[i])'
  BY <1>2, StaysAllowed
<1>4. s = picks' /\ t = results'
  BY <1>1
<1>5. \A i \in 1 .. Len(picks)' : Allowed(picks[i])'
  BY <1>3, <1>4 DEF Allowed
<1>6. \A i, j \in 1 .. Len(picks)' : i # j => Apart(picks[i], picks[j])'
  BY <1>3, <1>4 DEF Apart
<1>7. \A i \in 1 .. Len(results)' : Shows(results[i], picks[i])'
  BY <1>3, <1>4 DEF Shows
<1>8. ChosenWell'
  BY <1>5, <1>6 DEF ChosenWell
<1>9. ReadWell'
  BY <1>7 DEF ReadWell
<1> QED BY <1>8, <1>9

\* The update writes a row.
LEMMA UpdateStep ==
  ASSUME NearInv, Update
  PROVE  NearInv'
<1>1. PICK d, new :
        /\ d \in Documents /\ Write(d, new) /\ new.content \in DOMAIN Cuts[d] \cup {"none"}
        /\ stage \in {"pass", "rank", "read"}
  <2>1. NearTyped
    BY DEF NearInv, Update
  <2>2. PICK d \in Documents :
          \/ Write(d, [row[d] EXCEPT !.active = FALSE])
          \/ \E content \in DOMAIN Cuts[d] \ {row[d].content} :
               Write(d, [content |-> content, active |-> TRUE])
          \/ Write(d, [content |-> "none", active |-> FALSE])
    BY DEF Update
  <2>3. stage \in {"pass", "rank", "read"} /\ row[d].content \in DOMAIN Cuts[d] \cup {"none"}
    BY <2>1 DEF Update, NearTyped
  <2>4. CASE Write(d, [row[d] EXCEPT !.active = FALSE])
    <3>1. [row[d] EXCEPT !.active = FALSE].content = row[d].content
      OBVIOUS
    <3> QED BY <2>3, <2>4, <3>1
  <2>5. CASE \E content \in DOMAIN Cuts[d] \ {row[d].content} :
               Write(d, [content |-> content, active |-> TRUE])
    <3>1. PICK content \in DOMAIN Cuts[d] : Write(d, [content |-> content, active |-> TRUE])
      BY <2>5
    <3>2. [content |-> content, active |-> TRUE].content = content
      OBVIOUS
    <3> QED BY <2>3, <3>1, <3>2
  <2>6. CASE Write(d, [content |-> "none", active |-> FALSE])
    <3>1. [content |-> "none", active |-> FALSE].content = "none"
      OBVIOUS
    <3> QED BY <2>3, <2>6, <3>1
  <2> QED BY <2>2, <2>4, <2>5, <2>6
<1>2. /\ NearTyped /\ stage \in {"pass", "rank", "read", "done"}
      /\ stage \in {"pass", "rank"} => picks = <<>> /\ results = <<>>
      /\ ChosenWell /\ ReadWell /\ PoolWell
  BY <1>1 DEF NearInv
<1>3. /\ UNCHANGED <<vecs, ask, k, byDoc, picks, results, stage>>
      /\ row' = [row EXCEPT ![d] = new] /\ writes' = writes + 1
  BY <1>1 DEF Write
<1>4. NearTyped'
  <2>1. DOMAIN row' = Documents /\ \A e \in Documents : row'[e].content \in DOMAIN Cuts[e] \cup {"none"}
    BY <1>1, <1>2, <1>3 DEF NearTyped
  <2> QED BY <1>2, <1>3, <2>1 DEF NearTyped
<1>5. ChosenWell' /\ ReadWell'
  BY <1>2, <1>3, StaysWell
<1>6. writes' # 0
  BY <1>2, <1>3 DEF NearTyped
<1>7. PoolWell'
  <2> SUFFICES ASSUME stage = "rank" PROVE ask'.kind = "vsearch" /\ WellFound(byDoc)'
    BY <1>3, <1>6 DEF PoolWell
  <2>1. PICK f : f = byDoc
    OBVIOUS
  <2>2. WellFound(f)'
    BY <1>2, <1>3, <2>1, StaysAllowed DEF PoolWell
  <2> QED BY <1>2, <1>3, <2>1, <2>2 DEF PoolWell, WellFound
<1>8. NothingBetterIsLeft' /\ SimilarIsNearest'
  BY <1>6 DEF NothingBetterIsLeft, SimilarIsNearest
<1> QED BY <1>2, <1>3, <1>4, <1>5, <1>7, <1>8 DEF NearInv

\* Every step of a search keeps the invariant.
LEMMA NearStep ==
  ASSUME NearInv, [NearNext]_nearVars
  PROVE  NearInv'
<1>1. CASE Finish
  <2>1. /\ NearTyped /\ stage = "read" /\ ChosenWell /\ ReadWell
    BY <1>1 DEF NearInv, Finish
  <2>2. UNCHANGED <<vecs, row, ask, k, byDoc, picks, results, writes>> /\ stage' = "done"
    BY <1>1 DEF Finish
  <2>3. NearTyped'
    BY <2>1, <2>2 DEF NearTyped
  <2>4. ChosenWell' /\ ReadWell'
    BY <2>1, <2>2, StaysWell
  <2>5. PoolWell' /\ NothingBetterIsLeft' /\ SimilarIsNearest'
    BY <2>2 DEF PoolWell, NothingBetterIsLeft, SimilarIsNearest
  <2> QED BY <2>2, <2>3, <2>4, <2>5 DEF NearInv
<1>2. CASE UNCHANGED nearVars
  <2>1. UNCHANGED <<vecs, row, ask, k, byDoc, picks, results, stage, writes>>
    BY <1>2 DEF nearVars
  <2>2. CASE stage = "idle"
    BY <2>1, <2>2 DEF NearInv
  <2>3. CASE stage # "idle"
    <3>1. /\ NearTyped /\ stage \in {"pass", "rank", "read", "done"}
          /\ stage \in {"pass", "rank"} => picks = <<>> /\ results = <<>>
          /\ ChosenWell /\ ReadWell /\ PoolWell /\ NothingBetterIsLeft /\ SimilarIsNearest
      BY <2>3 DEF NearInv
    <3>2. NearTyped'
      BY <2>1, <3>1 DEF NearTyped
    <3>3. ChosenWell' /\ ReadWell'
      BY <2>1, <3>1, StaysWell
    <3>4. PoolWell'
      <4>1. PICK f, where, n : f = byDoc /\ where = ask.scope /\ n = k
        OBVIOUS
      <4>2. WellFound(f) => WellFound(byDoc)'
        <5>1. WellFound(f) => WellFound(f)'
          BY <2>1, StaysAllowed
        <5> QED BY <2>1, <4>1, <5>1 DEF WellFound
      <4>3. Reached(search(0, k), ask.scope)' = Reached(search(0, k), ask.scope)
        <5>1. PICK H : H = search(0, n)
          OBVIOUS
        <5>2. Reached(search(0, k), ask.scope)' = Reached(H, where)'
          BY <2>1, <4>1, <5>1
        <5> QED BY <2>1, <4>1, <5>1, <5>2, SameAnswers
      <4>4. wanted' = wanted
        BY <2>1, SameAnswers
      <4> QED BY <2>1, <3>1, <4>1, <4>2, <4>3, <4>4 DEF PoolWell
    <3>5. NothingBetterIsLeft' /\ SimilarIsNearest'
      <4>1. CASE stage = "read"
        BY <2>1, <3>1, <4>1, StaysNearest
      <4>2. CASE stage # "read"
        BY <2>1, <4>2 DEF NothingBetterIsLeft, SimilarIsNearest
      <4> QED BY <4>1, <4>2
    <3> QED BY <2>1, <3>1, <3>2, <3>3, <3>4, <3>5 DEF NearInv
  <2> QED BY <2>2, <2>3
<1> QED BY <1>1, <1>2, PassStep, RankStep, ReadStep, SimilarStep, UpdateStep DEF NearNext

\* A search by vectors shows the nearest that the rules and the scope allow,
\* each section once, for any number of vectors, documents, chunks and results,
\* whatever an update writes in between (vsearch, similar_to_hash).
THEOREM NearestAreTold == ToolSpec => []NearestAreShown
<1>1. ToolInit => NearInv
  BY NearStart DEF ToolInit
<1>2. NearInv /\ [ToolNext]_toolVars => NearInv'
  <2> SUFFICES ASSUME NearInv, [ToolNext]_toolVars PROVE NearInv'
    OBVIOUS
  <2>1. [NearNext]_nearVars
    BY DEF ToolNext, toolVars
  <2> QED BY <2>1, NearStep
<1>3. NearInv => NearestAreShown
  BY NearInvSays
<1> QED BY <1>1, <1>2, <1>3, PTL DEF ToolSpec
=============================================================================
