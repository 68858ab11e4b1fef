---------------------------- MODULE QueryProofs ----------------------------
(***************************************************************************)
(* Theorems about HybridQuery, for any documents, collections, worlds,      *)
(* weights and typed queries: a soft deadline fails no query that has       *)
(* candidates, no leg is weighed twice, the cache holds what the model      *)
(* said, an answer has every hit it has room for and none out of scope, and *)
(* its scores are the documents' own, or the fusion's.                      *)
(***************************************************************************)
EXTENDS HybridQuery, FiniteSetTheorems, WellFoundedInduction, TLAPS

\* A query and a hook have the fields they were made with; what is in them
\* does not matter here.
QueryField == {"pc", "mode", "asked", "strict", "late", "scope", "legs", "seen", "lists", "cands",
               "docs", "got", "status", "was", "results", "end"}
HookField  == {"pc", "model", "want", "id", "got", "res"}

QueryShape    == q = [f \in QueryField |-> q[f]]
HookFields(h) == h = [f \in HookField |-> h[f]]

HookShape ==
  /\ hook = [p \in Proc |-> hook[p]]
  /\ \A p \in Proc : HookFields(hook[p])

\* There are no candidates before they are resolved; a rerank runs into the
\* deadline only for a query that is not strict.
DeadlineInv ==
  /\ QueryShape /\ HookShape
  /\ q.pc \in {"scope", "legs", "expand", "fuse"} => q.docs = <<>>
  /\ q.pc = "off" /\ q.end = "none" => q.docs = <<>>
  /\ q.pc # "off" => q.end = "none"
  /\ hook[Self].res = "expired" => ~q.strict
  /\ OnlyStrictFails

\* A query starts with no candidates and no expired rerank.
LEMMA DeadlineInit == Init => DeadlineInv
<1> SUFFICES ASSUME Init PROVE DeadlineInv
  OBVIOUS
<1>1. PICK w \in Worlds :
        /\ q = [NoQuery EXCEPT !.mode = w.mode, !.asked = w.asked, !.strict = w.strict]
        /\ hook = [p \in Proc |-> IF p \in (IF w.peer THEN Proc ELSE {Self}) THEN Idle
                                  ELSE [Idle EXCEPT !.pc = "off"]]
  BY DEF Init, CacheInit
<1>2. Self \in Proc
  BY ProcType
<1>3. HookShape /\ hook[Self].res # "expired"
  BY <1>1, <1>2 DEF HookShape, HookFields, HookField, Idle
<1>4. QueryShape /\ q.docs = <<>> /\ q.status = "NotRun" /\ q.end = "none"
  BY <1>1 DEF QueryShape, QueryField, NoQuery
<1> QED BY <1>3, <1>4 DEF DeadlineInv, OnlyStrictFails

\* A process's hook becomes r.
LEMMA HookBecomes ==
  ASSUME HookShape, NEW p \in Proc, NEW r, HookFields(r), hook' = [hook EXCEPT ![p] = r]
  PROVE  HookShape' /\ hook'[p] = r /\ \A s \in Proc \ {p} : hook'[s] = hook[s]
<1>1. hook'[p] = r /\ (\A s \in Proc \ {p} : hook'[s] = hook[s]) /\ hook' = [s \in Proc |-> hook'[s]]
  BY DEF HookShape
<1>2. \A s \in Proc : HookFields(hook'[s])
  BY <1>1 DEF HookShape
<1> QED BY <1>1, <1>2 DEF HookShape, HookFields

\* No step of a hook invents an expiry: the call may run into a deadline, and
\* the judgement passes that on.
LEMMA LookupStep ==
  ASSUME HookShape, NEW p \in Proc, Lookup(p)
  PROVE  HookShape' /\ (hook'[p].res = "expired" => hook[p].res = "expired")
         /\ \A s \in Proc \ {p} : hook'[s] = hook[s]
<1> DEFINE h    == hook[p]
           id   == model_identity(h.model)
           kept == [k \in {k \in ToSet(h.want) : Hits(p, k, id) # {}} |->
                      LET r == CHOOSE r \in Hits(p, k, id) : TRUE IN [of |-> r.of, by |-> r.by]]
           Found(got) == [h EXCEPT !.id = id, !.got = got,
                            !.pc = IF DOMAIN got # ToSet(h.want) THEN "call"
                                   ELSE IF h.model = "rerank" THEN "judge" ELSE "store",
                            !.res = IF DOMAIN got = ToSet(h.want) THEN "ok" ELSE "none"]
           Missed == [h EXCEPT !.id = id, !.pc = "call"]
<1>1. HookFields(h)
  BY DEF HookShape
<1>2. hook' = [hook EXCEPT ![p] = Found(kept)] \/ hook' = [hook EXCEPT ![p] = Missed]
  BY Zenon DEF Lookup
<1>3. HookFields(Missed) /\ Missed.res = h.res
  BY <1>1 DEF HookFields, HookField
<1>4. \A got : HookFields(Found(got)) /\ Found(got).res # "expired"
  BY <1>1 DEF HookFields, HookField
<1> HIDE DEF Found, Missed, kept
<1> QED BY <1>2, <1>3, <1>4, HookBecomes

\* A call runs into the deadline only when it is late.
LEMMA CallStep ==
  ASSUME HookShape, NEW p \in Proc, NEW late, Call(p, late)
  PROVE  HookShape' /\ (hook'[p].res = "expired" => late)
         /\ \A s \in Proc \ {p} : hook'[s] = hook[s]
<1> DEFINE h == hook[p]
           Ends(res) == [h EXCEPT !.pc = IF h.model = "rerank" THEN "judge" ELSE "store", !.res = res]
<1>1. HookFields(h)
  BY DEF HookShape
<1>2. \/ \E got : hook' = [hook EXCEPT ![p] = [Ends("ok") EXCEPT !.got = got]]
      \/ hook' = [hook EXCEPT ![p] = Ends("error")]
      \/ late /\ hook' = [hook EXCEPT ![p] = Ends("expired")]
  BY Zenon DEF Call
<1>3. \A res : HookFields(Ends(res)) /\ Ends(res).res = res
  BY <1>1 DEF HookFields, HookField
<1> HIDE DEF Ends
<1>4. \A got : LET r == [Ends("ok") EXCEPT !.got = got] IN HookFields(r) /\ r.res = "ok"
  BY <1>3 DEF HookFields, HookField
<1>5. CASE \E got : hook' = [hook EXCEPT ![p] = [Ends("ok") EXCEPT !.got = got]]
  <2>1. PICK got : hook' = [hook EXCEPT ![p] = [Ends("ok") EXCEPT !.got = got]]
    BY <1>5
  <2> DEFINE r == [Ends("ok") EXCEPT !.got = got]
  <2>2. HookFields(r) /\ r.res = "ok"
    BY <1>4
  <2>3. hook' = [hook EXCEPT ![p] = r]
    BY <2>1
  <2> HIDE DEF r
  <2> QED BY <2>2, <2>3, HookBecomes
<1>6. CASE hook' = [hook EXCEPT ![p] = Ends("error")]
  <2>1. HookFields(Ends("error")) /\ Ends("error").res = "error"
    BY <1>3
  <2> QED BY <2>1, <1>6, HookBecomes
<1>7. CASE late /\ hook' = [hook EXCEPT ![p] = Ends("expired")]
  <2>1. HookFields(Ends("expired"))
    BY <1>3
  <2> QED BY <2>1, <1>7, HookBecomes
<1> QED BY <1>2, <1>5, <1>6, <1>7

\* The judgement passes an expiry on.
LEMMA JudgeStep ==
  ASSUME HookShape, NEW p \in Proc, Judge(p)
  PROVE  HookShape' /\ (hook'[p].res = "expired" => hook[p].res = "expired")
         /\ \A s \in Proc \ {p} : hook'[s] = hook[s]
<1> DEFINE h == hook[p]
           r == [h EXCEPT !.pc = IF Usable(h) THEN "store" ELSE "done",
                          !.res = IF Usable(h) THEN "ok"
                                  ELSE IF h.res = "expired" THEN "expired" ELSE "error"]
<1>1. HookFields(h)
  BY DEF HookShape
<1>2. hook' = [hook EXCEPT ![p] = r]
  BY DEF Judge
<1>3. HookFields(r) /\ (r.res = "expired" => h.res = "expired")
  BY <1>1 DEF HookFields, HookField
<1> HIDE DEF r
<1> QED BY <1>2, <1>3, HookBecomes

\* The store leaves how the hook ended.
LEMMA StoreStep ==
  ASSUME HookShape, NEW p \in Proc, Store(p)
  PROVE  HookShape' /\ (hook'[p].res = "expired" => hook[p].res = "expired")
         /\ \A s \in Proc \ {p} : hook'[s] = hook[s]
<1> DEFINE r == [hook[p] EXCEPT !.pc = "done"]
<1>1. HookFields(hook[p])
  BY DEF HookShape
<1>2. hook' = [hook EXCEPT ![p] = r]
  BY DEF Store
<1>3. HookFields(r) /\ r.res = hook[p].res
  BY <1>1 DEF HookFields, HookField
<1> QED BY <1>2, <1>3, HookBecomes

\* A hook that is entered or left has not expired.
LEMMA EnterStep ==
  ASSUME HookShape, NEW p \in Proc, NEW m, NEW want, Enter(p, m, want) \/ Leave(p)
  PROVE  HookShape' /\ hook'[p].res # "expired"
         /\ \A s \in Proc \ {p} : hook'[s] = hook[s]
<1>1. CASE Enter(p, m, want)
  <2> DEFINE r == [Idle EXCEPT !.pc = "lookup", !.model = m, !.want = want]
  <2>1. HookFields(r) /\ r.res # "expired"
    BY DEF HookFields, HookField, Idle
  <2> QED BY <1>1, <2>1, HookBecomes DEF Enter
<1>2. CASE Leave(p)
  <2>1. HookFields(Idle) /\ Idle.res # "expired"
    BY DEF HookFields, HookField, Idle
  <2> QED BY <1>2, <2>1, HookBecomes DEF Leave
<1> QED BY <1>1, <1>2

\* The part of DeadlineInv that is about the query alone.
QueryPart ==
  /\ QueryShape
  /\ q.pc \in {"scope", "legs", "expand", "fuse"} => q.docs = <<>>
  /\ q.pc = "off" /\ q.end = "none" => q.docs = <<>>
  /\ q.pc # "off" => q.end = "none"
  /\ OnlyStrictFails

\* What a step has to show: the part of the query, and a hook that invents no
\* expiry.
LEMMA DeadlineFrame ==
  ASSUME DeadlineInv, q'.strict = q.strict, QueryPart',
         \/ UNCHANGED hook
         \/ HookShape' /\ (hook'[Self].res = "expired" => hook[Self].res = "expired" \/ ~q.strict)
  PROVE  DeadlineInv'
<1>1. HookShape' /\ (hook'[Self].res = "expired" => ~q'.strict)
  BY DEF DeadlineInv, HookShape
<1> QED BY <1>1 DEF DeadlineInv, QueryPart

\* A query left as it is keeps its part.
LEMMA SameQuery ==
  ASSUME DeadlineInv, UNCHANGED q
  PROVE  q'.strict = q.strict /\ QueryPart'
BY DEF DeadlineInv, QueryPart, QueryShape, OnlyStrictFails

\* No step fails a query with candidates that is not strict.
LEMMA DeadlineStep == DeadlineInv /\ [Next]_vars => DeadlineInv'
<1> SUFFICES ASSUME DeadlineInv, [Next]_vars PROVE DeadlineInv'
  OBVIOUS
<1> USE DEF QueryField
<1>0. Self \in Proc /\ Peer \in Proc
  BY ProcType
<1>1. CASE UNCHANGED vars
  BY <1>1, SameQuery, DeadlineFrame DEF vars
<1>2. CASE Start
  <2>1. q' = [q EXCEPT !.pc = "scope"] /\ q.pc = "off" /\ q.end = "none" /\ UNCHANGED hook
    BY <1>2 DEF Start
  <2> QED BY <2>1, DeadlineFrame DEF DeadlineInv, QueryPart, QueryShape, OnlyStrictFails
<1>3. CASE Scope
  <2>1. /\ q.pc = "scope" /\ UNCHANGED hook
        /\ \/ q' = [q EXCEPT !.pc = "off", !.end = "ok", !.results = <<>>]
           \/ \E s, l : q' = [q EXCEPT !.pc = "legs", !.scope = s, !.was = default, !.legs = l]
    BY <1>3 DEF Scope, Answer
  <2> QED BY <2>1, DeadlineFrame DEF DeadlineInv, QueryPart, QueryShape, OnlyStrictFails
<1>4. CASE SearchLeg
  <2>1. /\ q.pc = "legs" /\ UNCHANGED hook
        /\ \/ \E how : q' = [q EXCEPT !.pc = "off", !.end = how] /\ how \in {"timeout", "error"}
           \/ \E l, ls, s : q' = [q EXCEPT !.legs = l, !.lists = ls, !.seen = s]
    BY <1>4, Zenon DEF SearchLeg, Fail
  <2> QED BY <2>1, DeadlineFrame DEF DeadlineInv, QueryPart, QueryShape, OnlyStrictFails
<1>5. CASE LegsDone
  <2>1. /\ q.pc = "legs" /\ UNCHANGED hook
        /\ \/ \E res : q' = [q EXCEPT !.pc = "off", !.end = "ok", !.results = res]
           \/ \E next \in {"fuse", "expand"} : q' = [q EXCEPT !.pc = next, !.seen = {}]
    BY <1>5 DEF LegsDone, Answer, AfterLegs
  <2> QED BY <2>1, DeadlineFrame DEF DeadlineInv, QueryPart, QueryShape, OnlyStrictFails
<1>6. CASE Expand
  <2>1. CASE Fail("timeout") /\ UNCHANGED hook
    BY <1>6, <2>1, DeadlineFrame DEF Expand, Fail, DeadlineInv, QueryPart, QueryShape, OnlyStrictFails
  <2>2. CASE Enter(Self, "generate", <<Expansion>>) /\ UNCHANGED q
    BY <2>2, <1>0, EnterStep, SameQuery, DeadlineFrame DEF DeadlineInv
  <2> QED BY <1>6, <2>1, <2>2 DEF Expand
<1>7. CASE Expanded
  <2>1. HookShape' /\ hook'[Self].res # "expired"
    BY <1>7, <1>0, EnterStep DEF Expanded, DeadlineInv
  <2>2. /\ q.pc = "expand"
        /\ \/ \E l : q' = [q EXCEPT !.pc = "legs", !.mode = "expanded", !.legs = l]
           \/ q' = [q EXCEPT !.pc = "fuse"]
    BY <1>7 DEF Expanded, AfterExpansion
  <2>3. q'.strict = q.strict /\ QueryPart'
    <3>0. q.pc = "expand"
      BY <1>7 DEF Expanded
    <3>1. CASE q' = [q EXCEPT !.pc = "fuse"]
      BY <3>0, <3>1 DEF DeadlineInv, QueryPart, QueryShape, OnlyStrictFails
    <3>2. ASSUME NEW l, q' = [q EXCEPT !.pc = "legs", !.mode = "expanded", !.legs = l]
          PROVE  q'.strict = q.strict /\ QueryPart'
      <4>1. QueryShape' /\ q'.strict = q.strict
        BY <3>2 DEF DeadlineInv, QueryShape
      <4>2. q'.docs = q.docs /\ q'.end = q.end /\ q'.status = q.status /\ q'.pc = "legs"
        BY <3>2 DEF DeadlineInv, QueryShape
      <4> QED BY <3>0, <4>1, <4>2 DEF DeadlineInv, QueryPart, OnlyStrictFails
    <3> QED BY <2>2, <3>1, <3>2
  <2> QED BY <2>1, <2>3, DeadlineFrame
<1>8. CASE Fuse
  <2>1. /\ q.pc = "fuse" /\ UNCHANGED hook
        /\ \/ q' = [q EXCEPT !.pc = "off", !.end = "ok", !.results = <<>>]
           \/ \E c : q' = [q EXCEPT !.pc = "resolve", !.cands = c]
    BY <1>8 DEF Fuse, Answer
  <2> QED BY <2>1, DeadlineFrame DEF DeadlineInv, QueryPart, QueryShape, OnlyStrictFails
<1>9. CASE Resolve
  <2>1. /\ q.pc = "resolve" /\ UNCHANGED hook
        /\ \E c, d : q' = [q EXCEPT !.cands = c, !.docs = d]
    BY <1>9, Zenon DEF Resolve
  <2> QED BY <2>1, DeadlineFrame DEF DeadlineInv, QueryPart, QueryShape, OnlyStrictFails
<1>10. CASE Resolved
  <2>1. CASE q.docs = <<>> /\ Answer(<<>>) /\ UNCHANGED hook
    BY <1>10, <2>1, DeadlineFrame DEF Resolved, Answer, DeadlineInv, QueryPart, QueryShape, OnlyStrictFails
  <2>2. CASE StrictTimeout /\ Fail("timeout") /\ UNCHANGED hook
    BY <1>10, <2>2, DeadlineFrame DEF Resolved, StrictTimeout, Fail, DeadlineInv, QueryPart, QueryShape, OnlyStrictFails
  <2>3. CASE q' = [q EXCEPT !.pc = "assemble"] /\ UNCHANGED hook
    BY <1>10, <2>3, DeadlineFrame DEF Resolved, DeadlineInv, QueryPart, QueryShape, OnlyStrictFails
  <2>4. CASE q' = [q EXCEPT !.pc = "rerank"] /\ Enter(Self, "rerank", q.docs)
    <3>1. HookShape' /\ hook'[Self].res # "expired"
      BY <2>4, <1>0, EnterStep DEF DeadlineInv
    <3> QED BY <1>10, <2>4, <3>1, DeadlineFrame DEF Resolved, DeadlineInv, QueryPart, QueryShape, OnlyStrictFails
  <2> QED BY <1>10, <2>1, <2>2, <2>3, <2>4 DEF Resolved
<1>11. CASE SelfHook
  <2>1. UNCHANGED q
    BY <1>11 DEF SelfHook, qVars
  <2>2. HookShape' /\ (hook'[Self].res = "expired" => hook[Self].res = "expired" \/ ~q.strict)
    <3>1. CASE Lookup(Self)
      BY <3>1, <1>0, LookupStep DEF DeadlineInv
    <3>2. CASE Call(Self, q.late /\ ~q.strict)
      BY <3>2, <1>0, CallStep DEF DeadlineInv
    <3>3. CASE Judge(Self)
      BY <3>3, <1>0, JudgeStep DEF DeadlineInv
    <3>4. CASE Store(Self)
      BY <3>4, <1>0, StoreStep DEF DeadlineInv
    <3> QED BY <1>11, <3>1, <3>2, <3>3, <3>4 DEF SelfHook
  <2> QED BY <2>1, <2>2, SameQuery, DeadlineFrame
<1>12. CASE Reranked
  <2>1. HookShape' /\ hook'[Self].res # "expired"
    BY <1>12, <1>0, EnterStep DEF Reranked, DeadlineInv
  <2>2. /\ q.pc = "rerank"
        /\ \E g : q' = [q EXCEPT !.pc = "assemble", !.status = RerankStatus(hook[Self].res), !.got = g]
    BY <1>12 DEF Reranked
  <2>3. q.strict => RerankStatus(hook[Self].res) # "DeadlineExpired"
    BY DEF RerankStatus, DeadlineInv
  <2> QED BY <2>1, <2>2, <2>3, DeadlineFrame DEF DeadlineInv, QueryPart, QueryShape, OnlyStrictFails
<1>13. CASE assemble_results
  <2>1. /\ q.pc = "assemble" /\ UNCHANGED hook
        /\ \E res : q' = [q EXCEPT !.pc = "off", !.end = "ok", !.results = res]
    BY <1>13, Zenon DEF assemble_results, Answer
  <2> QED BY <2>1, DeadlineFrame DEF DeadlineInv, QueryPart, QueryShape, OnlyStrictFails
<1>14. ASSUME NEW m \in Model, PeerEnters(m)
       PROVE  DeadlineInv'
  <2>1. UNCHANGED q /\ \E want : Enter(Peer, m, want)
    BY <1>14, Zenon DEF PeerEnters, qVars
  <2>2. HookShape' /\ (hook'[Self].res = "expired" => hook[Self].res = "expired")
    BY <2>1, <1>0, EnterStep DEF DeadlineInv
  <2> QED BY <2>1, <2>2, SameQuery, DeadlineFrame
<1>15. CASE PeerHook
  <2>1. UNCHANGED q
    BY <1>15 DEF PeerHook, qVars
  <2>2. HookShape' /\ (hook'[Self].res = "expired" => hook[Self].res = "expired")
    <3>1. CASE Lookup(Peer)
      BY <3>1, <1>0, LookupStep DEF DeadlineInv
    <3>2. CASE Call(Peer, FALSE)
      BY <3>2, <1>0, CallStep DEF DeadlineInv
    <3>3. CASE Judge(Peer)
      BY <3>3, <1>0, JudgeStep DEF DeadlineInv
    <3>4. CASE Store(Peer)
      BY <3>4, <1>0, StoreStep DEF DeadlineInv
    <3> QED BY <1>15, <3>1, <3>2, <3>3, <3>4 DEF PeerHook
  <2> QED BY <2>1, <2>2, SameQuery, DeadlineFrame
<1>16. CASE DeadlinePasses
  <2>1. q.pc # "off" /\ q' = [q EXCEPT !.late = TRUE] /\ UNCHANGED hook
    BY <1>16 DEF DeadlinePasses, cacheVars
  <2> QED BY <2>1, DeadlineFrame DEF DeadlineInv, QueryPart, QueryShape, OnlyStrictFails
<1>17. CASE \/ (\E m \in Model : AtCache /\ Replace(m) /\ UNCHANGED qVars)
             \/ (AtCache /\ clear_at /\ UNCHANGED qVars)
             \/ (\E d \in Doc : Deactivate(d)) \/ (\E c \in Coll : SetIncluded(c))
  <2>1. UNCHANGED <<q, hook>>
    BY <1>17 DEF Replace, clear_at, Deactivate, SetIncluded, qVars
  <2> QED BY <2>1, SameQuery, DeadlineFrame
<1> QED
  BY <1>1, <1>2, <1>3, <1>4, <1>5, <1>6, <1>7, <1>8, <1>9, <1>10, <1>11, <1>12,
     <1>13, <1>14, <1>15, <1>16, <1>17 DEF Next, Step

-----------------------------------------------------------------------------
(* Legs.                                                                   *)

Probe  == Leg("lex", Original, TRUE)
Vector == Leg("vec", Original, TRUE)

IsList(s) == Len(s) \in Nat /\ s = [i \in 1..Len(s) |-> s[i]]

\* The legs of a query repeat it, one per kind; those of an expansion do not,
\* and each that led somewhere is noted.
LegsInv ==
  /\ QueryShape
  /\ IsList(q.lists)
  /\ q.pc = "scope" \/ (q.pc = "off" /\ q.end = "none") => q.lists = <<>> /\ q.seen = {}
  /\ q.pc = "legs" /\ q.mode \notin {"typed", "expanded"} =>
       /\ q.legs \in {<<Probe, Vector>>, <<Probe>>, <<Vector>>, <<>>}
       /\ q.legs \in {<<Probe, Vector>>, <<Probe>>} => q.lists = <<>>
       /\ q.legs = <<Vector>> => \A i \in DOMAIN q.lists : q.lists[i].leg.kind = "lex"
       /\ \A i \in DOMAIN q.lists : q.lists[i].leg.text = Original
  /\ q.pc = "expand" =>
       /\ q.mode = "query" /\ q.seen = {}
       /\ \A i \in DOMAIN q.lists : q.lists[i].leg.text = Original
  /\ q.pc = "legs" /\ q.mode = "expanded" =>
       \A i \in DOMAIN q.lists :
         q.lists[i].leg.text # Original => <<q.lists[i].leg.kind, q.lists[i].leg.text>> \in q.seen
  /\ NoLegCountsTwice

\* A query starts without legs and lists.
LEMMA LegsInit == Init => LegsInv
<1> SUFFICES ASSUME Init PROVE LegsInv
  OBVIOUS
<1>1. PICK w \in Worlds :
        q = [NoQuery EXCEPT !.mode = w.mode, !.asked = w.asked, !.strict = w.strict]
  BY DEF Init
<1>2. QueryShape /\ q.lists = <<>> /\ q.seen = {} /\ q.pc = "off"
  BY <1>1 DEF QueryShape, QueryField, NoQuery
<1> QED BY <1>2 DEF LegsInv, IsList, NoLegCountsTwice

\* A list more, with a leg unlike those before it.
LEMMA ListMore ==
  ASSUME NEW s, IsList(s), NEW e
  PROVE  /\ IsList(s \o <<e>>) /\ DOMAIN (s \o <<e>>) = DOMAIN s \cup {Len(s) + 1}
         /\ (s \o <<e>>)[Len(s) + 1] = e /\ Len(s) + 1 \notin DOMAIN s
         /\ \A i \in DOMAIN s : (s \o <<e>>)[i] = s[i]
BY DEF IsList

\* Nothing put behind a list leaves it.
LEMMA ListSame ==
  ASSUME NEW s, IsList(s)
  PROVE  s \o <<>> = s
BY DEF IsList

\* Once the legs are done the lists stay as they are.
LEMMA LegsFrame ==
  ASSUME LegsInv, QueryShape', q'.lists = q.lists, q'.mode = q.mode,
         q'.pc \notin {"scope", "legs", "expand"}, q'.pc = "off" => q'.end # "none"
  PROVE  LegsInv'
BY DEF LegsInv, NoLegCountsTwice

\* No step adds a list for a leg that has one.
LEMMA LegsStep == DeadlineInv /\ LegsInv /\ [Next]_vars => LegsInv'
<1> SUFFICES ASSUME DeadlineInv, LegsInv, [Next]_vars PROVE LegsInv'
  OBVIOUS
<1> USE DEF QueryField
<1>1. CASE UNCHANGED q
  BY <1>1 DEF LegsInv, QueryShape, NoLegCountsTwice
<1>2. CASE Start
  <2>1. q' = [q EXCEPT !.pc = "scope"] /\ q.pc = "off" /\ q.end = "none"
    BY <1>2 DEF Start
  <2> QED BY <2>1 DEF LegsInv, QueryShape, NoLegCountsTwice
<1>3. CASE Scope
  <2>1. CASE q' = [q EXCEPT !.pc = "off", !.end = "ok", !.results = <<>>]
    BY <2>1, LegsFrame DEF LegsInv, QueryShape
  <2>2. ASSUME NEW s, q' = [q EXCEPT !.pc = "legs", !.scope = s, !.was = default, !.legs = FirstLegs(q.mode)]
        PROVE  LegsInv'
    <3>1. QueryShape' /\ q'.pc = "legs" /\ q'.lists = <<>> /\ q'.seen = {}
          /\ q'.mode = q.mode /\ q'.legs = FirstLegs(q.mode)
      BY <1>3, <2>2 DEF LegsInv, QueryShape, Scope
    <3>2. q.mode # "typed" => FirstLegs(q.mode) \in {<<Probe, Vector>>, <<Probe>>, <<Vector>>}
      BY DEF FirstLegs, Probe, Vector
    <3> QED BY <3>1, <3>2 DEF LegsInv, IsList, NoLegCountsTwice
  <2> QED BY <1>3, <2>1, <2>2 DEF Scope, Answer
<1>4. CASE SearchLeg
  <2>1. ASSUME NEW how, how # "none", q' = [q EXCEPT !.pc = "off", !.end = how]
        PROVE  LegsInv'
    BY <2>1, LegsFrame DEF LegsInv, QueryShape
  <2> DEFINE leg == Head(q.legs)
             ran == RunsLine(leg)
  <2>2. ASSUME q' = [q EXCEPT !.legs = Tail(@), !.lists = IF ran THEN @ \o ListOf(leg) ELSE @,
                              !.seen = IF ran THEN @ \cup {<<leg.kind, leg.text>>} ELSE @]
        PROVE  LegsInv'
    <3>1. /\ QueryShape' /\ q'.pc = "legs" /\ q'.mode = q.mode /\ q'.legs = Tail(q.legs)
          /\ q'.lists = IF ran THEN q.lists \o ListOf(leg) ELSE q.lists
          /\ q'.seen = IF ran THEN q.seen \cup {<<leg.kind, leg.text>>} ELSE q.seen
      BY <1>4, <2>2 DEF LegsInv, QueryShape, SearchLeg
    <3>2. IsList(q.lists) /\ NoLegCountsTwice /\ q.pc = "legs"
      BY <1>4 DEF LegsInv, SearchLeg
    <3>3. CASE ~ran
      <4>1. q.mode = "expanded"
        BY <3>3 DEF RunsLine
      <4> QED BY <3>1, <3>2, <3>3, <4>1 DEF LegsInv, NoLegCountsTwice
    <3>0. IsList(q'.lists)
      <4>1. CASE ~ran \/ ListOf(leg) = <<>>
        BY <3>1, <3>2, <4>1, ListSame
      <4>2. CASE ran /\ ListOf(leg) # <<>>
        <5>1. PICK e : ListOf(leg) = <<e>>
          BY <4>2, Zenon DEF ListOf
        <5> QED BY <3>1, <3>2, <4>2, <5>1, ListMore
      <4> QED BY <4>1, <4>2
    <3>4. CASE ran /\ q.mode = "typed"
      BY <3>0, <3>1, <3>4 DEF LegsInv, NoLegCountsTwice
    <3>5. CASE ran /\ q.mode = "expanded"
      <4>1. leg.text # Original /\ <<leg.kind, leg.text>> \notin q.seen
        BY <3>5 DEF RunsLine
      <4>2. q'.seen = q.seen \cup {<<leg.kind, leg.text>>}
        BY <3>1, <3>5
      <4>3. \A i \in DOMAIN q.lists :
              q.lists[i].leg.text # Original => <<q.lists[i].leg.kind, q.lists[i].leg.text>> \in q.seen
        BY <3>2, <3>5 DEF LegsInv
      <4>4. CASE ListOf(leg) = <<>>
        <5>1. q'.lists = q.lists
          BY <3>1, <3>2, <3>5, <4>4, ListSame
        <5> QED BY <3>0, <3>1, <3>2, <3>5, <4>2, <4>3, <5>1 DEF LegsInv, NoLegCountsTwice
      <4>5. CASE ListOf(leg) # <<>>
        <5>1. PICK e : ListOf(leg) = <<e>> /\ e.leg = leg
          BY <4>5 DEF ListOf
        <5> DEFINE n == Len(q.lists) + 1
        <5>2. /\ q'.lists[n].leg = leg /\ DOMAIN q'.lists = DOMAIN q.lists \cup {n}
              /\ n \notin DOMAIN q.lists /\ \A i \in DOMAIN q.lists : q'.lists[i] = q.lists[i]
          <6>1. q'.lists = q.lists \o <<e>>
            BY <3>1, <3>5, <5>1
          <6>2. /\ (q.lists \o <<e>>)[n] = e /\ DOMAIN (q.lists \o <<e>>) = DOMAIN q.lists \cup {n}
                /\ n \notin DOMAIN q.lists /\ \A i \in DOMAIN q.lists : (q.lists \o <<e>>)[i] = q.lists[i]
            BY <3>2, ListMore
          <6> HIDE DEF n, leg
          <6> QED BY <5>1, <6>1, <6>2
        <5> HIDE DEF n, leg
        <5>3. \A i \in DOMAIN q'.lists :
                q'.lists[i].leg.text # Original =>
                  <<q'.lists[i].leg.kind, q'.lists[i].leg.text>> \in q'.seen
          BY <4>2, <4>3, <5>2
        <5>4. \A i \in DOMAIN q.lists :
                ~(q.lists[i].leg.kind = leg.kind /\ q.lists[i].leg.text = leg.text)
          BY <4>1, <4>3
        <5>5. NoLegCountsTwice'
          BY <3>2, <3>5, <5>2, <5>4, <3>1, ZenonT(30) DEF NoLegCountsTwice
        <5> QED BY <3>0, <3>1, <3>5, <5>3, <5>5 DEF LegsInv
      <4> QED BY <4>4, <4>5
    <3>6. CASE ran /\ q.mode \notin {"typed", "expanded"}
      <4>1. /\ q.legs \in {<<Probe, Vector>>, <<Probe>>, <<Vector>>}
            /\ q.legs \in {<<Probe, Vector>>, <<Probe>>} => q.lists = <<>>
            /\ q.legs = <<Vector>> => \A i \in DOMAIN q.lists : q.lists[i].leg.kind = "lex"
            /\ \A i \in DOMAIN q.lists : q.lists[i].leg.text = Original
        BY <1>4, <3>2, <3>6 DEF LegsInv, SearchLeg
      <4>2. \/ leg = Probe /\ q'.legs \in {<<Vector>>, <<>>} /\ q.lists = <<>>
            \/ leg = Vector /\ q'.legs = <<>> /\ \A i \in DOMAIN q.lists : q.lists[i].leg.kind = "lex"
        <5>1. CASE q.legs = <<Probe, Vector>>
          BY <5>1, <4>1, <3>1
        <5>2. CASE q.legs = <<Probe>>
          BY <5>2, <4>1, <3>1
        <5>3. CASE q.legs = <<Vector>>
          BY <5>3, <4>1, <3>1
        <5> QED BY <4>1, <5>1, <5>2, <5>3
      <4>3. /\ Probe.kind = "lex" /\ Probe.text = Original
            /\ Vector.kind = "vec" /\ Vector.text = Original
            /\ <<Vector>> \notin {<<>>, <<Probe>>, <<Probe, Vector>>}
            /\ <<>> \notin {<<Probe>>, <<Probe, Vector>>}
        BY DEF Probe, Vector, Leg
      <4>4. CASE ListOf(leg) = <<>>
        <5>1. q'.lists = q.lists
          BY <3>1, <3>2, <3>6, <4>4, ListSame
        <5>2. q'.legs \in {<<Vector>>, <<>>} /\ q'.legs \notin {<<Probe, Vector>>, <<Probe>>}
          BY <4>2, <4>3
        <5>3. q'.legs = <<Vector>> => q.lists = <<>>
          BY <4>2, <4>3
        <5>4. NoLegCountsTwice'
          BY <3>1, <3>2, <5>1 DEF NoLegCountsTwice
        <5> HIDE DEF leg
        <5>5. \A i \in DOMAIN q'.lists : q'.lists[i].leg.text = Original
          BY <4>1, <5>1
        <5>6. q'.legs = <<Vector>> => \A i \in DOMAIN q'.lists : q'.lists[i].leg.kind = "lex"
          BY <5>1, <5>3
        <5> QED BY <3>0, <3>1, <3>6, <5>2, <5>4, <5>5, <5>6 DEF LegsInv
      <4>5. CASE ListOf(leg) # <<>>
        <5>1. PICK e : ListOf(leg) = <<e>> /\ e.leg = leg
          BY <4>5 DEF ListOf
        <5> DEFINE n == Len(q.lists) + 1
        <5>2. /\ q'.lists[n].leg = leg /\ DOMAIN q'.lists = DOMAIN q.lists \cup {n}
              /\ n \notin DOMAIN q.lists /\ \A i \in DOMAIN q.lists : q'.lists[i] = q.lists[i]
          <6>1. q'.lists = q.lists \o <<e>>
            BY <3>1, <3>6, <5>1
          <6>2. /\ (q.lists \o <<e>>)[n] = e /\ DOMAIN (q.lists \o <<e>>) = DOMAIN q.lists \cup {n}
                /\ n \notin DOMAIN q.lists /\ \A i \in DOMAIN q.lists : (q.lists \o <<e>>)[i] = q.lists[i]
            BY <3>2, ListMore
          <6> HIDE DEF n, leg
          <6> QED BY <5>1, <6>1, <6>2
        <5> HIDE DEF n, leg
        <5>3. \A i \in DOMAIN q'.lists : q'.lists[i].leg.text = Original
          BY <4>1, <4>2, <4>3, <5>2
        <5>4. \A i \in DOMAIN q.lists : q.lists[i].leg.kind # leg.kind
          BY <4>2, <4>3
        <5>5. q'.legs = <<Vector>> => \A i \in DOMAIN q'.lists : q'.lists[i].leg.kind = "lex"
          BY <4>2, <4>3, <5>2
        <5>6. NoLegCountsTwice'
          BY <3>2, <3>6, <5>2, <5>4, <3>1 DEF NoLegCountsTwice
        <5>7. q'.legs \in {<<Vector>>, <<>>}
          BY <4>2
        <5>8. q'.legs \notin {<<Probe, Vector>>, <<Probe>>}
          BY <4>3, <5>7
        <5> QED BY <3>0, <3>1, <3>6, <5>3, <5>5, <5>6, <5>7, <5>8 DEF LegsInv
      <4> QED BY <4>4, <4>5
    <3> QED BY <3>3, <3>4, <3>5, <3>6
  <2> QED BY <1>4, <2>1, <2>2, ZenonT(30) DEF SearchLeg, Fail
<1>5. CASE LegsDone
  <2>1. ASSUME NEW res, q' = [q EXCEPT !.pc = "off", !.end = "ok", !.results = res]
        PROVE  LegsInv'
    BY <2>1, LegsFrame DEF LegsInv, QueryShape
  <2>2. ASSUME NEW next \in AfterLegs, q.pc = "legs", q.mode \notin {"search", "vsearch"},
               q' = [q EXCEPT !.pc = next, !.seen = {}]
        PROVE  LegsInv'
    BY <2>2, ZenonT(30) DEF LegsInv, QueryShape, NoLegCountsTwice, AfterLegs
  <2> QED BY <1>5, <2>1, <2>2 DEF LegsDone, Answer
<1>6. CASE Expand
  <2>1. q' = [q EXCEPT !.pc = "off", !.end = "timeout"] \/ UNCHANGED q
    BY <1>6 DEF Expand, Fail
  <2> QED BY <2>1, <1>1, ZenonT(30) DEF LegsInv, QueryShape, NoLegCountsTwice
<1>7. CASE Expanded
  <2>1. CASE q' = [q EXCEPT !.pc = "fuse"]
    BY <2>1 DEF LegsInv, QueryShape, NoLegCountsTwice
  <2>2. ASSUME NEW l, q' = [q EXCEPT !.pc = "legs", !.mode = "expanded", !.legs = l]
        PROVE  LegsInv'
    <3>1. /\ QueryShape' /\ q'.pc = "legs" /\ q'.mode = "expanded"
          /\ q'.lists = q.lists /\ q'.seen = q.seen
      BY <2>2 DEF LegsInv, QueryShape
    <3>2. q.pc = "expand"
      BY <1>7 DEF Expanded
    <3> QED BY <3>1, <3>2 DEF LegsInv, NoLegCountsTwice
  <2> QED BY <1>7, <2>1, <2>2 DEF Expanded, AfterExpansion
<1>8. CASE Fuse \/ Resolve \/ Resolved \/ Reranked \/ assemble_results
  <2> DEFINE Kept == /\ QueryShape' /\ q'.mode = q.mode /\ q'.lists = q.lists
                     /\ q'.pc \notin {"scope", "legs", "expand"} /\ (q'.pc = "off" => q'.end # "none")
  <2>1. ASSUME NEW res, Answer(res) PROVE Kept
    BY <2>1 DEF Answer, LegsInv, QueryShape
  <2>2. ASSUME Fail("timeout") PROVE Kept
    BY <2>2 DEF Fail, LegsInv, QueryShape
  <2>3. CASE Fuse
    <3>1. ASSUME NEW c, q' = [q EXCEPT !.pc = "resolve", !.cands = c] PROVE Kept
      BY <3>1 DEF LegsInv, QueryShape
    <3> QED BY <2>1, <2>3, <3>1, LegsFrame DEF Fuse
  <2>4. CASE Resolve
    <3>1. q.pc = "resolve"
      BY <2>4 DEF Resolve
    <3>2. ASSUME NEW c, NEW d, q' = [q EXCEPT !.cands = c, !.docs = d] PROVE Kept
      BY <3>1, <3>2 DEF LegsInv, QueryShape
    <3> QED BY <2>4, <3>2, LegsFrame DEF Resolve
  <2>5. CASE Resolved
    <3>1. ASSUME NEW pc \in {"assemble", "rerank"}, q' = [q EXCEPT !.pc = pc] PROVE Kept
      BY <3>1 DEF LegsInv, QueryShape
    <3> QED BY <2>1, <2>2, <2>5, <3>1, LegsFrame DEF Resolved
  <2>6. CASE Reranked
    <3>1. ASSUME NEW st, NEW g, q' = [q EXCEPT !.pc = "assemble", !.status = st, !.got = g] PROVE Kept
      BY <3>1 DEF LegsInv, QueryShape
    <3> QED BY <2>6, <3>1, LegsFrame DEF Reranked
  <2>7. CASE assemble_results
    <3>1. \E res : Answer(res)
      BY <2>7 DEF assemble_results
    <3> QED BY <2>1, <3>1, LegsFrame
  <2> QED BY <1>8, <2>3, <2>4, <2>5, <2>6, <2>7
<1>11. CASE DeadlinePasses
  <2>1. /\ QueryShape' /\ q'.mode = q.mode /\ q'.lists = q.lists /\ q'.seen = q.seen
        /\ q'.legs = q.legs /\ q'.pc = q.pc /\ q'.end = q.end
    BY <1>11 DEF LegsInv, QueryShape, DeadlinePasses
  <2> QED BY <2>1 DEF LegsInv, NoLegCountsTwice
<1>9. \/ UNCHANGED q \/ Start \/ Step \/ DeadlinePasses
  BY DEF Next, PeerEnters, PeerHook, Deactivate, SetIncluded, qVars, vars
<1>10. CASE SelfHook
  BY <1>10, <1>1 DEF SelfHook, qVars
<1> QED BY <1>1, <1>2, <1>3, <1>4, <1>5, <1>6, <1>7, <1>8, <1>9, <1>10, <1>11 DEF Step

\* A model that repeats itself, or the query, does not weigh a leg twice.
THEOREM LegsCountOnce == Spec => []NoLegCountsTwice
<1>1. DeadlineInv /\ LegsInv /\ [Next]_vars => (DeadlineInv /\ LegsInv)'
  BY DeadlineStep, LegsStep
<1>2. LegsInv => NoLegCountsTwice
  BY DEF LegsInv
<1> QED BY <1>1, <1>2, DeadlineInit, LegsInit, PTL DEF Spec

\* Of the queries that have candidates only a strict one is failed by its
\* deadline, and a strict one never answers that the rerank ran into it.
THEOREM StrictAloneFails == Spec => []OnlyStrictFails
<1>1. DeadlineInv => OnlyStrictFails
  BY DEF DeadlineInv
<1> QED BY <1>1, DeadlineInit, DeadlineStep, PTL DEF Spec

-----------------------------------------------------------------------------
(* The cache.                                                               *)

\* Of any numbers one is the least.
LEMMA LeastOf ==
  ASSUME NEW T \in SUBSET Nat, T # {}
  PROVE  \E x \in T : \A y \in T : x <= y
<1>1. PICK R : R = {ss \in Nat \X Nat : ss[1] < ss[2]}
  OBVIOUS
<1>2. IsWellFoundedOn(R, Nat)
  BY <1>1, NatLessThanWellFounded DEF OpToRel
<1>3. PICK x \in T : \A y \in T : <<y, x>> \notin R
  BY <1>2, WFMin
<1>4. ASSUME NEW y \in T PROVE x <= y
  <2>1. x \in Nat /\ y \in Nat /\ <<y, x>> \notin R
    BY <1>3
  <2>2. ~(y < x)
    BY <1>1, <2>1
  <2> QED BY <2>1, <2>2
<1> QED BY <1>4

\* A finite set of numbers has a bound.
LEMMA Bounded ==
  ASSUME NEW I \in SUBSET Nat, IsFiniteSet(I)
  PROVE  \E b \in Nat : \A i \in I : i <= b
<1> DEFINE n == Cardinality(I)
<1>1. n \in Nat /\ ExistsBijection(1..n, I)
  BY FS_CardinalityType
<1>2. PICK f \in [1..n -> I] : \A i \in I : \E m \in 1..n : f[m] = i
  BY <1>1 DEF ExistsBijection, Bijection, Surjection, Injection
<1>0. \A i \in I : i \in Nat
  OBVIOUS
<1> HIDE DEF n
<1> DEFINE Has(m) == \E b \in Nat : \A k \in 1..m : f[k] <= b
           T == {m \in 0..n : ~Has(m)}
<1>3. ASSUME T # {} PROVE FALSE
  <2>0. T \in SUBSET Nat
    BY <1>1
  <2>1. PICK m \in T : \A k \in T : m <= k
    BY <1>3, <2>0, LeastOf
  <2>2. m \in 0..n /\ ~Has(m)
    BY <2>1
  <2> HIDE DEF T
  <2>3. m # 0
    <3>1. 1..0 = {}
      OBVIOUS
    <3>2. Has(0)
      BY <3>1
    <3> QED BY <2>2, <3>2
  <2>4. m \in Nat /\ m - 1 \in 0..n /\ ~(m <= m - 1) /\ m \in 1..n
    BY <1>1, <2>2, <2>3
  <2>5. Has(m - 1)
    <3>1. m - 1 \notin T
      BY <2>1, <2>4
    <3> QED BY <2>4, <3>1 DEF T
  <2>6. PICK b \in Nat : \A k \in 1..(m - 1) : f[k] <= b
    BY <2>5
  <2>7. f[m] \in Nat
    BY <1>0, <2>4
  <2>8. PICK c \in Nat : b <= c /\ f[m] <= c
    <3>1. b <= f[m] \/ f[m] <= b
      BY <2>7
    <3>2. b <= b /\ f[m] <= f[m]
      BY <2>7
    <3> QED BY <2>7, <3>1, <3>2
  <2>9. ASSUME NEW k \in 1..m PROVE f[k] <= c
    <3>1. k \in 1..n /\ (k = m \/ k \in 1..(m - 1))
      BY <1>1, <2>4
    <3>2. f[k] \in Nat
      BY <1>0, <3>1
    <3>3. CASE k \in 1..(m - 1)
      <4>1. f[k] <= b
        BY <2>6, <3>3
      <4> QED BY <2>8, <3>2, <4>1
    <3> QED BY <2>8, <3>1, <3>3
  <2>10. Has(m)
    BY <2>9
  <2> QED BY <2>2, <2>10
<1>4. Has(n)
  <2>1. n \in 0..n /\ n \notin T
    <3>1. n \in 0..n
      BY <1>1
    <3> HIDE DEF T
    <3> QED BY <1>3, <3>1
  <2> HIDE DEF Has
  <2> QED BY <2>1
<1>5. PICK b \in Nat : \A k \in 1..n : f[k] <= b
  BY <1>4
<1> QED BY <1>2, <1>5

\* The places up to i.
UpTo(I, i) == {j \in I : j <= i}

\* The places up to one are counted by numbers that grow.
LEMMA Counts ==
  ASSUME NEW I \in SUBSET Nat, IsFiniteSet(I), NEW i \in Nat
  PROVE  /\ IsFiniteSet(UpTo(I, i)) /\ Cardinality(UpTo(I, i)) \in 0..Cardinality(I)
         /\ \A k \in I : i < k => Cardinality(UpTo(I, i)) < Cardinality(UpTo(I, k))
<1>1. ASSUME NEW k \in Nat
      PROVE IsFiniteSet(UpTo(I, k)) /\ Cardinality(UpTo(I, k)) \in 0..Cardinality(I)
  <2>1. UpTo(I, k) \in SUBSET I
    BY DEF UpTo
  <2>2. IsFiniteSet(UpTo(I, k)) /\ Cardinality(UpTo(I, k)) <= Cardinality(I)
    BY <2>1, FS_Subset
  <2> QED BY <2>2, FS_CardinalityType
<1>2. ASSUME NEW k \in I, i < k
      PROVE  Cardinality(UpTo(I, i)) < Cardinality(UpTo(I, k))
  <2>0. \A j \in I : j \in Nat
    OBVIOUS
  <2>1. UpTo(I, i) \in SUBSET UpTo(I, k) /\ k \in UpTo(I, k) /\ k \notin UpTo(I, i)
    <3>1. \A j \in I : j <= i => j <= k
      BY <1>2, <2>0
    <3>2. k <= k /\ ~(k <= i)
      BY <1>2, <2>0
    <3> QED BY <3>1, <3>2 DEF UpTo
  <2>2. /\ Cardinality(UpTo(I, i)) <= Cardinality(UpTo(I, k))
        /\ Cardinality(UpTo(I, k)) # Cardinality(UpTo(I, i))
    BY <1>1, <2>0, <2>1, FS_Subset
  <2> QED BY <1>1, <2>0, <2>2
<1> QED BY <1>1, <1>2

\* Nth counts the places: the place of every number is one of them ...
LEMMA NthIsThere ==
  ASSUME NEW I \in SUBSET Nat, IsFiniteSet(I), NEW n \in 1..Cardinality(I)
  PROVE  Nth(I, n) \in I /\ Cardinality(UpTo(I, Nth(I, n))) = n
<1>0. Cardinality(I) \in Nat
  BY FS_CardinalityType
<1>9. \A j \in I : j \in Nat
  OBVIOUS
<1> DEFINE T == {i \in Nat : Cardinality(UpTo(I, i)) >= n}
<1>1. T # {}
  <2>1. PICK b \in Nat : \A i \in I : i <= b
    BY Bounded
  <2>2. UpTo(I, b) = I
    BY <2>1 DEF UpTo
  <2>3. b \in T
    BY <2>2, <1>0
  <2> QED BY <2>3
<1>2. PICK i \in T : \A k \in T : i <= k
  BY <1>1, LeastOf
<1>3. i \in I
  <2> SUFFICES ASSUME i \notin I PROVE FALSE
    OBVIOUS
  <2>1. CASE i = 0
    <3>1. UpTo(I, i) = {}
      <4>1. \A j \in I : ~(j <= i)
        <5>1. \A j \in I : j <= 0 => j = 0
          BY <1>9
        <5> QED BY <5>1, <2>1
      <4> QED BY <4>1 DEF UpTo
    <3> QED BY <1>2, <3>1, FS_EmptySet, <1>0
  <2>2. CASE i # 0
    <3>1. i - 1 \in Nat /\ UpTo(I, i) = UpTo(I, i - 1)
      <4>1. i \in Nat /\ i - 1 \in Nat
        BY <1>2, <2>2
      <4>2. \A j \in I : j <= i <=> j <= i - 1 \/ j = i
        BY <1>9, <4>1
      <4>3. \A j \in I : j # i
        OBVIOUS
      <4>4. \A j \in I : j <= i <=> j <= i - 1
        BY <4>2, <4>3
      <4> QED BY <4>1, <4>4 DEF UpTo
    <3> QED BY <1>2, <3>1
  <2> QED BY <2>1, <2>2
<1>4. Cardinality(UpTo(I, i)) = n
  <2>0. Cardinality(UpTo(I, i)) \in Nat /\ Cardinality(UpTo(I, i)) >= n
    BY <1>2, <1>0, Counts
  <2>1. IsFiniteSet(UpTo(I, i)) /\ i \in UpTo(I, i)
    BY <1>2, <1>3, Counts DEF UpTo
  <2>2. Cardinality(UpTo(I, i) \ {i}) = Cardinality(UpTo(I, i)) - 1
    BY <2>1, FS_RemoveElement
  <2>3. CASE i = 0
    <3>1. UpTo(I, i) = {i}
      <4>1. \A j \in I : j <= 0 => j = 0
        BY <1>9
      <4> QED BY <4>1, <2>1, <2>3 DEF UpTo
    <3>2. Cardinality(UpTo(I, i)) = 1
      BY <3>1, FS_Singleton
    <3> QED BY <2>0, <3>2
  <2>4. CASE i # 0
    <3>1. i - 1 \in Nat /\ UpTo(I, i) \ {i} = UpTo(I, i - 1)
      <4>1. i \in Nat /\ i - 1 \in Nat
        BY <1>2, <2>4
      <4>2. \A j \in I : j <= i /\ j # i <=> j <= i - 1
        BY <1>9, <4>1
      <4> QED BY <4>1, <4>2 DEF UpTo
    <3>2. ~(Cardinality(UpTo(I, i - 1)) >= n)
      BY <1>2, <3>1
    <3> QED BY <2>0, <2>2, <3>1, <3>2, SMTT(30)
  <2> QED BY <2>3, <2>4
<1> QED BY <1>3, <1>4 DEF Nth, UpTo

\* ... and the number of a place leads to it.
LEMMA NthIsPlace ==
  ASSUME NEW I \in SUBSET Nat, IsFiniteSet(I), NEW i \in I
  PROVE  Cardinality(UpTo(I, i)) \in 1..Cardinality(I) /\ Nth(I, Cardinality(UpTo(I, i))) = i
<1>0. Cardinality(I) \in Nat
  BY FS_CardinalityType
<1>1. IsFiniteSet(UpTo(I, i)) /\ i \in UpTo(I, i)
  BY Counts DEF UpTo
<1>4. i \in Nat /\ i <= i /\ \A k \in I : k \in Nat
  OBVIOUS
<1>2. Cardinality(UpTo(I, i)) # 0
  BY <1>1, FS_EmptySet
<1>3. ASSUME NEW k \in I, Cardinality(UpTo(I, k)) = Cardinality(UpTo(I, i)) PROVE k = i
  <2>1. /\ Cardinality(UpTo(I, k)) \in Nat /\ Cardinality(UpTo(I, i)) \in Nat
        /\ i < k => Cardinality(UpTo(I, i)) < Cardinality(UpTo(I, k))
        /\ k < i => Cardinality(UpTo(I, k)) < Cardinality(UpTo(I, i))
    BY Counts, <1>0, <1>4
  <2> QED BY <2>1, <1>3
<1>5. Cardinality(UpTo(I, i)) \in 1..Cardinality(I)
  BY <1>0, <1>2, <1>4, Counts
<1> QED BY <1>3, <1>5 DEF Nth, UpTo

\* What is picked from a sequence is in it.
LEMMA PickedFrom ==
  ASSUME NEW S, NEW s \in Seq(S), NEW I \in SUBSET DOMAIN s
  PROVE  /\ Picked(s, I) \in Seq({s[i] : i \in I})
         /\ Picked(s, I) \in Seq(S)
         /\ IsFiniteSet(I) /\ I \in SUBSET Nat /\ Len(Picked(s, I)) = Cardinality(I)
<1>1. Len(s) \in Nat /\ DOMAIN s = 1..Len(s)
  OBVIOUS
<1>2. IsFiniteSet(DOMAIN s)
  BY <1>1, FS_Interval
<1>3. IsFiniteSet(I) /\ I \in SUBSET Nat
  BY <1>1, <1>2, FS_Subset
<1>4. Cardinality(I) \in Nat
  BY <1>3, FS_CardinalityType
<1>5. \A n \in 1..Cardinality(I) : Nth(I, n) \in I
  BY <1>3, NthIsThere
<1>6. Picked(s, I) \in [1..Cardinality(I) -> {s[i] : i \in I}]
  BY <1>5 DEF Picked
<1>7. Picked(s, I) \in [1..Cardinality(I) -> S]
  BY <1>5 DEF Picked
<1>8. Len(Picked(s, I)) = Cardinality(I)
  BY <1>4, <1>6
<1>9. Picked(s, I) \in Seq(S) /\ Picked(s, I) \in Seq({s[i] : i \in I})
  BY <1>4, <1>6, <1>7
<1> QED BY <1>3, <1>8, <1>9

\* The places of what is asked and not yet answered.
MissesOf(want, got) == {i \in DOMAIN want : want[i] \notin DOMAIN got}

\* Every chunk takes its cached score, or the fresh one that is its own.
LEMMA Merged ==
  ASSUME NEW S, NEW want \in Seq(S), NEW got, NEW fresh,
         DOMAIN fresh = DOMAIN Picked(want, MissesOf(want, got)),
         NEW k \in ToSet(want), k \notin DOMAIN got
  PROVE  \E n \in DOMAIN fresh :
           MergeScores(want, got, fresh)[k] = fresh[n] /\ Picked(want, MissesOf(want, got))[n] = k
<1> USE DEF MissesOf
<1> DEFINE I  == MissesOf(want, got)
           i0 == CHOOSE i \in DOMAIN want : want[i] = k
           n == Cardinality({j \in 1..i0 : want[j] \notin DOMAIN got})
<1>1. i0 \in DOMAIN want /\ want[i0] = k
  BY DEF ToSet
<1>2. i0 \in I /\ I \in SUBSET DOMAIN want
  BY <1>1
<1>3. DOMAIN want = 1..Len(want) /\ Len(want) \in Nat
  OBVIOUS
<1>4. {j \in 1..i0 : want[j] \notin DOMAIN got} = UpTo(I, i0)
  <2>1. \A j : j \in 1..i0 <=> j \in DOMAIN want /\ j <= i0
    BY <1>1, <1>3
  <2> HIDE DEF i0
  <2> QED BY <2>1 DEF UpTo
<1>5. IsFiniteSet(I) /\ I \in SUBSET Nat
  BY <1>2, PickedFrom
<1> HIDE DEF I, i0
<1>6. n \in 1..Cardinality(I) /\ Nth(I, n) = i0
  BY <1>2, <1>4, <1>5, NthIsPlace
<1> HIDE DEF n
<1>7. n \in DOMAIN Picked(want, I) /\ Picked(want, I)[n] = k
  BY <1>1, <1>6 DEF Picked
<1>8. MergeScores(want, got, fresh)[k] = fresh[n]
  BY DEF MergeScores, i0, n
<1> HIDE DEF MissesOf
<1> QED BY <1>7, <1>8 DEF I

ModelOf(k) == IF k = Expansion THEN "generate" ELSE "rerank"
Busy       == {"lookup", "call", "judge", "store"}

\* What a row and a score may say.
TrueRow ==
  {r \in Row :
     r.of = r.key /\ (r.by = r.model \/ ModelOf(r.key) \in swapped)}

Says(m, k, g) ==
  /\ g.of = k /\ g.by \in Version \cup {NaN}
  /\ g.by = NaN \/ m \in swapped \/ g.by = weights[m].ver

\* A hook at work asks for what its model is for, has an identity that was
\* that of the weights, and scores of what it asked for.
HookTyped(h) ==
  /\ h.pc \in Busy \cup {"off", "idle", "done"}
  /\ h.want \in Seq(Key) /\ h.id \in Version \cup {NotRead}
  /\ h.res \in {"none", "ok", "expired", "error"}

HookTrue(h) ==
  /\ HookTyped(h)
  /\ h.pc \in Busy =>
    /\ h.model \in Model
    /\ \A k \in ToSet(h.want) : ModelOf(k) = h.model
    /\ h.id = NotRead \/ h.model \in swapped \/ h.id = weights[h.model].ver
    /\ DOMAIN h.got \subseteq ToSet(h.want)
    /\ \A k \in DOMAIN h.got : Says(h.model, k, h.got[k])
    /\ h.pc \in {"judge", "store"} /\ h.res = "ok" => DOMAIN h.got = ToSet(h.want)

RowsTrue == rows \in [Files -> Seq(TrueRow)]

\* Whoever uses a model has the weights there are, or they were replaced
\* under it.
WeightsTrue ==
  /\ trouble \in Nat /\ cur \in Nat \ {0} /\ cur + trouble <= 1 + Trouble
  /\ conn \in [Proc -> Files \cup {Off}]
  /\ weights \in [Model -> [ver : Version, there : BOOLEAN]]
  /\ \A m \in Model : weights[m].ver + trouble <= 1 + Trouble
  /\ loaded \in [Proc -> [Model -> Version \cup {0}]] /\ swapped \subseteq Model
  /\ \A p \in Proc, m \in Model :
       loaded[p][m] # 0 => m \in swapped \/ loaded[p][m] = weights[m].ver

CacheInv ==
  /\ WeightsTrue /\ RowsTrue
  /\ \A p \in Proc : HookTrue(hook[p])

\* The invariant is what the property needs.
LEMMA CacheHolds == CacheInv => CacheTellsTheTruth
<1> SUFFICES ASSUME CacheInv, NEW f \in Files, NEW i \in DOMAIN rows[f]
             PROVE  LET r == rows[f][i]
                        m == IF r.key = Expansion THEN "generate" ELSE "rerank"
                    IN  r.of = r.key /\ (r.by = r.model \/ m \in swapped)
  BY DEF CacheTellsTheTruth
<1>1. rows[f] \in Seq(TrueRow)
  BY DEF CacheInv, RowsTrue
<1>2. rows[f][i] \in TrueRow
  BY <1>1
<1> QED BY <1>2 DEF TrueRow, ModelOf

\* The cache starts with rows that are true, nothing loaded and no hook at work.
LEMMA CacheStart == Init => CacheInv
<1> SUFFICES ASSUME Init PROVE CacheInv
  OBVIOUS
<1>1. PICK w \in Worlds : CacheInit(IF w.peer THEN Proc ELSE {Self}, w.left)
  BY DEF Init
<1>2. /\ rows = [f \in Files |-> IF f = 1 THEN w.left ELSE <<>>] /\ cur = 1
      /\ conn = [p \in Proc |-> Off]
      /\ weights = [m \in Model |-> [ver |-> 1, there |-> TRUE]]
      /\ loaded = [p \in Proc |-> [m \in Model |-> 0]]
      /\ hook = [p \in Proc |-> IF p \in (IF w.peer THEN Proc ELSE {Self}) THEN Idle
                                ELSE [Idle EXCEPT !.pc = "off"]]
      /\ swapped = {} /\ trouble = Trouble
  BY <1>1 DEF CacheInit
<1>3. w.left \in Seq(TrueRow)
  <2> DEFINE R == [key : Key, model : Version, of : Key, by : Version]
  <2>1. w.left \in Seq(R) /\ \A r \in ToSet(w.left) : r.of = r.key /\ r.by = r.model
    BY LeftType
  <2>3. \A i \in 1..Len(w.left) : w.left[i] \in TrueRow
    <3> SUFFICES ASSUME NEW i \in 1..Len(w.left) PROVE w.left[i] \in TrueRow
      OBVIOUS
    <3> HIDE DEF R
    <3>0. DOMAIN w.left = 1..Len(w.left) /\ w.left[i] \in R
      BY <2>1
    <3>1. w.left[i] \in R /\ w.left[i] \in ToSet(w.left)
      BY <3>0 DEF ToSet
    <3> USE DEF R
    <3> QED BY <2>1, <3>1 DEF TrueRow, Row
  <2>4. Len(w.left) \in Nat /\ w.left = [i \in 1..Len(w.left) |-> w.left[i]]
    BY <2>1
  <2> QED BY <2>3, <2>4
<1>4. RowsTrue
  <2>1. <<>> \in Seq(TrueRow)
    OBVIOUS
  <2> QED BY <1>2, <1>3, <2>1 DEF RowsTrue
<1>5. WeightsTrue
  <2>1. Trouble \in Nat /\ 1 \in Version /\ 1 + Trouble <= 1 + Trouble
    BY CacheAssumptions DEF Version
  <2>2. /\ weights \in [Model -> [ver : Version, there : BOOLEAN]]
        /\ \A m \in Model : weights[m].ver = 1
    BY <1>2, <2>1
  <2> QED BY <1>2, <2>1, <2>2 DEF WeightsTrue
<1>6. \A p \in Proc : HookTrue(hook[p])
  <2>1. HookTyped(Idle) /\ HookTyped([Idle EXCEPT !.pc = "off"])
    BY DEF HookTyped, Idle, Busy, NotRead
  <2>2. Idle.pc \notin Busy /\ [Idle EXCEPT !.pc = "off"].pc \notin Busy
    BY DEF Busy, Idle
  <2>3. \A p \in Proc : hook[p] \in {Idle, [Idle EXCEPT !.pc = "off"]}
    BY <1>2
  <2> QED BY <2>1, <2>2, <2>3 DEF HookTrue
<1> QED BY <1>4, <1>5, <1>6 DEF CacheInv

\* A step that leaves the weights, and what the hooks say, as they are.
LEMMA HooksFrame ==
  ASSUME CacheInv, UNCHANGED <<weights, swapped>>,
         \A p \in Proc : HookTrue(hook'[p])
  PROVE  \A p \in Proc : HookTrue(hook[p])'
<1>1. ASSUME NEW p \in Proc PROVE HookTrue(hook[p])'
  <2> DEFINE h == hook'[p]
  <2>1. HookTrue(h)
    OBVIOUS
  <2> QED BY <2>1 DEF HookTyped, HookTrue, Says
<1> QED BY <1>1

\* Rows stay true when more weights are replaced.
LEMMA RowsFrame ==
  ASSUME CacheInv, swapped \subseteq swapped', UNCHANGED rows
  PROVE  RowsTrue'
<1>1. TrueRow \subseteq TrueRow'
  BY DEF TrueRow
<1>2. Seq(TrueRow) \subseteq Seq(TrueRow')
  <2> SUFFICES ASSUME NEW s \in Seq(TrueRow) PROVE s \in Seq(TrueRow')
    OBVIOUS
  <2>1. Len(s) \in Nat /\ s = [i \in 1..Len(s) |-> s[i]] /\ \A i \in 1..Len(s) : s[i] \in TrueRow
    OBVIOUS
  <2> HIDE DEF TrueRow
  <2> QED BY <1>1, <2>1
<1> QED BY <1>2 DEF CacheInv, RowsTrue

\* Less trouble leaves the bound on the files.
LEMMA TroubleLeft ==
  ASSUME NEW a \in Nat, NEW b \in Nat, NEW c \in Nat, NEW d \in Nat, a + b <= 1 + d, c <= b
  PROVE  a + c <= 1 + d
OBVIOUS

\* There are as many versions and files as there was trouble.
LEMMA Room ==
  ASSUME WeightsTrue
  PROVE  /\ cur \in Nat \ {0} /\ trouble \in Nat /\ Trouble \in Nat /\ cur + trouble <= 1 + Trouble
         /\ \A m \in Model : weights[m].ver \in Nat \ {0} /\ weights[m].ver + trouble <= 1 + Trouble
<1>1. Trouble \in Nat /\ Version \in SUBSET (Nat \ {0})
  BY CacheAssumptions DEF Version
<1> QED BY <1>1 DEF WeightsTrue

\* Less trouble leaves them.
LEMMA LessTrouble ==
  ASSUME WeightsTrue, trouble' \in Nat, trouble' <= trouble
  PROVE  /\ cur + trouble' <= 1 + Trouble
         /\ \A m \in Model : weights[m].ver + trouble' <= 1 + Trouble
<1>1. cur + trouble' <= 1 + Trouble
  BY Room, TroubleLeft
<1>2. ASSUME NEW m \in Model PROVE weights[m].ver + trouble' <= 1 + Trouble
  <2>1. PICK n : n = weights[m].ver
    OBVIOUS
  <2>2. n \in Nat /\ n + trouble <= 1 + Trouble
    BY <2>1, Room
  <2>3. n + trouble' <= 1 + Trouble
    BY <2>2, Room, TroubleLeft
  <2> QED BY <2>1, <2>3
<1> QED BY <1>1, <1>2

\* A step that leaves the weights and what was loaded as they are.
LEMMA WeightsFrame ==
  ASSUME CacheInv, UNCHANGED <<weights, swapped, loaded, cur>>,
         trouble' \in Nat, trouble' <= trouble, conn' \in [Proc -> Files \cup {Off}]
  PROVE  WeightsTrue'
<1>1. cur + trouble' <= 1 + Trouble /\ \A m \in Model : weights[m].ver + trouble' <= 1 + Trouble
  BY LessTrouble DEF CacheInv
<1> QED BY <1>1 DEF CacheInv, WeightsTrue

\* What the cache returns is a score of its key, by the weights the identity
\* is that of.
LEMMA HitSays ==
  ASSUME CacheInv, NEW p \in Proc, conn[p] # Off, NEW m \in Model, NEW k \in Key, ModelOf(k) = m,
         model_identity(m) # NotRead, Hits(p, k, model_identity(m)) # {}
  PROVE  LET r == CHOOSE r \in Hits(p, k, model_identity(m)) : TRUE
         IN  Says(m, k, [of |-> r.of, by |-> r.by])
<1> DEFINE r == CHOOSE r \in Hits(p, k, model_identity(m)) : TRUE
<1>1. r \in Hits(p, k, model_identity(m))
  OBVIOUS
<1> HIDE DEF r
<1>2. rows[conn[p]] \in Seq(TrueRow)
  BY DEF CacheInv, WeightsTrue, RowsTrue
<1>3. r \in ToSet(rows[conn[p]]) /\ r.key = k /\ r.model = model_identity(m)
  BY <1>1 DEF Hits
<1>4. r \in TrueRow
  BY <1>2, <1>3 DEF ToSet
<1>5. model_identity(m) = weights[m].ver
  BY DEF model_identity
<1>6. Says(m, k, [of |-> r.of, by |-> r.by])
  BY <1>3, <1>4, <1>5 DEF TrueRow, Row, Says
<1> QED BY <1>6 DEF r

\* A lookup gives a hook its identity, and rows that are true.
LEMMA LookupKeeps ==
  ASSUME CacheInv, HookShape, NEW p \in Proc, Lookup(p)
  PROVE  CacheInv'
<1> DEFINE h    == hook[p]
           id   == model_identity(h.model)
           kept == [k \in {k \in ToSet(h.want) : Hits(p, k, id) # {}} |->
                      LET r == CHOOSE r \in Hits(p, k, id) : TRUE IN [of |-> r.of, by |-> r.by]]
           Found(got) == [h EXCEPT !.id = id, !.got = got,
                            !.pc = IF DOMAIN got # ToSet(h.want) THEN "call"
                                   ELSE IF h.model = "rerank" THEN "judge" ELSE "store",
                            !.res = IF DOMAIN got = ToSet(h.want) THEN "ok" ELSE "none"]
           Missed == [h EXCEPT !.id = id, !.pc = "call"]
<1>1. HookFields(h) /\ h.pc = "lookup" /\ h.pc \in Busy
  BY DEF HookShape, Lookup, Busy
<1>2. /\ \/ hook' = [hook EXCEPT ![p] = Found(kept)] /\ conn[p] # Off /\ id # NotRead
         \/ hook' = [hook EXCEPT ![p] = Missed]
      /\ UNCHANGED <<rows, cur, weights, loaded, swapped>>
  BY Zenon DEF Lookup, CacheWorks
<1>3. conn' = conn \/ conn' = [conn EXCEPT ![p] = Off]
  BY DEF Lookup, CacheWorks, CacheIsOff, CacheBusy, cache_failed
<1>4. trouble' \in Nat /\ trouble' <= trouble
  <2>1. Goes(TRUE) \/ Goes(FALSE)
    BY DEF Lookup, CacheWorks, CacheIsOff, CacheBusy, cache_failed
  <2> QED BY <2>1 DEF Goes, CacheInv, WeightsTrue
<1>5. HookTrue(h) /\ h.model \in Model /\ h.want \in Seq(Key)
      /\ \A k \in ToSet(h.want) : k \in Key /\ ModelOf(k) = h.model
  <2>1. HookTrue(h)
    BY DEF CacheInv
  <2>2. h.want \in Seq(Key) => \A k \in ToSet(h.want) : k \in Key
    BY DEF ToSet
  <2> HIDE DEF h
  <2> QED BY <1>1, <2>1, <2>2 DEF HookTyped, HookTrue
<1>6. id \in Version \cup {NotRead} /\ (id = NotRead \/ id = weights[h.model].ver)
  BY <1>5 DEF model_identity, NotRead, CacheInv, WeightsTrue
<1>7. HookTrue(Missed)
  <2>1. /\ Missed.model = h.model /\ Missed.want = h.want /\ Missed.got = h.got
        /\ Missed.id = id /\ Missed.pc = "call" /\ Missed.res = h.res
    BY <1>1 DEF HookFields, HookField
  <2> HIDE DEF Missed, h, id
  <2> QED BY <1>1, <1>5, <1>6, <2>1 DEF HookTyped, HookTrue, Busy
<1>8. ASSUME conn[p] # Off, id # NotRead PROVE HookTrue(Found(kept))
  <2>1. DOMAIN kept \subseteq ToSet(h.want)
    OBVIOUS
  <2>2. \A k \in DOMAIN kept : Says(h.model, k, kept[k])
    <3> SUFFICES ASSUME NEW k \in DOMAIN kept PROVE Says(h.model, k, kept[k])
      OBVIOUS
    <3>1. Hits(p, k, id) # {} /\ k \in ToSet(h.want)
      OBVIOUS
    <3>2. kept[k] = LET r == CHOOSE r \in Hits(p, k, id) : TRUE IN [of |-> r.of, by |-> r.by]
      OBVIOUS
    <3> HIDE DEF kept, h
    <3> QED BY <1>5, <1>8, <3>1, <3>2, HitSays
  <2>3. \A got : LET f == Found(got) IN
          /\ f.model = h.model /\ f.want = h.want /\ f.got = got /\ f.id = id
          /\ (f.res = "ok" => DOMAIN got = ToSet(h.want))
          /\ f.res \in {"none", "ok"} /\ f.pc \in {"call", "judge", "store"}
    BY <1>1 DEF HookFields, HookField
  <2> DEFINE f == Found(kept)
  <2>4. /\ f.model = h.model /\ f.want = h.want /\ f.got = kept /\ f.id = id
        /\ (f.res = "ok" => DOMAIN kept = ToSet(h.want))
        /\ f.res \in {"none", "ok"} /\ f.pc \in {"call", "judge", "store"}
    BY <2>3
  <2> HIDE DEF f, Found, kept, h, id
  <2>5. HookTrue(f)
    BY <1>5, <1>6, <2>1, <2>2, <2>4 DEF HookTyped, HookTrue, Busy
  <2> QED BY <2>5 DEF f
<1> HIDE DEF Found, kept, Missed, h, id
<1>9. HookTrue(hook'[p]) /\ \A s \in Proc \ {p} : hook'[s] = hook[s]
  BY <1>2, <1>7, <1>8 DEF HookShape
<1>10. \A s \in Proc : HookTrue(hook'[s])
  BY <1>9 DEF CacheInv
<1>11. conn' \in [Proc -> Files \cup {Off}]
  BY <1>3 DEF CacheInv, WeightsTrue
<1> QED BY <1>2, <1>4, <1>10, <1>11, HooksFrame, RowsFrame, WeightsFrame DEF CacheInv

\* The model answers for the keys it was asked; a merge mixes up none.
LEMMA CallKeeps ==
  ASSUME CacheInv, HookShape, NEW p \in Proc, NEW late, Call(p, late)
  PROVE  CacheInv'
<1> DEFINE h      == hook[p]
           misses == Picked(h.want, {i \in DOMAIN h.want : h.want[i] \notin DOMAIN h.got})
           ver    == IF loaded[p][h.model] # 0 THEN loaded[p][h.model] ELSE model_identity(h.model)
           Said(bad) == [i \in DOMAIN misses |->
                           [of |-> misses[i], by |-> IF misses[i] \in bad THEN NaN ELSE ver]]
           Ends(res) == [h EXCEPT !.pc = IF h.model = "rerank" THEN "judge" ELSE "store", !.res = res]
           Scores(bad) == MergeScores(h.want, h.got, Said(bad))
<1>1. HookFields(h) /\ h.pc = "call" /\ h.pc \in Busy
  BY DEF HookShape, Call, Busy
<1>2. /\ h.model \in Model /\ h.want \in Seq(Key) /\ \A k \in ToSet(h.want) : ModelOf(k) = h.model
      /\ h.id \in Version \cup {NotRead} /\ (h.id = NotRead \/ h.model \in swapped \/ h.id = weights[h.model].ver)
      /\ DOMAIN h.got \subseteq ToSet(h.want)
      /\ \A k \in DOMAIN h.got : Says(h.model, k, h.got[k])
  <2>1. HookTrue(h)
    BY DEF CacheInv
  <2> HIDE DEF h
  <2> QED BY <1>1, <2>1 DEF HookTyped, HookTrue
<1>3. \/ \E bad : /\ ver # 0
                  /\ hook' = [hook EXCEPT ![p] = [Ends("ok") EXCEPT !.got = Scores(bad)]]
                  /\ loaded' = [loaded EXCEPT ![p][h.model] = ver]
      \/ /\ hook' = [hook EXCEPT ![p] = Ends("error")]
         /\ loaded' = [loaded EXCEPT ![p][h.model] = ver]
      \/ hook' = [hook EXCEPT ![p] = Ends("expired")] /\ UNCHANGED loaded
  BY Zenon DEF Call
<1>4. trouble' \in Nat /\ trouble' <= trouble /\ UNCHANGED <<rows, cur, conn, weights, swapped>>
  <2>1. (\E b \in BOOLEAN : Goes(b)) /\ UNCHANGED <<rows, cur, conn, weights, swapped>>
    BY DEF Call
  <2> QED BY <2>1 DEF Goes, CacheInv, WeightsTrue
<1>5. ver \in Version \cup {0} /\ (ver = 0 \/ h.model \in swapped \/ ver = weights[h.model].ver)
  BY <1>2 DEF model_identity, NotRead, CacheInv, WeightsTrue
<1>6. WeightsTrue'
  <2>0. /\ loaded \in [Proc -> [Model -> Version \cup {0}]] /\ conn' \in [Proc -> Files \cup {Off}]
        /\ \A s \in Proc, m \in Model :
             loaded[s][m] # 0 => m \in swapped \/ loaded[s][m] = weights[m].ver
    BY <1>4 DEF CacheInv, WeightsTrue
  <2>1. cur + trouble' <= 1 + Trouble /\ \A m \in Model : weights[m].ver + trouble' <= 1 + Trouble
    BY <1>4, LessTrouble DEF CacheInv
  <2>3. \/ UNCHANGED loaded
        \/ /\ loaded' \in [Proc -> [Model -> Version \cup {0}]]
           /\ \A s \in Proc, m \in Model : loaded'[s][m] = IF s = p /\ m = h.model THEN ver ELSE loaded[s][m]
    <3>1. UNCHANGED loaded \/ loaded' = [loaded EXCEPT ![p][h.model] = ver]
      BY <1>3
    <3> HIDE DEF ver, h
    <3>2. CASE loaded' = [loaded EXCEPT ![p][h.model] = ver]
      <4>1. h.model \in Model /\ ver \in Version \cup {0} /\ loaded \in [Proc -> [Model -> Version \cup {0}]]
        BY <1>2, <1>5, <2>0
      <4>2. PICK row : row = [loaded[p] EXCEPT ![h.model] = ver]
        OBVIOUS
      <4>3. row \in [Model -> Version \cup {0}] /\ \A m \in Model : row[m] = IF m = h.model THEN ver ELSE loaded[p][m]
        BY <4>1, <4>2
      <4>4. loaded' = [loaded EXCEPT ![p] = row]
        BY <3>2, <4>2
      <4>5. loaded' \in [Proc -> [Model -> Version \cup {0}]] /\ \A s \in Proc : loaded'[s] = IF s = p THEN row ELSE loaded[s]
        BY <4>1, <4>3, <4>4
      <4> QED BY <4>3, <4>5
    <3> QED BY <3>1, <3>2
  <2> HIDE DEF ver, h
  <2>2. /\ loaded' \in [Proc -> [Model -> Version \cup {0}]]
        /\ \A s \in Proc, m \in Model :
             loaded'[s][m] # 0 => m \in swapped \/ loaded'[s][m] = weights[m].ver
    BY <1>5, <2>0, <2>3
  <2> QED BY <1>4, <2>0, <2>1, <2>2 DEF CacheInv, WeightsTrue
<1>7. \A res : /\ Ends(res).model = h.model /\ Ends(res).want = h.want /\ Ends(res).got = h.got
               /\ Ends(res).id = h.id /\ Ends(res).res = res /\ HookFields(Ends(res))
               /\ Ends(res).pc \in {"judge", "store"}
  BY <1>1 DEF HookFields, HookField
<1>8. ASSUME NEW res \in {"error", "expired"} PROVE HookTrue(Ends(res))
  <2> HIDE DEF Ends, h
  <2> QED BY <1>2, <1>7 DEF HookTyped, HookTrue, Busy
<1>9. ASSUME NEW bad PROVE HookTrue([Ends("ok") EXCEPT !.got = Scores(bad)])
  <2> DEFINE g == Scores(bad)
             r == [Ends("ok") EXCEPT !.got = g]
  <2>1. DOMAIN g = ToSet(h.want)
    BY DEF MergeScores
  <2>2. \A k \in DOMAIN h.got : k \in ToSet(h.want) => g[k] = h.got[k]
    BY DEF MergeScores
  <2>3. ASSUME NEW k \in ToSet(h.want), k \notin DOMAIN h.got
        PROVE  \E n \in DOMAIN misses : g[k] = Said(bad)[n] /\ misses[n] = k
    <3>1. PICK fresh : fresh = Said(bad)
      OBVIOUS
    <3>2. DOMAIN fresh = DOMAIN misses
      BY <3>1
    <3>3. g = MergeScores(h.want, h.got, fresh)
      BY <3>1
    <3> HIDE DEF Said, g
    <3>4. \E n \in DOMAIN fresh : MergeScores(h.want, h.got, fresh)[k] = fresh[n] /\ misses[n] = k
      <4>1. PICK want : want = h.want
        OBVIOUS
      <4>2. PICK got : got = h.got
        OBVIOUS
      <4>8. PICK S : S = Key
        OBVIOUS
      <4>3. want \in Seq(S) /\ k \in ToSet(want) /\ k \notin DOMAIN got
        BY <1>2, <2>3, <4>1, <4>2, <4>8
      <4>4. misses = Picked(want, MissesOf(want, got))
        BY <4>1, <4>2 DEF MissesOf
      <4> HIDE DEF misses, h
      <4>5. \E n \in DOMAIN fresh :
              MergeScores(want, got, fresh)[k] = fresh[n] /\ Picked(want, MissesOf(want, got))[n] = k
        BY <3>2, <4>3, <4>4, Merged
      <4> QED BY <4>1, <4>2, <4>4, <4>5
    <3> HIDE DEF misses
    <3> QED BY <3>1, <3>2, <3>3, <3>4
  <2>4. ASSUME NEW k \in ToSet(h.want) PROVE Says(h.model, k, g[k])
    <3>1. CASE k \in DOMAIN h.got
      <4> HIDE DEF g, h
      <4> QED BY <1>2, <2>2, <3>1
    <3>2. CASE k \notin DOMAIN h.got
      <4>1. PICK n \in DOMAIN misses : g[k] = Said(bad)[n] /\ misses[n] = k
        BY <2>3, <3>2
      <4>2. Said(bad)[n] = [of |-> misses[n], by |-> IF misses[n] \in bad THEN NaN ELSE ver]
        OBVIOUS
      <4> HIDE DEF g, h, Said, ver, misses
      <4>3. g[k].of = k /\ g[k].by \in {NaN, ver}
        BY <4>1, <4>2
      <4> QED BY <1>5, <4>3 DEF Says, NaN
    <3> QED BY <3>1, <3>2
  <2> HIDE DEF g, h, Ends
  <2>5. /\ r.model = h.model /\ r.want = h.want /\ r.got = g /\ r.id = h.id
        /\ r.res = "ok" /\ r.pc \in {"judge", "store"}
    BY <1>7 DEF HookFields, HookField
  <2> HIDE DEF r
  <2>6. HookTrue(r)
    BY <1>2, <2>1, <2>4, <2>5 DEF HookTyped, HookTrue, Busy
  <2> QED BY <2>6 DEF r, g
<1> HIDE DEF h, misses, ver, Said, Ends, Scores
<1>10. ASSUME NEW r, HookTrue(r), hook' = [hook EXCEPT ![p] = r]
       PROVE  \A s \in Proc : HookTrue(hook'[s])
  BY <1>10 DEF HookShape, CacheInv
<1>11. \A s \in Proc : HookTrue(hook'[s])
  <2>1. ASSUME NEW bad, hook' = [hook EXCEPT ![p] = [Ends("ok") EXCEPT !.got = Scores(bad)]]
        PROVE  \A s \in Proc : HookTrue(hook'[s])
    BY <1>9, <1>10, <2>1
  <2>2. ASSUME NEW res \in {"error", "expired"}, hook' = [hook EXCEPT ![p] = Ends(res)]
        PROVE  \A s \in Proc : HookTrue(hook'[s])
    BY <1>8, <1>10, <2>2
  <2> QED BY <1>3, <2>1, <2>2
<1> QED BY <1>4, <1>6, <1>11, HooksFrame, RowsFrame DEF CacheInv

\* A judgement passes on what the call gave, or ends the hook.
LEMMA JudgeKeeps ==
  ASSUME CacheInv, HookShape, NEW p \in Proc, Judge(p)
  PROVE  CacheInv'
<1> DEFINE h == hook[p]
           r == [h EXCEPT !.pc = IF Usable(h) THEN "store" ELSE "done",
                          !.res = IF Usable(h) THEN "ok"
                                  ELSE IF h.res = "expired" THEN "expired" ELSE "error"]
<1>1. HookFields(h) /\ h.pc = "judge" /\ h.pc \in Busy
  BY DEF HookShape, Judge, Busy
<1>2. hook' = [hook EXCEPT ![p] = r] /\ UNCHANGED <<rows, cur, conn, weights, loaded, swapped, trouble>>
  BY DEF Judge
<1>3. /\ r.model = h.model /\ r.want = h.want /\ r.got = h.got /\ r.id = h.id
      /\ r.pc \in Busy => Usable(h) /\ h.res = "ok"
      /\ r.pc \in {"store", "done"} /\ r.res \in {"ok", "expired", "error"}
  BY <1>1 DEF HookFields, HookField, Usable, Busy
<1>4. HookTrue(r)
  <2>1. HookTrue(h)
    BY DEF CacheInv
  <2> HIDE DEF r, h
  <2> QED BY <1>1, <1>3, <2>1 DEF HookTyped, HookTrue, Busy
<1> HIDE DEF r
<1>5. \A s \in Proc : HookTrue(hook'[s])
  BY <1>2, <1>4 DEF HookShape, CacheInv
<1>6. trouble' \in Nat /\ trouble' <= trouble /\ conn' \in [Proc -> Files \cup {Off}]
  BY <1>2 DEF CacheInv, WeightsTrue
<1> QED BY <1>2, <1>5, <1>6, HooksFrame, RowsFrame, WeightsFrame DEF CacheInv

\* What remains after an eviction was there before it.
LEMMA EvictKeeps ==
  ASSUME NEW S, NEW s \in Seq(S)
  PROVE  evict(s) \in Seq(S)
<1>1. Len(s) \in Nat /\ MaxRows \in Nat \ {0}
  BY CacheAssumptions
<1>2. CASE Len(s) > MaxRows
  <2>1. Len(s) - MaxRows + 1 \in 1..Len(s)
    BY <1>1, <1>2
  <2>2. SubSeq(s, Len(s) - MaxRows + 1, Len(s)) \in Seq(S)
    BY <1>1, <2>1
  <2> QED BY <1>2, <2>2 DEF evict
<1>3. CASE ~(Len(s) > MaxRows)
  BY <1>3 DEF evict
<1> QED BY <1>2, <1>3

\* The rows that are put are true when the identity is that of the weights.
LEMMA PutTrue ==
  ASSUME CacheInv, NEW p \in Proc, conn[p] # Off, NEW id \in Version,
         NEW h, h = hook[p], h.pc = "store", h.res = "ok", HookTrue(h),
         h.model \in swapped \/ id = weights[h.model].ver,
         Put(p, id, h.got)
  PROVE  rows' \in [Files -> Seq(TrueRow)]
<1> DEFINE I    == {i \in DOMAIN h.want : h.got[h.want[i]].by # NaN}
           old  == rows[conn[p]]
           real == Finite(h.want, h.got)
           new  == [i \in DOMAIN real |-> [key |-> real[i], model |-> id,
                                           of |-> h.got[real[i]].of, by |-> h.got[real[i]].by]]
           J    == {i \in DOMAIN old : old[i].key \notin ToSet(real)}
           kept == Picked(old, J)
<1>1. /\ h.want \in Seq(Key) /\ \A k \in ToSet(h.want) : ModelOf(k) = h.model
      /\ DOMAIN h.got = ToSet(h.want)
      /\ \A k \in ToSet(h.want) : Says(h.model, k, h.got[k])
  BY DEF HookTyped, HookTrue, Busy
<1>2. rows' = [rows EXCEPT ![conn[p]] = evict(kept \o new)]
  BY DEF Put
<1>3. rows \in [Files -> Seq(TrueRow)] /\ old \in Seq(TrueRow)
  BY DEF CacheInv, RowsTrue, WeightsTrue
<1>4. kept \in Seq(TrueRow)
  <2>1. J \in SUBSET DOMAIN old
    OBVIOUS
  <2> HIDE DEF J, old
  <2> QED BY <1>3, <2>1, PickedFrom
<1>5. real \in Seq({h.want[i] : i \in I})
  <2>1. I \in SUBSET DOMAIN h.want /\ real = Picked(h.want, I)
    BY DEF Finite
  <2>2. PICK want : want = h.want
    OBVIOUS
  <2> HIDE DEF I, real
  <2>3. Picked(want, I) \in Seq({want[i] : i \in I})
    BY <1>1, <2>1, <2>2, PickedFrom
  <2> QED BY <2>1, <2>2, <2>3
<1>6. ASSUME NEW i \in DOMAIN real PROVE new[i] \in TrueRow
  <2>1. real[i] \in {h.want[n] : n \in I}
    BY <1>5
  <2>2. PICK n \in I : real[i] = h.want[n]
    BY <2>1
  <2> DEFINE k == real[i]
  <2>3. k \in ToSet(h.want) /\ k \in Key /\ h.got[k].by # NaN
    BY <1>1, <2>2 DEF ToSet
  <2>4. new[i] = [key |-> k, model |-> id, of |-> h.got[k].of, by |-> h.got[k].by]
    OBVIOUS
  <2> HIDE DEF new, real, I, k
  <2>5. h.got[k].of = k /\ h.got[k].by \in Version
        /\ (h.model \in swapped \/ h.got[k].by = id) /\ ModelOf(k) = h.model
    BY <1>1, <2>3 DEF Says
  <2> QED BY <2>3, <2>4, <2>5 DEF TrueRow, Row
<1>7. new \in Seq(TrueRow)
  <2>1. Len(real) \in Nat /\ DOMAIN real = 1..Len(real)
    BY <1>5
  <2>2. new \in [1..Len(real) -> TrueRow]
    <3>1. DOMAIN new = 1..Len(real) /\ new = [i \in 1..Len(real) |-> new[i]]
      BY <2>1
    <3> HIDE DEF new, real
    <3> QED BY <1>6, <2>1, <3>1
  <2> HIDE DEF new
  <2> QED BY <2>1, <2>2
<1> HIDE DEF kept, new, TrueRow
<1>8. evict(kept \o new) \in Seq(TrueRow)
  <2>1. kept \o new \in Seq(TrueRow)
    BY <1>4, <1>7
  <2> QED BY <2>1, EvictKeeps
<1> QED BY <1>2, <1>3, <1>8

\* A store puts true rows, or none.
LEMMA StoreKeeps ==
  ASSUME CacheInv, HookShape, NEW p \in Proc, Store(p)
  PROVE  CacheInv'
<1> DEFINE h  == hook[p]
           id == StoreId(h)
           r  == [h EXCEPT !.pc = "done"]
<1>1. HookFields(h) /\ h.pc = "store" /\ h.pc \in Busy /\ HookTrue(h)
  BY DEF HookShape, Store, Busy, CacheInv
<1>2. hook' = [hook EXCEPT ![p] = r] /\ UNCHANGED <<cur, weights, loaded, swapped>>
  BY DEF Store
<1>3. r.pc = "done" /\ r.want = h.want /\ r.id = h.id /\ r.res = h.res
  BY <1>1 DEF HookFields, HookField
<1>4. \A s \in Proc : HookTrue(hook'[s])
  <2>1. HookTrue(r)
    <3> HIDE DEF r, h
    <3> QED BY <1>1, <1>3 DEF HookTyped, HookTrue, Busy
  <2> HIDE DEF r
  <2> QED BY <1>2, <2>1 DEF HookShape, CacheInv
<1>5. \/ UNCHANGED <<rows, conn, trouble>>
      \/ /\ h.res = "ok" /\ id # NotRead /\ conn[p] # Off
         /\ CacheWorks(p) /\ Put(p, id, h.got)
      \/ (CacheBusy(p) \/ cache_failed(p)) /\ UNCHANGED rows
  BY DEF Store
<1>6. /\ trouble' \in Nat /\ trouble' <= trouble
      /\ conn' = conn \/ conn' = [conn EXCEPT ![p] = Off]
  <2>1. UNCHANGED trouble \/ Goes(TRUE) \/ Goes(FALSE)
    BY <1>5 DEF CacheWorks, CacheBusy, cache_failed
  <2>2. conn' = conn \/ conn' = [conn EXCEPT ![p] = Off]
    BY <1>5 DEF CacheWorks, CacheBusy, cache_failed
  <2> QED BY <2>1, <2>2 DEF Goes, CacheInv, WeightsTrue
<1>7. conn' \in [Proc -> Files \cup {Off}]
  BY <1>6 DEF CacheInv, WeightsTrue
<1>8. WeightsTrue'
  BY <1>2, <1>6, <1>7, WeightsFrame
<1>9. RowsTrue'
  <2>1. CASE UNCHANGED rows
    BY <1>2, <2>1, RowsFrame
  <2>2. CASE h.res = "ok" /\ id # NotRead /\ conn[p] # Off /\ CacheWorks(p) /\ Put(p, id, h.got)
    <3>1. h.model \in Model /\ (h.id = NotRead \/ h.model \in swapped \/ h.id = weights[h.model].ver)
          /\ h.id \in Version \cup {NotRead}
      <4> HIDE DEF h
      <4> QED BY <1>1 DEF HookTyped, HookTrue
    <3>2. id \in Version /\ (h.model \in swapped \/ id = weights[h.model].ver)
      <4>1. weights[h.model] \in [ver : Version, there : BOOLEAN]
        BY <3>1 DEF CacheInv, WeightsTrue
      <4> QED BY <2>2, <3>1, <4>1 DEF StoreId, model_identity, NotRead
    <3>3. PICK g : g = h
      OBVIOUS
    <3>4. PICK n : n = id
      OBVIOUS
    <3> HIDE DEF id, h
    <3>5. rows' \in [Files -> Seq(TrueRow)]
      BY <1>1, <2>2, <3>2, <3>3, <3>4, PutTrue DEF h
    <3>6. TrueRow' = TrueRow
      BY <1>2 DEF TrueRow
    <3> QED BY <3>5, <3>6 DEF RowsTrue
  <2> QED BY <1>5, <2>1, <2>2
<1> QED BY <1>2, <1>4, <1>8, <1>9, HooksFrame DEF CacheInv

\* A hook that is entered asks for what its model is for; one that is left
\* asks for nothing.
LEMMA EnterKeeps ==
  ASSUME CacheInv, HookShape, NEW p \in Proc, NEW m \in Model, NEW want \in Seq(Key),
         \A k \in ToSet(want) : ModelOf(k) = m,
         Enter(p, m, want) \/ Leave(p),
         UNCHANGED <<rows, cur, weights, loaded, swapped, trouble>>,
         conn' \in [Proc -> Files \cup {Off}]
  PROVE  CacheInv'
<1> DEFINE e == [Idle EXCEPT !.pc = "lookup", !.model = m, !.want = want]
<1>1. hook' = [hook EXCEPT ![p] = e] \/ hook' = [hook EXCEPT ![p] = Idle]
  BY DEF Enter, Leave
<1>2. HookTrue(Idle)
  BY DEF HookTyped, HookTrue, Idle, Busy
<1>3. HookTrue(e)
  <2>1. /\ e.pc = "lookup" /\ e.model = m /\ e.want = want /\ e.id = NotRead /\ e.got = <<>>
        /\ e.res = "none"
    BY DEF Idle
  <2>2. DOMAIN <<>> = {}
    OBVIOUS
  <2> HIDE DEF e
  <2> QED BY <2>1, <2>2 DEF HookTyped, HookTrue, NotRead, Busy
<1> HIDE DEF e
<1>4. \A s \in Proc : HookTrue(hook'[s])
  BY <1>1, <1>2, <1>3 DEF HookShape, CacheInv
<1>5. trouble' \in Nat /\ trouble' <= trouble
  BY DEF CacheInv, WeightsTrue
<1> QED BY <1>4, <1>5, HooksFrame, RowsFrame, WeightsFrame DEF CacheInv

\* Weights that are replaced while somebody uses them are noted.
LEMMA ReplaceKeeps ==
  ASSUME CacheInv, HookShape, NEW m \in Model, Replace(m)
  PROVE  CacheInv'
<1>1. /\ swapped' = IF \E p \in Proc : AtWork(p) THEN swapped \cup {m} ELSE swapped
      /\ UNCHANGED <<rows, cur, conn, loaded, hook>>
      /\ trouble > 0 /\ trouble' = trouble - 1
      /\ weights' = [weights EXCEPT ![m].there = FALSE]
         \/ weights' = [weights EXCEPT ![m] = [ver |-> weights[m].ver + 1, there |-> TRUE]]
  BY DEF Replace, Goes
<1>8. trouble \in Nat /\ trouble' \in Nat /\ trouble' <= trouble
  BY <1>1 DEF CacheInv, WeightsTrue
<1>2. weights \in [Model -> [ver : Version, there : BOOLEAN]]
  BY DEF CacheInv, WeightsTrue
<1>3. weights' \in [Model -> [ver : Version, there : BOOLEAN]]
      /\ \A n \in Model : n # m => weights'[n] = weights[n]
  <2>1. CASE weights' = [weights EXCEPT ![m].there = FALSE]
    BY <1>2, <2>1
  <2>2. CASE weights' = [weights EXCEPT ![m] = [ver |-> weights[m].ver + 1, there |-> TRUE]]
    <3>1. [ver |-> weights[m].ver + 1, there |-> TRUE] \in [ver : Version, there : BOOLEAN]
      <4>1. weights[m].ver + 1 \in Version
        BY <1>1, <1>8, Room DEF CacheInv, Version
      <4> QED BY <4>1
    <3> QED BY <1>2, <2>2, <3>1
  <2> QED BY <1>1, <2>1, <2>2
<1>4. ASSUME NEW p \in Proc, AtWork(p) PROVE m \in swapped'
  BY <1>1, <1>4
<1>5. swapped \subseteq swapped' /\ swapped' \subseteq Model
  BY <1>1 DEF CacheInv, WeightsTrue
<1>6. \A p \in Proc : HookTrue(hook[p])'
  <2> SUFFICES ASSUME NEW p \in Proc, hook[p].pc \in Busy PROVE HookTrue(hook[p])'
    BY <1>1 DEF HookTyped, HookTrue, CacheInv
  <2>1. HookTrue(hook[p])
    BY DEF CacheInv
  <2>2. m \in swapped'
    BY <1>4 DEF AtWork, Busy
  <2>3. \A n \in Model : n \in swapped' \/ (weights'[n] = weights[n] /\ n # m)
    BY <1>3, <2>2
  <2> QED BY <1>1, <1>5, <2>1, <2>3 DEF HookTyped, HookTrue, Says
<1>7. ASSUME NEW p \in Proc, NEW n \in Model, loaded[p][n] # 0
      PROVE  n \in swapped' \/ loaded[p][n] = weights'[n].ver
  <2>1. n \in swapped \/ loaded[p][n] = weights[n].ver
    BY <1>7 DEF CacheInv, WeightsTrue
  <2>2. AtWork(p)
    BY <1>7 DEF AtWork
  <2> QED BY <1>3, <1>4, <1>5, <2>1, <2>2
<1>9. \A n \in Model : weights'[n].ver + trouble' <= 1 + Trouble
  <2> SUFFICES ASSUME NEW n \in Model PROVE weights'[n].ver + trouble' <= 1 + Trouble
    OBVIOUS
  <2>1. \/ weights'[n].ver = weights[n].ver
        \/ weights'[n].ver = weights[n].ver + 1
    BY <1>1, <1>2
  <2>2. weights[n].ver \in Nat /\ weights[n].ver + trouble <= 1 + Trouble /\ trouble \in Nat /\ Trouble \in Nat
    BY Room DEF CacheInv
  <2> QED BY <1>1, <2>1, <2>2
<1>10. WeightsTrue'
  <2>1. cur \in Nat \ {0} /\ trouble' \in Nat /\ cur + trouble' <= 1 + Trouble
    BY <1>8, LessTrouble DEF CacheInv, WeightsTrue
  <2> QED BY <1>1, <1>3, <1>5, <1>7, <1>9, <2>1 DEF CacheInv, WeightsTrue
<1> QED BY <1>1, <1>5, <1>6, <1>10, RowsFrame DEF CacheInv

\* A cleared cache is a new file; there are as many as there is trouble.
LEMMA ClearKeeps ==
  ASSUME CacheInv, clear_at
  PROVE  CacheInv'
<1>1. /\ UNCHANGED <<rows, conn, weights, loaded, hook, swapped>>
      /\ cur' = cur + 1 /\ trouble > 0 /\ trouble' = trouble - 1
  BY DEF clear_at, Goes
<1>2. trouble \in Nat /\ cur \in Nat \ {0} /\ Trouble \in Nat /\ cur + trouble <= 1 + Trouble
  BY CacheAssumptions DEF CacheInv, WeightsTrue
<1>3. trouble' \in Nat /\ cur' \in Nat \ {0} /\ cur' + trouble' <= 1 + Trouble
  BY <1>1, <1>2
<1>4. WeightsTrue'
  <2>1. \A m \in Model : weights[m].ver + trouble' <= 1 + Trouble
    BY <1>1, <1>2, <1>3, LessTrouble DEF CacheInv
  <2> QED BY <1>1, <1>3, <2>1 DEF CacheInv, WeightsTrue
<1>5. RowsTrue'
  BY <1>1, RowsFrame
<1>6. \A p \in Proc : HookTrue(hook'[p])
  BY <1>1 DEF CacheInv
<1> QED BY <1>1, <1>4, <1>5, <1>6, HooksFrame DEF CacheInv

\* Only what is still there is resolved.
DocsInv == active \subseteq Doc /\ q.docs \in Seq(Doc)

\* Nothing is resolved at first.
LEMMA DocsStart == Init => DocsInv
<1> SUFFICES ASSUME Init PROVE DocsInv
  OBVIOUS
<1>1. PICK w \in Worlds : q = [NoQuery EXCEPT !.mode = w.mode, !.asked = w.asked, !.strict = w.strict]
  BY DEF Init
<1>2. q.docs = <<>> /\ <<>> \in Seq(Doc) /\ active = Doc
  BY <1>1 DEF NoQuery, Init
<1> QED BY <1>2 DEF DocsInv

\* Only Resolve adds a document, one that is active.
LEMMA DocsStep == QueryShape /\ DocsInv /\ [Next]_vars => DocsInv'
<1> SUFFICES ASSUME QueryShape, DocsInv, [Next]_vars PROVE DocsInv'
  OBVIOUS
<1> USE DEF QueryField
<1>1. active' \subseteq active
  BY DEF Next, Start, Step, Scope, SearchLeg, LegsDone, Expand, Expanded, Fuse, Resolve, Resolved,
         SelfHook, Reranked, assemble_results, PeerEnters, PeerHook, DeadlinePasses, Deactivate,
         SetIncluded, qVars, vars
<1>2. CASE Resolve
  <2>1. /\ q.cands # <<>>
        /\ q'.docs = IF Head(q.cands) \in active THEN Append(q.docs, Head(q.cands)) ELSE q.docs
    BY <1>2 DEF Resolve, QueryShape
  <2>2. \A d \in Doc : Append(q.docs, d) \in Seq(Doc)
    BY DEF DocsInv
  <2>3. q'.docs \in Seq(Doc)
    BY <2>1, <2>2 DEF DocsInv
  <2> QED BY <1>1, <2>3 DEF DocsInv
<1>3. CASE q'.docs = q.docs
  BY <1>1, <1>3 DEF DocsInv
<1>4. ASSUME NEW f, q' = [q EXCEPT !.pc = "off", !.end = f] PROVE q'.docs = q.docs
  BY <1>4 DEF QueryShape
<1>5. ASSUME NEW res, Answer(res) PROVE q'.docs = q.docs
  BY <1>5 DEF Answer, QueryShape
<1>6. ASSUME Start \/ Scope \/ LegsDone PROVE q'.docs = q.docs
  BY <1>5, <1>6 DEF Start, Scope, LegsDone, QueryShape
<1>7. ASSUME SearchLeg PROVE q'.docs = q.docs
  <2>1. (\E how : Fail(how)) \/ \E l, ls, s : q' = [q EXCEPT !.legs = l, !.lists = ls, !.seen = s]
    BY <1>7, Zenon DEF SearchLeg
  <2> QED BY <2>1, <1>4 DEF Fail, QueryShape
<1>8. ASSUME Expand \/ Expanded \/ Reranked PROVE q'.docs = q.docs
  BY <1>4, <1>8 DEF Expand, Expanded, Reranked, AfterExpansion, Fail, QueryShape
<1>9. ASSUME Fuse \/ Resolved \/ assemble_results PROVE q'.docs = q.docs
  BY <1>4, <1>5, <1>9 DEF Fuse, Resolved, assemble_results, Fail, QueryShape
<1>10. ASSUME SelfHook \/ PeerHook \/ DeadlinePasses PROVE q'.docs = q.docs
  BY <1>10 DEF SelfHook, PeerHook, DeadlinePasses, qVars, QueryShape
<1>11. \/ Start \/ Step \/ PeerHook \/ DeadlinePasses \/ UNCHANGED q
  BY DEF Next, PeerEnters, Deactivate, SetIncluded, qVars, vars
<1> QED BY <1>2, <1>3, <1>6, <1>7, <1>8, <1>9, <1>10, <1>11 DEF Step

\* The keys of the expansion and of the documents are what their models are
\* asked for.
LEMMA Asked ==
  /\ <<Expansion>> \in Seq(Key) /\ \A k \in ToSet(<<Expansion>>) : ModelOf(k) = "generate"
  /\ \A s \in Seq(Doc) : s \in Seq(Key) /\ \A k \in ToSet(s) : ModelOf(k) = "rerank"
  /\ [n \in 1..Cardinality(Doc) |-> Nth(Doc, n)] \in Seq(Doc)
<1>1. Doc \subseteq Key /\ Expansion \in Key /\ \A d \in Doc : ModelOf(d) = "rerank"
  BY CacheAssumptions DEF Key, ModelOf, Expansion
<1>2. <<Expansion>> \in Seq(Key) /\ \A k \in ToSet(<<Expansion>>) : ModelOf(k) = "generate"
  BY <1>1 DEF ToSet, ModelOf
<1>3. ASSUME NEW s \in Seq(Doc) PROVE s \in Seq(Key) /\ \A k \in ToSet(s) : ModelOf(k) = "rerank"
  <2>1. s \in Seq(Key)
    BY <1>1
  <2>2. ToSet(s) \subseteq Doc
    BY DEF ToSet
  <2> QED BY <1>1, <2>1, <2>2
<1>4. Doc \in SUBSET Nat /\ IsFiniteSet(Doc) /\ Cardinality(Doc) \in Nat
  BY CacheAssumptions, FS_CardinalityType
<1>5. \A n \in 1..Cardinality(Doc) : Nth(Doc, n) \in Doc
  BY <1>4, NthIsThere
<1>6. [n \in 1..Cardinality(Doc) |-> Nth(Doc, n)] \in Seq(Doc)
  BY <1>4, <1>5
<1> QED BY <1>2, <1>3, <1>6

\* Every step of the query, of its peer and of others keeps the cache true.
LEMMA CacheStep ==
  ASSUME DeadlineInv, DocsInv, CacheInv, [Next]_vars
  PROVE  CacheInv'
<1>0. Self \in Proc /\ Peer \in Proc /\ HookShape /\ q.docs \in Seq(Doc)
  BY ProcType DEF DeadlineInv, DocsInv
<1>1. ASSUME UNCHANGED <<rows, cur, weights, loaded, hook, swapped>>,
             trouble' \in Nat, trouble' <= trouble, conn' \in [Proc -> Files \cup {Off}]
      PROVE  CacheInv'
  <2>1. \A p \in Proc : HookTrue(hook'[p])
    BY <1>1 DEF CacheInv
  <2> QED BY <1>1, <2>1, HooksFrame, RowsFrame, WeightsFrame DEF CacheInv
<1>2. trouble \in Nat /\ conn \in [Proc -> Files \cup {Off}] /\ cur \in Files
  <2>1. cur \in Nat \ {0} /\ trouble \in Nat /\ Trouble \in Nat /\ cur + trouble <= 1 + Trouble
    BY CacheAssumptions DEF CacheInv, WeightsTrue
  <2>2. cur \in 1..(1 + Trouble)
    BY <2>1
  <2> QED BY <2>1, <2>2 DEF CacheInv, WeightsTrue, Files
<1>3. CASE UNCHANGED cacheVars
  BY <1>1, <1>2, <1>3 DEF cacheVars
<1>4. ASSUME NEW p \in Proc, \/ Lookup(p) \/ Judge(p) \/ Store(p) \/ \E late : Call(p, late)
      PROVE  CacheInv'
  BY <1>0, <1>4, LookupKeeps, CallKeeps, JudgeKeeps, StoreKeeps
<1>5. ASSUME NEW p \in Proc, NEW on, Connect(p, on) PROVE conn' \in [Proc -> Files \cup {Off}]
  BY <1>2, <1>5 DEF Connect
<1>6. CASE Start
  <2>1. UNCHANGED <<rows, cur, weights, loaded, hook, swapped, trouble>> /\ \E on : Connect(Self, on)
    BY <1>6 DEF Start
  <2> QED BY <1>0, <1>1, <1>2, <1>5, <2>1
<1>7. CASE SearchLeg \/ (\E d \in Doc : Deactivate(d)) \/ (\E c \in Coll : SetIncluded(c))
  <2>1. /\ UNCHANGED <<rows, cur, weights, loaded, hook, swapped, conn>>
        /\ UNCHANGED trouble \/ Goes(FALSE)
    BY <1>7 DEF SearchLeg, Deactivate, SetIncluded
  <2>2. trouble' \in Nat /\ trouble' <= trouble
    BY <1>2, <2>1 DEF Goes
  <2> QED BY <1>1, <1>2, <2>1, <2>2
<1>8. ASSUME NEW p \in Proc, NEW m \in Model, NEW want \in Seq(Key),
             \A k \in ToSet(want) : ModelOf(k) = m, Enter(p, m, want) \/ Leave(p),
             UNCHANGED <<rows, cur, weights, loaded, swapped, trouble>>,
             conn' = conn \/ \E on : Connect(p, on)
      PROVE  CacheInv'
  BY <1>0, <1>2, <1>5, <1>8, EnterKeeps
<1>9. CASE Expand
  <2>1. UNCHANGED <<rows, cur, conn, weights, loaded, swapped, trouble>>
        /\ (UNCHANGED hook \/ Enter(Self, "generate", <<Expansion>>))
    BY <1>9 DEF Expand
  <2>2. CASE UNCHANGED hook
    BY <1>3, <2>1, <2>2 DEF cacheVars
  <2>3. CASE Enter(Self, "generate", <<Expansion>>)
    <3>1. PICK want \in Seq(Key) : want = <<Expansion>> /\ \A k \in ToSet(want) : ModelOf(k) = "generate"
      BY Asked
    <3> QED BY <1>0, <1>8, <2>1, <2>3, <3>1 DEF Model
  <2> QED BY <2>1, <2>2, <2>3
<1>10. CASE Expanded \/ Reranked
  <2>1. UNCHANGED <<rows, cur, conn, weights, loaded, swapped, trouble>> /\ Leave(Self)
    BY <1>10 DEF Expanded, Reranked
  <2>2. PICK want \in Seq(Key) : \A k \in ToSet(want) : ModelOf(k) = "generate"
    BY Asked
  <2> QED BY <1>0, <1>8, <2>1, <2>2 DEF Model
<1>11. CASE Resolved
  <2>1. UNCHANGED <<rows, cur, conn, weights, loaded, swapped, trouble>>
        /\ (UNCHANGED hook \/ Enter(Self, "rerank", q.docs))
    BY <1>11 DEF Resolved
  <2>2. CASE UNCHANGED hook
    BY <1>3, <2>1, <2>2 DEF cacheVars
  <2>3. CASE Enter(Self, "rerank", q.docs)
    <3>1. PICK want \in Seq(Key) : want = q.docs /\ \A k \in ToSet(want) : ModelOf(k) = "rerank"
      BY <1>0, Asked
    <3> QED BY <1>0, <1>8, <2>1, <2>3, <3>1 DEF Model
  <2> QED BY <2>1, <2>2, <2>3
<1>12. ASSUME NEW m \in Model, PeerEnters(m) PROVE CacheInv'
  <2> DEFINE want == IF m = "rerank" THEN [n \in 1..Cardinality(Doc) |-> Nth(Doc, n)] ELSE <<Expansion>>
  <2>1. /\ UNCHANGED <<rows, cur, weights, loaded, swapped, trouble>>
        /\ Enter(Peer, m, want) /\ \E on : Connect(Peer, on)
    BY <1>12 DEF PeerEnters
  <2>2. want \in Seq(Key) /\ \A k \in ToSet(want) : ModelOf(k) = m
    <3>1. m = "rerank" \/ m = "generate"
      BY DEF Model
    <3> QED BY <3>1, Asked
  <2> HIDE DEF want
  <2> QED BY <1>0, <1>8, <2>1, <2>2
<1>13. ASSUME NEW m \in Model, Replace(m) PROVE CacheInv'
  BY <1>0, <1>13, ReplaceKeeps
<1>14. CASE clear_at
  BY <1>14, ClearKeeps
<1>15. CASE SelfHook
  BY <1>0, <1>4, <1>15 DEF SelfHook
<1>16. CASE PeerHook
  BY <1>0, <1>4, <1>16 DEF PeerHook
<1>17. ASSUME Scope \/ LegsDone \/ Fuse \/ Resolve \/ assemble_results \/ DeadlinePasses \/ UNCHANGED vars
       PROVE  UNCHANGED cacheVars
  BY <1>17 DEF Scope, LegsDone, Fuse, Resolve, assemble_results, DeadlinePasses, vars, cacheVars
<1> QED
  BY <1>3, <1>6, <1>7, <1>9, <1>10, <1>11, <1>12, <1>13, <1>14, <1>15, <1>16, <1>17 DEF Next, Step

\* A row of the cache holds what the weights it is filed under said about its
\* own key, whatever two processes do at once, unless the weights were
\* replaced under one of them.
THEOREM CacheIsTrue == Spec => []CacheTellsTheTruth
<1> DEFINE Inv == DeadlineInv /\ DocsInv /\ CacheInv
<1>1. Init => Inv
  BY DeadlineInit, DocsStart, CacheStart
<1>2. Inv /\ [Next]_vars => Inv'
  BY DeadlineStep, DocsStep, CacheStep DEF DeadlineInv
<1>3. Inv => CacheTellsTheTruth
  BY CacheHolds
<1> QED BY <1>1, <1>2, <1>3, PTL DEF Spec

-----------------------------------------------------------------------------
(* Answers.                                                                 *)

\* The least of two numbers.
LEMMA MinOfTwo ==
  ASSUME NEW a \in Nat, NEW b \in Nat
  PROVE  /\ Min({a, b}) \in Nat /\ Min({a, b}) <= a /\ Min({a, b}) <= b
         /\ Min({a, b}) = a \/ Min({a, b}) = b
<1>1. \E x \in {a, b} : \A y \in {a, b} : x <= y
  <2>1. a <= a /\ b <= b /\ (a <= b \/ b <= a)
    OBVIOUS
  <2> QED BY <2>1
<1>2. Min({a, b}) \in {a, b} /\ \A y \in {a, b} : Min({a, b}) <= y
  BY <1>1 DEF Min
<1> QED BY <1>2

\* The greatest of two numbers is one.
LEMMA MaxOfTwo ==
  ASSUME NEW a \in Nat, NEW b \in Nat
  PROVE  Max({a, b}) \in Nat
<1>1. \E x \in {a, b} : \A y \in {a, b} : x >= y
  <2>1. a >= a /\ b >= b /\ (a >= b \/ b >= a)
    OBVIOUS
  <2> QED BY <2>1
<1>2. Max({a, b}) \in {a, b}
  BY <1>1 DEF Max
<1> QED BY <1>2

\* The limit and the size of the pool are numbers.
LEMMA Sizes == Limit \in Nat /\ fetch_size \in Nat
<1>1. Limit \in Nat /\ 2 * Limit \in Nat
  BY WorldType
<1>2. Max({2 * Limit, 20}) \in Nat
  BY <1>1, MaxOfTwo
<1> QED BY <1>1, <1>2, MinOfTwo DEF fetch_size

\* The first of a ranking are in it, and all of it where there is room.
LEMMA FirstFrom ==
  ASSUME NEW S, NEW s \in Seq(S), NEW n \in Nat
  PROVE  First(n, s) \in Seq(S) /\ (Len(s) <= n => First(n, s) = s)
<1>1. Len(s) \in Nat
  OBVIOUS
<1> DEFINE m == Min({n, Len(s)})
<1>2. m \in Nat /\ m <= Len(s) /\ (Len(s) <= n => m = Len(s))
  <2>1. m \in Nat /\ m <= n /\ m <= Len(s) /\ (m = n \/ m = Len(s))
    BY <1>1, MinOfTwo
  <2> HIDE DEF m
  <2> QED BY <1>1, <2>1
<1>3. First(n, s) = SubSeq(s, 1, m)
  BY DEF First
<1> HIDE DEF m
<1>4. SubSeq(s, 1, m) \in Seq(S)
  BY <1>1, <1>2
<1>5. SubSeq(s, 1, Len(s)) = s
  BY <1>1
<1> QED BY <1>2, <1>3, <1>4, <1>5

\* Sorting neither loses a document nor adds one.
LEMMA OrderedIsAll ==
  ASSUME NEW S, IsFiniteSet(S), NEW score
  PROVE  /\ Ordered(S, score) \in SetToSeqs(S)
         /\ Ordered(S, score) \in Seq(S) /\ Len(Ordered(S, score)) = Cardinality(S)
         /\ ToSet(Ordered(S, score)) = S
         /\ (\E r \in SetToSeqs(S) : InOrder(r, score)) => InOrder(Ordered(S, score), score)
<1> DEFINE n == Cardinality(S)
           o == Ordered(S, score)
<1>1. n \in Nat /\ ExistsBijection(1..n, S)
  BY FS_CardinalityType
<1>2. SetToSeqs(S) # {}
  <2>1. PICK f \in Bijection(1..n, S) : TRUE
    BY <1>1 DEF ExistsBijection
  <2>2. f \in [1..n -> S] /\ \A i, j \in 1..n : i # j => f[i] # f[j]
    BY <2>1 DEF Bijection, Injection, IsInjective
  <2> QED BY <2>2 DEF SetToSeqs
<1>3. /\ o \in SetToSeqs(S)
      /\ (\E r \in SetToSeqs(S) : InOrder(r, score)) => InOrder(o, score)
  BY <1>2 DEF Ordered
<1>4. o \in [1..n -> S] /\ \A i, j \in 1..n : i # j => o[i] # o[j]
  BY <1>3 DEF SetToSeqs
<1> HIDE DEF o, n
<1>5. o \in Seq(S) /\ Len(o) = n /\ DOMAIN o = 1..n
  BY <1>1, <1>4
<1>6. ToSet(o) = S
  <2>1. IsFiniteSet(1..n) /\ Cardinality(1..n) = n
    BY <1>1, FS_Interval
  <2>2. o \in Injection(1..n, S)
    BY <1>4 DEF Injection, IsInjective
  <2>3. o \in Surjection(1..n, S)
    BY <2>1, <2>2, FS_Injection DEF n
  <2>4. \A x \in S : \E i \in 1..n : o[i] = x
    BY <2>3 DEF Surjection
  <2> QED BY <1>4, <1>5, <2>4 DEF ToSet
<1> QED BY <1>3, <1>5, <1>6 DEF o, n

\* A ranking that has each document once is no longer than there are documents.
LEMMA OnceEach ==
  ASSUME NEW s \in Seq(Doc), IsInjective(s)
  PROVE  Len(s) <= Cardinality(Doc)
<1>1. IsFiniteSet(Doc) /\ Len(s) \in Nat /\ DOMAIN s = 1..Len(s)
  BY CacheAssumptions
<1>2. s \in Injection(1..Len(s), Doc)
  BY <1>1 DEF Injection, IsInjective
<1>3. Cardinality(1..Len(s)) = Len(s)
  BY <1>1, FS_Interval
<1> QED BY <1>1, <1>2, <1>3, FS_Injection

\* What is picked from such a ranking is one.
LEMMA PickedOnce ==
  ASSUME NEW s \in Seq(Doc), IsInjective(s), NEW I \in SUBSET DOMAIN s
  PROVE  IsInjective(Picked(s, I))
<1>1. IsFiniteSet(I) /\ I \in SUBSET Nat
  BY PickedFrom
<1>2. \A n \in 1..Cardinality(I) : Nth(I, n) \in I /\ Cardinality(UpTo(I, Nth(I, n))) = n
  BY <1>1, NthIsThere
<1>3. \A m, n \in 1..Cardinality(I) : Nth(I, m) = Nth(I, n) => m = n
  BY <1>2
<1>4. DOMAIN Picked(s, I) = 1..Cardinality(I) /\ \A n \in 1..Cardinality(I) : Picked(s, I)[n] = s[Nth(I, n)]
  BY DEF Picked
<1> QED BY <1>2, <1>3, <1>4 DEF IsInjective

-----------------------------------------------------------------------------
(* What a step does to the query, field by field.                           *)

\* The fields but those in F stay as they are.
Only(F) == QueryShape' /\ \A f \in QueryField \ F : q'[f] = q[f]

Waits     == Only({"late"})
Starts    == Only({"pc"}) /\ q.pc = "off" /\ q.end = "none" /\ q'.pc = "scope"
Ends(res) == Only({"pc", "end", "results"}) /\ q'.pc = "off" /\ q'.end = "ok" /\ q'.results = res
Fails     == Only({"pc", "end"}) /\ q.pc # "off" /\ q'.pc = "off" /\ q'.end \in {"timeout", "error"}

Answers ==
  \/ q.pc = "scope" /\ Ends(<<>>)
  \/ /\ q.pc = "legs" /\ q.legs = <<>> /\ q.mode \in {"search", "vsearch"}
     /\ Ends(IF q.lists = <<>> THEN <<>> ELSE First(Limit, q.lists[1].docs))
  \/ q.pc = "fuse" /\ q.lists = <<>> /\ Ends(<<>>)
  \/ q.pc = "resolve" /\ q.cands = <<>> /\ q.docs = <<>> /\ Ends(<<>>)
  \/ /\ q.pc = "assemble"
     /\ Ends(First(Limit, Ordered(ToSet(q.docs), [d \in ToSet(q.docs) |-> BlendedScore(d)])))

Scopes ==
  /\ Only({"pc", "scope", "was", "legs"}) /\ q.pc = "scope" /\ q'.pc = "legs"
  /\ q'.scope = effective_collections(q.asked) /\ q'.scope # {{}}
  /\ q'.was = default /\ q'.legs = FirstLegs(q.mode)

Searches ==
  /\ Only({"legs", "lists", "seen"}) /\ q.pc = "legs" /\ q.legs # <<>>
  /\ q'.legs = Tail(q.legs)
  /\ q'.lists = q.lists \/ q'.lists = q.lists \o ListOf(Head(q.legs))

Expands ==
  /\ Only({"pc", "mode", "legs"}) /\ q.pc = "expand"
  /\ q'.pc = "legs" /\ q'.mode = "expanded"

Fuses ==
  /\ Only({"pc", "cands"}) /\ q.pc = "fuse" /\ q'.pc = "resolve"
  /\ q'.cands = First(fetch_size, reciprocal_rank_fusion(q.lists))

Resolves ==
  /\ Only({"cands", "docs"}) /\ q.pc = "resolve" /\ q.cands # <<>>
  /\ q'.cands = Tail(q.cands)
  /\ q'.docs = IF Head(q.cands) \in active THEN Append(q.docs, Head(q.cands)) ELSE q.docs

GoesOn ==
  /\ Only({"pc", "seen"})
  /\ \/ q.pc = "legs" /\ q.mode \notin {"search", "vsearch"} /\ q'.pc \in {"fuse", "expand"}
     \/ q.pc = "expand" /\ q'.pc = "fuse"
     \/ q.pc = "resolve" /\ q.cands = <<>> /\ q'.pc = "assemble"
     \/ /\ q.pc = "resolve" /\ q.cands = <<>> /\ q'.pc = "rerank"
        /\ Enter(Self, "rerank", q.docs)

Judges ==
  /\ Only({"pc", "status", "got"}) /\ q.pc = "rerank" /\ q'.pc = "assemble"
  /\ hook[Self].pc = "done" /\ q'.status = RerankStatus(hook[Self].res)
  /\ q'.got = IF hook[Self].res = "ok" THEN hook[Self].got ELSE <<>>

Moves ==
  \/ Waits \/ Starts \/ Fails \/ Answers \/ Scopes \/ Searches \/ Expands \/ Fuses
  \/ Resolves \/ GoesOn \/ Judges

\* A step is one of these, takes documents away and leaves the ranked lists.
LEMMA StepMoves ==
  ASSUME QueryShape, [Next]_vars
  PROVE  /\ Moves
         /\ active' \subseteq active /\ UNCHANGED found
         /\ UNCHANGED default \/ \E c \in Coll : default' = SymDiff(default, {c})
<1> USE DEF QueryField
<1>1. active' \subseteq active /\ UNCHANGED found
      /\ (UNCHANGED default \/ \E c \in Coll : default' = SymDiff(default, {c}))
  BY DEF Next, Start, Step, Scope, SearchLeg, LegsDone, Expand, Expanded, Fuse, Resolve, Resolved,
         SelfHook, Reranked, assemble_results, PeerEnters, PeerHook, DeadlinePasses, Deactivate,
         SetIncluded, qVars, vars
<1> SUFFICES Moves
  BY <1>1
<1>2. ASSUME UNCHANGED q \/ DeadlinePasses PROVE Waits
  <2>1. UNCHANGED q \/ q' = [q EXCEPT !.late = TRUE]
    BY <1>2 DEF DeadlinePasses
  <2> QED BY <2>1 DEF Waits, Only, QueryShape
<1>3. ASSUME NEW res, Answer(res) PROVE Ends(res)
  BY <1>3 DEF Answer, Ends, Only, QueryShape
<1>4. ASSUME NEW how \in {"timeout", "error"}, Fail(how), q.pc # "off" PROVE Fails
  BY <1>4 DEF Fail, Fails, Only, QueryShape
<1>5. CASE Start
  BY <1>5 DEF Start, Starts, Only, QueryShape, Moves
<1>6. CASE Scope
  <2>1. CASE Answer(<<>>)
    BY <1>3, <1>6, <2>1 DEF Scope, Answers, Moves
  <2>2. CASE ~Answer(<<>>)
    <3>1. /\ q.pc = "scope" /\ ~MatchesNothing(effective_collections(q.asked))
          /\ q' = [q EXCEPT !.pc = "legs", !.scope = effective_collections(q.asked), !.was = default,
                            !.legs = FirstLegs(q.mode)]
      BY <1>6, <2>2 DEF Scope
    <3>2. Scopes
      BY <3>1 DEF MatchesNothing, Scopes, Only, QueryShape
    <3> QED BY <3>2 DEF Moves
  <2> QED BY <2>1, <2>2
<1>7. CASE SearchLeg
  <2> DEFINE ran == RunsLine(Head(q.legs))
  <2>1. /\ q.pc = "legs" /\ q.legs # <<>>
        /\ \/ \E how \in {"timeout", "error"} : Fail(how)
           \/ \E s : q' = [q EXCEPT !.legs = Tail(@), !.lists = IF ran THEN @ \o ListOf(Head(q.legs)) ELSE @,
                                    !.seen = s]
    BY <1>7, Zenon DEF SearchLeg
  <2>2. CASE \E how \in {"timeout", "error"} : Fail(how)
    BY <1>4, <2>1, <2>2 DEF Moves
  <2>3. ASSUME NEW s, q' = [q EXCEPT !.legs = Tail(@), !.lists = IF ran THEN @ \o ListOf(Head(q.legs)) ELSE @,
                                     !.seen = s]
        PROVE  Searches
    <3>1. PICK l : l = IF ran THEN q.lists \o ListOf(Head(q.legs)) ELSE q.lists
      OBVIOUS
    <3>2. q' = [q EXCEPT !.legs = Tail(q.legs), !.lists = l, !.seen = s]
      BY <2>3, <3>1
    <3>3. Only({"legs", "lists", "seen"}) /\ q'.legs = Tail(q.legs) /\ q'.lists = l
      BY <3>2 DEF Only, QueryShape
    <3> QED BY <2>1, <3>1, <3>3 DEF Searches
  <2> QED BY <2>1, <2>2, <2>3 DEF Moves
<1>8. CASE LegsDone
  <2>1. q.pc = "legs" /\ q.legs = <<>>
    BY <1>8 DEF LegsDone
  <2>2. CASE q.mode \in {"search", "vsearch"}
    BY <1>3, <1>8, <2>1, <2>2 DEF LegsDone, Answers, Moves
  <2>3. CASE q.mode \notin {"search", "vsearch"}
    <3>1. PICK next \in {"fuse", "expand"} : q' = [q EXCEPT !.pc = next, !.seen = {}]
      BY <1>8, <2>3 DEF LegsDone, AfterLegs
    <3> QED BY <2>1, <2>3, <3>1 DEF GoesOn, Only, QueryShape, Moves
  <2> QED BY <2>2, <2>3
<1>9. CASE Expand
  BY <1>2, <1>4, <1>9 DEF Expand, Moves
<1>10. CASE Expanded
  <2>1. /\ q.pc = "expand"
        /\ \/ \E l : q' = [q EXCEPT !.pc = "legs", !.mode = "expanded", !.legs = l]
           \/ q' = [q EXCEPT !.pc = "fuse"]
    BY <1>10 DEF Expanded, AfterExpansion
  <2>2. CASE q' = [q EXCEPT !.pc = "fuse"]
    BY <2>1, <2>2 DEF GoesOn, Only, QueryShape, Moves
  <2>3. CASE \E l : q' = [q EXCEPT !.pc = "legs", !.mode = "expanded", !.legs = l]
    BY <2>1, <2>3 DEF Expands, Only, QueryShape, Moves
  <2> QED BY <2>1, <2>2, <2>3
<1>11. CASE Fuse
  <2>1. CASE q.lists = <<>>
    BY <1>3, <1>11, <2>1 DEF Fuse, Answers, Moves
  <2>2. CASE q.lists # <<>>
    <3>1. q.pc = "fuse" /\ q' = [q EXCEPT !.pc = "resolve",
                                         !.cands = First(fetch_size, reciprocal_rank_fusion(q.lists))]
      BY <1>11, <2>2 DEF Fuse
    <3> QED BY <3>1 DEF Fuses, Only, QueryShape, Moves
  <2> QED BY <2>1, <2>2
<1>12. CASE Resolve
  <2>1. PICK d : d = IF Head(q.cands) \in active THEN Append(q.docs, Head(q.cands)) ELSE q.docs
    OBVIOUS
  <2>2. q.pc = "resolve" /\ q.cands # <<>> /\ q' = [q EXCEPT !.cands = Tail(q.cands), !.docs = d]
    BY <1>12, <2>1 DEF Resolve
  <2>3. Only({"cands", "docs"}) /\ q'.cands = Tail(q.cands) /\ q'.docs = d
    BY <2>2 DEF Only, QueryShape
  <2> QED BY <2>1, <2>2, <2>3 DEF Resolves, Moves
<1>13. CASE Resolved
  <2>1. q.pc = "resolve" /\ q.cands = <<>>
    BY <1>13 DEF Resolved
  <2>2. CASE q.docs = <<>> /\ Answer(<<>>)
    BY <1>3, <2>1, <2>2 DEF Answers, Moves
  <2>3. CASE Fail("timeout")
    BY <1>4, <2>1, <2>3 DEF Moves
  <2>4. CASE q' = [q EXCEPT !.pc = "assemble"]
    BY <2>1, <2>4 DEF GoesOn, Only, QueryShape, Moves
  <2>5. CASE q' = [q EXCEPT !.pc = "rerank"] /\ Enter(Self, "rerank", q.docs)
    <3>1. Only({"pc", "seen"}) /\ q'.pc = "rerank"
      BY <2>5 DEF Only, QueryShape
    <3> QED BY <2>1, <2>5, <3>1 DEF GoesOn, Moves
  <2> QED BY <1>13, <2>2, <2>3, <2>4, <2>5 DEF Resolved
<1>14. CASE Reranked
  <2>1. PICK g : g = IF hook[Self].res = "ok" THEN hook[Self].got ELSE <<>>
    OBVIOUS
  <2>2. /\ q.pc = "rerank" /\ hook[Self].pc = "done"
        /\ q' = [q EXCEPT !.pc = "assemble", !.status = RerankStatus(hook[Self].res), !.got = g]
    BY <1>14, <2>1 DEF Reranked
  <2>3. Only({"pc", "status", "got"}) /\ q'.pc = "assemble" /\ q'.got = g
        /\ q'.status = RerankStatus(hook[Self].res)
    BY <2>2 DEF Only, QueryShape
  <2> QED BY <2>1, <2>2, <2>3 DEF Judges, Moves
<1>15. CASE assemble_results
  <2> DEFINE res == First(Limit, Ordered(ToSet(q.docs), [d \in ToSet(q.docs) |-> BlendedScore(d)]))
  <2>1. q.pc = "assemble" /\ Answer(res)
    BY <1>15 DEF assemble_results
  <2>2. Ends(res)
    BY <1>3, <2>1
  <2> QED BY <2>1, <2>2 DEF Answers, Moves
<1>16. ASSUME \/ SelfHook \/ PeerHook \/ DeadlinePasses \/ UNCHANGED q
       PROVE  Moves
  <2>1. UNCHANGED q \/ DeadlinePasses
    BY <1>16 DEF SelfHook, PeerHook, qVars
  <2> QED BY <1>2, <2>1 DEF Moves
<1>17. \/ Start \/ Step \/ PeerHook \/ DeadlinePasses \/ UNCHANGED q
  BY DEF Next, PeerEnters, Deactivate, SetIncluded, qVars, vars
<1> QED
  BY <1>5, <1>6, <1>7, <1>8, <1>9, <1>10, <1>11, <1>12, <1>13, <1>14, <1>15, <1>16, <1>17 DEF Step

-----------------------------------------------------------------------------
(* The scope of an answer.                                                  *)

\* The collections searched, and the documents an answer may have.
Wanted == IF q.asked = {} THEN q.was ELSE q.asked
Right  == {d \in Doc : CollOf[d] \in Wanted}

Listed(S) ==
  /\ \A i \in DOMAIN q.lists : q.lists[i].docs \in Seq(S) /\ q.lists[i].docs # <<>>
  /\ q.cands \in Seq(S) /\ q.docs \in Seq(S) /\ q.results \in Seq(S)

QueryTyped ==
  /\ q.pc \in {"off", "scope", "legs", "expand", "fuse", "resolve", "rerank", "assemble"}
  /\ q.mode \in {"query", "typed", "search", "vsearch", "expanded"}
  /\ q.status \in {"NotRun", "Reranked", "Failed", "DeadlineExpired"}
  /\ q.end \in {"none", "ok", "timeout", "error"}
  /\ q.asked \subseteq Coll /\ default \subseteq Coll /\ q.scope \subseteq SUBSET Coll
  /\ active \subseteq Doc /\ found \in [{"lex", "vec"} -> Seq(Doc)]
  /\ q.mode \in {"search", "vsearch"} => \A k \in {"lex", "vec"} : IsInjective(found[k])

Fresh     == q.pc = "scope" \/ (q.pc = "off" /\ q.end = "none")
Searching == q.pc \in {"legs", "expand", "fuse", "resolve", "rerank", "assemble"}

ScopeInv ==
  /\ QueryShape /\ QueryTyped /\ IsList(q.lists)
  /\ Fresh => q.lists = <<>> /\ q.cands = <<>> /\ q.docs = <<>> /\ q.results = <<>>
  /\ Searching => q.scope # {{}} /\ \A d \in Doc : InScope(d, q.scope) => d \in Right
  /\ Listed(Right)

\* A query starts with nothing found.
LEMMA ScopeStart == Init => ScopeInv
<1> SUFFICES ASSUME Init PROVE ScopeInv
  OBVIOUS
<1>1. PICK w \in Worlds :
        /\ q = [NoQuery EXCEPT !.mode = w.mode, !.asked = w.asked, !.strict = w.strict]
        /\ default = w.default /\ found = w.found
  BY DEF Init
<1>2. /\ QueryShape /\ q.pc = "off" /\ q.mode = w.mode /\ q.asked = w.asked /\ q.lists = <<>>
      /\ q.cands = <<>> /\ q.docs = <<>> /\ q.results = <<>> /\ q.status = "NotRun"
      /\ q.end = "none" /\ q.scope = {}
  BY <1>1 DEF QueryShape, QueryField, NoQuery
<1>3. active \subseteq Doc
  BY DEF Init
<1>4. QueryTyped
  BY <1>1, <1>2, <1>3, WorldType DEF QueryTyped
<1>5. Listed(Right) /\ IsList(q.lists)
  BY <1>2 DEF Listed, IsList
<1> QED BY <1>2, <1>4, <1>5 DEF ScopeInv, Searching

\* A leg adds at most one list, of some of the documents its ranking has in
\* scope, in that order.
LEMMA LegFinds ==
  ASSUME ScopeInv, NEW leg
  PROVE  \/ ListOf(leg) = <<>>
         \/ \E k \in {"lex", "vec"} : \E I \in SUBSET DOMAIN found[k] :
              /\ ListOf(leg) = <<[docs |-> Picked(found[k], I), original |-> leg.original, leg |-> leg]>>
              /\ Picked(found[k], I) # <<>>
              /\ \A i \in I : found[k][i] \in Doc /\ (q.scope \subseteq {{}} \/ InScope(found[k][i], q.scope))
<1> DEFINE L == {i \in DOMAIN found["lex"] :
                   LET d == found["lex"][i] IN q.scope \subseteq {{}} \/ (d \in active /\ InScope(d, q.scope))}
           V == {i \in DOMAIN found["vec"] :
                   LET d == found["vec"][i] IN d \in active /\ InScope(d, q.scope)}
           docs == IF leg.kind = "lex" THEN Picked(found["lex"], L) ELSE Picked(found["vec"], V)
<1>1. ListOf(leg) = IF docs = <<>> THEN <<>> ELSE <<[docs |-> docs, original |-> leg.original, leg |-> leg]>>
  BY DEF ListOf, fts_scoped, search_vec_scoped
<1>2. \A k \in {"lex", "vec"} : \A i \in DOMAIN found[k] : found[k][i] \in Doc
  BY DEF ScopeInv, QueryTyped
<1>3. L \in SUBSET DOMAIN found["lex"]
      /\ \A i \in L : found["lex"][i] \in Doc /\ (q.scope \subseteq {{}} \/ InScope(found["lex"][i], q.scope))
  BY <1>2
<1>4. V \in SUBSET DOMAIN found["vec"]
      /\ \A i \in V : found["vec"][i] \in Doc /\ InScope(found["vec"][i], q.scope)
  BY <1>2
<1> HIDE DEF L, V
<1>5. CASE docs = <<>>
  BY <1>1, <1>5
<1>6. CASE docs # <<>>
  <2>1. CASE leg.kind = "lex"
    <3>1. ListOf(leg) = <<[docs |-> Picked(found["lex"], L), original |-> leg.original, leg |-> leg]>>
          /\ Picked(found["lex"], L) # <<>>
      BY <1>1, <1>6, <2>1
    <3> QED BY <1>3, <3>1
  <2>2. CASE leg.kind # "lex"
    <3>1. ListOf(leg) = <<[docs |-> Picked(found["vec"], V), original |-> leg.original, leg |-> leg]>>
          /\ Picked(found["vec"], V) # <<>>
      BY <1>1, <1>6, <2>2
    <3> QED BY <1>4, <3>1
  <2> QED BY <2>1, <2>2
<1> QED BY <1>5, <1>6

\* While a query searches, what a leg finds is right.
LEMMA LegIsRight ==
  ASSUME ScopeInv, Searching, NEW leg
  PROVE  \/ ListOf(leg) = <<>>
         \/ \E e : /\ ListOf(leg) = <<e>> /\ e.docs \in Seq(Right) /\ e.docs # <<>>
                   /\ q.mode \in {"search", "vsearch"} => IsInjective(e.docs)
<1>1. SUFFICES ASSUME ListOf(leg) # <<>>
               PROVE  \E e : /\ ListOf(leg) = <<e>> /\ e.docs \in Seq(Right) /\ e.docs # <<>>
                             /\ q.mode \in {"search", "vsearch"} => IsInjective(e.docs)
  OBVIOUS
<1>0. PICK k \in {"lex", "vec"} : \E I \in SUBSET DOMAIN found[k] :
        /\ ListOf(leg) = <<[docs |-> Picked(found[k], I), original |-> leg.original, leg |-> leg]>>
        /\ Picked(found[k], I) # <<>>
        /\ \A i \in I : found[k][i] \in Doc /\ (q.scope \subseteq {{}} \/ InScope(found[k][i], q.scope))
  BY <1>1, LegFinds
<1>2. PICK I \in SUBSET DOMAIN found[k] :
        /\ ListOf(leg) = <<[docs |-> Picked(found[k], I), original |-> leg.original, leg |-> leg]>>
        /\ Picked(found[k], I) # <<>>
        /\ \A i \in I : found[k][i] \in Doc /\ (q.scope \subseteq {{}} \/ InScope(found[k][i], q.scope))
  BY <1>0
<1> DEFINE e == [docs |-> Picked(found[k], I), original |-> leg.original, leg |-> leg]
<1>3. found[k] \in Seq(Doc)
  BY DEF ScopeInv, QueryTyped
<1>4. \A i \in I : found[k][i] \in Right
  <2>1. q.scope # {{}} /\ \A d \in Doc : InScope(d, q.scope) => d \in Right
    BY DEF ScopeInv
  <2>2. q.scope \subseteq {{}} => q.scope = {}
    BY <2>1
  <2>3. q.scope = {} => \A d \in Doc : InScope(d, q.scope)
    BY DEF InScope
  <2> QED BY <1>2, <2>1, <2>2, <2>3
<1>5. Picked(found[k], I) \in Seq({found[k][i] : i \in I})
  BY <1>3, PickedFrom
<1>6. Picked(found[k], I) \in Seq(Right)
  <2>1. {found[k][i] : i \in I} \subseteq Right
    BY <1>4
  <2> HIDE DEF Right
  <2> QED BY <1>5, <2>1
<1>7. q.mode \in {"search", "vsearch"} => IsInjective(Picked(found[k], I))
  <2>1. q.mode \in {"search", "vsearch"} => IsInjective(found[k])
    BY DEF ScopeInv, QueryTyped
  <2> QED BY <1>3, <2>1, PickedOnce
<1>8. ListOf(leg) = <<e>> /\ e.docs = Picked(found[k], I)
  BY <1>2
<1> HIDE DEF e
<1> QED BY <1>2, <1>6, <1>7, <1>8

\* The documents the lists have, sorted, are theirs and no more than there are.
LEMMA SortedDocs ==
  ASSUME NEW S \in SUBSET Doc, NEW score
  PROVE  /\ Ordered(S, score) \in Seq(S) /\ ToSet(Ordered(S, score)) = S
         /\ Len(Ordered(S, score)) \in Nat /\ Len(Ordered(S, score)) <= Cardinality(Doc)
<1>1. IsFiniteSet(S) /\ Cardinality(S) \in Nat /\ Cardinality(S) <= Cardinality(Doc)
  BY CacheAssumptions, FS_Subset, FS_CardinalityType
<1> QED BY <1>1, OrderedIsAll

\* A sequence over some values is one over more.
LEMMA SeqOfMore ==
  ASSUME NEW S, NEW T, S \subseteq T, NEW s \in Seq(S)
  PROVE  s \in Seq(T)
OBVIOUS

\* What the lists have is in scope.
LEMMA FusedIsRight ==
  ASSUME ScopeInv
  PROVE  Fused(q.lists) \subseteq Right /\ Fused(q.lists) \in SUBSET Doc
<1>1. ASSUME NEW i \in DOMAIN q.lists PROVE ToSet(q.lists[i].docs) \subseteq Right
  <2>1. q.lists[i].docs \in Seq(Right)
    BY DEF ScopeInv, Listed
  <2> HIDE DEF Right
  <2> QED BY <2>1 DEF ToSet
<1>2. Right \subseteq Doc
  BY DEF Right
<1> QED BY <1>1, <1>2 DEF Fused

\* What an answer is made of is right.
LEMMA AnswerIsRight ==
  ASSUME ScopeInv
  PROVE  /\ First(fetch_size, reciprocal_rank_fusion(q.lists)) \in Seq(Right)
         /\ \A i \in DOMAIN q.lists : First(Limit, q.lists[i].docs) \in Seq(Right)
         /\ \A score : First(Limit, Ordered(ToSet(q.docs), score)) \in Seq(Right)
<1>1. reciprocal_rank_fusion(q.lists) \in Seq(Fused(q.lists))
  BY FusedIsRight, SortedDocs DEF reciprocal_rank_fusion
<1>2. reciprocal_rank_fusion(q.lists) \in Seq(Right)
  BY <1>1, FusedIsRight, SeqOfMore
<1>3. q.docs \in Seq(Right) /\ ToSet(q.docs) \subseteq Right /\ Right \subseteq Doc
  <2>1. q.docs \in Seq(Right) /\ Right \subseteq Doc
    BY DEF ScopeInv, Listed, Right
  <2> HIDE DEF Right
  <2> QED BY <2>1 DEF ToSet
<1>4. \A i \in DOMAIN q.lists : q.lists[i].docs \in Seq(Right)
  BY DEF ScopeInv, Listed
<1>5. ASSUME NEW score PROVE Ordered(ToSet(q.docs), score) \in Seq(Right)
  <2>1. ToSet(q.docs) \in SUBSET Doc
    BY <1>3
  <2> QED BY <1>3, <2>1, SortedDocs, SeqOfMore
<1> QED BY <1>2, <1>4, <1>5, Sizes, FirstFrom

\* Steps that leave what was asked for leave what is right.
LEMMA ScopeFrame ==
  ASSUME ScopeInv, q'.asked = q.asked, q'.was = q.was
  PROVE  Right' = Right
BY DEF Right, Wanted

\* Nothing comes into the scope, and what was there is still right.
LEMMA ScopeStep ==
  ASSUME ScopeInv, [Next]_vars
  PROVE  ScopeInv'
<1>0. Moves /\ active' \subseteq active /\ UNCHANGED found
      /\ (UNCHANGED default \/ \E c \in Coll : default' = SymDiff(default, {c}))
  BY StepMoves DEF ScopeInv
<1>1. default' \subseteq Coll /\ active' \subseteq Doc
  <2>1. \A c \in Coll : SymDiff(default, {c}) \subseteq Coll
    BY DEF SymDiff, ScopeInv, QueryTyped
  <2> QED BY <1>0, <2>1 DEF ScopeInv, QueryTyped
<1> USE DEF QueryField
<1>2. CASE Scopes
  <2>1. /\ QueryShape' /\ q'.pc = "legs" /\ q'.mode = q.mode /\ q'.status = q.status /\ q'.end = q.end
        /\ q'.asked = q.asked /\ q'.lists = q.lists /\ q'.cands = q.cands /\ q'.docs = q.docs
        /\ q'.results = q.results /\ q'.was = default /\ q'.scope = effective_collections(q.asked)
        /\ q'.scope # {{}} /\ q.pc = "scope"
    BY <1>2 DEF Scopes, Only
  <2>2. q.lists = <<>> /\ q.cands = <<>> /\ q.docs = <<>> /\ q.results = <<>>
    BY <2>1 DEF ScopeInv, Fresh
  <2>3. q'.scope \subseteq SUBSET Coll
    BY <2>1 DEF effective_collections, ScopeInv, QueryTyped
  <2>4. \A d \in Doc : InScope(d, q'.scope) => d \in Right'
    <3>0. CollOf \in [Doc -> Coll]
      BY ProcType
    <3>1. CASE q.asked # {}
      <4>1. q'.scope = {q.asked} /\ q.asked # {}
        BY <2>1, <3>1 DEF effective_collections
      <4> QED BY <2>1, <4>1 DEF InScope, Right, Wanted
    <3>2. CASE q.asked = {} /\ default = Coll
      BY <2>1, <3>0, <3>2 DEF Right, Wanted
    <3>3. CASE q.asked = {} /\ default # Coll
      <4>1. q'.scope = {default} /\ default # {}
        BY <2>1, <3>3 DEF effective_collections
      <4> QED BY <2>1, <3>3, <4>1 DEF InScope, Right, Wanted
    <3> QED BY <3>1, <3>2, <3>3
  <2>5. QueryTyped'
    BY <1>0, <1>1, <2>1, <2>3 DEF ScopeInv, QueryTyped
  <2>6. Listed(Right)' /\ IsList(q'.lists)
    BY <2>1, <2>2 DEF Listed, IsList
  <2>7. (\A d \in Doc : InScope(d, q.scope) => d \in Right)'
    BY <2>4 DEF InScope
  <2> QED BY <2>1, <2>2, <2>5, <2>6, <2>7 DEF ScopeInv, Fresh
<1>3. CASE ~Scopes
  <2>1. q'.asked = q.asked /\ q'.was = q.was /\ q'.scope = q.scope /\ QueryShape'
    BY <1>0, <1>3 DEF Moves, Waits, Starts, Fails, Answers, Ends, Searches, Expands, Fuses, Resolves,
                      GoesOn, Judges, Only
  <2>2. Right' = Right
    BY <2>1, ScopeFrame
  <2>3. ASSUME QueryTyped', IsList(q'.lists),
               \A i \in DOMAIN q'.lists : q'.lists[i].docs \in Seq(Right) /\ q'.lists[i].docs # <<>>,
               q'.cands \in Seq(Right), q'.docs \in Seq(Right), q'.results \in Seq(Right),
               Fresh' => q'.lists = <<>> /\ q'.cands = <<>> /\ q'.docs = <<>> /\ q'.results = <<>>,
               Searching' => Searching
        PROVE  ScopeInv'
    <3>1. Listed(Right)'
      BY <2>2, <2>3 DEF Listed
    <3>2. (Searching => q.scope # {{}} /\ \A d \in Doc : InScope(d, q.scope) => d \in Right)'
      <4>1. ASSUME Searching' PROVE q.scope # {{}} /\ \A d \in Doc : InScope(d, q.scope) => d \in Right
        BY <2>3, <4>1 DEF ScopeInv
      <4> HIDE DEF Right, Searching
      <4> QED BY <2>1, <2>2, <4>1 DEF InScope
    <3> QED BY <2>1, <2>3, <3>1, <3>2 DEF ScopeInv
  <2> HIDE DEF Right
  <2>4. /\ QueryTyped /\ IsList(q.lists)
        /\ \A i \in DOMAIN q.lists : q.lists[i].docs \in Seq(Right) /\ q.lists[i].docs # <<>>
        /\ q.cands \in Seq(Right) /\ q.docs \in Seq(Right) /\ q.results \in Seq(Right)
        /\ Fresh => q.lists = <<>> /\ q.cands = <<>> /\ q.docs = <<>> /\ q.results = <<>>
    BY DEF ScopeInv, Listed
  <2>5. CASE Waits \/ Starts \/ Fails \/ Expands \/ GoesOn \/ Judges
    <3>1. /\ q'.lists = q.lists /\ q'.cands = q.cands /\ q'.docs = q.docs /\ q'.results = q.results
          /\ Fresh' => Fresh
          /\ Searching' => Searching
      BY <2>5 DEF Waits, Starts, Fails, Expands, GoesOn, Judges, Only, Fresh, Searching
    <3>2. q'.pc \in {"off", "scope", "legs", "expand", "fuse", "resolve", "rerank", "assemble"}
          /\ q'.end \in {"none", "ok", "timeout", "error"} /\ q'.mode \in {q.mode, "expanded"}
      BY <2>4, <2>5 DEF Waits, Starts, Fails, Expands, GoesOn, Judges, Only, QueryTyped
    <3>3. q'.status \in {"NotRun", "Reranked", "Failed", "DeadlineExpired"}
      BY <2>4, <2>5 DEF Waits, Starts, Fails, Expands, GoesOn, Judges, Only, QueryTyped, RerankStatus
    <3>4. QueryTyped'
      BY <1>0, <1>1, <2>1, <2>4, <3>2, <3>3 DEF QueryTyped
    <3> QED BY <2>3, <2>4, <3>1, <3>4
  <2>6. CASE Answers
    <3>1. PICK res : Ends(res) /\ res \in Seq(Right)
      <4>1. <<>> \in Seq(Right)
        OBVIOUS
      <4>2. q.lists # <<>> => 1 \in DOMAIN q.lists
        BY <2>4 DEF IsList
      <4> QED BY <2>6, <4>1, <4>2, AnswerIsRight DEF Answers
    <3>2. /\ q'.lists = q.lists /\ q'.cands = q.cands /\ q'.docs = q.docs /\ q'.results = res
          /\ ~Fresh' /\ ~Searching' /\ q'.pc = "off" /\ q'.end = "ok"
          /\ q'.mode = q.mode /\ q'.status = q.status
      BY <3>1 DEF Ends, Only, Fresh, Searching
    <3>3. QueryTyped'
      BY <1>0, <1>1, <2>1, <2>4, <3>2 DEF QueryTyped
    <3> QED BY <2>3, <2>4, <3>1, <3>2, <3>3
  <2>7. CASE Searches
    <3>1. /\ q'.cands = q.cands /\ q'.docs = q.docs /\ q'.results = q.results /\ ~Fresh' /\ Searching
          /\ q'.pc = q.pc /\ q'.mode = q.mode /\ q'.status = q.status /\ q'.end = q.end
          /\ q'.lists = q.lists \/ q'.lists = q.lists \o ListOf(Head(q.legs))
      BY <2>7 DEF Searches, Only, Fresh, Searching
    <3>2. QueryTyped'
      BY <1>0, <1>1, <2>1, <2>4, <3>1 DEF QueryTyped
    <3>3. IsList(q'.lists)
          /\ \A i \in DOMAIN q'.lists : q'.lists[i].docs \in Seq(Right) /\ q'.lists[i].docs # <<>>
      <4>1. CASE q'.lists = q.lists
        BY <2>4, <4>1
      <4>2. CASE q'.lists # q.lists
        <5>1. PICK e : ListOf(Head(q.legs)) = <<e>> /\ e.docs \in Seq(Right) /\ e.docs # <<>>
          BY <2>4, <3>1, <4>2, LegIsRight, ListSame
        <5> DEFINE m == q.lists \o <<e>>
        <5>2. /\ IsList(m) /\ DOMAIN m = DOMAIN q.lists \cup {Len(q.lists) + 1}
              /\ m[Len(q.lists) + 1] = e /\ \A i \in DOMAIN q.lists : m[i] = q.lists[i]
          BY <2>4, ListMore
        <5>3. q'.lists = m
          BY <3>1, <4>2, <5>1
        <5> HIDE DEF m
        <5> QED BY <2>4, <5>1, <5>2, <5>3
      <4> QED BY <4>1, <4>2
    <3> QED BY <2>3, <2>4, <3>1, <3>2, <3>3
  <2>8. CASE Fuses
    <3>1. /\ q'.lists = q.lists /\ q'.docs = q.docs /\ q'.results = q.results /\ ~Fresh' /\ Searching
          /\ q'.cands = First(fetch_size, reciprocal_rank_fusion(q.lists))
          /\ q'.pc = "resolve" /\ q'.mode = q.mode /\ q'.status = q.status /\ q'.end = q.end
      BY <2>8 DEF Fuses, Only, Fresh, Searching
    <3>2. QueryTyped'
      BY <1>0, <1>1, <2>1, <2>4, <3>1 DEF QueryTyped
    <3> QED BY <2>3, <2>4, <3>1, <3>2, AnswerIsRight
  <2>9. CASE Resolves
    <3>1. /\ q'.lists = q.lists /\ q'.results = q.results /\ ~Fresh' /\ Searching
          /\ q.cands # <<>> /\ q'.cands = Tail(q.cands)
          /\ q'.docs = IF Head(q.cands) \in active THEN Append(q.docs, Head(q.cands)) ELSE q.docs
          /\ q'.pc = q.pc /\ q'.mode = q.mode /\ q'.status = q.status /\ q'.end = q.end
      BY <2>9 DEF Resolves, Only, Fresh, Searching
    <3>2. QueryTyped'
      BY <1>0, <1>1, <2>1, <2>4, <3>1 DEF QueryTyped
    <3>3. q'.cands \in Seq(Right) /\ q'.docs \in Seq(Right)
      <4>1. Head(q.cands) \in Right /\ Tail(q.cands) \in Seq(Right)
        BY <2>4, <3>1
      <4> QED BY <2>4, <3>1, <4>1
    <3> QED BY <2>3, <2>4, <3>1, <3>2, <3>3
  <2> QED BY <1>0, <1>3, <2>5, <2>6, <2>7, <2>8, <2>9 DEF Moves
<1> QED BY <1>2, <1>3

\* An answer is in scope.
LEMMA ScopeHolds == ScopeInv => AnswerIsInScope
<1> SUFFICES ASSUME ScopeInv, NEW d \in ToSet(q.results) PROVE CollOf[d] \in Wanted
  BY DEF AnswerIsInScope, Wanted
<1>1. q.results \in Seq(Right)
  BY DEF ScopeInv, Listed
<1>2. d \in Right
  <2> HIDE DEF Right
  <2> QED BY <1>1 DEF ToSet
<1> QED BY <1>2 DEF Right

-----------------------------------------------------------------------------
(* The hits of an answer.                                                   *)

Few == Cardinality(Doc) <= Min({Limit, fetch_size})

\* Every hit that is still there is in S.
HitsIn(S) == \A i \in DOMAIN q.lists : ToSet(q.lists[i].docs) \cap active \subseteq S

\* A plain search has one leg and one list; each document with a hit is a
\* candidate, then resolved, then in the answer.
KeepInv ==
  /\ q.mode \in {"search", "vsearch"} =>
       /\ q.pc = "legs" => \/ q.legs = <<>> /\ Len(q.lists) <= 1
                           \/ (\E leg : q.legs = <<leg>>) /\ q.lists = <<>>
       /\ \A i \in DOMAIN q.lists : IsInjective(q.lists[i].docs)
  /\ Few /\ q.pc = "resolve" => HitsIn(ToSet(q.cands) \cup ToSet(q.docs))
  /\ Few /\ q.pc \in {"rerank", "assemble"} => HitsIn(ToSet(q.docs))
  /\ Few /\ Answered => HitsIn(ToSet(q.results))

\* At first there are no hits to lose.
LEMMA KeepStart == Init => KeepInv
<1> SUFFICES ASSUME Init PROVE KeepInv
  OBVIOUS
<1>1. PICK w \in Worlds : q = [NoQuery EXCEPT !.mode = w.mode, !.asked = w.asked, !.strict = w.strict]
  BY DEF Init
<1>2. q.pc = "off" /\ q.end = "none" /\ q.lists = <<>>
  BY <1>1 DEF NoQuery
<1> QED BY <1>2 DEF KeepInv, Answered

\* Where every document fits, it fits the limit and the pool.
LEMMA FewFit ==
  ASSUME Few
  PROVE  Cardinality(Doc) \in Nat /\ Cardinality(Doc) <= Limit /\ Cardinality(Doc) <= fetch_size
<1>1. Cardinality(Doc) \in Nat
  BY CacheAssumptions, FS_CardinalityType
<1> DEFINE m == Min({Limit, fetch_size})
<1>2. m \in Nat /\ m <= Limit /\ m <= fetch_size
  BY Sizes, MinOfTwo
<1>3. Cardinality(Doc) <= m
  BY DEF Few
<1> HIDE DEF m
<1> QED BY <1>1, <1>2, <1>3, Sizes

\* Where there is room for every document, nothing is cut off.
LEMMA NothingIsCut ==
  ASSUME Few, ScopeInv
  PROVE  /\ ToSet(First(fetch_size, reciprocal_rank_fusion(q.lists))) = Fused(q.lists)
         /\ \A s \in Seq(Doc) : IsInjective(s) => First(Limit, s) = s
         /\ \A score : ToSet(First(Limit, Ordered(ToSet(q.docs), score))) = ToSet(q.docs)
<1> DEFINE N == Cardinality(Doc)
<1>1. N \in Nat /\ N <= Limit /\ N <= fetch_size /\ Limit \in Nat /\ fetch_size \in Nat
  BY FewFit, Sizes
<1>2. /\ reciprocal_rank_fusion(q.lists) \in Seq(Fused(q.lists))
      /\ ToSet(reciprocal_rank_fusion(q.lists)) = Fused(q.lists)
      /\ Len(reciprocal_rank_fusion(q.lists)) \in Nat /\ Len(reciprocal_rank_fusion(q.lists)) <= N
  BY FusedIsRight, SortedDocs DEF reciprocal_rank_fusion
<1>3. \A s \in Seq(Doc) : IsInjective(s) => Len(s) \in Nat /\ Len(s) <= N
  BY OnceEach
<1>4. ToSet(q.docs) \in SUBSET Doc
  <2>1. q.docs \in Seq(Right) /\ Right \subseteq Doc
    BY DEF ScopeInv, Listed, Right
  <2> HIDE DEF Right
  <2> QED BY <2>1 DEF ToSet
<1> HIDE DEF N
<1>5. Len(reciprocal_rank_fusion(q.lists)) <= fetch_size
  BY <1>1, <1>2
<1>6. First(fetch_size, reciprocal_rank_fusion(q.lists)) = reciprocal_rank_fusion(q.lists)
  BY <1>1, <1>2, <1>5, FirstFrom
<1>7. ASSUME NEW s \in Seq(Doc), IsInjective(s) PROVE First(Limit, s) = s
  <2>1. Len(s) <= Limit
    BY <1>1, <1>3, <1>7
  <2> QED BY <1>1, <2>1, FirstFrom
<1>8. ASSUME NEW score
      PROVE  ToSet(First(Limit, Ordered(ToSet(q.docs), score))) = ToSet(q.docs)
  <2> DEFINE o == Ordered(ToSet(q.docs), score)
  <2>1. o \in Seq(ToSet(q.docs)) /\ ToSet(o) = ToSet(q.docs) /\ Len(o) \in Nat /\ Len(o) <= N
    BY <1>4, SortedDocs DEF N
  <2> HIDE DEF o
  <2>2. Len(o) <= Limit
    BY <1>1, <2>1
  <2>3. First(Limit, o) = o
    BY <1>1, <2>1, <2>2, FirstFrom
  <2> QED BY <2>1, <2>3 DEF o
<1> QED BY <1>2, <1>6, <1>7, <1>8

\* A step that leaves the lists and loses none of the places for hits.
LEMMA HitsStay ==
  ASSUME NEW S, NEW T, HitsIn(S), q'.lists = q.lists, active' \subseteq active, S \cap active' \subseteq T
  PROVE  \A i \in DOMAIN q'.lists : ToSet(q'.lists[i].docs) \cap active' \subseteq T
BY DEF HitsIn

\* No step loses a hit that is still there, where there is room.
LEMMA KeepStep ==
  ASSUME ScopeInv, KeepInv, [Next]_vars
  PROVE  KeepInv'
<1>0. Moves /\ active' \subseteq active /\ UNCHANGED found
  BY StepMoves DEF ScopeInv
<1> USE DEF QueryField
<1> DEFINE HitsAfter(S) == \A i \in DOMAIN q'.lists : ToSet(q'.lists[i].docs) \cap active' \subseteq S
<1>1. ASSUME q'.mode \in {"search", "vsearch"} =>
               /\ q'.pc = "legs" => \/ q'.legs = <<>> /\ Len(q'.lists) <= 1
                                    \/ (\E leg : q'.legs = <<leg>>) /\ q'.lists = <<>>
               /\ \A i \in DOMAIN q'.lists : IsInjective(q'.lists[i].docs),
             Few /\ q'.pc = "resolve" => HitsAfter(ToSet(q'.cands) \cup ToSet(q'.docs)),
             Few /\ q'.pc \in {"rerank", "assemble"} => HitsAfter(ToSet(q'.docs)),
             Few /\ q'.pc = "off" /\ q'.end = "ok" => HitsAfter(ToSet(q'.results))
      PROVE  KeepInv'
  <2>1. Few' = Few
    BY DEF Few, fetch_size
  <2> QED BY <1>1, <2>1 DEF KeepInv, HitsIn, Answered
<1>2. CASE Scopes
  <2>1. /\ q'.lists = q.lists /\ q.pc = "scope" /\ q'.pc = "legs" /\ q'.mode = q.mode
        /\ q'.legs = FirstLegs(q.mode)
    BY <1>2 DEF Scopes, Only
  <2>2. q.lists = <<>>
    BY <2>1 DEF ScopeInv, Fresh
  <2>3. q.mode \in {"search", "vsearch"} => \E leg : FirstLegs(q.mode) = <<leg>>
    BY DEF FirstLegs
  <2> QED BY <1>1, <2>1, <2>2, <2>3
<1>3. CASE Waits \/ Starts \/ Fails
  <2>1. /\ q'.lists = q.lists /\ q'.cands = q.cands /\ q'.docs = q.docs /\ q'.results = q.results
        /\ q'.mode = q.mode /\ q'.legs = q.legs
        /\ \/ q'.pc = q.pc /\ q'.end = q.end
           \/ q'.pc = "scope"
           \/ q'.pc = "off" /\ q'.end \in {"timeout", "error"}
    BY <1>3 DEF Waits, Starts, Fails, Only
  <2>2. /\ Few /\ q'.pc = "resolve" => HitsIn(ToSet(q.cands) \cup ToSet(q.docs))
        /\ Few /\ q'.pc \in {"rerank", "assemble"} => HitsIn(ToSet(q.docs))
        /\ Few /\ q'.pc = "off" /\ q'.end = "ok" => HitsIn(ToSet(q.results))
    BY <2>1 DEF KeepInv, Answered
  <2>3. /\ Few /\ q'.pc = "resolve" => HitsAfter(ToSet(q.cands) \cup ToSet(q.docs))
        /\ Few /\ q'.pc \in {"rerank", "assemble"} => HitsAfter(ToSet(q.docs))
        /\ Few /\ q'.pc = "off" /\ q'.end = "ok" => HitsAfter(ToSet(q.results))
    BY <1>0, <2>1, <2>2, HitsStay
  <2>4. q.mode \in {"search", "vsearch"} =>
          /\ q'.pc = "legs" => \/ q.legs = <<>> /\ Len(q.lists) <= 1
                               \/ (\E leg : q.legs = <<leg>>) /\ q.lists = <<>>
          /\ \A i \in DOMAIN q.lists : IsInjective(q.lists[i].docs)
    BY <2>1 DEF KeepInv
  <2> HIDE DEF HitsAfter
  <2> QED BY <1>1, <2>1, <2>3, <2>4
<1>4. CASE Answers
  <2>1. q'.lists = q.lists /\ q'.mode = q.mode /\ q'.pc = "off" /\ q'.end = "ok"
    BY <1>4 DEF Answers, Ends, Only
  <2>2. ASSUME Few PROVE HitsIn(ToSet(q'.results))
    <3>1. CASE q.pc \in {"scope", "fuse"} /\ Ends(<<>>) /\ (q.pc = "fuse" => q.lists = <<>>)
      <4>1. q.lists = <<>>
        BY <3>1 DEF ScopeInv, Fresh
      <4> QED BY <4>1 DEF HitsIn
    <3>2. CASE /\ q.pc = "legs" /\ q.legs = <<>> /\ q.mode \in {"search", "vsearch"}
               /\ Ends(IF q.lists = <<>> THEN <<>> ELSE First(Limit, q.lists[1].docs))
      <4>1. CASE q.lists = <<>>
        BY <4>1 DEF HitsIn
      <4>2. CASE q.lists # <<>>
        <5>1. Len(q.lists) <= 1 /\ IsList(q.lists) /\ \A i \in DOMAIN q.lists : IsInjective(q.lists[i].docs)
          BY <3>2 DEF KeepInv, ScopeInv
        <5>2. DOMAIN q.lists = {1}
          BY <4>2, <5>1 DEF IsList
        <5>3. q.lists[1].docs \in Seq(Doc)
          <6>1. q.lists[1].docs \in Seq(Right) /\ Right \subseteq Doc
            BY <5>2 DEF ScopeInv, Listed, Right
          <6> QED BY <6>1, SeqOfMore
        <5>4. q'.results = q.lists[1].docs
          BY <2>2, <3>2, <4>2, <5>1, <5>2, <5>3, NothingIsCut DEF Ends
        <5> QED BY <5>2, <5>4 DEF HitsIn
      <4> QED BY <4>1, <4>2
    <3>3. CASE q.pc = "resolve" /\ q.cands = <<>> /\ q.docs = <<>> /\ Ends(<<>>)
      <4>1. HitsIn(ToSet(q.cands) \cup ToSet(q.docs))
        BY <2>2, <3>3 DEF KeepInv
      <4>2. ToSet(q.cands) \cup ToSet(q.docs) = {}
        BY <3>3 DEF ToSet
      <4> QED BY <4>1, <4>2 DEF HitsIn
    <3>4. CASE /\ q.pc = "assemble"
               /\ Ends(First(Limit, Ordered(ToSet(q.docs), [d \in ToSet(q.docs) |-> BlendedScore(d)])))
      <4>1. HitsIn(ToSet(q.docs))
        BY <2>2, <3>4 DEF KeepInv
      <4>2. ToSet(q'.results) = ToSet(q.docs)
        BY <2>2, <3>4, NothingIsCut DEF Ends
      <4> QED BY <4>1, <4>2
    <3> QED BY <1>4, <3>1, <3>2, <3>3, <3>4 DEF Answers
  <2>3. Few => HitsAfter(ToSet(q'.results))
    BY <1>0, <2>1, <2>2, HitsStay
  <2>4. q.mode \in {"search", "vsearch"} => \A i \in DOMAIN q.lists : IsInjective(q.lists[i].docs)
    BY DEF KeepInv
  <2> HIDE DEF HitsAfter
  <2> QED BY <1>1, <2>1, <2>3, <2>4
<1>5. CASE Searches
  <2>1. /\ q'.pc = "legs" /\ q.pc = "legs" /\ q'.mode = q.mode /\ q'.legs = Tail(q.legs) /\ q.legs # <<>>
        /\ q'.lists = q.lists \/ q'.lists = q.lists \o ListOf(Head(q.legs))
    BY <1>5 DEF Searches, Only
  <2>2. ASSUME q.mode \in {"search", "vsearch"}
        PROVE  /\ q'.legs = <<>> /\ Len(q'.lists) <= 1
               /\ \A i \in DOMAIN q'.lists : IsInjective(q'.lists[i].docs)
    <3>1. PICK leg : q.legs = <<leg>> /\ q.lists = <<>>
      BY <2>1, <2>2 DEF KeepInv
    <3>2. q'.legs = <<>>
      BY <2>1, <3>1
    <3>3. CASE q'.lists = q.lists
      BY <3>1, <3>2, <3>3
    <3>4. CASE q'.lists # q.lists
      <4>1. PICK e : ListOf(Head(q.legs)) = <<e>> /\ IsInjective(e.docs)
        <5>1. Searching /\ IsList(q.lists)
          BY <2>1 DEF Searching, ScopeInv
        <5> QED BY <2>1, <2>2, <3>4, <5>1, LegIsRight, ListSame
      <4>2. q'.lists = <<>> \o <<e>>
        BY <2>1, <3>1, <3>4, <4>1
      <4>3. <<>> \o <<e>> = <<e>>
        OBVIOUS
      <4> QED BY <3>2, <4>1, <4>2, <4>3
    <3> QED BY <3>3, <3>4
  <2> QED BY <1>1, <2>1, <2>2
<1>6. CASE Expands
  <2>1. q'.mode = "expanded" /\ q'.pc = "legs"
    BY <1>6 DEF Expands, Only
  <2> QED BY <1>1, <2>1
<1>7. CASE Fuses
  <2>1. /\ q'.pc = "resolve" /\ q'.lists = q.lists /\ q'.mode = q.mode
        /\ q'.cands = First(fetch_size, reciprocal_rank_fusion(q.lists))
    BY <1>7 DEF Fuses, Only
  <2>2. ASSUME Few PROVE HitsAfter(ToSet(q'.cands) \cup ToSet(q'.docs))
    <3>1. ToSet(q'.cands) = Fused(q.lists)
      BY <2>1, <2>2, NothingIsCut
    <3>2. \A i \in DOMAIN q.lists : ToSet(q.lists[i].docs) \subseteq Fused(q.lists)
      BY DEF Fused
    <3> QED BY <2>1, <3>1, <3>2
  <2>3. q.mode \in {"search", "vsearch"} => \A i \in DOMAIN q.lists : IsInjective(q.lists[i].docs)
    BY DEF KeepInv
  <2> HIDE DEF HitsAfter
  <2> QED BY <1>1, <2>1, <2>2, <2>3
<1>8. CASE Resolves
  <2>1. /\ q'.pc = "resolve" /\ q.pc = "resolve" /\ q'.lists = q.lists /\ q'.mode = q.mode
        /\ q.cands # <<>> /\ q'.cands = Tail(q.cands)
        /\ q'.docs = IF Head(q.cands) \in active THEN Append(q.docs, Head(q.cands)) ELSE q.docs
    BY <1>8 DEF Resolves, Only
  <2>2. q.cands \in Seq(Doc) /\ q.docs \in Seq(Doc)
    <3>1. q.cands \in Seq(Right) /\ q.docs \in Seq(Right) /\ Right \subseteq Doc
      BY DEF ScopeInv, Listed, Right
    <3> QED BY <3>1, SeqOfMore
  <2>3. ToSet(q.cands) = {Head(q.cands)} \cup ToSet(Tail(q.cands))
    <3> DEFINE s == q.cands
    <3>1. s \in Seq(Doc) /\ s # <<>>
      BY <2>1, <2>2
    <3> HIDE DEF s
    <3>2. /\ Len(Tail(s)) = Len(s) - 1 /\ Len(s) \in Nat \ {0} /\ DOMAIN s = 1..Len(s)
          /\ DOMAIN Tail(s) = 1..(Len(s) - 1)
          /\ \A i \in 1..(Len(s) - 1) : Tail(s)[i] = s[i + 1]
          /\ Head(s) = s[1]
      BY <3>1
    <3>3. ASSUME NEW i \in DOMAIN s PROVE s[i] = Head(s) \/ \E j \in DOMAIN Tail(s) : s[i] = Tail(s)[j]
      <4>1. CASE i = 1
        BY <3>2, <4>1
      <4>2. CASE i # 1
        <5>1. i - 1 \in DOMAIN Tail(s) /\ Tail(s)[i - 1] = s[i]
          BY <3>2, <4>2
        <5> QED BY <5>1
      <4> QED BY <4>1, <4>2
    <3>4. 1 \in DOMAIN s /\ \A j \in DOMAIN Tail(s) : j + 1 \in DOMAIN s /\ Tail(s)[j] = s[j + 1]
      BY <3>2
    <3>5. ToSet(s) = {Head(s)} \cup ToSet(Tail(s))
      <4>1. \A x : x \in ToSet(s) <=> \E i \in DOMAIN s : s[i] = x
        BY DEF ToSet
      <4>2. \A x : x \in ToSet(Tail(s)) <=> \E i \in DOMAIN Tail(s) : Tail(s)[i] = x
        BY DEF ToSet
      <4>3. Head(s) = s[1]
        BY <3>2
      <4>4. \A x \in ToSet(s) : x \in {Head(s)} \cup ToSet(Tail(s))
        BY <3>3, <4>1, <4>2
      <4>5. \A x \in {Head(s)} \cup ToSet(Tail(s)) : x \in ToSet(s)
        BY <3>4, <4>1, <4>2, <4>3
      <4> QED BY <4>4, <4>5
    <3> QED BY <3>5 DEF s
  <2>4. \A d \in Doc : ToSet(Append(q.docs, d)) = ToSet(q.docs) \cup {d}
    <3> SUFFICES ASSUME NEW d \in Doc PROVE ToSet(Append(q.docs, d)) = ToSet(q.docs) \cup {d}
      OBVIOUS
    <3> DEFINE s == q.docs
               t == Append(s, d)
    <3>1. /\ DOMAIN t = DOMAIN s \cup {Len(s) + 1} /\ t[Len(s) + 1] = d
          /\ \A i \in DOMAIN s : t[i] = s[i]
      BY <2>2
    <3> HIDE DEF s, t
    <3>2. ToSet(t) = ToSet(s) \cup {d}
      BY <3>1 DEF ToSet
    <3> QED BY <3>2 DEF s, t
  <2>5. Head(q.cands) \in Doc
    BY <2>1, <2>2
  <2>6. ASSUME Few PROVE HitsAfter(ToSet(q'.cands) \cup ToSet(q'.docs))
    <3>1. HitsIn(ToSet(q.cands) \cup ToSet(q.docs))
      BY <2>1, <2>6 DEF KeepInv
    <3>2. (ToSet(q.cands) \cup ToSet(q.docs)) \cap active' \subseteq ToSet(q'.cands) \cup ToSet(q'.docs)
      <4>1. CASE Head(q.cands) \in active
        BY <2>1, <2>3, <2>4, <2>5, <4>1
      <4>2. CASE Head(q.cands) \notin active
        BY <1>0, <2>1, <2>3, <4>2
      <4> QED BY <4>1, <4>2
    <3> QED BY <1>0, <2>1, <3>1, <3>2, HitsStay
  <2>7. q.mode \in {"search", "vsearch"} => \A i \in DOMAIN q.lists : IsInjective(q.lists[i].docs)
    BY DEF KeepInv
  <2> HIDE DEF HitsAfter
  <2> QED BY <1>1, <2>1, <2>6, <2>7
<1>9. CASE GoesOn \/ Judges
  <2>1. /\ q'.lists = q.lists /\ q'.docs = q.docs /\ q'.mode = q.mode /\ q'.cands = q.cands
        /\ q'.pc \in {"fuse", "expand", "rerank", "assemble"}
        /\ \/ q'.pc \in {"fuse", "expand"}
           \/ q.pc = "resolve" /\ q.cands = <<>>
           \/ q.pc = "rerank"
    BY <1>9 DEF GoesOn, Judges, Only
  <2>2. ASSUME Few, q'.pc \in {"rerank", "assemble"} PROVE HitsAfter(ToSet(q'.docs))
    <3>1. HitsIn(ToSet(q.docs))
      <4>1. CASE q.pc = "resolve" /\ q.cands = <<>>
        <5>1. HitsIn(ToSet(q.cands) \cup ToSet(q.docs))
          BY <2>2, <4>1 DEF KeepInv
        <5>2. ToSet(q.cands) = {}
          BY <4>1 DEF ToSet
        <5> QED BY <5>1, <5>2 DEF HitsIn
      <4>2. CASE q.pc = "rerank"
        BY <2>2, <4>2 DEF KeepInv
      <4> QED BY <2>1, <2>2, <4>1, <4>2
    <3> QED BY <1>0, <2>1, <3>1, HitsStay
  <2>3. q.mode \in {"search", "vsearch"} => \A i \in DOMAIN q.lists : IsInjective(q.lists[i].docs)
    BY DEF KeepInv
  <2> HIDE DEF HitsAfter
  <2> QED BY <1>1, <2>1, <2>2, <2>3
<1> QED BY <1>0, <1>2, <1>3, <1>4, <1>5, <1>6, <1>7, <1>8, <1>9 DEF Moves

-----------------------------------------------------------------------------

\* The types of the cache and of the query.
LEMMA AnswerTyped ==
  ASSUME ScopeInv, CacheInv
  PROVE  TypeOK
<1>1. CacheTypeOK
  <2>1. cur \in Files /\ trouble \in 0..Trouble
    <3>1. cur \in Nat \ {0} /\ trouble \in Nat /\ Trouble \in Nat /\ cur + trouble <= 1 + Trouble
      BY Room DEF CacheInv
    <3> QED BY <3>1 DEF Files
  <2>2. rows \in [Files -> Seq(Row)]
    <3>1. TrueRow \subseteq Row
      BY DEF TrueRow
    <3>2. \A s \in Seq(TrueRow) : s \in Seq(Row)
      <4> HIDE DEF TrueRow, Row
      <4> QED BY <3>1, SeqOfMore
    <3> HIDE DEF TrueRow, Row
    <3> QED BY <3>2 DEF CacheInv, RowsTrue
  <2>3. \A p \in Proc :
          /\ hook[p].pc \in {"off", "idle", "lookup", "call", "judge", "store", "done"}
          /\ hook[p].want \in Seq(Key) /\ hook[p].id \in Version \cup {NotRead}
          /\ hook[p].res \in {"none", "ok", "expired", "error"}
    BY DEF CacheInv, HookTrue, HookTyped, Busy
  <2> QED BY <2>1, <2>2, <2>3 DEF CacheInv, WeightsTrue, CacheTypeOK
<1>2. Right \subseteq Doc
  BY DEF Right
<1>3. \A s \in Seq(Right) : ToSet(s) \subseteq Doc
  <2> HIDE DEF Right
  <2> QED BY <1>2 DEF ToSet
<1> HIDE DEF Right
<1> QED BY <1>1, <1>3 DEF ScopeInv, QueryTyped, Listed, TypeOK

\* An answer has every document some leg found that is still there and that
\* it has room for, none that is out of scope, and no leg weighed twice.
THEOREM AnswersAreExact == Spec => []AnswerIsExact
<1> DEFINE Inv == DeadlineInv /\ LegsInv /\ DocsInv /\ CacheInv /\ ScopeInv /\ KeepInv
<1>1. Init => Inv
  BY DeadlineInit, LegsInit, DocsStart, CacheStart, ScopeStart, KeepStart
<1>2. Inv /\ [Next]_vars => Inv'
  BY DeadlineStep, LegsStep, DocsStep, CacheStep, ScopeStep, KeepStep DEF DeadlineInv
<1>3. Inv => AnswerIsExact
  <2>1. KeepInv => AnswerKeepsEveryHit
    BY DEF KeepInv, AnswerKeepsEveryHit, Few, HitsIn
  <2> QED BY <2>1, ScopeHolds, AnswerTyped DEF AnswerIsExact, LegsInv
<1> QED BY <1>1, <1>2, <1>3, PTL DEF Spec

-----------------------------------------------------------------------------
(* The order of results.                                                    *)

\* A quotient of numbers is a number.
LEMMA Quotient ==
  ASSUME NEW a \in Nat, NEW b \in Nat \ {0}
  PROVE  a \div b \in Nat
OBVIOUS

\* What a list adds, and what the best rank does, is a number.
LEMMA ContributionType ==
  ASSUME NEW lists, NEW i, lists[i].docs \in Seq(Doc), NEW d
  PROVE  Contribution(lists, i, d) \in Nat
<1> DEFINE l == lists[i].docs
           I == {j \in DOMAIN l : \A k \in 1..(j - 1) : l[k] # l[j]}
           once == dedupe_by_filepath(l)
           w == rrf_weights(lists[i])
<1>1. once \in Seq(Doc)
  <2>1. l \in Seq(Doc) /\ I \in SUBSET DOMAIN l
    OBVIOUS
  <2>2. once = Picked(l, I)
    BY DEF dedupe_by_filepath
  <2> HIDE DEF once, I, l
  <2> QED BY <2>1, <2>2, PickedFrom
<1>2. w * Scale \in Nat
  <2>1. w = 2 \/ w = 1
    BY DEF rrf_weights
  <2>2. 2 * Scale \in Nat /\ 1 * Scale \in Nat
    BY ScaleType
  <2> HIDE DEF w
  <2> QED BY <2>1, <2>2
<1>3. Contribution(lists, i, d) =
        IF d \notin ToSet(once) THEN 0 ELSE (w * Scale) \div (RRF_K + RankIn(once, d) + 1)
  BY DEF Contribution
<1> HIDE DEF once, w
<1>4. CASE d \in ToSet(once)
  <2>1. RankIn(once, d) \in Nat
    <3> DEFINE r == CHOOSE j \in DOMAIN once : once[j] = d
    <3>1. r \in DOMAIN once
      BY <1>4 DEF ToSet
    <3>2. \A j \in DOMAIN once : j - 1 \in Nat
      BY <1>1
    <3> HIDE DEF r
    <3>3. r - 1 \in Nat
      BY <3>1, <3>2
    <3> QED BY <3>3 DEF RankIn, r
  <2>2. RRF_K + RankIn(once, d) + 1 \in Nat \ {0}
    BY <2>1 DEF RRF_K
  <2> QED BY <1>2, <1>3, <1>4, <2>2, Quotient
<1> QED BY <1>3, <1>4

\* The bonus is a number.
LEMMA BonusType ==
  ASSUME NEW lists, NEW d
  PROVE  Bonus(lists, d) \in Nat
<1>1. Scale \div 20 \in Nat /\ Scale \div 50 \in Nat
  BY ScaleType, Quotient
<1> QED BY <1>1 DEF Bonus

\* A sum over a sequence has a value, a number.
Sums(f, lists, d, n) ==
  /\ f = [m \in 0..n |-> IF m = 0 THEN 0 ELSE f[m - 1] + Contribution(lists, m, d)]

\* The sums over the first lists exist: each extends the one before.
LEMMA SumsThere ==
  ASSUME NEW lists, NEW d, NEW n \in Nat
  PROVE  \E f : Sums(f, lists, d, n)
<1> DEFINE T == {m \in Nat : ~ \E f : Sums(f, lists, d, m)}
<1>1. SUFFICES ASSUME T # {} PROVE FALSE
  OBVIOUS
<1>2. PICK m \in T : \A y \in T : m <= y
  BY <1>1, LeastOf
<1>3. m # 0
  <2>1. Sums([k \in 0..0 |-> 0], lists, d, 0)
    BY DEF Sums
  <2> QED BY <2>1, <1>2
<1>4. m \in Nat /\ m - 1 \in Nat /\ ~(m <= m - 1)
  BY <1>2, <1>3
<1>5. m - 1 \notin T
  BY <1>2, <1>4
<1>6. PICK f : Sums(f, lists, d, m - 1)
  BY <1>4, <1>5
<1> DEFINE g == [k \in 0..m |-> IF k = m THEN f[m - 1] + Contribution(lists, m, d) ELSE f[k]]
<1>7. \A k \in 0..(m - 1) : f[k] = IF k = 0 THEN 0 ELSE f[k - 1] + Contribution(lists, k, d)
  BY <1>6 DEF Sums
<1>8. \A k \in 0..m : g[k] = IF k = 0 THEN 0 ELSE g[k - 1] + Contribution(lists, k, d)
  <2> SUFFICES ASSUME NEW k \in 0..m PROVE g[k] = IF k = 0 THEN 0 ELSE g[k - 1] + Contribution(lists, k, d)
    OBVIOUS
  <2>1. CASE k = m
    <3>1. g[k] = f[m - 1] + Contribution(lists, m, d) /\ g[k - 1] = f[m - 1] /\ k # 0
      BY <1>3, <1>4, <2>1
    <3> QED BY <2>1, <3>1
  <2>2. CASE k # m
    <3>1. k \in 0..(m - 1) /\ g[k] = f[k] /\ (k # 0 => g[k - 1] = f[k - 1])
      BY <1>4, <2>2
    <3> QED BY <1>7, <3>1
  <2> QED BY <2>1, <2>2
<1>9. g = [k \in 0..m |-> g[k]]
  OBVIOUS
<1> HIDE DEF g
<1>10. Sums(g, lists, d, m)
  BY <1>8, <1>9 DEF Sums
<1> QED BY <1>2, <1>10

\* What all lists add is a number.
LEMMA AddedType ==
  ASSUME NEW lists, Len(lists) \in Nat, NEW d,
         \A i \in 1..Len(lists) : lists[i].docs \in Seq(Doc)
  PROVE  Added(lists, d) \in Nat
<1> DEFINE N == Len(lists)
           upto == CHOOSE f : Sums(f, lists, d, N)
<1>1. Added(lists, d) = upto[N]
  BY DEF Added, Sums
<1>2. Sums(upto, lists, d, N)
  BY SumsThere
<1> HIDE DEF upto
<1>3. \A k \in 0..N : upto[k] = IF k = 0 THEN 0 ELSE upto[k - 1] + Contribution(lists, k, d)
  BY <1>2 DEF Sums
<1>4. \A k \in 1..N : Contribution(lists, k, d) \in Nat
  BY ContributionType
<1> DEFINE T == {m \in Nat : m <= N /\ upto[m] \notin Nat}
<1>5. ASSUME T # {} PROVE FALSE
  <2>1. PICK m \in T : \A y \in T : m <= y
    BY <1>5, LeastOf
  <2>2. m \in Nat /\ m <= N /\ upto[m] \notin Nat /\ m \in 0..N
    BY <2>1
  <2>3. m # 0
    BY <1>3, <2>2
  <2>4. m - 1 \in Nat /\ m - 1 <= N /\ ~(m <= m - 1) /\ m \in 1..N
    BY <2>2, <2>3
  <2>5. m - 1 \notin T
    BY <2>1, <2>4
  <2>6. upto[m - 1] \in Nat
    BY <2>4, <2>5
  <2>7. upto[m] = upto[m - 1] + Contribution(lists, m, d)
    BY <1>3, <2>2, <2>3
  <2> QED BY <1>4, <2>2, <2>4, <2>6, <2>7
<1>6. N \in Nat /\ N <= N
  OBVIOUS
<1> QED BY <1>1, <1>5, <1>6

\* A fusion score is a number.
LEMMA ScoreType ==
  ASSUME NEW lists, IsList(lists), NEW d,
         \A i \in DOMAIN lists : lists[i].docs \in Seq(Doc)
  PROVE  rrf_score(lists, d) \in Nat
<1>1. Len(lists) \in Nat /\ DOMAIN lists = 1..Len(lists)
  BY DEF IsList
<1>2. Added(lists, d) \in Nat
  BY <1>1, AddedType
<1> QED BY <1>2, BonusType DEF rrf_score

\* Scores that are numbers order the documents.
LEMMA OrderIsTotal ==
  ASSUME NEW S \in SUBSET Doc, NEW score, \A d \in S : score[d] \in Nat
  PROVE  /\ \A a, b \in S : a # b => score_desc_then_path(a, b, score) \/ score_desc_then_path(b, a, score)
         /\ \A a, b \in S : ~(score_desc_then_path(a, b, score) /\ score_desc_then_path(b, a, score))
         /\ \A a, b, c \in S : score_desc_then_path(a, b, score) /\ score_desc_then_path(b, c, score)
                               => score_desc_then_path(a, c, score)
<1>1. \A d \in S : d \in Nat /\ score[d] \in Nat
  BY CacheAssumptions
<1>2. \A a, b \in S : score_desc_then_path(a, b, score)
                        <=> (score[a] = score[b] /\ a < b) \/ score[a] > score[b]
  BY <1>1 DEF score_desc_then_path, NotFinite
<1> QED BY <1>1, <1>2

\* What comes before d, and d.
UpToIn(S, d, score) == {x \in S : x = d \/ score_desc_then_path(x, d, score)}

\* They can be put in order: each at the place that says how many come no
\* later.
LEMMA CanBeOrdered ==
  ASSUME NEW S \in SUBSET Doc, NEW score, \A d \in S : score[d] \in Nat
  PROVE  \E r \in SetToSeqs(S) : InOrder(r, score)
<1> DEFINE n == Cardinality(S)
           place(d) == Cardinality(UpToIn(S, d, score))
           f == [d \in S |-> place(d)]
           r == [i \in 1..n |-> CHOOSE d \in S : f[d] = i]
<1>1. IsFiniteSet(S) /\ n \in Nat
  BY CacheAssumptions, FS_Subset, FS_CardinalityType
<1>2. ASSUME NEW d \in S PROVE place(d) \in 1..n
  <2>1. UpToIn(S, d, score) \subseteq S /\ d \in UpToIn(S, d, score)
    BY DEF UpToIn
  <2>2. IsFiniteSet(UpToIn(S, d, score)) /\ place(d) \in Nat /\ place(d) <= n
    BY <1>1, <2>1, FS_Subset, FS_CardinalityType
  <2>3. place(d) # 0
    BY <2>1, <2>2, FS_EmptySet
  <2> QED BY <1>1, <2>2, <2>3
<1>3. ASSUME NEW a \in S, NEW b \in S, score_desc_then_path(a, b, score)
      PROVE  place(a) < place(b)
  <2>1. UpToIn(S, a, score) \subseteq UpToIn(S, b, score)
    <3> SUFFICES ASSUME NEW x \in S, x = a \/ score_desc_then_path(x, a, score)
                 PROVE  score_desc_then_path(x, b, score)
      BY DEF UpToIn
    <3> QED BY <1>3, OrderIsTotal
  <2>2. b \in UpToIn(S, b, score) /\ b \notin UpToIn(S, a, score)
    <3>1. b # a /\ ~score_desc_then_path(b, a, score)
      BY <1>3, OrderIsTotal
    <3> QED BY <3>1 DEF UpToIn
  <2>3. IsFiniteSet(UpToIn(S, b, score))
    <3>1. UpToIn(S, b, score) \subseteq S
      BY DEF UpToIn
    <3> QED BY <1>1, <3>1, FS_Subset
  <2>4. place(a) <= place(b) /\ place(a) # place(b) /\ place(a) \in Nat /\ place(b) \in Nat
    <3>1. UpToIn(S, a, score) # UpToIn(S, b, score)
      BY <2>2
    <3> QED BY <2>1, <2>3, <3>1, FS_Subset, FS_CardinalityType
  <2> QED BY <2>4
<1>4. f \in Injection(S, 1..n)
  <2>1. f \in [S -> 1..n]
    BY <1>2
  <2>2. ASSUME NEW a \in S, NEW b \in S, f[a] = f[b] PROVE a = b
    <3>1. place(a) = place(b) /\ place(a) \in Nat /\ place(b) \in Nat
      BY <1>2, <2>2
    <3>2. ~score_desc_then_path(a, b, score) /\ ~score_desc_then_path(b, a, score)
      BY <1>3, <3>1
    <3> QED BY <3>2, OrderIsTotal
  <2> HIDE DEF f
  <2> QED BY <2>1, <2>2 DEF Injection, IsInjective
<1>5. f \in Surjection(S, 1..n)
  <2>1. IsFiniteSet(1..n) /\ Cardinality(1..n) = n
    BY <1>1, FS_Interval
  <2> HIDE DEF f
  <2> QED BY <1>1, <1>4, <2>1, FS_Injection
<1>6. \A d \in S : f[d] = place(d)
  OBVIOUS
<1> HIDE DEF f, place
<1>7. \A i \in 1..n : r[i] \in S /\ f[r[i]] = i
  <2>1. \A i \in 1..n : \E d \in S : f[d] = i
    BY <1>5 DEF Surjection
  <2> QED BY <2>1
<1>8. r = [i \in 1..n |-> r[i]]
  OBVIOUS
<1> HIDE DEF r
<1>9. r \in SetToSeqs(S)
  <2>1. r \in [1..n -> S] /\ \A i, j \in 1..n : i # j => r[i] # r[j]
    BY <1>7, <1>8
  <2> QED BY <2>1 DEF SetToSeqs
<1>10. InOrder(r, score)
  <2>1. DOMAIN r = 1..n
    BY <1>8
  <2>2. ASSUME NEW i \in 1..n, NEW j \in 1..n, i < j
        PROVE  score_desc_then_path(r[i], r[j], score)
    <3>1. r[i] \in S /\ r[j] \in S /\ place(r[i]) = i /\ place(r[j]) = j /\ r[i] # r[j]
      BY <1>6, <1>7, <2>2
    <3>2. ~score_desc_then_path(r[j], r[i], score)
      <4>1. ~(place(r[j]) < place(r[i]))
        BY <1>1, <2>2, <3>1
      <4> QED BY <1>3, <3>1, <4>1
    <3> QED BY <3>1, <3>2, OrderIsTotal
  <2> QED BY <2>1, <2>2 DEF InOrder
<1> QED BY <1>9, <1>10

\* The first results of an order are in order.
LEMMA FirstInOrder ==
  ASSUME NEW S, NEW s \in Seq(S), NEW n \in Nat, NEW score, InOrder(s, score)
  PROVE  InOrder(First(n, s), score) /\ ToSet(First(n, s)) \subseteq ToSet(s)
<1>1. Len(s) \in Nat /\ DOMAIN s = 1..Len(s)
  OBVIOUS
<1> DEFINE m == Min({n, Len(s)})
<1>2. m \in Nat /\ m <= Len(s)
  BY <1>1, MinOfTwo
<1>3. First(n, s) = SubSeq(s, 1, m)
  BY DEF First
<1> HIDE DEF m
<1> DEFINE t == SubSeq(s, 1, m)
<1>4. DOMAIN t = 1..m /\ \A i \in 1..m : t[i] = s[i] /\ i \in DOMAIN s
  BY <1>1, <1>2
<1> HIDE DEF t
<1>5. InOrder(t, score)
  BY <1>4 DEF InOrder
<1>6. ToSet(t) \subseteq ToSet(s)
  BY <1>4 DEF ToSet
<1> QED BY <1>3, <1>5, <1>6 DEF t

\* Four times a score compares as the score.
LEMMA FourTimes ==
  ASSUME NEW a \in Nat, NEW b \in Nat
  PROVE  (4 * a = 4 * b <=> a = b) /\ (4 * a > 4 * b <=> a > b)
OBVIOUS

\* Documents that only have fusion scores are put in fusion order.
LEMMA FusionOrder ==
  ASSUME ScopeInv, NEW S \in SUBSET Fused(q.lists),
         NEW score, \A d \in S : score[d] = 4 * rrf_score(q.lists, d)
  PROVE  InOrder(First(Limit, Ordered(S, score)), rrf_scores(q.lists))
         /\ ToSet(First(Limit, Ordered(S, score))) \subseteq S
<1>0. S \in SUBSET Doc
  BY FusedIsRight
<1>1. \A d \in S : rrf_score(q.lists, d) \in Nat
  <2>1. IsList(q.lists) /\ \A i \in DOMAIN q.lists : q.lists[i].docs \in Seq(Doc)
    <3>1. \A i \in DOMAIN q.lists : q.lists[i].docs \in Seq(Right)
      BY DEF ScopeInv, Listed
    <3>2. Right \subseteq Doc
      BY DEF Right
    <3> HIDE DEF Right
    <3> QED BY <3>1, <3>2, SeqOfMore DEF ScopeInv
  <2> QED BY <2>1, ScoreType
<1>2. \A d \in S : score[d] \in Nat
  BY <1>1
<1> DEFINE o == Ordered(S, score)
           t == First(Limit, o)
<1>3. \E r \in SetToSeqs(S) : InOrder(r, score)
  BY <1>0, <1>2, CanBeOrdered
<1>4. IsFiniteSet(S)
  BY <1>0, CacheAssumptions, FS_Subset
<1>5. o \in Seq(S) /\ ToSet(o) = S /\ InOrder(o, score)
  BY <1>3, <1>4, OrderedIsAll
<1> HIDE DEF o
<1>6. InOrder(t, score) /\ ToSet(t) \subseteq S
  BY <1>5, Sizes, FirstInOrder
<1> HIDE DEF t
<1>7. \A d \in S : rrf_scores(q.lists)[d] = rrf_score(q.lists, d)
  BY DEF rrf_scores
<1>8. \A a, b \in S : score_desc_then_path(a, b, score)
                        => score_desc_then_path(a, b, rrf_scores(q.lists))
  <2> SUFFICES ASSUME NEW a \in S, NEW b \in S, score_desc_then_path(a, b, score)
               PROVE  score_desc_then_path(a, b, rrf_scores(q.lists))
    OBVIOUS
  <2> DEFINE x == rrf_score(q.lists, a)
             y == rrf_score(q.lists, b)
  <2>1. x \in Nat /\ y \in Nat /\ score[a] = 4 * x /\ score[b] = 4 * y
        /\ rrf_scores(q.lists)[a] = x /\ rrf_scores(q.lists)[b] = y
    BY <1>1, <1>7
  <2> HIDE DEF x, y
  <2>2. (score[a] = score[b] <=> x = y) /\ (score[a] > score[b] <=> x > y)
    BY <2>1, FourTimes
  <2>3. NotFinite \notin {score[a], score[b]} /\ NotFinite \notin {x, y}
    BY <1>2, <2>1 DEF NotFinite
  <2> QED BY <2>1, <2>2, <2>3 DEF score_desc_then_path
<1>9. \A i \in DOMAIN t : t[i] \in S
  BY <1>6 DEF ToSet
<1>10. InOrder(t, rrf_scores(q.lists))
  BY <1>6, <1>8, <1>9 DEF InOrder
<1> QED BY <1>6, <1>10 DEF t, o

-----------------------------------------------------------------------------
(* Scores and their documents.                                              *)

\* A hook that is done has what it was asked for, each score its own.
HookDone(h) ==
  h.pc = "done" /\ h.res = "ok" =>
    DOMAIN h.got = ToSet(h.want) /\ \A k \in DOMAIN h.got : h.got[k].of = k

\* A hook goes on with what it was asked for until it is done.
LEMMA HookGoesOn ==
  ASSUME HookShape, CacheInv, NEW p \in Proc,
         Lookup(p) \/ Judge(p) \/ Store(p) \/ \E late : Call(p, late)
  PROVE  /\ hook'[p].want = hook[p].want /\ hook'[p].pc \in Busy \cup {"done"} /\ HookDone(hook'[p])
         /\ \A s \in Proc \ {p} : hook'[s] = hook[s]
<1> DEFINE h == hook[p]
<1>0. HookFields(h) /\ HookTrue(h)
  BY DEF HookShape, CacheInv
<1>1. ASSUME NEW r, HookFields(r), hook' = [hook EXCEPT ![p] = r], r.want = h.want,
             r.pc \in Busy \/ (r.pc = "done" /\ HookDone(r))
      PROVE  /\ hook'[p].want = hook[p].want /\ hook'[p].pc \in Busy \cup {"done"} /\ HookDone(hook'[p])
             /\ \A s \in Proc \ {p} : hook'[s] = hook[s]
  <2>1. hook'[p] = r /\ \A s \in Proc \ {p} : hook'[s] = hook[s]
    BY <1>1, HookBecomes
  <2>2. HookDone(r)
    BY <1>1 DEF HookDone, Busy
  <2> QED BY <1>1, <2>1, <2>2
<1>2. CASE Lookup(p)
  <2> DEFINE id   == model_identity(h.model)
             kept == [k \in {k \in ToSet(h.want) : Hits(p, k, id) # {}} |->
                        LET r == CHOOSE r \in Hits(p, k, id) : TRUE IN [of |-> r.of, by |-> r.by]]
             Found(got) == [h EXCEPT !.id = id, !.got = got,
                              !.pc = IF DOMAIN got # ToSet(h.want) THEN "call"
                                     ELSE IF h.model = "rerank" THEN "judge" ELSE "store",
                              !.res = IF DOMAIN got = ToSet(h.want) THEN "ok" ELSE "none"]
             Missed == [h EXCEPT !.id = id, !.pc = "call"]
  <2>1. hook' = [hook EXCEPT ![p] = Found(kept)] \/ hook' = [hook EXCEPT ![p] = Missed]
    BY <1>2, Zenon DEF Lookup
  <2>2. HookFields(Missed) /\ Missed.want = h.want /\ Missed.pc \in Busy
    BY <1>0 DEF HookFields, HookField, Busy
  <2>3. \A got : HookFields(Found(got)) /\ Found(got).want = h.want /\ Found(got).pc \in Busy
    BY <1>0 DEF HookFields, HookField, Busy
  <2> HIDE DEF Found, Missed, kept
  <2>4. PICK r : hook' = [hook EXCEPT ![p] = r] /\ HookFields(r) /\ r.want = h.want /\ r.pc \in Busy
    BY <2>1, <2>2, <2>3
  <2>5. hook'[p] = r /\ \A s \in Proc \ {p} : hook'[s] = hook[s]
    BY <2>4, HookBecomes
  <2>6. r.pc # "done"
    BY <2>4 DEF Busy
  <2> QED BY <2>4, <2>5, <2>6 DEF HookDone
<1>3. ASSUME NEW late, Call(p, late)
      PROVE  \E r : HookFields(r) /\ hook' = [hook EXCEPT ![p] = r] /\ r.want = h.want /\ r.pc \in Busy
  <2> DEFINE E(res) == [h EXCEPT !.pc = IF h.model = "rerank" THEN "judge" ELSE "store", !.res = res]
  <2>1. \/ \E got : hook' = [hook EXCEPT ![p] = [E("ok") EXCEPT !.got = got]]
        \/ hook' = [hook EXCEPT ![p] = E("error")]
        \/ hook' = [hook EXCEPT ![p] = E("expired")]
    BY <1>3, Zenon DEF Call
  <2>2. \A res : HookFields(E(res)) /\ E(res).want = h.want /\ E(res).pc \in Busy
    BY <1>0 DEF HookFields, HookField, Busy
  <2> HIDE DEF E
  <2>3. \A got : LET r == [E("ok") EXCEPT !.got = got]
                 IN  HookFields(r) /\ r.want = h.want /\ r.pc \in Busy
    BY <2>2 DEF HookFields, HookField
  <2>4. CASE \E got : hook' = [hook EXCEPT ![p] = [E("ok") EXCEPT !.got = got]]
    <3>1. PICK got : hook' = [hook EXCEPT ![p] = [E("ok") EXCEPT !.got = got]]
      BY <2>4
    <3> DEFINE r == [E("ok") EXCEPT !.got = got]
    <3>2. HookFields(r) /\ r.want = h.want /\ r.pc \in Busy /\ hook' = [hook EXCEPT ![p] = r]
      BY <2>3, <3>1
    <3> HIDE DEF r
    <3> QED BY <3>2
  <2> QED BY <2>1, <2>2, <2>4
<1>4. CASE Judge(p)
  <2> DEFINE r == [h EXCEPT !.pc = IF Usable(h) THEN "store" ELSE "done",
                            !.res = IF Usable(h) THEN "ok"
                                    ELSE IF h.res = "expired" THEN "expired" ELSE "error"]
  <2>1. hook' = [hook EXCEPT ![p] = r]
    BY <1>4 DEF Judge
  <2>2. HookFields(r) /\ r.want = h.want /\ (r.pc = "store" \/ (r.pc = "done" /\ r.res # "ok"))
    BY <1>0 DEF HookFields, HookField
  <2> HIDE DEF r
  <2>3. r.pc \in Busy \/ (r.pc = "done" /\ HookDone(r))
    BY <2>2 DEF Busy, HookDone
  <2> QED BY <1>1, <2>1, <2>2, <2>3
<1>5. CASE Store(p)
  <2> DEFINE r == [h EXCEPT !.pc = "done"]
  <2>1. hook' = [hook EXCEPT ![p] = r] /\ h.pc = "store"
    BY <1>5 DEF Store
  <2>2. HookFields(r) /\ r.want = h.want /\ r.pc = "done" /\ r.res = h.res /\ r.got = h.got
    BY <1>0 DEF HookFields, HookField
  <2> HIDE DEF r
  <2>3. HookDone(r)
    BY <1>0, <2>1, <2>2 DEF HookTrue, Busy, Says, HookDone
  <2> QED BY <1>1, <2>1, <2>2, <2>3
<1>6. ASSUME NEW late, Call(p, late)
      PROVE  /\ hook'[p].want = hook[p].want /\ hook'[p].pc \in Busy \cup {"done"} /\ HookDone(hook'[p])
             /\ \A s \in Proc \ {p} : hook'[s] = hook[s]
  <2>1. PICK r : HookFields(r) /\ hook' = [hook EXCEPT ![p] = r] /\ r.want = h.want /\ r.pc \in Busy
    BY <1>3, <1>6
  <2>2. hook'[p] = r /\ \A s \in Proc \ {p} : hook'[s] = hook[s]
    BY <2>1, HookBecomes
  <2>3. r.pc # "done"
    BY <2>1 DEF Busy
  <2> QED BY <2>1, <2>2, <2>3 DEF HookDone
<1> QED BY <1>2, <1>4, <1>5, <1>6

\* The rerank is of the documents resolved, which the lists have; only a
\* query that was reranked says so, and then each document has its own score.
MixInv ==
  /\ HookDone(hook[Self])
  /\ q.pc = "rerank" => hook[Self].want = q.docs /\ hook[Self].pc \in Busy \cup {"done"}
  /\ q.pc \in {"resolve", "rerank", "assemble"} =>
       ToSet(q.cands) \subseteq Fused(q.lists) /\ ToSet(q.docs) \subseteq Fused(q.lists)
  /\ q.status # "NotRun" => q.pc = "assemble" \/ (q.pc = "off" /\ q.end # "none")
  /\ q.status = "Reranked" => \A d \in ToSet(q.docs) : q.got[d].of = d
  /\ ScoresAreNeverMixed

\* A query starts without a score.
LEMMA MixStart == Init => MixInv
<1> SUFFICES ASSUME Init PROVE MixInv
  OBVIOUS
<1>1. PICK w \in Worlds :
        /\ q = [NoQuery EXCEPT !.mode = w.mode, !.asked = w.asked, !.strict = w.strict]
        /\ hook = [p \in Proc |-> IF p \in (IF w.peer THEN Proc ELSE {Self}) THEN Idle
                                  ELSE [Idle EXCEPT !.pc = "off"]]
  BY DEF Init, CacheInit
<1>2. q.pc = "off" /\ q.end = "none" /\ q.status = "NotRun"
  BY <1>1 DEF NoQuery
<1>3. Self \in Proc
  BY ProcType
<1>4. hook[Self].pc # "done"
  BY <1>1, <1>3 DEF Idle
<1> QED BY <1>2, <1>4 DEF MixInv, HookDone, ScoresAreNeverMixed, Answered

\* The hook of the query in a step: it goes on, or the query turns to it or
\* away from it.
LEMMA SelfMoves ==
  ASSUME DeadlineInv, CacheInv, HookDone(hook[Self]), [Next]_vars
  PROVE  /\ HookDone(hook'[Self])
         /\ q.pc = "rerank" /\ q'.pc = "rerank" /\ hook[Self].pc \in Busy \cup {"done"} =>
              hook'[Self].want = hook[Self].want /\ hook'[Self].pc \in Busy \cup {"done"}
<1> DEFINE Goal == /\ HookDone(hook'[Self])
                   /\ q.pc = "rerank" /\ q'.pc = "rerank" /\ hook[Self].pc \in Busy \cup {"done"} =>
                        hook'[Self].want = hook[Self].want /\ hook'[Self].pc \in Busy \cup {"done"}
<1> SUFFICES Goal
  OBVIOUS
<1>0. Self \in Proc /\ Peer \in Proc /\ HookShape
  BY ProcType DEF DeadlineInv
<1>1. ASSUME hook'[Self] = hook[Self] PROVE Goal
  BY <1>1
<1>2. ASSUME NEW p \in Proc, Lookup(p) \/ Judge(p) \/ Store(p) \/ \E late : Call(p, late) PROVE Goal
  <2>1. /\ hook'[p].want = hook[p].want /\ hook'[p].pc \in Busy \cup {"done"} /\ HookDone(hook'[p])
        /\ \A s \in Proc \ {p} : hook'[s] = hook[s]
    BY <1>0, <1>2, HookGoesOn
  <2>2. CASE p = Self
    BY <2>1, <2>2
  <2>3. CASE p # Self
    BY <1>0, <1>1, <2>1, <2>3
  <2> QED BY <2>2, <2>3
<1>3. ASSUME NEW p \in Proc, NEW m, NEW want, Enter(p, m, want) \/ Leave(p)
      PROVE  hook'[p].pc # "done" /\ \A s \in Proc \ {p} : hook'[s] = hook[s]
  <2>1. CASE Enter(p, m, want)
    <3> DEFINE r == [Idle EXCEPT !.pc = "lookup", !.model = m, !.want = want]
    <3>1. HookFields(r) /\ r.pc = "lookup" /\ hook' = [hook EXCEPT ![p] = r]
      BY <2>1 DEF Enter, HookFields, HookField, Idle
    <3> HIDE DEF r
    <3> QED BY <1>0, <3>1, HookBecomes
  <2>2. CASE Leave(p)
    <3>1. HookFields(Idle) /\ Idle.pc = "idle" /\ hook' = [hook EXCEPT ![p] = Idle]
      BY <2>2 DEF Leave, HookFields, HookField, Idle
    <3> QED BY <1>0, <3>1, HookBecomes
  <2> QED BY <1>3, <2>1, <2>2
<1>4. CASE Expand \/ Expanded \/ Resolved \/ Reranked
  <2>1. /\ UNCHANGED hook \/ (\E m, want : Enter(Self, m, want)) \/ Leave(Self)
        /\ q.pc # "rerank" \/ q' = [q EXCEPT !.pc = "assemble", !.status = RerankStatus(hook[Self].res),
                                             !.got = IF hook[Self].res = "ok" THEN hook[Self].got ELSE <<>>]
    BY <1>4 DEF Expand, Expanded, Resolved, Reranked
  <2>2. q.pc # "rerank" \/ q'.pc # "rerank"
    BY <2>1 DEF DeadlineInv, QueryShape, QueryField
  <2>3. CASE UNCHANGED hook
    BY <1>1, <2>3
  <2>4. CASE (\E m, want : Enter(Self, m, want)) \/ Leave(Self)
    BY <1>0, <1>3, <2>2, <2>4 DEF HookDone
  <2> QED BY <2>1, <2>3, <2>4
<1>5. ASSUME NEW m \in Model, PeerEnters(m) PROVE Goal
  <2>1. hook[Peer].pc = "idle" /\ \E want : Enter(Peer, m, want)
    BY <1>5, Zenon DEF PeerEnters
  <2>2. hook'[Peer].pc # "done" /\ \A s \in Proc \ {Peer} : hook'[s] = hook[s]
    BY <1>0, <1>3, <2>1
  <2>3. CASE Self = Peer
    BY <2>1, <2>2, <2>3 DEF HookDone, Busy
  <2>4. CASE Self # Peer
    BY <1>0, <1>1, <2>2, <2>4
  <2> QED BY <2>3, <2>4
<1>6. CASE SelfHook
  BY <1>0, <1>2, <1>6 DEF SelfHook
<1>7. CASE PeerHook
  BY <1>0, <1>2, <1>7 DEF PeerHook
<1>8. ASSUME NEW m \in Model, Replace(m) PROVE Goal
  BY <1>1, <1>8 DEF Replace
<1>9. CASE \/ Start \/ Scope \/ SearchLeg \/ LegsDone \/ Fuse \/ Resolve \/ assemble_results \/ DeadlinePasses
           \/ clear_at \/ (\E d \in Doc : Deactivate(d)) \/ (\E c \in Coll : SetIncluded(c)) \/ UNCHANGED vars
  <2>1. UNCHANGED hook
    BY <1>9 DEF Start, Scope, SearchLeg, LegsDone, Fuse, Resolve, assemble_results, DeadlinePasses, clear_at,
                Deactivate, SetIncluded, vars, cacheVars
  <2> QED BY <1>1, <2>1
<1> HIDE DEF Goal
<1> QED BY <1>4, <1>5, <1>6, <1>7, <1>8, <1>9 DEF Next, Step

\* No step gives a document the score of another, or mixes two kinds.
LEMMA MixStep ==
  ASSUME DeadlineInv, CacheInv, ScopeInv, MixInv, [Next]_vars
  PROVE  MixInv'
<1>0. Moves /\ HookDone(hook'[Self])
  BY StepMoves, SelfMoves DEF ScopeInv, MixInv
<1> USE DEF QueryField
<1>1. ASSUME q'.pc = "rerank" => hook'[Self].want = q'.docs /\ hook'[Self].pc \in Busy \cup {"done"},
             q'.pc \in {"resolve", "rerank", "assemble"} =>
               ToSet(q'.cands) \subseteq Fused(q'.lists) /\ ToSet(q'.docs) \subseteq Fused(q'.lists),
             q'.status # "NotRun" => q'.pc = "assemble" \/ (q'.pc = "off" /\ q'.end # "none"),
             q'.status = "Reranked" => \A d \in ToSet(q'.docs) : q'.got[d].of = d,
             ScoresAreNeverMixed'
      PROVE  MixInv'
  BY <1>0, <1>1 DEF MixInv, HookDone
<1>2. ~Answered' => ScoresAreNeverMixed'
  BY DEF ScoresAreNeverMixed
<1>3. CASE Waits
  <2>1. /\ q'.pc = q.pc /\ q'.docs = q.docs /\ q'.cands = q.cands /\ q'.lists = q.lists /\ q'.status = q.status
        /\ q'.end = q.end /\ q'.got = q.got /\ q'.results = q.results /\ q'.mode = q.mode
    BY <1>3 DEF Waits, Only
  <2>2. q'.pc = "rerank" => hook'[Self].want = q'.docs /\ hook'[Self].pc \in Busy \cup {"done"}
    BY <2>1, SelfMoves DEF MixInv
  <2>3. ScoresAreNeverMixed'
    BY <2>1 DEF MixInv, ScoresAreNeverMixed, Answered
  <2> QED BY <1>1, <2>1, <2>2, <2>3 DEF MixInv
<1>4. CASE Starts \/ Fails \/ Scopes \/ Searches \/ Expands
  <2>1. /\ q'.pc \in {"scope", "off", "legs"} /\ q'.status = q.status /\ ~Answered'
        /\ q.pc \in {"scope", "legs", "expand"} => q.status = "NotRun"
        /\ Starts => q.status = "NotRun"
        /\ Fails \/ Starts \/ q.pc \in {"scope", "legs", "expand"}
        /\ Fails => q'.pc = "off" /\ q'.end # "none"
        /\ q'.docs = q.docs /\ q'.got = q.got
    BY <1>4 DEF Starts, Fails, Scopes, Searches, Expands, Only, Answered, MixInv
  <2> QED BY <1>1, <1>2, <2>1 DEF MixInv
<1>5. CASE Answers
  <2>1. PICK res : Ends(res)
    BY <1>5 DEF Answers
  <2>2. /\ q'.pc = "off" /\ q'.end = "ok" /\ q'.results = res /\ q'.docs = q.docs /\ q'.lists = q.lists
        /\ q'.status = q.status /\ q'.got = q.got /\ q'.mode = q.mode
    BY <2>1 DEF Ends, Only
  <2>3. ASSUME q.mode \in {"query", "typed", "expanded"}
        PROVE  IF q.status = "Reranked" THEN \A d \in ToSet(res) : q.got[d].of = d
               ELSE ToSet(res) \subseteq Fused(q.lists) /\ InOrder(res, rrf_scores(q.lists))
    <3>1. CASE res = <<>>
      <4>1. ToSet(res) = {} /\ DOMAIN res = {}
        BY <3>1 DEF ToSet
      <4> QED BY <4>1 DEF InOrder
    <3>2. CASE res # <<>>
      <4> DEFINE score == [d \in ToSet(q.docs) |-> BlendedScore(d)]
                 o == Ordered(ToSet(q.docs), score)
      <4>1. q.pc = "assemble" /\ res = First(Limit, o)
        BY <1>5, <2>2, <2>3, <3>2 DEF Answers, Ends
      <4>2. ToSet(q.docs) \subseteq Fused(q.lists)
        BY <4>1 DEF MixInv
      <4>3. CASE q.status = "Reranked"
        <5>1. \A d \in ToSet(q.docs) : q.got[d].of = d
          BY <4>3 DEF MixInv
        <5>2. ToSet(q.docs) \in SUBSET Doc
          BY <4>2, FusedIsRight
        <5>3. o \in Seq(ToSet(q.docs))
          BY <5>2, SortedDocs
        <5> HIDE DEF o
        <5>4. res \in Seq(ToSet(q.docs))
          BY <4>1, <5>3, Sizes, FirstFrom
        <5>5. \A d \in ToSet(res) : d \in ToSet(q.docs)
          <6> DEFINE S == ToSet(q.docs)
          <6>1. res \in Seq(S)
            BY <5>4
          <6> HIDE DEF S
          <6>2. \A i \in DOMAIN res : res[i] \in S
            BY <6>1
          <6> QED BY <6>2 DEF ToSet, S
        <5> QED BY <4>3, <5>1, <5>5
      <4>4. CASE q.status # "Reranked"
        <5>1. \A d \in ToSet(q.docs) : score[d] = 4 * rrf_score(q.lists, d)
          BY <4>4 DEF BlendedScore
        <5> HIDE DEF score
        <5> QED BY <4>1, <4>2, <4>4, <5>1, FusionOrder
      <4> QED BY <4>3, <4>4
    <3> QED BY <3>1, <3>2
  <2>4. ScoresAreNeverMixed'
    BY <2>2, <2>3 DEF ScoresAreNeverMixed
  <2> QED BY <1>1, <2>2, <2>4 DEF MixInv
<1>6. CASE Fuses
  <2>1. /\ q.pc = "fuse" /\ q'.pc = "resolve" /\ q'.lists = q.lists /\ q'.docs = q.docs /\ q'.status = q.status
        /\ q'.cands = First(fetch_size, reciprocal_rank_fusion(q.lists))
    BY <1>6 DEF Fuses, Only
  <2>2. q.docs = <<>> /\ q.status = "NotRun"
    BY <2>1 DEF DeadlineInv, MixInv
  <2>3. ToSet(q'.cands) \subseteq Fused(q.lists)
    <3> DEFINE F == Fused(q.lists)
    <3>1. reciprocal_rank_fusion(q.lists) \in Seq(F)
      BY FusedIsRight, SortedDocs DEF reciprocal_rank_fusion
    <3> HIDE DEF F
    <3>2. q'.cands \in Seq(F)
      BY <2>1, <3>1, Sizes, FirstFrom
    <3>3. \A i \in DOMAIN q'.cands : q'.cands[i] \in F
      BY <3>2
    <3> QED BY <3>3 DEF ToSet, F
  <2>4. ToSet(q'.docs) = {}
    BY <2>1, <2>2 DEF ToSet
  <2> QED BY <1>1, <1>2, <2>1, <2>2, <2>3, <2>4 DEF Answered
<1>7. CASE Resolves
  <2>1. /\ q.pc = "resolve" /\ q'.pc = "resolve" /\ q'.lists = q.lists /\ q'.status = q.status
        /\ q.cands # <<>> /\ q'.cands = Tail(q.cands)
        /\ q'.docs = q.docs \/ q'.docs = Append(q.docs, Head(q.cands))
    BY <1>7 DEF Resolves, Only
  <2>2. q.status = "NotRun" /\ ToSet(q.cands) \subseteq Fused(q.lists) /\ ToSet(q.docs) \subseteq Fused(q.lists)
    BY <2>1 DEF MixInv
  <2>3. q.cands \in Seq(Right) /\ q.docs \in Seq(Right)
    BY DEF ScopeInv, Listed
  <2>4. ToSet(q'.cands) \subseteq Fused(q.lists) /\ ToSet(q'.docs) \subseteq Fused(q.lists)
    <3> DEFINE F == Fused(q.lists)
               c == q.cands
               s == q.docs
    <3>1. (\A i \in DOMAIN c : c[i] \in F) /\ \A i \in DOMAIN s : s[i] \in F
      BY <2>2 DEF ToSet
    <3>2. c \in Seq(F) /\ s \in Seq(F) /\ c # <<>>
      <4>1. c \in Seq(Right) /\ s \in Seq(Right)
        BY <2>3
      <4> HIDE DEF c, s, F, Right
      <4>2. Len(c) \in Nat /\ c = [i \in 1..Len(c) |-> c[i]] /\ DOMAIN c = 1..Len(c)
            /\ Len(s) \in Nat /\ s = [i \in 1..Len(s) |-> s[i]] /\ DOMAIN s = 1..Len(s)
        BY <4>1
      <4>3. c \in Seq(F) /\ s \in Seq(F)
        BY <3>1, <4>2
      <4> QED BY <2>1, <4>3 DEF c
    <3>3. q'.cands = Tail(c) /\ (q'.docs = s \/ q'.docs = Append(s, Head(c)))
      BY <2>1
    <3> HIDE DEF c, s, F
    <3>4. q'.cands \in Seq(F) /\ q'.docs \in Seq(F)
      <4>1. Tail(c) \in Seq(F) /\ Head(c) \in F
        BY <3>2
      <4>2. \A x \in F : Append(s, x) \in Seq(F)
        BY <3>2
      <4> QED BY <3>2, <3>3, <4>1, <4>2
    <3>5. (\A i \in DOMAIN q'.cands : q'.cands[i] \in F) /\ \A i \in DOMAIN q'.docs : q'.docs[i] \in F
      BY <3>4
    <3> QED BY <3>5 DEF ToSet, F
  <2> QED BY <1>1, <1>2, <2>1, <2>2, <2>4 DEF Answered
<1>8. CASE GoesOn
  <2>1. /\ q.pc \in {"legs", "expand", "resolve"} /\ q'.pc \in {"fuse", "expand", "assemble", "rerank"}
        /\ q'.pc \in {"assemble", "rerank"} => q.pc = "resolve"
        /\ q'.lists = q.lists /\ q'.docs = q.docs /\ q'.cands = q.cands /\ q'.status = q.status
        /\ q'.pc = "rerank" => Enter(Self, "rerank", q.docs)
    BY <1>8 DEF GoesOn, Only
  <2>2. q.status = "NotRun"
    BY <2>1 DEF MixInv
  <2>3. ASSUME Enter(Self, "rerank", q.docs)
        PROVE  hook'[Self].want = q.docs /\ hook'[Self].pc \in Busy
    <3> DEFINE r == [Idle EXCEPT !.pc = "lookup", !.model = "rerank", !.want = q.docs]
    <3>1. HookFields(r) /\ r.pc = "lookup" /\ r.want = q.docs /\ hook' = [hook EXCEPT ![Self] = r]
      BY <2>3 DEF Enter, HookFields, HookField, Idle
    <3> HIDE DEF r
    <3>2. hook'[Self] = r
      BY <3>1, ProcType, HookBecomes DEF DeadlineInv
    <3> QED BY <3>1, <3>2 DEF Busy
  <2> QED BY <1>1, <1>2, <2>1, <2>2, <2>3 DEF MixInv, Answered
<1>9. CASE Judges
  <2>1. /\ q.pc = "rerank" /\ q'.pc = "assemble" /\ hook[Self].pc = "done"
        /\ q'.status = RerankStatus(hook[Self].res)
        /\ q'.got = (IF hook[Self].res = "ok" THEN hook[Self].got ELSE <<>>)
        /\ q'.lists = q.lists /\ q'.docs = q.docs /\ q'.cands = q.cands
    BY <1>9 DEF Judges, Only
  <2>2. q'.status = "Reranked" => hook[Self].res = "ok"
    BY <2>1 DEF RerankStatus
  <2>3. hook[Self].want = q.docs /\ HookDone(hook[Self])
    BY <2>1 DEF MixInv
  <2>4. q'.status = "Reranked" => \A d \in ToSet(q'.docs) : q'.got[d].of = d
    BY <2>1, <2>2, <2>3 DEF HookDone
  <2> QED BY <1>1, <1>2, <2>1, <2>4 DEF MixInv, Answered
<1> QED BY <1>0, <1>3, <1>4, <1>5, <1>6, <1>7, <1>8, <1>9 DEF Moves

\* The results of a query that was reranked carry the scores of their own
\* sections; those of one that was not are in fusion order, whatever failed.
THEOREM ScoresAreTheirs == Spec => []ScoresAreNeverMixed
<1> DEFINE Inv == DeadlineInv /\ DocsInv /\ CacheInv /\ ScopeInv /\ MixInv
<1>1. Init => Inv
  BY DeadlineInit, DocsStart, CacheStart, ScopeStart, MixStart
<1>2. Inv /\ [Next]_vars => Inv'
  BY DeadlineStep, DocsStep, CacheStep, ScopeStep, MixStep DEF DeadlineInv
<1>3. Inv => ScoresAreNeverMixed
  BY DEF MixInv
<1> QED BY <1>1, <1>2, <1>3, PTL DEF Spec
=============================================================================
