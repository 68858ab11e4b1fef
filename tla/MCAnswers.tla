------------------------------ MODULE MCAnswers -----------------------------
(* For Passages: three families of documents: prose with code fences and     *)
(* multi-byte text, tables with rows longer than a window, and source files; *)
(* calls whose texts are shorter and longer than a context.                  *)
(* For Tools: four documents in two collections, one path a case variant of  *)
(* another's tail and one hash a prefix collision; bodies around the caps.   *)
EXTENDS Answers

ToolSections == <<1, 2, 1, 2, 1>>
ToolBodies == BoundedSeq({1, 4, 9}, 4)
ToolSuffixes == {<<-1>>, <<-1, 2>>, <<-1, 2, 1>>, <<-1, -1, 2>>}
ToolAsked == {<<>>, <<0>>, <<1>>, <<3>>}
ToolFolded == [s \in {"c1", "c2", "a", "A", "d"} |-> IF s = "A" THEN "a" ELSE s]

Doc(coll, path, hash, lens) ==
  [coll |-> coll, path |-> path, hash |-> hash, body |-> lens]
ToolCorpus ==
  <<Doc("c1", <<"a">>, <<1, 2>>, <<1, 1, 1>>),
    Doc("c1", <<"d", "A">>, <<1, 3>>, <<4>>),
    Doc("c2", <<"a">>, <<2, 2>>, <<9>>),
    Doc("c2", <<"d", "a">>, <<1, 2>>, <<1>>)>>

Path(p) == [kind |-> "path", arg |-> p]
ToolEntries ==
  {[kind |-> "docid", arg |-> h] : h \in {<<1>>, <<>>}}
  \cup {Path(p) : p \in {<<"a">>, <<"A">>, <<"c1", "a">>, <<"c1", "A">>, <<"d", "A">>}}
  \cup {[kind |-> "glob", arg |-> g] : g \in {{1, 3}, {}}}
ToolPatterns ==
  (BoundedSeq(ToolEntries, 2) \ {<<>>})
  \cup {<<e, [kind |-> "glob", arg |-> NotAGlob]>> : e \in ToolEntries}
  \cup {<<Path(<<"a">>), Path(<<"A">>), Path(p)>> : p \in {<<"a">>, <<"d", "A">>}}
ToolEdited == {<<>>, <<1, 4>>}
ToolScopes == {{}, {"c1"}}

(* Three contents, one in both collections; a content with two chunks, one    *)
(* whose text some path cuts otherwise, and a vector without a row.           *)
NearRow(c) == [content |-> c, active |-> TRUE]
NearRows == <<NearRow("x"), NearRow("y"), NearRow("x"), NearRow("z")>>
NearChunks == {<<"x", 0>>, <<"x", 5>>, <<"y", 0>>, <<"z", 0>>, <<>>}
NearSituations ==
  {[vecs |-> v, rows |-> NearRows] :
     v \in {f \in [1 .. 5 -> NearChunks] :
             /\ f[5] \in {<<"z", 0>>, <<"y", 0>>}
             /\ \/ Cardinality(Range(f)) = 5
                \/ f[1] = <<"x", 0>> /\ f[2] = f[1] /\ Cardinality(Range(f)) = 4}}
NearColl == <<"c1", "c1", "c2", "c2">>
NearCuts == [d \in 1 .. 4 |-> [c \in {"x", "y", "z"} |->
               IF c = "x" /\ d # 3 THEN {0, 5} ELSE {0}]]
NearSearch(kind, d, n, in, per) ==
  [kind |-> kind, doc |-> d, limit |-> n, scope |-> in, per_file |-> per]
NearSearches ==
  {NearSearch("vsearch", 1, n, in, per) :
     n \in {1, 2}, in \in {{}, {"c2"}}, per \in {1, 2}}
  \cup {NearSearch("similar", d, n, {}, 1) : d \in {2, 3}, n \in {1, 3, 4}}
NearRules ==
  {[ignored |-> i, capped |-> c] : i \in {{}, {1}}, c \in {{}, {"c2"}}}
NearAges == {{}, {{4}}}
NearPool == <<2, 3>>
=============================================================================
