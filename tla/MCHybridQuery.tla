--------------------------- MODULE MCHybridQuery ---------------------------
(* A small instance of HybridQuery: two documents in two collections.       *)
EXTENDS HybridQuery

MCCollOf == [d \in Doc |-> IF d = 1 THEN "a" ELSE "b"]
MCColl   == {"a", "b"}
Kept(keys) == [i \in DOMAIN keys |-> [key |-> keys[i], model |-> 1, of |-> keys[i], by |-> 1]]

\* Every query on every index; one query with a cache; the same with a peer.
MCWorlds ==
  [mode : {"query", "typed", "search", "vsearch"}, asked : {{}, {"b"}}, strict : BOOLEAN,
   default : {{}, {"a"}, MCColl}, peer : {FALSE}, left : {<<>>},
   found : [lex : {<<>>, <<1, 2>>}, vec : {<<>>, <<2, 1>>}]]
  \cup
  [mode : {"query"}, asked : {{}}, strict : BOOLEAN, default : {MCColl}, peer : {FALSE},
   left : {Kept(<<2>>), Kept(<<1, 2>>), Kept(<<Expansion, 2>>)},
   found : {[lex |-> <<1, 2>>, vec |-> <<2>>]}]
  \cup
  [mode : {"query"}, asked : {{}}, strict : {FALSE}, default : {MCColl}, peer : {TRUE},
   left : {Kept(<<2>>)}, found : {[lex |-> <<1, 2>>, vec |-> <<>>]}]

MCTyped  == <<Leg("vec", "t1", FALSE), Leg("lex", "t2", FALSE)>>
MCLines  == [v \in Version |->
               IF v = 1 THEN <<Leg("lex", "t1", FALSE), Leg("lex", "t1", FALSE), Leg("hyde", "t1", FALSE)>>
               ELSE <<Leg("junk", "t1", FALSE), Leg("lex", Original, FALSE), Leg("vec", "t1", FALSE)>>]
MCRelevance == [v \in Version |-> [d \in Doc |-> IF (v + d) % 2 = 0 THEN Scale ELSE 0]]
=============================================================================
