---------------------------- MODULE MCVectorStore ----------------------------
(* Small instances of VectorStore.                                         *)
EXTENDS VectorStore

\* d1 and d3 live in one collection, d2 in the other.
TwoColls == [d \in Doc |-> IF d = "d2" THEN "c2" ELSE "c1"]

\* A hash has two chunks at fingerprint f1 and one at f2.
TwoChunks == [hf \in Hash \X Fp |-> IF hf[2] = "f1" THEN {0, 1} ELSE {0}]

Allow(crash, edit, remove, switch, rebuild, scoped, purge, failure) ==
  [crash |-> crash, edit |-> edit, remove |-> remove, switch |-> switch,
   rebuild |-> rebuild, scoped |-> scoped, purge |-> purge, failure |-> failure]

\* Everything that can separate the two stores, and changes of the fingerprint
\* with failures and a crash.
TwoStores == {Allow(2, 2, 1, 0, 1, 1, 1, 0), Allow(1, 2, 0, 2, 0, 0, 0, 1)}
\* Edits over three hashes, an excluded and an empty document, and no crash.
ManyEdits == {Allow(0, 4, 1, 0, 0, 0, 0, 0)}
=============================================================================
