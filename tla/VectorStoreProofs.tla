-------------------------- MODULE VectorStoreProofs --------------------------
(* Proofs about VectorStore: for every set of documents, collections,       *)
(* hashes, fingerprints and chunks, and every bound, no vid ever holds the  *)
(* vector of another chunk than the one its row names.                      *)
EXTENDS VectorStore, FiniteSetTheorems, TLAPS

\* A vid of table R holds in graph g the vector of its row, or nothing.
Faithful(R, g) == \A r \in R : g[r.vid] \in {vector_of(r), Free, Tomb}

\* The allocator of a running embed is above every vid in use.
AllocatorAbove ==
  /\ phase \in {"embed", "final"} => \A r \in rows : r.vid < next_vid
  /\ \A q \in pending : q.vid < next_vid

\* The rows of the next checkpoint already have their vectors in memory, at
\* vids no committed row uses.
PendingInMemory ==
  \A q \in pending : /\ mem[q.vid] = vector_of(q)
                     /\ \A r \in rows : r.vid # q.vid

\* A checkpoint that has saved the file still has memory equal to the file.
FlushedIsSaved == flushed => disk = mem

\* Outside of the embed loop nothing waits for a checkpoint.
NothingWaits ==
  /\ phase \notin {"embed", "final"} => pending = {} /\ ~flushed
  /\ flushed => pending # {} \/ pending_deletes # {}

\* The inductive invariant of NoWrongVector.
VectorInv ==
  /\ TypeOK
  /\ Faithful(rows, disk)
  /\ Faithful(rows, mem)
  /\ AllocatorAbove
  /\ PendingInMemory
  /\ FlushedIsSaved
  /\ NothingWaits

-----------------------------------------------------------------------------
(* Types.                                                                  *)

\* A file holds at most one vector per vid.
LEMMA LiveBound ==
  ASSUME NEW g \in Graph
  PROVE  Cardinality(Live(g)) \in 0..(MaxVid + 1)
<1>1. /\ IsFiniteSet(Vid)
      /\ Cardinality(Vid) = MaxVid + 1
  BY FS_Interval, MaxVidType DEF Vid
<1>2. Live(g) \in SUBSET Vid
  BY DEF Live
<1>3. IsFiniteSet(Live(g)) /\ Cardinality(Live(g)) <= Cardinality(Vid)
  BY <1>1, <1>2, FS_Subset
<1>4. Cardinality(Live(g)) \in Nat
  BY <1>3, FS_CardinalityType
<1> QED BY <1>1, <1>3, <1>4, MaxVidType

\* Opening the store puts the allocator in range and above every row's vid.
LEMMA OpenAbove ==
  ASSUME rows' \in SUBSET Row, floor' \in 0..(MaxVid + 1), disk' \in Graph, Open
  PROVE  /\ mem' = disk'
         /\ next_vid' \in 0..(MaxVid + 1)
         /\ \A r \in rows' : r.vid < next_vid'
<1>1. Cardinality(Live(disk')) \in 0..(MaxVid + 1)
  BY LiveBound
<1>2. \A r \in rows' : r.vid \in 0..MaxVid
  BY DEF Row, Vid
<1>3. next_vid' \in {Cardinality(Live(disk')), floor'} \cup {r.vid + 1 : r \in rows'}
  BY DEF Open
<1>4. next_vid' \in 0..(MaxVid + 1)
  BY <1>1, <1>2, <1>3, MaxVidType
<1>5. \A r \in rows' : r.vid + 1 <= next_vid'
  BY DEF Open
<1> QED BY <1>2, <1>4, <1>5, MaxVidType DEF Open

\* Evicting keeps a graph a graph, and never puts a wrong vector at a vid.
LEMMA EvictFaithful ==
  ASSUME NEW g \in Graph, NEW V, NEW R \in SUBSET Row
  PROVE  /\ evict(g, V) \in Graph
         /\ Faithful(R, g) => Faithful(R, evict(g, V))
<1>1. evict(g, V) \in Graph
  BY DEF evict, Graph
<1>2. \A v \in Vid : evict(g, V)[v] \in {g[v], Tomb}
  BY DEF evict
<1>3. \A r \in R : r.vid \in Vid
  BY DEF Row
<1> QED BY <1>1, <1>2, <1>3 DEF Faithful

LEMMA NoGraphFaithful ==
  ASSUME NEW R \in SUBSET Row
  PROVE  NoGraph \in Graph /\ Faithful(R, NoGraph)
<1>1. \A r \in R : r.vid \in Vid
  BY DEF Row
<1> QED BY <1>1 DEF NoGraph, Graph, Faithful

\* The memory of a command that has ended is in its types.
LEMMA ClosedType ==
  ASSUME Closed
  PROVE  /\ phase' \in Phases /\ mem' \in Graph /\ next_vid' \in 0..(MaxVid + 1)
         /\ scope' \in SUBSET Coll /\ todo' \in SUBSET Hash /\ seen' \in SUBSET Hash
         /\ pending' \in SUBSET Row /\ pending_deletes' \in SUBSET Hash
         /\ sweep' \in SUBSET Hash /\ flushed' \in BOOLEAN
<1>1. mem' \in Graph
  BY NoGraphFaithful DEF Closed
<1>2. flushed' \in BOOLEAN
  BY DEF Closed
<1> QED BY <1>1, <1>2, MaxVidType DEF Closed, Phases

\* The vid after a vid is one the allocator may hold.
LEMMA NextVidType ==
  ASSUME NEW v \in 0..MaxVid
  PROVE  v + 1 \in 0..(MaxVid + 1)
  BY MaxVidType

\* Spending keeps the budget a budget.
LEMMA SpendType ==
  ASSUME left \in [Kinds -> Nat], NEW k \in Kinds, Spend(k)
  PROVE  left' \in [Kinds -> Nat]
  BY DEF Spend

\* A row of the documents table that is active names a hash.
LEMMA ActiveType ==
  ASSUME TypeOK, NEW d \in Doc
  PROVE  /\ docs[d] \in DocRow
         /\ docs[d].active \in BOOLEAN
         /\ docs[d].active => docs[d].hash \in Hash
         /\ docs[d].prev \in Hash \cup {NoHash}
<1>1. docs[d] \in DocRow
  BY DEF TypeOK
<1>2. CASE docs[d] = NoDoc
  BY <1>1, <1>2 DEF NoDoc
<1>3. CASE docs[d] \in [hash : Hash, prev : Hash \cup {NoHash}, active : BOOLEAN]
  BY <1>1, <1>3
<1> QED BY <1>1, <1>2, <1>3 DEF DocRow

\* The hashes the tables name are hashes.
LEMMA QueriesType ==
  ASSUME TypeOK
  PROVE  /\ \A D \in SUBSET Doc : HashesOf(D) \in SUBSET Hash
         /\ \A R \in SUBSET Row : {r.hash : r \in R} \in SUBSET Hash
         /\ orphaned_vector_hashes \in SUBSET Hash
         /\ excluded_only_vector_hashes \in SUBSET Hash
<1>1. \A R \in SUBSET Row : {r.hash : r \in R} \in SUBSET Hash
  BY DEF Row
<1>2. {r.hash : r \in rows} \in SUBSET Hash
  BY <1>1 DEF TypeOK
<1>3. \A D \in SUBSET Doc : HashesOf(D) \in SUBSET Hash
  BY ActiveType DEF HashesOf
<1> QED BY <1>1, <1>2, <1>3 DEF orphaned_vector_hashes, excluded_only_vector_hashes

\* Changing prev or active of a row that is there keeps the table's type.
LEMMA DocRowType ==
  ASSUME NEW r \in DocRow, r.hash \in Hash \/ r.active
  PROVE  /\ [r EXCEPT !.prev = NoHash] \in DocRow
         /\ [r EXCEPT !.active = FALSE] \in DocRow
<1>1. r # NoDoc
  <2>1. NoDoc.hash \notin Hash
    BY NoHashType DEF NoDoc
  <2>2. ~NoDoc.active
    BY DEF NoDoc
  <2> QED BY <2>1, <2>2
<1>2. r \in [hash : Hash, prev : Hash \cup {NoHash}, active : BOOLEAN]
  BY <1>1 DEF DocRow
<1>3. [r EXCEPT !.prev = NoHash] \in
        [hash : Hash, prev : Hash \cup {NoHash}, active : BOOLEAN]
  BY <1>2
<1>4. [r EXCEPT !.active = FALSE] \in
        [hash : Hash, prev : Hash \cup {NoHash}, active : BOOLEAN]
  BY <1>2
<1> QED BY <1>3, <1>4 DEF DocRow

\* Dropping donors keeps the documents table in its type.
LEMMA WithoutPrevType ==
  ASSUME TypeOK, NEW H \in SUBSET Hash
  PROVE  WithoutPrev(H) \in [Doc -> DocRow]
<1>1. \A d \in Doc : docs[d] \in DocRow
  BY DEF TypeOK
<1>2. \A d \in Doc : docs[d].hash \in H => [docs[d] EXCEPT !.prev = NoHash] \in DocRow
  BY <1>1, DocRowType
<1> QED BY <1>1, <1>2 DEF WithoutPrev

LEMMA InitType == Init => TypeOK
<1> SUFFICES ASSUME Init PROVE TypeOK
  OBVIOUS
<1>1. docs \in [Doc -> DocRow]
  BY DEF Init, DocRow, NoDoc
<1>2. disk \in Graph /\ mem \in Graph
  BY NoGraphFaithful DEF Init
<1>3. flushed \in BOOLEAN
  BY DEF Init
<1> QED BY <1>1, <1>2, <1>3, MaxVidType, BudgetsType DEF Init, TypeOK, Phases

\* Every action keeps the variables in their types.
LEMMA TypePreserved ==
  ASSUME TypeOK, [Next]_vars
  PROVE  TypeOK'
<1> USE DEF TypeOK, Phases
<1>1. ASSUME NEW d \in Doc, NEW h \in Hash, upsert_document(d, h) PROVE TypeOK'
  <2>1. docs' \in [Doc -> DocRow]
    <3>1. docs[d].prev \in Hash \cup {NoHash}
      BY ActiveType
    <3>2. hash_has_any_vector(docs[d].hash) => docs[d].hash \in Hash
      BY DEF hash_has_any_vector, Row
    <3>3. PICK q \in Hash \cup {NoHash} :
            docs' = [docs EXCEPT ![d] = [hash |-> h, active |-> TRUE, prev |-> q]]
      BY <1>1, <3>1, <3>2 DEF upsert_document
    <3>4. [hash |-> h, active |-> TRUE, prev |-> q] \in DocRow
      BY DEF DocRow
    <3> QED BY <3>3, <3>4
  <2>2. left' \in [Kinds -> Nat]
    BY <1>1, SpendType DEF upsert_document, Kinds
  <2> QED BY <1>1, <2>1, <2>2 DEF upsert_document, embed
<1>2. CASE StartUpdate
  BY <1>2, OpenAbove DEF StartUpdate, embed
<1>3. ASSUME NEW d \in Doc, deactivate(d) PROVE TypeOK'
  <2>1. docs' \in [Doc -> DocRow]
    <3>1. docs[d] \in DocRow /\ docs[d].active
      BY <1>3, ActiveType DEF deactivate
    <3>2. [docs[d] EXCEPT !.active = FALSE] \in DocRow
      BY <3>1, DocRowType
    <3>3. docs' = [docs EXCEPT ![d] = [docs[d] EXCEPT !.active = FALSE]]
      BY <1>3 DEF deactivate
    <3> QED BY <3>2, <3>3
  <2>2. left' \in [Kinds -> Nat]
    BY <1>3, SpendType DEF deactivate, Kinds
  <2> QED BY <1>3, <2>1, <2>2 DEF deactivate, embed
<1>4. CASE EndUpdate
  BY <1>4, ClosedType DEF EndUpdate, db, embed
<1>5. ASSUME NEW cols \in {Coll} \cup {{c} : c \in Coll}, StartEmbed(cols) PROVE TypeOK'
  BY <1>5, OpenAbove DEF StartEmbed, db, embed
<1>6. ASSUME NEW c \in Coll, NextCollection(c) PROVE TypeOK'
  <2>1. HashesOf({d \in Doc \ Excluded : CollOf[d] = c}) \in SUBSET Hash
    BY QueriesType
  <2> QED BY <1>6, <2>1 DEF NextCollection, db
<1>7. ASSUME NEW h \in Hash, EmbedDoc(h) PROVE TypeOK'
  <2>1. PICK f \in [Chunks[<<h, fp>>] -> Vid] :
       /\ FreshVids(h, f)
       /\ mem' = [v \in Vid |->
                    IF \E s \in DOMAIN f : f[s] = v
                    THEN <<h, fp, CHOOSE s \in DOMAIN f : f[s] = v>>
                    ELSE evict(mem, vids_of({h}))[v]]
       /\ \E last \in DOMAIN f : /\ \A s \in DOMAIN f : s <= last
                                 /\ next_vid' = f[last] + 1
       /\ pending' = pending \cup
            {[hash |-> h, seq |-> s, fp |-> fp, vid |-> f[s]] : s \in DOMAIN f}
    BY <1>7 DEF EmbedDoc
  <2>2. DOMAIN f \in SUBSET Seq
    <3>1. <<h, fp>> \in Hash \X Fp
      OBVIOUS
    <3>2. Chunks[<<h, fp>>] \in SUBSET Seq
      BY <3>1, ChunksType
    <3> QED BY <3>2
  <2>3. mem' \in Graph
    <3>1. \A v \in Vid : (\E s \in DOMAIN f : f[s] = v) =>
             <<h, fp, CHOOSE s \in DOMAIN f : f[s] = v>> \in Vec
      BY <2>2 DEF Vec
    <3>2. evict(mem, vids_of({h})) \in Graph
      BY EvictFaithful
    <3> QED BY <2>1, <3>1, <3>2 DEF Graph
  <2>4. next_vid' \in 0..(MaxVid + 1)
    <3>1. \A s \in DOMAIN f : f[s] \in 0..MaxVid
      BY DEF Vid
    <3>2. PICK last \in DOMAIN f : next_vid' = f[last] + 1
      BY <2>1
    <3> QED BY <3>1, <3>2, NextVidType
  <2>5. pending' \in SUBSET Row
    <3>1. \A s \in DOMAIN f :
            [hash |-> h, seq |-> s, fp |-> fp, vid |-> f[s]] \in Row
      BY <2>2 DEF Row
    <3> QED BY <2>1, <3>1
  <2>6. UNCHANGED flushed
    BY <1>7 DEF EmbedDoc
  <2> QED BY <1>7, <2>3, <2>4, <2>5, <2>6 DEF EmbedDoc, Take, db
<1>8. ASSUME NEW h \in Hash, EmbedBlank(h) PROVE TypeOK'
  <2>1. docs' \in [Doc -> DocRow]
    BY <1>8, WithoutPrevType DEF EmbedBlank
  <2> QED BY <1>8, <2>1 DEF EmbedBlank, Take
<1>9. ASSUME NEW h \in Hash, EmbedFails(h) PROVE TypeOK'
  <2>1. left' \in [Kinds -> Nat]
    BY <1>9, SpendType DEF EmbedFails, Kinds
  <2> QED BY <1>9, <2>1 DEF EmbedFails, Take, db
<1>10. CASE EndLoop
  BY <1>10 DEF EndLoop, db, embed
<1>11. CASE CheckpointFlush
  BY <1>11 DEF CheckpointFlush, db
<1>12. CASE CheckpointCommit
  <2>1. docs' \in [Doc -> DocRow]
    BY <1>12, WithoutPrevType, QueriesType DEF CheckpointCommit
  <2>2. flushed' \in BOOLEAN
    BY <1>12 DEF CheckpointCommit
  <2> QED BY <1>12, <2>1, <2>2 DEF CheckpointCommit
<1>13. CASE EndEmbed
  BY <1>13 DEF EndEmbed, db, embed
<1>14. CASE RebuildAll
  <2>1. left' \in [Kinds -> Nat]
    BY <1>14, SpendType DEF RebuildAll, Kinds
  <2>2. NoGraph \in Graph
    BY NoGraphFaithful
  <2> QED BY <1>14, <2>1, <2>2 DEF RebuildAll, db, embed
<1>15. CASE clear_all_vectors
  <2>1. rows' \in SUBSET Row
    BY <1>15 DEF clear_all_vectors
  <2> QED BY <1>15, <2>1, OpenAbove DEF clear_all_vectors, embed
<1>16. ASSUME NEW c \in Coll, RebuildScoped(c) PROVE TypeOK'
  <2>1. left' \in [Kinds -> Nat]
    BY <1>16, SpendType DEF RebuildScoped, Kinds
  <2>2. mem' \in Graph
    BY <1>16, EvictFaithful DEF RebuildScoped
  <2> QED BY <1>16, <2>1, <2>2 DEF RebuildScoped, db, embed
<1>17. CASE clear_vectors_for_collection
  BY <1>17 DEF clear_vectors_for_collection, embed
<1>18. CASE FlushScoped
  <2>1. torn' \in SUBSET Hash
    BY <1>18, QueriesType DEF FlushScoped
  <2> QED BY <1>18, <2>1, OpenAbove DEF FlushScoped, db, embed
<1>19. CASE StartCleanup
  BY <1>19, OpenAbove DEF StartCleanup, db, embed
<1>20. CASE SweepFlush
  <2>1. mem' \in Graph
    BY <1>20, EvictFaithful DEF SweepFlush
  <2>2. sweep' \in SUBSET Hash
    BY <1>20, QueriesType DEF SweepFlush, Sweepable
  <2> QED BY <1>20, <2>1, <2>2 DEF SweepFlush, db, embed
<1>21. CASE SweepCommit
  BY <1>21, ClosedType DEF SweepCommit, AfterSweep, embed
<1>22. CASE NothingToSweep
  BY <1>22, ClosedType DEF NothingToSweep, AfterSweep, db, embed
<1>23. ASSUME NEW c \in Coll, PurgeDocuments(c) PROVE TypeOK'
  <2>1. left' \in [Kinds -> Nat]
    BY <1>23, SpendType DEF PurgeDocuments, Kinds
  <2>2. docs' \in [Doc -> DocRow]
    BY <1>23 DEF PurgeDocuments, DocRow
  <2> QED BY <1>23, <2>1, <2>2, OpenAbove DEF PurgeDocuments, embed
<1>24. CASE PurgeVectors
  BY <1>24 DEF PurgeVectors, embed
<1>25. CASE SwitchConfig
  <2>1. left' \in [Kinds -> Nat]
    BY <1>25, SpendType DEF SwitchConfig, Kinds
  <2> QED BY <1>25, <2>1 DEF SwitchConfig, db, embed
<1>26. CASE Crash
  <2>1. left' \in [Kinds -> Nat]
    BY <1>26, SpendType DEF Crash, Kinds
  <2>2. torn' \in SUBSET Hash
    BY <1>26, QueriesType DEF Crash
  <2> QED BY <1>26, <2>1, <2>2, ClosedType DEF Crash, db
<1>27. CASE UNCHANGED vars
  BY <1>27 DEF vars
<1> QED
  BY <1>1, <1>2, <1>3, <1>4, <1>5, <1>6, <1>7, <1>8, <1>9, <1>10, <1>11, <1>12,
     <1>13, <1>14, <1>15, <1>16, <1>17, <1>18, <1>19, <1>20, <1>21, <1>22, <1>23,
     <1>24, <1>25, <1>26, <1>27 DEF Next, Loop, Rebuild, Sweep

-----------------------------------------------------------------------------
(* The invariant.                                                          *)

LEMMA VectorInit == Init => VectorInv
<1> SUFFICES ASSUME Init PROVE VectorInv
  OBVIOUS
<1>1. TypeOK
  BY InitType
<1>2. Faithful(rows, disk) /\ Faithful(rows, mem)
  BY DEF Init, Faithful
<1>3. AllocatorAbove /\ PendingInMemory /\ FlushedIsSaved /\ NothingWaits
  BY DEF Init, AllocatorAbove, PendingInMemory, FlushedIsSaved, NothingWaits
<1> QED BY <1>1, <1>2, <1>3 DEF VectorInv

\* Opening the store, outside of an embed loop, establishes the invariant.
LEMMA OpenStep ==
  ASSUME VectorInv, TypeOK', Open, Faithful(rows', disk'),
         phase \notin {"embed", "final"}, UNCHANGED <<pending, flushed>>
  PROVE  VectorInv'
<1>1. pending' = {} /\ ~flushed'
  BY DEF VectorInv, NothingWaits
<1>2. mem' = disk' /\ \A r \in rows' : r.vid < next_vid'
  BY OpenAbove DEF TypeOK
<1> QED BY <1>1, <1>2
  DEF VectorInv, Faithful, AllocatorAbove, PendingInMemory, FlushedIsSaved, NothingWaits

\* So does the end of a command, whatever rows it has deleted.
LEMMA ClosedStep ==
  ASSUME VectorInv, TypeOK', Closed, rows' \in SUBSET rows, UNCHANGED disk
  PROVE  VectorInv'
<1>1. Faithful(rows', mem')
  <2>1. rows' \in SUBSET Row /\ mem' = NoGraph
    BY DEF TypeOK, Closed
  <2> QED BY <2>1, NoGraphFaithful
<1>2. Faithful(rows', disk')
  BY DEF VectorInv, Faithful
<1>3. pending' = {} /\ ~flushed' /\ phase' \notin {"embed", "final"}
  BY DEF Closed
<1> QED BY <1>1, <1>2, <1>3
  DEF VectorInv, Faithful, AllocatorAbove, PendingInMemory, FlushedIsSaved, NothingWaits

\* And a step that deletes rows and leaves both graphs and the checkpoint's
\* rows alone.
LEMMA RowsShrinkStep ==
  ASSUME VectorInv, TypeOK', rows' \in SUBSET rows,
         UNCHANGED <<disk, mem, next_vid, pending, flushed>>,
         phase' \in {"embed", "final"} => phase \in {"embed", "final"},
         phase \in {"embed", "final"} =>
           phase' \in {"embed", "final"} \/ (pending = {} /\ ~flushed),
         flushed => UNCHANGED pending_deletes
  PROVE  VectorInv'
<1>1. Faithful(rows', disk') /\ Faithful(rows', mem')
  BY DEF VectorInv, Faithful
<1>2. AllocatorAbove'
  BY DEF VectorInv, AllocatorAbove
<1>3. PendingInMemory' /\ FlushedIsSaved'
  BY DEF VectorInv, PendingInMemory, FlushedIsSaved
<1>4. NothingWaits'
  BY DEF VectorInv, NothingWaits
<1> QED BY <1>1, <1>2, <1>3, <1>4 DEF VectorInv, Faithful

\* Embedding a document: its vids are fresh, so they are neither those of a
\* row nor those of a row waiting for the checkpoint.
LEMMA EmbedStep ==
  ASSUME VectorInv, TypeOK', NEW h \in Hash, EmbedDoc(h)
  PROVE  VectorInv'
<1>1. PICK f \in [Chunks[<<h, fp>>] -> Vid] :
       /\ FreshVids(h, f)
       /\ mem' = [v \in Vid |->
                    IF \E s \in DOMAIN f : f[s] = v
                    THEN <<h, fp, CHOOSE s \in DOMAIN f : f[s] = v>>
                    ELSE evict(mem, vids_of({h}))[v]]
       /\ \E last \in DOMAIN f : /\ \A s \in DOMAIN f : s <= last
                                 /\ next_vid' = f[last] + 1
       /\ pending' = pending \cup
            {[hash |-> h, seq |-> s, fp |-> fp, vid |-> f[s]] : s \in DOMAIN f}
  BY DEF EmbedDoc
<1>2. /\ UNCHANGED <<rows, disk, phase, flushed>>
      /\ ~flushed
      /\ phase = "embed"
  BY DEF EmbedDoc, Take, db
<1>3. DOMAIN f \in SUBSET Nat
  <2>1. <<h, fp>> \in Hash \X Fp
    BY DEF VectorInv, TypeOK
  <2>2. Chunks[<<h, fp>>] \in SUBSET Seq
    BY <2>1, ChunksType
  <2> QED BY <2>2, SeqType
<1>4. \A s \in DOMAIN f : f[s] \in Nat /\ next_vid <= f[s] /\ f[s] < next_vid'
  <2>1. \A s \in DOMAIN f : f[s] \in Nat /\ next_vid <= f[s]
    <3>1. next_vid \in Nat
      BY MaxVidType DEF VectorInv, TypeOK
    <3>2. \A s \in DOMAIN f : f[s] \in Nat
      BY MaxVidType DEF Vid
    <3>3. \A s \in DOMAIN f : f[s] >= next_vid
      BY <1>1 DEF FreshVids
    <3> QED BY <3>1, <3>2, <3>3
  <2>2. PICK last \in DOMAIN f : /\ \A s \in DOMAIN f : s <= last
                                 /\ next_vid' = f[last] + 1
    BY <1>1
  <2>3. \A s \in DOMAIN f : s = last \/ f[s] < f[last]
    BY <1>1, <1>3, <2>2 DEF FreshVids
  <2> QED BY <2>1, <2>2, <2>3
<1>5. next_vid \in Nat /\ next_vid' \in Nat /\ next_vid < next_vid'
  <2>1. next_vid \in Nat /\ next_vid' \in Nat
    BY MaxVidType DEF VectorInv, TypeOK
  <2>2. \E s \in DOMAIN f : TRUE
    BY <1>1
  <2> QED BY <1>4, <2>1, <2>2
<1>6. \A r \in rows \cup pending : r.vid \in Nat /\ r.vid \in Vid /\ r.vid < next_vid
  BY <1>2 DEF VectorInv, TypeOK, AllocatorAbove, Row, Vid
<1>7. \A r \in rows \cup pending : \A s \in DOMAIN f : f[s] # r.vid
  BY <1>4, <1>5, <1>6
<1>8. \A r \in rows \cup pending : mem'[r.vid] = evict(mem, vids_of({h}))[r.vid]
  BY <1>1, <1>6, <1>7
<1>9. Faithful(rows', mem')
  BY <1>2, <1>6, <1>8 DEF VectorInv, Faithful, evict
<1>10. \A q \in pending : mem'[q.vid] = vector_of(q)
  <2>1. \A q \in pending : q.vid \notin vids_of({h})
    BY DEF VectorInv, PendingInMemory, vids_of
  <2> QED BY <1>6, <1>8, <2>1 DEF VectorInv, PendingInMemory, evict
<1>11. \A s \in DOMAIN f : mem'[f[s]] = <<h, fp, s>>
  <2>1. \A s, t \in DOMAIN f : f[s] = f[t] => s = t
    BY <1>1, <1>3, <1>4 DEF FreshVids
  <2> SUFFICES ASSUME NEW s \in DOMAIN f PROVE mem'[f[s]] = <<h, fp, s>>
    OBVIOUS
  <2>2. (CHOOSE t \in DOMAIN f : f[t] = f[s]) = s
    BY <2>1
  <2>3. f[s] \in Vid
    OBVIOUS
  <2> QED BY <1>1, <2>2, <2>3
<1>12. PendingInMemory'
  <2> SUFFICES ASSUME NEW q \in pending'
               PROVE  mem'[q.vid] = vector_of(q) /\ \A r \in rows : r.vid # q.vid
    BY <1>2 DEF PendingInMemory, vector_of
  <2>1. CASE q \in pending
    BY <1>10, <2>1 DEF VectorInv, PendingInMemory
  <2>2. ASSUME NEW s \in DOMAIN f, q = [hash |-> h, seq |-> s, fp |-> fp, vid |-> f[s]]
        PROVE  mem'[q.vid] = vector_of(q) /\ \A r \in rows : r.vid # q.vid
    BY <1>7, <1>11, <2>2 DEF vector_of
  <2> QED BY <1>1, <2>1, <2>2
<1>13. AllocatorAbove'
  <2>1. \A r \in rows \cup pending : r.vid < next_vid'
    BY <1>5, <1>6
  <2>2. \A q \in pending' : q.vid < next_vid'
    <3> SUFFICES ASSUME NEW q \in pending' PROVE q.vid < next_vid'
      OBVIOUS
    <3>1. ASSUME NEW s \in DOMAIN f, q = [hash |-> h, seq |-> s, fp |-> fp, vid |-> f[s]]
          PROVE  q.vid < next_vid'
      BY <1>4, <3>1
    <3> QED BY <1>1, <2>1, <3>1
  <2> QED BY <1>2, <2>1, <2>2 DEF AllocatorAbove
<1>14. Faithful(rows', disk')
  BY <1>2 DEF VectorInv, Faithful
<1>15. FlushedIsSaved' /\ NothingWaits'
  BY <1>2 DEF FlushedIsSaved, NothingWaits
<1> QED BY <1>9, <1>12, <1>13, <1>14, <1>15 DEF VectorInv, Faithful

\* Every step preserves the inductive invariant.
LEMMA VectorStep == VectorInv /\ [Next]_vars => VectorInv'
<1> SUFFICES ASSUME VectorInv, [Next]_vars PROVE VectorInv'
  OBVIOUS
<1>0. TypeOK /\ TypeOK'
  BY TypePreserved DEF VectorInv
<1> USE <1>0
<1>1. ASSUME NEW d \in Doc, NEW h \in Hash, upsert_document(d, h) PROVE VectorInv'
  BY <1>1, RowsShrinkStep DEF upsert_document, embed
<1>2. CASE StartUpdate
  BY <1>2, OpenStep DEF StartUpdate, embed, VectorInv
<1>3. ASSUME NEW d \in Doc, deactivate(d) PROVE VectorInv'
  BY <1>3, RowsShrinkStep DEF deactivate, embed
<1>4. CASE EndUpdate
  <2>1. CASE Closed
    BY <1>4, <2>1, ClosedStep DEF EndUpdate, db
  <2>2. CASE ~Closed
    BY <1>4, <2>2, RowsShrinkStep DEF EndUpdate, db, embed
  <2> QED BY <2>1, <2>2
<1>5. ASSUME NEW cols \in {Coll} \cup {{c} : c \in Coll}, StartEmbed(cols) PROVE VectorInv'
  BY <1>5, OpenStep DEF StartEmbed, db, embed, VectorInv
<1>6. ASSUME NEW c \in Coll, NextCollection(c) PROVE VectorInv'
  BY <1>6, RowsShrinkStep DEF NextCollection, db
<1>7. ASSUME NEW h \in Hash, EmbedDoc(h) PROVE VectorInv'
  BY <1>7, EmbedStep
<1>8. ASSUME NEW h \in Hash, EmbedBlank(h) PROVE VectorInv'
  BY <1>8, RowsShrinkStep DEF EmbedBlank
<1>9. ASSUME NEW h \in Hash, EmbedFails(h) PROVE VectorInv'
  BY <1>9, RowsShrinkStep DEF EmbedFails, db
<1>10. CASE EndLoop
  BY <1>10, RowsShrinkStep DEF EndLoop, db, embed
<1>11. CASE CheckpointFlush
  \* The file becomes the memory, which is as faithful.
  <2>1. Faithful(rows', disk') /\ Faithful(rows', mem')
    BY <1>11 DEF CheckpointFlush, db, VectorInv, Faithful
  <2>2. AllocatorAbove' /\ PendingInMemory'
    BY <1>11 DEF CheckpointFlush, db, VectorInv, AllocatorAbove, PendingInMemory
  <2>3. FlushedIsSaved' /\ NothingWaits'
    BY <1>11 DEF CheckpointFlush, VectorInv, FlushedIsSaved, NothingWaits
  <2> QED BY <2>1, <2>2, <2>3 DEF VectorInv, Faithful
<1>12. CASE CheckpointCommit
  \* The rows that come in have their vectors in memory, so in the file.
  <2>1. disk = mem /\ rows' \in SUBSET (rows \cup pending)
    BY <1>12 DEF CheckpointCommit, VectorInv, FlushedIsSaved
  <2>2. \A q \in pending : mem[q.vid] = vector_of(q) /\ q.vid < next_vid
    BY DEF VectorInv, PendingInMemory, AllocatorAbove
  <2>3. UNCHANGED <<disk, mem, next_vid, phase>> /\ pending' = {} /\ ~flushed'
    BY <1>12 DEF CheckpointCommit
  <2>4. Faithful(rows', disk') /\ Faithful(rows', mem')
    BY <2>1, <2>2, <2>3 DEF VectorInv, Faithful
  <2>5. AllocatorAbove'
    BY <2>1, <2>2, <2>3 DEF VectorInv, AllocatorAbove
  <2>6. PendingInMemory' /\ FlushedIsSaved' /\ NothingWaits'
    BY <2>3 DEF PendingInMemory, FlushedIsSaved, NothingWaits
  <2> QED BY <2>4, <2>5, <2>6 DEF VectorInv, Faithful
<1>13. CASE EndEmbed
  BY <1>13, RowsShrinkStep DEF EndEmbed, db, embed, VectorInv, NothingWaits
<1>14. CASE RebuildAll
  <2>1. Faithful(rows', disk')
    BY <1>14, NoGraphFaithful DEF RebuildAll, db, TypeOK
  <2>2. pending' = {} /\ ~flushed' /\ UNCHANGED <<rows, mem>> /\ phase' = "wiped"
    BY <1>14 DEF RebuildAll, db, embed, VectorInv, NothingWaits
  <2> QED BY <2>1, <2>2
    DEF VectorInv, Faithful, AllocatorAbove, PendingInMemory, FlushedIsSaved, NothingWaits
<1>15. CASE clear_all_vectors
  <2>1. Faithful(rows', disk')
    BY <1>15 DEF clear_all_vectors, Faithful
  <2> QED BY <1>15, <2>1, OpenStep DEF clear_all_vectors, embed
<1>16. ASSUME NEW c \in Coll, RebuildScoped(c) PROVE VectorInv'
  <2>1. Faithful(rows', mem')
    BY <1>16, EvictFaithful DEF RebuildScoped, db, TypeOK, VectorInv
  <2>2. pending' = {} /\ ~flushed' /\ UNCHANGED <<rows, disk>> /\ phase' = "evicted"
    BY <1>16 DEF RebuildScoped, db, embed, VectorInv, NothingWaits
  <2> QED BY <2>1, <2>2
    DEF VectorInv, Faithful, AllocatorAbove, PendingInMemory, FlushedIsSaved, NothingWaits
<1>17. CASE clear_vectors_for_collection
  BY <1>17, RowsShrinkStep DEF clear_vectors_for_collection, embed
<1>18. CASE FlushScoped
  <2>1. Faithful(rows', disk')
    BY <1>18 DEF FlushScoped, db, VectorInv
  <2> QED BY <1>18, <2>1, OpenStep DEF FlushScoped, embed
<1>19. CASE StartCleanup
  BY <1>19, OpenStep DEF StartCleanup, db, embed, VectorInv
<1>20. CASE SweepFlush
  <2>1. Faithful(rows', mem') /\ disk' = mem'
    BY <1>20, EvictFaithful DEF SweepFlush, db, TypeOK, VectorInv
  <2>2. pending' = {} /\ ~flushed' /\ UNCHANGED <<rows, phase>>
        /\ phase \notin {"embed", "final"}
    BY <1>20 DEF SweepFlush, db, embed, VectorInv, NothingWaits
  <2> QED BY <2>1, <2>2
    DEF VectorInv, Faithful, AllocatorAbove, PendingInMemory, FlushedIsSaved, NothingWaits
<1>21. CASE SweepCommit
  <2>1. CASE Closed
    BY <1>21, <2>1, ClosedStep DEF SweepCommit
  <2>2. CASE ~Closed
    BY <1>21, <2>2, RowsShrinkStep DEF SweepCommit, AfterSweep, embed
  <2> QED BY <2>1, <2>2
<1>22. CASE NothingToSweep
  <2>1. CASE Closed
    BY <1>22, <2>1, ClosedStep DEF NothingToSweep, db
  <2>2. CASE ~Closed
    BY <1>22, <2>2, RowsShrinkStep DEF NothingToSweep, AfterSweep, db, embed
  <2> QED BY <2>1, <2>2
<1>23. ASSUME NEW c \in Coll, PurgeDocuments(c) PROVE VectorInv'
  BY <1>23, OpenStep DEF PurgeDocuments, embed, VectorInv
<1>24. CASE PurgeVectors
  BY <1>24, RowsShrinkStep DEF PurgeVectors, embed
<1>25. CASE SwitchConfig
  BY <1>25, RowsShrinkStep DEF SwitchConfig, db, embed
<1>26. CASE Crash
  BY <1>26, ClosedStep DEF Crash, db
<1>27. CASE UNCHANGED vars
  BY <1>27, RowsShrinkStep DEF vars
<1> QED
  BY <1>1, <1>2, <1>3, <1>4, <1>5, <1>6, <1>7, <1>8, <1>9, <1>10, <1>11, <1>12,
     <1>13, <1>14, <1>15, <1>16, <1>17, <1>18, <1>19, <1>20, <1>21, <1>22, <1>23,
     <1>24, <1>25, <1>26, <1>27 DEF Next, Loop, Rebuild, Sweep

-----------------------------------------------------------------------------
(* Donors.                                                                 *)

\* A step that adds no row, and whatever it does to a document either leaves
\* its hash and its donor or leaves it none.
LEMMA DonorFrame ==
  ASSUME DonorOnlyWhilePending, rows' \in SUBSET rows,
         \A d \in Doc : \/ docs'[d].prev = NoHash
                        \/ docs'[d].hash = docs[d].hash /\ docs'[d].prev = docs[d].prev
  PROVE  DonorOnlyWhilePending'
  BY DEF DonorOnlyWhilePending, hash_has_any_vector

\* What dropping donors leaves of a document.
LEMMA WithoutPrevRows ==
  ASSUME TypeOK, NEW H \in SUBSET Hash, NEW d \in Doc
  PROVE  /\ WithoutPrev(H)[d].hash = docs[d].hash
         /\ docs[d].hash \in H => WithoutPrev(H)[d].prev = NoHash
         /\ docs[d].hash \notin H => WithoutPrev(H)[d].prev = docs[d].prev
<1>1. docs[d] \in DocRow
  BY DEF TypeOK
<1>2. /\ [docs[d] EXCEPT !.prev = NoHash].hash = docs[d].hash
      /\ [docs[d] EXCEPT !.prev = NoHash].prev = NoHash
  <2>1. CASE docs[d] = NoDoc
    BY <2>1 DEF NoDoc
  <2>2. CASE docs[d] \in [hash : Hash, prev : Hash \cup {NoHash}, active : BOOLEAN]
    BY <2>2
  <2> QED BY <1>1, <2>1, <2>2 DEF DocRow
<1> QED BY <1>2 DEF WithoutPrev

LEMMA DonorStep ==
  ASSUME TypeOK, DonorOnlyWhilePending, [Next]_vars
  PROVE  DonorOnlyWhilePending'
<1>1. ASSUME NEW d \in Doc, NEW h \in Hash, upsert_document(d, h) PROVE DonorOnlyWhilePending'
  \* A document gets a donor only if its new hash has no vector.
  <2>1. docs[d] = NoDoc => docs[d].prev = NoHash
    BY DEF NoDoc
  <2>2. PICK q : /\ docs' = [docs EXCEPT ![d] = [hash |-> h, active |-> TRUE, prev |-> q]]
                 /\ hash_has_any_vector(h) => q = NoHash
    BY <1>1 DEF upsert_document
  <2>3. docs'[d].hash = h /\ docs'[d].prev = q
    BY <2>2 DEF TypeOK
  <2>4. \A e \in Doc \ {d} : docs'[e] = docs[e]
    BY <2>2 DEF TypeOK
  <2>5. UNCHANGED rows
    BY <1>1 DEF upsert_document
  <2> QED BY <2>2, <2>3, <2>4, <2>5 DEF DonorOnlyWhilePending, hash_has_any_vector
<1>2. ASSUME NEW d \in Doc, deactivate(d) PROVE DonorOnlyWhilePending'
  <2>1. docs[d] \in DocRow
    BY DEF TypeOK
  <2>2. /\ [docs[d] EXCEPT !.active = FALSE].hash = docs[d].hash
        /\ [docs[d] EXCEPT !.active = FALSE].prev = docs[d].prev
    <3>1. CASE docs[d] = NoDoc
      BY <3>1 DEF NoDoc
    <3>2. CASE docs[d] \in [hash : Hash, prev : Hash \cup {NoHash}, active : BOOLEAN]
      BY <3>2
    <3> QED BY <2>1, <3>1, <3>2 DEF DocRow
  <2>3. docs' = [docs EXCEPT ![d] = [docs[d] EXCEPT !.active = FALSE]]
    BY <1>2 DEF deactivate
  <2>4. \A e \in Doc : docs'[e].hash = docs[e].hash /\ docs'[e].prev = docs[e].prev
    BY <2>2, <2>3 DEF TypeOK
  <2> QED BY <1>2, <2>4, DonorFrame DEF deactivate
<1>3. ASSUME NEW h \in Hash, EmbedBlank(h) PROVE DonorOnlyWhilePending'
  <2>1. docs' = WithoutPrev({h}) /\ UNCHANGED rows
    BY <1>3 DEF EmbedBlank
  <2>2. \A d \in Doc : /\ docs'[d].hash = docs[d].hash
                       /\ docs'[d].prev = NoHash \/ docs'[d].prev = docs[d].prev
    BY <2>1, WithoutPrevRows
  <2> QED BY <2>1, <2>2, DonorFrame
<1>4. CASE CheckpointCommit
  \* Whose rows come in loses its donor in the same transaction.
  <2> DEFINE H == {r.hash : r \in pending}
  <2>1. docs' = WithoutPrev(H) /\ rows' \in SUBSET (rows \cup pending)
    BY <1>4 DEF CheckpointCommit
  <2>2. H \in SUBSET Hash
    BY QueriesType DEF TypeOK
  <2>3. \A d \in Doc : /\ docs'[d].hash = docs[d].hash
                       /\ docs[d].hash \in H => docs'[d].prev = NoHash
                       /\ docs[d].hash \notin H => docs'[d].prev = docs[d].prev
    BY <2>1, <2>2, WithoutPrevRows
  <2> QED BY <2>1, <2>3 DEF DonorOnlyWhilePending, hash_has_any_vector
<1>5. ASSUME NEW c \in Coll, PurgeDocuments(c) PROVE DonorOnlyWhilePending'
  <2>1. /\ docs' = [d \in Doc |-> IF CollOf[d] = c THEN NoDoc ELSE docs[d]]
        /\ UNCHANGED rows
    BY <1>5 DEF PurgeDocuments
  <2>2. NoDoc.prev = NoHash
    BY DEF NoDoc
  <2> QED BY <2>1, <2>2, DonorFrame
<1>6. ASSUME UNCHANGED docs, rows' \in SUBSET rows PROVE DonorOnlyWhilePending'
  BY <1>6, DonorFrame
<1>7. CASE StartUpdate \/ EndUpdate \/ \E cols \in {Coll} \cup {{c} : c \in Coll} : StartEmbed(cols)
  BY <1>6, <1>7 DEF StartUpdate, EndUpdate, StartEmbed, db
<1>8. CASE (\E c \in Coll : NextCollection(c)) \/ (\E h \in Hash : EmbedDoc(h) \/ EmbedFails(h))
  BY <1>6, <1>8 DEF NextCollection, EmbedDoc, EmbedFails, db
<1>9. CASE EndLoop \/ CheckpointFlush \/ EndEmbed \/ UNCHANGED vars
  BY <1>6, <1>9 DEF EndLoop, CheckpointFlush, EndEmbed, db, vars
<1>10. CASE Rebuild
  BY <1>6, <1>10 DEF Rebuild, RebuildAll, clear_all_vectors, RebuildScoped,
                     clear_vectors_for_collection, FlushScoped, db
<1>11. CASE StartCleanup \/ Sweep
  BY <1>6, <1>11 DEF StartCleanup, Sweep, SweepFlush, SweepCommit, NothingToSweep, db
<1>12. CASE PurgeVectors \/ SwitchConfig \/ Crash
  BY <1>6, <1>12 DEF PurgeVectors, SwitchConfig, Crash, db
<1> QED
  BY <1>1, <1>2, <1>3, <1>4, <1>5, <1>7, <1>8, <1>9, <1>10, <1>11, <1>12 DEF Next, Loop

-----------------------------------------------------------------------------
(* What is done can be found.                                              *)

\* The phases in which memory is the index a command works on.
Working    == {"update", "embed", "final", "reclaim", "cleanup", "excluded", "purged"}
SweepPhase == {"reclaim", "cleanup", "excluded"}

\* Sweeps and batches leave nothing behind.
BatchInv ==
  /\ sweep # {} => phase \in SweepPhase
  /\ phase \notin {"embed", "final"} => pending_deletes = {}
  /\ phase = "wiped" => disk = NoGraph

\* What waits for the checkpoint is the first of its hash, or replaces rows
\* the checkpoint deletes.
FirstOfHash == \A q \in pending : q.hash \notin pending_deletes => ~hash_has_any_vector(q.hash)

OneRowPerVid == \A r, s \in rows \cup pending : r.vid = s.vid => r = s

\* A hash comes and goes with all its chunks.
Whole(R) ==
  \A r \in R : \A s \in Chunks[<<r.hash, r.fp>>] :
    \E t \in R : t.hash = r.hash /\ t.fp = r.fp /\ t.seq = s

\* The hashes whose vectors the file may have lost: what a kill would tear.
Gone == torn \cup sweep
             \cup (IF phase = "wiped" THEN {r.hash : r \in rows} ELSE {})
             \cup (IF flushed THEN pending_deletes ELSE {})

\* Graph g holds the vector of every row of R whose hash is not in H.
Holds(g, R, H) == \A r \in R : r.hash \notin H => g[r.vid] = vector_of(r)

SearchInv ==
  /\ VectorInv
  /\ BatchInv
  /\ FirstOfHash
  /\ OneRowPerVid
  /\ Whole(rows) /\ Whole(pending)
  /\ Holds(disk, rows, Gone)
  /\ phase \in Working => Holds(mem, rows, torn \cup sweep \cup pending_deletes)
  /\ phase \in {"evicted", "cleared"} => \A r \in rows : mem[r.vid] \in {disk[r.vid], Tomb}

LEMMA SearchInit == Init => SearchInv
<1> SUFFICES ASSUME Init PROVE SearchInv
  OBVIOUS
<1>1. rows = {} /\ pending = {} /\ sweep = {} /\ pending_deletes = {} /\ phase = "idle"
  BY DEF Init
<1> QED BY <1>1, VectorInit
  DEF SearchInv, BatchInv, FirstOfHash, OneRowPerVid, Whole, Holds, Working, SweepPhase

\* Deleting all rows of a hash together keeps the others whole.
LEMMA WholeWithout ==
  ASSUME NEW R, NEW S \in SUBSET R, Whole(R),
         \A r \in S, t \in R : t.hash = r.hash => t \in S
  PROVE  Whole(S)
  BY DEF Whole

\* A step that leaves rows, graphs and batch alone.
LEMMA SearchFrame ==
  ASSUME SearchInv, VectorInv',
         UNCHANGED <<rows, disk, mem, pending, pending_deletes, sweep, flushed, torn>>,
         phase' \in Working => phase \in Working,
         phase' \in {"evicted", "cleared", "wiped"} => UNCHANGED phase,
         phase # "wiped" \/ UNCHANGED phase,
         sweep = {} \/ phase' \in SweepPhase,
         pending_deletes = {} \/ phase' \in {"embed", "final"}
  PROVE  SearchInv'
<1>1. BatchInv'
  BY DEF SearchInv, BatchInv, SweepPhase
<1>2. FirstOfHash' /\ OneRowPerVid' /\ Whole(rows)' /\ Whole(pending)'
  BY DEF SearchInv, FirstOfHash, OneRowPerVid, Whole, hash_has_any_vector
<1>3. Gone' = Gone
  BY DEF Gone
<1>4. Holds(disk, rows, Gone)'
  BY <1>3 DEF SearchInv, Holds, vector_of
<1>5. phase' \in Working => Holds(mem, rows, torn \cup sweep \cup pending_deletes)'
  BY DEF SearchInv, Holds, vector_of
<1>6. phase' \in {"evicted", "cleared"} => \A r \in rows' : mem'[r.vid] \in {disk'[r.vid], Tomb}
  BY DEF SearchInv
<1> QED BY <1>1, <1>2, <1>4, <1>5, <1>6 DEF SearchInv

\* Opening the store.
LEMMA SearchOpen ==
  ASSUME SearchInv, VectorInv', Open, phase \in {"idle", "wiped", "cleared"},
         phase' \in Working, UNCHANGED <<pending, pending_deletes, sweep, flushed>>,
         rows' \in SUBSET rows, Whole(rows'), Holds(disk', rows', torn')
  PROVE  SearchInv'
<1>1. pending = {} /\ pending_deletes = {} /\ sweep = {} /\ ~flushed
  BY DEF SearchInv, VectorInv, NothingWaits, BatchInv, SweepPhase
<1>2. mem' = disk'
  BY DEF Open
<1>3. BatchInv'
  BY <1>1 DEF BatchInv, Working
<1>4. FirstOfHash' /\ OneRowPerVid' /\ Whole(pending)'
  BY <1>1 DEF SearchInv, FirstOfHash, OneRowPerVid, Whole
<1>5. Holds(disk, rows, Gone)'
  BY DEF Holds, Gone, vector_of
<1>6. Holds(mem, rows, torn \cup sweep \cup pending_deletes)'
  BY <1>2 DEF Holds, vector_of
<1>7. Whole(rows)'
  BY DEF Whole
<1> QED BY <1>3, <1>4, <1>5, <1>6, <1>7 DEF SearchInv, Working

\* The end of a command.
LEMMA SearchClosed ==
  ASSUME SearchInv, VectorInv', Closed, UNCHANGED disk,
         rows' \in SUBSET rows, Whole(rows'), Holds(disk, rows', torn')
  PROVE  SearchInv'
<1>1. /\ pending' = {} /\ pending_deletes' = {} /\ sweep' = {} /\ ~flushed'
      /\ phase' = "idle"
  BY DEF Closed
<1>2. BatchInv'
  BY <1>1 DEF BatchInv
<1>3. FirstOfHash' /\ OneRowPerVid' /\ Whole(pending)'
  BY <1>1 DEF SearchInv, FirstOfHash, OneRowPerVid, Whole
<1>4. Holds(disk, rows, Gone)'
  BY <1>1 DEF Holds, Gone, vector_of
<1>5. Whole(rows)'
  BY DEF Whole
<1> QED BY <1>1, <1>2, <1>3, <1>4, <1>5 DEF SearchInv, Working

\* Embedding a document evicts only vectors whose rows the checkpoint deletes.
LEMMA SearchEmbed ==
  ASSUME SearchInv, VectorInv', NEW h \in Hash, EmbedDoc(h)
  PROVE  SearchInv'
<1>1. PICK f \in [Chunks[<<h, fp>>] -> Vid] :
       /\ FreshVids(h, f)
       /\ mem' = [v \in Vid |->
                    IF \E s \in DOMAIN f : f[s] = v
                    THEN <<h, fp, CHOOSE s \in DOMAIN f : f[s] = v>>
                    ELSE evict(mem, vids_of({h}))[v]]
       /\ pending' = pending \cup
            {[hash |-> h, seq |-> s, fp |-> fp, vid |-> f[s]] : s \in DOMAIN f}
  BY DEF EmbedDoc
<1>2. /\ UNCHANGED <<rows, disk, fp, phase, sweep, torn, flushed>>
      /\ ~flushed /\ phase = "embed" /\ sweep = {}
      /\ pending_deletes' = IF hash_has_any_vector(h) THEN pending_deletes \cup {h}
                            ELSE pending_deletes
  BY DEF EmbedDoc, Take, db, SearchInv, BatchInv, SweepPhase
<1>3. \A r \in rows \cup pending : r.vid \in Nat /\ r.vid \in Vid /\ r.vid < next_vid
  BY <1>2 DEF SearchInv, VectorInv, TypeOK, AllocatorAbove, Row, Vid
<1>4. next_vid \in Nat
  BY MaxVidType DEF SearchInv, VectorInv, TypeOK
<1>5. \A s \in DOMAIN f : f[s] \in Nat /\ f[s] >= next_vid
  BY <1>1 DEF FreshVids, Vid
<1>6. \A r \in rows \cup pending, s \in DOMAIN f : f[s] # r.vid
  BY <1>3, <1>4, <1>5
<1>7. OneRowPerVid'
  <2>1. DOMAIN f \in SUBSET Nat
    <3>1. <<h, fp>> \in Hash \X Fp
      BY DEF SearchInv, VectorInv, TypeOK
    <3>2. Chunks[<<h, fp>>] \in SUBSET Seq
      BY <3>1, ChunksType
    <3> QED BY <3>2, SeqType
  <2>2. \A s, t \in DOMAIN f : f[s] = f[t] => s = t
    BY <1>1, <1>5, <2>1 DEF FreshVids
  <2> SUFFICES ASSUME NEW r \in rows \cup pending', NEW t \in rows \cup pending', r.vid = t.vid
               PROVE  r = t
    BY <1>2 DEF OneRowPerVid
  <2>3. r \in rows \cup pending \/ \E s \in DOMAIN f : r = [hash |-> h, seq |-> s, fp |-> fp, vid |-> f[s]]
    BY <1>1
  <2>4. t \in rows \cup pending \/ \E s \in DOMAIN f : t = [hash |-> h, seq |-> s, fp |-> fp, vid |-> f[s]]
    BY <1>1
  <2> QED BY <1>6, <2>2, <2>3, <2>4 DEF SearchInv, OneRowPerVid
<1>8. FirstOfHash'
  <2> SUFFICES ASSUME NEW q \in pending', q.hash \notin pending_deletes'
               PROVE  ~hash_has_any_vector(q.hash)
    BY <1>2 DEF FirstOfHash, hash_has_any_vector
  <2>1. q \in pending \/ q.hash = h
    BY <1>1
  <2> QED BY <1>2, <2>1 DEF SearchInv, FirstOfHash
<1>9. Whole(rows)' /\ Whole(pending)'
  <2>1. Whole(rows)'
    BY <1>2 DEF SearchInv, Whole
  <2>2. ASSUME NEW q \in pending', NEW s \in Chunks[<<q.hash, q.fp>>]
        PROVE  \E t \in pending' : t.hash = q.hash /\ t.fp = q.fp /\ t.seq = s
    <3>1. CASE q \in pending
      BY <1>1, <2>2, <3>1 DEF SearchInv, Whole
    <3>2. CASE q.hash = h /\ q.fp = fp
      <4>1. s \in DOMAIN f
        BY <2>2, <3>2
      <4>2. [hash |-> h, seq |-> s, fp |-> fp, vid |-> f[s]] \in pending'
        BY <1>1, <4>1
      <4> QED BY <3>2, <4>2
    <3> QED BY <1>1, <3>1, <3>2
  <2> QED BY <2>1, <2>2 DEF Whole
<1>10. Holds(disk, rows, Gone)'
  BY <1>2 DEF SearchInv, Holds, Gone, vector_of
<1>11. Holds(mem, rows, torn \cup sweep \cup pending_deletes)'
  <2> SUFFICES ASSUME NEW r \in rows, r.hash \notin torn \cup sweep \cup pending_deletes'
               PROVE  mem'[r.vid] = vector_of(r)
    BY <1>2 DEF Holds, vector_of
  <2>1. r.hash # h /\ mem[r.vid] = vector_of(r)
    BY <1>2 DEF SearchInv, Holds, Working, hash_has_any_vector
  <2>2. r.vid \notin vids_of({h})
    BY <2>1 DEF vids_of, SearchInv, OneRowPerVid
  <2> QED BY <1>1, <1>3, <1>6, <2>1, <2>2 DEF evict
<1>12. BatchInv'
  BY <1>2 DEF BatchInv
<1> QED BY <1>2, <1>7, <1>8, <1>9, <1>10, <1>11, <1>12 DEF SearchInv

\* A checkpoint's transaction replaces whole hashes by whole hashes, whose
\* vectors the file has.
LEMMA SearchCommit ==
  ASSUME SearchInv, VectorInv', CheckpointCommit
  PROVE  SearchInv'
<1>1. /\ flushed /\ disk = mem /\ sweep = {} /\ phase \in {"embed", "final"}
      /\ rows' = {r \in rows : ~Superseded(r)} \cup pending
      /\ pending' = {} /\ pending_deletes' = {} /\ ~flushed'
      /\ torn' = torn \ {r.hash : r \in pending}
      /\ UNCHANGED <<disk, mem, phase, sweep>>
  BY DEF CheckpointCommit, SearchInv, VectorInv, FlushedIsSaved, NothingWaits, BatchInv, SweepPhase
<1>2. ASSUME NEW r \in rows, ~Superseded(r)
      PROVE  r.hash \notin pending_deletes /\ \A q \in pending : q.hash # r.hash
  <2>1. r.hash \notin pending_deletes
    BY <1>2 DEF Superseded
  <2> QED BY <2>1 DEF SearchInv, FirstOfHash, hash_has_any_vector
<1>3. \A r, t \in rows : ~Superseded(r) /\ t.hash = r.hash => ~Superseded(t)
  BY <1>2 DEF Superseded
<1>4. Whole(rows)'
  <2>1. Whole({r \in rows : ~Superseded(r)})
    BY <1>3, WholeWithout DEF SearchInv
  <2> QED BY <1>1, <2>1 DEF SearchInv, Whole
<1>5. Holds(disk, rows, torn)'
  <2>1. \A q \in pending : disk[q.vid] = vector_of(q)
    BY <1>1 DEF SearchInv, VectorInv, PendingInMemory
  <2>2. ASSUME NEW r \in rows, ~Superseded(r), r.hash \notin torn'
        PROVE  disk[r.vid] = vector_of(r)
    <3>1. r.hash \notin torn /\ r.hash \notin pending_deletes
      BY <1>1, <1>2, <2>2
    <3> QED BY <1>1, <3>1 DEF SearchInv, Holds, Gone
  <2> QED BY <1>1, <2>1, <2>2 DEF Holds, vector_of
<1>6. OneRowPerVid' /\ FirstOfHash' /\ Whole(pending)'
  BY <1>1 DEF SearchInv, OneRowPerVid, FirstOfHash, Whole
<1>7. Holds(disk, rows, Gone)' /\ Holds(mem, rows, torn \cup sweep \cup pending_deletes)'
  BY <1>1, <1>5 DEF Holds, Gone, vector_of
<1>8. BatchInv'
  BY <1>1 DEF BatchInv
<1> QED BY <1>1, <1>4, <1>6, <1>7, <1>8 DEF SearchInv

\* A sweep evicts the vectors of exactly the hashes whose rows it will delete.
LEMMA SearchSweep ==
  ASSUME SearchInv, VectorInv', SweepFlush
  PROVE  SearchInv'
<1>1. /\ phase \in SweepPhase /\ sweep = {} /\ pending_deletes = {} /\ pending = {} /\ ~flushed
      /\ sweep' = Sweepable
      /\ mem' = evict(mem, vids_of(Sweepable)) /\ disk' = mem'
      /\ UNCHANGED <<rows, pending, pending_deletes, flushed, phase, torn>>
  BY DEF SweepFlush, db, embed, SearchInv, VectorInv, NothingWaits, BatchInv, SweepPhase
<1>2. ASSUME NEW r \in rows, r.hash \notin torn \cup Sweepable
      PROVE  mem'[r.vid] = vector_of(r)
  <2>1. mem[r.vid] = vector_of(r) /\ r.vid \in Vid
    BY <1>1, <1>2 DEF SearchInv, Holds, Working, SweepPhase, VectorInv, TypeOK, Row
  <2>2. r.vid \notin vids_of(Sweepable)
    BY <1>2 DEF vids_of, SearchInv, OneRowPerVid
  <2> QED BY <1>1, <2>1, <2>2 DEF evict
<1>3. Holds(disk, rows, Gone)' /\ Holds(mem, rows, torn \cup sweep \cup pending_deletes)'
  BY <1>1, <1>2 DEF Holds, Gone, vector_of
<1>4. FirstOfHash' /\ OneRowPerVid' /\ Whole(rows)' /\ Whole(pending)'
  BY <1>1 DEF SearchInv, FirstOfHash, OneRowPerVid, Whole
<1>5. BatchInv'
  BY <1>1 DEF BatchInv, SweepPhase
<1> QED BY <1>1, <1>3, <1>4, <1>5 DEF SearchInv, SweepPhase

LEMMA SearchStep ==
  ASSUME SearchInv, [Next]_vars
  PROVE  SearchInv'
<1>0. VectorInv /\ VectorInv' /\ TypeOK /\ TypeOK'
  BY VectorStep DEF SearchInv, VectorInv
<1> USE <1>0
<1>b. phase \notin SweepPhase => sweep = {}
  BY DEF SearchInv, BatchInv
<1>c. phase \in {"idle"} => Holds(disk, rows, torn)
  BY <1>b DEF SearchInv, VectorInv, NothingWaits, Holds, Gone, SweepPhase
<1>1. ASSUME NEW d \in Doc, NEW h \in Hash, upsert_document(d, h) PROVE SearchInv'
  BY <1>1, SearchFrame DEF upsert_document, embed, SearchInv, BatchInv
<1>2. CASE StartUpdate
  BY <1>2, <1>c, SearchOpen DEF StartUpdate, embed, Working, SearchInv
<1>3. ASSUME NEW d \in Doc, deactivate(d) PROVE SearchInv'
  BY <1>3, SearchFrame DEF deactivate, embed, SearchInv, BatchInv
<1>4. CASE EndUpdate
  <2>1. CASE Closed
    <3>1. phase = "update" /\ UNCHANGED <<rows, disk, torn>>
      BY <1>4 DEF EndUpdate, db
    <3>2. Holds(disk, rows, torn)
      BY <1>b, <3>1 DEF SearchInv, VectorInv, NothingWaits, Holds, Gone, SweepPhase
    <3> QED BY <2>1, <3>1, <3>2, SearchClosed DEF SearchInv
  <2>2. CASE ~Closed
    BY <1>4, <2>2, SearchFrame DEF EndUpdate, db, embed, Working, SweepPhase, SearchInv, BatchInv
  <2> QED BY <2>1, <2>2
<1>5. ASSUME NEW cols \in {Coll} \cup {{c} : c \in Coll}, StartEmbed(cols) PROVE SearchInv'
  BY <1>5, <1>c, SearchOpen DEF StartEmbed, db, embed, Working, SearchInv
<1>6. ASSUME NEW c \in Coll, NextCollection(c) PROVE SearchInv'
  BY <1>6, SearchFrame DEF NextCollection, db, SearchInv, BatchInv
<1>7. ASSUME NEW h \in Hash, EmbedDoc(h) PROVE SearchInv'
  BY <1>7, SearchEmbed
<1>8. ASSUME NEW h \in Hash, EmbedBlank(h) \/ EmbedFails(h) PROVE SearchInv'
  BY <1>8, SearchFrame DEF EmbedBlank, EmbedFails, db, Take, SearchInv, BatchInv
<1>9. CASE EndLoop
  BY <1>9, <1>b, SearchFrame DEF EndLoop, db, embed, Working, SweepPhase
<1>10. CASE CheckpointFlush
  \* The rows that are to be deleted have lost their vectors now.
  <2>1. /\ phase \in {"embed", "final"} /\ sweep = {} /\ flushed' /\ disk' = mem
        /\ UNCHANGED <<rows, mem, phase, pending, pending_deletes, sweep, torn>>
    BY <1>10, <1>b DEF CheckpointFlush, db, SweepPhase
  <2>2. Holds(mem, rows, torn \cup sweep \cup pending_deletes)
    BY <2>1 DEF SearchInv, Working
  <2>3. Holds(disk, rows, Gone)' /\ Holds(mem, rows, torn \cup sweep \cup pending_deletes)'
    BY <2>1, <2>2 DEF Holds, Gone, vector_of
  <2>4. FirstOfHash' /\ OneRowPerVid' /\ Whole(rows)' /\ Whole(pending)' /\ BatchInv'
    BY <2>1 DEF SearchInv, FirstOfHash, OneRowPerVid, Whole, BatchInv, hash_has_any_vector
  <2> QED BY <2>1, <2>3, <2>4 DEF SearchInv
<1>11. CASE CheckpointCommit
  BY <1>11, SearchCommit
<1>12. CASE EndEmbed
  BY <1>12, <1>b, SearchFrame DEF EndEmbed, db, embed, Working, SweepPhase
<1>13. CASE RebuildAll
  <2>1. /\ phase = "idle" /\ phase' = "wiped" /\ disk' = NoGraph
        /\ UNCHANGED <<rows, pending, pending_deletes, sweep>>
    BY <1>13 DEF RebuildAll, db, embed
  <2>2. pending = {} /\ pending_deletes = {} /\ sweep = {}
    BY <2>1 DEF SearchInv, VectorInv, NothingWaits, BatchInv, SweepPhase
  <2>3. Holds(disk, rows, Gone)'
    BY <2>1 DEF Holds, Gone
  <2>4. FirstOfHash' /\ OneRowPerVid' /\ Whole(rows)' /\ Whole(pending)' /\ BatchInv'
    BY <2>1, <2>2 DEF SearchInv, FirstOfHash, OneRowPerVid, Whole, BatchInv
  <2> QED BY <2>1, <2>3, <2>4 DEF SearchInv, Working
<1>14. CASE clear_all_vectors
  <2>1. rows' = {}
    BY <1>14 DEF clear_all_vectors
  <2>2. Whole(rows') /\ Holds(disk', rows', torn')
    BY <2>1 DEF Whole, Holds
  <2> QED BY <1>14, <2>1, <2>2, SearchOpen DEF clear_all_vectors, embed, Working
<1>15. ASSUME NEW c \in Coll, RebuildScoped(c) PROVE SearchInv'
  <2>1. /\ phase = "idle" /\ phase' = "evicted" /\ mem' = evict(disk, vids_of(NotShared(c)))
        /\ UNCHANGED <<rows, disk, pending, pending_deletes, sweep, flushed, torn>>
    BY <1>15 DEF RebuildScoped, db, embed
  <2>2. pending = {} /\ pending_deletes = {} /\ sweep = {}
    BY <2>1 DEF SearchInv, VectorInv, NothingWaits, BatchInv, SweepPhase
  <2>3. Holds(disk, rows, Gone)'
    BY <2>1 DEF SearchInv, Holds, Gone, vector_of
  <2>4. \A r \in rows : mem'[r.vid] \in {disk[r.vid], Tomb}
    BY <2>1 DEF evict, TypeOK, Row
  <2>5. FirstOfHash' /\ OneRowPerVid' /\ Whole(rows)' /\ Whole(pending)' /\ BatchInv'
    BY <2>1, <2>2 DEF SearchInv, FirstOfHash, OneRowPerVid, Whole, BatchInv
  <2> QED BY <2>1, <2>3, <2>4, <2>5 DEF SearchInv, Working
<1>16. CASE clear_vectors_for_collection
  <2>1. /\ phase = "evicted" /\ phase' = "cleared"
        /\ rows' = {r \in rows : \A c \in scope : r.hash \notin NotShared(c)}
        /\ UNCHANGED <<disk, mem, pending, pending_deletes, sweep, flushed, torn>>
    BY <1>16 DEF clear_vectors_for_collection, embed
  <2>2. pending = {} /\ pending_deletes = {} /\ sweep = {}
    BY <2>1 DEF SearchInv, VectorInv, NothingWaits, BatchInv, SweepPhase
  <2>3. Whole(rows)'
    <3>1. Whole(rows')
      BY <2>1, WholeWithout DEF SearchInv
    <3> QED BY <3>1 DEF Whole
  <2>4. Holds(disk, rows, Gone)'
    BY <2>1 DEF SearchInv, Holds, Gone, vector_of
  <2>5. \A r \in rows' : mem'[r.vid] \in {disk'[r.vid], Tomb}
    BY <2>1 DEF SearchInv
  <2>6. FirstOfHash' /\ OneRowPerVid' /\ Whole(pending)' /\ BatchInv'
    BY <2>1, <2>2 DEF SearchInv, FirstOfHash, OneRowPerVid, Whole, BatchInv
  <2> QED BY <2>1, <2>3, <2>4, <2>5, <2>6 DEF SearchInv, Working
<1>17. CASE FlushScoped
  \* A row that has lost its vector is known to have.
  <2>1. /\ phase = "cleared" /\ disk' = mem /\ UNCHANGED rows
        /\ torn' = torn \cup {r.hash : r \in {s \in rows : mem[s.vid] = Tomb}}
    BY <1>17 DEF FlushScoped, db
  <2>2. ASSUME NEW r \in rows, r.hash \notin torn' PROVE mem[r.vid] = vector_of(r)
    <3>1. mem[r.vid] = disk[r.vid] /\ r.hash \notin torn
      BY <2>1, <2>2 DEF SearchInv
    <3>2. r.hash \notin Gone
      BY <1>b, <2>1, <3>1 DEF Gone, SweepPhase, VectorInv, NothingWaits
    <3> QED BY <3>1, <3>2 DEF SearchInv, Holds
  <2>3. Holds(disk', rows', torn')
    BY <2>1, <2>2 DEF Holds
  <2> QED BY <1>17, <2>1, <2>3, SearchOpen DEF FlushScoped, embed, Working, SearchInv
<1>18. CASE StartCleanup
  BY <1>18, <1>c, SearchOpen DEF StartCleanup, db, embed, Working, SearchInv
<1>19. CASE SweepFlush
  BY <1>19, SearchSweep
<1>20. CASE SweepCommit
  <2>1. /\ sweep # {} /\ phase \in SweepPhase
        /\ rows' = {r \in rows : r.hash \notin sweep} /\ torn' = torn \ sweep
        /\ UNCHANGED disk
    BY <1>20, <1>b DEF SweepCommit
  <2>2. Whole(rows')
    BY <2>1, WholeWithout DEF SearchInv
  <2>3. Holds(disk, rows', torn')
    BY <2>1 DEF SearchInv, Holds, Gone, SweepPhase, VectorInv, NothingWaits
  <2>4. CASE Closed
    BY <2>1, <2>2, <2>3, <2>4, SearchClosed
  <2>5. CASE ~Closed
    <3>1. /\ phase' = "excluded" /\ sweep' = {}
          /\ UNCHANGED <<mem, pending, pending_deletes, flushed>>
      BY <1>20, <2>5 DEF SweepCommit, AfterSweep, embed
    <3>2. pending = {} /\ pending_deletes = {} /\ ~flushed
      BY <2>1 DEF SearchInv, VectorInv, NothingWaits, BatchInv, SweepPhase
    <3>3. Holds(disk, rows, Gone)'
      BY <2>1, <2>3, <3>1, <3>2 DEF Holds, Gone, vector_of
    <3>4. Holds(mem, rows, torn \cup sweep \cup pending_deletes)'
      BY <2>1, <3>1, <3>2 DEF SearchInv, Holds, Working, SweepPhase, vector_of
    <3>5. FirstOfHash' /\ OneRowPerVid' /\ Whole(rows)' /\ Whole(pending)' /\ BatchInv'
      BY <2>1, <2>2, <3>1, <3>2 DEF SearchInv, FirstOfHash, OneRowPerVid, Whole, BatchInv
    <3> QED BY <3>1, <3>3, <3>4, <3>5 DEF SearchInv
  <2> QED BY <2>4, <2>5
<1>21. CASE NothingToSweep
  <2>1. /\ phase \in SweepPhase /\ sweep = {} /\ UNCHANGED <<rows, disk, torn>>
    BY <1>21 DEF NothingToSweep, db, SweepPhase
  <2>2. CASE Closed
    <3>1. Holds(disk, rows, torn)
      BY <2>1 DEF SearchInv, VectorInv, NothingWaits, Holds, Gone, SweepPhase
    <3> QED BY <2>1, <2>2, <3>1, SearchClosed DEF SearchInv
  <2>3. CASE ~Closed
    BY <1>21, <2>1, <2>3, SearchFrame
       DEF NothingToSweep, AfterSweep, embed, Working, SweepPhase, SearchInv, BatchInv
  <2> QED BY <2>2, <2>3
<1>22. ASSUME NEW c \in Coll, PurgeDocuments(c) PROVE SearchInv'
  BY <1>22, <1>c, SearchOpen DEF PurgeDocuments, embed, Working, SearchInv
<1>23. CASE PurgeVectors
  <2>1. /\ phase = "purged" /\ phase' = "reclaim"
        /\ rows' = {r \in rows : \E d \in Doc : docs[d].hash = r.hash}
        /\ UNCHANGED <<disk, mem, pending, pending_deletes, sweep, flushed, torn>>
    BY <1>23 DEF PurgeVectors, embed
  <2>2. pending = {} /\ pending_deletes = {} /\ sweep = {}
    BY <2>1 DEF SearchInv, VectorInv, NothingWaits, BatchInv, SweepPhase
  <2>3. Whole(rows)'
    <3>1. Whole(rows')
      BY <2>1, WholeWithout DEF SearchInv
    <3> QED BY <3>1 DEF Whole
  <2>4. Holds(disk, rows, Gone)' /\ Holds(mem, rows, torn \cup sweep \cup pending_deletes)'
    BY <2>1 DEF SearchInv, Holds, Gone, Working, vector_of
  <2>5. FirstOfHash' /\ OneRowPerVid' /\ Whole(pending)' /\ BatchInv'
    BY <2>1, <2>2 DEF SearchInv, FirstOfHash, OneRowPerVid, Whole, BatchInv
  <2> QED BY <2>1, <2>3, <2>4, <2>5 DEF SearchInv
<1>24. CASE SwitchConfig
  BY <1>24, SearchFrame DEF SwitchConfig, db, embed, SearchInv, BatchInv
<1>25. CASE Crash
  \* What the kill tears is what the file had lost by then.
  <2>1. Closed /\ UNCHANGED <<rows, disk>> /\ torn' = Gone
    BY <1>25 DEF Crash, db, Gone
  <2> QED BY <2>1, SearchClosed DEF SearchInv
<1>26. CASE UNCHANGED vars
  BY <1>26, SearchFrame DEF vars, SearchInv, BatchInv
<1> QED
  BY <1>1, <1>2, <1>3, <1>4, <1>5, <1>6, <1>7, <1>8, <1>9, <1>10, <1>11, <1>12,
     <1>13, <1>14, <1>15, <1>16, <1>17, <1>18, <1>19, <1>20, <1>21, <1>22, <1>23,
     <1>24, <1>25, <1>26 DEF Next, Loop, Rebuild, Sweep

-----------------------------------------------------------------------------
(* Without kills, purges and scoped rebuilds nothing leaks.                *)

Untouched == \A b \in Budgets : left["crash"] = b["crash"]

BudgetInv ==
  /\ left["purge"] = 0 /\ left["scoped"] = 0
  /\ \E b \in Budgets : left["crash"] <= b["crash"]

\* Every vector of graph g is that of a row of R.
Reachable(g, R) == \A v \in Live(g) : \E r \in R : r.vid = v

\* Rows about to be deleted have no vector any more.
ReachInv ==
  /\ Reachable(mem, rows \cup pending)
  /\ Reachable(disk, rows \cup (IF flushed THEN pending ELSE {}))
  /\ \A r \in rows : r.hash \in pending_deletes => r.vid \notin Live(mem)
  /\ \A r \in rows : r.hash \in sweep => r.vid \notin Live(disk) \cup Live(mem)

LeakInv ==
  /\ SearchInv
  /\ BudgetInv
  /\ phase \notin {"evicted", "cleared", "purged"}
  /\ Untouched => ReachInv

\* An eviction leaves the vectors at other vids.
LEMMA EvictLive ==
  ASSUME NEW g \in Graph, NEW V
  PROVE  Live(evict(g, V)) = Live(g) \ V
  BY DEF Live, evict

LEMMA NoGraphLive == Live(NoGraph) = {}
  BY DEF Live, NoGraph

\* What a step may take from the budget.
LEMMA BudgetStep ==
  ASSUME TypeOK, BudgetInv, [Next]_vars
  PROVE  /\ BudgetInv'
         /\ Untouched' => Untouched /\ ~Crash
         /\ \A c \in Coll : ~RebuildScoped(c) /\ ~PurgeDocuments(c)
<1>0. \A k \in Kinds : left[k] \in Nat
  BY DEF TypeOK
<1>1. UNCHANGED left \/ \E k \in Kinds : Spend(k)
  <2>1. CASE \/ \E d \in Doc, h \in Hash : upsert_document(d, h)
             \/ StartUpdate \/ (\E d \in Doc : deactivate(d)) \/ EndUpdate
             \/ \E cols \in {Coll} \cup {{c} : c \in Coll} : StartEmbed(cols)
    BY <2>1 DEF upsert_document, StartUpdate, deactivate, EndUpdate, StartEmbed, Kinds
  <2>2. CASE Loop
    BY <2>2 DEF Loop, NextCollection, EmbedDoc, EmbedBlank, EmbedFails, EndLoop,
                CheckpointFlush, CheckpointCommit, EndEmbed, Kinds
  <2>3. CASE Rebuild
    BY <2>3 DEF Rebuild, RebuildAll, clear_all_vectors, RebuildScoped,
                clear_vectors_for_collection, FlushScoped, Kinds
  <2>4. CASE StartCleanup \/ Sweep \/ (\E c \in Coll : PurgeDocuments(c)) \/ PurgeVectors
    BY <2>4 DEF StartCleanup, Sweep, SweepFlush, SweepCommit, NothingToSweep,
                PurgeDocuments, PurgeVectors, Kinds
  <2>5. CASE SwitchConfig \/ Crash \/ UNCHANGED vars
    BY <2>5 DEF SwitchConfig, Crash, vars, Kinds
  <2> QED BY <2>1, <2>2, <2>3, <2>4, <2>5 DEF Next
<1>2. ASSUME NEW k \in Kinds, Spend(k)
      PROVE  /\ left[k] > 0 /\ left'[k] = left[k] - 1
             /\ \A j \in Kinds \ {k} : left'[j] = left[j]
  BY <1>2 DEF Spend, TypeOK
<1>3. {"crash", "purge", "scoped"} \subseteq Kinds
  BY DEF Kinds
<1>4. \A b \in Budgets : b["crash"] \in Nat
  BY <1>3, BudgetsType
<1>5. PICK b \in Budgets : left["crash"] <= b["crash"]
  BY DEF BudgetInv
<1>6. CASE UNCHANGED left
  <2>1. ~Spend("crash")
    BY <1>0, <1>2, <1>3, <1>6
  <2>2. BudgetInv' /\ (Untouched' => Untouched) /\ ~Crash
    BY <1>6, <2>1 DEF BudgetInv, Untouched, Crash
  <2> QED BY <2>2, <1>3, <1>0, <1>2, <1>6 DEF BudgetInv, RebuildScoped, PurgeDocuments
<1>7. ASSUME NEW k \in Kinds, Spend(k)
      PROVE  BudgetInv' /\ (Untouched' => Untouched /\ ~Crash)
  <2>1. k \notin {"purge", "scoped"}
    BY <1>2, <1>7 DEF BudgetInv
  <2>2. CASE k = "crash"
    <3>1. left'["crash"] < b["crash"]
      BY <1>0, <1>2, <1>3, <1>4, <1>5, <1>7, <2>2
    <3>2. ~Untouched'
      BY <1>0, <1>4, <3>1, <1>3, <1>7, <1>2, <2>2 DEF Untouched
    <3>3. BudgetInv'
      BY <1>0, <1>2, <1>3, <1>4, <1>7, <2>1, <2>2, <3>1 DEF BudgetInv
    <3> QED BY <3>2, <3>3
  <2>3. CASE k # "crash"
    <3>1. left'["crash"] = left["crash"]
      BY <1>2, <1>3, <1>7, <2>3
    <3>2. BudgetInv'
      BY <1>2, <1>3, <1>7, <2>1, <3>1 DEF BudgetInv
    <3>3. ~Crash
      BY <1>0, <1>2, <1>3, <3>1 DEF Crash
    <3>4. Untouched' => Untouched
      BY <3>1 DEF Untouched
    <3> QED BY <3>2, <3>3, <3>4
  <2> QED BY <2>2, <2>3
<1>8. \A c \in Coll : ~RebuildScoped(c) /\ ~PurgeDocuments(c)
  BY DEF BudgetInv, RebuildScoped, PurgeDocuments, Spend
<1> QED BY <1>1, <1>6, <1>7, <1>8

LEMMA LeakInit ==
  ASSUME \A b \in Budgets : b["purge"] = 0 /\ b["scoped"] = 0, Init
  PROVE  LeakInv
<1>1. BudgetInv
  <2>1. left \in Budgets /\ left \in [Kinds -> Nat]
    BY BudgetsType DEF Init
  <2>2. left["crash"] \in Nat
    BY <2>1 DEF Kinds
  <2> QED BY <2>1, <2>2 DEF BudgetInv
<1>2. ReachInv
  BY NoGraphLive DEF Init, ReachInv, Reachable
<1> QED BY <1>1, <1>2, SearchInit DEF LeakInv, Init

\* Opening the store, while nothing waits.
LEMMA ReachOpen ==
  ASSUME mem' = disk', Reachable(disk', rows'), UNCHANGED <<pending_deletes, sweep>>,
         pending_deletes = {}, sweep = {}
  PROVE  ReachInv'
  BY DEF ReachInv, Reachable, Live

\* The end of a command.
LEMMA ReachClosed ==
  ASSUME Closed, Reachable(disk', rows')
  PROVE  ReachInv'
<1>1. Live(mem') = {}
  BY NoGraphLive DEF Closed
<1> QED BY <1>1 DEF Closed, ReachInv, Reachable, Live

\* A step that leaves rows, graphs and batch alone.
LEMMA ReachFrame ==
  ASSUME ReachInv, UNCHANGED <<rows, disk, mem, pending, pending_deletes, sweep, flushed>>
  PROVE  ReachInv'
  BY DEF ReachInv, Reachable, Live

\* Embedding evicts the old vectors of the hash and adds those of its rows.
LEMMA ReachEmbed ==
  ASSUME SearchInv, ReachInv, NEW h \in Hash, EmbedDoc(h)
  PROVE  ReachInv'
<1>1. PICK f \in [Chunks[<<h, fp>>] -> Vid] :
       /\ mem' = [v \in Vid |->
                    IF \E s \in DOMAIN f : f[s] = v
                    THEN <<h, fp, CHOOSE s \in DOMAIN f : f[s] = v>>
                    ELSE evict(mem, vids_of({h}))[v]]
       /\ pending' = pending \cup
            {[hash |-> h, seq |-> s, fp |-> fp, vid |-> f[s]] : s \in DOMAIN f}
       /\ FreshVids(h, f)
  BY DEF EmbedDoc
<1>2. /\ UNCHANGED <<rows, disk, sweep, flushed>> /\ ~flushed /\ phase = "embed" /\ sweep = {}
      /\ pending_deletes' = IF hash_has_any_vector(h) THEN pending_deletes \cup {h}
                            ELSE pending_deletes
  BY DEF EmbedDoc, Take, db, SearchInv, BatchInv, SweepPhase
<1>3. mem \in Graph /\ rows \in SUBSET Row
  BY DEF SearchInv, VectorInv, TypeOK
<1>4. ASSUME NEW v \in Live(mem')
      PROVE  (\E s \in DOMAIN f : f[s] = v) \/ v \in Live(mem) \ vids_of({h})
  <2>1. v \in Vid /\ mem'[v] \notin {Free, Tomb}
    BY <1>4 DEF Live
  <2>2. (\E s \in DOMAIN f : f[s] = v) \/ evict(mem, vids_of({h}))[v] \notin {Free, Tomb}
    BY <1>1, <2>1
  <2>3. evict(mem, vids_of({h}))[v] \notin {Free, Tomb} => v \in Live(mem) \ vids_of({h})
    BY <2>1 DEF evict, Live
  <2> QED BY <2>2, <2>3
<1>5. Reachable(mem, rows \cup pending)'
  <2> SUFFICES ASSUME NEW v \in Live(mem') PROVE \E r \in rows \cup pending' : r.vid = v
    BY <1>2 DEF Reachable, Live
  <2>1. ASSUME NEW s \in DOMAIN f, f[s] = v PROVE \E r \in rows \cup pending' : r.vid = v
    <3>1. [hash |-> h, seq |-> s, fp |-> fp, vid |-> f[s]] \in pending'
      BY <1>1
    <3> QED BY <2>1, <3>1
  <2>2. CASE v \in Live(mem)
    BY <1>1, <2>2 DEF ReachInv, Reachable
  <2> QED BY <1>4, <2>1, <2>2
<1>6. ASSUME NEW r \in rows, r.hash \in pending_deletes', r.vid \in Live(mem') PROVE FALSE
  \* The vid of a row is not given out again.
  <2>1. \A s \in DOMAIN f : f[s] # r.vid
    <3>1. r.vid \in Nat /\ r.vid < next_vid /\ next_vid \in Nat
      BY <1>2, MaxVidType DEF SearchInv, VectorInv, TypeOK, AllocatorAbove, Row, Vid
    <3>2. \A s \in DOMAIN f : f[s] \in Nat /\ f[s] >= next_vid
      BY <1>1 DEF FreshVids, Vid
    <3> QED BY <3>1, <3>2
  <2>2. r.vid \in Live(mem) /\ r.vid \notin vids_of({h})
    BY <1>4, <1>6, <2>1
  <2>3. r.hash # h
    BY <2>2 DEF vids_of
  <2> QED BY <1>2, <1>6, <2>2, <2>3 DEF ReachInv
<1>7. Reachable(disk, rows \cup (IF flushed THEN pending ELSE {}))'
  BY <1>2 DEF ReachInv, Reachable, Live
<1> QED BY <1>2, <1>5, <1>6, <1>7 DEF ReachInv, Live

LEMMA ReachStep ==
  ASSUME SearchInv, SearchInv', ReachInv, [Next]_vars, ~Crash,
         phase \notin {"evicted", "cleared", "purged"},
         \A c \in Coll : ~RebuildScoped(c) /\ ~PurgeDocuments(c)
  PROVE  ReachInv'
<1>0. TypeOK /\ TypeOK'
  BY DEF SearchInv, VectorInv
<1>a. phase \notin {"embed", "final"} => pending = {} /\ pending_deletes = {} /\ ~flushed
  BY DEF SearchInv, VectorInv, NothingWaits, BatchInv
<1>b. phase \notin SweepPhase => sweep = {}
  BY DEF SearchInv, BatchInv
<1>c. phase \notin {"embed", "final"} => Reachable(disk, rows)
  BY <1>a DEF ReachInv, Reachable
<1>1. CASE StartUpdate \/ (\E cols \in {Coll} \cup {{c} : c \in Coll} : StartEmbed(cols))
           \/ StartCleanup
  <2>1. phase = "idle" /\ Open /\ UNCHANGED <<rows, disk, pending_deletes, sweep>>
    BY <1>1 DEF StartUpdate, StartEmbed, StartCleanup, db, embed
  <2>2. mem' = disk' /\ Reachable(disk', rows')
    BY <1>c, <2>1 DEF Open
  <2> QED BY <1>a, <1>b, <2>1, <2>2, ReachOpen DEF SweepPhase
<1>2. CASE EndUpdate \/ NothingToSweep
  <2>1. UNCHANGED <<rows, disk>> /\ phase \notin {"embed", "final"}
    BY <1>2 DEF EndUpdate, NothingToSweep, db
  <2>2. CASE Closed
    BY <1>c, <2>1, <2>2, ReachClosed
  <2>3. CASE ~Closed
    <3>1. CASE EndUpdate
      BY <2>1, <2>3, <3>1, ReachFrame DEF EndUpdate, embed
    <3>2. CASE NothingToSweep
      BY <2>1, <2>3, <3>2, ReachFrame DEF NothingToSweep, AfterSweep, embed
    <3> QED BY <1>2, <3>1, <3>2
  <2> QED BY <2>2, <2>3
<1>3. CASE \/ \E d \in Doc, h \in Hash : upsert_document(d, h)
           \/ \E d \in Doc : deactivate(d)
           \/ \E c \in Coll : NextCollection(c)
           \/ \E h \in Hash : EmbedBlank(h) \/ EmbedFails(h)
  BY <1>3, ReachFrame
     DEF upsert_document, deactivate, NextCollection, EmbedBlank, EmbedFails, Take, db, embed
<1>4. CASE EndLoop \/ EndEmbed \/ SwitchConfig \/ UNCHANGED vars
  BY <1>4, ReachFrame DEF EndLoop, EndEmbed, SwitchConfig, vars, db, embed
<1>5. ASSUME NEW h \in Hash, EmbedDoc(h) PROVE ReachInv'
  BY <1>5, ReachEmbed
<1>6. CASE CheckpointFlush
  <2>1. /\ flushed' /\ disk' = mem /\ phase \in {"embed", "final"}
        /\ UNCHANGED <<rows, mem, pending, pending_deletes, sweep>>
    BY <1>6 DEF CheckpointFlush, db
  <2> QED BY <1>b, <2>1 DEF ReachInv, Reachable, Live, SweepPhase
<1>7. CASE CheckpointCommit
  \* The rows that go have no vectors, the vectors that have waited have rows.
  <2>1. /\ flushed /\ disk = mem /\ phase \in {"embed", "final"}
        /\ rows' = {r \in rows : ~Superseded(r)} \cup pending
        /\ pending' = {} /\ pending_deletes' = {} /\ ~flushed'
        /\ UNCHANGED <<disk, mem, sweep>>
    BY <1>7 DEF CheckpointCommit, SearchInv, VectorInv, FlushedIsSaved, NothingWaits
  <2>2. \A r \in rows : Superseded(r) => r.hash \in pending_deletes
    BY DEF Superseded, SearchInv, FirstOfHash, hash_has_any_vector
  <2>3. ASSUME NEW v \in Live(mem) PROVE \E r \in rows' : r.vid = v
    <3>1. PICK r \in rows \cup pending : r.vid = v
      BY DEF ReachInv, Reachable
    <3> QED BY <2>1, <2>2, <3>1 DEF ReachInv
  <2>4. sweep' = {}
    BY <1>b, <2>1 DEF SweepPhase
  <2> QED BY <2>1, <2>3, <2>4 DEF ReachInv, Reachable, Live
<1>8. CASE RebuildAll
  <2>1. /\ phase = "idle" /\ disk' = NoGraph
        /\ UNCHANGED <<rows, mem, pending, pending_deletes, sweep, flushed>>
    BY <1>8 DEF RebuildAll, db, embed
  <2>2. Live(disk') = {}
    BY <2>1, NoGraphLive
  <2> QED BY <1>b, <2>1, <2>2 DEF ReachInv, Reachable, Live, SweepPhase
<1>9. CASE clear_all_vectors
  <2>1. phase = "wiped" /\ Open /\ UNCHANGED <<disk, pending_deletes, sweep>>
    BY <1>9 DEF clear_all_vectors, embed
  <2>2. disk' = NoGraph /\ mem' = disk'
    BY <2>1 DEF SearchInv, BatchInv, Open
  <2>3. Reachable(disk', rows')
    BY <2>2, NoGraphLive DEF Reachable
  <2> QED BY <1>a, <1>b, <2>1, <2>2, <2>3, ReachOpen DEF SweepPhase
<1>10. CASE SweepFlush
  <2>1. /\ phase \in SweepPhase /\ sweep' = Sweepable
        /\ mem' = evict(mem, vids_of(Sweepable)) /\ disk' = mem'
        /\ UNCHANGED <<rows, pending, pending_deletes, flushed>>
    BY <1>10 DEF SweepFlush, db, embed, SweepPhase
  <2>2. Live(mem') = Live(mem) \ vids_of(Sweepable)
    BY <1>0, <2>1, EvictLive DEF TypeOK
  <2>3. \A r \in rows : r.hash \in Sweepable => r.vid \in vids_of(Sweepable)
    BY DEF vids_of
  <2>4. pending = {} /\ pending_deletes = {} /\ ~flushed
    BY <1>a, <2>1 DEF SweepPhase
  <2>5. \A v \in Live(mem') : \E r \in rows : r.vid = v
    BY <2>2, <2>4 DEF ReachInv, Reachable
  <2> QED BY <2>1, <2>2, <2>3, <2>4, <2>5 DEF ReachInv, Reachable, Live
<1>11. CASE SweepCommit
  <2>1. /\ sweep # {} /\ phase \in SweepPhase
        /\ rows' = {r \in rows : r.hash \notin sweep} /\ UNCHANGED disk
    BY <1>11, <1>b DEF SweepCommit
  <2>2. Reachable(disk', rows')
    BY <1>c, <2>1 DEF ReachInv, Reachable, Live, SweepPhase
  <2>3. CASE Closed
    BY <2>2, <2>3, ReachClosed
  <2>4. CASE ~Closed
    \* Memory has lost the vectors of the rows that go, as the file has.
    <3>1. UNCHANGED <<mem, pending, pending_deletes, flushed>> /\ sweep' = {}
      BY <1>11, <2>4 DEF SweepCommit, AfterSweep, embed
    <3>2. pending = {} /\ pending_deletes = {} /\ ~flushed
      BY <1>a, <2>1 DEF SweepPhase
    <3>3. Reachable(mem', rows')
      BY <2>1, <3>1, <3>2 DEF ReachInv, Reachable, Live
    <3> QED BY <2>2, <3>1, <3>2, <3>3 DEF ReachInv, Reachable
  <2> QED BY <2>3, <2>4
<1>12. ~clear_vectors_for_collection /\ ~FlushScoped /\ ~PurgeVectors
  BY DEF clear_vectors_for_collection, FlushScoped, PurgeVectors
<1> QED
  BY <1>1, <1>2, <1>3, <1>4, <1>5, <1>6, <1>7, <1>8, <1>9, <1>10, <1>11, <1>12
  DEF Next, Loop, Rebuild, Sweep

LEMMA LeakStep ==
  ASSUME LeakInv, [Next]_vars
  PROVE  LeakInv'
<1>1. TypeOK /\ SearchInv' /\ BudgetInv' /\ (Untouched' => Untouched /\ ~Crash)
  BY SearchStep, BudgetStep DEF LeakInv, SearchInv, VectorInv
<1>2. \A c \in Coll : ~RebuildScoped(c) /\ ~PurgeDocuments(c)
  BY <1>1, BudgetStep DEF LeakInv
<1>3. Untouched' => ReachInv'
  BY <1>1, <1>2, ReachStep DEF LeakInv
<1>4. phase' \notin {"evicted", "cleared", "purged"}
  <2>1. CASE \/ \E d \in Doc, h \in Hash : upsert_document(d, h)
             \/ StartUpdate \/ (\E d \in Doc : deactivate(d)) \/ EndUpdate
             \/ \E cols \in {Coll} \cup {{c} : c \in Coll} : StartEmbed(cols)
    BY <2>1 DEF upsert_document, StartUpdate, deactivate, EndUpdate, StartEmbed, Closed, LeakInv
  <2>2. CASE Loop
    BY <2>2 DEF Loop, NextCollection, EmbedDoc, EmbedBlank, EmbedFails, EndLoop,
                CheckpointFlush, CheckpointCommit, EndEmbed, LeakInv
  <2>3. CASE Rebuild
    BY <1>2, <2>3 DEF Rebuild, RebuildAll, clear_all_vectors,
                      clear_vectors_for_collection, FlushScoped, LeakInv
  <2>4. CASE StartCleanup \/ Sweep \/ PurgeVectors
    BY <2>4 DEF StartCleanup, Sweep, SweepFlush, SweepCommit, NothingToSweep, AfterSweep,
                Closed, PurgeVectors, LeakInv
  <2>5. CASE SwitchConfig \/ Crash \/ UNCHANGED vars
    BY <2>5 DEF SwitchConfig, Crash, Closed, vars, LeakInv
  <2> QED BY <1>2, <2>1, <2>2, <2>3, <2>4, <2>5 DEF Next
<1> QED BY <1>1, <1>3, <1>4 DEF LeakInv

-----------------------------------------------------------------------------
\* The tables, the graphs and the state of a command stay in their types.
THEOREM VectorTypeCorrect == Spec => []TypeOK
<1>1. VectorInv => TypeOK
  BY DEF VectorInv
<1> QED BY <1>1, VectorInit, VectorStep, PTL DEF Spec

\* A vid never holds the vector of another chunk than its row's, whatever the
\* interleaving of embeds, rebuilds, sweeps, purges, configuration changes,
\* unlocked edits and kills between any two writes.
THEOREM VectorsFaithful == Spec => []NoWrongVector
<1>1. VectorInv => NoWrongVector
  BY DEF VectorInv, Faithful, NoWrongVector
<1> QED BY <1>1, VectorInit, VectorStep, PTL DEF Spec

\* The vectors of a replaced text are kept only while the new text waits for
\* its own, whatever checkpoints, rebuilds, kills and edits come between.
THEOREM DonorsAreReleased == Spec => []DonorOnlyWhilePending
<1>1. Init => DonorOnlyWhilePending
  BY DEF Init, NoDoc, DonorOnlyWhilePending
<1>2. TypeOK /\ DonorOnlyWhilePending /\ [Next]_vars => DonorOnlyWhilePending'
  BY DonorStep
<1> QED BY <1>1, <1>2, VectorTypeCorrect, PTL DEF Spec

\* What embed takes for done can be found, unless a kill or a race caught it
\* in a window where vectors go before rows.
THEOREM DoneCanBeFound == Spec => []DoneIsSearchable
<1>1. SearchInv /\ [Next]_vars => SearchInv'
  BY SearchStep
<1>2. SearchInv => DoneIsSearchable
  <2> SUFFICES ASSUME SearchInv, phase = "idle", NEW h \in ActiveHashes \ torn,
                      ~hash_needs_embed(h), NEW s \in Chunks[<<h, fp>>]
               PROVE  \E r \in rows : r.hash = h /\ r.fp = fp /\ r.seq = s
                                      /\ disk[r.vid] = vector_of(r)
    BY DEF DoneIsSearchable, Searchable
  <2>1. PICK r \in rows : r.hash = h /\ r.fp = fp
    BY DEF hash_needs_embed
  <2>2. PICK t \in rows : t.hash = h /\ t.fp = fp /\ t.seq = s
    BY <2>1 DEF SearchInv, Whole
  <2>3. h \notin Gone
    BY DEF SearchInv, VectorInv, NothingWaits, BatchInv, Gone, SweepPhase
  <2> QED BY <2>2, <2>3 DEF SearchInv, Holds
<1> QED BY <1>1, <1>2, SearchInit, PTL DEF Spec

\* Until a command is killed, no vector stays in the file that no row names,
\* whatever the order of edits, embeds, full rebuilds, failures, sweeps and
\* changes of the configuration. A purge deletes rows before the sweep looks for
\* them, and a scoped rebuild asks twice which rows to clear: both may leak.
THEOREM NothingLeaks ==
  ASSUME \A b \in Budgets : b["purge"] = 0 /\ b["scoped"] = 0
  PROVE  Spec => []NoUnreachableVector
<1>1. Init => LeakInv
  BY LeakInit
<1>2. LeakInv /\ [Next]_vars => LeakInv'
  BY LeakStep
<1>3. LeakInv => NoUnreachableVector
  <2> SUFFICES ASSUME LeakInv, phase = "idle", Untouched, NEW v \in Live(disk)
               PROVE  \E r \in rows : r.vid = v
    BY DEF NoUnreachableVector, Untouched
  <2>1. ~flushed
    BY DEF LeakInv, SearchInv, VectorInv, NothingWaits
  <2> QED BY <2>1 DEF LeakInv, ReachInv, Reachable
<1> QED BY <1>1, <1>2, <1>3, PTL DEF Spec
=============================================================================
