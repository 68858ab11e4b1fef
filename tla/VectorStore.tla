----------------------------- MODULE VectorStore -----------------------------
(***************************************************************************)
(* The vectors of an index: the content_vectors table of SQLite, the HNSW   *)
(* file, and the commands that keep the two in step (`rqmd embed`, with     *)
(* --rebuild and --cleanup, the sweep of `rqmd update`, `collection         *)
(* remove`).  There is no transaction over both stores, so each write to    *)
(* either is a step of its own and the process may be killed between any    *)
(* two.  Commands that hold the index lock run one at a time (see           *)
(* IndexLock); `collection add` takes no lock and indexes documents at any  *)
(* moment.                                                                  *)
(*                                                                         *)
(* A document's text is its content hash.  A hash is cut into chunks, which *)
(* depends on the embed fingerprint (model and chunking settings), and the  *)
(* vector of a chunk is the triple <<hash, fingerprint, seq>>.              *)
(***************************************************************************)
EXTENDS Naturals, FiniteSets

CONSTANTS
  Doc, Coll, CollOf,   \* documents, collections, and where a document lives
  Excluded,            \* documents an embed-exclusion rule keeps out
  Hash,                \* content hashes
  Blank,               \* the hashes of empty bodies
  Fp,                  \* embed fingerprints
  Seq, Chunks,         \* chunk numbers; the chunks of a hash at a fingerprint
  MaxVid,              \* bound on vector ids
  NoHash,              \* an absent hash
  Free, Tomb,          \* a key usearch never saw, and one that was removed
  Budgets              \* bounds on crashes, edits, ... (see Kinds), one to a behaviour

Vid   == 0..MaxVid
Vec   == Hash \X Fp \X Seq
Kinds == {"crash", "edit", "remove", "switch", "rebuild", "scoped", "purge",
          "failure"}

ASSUME CollOfType   == CollOf \in [Doc -> Coll]
ASSUME ExcludedType == Excluded \subseteq Doc
ASSUME BlankType    == Blank \subseteq Hash
ASSUME SeqType      == Seq \subseteq Nat
ASSUME ChunksType   == Chunks \in [Hash \X Fp -> (SUBSET Seq) \ {{}}]
ASSUME MaxVidType   == MaxVid \in Nat
ASSUME NoHashType   == NoHash \notin Hash
ASSUME KeyStates    == Free # Tomb /\ Free \notin Vec /\ Tomb \notin Vec
ASSUME BudgetsType  == Budgets \subseteq [Kinds -> Nat]

VARIABLES
  docs,      \* SQLite documents: hash, prev_hash, active
  rows,      \* SQLite content_vectors
  floor,     \* SQLite store_config: the persisted next_vid
  disk,      \* the HNSW file; all Free when there is none
  mem,       \* the HNSW index of the running command
  next_vid,  \* its allocator
  fp,        \* the fingerprint the configuration asks for
  phase,     \* where the running command is; "idle" when none runs
  scope,     \* the collections it has yet to embed or clear
  todo,      \* the hashes of the current collection left to embed
  seen,      \* hashes queued in this run
  pending,   \* EmbedRun: rows waiting for the next checkpoint
  pending_deletes,  \* EmbedRun: hashes whose old rows the checkpoint drops
  sweep,     \* hashes whose vectors are gone and whose rows must follow
  flushed,   \* a checkpoint has saved the file and not yet committed
  torn,      \* history: hashes whose rows outlived their vectors
  left       \* what remains of the behaviour's budget

db    == <<docs, rows, floor>>
embed == <<todo, seen, pending, pending_deletes, flushed>>
vars  == <<docs, rows, floor, disk, mem, next_vid, fp, phase, scope, todo,
           seen, pending, pending_deletes, sweep, flushed, torn, left>>

Row     == [hash : Hash, seq : Seq, fp : Fp, vid : Vid]
NoDoc   == [hash |-> NoHash, prev |-> NoHash, active |-> FALSE]
DocRow  == [hash : Hash, prev : Hash \cup {NoHash}, active : BOOLEAN] \cup {NoDoc}
Graph   == [Vid -> Vec \cup {Free, Tomb}]
NoGraph == [v \in Vid |-> Free]
Phases  == {"idle", "update", "embed", "final", "reclaim", "cleanup",
            "excluded", "wiped", "evicted", "cleared", "purged"}

TypeOK ==
  /\ docs \in [Doc -> DocRow]
  /\ rows \in SUBSET Row
  /\ floor \in 0..(MaxVid + 1)
  /\ disk \in Graph
  /\ mem \in Graph
  /\ next_vid \in 0..(MaxVid + 1)
  /\ fp \in Fp
  /\ phase \in Phases
  /\ scope \in SUBSET Coll
  /\ todo \in SUBSET Hash
  /\ seen \in SUBSET Hash
  /\ pending \in SUBSET Row
  /\ pending_deletes \in SUBSET Hash
  /\ sweep \in SUBSET Hash
  /\ flushed \in BOOLEAN
  /\ torn \in SUBSET Hash
  /\ left \in [Kinds -> Nat]

Init ==
  /\ docs = [d \in Doc |-> NoDoc]
  /\ rows = {}
  /\ floor = 0
  /\ disk = NoGraph
  /\ mem = NoGraph
  /\ next_vid = 0
  /\ fp \in Fp
  /\ phase = "idle"
  /\ scope = {}
  /\ todo = {}
  /\ seen = {}
  /\ pending = {}
  /\ pending_deletes = {}
  /\ sweep = {}
  /\ flushed = FALSE
  /\ torn = {}
  /\ left \in Budgets

Spend(k) == left[k] > 0 /\ left' = [left EXCEPT ![k] = @ - 1]

-----------------------------------------------------------------------------
(* Queries on the tables.                                                  *)

vector_of(r) == <<r.hash, r.fp, r.seq>>

HashesOf(D) == {docs[d].hash : d \in {e \in D : docs[e].active}}
ActiveHashes == HashesOf(Doc)

hash_has_any_vector(h) == \E r \in rows : r.hash = h

hash_needs_embed(h) == ~\E r \in rows : r.hash = h /\ r.fp = fp

\* count_docs_needing_embed_excluding: what `rqmd embed` calls pending.
PendingHashes == {h \in HashesOf(Doc \ Excluded) \ Blank : hash_needs_embed(h)}

\* The donors of documents of D that still wait for vectors of their own.
Donors(D) == {docs[d].prev : d \in {e \in D : /\ docs[e].active
                                              /\ ~hash_has_any_vector(docs[e].hash)}}

orphaned_vector_hashes ==
  {r.hash : r \in rows} \ (ActiveHashes \cup Donors(Doc))

excluded_only_vector_hashes ==
  {r.hash : r \in rows} \cap
    (HashesOf(Excluded) \ (HashesOf(Doc \ Excluded) \cup Donors(Doc \ Excluded)))

\* Hashes of collection c that no other collection uses.
NotShared(c) ==
  {h \in HashesOf({d \in Doc : CollOf[d] = c}) :
     h \notin HashesOf({d \in Doc : CollOf[d] # c})}

vids_of(H) == {r.vid : r \in {s \in rows : s.hash \in H}}

\* Variant: a removed key is dropped from the graph.
forget(g, V) == [v \in Vid \ V |-> g[v]]

evict(g, V) == [v \in Vid |-> IF v \in V THEN Tomb ELSE g[v]]

Live(g) == {v \in Vid : g[v] \notin {Free, Tomb}}

-----------------------------------------------------------------------------
(* Store::open for a writer: load the file, then raise the allocator above  *)
(* the file's size, every vid a row holds and the persisted floor.          *)

\* Variant: only the file's size counts.
OpenBySize ==
  /\ mem' = disk'
  /\ next_vid' = Cardinality(Live(disk'))

Open ==
  /\ mem' = disk'
  /\ LET bounds == {Cardinality(Live(disk')), floor'} \cup {r.vid + 1 : r \in rows'}
     IN  next_vid' \in bounds /\ \A n \in bounds : n <= next_vid'

\* End of a command: its memory is gone.
Closed ==
  /\ phase' = "idle"
  /\ mem' = NoGraph
  /\ next_vid' = 0
  /\ scope' = {}
  /\ todo' = {}
  /\ seen' = {}
  /\ pending' = {}
  /\ pending_deletes' = {}
  /\ sweep' = {}
  /\ flushed' = FALSE

-----------------------------------------------------------------------------
(* Documents.                                                              *)

\* db::upsert_document, reached when the text of d differs from its row: from
\* `rqmd update` and from `collection add`, which takes no lock.  A hash with
\* vectors that is replaced by one without becomes the donor.
upsert_document(d, h) ==
  /\ docs[d].hash # h
  /\ Spend("edit")
  /\ docs' = [docs EXCEPT ![d] =
       [hash   |-> h,
        active |-> TRUE,
        prev   |-> IF @ = NoDoc \/ hash_has_any_vector(h) \/ h \in Blank THEN NoHash
                   ELSE IF hash_has_any_vector(@.hash) THEN @.hash
                   ELSE @.prev]]
  /\ UNCHANGED <<rows, floor, disk, mem, next_vid, fp, phase, scope, embed, sweep, torn>>

\* The update pass opens the store for writing.
StartUpdate ==
  /\ phase = "idle"
  /\ phase' = "update"
  /\ UNCHANGED <<docs, rows, floor, disk>>
  /\ Open
  /\ UNCHANGED <<fp, scope, embed, sweep, torn, left>>

\* db::deactivate_missing_documents, for one document.
deactivate(d) ==
  /\ phase = "update"
  /\ docs[d].active
  /\ Spend("remove")
  /\ docs' = [docs EXCEPT ![d].active = FALSE]
  /\ UNCHANGED <<rows, floor, disk, mem, next_vid, fp, phase, scope, embed, sweep, torn>>

\* A full pass ends in the orphan sweep; an interrupted one, and the pass of
\* an MCP refresh, ends without it.
EndUpdate ==
  /\ phase = "update"
  /\ \/ phase' = "reclaim"
        /\ UNCHANGED <<mem, next_vid, scope, embed, sweep>>
     \/ Closed
  /\ UNCHANGED <<db, disk, fp, torn, left>>

-----------------------------------------------------------------------------
(* `rqmd embed`.                                                           *)

\* Without --rebuild; nothing happens when no hash is pending.
StartEmbed(cols) ==
  /\ phase = "idle"
  /\ PendingHashes # {}
  /\ phase' = "embed"
  /\ scope' = cols
  /\ UNCHANGED <<db, disk>>
  /\ Open
  /\ UNCHANGED <<fp, embed, sweep, torn, left>>

\* --rebuild of everything removes the file, then clears the table.
RebuildAll ==
  /\ phase = "idle"
  /\ Spend("rebuild")
  /\ phase' = "wiped"
  /\ disk' = NoGraph
  /\ UNCHANGED <<db, mem, next_vid, fp, scope, embed, sweep, torn>>

clear_all_vectors ==
  /\ phase = "wiped"
  /\ phase' = "embed"
  /\ scope' = Coll
  /\ rows' = {}
  /\ torn' = {}
  /\ UNCHANGED <<docs, floor, disk>>
  /\ Open
  /\ UNCHANGED <<fp, embed, sweep, left>>

\* --rebuild of one collection: evict from memory the vids a query returns,
\* delete the rows a second query selects, save the file, reopen.
RebuildScoped(c) ==
  /\ phase = "idle"
  /\ Spend("scoped")
  /\ phase' = "evicted"
  /\ scope' = {c}
  /\ mem' = evict(disk, vids_of(NotShared(c)))
  /\ UNCHANGED <<db, disk, next_vid, fp, embed, sweep, torn>>

clear_vectors_for_collection ==
  /\ phase = "evicted"
  /\ phase' = "cleared"
  /\ rows' = {r \in rows : \A c \in scope : r.hash \notin NotShared(c)}
  /\ UNCHANGED <<docs, floor, disk, mem, next_vid, fp, scope, embed, sweep, torn, left>>

FlushScoped ==
  /\ phase = "cleared"
  /\ phase' = "embed"
  /\ disk' = mem
  /\ torn' = torn \cup {r.hash : r \in {s \in rows : mem[s.vid] = Tomb}}
  /\ UNCHANGED db
  /\ Open
  /\ UNCHANGED <<fp, scope, embed, sweep, left>>

\* The next collection of the loop.  Its list of hashes is read once, and
\* `collection add` may replace a document while the loop works it off.
NextCollection(c) ==
  /\ phase = "embed"
  /\ ~flushed
  /\ todo = {}
  /\ c \in scope
  /\ scope' = scope \ {c}
  /\ todo' = {h \in HashesOf({d \in Doc \ Excluded : CollOf[d] = c}) :
                h \notin seen /\ hash_needs_embed(h)}
  /\ seen' = seen \cup todo'
  /\ UNCHANGED <<db, disk, mem, next_vid, fp, phase, pending, pending_deletes, sweep,
                 flushed, torn, left>>

Take(h) ==
  /\ phase = "embed"
  /\ ~flushed
  /\ h \in todo
  /\ todo' = todo \ {h}
  /\ UNCHANGED seen

\* VectorIndex::add for each chunk in order: the keys are the first ones from
\* next_vid on that usearch has never seen.
FreshVids(h, f) ==
  /\ \A s, t \in DOMAIN f : s < t => f[s] < f[t]
  /\ \A s \in DOMAIN f : f[s] >= next_vid /\ mem[f[s]] = Free
  /\ \A v \in Vid : \A s \in DOMAIN f :
       v >= next_vid /\ v < f[s] /\ mem[v] = Free => \E t \in DOMAIN f : f[t] = v

\* One document of the loop: its vectors go into memory, its rows wait for
\* the checkpoint, and vectors it had under another fingerprint are evicted.
EmbedDoc(h) ==
  /\ Take(h)
  /\ h \notin Blank
  /\ \E f \in [Chunks[<<h, fp>>] -> Vid] :
       /\ FreshVids(h, f)
       /\ mem' = [v \in Vid |->
                    IF \E s \in DOMAIN f : f[s] = v
                    THEN <<h, fp, CHOOSE s \in DOMAIN f : f[s] = v>>
                    ELSE evict(mem, vids_of({h}))[v]]
       /\ \E last \in DOMAIN f : /\ \A s \in DOMAIN f : s <= last
                                 /\ next_vid' = f[last] + 1
       /\ pending' = pending \cup
            {[hash |-> h, seq |-> s, fp |-> fp, vid |-> f[s]] : s \in DOMAIN f}
  /\ pending_deletes' = IF hash_has_any_vector(h) THEN pending_deletes \cup {h}
                        ELSE pending_deletes
  /\ UNCHANGED <<db, disk, fp, phase, scope, sweep, flushed, torn, left>>

\* Variant: the donor is kept.
WithPrev(H) == docs

\* db::clear_prev_hash.
WithoutPrev(H) ==
  [d \in Doc |-> IF docs[d].hash \in H THEN [docs[d] EXCEPT !.prev = NoHash]
                 ELSE docs[d]]

\* An empty body has no vectors and needs no donor.
EmbedBlank(h) ==
  /\ Take(h)
  /\ h \in Blank
  /\ docs' = WithoutPrev({h})
  /\ UNCHANGED <<rows, floor, disk, mem, next_vid, fp, phase, scope, pending,
                 pending_deletes, sweep, flushed, torn, left>>

\* The encoder fails: the document is recorded and skipped.
EmbedFails(h) ==
  /\ Take(h)
  /\ h \notin Blank
  /\ Spend("failure")
  /\ UNCHANGED <<db, disk, mem, next_vid, fp, phase, scope, pending, pending_deletes,
                 sweep, flushed, torn>>

\* The loop ends with every document done, or early: a signal, the deadline
\* or too many failures in a row.
EndLoop ==
  /\ phase = "embed"
  /\ ~flushed
  /\ phase' = "final"
  /\ UNCHANGED <<db, disk, mem, next_vid, fp, scope, embed, sweep, torn, left>>

\* Variant: the rows are committed without saving the file.
CheckpointUnsaved ==
  /\ phase \in {"embed", "final"}
  /\ ~flushed
  /\ pending # {} \/ pending_deletes # {}
  /\ flushed' = TRUE
  /\ UNCHANGED <<db, disk, mem, next_vid, fp, phase, scope, todo, seen, pending,
                 pending_deletes, sweep, torn, left>>

\* checkpoint(), every so many documents and once after the loop: save the
\* file first ...
CheckpointFlush ==
  /\ phase \in {"embed", "final"}
  /\ ~flushed
  /\ pending # {} \/ pending_deletes # {}
  /\ disk' = mem
  /\ flushed' = TRUE
  /\ UNCHANGED <<db, mem, next_vid, fp, phase, scope, todo, seen, pending,
                 pending_deletes, sweep, torn, left>>

\* ... then one transaction: old rows out, donors released, new rows in, the
\* allocator's floor raised.
Superseded(r) ==
  \/ r.hash \in pending_deletes
  \/ \E q \in pending : q.hash = r.hash /\ q.seq = r.seq

CheckpointCommit ==
  /\ flushed
  /\ flushed' = FALSE
  /\ rows' = {r \in rows : ~Superseded(r)} \cup pending
  /\ docs' = WithoutPrev({r.hash : r \in pending})
  /\ floor' = IF next_vid > floor THEN next_vid ELSE floor
  /\ pending' = {}
  /\ pending_deletes' = {}
  /\ torn' = torn \ {r.hash : r \in pending}
  /\ UNCHANGED <<disk, mem, next_vid, fp, phase, scope, todo, seen, sweep, left>>

EndEmbed ==
  /\ phase = "final"
  /\ pending = {} /\ pending_deletes = {}
  /\ phase' = "reclaim"
  /\ UNCHANGED <<db, disk, mem, next_vid, fp, scope, embed, sweep, torn, left>>

-----------------------------------------------------------------------------
(* Sweeps: reclaim_vectors_of, after `update` and `embed` for the orphans,  *)
(* in `embed --cleanup` for the orphans and then for the excluded.          *)

StartCleanup ==
  /\ phase = "idle"
  /\ phase' = "cleanup"
  /\ UNCHANGED <<db, disk>>
  /\ Open
  /\ UNCHANGED <<fp, scope, embed, sweep, torn, left>>

Sweepable == IF phase = "excluded" THEN excluded_only_vector_hashes
             ELSE orphaned_vector_hashes

\* Variant: the rows go, the vectors stay.
SweepRowsOnly ==
  /\ phase \in {"reclaim", "cleanup", "excluded"}
  /\ sweep = {}
  /\ Sweepable # {}
  /\ sweep' = Sweepable
  /\ UNCHANGED <<db, disk, mem, next_vid, fp, phase, scope, embed, torn, left>>

\* Evict, and save the file before any row goes.
SweepFlush ==
  /\ phase \in {"reclaim", "cleanup", "excluded"}
  /\ sweep = {}
  /\ Sweepable # {}
  /\ sweep' = Sweepable
  /\ mem' = evict(mem, vids_of(Sweepable))
  /\ disk' = mem'
  /\ UNCHANGED <<db, next_vid, fp, phase, scope, embed, torn, left>>

AfterSweep ==
  IF phase = "cleanup"
  THEN phase' = "excluded" /\ sweep' = {} /\ UNCHANGED <<mem, next_vid, scope, embed>>
  ELSE Closed

SweepCommit ==
  /\ sweep # {}
  /\ rows' = {r \in rows : r.hash \notin sweep}
  /\ torn' = torn \ sweep
  /\ AfterSweep
  /\ UNCHANGED <<docs, floor, disk, fp, left>>

NothingToSweep ==
  /\ phase \in {"reclaim", "cleanup", "excluded"}
  /\ sweep = {}
  /\ Sweepable = {}
  /\ AfterSweep
  /\ UNCHANGED <<db, disk, fp, torn, left>>

-----------------------------------------------------------------------------
(* `collection remove`: purge_collection in separate statements, then the   *)
(* orphan sweep.                                                           *)

PurgeDocuments(c) ==
  /\ phase = "idle"
  /\ Spend("purge")
  /\ phase' = "purged"
  /\ docs' = [d \in Doc |-> IF CollOf[d] = c THEN NoDoc ELSE docs[d]]
  /\ UNCHANGED <<rows, floor, disk>>
  /\ Open
  /\ UNCHANGED <<fp, scope, embed, sweep, torn>>

PurgeVectors ==
  /\ phase = "purged"
  /\ phase' = "reclaim"
  /\ rows' = {r \in rows : \E d \in Doc : docs[d].hash = r.hash}
  /\ UNCHANGED <<docs, floor, disk, mem, next_vid, fp, scope, embed, sweep, torn, left>>

-----------------------------------------------------------------------------
\* Another model or chunking configuration for the next commands.
SwitchConfig ==
  /\ phase = "idle"
  /\ Spend("switch")
  /\ fp' \in Fp \ {fp}
  /\ UNCHANGED <<db, disk, mem, next_vid, phase, scope, embed, sweep, torn>>

\* The process is killed, or an error of the file system or of SQLite ends
\* the command.  The rows that have lost their vectors by then: all of them
\* after the file was removed, the ones being swept, the ones a checkpoint
\* was about to replace.
Crash ==
  /\ phase # "idle"
  /\ Spend("crash")
  /\ torn' = torn \cup sweep
                  \cup (IF phase = "wiped" THEN {r.hash : r \in rows} ELSE {})
                  \cup (IF flushed THEN pending_deletes ELSE {})
  /\ Closed
  /\ UNCHANGED <<db, disk, fp>>

Loop ==
  \/ \E c \in Coll : NextCollection(c)
  \/ \E h \in Hash : EmbedDoc(h) \/ EmbedBlank(h) \/ EmbedFails(h)
  \/ EndLoop \/ CheckpointFlush \/ CheckpointCommit \/ EndEmbed

Rebuild ==
  \/ RebuildAll \/ clear_all_vectors
  \/ \E c \in Coll : RebuildScoped(c)
  \/ clear_vectors_for_collection \/ FlushScoped

Sweep == SweepFlush \/ SweepCommit \/ NothingToSweep

Next ==
  \/ \E d \in Doc, h \in Hash : upsert_document(d, h)
  \/ StartUpdate \/ (\E d \in Doc : deactivate(d)) \/ EndUpdate
  \/ \E cols \in {Coll} \cup {{c} : c \in Coll} : StartEmbed(cols)
  \/ Loop \/ Rebuild
  \/ StartCleanup \/ Sweep
  \/ (\E c \in Coll : PurgeDocuments(c)) \/ PurgeVectors
  \/ SwitchConfig \/ Crash

Spec == Init /\ [][Next]_vars

-----------------------------------------------------------------------------
(* Properties.                                                             *)

\* A search hit on a vid is resolved through its row, so a vid must never
\* hold the vector of another chunk than its row's, at any moment, after any
\* sequence of crashes, rebuilds and sweeps (a missing vector is a missing
\* result, a wrong one is a wrong result).
NoWrongVector ==
  \A r \in rows : disk[r.vid] \in {vector_of(r), Free, Tomb}

\* Every chunk of h is in the file under the vid its row names.
Searchable(h) ==
  \A s \in Chunks[<<h, fp>>] : \E r \in rows :
    r.hash = h /\ r.fp = fp /\ r.seq = s /\ disk[r.vid] = vector_of(r)

\* `embed` takes a hash with a row at the current fingerprint for done, so
\* such a hash must be completely searchable.  The exceptions are the hashes
\* a kill or a race caught in a window where vectors go before rows; even
\* they are healed by the next embedding, sweep or rebuild that covers them.
DoneIsSearchable ==
  phase = "idle" =>
    \A h \in ActiveHashes \ torn : hash_needs_embed(h) \/ Searchable(h)

\* The vectors of a replaced text are kept only while the new text waits for
\* its own: a document whose hash has rows has no donor.
DonorOnlyWhilePending ==
  \A d \in Doc : docs[d].prev # NoHash => ~hash_has_any_vector(docs[d].hash)

\* Until a command is killed, no vector stays in the file that no row names:
\* nothing else would ever find and evict it.
NoUnreachableVector ==
  phase = "idle" /\ (\A b \in Budgets : left["crash"] = b["crash"]) =>
    \A v \in Live(disk) : \E r \in rows : r.vid = v

=============================================================================
