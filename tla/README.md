# TLA+ models of rqmd

rqmd indexes directories of text files for keyword search (a Tantivy index) and vector search
(an HNSW file), with SQLite as the record of what is indexed. Command-line processes, a watch and
a long-lived MCP server share one index directory. Its correctness rests on several stores staying
in step without a common transaction, on processes that may be killed anywhere, on a lock made of
files, and on a query pipeline that must not lose or invent results while all that happens. This
directory models those parts in TLA+, checks them with TLC and proves the central safety
properties with TLAPS.

## Inventory

`C` is `src/crates/rqmd-core/src`, `L` is `src/crates/rqmd-cli/src`, `K` is
`src/crates/rqmd-mcp/src`, `M` is `src/crates/rqmd-llm/src`.

| Component | State | Operations | What makes it correct | Module |
|---|---|---|---|---|
| Index lock (`C/lock.rs`), `rqmd unlock` (`L/commands/unlock.rs`) | lock directory with pid, host, heartbeat; flock on a guard file | acquire, reclaim, heartbeat, drop; inspect, confirm, remove | one writer; a dead owner's lock is reclaimed; a live owner's is not | IndexLock, WriterLock |
| Vectors (`C/hnsw.rs`, `C/store.rs`, `C/db.rs`, `L/commands/index.rs`) | `content_vectors` rows, HNSW file and memory, allocator and its persisted floor, donors (`prev_hash`) | embed with checkpoints, rebuild, sweep, cleanup, purge | a row names its own chunk's vector; what counts as embedded can be found; nothing leaks | VectorStore |
| Update pass (`L/commands/index.rs`, `L/document.rs`), full-text index (`C/fts.rs`) | `documents` rows with hash, active flag, stat; staged and committed entries; Tantivy's writer lock | walk, stat check, index, prune, commit | files, rows and full-text index agree after a clean pass | UpdatePass |
| Watch, update, MCP refresh, hooks, signals (`L/commands/watch.rs`, `refresh.rs`, `L/hook.rs`, `L/signals.rs`, `K/refresh.rs`) | fingerprints, back-off, deadlines, rebuild marker, pending signal, the hook's process | tick, pass, rebuild, refresh, time out, forward | every change is picked up in the end; signals and limits end what they should | Watch |
| Collections and contexts (`L/commands/collection.rs`, `context.rs`, `C/db.rs`) | settings, document rows, entries under `collection/path`, contexts | add, remove, rename, set, include, context add and rm; the walk's rules | entries are those of the files; nothing is inherited; a rename is whole | Catalog |
| Daemon (`L/daemon.rs`, `L/commands/mcp.rs`) | pidfile, processes, pids, ports | `--daemon`, `stop`, `--force`, `status` | never signals a stranger; what it reports is so | Daemon |
| MCP server (`K/server.rs`, `K/lib.rs`), store readers (`C/store.rs`) | pool of stores, `OnceCell`s, mutexes, mtimes seen, activity, model | calls, refresh, reload, download, load, release, idle exit, shutdown | answers are fresh; the model in use is there and verified; every call ends | Server |
| Hybrid query (`C/store.rs`, `C/rrf.rs`, `C/query.rs`, `C/deadline.rs`) | none across queries | scope, expand, retrieve, fuse, resolve, rerank, fall back | no hit lost or invented; scores never mixed; only a strict failure fails | HybridQuery, Fusion |
| Query cache (`C/model_cache.rs`, `C/store/query_cache.rs`) | rows in order of last use | look up, store, evict, clear | what is cached is what its model said | ModelCache |
| Chunking and sections (`C/chunking.rs`, `C/ast_chunk.rs`, `C/store.rs`) | none | cut, choose sections, place snippets | chunks cover the text and move on; places point to what they show | Chunking |
| Inference backends (`M/lib.rs`) | context, KV positions | embed in batches, rerank under a deadline, generate | the engine never aborts; answers are whole | Inference |
| MCP tools `search`, `get`, `multi_get` (`K/server.rs`, `C/resolve.rs`) | none across calls | page; read by line; resolve a pattern; budget | pages make up one ranking; all that was asked is accounted for | Paging, Reading |
| Vector search, similar (`C/store.rs`, `C/db.rs`, `L/commands/similar.rs`) | none | widen pools, resolve rows, apply rules | the nearest are shown | Neighbours |
| Embed exclusion (`C/embed_exclusion.rs`) | rules of a collection | exclude documents | an excluded document has no vectors, is not shown by vector search | VectorStore, Neighbours |
| Text handling, output, evaluation, status | none | parse, format, measure | no protocol | not modelled |

How they interact: `update`, `embed`, `watch`, the MCP refresh and `collection remove` and
`rename` hold the index lock for their whole run, so they exclude each other; `collection add`
and `set` take no index lock and meet them in SQLite, statement by statement, and at Tantivy's
writer lock. Every process opens its own view of the HNSW file and of Tantivy; the MCP server keeps
its views and reloads them by mtime. The hard behaviours are therefore kills between the writes to
two stores, decisions taken from a view that is stale, commands that overlap a lock-free one,
files that change during a pass, deadlines and failures in the middle of a query, pids that are
recycled, and off-by-ones at the edges of windows, pages and budgets.

## Modules

Each component has a module; five modules put independent ones into one state machine for a run.
A definition called a *variant* in its comment is an altered form of the definition after it: it
stands for a plausible bug and shows, put in its place, that a property notices it. "History"
variables record what a property needs to know about the past and influence nothing.

- **IndexLock** — a process is an incarnation with a pid and a host. `pc` says where it is:
  `acquiring` (inside `try_acquire` with the guard), `created`, `pidwritten`, `hostwritten`
  (`write_metadata`), `hold`, `unlink`, `rmdir` (`remove_dir_all`), `remove` (an unlock that has
  decided). `lockdir` is the directory: pid, host, heartbeat against the stale limit, and whether
  it is younger than `inspect`'s grace. Every file operation is an action, since a crash or the
  unguarded inspection of `unlock` may come between any two. `robbed`: an unlock has removed the
  directory while somebody held it.
- **WriterLock** — the abstract lock: who holds it, who has ended, whether an unlock broke it.
  IndexLock implements it (`ImplementsWriterLock`, an INSTANCE with a refinement mapping).
- **VectorStore** — `rows`, `docs`, `floor` are SQLite; `disk` the HNSW file; `mem`, `next_vid`
  the running command's index and allocator; `pending`, `pending_deletes` the batch of `EmbedRun`.
  Commands under the lock run one at a time, as `phase`; `upsert_document` is enabled at any
  moment for `collection add`. A checkpoint is two steps, save and commit, and so are a sweep, a
  rebuild and a purge. `torn`: hashes a kill caught where vectors go before rows.
- **UpdatePass** — `files` and `mtime` are the file system, `docs` the rows, `fts` the committed
  index, `writer` Tantivy's lock, `run[p]` a command: its reader view, the files found and left,
  the file in hand, what is staged. A file takes the steps `stat_file`, `prepare`,
  `index_document`, `add_document`, `set_document_stat`. `lost`: paths whose row is ahead of their
  entry after a kill or a timed-out wait. `late`: paths whose row was last written, since the last
  locked pass began, with an older text than the file's by then.
- **Watch** — the commands around the passes: a watch with its fingerprints, two locks, back-off
  and deferral; an update with its hook; an MCP refresh with its deadline; an embed that merely
  holds the lock; a full-text rebuild in steps; signals and kills. A collection is one file here.
- **Catalog** — two processes change the collections of a tree whose files stand for the walk's
  rules (hidden, ignored, vendored, too large, a symlink out, not UTF-8, outside the mask).
  Every statement group of SQLite, every staged batch and every commit is a step, and a process
  may die between any two. `raced` and `torn` name what two lock-free commands, or a death in a
  rename, leave. A context is keyed by its collection's name, as in SQLite; `orphans` are the keys
  that a removal left when it died before its last statement.
- **Daemon** — processes by pid and start, each a server or something else; the pidfile;
  commands between their reads of the pidfile, the `/health` answers and the signals.
- **Server** — the calls of one MCP server (`req[r].at` is the program point), the stores with
  what their readers see and the mtime they remember, the `OnceCell`s, the weights in the hub's
  cache, the model, `Activity`, shutdown. A call counts as activity while its client waits for it:
  `Reply` drops the guard with the finished body, `Disconnect` with the body nobody reads any more,
  while the work goes on on its blocking thread (`act.busy` are the guards held).
- **ModelCache, Fusion, HybridQuery** — HybridQuery extends both: one query of any kind, leg by
  leg, beside a peer process on the same cache file. Fusion has reciprocal rank fusion in exact
  fractions and a reference definition of it.
- **Chunking, Inference, composed by Passages** — pure algorithms as state machines over every
  text up to a bound: cutting as rounds that move on, then sections and snippet lines; and a call
  to a model as batches of texts of bounded size. What the code finds in one pass over a text
  (fences, tables, line starts, the best window) is stated as the set or the place that pass ends
  with.
- **Places** — what HybridQuery and ModelCache filter from a sequence, by the places it stood at:
  the n-th place of a set, and the entries at a set of places, in their order; and the members of a
  set in an order, for Paging and Neighbours.
- **Paging, Reading, Neighbours, composed by Tools** — what a client does with the MCP tools and
  vector search, step by step, while rows change. In Reading a document is looked up in one step
  and read in another; `blank` are the documents whose text could not be had and that were shown
  empty. **Answers** puts Passages and Tools into one run.
- **CatalogAndDaemon** composes Catalog and Daemon. It only interleaves: each component's Next
  leaves the others' variables alone, and one run covers both.
- **MC…** — instances for TLC. **…Proofs** — theorems and proofs.

## Runs

`tlc -config X.cfg M` for each row of "runs" in PROJECT.json. Deadlock is not checked: commands end and nothing
need follow, and the budgets run out.

| Run | Properties, and what they show |
|---|---|
| IndexLock | `SingleWriter`: one writer until an unlock robs a live holder. `CrashLeavesOnlyStale`: a lock naming a live process is that process's. `AbandonedLockReclaimed`: a dead owner's lock goes. `ImplementsWriterLock`: all of it implements the abstract lock |
| VectorStore | `NoWrongVector`: a row never names another chunk's vector. `DoneIsSearchable`: what embed takes for done can be found. Two kills and both rebuilds, or two fingerprint changes with a failing encoder and a kill |
| VectorStoreDonor | `DonorOnlyWhilePending`, `NoUnreachableVector`: donors live as long as needed over four edits, nothing leaks |
| UpdatePass | `StatMatchIsCurrent`: no edit slips through the stat check. `SearchIsExact`: rows and entries agree, one entry per path. `CleanPassConverges` |
| UpdateShared | `CleanPassConverges` while `collection add` overlaps the passes, before, during and after an update: every file has converged but those whose row the add wrote with an older text |
| UpdateRestore | ends in a violation: a file deleted, pruned and restored with its old text stays inactive (`RestoredIsReactivated`; finding in PROJECT.json) |
| Watch | `NothingIsMissed`, `RefreshedIsCurrent`, `RebuildNotForgotten`, `HookDoesNotOutlive`; in the end `WatchCatchesUp`, `SignalStops` |
| HybridQuery | `AnswerIsExact` (no hit in scope lost, none invented, order that of exact fusion), `ScoresAreNeverMixed`, `OnlyStrictFails`, `CacheTellsTheTruth` |
| Server | `FreshAnswers`: no answer is older than its refresh. `ModelIsUsable`: verified weights. `IdleSparesCalls`: an idle exit is decided only while no client waits. `EverythingEnds`: each call, and in the end the server |
| Commands | `EntriesAreTheFiles`, `BelongingsFollow`, `RenameIsWhole` of Catalog; `StrangerIsSpared`, `ReportsAreTrue` of Daemon |
| CommandsAgain | ends in a violation: a removal dies before it deletes the contexts, and the next collection of that name is described by them (`NothingIsInherited`; finding in PROJECT.json) |
| Answers | of Passages: `ChunksAreWhole`, `PlacesAreTrue`, `RoundsMoveOn`, `CallsAreWhole`; of Tools: `PagesCoverTheRanking`, `ReadingIsAccounted`, `NearestAreShown` |

Several properties are conjunctions of named parts, written out in their modules: a part that
fails is found by checking the parts one by one.

**Bounds.** `Budget`, `Budgets`, `Trouble`, `Writes`, `Lost`, `Mishaps` limit the events that would make the state space
infinite; where a run has several budgets, each is a different mixture of events.

- IndexLock: three processes with pids of their own, two on one machine and one on another; two
  of them retry; one failed metadata write.
- VectorStore: two documents in two collections are the least that let a hash be shared across
  collections; two hashes let a document be edited away and back; two chunks under one fingerprint
  and one under the other let a checkpoint tear a document and a switch orphan a chunk; `MaxVid` is
  large enough that no run is cut short before it has used its budget. Two kills allow a kill during
  the recovery from a kill. The donor run has three hashes, one of them empty, and an excluded
  document.
- UpdatePass: two files let one be present while the other is pruned; two of three texts have one
  hash (they differ in frontmatter only); three passes are index, prune, restore. The trust
  window is zero ticks: a tick, the granularity of mtimes, is as long as the window, the coarsest
  for which the strict comparison of `trusted_stat` suffices; three ticks let a file change
  within one and after it. UpdateShared has two passes and an add, two texts, an edit and a
  deletion, and two ticks, so that the add can read before an edit and write after a pass.
- Watch: one collection with a hook, one command, two troubles (an edit, a change of access, a
  signal, a kill, a removal or addition); the back-off doubles once.
- HybridQuery: two documents in two collections, two cache rows (so that a query evicts), two
  failures. Server: two calls, one handle and the model store, two commits, so that one
  can fall between a stat and a reload, and one failure, panic, signal or disconnect. Its safety
  properties are proved without these bounds.
- Commands: two names and two processes, a file for each rule of the walk, five budgets: a rename
  cut and repeated; a removal, or a rename, beside contexts; a name added again after a
  removal, with a context, a rename and a death; settings changed by two. The run CommandsAgain has
  one process. Three
  pids, two ports of which one is the daemon's, two commands, four starts (so a pid is recycled),
  one crash, stranger or foreground server. With the proof, the daemon's bound is only about
  `ReportsAreTrue`.
- Answers, texts: all texts of up to five lines from alphabets of prose, tables and code, a chunk size of
  seven bytes with an overlap of two, so that a text has up to ten chunks, wide characters
  straddle cuts and windows end inside rows; calls of up to three texts around the size of their
  contexts.
- Answers, tools: five ranked files and pages of up to four; bodies of up to four lines around both caps,
  four documents with equal tails and a shared docid prefix; patterns of one entry, of two, or of
  three paths where two are allowed, with a glob that does not parse among the second entries; one
  row removed, text edited or read failed (`Mishaps`); five vectors, one of which may have no row,
  and one write between two reads.

Symmetry is over files, processes and pids that no definition distinguishes, and never in a run
with liveness properties.

**Fairness.** IndexLock: a process inside the guard finishes; a watcher retries at every tick and
ends its pass; the grace ends; `flock` does not starve a waiter for ever (strong fairness). Nothing
is assumed of other processes: they may hang holding the lock, and the property only promises that
a *dead* owner's lock goes. Watch: the steps of the watch, of a running update
(with its hook's time limit and grace) and of a refresh, the end of an embed, and time itself; nothing is assumed of hooks (they may hang), of users or of
signals. Server: the steps of a call (they run on blocking threads, and a query has a deadline),
the idle timer, and the shutdown that follows an idle exit; nothing about new calls, clients that
disconnect, commits or signals.

## Proofs

For every value of the constants the named assumptions allow. Each proof has an invariant, a lemma
that Init establishes it, and one that every step keeps it, with a case for each action.

- **IndexLockProofs.** `TypeCorrect`, `MutualExclusion` (`SingleWriter`), also with reused pids.
  `LockInv` adds to `SingleWriter` that the guard's owner is exactly the process at a guarded step,
  that two live processes of a machine have different pids, that the metadata written so far is in
  the directory, that outside robbery the directory names its holder, and that whoever clears or
  creates the directory does so while nobody holds the lock: an acquirer that finds a holder's
  directory sees a live pid or a foreign host, and is refused. `LockImplementsWriterLock`: each
  step maps to a step of WriterLock or a stutter under the mapping of holders, ended processes and
  robbery. `CrashesLeaveOnlyStale`: with pids that are never shared, a directory naming a live
  process belongs to it (`PidHasOwner`).
- **VectorStoreProofs.** `VectorTypeCorrect`, `VectorsFaithful` (`NoWrongVector`). `VectorInv` says
  the same of the index in memory, that the allocator is above every vid in a row or waiting for a
  checkpoint, that what waits is in memory under its vid, that a checkpoint that has saved the
  file has saved exactly memory, and that nothing waits outside an embed: a key is given out
  once while any row can name it. `DonorsAreReleased` (`DonorOnlyWhilePending`).
  `DoneCanBeFound` (`DoneIsSearchable`): `SearchInv` adds that the rows of a hash come and go with
  all its chunks, that no two rows, waiting or stored, share a vid, and that file and memory hold the
  vector of every row but for named sets of hashes, those a kill at this very step would tear:
  between the removal of the file and the clearing of the table, in a sweep before its rows go, in
  a checkpoint between the save and the commit. `NothingLeaks` (`NoUnreachableVector`) for budgets
  without purges and scoped rebuilds, as in the runs that check it: those do leak (see the limits
  below). Until the first kill every live vector in memory is named by a row, waiting, or in the
  sweep's hands.
- **UpdatePassProofs.** `StatsAreCurrent` (`StatMatchIsCurrent`) and `CleanPassesConverge`
  (`CleanPassConverges`), for any files, texts, trust window and commands, with or without the
  lock, where no tick passes between a file's stat and its indexing (`~Slow`, as in their runs; with
  `Slow` both fail in the code). A stat is kept only for a text the file still holds unless it
  changed in this very tick, and never with the present time, so a later write under the same
  stamp is impossible. A pass under the lock during which no file changes knows all the files, goes
  by stats that are those of the rows, and leaves fresh rows behind it, whatever a command
  without the lock writes before, during or after it, except at the files in `late`: `FoundInv`
  says what a pass has found, `ProgressInv` what it has done with the files behind it, `LockedInv`
  that no other pass holds the lock, `Settled` that after it each file has converged or is late, and `RowsKept` that while no
  file changes a foreign write either agrees with the file or makes it late. The exception cannot be dropped: an add that read a file before it changed may
  write its row after the update has finished. `IndexMatchesDocuments` (`SearchIsExact`)
  where every command holds the lock (`Locked = Proc`), as in its run: what the running command
  has staged would bring the index it opened in line with the rows, but for the file whose
  entry it is about to stage, the rows its sweep has deactivated, and paths lost to a kill.
- **WatchProofs.** `RememberedIsIndexed` (`NothingIsMissed`), `RebuildIsRemembered`
  (`RebuildNotForgotten`), `HooksAreStopped` (`HookDoesNotOutlive`), `RefreshTellsTheTruth`
  (`RefreshedIsCurrent`): for any collections, stamps and hooks, and signals, kills and edits without
  limit. Five invariants, each inductive given those before it: the holder of the lock owns the file
  in hand; a hook runs only while the update waits for it; the tokenizer's version is recorded
  only while every document has an entry of this tokenizer; stamps that are recorded, remembered,
  due or in hand are never of the future, and one that was trusted and is still the file's can no
  longer be written under, so the text that goes with it is the file's; the collections a refresh
  is done with, and the files taken in hand since it began, are current unless touched since.
  That stamps cannot be trusted while fresh is the strengthening that makes "remembered means
  indexed" inductive: without it an edit within the stamp's granularity breaks it.
- **PassagesProofs, Chunking.** For any documents of the known kinds of line, and for any sizes that
  leave a round more than the overlap (`SizesFit`). `ChunkInv`: the text lies on its lines
  (`Layout`), each chunk is the stretch between two characters, and each round starts where the one
  before says. `CuttingMovesOn` (`RoundsMoveOn`): a break in the window is farther from the start
  than a table header or a character's middle can move the next start back. `DocumentsAreWhole`
  (`ChunksAreWhole`): tables lie apart, so a round between two rows of one knows its header; what
  lies between the end of a chunk and the start of the next is a newline or a row longer than a
  window; a cut inside a fence has found no break outside. `WhatIsShownIsTrue`: the sections, the
  snippet's line and the opening of a search's answer are right for all such sizes.
  `PlacesStayTrue` (`PlacesAreTrue`) has the hypothesis `Roomy`, that a round moves on by no less
  than a window: 540 + 1 + 800 is at most 3600 - 400 (`chunking.rs:14-18`). Only its remaining part,
  that a place tells a chunk apart, needs that: two chunks can then be moved to one place only within one
  header or one row longer than a window. The sizes of the run Answers are too small to be
  `Roomy`; the property holds there too. `SectionInv` adds that the chunks still to be considered
  are ranked, that a later start means no earlier end where no header is repeated, that each section
  has a word of its own, and that a chunk no longer considered shows nothing the sections do
  not: hence none is left when fewer sections are shown than allowed. Newlines before a place
  are counted once in the file and once in the chunk, which gives the snippet's line; a prefix that
  holds the first window has the breaks, fences and tables of the text as far as the first cut
  looks.
- **PassagesProofs, Inference.** `CallsNeverAbort` (`CallsAreWhole`): for any context sizes and texts. The
  invariant bounds what each batch reserves, keeps the KV position and the tokens written in step,
  and the answer a prefix of the inputs in their order.
- **CommandProofs, Daemon.** `NoStrangerIsSignalled` (`StrangerIsSpared`): for any number of pids, ports,
  commands and recyclings. Starts are unique and grow; a pidfile, and what a command remembers of
  it, never name the start of a process that is not a server; a command at a signal has just
  checked that start. `ReportsCanBeTrusted` (`ReportsAreTrue`) from three more parts. `BoundInv`: an
  address has one socket, and a server of another index is past the stages that write the pidfile.
  `CommandInv`: a process that a stop has seen end, or a failed launch has killed, is never seen
  again, and a launched child is the only process with its start. `AloneInv`, as long as
  servers and commands did not overlap: at most one server is short of its exit and one command at
  work; a server that serves or drains is named by the pidfile; a command finds a named server or
  none, none once it forgets or launches, and what it read is still in the pidfile or the
  pidfile has gone. That a server which lingers no longer counts is needed: it has removed its
  record and is still alive.
- **CommandProofs, Catalog.** For any names, files, rules and processes. `CatalogKept`: each lock is held
  by a command at a step that needs it; `NamesInv`: two commands at work on one name are known to
  have raced, which is what lets a command rely on its names. `EntriesStayTheFiles`
  (`EntriesAreTheFiles`): `Settled` says that a name at which nobody waits has the entries of its
  documents, and what each command owes says what holds in between: an add has staged what its
  name lacks, a removal will delete what is left, a rename sees the entries of its names and
  will sweep no other name's, the writer's lock being held by whoever has staged anything.
  `Frame` says what a step leaves alone, so that what the others owe is proved once for
  all steps. `WalkFindsAllowed`: pruning directories finds what the rules allow. `BelongingsStay`
  (`BelongingsFollow`): a command that will write settings has those in force but for what it
  changes (`PendingInv`). It speaks of every context but the `orphans`: those that a
  removal left behind are the next collection's of that name, in the model as in the code, which
  the run CommandsAgain shows; a context added again, or purged, is no orphan any more. `RenameStaysWhole` (`RenameIsWhole`), both parts action properties: an
  add that flushes beside a rename means the rename had nothing to sweep, and the nearest
  directory with a context exists by the least number principle (`LeastOf`, from WFMin).
- **ServerProofs.** `AnswersAreFresh`, `ModelStaysUsable`, `IdleIsIdle`, from one invariant: a call
  at work holds the mutex of exactly one store (`Holding`); what a store remembers is never ahead
  of what its readers see, and what a call saw or will see is at least what its refresh left
  (`Freshness`); while one call initialises the model store no other has to do with it, and a set
  store has verified weights unless a failed download was kept (`Readiness`); the activity count is
  the number of guards held, each by a call whose client still waits (`Counting`), so a second
  call, a disconnect or a shutdown never takes it to zero early.
- **ServerProofs, Paging.** `PagesShowOneRanking` (`PagesCoverTheRanking`): for any files, sections of
  each, page sizes, caps, pools, and rows and entries that go. What is sorted is the function from
  places to the member that has as many below it (`Sorted`), so that "first n" and "before" are
  cardinalities. `PageInv` has two parts. Without age weighting, what was shown is in order, and the
  sections of files still alive that precede the last one are fewer than what was shown: a row that
  goes only takes some of them away, so the next page, which skips as many as were shown, starts
  behind the last one. While no row goes, each fetched list is a beginning of the ranking and as
  long as was asked for or the whole of it, so pages join to a beginning of the ranking; with age
  weighting the first page's pool must hold every file in scope, and later pools are no smaller.
  That the pool of the *first* fetch is what counts, and that it is capped like every fetch, is the
  property's hypothesis.
- **ServerProofs, Neighbours.** `NearestAreTold` (`NearestAreShown`): for any vectors, documents, chunks,
  results and writes by an update. The argument is `PoolIsEnough`: a vector that is not among the n
  nearest is further than all that are, so a document the pool does not lead to, and a later section
  of one it does lead to, is outranked by every section of the pool; as the pool has one document
  for each wanted result at least, it has the best ones (`BestSame`: sections that all others outrank
  do not change the first n). Weighting by age breaks this, but not where the pool must lead to every
  document there is. `NearInv` adds to it what survives a write: the sections chosen are allowed by
  the rules and the scope and are different chunks (`ChosenWell`), and what was read is what was
  chosen, each with a text its document has or had (`ReadWell`). A chunk found again by its stored
  offset is that chunk while the text is cut where its vectors say, so no section is shown twice. For
  `similar` the best score is what is left of the range after the least distance (`BestScoreIs`).
  Assumed of the constants (`NearTypes`): sizes are positive, a vector has the content and the
  offset of a chunk, and `similar` has no scope, as in the code.
- **QueryProofs.** `StrictAloneFails` (`OnlyStrictFails`): for any documents, worlds and a peer
  process. `DeadlineInv` adds that there are no candidates before they are resolved and that a
  rerank runs into the deadline only for a query that is not strict. `LegsCountOnce`
  (`NoLegCountsTwice`, a part of `AnswerIsExact`): the query's own legs repeat it, one of a kind;
  those of an expansion do not, and each is noted as seen before the next is weighed.
  `CacheIsTrue` (`CacheTellsTheTruth`): for any number of documents, rows, failures and replacements of
  weights. Unless a model's weights were replaced under a process, what a process has loaded, the
  identity a hook carries and each finite score it holds are those of the weights that are there
  (`HookTrue`), every score is of its own key, and a hook that ended well has all it asked for.
  Cached and fresh scores are merged by counting the misses before a chunk; that this gives each
  chunk its own score is `Merged`, from two lemmas about `Nth` (`NthIsThere`, `NthIsPlace`), which
  replace the induction by least numbers (`LeastOf`). `AnswersAreExact` (`AnswerIsExact`): by
  `ScopeInv` a list of a leg, a candidate and a result is a document in scope when the query began,
  and by `KeepInv`, as long as every document fits the limit and the pool, each hit that is still
  active is a candidate, then resolved, then in the answer. `ScoresAreTheirs`
  (`ScoresAreNeverMixed`): `MixInv` says that the rerank is asked for exactly the documents
  resolved, that only a query that was reranked says so, and that each document then has the score
  of its own section; otherwise ordering by score puts them in the order of fusion.

Only model-checked:

- liveness and anything with ENABLED, which are beyond the prover;
- `ReadingIsAccounted`: what it says is computed by flattening and folds, which the prover cannot
  look into. Chunking, HybridQuery, ModelCache, Paging and Neighbours pick by places and sets
  instead, which it can.

## Abstractions

- IndexLock: `inspect` reads the directory in one step; `gethostname` always answers; opening the
  guard file does not fail.
- usearch: a removed key cannot be added again (`VectorIndex::add` says so), and `save_atomic`
  replaces the file in one step. Vector search is taken to be exact (Neighbours).
- A chunk's vector is the triple hash, fingerprint, chunk number. Copying a stored vector for an
  equal chunk text gives the same vector as encoding it and is no step of its own. Extensions with
  AST fingerprints of their own, and a file that fails to load, are not modelled.
- In UpdatePass all texts have one size, so that the stat is the mtime; in Catalog files do not
  change and inactive rows do not occur, since UpdatePass covers them.
- Reading: a pattern is resolved against the rows of one moment, though the code looks up docids,
  paths and the listing for the globs one after another; a document that was deactivated is still
  read by its row; during a `get` the text stays the same from page to page.
- Failing SQLite statements and file writes end the command, as a kill does, unless the code goes
  on.
- Ranking is a constant order (Paging, HybridQuery), relevance a constant of the instance; what a
  model says is a value, and tokens are bounded by bytes (Inference).
- Daemon assumes that a pid is not reused between a check and the signal that follows at once; the
  two seconds of slack in a start time, and a start time that cannot be read, are not modelled.

## Known limits of the code the models record

They are exceptions named in the properties, or constants of a model, so that the properties say
what does hold.

- Lock: a plain `unlock` inspects without the guard and may remove a new holder's lock
  (`unlock.rs:66`); the robbed holder's drop then removes the next one's directory. After a reuse of
  a pid, a dead lock counts as held while the stranger lives.
- Vectors: the purge deletes rows before the sweep looks for them (`collection.rs:310`), which
  leaks vectors; a rebuild killed between removing the file and clearing the table, or a sweep
  killed before its rows go, leaves hashes that look done and have no vectors (`torn`).
- Update: the age of a stat is measured after reading, up to a 30 s wait for the writer later
  (`document.rs:331`; `Slow = TRUE` shows it); overlapping `update` and `collection add` may leave
  two entries for a path (`fts.rs:473`); a restored file stays inactive (finding). A `collection
  add` that has read a file before it changed may write that text over the row of an update's clean
  pass (`collection.rs:191-199`); the next pass mends it.
- Watch: the list of collections is read before the lock (`watch.rs:97`, `refresh.rs:47`), so a
  collection removed meanwhile may be indexed again.
- Catalog: concurrent `set` and switches are lost; an `add` overlapping a `remove` leaves documents
  without a collection; a kill in a rename leaves entries under the old name until a later rename;
  a kill in a purge after the collection's row has gone leaves its contexts
  (`db.rs:1498-1504`), and the next collection of that name inherits them (finding). Contexts that
  the user adds ahead, by a qualified path, are meant for it.
- Daemon: a slow stop without `--force` loses the pidfile (`mcp.rs:62-64`); overlapping servers and
  commands may remove each other's pidfile.
- Server: the mtimes are taken after the readers when a store is opened (`slipped`); a download that
  fails its check stays in the hub's cache and is taken the next time (`kept`); a panic while
  holding the model store's mutex fails later queries until a restart. A call whose client has
  disconnected no longer counts as activity while its blocking work goes on (`lib.rs:162-187`), so
  an idle exit may be decided meanwhile.
- Query: weights replaced under a running process are cached under the new file's identity
  (`query_cache.rs:157`); `search` may return a document deactivated meanwhile.
- Chunking: a shared stretch of two sections with a repeated header has the place of the first; near the
  end of a window the first chunk is not byte-identical; a row longer than the window loses its
  middle; snippet lines may be off by one or two.
- Tools: `get` and `multi_get` show an empty document, without a note, when its row goes between
  look-up and reading or the read fails (`server.rs:774`, `894`; `blank`). The tail of a line cut by the byte cap cannot be read; rows that are gone shorten a page;
  with recency weighting pages shift as the pool grows; `similar` does not widen its pool; of
  contents shared by documents only the first is shown.

## Not modelled

- Text handling (frontmatter, CJK tokenizer), output, evaluation, benchmarks and status: parsing,
  formatting and read-only reports without state or protocol.
- Schema migration; numeric code of the backends, and the ORT backend beyond the trait's default
  rerank; the MCP transport and the tool schemas; the choice of grammars.

## Plan

1. Vector reuse (`reusable_vector_vids`) and AST fingerprints in VectorStore.
2. The HNSW view of a long-lived reader apart from its full-text view.
3. An abstract index (a set of searchable documents) implemented by UpdatePass.
4. A proof of `ReadingIsAccounted`, with its flattened sequences stated by places as in Paging.
