------------------------------ MODULE Catalog ------------------------------
(***************************************************************************)
(* The collections of an index and the commands that change them:           *)
(* `collection add | remove | rename | set | update-cmd | include`,         *)
(* `context add | rm`, and the walk that finds a collection's files.        *)
(*                                                                         *)
(* A collection is a row of settings, the rows of its documents, the        *)
(* full-text entries stored under "collection/path" and the contexts stored *)
(* under "context:rqmd://collection/dir/".  SQLite statements take effect   *)
(* at once, full-text writes when Tantivy commits.  `remove` and `rename`   *)
(* hold the index lock, `add` and `set` do not.  A command may be killed or *)
(* fail between two steps; the locks go with its process (IndexLock shows   *)
(* what becomes of the directory it leaves).                                *)
(***************************************************************************)
EXTENDS Naturals, FiniteSets, Sequences, TLC

CONSTANTS
  Name, Proc,      \* collection names and processes
  Files,           \* the files of the tree the collections are added from,
  Outside,         \* those reached by a symlink that leaves the tree,
  Unmasked, Ignored, Large, Gitignored,  \* left out by mask, glob, size, .gitignore
  Hidden, Builtin, NotUtf8,              \* classes of path components
  AddFlags,        \* the walk flags `add` is given,
  ContextDirs,     \* the directories `context add` is given,
  Budgets,         \* bounds on the commands of each kind and on deaths
  Nobody, Everywhere

Kinds == {"add", "remove", "rename", "set", "switch", "context", "death"}

\* A file is its path: a non-empty sequence of components.
ASSUME FilesType   == \A f \in Files : f # <<>> /\ f \in Seq({f[i] : i \in DOMAIN f})
ASSUME BudgetsType == Budgets \subseteq [Kinds -> Nat]
ASSUME AbsentType  == Nobody \notin Proc /\ Everywhere \notin Name
ASSUME NameType    == Name # {}

VARIABLES
  cols,     \* store_collections, by name
  rows,     \* documents: <<collection, file>>
  fts,      \* the committed full-text entries
  contexts, \* store_config "context:..." keys, with the collection each is for
  orphans,  \* history: the keys that a removal cut short left behind
  lock, writer,  \* holders of the index lock and of Tantivy's writer lock
  job,      \* the command each process runs
  chosen,   \* history: the settings the user last gave each collection
  torn,     \* history: names whose entries a death or a busy writer left behind
  raced,    \* history: names two commands changed at once, one without the lock
  nextId, left

catalogVars ==
  <<cols, rows, fts, contexts, orphans, lock, writer, job, chosen, torn, raced, nextId, left>>

Flags == [hidden : BOOLEAN, gitignore : BOOLEAN]
Rules == {"embed_ignore", "embed_max_bytes"}
Settings == Rules \cup {"include", "update_command"}
Kept  == [Settings -> BOOLEAN]
Unset == [s \in Settings |-> s = "include"]

ASSUME AddFlagsType == AddFlags \subseteq Flags

\* The owner of a context written while its name is no collection's.
NoId == 0

PCs  == {"idle", "upsert", "walk", "flush", "documents", "row", "contexts",
         "entries", "tx", "commit", "write"}
Job  == [pc : PCs, names : SUBSET Name, name : Name, to : Name, flags : Flags,
         keep : Kept, change : SUBSET Settings, snap : SUBSET (Name \X Files), found : SUBSET Files,
         del : SUBSET (Name \X Files), ins : SUBSET (Name \X Files)]

NoJob == LET n == CHOOSE m \in Name : TRUE IN
  [pc |-> "idle", names |-> {}, name |-> n, to |-> n,
   flags |-> [hidden |-> FALSE, gitignore |-> FALSE], keep |-> Unset,
   change |-> {}, snap |-> {}, found |-> {}, del |-> {}, ins |-> {}]

CatalogInit ==
  /\ cols = <<>> /\ rows = {} /\ fts = {} /\ contexts = <<>> /\ orphans = {}
  /\ lock = Nobody /\ writer = Nobody
  /\ job = [p \in Proc |-> NoJob]
  /\ chosen = <<>> /\ torn = {} /\ raced = {}
  /\ nextId = 1
  /\ left \in Budgets

NoCatalog ==
  /\ cols = <<>> /\ rows = {} /\ fts = {} /\ contexts = <<>> /\ orphans = {}
  /\ lock = Nobody /\ writer = Nobody
  /\ job = [p \in Proc |-> NoJob]
  /\ chosen = <<>> /\ torn = {} /\ raced = {}
  /\ nextId = 1
  /\ left = [k \in Kinds |-> 0]

Spend(k) == left[k] > 0 /\ left' = [left EXCEPT ![k] = @ - 1]

Exists(n)     == n \in DOMAIN cols
Put(f, k, v)  == [x \in DOMAIN f \cup {k} |-> IF x = k THEN v ELSE f[x]]
Drop(f, S)    == [x \in DOMAIN f \ S |-> f[x]]
Busy(n)       == \E p \in Proc : n \in job[p].names

\* A command without the lock meets any other that changes n.
Spoilt(n)     == raced \cup {m \in {n} : Busy(m)}

Step(p, r)    == job' = [job EXCEPT ![p] = r]
Finish(p)     == Step(p, NoJob)

-----------------------------------------------------------------------------
(* The walk.                                                               *)

component_excluded(name, allow_hidden) ==
  \/ ~allow_hidden /\ name \in Hidden
  \/ name \in Builtin

prunes_dir(name, allow_hidden) ==
  name \in NotUtf8 \/ component_excluded(name, allow_hidden)

is_excluded(f, allow_hidden) ==
  \/ \E i \in DOMAIN f : f[i] \in NotUtf8 \/ component_excluded(f[i], allow_hidden)
  \/ f \in Ignored

\* A file is met unless a directory above it, below the root, is pruned.
walk_paths(w) ==
  {f \in Files : /\ w.gitignore => f \notin Gitignored
                 /\ \A i \in 1 .. Len(f) - 1 : ~prunes_dir(f[i], w.hidden)}

is_contained_in(f) == f \notin Outside

collect_candidates(w) ==
  {f \in walk_paths(w) : /\ is_contained_in(f)
                         /\ ~is_excluded(f, w.hidden)
                         /\ f \notin Unmasked \cup Large}

-----------------------------------------------------------------------------
(* Contexts.                                                               *)

Keys    == (Name \X ContextDirs) \cup {<<Everywhere, <<>>>>}
Parents(f) == {SubSeq(f, 1, i) : i \in 0 .. Len(f) - 1}

\* The key of the nearest directory above f that has one, else the global one.
get_context_for_path(n, f) ==
  LET own == {d \in Parents(f) : <<n, d>> \in DOMAIN contexts}
  IN  IF own # {} THEN {<<n, CHOOSE d \in own : \A e \in own : Len(e) <= Len(d)>>}
      ELSE DOMAIN contexts \cap {<<Everywhere, <<>>>>}

Owner(n) == IF Exists(n) THEN cols[n].id ELSE NoId

\* A bare name must be a collection's; "/" and a qualified path are taken as given.
resolve_context_target(k, bare) ==
  bare => k[2] = <<>> /\ Exists(k[1])

context_add(k, bare) ==
  /\ Spend("context")
  /\ resolve_context_target(k, bare)
  /\ contexts' = Put(contexts, k, Owner(k[1]))
  /\ orphans' = orphans \ {k}
  /\ UNCHANGED <<cols, rows, fts, lock, writer, job, chosen, torn, raced, nextId>>

context_rm(k, bare) ==
  /\ Spend("context")
  /\ resolve_context_target(k, bare)
  /\ contexts' = Drop(contexts, {k})
  /\ orphans' = orphans \ {k}
  /\ UNCHANGED <<cols, rows, fts, lock, writer, job, chosen, torn, raced, nextId>>

\* The keys under `context:rqmd://n/`.
KeysOf(n) == {k \in DOMAIN contexts : k[1] = n}

-----------------------------------------------------------------------------
(* Settings, each written without the index lock.                          *)

\* update-cmd, include and exclude: one statement.
Switch(n, field, v) ==
  /\ Spend("switch")
  /\ Exists(n)
  /\ cols' = [cols EXCEPT ![n].keep[field] = v]
  /\ chosen' = [chosen EXCEPT ![n][field] = v]
  /\ raced' = Spoilt(n)
  /\ UNCHANGED <<rows, fts, contexts, orphans, lock, writer, job, torn, nextId>>

\* `set` reads the rules, changes one or both and writes both.
SetRead(p, n, rules) ==
  /\ job[p].pc = "idle"
  /\ Spend("set")
  /\ Exists(n)
  /\ Step(p, [NoJob EXCEPT !.pc = "write", !.names = {n}, !.name = n,
                          !.change = DOMAIN rules,
                          !.keep = [f \in Settings |-> IF f \in DOMAIN rules THEN rules[f]
                                                      ELSE cols[n].keep[f]]])
  /\ raced' = Spoilt(n)
  /\ UNCHANGED <<cols, rows, fts, contexts, orphans, lock, writer, chosen, torn, nextId>>

\* What the user has asked of a collection, once the command is done.
Asked(j) == [f \in Settings |-> IF f \in j.change THEN j.keep[f] ELSE chosen[j.name][f]]

set_collection_embed_rules(p) ==
  LET j == job[p] IN
  /\ j.pc = "write"
  /\ cols' = IF Exists(j.name)
             THEN [cols EXCEPT ![j.name].keep =
                     [f \in Settings |-> IF f \in Rules THEN j.keep[f] ELSE @[f]]]
             ELSE cols
  /\ chosen' = IF Exists(j.name) THEN [chosen EXCEPT ![j.name] = Asked(j)] ELSE chosen
  /\ Finish(p)
  /\ UNCHANGED <<rows, fts, contexts, orphans, lock, writer, torn, raced, nextId, left>>

-----------------------------------------------------------------------------
(* add: no index lock.                                                     *)

AddRead(p, n, w) ==
  /\ job[p].pc = "idle"
  /\ Spend("add")
  /\ Step(p, [NoJob EXCEPT !.pc = "upsert", !.names = {n}, !.name = n, !.flags = w,
                          !.keep = IF Exists(n) THEN cols[n].keep ELSE Unset])
  /\ raced' = Spoilt(n)
  /\ UNCHANGED <<cols, rows, fts, contexts, orphans, lock, writer, chosen, torn, nextId>>

upsert_collection(p) ==
  LET j == job[p] IN
  /\ j.pc = "upsert"
  /\ cols' = Put(cols, j.name,
                 [id |-> IF Exists(j.name) THEN cols[j.name].id ELSE nextId,
                  flags |-> j.flags, keep |-> j.keep])
  /\ nextId' = IF Exists(j.name) THEN nextId ELSE nextId + 1
  /\ chosen' = IF Exists(j.name) THEN chosen ELSE Put(chosen, j.name, Unset)
  /\ Step(p, [j EXCEPT !.pc = "walk"])
  /\ UNCHANGED <<rows, fts, contexts, orphans, lock, writer, torn, raced, left>>

\* A file whose row is there, unchanged, is left alone; a new one gets its row
\* at once and its entry when the writer commits.
New(p) == {<<job[p].name, f>> : f \in collect_candidates(job[p].flags)} \ rows

AddDocuments(p) ==
  /\ job[p].pc = "walk"
  /\ New(p) # {} => writer = Nobody
  /\ rows' = rows \cup New(p)
  /\ writer' = IF New(p) = {} THEN writer ELSE p
  /\ Step(p, [job[p] EXCEPT !.pc = "flush", !.ins = New(p),
                            !.found = collect_candidates(job[p].flags)])
  /\ UNCHANGED <<cols, fts, contexts, orphans, lock, chosen, torn, raced, nextId, left>>

\* The writer stays busy for RQMD_LOCK_WAIT_SECS: each new document is skipped
\* with a warning, after its row was written.
AddUnstaged(p) ==
  /\ job[p].pc = "walk"
  /\ New(p) # {} /\ writer # Nobody
  /\ rows' = rows \cup New(p)
  /\ torn' = torn \cup {job[p].name}
  /\ Finish(p)
  /\ UNCHANGED <<cols, fts, contexts, orphans, lock, writer, chosen, raced, nextId, left>>

Released(p) == IF writer = p THEN Nobody ELSE writer

AddFlush(p) ==
  /\ job[p].pc = "flush"
  /\ fts' = fts \cup job[p].ins
  /\ writer' = Released(p)
  /\ Finish(p)
  /\ UNCHANGED <<cols, rows, contexts, orphans, lock, chosen, torn, raced, nextId, left>>

-----------------------------------------------------------------------------
(* remove: under the index lock, one statement after another.              *)

\* Variant: a lock already held is taken all the same.
acquire_anyway(p) == lock' = p

Acquire(p) == lock = Nobody /\ lock' = p
Release(p) == lock' = IF lock = p THEN Nobody ELSE lock

\* A command under the lock meets those without it.
Met(names) == {m \in names : \E q \in Proc : m \in job[q].names /\ lock # q}

RemoveOpen(p, n) ==
  /\ job[p].pc = "idle"
  /\ Spend("remove")
  /\ Acquire(p)
  /\ Exists(n)
  /\ Step(p, [NoJob EXCEPT !.pc = "documents", !.names = {n}, !.name = n, !.snap = fts])
  /\ raced' = raced \cup Met({n})
  /\ UNCHANGED <<cols, rows, fts, contexts, orphans, writer, chosen, torn, nextId>>

PurgeDocuments(p) ==
  LET own == {r \in rows : r[1] = job[p].name} IN
  /\ job[p].pc = "documents"
  /\ rows' = rows \ own
  /\ Step(p, [job[p] EXCEPT !.pc = "row", !.del = own])
  /\ UNCHANGED <<cols, fts, contexts, orphans, lock, writer, chosen, torn, raced, nextId, left>>

PurgeRow(p) ==
  /\ job[p].pc = "row"
  /\ cols' = Drop(cols, {job[p].name})
  /\ chosen' = Drop(chosen, {job[p].name})
  /\ Step(p, [job[p] EXCEPT !.pc = "contexts"])
  /\ UNCHANGED <<rows, fts, contexts, orphans, lock, writer, torn, raced, nextId, left>>

\* Variant: the contexts are left behind.
leave_contexts(p) ==
  /\ job[p].pc = "contexts"
  /\ Step(p, [job[p] EXCEPT !.pc = "entries"])
  /\ UNCHANGED <<cols, rows, fts, contexts, orphans, lock, writer, chosen, torn, raced, nextId, left>>

PurgeContexts(p) ==
  /\ job[p].pc = "contexts"
  /\ contexts' = Drop(contexts, KeysOf(job[p].name))
  /\ orphans' = orphans \ KeysOf(job[p].name)
  /\ Step(p, [job[p] EXCEPT !.pc = "entries"])
  /\ UNCHANGED <<cols, rows, fts, lock, writer, chosen, torn, raced, nextId, left>>

\* Only entries its reader sees are found; with the writer busy each deletion
\* is a warning.
RemoveEntries(p) ==
  LET j == job[p]
      refused == j.del # {} /\ writer # Nobody IN
  /\ j.pc = "entries"
  /\ fts' = IF refused THEN fts ELSE fts \ (j.del \cap j.snap)
  /\ torn' = IF refused THEN torn \cup {j.name} ELSE torn
  /\ Release(p)
  /\ Finish(p)
  /\ UNCHANGED <<cols, rows, contexts, orphans, writer, chosen, raced, nextId, left>>

-----------------------------------------------------------------------------
(* rename: one SQLite transaction, then the commit of the full-text index. *)

RenameOpen(p, old, new) ==
  /\ job[p].pc = "idle"
  /\ Spend("rename")
  /\ Acquire(p)
  /\ Exists(old) /\ ~Exists(new)
  /\ Step(p, [NoJob EXCEPT !.pc = "tx", !.names = {old, new}, !.name = old, !.to = new,
                          !.snap = fts])
  /\ raced' = raced \cup Met({old, new})
  /\ UNCHANGED <<cols, rows, fts, contexts, orphans, writer, chosen, torn, nextId>>

Moved(k, old, new) == IF k = old THEN new ELSE k

\* Keys under the old name replace those already under the new one.
MovedKeys(old, new)   == {<<new, k[2]>> : k \in KeysOf(old)}
Source(k, old, new)   == IF k \in MovedKeys(old, new) THEN <<old, k[2]>> ELSE k
MovedContexts(old, new) ==
  [k \in (DOMAIN contexts \ KeysOf(old)) \cup MovedKeys(old, new) |-> contexts[Source(k, old, new)]]

Taken(new) == Exists(new) \/ \E r \in rows : r[1] = new

\* Variant: only the entries of the old name are swept.
old_name_only(seen, live, old) == {e \in seen \ live : e[1] = old}

\* Every entry the reader sees that no document accounts for.
Stale(seen, live, old) == seen \ live

rename_collection(p) ==
  LET j     == job[p]
      rows2 == {<<Moved(r[1], j.name, j.to), r[2]>> : r \in rows}
      ins   == {r \in rows2 : r[1] = j.to}
      del   == (ins \cap j.snap) \cup Stale(j.snap, rows2, j.name) IN
  /\ j.pc = "tx"
  /\ ~Taken(j.to)
  /\ ins \cup del # {} => writer = Nobody
  /\ rows' = rows2
  /\ cols' = [n \in {Moved(m, j.name, j.to) : m \in DOMAIN cols} |->
                IF n = j.to THEN cols[j.name] ELSE cols[n]]
  /\ chosen' = [n \in DOMAIN cols' |-> IF n = j.to THEN chosen[j.name] ELSE chosen[n]]
  /\ contexts' = MovedContexts(j.name, j.to)
  /\ orphans' = {k \in DOMAIN contexts' : Source(k, j.name, j.to) \in orphans}
  /\ writer' = IF ins \cup del = {} THEN writer ELSE p
  /\ Step(p, [j EXCEPT !.pc = "commit", !.ins = ins, !.del = del])
  /\ raced' = IF j.name \in raced THEN raced \cup {j.to} ELSE raced
  /\ UNCHANGED <<fts, lock, torn, nextId, left>>

\* The name is taken, or the writer stays busy: the transaction rolls back.
RenameFails(p) ==
  /\ job[p].pc = "tx"
  /\ Taken(job[p].to) \/ writer # Nobody
  /\ Release(p)
  /\ Finish(p)
  /\ UNCHANGED <<cols, rows, fts, contexts, orphans, writer, chosen, torn, raced, nextId, left>>

RenameCommit(p) ==
  LET j == job[p] IN
  /\ j.pc = "commit"
  /\ fts' = (fts \ j.del) \cup j.ins
  /\ torn' = torn \ j.names
  /\ writer' = Released(p)
  /\ Release(p)
  /\ Finish(p)
  /\ UNCHANGED <<cols, rows, contexts, orphans, chosen, raced, nextId, left>>

-----------------------------------------------------------------------------
(* A command is killed, or fails: what it staged is gone.                  *)

JobDies(p) ==
  LET j == job[p] IN
  /\ j.pc # "idle"
  /\ Spend("death")
  /\ torn' = torn \cup j.names
  \* A purge cut before its last statement leaves the contexts of a collection
  \* whose row is gone.
  /\ orphans' = IF j.pc = "contexts" THEN orphans \cup KeysOf(j.name) ELSE orphans
  /\ writer' = Released(p)
  /\ Release(p)
  /\ Finish(p)
  /\ UNCHANGED <<cols, rows, fts, contexts, chosen, raced, nextId>>

Changes == UNION {[F -> BOOLEAN] : F \in {{"embed_ignore"}, {"embed_max_bytes"}}}

Launch(p) ==
  \/ \E n \in Name : \/ \E w \in AddFlags : AddRead(p, n, w)
                     \/ RemoveOpen(p, n)
                     \/ \E c \in Changes : SetRead(p, n, c)
                     \/ \E new \in Name : RenameOpen(p, n, new)

CatalogNext ==
  \/ \E p \in Proc :
       \/ Launch(p)
       \/ upsert_collection(p) \/ AddDocuments(p) \/ AddUnstaged(p) \/ AddFlush(p)
       \/ PurgeDocuments(p) \/ PurgeRow(p) \/ PurgeContexts(p) \/ RemoveEntries(p)
       \/ rename_collection(p) \/ RenameFails(p) \/ RenameCommit(p)
       \/ set_collection_embed_rules(p)
       \/ JobDies(p)
  \/ \E k \in Keys, bare \in BOOLEAN : context_add(k, bare) \/ context_rm(k, bare)
  \/ \E n \in Name, field \in {"include", "update_command"}, v \in BOOLEAN : Switch(n, field, v)

-----------------------------------------------------------------------------
(* Properties.                                                             *)

\* Types: each lock is held by a command that is at a step which needs it, and
\* ids are never reused.
CatalogTypes ==
  /\ DOMAIN cols \subseteq Name /\ DOMAIN chosen = DOMAIN cols
  /\ \A n \in DOMAIN cols : /\ cols[n] \in [id : 1 .. nextId - 1, flags : Flags, keep : Kept]
                            /\ \A m \in DOMAIN cols \ {n} : cols[m].id # cols[n].id
  /\ rows \cup fts \subseteq Name \X Files
  /\ DOMAIN contexts \subseteq Keys /\ orphans \subseteq DOMAIN contexts
  /\ job \in [Proc -> Job]
  /\ torn \cup raced \subseteq Name
  /\ \A p \in Proc : (lock = p) <=> job[p].pc \in
       {"documents", "row", "contexts", "entries", "tx", "commit"}
  /\ writer = Nobody \/ job[writer].pc \in {"flush", "commit"}

\* The full-text index answers for the rows: whatever adds, removals and renames
\* came before, once nobody works on a name its entries are its documents, and a
\* rename also mends what a death had torn.
EntriesMatchRows ==
  \A n \in Name \ (torn \cup raced) :
    ~Busy(n) => {e \in fts : e[1] = n} = {r \in rows : r[1] = n}

\* A context stays with the collection it was written for: it follows a rename
\* and goes with a removal, so it never describes a later collection of the name,
\* but for the very keys that a removal cut between its last two statements left
\* (NothingIsInherited).  Keys written ahead of the collection are the user's.
ContextsFollow ==
  \A k \in DOMAIN contexts \ orphans :
    \/ contexts[k] = NoId
    \/ Exists(k[1]) /\ cols[k[1]].id = contexts[k]
    \/ \E p \in Proc : job[p].pc = "contexts" /\ job[p].name = k[1]

\* "Left behind, they would attach to any later collection that reuses the name":
\* once no removal is under way, no collection has the contexts of another.
NothingIsInherited ==
  (\A p \in Proc : job[p].pc # "contexts") =>
    \A k \in DOMAIN contexts : Exists(k[1]) => contexts[k] \in {NoId, cols[k[1]].id}

\* A setting the user gave is the one in force: adding a collection again or
\* renaming it keeps the hook, the include switch and the embed rules.
SettingsAreKept ==
  \A n \in DOMAIN cols \ raced : cols[n].keep = chosen[n]

\* A walk finds every file the rules allow and no other: pruning a directory
\* never hides a file that would be kept, and no symlink leads out of the tree.
Allowed(w) ==
  {f \in Files \ (Outside \cup Unmasked \cup Large \cup Ignored) :
     /\ w.gitignore => f \notin Gitignored
     /\ {f[i] : i \in DOMAIN f} \cap (NotUtf8 \cup Builtin) = {}
     /\ w.hidden \/ {f[i] : i \in DOMAIN f} \cap Hidden = {}}

FoundIsAllowed ==
  \A p \in Proc : job[p].pc = "flush" => job[p].found = Allowed(job[p].flags)

\* A rename that ends leaves, of the entries it saw, only those of documents,
\* the leftovers of earlier renames included.
RenameSweeps ==
  [][\A p \in Proc : job[p].pc = "commit" /\ fts' # fts => fts' \cap job[p].snap \subseteq rows]_catalogVars

\* A rename changes no document's context, unless contexts had been written
\* ahead, or left, under the new name.
Shown(n, f) == {<<k[1] = Everywhere, k[2], contexts[k]>> : k \in get_context_for_path(n, f)}

RenameKeepsContexts ==
  [][\A p \in Proc, old, new \in Name :
       /\ job[p].pc = "tx" /\ job'[p].pc = "commit"
       /\ job[p].name = old /\ job[p].to = new
       /\ KeysOf(new) = {}
       => \A f \in Files : Shown(new, f)' = Shown(old, f)]_catalogVars

\* What a search can show of a collection: the entries of its documents, which
\* are the files its walk is allowed to find.
EntriesAreTheFiles == CatalogTypes /\ FoundIsAllowed /\ EntriesMatchRows

\* What the user attached to a collection stays with it: contexts, the hook, the
\* include switch and the embed rules, through adding again, renaming, removing
\* and deaths, but for the contexts a cut removal leaves.
BelongingsFollow == ContextsFollow /\ SettingsAreKept

\* A rename takes everything along and leaves nothing behind.
RenameIsWhole == RenameSweeps /\ RenameKeepsContexts
=============================================================================
