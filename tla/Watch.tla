-------------------------------- MODULE Watch --------------------------------
(***************************************************************************)
(* `rqmd watch` among the commands it shares an index with: `rqmd update`   *)
(* with its hooks and signals, the refresh of the MCP server, `rqmd embed`  *)
(* as a mere holder of the lock, `collection add` and `collection remove`.  *)
(*                                                                         *)
(* UpdatePass has the pass over many files in detail; here a collection is  *)
(* one file, and what matters is when a pass happens: fingerprints, the     *)
(* lock, the pending full-text rebuild, deferral and back-off, signals.     *)
(* The lock is a mutex (IndexLock) that a dead process does not keep.       *)
(*                                                                         *)
(* A file's mtime is a stamp.  `fresh` says that the stamp is younger than  *)
(* MTIME_TRUST_WINDOW: only then can another write leave the same stamp.    *)
(***************************************************************************)
EXTENDS Naturals, FiniteSets

CONSTANTS
  Coll,          \* collections
  Text,          \* what a file may hold
  Hooked,        \* collections with an update_command
  Interval,      \* --interval, in units of sleep
  MaxBackoff,    \* MAX_BACKOFF, in the same units
  NoText, NoStat, Nobody,
  Budget         \* bounds on commands and on disturbances

Kinds == {"command", "trouble"}
Proc  == {"watch", "update", "refresh", "embed"}
Stamp == 1..(1 + Budget.trouble)
Scope == {Coll} \cup {{c} : c \in Coll}

ASSUME BudgetType == Budget \in [Kinds -> Nat]
ASSUME HookedType == Hooked \subseteq Coll
ASSUME WaitType   == Interval \in Nat \ {0} /\ MaxBackoff \in Nat
ASSUME TextType   == Text # {}
ASSUME AbsentType == NoText \notin Text /\ NoStat \notin Nat /\ Nobody \notin Proc

VARIABLES
  disk,       \* the files: text, stamp, fresh, readable, and whether the directory is there
  cols,       \* store_collections
  idx,        \* the document of each collection: text, recorded stat
  fts,        \* its full-text entry: none, or made by an old or by this tokenizer
  marks,      \* store_config: raw split backfilled, tokenizer version current
  lock,       \* the index lock
  hand,       \* the file the lock's holder is indexing
  watch,      \* the Watcher
  upd,        \* `rqmd update`
  ref,        \* a refresh
  sig,        \* signals each process has received
  child,      \* the hook's process
  unread,     \* history: collections whose file the last look could not read
  left        \* events that may still happen

vars == <<disk, cols, idx, fts, marks, lock, hand, watch, upd, ref, sig, child, unread, left>>

NoHand == [coll |-> {}, stat |-> NoStat, fresh |-> FALSE, text |-> NoText]
Due    == [fp : Stamp \cup {0}, settled : BOOLEAN]

WatchOff == [pc |-> "off", seen |-> [c \in Coll |-> NoStat], due |-> <<>>, deferrals |-> 0, wait |-> 0]
UpdOff   == [pc |-> "off", scope |-> {}, todo |-> {}, cur |-> {}, clean |-> TRUE]
RefOff   == [pc |-> "off", todo |-> {}, asked |-> {}, same |-> {}, outcome |-> "none"]

TypeOK ==
  /\ disk \in [Coll -> [text : Text, stamp : Stamp, fresh : BOOLEAN,
                        readable : BOOLEAN, present : BOOLEAN]]
  /\ cols \subseteq Coll
  /\ idx \in [Coll -> [text : Text \cup {NoText}, stat : Stamp \cup {NoStat}]]
  /\ fts \in [Coll -> {"none", "old", "new"}]
  /\ marks \in [split : BOOLEAN, tokenizer : BOOLEAN]
  /\ lock \in Proc \cup {Nobody}
  /\ hand \in [coll : SUBSET Coll, stat : Stamp \cup {NoStat}, fresh : BOOLEAN,
               text : Text \cup {NoText}]
  /\ watch.pc \in {"off", "tick", "due", "try", "pass", "sleep"}
  /\ watch.seen \in [Coll -> Stamp \cup {0, NoStat}]
  /\ DOMAIN watch.due \subseteq Coll /\ \A c \in DOMAIN watch.due : watch.due[c] \in Due
  /\ watch.deferrals \in Nat /\ watch.wait \in Nat
  /\ upd \in [pc : {"off", "loop", "hook", "grace", "pass", "certify", "recreate", "rebuild", "version"},
              scope : SUBSET Coll, todo : SUBSET Coll, cur : SUBSET Coll, clean : BOOLEAN]
  /\ ref \in [pc : {"off", "list", "lock", "pass"}, todo : SUBSET Coll, asked : SUBSET Coll,
              same : SUBSET Coll, outcome : {"none", "Refreshed", "Locked", "RebuildPending", "TimedOut"}]
  /\ sig \in [{"watch", "update"} -> Nat]
  /\ child \in {"none", "running", "ok", "failed", "orphan"}
  /\ unread \subseteq Coll
  /\ left \in [Kinds -> Nat]

\* An index made by an older release, or one without documents, new or
\* updated before; the watch has started.
Init ==
  /\ LET t == CHOOSE t \in Text : TRUE
     IN  disk = [c \in Coll |-> [text |-> t, stamp |-> 1, fresh |-> TRUE,
                                readable |-> TRUE, present |-> TRUE]]
  /\ cols = Coll
  /\ \E old \in BOOLEAN :
       /\ idx = [c \in Coll |-> [text |-> IF old THEN disk[c].text ELSE NoText, stat |-> NoStat]]
       /\ fts = [c \in Coll |-> IF old THEN "old" ELSE "none"]
       /\ \E split \in BOOLEAN : marks = [split |-> split, tokenizer |-> split /\ ~old]
  /\ lock = Nobody
  /\ hand = NoHand
  /\ watch = [WatchOff EXCEPT !.pc = "tick"]
  /\ upd = UpdOff
  /\ ref = RefOff
  /\ sig = [p \in {"watch", "update"} |-> 0]
  /\ child = "none"
  /\ unread = {}
  /\ left = Budget

Spend(k) == left[k] > 0 /\ left' = [left EXCEPT ![k] = @ - 1]

-----------------------------------------------------------------------------
(* The world: files, time, the user.                                       *)

\* A refresh promises nothing about a file changed after it was asked.
Touched(c) == ref' = [ref EXCEPT !.same = @ \ {c}]

Edit(c, t) ==
  /\ disk[c].present /\ disk[c].text # t
  /\ Spend("trouble")
  /\ \E s \in {disk[c].stamp, disk[c].stamp + 1} :
       /\ s = disk[c].stamp => disk[c].fresh
       /\ disk' = [disk EXCEPT ![c].text = t, ![c].stamp = s, ![c].fresh = TRUE]
  /\ Touched(c)
  /\ UNCHANGED <<cols, idx, fts, marks, lock, hand, watch, upd, sig, child, unread>>

\* A mount comes or goes; a mode changes, which no stamp records.
ChangeAccess(c) ==
  /\ Spend("trouble")
  /\ \/ disk' = [disk EXCEPT ![c].present = ~@]
     \/ disk' = [disk EXCEPT ![c].readable = ~@]
  /\ Touched(c)
  /\ UNCHANGED <<cols, idx, fts, marks, lock, hand, watch, upd, sig, child, unread>>

\* The trust window of a stamp ends; not while the file is being indexed.
Age(c) ==
  /\ disk[c].fresh
  /\ c \notin hand.coll
  /\ disk' = [disk EXCEPT ![c].fresh = FALSE]
  /\ UNCHANGED <<cols, idx, fts, marks, lock, hand, watch, upd, ref, sig, child, unread, left>>

\* Variant: a repeat always ends the process.
ExitAlways(p) == TRUE

\* Signal handlers: `rqmd update` stops exiting on a repeat while it runs a
\* hook, whose runner decides what a repeat means.
ExitOnRepeat(p) == p = "watch" \/ upd.pc \notin {"hook", "grace"}

Running(p) == IF p = "watch" THEN watch.pc # "off" ELSE upd.pc # "off"

\* The process ends without a word: its lock is left to be reclaimed.
Gone(p) ==
  /\ lock' = IF lock = p THEN Nobody ELSE lock
  /\ hand' = IF lock = p THEN NoHand ELSE hand
  /\ IF p = "watch" THEN watch' = WatchOff /\ UNCHANGED upd ELSE upd' = UpdOff /\ UNCHANGED watch
  /\ child' = IF p = "update" /\ child = "running" THEN "orphan" ELSE child
  /\ sig' = [sig EXCEPT ![p] = 0]

\* on_signal
on_signal(p) ==
  /\ Running(p)
  /\ Spend("trouble")
  /\ IF sig[p] > 0 /\ ExitOnRepeat(p) THEN Gone(p)
     ELSE sig' = [sig EXCEPT ![p] = @ + 1] /\ UNCHANGED <<lock, hand, watch, upd, child>>
  /\ UNCHANGED <<disk, cols, idx, fts, marks, ref, unread>>

\* A kill leaves a running hook to itself, which is not looked at.
Kill(p) ==
  /\ Running(p)
  /\ Spend("trouble")
  /\ p = "update" => upd.pc \notin {"hook", "grace"}
  /\ Gone(p)
  /\ UNCHANGED <<disk, cols, idx, fts, marks, ref, unread>>

-----------------------------------------------------------------------------
(* update_one_collection, by whoever holds the lock.                       *)

\* trusted_stat
trusted_stat(h) == IF h.fresh THEN NoStat ELSE h.stat

\* The pass over c ends without reading its file: the directory is missing,
\* the recorded stat is the file's, or the read fails.
NothingToRead(c, full) ==
  \/ ~disk[c].present
  \/ ~full /\ idx[c].stat = disk[c].stamp
  \/ ~disk[c].readable

Unclean(c, full) ==
  ~disk[c].present \/ (~disk[c].readable /\ (full \/ idx[c].stat # disk[c].stamp))

Look(c, full) ==
  /\ NothingToRead(c, full)
  /\ unread' = IF Unclean(c, full) THEN unread \cup {c} ELSE unread
  /\ UNCHANGED <<idx, fts, hand>>

\* stat_file, then prepare
Read(c, full) ==
  /\ ~NothingToRead(c, full)
  /\ hand' = [coll |-> {c}, stat |-> disk[c].stamp, fresh |-> disk[c].fresh, text |-> disk[c].text]
  /\ UNCHANGED <<idx, fts, unread>>

\* The row, its full-text entry when the text is new, the stat, the flush.
Index(c) ==
  /\ idx' = [idx EXCEPT ![c] = [text |-> hand.text, stat |-> trusted_stat(hand)]]
  /\ fts' = [fts EXCEPT ![c] = IF idx[c].text = hand.text THEN @ ELSE "new"]
  /\ unread' = unread \ {c}
  /\ hand' = NoHand

\* fts_rebuild_pending
RebuildPending == ~marks.tokenizer /\ \E c \in Coll : idx[c].text # NoText

-----------------------------------------------------------------------------
(* The watch.                                                              *)

Fingerprint(c) == IF disk[c].present THEN disk[c].stamp ELSE 0
Settled(c)     == disk[c].present => ~disk[c].fresh

Doubled(n) == IF n <= 1 THEN Interval
              ELSE Interval * (2 ^ (IF n - 1 > 5 THEN 5 ELSE n - 1))

backoff(n) == LET most == IF MaxBackoff > Interval THEN MaxBackoff ELSE Interval
              IN  IF Doubled(n) > most THEN most ELSE Doubled(n)

Asleep(w, wait) == [w EXCEPT !.pc = "sleep", !.due = <<>>, !.wait = wait]

\* Watcher::tick up to the collections that are due.
tick ==
  /\ watch.pc = "tick"
  /\ LET seen == [c \in Coll |-> IF c \in cols THEN watch.seen[c] ELSE NoStat]
         due  == {c \in cols : seen[c] # Fingerprint(c)}
         w    == [watch EXCEPT !.seen = seen]
     IN  watch' = IF sig["watch"] > 0 THEN WatchOff
                  ELSE IF due = {} THEN Asleep(w, Interval)
                  ELSE [w EXCEPT !.pc = "due",
                         !.due = [c \in due |-> [fp |-> Fingerprint(c), settled |-> Settled(c)]]]
  /\ UNCHANGED <<disk, cols, idx, fts, marks, lock, hand, upd, ref, sig, child, unread, left>>

\* The count saturates where the back-off no longer grows.
defer ==
  LET d == watch.deferrals
      n == IF d > 0 /\ backoff(d) = backoff(d + 1) THEN d ELSE d + 1
  IN  [Asleep(watch, backoff(n)) EXCEPT !.deferrals = n]

CheckRebuild ==
  /\ watch.pc = "due"
  /\ watch' = IF RebuildPending THEN defer ELSE [watch EXCEPT !.pc = "try"]
  /\ UNCHANGED <<disk, cols, idx, fts, marks, lock, hand, upd, ref, sig, child, unread, left>>

WatchLock ==
  /\ watch.pc = "try"
  /\ IF lock # Nobody THEN watch' = defer /\ UNCHANGED lock
     ELSE watch' = [watch EXCEPT !.pc = "pass"] /\ lock' = "watch"
  /\ UNCHANGED <<disk, cols, idx, fts, marks, hand, upd, ref, sig, child, unread, left>>

\* Variant: the fingerprint is remembered although a stamp is too young.
remember_young(w, c) == [w EXCEPT !.due = [d \in DOMAIN w.due \ {c} |-> w.due[d]],
                                  !.seen[c] = w.due[c].fp]

\* The fingerprint is remembered, clean pass or not, unless a stamp was young.
Remember(w, c) == [w EXCEPT !.due = [d \in DOMAIN w.due \ {c} |-> w.due[d]],
                            !.seen[c] = IF w.due[c].settled THEN w.due[c].fp ELSE @]

\* A signal stops the pass before the next file and ends the watch, which
\* drops its lock.  A collection without its directory has no files.
WatchStops(c) ==
  /\ watch.pc = "pass" /\ c \in DOMAIN watch.due /\ hand = NoHand
  /\ sig["watch"] > 0 /\ disk[c].present
  /\ watch' = WatchOff
  /\ lock' = Nobody
  /\ UNCHANGED <<disk, cols, idx, fts, marks, hand, upd, ref, sig, child, unread, left>>

WatchLooks(c) ==
  /\ watch.pc = "pass" /\ c \in DOMAIN watch.due /\ hand = NoHand
  /\ disk[c].present => sig["watch"] = 0
  /\ \/ Look(c, FALSE) /\ watch' = Remember(watch, c)
     \/ Read(c, FALSE) /\ UNCHANGED watch
  /\ UNCHANGED <<disk, cols, marks, lock, upd, ref, sig, child, left>>

WatchIndexes(c) ==
  /\ watch.pc = "pass" /\ hand.coll = {c}
  /\ Index(c)
  /\ watch' = Remember(watch, c)
  /\ UNCHANGED <<disk, cols, marks, lock, upd, ref, sig, child, left>>

WatchPassed ==
  /\ watch.pc = "pass" /\ DOMAIN watch.due = {}
  /\ watch' = [Asleep(watch, Interval) EXCEPT !.deferrals = 0]
  /\ lock' = Nobody
  /\ UNCHANGED <<disk, cols, idx, fts, marks, hand, upd, ref, sig, child, unread, left>>

sleep_until_signal ==
  /\ watch.pc = "sleep"
  /\ watch' = IF sig["watch"] > 0 THEN WatchOff
              ELSE IF watch.wait <= 1 THEN [watch EXCEPT !.pc = "tick"]
              ELSE [watch EXCEPT !.wait = @ - 1]
  /\ UNCHANGED <<disk, cols, idx, fts, marks, lock, hand, upd, ref, sig, child, unread, left>>

-----------------------------------------------------------------------------
(* `rqmd update`.                                                          *)

StartUpdate(scope) ==
  /\ upd.pc = "off" /\ lock = Nobody
  /\ Spend("command")
  /\ IF scope \cap cols = {} THEN UNCHANGED <<upd, lock>>
     ELSE /\ upd' = [UpdOff EXCEPT !.pc = "loop", !.scope = scope, !.todo = scope \cap cols]
          /\ lock' = "update"
  /\ UNCHANGED <<disk, cols, idx, fts, marks, hand, watch, ref, sig, child, unread>>

\* A signal is looked at before each collection, a missing directory only
\* makes the run unclean, and the hook comes before the walk.
NextCollection(c) ==
  /\ upd.pc = "loop" /\ c \in upd.todo
  /\ sig["update"] = 0
  /\ IF ~disk[c].present
     THEN /\ upd' = [upd EXCEPT !.todo = @ \ {c}, !.clean = FALSE]
          /\ unread' = unread \cup {c}
          /\ UNCHANGED child
     ELSE /\ upd' = [upd EXCEPT !.todo = @ \ {c}, !.cur = {c},
                                !.pc = IF c \in Hooked THEN "hook" ELSE "pass"]
          /\ child' = IF c \in Hooked THEN "running" ELSE child
          /\ UNCHANGED unread
  /\ UNCHANGED <<disk, cols, idx, fts, marks, lock, hand, watch, ref, sig, left>>

\* The run ends and drops its lock.
UpdateEnds ==
  /\ upd' = UpdOff
  /\ lock' = Nobody
  /\ sig' = [sig EXCEPT !["update"] = 0]
  /\ UNCHANGED <<disk, cols, idx, fts, hand, watch, ref, unread, left>>

\* stopped_by_signal, between collections or between files
UpdateStops ==
  /\ \/ upd.pc = "loop" /\ upd.todo # {}
     \/ upd.pc = "pass" /\ hand = NoHand
  /\ sig["update"] > 0
  /\ UpdateEnds
  /\ UNCHANGED <<marks, child>>

\* The hook's process ends by itself, if it ever does.
HookExits ==
  /\ child = "running"
  /\ child' \in {"ok", "failed"}
  /\ UNCHANGED <<disk, cols, idx, fts, marks, lock, hand, watch, upd, ref, sig, unread, left>>

\* Variant: a signal waits for the hook.
wait_for_hook ==
  /\ upd.pc = "hook" /\ child \in {"ok", "failed"}
  /\ upd' = [upd EXCEPT !.pc = "pass"]
  /\ child' = "none"
  /\ UNCHANGED <<disk, cols, idx, fts, marks, lock, hand, watch, ref, sig, unread, left>>

\* run_hook: a signal is looked at first, then the hook, then the clock; the
\* hook's failure does not make the run unclean.
run_hook ==
  /\ upd.pc = "hook"
  /\ \/ /\ sig["update"] > 0
        /\ upd' = [upd EXCEPT !.pc = "grace"]
        /\ UNCHANGED child
     \/ /\ sig["update"] = 0 /\ child \in {"ok", "failed"}
        /\ upd' = [upd EXCEPT !.pc = "pass"]
        /\ child' = "none"
  /\ UNCHANGED <<disk, cols, idx, fts, marks, lock, hand, watch, ref, sig, unread, left>>

\* Variant: a hook may take for ever.
no_timeout == FALSE

\* RQMD_HOOK_TIMEOUT_SECS have passed: the hook is killed, the walk goes on.
HookTimeout ==
  /\ upd.pc = "hook" /\ sig["update"] = 0 /\ child = "running"
  /\ upd' = [upd EXCEPT !.pc = "pass"]
  /\ child' = "none"
  /\ UNCHANGED <<disk, cols, idx, fts, marks, lock, hand, watch, ref, sig, unread, left>>

\* The signal has been forwarded.  The wait ends when the hook exits, at a
\* second signal, or with FORWARD_GRACE; in the last two the hook is killed.
stop_after_grace ==
  /\ upd.pc = "grace"
  /\ child' = "none"
  /\ UpdateEnds
  /\ UNCHANGED marks

UpdateLooks(c, full) ==
  /\ upd.pc = "pass" /\ upd.cur = {c} /\ hand = NoHand
  /\ sig["update"] = 0
  /\ \/ /\ Look(c, full)
        /\ upd' = [upd EXCEPT !.pc = "loop", !.cur = {}, !.clean = @ /\ ~Unclean(c, full)]
     \/ Read(c, full) /\ UNCHANGED upd
  /\ UNCHANGED <<disk, cols, marks, lock, watch, ref, sig, child, left>>

UpdateIndexes(c) ==
  /\ upd.pc = "pass" /\ hand.coll = {c} /\ lock = "update"
  /\ Index(c)
  /\ upd' = [upd EXCEPT !.pc = "loop", !.cur = {}]
  /\ UNCHANGED <<disk, cols, marks, lock, watch, ref, sig, child, left>>

Unscoped == upd.scope = Coll
raw_split_backfilled == marks.split \/ (Unscoped /\ upd.clean)

\* Only an unscoped clean run certifies the raw split; one that is, or finds
\* it certified, rebuilds a pending full-text index.
UpdateCertifies ==
  /\ upd.pc = "loop" /\ upd.todo = {}
  /\ marks' = [marks EXCEPT !.split = raw_split_backfilled]
  /\ IF Unscoped /\ raw_split_backfilled /\ RebuildPending
     THEN /\ upd' = [upd EXCEPT !.pc = "recreate"]
          /\ UNCHANGED <<disk, cols, idx, fts, lock, hand, watch, ref, sig, unread, left>>
     ELSE UpdateEnds
  /\ UNCHANGED child

\* recreate_with_current_schema, for an index without the frontmatter field:
\* the files are removed before anything is written.
Recreate ==
  /\ upd.pc = "recreate"
  /\ upd' = [upd EXCEPT !.pc = "rebuild"]
  /\ fts' \in {fts, [c \in Coll |-> "none"]}
  /\ UNCHANGED <<disk, cols, idx, marks, lock, hand, watch, ref, sig, child, unread, left>>

\* Variant: the version is written before the rebuild.
version_first ==
  /\ upd.pc = "rebuild"
  /\ upd' = [upd EXCEPT !.pc = "version"]
  /\ marks' = [marks EXCEPT !.tokenizer = TRUE]
  /\ UNCHANGED <<disk, cols, idx, fts, lock, hand, watch, ref, sig, child, unread, left>>

\* FtsIndex::rebuild
rebuild ==
  /\ upd.pc = "rebuild"
  /\ upd' = [upd EXCEPT !.pc = "version"]
  /\ fts' = [c \in Coll |-> IF idx[c].text = NoText THEN "none" ELSE "new"]
  /\ UNCHANGED <<disk, cols, idx, marks, lock, hand, watch, ref, sig, child, unread, left>>

SetVersion ==
  /\ upd.pc = "version"
  /\ marks' = [marks EXCEPT !.tokenizer = TRUE]
  /\ UpdateEnds
  /\ UNCHANGED child

-----------------------------------------------------------------------------
(* A refresh for the MCP server, other holders of the lock, collections.   *)

AskRefresh(names) ==
  /\ ref.pc = "off"
  /\ Spend("command")
  /\ ref' = [RefOff EXCEPT !.pc = "list", !.asked = names]
  /\ UNCHANGED <<disk, cols, idx, fts, marks, lock, hand, watch, upd, sig, child, unread>>

\* refresh_index: nothing waits for the lock or does a rebuild.
RefreshList ==
  /\ ref.pc = "list"
  /\ LET names == ref.asked \cap cols
     IN  ref' = IF RebuildPending THEN [RefOff EXCEPT !.outcome = "RebuildPending"]
                ELSE IF names = {} THEN [RefOff EXCEPT !.outcome = "Refreshed"]
                ELSE [ref EXCEPT !.pc = "lock", !.todo = names, !.asked = names, !.same = names]
  /\ UNCHANGED <<disk, cols, idx, fts, marks, lock, hand, watch, upd, sig, child, unread, left>>

RefreshLock ==
  /\ ref.pc = "lock"
  /\ IF lock # Nobody THEN ref' = [RefOff EXCEPT !.outcome = "Locked"] /\ UNCHANGED lock
     ELSE ref' = [ref EXCEPT !.pc = "pass"] /\ lock' = "refresh"
  /\ UNCHANGED <<disk, cols, idx, fts, marks, hand, watch, upd, sig, child, unread, left>>

RefreshLooks(c) ==
  /\ ref.pc = "pass" /\ c \in ref.todo /\ hand = NoHand
  /\ \/ Look(c, FALSE) /\ ref' = [ref EXCEPT !.todo = @ \ {c}]
     \/ Read(c, FALSE) /\ UNCHANGED ref
  /\ UNCHANGED <<disk, cols, marks, lock, watch, upd, sig, child, left>>

RefreshIndexes(c) ==
  /\ ref.pc = "pass" /\ hand.coll = {c}
  /\ Index(c)
  /\ ref' = [ref EXCEPT !.todo = @ \ {c}]
  /\ UNCHANGED <<disk, cols, marks, lock, watch, upd, sig, child, left>>

\* Variant: a pass the deadline cut short counts as done.
timeout_is_done ==
  /\ ref.pc = "pass" /\ hand = NoHand
  /\ ref' = [RefOff EXCEPT !.outcome = "Refreshed", !.same = ref.same]
  /\ lock' = Nobody
  /\ UNCHANGED <<disk, cols, idx, fts, marks, hand, watch, upd, sig, child, unread, left>>

\* The pass is over, or the deadline passes before the next file.
RefreshEnds ==
  /\ ref.pc = "pass" /\ hand = NoHand
  /\ ref' = IF ref.todo = {} THEN [RefOff EXCEPT !.outcome = "Refreshed", !.same = ref.same]
            ELSE [RefOff EXCEPT !.outcome = "TimedOut"]
  /\ lock' = Nobody
  /\ UNCHANGED <<disk, cols, idx, fts, marks, hand, watch, upd, sig, child, unread, left>>

EmbedTakes ==
  /\ lock = Nobody
  /\ Spend("command")
  /\ lock' = "embed"
  /\ UNCHANGED <<disk, cols, idx, fts, marks, hand, watch, upd, ref, sig, child, unread>>

EmbedEnds ==
  /\ lock = "embed"
  /\ lock' = Nobody
  /\ UNCHANGED <<disk, cols, idx, fts, marks, hand, watch, upd, ref, sig, child, unread, left>>

\* `collection remove`, under the lock: rows and full-text entries go.
Remove(c) ==
  /\ c \in cols /\ lock = Nobody
  /\ Spend("trouble")
  /\ cols' = cols \ {c}
  /\ idx' = [idx EXCEPT ![c] = [text |-> NoText, stat |-> NoStat]]
  /\ fts' = [fts EXCEPT ![c] = "none"]
  /\ unread' = unread \ {c}
  /\ Touched(c)
  /\ UNCHANGED <<disk, marks, lock, hand, watch, upd, sig, child>>

\* `collection add`, without the lock, reads and indexes the files itself.
Add(c) ==
  /\ c \notin cols /\ disk[c].present /\ c \notin hand.coll
  /\ Spend("trouble")
  /\ cols' = cols \cup {c}
  /\ IF disk[c].readable
     THEN /\ idx' = [idx EXCEPT ![c] = [text |-> disk[c].text, stat |-> trusted_stat([stat |-> disk[c].stamp, fresh |-> disk[c].fresh])]]
          /\ fts' = [fts EXCEPT ![c] = IF idx[c].text = disk[c].text THEN @ ELSE "new"]
          /\ unread' = unread \ {c}
     ELSE unread' = unread \cup {c} /\ UNCHANGED <<idx, fts>>
  /\ Touched(c)
  /\ UNCHANGED <<disk, marks, lock, hand, watch, upd, sig, child>>

-----------------------------------------------------------------------------

World ==
  \/ \E c \in Coll : (\E t \in Text : Edit(c, t)) \/ ChangeAccess(c) \/ Remove(c) \/ Add(c)
  \/ \E p \in {"watch", "update"} : on_signal(p) \/ Kill(p)
  \/ \E s \in Scope : StartUpdate(s) \/ AskRefresh(s)
  \/ EmbedTakes \/ HookExits

WatchStep ==
  \/ tick \/ CheckRebuild \/ WatchLock \/ WatchPassed \/ sleep_until_signal
  \/ \E c \in Coll : WatchStops(c) \/ WatchLooks(c) \/ WatchIndexes(c)

UpdateStep ==
  \/ \E c \in Coll : NextCollection(c) \/ (\E full \in BOOLEAN : UpdateLooks(c, full)) \/ UpdateIndexes(c)
  \/ UpdateStops \/ run_hook \/ HookTimeout \/ stop_after_grace
  \/ UpdateCertifies \/ Recreate \/ rebuild \/ SetVersion

RefreshStep ==
  \/ RefreshList \/ RefreshLock \/ RefreshEnds
  \/ \E c \in Coll : RefreshLooks(c) \/ RefreshIndexes(c)

Aging == \E c \in Coll : Age(c)

Next == World \/ Aging \/ WatchStep \/ UpdateStep \/ RefreshStep \/ EmbedEnds

Spec == Init /\ [][Next]_vars

\* The programs run; time passes; who holds the lock lets go of it.  Nothing
\* is promised of the user, of the files or of a hook.
FairSpec ==
  /\ Spec
  /\ WF_vars(WatchStep) /\ WF_vars(UpdateStep) /\ WF_vars(RefreshStep)
  /\ WF_vars(EmbedEnds) /\ WF_vars(Aging)

-----------------------------------------------------------------------------
(* Properties.                                                             *)

Indexed(c) == disk[c].present => idx[c].text = disk[c].text \/ c \in unread

\* What makes a watch safe to sleep: a fingerprint it remembers and still
\* finds is that of files whose text is indexed, whatever edits came during
\* the pass, unless the last look could not read the file.
SeenIsIndexed ==
  \A c \in cols : watch.pc # "pass" /\ watch.seen[c] = Fingerprint(c) => Indexed(c)

\* A file that could not be read is owed to the next update: its recorded
\* stat never matches the file while the row has another text.
UnreadIsOwed ==
  \A c \in Coll : disk[c].present /\ idx[c].stat = disk[c].stamp => idx[c].text = disk[c].text

\* A document without a full-text entry of this tokenizer is waiting for the
\* rebuild, at every point of it: a kill between emptying the index and
\* recording the version must not leave the rebuild forgotten.
RebuildNotForgotten ==
  \A c \in Coll : idx[c].text # NoText /\ fts[c] # "new" => RebuildPending

\* docs/CLI.md: a hook is stopped before `rqmd update` ends, also when a
\* second signal arrives.
HookDoesNotOutlive == child # "orphan"

\* RefreshOutcome::Refreshed: every requested collection is current, if its
\* files have not changed since and could be read.
RefreshedIsCurrent ==
  ref.pc = "off" /\ ref.outcome = "Refreshed" => \A c \in ref.same : Indexed(c)

\* A watch that keeps running has, in the end, every collection indexed, or
\* has paused for the rebuild: neither a held lock, nor the back-off, nor a
\* hook that hangs keeps a change from being picked up.
WatchCatchesUp ==
  watch.pc # "off" ~> (watch.pc = "off" \/ RebuildPending \/ \A c \in cols : Indexed(c))

\* A signal ends a watch and an update, even while a hook ignores it.
SignalStops == \A p \in {"watch", "update"} : (sig[p] > 0 /\ Running(p)) ~> ~Running(p)

\* Every change is picked up in the end or known to be owed: whatever was
\* edited, unreadable or too young when it was looked at is looked at again.
NothingIsMissed == TypeOK /\ SeenIsIndexed /\ UnreadIsOwed
=============================================================================
