------------------------------ MODULE UpdatePass ------------------------------
(***************************************************************************)
(* The pass that brings a collection's documents and its full-text index in *)
(* line with the files on disk: `rqmd update`, `rqmd watch` and the refresh *)
(* of the MCP server, which hold the index lock, and `collection add`,      *)
(* which does not.                                                         *)
(*                                                                         *)
(* A pass lists the files, and for each one takes its stat, skips it when   *)
(* the stat is the recorded one, else reads it, writes its row in SQLite    *)
(* (at once) and its entry in Tantivy (staged until the commit that ends    *)
(* the pass), and records the stat.  Files change at any moment, the        *)
(* process may be killed between any two steps, and a Tantivy reader sees   *)
(* the commits up to the moment its store was opened.                      *)
(*                                                                         *)
(* Time is counted in ticks of the file system's timestamps: two writes in  *)
(* one tick leave the same mtime.  All texts have the same size.            *)
(***************************************************************************)
EXTENDS Naturals, FiniteSets

CONSTANTS
  File,             \* paths of the collection
  Text,             \* what a file may hold
  Hash, Indexed,    \* content hashes; the hash of a text's indexed part
  Proc, Locked,     \* commands, and those among them that hold the index lock
  Window,           \* MTIME_TRUST_WINDOW, in ticks
  MaxTime,          \* bound on the clock
  Slow,             \* whether a tick may pass while a file is being indexed
  NoText, NoHash, NoStat, Nobody,
  Budget            \* bounds on passes, adds, edits, deletions, and kills, faults or signals

Kinds == {"pass", "add", "edit", "delete", "trouble"}
Time  == 0..MaxTime

ASSUME IndexedType == Indexed \in [Text -> Hash]
ASSUME LockedType  == Locked \subseteq Proc
ASSUME ClockType   == Window \in Nat /\ MaxTime \in Nat /\ Slow \in BOOLEAN
ASSUME AbsentType  == /\ NoText \notin Text /\ NoHash \notin Hash
                      /\ NoStat \notin Nat /\ Nobody \notin Proc
ASSUME BudgetType  == Budget \in [Kinds -> Nat]

VARIABLES
  now,
  files,    \* the text of each file, NoText when there is none
  mtime,    \* and its modification time
  docs,     \* SQLite documents
  fts,      \* Tantivy, committed: the hashes indexed under each path
  writer,   \* who holds Tantivy's writer lock
  run,      \* the state of each command
  lost,     \* history: paths whose row is ahead of their full-text entry
  synced,   \* history: the last locked pass was clean, and no file changed since it began
  late,     \* history: rows last written, since it began, with a text older than the file
  left      \* what remains of Budget

vars == <<now, files, mtime, docs, fts, writer, run, lost, synced, late, left>>

DocRow == [hash : Hash \cup {NoHash}, raw : Text \cup {NoText},
           active : BOOLEAN, stat : Time \cup {NoStat}]
NoDoc  == [hash |-> NoHash, raw |-> NoText, active |-> FALSE, stat |-> NoStat]

\* What a pass has staged for a path: delete what is there, add an entry.
Staged    == [del : BOOLEAN, add : Hash \cup {NoHash}]
NotStaged == [del |-> FALSE, add |-> NoHash]

PCs == {"idle", "opened", "walk", "read", "index", "stage", "record", "sweep", "flush"}

\* A command: the committed index its reader sees, the files it found and
\* those it has yet to visit, the recorded stats it loaded, the file in hand
\* with its stat and text, the rows it has deactivated.
Run == [pc : PCs, snap : [File -> SUBSET Hash], found : SUBSET File,
        todo : SUBSET File, cache : [File -> Time \cup {NoStat}],
        cur : SUBSET File, stat : Time, text : Text \cup {NoText},
        gone : SUBSET File, staged : [File -> Staged],
        clean : BOOLEAN, quiet : BOOLEAN]

Idle == [pc |-> "idle", snap |-> [f \in File |-> {}], found |-> {}, todo |-> {},
         cache |-> [f \in File |-> NoStat], cur |-> {}, stat |-> 0,
         text |-> NoText, gone |-> {}, staged |-> [f \in File |-> NotStaged],
         clean |-> TRUE, quiet |-> TRUE]

TypeOK ==
  /\ now \in Time
  /\ files \in [File -> Text \cup {NoText}]
  /\ mtime \in [File -> Time]
  /\ docs \in [File -> DocRow]
  /\ fts \in [File -> SUBSET Hash]
  /\ writer \in Proc \cup {Nobody}
  /\ run \in [Proc -> Run]
  /\ lost \in SUBSET File
  /\ synced \in BOOLEAN
  /\ late \in SUBSET File
  /\ left \in [Kinds -> Nat]

Init ==
  /\ now = 0
  /\ files \in [File -> Text \cup {NoText}]
  /\ mtime = [f \in File |-> 0]
  /\ docs = [f \in File |-> NoDoc]
  /\ fts = [f \in File |-> {}]
  /\ writer = Nobody
  /\ run = [p \in Proc |-> Idle]
  /\ lost = {}
  /\ synced = FALSE
  /\ late = {}
  /\ left = Budget

Spend(k) == left[k] > 0 /\ left' = [left EXCEPT ![k] = @ - 1]

-----------------------------------------------------------------------------
(* The world outside: the clock and the files.                             *)

Tick ==
  /\ now < MaxTime
  /\ Slow \/ \A p \in Proc : run[p].cur = {}
  /\ now' = now + 1
  /\ UNCHANGED <<files, mtime, docs, fts, writer, run, lost, synced, late, left>>

\* A change of the files ends the quiet of every running pass.
Disturbed == [p \in Proc |-> [run[p] EXCEPT !.quiet = FALSE]]

Write(f, t) ==
  /\ files[f] # t
  /\ Spend("edit")
  /\ files' = [files EXCEPT ![f] = t]
  /\ mtime' = [mtime EXCEPT ![f] = now]
  /\ run' = Disturbed
  /\ synced' = FALSE
  /\ UNCHANGED <<now, docs, fts, writer, lost, late>>

Delete(f) ==
  /\ files[f] # NoText
  /\ Spend("delete")
  /\ files' = [files EXCEPT ![f] = NoText]
  /\ run' = Disturbed
  /\ synced' = FALSE
  /\ UNCHANGED <<now, mtime, docs, fts, writer, lost, late>>

-----------------------------------------------------------------------------
(* The pass.                                                               *)

Active(p) == run[p].pc # "idle"

\* Opening the store takes the reader's view of the full-text index.  Passes
\* under the index lock exclude each other; `collection add` excludes nobody.
Open(p) ==
  /\ ~Active(p)
  /\ p \in Locked => \A q \in Locked : ~Active(q)
  /\ Spend(IF p \in Locked THEN "pass" ELSE "add")
  /\ run' = [run EXCEPT ![p] = [Idle EXCEPT !.pc = "opened", !.snap = fts]]
  /\ synced' = (synced /\ p \notin Locked)
  /\ late' = IF p \in Locked THEN {} ELSE late
  /\ UNCHANGED <<now, files, mtime, docs, fts, writer, lost>>

\* collect_candidates, then load_doc_stat_cache, which --full and
\* `collection add` do without.
load_doc_stat_cache == [f \in File |-> IF docs[f].active THEN docs[f].stat ELSE NoStat]

Walk(p) ==
  /\ run[p].pc = "opened"
  /\ \E cache \in {load_doc_stat_cache, Idle.cache} :
       /\ p \notin Locked => cache = Idle.cache
       /\ LET present == {f \in File : files[f] # NoText}
          IN  run' = [run EXCEPT ![p].pc = "walk", ![p].found = present,
                                 ![p].todo = present, ![p].cache = cache]
  /\ UNCHANGED <<now, files, mtime, docs, fts, writer, lost, synced, late, left>>

\* stat_file; a file whose stat is the recorded one is not read.
stat_file(p, f) ==
  /\ run[p].pc = "walk"
  /\ f \in run[p].todo
  /\ LET skip == files[f] # NoText /\ run[p].cache[f] = mtime[f]
     IN  run' = [run EXCEPT ![p].pc   = IF skip THEN "walk" ELSE "read",
                            ![p].todo = @ \ {f},
                            ![p].cur  = IF skip THEN {} ELSE {f},
                            ![p].stat = IF skip THEN 0 ELSE mtime[f]]
  /\ UNCHANGED <<now, files, mtime, docs, fts, writer, lost, synced, late, left>>

NextFile(r) == [r EXCEPT !.pc = "walk", !.cur = {}, !.stat = 0, !.text = NoText]

\* prepare: read the file.
prepare(p, f) ==
  /\ run[p].pc = "read"
  /\ run[p].cur = {f}
  /\ files[f] # NoText
  /\ run' = [run EXCEPT ![p].pc = "index", ![p].text = files[f]]
  /\ UNCHANGED <<now, files, mtime, docs, fts, writer, lost, synced, late, left>>

\* The file is gone or cannot be read: it is skipped, and still counts as
\* present for the prune.
prepare_fails(p, f) ==
  /\ run[p].pc = "read"
  /\ run[p].cur = {f}
  /\ IF files[f] = NoText THEN UNCHANGED left ELSE Spend("trouble")
  /\ run' = [run EXCEPT ![p] = [NextFile(@) EXCEPT !.clean = FALSE]]
  /\ UNCHANGED <<now, files, mtime, docs, fts, writer, lost, synced, late>>

\* Whether the row of f now holds a text the file no longer has.
Late(p, f) == IF run[p].text = files[f] THEN late \ {f} ELSE late \cup {f}

\* Variant: an unchanged row keeps its raw text.
index_document_by_hash(p, f) ==
  /\ run[p].pc = "index"
  /\ run[p].cur = {f}
  /\ LET hash == Indexed[run[p].text]
     IN  IF docs[f].hash = hash
         THEN UNCHANGED docs /\ run' = [run EXCEPT ![p].pc = "record"]
         ELSE /\ docs' = [docs EXCEPT ![f] = [@ EXCEPT !.hash = hash, !.raw = run[p].text,
                                                       !.active = TRUE]]
              /\ run' = [run EXCEPT ![p].pc = "stage"]
  /\ late' = Late(p, f)
  /\ UNCHANGED <<now, files, mtime, fts, writer, lost, synced, left>>

\* index_document_fts_only_with_raw up to the row.  A row that already has
\* this hash is unchanged, active or not: only its raw text is written.
index_document(p, f) ==
  /\ run[p].pc = "index"
  /\ run[p].cur = {f}
  /\ LET hash == Indexed[run[p].text]
         unchanged == docs[f].hash = hash
     IN  /\ docs' = [docs EXCEPT ![f] =
                       [@ EXCEPT !.hash = hash, !.raw = run[p].text,
                                 !.active = IF unchanged THEN docs[f].active ELSE TRUE]]
         /\ run' = [run EXCEPT ![p].pc = IF unchanged THEN "record" ELSE "stage"]
  /\ late' = Late(p, f)
  /\ UNCHANGED <<now, files, mtime, fts, writer, lost, synced, left>>

\* Variant: nothing is ever deleted.
delete_nothing(p, f) == FALSE

\* FtsIndex::delete_by_filepath: the entries to delete are found in the
\* reader's view, so a path that view does not have is not deleted.
delete_by_filepath(p, f) == run[p].snap[f] # {}

\* add_document: delete what was there, add the new entry, under the writer
\* lock, which the command keeps to its end.
add_document(p, f) ==
  /\ run[p].pc = "stage"
  /\ run[p].cur = {f}
  /\ writer \in {p, Nobody}
  /\ writer' = p
  /\ run' = [run EXCEPT ![p].pc = "record",
               ![p].staged[f] = [del |-> delete_by_filepath(p, f),
                                 add |-> Indexed[run[p].text]]]
  /\ UNCHANGED <<now, files, mtime, docs, fts, lost, synced, late, left>>

\* The other writer outlasts the wait (RQMD_LOCK_WAIT_SECS): the row stays,
\* the entry does not come.
add_document_fails(p, f) ==
  /\ run[p].pc = "stage"
  /\ run[p].cur = {f}
  /\ writer \notin {p, Nobody}
  /\ lost' = lost \cup {f}
  /\ run' = [run EXCEPT ![p] = [NextFile(@) EXCEPT !.clean = FALSE]]
  /\ UNCHANGED <<now, files, mtime, docs, fts, writer, synced, late, left>>

\* Variant: the last instant of the window is trusted too.
trust_from(s) == IF now >= s + Window THEN s ELSE NoStat

\* trusted_stat: a file touched just before now may be touched again without
\* a trace, so its stat is not kept.
trusted_stat(s) == IF now > s + Window THEN s ELSE NoStat

set_document_stat(p, f) ==
  /\ run[p].pc = "record"
  /\ run[p].cur = {f}
  /\ docs' = [docs EXCEPT ![f].stat = trusted_stat(run[p].stat)]
  /\ run' = [run EXCEPT ![p] = NextFile(@)]
  /\ UNCHANGED <<now, files, mtime, fts, writer, lost, synced, late, left>>

\* A signal, or the deadline of an MCP refresh, ends the walk before the next
\* file: nothing is pruned, what is staged is committed.
Interrupt(p) ==
  /\ p \in Locked
  /\ run[p].pc = "walk"
  /\ run[p].todo # {}
  /\ Spend("trouble")
  /\ run' = [run EXCEPT ![p].pc = "flush", ![p].clean = FALSE]
  /\ UNCHANGED <<now, files, mtime, docs, fts, writer, lost, synced, late>>

\* Variant: no document is deactivated.
deactivate_nothing(p) ==
  /\ p \in Locked
  /\ run[p].pc = "walk"
  /\ run[p].todo = {}
  /\ run[p].found # {}
  /\ run' = [run EXCEPT ![p].pc = "sweep"]
  /\ UNCHANGED <<now, files, mtime, docs, fts, writer, lost, synced, late, left>>

\* Documents whose file was not found are deactivated, unless no file at all
\* was found.
deactivate_missing_documents(p) ==
  /\ p \in Locked
  /\ run[p].pc = "walk"
  /\ run[p].todo = {}
  /\ run[p].found # {}
  /\ LET missing == {f \in File : docs[f].active /\ f \notin run[p].found}
     IN  /\ docs' = [f \in File |-> IF f \in missing THEN [docs[f] EXCEPT !.active = FALSE]
                                    ELSE docs[f]]
         /\ run' = [run EXCEPT ![p].pc = "sweep", ![p].gone = missing]
         /\ late' = late \ missing
  /\ UNCHANGED <<now, files, mtime, fts, writer, lost, synced, left>>

NoPrune(p) ==
  /\ p \notin Locked \/ run[p].found = {}
  /\ run[p].pc = "walk"
  /\ run[p].todo = {}
  /\ run' = [run EXCEPT ![p].pc = "flush"]
  /\ UNCHANGED <<now, files, mtime, docs, fts, writer, lost, synced, late, left>>

\* Their entries are deleted one by one, which needs the writer lock only if
\* there is an entry; a wait for it that times out is a warning.
remove_from_fts(p, f) ==
  /\ run[p].pc = "sweep"
  /\ f \in run[p].gone
  /\ \/ /\ ~delete_by_filepath(p, f)
        /\ run' = [run EXCEPT ![p].gone = @ \ {f}]
        /\ UNCHANGED <<writer, lost>>
     \/ /\ delete_by_filepath(p, f)
        /\ writer \in {p, Nobody}
        /\ writer' = p
        /\ run' = [run EXCEPT ![p].gone = @ \ {f},
                              ![p].staged[f] = [del |-> TRUE, add |-> NoHash]]
        /\ UNCHANGED lost
     \/ /\ delete_by_filepath(p, f)
        /\ writer \notin {p, Nobody}
        /\ lost' = lost \cup {f}
        /\ run' = [run EXCEPT ![p].gone = @ \ {f}]
        /\ UNCHANGED writer
  /\ UNCHANGED <<now, files, mtime, docs, fts, synced, late, left>>

\* Store::flush commits what is staged, and the command ends.
Committed(old, st) ==
  (IF st.del THEN {} ELSE old) \cup (IF st.add = NoHash THEN {} ELSE {st.add})

flush(p) ==
  /\ run[p].pc = "flush" \/ (run[p].pc = "sweep" /\ run[p].gone = {})
  /\ fts' = [f \in File |-> Committed(fts[f], run[p].staged[f])]
  /\ lost' = lost \ {f \in File : run[p].staged[f] # NotStaged}
  /\ writer' = IF writer = p THEN Nobody ELSE writer
  /\ synced' = IF p \in Locked THEN run[p].clean /\ run[p].quiet ELSE synced
  /\ run' = [run EXCEPT ![p] = Idle]
  /\ UNCHANGED <<now, files, mtime, docs, late, left>>

\* The process is killed: what it staged is gone, the rows stay.
Crash(p) ==
  /\ Active(p)
  /\ Spend("trouble")
  /\ lost' = lost \cup {f \in File : run[p].staged[f] # NotStaged}
                  \cup (IF run[p].pc = "stage" THEN run[p].cur ELSE {})
                  \cup run[p].gone
  /\ writer' = IF writer = p THEN Nobody ELSE writer
  /\ run' = [run EXCEPT ![p] = Idle]
  /\ UNCHANGED <<now, files, mtime, docs, fts, synced, late>>

OneFile(p, f) ==
  \/ stat_file(p, f) \/ prepare(p, f) \/ prepare_fails(p, f)
  \/ index_document(p, f) \/ add_document(p, f) \/ add_document_fails(p, f)
  \/ set_document_stat(p, f) \/ remove_from_fts(p, f)

Pass(p) ==
  \/ Open(p) \/ Walk(p)
  \/ \E f \in File : OneFile(p, f)
  \/ deactivate_missing_documents(p) \/ NoPrune(p) \/ flush(p)

Next ==
  \/ Tick
  \/ \E f \in File : (\E t \in Text : Write(f, t)) \/ Delete(f)
  \/ \E p \in Proc : Pass(p) \/ Interrupt(p) \/ Crash(p)

Spec == Init /\ [][Next]_vars

-----------------------------------------------------------------------------
(* Properties.                                                             *)

Present(f) == files[f] # NoText

\* A recorded stat that matches the file makes the next pass skip it, so the
\* row must then hold the text of the file: no sequence of edits may slip
\* through the stat check.
StatMatchIsCurrent ==
  \A f \in File :
    Present(f) /\ docs[f].active /\ docs[f].stat = mtime[f] => docs[f].raw = files[f]

\* When no command runs, the full-text index has exactly the active
\* documents, each under its current hash, except where a kill or a timed out
\* wait for the writer lock came between the row and its entry.
SearchMatchesRows ==
  (\A p \in Proc : ~Active(p)) =>
    \A f \in File \ lost :
      fts[f] = IF docs[f].active THEN {docs[f].hash} ELSE {}

\* The promise of `rqmd update`: after a pass that reports no problem, while
\* the files stay as they were, every file is indexed as it is and every
\* active document has its file (unless the collection has no file at all,
\* which is taken for a missing mount).  `collection add` may run before,
\* during and after the pass: the only rows that may differ are those it wrote,
\* since the pass began and after the pass was done with them, from a text it
\* had read before the file's last change.
Converged(f) ==
  IF Present(f) THEN docs[f].hash = Indexed[files[f]] /\ docs[f].raw = files[f]
  ELSE docs[f].active => \A g \in File : ~Present(g)

CleanPassConverges == synced => \A f \in File \ late : Converged(f)

\* The comment on get_active_document_by_filepath: indexing code sees a
\* deactivated row and reactivates it.  So after a clean pass the document of
\* every file that is there is active.
RestoredIsReactivated == synced => \A f \in File : Present(f) => docs[f].active

\* The comment on delete_by_filepath: it deletes every entry under the path.
\* So no path has two entries.
OneEntryPerPath == \A f \in File : Cardinality(fts[f]) <= 1

\* What full-text search answers from is exact: one entry per active document,
\* none for any other.
SearchIsExact == TypeOK /\ SearchMatchesRows /\ OneEntryPerPath
=============================================================================
