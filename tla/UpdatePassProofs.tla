-------------------------- MODULE UpdatePassProofs --------------------------
(* Proofs about UpdatePass: for every set of files, texts and commands, and *)
(* every bound, the stat check hides no edit, a clean pass brings the       *)
(* documents in line with the files, and, among commands that exclude each  *)
(* other, the full-text index has exactly the active documents.             *)
EXTENDS UpdatePass, FiniteSetTheorems, TLAPS

\* The steps at which a command has a file in hand, and its text.
WithFile == {"read", "index", "stage", "record"}
WithText == {"index", "stage", "record"}

\* A command has a file in hand exactly from taking its stat to recording it,
\* and the text of that file from reading it on.
InHand ==
  \A p \in Proc :
    /\ run[p].pc \in WithFile => \E f \in File : run[p].cur = {f}
    /\ run[p].pc \notin WithFile => run[p].cur = {}
    /\ run[p].pc \in WithText => run[p].text \in Text

PassType == TypeOK /\ InHand

-----------------------------------------------------------------------------
(* What each step does to the state of the commands.                       *)

Fields == {"pc", "snap", "found", "todo", "cache", "cur", "stat", "text", "gone",
           "staged", "clean", "quiet"}

\* A step of p that changes nothing of the commands but p's fields in F.
Own(p, F) ==
  /\ run' \in [Proc -> Run]
  /\ \A q \in Proc \ {p} : run'[q] = run[q]
  /\ \A k \in Fields \ F : run'[p][k] = run[p][k]

\* A step that makes p's state r.
LEMMA OwnStep ==
  ASSUME TypeOK, NEW p \in Proc, NEW r \in Run, run' = [run EXCEPT ![p] = r],
         NEW F, \A k \in Fields \ F : r[k] = run[p][k]
  PROVE  Own(p, F) /\ run'[p] = r
  BY DEF Own, TypeOK

LEMMA RunType ==
  ASSUME NEW r \in Run
  PROVE  /\ r.pc \in PCs /\ r.snap \in [File -> SUBSET Hash]
         /\ r.found \in SUBSET File /\ r.todo \in SUBSET File
         /\ r.cache \in [File -> Time \cup {NoStat}]
         /\ r.cur \in SUBSET File /\ r.stat \in Time /\ r.text \in Text \cup {NoText}
         /\ r.gone \in SUBSET File /\ r.staged \in [File -> Staged]
         /\ r.clean \in BOOLEAN /\ r.quiet \in BOOLEAN
  BY DEF Run

LEMMA ZeroTime == 0 \in Time
  BY ClockType DEF Time

LEMMA IdleType ==
  /\ Idle \in Run
  /\ \A s \in [File -> SUBSET Hash] : [Idle EXCEPT !.pc = "opened", !.snap = s] \in Run
<1>1. NotStaged \in Staged
  BY DEF NotStaged, Staged
<1> QED BY <1>1, ZeroTime DEF Idle, Run, PCs

\* Writes and deletions of files.
LEMMA DisturbStep ==
  ASSUME TypeOK, run' = Disturbed
  PROVE  /\ run' \in [Proc -> Run]
         /\ \A q \in Proc : /\ run'[q].quiet = FALSE
                            /\ \A k \in Fields \ {"quiet"} : run'[q][k] = run[q][k]
<1>1. \A q \in Proc : run[q] \in Run /\ run'[q] = [run[q] EXCEPT !.quiet = FALSE]
  BY DEF TypeOK, Disturbed
<1>2. ASSUME NEW q \in Proc
      PROVE  /\ run'[q] \in Run /\ run'[q].quiet = FALSE
             /\ \A k \in Fields \ {"quiet"} : run'[q][k] = run[q][k]
  <2>1. run[q] \in Run /\ run'[q] = [run[q] EXCEPT !.quiet = FALSE]
    BY <1>1
  <2> QED BY <2>1 DEF Run, Fields
<1>3. run' \in [Proc -> Run]
  BY <1>2 DEF Disturbed
<1> QED BY <1>2, <1>3

LEMMA OpenStep ==
  ASSUME TypeOK, NEW p \in Proc, Open(p)
  PROVE  /\ Own(p, Fields)
         /\ run'[p].pc = "opened" /\ run'[p].snap = fts
         /\ \A k \in Fields \ {"pc", "snap"} : run'[p][k] = Idle[k]
<1> DEFINE r == [Idle EXCEPT !.pc = "opened", !.snap = fts]
<1>1. run' = [run EXCEPT ![p] = r]
  BY DEF Open
<1>2. r \in Run
  BY IdleType DEF TypeOK
<1>3. /\ r.pc = "opened" /\ r.snap = fts
      /\ \A k \in Fields \ {"pc", "snap"} : r[k] = Idle[k]
  BY DEF Idle, Fields
<1> HIDE DEF r
<1>4. Own(p, Fields) /\ run'[p] = r
  BY <1>1, <1>2, OwnStep
<1> QED BY <1>3, <1>4

LEMMA WalkStep ==
  ASSUME TypeOK, NEW p \in Proc, Walk(p)
  PROVE  /\ Own(p, {"pc", "found", "todo", "cache"})
         /\ run'[p].pc = "walk"
         /\ run'[p].found = {f \in File : files[f] # NoText}
         /\ run'[p].todo = {f \in File : files[f] # NoText}
         /\ run'[p].cache \in {load_doc_stat_cache, Idle.cache}
<1>5. PICK c \in {load_doc_stat_cache, Idle.cache} :
        run' = [run EXCEPT ![p].pc = "walk", ![p].found = {f \in File : files[f] # NoText},
                           ![p].todo = {f \in File : files[f] # NoText}, ![p].cache = c]
  BY DEF Walk
<1>7. c \in [File -> Time \cup {NoStat}]
  BY DEF load_doc_stat_cache, TypeOK, DocRow, Idle
<1> DEFINE r == [run[p] EXCEPT !.pc = "walk", !.found = {f \in File : files[f] # NoText},
                               !.todo = {f \in File : files[f] # NoText}, !.cache = c]
<1>0. run[p] \in Run
  BY DEF TypeOK
<1>1. run' = [run EXCEPT ![p] = r]
  BY <1>0, <1>5
<1>2. r \in Run
  BY <1>0, <1>7 DEF Run, PCs
<1>3. \A k \in Fields \ {"pc", "found", "todo", "cache"} : r[k] = run[p][k]
  BY <1>0 DEF Run, Fields
<1>4. /\ r.pc = "walk"
      /\ r.found = {f \in File : files[f] # NoText}
      /\ r.todo = {f \in File : files[f] # NoText}
      /\ r.cache = c
  BY <1>0 DEF Run
<1> HIDE DEF r
<1>6. Own(p, {"pc", "found", "todo", "cache"}) /\ run'[p] = r
  BY <1>1, <1>2, <1>3, OwnStep
<1> QED BY <1>4, <1>5, <1>6, Zenon

\* A file whose stat is the recorded one is skipped.
LEMMA SkipStep ==
  ASSUME TypeOK, NEW p \in Proc, NEW f \in File, stat_file(p, f),
         files[f] # NoText, run[p].cache[f] = mtime[f]
  PROVE  /\ Own(p, {"pc", "todo", "cur", "stat"})
         /\ run'[p].pc = "walk"
         /\ run'[p].todo = run[p].todo \ {f}
         /\ run'[p].cur = {}
         /\ run'[p].stat = 0
<1> DEFINE r == [run[p] EXCEPT !.pc = "walk", !.todo = @ \ {f}, !.cur = {}, !.stat = 0]
<1>0. run[p] \in Run
  BY DEF TypeOK
<1>1. run' = [run EXCEPT ![p] = r]
  BY <1>0 DEF stat_file
<1>2. r \in Run
  BY <1>0, ZeroTime DEF Run, PCs
<1>3. \A k \in Fields \ {"pc", "todo", "cur", "stat"} : r[k] = run[p][k]
  BY <1>0 DEF Run, Fields
<1>4. /\ r.pc = "walk"
      /\ r.todo = run[p].todo \ {f}
      /\ r.cur = {}
      /\ r.stat = 0
  BY <1>0 DEF Run
<1> HIDE DEF r
<1>6. Own(p, {"pc", "todo", "cur", "stat"}) /\ run'[p] = r
  BY <1>1, <1>2, <1>3, OwnStep
<1> QED BY <1>4, <1>6, Zenon

LEMMA StatStep ==
  ASSUME TypeOK, NEW p \in Proc, NEW f \in File, stat_file(p, f),
         ~(files[f] # NoText /\ run[p].cache[f] = mtime[f])
  PROVE  /\ Own(p, {"pc", "todo", "cur", "stat"})
         /\ run'[p].pc = "read"
         /\ run'[p].todo = run[p].todo \ {f}
         /\ run'[p].cur = {f}
         /\ run'[p].stat = mtime[f]
<1> DEFINE r == [run[p] EXCEPT !.pc = "read", !.todo = @ \ {f}, !.cur = {f}, !.stat = mtime[f]]
<1>0. run[p] \in Run
  BY DEF TypeOK
<1>1. run' = [run EXCEPT ![p] = r]
  BY <1>0 DEF stat_file
<1>2. r \in Run
  BY <1>0 DEF Run, PCs, TypeOK
<1>3. \A k \in Fields \ {"pc", "todo", "cur", "stat"} : r[k] = run[p][k]
  BY <1>0 DEF Run, Fields
<1>4. /\ r.pc = "read"
      /\ r.todo = run[p].todo \ {f}
      /\ r.cur = {f}
      /\ r.stat = mtime[f]
  BY <1>0 DEF Run
<1> HIDE DEF r
<1>6. Own(p, {"pc", "todo", "cur", "stat"}) /\ run'[p] = r
  BY <1>1, <1>2, <1>3, OwnStep
<1> QED BY <1>4, <1>6, Zenon

LEMMA ReadStep ==
  ASSUME TypeOK, NEW p \in Proc, NEW f \in File, prepare(p, f)
  PROVE  /\ Own(p, {"pc", "text"})
         /\ run'[p].pc = "index"
         /\ run'[p].text = files[f]
<1> DEFINE r == [run[p] EXCEPT !.pc = "index", !.text = files[f]]
<1>0. run[p] \in Run
  BY DEF TypeOK
<1>1. run' = [run EXCEPT ![p] = r]
  BY <1>0 DEF prepare
<1>2. r \in Run
  BY <1>0 DEF Run, PCs, TypeOK
<1>3. \A k \in Fields \ {"pc", "text"} : r[k] = run[p][k]
  BY <1>0 DEF Run, Fields
<1>4. /\ r.pc = "index"
      /\ r.text = files[f]
  BY <1>0 DEF Run
<1> HIDE DEF r
<1>6. Own(p, {"pc", "text"}) /\ run'[p] = r
  BY <1>1, <1>2, <1>3, OwnStep
<1> QED BY <1>4, <1>6, Zenon

\* A file that cannot be read, or whose entry has to wait for another writer, is left.
LEMMA SetAsideStep ==
  ASSUME TypeOK, NEW p \in Proc, NEW f \in File, prepare_fails(p, f) \/ add_document_fails(p, f)
  PROVE  /\ Own(p, {"pc", "cur", "stat", "text", "clean"})
         /\ run'[p].pc = "walk"
         /\ run'[p].cur = {}
         /\ run'[p].clean = FALSE
<1> DEFINE r == [NextFile(run[p]) EXCEPT !.clean = FALSE]
<1>0. run[p] \in Run
  BY DEF TypeOK
<1>1. run' = [run EXCEPT ![p] = r]
  BY <1>0 DEF prepare_fails, add_document_fails
<1>2. r \in Run
  BY <1>0, ZeroTime DEF NextFile, Run, PCs
<1>3. \A k \in Fields \ {"pc", "cur", "stat", "text", "clean"} : r[k] = run[p][k]
  BY <1>0 DEF Run, Fields, NextFile
<1>4. /\ r.pc = "walk"
      /\ r.cur = {}
      /\ r.clean = FALSE
  BY <1>0 DEF Run, NextFile
<1> HIDE DEF r
<1>6. Own(p, {"pc", "cur", "stat", "text", "clean"}) /\ run'[p] = r
  BY <1>1, <1>2, <1>3, OwnStep
<1> QED BY <1>4, <1>6, Zenon

LEMMA RecordStep ==
  ASSUME TypeOK, NEW p \in Proc, NEW f \in File, set_document_stat(p, f)
  PROVE  /\ Own(p, {"pc", "cur", "stat", "text"})
         /\ run'[p].pc = "walk"
         /\ run'[p].cur = {}
<1> DEFINE r == NextFile(run[p])
<1>0. run[p] \in Run
  BY DEF TypeOK
<1>1. run' = [run EXCEPT ![p] = r]
  BY <1>0 DEF set_document_stat
<1>2. r \in Run
  BY <1>0, ZeroTime DEF NextFile, Run, PCs
<1>3. \A k \in Fields \ {"pc", "cur", "stat", "text"} : r[k] = run[p][k]
  BY <1>0 DEF Run, Fields, NextFile
<1>4. /\ r.pc = "walk"
      /\ r.cur = {}
  BY <1>0 DEF Run, NextFile
<1> HIDE DEF r
<1>6. Own(p, {"pc", "cur", "stat", "text"}) /\ run'[p] = r
  BY <1>1, <1>2, <1>3, OwnStep
<1> QED BY <1>4, <1>6, Zenon

LEMMA IndexStep ==
  ASSUME TypeOK, NEW p \in Proc, NEW f \in File, index_document(p, f)
  PROVE  /\ Own(p, {"pc"})
         /\ run'[p].pc = IF docs[f].hash = Indexed[run[p].text] THEN "record" ELSE "stage"
<1> DEFINE r == [run[p] EXCEPT !.pc = IF docs[f].hash = Indexed[run[p].text] THEN "record" ELSE "stage"]
<1>0. run[p] \in Run
  BY DEF TypeOK
<1>1. run' = [run EXCEPT ![p] = r]
  BY <1>0 DEF index_document
<1>2. r \in Run
  BY <1>0 DEF Run, PCs
<1>3. \A k \in Fields \ {"pc"} : r[k] = run[p][k]
  BY <1>0 DEF Run, Fields
<1>4. /\ r.pc = IF docs[f].hash = Indexed[run[p].text] THEN "record" ELSE "stage"
  BY <1>0 DEF Run
<1> HIDE DEF r
<1>6. Own(p, {"pc"}) /\ run'[p] = r
  BY <1>1, <1>2, <1>3, OwnStep
<1> QED BY <1>4, <1>6, Zenon

LEMMA StageStep ==
  ASSUME TypeOK, NEW p \in Proc, NEW f \in File, add_document(p, f),
         run[p].text \in Text
  PROVE  /\ Own(p, {"pc", "staged"})
         /\ run'[p].pc = "record"
         /\ run'[p].staged = [run[p].staged EXCEPT
               ![f] = [del |-> delete_by_filepath(p, f), add |-> Indexed[run[p].text]]]
<1> DEFINE r == [run[p] EXCEPT !.pc = "record",
             !.staged = [run[p].staged EXCEPT
               ![f] = [del |-> delete_by_filepath(p, f), add |-> Indexed[run[p].text]]]]
<1>0. run[p] \in Run
  BY DEF TypeOK
<1>5. [run[p].staged EXCEPT
         ![f] = [del |-> delete_by_filepath(p, f), add |-> Indexed[run[p].text]]]
        \in [File -> Staged]
  <2>1. [del |-> delete_by_filepath(p, f), add |-> Indexed[run[p].text]] \in Staged
    BY IndexedType DEF Staged, delete_by_filepath
  <2> QED BY <1>0, <2>1, RunType
<1>1. run' = [run EXCEPT ![p] = r]
  BY <1>0 DEF add_document
<1>2. r \in Run
  BY <1>0, <1>5 DEF Run, PCs
<1>3. \A k \in Fields \ {"pc", "staged"} : r[k] = run[p][k]
  BY <1>0 DEF Run, Fields
<1>4. /\ r.pc = "record"
      /\ r.staged = [run[p].staged EXCEPT
               ![f] = [del |-> delete_by_filepath(p, f), add |-> Indexed[run[p].text]]]
  BY <1>0 DEF Run
<1> HIDE DEF r
<1>6. Own(p, {"pc", "staged"}) /\ run'[p] = r
  BY <1>1, <1>2, <1>3, OwnStep
<1> QED BY <1>4, <1>6, Zenon

LEMMA InterruptStep ==
  ASSUME TypeOK, NEW p \in Proc, Interrupt(p)
  PROVE  /\ Own(p, {"pc", "clean"})
         /\ run'[p].pc = "flush"
         /\ run'[p].clean = FALSE
<1> DEFINE r == [run[p] EXCEPT !.pc = "flush", !.clean = FALSE]
<1>0. run[p] \in Run
  BY DEF TypeOK
<1>1. run' = [run EXCEPT ![p] = r]
  BY <1>0 DEF Interrupt
<1>2. r \in Run
  BY <1>0 DEF Run, PCs
<1>3. \A k \in Fields \ {"pc", "clean"} : r[k] = run[p][k]
  BY <1>0 DEF Run, Fields
<1>4. /\ r.pc = "flush"
      /\ r.clean = FALSE
  BY <1>0 DEF Run
<1> HIDE DEF r
<1>6. Own(p, {"pc", "clean"}) /\ run'[p] = r
  BY <1>1, <1>2, <1>3, OwnStep
<1> QED BY <1>4, <1>6, Zenon

LEMMA DeactivateStep ==
  ASSUME TypeOK, NEW p \in Proc, deactivate_missing_documents(p)
  PROVE  /\ Own(p, {"pc", "gone"})
         /\ run'[p].pc = "sweep"
         /\ run'[p].gone = {f \in File : docs[f].active /\ f \notin run[p].found}
<1> DEFINE r == [run[p] EXCEPT !.pc = "sweep", !.gone = {f \in File : docs[f].active /\ f \notin run[p].found}]
<1>0. run[p] \in Run
  BY DEF TypeOK
<1>1. run' = [run EXCEPT ![p] = r]
  BY <1>0 DEF deactivate_missing_documents
<1>2. r \in Run
  BY <1>0 DEF Run, PCs
<1>3. \A k \in Fields \ {"pc", "gone"} : r[k] = run[p][k]
  BY <1>0 DEF Run, Fields
<1>4. /\ r.pc = "sweep"
      /\ r.gone = {f \in File : docs[f].active /\ f \notin run[p].found}
  BY <1>0 DEF Run
<1> HIDE DEF r
<1>6. Own(p, {"pc", "gone"}) /\ run'[p] = r
  BY <1>1, <1>2, <1>3, OwnStep
<1> QED BY <1>4, <1>6, Zenon

LEMMA NoPruneStep ==
  ASSUME TypeOK, NEW p \in Proc, NoPrune(p)
  PROVE  /\ Own(p, {"pc"})
         /\ run'[p].pc = "flush"
<1> DEFINE r == [run[p] EXCEPT !.pc = "flush"]
<1>0. run[p] \in Run
  BY DEF TypeOK
<1>1. run' = [run EXCEPT ![p] = r]
  BY <1>0 DEF NoPrune
<1>2. r \in Run
  BY <1>0 DEF Run, PCs
<1>3. \A k \in Fields \ {"pc"} : r[k] = run[p][k]
  BY <1>0 DEF Run, Fields
<1>4. /\ r.pc = "flush"
  BY <1>0 DEF Run
<1> HIDE DEF r
<1>6. Own(p, {"pc"}) /\ run'[p] = r
  BY <1>1, <1>2, <1>3, OwnStep
<1> QED BY <1>4, <1>6, Zenon

LEMMA RemoveStep ==
  ASSUME TypeOK, NEW p \in Proc, NEW f \in File, remove_from_fts(p, f),
         delete_by_filepath(p, f), writer \in {p, Nobody}
  PROVE  /\ Own(p, {"gone", "staged"})
         /\ run'[p].gone = run[p].gone \ {f}
         /\ run'[p].staged = [run[p].staged EXCEPT ![f] = [del |-> TRUE, add |-> NoHash]]
<1> DEFINE r == [run[p] EXCEPT !.gone = @ \ {f},
             !.staged = [run[p].staged EXCEPT ![f] = [del |-> TRUE, add |-> NoHash]]]
<1>0. run[p] \in Run
  BY DEF TypeOK
<1>5. [run[p].staged EXCEPT ![f] = [del |-> TRUE, add |-> NoHash]] \in [File -> Staged]
  <2>1. [del |-> TRUE, add |-> NoHash] \in Staged
    BY DEF Staged
  <2> QED BY <1>0, <2>1, RunType
<1>7. run' = [run EXCEPT ![p].gone = @ \ {f}, ![p].staged[f] = [del |-> TRUE, add |-> NoHash]]
  BY Zenon DEF remove_from_fts
<1>1. run' = [run EXCEPT ![p] = r]
  BY <1>0, <1>7
<1>2. r \in Run
  BY <1>0, <1>5 DEF Run
<1>3. \A k \in Fields \ {"gone", "staged"} : r[k] = run[p][k]
  BY <1>0 DEF Run, Fields
<1>4. /\ r.gone = run[p].gone \ {f}
      /\ r.staged = [run[p].staged EXCEPT ![f] = [del |-> TRUE, add |-> NoHash]]
  BY <1>0 DEF Run
<1> HIDE DEF r
<1>6. Own(p, {"gone", "staged"}) /\ run'[p] = r
  BY <1>1, <1>2, <1>3, OwnStep
<1> QED BY <1>4, <1>6, Zenon

LEMMA LeaveStep ==
  ASSUME TypeOK, NEW p \in Proc, NEW f \in File, remove_from_fts(p, f),
         ~(delete_by_filepath(p, f) /\ writer \in {p, Nobody})
  PROVE  /\ Own(p, {"gone"})
         /\ run'[p].gone = run[p].gone \ {f}
<1> DEFINE r == [run[p] EXCEPT !.gone = @ \ {f}]
<1>0. run[p] \in Run
  BY DEF TypeOK
<1>5. run' = [run EXCEPT ![p].gone = @ \ {f}]
  BY Zenon DEF remove_from_fts
<1>1. run' = [run EXCEPT ![p] = r]
  BY <1>0, <1>5
<1>2. r \in Run
  BY <1>0 DEF Run
<1>3. \A k \in Fields \ {"gone"} : r[k] = run[p][k]
  BY <1>0 DEF Run, Fields
<1>4. /\ r.gone = run[p].gone \ {f}
  BY <1>0 DEF Run
<1> HIDE DEF r
<1>6. Own(p, {"gone"}) /\ run'[p] = r
  BY <1>1, <1>2, <1>3, OwnStep
<1> QED BY <1>4, <1>6, Zenon

\* A command that ends is idle.
LEMMA EndStep ==
  ASSUME TypeOK, NEW p \in Proc, flush(p) \/ Crash(p)
  PROVE  Own(p, Fields) /\ run'[p] = Idle
<1>1. run' = [run EXCEPT ![p] = Idle]
  BY DEF flush, Crash
<1> QED BY <1>1, IdleType, OwnStep

-----------------------------------------------------------------------------
(* Types.                                                                  *)

LEMMA SpendType ==
  ASSUME left \in [Kinds -> Nat], NEW k \in Kinds, Spend(k)
  PROVE  left' \in [Kinds -> Nat]
  BY DEF Spend

\* What a commit leaves of a path's entries are hashes.
LEMMA CommittedType ==
  ASSUME NEW old \in SUBSET Hash, NEW st \in Staged
  PROVE  Committed(old, st) \in SUBSET Hash
  BY DEF Committed, Staged

\* A step of one command keeps files in hand where they belong if its own
\* next state does.
LEMMA OwnInHand ==
  ASSUME PassType, NEW p \in Proc, NEW F, Own(p, F),
         run'[p].pc \in WithFile => \E f \in File : run'[p].cur = {f},
         run'[p].pc \notin WithFile => run'[p].cur = {},
         run'[p].pc \in WithText => run'[p].text \in Text
  PROVE  run' \in [Proc -> Run] /\ InHand'
  BY DEF PassType, InHand, Own

LEMMA InitType == Init => PassType
<1> SUFFICES ASSUME Init PROVE PassType
  OBVIOUS
<1>1. run \in [Proc -> Run] /\ InHand
  BY IdleType DEF Init, InHand, Idle, WithFile, WithText
<1>2. docs \in [File -> DocRow]
  BY DEF Init, NoDoc, DocRow
<1> QED BY <1>1, <1>2, ZeroTime, BudgetType DEF Init, PassType, TypeOK

\* What indexing makes of a file's row.
LEMMA IndexRow ==
  ASSUME TypeOK, NEW p \in Proc, NEW f \in File, index_document(p, f), run[p].text \in Text
  PROVE  /\ docs' \in [File -> DocRow]
         /\ \A g \in File \ {f} : docs'[g] = docs[g]
         /\ docs'[f].hash = Indexed[run[p].text] /\ docs'[f].raw = run[p].text
         /\ docs'[f].stat = docs[f].stat
         /\ docs[f].hash = Indexed[run[p].text] => docs'[f].active = docs[f].active
         /\ docs[f].hash # Indexed[run[p].text] => docs'[f].active = TRUE
<1>1. docs[f] \in DocRow /\ Indexed[run[p].text] \in Hash
  BY IndexedType DEF TypeOK
<1>2. ASSUME NEW b \in BOOLEAN,
             docs' = [docs EXCEPT ![f] = [docs[f] EXCEPT !.hash = Indexed[run[p].text],
                                            !.raw = run[p].text, !.active = b]]
      PROVE  /\ docs' \in [File -> DocRow]
             /\ \A g \in File \ {f} : docs'[g] = docs[g]
             /\ docs'[f].hash = Indexed[run[p].text] /\ docs'[f].raw = run[p].text
             /\ docs'[f].stat = docs[f].stat /\ docs'[f].active = b
  BY <1>1, <1>2 DEF TypeOK, DocRow
<1>3. CASE docs[f].hash = Indexed[run[p].text]
  <2>1. docs' = [docs EXCEPT ![f] = [docs[f] EXCEPT !.hash = Indexed[run[p].text],
                                       !.raw = run[p].text, !.active = docs[f].active]]
    BY <1>3 DEF index_document
  <2>2. docs[f].active \in BOOLEAN
    BY <1>1 DEF DocRow
  <2> QED BY <1>2, <1>3, <2>1, <2>2
<1>4. CASE docs[f].hash # Indexed[run[p].text]
  <2>1. docs' = [docs EXCEPT ![f] = [docs[f] EXCEPT !.hash = Indexed[run[p].text],
                                       !.raw = run[p].text, !.active = TRUE]]
    BY <1>4 DEF index_document
  <2> QED BY <1>2, <1>4, <2>1
<1> QED BY <1>3, <1>4

\* What recording a stat makes of it.
LEMMA RecordRow ==
  ASSUME TypeOK, NEW p \in Proc, NEW f \in File, set_document_stat(p, f)
  PROVE  /\ docs' \in [File -> DocRow]
         /\ \A g \in File \ {f} : docs'[g] = docs[g]
         /\ docs'[f].hash = docs[f].hash /\ docs'[f].raw = docs[f].raw
         /\ docs'[f].active = docs[f].active
         /\ docs'[f].stat = trusted_stat(run[p].stat)
<1>1. trusted_stat(run[p].stat) \in Time \cup {NoStat}
  BY RunType DEF TypeOK, trusted_stat
<1>2. docs' = [docs EXCEPT ![f].stat = trusted_stat(run[p].stat)]
  BY DEF set_document_stat
<1> HIDE DEF trusted_stat
<1> QED BY <1>1, <1>2 DEF TypeOK, DocRow

\* What the prune makes of the rows.
LEMMA DeactivateRows ==
  ASSUME TypeOK, NEW p \in Proc, deactivate_missing_documents(p)
  PROVE  /\ docs' \in [File -> DocRow]
         /\ \A f \in File : /\ docs'[f].hash = docs[f].hash /\ docs'[f].raw = docs[f].raw
                            /\ docs'[f].stat = docs[f].stat
                            /\ f \in run[p].found => docs'[f].active = docs[f].active
                            /\ f \notin run[p].found => docs'[f].active = FALSE
<1>1. docs' = [f \in File |->
         IF docs[f].active /\ f \notin run[p].found THEN [docs[f] EXCEPT !.active = FALSE]
         ELSE docs[f]]
  BY DEF deactivate_missing_documents
<1>2. \A f \in File : docs[f] \in DocRow
  BY DEF TypeOK
<1> QED BY <1>1, <1>2 DEF DocRow

LEMMA TypePreserved ==
  ASSUME PassType, [Next]_vars
  PROVE  PassType'
<1> USE DEF PassType
<1>0. TypeOK /\ InHand
  OBVIOUS
<1>1. CASE Tick
  <2>1. now' \in Time
    BY <1>1, ClockType DEF Tick, TypeOK, Time
  <2> QED BY <1>1, <2>1 DEF Tick, TypeOK, InHand
<1>2. ASSUME NEW f \in File, (\E t \in Text : Write(f, t)) \/ Delete(f) PROVE PassType'
  <2>1. left' \in [Kinds -> Nat]
    BY <1>2, SpendType DEF Write, Delete, Kinds, TypeOK
  <2>2. run' = Disturbed
    BY <1>2 DEF Write, Delete
  <2>3. run' \in [Proc -> Run] /\ InHand'
    BY <2>2, DisturbStep DEF InHand, Fields
  <2> QED BY <1>2, <2>1, <2>3 DEF Write, Delete, TypeOK
<1>3. ASSUME NEW p \in Proc, Open(p) PROVE PassType'
  <2>1. left' \in [Kinds -> Nat]
    BY <1>3, SpendType DEF Open, Kinds, TypeOK
  <2>2. run'[p].pc = "opened" /\ run'[p].cur = {}
    BY <1>3, OpenStep DEF Fields, Idle
  <2>3. ASSUME NEW q \in Proc \ {p}
        PROVE  /\ run'[q].pc = run[q].pc /\ run'[q].cur = run[q].cur
               /\ run'[q].text = run[q].text
    BY <1>3, OpenStep DEF Own
  <2>4. run' \in [Proc -> Run]
    BY <1>3, OpenStep DEF Own
  <2>5. InHand'
    BY <2>2, <2>3 DEF InHand, WithFile, WithText
  <2> QED BY <1>3, <2>1, <2>4, <2>5 DEF Open, TypeOK
<1>4. ASSUME NEW p \in Proc, Walk(p) PROVE PassType'
  <2>1. run' \in [Proc -> Run] /\ InHand'
    <3>1. /\ Own(p, {"pc", "found", "todo", "cache"})
          /\ run'[p].pc = "walk"
          /\ run[p].pc = "opened"
      BY <1>4, WalkStep DEF Walk
    <3>2. run'[p].cur = {}
      BY <3>1 DEF Own, Fields, InHand, WithFile
    <3> QED BY <3>1, <3>2, OwnInHand DEF WithFile, WithText
  <2> QED BY <1>4, <2>1 DEF Walk, TypeOK
<1>5. ASSUME NEW p \in Proc, NEW f \in File, stat_file(p, f) PROVE PassType'
  <2>1. CASE files[f] # NoText /\ run[p].cache[f] = mtime[f]
    <3>1. run' \in [Proc -> Run] /\ InHand'
      BY <1>5, <2>1, SkipStep, OwnInHand DEF WithFile, WithText
    <3> QED BY <1>5, <3>1 DEF stat_file, TypeOK
  <2>2. CASE ~(files[f] # NoText /\ run[p].cache[f] = mtime[f])
    <3>1. run' \in [Proc -> Run] /\ InHand'
      BY <1>5, <2>2, StatStep, OwnInHand DEF WithFile, WithText
    <3> QED BY <1>5, <3>1 DEF stat_file, TypeOK
  <2> QED BY <2>1, <2>2
<1>6. ASSUME NEW p \in Proc, NEW f \in File, prepare(p, f) PROVE PassType'
  <2>1. files[f] \in Text /\ run[p].cur = {f}
    BY <1>6 DEF prepare, TypeOK
  <2>2. run'[p].pc = "index" /\ run'[p].text \in Text /\ run'[p].cur = {f}
    BY <1>6, <2>1, ReadStep DEF Own, Fields
  <2>3. run' \in [Proc -> Run] /\ InHand'
    BY <1>6, <2>2, ReadStep, OwnInHand DEF WithFile
  <2> QED BY <1>6, <2>3 DEF prepare, TypeOK
<1>7. ASSUME NEW p \in Proc, NEW f \in File, prepare_fails(p, f) \/ add_document_fails(p, f)
      PROVE  PassType'
  <2>1. left' \in [Kinds -> Nat]
    BY <1>7, SpendType DEF prepare_fails, add_document_fails, Kinds, TypeOK
  <2>2. run' \in [Proc -> Run] /\ InHand'
    BY <1>7, SetAsideStep, OwnInHand DEF WithFile, WithText
  <2> QED BY <1>7, <2>1, <2>2 DEF prepare_fails, add_document_fails, TypeOK
<1>8. ASSUME NEW p \in Proc, NEW f \in File, index_document(p, f) PROVE PassType'
  <2>1. run[p].text \in Text /\ run[p].cur = {f}
    BY <1>8 DEF index_document, InHand, WithText
  <2>2. docs' \in [File -> DocRow]
    BY <1>8, <2>1, IndexRow DEF TypeOK
  <2>3. run'[p].pc \in {"record", "stage"} /\ run'[p].text \in Text /\ run'[p].cur = {f}
    BY <1>8, <2>1, IndexStep DEF Own, Fields
  <2>4. run' \in [Proc -> Run] /\ InHand'
    BY <1>8, <2>3, IndexStep, OwnInHand DEF WithFile
  <2>5. late' \in SUBSET File
    BY <1>8 DEF index_document, Late, TypeOK
  <2> QED BY <1>8, <2>2, <2>4, <2>5 DEF index_document, TypeOK
<1>9. ASSUME NEW p \in Proc, NEW f \in File, add_document(p, f) PROVE PassType'
  <2>1. run[p].text \in Text /\ run[p].cur = {f}
    BY <1>9 DEF add_document, InHand, WithText
  <2>2. run'[p].pc = "record" /\ run'[p].text \in Text /\ run'[p].cur = {f}
    BY <1>9, <2>1, StageStep DEF Own, Fields
  <2>3. run' \in [Proc -> Run] /\ InHand'
    BY <1>9, <2>1, <2>2, StageStep, OwnInHand DEF WithFile
  <2> QED BY <1>9, <2>3 DEF add_document, TypeOK
<1>10. ASSUME NEW p \in Proc, NEW f \in File, set_document_stat(p, f) PROVE PassType'
  <2>2. docs' \in [File -> DocRow]
    BY <1>10, RecordRow
  <2>3. run' \in [Proc -> Run] /\ InHand'
    BY <1>10, RecordStep, OwnInHand DEF WithFile, WithText
  <2> QED BY <1>10, <2>2, <2>3 DEF set_document_stat, TypeOK
<1>11. ASSUME NEW p \in Proc, Interrupt(p) PROVE PassType'
  <2>1. left' \in [Kinds -> Nat]
    BY <1>11, SpendType DEF Interrupt, Kinds, TypeOK
  <2>2. run'[p].pc = "flush" /\ run'[p].cur = {}
    BY <1>11, InterruptStep DEF Interrupt, InHand, Own, Fields, WithFile
  <2>3. run' \in [Proc -> Run] /\ InHand'
    BY <1>11, <2>2, InterruptStep, OwnInHand DEF WithFile, WithText
  <2> QED BY <1>11, <2>1, <2>3 DEF Interrupt, TypeOK
<1>12. ASSUME NEW p \in Proc, deactivate_missing_documents(p) PROVE PassType'
  <2>1. docs' \in [File -> DocRow]
    BY <1>12, DeactivateRows
  <2>2. run'[p].pc = "sweep" /\ run'[p].cur = {}
    BY <1>12, DeactivateStep DEF deactivate_missing_documents, InHand, Own, Fields, WithFile
  <2>3. run' \in [Proc -> Run] /\ InHand'
    BY <1>12, <2>2, DeactivateStep, OwnInHand DEF WithFile, WithText
  <2> QED BY <1>12, <2>1, <2>3 DEF deactivate_missing_documents, TypeOK
<1>13. ASSUME NEW p \in Proc, NoPrune(p) PROVE PassType'
  <2>1. run'[p].pc = "flush" /\ run'[p].cur = {}
    BY <1>13, NoPruneStep DEF NoPrune, InHand, Own, Fields, WithFile
  <2>2. run' \in [Proc -> Run] /\ InHand'
    BY <1>13, <2>1, NoPruneStep, OwnInHand DEF WithFile, WithText
  <2> QED BY <1>13, <2>2 DEF NoPrune, TypeOK
<1>14. ASSUME NEW p \in Proc, NEW f \in File, remove_from_fts(p, f) PROVE PassType'
  <2>1. Own(p, {"gone", "staged"})
    BY <1>14, RemoveStep, LeaveStep DEF Own
  <2>2. run' \in [Proc -> Run] /\ InHand'
    BY <2>1 DEF Own, InHand, Fields
  <2>3. lost' \in SUBSET File /\ writer' \in Proc \cup {Nobody}
    BY <1>14 DEF remove_from_fts, TypeOK
  <2> QED BY <1>14, <2>2, <2>3 DEF remove_from_fts, TypeOK
<1>15. ASSUME NEW p \in Proc, flush(p) \/ Crash(p) PROVE PassType'
  <2>1. left' \in [Kinds -> Nat]
    BY <1>15, SpendType DEF flush, Crash, Kinds, TypeOK
  <2>2. run' \in [Proc -> Run] /\ InHand'
    BY <1>15, EndStep, OwnInHand DEF Idle, WithFile, WithText
  <2>3. run[p] \in Run
    BY DEF TypeOK
  <2>4. CASE flush(p)
    <3>1. fts' \in [File -> SUBSET Hash]
      BY <2>3, <2>4, CommittedType, RunType DEF flush, TypeOK
    <3>2. synced' \in BOOLEAN
      <4>1. synced \in BOOLEAN /\ (run[p].clean /\ run[p].quiet) \in BOOLEAN
        BY <2>3 DEF TypeOK
      <4>2. synced' = IF p \in Locked THEN run[p].clean /\ run[p].quiet ELSE synced
        BY <2>4 DEF flush
      <4> QED BY <4>1, <4>2, Zenon
    <3> QED BY <2>1, <2>2, <2>4, <3>1, <3>2 DEF flush, TypeOK
  <2>5. CASE Crash(p)
    <3>1. lost' \in SUBSET File
      BY <2>3, <2>5, RunType DEF Crash, TypeOK
    <3> QED BY <2>1, <2>2, <2>5, <3>1 DEF Crash, TypeOK
  <2> QED BY <1>15, <2>4, <2>5
<1>16. CASE UNCHANGED vars
  BY <1>16 DEF vars, TypeOK, InHand
<1> QED
  BY <1>1, <1>2, <1>3, <1>4, <1>5, <1>6, <1>7, <1>8, <1>9, <1>10, <1>11, <1>12,
     <1>13, <1>14, <1>15, <1>16 DEF Next, Pass, OneFile

-----------------------------------------------------------------------------
(* The stat check.                                                         *)

\* No file is younger than now, and a stat that was kept was older.
Past ==
  \A f \in File : /\ mtime[f] <= now
                  /\ docs[f].stat # NoStat => docs[f].stat < now

\* Unless it changed in this very tick, a file still holds the text that was
\* read from it, and from indexing it on the text of its row.
InHandCurrent ==
  \A p \in Proc, f \in File :
    run[p].cur = {f} /\ Present(f) /\ mtime[f] # now =>
      /\ run[p].pc \in WithText => run[p].text = files[f]
      /\ run[p].pc \in {"stage", "record"} => docs[f].raw = files[f]

\* A recorded stat is the stat of the row's text, active or not.
StatIsOfRow ==
  \A f \in File : Present(f) /\ docs[f].stat = mtime[f] => docs[f].raw = files[f]

StatInv == PassType /\ Past /\ InHandCurrent /\ StatIsOfRow

LEMMA TimeType ==
  ASSUME PassType
  PROVE  /\ now \in Nat /\ \A f \in File : mtime[f] \in Nat
         /\ \A f \in File : docs[f].stat \in Nat \cup {NoStat}
         /\ NoStat \notin Nat
<1>1. Time \subseteq Nat
  BY ClockType DEF Time
<1>2. \A f \in File : docs[f].stat \in Time \cup {NoStat}
  BY DEF PassType, TypeOK, DocRow
<1> QED BY <1>1, <1>2, AbsentType DEF PassType, TypeOK

LEMMA StatInit == Init => StatInv
<1> SUFFICES ASSUME Init PROVE StatInv
  OBVIOUS
<1>1. PassType
  BY InitType
<1>2. \A f \in File : mtime[f] = 0 /\ docs[f].stat = NoStat
  BY DEF Init, NoDoc
<1>3. \A p \in Proc : run[p].cur = {}
  BY DEF Init, Idle
<1>4. now = 0 /\ NoStat # 0
  BY AbsentType DEF Init
<1> QED BY <1>1, <1>2, <1>3, <1>4 DEF StatInv, Past, InHandCurrent, StatIsOfRow

\* A step that leaves the world and the rows alone keeps the invariant if no
\* command gets further with the file in its hand.
LEMMA StatFrame ==
  ASSUME StatInv, PassType', UNCHANGED <<now, files, mtime, docs>>,
         \A p \in Proc : \/ run'[p].cur = {}
                         \/ run'[p].pc = "read"
                         \/ /\ run'[p].cur = run[p].cur /\ run'[p].text = run[p].text
                            /\ run'[p].pc = run[p].pc
                               \/ (run[p].pc \in {"stage", "record"} /\ run'[p].pc = "record")
  PROVE  StatInv'
<1>1. InHandCurrent'
  <2> SUFFICES ASSUME NEW p \in Proc, NEW f \in File,
                      run'[p].cur = {f}, Present(f), mtime[f] # now
               PROVE  /\ run'[p].pc \in WithText => run'[p].text = files[f]
                      /\ run'[p].pc \in {"stage", "record"} => docs[f].raw = files[f]
    BY DEF InHandCurrent, Present
  <2>1. CASE run'[p].pc = "read"
    BY <2>1 DEF WithText
  <2>2. CASE run'[p].pc # "read"
    BY <2>2 DEF StatInv, InHandCurrent, WithText
  <2> QED BY <2>1, <2>2
<1> QED BY <1>1 DEF StatInv, Past, StatIsOfRow, Present

LEMMA StatInvStep ==
  ASSUME ~Slow, StatInv, [Next]_vars
  PROVE  StatInv'
<1>0. PassType /\ PassType' /\ TypeOK
  BY TypePreserved DEF StatInv, PassType
<1> USE <1>0
<1>1. CASE Tick
  <2>1. now' = now + 1 /\ UNCHANGED <<files, mtime, docs, run>>
    BY <1>1 DEF Tick
  <2>2. \A p \in Proc : run[p].cur = {}
    BY <1>1 DEF Tick
  <2>3. Past'
    BY <2>1, TimeType DEF StatInv, Past
  <2> QED BY <2>1, <2>2, <2>3 DEF StatInv, InHandCurrent, StatIsOfRow, Present
<1>2. ASSUME NEW f \in File, NEW t \in Text, Write(f, t) PROVE StatInv'
  <2>1. /\ UNCHANGED <<now, docs>> /\ mtime' = [mtime EXCEPT ![f] = now]
        /\ files' = [files EXCEPT ![f] = t] /\ run' = Disturbed
    BY <1>2 DEF Write
  <2>2. \A p \in Proc : /\ run'[p].cur = run[p].cur /\ run'[p].pc = run[p].pc
                        /\ run'[p].text = run[p].text
    BY <2>1, DisturbStep DEF Fields
  <2>3. mtime'[f] = now /\ \A g \in File \ {f} : mtime'[g] = mtime[g] /\ files'[g] = files[g]
    BY <2>1 DEF TypeOK
  <2>4. Past' /\ docs[f].stat # mtime'[f]
    BY <2>1, <2>3, TimeType DEF StatInv, Past
  <2>5. InHandCurrent'
    BY <2>1, <2>2, <2>3 DEF StatInv, InHandCurrent, Present
  <2>6. StatIsOfRow'
    BY <2>1, <2>3, <2>4 DEF StatInv, StatIsOfRow, Present
  <2> QED BY <2>4, <2>5, <2>6 DEF StatInv
<1>3. ASSUME NEW f \in File, Delete(f) PROVE StatInv'
  <2>1. /\ UNCHANGED <<now, docs, mtime>>
        /\ files' = [files EXCEPT ![f] = NoText] /\ run' = Disturbed
    BY <1>3 DEF Delete
  <2>2. \A p \in Proc : /\ run'[p].cur = run[p].cur /\ run'[p].pc = run[p].pc
                        /\ run'[p].text = run[p].text
    BY <2>1, DisturbStep DEF Fields
  <2>3. files'[f] = NoText /\ \A g \in File \ {f} : files'[g] = files[g]
    BY <2>1 DEF TypeOK
  <2>4. Past' /\ StatIsOfRow'
    BY <2>1, <2>3 DEF StatInv, Past, StatIsOfRow, Present
  <2>5. InHandCurrent'
    BY <2>1, <2>2, <2>3 DEF StatInv, InHandCurrent, Present
  <2> QED BY <2>4, <2>5 DEF StatInv
<1>4. ASSUME NEW p \in Proc, Open(p) PROVE StatInv'
  <2>1. UNCHANGED <<now, files, mtime, docs>>
    BY <1>4 DEF Open
  <2>2. run'[p].cur = {}
    BY <1>4, OpenStep DEF Fields, Idle
  <2>3. ASSUME NEW q \in Proc \ {p}
        PROVE  /\ run'[q].pc = run[q].pc /\ run'[q].cur = run[q].cur
               /\ run'[q].text = run[q].text
    BY <1>4, OpenStep DEF Own
  <2> QED BY <2>1, <2>2, <2>3, StatFrame
<1>5. ASSUME NEW p \in Proc, Walk(p) \/ Interrupt(p) \/ deactivate_missing_documents(p)
                             \/ NoPrune(p) \/ flush(p) \/ Crash(p)
      PROVE  StatInv'
  <2>1. UNCHANGED <<now, files, mtime>>
    BY <1>5 DEF Walk, Interrupt, deactivate_missing_documents, NoPrune, flush, Crash
  <2>2. run'[p].cur = {} /\ \A q \in Proc \ {p} : run'[q] = run[q]
    <3>1. CASE flush(p) \/ Crash(p)
      BY <3>1, EndStep DEF Own, Idle
    <3>2. CASE Walk(p) \/ Interrupt(p) \/ deactivate_missing_documents(p) \/ NoPrune(p)
      <4>1. run[p].pc \in {"opened", "walk"}
        BY <3>2 DEF Walk, Interrupt, deactivate_missing_documents, NoPrune
      <4>2. run[p].cur = {}
        BY <4>1 DEF PassType, InHand, WithFile
      <4>3. /\ run'[p].cur = run[p].cur
            /\ \A q \in Proc \ {p} : run'[q] = run[q]
        BY <3>2, WalkStep, InterruptStep, DeactivateStep, NoPruneStep DEF Own, Fields
      <4> QED BY <4>2, <4>3
    <3> QED BY <1>5, <3>1, <3>2
  <2>3. CASE deactivate_missing_documents(p)
    <3>1. \A f \in File : docs'[f].raw = docs[f].raw /\ docs'[f].stat = docs[f].stat
      BY <2>3, DeactivateRows
    <3>2. Past' /\ StatIsOfRow'
      BY <2>1, <3>1 DEF StatInv, Past, StatIsOfRow, Present
    <3>3. InHandCurrent'
      BY <2>1, <2>2, <3>1 DEF StatInv, InHandCurrent, Present
    <3> QED BY <3>2, <3>3 DEF StatInv
  <2>4. CASE ~deactivate_missing_documents(p)
    <3>1. UNCHANGED docs
      BY <1>5, <2>4 DEF Walk, Interrupt, NoPrune, flush, Crash
    <3> QED BY <2>1, <2>2, <3>1, StatFrame
  <2> QED BY <2>3, <2>4
<1>6. ASSUME NEW p \in Proc, NEW f \in File, stat_file(p, f) PROVE StatInv'
  <2>1. /\ run'[p].cur = {} \/ run'[p].pc = "read"
        /\ \A q \in Proc \ {p} : run'[q] = run[q]
    BY <1>6, SkipStep, StatStep DEF Own
  <2>2. UNCHANGED <<now, files, mtime, docs>>
    BY <1>6 DEF stat_file
  <2> QED BY <2>1, <2>2, StatFrame
<1>7. ASSUME NEW p \in Proc, NEW f \in File, prepare(p, f) PROVE StatInv'
  <2>1. /\ run'[p].pc = "index" /\ run'[p].text = files[f] /\ run'[p].cur = {f}
        /\ \A q \in Proc \ {p} : run'[q] = run[q]
    BY <1>7, ReadStep, ZenonT(30) DEF prepare, Own, Fields
  <2>2. UNCHANGED <<now, files, mtime, docs>>
    BY <1>7 DEF prepare
  <2>3. InHandCurrent'
    <3> SUFFICES ASSUME NEW q \in Proc, NEW g \in File,
                        run'[q].cur = {g}, Present(g), mtime[g] # now
                 PROVE  /\ run'[q].pc \in WithText => run'[q].text = files[g]
                        /\ run'[q].pc \in {"stage", "record"} => docs[g].raw = files[g]
      BY <2>2 DEF InHandCurrent, Present
    <3>1. CASE q = p
      BY <2>1, <3>1
    <3>2. CASE q # p
      BY <2>1, <3>2 DEF StatInv, InHandCurrent
    <3> QED BY <3>1, <3>2
  <2> QED BY <2>2, <2>3 DEF StatInv, Past, StatIsOfRow, Present
<1>8. ASSUME NEW p \in Proc, NEW f \in File, prepare_fails(p, f) \/ add_document_fails(p, f)
      PROVE  StatInv'
  <2>1. run'[p].cur = {} /\ \A q \in Proc \ {p} : run'[q] = run[q]
    BY <1>8, SetAsideStep DEF Own
  <2>2. UNCHANGED <<now, files, mtime, docs>>
    BY <1>8 DEF prepare_fails, add_document_fails
  <2> QED BY <2>1, <2>2, StatFrame
<1>9. ASSUME NEW p \in Proc, NEW f \in File, index_document(p, f) PROVE StatInv'
  \* Whoever has the file in hand has read its text, unless it changed in
  \* this tick; then no stat can match.
  <2>1. run[p].cur = {f} /\ run[p].pc = "index" /\ run[p].text \in Text
    BY <1>9 DEF index_document, PassType, InHand, WithText
  <2>2. /\ run'[p].cur = {f} /\ run'[p].text = run[p].text
        /\ \A q \in Proc \ {p} : run'[q] = run[q]
    BY <1>9, <2>1, IndexStep DEF Own, Fields
  <2>3. UNCHANGED <<now, files, mtime>>
    BY <1>9 DEF index_document
  <2>4. /\ \A g \in File \ {f} : docs'[g] = docs[g]
        /\ docs'[f].raw = run[p].text /\ docs'[f].stat = docs[f].stat
    BY <1>9, <2>1, IndexRow
  <2>5. Present(f) /\ mtime[f] # now => run[p].text = files[f]
    BY <2>1 DEF StatInv, InHandCurrent, WithText
  <2>6. Past'
    BY <2>3, <2>4 DEF StatInv, Past
  <2>7. StatIsOfRow'
    <3>1. docs[f].stat # now
      BY TimeType DEF StatInv, Past
    <3> QED BY <2>3, <2>4, <2>5, <3>1 DEF StatInv, StatIsOfRow, Present
  <2>8. InHandCurrent'
    <3> SUFFICES ASSUME NEW q \in Proc, NEW g \in File,
                        run'[q].cur = {g}, Present(g), mtime[g] # now
                 PROVE  /\ run'[q].pc \in WithText => run'[q].text = files[g]
                        /\ run'[q].pc \in {"stage", "record"} => docs'[g].raw = files[g]
      BY <2>3 DEF InHandCurrent, Present
    <3>1. CASE q = p
      BY <2>2, <2>4, <2>5, <3>1
    <3>2. CASE q # p
      BY <2>2, <2>4, <2>5, <3>2 DEF StatInv, InHandCurrent
    <3> QED BY <3>1, <3>2
  <2> QED BY <2>6, <2>7, <2>8 DEF StatInv
<1>10. ASSUME NEW p \in Proc, NEW f \in File, add_document(p, f) PROVE StatInv'
  <2>1. run[p].pc = "stage" /\ run[p].text \in Text
    BY <1>10 DEF add_document, PassType, InHand, WithText
  <2>2. /\ run'[p].cur = run[p].cur /\ run'[p].text = run[p].text /\ run'[p].pc = "record"
        /\ \A q \in Proc \ {p} : run'[q] = run[q]
    BY <1>10, <2>1, StageStep DEF Own, Fields
  <2>3. UNCHANGED <<now, files, mtime, docs>>
    BY <1>10 DEF add_document
  <2> QED BY <2>1, <2>2, <2>3, StatFrame
<1>11. ASSUME NEW p \in Proc, NEW f \in File, set_document_stat(p, f) PROVE StatInv'
  \* The stat is kept only if it is older than now; then the file has not
  \* changed since, and the row has its text.
  <2>1. run[p].cur = {f} /\ run[p].pc = "record"
    BY <1>11 DEF set_document_stat
  <2>2. run'[p].cur = {} /\ \A q \in Proc \ {p} : run'[q] = run[q]
    BY <1>11, RecordStep DEF Own
  <2>3. UNCHANGED <<now, files, mtime>>
    BY <1>11 DEF set_document_stat
  <2>4. /\ \A g \in File \ {f} : docs'[g] = docs[g]
        /\ docs'[f].raw = docs[f].raw /\ docs'[f].stat = trusted_stat(run[p].stat)
    BY <1>11, RecordRow
  <2>5. docs'[f].stat # NoStat => docs'[f].stat < now
    <3>1. run[p].stat \in Nat
      <4>1. run[p].stat \in Time
        BY RunType DEF TypeOK
      <4> QED BY <4>1, ClockType DEF Time
    <3> QED BY <2>4, <3>1, ClockType, TimeType DEF trusted_stat
  <2>6. Present(f) /\ mtime[f] # now => docs[f].raw = files[f]
    BY <2>1 DEF StatInv, InHandCurrent
  <2>7. Past'
    BY <2>3, <2>4, <2>5 DEF StatInv, Past
  <2>8. StatIsOfRow'
    <3>1. docs'[f].stat # now
      BY <2>5, TimeType
    <3> QED BY <2>3, <2>4, <2>6, <3>1 DEF StatInv, StatIsOfRow, Present
  <2>9. InHandCurrent'
    BY <2>2, <2>3, <2>4 DEF StatInv, InHandCurrent, Present
  <2> QED BY <2>7, <2>8, <2>9 DEF StatInv
<1>12. ASSUME NEW p \in Proc, NEW f \in File, remove_from_fts(p, f) PROVE StatInv'
  <2>1. /\ run'[p].cur = run[p].cur /\ run'[p].text = run[p].text /\ run'[p].pc = run[p].pc
        /\ \A q \in Proc \ {p} : run'[q] = run[q]
    BY <1>12, RemoveStep, LeaveStep DEF Own, Fields
  <2>2. UNCHANGED <<now, files, mtime, docs>>
    BY <1>12 DEF remove_from_fts
  <2> QED BY <2>1, <2>2, StatFrame
<1>13. CASE UNCHANGED vars
  BY <1>13, StatFrame DEF vars
<1> QED
  BY <1>1, <1>2, <1>3, <1>4, <1>5, <1>6, <1>7, <1>8, <1>9, <1>10, <1>11, <1>12, <1>13
  DEF Next, Pass, OneFile

-----------------------------------------------------------------------------
(* A clean pass.                                                           *)

\* A row's hash is that of its text.
RowHash ==
  \A f \in File : docs[f].raw # NoText => docs[f].hash = Indexed[docs[f].raw]

Fresh(f)   == docs[f].raw = files[f] /\ docs[f].hash = Indexed[files[f]]
Visited(f) == f \in late \/ Fresh(f)
Pruned(f)  == f \in late \/ ~docs[f].active

Undisturbed(p) == p \in Locked /\ Active(p) /\ run[p].clean /\ run[p].quiet

\* The files have not changed since the pass listed them.
FoundInv(p) ==
  /\ run[p].pc # "opened" => run[p].found = {f \in File : Present(f)}
  /\ run[p].todo \subseteq run[p].found
  /\ run[p].cur \subseteq run[p].found \ run[p].todo
  /\ run[p].pc \in {"sweep", "flush"} => run[p].todo = {}

\* A stat it goes by that matches the file is that of a fresh row, and the rows
\* behind it are fresh, except where a later writer held an older text.
ProgressInv(p) ==
  /\ \A f \in run[p].todo : run[p].cache[f] = mtime[f] => Visited(f)
  /\ run[p].pc \in WithText => \A f \in run[p].cur : run[p].text = files[f]
  /\ run[p].pc \in {"stage", "record"} => \A f \in run[p].cur : Visited(f)
  /\ \A f \in run[p].found \ (run[p].todo \cup run[p].cur) : Visited(f)
  /\ run[p].pc = "sweep" => \A f \in File \ run[p].found : Pruned(f)
  /\ run[p].pc = "flush" => run[p].found = {}

\* At most one pass holds the index lock, and its beginning ends what the one
\* before it had achieved.
LockedInv ==
  /\ \A p, q \in Locked : Active(p) /\ Active(q) => p = q
  /\ \A p \in Locked : Active(p) => ~synced

Settled == \A f \in File \ late : Converged(f)

CleanInv ==
  /\ StatInv
  /\ RowHash
  /\ LockedInv
  /\ \A p \in Proc : Undisturbed(p) => FoundInv(p) /\ ProgressInv(p)
  /\ synced => Settled

LEMMA CleanInit == Init => CleanInv
<1> SUFFICES ASSUME Init PROVE CleanInv
  OBVIOUS
<1>1. \A p \in Proc : ~Active(p)
  BY DEF Init, Active, Idle
<1>2. RowHash
  BY DEF Init, RowHash, NoDoc
<1> QED BY <1>1, <1>2, StatInit, LockedType DEF CleanInv, LockedInv, Undisturbed, Init

\* While the files stay, no row that was brought in line leaves it unnoticed.
RowsKept ==
  /\ UNCHANGED <<files, mtime>>
  /\ \A f \in File : /\ Visited(f) => Visited(f)'
                     /\ ~Present(f) /\ Pruned(f) => Pruned(f)'

LEMMA SameRows ==
  ASSUME UNCHANGED <<files, mtime, docs, late>>
  PROVE  RowsKept
  BY DEF RowsKept, Visited, Fresh, Pruned

LEMMA SettledKept ==
  ASSUME RowsKept, Settled, RowHash'
  PROVE  Settled'
<1> SUFFICES ASSUME NEW f \in File, f \notin late' PROVE Converged(f)'
  BY DEF Settled
<1>1. CASE Present(f)
  <2>1. Visited(f)
    BY <1>1 DEF Settled, Converged, Visited, Fresh
  <2>2. Fresh(f)'
    BY <2>1 DEF RowsKept, Visited
  <2> QED BY <2>2, <1>1 DEF RowsKept, Converged, Fresh, Present
<1>2. CASE ~Present(f) /\ Pruned(f)
  <2>1. ~docs'[f].active
    BY <1>2 DEF RowsKept, Pruned
  <2> QED BY <2>1, <1>2 DEF RowsKept, Converged, Present
<1>3. CASE ~Present(f) /\ ~Pruned(f)
  <2>1. \A g \in File : ~Present(g)
    BY <1>3 DEF Settled, Converged, Pruned
  <2> QED BY <2>1 DEF RowsKept, Converged, Present
<1> QED BY <1>1, <1>2, <1>3

\* What a step of p leaves of the pass q.
LEMMA OtherPass ==
  ASSUME RowsKept, NEW q \in Proc, run[q] \in Run, run'[q] = run[q],
         Undisturbed(q) => FoundInv(q) /\ ProgressInv(q), Undisturbed(q)'
  PROVE  FoundInv(q)' /\ ProgressInv(q)'
<1>1. Undisturbed(q)
  BY DEF Undisturbed, Active
<1>2. FoundInv(q) /\ ProgressInv(q)
  BY <1>1
<1>3. FoundInv(q)'
  BY <1>2 DEF FoundInv, RowsKept, Present
<1>4. run[q].pc = "sweep" => \A f \in File \ run[q].found : Pruned(f)'
  BY <1>2 DEF FoundInv, ProgressInv, RowsKept
<1>5. \A f \in run[q].todo : run[q].cache[f] = mtime[f] => Visited(f)'
  BY <1>2, RunType DEF ProgressInv, RowsKept
<1>6. /\ run[q].pc \in {"stage", "record"} => \A f \in run[q].cur : Visited(f)'
      /\ \A f \in run[q].found \ (run[q].todo \cup run[q].cur) : Visited(f)'
  BY <1>2, RunType DEF ProgressInv, RowsKept
<1>7. ProgressInv(q)'
  BY <1>2, <1>4, <1>5, <1>6 DEF ProgressInv, RowsKept
<1> QED BY <1>3, <1>7

\* A step of a running command: what has to be shown of it and of the rows.
LEMMA CleanFrame ==
  ASSUME CleanInv, StatInv', RowHash', NEW p \in Proc, Active(p), RowsKept,
         UNCHANGED synced,
         \A q \in Proc \ {p} : run'[q] = run[q],
         Undisturbed(p)' => FoundInv(p)' /\ ProgressInv(p)'
  PROVE  CleanInv'
<1>1. ASSUME NEW q \in Proc, Undisturbed(q)' PROVE FoundInv(q)' /\ ProgressInv(q)'
  <2>1. CASE q = p
    BY <1>1, <2>1
  <2>2. CASE q # p
    BY <1>1, <2>2, OtherPass DEF CleanInv, StatInv, PassType, TypeOK
  <2> QED BY <2>1, <2>2
<1>2. \A q \in Proc : Active(q)' => Active(q)
  BY DEF Active
<1>3. LockedInv'
  BY <1>2, LockedType DEF CleanInv, LockedInv
<1>4. synced' => Settled'
  BY SettledKept DEF CleanInv
<1> QED BY <1>1, <1>3, <1>4 DEF CleanInv

LEMMA CleanInvStep ==
  ASSUME ~Slow, CleanInv, [Next]_vars
  PROVE  CleanInv'
<1>0. StatInv /\ StatInv' /\ PassType /\ PassType' /\ TypeOK
  BY StatInvStep DEF CleanInv, StatInv, PassType
<1> USE <1>0
<1>b. \A p \in Proc : Undisturbed(p) => FoundInv(p) /\ ProgressInv(p)
  BY DEF CleanInv
<1>1. CASE Tick
  BY <1>1 DEF Tick, CleanInv, RowHash, LockedInv, Settled, Undisturbed, FoundInv,
              ProgressInv, Active, Visited, Pruned, Fresh, Present, Converged
<1>2. ASSUME NEW f \in File, (\E t \in Text : Write(f, t)) \/ Delete(f) PROVE CleanInv'
  <2>1. run' = Disturbed /\ ~synced' /\ UNCHANGED docs
    BY <1>2 DEF Write, Delete
  <2>2. \A p \in Proc : ~run'[p].quiet /\ run'[p].pc = run[p].pc
    BY <2>1, DisturbStep DEF Fields
  <2>3. LockedInv'
    BY <2>1, <2>2, LockedType DEF CleanInv, LockedInv, Active
  <2> QED BY <2>1, <2>2, <2>3 DEF CleanInv, RowHash, Undisturbed
<1>3. ASSUME NEW p \in Proc, Open(p) PROVE CleanInv'
  <2>1. /\ UNCHANGED <<files, mtime, docs>>
        /\ p \in Locked => \A q \in Locked : ~Active(q)
        /\ p \in Locked => ~synced'
        /\ p \notin Locked => late' = late /\ (synced' => synced)
    BY <1>3 DEF Open
  <2>2. /\ run'[p].pc = "opened" /\ run'[p].found = {} /\ run'[p].todo = {}
        /\ run'[p].cur = {}
        /\ \A q \in Proc \ {p} : run'[q] = run[q]
    BY <1>3, OpenStep DEF Own, Fields, Idle
  <2>3. FoundInv(p)' /\ ProgressInv(p)'
    BY <2>2 DEF FoundInv, ProgressInv, WithText
  <2>4. RowHash'
    BY <2>1 DEF CleanInv, RowHash
  <2>5. LockedInv'
    BY <2>1, <2>2, LockedType DEF CleanInv, LockedInv, Active
  <2>6. ASSUME NEW q \in Proc \ {p}, Undisturbed(q)' PROVE FoundInv(q)' /\ ProgressInv(q)'
    <3>1. q \in Locked /\ Active(q)
      BY <2>2, <2>6 DEF Undisturbed, Active
    <3>2. RowsKept
      BY <2>1, <3>1, SameRows
    <3> QED BY <1>b, <2>2, <2>6, <3>2, OtherPass DEF TypeOK
  <2>7. synced' => Settled'
    BY <2>1, <2>4, SameRows, SettledKept DEF CleanInv
  <2> QED BY <2>3, <2>4, <2>5, <2>6, <2>7 DEF CleanInv
<1>4. ASSUME NEW p \in Proc, Walk(p) PROVE CleanInv'
  <2>1. /\ run[p].pc = "opened" /\ Active(p) /\ run[p].cur = {}
        /\ UNCHANGED <<files, mtime, docs, late, synced>>
    BY <1>4 DEF Walk, Active, PassType, InHand, WithFile
  <2>2. /\ \A q \in Proc \ {p} : run'[q] = run[q]
        /\ run'[p].pc = "walk" /\ run'[p].cur = {}
        /\ run'[p].clean = run[p].clean /\ run'[p].quiet = run[p].quiet
        /\ run'[p].found = {f \in File : Present(f)}
        /\ run'[p].todo = {f \in File : Present(f)}
    BY <1>4, <2>1, WalkStep DEF Own, Fields, Present
  <2>3. \A f \in File : Present(f) /\ run'[p].cache[f] = mtime[f] => Visited(f)
    <3>1. \A f \in File : run'[p].cache[f] \in {NoStat, docs[f].stat}
      BY <1>4, WalkStep DEF load_doc_stat_cache, Idle
    <3> QED BY <3>1, TimeType DEF StatInv, StatIsOfRow, Present, CleanInv, RowHash, Fresh, Visited
  <2>4. Undisturbed(p)' => FoundInv(p)' /\ ProgressInv(p)'
    <3> SUFFICES ASSUME Undisturbed(p)'
                 PROVE  FoundInv(p)' /\ ProgressInv(p)'
      OBVIOUS
    <3>1. Undisturbed(p)
      BY <2>1, <2>2, <2>3 DEF Undisturbed, Active
    <3>2. FoundInv(p) /\ ProgressInv(p)
      BY <1>b, <3>1
    <3>3. FoundInv(p)'
      BY <2>1, <2>2, <2>3, <3>1, <3>2 DEF FoundInv, Present
    <3>4. ProgressInv(p)'
      BY <2>1, <2>2, <2>3, <3>1, <3>2 DEF ProgressInv, FoundInv, Present, Visited, Pruned, Fresh, WithText
    <3> QED BY <3>3, <3>4
  <2> QED BY <2>1, <2>2, <2>4, SameRows, CleanFrame DEF CleanInv, RowHash
<1>5. ASSUME NEW p \in Proc, NEW f \in File, stat_file(p, f) PROVE CleanInv'
  <2>1. /\ run[p].pc = "walk" /\ Active(p) /\ run[p].cur = {} /\ f \in run[p].todo
        /\ UNCHANGED <<files, mtime, docs, late, synced>>
    BY <1>5 DEF stat_file, Active, PassType, InHand, WithFile
  <2>2. CASE files[f] # NoText /\ run[p].cache[f] = mtime[f]
    \* The recorded stat is the file's, so the row has its text.
    <3>1. /\ \A q \in Proc \ {p} : run'[q] = run[q]
          /\ run'[p].pc = "walk" /\ run'[p].cur = {} /\ run'[p].todo = run[p].todo \ {f}
          /\ run'[p].clean = run[p].clean /\ run'[p].quiet = run[p].quiet
          /\ run'[p].found = run[p].found /\ run'[p].cache = run[p].cache
      BY <1>5, <2>2, SkipStep DEF Own, Fields
    <3>2. Undisturbed(p) => Visited(f)
      BY <1>b, <2>1, <2>2 DEF ProgressInv
    <3>3. Undisturbed(p)' => FoundInv(p)' /\ ProgressInv(p)'
      <4> SUFFICES ASSUME Undisturbed(p)'
                   PROVE  FoundInv(p)' /\ ProgressInv(p)'
        OBVIOUS
      <4>1. Undisturbed(p)
        BY <2>1, <3>1, <3>2 DEF Undisturbed, Active
      <4>2. FoundInv(p) /\ ProgressInv(p)
        BY <1>b, <4>1
      <4>3. FoundInv(p)'
        BY <2>1, <3>1, <3>2, <4>1, <4>2 DEF FoundInv, Present
      <4>4. ProgressInv(p)'
        BY <2>1, <3>1, <3>2, <4>1, <4>2 DEF ProgressInv, FoundInv, Present, Visited, Pruned, Fresh, WithText
      <4> QED BY <4>3, <4>4
    <3> QED BY <2>1, <3>1, <3>3, SameRows, CleanFrame DEF CleanInv, RowHash
  <2>3. CASE ~(files[f] # NoText /\ run[p].cache[f] = mtime[f])
    <3>1. /\ \A q \in Proc \ {p} : run'[q] = run[q]
          /\ run'[p].pc = "read" /\ run'[p].cur = {f} /\ run'[p].todo = run[p].todo \ {f}
          /\ run'[p].clean = run[p].clean /\ run'[p].quiet = run[p].quiet
          /\ run'[p].found = run[p].found /\ run'[p].cache = run[p].cache
      BY <1>5, <2>3, StatStep DEF Own, Fields
    <3>2. Undisturbed(p)' => FoundInv(p)' /\ ProgressInv(p)'
      <4> SUFFICES ASSUME Undisturbed(p)'
                   PROVE  FoundInv(p)' /\ ProgressInv(p)'
        OBVIOUS
      <4>1. Undisturbed(p)
        BY <2>1, <3>1 DEF Undisturbed, Active
      <4>2. FoundInv(p) /\ ProgressInv(p)
        BY <1>b, <4>1
      <4>3. FoundInv(p)'
        BY <2>1, <3>1, <4>1, <4>2 DEF FoundInv, Present
      <4>4. ProgressInv(p)'
        BY <2>1, <3>1, <4>1, <4>2 DEF ProgressInv, FoundInv, Present, Visited, Pruned, Fresh, WithText
      <4> QED BY <4>3, <4>4
    <3> QED BY <2>1, <3>1, <3>2, SameRows, CleanFrame DEF CleanInv, RowHash
  <2> QED BY <2>2, <2>3
<1>6. ASSUME NEW p \in Proc, NEW f \in File, prepare(p, f) PROVE CleanInv'
  <2>1. /\ run[p].pc = "read" /\ Active(p) /\ run[p].cur = {f}
        /\ UNCHANGED <<files, mtime, docs, late, synced>>
    BY <1>6 DEF prepare, Active
  <2>2. /\ \A q \in Proc \ {p} : run'[q] = run[q]
        /\ run'[p].pc = "index" /\ run'[p].cur = {f} /\ run'[p].todo = run[p].todo
        /\ run'[p].text = files[f]
        /\ run'[p].clean = run[p].clean /\ run'[p].quiet = run[p].quiet
        /\ run'[p].found = run[p].found /\ run'[p].cache = run[p].cache
    BY <1>6, <2>1, ReadStep DEF Own, Fields
  <2>3. Undisturbed(p)' => FoundInv(p)' /\ ProgressInv(p)'
    <3> SUFFICES ASSUME Undisturbed(p)'
                 PROVE  FoundInv(p)' /\ ProgressInv(p)'
      OBVIOUS
    <3>1. Undisturbed(p)
      BY <2>1, <2>2 DEF Undisturbed, Active
    <3>2. FoundInv(p) /\ ProgressInv(p)
      BY <1>b, <3>1
    <3>3. FoundInv(p)'
      BY <2>1, <2>2, <3>1, <3>2 DEF FoundInv, Present
    <3>4. ProgressInv(p)'
      BY <2>1, <2>2, <3>1, <3>2 DEF ProgressInv, FoundInv, Present, Visited, Pruned, Fresh, WithText
    <3> QED BY <3>3, <3>4
  <2> QED BY <2>1, <2>2, <2>3, SameRows, CleanFrame DEF CleanInv, RowHash
<1>7. ASSUME NEW p \in Proc, NEW f \in File, prepare_fails(p, f) \/ add_document_fails(p, f)
      PROVE  CleanInv'
  <2>1. Active(p) /\ UNCHANGED <<files, mtime, docs, late, synced>>
    BY <1>7 DEF prepare_fails, add_document_fails, Active
  <2>2. run'[p].clean = FALSE /\ \A q \in Proc \ {p} : run'[q] = run[q]
    BY <1>7, SetAsideStep DEF Own
  <2> QED BY <2>1, <2>2, SameRows, CleanFrame DEF CleanInv, RowHash, Undisturbed
<1>8. ASSUME NEW p \in Proc, NEW f \in File, index_document(p, f) PROVE CleanInv'
  <2>1. /\ run[p].pc = "index" /\ Active(p) /\ run[p].cur = {f} /\ run[p].text \in Text
        /\ UNCHANGED <<files, mtime, synced>>
    BY <1>8 DEF index_document, Active, PassType, InHand, WithText
  <2>2. /\ \A q \in Proc \ {p} : run'[q] = run[q]
        /\ run'[p].pc \in {"stage", "record"} /\ run'[p].cur = {f}
        /\ run'[p].todo = run[p].todo /\ run'[p].text = run[p].text
        /\ run'[p].clean = run[p].clean /\ run'[p].quiet = run[p].quiet
        /\ run'[p].found = run[p].found /\ run'[p].cache = run[p].cache
    BY <1>8, <2>1, IndexStep DEF Own, Fields
  <2>3. /\ \A g \in File \ {f} : docs'[g] = docs[g]
        /\ docs'[f].raw = run[p].text /\ docs'[f].hash = Indexed[run[p].text]
    BY <1>8, <2>1, IndexRow
  <2>4. RowHash'
    BY <2>3 DEF CleanInv, RowHash
  <2>5. /\ late' = IF run[p].text = files[f] THEN late \ {f} ELSE late \cup {f}
        /\ Visited(f)'
    BY <1>8, <2>1, <2>3 DEF index_document, Late, Visited, Fresh
  <2>6. RowsKept
    <3>1. ~Present(f) => Pruned(f)'
      BY <2>1, <2>5, AbsentType DEF Present, Pruned
    <3>2. ASSUME NEW g \in File
          PROVE  /\ Visited(g) => Visited(g)'
                 /\ ~Present(g) /\ Pruned(g) => Pruned(g)'
      <4>1. CASE g = f
        <5>1. Visited(g)'
          BY <2>5, <4>1 DEF Visited, Fresh
        <5>2. ~Present(g) => Pruned(g)'
          BY <3>1, <4>1 DEF Present, Pruned
        <5> QED BY <5>1, <5>2
      <4>2. CASE g # f
        BY <2>1, <2>3, <2>5, <4>2 DEF Visited, Fresh, Pruned
      <4> QED BY <4>1, <4>2
    <3> QED BY <2>1, <3>2 DEF RowsKept
  <2>7. Undisturbed(p)' => FoundInv(p)' /\ ProgressInv(p)'
    <3> SUFFICES ASSUME Undisturbed(p)'
                 PROVE  FoundInv(p)' /\ ProgressInv(p)'
      OBVIOUS
    <3>1. Undisturbed(p)
      BY <2>1, <2>2 DEF Undisturbed
    <3>2. FoundInv(p)'
      BY <1>b, <2>1, <2>2, <3>1 DEF FoundInv, Present
    <3>3. \A g \in run[p].found \ (run[p].todo \cup {f}) : Visited(g)'
      BY <1>b, <2>1, <2>6, <3>1, RunType DEF ProgressInv, RowsKept, TypeOK
    <3>4. \A g \in run[p].todo : run[p].cache[g] = mtime[g] => Visited(g)'
      BY <1>b, <2>1, <2>6, <3>1, RunType DEF ProgressInv, RowsKept, TypeOK
    <3> QED BY <1>b, <2>1, <2>2, <2>5, <3>1, <3>2, <3>3, <3>4 DEF ProgressInv, WithText
  <2> QED BY <2>1, <2>2, <2>4, <2>6, <2>7, CleanFrame
<1>9. ASSUME NEW p \in Proc, NEW f \in File, add_document(p, f) PROVE CleanInv'
  <2>1. /\ run[p].pc = "stage" /\ Active(p) /\ run[p].cur = {f} /\ run[p].text \in Text
        /\ UNCHANGED <<files, mtime, docs, late, synced>>
    BY <1>9 DEF add_document, Active, PassType, InHand, WithText
  <2>2. /\ \A q \in Proc \ {p} : run'[q] = run[q]
        /\ run'[p].pc = "record" /\ run'[p].cur = {f} /\ run'[p].todo = run[p].todo
        /\ run'[p].text = run[p].text
        /\ run'[p].clean = run[p].clean /\ run'[p].quiet = run[p].quiet
        /\ run'[p].found = run[p].found /\ run'[p].cache = run[p].cache
    BY <1>9, <2>1, StageStep DEF Own, Fields
  <2>3. Undisturbed(p)' => FoundInv(p)' /\ ProgressInv(p)'
    <3> SUFFICES ASSUME Undisturbed(p)'
                 PROVE  FoundInv(p)' /\ ProgressInv(p)'
      OBVIOUS
    <3>1. Undisturbed(p)
      BY <2>1, <2>2 DEF Undisturbed, Active
    <3>2. FoundInv(p) /\ ProgressInv(p)
      BY <1>b, <3>1
    <3>3. FoundInv(p)'
      BY <2>1, <2>2, <3>1, <3>2 DEF FoundInv, Present
    <3>4. ProgressInv(p)'
      BY <2>1, <2>2, <3>1, <3>2 DEF ProgressInv, FoundInv, Present, Visited, Pruned, Fresh, WithText
    <3> QED BY <3>3, <3>4
  <2> QED BY <2>1, <2>2, <2>3, SameRows, CleanFrame DEF CleanInv, RowHash
<1>10. ASSUME NEW p \in Proc, NEW f \in File, set_document_stat(p, f) PROVE CleanInv'
  <2>1. /\ run[p].pc = "record" /\ Active(p) /\ run[p].cur = {f}
        /\ UNCHANGED <<files, mtime, late, synced>>
    BY <1>10 DEF set_document_stat, Active
  <2>2. /\ \A q \in Proc \ {p} : run'[q] = run[q]
        /\ run'[p].pc = "walk" /\ run'[p].cur = {} /\ run'[p].todo = run[p].todo
        /\ run'[p].clean = run[p].clean /\ run'[p].quiet = run[p].quiet
        /\ run'[p].found = run[p].found /\ run'[p].cache = run[p].cache
    BY <1>10, <2>1, RecordStep DEF Own, Fields
  <2>3. /\ \A g \in File \ {f} : docs'[g] = docs[g]
        /\ docs'[f].raw = docs[f].raw /\ docs'[f].hash = docs[f].hash
        /\ docs'[f].active = docs[f].active
    BY <1>10, RecordRow
  <2>4. RowHash'
    BY <2>3 DEF CleanInv, RowHash
  <2>5. RowsKept
    BY <2>1, <2>3 DEF RowsKept, Visited, Fresh, Pruned
  <2>6. Undisturbed(p)' => FoundInv(p)' /\ ProgressInv(p)'
    <3> SUFFICES ASSUME Undisturbed(p)'
                 PROVE  FoundInv(p)' /\ ProgressInv(p)'
      OBVIOUS
    <3>1. Undisturbed(p)
      BY <2>1, <2>2 DEF Undisturbed
    <3>2. FoundInv(p)'
      BY <1>b, <2>1, <2>2, <3>1 DEF FoundInv, Present
    <3>3. \A g \in run[p].found \ run[p].todo : Visited(g)'
      BY <1>b, <2>1, <2>5, <3>1, RunType DEF ProgressInv, RowsKept, TypeOK
    <3>4. \A g \in run[p].todo : run[p].cache[g] = mtime[g] => Visited(g)'
      BY <1>b, <2>1, <2>5, <3>1, RunType DEF ProgressInv, RowsKept, TypeOK
    <3> QED BY <2>1, <2>2, <3>1, <3>2, <3>3, <3>4 DEF ProgressInv, WithText
  <2> QED BY <2>1, <2>2, <2>4, <2>5, <2>6, CleanFrame
<1>11. ASSUME NEW p \in Proc, Interrupt(p) PROVE CleanInv'
  <2>1. Active(p) /\ UNCHANGED <<files, mtime, docs, late, synced>>
    BY <1>11 DEF Interrupt, Active
  <2>2. run'[p].clean = FALSE /\ \A q \in Proc \ {p} : run'[q] = run[q]
    BY <1>11, InterruptStep DEF Own
  <2> QED BY <2>1, <2>2, SameRows, CleanFrame DEF CleanInv, RowHash, Undisturbed
<1>12. ASSUME NEW p \in Proc, deactivate_missing_documents(p) PROVE CleanInv'
  \* Only p holds the lock, so only p's own work is at stake.
  <2>1. /\ run[p].pc = "walk" /\ run[p].todo = {} /\ Active(p) /\ run[p].cur = {}
        /\ p \in Locked
        /\ UNCHANGED <<files, mtime, synced>>
        /\ late' = late \ {f \in File : docs[f].active /\ f \notin run[p].found}
    BY <1>12 DEF deactivate_missing_documents, Active, PassType, InHand, WithFile
  <2>2. /\ \A q \in Proc \ {p} : run'[q] = run[q]
        /\ run'[p].pc = "sweep" /\ run'[p].cur = {} /\ run'[p].todo = {}
        /\ run'[p].clean = run[p].clean /\ run'[p].quiet = run[p].quiet
        /\ run'[p].found = run[p].found
    BY <1>12, <2>1, DeactivateStep DEF Own, Fields
  <2>3. \A f \in File : /\ docs'[f].raw = docs[f].raw /\ docs'[f].hash = docs[f].hash
                        /\ f \notin run[p].found => docs'[f].active = FALSE
    BY <1>12, DeactivateRows
  <2>4. RowHash'
    BY <2>3 DEF CleanInv, RowHash
  <2>5. run[p].found \in SUBSET File
    BY RunType DEF TypeOK
  <2>6. Undisturbed(p)' => FoundInv(p)' /\ ProgressInv(p)'
    <3> SUFFICES ASSUME Undisturbed(p)'
                 PROVE  FoundInv(p)' /\ ProgressInv(p)'
      OBVIOUS
    <3>1. Undisturbed(p)
      BY <2>1, <2>2 DEF Undisturbed, Active
    <3>2. FoundInv(p) /\ ProgressInv(p)
      BY <1>b, <3>1
    <3>3. FoundInv(p)'
      BY <2>1, <2>2, <3>2 DEF FoundInv, Present
    <3>4. \A f \in run[p].found : Visited(f)'
      BY <2>1, <2>3, <2>5, <3>2 DEF ProgressInv, Visited, Fresh
    <3>5. \A f \in File \ run[p].found : Pruned(f)'
      BY <2>3 DEF Pruned
    <3> QED BY <2>2, <3>3, <3>4, <3>5 DEF ProgressInv, WithText
  <2>7. ASSUME NEW q \in Proc \ {p} PROVE ~Undisturbed(q)'
    BY <2>1, <2>2 DEF CleanInv, LockedInv, Undisturbed, Active
  <2>8. LockedInv' /\ ~synced'
    BY <2>1, <2>2, LockedType DEF CleanInv, LockedInv, Active
  <2> QED BY <2>4, <2>6, <2>7, <2>8 DEF CleanInv
<1>13. ASSUME NEW p \in Proc, NoPrune(p) PROVE CleanInv'
  <2>1. /\ run[p].pc = "walk" /\ run[p].todo = {} /\ Active(p) /\ run[p].cur = {}
        /\ p \in Locked => run[p].found = {}
        /\ UNCHANGED <<files, mtime, docs, late, synced>>
    BY <1>13 DEF NoPrune, Active, PassType, InHand, WithFile
  <2>2. /\ \A q \in Proc \ {p} : run'[q] = run[q]
        /\ run'[p].pc = "flush" /\ run'[p].cur = {} /\ run'[p].todo = {}
        /\ run'[p].clean = run[p].clean /\ run'[p].quiet = run[p].quiet
        /\ run'[p].found = run[p].found
    BY <1>13, <2>1, NoPruneStep DEF Own, Fields
  <2>3. Undisturbed(p)' => FoundInv(p)' /\ ProgressInv(p)'
    <3> SUFFICES ASSUME Undisturbed(p)'
                 PROVE  FoundInv(p)' /\ ProgressInv(p)'
      OBVIOUS
    <3>1. Undisturbed(p)
      BY <2>1, <2>2 DEF Undisturbed, Active
    <3>2. FoundInv(p) /\ ProgressInv(p)
      BY <1>b, <3>1
    <3>3. FoundInv(p)'
      BY <2>1, <2>2, <3>1, <3>2 DEF FoundInv, Present
    <3>4. ProgressInv(p)'
      <4>1. run[p].found = {}
        BY <2>1, <3>1 DEF Undisturbed
      <4> QED BY <2>2, <4>1 DEF ProgressInv, WithText
    <3> QED BY <3>3, <3>4
  <2> QED BY <2>1, <2>2, <2>3, SameRows, CleanFrame DEF CleanInv, RowHash
<1>14. ASSUME NEW p \in Proc, NEW f \in File, remove_from_fts(p, f) PROVE CleanInv'
  <2>1. Active(p) /\ run[p].pc = "sweep" /\ UNCHANGED <<files, mtime, docs, late, synced>>
    BY <1>14 DEF remove_from_fts, Active
  <2>2. /\ \A q \in Proc \ {p} : run'[q] = run[q]
        /\ \A k \in Fields \ {"gone", "staged"} : run'[p][k] = run[p][k]
    BY <1>14, RemoveStep, LeaveStep DEF Own
  <2>3. /\ run'[p].pc = run[p].pc /\ run'[p].cur = run[p].cur
        /\ run'[p].todo = run[p].todo /\ run'[p].clean = run[p].clean
        /\ run'[p].quiet = run[p].quiet /\ run'[p].found = run[p].found
        /\ run'[p].cache = run[p].cache /\ run'[p].text = run[p].text
    BY <2>2 DEF Fields
  <2>4. Undisturbed(p)' => FoundInv(p)' /\ ProgressInv(p)'
    <3> SUFFICES ASSUME Undisturbed(p)'
                 PROVE  FoundInv(p)' /\ ProgressInv(p)'
      OBVIOUS
    <3>1. Undisturbed(p)
      BY <2>1, <2>2, <2>3 DEF Undisturbed, Active
    <3>2. FoundInv(p) /\ ProgressInv(p)
      BY <1>b, <3>1
    <3>3. FoundInv(p)'
      BY <2>1, <2>2, <2>3, <3>1, <3>2 DEF FoundInv, Present
    <3>4. ProgressInv(p)'
      BY <2>1, <2>2, <2>3, <3>1, <3>2 DEF ProgressInv, FoundInv, Present, Visited, Pruned, Fresh, WithText
    <3> QED BY <3>3, <3>4
  <2> QED BY <2>1, <2>2, <2>4, SameRows, CleanFrame DEF CleanInv, RowHash
<1>15. ASSUME NEW p \in Proc, flush(p) PROVE CleanInv'
  \* An undisturbed pass that ends has freshened every file it found, and
  \* deactivated every other row.
  <2>1. /\ run[p].pc \in {"flush", "sweep"} /\ Active(p) /\ run[p].cur = {}
        /\ UNCHANGED <<files, mtime, docs, late>>
        /\ p \in Locked /\ synced' => run[p].clean /\ run[p].quiet
        /\ p \notin Locked => UNCHANGED synced
    BY <1>15 DEF flush, Active, PassType, InHand, WithFile
  <2>2. run'[p].pc = "idle" /\ \A q \in Proc \ {p} : run'[q] = run[q]
    BY <1>15, EndStep DEF Own, Idle
  <2>3. RowsKept /\ RowHash'
    BY <2>1, SameRows DEF CleanInv, RowHash
  <2>4. CASE p \notin Locked
    BY <2>1, <2>2, <2>3, <2>4, CleanFrame DEF Undisturbed
  <2>5. CASE p \in Locked
    <3>1. ASSUME synced' PROVE Settled
      <4>1. FoundInv(p) /\ ProgressInv(p)
        BY <1>b, <2>1, <2>5, <3>1 DEF Undisturbed
      <4> QED BY <2>1, <4>1 DEF FoundInv, ProgressInv, Settled, Converged, Visited, Pruned,
                                Fresh, Present
    <3>2. synced' => Settled'
      BY <2>3, <3>1, SettledKept
    <3>3. \A q \in Locked : ~Active(q)'
      BY <2>1, <2>2, <2>5, LockedType DEF CleanInv, LockedInv, Active
    <3> QED BY <2>3, <3>2, <3>3 DEF CleanInv, LockedInv, Undisturbed
  <2> QED BY <2>4, <2>5
<1>16. ASSUME NEW p \in Proc, Crash(p) PROVE CleanInv'
  <2>1. Active(p) /\ UNCHANGED <<files, mtime, docs, late, synced>>
    BY <1>16 DEF Crash
  <2>2. run'[p].pc = "idle" /\ \A q \in Proc \ {p} : run'[q] = run[q]
    BY <1>16, EndStep DEF Own, Idle
  <2> QED BY <2>1, <2>2, SameRows, CleanFrame DEF CleanInv, RowHash, Undisturbed, Active
<1>17. CASE UNCHANGED vars
  BY <1>17 DEF vars, CleanInv, RowHash, LockedInv, Settled, Undisturbed, FoundInv,
               ProgressInv, Active, Visited, Pruned, Fresh, Present, Converged
<1> QED
  BY <1>1, <1>2, <1>3, <1>4, <1>5, <1>6, <1>7, <1>8, <1>9, <1>10, <1>11, <1>12,
     <1>13, <1>14, <1>15, <1>16, <1>17 DEF Next, Pass, OneFile

-----------------------------------------------------------------------------
(* The full-text index, when commands exclude each other.                  *)

\* What the full-text index should have under a path.
Expected(f) == IF docs[f].active THEN {docs[f].hash} ELSE {}

\* The paths whose row is ahead of what p has staged.
Ahead(p) == run[p].gone \cup (IF run[p].pc = "stage" THEN run[p].cur ELSE {})

\* Where p is: what it has staged before the sweep are found files it has
\* visited, what the sweep has yet to delete are inactive rows.
SweepInv(p) ==
  /\ run[p].pc = "opened" => run[p].found = {}
  /\ run[p].pc # "sweep" => run[p].gone = {}
  /\ \A f \in run[p].gone : ~docs[f].active /\ run[p].staged[f] = NotStaged
  /\ run[p].pc # "sweep" =>
       \A f \in File : run[p].staged[f] # NotStaged =>
         /\ f \in run[p].found \ run[p].todo
         /\ run[p].pc # "record" => f \notin run[p].cur
  /\ run[p].todo \subseteq run[p].found
  /\ run[p].cur \subseteq run[p].found \ run[p].todo
  /\ run[p].pc = "stage" =>
       \A f \in run[p].cur : docs[f].active /\ docs[f].hash = Indexed[run[p].text]

\* What p has staged brings its view of the index, which is the index, in line
\* with the rows.
StagedInv(p) ==
  /\ run[p].snap = fts
  /\ \A f \in File : run[p].staged[f].add # NoHash => run[p].staged[f].del \/ fts[f] = {}
  /\ \A f \in File \ Ahead(p) :
       f \notin lost \/ run[p].staged[f] # NotStaged =>
         Committed(fts[f], run[p].staged[f]) = Expected(f)

OneAtATime ==
  /\ \A p, q \in Proc : Active(p) /\ Active(q) => p = q
  /\ writer # Nobody => Active(writer)

OneEntry == \A f \in File, a, b \in Hash : a \in fts[f] /\ b \in fts[f] => a = b

ExactInv ==
  /\ PassType
  /\ OneAtATime
  /\ \A p \in Proc : Active(p) => SweepInv(p) /\ StagedInv(p)
  /\ OneEntry
  /\ SearchMatchesRows

LEMMA ExactInit == Init => ExactInv
<1> SUFFICES ASSUME Init PROVE ExactInv
  OBVIOUS
<1>1. \A p \in Proc : ~Active(p)
  BY DEF Init, Active, Idle
<1>2. \A f \in File : fts[f] = {} /\ docs[f].active = FALSE
  BY DEF Init, NoDoc
<1> QED
  BY <1>1, <1>2, InitType DEF Init, ExactInv, OneAtATime, OneEntry, SearchMatchesRows

\* Committing nothing leaves the entries as they are.
LEMMA CommitNothing ==
  ASSUME NEW old
  PROVE  Committed(old, NotStaged) = old
  BY DEF Committed, NotStaged

LEMMA StagedType ==
  ASSUME TypeOK, NEW p \in Proc, NEW f \in File
  PROVE  /\ run[p].staged[f] \in Staged
         /\ run[p].staged[f].del \in BOOLEAN /\ run[p].staged[f].add \in Hash \cup {NoHash}
<1>1. run[p].staged \in [File -> Staged]
  BY RunType DEF TypeOK
<1> QED BY <1>1 DEF Staged

\* A step of the one command that runs, which goes on running.
LEMMA ExactFrame ==
  ASSUME ExactInv, PassType', UNCHANGED fts, NEW p \in Proc, Active(p), Active(p)',
         \A q \in Proc \ {p} : run'[q] = run[q],
         writer' \in {writer, p},
         SweepInv(p)', StagedInv(p)'
  PROVE  ExactInv'
<1>1. \A q \in Proc \ {p} : ~Active(q)'
  BY DEF ExactInv, OneAtATime, Active
<1>2. writer \in {p, Nobody}
  BY DEF ExactInv, OneAtATime, PassType, TypeOK
<1>3. OneAtATime'
  BY <1>1, <1>2 DEF OneAtATime
<1>4. OneEntry' /\ SearchMatchesRows'
  BY DEF ExactInv, OneEntry, SearchMatchesRows
<1> QED BY <1>1, <1>3, <1>4 DEF ExactInv

\* A step of the one command that runs, which ends it.
LEMMA ExactEnd ==
  ASSUME ExactInv, PassType', NEW p \in Proc, Active(p), ~Active(p)',
         \A q \in Proc \ {p} : run'[q] = run[q],
         writer' = IF writer = p THEN Nobody ELSE writer,
         OneEntry', \A f \in File \ lost' : fts'[f] = Expected(f)'
  PROVE  ExactInv'
<1>1. \A q \in Proc : ~Active(q)'
  BY DEF ExactInv, OneAtATime, Active
<1>2. writer' = Nobody
  BY DEF ExactInv, OneAtATime, PassType, TypeOK
<1>3. OneAtATime' /\ SearchMatchesRows'
  BY <1>1, <1>2 DEF OneAtATime, SearchMatchesRows, Expected
<1> QED BY <1>1, <1>3 DEF ExactInv

LEMMA ExactInvStep ==
  ASSUME Locked = Proc, ExactInv, [Next]_vars
  PROVE  ExactInv'
<1>0. PassType /\ PassType' /\ TypeOK /\ TypeOK'
  BY TypePreserved DEF ExactInv, PassType
<1> USE <1>0
<1>a. \A p \in Proc : Active(p) => SweepInv(p) /\ StagedInv(p)
  BY DEF ExactInv
<1>b. ASSUME NEW p \in Proc, Active(p) PROVE writer \in {p, Nobody}
  BY <1>b DEF ExactInv, OneAtATime, TypeOK
<1>1. CASE Tick \/ UNCHANGED vars
  <2>1. UNCHANGED <<docs, fts, writer, run, lost>>
    BY <1>1 DEF Tick, vars
  <2>2. ASSUME NEW p \in Proc, Active(p)' PROVE SweepInv(p)' /\ StagedInv(p)'
    <3>1. SweepInv(p) /\ StagedInv(p)
      BY <1>a, <2>1, <2>2 DEF Active
    <3>2. SweepInv(p)'
      BY <2>1, <3>1 DEF SweepInv
    <3>3. StagedInv(p)'
      BY <2>1, <3>1 DEF StagedInv, Ahead, Expected
    <3> QED BY <3>2, <3>3
  <2>3. OneAtATime' /\ OneEntry' /\ SearchMatchesRows'
    BY <2>1 DEF ExactInv, OneAtATime, OneEntry, SearchMatchesRows, Active
  <2> QED BY <2>2, <2>3 DEF ExactInv
<1>2. ASSUME NEW f \in File, (\E t \in Text : Write(f, t)) \/ Delete(f) PROVE ExactInv'
  <2>1. run' = Disturbed /\ UNCHANGED <<docs, fts, writer, lost>>
    BY <1>2 DEF Write, Delete
  <2>2. ASSUME NEW q \in Proc
        PROVE  /\ run'[q].pc = run[q].pc /\ run'[q].snap = run[q].snap
               /\ run'[q].found = run[q].found /\ run'[q].todo = run[q].todo
               /\ run'[q].cur = run[q].cur /\ run'[q].text = run[q].text
               /\ run'[q].gone = run[q].gone /\ run'[q].staged = run[q].staged
    BY <2>1, DisturbStep DEF Fields
  <2>3. ASSUME NEW q \in Proc, Active(q)' PROVE SweepInv(q)' /\ StagedInv(q)'
    <3>1. Active(q) /\ SweepInv(q) /\ StagedInv(q)
      BY <1>a, <2>2, <2>3 DEF Active
    <3>2. SweepInv(q)'
      BY <2>1, <2>2, <3>1 DEF SweepInv
    <3>3. Ahead(q)' = Ahead(q)
      BY <2>2 DEF Ahead
    <3>4. StagedInv(q)'
      BY <2>1, <2>2, <3>1, <3>3 DEF StagedInv, Expected
    <3> QED BY <3>2, <3>4
  <2>4. \A q \in Proc : Active(q)' <=> Active(q)
    BY <2>2 DEF Active
  <2>5. OneAtATime'
    BY <2>1, <2>4 DEF ExactInv, OneAtATime, TypeOK
  <2> QED BY <2>1, <2>3, <2>4, <2>5 DEF ExactInv, OneEntry, SearchMatchesRows
<1>3. ASSUME NEW p \in Proc, Open(p) PROVE ExactInv'
  <2>1. /\ \A q \in Proc : ~Active(q)
        /\ UNCHANGED <<docs, fts, writer, lost>>
    BY <1>3 DEF Open
  <2>2. /\ run'[p].pc = "opened" /\ run'[p].snap = fts
        /\ run'[p].found = {} /\ run'[p].todo = {} /\ run'[p].cur = {}
        /\ run'[p].gone = {} /\ run'[p].staged = [f \in File |-> NotStaged]
    BY <1>3, OpenStep DEF Fields, Idle
  <2>3. ASSUME NEW q \in Proc \ {p} PROVE run'[q].pc = run[q].pc
    BY <1>3, OpenStep DEF Own
  <2>4. SweepInv(p)'
    BY <2>2 DEF SweepInv
  <2>5. StagedInv(p)'
    <3>1. \A f \in File \ lost : fts[f] = Expected(f)
      BY <2>1 DEF ExactInv, SearchMatchesRows, Expected
    <3>2. \A f \in File : Expected(f)' = Expected(f)
      BY <2>1 DEF Expected
    <3>3. NotStaged.add = NoHash
      BY DEF NotStaged
    <3> QED BY <2>1, <2>2, <3>1, <3>2, <3>3, CommitNothing DEF StagedInv
  <2>6. OneAtATime'
    BY <2>1, <2>2, <2>3 DEF ExactInv, OneAtATime, Active, TypeOK
  <2>7. Active(p)' /\ \A q \in Proc \ {p} : ~Active(q)'
    BY <2>1, <2>2, <2>3 DEF Active
  <2>8. OneEntry' /\ SearchMatchesRows'
    BY <2>1, <2>7 DEF ExactInv, OneEntry, SearchMatchesRows
  <2> QED BY <2>4, <2>5, <2>6, <2>7, <2>8 DEF ExactInv
<1>4. ASSUME NEW p \in Proc, Walk(p) PROVE ExactInv'
  <2>1. /\ run[p].pc = "opened" /\ Active(p) /\ run[p].cur = {}
        /\ UNCHANGED <<docs, fts, writer, lost>>
    BY <1>4 DEF Walk, Active, PassType, InHand, WithFile
  <2>2. /\ \A q \in Proc \ {p} : run'[q] = run[q]
        /\ run'[p].pc = "walk" /\ run'[p].todo = run'[p].found
        /\ run'[p].cur = run[p].cur /\ run'[p].snap = run[p].snap
        /\ run'[p].gone = run[p].gone /\ run'[p].staged = run[p].staged
    BY <1>4, WalkStep DEF Own, Fields
  <2>3. SweepInv(p) /\ StagedInv(p)
    BY <1>a, <2>1
  <2>4. SweepInv(p)'
    BY <2>1, <2>2, <2>3 DEF SweepInv
  <2>5. StagedInv(p)'
    BY <2>1, <2>2, <2>3 DEF StagedInv, Ahead, Expected
  <2> QED BY <2>1, <2>2, <2>4, <2>5, ExactFrame DEF Active
<1>5. ASSUME NEW p \in Proc, NEW f \in File, stat_file(p, f) PROVE ExactInv'
  <2>1. /\ run[p].pc = "walk" /\ Active(p) /\ run[p].cur = {} /\ f \in run[p].todo
        /\ UNCHANGED <<docs, fts, writer, lost>>
    BY <1>5 DEF stat_file, Active, PassType, InHand, WithFile
  <2>2. /\ \A q \in Proc \ {p} : run'[q] = run[q]
        /\ \/ run'[p].pc = "walk" /\ run'[p].cur = {}
           \/ run'[p].pc = "read" /\ run'[p].cur = {f}
        /\ run'[p].todo = run[p].todo \ {f}
        /\ run'[p].found = run[p].found /\ run'[p].snap = run[p].snap
        /\ run'[p].gone = run[p].gone /\ run'[p].staged = run[p].staged
    BY <1>5, SkipStep, StatStep DEF Own, Fields
  <2>3. SweepInv(p) /\ StagedInv(p)
    BY <1>a, <2>1
  <2>4. SweepInv(p)'
    BY <2>1, <2>2, <2>3 DEF SweepInv
  <2>5. StagedInv(p)'
    BY <2>1, <2>2, <2>3 DEF StagedInv, Ahead, Expected
  <2> QED BY <2>1, <2>2, <2>4, <2>5, ExactFrame DEF Active
<1>6. ASSUME NEW p \in Proc, NEW f \in File, prepare(p, f) PROVE ExactInv'
  <2>1. /\ run[p].pc = "read" /\ Active(p)
        /\ UNCHANGED <<docs, fts, writer, lost>>
    BY <1>6 DEF prepare, Active
  <2>2. /\ \A q \in Proc \ {p} : run'[q] = run[q]
        /\ run'[p].pc = "index" /\ run'[p].cur = run[p].cur /\ run'[p].todo = run[p].todo
        /\ run'[p].found = run[p].found /\ run'[p].snap = run[p].snap
        /\ run'[p].gone = run[p].gone /\ run'[p].staged = run[p].staged
    BY <1>6, ReadStep DEF Own, Fields
  <2>3. SweepInv(p) /\ StagedInv(p)
    BY <1>a, <2>1
  <2>4. SweepInv(p)'
    BY <2>1, <2>2, <2>3 DEF SweepInv
  <2>5. StagedInv(p)'
    BY <2>1, <2>2, <2>3 DEF StagedInv, Ahead, Expected
  <2> QED BY <2>1, <2>2, <2>4, <2>5, ExactFrame DEF Active
<1>7. ASSUME NEW p \in Proc, NEW f \in File, prepare_fails(p, f) PROVE ExactInv'
  <2>1. /\ run[p].pc = "read" /\ Active(p)
        /\ UNCHANGED <<docs, fts, writer, lost>>
    BY <1>7 DEF prepare_fails, Active
  <2>2. /\ \A q \in Proc \ {p} : run'[q] = run[q]
        /\ run'[p].pc = "walk" /\ run'[p].cur = {} /\ run'[p].todo = run[p].todo
        /\ run'[p].found = run[p].found /\ run'[p].snap = run[p].snap
        /\ run'[p].gone = run[p].gone /\ run'[p].staged = run[p].staged
    BY <1>7, SetAsideStep DEF Own, Fields
  <2>3. SweepInv(p) /\ StagedInv(p)
    BY <1>a, <2>1
  <2>4. SweepInv(p)'
    BY <2>1, <2>2, <2>3 DEF SweepInv
  <2>5. StagedInv(p)'
    BY <2>1, <2>2, <2>3 DEF StagedInv, Ahead, Expected
  <2> QED BY <2>1, <2>2, <2>4, <2>5, ExactFrame DEF Active
<1>8. ASSUME NEW p \in Proc, NEW f \in File, index_document(p, f) PROVE ExactInv'
  <2>1. /\ run[p].pc = "index" /\ Active(p) /\ run[p].cur = {f} /\ run[p].text \in Text
        /\ UNCHANGED <<fts, writer, lost>>
    BY <1>8 DEF index_document, Active, PassType, InHand, WithText
  <2>2. /\ \A q \in Proc \ {p} : run'[q] = run[q]
        /\ run'[p].pc = IF docs[f].hash = Indexed[run[p].text] THEN "record" ELSE "stage"
        /\ run'[p].cur = run[p].cur /\ run'[p].todo = run[p].todo
        /\ run'[p].found = run[p].found /\ run'[p].snap = run[p].snap
        /\ run'[p].gone = run[p].gone /\ run'[p].staged = run[p].staged
        /\ run'[p].text = run[p].text
    BY <1>8, IndexStep DEF Own, Fields
  <2>3. SweepInv(p) /\ StagedInv(p)
    BY <1>a, <2>1
  <2>4. /\ \A g \in File \ {f} : docs'[g] = docs[g]
        /\ docs'[f].hash = Indexed[run[p].text]
        /\ docs[f].hash = Indexed[run[p].text] => docs'[f].active = docs[f].active
        /\ docs[f].hash # Indexed[run[p].text] => docs'[f].active = TRUE
    BY <1>8, <2>1, IndexRow
  <2>5. \A g \in File \ {f} : Expected(g)' = Expected(g)
    BY <2>4 DEF Expected
  <2>6. run[p].gone = {}
    BY <2>1, <2>3 DEF SweepInv
  <2>7. SweepInv(p)'
    BY <2>1, <2>2, <2>3, <2>4, <2>6 DEF SweepInv
  <2>8. StagedInv(p)'
    <3>1. CASE docs[f].hash = Indexed[run[p].text]
      <4>1. Ahead(p) = {} /\ Ahead(p)' = {}
        BY <2>1, <2>2, <2>6, <3>1 DEF Ahead
      <4>2. \A g \in File : Expected(g)' = Expected(g)
        BY <2>4, <2>5, <3>1 DEF Expected
      <4> QED BY <2>1, <2>2, <2>3, <4>1, <4>2 DEF StagedInv
    <3>2. CASE docs[f].hash # Indexed[run[p].text]
      <4>1. Ahead(p) = {} /\ Ahead(p)' = {f}
        BY <2>1, <2>2, <2>6, <3>2 DEF Ahead
      <4> QED BY <2>1, <2>2, <2>3, <2>5, <4>1 DEF StagedInv
    <3> QED BY <3>1, <3>2
  <2> QED BY <2>1, <2>2, <2>7, <2>8, ExactFrame DEF Active
<1>9. ASSUME NEW p \in Proc, NEW f \in File, add_document(p, f) PROVE ExactInv'
  <2> DEFINE st == [del |-> delete_by_filepath(p, f), add |-> Indexed[run[p].text]]
  <2>1. /\ run[p].pc = "stage" /\ Active(p) /\ run[p].cur = {f} /\ run[p].text \in Text
        /\ writer' = p /\ UNCHANGED <<docs, fts, lost>>
    BY <1>9 DEF add_document, Active, PassType, InHand, WithText
  <2>2. /\ \A q \in Proc \ {p} : run'[q] = run[q]
        /\ run'[p].pc = "record" /\ run'[p].cur = run[p].cur /\ run'[p].todo = run[p].todo
        /\ run'[p].found = run[p].found /\ run'[p].snap = run[p].snap
        /\ run'[p].gone = run[p].gone
    BY <1>9, <2>1, StageStep DEF Own, Fields
  <2>3. run'[p].staged[f] = st /\ \A g \in File \ {f} : run'[p].staged[g] = run[p].staged[g]
    <3>1. run'[p].staged = [run[p].staged EXCEPT ![f] = st]
      BY <1>9, <2>1, StageStep
    <3> HIDE DEF st
    <3> QED BY <3>1, RunType DEF TypeOK
  <2>4. SweepInv(p) /\ StagedInv(p)
    BY <1>a, <2>1
  <2>5. run[p].gone = {} /\ f \in run[p].found \ run[p].todo
    BY <2>1, <2>4 DEF SweepInv
  <2>6. /\ Indexed[run[p].text] # NoHash
        /\ docs[f].active /\ docs[f].hash = Indexed[run[p].text]
        /\ run[p].snap = fts
    BY <2>1, <2>4, IndexedType, AbsentType DEF SweepInv, StagedInv
  <2>7. Committed(fts[f], st) = Expected(f) /\ (st.del \/ fts[f] = {})
    BY <2>6 DEF Committed, Expected, delete_by_filepath
  <2> HIDE DEF st
  <2>8. SweepInv(p)'
    BY <2>1, <2>2, <2>3, <2>4, <2>5 DEF SweepInv
  <2>9. StagedInv(p)'
    <3>1. Ahead(p) = {f} /\ Ahead(p)' = {}
      BY <2>1, <2>2, <2>5 DEF Ahead
    <3>2. \A g \in File : Expected(g)' = Expected(g)
      BY <2>1 DEF Expected
    <3> QED BY <2>1, <2>2, <2>3, <2>4, <2>7, <3>1, <3>2 DEF StagedInv
  <2> QED BY <2>1, <2>2, <2>8, <2>9, ExactFrame DEF Active
<1>10. ASSUME NEW p \in Proc, NEW f \in File, add_document_fails(p, f) PROVE ExactInv'
  \* The writer lock is never another's.
  BY <1>b, <1>10 DEF add_document_fails, Active
<1>11. ASSUME NEW p \in Proc, NEW f \in File, set_document_stat(p, f) PROVE ExactInv'
  <2>1. /\ run[p].pc = "record" /\ Active(p) /\ run[p].cur = {f}
        /\ UNCHANGED <<fts, writer, lost>>
    BY <1>11 DEF set_document_stat, Active
  <2>2. /\ \A q \in Proc \ {p} : run'[q] = run[q]
        /\ run'[p].pc = "walk" /\ run'[p].cur = {} /\ run'[p].todo = run[p].todo
        /\ run'[p].found = run[p].found /\ run'[p].snap = run[p].snap
        /\ run'[p].gone = run[p].gone /\ run'[p].staged = run[p].staged
    BY <1>11, RecordStep DEF Own, Fields
  <2>3. SweepInv(p) /\ StagedInv(p)
    BY <1>a, <2>1
  <2>4. \A g \in File : docs'[g].active = docs[g].active /\ docs'[g].hash = docs[g].hash
    BY <1>11, RecordRow
  <2>5. SweepInv(p)'
    BY <2>1, <2>2, <2>3, <2>4 DEF SweepInv
  <2>6. StagedInv(p)'
    <3>1. Ahead(p)' = Ahead(p)
      BY <2>1, <2>2 DEF Ahead
    <3>2. \A g \in File : Expected(g)' = Expected(g)
      BY <2>4 DEF Expected
    <3> QED BY <2>1, <2>2, <2>3, <3>1, <3>2 DEF StagedInv
  <2> QED BY <2>1, <2>2, <2>5, <2>6, ExactFrame DEF Active
<1>12. ASSUME NEW p \in Proc, Interrupt(p) \/ NoPrune(p) PROVE ExactInv'
  <2>1. /\ run[p].pc = "walk" /\ Active(p)
        /\ UNCHANGED <<docs, fts, writer, lost>>
    BY <1>12 DEF Interrupt, NoPrune, Active
  <2>2. /\ \A q \in Proc \ {p} : run'[q] = run[q]
        /\ run'[p].pc = "flush" /\ run'[p].cur = run[p].cur /\ run'[p].todo = run[p].todo
        /\ run'[p].found = run[p].found /\ run'[p].snap = run[p].snap
        /\ run'[p].gone = run[p].gone /\ run'[p].staged = run[p].staged
    BY <1>12, InterruptStep, NoPruneStep DEF Own, Fields
  <2>3. SweepInv(p) /\ StagedInv(p)
    BY <1>a, <2>1
  <2>4. SweepInv(p)'
    BY <2>1, <2>2, <2>3 DEF SweepInv
  <2>5. StagedInv(p)'
    BY <2>1, <2>2, <2>3 DEF StagedInv, Ahead, Expected
  <2> QED BY <2>1, <2>2, <2>4, <2>5, ExactFrame DEF Active
<1>13. ASSUME NEW p \in Proc, deactivate_missing_documents(p) PROVE ExactInv'
  <2>1. /\ run[p].pc = "walk" /\ Active(p) /\ run[p].cur = {}
        /\ UNCHANGED <<fts, writer, lost>>
    BY <1>13 DEF deactivate_missing_documents, Active, PassType, InHand, WithFile
  <2>2. /\ \A q \in Proc \ {p} : run'[q] = run[q]
        /\ run'[p].pc = "sweep" /\ run'[p].cur = run[p].cur /\ run'[p].todo = run[p].todo
        /\ run'[p].gone = {f \in File : docs[f].active /\ f \notin run[p].found}
        /\ run'[p].found = run[p].found /\ run'[p].snap = run[p].snap
        /\ run'[p].staged = run[p].staged
    BY <1>13, DeactivateStep DEF Own, Fields
  <2>3. SweepInv(p) /\ StagedInv(p)
    BY <1>a, <2>1
  <2>4. \A f \in File : /\ docs'[f].hash = docs[f].hash
                        /\ f \in run[p].found => docs'[f].active = docs[f].active
                        /\ f \notin run[p].found => docs'[f].active = FALSE
    BY <1>13, DeactivateRows
  <2>5. SweepInv(p)'
    BY <2>1, <2>2, <2>3, <2>4 DEF SweepInv
  <2>6. StagedInv(p)'
    <3>1. Ahead(p) = {} /\ Ahead(p)' = run'[p].gone
      BY <2>1, <2>2, <2>3 DEF Ahead, SweepInv
    <3>2. \A f \in File \ run'[p].gone : Expected(f)' = Expected(f)
      BY <2>2, <2>4 DEF Expected
    <3> QED BY <2>1, <2>2, <2>3, <3>1, <3>2 DEF StagedInv
  <2> QED BY <2>1, <2>2, <2>5, <2>6, ExactFrame DEF Active
<1>14. ASSUME NEW p \in Proc, NEW f \in File, remove_from_fts(p, f) PROVE ExactInv'
  <2>1. /\ run[p].pc = "sweep" /\ Active(p) /\ f \in run[p].gone
        /\ writer' \in {writer, p} /\ UNCHANGED <<docs, fts>>
    BY <1>14 DEF remove_from_fts, Active
  <2>2. SweepInv(p) /\ StagedInv(p) /\ writer \in {p, Nobody}
    BY <1>a, <1>b, <2>1
  <2>3. UNCHANGED lost
    BY <1>14, <2>2 DEF remove_from_fts
  <2>4. Own(p, {"gone", "staged"}) /\ run'[p].gone = run[p].gone \ {f}
    BY <1>14, RemoveStep, LeaveStep DEF Own
  <2>5. /\ \A q \in Proc \ {p} : run'[q] = run[q]
        /\ run'[p].pc = run[p].pc /\ run'[p].cur = run[p].cur /\ run'[p].todo = run[p].todo
        /\ run'[p].found = run[p].found /\ run'[p].snap = run[p].snap
    BY <2>4 DEF Own, Fields
  <2>6. /\ \A g \in File \ {f} : run'[p].staged[g] = run[p].staged[g]
        /\ run'[p].staged[f].add = NoHash
        /\ Committed(fts[f], run'[p].staged[f]) = {}
    <3>1. CASE delete_by_filepath(p, f)
      <4>1. run'[p].staged = [run[p].staged EXCEPT ![f] = [del |-> TRUE, add |-> NoHash]]
        BY <1>14, <2>2, <3>1, RemoveStep
      <4> QED BY <4>1, RunType DEF TypeOK, Committed
    <3>2. CASE ~delete_by_filepath(p, f)
      <4>1. run'[p].staged = run[p].staged
        BY <1>14, <3>2, LeaveStep DEF Own, Fields
      <4>2. run[p].staged[f] = NotStaged /\ fts[f] = {}
        BY <2>1, <2>2, <3>2 DEF SweepInv, StagedInv, delete_by_filepath
      <4>3. run'[p].staged[f].add = NoHash
        BY <4>1, <4>2 DEF NotStaged
      <4>4. Committed(fts[f], run'[p].staged[f]) = {}
        BY <4>1, <4>2, CommitNothing
      <4> QED BY <4>1, <4>3, <4>4
    <3> QED BY <3>1, <3>2
  <2>7. Expected(f) = {} /\ \A g \in File : Expected(g)' = Expected(g)
    BY <2>1, <2>2 DEF SweepInv, Expected
  <2>8. SweepInv(p)'
    BY <2>1, <2>2, <2>4, <2>5, <2>6, RunType DEF SweepInv, TypeOK
  <2>9. StagedInv(p)'
    <3>1. Ahead(p)' = Ahead(p) \ {f}
      BY <2>1, <2>4, <2>5 DEF Ahead
    <3>2. ASSUME NEW g \in File
          PROVE  run'[p].staged[g].add # NoHash => run'[p].staged[g].del \/ fts[g] = {}
      BY <2>2, <2>6 DEF StagedInv
    <3>3. ASSUME NEW g \in File \ Ahead(p)', g \notin lost \/ run'[p].staged[g] # NotStaged
          PROVE  Committed(fts[g], run'[p].staged[g]) = Expected(g)
      BY <2>2, <2>6, <2>7, <3>1, <3>3 DEF StagedInv
    <3> QED BY <2>1, <2>2, <2>3, <2>5, <2>7, <3>2, <3>3 DEF StagedInv
  <2> QED BY <2>1, <2>5, <2>8, <2>9, ExactFrame DEF Active
<1>15. ASSUME NEW p \in Proc, flush(p) PROVE ExactInv'
  <2>1. /\ Active(p) /\ UNCHANGED docs
        /\ fts' = [f \in File |-> Committed(fts[f], run[p].staged[f])]
        /\ lost' = lost \ {f \in File : run[p].staged[f] # NotStaged}
        /\ writer' = IF writer = p THEN Nobody ELSE writer
    BY <1>15 DEF flush, Active
  <2>2. run'[p].pc = "idle" /\ \A q \in Proc \ {p} : run'[q] = run[q]
    BY <1>15, EndStep DEF Own, Idle
  <2>3. SweepInv(p) /\ StagedInv(p) /\ Ahead(p) = {}
    BY <1>a, <1>15, <2>1 DEF flush, SweepInv, Ahead
  <2>4. \A f \in File \ lost' : fts'[f] = Expected(f)'
    BY <2>1, <2>3 DEF StagedInv, Expected
  <2>5. OneEntry'
    <3> SUFFICES ASSUME NEW f \in File, NEW a \in Hash, NEW b \in Hash,
                        a \in Committed(fts[f], run[p].staged[f]),
                        b \in Committed(fts[f], run[p].staged[f])
                 PROVE  a = b
      BY <2>1 DEF OneEntry
    <3>1. a \in fts[f] /\ b \in fts[f] => a = b
      BY DEF ExactInv, OneEntry
    <3>2. run[p].staged[f].add # NoHash => run[p].staged[f].del \/ fts[f] = {}
      BY <2>3 DEF StagedInv
    <3> QED BY <3>1, <3>2 DEF Committed
  <2> QED BY <2>1, <2>2, <2>4, <2>5, ExactEnd DEF Active
<1>16. ASSUME NEW p \in Proc, Crash(p) PROVE ExactInv'
  <2>1. /\ Active(p) /\ UNCHANGED <<docs, fts>>
        /\ lost' = lost \cup {f \in File : run[p].staged[f] # NotStaged} \cup Ahead(p)
        /\ writer' = IF writer = p THEN Nobody ELSE writer
    BY <1>16 DEF Crash, Ahead
  <2>2. run'[p].pc = "idle" /\ \A q \in Proc \ {p} : run'[q] = run[q]
    BY <1>16, EndStep DEF Own, Idle
  <2>3. StagedInv(p) /\ OneEntry'
    BY <1>a, <2>1 DEF ExactInv, OneEntry
  <2>4. \A f \in File \ lost' : fts'[f] = Expected(f)'
    BY <2>1, <2>3, CommitNothing DEF StagedInv, Expected
  <2> QED BY <2>1, <2>2, <2>3, <2>4, ExactEnd DEF Active
<1> QED
  BY <1>1, <1>2, <1>3, <1>4, <1>5, <1>6, <1>7, <1>8, <1>9, <1>10, <1>11, <1>12,
     <1>13, <1>14, <1>15, <1>16 DEF Next, Pass, OneFile

-----------------------------------------------------------------------------
\* Documents, files and commands stay in their types.
THEOREM PassTypeCorrect == Spec => []TypeOK
<1>1. PassType /\ [Next]_vars => PassType'
  BY TypePreserved
<1>2. PassType => TypeOK
  BY DEF PassType
<1> QED BY <1>1, <1>2, InitType, PTL DEF Spec

\* The stat check hides no edit, whatever the order of edits, ticks, passes,
\* `collection add` and kills, if a file is indexed within a tick of its stat.
THEOREM StatsAreCurrent ==
  ASSUME ~Slow
  PROVE  Spec => []StatMatchIsCurrent
<1>1. StatInv /\ [Next]_vars => StatInv'
  BY StatInvStep
<1>2. StatInv => StatMatchIsCurrent
  BY DEF StatInv, StatIsOfRow, StatMatchIsCurrent
<1> QED BY <1>1, <1>2, StatInit, PTL DEF Spec

\* After a pass that reports no problem, while the files stay as they were,
\* every file is indexed as it is and every active document has its file.  Any
\* number of `collection add`s may run before, during and after the pass: the
\* only rows that differ are those one of them has written since the pass began
\* from a text older than the file.
THEOREM CleanPassesConverge ==
  ASSUME ~Slow
  PROVE  Spec => []CleanPassConverges
<1>1. CleanInv /\ [Next]_vars => CleanInv'
  BY CleanInvStep
<1>2. CleanInv => CleanPassConverges
  BY DEF CleanInv, Settled, CleanPassConverges
<1> QED BY <1>1, <1>2, CleanInit, PTL DEF Spec

\* What full-text search answers from is exact while no command runs: one entry
\* per active document under its current hash and none elsewhere, but where a
\* kill came between the row and its entry.  Every command has to hold the index
\* lock; `collection add`, which does not, leaves two entries under a path.
THEOREM IndexMatchesDocuments ==
  ASSUME Locked = Proc
  PROVE  Spec => []SearchIsExact
<1>1. ExactInv /\ [Next]_vars => ExactInv'
  BY ExactInvStep
<1>2. ExactInv => SearchIsExact
  <2> SUFFICES ASSUME ExactInv, NEW f \in File PROVE Cardinality(fts[f]) <= 1
    BY DEF ExactInv, PassType, SearchIsExact, OneEntryPerPath
  <2>1. CASE fts[f] = {}
    BY <2>1, FS_EmptySet
  <2>2. CASE fts[f] # {}
    <3>1. PICK a \in Hash : a \in fts[f]
      BY <2>2 DEF ExactInv, PassType, TypeOK
    <3>2. fts[f] = {a}
      BY <3>1 DEF ExactInv, OneEntry, PassType, TypeOK
    <3>3. Cardinality(fts[f]) = 1
      BY <3>2, FS_Singleton, Zenon
    <3> QED BY <3>3
  <2> QED BY <2>1, <2>2
<1> QED BY <1>1, <1>2, ExactInit, PTL DEF Spec
=============================================================================
