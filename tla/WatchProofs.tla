----------------------------- MODULE WatchProofs -----------------------------
(* Proofs about Watch: for every set of collections and texts, every        *)
(* interval and every number of commands and disturbances, a fingerprint    *)
(* the watch remembers is that of files whose text is indexed, a pending    *)
(* full-text rebuild is not forgotten, a refresh that says so is current,   *)
(* and no hook is left behind by an update that is not killed.              *)
EXTENDS Watch, FiniteSetTheorems, TLAPS

Stages == {"off", "loop", "hook", "grace", "pass", "certify", "recreate", "rebuild", "version"}
Outcomes == {"none", "Refreshed", "Locked", "RebuildPending", "TimedOut"}

File == [text : Text, stamp : Stamp, fresh : BOOLEAN, readable : BOOLEAN, present : BOOLEAN]
Row  == [text : Text \cup {NoText}, stat : Stamp \cup {NoStat}]
Hand == [coll : SUBSET Coll, stat : Stamp \cup {NoStat}, fresh : BOOLEAN, text : Text \cup {NoText}]

Watcher == [pc : {"off", "tick", "due", "try", "pass", "sleep"},
            seen : [Coll -> Stamp \cup {0, NoStat}],
            due : UNION {[S -> Due] : S \in SUBSET Coll},
            deferrals : Nat, wait : Nat]
Update  == [pc : Stages, scope : SUBSET Coll, todo : SUBSET Coll, cur : SUBSET Coll, clean : BOOLEAN]
Refresh == [pc : {"off", "list", "lock", "pass"}, todo : SUBSET Coll, asked : SUBSET Coll,
            same : SUBSET Coll, outcome : Outcomes]

\* Every edit may take a stamp further, and there are only so many.
StampsLast == \A c \in Coll : disk[c].stamp + left["trouble"] <= 1 + Budget["trouble"]

\* Which file is in hand, with its stat and its text.
Held(c) == hand.coll = {c} /\ hand.stat \in Stamp /\ hand.text \in Text

WatchType ==
  /\ TypeOK
  /\ watch \in Watcher
  /\ StampsLast
  /\ hand # NoHand => \E c \in Coll : Held(c)

-----------------------------------------------------------------------------
(* The values the steps build.                                             *)

LEMMA StampType == /\ Stamp \subseteq Nat \ {0} /\ 1 \in Stamp
                   /\ Budget["trouble"] \in Nat /\ Budget["command"] \in Nat
                   /\ Stamp = 1..(1 + Budget["trouble"])
  BY BudgetType DEF Stamp, Kinds

LEMMA PowerType == \A k \in Nat : 2^k \in Nat
<1> TAKE k \in Nat
<1>1. IsFiniteSet(1..k) /\ Cardinality(1..k) = k
  <2>1. IsFiniteSet(1..k) /\ Cardinality(1..k) = IF 1 > k THEN 0 ELSE k - 1 + 1
    BY FS_Interval
  <2> QED BY <2>1
<1>2. IsFiniteSet(SUBSET (1..k)) /\ Cardinality(SUBSET (1..k)) = 2^k
  BY <1>1, FS_SUBSET
<1> QED BY <1>2, FS_CardinalityType

LEMMA BackoffType == \A n \in Nat : backoff(n) \in Nat
<1> TAKE n \in Nat
<1>1. Doubled(n) \in Nat
  <2>1. CASE n <= 1
    BY <2>1, WaitType DEF Doubled
  <2>2. CASE n > 1
    <3> DEFINE k == IF n - 1 > 5 THEN 5 ELSE n - 1
    <3>1. k \in Nat
      BY <2>2
    <3>2. 2^k \in Nat
      BY <3>1, PowerType
    <3>3. Doubled(n) = Interval * 2^k
      BY <2>2 DEF Doubled
    <3> HIDE DEF k
    <3> DEFINE z == 2^k
    <3>4. z \in Nat /\ Doubled(n) = Interval * z
      BY <3>2, <3>3
    <3> HIDE DEF z
    <3> QED BY <3>4, WaitType
  <2> QED BY <2>1, <2>2
<1> DEFINE d == Doubled(n)
<1>2. d \in Nat /\ backoff(n) = LET most == IF MaxBackoff > Interval THEN MaxBackoff ELSE Interval
                                IN  IF d > most THEN most ELSE d
  BY <1>1 DEF backoff
<1> HIDE DEF d
<1> QED BY <1>2, WaitType

LEMMA NothingDue == /\ <<>> \in UNION {[S -> Due] : S \in SUBSET Coll}
                    /\ DOMAIN <<>> = {}
<1>1. <<>> \in [{} -> Due] /\ DOMAIN <<>> = {}
  OBVIOUS
<1> QED BY <1>1

LEMMA OffType == /\ NoHand \in Hand /\ NoHand.coll = {}
                 /\ WatchOff \in Watcher
                 /\ UpdOff \in Update
                 /\ RefOff \in Refresh
  BY NothingDue DEF NoHand, Hand, WatchOff, Watcher, UpdOff, Update, RefOff, Refresh, Stages, Outcomes

LEMMA WatcherType ==
  ASSUME NEW w \in Watcher
  PROVE  /\ w.pc \in {"off", "tick", "due", "try", "pass", "sleep"}
         /\ w.seen \in [Coll -> Stamp \cup {0, NoStat}]
         /\ w.due \in UNION {[S -> Due] : S \in SUBSET Coll}
         /\ DOMAIN w.due \subseteq Coll /\ \A c \in DOMAIN w.due : w.due[c] \in Due
         /\ w.deferrals \in Nat /\ w.wait \in Nat
  BY DEF Watcher

LEMMA AsleepType ==
  ASSUME NEW w \in Watcher, NEW n \in Nat
  PROVE  Asleep(w, n) \in Watcher
  BY NothingDue DEF Asleep, Watcher

LEMMA DeferType ==
  ASSUME watch \in Watcher
  PROVE  /\ defer \in Watcher
         /\ defer.pc = "sleep" /\ defer.due = <<>> /\ defer.seen = watch.seen
<1> DEFINE d == watch.deferrals
           n == IF d > 0 /\ backoff(d) = backoff(d + 1) THEN d ELSE d + 1
<1>1. d \in Nat
  BY WatcherType
<1>2. n \in Nat
  BY <1>1
<1>3. backoff(n) \in Nat
  BY <1>2, BackoffType
<1>4. Asleep(watch, backoff(n)) \in Watcher
  BY <1>3, AsleepType
<1>5. defer = [Asleep(watch, backoff(n)) EXCEPT !.deferrals = n]
  BY DEF defer
<1> DEFINE w == Asleep(watch, backoff(n))
<1>6. w \in Watcher /\ w.pc = "sleep" /\ w.due = <<>> /\ w.seen = watch.seen
  BY <1>4 DEF Asleep, Watcher
<1> HIDE DEF w, n
<1> QED BY <1>2, <1>5, <1>6 DEF Watcher, w

LEMMA RememberType ==
  ASSUME NEW w \in Watcher, NEW c \in DOMAIN w.due
  PROVE  /\ Remember(w, c) \in Watcher
         /\ Remember(w, c).pc = w.pc
         /\ DOMAIN Remember(w, c).due = DOMAIN w.due \ {c}
         /\ \A d \in DOMAIN w.due \ {c} : Remember(w, c).due[d] = w.due[d]
         /\ \A d \in Coll : Remember(w, c).seen[d] =
              IF d = c /\ w.due[c].settled THEN w.due[c].fp ELSE w.seen[d]
<1> DEFINE due  == [d \in DOMAIN w.due \ {c} |-> w.due[d]]
           seen == [w.seen EXCEPT ![c] = IF w.due[c].settled THEN w.due[c].fp ELSE @]
<1>1. DOMAIN w.due \subseteq Coll /\ \A d \in DOMAIN w.due : w.due[d] \in Due
  BY WatcherType
<1>2. due \in [DOMAIN w.due \ {c} -> Due] /\ DOMAIN w.due \ {c} \in SUBSET Coll
  BY <1>1
<1>3. due \in UNION {[S -> Due] : S \in SUBSET Coll}
  BY <1>2
<1>4. w.due[c].fp \in Stamp \cup {0}
  BY <1>1 DEF Due
<1>5. seen \in [Coll -> Stamp \cup {0, NoStat}]
  BY <1>4, WatcherType
<1>6. Remember(w, c) = [w EXCEPT !.due = due, !.seen = seen]
  BY DEF Remember, Watcher
<1>7. \A d \in Coll : seen[d] = IF d = c /\ w.due[c].settled THEN w.due[c].fp ELSE w.seen[d]
  BY <1>1, WatcherType
<1>8. DOMAIN due = DOMAIN w.due \ {c} /\ \A d \in DOMAIN w.due \ {c} : due[d] = w.due[d]
  OBVIOUS
<1> HIDE DEF due, seen
<1> QED BY <1>3, <1>5, <1>6, <1>7, <1>8 DEF Watcher

-----------------------------------------------------------------------------
(* Type correctness.                                                       *)

\* Types as the proofs use them: what is not a record is left as it is.
LEMMA Typed ==
  WatchType <=> /\ disk \in [Coll -> File] /\ cols \in SUBSET Coll
                /\ idx \in [Coll -> Row] /\ fts \in [Coll -> {"none", "old", "new"}]
                /\ marks \in [split : BOOLEAN, tokenizer : BOOLEAN]
                /\ lock \in Proc \cup {Nobody} /\ hand \in Hand
                /\ watch \in Watcher /\ upd \in Update /\ ref \in Refresh
                /\ sig \in [{"watch", "update"} -> Nat]
                /\ child \in {"none", "running", "ok", "failed", "orphan"}
                /\ unread \in SUBSET Coll /\ left \in [Kinds -> Nat]
                /\ StampsLast
                /\ hand # NoHand => \E c \in Coll : Held(c)
<1>1. watch \in Watcher =>
        /\ watch.pc \in {"off", "tick", "due", "try", "pass", "sleep"}
        /\ watch.seen \in [Coll -> Stamp \cup {0, NoStat}]
        /\ DOMAIN watch.due \subseteq Coll /\ \A c \in DOMAIN watch.due : watch.due[c] \in Due
        /\ watch.deferrals \in Nat /\ watch.wait \in Nat
  BY WatcherType
<1> QED BY <1>1, Zenon DEF WatchType, TypeOK, File, Row, Hand, Update, Refresh, Stages, Outcomes

LEMMA TypedNext ==
  ASSUME disk' \in [Coll -> File], cols' \in SUBSET Coll,
         idx' \in [Coll -> Row], fts' \in [Coll -> {"none", "old", "new"}],
         marks' \in [split : BOOLEAN, tokenizer : BOOLEAN],
         lock' \in Proc \cup {Nobody}, hand' \in Hand,
         watch' \in Watcher, upd' \in Update, ref' \in Refresh,
         sig' \in [{"watch", "update"} -> Nat],
         child' \in {"none", "running", "ok", "failed", "orphan"},
         unread' \in SUBSET Coll, left' \in [Kinds -> Nat],
         StampsLast',
         hand' # NoHand => \E c \in Coll : Held(c)'
  PROVE  WatchType'
<1>1. /\ watch'.pc \in {"off", "tick", "due", "try", "pass", "sleep"}
      /\ watch'.seen \in [Coll -> Stamp \cup {0, NoStat}]
      /\ DOMAIN watch'.due \subseteq Coll /\ \A c \in DOMAIN watch'.due : watch'.due[c] \in Due
      /\ watch'.deferrals \in Nat /\ watch'.wait \in Nat
  BY WatcherType
<1> QED BY <1>1, Zenon DEF WatchType, TypeOK, File, Row, Hand, Update, Refresh, Stages, Outcomes

LEMMA SpendType ==
  ASSUME WatchType, NEW k \in Kinds, Spend(k)
  PROVE  /\ left' \in [Kinds -> Nat]
         /\ left'[k] = left[k] - 1
         /\ \A j \in Kinds \ {k} : left'[j] = left[j]
  BY Typed DEF Spend

LEMMA InitType == Init => WatchType
<1> SUFFICES ASSUME Init PROVE WatchType
  OBVIOUS
<1>1. StampsLast
  BY StampType DEF Init, StampsLast
<1>2. disk \in [Coll -> File]
  <2> DEFINE t == CHOOSE t \in Text : TRUE
  <2>1. t \in Text
    BY TextType
  <2>2. disk = [c \in Coll |-> [text |-> t, stamp |-> 1, fresh |-> TRUE,
                               readable |-> TRUE, present |-> TRUE]]
    BY DEF Init
  <2> HIDE DEF t
  <2> QED BY <2>1, <2>2, StampType DEF File
<1>3. idx \in [Coll -> Row] /\ fts \in [Coll -> {"none", "old", "new"}]
  <2>1. PICK old \in BOOLEAN :
          /\ idx = [c \in Coll |-> [text |-> IF old THEN disk[c].text ELSE NoText, stat |-> NoStat]]
          /\ fts = [c \in Coll |-> IF old THEN "old" ELSE "none"]
    BY DEF Init
  <2> QED BY <2>1, <1>2 DEF Row, File
<1>4. marks \in [split : BOOLEAN, tokenizer : BOOLEAN]
  BY DEF Init
<1>5. watch \in Watcher
  BY OffType DEF Init, Watcher
<1>6. left \in [Kinds -> Nat]
  BY BudgetType DEF Init
<1> QED BY <1>1, <1>2, <1>3, <1>4, <1>5, <1>6, OffType, Typed DEF Init

\* A step that does not touch the files, and spends at most a part of the bounds.
LEMMA StampsKept ==
  ASSUME WatchType, left' \in [Kinds -> Nat], left'["trouble"] <= left["trouble"],
         \A c \in Coll : disk'[c].stamp = disk[c].stamp
  PROVE  StampsLast'
<1>1. \A c \in Coll : disk[c].stamp \in Nat /\ left["trouble"] \in Nat /\ left'["trouble"] \in Nat
  BY Typed, StampType DEF File, Kinds
<1>2. \A c \in Coll : disk[c].stamp + left["trouble"] <= 1 + Budget["trouble"]
  BY DEF WatchType, StampsLast
<1> QED BY <1>1, <1>2, StampType DEF StampsLast

LEMMA EditType ==
  ASSUME WatchType, NEW c \in Coll, NEW t \in Text, Edit(c, t)
  PROVE  WatchType'
<1>1. /\ left["trouble"] > 0 /\ left' \in [Kinds -> Nat]
      /\ left'["trouble"] = left["trouble"] - 1 /\ left["trouble"] \in Nat
  BY SpendType, Typed DEF Edit, Kinds, Spend
<1>2. PICK s \in {disk[c].stamp, disk[c].stamp + 1} :
        disk' = [disk EXCEPT ![c].text = t, ![c].stamp = s, ![c].fresh = TRUE]
  BY DEF Edit
<1>3. \A d \in Coll : disk[d] \in File /\ disk[d].stamp \in Nat \ {0}
                      /\ disk[d].stamp + left["trouble"] <= 1 + Budget["trouble"]
  BY Typed, StampType DEF StampsLast, WatchType, File
<1>4. s \in Nat /\ s >= 1 /\ s + left'["trouble"] <= 1 + Budget["trouble"]
  BY <1>1, <1>3, StampType, SMTT(30)
<1>5. s \in Stamp
  BY <1>1, <1>4, StampType
<1> DEFINE r == [disk[c] EXCEPT !.text = t, !.stamp = s, !.fresh = TRUE]
<1>r. r \in File /\ r.stamp = s
  BY <1>3, <1>5 DEF File
<1>d. disk' = [disk EXCEPT ![c] = r] /\ disk \in [Coll -> File]
  BY <1>2, Typed
<1> HIDE DEF r
<1>6. disk' \in [Coll -> File]
  BY <1>r, <1>d
<1>7. \A d \in Coll : disk'[d].stamp = IF d = c THEN s ELSE disk[d].stamp
  BY <1>r, <1>d
<1>8. StampsLast'
  BY <1>1, <1>3, <1>4, <1>7, StampType, SMTT(30) DEF StampsLast
<1>9. ref' \in Refresh
  BY Typed DEF Edit, Touched, Refresh
<1> QED BY <1>1, <1>6, <1>8, <1>9, Typed, TypedNext DEF Edit, Held

LEMMA AccessType ==
  ASSUME WatchType, NEW c \in Coll, ChangeAccess(c) \/ Age(c)
  PROVE  WatchType'
<1>1. left' \in [Kinds -> Nat] /\ left'["trouble"] <= left["trouble"]
  BY SpendType, Typed DEF ChangeAccess, Age, Kinds
<1>2. PICK r \in File : r.stamp = disk[c].stamp /\ disk' = [disk EXCEPT ![c] = r]
  <2>1. disk[c] \in File
    BY Typed
  <2> DEFINE gone == [disk[c] EXCEPT !.present = ~@]
             shut == [disk[c] EXCEPT !.readable = ~@]
             old  == [disk[c] EXCEPT !.fresh = FALSE]
  <2>2. \A r \in {gone, shut, old} : r \in File /\ r.stamp = disk[c].stamp
    BY <2>1 DEF File
  <2>3. \E r \in {gone, shut, old} : disk' = [disk EXCEPT ![c] = r]
    BY DEF ChangeAccess, Age
  <2> QED BY <2>2, <2>3
<1>d. disk' \in [Coll -> File] /\ \A d \in Coll : disk'[d].stamp = disk[d].stamp
  BY <1>2, Typed
<1>3. StampsLast'
  BY <1>1, <1>d, StampsKept
<1>4. ref' \in Refresh
  BY Typed DEF ChangeAccess, Age, Touched, Refresh
<1> QED BY <1>1, <1>d, <1>3, <1>4, Typed, TypedNext DEF ChangeAccess, Age, Held

\* A step that leaves the files alone.
LEMMA FilesKept ==
  ASSUME WatchType, UNCHANGED disk, UNCHANGED left \/ \E k \in Kinds : Spend(k)
  PROVE  disk' \in [Coll -> File] /\ left' \in [Kinds -> Nat] /\ StampsLast'
<1>1. left' \in [Kinds -> Nat] /\ left'["trouble"] <= left["trouble"]
  BY SpendType, Typed DEF Kinds
<1>2. StampsLast'
  BY <1>1, StampsKept
<1> QED BY <1>1, <1>2, Typed

LEMMA GoneType ==
  ASSUME WatchType, NEW p \in {"watch", "update"}, Gone(p)
  PROVE  /\ lock' \in Proc \cup {Nobody} /\ hand' \in {hand, NoHand}
         /\ watch' \in Watcher /\ upd' \in Update
         /\ child' \in {"none", "running", "ok", "failed", "orphan"}
         /\ sig' \in [{"watch", "update"} -> Nat]
  BY OffType, Typed DEF Gone

LEMMA SignalType ==
  ASSUME WatchType, NEW p \in {"watch", "update"}, on_signal(p) \/ Kill(p)
  PROVE  WatchType'
<1>1. disk' \in [Coll -> File] /\ left' \in [Kinds -> Nat] /\ StampsLast'
  BY FilesKept DEF on_signal, Kill, Kinds
<1>2. /\ lock' \in Proc \cup {Nobody} /\ hand' \in {hand, NoHand}
      /\ watch' \in Watcher /\ upd' \in Update
      /\ child' \in {"none", "running", "ok", "failed", "orphan"}
      /\ sig' \in [{"watch", "update"} -> Nat]
  BY GoneType, Typed DEF on_signal, Kill
<1>3. hand' \in Hand /\ (hand' # NoHand => \E c \in Coll : Held(c)')
  BY <1>2, OffType, Typed DEF Held
<1> QED BY <1>1, <1>2, <1>3, Typed, TypedNext DEF on_signal, Kill

\* What a pass does with a file, whoever makes it.
LEMMA ReadType ==
  ASSUME WatchType, NEW c \in Coll, NEW full \in BOOLEAN, Read(c, full)
  PROVE  hand' \in Hand /\ Held(c)' /\ UNCHANGED <<idx, fts, unread>>
<1>1. disk[c] \in File
  BY Typed
<1> QED BY <1>1 DEF Read, Hand, Held, File

LEMMA LookType ==
  ASSUME WatchType, NEW c \in Coll, NEW full \in BOOLEAN, Look(c, full)
  PROVE  unread' \in SUBSET Coll /\ unread \subseteq unread' /\ UNCHANGED <<idx, fts, hand>>
  BY Typed DEF Look

LEMMA IndexType ==
  ASSUME WatchType, NEW c \in Coll, hand.coll = {c}, Index(c)
  PROVE  /\ idx' \in [Coll -> Row] /\ fts' \in [Coll -> {"none", "old", "new"}]
         /\ unread' = unread \ {c} /\ hand' = NoHand
         /\ Held(c)
         /\ \A d \in Coll \ {c} : idx'[d] = idx[d] /\ fts'[d] = fts[d]
         /\ idx'[c].text = hand.text
         /\ idx'[c].stat = IF hand.fresh THEN NoStat ELSE hand.stat
         /\ fts'[c] = IF idx[c].text = hand.text THEN fts[c] ELSE "new"
<1>1. Held(c)
  <2>1. hand # NoHand
    BY OffType
  <2>2. PICK d \in Coll : Held(d)
    BY <2>1, Typed
  <2> QED BY <2>2 DEF Held
<1> DEFINE r == [text |-> hand.text, stat |-> trusted_stat(hand)]
<1>2. /\ r \in Row /\ r.text = hand.text
      /\ r.stat = IF hand.fresh THEN NoStat ELSE hand.stat
  BY <1>1 DEF Held, Row, trusted_stat
<1>3. idx' = [idx EXCEPT ![c] = r]
  BY DEF Index
<1> HIDE DEF r
<1>4. idx' \in [Coll -> Row] /\ idx'[c] = r /\ \A d \in Coll \ {c} : idx'[d] = idx[d]
  BY <1>2, <1>3, Typed
<1>5. /\ fts' \in [Coll -> {"none", "old", "new"}]
      /\ \A d \in Coll \ {c} : fts'[d] = fts[d]
      /\ fts'[c] = IF idx[c].text = hand.text THEN fts[c] ELSE "new"
  BY Typed DEF Index
<1> QED BY <1>1, <1>2, <1>4, <1>5 DEF Index

\* A pass that has a file in hand, or has had it: what is left to type.
LEMMA PassType ==
  ASSUME WatchType, NEW c \in Coll, NEW full \in BOOLEAN,
         \/ Look(c, full)
         \/ Read(c, full)
         \/ hand.coll = {c} /\ Index(c)
  PROVE  /\ idx' \in [Coll -> Row] /\ fts' \in [Coll -> {"none", "old", "new"}]
         /\ unread' \in SUBSET Coll /\ hand' \in Hand
         /\ hand' # NoHand => \E d \in Coll : Held(d)'
<1>1. CASE Look(c, full)
  BY <1>1, LookType, Typed DEF Held
<1>2. CASE Read(c, full)
  BY <1>2, ReadType, Typed
<1>3. CASE hand.coll = {c} /\ Index(c)
  BY <1>3, IndexType, OffType, Typed
<1> QED BY <1>1, <1>2, <1>3

-----------------------------------------------------------------------------
(* The steps of the watch.                                                 *)

LEMMA TickStep ==
  ASSUME WatchType, tick
  PROVE  /\ watch' \in Watcher /\ watch'.pc # "pass" /\ watch.pc = "tick"
         /\ DOMAIN watch'.due \subseteq cols
         /\ \A c \in DOMAIN watch'.due :
              watch'.due[c].fp = Fingerprint(c) /\ watch'.due[c].settled = Settled(c)
         /\ \A c \in Coll : watch'.seen[c] \in {watch.seen[c], NoStat}
<1> DEFINE seen == [c \in Coll |-> IF c \in cols THEN watch.seen[c] ELSE NoStat]
           due  == {c \in cols : seen[c] # Fingerprint(c)}
           what == [c \in due |-> [fp |-> Fingerprint(c), settled |-> Settled(c)]]
           w    == [watch EXCEPT !.seen = seen]
<1>1. seen \in [Coll -> Stamp \cup {0, NoStat}] /\ \A c \in Coll : seen[c] \in {watch.seen[c], NoStat}
  BY WatcherType, Typed
<1>2. w \in Watcher /\ w.seen = seen /\ w.pc = "tick"
  BY <1>1, Typed DEF Watcher, tick
<1>3. \A c \in Coll : [fp |-> Fingerprint(c), settled |-> Settled(c)] \in Due
  BY Typed, StampType DEF Fingerprint, Settled, Due, File
<1>4. due \subseteq cols /\ due \subseteq Coll
  BY Typed
<1>5. what \in [due -> Due] /\ DOMAIN what = due
  BY <1>3, <1>4
<1>6. what \in UNION {[S -> Due] : S \in SUBSET Coll}
  BY <1>4, <1>5
<1>7. \A c \in due : what[c].fp = Fingerprint(c) /\ what[c].settled = Settled(c)
  OBVIOUS
<1>8. watch' = IF sig["watch"] > 0 THEN WatchOff
               ELSE IF due = {} THEN Asleep(w, Interval)
               ELSE [w EXCEPT !.pc = "due", !.due = what]
  BY DEF tick
<1>9. watch.pc = "tick"
  BY DEF tick
<1> HIDE DEF seen, due, what, w
<1>10. CASE watch' = WatchOff
  BY <1>9, <1>10, OffType, NothingDue DEF WatchOff
<1>11. CASE watch' = Asleep(w, Interval)
  <2>1. Asleep(w, Interval) \in Watcher
    BY <1>2, WaitType, AsleepType
  <2>2. watch'.pc = "sleep" /\ watch'.due = <<>> /\ watch'.seen = w.seen
    BY <1>2, <1>11 DEF Asleep, Watcher
  <2> QED BY <1>1, <1>2, <1>9, <1>11, <2>1, <2>2, NothingDue
<1>12. CASE watch' = [w EXCEPT !.pc = "due", !.due = what]
  <2>1. watch' \in Watcher /\ watch'.pc = "due" /\ watch'.due = what /\ watch'.seen = w.seen
    BY <1>2, <1>6, <1>12 DEF Watcher
  <2> QED BY <1>1, <1>2, <1>4, <1>5, <1>7, <1>9, <2>1
<1> QED BY <1>8, <1>10, <1>11, <1>12

\* The steps that put the watch to sleep, wake it, let it go on or end it.
WatchMoves ==
  CheckRebuild \/ WatchLock \/ WatchPassed \/ sleep_until_signal \/ \E c \in Coll : WatchStops(c)

\* What is remembered is kept or forgotten with everything else; what is due
\* is kept or dropped.
LEMMA MoveStep ==
  ASSUME WatchType, WatchMoves
  PROVE  /\ watch' \in Watcher /\ lock' \in Proc \cup {Nobody}
         /\ watch'.seen = watch.seen \/ watch'.seen = [c \in Coll |-> NoStat]
         /\ watch'.due = watch.due \/ watch'.due = <<>>
         /\ UNCHANGED <<disk, cols, idx, fts, marks, hand, upd, ref, sig, child, unread, left>>
<1>0. watch \in Watcher /\ watch.wait \in Nat
  BY WatcherType, Typed
<1>1. CASE CheckRebuild
  BY <1>0, <1>1, DeferType, Typed DEF CheckRebuild, Watcher
<1>2. CASE WatchLock
  BY <1>0, <1>2, DeferType, Typed DEF WatchLock, Watcher, Proc
<1>3. CASE WatchPassed
  <2>1. Asleep(watch, Interval) \in Watcher
    BY <1>0, WaitType, AsleepType
  <2>2. watch' \in Watcher /\ watch'.seen = watch.seen /\ watch'.due = <<>>
    BY <1>0, <1>3, <2>1 DEF WatchPassed, Asleep, Watcher
  <2> QED BY <1>3, <2>2 DEF WatchPassed
<1>4. CASE sleep_until_signal
  <2>1. \/ watch' = WatchOff
        \/ watch' = [watch EXCEPT !.pc = "tick"]
        \/ watch.wait > 1 /\ watch' = [watch EXCEPT !.wait = @ - 1]
    BY <1>0, <1>4 DEF sleep_until_signal
  <2>2. CASE watch' = WatchOff
    BY <1>4, <2>2, OffType, Typed DEF sleep_until_signal, WatchOff
  <2>3. CASE watch' = [watch EXCEPT !.pc = "tick"]
    BY <1>0, <1>4, <2>3, Typed DEF sleep_until_signal, Watcher
  <2>4. CASE watch.wait > 1 /\ watch' = [watch EXCEPT !.wait = @ - 1]
    <3> DEFINE n == watch.wait - 1
    <3>1. n \in Nat /\ watch' = [watch EXCEPT !.wait = n]
      BY <1>0, <2>4
    <3> HIDE DEF n
    <3>2. watch' \in Watcher /\ watch'.seen = watch.seen /\ watch'.due = watch.due
      BY <1>0, <3>1 DEF Watcher
    <3> QED BY <1>4, <3>2, Typed DEF sleep_until_signal
  <2> QED BY <2>1, <2>2, <2>3, <2>4
<1>5. CASE \E c \in Coll : WatchStops(c)
  BY <1>5, OffType DEF WatchStops, WatchOff
<1> QED BY <1>1, <1>2, <1>3, <1>4, <1>5 DEF WatchMoves

\* The pass of the watch over a file that is due.
LEMMA WatchPassStep ==
  ASSUME WatchType, NEW c \in Coll, WatchLooks(c) \/ (WatchIndexes(c) /\ c \in DOMAIN watch.due)
  PROVE  /\ c \in DOMAIN watch.due /\ watch.pc = "pass"
         /\ watch' \in Watcher
         /\ watch' \in {watch, Remember(watch, c)}
         /\ \/ Look(c, FALSE) /\ watch' = Remember(watch, c)
            \/ Read(c, FALSE) /\ watch' = watch
            \/ hand.coll = {c} /\ Index(c) /\ watch' = Remember(watch, c)
<1>1. c \in DOMAIN watch.due /\ watch \in Watcher
  BY Typed DEF WatchLooks
<1>2. Remember(watch, c) \in Watcher
  BY <1>1, RememberType
<1> QED BY <1>1, <1>2 DEF WatchLooks, WatchIndexes

-----------------------------------------------------------------------------
(* The steps of `rqmd update` and of a refresh.                            *)

UpdateMoves ==
  \/ \E c \in Coll : NextCollection(c)
  \/ UpdateStops \/ run_hook \/ HookTimeout \/ stop_after_grace
  \/ UpdateCertifies \/ Recreate \/ rebuild \/ SetVersion

\* What does not read a file leaves the documents and the file in hand alone.
LEMMA UpdateMoveStep ==
  ASSUME WatchType, UpdateMoves
  PROVE  /\ upd' \in Update /\ lock' \in {lock, Nobody}
         /\ fts' \in [Coll -> {"none", "old", "new"}]
         /\ marks' \in [split : BOOLEAN, tokenizer : BOOLEAN]
         /\ sig' \in [{"watch", "update"} -> Nat]
         /\ child' \in {"none", "running", "ok", "failed", "orphan"}
         /\ unread' \in SUBSET Coll /\ unread \subseteq unread'
         /\ UNCHANGED <<disk, cols, idx, hand, watch, ref, left>>
<1>0. upd \in Update /\ UpdOff \in Update
  BY OffType, Typed
<1>1. CASE \E c \in Coll : NextCollection(c)
  <2> PICK c \in Coll : NextCollection(c)
    BY <1>1
  <2> DEFINE rest == upd.todo \ {c}
             hook == IF c \in Hooked THEN "hook" ELSE "pass"
  <2>1. rest \in SUBSET Coll /\ hook \in Stages /\ {c} \in SUBSET Coll
    BY <1>0 DEF Update, Stages
  <2>2. \/ /\ upd' = [upd EXCEPT !.todo = rest, !.clean = FALSE]
           /\ unread' = unread \cup {c} /\ UNCHANGED child
        \/ /\ upd' = [upd EXCEPT !.todo = rest, !.cur = {c}, !.pc = hook]
           /\ child' = IF c \in Hooked THEN "running" ELSE child
           /\ UNCHANGED unread
    BY DEF NextCollection
  <2> HIDE DEF rest, hook
  <2>3. upd' \in Update
    BY <1>0, <2>1, <2>2 DEF Update
  <2> QED BY <2>2, <2>3, Typed DEF NextCollection
<1>2. CASE UpdateStops \/ stop_after_grace
  BY <1>0, <1>2, Typed DEF UpdateStops, stop_after_grace, UpdateEnds
<1>3. CASE run_hook \/ HookTimeout
  BY <1>0, <1>3, Typed DEF run_hook, HookTimeout, Update, Stages
<1>4. CASE UpdateCertifies
  <2>1. marks' \in [split : BOOLEAN, tokenizer : BOOLEAN]
    BY <1>0, <1>4, Typed DEF UpdateCertifies, raw_split_backfilled, Unscoped, Update
  <2>2. \/ UpdateEnds
        \/ /\ upd' = [upd EXCEPT !.pc = "recreate"]
           /\ UNCHANGED <<disk, cols, idx, fts, lock, hand, watch, ref, sig, unread, left>>
    BY <1>4 DEF UpdateCertifies
  <2>3. UNCHANGED child
    BY <1>4 DEF UpdateCertifies
  <2>4. CASE UpdateEnds
    BY <1>0, <2>1, <2>3, <2>4, Typed DEF UpdateEnds
  <2>5. CASE /\ upd' = [upd EXCEPT !.pc = "recreate"]
             /\ UNCHANGED <<disk, cols, idx, fts, lock, hand, watch, ref, sig, unread, left>>
    BY <1>0, <2>1, <2>3, <2>5, Typed DEF Update, Stages
  <2> QED BY <2>2, <2>4, <2>5
<1>5. CASE Recreate \/ rebuild
  BY <1>0, <1>5, Typed DEF Recreate, rebuild, Update, Stages
<1>6. CASE SetVersion
  BY <1>0, <1>6, Typed DEF SetVersion, UpdateEnds
<1> QED BY <1>1, <1>2, <1>3, <1>4, <1>5, <1>6 DEF UpdateMoves

LEMMA UpdatePassStep ==
  ASSUME WatchType, NEW c \in Coll, NEW full \in BOOLEAN, UpdateLooks(c, full) \/ UpdateIndexes(c)
  PROVE  /\ upd' \in Update /\ upd.pc = "pass"
         /\ upd' = upd \/ upd'.pc = "loop"
         /\ Look(c, full) \/ Read(c, full) \/ (hand.coll = {c} /\ Index(c))
         /\ UNCHANGED <<disk, cols, marks, lock, watch, ref, sig, child, left>>
<1>0. upd \in Update
  BY Typed
<1>1. Unclean(c, full) \in BOOLEAN
  BY Typed DEF Unclean, File
<1> DEFINE clean == upd.clean /\ ~Unclean(c, full)
<1>2. clean \in BOOLEAN
  BY <1>0, <1>1 DEF Update
<1>3. \/ UNCHANGED upd
      \/ upd' = [upd EXCEPT !.pc = "loop", !.cur = {}, !.clean = clean]
      \/ upd' = [upd EXCEPT !.pc = "loop", !.cur = {}]
  BY DEF UpdateLooks, UpdateIndexes
<1> HIDE DEF clean
<1> QED BY <1>0, <1>2, <1>3 DEF UpdateLooks, UpdateIndexes, Update, Stages

RefreshMoves == RefreshList \/ RefreshLock \/ RefreshEnds \/ \E n \in Scope : AskRefresh(n)

LEMMA RefreshMoveStep ==
  ASSUME WatchType, RefreshMoves
  PROVE  /\ ref' \in Refresh /\ lock' \in Proc \cup {Nobody}
         /\ UNCHANGED left \/ Spend("command")
         /\ UNCHANGED <<disk, cols, idx, fts, marks, hand, watch, upd, sig, child, unread>>
<1>0. ref \in Refresh /\ RefOff \in Refresh
  BY OffType, Typed
<1>1. CASE RefreshList
  BY <1>0, <1>1, Typed DEF RefreshList, Refresh, Outcomes
<1>2. CASE RefreshLock
  BY <1>0, <1>2, Typed DEF RefreshLock, Refresh, Outcomes, Proc
<1>3. CASE RefreshEnds
  BY <1>0, <1>3, Typed DEF RefreshEnds, Refresh, Outcomes
<1>4. CASE \E n \in Scope : AskRefresh(n)
  <2> PICK n \in Scope : AskRefresh(n)
    BY <1>4
  <2>1. n \in SUBSET Coll
    BY DEF Scope
  <2>2. ref' \in Refresh
    BY <1>0, <2>1 DEF AskRefresh, Refresh
  <2> QED BY <2>2, Typed DEF AskRefresh
<1> QED BY <1>1, <1>2, <1>3, <1>4 DEF RefreshMoves

LEMMA RefreshPassStep ==
  ASSUME WatchType, NEW c \in Coll, RefreshLooks(c) \/ RefreshIndexes(c)
  PROVE  /\ ref' \in Refresh /\ ref.pc = "pass" /\ ref'.pc = "pass"
         /\ ref'.same = ref.same /\ ref'.asked = ref.asked /\ ref'.outcome = ref.outcome
         /\ \/ Look(c, FALSE) /\ ref'.todo = ref.todo \ {c}
            \/ Read(c, FALSE) /\ ref' = ref
            \/ hand.coll = {c} /\ Index(c) /\ ref'.todo = ref.todo \ {c}
         /\ UNCHANGED <<disk, cols, marks, lock, watch, upd, sig, child, left>>
<1>0. ref \in Refresh /\ ref.todo \ {c} \in SUBSET Coll
  BY Typed DEF Refresh
<1>1. \/ UNCHANGED ref /\ Read(c, FALSE)
      \/ ref' = [ref EXCEPT !.todo = @ \ {c}] /\ (Look(c, FALSE) \/ (hand.coll = {c} /\ Index(c)))
  BY DEF RefreshLooks, RefreshIndexes
<1>2. /\ ref' \in Refresh /\ ref'.pc = ref.pc
      /\ ref'.same = ref.same /\ ref'.asked = ref.asked /\ ref'.outcome = ref.outcome
      /\ \/ Look(c, FALSE) /\ ref'.todo = ref.todo \ {c}
         \/ Read(c, FALSE) /\ ref' = ref
         \/ hand.coll = {c} /\ Index(c) /\ ref'.todo = ref.todo \ {c}
  <2>1. CASE UNCHANGED ref /\ Read(c, FALSE)
    BY <1>0, <2>1
  <2>2. CASE /\ ref' = [ref EXCEPT !.todo = @ \ {c}]
             /\ Look(c, FALSE) \/ (hand.coll = {c} /\ Index(c))
    <3> DEFINE t == ref.todo \ {c}
    <3>1. ref' = [ref EXCEPT !.todo = t] /\ t \in SUBSET Coll
      BY <1>0, <2>2
    <3>2. ref' \in Refresh /\ ref'.pc = ref.pc /\ ref'.todo = t
          /\ ref'.same = ref.same /\ ref'.asked = ref.asked /\ ref'.outcome = ref.outcome
      <4> HIDE DEF t
      <4> QED BY <1>0, <3>1 DEF Refresh
    <3> QED BY <2>2, <3>2
  <2> QED BY <1>1, <2>1, <2>2
<1>3. ref.pc = "pass" /\ UNCHANGED <<disk, cols, marks, lock, watch, upd, sig, child, left>>
  BY DEF RefreshLooks, RefreshIndexes
<1> QED BY <1>2, <1>3

LEMMA RemoveType ==
  ASSUME WatchType, NEW c \in Coll, Remove(c)
  PROVE  WatchType'
<1>1. disk' \in [Coll -> File] /\ left' \in [Kinds -> Nat] /\ StampsLast'
  BY FilesKept DEF Remove, Kinds
<1>2. idx' \in [Coll -> Row]
  BY Typed DEF Remove, Row
<1>3. ref' \in Refresh
  BY Typed DEF Remove, Touched, Refresh
<1> QED BY <1>1, <1>2, <1>3, Typed, TypedNext DEF Remove, Held

LEMMA AddStep ==
  ASSUME WatchType, NEW c \in Coll, Add(c)
  PROVE  /\ idx' \in [Coll -> Row] /\ fts' \in [Coll -> {"none", "old", "new"}]
         /\ unread' \in SUBSET Coll /\ ref' \in Refresh
         /\ \A d \in Coll \ {c} : idx'[d] = idx[d] /\ fts'[d] = fts[d]
         /\ \/ /\ idx'[c].text = disk[c].text
               /\ idx'[c].stat = IF disk[c].fresh THEN NoStat ELSE disk[c].stamp
               /\ fts'[c] = IF idx[c].text = disk[c].text THEN fts[c] ELSE "new"
               /\ unread' = unread \ {c}
            \/ UNCHANGED <<idx, fts>> /\ unread' = unread \cup {c}
<1>1. ref' \in Refresh
  BY Typed DEF Add, Touched, Refresh
<1> DEFINE r == [text |-> disk[c].text,
                 stat |-> trusted_stat([stat |-> disk[c].stamp, fresh |-> disk[c].fresh])]
<1>2. /\ r \in Row /\ r.text = disk[c].text
      /\ r.stat = IF disk[c].fresh THEN NoStat ELSE disk[c].stamp
  BY Typed DEF Row, File, trusted_stat
<1>3. CASE disk[c].readable
  <2>1. idx' = [idx EXCEPT ![c] = r] /\ unread' = unread \ {c}
        /\ fts' = [fts EXCEPT ![c] = IF idx[c].text = disk[c].text THEN @ ELSE "new"]
    BY <1>3 DEF Add
  <2> HIDE DEF r
  <2> QED BY <1>1, <1>2, <2>1, Typed
<1>4. CASE ~disk[c].readable
  BY <1>1, <1>4, Typed DEF Add
<1> QED BY <1>3, <1>4

-----------------------------------------------------------------------------
(* Who has the lock, and whose the file in hand is.                        *)

LockInv ==
  /\ watch.pc = "pass" => lock = "watch"
  /\ upd.pc # "off" => lock = "update"
  /\ ref.pc = "pass" => lock = "refresh"
  /\ hand # NoHand => \/ watch.pc = "pass" /\ hand.coll \subseteq DOMAIN watch.due
                      \/ upd.pc = "pass"
                      \/ ref.pc = "pass"

\* Files, time and the user: what is not a signal or a kill.
Outside ==
  \/ \E c \in Coll : (\E t \in Text : Edit(c, t)) \/ ChangeAccess(c) \/ Remove(c) \/ Add(c) \/ Age(c)
  \/ \E s \in Scope : StartUpdate(s)
  \/ EmbedTakes \/ EmbedEnds \/ HookExits

Ends == \E p \in {"watch", "update"} : on_signal(p) \/ Kill(p)

Passes ==
  \E c \in Coll : \/ WatchLooks(c) \/ WatchIndexes(c)
                  \/ \E full \in BOOLEAN : UpdateLooks(c, full) \/ UpdateIndexes(c)
                  \/ RefreshLooks(c) \/ RefreshIndexes(c)

LEMMA Steps == Next => Outside \/ Ends \/ tick \/ WatchMoves \/ UpdateMoves \/ RefreshMoves \/ Passes
  BY DEF Next, World, WatchStep, UpdateStep, RefreshStep, Aging,
         Outside, Ends, WatchMoves, UpdateMoves, RefreshMoves, Passes

LEMMA DueForIndex ==
  ASSUME WatchType, LockInv, NEW c \in Coll, WatchIndexes(c)
  PROVE  c \in DOMAIN watch.due
<1>1. hand # NoHand /\ hand.coll = {c} /\ watch.pc = "pass"
  BY OffType DEF WatchIndexes
<1>2. upd.pc # "pass" /\ ref.pc # "pass"
  BY <1>1 DEF LockInv
<1> QED BY <1>1, <1>2 DEF LockInv

LEMMA StartType ==
  ASSUME WatchType, NEW s \in Scope, StartUpdate(s)
  PROVE  /\ upd' \in Update /\ lock' \in Proc \cup {Nobody}
         /\ \/ UNCHANGED <<upd, lock>>
            \/ upd.pc = "off" /\ lock = Nobody /\ upd'.pc = "loop" /\ lock' = "update"
<1>1. s \in SUBSET Coll /\ upd \in Update /\ UpdOff \in Update
  BY OffType, Typed DEF Scope
<1>2. s \cap cols \in SUBSET Coll
  BY <1>1
<1>3. CASE UNCHANGED <<upd, lock>>
  BY <1>3, Typed
<1>4. CASE /\ upd' = [UpdOff EXCEPT !.pc = "loop", !.scope = s, !.todo = s \cap cols]
           /\ lock' = "update"
  BY <1>1, <1>2, <1>4 DEF StartUpdate, Update, Stages, Proc
<1> QED BY <1>3, <1>4 DEF StartUpdate

LEMMA TypeStep ==
  ASSUME WatchType, LockInv, [Next]_vars
  PROVE  WatchType'
<1>1. CASE UNCHANGED vars
  <2>1. UNCHANGED <<disk, cols, idx, fts, marks, lock, hand, watch, upd, ref, sig, child, unread, left>>
    BY <1>1 DEF vars
  <2>2. StampsLast'
    BY <2>1, FilesKept
  <2> QED BY <2>1, <2>2, Typed, TypedNext DEF Held
<1>2. CASE Outside
  <2>1. CASE \E c \in Coll : (\E t \in Text : Edit(c, t)) \/ ChangeAccess(c) \/ Remove(c) \/ Age(c)
    BY <2>1, EditType, AccessType, RemoveType
  <2>2. CASE \E c \in Coll : Add(c)
    <3> PICK c \in Coll : Add(c)
      BY <2>2
    <3>1. disk' \in [Coll -> File] /\ left' \in [Kinds -> Nat] /\ StampsLast'
      BY FilesKept DEF Add, Kinds
    <3>2. /\ idx' \in [Coll -> Row] /\ fts' \in [Coll -> {"none", "old", "new"}]
          /\ unread' \in SUBSET Coll /\ ref' \in Refresh
      BY AddStep
    <3> QED BY <3>1, <3>2, Typed, TypedNext DEF Add, Held
  <2>3. CASE \E s \in Scope : StartUpdate(s)
    <3> PICK s \in Scope : StartUpdate(s)
      BY <2>3
    <3>1. disk' \in [Coll -> File] /\ left' \in [Kinds -> Nat] /\ StampsLast'
      BY FilesKept DEF StartUpdate, Kinds
    <3>2. upd' \in Update /\ lock' \in Proc \cup {Nobody}
      BY StartType
    <3> QED BY <3>1, <3>2, Typed, TypedNext DEF StartUpdate, Held
  <2>4. CASE EmbedTakes \/ EmbedEnds \/ HookExits
    <3>1. disk' \in [Coll -> File] /\ left' \in [Kinds -> Nat] /\ StampsLast'
      BY <2>4, FilesKept DEF EmbedTakes, EmbedEnds, HookExits, Kinds
    <3>2. lock' \in Proc \cup {Nobody} /\ child' \in {"none", "running", "ok", "failed", "orphan"}
      BY <2>4, Typed DEF EmbedTakes, EmbedEnds, HookExits, Proc
    <3>3. UNCHANGED <<cols, idx, fts, marks, hand, watch, upd, ref, sig, unread>>
      BY <2>4 DEF EmbedTakes, EmbedEnds, HookExits
    <3> QED BY <3>1, <3>2, <3>3, Typed, TypedNext DEF Held
  <2> QED BY <1>2, <2>1, <2>2, <2>3, <2>4 DEF Outside
<1>3. CASE Ends
  BY <1>3, SignalType DEF Ends
<1>4. CASE tick
  <2>1. StampsLast'
    BY <1>4, FilesKept DEF tick
  <2>2. watch' \in Watcher
    BY <1>4, TickStep
  <2> QED BY <1>4, <2>1, <2>2, Typed, TypedNext DEF tick, Held
<1>5. CASE WatchMoves
  <2>1. /\ watch' \in Watcher /\ lock' \in Proc \cup {Nobody}
        /\ UNCHANGED <<disk, cols, idx, fts, marks, hand, upd, ref, sig, child, unread, left>>
    BY <1>5, MoveStep
  <2>2. StampsLast'
    BY <2>1, FilesKept
  <2> QED BY <2>1, <2>2, Typed, TypedNext DEF Held
<1>6. CASE UpdateMoves
  <2>1. /\ upd' \in Update /\ lock' \in {lock, Nobody}
        /\ fts' \in [Coll -> {"none", "old", "new"}]
        /\ marks' \in [split : BOOLEAN, tokenizer : BOOLEAN]
        /\ sig' \in [{"watch", "update"} -> Nat]
        /\ child' \in {"none", "running", "ok", "failed", "orphan"}
        /\ unread' \in SUBSET Coll
        /\ UNCHANGED <<disk, cols, idx, hand, watch, ref, left>>
    BY <1>6, UpdateMoveStep
  <2>2. StampsLast'
    BY <2>1, FilesKept
  <2> QED BY <2>1, <2>2, Typed, TypedNext DEF Held
<1>7. CASE RefreshMoves
  <2>1. /\ ref' \in Refresh /\ lock' \in Proc \cup {Nobody}
        /\ UNCHANGED left \/ Spend("command")
        /\ UNCHANGED <<disk, cols, idx, fts, marks, hand, watch, upd, sig, child, unread>>
    BY <1>7, RefreshMoveStep
  <2>2. left' \in [Kinds -> Nat] /\ StampsLast'
    BY <2>1, FilesKept DEF Kinds
  <2> QED BY <2>1, <2>2, Typed, TypedNext DEF Held
<1>8. CASE Passes
  <2> PICK c \in Coll, full \in BOOLEAN :
        \/ WatchLooks(c) \/ WatchIndexes(c)
        \/ UpdateLooks(c, full) \/ UpdateIndexes(c)
        \/ RefreshLooks(c) \/ RefreshIndexes(c)
    BY <1>8 DEF Passes
  <2>1. PICK f \in BOOLEAN : Look(c, f) \/ Read(c, f) \/ (hand.coll = {c} /\ Index(c))
    BY DEF WatchLooks, WatchIndexes, UpdateLooks, UpdateIndexes, RefreshLooks, RefreshIndexes
  <2>2. /\ idx' \in [Coll -> Row] /\ fts' \in [Coll -> {"none", "old", "new"}]
        /\ unread' \in SUBSET Coll /\ hand' \in Hand
        /\ hand' # NoHand => \E d \in Coll : Held(d)'
    BY <2>1, PassType
  <2>3. UNCHANGED <<disk, cols, marks, lock, sig, child, left>>
    BY DEF WatchLooks, WatchIndexes, UpdateLooks, UpdateIndexes, RefreshLooks, RefreshIndexes
  <2>4. StampsLast'
    BY <2>3, FilesKept
  <2>5. watch' \in Watcher /\ upd' \in Update /\ ref' \in Refresh
    <3>1. CASE WatchLooks(c) \/ WatchIndexes(c)
      BY <3>1, DueForIndex, WatchPassStep, Typed DEF WatchLooks, WatchIndexes
    <3>2. CASE UpdateLooks(c, full) \/ UpdateIndexes(c)
      BY <3>2, UpdatePassStep, Typed
    <3>3. CASE RefreshLooks(c) \/ RefreshIndexes(c)
      BY <3>3, RefreshPassStep, Typed
    <3> QED BY <3>1, <3>2, <3>3
  <2> QED BY <2>2, <2>3, <2>4, <2>5, Typed, TypedNext
<1> QED BY <1>1, <1>2, <1>3, <1>4, <1>5, <1>6, <1>7, <1>8, Steps

\* A step that leaves the lock, the hand and the stages of its holders alone.
LEMMA LockFrame ==
  ASSUME LockInv, UNCHANGED <<lock, hand>>, watch'.pc = watch.pc, watch'.due = watch.due,
         upd'.pc = upd.pc, ref'.pc = ref.pc
  PROVE  LockInv'
  BY DEF LockInv

LEMMA TouchedKeeps ==
  ASSUME WatchType, NEW c \in Coll, Touched(c)
  PROVE  ref'.pc = ref.pc /\ ref'.todo = ref.todo /\ ref'.outcome = ref.outcome /\ ref'.same = ref.same \ {c}
<1>1. ref \in Refresh
  BY Typed
<1> QED BY <1>1 DEF Touched, Refresh

LEMMA LockInvStep ==
  ASSUME WatchType, LockInv, [Next]_vars
  PROVE  LockInv'
<1>1. CASE UNCHANGED vars
  BY <1>1, LockFrame DEF vars
<1>2. CASE Outside
  <2>1. CASE \E c \in Coll : (\E t \in Text : Edit(c, t)) \/ ChangeAccess(c) \/ Remove(c) \/ Add(c)
    <3> PICK c \in Coll : (\E t \in Text : Edit(c, t)) \/ ChangeAccess(c) \/ Remove(c) \/ Add(c)
      BY <2>1
    <3>1. Touched(c) /\ UNCHANGED <<lock, hand, watch, upd>>
      BY DEF Edit, ChangeAccess, Remove, Add
    <3> QED BY <3>1, TouchedKeeps, LockFrame
  <2>2. CASE (\E c \in Coll : Age(c)) \/ HookExits
    BY <2>2, LockFrame DEF Age, HookExits
  <2>3. CASE \E s \in Scope : StartUpdate(s)
    <3> PICK s \in Scope : StartUpdate(s)
      BY <2>3
    <3>1. UNCHANGED <<hand, watch, ref>>
      BY DEF StartUpdate
    <3>2. \/ UNCHANGED <<upd, lock>>
          \/ upd.pc = "off" /\ lock = Nobody /\ upd'.pc = "loop" /\ lock' = "update"
      BY StartType
    <3> QED BY <3>1, <3>2, AbsentType DEF LockInv, Proc
  <2>4. CASE EmbedTakes \/ EmbedEnds
    BY <2>4, AbsentType DEF EmbedTakes, EmbedEnds, LockInv, Proc
  <2> QED BY <1>2, <2>1, <2>2, <2>3, <2>4 DEF Outside
<1>3. CASE Ends
  <2> PICK p \in {"watch", "update"} : on_signal(p) \/ Kill(p)
    BY <1>3 DEF Ends
  <2>1. UNCHANGED ref /\ (Gone(p) \/ UNCHANGED <<lock, hand, watch, upd>>)
    BY DEF on_signal, Kill
  <2>2. CASE Gone(p)
    BY <2>1, <2>2, AbsentType DEF Gone, LockInv, WatchOff, UpdOff, Proc
  <2> QED BY <2>1, <2>2, LockFrame
<1>4. CASE tick
  <2>1. watch'.pc # "pass" /\ watch.pc = "tick" /\ UNCHANGED <<lock, hand, upd, ref>>
    BY <1>4, TickStep DEF tick
  <2> QED BY <2>1 DEF LockInv
<1>5. CASE WatchMoves
  <2>1. UNCHANGED <<hand, upd, ref>> /\ watch \in Watcher
    BY <1>5, MoveStep, Typed
  <2>2. CASE CheckRebuild
    <3>1. watch.pc = "due" /\ watch'.pc \in {"sleep", "try"} /\ UNCHANGED lock
      BY <2>1, <2>2, DeferType DEF CheckRebuild, Watcher
    <3> QED BY <2>1, <3>1 DEF LockInv
  <2>3. CASE WatchLock
    <3>1. /\ watch.pc = "try"
          /\ \/ watch'.pc = "sleep" /\ UNCHANGED lock
             \/ lock = Nobody /\ watch'.pc = "pass" /\ lock' = "watch"
      BY <2>1, <2>3, DeferType DEF WatchLock, Watcher
    <3> QED BY <2>1, <3>1, AbsentType DEF LockInv, Proc
  <2>4. CASE WatchPassed
    <3>1. watch.pc = "pass" /\ watch'.pc = "sleep" /\ lock' = Nobody /\ DOMAIN watch.due = {}
      BY <2>1, <2>4 DEF WatchPassed, Asleep, Watcher
    <3>2. hand = NoHand
      <4>1. hand # NoHand => hand.coll # {}
        BY Typed DEF Held
      <4>2. upd.pc = "off" /\ ref.pc # "pass"
        BY <3>1 DEF LockInv
      <4> QED BY <3>1, <4>1, <4>2 DEF LockInv
    <3> QED BY <2>1, <3>1, <3>2, AbsentType DEF LockInv, Proc
  <2>5. CASE sleep_until_signal
    <3>1. watch.pc = "sleep" /\ watch'.pc \in {"sleep", "tick", "off"} /\ UNCHANGED lock
      BY <2>1, <2>5 DEF sleep_until_signal, WatchOff, Watcher
    <3> QED BY <2>1, <3>1 DEF LockInv
  <2>6. CASE \E c \in Coll : WatchStops(c)
    BY <2>1, <2>6 DEF WatchStops, WatchOff, LockInv
  <2> QED BY <1>5, <2>2, <2>3, <2>4, <2>5, <2>6 DEF WatchMoves
<1>6. CASE UpdateMoves
  <2>1. upd \in Update /\ upd' \in Update /\ UNCHANGED <<hand, watch, ref>>
    BY <1>6, UpdateMoveStep, Typed
  <2>2. \/ UNCHANGED lock /\ upd.pc # "off" /\ upd.pc # "pass"
        \/ lock' = Nobody /\ upd'.pc = "off" /\ upd.pc # "off" /\ (upd.pc = "pass" => hand = NoHand)
    <3>1. UpdateEnds => lock' = Nobody /\ upd'.pc = "off"
      BY DEF UpdateEnds, UpdOff
    <3>2. CASE (\E c \in Coll : NextCollection(c)) \/ run_hook \/ HookTimeout \/ Recreate \/ rebuild
      BY <3>2 DEF NextCollection, run_hook, HookTimeout, Recreate, rebuild
    <3>3. CASE UpdateStops \/ stop_after_grace \/ SetVersion
      BY <3>1, <3>3 DEF UpdateStops, stop_after_grace, SetVersion
    <3>4. CASE UpdateCertifies
      BY <3>1, <3>4 DEF UpdateCertifies
    <3> QED BY <1>6, <3>2, <3>3, <3>4 DEF UpdateMoves
  <2> QED BY <2>1, <2>2 DEF LockInv
<1>7. CASE RefreshMoves
  <2>1. ref \in Refresh /\ UNCHANGED <<hand, watch, upd>>
    BY <1>7, RefreshMoveStep, Typed
  <2>2. \/ UNCHANGED lock /\ ref.pc # "pass" /\ ref'.pc # "pass"
        \/ lock = Nobody /\ lock' = "refresh" /\ ref'.pc = "pass"
        \/ ref.pc = "pass" /\ hand = NoHand /\ lock' = Nobody /\ ref'.pc = "off"
    BY <1>7, <2>1 DEF RefreshMoves, RefreshList, RefreshLock, RefreshEnds, AskRefresh, RefOff, Refresh
  <2> QED BY <2>1, <2>2, AbsentType DEF LockInv, Proc
<1>8. CASE Passes
  <2> PICK c \in Coll, full \in BOOLEAN :
        \/ WatchLooks(c) \/ WatchIndexes(c)
        \/ UpdateLooks(c, full) \/ UpdateIndexes(c)
        \/ RefreshLooks(c) \/ RefreshIndexes(c)
    BY <1>8 DEF Passes
  <2>1. CASE WatchLooks(c) \/ WatchIndexes(c)
    <3>1. /\ c \in DOMAIN watch.due /\ watch.pc = "pass"
          /\ \/ Look(c, FALSE) /\ watch' = Remember(watch, c)
             \/ Read(c, FALSE) /\ watch' = watch
             \/ hand.coll = {c} /\ Index(c) /\ watch' = Remember(watch, c)
      BY <2>1, DueForIndex, WatchPassStep
    <3>2. UNCHANGED <<lock, upd, ref>> /\ watch \in Watcher
      BY <2>1, Typed DEF WatchLooks, WatchIndexes
    <3>3. watch'.pc = "pass"
      <4>1. Remember(watch, c).pc = watch.pc
        BY <3>1, <3>2, RememberType
      <4> QED BY <3>1, <4>1
    <3>4. hand' = NoHand \/ (hand'.coll = {c} /\ watch' = watch)
      <4>1. CASE WatchLooks(c)
        <5>1. hand = NoHand /\ (Look(c, FALSE) \/ (Read(c, FALSE) /\ UNCHANGED watch))
          BY <4>1 DEF WatchLooks
        <5>2. Look(c, FALSE) => hand' = hand
          BY DEF Look
        <5>3. Read(c, FALSE) => hand'.coll = {c}
          BY DEF Read
        <5> QED BY <5>1, <5>2, <5>3
      <4>2. CASE WatchIndexes(c)
        BY <4>2 DEF WatchIndexes, Index
      <4> QED BY <2>1, <4>1, <4>2
    <3> QED BY <3>1, <3>2, <3>3, <3>4 DEF LockInv
  <2>2. CASE UpdateLooks(c, full) \/ UpdateIndexes(c)
    <3>1. upd.pc = "pass" /\ (upd' = upd \/ upd'.pc = "loop") /\ UNCHANGED <<lock, watch, ref>>
      BY <2>2, UpdatePassStep
    <3>2. upd' = upd \/ hand' = NoHand
      BY <2>2 DEF UpdateLooks, UpdateIndexes, Look, Index
    <3> QED BY <3>1, <3>2 DEF LockInv
  <2>3. CASE RefreshLooks(c) \/ RefreshIndexes(c)
    BY <2>3, RefreshPassStep DEF LockInv
  <2> QED BY <2>1, <2>2, <2>3
<1> QED BY <1>1, <1>2, <1>3, <1>4, <1>5, <1>6, <1>7, <1>8, Steps

-----------------------------------------------------------------------------
(* Hooks.                                                                  *)

\* A hook runs only while the update waits for it.
HookInv ==
  /\ child # "orphan"
  /\ child = "running" => upd.pc \in {"hook", "grace"}

LEMMA HookFrame ==
  ASSUME HookInv, UNCHANGED child, upd'.pc = upd.pc
  PROVE  HookInv'
  BY DEF HookInv

LEMMA HookInvStep ==
  ASSUME WatchType, HookInv, [Next]_vars
  PROVE  HookInv'
<1>1. CASE UNCHANGED vars
  BY <1>1, HookFrame DEF vars
<1>2. CASE Outside
  <2>1. CASE \E s \in Scope : StartUpdate(s)
    <3> PICK s \in Scope : StartUpdate(s)
      BY <2>1
    <3>1. upd'.pc = upd.pc \/ upd.pc = "off"
      BY StartType
    <3> QED BY <3>1 DEF HookInv, StartUpdate
  <2>2. CASE HookExits
    BY <2>2 DEF HookExits, HookInv
  <2>3. CASE ~(\E s \in Scope : StartUpdate(s)) /\ ~HookExits
    <3>1. UNCHANGED <<child, upd>>
      BY <1>2, <2>3 DEF Outside, Edit, ChangeAccess, Remove, Add, Age, EmbedTakes, EmbedEnds
    <3> QED BY <3>1, HookFrame
  <2> QED BY <2>1, <2>2, <2>3
<1>3. CASE Ends
  <2> PICK p \in {"watch", "update"} : on_signal(p) \/ Kill(p)
    BY <1>3 DEF Ends
  <2>1. \/ UNCHANGED <<child, upd>>
        \/ p = "update" /\ upd.pc \notin {"hook", "grace"} /\ Gone(p)
        \/ p = "watch" /\ Gone(p)
    BY DEF on_signal, Kill, ExitOnRepeat
  <2> QED BY <2>1, HookFrame DEF HookInv, Gone
<1>4. CASE tick \/ WatchMoves \/ RefreshMoves
  <2>1. UNCHANGED <<child, upd>>
    BY <1>4, MoveStep, RefreshMoveStep DEF tick
  <2> QED BY <2>1, HookFrame
<1>5. CASE UpdateMoves
  <2>0. upd \in Update
    BY Typed
  <2>1. CASE \E c \in Coll : NextCollection(c)
    <3> PICK c \in Coll : NextCollection(c)
      BY <2>1
    <3>1. upd.pc = "loop" /\ (child' = child \/ (child' = "running" /\ upd'.pc = "hook"))
      BY <2>0 DEF NextCollection, Update
    <3> QED BY <3>1 DEF HookInv
  <2>2. CASE UpdateStops \/ UpdateCertifies \/ Recreate \/ rebuild \/ SetVersion
    <3>1. upd.pc \notin {"hook", "grace"} /\ UNCHANGED child
      BY <2>2 DEF UpdateStops, UpdateCertifies, Recreate, rebuild, SetVersion
    <3> QED BY <3>1 DEF HookInv
  <2>3. CASE run_hook \/ HookTimeout \/ stop_after_grace
    <3>1. child' = "none" \/ (child' = child /\ upd'.pc = "grace")
      BY <2>0, <2>3 DEF run_hook, HookTimeout, stop_after_grace, Update
    <3> QED BY <3>1 DEF HookInv
  <2> QED BY <1>5, <2>1, <2>2, <2>3 DEF UpdateMoves
<1>6. CASE Passes
  <2> PICK c \in Coll, full \in BOOLEAN :
        \/ WatchLooks(c) \/ WatchIndexes(c)
        \/ UpdateLooks(c, full) \/ UpdateIndexes(c)
        \/ RefreshLooks(c) \/ RefreshIndexes(c)
    BY <1>6 DEF Passes
  <2>1. UNCHANGED child /\ (UNCHANGED upd \/ upd.pc = "pass")
    BY DEF WatchLooks, WatchIndexes, UpdateLooks, UpdateIndexes, RefreshLooks, RefreshIndexes
  <2> QED BY <2>1 DEF HookInv
<1> QED BY <1>1, <1>2, <1>3, <1>4, <1>5, <1>6, Steps

-----------------------------------------------------------------------------
(* The pending full-text rebuild.                                          *)

\* The version is recorded only while every document has an entry of this
\* tokenizer, and the index is emptied only while it is not recorded.
AllNew == \A c \in Coll : idx[c].text # NoText => fts[c] = "new"

RebuildInv ==
  /\ marks.tokenizer \/ upd.pc = "version" => AllNew
  /\ upd.pc \in {"recreate", "rebuild"} => ~marks.tokenizer

\* What becomes of one document: nothing, its removal, or new text with a new entry.
RowStep(c) ==
  \/ idx'[c].text = idx[c].text /\ fts'[c] = fts[c]
  \/ idx'[c].text = NoText
  \/ fts'[c] = "new"

LEMMA RebuildFrame ==
  ASSUME RebuildInv, \A c \in Coll : RowStep(c), UNCHANGED marks,
         upd'.pc = upd.pc \/ upd'.pc \notin {"recreate", "rebuild", "version"}
  PROVE  RebuildInv'
<1>1. AllNew => AllNew'
  BY DEF AllNew, RowStep
<1> QED BY <1>1 DEF RebuildInv

LEMMA RebuildInvStep ==
  ASSUME WatchType, RebuildInv, [Next]_vars
  PROVE  RebuildInv'
<1>0. upd \in Update /\ marks \in [split : BOOLEAN, tokenizer : BOOLEAN]
  BY Typed
<1>1. CASE UNCHANGED vars
  BY <1>1, RebuildFrame DEF vars, RowStep
<1>2. CASE Outside
  <2>1. CASE \E c \in Coll : Remove(c)
    <3> PICK c \in Coll : Remove(c)
      BY <2>1
    <3>1. \A d \in Coll : RowStep(d)
      BY Typed DEF Remove, RowStep
    <3> QED BY <3>1, RebuildFrame DEF Remove
  <2>2. CASE \E c \in Coll : Add(c)
    <3> PICK c \in Coll : Add(c)
      BY <2>2
    <3>1. \A d \in Coll : RowStep(d)
      BY AddStep DEF RowStep
    <3> QED BY <3>1, RebuildFrame DEF Add
  <2>3. CASE \E s \in Scope : StartUpdate(s)
    <3> PICK s \in Scope : StartUpdate(s)
      BY <2>3
    <3>1. upd'.pc = upd.pc \/ upd'.pc = "loop"
      BY StartType
    <3>2. \A d \in Coll : RowStep(d)
      BY DEF StartUpdate, RowStep
    <3> QED BY <3>1, <3>2, RebuildFrame DEF StartUpdate
  <2>4. CASE ~(\E c \in Coll : Remove(c) \/ Add(c)) /\ ~(\E s \in Scope : StartUpdate(s))
    <3>1. UNCHANGED <<idx, fts, marks, upd>>
      BY <1>2, <2>4 DEF Outside, Edit, ChangeAccess, Age, EmbedTakes, EmbedEnds, HookExits
    <3> QED BY <3>1, RebuildFrame DEF RowStep
  <2> QED BY <2>1, <2>2, <2>3, <2>4
<1>3. CASE Ends
  <2> PICK p \in {"watch", "update"} : on_signal(p) \/ Kill(p)
    BY <1>3 DEF Ends
  <2>1. UNCHANGED <<idx, fts, marks>> /\ (UNCHANGED upd \/ upd'.pc = "off")
    BY DEF on_signal, Kill, Gone, UpdOff
  <2> QED BY <2>1, RebuildFrame DEF RowStep
<1>4. CASE tick \/ WatchMoves \/ RefreshMoves
  <2>1. UNCHANGED <<idx, fts, marks, upd>>
    BY <1>4, MoveStep, RefreshMoveStep DEF tick
  <2> QED BY <2>1, RebuildFrame DEF RowStep
<1>5. CASE UpdateMoves
  <2>0. UNCHANGED idx
    BY <1>5, UpdateMoveStep
  <2>1. CASE (\E c \in Coll : NextCollection(c)) \/ UpdateStops \/ run_hook \/ HookTimeout \/ stop_after_grace
    <3>1. UNCHANGED <<fts, marks>> /\ (upd'.pc = upd.pc \/ upd'.pc \in {"hook", "pass", "grace", "off"})
      <4>1. CASE \E c \in Coll : NextCollection(c)
        BY <1>0, <4>1 DEF NextCollection, Update
      <4>2. CASE run_hook \/ HookTimeout
        BY <1>0, <4>2 DEF run_hook, HookTimeout, Update
      <4>3. CASE UpdateStops \/ stop_after_grace
        BY <4>3 DEF UpdateStops, stop_after_grace, UpdateEnds, UpdOff
      <4> QED BY <2>1, <4>1, <4>2, <4>3
    <3> QED BY <2>0, <3>1, RebuildFrame DEF RowStep
  <2>2. CASE UpdateCertifies
    <3>1. UNCHANGED fts /\ marks'.tokenizer = marks.tokenizer
      BY <1>0, <2>2 DEF UpdateCertifies, UpdateEnds
    <3>2. upd'.pc = "off" \/ (upd'.pc = "recreate" /\ ~marks.tokenizer)
      BY <1>0, <2>2 DEF UpdateCertifies, UpdateEnds, UpdOff, RebuildPending, Update
    <3> QED BY <2>0, <3>1, <3>2 DEF RebuildInv, AllNew
  <2>3. CASE Recreate
    <3>1. UNCHANGED marks /\ upd.pc = "recreate" /\ upd'.pc = "rebuild"
      BY <1>0, <2>3 DEF Recreate, Update
    <3> QED BY <3>1 DEF RebuildInv
  <2>4. CASE rebuild
    <3>1. UNCHANGED marks /\ upd'.pc = "version"
      BY <1>0, <2>4 DEF rebuild, Update
    <3>2. AllNew'
      BY <2>0, <2>4 DEF rebuild, AllNew
    <3> QED BY <3>1, <3>2 DEF RebuildInv
  <2>5. CASE SetVersion
    <3>1. upd.pc = "version" /\ upd'.pc = "off" /\ UNCHANGED fts
      BY <2>5 DEF SetVersion, UpdateEnds, UpdOff
    <3> QED BY <2>0, <3>1 DEF RebuildInv, AllNew
  <2> QED BY <1>5, <2>1, <2>2, <2>3, <2>4, <2>5 DEF UpdateMoves
<1>6. CASE Passes
  <2> PICK c \in Coll, full \in BOOLEAN :
        \/ WatchLooks(c) \/ WatchIndexes(c)
        \/ UpdateLooks(c, full) \/ UpdateIndexes(c)
        \/ RefreshLooks(c) \/ RefreshIndexes(c)
    BY <1>6 DEF Passes
  <2>1. PICK f \in BOOLEAN : Look(c, f) \/ Read(c, f) \/ (hand.coll = {c} /\ Index(c))
    BY DEF WatchLooks, WatchIndexes, UpdateLooks, UpdateIndexes, RefreshLooks, RefreshIndexes
  <2>2. \A d \in Coll : RowStep(d)
    <3>1. CASE Look(c, f) \/ Read(c, f)
      BY <3>1 DEF Look, Read, RowStep
    <3>2. CASE hand.coll = {c} /\ Index(c)
      BY <3>2, IndexType DEF RowStep
    <3> QED BY <2>1, <3>1, <3>2
  <2>3. UNCHANGED marks
    BY DEF WatchLooks, WatchIndexes, UpdateLooks, UpdateIndexes, RefreshLooks, RefreshIndexes
  <2>4. upd' = upd \/ upd'.pc = "loop"
    <3>1. CASE UpdateLooks(c, full) \/ UpdateIndexes(c)
      BY <3>1, UpdatePassStep
    <3>2. CASE ~(UpdateLooks(c, full) \/ UpdateIndexes(c))
      BY <3>2 DEF WatchLooks, WatchIndexes, RefreshLooks, RefreshIndexes
    <3> QED BY <3>1, <3>2
  <2> QED BY <2>2, <2>3, <2>4, RebuildFrame
<1> QED BY <1>1, <1>2, <1>3, <1>4, <1>5, <1>6, Steps

-----------------------------------------------------------------------------
(* Stamps and texts.                                                       *)

\* A stamp that is recorded, remembered, due or in hand is not one of the
\* future, and where it is the file's and was trusted, nothing can be
\* written under it any more: the text that goes with it is the file's.
FileInv ==
  \A c \in Coll :
    /\ idx[c].stat # NoStat => idx[c].stat <= disk[c].stamp
    /\ idx[c].stat = disk[c].stamp => ~disk[c].fresh /\ idx[c].text = disk[c].text

HandInv ==
  \A c \in hand.coll :
    /\ hand.stat <= disk[c].stamp
    /\ ~disk[c].fresh => hand.text = disk[c].text
    /\ ~hand.fresh /\ hand.stat = disk[c].stamp => ~disk[c].fresh

DueInv ==
  \A c \in DOMAIN watch.due :
    /\ watch.due[c].fp <= disk[c].stamp
    /\ watch.due[c].settled /\ watch.due[c].fp = disk[c].stamp => ~disk[c].fresh

Current(c) == idx[c].text = disk[c].text \/ c \in unread

SeenInv ==
  \A c \in Coll :
    /\ watch.seen[c] # NoStat => watch.seen[c] <= disk[c].stamp
    /\ watch.seen[c] = disk[c].stamp => ~disk[c].fresh /\ (c \in cols => Current(c))

FilesInv == FileInv /\ HandInv /\ DueInv /\ SeenInv

\* What becomes of one file: nothing but its access and its age, or an edit
\* under a later stamp or one that is still fresh.
SameFile(c)   == disk'[c].stamp = disk[c].stamp /\ disk'[c].text = disk[c].text
                 /\ (disk'[c].fresh => disk[c].fresh)
EditedFile(c) == /\ disk'[c].fresh
                 /\ \/ disk'[c].stamp = disk[c].stamp + 1
                    \/ disk'[c].stamp = disk[c].stamp /\ disk[c].fresh

LEMMA FileFacts ==
  ASSUME WatchType, NEW c \in Coll
  PROVE  /\ disk[c].stamp \in Nat \ {0} /\ disk[c].fresh \in BOOLEAN /\ disk[c].present \in BOOLEAN
         /\ idx[c].stat \in Nat \cup {NoStat} /\ NoStat \notin Nat
         /\ watch.seen[c] \in Nat \cup {NoStat}
         /\ hand.coll = {c} => hand.stat \in Nat /\ Held(c)
         /\ c \in DOMAIN watch.due => watch.due[c].fp \in Nat /\ watch.due[c].settled \in BOOLEAN
<1>1. disk[c] \in File /\ idx[c] \in Row /\ watch \in Watcher
  BY Typed
<1>2. hand.coll = {c} => Held(c)
  <2>1. hand # NoHand => \E d \in Coll : Held(d)
    BY Typed
  <2> QED BY <2>1, OffType DEF Held
<1>3. watch.seen[c] \in Stamp \cup {0, NoStat}
  BY <1>1, WatcherType
<1>4. c \in DOMAIN watch.due => watch.due[c] \in Due
  BY <1>1, WatcherType
<1> QED BY <1>1, <1>2, <1>3, <1>4, StampType, AbsentType DEF File, Row, Held, Due

LEMMA OneInHand ==
  ASSUME WatchType, NEW c \in hand.coll
  PROVE  c \in Coll /\ hand.coll = {c}
<1>1. hand # NoHand
  BY OffType
<1>2. PICK d \in Coll : Held(d)
  BY <1>1, Typed
<1> QED BY <1>2 DEF Held

\* The files change, nothing else does.
LEMMA DiskStep ==
  ASSUME WatchType, FilesInv, NEW c \in Coll,
         \A d \in Coll \ {c} : disk'[d] = disk[d],
         \/ SameFile(c) /\ (c \notin hand.coll \/ disk'[c].fresh = disk[c].fresh)
         \/ EditedFile(c),
         UNCHANGED <<idx, hand, cols, unread>>,
         watch' = watch
  PROVE  FilesInv'
<1>1. FileInv'
  BY FileFacts DEF FilesInv, FileInv, SameFile, EditedFile
<1>2. HandInv'
  BY FileFacts, OneInHand DEF FilesInv, HandInv, SameFile, EditedFile
<1>3. DueInv'
  <2>1. DOMAIN watch.due \subseteq Coll
    BY WatcherType, Typed
  <2> QED BY <2>1, FileFacts DEF FilesInv, DueInv, SameFile, EditedFile
<1>4. SeenInv'
  BY FileFacts DEF FilesInv, SeenInv, SameFile, EditedFile, Current
<1> QED BY <1>1, <1>2, <1>3, <1>4 DEF FilesInv

\* Nothing is read, indexed or remembered.
LEMMA FilesFrame ==
  ASSUME WatchType, FilesInv, UNCHANGED <<disk, cols, idx>>, hand' \in {hand, NoHand},
         unread \subseteq unread',
         \A c \in Coll : watch'.seen[c] \in {watch.seen[c], NoStat},
         watch'.due = watch.due \/ watch'.due = <<>>
  PROVE  FilesInv'
<1>1. FileInv'
  BY DEF FilesInv, FileInv
<1>2. HandInv'
  BY OffType DEF FilesInv, HandInv
<1>3. DueInv'
  BY NothingDue DEF FilesInv, DueInv
<1>4. SeenInv'
  <2> SUFFICES ASSUME NEW c \in Coll
               PROVE  /\ watch'.seen[c] # NoStat => watch'.seen[c] <= disk[c].stamp
                      /\ watch'.seen[c] = disk[c].stamp =>
                           ~disk[c].fresh /\ (c \in cols => idx[c].text = disk[c].text \/ c \in unread')
    BY DEF SeenInv, Current
  <2> QED BY FileFacts DEF FilesInv, SeenInv, Current
<1> QED BY <1>1, <1>2, <1>3, <1>4 DEF FilesInv

\* After a look that reads nothing the row has the file's text, or it is known to be owed.
LEMMA LookIsCurrent ==
  ASSUME WatchType, FileInv, NEW c \in Coll, NEW full \in BOOLEAN, Look(c, full)
  PROVE  idx[c].text = disk[c].text \/ c \in unread'
  BY DEF Look, NothingToRead, Unclean, FileInv

\* A look, a read or an indexing of c by whoever has the lock; the watch may
\* remember c's fingerprint when c is not in hand after it.
LEMMA FilesPass ==
  ASSUME WatchType, FilesInv, NEW c \in Coll, NEW full \in BOOLEAN, UNCHANGED <<disk, cols>>,
         \/ Look(c, full) /\ hand = NoHand
         \/ Read(c, full)
         \/ hand.coll = {c} /\ Index(c),
         \/ watch' = watch
         \/ c \in DOMAIN watch.due /\ watch' = Remember(watch, c) /\ ~Read(c, full)
  PROVE  FilesInv'
<1>1. FileInv'
  <2>1. CASE Look(c, full) \/ Read(c, full)
    BY <2>1 DEF Look, Read, FilesInv, FileInv
  <2>2. CASE hand.coll = {c} /\ Index(c)
    <3>1. c \in hand.coll /\ NoStat \notin Nat /\ hand.stat \in Nat
      BY <2>2, FileFacts
    <3> QED BY <2>2, <3>1, IndexType, FileFacts DEF FilesInv, FileInv, HandInv
  <2> QED BY <2>1, <2>2
<1>2. HandInv'
  <2>1. CASE Read(c, full)
    <3>1. /\ hand'.coll = {c} /\ hand'.stat = disk[c].stamp
          /\ hand'.fresh = disk[c].fresh /\ hand'.text = disk[c].text
      BY <2>1 DEF Read
    <3> QED BY <3>1, FileFacts DEF HandInv
  <2>2. CASE ~Read(c, full)
    <3>1. hand' = NoHand
      BY <2>2 DEF Look, Index
    <3> QED BY <3>1, OffType DEF HandInv
  <2> QED BY <2>1, <2>2
<1>3. DueInv'
  <2>1. CASE watch' = watch
    BY <2>1 DEF FilesInv, DueInv
  <2>2. CASE c \in DOMAIN watch.due /\ watch' = Remember(watch, c)
    BY <2>2, RememberType, Typed DEF FilesInv, DueInv
  <2> QED BY <2>1, <2>2
<1>4. \A d \in Coll : disk[d].stamp = watch.seen[d] => (d \in cols => Current(d)')
  <2>1. CASE Look(c, full) \/ Read(c, full)
    BY <2>1, LookType, ReadType DEF FilesInv, SeenInv, Current
  <2>2. CASE hand.coll = {c} /\ Index(c)
    <3> SUFFICES ASSUME NEW d \in Coll, disk[d].stamp = watch.seen[d], d \in cols
                 PROVE  Current(d)'
      OBVIOUS
    <3>1. CASE d = c
      BY <2>2, <3>1, IndexType DEF FilesInv, SeenInv, HandInv, Current
    <3>2. CASE d # c
      BY <2>2, <3>2, IndexType DEF FilesInv, SeenInv, Current
    <3> QED BY <3>1, <3>2
  <2> QED BY <2>1, <2>2
<1>5. SeenInv'
  <2>1. CASE watch' = watch
    BY <1>4, <2>1 DEF FilesInv, SeenInv
  <2>2. CASE c \in DOMAIN watch.due /\ watch' = Remember(watch, c) /\ ~Read(c, full)
    <3>1. watch.due[c].settled /\ watch.due[c].fp = disk[c].stamp => ~disk[c].fresh /\ Current(c)'
      <4>1. CASE Look(c, full)
        BY <2>2, <4>1, LookIsCurrent, LookType DEF FilesInv, DueInv, Current
      <4>2. CASE hand.coll = {c} /\ Index(c)
        BY <2>2, <4>2, IndexType DEF FilesInv, DueInv, HandInv, Current
      <4> QED BY <2>2, <4>1, <4>2
    <3>2. watch.due[c].fp <= disk[c].stamp
      BY <2>2 DEF FilesInv, DueInv
    <3>3. \A d \in Coll : watch'.seen[d] = IF d = c /\ watch.due[c].settled THEN watch.due[c].fp ELSE watch.seen[d]
      BY <2>2, RememberType, Typed
    <3> SUFFICES ASSUME NEW d \in Coll
                 PROVE  /\ watch'.seen[d] # NoStat => watch'.seen[d] <= disk[d].stamp
                        /\ watch'.seen[d] = disk[d].stamp => ~disk[d].fresh /\ (d \in cols => Current(d)')
      BY DEF SeenInv
    <3>4. CASE watch'.seen[d] = watch.seen[d]
      BY <1>4, <3>4 DEF FilesInv, SeenInv
    <3>5. CASE d = c /\ watch.due[c].settled /\ watch'.seen[d] = watch.due[c].fp
      BY <3>1, <3>2, <3>5
    <3> QED BY <3>3, <3>4, <3>5
  <2> QED BY <2>1, <2>2
<1> QED BY <1>1, <1>2, <1>3, <1>5 DEF FilesInv

LEMMA FilesCollection ==
  ASSUME WatchType, FilesInv, NEW c \in Coll, Remove(c) \/ Add(c)
  PROVE  FilesInv'
<1>1. UNCHANGED <<disk, hand, watch>>
  BY DEF Remove, Add
<1>2. \A d \in Coll \ {c} : idx'[d] = idx[d] /\ (d \in cols' => d \in cols) /\ (d \in unread => d \in unread')
  BY AddStep, Typed DEF Remove, Add
<1>3. /\ idx'[c].stat # NoStat => idx'[c].stat <= disk[c].stamp
      /\ idx'[c].stat = disk[c].stamp => ~disk[c].fresh /\ idx'[c].text = disk[c].text
      /\ c \in cols' => idx'[c].text = disk[c].text \/ c \in unread'
  <2>1. CASE Remove(c)
    <3>1. idx'[c].stat = NoStat /\ c \notin cols'
      BY <2>1, Typed DEF Remove
    <3> QED BY <3>1, FileFacts
  <2>2. CASE Add(c)
    BY <2>2, AddStep, FileFacts DEF FilesInv, FileInv
  <2> QED BY <2>1, <2>2
<1>4. FileInv'
  BY <1>1, <1>2, <1>3 DEF FilesInv, FileInv
<1>5. HandInv' /\ DueInv'
  BY <1>1 DEF FilesInv, HandInv, DueInv
<1>6. SeenInv'
  <2> SUFFICES ASSUME NEW d \in Coll
               PROVE  /\ watch.seen[d] # NoStat => watch.seen[d] <= disk[d].stamp
                      /\ watch.seen[d] = disk[d].stamp =>
                           ~disk[d].fresh /\ (d \in cols' => idx'[d].text = disk[d].text \/ d \in unread')
    BY <1>1 DEF SeenInv, Current
  <2>1. CASE d = c
    BY <1>3, <2>1 DEF FilesInv, SeenInv
  <2>2. CASE d # c
    BY <1>2, <2>2 DEF FilesInv, SeenInv, Current
  <2> QED BY <2>1, <2>2
<1> QED BY <1>4, <1>5, <1>6 DEF FilesInv

LEMMA DisturbedFile ==
  ASSUME WatchType, NEW c \in Coll,
         (\E t \in Text : Edit(c, t)) \/ ChangeAccess(c) \/ Age(c)
  PROVE  /\ \A d \in Coll \ {c} : disk'[d] = disk[d]
         /\ \/ SameFile(c) /\ (c \notin hand.coll \/ disk'[c].fresh = disk[c].fresh)
            \/ EditedFile(c)
         /\ UNCHANGED <<idx, hand, cols, unread, watch>>
<1>0. disk[c] \in File /\ disk \in [Coll -> File]
  BY Typed
<1>1. CASE \E t \in Text : Edit(c, t)
  <2> PICK t \in Text : Edit(c, t)
    BY <1>1
  <2> PICK s \in {disk[c].stamp, disk[c].stamp + 1} :
        /\ s = disk[c].stamp => disk[c].fresh
        /\ disk' = [disk EXCEPT ![c].text = t, ![c].stamp = s, ![c].fresh = TRUE]
    BY DEF Edit
  <2> DEFINE r == [disk[c] EXCEPT !.text = t, !.stamp = s, !.fresh = TRUE]
  <2>1. r.stamp = s /\ r.fresh
    BY <1>0 DEF File
  <2>2. disk' = [disk EXCEPT ![c] = r]
    BY <1>0
  <2> HIDE DEF r
  <2> QED BY <1>0, <2>1, <2>2 DEF Edit, EditedFile
<1>2. CASE ChangeAccess(c)
  BY <1>0, <1>2 DEF ChangeAccess, SameFile, File
<1>3. CASE Age(c)
  BY <1>0, <1>3 DEF Age, SameFile, File
<1> QED BY <1>1, <1>2, <1>3

LEMMA FilesInvStep ==
  ASSUME WatchType, LockInv, FilesInv, [Next]_vars
  PROVE  FilesInv'
<1>1. CASE UNCHANGED vars
  BY <1>1, FilesFrame DEF vars
<1>2. CASE Outside
  <2>1. CASE \E c \in Coll : (\E t \in Text : Edit(c, t)) \/ ChangeAccess(c) \/ Age(c)
    BY <2>1, DisturbedFile, DiskStep
  <2>2. CASE \E c \in Coll : Remove(c) \/ Add(c)
    BY <2>2, FilesCollection
  <2>3. CASE (\E s \in Scope : StartUpdate(s)) \/ EmbedTakes \/ EmbedEnds \/ HookExits
    <3>1. UNCHANGED <<disk, cols, idx, hand, watch, unread>>
      BY <2>3 DEF StartUpdate, EmbedTakes, EmbedEnds, HookExits
    <3> QED BY <3>1, FilesFrame
  <2> QED BY <1>2, <2>1, <2>2, <2>3 DEF Outside
<1>3. CASE Ends
  <2> PICK p \in {"watch", "update"} : on_signal(p) \/ Kill(p)
    BY <1>3 DEF Ends
  <2>1. /\ UNCHANGED <<disk, cols, idx, unread>>
        /\ UNCHANGED watch \/ watch' = WatchOff
        /\ hand' \in {hand, NoHand}
    BY DEF on_signal, Kill, Gone
  <2>2. \A c \in Coll : WatchOff.seen[c] = NoStat
    BY DEF WatchOff
  <2>3. WatchOff.due = <<>>
    BY DEF WatchOff
  <2> QED BY <2>1, <2>2, <2>3, FilesFrame
<1>4. CASE tick
  <2>1. UNCHANGED <<disk, cols, idx, hand, unread>>
    BY <1>4 DEF tick
  <2>2. FileInv' /\ HandInv'
    BY <2>1 DEF FilesInv, FileInv, HandInv
  <2>3. DueInv'
    <3> SUFFICES ASSUME NEW c \in DOMAIN watch'.due
                 PROVE  /\ watch'.due[c].fp <= disk[c].stamp
                        /\ watch'.due[c].settled /\ watch'.due[c].fp = disk[c].stamp => ~disk[c].fresh
      BY <2>1 DEF DueInv
    <3>1. c \in Coll /\ watch'.due[c].fp = Fingerprint(c) /\ watch'.due[c].settled = Settled(c)
      BY <1>4, TickStep, Typed
    <3>2. CASE disk[c].present
      <4>1. watch'.due[c].fp = disk[c].stamp /\ disk[c].stamp \in Nat
        BY <3>1, <3>2, FileFacts DEF Fingerprint
      <4>2. watch'.due[c].settled => ~disk[c].fresh
        BY <3>1, <3>2, Zenon DEF Settled
      <4> QED BY <4>1, <4>2
    <3>3. CASE ~disk[c].present
      <4>1. watch'.due[c].fp = 0 /\ disk[c].stamp \in Nat \ {0}
        BY <3>1, <3>3, FileFacts DEF Fingerprint
      <4> QED BY <4>1
    <3> QED BY <3>2, <3>3
  <2>4. \A c \in Coll : watch'.seen[c] \in {watch.seen[c], NoStat}
    BY <1>4, TickStep
  <2>5. SeenInv'
    BY <2>1, <2>4, FileFacts DEF FilesInv, SeenInv, Current
  <2> QED BY <2>2, <2>3, <2>5 DEF FilesInv
<1>5. CASE WatchMoves
  <2>1. /\ UNCHANGED <<disk, cols, idx, hand, unread>>
        /\ watch'.seen = watch.seen \/ watch'.seen = [c \in Coll |-> NoStat]
        /\ watch'.due = watch.due \/ watch'.due = <<>>
    BY <1>5, MoveStep
  <2>2. \A c \in Coll : watch'.seen[c] \in {watch.seen[c], NoStat}
    BY <2>1
  <2> QED BY <2>1, <2>2, FilesFrame
<1>6. CASE UpdateMoves \/ RefreshMoves
  <2>1. UNCHANGED <<disk, cols, idx, hand, watch>> /\ unread \subseteq unread'
    BY <1>6, UpdateMoveStep, RefreshMoveStep
  <2> QED BY <2>1, FilesFrame
<1>7. CASE Passes
  <2> PICK c \in Coll, full \in BOOLEAN :
        \/ WatchLooks(c) \/ WatchIndexes(c)
        \/ UpdateLooks(c, full) \/ UpdateIndexes(c)
        \/ RefreshLooks(c) \/ RefreshIndexes(c)
    BY <1>7 DEF Passes
  <2>0. UNCHANGED <<disk, cols>>
    BY DEF WatchLooks, WatchIndexes, UpdateLooks, UpdateIndexes, RefreshLooks, RefreshIndexes
  <2>1. CASE WatchLooks(c)
    <3>1. c \in DOMAIN watch.due /\ hand = NoHand
      BY <2>1 DEF WatchLooks
    <3>2. Look(c, FALSE) => ~Read(c, FALSE)
      BY DEF Look, Read
    <3>3. \/ Look(c, FALSE) /\ watch' = Remember(watch, c)
          \/ Read(c, FALSE) /\ watch' = watch
      BY <2>1 DEF WatchLooks
    <3> QED BY <2>0, <3>1, <3>2, <3>3, FilesPass
  <2>2. CASE WatchIndexes(c)
    <3>1. c \in DOMAIN watch.due
      BY <2>2, DueForIndex
    <3>2. hand.coll = {c} /\ Index(c) /\ watch' = Remember(watch, c)
      BY <2>2 DEF WatchIndexes
    <3>3. ~Read(c, FALSE)
      <4>1. hand'.coll = {}
        BY <3>2, OffType DEF Index
      <4>2. Read(c, FALSE) => hand'.coll = {c}
        BY DEF Read
      <4> QED BY <4>1, <4>2
    <3> QED BY <2>0, <3>1, <3>2, <3>3, FilesPass
  <2>3. CASE UpdateLooks(c, full) \/ UpdateIndexes(c)
    <3>1. watch' = watch
      BY <2>3, UpdatePassStep
    <3>2. (Look(c, full) /\ hand = NoHand) \/ Read(c, full) \/ (hand.coll = {c} /\ Index(c))
      BY <2>3 DEF UpdateLooks, UpdateIndexes
    <3> QED BY <2>0, <3>1, <3>2, FilesPass
  <2>4. CASE RefreshLooks(c) \/ RefreshIndexes(c)
    <3>1. watch' = watch
      BY <2>4, RefreshPassStep
    <3>2. (Look(c, FALSE) /\ hand = NoHand) \/ Read(c, FALSE) \/ (hand.coll = {c} /\ Index(c))
      BY <2>4 DEF RefreshLooks, RefreshIndexes
    <3> QED BY <2>0, <3>1, <3>2, FilesPass
  <2> QED BY <2>1, <2>2, <2>3, <2>4
<1> QED BY <1>1, <1>2, <1>3, <1>4, <1>5, <1>6, <1>7, Steps

-----------------------------------------------------------------------------
(* A refresh.                                                              *)

Told == ref.pc = "pass" \/ (ref.pc = "off" /\ ref.outcome = "Refreshed")
Done(c) == (ref.pc = "pass" /\ c \notin ref.todo) \/ (ref.pc = "off" /\ ref.outcome = "Refreshed")

\* The collections a refresh is done with are current, and the file that
\* anyone has in hand since it began is the one on disk, unless it has
\* changed since.
RefInv ==
  /\ ref.pc = "lock" => ref.same \subseteq ref.todo
  /\ \A c \in ref.same : /\ Done(c) => Current(c)
                         /\ Told /\ c \in hand.coll => hand.text = disk[c].text

\* Only c may change, and the refresh no longer speaks of it.
LEMMA RefFrame ==
  ASSUME RefInv, NEW C,
         ref'.pc = ref.pc, ref'.todo = ref.todo, ref'.outcome = ref.outcome, ref'.same = ref.same \ C,
         \A d \in ref.same \ C : disk'[d].text = disk[d].text /\ idx'[d].text = idx[d].text
                                 /\ (d \in unread => d \in unread'),
         hand' \in {hand, NoHand}
  PROVE  RefInv'
<1>1. ref'.pc = "lock" => ref'.same \subseteq ref'.todo
  BY DEF RefInv
<1>2. ASSUME NEW d \in ref'.same
      PROVE  /\ Done(d)' => Current(d)'
             /\ Told' /\ d \in hand'.coll => hand'.text = disk'[d].text
  <2>1. d \in ref.same \ C /\ (Done(d)' <=> Done(d)) /\ (Told' <=> Told)
    BY <1>2 DEF Done, Told
  <2> QED BY <2>1, OffType DEF RefInv, Current
<1> QED BY <1>1, <1>2 DEF RefInv

LEMMA RefPass ==
  ASSUME WatchType, FilesInv, RefInv, NEW c \in Coll, NEW full \in BOOLEAN, UNCHANGED disk,
         Look(c, full) \/ Read(c, full) \/ (hand.coll = {c} /\ Index(c)),
         ref'.pc = ref.pc, ref'.outcome = ref.outcome, ref'.same = ref.same,
         \/ ref'.todo = ref.todo
         \/ ref'.todo = ref.todo \ {c} /\ ref.pc = "pass" /\ ~Read(c, full)
  PROVE  RefInv'
<1>1. ref'.pc = "lock" => ref'.same \subseteq ref'.todo
  BY DEF RefInv
<1>2. ASSUME NEW d \in ref.same
      PROVE  /\ Done(d)' => Current(d)'
             /\ Told' /\ d \in hand'.coll => hand'.text = disk[d].text
  <2>1. Told' <=> Told
    BY DEF Told
  <2>2. Done(d)' => Done(d) \/ (d = c /\ Told /\ ~Read(c, full))
    BY DEF Done, Told
  <2>3. CASE Look(c, full)
    BY <2>1, <2>2, <2>3, LookType, LookIsCurrent DEF RefInv, Current, FilesInv
  <2>4. CASE Read(c, full)
    <3>1. hand'.coll = {c} /\ hand'.text = disk[c].text /\ UNCHANGED <<idx, unread>>
      BY <2>4 DEF Read
    <3> QED BY <2>1, <2>2, <2>4, <3>1 DEF RefInv, Current
  <2>5. CASE hand.coll = {c} /\ Index(c)
    <3>1. Done(d) => Told
      BY DEF Done, Told
    <3>2. CASE d = c
      <4>1. idx'[c].text = hand.text /\ hand' = NoHand
        BY <2>5, IndexType
      <4>2. Told => hand.text = disk[c].text
        BY <2>5, <3>2 DEF RefInv
      <4>3. Told => Current(d)'
        BY <3>2, <4>1, <4>2 DEF Current
      <4>4. Done(d)' => Told
        BY <2>2, <3>1
      <4>5. d \notin hand'.coll
        BY <4>1, OffType
      <4> QED BY <4>3, <4>4, <4>5
    <3>3. CASE d # c
      <4>1. d \in Coll /\ d # c
        BY <3>3, Typed DEF Refresh
      <4>2. idx'[d] = idx[d] /\ unread' = unread \ {c} /\ hand' = NoHand
        BY <2>5, <4>1, IndexType
      <4>3. Current(d) => Current(d)'
        BY <4>1, <4>2 DEF Current
      <4>4. Done(d)' => Current(d)
        BY <2>2, <4>1 DEF RefInv
      <4>5. d \notin hand'.coll
        BY <4>2, OffType
      <4> QED BY <4>3, <4>4, <4>5
    <3> QED BY <3>2, <3>3
  <2> QED BY <2>3, <2>4, <2>5
<1> QED BY <1>1, <1>2 DEF RefInv

LEMMA RefInvStep ==
  ASSUME WatchType, LockInv, FilesInv, RefInv, [Next]_vars
  PROVE  RefInv'
<1>0. ref \in Refresh /\ ref.same = ref.same \ {}
  BY Typed
<1>1. CASE UNCHANGED vars
  BY <1>0, <1>1, RefFrame DEF vars
<1>2. CASE Outside
  <2>1. CASE \E c \in Coll : (\E t \in Text : Edit(c, t)) \/ ChangeAccess(c) \/ Remove(c) \/ Add(c)
    <3> PICK c \in Coll : (\E t \in Text : Edit(c, t)) \/ ChangeAccess(c) \/ Remove(c) \/ Add(c)
      BY <2>1
    <3>1. Touched(c) /\ UNCHANGED hand
      BY DEF Edit, ChangeAccess, Remove, Add
    <3>2. ref'.pc = ref.pc /\ ref'.todo = ref.todo /\ ref'.outcome = ref.outcome /\ ref'.same = ref.same \ {c}
      BY <3>1, TouchedKeeps
    <3>3. \A d \in Coll \ {c} : disk'[d].text = disk[d].text /\ idx'[d].text = idx[d].text
                                /\ (d \in unread => d \in unread')
      <4>1. CASE (\E t \in Text : Edit(c, t)) \/ ChangeAccess(c)
        BY <4>1, DisturbedFile
      <4>2. CASE Remove(c)
        BY <4>2, Typed DEF Remove
      <4>3. CASE Add(c)
        BY <4>3, AddStep DEF Add
      <4> QED BY <4>1, <4>2, <4>3
    <3>4. \A d \in ref.same \ {c} : d \in Coll \ {c}
      BY <1>0 DEF Refresh
    <3> QED BY <3>1, <3>2, <3>3, <3>4, RefFrame
  <2>2. CASE \E c \in Coll : Age(c)
    <3> PICK c \in Coll : Age(c)
      BY <2>2
    <3>1. UNCHANGED <<idx, hand, ref, unread>>
      BY DEF Age
    <3>2. \A d \in Coll : disk'[d].text = disk[d].text
      BY Typed DEF Age, File
    <3>3. \A d \in ref.same \ {} : d \in Coll
      BY <1>0 DEF Refresh
    <3> QED BY <1>0, <3>1, <3>2, <3>3, RefFrame
  <2>3. CASE (\E s \in Scope : StartUpdate(s)) \/ EmbedTakes \/ EmbedEnds \/ HookExits
    <3>1. UNCHANGED <<disk, idx, hand, ref, unread>>
      BY <2>3 DEF StartUpdate, EmbedTakes, EmbedEnds, HookExits
    <3> QED BY <1>0, <3>1, RefFrame
  <2> QED BY <1>2, <2>1, <2>2, <2>3 DEF Outside
<1>3. CASE Ends
  <2>1. UNCHANGED <<disk, idx, ref, unread>> /\ hand' \in {hand, NoHand}
    BY <1>3 DEF Ends, on_signal, Kill, Gone
  <2> QED BY <1>0, <2>1, RefFrame
<1>4. CASE tick \/ WatchMoves \/ UpdateMoves
  <2>1. UNCHANGED <<disk, idx, hand, ref>> /\ unread \subseteq unread'
    BY <1>4, MoveStep, UpdateMoveStep DEF tick
  <2> QED BY <1>0, <2>1, RefFrame
<1>5. CASE RefreshMoves
  <2>0. UNCHANGED <<disk, idx, hand, unread>>
    BY <1>5, RefreshMoveStep
  <2>1. CASE RefreshList
    <3> DEFINE names == ref.asked \cap cols
    <3>1. ref' = IF RebuildPending THEN [RefOff EXCEPT !.outcome = "RebuildPending"]
                 ELSE IF names = {} THEN [RefOff EXCEPT !.outcome = "Refreshed"]
                 ELSE [ref EXCEPT !.pc = "lock", !.todo = names, !.asked = names, !.same = names]
      BY <2>1 DEF RefreshList
    <3> HIDE DEF names
    <3>2. \/ ref'.pc = "off" /\ ref'.same = {}
          \/ ref'.pc = "lock" /\ ref'.same = ref'.todo
      BY <1>0, <3>1 DEF RefOff, Refresh
    <3> QED BY <3>2 DEF RefInv, Done, Told
  <2>2. CASE RefreshLock
    <3>1. \/ ref'.pc = "off" /\ ref'.same = {}
          \/ /\ ref.pc = "lock" /\ lock = Nobody
             /\ ref'.pc = "pass" /\ ref'.same = ref.same /\ ref'.todo = ref.todo
      BY <1>0, <2>2 DEF RefreshLock, RefOff, Refresh
    <3>2. lock = Nobody => hand = NoHand
      BY AbsentType DEF LockInv, Proc
    <3> QED BY <2>0, <3>1, <3>2, OffType DEF RefInv, Done, Told
  <2>3. CASE RefreshEnds
    <3>1. ref.pc = "pass" /\ hand = NoHand
      BY <2>3 DEF RefreshEnds
    <3>2. /\ ref'.pc = "off"
          /\ \/ ref'.outcome = "TimedOut"
             \/ ref.todo = {} /\ ref'.same = ref.same
      BY <2>3 DEF RefreshEnds, RefOff
    <3> QED BY <2>0, <3>1, <3>2, OffType DEF RefInv, Done, Told, Current
  <2>4. CASE \E n \in Scope : AskRefresh(n)
    <3>1. ref'.pc = "list" /\ ref'.same = {}
      BY <2>4 DEF AskRefresh, RefOff
    <3> QED BY <3>1 DEF RefInv
  <2> QED BY <1>5, <2>1, <2>2, <2>3, <2>4 DEF RefreshMoves
<1>6. CASE Passes
  <2> PICK c \in Coll, full \in BOOLEAN :
        \/ WatchLooks(c) \/ WatchIndexes(c)
        \/ UpdateLooks(c, full) \/ UpdateIndexes(c)
        \/ RefreshLooks(c) \/ RefreshIndexes(c)
    BY <1>6 DEF Passes
  <2>0. UNCHANGED disk
    BY DEF WatchLooks, WatchIndexes, UpdateLooks, UpdateIndexes, RefreshLooks, RefreshIndexes
  <2>1. CASE WatchLooks(c) \/ WatchIndexes(c) \/ UpdateLooks(c, full) \/ UpdateIndexes(c)
    <3>1. PICK f \in BOOLEAN : Look(c, f) \/ Read(c, f) \/ (hand.coll = {c} /\ Index(c))
      BY <2>1 DEF WatchLooks, WatchIndexes, UpdateLooks, UpdateIndexes
    <3>2. UNCHANGED ref
      BY <2>1 DEF WatchLooks, WatchIndexes, UpdateLooks, UpdateIndexes
    <3> QED BY <2>0, <3>1, <3>2, RefPass
  <2>2. CASE RefreshLooks(c) \/ RefreshIndexes(c)
    <3>1. /\ ref.pc = "pass" /\ ref'.pc = "pass"
          /\ ref'.same = ref.same /\ ref'.outcome = ref.outcome
          /\ \/ Look(c, FALSE) /\ ref'.todo = ref.todo \ {c}
             \/ Read(c, FALSE) /\ ref' = ref
             \/ hand.coll = {c} /\ Index(c) /\ ref'.todo = ref.todo \ {c}
      BY <2>2, RefreshPassStep
    <3>2. hand.coll = {c} /\ Index(c) => ~Read(c, FALSE)
      <4>1. hand.coll = {c} /\ Index(c) => hand'.coll = {}
        BY OffType DEF Index
      <4>2. Read(c, FALSE) => hand'.coll = {c}
        BY DEF Read
      <4> QED BY <4>1, <4>2
    <3>3. Look(c, FALSE) => ~Read(c, FALSE)
      BY DEF Look, Read
    <3> QED BY <2>0, <3>1, <3>2, <3>3, RefPass
  <2> QED BY <2>1, <2>2
<1> QED BY <1>1, <1>2, <1>3, <1>4, <1>5, <1>6, Steps

-----------------------------------------------------------------------------
(* The theorems.                                                           *)

WatchInv == WatchType /\ LockInv /\ HookInv /\ RebuildInv /\ FilesInv /\ RefInv

LEMMA InitWatchInv == Init => WatchInv
<1> SUFFICES ASSUME Init PROVE WatchInv
  OBVIOUS
<1>1. WatchType
  BY InitType
<1>2. watch.pc = "tick" /\ watch.due = <<>> /\ \A c \in Coll : watch.seen[c] = NoStat
  BY DEF Init, WatchOff
<1>3. LockInv /\ HookInv
  BY <1>2 DEF Init, LockInv, HookInv, UpdOff, RefOff
<1>4. \A c \in Coll : idx[c].stat = NoStat
  BY DEF Init
<1>5. RebuildInv
  <2>1. PICK old \in BOOLEAN :
          /\ idx = [c \in Coll |-> [text |-> IF old THEN disk[c].text ELSE NoText, stat |-> NoStat]]
          /\ \E split \in BOOLEAN : marks = [split |-> split, tokenizer |-> split /\ ~old]
    BY DEF Init
  <2>2. marks.tokenizer => ~old
    <3> PICK split \in BOOLEAN : marks = [split |-> split, tokenizer |-> split /\ ~old]
      BY <2>1
    <3>1. marks.tokenizer = (split /\ ~old)
      OBVIOUS
    <3> QED BY <3>1
  <2>3. ~old => \A c \in Coll : idx[c].text = NoText
    BY <2>1
  <2> QED BY <2>2, <2>3 DEF RebuildInv, AllNew, Init, UpdOff
<1>6. FilesInv
  BY <1>1, <1>2, <1>4, FileFacts, OffType, NothingDue DEF Init, FilesInv, FileInv, HandInv, DueInv, SeenInv
<1>7. RefInv
  BY DEF Init, RefInv, RefOff
<1> QED BY <1>1, <1>3, <1>5, <1>6, <1>7 DEF WatchInv

LEMMA WatchInvStep == WatchInv /\ [Next]_vars => WatchInv'
  BY TypeStep, LockInvStep, HookInvStep, RebuildInvStep, FilesInvStep, RefInvStep DEF WatchInv

\* What every step of every program preserves, together: types, the lock and
\* the file in hand, hooks, the pending rebuild, stamps and texts, a refresh.
THEOREM WatchInvariant == Spec => []WatchInv
  BY InitWatchInv, WatchInvStep, PTL DEF Spec

\* What the watch and the stat check know of the files is true: a fingerprint
\* that is remembered and still found is that of files whose text is indexed
\* or known to be owed, and so is a recorded stat, whatever edits, kills,
\* signals, removals and other commands came in between (Watcher::tick,
\* Fingerprint::settled, trusted_stat).
THEOREM RememberedIsIndexed == Spec => []NothingIsMissed
<1>1. WatchInv => NothingIsMissed
  <2> SUFFICES ASSUME WatchInv PROVE NothingIsMissed
    OBVIOUS
  <2>1. TypeOK
    BY DEF WatchInv, WatchType
  <2>2. SeenIsIndexed
    <3> SUFFICES ASSUME NEW c \in cols, watch.seen[c] = Fingerprint(c), disk[c].present
                 PROVE  Current(c)
      BY DEF SeenIsIndexed, Indexed, Current
    <3>1. c \in Coll /\ watch.seen[c] = disk[c].stamp
      BY Typed DEF Fingerprint, WatchInv
    <3> QED BY <3>1 DEF WatchInv, FilesInv, SeenInv
  <2>3. UnreadIsOwed
    BY DEF WatchInv, FilesInv, FileInv, UnreadIsOwed
  <2> QED BY <2>1, <2>2, <2>3 DEF NothingIsMissed
<1> QED BY <1>1, WatchInvariant, PTL

\* A document without an entry of this tokenizer keeps the rebuild pending,
\* wherever `rqmd update` is killed between emptying the full-text index and
\* recording the version (fts_rebuild_pending, FtsIndex::rebuild).
THEOREM RebuildIsRemembered == Spec => []RebuildNotForgotten
<1>1. WatchInv => RebuildNotForgotten
  BY Typed DEF WatchInv, RebuildInv, AllNew, RebuildNotForgotten, RebuildPending
<1> QED BY <1>1, WatchInvariant, PTL

\* No hook is left running by an update that ends, however many signals
\* arrive and at whichever moment (run_hook, stop_after_grace, on_signal).
THEOREM HooksAreStopped == Spec => []HookDoesNotOutlive
<1>1. WatchInv => HookDoesNotOutlive
  BY DEF WatchInv, HookInv, HookDoesNotOutlive
<1> QED BY <1>1, WatchInvariant, PTL

\* A refresh that answers Refreshed has brought every requested collection up
\* to date that was not touched since and could be read (refresh_index).
THEOREM RefreshTellsTheTruth == Spec => []RefreshedIsCurrent
<1>1. WatchInv => RefreshedIsCurrent
  BY DEF WatchInv, RefInv, RefreshedIsCurrent, Done, Current, Indexed
<1> QED BY <1>1, WatchInvariant, PTL
=============================================================================
