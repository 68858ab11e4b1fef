------------------------------ MODULE Reading -------------------------------
(***************************************************************************)
(* What a client reads through `get` and `multi_get` of the MCP server      *)
(* (crates/rqmd-mcp/src/server.rs): the file spec with its line suffix, the *)
(* caps on lines and bytes and the notes that announce them, and the        *)
(* resolution of a multi_get pattern with its report                        *)
(* (crates/rqmd-core/src/resolve.rs, db.rs).                                *)
(*                                                                          *)
(* A body is the sequence of its lines' byte lengths; the documents are     *)
(* numbered in the order of (collection, path); a path is the sequence of   *)
(* its segments.                                                            *)
(*                                                                          *)
(* A document is looked up first and its body read afterwards, by row id.   *)
(* In between another process may remove its row or write another text, and *)
(* the read may fail: a body that cannot be had is shown as an empty one.   *)
(* (A document deactivated in between keeps its row, and is read as it is.) *)
(***************************************************************************)
EXTENDS Integers, FiniteSets, SequencesExt

CONSTANTS
  Bodies,           \* the bodies a client reads line by line
  Wide,             \* the line lengths made of two-byte characters
  DefaultMaxLines,  \* DEFAULT_MAX_LINES
  MaxDocBytes,      \* MAX_DOC_BYTES
  LineSuffixes,         \* line suffixes of a file spec, split at the colons
  Asked,            \* values of from_line and max_lines: <<>> or <<n>>
  Corpus,           \* the indexed documents: coll, path, hash and body
  Patterns,         \* the patterns: non-empty sequences of entries
  NotAGlob,         \* the argument of a glob entry that does not parse
  MaxDistinctPaths, \* MAX_DISTINCT_PATH_ENTRIES
  Scopes,           \* collection filters; {} is none
  Folded,           \* the ASCII-lowercased form of each path segment
  NeedleBatch,      \* NEEDLE_BATCH
  MaxDocs,          \* MULTI_GET_MAX_DOCS
  TotalBytes,       \* MULTI_GET_MAX_TOTAL_BYTES
  MaxNoted,         \* MULTI_GET_MAX_NOTED_ENTRIES
  Edited,           \* the bodies that an edit writes
  Mishaps           \* bound: rows removed, bodies edited and reads that fail

VARIABLES
  call,     \* the tool in use, "get" or "multi_get"; "found" between looking a
            \* document up and reading it; at the end "done", or "failed"
  spec,     \* get: the parts of the file spec, from_line and max_lines, and
            \* the first from_line
  body,     \* get: the document's body
  read,     \* get: the lines that the client has seen whole
  pattern,  \* multi_get: the entries
  colls,    \* multi_get: the collections asked for
  active,   \* multi_get: the documents active when the pattern is resolved
  there,    \* the documents that have a row
  texts,    \* multi_get: the body each document has, or had last
  blank,    \* history: documents shown empty, their body could not be had
  mishaps,  \* mishaps left
  maxl,     \* multi_get: max_lines
  report,   \* multi_get: what the pattern resolved to; <<>> before
  shown,    \* multi_get: the windows in the reply, in order
  budget,   \* multi_get: bytes left
  notes     \* multi_get: the closing notes

rowVars  == <<there, texts, blank, mishaps>>
readVars == <<call, spec, body, read, pattern, colls, active, maxl, report,
              shown, budget, notes, rowVars>>

Least2(a, b) == IF a < b THEN a ELSE b
Minus(a, b) == IF a > b THEN a - b ELSE 0
Else(given, otherwise) == IF given # <<>> THEN given ELSE otherwise

\* The document of a `get`; those of the corpus are numbered from 1.
Single == 0

Mishap == mishaps > 0 /\ mishaps' = mishaps - 1

\* get_document_raw(id).unwrap_or_default().unwrap_or_default()
get_document_raw(d, has, got) ==
  \/ d \in there /\ got = has /\ UNCHANGED <<blank, mishaps>>
  \/ d \notin there /\ got = <<>> /\ blank' = blank \cup {d} /\ UNCHANGED mishaps
  \/ Mishap /\ got = <<>> /\ blank' = blank \cup {d}

-----------------------------------------------------------------------------
(* The file spec: parts split at the colons; a number is itself, and -1 any   *)
(* part that is not one.                                                      *)

parse_file_spec(parts, from, max) ==
  LET n == Len(parts)
  IN CASE n > 2 /\ parts[n] >= 0 /\ parts[n - 1] >= 0 ->
            [name |-> SubSeq(parts, 1, n - 2),
             from |-> Else(from, <<parts[n - 1]>>), max |-> Else(max, <<parts[n]>>)]
       [] n > 1 /\ parts[n] >= 0 /\ ~(n > 2 /\ parts[n - 1] >= 0) ->
            [name |-> SubSeq(parts, 1, n - 1),
             from |-> Else(from, <<parts[n]>>), max |-> max]
       [] OTHER -> [name |-> parts, from |-> from, max |-> max]

-----------------------------------------------------------------------------
(* Windows. *)

\* What is left of a line cut to `n` bytes on a character boundary.
snap(line, n) == IF line \in Wide THEN 2 * (n \div 2) ELSE n

BytesOf(lines) == FoldLeft(LAMBDA sum, len : sum + len + 1, 0, lines)

\* cap_body: whole lines while they and their newline fit, then the beginning
\* of the line that does not.  Stopping at the caller's own max_lines is not a
\* cap.
cap_body(lines, from, max, cap) ==
  LET start == IF from = <<>> THEN 0 ELSE Minus(from[1], 1)
      rest == SubSeq(lines, start + 1, Len(lines))
      limit == Least2(IF max = <<>> THEN DefaultMaxLines ELSE max[1], Len(rest))
      Fits(k) == BytesOf(SubSeq(rest, 1, k)) <= cap
      whole == CHOOSE k \in 0 .. limit :
                 Fits(k) /\ \A j \in k + 1 .. limit : ~Fits(j)
      used == BytesOf(SubSeq(rest, 1, whole))
      part == IF whole < limit THEN snap(rest[whole + 1], Minus(cap - used, 1)) ELSE 0
  IN [start |-> start, whole |-> whole, part |-> part,
      capped |-> whole < limit \/ (limit < Len(rest) /\ max = <<>>),
      bytes |-> used + (IF part > 0 THEN part + 1 ELSE 0)]

\* The last line of a window as its note counts it, a cut line included.
LastLine(w) == w.start + w.whole + (IF w.part > 0 THEN 1 ELSE 0)

-----------------------------------------------------------------------------
(* Reading one document page by page.  The client asks again from the last    *)
(* line of a truncated window, which may have been cut, or from the next one  *)
(* when that line alone filled the window; a window of max_lines lines may    *)
(* not be the end either.                                                     *)

Parsed == parse_file_spec(spec.parts, spec.from, spec.max)
WindowOf(got) == cap_body(got, Parsed.from, Parsed.max, MaxDocBytes)
GoesOn(w) ==
  w.capped \/ (Parsed.max # <<>> /\ Parsed.max # <<0>> /\ w.whole = Parsed.max[1])

\* The document is looked up by its path or docid.
FindDocument ==
  /\ call = "get"
  /\ call' = IF Single \in there THEN "found" ELSE "failed"
  /\ UNCHANGED <<spec, body, read, pattern, colls, active, maxl, report, shown,
                 budget, notes, rowVars>>

get_document ==
  /\ call = "found"
  /\ \E got \in {body, <<>>} :
       LET w == WindowOf(got) IN
       /\ get_document_raw(Single, body, got)
       /\ read' = read \cup (w.start + 1 .. w.start + w.whole)
       /\ IF GoesOn(w)
          THEN /\ spec' = [spec EXCEPT !.from = <<
                    IF w.part > 0 /\ w.whole > 0 THEN LastLine(w) ELSE LastLine(w) + 1>>]
               /\ call' = "get"
          ELSE call' = "done" /\ UNCHANGED spec
  /\ UNCHANGED <<body, pattern, colls, active, maxl, report, shown, budget, notes,
                 there, texts>>

-----------------------------------------------------------------------------
(* Resolving a pattern. *)

Docs == DOMAIN Corpus
Full(d) == <<Corpus[d].coll>> \o Corpus[d].path
Fold(p) == [i \in DOMAIN p |-> Folded[p[i]]]
Suffix(p, n) == \E k \in 1 .. Len(p) - 1 : SubSeq(p, k + 1, Len(p)) = n

Visible(d) == d \in active /\ (colls = {} \/ Corpus[d].coll \in colls)

\* NEEDLE_CLAUSE: the `=` arms compare exactly, the LIKE arms fold ASCII case.
NeedleClause(d, needle) ==
  \/ Corpus[d].path = needle \/ Full(d) = needle
  \/ Suffix(Fold(Corpus[d].path), Fold(needle))
  \/ Suffix(Fold(Full(d)), Fold(needle))

\* Needles are looked up a batch at a time and the rows merged.
find_documents_by_needles(needles) ==
  UNION {{d \in Docs : Visible(d) /\ \E i \in b .. Least2(b + NeedleBatch - 1, Len(needles)) :
                                        NeedleClause(d, needles[i])} :
           b \in {k \in DOMAIN needles : (k - 1) % NeedleBatch = 0}}

\* NeedleIndex::count, over the rows that all the needles found together.
NeedleCount(docs, needle) ==
  LET exact == {d \in docs : needle \in {Corpus[d].path, Full(d)}}
      suffix == {d \in docs : \E p \in {Fold(Corpus[d].path), Fold(Full(d))} :
                                \E k \in 2 .. Len(p) : SubSeq(p, k, Len(p)) = Fold(needle)}
  IN Cardinality(exact \cup suffix)

\* The first active document, in (collection, path) order, whose hash starts
\* with the prefix; an empty prefix finds none.  The filter does not apply.
DocidHits(hex) ==
  LET found == {d \in active : hex # <<>> /\ IsPrefix(hex, Corpus[d].hash)}
  IN {d \in found : \A e \in found : d <= e}

GlobHits(glob) == {d \in glob : Visible(d)}

\* Each part of the pattern in the order the code takes them: docids, then the
\* distinct path entries, then the globs over one listing.
resolve_multi_get_report(entries) ==
  LET Of(kind) == SelectSeq(entries, LAMBDA e : e.kind = kind)
      needles == [i \in DOMAIN Of("path") |-> Of("path")[i].arg]
      byPath == find_documents_by_needles(needles)
      Count(e) == CASE e.kind = "docid" -> Cardinality(DocidHits(e.arg))
                    [] e.kind = "path" -> NeedleCount(byPath, e.arg)
                    [] e.kind = "glob" -> Cardinality(GlobHits(e.arg))
      First(i) == \A j \in 1 .. i - 1 : entries[j] # entries[i]
      Keep(P(_)) == LET at == SelectSeq([i \in DOMAIN entries |-> i],
                                        LAMBDA i : First(i) /\ P(entries[i]))
                    IN [i \in DOMAIN at |-> entries[at[i]]]
  IN [docs |-> SelectSeq([d \in Docs |-> d], LAMBDA d :
                 \/ d \in byPath
                 \/ \E e \in Range(entries) :
                      \/ e.kind = "docid" /\ d \in DocidHits(e.arg)
                      \/ e.kind = "glob" /\ d \in GlobHits(e.arg)),
      unmatched |-> Keep(LAMBDA e : Count(e) = 0),
      ambiguous |-> Keep(LAMBDA e : e.kind = "path" /\ Count(e) > 1)]

-----------------------------------------------------------------------------
(* multi_get. *)

\* One glob that does not parse, or too many paths, fail the whole call.
Bails(entries) ==
  \/ [kind |-> "glob", arg |-> NotAGlob] \in Range(entries)
  \/ Cardinality({e \in Range(entries) : e.kind = "path"}) > MaxDistinctPaths

Resolve ==
  /\ call = "multi_get" /\ report = <<>>
  /\ IF Bails(pattern)
     THEN call' = "failed" /\ UNCHANGED report
     ELSE report' = <<resolve_multi_get_report(pattern)>> /\ UNCHANGED call
  /\ UNCHANGED <<spec, body, read, pattern, colls, active, maxl, shown,
                 budget, notes, rowVars>>

Matched == report[1].docs

\* Variant: the cap is taken off before the count.
cap_before_count(docs) ==
  [docs |-> SubSeq(docs, 1, Least2(MaxDocs, Len(docs))),
   total |-> Least2(MaxDocs, Len(docs)), truncated |-> Len(docs) > MaxDocs]

cap_multi_get_docs(docs) ==
  [docs |-> SubSeq(docs, 1, Least2(MaxDocs, Len(docs))),
   total |-> Len(docs), truncated |-> Len(docs) > MaxDocs]

ByteCap(left) == Least2(MaxDocBytes, left)

ShowDocument ==
  /\ call = "multi_get" /\ report # <<>>
  /\ budget > 0 /\ Len(shown) < Len(cap_multi_get_docs(Matched).docs)
  /\ LET doc == cap_multi_get_docs(Matched).docs[Len(shown) + 1] IN
     \E got \in {texts[doc], <<>>} :
       LET w == cap_body(got, <<>>, maxl, ByteCap(budget)) IN
       /\ get_document_raw(doc, texts[doc], got)
       /\ shown' = Append(shown, [doc |-> doc, lines |-> Len(texts[doc]), window |-> w])
       /\ budget' = Minus(budget, w.bytes)
  /\ UNCHANGED <<call, spec, body, read, pattern, colls, active, maxl, report, notes,
                 there, texts>>

\* The closing notes; entries beyond MaxNoted are only counted.
multi_get_documents ==
  /\ call = "multi_get" /\ report # <<>>
  /\ budget = 0 \/ Len(shown) = Len(cap_multi_get_docs(Matched).docs)
  /\ LET cap == cap_multi_get_docs(Matched)
         entries == report[1].unmatched \o report[1].ambiguous
     IN notes' = [none |-> shown = <<>>,
                  dropped |-> IF cap.truncated THEN cap.total - Len(shown) ELSE 0,
                  omitted |-> Len(cap.docs) - Len(shown),
                  named |-> SubSeq(entries, 1, Least2(MaxNoted, Len(entries))),
                  counted |-> Minus(Len(entries), MaxNoted)]
  /\ call' = "done"
  /\ UNCHANGED <<spec, body, read, pattern, colls, active, maxl, report, shown, budget,
                 rowVars>>

\* Another process removes a collection, or writes another text, between the
\* look-up and the read.
DocumentGoes(d) ==
  /\ call = "found" \/ (call = "multi_get" /\ report # <<>>)
  /\ d \in there /\ there' = there \ {d}
  /\ Mishap
  /\ UNCHANGED <<call, spec, body, read, pattern, colls, active, maxl, report, shown,
                 budget, notes, texts, blank>>

TextChanges(d, text) ==
  /\ call = "multi_get" /\ report # <<>>
  /\ d \in there /\ texts[d] # text
  /\ texts' = [texts EXCEPT ![d] = text]
  /\ Mishap
  /\ UNCHANGED <<call, spec, body, read, pattern, colls, active, maxl, report, shown,
                 budget, notes, there, blank>>

-----------------------------------------------------------------------------

NoSpec == [parts |-> <<-1>>, from |-> <<>>, max |-> <<>>,
           first |-> <<>>]

GetInit ==
  /\ call = "get"
  /\ spec \in [parts : LineSuffixes, from : Asked, max : Asked, first : Asked]
  /\ spec.first = spec.from
  /\ body \in Bodies
  /\ pattern = <<>> /\ colls = {} /\ active = {} /\ maxl = <<>>
  /\ there = {Single} /\ texts = <<>>

MultiGetInit ==
  /\ call = "multi_get"
  /\ pattern \in Patterns
  /\ colls \in Scopes
  /\ active \in SUBSET (DOMAIN Corpus)
  /\ maxl \in Asked
  /\ there = active /\ texts = [d \in DOMAIN Corpus |-> Corpus[d].body]
  /\ spec = NoSpec /\ body = <<>>

ReadInit ==
  /\ GetInit \/ MultiGetInit
  /\ read = {} /\ report = <<>> /\ shown = <<>> /\ budget = TotalBytes
  /\ notes = <<>> /\ blank = {} /\ mishaps = Mishaps

\* No document is read.
NoReading ==
  /\ call = "idle"
  /\ spec = NoSpec /\ body = <<>> /\ read = {} /\ pattern = <<>>
  /\ colls = {} /\ active = {} /\ maxl = <<>> /\ report = <<>> /\ shown = <<>>
  /\ budget = TotalBytes /\ notes = <<>>
  /\ there = {} /\ texts = <<>> /\ blank = {} /\ mishaps = 0

ReadNext ==
  \/ FindDocument \/ get_document
  \/ Resolve \/ ShowDocument \/ multi_get_documents
  \/ \E d \in there : DocumentGoes(d) \/ \E text \in Edited : TextChanges(d, text)

-----------------------------------------------------------------------------

\* A client that follows the notes reads every line from the first one it
\* asked for, in the argument or else in the suffix of the spec, but a line too
\* long for any window, unless one of its reads found no row or failed: that
\* page is empty and looks like the end.
FirstAsked ==
  Head(spec.first \o SelectSeq(spec.parts, LAMBDA n : n >= 0) \o <<1>>)

ReadToTheEnd ==
  call = "done" /\ pattern = <<>> /\ Parsed.max # <<0>> /\ Single \notin blank =>
    \A i \in DOMAIN body :
      i >= FirstAsked /\ body[i] < MaxDocBytes => i \in read

\* What an entry stands for, by itself.
Answers(e) ==
  CASE e.kind = "docid" -> DocidHits(e.arg)
    [] e.kind = "glob" -> GlobHits(e.arg)
    [] e.kind = "path" -> {d \in Docs : Visible(d) /\ NeedleClause(d, e.arg)}

Replied == call = "done" /\ pattern # <<>>

\* Every document that an entry stood for is in the reply once, or the notes
\* count it, whatever goes or fails meanwhile; a body that is not there to its
\* end says so, unless the client's own max_lines ended it or it could not be
\* had when it was read: that one is shown empty, without a note.
EveryDocumentIsAccounted ==
  Replied =>
    LET wanted == UNION {Answers(e) : e \in Range(pattern)}
    IN /\ \A i, j \in DOMAIN shown : i < j => shown[i].doc < shown[j].doc
       /\ {s.doc : s \in Range(shown)} \subseteq wanted
       /\ Cardinality(wanted) =
            Len(shown) + (IF notes.dropped > 0 THEN notes.dropped ELSE notes.omitted)
       /\ notes.none <=> wanted = {}
       /\ \A s \in Range(shown) :
            \/ s.doc \in blank
            \/ s.window.capped
            \/ s.window.whole = s.lines
            \/ maxl # <<>> /\ s.window.whole = maxl[1]

\* The report names or counts exactly the entries that stand for nothing and
\* the paths that stand for several documents, each entry once, although the
\* counts are rebuilt from the rows that all entries found together.
ReportIsTrue ==
  Replied =>
    LET odd == {e \in Range(pattern) :
                  \/ Answers(e) = {}
                  \/ e.kind = "path" /\ Cardinality(Answers(e)) > 1}
    IN /\ Range(notes.named) \subseteq odd
       /\ \A i, j \in DOMAIN notes.named : i # j => notes.named[i] # notes.named[j]
       /\ Len(notes.named) + notes.counted = Cardinality(odd)
       /\ notes.counted > 0 => Len(notes.named) = MaxNoted

\* A reply never carries more body bytes than its budget, nor a document more
\* than its own cap, whatever is left for the last one.
BudgetKept ==
  /\ FoldLeft(LAMBDA sum, s : sum + s.window.bytes, 0, shown) <= TotalBytes
  /\ \A s \in Range(shown) : s.window.bytes <= MaxDocBytes

\* Whatever is asked for is shown, or named among what is not, within the bytes
\* a reply may have, but for a body that could not be read.
ReadingIsAccounted ==
  /\ call \in {"idle", "get", "found", "multi_get", "done", "failed"}
  /\ read \subseteq DOMAIN body
  /\ budget \in 0 .. TotalBytes
  /\ ReadToTheEnd /\ EveryDocumentIsAccounted /\ ReportIsTrue /\ BudgetKept
=============================================================================
