------------------------------ MODULE Chunking ------------------------------
(***************************************************************************)
(* How a document is cut into overlapping chunks, which of them answer a    *)
(* keyword query, and where in the file a snippet is said to be             *)
(* (crates/rqmd-core/src/chunking.rs, ast_chunk.rs and the section helpers  *)
(* of store.rs).                                                            *)
(*                                                                          *)
(* A text is a sequence of bytes, of which only the classes that decide a   *)
(* cut are told apart: "n" is a newline, "h" a heading's `#`, "f" a code    *)
(* fence (its three backticks are one symbol), "b" a table bar, "s" a       *)
(* separator row's dashes, "w" and "c" the first and the second byte of one *)
(* character, "t" and "u" the words of a query, "x" anything else.  Offsets *)
(* are 0-based, as in the code.                                             *)
(***************************************************************************)
EXTENDS Integers, FiniteSets, SequencesExt

CONSTANTS
  Prose, Tables, Code,  \* the line kinds that each family of documents mixes
  Lines,                \* how many lines a document has
  ChunkSize,            \* CHUNK_SIZE_CHARS
  Overlap,              \* CHUNK_OVERLAP_CHARS
  Window,               \* CHUNK_WINDOW_CHARS
  Margin,               \* the context extract_snippet adds before a chunk
  MaxSections,             \* sections shown per file
  MaxChunks             \* bound: a run that cuts more often is cut short

Kind == {"plain", "word", "head", "blank", "fence", "wide", "row", "long", "sep",
         "decl", "inner", "note", "noted"}

ASSUME SizesType ==
  /\ {ChunkSize, Overlap, Window, Margin, Lines, MaxSections, MaxChunks} \subseteq Nat
  /\ Window % 2 = 0
  /\ Prose \cup Tables \cup Code \subseteq Kind

\* The earliest break a window offers still leaves the overlap, and the rest of
\* the character it may start in, behind it.
ASSUME SizesFit == Overlap + 1 < ChunkSize - Window \div 2

VARIABLES
  lines,    \* the document, as line kinds
  text,     \* its bytes
  at,       \* the offset of each line, and of the end
  way,      \* "markdown", or "grammar" for a source file
  breaks,   \* the score of each place where it may be cut
  start,    \* where the next chunk starts
  chunks,   \* the chunks so far
  terms,    \* the words of the query
  todo,     \* the chunks still to be considered as sections, best first
  picked,   \* the sections chosen
  pc

chunkVars == <<lines, text, at, way, breaks, start, chunks, terms, todo, picked, pc>>

-----------------------------------------------------------------------------
(* Texts. *)

Bytes(kind) ==
  CASE kind = "plain"  -> <<"x", "x", "n">>
    [] kind = "word"   -> <<"t", "x", "n">>
    [] kind = "head"   -> <<"h", "x", "n">>
    [] kind = "blank"  -> <<"n">>
    [] kind = "fence"  -> <<"f", "n">>
    [] kind = "wide"   -> <<"w", "c", "w", "c", "n">>
    [] kind = "row"    -> <<"b", "u", "n">>
    [] kind = "long"   -> <<"b", "x", "x", "x", "x", "x", "x", "x", "x", "n">>
    [] kind = "sep"    -> <<"b", "s", "n">>
    [] kind = "decl"   -> <<"t", "x", "n">>   \* a declaration
    [] kind = "inner"  -> <<"u", "n">>        \* one nested in the line above
    [] kind = "note"   -> <<"x", "x", "n">>   \* a comment on a line of its own
    [] kind = "noted"  -> <<"x", "x", "n">>   \* code with a comment after it

Text(ls) == FlattenSeq([i \in DOMAIN ls |-> Bytes(ls[i])])
LineStarts(ls) ==
  [i \in 1 .. Len(ls) + 1 |-> Len(Text(SubSeq(ls, 1, i - 1)))]

At(T, p) == T[p + 1]
Slice(T, from, to) == SubSeq(T, from + 1, to)
Capped(n, T) == IF n < Len(T) THEN n ELSE Len(T)
Less(a, b) == IF a > b THEN a - b ELSE 0
Least(S) == CHOOSE n \in S : \A k \in S : n <= k
Most(S) == CHOOSE n \in S : \A k \in S : n >= k
\* The newlines before p.
Newlines(T, p) == Cardinality({q \in 0 .. p - 1 : At(T, q) = "n"})
Holds(T, word) == \E i \in DOMAIN T : T[i] = word

Boundary(T, p) == p = 0 \/ p >= Len(T) \/ At(T, p) # "c"
snap_forward(T, p) == Least({q \in Capped(p, T) .. Len(T) : Boundary(T, q)})
snap_backward(T, p) == Most({q \in 0 .. Capped(p, T) : Boundary(T, q)})

-----------------------------------------------------------------------------
(* Fences and break points of a markdown text. *)

\* Fences pair up in order of appearance; an unclosed one runs to the end.
scan_code_fences(T) ==
  LET F == {p \in 0 .. Len(T) - 1 : At(T, p) = "f"}
      Opens == {p \in F : Cardinality({q \in F : q < p}) % 2 = 0}
      After(p) == {q \in F : p < q}
  IN {<<p, IF After(p) = {} THEN Len(T) ELSE Least(After(p)) + 1>> : p \in Opens}

inside_fence(p, fences) == \E f \in fences : f[1] < p /\ p < f[2]

\* What a pattern needs to see behind the newline must be in the text.
BreakScore(T, p) ==
  CASE p + 2 < Len(T) /\ At(T, p + 1) = "h" -> 100
    [] p + 1 < Len(T) /\ At(T, p + 1) = "f" -> 80
    [] /\ p + 1 < Len(T) /\ At(T, p + 1) = "n"
       /\ p > 0 => At(T, p - 1) # "n" -> 20
    [] OTHER -> 1

scan_break_points(T, fences) ==
  [p \in {q \in 0 .. Len(T) - 1 : At(T, q) = "n" /\ ~inside_fence(q, fences)}
     |-> BreakScore(T, p)]

\* The best score in [lo, hi), the latest of equals, and `otherwise` when the
\* window holds none.
BestBreak(points, lo, hi, otherwise) ==
  LET In == {p \in DOMAIN points : lo <= p /\ p < hi}
      Top == {p \in In : \A q \in In : points[q] <= points[p]}
  IN IF In = {} THEN otherwise ELSE Most(Top)

-----------------------------------------------------------------------------
(* Break points of a source text: its declarations, each with the comments   *)
(* that sit on their own lines just above it.                                *)

\* A comment that trails code on its line ends the run above a declaration.
BoundaryLine(ls, i) ==
  Least({j \in 1 .. i : \A k \in j .. i - 1 : ls[k] = "note"})

collect_boundaries(ls, outermost) ==
  {at[BoundaryLine(ls, i)] :
     i \in {k \in DOMAIN ls : \/ ls[k] = "decl"
                              \/ ls[k] = "inner" /\ ~outermost}}

-----------------------------------------------------------------------------
(* Tables. *)

PipeLine(ls, i, fences) ==
  ls[i] \in {"row", "long", "sep"} /\ ~inside_fence(at[i], fences)

\* A run of pipe rows whose second is a separator row: where it starts, where
\* its data rows start and where it ends.
scan_tables(ls, fences) ==
  LET Pipe(i) == i \in DOMAIN ls /\ PipeLine(ls, i, fences)
      Runs == {r \in (DOMAIN ls) \X (DOMAIN ls) :
                 /\ r[1] < r[2] /\ ls[r[1] + 1] = "sep"
                 /\ \A i \in r[1] .. r[2] : Pipe(i)
                 /\ ~Pipe(r[1] - 1) /\ ~Pipe(r[2] + 1)}
  IN {[from |-> at[r[1]], data |-> at[r[1] + 2], to |-> at[r[2] + 1]] :
        r \in Runs}

\* Variant: the row that p is in, not the next one.
row_before(T, p) == Most({0} \cup {q \in 1 .. p : At(T, q - 1) = "n"})

\* Where the first whole row from p on starts.
RowStart(T, p) ==
  IF At(T, p - 1) = "n" THEN p
  ELSE Least({q + 1 : q \in {k \in p .. Len(T) - 1 : At(T, k) = "n"}}
               \cup {Len(T)})

\* One chunk of carry_table_headers.
CarryHeader(T, c, tables) ==
  LET Hit == {t \in tables : t.from < c.pos /\ c.pos < t.to}
      t == CHOOSE t \in Hit : TRUE
      row == RowStart(T, c.pos)
  IN CASE Hit = {} -> c
       [] Hit # {} /\ c.pos < t.data -> [c EXCEPT !.pos = t.from]
       [] OTHER -> IF \/ t.data - t.from > Window   \* MAX_TABLE_HEADER_CHARS
                      \/ row >= c.end \/ row >= t.to
                   THEN c
                   ELSE [c EXCEPT !.pos = row,
                                  !.head = Slice(T, t.from, t.data)]

-----------------------------------------------------------------------------
(* Cutting. *)

Chunk(from, to) == [pos |-> from, end |-> to, head |-> <<>>]
Shown(T, c) == c.head \o Slice(T, c.pos, c.end)

\* The markdown chunker, or the grammar's for a source file whose parse ends
\* in time and finds a declaration.
chunk_document_for_path ==
  /\ pc = "scan"
  /\ \/ /\ breaks' = scan_break_points(text, scan_code_fences(text))
        /\ way' = "markdown"
     \/ \E outermost \in BOOLEAN :
          LET found == collect_boundaries(lines, outermost)
          IN /\ found # {}
             /\ breaks' = [p \in found |-> 100]
             /\ way' = "grammar"
  /\ pc' = "cut"
  /\ UNCHANGED <<lines, text, at, start, chunks, terms, todo, picked>>

IdealEnd == Capped(start + ChunkSize, text)

\* Variant: only the end of the window bounds the search.
any_break(T, points, from) ==
  LET ideal == Capped(from + ChunkSize, T)
  IN snap_forward(T, BestBreak(points, from, Capped(ideal + Window \div 2, T), ideal))

\* Where the chunk from `from` ends when the text goes on after it.
CutAt(T, points, from) ==
  LET ideal == Capped(from + ChunkSize, T)
  IN snap_forward(T, BestBreak(points, Less(ideal, Window \div 2),
                               Capped(ideal + Window \div 2, T), ideal))

\* Variant: the next chunk skips what a break leaves before the ideal end.
resume_at_ideal(T, from, end) == Capped(from + ChunkSize, T)

\* Where the chunk after [from, end) starts.
NextStart(T, from, end) ==
  LET back == snap_backward(T, Less(end, Overlap))
  IN IF back >= end THEN end ELSE back

\* One round of chunk_from_break_points.
Cut ==
  /\ pc = "cut"
  /\ Len(chunks) < MaxChunks
  /\ LET last == IdealEnd = Len(text)
         end == IF last THEN Len(text) ELSE CutAt(text, breaks, start)
     IN /\ chunks' = Append(chunks, Chunk(start, end))
        /\ start' = IF last THEN Len(text) ELSE NextStart(text, start, end)
        /\ pc' = IF last THEN "carry" ELSE "cut"
  /\ UNCHANGED <<lines, text, at, way, breaks, terms, todo, picked>>

carry_table_headers ==
  /\ pc = "carry"
  /\ chunks' = IF way = "grammar" THEN chunks
               ELSE LET tables == scan_tables(lines, scan_code_fences(text))
                    IN [i \in DOMAIN chunks |-> CarryHeader(text, chunks[i], tables)]
  /\ pc' = "score"
  /\ UNCHANGED <<lines, text, at, way, breaks, start, terms, todo, picked>>

\* The first chunk alone, from the prefix its window reaches into.
first_chunk(T) ==
  IF Len(T) <= ChunkSize THEN T
  ELSE LET prefix == Slice(T, 0, snap_forward(T, Capped(ChunkSize + Window \div 2, T)))
       IN Slice(T, 0, CutAt(prefix, scan_break_points(prefix, scan_code_fences(prefix)), 0))

-----------------------------------------------------------------------------
(* The sections of a file that answer a query. *)

Hits(words, T, c) == Cardinality({w \in words : Holds(Shown(T, c), w)})

Length(c) == Len(c.head) + c.end - c.pos

\* The part of a chunk's text that no chunk in `taken` covers, as the code
\* computes it from the chunks' offsets and lengths.
uncovered_text(T, c, taken) ==
  LET End(o) == o.pos + Length(o)
      Before == {o \in Range(taken) : o.pos <= c.pos /\ c.pos < End(o)}
      After == {o \in Range(taken) : c.pos < o.pos /\ o.pos < c.pos + Length(c)}
      from == Most({0} \cup {Least({End(o) - c.pos, Length(c)}) : o \in Before})
      to == Least({Length(c)} \cup {o.pos - c.pos : o \in After})
  IN Slice(Shown(T, c), from, IF to < from THEN from ELSE to)

IsSection(T, c, taken) ==
  taken = <<>> \/ \E w \in terms : Holds(uncovered_text(T, c, taken), w)

\* The chunks with the most hits first, the later of equals before the earlier.
BestFirst(hits) ==
  LET Ahead(j, i) == hits[j] > hits[i] \/ (hits[j] = hits[i] /\ j > i)
  IN [n \in DOMAIN hits |->
        CHOOSE i \in DOMAIN hits : Cardinality({j \in DOMAIN hits : Ahead(j, i)}) = n - 1]

\* best_chunks ranks the chunks by the words they contain, the later of
\* equals first; a query without words shows the first chunk.
RankChunks ==
  /\ pc = "score"
  /\ terms' \in {{"t", "u"}, {}}
  /\ IF terms' = {}
     THEN /\ picked' = <<chunks[1]>>
          /\ todo' = <<>>
          /\ pc' = "done"
     ELSE /\ todo' = BestFirst([i \in DOMAIN chunks |-> Hits(terms', text, chunks[i])])
          /\ pc' = "pick"
          /\ UNCHANGED picked
  /\ UNCHANGED <<lines, text, at, way, breaks, start, chunks>>

EnoughShown ==
  todo # <<>> /\ Len(picked) < MaxSections =>
    picked # <<>> /\ Hits(terms, text, chunks[Head(todo)]) = 0

Pick ==
  /\ pc = "pick" /\ ~EnoughShown
  /\ LET c == chunks[Head(todo)]
     IN picked' = IF IsSection(text, c, picked) THEN Append(picked, c) ELSE picked
  /\ todo' = Tail(todo)
  /\ UNCHANGED <<lines, text, at, way, breaks, start, chunks, terms, pc>>

PickingEnds ==
  /\ pc = "pick" /\ EnoughShown
  /\ pc' = "done"
  /\ UNCHANGED <<lines, text, at, way, breaks, start, chunks, terms, todo, picked>>

-----------------------------------------------------------------------------
(* Snippets. *)

\* str::lines: a newline at the very end opens no further line.
LineCount(T) ==
  LET newlines == Newlines(T, Len(T))
  IN IF Len(T) = 0 \/ At(T, Len(T) - 1) = "n" THEN newlines ELSE newlines + 1

\* What line i (0-based) of a text holds.
LineAt(T, i) ==
  {At(T, p) : p \in {q \in 0 .. Len(T) - 1 : At(T, q) # "n" /\ Newlines(T, q) = i}}

\* The first line of T, from 0, with the most words of the query; 0 when it
\* has no line.
BestLine(T) ==
  LET Score(i) == Cardinality({"t", "u"} \cap LineAt(T, i))
      All == 0 .. LineCount(T) - 1
  IN IF All = {} THEN 0
     ELSE Least({i \in All : \A j \in All : Score(j) <= Score(i)})

\* The lines of the file before the region that starts at p.
line_offset(T, p) == Less(LineCount(Slice(T, 0, p)), 1)

\* The line (from 1) that extract_snippet reports for a chunk of `len` bytes.
extract_snippet(T, pos, len) ==
  LET lo == snap_backward(T, Less(pos, Margin))
      hi == snap_forward(T, Capped(pos + len + Margin, T))
      region == Slice(T, lo, hi)
      missed == \A w \in {"t", "u"} : ~Holds(region, w)
  IN IF pos = 0 THEN BestLine(T) + 1
     ELSE line_offset(T, lo) + 1
          + (IF missed THEN Less(LineCount(Slice(T, lo, pos)), 1)
             ELSE BestLine(region))

-----------------------------------------------------------------------------

AnyText ==
  UNION {[1 .. Lines -> Prose], [1 .. Lines -> Tables], [1 .. Lines -> Code]}

ChunkInit ==
  /\ lines \in AnyText
  /\ text = Text(lines)
  /\ at = LineStarts(lines)
  /\ way = "none" /\ breaks = <<>> /\ start = 0 /\ chunks = <<>>
  /\ terms = {} /\ todo = <<>> /\ picked = <<>>
  /\ pc = "scan"

NoChunking ==
  /\ lines = <<>> /\ text = <<>> /\ at = <<0>>
  /\ way = "none" /\ breaks = <<>> /\ start = 0 /\ chunks = <<>>
  /\ terms = {} /\ todo = <<>> /\ picked = <<>>
  /\ pc = "done"

ChunkNext ==
  \/ chunk_document_for_path \/ Cut \/ carry_table_headers
  \/ RankChunks \/ Pick \/ PickingEnds

-----------------------------------------------------------------------------
(* Properties. *)

Fences == scan_code_fences(text)
AllTables == scan_tables(lines, Fences)
Bytewise(c) == c.pos .. c.end - 1
LineBytes(i) == at[i] .. at[i + 1] - 1

\* Every chunk is a stretch of the text that begins and ends between
\* characters (a cut inside one makes str slicing panic), whatever the window,
\* the overlap and the grammar leave it to start at.
ChunkTypes ==
  /\ way \in {"none", "markdown", "grammar"}
  /\ start \in 0 .. Len(text)
  /\ pc \in {"scan", "cut", "carry", "score", "pick", "done"}
  /\ \A c \in Range(chunks) :
       /\ 0 <= c.pos /\ c.pos <= c.end /\ c.end <= Len(text)
       /\ Boundary(text, c.pos) /\ Boundary(text, c.end)

\* No text is missing from every chunk: break points, overlap, the move to the
\* next table row and the grammar's boundaries leave no gap but newlines, and
\* but for a table row that no window of break points sees the end of.
NothingIsLost ==
  pc = "score" =>
    \A p \in 0 .. Len(text) - 1 :
      \/ At(text, p) = "n"
      \/ \E c \in Range(chunks) : p \in Bytewise(c)
      \/ \E i \in DOMAIN lines :
           /\ p \in LineBytes(i)
           /\ Len(Bytes(lines[i])) > Window
           /\ \E t \in AllTables : t.data <= p /\ p < t.to

\* A markdown chunk ends inside a code fence only when its window holds no line
\* end outside one.
FencesAreCutLast ==
  pc = "carry" /\ way = "markdown" =>
    \A i \in 1 .. Len(chunks) - 1 :
      LET ideal == chunks[i].pos + ChunkSize
      IN inside_fence(chunks[i].end, Fences) =>
           \A p \in ideal - Window \div 2 .. Capped(ideal + Window \div 2, text) - 1 :
             At(text, p) = "n" => inside_fence(p, Fences)

\* A chunk that shows a whole data row of a table shows the table's header
\* too, unless the header is too long to repeat.
RowsKeepTheirHeader ==
  pc = "score" /\ way = "markdown" =>
    \A t \in AllTables : \A c \in Range(chunks), i \in DOMAIN lines :
      (/\ t.data - t.from <= Window
       /\ t.data <= at[i] /\ at[i + 1] <= t.to
       /\ LineBytes(i) \subseteq Bytewise(c))
      => c.pos <= t.from \/ c.head = Slice(text, t.from, t.data)

\* Two chunks of a document start at different places, so that the place
\* stored with a vector finds its chunk again, unless both started inside the
\* header of one table or inside a row longer than a window.
PlacesTellChunksApart ==
  pc = "score" =>
    \A i, j \in DOMAIN chunks :
      i # j /\ chunks[i].pos = chunks[j].pos =>
        \/ \E t \in AllTables : chunks[i].pos = t.from
        \/ \E k \in DOMAIN lines :
             Len(Bytes(lines[k])) > Window /\ chunks[i].pos = at[k + 1]

WordsShown(c) == {p \in Bytewise(c) : At(text, p) \in terms}
NoHeaders == \A c \in Range(chunks) : c.head = <<>>

\* Where no table header is repeated, each section after the first shows a
\* word of the query that no earlier section shows, and when fewer sections
\* than asked for are shown, every word found in a chunk is in one of them.
SectionsShowEveryHitOnce ==
  /\ NoHeaders =>
       \A k \in 2 .. Len(picked) :
         ~(WordsShown(picked[k]) \subseteq
             UNION {WordsShown(picked[i]) : i \in 1 .. k - 1})
  /\ pc = "done" /\ NoHeaders /\ Len(picked) < MaxSections =>
       UNION {WordsShown(c) : c \in Range(chunks)}
         \subseteq UNION {WordsShown(c) : c \in Range(picked)}

\* The words of the query on the line that holds offset p, and its number
\* from 1.
LineOf(p) == 1 + Newlines(text, p)

\* A snippet is said to stand at its best line or one above it; where the
\* chunk shows no word, at the line it starts on or at most two above.
SnippetLineIsNear ==
  pc = "score" =>
    \A c \in Range(chunks) :
      LET line == extract_snippet(text, c.pos, c.end - c.pos)
          lo == snap_backward(text, Less(c.pos, Margin))
          hi == snap_forward(text, Capped(c.end + Margin, text))
          found == {p \in lo .. hi - 1 : At(text, p) \in {"t", "u"}}
      IN \/ c.pos = 0
         \/ \E p \in found : LineOf(p) - line \in {0, 1}
         \/ found = {} /\ LineOf(c.pos) - line \in 0 .. 2

\* The first chunk computed from a prefix is the first chunk of the document,
\* unless a line ends so close to the end of the window that what follows it
\* is cut off.
PrefixIsEnough ==
  pc = "score" /\ way = "markdown" =>
    \/ first_chunk(text) = Shown(text, chunks[1])
    \/ /\ Len(text) > ChunkSize + Window \div 2
       /\ \E back \in {1, 2} : At(text, ChunkSize + Window \div 2 - back) = "n"

\* Cutting ends: whatever break a round takes, and however far the overlap and
\* a character's first byte take it back, the next round starts further on.
RoundsMoveOn == [][pc = "cut" /\ pc' = "cut" => start < start']_chunkVars

\* The chunks are the document: cut between characters, nothing missing, code
\* and tables kept together where the window lets them.
ChunksAreWhole == ChunkTypes /\ NothingIsLost /\ FencesAreCutLast /\ RowsKeepTheirHeader

\* What a search shows of a document is in it, where it says: chunks told apart
\* by their place, sections that differ, line numbers, the opening chunk.
PlacesAreTrue ==
  PlacesTellChunksApart /\ SectionsShowEveryHitOnce /\ SnippetLineIsNear /\ PrefixIsEnough
=============================================================================
