--------------------------- MODULE PassagesProofs ---------------------------
(* Proofs about Chunking for every document and every size of chunk, overlap  *)
(* and window, and about Inference for every window, margin, cap and set of   *)
(* texts.                                                                     *)
EXTENDS Passages, FiniteSetTheorems, WellFoundedInduction, TLAPS

\* A set of numbers has a least one.
LEMMA LeastOf ==
  ASSUME NEW T \in SUBSET Nat, T # {}
  PROVE  \E x \in T : \A y \in T : x <= y
<1>1. PICK R : R = {ss \in Nat \X Nat : ss[1] < ss[2]}
  OBVIOUS
<1>2. IsWellFoundedOn(R, Nat)
  BY <1>1, NatLessThanWellFounded DEF OpToRel
<1>3. PICK x \in T : \A y \in T : <<y, x>> \notin R
  BY <1>2, WFMin
<1>4. ASSUME NEW y \in T PROVE x <= y
  <2>1. x \in Nat /\ y \in Nat /\ <<y, x>> \notin R
    BY <1>3
  <2>2. ~(y < x)
    BY <1>1, <2>1
  <2> QED BY <2>1, <2>2
<1> QED BY <1>4

\* Least is the least of a set of numbers.
LEMMA LeastIs ==
  ASSUME NEW T \in SUBSET Nat, T # {}
  PROVE  Least(T) \in T /\ \A y \in T : Least(T) <= y
<1>1. \E x \in T : \A y \in T : x <= y
  BY LeastOf
<1> QED BY <1>1 DEF Least

\* Most is the most of a bounded set of numbers.
LEMMA MostIs ==
  ASSUME NEW T \in SUBSET Nat, T # {}, NEW n \in Nat, \A y \in T : y <= n
  PROVE  Most(T) \in T /\ \A y \in T : y <= Most(T)
<1> DEFINE U == {k \in Nat : \E y \in T : k = n - y}
<1>1. U # {}
  <2>1. PICK y \in T : TRUE
    OBVIOUS
  <2>2. n - y \in Nat
    BY <2>1
  <2> QED BY <2>1, <2>2
<1>2. PICK x \in U : \A y \in U : x <= y
  BY <1>1, LeastOf
<1>3. PICK m \in T : x = n - m
  BY <1>2
<1>4. \A y \in T : y <= m
  <2> SUFFICES ASSUME NEW y \in T PROVE y <= m
    OBVIOUS
  <2>1. n - y \in U
    OBVIOUS
  <2>2. x <= n - y
    BY <1>2, <2>1
  <2>3. y \in Nat /\ m \in Nat
    BY <1>3
  <2> QED BY <1>3, <2>2, <2>3
<1>5. \E z \in T : \A y \in T : z >= y
  <2>1. \A y \in T : m >= y
    <3>1. \A y \in T : y \in Nat
      OBVIOUS
    <3> QED BY <1>3, <1>4, <3>1
  <2> QED BY <1>3, <2>1
<1>6. Most(T) \in T /\ \A y \in T : Most(T) >= y
  BY <1>5 DEF Most
<1>7. \A y \in T : y \in Nat
  OBVIOUS
<1> QED BY <1>6, <1>7

-----------------------------------------------------------------------------
(* The bytes of a document. *)

Byte == {"n", "h", "f", "b", "s", "w", "c", "t", "u", "x"}

\* What every line is: it ends with its only newline, and its characters are
\* whole; the line of a table has no fence.
LEMMA BytesAre ==
  ASSUME NEW kind \in Kind
  PROVE  /\ Bytes(kind) \in Seq(Byte) /\ Len(Bytes(kind)) >= 1
         /\ \A k \in 1 .. Len(Bytes(kind)) : Bytes(kind)[k] = "n" <=> k = Len(Bytes(kind))
         /\ Bytes(kind)[1] # "c"
         /\ \A k \in 2 .. Len(Bytes(kind)) : Bytes(kind)[k] = "c" => Bytes(kind)[k - 1] # "c"
         /\ kind \in {"row", "long", "sep"} =>
              \A k \in 1 .. Len(Bytes(kind)) : Bytes(kind)[k] \notin {"c", "f"}
<1> DEFINE Right(B) ==
      /\ B \in Seq(Byte) /\ Len(B) >= 1
      /\ \A k \in 1 .. Len(B) : B[k] = "n" <=> k = Len(B)
      /\ B[1] # "c"
      /\ \A k \in 2 .. Len(B) : B[k] = "c" => B[k - 1] # "c"
<1>1. CASE kind \in {"plain", "note", "noted"}
  <2>1. Bytes(kind) = <<"x", "x", "n">>
    BY <1>1 DEF Bytes
  <2>2. Right(<<"x", "x", "n">>)
    BY DEF Byte
  <2> QED BY <1>1, <2>1, <2>2
<1>2. CASE kind \in {"word", "decl"}
  <2>1. Bytes(kind) = <<"t", "x", "n">>
    BY <1>2 DEF Bytes
  <2>2. Right(<<"t", "x", "n">>)
    BY DEF Byte
  <2> QED BY <1>2, <2>1, <2>2
<1>3. CASE kind = "head"
  <2>1. Bytes(kind) = <<"h", "x", "n">>
    BY <1>3 DEF Bytes
  <2>2. Right(<<"h", "x", "n">>)
    BY DEF Byte
  <2> QED BY <1>3, <2>1, <2>2
<1>4. CASE kind = "blank"
  <2>1. Bytes(kind) = <<"n">>
    BY <1>4 DEF Bytes
  <2>2. Right(<<"n">>)
    BY DEF Byte
  <2> QED BY <1>4, <2>1, <2>2
<1>5. CASE kind = "fence"
  <2>1. Bytes(kind) = <<"f", "n">>
    BY <1>5 DEF Bytes
  <2>2. Right(<<"f", "n">>)
    BY DEF Byte
  <2> QED BY <1>5, <2>1, <2>2
<1>6. CASE kind = "wide"
  <2>1. Bytes(kind) = <<"w", "c", "w", "c", "n">>
    BY <1>6 DEF Bytes
  <2>2. Right(<<"w", "c", "w", "c", "n">>)
    BY DEF Byte
  <2> QED BY <1>6, <2>1, <2>2
<1>7. CASE kind = "inner"
  <2>1. Bytes(kind) = <<"u", "n">>
    BY <1>7 DEF Bytes
  <2>2. Right(<<"u", "n">>)
    BY DEF Byte
  <2> QED BY <1>7, <2>1, <2>2
<1>8. CASE kind = "row"
  <2>1. Bytes(kind) = <<"b", "u", "n">>
    BY <1>8 DEF Bytes
  <2>2. Right(<<"b", "u", "n">>)
        /\ \A k \in 1 .. Len(<<"b", "u", "n">>) : <<"b", "u", "n">>[k] \notin {"c", "f"}
    BY DEF Byte
  <2> QED BY <2>1, <2>2
<1>9. CASE kind = "sep"
  <2>1. Bytes(kind) = <<"b", "s", "n">>
    BY <1>9 DEF Bytes
  <2>2. Right(<<"b", "s", "n">>)
        /\ \A k \in 1 .. Len(<<"b", "s", "n">>) : <<"b", "s", "n">>[k] \notin {"c", "f"}
    BY DEF Byte
  <2> QED BY <2>1, <2>2
<1>10. CASE kind = "long"
  <2> DEFINE B == <<"b", "x", "x", "x", "x", "x", "x", "x", "x", "n">>
  <2>1. Bytes(kind) = B
    BY <1>10 DEF Bytes
  <2>2. Right(B) /\ \A k \in 1 .. Len(B) : B[k] \notin {"c", "f"}
    BY DEF Byte
  <2> QED BY <2>1, <2>2
<1> QED BY <1>1, <1>2, <1>3, <1>4, <1>5, <1>6, <1>7, <1>8, <1>9, <1>10 DEF Kind

-----------------------------------------------------------------------------
(* A text is its lines, one after the other. *)

\* What the first i sequences of s make, for each i.
Flat(f, s) == f = [i \in 1 .. Len(s) |-> IF i = 1 THEN s[i] ELSE f[i - 1] \o s[i]]

\* The same, entry by entry up to n.
FlatTo(f, s, n) == \A i \in 1 .. n : f[i] = IF i = 1 THEN s[i] ELSE f[i - 1] \o s[i]

\* It exists for the first n: each entry extends the one before.
LEMMA FlatToThere ==
  ASSUME NEW s, NEW n \in Nat
  PROVE  \E f : FlatTo(f, s, n)
<1> DEFINE T == {m \in Nat : ~ \E f : FlatTo(f, s, m)}
<1>1. SUFFICES ASSUME T # {} PROVE FALSE
  OBVIOUS
<1>2. PICK m \in T : \A y \in T : m <= y
  BY <1>1, LeastOf
<1>3. m # 0
  <2>1. FlatTo(<<>>, s, 0)
    BY DEF FlatTo
  <2> QED BY <2>1, <1>2
<1>4. m \in Nat /\ m - 1 \in Nat /\ ~(m <= m - 1)
  BY <1>2, <1>3
<1>5. m - 1 \notin T
  BY <1>2, <1>4
<1>6. PICK f : FlatTo(f, s, m - 1)
  BY <1>4, <1>5
<1> DEFINE g == [k \in 1 .. m |-> IF k = m THEN (IF m = 1 THEN s[m] ELSE f[m - 1] \o s[m]) ELSE f[k]]
<1>7. \A k \in 1 .. m : g[k] = IF k = 1 THEN s[k] ELSE g[k - 1] \o s[k]
  <2> SUFFICES ASSUME NEW k \in 1 .. m PROVE g[k] = IF k = 1 THEN s[k] ELSE g[k - 1] \o s[k]
    OBVIOUS
  <2>1. CASE k = m
    <3>1. g[k] = IF m = 1 THEN s[m] ELSE f[m - 1] \o s[m]
      BY <1>4, <2>1
    <3>2. k # 1 => g[k - 1] = f[m - 1]
      BY <1>4, <2>1
    <3> HIDE DEF g
    <3> QED BY <2>1, <3>1, <3>2
  <2>2. CASE k # m
    <3>1. k \in 1 .. (m - 1) /\ g[k] = f[k] /\ (k # 1 => g[k - 1] = f[k - 1])
      BY <1>4, <2>2
    <3> HIDE DEF g
    <3> QED BY <1>6, <3>1 DEF FlatTo
  <2> QED BY <2>1, <2>2
<1> HIDE DEF g
<1>8. FlatTo(g, s, m)
  BY <1>7 DEF FlatTo
<1> QED BY <1>2, <1>8

\* So the function that FlattenSeq computes with exists.
LEMMA FlatThere ==
  ASSUME NEW s, Len(s) \in Nat
  PROVE  \E f : Flat(f, s)
<1>1. PICK f : FlatTo(f, s, Len(s))
  BY FlatToThere
<1> DEFINE g == [i \in 1 .. Len(s) |-> f[i]]
<1>2. \A i \in 1 .. Len(s) : g[i] = IF i = 1 THEN s[i] ELSE g[i - 1] \o s[i]
  <2> SUFFICES ASSUME NEW i \in 1 .. Len(s) PROVE g[i] = IF i = 1 THEN s[i] ELSE g[i - 1] \o s[i]
    OBVIOUS
  <2>1. g[i] = f[i] /\ (i # 1 => g[i - 1] = f[i - 1])
    OBVIOUS
  <2> HIDE DEF g
  <2> QED BY <1>1, <2>1 DEF FlatTo
<1>3. g = [i \in 1 .. Len(s) |-> g[i]]
  OBVIOUS
<1> HIDE DEF g
<1>4. Flat(g, s)
  BY <1>2, <1>3 DEF Flat
<1> QED BY <1>4

\* FlattenSeq is the last entry.
LEMMA FlattenIs ==
  ASSUME NEW s, Len(s) \in Nat, Len(s) # 0
  PROVE  \E f : FlatTo(f, s, Len(s)) /\ FlattenSeq(s) = f[Len(s)]
<1> DEFINE flatten == CHOOSE f : Flat(f, s)
<1>1. FlattenSeq(s) = flatten[Len(s)]
  BY DEF FlattenSeq, Flat
<1>2. Flat(flatten, s)
  BY FlatThere
<1> HIDE DEF flatten
<1>3. FlatTo(flatten, s, Len(s))
  BY <1>2 DEF Flat, FlatTo
<1> QED BY <1>1, <1>3

\* Entries up to n depend on the first n sequences only.
LEMMA FlatAgrees ==
  ASSUME NEW s, NEW r, NEW n \in Nat, \A i \in 1 .. n : s[i] = r[i],
         NEW f, NEW g, FlatTo(f, s, n), FlatTo(g, r, n)
  PROVE  \A i \in 1 .. n : f[i] = g[i]
<1> DEFINE T == {m \in Nat : m \in 1 .. n /\ f[m] # g[m]}
<1>1. SUFFICES ASSUME T # {} PROVE FALSE
  OBVIOUS
<1>2. PICK m \in T : \A y \in T : m <= y
  BY <1>1, LeastOf
<1>3. m \in 1 .. n /\ f[m] # g[m] /\ s[m] = r[m]
  BY <1>2
<1>4. CASE m = 1
  BY <1>3, <1>4 DEF FlatTo
<1>5. CASE m # 1
  <2>1. m - 1 \in Nat /\ m - 1 \in 1 .. n /\ ~(m <= m - 1)
    BY <1>3, <1>5
  <2>2. m - 1 \notin T
    BY <1>2, <2>1
  <2>3. f[m - 1] = g[m - 1]
    BY <2>1, <2>2
  <2> QED BY <1>3, <1>5, <2>3 DEF FlatTo
<1> QED BY <1>4, <1>5

\* The first n lines.
Prefix(ls, n) == Text(SubSeq(ls, 1, n))

\* The text of the lines before line n.
LEMMA PrefixOfLines ==
  ASSUME NEW ls \in Seq(Kind), NEW n \in 0 .. Len(ls)
  PROVE  LET s == [i \in DOMAIN SubSeq(ls, 1, n) |-> Bytes(SubSeq(ls, 1, n)[i])]
         IN /\ Prefix(ls, n) = FlattenSeq(s) /\ Len(s) = n
            /\ \A i \in 1 .. n : s[i] = Bytes(ls[i])
            /\ n = 0 => s = <<>>
<1> DEFINE p == SubSeq(ls, 1, n)
           s == [i \in DOMAIN p |-> Bytes(p[i])]
<1>1. DOMAIN p = 1 .. n /\ \A i \in 1 .. n : p[i] = ls[i]
  OBVIOUS
<1>2. Prefix(ls, n) = FlattenSeq(s)
  BY DEF Prefix, Text
<1> HIDE DEF p
<1>3. s = [i \in 1 .. n |-> Bytes(ls[i])]
  BY <1>1
<1> HIDE DEF s
<1>4. Len(s) = n /\ \A i \in 1 .. n : s[i] = Bytes(ls[i])
  BY <1>3
<1>5. n = 0 => s = <<>>
  BY <1>3
<1> QED BY <1>2, <1>4, <1>5 DEF s, p

\* One more line adds its bytes.
LEMMA PrefixSteps ==
  ASSUME NEW ls \in Seq(Kind)
  PROVE  /\ Prefix(ls, 0) = <<>>
         /\ \A n \in 0 .. Len(ls) : Prefix(ls, n) \in Seq(Byte)
         /\ \A n \in 0 .. Len(ls) - 1 : Prefix(ls, n + 1) = Prefix(ls, n) \o Bytes(ls[n + 1])
<1> DEFINE S(n) == [i \in DOMAIN SubSeq(ls, 1, n) |-> Bytes(SubSeq(ls, 1, n)[i])]
<1>1. ASSUME NEW n \in 0 .. Len(ls)
      PROVE  /\ Prefix(ls, n) = FlattenSeq(S(n)) /\ Len(S(n)) = n
             /\ \A i \in 1 .. n : S(n)[i] = Bytes(ls[i])
             /\ n = 0 => S(n) = <<>>
  BY PrefixOfLines
<1> HIDE DEF S
<1>2. Len(ls) \in Nat /\ \A i \in 1 .. Len(ls) : ls[i] \in Kind
  OBVIOUS
<1>3. Prefix(ls, 0) = <<>>
  <2>1. Prefix(ls, 0) = FlattenSeq(S(0)) /\ Len(S(0)) = 0 /\ S(0) = <<>>
    BY <1>1, <1>2
  <2> QED BY <2>1 DEF FlattenSeq
<1>4. ASSUME NEW n \in 0 .. Len(ls) - 1
      PROVE  Prefix(ls, n + 1) = Prefix(ls, n) \o Bytes(ls[n + 1])
  <2> DEFINE m == n + 1
  <2>1. m \in 0 .. Len(ls) /\ m \in Nat /\ m # 0 /\ n \in 0 .. Len(ls) /\ m - 1 = n /\ m \in 1 .. m
    BY <1>2
  <2>2. Prefix(ls, m) = FlattenSeq(S(m)) /\ Len(S(m)) = m /\ \A i \in 1 .. m : S(m)[i] = Bytes(ls[i])
    BY <1>1, <2>1
  <2>3. PICK f : FlatTo(f, S(m), m) /\ Prefix(ls, m) = f[m]
    BY <2>1, <2>2, FlattenIs
  <2>4. CASE n = 0
    <3>1. f[m] = Bytes(ls[m])
      BY <2>1, <2>2, <2>3, <2>4 DEF FlatTo
    <3>2. Bytes(ls[m]) \in Seq(Byte)
      BY <1>2, <2>1, BytesAre
    <3>3. <<>> \o Bytes(ls[m]) = Bytes(ls[m])
      BY <3>2
    <3> QED BY <1>3, <2>3, <2>4, <3>1, <3>3
  <2>5. CASE n # 0
    <3>1. Prefix(ls, n) = FlattenSeq(S(n)) /\ Len(S(n)) = n /\ \A i \in 1 .. n : S(n)[i] = Bytes(ls[i])
      BY <1>1, <2>1
    <3>2. PICK g : FlatTo(g, S(n), n) /\ Prefix(ls, n) = g[n]
      BY <2>1, <2>5, <3>1, FlattenIs
    <3>3. FlatTo(f, S(m), n)
      BY <2>1, <2>3 DEF FlatTo
    <3>4. \A i \in 1 .. n : S(m)[i] = S(n)[i]
      BY <2>1, <2>2, <3>1
    <3>5. \A i \in 1 .. n : f[i] = g[i]
      BY <2>1, <3>2, <3>3, <3>4, FlatAgrees
    <3>6. f[n] = g[n]
      BY <2>1, <2>5, <3>5
    <3>7. f[m] = f[n] \o S(m)[m]
      <4>1. m # 1 /\ m \in 1 .. m /\ m - 1 = n
        BY <2>1, <2>5
      <4> HIDE DEF m
      <4>2. f[m] = f[m - 1] \o S(m)[m]
        BY <2>3, <4>1 DEF FlatTo
      <4> QED BY <4>1, <4>2
    <3>8. S(m)[m] = Bytes(ls[m])
      BY <2>1, <2>2
    <3> QED BY <2>3, <3>2, <3>6, <3>7, <3>8
  <2> QED BY <2>4, <2>5
<1>5. \A n \in 0 .. Len(ls) : Prefix(ls, n) \in Seq(Byte)
  <2> DEFINE T == {m \in Nat : m <= Len(ls) /\ Prefix(ls, m) \notin Seq(Byte)}
  <2>1. ASSUME T # {} PROVE FALSE
    <3>1. PICK m \in T : \A y \in T : m <= y
      BY <2>1, LeastOf
    <3>2. m # 0
      <4>1. <<>> \in Seq(Byte)
        OBVIOUS
      <4> QED BY <1>3, <3>1, <4>1
    <3>3. m - 1 \in Nat /\ m - 1 <= Len(ls) /\ ~(m <= m - 1) /\ m - 1 \in 0 .. Len(ls) - 1
          /\ m \in 1 .. Len(ls) /\ (m - 1) + 1 = m
      BY <1>2, <3>1, <3>2
    <3>4. Prefix(ls, m - 1) \in Seq(Byte)
      <4>1. m - 1 \notin T
        BY <3>1, <3>3
      <4> QED BY <3>3, <4>1
    <3>5. Prefix(ls, (m - 1) + 1) = Prefix(ls, m - 1) \o Bytes(ls[(m - 1) + 1])
      BY <1>4, <3>3
    <3>6. Bytes(ls[m]) \in Seq(Byte)
      BY <1>2, <3>3, BytesAre
    <3>7. Prefix(ls, m - 1) \o Bytes(ls[m]) \in Seq(Byte)
      BY <3>4, <3>6
    <3> QED BY <3>1, <3>3, <3>5, <3>7
  <2> QED BY <1>2, <2>1
<1> QED BY <1>3, <1>4, <1>5

\* The first n lines stay as they are when lines follow.
LEMMA PrefixStays ==
  ASSUME NEW ls \in Seq(Kind), NEW n \in 0 .. Len(ls), NEW q \in n .. Len(ls)
  PROVE  /\ Len(Prefix(ls, n)) <= Len(Prefix(ls, q))
         /\ \A j \in 1 .. Len(Prefix(ls, n)) : Prefix(ls, q)[j] = Prefix(ls, n)[j]
<1> DEFINE Stays(m) == /\ Len(Prefix(ls, n)) <= Len(Prefix(ls, m))
                       /\ \A j \in 1 .. Len(Prefix(ls, n)) : Prefix(ls, m)[j] = Prefix(ls, n)[j]
           T == {m \in Nat : n <= m /\ m <= Len(ls) /\ ~Stays(m)}
<1>0. Len(ls) \in Nat /\ n \in Nat /\ q \in Nat /\ n <= q /\ q <= Len(ls)
  OBVIOUS
<1>1. ASSUME T # {} PROVE FALSE
  <2>1. PICK m \in T : \A y \in T : m <= y
    BY <1>1, LeastOf
  <2>2. m \in Nat /\ n <= m /\ m <= Len(ls) /\ ~Stays(m)
    BY <2>1
  <2>3. m # n
    <3>1. Len(Prefix(ls, n)) \in Nat
      BY <1>0, PrefixSteps
    <3>2. Stays(n)
      BY <3>1
    <3> QED BY <2>2, <3>2
  <2>4. m - 1 \in Nat /\ n <= m - 1 /\ m - 1 <= Len(ls) /\ ~(m <= m - 1)
        /\ m - 1 \in 0 .. Len(ls) - 1 /\ (m - 1) + 1 = m /\ m \in 1 .. Len(ls)
    BY <1>0, <2>2, <2>3
  <2>5. Stays(m - 1)
    <3>1. m - 1 \notin T
      BY <2>1, <2>4
    <3> HIDE DEF Stays
    <3> QED BY <2>4, <3>1
  <2>6. Prefix(ls, (m - 1) + 1) = Prefix(ls, m - 1) \o Bytes(ls[(m - 1) + 1])
    BY <2>4, PrefixSteps
  <2> DEFINE A == Prefix(ls, m - 1)
             B == Bytes(ls[m])
  <2>7. A \in Seq(Byte) /\ B \in Seq(Byte) /\ Prefix(ls, n) \in Seq(Byte)
    <3>1. ls[m] \in Kind /\ m - 1 \in 0 .. Len(ls)
      BY <2>4
    <3> QED BY <3>1, PrefixSteps, BytesAre
  <2>8. Prefix(ls, m) = A \o B
    BY <2>4, <2>6
  <2>9. Len(Prefix(ls, n)) <= Len(A) /\ \A j \in 1 .. Len(Prefix(ls, n)) : A[j] = Prefix(ls, n)[j]
    BY <2>5
  <2> HIDE DEF A, B
  <2>10. Len(A \o B) >= Len(A) /\ \A j \in 1 .. Len(A) : (A \o B)[j] = A[j]
    BY <2>7
  <2>11. Len(Prefix(ls, n)) <= Len(A \o B)
    <3>1. Len(A) \in Nat /\ Len(A \o B) \in Nat /\ Len(Prefix(ls, n)) \in Nat
      BY <2>7
    <3> QED BY <2>9, <2>10, <3>1
  <2>12. ASSUME NEW j \in 1 .. Len(Prefix(ls, n)) PROVE (A \o B)[j] = Prefix(ls, n)[j]
    <3>1. Len(A) \in Nat /\ Len(Prefix(ls, n)) \in Nat
      BY <2>7
    <3>2. j \in 1 .. Len(A)
      BY <2>9, <3>1
    <3> QED BY <2>9, <2>10, <3>2
  <2> QED BY <2>2, <2>8, <2>11, <2>12
<1> HIDE DEF Stays
<1>2. Stays(q)
  BY <1>0, <1>1
<1> QED BY <1>2 DEF Stays

\* How a text lies on its lines: where each line starts, and what it holds.
Layout(ls, T, a) ==
  /\ ls \in Seq(Kind) /\ T \in Seq(Byte)
  /\ a[1] = 0 /\ a[Len(ls) + 1] = Len(T)
  /\ \A i \in 1 .. Len(ls) + 1 : a[i] \in Nat
  /\ \A i \in 1 .. Len(ls) :
       /\ a[i + 1] = a[i] + Len(Bytes(ls[i]))
       /\ \A k \in 1 .. Len(Bytes(ls[i])) : T[a[i] + k] = Bytes(ls[i])[k]

\* Every document lies so.
LEMMA LayoutStarts ==
  ASSUME NEW ls \in Seq(Kind)
  PROVE  Layout(ls, Text(ls), LineStarts(ls))
<1> DEFINE N == Len(ls)
           a == LineStarts(ls)
<1>1. N \in Nat /\ \A i \in 1 .. N : ls[i] \in Kind
  OBVIOUS
<1>2. Text(ls) = Prefix(ls, N)
  <2>1. SubSeq(ls, 1, N) = ls
    OBVIOUS
  <2> QED BY <2>1 DEF Prefix
<1>3. \A i \in 1 .. N + 1 : a[i] = Len(Prefix(ls, i - 1))
  BY <1>1 DEF LineStarts, Prefix
<1>4. \A n \in 0 .. N : Prefix(ls, n) \in Seq(Byte) /\ Len(Prefix(ls, n)) \in Nat
  BY PrefixSteps
<1> HIDE DEF a
<1>5. \A i \in 1 .. N + 1 : a[i] \in Nat
  BY <1>1, <1>3, <1>4
<1>6. a[1] = 0 /\ a[N + 1] = Len(Text(ls)) /\ Text(ls) \in Seq(Byte)
  <2>1. 1 \in 1 .. N + 1 /\ N + 1 \in 1 .. N + 1 /\ N \in 0 .. N /\ 1 - 1 = 0 /\ N + 1 - 1 = N
    BY <1>1
  <2>2. a[1] = Len(Prefix(ls, 1 - 1)) /\ a[N + 1] = Len(Prefix(ls, N + 1 - 1))
    BY <1>3, <2>1
  <2>3. Prefix(ls, 0) = <<>>
    BY PrefixSteps
  <2>4. a[1] = Len(Prefix(ls, 0)) /\ a[N + 1] = Len(Prefix(ls, N))
    BY <2>1, <2>2
  <2>5. a[1] = 0
    BY <2>3, <2>4
  <2> HIDE DEF N
  <2> QED BY <1>2, <1>4, <2>1, <2>4, <2>5
<1>7. ASSUME NEW i \in 1 .. N
      PROVE  /\ a[i + 1] = a[i] + Len(Bytes(ls[i]))
             /\ \A k \in 1 .. Len(Bytes(ls[i])) : Text(ls)[a[i] + k] = Bytes(ls[i])[k]
  <2> DEFINE A == Prefix(ls, i - 1)
             B == Bytes(ls[i])
  <2>1. i - 1 \in 0 .. N - 1 /\ i - 1 \in 0 .. N /\ (i - 1) + 1 = i /\ i \in 0 .. N /\ N \in i .. N
        /\ i \in 1 .. N + 1 /\ i + 1 \in 1 .. N + 1 /\ i + 1 - 1 = i
    BY <1>1
  <2>2. Prefix(ls, i) = A \o B
    BY <2>1, PrefixSteps
  <2>3. A \in Seq(Byte) /\ B \in Seq(Byte)
    BY <1>1, <1>4, <2>1, BytesAre
  <2>4. a[i] = Len(A) /\ a[i + 1] = Len(A \o B)
    <3>1. a[i] = Len(Prefix(ls, i - 1)) /\ a[i + 1] = Len(Prefix(ls, i + 1 - 1))
      BY <1>3, <2>1
    <3> HIDE DEF A, B
    <3>2. a[i + 1] = Len(Prefix(ls, i))
      BY <2>1, <3>1
    <3> QED BY <2>2, <3>1, <3>2 DEF A
  <2>5. \A j \in 1 .. Len(A \o B) : Text(ls)[j] = (A \o B)[j]
    BY <1>2, <2>1, <2>2, PrefixStays, ZenonT(30)
  <2> HIDE DEF A, B
  <2>6. Len(A \o B) = Len(A) + Len(B) /\ Len(A) \in Nat /\ Len(B) \in Nat
    BY <2>3
  <2>7. ASSUME NEW k \in 1 .. Len(B) PROVE Text(ls)[a[i] + k] = B[k]
    <3>1. Len(A) + k \in 1 .. Len(A \o B)
      BY <2>6
    <3>2. (A \o B)[Len(A) + k] = B[k]
      BY <2>3
    <3> QED BY <2>4, <2>5, <3>1, <3>2
  <2> QED BY <2>4, <2>6, <2>7 DEF B
<1> QED BY <1>5, <1>6, <1>7 DEF Layout, a

\* Nor is there anything to say of no document.
LEMMA NoLayout == Layout(<<>>, <<>>, <<0>>)
<1>1. <<>> \in Seq(Kind) /\ <<>> \in Seq(Byte) /\ Len(<<>>) = 0
  OBVIOUS
<1>2. <<0>>[1] = 0 /\ \A i \in 1 .. 0 + 1 : i = 1
  OBVIOUS
<1> QED BY <1>1, <1>2 DEF Layout

\* A later line starts after an earlier one ends.
LEMMA LinesAscend ==
  ASSUME NEW ls, NEW T, NEW a, Layout(ls, T, a),
         NEW i \in 1 .. Len(ls), NEW j \in i + 1 .. Len(ls) + 1
  PROVE  a[i] < a[i + 1] /\ a[i + 1] <= a[j]
<1> DEFINE N == Len(ls)
           S == {m \in Nat : i + 1 <= m /\ m <= N + 1 /\ ~(a[i + 1] <= a[m])}
<1>1. N \in Nat /\ i \in Nat /\ j \in Nat /\ i + 1 <= j /\ j <= N + 1
  BY DEF Layout
<1>2. \A m \in 1 .. N : a[m] \in Nat /\ a[m + 1] \in Nat /\ a[m] < a[m + 1]
  <2> SUFFICES ASSUME NEW m \in 1 .. N PROVE a[m] \in Nat /\ a[m + 1] \in Nat /\ a[m] < a[m + 1]
    OBVIOUS
  <2>1. a[m] \in Nat /\ a[m + 1] = a[m] + Len(Bytes(ls[m])) /\ ls[m] \in Kind
    BY DEF Layout
  <2>2. Len(Bytes(ls[m])) \in Nat /\ Len(Bytes(ls[m])) >= 1
    BY <2>1, BytesAre
  <2> QED BY <2>1, <2>2
<1>3. ASSUME S # {} PROVE FALSE
  <2>1. PICK m \in S : \A y \in S : m <= y
    BY <1>3, LeastOf
  <2>2. m # i + 1
    <3>1. a[i + 1] \in Nat
      BY <1>2
    <3> QED BY <2>1, <3>1
  <2>3. m - 1 \in Nat /\ i + 1 <= m - 1 /\ m - 1 <= N + 1 /\ ~(m <= m - 1) /\ m - 1 \in 1 .. N
        /\ (m - 1) + 1 = m
    BY <1>1, <2>1, <2>2
  <2>4. a[i + 1] <= a[m - 1]
    <3>1. m - 1 \notin S
      BY <2>1, <2>3
    <3> QED BY <2>3, <3>1
  <2>5. a[m - 1] \in Nat /\ a[(m - 1) + 1] \in Nat /\ a[m - 1] < a[(m - 1) + 1]
    BY <1>2, <2>3
  <2>6. a[m - 1] < a[m] /\ a[m] \in Nat
    BY <2>3, <2>5
  <2>7. ~(a[i + 1] <= a[m]) /\ a[i + 1] \in Nat
    BY <1>2, <2>1
  <2> QED BY <2>4, <2>5, <2>6, <2>7
<1> QED BY <1>1, <1>2, <1>3

\* Offsets of lines compare as the lines do.
LEMMA LinesCompare ==
  ASSUME NEW ls, NEW T, NEW a, Layout(ls, T, a),
         NEW i \in 1 .. Len(ls) + 1, NEW j \in 1 .. Len(ls) + 1
  PROVE  /\ a[i] < a[j] <=> i < j
         /\ a[i] <= a[j] <=> i <= j
         /\ a[i] = a[j] <=> i = j
<1>1. Len(ls) \in Nat /\ i \in Nat /\ j \in Nat /\ i <= Len(ls) + 1 /\ j <= Len(ls) + 1
  BY DEF Layout
<1>2. a[i] \in Nat /\ a[j] \in Nat
  BY DEF Layout
<1>3. i < j => a[i] < a[j]
  <2> SUFFICES ASSUME i < j PROVE a[i] < a[j]
    OBVIOUS
  <2>1. i \in 1 .. Len(ls) /\ j \in i + 1 .. Len(ls) + 1 /\ i + 1 \in 1 .. Len(ls) + 1
    BY <1>1
  <2>2. a[i] < a[i + 1] /\ a[i + 1] <= a[j] /\ a[i + 1] \in Nat
    BY <2>1, LinesAscend DEF Layout
  <2> QED BY <1>2, <2>2
<1>4. j < i => a[j] < a[i]
  <2> SUFFICES ASSUME j < i PROVE a[j] < a[i]
    OBVIOUS
  <2>1. j \in 1 .. Len(ls) /\ i \in j + 1 .. Len(ls) + 1 /\ j + 1 \in 1 .. Len(ls) + 1
    BY <1>1
  <2>2. a[j] < a[j + 1] /\ a[j + 1] <= a[i] /\ a[j + 1] \in Nat
    BY <2>1, LinesAscend DEF Layout
  <2> QED BY <1>2, <2>2
<1>5. i = j => a[i] = a[j]
  OBVIOUS
<1>6. i < j \/ j < i \/ i = j
  BY <1>1
<1> QED BY <1>1, <1>2, <1>3, <1>4, <1>5, <1>6

\* Every line lies in the text.
LEMMA LinesInText ==
  ASSUME NEW ls, NEW T, NEW a, Layout(ls, T, a), NEW i \in 1 .. Len(ls) + 1
  PROVE  a[i] \in 0 .. Len(T)
<1>1. Len(ls) \in Nat /\ Len(T) \in Nat /\ Len(ls) + 1 \in 1 .. Len(ls) + 1 /\ a[i] \in Nat
  BY DEF Layout
<1>2. i <= Len(ls) + 1
  OBVIOUS
<1>3. a[i] <= a[Len(ls) + 1]
  BY <1>1, <1>2, LinesCompare
<1>4. a[Len(ls) + 1] = Len(T)
  BY DEF Layout
<1> QED BY <1>1, <1>3, <1>4

\* Every byte is on a line.
LEMMA LineThere ==
  ASSUME NEW ls, NEW T, NEW a, Layout(ls, T, a), NEW p \in 0 .. Len(T) - 1
  PROVE  \E i \in 1 .. Len(ls) : a[i] <= p /\ p < a[i + 1]
<1> DEFINE N == Len(ls)
           S == {m \in Nat : m \in 1 .. N + 1 /\ p < a[m]}
<1>1. N \in Nat /\ Len(T) \in Nat /\ p \in Nat /\ p < Len(T)
  BY DEF Layout
<1>2. a[N + 1] = Len(T) /\ a[1] = 0 /\ \A m \in 1 .. N + 1 : a[m] \in Nat
  BY DEF Layout
<1>3. N + 1 \in S
  BY <1>1, <1>2
<1>4. PICK m \in S : \A y \in S : m <= y
  <2>1. S # {} /\ S \subseteq Nat
    BY <1>3
  <2> QED BY <2>1, LeastOf
<1>5. m \in 1 .. N + 1 /\ p < a[m] /\ m # 1
  BY <1>1, <1>2, <1>4
<1>6. m - 1 \in 1 .. N /\ m - 1 \in 1 .. N + 1 /\ m - 1 \in Nat /\ (m - 1) + 1 = m /\ ~(m <= m - 1)
  BY <1>1, <1>5
<1>7. ~(p < a[m - 1]) /\ a[m - 1] \in Nat
  <2>1. m - 1 \notin S
    BY <1>4, <1>6
  <2> QED BY <1>2, <1>6, <2>1
<1>8. a[m - 1] <= p
  BY <1>1, <1>7
<1>9. p < a[(m - 1) + 1]
  BY <1>5, <1>6
<1> QED BY <1>6, <1>8, <1>9

\* The bytes of a line: its newline is its last, its characters are whole, and
\* a table's line has no fence.
LEMMA LineHolds ==
  ASSUME NEW ls, NEW T, NEW a, Layout(ls, T, a), NEW i \in 1 .. Len(ls),
         NEW p \in Nat, a[i] <= p, p < a[i + 1]
  PROVE  /\ p \in 0 .. Len(T) - 1
         /\ At(T, p) = "n" <=> p = a[i + 1] - 1
         /\ At(T, p) = "c" => a[i] < p /\ At(T, p - 1) # "c"
         /\ ls[i] \in {"row", "long", "sep"} => At(T, p) \notin {"c", "f"}
<1> DEFINE B == Bytes(ls[i])
           k == p - a[i] + 1
<1>1. Len(ls) \in Nat /\ Len(T) \in Nat /\ ls[i] \in Kind
  BY DEF Layout
<1>2. /\ a[i] \in Nat /\ a[i + 1] = a[i] + Len(B)
      /\ \A m \in 1 .. Len(B) : T[a[i] + m] = B[m]
  BY DEF Layout
<1>3. Len(B) \in Nat
  BY <1>1, BytesAre
<1>4. p \in 0 .. Len(T) - 1
  <2>1. i + 1 \in 1 .. Len(ls) + 1
    BY <1>1
  <2>2. a[i + 1] \in 0 .. Len(T)
    BY <2>1, LinesInText
  <2> QED BY <1>1, <2>2
<1>5. k \in 1 .. Len(B) /\ a[i] + k = p + 1
  BY <1>2, <1>3
<1>6. At(T, p) = B[k]
  BY <1>2, <1>5, SMTT(30) DEF At
<1>7. At(T, p) = "n" <=> p = a[i + 1] - 1
  <2>1. B[k] = "n" <=> k = Len(B)
    BY <1>1, <1>5, BytesAre
  <2>2. k = Len(B) <=> p = a[i + 1] - 1
    BY <1>2, <1>3, SMTT(30)
  <2> QED BY <1>6, <2>1, <2>2
<1>8. ASSUME At(T, p) = "c" PROVE a[i] < p /\ At(T, p - 1) # "c"
  <2>1. k # 1
    BY <1>1, <1>6, <1>8, BytesAre
  <2>2. k \in 2 .. Len(B) /\ k - 1 \in 1 .. Len(B) /\ a[i] < p /\ a[i] + (k - 1) = (p - 1) + 1
    <3>1. a[i] \in Nat /\ k \in Nat /\ k >= 2
      BY <1>2, <1>3, <1>5, <2>1
    <3>2. a[i] < p
      BY <3>1
    <3>3. a[i] + (k - 1) = (p - 1) + 1
      BY <3>1
    <3> HIDE DEF k, B
    <3>4. k \in 2 .. Len(B) /\ k - 1 \in 1 .. Len(B)
      BY <1>3, <1>5, <3>1
    <3> QED BY <3>2, <3>3, <3>4
  <2>3. At(T, p - 1) = B[k - 1]
    <3>1. T[a[i] + (k - 1)] = B[k - 1]
      BY <1>2, <2>2
    <3> QED BY <2>2, <3>1 DEF At
  <2>4. B[k - 1] # "c"
    BY <1>1, <1>6, <1>8, <2>2, BytesAre
  <2> QED BY <2>2, <2>3, <2>4
<1>9. ls[i] \in {"row", "long", "sep"} => At(T, p) \notin {"c", "f"}
  BY <1>1, <1>5, <1>6, BytesAre
<1> QED BY <1>4, <1>7, <1>8, <1>9

\* A line starts between characters, and after a newline.
LEMMA LineStartsAre ==
  ASSUME NEW ls, NEW T, NEW a, Layout(ls, T, a), NEW i \in 1 .. Len(ls) + 1
  PROVE  /\ a[i] \in 0 .. Len(T) /\ Boundary(T, a[i])
         /\ i # 1 => a[i] >= 1 /\ At(T, a[i] - 1) = "n"
<1>0. Len(ls) \in Nat /\ Len(T) \in Nat
  BY DEF Layout
<1>1. a[i] \in 0 .. Len(T) /\ Len(ls) \in Nat /\ Len(T) \in Nat
  BY <1>0, LinesInText
<1>2. Boundary(T, a[i])
  <2>1. CASE i = Len(ls) + 1
    <3>1. a[i] = Len(T)
      BY <2>1 DEF Layout
    <3> QED BY <1>1, <3>1 DEF Boundary
  <2>2. CASE i # Len(ls) + 1
    <3>1. i \in 1 .. Len(ls) /\ i + 1 \in i + 1 .. Len(ls) + 1
      BY <1>1, <2>2
    <3>2. a[i] < a[i + 1]
      BY <3>1, LinesAscend
    <3>3. At(T, a[i]) = "c" => a[i] < a[i]
      BY <1>1, <3>1, <3>2, LineHolds
    <3> QED BY <1>1, <3>3 DEF Boundary
  <2> QED BY <2>1, <2>2
<1>3. ASSUME i # 1 PROVE a[i] >= 1 /\ At(T, a[i] - 1) = "n"
  <2>1. i - 1 \in 1 .. Len(ls) /\ (i - 1) + 1 = i /\ i \in (i - 1) + 1 .. Len(ls) + 1
        /\ i - 1 \in 1 .. Len(ls) + 1
    BY <1>1, <1>3
  <2>2. a[i - 1] < a[(i - 1) + 1]
    BY <2>1, LinesAscend
  <2>3. a[i - 1] \in Nat
    BY <2>1 DEF Layout
  <2>4. a[i] - 1 \in Nat /\ a[i - 1] <= a[i] - 1 /\ a[i] - 1 < a[(i - 1) + 1] /\ a[i] >= 1
        /\ a[i] - 1 = a[(i - 1) + 1] - 1
    BY <1>1, <2>1, <2>2, <2>3
  <2>5. At(T, a[i] - 1) = "n"
    BY <2>1, <2>4, LineHolds
  <2> QED BY <2>4, <2>5
<1> QED BY <1>1, <1>2, <1>3

\* What precedes the middle of a character is its first byte.
LEMMA CharactersAreShort ==
  ASSUME NEW ls, NEW T, NEW a, Layout(ls, T, a), NEW p \in 1 .. Len(T)
  PROVE  Boundary(T, p) \/ Boundary(T, p - 1)
<1>1. Len(T) \in Nat
  BY DEF Layout
<1>2. SUFFICES ASSUME ~Boundary(T, p) PROVE Boundary(T, p - 1)
  OBVIOUS
<1>3. p \in 0 .. Len(T) - 1 /\ p \in Nat /\ At(T, p) = "c"
  BY <1>1, <1>2 DEF Boundary
<1>4. PICK i \in 1 .. Len(ls) : a[i] <= p /\ p < a[i + 1]
  BY <1>3, LineThere
<1>5. At(T, p - 1) # "c"
  BY <1>3, <1>4, LineHolds
<1> QED BY <1>5 DEF Boundary

-----------------------------------------------------------------------------
(* Where a chunk ends and where the next one starts. *)

Half == Window \div 2

\* The sizes are numbers, and the earliest break leaves the overlap behind it.
LEMMA SizesAre ==
  /\ ChunkSize \in Nat /\ Overlap \in Nat /\ Window \in Nat /\ Half \in Nat
  /\ Window = Half + Half /\ Overlap + 1 < ChunkSize - Half
<1>1. ChunkSize \in Nat /\ Overlap \in Nat /\ Window \in Nat /\ Window % 2 = 0
  BY SizesType
<1>2. Half \in Nat /\ Window = Half + Half
  BY <1>1 DEF Half
<1> QED BY <1>1, <1>2, SizesFit DEF Half

\* A place is kept within the text.
LEMMA CappedIs ==
  ASSUME NEW T, Len(T) \in Nat, NEW p \in Nat
  PROVE  /\ Capped(p, T) \in 0 .. Len(T) /\ Capped(p, T) <= p
         /\ p <= Len(T) => Capped(p, T) = p
         /\ p >= Len(T) => Capped(p, T) = Len(T)
BY DEF Capped

\* Snapping forward stops at the first place between characters.
LEMMA SnapForward ==
  ASSUME NEW T, Len(T) \in Nat, NEW p \in 0 .. Len(T)
  PROVE  /\ snap_forward(T, p) \in p .. Len(T) /\ Boundary(T, snap_forward(T, p))
         /\ Boundary(T, p) => snap_forward(T, p) = p
<1> DEFINE S == {q \in Capped(p, T) .. Len(T) : Boundary(T, q)}
<1>1. Capped(p, T) = p
  BY DEF Capped
<1>2. S \in SUBSET Nat /\ Len(T) \in S
  BY <1>1 DEF Boundary
<1>3. Least(S) \in S /\ \A y \in S : Least(S) <= y
  BY <1>2, LeastIs
<1>4. snap_forward(T, p) = Least(S)
  BY DEF snap_forward
<1>5. snap_forward(T, p) \in p .. Len(T) /\ Boundary(T, snap_forward(T, p))
  BY <1>1, <1>3, <1>4
<1>6. ASSUME Boundary(T, p) PROVE snap_forward(T, p) = p
  <2>1. p \in S
    BY <1>1, <1>6
  <2>2. Least(S) <= p
    BY <1>3, <2>1
  <2> HIDE DEF S
  <2> QED BY <1>4, <1>5, <2>2
<1> QED BY <1>5, <1>6

\* Snapping backward stops at the last one.
LEMMA SnapBackward ==
  ASSUME NEW T, Len(T) \in Nat, NEW p \in 0 .. Len(T)
  PROVE  /\ snap_backward(T, p) \in 0 .. p /\ Boundary(T, snap_backward(T, p))
         /\ \A q \in 0 .. p : Boundary(T, q) => q <= snap_backward(T, p)
<1> DEFINE S == {q \in 0 .. Capped(p, T) : Boundary(T, q)}
<1>1. Capped(p, T) = p
  BY DEF Capped
<1>2. S \in SUBSET Nat /\ 0 \in S /\ \A y \in S : y <= p
  BY <1>1 DEF Boundary
<1>3. Most(S) \in S /\ \A y \in S : y <= Most(S)
  <2>1. S # {} /\ p \in Nat
    BY <1>2
  <2> HIDE DEF S
  <2> QED BY <1>2, <2>1, MostIs
<1>4. snap_backward(T, p) = Most(S)
  BY DEF snap_backward
<1>5. \A q \in 0 .. p : Boundary(T, q) => q \in S
  BY <1>1
<1> QED BY <1>1, <1>3, <1>4, <1>5

\* Break points: places in the text, with a score.
Breaks(points, T) ==
  \A p \in DOMAIN points : p \in 0 .. Len(T) /\ points[p] \in 0 .. 100

\* The window of an ideal end.
Lo(ideal) == Less(ideal, Half)
Hi(ideal, T) == Capped(ideal + Half, T)
InWindow(p, ideal, T) == Lo(ideal) <= p /\ p < Hi(ideal, T)

\* The break that is taken is in the window, when there is one.
LEMMA BestBreakIs ==
  ASSUME NEW T, NEW points, Breaks(points, T), NEW lo \in Nat, NEW hi \in Nat, NEW otherwise
  PROVE  \/ \E p \in DOMAIN points : /\ lo <= p /\ p < hi
                                     /\ BestBreak(points, lo, hi, otherwise) = p
         \/ /\ BestBreak(points, lo, hi, otherwise) = otherwise
            /\ \A p \in DOMAIN points : ~(lo <= p /\ p < hi)
<1> DEFINE In == {p \in DOMAIN points : lo <= p /\ p < hi}
           Top == {p \in In : \A q \in In : points[q] <= points[p]}
           b == BestBreak(points, lo, hi, otherwise)
<1>1. CASE In = {}
  <2>1. b = otherwise
    BY <1>1 DEF BestBreak
  <2> QED BY <1>1, <2>1
<1>2. CASE In # {}
  <2>1. b = Most(Top)
    BY <1>2 DEF BestBreak
  <2> DEFINE S == {points[p] : p \in In}
  <2>2. S # {} /\ \A s \in S : s \in 0 .. 100
    BY <1>2 DEF Breaks
  <2>3. S \in SUBSET Nat /\ (\A s \in S : s <= 100) /\ 100 \in Nat
    BY <2>2
  <2>4. PICK s \in S : \A t \in S : t <= s
    <3> HIDE DEF S
    <3>1. Most(S) \in S /\ \A t \in S : t <= Most(S)
      BY <2>2, <2>3, MostIs
    <3> QED BY <3>1
  <2>5. PICK m \in In : s = points[m]
    BY <2>4
  <2>6. \A q \in In : points[q] <= points[m]
    BY <2>4, <2>5
  <2>7. Top # {}
    BY <2>5, <2>6
  <2>8. Top \in SUBSET Nat /\ \A y \in Top : y <= hi
    <3>1. \A y \in In : y \in Nat /\ y <= hi
      BY DEF Breaks
    <3> QED BY <3>1
  <2>9. Most(Top) \in Top
    <3> HIDE DEF Top
    <3> QED BY <2>7, <2>8, MostIs
  <2>10. b \in DOMAIN points /\ lo <= b /\ b < hi
    BY <2>1, <2>9
  <2> HIDE DEF b
  <2> QED BY <2>10 DEF b
<1> QED BY <1>1, <1>2

\* A chunk that is not the last ends between characters, at a break of its
\* window, or at the ideal end when the window has none; so it is longer than
\* the overlap and the rest of a character.
LEMMA CutIs ==
  ASSUME NEW T, Len(T) \in Nat, NEW points, Breaks(points, T),
         NEW from \in Nat, from + ChunkSize < Len(T)
  PROVE  /\ CutAt(T, points, from) \in 0 .. Len(T) /\ Boundary(T, CutAt(T, points, from))
         /\ from + Overlap + 1 < CutAt(T, points, from)
         /\ from + ChunkSize - Half <= CutAt(T, points, from)
         /\ \/ \E p \in DOMAIN points : /\ InWindow(p, from + ChunkSize, T)
                                        /\ CutAt(T, points, from) = snap_forward(T, p)
            \/ /\ CutAt(T, points, from) = snap_forward(T, from + ChunkSize)
               /\ \A p \in DOMAIN points : ~InWindow(p, from + ChunkSize, T)
<1> DEFINE ideal == from + ChunkSize
           best == BestBreak(points, Lo(ideal), Hi(ideal, T), ideal)
           e == CutAt(T, points, from)
<1>1. ideal \in Nat /\ Capped(ideal, T) = ideal /\ ideal + Half \in Nat
  BY SizesAre DEF Capped
<1>2. e = snap_forward(T, best)
  BY <1>1 DEF CutAt, Half, Lo, Hi
<1>3. Lo(ideal) \in Nat /\ Lo(ideal) = ideal - Half
  BY <1>1, SizesAre DEF Lo, Less
<1>4. Hi(ideal, T) \in 0 .. Len(T)
  BY <1>1, CappedIs DEF Hi
<1>5. \/ \E p \in DOMAIN points : InWindow(p, ideal, T) /\ best = p
      \/ best = ideal /\ \A p \in DOMAIN points : ~InWindow(p, ideal, T)
  <2>1. Hi(ideal, T) \in Nat
    BY <1>4
  <2> HIDE DEF ideal
  <2> QED BY <1>3, <2>1, BestBreakIs DEF InWindow
<1>6. best \in 0 .. Len(T) /\ ideal - Half <= best
  <2>1. CASE \E p \in DOMAIN points : InWindow(p, ideal, T) /\ best = p
    <3> HIDE DEF best, ideal
    <3> QED BY <1>3, <2>1 DEF InWindow, Breaks
  <2>2. CASE best = ideal
    <3> HIDE DEF best
    <3> QED BY <1>1, <2>2, SizesAre
  <2> QED BY <1>5, <2>1, <2>2
<1>7. e \in best .. Len(T) /\ Boundary(T, e)
  <2> HIDE DEF best, e
  <2> QED BY <1>2, <1>6, SnapForward
<1>8. from + Overlap + 1 < e /\ from + ChunkSize - Half <= e
  <2> HIDE DEF best, e
  <2> QED BY <1>6, <1>7, SizesAre
<1>9. e \in 0 .. Len(T)
  <2> HIDE DEF best, e
  <2> QED BY <1>6, <1>7
<1> QED BY <1>2, <1>5, <1>7, <1>8, <1>9

\* The next chunk starts further on, between characters, and no later than the
\* last one ended.
LEMMA NextIs ==
  ASSUME NEW ls, NEW T, NEW a, Layout(ls, T, a),
         NEW from \in Nat, NEW e \in 0 .. Len(T), Boundary(T, e), from + Overlap + 1 < e
  PROVE  /\ NextStart(T, from, e) \in 0 .. Len(T) /\ Boundary(T, NextStart(T, from, e))
         /\ NextStart(T, from, e) <= e /\ from < NextStart(T, from, e)
         /\ e <= NextStart(T, from, e) + Overlap + 1
<1> DEFINE p == e - Overlap
           back == snap_backward(T, p)
<1>1. Len(T) \in Nat /\ Overlap \in Nat /\ e \in Nat
  BY SizesAre DEF Layout
<1>2. p \in 1 .. Len(T) /\ p <= e /\ p > from + 1 /\ Less(e, Overlap) = p /\ p + Overlap = e
  BY <1>1 DEF Less
<1>3. back \in 0 .. p /\ Boundary(T, back) /\ \A q \in 0 .. p : Boundary(T, q) => q <= back
  <2>1. p \in 0 .. Len(T)
    BY <1>1, <1>2
  <2> HIDE DEF p
  <2> QED BY <1>1, <2>1, SnapBackward
<1>4. back >= p - 1
  <2>1. Boundary(T, p) \/ Boundary(T, p - 1)
    <3> HIDE DEF p
    <3> QED BY <1>2, CharactersAreShort
  <2>2. p \in 0 .. p /\ p - 1 \in 0 .. p /\ p \in Nat
    BY <1>2
  <2> HIDE DEF p, back
  <2> QED BY <1>3, <2>1, <2>2
<1>5. NextStart(T, from, e) = IF back >= e THEN e ELSE back
  BY <1>2 DEF NextStart
<1> HIDE DEF p, back
<1>6. back > from /\ back <= e /\ back \in 0 .. Len(T) /\ e <= back + Overlap + 1
  BY <1>1, <1>2, <1>3, <1>4
<1> QED BY <1>1, <1>2, <1>3, <1>5, <1>6

\* One round of cutting, from p to e, with the next at q.
Round(T, points, p, e, q) ==
  p + ChunkSize < Len(T) /\ e = CutAt(T, points, p) /\ q = NextStart(T, p, e)

\* So a round that is not the last leaves a stretch and a later start.
LEMMA RoundMovesOn ==
  ASSUME NEW ls, NEW T, NEW a, Layout(ls, T, a), NEW points, Breaks(points, T),
         NEW p \in Nat, NEW e, NEW q, Round(T, points, p, e, q)
  PROVE  /\ e \in 0 .. Len(T) /\ Boundary(T, e) /\ p <= e
         /\ q \in 0 .. Len(T) /\ Boundary(T, q) /\ p < q /\ q <= e
<1>1. Len(T) \in Nat /\ p + ChunkSize < Len(T) /\ e = CutAt(T, points, p) /\ q = NextStart(T, p, e)
  BY DEF Layout, Round
<1>2. e \in 0 .. Len(T) /\ Boundary(T, e) /\ p + Overlap + 1 < e
  BY <1>1, CutIs
<1>3. q \in 0 .. Len(T) /\ Boundary(T, q) /\ q <= e /\ p < q
  BY <1>1, <1>2, NextIs
<1> QED BY <1>2, <1>3, SizesAre

-----------------------------------------------------------------------------
(* Fences, and the breaks of a markdown text. *)

\* A fence runs from its mark past the next one, or to the end.
LEMMA FencesAre ==
  ASSUME NEW T, Len(T) \in Nat, NEW f \in scan_code_fences(T)
  PROVE  /\ f[1] \in 0 .. Len(T) - 1 /\ At(T, f[1]) = "f"
         /\ f[2] \in Nat
         /\ f[2] = Len(T) \/ (f[2] >= 1 /\ f[2] <= Len(T) /\ At(T, f[2] - 1) = "f")
<1> DEFINE F == {p \in 0 .. Len(T) - 1 : At(T, p) = "f"}
           Opens == {p \in F : Cardinality({q \in F : q < p}) % 2 = 0}
           After(p) == {q \in F : p < q}
<1>1. PICK p \in Opens : f = <<p, IF After(p) = {} THEN Len(T) ELSE Least(After(p)) + 1>>
  BY DEF scan_code_fences
<1>2. p \in F /\ f[1] = p /\ f[2] = IF After(p) = {} THEN Len(T) ELSE Least(After(p)) + 1
  BY <1>1
<1>3. CASE After(p) = {}
  BY <1>2, <1>3
<1>4. CASE After(p) # {}
  <2>1. After(p) \in SUBSET Nat
    OBVIOUS
  <2>2. Least(After(p)) \in After(p)
    <3> HIDE DEF After
    <3> QED BY <1>4, <2>1, LeastIs
  <2>3. Least(After(p)) \in F
    BY <2>2
  <2>4. PICK x : x = Least(After(p))
    OBVIOUS
  <2>5. x \in 0 .. Len(T) - 1 /\ At(T, x) = "f" /\ f[2] = x + 1
    BY <1>2, <1>4, <2>3, <2>4
  <2>6. (x + 1) - 1 = x /\ x + 1 >= 1 /\ x + 1 <= Len(T) /\ x + 1 \in Nat
    BY <2>5
  <2>7. At(T, f[2] - 1) = "f"
    BY <2>5, <2>6
  <2> HIDE DEF After
  <2> QED BY <1>2, <2>5, <2>6, <2>7
<1> QED BY <1>3, <1>4

\* A line end outside the fences is a break, and only that.
LEMMA MarkdownBreaks ==
  ASSUME NEW T, Len(T) \in Nat, NEW fences
  PROVE  /\ Breaks(scan_break_points(T, fences), T)
         /\ \A p : p \in DOMAIN scan_break_points(T, fences)
                     <=> p \in 0 .. Len(T) - 1 /\ At(T, p) = "n" /\ ~inside_fence(p, fences)
<1> DEFINE D == {q \in 0 .. Len(T) - 1 : At(T, q) = "n" /\ ~inside_fence(q, fences)}
<1>1. scan_break_points(T, fences) = [p \in D |-> BreakScore(T, p)]
  BY DEF scan_break_points
<1>2. \A p : BreakScore(T, p) \in 0 .. 100
  BY DEF BreakScore
<1>3. \A p \in D : p \in 0 .. Len(T)
  OBVIOUS
<1>4. Breaks(scan_break_points(T, fences), T)
  <2> DEFINE points == scan_break_points(T, fences)
  <2>1. DOMAIN points = D /\ \A p \in D : points[p] = BreakScore(T, p)
    BY <1>1
  <2>2. \A p \in D : points[p] \in 0 .. 100
    BY <1>2, <2>1
  <2> HIDE DEF points, D
  <2>3. \A p \in DOMAIN points : p \in 0 .. Len(T) /\ points[p] \in 0 .. 100
    BY <1>3, <2>1, <2>2
  <2> QED BY <2>3 DEF Breaks, points
<1> QED BY <1>1, <1>4

\* A markdown chunk that is not the last ends at a line end outside the
\* fences, or its window has none and it ends at the ideal end.
LEMMA MarkdownCut ==
  ASSUME NEW T, Len(T) \in Nat, NEW fences,
         NEW from \in Nat, from + ChunkSize < Len(T), NEW e,
         e = CutAt(T, scan_break_points(T, fences), from)
  PROVE  \/ At(T, e) = "n" /\ ~inside_fence(e, fences)
         \/ /\ e = snap_forward(T, from + ChunkSize)
            /\ \A p \in 0 .. Len(T) - 1 :
                 At(T, p) = "n" /\ InWindow(p, from + ChunkSize, T) => inside_fence(p, fences)
<1> DEFINE points == scan_break_points(T, fences)
<1>1. /\ Breaks(points, T)
      /\ \A p : p \in DOMAIN points
                 <=> p \in 0 .. Len(T) - 1 /\ At(T, p) = "n" /\ ~inside_fence(p, fences)
  BY MarkdownBreaks
<1> HIDE DEF points
<1>2. \/ \E p \in DOMAIN points : InWindow(p, from + ChunkSize, T) /\ e = snap_forward(T, p)
      \/ /\ e = snap_forward(T, from + ChunkSize)
         /\ \A p \in DOMAIN points : ~InWindow(p, from + ChunkSize, T)
  BY <1>1, CutIs DEF points
<1>3. ASSUME NEW p \in DOMAIN points, e = snap_forward(T, p)
      PROVE  At(T, e) = "n" /\ ~inside_fence(e, fences)
  <2>1. p \in 0 .. Len(T) - 1 /\ At(T, p) = "n" /\ ~inside_fence(p, fences)
    BY <1>1
  <2>2. Boundary(T, p) /\ p \in 0 .. Len(T)
    BY <2>1 DEF Boundary
  <2>3. snap_forward(T, p) = p
    BY <2>2, SnapForward
  <2> QED BY <1>3, <2>1, <2>3
<1>4. ASSUME \A p \in DOMAIN points : ~InWindow(p, from + ChunkSize, T)
      PROVE  \A p \in 0 .. Len(T) - 1 :
                 At(T, p) = "n" /\ InWindow(p, from + ChunkSize, T) => inside_fence(p, fences)
  BY <1>1, <1>4
<1> QED BY <1>2, <1>3, <1>4

-----------------------------------------------------------------------------
(* Tables. *)

Pipe(k) == k \in 1 .. Len(lines) /\ PipeLine(lines, k, Fences)

\* The lines a table lies on.
TableAt(t, i, j) ==
  /\ i \in 1 .. Len(lines) /\ j \in 1 .. Len(lines) /\ i < j
  /\ t.from = at[i] /\ t.data = at[i + 2] /\ t.to = at[j + 1]
  /\ t = [from |-> at[i], data |-> at[i + 2], to |-> at[j + 1]]
  /\ \A k \in i .. j : Pipe(k)
  /\ ~Pipe(i - 1) /\ ~Pipe(j + 1)

\* Every table that is found lies on such lines.
LEMMA TableIs ==
  ASSUME Layout(lines, text, at), NEW t \in AllTables
  PROVE  \E i, j : TableAt(t, i, j)
<1>1. DOMAIN lines = 1 .. Len(lines)
  BY DEF Layout
<1>2. PICK r \in (DOMAIN lines) \X (DOMAIN lines) :
        /\ r[1] < r[2] /\ lines[r[1] + 1] = "sep"
        /\ \A i \in r[1] .. r[2] : Pipe(i)
        /\ ~Pipe(r[1] - 1) /\ ~Pipe(r[2] + 1)
        /\ t = [from |-> at[r[1]], data |-> at[r[1] + 2], to |-> at[r[2] + 1]]
  BY <1>1 DEF AllTables, scan_tables, Pipe
<1>3. TableAt(t, r[1], r[2])
  BY <1>1, <1>2 DEF TableAt
<1> QED BY <1>3

\* The line of a byte of a table is one of the table's.
LEMMA LineOfTable ==
  ASSUME Layout(lines, text, at), NEW t, NEW i, NEW j, TableAt(t, i, j),
         NEW p \in Nat, t.from <= p, p < t.to
  PROVE  \E k \in i .. j : Pipe(k) /\ at[k] <= p /\ p < at[k + 1]
<1>1. Len(lines) \in Nat /\ Len(text) \in Nat
  BY DEF Layout
<1>2. /\ i \in 1 .. Len(lines) + 1 /\ j + 1 \in 1 .. Len(lines) + 1 /\ at[i] <= p /\ p < at[j + 1]
      /\ i \in Nat /\ j \in Nat
  BY <1>1 DEF TableAt
<1>3. at[j + 1] \in 0 .. Len(text)
  BY <1>2, LinesInText
<1>4. p \in 0 .. Len(text) - 1
  BY <1>1, <1>2, <1>3
<1>5. PICK k \in 1 .. Len(lines) : at[k] <= p /\ p < at[k + 1]
  BY <1>4, LineThere
<1>6. k \in 1 .. Len(lines) + 1 /\ k + 1 \in 1 .. Len(lines) + 1
  BY <1>1
<1>7. at[i] \in Nat /\ at[k] \in Nat /\ at[k + 1] \in Nat /\ at[j + 1] \in Nat
  BY <1>2, <1>6 DEF Layout
<1>8. at[i] < at[k + 1] /\ at[k] < at[j + 1]
  BY <1>2, <1>5, <1>7, SMTT(30)
<1>9. i < k + 1 /\ k < j + 1
  BY <1>2, <1>6, <1>8, LinesCompare
<1>10. k \in i .. j
  BY <1>1, <1>2, <1>9
<1> QED BY <1>5, <1>10 DEF TableAt

\* Two tables that share a byte are the same.
LEMMA SameTable ==
  ASSUME Layout(lines, text, at), NEW t \in AllTables, NEW u \in AllTables, NEW p \in Nat,
         t.from <= p, p < t.to, u.from <= p, p < u.to
  PROVE  t = u
<1>1. PICK i, j : TableAt(t, i, j)
  BY TableIs
<1>2. PICK k, m : TableAt(u, k, m)
  BY TableIs
<1>3. PICK x \in i .. j : Pipe(x) /\ at[x] <= p /\ p < at[x + 1]
  BY <1>1, LineOfTable
<1>4. PICK y \in k .. m : Pipe(y) /\ at[y] <= p /\ p < at[y + 1]
  BY <1>2, LineOfTable
<1>5. Len(lines) \in Nat /\ {i, j, k, m, x, y} \subseteq 1 .. Len(lines)
  BY <1>1, <1>2, <1>3, <1>4 DEF TableAt, Layout, Pipe
<1>6. x = y
  <2>1. {x, y, x + 1, y + 1} \subseteq 1 .. Len(lines) + 1
    BY <1>5
  <2>2. at[x] \in Nat /\ at[y] \in Nat /\ at[x + 1] \in Nat /\ at[y + 1] \in Nat
    BY <2>1 DEF Layout
  <2>3. at[x] < at[y + 1] /\ at[y] < at[x + 1]
    BY <1>3, <1>4, <2>2
  <2>4. x < y + 1 /\ y < x + 1
    BY <2>1, <2>3, LinesCompare
  <2> QED BY <1>5, <2>4
<1>7. /\ \A z \in i .. j : Pipe(z)
      /\ \A z \in k .. m : Pipe(z)
      /\ ~Pipe(i - 1) /\ ~Pipe(j + 1) /\ ~Pipe(k - 1) /\ ~Pipe(m + 1)
  BY <1>1, <1>2 DEF TableAt
<1>8. i = k
  <2>1. ASSUME i < k PROVE FALSE
    <3>1. k - 1 \in i .. j
      BY <1>3, <1>4, <1>5, <1>6, <2>1
    <3> QED BY <1>7, <3>1
  <2>2. ASSUME k < i PROVE FALSE
    <3>1. i - 1 \in k .. m
      BY <1>3, <1>4, <1>5, <1>6, <2>2
    <3> QED BY <1>7, <3>1
  <2> QED BY <1>5, <2>1, <2>2
<1>9. j = m
  <2>1. ASSUME j < m PROVE FALSE
    <3>1. j + 1 \in k .. m
      BY <1>3, <1>4, <1>5, <1>6, <2>1
    <3> QED BY <1>7, <3>1
  <2>2. ASSUME m < j PROVE FALSE
    <3>1. m + 1 \in i .. j
      BY <1>3, <1>4, <1>5, <1>6, <2>2
    <3> QED BY <1>7, <3>1
  <2> QED BY <1>5, <2>1, <2>2
<1> QED BY <1>1, <1>2, <1>8, <1>9 DEF TableAt

\* Of a table's offsets: each is where a line starts, in their order.
LEMMA TableOffsets ==
  ASSUME Layout(lines, text, at), NEW t \in AllTables
  PROVE  /\ t.from \in 0 .. Len(text) /\ Boundary(text, t.from)
         /\ t.data \in 0 .. Len(text) /\ t.to \in 0 .. Len(text)
         /\ t.from < t.data /\ t.data <= t.to
<1>1. PICK i, j : TableAt(t, i, j)
  BY TableIs
<1>2. Len(lines) \in Nat
  BY DEF Layout
<1>3. {i, i + 2, j + 1} \subseteq 1 .. Len(lines) + 1 /\ i < i + 2 /\ i + 2 <= j + 1
  BY <1>1, <1>2 DEF TableAt
<1>4. t.from = at[i] /\ t.data = at[i + 2] /\ t.to = at[j + 1]
  BY <1>1 DEF TableAt
<1>5. /\ at[i] \in 0 .. Len(text) /\ Boundary(text, at[i])
      /\ at[i + 2] \in 0 .. Len(text) /\ at[j + 1] \in 0 .. Len(text)
  BY <1>3, LineStartsAre
<1>6. at[i] < at[i + 2] /\ at[i + 2] <= at[j + 1]
  BY <1>3, LinesCompare
<1> QED BY <1>4, <1>5, <1>6

\* The first whole row from p on is p's line when p starts it, or the next.
LEMMA RowStartIs ==
  ASSUME NEW ls, NEW T, NEW a, Layout(ls, T, a), NEW k \in 1 .. Len(ls),
         NEW p \in Nat, p >= 1, a[k] <= p, p < a[k + 1]
  PROVE  RowStart(T, p) = IF p = a[k] THEN p ELSE a[k + 1]
<1>1. Len(ls) \in Nat /\ Len(T) \in Nat /\ k \in 1 .. Len(ls) + 1 /\ k + 1 \in 1 .. Len(ls) + 1
  BY DEF Layout
<1>2. a[k] \in 0 .. Len(T) /\ a[k + 1] \in 0 .. Len(T)
  BY <1>1, LinesInText
<1>3. CASE p = a[k]
  <2>1. k # 1
    BY <1>3 DEF Layout
  <2>2. At(T, p - 1) = "n"
    BY <1>1, <1>3, <2>1, LineStartsAre
  <2> QED BY <1>3, <2>2 DEF RowStart
<1>4. CASE p # a[k]
  <2>1. p - 1 \in Nat /\ a[k] <= p - 1 /\ p - 1 < a[k + 1] /\ p - 1 # a[k + 1] - 1
    BY <1>2, <1>4
  <2>2. At(T, p - 1) # "n"
    BY <2>1, LineHolds
  <2> DEFINE S == {q + 1 : q \in {m \in p .. Len(T) - 1 : At(T, m) = "n"}} \cup {Len(T)}
  <2>3. RowStart(T, p) = Least(S)
    BY <2>2 DEF RowStart
  <2>4. S \in SUBSET Nat /\ S # {}
    BY <1>1
  <2>5. a[k + 1] \in S
    <3> DEFINE m == a[k + 1] - 1
    <3>1. m \in Nat /\ a[k] <= m /\ m < a[k + 1] /\ m \in p .. Len(T) - 1 /\ m + 1 = a[k + 1]
      BY <1>1, <1>2
    <3>2. At(T, m) = "n"
      BY <3>1, LineHolds
    <3> QED BY <3>1, <3>2
  <2>6. ASSUME NEW s \in S PROVE a[k + 1] <= s
    <3>1. CASE s = Len(T)
      BY <1>2, <3>1
    <3>2. CASE s # Len(T)
      <4>1. PICK m \in p .. Len(T) - 1 : At(T, m) = "n" /\ s = m + 1
        BY <3>2
      <4>2. m \in Nat /\ a[k] <= m
        BY <1>2, <4>1
      <4>3. m < a[k + 1] => m = a[k + 1] - 1
        BY <4>1, <4>2, LineHolds
      <4> QED BY <1>2, <4>1, <4>2, <4>3
    <3> QED BY <3>1, <3>2
  <2>7. Least(S) \in S /\ \A y \in S : Least(S) <= y
    <3> HIDE DEF S
    <3> QED BY <2>4, LeastIs
  <2>8. Least(S) = a[k + 1]
    <3>1. Least(S) <= a[k + 1] /\ a[k + 1] <= Least(S) /\ Least(S) \in Nat
      BY <2>4, <2>5, <2>6, <2>7
    <3> HIDE DEF S
    <3> QED BY <1>2, <3>1
  <2> QED BY <1>4, <2>3, <2>8
<1> QED BY <1>3, <1>4

-----------------------------------------------------------------------------
(* Carrying headers. *)

ChunkSet == [pos : Nat, end : Nat, head : {<<>>}]

\* A chunk as the rounds cut it.
IsCut(T, c) ==
  /\ c \in ChunkSet
  /\ c.pos <= c.end /\ c.end <= Len(T)
  /\ Boundary(T, c.pos) /\ Boundary(T, c.end)

\* What carry_table_headers makes of one: it leaves it where it starts in no
\* table or cannot help it, takes it back to a header it starts in, or moves
\* it to a whole row and repeats the header.
Carried(c, d) ==
  \/ /\ d = c
     /\ \A t \in AllTables : ~(t.from < c.pos /\ c.pos < t.to)
  \/ \E t \in AllTables :
       /\ t.from < c.pos /\ c.pos < t.data
       /\ d.pos = t.from /\ d.end = c.end /\ d.head = <<>>
  \/ \E t \in AllTables :
       /\ t.data <= c.pos /\ c.pos < t.to /\ d = c
       /\ \/ t.data - t.from > Window
          \/ RowStart(text, c.pos) >= c.end \/ RowStart(text, c.pos) >= t.to
  \/ \E t \in AllTables :
       /\ t.data <= c.pos /\ c.pos < t.to
       /\ RowStart(text, c.pos) < c.end /\ RowStart(text, c.pos) < t.to
       /\ d.pos = RowStart(text, c.pos) /\ d.end = c.end
       /\ d.head = Slice(text, t.from, t.data)

\* That is what carry_table_headers does to a chunk.
LEMMA CarriedIs ==
  ASSUME Layout(lines, text, at), NEW c, IsCut(text, c)
  PROVE  Carried(c, CarryHeader(text, c, AllTables))
<1> DEFINE Hit == {t \in AllTables : t.from < c.pos /\ c.pos < t.to}
           t == CHOOSE t \in Hit : TRUE
           row == RowStart(text, c.pos)
           d == CarryHeader(text, c, AllTables)
<1>1. c \in ChunkSet /\ c.pos \in Nat /\ c.end \in Nat /\ c.head = <<>> /\ Len(text) \in Nat
      /\ c.end <= Len(text)
  BY DEF IsCut, ChunkSet, Layout
<1>2. d = CASE Hit = {} -> c
            [] Hit # {} /\ c.pos < t.data -> [c EXCEPT !.pos = t.from]
            [] OTHER -> IF \/ t.data - t.from > Window
                           \/ row >= c.end \/ row >= t.to
                        THEN c
                        ELSE [c EXCEPT !.pos = row, !.head = Slice(text, t.from, t.data)]
  BY DEF CarryHeader
<1>3. CASE Hit = {}
  <2>1. d = c
    BY <1>2, <1>3
  <2> QED BY <1>3, <2>1 DEF Carried
<1>4. CASE Hit # {}
  <2>1. t \in Hit
    BY <1>4
  <2>2. PICK u : u = t
    OBVIOUS
  <2>3. u \in AllTables /\ u.from < c.pos /\ c.pos < u.to
    BY <2>1, <2>2
  <2>4. u.from \in Nat /\ u.data \in Nat /\ u.to \in Nat /\ u.to <= Len(text)
    <3>1. u.from \in 0 .. Len(text) /\ u.data \in 0 .. Len(text) /\ u.to \in 0 .. Len(text)
      BY <2>3, TableOffsets
    <3> QED BY <1>1, <3>1
  <2>5. d = IF c.pos < u.data THEN [c EXCEPT !.pos = u.from]
            ELSE IF \/ u.data - u.from > Window
                    \/ row >= c.end \/ row >= u.to
                 THEN c
                 ELSE [c EXCEPT !.pos = row, !.head = Slice(text, u.from, u.data)]
    BY <1>2, <1>4, <2>2
  <2>6. row \in Nat
    <3>1. c.pos \in 0 .. Len(text) - 1 /\ c.pos >= 1
      BY <1>1, <2>3, <2>4
    <3>2. PICK k \in 1 .. Len(lines) : at[k] <= c.pos /\ c.pos < at[k + 1]
      BY <3>1, LineThere
    <3>3. row = IF c.pos = at[k] THEN c.pos ELSE at[k + 1]
      BY <1>1, <3>1, <3>2, RowStartIs
    <3>4. at[k + 1] \in Nat
      <4>1. k + 1 \in 1 .. Len(lines) + 1
        BY DEF Layout
      <4> QED BY <4>1 DEF Layout
    <3> QED BY <1>1, <3>3, <3>4
  <2> HIDE DEF t, Hit, row, d
  <2>7. CASE c.pos < u.data
    <3>1. d = [c EXCEPT !.pos = u.from]
      BY <2>5, <2>7
    <3>2. d.pos = u.from /\ d.end = c.end /\ d.head = <<>>
      BY <1>1, <3>1 DEF ChunkSet
    <3> QED BY <2>3, <2>7, <3>2 DEF Carried, d
  <2>8. CASE /\ ~(c.pos < u.data)
             /\ u.data - u.from > Window \/ row >= c.end \/ row >= u.to
    <3>1. d = c
      BY <2>5, <2>8
    <3>2. u.data <= c.pos
      BY <1>1, <2>4, <2>8
    <3> QED BY <2>3, <2>8, <3>1, <3>2 DEF Carried, d, row
  <2>9. CASE /\ ~(c.pos < u.data)
             /\ ~(u.data - u.from > Window \/ row >= c.end \/ row >= u.to)
    <3>1. d = [c EXCEPT !.pos = row, !.head = Slice(text, u.from, u.data)]
      BY <2>5, <2>9
    <3>2. d.pos = row /\ d.end = c.end /\ d.head = Slice(text, u.from, u.data)
      BY <1>1, <3>1 DEF ChunkSet
    <3>3. u.data <= c.pos /\ row < c.end /\ row < u.to
      BY <1>1, <2>4, <2>6, <2>9
    <3> QED BY <2>3, <3>2, <3>3 DEF Carried, d, row
  <2> QED BY <2>7, <2>8, <2>9
<1> QED BY <1>3, <1>4

\* The place a chunk is moved to.
LEMMA RowIs ==
  ASSUME Layout(lines, text, at), NEW t \in AllTables, NEW p \in Nat,
         t.data <= p, p < t.to
  PROVE  \E k \in 3 .. Len(lines) :
            /\ Pipe(k) /\ t.data <= at[k] /\ at[k + 1] <= t.to
            /\ at[k] <= p /\ p < at[k + 1]
            /\ RowStart(text, p) = IF p = at[k] THEN p ELSE at[k + 1]
<1>1. PICK i, j : TableAt(t, i, j)
  BY TableIs
<1>2. t.from \in 0 .. Len(text) /\ t.data \in 0 .. Len(text) /\ t.from < t.data
  BY TableOffsets
<1>3. t.from <= p /\ p >= 1
  BY <1>2
<1>4. PICK k \in i .. j : Pipe(k) /\ at[k] <= p /\ p < at[k + 1]
  BY <1>1, <1>3, LineOfTable
<1>5. Len(lines) \in Nat /\ i \in 1 .. Len(lines) /\ j \in 1 .. Len(lines) /\ i < j
      /\ t.data = at[i + 2] /\ t.to = at[j + 1] /\ k \in 1 .. Len(lines)
  BY <1>1, <1>4 DEF TableAt, Layout
<1>6. {k, k + 1, i + 2, j + 1} \subseteq 1 .. Len(lines) + 1
  BY <1>5
<1>7. \A x \in {k, k + 1, i + 2, j + 1} : at[x] \in Nat
  BY <1>6 DEF Layout
<1>8. at[i + 2] < at[k + 1]
  BY <1>4, <1>5, <1>7
<1>9. i + 2 < k + 1
  BY <1>6, <1>8, LinesCompare
<1>10. i + 2 <= k /\ k + 1 <= j + 1 /\ k \in 3 .. Len(lines)
  BY <1>4, <1>5, <1>9
<1>11. t.data <= at[k] /\ at[k + 1] <= t.to
  BY <1>5, <1>6, <1>10, LinesCompare
<1>12. RowStart(text, p) = IF p = at[k] THEN p ELSE at[k + 1]
  BY <1>3, <1>4, <1>5, RowStartIs
<1> QED BY <1>4, <1>10, <1>11, <1>12

\* It is still a stretch of the text between characters, and starts no later
\* than a row.
LEMMA CarriedTypes ==
  ASSUME Layout(lines, text, at), NEW c, IsCut(text, c), NEW d, Carried(c, d)
  PROVE  /\ 0 <= d.pos /\ d.pos <= d.end /\ d.end <= Len(text) /\ d.pos \in Nat
         /\ Boundary(text, d.pos) /\ Boundary(text, d.end) /\ d.end = c.end
<1>1. c.pos \in Nat /\ c.end \in Nat /\ c.pos <= c.end /\ c.end <= Len(text) /\ Len(text) \in Nat
      /\ Boundary(text, c.pos) /\ Boundary(text, c.end)
  BY DEF IsCut, ChunkSet, Layout
<1>2. CASE d = c
  BY <1>1, <1>2
<1>3. ASSUME NEW t \in AllTables, t.from < c.pos, d.pos = t.from, d.end = c.end
      PROVE  /\ 0 <= d.pos /\ d.pos <= d.end /\ d.end <= Len(text) /\ d.pos \in Nat
             /\ Boundary(text, d.pos) /\ Boundary(text, d.end) /\ d.end = c.end
  <2>1. t.from \in 0 .. Len(text) /\ Boundary(text, t.from)
    BY TableOffsets
  <2> QED BY <1>1, <1>3, <2>1
<1>4. ASSUME NEW t \in AllTables, t.data <= c.pos, c.pos < t.to, RowStart(text, c.pos) < c.end,
             d.pos = RowStart(text, c.pos), d.end = c.end
      PROVE  /\ 0 <= d.pos /\ d.pos <= d.end /\ d.end <= Len(text) /\ d.pos \in Nat
             /\ Boundary(text, d.pos) /\ Boundary(text, d.end) /\ d.end = c.end
  <2>1. PICK k \in 3 .. Len(lines) : RowStart(text, c.pos) = IF c.pos = at[k] THEN c.pos ELSE at[k + 1]
    BY <1>1, <1>4, RowIs
  <2>2. k + 1 \in 1 .. Len(lines) + 1
    BY DEF Layout
  <2>3. at[k + 1] \in 0 .. Len(text) /\ Boundary(text, at[k + 1])
    BY <2>2, LineStartsAre
  <2>4. d.pos \in Nat /\ Boundary(text, d.pos)
    BY <1>1, <1>4, <2>1, <2>3
  <2> QED BY <1>1, <1>4, <2>4
<1> QED BY <1>2, <1>3, <1>4 DEF Carried

\* A whole data row in a chunk comes with its header.
LEMMA HeaderKept ==
  ASSUME Layout(lines, text, at), NEW c, IsCut(text, c), NEW d, Carried(c, d),
         NEW t \in AllTables, t.data - t.from <= Window, NEW i \in 1 .. Len(lines),
         t.data <= at[i], at[i + 1] <= t.to, LineBytes(i) \subseteq Bytewise(d)
  PROVE  d.pos <= t.from \/ d.head = Slice(text, t.from, t.data)
<1>1. Len(lines) \in Nat /\ Len(text) \in Nat /\ i \in 1 .. Len(lines) + 1 /\ i + 1 \in 1 .. Len(lines) + 1
  BY DEF Layout
<1>2. at[i] \in Nat /\ at[i + 1] \in Nat /\ at[i] < at[i + 1]
  <2>1. i < i + 1
    OBVIOUS
  <2> QED BY <1>1, <2>1, LinesCompare DEF Layout
<1>3. c.pos \in Nat /\ c.end \in Nat /\ d.pos \in Nat /\ d.end = c.end /\ Window \in Nat
  BY CarriedTypes, SizesAre DEF IsCut, ChunkSet
<1>4. d.pos <= at[i] /\ at[i] < d.end
  <2>1. at[i] \in LineBytes(i)
    BY <1>2 DEF LineBytes
  <2>2. at[i] \in d.pos .. d.end - 1
    BY <2>1 DEF Bytewise
  <2> QED BY <1>2, <1>3, <2>2
<1>5. t.from \in Nat /\ t.data \in Nat /\ t.to \in Nat /\ t.from < t.data /\ at[i] < t.to
  <2>1. /\ t.from \in 0 .. Len(text) /\ t.data \in 0 .. Len(text) /\ t.to \in 0 .. Len(text)
        /\ t.from < t.data
    BY TableOffsets
  <2> QED BY <1>1, <1>2, <2>1
<1>6. SUFFICES ASSUME t.from < d.pos PROVE d.head = Slice(text, t.from, t.data)
  BY <1>3, <1>5
<1>7. d.pos < t.to
  BY <1>2, <1>3, <1>4, <1>5
<1>8. CASE d = c /\ \A u \in AllTables : ~(u.from < c.pos /\ c.pos < u.to)
  BY <1>6, <1>7, <1>8
<1>9. ASSUME NEW u \in AllTables, u.from < c.pos, c.pos < u.data, d.pos = u.from
      PROVE  FALSE
  <2>1. /\ u.from \in 0 .. Len(text) /\ u.data \in 0 .. Len(text) /\ u.to \in 0 .. Len(text)
        /\ u.from < u.data /\ u.data <= u.to
    BY TableOffsets
  <2>2. u.from <= d.pos /\ d.pos < u.to /\ t.from <= d.pos
    <3>1. u.from \in Nat /\ u.data \in Nat /\ u.to \in Nat /\ t.from \in Nat
      BY <1>1, <1>5, <2>1
    <3>2. u.from < u.to
      BY <2>1, <3>1
    <3>3. u.from <= d.pos /\ d.pos < u.to
      BY <1>9, <3>1, <3>2
    <3> QED BY <1>3, <1>6, <3>1, <3>3
  <2>3. u = t
    BY <1>3, <1>7, <2>2, SameTable
  <2> QED BY <1>3, <1>5, <1>6, <1>9, <2>3
<1>10. ASSUME NEW u \in AllTables, u.data <= c.pos, c.pos < u.to, d = c,
              \/ u.data - u.from > Window
              \/ RowStart(text, c.pos) >= c.end \/ RowStart(text, c.pos) >= u.to
       PROVE  FALSE
  <2>1. /\ u.from \in 0 .. Len(text) /\ u.data \in 0 .. Len(text) /\ u.to \in 0 .. Len(text)
        /\ u.from < u.data
    BY TableOffsets
  <2>2. u.from <= c.pos /\ t.from <= c.pos /\ c.pos < t.to
    <3>1. u.from \in Nat /\ u.data \in Nat /\ c.pos \in Nat /\ t.from \in Nat /\ d.pos = c.pos
      BY <1>1, <1>3, <1>5, <1>10, <2>1
    <3>2. u.from <= c.pos
      BY <1>10, <2>1, <3>1
    <3>3. t.from <= c.pos
      BY <1>6, <3>1
    <3>4. c.pos < t.to
      BY <1>7, <3>1
    <3> QED BY <3>2, <3>3, <3>4
  <2>3. u = t
    BY <1>3, <1>10, <2>2, SameTable
  <2>4. PICK k \in 3 .. Len(lines) :
            /\ at[k] <= c.pos /\ c.pos < at[k + 1]
            /\ RowStart(text, c.pos) = IF c.pos = at[k] THEN c.pos ELSE at[k + 1]
    BY <1>3, <1>10, RowIs
  <2>5. RowStart(text, c.pos) <= at[i]
    <3>1. k \in 1 .. Len(lines) + 1 /\ k + 1 \in 1 .. Len(lines) + 1
      BY <1>1
    <3>2. at[k] \in Nat /\ at[k + 1] \in Nat
      BY <3>1 DEF Layout
    <3>3. CASE c.pos = at[k]
      BY <1>4, <1>10, <2>4, <3>3
    <3>4. CASE c.pos # at[k]
      <4>1. at[k] < at[i]
        BY <1>2, <1>3, <1>4, <1>10, <2>4, <3>2, <3>4
      <4>2. k < i
        BY <1>1, <3>1, <4>1, LinesCompare
      <4>3. k + 1 <= i
        BY <1>1, <4>2
      <4>4. at[k + 1] <= at[i]
        BY <1>1, <3>1, <4>3, LinesCompare
      <4> QED BY <2>4, <3>4, <4>4
    <3> QED BY <3>3, <3>4
  <2>6. RowStart(text, c.pos) \in Nat
    <3>1. k + 1 \in 1 .. Len(lines) + 1
      BY <1>1
    <3>2. at[k + 1] \in Nat
      BY <3>1 DEF Layout
    <3> QED BY <1>3, <2>4, <3>2
  <2>7. RowStart(text, c.pos) < c.end /\ RowStart(text, c.pos) < t.to
    <3>1. PICK row \in Nat : row = RowStart(text, c.pos)
      BY <2>6
    <3>2. row <= at[i] /\ at[i] < c.end /\ at[i] < t.to
      BY <1>3, <1>4, <1>5, <2>5, <3>1
    <3>3. row < c.end
      BY <1>2, <1>3, <3>2
    <3>4. row < t.to
      BY <1>2, <1>5, <3>2
    <3> QED BY <3>1, <3>3, <3>4
  <2> QED BY <1>3, <1>5, <1>10, <2>3, <2>6, <2>7
<1>11. ASSUME NEW u \in AllTables, u.data <= c.pos, c.pos < u.to,
              RowStart(text, c.pos) < u.to, d.pos = RowStart(text, c.pos),
              d.head = Slice(text, u.from, u.data)
       PROVE  d.head = Slice(text, t.from, t.data)
  <2>1. /\ u.from \in 0 .. Len(text) /\ u.data \in 0 .. Len(text) /\ u.to \in 0 .. Len(text)
        /\ u.from < u.data
    BY TableOffsets
  <2>2. PICK k \in 3 .. Len(lines) :
            /\ u.data <= at[k] /\ at[k] <= c.pos /\ c.pos < at[k + 1]
            /\ RowStart(text, c.pos) = IF c.pos = at[k] THEN c.pos ELSE at[k + 1]
    BY <1>3, <1>11, RowIs
  <2>3. k \in 1 .. Len(lines) + 1 /\ k + 1 \in 1 .. Len(lines) + 1
    BY <1>1
  <2>4. at[k] \in Nat /\ at[k + 1] \in Nat
    BY <2>3 DEF Layout
  <2>5. u.from <= d.pos
    BY <1>3, <1>11, <2>1, <2>2, <2>4, SMTT(30)
  <2>6. u = t
    BY <1>3, <1>5, <1>6, <1>7, <1>11, <2>5, SameTable
  <2> QED BY <1>11, <2>6
<1> QED BY <1>8, <1>9, <1>10, <1>11 DEF Carried

\* A newline next to a table's row is outside the fences.
LEMMA RowsEndOutside ==
  ASSUME Layout(lines, text, at), NEW k \in 2 .. Len(lines), Pipe(k)
  PROVE  /\ at[k] >= 1 /\ ~inside_fence(at[k] - 1, Fences) /\ At(text, at[k] - 1) = "n"
         /\ ~inside_fence(at[k + 1] - 1, Fences) /\ At(text, at[k + 1] - 1) = "n"
<1>1. Len(lines) \in Nat /\ Len(text) \in Nat
  BY DEF Layout
<1>2. lines[k] \in {"row", "long", "sep"} /\ ~inside_fence(at[k], Fences)
  BY DEF Pipe, PipeLine
<1>3. k \in 1 .. Len(lines) /\ k \in 1 .. Len(lines) + 1 /\ k + 1 \in 1 .. Len(lines) + 1
      /\ k # 1 /\ k + 1 # 1 /\ k < k + 1
  BY <1>1
<1>4. at[k] \in 0 .. Len(text) /\ at[k + 1] \in 0 .. Len(text) /\ at[k] < at[k + 1]
  BY <1>3, LinesInText, LinesCompare
<1>5. at[k] >= 1 /\ At(text, at[k] - 1) = "n" /\ At(text, at[k + 1] - 1) = "n"
  BY <1>3, LineStartsAre
<1>6. ASSUME inside_fence(at[k] - 1, Fences) PROVE FALSE
  <2>1. PICK f \in Fences : f[1] < at[k] - 1 /\ at[k] - 1 < f[2]
    BY <1>6 DEF inside_fence
  <2>2. /\ f[1] \in 0 .. Len(text) - 1
        /\ f[2] \in Nat
        /\ f[2] = Len(text) \/ (f[2] >= 1 /\ f[2] <= Len(text) /\ At(text, f[2] - 1) = "f")
    BY <1>1, FencesAre DEF Fences
  <2>3. ~(f[1] < at[k] /\ at[k] < f[2])
    BY <1>2 DEF inside_fence
  <2>4. f[2] = at[k]
    BY <1>1, <1>4, <2>1, <2>2, <2>3
  <2>5. At(text, f[2] - 1) = "f"
    BY <1>1, <1>4, <2>2, <2>4
  <2> QED BY <1>5, <2>4, <2>5
<1>7. ASSUME inside_fence(at[k + 1] - 1, Fences) PROVE FALSE
  <2>1. PICK f \in Fences : f[1] < at[k + 1] - 1 /\ at[k + 1] - 1 < f[2]
    BY <1>7 DEF inside_fence
  <2>2. f[1] \in 0 .. Len(text) - 1 /\ At(text, f[1]) = "f" /\ f[2] \in Nat
    BY <1>1, FencesAre DEF Fences
  <2>3. ~(f[1] < at[k] /\ at[k] < f[2])
    BY <1>2 DEF inside_fence
  <2>4. f[1] \in Nat /\ at[k] <= f[1] /\ f[1] < at[k + 1]
    BY <1>1, <1>4, <2>1, <2>2, <2>3
  <2>5. At(text, f[1]) # "f"
    BY <1>2, <1>3, <2>4, LineHolds
  <2> QED BY <2>2, <2>5
<1> QED BY <1>5, <1>6, <1>7

\* When a row is cut elsewhere than at its newline, no window of break points
\* sees both of its ends: it is longer than a window.
LEMMA RowIsLong ==
  ASSUME Layout(lines, text, at), NEW from \in Nat, NEW e, NEW q,
         Round(text, scan_break_points(text, Fences), from, e, q),
         NEW k \in 2 .. Len(lines), Pipe(k), at[k] < q, e < at[k + 1], At(text, e) # "n"
  PROVE  Len(Bytes(lines[k])) > Window
<1> DEFINE ideal == from + ChunkSize
           points == scan_break_points(text, Fences)
<1>1. Len(lines) \in Nat /\ Len(text) \in Nat /\ k \in 1 .. Len(lines)
      /\ k \in 1 .. Len(lines) + 1 /\ k + 1 \in 1 .. Len(lines) + 1
  BY DEF Layout
<1>2. at[k] \in 0 .. Len(text) /\ at[k + 1] \in 0 .. Len(text)
  BY <1>1, LinesInText
<1>3. Breaks(points, text)
  BY <1>1, MarkdownBreaks
<1>4. e \in 0 .. Len(text) /\ q \in 0 .. Len(text) /\ q <= e
  <2> HIDE DEF points
  <2>1. Round(text, points, from, e, q)
    BY DEF points
  <2> QED BY <1>3, <2>1, RoundMovesOn
<1>5. at[k] < e /\ e \in Nat
  BY <1>2, <1>4
<1>6. ideal \in Nat /\ ideal < Len(text) /\ ideal \in 0 .. Len(text)
  BY <1>1, SizesAre DEF Round
<1>7. /\ e = snap_forward(text, ideal)
      /\ \A p \in 0 .. Len(text) - 1 :
           At(text, p) = "n" /\ InWindow(p, ideal, text) => inside_fence(p, Fences)
  <2>1. e = CutAt(text, points, from) /\ from + ChunkSize < Len(text)
    BY DEF Round
  <2> QED BY <1>1, <2>1, MarkdownCut
<1> HIDE DEF ideal, points
<1>8. e = ideal
  <2>1. e \in ideal .. Len(text) /\ Boundary(text, e) /\ (Boundary(text, ideal) => e = ideal)
    BY <1>1, <1>6, <1>7, SnapForward
  <2>2. ASSUME e # ideal PROVE FALSE
    <3>1. ideal <= e - 1 /\ e - 1 \in Nat /\ at[k] <= e - 1 /\ e - 1 < at[k + 1] /\ e - 1 \in ideal .. Len(text)
      BY <1>1, <1>2, <1>5, <1>6, <2>1, <2>2
    <3>2. lines[k] \in {"row", "long", "sep"}
      BY DEF Pipe, PipeLine
    <3>3. At(text, e - 1) # "c"
      BY <1>1, <3>1, <3>2, LineHolds
    <3>4. Boundary(text, e - 1)
      BY <3>3 DEF Boundary
    <3>5. e \in {x \in ideal .. Len(text) : Boundary(text, x)} /\ e - 1 \in {x \in ideal .. Len(text) : Boundary(text, x)}
      BY <2>1, <3>1, <3>4
    <3>6. Capped(ideal, text) = ideal
      BY <1>6 DEF Capped
    <3>7. e = Least({x \in ideal .. Len(text) : Boundary(text, x)})
      BY <1>7, <3>6 DEF snap_forward
    <3>8. e <= e - 1
      <4> DEFINE S == {x \in ideal .. Len(text) : Boundary(text, x)}
      <4>1. S \in SUBSET Nat /\ S # {} /\ e - 1 \in S
        BY <1>6, <3>5
      <4>2. \A y \in S : Least(S) <= y
        <5> HIDE DEF S
        <5> QED BY <4>1, LeastIs
      <4> QED BY <3>7, <4>1, <4>2
    <3> QED BY <1>5, <3>8
  <2> QED BY <2>2
<1>9. /\ at[k] >= 1 /\ ~inside_fence(at[k] - 1, Fences) /\ At(text, at[k] - 1) = "n"
      /\ ~inside_fence(at[k + 1] - 1, Fences) /\ At(text, at[k + 1] - 1) = "n"
  BY RowsEndOutside
<1>10. at[k] - 1 \in 0 .. Len(text) - 1 /\ at[k + 1] - 1 \in 0 .. Len(text) - 1
  BY <1>1, <1>2, <1>5, <1>9, SMTT(30)
<1>11. ~InWindow(at[k] - 1, ideal, text) /\ ~InWindow(at[k + 1] - 1, ideal, text)
  BY <1>7, <1>9, <1>10
<1>12. Hi(ideal, text) = IF ideal + Half < Len(text) THEN ideal + Half ELSE Len(text)
  BY DEF Hi, Capped
<1>13. Lo(ideal) = IF ideal > Half THEN ideal - Half ELSE 0
  BY DEF Lo, Less
<1>14. e # at[k + 1] - 1
  BY <1>9
<1>15. at[k + 1] - 1 >= ideal + Half
  BY <1>1, <1>2, <1>4, <1>5, <1>6, <1>8, <1>11, <1>12, <1>13, <1>14, SizesAre, SMTT(30) DEF InWindow
<1>16. at[k] - 1 < ideal - Half
  BY <1>1, <1>2, <1>4, <1>5, <1>6, <1>8, <1>9, <1>11, <1>12, <1>13, SizesAre, SMTT(30) DEF InWindow
<1>17. at[k + 1] - at[k] > Window
  BY <1>2, <1>6, <1>15, <1>16, SizesAre, SMTT(30)
<1>18. at[k + 1] = at[k] + Len(Bytes(lines[k])) /\ Len(Bytes(lines[k])) \in Nat
  <2>1. lines[k] \in Kind
    BY <1>1 DEF Layout
  <2> QED BY <1>1, <2>1, BytesAre DEF Layout
<1> QED BY <1>2, <1>17, <1>18

\* So what a round ends before, and the next chunk is moved past, is a newline
\* or such a row.
Excused(p) ==
  \/ At(text, p) = "n"
  \/ \E i \in DOMAIN lines :
       /\ p \in LineBytes(i)
       /\ Len(Bytes(lines[i])) > Window
       /\ \E t \in AllTables : t.data <= p /\ p < t.to

\* Nothing else lies between the end of a round and the next chunk.
LEMMA NothingBetween ==
  ASSUME Layout(lines, text, at), NEW from \in Nat, NEW e, NEW c,
         Round(text, scan_break_points(text, Fences), from, e, c.pos),
         IsCut(text, c), NEW d, Carried(c, d), NEW p \in Nat, c.pos <= p, p < c.end, e <= p
  PROVE  Excused(p) \/ p \in Bytewise(d)
<1>1. Len(lines) \in Nat /\ Len(text) \in Nat /\ DOMAIN lines = 1 .. Len(lines)
  BY DEF Layout
<1>2. c.pos \in Nat /\ c.end \in Nat /\ d.pos \in Nat /\ d.end = c.end
  BY CarriedTypes DEF IsCut, ChunkSet
<1>3. d.pos <= p => p \in Bytewise(d)
  BY <1>2 DEF Bytewise
<1>4. CASE d = c
  BY <1>3, <1>4
<1>5. ASSUME NEW t \in AllTables, t.from < c.pos, d.pos = t.from
      PROVE  d.pos <= p
  <2>1. t.from \in 0 .. Len(text)
    BY TableOffsets
  <2> QED BY <1>1, <1>2, <1>5, <2>1
<1>6. ASSUME NEW t \in AllTables, t.data <= c.pos, c.pos < t.to,
             d.pos = RowStart(text, c.pos), ~(d.pos <= p), At(text, p) # "n"
      PROVE  Excused(p)
  <2>1. PICK k \in 3 .. Len(lines) :
            /\ Pipe(k) /\ t.data <= at[k] /\ at[k + 1] <= t.to
            /\ at[k] <= c.pos /\ c.pos < at[k + 1]
            /\ RowStart(text, c.pos) = IF c.pos = at[k] THEN c.pos ELSE at[k + 1]
    BY <1>2, <1>6, RowIs
  <2>2. k \in 2 .. Len(lines) /\ k \in 1 .. Len(lines) /\ k \in 1 .. Len(lines) + 1
        /\ k + 1 \in 1 .. Len(lines) + 1
    BY <1>1
  <2>3. at[k] \in Nat /\ at[k + 1] \in Nat
    BY <2>2 DEF Layout
  <2>4. c.pos # at[k] /\ d.pos = at[k + 1] /\ at[k] < c.pos /\ p < at[k + 1] /\ at[k] <= p
    BY <1>2, <1>6, <2>1, <2>3
  <2>5. e \in 0 .. Len(text) /\ c.pos <= e
    <3> DEFINE points == scan_break_points(text, Fences)
    <3>1. Breaks(points, text) /\ Round(text, points, from, e, c.pos)
      BY <1>1, MarkdownBreaks
    <3> HIDE DEF points
    <3> QED BY <3>1, RoundMovesOn
  <2>6. e \in Nat /\ e < at[k + 1] /\ at[k] <= e
    BY <1>1, <1>2, <2>3, <2>4, <2>5
  <2>7. At(text, e) # "n"
    <3>1. ASSUME At(text, e) = "n" PROVE FALSE
      <4>1. e = at[k + 1] - 1
        BY <2>2, <2>6, <3>1, LineHolds
      <4>2. p = e
        BY <2>3, <2>4, <2>6, <4>1
      <4> QED BY <1>6, <3>1, <4>2
    <3> QED BY <3>1
  <2>8. Len(Bytes(lines[k])) > Window
    BY <2>1, <2>2, <2>4, <2>6, <2>7, RowIsLong
  <2>9. p \in LineBytes(k)
    BY <2>3, <2>4 DEF LineBytes
  <2>10. t.data <= p /\ p < t.to
    <3>1. t.data \in 0 .. Len(text) /\ t.to \in 0 .. Len(text)
      BY TableOffsets
    <3> QED BY <1>1, <2>1, <2>3, <2>4, <3>1
  <2> QED BY <1>1, <2>2, <2>8, <2>9, <2>10 DEF Excused
<1>7. At(text, p) = "n" => Excused(p)
  BY DEF Excused
<1> QED BY <1>3, <1>4, <1>5, <1>6, <1>7 DEF Carried

-----------------------------------------------------------------------------
(* What the rounds leave. *)

\* The chunks so far: each a stretch between characters, the first from the
\* start, each where the one before it says.
Cuts(T, points, ch) ==
  /\ ch \in Seq(ChunkSet)
  /\ \A i \in 1 .. Len(ch) : IsCut(T, ch[i])
  /\ Len(ch) > 0 => ch[1].pos = 0
  /\ \A i \in 1 .. Len(ch) - 1 : Round(T, points, ch[i].pos, ch[i].end, ch[i + 1].pos)

\* The place the next chunk starts at.
NextAt(T, points, ch, s) ==
  IF Len(ch) = 0 THEN s = 0
  ELSE Round(T, points, ch[Len(ch)].pos, ch[Len(ch)].end, s)

\* Another round leaves them so.
LEMMA CutsGrow ==
  ASSUME NEW T, NEW points, NEW ch, Cuts(T, points, ch), NEW c, IsCut(T, c),
         NextAt(T, points, ch, c.pos)
  PROVE  /\ Cuts(T, points, Append(ch, c))
         /\ Len(Append(ch, c)) = Len(ch) + 1 /\ Append(ch, c)[Len(ch) + 1] = c
<1> DEFINE n == Len(ch)
           new == Append(ch, c)
<1>1. ch \in Seq(ChunkSet) /\ c \in ChunkSet
  BY DEF Cuts, IsCut
<1>2. n \in Nat /\ new \in Seq(ChunkSet) /\ Len(new) = n + 1 /\ new[n + 1] = c
      /\ \A i \in 1 .. n : new[i] = ch[i]
  BY <1>1
<1> HIDE DEF new
<1>3. \A i \in 1 .. n : IsCut(T, ch[i])
  BY DEF Cuts
<1>4. \A i \in 1 .. n + 1 : IsCut(T, new[i])
  <2> SUFFICES ASSUME NEW i \in 1 .. n + 1 PROVE IsCut(T, new[i])
    OBVIOUS
  <2>1. CASE i = n + 1
    BY <1>2, <2>1
  <2>2. CASE i # n + 1
    <3>1. i \in 1 .. n
      BY <1>2, <2>2
    <3> QED BY <1>2, <1>3, <3>1
  <2> QED BY <2>1, <2>2
<1>5. new[1].pos = 0
  <2>1. CASE n = 0
    BY <1>2, <2>1 DEF NextAt
  <2>2. CASE n # 0
    <3>1. 1 \in 1 .. n /\ n > 0
      BY <1>2, <2>2
    <3> QED BY <1>2, <3>1 DEF Cuts
  <2> QED BY <2>1, <2>2
<1>6. \A i \in 1 .. n : Round(T, points, new[i].pos, new[i].end, new[i + 1].pos)
  <2> SUFFICES ASSUME NEW i \in 1 .. n PROVE Round(T, points, new[i].pos, new[i].end, new[i + 1].pos)
    OBVIOUS
  <2>1. CASE i = n
    <3>1. new[i] = ch[n] /\ new[i + 1] = c /\ n # 0
      BY <1>2, <2>1
    <3> QED BY <3>1 DEF NextAt
  <2>2. CASE i # n
    <3>1. i \in 1 .. n - 1 /\ i + 1 \in 1 .. n
      BY <1>2, <2>2
    <3>2. new[i] = ch[i] /\ new[i + 1] = ch[i + 1]
      BY <1>2, <3>1
    <3>3. Round(T, points, ch[i].pos, ch[i].end, ch[i + 1].pos)
      BY <3>1 DEF Cuts
    <3> QED BY <3>2, <3>3
  <2> QED BY <2>1, <2>2
<1>7. Cuts(T, points, new)
  <2>1. Len(new) - 1 = n
    BY <1>2
  <2> QED BY <1>2, <1>4, <1>5, <1>6, <2>1 DEF Cuts
<1> QED BY <1>2, <1>7 DEF new

\* Where a window that fits before its ideal end starts.
LEMMA LoIs ==
  ASSUME NEW ideal \in Nat, ideal - Half \in Nat
  PROVE  Lo(ideal) = ideal - Half
<1>1. Half \in Nat
  BY SizesAre
<1>2. Lo(ideal) = IF ideal > Half THEN ideal - Half ELSE 0
  BY <1>1 DEF Lo, Less
<1> QED BY <1>1, <1>2

\* When a chunk ends inside a fence, its window has no line end outside one.
CutInFence(from, e, T, fences) ==
  LET ideal == from + ChunkSize
  IN inside_fence(e, fences) =>
       \A p \in ideal - Window \div 2 .. Capped(ideal + Window \div 2, T) - 1 :
         At(T, p) = "n" => inside_fence(p, fences)

\* A cut that ends inside a fence had no line end outside one in its window.
LEMMA FenceCut ==
  ASSUME NEW T, Len(T) \in Nat, NEW fences, NEW from \in Nat, NEW e, NEW q,
         Round(T, scan_break_points(T, fences), from, e, q)
  PROVE  CutInFence(from, e, T, fences)
<1> DEFINE ideal == from + ChunkSize
           cap == Capped(ideal + Half, T)
<1>1. from + ChunkSize < Len(T) /\ e = CutAt(T, scan_break_points(T, fences), from)
  BY DEF Round
<1>2. \/ At(T, e) = "n" /\ ~inside_fence(e, fences)
      \/ \A x \in 0 .. Len(T) - 1 :
           At(T, x) = "n" /\ InWindow(x, from + ChunkSize, T) => inside_fence(x, fences)
  BY <1>1, MarkdownCut
<1>3. ideal \in Nat /\ ideal - Half \in Nat /\ ideal + Half \in Nat /\ Half \in Nat
  BY SizesAre
<1>4. cap \in 0 .. Len(T)
  BY <1>3, CappedIs
<1>5. Lo(ideal) = ideal - Half
  <2> HIDE DEF ideal
  <2> QED BY <1>3, LoIs
<1>6. CutInFence(from, e, T, fences) <=>
        (inside_fence(e, fences) =>
           \A p \in ideal - Half .. cap - 1 : At(T, p) = "n" => inside_fence(p, fences))
  BY DEF CutInFence, Half
<1>7. ASSUME NEW p \in ideal - Half .. cap - 1
      PROVE  p \in 0 .. Len(T) - 1 /\ InWindow(p, ideal, T)
  <2> HIDE DEF ideal
  <2>1. Hi(ideal, T) = cap
    BY DEF Hi
  <2> HIDE DEF cap
  <2> QED BY <1>3, <1>4, <1>5, <1>7, <2>1 DEF InWindow
<1> HIDE DEF cap
<1> QED BY <1>2, <1>6, <1>7

\* The chunks that are not the last, all together.
CutLast(ch, T, fences) ==
  \A i \in 1 .. Len(ch) - 1 : CutInFence(ch[i].pos, ch[i].end, T, fences)

\* Nor had any of them.
LEMMA FencesCut ==
  ASSUME NEW T, Len(T) \in Nat, NEW fences, NEW ch,
         Cuts(T, scan_break_points(T, fences), ch)
  PROVE  CutLast(ch, T, fences)
<1> SUFFICES ASSUME NEW i \in 1 .. Len(ch) - 1
             PROVE  CutInFence(ch[i].pos, ch[i].end, T, fences)
  BY DEF CutLast
<1>1. Len(ch) \in Nat
  BY DEF Cuts
<1>2. i \in 1 .. Len(ch)
  BY <1>1
<1>3. IsCut(T, ch[i]) /\ Round(T, scan_break_points(T, fences), ch[i].pos, ch[i].end, ch[i + 1].pos)
  BY <1>2 DEF Cuts
<1>4. ch[i].pos \in Nat
  BY <1>3 DEF IsCut, ChunkSet
<1> QED BY <1>3, <1>4, FenceCut

\* Once a markdown text is cut and its headers are carried, or a source text
\* is cut, every byte but those is in a chunk.
LEMMA Covered ==
  ASSUME Layout(lines, text, at), Cuts(text, breaks, chunks), Breaks(breaks, text),
         Len(chunks) > 0, chunks[Len(chunks)].end = Len(text), NEW ch,
         \/ /\ breaks = scan_break_points(text, Fences)
            /\ \A i \in 1 .. Len(chunks) : Carried(chunks[i], ch[i])
         \/ \A i \in 1 .. Len(chunks) : ch[i] = chunks[i],
         NEW p \in 0 .. Len(text) - 1
  PROVE  Excused(p) \/ \E i \in 1 .. Len(chunks) : p \in Bytewise(ch[i])
<1> DEFINE n == Len(chunks)
           S == {i \in Nat : i \in 1 .. n /\ p < chunks[i].end}
<1>1. n \in Nat /\ Len(text) \in Nat /\ p \in Nat
  BY DEF Layout, Cuts
<1>2. \A i \in 1 .. n : IsCut(text, chunks[i])
  BY DEF Cuts
<1>3. \A i \in 1 .. n : chunks[i].pos \in Nat /\ chunks[i].end \in Nat
  BY <1>2 DEF IsCut, ChunkSet
<1>4. n \in S
  BY <1>1
<1>5. PICK i \in S : \A y \in S : i <= y
  <2>1. S # {} /\ S \subseteq Nat
    BY <1>4
  <2> QED BY <2>1, LeastOf
<1>6. i \in 1 .. n /\ p < chunks[i].end
  BY <1>5
<1>7. PICK c, d : c = chunks[i] /\ d = ch[i]
  OBVIOUS
<1>8. c.pos \in Nat /\ c.end \in Nat /\ p < c.end /\ IsCut(text, c)
  BY <1>2, <1>3, <1>6, <1>7
<1>9. c.pos <= p /\ (i = 1 => c.pos = 0)
      /\ (i # 1 => /\ Round(text, breaks, chunks[i - 1].pos, chunks[i - 1].end, c.pos)
                   /\ chunks[i - 1].end <= p /\ chunks[i - 1].pos \in Nat)
  <2>1. CASE i = 1
    <3>1. c.pos = 0
      BY <1>7, <2>1 DEF Cuts
    <3> QED BY <1>1, <2>1, <3>1
  <2>2. CASE i # 1
    <3>1. i - 1 \in Nat /\ i - 1 \in 1 .. n - 1 /\ i - 1 \in 1 .. n /\ ~(i <= i - 1) /\ (i - 1) + 1 = i
      BY <1>1, <1>6, <2>2
    <3>2. i - 1 \notin S
      BY <1>5, <3>1
    <3>3. chunks[i - 1].end <= p /\ chunks[i - 1].pos \in Nat /\ chunks[i - 1].end \in Nat
      BY <1>1, <1>3, <3>1, <3>2
    <3>4. Round(text, breaks, chunks[i - 1].pos, chunks[i - 1].end, chunks[(i - 1) + 1].pos)
      BY <3>1 DEF Cuts
    <3>5. Round(text, breaks, chunks[i - 1].pos, chunks[i - 1].end, c.pos)
      BY <1>7, <3>1, <3>4
    <3>6. c.pos <= chunks[i - 1].end
      BY <3>3, <3>5, RoundMovesOn
    <3> QED BY <1>1, <1>8, <2>2, <3>3, <3>5, <3>6
  <2> QED BY <2>1, <2>2
<1>10. CASE d = c
  <2>1. p \in Bytewise(d)
    BY <1>1, <1>8, <1>9, <1>10 DEF Bytewise
  <2> QED BY <1>6, <1>7, <2>1
<1>11. CASE breaks = scan_break_points(text, Fences) /\ Carried(c, d)
  <2>1. CASE i = 1
    <3>1. \A t \in AllTables : t.from \in 0 .. Len(text) /\ t.data \in 0 .. Len(text) /\ t.from < t.data
      BY TableOffsets
    <3>2. \A t \in AllTables : ~(t.from < c.pos) /\ ~(t.data <= c.pos)
      BY <1>1, <1>9, <2>1, <3>1
    <3>3. d = c
      BY <1>11, <3>2 DEF Carried
    <3> QED BY <1>10, <3>3
  <2>2. CASE i # 1
    <3>1. Excused(p) \/ p \in Bytewise(d)
      BY <1>1, <1>8, <1>9, <1>11, <2>2, NothingBetween
    <3> QED BY <1>6, <1>7, <3>1
  <2> QED BY <2>1, <2>2
<1> QED BY <1>6, <1>7, <1>10, <1>11

-----------------------------------------------------------------------------
(* The invariant. *)

ChunkInv ==
  /\ Layout(lines, text, at)
  /\ Boundary(text, start)
  /\ pc \in {"scan", "cut", "carry"} => Cuts(text, breaks, chunks)
  /\ pc = "scan" => chunks = <<>> /\ start = 0
  /\ pc \in {"cut", "carry"} =>
       /\ way \in {"markdown", "grammar"} /\ Breaks(breaks, text)
       /\ way = "markdown" => breaks = scan_break_points(text, Fences)
  /\ pc = "cut" => NextAt(text, breaks, chunks, start)
  /\ pc = "carry" => Len(chunks) > 0 /\ chunks[Len(chunks)].end = Len(text)
  /\ ChunksAreWhole

\* No chunk has been cut yet.
LEMMA NoCuts ==
  ASSUME NEW T, NEW points
  PROVE  Cuts(T, points, <<>>) /\ Range(<<>>) = {}
<1>1. <<>> \in Seq(ChunkSet) /\ Len(<<>>) = 0 /\ DOMAIN <<>> = {} /\ 1 .. 0 = {} /\ 1 .. 0 - 1 = {}
  OBVIOUS
<1>2. Cuts(T, points, <<>>)
  BY <1>1 DEF Cuts
<1> QED BY <1>1, <1>2 DEF Range

\* While nothing is cut or carried there is little to say of the chunks.
LEMMA EarlyWhole ==
  ASSUME pc \notin {"carry", "score"}, ChunkTypes
  PROVE  ChunksAreWhole
BY DEF ChunksAreWhole, NothingIsLost, FencesAreCutLast, RowsKeepTheirHeader

\* It holds at first.
LEMMA ChunkStart == ChunkInit \/ NoChunking => ChunkInv
<1>1. ASSUME ChunkInit PROVE ChunkInv
  <2>1. lines \in Seq(Kind)
    <3>1. Lines \in Nat /\ Prose \subseteq Kind /\ Tables \subseteq Kind /\ Code \subseteq Kind
      BY SizesType
    <3>2. \A K \in SUBSET Kind : [1 .. Lines -> K] \subseteq Seq(Kind)
      BY <3>1
    <3>3. \/ lines \in [1 .. Lines -> Prose] \/ lines \in [1 .. Lines -> Tables]
          \/ lines \in [1 .. Lines -> Code]
      BY <1>1 DEF ChunkInit, AnyText
    <3> QED BY <3>1, <3>2, <3>3
  <2>2. Layout(lines, text, at)
    BY <1>1, <2>1, LayoutStarts DEF ChunkInit
  <2>3. Len(text) \in Nat
    BY <2>2 DEF Layout
  <2>4. way = "none" /\ start = 0 /\ chunks = <<>> /\ pc = "scan"
    BY <1>1 DEF ChunkInit
  <2>5. ChunkTypes
    BY <2>3, <2>4, NoCuts DEF ChunkTypes
  <2>6. ChunksAreWhole
    BY <2>4, <2>5, EarlyWhole
  <2>7. Boundary(text, start) /\ Cuts(text, breaks, chunks)
    BY <2>4, NoCuts DEF Boundary
  <2> QED BY <2>2, <2>4, <2>6, <2>7 DEF ChunkInv
<1>2. ASSUME NoChunking PROVE ChunkInv
  <2>1. Layout(lines, text, at)
    BY <1>2, NoLayout DEF NoChunking
  <2>2. way = "none" /\ start = 0 /\ chunks = <<>> /\ pc = "done" /\ Len(text) \in Nat
    BY <1>2 DEF NoChunking
  <2>3. ChunkTypes
    BY <2>2, NoCuts DEF ChunkTypes
  <2>4. ChunksAreWhole
    BY <2>2, <2>3, EarlyWhole
  <2>5. Boundary(text, start)
    BY <2>2 DEF Boundary
  <2> QED BY <2>1, <2>2, <2>4, <2>5 DEF ChunkInv
<1> QED BY <1>1, <1>2

\* The declarations of a source file are breaks.
LEMMA GrammarBreaks ==
  ASSUME Layout(lines, text, at), NEW outermost
  PROVE  Breaks([p \in collect_boundaries(lines, outermost) |-> 100], text)
<1>1. ASSUME NEW p \in collect_boundaries(lines, outermost) PROVE p \in 0 .. Len(text)
  <2>1. PICK i \in DOMAIN lines : p = at[BoundaryLine(lines, i)]
    BY DEF collect_boundaries
  <2>2. i \in 1 .. Len(lines) /\ Len(lines) \in Nat
    BY <2>1 DEF Layout
  <2> DEFINE S == {j \in 1 .. i : \A k \in j .. i - 1 : lines[k] = "note"}
  <2>3. i \in S /\ S \in SUBSET Nat
    BY <2>2
  <2>4. Least(S) \in S
    <3> HIDE DEF S
    <3>1. S # {}
      BY <2>3
    <3> QED BY <2>3, <3>1, LeastIs
  <2>5. BoundaryLine(lines, i) \in 1 .. i
    BY <2>4 DEF BoundaryLine
  <2>6. BoundaryLine(lines, i) \in 1 .. Len(lines) + 1
    BY <2>2, <2>5
  <2> QED BY <2>1, <2>6, LinesInText
<1> QED BY <1>1 DEF Breaks

\* Choosing the break points.
LEMMA ScanStep ==
  ASSUME ChunkInv, chunk_document_for_path
  PROVE  ChunkInv'
<1>1. Layout(lines, text, at) /\ Len(text) \in Nat
  BY DEF ChunkInv, Layout
<1>2. pc = "scan" /\ pc' = "cut" /\ UNCHANGED <<lines, text, at, start, chunks>>
  BY DEF chunk_document_for_path
<1>3. chunks = <<>> /\ start = 0 /\ Boundary(text, start) /\ ChunkTypes
  BY <1>2 DEF ChunkInv, ChunksAreWhole
<1>4. /\ way' \in {"markdown", "grammar"} /\ Breaks(breaks', text)
      /\ way' = "markdown" => breaks' = scan_break_points(text, Fences)
  <2>1. CASE breaks' = scan_break_points(text, scan_code_fences(text)) /\ way' = "markdown"
    BY <1>1, <2>1, MarkdownBreaks DEF Fences
  <2>2. CASE \E outermost \in BOOLEAN :
               /\ breaks' = [p \in collect_boundaries(lines, outermost) |-> 100]
               /\ way' = "grammar"
    BY <1>1, <2>2, GrammarBreaks
  <2> QED BY <2>1, <2>2 DEF chunk_document_for_path
<1>5. Fences' = Fences
  BY <1>2 DEF Fences
<1>6. Layout(lines, text, at)' /\ Boundary(text, start)'
  BY <1>1, <1>2, <1>3
<1>7. Cuts(text, breaks, chunks)' /\ NextAt(text, breaks, chunks, start)'
  BY <1>2, <1>3, NoCuts DEF NextAt
<1>8. ChunkTypes'
  BY <1>2, <1>3, <1>4 DEF ChunkTypes
<1>9. ChunksAreWhole'
  BY <1>2, <1>8 DEF ChunksAreWhole, NothingIsLost, FencesAreCutLast, RowsKeepTheirHeader
<1>10. /\ Breaks(breaks, text)' /\ (way = "markdown" => breaks = scan_break_points(text, Fences))'
  BY <1>2, <1>4, <1>5
<1> QED BY <1>2, <1>4, <1>6, <1>7, <1>9, <1>10 DEF ChunkInv

\* The types of the chunks so far.
LEMMA CutTypes ==
  ASSUME NEW T, NEW points, NEW ch, Cuts(T, points, ch), NEW c \in Range(ch)
  PROVE  /\ 0 <= c.pos /\ c.pos <= c.end /\ c.end <= Len(T)
         /\ Boundary(T, c.pos) /\ Boundary(T, c.end)
<1>1. PICK i \in DOMAIN ch : c = ch[i]
  BY DEF Range
<1>2. i \in 1 .. Len(ch)
  BY <1>1 DEF Cuts
<1>3. IsCut(T, c)
  BY <1>1, <1>2 DEF Cuts
<1> QED BY <1>3 DEF IsCut, ChunkSet

\* A round of cutting.
LEMMA CutStep ==
  ASSUME ChunkInv, Cut
  PROVE  ChunkInv'
<1>1. Layout(lines, text, at) /\ Len(text) \in Nat
  BY DEF ChunkInv, Layout
<1>2. pc = "cut" /\ UNCHANGED <<lines, text, at, way, breaks>>
  BY DEF Cut
<1>3. /\ Cuts(text, breaks, chunks) /\ Breaks(breaks, text) /\ NextAt(text, breaks, chunks, start)
      /\ way \in {"markdown", "grammar"}
      /\ way = "markdown" => breaks = scan_break_points(text, Fences)
      /\ start \in 0 .. Len(text) /\ Boundary(text, start)
  BY <1>2 DEF ChunkInv, ChunksAreWhole, ChunkTypes
<1>4. start \in Nat /\ start + ChunkSize \in Nat
  BY <1>3, SizesAre
<1>5. PICK end :
        /\ end = IF IdealEnd = Len(text) THEN Len(text) ELSE CutAt(text, breaks, start)
        /\ chunks' = Append(chunks, Chunk(start, end))
        /\ start' = IF IdealEnd = Len(text) THEN Len(text) ELSE NextStart(text, start, end)
        /\ pc' = IF IdealEnd = Len(text) THEN "carry" ELSE "cut"
  BY DEF Cut
<1>6. PICK c : c = Chunk(start, end)
  OBVIOUS
<1>7. c.pos = start /\ c.end = end /\ c.head = <<>> /\ c = [pos |-> start, end |-> end, head |-> <<>>]
  BY <1>6 DEF Chunk
<1>8. IdealEnd # Len(text) => Round(text, breaks, start, end, start')
  <2> SUFFICES ASSUME IdealEnd # Len(text) PROVE Round(text, breaks, start, end, start')
    OBVIOUS
  <2>1. start + ChunkSize < Len(text)
    BY <1>1, <1>4 DEF IdealEnd, Capped
  <2> QED BY <1>5, <2>1 DEF Round
<1>9. /\ end \in 0 .. Len(text) /\ Boundary(text, end) /\ start <= end
      /\ start' \in 0 .. Len(text) /\ Boundary(text, start')
  <2>1. CASE IdealEnd = Len(text)
    BY <1>1, <1>3, <1>5, <2>1 DEF Boundary
  <2>2. CASE IdealEnd # Len(text)
    <3>1. Round(text, breaks, start, end, start')
      BY <1>8, <2>2
    <3> QED BY <1>1, <1>3, <1>4, <3>1, RoundMovesOn
  <2> QED BY <2>1, <2>2
<1>10. IsCut(text, c)
  <2>1. end \in Nat /\ end <= Len(text)
    BY <1>1, <1>9
  <2>2. c \in ChunkSet
    BY <1>4, <1>7, <2>1 DEF ChunkSet
  <2> QED BY <1>3, <1>7, <1>9, <2>1, <2>2 DEF IsCut
<1>11. PICK ch : ch = chunks'
  OBVIOUS
<1>12. /\ Cuts(text, breaks, ch)
       /\ Len(ch) = Len(chunks) + 1 /\ ch[Len(chunks) + 1] = c /\ Len(chunks) \in Nat
       /\ ch[Len(ch)] = c /\ Len(ch) > 0
  <2>1. ch = Append(chunks, c)
    BY <1>5, <1>6, <1>11
  <2>2. Cuts(text, breaks, Append(chunks, c)) /\ Len(Append(chunks, c)) = Len(chunks) + 1
        /\ Append(chunks, c)[Len(chunks) + 1] = c
    BY <1>3, <1>7, <1>10, CutsGrow
  <2>3. Len(chunks) \in Nat
    BY <1>3 DEF Cuts
  <2> QED BY <2>1, <2>2, <2>3
<1>13. Fences' = Fences
  BY <1>2 DEF Fences
<1>14. Layout(lines, text, at)' /\ Boundary(text, start)' /\ Cuts(text, breaks, chunks)'
       /\ Breaks(breaks, text)' /\ way' \in {"markdown", "grammar"}
       /\ (way = "markdown" => breaks = scan_break_points(text, Fences))'
  BY <1>1, <1>2, <1>3, <1>9, <1>11, <1>12, <1>13
<1>15. pc' = "cut" => NextAt(text, breaks, chunks, start)'
  <2> SUFFICES ASSUME pc' = "cut" PROVE NextAt(text, breaks, ch, start')
    BY <1>2, <1>11
  <2>1. Round(text, breaks, start, end, start')
    BY <1>5, <1>8
  <2>2. Len(ch) # 0
    BY <1>12
  <2>3. NextAt(text, breaks, ch, start') <=> Round(text, breaks, ch[Len(ch)].pos, ch[Len(ch)].end, start')
    BY <2>2 DEF NextAt
  <2> QED BY <1>7, <1>12, <2>1, <2>3
<1>16. pc' = "carry" => ch[Len(ch)].end = Len(text)
  BY <1>5, <1>7, <1>12
<1>17. ChunkTypes'
  <2>1. \A x \in Range(ch) :
          /\ 0 <= x.pos /\ x.pos <= x.end /\ x.end <= Len(text)
          /\ Boundary(text, x.pos) /\ Boundary(text, x.end)
    BY <1>12, CutTypes
  <2>2. pc' \in {"cut", "carry"}
    BY <1>5
  <2> QED BY <1>2, <1>3, <1>9, <1>11, <2>1, <2>2 DEF ChunkTypes
<1>18. FencesAreCutLast'
  <2>1. FencesAreCutLast' <=> (pc' = "carry" /\ way' = "markdown" => CutLast(chunks', text', Fences'))
    BY DEF FencesAreCutLast, CutLast, CutInFence
  <2>2. way = "markdown" => CutLast(ch, text, Fences)
    BY <1>1, <1>3, <1>12, FencesCut
  <2>3. way' = "markdown" => CutLast(chunks', text', Fences')
    BY <1>2, <1>11, <1>13, <2>2
  <2> QED BY <2>1, <2>3
<1>19. ChunksAreWhole'
  <2>1. pc' # "score"
    BY <1>5
  <2> QED BY <1>17, <1>18, <2>1 DEF ChunksAreWhole, NothingIsLost, RowsKeepTheirHeader
<1>20. pc' \in {"cut", "carry"}
  BY <1>5
<1> QED BY <1>11, <1>12, <1>14, <1>15, <1>16, <1>19, <1>20, <1>2 DEF ChunkInv

\* Carrying the headers.
LEMMA CarryStep ==
  ASSUME ChunkInv, carry_table_headers
  PROVE  ChunkInv'
<1>1. Layout(lines, text, at) /\ Len(text) \in Nat /\ DOMAIN lines = 1 .. Len(lines)
  BY DEF ChunkInv, Layout
<1>2. pc = "carry" /\ pc' = "score" /\ UNCHANGED <<lines, text, at, way, breaks, start>>
  BY DEF carry_table_headers
<1>3. /\ Cuts(text, breaks, chunks) /\ Breaks(breaks, text)
      /\ way \in {"markdown", "grammar"}
      /\ way = "markdown" => breaks = scan_break_points(text, Fences)
      /\ start \in 0 .. Len(text) /\ Boundary(text, start)
      /\ Len(chunks) > 0 /\ chunks[Len(chunks)].end = Len(text)
  BY <1>2 DEF ChunkInv, ChunksAreWhole, ChunkTypes
<1>4. Fences' = Fences /\ AllTables' = AllTables
  BY <1>2 DEF Fences, AllTables, scan_tables, PipeLine
<1>5. PICK n : n = Len(chunks) /\ n \in Nat /\ DOMAIN chunks = 1 .. n
               /\ \A i \in 1 .. n : IsCut(text, chunks[i])
  BY <1>3 DEF Cuts
<1>6. PICK ch : ch = chunks'
  OBVIOUS
<1>7. /\ DOMAIN ch = 1 .. n
      /\ way = "markdown" => \A i \in 1 .. n : Carried(chunks[i], ch[i])
      /\ way = "grammar" => \A i \in 1 .. n : ch[i] = chunks[i]
  <2>1. CASE way = "grammar"
    <3>1. ch = chunks
      BY <1>6, <2>1 DEF carry_table_headers
    <3> QED BY <1>5, <2>1, <3>1
  <2>2. CASE way = "markdown"
    <3>1. ch = [i \in DOMAIN chunks |-> CarryHeader(text, chunks[i], AllTables)]
      BY <1>6, <2>2 DEF carry_table_headers, AllTables, Fences
    <3>2. DOMAIN ch = 1 .. n /\ \A i \in 1 .. n : ch[i] = CarryHeader(text, chunks[i], AllTables)
      BY <1>5, <3>1
    <3>3. \A i \in 1 .. n : Carried(chunks[i], CarryHeader(text, chunks[i], AllTables))
      BY <1>1, <1>5, CarriedIs
    <3> QED BY <2>2, <3>2, <3>3
  <2> QED BY <1>3, <2>1, <2>2
<1>8. \A x : x \in Range(ch) <=> \E i \in 1 .. n : x = ch[i]
  BY <1>7 DEF Range
<1>9. ChunkTypes'
  <2>1. ASSUME NEW i \in 1 .. n
        PROVE  /\ 0 <= ch[i].pos /\ ch[i].pos <= ch[i].end /\ ch[i].end <= Len(text)
               /\ Boundary(text, ch[i].pos) /\ Boundary(text, ch[i].end)
    <3>1. PICK c, d : c = chunks[i] /\ d = ch[i]
      OBVIOUS
    <3>2. IsCut(text, c)
      BY <1>5, <3>1
    <3>3. d = c \/ Carried(c, d)
      BY <1>3, <1>7, <3>1
    <3>4. 0 <= d.pos /\ d.pos <= d.end /\ d.end <= Len(text)
          /\ Boundary(text, d.pos) /\ Boundary(text, d.end)
      <4>1. CASE d = c
        BY <3>2, <4>1 DEF IsCut, ChunkSet
      <4>2. CASE Carried(c, d)
        BY <1>1, <3>2, <4>2, CarriedTypes
      <4> QED BY <3>3, <4>1, <4>2
    <3> QED BY <3>1, <3>4
  <2>2. \A x \in Range(ch) :
          /\ 0 <= x.pos /\ x.pos <= x.end /\ x.end <= Len(text)
          /\ Boundary(text, x.pos) /\ Boundary(text, x.end)
    BY <1>8, <2>1
  <2> QED BY <1>2, <1>3, <1>6, <2>2 DEF ChunkTypes
<1>10. NothingIsLost'
  <2>1. ASSUME NEW p \in 0 .. Len(text) - 1
        PROVE  Excused(p) \/ \E c \in Range(ch) : p \in Bytewise(c)
    <3>1. Excused(p) \/ \E i \in 1 .. Len(chunks) : p \in Bytewise(ch[i])
      BY <1>1, <1>3, <1>5, <1>7, Covered
    <3> QED BY <1>5, <1>8, <3>1
  <2>2. \A p \in 0 .. Len(text) - 1 :
          \/ At(text, p) = "n"
          \/ \E c \in Range(ch) : p \in Bytewise(c)
          \/ \E i \in DOMAIN lines :
               /\ p \in LineBytes(i)
               /\ Len(Bytes(lines[i])) > Window
               /\ \E t \in AllTables : t.data <= p /\ p < t.to
    BY <2>1 DEF Excused
  <2>3. \A i : LineBytes(i)' = LineBytes(i)
    BY <1>2 DEF LineBytes
  <2> QED BY <1>2, <1>4, <1>6, <2>2, <2>3 DEF NothingIsLost
<1>11. RowsKeepTheirHeader'
  <2>1. ASSUME way = "markdown", NEW t \in AllTables, NEW d \in Range(ch), NEW i \in DOMAIN lines,
               t.data - t.from <= Window, t.data <= at[i], at[i + 1] <= t.to,
               LineBytes(i) \subseteq Bytewise(d)
        PROVE  d.pos <= t.from \/ d.head = Slice(text, t.from, t.data)
    <3>1. PICK k \in 1 .. n : d = ch[k]
      BY <1>8
    <3>2. PICK c : c = chunks[k]
      OBVIOUS
    <3>3. IsCut(text, c) /\ Carried(c, d)
      BY <1>5, <1>7, <2>1, <3>1, <3>2
    <3>4. i \in 1 .. Len(lines)
      BY <1>1
    <3> QED BY <1>1, <2>1, <3>3, <3>4, HeaderKept
  <2>2. \A i : LineBytes(i)' = LineBytes(i)
    BY <1>2 DEF LineBytes
  <2> SUFFICES ASSUME way' = "markdown", NEW t \in AllTables', NEW d \in Range(chunks'),
                      NEW i \in DOMAIN lines',
                      t.data - t.from <= Window, t.data <= at'[i], at'[i + 1] <= t.to,
                      LineBytes(i)' \subseteq Bytewise(d)
               PROVE  d.pos <= t.from \/ d.head = Slice(text', t.from, t.data)
    BY DEF RowsKeepTheirHeader
  <2> QED BY <1>2, <1>4, <1>6, <2>1, <2>2
<1>12. ChunksAreWhole'
  BY <1>2, <1>9, <1>10, <1>11 DEF ChunksAreWhole, FencesAreCutLast
<1> QED BY <1>1, <1>2, <1>3, <1>12 DEF ChunkInv

\* The sections are chosen from the chunks as they are.
LEMMA LateStep ==
  ASSUME ChunkInv, UNCHANGED <<lines, text, at, way, breaks, start, chunks>>,
         pc \in {"score", "pick"}, pc' \in {"pick", "done"}
  PROVE  ChunkInv'
<1>1. ChunkTypes'
  BY DEF ChunkInv, ChunksAreWhole, ChunkTypes
<1>2. ChunksAreWhole'
  BY <1>1 DEF ChunksAreWhole, NothingIsLost, FencesAreCutLast, RowsKeepTheirHeader
<1>3. Layout(lines, text, at)' /\ Boundary(text, start)'
  BY DEF ChunkInv
<1> QED BY <1>2, <1>3 DEF ChunkInv

\* Nothing moves.
LEMMA StillStep ==
  ASSUME ChunkInv, UNCHANGED chunkVars
  PROVE  ChunkInv'
<1>1. UNCHANGED <<lines, text, at, way, breaks, start, chunks, pc>>
  BY DEF chunkVars
<1>2. Fences' = Fences /\ AllTables' = AllTables /\ \A i : LineBytes(i)' = LineBytes(i)
  BY <1>1 DEF Fences, AllTables, scan_tables, PipeLine, LineBytes
<1>3. ChunksAreWhole'
  <2>1. ChunkTypes'
    BY <1>1 DEF ChunkInv, ChunksAreWhole, ChunkTypes
  <2>2. NothingIsLost'
    BY <1>1, <1>2 DEF ChunkInv, ChunksAreWhole, NothingIsLost
  <2>3. FencesAreCutLast'
    BY <1>1, <1>2 DEF ChunkInv, ChunksAreWhole, FencesAreCutLast
  <2>4. RowsKeepTheirHeader'
    BY <1>1, <1>2 DEF ChunkInv, ChunksAreWhole, RowsKeepTheirHeader
  <2> QED BY <2>1, <2>2, <2>3, <2>4 DEF ChunksAreWhole
<1>4. Layout(lines, text, at)' /\ Boundary(text, start)'
  BY <1>1 DEF ChunkInv
<1>5. /\ (pc \in {"scan", "cut", "carry"} => Cuts(text, breaks, chunks))'
      /\ (pc = "scan" => chunks = <<>> /\ start = 0)'
      /\ (pc = "cut" => NextAt(text, breaks, chunks, start))'
      /\ (pc = "carry" => Len(chunks) > 0 /\ chunks[Len(chunks)].end = Len(text))'
  BY <1>1 DEF ChunkInv
<1>6. (pc \in {"cut", "carry"} =>
         /\ way \in {"markdown", "grammar"} /\ Breaks(breaks, text)
         /\ way = "markdown" => breaks = scan_break_points(text, Fences))'
  BY <1>1, <1>2 DEF ChunkInv
<1> QED BY <1>3, <1>4, <1>5, <1>6 DEF ChunkInv

\* And every step of Chunking keeps it.
LEMMA ChunkStep ==
  ASSUME ChunkInv, [ChunkNext]_chunkVars
  PROVE  ChunkInv'
<1>1. CASE chunk_document_for_path
  BY <1>1, ScanStep
<1>2. CASE Cut
  BY <1>2, CutStep
<1>3. CASE carry_table_headers
  BY <1>3, CarryStep
<1>4. CASE RankChunks
  <2>1. /\ UNCHANGED <<lines, text, at, way, breaks, start, chunks>>
        /\ pc = "score" /\ pc' \in {"pick", "done"}
    BY <1>4 DEF RankChunks
  <2> QED BY <2>1, LateStep
<1>5. CASE Pick
  <2>1. /\ UNCHANGED <<lines, text, at, way, breaks, start, chunks>>
        /\ pc = "pick" /\ pc' = "pick"
    BY <1>5 DEF Pick
  <2> QED BY <2>1, LateStep
<1>6. CASE PickingEnds
  <2>1. /\ UNCHANGED <<lines, text, at, way, breaks, start, chunks>>
        /\ pc = "pick" /\ pc' = "done"
    BY <1>6 DEF PickingEnds
  <2> QED BY <2>1, LateStep
<1>7. CASE UNCHANGED chunkVars
  BY <1>7, StillStep
<1> QED BY <1>1, <1>2, <1>3, <1>4, <1>5, <1>6, <1>7 DEF ChunkNext

\* A round that is not the last moves the next start on.
LEMMA RoundAdvances ==
  ASSUME ChunkInv, [ChunkNext]_chunkVars, pc = "cut", pc' = "cut"
  PROVE  start < start' \/ UNCHANGED chunkVars
<1>1. CASE Cut
  <2>1. PICK end :
          /\ end = IF IdealEnd = Len(text) THEN Len(text) ELSE CutAt(text, breaks, start)
          /\ start' = IF IdealEnd = Len(text) THEN Len(text) ELSE NextStart(text, start, end)
          /\ pc' = IF IdealEnd = Len(text) THEN "carry" ELSE "cut"
    BY <1>1 DEF Cut
  <2>2. Layout(lines, text, at) /\ Len(text) \in Nat /\ Breaks(breaks, text) /\ start \in 0 .. Len(text)
    BY DEF ChunkInv, ChunksAreWhole, ChunkTypes, Layout
  <2>3. IdealEnd # Len(text)
    BY <2>1
  <2>4. start \in Nat /\ start + ChunkSize \in Nat
    BY <2>2, SizesAre
  <2>5. start + ChunkSize < Len(text)
    BY <2>2, <2>3, <2>4 DEF IdealEnd, Capped
  <2>6. Round(text, breaks, start, end, start')
    BY <2>1, <2>3, <2>5 DEF Round
  <2> QED BY <2>2, <2>4, <2>6, RoundMovesOn
<1>2. CASE chunk_document_for_path \/ carry_table_headers \/ RankChunks \/ Pick \/ PickingEnds
  BY <1>2 DEF chunk_document_for_path, carry_table_headers, RankChunks, Pick, PickingEnds
<1> QED BY <1>1, <1>2 DEF ChunkNext

\* For every document, chunk size, overlap and window: the chunks are cut
\* between characters and cover the text but for newlines and for rows longer
\* than a window (break points, overlap, the move to the next table row), a
\* chunk ends inside a fence only when its window offers nothing else, and a
\* whole data row comes with its table's header.
THEOREM DocumentsAreWhole == Spec => []ChunksAreWhole
<1>1. Init => ChunkInv
  BY ChunkStart DEF Init
<1>2. ChunkInv /\ [Next]_vars => ChunkInv'
  <2> SUFFICES ASSUME ChunkInv, [Next]_vars PROVE ChunkInv'
    OBVIOUS
  <2>1. [ChunkNext]_chunkVars
    BY DEF Next, vars
  <2> QED BY <2>1, ChunkStep
<1>3. ChunkInv => ChunksAreWhole
  BY DEF ChunkInv
<1> QED BY <1>1, <1>2, <1>3, PTL DEF Spec

\* The rounds of chunk_from_break_points end: each starts further on than the
\* one before, whatever break was taken and however far the overlap and the
\* first byte of a character take the next start back.
THEOREM CuttingMovesOn == Spec => RoundsMoveOn
<1>1. Init => ChunkInv
  BY ChunkStart DEF Init
<1>2. ChunkInv /\ [Next]_vars => ChunkInv'
  <2> SUFFICES ASSUME ChunkInv, [Next]_vars PROVE ChunkInv'
    OBVIOUS
  <2>1. [ChunkNext]_chunkVars
    BY DEF Next, vars
  <2> QED BY <2>1, ChunkStep
<1>3. ChunkInv /\ [Next]_vars => [pc = "cut" /\ pc' = "cut" => start < start']_chunkVars
  <2> SUFFICES ASSUME ChunkInv, [Next]_vars, pc = "cut", pc' = "cut"
               PROVE  start < start' \/ UNCHANGED chunkVars
    OBVIOUS
  <2>1. [ChunkNext]_chunkVars
    BY DEF Next, vars
  <2> QED BY <2>1, RoundAdvances
<1> QED BY <1>1, <1>2, <1>3, PTL DEF Spec, RoundsMoveOn

-----------------------------------------------------------------------------
(* How far apart the chunks are. *)

\* A round takes the chunk to its window at least, and the next one starts no
\* further back than the overlap and the rest of a character.
LEMMA RoundReaches ==
  ASSUME NEW ls, NEW T, NEW a, Layout(ls, T, a), NEW points, Breaks(points, T),
         NEW p \in Nat, NEW e, NEW q, Round(T, points, p, e, q)
  PROVE  p + ChunkSize - Half <= e /\ e <= q + Overlap + 1
<1>1. Len(T) \in Nat /\ p + ChunkSize < Len(T) /\ e = CutAt(T, points, p) /\ q = NextStart(T, p, e)
  BY DEF Layout, Round
<1>2. e \in 0 .. Len(T) /\ Boundary(T, e) /\ p + Overlap + 1 < e /\ p + ChunkSize - Half <= e
  BY <1>1, CutIs
<1>3. e <= q + Overlap + 1
  BY <1>1, <1>2, NextIs
<1> QED BY <1>2, <1>3

\* Each chunk starts further on than those before it, by what its window
\* leaves at least.
LEMMA ChunksAscend ==
  ASSUME NEW ls, NEW T, NEW a, Layout(ls, T, a), NEW points, Breaks(points, T),
         NEW ch, Cuts(T, points, ch), NEW i \in 1 .. Len(ch), NEW j \in i + 1 .. Len(ch)
  PROVE  /\ ch[i].pos \in Nat /\ ch[j].pos \in Nat /\ ch[i].pos < ch[j].pos
         /\ ch[i].pos + (ChunkSize - Half - Overlap - 1) <= ch[j].pos
<1> DEFINE far == ChunkSize - Half - Overlap - 1
           S == {m \in Nat : i + 1 <= m /\ m <= Len(ch) /\ ~(ch[i].pos + far <= ch[m].pos)}
<1>1. Len(ch) \in Nat /\ i \in Nat /\ j \in Nat /\ i + 1 <= j /\ j <= Len(ch) /\ far \in Nat /\ far > 0
  BY SizesAre, SMTT(30) DEF Cuts
<1>2. \A m \in 1 .. Len(ch) : ch[m].pos \in Nat
  BY DEF Cuts, IsCut, ChunkSet
<1>3. ASSUME NEW m \in 1 .. Len(ch) - 1
      PROVE  ch[m].pos + far <= ch[m + 1].pos
  <2>1. PICK p, e, q : p = ch[m].pos /\ e = ch[m].end /\ q = ch[m + 1].pos
    OBVIOUS
  <2>2. Round(T, points, p, e, q)
    BY <2>1 DEF Cuts
  <2>3. p \in Nat /\ q \in Nat
    BY <1>1, <1>2, <2>1
  <2>4. p + ChunkSize - Half <= e /\ e <= q + Overlap + 1
    BY <2>2, <2>3, RoundReaches
  <2>5. e \in Nat
    BY <2>2, <2>3, RoundMovesOn
  <2>6. p + far <= q
    BY <2>3, <2>4, <2>5, SizesAre
  <2> HIDE DEF far
  <2> QED BY <2>1, <2>6
<1> HIDE DEF far
<1>4. ASSUME S # {} PROVE FALSE
  <2>1. PICK m \in S : \A y \in S : m <= y
    BY <1>4, LeastOf
  <2>2. m \in Nat /\ i + 1 <= m /\ m <= Len(ch) /\ ~(ch[i].pos + far <= ch[m].pos)
    BY <2>1
  <2>3. m # i + 1
    <3>1. i \in 1 .. Len(ch) - 1
      BY <1>1, <2>2
    <3> QED BY <1>3, <2>2, <3>1
  <2>4. m - 1 \in 1 .. Len(ch) - 1 /\ m - 1 \in 1 .. Len(ch) /\ m \in 1 .. Len(ch) /\ (m - 1) + 1 = m
        /\ m - 1 \in Nat /\ i + 1 <= m - 1 /\ m - 1 <= Len(ch) /\ ~(m <= m - 1)
    BY <1>1, <2>2, <2>3
  <2>5. ch[i].pos + far <= ch[m - 1].pos
    <3>1. m - 1 \notin S
      BY <2>1, <2>4
    <3> QED BY <2>4, <3>1
  <2>6. ch[m - 1].pos + far <= ch[m].pos
    <3>1. ch[m - 1].pos + far <= ch[(m - 1) + 1].pos
      BY <1>3, <2>4
    <3> QED BY <2>4, <3>1
  <2>7. ch[i].pos \in Nat /\ ch[m].pos \in Nat /\ ch[m - 1].pos \in Nat
    BY <1>2, <2>4
  <2> HIDE DEF S
  <2>8. far \in Nat
    BY <1>1
  <2>9. \A x, y, z, f \in Nat : x + f <= y /\ y + f <= z => x + f <= z
    OBVIOUS
  <2>10. ch[i].pos + far <= ch[m].pos
    BY <2>5, <2>6, <2>7, <2>8, <2>9, Zenon
  <2> QED BY <2>2, <2>10
<1>5. ch[i].pos + far <= ch[j].pos
  BY <1>1, <1>4
<1>6. ch[i].pos \in Nat /\ ch[j].pos \in Nat
  BY <1>1, <1>2
<1>7. ch[i].pos < ch[j].pos
  BY <1>1, <1>5, <1>6
<1> QED BY <1>5, <1>6, <1>7 DEF far

\* And ends no earlier.
LEMMA EndsAscend ==
  ASSUME NEW ls, NEW T, NEW a, Layout(ls, T, a), NEW points, Breaks(points, T),
         NEW ch, Cuts(T, points, ch), Len(ch) > 0, ch[Len(ch)].end = Len(T),
         NEW i \in 1 .. Len(ch), NEW j \in i .. Len(ch)
  PROVE  ch[i].end \in Nat /\ ch[j].end \in Nat /\ ch[i].end <= ch[j].end
<1> DEFINE S == {m \in Nat : i <= m /\ m <= Len(ch) /\ ~(ch[i].end <= ch[m].end)}
<1>1. Len(ch) \in Nat /\ i \in Nat /\ j \in Nat /\ i <= j /\ j <= Len(ch) /\ Len(T) \in Nat
  BY DEF Cuts, Layout
<1>2. \A m \in 1 .. Len(ch) : ch[m].pos \in Nat /\ ch[m].end \in Nat /\ ch[m].end <= Len(T)
  BY DEF Cuts, IsCut, ChunkSet
<1>3. ASSUME NEW m \in 1 .. Len(ch) - 1
      PROVE  ch[m].end <= ch[m + 1].end
  <2>1. PICK p, e, q, f : p = ch[m].pos /\ e = ch[m].end /\ q = ch[m + 1].pos /\ f = ch[m + 1].end
    OBVIOUS
  <2>2. Round(T, points, p, e, q)
    BY <2>1 DEF Cuts
  <2>3. p \in Nat /\ q \in Nat /\ e \in Nat /\ f \in Nat /\ e <= Len(T)
    BY <1>1, <1>2, <2>1
  <2>4. e <= q + Overlap + 1
    BY <2>2, <2>3, RoundReaches
  <2>5. CASE m + 1 = Len(ch)
    BY <1>1, <2>1, <2>3, <2>5
  <2>6. CASE m + 1 # Len(ch)
    <3>1. m + 1 \in 1 .. Len(ch) - 1
      BY <1>1, <2>6
    <3>2. PICK r : r = ch[(m + 1) + 1].pos
      OBVIOUS
    <3>3. Round(T, points, q, f, r)
      BY <2>1, <3>1, <3>2 DEF Cuts
    <3>4. q + ChunkSize - Half <= f
      BY <2>3, <3>3, RoundReaches
    <3>5. e <= f
      BY <2>3, <2>4, <3>4, SizesAre
    <3> QED BY <2>1, <3>5
  <2> QED BY <2>5, <2>6
<1>4. ASSUME S # {} PROVE FALSE
  <2>1. PICK m \in S : \A y \in S : m <= y
    BY <1>4, LeastOf
  <2>2. m \in Nat /\ i <= m /\ m <= Len(ch) /\ ~(ch[i].end <= ch[m].end)
    BY <2>1
  <2>3. m # i
    BY <1>2, <2>2
  <2>4. m - 1 \in 1 .. Len(ch) - 1 /\ m - 1 \in 1 .. Len(ch) /\ m \in 1 .. Len(ch) /\ (m - 1) + 1 = m
        /\ m - 1 \in Nat /\ i <= m - 1 /\ m - 1 <= Len(ch) /\ ~(m <= m - 1)
    BY <1>1, <2>2, <2>3
  <2>5. ch[i].end <= ch[m - 1].end
    <3>1. m - 1 \notin S
      BY <2>1, <2>4
    <3> QED BY <2>4, <3>1
  <2>6. ch[m - 1].end <= ch[m].end
    <3>1. ch[m - 1].end <= ch[(m - 1) + 1].end
      BY <1>3, <2>4
    <3> QED BY <2>4, <3>1
  <2>7. ch[i].end \in Nat /\ ch[m].end \in Nat /\ ch[m - 1].end \in Nat
    BY <1>2, <2>4
  <2> HIDE DEF S
  <2> QED BY <2>2, <2>5, <2>6, <2>7
<1>5. ch[i].end <= ch[j].end
  BY <1>1, <1>4
<1> QED BY <1>1, <1>2, <1>5

\* The sizes of the code leave room: what a round moves on by at least is no
\* less than a window.
Roomy == Overlap + 1 + Window <= ChunkSize - Half

\* Two chunks that are moved to one place were in one header, or in one row
\* longer than a window.
LEMMA TwoApart ==
  ASSUME Roomy, Layout(lines, text, at), NEW c, NEW d, IsCut(text, c), IsCut(text, d),
         c.pos + (ChunkSize - Half - Overlap - 1) <= d.pos,
         NEW x, NEW y, Carried(c, x), Carried(d, y), x.pos = y.pos
  PROVE  \/ \E t \in AllTables : x.pos = t.from
         \/ \E k \in DOMAIN lines : Len(Bytes(lines[k])) > Window /\ x.pos = at[k + 1]
<1>1. c.pos \in Nat /\ d.pos \in Nat /\ Len(lines) \in Nat /\ DOMAIN lines = 1 .. Len(lines)
  BY DEF IsCut, ChunkSet, Layout
<1>2. c.pos + Window <= d.pos /\ c.pos < d.pos
  BY <1>1, SizesAre DEF Roomy
<1>3. CASE \E t \in AllTables : x.pos = t.from \/ y.pos = t.from
  BY <1>3
<1>4. CASE \A t \in AllTables : x.pos # t.from /\ y.pos # t.from
  <2>1. d.pos <= y.pos /\ y.pos \in Nat
    <3>1. CASE y = d
      BY <1>1, <3>1
    <3>2. ASSUME NEW t \in AllTables, t.data <= d.pos, d.pos < t.to, y.pos = RowStart(text, d.pos)
          PROVE  d.pos <= y.pos /\ y.pos \in Nat
      <4>1. PICK k \in 3 .. Len(lines) :
              /\ at[k] <= d.pos /\ d.pos < at[k + 1]
              /\ RowStart(text, d.pos) = IF d.pos = at[k] THEN d.pos ELSE at[k + 1]
        BY <1>1, <3>2, RowIs
      <4>2. at[k + 1] \in Nat
        <5>1. k + 1 \in 1 .. Len(lines) + 1
          BY <1>1
        <5> QED BY <5>1 DEF Layout
      <4> QED BY <1>1, <3>2, <4>1, <4>2
    <3> QED BY <1>4, <3>1, <3>2 DEF Carried
  <2>2. x # c
    BY <1>1, <1>2, <2>1
  <2>3. PICK t \in AllTables : t.data <= c.pos /\ c.pos < t.to /\ x.pos = RowStart(text, c.pos)
    BY <1>4, <2>2 DEF Carried
  <2>4. PICK k \in 3 .. Len(lines) :
          /\ at[k] <= c.pos /\ c.pos < at[k + 1]
          /\ RowStart(text, c.pos) = IF c.pos = at[k] THEN c.pos ELSE at[k + 1]
    BY <1>1, <2>3, RowIs
  <2>5. x.pos = at[k + 1]
    BY <1>1, <1>2, <2>1, <2>3, <2>4
  <2>6. k \in 1 .. Len(lines) /\ k \in 1 .. Len(lines) + 1
    BY <1>1
  <2>7. at[k + 1] = at[k] + Len(Bytes(lines[k])) /\ at[k] \in Nat
    BY <2>6 DEF Layout
  <2>8. at[k] < c.pos
    <3>1. at[k] # c.pos
      <4>1. at[k] = c.pos => x.pos = c.pos
        BY <2>3, <2>4
      <4> QED BY <1>1, <1>2, <2>1, <4>1
    <3> QED BY <1>1, <2>4, <2>7, <3>1
  <2>9. Len(Bytes(lines[k])) \in Nat
    <3>1. lines[k] \in Kind
      BY <2>6 DEF Layout
    <3> QED BY <3>1, BytesAre
  <2>10. Len(Bytes(lines[k])) > Window
    <3>1. d.pos <= at[k + 1]
      BY <2>1, <2>5
    <3> QED BY <1>1, <1>2, <2>7, <2>8, <2>9, <3>1, SizesAre
  <2> QED BY <1>1, <2>5, <2>6, <2>10
<1> QED BY <1>3, <1>4

\* So chunks that are carried are told apart by where they start.
LEMMA CarriedApart ==
  ASSUME Roomy, Layout(lines, text, at), NEW points, Breaks(points, text), NEW ch, Cuts(text, points, ch),
         NEW dh, DOMAIN dh = 1 .. Len(ch),
         \/ \A i \in 1 .. Len(ch) : Carried(ch[i], dh[i])
         \/ \A i \in 1 .. Len(ch) : dh[i] = ch[i],
         NEW i \in DOMAIN dh, NEW j \in DOMAIN dh, i # j, dh[i].pos = dh[j].pos
  PROVE  \/ \E t \in AllTables : dh[i].pos = t.from
         \/ \E k \in DOMAIN lines : Len(Bytes(lines[k])) > Window /\ dh[i].pos = at[k + 1]
<1> DEFINE Goal(p) == \/ \E t \in AllTables : p = t.from
                      \/ \E k \in DOMAIN lines : Len(Bytes(lines[k])) > Window /\ p = at[k + 1]
<1>1. ASSUME NEW m \in 1 .. Len(ch), NEW n \in m + 1 .. Len(ch), dh[m].pos = dh[n].pos
      PROVE  Goal(dh[m].pos)
  <2>1. n \in 1 .. Len(ch)
    BY DEF Cuts
  <2>2. PICK c, d, x, y : c = ch[m] /\ d = ch[n] /\ x = dh[m] /\ y = dh[n]
    OBVIOUS
  <2>3. IsCut(text, c) /\ IsCut(text, d)
    BY <2>1, <2>2 DEF Cuts
  <2>4. c.pos + (ChunkSize - Half - Overlap - 1) <= d.pos /\ c.pos < d.pos /\ c.pos \in Nat /\ d.pos \in Nat
    BY <2>2, ChunksAscend
  <2>5. CASE \A k \in 1 .. Len(ch) : dh[k] = ch[k]
    BY <1>1, <2>1, <2>2, <2>4, <2>5
  <2>6. CASE \A k \in 1 .. Len(ch) : Carried(ch[k], dh[k])
    <3>1. Carried(c, x) /\ Carried(d, y) /\ x.pos = y.pos
      BY <1>1, <2>1, <2>2, <2>6
    <3>2. Goal(x.pos)
      BY <2>3, <2>4, <3>1, TwoApart
    <3> HIDE DEF Goal
    <3> QED BY <2>2, <3>2
  <2> QED BY <2>5, <2>6
<1>2. Len(ch) \in Nat /\ i \in 1 .. Len(ch) /\ j \in 1 .. Len(ch)
  BY DEF Cuts
<1>3. CASE i < j
  <2>1. j \in i + 1 .. Len(ch)
    BY <1>2, <1>3
  <2> QED BY <1>1, <1>2, <2>1
<1>4. CASE j < i
  <2>1. i \in j + 1 .. Len(ch)
    BY <1>2, <1>4
  <2>2. Goal(dh[j].pos)
    BY <1>1, <1>2, <2>1
  <2> QED BY <2>2
<1> QED BY <1>2, <1>3, <1>4

-----------------------------------------------------------------------------
(* The first chunk from a prefix. *)

\* A stretch of a text has its bytes.
LEMMA SliceIs ==
  ASSUME NEW T \in Seq(Byte), NEW from \in 0 .. Len(T), NEW to \in from .. Len(T)
  PROVE  /\ Slice(T, from, to) \in Seq(Byte) /\ Len(Slice(T, from, to)) = to - from
         /\ \A x \in 0 .. to - from - 1 : At(Slice(T, from, to), x) = At(T, from + x)
<1>1. Len(T) \in Nat /\ from \in Nat /\ to \in Nat /\ from <= to /\ to <= Len(T)
  OBVIOUS
<1>2. /\ SubSeq(T, from + 1, to) \in Seq(Byte) /\ Len(SubSeq(T, from + 1, to)) = to - from
      /\ \A k \in 1 .. to - from : SubSeq(T, from + 1, to)[k] = T[from + k]
  <2>1. from + 1 \in 1 .. Len(T) + 1 /\ \A k \in from + 1 .. to : k \in 1 .. Len(T)
    BY <1>1
  <2>2. \A k \in from + 1 .. to : T[k] \in Byte
    BY <2>1
  <2>3. SubSeq(T, from + 1, to) = [k \in 1 .. to - from |-> T[from + k]]
    BY <1>1
  <2>4. \A k \in 1 .. to - from : T[from + k] \in Byte
    BY <1>1, <2>2
  <2>5. to - from \in Nat
    BY <1>1
  <2>6. SubSeq(T, from + 1, to) \in [1 .. to - from -> Byte]
    BY <2>3, <2>4
  <2> QED BY <2>3, <2>5, <2>6
<1>3. ASSUME NEW x \in 0 .. to - from - 1
      PROVE  At(Slice(T, from, to), x) = At(T, from + x)
  <2>1. x + 1 \in 1 .. to - from /\ from + (x + 1) = (from + x) + 1
    BY <1>1
  <2> QED BY <1>2, <2>1 DEF At, Slice
<1> QED BY <1>2, <1>3 DEF Slice

\* The fences' marks, those that open one, and what lies inside.
Marks(T) == {p \in 0 .. Len(T) - 1 : At(T, p) = "f"}
Opens(T) == {p \in Marks(T) : Cardinality({q \in Marks(T) : q < p}) % 2 = 0}

\* A place is inside a fence when the mark before it opens one.
LEMMA InsideIs ==
  ASSUME NEW T, Len(T) \in Nat, NEW x \in 0 .. Len(T) - 1
  PROVE  inside_fence(x, scan_code_fences(T))
           <=> \E p \in Opens(T) : p < x /\ \A q \in Marks(T) : ~(p < q /\ q < x)
<1> DEFINE After(p) == {q \in Marks(T) : p < q}
           End(p) == IF After(p) = {} THEN Len(T) ELSE Least(After(p)) + 1
<1>1. scan_code_fences(T) = {<<p, End(p)>> : p \in Opens(T)}
  BY DEF scan_code_fences, Marks, Opens
<1>2. ASSUME NEW p \in Opens(T), p < x
      PROVE  x < End(p) <=> \A q \in Marks(T) : ~(p < q /\ q < x)
  <2>1. x \in Nat /\ x < Len(T) /\ \A q \in Marks(T) : q \in Nat
    BY DEF Marks
  <2>2. CASE After(p) = {}
    <3>1. End(p) = Len(T)
      BY <2>2
    <3> QED BY <2>1, <2>2, <3>1
  <2>3. CASE After(p) # {}
    <3>1. After(p) \in SUBSET Nat
      BY <2>1
    <3>2. PICK m : m = Least(After(p))
      OBVIOUS
    <3>3. m \in After(p) /\ \A y \in After(p) : m <= y
      <4> HIDE DEF After
      <4> QED BY <2>3, <3>1, <3>2, LeastIs
    <3>4. End(p) = m + 1
      BY <2>3, <3>2
    <3>5. m \in Marks(T) /\ p < m /\ m \in Nat /\ \A q \in Marks(T) : p < q => m <= q
      BY <2>1, <3>3
    <3> HIDE DEF End, After
    <3>6. x < m + 1 => \A q \in Marks(T) : ~(p < q /\ q < x)
      BY <2>1, <3>5
    <3>7. (\A q \in Marks(T) : ~(p < q /\ q < x)) => x < m + 1
      BY <2>1, <3>5
    <3> QED BY <3>4, <3>6, <3>7
  <2> QED BY <2>2, <2>3
<1> HIDE DEF End
<1>3. inside_fence(x, scan_code_fences(T)) <=> \E p \in Opens(T) : p < x /\ x < End(p)
  <2>1. ASSUME NEW f \in scan_code_fences(T), f[1] < x, x < f[2]
        PROVE  \E p \in Opens(T) : p < x /\ x < End(p)
    <3>1. PICK p \in Opens(T) : f = <<p, End(p)>>
      BY <1>1
    <3> QED BY <2>1, <3>1
  <2>2. ASSUME NEW p \in Opens(T), p < x, x < End(p)
        PROVE  \E f \in scan_code_fences(T) : f[1] < x /\ x < f[2]
    <3>1. <<p, End(p)>> \in scan_code_fences(T)
      BY <1>1
    <3> QED BY <2>2, <3>1
  <2> QED BY <2>1, <2>2 DEF inside_fence
<1> QED BY <1>2, <1>3

\* A text begins with the other.
Begins(S, T) == /\ S \in Seq(Byte) /\ T \in Seq(Byte) /\ Len(S) <= Len(T)
                /\ \A x \in 0 .. Len(S) - 1 : At(S, x) = At(T, x)

\* What lies inside a fence does not depend on what follows.
LEMMA SameInside ==
  ASSUME NEW S, NEW T, Begins(S, T), NEW x \in 0 .. Len(S) - 1
  PROVE  inside_fence(x, scan_code_fences(S)) <=> inside_fence(x, scan_code_fences(T))
<1>1. Len(S) \in Nat /\ Len(T) \in Nat /\ Len(S) <= Len(T) /\ x \in 0 .. Len(T) - 1 /\ x \in Nat
      /\ x < Len(S) /\ \A y \in 0 .. Len(S) - 1 : At(S, y) = At(T, y)
  BY DEF Begins
<1>2. ASSUME NEW q \in Nat, q < Len(S)
      PROVE  q \in Marks(S) <=> q \in Marks(T)
  <2>1. q \in 0 .. Len(S) - 1 /\ q \in 0 .. Len(T) - 1
    BY <1>1, <1>2
  <2> QED BY <1>1, <2>1 DEF Marks
<1>3. \A q \in Marks(S) : q \in Nat /\ q < Len(S)
  BY <1>1 DEF Marks
<1>4. \A q \in Marks(T) : q \in Nat
  BY <1>1 DEF Marks
<1>5. ASSUME NEW p \in Nat, p < Len(S)
      PROVE  p \in Opens(S) <=> p \in Opens(T)
  <2>1. {q \in Marks(S) : q < p} = {q \in Marks(T) : q < p}
    <3>1. ASSUME NEW q \in Marks(S), q < p PROVE q \in Marks(T)
      BY <1>2, <1>3
    <3>2. ASSUME NEW q \in Marks(T), q < p PROVE q \in Marks(S)
      <4>1. q \in Nat /\ q < Len(S)
        BY <1>1, <1>4, <1>5, <3>2
      <4> QED BY <1>2, <4>1
    <3> QED BY <3>1, <3>2
  <2>2. p \in Marks(S) <=> p \in Marks(T)
    BY <1>2, <1>5
  <2> QED BY <2>1, <2>2 DEF Opens
<1>6. \A p \in Opens(S) : p \in Marks(S)
  BY DEF Opens
<1>7. \A p \in Opens(T) : p \in Marks(T)
  BY DEF Opens
<1> DEFINE Free(U, p) == \A q \in Marks(U) : ~(p < q /\ q < x)
<1>8. \A p : Free(S, p) <=> Free(T, p)
  <2>1. ASSUME NEW p, Free(S, p), NEW q \in Marks(T), p < q, q < x PROVE FALSE
    <3>1. q \in Nat /\ q < Len(S)
      BY <1>1, <1>4, <2>1
    <3> QED BY <1>2, <2>1, <3>1
  <2>2. ASSUME NEW p, Free(T, p), NEW q \in Marks(S), p < q, q < x PROVE FALSE
    BY <1>2, <1>3, <2>2
  <2> QED BY <2>1, <2>2
<1>9. inside_fence(x, scan_code_fences(S)) <=> \E p \in Opens(S) : p < x /\ Free(S, p)
  BY <1>1, InsideIs
<1>10. inside_fence(x, scan_code_fences(T)) <=> \E p \in Opens(T) : p < x /\ Free(T, p)
  BY <1>1, InsideIs
<1> HIDE DEF Free
<1>11. ASSUME NEW p \in Opens(S), p < x, Free(S, p)
       PROVE  \E r \in Opens(T) : r < x /\ Free(T, r)
  BY <1>3, <1>5, <1>6, <1>8, <1>11
<1>12. ASSUME NEW p \in Opens(T), p < x, Free(T, p)
       PROVE  \E r \in Opens(S) : r < x /\ Free(S, r)
  <2>1. p \in Nat /\ p < Len(S)
    BY <1>1, <1>4, <1>7, <1>12
  <2> QED BY <1>5, <1>8, <1>12, <2>1
<1> QED BY <1>9, <1>10, <1>11, <1>12

\* The best break depends on the breaks of the window only.
LEMMA SameBest ==
  ASSUME NEW P, NEW Q, NEW lo, NEW hi, NEW otherwise,
         \A p : (p \in DOMAIN P /\ lo <= p /\ p < hi) <=> (p \in DOMAIN Q /\ lo <= p /\ p < hi),
         \A p \in DOMAIN P : lo <= p /\ p < hi => P[p] = Q[p]
  PROVE  BestBreak(P, lo, hi, otherwise) = BestBreak(Q, lo, hi, otherwise)
<1> DEFINE InP == {p \in DOMAIN P : lo <= p /\ p < hi}
           InQ == {p \in DOMAIN Q : lo <= p /\ p < hi}
           TopP == {p \in InP : \A q \in InP : P[q] <= P[p]}
           TopQ == {p \in InQ : \A q \in InQ : Q[q] <= Q[p]}
<1>1. InP = InQ
  OBVIOUS
<1>2. \A p \in InP : P[p] = Q[p]
  OBVIOUS
<1>3. TopP = TopQ
  <2> HIDE DEF InP, InQ
  <2> QED BY <1>1, <1>2
<1>4. BestBreak(P, lo, hi, otherwise) = IF InP = {} THEN otherwise ELSE Most(TopP)
  BY DEF BestBreak
<1>5. BestBreak(Q, lo, hi, otherwise) = IF InQ = {} THEN otherwise ELSE Most(TopQ)
  BY DEF BestBreak
<1> HIDE DEF InP, InQ, TopP, TopQ
<1> QED BY <1>1, <1>3, <1>4, <1>5

\* Where characters have at most two bytes, snapping moves at most one.
LEMMA SnapIs ==
  ASSUME NEW T, Len(T) \in Nat, NEW p \in 0 .. Len(T), Boundary(T, p) \/ Boundary(T, p + 1)
  PROVE  snap_forward(T, p) = IF Boundary(T, p) THEN p ELSE p + 1
<1>1. CASE Boundary(T, p)
  BY <1>1, SnapForward
<1>2. CASE ~Boundary(T, p)
  <2> DEFINE S == {q \in Capped(p, T) .. Len(T) : Boundary(T, q)}
  <2>1. Capped(p, T) = p /\ p \in Nat /\ p + 1 \in Nat /\ p + 1 <= Len(T)
    BY <1>2 DEF Capped, Boundary
  <2>2. S \in SUBSET Nat /\ p + 1 \in S
    BY <1>2, <2>1
  <2>3. p \notin S
    BY <1>2
  <2>4. \A y \in S : p <= y
    BY <2>1
  <2>5. Least(S) \in S /\ Least(S) <= p + 1
    <3> HIDE DEF S
    <3> QED BY <2>2, LeastIs
  <2>6. Least(S) = p + 1
    <3>1. PICK m : m = Least(S)
      OBVIOUS
    <3>2. m \in Nat /\ p <= m /\ m # p /\ m <= p + 1
      <4> HIDE DEF S
      <4> QED BY <2>2, <2>3, <2>4, <2>5, <3>1
    <3> HIDE DEF S
    <3> QED BY <2>1, <3>1, <3>2
  <2> QED BY <1>2, <2>6 DEF snap_forward
<1> QED BY <1>1, <1>2

\* The breaks of the opening's window are those of the text, and score the
\* same, unless a line ends so close to the end of the prefix that what follows
\* it is cut off.
LEMMA SameBreaks ==
  ASSUME NEW S, NEW T, Begins(S, T), NEW hi \in Nat, hi <= Len(S),
         hi >= 2, At(T, hi - 1) # "n", At(T, hi - 2) # "n",
         NEW p \in Nat, p < hi
  PROVE  /\ p \in DOMAIN scan_break_points(S, scan_code_fences(S))
              <=> p \in DOMAIN scan_break_points(T, scan_code_fences(T))
         /\ p \in DOMAIN scan_break_points(S, scan_code_fences(S)) =>
              scan_break_points(S, scan_code_fences(S))[p] = scan_break_points(T, scan_code_fences(T))[p]
<1>1. /\ Len(S) \in Nat /\ Len(T) \in Nat /\ Len(S) <= Len(T)
      /\ \A y \in 0 .. Len(S) - 1 : At(S, y) = At(T, y)
  BY DEF Begins
<1>2. p \in 0 .. Len(S) - 1 /\ p \in 0 .. Len(T) - 1
  BY <1>1
<1> DEFINE F == scan_code_fences(S)
           G == scan_code_fences(T)
<1>3. p \in DOMAIN scan_break_points(S, F) <=> At(S, p) = "n" /\ ~inside_fence(p, F)
  BY <1>1, <1>2, MarkdownBreaks
<1>4. p \in DOMAIN scan_break_points(T, G) <=> At(T, p) = "n" /\ ~inside_fence(p, G)
  BY <1>1, <1>2, MarkdownBreaks
<1>5. (inside_fence(p, F) <=> inside_fence(p, G)) /\ At(S, p) = At(T, p)
  BY <1>1, <1>2, SameInside
<1>6. ASSUME p \in DOMAIN scan_break_points(S, F)
      PROVE  scan_break_points(S, F)[p] = scan_break_points(T, G)[p]
  <2>1. At(T, p) = "n" /\ p \in DOMAIN scan_break_points(T, G)
    BY <1>3, <1>4, <1>5, <1>6
  <2>2. p # hi - 1 /\ p # hi - 2
    BY <2>1
  <2>3. p + 2 < hi
    BY <2>2
  <2>4. /\ p + 1 < Len(S) /\ p + 2 < Len(S) /\ p + 1 < Len(T) /\ p + 2 < Len(T)
        /\ p + 1 \in 0 .. Len(S) - 1 /\ (p > 0 => p - 1 \in 0 .. Len(S) - 1)
    BY <1>1, <2>3
  <2>5. At(S, p + 1) = At(T, p + 1) /\ (p > 0 => At(S, p - 1) = At(T, p - 1))
    BY <1>1, <2>4
  <2>6. BreakScore(S, p) = BreakScore(T, p)
    BY <2>4, <2>5 DEF BreakScore
  <2>7. scan_break_points(S, F)[p] = BreakScore(S, p)
    <3> HIDE DEF F
    <3> QED BY <1>6 DEF scan_break_points
  <2>8. scan_break_points(T, G)[p] = BreakScore(T, p)
    <3> HIDE DEF G
    <3> QED BY <2>1 DEF scan_break_points
  <2> QED BY <2>6, <2>7, <2>8
<1> HIDE DEF F, G
<1>7. p \in DOMAIN scan_break_points(S, F) <=> p \in DOMAIN scan_break_points(T, G)
  BY <1>3, <1>4, <1>5
<1> QED BY <1>6, <1>7 DEF F, G

\* Snapping in the prefix does what it does in the text.
LEMMA SameSnap ==
  ASSUME NEW ls, NEW T, NEW a, Layout(ls, T, a), NEW S, Begins(S, T), Boundary(T, Len(S)),
         NEW p \in 0 .. Len(S)
  PROVE  snap_forward(S, p) = snap_forward(T, p)
<1>1. /\ Len(S) \in Nat /\ Len(T) \in Nat /\ Len(S) <= Len(T) /\ p \in 0 .. Len(T) /\ p \in Nat
      /\ \A y \in 0 .. Len(S) - 1 : At(S, y) = At(T, y)
  BY DEF Begins
<1>2. ASSUME NEW q \in 0 .. Len(S)
      PROVE  Boundary(S, q) <=> Boundary(T, q)
  <2>1. CASE q = Len(S)
    BY <1>1, <2>1 DEF Boundary
  <2>2. CASE q # Len(S)
    <3>1. q \in 0 .. Len(S) - 1 /\ ~(q >= Len(S)) /\ ~(q >= Len(T))
      BY <1>1, <2>2
    <3> QED BY <1>1, <3>1 DEF Boundary
  <2> QED BY <2>1, <2>2
<1>3. CASE Boundary(T, p)
  <2>1. Boundary(S, p)
    BY <1>2, <1>3
  <2> QED BY <1>1, <1>3, <2>1, SnapForward
<1>4. CASE ~Boundary(T, p)
  <2>1. p # Len(S) /\ p + 1 \in 0 .. Len(S) /\ p + 1 \in 1 .. Len(T)
    BY <1>1, <1>4
  <2>2. Boundary(T, p + 1)
    <3>1. Boundary(T, p + 1) \/ Boundary(T, (p + 1) - 1)
      BY <2>1, CharactersAreShort
    <3>2. (p + 1) - 1 = p
      BY <1>1
    <3> QED BY <1>4, <3>1, <3>2
  <2>3. ~Boundary(S, p) /\ Boundary(S, p + 1)
    BY <1>2, <1>4, <2>1, <2>2
  <2>4. snap_forward(T, p) = p + 1
    BY <1>1, <1>4, <2>2, SnapIs
  <2>5. snap_forward(S, p) = p + 1
    BY <1>1, <2>3, SnapIs
  <2> QED BY <2>4, <2>5
<1> QED BY <1>3, <1>4

\* A line ends close to the end of the opening's window.
EndsClose(T) ==
  /\ Len(T) > ChunkSize + Half
  /\ \E back \in {1, 2} : At(T, ChunkSize + Half - back) = "n"

\* The opening as the prefix gives it is the first cut of the whole text.
LEMMA OpeningIs ==
  ASSUME NEW ls, NEW T, NEW a, Layout(ls, T, a), ChunkSize < Len(T), ~EndsClose(T)
  PROVE  first_chunk(T) = Slice(T, 0, CutAt(T, scan_break_points(T, scan_code_fences(T)), 0))
<1>1. T \in Seq(Byte) /\ Len(T) \in Nat /\ ChunkSize \in Nat /\ Half \in Nat /\ ChunkSize - Half \in Nat
      /\ Half + 1 < ChunkSize
  BY SizesAre DEF Layout
<1> DEFINE H == ChunkSize + Half
           P == snap_forward(T, Capped(H, T))
           S == Slice(T, 0, P)
<1>2. H \in Nat /\ ChunkSize <= H /\ H >= 2
  BY <1>1
<1>3. Capped(H, T) \in 0 .. Len(T) /\ ChunkSize <= Capped(H, T) /\ (H <= Len(T) => Capped(H, T) = H)
      /\ (H > Len(T) => Capped(H, T) = Len(T))
  <2> HIDE DEF H
  <2> QED BY <1>1, <1>2, CappedIs
<1>4. P \in Capped(H, T) .. Len(T) /\ Boundary(T, P)
  BY <1>1, <1>3, SnapForward
<1>5. P \in 0 .. Len(T) /\ ChunkSize <= P /\ Capped(H, T) <= P /\ P \in Nat
  <2> HIDE DEF P, H
  <2> QED BY <1>1, <1>3, <1>4
<1>6. first_chunk(T) = Slice(T, 0, CutAt(S, scan_break_points(S, scan_code_fences(S)), 0))
  <2>1. ~(Len(T) <= ChunkSize)
    BY <1>1
  <2> QED BY <2>1 DEF first_chunk, Half
<1>7. S \in Seq(Byte) /\ Len(S) = P /\ \A x \in 0 .. P - 1 : At(S, x) = At(T, x)
  <2> HIDE DEF P
  <2>1. 0 \in 0 .. Len(T) /\ P \in 0 .. Len(T) /\ P - 0 = P /\ P - 0 - 1 = P - 1 /\ \A x \in 0 .. P - 1 : 0 + x = x
    BY <1>1, <1>5
  <2>2. S \in Seq(Byte) /\ Len(S) = P - 0 /\ \A x \in 0 .. P - 0 - 1 : At(S, x) = At(T, 0 + x)
    BY <1>1, <2>1, SliceIs
  <2> HIDE DEF S
  <2> QED BY <2>1, <2>2
<1>8. Begins(S, T)
  <2> HIDE DEF P, S
  <2> QED BY <1>1, <1>5, <1>7 DEF Begins
<1> HIDE DEF P, S
<1> DEFINE A == scan_break_points(S, scan_code_fences(S))
           B == scan_break_points(T, scan_code_fences(T))
           lo == Less(ChunkSize, Half)
           hi == Capped(H, T)
<1>9. CutAt(S, A, 0) = snap_forward(S, BestBreak(A, lo, hi, ChunkSize))
  <2>1. Capped(0 + ChunkSize, S) = ChunkSize
    BY <1>1, <1>5, <1>7 DEF Capped
  <2>2. Capped(H, S) = hi
    <3>1. CASE H <= Len(T)
      <4>1. hi = H /\ H <= P
        BY <1>1, <1>2, <1>3, <1>5, <3>1
      <4>2. Capped(H, S) = H
        <5> HIDE DEF H
        <5> QED BY <1>2, <1>5, <1>7, <4>1 DEF Capped
      <4> QED BY <4>1, <4>2
    <3>2. CASE ~(H <= Len(T))
      <4>1. hi = Len(T) /\ P = Len(T)
        <5> HIDE DEF H
        <5> QED BY <1>1, <1>2, <1>3, <1>5, <3>2
      <4>2. Capped(H, S) = Len(T)
        <5> HIDE DEF H
        <5> QED BY <1>1, <1>2, <1>7, <3>2, <4>1 DEF Capped
      <4> QED BY <4>1, <4>2
    <3> QED BY <3>1, <3>2
  <2> HIDE DEF A, hi
  <2> QED BY <2>1, <2>2 DEF CutAt, Half
<1>10. CutAt(T, B, 0) = snap_forward(T, BestBreak(B, lo, hi, ChunkSize))
  <2>1. Capped(0 + ChunkSize, T) = ChunkSize
    BY <1>1 DEF Capped
  <2> HIDE DEF B
  <2> QED BY <2>1 DEF CutAt, Half
<1>11. BestBreak(A, lo, hi, ChunkSize) = BestBreak(B, lo, hi, ChunkSize)
  <2>1. CASE Len(T) <= H
    <3>1. P = Len(T)
      <4> HIDE DEF H
      <4> QED BY <1>1, <1>2, <1>3, <1>5, <2>1
    <3>2. S = T
      BY <1>1, <3>1 DEF S, Slice
    <3> QED BY <3>2
  <2>2. CASE H < Len(T)
    <3>1. hi = H
      <4> HIDE DEF H
      <4> QED BY <1>1, <1>2, <1>3, <2>2
    <3>2. At(T, H - 1) # "n" /\ At(T, H - 2) # "n"
      BY <1>1, <2>2 DEF EndsClose
    <3>3. H <= Len(S)
      <4> HIDE DEF H
      <4> QED BY <1>5, <1>7, <3>1
    <3> HIDE DEF H
    <3>4. ASSUME NEW p \in Nat, p < H
          PROVE  /\ p \in DOMAIN A <=> p \in DOMAIN B
                 /\ p \in DOMAIN A => A[p] = B[p]
      BY <1>2, <1>8, <3>2, <3>3, <3>4, SameBreaks
    <3>5. (\A p \in DOMAIN A : p \in Nat) /\ (\A p \in DOMAIN B : p \in Nat)
      <4>1. Len(S) \in Nat
        BY <1>5, <1>7
      <4> QED BY <1>1, <4>1, MarkdownBreaks DEF Breaks
    <3> HIDE DEF A, B, lo, hi
    <3>6. \A p : (p \in DOMAIN A /\ lo <= p /\ p < hi) <=> (p \in DOMAIN B /\ lo <= p /\ p < hi)
      BY <3>1, <3>4, <3>5
    <3>7. \A p \in DOMAIN A : lo <= p /\ p < hi => A[p] = B[p]
      BY <3>1, <3>4, <3>5
    <3> QED BY <3>6, <3>7, SameBest
  <2> QED BY <1>1, <1>2, <2>1, <2>2
<1>12. PICK b : b = BestBreak(B, lo, hi, ChunkSize)
  OBVIOUS
<1>13. b \in 0 .. Len(S)
  <2>1. Breaks(B, T)
    BY <1>1, MarkdownBreaks
  <2>2. lo \in Nat /\ hi \in Nat
    <3> HIDE DEF H
    <3> QED BY <1>1, <1>3 DEF Less
  <2>3. \/ \E p \in DOMAIN B : lo <= p /\ p < hi /\ b = p
        \/ b = ChunkSize
    <3> HIDE DEF B, lo, hi
    <3> QED BY <1>12, <2>1, <2>2, BestBreakIs
  <2>4. ASSUME NEW p \in DOMAIN B, p < hi PROVE p \in 0 .. Len(S)
    <3>1. p \in Nat /\ hi <= P
      <4> HIDE DEF B, H
      <4> QED BY <1>5, <2>1 DEF Breaks
    <3> HIDE DEF hi
    <3> QED BY <1>5, <1>7, <2>2, <2>4, <3>1
  <2> HIDE DEF B, hi, lo
  <2> QED BY <1>1, <1>5, <1>7, <2>3, <2>4
<1>14. snap_forward(S, b) = snap_forward(T, b)
  BY <1>4, <1>7, <1>8, <1>13, SameSnap DEF P
<1> HIDE DEF A, B, lo, hi, H
<1>15. CutAt(S, A, 0) = CutAt(T, B, 0)
  BY <1>9, <1>10, <1>11, <1>12, <1>14
<1> QED BY <1>6, <1>15 DEF A, B

-----------------------------------------------------------------------------
(* Line numbers. *)

\* The newlines before p, counted one byte at a time.
LEMMA NewlinesAre ==
  ASSUME NEW T
  PROVE  /\ Newlines(T, 0) = 0
         /\ \A p \in Nat : Newlines(T, p) \in Nat
         /\ \A p \in Nat : Newlines(T, p + 1) = Newlines(T, p) + (IF At(T, p) = "n" THEN 1 ELSE 0)
<1> DEFINE N(p) == {q \in 0 .. p - 1 : At(T, q) = "n"}
<1>1. N(0) = {}
  OBVIOUS
<1>2. ASSUME NEW p \in Nat PROVE IsFiniteSet(N(p)) /\ Cardinality(N(p)) \in Nat
  <2>1. IsFiniteSet(0 .. p - 1)
    BY FS_Interval
  <2>2. N(p) \subseteq 0 .. p - 1
    OBVIOUS
  <2> HIDE DEF N
  <2> QED BY <2>1, <2>2, FS_Subset, FS_CardinalityType
<1>3. ASSUME NEW p \in Nat
      PROVE  Cardinality(N(p + 1)) = Cardinality(N(p)) + (IF At(T, p) = "n" THEN 1 ELSE 0)
  <2>1. CASE At(T, p) = "n"
    <3>1. N(p + 1) = N(p) \cup {p} /\ p \notin N(p)
      BY <2>1
    <3> HIDE DEF N
    <3>2. Cardinality(N(p) \cup {p}) = Cardinality(N(p)) + 1
      BY <1>2, <3>1, FS_AddElement
    <3> QED BY <2>1, <3>1, <3>2
  <2>2. CASE At(T, p) # "n"
    <3>1. N(p + 1) = N(p)
      <4>1. ASSUME NEW q \in N(p + 1) PROVE q \in N(p)
        <5>1. q \in 0 .. p /\ q # p
          BY <2>2
        <5> QED BY <5>1
      <4>2. N(p) \subseteq N(p + 1)
        OBVIOUS
      <4> HIDE DEF N
      <4> QED BY <4>1, <4>2
    <3>2. Cardinality(N(p)) \in Nat
      BY <1>2
    <3> HIDE DEF N
    <3> QED BY <2>2, <3>1, <3>2
  <2> QED BY <2>1, <2>2
<1>4. \A p : Newlines(T, p) = Cardinality(N(p))
  BY DEF Newlines
<1>5. Cardinality(N(0)) = 0
  BY <1>1, FS_EmptySet
<1> HIDE DEF N
<1> QED BY <1>2, <1>3, <1>4, <1>5

\* What S holds is what T holds from `from` on.
Stretch(S, T, from, n) == \A x \in 0 .. n - 1 : At(S, x) = At(T, from + x)

\* The newlines of a stretch: those before it do not count.
LEMMA NewlinesShift ==
  ASSUME NEW S, NEW T, NEW from \in Nat, NEW n \in Nat, Stretch(S, T, from, n)
  PROVE  \A x \in 0 .. n : Newlines(T, from + x) = Newlines(T, from) + Newlines(S, x)
<1> DEFINE U == {m \in Nat : m <= n /\ Newlines(T, from + m) # Newlines(T, from) + Newlines(S, m)}
<1>1. ASSUME U # {} PROVE FALSE
  <2>1. PICK m \in U : \A y \in U : m <= y
    BY <1>1, LeastOf
  <2>2. m \in Nat /\ m <= n /\ Newlines(T, from + m) # Newlines(T, from) + Newlines(S, m)
    BY <2>1
  <2>3. m # 0
    <3>1. Newlines(S, 0) = 0
      BY NewlinesAre
    <3>2. Newlines(T, from) \in Nat
      BY NewlinesAre
    <3>3. from + 0 = from
      OBVIOUS
    <3>4. m = 0 => Newlines(T, from + m) = Newlines(T, from) + Newlines(S, m)
      <4> SUFFICES ASSUME m = 0 PROVE Newlines(T, from + 0) = Newlines(T, from) + Newlines(S, 0)
        OBVIOUS
      <4> QED BY <3>1, <3>2, <3>3
    <3> QED BY <2>2, <3>4
  <2>4. PICK k : k = m - 1
    OBVIOUS
  <2>5. k \in Nat /\ m = k + 1 /\ k <= n /\ ~(m <= k) /\ k \in 0 .. n - 1 /\ from + m = (from + k) + 1
        /\ from + k \in Nat
    BY <2>2, <2>3, <2>4
  <2>6. Newlines(T, from + k) = Newlines(T, from) + Newlines(S, k)
    <3>1. k \notin U
      BY <2>1, <2>5
    <3> QED BY <2>5, <3>1
  <2>7. At(S, k) = At(T, from + k)
    BY <2>5 DEF Stretch
  <2>8. Newlines(S, k + 1) = Newlines(S, k) + (IF At(S, k) = "n" THEN 1 ELSE 0) /\ Newlines(S, k) \in Nat
    BY <2>5, NewlinesAre
  <2>9. Newlines(T, (from + k) + 1) = Newlines(T, from + k) + (IF At(T, from + k) = "n" THEN 1 ELSE 0)
        /\ Newlines(T, from) \in Nat
    BY <2>5, NewlinesAre
  <2> QED BY <2>2, <2>5, <2>6, <2>7, <2>8, <2>9
<1> QED BY <1>1

\* They only grow.
LEMMA NewlinesGrow ==
  ASSUME NEW T, NEW p \in Nat, NEW q \in Nat, p <= q
  PROVE  Newlines(T, p) <= Newlines(T, q)
<1> DEFINE U == {d \in Nat : ~(Newlines(T, p) <= Newlines(T, p + d))}
<1>1. ASSUME U # {} PROVE FALSE
  <2>1. PICK m \in U : \A y \in U : m <= y
    BY <1>1, LeastOf
  <2>2. m \in Nat /\ ~(Newlines(T, p) <= Newlines(T, p + m))
    BY <2>1
  <2>3. Newlines(T, p) \in Nat /\ Newlines(T, p + m) \in Nat
    <3>1. p + m \in Nat
      BY <2>2
    <3> HIDE DEF U
    <3> QED BY <3>1, NewlinesAre
  <2>4. m # 0
    <3>1. p + 0 = p
      OBVIOUS
    <3> QED BY <2>2, <2>3, <3>1
  <2>5. PICK k : k = m - 1
    OBVIOUS
  <2>6. k \in Nat /\ ~(m <= k) /\ p + m = (p + k) + 1 /\ p + k \in Nat
    BY <2>2, <2>4, <2>5
  <2>7. Newlines(T, p) <= Newlines(T, p + k)
    <3>1. k \notin U
      BY <2>1, <2>6
    <3> QED BY <2>6, <3>1
  <2>8. Newlines(T, (p + k) + 1) = Newlines(T, p + k) + (IF At(T, p + k) = "n" THEN 1 ELSE 0)
        /\ Newlines(T, p + k) \in Nat
    BY <2>6, NewlinesAre
  <2> QED BY <2>2, <2>3, <2>6, <2>7, <2>8
<1>2. PICK d : d = q - p
  OBVIOUS
<1>3. d \in Nat /\ p + d = q
  BY <1>2
<1>4. d \notin U
  <2> HIDE DEF U
  <2> QED BY <1>1
<1> QED BY <1>3, <1>4

\* How many lines a text has: every byte but a newline at the end is on one of
\* them.
LEMMA LinesAre ==
  ASSUME NEW T \in Seq(Byte)
  PROVE  /\ LineCount(T) \in Nat
         /\ LineCount(T) = Newlines(T, Len(T)) \/ LineCount(T) = Newlines(T, Len(T)) + 1
         /\ Newlines(T, Len(T)) >= 1 => LineCount(T) >= 1
         /\ \A p \in 0 .. Len(T) - 1 : At(T, p) # "n" => Newlines(T, p) \in 0 .. LineCount(T) - 1
<1>1. Len(T) \in Nat /\ Newlines(T, Len(T)) \in Nat
  <2>1. Len(T) \in Nat
    OBVIOUS
  <2> QED BY <2>1, NewlinesAre
<1>2. LineCount(T) = IF Len(T) = 0 \/ At(T, Len(T) - 1) = "n"
                     THEN Newlines(T, Len(T)) ELSE Newlines(T, Len(T)) + 1
  BY DEF LineCount
<1>3. ASSUME NEW p \in 0 .. Len(T) - 1, At(T, p) # "n"
      PROVE  Newlines(T, p) \in 0 .. LineCount(T) - 1
  <2>1. p \in Nat /\ Len(T) # 0 /\ Len(T) - 1 \in Nat /\ (Len(T) - 1) + 1 = Len(T)
    BY <1>1
  <2>2. Newlines(T, p) \in Nat /\ Newlines(T, Len(T) - 1) \in Nat
    BY <2>1, NewlinesAre
  <2>3. Newlines(T, (Len(T) - 1) + 1)
          = Newlines(T, Len(T) - 1) + (IF At(T, Len(T) - 1) = "n" THEN 1 ELSE 0)
    BY <2>1, NewlinesAre
  <2>4. Newlines(T, p) <= Newlines(T, Len(T) - 1)
    <3>1. p <= Len(T) - 1
      BY <1>1
    <3> QED BY <2>1, <3>1, NewlinesGrow
  <2>5. CASE At(T, Len(T) - 1) = "n"
    <3>1. LineCount(T) = Newlines(T, Len(T) - 1) + 1
      BY <1>2, <2>1, <2>3, <2>5
    <3> QED BY <2>2, <2>4, <3>1
  <2>6. CASE At(T, Len(T) - 1) # "n"
    <3>1. LineCount(T) = Newlines(T, Len(T) - 1) + 1
      BY <1>2, <2>1, <2>2, <2>3, <2>6
    <3> QED BY <2>2, <2>4, <3>1
  <2> QED BY <2>5, <2>6
<1> QED BY <1>1, <1>2, <1>3

\* The words of a query are two.
LEMMA WordsAreTwo ==
  IsFiniteSet({"t", "u"}) /\ Cardinality({"t", "u"}) <= 2 /\ Cardinality({"t", "u"}) \in Nat
<1>1. IsFiniteSet({"t"}) /\ Cardinality({"t"}) = 1
  BY FS_Singleton
<1>2. "u" \notin {"t"}
  OBVIOUS
<1>3. IsFiniteSet({"t"} \cup {"u"}) /\ Cardinality({"t"} \cup {"u"}) = 2
  <2>1. PICK one : one = {"t"}
    OBVIOUS
  <2>2. IsFiniteSet(one \cup {"u"}) /\ Cardinality(one \cup {"u"}) = Cardinality(one) + 1
    <3>1. IsFiniteSet(one) /\ "u" \notin one
      BY <1>1, <1>2, <2>1
    <3> QED BY ONLY <3>1, FS_AddElement
  <2>3. Cardinality(one) = 1
    BY <1>1, <2>1
  <2> QED BY <2>1, <2>2, <2>3
<1>4. {"t"} \cup {"u"} = {"t", "u"}
  OBVIOUS
<1> QED BY <1>3, <1>4

\* The best line of a text in which a word is found has a word.
LEMMA BestLineIs ==
  ASSUME NEW T \in Seq(Byte), NEW p \in 0 .. Len(T) - 1, At(T, p) \in {"t", "u"}
  PROVE  \E q \in 0 .. Len(T) - 1 : At(T, q) \in {"t", "u"} /\ Newlines(T, q) = BestLine(T)
<1> DEFINE Matches(i) == Cardinality({"t", "u"} \cap LineAt(T, i))
           All == 0 .. LineCount(T) - 1
           Top == {i \in All : \A j \in All : Matches(j) <= Matches(i)}
           k == Newlines(T, p)
<1>1. LineCount(T) \in Nat /\ k \in All
  BY LinesAre
<1>2. IsFiniteSet({"t", "u"}) /\ Cardinality({"t", "u"}) <= 2 /\ Cardinality({"t", "u"}) \in Nat
  BY WordsAreTwo
<1>3. \A i : Matches(i) \in Nat /\ Matches(i) <= 2
  <2> SUFFICES ASSUME NEW i PROVE Matches(i) \in Nat /\ Matches(i) <= 2
    OBVIOUS
  <2>1. {"t", "u"} \cap LineAt(T, i) \subseteq {"t", "u"}
    OBVIOUS
  <2> QED BY <1>2, <2>1, FS_Subset, FS_CardinalityType
<1>4. \A i : Matches(i) > 0 => \E q \in 0 .. Len(T) - 1 : At(T, q) \in {"t", "u"} /\ Newlines(T, q) = i
  <2> SUFFICES ASSUME NEW i, Matches(i) > 0
               PROVE  \E q \in 0 .. Len(T) - 1 : At(T, q) \in {"t", "u"} /\ Newlines(T, q) = i
    OBVIOUS
  <2>1. {"t", "u"} \cap LineAt(T, i) # {}
    <3>1. Cardinality({}) = 0
      BY FS_EmptySet
    <3>2. Cardinality({"t", "u"} \cap LineAt(T, i)) # 0
      <4>1. Matches(i) # 0
        <5> HIDE DEF Matches
        <5>1. Matches(i) \in Nat /\ Matches(i) > 0
          BY <1>3
        <5> QED BY <5>1
      <4> QED BY <4>1
    <3>3. ASSUME {"t", "u"} \cap LineAt(T, i) = {} PROVE FALSE
      BY <3>1, <3>2, <3>3, Zenon
    <3> QED BY <3>3
  <2>2. PICK w \in {"t", "u"} : w \in LineAt(T, i)
    BY <2>1
  <2> QED BY <2>2 DEF LineAt
<1>5. Matches(k) > 0
  <2>1. At(T, p) \in {"t", "u"} \cap LineAt(T, k)
    BY DEF LineAt
  <2>2. IsFiniteSet({"t", "u"} \cap LineAt(T, k))
    BY <1>2, FS_Subset
  <2>3. Matches(k) # 0
    BY <2>1, <2>2, FS_EmptySet
  <2>4. Matches(k) \in Nat
    BY <1>3
  <2> HIDE DEF Matches
  <2> QED BY <2>3, <2>4
<1> HIDE DEF Matches
<1> DEFINE W == {Matches(i) : i \in All}
<1>6. W \in SUBSET Nat /\ W # {} /\ \A w \in W : w <= 2
  BY <1>1, <1>3
<1>7. PICK m \in All : Matches(m) = Most(W) /\ \A w \in W : w <= Matches(m)
  <2> HIDE DEF W
  <2>1. Most(W) \in W /\ \A w \in W : w <= Most(W)
    BY <1>6, MostIs
  <2> QED BY <2>1 DEF W
<1>8. m \in Top
  BY <1>7
<1>9. Top \in SUBSET Nat
  BY <1>1
<1>10. BestLine(T) = Least(Top)
  <2>1. All # {}
    BY <1>1
  <2> QED BY <2>1 DEF BestLine, Matches
<1>11. Least(Top) \in Top
  <2> HIDE DEF Top
  <2> QED BY <1>8, <1>9, LeastIs
<1>12. Matches(Least(Top)) > 0
  <2>1. PICK b : b = Least(Top)
    OBVIOUS
  <2>2. Matches(k) <= Matches(b)
    <3>1. b \in Top
      BY <1>11, <2>1
    <3> HIDE DEF k
    <3> QED BY <1>1, <3>1
  <2>3. Matches(b) \in Nat /\ Matches(k) \in Nat
    BY <1>3
  <2>4. Matches(b) > 0
    <3> HIDE DEF k
    <3> QED BY <1>5, <2>2, <2>3
  <2> QED BY <2>1, <2>4
<1> QED BY <1>4, <1>10, <1>12

-----------------------------------------------------------------------------
(* Where a snippet stands. *)

\* The lines counted before a place are the newlines before it, or one fewer.
LEMMA LinesBefore ==
  ASSUME NEW S \in Seq(Byte)
  PROVE  /\ Less(LineCount(S), 1) \in Nat /\ Newlines(S, Len(S)) \in Nat
         /\ Newlines(S, Len(S)) - Less(LineCount(S), 1) \in {0, 1}
<1>1. PICK n, k : n = Newlines(S, Len(S)) /\ k = LineCount(S)
  OBVIOUS
<1>2. n \in Nat
  <2>1. Len(S) \in Nat
    OBVIOUS
  <2> QED BY <1>1, <2>1, NewlinesAre
<1>3. k \in Nat /\ (k = n \/ k = n + 1)
  BY <1>1, LinesAre
<1>4. Less(k, 1) = IF k > 1 THEN k - 1 ELSE 0
  BY DEF Less
<1>5. Less(k, 1) \in Nat /\ n - Less(k, 1) \in {0, 1}
  BY <1>2, <1>3, <1>4
<1> QED BY <1>1, <1>2, <1>5

\* Those of a stretch are those of the text between its ends.
LEMMA LinesBetween ==
  ASSUME NEW T \in Seq(Byte), NEW from \in 0 .. Len(T), NEW to \in from .. Len(T)
  PROVE  /\ Slice(T, from, to) \in Seq(Byte) /\ Len(Slice(T, from, to)) = to - from
         /\ \A x \in 0 .. to - from :
              Newlines(T, from + x) = Newlines(T, from) + Newlines(Slice(T, from, to), x)
<1>1. PICK S : S = Slice(T, from, to)
  OBVIOUS
<1>2. PICK n : n = to - from
  OBVIOUS
<1>3. from \in Nat /\ n \in Nat
  BY <1>2
<1>4. S \in Seq(Byte) /\ Len(S) = n /\ \A x \in 0 .. n - 1 : At(S, x) = At(T, from + x)
  BY <1>1, <1>2, SliceIs
<1>5. Stretch(S, T, from, n)
  BY <1>4 DEF Stretch
<1>6. \A x \in 0 .. n : Newlines(T, from + x) = Newlines(T, from) + Newlines(S, x)
  BY <1>3, <1>5, NewlinesShift
<1> QED BY <1>1, <1>2, <1>4, <1>6

\* Places of a text, counted from the start of a stretch.
LEMMA WithinStretch ==
  ASSUME NEW from \in Nat, NEW to \in Nat
  PROVE  /\ \A q \in 0 .. to - from - 1 : q \in Nat /\ from + q \in from .. to - 1
         /\ \A p \in from .. to - 1 : /\ p - from \in 0 .. to - from - 1 /\ from + (p - from) = p
                                     /\ (p - from) + 1 \in 1 .. to - from
OBVIOUS

\* Where a snippet of the chunk [pos, end) is taken from.
LEMMA RegionIs ==
  ASSUME NEW T \in Seq(Byte), NEW pos \in 0 .. Len(T), NEW end \in pos .. Len(T)
  PROVE  /\ snap_backward(T, Less(pos, Margin)) \in 0 .. pos
         /\ snap_forward(T, Capped(end + Margin, T)) \in end .. Len(T)
<1>1. Len(T) \in Nat /\ pos \in Nat /\ end \in Nat /\ Margin \in Nat
  BY SizesType
<1>2. Less(pos, Margin) \in 0 .. pos
  BY <1>1 DEF Less
<1>3. PICK p : p = Less(pos, Margin)
  OBVIOUS
<1>4. p \in 0 .. Len(T) /\ p \in 0 .. pos
  BY <1>1, <1>2, <1>3
<1>5. snap_backward(T, p) \in 0 .. p
  BY <1>1, <1>4, SnapBackward
<1>6. PICK q : q = Capped(end + Margin, T)
  OBVIOUS
<1>7. q \in end .. Len(T)
  BY <1>1, <1>6 DEF Capped
<1>8. q \in 0 .. Len(T)
  BY <1>1, <1>7
<1>9. snap_forward(T, q) \in q .. Len(T)
  BY <1>1, <1>8, SnapForward
<1> QED BY <1>1, <1>3, <1>4, <1>5, <1>6, <1>7, <1>9

\* The line a snippet is said to stand at.
LEMMA SnippetIs ==
  ASSUME NEW T \in Seq(Byte), NEW pos \in 1 .. Len(T), NEW end \in pos .. Len(T),
         NEW lo, lo = snap_backward(T, Less(pos, Margin)),
         NEW hi, hi = snap_forward(T, Capped(end + Margin, T)),
         NEW found, found = {p \in lo .. hi - 1 : At(T, p) \in {"t", "u"}},
         NEW line, line = extract_snippet(T, pos, end - pos)
  PROVE  \/ \E p \in found : (1 + Newlines(T, p)) - line \in {0, 1}
         \/ found = {} /\ (1 + Newlines(T, pos)) - line \in 0 .. 2
<1>1. Len(T) \in Nat /\ pos \in Nat /\ end \in Nat /\ Margin \in Nat /\ pos # 0 /\ pos \in 0 .. Len(T)
      /\ pos + (end - pos) = end
  BY SizesType
<1>2. lo \in 0 .. pos /\ hi \in end .. Len(T)
  BY <1>1, RegionIs
<1>3. lo \in 0 .. Len(T) /\ hi \in lo .. Len(T) /\ pos \in lo .. Len(T) /\ lo \in Nat /\ hi \in Nat
      /\ lo \in 0 .. lo /\ 0 \in 0 .. Len(T)
  BY <1>1, <1>2
<1>4. PICK region : region = Slice(T, lo, hi)
  OBVIOUS
<1>5. PICK before : before = Slice(T, 0, lo)
  OBVIOUS
<1>6. PICK lead : lead = Slice(T, lo, pos)
  OBVIOUS
<1>7. PICK missed \in BOOLEAN : missed <=> \A w \in {"t", "u"} : ~Holds(region, w)
  OBVIOUS
<1>8. line = Less(LineCount(before), 1) + 1
              + (IF missed THEN Less(LineCount(lead), 1) ELSE BestLine(region))
  BY <1>1, <1>4, <1>5, <1>6, <1>7 DEF extract_snippet, line_offset
<1>9. PICK n : n = Newlines(T, lo)
  OBVIOUS
<1>10. PICK off : off = Less(LineCount(before), 1)
  OBVIOUS
<1>11. n \in Nat /\ off \in Nat /\ n - off \in {0, 1}
  <2>1. /\ before \in Seq(Byte) /\ Len(before) = lo - 0
        /\ \A x \in 0 .. lo - 0 : Newlines(T, 0 + x) = Newlines(T, 0) + Newlines(before, x)
    <3>1. lo \in 0 .. Len(T) /\ 0 \in 0 .. Len(T)
      BY <1>3
    <3> QED BY <1>5, <3>1, LinesBetween
  <2>2. lo - 0 = lo /\ 0 + lo = lo /\ lo \in 0 .. lo - 0
    BY <1>3
  <2>3. Newlines(T, lo) = Newlines(T, 0) + Newlines(before, lo)
    <3>1. Newlines(T, 0 + lo) = Newlines(T, 0) + Newlines(before, lo)
      BY <2>1, <2>2
    <3> QED BY <2>2, <3>1
  <2>4. Newlines(T, 0) = 0 /\ Newlines(before, lo) \in Nat
    BY <1>3, NewlinesAre
  <2>5. Newlines(before, Len(before)) - off \in {0, 1} /\ off \in Nat
    BY <1>10, <2>1, LinesBefore
  <2> QED BY <1>9, <2>1, <2>2, <2>3, <2>4, <2>5
<1>12. /\ region \in Seq(Byte) /\ Len(region) = hi - lo
       /\ \A x \in 0 .. hi - lo - 1 : At(region, x) = At(T, lo + x)
       /\ \A x \in 0 .. hi - lo : Newlines(T, lo + x) = n + Newlines(region, x)
  <2>1. /\ region \in Seq(Byte) /\ Len(region) = hi - lo
        /\ \A x \in 0 .. hi - lo - 1 : At(region, x) = At(T, lo + x)
    BY <1>3, <1>4, SliceIs
  <2>2. \A x \in 0 .. hi - lo : Newlines(T, lo + x) = n + Newlines(region, x)
    BY <1>3, <1>4, <1>9, LinesBetween
  <2> QED BY <2>1, <2>2
<1>13. CASE ~missed
  <2>1. PICK w \in {"t", "u"} : Holds(region, w)
    BY <1>7, <1>13
  <2>2. PICK i \in DOMAIN region : region[i] = w
    BY <2>1 DEF Holds
  <2>3. i \in 1 .. Len(region) /\ Len(region) \in Nat
    BY <1>12, <2>2
  <2>4. PICK x : x = i - 1
    OBVIOUS
  <2>5. x \in 0 .. Len(region) - 1 /\ x + 1 = i
    BY <2>3, <2>4
  <2>6. At(region, x) \in {"t", "u"}
    BY <2>1, <2>2, <2>5 DEF At
  <2>7. PICK q \in 0 .. Len(region) - 1 :
          At(region, q) \in {"t", "u"} /\ Newlines(region, q) = BestLine(region)
    BY <1>12, <2>5, <2>6, BestLineIs
  <2>8. q \in Nat /\ q \in 0 .. hi - lo - 1 /\ q \in 0 .. hi - lo
    BY <1>3, <1>12
  <2>9. PICK p : p = lo + q
    OBVIOUS
  <2>10. p \in lo .. hi - 1
    <3>1. lo \in Nat /\ hi \in Nat
      BY <1>3
    <3>2. lo + q \in lo .. hi - 1
      BY <2>8, <3>1, WithinStretch
    <3> QED BY <2>9, <3>2
  <2>11. At(T, p) \in {"t", "u"}
    BY <1>12, <2>7, <2>8, <2>9
  <2>12. Newlines(T, p) = n + Newlines(region, q)
    BY <1>12, <2>8, <2>9
  <2>13. Newlines(region, q) \in Nat
    BY <2>8, NewlinesAre
  <2>14. line = off + 1 + Newlines(region, q)
    BY <1>8, <1>10, <1>13, <2>7
  <2>15. (1 + Newlines(T, p)) - line \in {0, 1}
    BY <1>11, <2>12, <2>13, <2>14, SMTT(30)
  <2>16. p \in found
    BY <2>10, <2>11
  <2> QED BY <2>15, <2>16
<1>14. CASE missed
  <2>1. found = {}
    <3> SUFFICES ASSUME NEW p \in found PROVE FALSE
      OBVIOUS
    <3>1. p \in lo .. hi - 1 /\ At(T, p) \in {"t", "u"}
      OBVIOUS
    <3>2. PICK x : x = p - lo
      OBVIOUS
    <3>3. x \in 0 .. hi - lo - 1 /\ lo + x = p /\ x + 1 \in 1 .. hi - lo
      <4>1. lo \in Nat /\ hi \in Nat
        BY <1>3
      <4> QED BY <3>1, <3>2, <4>1, WithinStretch
    <3>4. At(region, x) = At(T, p)
      BY <1>12, <3>3
    <3>5. x + 1 \in DOMAIN region
      BY <1>12, <3>3
    <3>6. Holds(region, At(T, p))
      BY <3>4, <3>5 DEF Holds, At
    <3> QED BY <1>7, <1>14, <3>1, <3>6
  <2>2. PICK m : m = pos - lo
    OBVIOUS
  <2>3. m \in Nat /\ m \in 0 .. m /\ lo + m = pos
    BY <1>2, <1>3, <2>2
  <2>4. /\ lead \in Seq(Byte) /\ Len(lead) = m
        /\ \A x \in 0 .. m : Newlines(T, lo + x) = n + Newlines(lead, x)
    BY <1>3, <1>6, <1>9, <2>2, LinesBetween
  <2>5. Newlines(T, pos) = n + Newlines(lead, m)
    BY <2>3, <2>4
  <2>6. PICK k, z : k = Newlines(lead, m) /\ z = Less(LineCount(lead), 1)
    OBVIOUS
  <2>7. k \in Nat /\ z \in Nat /\ k - z \in {0, 1}
    BY <2>4, <2>6, LinesBefore
  <2>8. line = off + 1 + z
    BY <1>8, <1>10, <1>14, <2>6
  <2>9. (1 + (n + k)) - line \in 0 .. 2
    BY <1>11, <2>7, <2>8
  <2> QED BY <2>1, <2>5, <2>6, <2>9
<1> QED BY <1>13, <1>14

-----------------------------------------------------------------------------
(* The best chunks first. *)

\* The order of BestFirst is total, and earlier means no fewer hits.
Leads(hits, j, i) == hits[j] > hits[i] \/ (hits[j] = hits[i] /\ j > i)
Leaders(hits, i) == {j \in DOMAIN hits : Leads(hits, j, i)}

Counts(hits, n) == DOMAIN hits = 1 .. n /\ \A i \in 1 .. n : hits[i] \in Nat

\* The chunks are put in their order, none missing: each at the place that
\* says how many lead it.
LEMMA BestFirstIs ==
  ASSUME NEW n \in Nat, NEW hits, Counts(hits, n)
  PROVE  /\ BestFirst(hits) \in Seq(1 .. n) /\ Len(BestFirst(hits)) = n
         /\ \A i \in 1 .. n : \E k \in 1 .. n : BestFirst(hits)[k] = i
         /\ \A k \in 1 .. n : \A m \in k .. n : hits[BestFirst(hits)[m]] <= hits[BestFirst(hits)[k]]
<1> DEFINE S == 1 .. n
           place(i) == Cardinality(Leaders(hits, i)) + 1
           f == [i \in S |-> place(i)]
           r == BestFirst(hits)
<1>0. DOMAIN hits = S /\ \A i \in S : hits[i] \in Nat
  BY DEF Counts
<1>1. IsFiniteSet(S) /\ Cardinality(S) = n
  BY FS_Interval
<1>2. \A i, j \in S : i # j => Leads(hits, i, j) \/ Leads(hits, j, i)
  BY <1>0 DEF Leads
<1>3. \A i \in S : ~Leads(hits, i, i)
  BY <1>0 DEF Leads
<1>4. \A i, j, k \in S : Leads(hits, i, j) /\ Leads(hits, j, k) => Leads(hits, i, k)
  BY <1>0 DEF Leads
<1>5. \A i : Leaders(hits, i) = {j \in S : Leads(hits, j, i)}
  BY <1>0 DEF Leaders
<1>6. ASSUME NEW i \in S
      PROVE  IsFiniteSet(Leaders(hits, i)) /\ Cardinality(Leaders(hits, i)) \in 0 .. n - 1
  <2>1. Leaders(hits, i) \subseteq S /\ Leaders(hits, i) # S
    BY <1>3, <1>5
  <2>2. PICK L : L = Leaders(hits, i)
    OBVIOUS
  <2>3. IsFiniteSet(L) /\ Cardinality(L) \in Nat /\ Cardinality(L) <= n /\ Cardinality(L) # n
    <3>1. L \subseteq S /\ L # S
      BY <2>1, <2>2
    <3> HIDE DEF S
    <3> QED BY <1>1, <3>1, FS_Subset, FS_CardinalityType
  <2>4. Cardinality(L) \in 0 .. n - 1
    BY <2>3
  <2> QED BY <2>2, <2>3, <2>4
<1>7. ASSUME NEW i \in S, NEW j \in S, Leads(hits, i, j)
      PROVE  place(i) < place(j)
  <2>1. Leaders(hits, i) \subseteq Leaders(hits, j)
    BY <1>4, <1>5, <1>7
  <2>2. i \in Leaders(hits, j) /\ i \notin Leaders(hits, i)
    BY <1>3, <1>5, <1>7
  <2>3. PICK A, B : A = Leaders(hits, i) /\ B = Leaders(hits, j)
    OBVIOUS
  <2>4. A \subseteq B /\ A # B /\ IsFiniteSet(B) /\ Cardinality(A) \in Nat /\ Cardinality(B) \in Nat
    BY <1>6, <2>1, <2>2, <2>3
  <2>5. Cardinality(A) <= Cardinality(B) /\ Cardinality(A) # Cardinality(B)
    BY <2>4, FS_Subset
  <2>6. Cardinality(A) + 1 < Cardinality(B) + 1
    BY <2>4, <2>5
  <2> QED BY <2>3, <2>6
<1>8. \A i \in S : place(i) \in 1 .. n
  BY <1>6
<1> HIDE DEF place
<1>9. f \in Injection(S, S)
  <2>1. f \in [S -> S]
    BY <1>8
  <2>2. ASSUME NEW i \in S, NEW j \in S, f[i] = f[j] PROVE i = j
    <3>1. place(i) = place(j) /\ place(i) \in Nat /\ place(j) \in Nat
      BY <1>8, <2>2
    <3>2. ~Leads(hits, i, j) /\ ~Leads(hits, j, i)
      BY <1>7, <3>1
    <3> QED BY <1>2, <3>2
  <2> HIDE DEF f, S
  <2> QED BY <2>1, <2>2 DEF Injection, IsInjective
<1>10. f \in Surjection(S, S)
  <2> HIDE DEF f, S
  <2> QED BY <1>1, <1>9, FS_Injection
<1>11. \A i \in S : f[i] = place(i)
  OBVIOUS
<1>12. \A k \in S : \E i \in S : place(i) = k
  <2> HIDE DEF f
  <2> QED BY <1>10, <1>11 DEF Surjection
<1>13. \A i, j \in S : place(i) = place(j) => i = j
  <2> HIDE DEF f, S
  <2> QED BY <1>9, <1>11 DEF Injection, IsInjective
<1>14. \A i \in S : Cardinality(Leaders(hits, i)) \in Nat /\ place(i) = Cardinality(Leaders(hits, i)) + 1
  BY <1>6 DEF place
<1>15. r = [k \in S |-> CHOOSE i \in S : Cardinality(Leaders(hits, i)) = k - 1]
  BY <1>0 DEF BestFirst, Leaders, Leads
<1>16. ASSUME NEW k \in S
       PROVE  r[k] \in S /\ place(r[k]) = k
  <2>1. PICK i \in S : place(i) = k
    BY <1>12
  <2>2. Cardinality(Leaders(hits, i)) = k - 1
    <3>1. PICK y : y = Cardinality(Leaders(hits, i))
      OBVIOUS
    <3>2. y \in Nat /\ k = y + 1
      BY <1>14, <2>1, <3>1
    <3>3. y = k - 1
      BY <3>2
    <3> QED BY <3>1, <3>3
  <2>3. r[k] \in S /\ Cardinality(Leaders(hits, r[k])) = k - 1
    <3>1. r[k] = CHOOSE x \in S : Cardinality(Leaders(hits, x)) = k - 1
      <4> HIDE DEF r
      <4> QED BY <1>15
    <3> HIDE DEF r, S
    <3> QED BY <2>1, <2>2, <3>1
  <2> HIDE DEF r
  <2> QED BY <1>14, <2>3
<1>17. r \in Seq(S) /\ Len(r) = n
  <2>1. r = [k \in S |-> r[k]]
    <3> HIDE DEF r
    <3> QED BY <1>15
  <2> HIDE DEF r
  <2> QED BY <1>16, <2>1
<1> HIDE DEF r
<1>18. \A i \in S : \E k \in S : r[k] = i
  <2> SUFFICES ASSUME NEW i \in S PROVE \E k \in S : r[k] = i
    OBVIOUS
  <2>1. place(i) \in S
    BY <1>8
  <2>2. r[place(i)] \in S /\ place(r[place(i)]) = place(i)
    BY <1>16, <2>1
  <2>3. r[place(i)] = i
    BY <1>13, <2>2
  <2> QED BY <2>1, <2>3
<1>19. ASSUME NEW k \in S, NEW m \in k .. n
       PROVE  hits[r[m]] <= hits[r[k]]
  <2>1. PICK i, j : i = r[k] /\ j = r[m]
    OBVIOUS
  <2>2. m \in S /\ k \in Nat /\ m \in Nat /\ k <= m
    OBVIOUS
  <2>3. i \in S /\ j \in S /\ place(i) = k /\ place(j) = m
    BY <1>16, <2>1, <2>2
  <2>4. ~Leads(hits, j, i)
    <3>1. Leads(hits, j, i) => m < k
      BY <1>7, <2>3
    <3> QED BY <2>2, <3>1
  <2>5. hits[i] \in Nat /\ hits[j] \in Nat
    BY <1>0, <2>3
  <2> QED BY <2>1, <2>4, <2>5 DEF Leads
<1> QED BY <1>17, <1>18, <1>19 DEF r

-----------------------------------------------------------------------------
(* What of a chunk others cover. *)

\* A chunk as it is shown of a text, without a repeated header.
Plain(T, c) ==
  c.pos \in Nat /\ c.end \in Nat /\ c.head = <<>> /\ c.pos <= c.end /\ c.end <= Len(T)

\* Where what the chunks before c in the text leave of it starts, and where
\* those behind it take over, as uncovered_text has it.
Lead(c, taken) ==
  Most({0} \cup {Least({(o.pos + Length(o)) - c.pos, Length(c)}) :
                   o \in {o \in Range(taken) : o.pos <= c.pos /\ c.pos < o.pos + Length(o)}})
Rest(c, taken) ==
  Least({Length(c)} \cup {o.pos - c.pos : o \in {o \in Range(taken) : c.pos < o.pos /\ o.pos < c.pos + Length(c)}})

\* The length of such a chunk is that of its stretch.
LEMMA LengthIs ==
  ASSUME NEW T, NEW c, Plain(T, c)
  PROVE  Length(c) = c.end - c.pos /\ Length(c) \in Nat /\ c.pos + Length(c) = c.end
         /\ c.pos \in Nat /\ c.end \in Nat /\ c.head = <<>>
<1>1. c.pos \in Nat /\ c.end \in Nat /\ c.head = <<>> /\ c.pos <= c.end
  BY DEF Plain
<1>2. Len(<<>>) = 0
  OBVIOUS
<1>3. Length(c) = 0 + c.end - c.pos
  BY <1>1, <1>2 DEF Length
<1> QED BY <1>1, <1>3

\* What is left starts behind a chunk that covers all before it.
LEMMA LeadIs ==
  ASSUME NEW T, NEW c, Plain(T, c), NEW taken, \A o \in Range(taken) : Plain(T, o)
  PROVE  /\ Lead(c, taken) \in 0 .. Length(c)
         /\ \A o \in Range(taken) : o.pos <= c.pos =>
              o.end <= c.pos + Lead(c, taken) \/ c.end <= c.pos + Lead(c, taken)
         /\ Lead(c, taken) > 0 =>
              \E o \in Range(taken) : o.pos <= c.pos /\ c.pos + Lead(c, taken) <= o.end
<1> DEFINE Before == {o \in Range(taken) : o.pos <= c.pos /\ c.pos < o.pos + Length(o)}
           Til(o) == Least({(o.pos + Length(o)) - c.pos, Length(c)})
           S == {0} \cup {Til(o) : o \in Before}
<1>1. Length(c) \in Nat /\ c.pos + Length(c) = c.end /\ c.pos \in Nat /\ c.end \in Nat
  BY LengthIs
<1>2. \A o \in Range(taken) : /\ o.pos + Length(o) = o.end /\ o.pos \in Nat /\ o.end \in Nat
                              /\ Length(o) \in Nat
  BY LengthIs
<1>3. ASSUME NEW o \in Before
      PROVE  /\ Til(o) \in 0 .. Length(c) /\ c.pos + Til(o) <= o.end
             /\ c.pos + Til(o) = o.end \/ c.pos + Til(o) = c.end
  <2>1. PICK x : x = o.end - c.pos
    OBVIOUS
  <2>2. o.pos + Length(o) = o.end /\ o.end \in Nat /\ c.pos < o.end /\ o.pos \in Nat /\ Length(o) \in Nat
    BY <1>2
  <2>3. x \in Nat /\ c.pos + x = o.end
    BY <1>1, <2>1, <2>2
  <2>4. Til(o) = Least({x, Length(c)})
    <3>1. (o.pos + Length(o)) - c.pos = x
      BY <2>1, <2>2
    <3> QED BY <3>1, Zenon
  <2>5. Least({x, Length(c)}) \in {x, Length(c)}
        /\ Least({x, Length(c)}) <= x /\ Least({x, Length(c)}) <= Length(c)
    <3>1. {x, Length(c)} \in SUBSET Nat /\ {x, Length(c)} # {}
      BY <1>1, <2>3
    <3> QED BY <3>1, LeastIs
  <2>6. PICK y : y = Til(o)
    OBVIOUS
  <2>7. y \in {x, Length(c)} /\ y <= x /\ y <= Length(c)
    BY <2>4, <2>5, <2>6
  <2>8. y \in 0 .. Length(c) /\ c.pos + y <= o.end /\ (c.pos + y = o.end \/ c.pos + y = c.end)
    BY <1>1, <2>2, <2>3, <2>7
  <2> QED BY <2>6, <2>8
<1>4. Lead(c, taken) = Most(S)
  BY DEF Lead
<1>5. Most(S) \in S /\ \A y \in S : y <= Most(S)
  <2>1. S # {} /\ S \in SUBSET Nat /\ \A y \in S : y <= Length(c)
    <3> HIDE DEF Til, Before
    <3> QED BY <1>1, <1>3
  <2> HIDE DEF S
  <2> QED BY <1>1, <2>1, MostIs
<1>6. PICK m : m = Most(S)
  OBVIOUS
<1>7. m \in 0 .. Length(c) /\ (m > 0 => \E o \in Before : m = Til(o))
  <2> HIDE DEF Til, Before
  <2>1. m \in S
    BY <1>5, <1>6
  <2>2. m = 0 \/ \E o \in Before : m = Til(o)
    BY <2>1
  <2>3. \A o \in Before : Til(o) \in 0 .. Length(c)
    BY <1>3
  <2>4. 0 \in 0 .. Length(c)
    BY <1>1
  <2>5. m \in 0 .. Length(c)
    BY <2>2, <2>3, <2>4, Zenon
  <2>6. CASE m = 0
    <3> HIDE DEF S
    <3> QED BY <2>5, <2>6
  <2>7. CASE \E o \in Before : m = Til(o)
    BY <2>5, <2>7, Zenon
  <2> QED BY <2>2, <2>6, <2>7
<1>8. \A o \in Before : Til(o) <= m
  <2> HIDE DEF Til, Before
  <2> QED BY <1>5, <1>6
<1>9. ASSUME NEW o \in Range(taken), o.pos <= c.pos
      PROVE  o.end <= c.pos + m \/ c.end <= c.pos + m
  <2>1. CASE o \in Before
    <3>1. PICK y : y = Til(o)
      OBVIOUS
    <3>2. y \in Nat /\ y <= m /\ (c.pos + y = o.end \/ c.pos + y = c.end)
      BY <1>3, <1>8, <2>1, <3>1
    <3> QED BY <1>1, <1>7, <3>2
  <2>2. CASE o \notin Before
    <3>1. o.end <= c.pos
      BY <1>1, <1>2, <1>9, <2>2
    <3> QED BY <1>1, <1>2, <1>7, <3>1
  <2> QED BY <2>1, <2>2
<1>10. ASSUME m > 0
       PROVE  \E o \in Range(taken) : o.pos <= c.pos /\ c.pos + m <= o.end
  <2>1. PICK o \in Before : m = Til(o)
    BY <1>7, <1>10
  <2>2. c.pos + m <= o.end
    BY <1>3, <2>1
  <2> QED BY <2>1, <2>2
<1> HIDE DEF S
<1> QED BY <1>4, <1>6, <1>7, <1>9, <1>10

\* And ends before the first that starts in the chunk.
LEMMA RestIs ==
  ASSUME NEW T, NEW c, Plain(T, c), NEW taken, \A o \in Range(taken) : Plain(T, o)
  PROVE  /\ Rest(c, taken) \in 0 .. Length(c)
         /\ \A o \in Range(taken) : c.pos < o.pos /\ o.pos < c.end => c.pos + Rest(c, taken) <= o.pos
         /\ Rest(c, taken) < Length(c) =>
              \E o \in Range(taken) : c.pos < o.pos /\ o.pos = c.pos + Rest(c, taken)
<1> DEFINE Behind == {o \in Range(taken) : c.pos < o.pos /\ o.pos < c.pos + Length(c)}
           S == {Length(c)} \cup {o.pos - c.pos : o \in Behind}
<1>1. Length(c) \in Nat /\ c.pos + Length(c) = c.end /\ c.pos \in Nat /\ c.end \in Nat
  BY LengthIs
<1>2. \A o \in Range(taken) : o.pos \in Nat
  BY LengthIs
<1>3. Rest(c, taken) = Least(S)
  BY DEF Rest
<1>4. Least(S) \in S /\ \A y \in S : Least(S) <= y
  <2>1. S # {} /\ S \in SUBSET Nat
    BY <1>1, <1>2
  <2> HIDE DEF S
  <2> QED BY <2>1, LeastIs
<1>5. PICK m : m = Least(S)
  OBVIOUS
<1>6. m = Length(c) \/ \E o \in Behind : m = o.pos - c.pos
  <2> HIDE DEF Behind
  <2> QED BY <1>4, <1>5
<1>7. m <= Length(c) /\ \A o \in Behind : m <= o.pos - c.pos
  <2> HIDE DEF Behind
  <2> QED BY <1>4, <1>5
<1>8. m \in 0 .. Length(c)
  BY <1>1, <1>2, <1>6, <1>7
<1>9. ASSUME NEW o \in Range(taken), c.pos < o.pos, o.pos < c.end
      PROVE  c.pos + m <= o.pos
  BY <1>1, <1>2, <1>7, <1>8, <1>9
<1>10. ASSUME m < Length(c)
       PROVE  \E o \in Range(taken) : c.pos < o.pos /\ o.pos = c.pos + m
  <2>1. PICK o \in Behind : m = o.pos - c.pos
    BY <1>1, <1>6, <1>8, <1>10
  <2> QED BY <1>1, <1>2, <1>8, <2>1
<1> HIDE DEF S
<1> QED BY <1>3, <1>5, <1>8, <1>9, <1>10

\* A chunk without a repeated header shows its stretch of the text.
LEMMA ShownIs ==
  ASSUME NEW T \in Seq(Byte), NEW c, Plain(T, c)
  PROVE  /\ Shown(T, c) \in Seq(Byte) /\ Len(Shown(T, c)) = Length(c)
         /\ \A x \in 0 .. Length(c) - 1 : At(Shown(T, c), x) = At(T, c.pos + x)
<1>1. PICK from, to, n : from = c.pos /\ to = c.end /\ n = Length(c)
  OBVIOUS
<1>2. from \in Nat /\ to \in Nat /\ from <= to /\ to <= Len(T) /\ n = to - from /\ c.head = <<>>
      /\ Len(T) \in Nat
  BY <1>1, LengthIs DEF Plain
<1>3. from \in 0 .. Len(T) /\ to \in from .. Len(T)
  BY <1>2
<1>4. PICK S : S = Slice(T, from, to)
  OBVIOUS
<1>5. S \in Seq(Byte) /\ Len(S) = n /\ \A x \in 0 .. n - 1 : At(S, x) = At(T, from + x)
  BY <1>2, <1>3, <1>4, SliceIs
<1>6. <<>> \o S = S
  BY <1>5
<1>7. Shown(T, c) = S
  BY <1>1, <1>2, <1>4, <1>6 DEF Shown
<1> QED BY <1>1, <1>5, <1>7

\* A word is in what others leave of a chunk when it is in the chunk, behind
\* where that starts and before where it ends.
LEMMA UncoveredIs ==
  ASSUME NEW T \in Seq(Byte), NEW c, Plain(T, c), NEW taken, \A o \in Range(taken) : Plain(T, o), NEW w
  PROVE  Holds(uncovered_text(T, c, taken), w)
           <=> \E p \in Bytewise(c) :
                 At(T, p) = w /\ c.pos + Lead(c, taken) <= p /\ p < c.pos + Rest(c, taken)
<1>1. PICK from, rest, to : from = Lead(c, taken) /\ rest = Rest(c, taken)
                           /\ to = IF rest < from THEN from ELSE rest
  OBVIOUS
<1>2. PICK n, pos : n = Length(c) /\ pos = c.pos
  OBVIOUS
<1>3. from \in 0 .. n /\ rest \in 0 .. n
  <2>1. from \in 0 .. n
    BY <1>1, <1>2, LeadIs
  <2>2. rest \in 0 .. n
    BY <1>1, <1>2, RestIs
  <2> QED BY <2>1, <2>2
<1>4. n \in Nat /\ pos \in Nat /\ c.end = pos + n
  BY <1>2, LengthIs
<1>5. PICK S : S = Shown(T, c)
  OBVIOUS
<1>6. S \in Seq(Byte) /\ Len(S) = n /\ \A x \in 0 .. n - 1 : At(S, x) = At(T, pos + x)
  BY <1>2, <1>5, ShownIs
<1>7. from \in 0 .. Len(S) /\ to \in from .. Len(S)
  BY <1>1, <1>3, <1>4, <1>6
<1>8. PICK U : U = Slice(S, from, to)
  OBVIOUS
<1>9. U \in Seq(Byte) /\ Len(U) = to - from /\ \A x \in 0 .. to - from - 1 : At(U, x) = At(S, from + x)
  BY <1>6, <1>7, <1>8, SliceIs
<1>10. uncovered_text(T, c, taken) = U
  <2>1. uncovered_text(T, c, taken)
          = Slice(Shown(T, c), Lead(c, taken),
                  IF Rest(c, taken) < Lead(c, taken) THEN Lead(c, taken) ELSE Rest(c, taken))
    BY DEF uncovered_text, Lead, Rest
  <2> QED BY <1>1, <1>5, <1>8, <2>1
<1>11. ASSUME Holds(U, w)
       PROVE  \E p \in Bytewise(c) : At(T, p) = w /\ pos + from <= p /\ p < pos + rest
  <2>1. PICK i \in DOMAIN U : U[i] = w
    BY <1>11 DEF Holds
  <2>2. PICK x : x = i - 1
    OBVIOUS
  <2>3. i \in 1 .. to - from
    BY <1>9, <2>1
  <2>4. x \in Nat /\ x < to - from /\ x \in 0 .. to - from - 1 /\ x + 1 = i
    BY <1>3, <1>7, <2>2, <2>3
  <2>5. At(U, x) = w
    BY <2>1, <2>4 DEF At
  <2>6. from + x \in 0 .. n - 1 /\ pos + (from + x) \in pos .. pos + n - 1
    BY <1>4, <1>6, <1>7, <2>4
  <2>7. At(T, pos + (from + x)) = w
    BY <1>6, <1>9, <2>4, <2>5, <2>6
  <2>8. PICK p : p = pos + (from + x)
    OBVIOUS
  <2>9. pos + from <= p /\ p < pos + rest
    <3>1. from \in Nat /\ rest \in Nat /\ to \in Nat
      BY <1>1, <1>3, <1>4
    <3>2. to = rest
      BY <1>1, <2>4, <3>1
    <3> QED BY <1>4, <2>4, <2>8, <3>1, <3>2
  <2>10. p \in Bytewise(c)
    BY <1>2, <1>4, <2>6, <2>8 DEF Bytewise
  <2> QED BY <2>7, <2>8, <2>9, <2>10
<1>12. ASSUME NEW p \in Bytewise(c), At(T, p) = w, pos + from <= p, p < pos + rest
       PROVE  Holds(U, w)
  <2>1. PICK x : x = p - (pos + from)
    OBVIOUS
  <2>2. p \in pos .. pos + n - 1
    BY <1>2, <1>4 DEF Bytewise
  <2>3. rest > from /\ to = rest
    <3>1. rest > from
      BY <1>3, <1>4, <1>12, <2>2
    <3> QED BY <1>1, <1>3, <3>1
  <2>4. x \in Nat /\ x < to - from /\ pos + (from + x) = p /\ x \in 0 .. to - from - 1
    BY <1>3, <1>4, <1>12, <2>1, <2>2, <2>3
  <2>5. from + x \in 0 .. n - 1 /\ x + 1 \in 1 .. to - from
    BY <1>3, <1>4, <2>3, <2>4
  <2>6. At(U, x) = w
    BY <1>6, <1>9, <1>12, <2>4, <2>5
  <2>7. x + 1 \in DOMAIN U
    BY <1>9, <2>5
  <2> QED BY <2>6, <2>7 DEF Holds, At
<1> QED BY <1>1, <1>2, <1>10, <1>11, <1>12

\* A chunk that is taken after others shows a word none of them shows.
LEMMA NewWord ==
  ASSUME text \in Seq(Byte), NEW c, Plain(text, c), NEW taken, \A o \in Range(taken) : Plain(text, o),
         taken # <<>>, IsSection(text, c, taken)
  PROVE  \E p \in WordsShown(c) : \A o \in Range(taken) : p \notin Bytewise(o)
<1>1. PICK w \in terms : Holds(uncovered_text(text, c, taken), w)
  BY DEF IsSection
<1>2. PICK p \in Bytewise(c) :
        At(text, p) = w /\ c.pos + Lead(c, taken) <= p /\ p < c.pos + Rest(c, taken)
  BY <1>1, UncoveredIs
<1>3. p \in WordsShown(c)
  BY <1>1, <1>2 DEF WordsShown
<1>4. c.pos \in Nat /\ c.end \in Nat /\ Lead(c, taken) \in Nat /\ Rest(c, taken) \in Nat
      /\ c.pos + Length(c) = c.end /\ Length(c) \in Nat
  <2>1. Lead(c, taken) \in 0 .. Length(c)
    BY LeadIs
  <2>2. Rest(c, taken) \in 0 .. Length(c)
    BY RestIs
  <2> QED BY <2>1, <2>2, LengthIs
<1>5. p \in Nat /\ p < c.end
  BY <1>4 DEF Bytewise
<1>6. ASSUME NEW o \in Range(taken), p \in Bytewise(o) PROVE FALSE
  <2>1. o.pos \in Nat /\ o.end \in Nat
    BY LengthIs
  <2>2. o.pos <= p /\ p < o.end
    BY <1>5, <1>6, <2>1 DEF Bytewise
  <2>3. CASE o.pos <= c.pos
    <3>1. o.end <= c.pos + Lead(c, taken) \/ c.end <= c.pos + Lead(c, taken)
      BY <2>3, LeadIs
    <3> QED BY <1>2, <1>4, <1>5, <2>1, <2>2, <3>1
  <2>4. CASE c.pos < o.pos
    <3>1. o.pos < c.end
      BY <1>4, <1>5, <2>1, <2>2
    <3>2. c.pos + Rest(c, taken) <= o.pos
      BY <2>4, <3>1, RestIs
    <3> QED BY <1>2, <1>4, <1>5, <2>1, <2>2, <3>2
  <2> QED BY <1>4, <2>1, <2>3, <2>4
<1> QED BY <1>3, <1>6

\* A chunk that is not taken shows no word that they do not, where a chunk
\* that starts later ends no earlier.
LEMMA OldWords ==
  ASSUME text \in Seq(Byte), NEW c, Plain(text, c), NEW taken, \A o \in Range(taken) : Plain(text, o),
         ~IsSection(text, c, taken),
         \A o \in Range(taken) : c.pos < o.pos => c.end <= o.end,
         NEW p \in WordsShown(c)
  PROVE  \E o \in Range(taken) : p \in Bytewise(o)
<1>1. p \in Bytewise(c) /\ At(text, p) \in terms
  BY DEF WordsShown
<1>2. ~(c.pos + Lead(c, taken) <= p /\ p < c.pos + Rest(c, taken))
  <2>1. ~Holds(uncovered_text(text, c, taken), At(text, p))
    BY <1>1 DEF IsSection
  <2> QED BY <1>1, <2>1, UncoveredIs
<1>3. PICK lead, rest, n : lead = Lead(c, taken) /\ rest = Rest(c, taken) /\ n = Length(c)
  OBVIOUS
<1>4. c.pos \in Nat /\ c.end \in Nat /\ lead \in 0 .. n /\ rest \in 0 .. n /\ c.pos + n = c.end /\ n \in Nat
  <2>1. lead \in 0 .. n
    BY <1>3, LeadIs
  <2>2. rest \in 0 .. n
    BY <1>3, RestIs
  <2> QED BY <1>3, <2>1, <2>2, LengthIs
<1>5. p \in Nat /\ c.pos <= p /\ p < c.end
  BY <1>1, <1>4 DEF Bytewise
<1>6. CASE p < c.pos + lead
  <2>1. lead > 0
    BY <1>4, <1>5, <1>6
  <2>2. PICK o \in Range(taken) : o.pos <= c.pos /\ c.pos + lead <= o.end
    BY <1>3, <2>1, LeadIs
  <2>3. o.pos \in Nat /\ o.end \in Nat
    BY LengthIs
  <2>4. p \in o.pos .. o.end - 1
    BY <1>4, <1>5, <1>6, <2>2, <2>3
  <2> QED BY <2>4 DEF Bytewise
<1>7. CASE c.pos + rest <= p
  <2>1. rest < n
    BY <1>4, <1>5, <1>7
  <2>2. PICK o \in Range(taken) : c.pos < o.pos /\ o.pos = c.pos + rest
    BY <1>3, <2>1, RestIs
  <2>3. o.pos \in Nat /\ o.end \in Nat /\ c.end <= o.end
    BY <2>2, LengthIs
  <2>4. p \in o.pos .. o.end - 1
    BY <1>4, <1>5, <1>7, <2>2, <2>3
  <2> QED BY <2>4 DEF Bytewise
<1>8. p < c.pos + lead \/ c.pos + rest <= p
  BY <1>2, <1>3, <1>4, <1>5
<1> QED BY <1>6, <1>7, <1>8

\* A chunk that shows no word of the query has none.
LEMMA NoHit ==
  ASSUME text \in Seq(Byte), NEW c, Plain(text, c), NEW words, words = {"t", "u"}, Hits(words, text, c) = 0
  PROVE  \A p \in Bytewise(c) : At(text, p) \notin words
<1> DEFINE Found == {w \in words : Holds(Shown(text, c), w)}
<1>1. Found = {}
  <2>1. IsFiniteSet(words)
    BY WordsAreTwo
  <2>2. IsFiniteSet(Found)
    BY <2>1, FS_Subset
  <2>3. Cardinality(Found) = 0
    BY DEF Hits
  <2> QED BY <2>2, <2>3, FS_EmptySet
<1>2. ASSUME NEW p \in Bytewise(c), At(text, p) \in words PROVE FALSE
  <2>1. PICK n, pos : n = Length(c) /\ pos = c.pos
    OBVIOUS
  <2>2. n \in Nat /\ pos \in Nat /\ c.end = pos + n
    BY <2>1, LengthIs
  <2>3. PICK S : S = Shown(text, c)
    OBVIOUS
  <2>4. S \in Seq(Byte) /\ Len(S) = n /\ \A x \in 0 .. n - 1 : At(S, x) = At(text, pos + x)
    BY <2>1, <2>3, ShownIs
  <2>5. p \in pos .. pos + n - 1
    BY <2>1, <2>2 DEF Bytewise
  <2>6. PICK x : x = p - pos
    OBVIOUS
  <2>7. x \in 0 .. n - 1 /\ pos + x = p /\ x + 1 \in 1 .. n
    BY <2>2, <2>5, <2>6
  <2>8. At(S, x) = At(text, p) /\ x + 1 \in DOMAIN S
    BY <2>4, <2>7
  <2>9. Holds(S, At(text, p))
    BY <2>8 DEF Holds, At
  <2> QED BY <1>1, <1>2, <2>3, <2>9
<1> QED BY <1>2

\* How many words of the query a chunk shows is a number.
LEMMA HitsAre ==
  ASSUME NEW T, NEW c, NEW words, words = {"t", "u"}
  PROVE  Hits(words, T, c) \in Nat
<1> DEFINE Found == {w \in words : Holds(Shown(T, c), w)}
<1>1. IsFiniteSet(words) /\ Found \subseteq words
  BY WordsAreTwo
<1>2. IsFiniteSet(Found)
  BY <1>1, FS_Subset
<1>3. Cardinality(Found) \in Nat
  BY <1>2, FS_CardinalityType
<1> QED BY <1>3 DEF Hits

-----------------------------------------------------------------------------
(* Chunks without repeated headers. *)

\* Without repeated headers, a chunk that starts later ends no earlier.
LEMMA CarriedAscend ==
  ASSUME Layout(lines, text, at), NEW points, Breaks(points, text), NEW ch, Cuts(text, points, ch),
         Len(ch) > 0, ch[Len(ch)].end = Len(text),
         NEW dh, DOMAIN dh = 1 .. Len(ch),
         \/ \A i \in 1 .. Len(ch) : Carried(ch[i], dh[i])
         \/ \A i \in 1 .. Len(ch) : dh[i] = ch[i],
         \A i \in 1 .. Len(ch) : dh[i].head = <<>>,
         NEW i \in 1 .. Len(ch), NEW j \in 1 .. Len(ch), dh[i].pos < dh[j].pos
  PROVE  dh[i].end <= dh[j].end
<1>1. Len(ch) \in Nat /\ text \in Seq(Byte) /\ Len(text) \in Nat
  BY DEF Cuts, Layout
<1>2. PICK c, d, x, y : c = ch[i] /\ d = ch[j] /\ x = dh[i] /\ y = dh[j]
  OBVIOUS
<1>3. IsCut(text, c) /\ IsCut(text, d) /\ x.head = <<>> /\ y.head = <<>> /\ x.pos < y.pos
  BY <1>2 DEF Cuts
<1>4. c.pos \in Nat /\ c.end \in Nat /\ d.pos \in Nat /\ d.end \in Nat
  BY <1>3 DEF IsCut, ChunkSet
<1>5. ASSUME NEW t \in AllTables PROVE Slice(text, t.from, t.data) # <<>>
  <2>1. t.from \in 0 .. Len(text) /\ t.data \in 0 .. Len(text) /\ t.from < t.data
    BY TableOffsets
  <2>2. PICK u, v : u = t.from /\ v = t.data
    OBVIOUS
  <2>3. u \in 0 .. Len(text) /\ v \in u .. Len(text) /\ v - u # 0
    BY <1>1, <2>1, <2>2
  <2>4. Len(Slice(text, u, v)) # 0
    BY <1>1, <2>3, SliceIs
  <2> QED BY <2>2, <2>4
<1>6. x.end = c.end /\ y.end = d.end
      /\ (x = c \/ \E t \in AllTables : t.from < c.pos /\ c.pos < t.data /\ x.pos = t.from)
  <2>1. CASE \A k \in 1 .. Len(ch) : dh[k] = ch[k]
    BY <1>2, <2>1
  <2>2. CASE \A k \in 1 .. Len(ch) : Carried(ch[k], dh[k])
    <3>1. Carried(c, x) /\ Carried(d, y)
      BY <1>2, <2>2
    <3>2. x.end = c.end /\ y.end = d.end
      BY <3>1 DEF Carried
    <3>3. x = c \/ \E t \in AllTables : t.from < c.pos /\ c.pos < t.data /\ x.pos = t.from
      BY <1>3, <1>5, <3>1 DEF Carried
    <3> QED BY <3>2, <3>3
  <2> QED BY <2>1, <2>2
<1>7. y = d \/ (Carried(d, y) /\ \E t \in AllTables : t.from < d.pos /\ d.pos < t.data /\ y.pos = t.from)
  <2>1. CASE \A k \in 1 .. Len(ch) : dh[k] = ch[k]
    BY <1>2, <2>1
  <2>2. CASE \A k \in 1 .. Len(ch) : Carried(ch[k], dh[k])
    <3>1. Carried(d, y)
      BY <1>2, <2>2
    <3>2. y = d \/ \E t \in AllTables : t.from < d.pos /\ d.pos < t.data /\ y.pos = t.from
      BY <1>3, <1>5, <3>1 DEF Carried
    <3> QED BY <3>1, <3>2
  <2> QED BY <2>1, <2>2
<1>8. y.pos \in Nat /\ y.pos <= d.pos
  <2>1. CASE y = d
    BY <1>4, <2>1
  <2>2. ASSUME NEW t \in AllTables, t.from < d.pos, y.pos = t.from PROVE y.pos \in Nat /\ y.pos <= d.pos
    <3>1. t.from \in 0 .. Len(text)
      BY TableOffsets
    <3> QED BY <1>1, <1>4, <2>2, <3>1
  <2> QED BY <1>7, <2>1, <2>2
<1>9. c.pos <= d.pos
  <2> SUFFICES ASSUME d.pos < c.pos PROVE FALSE
    BY <1>4
  <2>1. x # c
    BY <1>3, <1>4, <1>8
  <2>2. PICK t \in AllTables : t.from < c.pos /\ c.pos < t.data /\ x.pos = t.from
    BY <1>6, <2>1
  <2>3. t.from \in Nat /\ t.data \in Nat /\ t.to \in Nat /\ t.data <= t.to
    <3>1. t.from \in 0 .. Len(text) /\ t.data \in 0 .. Len(text) /\ t.to \in 0 .. Len(text) /\ t.data <= t.to
      BY TableOffsets
    <3> QED BY <1>1, <3>1
  <2>4. t.from < d.pos /\ d.pos < t.data /\ d.pos < t.to
    BY <1>3, <1>4, <1>8, <2>2, <2>3, SMTT(30)
  <2>5. ASSUME NEW u \in AllTables, u.from <= d.pos, d.pos < u.to PROVE u = t
    BY <1>4, <2>3, <2>4, <2>5, SameTable
  <2>6. Carried(d, y)
    <3>1. \/ \A k \in 1 .. Len(ch) : dh[k] = ch[k]
          \/ \A k \in 1 .. Len(ch) : Carried(ch[k], dh[k])
      OBVIOUS
    <3>2. ~\A k \in 1 .. Len(ch) : dh[k] = ch[k]
      BY <1>2, <2>1
    <3> QED BY <1>2, <3>1, <3>2
  <2>7. ASSUME NEW u \in AllTables, u.from < d.pos, d.pos < u.data, y.pos = u.from PROVE FALSE
    <3>1. u.from \in 0 .. Len(text) /\ u.data \in 0 .. Len(text) /\ u.to \in 0 .. Len(text) /\ u.data <= u.to
      BY TableOffsets
    <3>2. u.from <= d.pos /\ d.pos < u.to
      BY <1>1, <1>4, <2>7, <3>1
    <3>3. u = t
      BY <2>5, <3>2
    <3> QED BY <1>3, <2>2, <2>3, <2>7, <3>3
  <2>8. ASSUME NEW u \in AllTables, u.data <= d.pos, d.pos < u.to PROVE FALSE
    <3>1. u.from \in 0 .. Len(text) /\ u.data \in 0 .. Len(text) /\ u.from < u.data
      BY TableOffsets
    <3>2. u.from <= d.pos
      BY <1>1, <1>4, <2>8, <3>1
    <3>3. u = t
      BY <2>5, <2>8, <3>2
    <3> QED BY <1>4, <2>3, <2>4, <2>8, <3>3
  <2> QED BY <2>4, <2>6, <2>7, <2>8 DEF Carried
<1>10. i <= j
  <2> SUFFICES ASSUME j < i PROVE FALSE
    BY <1>1
  <2>1. i \in j + 1 .. Len(ch)
    BY <1>1
  <2>2. ch[j].pos < ch[i].pos
    BY <2>1, ChunksAscend
  <2> QED BY <1>2, <1>4, <1>9, <2>2
<1>11. j \in i .. Len(ch)
  BY <1>1, <1>10
<1>12. ch[i].end <= ch[j].end
  BY <1>11, EndsAscend
<1> QED BY <1>2, <1>6, <1>12

-----------------------------------------------------------------------------
(* Sections and places. *)

\* The bytes of a chunk that are words of the query.
Words(T, ws, c) == {p \in Bytewise(c) : At(T, p) \in ws}

\* Chunks without repeated headers, of which one that starts later ends no
\* earlier.
Evenly(T, ch) ==
  /\ \A c \in Range(ch) : Plain(T, c)
  /\ \A c \in Range(ch) : \A o \in Range(ch) : c.pos < o.pos => c.end <= o.end

\* The chunks still to be considered, those with more hits first.
Ranked(T, ws, ch, s) ==
  /\ s \in Seq(DOMAIN ch)
  /\ \A k \in 1 .. Len(s) : \A m \in k .. Len(s) : Hits(ws, T, ch[s[m]]) <= Hits(ws, T, ch[s[k]])

\* Each section after the first shows a word of its own.
Fresh(T, ws, pk) ==
  \A k \in 2 .. Len(pk) : \E p \in Words(T, ws, pk[k]) : \A i \in 1 .. k - 1 : p \notin Bytewise(pk[i])

\* A chunk that is no longer considered shows no word that the sections do not.
Left(T, ws, ch, s, pk) ==
  \A i \in DOMAIN ch :
    \/ \E k \in 1 .. Len(s) : s[k] = i
    \/ \A p \in Words(T, ws, ch[i]) : \E o \in Range(pk) : p \in Bytewise(o)

SectionInv ==
  /\ pc \in {"scan", "cut", "carry", "score"} => picked = <<>>
  /\ pc = "carry" => chunks[Len(chunks)].pos + ChunkSize >= Len(text)
  /\ pc \in {"score", "pick", "done"} =>
       /\ \E n \in Nat : DOMAIN chunks = 1 .. n
       /\ NoHeaders => Evenly(text, chunks)
  /\ pc = "pick" =>
       /\ terms = {"t", "u"}
       /\ Ranked(text, terms, chunks, todo)
       /\ picked \in Seq(Range(chunks))
       /\ NoHeaders => Fresh(text, terms, picked) /\ Left(text, terms, chunks, todo, picked)

\* Only that places tell chunks apart needs the sizes to be roomy.
Placed ==
  /\ Roomy => PlacesTellChunksApart
  /\ SectionsShowEveryHitOnce /\ SnippetLineIsNear /\ PrefixIsEnough

PlaceInv == ChunkInv /\ SectionInv /\ Placed

\* Before the sections are chosen there are none.
LEMMA NoSections ==
  ASSUME picked = <<>>, pc # "done"
  PROVE  SectionsShowEveryHitOnce
<1>1. Len(picked) = 0 /\ 2 .. 0 = {}
  OBVIOUS
<1> QED BY <1>1 DEF SectionsShowEveryHitOnce

\* Most is said of the chunks where they are scored.
LEMMA EarlyPlaces ==
  ASSUME pc # "score", SectionsShowEveryHitOnce
  PROVE  Placed
BY DEF Placed, PlacesTellChunksApart, SnippetLineIsNear, PrefixIsEnough

\* Sections that each show a word of their own differ in words.
LEMMA FreshDiffer ==
  ASSUME NEW T, NEW ws, NEW pk, Fresh(T, ws, pk)
  PROVE  \A k \in 2 .. Len(pk) :
           ~(Words(T, ws, pk[k]) \subseteq UNION {Words(T, ws, pk[i]) : i \in 1 .. k - 1})
<1> SUFFICES ASSUME NEW k \in 2 .. Len(pk),
                    Words(T, ws, pk[k]) \subseteq UNION {Words(T, ws, pk[i]) : i \in 1 .. k - 1}
             PROVE  FALSE
  OBVIOUS
<1>1. PICK p \in Words(T, ws, pk[k]) : \A i \in 1 .. k - 1 : p \notin Bytewise(pk[i])
  BY DEF Fresh
<1>2. PICK i \in 1 .. k - 1 : p \in Words(T, ws, pk[i])
  BY <1>1
<1> QED BY <1>1, <1>2 DEF Words

\* The invariant holds at first.
LEMMA PlaceStart == ChunkInit \/ NoChunking => PlaceInv
<1> SUFFICES ASSUME ChunkInit \/ NoChunking PROVE PlaceInv
  OBVIOUS
<1>1. ChunkInv
  BY ChunkStart
<1>2. chunks = <<>> /\ picked = <<>> /\ terms = {} /\ pc \in {"scan", "done"}
  BY DEF ChunkInit, NoChunking
<1>3. DOMAIN chunks = 1 .. 0 /\ Range(chunks) = {} /\ 0 \in Nat /\ Len(picked) = 0 /\ 2 .. 0 = {}
  BY <1>2 DEF Range
<1>4. SectionInv
  <2>1. Evenly(text, chunks)
    BY <1>3 DEF Evenly
  <2> QED BY <1>2, <1>3, <2>1 DEF SectionInv
<1>5. SectionsShowEveryHitOnce
  BY <1>2, <1>3 DEF SectionsShowEveryHitOnce
<1>6. Placed
  BY <1>2, <1>5, EarlyPlaces
<1> QED BY <1>1, <1>4, <1>6 DEF PlaceInv

\* Scanning and cutting leave the sections alone.
LEMMA EarlyStep ==
  ASSUME ChunkInv, SectionInv, chunk_document_for_path \/ Cut
  PROVE  SectionInv' /\ Placed'
<1>1. /\ pc \in {"scan", "cut"} /\ pc' \in {"cut", "carry"} /\ UNCHANGED <<text, picked>>
  BY DEF chunk_document_for_path, Cut
<1>2. picked = <<>> /\ picked' = <<>>
  BY <1>1 DEF SectionInv
<1>3. pc' = "carry" => chunks'[Len(chunks')].pos + ChunkSize >= Len(text')
  <2> SUFFICES ASSUME pc' = "carry" PROVE chunks'[Len(chunks')].pos + ChunkSize >= Len(text)
    BY <1>1
  <2>1. Cut
    BY DEF chunk_document_for_path
  <2>2. PICK e : IdealEnd = Len(text) /\ chunks' = Append(chunks, Chunk(start, e))
    BY <2>1 DEF Cut
  <2>3. start \in Nat /\ ChunkSize \in Nat /\ Len(text) \in Nat
    BY SizesAre DEF ChunkInv, ChunksAreWhole, ChunkTypes, Layout
  <2>4. start + ChunkSize >= Len(text)
    BY <2>2, <2>3 DEF IdealEnd, Capped
  <2>5. PICK c : c = Chunk(start, e)
    OBVIOUS
  <2>6. chunks \in Seq(ChunkSet)
    BY <1>1 DEF ChunkInv, Cuts
  <2>7. PICK new : new = Append(chunks, c)
    OBVIOUS
  <2>8. Len(new) = Len(chunks) + 1 /\ new[Len(chunks) + 1] = c
    BY <2>6, <2>7
  <2>9. chunks'[Len(chunks')] = c
    BY <2>2, <2>5, <2>7, <2>8
  <2>10. c.pos = start
    BY <2>5 DEF Chunk
  <2> QED BY <2>4, <2>9, <2>10
<1>4. SectionInv'
  BY <1>1, <1>2, <1>3 DEF SectionInv
<1>5. Placed'
  <2>1. Len(picked') = 0 /\ 2 .. 0 = {}
    BY <1>2
  <2>2. SectionsShowEveryHitOnce'
    BY <1>1, <2>1 DEF SectionsShowEveryHitOnce
  <2> QED BY <1>1, <2>2 DEF Placed, PlacesTellChunksApart, SnippetLineIsNear, PrefixIsEnough
<1> QED BY <1>4, <1>5

\* What is said of the chunks where they are scored.
LEMMA SnippetsNear ==
  ASSUME text \in Seq(Byte), NEW c, c.pos \in Nat, c.end \in Nat, c.pos <= c.end, c.end <= Len(text),
         c.pos # 0
  PROVE  LET line == extract_snippet(text, c.pos, c.end - c.pos)
             lo == snap_backward(text, Less(c.pos, Margin))
             hi == snap_forward(text, Capped(c.end + Margin, text))
             found == {p \in lo .. hi - 1 : At(text, p) \in {"t", "u"}}
         IN \/ \E p \in found : LineOf(p) - line \in {0, 1}
            \/ found = {} /\ LineOf(c.pos) - line \in 0 .. 2
<1> DEFINE line == extract_snippet(text, c.pos, c.end - c.pos)
           lo == snap_backward(text, Less(c.pos, Margin))
           hi == snap_forward(text, Capped(c.end + Margin, text))
           found == {p \in lo .. hi - 1 : At(text, p) \in {"t", "u"}}
<1>1. PICK pos, end : pos = c.pos /\ end = c.end
  OBVIOUS
<1>2. pos \in 1 .. Len(text) /\ end \in pos .. Len(text)
  BY <1>1
<1>3. PICK a, b, f, l : a = lo /\ b = hi /\ f = found /\ l = line
  OBVIOUS
<1>4. /\ a = snap_backward(text, Less(pos, Margin)) /\ b = snap_forward(text, Capped(end + Margin, text))
      /\ l = extract_snippet(text, pos, end - pos)
  BY <1>1, <1>3
<1>5. f = {p \in a .. b - 1 : At(text, p) \in {"t", "u"}}
  BY <1>3
<1>6. \/ \E p \in f : (1 + Newlines(text, p)) - l \in {0, 1}
      \/ f = {} /\ (1 + Newlines(text, pos)) - l \in 0 .. 2
  BY <1>2, <1>4, <1>5, SnippetIs, SMTT(30)
<1> HIDE DEF line, lo, hi, found
<1>7. \/ \E p \in found : LineOf(p) - line \in {0, 1}
      \/ found = {} /\ LineOf(c.pos) - line \in 0 .. 2
  BY <1>1, <1>3, <1>6 DEF LineOf
<1> QED BY <1>7 DEF line, lo, hi, found

\* The first chunk is never moved.
LEMMA FirstStays ==
  ASSUME Layout(lines, text, at), NEW c, c.pos = 0, NEW d, Carried(c, d)
  PROVE  d = c
<1>1. \A t \in AllTables : t.from \in Nat /\ t.data \in Nat /\ t.from < t.data
  <2> SUFFICES ASSUME NEW t \in AllTables PROVE t.from \in Nat /\ t.data \in Nat /\ t.from < t.data
    OBVIOUS
  <2>1. t.from \in 0 .. Len(text) /\ t.data \in 0 .. Len(text) /\ t.from < t.data
    BY TableOffsets
  <2> QED BY <2>1
<1>2. \A t \in AllTables : ~(t.from < c.pos) /\ ~(t.data <= c.pos)
  BY <1>1
<1> QED BY <1>2 DEF Carried

\* The opening is the first chunk, unless a line ends close to the end of its
\* window.
LEMMA OpeningShown ==
  ASSUME Layout(lines, text, at), NEW ch, Cuts(text, scan_break_points(text, Fences), ch),
         Len(ch) > 0, ch[Len(ch)].end = Len(text), ch[Len(ch)].pos + ChunkSize >= Len(text)
  PROVE  first_chunk(text) = Shown(text, ch[1]) \/ EndsClose(text)
<1>1. text \in Seq(Byte) /\ Len(text) \in Nat /\ Len(ch) \in Nat /\ ChunkSize \in Nat
  BY SizesAre DEF Layout, Cuts
<1>2. PICK c : c = ch[1]
  OBVIOUS
<1>3. IsCut(text, c) /\ c.pos = 0 /\ c.head = <<>> /\ c.end \in Nat /\ c.end <= Len(text)
  BY <1>1, <1>2 DEF Cuts, IsCut, ChunkSet
<1>4. Shown(text, c) = Slice(text, 0, c.end)
  <2>1. PICK S : S = Slice(text, 0, c.end)
    OBVIOUS
  <2>2. S \in Seq(Byte)
    <3>1. PICK e : e = c.end
      OBVIOUS
    <3>2. 0 \in 0 .. Len(text) /\ e \in 0 .. Len(text)
      BY <1>1, <1>3, <3>1
    <3> QED BY <1>1, <2>1, <3>1, <3>2, SliceIs
  <2>3. <<>> \o S = S
    BY <2>2
  <2> QED BY <1>3, <2>1, <2>3 DEF Shown
<1>5. CASE Len(ch) = 1
  <2>1. c.end = Len(text) /\ Len(text) <= ChunkSize
    BY <1>1, <1>2, <1>3, <1>5
  <2>2. first_chunk(text) = text
    BY <2>1 DEF first_chunk
  <2>3. Slice(text, 0, Len(text)) = text
    BY <1>1 DEF Slice
  <2> QED BY <1>2, <1>4, <2>1, <2>2, <2>3
<1>6. CASE Len(ch) # 1
  <2>1. 1 \in 1 .. Len(ch) - 1
    <3>1. PICK m : m = Len(ch)
      OBVIOUS
    <3>2. m \in Nat /\ m > 0 /\ m # 1
      BY <1>1, <1>6, <3>1
    <3>3. 1 \in 1 .. m - 1
      BY <3>2
    <3> QED BY <3>1, <3>3
  <2>2. Round(text, scan_break_points(text, Fences), ch[1].pos, ch[1].end, ch[1 + 1].pos)
    BY <2>1 DEF Cuts
  <2>3. ChunkSize < Len(text) /\ c.end = CutAt(text, scan_break_points(text, Fences), 0)
    BY <1>1, <1>2, <1>3, <2>2 DEF Round
  <2>4. ~EndsClose(text) => first_chunk(text) = Slice(text, 0, CutAt(text, scan_break_points(text, Fences), 0))
    BY <2>3, OpeningIs DEF Fences
  <2> QED BY <1>2, <1>4, <2>3, <2>4
<1> QED BY <1>5, <1>6

\* Carrying the headers leaves the places true.
LEMMA PlacesStep ==
  ASSUME ChunkInv, SectionInv, carry_table_headers
  PROVE  SectionInv' /\ Placed'
<1>1. Layout(lines, text, at) /\ text \in Seq(Byte) /\ Len(text) \in Nat
  BY DEF ChunkInv, Layout
<1>2. pc = "carry" /\ pc' = "score" /\ UNCHANGED <<lines, text, at, way, breaks, picked>>
  BY DEF carry_table_headers
<1>3. /\ Cuts(text, breaks, chunks) /\ Breaks(breaks, text)
      /\ way \in {"markdown", "grammar"}
      /\ way = "markdown" => breaks = scan_break_points(text, Fences)
      /\ Len(chunks) > 0 /\ chunks[Len(chunks)].end = Len(text)
      /\ chunks[Len(chunks)].pos + ChunkSize >= Len(text)
      /\ picked = <<>>
  BY <1>2 DEF ChunkInv, SectionInv
<1>4. Fences' = Fences /\ AllTables' = AllTables
  BY <1>2 DEF Fences, AllTables, scan_tables, PipeLine
<1>5. PICK n : n = Len(chunks) /\ n \in Nat /\ DOMAIN chunks = 1 .. n
               /\ \A i \in 1 .. n : IsCut(text, chunks[i])
  BY <1>3 DEF Cuts
<1>6. PICK dh : dh = chunks'
  OBVIOUS
<1>7. /\ DOMAIN dh = 1 .. n
      /\ way = "markdown" => \A i \in 1 .. n : Carried(chunks[i], dh[i])
      /\ way = "grammar" => \A i \in 1 .. n : dh[i] = chunks[i]
  <2>1. CASE way = "grammar"
    <3>1. dh = chunks
      BY <1>6, <2>1 DEF carry_table_headers
    <3> QED BY <1>5, <2>1, <3>1
  <2>2. CASE way = "markdown"
    <3>1. dh = [i \in DOMAIN chunks |-> CarryHeader(text, chunks[i], AllTables)]
      BY <1>6, <2>2 DEF carry_table_headers, AllTables, Fences
    <3>2. DOMAIN dh = 1 .. n /\ \A i \in 1 .. n : dh[i] = CarryHeader(text, chunks[i], AllTables)
      BY <1>5, <3>1
    <3>3. \A i \in 1 .. n : Carried(chunks[i], CarryHeader(text, chunks[i], AllTables))
      BY <1>1, <1>5, CarriedIs
    <3> QED BY <2>2, <3>2, <3>3
  <2> QED BY <1>3, <2>1, <2>2
<1>8. \/ \A i \in 1 .. n : Carried(chunks[i], dh[i])
      \/ \A i \in 1 .. n : dh[i] = chunks[i]
  BY <1>3, <1>7
<1>9. \A x : x \in Range(dh) <=> \E i \in 1 .. n : x = dh[i]
  BY <1>7 DEF Range
<1>10. ASSUME NEW i \in 1 .. n
       PROVE  dh[i].pos \in Nat /\ dh[i].end \in Nat /\ dh[i].pos <= dh[i].end /\ dh[i].end <= Len(text)
  <2>1. PICK c, d : c = chunks[i] /\ d = dh[i]
    OBVIOUS
  <2>2. IsCut(text, c) /\ (d = c \/ Carried(c, d))
    BY <1>5, <1>8, <2>1
  <2>3. c.pos \in Nat /\ c.end \in Nat /\ c.pos <= c.end /\ c.end <= Len(text)
    BY <2>2 DEF IsCut, ChunkSet
  <2>4. Carried(c, d) => d.pos \in Nat /\ d.end = c.end /\ d.pos <= d.end /\ d.end <= Len(text)
    BY <1>1, <2>2, CarriedTypes
  <2> QED BY <2>1, <2>2, <2>3, <2>4
<1>11. Roomy => PlacesTellChunksApart'
  <2> SUFFICES ASSUME Roomy PROVE PlacesTellChunksApart'
    OBVIOUS
  <2>1. ASSUME NEW i \in 1 .. n, NEW j \in 1 .. n, i # j, dh[i].pos = dh[j].pos
        PROVE  \/ \E t \in AllTables : dh[i].pos = t.from
               \/ \E k \in DOMAIN lines : Len(Bytes(lines[k])) > Window /\ dh[i].pos = at[k + 1]
    BY <1>1, <1>3, <1>5, <1>7, <1>8, <2>1, CarriedApart
  <2> QED BY <1>2, <1>4, <1>6, <1>7, <2>1 DEF PlacesTellChunksApart
<1>12. SnippetLineIsNear'
  <2>1. \A p : LineOf(p)' = LineOf(p)
    BY <1>2 DEF LineOf
  <2>2. ASSUME NEW c \in Range(dh), c.pos # 0
        PROVE  LET line == extract_snippet(text, c.pos, c.end - c.pos)
                   lo == snap_backward(text, Less(c.pos, Margin))
                   hi == snap_forward(text, Capped(c.end + Margin, text))
                   found == {p \in lo .. hi - 1 : At(text, p) \in {"t", "u"}}
               IN \/ \E p \in found : LineOf(p) - line \in {0, 1}
                  \/ found = {} /\ LineOf(c.pos) - line \in 0 .. 2
    <3>1. c.pos \in Nat /\ c.end \in Nat /\ c.pos <= c.end /\ c.end <= Len(text)
      BY <1>9, <1>10
    <3> QED BY <1>1, <2>2, <3>1, SnippetsNear
  <2> QED BY <1>2, <1>6, <2>1, <2>2 DEF SnippetLineIsNear
<1>13. PrefixIsEnough'
  <2> SUFFICES ASSUME way = "markdown"
               PROVE  first_chunk(text) = Shown(text, dh[1]) \/ EndsClose(text)
    BY <1>2, <1>6 DEF PrefixIsEnough, EndsClose, Half
  <2>1. first_chunk(text) = Shown(text, chunks[1]) \/ EndsClose(text)
    BY <1>1, <1>3, OpeningShown
  <2>2. 1 \in 1 .. n
    BY <1>3, <1>5
  <2>3. chunks[1].pos = 0 /\ Carried(chunks[1], dh[1])
    BY <1>3, <1>7, <2>2 DEF Cuts
  <2>4. dh[1] = chunks[1]
    BY <1>1, <2>3, FirstStays
  <2> QED BY <2>1, <2>4
<1>14. SectionsShowEveryHitOnce'
  <2>1. Len(picked') = 0 /\ 2 .. 0 = {}
    BY <1>2, <1>3
  <2> QED BY <1>2, <2>1 DEF SectionsShowEveryHitOnce
<1>15. NoHeaders' => Evenly(text, dh)
  <2> SUFFICES ASSUME \A i \in 1 .. n : dh[i].head = <<>> PROVE Evenly(text, dh)
    BY <1>6, <1>9 DEF NoHeaders
  <2>1. \A i \in 1 .. n : Plain(text, dh[i])
    BY <1>10 DEF Plain
  <2>2. ASSUME NEW i \in 1 .. n, NEW j \in 1 .. n, dh[i].pos < dh[j].pos
        PROVE  dh[i].end <= dh[j].end
    BY <1>1, <1>3, <1>5, <1>7, <1>8, <2>2, CarriedAscend
  <2> QED BY <1>9, <2>1, <2>2 DEF Evenly
<1>16. SectionInv'
  <2>1. DOMAIN chunks' = 1 .. n /\ n \in Nat
    BY <1>5, <1>6, <1>7
  <2>2. NoHeaders' => Evenly(text, chunks)'
    BY <1>2, <1>6, <1>15
  <2>3. picked' = <<>>
    BY <1>2, <1>3
  <2> QED BY <1>2, <2>1, <2>2, <2>3 DEF SectionInv
<1> QED BY <1>11, <1>12, <1>13, <1>14, <1>16 DEF Placed

\* The chunks are ranked.
LEMMA RankStep ==
  ASSUME ChunkInv, SectionInv, RankChunks
  PROVE  SectionInv' /\ Placed'
<1>1. /\ pc = "score" /\ UNCHANGED <<lines, text, at, way, breaks, start, chunks>>
      /\ picked = <<>> /\ text \in Seq(Byte)
  BY DEF RankChunks, SectionInv, ChunkInv, Layout
<1>2. PICK n \in Nat : DOMAIN chunks = 1 .. n
  BY <1>1 DEF SectionInv
<1>3. NoHeaders' = NoHeaders /\ (NoHeaders => Evenly(text, chunks))
  BY <1>1 DEF SectionInv, NoHeaders
<1>4. CASE terms' = {}
  <2>1. picked' = <<chunks[1]>> /\ pc' = "done"
    BY <1>4 DEF RankChunks
  <2>2. SectionInv'
    BY <1>1, <1>2, <1>3, <2>1 DEF SectionInv
  <2>3. Len(picked') = 1 /\ 2 .. 1 = {}
    BY <2>1
  <2>4. SectionsShowEveryHitOnce'
    <3>1. \A c : WordsShown(c)' = {}
      BY <1>4 DEF WordsShown
    <3>2. UNION {WordsShown(c) : c \in Range(chunks)}' = {}
      BY <3>1
    <3> QED BY <2>3, <3>2 DEF SectionsShowEveryHitOnce
  <2> QED BY <2>1, <2>2, <2>4 DEF Placed, PlacesTellChunksApart, SnippetLineIsNear, PrefixIsEnough
<1>5. CASE terms' # {}
  <2>1. terms' = {"t", "u"} /\ pc' = "pick" /\ picked' = <<>>
        /\ todo' = BestFirst([i \in DOMAIN chunks |-> Hits(terms', text, chunks[i])])
    BY <1>1, <1>5 DEF RankChunks
  <2>2. PICK ws, hits, s : ws = terms' /\ hits = [i \in DOMAIN chunks |-> Hits(ws, text, chunks[i])] /\ s = todo'
    OBVIOUS
  <2>3. DOMAIN hits = 1 .. n /\ \A i \in 1 .. n : hits[i] = Hits(ws, text, chunks[i])
    BY <1>2, <2>2
  <2>4. \A i \in 1 .. n : hits[i] \in Nat
    <3>1. ws = {"t", "u"}
      BY <2>1, <2>2
    <3> QED BY <2>3, <3>1, HitsAre
  <2>5. s = BestFirst(hits)
    BY <2>1, <2>2
  <2>6. /\ s \in Seq(1 .. n) /\ Len(s) = n
        /\ \A i \in 1 .. n : \E k \in 1 .. n : s[k] = i
        /\ \A k \in 1 .. n : \A m \in k .. n : hits[s[m]] <= hits[s[k]]
    <3>1. Counts(hits, n)
      BY <2>3, <2>4 DEF Counts
    <3>2. /\ BestFirst(hits) \in Seq(1 .. n) /\ Len(BestFirst(hits)) = n
          /\ \A i \in 1 .. n : \E k \in 1 .. n : BestFirst(hits)[k] = i
          /\ \A k \in 1 .. n : \A m \in k .. n : hits[BestFirst(hits)[m]] <= hits[BestFirst(hits)[k]]
      BY <3>1, BestFirstIs
    <3> QED BY <2>5, <3>2, Zenon
  <2>7. Ranked(text, ws, chunks, s)
    <3>1. ASSUME NEW k \in 1 .. n, NEW m \in k .. n
          PROVE  Hits(ws, text, chunks[s[m]]) <= Hits(ws, text, chunks[s[k]])
      <4>1. m \in 1 .. n
        OBVIOUS
      <4>2. s[k] \in 1 .. n /\ s[m] \in 1 .. n
        <5>1. \A i \in 1 .. n : s[i] \in 1 .. n
          <6>1. PICK S : S = 1 .. n
            OBVIOUS
          <6>2. s \in Seq(S) /\ 1 .. Len(s) = S
            BY <2>6, <6>1
          <6>3. \A i \in 1 .. Len(s) : s[i] \in S
            BY <6>2
          <6> QED BY <6>1, <6>2, <6>3
        <5> QED BY <4>1, <5>1
      <4>3. hits[s[m]] <= hits[s[k]]
        BY <2>6
      <4> QED BY <2>3, <4>2, <4>3
    <3> QED BY <1>2, <2>6, <3>1 DEF Ranked
  <2>8. Left(text, ws, chunks, s, <<>>)
    BY <1>2, <2>6 DEF Left
  <2>9. Len(<<>>) = 0 /\ 2 .. 0 = {} /\ <<>> \in Seq(Range(chunks))
    OBVIOUS
  <2>10. Fresh(text, ws, <<>>)
    BY <2>9 DEF Fresh
  <2>11. SectionInv'
    BY <1>1, <1>2, <1>3, <2>1, <2>2, <2>7, <2>8, <2>9, <2>10 DEF SectionInv
  <2>12. SectionsShowEveryHitOnce'
    BY <2>1, <2>9 DEF SectionsShowEveryHitOnce
  <2> QED BY <2>1, <2>11, <2>12 DEF Placed, PlacesTellChunksApart, SnippetLineIsNear, PrefixIsEnough
<1> QED BY <1>4, <1>5

\* What the next chunk to be considered adds.
LEMMA PickOne ==
  ASSUME text \in Seq(Byte), NEW ch, NEW n \in Nat, DOMAIN ch = 1 .. n, Evenly(text, ch),
         NEW s, Ranked(text, terms, ch, s), s # <<>>, NEW pk \in Seq(Range(ch)),
         Fresh(text, terms, pk), Left(text, terms, ch, s, pk),
         NEW new, new = IF IsSection(text, ch[Head(s)], pk) THEN Append(pk, ch[Head(s)]) ELSE pk
  PROVE  Fresh(text, terms, new) /\ Left(text, terms, ch, Tail(s), new)
<1>1. s \in Seq(1 .. n) /\ s # <<>>
  BY DEF Ranked
<1>2. PICK h, c, t : h = Head(s) /\ c = ch[h] /\ t = Tail(s)
  OBVIOUS
<1>3. /\ h = s[1] /\ h \in 1 .. n /\ t \in Seq(1 .. n) /\ Len(s) \in Nat /\ Len(s) >= 1 /\ Len(t) = Len(s) - 1
      /\ \A k \in 1 .. Len(t) : t[k] = s[k + 1]
  BY <1>1, <1>2
<1>4. c \in Range(ch) /\ Plain(text, c)
  BY <1>2, <1>3 DEF Range, Evenly
<1>5. \A o \in Range(pk) : o \in Range(ch)
  BY DEF Range
<1>6. (\A o \in Range(pk) : Plain(text, o)) /\ (\A o \in Range(pk) : c.pos < o.pos => c.end <= o.end)
  BY <1>4, <1>5 DEF Evenly
<1>7. Len(pk) \in Nat /\ \A i \in 1 .. Len(pk) : pk[i] \in Range(pk)
  BY DEF Range
<1>8. ASSUME NEW i \in 1 .. n, i # h, \E k \in 1 .. Len(s) : s[k] = i
      PROVE  \E k \in 1 .. Len(t) : t[k] = i
  <2>1. PICK k \in 1 .. Len(s) : s[k] = i
    BY <1>8
  <2>2. k # 1
    BY <1>3, <1>8, <2>1
  <2>3. k - 1 \in 1 .. Len(t) /\ (k - 1) + 1 = k
    BY <1>3, <2>2
  <2>4. t[k - 1] = i
    BY <1>3, <2>1, <2>3
  <2> QED BY <2>3, <2>4
<1>9. \A o : o \in Range(pk) => o \in Range(new)
  <2>1. CASE new = pk
    BY <2>1
  <2>2. CASE new = Append(pk, c)
    <3>1. \A i \in 1 .. Len(pk) : new[i] = pk[i] /\ i \in DOMAIN new
      BY <1>4, <1>7, <2>2
    <3>2. DOMAIN pk = 1 .. Len(pk)
      OBVIOUS
    <3> QED BY <3>1, <3>2 DEF Range
  <2> QED BY <1>2, <2>1, <2>2
<1>10. ASSUME NEW p \in Words(text, terms, c)
       PROVE  \E o \in Range(new) : p \in Bytewise(o)
  <2>1. CASE IsSection(text, c, pk)
    <3>1. new = Append(pk, c)
      BY <1>2, <2>1
    <3>2. new[Len(pk) + 1] = c /\ Len(pk) + 1 \in DOMAIN new
      BY <1>4, <1>7, <3>1
    <3>3. c \in Range(new)
      BY <3>2 DEF Range
    <3> QED BY <3>3 DEF Words
  <2>2. CASE ~IsSection(text, c, pk)
    <3>1. p \in WordsShown(c)
      BY DEF Words, WordsShown
    <3>2. \E o \in Range(pk) : p \in Bytewise(o)
      BY <1>4, <1>6, <2>2, <3>1, OldWords
    <3> QED BY <1>9, <3>2
  <2> QED BY <2>1, <2>2
<1>11. Left(text, terms, ch, t, new)
  <2> SUFFICES ASSUME NEW i \in 1 .. n
               PROVE  \/ \E k \in 1 .. Len(t) : t[k] = i
                      \/ \A p \in Words(text, terms, ch[i]) : \E o \in Range(new) : p \in Bytewise(o)
    BY DEF Left
  <2>1. CASE i = h
    BY <1>2, <1>10, <2>1
  <2>2. CASE i # h
    <3>1. \/ \E k \in 1 .. Len(s) : s[k] = i
          \/ \A p \in Words(text, terms, ch[i]) : \E o \in Range(pk) : p \in Bytewise(o)
      BY DEF Left
    <3>2. CASE \E k \in 1 .. Len(s) : s[k] = i
      BY <1>8, <2>2, <3>2
    <3>3. CASE \A p \in Words(text, terms, ch[i]) : \E o \in Range(pk) : p \in Bytewise(o)
      BY <1>9, <3>3
    <3> QED BY <3>1, <3>2, <3>3
  <2> QED BY <2>1, <2>2
<1>12. Fresh(text, terms, new)
  <2>1. CASE new = pk
    BY <2>1
  <2>2. CASE new # pk
    <3>1. IsSection(text, c, pk) /\ new = Append(pk, c)
      BY <1>2, <2>2
    <3>2. Len(new) = Len(pk) + 1 /\ new[Len(pk) + 1] = c /\ \A i \in 1 .. Len(pk) : new[i] = pk[i]
      BY <1>4, <1>7, <3>1
    <3> SUFFICES ASSUME NEW k \in 2 .. Len(new)
                 PROVE  \E p \in Words(text, terms, new[k]) : \A i \in 1 .. k - 1 : p \notin Bytewise(new[i])
      BY DEF Fresh
    <3>3. CASE k = Len(pk) + 1
      <4>1. pk # <<>> /\ k - 1 = Len(pk)
        BY <1>7, <3>3
      <4>2. PICK p \in WordsShown(c) : \A o \in Range(pk) : p \notin Bytewise(o)
        BY <1>4, <1>6, <3>1, <4>1, NewWord
      <4>3. p \in Words(text, terms, new[k])
        BY <3>2, <3>3, <4>2 DEF Words, WordsShown
      <4>4. \A i \in 1 .. k - 1 : p \notin Bytewise(new[i])
        BY <1>7, <3>2, <4>1, <4>2
      <4> QED BY <4>3, <4>4
    <3>4. CASE k # Len(pk) + 1
      <4>1. k \in 2 .. Len(pk) /\ k \in 1 .. Len(pk) /\ \A i \in 1 .. k - 1 : i \in 1 .. Len(pk)
        BY <1>7, <3>2, <3>4
      <4>2. PICK p \in Words(text, terms, pk[k]) : \A i \in 1 .. k - 1 : p \notin Bytewise(pk[i])
        BY <4>1 DEF Fresh
      <4>3. p \in Words(text, terms, new[k]) /\ \A i \in 1 .. k - 1 : p \notin Bytewise(new[i])
        BY <3>2, <4>1, <4>2
      <4> QED BY <4>3
    <3> QED BY <3>3, <3>4
  <2> QED BY <2>1, <2>2
<1> QED BY <1>2, <1>11, <1>12

\* What is left of the ranking is ranked.
LEMMA RankedTail ==
  ASSUME NEW T, NEW ws, NEW ch, NEW s, Ranked(T, ws, ch, s), s # <<>>
  PROVE  Ranked(T, ws, ch, Tail(s)) /\ Head(s) \in DOMAIN ch
<1>1. s \in Seq(DOMAIN ch)
  BY DEF Ranked
<1>2. PICK t : t = Tail(s)
  OBVIOUS
<1>3. /\ t \in Seq(DOMAIN ch) /\ Len(s) \in Nat /\ Len(t) = Len(s) - 1 /\ Len(s) >= 1
      /\ \A k \in 1 .. Len(t) : t[k] = s[k + 1]
      /\ Head(s) \in DOMAIN ch
  BY <1>1, <1>2
<1>4. ASSUME NEW k \in 1 .. Len(t), NEW m \in k .. Len(t)
      PROVE  Hits(ws, T, ch[t[m]]) <= Hits(ws, T, ch[t[k]])
  <2>1. m \in 1 .. Len(t) /\ k + 1 \in 1 .. Len(s) /\ m + 1 \in k + 1 .. Len(s)
    BY <1>3
  <2>2. Hits(ws, T, ch[s[m + 1]]) <= Hits(ws, T, ch[s[k + 1]])
    BY <2>1 DEF Ranked
  <2>3. t[k] = s[k + 1] /\ t[m] = s[m + 1]
    BY <1>3, <2>1
  <2> QED BY <2>2, <2>3
<1>5. Ranked(T, ws, ch, t)
  BY <1>3, <1>4 DEF Ranked
<1> QED BY <1>2, <1>3, <1>5

\* The next chunk is considered.
LEMMA PickStep ==
  ASSUME ChunkInv, SectionInv, Pick
  PROVE  SectionInv' /\ Placed'
<1>1. /\ pc = "pick" /\ pc' = "pick"
      /\ UNCHANGED <<lines, text, at, way, breaks, start, chunks, terms>>
      /\ todo # <<>> /\ text \in Seq(Byte)
  BY DEF Pick, EnoughShown, ChunkInv, Layout
<1>2. /\ Ranked(text, terms, chunks, todo) /\ picked \in Seq(Range(chunks)) /\ terms = {"t", "u"}
      /\ NoHeaders => Fresh(text, terms, picked) /\ Left(text, terms, chunks, todo, picked)
      /\ NoHeaders => Evenly(text, chunks)
  BY <1>1 DEF SectionInv
<1>3. PICK n \in Nat : DOMAIN chunks = 1 .. n
  BY <1>1 DEF SectionInv
<1>4. PICK new, rest : new = picked' /\ rest = todo'
  OBVIOUS
<1>5. /\ new = IF IsSection(text, chunks[Head(todo)], picked)
               THEN Append(picked, chunks[Head(todo)]) ELSE picked
      /\ rest = Tail(todo)
  BY <1>4 DEF Pick
<1>6. Ranked(text, terms, chunks, rest) /\ Head(todo) \in DOMAIN chunks
  BY <1>1, <1>2, <1>5, RankedTail
<1>7. new \in Seq(Range(chunks))
  <2>1. chunks[Head(todo)] \in Range(chunks)
    BY <1>6 DEF Range
  <2> QED BY <1>2, <1>5, <2>1
<1>8. NoHeaders' = NoHeaders
  BY <1>1 DEF NoHeaders
<1>9. NoHeaders => Fresh(text, terms, new) /\ Left(text, terms, chunks, rest, new)
  BY <1>1, <1>2, <1>3, <1>5, PickOne
<1>10. SectionInv'
  BY <1>1, <1>2, <1>3, <1>4, <1>6, <1>7, <1>8, <1>9 DEF SectionInv
<1>11. \A c : WordsShown(c)' = Words(text, terms, c)
  BY <1>1 DEF WordsShown, Words
<1>12. NoHeaders => \A k \in 2 .. Len(new) :
         ~(Words(text, terms, new[k]) \subseteq UNION {Words(text, terms, new[i]) : i \in 1 .. k - 1})
  BY <1>9, FreshDiffer
<1>13. SectionsShowEveryHitOnce'
  BY <1>1, <1>4, <1>8, <1>11, <1>12 DEF SectionsShowEveryHitOnce
<1> QED BY <1>1, <1>10, <1>13 DEF Placed, PlacesTellChunksApart, SnippetLineIsNear, PrefixIsEnough

\* The sections are complete.
LEMMA EndStep ==
  ASSUME ChunkInv, SectionInv, SectionsShowEveryHitOnce, PickingEnds
  PROVE  SectionInv' /\ Placed'
<1>1. /\ pc = "pick" /\ pc' = "done" /\ EnoughShown
      /\ UNCHANGED <<lines, text, at, way, breaks, start, chunks, terms, todo, picked>>
      /\ text \in Seq(Byte)
  BY DEF PickingEnds, ChunkInv, Layout
<1>2. /\ Ranked(text, terms, chunks, todo) /\ picked \in Seq(Range(chunks)) /\ terms = {"t", "u"}
      /\ NoHeaders => Left(text, terms, chunks, todo, picked)
      /\ NoHeaders => Evenly(text, chunks)
  BY <1>1 DEF SectionInv
<1>3. NoHeaders' = NoHeaders
  BY <1>1 DEF NoHeaders
<1>4. SectionInv'
  BY <1>1, <1>3 DEF SectionInv
<1>5. ASSUME NoHeaders, Len(picked) < MaxSections, NEW c \in Range(chunks), NEW p \in WordsShown(c)
      PROVE  \E o \in Range(picked) : p \in WordsShown(o)
  <2>1. PICK i \in DOMAIN chunks : c = chunks[i]
    BY DEF Range
  <2>2. p \in Bytewise(c) /\ At(text, p) \in terms /\ p \in Words(text, terms, c)
    BY DEF WordsShown, Words
  <2>3. CASE \E k \in 1 .. Len(todo) : todo[k] = i
    <3>1. PICK k \in 1 .. Len(todo) : todo[k] = i
      BY <2>3
    <3>2. todo \in Seq(DOMAIN chunks) /\ todo # <<>> /\ 1 \in 1 .. Len(todo) /\ k \in 1 .. Len(todo)
          /\ Head(todo) = todo[1]
      BY <1>2, <3>1 DEF Ranked
    <3>3. Hits(terms, text, chunks[todo[1]]) = 0
      BY <1>1, <1>5, <3>2 DEF EnoughShown
    <3>4. Hits(terms, text, chunks[todo[k]]) <= Hits(terms, text, chunks[todo[1]])
      BY <1>2, <3>2 DEF Ranked
    <3>5. PICK h : h = Hits(terms, text, c)
      OBVIOUS
    <3>6. h \in Nat
      BY <1>2, <3>5, HitsAre
    <3>7. h <= 0
      BY <2>1, <3>1, <3>3, <3>4, <3>5
    <3>8. h = 0
      BY <3>6, <3>7
    <3>9. Plain(text, c)
      BY <1>2, <1>5 DEF Evenly
    <3>10. \A q \in Bytewise(c) : At(text, q) \notin terms
      BY <1>1, <1>2, <3>5, <3>8, <3>9, NoHit
    <3> QED BY <2>2, <3>10
  <2>4. CASE \A q \in Words(text, terms, chunks[i]) : \E o \in Range(picked) : q \in Bytewise(o)
    <3>1. PICK o \in Range(picked) : p \in Bytewise(o)
      BY <2>1, <2>2, <2>4
    <3>2. p \in WordsShown(o)
      BY <2>2, <3>1 DEF WordsShown
    <3> QED BY <3>2
  <2> QED BY <1>2, <1>5, <2>3, <2>4 DEF Left
<1>6. \A c : WordsShown(c)' = WordsShown(c)
  BY <1>1 DEF WordsShown
<1>7. SectionsShowEveryHitOnce'
  <2>1. NoHeaders =>
          \A k \in 2 .. Len(picked) :
            ~(WordsShown(picked[k]) \subseteq UNION {WordsShown(picked[i]) : i \in 1 .. k - 1})
    BY DEF SectionsShowEveryHitOnce
  <2>2. NoHeaders /\ Len(picked) < MaxSections =>
          UNION {WordsShown(c) : c \in Range(chunks)} \subseteq UNION {WordsShown(c) : c \in Range(picked)}
    BY <1>5
  <2> QED BY <1>1, <1>3, <1>6, <2>1, <2>2 DEF SectionsShowEveryHitOnce
<1> QED BY <1>1, <1>4, <1>7 DEF Placed, PlacesTellChunksApart, SnippetLineIsNear, PrefixIsEnough

\* Nothing moves.
LEMMA StillPlaces ==
  ASSUME SectionInv, Placed, UNCHANGED chunkVars
  PROVE  SectionInv' /\ Placed'
<1>1. UNCHANGED <<lines, text, at, way, breaks, start, chunks, terms, todo, picked, pc>>
  BY DEF chunkVars
<1>2. Fences' = Fences /\ AllTables' = AllTables /\ NoHeaders' = NoHeaders
      /\ (\A c : WordsShown(c)' = WordsShown(c)) /\ (\A p : LineOf(p)' = LineOf(p))
  BY <1>1 DEF Fences, AllTables, scan_tables, PipeLine, NoHeaders, WordsShown, LineOf
<1>3. SectionInv'
  BY <1>1, <1>2 DEF SectionInv
<1>4. Roomy => PlacesTellChunksApart'
  BY <1>1, <1>2 DEF Placed, PlacesTellChunksApart
<1>5. SectionsShowEveryHitOnce'
  BY <1>1, <1>2 DEF Placed, SectionsShowEveryHitOnce
<1>6. SnippetLineIsNear'
  BY <1>1, <1>2 DEF Placed, SnippetLineIsNear
<1>7. PrefixIsEnough'
  BY <1>1 DEF Placed, PrefixIsEnough
<1> QED BY <1>3, <1>4, <1>5, <1>6, <1>7 DEF Placed

\* And every step keeps it.
LEMMA PlaceStep ==
  ASSUME PlaceInv, [ChunkNext]_chunkVars
  PROVE  PlaceInv'
<1>1. ChunkInv /\ SectionInv /\ Placed /\ SectionsShowEveryHitOnce
  BY DEF PlaceInv, Placed
<1>2. ChunkInv'
  BY <1>1, ChunkStep
<1>3. SectionInv' /\ Placed'
  <2>1. CASE chunk_document_for_path \/ Cut
    BY <1>1, <2>1, EarlyStep
  <2>2. CASE carry_table_headers
    BY <1>1, <2>2, PlacesStep
  <2>3. CASE RankChunks
    BY <1>1, <2>3, RankStep
  <2>4. CASE Pick
    BY <1>1, <2>4, PickStep
  <2>5. CASE PickingEnds
    BY <1>1, <2>5, EndStep
  <2>6. CASE UNCHANGED chunkVars
    BY <1>1, <2>6, StillPlaces
  <2> QED BY <2>1, <2>2, <2>3, <2>4, <2>5, <2>6 DEF ChunkNext
<1> QED BY <1>2, <1>3 DEF PlaceInv

\* What a search shows of a document, for every document and every size:
\* sections each show a word of their own and together all that were found
\* (best_chunks, uncovered_text), a snippet's line is its best one or just above
\* (extract_snippet), and the opening computed from a prefix is the first chunk
\* (first_chunk).
THEOREM WhatIsShownIsTrue ==
  Spec => [](SectionsShowEveryHitOnce /\ SnippetLineIsNear /\ PrefixIsEnough)
<1>1. Init => PlaceInv
  BY PlaceStart DEF Init
<1>2. PlaceInv /\ [Next]_vars => PlaceInv'
  <2> SUFFICES ASSUME PlaceInv, [Next]_vars PROVE PlaceInv'
    OBVIOUS
  <2>1. [ChunkNext]_chunkVars
    BY DEF Next, vars
  <2> QED BY <2>1, PlaceStep
<1>3. PlaceInv => SectionsShowEveryHitOnce /\ SnippetLineIsNear /\ PrefixIsEnough
  BY DEF PlaceInv, Placed
<1> QED BY <1>1, <1>2, <1>3, PTL DEF Spec

\* With sizes that leave a round more than a window and the overlap (the code's
\* do), chunks are told apart by their place, too (carry_table_headers): all
\* that is said of places holds for every document.
THEOREM PlacesStayTrue ==
  ASSUME Roomy
  PROVE  Spec => []PlacesAreTrue
<1>1. Init => PlaceInv
  BY PlaceStart DEF Init
<1>2. PlaceInv /\ [Next]_vars => PlaceInv'
  <2> SUFFICES ASSUME PlaceInv, [Next]_vars PROVE PlaceInv'
    OBVIOUS
  <2>1. [ChunkNext]_chunkVars
    BY DEF Next, vars
  <2> QED BY <2>1, PlaceStep
<1>3. PlaceInv => PlacesAreTrue
  BY DEF PlaceInv, Placed, PlacesAreTrue
<1> QED BY <1>1, <1>2, <1>3, PTL DEF Spec

-----------------------------------------------------------------------------
(* Calls to a model. *)

\* One answer for each of the first n inputs, in their order.
Upto(n) == [i \in 1 .. n |-> i]

InferTypes ==
  /\ calling \in Calls \cup Ends
  /\ inputs \in Seq(Texts)
  /\ done \in 0 .. Len(inputs)
  /\ kv \in Nat
  /\ written \in 0 .. MaxExpansion
  /\ expired \in BOOLEAN

\* What is returned so far belongs to the inputs handled so far.
AnswerFollows ==
  /\ calling \in {"embed", "rerank", "score"} => answer = Upto(done)
  /\ calling \in {"default", "prompt", "sample"} => answer = <<>> /\ done = 0
  /\ calling \in {"none", "failed", "idle"} => answer = <<>>
  /\ calling \in {"prompt", "sample"} => Len(inputs) > 0
  /\ calling = "answered" => \/ answer = Upto(done) /\ done = Len(inputs)
                             \/ answer = <<1>> /\ done = 0 /\ Len(inputs) > 0

\* The next token's position is the number of positions the context holds, and
\* there is room for every token that may still be generated.
ContextFollows ==
  /\ calling = "prompt" => kv = 0 /\ written = 0
  /\ calling = "score" => kv = 0 /\ done < Len(inputs)
  /\ calling = "sample" => /\ kv = inputs[1].tokens + written
                           /\ inputs[1].tokens + MaxExpansion <= GenerateContext

\* A document is begun only before the deadline.
LateFollows ==
  /\ late \in 0 .. 1
  /\ ~expired => late = 0
  /\ calling = "score" => late = 0

InferInv == InferTypes /\ ~aborted /\ AnswerFollows /\ ContextFollows /\ LateFollows

\* The sizes of the contexts are numbers.
LEMMA SizesAreNumbers ==
  /\ EmbedContext \in Nat /\ RerankContext \in Nat /\ GenerateContext \in Nat
  /\ MaxExpansion \in Nat /\ 0 \in 0 .. MaxExpansion
  BY ContextsType

\* They are as many.
LEMMA UptoSeq ==
  ASSUME NEW n \in Nat
  PROVE  /\ Upto(n) \in Seq(Nat) /\ Len(Upto(n)) = n
         /\ Append(Upto(n), n + 1) = Upto(n + 1)
  BY DEF Upto

\* There is none at first.
LEMMA UptoZero == Upto(0) = <<>>
  BY DEF Upto

\* What is given to an encoder or to the reranker fits its batch.
LEMMA CutTextsFit ==
  ASSUME NEW t \in Texts
  PROVE  /\ Encoded(t) <= EmbedContext
         /\ AtMost(t.tokens, rerank_limit) \in Nat
         /\ AtMost(t.tokens, rerank_limit) <= RerankContext
<1>1. t.tokens \in Nat
  BY InputsType DEF Texts
<1> QED BY <1>1, ContextsType DEF Encoded, embed_limit, AtMost, rerank_limit

\* A prompt that is not refused leaves room for the whole expansion.
LEMMA PromptsFit ==
  ASSUME NEW t, ~Refused(t)
  PROVE  ~TooLong(t.tokens)
  BY DEF Refused

\* A call starts with nothing handled and nothing returned.
LEMMA InferStart == InferInit \/ NoInference => InferInv
<1>1. ASSUME InferInit PROVE InferInv
  <2>1. inputs \in Seq(Texts)
    BY <1>1, InputsType DEF InferInit
  <2>2. calling \in {"embed", "rerank", "default", "prompt"} /\ done = 0 /\ answer = <<>>
        /\ kv = 0 /\ written = 0 /\ expired = FALSE /\ late = 0 /\ aborted = FALSE
    BY <1>1 DEF InferInit
  <2>3. calling = "prompt" => Len(inputs) > 0
    BY <1>1, <2>1 DEF InferInit
  <2>4. InferTypes
    <3>1. Len(inputs) \in Nat
      BY <2>1
    <3>2. done \in 0 .. Len(inputs)
      BY <2>2, <3>1
    <3>3. calling \in Calls \cup Ends
      BY <2>2 DEF Calls
    <3>4. kv \in Nat /\ written \in 0 .. MaxExpansion /\ expired \in BOOLEAN
      BY <2>2, SizesAreNumbers
    <3> QED BY <2>1, <3>2, <3>3, <3>4 DEF InferTypes
  <2> QED BY <2>2, <2>3, <2>4, UptoZero
          DEF InferInv, AnswerFollows, ContextFollows, LateFollows
<1>2. ASSUME NoInference PROVE InferInv
  <2>1. inputs \in Seq(Texts) /\ Len(inputs) = 0
    BY <1>2 DEF NoInference
  <2>2. done \in 0 .. Len(inputs)
    BY <1>2, <2>1 DEF NoInference
  <2>3. InferTypes
    <3>1. calling \in Calls \cup Ends
      BY <1>2 DEF NoInference, Ends
    <3>2. kv \in Nat /\ written \in 0 .. MaxExpansion /\ expired \in BOOLEAN
      BY <1>2, SizesAreNumbers DEF NoInference
    <3> QED BY <2>1, <2>2, <3>1, <3>2 DEF InferTypes
  <2> QED BY <1>2, <2>3 DEF NoInference, InferInv, AnswerFollows, ContextFollows, LateFollows
<1> QED BY <1>1, <1>2

\* Every step of a call keeps the invariant.
LEMMA InferStep ==
  ASSUME InferInv, [InferNext]_inferVars
  PROVE  InferInv'
<1> USE DEF InferInv, InferTypes, AnswerFollows, ContextFollows, LateFollows, Calls, Ends
<1>1. CASE EmbedNext
  <2>1. done + 1 \in 1 .. Len(inputs) /\ inputs[done + 1] \in Texts
    BY <1>1 DEF EmbedNext
  <2>2. ~aborted'
    BY <1>1, <2>1, CutTextsFit DEF EmbedNext, Encodes
  <2>3. answer' = Upto(done')
    <3>1. done \in Nat /\ answer = Upto(done)
      BY <1>1 DEF EmbedNext
    <3>2. answer' = Append(answer, done + 1) /\ done' = done + 1
      BY <1>1 DEF EmbedNext
    <3> QED BY <3>1, <3>2, UptoSeq
  <2> QED BY <1>1, <2>1, <2>2, <2>3 DEF EmbedNext
<1>2. CASE EngineFails
  BY <1>2 DEF EngineFails
<1>3. CASE RerankNext
  BY <1>3 DEF RerankNext
<1>4. CASE ScorePair
  <2>1. done + 1 \in 1 .. Len(inputs) /\ inputs[done + 1] \in Texts
    BY <1>4 DEF ScorePair
  <2>2. ~aborted' /\ kv' \in Nat
    <3> DEFINE n == AtMost(inputs[done + 1].tokens, rerank_limit)
    <3>1. n \in Nat /\ n <= RerankContext
      BY <2>1, CutTextsFit
    <3>2. kv = 0 /\ kv' = kv + n /\ aborted' = ~Accepts(n, 0, RerankContext)
      BY <1>4 DEF ScorePair
    <3>3. Accepts(n, 0, RerankContext)
      <4> HIDE DEF n
      <4> QED BY <3>1, <3>2, SizesAreNumbers DEF Accepts
    <3>4. kv' \in Nat
      <4> HIDE DEF n
      <4> QED BY <3>1, <3>2
    <3> QED BY <3>2, <3>3, <3>4
  <2>3. answer' = Upto(done')
    <3>1. done \in Nat /\ answer = Upto(done)
      BY <1>4 DEF ScorePair
    <3>2. answer' = Append(answer, done + 1) /\ done' = done + 1
      BY <1>4 DEF ScorePair
    <3> QED BY <3>1, <3>2, UptoSeq
  <2> QED BY <1>4, <2>1, <2>2, <2>3 DEF ScorePair
<1>5. CASE RerankDefault
  BY <1>5 DEF RerankDefault, Upto
<1>6. CASE Answered
  BY <1>6 DEF Answered
<1>7. CASE Expire
  BY <1>7 DEF Expire
<1>8. CASE Prompt
  <2> DEFINE t == inputs[1]
  <2>1. t \in Texts /\ t.tokens \in Nat
    BY <1>8, InputsType DEF Prompt, Texts
  <2>2. CASE Refused(t)
    BY <1>8, <2>2 DEF Prompt
  <2>3. CASE ~Refused(t)
    <3>1. t.tokens + MaxExpansion <= GenerateContext
      BY <2>1, <2>3, PromptsFit, ContextsType DEF TooLong
    <3>2. t.tokens <= GenerateContext
      BY <2>1, <3>1, ContextsType
    <3>3. calling' = "sample" /\ kv' = t.tokens
          /\ aborted' = ~Accepts(t.tokens, 0, GenerateContext)
          /\ UNCHANGED <<inputs, done, answer, written, hyde, expired, late>>
      BY <1>8, <2>3 DEF Prompt
    <3>4. Accepts(t.tokens, 0, GenerateContext)
      BY <1>8, <2>1, <3>2, SizesAreNumbers DEF Accepts, Prompt
    <3>5. calling = "prompt" /\ written = 0 /\ kv' = t.tokens + written
      BY <1>8, <2>1, <3>3 DEF Prompt
    <3>6. ~aborted' /\ kv' \in Nat /\ inputs' = inputs
      BY <2>1, <3>3, <3>4
    <3> QED BY <3>1, <3>3, <3>5, <3>6
  <2> QED BY <2>2, <2>3
<1>9. CASE Sample
  <2>1. inputs[1] \in Texts /\ inputs[1].tokens \in Nat
    BY <1>9, InputsType DEF Sample, Texts
  <2>2. written' = written + 1 /\ written' \in 0 .. MaxExpansion
    BY <1>9, ContextsType DEF Sample
  <2>3. \/ calling' = "answered" /\ answer' = <<1>> /\ UNCHANGED <<kv, aborted>>
        \/ /\ aborted' = ~Accepts(1, Position(inputs[1], written), GenerateContext)
           /\ kv' = kv + 1
           /\ UNCHANGED <<calling, answer>>
    BY <1>9 DEF Sample
  <2>4. Accepts(1, Position(inputs[1], written), GenerateContext)
    BY <1>9, <2>1, <2>2, ContextsType, SMTT(30) DEF Accepts, Position, Sample
  <2>5. UNCHANGED <<inputs, done, expired, late>> /\ done = 0 /\ Len(inputs) > 0
        /\ calling = "sample" /\ answer = <<>> /\ written \in Nat
    BY <1>9, SizesAreNumbers DEF Sample
  <2>6. CASE calling' = "answered" /\ answer' = <<1>> /\ UNCHANGED <<kv, aborted>>
    BY <2>2, <2>5, <2>6
  <2>7. CASE kv' = kv + 1 /\ ~aborted' /\ UNCHANGED <<calling, answer>>
    BY <2>1, <2>2, <2>5, <2>7
  <2> QED BY <2>3, <2>4, <2>6, <2>7
<1>10. CASE EndOfText
  BY <1>10 DEF EndOfText
<1>11. CASE UNCHANGED inferVars
  BY <1>11 DEF inferVars
<1> QED BY <1>1, <1>2, <1>3, <1>4, <1>5, <1>6, <1>7, <1>8, <1>9, <1>10, <1>11 DEF InferNext

\* For any windows, margins, caps and texts: no call to a model gives the
\* engine more than its batch or a position that does not follow, no answer is
\* partial or out of order, and a deadline costs one more document at most.
THEOREM CallsNeverAbort == Spec => []CallsAreWhole
<1>1. Init => InferInv
  BY InferStart DEF Init
<1>2. InferInv /\ [Next]_vars => InferInv'
  <2> SUFFICES ASSUME InferInv, [Next]_vars PROVE InferInv'
    OBVIOUS
  <2>1. [InferNext]_inferVars
    BY DEF Next, vars
  <2> QED BY <2>1, InferStep
<1>3. InferInv => CallsAreWhole
  <2> SUFFICES ASSUME InferInv PROVE CallsAreWhole
    OBVIOUS
  <2> USE DEF InferInv, InferTypes
  <2>1. inputs # <<>> => Len(inputs) > 0
    OBVIOUS
  <2>2. Len(answer) <= Len(inputs)
    <3>1. done \in Nat /\ Len(inputs) \in Nat /\ done <= Len(inputs)
      OBVIOUS
    <3>2. answer = Upto(done) \/ answer = <<>> \/ (answer = <<1>> /\ Len(inputs) > 0)
      BY DEF AnswerFollows, Calls, Ends
    <3>3. Len(Upto(done)) = done /\ Len(<<>>) = 0 /\ Len(<<1>>) = 1
      BY <3>1, UptoSeq
    <3> QED BY <3>1, <3>2, <3>3
  <2>3. AnswersAreWhole
    BY DEF AnswersAreWhole, AnswerFollows, Upto
  <2>4. DeadlineCostsOneDocument
    BY DEF DeadlineCostsOneDocument, LateFollows
  <2> QED BY <2>2, <2>3, <2>4 DEF CallsAreWhole, EngineIsNeverAborted
<1> QED BY <1>1, <1>2, <1>3, PTL DEF Spec
=============================================================================
