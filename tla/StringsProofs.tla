----------------------------- MODULE StringsProofs -----------------------------
(***************************************************************************)
(* Proofs about Strings, for any characters and any bound on the length of *)
(* a text, and about Codecs, for any bytes, characters and Uris.  The      *)
(* loops of the code are recursive functions on positions; that they exist *)
(* and what they compute is shown by going down from the end of the text   *)
(* (DownTo, Unfolds) or up from its beginning (Up, Iterates).  Every       *)
(* operation on the data of a string is then shown to hold the text it     *)
(* should, and StringIInv puts them together.  A codec writes its text     *)
(* piece by piece (Writing) and the reader takes one piece after the other *)
(* from it (Reader, ReadsBack); CodecIInv puts the conversions together.   *)
(***************************************************************************)
EXTENDS ValuesProofs, Codecs, SequenceTheorems, WellFoundedInduction, TLAPS

-----------------------------------------------------------------------------
(* Functions that are defined along the numbers, as the loops over a text are. *)

(* A set of natural numbers has a least one.                               *)
LEMMA LeastNatural ==
  ASSUME NEW T, T \subseteq Nat, T # {}
  PROVE  \E n \in T : \A m \in T : n <= m
<1>1. \E x \in T : \A y \in T : ~ (<<y, x>> \in OpToRel(<, Nat))
  BY NatLessThanWellFounded, WFMin
<1>2. \E x \in T : \A y \in T : ~ (y < x)
  <2>1. PICK x \in T : \A y \in T : ~ (<<y, x>> \in OpToRel(<, Nat))
    BY <1>1
  <2>2. \A y \in T : ~(y < x)
    BY <2>1 DEF OpToRel
  <2> QED
    BY <2>2
<1> HIDE <1>1
<1> QED
  BY <1>2

(* From an end downwards: what holds of a number when it holds of all those above. *)
LEMMA DownTo ==
  ASSUME NEW m \in Nat, NEW n \in Nat, NEW S,
         \A b \in m..n : (\A c \in m..n : b < c => c \in S) => b \in S
  PROVE  m..n \subseteq S
<1> SUFFICES ASSUME NEW b \in m..n, b \notin S PROVE FALSE
  OBVIOUS
<1> DEFINE T == {k \in Nat : n - k \in m..n /\ n - k \notin S}
<1>1. n - b \in T
  <2>1. n - b \in Nat /\ n - (n - b) = b
    OBVIOUS
  <2> QED
    BY <2>1
<1>2. PICK k \in T : \A j \in T : k <= j
  BY <1>1, LeastNatural
<1>3. ASSUME NEW c \in m..n, n - k < c PROVE c \in S
  <2>1. n - c \in Nat /\ n - (n - c) = c /\ ~(k <= n - c)
    BY <1>2, <1>3
  <2>2. n - c \notin T
    BY <1>2, <2>1
  <2> QED
    BY <2>1, <2>2
<1> QED
  BY <1>2, <1>3

(* From 0 upwards. *)
LEMMA Up ==
  ASSUME NEW n \in Nat, NEW S, 0 \in S, \A k \in 0 .. n - 1 : k \in S => k + 1 \in S
  PROVE  0..n \subseteq S
<1> SUFFICES ASSUME NEW b \in 0..n, b \notin S PROVE FALSE
  OBVIOUS
<1> DEFINE T == {k \in 0..n : k \notin S}
<1>1. T \subseteq Nat /\ b \in T
  OBVIOUS
<1>2. PICK k \in T : \A j \in T : k <= j
  BY <1>1, LeastNatural
<1>3. k \in 1..n /\ k - 1 \in 0 .. n - 1 /\ k - 1 \in 0..n /\ ~(k <= k - 1) /\ (k - 1) + 1 = k
  BY <1>2
<1>4. k - 1 \in S
  BY <1>2, <1>3
<1> QED
  BY <1>2, <1>3, <1>4

(* A function that is defined from the end by going on further up. *)
Unfolding(f, m, n, stops, last, first, next) ==
  f = [b \in m..n |-> IF stops[b] THEN last[b] ELSE first[b] \o f[next[b]]]

(* Such a function exists when going on goes up. *)
LEMMA Unfolds ==
  ASSUME NEW m \in Nat, NEW n \in Nat, NEW stops, NEW last, NEW first, NEW next,
         \A b \in m..n : ~stops[b] => next[b] \in m..n /\ b < next[b]
  PROVE  \E f : Unfolding(f, m, n, stops, last, first, next)
<1> DEFINE Approx(f, k) == f = [b \in k..n |-> IF stops[b] THEN last[b] ELSE first[b] \o f[next[b]]]
           S == {k \in m..n : \E f : Approx(f, k)}
<1>1. CASE m..n = {}
  BY <1>1 DEF Unfolding
<1>2. CASE m..n # {}
  <2>1. m \in m..n
    BY <1>2
  <2>2. ASSUME NEW k \in m..n, \A j \in m..n : k < j => j \in S
        PROVE  k \in S
    <3>1. PICK g : k < n => Approx(g, k + 1)
      <4>1. CASE k < n
        <5>1. k + 1 \in m..n /\ k < k + 1
          BY <4>1
        <5>2. k + 1 \in S
          BY <2>2, <5>1
        <5> QED
          BY <5>2
      <4> QED
        BY <4>1
    <3> DEFINE step(b) == IF stops[b] THEN last[b] ELSE first[b] \o g[next[b]]
               f == [b \in k..n |-> step(b)]
    <3>2. \A b \in k..n : b # k => f[b] = g[b]
      <4> TAKE b \in k..n
      <4> HAVE b # k
      <4>1. b \in (k + 1)..n /\ k < n
        OBVIOUS
      <4>2. g[b] = step(b)
        BY <3>1, <4>1
      <4> HIDE DEF step
      <4> QED
        BY <4>2
    <3>3. \A b \in k..n : ~stops[b] => f[next[b]] = g[next[b]]
      <4> TAKE b \in k..n
      <4> HAVE ~stops[b]
      <4>1. b \in m..n
        OBVIOUS
      <4>2. next[b] \in k..n /\ next[b] # k
        BY <4>1
      <4> HIDE DEF f
      <4> QED
        BY <3>2, <4>2
    <3>4. f = [b \in k..n |-> IF stops[b] THEN last[b] ELSE first[b] \o f[next[b]]]
      <4>1. \A b \in k..n : step(b) = IF stops[b] THEN last[b] ELSE first[b] \o f[next[b]]
        <5> HIDE DEF f
        <5> QED
          BY <3>3
      <4> DEFINE other(b) == IF stops[b] THEN last[b] ELSE first[b] \o f[next[b]]
      <4>2. \A b \in k..n : step(b) = other(b)
        BY <4>1
      <4>3. f = [b \in k..n |-> step(b)]
        OBVIOUS
      <4> HIDE DEF step, other, f
      <4>4. f = [b \in k..n |-> other(b)]
        BY <4>2, <4>3
      <4> QED
        BY <4>4 DEF other
    <3> HIDE DEF f
    <3> QED
      BY <3>4
  <2> HIDE DEF S
  <2>3. m..n \subseteq S
    BY <2>2, DownTo
  <2>4. m \in S
    BY <2>1, <2>3
  <2> QED
    BY <2>4 DEF S, Unfolding
<1> QED
  BY <1>1, <1>2

-----------------------------------------------------------------------------
(* The data of a string. *)

(* What is true of the data of every string. *)
IsString(s) ==
  /\ s \in StringBuffers /\ s.pod
  /\ s.size <= Len(s.cells) /\ s.len <= Len(s.cells)
  /\ s.len > 0 => s.size = s.len + 1 /\ s.cells[s.size] = Nul

HoldsText(s, t) == IsString(s) /\ Text(s) = t

(* What the fields and the text of such data are. *)
LEMMA TextIs ==
  ASSUME NEW s, IsString(s)
  PROVE  /\ s # NoString /\ s.cells \in Seq(StringCells) /\ Len(s.cells) \in Nat
         /\ s.size \in Nat /\ s.len \in Nat /\ IsBuffer(s, StringCells)
         /\ Text(s) \in Seq(StringCells) /\ Len(Text(s)) = s.len
         /\ \A i \in 1..s.len : Text(s)[i] = s.cells[i]
<1>1. s # NoString
  BY StringAssumption DEF IsString
<1>2. /\ s.cells \in Seq(StringCells) /\ Len(s.cells) \in Nat
      /\ s.size \in Nat /\ s.len \in Nat /\ IsBuffer(s, StringCells)
  BY StringBufferFields DEF IsString
<1>3. Text(s) = SubSeq(s.cells, 1, s.len)
  BY <1>1 DEF Text
<1> QED
  BY <1>1, <1>2, <1>3 DEF IsString

(* Data whose first cells are those of t holds t. *)
LEMMA HoldsTextCells ==
  ASSUME NEW s, IsString(s), NEW t \in Seq(StringCells), Len(t) = s.len,
         \A i \in 1..s.len : s.cells[i] = t[i]
  PROVE  HoldsText(s, t)
<1>1. Text(s) \in Seq(StringCells) /\ Len(Text(s)) = Len(t) /\ \A i \in 1..Len(t) : Text(s)[i] = t[i]
  BY TextIs
<1>2. Text(s) = t
  BY <1>1, SeqEqual
<1> QED
  BY <1>2 DEF HoldsText

(* The constructors, clone() and the operations on the buffer hold the text.*)
LEMMA NullDataHolds == HoldsText(NullData, <<>>)
<1>1. NullData = [pod |-> TRUE, cells |-> <<>>, size |-> 0, len |-> 0]
  BY DEF NullData, WithLength, EmptyBuffer
<1>2. <<>> \in Seq(StringCells) /\ Len(<<>>) = 0
  OBVIOUS
<1>3. IsString(NullData) /\ NullData.len = 0
  BY <1>1, <1>2, SMT DEF IsString, StringBuffers
<1>4. \A i \in 1..NullData.len : NullData.cells[i] = <<>>[i]
  BY <1>3
<1> HIDE DEF NullData
<1> QED
  BY <1>2, <1>3, <1>4, HoldsTextCells

LEMMA StringOfHolds ==
  ASSUME NEW t \in Seq(StringCells)
  PROVE  HoldsText(StringOf(t), t)
<1> DEFINE cells == Append(t, Nul)
           s == StringOf(t)
<1>1. s = [pod |-> TRUE, cells |-> cells, size |-> Len(cells), len |-> Len(t)]
  BY DEF StringOf, WithLength, BufferOf
<1>2. /\ cells \in Seq(StringCells) /\ Len(cells) = Len(t) + 1 /\ Len(t) \in Nat
      /\ cells[Len(t) + 1] = Nul /\ \A i \in 1..Len(t) : cells[i] = t[i]
  BY StringCellValues
<1> HIDE DEF s, cells
<1>3. s.cells = cells /\ s.size = Len(t) + 1 /\ s.len = Len(t) /\ s.pod = TRUE
  BY <1>1, <1>2
<1>4. s \in StringBuffers
  BY <1>1, <1>2, SMT DEF StringBuffers
<1>5. IsString(s)
  BY <1>2, <1>3, <1>4 DEF IsString
<1>6. HoldsText(s, t)
  BY <1>2, <1>3, <1>5, HoldsTextCells
<1> QED
  BY <1>6 DEF s

LEMMA CloneHolds ==
  ASSUME NEW s, IsString(s)
  PROVE  HoldsText(StringClone(s), Text(s))
<1> DEFINE cells == IF s.cells = <<>> THEN <<Junk>> ELSE SubSeq(s.cells, 1, s.len + 1)
           c == StringClone(s)
<1>1. c = [pod |-> TRUE, cells |-> cells, size |-> Len(cells), len |-> s.len]
  BY DEF StringClone, WithLength, BufferOf
<1>2. /\ s.cells \in Seq(StringCells) /\ Len(s.cells) \in Nat
      /\ s.len \in Nat /\ s.len <= Len(s.cells)
      /\ s.len > 0 => s.len + 1 <= Len(s.cells) /\ s.cells[s.len + 1] = Nul
      /\ Text(s) \in Seq(StringCells) /\ Len(Text(s)) = s.len
      /\ \A i \in 1..s.len : Text(s)[i] = s.cells[i]
  BY TextIs DEF IsString
<1>3. cells \in Seq(StringCells) /\ Len(cells) = s.len + 1 /\ \A i \in 1..s.len + 1 : s.len > 0 => cells[i] = s.cells[i]
  <2>1. CASE s.cells = <<>>
    BY <1>2, <2>1, StringCellValues
  <2>2. CASE s.cells # <<>>
    <3>1. s.len + 1 <= Len(s.cells)
      <4>1. Len(s.cells) > 0
        BY <1>2, <2>2
      <4> QED
        BY <1>2, <4>1
    <3>2. cells = SubSeq(s.cells, 1, s.len + 1)
      BY <2>2
    <3>3. s.len + 1 \in Nat /\ s.len + 1 \in 1..Len(s.cells)
      BY <1>2, <3>1
    <3>4. /\ SubSeq(s.cells, 1, s.len + 1) \in Seq(StringCells)
          /\ Len(SubSeq(s.cells, 1, s.len + 1)) = s.len + 1
          /\ \A i \in 1..s.len + 1 : SubSeq(s.cells, 1, s.len + 1)[i] = s.cells[i]
      BY <1>2, <3>3
    <3> HIDE DEF cells
    <3> QED
      BY <3>2, <3>4
  <2> QED
    BY <2>1, <2>2
<1> HIDE DEF c, cells
<1>4. c.cells = cells /\ c.size = s.len + 1 /\ c.len = s.len /\ c.pod = TRUE
  BY <1>1, <1>3
<1>5. c \in StringBuffers
  BY <1>1, <1>2, <1>3, SMT DEF StringBuffers
<1>6. IsString(c)
  BY <1>2, <1>3, <1>4, <1>5 DEF IsString
<1>7. \A i \in 1..c.len : c.cells[i] = Text(s)[i]
  <2> SUFFICES ASSUME NEW i \in 1..s.len PROVE cells[i] = Text(s)[i]
    BY <1>4
  <2>1. i \in 1..s.len + 1 /\ s.len > 0
    BY <1>2
  <2> QED
    BY <1>2, <1>3, <2>1
<1>8. HoldsText(c, Text(s))
  BY <1>2, <1>4, <1>6, <1>7, HoldsTextCells
<1> QED
  BY <1>8 DEF c

LEMMA ReserveText ==
  ASSUME NEW s, IsString(s), NEW n \in Nat
  PROVE  HoldsText(BufferReserve(s, n), Text(s))
<1> DEFINE r == BufferReserve(s, n)
<1>1. Grown(r, s, n, StringCells) /\ r.size = s.size
  BY TextIs, StringCellValues, ReserveCells
<1>2. r \in StringBuffers
  BY ReserveStringBuffer DEF IsString
<1> HIDE DEF r
<1>3. r.len = s.len /\ r.pod = s.pod
  BY <1>1 DEF Grown, SameKind, IsString, StringBuffers
<1>4. r.cells \in Seq(StringCells) /\ Len(r.cells) >= Len(s.cells) /\ \A i \in 1..Len(s.cells) : r.cells[i] = s.cells[i]
  BY <1>1 DEF Grown, IsBuffer, Keeps, IsString
<1>5. IsString(r)
  BY <1>1, <1>2, <1>3, <1>4, TextIs DEF IsString
<1>6. \A i \in 1..s.len : Text(s)[i] = r.cells[i]
  BY <1>4, TextIs DEF IsString
<1>7. HoldsText(r, Text(s))
  BY <1>3, <1>5, <1>6, TextIs, HoldsTextCells
<1> QED
  BY <1>7 DEF r

LEMMA SqueezeText ==
  ASSUME NEW s, IsString(s)
  PROVE  HoldsText(BufferSqueeze(s), Text(s))
<1> DEFINE r == Reallocate(s, s.size, Len(s.cells))
<1>1. CASE Len(s.cells) = s.size
  BY <1>1 DEF BufferSqueeze, HoldsText
<1>2. CASE Len(s.cells) # s.size
  <2>1. BufferSqueeze(s) = r
    BY <1>2 DEF BufferSqueeze
  <2>2. Reallocated(r, s, s.size, Len(s.cells), StringCells)
    <3>1. Len(s.cells) <= Len(s.cells)
      BY TextIs
    <3> QED
      BY <3>1, TextIs, StringCellValues, ReallocateCells
  <2>3. PICK cells : r = [s EXCEPT !.cells = cells]
    BY DEF Reallocate
  <2> HIDE DEF r
  <2>4. r \in StringBuffers
    <3>1. r.cells = cells
      BY <2>3 DEF IsString, StringBuffers
    <3> QED
      BY <2>2, <2>3, <3>1, SMT DEF StringBuffers, IsString, Reallocated
  <2>5. r.len = s.len /\ r.pod = s.pod /\ r.size = s.size
    BY <2>2 DEF Reallocated, SameKind, IsString, StringBuffers
  <2>6. Len(r.cells) = s.size /\ \A i \in 1..s.size : r.cells[i] = s.cells[i]
    BY <2>2, TextIs DEF Reallocated, IsString
  <2>7. CASE s.len = 0
    <3>1. IsString(r)
      BY <2>4, <2>5, <2>6, <2>7, TextIs DEF IsString
    <3> QED
      BY <2>1, <2>5, <2>7, <3>1, TextIs, HoldsTextCells
  <2>8. CASE s.len > 0
    <3>1. s.size = s.len + 1 /\ s.len \in Nat
      BY <2>8, TextIs DEF IsString
    <3>2. IsString(r)
      BY <2>4, <2>5, <2>6, <3>1 DEF IsString
    <3>3. \A i \in 1..s.len : i \in 1..s.size
      BY <3>1
    <3>4. \A i \in 1..s.len : Text(s)[i] = r.cells[i]
      BY <2>6, <3>3, TextIs
    <3> QED
      BY <2>1, <2>5, <3>2, <3>4, TextIs, HoldsTextCells
  <2> QED
    BY <2>7, <2>8, TextIs
<1> QED
  BY <1>1, <1>2

(* Data r that has the cells of a text and a terminator behind it. *)
LEMMA AppendText ==
  ASSUME NEW s, IsString(s), NEW data \in Seq(StringCells)
  PROVE  HoldsText(StringDataAppend(s, data), Text(s) \o data)
<1> DEFINE end == s.len + Len(data)
           b == BufferResize(s, end + 1)
           cell(i) == IF i \in (s.len + 1)..end THEN data[i - s.len]
                      ELSE IF i = end + 1 THEN Nul ELSE b.cells[i]
           cells == [i \in DOMAIN b.cells |-> cell(i)]
           r == StringDataAppend(s, data)
           t == Text(s) \o data
<1>1. end \in Nat /\ s.len <= end /\ s.len \in Nat /\ Len(data) \in Nat /\ end - s.len = Len(data)
  BY TextIs
<1>2. /\ t \in Seq(StringCells) /\ Len(t) = end
      /\ \A i \in 1..s.len : t[i] = s.cells[i]
      /\ \A i \in (s.len + 1)..end : t[i] = data[i - s.len]
  <2> DEFINE own == Text(s)
  <2>1. own \in Seq(StringCells) /\ Len(own) = s.len /\ \A i \in 1..s.len : own[i] = s.cells[i]
    BY TextIs
  <2> HIDE DEF own
  <2>2. own \o data \in Seq(StringCells) /\ Len(own \o data) = s.len + Len(data)
    BY <2>1
  <2>3. \A i \in 1..s.len : (own \o data)[i] = own[i]
    BY <1>1, <2>1
  <2>4. \A i \in (s.len + 1)..(s.len + Len(data)) : (own \o data)[i] = data[i - s.len]
    BY <1>1, <2>1
  <2> QED
    BY <2>1, <2>2, <2>3, <2>4 DEF own
<1>3. b \in StringBuffers /\ b.len = s.len
  BY <1>1, ResizeStringBuffer DEF IsString
<1>4. Grown(b, s, end + 1, StringCells) /\ b.size = end + 1
  <2>1. end + 1 \in Nat /\ IsBuffer(s, StringCells)
    BY <1>1, TextIs
  <2> QED
    BY <2>1, StringCellValues, ResizeCells
<1>5. r = [[b EXCEPT !.len = end] EXCEPT !.cells = cells]
  BY <1>3, SMT DEF StringDataAppend, StringBuffers
<1> HIDE DEF r, b, t
<1>6. /\ b.cells \in Seq(StringCells) /\ Len(b.cells) \in Nat /\ end + 1 <= Len(b.cells)
      /\ b.pod = TRUE /\ \A i \in 1..s.len : b.cells[i] = s.cells[i]
  <2>1. \A i \in 1..s.len : i \in 1..Len(s.cells)
    BY TextIs DEF IsString
  <2> QED
    BY <1>4, <2>1 DEF Grown, IsBuffer, SameKind, Keeps, IsString
<1> HIDE DEF end
<1>7. \A i \in 1..Len(b.cells) : cell(i) \in StringCells
  <2> TAKE i \in 1..Len(b.cells)
  <2>1. CASE i \in (s.len + 1)..end
    <3>1. i - s.len \in 1..Len(data)
      BY <1>1, <2>1
    <3> QED
      BY <2>1, <3>1
  <2>2. CASE ~(i \in (s.len + 1)..end)
    BY <1>6, <2>2, StringCellValues
  <2> QED
    BY <2>1, <2>2
<1> HIDE DEF cell
<1>8. cells \in Seq(StringCells) /\ Len(cells) = Len(b.cells) /\ \A i \in 1..Len(b.cells) : cells[i] = cell(i)
  BY <1>6, <1>7
<1> HIDE DEF cells
<1>9. /\ r \in StringBuffers /\ r.pod = TRUE /\ r.cells = cells /\ r.len = end /\ r.size = end + 1
  <2> DEFINE c == [b EXCEPT !.len = end]
  <2>1. /\ c \in StringBuffers /\ c.pod = b.pod /\ c.cells = b.cells /\ c.len = end
        /\ c.size = b.size
    BY <1>1, <1>3, SMT DEF StringBuffers
  <2>2. r = [c EXCEPT !.cells = cells]
    BY <1>5
  <2> HIDE DEF c
  <2>3. /\ r \in StringBuffers /\ r.pod = c.pod /\ r.cells = cells /\ r.len = c.len
        /\ r.size = c.size
    BY <1>8, <2>1, <2>2, SMT DEF StringBuffers
  <2> QED
    BY <1>4, <1>6, <2>1, <2>3
<1>10. r.cells[end + 1] = Nul
  BY <1>1, <1>6, <1>8, <1>9 DEF cell
<1>11. IsString(r)
  BY <1>1, <1>6, <1>8, <1>9, <1>10 DEF IsString
<1>12. \A i \in 1..end : r.cells[i] = t[i]
  <2> TAKE i \in 1..end
  <2>1. i \in 1..Len(b.cells)
    BY <1>1, <1>6
  <2>2. r.cells[i] = cell(i)
    BY <1>8, <1>9, <2>1
  <2>3. CASE i \in (s.len + 1)..end
    BY <1>2, <2>2, <2>3 DEF cell
  <2>4. CASE i \in 1..s.len
    BY <1>1, <1>2, <1>6, <2>2, <2>4 DEF cell
  <2> QED
    BY <1>1, <2>3, <2>4
<1>13. HoldsText(r, t)
  BY <1>2, <1>9, <1>11, <1>12, HoldsTextCells
<1> QED
  BY <1>13 DEF r, t

(* resize() down cuts the text; upwards, what follows is what memory held. *)
LEMMA ResizeText ==
  ASSUME NEW s, IsString(s), NEW n \in Nat
  PROVE  /\ IsString(StringDataResize(s, n + 1))
         /\ n <= s.len => Text(StringDataResize(s, n + 1)) = SubSeq(Text(s), 1, n)
<1> DEFINE r == StringDataResize(s, n + 1)
<1>1. n + 1 \in Nat /\ n + 1 > 0 /\ (n + 1) - 1 = n
  OBVIOUS
<1>2. ResizedTo(r, s, n + 1)
  BY <1>1, ResizedString DEF IsString
<1> HIDE DEF r
<1>3. r.len = n /\ r.size = n + 1 /\ r.cells[n + 1] = Nul /\ n + 1 <= Len(r.cells) /\ r.pod /\ r \in StringBuffers
  BY <1>1, <1>2 DEF ResizedTo
<1>4. Len(r.cells) \in Nat
  BY <1>3 DEF StringBuffers
<1>5. IsString(r)
  BY <1>3, <1>4 DEF IsString
<1>6. ASSUME n <= s.len
      PROVE  Text(r) = SubSeq(Text(s), 1, n)
  <2> DEFINE t == SubSeq(Text(s), 1, n)
  <2>1. t \in Seq(StringCells) /\ Len(t) = n /\ \A i \in 1..n : t[i] = Text(s)[i]
    BY <1>6, TextIs
  <2>2. \A i \in 1..n : i \in 1..s.len /\ i \in 1..Len(s.cells) /\ i # n + 1
    BY <1>6, TextIs DEF IsString
  <2>3. \A i \in 1..n : r.cells[i] = t[i]
    BY <1>2, <2>1, <2>2, TextIs DEF ResizedTo
  <2> HIDE DEF t
  <2>4. HoldsText(r, t)
    BY <1>3, <1>5, <2>1, <2>3, HoldsTextCells
  <2> QED
    BY <2>4 DEF HoldsText, t
<1> QED
  BY <1>5, <1>6 DEF r

(* operator[] writes one character of the text. *)
LEMMA SetText ==
  ASSUME NEW s, IsString(s), NEW i \in 1..s.len, NEW c \in Char
  PROVE  HoldsText([s EXCEPT !.cells[i] = c], [Text(s) EXCEPT ![i] = c])
<1> DEFINE cells == [s.cells EXCEPT ![i] = c]
           r == [s EXCEPT !.cells[i] = c]
           t == [Text(s) EXCEPT ![i] = c]
<1>1. s.len \in Nat /\ s.len <= Len(s.cells) /\ s.cells \in Seq(StringCells) /\ Len(s.cells) \in Nat
  BY TextIs DEF IsString
<1>2. i \in 1..Len(s.cells) /\ s.size = s.len + 1 /\ s.cells[s.size] = Nul
  BY <1>1 DEF IsString
<1>3. /\ cells \in Seq(StringCells) /\ Len(cells) = Len(s.cells)
      /\ \A j \in 1..Len(s.cells) : cells[j] = IF j = i THEN c ELSE s.cells[j]
  BY <1>1, <1>2, StringCellValues
<1>4. r = [s EXCEPT !.cells = cells]
  BY SMT DEF IsString, StringBuffers
<1>5. /\ t \in Seq(StringCells) /\ Len(t) = s.len
      /\ \A j \in 1..s.len : t[j] = IF j = i THEN c ELSE Text(s)[j]
  BY TextIs, StringCellValues
<1> HIDE DEF cells, r, t
<1>6. /\ r \in StringBuffers /\ r.pod = s.pod /\ r.cells = cells /\ r.len = s.len /\ r.size = s.size
  <2>1. s \in StringBuffers
    BY DEF IsString
  <2> QED
    BY <1>3, <1>4, <2>1, SMT DEF StringBuffers
<1>7. s.size \in 1..Len(s.cells) /\ s.size # i
  BY <1>1, <1>2 DEF IsString
<1>8. IsString(r)
  BY <1>2, <1>3, <1>6, <1>7 DEF IsString
<1>9. \A j \in 1..s.len : r.cells[j] = t[j]
  <2> TAKE j \in 1..s.len
  <2>1. j \in 1..Len(s.cells)
    BY <1>1
  <2> QED
    BY <1>3, <1>5, <1>6, <2>1, TextIs
<1>10. HoldsText(r, t)
  BY <1>5, <1>6, <1>8, <1>9, HoldsTextCells
<1> QED
  BY <1>10 DEF r, t

(* What detachOrInitialize() gives holds the text of the string. *)
LEMMA DetachedText ==
  ASSUME string = NoString \/ IsString(string)
  PROVE  HoldsText(DetachedString, Text(string))
<1>1. CASE string = NoString
  BY <1>1, NullDataHolds DEF DetachedString, Text, HoldsText
<1>2. CASE string # NoString
  BY <1>2, CloneHolds DEF DetachedString, HoldsText
<1> QED
  BY <1>1, <1>2

-----------------------------------------------------------------------------
(* Comparing and searching. *)

Agree(cells, at, data, i, n) == \A j \in i..n : cells[at + j] = data[j]

(* strcmp and strncmp compare up to the end of data without null characters.*)
LEMMA SameMeans ==
  ASSUME NEW cells, NEW at \in Int, NEW data, NEW n \in Nat,
         \A i \in 1 .. n - 1 : data[i] # Nul
  PROVE  SameCells(cells, at, data, n) <=> Agree(cells, at, data, 1, n)
<1> DEFINE D == 1..(n + 1)
           body(g, i) == \/ i > n
                         \/ /\ cells[at + i] = data[i]
                            /\ data[i] = Nul \/ g[i + 1]
           f == [i \in D |-> Agree(cells, at, data, i, n)]
           same == CHOOSE g : g = [i \in D |-> body(g, i)]
<1>1. ASSUME NEW g, NEW i \in D, \A j \in D : i < j => (g[j] <=> Agree(cells, at, data, j, n))
      PROVE  body(g, i) <=> Agree(cells, at, data, i, n)
  <2>1. CASE i = n + 1
    BY <2>1 DEF Agree
  <2>2. CASE i \in 1..n
    <3>1. g[i + 1] <=> Agree(cells, at, data, i + 1, n)
      BY <1>1, <2>2
    <3>2. Agree(cells, at, data, i, n) <=> cells[at + i] = data[i] /\ Agree(cells, at, data, i + 1, n)
      <4>1. \A j \in i..n : j = i \/ j \in (i + 1)..n
        BY <2>2
      <4>2. i \in i..n /\ \A j \in (i + 1)..n : j \in i..n
        BY <2>2
      <4> QED
        BY <4>1, <4>2 DEF Agree
    <3>3. data[i] = Nul => Agree(cells, at, data, i + 1, n)
      <4>1. data[i] = Nul => i = n
        BY <2>2
      <4>2. i = n => (i + 1)..n = {}
        BY <2>2
      <4> QED
        BY <4>1, <4>2 DEF Agree
    <3> QED
      BY <2>2, <3>1, <3>2, <3>3
  <2> QED
    BY <2>1, <2>2
<1>2. f = [i \in D |-> body(f, i)]
  <2>1. \A i \in D : f[i] = Agree(cells, at, data, i, n)
    OBVIOUS
  <2> DEFINE other(i) == body(f, i)
  <2>2. \A i \in D : other(i) = Agree(cells, at, data, i, n)
    <3> HIDE DEF f
    <3> SUFFICES ASSUME NEW i \in D PROVE other(i) <=> Agree(cells, at, data, i, n)
      BY DEF Agree
    <3>1. \A j \in D : i < j => (f[j] <=> Agree(cells, at, data, j, n))
      BY <2>1
    <3> HIDE DEF D, body
    <3>2. body(f, i) <=> Agree(cells, at, data, i, n)
      BY <1>1, <3>1
    <3> QED
      BY <3>2
  <2>3. f = [i \in D |-> Agree(cells, at, data, i, n)]
    OBVIOUS
  <2> HIDE DEF f, other
  <2>4. f = [i \in D |-> other(i)]
    BY <2>2, <2>3
  <2> QED
    BY <2>4 DEF other
<1>3. same = [i \in D |-> body(same, i)]
  <2> HIDE DEF f, D, body
  <2>1. \E g : g = [i \in D |-> body(g, i)]
    BY <1>2
  <2> QED
    BY <2>1
<1>4. SameCells(cells, at, data, n) = same[1]
  BY DEF SameCells
<1> HIDE DEF same
<1> DEFINE S == {i \in D : same[i] <=> Agree(cells, at, data, i, n)}
<1>5. ASSUME NEW i \in D, \A j \in D : i < j => j \in S
      PROVE  i \in S
  <2>1. same[i] = body(same, i)
    <3> HIDE DEF body
    <3> QED
      BY <1>3
  <2>2. \A j \in D : i < j => (same[j] <=> Agree(cells, at, data, j, n))
    BY <1>5
  <2> HIDE DEF body
  <2>3. body(same, i) <=> Agree(cells, at, data, i, n)
    BY <1>1, <2>2
  <2> QED
    BY <2>1, <2>3
<1> HIDE DEF S
<1>6. D \subseteq S
  <2>1. 1 \in Nat /\ n + 1 \in Nat
    OBVIOUS
  <2> QED
    BY <1>5, <2>1, DownTo
<1>7. 1 \in S
  BY <1>6
<1> QED
  BY <1>4, <1>7 DEF S

(* The places at which a needle is found. *)
Places(text, needle, pos) ==
  {i \in pos..(Len(text) - Len(needle)) : SubSeq(text, i + 1, i + Len(needle)) = needle}

(* A search finds the first place, or none. *)
LEMMA NextIndexIs ==
  ASSUME NEW S, NEW text \in Seq(S), NEW needle \in Seq(S), NEW pos \in Nat
  PROVE  LET at == NextIndexOf(text, needle, pos)
         IN IF pos >= Len(text) \/ Places(text, needle, pos) = {} THEN at = npos
            ELSE /\ at \in Places(text, needle, pos) /\ at # npos
                 /\ \A i \in Places(text, needle, pos) : at <= i
<1> DEFINE found == Places(text, needle, pos)
           at == NextIndexOf(text, needle, pos)
<1>1. at = IF pos >= Len(text) \/ found = {} THEN npos ELSE Smallest(found)
  BY DEF NextIndexOf, Places
<1>2. found \subseteq Nat
  BY DEF Places
<1>3. found # {} => Smallest(found) \in found /\ \A i \in found : Smallest(found) <= i
  <2> HIDE DEF found
  <2>1. found # {} => \E x \in found : \A y \in found : x <= y
    BY <1>2, LeastNatural
  <2> QED
    BY <2>1 DEF Smallest
<1>4. npos \notin found
  BY <1>2 DEF npos
<1> HIDE DEF at
<1>5. IF pos >= Len(text) \/ found = {} THEN at = npos
      ELSE at \in found /\ at # npos /\ \A i \in found : at <= i
  <2> HIDE DEF found
  <2> QED
    BY <1>1, <1>3, <1>4
<1> QED
  BY <1>5 DEF at

(* contains() *)
LEMMA HasTextIs ==
  ASSUME NEW S, NEW text \in Seq(S), NEW needle \in Seq(S)
  PROVE  HasText(text, needle) <=>
           text # <<>> /\ \E i \in 0..(Len(text) - Len(needle)) : SubSeq(text, i + 1, i + Len(needle)) = needle
<1>1. 0 >= Len(text) <=> text = <<>>
  OBVIOUS
<1>2. HasText(text, needle) <=> text # <<>> /\ Places(text, needle, 0) # {}
  BY <1>1, NextIndexIs DEF HasText
<1> QED
  BY <1>2 DEF Places

(* lastIndexOf() finds the last place, or none. *)
LEMMA LastIndexIs ==
  ASSUME NEW S, NEW text \in Seq(S), NEW needle \in Seq(S), LastIndexOf(text, needle) # npos,
         NEW i \in (LastIndexOf(text, needle) + 1)..(Len(text) - Len(needle))
  PROVE  SubSeq(text, i + 1, i + Len(needle)) # needle
<1> DEFINE found == Places(text, needle, 0)
           at == LastIndexOf(text, needle)
           last == Len(text) - Len(needle)
           T == {last - k : k \in found}
<1>1. at = IF needle = <<>> \/ found = {} THEN npos ELSE CHOOSE k \in found : \A j \in found : j <= k
  BY DEF LastIndexOf, Places
<1>2. last \in Int /\ \A k \in found : k \in Nat /\ k <= last
  BY DEF Places
<1>3. found # {}
  BY <1>1
<1>4. \E k \in found : \A j \in found : j <= k
  <2> HIDE DEF found, last
  <2>1. T \subseteq Nat /\ T # {}
    BY <1>2, <1>3
  <2>2. PICK m \in T : \A l \in T : m <= l
    BY <2>1, LeastNatural
  <2>3. PICK k \in found : m = last - k
    BY <2>2
  <2>4. \A j \in found : last - k <= last - j
    BY <2>2, <2>3
  <2> QED
    BY <1>2, <2>4
<1>5. at \in found /\ \A j \in found : j <= at
  <2> HIDE DEF found
  <2> QED
    BY <1>1, <1>4
<1> HIDE DEF at
<1>6. i \in (at + 1)..last
  BY DEF at
<1>7. i \notin found
  BY <1>2, <1>5, <1>6
<1> QED
  BY <1>2, <1>5, <1>6, <1>7 DEF Places

(* What is searched for is a text without null characters. *)
LEMMA NeedleIs ==
  ASSUME NEW n \in Nat, NEW t \in Texts(n)
  PROVE  t \in Seq(Char) /\ t \in Seq(StringCells) /\ Len(t) \in 0..n /\ \A i \in 1..Len(t) : t[i] \in Char /\ t[i] # Nul
<1>1. PICK k \in 0..n : t \in [1..k -> Char]
  BY DEF Texts
<1>2. t \in Seq(Char) /\ Len(t) = k
  BY <1>1
<1> QED
  BY <1>2, StringAssumption, StringCellValues, SeqMonotonic

(* What the cells of a string that is no empty text are. *)
Shown(s, text) ==
  /\ text \in Seq(StringCells) /\ Len(text) = s.len /\ s.len \in Nat /\ s.len > 0
  /\ \A i \in 1..s.len : s.cells[i] = text[i] /\ text[i] # Nul
  /\ s.cells[s.len + 1] = Nul

(* equals(), startsWith() and endsWith() of a terminated string or a null   *)
(* one are about its text.                                                 *)
LEMMA EqualsMeans ==
  ASSUME NEW s, NEW text, Shown(s, text), NEW needle \in Seq(StringCells), needle # <<>>,
         \A i \in 1..Len(needle) : needle[i] # Nul
  PROVE  SameCells(s.cells, 0, Append(needle, Nul), Len(needle) + 1) <=> text = needle
<1> DEFINE data == Append(needle, Nul)
           n == Len(needle) + 1
<1>1. /\ n \in Nat /\ Len(needle) \in Nat
      /\ \A i \in 1..Len(needle) : data[i] = needle[i]
      /\ data[n] = Nul
  BY AppendProperties, StringCellValues
<1> HIDE DEF data
<1>2. SameCells(s.cells, 0, data, n) <=> \A j \in 1..n : s.cells[j] = data[j]
  <2>1. \A i \in 1 .. n - 1 : data[i] # Nul
    BY <1>1
  <2>2. SameCells(s.cells, 0, data, n) <=> Agree(s.cells, 0, data, 1, n)
    BY <1>1, <2>1, SameMeans
  <2>3. \A j \in 1..n : 0 + j = j
    OBVIOUS
  <2> QED
    BY <2>2, <2>3 DEF Agree
<1>3. ASSUME text = needle PROVE \A j \in 1..n : s.cells[j] = data[j]
  BY <1>1, <1>3 DEF Shown
<1>4. ASSUME \A j \in 1..n : s.cells[j] = data[j] PROVE text = needle
  <2>1. ~(Len(needle) < s.len)
    <3> SUFFICES ASSUME Len(needle) < s.len PROVE FALSE
      OBVIOUS
    <3>1. n \in 1..n /\ n \in 1..s.len
      BY <1>1 DEF Shown
    <3> QED
      BY <1>1, <1>4, <3>1 DEF Shown
  <2>2. ~(s.len < Len(needle))
    <3> SUFFICES ASSUME s.len < Len(needle) PROVE FALSE
      OBVIOUS
    <3>1. s.len + 1 \in 1..n /\ s.len + 1 \in 1..Len(needle)
      BY <1>1 DEF Shown
    <3> QED
      BY <1>1, <1>4, <3>1 DEF Shown
  <2>3. Len(text) = Len(needle)
    BY <1>1, <2>1, <2>2 DEF Shown
  <2>4. \A i \in 1..Len(text) : text[i] = needle[i]
    BY <1>1, <1>4, <2>3 DEF Shown
  <2> QED
    BY <2>3, <2>4, SeqEqual DEF Shown
<1> QED
  BY <1>2, <1>3, <1>4 DEF data

LEMMA StartsMeans ==
  ASSUME NEW s, NEW text, Shown(s, text), NEW needle \in Seq(StringCells),
         \A i \in 1..Len(needle) : needle[i] # Nul
  PROVE  SameCells(s.cells, 0, needle, Len(needle)) <=>
           Len(needle) <= Len(text) /\ SubSeq(text, 1, Len(needle)) = needle
<1> DEFINE n == Len(needle)
<1>1. SameCells(s.cells, 0, needle, n) <=> \A j \in 1..n : s.cells[j] = needle[j]
  <2>1. SameCells(s.cells, 0, needle, n) <=> Agree(s.cells, 0, needle, 1, n)
    BY SameMeans
  <2>2. \A j \in 1..n : 0 + j = j
    OBVIOUS
  <2> QED
    BY <2>1, <2>2 DEF Agree
<1>2. CASE n <= Len(text)
  <2> DEFINE sub == SubSeq(text, 1, n)
  <2>1. sub \in Seq(StringCells) /\ Len(sub) = n /\ \A i \in 1..n : sub[i] = text[i]
    BY <1>2 DEF Shown
  <2>2. \A i \in 1..n : s.cells[i] = text[i]
    BY <1>2 DEF Shown
  <2> HIDE DEF sub
  <2>3. sub = needle <=> \A j \in 1..n : s.cells[j] = needle[j]
    BY <2>1, <2>2, SeqEqual
  <2> QED
    BY <1>1, <1>2, <2>3 DEF sub
<1>3. CASE ~(n <= Len(text))
  <2>1. s.len + 1 \in 1..n
    BY <1>3 DEF Shown
  <2>2. s.cells[s.len + 1] # needle[s.len + 1]
    BY <2>1 DEF Shown
  <2> QED
    BY <1>1, <1>3, <2>1, <2>2
<1> QED
  BY <1>2, <1>3

LEMMA EndsMeans ==
  ASSUME NEW s, NEW text, Shown(s, text), NEW needle \in Seq(StringCells),
         \A i \in 1..Len(needle) : needle[i] # Nul, Len(needle) <= Len(text)
  PROVE  SameCells(s.cells, s.len - Len(needle), needle, Len(needle)) <=>
           SubSeq(text, Len(text) - Len(needle) + 1, Len(text)) = needle
<1> DEFINE n == Len(needle)
           at == s.len - n
           sub == SubSeq(text, Len(text) - n + 1, Len(text))
<1>1. at \in Nat /\ n \in Nat /\ at + n = s.len /\ s.len \in Nat
  BY DEF Shown
<1>2. SameCells(s.cells, at, needle, n) <=> \A j \in 1..n : s.cells[at + j] = needle[j]
  <2>1. SameCells(s.cells, at, needle, n) <=> Agree(s.cells, at, needle, 1, n)
    <3>1. at \in Int /\ \A i \in 1 .. n - 1 : needle[i] # Nul
      BY <1>1
    <3> HIDE DEF at
    <3> QED
      BY <1>1, <3>1, SameMeans
  <2> QED
    BY <2>1 DEF Agree
<1>3. sub \in Seq(StringCells) /\ Len(sub) = n /\ \A i \in 1..n : sub[i] = text[at + i]
  <2>1. Len(text) - n + 1 \in Int /\ Len(text) \in Int /\ Len(text) = s.len
    BY <1>1 DEF Shown
  <2>2. \A i \in (Len(text) - n + 1)..Len(text) : text[i] \in StringCells
    BY <1>1 DEF Shown
  <2>3. /\ sub \in Seq(StringCells)
        /\ Len(sub) = IF Len(text) - n + 1 <= Len(text) THEN Len(text) - (Len(text) - n + 1) + 1 ELSE 0
        /\ \A i \in 1 .. Len(text) - (Len(text) - n + 1) + 1 : sub[i] = text[(Len(text) - n + 1) + i - 1]
    BY <2>1, <2>2, SubSeqProperties
  <2> HIDE DEF sub
  <2>4. Len(sub) = n
    BY <1>1, <2>1, <2>3
  <2>5. \A i \in 1..n : sub[i] = text[at + i]
    <3> HIDE DEF n
    <3>1. Len(text) - (Len(text) - n + 1) + 1 = n
      BY <1>1, <2>1
    <3>2. \A i \in 1..n : (Len(text) - n + 1) + i - 1 = at + i
      BY <1>1, <2>1
    <3> QED
      BY <2>3, <3>1, <3>2
  <2> QED
    BY <2>3, <2>4, <2>5
<1>4. \A i \in 1..n : at + i \in 1..s.len
  BY <1>1
<1>5. \A i \in 1..n : s.cells[at + i] = text[at + i]
  BY <1>4 DEF Shown
<1> HIDE DEF sub, at, n
<1>6. n = Len(needle)
  BY DEF n
<1>7. sub = needle <=> \A j \in 1..n : s.cells[at + j] = needle[j]
  BY <1>3, <1>5, <1>6, SeqEqual
<1> QED
  BY <1>2, <1>7 DEF n, at, sub

(* All answers together. *)
LEMMA AnswersHold ==
  ASSUME string = NoString \/ IsString(string), Plain, ~Unterminated
  PROVE  AnswersTrue
<1> DEFINE text == Text(string)
<1>1. text \in Seq(StringCells)
  BY TextIs DEF Text
<1>2. text # <<>> => Shown(string, text)
  <2> SUFFICES ASSUME text # <<>> PROVE Shown(string, text)
    OBVIOUS
  <2>1. IsString(string)
    BY DEF Text
  <2>2. /\ Len(text) = string.len /\ string.len \in Nat
        /\ \A i \in 1..string.len : string.cells[i] = text[i]
    BY <2>1, TextIs
  <2>3. string.len > 0
    BY <1>1, <2>2
  <2>4. \A i \in 1..string.len : text[i] # Nul
    BY <1>1, <2>2, StringAssumption DEF Plain
  <2> HIDE DEF text
  <2> QED
    BY <1>1, <2>1, <2>2, <2>3, <2>4 DEF Shown, IsString
<1>3. IsNullOrEmpty(string) <=> text = <<>>
  <2>1. CASE text = <<>>
    BY <2>1 DEF Unterminated
  <2>2. CASE text # <<>>
    <3>1. string # NoString
      BY <2>2 DEF Text
    <3>2. string.cells # <<>> /\ string.cells[1] # Nul
      <4>1. IsString(string) /\ Shown(string, text) /\ 1 \in 1..string.len
        BY <1>2, <2>2, <3>1 DEF Shown
      <4>2. Len(string.cells) > 0 /\ Len(<<>>) = 0
        BY <4>1, TextIs DEF Shown, IsString
      <4> HIDE DEF text
      <4> QED
        BY <4>1, <4>2 DEF Shown
    <3> QED
      BY <2>2, <3>1, <3>2 DEF IsNullOrEmpty
  <2> QED
    BY <2>1, <2>2
<1> HIDE DEF text
<1> SUFFICES ASSUME NEW needle \in Texts(2)
             PROVE  /\ HasText(text, needle) <=>
                         text # <<>> /\ \E i \in 0..(Len(text) - Len(needle)) : SubSeq(text, i + 1, i + Len(needle)) = needle
                    /\ Equals(string, needle) <=> text = needle
                    /\ StartsWith(string, needle) <=>
                         /\ text # <<>> /\ Len(needle) <= Len(text)
                         /\ SubSeq(text, 1, Len(needle)) = needle
                    /\ Len(needle) <= Len(text) =>
                         (EndsWith(string, needle) <=>
                            text # <<>> /\ SubSeq(text, Len(text) - Len(needle) + 1, Len(text)) = needle)
                    /\ LET at == LastIndexOf(text, needle) IN
                       at # npos => \A i \in (at + 1)..(Len(text) - Len(needle)) : SubSeq(text, i + 1, i + Len(needle)) # needle
  BY DEF AnswersTrue, text
<1>4. needle \in Seq(StringCells) /\ \A i \in 1..Len(needle) : needle[i] # Nul
  <2>1. 2 \in Nat
    OBVIOUS
  <2> QED
    BY <2>1, NeedleIs
<1>5. HasText(text, needle) <=>
        text # <<>> /\ \E i \in 0..(Len(text) - Len(needle)) : SubSeq(text, i + 1, i + Len(needle)) = needle
  BY <1>1, <1>4, HasTextIs
<1>6. Equals(string, needle) <=> text = needle
  <2>1. CASE text # <<>> /\ needle # <<>>
    BY <1>2, <1>3, <1>4, <2>1, EqualsMeans DEF Equals
  <2>2. CASE ~(text # <<>> /\ needle # <<>>)
    BY <1>3, <2>2 DEF Equals
  <2> QED
    BY <2>1, <2>2
<1>7. StartsWith(string, needle) <=>
        text # <<>> /\ Len(needle) <= Len(text) /\ SubSeq(text, 1, Len(needle)) = needle
  BY <1>2, <1>3, <1>4, StartsMeans DEF StartsWith
<1>8. Len(needle) <= Len(text) =>
        (EndsWith(string, needle) <=>
           text # <<>> /\ SubSeq(text, Len(text) - Len(needle) + 1, Len(text)) = needle)
  BY <1>2, <1>3, <1>4, EndsMeans DEF EndsWith
<1>9. LastIndexOf(text, needle) # npos =>
        \A i \in (LastIndexOf(text, needle) + 1)..(Len(text) - Len(needle)) :
          SubSeq(text, i + 1, i + Len(needle)) # needle
  BY <1>1, <1>4, LastIndexIs
<1> QED
  BY <1>5, <1>6, <1>7, <1>8, <1>9

-----------------------------------------------------------------------------
(* replace. *)

(* At position i, counted from 0, the needle stands in the text. *)
Stands(text, needle, i) ==
  i + Len(needle) <= Len(text) /\ SubSeq(text, i + 1, i + Len(needle)) = needle

(* What a search that begins at b finds. *)
LEMMA SearchFrom ==
  ASSUME NEW C, NEW text \in Seq(C), NEW needle \in Seq(C), needle # <<>>, NEW b \in 0..Len(text)
  PROVE  LET p == NextIndexOf(text, needle, b)
         IN IF p = npos THEN \A i \in b..Len(text) : ~Stands(text, needle, i)
            ELSE /\ p \in b .. Len(text) - 1 /\ Stands(text, needle, p)
                 /\ \A i \in b .. p - 1 : ~Stands(text, needle, i)
<1> DEFINE p == NextIndexOf(text, needle, b)
           P == Places(text, needle, b)
<1>1. Len(text) \in Nat /\ Len(needle) \in Nat /\ Len(needle) > 0
  OBVIOUS
<1>2. \A i \in b..Len(text) : Stands(text, needle, i) <=> i \in P
  BY <1>1 DEF Stands, Places
<1>3. P \subseteq b .. Len(text) - 1
  BY <1>1 DEF Places
<1>4. IF b >= Len(text) \/ P = {} THEN p = npos ELSE p \in P /\ p # npos /\ \A i \in P : p <= i
  BY NextIndexIs
<1>5. CASE p = npos
  <2>1. P = {}
    BY <1>1, <1>3, <1>4, <1>5
  <2> HIDE DEF P, p
  <2> QED
    BY <1>2, <1>5, <2>1 DEF p
<1>6. CASE p # npos
  <2>1. p \in P /\ \A i \in P : p <= i
    BY <1>4, <1>6
  <2> HIDE DEF P, p
  <2>2. p \in b .. Len(text) - 1
    BY <1>3, <2>1
  <2>3. \A i \in b .. p - 1 : i \in b..Len(text) /\ ~(p <= i)
    BY <1>1, <2>2
  <2>4. p \in b..Len(text)
    BY <1>1, <2>2
  <2> QED
    BY <1>2, <1>6, <2>1, <2>2, <2>3, <2>4 DEF p
<1> QED
  BY <1>5, <1>6

(* If nothing stands at b, a search from there is one from behind it. *)
LEMMA SearchOn ==
  ASSUME NEW C, NEW text \in Seq(C), NEW needle \in Seq(C), needle # <<>>,
         NEW b \in 0 .. Len(text) - 1, ~Stands(text, needle, b)
  PROVE  NextIndexOf(text, needle, b + 1) = NextIndexOf(text, needle, b)
<1> DEFINE p == NextIndexOf(text, needle, b)
           q == NextIndexOf(text, needle, b + 1)
<1>1. Len(text) \in Nat /\ b \in 0..Len(text) /\ b + 1 \in 0..Len(text)
  OBVIOUS
<1>2. IF p = npos THEN \A i \in b..Len(text) : ~Stands(text, needle, i)
      ELSE /\ p \in b .. Len(text) - 1 /\ Stands(text, needle, p)
           /\ \A i \in b .. p - 1 : ~Stands(text, needle, i)
  BY <1>1, SearchFrom
<1>3. IF q = npos THEN \A i \in (b + 1)..Len(text) : ~Stands(text, needle, i)
      ELSE /\ q \in b + 1 .. Len(text) - 1 /\ Stands(text, needle, q)
           /\ \A i \in b + 1 .. q - 1 : ~Stands(text, needle, i)
  BY <1>1, SearchFrom
<1> HIDE DEF p, q
<1>4. CASE p = npos
  <2>1. q # npos => q \in b..Len(text)
    BY <1>1, <1>3
  <2> QED
    BY <1>2, <1>3, <1>4, <2>1 DEF p, q
<1>5. CASE p # npos
  <2>1. p \in (b + 1) .. Len(text) - 1 /\ Stands(text, needle, p)
    <3>1. p # b
      BY <1>2, <1>5
    <3> QED
      BY <1>1, <1>2, <1>5, <3>1
  <2>2. q # npos
    BY <1>1, <1>3, <2>1
  <2>3. ~(q < p)
    <3> SUFFICES ASSUME q < p PROVE FALSE
      OBVIOUS
    <3>1. q \in b .. p - 1
      BY <1>1, <1>3, <2>1, <2>2
    <3> QED
      BY <1>2, <1>3, <1>5, <2>2, <3>1
  <2>4. ~(p < q)
    <3> SUFFICES ASSUME p < q PROVE FALSE
      OBVIOUS
    <3>1. p \in (b + 1) .. q - 1
      BY <1>1, <1>3, <2>1, <2>2
    <3> QED
      BY <1>3, <2>1, <2>2, <3>1
  <2>5. p = q
    BY <1>1, <1>3, <2>1, <2>2, <2>3, <2>4
  <2> QED
    BY <2>5 DEF p, q
<1> QED
  BY <1>4, <1>5

(* The text that the loop of replace has to append from position b on. *)
ReplacesFrom(rest, text, from, to) ==
  rest = [b \in 0..Len(text) |->
            IF NextIndexOf(text, from, b) = npos THEN SubSeq(text, b + 1, Len(text))
            ELSE SubSeq(text, b + 1, NextIndexOf(text, from, b)) \o to
                   \o rest[NextIndexOf(text, from, b) + Len(from)]]

(* The next search begins behind what was found. *)
LEMMA SearchGoesOn ==
  ASSUME NEW C, NEW text \in Seq(C), NEW from \in Seq(C), from # <<>>, NEW b \in 0..Len(text),
         NextIndexOf(text, from, b) # npos
  PROVE  /\ NextIndexOf(text, from, b) \in b .. Len(text) - 1
         /\ NextIndexOf(text, from, b) + Len(from) \in 0..Len(text)
         /\ b < NextIndexOf(text, from, b) + Len(from)
<1> DEFINE p == NextIndexOf(text, from, b)
<1>1. p \in b .. Len(text) - 1 /\ Stands(text, from, p)
  BY SearchFrom
<1>2. Len(from) \in Nat /\ Len(from) > 0 /\ Len(text) \in Nat
  OBVIOUS
<1> HIDE DEF p
<1>3. p + Len(from) <= Len(text)
  BY <1>1 DEF Stands
<1> QED
  BY <1>1, <1>2, <1>3 DEF p

(* There is such a function. *)
LEMMA ReplacesExists ==
  ASSUME NEW C, NEW text \in Seq(C), NEW from \in Seq(C), NEW to \in Seq(C), from # <<>>
  PROVE  \E rest : ReplacesFrom(rest, text, from, to)
<1> DEFINE N == Len(text)
           P(b) == NextIndexOf(text, from, b)
           stops == [b \in 0..N |-> P(b) = npos]
           last == [b \in 0..N |-> SubSeq(text, b + 1, N)]
           first == [b \in 0..N |-> SubSeq(text, b + 1, P(b)) \o to]
           next == [b \in 0..N |-> P(b) + Len(from)]
<1>1. \A b \in 0..N : ~stops[b] => next[b] \in 0..N /\ b < next[b]
  <2> TAKE b \in 0..N
  <2> HAVE ~stops[b]
  <2>1. P(b) # npos
    OBVIOUS
  <2>2. next[b] = P(b) + Len(from)
    OBVIOUS
  <2> HIDE DEF next
  <2> QED
    BY <2>1, <2>2, SearchGoesOn
<1>2. \E f : Unfolding(f, 0, N, stops, last, first, next)
  <2>1. 0 \in Nat /\ N \in Nat
    OBVIOUS
  <2> HIDE DEF stops, last, first, next, N
  <2> QED
    BY <1>1, <2>1, Unfolds
<1>3. PICK f : Unfolding(f, 0, N, stops, last, first, next)
  BY <1>2
<1>4. ReplacesFrom(f, text, from, to)
  BY <1>3 DEF Unfolding, ReplacesFrom
<1> QED
  BY <1>4

(* The pieces that the loop of replace finds from position b on. *)
PartsFrom(parts, text, from) ==
  parts = [b \in 0..Len(text) |->
             IF NextIndexOf(text, from, b) = npos THEN <<SubSeq(text, b + 1, Len(text))>>
             ELSE <<SubSeq(text, b + 1, NextIndexOf(text, from, b))>>
                    \o parts[NextIndexOf(text, from, b) + Len(from)]]

(* replace() finds such pieces. *)
LEMMA PartsIs ==
  ASSUME NEW C, NEW text \in Seq(C), NEW from \in Seq(C), from # <<>>
  PROVE  \E parts : PartsFrom(parts, text, from) /\ Parts(text, from) = parts[0]
<1> DEFINE N == Len(text)
           P(b) == NextIndexOf(text, from, b)
           stops == [b \in 0..N |-> P(b) = npos]
           last == [b \in 0..N |-> <<SubSeq(text, b + 1, N)>>]
           first == [b \in 0..N |-> <<SubSeq(text, b + 1, P(b))>>]
           next == [b \in 0..N |-> P(b) + Len(from)]
           body(f, b) == IF P(b) = npos THEN <<SubSeq(text, b + 1, N)>>
                         ELSE <<SubSeq(text, b + 1, P(b))>> \o f[P(b) + Len(from)]
           parts == CHOOSE f : f = [b \in 0..N |-> body(f, b)]
<1>1. Parts(text, from) = parts[0]
  BY DEF Parts
<1>2. \A b \in 0..N : ~stops[b] => next[b] \in 0..N /\ b < next[b]
  <2> TAKE b \in 0..N
  <2> HAVE ~stops[b]
  <2>1. P(b) # npos
    OBVIOUS
  <2>2. next[b] = P(b) + Len(from)
    OBVIOUS
  <2> HIDE DEF next
  <2> QED
    BY <2>1, <2>2, SearchGoesOn
<1>3. \E f : Unfolding(f, 0, N, stops, last, first, next)
  <2>1. 0 \in Nat /\ N \in Nat
    OBVIOUS
  <2> HIDE DEF stops, last, first, next, N
  <2> QED
    BY <1>2, <2>1, Unfolds
<1>4. PICK f : Unfolding(f, 0, N, stops, last, first, next)
  BY <1>3
<1>5. f = [b \in 0..N |-> body(f, b)]
  BY <1>4 DEF Unfolding
<1>6. parts = [b \in 0..N |-> body(parts, b)]
  <2> HIDE DEF body
  <2> QED
    BY <1>5
<1> HIDE DEF parts
<1> QED
  BY <1>1, <1>6 DEF PartsFrom

(* What substitution makes of the text from position i on. *)
ReadsFrom(read, text, from, to) ==
  read = [i \in 1..(Len(text) + 1) |->
            IF i > Len(text) THEN <<>>
            ELSE IF /\ i + Len(from) - 1 <= Len(text)
                    /\ SubSeq(text, i, i + Len(from) - 1) = from
                 THEN to \o read[i + Len(from)]
            ELSE <<text[i]>> \o read[i + 1]]

(* And so does reading from left to right. *)
LEMMA SubstitutedIs ==
  ASSUME NEW C, NEW text \in Seq(C), NEW from \in Seq(C), NEW to \in Seq(C), from # <<>>
  PROVE  \E read : ReadsFrom(read, text, from, to) /\ Substituted(text, from, to) = read[1]
<1> DEFINE N == Len(text)
           D == 1..(N + 1)
           hit(i) == /\ i + Len(from) - 1 <= N
                     /\ SubSeq(text, i, i + Len(from) - 1) = from
           stops == [i \in D |-> i > N]
           last == [i \in D |-> <<>>]
           first == [i \in D |-> IF hit(i) THEN to ELSE <<text[i]>>]
           next == [i \in D |-> IF hit(i) THEN i + Len(from) ELSE i + 1]
           body(f, i) == IF i > N THEN <<>>
                         ELSE IF hit(i) THEN to \o f[i + Len(from)]
                         ELSE <<text[i]>> \o f[i + 1]
           read == CHOOSE f : f = [i \in D |-> body(f, i)]
<1>1. Substituted(text, from, to) = read[1]
  BY DEF Substituted
<1>2. \A i \in D : ~stops[i] => next[i] \in D /\ i < next[i]
  <2> TAKE i \in D
  <2> HAVE ~stops[i]
  <2>1. i <= N /\ N \in Nat /\ Len(from) \in Nat /\ Len(from) > 0
    <3>1. ~(i > N)
      OBVIOUS
    <3>2. N \in Nat /\ Len(from) \in Nat /\ Len(from) > 0
      OBVIOUS
    <3> HIDE DEF stops
    <3> QED
      BY <3>1, <3>2
  <2>2. next[i] = IF hit(i) THEN i + Len(from) ELSE i + 1
    OBVIOUS
  <2> HIDE DEF next
  <2> QED
    BY <2>1, <2>2
<1>3. \E f : Unfolding(f, 1, N + 1, stops, last, first, next)
  <2>1. 1 \in Nat /\ N + 1 \in Nat
    OBVIOUS
  <2> HIDE DEF stops, last, first, next, N
  <2> QED
    BY <1>2, <2>1, Unfolds
<1>4. PICK f : Unfolding(f, 1, N + 1, stops, last, first, next)
  BY <1>3
<1>5. f = [i \in D |-> body(f, i)]
  <2> HIDE DEF hit
  <2> QED
    BY <1>4 DEF Unfolding
<1>6. read = [i \in D |-> body(read, i)]
  <2> HIDE DEF body
  <2> QED
    BY <1>5
<1> HIDE DEF read
<1> QED
  BY <1>1, <1>6 DEF ReadsFrom

(* Replacing what is found from the left is substitution. *)
LEMMA ReplaceSubstitutes ==
  ASSUME NEW C, NEW text \in Seq(C), NEW from \in Seq(C), NEW to \in Seq(C), from # <<>>,
         NEW rest, ReplacesFrom(rest, text, from, to)
  PROVE  /\ rest[0] = Substituted(text, from, to)
         /\ \A b \in 0..Len(text) : rest[b] \in Seq(C)
<1> DEFINE N == Len(text)
           L == Len(from)
           P(b) == NextIndexOf(text, from, b)
<1>1. ReplacesFrom(rest, text, from, to)
  OBVIOUS
<1>2. PICK read : ReadsFrom(read, text, from, to) /\ Substituted(text, from, to) = read[1]
  BY SubstitutedIs
<1>3. N \in Nat /\ L \in Nat /\ L > 0
  OBVIOUS
<1>4. \A b \in 0..N : rest[b] = IF P(b) = npos THEN SubSeq(text, b + 1, N)
                                ELSE SubSeq(text, b + 1, P(b)) \o to \o rest[P(b) + L]
  BY <1>1 DEF ReplacesFrom
<1>5. \A b \in 0 .. N - 1 : read[b + 1] = IF Stands(text, from, b) THEN to \o read[b + L + 1]
                                          ELSE <<text[b + 1]>> \o read[b + 2]
  <2> TAKE b \in 0 .. N - 1
  <2>1. /\ b + 1 \in 1..(N + 1) /\ ~(b + 1 > N)
        /\ (b + 1) + L - 1 = b + L /\ (b + 1) + L = b + L + 1 /\ (b + 1) + 1 = b + 2
    BY <1>3
  <2>2. read[b + 1] = IF b + 1 > N THEN <<>>
                      ELSE IF /\ (b + 1) + L - 1 <= N
                              /\ SubSeq(text, b + 1, (b + 1) + L - 1) = from
                      THEN to \o read[(b + 1) + L]
                      ELSE <<text[b + 1]>> \o read[(b + 1) + 1]
    BY <1>2, <2>1 DEF ReadsFrom
  <2> QED
    BY <2>1, <2>2 DEF Stands
<1>6. read[N + 1] = <<>>
  <2>1. N + 1 \in 1..(N + 1) /\ N + 1 > N
    BY <1>3
  <2> QED
    BY <1>2, <2>1 DEF ReadsFrom
<1> DEFINE S == {b \in 0..N : rest[b] = read[b + 1] /\ rest[b] \in Seq(C)}
<1>7. ASSUME NEW b \in 0..N, \A c \in 0..N : b < c => c \in S
      PROVE  b \in S
  <2>1. CASE b = N
    <3>1. P(N) = npos
      <4>1. N \in 0..N /\ N .. N - 1 = {}
        BY <1>3
      <4> QED
        BY <4>1, SearchFrom
    <3>2. rest[N] = SubSeq(text, N + 1, N)
      <4>1. N \in 0..N
        BY <1>3
      <4> HIDE DEF P
      <4> QED
        BY <1>4, <3>1, <4>1
    <3>3. SubSeq(text, N + 1, N) = <<>>
      BY <1>3, SubSeqEmpty
    <3>4. rest[N] = <<>> /\ <<>> \in Seq(C)
      BY <3>2, <3>3
    <3> HIDE DEF N
    <3> QED
      BY <1>6, <2>1, <3>4
  <2>2. CASE b < N /\ Stands(text, from, b)
    <3>1. P(b) = b
      <4>1. /\ b \in b..N
            /\ P(b) # npos => P(b) \in b .. N - 1 /\ \A i \in b .. P(b) - 1 : ~Stands(text, from, i)
            /\ P(b) = npos => \A i \in b..N : ~Stands(text, from, i)
        BY <1>3, SearchFrom
      <4>2. P(b) # npos
        BY <2>2, <4>1
      <4> HIDE DEF P
      <4>3. ~(b < P(b))
        <5> SUFFICES ASSUME b < P(b) PROVE FALSE
          OBVIOUS
        <5>1. b \in b .. P(b) - 1
          BY <1>3, <4>1, <4>2
        <5> QED
          BY <2>2, <4>1, <4>2, <5>1
      <4> QED
        BY <1>3, <4>1, <4>2, <4>3
    <3>2. b # npos /\ b \in Nat
      BY DEF npos
    <3>3. rest[b] = SubSeq(text, b + 1, b) \o to \o rest[b + L]
      BY <1>4, <3>1, <3>2
    <3>4. SubSeq(text, b + 1, b) = <<>>
      BY SubSeqEmpty
    <3>5. b + L \in 0..N /\ b < b + L
      BY <1>3, <2>2 DEF Stands
    <3>6. rest[b + L] = read[b + L + 1] /\ rest[b + L] \in Seq(C)
      BY <1>7, <3>5
    <3>7. read[b + 1] = to \o read[b + L + 1]
      <4>1. b \in 0 .. N - 1
        BY <1>3, <2>2
      <4> QED
        BY <1>5, <2>2, <4>1
    <3>8. <<>> \o to = to /\ to \o rest[b + L] \in Seq(C)
      BY <3>6, ConcatEmptySeq, ConcatProperties
    <3> QED
      BY <3>3, <3>4, <3>6, <3>7, <3>8
  <2>3. CASE b < N /\ ~Stands(text, from, b)
    <3>1. b \in 0 .. N - 1 /\ b + 1 \in 0..N /\ b < b + 1 /\ b + 1 \in 1..N /\ (b + 1) + 1 = b + 2
      BY <1>3, <2>3
    <3>2. P(b + 1) = P(b)
      BY <2>3, <3>1, SearchOn
    <3>3. rest[b + 1] = read[b + 2] /\ rest[b + 1] \in Seq(C)
      BY <1>7, <3>1
    <3>4. read[b + 1] = <<text[b + 1]>> \o read[b + 2]
      BY <1>5, <2>3, <3>1
    <3>5. text[b + 1] \in C /\ <<text[b + 1]>> \in Seq(C)
      BY <3>1
    <3>6. rest[b] = <<text[b + 1]>> \o rest[b + 1]
      <4>1. CASE P(b) = npos
        <5>1. rest[b] = SubSeq(text, b + 1, N) /\ rest[b + 1] = SubSeq(text, b + 2, N)
          BY <1>4, <3>1, <3>2, <4>1
        <5>2. SubSeq(text, b + 1, N) = <<text[b + 1]>> \o SubSeq(text, (b + 1) + 1, N)
          <6>1. b + 1 \in 1..Len(text) /\ N \in (b + 1)..Len(text)
            BY <1>3, <3>1
          <6> QED
            BY <6>1, SubSeqRecursiveFirst
        <5> QED
          BY <3>1, <5>1, <5>2
      <4>2. CASE P(b) # npos
        <5> DEFINE p == P(b)
                   head == <<text[b + 1]>>
                   between == SubSeq(text, b + 2, p)
                   tail == rest[p + L]
        <5>1. p \in (b + 1) .. N - 1 /\ Stands(text, from, p)
          <6>1. p \in b .. N - 1 /\ Stands(text, from, p)
            BY <4>2, SearchFrom
          <6>2. p # b
            BY <2>3, <6>1
          <6> HIDE DEF p
          <6> QED
            BY <1>3, <6>1, <6>2
        <5>2. rest[b] = SubSeq(text, b + 1, p) \o to \o tail
          BY <1>4, <4>2
        <5>3. rest[b + 1] = between \o to \o tail
          BY <1>4, <3>1, <3>2, <4>2
        <5>4. tail \in Seq(C)
          <6> HIDE DEF p
          <6>1. p + L \in 0..N /\ b < p + L
            BY <1>3, <5>1 DEF Stands
          <6> QED
            BY <1>7, <6>1
        <5> HIDE DEF p, tail
        <5>5. SubSeq(text, b + 1, p) = head \o between
          <6>1. b + 1 \in 1..Len(text) /\ p \in (b + 1)..Len(text)
            BY <1>3, <3>1, <5>1
          <6>2. SubSeq(text, b + 1, p) = <<text[b + 1]>> \o SubSeq(text, (b + 1) + 1, p)
            BY <6>1, SubSeqRecursiveFirst
          <6> QED
            BY <3>1, <6>2
        <5>6. between \in Seq(C)
          <6>1. \A i \in (b + 2)..p : text[i] \in C
            BY <1>3, <3>1, <5>1
          <6>2. b + 2 \in Int /\ p \in Int
            BY <5>1
          <6> QED
            BY <6>1, <6>2, SubSeqProperties
        <5> HIDE DEF head, between
        <5>7. head \in Seq(C)
          BY <3>5 DEF head
        <5>8. (head \o between) \o to = head \o (between \o to)
          BY <5>6, <5>7, ConcatAssociative
        <5>9. between \o to \in Seq(C)
          BY <5>6, ConcatProperties
        <5>10. (head \o (between \o to)) \o tail = head \o ((between \o to) \o tail)
          <6> DEFINE middle == between \o to
          <6>1. middle \in Seq(C)
            BY <5>9
          <6> HIDE DEF middle
          <6>2. (head \o middle) \o tail = head \o (middle \o tail)
            BY <5>4, <5>7, <6>1, ConcatAssociative
          <6> QED
            BY <6>2 DEF middle
        <5>11. rest[b] = ((head \o between) \o to) \o tail
          BY <5>2, <5>5
        <5>12. rest[b] = head \o rest[b + 1]
          BY <5>3, <5>8, <5>10, <5>11
        <5> QED
          BY <5>12 DEF head
      <4> QED
        BY <4>1, <4>2
    <3>7. <<text[b + 1]>> \o rest[b + 1] \in Seq(C)
      BY <3>3, <3>5, ConcatProperties
    <3> QED
      BY <3>3, <3>4, <3>6, <3>7
  <2> QED
    BY <1>3, <2>1, <2>2, <2>3
<1> HIDE DEF S
<1>8. 0..N \subseteq S
  <2>1. 0 \in Nat
    OBVIOUS
  <2> QED
    BY <1>3, <1>7, <2>1, DownTo
<1>9. 0 \in S
  BY <1>3, <1>8
<1>10. \A b \in 0..N : b \in S
  BY <1>8
<1> QED
  BY <1>2, <1>9, <1>10 DEF S

-----------------------------------------------------------------------------
(* Concatenation. *)

(* A function that is defined from 0 on, each value from the one before. *)
Iteration(f, n, base, step) ==
  f = [k \in 0..n |-> IF k = 0 THEN base ELSE step[<<f[k - 1], k>>]]

(* Such a function exists. *)
LEMMA Iterates ==
  ASSUME NEW n \in Nat, NEW base, NEW step
  PROVE  \E f : Iteration(f, n, base, step)
<1> DEFINE S == {k \in 0..n : \E f : Iteration(f, k, base, step)}
<1>1. 0 \in S
  <2> DEFINE f == [k \in 0..0 |-> base]
  <2>1. Iteration(f, 0, base, step)
    BY DEF Iteration
  <2> HIDE DEF f
  <2> QED
    BY <2>1
<1>2. ASSUME NEW m \in 0 .. n - 1, m \in S
      PROVE  m + 1 \in S
  <2>1. PICK g : Iteration(g, m, base, step)
    BY <1>2
  <2> DEFINE value(k) == IF k = 0 THEN base ELSE step[<<g[k - 1], k>>]
             f == [k \in 0..(m + 1) |-> value(k)]
             other(k) == IF k = 0 THEN base ELSE step[<<f[k - 1], k>>]
  <2>2. \A k \in 0..m : g[k] = value(k)
    BY <2>1 DEF Iteration
  <2> HIDE DEF value
  <2>3. \A k \in 0..m : f[k] = g[k]
    <3> TAKE k \in 0..m
    <3>1. k \in 0..(m + 1)
      OBVIOUS
    <3> QED
      BY <2>2, <3>1
  <2>4. \A k \in 0..(m + 1) : value(k) = other(k)
    <3> TAKE k \in 0..(m + 1)
    <3>1. CASE k = 0
      BY <3>1 DEF value
    <3>2. CASE k # 0
      <4>1. k - 1 \in 0..m
        BY <3>2
      <4>2. f[k - 1] = g[k - 1]
        BY <2>3, <4>1
      <4> HIDE DEF f
      <4> QED
        BY <3>2, <4>2 DEF value
    <3> QED
      BY <3>1, <3>2
  <2>5. f = [k \in 0..(m + 1) |-> value(k)]
    OBVIOUS
  <2> HIDE DEF f, other
  <2>6. f = [k \in 0..(m + 1) |-> other(k)]
    BY <2>4, <2>5
  <2>7. Iteration(f, m + 1, base, step)
    BY <2>6 DEF Iteration, other
  <2> QED
    BY <2>7
<1> HIDE DEF S
<1>3. 0..n \subseteq S
  BY <1>1, <1>2, Up
<1>4. n \in S
  BY <1>3
<1> QED
  BY <1>4 DEF S

(* The loops of join and of StringBuilder. *)
IsRoom(room, pieces) ==
  room = [k \in 0..Len(pieces) |-> IF k = 0 THEN 1 ELSE room[k - 1] + Len(pieces[k])]

IsBuilt(built, pieces, start) ==
  built = [k \in 0..Len(pieces) |->
             IF k = 0 THEN start ELSE AppendPiece(built[k - 1], pieces[k])]

(* The sum of the lengths is computed, and is a number. *)
LEMMA RoomExists ==
  ASSUME NEW C, NEW pieces \in Seq(Seq(C))
  PROVE  \E room : IsRoom(room, pieces)
<1> DEFINE n == Len(pieces)
           step == [x \in Nat \X (1..n) |-> x[1] + Len(pieces[x[2]])]
           S(f) == {k \in 0..n : f[k] \in Nat}
<1>1. n \in Nat /\ \A k \in 1..n : Len(pieces[k]) \in Nat
  <2>1. \A k \in 1..n : pieces[k] \in Seq(C)
    OBVIOUS
  <2> QED
    BY <2>1
<1>2. PICK f : Iteration(f, n, 1, step)
  BY <1>1, Iterates
<1>3. \A k \in 0..n : f[k] = IF k = 0 THEN 1 ELSE step[<<f[k - 1], k>>]
  BY <1>2 DEF Iteration
<1>4. ASSUME NEW k \in 1..n, f[k - 1] \in Nat
      PROVE  step[<<f[k - 1], k>>] = f[k - 1] + Len(pieces[k])
  <2>1. <<f[k - 1], k>> \in Nat \X (1..n)
    BY <1>4
  <2> QED
    BY <2>1
<1> HIDE DEF step
<1>5. 0..n \subseteq S(f)
  <2>1. 0 \in S(f)
    <3>1. 0 \in 0..n
      BY <1>1
    <3>2. f[0] = 1
      BY <1>3, <3>1
    <3> QED
      BY <3>1, <3>2
  <2>2. ASSUME NEW k \in 0 .. n - 1, k \in S(f)
        PROVE  k + 1 \in S(f)
    <3>1. k + 1 \in 1..n /\ (k + 1) - 1 = k /\ k + 1 # 0 /\ k + 1 \in 0..n
      BY <1>1
    <3>2. f[k + 1] = f[k] + Len(pieces[k + 1])
      BY <1>3, <1>4, <2>2, <3>1
    <3> QED
      BY <1>1, <2>2, <3>1, <3>2
  <2> HIDE DEF S
  <2> QED
    BY <1>1, <2>1, <2>2, Up
<1> DEFINE value(k) == IF k = 0 THEN 1 ELSE step[<<f[k - 1], k>>]
           other(k) == IF k = 0 THEN 1 ELSE f[k - 1] + Len(pieces[k])
<1>6. \A k \in 0..n : value(k) = other(k)
  <2> TAKE k \in 0..n
  <2>1. CASE k = 0
    BY <2>1
  <2>2. CASE k # 0
    <3>1. k \in 1..n /\ k - 1 \in 0..n
      BY <1>1, <2>2
    <3> QED
      BY <1>4, <1>5, <2>2, <3>1
  <2> QED
    BY <2>1, <2>2
<1>7. f = [k \in 0..n |-> value(k)]
  BY <1>2 DEF Iteration
<1> HIDE DEF value, other
<1>8. f = [k \in 0..n |-> other(k)]
  BY <1>6, <1>7
<1>9. IsRoom(f, pieces)
  BY <1>8 DEF IsRoom, other
<1> QED
  BY <1>9

LEMMA RoomIsANumber ==
  ASSUME NEW C, NEW pieces \in Seq(Seq(C)), NEW room, IsRoom(room, pieces)
  PROVE  room[Len(pieces)] \in Nat
<1> DEFINE n == Len(pieces)
           S == {k \in 0..n : room[k] \in Nat}
<1>1. n \in Nat /\ \A k \in 1..n : Len(pieces[k]) \in Nat
  <2>1. \A k \in 1..n : pieces[k] \in Seq(C)
    OBVIOUS
  <2> QED
    BY <2>1
<1>2. \A k \in 0..n : room[k] = IF k = 0 THEN 1 ELSE room[k - 1] + Len(pieces[k])
  BY DEF IsRoom
<1>3. 0 \in S
  BY <1>1, <1>2
<1>4. ASSUME NEW k \in 0 .. n - 1, k \in S
      PROVE  k + 1 \in S
  <2>1. k + 1 \in 1..n /\ (k + 1) - 1 = k /\ k + 1 # 0 /\ k + 1 \in 0..n
    BY <1>1
  <2>2. room[k + 1] = room[k] + Len(pieces[k + 1])
    BY <1>2, <2>1
  <2>3. room[k] \in Nat /\ Len(pieces[k + 1]) \in Nat
    BY <1>1, <1>4, <2>1
  <2>4. room[k + 1] \in Nat
    BY <2>2, <2>3
  <2> QED
    BY <2>1, <2>4
<1> HIDE DEF S
<1>5. n \in S
  <2>1. 0..n \subseteq S
    BY <1>1, <1>3, <1>4, Up
  <2> QED
    BY <1>1, <2>1
<1> QED
  BY <1>5 DEF S

(* An empty piece need not be appended. *)
LEMMA AppendPieceText ==
  ASSUME NEW s, IsString(s), NEW piece \in Seq(StringCells)
  PROVE  HoldsText(AppendPiece(s, piece), Text(s) \o piece)
<1>1. CASE piece = <<>>
  <2>1. Text(s) \o <<>> = Text(s)
    BY TextIs, ConcatEmptySeq
  <2> QED
    BY <1>1, <2>1 DEF AppendPiece, HoldsText
<1>2. CASE piece # <<>>
  BY <1>2, AppendText DEF AppendPiece
<1> QED
  BY <1>1, <1>2

(* The appends are made one after the other. *)
LEMMA BuiltExists ==
  ASSUME NEW pieces \in Seq(Seq(StringCells)), NEW start, IsString(start)
  PROVE  \E built : IsBuilt(built, pieces, start)
<1> DEFINE n == Len(pieces)
           Strings0 == {s \in StringBuffers : IsString(s)}
           step == [x \in Strings0 \X (1..n) |-> AppendPiece(x[1], pieces[x[2]])]
           base == start
           S(f) == {k \in 0..n : f[k] \in Strings0}
<1>1. n \in Nat /\ \A k \in 1..n : pieces[k] \in Seq(StringCells)
  OBVIOUS
<1>2. PICK f : Iteration(f, n, base, step)
  BY <1>1, Iterates
<1>3. \A k \in 0..n : f[k] = IF k = 0 THEN base ELSE step[<<f[k - 1], k>>]
  BY <1>2 DEF Iteration
<1>4. ASSUME NEW k \in 1..n, f[k - 1] \in Strings0
      PROVE  step[<<f[k - 1], k>>] = AppendPiece(f[k - 1], pieces[k])
  <2>1. <<f[k - 1], k>> \in Strings0 \X (1..n)
    BY <1>4
  <2> HIDE DEF Strings0
  <2> QED
    BY <2>1
<1> HIDE DEF step
<1>5. base \in Strings0
  BY DEF IsString
<1>6. ASSUME NEW k \in 1..n, f[k - 1] \in Strings0
      PROVE  AppendPiece(f[k - 1], pieces[k]) \in Strings0
  BY <1>1, <1>6, AppendPieceText DEF HoldsText, IsString
<1> HIDE DEF Strings0, base
<1>7. 0..n \subseteq S(f)
  <2>1. 0 \in S(f)
    <3>1. 0 \in 0..n
      BY <1>1
    <3>2. f[0] = base
      BY <1>3, <3>1
    <3> QED
      BY <1>5, <3>1, <3>2
  <2>2. ASSUME NEW k \in 0 .. n - 1, k \in S(f)
        PROVE  k + 1 \in S(f)
    <3>1. k + 1 \in 1..n /\ (k + 1) - 1 = k /\ k + 1 # 0 /\ k + 1 \in 0..n
      BY <1>1
    <3>2. f[k + 1] = AppendPiece(f[k], pieces[k + 1])
      BY <1>3, <1>4, <2>2, <3>1
    <3>3. AppendPiece(f[k], pieces[k + 1]) \in Strings0
      BY <1>6, <2>2, <3>1
    <3> QED
      BY <3>1, <3>2, <3>3
  <2> HIDE DEF S
  <2> QED
    BY <1>1, <2>1, <2>2, Up
<1> DEFINE value(k) == IF k = 0 THEN base ELSE step[<<f[k - 1], k>>]
           other(k) == IF k = 0 THEN base ELSE AppendPiece(f[k - 1], pieces[k])
<1>8. \A k \in 0..n : value(k) = other(k)
  <2> TAKE k \in 0..n
  <2>1. CASE k = 0
    BY <2>1
  <2>2. CASE k # 0
    <3>1. k \in 1..n /\ k - 1 \in 0..n
      BY <1>1, <2>2
    <3> QED
      BY <1>4, <1>7, <2>2, <3>1
  <2> QED
    BY <2>1, <2>2
<1>9. f = [k \in 0..n |-> value(k)]
  BY <1>2 DEF Iteration
<1> HIDE DEF value, other
<1>10. f = [k \in 0..n |-> other(k)]
  BY <1>8, <1>9
<1>11. IsBuilt(f, pieces, start)
  BY <1>10 DEF IsBuilt, other, base
<1> QED
  BY <1>11

(* What is built holds the pieces one after the other. *)
LEMMA BuiltHolds ==
  ASSUME NEW pieces \in Seq(Seq(StringCells)), NEW whole, NEW start, HoldsText(start, <<>>),
         whole[0] = <<>>,
         \A k \in 1..Len(pieces) : whole[k] = whole[k - 1] \o pieces[k]
  PROVE  HoldsText(BuiltOn(start, pieces), whole[Len(pieces)])
<1> DEFINE n == Len(pieces)
           built == CHOOSE f : IsBuilt(f, pieces, start)
           S == {k \in 0..n : HoldsText(built[k], whole[k])}
<1>1. BuiltOn(start, pieces) = built[n]
  BY DEF BuiltOn, IsBuilt
<1>2. n \in Nat /\ \A k \in 1..n : pieces[k] \in Seq(StringCells)
  OBVIOUS
<1>3. IsBuilt(built, pieces, start)
  BY BuiltExists DEF HoldsText
<1> HIDE DEF built
<1>4. \A k \in 0..n : built[k] = IF k = 0 THEN start ELSE AppendPiece(built[k - 1], pieces[k])
  BY <1>3 DEF IsBuilt
<1>5. 0 \in S
  BY <1>2, <1>4
<1>6. ASSUME NEW k \in 0 .. n - 1, k \in S
      PROVE  k + 1 \in S
  <2>1. k + 1 \in 1..n /\ (k + 1) - 1 = k /\ k + 1 # 0 /\ k + 1 \in 0..n
    BY <1>2
  <2>2. built[k + 1] = AppendPiece(built[k], pieces[k + 1]) /\ whole[k + 1] = whole[k] \o pieces[k + 1]
    BY <1>4, <2>1
  <2>3. IsString(built[k]) /\ Text(built[k]) = whole[k] /\ pieces[k + 1] \in Seq(StringCells)
    BY <1>2, <1>6, <2>1 DEF HoldsText
  <2>4. HoldsText(built[k + 1], whole[k + 1])
    BY <2>2, <2>3, AppendPieceText
  <2> QED
    BY <2>1, <2>4
<1> HIDE DEF S
<1>7. 0..n \subseteq S
  BY <1>2, <1>5, <1>6, Up
<1>8. n \in S
  BY <1>2, <1>7
<1> QED
  BY <1>1, <1>8 DEF S

(* With room made first as well. *)
LEMMA ConcatenatedHolds ==
  ASSUME NEW pieces \in Seq(Seq(StringCells)), NEW whole,
         whole[0] = <<>>,
         \A k \in 1..Len(pieces) : whole[k] = whole[k - 1] \o pieces[k]
  PROVE  HoldsText(Concatenated(pieces), whole[Len(pieces)])
<1> DEFINE n == Len(pieces)
           room == CHOOSE f : IsRoom(f, pieces)
           start == BufferReserve(NullData, room[n])
<1>1. Concatenated(pieces) = BuiltOn(start, pieces)
  BY DEF Concatenated, IsRoom
<1>2. room[n] \in Nat
  <2>1. IsRoom(room, pieces)
    BY RoomExists
  <2> QED
    BY <2>1, RoomIsANumber
<1> HIDE DEF room
<1>3. HoldsText(start, <<>>)
  BY <1>2, NullDataHolds, ReserveText DEF HoldsText
<1> HIDE DEF start
<1> QED
  BY <1>1, <1>3, BuiltHolds

(* a + b *)
LEMMA SumHolds ==
  ASSUME NEW a \in Seq(StringCells), NEW b \in Seq(StringCells)
  PROVE  HoldsText(Concatenated(<<a, b>>), a \o b)
<1> DEFINE pieces == <<a, b>>
           whole == [k \in 0..2 |-> IF k = 0 THEN <<>> ELSE IF k = 1 THEN a ELSE a \o b]
<1>1. pieces \in Seq(Seq(StringCells)) /\ Len(pieces) = 2 /\ pieces[1] = a /\ pieces[2] = b
  OBVIOUS
<1>2. <<>> \o a = a
  BY ConcatEmptySeq
<1>3. whole[0] = <<>> /\ whole[1] = a /\ whole[2] = a \o b
  OBVIOUS
<1> HIDE DEF whole, pieces
<1>4. \A k \in 1..2 : whole[k] = whole[k - 1] \o pieces[k]
  <2> TAKE k \in 1..2
  <2>1. CASE k = 1
    <3>1. k - 1 = 0
      BY <2>1
    <3>2. whole[k - 1] \o pieces[k] = <<>> \o a
      BY <1>1, <1>3, <2>1, <3>1, Zenon
    <3> QED
      BY <1>2, <1>3, <2>1, <3>2
  <2>2. CASE k = 2
    <3>1. k - 1 = 1
      BY <2>2
    <3>2. whole[k - 1] \o pieces[k] = a \o b
      BY <1>1, <1>3, <2>2, <3>1, Zenon
    <3>3. whole[k] = a \o b
      BY <1>3, <2>2
    <3> QED
      BY <3>2, <3>3
  <2>3. k = 1 \/ k = 2
    OBVIOUS
  <2> QED
    BY <2>1, <2>2, <2>3, Zenon
<1>5. HoldsText(Concatenated(pieces), whole[2])
  BY <1>1, <1>3, <1>4, ConcatenatedHolds
<1> QED
  BY <1>3, <1>5 DEF pieces

-----------------------------------------------------------------------------
(* split and join. *)

(* The loop of split, from position b on, when empty pieces are kept. *)
SplitsFrom(pieces, text, c) ==
  pieces = [b \in 0..Len(text) |->
              IF NextIndexOf(text, <<c>>, b) = npos THEN <<SubSeq(text, b + 1, Len(text))>>
              ELSE <<SubSeq(text, b + 1, NextIndexOf(text, <<c>>, b))>>
                     \o pieces[NextIndexOf(text, <<c>>, b) + 1]]

(* split() computes such a function. *)
LEMMA SplitIs ==
  ASSUME NEW C, NEW text \in Seq(C), NEW c \in C
  PROVE  \E pieces : SplitsFrom(pieces, text, c) /\ Split(text, c, TRUE) = pieces[0]
<1> DEFINE N == Len(text)
           P(b) == NextIndexOf(text, <<c>>, b)
           stops == [b \in 0..N |-> P(b) = npos]
           last == [b \in 0..N |-> <<SubSeq(text, b + 1, N)>>]
           first == [b \in 0..N |-> <<SubSeq(text, b + 1, P(b))>>]
           next == [b \in 0..N |-> P(b) + 1]
           elem(b) == SubSeq(text, b + 1, IF P(b) = npos THEN Len(text) ELSE P(b))
           kept(b) == IF TRUE \/ elem(b) # <<>> THEN <<elem(b)>> ELSE <<>>
           loop(f, b) == IF P(b) = npos THEN kept(b) ELSE kept(b) \o f[P(b) + 1]
           body(f, b) == IF P(b) = npos THEN <<SubSeq(text, b + 1, N)>>
                         ELSE <<SubSeq(text, b + 1, P(b))>> \o f[P(b) + 1]
           pieces == CHOOSE f : f = [b \in 0..N |-> loop(f, b)]
<1>1. Split(text, c, TRUE) = pieces[0]
  BY DEF Split
<1>2. \A f, b : loop(f, b) = body(f, b)
  OBVIOUS
<1>3. \A b \in 0..N : ~stops[b] => next[b] \in 0..N /\ b < next[b]
  <2> TAKE b \in 0..N
  <2> HAVE ~stops[b]
  <2>1. P(b) # npos
    OBVIOUS
  <2>2. P(b) \in b .. Len(text) - 1
    <3>1. <<c>> \in Seq(C) /\ <<c>> # <<>>
      OBVIOUS
    <3> QED
      BY <2>1, <3>1, SearchFrom
  <2>3. next[b] = P(b) + 1 /\ N \in Nat
    OBVIOUS
  <2> HIDE DEF next, P
  <2> QED
    BY <2>2, <2>3
<1>4. \E f : Unfolding(f, 0, N, stops, last, first, next)
  <2>1. 0 \in Nat /\ N \in Nat
    OBVIOUS
  <2> HIDE DEF stops, last, first, next, N
  <2> QED
    BY <1>3, <2>1, Unfolds
<1>5. PICK f : Unfolding(f, 0, N, stops, last, first, next)
  BY <1>4
<1>6. f = [b \in 0..N |-> body(f, b)]
  BY <1>5 DEF Unfolding
<1> HIDE DEF loop, body
<1>7. \A g : [b \in 0..N |-> loop(g, b)] = [b \in 0..N |-> body(g, b)]
  BY <1>2
<1>8. f = [b \in 0..N |-> loop(f, b)]
  BY <1>6, <1>7
<1>9. pieces = [b \in 0..N |-> loop(pieces, b)]
  BY <1>8
<1> HIDE DEF pieces
<1>10. pieces = [b \in 0..N |-> body(pieces, b)]
  BY <1>7, <1>9
<1>11. SplitsFrom(pieces, text, c)
  BY <1>10 DEF SplitsFrom, body
<1> QED
  BY <1>1, <1>11

(* The pieces with a delimiter between them are the text t. *)
Makes(pieces, delimiter, t) ==
  /\ pieces \in Seq(Seq(StringCells)) /\ pieces # <<>> /\ t \in Seq(StringCells)
  /\ \E whole \in [0..(2 * Len(pieces) - 1) -> Seq(StringCells)] :
                /\ whole[0] = <<>>
                /\ \A k \in 1..Len(pieces) : whole[2 * k - 1] = whole[2 * k - 2] \o pieces[k]
                /\ \A k \in 1 .. Len(pieces) - 1 : whole[2 * k] = whole[2 * k - 1] \o delimiter
                /\ whole[2 * Len(pieces) - 1] = t

(* The pieces, one after the other, are the text t. *)
Sums(pieces, t) ==
  \E whole : /\ whole[0] = <<>> /\ whole[Len(pieces)] = t
            /\ \A k \in 1..Len(pieces) : whole[k] = whole[k - 1] \o pieces[k]

(* So are the delimited pieces of what makes t. *)
LEMMA DelimitedMakes ==
  ASSUME NEW pieces, NEW d \in Seq(StringCells), NEW t, Makes(pieces, d, t)
  PROVE  /\ Delimited(pieces, d) \in Seq(Seq(StringCells))
         /\ Sums(Delimited(pieces, d), t)
<1> DEFINE n == Len(pieces)
           m == 2 * n - 1
           all == Delimited(pieces, d)
<1>1. n \in Nat /\ n >= 1 /\ \A k \in 1..n : pieces[k] \in Seq(StringCells)
  BY DEF Makes
<1>2. PICK whole : /\ whole[0] = <<>>
                   /\ \A k \in 1..n : whole[2 * k - 1] = whole[2 * k - 2] \o pieces[k]
                   /\ \A k \in 1 .. n - 1 : whole[2 * k] = whole[2 * k - 1] \o d
                   /\ whole[m] = t
  BY DEF Makes
<1> HIDE DEF n
<1>3. \A i \in 1..m : \/ \E k \in 1..n : i = 2 * k - 1 /\ i % 2 = 1 /\ (i + 1) \div 2 = k
                      \/ \E k \in 1 .. n - 1 : i = 2 * k /\ i % 2 = 0
  <2> TAKE i \in 1..m
  <2>1. CASE i % 2 = 1
    <3>1. (i + 1) \div 2 \in 1..n /\ i = 2 * ((i + 1) \div 2) - 1
      BY <1>1, <2>1
    <3> QED
      BY <2>1, <3>1
  <2>2. CASE i % 2 # 1
    <3>1. i % 2 = 0 /\ i \div 2 \in 1 .. n - 1 /\ i = 2 * (i \div 2)
      BY <1>1, <2>2
    <3> QED
      BY <3>1
  <2> QED
    BY <2>1, <2>2
<1>4. \A i \in 1..m : all[i] \in Seq(StringCells) /\ whole[i] = whole[i - 1] \o all[i]
  <2> TAKE i \in 1..m
  <2>1. ASSUME NEW k \in 1..n, i = 2 * k - 1, i % 2 = 1, (i + 1) \div 2 = k
        PROVE  all[i] \in Seq(StringCells) /\ whole[i] = whole[i - 1] \o all[i]
    <3>1. all[i] = pieces[k]
      BY <2>1 DEF Delimited, n
    <3>2. i - 1 = 2 * k - 2
      BY <2>1
    <3> HIDE DEF all
    <3> QED
      BY <1>1, <1>2, <2>1, <3>1, <3>2
  <2>2. ASSUME NEW k \in 1 .. n - 1, i = 2 * k, i % 2 = 0
        PROVE  all[i] \in Seq(StringCells) /\ whole[i] = whole[i - 1] \o all[i]
    <3>1. all[i] = d
      BY <2>2 DEF Delimited, n
    <3>2. i - 1 = 2 * k - 1
      BY <2>2
    <3> HIDE DEF all
    <3> QED
      BY <1>2, <2>2, <3>1, <3>2
  <2> QED
    BY <1>3, <2>1, <2>2
<1>5. m \in Nat
  BY <1>1
<1>6. all \in Seq(Seq(StringCells)) /\ Len(all) = m
  <2>1. all = [i \in 1..m |-> IF i % 2 = 1 THEN pieces[(i + 1) \div 2] ELSE d]
    BY DEF Delimited, n
  <2>2. DOMAIN all = 1..m
    BY <2>1
  <2> HIDE DEF all, m
  <2>3. all \in [1..m -> Seq(StringCells)]
    BY <1>4, <2>1, <2>2
  <2> QED
    BY <1>5, <2>3
<1> HIDE DEF all, m
<1>7. Sums(all, t)
  BY <1>2, <1>4, <1>6 DEF Sums
<1> QED
  BY <1>6, <1>7 DEF all

(* join() holds what the pieces make. *)
LEMMA JoinedHolds ==
  ASSUME NEW pieces, NEW d \in Seq(StringCells), NEW t, Makes(pieces, d, t)
  PROVE  HoldsText(Joined(pieces, d), t)
<1> DEFINE all == Delimited(pieces, d)
<1>1. all \in Seq(Seq(StringCells)) /\ Sums(all, t)
  BY DelimitedMakes
<1>2. PICK whole : /\ whole[0] = <<>> /\ whole[Len(all)] = t
                   /\ \A k \in 1..Len(all) : whole[k] = whole[k - 1] \o all[k]
  BY <1>1 DEF Sums
<1>3. Joined(pieces, d) = Concatenated(all)
  BY DEF Joined
<1> HIDE DEF all
<1> QED
  BY <1>1, <1>2, <1>3, ConcatenatedHolds

(* And so does a string on which they are built. *)
LEMMA BuiltOnMakes ==
  ASSUME NEW pieces, NEW d \in Seq(StringCells), NEW t, Makes(pieces, d, t),
         NEW start, HoldsText(start, <<>>)
  PROVE  HoldsText(BuiltOn(start, Delimited(pieces, d)), t)
<1> DEFINE all == Delimited(pieces, d)
<1>1. all \in Seq(Seq(StringCells)) /\ Sums(all, t)
  BY DelimitedMakes
<1>2. PICK whole : /\ whole[0] = <<>> /\ whole[Len(all)] = t
                   /\ \A k \in 1..Len(all) : whole[k] = whole[k - 1] \o all[k]
  BY <1>1 DEF Sums
<1> HIDE DEF all
<1>3. HoldsText(BuiltOn(start, all), t)
  BY <1>1, <1>2, BuiltHolds
<1> QED
  BY <1>3 DEF all

(* Concatenation is associative, for the provers' sake from right to left.  *)
LEMMA Associates ==
  \A u, v, w \in Seq(StringCells) : u \o (v \o w) = (u \o v) \o w
BY ConcatAssociative

(* One more piece in front. *)
LEMMA PrependMakes ==
  ASSUME NEW pieces, NEW d \in Seq(StringCells), NEW t, Makes(pieces, d, t),
         NEW q \in Seq(StringCells)
  PROVE  Makes(<<q>> \o pieces, d, (q \o d) \o t)
<1> DEFINE n == Len(pieces)
           more == <<q>> \o pieces
           front == q \o d
<1>1. pieces \in Seq(Seq(StringCells)) /\ n \in Nat /\ n >= 1 /\ \A k \in 1..n : pieces[k] \in Seq(StringCells)
  BY DEF Makes
<1>2. PICK whole \in [0..(2 * n - 1) -> Seq(StringCells)] :
                   /\ whole[0] = <<>>
                   /\ \A k \in 1..n : whole[2 * k - 1] = whole[2 * k - 2] \o pieces[k]
                   /\ \A k \in 1 .. n - 1 : whole[2 * k] = whole[2 * k - 1] \o d
                   /\ whole[2 * n - 1] = t
  BY DEF Makes
<1>3. /\ more \in Seq(Seq(StringCells)) /\ Len(more) = n + 1 /\ more[1] = q
      /\ \A k \in 2..(n + 1) : more[k] = pieces[k - 1]
  <2>1. <<q>> \in Seq(Seq(StringCells)) /\ Len(<<q>>) = 1 /\ <<q>>[1] = q
    OBVIOUS
  <2>2. pieces \in Seq(Seq(StringCells))
    BY <1>1
  <2> DEFINE one == <<q>>
  <2>3. one \in Seq(Seq(StringCells)) /\ Len(one) = 1 /\ one[1] = q
    BY <2>1
  <2> HIDE DEF one, n
  <2>4. one \o pieces \in Seq(Seq(StringCells)) /\ Len(one \o pieces) = Len(one) + Len(pieces)
    BY <2>2, <2>3, ConcatProperties
  <2>5. \A k \in 1..(Len(one) + Len(pieces)) :
           (one \o pieces)[k] = IF k <= Len(one) THEN one[k] ELSE pieces[k - Len(one)]
    BY <2>2, <2>3, ConcatProperties, Zenon
  <2> DEFINE all == one \o pieces
  <2>6. all \in Seq(Seq(StringCells)) /\ Len(all) = n + 1
    BY <1>1, <2>3, <2>4 DEF n
  <2>7. \A k \in 1..(n + 1) : all[k] = IF k <= 1 THEN one[k] ELSE pieces[k - 1]
    <3>1. Len(one) + Len(pieces) = n + 1
      BY <1>1, <2>3 DEF n
    <3> QED
      BY <2>3, <2>5, <3>1
  <2>8. more = all
    BY DEF one
  <2> HIDE DEF all, more
  <2>9. 1 \in 1..(n + 1) /\ \A k \in 2..(n + 1) : k \in 1..(n + 1) /\ ~(k <= 1)
    BY <1>1 DEF n
  <2> QED
    BY <2>3, <2>6, <2>7, <2>8, <2>9
<1>4. front \in Seq(StringCells) /\ front \o t \in Seq(StringCells) /\ front \o <<>> = front /\ <<>> \o q = q
  <2>1. t \in Seq(StringCells)
    BY DEF Makes
  <2>2. front \in Seq(StringCells)
    BY ConcatProperties
  <2> HIDE DEF front
  <2> QED
    BY <2>1, <2>2, ConcatProperties, ConcatEmptySeq
<1> HIDE DEF n, more
<1> DEFINE whole2 == [j \in 0..(2 * (n + 1) - 1) |->
                        IF j = 0 THEN <<>> ELSE IF j = 1 THEN q ELSE front \o whole[j - 2]]
<1>5. /\ whole2[0] = <<>> /\ whole2[1] = q
      /\ \A j \in 2..(2 * (n + 1) - 1) : whole2[j] = front \o whole[j - 2] /\ whole[j - 2] \in Seq(StringCells)
  <2>1. 0 \in 0..(2 * (n + 1) - 1) /\ 1 \in 0..(2 * (n + 1) - 1)
    BY <1>1
  <2>2. whole2[0] = <<>> /\ whole2[1] = q
    BY <2>1
  <2>3. ASSUME NEW j \in 2..(2 * (n + 1) - 1)
        PROVE  whole2[j] = front \o whole[j - 2] /\ whole[j - 2] \in Seq(StringCells)
    <3>1. j \in 0..(2 * (n + 1) - 1) /\ j # 0 /\ j # 1 /\ j - 2 \in 0..(2 * n - 1)
      BY <1>1
    <3>2. whole[j - 2] \in Seq(StringCells)
      BY <1>2, <3>1
    <3> HIDE DEF front
    <3> QED
      BY <3>1, <3>2
  <2> QED
    BY <2>2, <2>3
<1>6. whole2 \in [0..(2 * (n + 1) - 1) -> Seq(StringCells)]
  <2>1. ASSUME NEW j \in 0..(2 * (n + 1) - 1)
        PROVE  whole2[j] \in Seq(StringCells)
    <3>1. CASE j = 0
      BY <1>5, <3>1
    <3>2. CASE j = 1
      BY <1>5, <3>2
    <3>3. CASE j # 0 /\ j # 1
      <4>1. j \in 2..(2 * (n + 1) - 1)
        BY <1>1, <3>3
      <4> HIDE DEF whole2, front
      <4>2. whole2[j] = front \o whole[j - 2] /\ whole[j - 2] \in Seq(StringCells)
        BY <1>5, <4>1
      <4>3. front \o whole[j - 2] \in Seq(StringCells)
        BY <1>4, <4>2, ConcatProperties, Zenon
      <4> QED
        BY <4>2, <4>3, Zenon
    <3> QED
      BY <3>1, <3>2, <3>3
  <2>2. whole2 = [j \in 0..(2 * (n + 1) - 1) |-> whole2[j]]
    OBVIOUS
  <2> HIDE DEF whole2
  <2> QED
    BY <2>1, <2>2
<1> HIDE DEF whole2, front
<1>7. ASSUME NEW k \in 1..(n + 1)
      PROVE  whole2[2 * k - 1] = whole2[2 * k - 2] \o more[k]
  <2>1. CASE k = 1
    <3>1. 2 * k - 1 = 1 /\ 2 * k - 2 = 0
      BY <2>1
    <3>2. whole2[2 * k - 1] = q /\ whole2[2 * k - 2] = <<>> /\ more[k] = q
      BY <1>3, <1>5, <2>1, <3>1
    <3> QED
      BY <1>4, <3>2, Zenon
  <2>2. CASE k # 1
    <3> DEFINE j == k - 1
    <3>1. /\ j \in 1..n /\ k \in 2..(n + 1)
          /\ 2 * k - 1 \in 2..(2 * (n + 1) - 1) /\ (2 * k - 1) - 2 = 2 * j - 1
          /\ 2 * k - 2 \in 2..(2 * (n + 1) - 1) /\ (2 * k - 2) - 2 = 2 * j - 2
      BY <1>1, <2>2
    <3>2. whole2[2 * k - 1] = front \o whole[2 * j - 1]
      BY <1>5, <3>1
    <3>3. whole2[2 * k - 2] = front \o whole[2 * j - 2] /\ whole[2 * j - 2] \in Seq(StringCells)
      BY <1>5, <3>1
    <3>4. more[k] = pieces[j] /\ pieces[j] \in Seq(StringCells)
      BY <1>1, <1>3, <3>1
    <3>5. whole[2 * j - 1] = whole[2 * j - 2] \o pieces[j]
      BY <1>2, <3>1
    <3>6. front \o (whole[2 * j - 2] \o pieces[j]) = (front \o whole[2 * j - 2]) \o pieces[j]
      <4> DEFINE w == whole[2 * j - 2]
                 v == pieces[j]
      <4>1. front \in Seq(StringCells) /\ w \in Seq(StringCells) /\ v \in Seq(StringCells)
        BY <1>4, <3>3, <3>4
      <4> HIDE DEF w, v, front
      <4>2. front \o (w \o v) = (front \o w) \o v
        BY <4>1, Associates, Zenon
      <4> QED
        BY <4>2 DEF w, v
    <3> QED
      BY <3>2, <3>3, <3>4, <3>5, <3>6, Zenon
  <2> QED
    BY <2>1, <2>2
<1>8. ASSUME NEW k \in 1..n
      PROVE  whole2[2 * k] = whole2[2 * k - 1] \o d
  <2>1. CASE k = 1
    <3>1. 2 * k - 1 = 1 /\ 2 * k = 2 /\ 2 \in 2..(2 * (n + 1) - 1) /\ 2 - 2 = 0
      BY <1>1, <2>1
    <3>2. whole2[2] = front \o whole[0]
      BY <1>5, <3>1
    <3>3. whole2[2] = front /\ whole2[1] = q
      BY <1>2, <1>4, <1>5, <3>2, Zenon
    <3>4. whole2[2 * k] = front /\ whole2[2 * k - 1] = q
      BY <3>1, <3>3
    <3> QED
      BY <3>4 DEF front
  <2>2. CASE k # 1
    <3> DEFINE j == k - 1
    <3>1. /\ j \in 1 .. n - 1
          /\ 2 * k \in 2..(2 * (n + 1) - 1) /\ (2 * k) - 2 = 2 * j
          /\ 2 * k - 1 \in 2..(2 * (n + 1) - 1) /\ (2 * k - 1) - 2 = 2 * j - 1
      BY <1>1, <2>2
    <3>2. whole2[2 * k] = front \o whole[2 * j]
      BY <1>5, <3>1
    <3>3. whole2[2 * k - 1] = front \o whole[2 * j - 1] /\ whole[2 * j - 1] \in Seq(StringCells)
      BY <1>5, <3>1
    <3>4. whole[2 * j] = whole[2 * j - 1] \o d
      BY <1>2, <3>1
    <3>5. front \o (whole[2 * j - 1] \o d) = (front \o whole[2 * j - 1]) \o d
      BY <1>4, <3>3, Associates, Zenon
    <3> QED
      BY <3>2, <3>3, <3>4, <3>5, Zenon
  <2> QED
    BY <2>1, <2>2
<1>9. whole2[2 * (n + 1) - 1] = front \o t
  <2>1. 2 * (n + 1) - 1 \in 2..(2 * (n + 1) - 1) /\ (2 * (n + 1) - 1) - 2 = 2 * n - 1
    BY <1>1
  <2> QED
    BY <1>2, <1>5, <2>1
<1>10. more # <<>>
  BY <1>1, <1>3
<1>11. (n + 1) - 1 = n
  BY <1>1
<1>12. Makes(more, d, front \o t)
  BY <1>3, <1>4, <1>5, <1>6, <1>7, <1>8, <1>9, <1>10, <1>11 DEF Makes
<1> QED
  BY <1>12 DEF more, front

(* A text without separator is its own piece. *)
LEMMA OnePieceMakes ==
  ASSUME NEW d \in Seq(StringCells), NEW t \in Seq(StringCells)
  PROVE  Makes(<<t>>, d, t)
<1> DEFINE whole == [j \in 0..1 |-> IF j = 0 THEN <<>> ELSE t]
           pieces == <<t>>
<1>1. pieces \in Seq(Seq(StringCells)) /\ Len(pieces) = 1 /\ pieces[1] = t /\ pieces # <<>>
  OBVIOUS
<1>2. <<>> \o t = t
  BY ConcatEmptySeq
<1>3. whole[0] = <<>> /\ whole[1] = t /\ whole \in [0..1 -> Seq(StringCells)]
  OBVIOUS
<1> HIDE DEF whole, pieces
<1>4. 2 * Len(pieces) - 1 = 1 /\ 1 .. Len(pieces) - 1 = {}
  BY <1>1
<1>5. ASSUME NEW k \in 1..Len(pieces)
      PROVE  whole[2 * k - 1] = whole[2 * k - 2] \o pieces[k]
  <2>1. k = 1 /\ 2 * k - 1 = 1 /\ 2 * k - 2 = 0
    BY <1>1
  <2>2. whole[2 * k - 1] = t /\ whole[2 * k - 2] = <<>> /\ pieces[k] = t
    BY <1>1, <1>3, <2>1
  <2> QED
    BY <1>2, <2>2, Zenon
<1>6. Makes(pieces, d, t)
  BY <1>1, <1>3, <1>4, <1>5 DEF Makes
<1> QED
  BY <1>6 DEF pieces

(* The pieces that replace() finds, with "to" between them, are the text   *)
(* with "from" substituted.                                                *)
LEMMA PartsMake ==
  ASSUME NEW text \in Seq(StringCells), NEW from \in Seq(StringCells), NEW to \in Seq(StringCells),
         from # <<>>
  PROVE  Makes(Parts(text, from), to, Substituted(text, from, to))
<1> DEFINE N == Len(text)
           P(b) == NextIndexOf(text, from, b)
<1>1. PICK parts : PartsFrom(parts, text, from) /\ Parts(text, from) = parts[0]
  BY PartsIs
<1>2. PICK rest : ReplacesFrom(rest, text, from, to)
  BY ReplacesExists
<1>3. rest[0] = Substituted(text, from, to) /\ \A b \in 0..N : rest[b] \in Seq(StringCells)
  BY <1>2, ReplaceSubstitutes
<1>4. N \in Nat
  OBVIOUS
<1>5. \A b \in 0..N : IF P(b) = npos
                       THEN parts[b] = <<SubSeq(text, b + 1, N)>> /\ rest[b] = SubSeq(text, b + 1, N)
                       ELSE /\ parts[b] = <<SubSeq(text, b + 1, P(b))>> \o parts[P(b) + Len(from)]
                            /\ rest[b] = SubSeq(text, b + 1, P(b)) \o to \o rest[P(b) + Len(from)]
  BY <1>1, <1>2 DEF PartsFrom, ReplacesFrom
<1> DEFINE S == {b \in 0..N : Makes(parts[b], to, rest[b])}
<1>6. ASSUME NEW b \in 0..N, \A k \in 0..N : b < k => k \in S
      PROVE  b \in S
  <2>1. CASE P(b) = npos
    <3>1. parts[b] = <<rest[b]>> /\ rest[b] \in Seq(StringCells)
      BY <1>3, <1>5, <2>1
    <3>2. Makes(parts[b], to, rest[b])
      BY <3>1, OnePieceMakes
    <3> QED
      BY <3>2
  <2>2. CASE P(b) # npos
    <3> DEFINE p == P(b)
               elem == SubSeq(text, b + 1, p)
               on == p + Len(from)
    <3>1. p \in b .. N - 1 /\ on \in 0..N /\ b < on
      BY <2>2, SearchGoesOn
    <3>2. parts[b] = <<elem>> \o parts[on] /\ rest[b] = elem \o to \o rest[on]
      BY <1>5, <2>2
    <3> HIDE DEF p, on
    <3>3. Makes(parts[on], to, rest[on])
      BY <1>6, <3>1
    <3>4. elem \in Seq(StringCells)
      <4>1. \A i \in (b + 1)..p : text[i] \in StringCells
        BY <1>4, <3>1
      <4>2. b + 1 \in Int /\ p \in Int
        BY <3>1
      <4> QED
        BY <4>1, <4>2, SubSeqProperties
    <3> HIDE DEF elem
    <3>5. Makes(parts[b], to, rest[b])
      BY <3>2, <3>3, <3>4, PrependMakes
    <3> QED
      BY <3>5
  <2> QED
    BY <2>1, <2>2
<1> HIDE DEF S
<1>7. 0..N \subseteq S
  <2>1. 0 \in Nat
    OBVIOUS
  <2> QED
    BY <1>4, <1>6, <2>1, DownTo
<1>8. 0 \in S
  BY <1>4, <1>7
<1> QED
  BY <1>1, <1>3, <1>8 DEF S

(* replace() substitutes, in a text of its own. *)
LEMMA ReplacedHolds ==
  ASSUME NEW text \in Seq(StringCells), NEW from \in Seq(StringCells), NEW to \in Seq(StringCells),
         from # <<>>
  PROVE  HoldsText(Replaced(text, from, to), Substituted(text, from, to))
<1>1. HoldsText(StringOf(<<>>), <<>>)
  <2>1. <<>> \in Seq(StringCells)
    OBVIOUS
  <2> QED
    BY <2>1, StringOfHolds
<1>2. Makes(Parts(text, from), to, Substituted(text, from, to))
  BY PartsMake
<1> QED
  BY <1>1, <1>2, BuiltOnMakes DEF Replaced

(* join undoes split. *)
LEMMA SplitMakes ==
  ASSUME NEW text \in Seq(StringCells), NEW c \in StringCells
  PROVE  Makes(Split(text, c, TRUE), <<c>>, text)
<1> DEFINE N == Len(text)
           d == <<c>>
           P(b) == NextIndexOf(text, d, b)
<1>1. PICK pieces : SplitsFrom(pieces, text, c) /\ Split(text, c, TRUE) = pieces[0]
  BY SplitIs
<1>2. N \in Nat /\ d \in Seq(StringCells) /\ d # <<>> /\ Len(d) = 1 /\ d[1] = c
  OBVIOUS
<1>3. \A b \in 0..N : pieces[b] = IF P(b) = npos THEN <<SubSeq(text, b + 1, N)>>
                                  ELSE <<SubSeq(text, b + 1, P(b))>> \o pieces[P(b) + 1]
  BY <1>1 DEF SplitsFrom
<1> DEFINE S == {b \in 0..N : Makes(pieces[b], d, SubSeq(text, b + 1, N))}
<1>4. ASSUME NEW b \in 0..N, \A k \in 0..N : b < k => k \in S
      PROVE  b \in S
  <2>1. SubSeq(text, b + 1, N) \in Seq(StringCells)
    <3>1. \A i \in (b + 1)..N : text[i] \in StringCells
      OBVIOUS
    <3>2. b + 1 \in Int /\ N \in Int
      BY <1>2
    <3> QED
      BY <3>1, <3>2, SubSeqProperties
  <2>2. CASE P(b) = npos
    BY <1>2, <1>3, <2>1, <2>2, OnePieceMakes
  <2>3. CASE P(b) # npos
    <3> DEFINE p == P(b)
               elem == SubSeq(text, b + 1, p)
               tail == SubSeq(text, (p + 1) + 1, N)
    <3> HIDE DEF d
    <3>1. p \in b .. N - 1 /\ Stands(text, d, p)
      BY <1>2, <2>3, SearchFrom
    <3> HIDE DEF P
    <3>2. p + 1 \in 1..N /\ p + 1 \in 0..N /\ b < p + 1
      BY <1>2, <3>1
    <3>3. Makes(pieces[p + 1], d, tail)
      BY <1>4, <3>2
    <3>4. pieces[b] = <<elem>> \o pieces[p + 1]
      BY <1>3, <2>3
    <3>5. elem \in Seq(StringCells) /\ tail \in Seq(StringCells)
      <4>1. /\ \A i \in (b + 1)..p : text[i] \in StringCells
            /\ \A i \in ((p + 1) + 1)..N : text[i] \in StringCells
        BY <1>2, <3>1
      <4>2. b + 1 \in Int /\ N \in Int /\ p \in Int /\ (p + 1) + 1 \in Int
        BY <1>2, <3>1
      <4> HIDE DEF N
      <4> QED
        BY <4>1, <4>2, SubSeqProperties
    <3>6. Makes(pieces[b], d, (elem \o d) \o tail)
      BY <1>2, <3>3, <3>4, <3>5, PrependMakes
    <3>7. text[p + 1] = c
      <4>1. SubSeq(text, p + 1, p + 1) = d
        BY <1>2, <3>1 DEF Stands
      <4>2. SubSeq(text, p + 1, p + 1)[1] = text[p + 1]
        BY <3>2
      <4> QED
        BY <1>2, <4>1, <4>2
    <3>8. SubSeq(text, p + 1, N) = d \o tail
      <4>1. p + 1 \in 1..Len(text) /\ N \in (p + 1)..Len(text)
        BY <1>2, <3>2
      <4>2. SubSeq(text, p + 1, N) = <<text[p + 1]>> \o tail
        BY <4>1, SubSeqRecursiveFirst
      <4> QED
        BY <3>7, <4>2 DEF d
    <3>9. SubSeq(text, b + 1, N) = elem \o SubSeq(text, p + 1, N)
      <4> DEFINE whole == SubSeq(text, b + 1, N)
                 rest == SubSeq(text, p + 1, N)
      <4>1. /\ whole \in Seq(StringCells) /\ Len(whole) = N - b
            /\ \A i \in 1..(N - b) : whole[i] = text[b + i]
        <5>1. \A i \in (b + 1)..N : text[i] \in StringCells
          BY <1>2
        <5>2. b + 1 \in Int /\ N \in Int
          BY <1>2
        <5> QED
          BY <1>2, <5>1, <5>2, SubSeqProperties
      <4>2. /\ rest \in Seq(StringCells) /\ Len(rest) = N - p
            /\ \A i \in 1..(N - p) : rest[i] = text[p + i]
        <5>1. \A i \in (p + 1)..N : text[i] \in StringCells
          BY <1>2, <3>1
        <5>2. p + 1 \in Int /\ N \in Int
          BY <1>2, <3>1
        <5> HIDE DEF p
        <5> QED
          BY <1>2, <3>1, <5>1, <5>2, SubSeqProperties
      <4>3. /\ Len(elem) = p - b
            /\ \A i \in 1..(p - b) : elem[i] = text[b + i]
        <5>1. \A i \in (b + 1)..p : text[i] \in StringCells
          BY <1>2, <3>1
        <5>2. b + 1 \in Int /\ p \in Int
          BY <1>2, <3>1
        <5> HIDE DEF p
        <5> QED
          BY <1>2, <3>1, <5>1, <5>2, SubSeqProperties
      <4> HIDE DEF whole, rest, elem, p, tail, N
      <4>4. /\ elem \o rest \in Seq(StringCells) /\ Len(elem \o rest) = Len(elem) + Len(rest)
            /\ \A i \in 1..(Len(elem) + Len(rest)) : (elem \o rest)[i] =
                 IF i <= Len(elem) THEN elem[i] ELSE rest[i - Len(elem)]
        BY <3>5, <4>2, ConcatProperties
      <4>5. Len(elem) + Len(rest) = N - b
        BY <1>2, <3>1, <4>2, <4>3
      <4>6. \A i \in 1..(N - b) : whole[i] = (elem \o rest)[i]
        <5> TAKE i \in 1..(N - b)
        <5>1. CASE i <= p - b
          <6>1. i \in 1..(p - b)
            BY <3>1, <5>1
          <6>2. (elem \o rest)[i] = elem[i]
            BY <4>3, <4>4, <4>5, <5>1
          <6>3. whole[i] = text[b + i] /\ elem[i] = text[b + i]
            BY <4>1, <4>3, <6>1
          <6> QED
            BY <6>2, <6>3
        <5>2. CASE ~(i <= p - b)
          <6>1. i - (p - b) \in 1..(N - p) /\ p + (i - (p - b)) = b + i
            BY <1>2, <3>1, <5>2
          <6>2. (elem \o rest)[i] = rest[i - (p - b)]
            BY <4>3, <4>4, <4>5, <5>2
          <6>3. whole[i] = text[b + i] /\ rest[i - (p - b)] = text[b + i]
            BY <4>1, <4>2, <6>1
          <6> QED
            BY <6>2, <6>3
        <5> QED
          BY <5>1, <5>2
      <4>7. whole = elem \o rest
        BY <4>1, <4>4, <4>5, <4>6, SeqEqual
      <4> QED
        BY <4>7 DEF whole, rest
    <3>10. elem \o (d \o tail) = (elem \o d) \o tail
      BY <1>2, <3>5, Associates, Zenon
    <3>11. SubSeq(text, b + 1, N) = (elem \o d) \o tail
      BY <3>8, <3>9, <3>10, Zenon
    <3> QED
      BY <3>6, <3>11
  <2> QED
    BY <2>2, <2>3
<1> HIDE DEF S
<1>5. 0..N \subseteq S
  <2>1. 0 \in Nat
    OBVIOUS
  <2> QED
    BY <1>2, <1>4, <2>1, DownTo
<1>6. 0 \in S
  BY <1>2, <1>5
<1>7. SubSeq(text, 0 + 1, N) = text
  OBVIOUS
<1>8. Makes(pieces[0], d, SubSeq(text, 0 + 1, N))
  BY <1>6 DEF S
<1> QED
  BY <1>1, <1>7, <1>8, Zenon

-----------------------------------------------------------------------------
(* The String. *)

(* The data is a string, and after a call that is no departure it holds    *)
(* the text the call should lead to.                                        *)
StringIInv ==
  /\ string = NoString \/ IsString(string)
  /\ stringCopied \in BOOLEAN
  /\ stringCall.departs \in BOOLEAN
  /\ stringCall.departs \/ Text(string) = stringCall.expected

(* The texts that calls are given. *)
LEMMA TextsAre ==
  ASSUME NEW n \in Nat, NEW t \in Texts(n)
  PROVE  t \in Seq(Char) /\ t \in Seq(StringCells)
<1>1. PICK k \in 0..n : t \in [1..k -> Char]
  BY DEF Texts
<1>2. k \in Nat
  BY <1>1
<1>3. t \in Seq(Char)
  BY <1>1, <1>2
<1> QED
  BY <1>3, StringCellValues

(* The text of the string. *)
LEMMA StringTextIs ==
  ASSUME string = NoString \/ IsString(string)
  PROVE  Text(string) \in Seq(StringCells)
<1>1. CASE string = NoString
  BY <1>1 DEF Text
<1>2. CASE IsString(string)
  BY <1>2, TextIs
<1> QED
  BY <1>1, <1>2

(* A call that makes a string of the right text, or departs from it. *)
LEMMA BecomesText ==
  ASSUME NEW result, NEW expected, NEW departs \in BOOLEAN,
         StringBecomes(result, expected, departs),
         result = NoString \/ IsString(result),
         departs \/ Text(result) = expected
  PROVE  StringIInv'
<1>1. /\ string' = result /\ stringCopied' = FALSE
      /\ stringCall' = [expected |-> expected, departs |-> departs]
  BY DEF StringBecomes
<1>2. stringCall'.expected = expected /\ stringCall'.departs = departs
  BY <1>1
<1>3. (Text(string))' = Text(result)
  BY <1>1 DEF Text
<1>4. (string = NoString \/ IsString(string))'
  BY <1>1 DEF IsString
<1> QED
  BY <1>1, <1>2, <1>3, <1>4, Zenon DEF StringIInv

(* A call that makes a string of the right text. *)
LEMMA BecomesHeld ==
  ASSUME NEW result, NEW expected,
         StringBecomes(result, expected, FALSE), HoldsText(result, expected)
  PROVE  StringIInv'
<1>1. IsString(result) /\ Text(result) = expected
  BY DEF HoldsText
<1> QED
  BY <1>1, BecomesText

(* Every initial string holds its text. *)
LEMMA StringInitHolds == StringInit => StringIInv
<1> SUFFICES ASSUME StringInit PROVE StringIInv
  OBVIOUS
<1>1. string = NoString \/ IsString(string)
  <2>1. IsString(NullData)
    BY NullDataHolds DEF HoldsText
  <2>2. ASSUME NEW t \in Texts(2) PROVE IsString(StringOf(t))
    BY TextsAre, StringOfHolds DEF HoldsText
  <2> QED
    BY <2>1, <2>2 DEF StringInit
<1>2. stringCall.expected = Text(string) /\ stringCall.departs = FALSE /\ stringCopied = FALSE
  BY DEF StringInit
<1> QED
  BY <1>1, <1>2, Zenon DEF StringIInv

(* One lemma for each of the longer calls. *)
LEMMA AppendKeeps == StringIInv /\ StringAppend => StringIInv'
<1> SUFFICES ASSUME StringIInv, StringAppend PROVE StringIInv'
  OBVIOUS
<1>1. string = NoString \/ IsString(string)
  BY DEF StringIInv
<1>2. PICK data \in Texts(2) \cup {<<Nul>> \o t : t \in Texts(1)} :
        IF data # <<>> /\ data[1] # Nul
        THEN CanDetach /\ StringBecomes(StringDataAppend(DetachedString, data), Text(string) \o data, FALSE)
        ELSE /\ stringCall' = [expected |-> Text(string) \o data, departs |-> data # <<>>]
             /\ UNCHANGED <<string, stringCopied>>
  BY DEF StringAppend
<1>3. CASE data # <<>> /\ data[1] # Nul
  <2>1. StringBecomes(StringDataAppend(DetachedString, data), Text(string) \o data, FALSE)
    BY <1>2, <1>3
  <2>2. data \in Seq(StringCells)
    <3>1. CASE data \in Texts(2)
      BY <3>1, TextsAre
    <3>2. CASE data \in {<<Nul>> \o t : t \in Texts(1)}
      <4>1. PICK t \in Texts(1) : data = <<Nul>> \o t
        BY <3>2
      <4>2. t \in Seq(StringCells) /\ <<Nul>> \in Seq(StringCells)
        BY TextsAre, StringCellValues
      <4> QED
        BY <4>1, <4>2, ConcatProperties
    <3> QED
      BY <3>1, <3>2
  <2>3. IsString(DetachedString) /\ Text(DetachedString) = Text(string)
    BY <1>1, DetachedText DEF HoldsText
  <2>4. HoldsText(StringDataAppend(DetachedString, data), Text(string) \o data)
    BY <2>2, <2>3, AppendText
  <2> QED
    BY <2>1, <2>4, BecomesHeld
<1>4. CASE ~(data # <<>> /\ data[1] # Nul)
  <2>1. /\ stringCall' = [expected |-> Text(string) \o data, departs |-> data # <<>>]
        /\ string' = string /\ stringCopied' = stringCopied
    BY <1>2, <1>4
  <2>2. stringCall'.expected = Text(string) \o data /\ stringCall'.departs = (data # <<>>)
    BY <2>1
  <2>3. data = <<>> => Text(string) \o data = Text(string)
    BY <1>1, StringTextIs, ConcatEmptySeq
  <2>4. (Text(string))' = Text(string)
    BY <2>1 DEF Text
  <2>5. stringCall'.departs \in BOOLEAN
    BY <2>2
  <2>6. stringCall'.departs \/ (Text(string))' = stringCall'.expected
    BY <2>2, <2>3, <2>4, Zenon
  <2>7. (string = NoString \/ IsString(string))' /\ stringCopied' \in BOOLEAN
    BY <1>1, <2>1 DEF IsString, StringIInv
  <2> QED
    BY <2>5, <2>6, <2>7 DEF StringIInv
<1> QED
  BY <1>3, <1>4

LEMMA AppendOwnKeeps == StringIInv /\ StringAppendOwn => StringIInv'
<1> SUFFICES ASSUME StringIInv, StringAppendOwn PROVE StringIInv'
  OBVIOUS
<1> DEFINE freed == ~stringCopied /\ Len(string.cells) < 2 * string.len + 1
           junk == [i \in 1..string.len |-> Junk]
<1>1. string = NoString \/ IsString(string)
  BY DEF StringIInv
<1>2. PICK data \in {Text(string)} \cup (IF freed THEN {junk} ELSE {}) :
        StringBecomes(StringDataAppend(DetachedString, data), Text(string) \o Text(string), freed)
  BY DEF StringAppendOwn
<1>3. Text(string) \in Seq(StringCells) /\ IsString(string)
  <2>1. Text(string) # <<>>
    BY DEF StringAppendOwn
  <2> QED
    BY <1>1, <2>1, StringTextIs DEF Text
<1>4. junk \in Seq(StringCells)
  <2>1. string.len \in Nat
    BY <1>3, TextIs
  <2> QED
    BY <2>1, StringCellValues
<1>5. freed \in BOOLEAN /\ data \in Seq(StringCells) /\ (freed \/ data = Text(string))
  <2>1. freed \in BOOLEAN
    OBVIOUS
  <2> HIDE DEF freed, junk
  <2> QED
    BY <1>2, <1>3, <1>4, <2>1
<1> HIDE DEF freed, junk
<1>6. IsString(DetachedString) /\ Text(DetachedString) = Text(string)
  BY <1>1, DetachedText DEF HoldsText
<1> DEFINE result == StringDataAppend(DetachedString, data)
<1>7. IsString(result) /\ Text(result) = Text(string) \o data
  <2>1. HoldsText(result, Text(DetachedString) \o data)
    BY <1>5, <1>6, AppendText
  <2> QED
    BY <1>6, <2>1 DEF HoldsText
<1> HIDE DEF result
<1>8. freed \/ Text(result) = Text(string) \o Text(string)
  BY <1>5, <1>7
<1>9. StringBecomes(result, Text(string) \o Text(string), freed)
  BY <1>2 DEF result
<1> QED
  BY <1>5, <1>7, <1>8, <1>9, BecomesText

LEMMA ResizeKeeps == StringIInv /\ StringResize => StringIInv'
<1> SUFFICES ASSUME StringIInv, StringResize PROVE StringIInv'
  OBVIOUS
<1>1. string = NoString \/ IsString(string)
  BY DEF StringIInv
<1> DEFINE size == Len(Text(string))
           kept(n) == IF n < size THEN n ELSE size
<1>2. PICK n \in 0..MaxText :
        StringBecomes(StringDataResize(DetachedString, n + 1), SubSeq(Text(string), 1, kept(n)), n > kept(n))
  BY DEF StringResize
<1>3. IsString(DetachedString) /\ Text(DetachedString) = Text(string) /\ DetachedString.len = size
  <2>1. IsString(DetachedString) /\ Text(DetachedString) = Text(string)
    BY <1>1, DetachedText DEF HoldsText
  <2> QED
    BY <2>1, TextIs
<1>4. n \in Nat /\ size \in Nat
  BY <1>1, StringTextIs, StringAssumption
<1> DEFINE result == StringDataResize(DetachedString, n + 1)
<1>5. IsString(result) /\ (n <= size => Text(result) = SubSeq(Text(string), 1, n))
  <2>1. /\ IsString(result)
        /\ n <= DetachedString.len => Text(result) = SubSeq(Text(DetachedString), 1, n)
    BY <1>3, <1>4, ResizeText
  <2> HIDE DEF result
  <2> QED
    BY <1>3, <2>1
<1> HIDE DEF result, size
<1>6. n > kept(n) \/ (kept(n) = n /\ n <= size)
  BY <1>4
<1> DEFINE departs == n > kept(n)
<1>7. departs \in BOOLEAN
  OBVIOUS
<1>8. departs \/ Text(result) = SubSeq(Text(string), 1, kept(n))
  BY <1>5, <1>6
<1>9. StringBecomes(result, SubSeq(Text(string), 1, kept(n)), departs)
  BY <1>2 DEF result
<1> HIDE DEF departs
<1> QED
  BY <1>5, <1>7, <1>8, <1>9, BecomesText

LEMMA SetKeeps == StringIInv /\ StringSet => StringIInv'
<1> SUFFICES ASSUME StringIInv, StringSet PROVE StringIInv'
  OBVIOUS
<1>1. string = NoString \/ IsString(string)
  BY DEF StringIInv
<1>2. PICK i \in 1..Len(Text(string)), c \in Char :
        StringBecomes([DetachedString EXCEPT !.cells[i] = c], [Text(string) EXCEPT ![i] = c], FALSE)
  BY DEF StringSet
<1>3. IsString(DetachedString) /\ Text(DetachedString) = Text(string)
  BY <1>1, DetachedText DEF HoldsText
<1>4. i \in 1..DetachedString.len
  <2>1. Len(Text(DetachedString)) = DetachedString.len
    BY <1>3, TextIs
  <2> QED
    BY <1>2, <1>3, <2>1
<1>5. HoldsText([DetachedString EXCEPT !.cells[i] = c], [Text(DetachedString) EXCEPT ![i] = c])
  BY <1>2, <1>3, <1>4, SetText
<1> QED
  BY <1>2, <1>3, <1>5, BecomesHeld

LEMMA ReplaceKeeps == StringIInv /\ StringReplace => StringIInv'
<1> SUFFICES ASSUME StringIInv, StringReplace PROVE StringIInv'
  OBVIOUS
<1> DEFINE text == Text(string)
<1>1. text \in Seq(StringCells)
  BY StringTextIs DEF StringIInv
<1>2. PICK from \in Texts(2) \ {<<>>}, to \in Texts(1) :
        StringBecomes(Replaced(text, from, to), Substituted(text, from, to), FALSE)
  BY DEF StringReplace
<1>3. from \in Seq(StringCells) /\ to \in Seq(StringCells) /\ from # <<>>
  BY <1>2, TextsAre
<1> HIDE DEF text
<1>4. HoldsText(Replaced(text, from, to), Substituted(text, from, to))
  BY <1>1, <1>3, ReplacedHolds
<1> QED
  BY <1>2, <1>4, BecomesHeld

LEMMA SubstrKeeps == StringIInv /\ StringSubstr => StringIInv'
<1> SUFFICES ASSUME StringIInv, StringSubstr PROVE StringIInv'
  OBVIOUS
<1> DEFINE text == Text(string)
           size == Len(text)
           end(start, length) == IF length = npos \/ start + length > size THEN size ELSE start + length
<1>1. text \in Seq(StringCells) /\ size \in Nat
  BY StringTextIs DEF StringIInv
<1>2. PICK start \in 0..MaxText, length \in {npos} \cup 0..MaxText :
        StringBecomes(IF start >= size THEN NoString ELSE StringOf(Substr(text, start, length)),
                      SubSeq(text, start + 1, end(start, length)), FALSE)
  BY DEF StringSubstr
<1>3. start \in Nat /\ (length = npos \/ length \in Nat)
  BY <1>2, StringAssumption
<1> HIDE DEF text
<1>4. CASE start >= size
  <2>1. StringBecomes(NoString, SubSeq(text, start + 1, end(start, length)), FALSE)
    BY <1>2, <1>4
  <2>2. end(start, length) < start + 1 /\ end(start, length) \in Int /\ start + 1 \in Int
    BY <1>1, <1>3, <1>4
  <2> HIDE DEF end
  <2>3. SubSeq(text, start + 1, end(start, length)) = <<>>
    BY <2>2, SubSeqEmpty
  <2>4. Text(NoString) = <<>>
    BY DEF Text
  <2> QED
    BY <2>1, <2>3, <2>4, BecomesText
<1>5. CASE ~(start >= size)
  <2> DEFINE t == SubSeq(text, start + 1, end(start, length))
  <2>1. StringBecomes(StringOf(Substr(text, start, length)), t, FALSE)
    BY <1>2, <1>5
  <2>2. Substr(text, start, length) = t
    <3> DEFINE rest == size - start
               n == IF length = npos \/ length > rest THEN rest ELSE length
    <3>1. Substr(text, start, length) = SubSeq(text, start + 1, start + n)
      BY <1>5 DEF Substr
    <3>2. start + n = end(start, length)
      BY <1>1, <1>3, <1>5
    <3> HIDE DEF n, end
    <3> QED
      BY <3>1, <3>2
  <2>3. t \in Seq(StringCells)
    <3>1. end(start, length) \in Int /\ end(start, length) <= size /\ start + 1 \in Int
      BY <1>1, <1>3, <1>5
    <3>2. \A i \in (start + 1)..end(start, length) : text[i] \in StringCells
      BY <1>1, <1>3, <3>1
    <3> HIDE DEF end
    <3> QED
      BY <3>1, <3>2, SubSeqProperties
  <2> HIDE DEF t
  <2>4. HoldsText(StringOf(Substr(text, start, length)), t)
    BY <2>2, <2>3, StringOfHolds
  <2> QED
    BY <2>1, <2>4, BecomesHeld
<1> QED
  BY <1>4, <1>5

LEMMA BuildKeeps == StringIInv /\ StringBuild => StringIInv'
<1> SUFFICES ASSUME StringIInv, StringBuild PROVE StringIInv'
  OBVIOUS
<1>1. CASE \E a \in Texts(1), b \in Texts(1) : StringBecomes(Concatenated(<<a, b>>), a \o b, FALSE)
  <2>1. PICK a \in Texts(1), b \in Texts(1) : StringBecomes(Concatenated(<<a, b>>), a \o b, FALSE)
    BY <1>1
  <2>2. a \in Seq(StringCells) /\ b \in Seq(StringCells)
    BY TextsAre
  <2>3. HoldsText(Concatenated(<<a, b>>), a \o b)
    BY <2>2, SumHolds
  <2> QED
    BY <2>1, <2>3, BecomesHeld
<1>2. CASE \E c \in Char : StringBecomes(Joined(Split(Text(string), c, TRUE), <<c>>), Text(string), FALSE)
  <2>1. PICK c \in Char : StringBecomes(Joined(Split(Text(string), c, TRUE), <<c>>), Text(string), FALSE)
    BY <1>2
  <2>2. Text(string) \in Seq(StringCells)
    BY StringTextIs DEF StringIInv
  <2>3. c \in StringCells /\ <<c>> \in Seq(StringCells)
    BY StringCellValues
  <2>4. Makes(Split(Text(string), c, TRUE), <<c>>, Text(string))
    BY <2>2, <2>3, SplitMakes
  <2>5. HoldsText(Joined(Split(Text(string), c, TRUE), <<c>>), Text(string))
    BY <2>3, <2>4, JoinedHolds
  <2> QED
    BY <2>1, <2>5, BecomesHeld
<1> QED
  BY <1>1, <1>2 DEF StringBuild

(* Every call keeps the invariant. *)
LEMMA StringNextKeeps == StringIInv /\ [StringNext]_stringVars => StringIInv'
<1> SUFFICES ASSUME StringIInv, [StringNext]_stringVars PROVE StringIInv'
  OBVIOUS
<1>1. string = NoString \/ IsString(string)
  BY DEF StringIInv
<1>2. HoldsText(DetachedString, Text(string))
  BY <1>1, DetachedText
<1>3. ASSUME string' = string, stringCall' = stringCall, stringCopied' \in BOOLEAN
      PROVE  StringIInv'
  <2>1. (Text(string))' = Text(string) /\ (string = NoString \/ IsString(string))'
    BY <1>1, <1>3 DEF Text, IsString
  <2> QED
    BY <1>3, <2>1 DEF StringIInv
<1>4. CASE CopyString
  BY <1>3, <1>4 DEF CopyString
<1>5. CASE DropStringCopy
  BY <1>3, <1>5 DEF DropStringCopy
<1>6. CASE StringAssign
  <2>1. CASE StringBecomes(NullData, <<>>, FALSE)
    BY <2>1, NullDataHolds, BecomesHeld
  <2>2. CASE \E t \in Texts(2) : StringBecomes(StringOf(t), t, FALSE)
    <3>1. PICK t \in Texts(2) : StringBecomes(StringOf(t), t, FALSE)
      BY <2>2
    <3>2. HoldsText(StringOf(t), t)
      BY TextsAre, StringOfHolds
    <3> QED
      BY <3>1, <3>2, BecomesHeld
  <2> QED
    BY <1>6, <2>1, <2>2 DEF StringAssign
<1>7. CASE StringReserve
  <2>1. PICK n \in 0..MaxText : StringBecomes(BufferReserve(DetachedString, n + 1), Text(string), FALSE)
    BY <1>7 DEF StringReserve
  <2>2. n + 1 \in Nat
    BY StringAssumption
  <2>3. HoldsText(BufferReserve(DetachedString, n + 1), Text(string))
    BY <1>2, <2>2, ReserveText DEF HoldsText
  <2> QED
    BY <2>1, <2>3, BecomesHeld
<1>8. CASE StringSqueeze
  <2>1. HoldsText(BufferSqueeze(DetachedString), Text(string))
    BY <1>2, SqueezeText DEF HoldsText
  <2> QED
    BY <1>8, <2>1, BecomesHeld DEF StringSqueeze
<1>9. CASE UNCHANGED stringVars
  BY <1>3, <1>9 DEF stringVars, StringIInv
<1> QED
  BY <1>4, <1>5, <1>6, <1>7, <1>8, <1>9, AppendKeeps, AppendOwnKeeps, ResizeKeeps,
     SetKeeps, ReplaceKeeps, SubstrKeeps, BuildKeeps DEF StringNext

(* The inductive invariant of the String: data in which the buffer has room *)
(* for its size, a text that is not empty ends in its null character, and  *)
(* the text is the one that the last call should have led to.              *)
THEOREM StringInvariant == StringSpec => []StringIInv
<1>1. StringInit => StringIInv
  BY StringInitHolds
<1>2. StringIInv /\ [StringNext]_stringVars => StringIInv'
  BY StringNextKeeps
<1> QED
  BY <1>1, <1>2, PTL DEF StringSpec

(* For any characters and lengths of text, a String is what its users take *)
(* it for: replace() substitutes from left to right, join() undoes split(),*)
(* a shared buffer is left alone, and searching and comparing tell the     *)
(* truth about the text, but for the departures the module lists.          *)
THEOREM StringsHoldTheirText == StringSpec => []StringAsDocumented
<1>1. StringIInv => StringAsDocumented
  <2> SUFFICES ASSUME StringIInv PROVE StringAsDocumented
    OBVIOUS
  <2>1. string = NoString \/ IsString(string)
    BY DEF StringIInv
  <2>2. StringTerminated
    BY <2>1 DEF StringTerminated, IsString
  <2>3. Plain /\ ~Unterminated => AnswersTrue
    BY <2>1, AnswersHold
  <2> QED
    BY <2>2, <2>3 DEF StringAsDocumented, StringIInv
<1> QED
  BY <1>1, StringInvariant, PTL

-----------------------------------------------------------------------------
(* Codecs.  A text that was written piece by piece is read piece by piece:  *)
(* where each piece lies in it is known from how it was written.            *)

(* The text a lies in t behind the first n characters; it ends t.           *)
Lies(t, n, a) == n + Len(a) <= Len(t) /\ \A i \in 1..Len(a) : t[n + i] = a[i]
Ends(t, n, a) == Lies(t, n, a) /\ n + Len(a) = Len(t)

LEMMA TextElements ==
  ASSUME NEW C, NEW t \in Seq(C)
  PROVE  Len(t) \in Nat /\ DOMAIN t = 1..Len(t) /\ \A k \in 1..Len(t) : t[k] \in C
OBVIOUS

LEMMA LiesItself ==
  ASSUME NEW C, NEW t \in Seq(C)
  PROVE  Ends(t, 0, t)
BY DEF Lies, Ends

LEMMA LiesApart ==
  ASSUME NEW C, NEW t \in Seq(C), NEW n \in Nat, NEW a \in Seq(C), NEW b \in Seq(C), Lies(t, n, a \o b)
  PROVE  Lies(t, n, a) /\ Lies(t, n + Len(a), b)
<1>1. Len(a) \in Nat /\ Len(b) \in Nat /\ Len(t) \in Nat /\ Len(a \o b) = Len(a) + Len(b)
  OBVIOUS
<1>2. \A i \in 1..Len(a) : t[n + i] = a[i]
  <2> TAKE i \in 1..Len(a)
  <2>1. i \in 1..Len(a \o b) /\ (a \o b)[i] = a[i]
    BY <1>1
  <2> QED
    BY <2>1 DEF Lies
<1>3. \A i \in 1..Len(b) : t[(n + Len(a)) + i] = b[i]
  <2> TAKE i \in 1..Len(b)
  <2>1. Len(a) + i \in 1..Len(a \o b) /\ (a \o b)[Len(a) + i] = b[i]
    BY <1>1
  <2>2. n + (Len(a) + i) = (n + Len(a)) + i
    BY <1>1
  <2> QED
    BY <2>1, <2>2 DEF Lies
<1> QED
  BY <1>1, <1>2, <1>3 DEF Lies

LEMMA EndsApart ==
  ASSUME NEW C, NEW t \in Seq(C), NEW n \in Nat, NEW a \in Seq(C), NEW b \in Seq(C), Ends(t, n, a \o b)
  PROVE  Lies(t, n, a) /\ Ends(t, n + Len(a), b)
<1>1. Len(a) \in Nat /\ Len(b) \in Nat /\ Len(a \o b) = Len(a) + Len(b)
  OBVIOUS
<1>2. Lies(t, n, a \o b) /\ n + Len(a \o b) = Len(t)
  BY DEF Ends
<1> QED
  BY <1>1, <1>2, LiesApart DEF Ends

LEMMA LiesPart ==
  ASSUME NEW C, NEW t \in Seq(C), NEW n \in Nat, NEW a \in Seq(C), Lies(t, n, a)
  PROVE  SubSeq(t, n + 1, n + Len(a)) = a
<1> DEFINE s == SubSeq(t, n + 1, n + Len(a))
<1>1. Len(a) \in Nat /\ Len(t) \in Nat /\ n + Len(a) <= Len(t)
  BY DEF Lies
<1>2. s \in Seq(C) /\ Len(s) = Len(a) /\ \A i \in 1..Len(a) : s[i] = t[n + i]
  BY <1>1
<1> HIDE DEF s
<1>3. \A i \in 1..Len(a) : s[i] = a[i]
  BY <1>2 DEF Lies
<1>4. s = a
  BY <1>2, <1>3, SeqEqual
<1> QED
  BY <1>4 DEF s

(* DownTo, for the numbers of pieces. *)
LEMMA DownPieces ==
  \A n \in Nat : \A S :
    (\A k \in 1..(n + 1) : (\A j \in 1..(n + 1) : k < j => j \in S) => k \in S) => 1..(n + 1) \subseteq S
<1> TAKE n \in Nat
<1> TAKE S
<1> HAVE \A k \in 1..(n + 1) : (\A j \in 1..(n + 1) : k < j => j \in S) => k \in S
<1>1. 1 \in Nat /\ n + 1 \in Nat
  OBVIOUS
<1> QED
  BY <1>1, DownTo

(* A function that writes pieces one behind the other, from the last one. *)
Writing(out, n, piece) ==
  out = [k \in 1..(n + 1) |-> IF k = n + 1 THEN <<>> ELSE piece[k] \o out[k + 1]]

LEMMA WritingExists ==
  ASSUME NEW n \in Nat, NEW piece
  PROVE  \E out : Writing(out, n, piece)
<1> DEFINE stops == [k \in 1..(n + 1) |-> k = n + 1]
           last == [k \in 1..(n + 1) |-> <<>>]
           next == [k \in 1..(n + 1) |-> k + 1]
<1>1. \A k \in 1..(n + 1) : ~stops[k] => next[k] \in 1..(n + 1) /\ k < next[k]
  <2> TAKE k \in 1..(n + 1)
  <2> HAVE ~stops[k]
  <2>1. k # n + 1 /\ next[k] = k + 1
    OBVIOUS
  <2> HIDE DEF next, stops
  <2> QED
    BY <2>1
<1>2. 1 \in Nat /\ n + 1 \in Nat
  OBVIOUS
<1>3. \E f : Unfolding(f, 1, n + 1, stops, last, piece, next)
  <2> HIDE DEF stops, last, next
  <2> QED
    BY <1>1, <1>2, Unfolds
<1>4. PICK f : Unfolding(f, 1, n + 1, stops, last, piece, next)
  BY <1>3
<1>5. Writing(f, n, piece)
  <2> DEFINE value(k) == IF stops[k] THEN last[k] ELSE piece[k] \o f[next[k]]
             other(k) == IF k = n + 1 THEN <<>> ELSE piece[k] \o f[k + 1]
  <2>1. \A k \in 1..(n + 1) : value(k) = other(k)
    OBVIOUS
  <2>2. f = [k \in 1..(n + 1) |-> value(k)]
    BY <1>4 DEF Unfolding
  <2> HIDE DEF value, other
  <2>3. f = [k \in 1..(n + 1) |-> other(k)]
    BY <2>1, <2>2
  <2> QED
    BY <2>3 DEF other, Writing
<1> QED
  BY <1>5

WrittenOut(out, n, piece, C) ==
  /\ out[n + 1] = <<>> /\ \A k \in 1..n : out[k] = piece[k] \o out[k + 1]
  /\ \A k \in 1..(n + 1) : out[k] \in Seq(C)

LEMMA WritingIs ==
  ASSUME NEW C, NEW n \in Nat, NEW piece, NEW out, Writing(out, n, piece),
         \A k \in 1..n : piece[k] \in Seq(C)
  PROVE  WrittenOut(out, n, piece, C)
<1> DEFINE S == {k \in 1..(n + 1) : out[k] \in Seq(C)}
<1>1. out[n + 1] = <<>> /\ \A k \in 1..n : out[k] = piece[k] \o out[k + 1]
  <2>1. \A k \in 1..(n + 1) : out[k] = IF k = n + 1 THEN <<>> ELSE piece[k] \o out[k + 1]
    BY DEF Writing
  <2>2. n + 1 \in 1..(n + 1) /\ \A k \in 1..n : k \in 1..(n + 1) /\ k # n + 1
    OBVIOUS
  <2> QED
    BY <2>1, <2>2
<1>2. ASSUME NEW k \in 1..(n + 1), \A j \in 1..(n + 1) : k < j => j \in S
      PROVE  k \in S
  <2>1. CASE k = n + 1
    <3>1. out[k] = <<>> /\ <<>> \in Seq(C)
      BY <1>1, <2>1
    <3> QED
      BY <3>1
  <2>2. CASE k # n + 1
    <3>1. k \in 1..n /\ k + 1 \in 1..(n + 1) /\ k < k + 1
      BY <2>2
    <3>2. out[k + 1] \in Seq(C)
      BY <1>2, <3>1
    <3>3. out[k] \in Seq(C)
      <4>1. \A u, v \in Seq(C) : u \o v \in Seq(C)
        OBVIOUS
      <4>2. piece[k] \in Seq(C) /\ out[k] = piece[k] \o out[k + 1]
        BY <1>1, <3>1
      <4> QED
        BY <3>2, <4>1, <4>2
    <3> QED
      BY <3>3
  <2> QED
    BY <2>1, <2>2
<1> HIDE DEF S
<1>3. 1..(n + 1) \subseteq S
  <2>1. \A k \in 1..(n + 1) : (\A j \in 1..(n + 1) : k < j => j \in S) => k \in S
    BY <1>2
  <2> QED
    BY <2>1, DownPieces, Zenon
<1> QED
  BY <1>1, <1>3 DEF S, WrittenOut

(* What is written piece by piece is read item by item. *)
Pieces(piece, n, C) == \A k \in 1..n : piece[k] \in Seq(C)
Reader(read, t, items, piece, out) ==
  /\ read[Len(t)] = <<>>
  /\ \A k \in 1..Len(items) : \A b \in 0..Len(t) :
       Ends(t, b, piece[k] \o out[k + 1]) => read[b] = <<items[k]>> \o read[b + Len(piece[k])]

LEMMA ReadsBack ==
  ASSUME NEW C, NEW D, NEW t \in Seq(C), NEW n \in Nat, NEW piece, NEW out, NEW read,
         NEW items \in Seq(D), Len(items) = n,
         Writing(out, n, piece), Pieces(piece, n, C), Reader(read, t, items, piece, out),
         NEW begin \in 0..Len(t), Ends(t, begin, out[1])
  PROVE  read[begin] = items
<1> DEFINE Reads(k, b) == read[b] = SubSeq(items, k, n)
           S == {k \in 1..(n + 1) : \A b \in 0..Len(t) : Ends(t, b, out[k]) => Reads(k, b)}
<1>1. /\ out[n + 1] = <<>> /\ \A k \in 1..n : out[k] = piece[k] \o out[k + 1]
      /\ \A k \in 1..(n + 1) : out[k] \in Seq(C)
  <2>1. WrittenOut(out, n, piece, C)
    BY WritingIs DEF Pieces
  <2> QED
    BY <2>1 DEF WrittenOut
<1>2. ASSUME NEW k \in 1..(n + 1), \A j \in 1..(n + 1) : k < j => j \in S
      PROVE  k \in S
  <2> SUFFICES ASSUME NEW b \in 0..Len(t), Ends(t, b, out[k]) PROVE Reads(k, b)
    OBVIOUS
  <2>1. CASE k = n + 1
    <3>1. b = Len(t)
      BY <1>1, <2>1 DEF Ends
    <3>2. SubSeq(items, k, n) = <<>>
      BY <2>1
    <3> QED
      BY <3>1, <3>2 DEF Reader
  <2>2. CASE k # n + 1
    <3>1. k \in 1..n /\ k + 1 \in 1..(n + 1) /\ k < k + 1
      BY <2>2
    <3>2. piece[k] \in Seq(C) /\ out[k + 1] \in Seq(C) /\ out[k] = piece[k] \o out[k + 1]
      BY <1>1, <3>1 DEF Pieces
    <3>3. b \in Nat /\ Len(piece[k]) \in Nat /\ Len(out[k + 1]) \in Nat /\ Len(t) \in Nat
      BY <3>2
    <3>4. Ends(t, b + Len(piece[k]), out[k + 1])
      BY <3>2, <3>3, EndsApart
    <3>5. b + Len(piece[k]) \in 0..Len(t)
      <4>1. (b + Len(piece[k])) + Len(out[k + 1]) = Len(t)
        BY <3>4 DEF Ends
      <4>2. \A x, y, z, l \in Nat : (x + y) + z = l => x + y \in 0..l
        OBVIOUS
      <4> QED
        BY <3>3, <4>1, <4>2, Zenon
    <3>6. k + 1 \in S
      BY <1>2, <3>1
    <3>7. Reads(k + 1, b + Len(piece[k]))
      BY <3>4, <3>5, <3>6
    <3>8. read[b] = <<items[k]>> \o read[b + Len(piece[k])]
      BY <3>1, <3>2 DEF Reader
    <3>9. <<items[k]>> \o SubSeq(items, k + 1, n) = SubSeq(items, k, n)
      <4> DEFINE s == SubSeq(items, k, n)
                 r == SubSeq(items, k + 1, n)
      <4>1. s \in Seq(D) /\ Len(s) = n - k + 1 /\ \A i \in 1..(n - k + 1) : s[i] = items[k + i - 1]
        BY <3>1
      <4>2. r \in Seq(D) /\ Len(r) = n - k /\ \A i \in 1..(n - k) : r[i] = items[k + i]
        BY <3>1
      <4> HIDE DEF s, r
      <4>3. items[k] \in D
        BY <3>1
      <4>4. /\ <<items[k]>> \o r \in Seq(D) /\ Len(<<items[k]>> \o r) = n - k + 1
            /\ \A i \in 1..(n - k + 1) : (<<items[k]>> \o r)[i] = IF i = 1 THEN items[k] ELSE r[i - 1]
        BY <3>1, <4>2, <4>3
      <4>5. \A i \in 1..(n - k + 1) : (<<items[k]>> \o r)[i] = s[i]
        <5> TAKE i \in 1..(n - k + 1)
        <5>1. CASE i = 1
          BY <3>1, <4>1, <4>4, <5>1
        <5>2. CASE i # 1
          <6>1. i - 1 \in 1..(n - k) /\ k + (i - 1) = k + i - 1
            BY <3>1, <5>2
          <6> QED
            BY <4>1, <4>2, <4>4, <5>2, <6>1
        <5> QED
          BY <5>1, <5>2
      <4>6. <<items[k]>> \o r = s
        BY <4>1, <4>4, <4>5, SeqEqual
      <4> QED
        BY <4>6 DEF s, r
    <3> QED
      BY <3>7, <3>8, <3>9
  <2> QED
    BY <2>1, <2>2
<1> HIDE DEF S
<1>3. 1..(n + 1) \subseteq S
  <2>1. \A k \in 1..(n + 1) : (\A j \in 1..(n + 1) : k < j => j \in S) => k \in S
    BY <1>2
  <2> QED
    BY <2>1, DownPieces, Zenon
<1>4. 1 \in 1..(n + 1)
  OBVIOUS
<1>5. Reads(1, begin)
  BY <1>3, <1>4 DEF S
<1> QED
  BY <1>5

-----------------------------------------------------------------------------
(* urlencode, urldecode. *)

LEMMA HexDigits ==
  ASSUME NEW d \in 0..15
  PROVE  Digit(HexDigit(d)) = d /\ HexDigit(d) \in Nat
<1>1. CASE d < 10
  <2>1. HexDigit(d) = 48 + d /\ 48 + d \in 48..57 /\ (48 + d) - 48 = d
    BY <1>1 DEF HexDigit
  <2>2. Digit(48 + d) = (48 + d) - 48
    <3>1. 48 + d \in 48..57 /\ 48 + d \notin 65..70 /\ 48 + d \notin 97..102
      BY <2>1
    <3> QED
      BY <3>1 DEF Digit
  <2> QED
    BY <2>1, <2>2
<1>2. CASE ~(d < 10)
  <2>1. HexDigit(d) = 55 + d /\ 55 + d \in 65..70 /\ (55 + d) - 55 = d
    BY <1>2 DEF HexDigit
  <2>2. Digit(55 + d) = (55 + d) - 55
    <3>1. 55 + d \notin 48..57 /\ 55 + d \in 65..70 /\ 55 + d \notin 97..102
      BY <2>1
    <3> QED
      BY <3>1 DEF Digit
  <2> QED
    BY <2>1, <2>2
<1> QED
  BY <1>1, <1>2

LEMMA JoinedCells ==
  ASSUME NEW C, NEW a \in Seq(C), NEW b \in Seq(C)
  PROVE  /\ a \o b \in Seq(C) /\ Len(a \o b) = Len(a) + Len(b)
         /\ \A i \in 1..Len(a) : (a \o b)[i] = a[i]
         /\ \A i \in 1..Len(b) : (a \o b)[Len(a) + i] = b[i]
<1>1. \A i \in 1..Len(b) : (a \o b)[Len(a) + i] = b[i]
  <2> TAKE i \in 1..Len(b)
  <2>1. Len(a) \in Nat /\ Len(b) \in Nat
    OBVIOUS
  <2>2. Len(a) + i \in 1..(Len(a) + Len(b)) /\ ~(Len(a) + i <= Len(a)) /\ (Len(a) + i) - Len(a) = i
    BY <2>1
  <2> QED
    BY <2>2
<1> QED
  BY <1>1

LEMMA ThreeJoined ==
  \A x, y, z \in Nat : <<x>> \o (<<>> \o <<y, z>>) = <<x, y, z>>
<1> TAKE x \in Nat, y \in Nat, z \in Nat
<1> DEFINE e == <<>>
           s == <<y, z>>
           r == <<x>>
<1>1. /\ e \in Seq(Nat) /\ Len(e) = 0 /\ s \in Seq(Nat) /\ Len(s) = 2 /\ s[1] = y /\ s[2] = z
      /\ r \in Seq(Nat) /\ Len(r) = 1 /\ r[1] = x
  OBVIOUS
<1>2. <<x, y, z>> \in Seq(Nat) /\ Len(<<x, y, z>>) = 3 /\ <<x, y, z>>[1] = x /\ <<x, y, z>>[2] = y /\ <<x, y, z>>[3] = z
  OBVIOUS
<1> HIDE DEF e, s, r
<1>3. e \o s \in Seq(Nat) /\ Len(e \o s) = 2 /\ (e \o s)[1] = y /\ (e \o s)[2] = z
  <2>1. \A v \in Seq(Nat) : <<>> \o v = v
    OBVIOUS
  <2>2. e \o s = s
    BY <1>1, <2>1 DEF e
  <2> QED
    BY <1>1, <2>2
<1> DEFINE q == e \o s
<1> HIDE DEF q
<1>4. r \o q \in Seq(Nat) /\ Len(r \o q) = 3 /\ (r \o q)[1] = x /\ (r \o q)[2] = y /\ (r \o q)[3] = z
  <2>1. q \in Seq(Nat) /\ Len(q) = 2 /\ q[1] = y /\ q[2] = z
    BY <1>3 DEF q
  <2>2. /\ r \o q \in Seq(Nat) /\ Len(r \o q) = Len(r) + Len(q)
        /\ \A i \in 1..Len(r) : (r \o q)[i] = r[i]
        /\ \A i \in 1..Len(q) : (r \o q)[Len(r) + i] = q[i]
    <3>1. r \in Seq(Nat) /\ q \in Seq(Nat)
      BY <1>1, <2>1
    <3>2. \A u, v \in Seq(Nat) :
            /\ u \o v \in Seq(Nat) /\ Len(u \o v) = Len(u) + Len(v)
            /\ \A i \in 1..Len(u) : (u \o v)[i] = u[i]
            /\ \A i \in 1..Len(v) : (u \o v)[Len(u) + i] = v[i]
      BY JoinedCells
    <3> QED
      BY <3>1, <3>2, Zenon
  <2> DEFINE w == r \o q
  <2> HIDE DEF w
  <2>3. /\ w \in Seq(Nat) /\ Len(w) = 1 + 2 /\ (\A i \in 1..1 : w[i] = r[i]) /\ (\A i \in 1..2 : w[1 + i] = q[i])
    BY <1>1, <2>1, <2>2 DEF w
  <2>4. 1 \in 1..1 /\ 1 \in 1..2 /\ 2 \in 1..2 /\ 1 + 1 = 2 /\ 1 + 2 = 3
    OBVIOUS
  <2>5. w[1] = r[1] /\ w[2] = q[1] /\ w[3] = q[2]
    BY <2>3, <2>4
  <2> QED
    BY <1>1, <2>1, <2>3, <2>4, <2>5 DEF w
<1> DEFINE w == r \o q
           v == <<x, y, z>>
<1> HIDE DEF w, v
<1>5. \A i \in 1..3 : w[i] = v[i]
  <2>1. \A i \in 1..3 : i = 1 \/ i = 2 \/ i = 3
    OBVIOUS
  <2> QED
    BY <1>2, <1>4, <2>1 DEF w, v
<1>6. w = v
  BY <1>2, <1>4, <1>5, SeqEqual DEF w, v
<1> QED
  BY <1>6 DEF w, v, q, e, s, r

(* How a character is escaped: three ways. *)
Hexed(c) == <<Percent, HexDigit(c \div 16), HexDigit(c % 16)>>

LEMMA EscapedIs ==
  ASSUME NEW c \in 1..127
  PROVE  /\ Escaped(c) \in {<<c>>, <<Plus>>, Hexed(c)} /\ Escaped(c) \in Seq(Nat)
         /\ Escaped(c) = <<c>> => c # Percent /\ c # Plus
         /\ Escaped(c) = <<Plus>> => c = Space
<1>1. c \div 16 \in 0..15 /\ (c % 16) \in 0..15
  OBVIOUS
<1>2. Hexed(c) \in Seq(Nat) /\ Len(Hexed(c)) = 3
  <2>1. HexDigit(c \div 16) \in Nat /\ HexDigit(c % 16) \in Nat /\ Percent \in Nat
    BY <1>1, HexDigits DEF Percent
  <2> DEFINE h == HexDigit(c \div 16)
             l == HexDigit(c % 16)
  <2> HIDE DEF h, l
  <2>2. h \in Nat /\ l \in Nat
    BY <2>1 DEF h, l
  <2>3. <<Percent, h, l>> \in Seq(Nat) /\ Len(<<Percent, h, l>>) = 3
    BY <2>1, <2>2
  <2> QED
    BY <2>3 DEF h, l, Hexed
<1>3. <<Plus>> \in Seq(Nat) /\ <<c>> \in Seq(Nat) /\ Len(<<Plus>>) = 1 /\ Len(<<c>>) = 1
  BY DEF Plus
<1>4. CASE c = Space
  <2>1. Escaped(c) = <<Plus>> /\ c # Plus
    BY <1>4 DEF Escaped, Space, Plus
  <2>2. <<c>> # <<Plus>>
    BY <2>1
  <2> QED
    BY <1>3, <1>4, <2>1, <2>2
<1>5. CASE c # Space /\ Unreserved(c)
  <2>1. Escaped(c) = <<c>>
    BY <1>5 DEF Escaped
  <2>2. c # Percent /\ c # Plus
    BY <1>5 DEF Unreserved, Percent, Plus
  <2>3. <<c>> # <<Plus>>
    BY <2>2
  <2> QED
    BY <1>3, <2>1, <2>2, <2>3
<1>6. CASE c # Space /\ ~Unreserved(c)
  <2> DEFINE h == HexDigit(c \div 16)
             l == HexDigit(c % 16)
  <2>1. HexOf(c) = <<>> \o <<h, l>>
    <3>1. ~(c > 127)
      OBVIOUS
    <3> QED
      BY <3>1 DEF HexOf
  <2>2. h \in Nat /\ l \in Nat /\ Percent \in Nat
    BY <1>1, HexDigits DEF Percent
  <2>3. Escaped(c) = <<Percent>> \o HexOf(c)
    BY <1>6 DEF Escaped
  <2> HIDE DEF h, l
  <2>4. <<Percent>> \o (<<>> \o <<h, l>>) = <<Percent, h, l>>
    <3>1. \A x, y, z \in Nat : <<x>> \o (<<>> \o <<y, z>>) = <<x, y, z>>
      BY ThreeJoined
    <3> QED
      BY <2>2, <3>1
  <2>5. Escaped(c) = Hexed(c)
    BY <2>1, <2>3, <2>4 DEF Hexed, h, l
  <2>6. Hexed(c) # <<c>> /\ Hexed(c) # <<Plus>>
    <3> DEFINE s == Hexed(c)
               r == <<c>>
               p == <<Plus>>
    <3>1. Len(s) = 3 /\ Len(r) = 1 /\ Len(p) = 1
      BY <1>2, <1>3
    <3> HIDE DEF s, r, p
    <3>2. s # r /\ s # p
      BY <3>1
    <3> QED
      BY <3>2 DEF s, r, p
  <2> QED
    BY <1>2, <2>5, <2>6
<1> QED
  BY <1>4, <1>5, <1>6

(* Where an escaped character stands, it is read, and the next one after it. *)
LEMMA UnescapedIs ==
  ASSUME NEW t \in Seq(Nat), NEW b \in Nat, NEW c \in 1..127, Lies(t, b, Escaped(c))
  PROVE  /\ b + 1 <= Len(t)
         /\ Unescaped(t, b + 1) = <<c>>
         /\ (IF EscapedAt(t, b + 1) THEN b + 3 ELSE b + 1) = b + Len(Escaped(c))
<1>1. CASE Escaped(c) = <<c>>
  <2>1. Len(<<c>>) = 1 /\ <<c>>[1] = c /\ 1 \in 1..1
    OBVIOUS
  <2>2. t[b + 1] = c /\ b + 1 <= Len(t)
    BY <1>1, <2>1 DEF Lies
  <2>3. c # Percent /\ c # Plus
    BY <1>1, EscapedIs
  <2>4. ~EscapedAt(t, b + 1)
    BY <2>2, <2>3 DEF EscapedAt
  <2>5. Unescaped(t, b + 1) = <<c>>
    BY <2>2, <2>3, <2>4 DEF Unescaped
  <2> QED
    BY <1>1, <2>1, <2>2, <2>4, <2>5
<1>2. CASE Escaped(c) = <<Plus>>
  <2>1. Len(<<Plus>>) = 1 /\ <<Plus>>[1] = Plus /\ 1 \in 1..1 /\ Plus # Percent
    BY DEF Plus, Percent
  <2>2. t[b + 1] = Plus /\ b + 1 <= Len(t)
    BY <1>2, <2>1 DEF Lies
  <2>3. c = Space
    BY <1>2, EscapedIs
  <2>4. ~EscapedAt(t, b + 1)
    BY <2>1, <2>2 DEF EscapedAt
  <2>5. Unescaped(t, b + 1) = <<c>>
    BY <2>2, <2>3, <2>4 DEF Unescaped
  <2> QED
    BY <1>2, <2>1, <2>2, <2>4, <2>5
<1>3. CASE Escaped(c) = Hexed(c)
  <2> DEFINE h == HexDigit(c \div 16)
             l == HexDigit(c % 16)
  <2>1. c \div 16 \in 0..15 /\ (c % 16) \in 0..15 /\ 16 * (c \div 16) + (c % 16) = c
    OBVIOUS
  <2>2. Digit(h) = c \div 16 /\ Digit(l) = (c % 16)
    BY <2>1, HexDigits
  <2>3. Hexed(c) = <<Percent, h, l>>
    BY DEF Hexed
  <2> HIDE DEF h, l
  <2>4. Len(Hexed(c)) = 3 /\ Hexed(c)[1] = Percent /\ Hexed(c)[2] = h /\ Hexed(c)[3] = l
    BY <2>3
  <2>5. b + 3 <= Len(t) /\ \A i \in 1..3 : t[b + i] = Hexed(c)[i]
    BY <1>3, <2>4 DEF Lies
  <2>6. t[b + 1] = Percent /\ t[b + 2] = h /\ t[b + 3] = l
    BY <2>4, <2>5
  <2>7. (b + 1) + 1 = b + 2 /\ (b + 1) + 2 = b + 3
    OBVIOUS
  <2>8. EscapedAt(t, b + 1)
    BY <2>5, <2>6, <2>7 DEF EscapedAt
  <2> DEFINE c1 == Digit(t[(b + 1) + 1])
             c2 == Digit(t[(b + 1) + 2])
  <2>9. Unescaped(t, b + 1) = IF c1 < 0 \/ c2 < 0 THEN Failed ELSE IF c1 = 0 /\ c2 = 0 THEN <<>> ELSE <<16 * c1 + c2>>
    BY <2>8 DEF Unescaped
  <2>10. c1 = c \div 16 /\ c2 = (c % 16)
    BY <2>2, <2>6, <2>7
  <2> HIDE DEF c1, c2
  <2>11. ~(c1 < 0 \/ c2 < 0) /\ ~(c1 = 0 /\ c2 = 0) /\ 16 * c1 + c2 = c
    BY <2>1, <2>10
  <2> QED
    BY <1>3, <2>4, <2>5, <2>8, <2>9, <2>11
<1> QED
  BY <1>1, <1>2, <1>3, EscapedIs

(* The loop of urldecode. *)
DecodesFrom(rest, t) ==
  rest = [b \in 0..Len(t) |->
            IF b = Len(t) THEN <<>>
            ELSE Unescaped(t, b + 1) \o rest[IF EscapedAt(t, b + 1) THEN b + 3 ELSE b + 1]]

LEMMA UrlDecodedIs ==
  ASSUME NEW C, NEW t \in Seq(C)
  PROVE  \E rest : /\ DecodesFrom(rest, t)
                   /\ UrlDecoded(t) = IF Has(rest[0], Thrown) THEN Failed ELSE rest[0]
<1> DEFINE N == Len(t)
           go(b) == IF EscapedAt(t, b + 1) THEN b + 3 ELSE b + 1
           stops == [b \in 0..N |-> b = N]
           last == [b \in 0..N |-> <<>>]
           first == [b \in 0..N |-> Unescaped(t, b + 1)]
           next == [b \in 0..N |-> go(b)]
           rest == CHOOSE f : DecodesFrom(f, t)
<1>1. \A b \in 0..N : ~stops[b] => next[b] \in 0..N /\ b < next[b]
  <2> TAKE b \in 0..N
  <2> HAVE ~stops[b]
  <2>1. b # N /\ next[b] = go(b)
    OBVIOUS
  <2> HIDE DEF stops, next
  <2>2. N \in Nat
    OBVIOUS
  <2>3. CASE EscapedAt(t, b + 1)
    <3>1. (b + 1) + 2 <= N /\ go(b) = b + 3
      BY <2>3 DEF EscapedAt
    <3> HIDE DEF N, go
    <3> QED
      BY <2>1, <2>2, <3>1
  <2>4. CASE ~EscapedAt(t, b + 1)
    <3>1. go(b) = b + 1
      BY <2>4
    <3> HIDE DEF N, go
    <3> QED
      BY <2>1, <2>2, <3>1
  <2> QED
    BY <2>3, <2>4
<1>2. \E f : Unfolding(f, 0, N, stops, last, first, next)
  <2>1. 0 \in Nat /\ N \in Nat
    OBVIOUS
  <2> HIDE DEF stops, last, first, next, N
  <2> QED
    BY <1>1, <2>1, Unfolds
<1>3. PICK f : Unfolding(f, 0, N, stops, last, first, next)
  BY <1>2
<1>4. DecodesFrom(f, t)
  <2> DEFINE value(b) == IF stops[b] THEN last[b] ELSE first[b] \o f[next[b]]
             other(b) == IF b = N THEN <<>> ELSE Unescaped(t, b + 1) \o f[go(b)]
  <2>1. \A b \in 0..N : value(b) = other(b)
    <3> TAKE b \in 0..N
    <3>1. stops[b] = (b = N) /\ last[b] = <<>> /\ first[b] = Unescaped(t, b + 1) /\ next[b] = go(b)
      OBVIOUS
    <3> HIDE DEF stops, last, first, next, go, N
    <3> QED
      BY <3>1
  <2>2. f = [b \in 0..N |-> value(b)]
    BY <1>3 DEF Unfolding
  <2> HIDE DEF value, other
  <2>3. f = [b \in 0..N |-> other(b)]
    BY <2>1, <2>2
  <2> QED
    BY <2>3 DEF other, DecodesFrom
<1>5. DecodesFrom(rest, t)
  BY <1>4
<1>6. UrlDecoded(t) = IF Has(rest[0], Thrown) THEN Failed ELSE rest[0]
  BY DEF UrlDecoded, DecodesFrom
<1> HIDE DEF rest
<1> QED
  BY <1>5, <1>6

(* urlencode writes the escaped characters one behind the other. *)
LEMMA UrlEncodedIs ==
  ASSUME NEW C, NEW text \in Seq(C)
  PROVE  \E out : Writing(out, Len(text), [k \in 1..Len(text) |-> Escaped(text[k])]) /\ UrlEncoded(text) = out[1]
<1> DEFINE n == Len(text)
           piece == [k \in 1..n |-> Escaped(text[k])]
           Encodes(f) == f = [i \in 1..(n + 1) |-> IF i = n + 1 THEN <<>> ELSE Escaped(text[i]) \o f[i + 1]]
           rest == CHOOSE f : Encodes(f)
<1>1. ASSUME NEW f
      PROVE  Encodes(f) <=> Writing(f, n, piece)
  <2> DEFINE value(k) == IF k = n + 1 THEN <<>> ELSE Escaped(text[k]) \o f[k + 1]
             other(k) == IF k = n + 1 THEN <<>> ELSE piece[k] \o f[k + 1]
  <2>1. \A k \in 1..(n + 1) : value(k) = other(k)
    <3> TAKE k \in 1..(n + 1)
    <3>1. n \in Nat
      OBVIOUS
    <3>2. k # n + 1 => k \in 1..n
      BY <3>1
    <3>3. k # n + 1 => piece[k] = Escaped(text[k])
      BY <3>2
    <3> HIDE DEF piece, n
    <3> QED
      BY <3>3
  <2> HIDE DEF value, other
  <2>2. [k \in 1..(n + 1) |-> value(k)] = [k \in 1..(n + 1) |-> other(k)]
    BY <2>1
  <2> QED
    BY <2>2 DEF value, other, Writing
<1>2. \E f : Writing(f, n, piece)
  <2>1. n \in Nat
    OBVIOUS
  <2> HIDE DEF n, piece
  <2> QED
    BY <2>1, WritingExists
<1>3. UrlEncoded(text) = rest[1]
  BY DEF UrlEncoded
<1> HIDE DEF Encodes, n, piece
<1>4. Encodes(rest)
  BY <1>1, <1>2
<1> HIDE DEF rest
<1> QED
  BY <1>1, <1>3, <1>4 DEF n, piece

(* What was URL encoded is decoded. *)
LEMMA UrlReadsBack ==
  ASSUME NEW text \in Seq(1..127)
  PROVE  UrlDecoded(UrlEncoded(text)) = text
<1> DEFINE n == Len(text)
           piece == [k \in 1..n |-> Escaped(text[k])]
<1>1. PICK out : Writing(out, n, piece) /\ UrlEncoded(text) = out[1]
  BY UrlEncodedIs
<1> DEFINE t == out[1]
<1>2. n \in Nat /\ \A k \in 1..n : text[k] \in 1..127 /\ piece[k] = Escaped(text[k]) /\ piece[k] \in Seq(Nat)
  <2>1. n \in Nat /\ \A k \in 1..n : text[k] \in 1..127 /\ piece[k] = Escaped(text[k])
    BY TextElements
  <2>2. \A c \in 1..127 : Escaped(c) \in Seq(Nat)
    BY EscapedIs
  <2> HIDE DEF n, piece
  <2> QED
    BY <2>1, <2>2
<1> HIDE DEF n, piece
<1>3. t \in Seq(Nat) /\ \A k \in 1..n : out[k + 1] \in Seq(Nat)
  <2>1. WrittenOut(out, n, piece, Nat)
    BY <1>1, <1>2, WritingIs
  <2>2. 1 \in 1..(n + 1) /\ \A k \in 1..n : k + 1 \in 1..(n + 1)
    BY <1>2
  <2> QED
    BY <2>1, <2>2 DEF WrittenOut
<1>4. PICK read : DecodesFrom(read, t) /\ UrlDecoded(t) = IF Has(read[0], Thrown) THEN Failed ELSE read[0]
  BY <1>3, UrlDecodedIs
<1> HIDE DEF t
<1>5. Len(t) \in Nat /\ Len(t) \in 0..Len(t) /\ 0 \in 0..Len(t)
  BY <1>3
<1>6. read[Len(t)] = <<>>
  BY <1>4, <1>5 DEF DecodesFrom
<1>7. \A k \in 1..n : \A b \in 0..Len(t) :
        Ends(t, b, piece[k] \o out[k + 1]) => read[b] = <<text[k]>> \o read[b + Len(piece[k])]
  <2> TAKE k \in 1..n
  <2> TAKE b \in 0..Len(t)
  <2> HAVE Ends(t, b, piece[k] \o out[k + 1])
  <2>1. Lies(t, b, Escaped(text[k]))
    BY <1>2, <1>3, EndsApart
  <2>2. /\ b + 1 <= Len(t) /\ Unescaped(t, b + 1) = <<text[k]>>
        /\ (IF EscapedAt(t, b + 1) THEN b + 3 ELSE b + 1) = b + Len(piece[k])
    <3>1. t \in Seq(Nat) /\ b \in Nat /\ text[k] \in 1..127 /\ piece[k] = Escaped(text[k])
      BY <1>2, <1>3
    <3> QED
      BY <2>1, <3>1, UnescapedIs
  <2>3. read[b] = Unescaped(t, b + 1) \o read[IF EscapedAt(t, b + 1) THEN b + 3 ELSE b + 1]
    <3>1. b # Len(t)
      BY <1>5, <2>2
    <3> QED
      BY <1>4, <3>1 DEF DecodesFrom
  <2> QED
    BY <2>2, <2>3
<1>8. Ends(t, 0, out[1])
  BY <1>3, LiesItself DEF t
<1>9. read[0] = text
  <2>1. Pieces(piece, n, Nat)
    BY <1>2 DEF Pieces
  <2>2. Len(text) = n
    BY DEF n
  <2>3. Reader(read, t, text, piece, out)
    BY <1>6, <1>7, <2>2 DEF Reader
  <2> QED
    BY <1>1, <1>2, <1>3, <1>5, <1>8, <2>1, <2>2, <2>3, ReadsBack
<1>10. ~Has(text, Thrown)
  <2>1. \A i \in DOMAIN text : text[i] \in 1..127
    BY TextElements
  <2>2. Thrown \notin 1..127
    BY DEF Thrown
  <2> QED
    BY <2>1, <2>2 DEF Has
<1> QED
  BY <1>1, <1>4, <1>9, <1>10 DEF t

-----------------------------------------------------------------------------
(* string_cast. *)

Characters == CodePoint \cup {BadByte}
Encodings == {Utf8, Utf16}

LEMMA CharSizes ==
  ASSUME NEW c \in Characters, NEW enc \in Encodings
  PROVE  CharSize(c, enc) \in Nat
<1>1. CASE c = BadByte
  BY <1>1 DEF CharSize
<1>2. CASE c # BadByte
  <2>1. c \in Nat \X Nat
    BY <1>2, CodecAssumption DEF Characters
  <2>2. c[1] \in Nat /\ c[2] \in Nat /\ (enc = 1 \/ enc = 2)
    BY <2>1 DEF Encodings, Utf8, Utf16
  <2>3. CharSize(c, enc) = c[enc]
    BY <1>2 DEF CharSize
  <2> QED
    BY <2>2, <2>3
<1> QED
  BY <1>1, <1>2

(* The loop that adds up the sizes. *)
AddsUp(size, text, enc) ==
  size = [n \in 0..Len(text) |-> IF n = 0 THEN 0 ELSE size[n - 1] + CharSize(text[n], enc)]

Sized(size, text, enc) ==
  /\ \A n \in 0..Len(text) : size[n] \in Nat
  /\ size[0] = 0
  /\ \A n \in 1..Len(text) : size[n] = size[n - 1] + CharSize(text[n], enc)

LEMMA AddsUpIs ==
  ASSUME NEW text \in Seq(Characters), NEW enc \in Encodings, NEW size, AddsUp(size, text, enc)
  PROVE  Sized(size, text, enc)
<1> DEFINE N == Len(text)
           S == {k \in 0..N : size[k] \in Nat}
<1>1. N \in Nat /\ \A k \in 1..N : CharSize(text[k], enc) \in Nat
  BY TextElements, CharSizes
<1>2. \A k \in 0..N : size[k] = IF k = 0 THEN 0 ELSE size[k - 1] + CharSize(text[k], enc)
  BY DEF AddsUp
<1>3. 0 \in S
  BY <1>1, <1>2
<1>4. ASSUME NEW k \in 0 .. N - 1, k \in S
      PROVE  k + 1 \in S
  <2>1. k + 1 \in 1..N /\ (k + 1) - 1 = k /\ k + 1 # 0 /\ k + 1 \in 0..N
    BY <1>1
  <2>2. size[k + 1] = size[k] + CharSize(text[k + 1], enc)
    BY <1>2, <2>1
  <2>3. size[k] \in Nat /\ CharSize(text[k + 1], enc) \in Nat
    BY <1>1, <1>4, <2>1
  <2>4. size[k + 1] \in Nat
    BY <2>2, <2>3
  <2> QED
    BY <2>1, <2>4
<1> HIDE DEF S
<1>5. 0..N \subseteq S
  BY <1>1, <1>3, <1>4, Up
<1>6. \A k \in 0..N : size[k] \in Nat
  BY <1>5 DEF S
<1>7. size[0] = 0 /\ \A k \in 1..N : size[k] = size[k - 1] + CharSize(text[k], enc)
  <2>1. 0 \in 0..N /\ \A k \in 1..N : k \in 0..N /\ k # 0
    BY <1>1
  <2> QED
    BY <1>2, <2>1
<1> QED
  BY <1>6, <1>7 DEF Sized

LEMMA AddsUpExists ==
  ASSUME NEW text \in Seq(Characters), NEW enc \in Encodings
  PROVE  \E size : AddsUp(size, text, enc)
<1> DEFINE N == Len(text)
           step == [x \in Nat \X (1..N) |-> x[1] + CharSize(text[x[2]], enc)]
           S(f) == {k \in 0..N : f[k] \in Nat}
<1>1. N \in Nat /\ \A k \in 1..N : CharSize(text[k], enc) \in Nat
  BY TextElements, CharSizes
<1>2. PICK f : Iteration(f, N, 0, step)
  BY <1>1, Iterates
<1>3. \A k \in 0..N : f[k] = IF k = 0 THEN 0 ELSE step[<<f[k - 1], k>>]
  BY <1>2 DEF Iteration
<1>4. ASSUME NEW k \in 1..N, f[k - 1] \in Nat
      PROVE  step[<<f[k - 1], k>>] = f[k - 1] + CharSize(text[k], enc)
  <2>1. <<f[k - 1], k>> \in Nat \X (1..N)
    BY <1>4
  <2> QED
    BY <2>1
<1> HIDE DEF step
<1>5. 0..N \subseteq S(f)
  <2>1. 0 \in S(f)
    <3>1. 0 \in 0..N
      BY <1>1
    <3>2. f[0] = 0
      BY <1>3, <3>1
    <3> QED
      BY <3>1, <3>2
  <2>2. ASSUME NEW k \in 0 .. N - 1, k \in S(f)
        PROVE  k + 1 \in S(f)
    <3>1. k + 1 \in 1..N /\ (k + 1) - 1 = k /\ k + 1 # 0 /\ k + 1 \in 0..N
      BY <1>1
    <3>2. f[k + 1] = f[k] + CharSize(text[k + 1], enc)
      BY <1>3, <1>4, <2>2, <3>1
    <3>3. f[k] \in Nat /\ CharSize(text[k + 1], enc) \in Nat
      BY <1>1, <2>2, <3>1
    <3>4. f[k + 1] \in Nat
      BY <3>2, <3>3
    <3> QED
      BY <3>1, <3>4
  <2> HIDE DEF S
  <2> QED
    BY <1>1, <2>1, <2>2, Up
<1> DEFINE value(k) == IF k = 0 THEN 0 ELSE step[<<f[k - 1], k>>]
           other(k) == IF k = 0 THEN 0 ELSE f[k - 1] + CharSize(text[k], enc)
<1>6. \A k \in 0..N : value(k) = other(k)
  <2> TAKE k \in 0..N
  <2>1. CASE k = 0
    BY <2>1
  <2>2. CASE k # 0
    <3>1. k \in 1..N /\ k - 1 \in 0..N
      BY <1>1, <2>2
    <3> QED
      BY <1>4, <1>5, <2>2, <3>1
  <2> QED
    BY <2>1, <2>2
<1>7. f = [k \in 0..N |-> value(k)]
  BY <1>2 DEF Iteration
<1> HIDE DEF value, other
<1>8. f = [k \in 0..N |-> other(k)]
  BY <1>6, <1>7
<1>9. AddsUp(f, text, enc)
  BY <1>8 DEF AddsUp, other
<1> QED
  BY <1>9

LEMMA SizesAre ==
  ASSUME NEW text \in Seq(Characters), NEW enc \in Encodings
  PROVE  Sized(SizesIn(text, enc), text, enc)
<1>1. SizesIn(text, enc) = CHOOSE size : AddsUp(size, text, enc)
  BY DEF SizesIn, AddsUp
<1>2. AddsUp(SizesIn(text, enc), text, enc)
  BY <1>1, AddsUpExists
<1> QED
  BY <1>2, AddsUpIs

(* The beginnings of a text are not larger than it. *)
LEMMA BeginningsFit ==
  ASSUME NEW text \in Seq(Characters), NEW enc \in Encodings, NEW size, Sized(size, text, enc)
  PROVE  \A n \in 0..Len(text) : size[n] <= size[Len(text)]
<1> DEFINE N == Len(text)
           S == {k \in 0..N : size[k] <= size[N]}
<1>1. N \in Nat /\ \A k \in 1..N : CharSize(text[k], enc) \in Nat
  BY TextElements, CharSizes
<1>2. ASSUME NEW k \in 0..N, \A j \in 0..N : k < j => j \in S
      PROVE  k \in S
  <2>1. CASE k = N
    <3>1. size[N] \in Nat
      BY <1>1 DEF Sized
    <3> QED
      BY <2>1, <3>1
  <2>2. CASE k # N
    <3>1. k + 1 \in 1..N /\ (k + 1) - 1 = k /\ k + 1 \in 0..N /\ k < k + 1 /\ N \in 0..N
      BY <1>1, <2>2
    <3>2. size[k + 1] <= size[N]
      BY <1>2, <3>1
    <3>3. size[k + 1] = size[k] + CharSize(text[k + 1], enc)
      BY <3>1 DEF Sized
    <3>4. size[k] \in Nat /\ size[k + 1] \in Nat /\ size[N] \in Nat /\ CharSize(text[k + 1], enc) \in Nat
      BY <1>1, <3>1 DEF Sized
    <3>5. size[k] <= size[N]
      BY <3>2, <3>3, <3>4
    <3> QED
      BY <3>5
  <2> QED
    BY <2>1, <2>2
<1> HIDE DEF S
<1>3. 0..N \subseteq S
  <2>1. 0 \in Nat
    OBVIOUS
  <2> QED
    BY <1>1, <1>2, <2>1, DownTo
<1> QED
  BY <1>3 DEF S

(* How far the conversion gets. *)
Fits(text, room, enc, n) ==
  /\ SizesIn(text, enc)[n] <= room
  /\ \A i \in 1..n : text[i] # BadByte
  /\ n = Len(text) \/ text[n + 1] = BadByte \/ SizesIn(text, enc)[n + 1] > room

LEMMA FittingIs ==
  ASSUME NEW text \in Seq(Characters), NEW enc \in Encodings, NEW room \in Nat
  PROVE  Fitting(text, room, enc) \in 0..Len(text) /\ Fits(text, room, enc, Fitting(text, room, enc))
<1> DEFINE N == Len(text)
           size == SizesIn(text, enc)
           Full(n) == n = N \/ text[n + 1] = BadByte \/ size[n + 1] > room
           T == {n \in 0..N : Full(n)}
<1>1. N \in Nat
  BY TextElements
<1>2. Sized(size, text, enc)
  BY SizesAre
<1> HIDE DEF size, N
<1>3. T \subseteq Nat /\ N \in T
  BY <1>1
<1>4. PICK n \in T : \A m \in T : n <= m
  BY <1>3, LeastNatural
<1>5. \A k \in 0 .. n - 1 : ~Full(k)
  <2> TAKE k \in 0 .. n - 1
  <2>1. k \in 0..N /\ ~(n <= k)
    BY <1>1, <1>4
  <2> QED
    BY <1>4, <2>1
<1>6. size[n] <= room
  <2>1. CASE n = 0
    BY <1>2, <2>1 DEF Sized
  <2>2. CASE n # 0
    <3>1. n - 1 \in 0 .. n - 1 /\ (n - 1) + 1 = n /\ n \in 0..N
      BY <1>1, <1>4, <2>2
    <3>2. ~(size[n] > room)
      BY <1>5, <3>1
    <3>3. size[n] \in Nat
      BY <1>2, <3>1 DEF Sized, N
    <3> QED
      BY <3>2, <3>3
  <2> QED
    BY <2>1, <2>2
<1>7. \A i \in 1..n : text[i] # BadByte
  <2> TAKE i \in 1..n
  <2>1. i - 1 \in 0 .. n - 1 /\ (i - 1) + 1 = i
    BY <1>4
  <2> QED
    BY <1>5, <2>1
<1>8. n \in 0..N /\ Fits(text, room, enc, n)
  BY <1>4, <1>6, <1>7 DEF Fits, N, size
<1>9. Fitting(text, room, enc) = CHOOSE k \in 0..N : Fits(text, room, enc, k)
  BY DEF Fitting, Fits, N
<1> QED
  BY <1>8, <1>9 DEF N

(* The part of a text before its first invalid byte. *)
IsValidPart(t, n) ==
  (\A i \in 1..n : t[i] # BadByte) /\ (n = Len(t) \/ t[n + 1] = BadByte)

LEMMA ValidPartIs ==
  ASSUME NEW C, NEW t \in Seq(C)
  PROVE  /\ ValidPart(t) \in 0..Len(t) /\ IsValidPart(t, ValidPart(t))
         /\ \A n \in 0..Len(t) : IsValidPart(t, n) => n = ValidPart(t)
<1> DEFINE N == Len(t)
           Full(n) == n = N \/ t[n + 1] = BadByte
           T == {n \in 0..N : Full(n)}
<1>1. N \in Nat
  BY TextElements
<1> HIDE DEF N
<1>3. T \subseteq Nat /\ N \in T
  BY <1>1
<1>4. PICK n \in T : \A m \in T : n <= m
  BY <1>3, LeastNatural
<1>5. \A k \in 0 .. n - 1 : ~Full(k)
  <2> TAKE k \in 0 .. n - 1
  <2>1. k \in 0..N /\ ~(n <= k)
    BY <1>1, <1>4
  <2> QED
    BY <1>4, <2>1
<1>7. \A i \in 1..n : t[i] # BadByte
  <2> TAKE i \in 1..n
  <2>1. i - 1 \in 0 .. n - 1 /\ (i - 1) + 1 = i
    BY <1>4
  <2> QED
    BY <1>5, <2>1
<1>8. n \in 0..N /\ IsValidPart(t, n)
  BY <1>4, <1>7 DEF IsValidPart, N
<1>9. ValidPart(t) = CHOOSE k \in 0..N : IsValidPart(t, k)
  BY DEF ValidPart, IsValidPart, N
<1>10. ValidPart(t) \in 0..N /\ IsValidPart(t, ValidPart(t))
  BY <1>8, <1>9
<1>11. ASSUME NEW k \in 0..N, NEW m \in 0..N, IsValidPart(t, k), IsValidPart(t, m)
       PROVE  ~(k < m)
  <2> SUFFICES ASSUME k < m PROVE FALSE
    OBVIOUS
  <2>1. k + 1 \in 1..m /\ k # N
    BY <1>1
  <2> QED
    BY <1>11, <2>1 DEF IsValidPart, N
<1>12. ASSUME NEW k \in 0..N, IsValidPart(t, k)
       PROVE  k = ValidPart(t)
  <2>1. ~(k < ValidPart(t)) /\ ~(ValidPart(t) < k)
    BY <1>10, <1>11, <1>12
  <2> QED
    BY <1>1, <1>10, <2>1
<1> QED
  BY <1>10, <1>12 DEF N

(* Every way the buffer grows leads to the valid part. *)
Enlarged(room) == room + (3 * room) \div 10 + 1
TooSmall(text, room, to) ==
  Fitting(text, room, to) < Len(text) /\ text[Fitting(text, room, to) + 1] # BadByte

LEMMA CastOf ==
  ASSUME NEW text \in Seq(Characters), NEW to \in Encodings, NEW room \in Nat, ~TooSmall(text, room, to)
  PROVE  Fitting(text, room, to) = ValidPart(text)
<1> DEFINE n == Fitting(text, room, to)
<1>1. n \in 0..Len(text) /\ Fits(text, room, to, n) /\ Len(text) \in Nat
  BY FittingIs, TextElements
<1>2. ~(n < Len(text)) \/ text[n + 1] = BadByte
  BY DEF TooSmall
<1> HIDE DEF n
<1>3. n = Len(text) \/ text[n + 1] = BadByte
  BY <1>1, <1>2
<1>4. IsValidPart(text, n)
  BY <1>1, <1>3 DEF IsValidPart, Fits
<1> QED
  BY <1>1, <1>4, ValidPartIs DEF n

LEMMA LargeEnough ==
  ASSUME NEW text \in Seq(Characters), NEW to \in Encodings, NEW room \in Nat,
         SizesIn(text, to)[Len(text)] <= room
  PROVE  ~TooSmall(text, room, to)
<1> DEFINE n == Fitting(text, room, to)
           size == SizesIn(text, to)
           N == Len(text)
<1> SUFFICES ASSUME TooSmall(text, room, to) PROVE FALSE
  OBVIOUS
<1>1. n \in 0..N /\ Fits(text, room, to, n) /\ N \in Nat
  BY FittingIs, TextElements
<1>2. n < N /\ text[n + 1] # BadByte
  BY DEF TooSmall
<1>3. Sized(size, text, to)
  BY SizesAre
<1>4. \A k \in 0..N : size[k] <= size[N]
  BY <1>3, BeginningsFit
<1>5. size[N] <= room
  OBVIOUS
<1>6. n = N \/ text[n + 1] = BadByte \/ size[n + 1] > room
  BY <1>1 DEF Fits
<1>7. \A k \in 0..N : size[k] \in Nat
  BY <1>3 DEF Sized
<1> HIDE DEF n, size, N
<1>8. n + 1 \in 0..N /\ N \in 0..N /\ n # N
  BY <1>1, <1>2
<1>9. size[n + 1] > room
  BY <1>2, <1>6, <1>8
<1>10. size[n + 1] <= size[N] /\ size[n + 1] \in Nat /\ size[N] \in Nat
  BY <1>4, <1>7, <1>8
<1> QED
  BY <1>5, <1>9, <1>10

(* The loop of string_cast. *)
Casts(cast, text, to) ==
  cast = [room \in Nat |->
            IF TooSmall(text, room, to) THEN cast[Enlarged(room)]
            ELSE SubSeq(text, 1, Fitting(text, room, to))]

LEMMA EnlargedIs ==
  ASSUME NEW room \in Nat
  PROVE  Enlarged(room) \in Nat /\ room < Enlarged(room)
<1>1. (3 * room) \div 10 \in Nat
  OBVIOUS
<1> DEFINE q == (3 * room) \div 10
<1> HIDE DEF q
<1>2. q \in Nat
  BY <1>1 DEF q
<1>3. room + q + 1 \in Nat /\ room < room + q + 1
  BY <1>2
<1> QED
  BY <1>3 DEF q, Enlarged

LEMMA CastsExists ==
  ASSUME NEW text \in Seq(Characters), NEW to \in Encodings
  PROVE  \E cast : Casts(cast, text, to)
<1> DEFINE v == SubSeq(text, 1, ValidPart(text))
           f == [room \in Nat |-> v]
           value(room) == IF TooSmall(text, room, to) THEN f[Enlarged(room)] ELSE SubSeq(text, 1, Fitting(text, room, to))
<1>1. \A room \in Nat : v = value(room)
  <2> TAKE room \in Nat
  <2>1. CASE TooSmall(text, room, to)
    <3>1. f[Enlarged(room)] = v
      BY EnlargedIs
    <3> HIDE DEF f
    <3> QED
      BY <2>1, <3>1
  <2>2. CASE ~TooSmall(text, room, to)
    <3>1. Fitting(text, room, to) = ValidPart(text)
      BY <2>2, CastOf
    <3> QED
      BY <2>2, <3>1
  <2> QED
    BY <2>1, <2>2
<1>2. f = [room \in Nat |-> v]
  OBVIOUS
<1> HIDE DEF value, v, f
<1>3. f = [room \in Nat |-> value(room)]
  BY <1>1, <1>2
<1>4. Casts(f, text, to)
  BY <1>3 DEF Casts, value
<1> QED
  BY <1>4

LEMMA CastsTo ==
  ASSUME NEW text \in Seq(Characters), NEW to \in Encodings, NEW cast, Casts(cast, text, to), NEW begin \in Nat
  PROVE  cast[begin] = SubSeq(text, 1, ValidPart(text))
<1> DEFINE v == SubSeq(text, 1, ValidPart(text))
           total == SizesIn(text, to)[Len(text)]
           S == {room \in 0..total : cast[room] = v}
<1>1. total \in Nat
  <2>1. Sized(SizesIn(text, to), text, to) /\ Len(text) \in Nat
    BY SizesAre, TextElements
  <2>2. Len(text) \in 0..Len(text)
    BY <2>1
  <2> QED
    BY <2>1, <2>2 DEF Sized
<1>2. ASSUME NEW room \in Nat
      PROVE  cast[room] = IF TooSmall(text, room, to) THEN cast[Enlarged(room)]
                          ELSE SubSeq(text, 1, Fitting(text, room, to))
  BY DEF Casts
<1>3. ASSUME NEW room \in Nat, total <= room
      PROVE  cast[room] = v
  <2>1. ~TooSmall(text, room, to)
    BY <1>3, LargeEnough
  <2>2. Fitting(text, room, to) = ValidPart(text)
    BY <2>1, CastOf
  <2> QED
    BY <1>2, <2>1, <2>2
<1> HIDE DEF total, v
<1>4. ASSUME NEW room \in 0..total, \A r \in 0..total : room < r => r \in S
      PROVE  room \in S
  <2>1. room \in Nat /\ Enlarged(room) \in Nat /\ room < Enlarged(room)
    BY <1>1, EnlargedIs
  <2>2. CASE TooSmall(text, room, to)
    <3>1. cast[room] = cast[Enlarged(room)]
      BY <1>2, <2>1, <2>2
    <3>2. CASE Enlarged(room) <= total
      <4>1. Enlarged(room) \in 0..total
        BY <1>1, <2>1, <3>2
      <4>2. Enlarged(room) \in S
        BY <1>4, <2>1, <4>1
      <4> QED
        BY <3>1, <4>2
    <3>3. CASE ~(Enlarged(room) <= total)
      <4>1. total <= Enlarged(room)
        BY <1>1, <2>1, <3>3
      <4> QED
        BY <1>3, <2>1, <3>1, <4>1
    <3> QED
      BY <3>2, <3>3
  <2>3. CASE ~TooSmall(text, room, to)
    <3>1. Fitting(text, room, to) = ValidPart(text)
      BY <2>1, <2>3, CastOf
    <3>2. cast[room] = v
      BY <1>2, <2>1, <2>3, <3>1 DEF v
    <3> QED
      BY <3>2
  <2> QED
    BY <2>2, <2>3
<1> HIDE DEF S
<1>5. 0..total \subseteq S
  <2>1. 0 \in Nat
    OBVIOUS
  <2>2. \A b \in 0..total : (\A c \in 0..total : b < c => c \in S) => b \in S
    BY <1>4
  <2> HIDE <1>4
  <2> QED
    BY <1>1, <2>1, <2>2, DownTo
<1>6. CASE begin <= total
  <2>1. begin \in 0..total
    BY <1>1, <1>6
  <2>2. begin \in S
    BY <1>5, <2>1
  <2> QED
    BY <2>2 DEF S, v
<1>7. CASE ~(begin <= total)
  <2>1. total <= begin
    BY <1>1, <1>7
  <2> QED
    BY <1>3, <2>1 DEF v
<1> QED
  BY <1>6, <1>7

LEMMA StringCastIs ==
  ASSUME NEW text \in Seq(Characters), NEW from \in Encodings, NEW to \in Encodings
  PROVE  StringCast(text, from, to) = SubSeq(text, 1, ValidPart(text))
<1> DEFINE loop(f, room) == LET n == Fitting(text, room, to)
                            IN IF n < Len(text) /\ text[n + 1] # BadByte
                               THEN f[room + (3 * room) \div 10 + 1] ELSE SubSeq(text, 1, n)
           body(f, room) == IF TooSmall(text, room, to) THEN f[Enlarged(room)]
                            ELSE SubSeq(text, 1, Fitting(text, room, to))
           cast == CHOOSE f : f = [room \in Nat |-> loop(f, room)]
<1>1. StringCast(text, from, to) = cast[SizeIn(text, from)]
  BY DEF StringCast
<1>2. \A f, room : loop(f, room) = body(f, room)
  BY DEF TooSmall, Enlarged
<1> HIDE DEF loop, body
<1>3. \A g : [room \in Nat |-> loop(g, room)] = [room \in Nat |-> body(g, room)]
  BY <1>2
<1>4. PICK f : Casts(f, text, to)
  BY CastsExists
<1>5. f = [room \in Nat |-> loop(f, room)]
  BY <1>3, <1>4 DEF Casts, body
<1>6. cast = [room \in Nat |-> loop(cast, room)]
  BY <1>5
<1> HIDE DEF cast
<1>7. Casts(cast, text, to)
  BY <1>3, <1>6 DEF Casts, body
<1>8. SizeIn(text, from) \in Nat
  <2>1. Sized(SizesIn(text, from), text, from) /\ Len(text) \in Nat
    BY SizesAre, TextElements
  <2>2. Len(text) \in 0..Len(text)
    BY <2>1
  <2> QED
    BY <2>1, <2>2 DEF Sized, SizeIn
<1> QED
  BY <1>1, <1>7, <1>8, CastsTo

(* The valid part of a text is a text, all of which is valid. *)
LEMMA ValidPartValid ==
  ASSUME NEW C, NEW text \in Seq(C), NEW v, v = SubSeq(text, 1, ValidPart(text))
  PROVE  v \in Seq(C) /\ SubSeq(v, 1, ValidPart(v)) = v
<1> DEFINE n == ValidPart(text)
<1>1. n \in 0..Len(text) /\ IsValidPart(text, n) /\ Len(text) \in Nat
  BY ValidPartIs, TextElements
<1> HIDE DEF n
<1>2. v \in Seq(C) /\ Len(v) = n /\ \A i \in 1..n : v[i] = text[i]
  BY <1>1 DEF n
<1>3. n \in 0..Len(v) /\ IsValidPart(v, n)
  BY <1>1, <1>2 DEF IsValidPart
<1>4. ValidPart(v) = Len(v)
  BY <1>2, <1>3, ValidPartIs
<1>5. SubSeq(v, 1, Len(v)) = v
  BY <1>2
<1> QED
  BY <1>2, <1>4, <1>5

-----------------------------------------------------------------------------
(* Searches in a text. *)

(* No character c behind the first n and up to the m-th character. *)
Free(t, n, m, c) == \A i \in n .. m - 1 : t[i + 1] # c

LEMMA FreeJoins ==
  ASSUME NEW t, NEW n \in Nat, NEW m \in Nat, NEW k \in Nat, NEW c, Free(t, n, m, c), Free(t, m, k, c)
  PROVE  Free(t, n, k, c)
<1> SUFFICES ASSUME NEW i \in n .. k - 1 PROVE t[i + 1] # c
  BY DEF Free
<1>1. i \in n .. m - 1 \/ i \in m .. k - 1
  OBVIOUS
<1> QED
  BY <1>1 DEF Free

LEMMA FreeWhere ==
  ASSUME NEW C, NEW t \in Seq(C), NEW n \in Nat, NEW a \in Seq(C), NEW c, Lies(t, n, a), ~Has(a, c)
  PROVE  Free(t, n, n + Len(a), c)
<1> SUFFICES ASSUME NEW i \in n .. n + Len(a) - 1 PROVE t[i + 1] # c
  BY DEF Free
<1>1. Len(a) \in Nat /\ DOMAIN a = 1..Len(a)
  OBVIOUS
<1>2. i + 1 - n \in 1..Len(a) /\ n + (i + 1 - n) = i + 1
  BY <1>1
<1>3. t[n + (i + 1 - n)] = a[i + 1 - n]
  BY <1>2 DEF Lies
<1>4. a[i + 1 - n] # c
  BY <1>1, <1>2 DEF Has
<1> QED
  BY <1>2, <1>3, <1>4

LEMMA IndexAt ==
  ASSUME NEW C, NEW t \in Seq(C), NEW n \in Nat, NEW m \in Nat, NEW c, n <= m, m + 1 <= Len(t),
         Free(t, n, m, c), t[m + 1] = c
  PROVE  IndexFrom(t, c, n) = m
<1> DEFINE found == {i \in n..(Len(t) - 1) : t[i + 1] = c}
<1>1. Len(t) \in Nat
  OBVIOUS
<1>2. m \in found
  BY <1>1
<1>3. \A i \in found : m <= i
  <2> TAKE i \in found
  <2>1. i \in n..(Len(t) - 1) /\ t[i + 1] = c
    OBVIOUS
  <2>2. ~(i \in n .. m - 1)
    BY <2>1 DEF Free
  <2> QED
    BY <1>1, <2>1, <2>2
<1>4. found \subseteq Nat
  BY <1>1
<1>5. IndexFrom(t, c, n) = IF found = {} THEN none ELSE CHOOSE i \in found : \A j \in found : i <= j
  BY DEF IndexFrom
<1> HIDE DEF found
<1>6. \A i \in found : (\A j \in found : i <= j) => i = m
  <2> TAKE i \in found
  <2> HAVE \A j \in found : i <= j
  <2>1. i <= m /\ m <= i /\ i \in Nat
    BY <1>2, <1>3, <1>4
  <2> QED
    BY <2>1
<1>7. (CHOOSE i \in found : \A j \in found : i <= j) = m
  BY <1>2, <1>3, <1>6
<1> QED
  BY <1>2, <1>5, <1>7

LEMMA IndexNone ==
  ASSUME NEW C, NEW t \in Seq(C), NEW n \in Nat, NEW c, Free(t, n, Len(t), c)
  PROVE  IndexFrom(t, c, n) = none
<1> DEFINE found == {i \in n..(Len(t) - 1) : t[i + 1] = c}
<1>1. found = {}
  BY DEF Free
<1>2. IndexFrom(t, c, n) = IF found = {} THEN none ELSE CHOOSE i \in found : \A j \in found : i <= j
  BY DEF IndexFrom
<1> QED
  BY <1>1, <1>2

LEMMA LastAt ==
  ASSUME NEW C, NEW t \in Seq(C), NEW m \in Nat, NEW c, m + 1 <= Len(t),
         Free(t, m + 1, Len(t), c), t[m + 1] = c
  PROVE  LastIndex(t, c) = m
<1> DEFINE found == {i \in 0..(Len(t) - 1) : t[i + 1] = c}
<1>1. Len(t) \in Nat
  OBVIOUS
<1>2. m \in found
  BY <1>1
<1>3. \A i \in found : m >= i
  <2> TAKE i \in found
  <2>1. i \in 0..(Len(t) - 1) /\ t[i + 1] = c
    OBVIOUS
  <2>2. ~(i \in m + 1 .. Len(t) - 1)
    BY <2>1 DEF Free
  <2> QED
    BY <1>1, <2>1, <2>2
<1>4. found \subseteq Nat
  BY <1>1
<1>5. LastIndex(t, c) = IF found = {} THEN none ELSE CHOOSE i \in found : \A j \in found : i >= j
  BY DEF LastIndex
<1> HIDE DEF found
<1>6. \A i \in found : (\A j \in found : i >= j) => i = m
  <2> TAKE i \in found
  <2> HAVE \A j \in found : i >= j
  <2>1. i >= m /\ m >= i /\ i \in Nat
    BY <1>2, <1>3, <1>4
  <2> QED
    BY <2>1
<1>7. (CHOOSE i \in found : \A j \in found : i >= j) = m
  BY <1>2, <1>3, <1>6
<1> QED
  BY <1>2, <1>5, <1>7

(* What a search finds in any text. *)
LEMMA IndexFromIs ==
  ASSUME NEW C, NEW t \in Seq(C), NEW n \in Nat, NEW c, IndexFrom(t, c, n) # none
  PROVE  IndexFrom(t, c, n) \in n .. Len(t) - 1
<1> DEFINE found == {i \in n..(Len(t) - 1) : t[i + 1] = c}
<1>1. Len(t) \in Nat
  OBVIOUS
<1>2. found \subseteq Nat
  BY <1>1
<1>3. IndexFrom(t, c, n) = IF found = {} THEN none ELSE CHOOSE i \in found : \A j \in found : i <= j
  BY DEF IndexFrom
<1>4. found # {}
  BY <1>3
<1>5. \E i \in found : \A j \in found : i <= j
  <2> HIDE DEF found
  <2> QED
    BY <1>2, <1>4, LeastNatural
<1>6. IndexFrom(t, c, n) \in found
  <2> HIDE DEF found
  <2> QED
    BY <1>3, <1>4, <1>5
<1> QED
  BY <1>6

(* A part that lies in a text, and one that ends it. *)
LEMMA PartLies ==
  ASSUME NEW C, NEW t \in Seq(C), NEW n \in Nat, NEW a \in Seq(C), Lies(t, n, a)
  PROVE  Part(t, n, n + Len(a)) = a
<1>1. n + Len(a) # none
  BY DEF none
<1>2. SubSeq(t, n + 1, n + Len(a)) = a
  BY LiesPart
<1> QED
  BY <1>1, <1>2 DEF Part

LEMMA PartEnds ==
  ASSUME NEW C, NEW t \in Seq(C), NEW n \in Nat, NEW a \in Seq(C), Ends(t, n, a)
  PROVE  Part(t, n, none) = a
<1>1. SubSeq(t, n + 1, n + Len(a)) = a /\ n + Len(a) = Len(t)
  BY LiesPart DEF Ends
<1> QED
  BY <1>1 DEF Part

(* A part that is written behind a mark, if it is not empty. *)
LEMMA OneCell ==
  ASSUME NEW C, NEW t \in Seq(C), NEW n \in Nat, NEW c \in C, Lies(t, n, <<c>>)
  PROVE  n + 1 <= Len(t) /\ t[n + 1] = c /\ Len(<<c>>) = 1
<1>1. Len(<<c>>) = 1 /\ <<c>>[1] = c /\ 1 \in 1..1
  OBVIOUS
<1> QED
  BY <1>1 DEF Lies

MarkedAt(t, n, mark, a) ==
  IF a = <<>> THEN Len(Marked(mark, a)) = 0
  ELSE /\ Len(Marked(mark, a)) = 1 + Len(a) /\ n + 1 <= Len(t) /\ t[n + 1] = mark /\ Lies(t, n + 1, a)

LEMMA MarkedText ==
  ASSUME NEW C, NEW mark \in C, NEW a \in Seq(C)
  PROVE  Marked(mark, a) \in Seq(C) /\ Len(Marked(mark, a)) = IF a = <<>> THEN 0 ELSE 1 + Len(a)
<1>1. CASE a = <<>>
  BY <1>1 DEF Marked
<1>2. CASE a # <<>>
  <2>1. <<mark>> \in Seq(C) /\ Len(<<mark>>) = 1
    OBVIOUS
  <2> DEFINE m == <<mark>>
  <2> HIDE DEF m
  <2>2. m \in Seq(C) /\ Len(m) = 1
    BY <2>1 DEF m
  <2>3. m \o a \in Seq(C) /\ Len(m \o a) = 1 + Len(a)
    BY <2>2, JoinedCells
  <2> QED
    BY <1>2, <2>3 DEF Marked, m
<1> QED
  BY <1>1, <1>2

LEMMA MarkedLies ==
  ASSUME NEW C, NEW t \in Seq(C), NEW n \in Nat, NEW mark \in C, NEW a \in Seq(C), Lies(t, n, Marked(mark, a))
  PROVE  MarkedAt(t, n, mark, a)
<1>1. CASE a = <<>>
  BY <1>1, MarkedText DEF MarkedAt
<1>2. CASE a # <<>>
  <2>1. Marked(mark, a) = <<mark>> \o a /\ <<mark>> \in Seq(C) /\ Len(<<mark>>) = 1
    BY <1>2 DEF Marked
  <2>2. Lies(t, n, <<mark>>) /\ Lies(t, n + 1, a)
    <3> DEFINE m == <<mark>>
    <3> HIDE DEF m
    <3>1. m \in Seq(C) /\ Len(m) = 1 /\ Lies(t, n, m \o a)
      BY <2>1 DEF m
    <3>2. Lies(t, n, m) /\ Lies(t, n + Len(m), a)
      BY <3>1, LiesApart
    <3> QED
      BY <3>1, <3>2 DEF m
  <2>3. n + 1 <= Len(t) /\ t[n + 1] = mark
    BY <2>2, OneCell
  <2> QED
    BY <1>2, <2>2, <2>3, MarkedText DEF MarkedAt
<1> QED
  BY <1>1, <1>2

LEMMA FreeMarked ==
  ASSUME NEW C, NEW t \in Seq(C), NEW n \in Nat, NEW mark \in C, NEW a \in Seq(C), Lies(t, n, Marked(mark, a)),
         NEW c, mark # c, ~Has(a, c)
  PROVE  Free(t, n, n + Len(Marked(mark, a)), c)
<1>1. MarkedAt(t, n, mark, a)
  BY MarkedLies
<1>2. CASE a = <<>>
  BY <1>1, <1>2 DEF MarkedAt, Free
<1>3. CASE a # <<>>
  <2>1. Len(Marked(mark, a)) = 1 + Len(a) /\ t[n + 1] = mark /\ Lies(t, n + 1, a) /\ Len(a) \in Nat
    BY <1>1, <1>3 DEF MarkedAt
  <2>2. Free(t, n, n + 1, c)
    <3>1. \A i \in n .. (n + 1) - 1 : i = n
      OBVIOUS
    <3> QED
      BY <2>1, <3>1 DEF Free
  <2>3. Free(t, n + 1, (n + 1) + Len(a), c)
    BY <2>1, FreeWhere
  <2>4. n + Len(Marked(mark, a)) = (n + 1) + Len(a) /\ n + 1 \in Nat /\ (n + 1) + Len(a) \in Nat
    BY <2>1
  <2> QED
    BY <2>2, <2>3, <2>4, FreeJoins
<1> QED
  BY <1>2, <1>3

-----------------------------------------------------------------------------
(* The hierarchy of a Uri. *)

IsHierarchy(p) ==
  p \in [username : Seq(UriChar), password : Seq(UriChar), host : Seq(UriChar), port : Seq(UriChar), path : Seq(UriChar)]

(* No character of the parts ends one of them too early. *)
WholeHierarchy(p) ==
  /\ ~Has(p.username, ":") /\ ~Has(p.host, "@") /\ ~Has(p.port, "@") /\ ~Has(p.path, "@")
  /\ ~Has(p.host, ":") /\ ~Has(p.port, "/")
  /\ p.port = <<>> => ~Has(p.host, "/") /\ ~Has(p.path, ":")

Userinfo(p) == p.username \o Marked(":", p.password)

(* Where the "@" of a printed hierarchy is, and where the host ends. *)
AtSign(p) == Len(Userinfo(p))
HostEnd(p) == (AtSign(p) + 1) + Len(p.host)
PortEnd(p) == HostEnd(p) + Len(Marked(":", p.port))

LaidOut(h, p) ==
  /\ Lies(h, 0, Userinfo(p))
  /\ AtSign(p) \in Nat /\ AtSign(p) + 1 <= Len(h) /\ h[AtSign(p) + 1] = "@"
  /\ Lies(h, AtSign(p) + 1, p.host)
  /\ HostEnd(p) \in Nat /\ Lies(h, HostEnd(p), Marked(":", p.port))
  /\ PortEnd(p) \in Nat /\ Ends(h, PortEnd(p), Marked("/", p.path))

LEMMA SixLaidOut ==
  ASSUME NEW C, NEW a \in Seq(C), NEW b \in Seq(C), NEW c \in Seq(C), NEW d \in Seq(C), NEW e \in Seq(C), NEW h,
         h = (((a \o b) \o c) \o d) \o e
  PROVE  /\ h \in Seq(C)
         /\ Lies(h, 0, a) /\ Lies(h, Len(a), b) /\ Lies(h, Len(a) + Len(b), c)
         /\ Lies(h, (Len(a) + Len(b)) + Len(c), d) /\ Ends(h, ((Len(a) + Len(b)) + Len(c)) + Len(d), e)
<1> DEFINE x == a \o b
           y == x \o c
           z == y \o d
<1>1. x \in Seq(C) /\ Len(x) = Len(a) + Len(b)
  BY JoinedCells
<1> HIDE DEF x
<1>2. y \in Seq(C) /\ Len(y) = Len(x) + Len(c)
  BY <1>1, JoinedCells
<1> HIDE DEF y
<1>3. z \in Seq(C) /\ Len(z) = Len(y) + Len(d)
  BY <1>2, JoinedCells
<1> HIDE DEF z
<1>4. h = z \o e /\ h \in Seq(C)
  <2>1. h = z \o e
    BY DEF x, y, z
  <2> QED
    BY <1>3, <2>1, JoinedCells
<1>5. 0 \in Nat /\ \A u \in Seq(C) : Len(u) \in Nat /\ 0 + Len(u) = Len(u)
  OBVIOUS
<1>6. Lies(h, 0, z) /\ Ends(h, Len(z), e)
  <2>1. Ends(h, 0, z \o e)
    BY <1>4, LiesItself
  <2>2. Lies(h, 0, z) /\ Ends(h, 0 + Len(z), e)
    BY <1>3, <1>4, <1>5, <2>1, EndsApart
  <2> QED
    BY <1>3, <1>5, <2>2
<1>7. Lies(h, 0, y) /\ Lies(h, Len(y), d)
  <2>1. Lies(h, 0, y) /\ Lies(h, 0 + Len(y), d)
    BY <1>2, <1>4, <1>5, <1>6, LiesApart DEF z
  <2> QED
    BY <1>2, <1>5, <2>1
<1>8. Lies(h, 0, x) /\ Lies(h, Len(x), c)
  <2>1. Lies(h, 0, x) /\ Lies(h, 0 + Len(x), c)
    BY <1>1, <1>4, <1>5, <1>7, LiesApart DEF y
  <2> QED
    BY <1>1, <1>5, <2>1
<1>9. Lies(h, 0, a) /\ Lies(h, Len(a), b)
  <2>1. Lies(h, 0, a) /\ Lies(h, 0 + Len(a), b)
    BY <1>4, <1>5, <1>8, LiesApart DEF x
  <2> QED
    BY <1>5, <2>1
<1> QED
  BY <1>1, <1>2, <1>3, <1>4, <1>6, <1>7, <1>8, <1>9

Printed(p, h) == h \in Seq(UriChar) /\ LaidOut(h, p)

LEMMA HierarchyLaidOut ==
  ASSUME NEW p, IsHierarchy(p)
  PROVE  Printed(p, HierarchyText(p))
<1> DEFINE h == HierarchyText(p)
           a == Userinfo(p)
           b == <<"@">>
           c == p.host
           d == Marked(":", p.port)
           e == Marked("/", p.path)
<1>1. /\ p.username \in Seq(UriChar) /\ p.password \in Seq(UriChar) /\ p.host \in Seq(UriChar)
      /\ p.port \in Seq(UriChar) /\ p.path \in Seq(UriChar)
  BY DEF IsHierarchy
<1>2. "@" \in UriChar /\ ":" \in UriChar /\ "/" \in UriChar
  BY CodecAssumption
<1>3. a \in Seq(UriChar)
  <2>1. Marked(":", p.password) \in Seq(UriChar)
    BY <1>1, <1>2, MarkedText
  <2> QED
    BY <1>1, <2>1, JoinedCells DEF Userinfo
<1>4. b \in Seq(UriChar) /\ Len(b) = 1
  BY <1>2
<1>5. c \in Seq(UriChar) /\ d \in Seq(UriChar) /\ e \in Seq(UriChar)
  BY <1>1, <1>2, MarkedText
<1>6. h = (((a \o b) \o c) \o d) \o e
  BY DEF HierarchyText, Userinfo
<1> HIDE DEF a, b, c, d, e, h
<1>7. /\ h \in Seq(UriChar)
      /\ Lies(h, 0, a) /\ Lies(h, Len(a), b) /\ Lies(h, Len(a) + Len(b), c)
      /\ Lies(h, (Len(a) + Len(b)) + Len(c), d) /\ Ends(h, ((Len(a) + Len(b)) + Len(c)) + Len(d), e)
  BY <1>3, <1>4, <1>5, <1>6, SixLaidOut
<1>8. Len(a) \in Nat /\ Len(c) \in Nat /\ Len(d) \in Nat
  BY <1>3, <1>5
<1>9. Len(a) + 1 <= Len(h) /\ h[Len(a) + 1] = "@"
  BY <1>2, <1>7, <1>8, OneCell DEF b
<1>10. LaidOut(h, p)
  <2>1. AtSign(p) = Len(a) /\ HostEnd(p) = (Len(a) + 1) + Len(c) /\ PortEnd(p) = ((Len(a) + 1) + Len(c)) + Len(d)
    BY DEF AtSign, HostEnd, PortEnd, a, c, d
  <2>2. Lies(h, 0, a) /\ Lies(h, Len(a) + 1, c) /\ Lies(h, (Len(a) + 1) + Len(c), d) /\ Ends(h, ((Len(a) + 1) + Len(c)) + Len(d), e)
    BY <1>4, <1>7
  <2>3. (Len(a) + 1) + Len(c) \in Nat /\ ((Len(a) + 1) + Len(c)) + Len(d) \in Nat
    BY <1>8
  <2> QED
    BY <1>8, <1>9, <2>1, <2>2, <2>3 DEF LaidOut, a, c, d, e
<1> QED
  BY <1>7, <1>10 DEF Printed, h

(* The user and the password are read. *)
LEMMA UserinfoRead ==
  ASSUME NEW user \in Seq(UriChar), NEW pass \in Seq(UriChar), ~Has(user, ":")
  PROVE  LET auth == user \o Marked(":", pass)
             sep == IndexFrom(auth, ":", 0)
         IN /\ Part(auth, 0, sep) = user
            /\ (IF sep = none THEN <<>> ELSE Part(auth, sep + 1, none)) = pass
<1> DEFINE m == Marked(":", pass)
           auth == user \o m
           sep == IndexFrom(auth, ":", 0)
<1>1. ":" \in UriChar /\ 0 \in Nat /\ Len(user) \in Nat /\ 0 + Len(user) = Len(user)
  <2>1. ":" \in UriChar
    BY CodecAssumption
  <2> QED
    BY <2>1
<1>2. m \in Seq(UriChar)
  BY <1>1, MarkedText
<1> HIDE DEF m
<1>3. auth \in Seq(UriChar) /\ Len(auth) = Len(user) + Len(m)
  BY <1>2, JoinedCells
<1>4. Lies(auth, 0, user) /\ Ends(auth, Len(user), m)
  <2>1. Ends(auth, 0, user \o m)
    BY <1>3, LiesItself
  <2>2. Lies(auth, 0, user) /\ Ends(auth, 0 + Len(user), m)
    BY <1>1, <1>2, <1>3, <2>1, EndsApart
  <2> QED
    BY <1>1, <2>2
<1> HIDE DEF auth
<1>5. Free(auth, 0, Len(user), ":")
  <2>1. Free(auth, 0, 0 + Len(user), ":")
    BY <1>1, <1>3, <1>4, FreeWhere
  <2> QED
    BY <1>1, <2>1
<1>6. MarkedAt(auth, Len(user), ":", pass)
  BY <1>1, <1>3, <1>4, MarkedLies DEF Ends, m
<1>7. CASE pass = <<>>
  <2>1. Len(auth) = Len(user)
    <3>1. Len(m) = 0
      BY <1>6, <1>7 DEF MarkedAt, m
    <3> QED
      BY <1>1, <1>3, <3>1
  <2>2. sep = none
    BY <1>1, <1>3, <1>5, <2>1, IndexNone
  <2>3. Ends(auth, 0, user)
    BY <1>1, <1>4, <2>1 DEF Ends
  <2>4. Part(auth, 0, none) = user
    BY <1>1, <1>3, <2>3, PartEnds
  <2> QED
    BY <1>7, <2>2, <2>4 DEF auth, m
<1>8. CASE pass # <<>>
  <2>1. Len(m) = 1 + Len(pass) /\ Len(user) + 1 <= Len(auth) /\ auth[Len(user) + 1] = ":" /\ Lies(auth, Len(user) + 1, pass)
    BY <1>6, <1>8 DEF MarkedAt, m
  <2>2. sep = Len(user)
    BY <1>1, <1>3, <1>5, <2>1, IndexAt
  <2>3. Part(auth, 0, 0 + Len(user)) = user
    BY <1>1, <1>3, <1>4, PartLies
  <2>4. Ends(auth, Len(user) + 1, pass)
    <3>1. Len(pass) \in Nat
      OBVIOUS
    <3>2. (Len(user) + 1) + Len(pass) = Len(auth)
      BY <1>1, <1>3, <2>1, <3>1
    <3> QED
      BY <2>1, <3>2 DEF Ends
  <2>5. Part(auth, Len(user) + 1, none) = pass
    <3>1. Len(user) + 1 \in Nat
      BY <1>1
    <3> QED
      BY <1>3, <2>4, <3>1, PartEnds
  <2>6. Len(user) # none
    BY <1>1 DEF none
  <2> HIDE DEF sep
  <2>7. Part(auth, 0, sep) = user /\ (IF sep = none THEN <<>> ELSE Part(auth, sep + 1, none)) = pass
    BY <1>1, <2>2, <2>3, <2>5, <2>6
  <2> QED
    BY <2>7 DEF auth, m, sep
<1> QED
  BY <1>7, <1>8

(* Behind the "@" there is no other one. *)
LEMMA AtSignFound ==
  ASSUME NEW p, IsHierarchy(p), WholeHierarchy(p), NEW h \in Seq(UriChar), LaidOut(h, p)
  PROVE  LastIndex(h, "@") = AtSign(p)
<1> DEFINE a == AtSign(p)
           c == HostEnd(p)
           d == PortEnd(p)
<1>1. "/" \in UriChar /\ ":" \in UriChar /\ ":" # "@" /\ "/" # "@"
  BY CodecAssumption
<1>2. p.host \in Seq(UriChar) /\ p.port \in Seq(UriChar) /\ p.path \in Seq(UriChar)
  BY DEF IsHierarchy
<1>3. ~Has(p.host, "@") /\ ~Has(p.port, "@") /\ ~Has(p.path, "@")
  BY DEF WholeHierarchy
<1>4. /\ a \in Nat /\ c \in Nat /\ d \in Nat /\ a + 1 \in Nat /\ Len(h) \in Nat
      /\ c = (a + 1) + Len(p.host) /\ d = c + Len(Marked(":", p.port))
      /\ Len(h) = d + Len(Marked("/", p.path))
      /\ Lies(h, a + 1, p.host) /\ Lies(h, c, Marked(":", p.port)) /\ Lies(h, d, Marked("/", p.path))
      /\ a + 1 <= Len(h) /\ h[a + 1] = "@"
  BY DEF LaidOut, HostEnd, PortEnd, Ends
<1> HIDE DEF a, c, d
<1>5. Free(h, a + 1, c, "@")
  BY <1>2, <1>3, <1>4, FreeWhere
<1>6. Free(h, c, d, "@")
  BY <1>1, <1>2, <1>3, <1>4, FreeMarked
<1>7. Free(h, d, Len(h), "@")
  BY <1>1, <1>2, <1>3, <1>4, FreeMarked
<1>8. Free(h, a + 1, d, "@")
  BY <1>4, <1>5, <1>6, FreeJoins
<1>9. Free(h, a + 1, Len(h), "@")
  BY <1>4, <1>7, <1>8, FreeJoins
<1>10. LastIndex(h, "@") = a
  BY <1>4, <1>9, LastAt
<1> QED
  BY <1>10 DEF a

(* The host, the port and the path are read. *)
HostRead(h, p) ==
  LET host  == AtSign(p) + 1
      port  == IndexFrom(h, ":", host)
      slash == IndexFrom(h, "/", IF port = none THEN host ELSE port + 1)
  IN /\ Part(h, host, IF port = none THEN slash ELSE port) = p.host
     /\ (IF port = none THEN <<>> ELSE Part(h, port + 1, slash)) = p.port
     /\ (IF slash = none THEN <<>> ELSE Part(h, slash + 1, none)) = p.path

LEMMA HostIsRead ==
  ASSUME NEW p, IsHierarchy(p), WholeHierarchy(p), NEW h \in Seq(UriChar), LaidOut(h, p)
  PROVE  HostRead(h, p)
<1> DEFINE a == AtSign(p) + 1
           c == HostEnd(p)
           d == PortEnd(p)
           nh == Len(p.host)
           np == Len(p.port)
           nq == Len(p.path)
           mp == Len(Marked(":", p.port))
           mq == Len(Marked("/", p.path))
           port == IndexFrom(h, ":", a)
           slash == IndexFrom(h, "/", IF port = none THEN a ELSE port + 1)
<1>1. "/" \in UriChar /\ ":" \in UriChar /\ ":" # "/" /\ \A n \in Nat : n # none
  BY CodecAssumption DEF none
<1>2. /\ p.host \in Seq(UriChar) /\ p.port \in Seq(UriChar) /\ p.path \in Seq(UriChar)
      /\ nh \in Nat /\ np \in Nat /\ nq \in Nat
  BY DEF IsHierarchy
<1>3. /\ ~Has(p.host, ":") /\ ~Has(p.port, "/")
      /\ p.port = <<>> => ~Has(p.host, "/") /\ ~Has(p.path, ":")
  BY DEF WholeHierarchy
<1>4. /\ a \in Nat /\ c \in Nat /\ d \in Nat /\ Len(h) \in Nat
      /\ c = a + nh /\ d = c + mp /\ Len(h) = d + mq
      /\ Lies(h, a, p.host) /\ Lies(h, c, Marked(":", p.port)) /\ Lies(h, d, Marked("/", p.path))
  BY DEF LaidOut, HostEnd, PortEnd, Ends
<1> HIDE DEF a, c, d
<1>5. MarkedAt(h, c, ":", p.port) /\ MarkedAt(h, d, "/", p.path)
  BY <1>1, <1>2, <1>4, MarkedLies
<1> HIDE DEF nh, np, nq, mp, mq
<1>6. Free(h, a, c, ":")
  BY <1>2, <1>3, <1>4, FreeWhere DEF nh
<1>7. /\ Part(h, a, c) = p.host
      /\ c = Len(h) => Part(h, a, none) = p.host
  <2>1. Part(h, a, a + nh) = p.host
    BY <1>2, <1>4, PartLies DEF nh
  <2>2. ASSUME c = Len(h) PROVE Part(h, a, none) = p.host
    <3>1. Ends(h, a, p.host)
      BY <1>4, <2>2 DEF Ends, nh
    <3> QED
      BY <1>2, <1>4, <3>1, PartEnds
  <2> QED
    BY <1>4, <2>1, <2>2
<1>8. CASE p.path = <<>>
  <2>1. mq = 0 /\ d = Len(h)
    <3>1. mq = 0
      BY <1>5, <1>8 DEF MarkedAt, mq
    <3> QED
      BY <1>4, <3>1
  <2>2. CASE p.port = <<>>
    <3>1. c = Len(h)
      <4>1. mp = 0
        BY <1>5, <2>2 DEF MarkedAt, mp
      <4> QED
        BY <1>4, <2>1, <4>1
    <3>2. port = none
      BY <1>4, <1>6, <3>1, IndexNone
    <3>3. Free(h, a, c, "/")
      BY <1>2, <1>3, <1>4, <2>2, FreeWhere DEF nh
    <3>4. slash = none
      <4>1. IndexFrom(h, "/", a) = none
        BY <1>4, <3>1, <3>3, IndexNone
      <4> QED
        BY <3>2, <4>1
    <3> HIDE DEF port, slash
    <3>5. /\ Part(h, a, IF port = none THEN slash ELSE port) = p.host
          /\ (IF port = none THEN <<>> ELSE Part(h, port + 1, slash)) = p.port
          /\ (IF slash = none THEN <<>> ELSE Part(h, slash + 1, none)) = p.path
      BY <1>7, <1>8, <2>2, <3>1, <3>2, <3>4
    <3> QED
      BY <3>5 DEF HostRead, port, slash, a
  <2>3. CASE p.port # <<>>
    <3>1. /\ mp = 1 + np /\ c + 1 <= Len(h) /\ h[c + 1] = ":"
          /\ Lies(h, c + 1, p.port)
      BY <1>5, <2>3 DEF MarkedAt, mp, mq, np, nq
    <3>2. a <= c /\ c + 1 \in Nat /\ (c + 1) + np = Len(h)
      BY <1>2, <1>4, <2>1, <3>1
    <3>3. port = c
      BY <1>4, <1>6, <3>1, <3>2, IndexAt
    <3>4. Free(h, c + 1, (c + 1) + np, "/")
      BY <1>2, <1>3, <3>1, <3>2, FreeWhere DEF np
    <3>5. slash = none
      <4>1. IndexFrom(h, "/", c + 1) = none
        BY <3>2, <3>4, IndexNone
      <4> QED
        BY <1>1, <1>4, <3>3, <4>1
    <3>6. Part(h, c + 1, none) = p.port
      <4>1. Ends(h, c + 1, p.port)
        BY <3>1, <3>2 DEF Ends, np
      <4> QED
        BY <1>2, <3>2, <4>1, PartEnds
    <3> HIDE DEF port, slash
    <3>7. /\ Part(h, a, IF port = none THEN slash ELSE port) = p.host
          /\ (IF port = none THEN <<>> ELSE Part(h, port + 1, slash)) = p.port
          /\ (IF slash = none THEN <<>> ELSE Part(h, slash + 1, none)) = p.path
      BY <1>1, <1>4, <1>7, <1>8, <3>3, <3>5, <3>6
    <3> QED
      BY <3>7 DEF HostRead, port, slash, a
  <2> QED
    BY <2>2, <2>3
<1>9. CASE p.path # <<>>
  <2>1. /\ mq = 1 + nq /\ d + 1 <= Len(h) /\ h[d + 1] = "/"
        /\ Lies(h, d + 1, p.path)
    BY <1>5, <1>9 DEF MarkedAt, mp, mq, np, nq
  <2>2. d + 1 \in Nat /\ (d + 1) + nq = Len(h)
    <3>1. d \in Nat /\ nq \in Nat /\ Len(h) = d + mq /\ mq = 1 + nq
      BY <1>2, <1>4, <2>1, Zenon
    <3>2. d + (1 + nq) = (d + 1) + nq
      BY <3>1
    <3> QED
      BY <3>1, <3>2
  <2>3. Part(h, d + 1, none) = p.path
    <3>1. Ends(h, d + 1, p.path)
      BY <2>1, <2>2 DEF Ends, nq
    <3> QED
      BY <1>2, <2>2, <3>1, PartEnds
  <2>4. CASE p.port = <<>>
    <3>1. c = d
      <4>1. mp = 0
        BY <1>5, <2>4 DEF MarkedAt, mp
      <4> QED
        BY <1>4, <4>1
    <3>2. a <= d
      BY <1>2, <1>4, <3>1
    <3>3. Free(h, d, Len(h), ":")
      BY <1>1, <1>2, <1>3, <1>4, <2>4, FreeMarked DEF mq
    <3>4. Free(h, a, Len(h), ":")
      BY <1>4, <1>6, <3>1, <3>3, FreeJoins
    <3>5. port = none
      BY <1>4, <3>4, IndexNone
    <3>6. Free(h, a, d, "/")
      BY <1>2, <1>3, <1>4, <2>4, <3>1, FreeWhere DEF nh
    <3>7. slash = d
      <4>1. IndexFrom(h, "/", a) = d
        BY <1>4, <2>1, <3>2, <3>6, IndexAt
      <4> QED
        BY <3>5, <4>1
    <3> HIDE DEF port, slash
    <3>8. /\ Part(h, a, IF port = none THEN slash ELSE port) = p.host
          /\ (IF port = none THEN <<>> ELSE Part(h, port + 1, slash)) = p.port
          /\ (IF slash = none THEN <<>> ELSE Part(h, slash + 1, none)) = p.path
      BY <1>1, <1>4, <1>7, <2>3, <2>4, <3>1, <3>5, <3>7
    <3> QED
      BY <3>8 DEF HostRead, port, slash, a
  <2>5. CASE p.port # <<>>
    <3>1. /\ mp = 1 + np /\ c + 1 <= Len(h) /\ h[c + 1] = ":"
          /\ Lies(h, c + 1, p.port)
      BY <1>5, <2>5 DEF MarkedAt, mp, mq, np, nq
    <3>2. a <= c /\ c + 1 \in Nat /\ (c + 1) + np = d /\ c + 1 <= d
      BY <1>2, <1>4, <3>1
    <3>3. port = c
      BY <1>4, <1>6, <3>1, <3>2, IndexAt
    <3>4. Free(h, c + 1, (c + 1) + np, "/")
      BY <1>2, <1>3, <3>1, <3>2, FreeWhere DEF np
    <3>5. slash = d
      <4>1. IndexFrom(h, "/", c + 1) = d
        BY <1>4, <2>1, <3>2, <3>4, IndexAt
      <4> QED
        BY <1>1, <1>4, <3>3, <4>1
    <3>6. Part(h, c + 1, d) = p.port
      <4>1. Part(h, c + 1, (c + 1) + np) = p.port
        BY <1>2, <3>1, <3>2, PartLies DEF np
      <4> QED
        BY <3>2, <4>1
    <3> HIDE DEF port, slash
    <3>7. /\ Part(h, a, IF port = none THEN slash ELSE port) = p.host
          /\ (IF port = none THEN <<>> ELSE Part(h, port + 1, slash)) = p.port
          /\ (IF slash = none THEN <<>> ELSE Part(h, slash + 1, none)) = p.path
      BY <1>1, <1>4, <1>7, <2>3, <3>3, <3>5, <3>6
    <3> QED
      BY <3>7 DEF HostRead, port, slash, a
  <2> QED
    BY <2>4, <2>5
<1> QED
  BY <1>8, <1>9

(* A printed hierarchy is parsed into its parts. *)
LEMMA HierarchyReadsBack ==
  ASSUME NEW p, IsHierarchy(p), WholeHierarchy(p)
  PROVE  ParsedHierarchy(HierarchyText(p)) = p
<1> DEFINE h == HierarchyText(p)
           at == LastIndex(h, "@")
           auth == IF at = none THEN <<>> ELSE SubSeq(h, 1, at)
           pass == IndexFrom(auth, ":", 0)
           host == at + 1
           port == IndexFrom(h, ":", host)
           slash == IndexFrom(h, "/", IF port = none THEN host ELSE port + 1)
           user1 == Part(auth, 0, pass)
           pass1 == IF pass = none THEN <<>> ELSE Part(auth, pass + 1, none)
           host1 == Part(h, host, IF port = none THEN slash ELSE port)
           port1 == IF port = none THEN <<>> ELSE Part(h, port + 1, slash)
           path1 == IF slash = none THEN <<>> ELSE Part(h, slash + 1, none)
<1>1. ParsedHierarchy(h) = [username |-> user1, password |-> pass1, host |-> host1, port |-> port1, path |-> path1]
  BY DEF ParsedHierarchy
<1>2. h \in Seq(UriChar) /\ LaidOut(h, p)
  BY HierarchyLaidOut DEF Printed
<1>3. at = AtSign(p)
  <2> HIDE DEF h
  <2> QED
    BY <1>2, AtSignFound DEF at
<1>4. HostRead(h, p)
  <2> HIDE DEF h
  <2> QED
    BY <1>2, HostIsRead
<1>5. host1 = p.host /\ port1 = p.port /\ path1 = p.path
  <2> HIDE DEF h, at
  <2> QED
    BY <1>3, <1>4 DEF HostRead
<1>6. auth = Userinfo(p)
  <2>1. AtSign(p) # none
    BY <1>2 DEF LaidOut, none
  <2>2. Userinfo(p) \in Seq(UriChar)
    <3>1. ":" \in UriChar /\ p.username \in Seq(UriChar) /\ p.password \in Seq(UriChar)
      BY CodecAssumption DEF IsHierarchy
    <3>2. Marked(":", p.password) \in Seq(UriChar)
      BY <3>1, MarkedText
    <3> QED
      BY <3>1, <3>2, JoinedCells DEF Userinfo
  <2>3. Lies(h, 0, Userinfo(p)) /\ Len(Userinfo(p)) = AtSign(p) /\ 0 \in Nat
    BY <1>2 DEF LaidOut, AtSign
  <2>4. SubSeq(h, 0 + 1, 0 + Len(Userinfo(p))) = Userinfo(p)
    <3> HIDE DEF h
    <3> QED
      BY <1>2, <2>2, <2>3, LiesPart
  <2>5. AtSign(p) \in Nat
    BY <1>2 DEF LaidOut
  <2>6. SubSeq(h, 1, AtSign(p)) = Userinfo(p)
    <3> HIDE DEF h
    <3>1. 0 + 1 = 1 /\ 0 + Len(Userinfo(p)) = AtSign(p)
      BY <2>3, <2>5
    <3> QED
      BY <2>4, <3>1
  <2> HIDE DEF h, at
  <2> QED
    BY <1>3, <2>1, <2>6
<1>7. user1 = p.username /\ pass1 = p.password
  <2>1. p.username \in Seq(UriChar) /\ p.password \in Seq(UriChar) /\ ~Has(p.username, ":")
    BY DEF IsHierarchy, WholeHierarchy
  <2> HIDE DEF auth
  <2> QED
    BY <1>6, <2>1, UserinfoRead DEF Userinfo
<1> HIDE DEF user1, pass1, host1, port1, path1, h
<1>8. ParsedHierarchy(h) = [username |-> p.username, password |-> p.password, host |-> p.host, port |-> p.port, path |-> p.path]
  BY <1>1, <1>5, <1>7
<1>9. p = [username |-> p.username, password |-> p.password, host |-> p.host, port |-> p.port, path |-> p.path]
  BY DEF IsHierarchy
<1> QED
  BY <1>8, <1>9 DEF h

-----------------------------------------------------------------------------
(* The parameters of a Uri. *)

UriTexts == Seq(UriChar)
IsParams(q) == q \in Seq(UriTexts \X UriTexts)
WholeParams(q) ==
  \A k \in 1..Len(q) : ~Has(q[k][1], "=") /\ ~Has(q[k][1], "&") /\ ~Has(q[k][2], "&")

Assignment(pair) == pair[1] \o <<"=">> \o pair[2]
ParamPiece(q, k) == Assignment(q[k]) \o (IF k = Len(q) THEN <<>> ELSE <<"&">>)
ParamPieces(q) == [k \in 1..Len(q) |-> ParamPiece(q, k)]

LEMMA ParamTexts ==
  ASSUME NEW q, IsParams(q), NEW k \in 1..Len(q)
  PROVE  /\ q[k][1] \in UriTexts /\ q[k][2] \in UriTexts /\ q[k] = <<q[k][1], q[k][2]>>
         /\ q[k] \in UriTexts \X UriTexts
<1>1. q[k] \in UriTexts \X UriTexts
  BY TextElements DEF IsParams
<1> QED
  BY <1>1

LEMMA AssignmentLies ==
  ASSUME NEW key \in UriTexts, NEW value \in UriTexts
  PROVE  LET a == key \o <<"=">> \o value
         IN /\ a \in UriTexts /\ Len(a) = (Len(key) + 1) + Len(value)
            /\ Lies(a, 0, key) /\ a[Len(key) + 1] = "=" /\ Ends(a, Len(key) + 1, value)
<1> DEFINE e == <<"=">>
           x == key \o e
           a == x \o value
<1>1. key \in Seq(UriChar) /\ value \in Seq(UriChar) /\ Len(key) \in Nat /\ Len(value) \in Nat
  BY DEF UriTexts
<1>2. "=" \in UriChar
  BY CodecAssumption
<1>3. e \in Seq(UriChar) /\ Len(e) = 1 /\ e[1] = "=" /\ 1 \in 1..1
  BY <1>2
<1> HIDE DEF e
<1>4. x \in Seq(UriChar) /\ Len(x) = Len(key) + 1 /\ \A i \in 1..Len(e) : x[Len(key) + i] = e[i]
  <2>1. \A u, v \in Seq(UriChar) : u \o v \in Seq(UriChar) /\ Len(u \o v) = Len(u) + Len(v)
                                   /\ \A i \in 1..Len(v) : (u \o v)[Len(u) + i] = v[i]
    BY JoinedCells
  <2>2. x \in Seq(UriChar) /\ Len(x) = Len(key) + Len(e) /\ \A i \in 1..Len(e) : x[Len(key) + i] = e[i]
    BY <1>1, <1>3, <2>1, Zenon
  <2> HIDE DEF x
  <2> QED
    BY <1>3, <2>2
<1> HIDE DEF x
<1>6. x[Len(key) + 1] = "="
  BY <1>3, <1>4
<1>7. Ends(x, 0, x) /\ 0 \in Nat /\ \A n \in Nat : 0 + n = n
  <2>1. Ends(x, 0, x)
    BY <1>4, LiesItself
  <2> QED
    BY <2>1
<1>8. Lies(x, 0, key)
  <2>1. Lies(x, 0, key \o e)
    BY <1>7 DEF Ends, x
  <2> QED
    BY <1>1, <1>3, <1>4, <1>7, <2>1, LiesApart
<1>9. a \in Seq(UriChar) /\ Len(a) = Len(x) + Len(value)
  BY <1>1, <1>4, JoinedCells
<1>10. Ends(a, 0, a)
  BY <1>9, LiesItself
<1>11. Lies(a, 0, x) /\ Ends(a, 0 + Len(x), value)
  BY <1>1, <1>4, <1>7, <1>9, <1>10, EndsApart
<1>12. Len(x) \in Nat
  BY <1>4
<1> HIDE DEF a
<1>13. \A i \in 1..Len(x) : a[i] = x[i]
  <2> TAKE i \in 1..Len(x)
  <2>1. 0 + i = i
    BY <1>12
  <2> QED
    BY <1>11, <2>1 DEF Lies
<1>14. Lies(a, 0, key)
  <2>1. Len(key) <= Len(x) /\ 0 + Len(key) = Len(key)
    BY <1>1, <1>4
  <2>2. \A i \in 1..Len(key) : i \in 1..Len(x) /\ 0 + i = i
    BY <1>1, <1>4
  <2>3. \A i \in 1..Len(key) : a[0 + i] = key[i]
    BY <1>8, <1>13, <2>2 DEF Lies
  <2>4. 0 + Len(key) <= Len(a)
    BY <1>1, <1>4, <1>9, <2>1
  <2> QED
    BY <2>3, <2>4 DEF Lies
<1>15. a[Len(key) + 1] = "="
  <2>1. Len(key) + 1 \in 1..Len(x)
    BY <1>1, <1>4
  <2> QED
    BY <1>6, <1>13, <2>1
<1>16. Ends(a, Len(key) + 1, value)
  <2>1. 0 + Len(x) = Len(key) + 1
    BY <1>1, <1>4
  <2> QED
    BY <1>11, <2>1
<1>17. Len(a) = (Len(key) + 1) + Len(value)
  BY <1>4, <1>9
<1>18. a \in UriTexts
  BY <1>9 DEF UriTexts
<1> QED
  BY <1>14, <1>15, <1>16, <1>17, <1>18 DEF a, x, e

(* An assignment is split at its first "=". *)
LEMMA PairIsRead ==
  ASSUME NEW key \in UriTexts, NEW value \in UriTexts, ~Has(key, "=")
  PROVE  Param(key \o <<"=">> \o value) = <<<<key, value>>>>
<1> DEFINE a == key \o <<"=">> \o value
           sep == IndexFrom(a, "=", 0)
<1>1. /\ a \in UriTexts /\ Len(a) = (Len(key) + 1) + Len(value)
      /\ Lies(a, 0, key) /\ a[Len(key) + 1] = "=" /\ Ends(a, Len(key) + 1, value)
  BY AssignmentLies
<1>2. key \in Seq(UriChar) /\ value \in Seq(UriChar) /\ Len(key) \in Nat /\ Len(value) \in Nat
  BY DEF UriTexts
<1> HIDE DEF a
<1>3. a \in Seq(UriChar) /\ 0 \in Nat /\ 0 + Len(key) = Len(key) /\ 0 <= Len(key) /\ Len(key) + 1 <= Len(a)
      /\ Len(key) + 1 \in Nat
  BY <1>1, <1>2 DEF UriTexts
<1>4. Free(a, 0, 0 + Len(key), "=")
  BY <1>1, <1>2, <1>3, FreeWhere
<1>5. sep = Len(key)
  BY <1>1, <1>2, <1>3, <1>4, IndexAt
<1>6. Part(a, 0, sep) = key
  <2>1. Part(a, 0, 0 + Len(key)) = key
    BY <1>1, <1>2, <1>3, PartLies
  <2> QED
    BY <1>3, <1>5, <2>1
<1>7. Part(a, sep + 1, none) = value
  <2>1. Part(a, Len(key) + 1, none) = value
    BY <1>1, <1>2, <1>3, PartEnds
  <2> QED
    BY <1>5, <2>1
<1>8. sep # none
  BY <1>2, <1>5 DEF none
<1>9. Pair(a) = <<key, value>>
  BY <1>6, <1>7, <1>8 DEF Pair
<1>10. a # <<>>
  <2>1. Len(a) > 0
    BY <1>1, <1>2
  <2> QED
    BY <2>1
<1> QED
  BY <1>9, <1>10 DEF Param, a

(* No "&" is in an assignment. *)
LEMMA AssignmentFree ==
  ASSUME NEW key \in UriTexts, NEW value \in UriTexts, ~Has(key, "&"), ~Has(value, "&")
  PROVE  ~Has(key \o <<"=">> \o value, "&")
<1> DEFINE a == key \o <<"=">> \o value
<1>1. /\ a \in UriTexts /\ Len(a) = (Len(key) + 1) + Len(value)
      /\ Lies(a, 0, key) /\ a[Len(key) + 1] = "=" /\ Ends(a, Len(key) + 1, value)
  BY AssignmentLies
<1> HIDE DEF a
<1>2. key \in Seq(UriChar) /\ value \in Seq(UriChar) /\ a \in Seq(UriChar) /\ Len(key) \in Nat /\ Len(value) \in Nat
  BY <1>1 DEF UriTexts
<1>3. 0 \in Nat /\ 0 + Len(key) = Len(key) /\ Len(key) + 1 \in Nat /\ Len(a) \in Nat /\ "=" # "&"
  BY <1>2
<1>4. Free(a, 0, Len(key), "&")
  <2>1. Free(a, 0, 0 + Len(key), "&")
    BY <1>1, <1>2, <1>3, FreeWhere
  <2> QED
    BY <1>3, <2>1
<1>5. Free(a, Len(key), Len(key) + 1, "&")
  <2>1. \A i \in Len(key) .. (Len(key) + 1) - 1 : i = Len(key)
    BY <1>2
  <2> QED
    BY <1>1, <1>3, <2>1 DEF Free
<1>6. Free(a, Len(key) + 1, Len(a), "&")
  <2>1. Free(a, Len(key) + 1, (Len(key) + 1) + Len(value), "&")
    BY <1>1, <1>2, <1>3, FreeWhere DEF Ends
  <2> QED
    BY <1>1, <2>1
<1>7. Free(a, 0, Len(key) + 1, "&")
  BY <1>2, <1>3, <1>4, <1>5, FreeJoins
<1>8. Free(a, 0, Len(a), "&")
  BY <1>3, <1>6, <1>7, FreeJoins
<1>9. ~Has(a, "&")
  <2> SUFFICES ASSUME NEW i \in 1..Len(a), a[i] = "&" PROVE FALSE
    BY <1>2 DEF Has
  <2>1. i - 1 \in 0 .. Len(a) - 1 /\ (i - 1) + 1 = i
    BY <1>3
  <2> QED
    BY <1>8, <2>1 DEF Free
<1> QED
  BY <1>9 DEF a

(* The loop of parseUri over the parameters. *)
ReadsParams(rest, t) ==
  rest = [b \in 0..Len(t) |->
            IF IndexFrom(t, "&", b) = none THEN Param(Part(t, b, none))
            ELSE Param(Part(t, b, IndexFrom(t, "&", b))) \o rest[IndexFrom(t, "&", b) + 1]]

LEMMA ParsedParamsIs ==
  ASSUME NEW C, NEW t \in Seq(C)
  PROVE  \E rest : ReadsParams(rest, t) /\ \A begin : ParsedParams(t, begin) = rest[begin]
<1> DEFINE N == Len(t)
           end(b) == IndexFrom(t, "&", b)
           stops == [b \in 0..N |-> end(b) = none]
           last == [b \in 0..N |-> Param(Part(t, b, none))]
           first == [b \in 0..N |-> Param(Part(t, b, end(b)))]
           next == [b \in 0..N |-> end(b) + 1]
           rest == CHOOSE f : ReadsParams(f, t)
<1>1. \A b \in 0..N : ~stops[b] => next[b] \in 0..N /\ b < next[b]
  <2> TAKE b \in 0..N
  <2> HAVE ~stops[b]
  <2>1. end(b) # none /\ next[b] = end(b) + 1 /\ N \in Nat /\ b \in Nat
    <3>1. N \in Nat
      OBVIOUS
    <3>2. b \in Nat
      BY <3>1
    <3>3. stops[b] = (end(b) = none) /\ next[b] = end(b) + 1
      OBVIOUS
    <3> HIDE DEF end, next, stops, N
    <3> QED
      BY <3>1, <3>2, <3>3
  <2>2. end(b) \in b .. N - 1
    BY <2>1, IndexFromIs
  <2> HIDE DEF end, next, stops, N
  <2> QED
    BY <2>1, <2>2
<1>2. \E f : Unfolding(f, 0, N, stops, last, first, next)
  <2>1. 0 \in Nat /\ N \in Nat
    OBVIOUS
  <2> HIDE DEF stops, last, first, next, N
  <2> QED
    BY <1>1, <2>1, Unfolds
<1>3. PICK f : Unfolding(f, 0, N, stops, last, first, next)
  BY <1>2
<1>4. ReadsParams(f, t)
  <2> DEFINE value(b) == IF stops[b] THEN last[b] ELSE first[b] \o f[next[b]]
             other(b) == IF end(b) = none THEN Param(Part(t, b, none)) ELSE Param(Part(t, b, end(b))) \o f[end(b) + 1]
  <2>1. \A b \in 0..N : value(b) = other(b)
    <3> TAKE b \in 0..N
    <3>1. /\ stops[b] = (end(b) = none) /\ last[b] = Param(Part(t, b, none))
          /\ first[b] = Param(Part(t, b, end(b))) /\ next[b] = end(b) + 1
      OBVIOUS
    <3> HIDE DEF stops, last, first, next, end, N
    <3> QED
      BY <3>1
  <2>2. f = [b \in 0..N |-> value(b)]
    BY <1>3 DEF Unfolding
  <2> HIDE DEF value, other
  <2>3. f = [b \in 0..N |-> other(b)]
    BY <2>1, <2>2
  <2> QED
    BY <2>3 DEF other, ReadsParams
<1>5. ReadsParams(rest, t)
  BY <1>4
<1>6. ASSUME NEW begin
      PROVE  ParsedParams(t, begin) = rest[begin]
  BY DEF ParsedParams, ReadsParams
<1> HIDE DEF rest
<1> QED
  BY <1>5, <1>6

(* toString writes the assignments one behind the other. *)
LEMMA AssignmentsIs ==
  ASSUME NEW q, IsParams(q)
  PROVE  \E out : Writing(out, Len(q), ParamPieces(q)) /\ Assignments(q) = out[1]
<1> DEFINE n == Len(q)
           piece == ParamPieces(q)
           Writes(f) == f = [k \in 1..(n + 1) |->
                               IF k = n + 1 THEN <<>>
                               ELSE (q[k][1] \o <<"=">> \o q[k][2] \o (IF k = n THEN <<>> ELSE <<"&">>)) \o f[k + 1]]
           rest == CHOOSE f : Writes(f)
<1>0. n \in Nat
  BY DEF IsParams
<1>1. ASSUME NEW f
      PROVE  Writes(f) <=> Writing(f, n, piece)
  <2> DEFINE value(k) == IF k = n + 1 THEN <<>>
                         ELSE (q[k][1] \o <<"=">> \o q[k][2] \o (IF k = n THEN <<>> ELSE <<"&">>)) \o f[k + 1]
             other(k) == IF k = n + 1 THEN <<>> ELSE piece[k] \o f[k + 1]
  <2>1. \A k \in 1..(n + 1) : value(k) = other(k)
    <3> TAKE k \in 1..(n + 1)
    <3>2. k # n + 1 => k \in 1..n
      BY <1>0
    <3>3. k # n + 1 => piece[k] = q[k][1] \o <<"=">> \o q[k][2] \o (IF k = n THEN <<>> ELSE <<"&">>)
      BY <3>2 DEF ParamPieces, ParamPiece, Assignment
    <3> HIDE DEF piece, n
    <3> QED
      BY <3>3
  <2> HIDE DEF value, other
  <2>2. [k \in 1..(n + 1) |-> value(k)] = [k \in 1..(n + 1) |-> other(k)]
    BY <2>1
  <2> QED
    BY <2>2 DEF value, other, Writing
<1>2. \E f : Writing(f, n, piece)
  <2> HIDE DEF n, piece
  <2> QED
    BY <1>0, WritingExists
<1>3. Assignments(q) = rest[1]
  BY DEF Assignments
<1> HIDE DEF Writes, n, piece
<1>4. Writes(rest)
  BY <1>1, <1>2
<1> HIDE DEF rest
<1> QED
  BY <1>1, <1>3, <1>4 DEF n, piece

LEMMA ParamPieceIs ==
  ASSUME NEW q, IsParams(q), NEW k \in 1..Len(q)
  PROVE  /\ ParamPiece(q, k) \in Seq(UriChar) /\ Assignment(q[k]) \in Seq(UriChar)
         /\ Len(ParamPiece(q, k)) > 0 /\ Len(Assignment(q[k])) \in Nat
         /\ k = Len(q) => ParamPiece(q, k) = Assignment(q[k])
         /\ k # Len(q) => ParamPiece(q, k) = Assignment(q[k]) \o <<"&">> /\ Len(ParamPiece(q, k)) = Len(Assignment(q[k])) + 1
<1> DEFINE a == Assignment(q[k])
           s == <<"&">>
<1>1. q[k][1] \in UriTexts /\ q[k][2] \in UriTexts
  BY ParamTexts
<1>2. a \in UriTexts /\ Len(a) = (Len(q[k][1]) + 1) + Len(q[k][2])
  BY <1>1, AssignmentLies DEF Assignment
<1>3. a \in Seq(UriChar) /\ Len(a) \in Nat /\ Len(a) > 0
  <2>1. Len(q[k][1]) \in Nat /\ Len(q[k][2]) \in Nat
    BY <1>1 DEF UriTexts
  <2>2. a \in Seq(UriChar)
    BY <1>2 DEF UriTexts
  <2>3. \A x, y \in Nat : (x + 1) + y \in Nat /\ (x + 1) + y > 0
    OBVIOUS
  <2> HIDE DEF a
  <2>4. (Len(q[k][1]) + 1) + Len(q[k][2]) \in Nat /\ (Len(q[k][1]) + 1) + Len(q[k][2]) > 0
    BY <2>1, <2>3, Zenon
  <2> QED
    BY <1>2, <2>2, <2>4, Zenon
<1>4. s \in Seq(UriChar) /\ Len(s) = 1
  BY CodecAssumption
<1>5. ParamPiece(q, k) = a \o (IF k = Len(q) THEN <<>> ELSE s)
  BY DEF ParamPiece
<1> HIDE DEF a, s
<1>6. CASE k = Len(q)
  <2>1. \A u \in Seq(UriChar) : u \o <<>> = u
    OBVIOUS
  <2>2. ParamPiece(q, k) = a
    BY <1>3, <1>5, <1>6, <2>1
  <2> QED
    BY <1>3, <1>6, <2>2 DEF a
<1>7. CASE k # Len(q)
  <2>1. \A u, v \in Seq(UriChar) : u \o v \in Seq(UriChar) /\ Len(u \o v) = Len(u) + Len(v)
    BY JoinedCells
  <2>2. ParamPiece(q, k) = a \o s
    BY <1>5, <1>7
  <2>3. a \o s \in Seq(UriChar) /\ Len(a \o s) = Len(a) + Len(s)
    BY <1>3, <1>4, <2>1, Zenon
  <2>4. ParamPiece(q, k) \in Seq(UriChar) /\ Len(ParamPiece(q, k)) = Len(a) + 1
    BY <1>4, <2>2, <2>3
  <2>5. Len(ParamPiece(q, k)) > 0
    BY <1>3, <2>4
  <2> QED
    BY <1>3, <1>7, <2>2, <2>4, <2>5 DEF a, s
<1> QED
  BY <1>6, <1>7

LEMMA ParamsPieces ==
  ASSUME NEW q, IsParams(q)
  PROVE  Len(q) \in Nat /\ Pieces(ParamPieces(q), Len(q), UriChar)
<1>1. Len(q) \in Nat
  BY DEF IsParams
<1>2. \A k \in 1..Len(q) : ParamPiece(q, k) \in Seq(UriChar)
  BY ParamPieceIs
<1> QED
  BY <1>1, <1>2 DEF Pieces, ParamPieces

LEMMA AssignmentsText ==
  ASSUME NEW q, IsParams(q)
  PROVE  Assignments(q) \in Seq(UriChar) /\ (Assignments(q) = <<>> <=> q = <<>>)
<1> DEFINE n == Len(q)
           piece == ParamPieces(q)
<1>1. PICK out : Writing(out, n, piece) /\ Assignments(q) = out[1]
  BY AssignmentsIs
<1>2. n \in Nat /\ Pieces(piece, n, UriChar)
  BY ParamsPieces
<1>3. \A k \in 1..n : piece[k] = ParamPiece(q, k) /\ Len(ParamPiece(q, k)) > 0 /\ ParamPiece(q, k) \in Seq(UriChar)
  BY ParamPieceIs DEF ParamPieces
<1>4. n = 0 <=> q = <<>>
  BY DEF IsParams
<1> HIDE DEF n, piece
<1>5. WrittenOut(out, n, piece, UriChar)
  BY <1>1, <1>2, WritingIs DEF Pieces
<1>6. out[1] \in Seq(UriChar)
  <2>1. 1 \in 1..(n + 1)
    BY <1>2
  <2> QED
    BY <1>5, <2>1 DEF WrittenOut
<1>7. CASE n = 0
  <2>1. n + 1 = 1
    BY <1>7
  <2>2. out[1] = <<>>
    BY <1>5, <2>1 DEF WrittenOut
  <2> QED
    BY <1>1, <1>4, <1>6, <1>7, <2>2
<1>8. CASE n # 0
  <2>1. 1 \in 1..n /\ 1 + 1 \in 1..(n + 1)
    BY <1>2, <1>8
  <2>2. out[1] = piece[1] \o out[1 + 1] /\ out[1 + 1] \in Seq(UriChar)
    BY <1>5, <2>1 DEF WrittenOut
  <2>3. piece[1] \in Seq(UriChar) /\ Len(piece[1]) > 0
    BY <1>3, <2>1
  <2>4. \A u, v \in Seq(UriChar) : Len(u \o v) = Len(u) + Len(v) /\ Len(u) \in Nat /\ Len(v) \in Nat
    BY JoinedCells
  <2>5. Len(out[1]) = Len(piece[1]) + Len(out[1 + 1]) /\ Len(piece[1]) \in Nat /\ Len(out[1 + 1]) \in Nat
    BY <2>2, <2>3, <2>4
  <2>6. \A x, y \in Nat : x > 0 => x + y > 0
    OBVIOUS
  <2>7. Len(out[1]) > 0
    BY <2>3, <2>5, <2>6, Zenon
  <2>8. out[1] # <<>>
    BY <2>7
  <2> QED
    BY <1>1, <1>4, <1>6, <1>8, <2>8
<1> QED
  BY <1>7, <1>8

(* The written parameters are read. *)
LEMMA ParamsReadBack ==
  ASSUME NEW q, IsParams(q), WholeParams(q), NEW t \in Seq(UriChar), NEW begin \in Nat,
         Ends(t, begin, Assignments(q))
  PROVE  ParsedParams(t, begin) = q
<1> DEFINE n == Len(q)
           piece == ParamPieces(q)
           N == Len(t)
<1>1. PICK out : Writing(out, n, piece) /\ Assignments(q) = out[1]
  BY AssignmentsIs
<1>2. n \in Nat /\ Pieces(piece, n, UriChar) /\ N \in Nat
  BY ParamsPieces
<1>3. WrittenOut(out, n, piece, UriChar)
  BY <1>1, <1>2, WritingIs DEF Pieces
<1>4. PICK read : ReadsParams(read, t) /\ \A b : ParsedParams(t, b) = read[b]
  BY ParsedParamsIs
<1>5. ASSUME NEW b \in 0..N
      PROVE  read[b] = IF IndexFrom(t, "&", b) = none THEN Param(Part(t, b, none))
                       ELSE Param(Part(t, b, IndexFrom(t, "&", b))) \o read[IndexFrom(t, "&", b) + 1]
  BY <1>4 DEF ReadsParams
<1>6. read[N] = <<>>
  <2>1. N \in 0..N
    BY <1>2
  <2>2. IndexFrom(t, "&", N) = none
    <3>1. Free(t, N, N, "&")
      BY <1>2 DEF Free
    <3> QED
      BY <1>2, <3>1, IndexNone
  <2>3. Part(t, N, none) = <<>>
    <3>1. SubSeq(t, N + 1, N) = <<>>
      BY <1>2
    <3> QED
      BY <3>1 DEF Part
  <2> QED
    BY <1>5, <2>1, <2>2, <2>3 DEF Param
<1>7. ASSUME NEW k \in 1..n, NEW b \in 0..N, Ends(t, b, piece[k] \o out[k + 1])
      PROVE  read[b] = <<q[k]>> \o read[b + Len(piece[k])]
  <2> DEFINE a == Assignment(q[k])
  <2>1. q[k][1] \in UriTexts /\ q[k][2] \in UriTexts /\ q[k] = <<q[k][1], q[k][2]>>
    BY ParamTexts
  <2>2. ~Has(q[k][1], "=") /\ ~Has(q[k][1], "&") /\ ~Has(q[k][2], "&")
    BY DEF WholeParams
  <2>3. Param(a) = <<q[k]>>
    BY <2>1, <2>2, PairIsRead DEF Assignment
  <2>4. ~Has(a, "&")
    BY <2>1, <2>2, AssignmentFree DEF Assignment
  <2>5. piece[k] = ParamPiece(q, k)
    BY DEF ParamPieces
  <2>6. /\ piece[k] \in Seq(UriChar) /\ a \in Seq(UriChar) /\ Len(a) \in Nat
        /\ k = n => piece[k] = a
        /\ k # n => piece[k] = a \o <<"&">> /\ Len(piece[k]) = Len(a) + 1
    BY <2>5, ParamPieceIs
  <2>7. out[k + 1] \in Seq(UriChar) /\ (k = n => out[k + 1] = <<>>)
    <3>1. k + 1 \in 1..(n + 1)
      BY <1>2
    <3> QED
      BY <1>3, <3>1 DEF WrittenOut
  <2>8. b \in Nat /\ b \in 0..N
    BY <1>2
  <2> HIDE DEF a, piece, n, N
  <2>9. Lies(t, b, piece[k]) /\ Ends(t, b + Len(piece[k]), out[k + 1])
    BY <1>7, <2>6, <2>7, <2>8, EndsApart
  <2>10. CASE k = n
    <3>1. Lies(t, b, a) /\ Ends(t, b + Len(a), <<>>)
      BY <2>6, <2>7, <2>9, <2>10
    <3>2. b + Len(a) = N /\ Ends(t, b, a)
      <4>1. Len(<<>>) = 0 /\ (b + Len(a)) + 0 = b + Len(a)
        BY <2>6, <2>8
      <4>2. b + Len(a) = N
        BY <3>1, <4>1 DEF Ends, N
      <4> QED
        BY <3>1, <4>2 DEF Ends, N
    <3>3. IndexFrom(t, "&", b) = none
      <4>1. Free(t, b, b + Len(a), "&")
        BY <2>4, <2>6, <2>8, <3>1, FreeWhere
      <4> QED
        BY <2>8, <3>2, <4>1, IndexNone DEF N
    <3>4. Part(t, b, none) = a
      BY <2>6, <2>8, <3>2, PartEnds
    <3>5. read[b] = <<q[k]>>
      BY <1>5, <2>3, <2>8, <3>3, <3>4
    <3>6. b + Len(piece[k]) = N
      BY <2>6, <2>10, <3>2
    <3>7. <<q[k]>> \o <<>> = <<q[k]>>
      OBVIOUS
    <3> QED
      BY <1>6, <3>5, <3>6, <3>7
  <2>11. CASE k # n
    <3>1. "&" \in UriChar /\ \A m \in Nat : m # none
      BY CodecAssumption DEF none
    <3>2. Lies(t, b, a) /\ Lies(t, b + Len(a), <<"&">>)
      <4> DEFINE s == <<"&">>
      <4>1. s \in Seq(UriChar)
        BY <3>1
      <4>2. Lies(t, b, a \o s)
        BY <2>6, <2>9, <2>11
      <4> HIDE DEF s
      <4>3. Lies(t, b, a) /\ Lies(t, b + Len(a), s)
        BY <2>6, <2>8, <4>1, <4>2, LiesApart
      <4> QED
        BY <4>3 DEF s
    <3>3. b + Len(a) \in Nat /\ b <= b + Len(a)
      BY <2>6, <2>8
    <3>4. (b + Len(a)) + 1 <= Len(t) /\ t[(b + Len(a)) + 1] = "&"
      BY <3>1, <3>2, <3>3, OneCell
    <3>5. IndexFrom(t, "&", b) = b + Len(a)
      <4>1. Free(t, b, b + Len(a), "&")
        BY <2>4, <2>6, <2>8, <3>2, FreeWhere
      <4> QED
        BY <2>8, <3>3, <3>4, <4>1, IndexAt
    <3>6. Part(t, b, b + Len(a)) = a
      BY <2>6, <2>8, <3>2, PartLies
    <3>7. (b + Len(a)) + 1 = b + Len(piece[k])
      <4>1. \A x, y, z \in Nat : z = y + 1 => (x + y) + 1 = x + z
        OBVIOUS
      <4>2. Len(piece[k]) = Len(a) + 1 /\ Len(piece[k]) \in Nat
        BY <2>6, <2>11
      <4> QED
        BY <2>6, <2>8, <4>1, <4>2, Zenon
    <3>8. IndexFrom(t, "&", b) # none
      BY <3>1, <3>3, <3>5
    <3>9. read[b] = Param(a) \o read[(b + Len(a)) + 1]
      BY <1>5, <2>8, <3>5, <3>6, <3>8
    <3> QED
      BY <2>3, <3>7, <3>9
  <2> QED
    BY <2>10, <2>11
<1>8. Reader(read, t, q, piece, out)
  BY <1>6, <1>7 DEF Reader
<1>9. begin \in 0..N
  <2>1. out[1] \in Seq(UriChar)
    BY <1>1, AssignmentsText
  <2>2. begin + Len(out[1]) = N /\ Len(out[1]) \in Nat
    BY <1>1, <2>1 DEF Ends
  <2> QED
    BY <1>2, <2>2
<1>10. Ends(t, begin, out[1])
  BY <1>1
<1>11. q \in Seq(UriTexts \X UriTexts) /\ Len(q) = n
  BY DEF IsParams
<1> HIDE DEF n, piece, N
<1>12. read[begin] = q
  BY <1>1, <1>2, <1>8, <1>9, <1>10, <1>11, ReadsBack DEF N
<1> QED
  BY <1>4, <1>12

-----------------------------------------------------------------------------
(* The whole Uri. *)

(* A mark is a ":" and two "/". *)
LEMMA MarkIs ==
  ASSUME NEW C, NEW t \in Seq(C), NEW i \in Nat, i + 3 <= Len(t)
  PROVE  i \in SchemeEnds(t) <=> t[i + 1] = ":" /\ t[i + 2] = "/" /\ t[i + 3] = "/"
<1> DEFINE x == SubSeq(t, i + 1, i + 3)
<1>1. i \in 0..(Len(t) - 3)
  OBVIOUS
<1>2. i \in SchemeEnds(t) <=> x = SchemeEnd
  BY <1>1 DEF SchemeEnds
<1>3. x = <<t[i + 1], t[i + 2], t[i + 3]>>
  <2> DEFINE b == i + 1
             f == i + 3
  <2>0. b \in 1..Len(t) /\ f \in 1..Len(t) /\ f - b + 1 = 3 /\ b + 1 - 1 = i + 1 /\ b + 2 - 1 = i + 2 /\ b + 3 - 1 = i + 3
    OBVIOUS
  <2>1. Len(x) = 3 /\ x[1] = t[i + 1] /\ x[2] = t[i + 2] /\ x[3] = t[i + 3] /\ x \in Seq(C)
    <3> HIDE DEF b, f
    <3>1. SubSeq(t, b, f) \in Seq(C) /\ Len(SubSeq(t, b, f)) = 3
      BY <2>0
    <3>2. \A k \in 1..3 : SubSeq(t, b, f)[k] = t[b + k - 1]
      BY <2>0
    <3>3. 1 \in 1..3 /\ 2 \in 1..3 /\ 3 \in 1..3
      OBVIOUS
    <3>4. x = SubSeq(t, b, f)
      BY DEF b, f
    <3> HIDE DEF x
    <3> QED
      BY <2>0, <3>1, <3>2, <3>3, <3>4
  <2> HIDE DEF x, b, f
  <2> QED
    BY <2>1
<1> HIDE DEF x
<1> QED
  BY <1>2, <1>3 DEF SchemeEnd

(* The mark behind a scheme without one is the first of the text. *)
LEMMA SchemeFound ==
  ASSUME NEW s \in Seq(UriChar), SchemeEnds(s) = {}, NEW t \in Seq(UriChar), Lies(t, 0, s \o SchemeEnd)
  PROVE  Len(s) \in SchemeEnds(t) /\ \A i \in SchemeEnds(t) : Len(s) <= i
<1> DEFINE n == Len(s)
           e == SchemeEnd
<1>1. n \in Nat /\ Len(t) \in Nat /\ 0 \in Nat
  OBVIOUS
<1>2. e \in Seq(UriChar) /\ Len(e) = 3 /\ e[1] = ":" /\ e[2] = "/" /\ e[3] = "/"
  BY CodecAssumption DEF SchemeEnd
<1> HIDE DEF e
<1>3. Lies(t, 0, s) /\ Lies(t, n, e)
  <2>1. Lies(t, 0, s) /\ Lies(t, 0 + n, e)
    BY <1>1, <1>2, LiesApart DEF e
  <2> QED
    BY <1>1, <2>1
<1>4. n + 3 <= Len(t) /\ t[n + 1] = ":" /\ t[n + 2] = "/" /\ t[n + 3] = "/"
  BY <1>2, <1>3 DEF Lies
<1>5. \A i \in 1..n : t[i] = s[i]
  BY <1>3 DEF Lies
<1>6. n \in SchemeEnds(t)
  BY <1>1, <1>4, MarkIs
<1>7. ASSUME NEW i \in SchemeEnds(t), ~(n <= i)
      PROVE  FALSE
  <2>1. i \in Nat /\ i + 3 <= Len(t)
    BY <1>1, <1>7 DEF SchemeEnds
  <2>2. t[i + 1] = ":" /\ t[i + 2] = "/" /\ t[i + 3] = "/"
    BY <1>7, <2>1, MarkIs
  <2> HIDE DEF n
  <2>3. CASE i + 3 <= n
    <3>1. i + 1 \in 1..n /\ i + 2 \in 1..n /\ i + 3 \in 1..n
      BY <1>1, <2>1, <2>3
    <3>2. s[i + 1] = ":" /\ s[i + 2] = "/" /\ s[i + 3] = "/"
      BY <1>5, <2>2, <3>1
    <3>3. i \in SchemeEnds(s)
      BY <2>1, <2>3, <3>2, MarkIs DEF n
    <3> QED
      BY <3>3
  <2>4. CASE ~(i + 3 <= n)
    <3>1. i + 2 = n + 1 \/ i + 3 = n + 1
      BY <1>1, <1>7, <2>1, <2>4
    <3> QED
      BY <1>4, <2>2, <3>1
  <2> QED
    BY <2>3, <2>4
<1> QED
  BY <1>6, <1>7

LEMMA JoinedFree ==
  ASSUME NEW C, NEW a \in Seq(C), NEW b \in Seq(C), NEW c, ~Has(a, c), ~Has(b, c)
  PROVE  a \o b \in Seq(C) /\ ~Has(a \o b, c)
<1> DEFINE x == a \o b
<1>1. /\ x \in Seq(C) /\ Len(x) = Len(a) + Len(b)
      /\ \A i \in 1..Len(a) : x[i] = a[i]
      /\ \A i \in 1..Len(b) : x[Len(a) + i] = b[i]
  BY JoinedCells
<1>2. \A i \in 1..Len(a) : a[i] # c
  BY DEF Has
<1>3. \A i \in 1..Len(b) : b[i] # c
  BY DEF Has
<1>4. Len(a) \in Nat /\ Len(b) \in Nat /\ DOMAIN x = 1..Len(x)
  BY <1>1
<1> HIDE DEF x
<1>5. ASSUME NEW i \in DOMAIN x
      PROVE  x[i] # c
  <2>1. i \in 1..(Len(a) + Len(b))
    BY <1>1, <1>4
  <2>2. i \in 1..Len(a) \/ (i - Len(a) \in 1..Len(b) /\ Len(a) + (i - Len(a)) = i)
    BY <1>4, <2>1
  <2> QED
    BY <1>1, <1>2, <1>3, <2>2
<1> QED
  BY <1>1, <1>5 DEF Has, x

LEMMA MarkedAway ==
  ASSUME NEW C, NEW mark \in C, NEW a \in Seq(C), NEW c, mark # c, ~Has(a, c)
  PROVE  Marked(mark, a) \in Seq(C) /\ ~Has(Marked(mark, a), c)
<1>1. CASE a = <<>>
  BY <1>1 DEF Marked
<1>2. CASE a # <<>>
  <2> DEFINE m == <<mark>>
  <2>1. m \in Seq(C) /\ ~Has(m, c)
    BY DEF Has
  <2> HIDE DEF m
  <2>2. m \o a \in Seq(C) /\ ~Has(m \o a, c)
    BY <2>1, JoinedFree
  <2> QED
    BY <1>2, <2>2 DEF Marked, m
<1> QED
  BY <1>1, <1>2

(* No part of a hierarchy holds a "?". *)
NoQuery(p) ==
  /\ ~Has(p.username, "?") /\ ~Has(p.password, "?") /\ ~Has(p.host, "?")
  /\ ~Has(p.port, "?") /\ ~Has(p.path, "?")

LEMMA HierarchyFree ==
  ASSUME NEW p, IsHierarchy(p), NoQuery(p)
  PROVE  HierarchyText(p) \in Seq(UriChar) /\ ~Has(HierarchyText(p), "?")
<1> DEFINE a == p.username
           b == Marked(":", p.password)
           at == <<"@">>
           h == p.host
           d == Marked(":", p.port)
           e == Marked("/", p.path)
           x == a \o b
           y == x \o at
           z == y \o h
           w == z \o d
<1>1. /\ a \in Seq(UriChar) /\ p.password \in Seq(UriChar) /\ h \in Seq(UriChar)
      /\ p.port \in Seq(UriChar) /\ p.path \in Seq(UriChar)
  BY DEF IsHierarchy
<1>2. "@" \in UriChar /\ ":" \in UriChar /\ "/" \in UriChar
  BY CodecAssumption
<1>3. ~Has(a, "?") /\ ~Has(h, "?")
  BY DEF NoQuery
<1>4. b \in Seq(UriChar) /\ ~Has(b, "?")
  BY <1>1, <1>2, MarkedAway DEF NoQuery
<1>5. d \in Seq(UriChar) /\ ~Has(d, "?")
  BY <1>1, <1>2, MarkedAway DEF NoQuery
<1>6. e \in Seq(UriChar) /\ ~Has(e, "?")
  BY <1>1, <1>2, MarkedAway DEF NoQuery
<1>7. at \in Seq(UriChar) /\ ~Has(at, "?")
  BY <1>2 DEF Has
<1>8. HierarchyText(p) = w \o e
  BY DEF HierarchyText
<1> HIDE DEF a, b, at, h, d, e
<1>9. x \in Seq(UriChar) /\ ~Has(x, "?")
  BY <1>1, <1>3, <1>4, JoinedFree
<1> HIDE DEF x
<1>10. y \in Seq(UriChar) /\ ~Has(y, "?")
  BY <1>7, <1>9, JoinedFree
<1> HIDE DEF y
<1>11. z \in Seq(UriChar) /\ ~Has(z, "?")
  BY <1>1, <1>3, <1>10, JoinedFree
<1> HIDE DEF z
<1>12. w \in Seq(UriChar) /\ ~Has(w, "?")
  BY <1>5, <1>11, JoinedFree
<1> HIDE DEF w
<1> QED
  BY <1>6, <1>8, <1>12, JoinedFree

IsUri(u) == u \in [ends : [scheme : UriTexts, params : Seq(UriTexts \X UriTexts)],
                   parts : [username : UriTexts, password : UriTexts, host : UriTexts, port : UriTexts, path : UriTexts]]

SchemePart(u) == IF u.ends.scheme = <<>> THEN <<>> ELSE u.ends.scheme \o SchemeEnd
Query(u) == Marked("?", Assignments(u.ends.params))

(* What a Uri that is not cut short consists of. *)
WholeUri(u) ==
  /\ u.ends.scheme \in Seq(UriChar)
  /\ IsHierarchy(u.parts) /\ WholeHierarchy(u.parts) /\ NoQuery(u.parts)
  /\ IsParams(u.ends.params) /\ WholeParams(u.ends.params)
  /\ SchemeEnds(IF u.ends.scheme = <<>> THEN UriText(u) ELSE u.ends.scheme) = {}

LEMMA WholeUriIs ==
  ASSUME NEW u, IsUri(u), ~CutShort(u)
  PROVE  WholeUri(u)
<1>1. u.ends.scheme \in Seq(UriChar) /\ IsHierarchy(u.parts) /\ IsParams(u.ends.params)
  BY DEF IsUri, UriTexts, IsHierarchy, IsParams
<1>2. WholeHierarchy(u.parts)
  BY DEF CutShort, WholeHierarchy
<1>3. NoQuery(u.parts)
  BY DEF CutShort, NoQuery
<1>4. WholeParams(u.ends.params)
  <2>1. DOMAIN u.ends.params = 1..Len(u.ends.params)
    BY <1>1 DEF IsParams
  <2> QED
    BY <2>1 DEF CutShort, WholeParams
<1>5. SchemeEnds(IF u.ends.scheme = <<>> THEN UriText(u) ELSE u.ends.scheme) = {}
  BY DEF CutShort
<1> QED
  BY <1>1, <1>2, <1>3, <1>4, <1>5 DEF WholeUri

LaidUri(u, t) ==
  /\ t \in Seq(UriChar)
  /\ SchemePart(u) \in Seq(UriChar) /\ Lies(t, 0, SchemePart(u))
  /\ Lies(t, Len(SchemePart(u)), HierarchyText(u.parts))
  /\ Query(u) \in Seq(UriChar) /\ Ends(t, Len(SchemePart(u)) + Len(HierarchyText(u.parts)), Query(u))

LEMMA UriLaidOut ==
  ASSUME NEW u, WholeUri(u)
  PROVE  LaidUri(u, UriText(u))
<1> DEFINE t == UriText(u)
           a == SchemePart(u)
           h == HierarchyText(u.parts)
           q == Query(u)
           x == a \o h
<1>1. a \in Seq(UriChar)
  <2>1. SchemeEnd \in Seq(UriChar)
    BY CodecAssumption DEF SchemeEnd
  <2>2. u.ends.scheme \o SchemeEnd \in Seq(UriChar)
    BY <2>1, JoinedCells DEF WholeUri
  <2> QED
    BY <2>2 DEF SchemePart
<1>2. h \in Seq(UriChar)
  BY HierarchyFree DEF WholeUri
<1>3. q \in Seq(UriChar)
  <2>1. "?" \in UriChar
    BY CodecAssumption
  <2>2. Assignments(u.ends.params) \in Seq(UriChar)
    BY AssignmentsText DEF WholeUri
  <2> QED
    BY <2>1, <2>2, MarkedText DEF Query
<1>4. t = x \o q
  BY DEF UriText, SchemePart, Query
<1> HIDE DEF a, h, q, t
<1>5. x \in Seq(UriChar) /\ Len(x) = Len(a) + Len(h) /\ 0 \in Nat
  BY <1>1, <1>2, JoinedCells
<1> HIDE DEF x
<1>6. t \in Seq(UriChar) /\ Len(x) \in Nat /\ Len(a) \in Nat /\ 0 + Len(x) = Len(x) /\ 0 + Len(a) = Len(a)
  <2>1. t \in Seq(UriChar)
    BY <1>3, <1>4, <1>5, JoinedCells
  <2> QED
    BY <1>1, <1>5, <2>1
<1>7. Lies(t, 0, x) /\ Ends(t, Len(x), q)
  <2>1. Ends(t, 0, x \o q)
    BY <1>4, <1>6, LiesItself
  <2>2. Lies(t, 0, x) /\ Ends(t, 0 + Len(x), q)
    BY <1>3, <1>5, <1>6, <2>1, EndsApart
  <2> QED
    BY <1>6, <2>2
<1>8. Lies(t, 0, a) /\ Lies(t, Len(a), h)
  <2>1. Lies(t, 0, a) /\ Lies(t, 0 + Len(a), h)
    BY <1>1, <1>2, <1>5, <1>6, <1>7, LiesApart DEF x
  <2> QED
    BY <1>6, <2>1
<1>9. Ends(t, Len(a) + Len(h), q)
  BY <1>5, <1>7
<1> QED
  BY <1>1, <1>3, <1>6, <1>8, <1>9 DEF LaidUri, a, h, q, t

(* The scheme is read, and where the hierarchy begins. *)
SchemeRead(u, t) ==
  LET marks == SchemeEnds(t)
      mark  == CHOOSE i \in marks : \A j \in marks : i <= j
  IN /\ (IF marks = {} THEN 0 ELSE mark + 3) = Len(SchemePart(u))
     /\ (IF marks = {} THEN <<>> ELSE SubSeq(t, 1, mark)) = u.ends.scheme

LEMMA SchemeIsRead ==
  ASSUME NEW u, WholeUri(u), NEW t, t = UriText(u), LaidUri(u, t)
  PROVE  SchemeRead(u, t)
<1> DEFINE s == u.ends.scheme
           marks == SchemeEnds(t)
           mark == CHOOSE i \in marks : \A j \in marks : i <= j
<1>1. s \in Seq(UriChar) /\ t \in Seq(UriChar)
  BY DEF WholeUri, LaidUri
<1>2. CASE s = <<>>
  <2>1. marks = {}
    BY <1>2 DEF WholeUri
  <2>2. Len(SchemePart(u)) = 0
    BY <1>2 DEF SchemePart
  <2> QED
    BY <1>2, <2>1, <2>2 DEF SchemeRead
<1>3. CASE s # <<>>
  <2>1. SchemeEnds(s) = {}
    BY <1>3 DEF WholeUri
  <2>2. SchemePart(u) = s \o SchemeEnd
    BY <1>3 DEF SchemePart
  <2>3. Lies(t, 0, s \o SchemeEnd)
    BY <2>2 DEF LaidUri
  <2> HIDE DEF s
  <2>4. Len(s) \in marks /\ \A i \in marks : Len(s) <= i
    BY <1>1, <2>1, <2>3, SchemeFound
  <2>5. marks # {} /\ mark \in marks /\ \A j \in marks : mark <= j
    BY <2>4
  <2>6. mark = Len(s)
    <3>1. mark <= Len(s) /\ Len(s) <= mark /\ Len(s) \in Nat
      BY <1>1, <2>4, <2>5
    <3>2. mark \in Int
      BY <2>5 DEF SchemeEnds
    <3> HIDE DEF mark
    <3> QED
      BY <3>1, <3>2
  <2>7. SubSeq(t, 1, Len(s)) = s
    <3>1. SchemeEnd \in Seq(UriChar) /\ 0 \in Nat
      BY CodecAssumption DEF SchemeEnd
    <3>2. Lies(t, 0, s)
      BY <1>1, <2>3, <3>1, LiesApart
    <3>3. SubSeq(t, 0 + 1, 0 + Len(s)) = s
      BY <1>1, <3>1, <3>2, LiesPart
    <3>4. 0 + 1 = 1 /\ 0 + Len(s) = Len(s)
      BY <1>1
    <3> QED
      BY <3>3, <3>4
  <2>8. Len(SchemePart(u)) = Len(s) + 3
    <3>1. SchemeEnd \in Seq(UriChar) /\ Len(SchemeEnd) = 3
      BY CodecAssumption DEF SchemeEnd
    <3>2. \A x, y \in Seq(UriChar) : Len(x \o y) = Len(x) + Len(y)
      BY JoinedCells
    <3>3. Len(s \o SchemeEnd) = Len(s) + Len(SchemeEnd)
      BY <1>1, <3>1, <3>2, Zenon
    <3> QED
      BY <2>2, <3>1, <3>3
  <2> HIDE DEF marks, mark
  <2>9. (IF marks = {} THEN 0 ELSE mark + 3) = Len(SchemePart(u)) /\ (IF marks = {} THEN <<>> ELSE SubSeq(t, 1, mark)) = s
    BY <2>5, <2>6, <2>7, <2>8
  <2> QED
    BY <2>9 DEF SchemeRead, marks, mark, s
<1> QED
  BY <1>2, <1>3

(* The hierarchy ends at the "?", and the parameters follow it. *)
QueryRead(u, t, begin) ==
  LET query == IndexFrom(t, "?", begin)
  IN /\ Part(t, begin, query) = HierarchyText(u.parts)
     /\ (IF query = none THEN <<>> ELSE ParsedParams(t, query + 1)) = u.ends.params

LEMMA QueryIsRead ==
  ASSUME NEW u, WholeUri(u), NEW t, LaidUri(u, t)
  PROVE  QueryRead(u, t, Len(SchemePart(u)))
<1> DEFINE b == Len(SchemePart(u))
           h == HierarchyText(u.parts)
           q == u.ends.params
           a == Assignments(q)
           m == Query(u)
           query == IndexFrom(t, "?", b)
<1>1. /\ t \in Seq(UriChar) /\ b \in Nat /\ Lies(t, b, h) /\ Ends(t, b + Len(h), m) /\ m = Marked("?", a)
      /\ "?" \in UriChar /\ Len(t) \in Nat
  <2>1. t \in Seq(UriChar) /\ b \in Nat /\ Lies(t, b, h) /\ Ends(t, b + Len(h), m)
    BY DEF LaidUri
  <2>2. "?" \in UriChar
    BY CodecAssumption
  <2> QED
    BY <2>1, <2>2 DEF Query
<1>2. h \in Seq(UriChar) /\ ~Has(h, "?")
  BY HierarchyFree DEF WholeUri
<1>3. IsParams(q) /\ WholeParams(q) /\ a \in Seq(UriChar) /\ (a = <<>> <=> q = <<>>)
  BY AssignmentsText DEF WholeUri
<1> HIDE DEF b, h, q, a, m
<1>4. Len(h) \in Nat /\ b + Len(h) \in Nat /\ b <= b + Len(h)
  BY <1>1, <1>2
<1>5. Free(t, b, b + Len(h), "?")
  BY <1>1, <1>2, FreeWhere
<1>6. Part(t, b, b + Len(h)) = h
  BY <1>1, <1>2, PartLies
<1>7. MarkedAt(t, b + Len(h), "?", a)
  <2>1. Lies(t, b + Len(h), Marked("?", a))
    BY <1>1 DEF Ends
  <2> QED
    BY <1>1, <1>3, <1>4, <2>1, MarkedLies
<1>8. CASE q = <<>>
  <2>1. Len(m) = 0
    BY <1>1, <1>3, <1>7, <1>8 DEF MarkedAt
  <2>2. b + Len(h) = Len(t)
    <3>1. (b + Len(h)) + Len(m) = Len(t)
      BY <1>1 DEF Ends
    <3> QED
      BY <1>4, <2>1, <3>1
  <2>3. query = none
    BY <1>1, <1>5, <2>2, IndexNone
  <2>4. Part(t, b, none) = h
    <3>1. Ends(t, b, h)
      BY <1>1, <2>2 DEF Ends
    <3> QED
      BY <1>1, <1>2, <3>1, PartEnds
  <2> QED
    BY <1>8, <2>3, <2>4 DEF QueryRead, b, h, q
<1>9. CASE q # <<>>
  <2>1. /\ Len(m) = 1 + Len(a) /\ (b + Len(h)) + 1 <= Len(t) /\ t[(b + Len(h)) + 1] = "?"
        /\ Lies(t, (b + Len(h)) + 1, a)
    BY <1>1, <1>3, <1>7, <1>9 DEF MarkedAt
  <2>2. query = b + Len(h)
    BY <1>1, <1>4, <1>5, <2>1, IndexAt
  <2>3. Ends(t, (b + Len(h)) + 1, a)
    <3>1. (b + Len(h)) + Len(m) = Len(t)
      BY <1>1 DEF Ends
    <3>2. \A x, y \in Nat : x + (1 + y) = (x + 1) + y
      OBVIOUS
    <3>3. Len(a) \in Nat
      BY <1>3
    <3>4. (b + Len(h)) + (1 + Len(a)) = ((b + Len(h)) + 1) + Len(a)
      BY <1>4, <3>2, <3>3, Zenon
    <3>5. ((b + Len(h)) + 1) + Len(a) = Len(t)
      BY <2>1, <3>1, <3>4
    <3> QED
      BY <2>1, <3>5 DEF Ends
  <2>4. (b + Len(h)) + 1 \in Nat
    BY <1>4
  <2>5. ParsedParams(t, (b + Len(h)) + 1) = q
    BY <1>1, <1>3, <2>3, <2>4, ParamsReadBack DEF a
  <2>6. b + Len(h) # none
    BY <1>4 DEF none
  <2> HIDE DEF query
  <2>7. Part(t, b, query) = h /\ (IF query = none THEN <<>> ELSE ParsedParams(t, query + 1)) = q
    BY <1>6, <2>2, <2>5, <2>6
  <2> QED
    BY <2>7 DEF QueryRead, b, h, q, query
<1> QED
  BY <1>8, <1>9

(* A printed Uri that is not cut short is parsed into the same parts. *)
LEMMA UriReadsBack ==
  ASSUME NEW u, IsUri(u), ~CutShort(u)
  PROVE  ParsedUri(UriText(u)) = u
<1> DEFINE t == UriText(u)
           marks == SchemeEnds(t)
           mark  == CHOOSE i \in marks : \A j \in marks : i <= j
           begin == IF marks = {} THEN 0 ELSE mark + 3
           query == IndexFrom(t, "?", begin)
           scheme == IF marks = {} THEN <<>> ELSE SubSeq(t, 1, mark)
           params == IF query = none THEN <<>> ELSE ParsedParams(t, query + 1)
           parts == ParsedHierarchy(Part(t, begin, query))
<1>1. WholeUri(u)
  BY WholeUriIs
<1>2. LaidUri(u, t)
  BY <1>1, UriLaidOut
<1>3. SchemeRead(u, t)
  BY <1>1, <1>2, SchemeIsRead
<1>4. begin = Len(SchemePart(u)) /\ scheme = u.ends.scheme
  BY <1>3 DEF SchemeRead
<1>5. QueryRead(u, t, begin)
  BY <1>1, <1>2, <1>4, QueryIsRead
<1>6. Part(t, begin, query) = HierarchyText(u.parts) /\ params = u.ends.params
  BY <1>5 DEF QueryRead
<1>7. parts = u.parts
  BY <1>1, <1>6, HierarchyReadsBack DEF WholeUri
<1>8. ParsedUri(t) = [ends |-> [scheme |-> scheme, params |-> params], parts |-> parts]
  BY DEF ParsedUri
<1> HIDE DEF t, scheme, params, parts
<1>9. u = [ends |-> [scheme |-> u.ends.scheme, params |-> u.ends.params], parts |-> u.parts]
  BY DEF IsUri
<1> QED
  BY <1>4, <1>6, <1>7, <1>8, <1>9 DEF t

-----------------------------------------------------------------------------
(* The conversions of Codecs. *)

(* Every text the conversions begin with is a sequence. *)
LEMMA ByteRange == MaxCoded \in Nat /\ \A c \in Byte : c \in 1..255
<1>1. MaxCoded \in Nat /\ Byte \subseteq 1..255
  BY CodecAssumption
<1> QED
  BY <1>1

LEMMA CodecTexts ==
  ASSUME NEW S, NEW t \in TextsOver(S)
  PROVE  t \in Seq(S)
<1>1. PICK n \in 0..MaxCoded : t \in [1..n -> S]
  BY DEF TextsOver
<1>2. n \in Nat
  BY <1>1, ByteRange
<1> QED
  BY <1>1, <1>2, SeqDef

LEMMA CodecsBegin == CodecInit => CodecIInv
<1> SUFFICES ASSUME CodecInit PROVE CodecIInv
  OBVIOUS
<1>1. ASSUME NEW t \in TextsOver(Byte), codec = [form |-> "bytes", data |-> t, origin |-> t]
      PROVE  CodecIInv
  <2>1. t \in Seq(Byte)
    BY CodecTexts
  <2> QED
    BY <1>1, <2>1 DEF CodecIInv, CodecKeeps, CodecRoundTrip, Starts, CodecStart, CodecForms
<1>2. ASSUME NEW t \in TextsOver(CodePoint \cup {BadByte}), codec = [form |-> "utf8", data |-> t, origin |-> t]
      PROVE  CodecIInv
  <2>1. t \in Seq(CodePoint \cup {BadByte})
    BY CodecTexts
  <2> QED
    BY <1>2, <2>1 DEF CodecIInv, CodecKeeps, CodecRoundTrip, Starts, CodecStart, CodecForms
<1>3. ASSUME NEW u \in [ends : UriEnds, parts : UriParts], codec = [form |-> "uri", data |-> u, origin |-> u]
      PROVE  CodecIInv
  BY <1>3 DEF CodecIInv, CodecKeeps, CodecRoundTrip, Starts, CodecStart, CodecForms
<1> QED
  BY <1>1, <1>2, <1>3 DEF CodecInit

(* What a conversion leads to: the form and the text it names. *)
LEMMA Converted ==
  ASSUME NEW from \in CodecForms, NEW to \in CodecForms \ {"bytes", "utf8", "uri"}, NEW result, CodecKeeps,
         Convert(from, to, result), CodecStart(to) = CodecStart(from),
         to = "encoded" => result = UrlEncoded(codec.origin),
         to = "utf16" => CastRestored(codec.origin, result),
         to = "printed" => result = UriText(codec.origin),
         to = "decoded" => UrlRestored(codec.origin, result),
         to = "narrow" => CastRestored(codec.origin, result),
         to = "parsed" => UriRestored(codec.origin, result)
  PROVE  CodecIInv'
<1>1. codec' = [form |-> to, data |-> result, origin |-> codec.origin] /\ codec.form = from
  BY DEF Convert, CodecKeeps
<1>2. codec.origin \in Starts[CodecStart(to)]
  BY <1>1 DEF CodecKeeps
<1>3. to \notin DOMAIN Starts
  BY DEF Starts
<1>4. codec'.form = to /\ codec'.data = result /\ codec'.origin = codec.origin
  BY <1>1
<1>5. CodecRoundTrip'
  BY <1>4 DEF CodecRoundTrip
<1>6. CodecKeeps'
  BY <1>1, <1>2, <1>3, <1>4 DEF CodecKeeps
<1> QED
  BY <1>5, <1>6 DEF CodecIInv

(* A text of ASCII characters, none of them null. *)
LEMMA AsciiText ==
  ASSUME NEW t \in Seq(Byte), Ascii(t)
  PROVE  t \in Seq(1..127)
<1> DEFINE T == 1..127
           n == Len(t)
<1>1. n \in Nat /\ DOMAIN t = 1..n /\ t = [i \in 1..n |-> t[i]] /\ \A i \in 1..n : t[i] \in Byte
  OBVIOUS
<1>2. \A i \in 1..n : t[i] < 128
  BY <1>1 DEF Ascii
<1> HIDE DEF T, n
<1>3. \A i \in 1..n : t[i] \in T
  <2>1. \A x \in Byte : x < 128 => x \in T
    <3> TAKE x \in Byte
    <3> HAVE x < 128
    <3>1. x \in 1..255
      BY ByteRange
    <3>2. x \in Nat /\ 1 <= x /\ x < 128
      BY <3>1
    <3> QED
      BY <3>2 DEF T
  <2> QED
    BY <1>1, <1>2, <2>1
<1>4. t \in [1..n -> T]
  BY <1>1, <1>3
<1>5. t \in Seq(T)
  BY <1>1, <1>4, SeqDef
<1> QED
  BY <1>5 DEF T

LEMMA CodecsStep == CodecIInv /\ [CodecNext]_codec => CodecIInv'
<1> SUFFICES ASSUME CodecIInv, [CodecNext]_codec PROVE CodecIInv'
  OBVIOUS
<1> DEFINE origin == codec.origin
<1>1. CodecKeeps
  BY DEF CodecIInv
<1>2. CASE UrlEncode
  <2>1. codec.data = origin
    BY <1>1, <1>2 DEF CodecKeeps, Starts, UrlEncode, Convert
  <2>2. Convert("bytes", "encoded", UrlEncoded(codec.data)) /\ CodecStart("encoded") = CodecStart("bytes")
    BY <1>2 DEF UrlEncode, CodecStart
  <2> QED
    BY <1>1, <2>1, <2>2, Converted DEF CodecForms
<1>3. CASE UrlDecode
  <2>1. Convert("encoded", "decoded", UrlDecoded(codec.data)) /\ CodecStart("encoded") = CodecStart("decoded")
    BY <1>3 DEF UrlDecode, CodecStart
  <2>2. codec.data = UrlEncoded(origin) /\ origin \in Seq(Byte)
    BY <1>1, <2>1 DEF CodecKeeps, Starts, CodecStart, Convert
  <2>3. UrlRestored(origin, UrlDecoded(codec.data))
    <3>1. ASSUME Ascii(origin)
          PROVE  UrlDecoded(codec.data) = origin
      BY <2>2, <3>1, AsciiText, UrlReadsBack
    <3> QED
      BY <3>1 DEF UrlRestored
  <2> QED
    BY <1>1, <2>1, <2>3, Converted DEF CodecForms
<1>4. CASE ToWide
  <2>1. Convert("utf8", "utf16", StringCast(codec.data, Utf8, Utf16)) /\ CodecStart("utf16") = CodecStart("utf8")
    BY <1>4 DEF ToWide, CodecStart
  <2>2. codec.data = origin /\ origin \in Seq(Characters)
    BY <1>1, <2>1 DEF CodecKeeps, Starts, CodecStart, Convert, Characters
  <2>3. CastRestored(origin, StringCast(codec.data, Utf8, Utf16))
    BY <2>2, StringCastIs DEF CastRestored, Encodings
  <2> QED
    BY <1>1, <2>1, <2>3, Converted DEF CodecForms
<1>5. CASE ToNarrow
  <2>1. Convert("utf16", "narrow", StringCast(codec.data, Utf16, Utf8)) /\ CodecStart("utf16") = CodecStart("narrow")
    BY <1>5 DEF ToNarrow, CodecStart
  <2>2. codec.data = SubSeq(origin, 1, ValidPart(origin)) /\ origin \in Seq(Characters)
    BY <1>1, <2>1 DEF CodecKeeps, Starts, CodecStart, Convert, Characters, CastRestored
  <2> DEFINE v == codec.data
  <2>3. v \in Seq(Characters) /\ SubSeq(v, 1, ValidPart(v)) = v
    BY <2>2, ValidPartValid
  <2>4. StringCast(v, Utf16, Utf8) = v
    BY <2>3, StringCastIs DEF Encodings
  <2>5. CastRestored(origin, StringCast(codec.data, Utf16, Utf8))
    BY <2>2, <2>4 DEF CastRestored
  <2> QED
    BY <1>1, <2>1, <2>5, Converted DEF CodecForms
<1>6. CASE PrintUri
  <2>1. codec.data = origin
    BY <1>1, <1>6 DEF CodecKeeps, Starts, PrintUri, Convert
  <2>2. Convert("uri", "printed", UriText(codec.data)) /\ CodecStart("uri") = CodecStart("printed")
    BY <1>6 DEF PrintUri, CodecStart
  <2> QED
    BY <1>1, <2>1, <2>2, Converted DEF CodecForms
<1>7. CASE ParseUri
  <2>1. Convert("printed", "parsed", ParsedUri(codec.data)) /\ CodecStart("parsed") = CodecStart("printed")
    BY <1>7 DEF ParseUri, CodecStart
  <2>2. codec.data = UriText(origin) /\ origin \in [ends : UriEnds, parts : UriParts]
    BY <1>1, <2>1 DEF CodecKeeps, Starts, CodecStart, Convert
  <2>3. IsUri(origin)
    BY <2>2, CodecAssumption DEF IsUri, UriParts, UriTexts
  <2>4. UriRestored(origin, ParsedUri(codec.data))
    BY <2>2, <2>3, UriReadsBack DEF UriRestored
  <2> QED
    BY <1>1, <2>1, <2>4, Converted DEF CodecForms
<1>8. CASE UNCHANGED codec
  BY <1>8 DEF CodecIInv, CodecKeeps, CodecRoundTrip
<1> QED
  BY <1>2, <1>3, <1>4, <1>5, <1>6, <1>7, <1>8 DEF CodecNext

(* urlencode, string_cast and Uri::toString are undone by urldecode,       *)
(* string_cast and the parser of Uris, up to the exceptions that           *)
(* UrlRestored, CastRestored and UriRestored name; with what a conversion  *)
(* keeps of its origin, that is inductive.                                 *)
THEOREM CodecInvariant == CodecSpec => []CodecIInv
<1> QED
  BY CodecsBegin, CodecsStep, PTL DEF CodecSpec

(* Whatever is converted and converted back is what it was.                *)
THEOREM CodecsRestore == CodecSpec => []CodecRoundTrip
<1>1. CodecIInv => CodecRoundTrip
  BY DEF CodecIInv
<1> QED
  BY <1>1, CodecInvariant, PTL
=============================================================================
