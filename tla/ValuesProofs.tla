----------------------------- MODULE ValuesProofs -----------------------------
(***************************************************************************)
(* Proofs about the values that programs keep in tables: the buffer under  *)
(* arrays and strings, the array, the stream over a string, and the        *)
(* calendar; for any elements, characters, years and arguments.            *)
(***************************************************************************)
EXTENDS Arrays, StringStreams, DateTimes, SequenceTheorems, TLAPS

-----------------------------------------------------------------------------
(* Buffers. *)

(* Buffer b is buffer a with other cells and, perhaps, another size.       *)
SameKind(b, a) ==
  /\ DOMAIN b = DOMAIN a /\ b.pod = a.pod
  /\ \A f \in DOMAIN a \ {"cells", "size"} : b[f] = a[f]

(* The first n cells of b are those of a. *)
Keeps(b, a, n) == \A i \in 1..n : b.cells[i] = a.cells[i]

(* Cells that a buffer of a class type gets are default constructed. *)
Fills(b, from, to) == \A i \in (from + 1)..to : b.cells[i] = Blank

Reallocated(b, a, n, known, S) ==
  /\ SameKind(b, a) /\ b.size = a.size
  /\ b.cells \in Seq(S) /\ Len(b.cells) = n
  /\ \A i \in 1..n : i <= known => b.cells[i] = a.cells[i]
  /\ a.pod => \A i \in 1..n : i <= Len(a.cells) => b.cells[i] = a.cells[i]
  /\ ~a.pod => Fills(b, known, n)

(* What reallocCb leaves in the cells. *)
LEMMA ReallocateCells ==
  ASSUME NEW S, NEW a, IsBuffer(a, S), Blank \in S, Junk \in S, NEW n \in Nat,
         NEW known, known \in Nat, known <= Len(a.cells)
  PROVE  Reallocated(Reallocate(a, n, known), a, n, known, S)
<1> DEFINE kept == IF a.pod THEN Len(a.cells) ELSE known
           cell(i) == IF i <= kept THEN a.cells[i] ELSE FreshCells(a.pod)
           b == Reallocate(a, n, known)
<1>1. b = [a EXCEPT !.cells = [i \in 1..n |-> cell(i)]]
  BY DEF Reallocate
<1>2. \A i \in 1..n : cell(i) \in S
  <2>1. kept \in 0..Len(a.cells)
    BY DEF IsBuffer
  <2>2. FreshCells(a.pod) \in S
    BY DEF FreshCells
  <2> HIDE DEF kept
  <2>3. QED BY <2>1, <2>2 DEF IsBuffer
<1> HIDE DEF cell
<1>3. [i \in 1..n |-> cell(i)] \in Seq(S) /\ Len([i \in 1..n |-> cell(i)]) = n
  BY <1>2
<1>4. /\ DOMAIN b = DOMAIN a
      /\ b.cells = [i \in 1..n |-> cell(i)]
      /\ \A f \in DOMAIN a \ {"cells"} : b[f] = a[f]
      /\ b.pod = a.pod /\ b.size = a.size
  BY <1>1 DEF IsBuffer
<1>5. \A i \in 1..n : b.cells[i] = cell(i)
  BY <1>4
<1> HIDE DEF b
<1>6. a.pod => \A i \in 1..n : i <= Len(a.cells) => b.cells[i] = a.cells[i]
  BY <1>5 DEF cell
<1>7. \A i \in 1..n : i <= known => b.cells[i] = a.cells[i]
  BY <1>5 DEF cell, IsBuffer
<1>8. ~a.pod => Fills(b, known, n)
  BY <1>5 DEF cell, FreshCells, Fills
<1>9. Reallocated(b, a, n, known, S)
  BY <1>3, <1>4, <1>6, <1>7, <1>8 DEF Reallocated, SameKind
<1>10. QED BY <1>9 DEF b

(* What a buffer of n cells in place of a holds: the elements in use, and  *)
(* a POD one all the cells there were.                                     *)
Grown(b, a, n, S) ==
  /\ SameKind(b, a) /\ IsBuffer(b, S)
  /\ Len(b.cells) >= n /\ Len(b.cells) >= Len(a.cells)
  /\ Keeps(b, a, a.size)
  /\ n <= Len(a.cells) => b.cells = a.cells
  /\ a.pod => Keeps(b, a, Len(a.cells))
  /\ ~a.pod /\ Len(a.cells) < n => Fills(b, a.size, n)

(* A buffer that grows keeps the elements in use, a POD one all its cells. *)
LEMMA ReserveCells ==
  ASSUME NEW S, NEW a, IsBuffer(a, S), Blank \in S, Junk \in S, NEW n \in Nat
  PROVE  Grown(BufferReserve(a, n), a, n, S) /\ BufferReserve(a, n).size = a.size
<1>0. a.size \in Nat /\ a.size <= Len(a.cells) /\ Len(a.cells) \in Nat
  BY DEF IsBuffer
<1>1. CASE Len(a.cells) < n
  <2> DEFINE b == Reallocate(a, n, a.size)
  <2>1. BufferReserve(a, n) = b
    BY <1>1 DEF BufferReserve, IsBuffer
  <2>2. Reallocated(b, a, n, a.size, S)
    BY <1>0, ReallocateCells
  <2> HIDE DEF b
  <2>3. IsBuffer(b, S)
    BY <1>1, <1>0, <2>2 DEF Reallocated, IsBuffer, SameKind
  <2>4. Keeps(b, a, a.size) /\ (a.pod => Keeps(b, a, Len(a.cells)))
    BY <1>1, <1>0, <2>2 DEF Reallocated, Keeps
  <2>5. QED BY <1>0, <1>1, <2>1, <2>2, <2>3, <2>4 DEF Grown, Reallocated
<1>2. CASE ~(Len(a.cells) < n)
  BY <1>0, <1>2 DEF BufferReserve, IsBuffer, Grown, SameKind, Keeps
<1>3. QED BY <1>1, <1>2

(* Resizing keeps the elements that stay in use; cells that come into use  *)
(* are new only where the buffer has grown.                                *)
LEMMA ResizeCells ==
  ASSUME NEW S, NEW a, IsBuffer(a, S), Blank \in S, Junk \in S, NEW n \in Nat
  PROVE  Grown(BufferResize(a, n), a, n, S) /\ BufferResize(a, n).size = n
<1> DEFINE grown == Len(a.cells) + (Len(a.cells) * 3) \div 2
           most  == IF grown < n THEN n ELSE grown
           room  == BufferReserve(a, most)
           b     == BufferResize(a, n)
<1>1. a.size \in Nat /\ a.size <= Len(a.cells) /\ Len(a.cells) \in Nat
  BY DEF IsBuffer
<1>2. most \in Nat /\ n <= most
  <2>1. \A k \in Nat : k + (k * 3) \div 2 \in Nat
    OBVIOUS
  <2>2. grown \in Nat
    BY <1>1, <2>1
  <2> HIDE DEF grown
  <2>3. QED BY <2>2
<1>3. CASE n <= Len(a.cells)
  <2>1. b = [a EXCEPT !.size = n]
    BY <1>3 DEF BufferResize
  <2> HIDE DEF b
  <2>2. b.cells = a.cells /\ b.size = n /\ SameKind(b, a)
    BY <2>1 DEF IsBuffer, SameKind
  <2>3. IsBuffer(b, S)
    BY <1>1, <1>3, <2>2 DEF IsBuffer, SameKind
  <2>4. QED BY <1>1, <1>3, <2>2, <2>3 DEF Grown, Keeps, b
<1>4. CASE ~(n <= Len(a.cells))
  <2>1. b = [room EXCEPT !.size = n]
    BY <1>4 DEF BufferResize
  <2> HIDE DEF most
  <2>2. Grown(room, a, most, S)
    BY <1>2, ReserveCells
  <2> HIDE DEF room, b
  <2>3. b.cells = room.cells /\ b.size = n /\ SameKind(b, a)
    BY <2>1, <2>2 DEF Grown, IsBuffer, SameKind
  <2>4. Len(b.cells) \in Nat /\ Len(b.cells) >= n /\ Len(b.cells) >= Len(a.cells)
    BY <1>1, <1>2, <2>2, <2>3 DEF Grown, IsBuffer
  <2>5. IsBuffer(b, S)
    BY <1>1, <2>2, <2>3, <2>4 DEF Grown, IsBuffer, SameKind
  <2>6. Keeps(b, a, a.size) /\ (a.pod => Keeps(b, a, Len(a.cells)))
    BY <2>2, <2>3 DEF Grown, Keeps
  <2>7. ~a.pod => Fills(b, a.size, n)
    BY <1>1, <1>2, <1>4, <2>2, <2>3 DEF Grown, Fills
  <2>8. Grown(b, a, n, S)
    BY <1>4, <2>3, <2>4, <2>5, <2>6, <2>7 DEF Grown
  <2>9. QED BY <2>3, <2>8 DEF b
<1>5. QED BY <1>3, <1>4

(* The elements in use. *)
LEMMA ContentsSeq ==
  ASSUME NEW S, NEW a, IsBuffer(a, S)
  PROVE  /\ Contents(a) \in Seq(S) /\ Len(Contents(a)) = a.size
         /\ \A i \in 1..a.size : Contents(a)[i] = a.cells[i]
BY DEF Contents, IsBuffer

(* Two well-formed buffers hold the same when their cells in use agree.    *)
LEMMA SameContents ==
  ASSUME NEW S, NEW a, IsBuffer(a, S), NEW s \in Seq(S), Len(s) = a.size,
         \A i \in 1..a.size : a.cells[i] = s[i]
  PROVE  Contents(a) = s
BY ContentsSeq, SeqEqual

(* A well-formed buffer of values in S that holds the sequence s. *)
Holds(b, s, S) == IsBuffer(b, S) /\ Contents(b) = s

(* Cells in place of the elements of s. *)
LEMMA HoldsCells ==
  ASSUME NEW S, NEW b, IsBuffer(b, S), NEW s \in Seq(S), Len(s) = b.size,
         \A i \in 1..Len(s) : b.cells[i] = s[i]
  PROVE  Holds(b, s, S)
BY SameContents DEF Holds

(* A buffer that is made from a sequence holds it. *)
LEMMA BufferOfHolds ==
  ASSUME NEW S, NEW s \in Seq(S), NEW pod \in BOOLEAN
  PROVE  Holds(BufferOf(pod, s), s, S) /\ BufferOf(pod, s).pod = pod
<1> DEFINE b == BufferOf(pod, s)
<1>1. b.pod = pod /\ b.cells = s /\ b.size = Len(s)
      /\ {"pod", "cells", "size"} \subseteq DOMAIN b
  BY DEF BufferOf
<1> HIDE DEF b
<1>2. IsBuffer(b, S)
  BY <1>1 DEF IsBuffer
<1>3. Holds(b, s, S)
  BY <1>1, <1>2, HoldsCells
<1>4. QED BY <1>1, <1>3 DEF b

(* Reserving, squeezing and shrinking keep what stays in use. *)
LEMMA ReserveHolds ==
  ASSUME NEW S, NEW a, IsBuffer(a, S), Blank \in S, Junk \in S, NEW n \in Nat
  PROVE  Holds(BufferReserve(a, n), Contents(a), S)
<1> DEFINE b == BufferReserve(a, n)
<1>1. Grown(b, a, n, S) /\ b.size = a.size
  BY ReserveCells
<1> HIDE DEF b
<1>2. Contents(a) \in Seq(S) /\ Len(Contents(a)) = a.size
      /\ \A i \in 1..a.size : Contents(a)[i] = a.cells[i]
  BY ContentsSeq
<1>3. \A i \in 1..Len(Contents(a)) : b.cells[i] = Contents(a)[i]
  BY <1>1, <1>2 DEF Grown, Keeps
<1>4. Holds(b, Contents(a), S)
  BY <1>1, <1>2, <1>3, HoldsCells DEF Grown
<1>5. QED BY <1>4 DEF b

LEMMA SqueezeHolds ==
  ASSUME NEW S, NEW a, IsBuffer(a, S), Blank \in S, Junk \in S
  PROVE  Holds(BufferSqueeze(a), Contents(a), S)
<1> DEFINE b == Reallocate(a, a.size, Len(a.cells))
<1>1. a.size \in Nat /\ a.size <= Len(a.cells) /\ Len(a.cells) \in Nat
  BY DEF IsBuffer
<1>2. Contents(a) \in Seq(S) /\ Len(Contents(a)) = a.size
      /\ \A i \in 1..a.size : Contents(a)[i] = a.cells[i]
  BY ContentsSeq
<1>3. CASE Len(a.cells) = a.size
  BY <1>3 DEF BufferSqueeze, Holds
<1>4. CASE Len(a.cells) # a.size
  <2>1. BufferSqueeze(a) = b
    BY <1>4 DEF BufferSqueeze
  <2>2. Reallocated(b, a, a.size, Len(a.cells), S)
    <3>1. Len(a.cells) \in Nat /\ Len(a.cells) <= Len(a.cells)
      BY <1>1
    <3>2. QED BY <1>1, <3>1, ReallocateCells
  <2> HIDE DEF b
  <2>3. IsBuffer(b, S)
    BY <1>1, <2>2 DEF Reallocated, IsBuffer, SameKind
  <2>4. b.size = a.size /\ \A i \in 1..Len(Contents(a)) : b.cells[i] = Contents(a)[i]
    BY <1>1, <1>2, <2>2 DEF Reallocated
  <2>5. Holds(b, Contents(a), S)
    BY <1>2, <2>3, <2>4, HoldsCells
  <2>6. QED BY <2>1, <2>5
<1>5. QED BY <1>3, <1>4

LEMMA ShrinkHolds ==
  ASSUME NEW S, NEW a, IsBuffer(a, S), Blank \in S, Junk \in S, NEW n \in Nat, n <= a.size
  PROVE  Holds(BufferResize(a, n), SubSeq(Contents(a), 1, n), S)
<1> DEFINE b == BufferResize(a, n)
           s == SubSeq(Contents(a), 1, n)
<1>1. Grown(b, a, n, S) /\ b.size = n
  BY ResizeCells
<1>2. Contents(a) \in Seq(S) /\ Len(Contents(a)) = a.size /\ a.size \in Nat
      /\ \A i \in 1..a.size : Contents(a)[i] = a.cells[i]
  BY ContentsSeq DEF IsBuffer
<1> HIDE DEF b
<1>3. s \in Seq(S) /\ Len(s) = n /\ \A i \in 1..n : s[i] = a.cells[i]
  BY <1>2
<1> HIDE DEF s
<1>4. \A i \in 1..Len(s) : b.cells[i] = s[i]
  BY <1>1, <1>2, <1>3 DEF Grown, Keeps
<1>5. Holds(b, s, S)
  BY <1>1, <1>3, <1>4, HoldsCells DEF Grown
<1>6. QED BY <1>5 DEF b, s

(* push_back writes into the cell that resizing has brought into use.      *)
LEMMA PushBackHolds ==
  ASSUME NEW S, NEW a, IsBuffer(a, S), Blank \in S, Junk \in S, NEW v \in S
  PROVE  Holds(PushBack(a, v), Append(Contents(a), v), S)
<1> DEFINE n == a.size + 1
           b == BufferResize(a, n)
           c == PushBack(a, v)
           s == Append(Contents(a), v)
<1>1. n \in Nat /\ a.size \in Nat
  BY DEF IsBuffer
<1>2. Grown(b, a, n, S) /\ b.size = n
  BY <1>1, ResizeCells
<1>3. c = [b EXCEPT !.cells[b.size] = v]
  BY DEF PushBack
<1>4. s \in Seq(S) /\ Len(s) = n /\ (\A i \in 1..a.size : s[i] = a.cells[i]) /\ s[n] = v
  BY ContentsSeq, <1>1
<1> HIDE DEF b, c, s
<1>5. b.cells \in Seq(S) /\ n \in 1..Len(b.cells)
      /\ {"pod", "cells", "size"} \subseteq DOMAIN b /\ b.pod \in BOOLEAN
  BY <1>1, <1>2 DEF Grown, IsBuffer
<1> HIDE DEF n
<1>6. c.cells = [b.cells EXCEPT ![n] = v] /\ c.size = n /\ c.pod = b.pod /\ DOMAIN c = DOMAIN b
  BY <1>2, <1>3, <1>5
<1>7. c.cells \in Seq(S) /\ Len(c.cells) = Len(b.cells)
      /\ \A i \in 1..Len(b.cells) : c.cells[i] = IF i = n THEN v ELSE b.cells[i]
  BY <1>5, <1>6
<1>8. IsBuffer(c, S)
  BY <1>1, <1>5, <1>6, <1>7 DEF IsBuffer
<1>9. \A i \in 1..Len(s) : c.cells[i] = s[i]
  <2> SUFFICES ASSUME NEW i \in 1..n PROVE c.cells[i] = s[i]
    BY <1>4
  <2>1. i \in 1..Len(b.cells)
    BY <1>1, <1>5
  <2>2. CASE i = n
    BY <1>4, <1>7, <2>1, <2>2
  <2>3. CASE i # n
    BY <1>1, <1>2, <1>4, <1>7, <2>1, <2>3 DEF n, Grown, Keeps
  <2>4. QED BY <2>2, <2>3
<1>10. Holds(c, s, S)
  BY <1>4, <1>6, <1>8, <1>9, HoldsCells
<1>11. QED BY <1>10 DEF c, s

(* Buffer b is a with n cells copied from one place to another. *)
CellsMoved(b, a, from, n, to, S) ==
  /\ IsBuffer(b, S) /\ SameKind(b, a) /\ b.size = a.size /\ Len(b.cells) = Len(a.cells)
  /\ \A i \in 1..Len(a.cells) :
       b.cells[i] = IF to < i /\ i <= to + n THEN a.cells[i + from - to] ELSE a.cells[i]

(* std::copy towards the front moves the cells as they were.               *)
LEMMA CopyDown ==
  ASSUME NEW S, NEW a, IsBuffer(a, S), NEW from \in Nat, NEW n \in Nat, NEW to \in Nat,
         to <= from, from + n <= Len(a.cells)
  PROVE  CellsMoved(CopyCells(a, from, n, to), a, from, n, to, S)
<1> DEFINE b == CopyCells(a, from, n, to)
           cell(i) == IF to < i /\ i <= to + n THEN a.cells[i + from - to] ELSE a.cells[i]
           cells == [i \in DOMAIN a.cells |-> cell(i)]
<1>1. a.cells \in Seq(S) /\ Len(a.cells) \in Nat /\ DOMAIN a.cells = 1..Len(a.cells)
  BY DEF IsBuffer
<1>2. \A i \in 1..Len(a.cells) :
        cell(i) = IF i - 1 \in to..(to + n - 1) THEN a.cells[from + (i - 1 - to) + 1] ELSE a.cells[i]
  <2> SUFFICES ASSUME NEW i \in 1..Len(a.cells)
               PROVE  cell(i) = IF i - 1 \in to..(to + n - 1)
                                THEN a.cells[from + (i - 1 - to) + 1] ELSE a.cells[i]
    OBVIOUS
  <2>1. i - 1 \in to..(to + n - 1) <=> to < i /\ i <= to + n
    BY <1>1
  <2>2. from + (i - 1 - to) + 1 = i + from - to
    BY <1>1
  <2>3. QED BY <2>1, <2>2
<1>3. b = [a EXCEPT !.cells = [i \in DOMAIN a.cells |->
             IF i - 1 \in to..(to + n - 1) THEN a.cells[from + (i - 1 - to) + 1] ELSE a.cells[i]]]
  BY DEF CopyCells
<1>4. b = [a EXCEPT !.cells = cells]
  BY <1>1, <1>2, <1>3
<1>5. \A i \in 1..Len(a.cells) : cell(i) \in S
  BY <1>1
<1> HIDE DEF cell, b
<1>6. cells \in Seq(S) /\ Len(cells) = Len(a.cells) /\ \A i \in 1..Len(a.cells) : cells[i] = cell(i)
  BY <1>1, <1>5
<1> HIDE DEF cells
<1>7. b.cells = cells /\ b.size = a.size /\ SameKind(b, a)
  BY <1>4 DEF IsBuffer, SameKind
<1>8. IsBuffer(b, S)
  BY <1>1, <1>6, <1>7 DEF IsBuffer, SameKind
<1>9. QED BY <1>6, <1>7, <1>8 DEF cell, b, CellsMoved

(* std::copy one cell towards the back, for push_front.  It keeps its      *)
(* source only for a POD type, or when there is at most one element.       *)
LEMMA CopyUp ==
  ASSUME NEW S, NEW a, IsBuffer(a, S), NEW n \in Nat, n + 1 <= Len(a.cells)
  PROVE  /\ IsBuffer(CopyCells(a, 0, n, 1), S)
         /\ CopyCells(a, 0, n, 1).size = a.size /\ SameKind(CopyCells(a, 0, n, 1), a)
         /\ Len(CopyCells(a, 0, n, 1).cells) = Len(a.cells)
         /\ a.pod \/ n <= 1 => CellsMoved(CopyCells(a, 0, n, 1), a, 0, n, 1, S)
         /\ ~a.pod => \A i \in 1..Len(a.cells) :
              CopyCells(a, 0, n, 1).cells[i] = a.cells[IF 1 < i /\ i <= 1 + n THEN 1 ELSE i]
<1> DEFINE b == CopyCells(a, 0, n, 1)
           source(k) == IF a.pod \/ 1 <= 0 THEN k ELSE k % (1 - 0)
           cell(i) == IF i - 1 \in 1..(1 + n - 1) THEN a.cells[0 + source(i - 1 - 1) + 1] ELSE a.cells[i]
           cells == [i \in DOMAIN a.cells |-> cell(i)]
<1>1. a.cells \in Seq(S) /\ Len(a.cells) \in Nat /\ DOMAIN a.cells = 1..Len(a.cells)
  BY DEF IsBuffer
<1>2. \A k \in Nat : source(k) = IF a.pod THEN k ELSE 0
  OBVIOUS
<1>3. b = [a EXCEPT !.cells = cells]
  BY DEF CopyCells
<1> HIDE DEF source
<1>4. \A i \in 1..Len(a.cells) : cell(i) \in S
  <2> SUFFICES ASSUME NEW i \in 1..Len(a.cells), i - 1 \in 1..(1 + n - 1)
               PROVE  a.cells[0 + source(i - 1 - 1) + 1] \in S
    BY <1>1
  <2>1. i - 1 - 1 \in Nat
    BY <1>1
  <2>2. 0 + source(i - 1 - 1) + 1 \in 1..Len(a.cells)
    <3>1. CASE a.pod
      BY <1>1, <1>2, <2>1, <3>1
    <3>2. CASE ~a.pod
      BY <1>1, <1>2, <2>1, <3>2
    <3>3. QED BY <3>1, <3>2
  <2>3. QED BY <1>1, <2>2
<1>5. a.pod \/ n <= 1 =>
        \A i \in 1..Len(a.cells) :
          cell(i) = IF 1 < i /\ i <= 1 + n THEN a.cells[i + 0 - 1] ELSE a.cells[i]
  <2> SUFFICES ASSUME a.pod \/ n <= 1, NEW i \in 1..Len(a.cells)
               PROVE  cell(i) = IF 1 < i /\ i <= 1 + n THEN a.cells[i + 0 - 1] ELSE a.cells[i]
    OBVIOUS
  <2>1. i - 1 \in 1..(1 + n - 1) <=> 1 < i /\ i <= 1 + n
    BY <1>1
  <2>2. 1 < i /\ i <= 1 + n => 0 + source(i - 1 - 1) + 1 = i + 0 - 1
    <3> SUFFICES ASSUME 1 < i, i <= 1 + n PROVE 0 + source(i - 1 - 1) + 1 = i + 0 - 1
      OBVIOUS
    <3>0. i - 1 - 1 \in Nat
      BY <1>1
    <3>1. CASE a.pod
      BY <1>1, <1>2, <3>0, <3>1
    <3>2. CASE ~a.pod
      BY <1>1, <1>2, <3>0, <3>2
    <3>3. QED BY <3>1, <3>2
  <2>3. QED BY <2>1, <2>2
<1>11. ASSUME ~a.pod, NEW i \in 1..Len(a.cells)
       PROVE  cell(i) = a.cells[IF 1 < i /\ i <= 1 + n THEN 1 ELSE i]
  <2>1. i - 1 \in 1..(1 + n - 1) <=> 1 < i /\ i <= 1 + n
    BY <1>1
  <2>2. 1 < i => 0 + source(i - 1 - 1) + 1 = 1
    <3> SUFFICES ASSUME 1 < i PROVE 0 + source(i - 1 - 1) + 1 = 1
      OBVIOUS
    <3>1. i - 1 - 1 \in Nat
      BY <1>1
    <3>2. QED BY <1>2, <1>11, <3>1
  <2>3. QED BY <2>1, <2>2
<1> HIDE DEF cell, b
<1>6. cells \in Seq(S) /\ Len(cells) = Len(a.cells) /\ \A i \in 1..Len(a.cells) : cells[i] = cell(i)
  BY <1>1, <1>4
<1> HIDE DEF cells
<1>7. b.cells = cells /\ b.size = a.size /\ SameKind(b, a)
  BY <1>3 DEF IsBuffer, SameKind
<1>8. IsBuffer(b, S)
  BY <1>1, <1>6, <1>7 DEF IsBuffer, SameKind
<1>9. a.pod \/ n <= 1 => CellsMoved(b, a, 0, n, 1, S)
  BY <1>5, <1>6, <1>7, <1>8 DEF CellsMoved
<1>10. QED BY <1>6, <1>7, <1>8, <1>9, <1>11 DEF b

(* pop_front and erase move the elements behind the gap down.              *)
LEMMA EraseHolds ==
  ASSUME NEW S, NEW a, IsBuffer(a, S), Blank \in S, Junk \in S,
         NEW from \in Nat, NEW to \in Nat, from < to, to <= a.size
  PROVE  Holds(Erase(a, from, to),
               SubSeq(Contents(a), 1, from) \o SubSeq(Contents(a), to + 1, a.size), S)
<1> DEFINE n == a.size - to
           m == a.size - (to - from)
           b == CopyCells(a, to, n, from)
           c == BufferResize(b, m)
           C == Contents(a)
           X == SubSeq(C, 1, from)
           Y == SubSeq(C, to + 1, a.size)
           s == X \o Y
<1>1. a.size \in Nat /\ a.size <= Len(a.cells) /\ Len(a.cells) \in Nat
  BY DEF IsBuffer
<1>2. n \in Nat /\ m \in Nat /\ m <= a.size /\ to + n = a.size /\ m = from + n
  BY <1>1
<1>3. Erase(a, from, to) = c
  BY DEF Erase
<1> HIDE DEF n, m
<1>4. CellsMoved(b, a, to, n, from, S)
  BY <1>1, <1>2, CopyDown
<1> HIDE DEF b
<1>5. IsBuffer(b, S) /\ m <= b.size
  BY <1>2, <1>4 DEF CellsMoved
<1>6. Holds(c, SubSeq(Contents(b), 1, m), S)
  BY <1>2, <1>5, ShrinkHolds
<1>7. C \in Seq(S) /\ Len(C) = a.size /\ \A i \in 1..a.size : C[i] = a.cells[i]
  BY ContentsSeq
<1>8. Contents(b) \in Seq(S) /\ Len(Contents(b)) = a.size
      /\ \A i \in 1..a.size : Contents(b)[i] = b.cells[i]
  BY <1>4, <1>5, ContentsSeq DEF CellsMoved
<1> HIDE DEF C, c
<1>9. X \in Seq(S) /\ Len(X) = from /\ \A i \in 1..from : X[i] = a.cells[i]
  BY <1>1, <1>7
<1>10. Y \in Seq(S) /\ Len(Y) = n /\ \A i \in 1..n : Y[i] = a.cells[i + to]
  <2>1. \A i \in (to + 1)..a.size : C[i] \in S
    BY <1>1, <1>7
  <2>2. /\ Y \in Seq(S) /\ Len(Y) = IF to + 1 <= a.size THEN a.size - (to + 1) + 1 ELSE 0
        /\ \A i \in 1..(a.size - (to + 1) + 1) : Y[i] = C[to + 1 + i - 1]
    BY <1>1, <2>1, SubSeqProperties
  <2>3. Len(Y) = n
    BY <1>1, <1>2, <2>2
  <2>4. ASSUME NEW i \in 1..n PROVE Y[i] = a.cells[i + to]
    <3>1. to + 1 + i - 1 = i + to /\ i + to \in 1..a.size /\ i \in 1..(a.size - (to + 1) + 1)
      BY <1>1, <1>2
    <3>2. QED BY <1>7, <2>2, <3>1
  <2>5. QED BY <2>2, <2>3, <2>4
<1> HIDE DEF X, Y
<1>11. /\ s \in Seq(S) /\ Len(s) = m
       /\ \A i \in 1..m : s[i] = IF i <= from THEN a.cells[i] ELSE a.cells[i - from + to]
  <2>1. s \in Seq(S) /\ Len(s) = m
    BY <1>2, <1>9, <1>10
  <2>2. ASSUME NEW i \in 1..m PROVE s[i] = IF i <= from THEN a.cells[i] ELSE a.cells[i - from + to]
    <3>1. s[i] = IF i <= from THEN X[i] ELSE Y[i - from]
      BY <1>2, <1>9, <1>10, ConcatProperties
    <3>2. CASE i <= from
      BY <1>9, <3>1, <3>2
    <3>3. CASE ~(i <= from)
      <4>1. i - from \in 1..n
        BY <1>2, <3>3
      <4>2. QED BY <1>10, <3>1, <3>3, <4>1
    <3>4. QED BY <3>2, <3>3
  <2>3. QED BY <2>1, <2>2
<1> HIDE DEF s
<1>12. \A i \in 1..m : b.cells[i] = IF i <= from THEN a.cells[i] ELSE a.cells[i + to - from]
  <2> SUFFICES ASSUME NEW i \in 1..m
               PROVE  b.cells[i] = IF i <= from THEN a.cells[i] ELSE a.cells[i + to - from]
    OBVIOUS
  <2>1. i \in 1..Len(a.cells) /\ i <= from + n
    BY <1>1, <1>2
  <2>2. b.cells[i] = IF from < i /\ i <= from + n THEN a.cells[i + to - from] ELSE a.cells[i]
    BY <1>4, <2>1 DEF CellsMoved
  <2>3. QED BY <2>1, <2>2
<1>13. \A i \in 1..m : b.cells[i] = s[i]
  <2> SUFFICES ASSUME NEW i \in 1..m PROVE b.cells[i] = s[i]
    OBVIOUS
  <2>1. i + to - from = i - from + to
    BY <1>2
  <2>2. QED BY <1>11, <1>12, <2>1
<1>14. SubSeq(Contents(b), 1, m) = s
  <2>1. /\ SubSeq(Contents(b), 1, m) \in Seq(S) /\ Len(SubSeq(Contents(b), 1, m)) = m
        /\ \A i \in 1..m : SubSeq(Contents(b), 1, m)[i] = b.cells[i]
    BY <1>1, <1>2, <1>8
  <2>2. QED BY <1>11, <1>13, <2>1, SeqEqual
<1>15. QED BY <1>3, <1>6, <1>14 DEF s, X, Y, C

LEMMA PopFrontHolds ==
  ASSUME NEW S, NEW a, IsBuffer(a, S), Blank \in S, Junk \in S, a.size > 0
  PROVE  Holds(PopFront(a), Tail(Contents(a)), S)
<1> DEFINE C == Contents(a)
<1>1. a.size \in Nat /\ 1 <= a.size /\ a.size - (1 - 0) = a.size - 1
  BY DEF IsBuffer
<1>2. PopFront(a) = Erase(a, 0, 1)
  BY <1>1 DEF PopFront, Erase
<1>3. Holds(Erase(a, 0, 1), SubSeq(C, 1, 0) \o SubSeq(C, 1 + 1, a.size), S)
  <2>1. 0 \in Nat /\ 1 \in Nat /\ 0 < 1 /\ 1 <= a.size
    BY <1>1
  <2>2. \A from, to \in Nat : from < to /\ to <= a.size =>
          Holds(Erase(a, from, to),
                SubSeq(Contents(a), 1, from) \o SubSeq(Contents(a), to + 1, a.size), S)
    BY EraseHolds
  <2> HIDE DEF C
  <2>3. Holds(Erase(a, 0, 1), SubSeq(Contents(a), 1, 0) \o SubSeq(Contents(a), 1 + 1, a.size), S)
    BY ONLY <2>1, <2>2, Zenon
  <2>4. QED BY <2>3, Zenon DEF C
<1>4. C \in Seq(S) /\ Len(C) = a.size
  BY ContentsSeq
<1> HIDE DEF C
<1>5. SubSeq(C, 1, 0) \o SubSeq(C, 1 + 1, a.size) = Tail(C)
  <2>1. Tail(C) \in Seq(S) /\ Tail(C) = SubSeq(C, 2, a.size)
    BY <1>1, <1>4, TailIsSubSeq, HeadTailProperties, EmptySeq
  <2>2. SubSeq(C, 1, 0) = <<>>
    BY SubSeqEmpty
  <2>3. <<>> \o Tail(C) = Tail(C)
    BY <2>1, ConcatEmptySeq
  <2>4. SubSeq(C, 1 + 1, a.size) = Tail(C)
    <3>1. 1 + 1 = 2
      OBVIOUS
    <3>2. QED BY <2>1, <3>1, Zenon
  <2>5. QED BY <2>2, <2>3, <2>4, Zenon
<1>6. QED BY <1>2, <1>3, <1>5 DEF C

(* push_front moves all elements one cell up and writes the first; of a    *)
(* class type the one that was first is in all the others.                 *)
LEMMA PushFrontHolds ==
  ASSUME NEW S, NEW a, IsBuffer(a, S), Blank \in S, Junk \in S, NEW v \in S
  PROVE  /\ IsBuffer(PushFront(a, v), S)
         /\ a.pod \/ a.size <= 1 => Holds(PushFront(a, v), <<v>> \o Contents(a), S)
         /\ ~a.pod /\ a.size >= 2 =>
              Contents(PushFront(a, v))
                = [i \in 1..(a.size + 1) |-> IF i = 1 THEN v ELSE Contents(a)[1]]
<1> DEFINE n == a.size + 1
           b == BufferResize(a, n)
           m == CopyCells(b, 0, a.size, 1)
           c == PushFront(a, v)
           C == Contents(a)
           s == <<v>> \o C
<1>1. n \in Nat /\ a.size \in Nat /\ n - 1 = a.size
  BY DEF IsBuffer
<1>2. Grown(b, a, n, S) /\ b.size = n
  BY <1>1, ResizeCells
<1>3. c = [m EXCEPT !.cells[1] = v]
  <2>1. b.size - 1 = a.size
    BY <1>1, <1>2
  <2>2. c = [CopyCells(b, 0, b.size - 1, 1) EXCEPT !.cells[1] = v]
    BY DEF PushFront
  <2> HIDE DEF c, b
  <2>3. QED BY <2>1, <2>2
<1>4. s \in Seq(S) /\ Len(s) = n /\ \A i \in 1..n : s[i] = IF i = 1 THEN v ELSE a.cells[i - 1]
  <2>1. C \in Seq(S) /\ Len(C) = a.size /\ \A i \in 1..a.size : C[i] = a.cells[i]
    BY ContentsSeq
  <2>2. <<v>> \in Seq(S) /\ Len(<<v>>) = 1 /\ <<v>>[1] = v
    OBVIOUS
  <2> HIDE DEF C
  <2>3. /\ s \in Seq(S) /\ Len(s) = 1 + a.size
        /\ \A i \in 1..(1 + a.size) : s[i] = IF i <= 1 THEN <<v>>[i] ELSE C[i - 1]
    BY <2>1, <2>2, ConcatProperties
  <2> HIDE DEF s
  <2>4. ASSUME NEW i \in 1..n PROVE s[i] = IF i = 1 THEN v ELSE a.cells[i - 1]
    <3>1. CASE i = 1
      BY <1>1, <2>2, <2>3, <3>1
    <3>2. CASE i # 1
      <4>1. i - 1 \in 1..a.size /\ i \in 1..(1 + a.size) /\ ~(i <= 1)
        BY <1>1, <3>2
      <4>2. QED BY <2>1, <2>3, <3>2, <4>1
    <3>3. QED BY <3>1, <3>2
  <2>5. QED BY <1>1, <2>3, <2>4
<1> HIDE DEF b, c, s
<1>5. IsBuffer(b, S) /\ Len(b.cells) \in Nat /\ n <= Len(b.cells) /\ a.size + 1 <= Len(b.cells)
      /\ b.pod = a.pod
  BY <1>1, <1>2 DEF Grown, IsBuffer, SameKind
<1>6. /\ IsBuffer(m, S) /\ m.size = n /\ Len(m.cells) = Len(b.cells)
      /\ a.pod \/ a.size <= 1 => CellsMoved(m, b, 0, a.size, 1, S)
      /\ ~a.pod => \A i \in 1..Len(b.cells) :
           m.cells[i] = b.cells[IF 1 < i /\ i <= 1 + a.size THEN 1 ELSE i]
  BY <1>1, <1>2, <1>5, CopyUp
<1> HIDE DEF m
<1>7. m.cells \in Seq(S) /\ 1 \in 1..Len(m.cells) /\ {"pod", "cells", "size"} \subseteq DOMAIN m
      /\ m.pod \in BOOLEAN
  BY <1>1, <1>5, <1>6 DEF IsBuffer
<1>8. c.cells = [m.cells EXCEPT ![1] = v] /\ c.size = n /\ c.pod = m.pod /\ DOMAIN c = DOMAIN m
  BY <1>3, <1>6, <1>7
<1>9. c.cells \in Seq(S) /\ Len(c.cells) = Len(m.cells)
      /\ \A i \in 1..Len(m.cells) : c.cells[i] = IF i = 1 THEN v ELSE m.cells[i]
  BY <1>7, <1>8
<1>10. IsBuffer(c, S)
  BY <1>1, <1>5, <1>6, <1>7, <1>8, <1>9 DEF IsBuffer
<1>11. ASSUME a.pod \/ a.size <= 1 PROVE Holds(c, s, S)
  <2>1. ASSUME NEW i \in 1..n PROVE c.cells[i] = s[i]
    <3>1. i \in 1..Len(b.cells) /\ i <= 1 + a.size
      BY <1>1, <1>5
    <3>2. CASE i = 1
      BY <1>4, <1>6, <1>9, <3>1, <3>2
    <3>3. CASE i # 1
      <4>1. c.cells[i] = m.cells[i] /\ s[i] = a.cells[i - 1]
        BY <1>4, <1>6, <1>9, <3>1, <3>3
      <4>2. 1 < i /\ i + 0 - 1 = i - 1 /\ i - 1 \in 1..a.size
        BY <1>1, <3>3
      <4>3. m.cells[i] = b.cells[i - 1]
        BY <1>6, <1>11, <3>1, <4>2 DEF CellsMoved
      <4>4. b.cells[i - 1] = a.cells[i - 1]
        BY <1>2, <4>2 DEF Grown, Keeps
      <4>5. QED BY <4>1, <4>3, <4>4
    <3>4. QED BY <3>2, <3>3
  <2> HIDE DEF n
  <2>2. QED BY <1>4, <1>8, <1>10, <2>1, HoldsCells
<1>12. ASSUME ~a.pod, a.size >= 2
       PROVE  Contents(c) = [i \in 1..n |-> IF i = 1 THEN v ELSE C[1]]
  <2> DEFINE item(i) == IF i = 1 THEN v ELSE C[1]
             z == [i \in 1..n |-> item(i)]
  <2>1. C \in Seq(S) /\ Len(C) = a.size /\ \A i \in 1..a.size : C[i] = a.cells[i]
    BY ContentsSeq
  <2> HIDE DEF C
  <2>2. C[1] \in S /\ C[1] = a.cells[1] /\ b.cells[1] = a.cells[1]
    BY <1>1, <1>2, <1>12, <2>1 DEF Grown, Keeps
  <2> HIDE DEF n
  <2>3. z \in Seq(S) /\ Len(z) = n /\ \A i \in 1..n : z[i] = item(i)
    <3>1. \A i \in 1..n : item(i) \in S
      BY <2>2
    <3> HIDE DEF item
    <3>2. QED BY <1>1, <3>1
  <2>4. ASSUME NEW i \in 1..n PROVE c.cells[i] = z[i]
    <3>1. i \in 1..Len(b.cells) /\ i <= 1 + a.size
      BY <1>1, <1>5 DEF n
    <3>2. CASE i = 1
      BY <1>6, <1>9, <2>3, <3>1, <3>2
    <3>3. CASE i # 1
      <4>1. 1 < i
        BY <3>1, <3>3
      <4>2. m.cells[i] = b.cells[1]
        BY <1>6, <1>12, <3>1, <4>1
      <4>3. QED BY <1>6, <1>9, <2>2, <2>3, <3>1, <3>3, <4>2
    <3>4. QED BY <3>2, <3>3
  <2> HIDE DEF z
  <2>5. QED BY <1>1, <1>8, <1>10, <2>3, <2>4, SameContents DEF z
<1>13. QED BY <1>10, <1>11, <1>12 DEF c, s, C

(* append reserves room for everything and then writes behind the end.     *)
LEMMA AppendHolds ==
  ASSUME NEW S, NEW a, IsBuffer(a, S), Blank \in S, Junk \in S, NEW data \in Seq(S)
  PROVE  Holds(AppendAll(a, data), Contents(a) \o data, S)
<1> DEFINE n == a.size + Len(data)
           b == BufferReserve(a, n)
           c == AppendAll(a, data)
           C == Contents(a)
           s == C \o data
           cell(i) == IF i \in (a.size + 1)..n THEN data[i - a.size] ELSE b.cells[i]
           cells == [i \in DOMAIN b.cells |-> cell(i)]
<1>1. n \in Nat /\ a.size \in Nat /\ a.size <= n
  BY DEF IsBuffer
<1>2. Grown(b, a, n, S) /\ b.size = a.size
  BY <1>1, ReserveCells
<1>3. c = [b EXCEPT !.cells = cells, !.size = n]
  BY DEF AppendAll
<1>4. s \in Seq(S) /\ Len(s) = n
      /\ \A i \in 1..n : s[i] = IF i <= a.size THEN a.cells[i] ELSE data[i - a.size]
  <2>1. C \in Seq(S) /\ Len(C) = a.size /\ \A i \in 1..a.size : C[i] = a.cells[i]
    BY ContentsSeq
  <2> HIDE DEF C
  <2>2. /\ s \in Seq(S) /\ Len(s) = n
        /\ \A i \in 1..n : s[i] = IF i <= a.size THEN C[i] ELSE data[i - a.size]
    <3>1. /\ C \o data \in Seq(S) /\ Len(C \o data) = Len(C) + Len(data)
          /\ \A i \in 1..(Len(C) + Len(data)) :
               (C \o data)[i] = IF i <= Len(C) THEN C[i] ELSE data[i - Len(C)]
      BY ONLY <2>1, data \in Seq(S), ConcatProperties
    <3>2. n = Len(C) + Len(data)
      BY <2>1
    <3> HIDE DEF n
    <3>3. QED BY <2>1, <3>1, <3>2, Zenon
  <2> HIDE DEF s
  <2>3. QED BY <1>1, <2>1, <2>2
<1> HIDE DEF b, c, s, n
<1>5. b.cells \in Seq(S) /\ Len(b.cells) \in Nat /\ n <= Len(b.cells)
      /\ DOMAIN b.cells = 1..Len(b.cells)
      /\ {"pod", "cells", "size"} \subseteq DOMAIN b /\ b.pod \in BOOLEAN
  BY <1>1, <1>2 DEF Grown, IsBuffer
<1>6. \A i \in 1..Len(b.cells) : cell(i) \in S
  <2> SUFFICES ASSUME NEW i \in 1..Len(b.cells), i \in (a.size + 1)..n PROVE data[i - a.size] \in S
    BY <1>5
  <2>1. i - a.size \in 1..Len(data)
    BY <1>1 DEF n
  <2>2. QED BY <2>1
<1> HIDE DEF cell
<1>7. cells \in Seq(S) /\ Len(cells) = Len(b.cells) /\ \A i \in 1..Len(b.cells) : cells[i] = cell(i)
  BY <1>5, <1>6
<1> HIDE DEF cells
<1>8. c.cells = cells /\ c.size = n /\ c.pod = b.pod /\ DOMAIN c = DOMAIN b
  BY <1>3, <1>5
<1>9. IsBuffer(c, S)
  BY <1>1, <1>5, <1>7, <1>8 DEF IsBuffer
<1>10. ASSUME NEW i \in 1..n PROVE c.cells[i] = s[i]
  <2>1. i \in 1..Len(b.cells) /\ c.cells[i] = cell(i)
    BY <1>1, <1>5, <1>7, <1>8
  <2>2. CASE i <= a.size
    <3>1. i \in 1..a.size /\ i \notin (a.size + 1)..n
      BY <1>1, <2>2
    <3>2. b.cells[i] = a.cells[i]
      BY <1>2, <3>1 DEF Grown, Keeps
    <3>3. QED BY <1>4, <2>1, <2>2, <3>1, <3>2 DEF cell
  <2>3. CASE ~(i <= a.size)
    BY <1>1, <1>4, <2>1, <2>3 DEF cell
  <2>4. QED BY <2>2, <2>3
<1>11. Holds(c, s, S)
  BY <1>4, <1>8, <1>9, <1>10, HoldsCells
<1>12. QED BY <1>11 DEF c, s, C

(* resize keeps the elements there are, and the cells behind them come     *)
(* into use as they are.  These are default constructed                    *)
(* when the type is a class and the buffer has no cell for any of them.    *)
LEMMA ResizeHolds ==
  ASSUME NEW S, NEW a, IsBuffer(a, S), Blank \in S, Junk \in S, NEW n \in Nat
  PROVE  /\ IsBuffer(BufferResize(a, n), S)
         /\ Contents(BufferResize(a, n))
              = [i \in 1..n |-> IF i <= a.size THEN Contents(a)[i]
                                ELSE BufferResize(a, n).cells[i]]
         /\ \/ n <= a.size
            \/ ~a.pod /\ Len(a.cells) = a.size
            => Contents(BufferResize(a, n))
                 = [i \in 1..n |-> IF i <= a.size THEN Contents(a)[i] ELSE Blank]
<1> DEFINE b == BufferResize(a, n)
           C == Contents(a)
           item(i) == IF i <= a.size THEN C[i] ELSE Blank
           s == [i \in 1..n |-> item(i)]
<1>1. Grown(b, a, n, S) /\ b.size = n
  BY ResizeCells
<1>2. C \in Seq(S) /\ Len(C) = a.size /\ a.size \in Nat /\ \A i \in 1..a.size : C[i] = a.cells[i]
  BY ContentsSeq DEF IsBuffer
<1> HIDE DEF b, C
<1>3. \A i \in 1..n : item(i) \in S
  BY <1>2
<1> HIDE DEF item
<1>4. s \in Seq(S) /\ Len(s) = n /\ \A i \in 1..n : s[i] = item(i)
  BY <1>3
<1> HIDE DEF s
<1>5. ASSUME n <= a.size \/ (~a.pod /\ Len(a.cells) = a.size) PROVE Contents(b) = s
  <2>1. ASSUME NEW i \in 1..n PROVE b.cells[i] = s[i]
    <3>1. CASE i <= a.size
      BY <1>1, <1>2, <1>4, <3>1 DEF item, Grown, Keeps
    <3>2. CASE ~(i <= a.size)
      <4>1. ~a.pod /\ Len(a.cells) < n /\ i \in (a.size + 1)..n
        BY <1>2, <1>5, <3>2
      <4>2. QED BY <1>1, <1>4, <3>2, <4>1 DEF item, Grown, Fills
    <3>3. QED BY <3>1, <3>2
  <2>2. QED BY <1>1, <1>4, <2>1, SameContents DEF Grown
<1>6. Contents(b) = [i \in 1..n |-> IF i <= a.size THEN C[i] ELSE b.cells[i]]
  <2> DEFINE kept(i) == IF i <= a.size THEN C[i] ELSE b.cells[i]
             t == [i \in 1..n |-> kept(i)]
  <2>1. \A i \in 1..n : kept(i) = b.cells[i] /\ kept(i) \in S
    BY <1>1, <1>2 DEF Grown, Keeps, IsBuffer
  <2> HIDE DEF kept
  <2>2. t \in Seq(S) /\ Len(t) = n /\ \A i \in 1..n : b.cells[i] = t[i]
    BY <2>1
  <2> HIDE DEF t
  <2>3. QED BY <1>1, <2>2, SameContents DEF t, kept, Grown
<1>7. QED BY <1>1, <1>5, <1>6 DEF Grown, b, s, item, C
-----------------------------------------------------------------------------
(* The array. *)

(* The data that a call writes to. *)
DetachedIs(d) ==
  /\ IsBuffer(d, Items) /\ Contents(d) = Before
  /\ d.size = array.size /\ d.pod = array.pod

LEMMA DetachedHolds ==
  ASSUME IsBuffer(array, Items) PROVE DetachedIs(Detached)
<1>1. Before \in Seq(Items) /\ Len(Before) = array.size /\ array.pod \in BOOLEAN
  BY ContentsSeq DEF Before, IsBuffer
<1>2. Holds(BufferOf(array.pod, Before), Before, Items) /\ BufferOf(array.pod, Before).pod = array.pod
  BY <1>1, BufferOfHolds
<1>3. BufferOf(array.pod, Before).size = array.size
  BY <1>1 DEF BufferOf
<1>4. CASE copied
  <2>1. Detached = BufferOf(array.pod, Before)
    BY <1>4 DEF Detached, BufferClone, Before
  <2>2. QED BY <1>2, <1>3, <2>1 DEF DetachedIs, Holds
<1>5. CASE ~copied
  BY <1>5 DEF Detached, DetachedIs, Before
<1>6. QED BY <1>4, <1>5

LEMMA CellValues == Blank \in Items /\ Junk \in Items /\ Element \subseteq Items
BY DEF Items

LEMMA SequencesAreItems ==
  ASSUME NEW n \in Nat, NEW s \in Sequences(n) PROVE s \in Seq(Items)
<1>1. PICK k \in 0..n : s \in [1..k -> Element]
  BY DEF Sequences
<1>2. s \in Seq(Element)
  BY <1>1
<1>3. QED BY <1>2, CellValues

(* What is left to show of a call: that its result is well-formed, and that*)
(* it holds what it should or is known to hold instead.                    *)
LEMMA BecomesIInv ==
  ASSUME NEW result, NEW name, NEW expected, NEW known,
         Becomes(result, Call(name, expected, known)),
         IsBuffer(result, Items), Contents(result) \in {expected} \cup known
  PROVE  ArrayIInv'
<1>1. array' = result /\ copied' = FALSE /\ arrayCall' = Call(name, expected, known)
  BY DEF Becomes
<1>2. arrayCall'.known = known /\ arrayCall'.expected = expected
  BY <1>1 DEF Call
<1>3. IsBuffer(array, Items)'
  BY <1>1 DEF IsBuffer, Items
<1>4. (Contents(array) \in {arrayCall.expected} \cup arrayCall.known)'
  BY <1>1, <1>2 DEF Contents
<1>5. QED BY <1>1, <1>3, <1>4 DEF ArrayIInv, ArrayAsDocumented

LEMMA ArrayInitIInv == ArrayInit => ArrayIInv
<1> SUFFICES ASSUME ArrayInit PROVE ArrayIInv
  OBVIOUS
<1>1. PICK pod \in BOOLEAN, data \in Sequences(2) :
        array = BufferOf(pod, data) /\ arrayCall = Call("construct", data, {})
  BY DEF ArrayInit
<1>2. data \in Seq(Items)
  BY SequencesAreItems
<1>3. Holds(array, data, Items)
  BY <1>1, <1>2, BufferOfHolds
<1>4. arrayCall.expected = data
  BY <1>1 DEF Call
<1>5. QED BY <1>3, <1>4 DEF ArrayInit, ArrayIInv, ArrayAsDocumented, Holds

(* Every call keeps the invariant. *)
LEMMA ArrayStep == ArrayIInv /\ [ArrayNext]_arrayVars => ArrayIInv'
<1> SUFFICES ASSUME ArrayIInv, [ArrayNext]_arrayVars PROVE ArrayIInv'
  OBVIOUS
<1> DEFINE d == Detached
<1>1. IsBuffer(array, Items) /\ array.size \in Nat
  BY DEF ArrayIInv, IsBuffer
<1>2. /\ IsBuffer(d, Items) /\ Contents(d) = Before
      /\ d.size = array.size /\ d.pod = array.pod
      /\ Len(d.cells) \in Nat /\ d.size <= Len(d.cells)
  BY <1>1, DetachedHolds DEF DetachedIs, IsBuffer
<1>3. Blank \in Items /\ Junk \in Items /\ Element \subseteq Items
  BY CellValues
<1>4. Before \in Seq(Items) /\ Len(Before) = array.size
      /\ \A i \in 1..array.size : Before[i] \in Items
  BY <1>1, ContentsSeq DEF Before
<1>5. CASE CopyArray
  BY <1>5 DEF CopyArray, ArrayIInv, ArrayAsDocumented, IsBuffer, Contents, Items
<1>6. CASE DropCopy
  BY <1>6 DEF DropCopy, ArrayIInv, ArrayAsDocumented, IsBuffer, Contents, Items
<1>7. CASE ArrayPushBack
  <2>1. PICK v \in Element :
          Becomes(PushBack(d, v), Call("push_back", Append(Before, v), {}))
    BY <1>7 DEF ArrayPushBack
  <2> HIDE DEF d
  <2>2. Holds(PushBack(d, v), Append(Before, v), Items)
    BY <1>2, <1>3, PushBackHolds
  <2>3. QED BY <2>1, <2>2, BecomesIInv DEF Holds
<1>8. CASE ArrayPushBackOwn
  <2> DEFINE moved == Len(d.cells) < array.size + 1
             known == IF moved THEN {Append(Before, Junk)} ELSE {}
  <2>0. PICK i \in 1..array.size :
          \E v \in {Before[i]} \cup (IF moved THEN {Junk} ELSE {}) :
            Becomes(PushBack(d, v), Call("push_back", Append(Before, Before[i]), known))
    BY <1>8 DEF ArrayPushBackOwn
  <2>1. PICK v \in {Before[i]} \cup (IF moved THEN {Junk} ELSE {}) :
          Becomes(PushBack(d, v), Call("push_back", Append(Before, Before[i]), known))
    BY <2>0
  <2> HIDE DEF d, moved
  <2>2. v \in Items /\ (v = Before[i] \/ (moved /\ v = Junk))
    BY <1>3, <1>4
  <2>3. Holds(PushBack(d, v), Append(Before, v), Items)
    BY <1>2, <1>3, <2>2, PushBackHolds
  <2>4. /\ IsBuffer(PushBack(d, v), Items)
        /\ Contents(PushBack(d, v)) \in {Append(Before, Before[i])} \cup known
    BY <2>2, <2>3 DEF Holds
  <2> HIDE DEF known
  <2>5. QED BY <2>1, <2>4, BecomesIInv
<1>9. CASE ArrayPushFront
  <2> DEFINE smeared(v) == [i \in 1..(array.size + 1) |-> IF i = 1 THEN v ELSE Before[1]]
             known(v) == IF ~array.pod /\ array.size >= 2 THEN {smeared(v)} ELSE {}
  <2>1. PICK v \in Element :
          Becomes(PushFront(d, v), Call("push_front", <<v>> \o Before, known(v)))
    BY <1>9 DEF ArrayPushFront
  <2> HIDE DEF d
  <2>2. /\ IsBuffer(PushFront(d, v), Items)
        /\ d.pod \/ d.size <= 1 => Holds(PushFront(d, v), <<v>> \o Before, Items)
        /\ ~d.pod /\ d.size >= 2 => Contents(PushFront(d, v)) = smeared(v)
    BY <1>2, <1>3, PushFrontHolds
  <2> HIDE DEF smeared
  <2>3. Contents(PushFront(d, v)) \in {<<v>> \o Before} \cup known(v)
    BY <1>1, <1>2, <2>2 DEF Holds
  <2> HIDE DEF known
  <2>4. QED BY <2>1, <2>2, <2>3, BecomesIInv
<1>10. CASE ArrayPopBack
  <2>1. Becomes(BufferResize(d, d.size - 1),
                Call("pop_back", SubSeq(Before, 1, array.size - 1), {}))
        /\ array.size > 0
    BY <1>10 DEF ArrayPopBack, PopBack
  <2> HIDE DEF d
  <2>2. d.size - 1 \in Nat /\ d.size - 1 <= d.size
    BY <1>1, <1>2, <2>1
  <2>3. Holds(BufferResize(d, d.size - 1), SubSeq(Before, 1, array.size - 1), Items)
    BY <1>2, <1>3, <2>2, ShrinkHolds
  <2>4. QED BY <2>1, <2>3, BecomesIInv DEF Holds
<1>11. CASE ArrayPopFront
  <2>1. Becomes(PopFront(d), Call("pop_front", Tail(Before), {})) /\ array.size > 0
    BY <1>11 DEF ArrayPopFront
  <2> HIDE DEF d
  <2>2. Holds(PopFront(d), Tail(Before), Items)
    BY <1>2, <1>3, <2>1, PopFrontHolds
  <2>3. QED BY <2>1, <2>2, BecomesIInv DEF Holds
<1>12. CASE ArrayErase
  <2>1. PICK from \in 0..array.size, to \in 0..array.size :
          /\ from < to
          /\ Becomes(Erase(d, from, to),
                     Call("erase", Without(from, to + 1), {Without(from, to)}))
    BY <1>12 DEF ArrayErase
  <2> HIDE DEF d
  <2>2. from \in Nat /\ to \in Nat /\ from < to /\ to <= d.size
    BY <1>1, <1>2, <2>1
  <2>3. Holds(Erase(d, from, to), Without(from, to), Items)
    BY <1>2, <1>3, <2>2, EraseHolds DEF Without
  <2>4. Contents(Erase(d, from, to)) \in {Without(from, to + 1)} \cup {Without(from, to)}
    BY <2>3 DEF Holds
  <2>5. QED BY <2>1, <2>3, <2>4, BecomesIInv DEF Holds
<1>22. CASE ArrayEraseAt
  <2>1. PICK i \in 0..(array.size - 1) :
          Becomes(Erase(d, i, i + 1), Call("erase", Without(i, i + 1), {}))
    BY <1>22 DEF ArrayEraseAt
  <2> HIDE DEF d
  <2>2. i \in Nat /\ i + 1 \in Nat /\ i < i + 1 /\ i + 1 <= d.size
    BY <1>1, <1>2, <2>1
  <2>3. Holds(Erase(d, i, i + 1), Without(i, i + 1), Items)
    BY <1>2, <1>3, <2>2, EraseHolds DEF Without
  <2>4. QED BY <2>1, <2>3, BecomesIInv DEF Holds
<1>13. CASE ArrayReserve
  <2>1. PICK n \in 0..MaxLength :
          Becomes(BufferReserve(d, n), Call("reserve", Before, {}))
    BY <1>13 DEF ArrayReserve
  <2> HIDE DEF d
  <2>2. n \in Nat
    BY ArrayAssumption
  <2>3. Holds(BufferReserve(d, n), Before, Items)
    BY <1>2, <1>3, <2>2, ReserveHolds
  <2>4. QED BY <2>1, <2>3, BecomesIInv DEF Holds
<1>14. CASE ArraySqueeze
  <2>1. Becomes(BufferSqueeze(d), Call("squeeze", Before, {}))
    BY <1>14 DEF ArraySqueeze
  <2> HIDE DEF d
  <2>2. Holds(BufferSqueeze(d), Before, Items)
    BY <1>2, <1>3, SqueezeHolds
  <2>3. QED BY <2>1, <2>2, BecomesIInv DEF Holds
<1>15. CASE ArrayResize
  <2> DEFINE result(n) == BufferResize(d, n)
             resized(n, rest) == [i \in 1..n |-> IF i <= array.size THEN Before[i] ELSE rest[i]]
             wanted(n) == resized(n, [i \in 1..n |-> Blank])
             exposed(n) == \E i \in (array.size + 1)..n : array.pod \/ Len(d.cells) >= i
             known(n) == IF exposed(n) THEN {resized(n, result(n).cells)} ELSE {}
  <2>1. PICK n \in 0..MaxLength : Becomes(result(n), Call("resize", wanted(n), known(n)))
    BY <1>15 DEF ArrayResize
  <2> HIDE DEF d
  <2>2. n \in Nat
    BY ArrayAssumption
  <2>3. /\ IsBuffer(result(n), Items)
        /\ Contents(result(n)) = resized(n, result(n).cells)
        /\ \/ n <= d.size
           \/ ~d.pod /\ Len(d.cells) = d.size
           => Contents(result(n))
                = [i \in 1..n |-> IF i <= array.size THEN Before[i] ELSE Blank]
    BY <1>2, <1>3, <2>2, ResizeHolds
  <2>4. wanted(n) = [i \in 1..n |-> IF i <= array.size THEN Before[i] ELSE Blank]
    OBVIOUS
  <2> HIDE DEF wanted, resized, result
  <2>5. exposed(n) \/ Contents(result(n)) = wanted(n)
    <3>1. CASE n <= array.size
      BY <1>2, <2>3, <2>4, <3>1
    <3>2. CASE ~(n <= array.size)
      <4>1. array.size + 1 \in (array.size + 1)..n
        BY <1>1, <2>2, <3>2
      <4>2. exposed(n) \/ (~d.pod /\ Len(d.cells) = d.size)
        BY <1>1, <1>2, <4>1
      <4> HIDE DEF exposed
      <4>3. QED BY <2>3, <2>4, <4>2
    <3>3. QED BY <3>1, <3>2
  <2> HIDE DEF exposed
  <2>6. Contents(result(n)) \in {wanted(n)} \cup known(n)
    BY <2>3, <2>5
  <2> HIDE DEF known
  <2>7. QED BY <2>1, <2>3, <2>6, BecomesIInv
<1>16. CASE ArrayAppend
  <2>1. PICK data \in Sequences(2) :
          Becomes(AppendAll(d, data), Call("append", Before \o data, {}))
    BY <1>16 DEF ArrayAppend
  <2> HIDE DEF d
  <2>2. data \in Seq(Items)
    BY SequencesAreItems
  <2>3. Holds(AppendAll(d, data), Before \o data, Items)
    BY <1>2, <1>3, <2>2, AppendHolds
  <2>4. QED BY <2>1, <2>3, BecomesIInv DEF Holds
<1>17. CASE ArrayAppendOwn
  <2> DEFINE freed == ~copied /\ Len(array.cells) < 2 * array.size
             stale == [i \in 1..array.size |-> Junk]
             known == IF freed THEN {Before \o stale} ELSE {}
  <2>1. PICK data \in {Before} \cup (IF freed THEN {stale} ELSE {}) :
          Becomes(AppendAll(d, data), Call("append", Before \o Before, known))
    BY <1>17 DEF ArrayAppendOwn
  <2>2. stale \in Seq(Items)
    BY <1>1, <1>3
  <2> HIDE DEF d, freed, stale
  <2>3. data \in Seq(Items) /\ (data = Before \/ (freed /\ data = stale))
    BY <1>4, <2>1, <2>2
  <2>4. Holds(AppendAll(d, data), Before \o data, Items)
    BY <1>2, <1>3, <2>3, AppendHolds
  <2>5. IsBuffer(AppendAll(d, data), Items)
        /\ Contents(AppendAll(d, data)) \in {Before \o Before} \cup known
    BY <2>3, <2>4 DEF Holds
  <2> HIDE DEF known
  <2>6. QED BY <2>1, <2>5, BecomesIInv
<1>18. CASE ArrayEmplaceOwn
  <2>1. PICK i \in 1..array.size :
          Becomes(PushBack(d, Before[i]), Call("emplace_back", Append(Before, Before[i]), {}))
    BY <1>18 DEF ArrayEmplaceOwn
  <2> HIDE DEF d
  <2>2. Before[i] \in Items
    BY <1>4
  <2>3. Holds(PushBack(d, Before[i]), Append(Before, Before[i]), Items)
    BY <1>2, <1>3, <2>2, PushBackHolds
  <2>4. QED BY <2>1, <2>3, BecomesIInv DEF Holds
<1>19. CASE ArrayClear
  <2> DEFINE e == BufferResize(d, 0)
  <2>1. Becomes(BufferSqueeze(e), Call("clear", <<>>, {}))
    BY <1>19 DEF ArrayClear
  <2> HIDE DEF d
  <2>2. 0 \in Nat /\ 0 <= d.size
    BY <1>1, <1>2
  <2>3. Holds(e, SubSeq(Before, 1, 0), Items)
    BY <1>2, <1>3, <2>2, ShrinkHolds
  <2>4. SubSeq(Before, 1, 0) = <<>>
    BY SubSeqEmpty
  <2> HIDE DEF e
  <2>5. Holds(BufferSqueeze(e), <<>>, Items)
    BY <1>3, <2>3, <2>4, SqueezeHolds DEF Holds
  <2>6. QED BY <2>1, <2>5, BecomesIInv DEF Holds
<1>20. CASE UNCHANGED arrayVars
  BY <1>20 DEF arrayVars, ArrayIInv, ArrayAsDocumented, IsBuffer, Contents, Items
<1>21. QED
  BY <1>5, <1>6, <1>7, <1>8, <1>9, <1>10, <1>11, <1>12, <1>13, <1>14, <1>15, <1>16, <1>17,
     <1>18, <1>19, <1>20, <1>22 DEF ArrayNext

(* Whatever the sequence of calls, the buffer is well-formed and the array *)
(* is what the last call should have made of it.                           *)
THEOREM ArrayInvariant == ArraySpec => []ArrayIInv
BY ArrayInitIInv, ArrayStep, PTL DEF ArraySpec

(* Every call of Array does what its documentation says, whatever spare or *)
(* stale cells the buffer has, whoever shares it and whatever the elements *)
(* are, except for the departures that the property names.                 *)
THEOREM ArrayHolds == ArraySpec => []ArrayAsDocumented
<1>1. ArrayIInv => ArrayAsDocumented
  BY DEF ArrayIInv
<1>2. QED BY ArrayInvariant, <1>1, PTL

-----------------------------------------------------------------------------
(* The stream over a string. *)

LEMMA StringCellValues ==
  Blank \in StringCells /\ Junk \in StringCells /\ Nul \in StringCells /\ Char \subseteq StringCells
BY DEF StringCells

LEMMA StringBufferFields ==
  ASSUME NEW s \in StringBuffers, s.size <= Len(s.cells)
  PROVE  /\ IsBuffer(s, StringCells) /\ s.cells \in Seq(StringCells)
         /\ s.size \in Nat /\ s.len \in Nat /\ Len(s.cells) \in Nat
BY DEF StringBuffers, IsBuffer

(* Growing changes nothing of a buffer but its cells. *)
LEMMA ReserveStringBuffer ==
  ASSUME NEW s \in StringBuffers, s.size <= Len(s.cells), NEW n \in Nat
  PROVE  BufferReserve(s, n) \in StringBuffers
<1> DEFINE r == BufferReserve(s, n)
<1>1. IsBuffer(s, StringCells) /\ s.size \in Nat /\ Len(s.cells) \in Nat
  BY StringBufferFields
<1>2. Grown(r, s, n, StringCells)
  BY <1>1, StringCellValues, ReserveCells
<1>3. r.cells \in Seq(StringCells)
  BY <1>2 DEF Grown, IsBuffer
<1>4. CASE s.size < n /\ Len(s.cells) < n
  <2>1. PICK cells : r = [s EXCEPT !.cells = cells]
    BY <1>4 DEF BufferReserve, Reallocate
  <2> HIDE DEF r
  <2>2. r.cells = cells
    BY <2>1 DEF StringBuffers
  <2>3. r \in StringBuffers
    BY <1>3, <2>1, <2>2, SMT DEF StringBuffers
  <2>4. QED BY <2>3 DEF r
<1>5. CASE ~(s.size < n /\ Len(s.cells) < n)
  BY <1>5 DEF BufferReserve
<1>6. QED BY <1>4, <1>5

LEMMA ResizeStringBuffer ==
  ASSUME NEW s \in StringBuffers, s.size <= Len(s.cells), NEW n \in Nat
  PROVE  BufferResize(s, n) \in StringBuffers /\ BufferResize(s, n).len = s.len
<1> DEFINE grown == Len(s.cells) + (Len(s.cells) * 3) \div 2
           most  == IF grown < n THEN n ELSE grown
           room  == IF n <= Len(s.cells) THEN s ELSE BufferReserve(s, most)
           b     == BufferResize(s, n)
<1>1. IsBuffer(s, StringCells) /\ s.size \in Nat /\ Len(s.cells) \in Nat
  BY StringBufferFields
<1>2. most \in Nat
  <2>1. \A k \in Nat : k + (k * 3) \div 2 \in Nat
    OBVIOUS
  <2>2. grown \in Nat
    BY <1>1, <2>1
  <2> HIDE DEF grown
  <2>3. QED BY <2>2
<1> HIDE DEF most
<1>3. room \in StringBuffers
  BY <1>2, ReserveStringBuffer
<1>4. room.len = s.len
  <2>1. Grown(BufferReserve(s, most), s, most, StringCells)
    BY <1>1, <1>2, StringCellValues, ReserveCells
  <2>2. BufferReserve(s, most).len = s.len
    BY <2>1 DEF Grown, SameKind, StringBuffers
  <2>3. QED BY <2>2
<1>5. b = [room EXCEPT !.size = n]
  BY DEF BufferResize, most
<1> HIDE DEF room, b
<1>6. b \in StringBuffers /\ b.len = s.len
  BY <1>3, <1>4, <1>5, SMT DEF StringBuffers
<1>7. QED BY <1>6 DEF b

(* Buffer r is s with n - 1 characters and a terminator. *)
ResizedTo(r, s, n) ==
  /\ r \in StringBuffers /\ r.pod /\ r.len = n - 1 /\ r.size = n
  /\ n <= Len(r.cells) /\ Len(s.cells) <= Len(r.cells)
  /\ r.cells[n] = Nul
  /\ \A i \in 1..Len(s.cells) : i # n => r.cells[i] = s.cells[i]

LEMMA ResizedString ==
  ASSUME NEW s \in StringBuffers, s.pod, s.size <= Len(s.cells), NEW n \in Nat, n > 0
  PROVE  ResizedTo(StringDataResize(s, n), s, n)
<1> DEFINE b == BufferResize(s, n)
           r == StringDataResize(s, n)
<1>1. IsBuffer(s, StringCells) /\ Len(s.cells) \in Nat
  BY StringBufferFields
<1>2. Grown(b, s, n, StringCells) /\ b.size = n
  BY <1>1, StringCellValues, ResizeCells
<1>3. b \in StringBuffers
  BY ResizeStringBuffer
<1>4. r = [b EXCEPT !.len = n - 1, !.cells[n] = Nul]
  BY DEF StringDataResize
<1> HIDE DEF b, r
<1>5. /\ b.cells \in Seq(StringCells) /\ Len(b.cells) \in Nat
      /\ n \in 1..Len(b.cells) /\ Len(s.cells) <= Len(b.cells)
      /\ \A i \in 1..Len(s.cells) : b.cells[i] = s.cells[i]
  BY <1>1, <1>2 DEF Grown, IsBuffer, Keeps
<1> DEFINE cells == [b.cells EXCEPT ![n] = Nul]
<1>6. /\ cells \in Seq(StringCells) /\ Len(cells) = Len(b.cells) /\ cells[n] = Nul
      /\ \A i \in 1..Len(b.cells) : i # n => cells[i] = b.cells[i]
  BY <1>5, StringCellValues
<1>7. r = [[b EXCEPT !.len = n - 1] EXCEPT !.cells = cells]
  BY <1>3, <1>4, SMT DEF StringBuffers
<1> HIDE DEF cells
<1>8. n - 1 \in Nat
  OBVIOUS
<1>9. r \in StringBuffers /\ r.pod = b.pod /\ r.cells = cells /\ r.len = n - 1 /\ r.size = b.size
  <2> DEFINE c == [b EXCEPT !.len = n - 1]
  <2>1. /\ c \in StringBuffers /\ c.pod = b.pod /\ c.cells = b.cells /\ c.len = n - 1
        /\ c.size = b.size
    BY <1>3, <1>8, SMT DEF StringBuffers
  <2>2. r = [c EXCEPT !.cells = cells]
    BY <1>7
  <2> HIDE DEF c
  <2>3. /\ r \in StringBuffers /\ r.pod = c.pod /\ r.cells = cells /\ r.len = c.len
        /\ r.size = c.size
    BY <1>6, <2>1, <2>2, SMT DEF StringBuffers
  <2>4. QED BY <2>1, <2>3
<1>10. ASSUME NEW i \in 1..Len(s.cells), i # n PROVE r.cells[i] = s.cells[i]
  <2>1. i \in 1..Len(b.cells)
    BY <1>1, <1>5
  <2>2. QED BY <1>5, <1>6, <1>9, <1>10, <2>1
<1>11. b.pod = s.pod
  BY <1>2 DEF Grown, SameKind
<1>12. QED BY <1>2, <1>5, <1>6, <1>9, <1>10, <1>11 DEF ResizedTo, r

(* What the invariant says of the numbers. *)
LEMMA TapeNumbers ==
  ASSUME NEW b, NEW t, HoldsTape(b, t)
  PROVE  /\ b.str \in StringBuffers /\ b.str.pod /\ b.str.size <= Len(b.str.cells)
         /\ b.get \in Nat /\ b.getEnd \in Nat /\ b.base \in Nat /\ b.put \in Nat /\ b.putEnd \in Nat
         /\ b.str.len \in Nat /\ Len(b.str.cells) \in Nat
         /\ b.get <= b.getEnd /\ b.getEnd = b.str.len /\ b.str.len <= Len(b.str.cells) - 1
         /\ b.put <= b.putEnd /\ b.putEnd <= Len(b.str.cells) - 1
         /\ t.text \in Seq(Char) /\ Len(t.text) \in Nat /\ t.read = b.get /\ t.write = b.put
         /\ Len(t.text) = IF b.put < b.getEnd THEN b.getEnd ELSE b.put
<1>1. b \in StreamBuffers /\ t \in Tapes
  BY DEF HoldsTape
<1>2. /\ b.str \in StringBuffers /\ b.get \in Nat /\ b.getEnd \in Nat /\ b.base \in Nat
      /\ b.put \in Nat /\ b.putEnd \in Nat
  BY <1>1 DEF StreamBuffers
<1>3. t.text \in Seq(Char) /\ Len(t.text) \in Nat
  BY <1>1 DEF Tapes
<1>4. b.str.len \in Nat /\ Len(b.str.cells) \in Nat
  BY <1>2, StringBufferFields DEF HoldsTape
<1>5. QED BY <1>2, <1>3, <1>4 DEF HoldsTape, Capacity, Larger

(* sync() gives the string the whole text, and its terminator. *)
LEMMA SyncedHolds ==
  ASSUME NEW b, NEW t, HoldsTape(b, t)
  PROVE  /\ HoldsTape(Synced(b), t)
         /\ Text(Synced(b).str) = t.text
         /\ Synced(b).str.cells[Synced(b).str.len + 1] = Nul
         /\ Synced(b).get = b.get /\ Synced(b).put = b.put
<1> DEFINE n == Larger(b.put, b.getEnd) + 1
           s == StringDataResize(b.str, n)
           c == Synced(b)
<1>1. /\ b.str \in StringBuffers /\ b.str.pod /\ b.str.size <= Len(b.str.cells)
      /\ b.get \in Nat /\ b.getEnd \in Nat /\ b.base \in Nat /\ b.put \in Nat /\ b.putEnd \in Nat
      /\ b.str.len \in Nat /\ Len(b.str.cells) \in Nat
      /\ b.get <= b.getEnd /\ b.getEnd = b.str.len /\ b.str.len <= Len(b.str.cells) - 1
      /\ b.put <= b.putEnd /\ b.putEnd <= Len(b.str.cells) - 1
      /\ t.text \in Seq(Char) /\ Len(t.text) \in Nat /\ t.read = b.get /\ t.write = b.put
      /\ Len(t.text) = IF b.put < b.getEnd THEN b.getEnd ELSE b.put
  BY TapeNumbers
<1>2. /\ n \in Nat /\ n > 0 /\ n - 1 = Len(t.text) /\ n <= Len(b.str.cells)
      /\ b.get <= n - 1 /\ b.put <= n - 1
  <2>1. Larger(b.put, b.getEnd) = Len(t.text)
    BY <1>1 DEF Larger
  <2>2. n = Len(t.text) + 1
    BY <2>1
  <2> HIDE DEF n
  <2>3. CASE b.put < b.getEnd
    BY <1>1, <2>2, <2>3
  <2>4. CASE ~(b.put < b.getEnd)
    BY <1>1, <2>2, <2>4
  <2>5. QED BY <2>3, <2>4
<1> HIDE DEF n
<1>3. ResizedTo(s, b.str, n)
  BY <1>1, <1>2, ResizedString
<1>4. c = [b EXCEPT !.str = s, !.getEnd = s.len, !.base = b.put, !.putEnd = Capacity(b.str)]
  BY DEF Synced, n
<1> HIDE DEF s, c
<1>5. /\ s \in StringBuffers /\ s.pod /\ s.len = n - 1 /\ s.size = n
      /\ n <= Len(s.cells) /\ Len(b.str.cells) <= Len(s.cells) /\ s.cells[n] = Nul
      /\ s.cells \in Seq(StringCells) /\ Len(s.cells) \in Nat
  BY <1>3 DEF ResizedTo, StringBuffers
<1>6. Capacity(b.str) \in Nat /\ s.len \in Nat
  BY <1>1, <1>2, <1>5 DEF Capacity
<1>7. /\ c = [str |-> s, get |-> b.get, getEnd |-> s.len, base |-> b.put, put |-> b.put,
              putEnd |-> Capacity(b.str)]
  <2>1. b \in StreamBuffers
    BY DEF HoldsTape
  <2>2. QED BY <1>4, <2>1 DEF StreamBuffers
<1>8. /\ c.str = s /\ c.get = b.get /\ c.getEnd = s.len /\ c.put = b.put
      /\ c.putEnd = Capacity(b.str)
  BY <1>7
<1>9. c \in StreamBuffers
  BY <1>1, <1>5, <1>6, <1>7 DEF StreamBuffers
<1>10. ASSUME NEW i \in 1..Len(t.text) PROVE s.cells[i] = t.text[i]
  <2>1. i \in 1..Len(b.str.cells) /\ i # n
    BY <1>1, <1>2
  <2>2. s.cells[i] = b.str.cells[i]
    BY <1>3, <2>1 DEF ResizedTo
  <2>3. QED BY <2>2 DEF HoldsTape
<1>11. Larger(c.put, c.getEnd) = Len(t.text)
  BY <1>1, <1>2, <1>5, <1>8 DEF Larger
<1>12. /\ c.str.pod /\ c.str.size <= Len(c.str.cells) /\ c.get <= c.getEnd /\ c.str.len <= Capacity(c.str)
       /\ c.put <= c.putEnd /\ c.putEnd <= Capacity(c.str)
  BY <1>1, <1>2, <1>5, <1>8 DEF Capacity
<1>13. HoldsTape(c, t)
  BY <1>1, <1>8, <1>9, <1>10, <1>11, <1>12 DEF HoldsTape
<1>14. Text(s) = t.text
  <2>1. s # NoString
    BY <1>5, StringAssumption
  <2>2. Text(s) = SubSeq(s.cells, 1, n - 1)
    BY <1>5, <2>1 DEF Text
  <2>3. /\ SubSeq(s.cells, 1, n - 1) \in Seq(StringCells)
        /\ Len(SubSeq(s.cells, 1, n - 1)) = n - 1
        /\ \A i \in 1..(n - 1) : SubSeq(s.cells, 1, n - 1)[i] = s.cells[i]
    BY <1>2, <1>5
  <2>4. t.text \in Seq(StringCells)
    BY <1>1, StringCellValues
  <2>5. QED BY <1>2, <1>10, <2>2, <2>3, <2>4, SeqEqual
<1>15. s.cells[s.len + 1] = Nul
  <2>1. s.len + 1 = n
    BY <1>2, <1>5
  <2>2. QED BY <1>5, <2>1
<1>16. QED BY <1>8, <1>13, <1>14, <1>15 DEF c

(* What is written appears on the tape, once. *)
Written(t, ch) ==
  [t EXCEPT !.write = @ + 1,
            !.text = [i \in 1..Larger(Len(@), t.write + 1) |-> IF i = t.write + 1 THEN ch ELSE @[i]]]

LEMMA WrittenIs ==
  ASSUME NEW t \in Tapes, NEW ch \in Char, t.write <= Len(t.text)
  PROVE  /\ Written(t, ch) \in Tapes /\ Written(t, ch).read = t.read
         /\ Written(t, ch).write = t.write + 1
         /\ Len(Written(t, ch).text) = Larger(Len(t.text), t.write + 1)
         /\ \A i \in 1..Larger(Len(t.text), t.write + 1) :
              Written(t, ch).text[i] = IF i = t.write + 1 THEN ch ELSE t.text[i]
<1> DEFINE n == Larger(Len(t.text), t.write + 1)
           cell(i) == IF i = t.write + 1 THEN ch ELSE t.text[i]
           text == [i \in 1..n |-> cell(i)]
           u == Written(t, ch)
<1>1. t.text \in Seq(Char) /\ Len(t.text) \in Nat /\ t.write \in Nat /\ t.read \in Nat
  BY DEF Tapes
<1>2. n \in Nat
  BY <1>1 DEF Larger
<1>3. ASSUME NEW i \in 1..n PROVE cell(i) \in Char
  <2>1. CASE i = t.write + 1
    BY <2>1
  <2>2. CASE i # t.write + 1
    <3>1. i \in 1..Len(t.text)
      BY <1>1, <2>2 DEF Larger
    <3>2. QED BY <1>1, <2>2, <3>1
  <2>3. QED BY <2>1, <2>2
<1>4. u = [text |-> text, read |-> t.read, write |-> t.write + 1]
  <2>1. u = [t EXCEPT !.write = t.write + 1, !.text = text]
    BY DEF Written
  <2> HIDE DEF text, u
  <2>2. QED BY <2>1 DEF Tapes
<1> HIDE DEF n, cell, u
<1>5. text \in Seq(Char) /\ Len(text) = n /\ \A i \in 1..n : text[i] = cell(i)
  BY <1>2, <1>3
<1> HIDE DEF text
<1>6. u \in Tapes /\ u.text = text /\ u.read = t.read /\ u.write = t.write + 1
  BY <1>1, <1>4, <1>5 DEF Tapes
<1>7. QED BY <1>5, <1>6 DEF u, n, cell

(* A buffer s with n characters in use and ch put behind the first w, where*)
(* what it held before was the text of the tape.                           *)
LEMMA PutHolds ==
  ASSUME NEW b, NEW t, HoldsTape(b, t), NEW ch \in Char, NEW c \in StreamBuffers,
         c.str.pod, c.str.size <= Len(c.str.cells),
         c.get = b.get, c.put = b.put + 1, c.getEnd = c.str.len,
         c.str.len = b.str.len \/ (b.str.len <= b.put /\ c.str.len = b.put + 1),
         c.put <= c.putEnd, c.putEnd <= Capacity(c.str), c.str.len <= Capacity(c.str),
         c.str.cells[b.put + 1] = ch,
         \A i \in 1..Len(t.text) : i # b.put + 1 => c.str.cells[i] = b.str.cells[i]
  PROVE  HoldsTape(c, Written(t, ch))
<1> DEFINE u == Written(t, ch)
<1>1. /\ b.get \in Nat /\ b.getEnd \in Nat /\ b.put \in Nat /\ b.str.len \in Nat
      /\ b.get <= b.getEnd /\ b.getEnd = b.str.len
      /\ t.text \in Seq(Char) /\ Len(t.text) \in Nat /\ t.read = b.get /\ t.write = b.put
      /\ Len(t.text) = IF b.put < b.getEnd THEN b.getEnd ELSE b.put
  BY TapeNumbers
<1>2. t \in Tapes /\ t.write <= Len(t.text)
  BY <1>1 DEF HoldsTape
<1>3. /\ u \in Tapes /\ u.read = t.read /\ u.write = t.write + 1
      /\ Len(u.text) = Larger(Len(t.text), t.write + 1)
      /\ \A i \in 1..Larger(Len(t.text), t.write + 1) :
           u.text[i] = IF i = t.write + 1 THEN ch ELSE t.text[i]
  BY <1>2, WrittenIs
<1> HIDE DEF u
<1>4. c.get <= c.getEnd
  BY <1>1
<1>5. Len(u.text) = Larger(c.put, c.getEnd)
  <2>1. CASE c.str.len = b.str.len
    BY <1>1, <1>3, <2>1 DEF Larger
  <2>2. CASE b.str.len <= b.put /\ c.str.len = b.put + 1
    BY <1>1, <1>3, <2>2 DEF Larger
  <2>3. QED BY <2>1, <2>2
<1>6. ASSUME NEW i \in 1..Len(u.text) PROVE c.str.cells[i] = u.text[i]
  <2>1. u.text[i] = IF i = b.put + 1 THEN ch ELSE t.text[i]
    BY <1>1, <1>3
  <2>2. CASE i = b.put + 1
    BY <2>1, <2>2
  <2>3. CASE i # b.put + 1
    <3>1. i \in 1..Len(t.text)
      BY <1>1, <1>3, <2>3 DEF Larger
    <3>2. b.str.cells[i] = t.text[i]
      BY <3>1 DEF HoldsTape
    <3>3. QED BY <2>1, <2>3, <3>1, <3>2
  <2>4. QED BY <2>2, <2>3
<1>7. QED BY <1>1, <1>3, <1>4, <1>5, <1>6 DEF HoldsTape, u

(* Buffer r is s with one character put into a cell. *)
CellIsPut(r, s, k, ch) ==
  /\ r \in StringBuffers /\ r.pod = s.pod /\ r.size = s.size /\ r.len = s.len
  /\ Len(r.cells) = Len(s.cells) /\ r.cells[k] = ch
  /\ \A i \in 1..Len(s.cells) : i # k => r.cells[i] = s.cells[i]

LEMMA CellPut ==
  ASSUME NEW s \in StringBuffers, NEW k \in 1..Len(s.cells), NEW ch \in Char
  PROVE  CellIsPut([s EXCEPT !.cells[k] = ch], s, k, ch)
<1> DEFINE r == [s EXCEPT !.cells[k] = ch]
           cells == [s.cells EXCEPT ![k] = ch]
<1>1. s.cells \in Seq(StringCells) /\ ch \in StringCells
  BY StringCellValues DEF StringBuffers
<1>2. /\ cells \in Seq(StringCells) /\ Len(cells) = Len(s.cells) /\ cells[k] = ch
      /\ \A i \in 1..Len(s.cells) : i # k => cells[i] = s.cells[i]
  BY <1>1
<1>3. r = [s EXCEPT !.cells = cells]
  BY SMT DEF StringBuffers
<1> HIDE DEF cells, r
<1>4. /\ r \in StringBuffers /\ r.pod = s.pod /\ r.size = s.size /\ r.len = s.len
      /\ r.cells = cells
  BY <1>2, <1>3, SMT DEF StringBuffers
<1>5. QED BY <1>2, <1>4 DEF r, CellIsPut

LEMMA StreamPutStep ==
  ASSUME StreamIInv, NEW ch \in Char, StreamPut(ch) PROVE StreamIInv'
<1> DEFINE b == stream
           t == tape
<1>0. HoldsTape(b, t)
  BY DEF StreamIInv
<1>1. /\ b.str \in StringBuffers /\ b.str.pod /\ b.str.size <= Len(b.str.cells)
      /\ b.get \in Nat /\ b.getEnd \in Nat /\ b.base \in Nat /\ b.put \in Nat /\ b.putEnd \in Nat
      /\ b.str.len \in Nat /\ Len(b.str.cells) \in Nat
      /\ b.get <= b.getEnd /\ b.getEnd = b.str.len /\ b.str.len <= Len(b.str.cells) - 1
      /\ b.put <= b.putEnd /\ b.putEnd <= Len(b.str.cells) - 1
      /\ t.text \in Seq(Char) /\ Len(t.text) \in Nat /\ t.read = b.get /\ t.write = b.put
      /\ Len(t.text) = IF b.put < b.getEnd THEN b.getEnd ELSE b.put
  BY <1>0, TapeNumbers
<1>2. tape' = Written(t, ch)
  BY DEF StreamPut, Written
<1>3. \A i \in 1..Len(t.text) : i \in 1..Len(b.str.cells)
  BY <1>1
<1>4. CASE b.put < b.putEnd
  <2> DEFINE s == [b.str EXCEPT !.cells[b.put + 1] = ch]
             c == [b EXCEPT !.str = s, !.put = b.put + 1]
  <2>1. b.put + 1 \in 1..Len(b.str.cells) /\ b.put + 1 \in Nat
    BY <1>1, <1>4
  <2>2. /\ s \in StringBuffers /\ s.pod = b.str.pod /\ s.size = b.str.size /\ s.len = b.str.len
        /\ Len(s.cells) = Len(b.str.cells) /\ s.cells[b.put + 1] = ch
        /\ \A i \in 1..Len(b.str.cells) : i # b.put + 1 => s.cells[i] = b.str.cells[i]
    <3>1. CellIsPut(s, b.str, b.put + 1, ch)
      BY <1>1, <2>1, CellPut
    <3> HIDE DEF s
    <3>2. QED BY <3>1 DEF CellIsPut
  <2>3. stream' = [b EXCEPT !.str.cells[b.put + 1] = ch, !.put = b.put + 1]
    BY <1>4 DEF StreamPut
  <2>4. stream' = c
    <3>1. b \in StreamBuffers
      BY <1>0 DEF HoldsTape
    <3>2. QED BY <2>3, <3>1, SMT DEF StreamBuffers
  <2> HIDE DEF s
  <2>5. c = [str |-> s, get |-> b.get, getEnd |-> b.getEnd, base |-> b.base, put |-> b.put + 1,
             putEnd |-> b.putEnd]
    <3> DEFINE d == [b EXCEPT !.str = s]
    <3>1. b \in StreamBuffers
      BY <1>0 DEF HoldsTape
    <3>2. d = [str |-> s, get |-> b.get, getEnd |-> b.getEnd, base |-> b.base, put |-> b.put,
               putEnd |-> b.putEnd]
      BY <3>1, SMT DEF StreamBuffers
    <3>3. c = [d EXCEPT !.put = b.put + 1]
      BY <3>1, SMT DEF StreamBuffers
    <3> HIDE DEF c, d
    <3>4. QED BY <3>2, <3>3
  <2> HIDE DEF c
  <2>6. c \in StreamBuffers
    BY <1>1, <2>1, <2>2, <2>5 DEF StreamBuffers
  <2>7. /\ c.str = s /\ c.get = b.get /\ c.getEnd = b.getEnd /\ c.put = b.put + 1
        /\ c.putEnd = b.putEnd
    BY <2>5
  <2>8. c.put <= c.putEnd /\ c.putEnd <= Capacity(c.str) /\ c.str.len <= Capacity(c.str)
    <3>1. Capacity(c.str) = Len(b.str.cells) - 1
      BY <2>2, <2>7 DEF Capacity
    <3>2. c.str.len = b.str.len
      BY <2>2, <2>7
    <3>3. QED BY <1>1, <1>4, <2>7, <3>1, <3>2
  <2>9. HoldsTape(c, Written(t, ch))
    BY <1>0, <1>1, <1>3, <2>2, <2>6, <2>7, <2>8, PutHolds
  <2>10. QED BY <1>2, <2>4, <2>9 DEF StreamIInv
<1>5. CASE ~(b.put < b.putEnd)
  <2> DEFINE r == IF b.str.len <= b.put THEN StringDataResize(b.str, b.put + 2) ELSE b.str
             s == [r EXCEPT !.cells[b.put + 1] = ch]
             c == Pointers(s, b.get, b.base, b.put + 1)
  <2>1. stream' = c
    BY <1>5 DEF StreamPut, Overflowed
  <2>2. /\ r \in StringBuffers /\ r.pod /\ r.size <= Len(r.cells) /\ Len(r.cells) \in Nat
        /\ b.put + 2 <= Len(r.cells) /\ r.len <= Len(r.cells) - 1 /\ r.len \in Nat
        /\ Len(b.str.cells) <= Len(r.cells)
        /\ r.len = b.str.len \/ (b.str.len <= b.put /\ r.len = b.put + 1)
        /\ \A i \in 1..Len(t.text) : i # b.put + 1 => r.cells[i] = b.str.cells[i]
    <3>1. CASE b.str.len <= b.put
      <4> DEFINE n == b.put + 2
      <4>1. n \in Nat /\ n > 0 /\ n - 1 = b.put + 1 /\ Len(t.text) < n
        BY <1>1, <3>1
      <4>2. r = StringDataResize(b.str, n)
        BY <3>1
      <4> HIDE DEF r, n
      <4>3. ResizedTo(r, b.str, n)
        BY <1>1, <4>1, <4>2, ResizedString
      <4>4. /\ r \in StringBuffers /\ r.pod /\ r.len = n - 1 /\ r.size = n
            /\ n <= Len(r.cells) /\ Len(b.str.cells) <= Len(r.cells)
            /\ \A i \in 1..Len(b.str.cells) : i # n => r.cells[i] = b.str.cells[i]
        BY <4>3 DEF ResizedTo
      <4>5. Len(r.cells) \in Nat
        BY <4>4 DEF StringBuffers
      <4>6. ASSUME NEW i \in 1..Len(t.text) PROVE r.cells[i] = b.str.cells[i]
        BY <1>1, <1>3, <4>1, <4>4
      <4>7. QED BY <1>1, <3>1, <4>1, <4>4, <4>5, <4>6 DEF n
    <3>2. CASE ~(b.str.len <= b.put)
      <4>1. r = b.str
        BY <3>2
      <4> HIDE DEF r
      <4>2. b.put + 2 <= Len(b.str.cells)
        BY <1>1, <3>2
      <4>3. QED BY <1>1, <4>1, <4>2
    <3>3. QED BY <3>1, <3>2
  <2> HIDE DEF r
  <2>3. b.put + 1 \in 1..Len(r.cells) /\ b.put + 1 \in Nat
    BY <1>1, <2>2
  <2>4. /\ s \in StringBuffers /\ s.pod = r.pod /\ s.size = r.size /\ s.len = r.len
        /\ Len(s.cells) = Len(r.cells) /\ s.cells[b.put + 1] = ch
        /\ \A i \in 1..Len(r.cells) : i # b.put + 1 => s.cells[i] = r.cells[i]
    <3>1. CellIsPut(s, r, b.put + 1, ch)
      BY <2>2, <2>3, CellPut
    <3> HIDE DEF s
    <3>2. QED BY <3>1 DEF CellIsPut
  <2> HIDE DEF s
  <2>5. c = [str |-> s, get |-> b.get, getEnd |-> s.len, base |-> b.base, put |-> b.put + 1,
             putEnd |-> Capacity(s)]
    BY DEF Pointers
  <2> HIDE DEF c
  <2>6. Capacity(s) = Len(r.cells) - 1 /\ Capacity(s) \in Nat /\ s.len \in Nat
    BY <2>2, <2>4, <1>1 DEF Capacity
  <2>7. c \in StreamBuffers
    BY <1>1, <2>3, <2>4, <2>5, <2>6 DEF StreamBuffers
  <2>8. /\ c.str = s /\ c.get = b.get /\ c.getEnd = s.len /\ c.put = b.put + 1
        /\ c.putEnd = Capacity(s)
    BY <2>5
  <2>9. c.put <= c.putEnd /\ c.putEnd <= Capacity(c.str) /\ c.str.len <= Capacity(c.str)
    BY <1>1, <2>2, <2>4, <2>6, <2>8
  <2>10. ASSUME NEW i \in 1..Len(t.text), i # b.put + 1 PROVE c.str.cells[i] = b.str.cells[i]
    <3>1. i \in 1..Len(r.cells)
      BY <1>1, <1>3, <2>2
    <3>2. QED BY <2>2, <2>4, <2>8, <2>10, <3>1
  <2>11. /\ c.str.pod /\ c.str.size <= Len(c.str.cells) /\ c.getEnd = c.str.len
         /\ c.str.len = b.str.len \/ (b.str.len <= b.put /\ c.str.len = b.put + 1)
         /\ c.str.cells[b.put + 1] = ch
    BY <2>2, <2>4, <2>8
  <2>12. HoldsTape(c, Written(t, ch))
    BY <1>0, <2>7, <2>8, <2>9, <2>10, <2>11, PutHolds
  <2>13. QED BY <1>2, <2>1, <2>12 DEF StreamIInv
<1>6. QED BY <1>4, <1>5

(* What is read is not read again. *)
LEMMA StreamGetStep ==
  ASSUME StreamIInv, StreamGet PROVE StreamIInv'
<1> DEFINE b == IF stream.get = stream.getEnd THEN Synced(stream) ELSE stream
           c == [b EXCEPT !.get = b.get + 1]
           t == tape
           u == [t EXCEPT !.read = t.read + 1]
<1>1. HoldsTape(b, t)
  BY SyncedHolds DEF StreamIInv
<1>2. IF b.get = b.getEnd THEN stream' = b /\ tape' = t ELSE stream' = c /\ tape' = u
  BY DEF StreamGet
<1> HIDE DEF b
<1>3. CASE b.get = b.getEnd
  BY <1>1, <1>2, <1>3 DEF StreamIInv
<1>4. CASE b.get # b.getEnd
  <2>1. b \in StreamBuffers /\ t \in Tapes
    BY <1>1 DEF HoldsTape
  <2>2. b.get \in Nat /\ b.getEnd \in Nat /\ b.get <= b.getEnd /\ t.read = b.get
    BY <1>1, TapeNumbers
  <2>3. b.get + 1 \in Nat /\ b.get + 1 <= b.getEnd
    BY <1>4, <2>2
  <2>4. c = [str |-> b.str, get |-> b.get + 1, getEnd |-> b.getEnd, base |-> b.base,
             put |-> b.put, putEnd |-> b.putEnd]
    BY <2>1, SMT DEF StreamBuffers
  <2>5. u = [text |-> t.text, read |-> t.read + 1, write |-> t.write]
    BY <2>1, SMT DEF Tapes
  <2>6. stream' = c /\ tape' = u
    BY <1>2, <1>4
  <2> HIDE DEF c, u
  <2>7. /\ c \in StreamBuffers /\ c.str = b.str /\ c.get = b.get + 1 /\ c.getEnd = b.getEnd
        /\ c.put = b.put /\ c.putEnd = b.putEnd
    BY <2>1, <2>3, <2>4, SMT DEF StreamBuffers
  <2>8. u \in Tapes /\ u.text = t.text /\ u.read = t.read + 1 /\ u.write = t.write
    BY <2>1, <2>2, <2>3, <2>5, SMT DEF Tapes
  <2>9. HoldsTape(c, u)
    BY <1>1, <2>2, <2>3, <2>7, <2>8 DEF HoldsTape
  <2>10. QED BY <2>6, <2>9 DEF StreamIInv
<1>5. QED BY <1>3, <1>4

LEMMA StreamInitIInv == StreamInit => StreamIInv
<1> SUFFICES ASSUME StreamInit PROVE StreamIInv
  OBVIOUS
<1>1. CASE stream = EmptyStream /\ tape = [text |-> <<>>, read |-> 0, write |-> 0]
  <2> DEFINE n == InitialBuffer + 1
             s == BufferReserve(NullData, n)
  <2>1. n \in Nat /\ n >= 1
    BY StreamAssumption
  <2>2. NullData = [pod |-> TRUE, cells |-> <<>>, size |-> 0, len |-> 0]
    BY DEF NullData, WithLength, EmptyBuffer
  <2>3. NullData \in StringBuffers /\ NullData.size <= Len(NullData.cells)
    BY <2>2 DEF StringBuffers
  <2>4. IsBuffer(NullData, StringCells)
    BY <2>3, StringBufferFields
  <2>5. Grown(s, NullData, n, StringCells) /\ s.size = NullData.size
    BY <2>1, <2>4, StringCellValues, ReserveCells
  <2>6. s \in StringBuffers
    BY <2>1, <2>3, ReserveStringBuffer
  <2>7. stream = Pointers(s, 0, 0, 0)
    BY <1>1 DEF EmptyStream
  <2> HIDE DEF s, n
  <2>8. s.pod /\ s.len = 0 /\ s.size = 0 /\ Len(s.cells) \in Nat /\ Len(s.cells) >= 1
    BY <2>1, <2>2, <2>5 DEF Grown, SameKind, IsBuffer
  <2>9. stream = [str |-> s, get |-> 0, getEnd |-> 0, base |-> 0, put |-> 0, putEnd |-> Capacity(s)]
    BY <2>7, <2>8 DEF Pointers
  <2>10. Capacity(s) = Len(s.cells) - 1 /\ Capacity(s) \in Nat
    BY <2>8 DEF Capacity
  <2>11. stream \in StreamBuffers
    BY <2>6, <2>9, <2>10 DEF StreamBuffers
  <2>12. tape \in Tapes /\ tape.text = <<>> /\ tape.read = 0 /\ tape.write = 0
    BY <1>1 DEF Tapes
  <2>13. /\ stream.str = s /\ stream.get = 0 /\ stream.getEnd = 0 /\ stream.put = 0
         /\ stream.putEnd = Capacity(s)
    BY <2>9
  <2>14. QED
    BY <2>8, <2>10, <2>11, <2>12, <2>13 DEF StreamIInv, HoldsTape, Larger
<1>2. ASSUME NEW t \in Texts(2), NEW at \in {0, Len(t)},
             stream = StreamOn(t, at), tape = [text |-> t, read |-> 0, write |-> at]
      PROVE  StreamIInv
  <2> DEFINE s == StringOf(t)
  <2>1. t \in Seq(Char) /\ Len(t) \in Nat /\ at \in Nat /\ at <= Len(t)
    <3>1. PICK k \in 0..2 : t \in [1..k -> Char]
      BY DEF Texts
    <3>2. t \in Seq(Char)
      BY <3>1
    <3>3. QED BY <3>2
  <2>2. /\ Append(t, Nul) \in Seq(StringCells) /\ Len(Append(t, Nul)) = Len(t) + 1
        /\ \A i \in 1..Len(t) : Append(t, Nul)[i] = t[i]
    <3>1. t \in Seq(StringCells)
      BY <2>1, StringCellValues
    <3>2. QED BY <3>1, StringCellValues
  <2>3. s = [pod |-> TRUE, cells |-> Append(t, Nul), size |-> Len(Append(t, Nul)), len |-> Len(t)]
    BY DEF StringOf, WithLength, BufferOf
  <2> HIDE DEF s
  <2>4. /\ s \in StringBuffers /\ s.pod /\ s.size = Len(t) + 1 /\ s.len = Len(t)
        /\ s.cells = Append(t, Nul)
    BY <2>1, <2>2, <2>3 DEF StringBuffers
  <2>5. Capacity(s) = Len(t)
    BY <2>1, <2>2, <2>4 DEF Capacity
  <2>6. stream = [str |-> s, get |-> 0, getEnd |-> Len(t), base |-> 0, put |-> at, putEnd |-> Len(t)]
    BY <1>2, <2>4, <2>5 DEF StreamOn, Pointers, s
  <2>7. stream \in StreamBuffers
    BY <2>1, <2>4, <2>6 DEF StreamBuffers
  <2>8. /\ stream.str = s /\ stream.get = 0 /\ stream.getEnd = Len(t) /\ stream.put = at
        /\ stream.putEnd = Len(t)
    BY <2>6
  <2>9. tape \in Tapes /\ tape.text = t /\ tape.read = 0 /\ tape.write = at
    BY <1>2, <2>1 DEF Tapes
  <2>10. Len(tape.text) = Larger(stream.put, stream.getEnd)
    BY <2>1, <2>8, <2>9 DEF Larger
  <2>11. /\ stream.str.pod /\ stream.str.size <= Len(stream.str.cells)
         /\ stream.getEnd = stream.str.len /\ Capacity(stream.str) = Len(t)
         /\ stream.str.len = Len(t)
    BY <2>1, <2>2, <2>4, <2>5, <2>8
  <2>12. \A i \in 1..Len(tape.text) : stream.str.cells[i] = tape.text[i]
    BY <2>2, <2>4, <2>8, <2>9
  <2>13. /\ stream.get <= stream.getEnd /\ stream.put <= stream.putEnd
         /\ stream.str.len <= Len(t) /\ stream.putEnd <= Len(t)
    BY <2>1, <2>8, <2>11
  <2> HIDE DEF s
  <2>14. QED BY <2>7, <2>8, <2>9, <2>10, <2>11, <2>12, <2>13 DEF StreamIInv, HoldsTape
<1>3. QED BY <1>1, <1>2 DEF StreamInit

LEMMA StreamStep == StreamIInv /\ [StreamNext]_streamVars => StreamIInv'
<1> SUFFICES ASSUME StreamIInv, [StreamNext]_streamVars PROVE StreamIInv'
  OBVIOUS
<1>1. ASSUME NEW ch \in Char, StreamPut(ch) PROVE StreamIInv'
  BY <1>1, StreamPutStep
<1>2. CASE StreamGet
  BY <1>2, StreamGetStep
<1>3. CASE StreamStr
  <2>1. stream' = Synced(stream) /\ tape' = tape
    BY <1>3 DEF StreamStr
  <2>2. HoldsTape(Synced(stream), tape)
    BY SyncedHolds DEF StreamIInv
  <2>3. QED BY <2>1, <2>2 DEF StreamIInv
<1>4. CASE UNCHANGED streamVars
  BY <1>4 DEF streamVars, StreamIInv
<1>5. QED BY <1>1, <1>2, <1>3, <1>4 DEF StreamNext

(* The cells hold the tape after any sequence of writes, reads and calls of*)
(* str(), for any size of the first buffer and any text.                   *)
THEOREM StreamInvariant == StreamSpec => []StreamIInv
BY StreamInitIInv, StreamStep, PTL DEF StreamSpec

(* What was written can be read, in order and once, and str() has all of   *)
(* it with its terminator.                                                 *)
THEOREM StreamsAreTapes == StreamSpec => []StreamIsTape
<1>1. StreamIInv => StreamIsTape
  <2> SUFFICES ASSUME StreamIInv PROVE StreamIsTape
    OBVIOUS
  <2>1. HoldsTape(stream, tape)
    BY DEF StreamIInv
  <2>2. /\ Text(Synced(stream).str) = tape.text
        /\ Synced(stream).str.cells[Synced(stream).str.len + 1] = Nul
    BY <2>1, SyncedHolds
  <2>3. /\ stream.get \in Nat /\ stream.getEnd \in Nat /\ stream.put \in Nat
        /\ Len(tape.text) \in Nat /\ tape.read = stream.get
        /\ Len(tape.text) = IF stream.put < stream.getEnd THEN stream.getEnd ELSE stream.put
    BY <2>1, TapeNumbers
  <2>4. ASSUME NEW i \in (stream.get + 1)..stream.getEnd PROVE stream.str.cells[i] = tape.text[i]
    <3>1. i \in 1..Len(tape.text)
      BY <2>3
    <3>2. QED BY <2>1, <3>1 DEF HoldsTape
  <2>5. QED BY <2>2, <2>3, <2>4 DEF StreamIsTape
<1>2. QED BY StreamInvariant, <1>1, PTL

-----------------------------------------------------------------------------
(* The calendar. *)

(* Instants: a day, and a second of that day. *)
SecondOfDay == {s \in Int : 0 <= s /\ s < 86400}
Instants == Int \X SecondOfDay

(* Whole days and the seconds that are left of some seconds. *)
LEMMA DaySeconds ==
  ASSUME NEW s \in Int
  PROVE  /\ s \div 86400 \in Int /\ s % 86400 \in SecondOfDay
         /\ s \in SecondOfDay => s \div 86400 = 0 /\ s % 86400 = s
<1> DEFINE q == s \div 86400
           r == s % 86400
<1>1. q \in Int
  BY SMT
<1>2. r \in Int /\ 0 <= r /\ r < 86400
  BY SMT
<1>3. s = 86400 * q + r
  BY SMT
<1> HIDE DEF q, r
<1>4. s \in SecondOfDay => q = 0 /\ r = s
  BY <1>1, <1>2, <1>3, SMT DEF SecondOfDay
<1>5. r \in SecondOfDay
  BY <1>2, SMT DEF SecondOfDay
<1>6. QED BY <1>1, <1>4, <1>5, SMT DEF q, r

LEMMA LaterTwice ==
  ASSUME NEW i \in Int \X Int, NEW a \in Int, NEW b \in Int
  PROVE  Later(Later(i, a), b) = Later(i, a + b)
<1> DEFINE s == i[2] + a
           q == s \div 86400
           r == s % 86400
<1>1. i[1] \in Int /\ i[2] \in Int /\ s \in Int
  OBVIOUS
<1>2. q \in Int /\ r \in Int /\ s = 86400 * q + r
  BY <1>1
<1>3. s + b = i[2] + (a + b)
  BY <1>1
<1> HIDE DEF s
<1> HIDE DEF q, r
<1>4. (s + b) \div 86400 = q + (r + b) \div 86400 /\ (s + b) % 86400 = (r + b) % 86400
  BY <1>2
<1>5. Later(i, a) = <<i[1] + q, r>>
  BY DEF Later, q, r, s
<1>6. Later(Later(i, a), b) = <<i[1] + q + (r + b) \div 86400, (r + b) % 86400>>
  BY <1>5 DEF Later
<1>7. Later(i, a + b) = <<i[1] + (s + b) \div 86400, (s + b) % 86400>>
  BY <1>3 DEF Later
<1>8. i[1] + q + (r + b) \div 86400 = i[1] + (s + b) \div 86400
  BY <1>1, <1>2, <1>4
<1>9. QED BY <1>4, <1>6, <1>7, <1>8

(* An instant later by some seconds, and by none. *)
LEMMA LaterIsInstant ==
  ASSUME NEW i \in Int \X Int, NEW a \in Int
  PROVE  /\ Later(i, a) \in Instants
         /\ i \in Instants => Later(i, 0) = i
<1> DEFINE s == i[2] + a
<1>1. i[1] \in Int /\ i[2] \in Int /\ s \in Int /\ i = <<i[1], i[2]>>
  BY SMT
<1>2. s \div 86400 \in Int /\ s % 86400 \in SecondOfDay
  BY <1>1, DaySeconds
<1>3. Later(i, a) = <<i[1] + s \div 86400, s % 86400>>
  BY SMT DEF Later
<1> HIDE DEF s
<1>4. i[1] + s \div 86400 \in Int
  BY <1>1, <1>2, SMT
<1>5. Later(i, a) \in Instants
  BY <1>2, <1>3, <1>4, SMT DEF Instants
<1>6. ASSUME i \in Instants PROVE Later(i, 0) = i
  <2>1. i[2] \in SecondOfDay
    BY <1>6, SMT DEF Instants
  <2>2. i[2] \div 86400 = 0 /\ i[2] % 86400 = i[2]
    BY <1>1, <2>1, DaySeconds
  <2>3. i[2] + 0 = i[2]
    BY <1>1, SMT
  <2>4. Later(i, 0) = <<i[1] + (i[2] + 0) \div 86400, (i[2] + 0) % 86400>>
    BY SMT DEF Later
  <2>5. Later(i, 0) = <<i[1] + i[2] \div 86400, i[2] % 86400>>
    BY <2>3, <2>4, SMT
  <2>6. i[1] + i[2] \div 86400 = i[1]
    BY <1>1, <2>2, SMT
  <2>7. QED BY <1>1, <2>2, <2>5, <2>6, SMT
<1>7. QED BY <1>5, <1>6

(* The year of a day. *)
LEMMA YearExists ==
  ASSUME NEW day \in Int
  PROVE  LET y == YearOf(day)
         IN y \in Int /\ DaysBeforeYear(y) <= day /\ day < DaysBeforeYear(y + 1)
<1> DEFINE q == (400 * day) \div 146097
           in(n) == DaysBeforeYear(n) <= day /\ day < DaysBeforeYear(n + 1)
<1>1. q \in Int /\ 146097 * q <= 400 * day /\ 400 * day < 146097 * q + 146097
  OBVIOUS
<1> HIDE DEF q
<1>2. DaysBeforeYear(q - 1) <= day
  BY <1>1 DEF DaysBeforeYear
<1>3. day < DaysBeforeYear(q + 1 + 1)
  BY <1>1 DEF DaysBeforeYear
<1>4. \E n \in (q - 1)..(q + 1) : in(n)
  <2>1. DaysBeforeYear(q) \in Int /\ DaysBeforeYear(q + 1) \in Int
    BY <1>1 DEF DaysBeforeYear
  <2>2. q - 1 + 1 = q /\ q - 1 \in (q - 1)..(q + 1) /\ q \in (q - 1)..(q + 1)
        /\ q + 1 \in (q - 1)..(q + 1)
    BY <1>1
  <2>3. CASE day < DaysBeforeYear(q)
    <3>1. in(q - 1)
      BY <1>2, <2>2, <2>3
    <3>2. QED BY <2>2, <3>1
  <2>4. CASE DaysBeforeYear(q) <= day /\ day < DaysBeforeYear(q + 1)
    BY <2>2, <2>4
  <2>5. CASE DaysBeforeYear(q + 1) <= day
    <3>1. in(q + 1)
      BY <1>3, <2>5
    <3>2. QED BY <2>2, <3>1
  <2>6. QED BY <2>1, <2>3, <2>4, <2>5
<1>5. YearOf(day) = CHOOSE n \in (q - 1)..(q + 1) : in(n)
  BY DEF YearOf, q
<1> HIDE DEF in
<1>6. YearOf(day) \in (q - 1)..(q + 1) /\ in(YearOf(day))
  BY <1>4, <1>5
<1>7. QED BY <1>1, <1>6 DEF in

LEMMA YearLength ==
  ASSUME NEW y \in Int
  PROVE  /\ DaysBeforeYear(y) \in Int
         /\ DaysBeforeYear(y + 1) = DaysBeforeYear(y) + 365 + (IF IsLeap(y) THEN 1 ELSE 0)
<1>1. (y + 4) \div 4 - (y + 3) \div 4 = IF y % 4 = 0 THEN 1 ELSE 0
  OBVIOUS
<1>2. (y + 100) \div 100 - (y + 99) \div 100 = IF y % 100 = 0 THEN 1 ELSE 0
  OBVIOUS
<1>3. (y + 400) \div 400 - (y + 399) \div 400 = IF y % 400 = 0 THEN 1 ELSE 0
  OBVIOUS
<1>4. (y % 400 = 0 => y % 100 = 0) /\ (y % 100 = 0 => y % 4 = 0)
  OBVIOUS
<1>5. y + 1 + 3 = y + 4 /\ y + 1 + 99 = y + 100 /\ y + 1 + 399 = y + 400
  OBVIOUS
<1>6. QED BY <1>1, <1>2, <1>3, <1>4, <1>5 DEF DaysBeforeYear, IsLeap

(* Days before a month. *)
LEMMA MonthTable ==
  ASSUME NEW y \in Int
  PROVE  LET l == IF IsLeap(y) THEN 1 ELSE 0
             D(m) == DaysBeforeMonth(y, m)
         IN /\ D(0) = 0 /\ D(1) = 31 /\ D(2) = 59 + l /\ D(3) = 90 + l /\ D(4) = 120 + l
            /\ D(5) = 151 + l /\ D(6) = 181 + l /\ D(7) = 212 + l /\ D(8) = 243 + l
            /\ D(9) = 273 + l /\ D(10) = 304 + l /\ D(11) = 334 + l /\ D(12) = 365 + l
<1> DEFINE leap == IsLeap(y)
<1> HIDE DEF leap
<1>1. \A m \in 0..12 : DaysBeforeMonth(y, m) =
        <<0, 31, 59, 90, 120, 151, 181, 212, 243, 273, 304, 334, 365>>[m + 1]
          + IF m > 1 /\ leap THEN 1 ELSE 0
  BY SMT DEF DaysBeforeMonth, leap
<1>2. QED BY SMT DEF DaysBeforeMonth

LEMMA MonthDays ==
  ASSUME NEW y \in Int, NEW m \in 0..12 PROVE DaysBeforeMonth(y, m) \in Int
<1>1. m = 0 \/ m = 1 \/ m = 2 \/ m = 3 \/ m = 4 \/ m = 5 \/ m = 6 \/ m = 7 \/ m = 8 \/ m = 9
      \/ m = 10 \/ m = 11 \/ m = 12
  BY SMT
<1> DEFINE l == IF IsLeap(y) THEN 1 ELSE 0
<1>2. l \in Int
  OBVIOUS
<1>3. QED BY <1>1, <1>2, MonthTable, SMT

LEMMA MonthExists ==
  ASSUME NEW y \in Int, NEW yday \in Int, 0 <= yday, yday < 365 + (IF IsLeap(y) THEN 1 ELSE 0)
  PROVE  /\ MonthOf(y, yday) \in 0..11
         /\ DaysBeforeMonth(y, MonthOf(y, yday)) <= yday
         /\ yday < DaysBeforeMonth(y, MonthOf(y, yday) + 1)
<1> DEFINE l == IF IsLeap(y) THEN 1 ELSE 0
           D(n) == DaysBeforeMonth(y, n)
           in(n) == D(n) <= yday /\ yday < D(n + 1)
<1>1. l \in {0, 1} /\ yday < 365 + l
  OBVIOUS
<1>2. /\ D(0) = 0 /\ D(1) = 31 /\ D(2) = 59 + l /\ D(3) = 90 + l /\ D(4) = 120 + l
      /\ D(5) = 151 + l /\ D(6) = 181 + l /\ D(7) = 212 + l /\ D(8) = 243 + l
      /\ D(9) = 273 + l /\ D(10) = 304 + l /\ D(11) = 334 + l /\ D(12) = 365 + l
  BY MonthTable
<1> HIDE DEF l, D
<1>3. \E n \in 0..11 : in(n)
  <2>1. in(0) \/ in(1) \/ in(2) \/ in(3) \/ in(4) \/ in(5) \/ in(6) \/ in(7) \/ in(8) \/ in(9)
        \/ in(10) \/ in(11)
    BY <1>1, <1>2, SMT
  <2>2. 0 \in 0..11 /\ 1 \in 0..11 /\ 2 \in 0..11 /\ 3 \in 0..11 /\ 4 \in 0..11 /\ 5 \in 0..11
        /\ 6 \in 0..11 /\ 7 \in 0..11 /\ 8 \in 0..11 /\ 9 \in 0..11 /\ 10 \in 0..11 /\ 11 \in 0..11
    OBVIOUS
  <2> HIDE DEF in
  <2>3. QED BY <2>1, <2>2
<1>4. MonthOf(y, yday) = CHOOSE n \in 0..11 : in(n)
  BY DEF MonthOf, D
<1> HIDE DEF in
<1>5. MonthOf(y, yday) \in 0..11 /\ in(MonthOf(y, yday))
  BY <1>3, <1>4
<1>6. QED BY <1>5 DEF in, D

(* The fields t are those of the second i[2] of the day i[1]. *)
AreFieldsOf(t, i, dst) ==
  /\ t \in TimeFields /\ t.dst = dst
  /\ t.day \in 1..DaysIn(t.year, t.month)
  /\ DaysBeforeYear(t.year) + DaysBeforeMonth(t.year, t.month) + t.day - 1 = i[1]
  /\ t.hour * 3600 + t.minute * 60 + t.second = i[2]

(* localtime() takes an instant apart into fields that denote it, with the *)
(* day in its month.                                                       *)
LEMMA FieldsCorrect ==
  ASSUME NEW i \in Instants, NEW dst \in {0, 1}
  PROVE  AreFieldsOf(FieldsOf(i, dst), i, dst)
<1> DEFINE day == i[1]
           y == YearOf(day)
           yday == day - DaysBeforeYear(y)
           m == MonthOf(y, yday)
           t == FieldsOf(i, dst)
           s == i[2]
<1>1. day \in Int /\ s \in Int /\ 0 <= s /\ s < 86400
  BY SMT DEF Instants, SecondOfDay
<1>2. t = [year |-> y, month |-> m, day |-> yday - DaysBeforeMonth(y, m) + 1,
           hour |-> s \div 3600, minute |-> (s \div 60) % 60, second |-> s % 60, dst |-> dst]
  BY DEF FieldsOf
<1> HIDE DEF day, s, t
<1>3. y \in Int /\ DaysBeforeYear(y) <= day /\ day < DaysBeforeYear(y + 1)
  BY <1>1, YearExists
<1> HIDE DEF y
<1>4. yday \in Int /\ 0 <= yday /\ yday < 365 + (IF IsLeap(y) THEN 1 ELSE 0)
        /\ DaysBeforeYear(y) \in Int /\ DaysBeforeYear(y) + yday = day
  BY <1>1, <1>3, YearLength, SMT
<1> HIDE DEF yday
<1>5. m \in 0..11 /\ DaysBeforeMonth(y, m) <= yday /\ yday < DaysBeforeMonth(y, m + 1)
  BY <1>3, <1>4, MonthExists
<1> HIDE DEF m
<1>6. DaysBeforeMonth(y, m) \in Int /\ DaysBeforeMonth(y, m + 1) \in Int
  <2>1. m \in 0..12 /\ m + 1 \in 0..12
    BY <1>5, SMT
  <2>2. QED BY <1>3, <2>1, MonthDays
<1>7. s \div 3600 \in Int /\ (s \div 60) % 60 \in Int /\ s % 60 \in Int
  BY <1>1, SMT
<1>8. (s \div 3600) * 3600 + ((s \div 60) % 60) * 60 + (s % 60) = s
  BY <1>1, SMT
<1>9. yday - DaysBeforeMonth(y, m) + 1 \in Int
  BY <1>4, <1>6, SMT
<1>10. t \in TimeFields /\ t.dst = dst /\ t.year = y /\ t.month = m
       /\ t.day = yday - DaysBeforeMonth(y, m) + 1
       /\ t.hour = s \div 3600 /\ t.minute = (s \div 60) % 60 /\ t.second = s % 60
  BY <1>2, <1>3, <1>5, <1>7, <1>9, SMT DEF TimeFields
<1>11. t.day \in 1..DaysIn(t.year, t.month)
  BY <1>4, <1>5, <1>6, <1>10, SMT DEF DaysIn
<1>12. DaysBeforeYear(t.year) + DaysBeforeMonth(t.year, t.month) + t.day - 1 = day
  BY <1>1, <1>4, <1>6, <1>10, SMT
<1>13. t.hour * 3600 + t.minute * 60 + t.second = s
  BY <1>8, <1>10
<1>14. QED BY <1>10, <1>11, <1>12, <1>13 DEF AreFieldsOf, t, day, s

LEMMA InstantIsInstant ==
  ASSUME NEW t \in TimeFields PROVE Instant(t) \in Instants
<1> DEFINE d == DaysBeforeYear(t.year) + DaysBeforeMonth(t.year, t.month) + t.day - 1
           s == (t.hour - t.dst) * 3600 + t.minute * 60 + t.second
<1>1. t.year \in Int /\ t.month \in 0..12 /\ t.day \in Int /\ t.hour \in Int /\ t.minute \in Int
      /\ t.second \in Int /\ t.dst \in Int
  BY SMT DEF TimeFields
<1>2. DaysBeforeYear(t.year) \in Int /\ DaysBeforeMonth(t.year, t.month) \in Int
  BY <1>1, YearLength, MonthDays
<1>3. d \in Int /\ s \in Int
  BY <1>1, <1>2, SMT
<1>4. Instant(t) = Later(<<d, 0>>, s)
  BY DEF Instant
<1> HIDE DEF d, s
<1>5. <<d, 0>> \in Int \X Int
  BY <1>3, SMT
<1>6. QED BY <1>3, <1>4, <1>5, LaterIsInstant

(* The instant of fields in daylight saving time is an hour earlier.       *)
LEMMA InstantOfFields ==
  ASSUME NEW i \in Instants, NEW dst \in {0, 1}, NEW t, AreFieldsOf(t, i, dst)
  PROVE  Instant(t) = Later(i, 0 - dst * 3600)
<1> DEFINE d == DaysBeforeYear(t.year) + DaysBeforeMonth(t.year, t.month) + t.day - 1
           s == (t.hour - t.dst) * 3600 + t.minute * 60 + t.second
           a == 0 - dst * 3600
<1>1. i \in Int \X Int /\ i[1] \in Int /\ i[2] \in Int /\ i = <<i[1], i[2]>> /\ i[2] \in SecondOfDay
  BY SMT DEF Instants, SecondOfDay
<1>2. t.hour \in Int /\ t.minute \in Int /\ t.second \in Int /\ t.dst = dst
      /\ t.hour * 3600 + t.minute * 60 + t.second = i[2]
  BY DEF AreFieldsOf, TimeFields
<1>3. d = i[1]
  BY DEF AreFieldsOf
<1>4. a \in Int /\ s = i[2] + a
  BY <1>1, <1>2, SMT
<1>5. Instant(t) = Later(<<d, 0>>, s)
  BY DEF Instant
<1> HIDE DEF d, s, a
<1>6. Later(<<i[1], 0>>, i[2]) = i
  <2>1. i[2] \div 86400 = 0 /\ i[2] % 86400 = i[2]
    BY <1>1, DaySeconds
  <2>2. 0 + i[2] = i[2] /\ i[1] + 0 = i[1]
    BY <1>1, SMT
  <2>3. Later(<<i[1], 0>>, i[2]) = <<i[1] + (0 + i[2]) \div 86400, (0 + i[2]) % 86400>>
    BY SMT DEF Later
  <2>4. Later(<<i[1], 0>>, i[2]) = <<i[1] + 0, i[2]>>
    BY <2>1, <2>2, <2>3, SMT
  <2>5. QED BY <1>1, <2>2, <2>4, SMT
<1>7. <<i[1], 0>> \in Int \X Int
  BY <1>1, SMT
<1>8. Later(Later(<<i[1], 0>>, i[2]), a) = Later(<<i[1], 0>>, i[2] + a)
  BY <1>1, <1>4, <1>7, LaterTwice
<1>9. QED BY <1>3, <1>4, <1>5, <1>6, <1>8 DEF a

(* mktime() takes the fields of localtime() back to the instant. *)
LEMMA LocalTimeCorrect ==
  ASSUME NEW i \in Instants
  PROVE  /\ LocalTime(i) \in TimeFields /\ Instant(LocalTime(i)) = i
         /\ LocalTime(i).day \in 1..DaysIn(LocalTime(i).year, LocalTime(i).month)
<1> DEFINE t == FieldsOf(i, 0)
           j == Later(i, 3600)
           u == FieldsOf(j, 1)
<1>1. i \in Int \X Int
  BY SMT DEF Instants, SecondOfDay
<1>2. j \in Instants /\ Later(i, 0) = i
  BY <1>1, LaterIsInstant
<1>3. AreFieldsOf(t, i, 0) /\ AreFieldsOf(u, j, 1)
  BY <1>2, FieldsCorrect
<1> HIDE DEF t, u
<1>4. Instant(t) = i
  <2>1. Instant(t) = Later(i, 0 - 0 * 3600)
    BY <1>3, InstantOfFields
  <2>2. 0 - 0 * 3600 = 0
    BY SMT
  <2>3. QED BY <1>2, <2>1, <2>2, SMT
<1>5. Instant(u) = i
  <2> HIDE DEF j
  <2>1. Instant(u) = Later(j, (0 - 1 * 3600))
    BY <1>2, <1>3, InstantOfFields
  <2>2. 3600 \in Int /\ (0 - 1 * 3600) \in Int /\ 3600 + (0 - 1 * 3600) = 0
    BY SMT
  <2>3. Later(j, (0 - 1 * 3600)) = Later(i, 3600 + (0 - 1 * 3600))
    BY <1>1, <2>2, LaterTwice DEF j
  <2>4. QED BY <1>2, <2>1, <2>2, <2>3
<1>6. LocalTime(i) = IF t.month \in Summer THEN u ELSE t
  BY DEF LocalTime, t, u
<1>7. QED BY <1>3, <1>4, <1>5, <1>6 DEF AreFieldsOf

-----------------------------------------------------------------------------
(* A DateTime. *)

(* Fields with any month, as they may be before they are parsed. *)
AnyFields ==
  [year : Int, month : Int, day : Int, hour : Int, minute : Int, second : Int, dst : {0, 1}]

LEMMA ParsedFields ==
  ASSUME NEW t \in AnyFields, Parses(t) PROVE t \in TimeFields
BY SMT DEF AnyFields, TimeFields, Parses

LEMMA TimesAreFields ==
  ASSUME NEW t \in TimeFields
  PROVE  t \in AnyFields /\ t.year \in Int /\ t.month \in Int /\ t.day \in Int /\ t.hour \in Int
BY SMT DEF AnyFields, TimeFields

(* Time fields with one of them replaced, and with several. *)
LEMMA OneReplaced ==
  ASSUME NEW t \in AnyFields, NEW v \in Int
  PROVE  /\ [t EXCEPT !.year = v] \in AnyFields /\ [t EXCEPT !.month = v] \in AnyFields
         /\ [t EXCEPT !.day = v] \in AnyFields /\ [t EXCEPT !.hour = v] \in AnyFields
         /\ [t EXCEPT !.second = v] \in AnyFields /\ [t EXCEPT !.dst = 0] \in AnyFields
BY SMT DEF AnyFields

LEMMA SomeReplaced ==
  ASSUME NEW t \in AnyFields, NEW a \in Int, NEW b \in Int
  PROVE  /\ [t EXCEPT !.year = a, !.dst = 0] \in AnyFields
         /\ [t EXCEPT !.month = a, !.day = b, !.dst = 0] \in AnyFields
         /\ [t EXCEPT !.hour = a, !.second = b, !.dst = 0] \in AnyFields
         /\ [t EXCEPT !.year = a, !.month = b, !.dst = 0] \in AnyFields
<1>1. [t EXCEPT !.year = a, !.dst = 0] \in AnyFields
  <2>1. [t EXCEPT !.year = a, !.dst = 0] =
        [[t EXCEPT !.year = a] EXCEPT !.dst = 0]
    BY SMT DEF AnyFields
  <2>2. QED BY <2>1, OneReplaced
<1>2. [t EXCEPT !.month = a, !.day = b, !.dst = 0] \in AnyFields
  <2>1. [t EXCEPT !.month = a, !.day = b, !.dst = 0] =
        [[[t EXCEPT !.month = a] EXCEPT !.day = b] EXCEPT !.dst = 0]
    BY SMT DEF AnyFields
  <2>2. QED BY <2>1, OneReplaced
<1>3. [t EXCEPT !.hour = a, !.second = b, !.dst = 0] \in AnyFields
  <2>1. [t EXCEPT !.hour = a, !.second = b, !.dst = 0] =
        [[[t EXCEPT !.hour = a] EXCEPT !.second = b] EXCEPT !.dst = 0]
    BY SMT DEF AnyFields
  <2>2. QED BY <2>1, OneReplaced
<1>4. [t EXCEPT !.year = a, !.month = b, !.dst = 0] \in AnyFields
  <2>1. [t EXCEPT !.year = a, !.month = b, !.dst = 0] =
        [[[t EXCEPT !.year = a] EXCEPT !.month = b] EXCEPT !.dst = 0]
    BY SMT DEF AnyFields
  <2>2. QED BY <2>1, OneReplaced
<1>5. QED BY <1>1, <1>2, <1>3, <1>4

LEMMA CallingIs ==
  ASSUME NEW name, NEW by, Calling(name, by)
  PROVE  timeCall'.name = name /\ timeCall'.before = time /\ timeCall'.by = by
BY DEF Calling

(* What a call of addMonths is to do, or of an adder of seconds. *)
MonthsOutcome(t, before, by) ==
  \/ before.month + by <= -12 \/ before.month + by \notin Ints
  \/ /\ MonthIndex(t) = MonthIndex(before) + by
     /\ t.day = before.day /\ t.hour = before.hour
SecondsOutcome(t, before, by) ==
  /\ by \notin Ints \/ Instant(t) = Later(Instant(before), by)
  /\ t.month \in 0..11 /\ t.day \in 1..DaysIn(t.year, t.month)

LEMMA ArithmeticOf ==
  ASSUME NEW name, timeCall'.name = name, NEW by, timeCall'.by = by, timeCall'.before = time,
         name = "months" => MonthsOutcome(time', time, by),
         name = "seconds" => SecondsOutcome(time', time, by),
         name = "throw" => time' = time
  PROVE  TimeArithmetic'
<1>1. CASE name = "months"
  BY <1>1 DEF TimeArithmetic, MonthsOutcome, MonthIndex, Ints
<1>2. CASE name = "seconds"
  BY <1>2 DEF TimeArithmetic, SecondsOutcome, Instant, DaysIn, DaysBeforeMonth, DaysBeforeYear,
              IsLeap, Later, Ints
<1>3. CASE name = "throw"
  BY <1>3 DEF TimeArithmetic
<1>4. CASE name \notin {"months", "seconds", "throw"}
  BY <1>4 DEF TimeArithmetic
<1>5. QED BY <1>1, <1>2, <1>3, <1>4

(* A call that prints new fields and parses them. *)
LEMMA RenewStep ==
  ASSUME TimeIInv, NEW name \in {"years", "months", "set"}, NEW by, NEW t \in AnyFields,
         RenewTime(name, by, t), name = "months" => MonthsOutcome(t, time, by)
  PROVE  TimeIInv'
<1>1. CASE Parses(t)
  <2>1. time' = t /\ timeShared' = FALSE /\ Calling(name, by)
    BY <1>1 DEF RenewTime
  <2>2. time' \in TimeFields
    BY <1>1, <2>1, ParsedFields
  <2>3. timeCall'.name = name /\ timeCall'.before = time /\ timeCall'.by = by
    BY <2>1, CallingIs
  <2>4. TimeArithmetic'
    BY <2>1, <2>3, ArithmeticOf
  <2>5. QED BY <2>1, <2>2, <2>4 DEF TimeIInv, TimeFields
<1>2. CASE ~Parses(t)
  <2>1. UNCHANGED <<time, timeShared, timeCopy>> /\ Calling("throw", by)
    BY <1>2 DEF RenewTime
  <2>2. timeCall'.name = "throw" /\ timeCall'.before = time /\ timeCall'.by = by
    BY <2>1, CallingIs
  <2>3. TimeArithmetic'
    BY <2>1, <2>2, ArithmeticOf
  <2>4. QED BY <2>1, <2>3 DEF TimeIInv, TimeFields
<1>3. QED BY <1>1, <1>2

(* What an int holds of a number that fits. *)
LEMMA AsIntIs ==
  ASSUME NEW n \in Int
  PROVE  AsInt(n) \in Int /\ (n \in Ints => AsInt(n) = n)
<1>1. MaxInt + 1 \in Int /\ 2 * MaxInt + 2 \in Int /\ 2 * MaxInt + 2 > 0 /\ n + MaxInt + 1 \in Int
  BY TimeAssumption
<1>2. (n + MaxInt + 1) % (2 * MaxInt + 2) \in Int
  BY <1>1
<1>3. QED BY <1>1, <1>2 DEF AsInt

LEMMA MonthsAddedIs ==
  ASSUME NEW t \in TimeFields, NEW n \in Int
  PROVE  MonthsAdded(t, n) \in AnyFields /\ MonthsOutcome(MonthsAdded(t, n), t, n)
<1> DEFINE m == AsInt(t.month + n)
           u == MonthsAdded(t, n)
<1>1. t.month \in Int /\ t.year \in Int /\ m \in Int /\ (t.month + n \in Ints => m = t.month + n)
  <2>1. t.month \in Int /\ t.year \in Int /\ t.month + n \in Int
    BY SMT DEF TimeFields
  <2>2. QED BY <2>1, AsIntIs
<1> HIDE DEF m
<1>2. CASE m < 0
  <2> DEFINE y == t.year - (Quotient(m, 12) + 1)
             k == 12 + Remainder(m, 12)
  <2>1. y \in Int /\ k \in Int
    BY <1>1, <1>2, SMT DEF Quotient, Remainder
  <2>2. m > -12 => y = t.year - 1 /\ k = 12 + m
    BY <1>1, <1>2, SMT DEF Quotient, Remainder
  <2>3. u = [t EXCEPT !.year = y, !.month = k, !.dst = 0]
    BY <1>2 DEF MonthsAdded, m
  <2> HIDE DEF y, k, u
  <2>4. u \in AnyFields /\ u.year = y /\ u.month = k /\ u.day = t.day /\ u.hour = t.hour
    <3>1. u \in AnyFields
      BY <2>1, <2>3, TimesAreFields, SomeReplaced
    <3>2. u = [[[t EXCEPT !.year = y] EXCEPT !.month = k] EXCEPT !.dst = 0]
      BY <2>3, SMT DEF TimeFields
    <3>3. QED BY <3>1, <3>2, SMT DEF TimeFields
  <2>5. ASSUME m > -12, t.month + n \in Ints PROVE MonthIndex(u) = MonthIndex(t) + n
    <3>1. u.year = t.year - 1 /\ u.month = 12 + (t.month + n)
      BY <1>1, <2>2, <2>4, <2>5
    <3>2. 12 * (t.year - 1) + (12 + (t.month + n)) = 12 * t.year + t.month + n
      BY <1>1, SMT
    <3>3. QED BY <3>1, <3>2 DEF MonthIndex
  <2>6. MonthsOutcome(u, t, n)
    BY <1>1, <2>4, <2>5, SMT DEF MonthsOutcome
  <2>7. QED BY <2>4, <2>6 DEF u
<1>3. CASE ~(m < 0)
  <2> DEFINE y == t.year + m \div 12
             k == m % 12
  <2>1. y \in Int /\ k \in Int /\ 12 * y + k = 12 * t.year + m
    <3>1. m \div 12 \in Int /\ m % 12 \in Int
      BY <1>1, SMT
    <3>2. m = 12 * (m \div 12) + (m % 12)
      BY <1>1, SMT
    <3>3. QED BY <1>1, <3>1, <3>2, SMT
  <2>2. u = [t EXCEPT !.year = y, !.month = k, !.dst = 0]
    BY <1>3 DEF MonthsAdded, m
  <2> HIDE DEF y, k, u
  <2>3. u \in AnyFields /\ u.year = y /\ u.month = k /\ u.day = t.day /\ u.hour = t.hour
    <3>1. u \in AnyFields
      BY <2>1, <2>2, TimesAreFields, SomeReplaced
    <3>2. u = [[[t EXCEPT !.year = y] EXCEPT !.month = k] EXCEPT !.dst = 0]
      BY <2>2, SMT DEF TimeFields
    <3>3. QED BY <3>1, <3>2, SMT DEF TimeFields
  <2>4. t.month + n \in Ints => MonthIndex(u) = MonthIndex(t) + n
    BY <1>1, <2>1, <2>3, SMT DEF MonthIndex
  <2>5. MonthsOutcome(u, t, n)
    BY <2>3, <2>4 DEF MonthsOutcome
  <2>6. QED BY <2>3, <2>5 DEF u
<1>4. QED BY <1>2, <1>3

LEMMA NormalCorrect ==
  ASSUME NEW t \in TimeFields
  PROVE  /\ Normal(t) \in TimeFields /\ Instant(Normal(t)) = Instant(t)
         /\ Normal(t).day \in 1..DaysIn(Normal(t).year, Normal(t).month)
<1>1. Instant(t) \in Instants
  BY InstantIsInstant
<1>2. QED BY <1>1, LocalTimeCorrect DEF Normal

(* A call that adds seconds moves the instant by them, when an int holds   *)
(* their number.                                                           *)
LEMMA SecondsStep ==
  ASSUME TimeIInv, NEW n \in Int, NEW unit \in Int, Adder(n, unit)
  PROVE  TimeIInv'
<1> DEFINE by == n * unit
           sum == Later(Instant(time), AsInt(by))
<1>0. by \in Int
  BY SMT
<1> HIDE DEF by
<1>1. time' = LocalTime(sum) /\ timeShared' = FALSE /\ Calling("seconds", by)
  BY DEF Adder, AddSeconds, by
<1>10. AsInt(by) \in Int /\ (by \in Ints => AsInt(by) = by)
  BY <1>0, AsIntIs
<1>2. Instant(time) \in Instants /\ Instant(time) \in Int \X Int
  BY InstantIsInstant, SMT DEF TimeIInv, Instants, SecondOfDay
<1>3. sum \in Instants
  BY <1>2, <1>10, LaterIsInstant
<1> HIDE DEF sum
<1>4. LocalTime(sum) \in TimeFields /\ Instant(LocalTime(sum)) = sum
      /\ LocalTime(sum).day \in 1..DaysIn(LocalTime(sum).year, LocalTime(sum).month)
  BY <1>3, LocalTimeCorrect
<1>5. LocalTime(sum).month \in 0..11
  BY <1>4 DEF TimeFields
<1>6. SecondsOutcome(time', time, by)
  BY <1>1, <1>4, <1>5, <1>10 DEF SecondsOutcome, sum
<1>7. timeCall'.name = "seconds" /\ timeCall'.before = time /\ timeCall'.by = by
  BY <1>1, CallingIs
<1>8. TimeArithmetic'
  BY <1>6, <1>7, ArithmeticOf
<1>9. QED BY <1>1, <1>4, <1>8 DEF TimeIInv, TimeFields

LEMMA TimeInitIInv == TimeInit => TimeIInv
<1> SUFFICES ASSUME TimeInit PROVE TimeIInv
  OBVIOUS
<1>1. PICK y \in Year, m \in {1, 6, 11}, d \in {1, 31}, h \in {0, 23} : time = At(y, m, d, h, 59, 30)
  BY DEF TimeInit
<1>2. time \in TimeFields
  BY <1>1, TimeAssumption, SMT DEF At, TimeFields
<1>3. TimeArithmetic
  BY DEF TimeInit, TimeArithmetic
<1>4. QED BY <1>2, <1>3 DEF TimeInit, TimeIInv

LEMMA TimeStep == TimeIInv /\ [TimeNext]_timeVars => TimeIInv'
<1> SUFFICES ASSUME TimeIInv, [TimeNext]_timeVars PROVE TimeIInv'
  OBVIOUS
<1>1. time \in TimeFields /\ timeShared \in BOOLEAN
  BY DEF TimeIInv
<1>2. ASSUME UNCHANGED <<time, timeCall>> PROVE TimeArithmetic'
  BY <1>2 DEF TimeIInv, TimeArithmetic, MonthIndex, Instant, DaysIn, DaysBeforeMonth,
              DaysBeforeYear, IsLeap, Later
<1>3. CASE CopyTime
  BY <1>2, <1>3 DEF CopyTime, TimeIInv, TimeFields
<1>4. CASE DropTime
  BY <1>2, <1>4 DEF DropTime, TimeIInv, TimeFields
<1>5. CASE AddYears
  <2>1. PICK n \in {-1, 1} : RenewTime("years", n, [time EXCEPT !.year = @ + n, !.dst = 0])
    BY <1>5 DEF AddYears
  <2>2. [time EXCEPT !.year = time.year + n, !.dst = 0] \in AnyFields
    <3>1. time \in AnyFields /\ time.year + n \in Int
      BY <1>1, TimesAreFields, SMT
    <3>2. QED BY <3>1, SomeReplaced
  <2>3. QED BY <2>1, <2>2, RenewStep
<1>6. CASE AddMonths
  <2>1. PICK n \in Months : RenewTime("months", n, MonthsAdded(time, n))
    BY <1>6 DEF AddMonths
  <2>2. n \in Int
    <3>1. n \in Ints
      BY TimeAssumption, Zenon
    <3>2. QED BY <3>1, TimeAssumption, SMT DEF Ints
  <2>3. MonthsAdded(time, n) \in AnyFields /\ MonthsOutcome(MonthsAdded(time, n), time, n)
    BY <1>1, <2>2, MonthsAddedIs
  <2>4. QED BY <2>1, <2>3, RenewStep
<1>7. CASE SetYMD
  <2>1. PICK t \in AnyFields : RenewTime("set", 0, t)
    <3>1. PICK y \in Year, d \in {29, 32} :
            IF d \in 1..31
            THEN RenewTime("set", 0, At(y, 1, d, time.hour, time.minute, time.second))
            ELSE RenewTime("set", 0, At(y, 1, d, 24, 60, 62))
      BY <1>7 DEF SetYMD
    <3>2. At(y, 1, d, time.hour, time.minute, time.second) \in AnyFields
          /\ At(y, 1, d, 24, 60, 62) \in AnyFields
      BY <1>1, TimeAssumption, SMT DEF At, TimeFields, AnyFields
    <3>3. QED BY <3>1, <3>2
  <2>2. QED BY <2>1, RenewStep
<1>8. CASE SetYear
  <2>1. PICK y \in Year : RenewTime("set", 0, [time EXCEPT !.year = y, !.dst = 0])
    BY <1>8 DEF SetYear
  <2>2. [time EXCEPT !.year = y, !.dst = 0] \in AnyFields
    BY <1>1, TimeAssumption, TimesAreFields, SomeReplaced
  <2>3. QED BY <2>1, <2>2, RenewStep
<1>9. CASE SetHMS
  <2>1. PICK t \in AnyFields : RenewTime("set", 0, t)
    <3>1. PICK h \in {23, 24}, s \in {60, 61} :
            IF h \in 0..23 /\ s \in 0..60
            THEN RenewTime("set", 0, [time EXCEPT !.hour = h, !.second = s, !.dst = 0])
            ELSE RenewTime("set", 0, [time EXCEPT !.hour = 24])
      BY <1>9 DEF SetHMS
    <3>2. [time EXCEPT !.hour = h, !.second = s, !.dst = 0] \in AnyFields
          /\ [time EXCEPT !.hour = 24] \in AnyFields
      <4>1. time \in AnyFields /\ h \in Int /\ s \in Int /\ 24 \in Int
        BY <1>1, TimesAreFields
      <4>2. [time EXCEPT !.hour = h, !.second = s, !.dst = 0] \in AnyFields
        BY <4>1, SomeReplaced
      <4>3. [time EXCEPT !.hour = 24] \in AnyFields
        BY <4>1, OneReplaced
      <4>4. QED BY <4>2, <4>3
    <3>3. QED BY <3>1, <3>2
  <2>2. QED BY <2>1, RenewStep
<1>10. CASE SetMonthDay
  <2>1. PICK m \in {1, 8}, d \in {0, 31} :
          RenewTime("set", 0, [time EXCEPT !.month = m, !.day = d, !.dst = 0])
    BY <1>10 DEF SetMonthDay
  <2>2. [time EXCEPT !.month = m, !.day = d, !.dst = 0] \in AnyFields
    <3>1. time \in AnyFields /\ m \in Int /\ d \in Int
      BY <1>1, TimesAreFields
    <3>2. QED BY <3>1, SomeReplaced
  <2>3. QED BY <2>1, <2>2, RenewStep
<1>11. CASE AddDays \/ AddHours \/ AddMinutes \/ AddOwnSeconds
  <2>1. PICK n \in Days \cup Hours \cup Minutes \cup Seconds, unit \in {24 * 60 * 60, 60 * 60, 60, 1} :
          Adder(n, unit)
    BY <1>11, Zenon DEF AddDays, AddHours, AddMinutes, AddOwnSeconds
  <2>2. n \in Int /\ unit \in Int
    <3>1. n \in Ints
      BY TimeAssumption, Zenon
    <3>2. n \in Int
      BY <3>1, TimeAssumption, SMT DEF Ints
    <3>3. unit \in Int
      BY SMT
    <3>4. QED BY <3>2, <3>3
  <2>3. QED BY <2>1, <2>2, SecondsStep
<1>13. CASE ToStdTime
  <2>1. /\ time' = Normal(time) /\ Calling("seconds", 0) /\ timeShared' = timeShared
        /\ timeCopy' = IF timeShared THEN Normal(time) ELSE timeCopy
    BY <1>13 DEF ToStdTime, ReadInstant
  <2>2. /\ Normal(time) \in TimeFields /\ Instant(Normal(time)) = Instant(time)
        /\ Normal(time).day \in 1..DaysIn(Normal(time).year, Normal(time).month)
    BY <1>1, NormalCorrect
  <2>3. Later(Instant(time), 0) = Instant(time)
    <3>1. Instant(time) \in Instants /\ Instant(time) \in Int \X Int
      BY <1>1, InstantIsInstant, SMT DEF Instants, SecondOfDay
    <3>2. QED BY <3>1, LaterIsInstant
  <2>4. Normal(time).month \in 0..11
    BY <2>2 DEF TimeFields
  <2>5. SecondsOutcome(time', time, 0)
    BY <2>1, <2>2, <2>3, <2>4 DEF SecondsOutcome
  <2>6. timeCall'.name = "seconds" /\ timeCall'.before = time /\ timeCall'.by = 0
    BY <2>1, CallingIs
  <2>7. TimeArithmetic'
    BY <2>5, <2>6, ArithmeticOf
  <2>8. QED BY <1>1, <2>1, <2>2, <2>7 DEF TimeIInv, TimeFields
<1>14. CASE UNCHANGED timeVars
  BY <1>2, <1>14 DEF timeVars, TimeIInv, TimeFields
<1>15. QED
  BY <1>3, <1>4, <1>5, <1>6, <1>7, <1>8, <1>9, <1>10, <1>11, <1>13, <1>14 DEF TimeNext

(* Data that two DateTimes share is the same for both, and every call does *)
(* its arithmetic as TimeArithmetic says.                                  *)
THEOREM TimeInvariant == TimeSpec => []TimeIInv
BY TimeInitIInv, TimeStep, PTL DEF TimeSpec

(* Months and seconds are added exactly, for all years and choices of the  *)
(* months of summer time, over ends of years and leap days; except for     *)
(* months before last January, and numbers of months or seconds that       *)
(* overflow an int.                                                        *)
THEOREM TimesAreExact == TimeSpec => []TimeArithmetic
<1>1. TimeIInv => TimeArithmetic
  BY DEF TimeIInv
<1>2. QED BY TimeInvariant, <1>1, PTL

(* Whatever is done to one DateTime, a copy of it keeps its instant. *)
THEOREM CopiesKeepInstant == TimeSpec => CopyKeepsInstant
<1>1. TimeIInv /\ [TimeNext]_timeVars
        => [timeCopy # NoTime /\ timeCopy' # NoTime => Instant(timeCopy') = Instant(timeCopy)]_timeVars
  <2> SUFFICES ASSUME TimeIInv, TimeNext, timeCopy # NoTime, timeCopy' # NoTime
               PROVE  Instant(timeCopy') = Instant(timeCopy)
    BY DEF timeVars
  <2>1. CASE ReadInstant
    <3>1. CASE timeShared
      <4>1. timeCopy' = Normal(time) /\ timeCopy = time /\ time \in TimeFields
        BY <2>1, <3>1 DEF ReadInstant, TimeIInv
      <4>2. QED BY <4>1, NormalCorrect
    <3>2. CASE ~timeShared
      BY <2>1, <3>2 DEF ReadInstant
    <3>3. QED BY <3>1, <3>2
  <2>2. CASE timeCopy' = timeCopy
    BY <2>2
  <2>3. ReadInstant \/ timeCopy' = timeCopy
    BY DEF TimeNext, CopyTime, DropTime, AddYears, AddMonths, SetYMD, SetYear, SetHMS, SetMonthDay,
           AddDays, AddHours, AddMinutes, AddOwnSeconds, Adder, AddSeconds, ToStdTime, RenewTime
  <2>4. QED BY <2>1, <2>2, <2>3
<1>2. QED BY TimeInvariant, <1>1, PTL DEF TimeSpec, CopyKeepsInstant

=============================================================================
