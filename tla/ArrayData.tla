------------------------------ MODULE ArrayData ------------------------------
(***************************************************************************)
(* The buffer under Array and StringBase: ArrayData<T> of Array.h.  A      *)
(* buffer is a record: its allocated cells (none when m_data is null), the *)
(* number m_dwSize of those in use, and whether T is a POD type, which     *)
(* decides how cells are allocated and moved.  Positions count from 0, as  *)
(* in the code; cell i of the code is cells[i + 1].                        *)
(***************************************************************************)
EXTENDS Integers, Sequences

CONSTANTS Blank,           \* a default constructed element
          Junk             \* what uninitialised or freed memory holds

(* malloc leaves the cells of a POD type uninitialised, new T[] does not.  *)
FreshCells(pod) == IF pod THEN Junk ELSE Blank

EmptyBuffer(pod) == [pod |-> pod, cells |-> <<>>, size |-> 0]

BufferOf(pod, data) == [pod |-> pod, cells |-> data, size |-> Len(data)]

Contents(a) == SubSeq(a.cells, 1, a.size)

(* A buffer is well-formed: what is in use is allocated.                   *)
IsBuffer(a, S) ==
  /\ {"pod", "cells", "size"} \subseteq DOMAIN a
  /\ a.pod \in BOOLEAN /\ a.cells \in Seq(S) /\ a.size \in 0..Len(a.cells)

(* reallocCb: realloc keeps every byte it can, the other two keep the      *)
(* elements they are told of.                                              *)
Reallocate(a, n, known) ==
  LET kept == IF a.pod THEN Len(a.cells) ELSE known
  IN [a EXCEPT !.cells = [i \in 1..n |-> IF i <= kept THEN a.cells[i] ELSE FreshCells(a.pod)]]

BufferReserve(a, n) ==
  IF a.size < n /\ Len(a.cells) < n THEN Reallocate(a, n, a.size) ELSE a

(* A buffer that is too small grows two and a half times, or to n.         *)
BufferResize(a, n) ==
  LET grown == Len(a.cells) + (Len(a.cells) * 3) \div 2
      room  == IF n <= Len(a.cells) THEN a
               ELSE BufferReserve(a, IF grown < n THEN n ELSE grown)
  IN [room EXCEPT !.size = n]

BufferSqueeze(a) ==
  IF Len(a.cells) = a.size THEN a ELSE Reallocate(a, a.size, Len(a.cells))

(* std::copy of n cells from position "from" to position "to".  For a POD  *)
(* type it is memmove.  Otherwise it assigns one element after the other,  *)
(* forwards: when the target begins inside the source, the elements before *)
(* it are repeated.                                                        *)
CopyCells(a, from, n, to) ==
  LET Source(k) == IF a.pod \/ to <= from THEN k ELSE k % (to - from)
  IN [a EXCEPT !.cells =
        [i \in DOMAIN @ |-> IF i - 1 \in to..(to + n - 1)
                            THEN @[from + Source(i - 1 - to) + 1] ELSE @[i]]]

PushBack(a, v) ==
  LET b == BufferResize(a, a.size + 1)
  IN [b EXCEPT !.cells[b.size] = v]

PushFront(a, v) ==
  LET b == BufferResize(a, a.size + 1)
  IN [CopyCells(b, 0, b.size - 1, 1) EXCEPT !.cells[1] = v]

PopBack(a) == BufferResize(a, a.size - 1)

(* Mutant: the elements are not moved down. *)
PopFrontInPlace(a) == BufferResize(a, a.size - 1)

PopFront(a) == BufferResize(CopyCells(a, 1, a.size - 1, 0), a.size - 1)

Erase(a, from, to) ==
  BufferResize(CopyCells(a, to, a.size - to, from), a.size - (to - from))

(* clone(): the copy has no spare cells. *)
BufferClone(a) == BufferOf(a.pod, Contents(a))

(* Array::append: room for all, then one _push_back after the other, none  *)
(* of which has to grow the buffer.                                        *)
AppendAll(a, data) ==
  LET b == BufferReserve(a, a.size + Len(data))
  IN [b EXCEPT !.cells = [i \in DOMAIN @ |-> IF i \in (a.size + 1)..(a.size + Len(data))
                                             THEN data[i - a.size] ELSE @[i]],
               !.size = a.size + Len(data)]
=============================================================================
