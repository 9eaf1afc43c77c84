---------------------------- MODULE StringStreams ----------------------------
(***************************************************************************)
(* One StringBuf (StringBufBase) and the stream over it: characters are    *)
(* put into the spare cells of a String and read from its text, behind the *)
(* back of its length, until sync() brings the two together.  Pointers of  *)
(* the stream buffer are offsets from the first cell.                      *)
(* Not modelled: a sink; and another String holding the text the stream    *)
(* was made from, or what str() returned, while the stream goes on: it then*)
(* writes into the buffer they share.                                      *)
(***************************************************************************)
EXTENDS Strings

CONSTANT InitialBuffer     \* the size a buffer starts with (32 in the code)

ASSUME StreamAssumption == InitialBuffer \in Nat

VARIABLES stream,          \* m_str, and gptr, egptr, pbase, pptr, epptr
          tape             \* history: what a stream should hold, and where it is read and written

streamVars == <<stream, tape>>

Capacity(s) == Len(s.cells) - 1
Larger(a, b) == IF a < b THEN b ELSE a

(* update_ptrs *)
Pointers(s, input, base, output) ==
  [str |-> s, get |-> input, getEnd |-> s.len, base |-> base, put |-> output, putEnd |-> Capacity(s)]

(* A buffer of its own, or one that begins as a text, to be overwritten    *)
(* from its begin or its end.                                              *)
EmptyStream == Pointers(BufferReserve(NullData, InitialBuffer + 1), 0, 0, 0)
StreamOn(t, at) == Pointers(StringOf(t), 0, 0, at)

StreamInit ==
  \/ stream = EmptyStream /\ tape = [text |-> <<>>, read |-> 0, write |-> 0]
  \/ \E t \in Texts(2) : \E at \in {0, Len(t)} :
       stream = StreamOn(t, at) /\ tape = [text |-> t, read |-> 0, write |-> at]

(* Mutant: the text is cut where writing stands. *)
SyncedAtPut(b) ==
  LET s == StringDataResize(b.str, b.put + 1)
  IN [b EXCEPT !.str = s, !.getEnd = s.len, !.base = b.put, !.putEnd = Capacity(b.str)]

(* sync(): the text reaches as far as was written or could be read. *)
Synced(b) ==
  LET s == StringDataResize(b.str, Larger(b.put, b.getEnd) + 1)
  IN [b EXCEPT !.str = s, !.getEnd = s.len, !.base = b.put, !.putEnd = Capacity(b.str)]

(* append(): called through overflow() when there is no room. *)
Overflowed(b, ch) ==
  LET s == IF b.str.len <= b.put THEN StringDataResize(b.str, b.put + 2) ELSE b.str
  IN Pointers([s EXCEPT !.cells[b.put + 1] = ch], b.get, b.base, b.put + 1)

(* sputc *)
StreamPut(ch) ==
  /\ tape.write < MaxText
  /\ stream' = IF stream.put < stream.putEnd
               THEN [stream EXCEPT !.str.cells[stream.put + 1] = ch, !.put = @ + 1]
               ELSE Overflowed(stream, ch)
  /\ tape' = [tape EXCEPT !.write = @ + 1,
                          !.text = [i \in 1..Larger(Len(@), tape.write + 1) |->
                                      IF i = tape.write + 1 THEN ch ELSE @[i]]]

(* sbumpc, with underflow() at the end of what can be read. *)
StreamGet ==
  LET b == IF stream.get = stream.getEnd THEN Synced(stream) ELSE stream
  IN IF b.get = b.getEnd THEN stream' = b /\ UNCHANGED tape
     ELSE /\ stream' = [b EXCEPT !.get = @ + 1]
          /\ tape' = [tape EXCEPT !.read = @ + 1]

(* str() *)
StreamStr == stream' = Synced(stream) /\ UNCHANGED tape

StreamNext == (\E ch \in Char : StreamPut(ch)) \/ StreamGet \/ StreamStr

StreamSpec == StreamInit /\ [][StreamNext]_streamVars

(* A stream is a tape: what was written can be read, in order and once,    *)
(* and str() has all of it with its terminator, whatever mixture of writes,*)
(* overwrites, reads and growths of the buffer came before.                *)
StreamIsTape ==
  LET s == Synced(stream).str
  IN /\ Text(s) = tape.text /\ s.cells[s.len + 1] = Nul
     /\ stream.get = tape.read
     /\ \A i \in (stream.get + 1)..stream.getEnd : stream.str.cells[i] = tape.text[i]

StreamBuffers ==
  [str : StringBuffers, get : Nat, getEnd : Nat, base : Nat, put : Nat, putEnd : Nat]
Tapes == [text : Seq(Char), read : Nat, write : Nat]

(* Inductive invariant: the cells hold the text of the tape up to where was*)
(* written or can be read, whatever the length of the string, and there is *)
(* a cell left for a terminator.                                           *)
HoldsTape(b, t) ==
  /\ b \in StreamBuffers /\ t \in Tapes
  /\ b.str.pod /\ b.str.size <= Len(b.str.cells)
  /\ b.get <= b.getEnd /\ b.getEnd = b.str.len /\ b.str.len <= Capacity(b.str)
  /\ b.put <= b.putEnd /\ b.putEnd <= Capacity(b.str)
  /\ b.get = t.read /\ b.put = t.write
  /\ Len(t.text) = Larger(b.put, b.getEnd)
  /\ \A i \in 1..Len(t.text) : b.str.cells[i] = t.text[i]

StreamIInv == HoldsTape(stream, tape)
=============================================================================
