------------------------------- MODULE Strings -------------------------------
(***************************************************************************)
(* One String (StringBase<T>) over StringData<T>: a buffer of a POD type   *)
(* that also keeps a length and a terminating null character.  m_d is null *)
(* for a default constructed string; m_data is null as well in a string    *)
(* made from a null pointer.  Texts are short sequences of characters.     *)
(***************************************************************************)
EXTENDS ArrayData

CONSTANTS Char,            \* characters of a text
          Nul,             \* the terminating null character
          NoString,        \* a null m_d
          MaxText          \* bound: the longest text

(* StringData<T>: cells hold characters, or what memory held before.       *)
StringCells == Char \cup {Nul, Blank, Junk}
StringBuffers == [pod : BOOLEAN, cells : Seq(StringCells), size : Nat, len : Nat]

ASSUME StringAssumption ==
  MaxText \in Nat /\ NoString \notin StringBuffers /\ Nul \notin Char

VARIABLES string,          \* the data of the string
          stringCopied,    \* another String holds the same data
          stringCall       \* history: the last call, and the text it should lead to

stringVars == <<string, stringCopied, stringCall>>

Texts(n) == UNION {[1..k -> Char] : k \in 0..n}
npos == 0 - 1
Smallest(S) == CHOOSE x \in S : \A y \in S : x <= y

-----------------------------------------------------------------------------
(* StringData. *)

WithLength(a, len) ==
  [pod |-> TRUE, cells |-> a.cells, size |-> a.size, len |-> len]

(* From a null pointer, and by new Data(). *)
NullData == WithLength(EmptyBuffer(TRUE), 0)

(* From a C string or a buffer with a length. *)
StringOf(text) == WithLength(BufferOf(TRUE, Append(text, Nul)), Len(text))

Text(s) == IF s = NoString THEN <<>> ELSE SubSeq(s.cells, 1, s.len)

(* clone() copies the text and the cell after it, terminator or not. *)
StringClone(s) ==
  WithLength(BufferOf(TRUE, IF s.cells = <<>> THEN <<Junk>> ELSE SubSeq(s.cells, 1, s.len + 1)), s.len)

StringDataResize(s, n) ==
  [BufferResize(s, n) EXCEPT !.len = n - 1, !.cells[n] = Nul]

(* Mutant: the new terminator is forgotten. *)
StringDataAppendOpen(s, data) ==
  LET end == s.len + Len(data)
  IN [BufferResize(s, end + 1) EXCEPT
        !.len = end,
        !.cells = [i \in DOMAIN @ |-> IF i \in (s.len + 1)..end THEN data[i - s.len] ELSE @[i]]]

StringDataAppend(s, data) ==
  LET end == s.len + Len(data)
  IN [BufferResize(s, end + 1) EXCEPT
        !.len = end,
        !.cells = [i \in DOMAIN @ |-> IF i \in (s.len + 1)..end THEN data[i - s.len]
                                      ELSE IF i = end + 1 THEN Nul ELSE @[i]]]

-----------------------------------------------------------------------------
(* Questions that leave the string alone. *)

(* std::search from pos on. *)
NextIndexOf(text, needle, pos) ==
  LET found == {i \in pos..(Len(text) - Len(needle)) :
                  SubSeq(text, i + 1, i + Len(needle)) = needle}
  IN IF pos >= Len(text) \/ found = {} THEN npos ELSE Smallest(found)

(* std::find_end, which finds no empty needle. *)
LastIndexOf(text, needle) ==
  LET found == {i \in 0..(Len(text) - Len(needle)) :
                  SubSeq(text, i + 1, i + Len(needle)) = needle}
  IN IF needle = <<>> \/ found = {} THEN npos ELSE CHOOSE i \in found : \A j \in found : j <= i

HasText(text, needle) == NextIndexOf(text, needle, 0) # npos

(* strcmp and strncmp of cells: from "at", n of them or up to a null       *)
(* character.                                                              *)
SameCells(cells, at, data, n) ==
  LET same[i \in 1..(n + 1)] ==
        \/ i > n
        \/ /\ cells[at + i] = data[i]
           /\ data[i] = Nul \/ same[i + 1]
  IN same[1]

(* isNullOrEmpty(): the length is not looked at.                           *)
IsNullOrEmpty(s) == s = NoString \/ s.cells = <<>> \/ s.cells[1] = Nul

Equals(s, data) ==
  IF ~IsNullOrEmpty(s) /\ data # <<>> THEN SameCells(s.cells, 0, Append(data, Nul), Len(data) + 1)
  ELSE IsNullOrEmpty(s) = (data = <<>>)

StartsWith(s, needle) == ~IsNullOrEmpty(s) /\ SameCells(s.cells, 0, needle, Len(needle))

(* A longer needle is compared from somewhere in front of the buffer.      *)
EndsWith(s, needle) == ~IsNullOrEmpty(s) /\ SameCells(s.cells, s.len - Len(needle), needle, Len(needle))

(* substr: a start behind the end gives a null string. *)
Substr(text, start, length) ==
  LET rest == Len(text) - start
      n    == IF length = npos \/ length > rest THEN rest ELSE length
  IN IF start >= Len(text) THEN <<>> ELSE SubSeq(text, start + 1, start + n)

(* split: the pieces between separators, without the empty ones unless     *)
(* they are asked for.                                                     *)
Split(text, separator, keepEmpty) ==
  LET pieces[b \in 0..Len(text)] ==
        LET ps   == NextIndexOf(text, <<separator>>, b)
            elem == SubSeq(text, b + 1, IF ps = npos THEN Len(text) ELSE ps)
            kept == IF keepEmpty \/ elem # <<>> THEN <<elem>> ELSE <<>>
        IN IF ps = npos THEN kept ELSE kept \o pieces[ps + 1]
  IN pieces[0]

(* The loop of replace: the pieces in front of, between and behind the     *)
(* occurrences.  An empty "from" is found again at the same place for ever.*)
Parts(text, from) ==
  LET parts[b \in 0..Len(text)] ==
        LET p == NextIndexOf(text, from, b)
        IN IF p = npos THEN <<SubSeq(text, b + 1, Len(text))>>
           ELSE <<SubSeq(text, b + 1, p)>> \o parts[p + Len(from)]
  IN parts[0]

(* What replace is for: read from left to right, "from" becomes "to".      *)
Substituted(text, from, to) ==
  LET read[i \in 1..(Len(text) + 1)] ==
        IF i > Len(text) THEN <<>>
        ELSE IF /\ i + Len(from) - 1 <= Len(text)
                /\ SubSeq(text, i, i + Len(from) - 1) = from
             THEN to \o read[i + Len(from)]
        ELSE <<text[i]>> \o read[i + 1]
  IN read[1]

(* An empty piece is not appended. *)
AppendPiece(s, piece) == IF piece = <<>> THEN s ELSE StringDataAppend(s, piece)

(* One append after the other. *)
BuiltOn(start, pieces) ==
  LET built[k \in 0..Len(pieces)] ==
        IF k = 0 THEN start ELSE AppendPiece(built[k - 1], pieces[k])
  IN built[Len(pieces)]

(* join and StringBuilder make room for all pieces first. *)
Concatenated(pieces) ==
  LET room[k \in 0..Len(pieces)] == IF k = 0 THEN 1 ELSE room[k - 1] + Len(pieces[k])
  IN BuiltOn(BufferReserve(NullData, room[Len(pieces)]), pieces)

Delimited(pieces, delimiter) ==
  [i \in 1..(2 * Len(pieces) - 1) |-> IF i % 2 = 1 THEN pieces[(i + 1) \div 2] ELSE delimiter]

Joined(pieces, delimiter) == Concatenated(Delimited(pieces, delimiter))

(* replace makes no room; what stands in front of the first occurrence is  *)
(* appended even when it is empty, which terminates the new text.          *)
Replaced(text, from, to) == BuiltOn(StringOf(<<>>), Delimited(Parts(text, from), to))

-----------------------------------------------------------------------------
(* Calls. *)

StringInit ==
  /\ string \in {NoString, NullData} \cup {StringOf(t) : t \in Texts(2)}
  /\ stringCopied = FALSE
  /\ stringCall = [expected |-> Text(string), departs |-> FALSE]

(* detachOrInitialize(); a clone() of a null buffer reads address 0, and   *)
(* the program ends.                                                       *)
DetachedString ==
  IF string = NoString THEN NullData ELSE IF stringCopied THEN StringClone(string) ELSE string
CanDetach == ~(stringCopied /\ string # NoString /\ string.cells = <<>>)

StringBecomes(result, expected, departs) ==
  /\ string' = result
  /\ stringCopied' = FALSE
  /\ stringCall' = [expected |-> expected, departs |-> departs]

CopyString ==
  /\ ~stringCopied /\ stringCopied' = TRUE
  /\ UNCHANGED <<string, stringCall>>

DropStringCopy ==
  /\ stringCopied /\ stringCopied' = FALSE
  /\ UNCHANGED <<string, stringCall>>

StringAssign ==
  \/ StringBecomes(NullData, <<>>, FALSE)
  \/ \E t \in Texts(2) : StringBecomes(StringOf(t), t, FALSE)

(* A buffer that begins with a null character is not appended at all.      *)
StringAppend ==
  \E data \in Texts(2) \cup {<<Nul>> \o t : t \in Texts(1)} :
    /\ Len(Text(string)) + Len(data) <= MaxText
    /\ IF data # <<>> /\ data[1] # Nul
       THEN CanDetach /\ StringBecomes(StringDataAppend(DetachedString, data), Text(string) \o data, FALSE)
       ELSE /\ stringCall' = [expected |-> Text(string) \o data, departs |-> data # <<>>]
            /\ UNCHANGED <<string, stringCopied>>

(* s.append(s): a text that has to move is read where it was.              *)
StringAppendOwn ==
  /\ Text(string) # <<>> /\ 2 * Len(Text(string)) <= MaxText
  /\ Text(string)[1] \in Char
  /\ LET freed == ~stringCopied /\ Len(string.cells) < 2 * string.len + 1
     IN \E data \in {Text(string)} \cup (IF freed THEN {[i \in 1..string.len |-> Junk]} ELSE {}) :
          StringBecomes(StringDataAppend(DetachedString, data), Text(string) \o Text(string), freed)

(* reserve of a null string leaves a buffer without a terminator. *)
StringReserve ==
  /\ CanDetach
  /\ \E n \in 0..MaxText :
       StringBecomes(BufferReserve(DetachedString, n + 1), Text(string), FALSE)

StringSqueeze ==
  /\ CanDetach
  /\ StringBecomes(BufferSqueeze(DetachedString), Text(string), FALSE)

(* resize upwards takes the old terminator and what lies behind it in.     *)
StringResize ==
  /\ CanDetach
  /\ \E n \in 0..MaxText :
       LET kept == IF n < Len(Text(string)) THEN n ELSE Len(Text(string))
       IN StringBecomes(StringDataResize(DetachedString, n + 1),
                        SubSeq(Text(string), 1, kept), n > kept)

StringSet ==
  \E i \in 1..Len(Text(string)), c \in Char :
    StringBecomes([DetachedString EXCEPT !.cells[i] = c], [Text(string) EXCEPT ![i] = c], FALSE)

(* Null characters inside a text are left to append and resize. *)
Plain == \A i \in DOMAIN Text(string) : Text(string)[i] \in Char

(* *this = newStr, when there is something to replace. *)
StringReplace ==
  /\ Plain
  /\ \E from \in Texts(2) \ {<<>>}, to \in Texts(1) :
       /\ NextIndexOf(Text(string), from, 0) # npos
       /\ StringBecomes(Replaced(Text(string), from, to), Substituted(Text(string), from, to), FALSE)

StringSubstr ==
  \E start \in 0..MaxText, length \in {npos} \cup 0..MaxText :
    StringBecomes(IF start >= Len(Text(string)) THEN NoString
                  ELSE StringOf(Substr(Text(string), start, length)),
                  SubSeq(Text(string), start + 1,
                         IF length = npos \/ start + length > Len(Text(string))
                         THEN Len(Text(string)) ELSE start + length), FALSE)

(* a + b, and join of the pieces split off at each separator. *)
StringBuild ==
  \/ \E a \in Texts(1), b \in Texts(1) : StringBecomes(Concatenated(<<a, b>>), a \o b, FALSE)
  \/ \E c \in Char :
       /\ Plain
       /\ StringBecomes(Joined(Split(Text(string), c, TRUE), <<c>>), Text(string), FALSE)

StringNext ==
  \/ CopyString \/ DropStringCopy
  \/ StringAssign \/ StringAppend \/ StringAppendOwn
  \/ StringReserve \/ StringSqueeze \/ StringResize \/ StringSet
  \/ StringReplace \/ StringSubstr \/ StringBuild

StringSpec == StringInit /\ [][StringNext]_stringVars

-----------------------------------------------------------------------------
(* Properties. *)

(* The text is followed by its null character, which c_str(), the          *)
(* comparisons and the streams rely on, also in a clone and after every    *)
(* move.  An empty text need not be: reserve of a null string and a + b of *)
(* empty strings leave the buffer as malloc gave it.                       *)
StringTerminated ==
  string # NoString =>
    /\ string.size <= Len(string.cells)
    /\ string.len > 0 => string.size = string.len + 1 /\ string.cells[string.size] = Nul

(* What the string answers is true of its text; an empty text begins and   *)
(* ends with nothing, not even with nothing.  But a null string for which  *)
(* room was reserved is taken for one with a text (StringBase.h:394).      *)
Unterminated == Text(string) = <<>> /\ ~IsNullOrEmpty(string)
AnswersTrue ==
  LET text == Text(string) IN
  \A needle \in Texts(2) :
    /\ HasText(text, needle) <=>
         text # <<>> /\ \E i \in 0..(Len(text) - Len(needle)) : SubSeq(text, i + 1, i + Len(needle)) = needle
    /\ Equals(string, needle) <=> text = needle
    /\ StartsWith(string, needle) <=>
         /\ text # <<>> /\ Len(needle) <= Len(text)
         /\ SubSeq(text, 1, Len(needle)) = needle
    /\ Len(needle) <= Len(text) =>
         (EndsWith(string, needle) <=>
            text # <<>> /\ SubSeq(text, Len(text) - Len(needle) + 1, Len(text)) = needle)
    /\ LET at == LastIndexOf(text, needle) IN
       at # npos => \A i \in (at + 1)..(Len(text) - Len(needle)) : SubSeq(text, i + 1, i + Len(needle)) # needle

(* After every call the string holds the text it should, terminated: what  *)
(* the spare cells held, who shared the data and whether there was any do  *)
(* not show.  In particular replace substitutes from left to right and join*)
(* undoes split, and the answers are about the text alone.  Departures:  *)
(* a null character in front of what is appended, a text appended to       *)
(* itself, and resize upwards.                                             *)
StringAsDocumented ==
  /\ StringTerminated
  /\ Plain /\ ~Unterminated => AnswersTrue
  /\ stringCall.departs \/ Text(string) = stringCall.expected
=============================================================================
