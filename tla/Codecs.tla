------------------------------- MODULE Codecs -------------------------------
(***************************************************************************)
(* Conversions of strings: urlencode and urldecode over bytes, string_cast *)
(* between UTF-8 and UTF-16, and the parts of a Uri.  A text is taken      *)
(* through a conversion and back; "codec" remembers where it started.      *)
(***************************************************************************)
EXTENDS Integers, Sequences

CONSTANTS Byte,            \* bytes of the texts that are URL encoded
          CodePoint,       \* sizes of characters: <<bytes of UTF-8, units of UTF-16>>
          BadByte,         \* a byte no character begins with
          UriChar,         \* the characters of Uris
          UriPart,         \* the texts a part of a Uri is made of
          UriEnds,         \* schemes and parameters of Uris
          MaxCoded         \* bound: the longest text that is converted

ASSUME CodecAssumption ==
  /\ MaxCoded \in Nat /\ Byte \subseteq 1..255 /\ CodePoint \subseteq Nat \X Nat
  /\ {":", "/", "@", "?", "=", "&"} \subseteq UriChar /\ UriPart \subseteq Seq(UriChar)
  /\ UriEnds \subseteq [scheme : Seq(UriChar), params : Seq(Seq(UriChar) \X Seq(UriChar))]

VARIABLE codec             \* [form, data, origin]

Has(text, c) == \E i \in DOMAIN text : text[i] = c

-----------------------------------------------------------------------------
(* Percent encoding. *)

Percent == 37
Plus    == 43
Space   == 32
Unreserved(c) == c \in (48..57) \cup (65..90) \cup (97..122) \cup {45, 95, 46, 126}

HexDigit(d) == IF d < 10 THEN 48 + d ELSE 55 + d

(* (int)*p in hexadecimal, at least two digits: char is signed, so a byte  *)
(* above 127 has eight.                                                    *)
HexOf(c) ==
  (IF c > 127 THEN [i \in 1..6 |-> HexDigit(15)] ELSE <<>>)
    \o <<HexDigit(c \div 16), HexDigit(c % 16)>>

Escaped(c) ==
  IF c = Space THEN <<Plus>>
  ELSE IF Unreserved(c) THEN <<c>>
  ELSE <<Percent>> \o HexOf(c)

UrlEncoded(text) ==
  LET rest[i \in 1..(Len(text) + 1)] ==
        IF i = Len(text) + 1 THEN <<>> ELSE Escaped(text[i]) \o rest[i + 1]
  IN rest[1]

(* xlat: the value of a hexadecimal digit of either case. *)
Digit(c) ==
  CASE c \in 48..57  -> c - 48
    [] c \in 65..70  -> c - 55
    [] c \in 97..102 -> c - 87
    [] OTHER         -> -1

Thrown == -1               \* an exception instead of a text
Failed == <<Thrown>>

(* What the p-th character stands for.  A percent sign too close to the    *)
(* end stands for itself; a null character is not appended.                *)
EscapedAt(text, p) == text[p] = Percent /\ p + 2 <= Len(text)
Unescaped(text, p) ==
  IF EscapedAt(text, p)
  THEN LET c1 == Digit(text[p + 1])
           c2 == Digit(text[p + 2])
       IN IF c1 < 0 \/ c2 < 0 THEN Failed
          ELSE IF c1 = 0 /\ c2 = 0 THEN <<>> ELSE <<16 * c1 + c2>>
  ELSE <<IF text[p] = Plus THEN Space ELSE text[p]>>

UrlDecoded(text) ==
  LET rest[b \in 0..Len(text)] ==
        IF b = Len(text) THEN <<>>
        ELSE Unescaped(text, b + 1) \o rest[IF EscapedAt(text, b + 1) THEN b + 3 ELSE b + 1]
  IN IF Has(rest[0], Thrown) THEN Failed ELSE rest[0]

-----------------------------------------------------------------------------
(* string_cast.  A text is a sequence of characters, of which only the     *)
(* sizes matter, and of invalid bytes.                                     *)

Utf8  == 1
Utf16 == 2

CharSize(c, enc) == IF c = BadByte THEN 1 ELSE c[enc]

(* The sizes of the beginnings of a text. *)
SizesIn(text, enc) ==
  LET size[n \in 0..Len(text)] == IF n = 0 THEN 0 ELSE size[n - 1] + CharSize(text[n], enc)
  IN size
SizeIn(text, enc) == SizesIn(text, enc)[Len(text)]

(* iconv converts whole characters while they fit (E2BIG) and are valid.   *)
Fitting(text, room, enc) ==
  CHOOSE n \in 0..Len(text) :
    /\ SizesIn(text, enc)[n] <= room
    /\ \A i \in 1..n : text[i] # BadByte
    /\ n = Len(text) \/ text[n + 1] = BadByte \/ SizesIn(text, enc)[n + 1] > room

(* Mutant: the buffer is not enlarged. *)
CastOnce(text, from, to) == SubSeq(text, 1, Fitting(text, SizeIn(text, from), to))

(* The buffer begins as large as the input and grows by 30 per cent and 1  *)
(* while the output does not fit.  Any other error ends the conversion as  *)
(* if it was complete.                                                     *)
StringCast(text, from, to) ==
  LET cast[room \in Nat] ==
        LET n == Fitting(text, room, to)
        IN IF n < Len(text) /\ text[n + 1] # BadByte
           THEN cast[room + (3 * room) \div 10 + 1]
           ELSE SubSeq(text, 1, n)
  IN cast[SizeIn(text, from)]

-----------------------------------------------------------------------------
(* UriBase::parseUri and toString, over texts of single characters.        *)

none == -1
IndexFrom(text, c, pos) ==
  LET found == {i \in pos..(Len(text) - 1) : text[i + 1] = c}
  IN IF found = {} THEN none ELSE CHOOSE i \in found : \A j \in found : i <= j
LastIndex(text, c) ==
  LET found == {i \in 0..(Len(text) - 1) : text[i + 1] = c}
  IN IF found = {} THEN none ELSE CHOOSE i \in found : \A j \in found : i >= j
Part(text, from, to) == IF to = none THEN SubSeq(text, from + 1, Len(text)) ELSE SubSeq(text, from + 1, to)

SchemeEnd == <<":", "/", "/">>

(* The pieces between "&", without the empty ones, split at their first "=". *)
Pair(piece) ==
  LET sep == IndexFrom(piece, "=", 0)
  IN <<Part(piece, 0, sep), IF sep = none THEN <<>> ELSE Part(piece, sep + 1, none)>>
Param(piece) == IF piece = <<>> THEN <<>> ELSE <<Pair(piece)>>

ParsedParams(text, begin) ==
  LET rest[b \in 0..Len(text)] ==
        LET end == IndexFrom(text, "&", b)
        IN IF end = none THEN Param(Part(text, b, none))
           ELSE Param(Part(text, b, end)) \o rest[end + 1]
  IN rest[begin]

(* The hierarchy of a uri: user and password up to the last "@", the host  *)
(* up to the first ":" or "/" behind it, the port up to a "/", the path.   *)
ParsedHierarchy(text) ==
  LET at    == LastIndex(text, "@")
      auth  == IF at = none THEN <<>> ELSE SubSeq(text, 1, at)
      pass  == IndexFrom(auth, ":", 0)
      host  == at + 1
      port  == IndexFrom(text, ":", host)
      slash == IndexFrom(text, "/", IF port = none THEN host ELSE port + 1)
  IN [username |-> Part(auth, 0, pass),
      password |-> IF pass = none THEN <<>> ELSE Part(auth, pass + 1, none),
      host     |-> Part(text, host, IF port = none THEN slash ELSE port),
      port     |-> IF port = none THEN <<>> ELSE Part(text, port + 1, slash),
      path     |-> IF slash = none THEN <<>> ELSE Part(text, slash + 1, none)]

(* The scheme reaches up to the first "://" anywhere, the hierarchy from   *)
(* there up to a "?".                                                      *)
SchemeEnds(text) == {i \in 0..(Len(text) - 3) : SubSeq(text, i + 1, i + 3) = SchemeEnd}
ParsedUri(text) ==
  LET marks == SchemeEnds(text)
      mark  == CHOOSE i \in marks : \A j \in marks : i <= j
      begin == IF marks = {} THEN 0 ELSE mark + 3
      query == IndexFrom(text, "?", begin)
  IN [ends  |-> [scheme |-> IF marks = {} THEN <<>> ELSE SubSeq(text, 1, mark),
                 params |-> IF query = none THEN <<>> ELSE ParsedParams(text, query + 1)],
      parts |-> ParsedHierarchy(Part(text, begin, query))]

(* toString: the "@" is always written. *)
Marked(mark, part) == IF part = <<>> THEN <<>> ELSE <<mark>> \o part
HierarchyText(p) ==
  p.username \o Marked(":", p.password) \o <<"@">> \o p.host \o Marked(":", p.port) \o Marked("/", p.path)
Assignments(params) ==
  LET rest[k \in 1..(Len(params) + 1)] ==
        IF k = Len(params) + 1 THEN <<>>
        ELSE (params[k][1] \o <<"=">> \o params[k][2] \o (IF k = Len(params) THEN <<>> ELSE <<"&">>))
               \o rest[k + 1]
  IN rest[1]
UriText(u) ==
  (IF u.ends.scheme = <<>> THEN <<>> ELSE u.ends.scheme \o SchemeEnd)
    \o HierarchyText(u.parts) \o Marked("?", Assignments(u.ends.params))

-----------------------------------------------------------------------------
(* A text is converted, and converted back. *)

TextsOver(S) == UNION {[1..n -> S] : n \in 0..MaxCoded}
UriParts == [username : UriPart, password : UriPart, host : UriPart, port : UriPart, path : UriPart]

CodecInit ==
  \/ \E t \in TextsOver(Byte) : codec = [form |-> "bytes", data |-> t, origin |-> t]
  \/ \E t \in TextsOver(CodePoint \cup {BadByte}) : codec = [form |-> "utf8", data |-> t, origin |-> t]
  \/ \E u \in [ends : UriEnds, parts : UriParts] : codec = [form |-> "uri", data |-> u, origin |-> u]

Convert(from, to, result) ==
  codec.form = from /\ codec' = [codec EXCEPT !.form = to, !.data = result]

UrlEncode == Convert("bytes", "encoded", UrlEncoded(codec.data))
UrlDecode == Convert("encoded", "decoded", UrlDecoded(codec.data))
ToWide    == Convert("utf8", "utf16", StringCast(codec.data, Utf8, Utf16))
ToNarrow  == Convert("utf16", "narrow", StringCast(codec.data, Utf16, Utf8))
PrintUri  == Convert("uri", "printed", UriText(codec.data))
ParseUri  == Convert("printed", "parsed", ParsedUri(codec.data))

CodecNext == UrlEncode \/ UrlDecode \/ ToWide \/ ToNarrow \/ PrintUri \/ ParseUri

CodecSpec == CodecInit /\ [][CodecNext]_codec

-----------------------------------------------------------------------------
(* Properties. *)

Ascii(t) == \A i \in DOMAIN t : t[i] < 128
ValidPart(t) ==
  CHOOSE n \in 0..Len(t) : (\A i \in 1..n : t[i] # BadByte) /\ (n = Len(t) \/ t[n + 1] = BadByte)

(* A Uri with a character that ends a part too early: the hierarchy at a   *)
(* "?" (Uri.h:59), the user at a ":" or behind the last "@" (Uri.h:61), the host at a  *)
(* ":" of its own or of the path (Uri.h:75), the scheme at the first "://" *)
(* (Uri.h:53), a parameter at "&" and its key at "=" (Uri.h:91).           *)
CutShort(u) ==
  LET p == u.parts
  IN \/ \E part \in {p.username, p.password, p.host, p.port, p.path} : Has(part, "?")
     \/ Has(p.username, ":")
     \/ \E part \in {p.host, p.port, p.path} : Has(part, "@")
     \/ Has(p.host, ":")
     \/ Has(p.port, "/")
     \/ p.port = <<>> /\ (Has(p.host, "/") \/ Has(p.path, ":"))
     \/ SchemeEnds(IF u.ends.scheme = <<>> THEN UriText(u) ELSE u.ends.scheme) # {}
     \/ \E k \in DOMAIN u.ends.params :
          Has(u.ends.params[k][1], "=") \/ Has(u.ends.params[k][1], "&") \/ Has(u.ends.params[k][2], "&")

(* urldecode undoes urlencode for every ASCII text, plus and percent signs *)
(* included; a byte above 127 does not come back (StringBase.cpp:557).     *)
UrlRestored(text, back) == Ascii(text) => back = text

(* string_cast there and back returns the text up to its first invalid     *)
(* byte, however much the encodings differ in size.                        *)
CastRestored(text, back) == back = SubSeq(text, 1, ValidPart(text))

(* A printed Uri is parsed into the same parts, with or without a scheme,  *)
(* a port, a path and parameters, unless a character cuts a part short.    *)
UriRestored(u, back) == CutShort(u) \/ back = u

(* What is converted and converted back is what it was.                    *)
CodecRoundTrip ==
  /\ codec.form = "decoded" => UrlRestored(codec.origin, codec.data)
  /\ codec.form = "narrow"  => CastRestored(codec.origin, codec.data)
  /\ codec.form = "parsed"  => UriRestored(codec.origin, codec.data)

(* The states of a conversion: what it has kept of where it started.       *)
Starts == [bytes |-> Seq(Byte), utf8 |-> Seq(CodePoint \cup {BadByte}),
           uri |-> [ends : UriEnds, parts : UriParts]]
CodecStart(form) ==
  CASE form \in {"bytes", "encoded", "decoded"} -> "bytes"
    [] form \in {"utf8", "utf16", "narrow"}     -> "utf8"
    [] form \in {"uri", "printed", "parsed"}    -> "uri"

CodecForms == {"bytes", "encoded", "decoded", "utf8", "utf16", "narrow", "uri", "printed", "parsed"}

CodecKeeps ==
  /\ codec = [form |-> codec.form, data |-> codec.data, origin |-> codec.origin]
  /\ codec.form \in CodecForms /\ codec.origin \in Starts[CodecStart(codec.form)]
  /\ codec.form \in DOMAIN Starts => codec.data = codec.origin
  /\ codec.form = "encoded" => codec.data = UrlEncoded(codec.origin)
  /\ codec.form = "utf16"   => CastRestored(codec.origin, codec.data)
  /\ codec.form = "printed" => codec.data = UriText(codec.origin)

(* The round trips are inductive with it (CodecInvariant).                  *)
CodecIInv == CodecKeeps /\ CodecRoundTrip
=============================================================================
