------------------------------- MODULE MCValues -------------------------------
(* For TLC: the transactions of MCSqlTransaction; and, as behaviours of      *)
(* their own, the values that programs keep in tables: arrays, strings,      *)
(* streams over them, codecs and times.  These share no variables.  A        *)
(* behaviour is one of the component chosen at its start, while the others   *)
(* keep an initial value, so that the states add up.                         *)
EXTENDS MCSqlTransaction, Arrays, StringStreams, Codecs, DateTimes

(* Arrays, strings and streams treat all elements and characters alike.      *)
ValueSymmetry == Symmetry \cup Permutations(Element)

VARIABLE part

MCCodePoint == {<<1, 1>>, <<2, 1>>, <<3, 1>>, <<4, 2>>}
MCUriPart == {<<>>, <<"a">>, <<"a", ":">>, <<"/", "a">>, <<"@">>}
NoEnds    == [scheme |-> <<>>, params |-> <<>>]
MCUriEnds == {NoEnds, [scheme |-> <<"s">>, params |-> <<<<<<"k">>, <<>>>>, <<<<"l">>, <<"=", "v">>>>>>]}
NoUri     == [ends |-> NoEnds, parts |-> [username |-> <<>>, password |-> <<>>, host |-> <<>>, port |-> <<>>, path |-> <<>>]]
MCMonths  == {-25, -13, -12, -2, -1, 1, 14}
MCDays    == {-365, -1, 1, 29, 400}
MCHours   == {-1}

Start(name, idle) == part = name \/ idle

PartsInit ==
  /\ part \in {"transaction", "array", "string", "stream", "codec", "time"}
  /\ Init
  /\ ArrayInit /\ Start("array", array = BufferOf(TRUE, <<>>))
  /\ StringInit /\ Start("string", string = NoString)
  /\ StreamInit /\ Start("stream", stream.str = StringOf(<<>>))
  /\ CodecInit /\ Start("codec", codec.form = "uri" /\ codec.data = NoUri)
  /\ TimeInit /\ Start("time", time = At(2000, 1, 1, 0, 59, 30))

PartsNext ==
  /\ part' = part
  /\ \/ part = "transaction" /\ Next
        /\ UNCHANGED <<arrayVars, stringVars, streamVars, codec, timeVars>>
     \/ part = "array" /\ ArrayNext
        /\ UNCHANGED <<vars, stringVars, streamVars, codec, timeVars>>
     \/ part = "string" /\ StringNext
        /\ UNCHANGED <<vars, arrayVars, streamVars, codec, timeVars>>
     \/ part = "stream" /\ StreamNext
        /\ UNCHANGED <<vars, arrayVars, stringVars, codec, timeVars>>
     \/ part = "codec" /\ CodecNext
        /\ UNCHANGED <<vars, arrayVars, stringVars, streamVars, timeVars>>
     \/ part = "time" /\ TimeNext
        /\ UNCHANGED <<vars, arrayVars, stringVars, streamVars, codec>>
=============================================================================
