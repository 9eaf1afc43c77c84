--------------------------- MODULE MCScriptObjects ---------------------------
(* For TLC: the thread of MCScriptThread; and, as behaviours of their own,   *)
(* the native objects its scripts handle.  These share no variables.  A      *)
(* behaviour is one of the component chosen at its start, while the other    *)
(* keeps its initial value, so that the states add up.                       *)
EXTENDS MCScriptThread, ScriptObjects

VARIABLE part

PartsInit == part \in {"thread", "object"} /\ Init /\ ScriptObjectInit

PartsNext ==
  /\ part' = part
  /\ \/ part = "thread" /\ Next /\ UNCHANGED scriptObjectVars
     \/ part = "object" /\ ScriptObjectNext /\ UNCHANGED vars
=============================================================================
