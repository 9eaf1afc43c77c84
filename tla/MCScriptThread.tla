---------------------------- MODULE MCScriptThread ----------------------------
(* Instance of ScriptThread for TLC: callers are interchangeable.            *)
EXTENDS ScriptThread, TLC

CallerSymmetry == Permutations(Caller)
=============================================================================
