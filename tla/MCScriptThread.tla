--------------------------- MODULE MCScriptThread ---------------------------
(* A small instance of the script thread for TLC. *)
EXTENDS ScriptThreadSafety
=============================================================================
