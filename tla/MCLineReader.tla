---------------------------- MODULE MCLineReader ----------------------------
(* Instance of LineReader for TLC. *)
EXTENDS LineReader, TLC
=============================================================================
