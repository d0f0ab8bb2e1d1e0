--------------------------- MODULE MCLexerBuffers ---------------------------
(***************************************************************************)
(* Small instances of LexerBuffers for TLC.                                *)
(***************************************************************************)
EXTENDS LexerBuffers

MCTypes == {"whitespace", "newline", "end", "def", ">", "undefined"}
=============================================================================
