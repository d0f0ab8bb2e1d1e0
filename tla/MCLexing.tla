------------------------------ MODULE MCLexing ------------------------------
(* Texts of a few lines with directives, and all short texts. *)
EXTENDS Lexing

MCLineTexts ==
  {<<"%", "if", " ", "true", "\n">>, <<"%", "if", " ", "darwin", "\n">>,
   <<"%", "else", "\n">>, <<"%", "else", " ", "\n">>, <<"%", "end", "\n">>,
   <<"a", "\n">>, <<"1", "#", "x", "\n">>}

MCAlphabet ==
  {"a", "if", "const", "0", "x", " ", "\n", "\"", "#", "%", "@", ".", "=", "<", ">"}
=============================================================================
