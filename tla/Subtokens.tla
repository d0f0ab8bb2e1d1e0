------------------------------ MODULE Subtokens ------------------------------
(***************************************************************************)
(* SubtokenLexer: how characters become the pieces that the preprocessor   *)
(* and the lexer are made of.                                              *)
(*                                                                         *)
(* A text is a sequence of characters.  A run of letters that is a word    *)
(* the code knows is one character here, so that a word is a sequence of   *)
(* letters and such runs.                                                  *)
(***************************************************************************)
EXTENDS Integers, Sequences, SequencesExt

Digits == {"0", "1"}
Space == " "
Quote == "\""
Punctuation ==
  {"/", "*", "-", "+", "!", "=", "|", ">", "<", "&", "@", "^", ".", "[", "]",
   "{", "}", "~", "(", ")", ",", ";", ":", "?", "%"}
\* All the others are letters, the tabulator and the backslash too.
Letters == {"a", "x", "if", "else", "end", "true", "false", "darwin", "linux",
            "const", "\t"}
Characters == Digits \cup Punctuation \cup Letters \cup {Quote, "'", Space, "\n", "#"}

Directives == {"if", "else", "end"}   \* and switch and case, which are printed

At(t, i) == IF i \in DOMAIN t THEN t[i] ELSE "eof"

\* The place behind the characters of a set, or behind those not in it.
Behind(t, i, S) ==
  CHOOSE j \in i .. Len(t) + 1 : At(t, j) \notin S /\ \A k \in i .. j - 1 : t[k] \in S
Before(t, i, S) == Behind(t, i, Characters \ S)

\* A subtoken with the place behind it, and whether a % there begins a directive.
Subtoken(type, str, at, potentialDirective) ==
  [type |-> type, str |-> str, at |-> at, potentialDirective |-> potentialDirective]
Slice(type, t, i, j) == Subtoken(type, SubSeq(t, i, j - 1), j, FALSE)

\* An unknown directive is an undefined subtoken.
lexDirective(t, i) ==
  LET end == Before(t, i, {"\n", Space})
      str == SubSeq(t, i, end - 1)
  IN IF \E d \in Directives : str = <<d>>
     THEN Subtoken("Directive", str, end, FALSE)
     ELSE Subtoken("Undefined", <<>>, end, FALSE)

\* (Variations, named "...Mutant" here and below, are faults a run must notice.)
\* The newline is taken for a part of the comment.
GreedyCommentMutant(t, i) ==
  LET end == Before(t, i, {"\n"}) IN IF end \in DOMAIN t THEN end + 1 ELSE end

CommentEnd(t, i) == Before(t, i, {"\n"})

\* The place behind a text in quotes; nothing in it hides the closing one.
QuoteEnd(t, i) ==
  LET closing == Before(t, i + 1, {t[i]})
  IN IF closing \in DOMAIN t THEN closing + 1 ELSE closing

advance(t, i, potentialDirective) ==
  LET c == At(t, i)
      directive == c = "%" /\ potentialDirective
      word == Behind(t, i, Letters \cup Digits)
      number == \A k \in i .. word - 1 : t[k] \in Digits
  IN CASE c = "eof" -> Subtoken("EndOfInput", <<>>, i, potentialDirective)
       [] c = "\n"  -> Subtoken("Newline", <<c>>, i + 1, TRUE)
       [] c = "#"   -> Slice("Comment", t, i, CommentEnd(t, i))
       [] c = Quote -> Slice("String", t, i, QuoteEnd(t, i))
       [] c = "'"   -> Slice("Character", t, i, QuoteEnd(t, i))
       [] c = Space -> Slice("Whitespace", t, i, Behind(t, i, {Space}))
       [] directive -> lexDirective(t, i + 1)
       [] c \in Punctuation /\ ~directive -> Slice("Punctuation", t, i, i + 1)
       [] OTHER     -> Slice(IF number THEN "Number" ELSE "Word", t, i, word)

-----------------------------------------------------------------------------
(* The lexer of subtokens is its subtoken, with the place behind it.  An    *)
(* undefined subtoken counts as none: who asks for it again is given the    *)
(* next one.                                                                *)

Beginning == Subtoken("Undefined", <<>>, 1, TRUE)

Advanced(t, lexer) == advance(t, lexer.at, lexer.potentialDirective)
populated(t, lexer) == IF lexer.type = "Undefined" THEN Advanced(t, lexer) ELSE lexer
next(t, lexer) == Advanced(t, populated(t, lexer))
=============================================================================
