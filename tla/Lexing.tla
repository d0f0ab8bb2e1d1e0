------------------------------- MODULE Lexing -------------------------------
(***************************************************************************)
(* The way of a text into tokens: it is preprocessed; the lexer makes its  *)
(* tokens; the texts of these are stored, as a function's body is, and     *)
(* made into tokens again.  The buffer of tokens is in LexerBuffers.       *)
(***************************************************************************)
EXTENDS Preprocessing

VARIABLES
  tokens,  \* what the lexer has made: [type, str, at], at is the place in text
  first    \* the tokens of the first time

vars == <<preprocessorVars, tokens, first>>

Keywords == {"if", "else", "end", "true", "false"}   \* _keywordMap
Annotations == {"const"}                             \* _annotationMap
LongOperators ==
  {<<"-", "-">>, <<"-", "=">>, <<"-", ">">>, <<"-">>, <<"+", "+">>, <<"+", "=">>, <<"+">>,
   <<"%", "=">>, <<"%">>, <<"/", "=">>, <<"/">>, <<"*", "=">>, <<"*">>,
   <<"=", "=", "=">>, <<"=", "=">>, <<"=">>, <<"<", "=", ">">>, <<"<", "=">>,
   <<"<", "<", "=">>, <<"<", "<">>, <<"<">>, <<"!", "=">>, <<"!">>, <<">", "=">>,
   <<">", ">", "=">>, <<">", ">">>, <<">">>, <<"&", "&", "=">>, <<"&", "&">>,
   <<"&", "=">>, <<"&">>, <<"|", "|", "=">>, <<"|", "|">>, <<"|", "=">>, <<"|">>,
   <<"^", "^">>, <<"^", "=">>, <<"^">>}
\* Operators of one character that begin no other.
SingleOperators == {":", ";", ",", "[", "]", "{", "}", "(", ")", "~", "?", "."}
Operators == LongOperators \cup {<<c>> : c \in SingleOperators}

Init == PreprocessorInit /\ tokens = <<>> /\ first = <<>>

\* What is left of the text is what the lexer is given.
Preprocessed ==
  /\ phase = "preprocessing"
  /\ branch = "none" /\ AtEnd
  /\ text' = output
  /\ lexer' = Beginning
  /\ phase' = "lexing"
  /\ UNCHANGED <<lines, branch, active, output, tokens, first>>

-----------------------------------------------------------------------------
(* Making a token. *)

\* The lexer in front of a token.  Behind a comment comes a newline or the end.
Start == IF subtoken.type = "Comment" THEN Taken ELSE subtoken
Type == Start.type
Str == Start.str
Rest == next(text, Start)

Make(type, str, rest) ==
  /\ tokens' = Append(tokens, [type |-> type, str |-> str, at |-> Start.at - Len(Str)])
  /\ lexer' = rest
  /\ UNCHANGED <<text, first, phase>>

\* A token that is undefined is the end of the text for the parser.
Undefined(rest) ==
  /\ lexer' = rest
  /\ phase' = "stopped"
  /\ UNCHANGED <<text, tokens, first>>

WordType(str) ==
  CASE str[1] = "0" /\ str[2] = "x" -> "Hex"   \* and 0b
    [] \E k \in Keywords : str = <<k>> -> str[1]
    [] OTHER -> "Identifier"
lexWord == Type = "Word" /\ Make(WordType(Str), Str, Rest)

\* What follows the number is asked for before the point is passed.
PointTwiceMutant ==
  /\ Type = "Number"
  /\ IF Rest.str # <<".">> THEN Make("Integer", Str, Rest)
     ELSE LET digits == Rest
          IN IF digits.type = "Number"
             THEN Make("Real", Str \o Rest.str \o digits.str, next(text, digits))
             ELSE Undefined(digits)

lexNumber ==
  /\ Type = "Number"
  /\ IF Rest.str # <<".">> THEN Make("Integer", Str, Rest)
     ELSE LET digits == next(text, Rest)
          IN IF digits.type = "Number"
             THEN Make("Real", Str \o Rest.str \o digits.str, next(text, digits))
             ELSE Undefined(digits)

\* The first character of an operator with those that follow it at once.
CompoundOfTwoMutant(l) ==
  LET next1 == next(text, l)
      two == l.str \o next1.str
  IN IF two \in Operators THEN [str |-> two, rest |-> next(text, next1)]
     ELSE [str |-> l.str, rest |-> next1]

Compound(l) ==
  LET next1 == next(text, l)
      next2 == next(text, next1)
      two == l.str \o next1.str
      three == two \o next2.str
  IN CASE two \notin Operators -> [str |-> l.str, rest |-> next1]
       [] {two, three} \subseteq Operators -> [str |-> three, rest |-> next(text, next2)]
       [] OTHER -> [str |-> two, rest |-> next2]

lexPunctuation ==
  /\ Type = "Punctuation" /\ Str # <<"@">>
  /\ LET c == Compound(Start) IN Make("Operator", c.str, c.rest)

\* The token's text is the annotation's name.
BareAnnotationMutant ==
  /\ Type = "Punctuation" /\ Str = <<"@">>
  /\ IF \E a \in Annotations : Rest.str = <<a>>
     THEN Make(Rest.str[1], Rest.str, next(text, Rest))
     ELSE Undefined(next(text, Rest))

\* Whatever follows the @ is passed over with it.
lexAnnotation ==
  /\ Type = "Punctuation" /\ Str = <<"@">>
  /\ IF \E a \in Annotations : Rest.str = <<a>>
     THEN Make(Rest.str[1], Str \o Rest.str, next(text, Rest))
     ELSE Undefined(next(text, Rest))

lexSpan ==
  /\ Type \in {"String", "Character", "Newline", "Whitespace"}
  /\ Make(Type, Str, Rest)

\* At the end, the texts of the tokens are stored, and read as the first text was.
Store ==
  /\ first' = tokens
  /\ text' = FlattenSeq([i \in DOMAIN tokens |-> tokens[i].str])
  /\ tokens' = <<>>
  /\ lexer' = Beginning
  /\ phase' = "relexing"

\* A directive is not passed over either.
NoToken ==
  /\ Type \in {"EndOfInput", "Undefined", "Directive"}
  /\ CASE Type # "EndOfInput" -> Undefined(Start)
       [] Type = "EndOfInput" /\ phase = "lexing" -> Store
       [] OTHER -> phase' = "done" /\ lexer' = Start /\ UNCHANGED <<text, tokens, first>>

advanceLexer ==
  /\ phase \in {"lexing", "relexing"}
  /\ \/ lexWord
     \/ lexNumber
     \/ lexPunctuation
     \/ lexAnnotation
     \/ lexSpan
     \/ NoToken
  /\ UNCHANGED <<lines, branch, active, output>>

Next ==
  \/ Preprocess /\ UNCHANGED <<tokens, first>>
  \/ Preprocessed
  \/ advanceLexer

Spec == Init /\ [][Next]_vars

-----------------------------------------------------------------------------
(* Properties. *)

Stretch(from, to) == SubSeq(text, from, to - 1)
EndOf(token) == token.at + Len(token.str)

\* What may be between two tokens, or behind the last one.
IsComment(s) == s # <<>> => s[1] = "#" /\ \A i \in DOMAIN s : s[i] # "\n"

(* The tokens are in the text, letter for letter and in its order, and all  *)
(* that is between them is a comment, to the end of its line: nothing is    *)
(* lost, read twice or taken for a comment (Lexer::advance).                *)
TokensCoverTheText ==
  /\ \A i \in DOMAIN tokens : Stretch(tokens[i].at, EndOf(tokens[i])) = tokens[i].str
  /\ \A i \in DOMAIN tokens :
       LET last == IF i = 1 THEN 1 ELSE EndOf(tokens[i - 1])
       IN /\ last <= tokens[i].at
          /\ IsComment(Stretch(last, tokens[i].at))
          /\ last < tokens[i].at => tokens[i].type = "Newline"
  /\ phase = "done" /\ tokens # <<>> => IsComment(Stretch(EndOf(Last(tokens)), Len(text) + 1))

(* An operator is the longest one that can be read at its place: no >>= is   *)
(* taken for >> and = (Lexer::lexPunctuation).                              *)
OperatorsAreLongest ==
  \A i \in DOMAIN tokens : tokens[i].type = "Operator" =>
    \A o \in Operators :
      IsPrefix(o, Stretch(tokens[i].at, Len(text) + 1)) => Len(o) <= Len(tokens[i].str)

(* A text that is stored as its tokens, as a function's body is until the   *)
(* rest of the file is read, is made into the same tokens again, though     *)
(* its comments are gone.                                                   *)
Relexed ==
  /\ phase = "stopped" => first = <<>>
  /\ phase = "done" =>
       /\ Len(tokens) = Len(first)
       /\ \A i \in DOMAIN tokens : tokens[i].type = first[i].type /\ tokens[i].str = first[i].str

\* No directive; points behind digits have digits behind them, each @ an annotation.
LetterAt(i) == At(text, i) \in Letters \cup Digits
Disciplined ==
  \A i \in DOMAIN text :
    /\ text[i] = "%" => i > 1 /\ text[i - 1] # "\n"
    /\ text[i] = "." /\ At(text, i - 1) \in Digits =>
         At(text, i + 1) \in Digits /\ ~LetterAt(i + 2)
    /\ text[i] = "@" => At(text, i + 1) \in Annotations /\ ~LetterAt(i + 2)

(* The parser sees the end of such a text where it is: no directive is left *)
(* for the lexer, which would never get past it, and a token is undefined   *)
(* nowhere else, so that no definition is silently left out (Lexer::atEnd). *)
LexesToTheEnd ==
  /\ phase \in {"lexing", "relexing"} => Type \notin {"Undefined", "Directive"}
  /\ phase = "stopped" => ~Disciplined
=============================================================================
