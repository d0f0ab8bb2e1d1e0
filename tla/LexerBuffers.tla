---------------------------- MODULE LexerBuffers ----------------------------
(***************************************************************************)
(* The lexer's buffer of tokens, and those who switch its filter.          *)
(*                                                                         *)
(* Whitespace is a token.  The parser does not want to see it, except in   *)
(* three places that gather a span of the text as it is: the body of a     *)
(* function, for the second pass; the path of an include; the text of an   *)
(* annotation.  They switch off the filter when the buffer may already     *)
(* hold what somebody has looked at, and switch it on again.               *)
(*                                                                         *)
(* A step is one call of the lexer (next, peek, setFilterWhitespace), with *)
(* what its caller does by the way.                                        *)
(***************************************************************************)
EXTENDS Integers, Sequences, FiniteSets

CONSTANTS
  Types,        \* the types of tokens
  MaxLength,    \* bound: tokens in a text
  MaxDistance,  \* bound: how far the parser looks ahead
  MaxPosition   \* bound: tokens that the lexer produces

ASSUME TypesAssumption ==
  {"whitespace", "newline", "end", "def", ">", "undefined"} \subseteq Types

ASSUME BoundsAssumption ==
  MaxLength \in Nat /\ MaxDistance \in Nat \ {0} /\ MaxPosition \in Nat

VARIABLES
  text,              \* the types of the tokens of the text
  position,          \* how many tokens Lexer::advance has made
  tokenBuffer,
  filterWhitespace,
  answer,            \* history: what next or peek has returned last
  span,              \* who reads: the parser, or a span of one of three kinds
  token,             \* what the span's reader has peeked, or NoToken
  gathered,          \* its stream s
  hitNewline,        \* local variables of TextAnnotationNode::parseText
  filteringState,
  start              \* history: how much had been taken before the span

lexer == <<text, position, tokenBuffer, filterWhitespace, answer>>
reader == <<span, token, gathered, hitNewline, filteringState, start>>
vars == <<text, position, tokenBuffer, filterWhitespace, answer,
          span, token, gathered, hitNewline, filteringState, start>>

Token == [type : Types, place : Nat]
NoToken == [type |-> "undefined", place |-> 0]

\* How many tokens the lexer's users have got, or passed over.
at == position - Len(tokenBuffer)

TypeOK ==
  /\ text \in Seq(Types)
  /\ position \in Nat
  /\ tokenBuffer \in Seq(Token)
  /\ filterWhitespace \in BOOLEAN
  /\ answer \in Token
  /\ span \in {"parser", "body", "include", "leading space", "annotation", "stopped"}
  /\ token \in Token
  /\ gathered \in Seq(Token)
  /\ hitNewline \in BOOLEAN
  /\ filteringState \in BOOLEAN
  /\ start \in Nat
  /\ start <= at

Init ==
  /\ \E n \in 0 .. MaxLength : text \in [1 .. n -> Types]
  /\ position = 0
  /\ tokenBuffer = <<>>
  /\ filterWhitespace = TRUE
  /\ answer = NoToken
  /\ span = "parser"
  /\ token = NoToken
  /\ gathered = <<>>
  /\ hitNewline = FALSE
  /\ filteringState = TRUE
  /\ start = 0

-----------------------------------------------------------------------------
(* The lexer. *)

\* Lexer::advance makes the p-th token; at the end of the input it makes
\* undefined ones.
advance(p) ==
  [type |-> IF p <= Len(text) THEN text[p] ELSE "undefined", place |-> p]

\* The buffer with n more tokens.
Extended(n) == tokenBuffer \o [i \in 1 .. n |-> advance(position + i)]

\* (Variations, named "...Mutant", are faults a run must notice.)
\* Spaces that are in the buffer already are not looked for.
CountedMutant(buffer) ==
  {i \in 1 .. Len(buffer) :
     filterWhitespace /\ i > Len(tokenBuffer) => buffer[i].type # "whitespace"}

Counted(buffer) ==
  {i \in 1 .. Len(buffer) : filterWhitespace => buffer[i].type # "whitespace"}

\* The index of the token at a distance.
IsAt(buffer, i, distance) ==
  /\ i \in Counted(buffer)
  /\ Cardinality({j \in Counted(buffer) : j <= i}) = distance

\* Tokens are made until there are enough, and no more.
Enough(n, distance) ==
  /\ Cardinality(Counted(Extended(n))) >= distance
  /\ n > 0 => Cardinality(Counted(Extended(n - 1))) < distance

peek(distance) ==
  /\ \E n \in 0 .. MaxPosition - position :
       /\ Enough(n, distance)
       /\ position' = position + n
       /\ tokenBuffer' = Extended(n)
       /\ \E i \in 1 .. Len(Extended(n)) :
            IsAt(Extended(n), i, distance) /\ answer' = Extended(n)[i]
  /\ UNCHANGED <<text, filterWhitespace>>

\* With spaces filtered, all that has been looked at is dropped.
nextMutant ==
  /\ \E n \in 0 .. MaxPosition - position :
       /\ Enough(n, 1)
       /\ position' = position + n
       /\ \E i \in 1 .. Len(Extended(n)) :
            /\ IsAt(Extended(n), i, 1)
            /\ answer' = Extended(n)[i]
            /\ tokenBuffer' = IF filterWhitespace THEN <<>>
                              ELSE SubSeq(Extended(n), i + 1, Len(Extended(n)))
  /\ UNCHANGED <<text, filterWhitespace>>

\* What is in front of the token goes with it.
next ==
  /\ \E n \in 0 .. MaxPosition - position :
       /\ Enough(n, 1)
       /\ position' = position + n
       /\ \E i \in 1 .. Len(Extended(n)) :
            /\ IsAt(Extended(n), i, 1)
            /\ answer' = Extended(n)[i]
            /\ tokenBuffer' = SubSeq(Extended(n), i + 1, Len(Extended(n)))
  /\ UNCHANGED <<text, filterWhitespace>>

\* What was looked at with the other setting is dropped.
setFilterWhitespaceMutant(value) ==
  /\ filterWhitespace' = value
  /\ tokenBuffer' = <<>>
  /\ UNCHANGED <<text, position, answer>>

setFilterWhitespace(value) ==
  /\ filterWhitespace' = value
  /\ UNCHANGED <<text, position, tokenBuffer, answer>>

-----------------------------------------------------------------------------
(* The parser: any calls in any order.  (nextIf is a peek, and a next if the
   token is the one.) *)

ParserPeeks ==
  /\ span = "parser"
  /\ \E distance \in 1 .. MaxDistance : peek(distance)
  /\ UNCHANGED reader

ParserTakes ==
  /\ span = "parser"
  /\ at <= Len(text)  \* bound: nobody goes on behind the end of the text
  /\ next
  /\ UNCHANGED reader

-----------------------------------------------------------------------------
(* Spans. *)

Begin(kind) ==
  /\ span = "parser"
  /\ setFilterWhitespace(FALSE)
  /\ span' = kind
  /\ token' = NoToken
  /\ gathered' = <<>>
  /\ start' = at

\* bufferFunctionBody; IncludeNode::parseSearchPathArgument, behind "<"
BeginSpan ==
  /\ Begin("body") \/ Begin("include")
  /\ UNCHANGED <<hitNewline, filteringState>>

\* TextAnnotationNode::parseText
BeginText ==
  /\ Begin("leading space")
  /\ hitNewline' = FALSE
  /\ filteringState' = filterWhitespace

Spans == {"body", "include", "leading space", "annotation"}

\* All of them look at a token before they take it.
Peek ==
  /\ span \in Spans
  /\ token = NoToken
  /\ peek(1)
  /\ token' = answer'
  /\ UNCHANGED <<span, gathered, hitNewline, filteringState, start>>

\* AtomicNode::isAtAtomicExpression looks further.
PeekFurther ==
  /\ span = "body"
  /\ token.type \notin {"undefined", "def", "end", "newline", "whitespace"}
  /\ \E distance \in 2 .. MaxDistance : peek(distance)
  /\ UNCHANGED reader

\* The text of an annotation begins behind a space.
LeadingSpace ==
  /\ span = "leading space"
  /\ token.type = "whitespace"
  /\ next
  /\ span' = "annotation"
  /\ token' = NoToken
  /\ start' = at'
  /\ UNCHANGED <<gathered, hitNewline, filteringState>>

\* What ends a span, when it is peeked at.  An end may also close what is nested
\* in a body; "def" stands for all that cannot be in one, and for what ends the
\* text of an annotation if it is first on a line.
Ends ==
  CASE span = "body" -> token.type = "end"
    [] span = "include" -> token.type = ">"
    [] span = "annotation" ->
         \/ token.type = "undefined"
         \/ token.type = "def" /\ hitNewline
    [] OTHER -> FALSE

\* Even what cannot be in a body is stored.
FailsMutant ==
  CASE span = "include" -> token.type = "newline"
    [] span = "leading space" -> token.type # "whitespace"
    [] OTHER -> FALSE

\* An assertion fails.
Fails ==
  CASE span = "body" -> token.type \in {"undefined", "def"}
    [] span = "include" -> token.type = "newline"
    [] span = "leading space" -> token.type # "whitespace"
    [] OTHER -> FALSE

\* A newline in the text of an annotation is taken and not stored.
Gather ==
  /\ span \in Spans \ {"leading space"}
  /\ token # NoToken
  /\ Ends => span = "body"
  /\ ~Fails
  /\ next
  /\ gathered' = IF span = "annotation" /\ token.type = "newline" THEN gathered
                 ELSE Append(gathered, answer')
  /\ hitNewline' = (span = "annotation" /\ token.type = "newline")
  /\ token' = NoToken
  /\ UNCHANGED <<span, filteringState, start>>

\* The span is over; the filter is switched on again.
End ==
  /\ token # NoToken
  /\ Ends
  /\ setFilterWhitespace(IF span = "annotation" THEN filteringState ELSE TRUE)
  /\ span' = "parser"
  /\ token' = NoToken
  /\ UNCHANGED <<gathered, hitNewline, filteringState, start>>

\* bufferFunctionBody switches the filter before its caller's assertion fails.
Fail ==
  /\ token # NoToken
  /\ Fails
  /\ setFilterWhitespace(span = "body")
  /\ span' = "stopped"
  /\ UNCHANGED <<token, gathered, hitNewline, filteringState, start>>

Reader == Peek \/ LeadingSpace \/ Gather \/ End \/ Fail

Next ==
  \/ ParserPeeks \/ ParserTakes
  \/ BeginSpan \/ BeginText
  \/ Reader \/ PeekFurther

Spec == Init /\ [][Next]_vars

\* The reader of a span goes on.
Fairness == WF_vars(Reader)

FairSpec == Spec /\ Fairness

-----------------------------------------------------------------------------
(* Correctness. *)

\* However far the parser has looked ahead, and whenever the filter is switched:
\* next and peek return what the plain stream of tokens returns.  No token is
\* lost, repeated or passed over (Lexer::next, Lexer::peek).
Stream == INSTANCE TokenStream
Implements == Stream!Spec

\* The newlines of the text of an annotation are left out.
Kept(p) == span = "annotation" => advance(p).type # "newline"

\* What a span stores is the text from its beginning, token for token and with
\* its spaces, in order: the second pass is to read what the first has read.
GatheredIsVerbatim ==
  span \in {"body", "include", "annotation"} =>
    /\ {gathered[i] : i \in 1 .. Len(gathered)} =
         {advance(p) : p \in {q \in start + 1 .. at : Kept(q)}}
    /\ \A i, j \in 1 .. Len(gathered) :
         i < j => gathered[i].place < gathered[j].place

\* No space that was let into the buffer for a span is seen by the parser.
ParserSeesNoSpaces ==
  [][span = "parser" /\ answer' # answer => answer'.type # "whitespace"]_vars

\* The end of the input, wherever it comes, ends a body and the text of an
\* annotation.  (The path of an include goes on for ever.)
SpansEnd ==
  span \in {"body", "leading space", "annotation"} ~> span \in {"parser", "stopped"}

-----------------------------------------------------------------------------
(* The inductive invariant behind all but the last. *)

\* The buffer holds what comes next, in order and without gaps.
BufferInv == \A i \in 1 .. Len(tokenBuffer) : tokenBuffer[i] = advance(at + i)

\* Spaces are filtered outside of spans, and will be when a span is over; what the
\* reader of a span has peeked is what it will take.
SpanInv ==
  /\ span # "stopped" => (filterWhitespace <=> span \notin Spans)
  /\ span \in {"leading space", "annotation"} => filteringState
  /\ span = "leading space" => gathered = <<>>
  /\ span \in Spans /\ token # NoToken => token = advance(at + 1)

IInv == TypeOK /\ BufferInv /\ SpanInv /\ GatheredIsVerbatim

=============================================================================
