--------------------------- MODULE FunctionBodies ---------------------------
(***************************************************************************)
(* The two readings of a function's body.  The first pass of the parser    *)
(* only looks for the end of the body: bufferOpenToCloseToken counts the   *)
(* keywords that an "end" closes, if they come first on a line, and stores *)
(* the text.  When all functions of the file are known, a second pass      *)
(* parses the stored text by the grammar (parseBody, parseStatement and    *)
(* the parse functions of the statement nodes).                            *)
(*                                                                         *)
(* Both readings go from left to right, the second with one token of       *)
(* look-ahead, so that a step gives the next token of the text to both;    *)
(* the second sees the end of its input where the first has stopped.       *)
(*                                                                         *)
(* A token stands for what begins with it: an expression with its          *)
(* operands, a keyword with the rest of its header.  A closure is one that *)
(* ends an expression statement.                                           *)
(***************************************************************************)
EXTENDS Integers, Sequences, FiniteSets

CONSTANT MaxNesting  \* bound: statements around a token, and ends counted

ASSUME BoundAssumption == MaxNesting \in Nat

VARIABLES
  nestedEnds,          \* local variables of bufferOpenToCloseToken
  onlyWhitespaceSoFar,
  buffered,            \* what has become of the first reading
  blocks,              \* the nodes being parsed, the function first
  opening,             \* is the last token the header of the last of blocks?
  tailing,             \* can the last token have a tailing if?
  parsed,              \* what has become of the second reading
  liberties            \* history: what the text has done beyond the discipline

scan == <<nestedEnds, onlyWhitespaceSoFar, buffered>>
parse == <<blocks, opening, tailing, parsed>>
vars == <<nestedEnds, onlyWhitespaceSoFar, buffered,
          blocks, opening, tailing, parsed, liberties>>

-----------------------------------------------------------------------------
(* Tokens. *)

\* Those with KeywordEnd as their Token::closingCounterpart.  "structure" stands
\* for the ones that begin no statement, "loop" for loop and for.
BlockKeywords ==
  {"if", "loop", "switch", "debug", "atomic", "atomic : fallback",
   "atomic expression", "structure"}

Types ==
  BlockKeywords \cup
  {"expression",   \* an expression statement or a declaration
   "closure",      \* an expression statement, up to the open brace of a closure
   "return",       \* return, break, continue, abort, barrier
   "else", "case", "end", "close brace",
   "other",        \* what begins no statement
   "def"}          \* def, namespace, import, include, the end of the file, and
                   \* what the lexer does not know

\* A token and the newlines in front of it: none, one, or more.
Tokens == [type : Types, newlines : 0 .. 2]

\* AtomicNode::isAtAtomicExpression.  In "atomic : fallback", which is an atomic
\* statement written with spaces, it looks for the word fallback in the third
\* token, and finds something else there while spaces are tokens.
isAtAtomicExpression(type, filterWhitespace) ==
  \/ type = "atomic expression"
  \/ type = "atomic : fallback" /\ ~filterWhitespace

\* (Variations, named "...Mutant" here and below, are faults a run must notice.)
\* Every atomic is taken for a statement.
AllStatementsMutant(type) == type \in BlockKeywords

mightBeClosedByEndKeyword(type) ==
  type \in BlockKeywords /\ ~isAtAtomicExpression(type, FALSE)

-----------------------------------------------------------------------------
Kinds == {"function", "if", "else", "loop", "switch", "case", "debug",
          "atomic", "closure"}

\* The nodes that an end closes.  (An else ends with its if, atomic or switch, a
\* case with its switch: each is in the place of the other.)
EndClosed == Kinds \ {"function", "closure"}

\* Loops and debug statements end without complaint where no statement is left.
Lenient == {"loop", "debug"}

TypeOK ==
  /\ nestedEnds \in Nat
  /\ onlyWhitespaceSoFar \in BOOLEAN
  /\ buffered \in {"no", "yes", "refused"}
  /\ blocks \in Seq(Kinds) /\ Len(blocks) > 0
  /\ \A i \in 1 .. Len(blocks) : blocks[i] = "function" <=> i = 1
  /\ opening \in BOOLEAN
  /\ tailing \in BOOLEAN
  /\ parsed \in {"no", "yes", "dropped", "looping", "rejected"}
  /\ liberties \subseteq {"same line", "spaced fallback", "errors"}

Init ==
  /\ nestedEnds = 0
  /\ onlyWhitespaceSoFar = TRUE
  /\ buffered = "no"
  /\ blocks = <<"function">>
  /\ opening = FALSE
  /\ tailing = FALSE
  /\ parsed = "no"
  /\ liberties = {}

Last == blocks[Len(blocks)]
Outer(n) == SubSeq(blocks, 1, n - 1)

\* The node that meets a token which begins no statement: the loops and debug
\* statements in it have ended.
Meets(n) ==
  /\ blocks[n] \notin Lenient
  /\ \A m \in n + 1 .. Len(blocks) : blocks[m] \in Lenient

-----------------------------------------------------------------------------
(* The discipline. *)

isTailingIf(t) == tailing /\ t.type = "if" /\ t.newlines = 0

\* A header has a line of its own, and no blank line behind it in a switch.
HeaderEnds(t) ==
  opening => /\ t.newlines > 0
             /\ Last = "switch" => t.newlines = 1 /\ t.type \in {"case", "else", "end"}

Grammatical(t) ==
  /\ HeaderEnds(t)
  /\ CASE t.type = "else" -> Last \in {"if", "atomic", "switch", "case"}
       [] t.type = "case" -> Last \in {"switch", "case"}
       [] t.type = "close brace" -> Last = "closure"
       [] t.type = "end" -> Last # "closure"
       [] OTHER -> t.type \notin {"structure", "other", "def"}

\* Statements with a body begin on lines of their own ...
OnOwnLine(t) ==
  t.type \in BlockKeywords \ {"atomic expression"} /\ ~isTailingIf(t)
    => t.newlines > 0

\* ... and what goes beyond that, the usual spelling and the grammar is noted.
Note(t) ==
  liberties' = liberties
    \cup (IF OnOwnLine(t) THEN {} ELSE {"same line"})
    \cup (IF t.type # "atomic : fallback" THEN {} ELSE {"spaced fallback"})
    \cup (IF Grammatical(t) THEN {} ELSE {"errors"})

-----------------------------------------------------------------------------
(* The first reading. *)

\* Every keyword counts, wherever it is.
EveryTokenMutant(t) == TRUE

\* A token is the first of its line, or there are only ends in front of it.
AtStart(t) == t.newlines > 0 \/ onlyWhitespaceSoFar

\* bufferOpenToCloseToken stores a token and goes on.
Buffer(t) ==
  /\ buffered = "no"
  /\ \/ /\ t.type = "end"
        /\ nestedEnds > 0
        /\ nestedEnds' = nestedEnds - 1
        /\ onlyWhitespaceSoFar' = AtStart(t)
     \/ /\ t.type \notin {"end", "def"}
        /\ IF AtStart(t) /\ mightBeClosedByEndKeyword(t.type)
             THEN nestedEnds < MaxNesting /\ nestedEnds' = nestedEnds + 1
             ELSE UNCHANGED nestedEnds
        /\ onlyWhitespaceSoFar' = FALSE
  /\ UNCHANGED buffered
  /\ Note(t)

\* It finds what cannot be in a function; the compiler stops.
Refuse(t) ==
  /\ buffered = "no"
  /\ t.type = "def"
  /\ buffered' = "refused"
  /\ Note(t)
  /\ UNCHANGED <<nestedEnds, onlyWhitespaceSoFar, parse>>

\* It finds the end.  The second reading is then at the end of its input.  The
\* lexer gives an undefined token there, never the EndOfInput that parseUntil
\* looks for: loops, debug statements and closures are complete, but an if, else,
\* case or atomic tries that token for ever.  A header needs a newline first, and
\* a switch a case.
Close(t) ==
  /\ buffered = "no"
  /\ t.type = "end"
  /\ nestedEnds = 0
  /\ buffered' = "yes"
  /\ parsed' =
       IF parsed # "no" THEN parsed
       ELSE IF opening /\ (t.newlines = 0 \/ Last = "switch") THEN "rejected"
       ELSE IF \E i \in 1 .. Len(blocks) : blocks[i] \in EndClosed \ Lenient
            THEN "looping" ELSE "yes"
  /\ Note(t)
  /\ UNCHANGED <<nestedEnds, onlyWhitespaceSoFar, blocks, opening, tailing>>

-----------------------------------------------------------------------------
(* The second reading: Parser::parseStatement and the parse functions of the
   statement nodes. *)

Parse(t) == parsed = "no" /\ Buffer(t)

\* Once the second reading is over, or would be, the first goes on.
BufferRest(t) ==
  /\ parsed # "no"
  /\ Buffer(t)
  /\ UNCHANGED parse

\* The second reading is at a statement.
Statement(t) ==
  /\ Parse(t)
  /\ ~isTailingIf(t)
  /\ HeaderEnds(t)

\* IfNode::parseTailing
TailingIf(t) ==
  /\ Parse(t)
  /\ isTailingIf(t)
  /\ tailing' = FALSE
  /\ UNCHANGED <<blocks, opening, parsed>>

\* A node with a body that an end closes.
OpenBlock(t, kind) ==
  /\ Statement(t)
  /\ Len(blocks) <= MaxNesting
  /\ blocks' = Append(blocks, kind)
  /\ opening' = TRUE
  /\ tailing' = FALSE
  /\ UNCHANGED parsed

IfNode(t) == t.type = "if" /\ OpenBlock(t, "if")
LoopNode(t) == t.type = "loop" /\ OpenBlock(t, "loop")
SwitchNode(t) == t.type = "switch" /\ OpenBlock(t, "switch")
DebugNode(t) == t.type = "debug" /\ OpenBlock(t, "debug")

\* AtomicNode::parse, with spaces filtered.
AtomicStatementNode(t) ==
  /\ t.type \in {"atomic", "atomic : fallback"}
  /\ ~isAtAtomicExpression(t.type, TRUE)
  /\ OpenBlock(t, "atomic")

\* ClosureNode::parse, at the end of an expression.
ClosureNode(t) ==
  /\ t.type = "closure"
  /\ Statement(t)
  /\ Len(blocks) <= MaxNesting
  /\ blocks' = Append(blocks, "closure")
  /\ opening' = FALSE
  /\ tailing' = FALSE
  /\ UNCHANGED parsed

\* A statement without a body.  Nothing has to be between it and the next.
ExpressionStatement(t) ==
  /\ t.type \in {"expression", "atomic expression"}
  /\ Statement(t)
  /\ opening' = FALSE
  /\ tailing' = FALSE
  /\ UNCHANGED <<blocks, parsed>>

ReturnNode(t) ==
  /\ t.type = "return"
  /\ Statement(t)
  /\ opening' = FALSE
  /\ tailing' = TRUE
  /\ UNCHANGED <<blocks, parsed>>

\* In the place of the part before it comes another one.
NextPart(t, kind, kinds) ==
  /\ Statement(t)
  /\ \E n \in 1 .. Len(blocks) :
       /\ Meets(n)
       /\ blocks[n] \in kinds
       /\ blocks' = Append(Outer(n), kind)
  /\ opening' = TRUE
  /\ tailing' = FALSE
  /\ UNCHANGED parsed

ElseNode(t) == t.type = "else" /\ NextPart(t, "else", {"if", "atomic", "switch", "case"})
CaseNode(t) == t.type = "case" /\ NextPart(t, "case", {"switch", "case"})

\* Parser::parseBodyWithElse and ParseHelper::parseUntilEnd take an end.
EndOfBlock(t) ==
  /\ t.type = "end"
  /\ Statement(t)
  /\ Last \in EndClosed
  /\ blocks' = Outer(Len(blocks))
  /\ opening' = FALSE
  /\ tailing' = FALSE
  /\ UNCHANGED parsed

\* The end of a closure: a brace, or instead of it any token that begins no
\* statement.
EndOfClosure(t) ==
  /\ \/ t.type \in {"close brace", "else", "case", "structure", "other"}
     \/ t.type = "end" /\ Last = "closure"
  /\ Statement(t)
  /\ \E n \in 1 .. Len(blocks) :
       /\ Meets(n)
       /\ blocks[n] = "closure"
       /\ blocks' = Outer(n)
  /\ opening' = FALSE
  /\ tailing' = FALSE
  /\ UNCHANGED parsed

\* No statement begins here.  At the level of the function the body ends, and
\* nobody hears of the rest; in a body that waits for its end, parseUntil tries
\* the same token for ever.
NoStatement(t) ==
  /\ Statement(t)
  /\ \E n \in 1 .. Len(blocks) :
       /\ Meets(n)
       /\ \/ t.type = "else" /\ blocks[n] \in {"function", "else"}
          \/ t.type = "case" /\ blocks[n] \notin {"closure", "switch", "case"}
          \/ t.type = "end" /\ Last = "function"
          \/ t.type \in {"close brace", "structure", "other"} /\ blocks[n] # "closure"
       /\ parsed' = IF blocks[n] = "function" THEN "dropped" ELSE "looping"
  /\ UNCHANGED <<blocks, opening, tailing>>

\* An assertion fails: no newline behind a header, or no case in a switch.
MissingNewline(t) ==
  /\ Parse(t)
  /\ ~HeaderEnds(t)
  /\ parsed' = "rejected"
  /\ UNCHANGED <<blocks, opening, tailing>>

Next ==
  \E t \in Tokens :
    \/ Refuse(t) \/ Close(t) \/ BufferRest(t)
    \/ TailingIf(t)
    \/ IfNode(t) \/ LoopNode(t) \/ SwitchNode(t) \/ DebugNode(t)
    \/ AtomicStatementNode(t) \/ ClosureNode(t)
    \/ ExpressionStatement(t) \/ ReturnNode(t)
    \/ ElseNode(t) \/ CaseNode(t) \/ EndOfBlock(t) \/ EndOfClosure(t)
    \/ NoStatement(t) \/ MissingNewline(t)

Spec == Init /\ [][Next]_vars

-----------------------------------------------------------------------------
(* Correctness. *)

\* The nodes that wait for an end by the grammar.
Waiting == {i \in 1 .. Len(blocks) : blocks[i] \in EndClosed}

Agreement == parsed = "no" => nestedEnds = Cardinality(Waiting)

\* In a disciplined text the two readings agree at every token on how many ends
\* are still to come, though one counts words and the other follows the grammar.
ReadingsAgree == liberties = {} => Agreement

\* A disciplined body is buffered up to the end that closes the function by the
\* grammar, no earlier and no later, and parsed without a rest.
BodiesAreWhole ==
  liberties = {} =>
    /\ parsed \in {"no", "yes"}
    /\ parsed = "yes" => blocks = <<"function">>

-----------------------------------------------------------------------------
(* The inductive invariant behind the first two. *)

\* A tailing if comes behind a token of its line; only a node that an end closes
\* has a header; nothing is left to read when both readings are over.
ControlInv ==
  /\ parsed = "no" /\ tailing => ~onlyWhitespaceSoFar
  /\ opening => Last \in EndClosed
  /\ parsed = "yes" => buffered = "yes"

IInv == TypeOK /\ ControlInv /\ ReadingsAgree /\ BodiesAreWhole

=============================================================================
