------------------------- MODULE StatementEmission -------------------------
(***************************************************************************)
(* How CCodeGenVisitor writes the bodies of functions.  A visit function   *)
(* writes a statement into _currentSource as it goes: text, braces, the    *)
(* expressions and the statements in it.  A closure in an expression is    *)
(* three pieces of C in three places: a function, written to a source of   *)
(* its own and appended to the declarations; the capture of its            *)
(* environment, a line put before the line under construction; and, where  *)
(* the expression is, the value made of both.                              *)
(*                                                                         *)
(* Of the text only what these pieces need of C is kept: braces, loop      *)
(* headers, captures, values made, calls.  The statements of a program are *)
(* chosen while they are visited.                                          *)
(***************************************************************************)
EXTENDS Integers, Sequences, FiniteSets, SequencesExt

CONSTANTS
  MaxFunctions,   \* bound: functions of the program
  MaxStatements,  \* bound: statements in them
  MaxClosures     \* bound: closures in them

ASSUME BoundsAssumption ==
  MaxFunctions \in Nat /\ MaxStatements \in Nat /\ MaxClosures \in Nat

VARIABLES
  sources,      \* _bodySource and, above it, the dedicatedSource of each
                \* closure being visited; the last one is _currentSource
  declarations, \* _declaractionsSource: prototypes and closure functions
  visits,       \* the visit functions under way, outermost first
  private,      \* for each function so far: is it private?
  closures,     \* for each closure so far: where it stands
  statements,   \* statements so far
  caseless      \* history: has there been a switch without a case?

vars == <<sources, declarations, visits, private, closures, statements, caseless>>

-----------------------------------------------------------------------------
(* The pieces of C. *)

Piece(kind, number) == [is |-> kind, of |-> number]
Open == <<Piece("open", 0)>>
Close == <<Piece("close", 0)>>
Repeating == <<Piece("repeating", 0)>>  \* what a loop evaluates each time
Text == << >>                           \* text that is neither

-----------------------------------------------------------------------------
(* CSource.  Nothing sets _linePosition, so a line is inserted at the end. *)

EmptySource == [lines |-> << >>, stream |-> << >>, level |-> 0]

insertLine(s, text) == [s EXCEPT !.lines = @ \o text]
flushLineBuffer(s) == [insertLine(s, s.stream) EXCEPT !.stream = << >>]

print(s, text) == [s EXCEPT !.stream = @ \o text]
printLine(s, text) == flushLineBuffer(print(s, text))

\* Mutant: the line under construction is ended first.
LinePrintedFirstMutant(s, text) == insertLine(flushLineBuffer(s), text)

printPreviousLine(s, text) == insertLine(s, text)

increaseIndentation(s) == [s EXCEPT !.level = @ + 1]
\* asserts that the level is not 0: a negative level is a failed assertion
decreaseIndentation(s) == [s EXCEPT !.level = @ - 1]

printLineAndIndent(s, text) == increaseIndentation(printLine(s, text))
outdentAndPrintLine(s, text) == printLine(decreaseIndentation(s), text)

-----------------------------------------------------------------------------
(* A visit function is the sequence of its steps. *)

Step(do, text) == [do |-> do, text |-> text, part |-> ""]
Put(text) == Step("print", text)
Line(text) == Step("printLine", text)
LineAndIndent(text) == Step("printLineAndIndent", text)
OutdentAndLine(text) == Step("outdentAndPrintLine", text)
Indent == Step("increaseIndentation", Text)
Outdent == Step("decreaseIndentation", Text)
Children == Step("visitChildren", Text)
Expression(part) == [do |-> "accept", text |-> Text, part |-> part]

Writing == {"print", "printLine", "printLineAndIndent", "outdentAndPrintLine",
            "increaseIndentation", "decreaseIndentation"}

Written(s, step) ==
  CASE step.do = "print" -> print(s, step.text)
    [] step.do = "printLine" -> printLine(s, step.text)
    [] step.do = "printLineAndIndent" -> printLineAndIndent(s, step.text)
    [] step.do = "outdentAndPrintLine" -> outdentAndPrintLine(s, step.text)
    [] step.do = "increaseIndentation" -> increaseIndentation(s)
    [] step.do = "decreaseIndentation" -> decreaseIndentation(s)

FunctionDefinitionNode ==
  <<Put(Text), LineAndIndent(Open), Children, OutdentAndLine(Close), Line(Text)>>

\* The structure of the environment, and the function.
ClosureNode ==
  <<Line(Text), LineAndIndent(Open), OutdentAndLine(Close), Put(Text),
    LineAndIndent(Open), Children, OutdentAndLine(Close), Line(Text)>>

IfNode(else) ==
  <<Put(Text), Expression("if"), LineAndIndent(Open), Children>>
    \o (IF else THEN <<OutdentAndLine(Close \o Open), Indent, Children>> ELSE << >>)
    \o <<OutdentAndLine(Close)>>

ForeverNode == <<LineAndIndent(Open), Children, OutdentAndLine(Close)>>

\* Mutant: the indentation of the body is kept.
KeptIndentationMutant ==
  <<LineAndIndent(Open), Children, Put(Close), Expression("do"), Line(Text)>>

DoNode ==
  <<LineAndIndent(Open), Children, Put(Close),
    Expression("do"), OutdentAndLine(Text)>>

WhileNode ==
  <<Put(Repeating), Expression("while"), LineAndIndent(Open), Children,
    OutdentAndLine(Close)>>

ForNode(header) ==
  <<Put(Text)>> \o header \o
  <<LineAndIndent(Open), Children, OutdentAndLine(Close)>>

\* forStartExpression, forCondition and forLoopExpression.
ExpressionHeader ==
  <<Expression("forStart"), Put(Repeating), Expression("forCondition"),
    Expression("forStep")>>
\* Mutant: the range may be empty.
UncheckedRangeMutant ==
  <<Expression("rangeStart"), Put(Repeating), Expression("rangeEnd"), Put(Text)>>

RangeHeader ==
  <<Expression("rangeStart"), Put(Repeating), Expression("rangeEnd"),
    Expression("rangeStart"), Expression("rangeEnd"), Put(Text)>>

\* Up to two cases: a third is written like the second.
SwitchNode(cases, else) ==
  LET argument == IF cases > 1 THEN "switchRepeated" ELSE "switch"
      Case(before, label) ==
        <<Put(before), Expression(argument), Expression(label), LineAndIndent(Open),
          Children, Outdent>>
  IN  (IF cases > 0 THEN Case(Text, "case") ELSE << >>)
        \o (IF cases > 1 THEN Case(Close, "laterCase") ELSE << >>)
        \o (IF else THEN <<LineAndIndent(Close \o Open), Children, Outdent>>
                    ELSE << >>)
        \o <<Line(Close)>>

\* Of the lock's expressions only its context.
transactionAllocation == <<Put(Text), Expression("context"), Put(Text), Line(Text)>>

AtomicStatementNode(else) ==
  transactionAllocation \o
  <<Put(Text), LineAndIndent(Open), Children, OutdentAndLine(Close \o Open), Indent,
    IF else THEN Children ELSE Line(Text), OutdentAndLine(Close)>>

\* A return that ends a transaction keeps its value in a variable.
ReturnNode(ends) ==
  <<Put(Text), Expression("value")>>
    \o (IF ends THEN <<Line(Text), Line(Text), Put(Text)>> ELSE << >>)

\* A call with two arguments.
FunctionCallOperatorNode == <<Put(Text), Expression("value"), Expression("value2")>>

Statements ==
  {[script |-> script, statement |-> TRUE] :
     script \in {FunctionCallOperatorNode, ReturnNode(TRUE), ReturnNode(FALSE)}}
  \cup
  {[script |-> script, statement |-> FALSE] :
     script \in {IfNode(TRUE), IfNode(FALSE), ForeverNode, DoNode, WhileNode,
                 ForNode(ExpressionHeader), ForNode(RangeHeader),
                 AtomicStatementNode(TRUE), AtomicStatementNode(FALSE)}
                \cup {SwitchNode(cases, else) : cases \in 0 .. 2, else \in BOOLEAN}}

-----------------------------------------------------------------------------
(* A visit: the steps that are left, whether visitChildren ends it with a  *)
(* semicolon, the closure of a visit to a closure (else 0), the number of  *)
(* declarations when it began, and what its expressions have been found to *)
(* be: a closure, a call of a function, or neither, with the declarations  *)
(* that a visit to the expression adds.                                    *)

Visit(script, statement, closure) ==
  [script |-> script, statement |-> statement, closure |-> closure,
   declared |-> Len(declarations), found |-> << >>]

Declared(kind, number, text) == [is |-> kind, of |-> number, text |-> text]
Found(closure, call, added) == [closure |-> closure, call |-> call, added |-> added]

Init ==
  /\ sources = <<EmptySource>>
  /\ declarations = << >>
  /\ visits = << >>
  /\ private = << >>
  /\ closures = << >>
  /\ statements = 0
  /\ caseless = FALSE

Top(seq) == seq[Len(seq)]
NextStep == Head(Top(visits).script)
Visiting(do) == visits # << >> /\ Top(visits).script # << >> /\ NextStep.do \in do

\* visits, when the innermost visit has taken its step.
Advanced == [visits EXCEPT ![Len(visits)].script = Tail(@)]

\* The C of an expression, in source s.
WrittenExpression(s, expression) ==
  IF expression.closure # 0
  THEN print(printPreviousLine(s, <<Piece("capture", expression.closure)>>),
             <<Piece("make", expression.closure)>>)
  ELSE IF expression.call # 0 THEN print(s, <<Piece("call", expression.call)>>)
  ELSE s

\* The innermost of the visits vs finds out what its expression is.
Noted(vs, expression) ==
  LET visit == Top(vs)
      part == Head(visit.script).part
      found == [p \in DOMAIN visit.found \cup {part} |->
                  IF p = part THEN expression ELSE visit.found[p]]
  IN  [vs EXCEPT ![Len(vs)] =
         [visit EXCEPT !.script = Tail(visit.script), !.found = found]]

\* visit(FunctionDefinitionNode&): the prototype of a private function goes to
\* the declarations, that of another to a header; then the body begins.
FunctionDefinition(hidden) ==
  /\ visits = << >>
  /\ Len(private) < MaxFunctions
  /\ private' = Append(private, hidden)
  /\ declarations' = IF hidden
       THEN Append(declarations, Declared("prototype", Len(private'), Text))
       ELSE declarations
  /\ visits' = <<Visit(FunctionDefinitionNode, FALSE, 0)>>
  /\ UNCHANGED <<sources, closures, statements, caseless>>

\* A step that only writes.
Write ==
  /\ Visiting(Writing)
  /\ sources' = [sources EXCEPT ![Len(sources)] = Written(@, NextStep)]
  /\ visits' = Advanced
  /\ UNCHANGED <<declarations, private, closures, statements, caseless>>

\* An expression without a closure, which may call a function.
PlainExpression(call) ==
  /\ Visiting({"accept"}) /\ NextStep.part \notin DOMAIN Top(visits).found
  /\ call # 0 => NextStep.part = "value"
  /\ LET expression == Found(0, call, << >>) IN
       /\ sources' = [sources EXCEPT ![Len(sources)] = WrittenExpression(@, expression)]
       /\ visits' = Noted(visits, expression)
  /\ UNCHANGED <<declarations, private, closures, statements, caseless>>

\* An expression that is visited once more: everything is written again.
ExpressionAgain ==
  /\ Visiting({"accept"}) /\ NextStep.part \in DOMAIN Top(visits).found
  /\ LET expression == Top(visits).found[NextStep.part] IN
       /\ sources' = [sources EXCEPT ![Len(sources)] = WrittenExpression(@, expression)]
       /\ declarations' = declarations \o expression.added
  /\ visits' = Advanced
  /\ UNCHANGED <<private, closures, statements, caseless>>

\* visit(ClosureNode&), from its start to the end of its function ...
BeginClosure ==
  /\ Visiting({"accept"}) /\ NextStep.part \notin DOMAIN Top(visits).found
  /\ Len(closures) < MaxClosures
  /\ closures' = Append(closures, [part |-> NextStep.part, function |-> Len(private)])
  /\ sources' = Append(sources, EmptySource)
  /\ visits' = Append(visits, Visit(ClosureNode, FALSE, Len(closures')))
  /\ UNCHANGED <<declarations, private, statements, caseless>>

\* Mutant: "closures are defined in the opposite order they appear".
OppositeOrderMutant ==
  /\ visits # << >> /\ Top(visits).script = << >> /\ Top(visits).closure # 0
  /\ LET closure == Top(visits).closure
         function == Declared("closure", closure, Top(sources).lines)
         expression == Found(closure, 0, <<function>>)
     IN  /\ declarations' = <<function>> \o declarations
         /\ sources' = [Front(sources) EXCEPT ![Len(sources) - 1] =
                          WrittenExpression(@, expression)]
         /\ visits' = Noted(Front(visits), expression)
  /\ UNCHANGED <<private, closures, statements, caseless>>

\* ... and the rest: the capture, the value, and the function's text.
EndClosure ==
  /\ visits # << >> /\ Top(visits).script = << >> /\ Top(visits).closure # 0
  /\ LET closure == Top(visits).closure
         added == SubSeq(declarations', Top(visits).declared + 1, Len(declarations'))
         expression == Found(closure, 0, added)
     IN  /\ declarations' =
              Append(declarations, Declared("closure", closure, Top(sources).lines))
         /\ sources' = [Front(sources) EXCEPT ![Len(sources) - 1] =
                          WrittenExpression(@, expression)]
         /\ visits' = Noted(Front(visits), expression)
  /\ UNCHANGED <<private, closures, statements, caseless>>

\* visitChildren: the next child ...
BeginStatement(node) ==
  /\ Visiting({"visitChildren"})
  /\ statements < MaxStatements
  /\ statements' = statements + 1
  /\ caseless' = (caseless \/ node.script \in {SwitchNode(0, TRUE), SwitchNode(0, FALSE)})
  /\ visits' = Append(visits, Visit(node.script, node.statement, 0))
  /\ UNCHANGED <<sources, declarations, private, closures>>

\* ... its end, with a semicolon if the child is a statement ...
EndStatement ==
  /\ Len(visits) > 1 /\ Top(visits).script = << >> /\ Top(visits).closure = 0
  /\ sources' = IF Top(visits).statement
       THEN [sources EXCEPT ![Len(sources)] = printLine(@, Text)]
       ELSE sources
  /\ visits' = Front(visits)
  /\ UNCHANGED <<declarations, private, closures, statements, caseless>>

\* ... and no more children.
EndChildren ==
  /\ Visiting({"visitChildren"})
  /\ visits' = Advanced
  /\ UNCHANGED <<sources, declarations, private, closures, statements, caseless>>

EndFunction ==
  /\ Len(visits) = 1 /\ Top(visits).script = << >>
  /\ visits' = << >>
  /\ UNCHANGED <<sources, declarations, private, closures, statements, caseless>>

Next ==
  \/ \E hidden \in BOOLEAN : FunctionDefinition(hidden)
  \/ Write
  \/ \E call \in 0 .. MaxFunctions : PlainExpression(call)
  \/ ExpressionAgain
  \/ BeginClosure
  \/ EndClosure
  \/ \E node \in Statements : BeginStatement(node)
  \/ EndStatement
  \/ EndChildren
  \/ EndFunction

Spec == Init /\ [][Next]_vars

-----------------------------------------------------------------------------
(* The text as C reads it: the blocks that are open, each with the         *)
(* environments captured in it; and what has been made of them.            *)

Block(header) == [header |-> header, captured |-> {}]

\* The blocks after a "}": a loop's header ends with its body.
Closed(blocks) ==
  LET outer == Front(blocks)
  IN  IF outer # << >> /\ Top(outer).header THEN Front(outer) ELSE outer

\* How a value finds its environment: captured in its own block, captured
\* outside of the loop that makes the value each time, or not in sight.
Seen(blocks, closure) ==
  LET at == {i \in DOMAIN blocks : closure \in blocks[i].captured}
  IN  IF at = {} THEN "unseen"
      ELSE IF \E i \in at : \A j \in i + 1 .. Len(blocks) : ~blocks[j].header
           THEN "fresh" ELSE "stale"

Read(state, piece) ==
  LET blocks == state.blocks IN
  CASE piece.is = "open" -> [state EXCEPT !.blocks = Append(blocks, Block(FALSE))]
    [] piece.is = "repeating" -> [state EXCEPT !.blocks = Append(blocks, Block(TRUE))]
    [] piece.is = "close" ->
         IF blocks = << >> THEN [state EXCEPT !.matched = FALSE]
         ELSE [state EXCEPT !.blocks = Closed(blocks)]
    [] piece.is = "capture" /\ blocks # << >> ->
         [state EXCEPT !.blocks[Len(blocks)].captured = @ \cup {piece.of}]
    [] piece.is = "make" ->
         [state EXCEPT !.made = @ \cup {<<piece.of, Seen(blocks, piece.of)>>}]
    [] OTHER -> state

Reading(text) ==
  LET read[n \in 0 .. Len(text)] ==
        IF n = 0 THEN [blocks |-> << >>, matched |-> TRUE, made |-> {}]
        ELSE Read(read[n - 1], text[n])
  IN read[Len(text)]

Texts == {sources[1].lines} \cup {d.text : d \in Range(declarations)}
Definitions(c) == {i \in DOMAIN declarations :
                     declarations[i].is = "closure" /\ declarations[i].of = c}
Done == visits = << >>

-----------------------------------------------------------------------------
(* Properties. *)

\* decreaseIndentation's assertion, "_indentationLevel > 0", holds; after a
\* function the body is back at its first level with no line begun, and the
\* braces of it and of every closure match, whatever the statements and closures
\* in each other - unless a switch had no case, and then they never do:
\* visit(SwitchNode&) ends the chain of ifs it has not begun.
BlocksMatch ==
  /\ \A i \in DOMAIN sources : sources[i].level \in Nat
  /\ Done =>
       /\ sources = <<[EmptySource EXCEPT !.lines = sources[1].lines]>>
       /\ ~caseless <=>
            \A text \in Texts : Reading(text).matched /\ Reading(text).blocks = << >>

\* How the values of a closure find their environment, by the closure's place:
\* the line under construction, before which the environment is captured, may
\* be a loop's header, or begin with the "}" of the block it is captured in.
Ways(part) ==
  CASE part \in {"do", "laterCase"} -> {"unseen"}
    [] part \in {"while", "forCondition", "forStep", "rangeEnd"} -> {"stale"}
    [] part = "rangeStart" -> {"fresh", "stale"}
    [] OTHER -> {"fresh"}

\* Every closure is made of an environment that is in sight and was captured
\* since the value was last made, except, always, in the places that Ways
\* names: there C finds no environment, or one with the values of before the
\* loop.
EnvironmentsAreFresh ==
  Done /\ ~caseless =>
    LET made == UNION {Reading(text).made : text \in Texts}
    IN  \A c \in DOMAIN closures :
          {how \in {"fresh", "stale", "unseen"} : <<c, how>> \in made}
            = Ways(closures[c].part)

\* The function of a closure is defined once, unless the closure or one around
\* it stands where visit(SwitchNode&) or forCondition visits an expression
\* again.
DefinedOnce ==
  Done =>
    \A c \in DOMAIN closures :
      Cardinality(Definitions(c)) = 1 <=>
        /\ closures[c].part \notin {"rangeStart", "rangeEnd", "switchRepeated"}
        /\ \A outer \in DOMAIN declarations :
             Piece("make", c) \in Range(declarations[outer].text) =>
               Cardinality(Definitions(declarations[outer].of)) = 1

\* A closure's function comes after those of the closures it makes, and after
\* the prototypes of the private functions it calls - but for the functions
\* that follow the one the closure is in, whose prototypes always come later.
DefinedBeforeUse ==
  \A i \in DOMAIN declarations : \A piece \in Range(declarations[i].text) :
    LET before(kind) == \E j \in 1 .. i - 1 :
          declarations[j].is = kind /\ declarations[j].of = piece.of
        called == /\ piece.is = "call" /\ Done
                  /\ piece.of \in DOMAIN private /\ private[piece.of]
    IN  /\ piece.is = "make" => before("closure")
        /\ called => (before("prototype") <=>
                        piece.of <= closures[declarations[i].of].function)

-----------------------------------------------------------------------------
(* What makes DefinedBeforeUse inductive. *)

Parts ==
  {"", "if", "do", "while", "forStart", "forCondition", "forStep", "rangeStart",
   "rangeEnd", "switch", "switchRepeated", "case", "laterCase", "context", "value",
   "value2"}
Marks == [is : {"open", "close", "repeating"}, of : Nat]  \* the pieces in scripts
Pieces == [is : {"open", "close", "repeating", "capture", "make", "call"}, of : Nat]
Steps == [do : Writing \cup {"visitChildren", "accept"}, text : Seq(Marks), part : Parts]
Sources == [lines : Seq(Pieces), stream : Seq(Pieces), level : Int]
Declarations == [is : {"prototype", "closure"}, of : Nat, text : Seq(Pieces)]
Expressions == [closure : Nat, call : Nat, added : Seq(Declarations)]
Places == [part : Parts, function : Nat]
Findings == UNION {[P -> Expressions] : P \in SUBSET Parts}
Visits ==
  [script : Seq(Steps), statement : BOOLEAN, closure : Nat, declared : Nat,
   found : Findings]

Typed ==
  /\ sources \in Seq(Sources)
  /\ declarations \in Seq(Declarations)
  /\ visits \in Seq(Visits)
  /\ private \in Seq(BOOLEAN)
  /\ closures \in Seq(Places)

\* Each closure being visited has a source.
ClosureVisits(vs, n) == {i \in 1 .. n : vs[i].closure # 0}
SourcesFollow == Len(sources) = 1 + Cardinality(ClosureVisits(visits, Len(visits)))

\* A closure is visited for an expression of the visit around it.
CallersWait ==
  \A i \in 1 .. Len(visits) :
    visits[i].closure # 0 => i > 1 /\ visits[i - 1].script # << >>

\* The first n of the declarations ds define c, or declare k; and all closures
\* that the text makes.
Defines(ds, n, c) == \E j \in 1 .. n : ds[j].is = "closure" /\ ds[j].of = c
Announces(ds, n, k) == \E j \in 1 .. n : ds[j].is = "prototype" /\ ds[j].of = k
DefinesMade(ds, n, text) ==
  \A i \in 1 .. Len(text) : text[i].is = "make" => Defines(ds, n, text[i].of)

PrototypesFollow ==
  /\ \A k \in 1 .. Len(private) :
       private[k] => Announces(declarations, Len(declarations), k)
  /\ \A j \in 1 .. Len(declarations) :
       declarations[j].is = "prototype" =>
         declarations[j].of \in 1 .. Len(private) /\ declarations[j].text = << >>

\* A closure's function comes behind the prototypes of its function and of those
\* before that one, and of no others.
FunctionsFollow ==
  \A i \in 1 .. Len(declarations) :
    declarations[i].is = "closure" =>
      /\ declarations[i].of \in 1 .. Len(closures)
      /\ closures[declarations[i].of].function <= Len(private)
      /\ \A k \in 1 .. Len(private) : private[k] =>
           (Announces(declarations, i - 1, k)
              <=> k <= closures[declarations[i].of].function)

MakesFollow ==
  /\ \A i \in 1 .. Len(declarations) :
       DefinesMade(declarations, i - 1, declarations[i].text)
  /\ \A i \in 1 .. Len(sources) :
       /\ DefinesMade(declarations, Len(declarations), sources[i].lines)
       /\ DefinesMade(declarations, Len(declarations), sources[i].stream)

\* A declaration of a closure of the current function.
Current(d) ==
  /\ d.is = "closure" /\ d.of \in 1 .. Len(closures)
  /\ closures[d.of].function = Len(private)
  /\ DefinesMade(declarations, Len(declarations), d.text)

\* What a visit knows of closures is of the current function.
Knows(visit) ==
  /\ visit.closure # 0 =>
       /\ visit.closure \in 1 .. Len(closures)
       /\ closures[visit.closure].function = Len(private)
       /\ \A i \in 1 .. Len(declarations) :
            i > visit.declared => Current(declarations[i])
  /\ \A part \in DOMAIN visit.found :
       LET expression == visit.found[part] IN
       /\ expression.closure # 0 =>
            Defines(declarations, Len(declarations), expression.closure)
       /\ \A i \in 1 .. Len(expression.added) : Current(expression.added[i])

IInv ==
  /\ Typed /\ SourcesFollow /\ CallersWait
  /\ PrototypesFollow /\ FunctionsFollow /\ MakesFollow
  /\ \A i \in 1 .. Len(visits) : Knows(visits[i])

=============================================================================
