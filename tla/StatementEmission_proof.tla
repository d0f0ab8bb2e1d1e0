----------------------- MODULE StatementEmission_proof -----------------------
(***************************************************************************)
(* Proofs about StatementEmission, for programs of any size.               *)
(***************************************************************************)
EXTENDS StatementEmission, FiniteSetTheorems, TLAPS, WellFoundedInduction

-----------------------------------------------------------------------------
(* Sequences that grow and shrink. *)

\* A last element is put to a sequence.
LEMMA Appended ==
  ASSUME NEW S, NEW seq \in Seq(S), NEW e \in S
  PROVE  /\ Append(seq, e) \in Seq(S)
         /\ Len(Append(seq, e)) = Len(seq) + 1
         /\ \A i \in 1 .. Len(seq) : Append(seq, e)[i] = seq[i]
         /\ Append(seq, e)[Len(seq) + 1] = e
OBVIOUS

\* The last element is taken from a sequence.
LEMMA Taken ==
  ASSUME NEW S, NEW seq \in Seq(S), Len(seq) >= 1
  PROVE  /\ Front(seq) \in Seq(S)
         /\ Len(Front(seq)) = Len(seq) - 1
         /\ \A i \in 1 .. Len(seq) - 1 : Front(seq)[i] = seq[i]
<1>1. Front(seq) = [i \in 1 .. Len(seq) - 1 |-> seq[i]]
  BY DEF Front
<1>. QED
  BY <1>1

\* An element is replaced.
LEMMA Replaced ==
  ASSUME NEW S, NEW seq \in Seq(S), NEW n \in 1 .. Len(seq), NEW e \in S
  PROVE  /\ [seq EXCEPT ![n] = e] \in Seq(S)
         /\ Len([seq EXCEPT ![n] = e]) = Len(seq)
         /\ \A i \in 1 .. Len(seq) : [seq EXCEPT ![n] = e][i] = IF i = n THEN e ELSE seq[i]
OBVIOUS

\* Two sequences are put together.
LEMMA Joined ==
  ASSUME NEW S, NEW s \in Seq(S), NEW t \in Seq(S)
  PROVE  /\ s \o t \in Seq(S)
         /\ Len(s \o t) = Len(s) + Len(t)
         /\ \A i \in 1 .. Len(s) : (s \o t)[i] = s[i]
         /\ \A i \in 1 .. Len(t) : (s \o t)[Len(s) + i] = t[i]
         /\ \A i \in Len(s) + 1 .. Len(s) + Len(t) :
              i - Len(s) \in 1 .. Len(t) /\ (s \o t)[i] = t[i - Len(s)]
OBVIOUS

-----------------------------------------------------------------------------
(* Scripts. *)

\* The steps that scripts are made of.
LEMMA StepsAreSteps ==
  /\ \A text \in {Text, Open, Close, Repeating, Close \o Open} :
       /\ text \in Seq(Marks)
       /\ {Put(text), Line(text), LineAndIndent(text), OutdentAndLine(text)} \subseteq Steps
  /\ {Indent, Outdent, Children} \subseteq Steps
  /\ \A part \in Parts : Expression(part) \in Steps
<1>1. /\ Piece("open", 0) \in Marks /\ Piece("close", 0) \in Marks
      /\ Piece("repeating", 0) \in Marks
  BY DEF Piece, Marks
<1>2. /\ Text \in Seq(Marks) /\ Open \in Seq(Marks) /\ Close \in Seq(Marks)
      /\ Repeating \in Seq(Marks)
  BY <1>1 DEF Text, Open, Close, Repeating
<1>3. Close \o Open \in Seq(Marks)
  BY <1>2
<1>4. \A text \in Seq(Marks) :
        {Put(text), Line(text), LineAndIndent(text), OutdentAndLine(text)} \subseteq Steps
  BY DEF Put, Line, LineAndIndent, OutdentAndLine, Step, Steps, Parts, Writing
<1>5. {Indent, Outdent, Children} \subseteq Steps
  BY <1>2 DEF Indent, Outdent, Children, Step, Steps, Parts, Writing
<1>6. \A part \in Parts : Expression(part) \in Steps
  BY <1>2 DEF Expression, Steps, Writing
<1>. QED
  BY <1>2, <1>3, <1>4, <1>5, <1>6

\* A script is a sequence of such steps.
LEMMA ScriptsAreScripts ==
  /\ FunctionDefinitionNode \in Seq(Steps) /\ ClosureNode \in Seq(Steps)
  /\ \A node \in Statements : node.script \in Seq(Steps) /\ node.statement \in BOOLEAN
<1>1. /\ Put(Text) \in Steps /\ Put(Close) \in Steps /\ Put(Repeating) \in Steps
      /\ Line(Text) \in Steps /\ Line(Close) \in Steps
      /\ LineAndIndent(Open) \in Steps /\ LineAndIndent(Close \o Open) \in Steps
      /\ OutdentAndLine(Close) \in Steps /\ OutdentAndLine(Close \o Open) \in Steps
      /\ OutdentAndLine(Text) \in Steps
      /\ Indent \in Steps /\ Outdent \in Steps /\ Children \in Steps
  BY StepsAreSteps
<1>2. /\ Expression("if") \in Steps /\ Expression("do") \in Steps
      /\ Expression("while") \in Steps /\ Expression("forStart") \in Steps
      /\ Expression("forCondition") \in Steps /\ Expression("forStep") \in Steps
      /\ Expression("rangeStart") \in Steps /\ Expression("rangeEnd") \in Steps
      /\ Expression("switch") \in Steps /\ Expression("switchRepeated") \in Steps
      /\ Expression("case") \in Steps /\ Expression("laterCase") \in Steps
      /\ Expression("context") \in Steps /\ Expression("value") \in Steps
      /\ Expression("value2") \in Steps
  BY StepsAreSteps DEF Parts
<1>3. FunctionDefinitionNode \in Seq(Steps)
  BY <1>1 DEF FunctionDefinitionNode
<1>4. ClosureNode \in Seq(Steps)
  BY <1>1 DEF ClosureNode
<1>5. ASSUME NEW else \in BOOLEAN
      PROVE  IfNode(else) \in Seq(Steps)
  <2>1. <<Put(Text), Expression("if"), LineAndIndent(Open), Children>> \in Seq(Steps)
    BY <1>1, <1>2
  <2>2. /\ <<OutdentAndLine(Close \o Open), Indent, Children>> \in Seq(Steps)
        /\ << >> \in Seq(Steps)
        /\ <<OutdentAndLine(Close)>> \in Seq(Steps)
    BY <1>1
  <2>. QED
    BY <2>1, <2>2 DEF IfNode
<1>6. ForeverNode \in Seq(Steps)
  BY <1>1 DEF ForeverNode
<1>7. DoNode \in Seq(Steps)
  BY <1>1, <1>2 DEF DoNode
<1>8. WhileNode \in Seq(Steps)
  BY <1>1, <1>2 DEF WhileNode
<1>9. ExpressionHeader \in Seq(Steps)
  BY <1>1, <1>2 DEF ExpressionHeader
<1>10. RangeHeader \in Seq(Steps)
  BY <1>1, <1>2 DEF RangeHeader
<1>11. ASSUME NEW header \in Seq(Steps)
       PROVE  ForNode(header) \in Seq(Steps)
  <2>1. <<Put(Text)>> \in Seq(Steps)
    BY <1>1
  <2>2. <<LineAndIndent(Open), Children, OutdentAndLine(Close)>> \in Seq(Steps)
    BY <1>1
  <2>. QED
    BY <2>1, <2>2 DEF ForNode
<1>12. ASSUME NEW else \in BOOLEAN
       PROVE  AtomicStatementNode(else) \in Seq(Steps)
  <2>1. transactionAllocation \in Seq(Steps)
    BY <1>1, <1>2 DEF transactionAllocation
  <2>2. (IF else THEN Children ELSE Line(Text)) \in Steps
    BY <1>1
  <2>3. <<Put(Text), LineAndIndent(Open), Children, OutdentAndLine(Close \o Open), Indent,
          IF else THEN Children ELSE Line(Text), OutdentAndLine(Close)>> \in Seq(Steps)
    BY <1>1, <2>2
  <2>. QED
    BY <2>1, <2>3 DEF AtomicStatementNode
<1>13. ASSUME NEW ends \in BOOLEAN
       PROVE  ReturnNode(ends) \in Seq(Steps)
  <2>1. <<Put(Text), Expression("value")>> \in Seq(Steps)
    BY <1>1, <1>2
  <2>2. <<Line(Text), Line(Text), Put(Text)>> \in Seq(Steps) /\ << >> \in Seq(Steps)
    BY <1>1
  <2>. QED
    BY <2>1, <2>2 DEF ReturnNode
<1>14. FunctionCallOperatorNode \in Seq(Steps)
  BY <1>1, <1>2 DEF FunctionCallOperatorNode
<1>15. ASSUME NEW cases \in 0 .. 2, NEW else \in BOOLEAN
       PROVE  SwitchNode(cases, else) \in Seq(Steps)
  <2>. DEFINE argument == IF cases > 1 THEN "switchRepeated" ELSE "switch"
              Case(before, label) ==
                <<Put(before), Expression(argument), Expression(label),
                  LineAndIndent(Open), Children, Outdent>>
              Else == IF else THEN <<LineAndIndent(Close \o Open), Children, Outdent>>
                              ELSE << >>
  <2>1. Expression(argument) \in Steps
    BY <1>2
  <2>2. Case(Text, "case") \in Seq(Steps) /\ Case(Close, "laterCase") \in Seq(Steps)
    <3>. HIDE DEF argument
    <3>. QED
      BY <2>1, <1>1, <1>2
  <2>3. Else \in Seq(Steps) /\ <<Line(Close)>> \in Seq(Steps) /\ << >> \in Seq(Steps)
    BY <1>1
  <2>4. SwitchNode(cases, else) =
          (IF cases > 0 THEN Case(Text, "case") ELSE << >>)
            \o (IF cases > 1 THEN Case(Close, "laterCase") ELSE << >>)
            \o Else \o <<Line(Close)>>
    BY DEF SwitchNode
  <2>. HIDE DEF Case, Else
  <2>. QED
    BY <2>2, <2>3, <2>4
<1>16. ASSUME NEW node \in Statements
       PROVE  node.script \in Seq(Steps) /\ node.statement \in BOOLEAN
  <2>. DEFINE Plain == {FunctionCallOperatorNode, ReturnNode(TRUE), ReturnNode(FALSE)}
              Loops == {IfNode(TRUE), IfNode(FALSE), ForeverNode, DoNode, WhileNode,
                        ForNode(ExpressionHeader), ForNode(RangeHeader),
                        AtomicStatementNode(TRUE), AtomicStatementNode(FALSE)}
              Switches == {SwitchNode(cases, else) : cases \in 0 .. 2, else \in BOOLEAN}
  <2>1. Plain \subseteq Seq(Steps)
    BY <1>13, <1>14
  <2>2. Loops \subseteq Seq(Steps)
    <3>1. IfNode(TRUE) \in Seq(Steps) /\ IfNode(FALSE) \in Seq(Steps)
      BY <1>5
    <3>2. /\ ForNode(ExpressionHeader) \in Seq(Steps)
          /\ ForNode(RangeHeader) \in Seq(Steps)
      BY <1>9, <1>10, <1>11
    <3>3. /\ AtomicStatementNode(TRUE) \in Seq(Steps)
          /\ AtomicStatementNode(FALSE) \in Seq(Steps)
      BY <1>12
    <3>. QED
      BY <3>1, <3>2, <3>3, <1>6, <1>7, <1>8
  <2>3. Switches \subseteq Seq(Steps)
    BY <1>15
  <2>4. Statements = {[script |-> script, statement |-> TRUE] : script \in Plain}
                       \cup {[script |-> script, statement |-> FALSE] :
                               script \in Loops \cup Switches}
    BY DEF Statements
  <2>. HIDE DEF Plain, Loops, Switches
  <2>5. CASE \E script \in Plain : node = [script |-> script, statement |-> TRUE]
    BY <2>1, <2>5
  <2>6. CASE \E script \in Loops \cup Switches :
               node = [script |-> script, statement |-> FALSE]
    BY <2>2, <2>3, <2>6
  <2>. QED
    BY <2>4, <2>5, <2>6
<1>. QED
  BY <1>3, <1>4, <1>16

-----------------------------------------------------------------------------
(* What is written. *)

\* A source whose text makes closures that the first n of ds define.
Made(s, ds, n) ==
  s \in Sources /\ DefinesMade(ds, n, s.lines) /\ DefinesMade(ds, n, s.stream)

\* Texts are put together.
LEMMA JoinedTexts ==
  ASSUME NEW ds, NEW n,
         NEW s \in Seq(Pieces), DefinesMade(ds, n, s),
         NEW t \in Seq(Pieces), DefinesMade(ds, n, t)
  PROVE  s \o t \in Seq(Pieces) /\ DefinesMade(ds, n, s \o t)
<1>1. s \o t \in Seq(Pieces)
  OBVIOUS
<1>2. ASSUME NEW i \in 1 .. Len(s \o t), (s \o t)[i].is = "make"
      PROVE  Defines(ds, n, (s \o t)[i].of)
  <2>1. CASE i \in 1 .. Len(s)
    BY <1>2, <2>1 DEF DefinesMade
  <2>2. CASE i \notin 1 .. Len(s)
    <3>1. i - Len(s) \in 1 .. Len(t) /\ (s \o t)[i] = t[i - Len(s)]
      BY <2>2
    <3>. QED
      BY <1>2, <3>1 DEF DefinesMade
  <2>. QED
    BY <2>1, <2>2
<1>. QED
  BY <1>1, <1>2 DEF DefinesMade

\* Scripts make no closures.
LEMMA MarksMakeNothing ==
  ASSUME NEW ds, NEW n, NEW text \in Seq(Marks)
  PROVE  text \in Seq(Pieces) /\ DefinesMade(ds, n, text)
<1>1. ASSUME NEW i \in 1 .. Len(text)
      PROVE  text[i] \in Pieces /\ text[i].is # "make"
  <2>1. text[i] \in Marks
    OBVIOUS
  <2>. QED
    BY <2>1 DEF Marks, Pieces
<1>. QED
  BY <1>1 DEF DefinesMade

\* The operations of CSource.
LEMMA Operations ==
  ASSUME NEW ds, NEW n, NEW s, Made(s, ds, n),
         NEW text \in Seq(Pieces), DefinesMade(ds, n, text)
  PROVE  /\ Made(print(s, text), ds, n) /\ Made(printLine(s, text), ds, n)
         /\ Made(printPreviousLine(s, text), ds, n)
         /\ Made(increaseIndentation(s), ds, n) /\ Made(decreaseIndentation(s), ds, n)
         /\ Made(printLineAndIndent(s, text), ds, n)
         /\ Made(outdentAndPrintLine(s, text), ds, n)
<1>1. << >> \in Seq(Pieces) /\ DefinesMade(ds, n, << >>)
  BY DEF DefinesMade
<1>2. ASSUME NEW r, Made(r, ds, n)
      PROVE  /\ Made(print(r, text), ds, n) /\ Made(insertLine(r, text), ds, n)
             /\ Made(flushLineBuffer(r), ds, n)
             /\ Made(increaseIndentation(r), ds, n) /\ Made(decreaseIndentation(r), ds, n)
  <2>1. /\ r.lines \o text \in Seq(Pieces) /\ DefinesMade(ds, n, r.lines \o text)
        /\ r.stream \o text \in Seq(Pieces) /\ DefinesMade(ds, n, r.stream \o text)
        /\ r.lines \o r.stream \in Seq(Pieces)
        /\ DefinesMade(ds, n, r.lines \o r.stream)
    BY <1>2, JoinedTexts DEF Made, Sources
  <2>2. Made(print(r, text), ds, n)
    BY <1>2, <2>1 DEF Made, Sources, print
  <2>3. Made(insertLine(r, text), ds, n)
    BY <1>2, <2>1 DEF Made, Sources, insertLine
  <2>4. Made(flushLineBuffer(r), ds, n)
    BY <1>1, <1>2, <2>1 DEF Made, Sources, insertLine, flushLineBuffer
  <2>5. Made(increaseIndentation(r), ds, n) /\ Made(decreaseIndentation(r), ds, n)
    <3>1. r \in Sources /\ r.level + 1 \in Int /\ r.level - 1 \in Int
      BY <1>2 DEF Made, Sources
    <3>2. /\ increaseIndentation(r) \in Sources
          /\ increaseIndentation(r).lines = r.lines
          /\ increaseIndentation(r).stream = r.stream
      BY <3>1 DEF Sources, increaseIndentation
    <3>3. /\ decreaseIndentation(r) \in Sources
          /\ decreaseIndentation(r).lines = r.lines
          /\ decreaseIndentation(r).stream = r.stream
      BY <3>1 DEF Sources, decreaseIndentation
    <3>. QED
      BY <1>2, <3>2, <3>3 DEF Made
  <2>. QED
    BY <2>2, <2>3, <2>4, <2>5
<1>3. ASSUME NEW r, Made(r, ds, n)
      PROVE  Made(printLine(r, text), ds, n)
  BY <1>2, <1>3 DEF printLine
<1>. QED
  BY <1>2, <1>3 DEF printPreviousLine, printLineAndIndent, outdentAndPrintLine

\* A step that writes.
LEMMA StepsMakeNothing ==
  ASSUME NEW ds, NEW n, NEW s, Made(s, ds, n), NEW step \in Steps, step.do \in Writing
  PROVE  Made(Written(s, step), ds, n)
<1>1. step.text \in Seq(Pieces) /\ DefinesMade(ds, n, step.text)
  BY MarksMakeNothing DEF Steps
<1>. QED
  BY <1>1, Operations DEF Written, Writing

\* An expression makes a closure that is defined.
LEMMA ExpressionsMake ==
  ASSUME NEW ds, NEW n, NEW s, Made(s, ds, n), NEW expression \in Expressions,
         expression.closure # 0 => Defines(ds, n, expression.closure)
  PROVE  Made(WrittenExpression(s, expression), ds, n)
<1>. DEFINE capture == <<Piece("capture", expression.closure)>>
            make == <<Piece("make", expression.closure)>>
            call == <<Piece("call", expression.call)>>
<1>1. /\ capture \in Seq(Pieces) /\ make \in Seq(Pieces) /\ call \in Seq(Pieces)
  BY DEF Piece, Pieces, Expressions
<1>2. DefinesMade(ds, n, capture) /\ DefinesMade(ds, n, call)
  BY DEF DefinesMade, Piece
<1>3. expression.closure # 0 => DefinesMade(ds, n, make)
  BY DEF DefinesMade, Piece
<1>. HIDE DEF capture, make, call
<1>4. CASE expression.closure # 0
  <2>1. Made(printPreviousLine(s, capture), ds, n)
    BY <1>1, <1>2, Operations
  <2>2. Made(print(printPreviousLine(s, capture), make), ds, n)
    BY <1>1, <1>3, <1>4, <2>1, Operations
  <2>3. WrittenExpression(s, expression) = print(printPreviousLine(s, capture), make)
    BY <1>4 DEF WrittenExpression, capture, make
  <2>. QED
    BY <2>2, <2>3
<1>5. CASE expression.closure = 0 /\ expression.call # 0
  <2>1. Made(print(s, call), ds, n)
    BY <1>1, <1>2, Operations
  <2>. QED
    BY <1>5, <2>1 DEF WrittenExpression, call
<1>6. CASE expression.closure = 0 /\ expression.call = 0
  BY <1>6 DEF WrittenExpression
<1>. QED
  BY <1>4, <1>5, <1>6

-----------------------------------------------------------------------------
(* Declarations that are added. *)

\* What is defined and announced stays so.
LEMMA LongerDefines ==
  ASSUME NEW S, NEW ds \in Seq(S), NEW more \in Seq(S),
         NEW n \in 0 .. Len(ds), NEW m \in n .. Len(ds) + Len(more)
  PROVE  /\ \A c : Defines(ds, n, c) => Defines(ds \o more, m, c)
         /\ \A k : Announces(ds, n, k) => Announces(ds \o more, m, k)
         /\ \A k : Announces(ds \o more, n, k) => Announces(ds, n, k)
         /\ \A text : DefinesMade(ds, n, text) => DefinesMade(ds \o more, m, text)
<1>1. \A j \in 1 .. n : j \in 1 .. m /\ (ds \o more)[j] = ds[j]
  BY Joined
<1>2. \A c : Defines(ds, n, c) => Defines(ds \o more, m, c)
  BY <1>1 DEF Defines
<1>3. \A k : Announces(ds, n, k) => Announces(ds \o more, m, k)
  BY <1>1 DEF Announces
<1>4. \A k : Announces(ds \o more, n, k) => Announces(ds, n, k)
  BY <1>1 DEF Announces
<1>5. \A text : DefinesMade(ds, n, text) => DefinesMade(ds \o more, m, text)
  BY <1>2 DEF DefinesMade
<1>. QED
  BY <1>2, <1>3, <1>4, <1>5

\* Closures of the current function are added to the declarations.
LEMMA Growth ==
  ASSUME IInv, NEW ds \in Seq(Declarations), declarations' = declarations \o ds,
         private' = private, Len(closures') \in Nat, Len(closures) <= Len(closures'),
         \A i \in 1 .. Len(closures) : closures'[i] = closures[i],
         \A i \in 1 .. Len(ds) : Current(ds[i])
  PROVE  /\ declarations' \in Seq(Declarations)
         /\ PrototypesFollow' /\ FunctionsFollow'
         /\ \A i \in 1 .. Len(declarations') :
              DefinesMade(declarations', i - 1, declarations'[i].text)
         /\ \A c : Defines(declarations, Len(declarations), c) =>
                   Defines(declarations', Len(declarations'), c)
         /\ \A s : Made(s, declarations, Len(declarations)) =>
                   Made(s, declarations', Len(declarations'))
         /\ \A d : Current(d) => Current(d)'
         /\ \A v \in Visits : Knows(v) => Knows(v)'
<1>. DEFINE n == Len(declarations)
<1>1. declarations \in Seq(Declarations) /\ closures \in Seq(Places)
      /\ private \in Seq(BOOLEAN)
  BY DEF IInv, Typed
<1>2. /\ declarations' \in Seq(Declarations) /\ Len(declarations') = n + Len(ds)
      /\ \A i \in 1 .. n : declarations'[i] = declarations[i]
      /\ \A i \in n + 1 .. n + Len(ds) :
           i - n \in 1 .. Len(ds) /\ declarations'[i] = ds[i - n]
  BY <1>1, Joined
<1>3. ASSUME NEW k \in 0 .. n, NEW m \in k .. n + Len(ds)
      PROVE  /\ \A c : Defines(declarations, k, c) => Defines(declarations', m, c)
             /\ \A j : Announces(declarations, k, j) => Announces(declarations', m, j)
             /\ \A j : Announces(declarations', k, j) => Announces(declarations, k, j)
             /\ \A text : DefinesMade(declarations, k, text) =>
                          DefinesMade(declarations', m, text)
  BY <1>1, LongerDefines
<1>4. n \in 0 .. n /\ n + Len(ds) \in n .. n + Len(ds)
  BY <1>1
<1>5. \A c : Defines(declarations, n, c) => Defines(declarations', n + Len(ds), c)
  BY <1>3, <1>4
<1>6. \A text : DefinesMade(declarations, n, text) =>
                 DefinesMade(declarations', n + Len(ds), text)
  BY <1>3, <1>4
<1>7. \A s : Made(s, declarations, n) => Made(s, declarations', n + Len(ds))
  BY <1>6 DEF Made
<1>8. ASSUME NEW d, Current(d)
      PROVE  Current(d)'
  BY <1>1, <1>2, <1>6, <1>8 DEF Current
<1>9. PrototypesFollow'
  <2>1. ASSUME NEW k \in 1 .. Len(private), private[k]
        PROVE  Announces(declarations', n + Len(ds), k)
    BY <1>3, <1>4, <2>1 DEF IInv, PrototypesFollow
  <2>2. ASSUME NEW j \in 1 .. n + Len(ds), declarations'[j].is = "prototype"
        PROVE  declarations'[j].of \in 1 .. Len(private) /\ declarations'[j].text = << >>
    <3>1. CASE j \in 1 .. n
      BY <1>2, <2>2, <3>1 DEF IInv, PrototypesFollow
    <3>2. CASE j \in n + 1 .. n + Len(ds)
      BY <1>2, <2>2, <3>2 DEF Current
    <3>. QED
      BY <1>1, <3>1, <3>2
  <2>. QED
    BY <1>2, <2>1, <2>2 DEF PrototypesFollow
<1>10. FunctionsFollow'
  <2>1. ASSUME NEW i \in 1 .. n + Len(ds), declarations'[i].is = "closure"
        PROVE  /\ declarations'[i].of \in 1 .. Len(closures')
               /\ closures'[declarations'[i].of].function <= Len(private)
               /\ \A k \in 1 .. Len(private) : private[k] =>
                    (Announces(declarations', i - 1, k)
                       <=> k <= closures'[declarations'[i].of].function)
    <3>1. CASE i \in 1 .. n
      <4>. DEFINE c == declarations[i].of
      <4>1. /\ c \in 1 .. Len(closures) /\ closures[c].function <= Len(private)
            /\ \A k \in 1 .. Len(private) : private[k] =>
                 (Announces(declarations, i - 1, k) <=> k <= closures[c].function)
        BY <1>2, <2>1, <3>1 DEF IInv, FunctionsFollow
      <4>2. c \in 1 .. Len(closures') /\ closures'[c] = closures[c]
        BY <1>1, <4>1
      <4>3. i - 1 \in 0 .. n /\ i - 1 \in i - 1 .. n + Len(ds)
        BY <1>1, <3>1
      <4>4. \A k : Announces(declarations', i - 1, k) <=> Announces(declarations, i - 1, k)
        BY <1>3, <4>3
      <4>5. declarations'[i] = declarations[i] /\ declarations'[i].of = c
        BY <1>2, <3>1
      <4>. HIDE DEF n, c
      <4>6. closures'[c].function <= Len(private)
        BY <4>1, <4>2
      <4>7. \A k \in 1 .. Len(private) : private[k] =>
              (Announces(declarations', i - 1, k) <=> k <= closures'[c].function)
        BY <4>1, <4>2, <4>4
      <4>. QED
        BY <4>2, <4>5, <4>6, <4>7
    <3>2. CASE i \in n + 1 .. n + Len(ds)
      <4>. DEFINE d == ds[i - n]
      <4>1. declarations'[i] = d /\ Current(d)
        BY <1>2, <3>2
      <4>2. d.of \in 1 .. Len(closures) /\ closures[d.of].function = Len(private)
        BY <4>1 DEF Current
      <4>3. d.of \in 1 .. Len(closures') /\ closures'[d.of] = closures[d.of]
        BY <1>1, <4>2, SMTT(30)
      <4>4. i - 1 \in n .. n + Len(ds)
        BY <1>1, <3>2
      <4>5. \A k \in 1 .. Len(private) : private[k] => Announces(declarations', i - 1, k)
        BY <1>3, <1>4, <4>4 DEF IInv, PrototypesFollow
      <4>. HIDE DEF d, n
      <4>6. closures'[d.of].function = Len(private)
        BY <4>2, <4>3
      <4>7. \A k \in 1 .. Len(private) : k <= Len(private)
        BY <1>1
      <4>8. \A k \in 1 .. Len(private) : private[k] =>
              (Announces(declarations', i - 1, k) <=> k <= closures'[d.of].function)
        BY <4>5, <4>6, <4>7
      <4>9. closures'[d.of].function <= Len(private)
        BY <1>1, <4>6
      <4>. QED
        BY <4>1, <4>3, <4>8, <4>9
    <3>. QED
      BY <1>1, <3>1, <3>2, SMTT(30)
  <2>. QED
    BY <1>2, <2>1 DEF FunctionsFollow
<1>11. ASSUME NEW i \in 1 .. n + Len(ds)
       PROVE  DefinesMade(declarations', i - 1, declarations'[i].text)
  <2>1. CASE i \in 1 .. n
    <3>1. i - 1 \in 0 .. n /\ i - 1 \in i - 1 .. n + Len(ds)
      BY <1>1, <2>1
    <3>2. DefinesMade(declarations, i - 1, declarations[i].text)
      BY <2>1 DEF IInv, MakesFollow
    <3>3. DefinesMade(declarations', i - 1, declarations[i].text)
      BY <1>3, <3>1, <3>2
    <3>. QED
      BY <1>2, <2>1, <3>3
  <2>2. CASE i \in n + 1 .. n + Len(ds)
    <3>1. declarations'[i] = ds[i - n] /\ Current(ds[i - n])
      BY <1>2, <2>2
    <3>2. DefinesMade(declarations, n, ds[i - n].text)
      BY <3>1 DEF Current
    <3>3. i - 1 \in n .. n + Len(ds)
      BY <1>1, <2>2
    <3>4. DefinesMade(declarations', i - 1, ds[i - n].text)
      BY <1>3, <1>4, <3>2, <3>3
    <3>. QED
      BY <3>1, <3>4
  <2>. QED
    BY <1>1, <2>1, <2>2
<1>12. ASSUME NEW v \in Visits, Knows(v)
       PROVE  Knows(v)'
  <2>1. ASSUME v.closure # 0
        PROVE  /\ v.closure \in 1 .. Len(closures')
               /\ closures'[v.closure].function = Len(private)
               /\ \A i \in 1 .. n + Len(ds) :
                    i > v.declared => Current(declarations[i])'
    <3>1. /\ v.closure \in 1 .. Len(closures) /\ closures[v.closure].function = Len(private)
          /\ \A i \in 1 .. n : i > v.declared => Current(declarations[i])
      BY <1>12, <2>1 DEF Knows
    <3>2. ASSUME NEW i \in 1 .. n + Len(ds), i > v.declared
          PROVE  Current(declarations[i])'
      <4>1. CASE i \in 1 .. n
        <5>1. declarations'[i] = declarations[i] /\ Current(declarations[i])
          BY <1>2, <3>1, <3>2, <4>1
        <5>. QED
          BY <1>2, <1>6, <5>1, SMTT(30) DEF Current
      <4>2. CASE i \in n + 1 .. n + Len(ds)
        <5>1. declarations'[i] = ds[i - n] /\ Current(ds[i - n])
          BY <1>2, <4>2
        <5>. QED
          BY <1>2, <1>6, <5>1, SMTT(30) DEF Current
      <4>. QED
        BY <1>1, <4>1, <4>2
    <3>. QED
      BY <1>1, <3>1, <3>2, SMTT(30)
  <2>2. ASSUME NEW part \in DOMAIN v.found
        PROVE  /\ v.found[part].closure # 0 =>
                    Defines(declarations', n + Len(ds), v.found[part].closure)
               /\ \A i \in 1 .. Len(v.found[part].added) : Current(v.found[part].added[i])'
    <3>1. /\ v.found[part].closure # 0 => Defines(declarations, n, v.found[part].closure)
          /\ \A i \in 1 .. Len(v.found[part].added) : Current(v.found[part].added[i])
      BY <1>12 DEF Knows
    <3>. QED
      BY <1>5, <1>8, <3>1
  <2>. QED
    BY <1>2, <2>1, <2>2 DEF Knows
<1>. QED
  BY <1>2, <1>5, <1>7, <1>8, <1>9, <1>10, <1>11, <1>12

\* Nothing is added.
LEMMA NoGrowth ==
  ASSUME IInv, declarations' = declarations, private' = private,
         Len(closures') \in Nat, Len(closures) <= Len(closures'),
         \A i \in 1 .. Len(closures) : closures'[i] = closures[i]
  PROVE  /\ declarations' \in Seq(Declarations)
         /\ PrototypesFollow' /\ FunctionsFollow'
         /\ \A i \in 1 .. Len(declarations') :
              DefinesMade(declarations', i - 1, declarations'[i].text)
         /\ \A s : Made(s, declarations, Len(declarations)) =>
                   Made(s, declarations', Len(declarations'))
         /\ \A v \in Visits : Knows(v) => Knows(v)'
<1>. DEFINE ds == << >>
<1>1. ds \in Seq(Declarations) /\ \A i \in 1 .. Len(ds) : Current(ds[i])
  OBVIOUS
<1>2. declarations' = declarations \o ds
  BY DEF IInv, Typed
<1>. HIDE DEF ds
<1>. QED
  BY <1>1, <1>2, Growth

-----------------------------------------------------------------------------
(* Visits that are counted. *)

\* There are finitely many of them.
LEMMA Counted ==
  ASSUME NEW vs, NEW n \in Nat
  PROVE  /\ IsFiniteSet(ClosureVisits(vs, n))
         /\ Cardinality(ClosureVisits(vs, n)) \in Nat
<1>1. IsFiniteSet(1 .. n)
  BY FS_Interval
<1>2. ClosureVisits(vs, n) \subseteq 1 .. n
  BY DEF ClosureVisits
<1>3. IsFiniteSet(ClosureVisits(vs, n))
  BY <1>1, <1>2, FS_Subset
<1>. QED
  BY <1>3, FS_CardinalityType

\* A visit is counted if it is to a closure.
LEMMA CountedNext ==
  ASSUME NEW vs, NEW ws, NEW n \in Nat, \A i \in 1 .. n : vs[i].closure = ws[i].closure
  PROVE  Cardinality(ClosureVisits(ws, n + 1))
           = Cardinality(ClosureVisits(vs, n)) + (IF ws[n + 1].closure # 0 THEN 1 ELSE 0)
<1>1. n + 1 \notin ClosureVisits(vs, n)
  BY DEF ClosureVisits
<1>2. ws[n + 1].closure # 0 => ClosureVisits(ws, n + 1) = ClosureVisits(vs, n) \cup {n + 1}
  BY DEF ClosureVisits
<1>3. ws[n + 1].closure = 0 => ClosureVisits(ws, n + 1) = ClosureVisits(vs, n)
  BY DEF ClosureVisits
<1>4. Cardinality(ClosureVisits(vs, n) \cup {n + 1}) = Cardinality(ClosureVisits(vs, n)) + 1
  BY <1>1, Counted, FS_AddElement
<1>5. Cardinality(ClosureVisits(vs, n)) \in Nat
  BY Counted
<1>. QED
  BY <1>2, <1>3, <1>4, <1>5

\* The innermost visit goes on, and the sources stay.
LEMMA TopGoesOn ==
  ASSUME IInv, Len(visits) >= 1, NEW w \in Visits, w.closure = Top(visits).closure,
         visits' = [visits EXCEPT ![Len(visits)] = w], Len(sources') = Len(sources)
  PROVE  /\ visits' \in Seq(Visits) /\ Len(visits') = Len(visits)
         /\ \A i \in 1 .. Len(visits) :
              visits'[i] = IF i = Len(visits) THEN w ELSE visits[i]
         /\ SourcesFollow' /\ CallersWait'
<1>. DEFINE n == Len(visits) - 1
<1>1. visits \in Seq(Visits) /\ n \in Nat /\ n + 1 = Len(visits)
      /\ Len(visits) \in 1 .. Len(visits)
  BY DEF IInv, Typed
<1>2. /\ visits' \in Seq(Visits) /\ Len(visits') = Len(visits)
      /\ \A i \in 1 .. Len(visits) : visits'[i] = IF i = Len(visits) THEN w ELSE visits[i]
  BY <1>1, Replaced, SMTT(30)
<1>3. \A i \in 1 .. Len(visits) : visits'[i].closure = visits[i].closure
  BY <1>2 DEF Top
<1>4. SourcesFollow'
  <2>1. ClosureVisits(visits', Len(visits)) = ClosureVisits(visits, Len(visits))
    BY <1>3 DEF ClosureVisits
  <2>. QED
    BY <1>2, <2>1 DEF IInv, SourcesFollow
<1>5. CallersWait'
  <2>1. ASSUME NEW i \in 1 .. Len(visits), visits'[i].closure # 0
        PROVE  i > 1 /\ visits'[i - 1].script # << >>
    <3>1. i > 1 /\ visits[i - 1].script # << >>
      BY <1>3, <2>1, SMTT(30) DEF IInv, CallersWait
    <3>2. i - 1 \in 1 .. Len(visits) /\ i - 1 # Len(visits)
      BY <1>1, <3>1, SMTT(30)
    <3>. QED
      BY <1>2, <3>1, <3>2
  <2>. QED
    BY <1>2, <2>1 DEF CallersWait
<1>. QED
  BY <1>2, <1>4, <1>5

\* What stays when the text of the source on top, or no source, is changed.
LEMMA SourcesGoOn ==
  ASSUME IInv, NEW s, Made(s, declarations', Len(declarations')),
         \A r : Made(r, declarations, Len(declarations)) =>
                Made(r, declarations', Len(declarations')),
         Len(sources) >= 1, sources' = [sources EXCEPT ![Len(sources)] = s]
  PROVE  /\ sources' \in Seq(Sources) /\ Len(sources') = Len(sources)
         /\ \A i \in 1 .. Len(sources') :
              Made(sources'[i], declarations', Len(declarations'))
<1>1. sources \in Seq(Sources) /\ s \in Sources /\ Len(sources) \in 1 .. Len(sources)
  BY DEF IInv, Typed, Made
<1>2. /\ sources' \in Seq(Sources) /\ Len(sources') = Len(sources)
      /\ \A i \in 1 .. Len(sources) : sources'[i] = IF i = Len(sources) THEN s ELSE sources[i]
  BY <1>1, Replaced
<1>3. \A i \in 1 .. Len(sources) : Made(sources[i], declarations, Len(declarations))
  BY <1>1 DEF IInv, MakesFollow, Made
<1>. QED
  BY <1>2, <1>3

-----------------------------------------------------------------------------
(* The innermost visit. *)

\* It is a visit like the others, and its step is a step.
LEMMA InnermostVisit ==
  ASSUME IInv, visits # << >>
  PROVE  /\ Len(visits) >= 1 /\ Top(visits) \in Visits /\ Knows(Top(visits))
         /\ Len(visits) \in 1 .. Len(visits) /\ visits[Len(visits)] = Top(visits)
         /\ Top(visits).script # << >> => /\ NextStep \in Steps
                                         /\ Tail(Top(visits).script) \in Seq(Steps)
<1>1. visits \in Seq(Visits)
  BY DEF IInv, Typed
<1>2. /\ Len(visits) >= 1 /\ Top(visits) \in Visits
      /\ Len(visits) \in 1 .. Len(visits) /\ visits[Len(visits)] = Top(visits)
  BY <1>1 DEF Top
<1>3. Knows(Top(visits))
  BY <1>2 DEF IInv
<1>4. Top(visits).script \in Seq(Steps)
  BY <1>2 DEF Visits
<1>. HIDE <1>2
<1>5. Top(visits).script # << >> => /\ Head(Top(visits).script) \in Steps
                                  /\ Tail(Top(visits).script) \in Seq(Steps)
  BY <1>4
<1>. QED
  BY <1>2, <1>3, <1>5 DEF NextStep

\* What a visit has found.
LEMMA FindingMore ==
  ASSUME NEW found \in Findings, NEW part \in Parts, NEW expression \in Expressions
  PROVE  [p \in DOMAIN found \cup {part} |-> IF p = part THEN expression ELSE found[p]]
           \in Findings
<1>1. PICK P \in SUBSET Parts : found \in [P -> Expressions]
  BY DEF Findings
<1>2. [p \in DOMAIN found \cup {part} |-> IF p = part THEN expression ELSE found[p]]
        \in [P \cup {part} -> Expressions]
  BY <1>1
<1>3. P \cup {part} \in SUBSET Parts
  BY <1>1
<1>. QED
  BY <1>2, <1>3 DEF Findings

\* It has found expressions.
LEMMA FoundExpression ==
  ASSUME NEW found \in Findings, NEW part \in DOMAIN found
  PROVE  found[part] \in Expressions
BY DEF Findings

\* At first, nothing.
LEMMA NothingFound == << >> \in Findings
<1>1. << >> \in [{} -> Expressions]
  OBVIOUS
<1>. QED
  BY <1>1 DEF Findings

\* A source is under construction.
LEMMA SourceOnTop ==
  ASSUME IInv
  PROVE  /\ Len(sources) >= 1 /\ Len(sources) \in 1 .. Len(sources)
         /\ Made(sources[Len(sources)], declarations, Len(declarations))
         /\ \A i \in 1 .. Len(sources) : Made(sources[i], declarations, Len(declarations))
<1>1. sources \in Seq(Sources) /\ visits \in Seq(Visits)
  BY DEF IInv, Typed
<1>2. Len(visits) \in Nat /\ Len(sources) \in Nat
  BY <1>1
<1>3. Cardinality(ClosureVisits(visits, Len(visits))) \in Nat
  BY <1>2, Counted
<1>4. Len(sources) >= 1
  BY <1>2, <1>3 DEF IInv, SourcesFollow
<1>5. \A i \in 1 .. Len(sources) : Made(sources[i], declarations, Len(declarations))
  BY <1>1 DEF IInv, MakesFollow, Made
<1>. QED
  BY <1>2, <1>4, <1>5

\* A visit goes on, having found more.
LEMMA KnowsMore ==
  ASSUME NEW v, NEW w, Knows(v), w.closure = v.closure, w.declared = v.declared,
         \A part \in DOMAIN w.found :
           \/ part \in DOMAIN v.found /\ w.found[part] = v.found[part]
           \/ /\ w.found[part].closure # 0 =>
                   Defines(declarations, Len(declarations), w.found[part].closure)
              /\ \A i \in 1 .. Len(w.found[part].added) : Current(w.found[part].added[i])
  PROVE  Knows(w)
BY SMTT(30) DEF Knows

\* The innermost visit goes on, and what it writes makes only what is defined.
LEMMA VisitGoesOn ==
  ASSUME IInv, visits # << >>,
         declarations' \in Seq(Declarations), PrototypesFollow', FunctionsFollow',
         \A i \in 1 .. Len(declarations') :
           DefinesMade(declarations', i - 1, declarations'[i].text),
         \A v \in Visits : Knows(v) => Knows(v)',
         private' = private, closures' = closures,
         sources' \in Seq(Sources), Len(sources') = Len(sources),
         \A i \in 1 .. Len(sources') : Made(sources'[i], declarations', Len(declarations')),
         NEW w \in Visits, w.closure = Top(visits).closure, Knows(w)',
         visits' = [visits EXCEPT ![Len(visits)] = w]
  PROVE  IInv'
<1>1. /\ visits' \in Seq(Visits) /\ Len(visits') = Len(visits)
      /\ \A i \in 1 .. Len(visits) :
           visits'[i] = IF i = Len(visits) THEN w ELSE visits[i]
      /\ SourcesFollow' /\ CallersWait'
  BY InnermostVisit, TopGoesOn
<1>2. Typed'
  BY <1>1 DEF IInv, Typed
<1>3. MakesFollow'
  BY DEF MakesFollow, Made
<1>4. ASSUME NEW i \in 1 .. Len(visits')
      PROVE  Knows(visits[i])'
  <2>1. CASE i = Len(visits)
    BY <1>1, <2>1 DEF Knows
  <2>2. CASE i # Len(visits)
    <3>1. visits \in Seq(Visits) /\ i \in 1 .. Len(visits)
      BY <1>1 DEF IInv, Typed
    <3>2. visits[i] \in Visits
      BY <3>1
    <3>3. visits'[i] = visits[i]
      BY <1>1, <2>2, <3>1, ZenonT(60)
    <3>4. Knows(visits[i])
      BY <3>1 DEF IInv
    <3>. QED
      BY <3>2, <3>3, <3>4, ZenonT(60) DEF Knows
  <2>. QED
    BY <2>1, <2>2
<1>. QED
  BY <1>1, <1>2, <1>3, <1>4, ZenonT(60) DEF IInv

-----------------------------------------------------------------------------
(* The steps. *)

\* The innermost visit has taken its step.
LEMMA AdvancedVisit ==
  ASSUME IInv, visits # << >>, Top(visits).script # << >>
  PROVE  \E w \in Visits :
           /\ w.closure = Top(visits).closure /\ w.declared = Top(visits).declared
           /\ w.found = Top(visits).found
           /\ Advanced = [visits EXCEPT ![Len(visits)] = w]
<1>. DEFINE v == Top(visits)
            w == [v EXCEPT !.script = Tail(@)]
<1>1. v \in Visits /\ Tail(v.script) \in Seq(Steps) /\ v = visits[Len(visits)]
  BY InnermostVisit
<1>2. Advanced = [visits EXCEPT ![Len(visits)] = w]
  BY <1>1 DEF Advanced
<1>. HIDE DEF v
<1>3. /\ w \in Visits /\ w.closure = v.closure /\ w.declared = v.declared
      /\ w.found = v.found
  BY <1>1 DEF Visits
<1>. QED
  BY <1>2, <1>3 DEF v

\* ... and knows what it has known.
LEMMA VisitAdvances ==
  ASSUME IInv, visits # << >>, Top(visits).script # << >>,
         declarations' \in Seq(Declarations), PrototypesFollow', FunctionsFollow',
         \A i \in 1 .. Len(declarations') :
           DefinesMade(declarations', i - 1, declarations'[i].text),
         \A v \in Visits : Knows(v) => Knows(v)',
         private' = private, closures' = closures,
         sources' \in Seq(Sources), Len(sources') = Len(sources),
         \A i \in 1 .. Len(sources') : Made(sources'[i], declarations', Len(declarations')),
         visits' = Advanced
  PROVE  IInv'
<1>1. PICK w \in Visits :
        /\ w.closure = Top(visits).closure /\ w.declared = Top(visits).declared
        /\ w.found = Top(visits).found
        /\ Advanced = [visits EXCEPT ![Len(visits)] = w]
  BY AdvancedVisit
<1>2. Knows(w)
  BY <1>1, InnermostVisit, KnowsMore
<1>3. Knows(w)'
  BY <1>2, SMTT(30)
<1>. QED
  BY <1>1, <1>3, VisitGoesOn

\* A step that only writes keeps the invariant.
LEMMA WriteKeeps ==
  ASSUME IInv, Write
  PROVE  IInv'
<1>1. /\ visits # << >> /\ Top(visits).script # << >> /\ NextStep.do \in Writing
      /\ sources' = [sources EXCEPT ![Len(sources)] = Written(@, NextStep)]
      /\ visits' = Advanced
      /\ declarations' = declarations /\ private' = private /\ closures' = closures
  BY DEF Write, Visiting
<1>2. /\ declarations' \in Seq(Declarations) /\ PrototypesFollow' /\ FunctionsFollow'
      /\ \A i \in 1 .. Len(declarations') :
           DefinesMade(declarations', i - 1, declarations'[i].text)
      /\ \A r : Made(r, declarations, Len(declarations)) =>
                Made(r, declarations', Len(declarations'))
      /\ \A v \in Visits : Knows(v) => Knows(v)'
  <2>1. Len(closures') \in Nat /\ Len(closures) <= Len(closures')
    BY <1>1 DEF IInv, Typed
  <2>. QED
    BY <1>1, <2>1, NoGrowth
<1>. DEFINE s == Written(sources[Len(sources)], NextStep)
<1>3. Made(s, declarations', Len(declarations'))
  BY <1>1, <1>2, InnermostVisit, SourceOnTop, StepsMakeNothing
<1>4. sources' = [sources EXCEPT ![Len(sources)] = s]
  BY <1>1
<1>. HIDE DEF s
<1>5. /\ sources' \in Seq(Sources) /\ Len(sources') = Len(sources)
      /\ \A i \in 1 .. Len(sources') : Made(sources'[i], declarations', Len(declarations'))
  BY <1>2, <1>3, <1>4, SourceOnTop, SourcesGoOn
<1>. QED
  BY <1>1, <1>2, <1>5, VisitAdvances, ZenonT(60)

\* So does the end of children,
LEMMA EndChildrenKeeps ==
  ASSUME IInv, EndChildren
  PROVE  IInv'
<1>1. /\ visits # << >> /\ Top(visits).script # << >>
      /\ visits' = Advanced /\ sources' = sources
      /\ declarations' = declarations /\ private' = private /\ closures' = closures
  BY DEF EndChildren, Visiting
<1>2. /\ declarations' \in Seq(Declarations) /\ PrototypesFollow' /\ FunctionsFollow'
      /\ \A i \in 1 .. Len(declarations') :
           DefinesMade(declarations', i - 1, declarations'[i].text)
      /\ \A r : Made(r, declarations, Len(declarations)) =>
                Made(r, declarations', Len(declarations'))
      /\ \A v \in Visits : Knows(v) => Knows(v)'
  <2>1. Len(closures') \in Nat /\ Len(closures) <= Len(closures')
    BY <1>1 DEF IInv, Typed
  <2>. QED
    BY <1>1, <2>1, NoGrowth
<1>3. /\ sources' \in Seq(Sources) /\ Len(sources') = Len(sources)
      /\ \A i \in 1 .. Len(sources') : Made(sources'[i], declarations', Len(declarations'))
  BY <1>1, SourceOnTop, SMTT(30) DEF IInv, Typed
<1>. QED
  BY <1>1, <1>2, <1>3, VisitAdvances

\* an expression visited once more, whose closures are of the current function,
LEMMA ExpressionAgainKeeps ==
  ASSUME IInv, ExpressionAgain
  PROVE  IInv'
<1>. DEFINE e == Top(visits).found[NextStep.part]
            s == WrittenExpression(sources[Len(sources)], e)
<1>1. /\ visits # << >> /\ Top(visits).script # << >>
      /\ NextStep.part \in DOMAIN Top(visits).found
      /\ sources' = [sources EXCEPT ![Len(sources)] = s]
      /\ declarations' = declarations \o e.added
      /\ visits' = Advanced /\ private' = private /\ closures' = closures
  BY DEF ExpressionAgain, Visiting
<1>2. Top(visits) \in Visits /\ Knows(Top(visits))
  BY <1>1, InnermostVisit
<1>3. e \in Expressions /\ e.added \in Seq(Declarations)
  <2>1. Top(visits).found \in Findings
    BY <1>2 DEF Visits
  <2>2. e \in Expressions
    BY <1>1, <2>1, FoundExpression
  <2>. HIDE DEF e
  <2>. QED
    BY <2>2 DEF Expressions
<1>4. /\ e.closure # 0 => Defines(declarations, Len(declarations), e.closure)
      /\ \A i \in 1 .. Len(e.added) : Current(e.added[i])
  BY <1>1, <1>2 DEF Knows
<1>. HIDE DEF e
<1>5. /\ declarations' \in Seq(Declarations) /\ PrototypesFollow' /\ FunctionsFollow'
      /\ \A i \in 1 .. Len(declarations') :
           DefinesMade(declarations', i - 1, declarations'[i].text)
      /\ \A c : Defines(declarations, Len(declarations), c) =>
                Defines(declarations', Len(declarations'), c)
      /\ \A r : Made(r, declarations, Len(declarations)) =>
                Made(r, declarations', Len(declarations'))
      /\ \A v \in Visits : Knows(v) => Knows(v)'
  <2>1. Len(closures') \in Nat /\ Len(closures) <= Len(closures')
    BY <1>1 DEF IInv, Typed
  <2>. QED
    BY <1>1, <1>3, <1>4, <2>1, Growth
<1>6. Made(s, declarations', Len(declarations'))
  BY <1>3, <1>4, <1>5, SourceOnTop, ExpressionsMake
<1>. HIDE DEF s
<1>7. /\ sources' \in Seq(Sources) /\ Len(sources') = Len(sources)
      /\ \A i \in 1 .. Len(sources') : Made(sources'[i], declarations', Len(declarations'))
  BY <1>1, <1>5, <1>6, SourceOnTop, SourcesGoOn
<1>. QED
  BY <1>1, <1>5, <1>7, VisitAdvances, ZenonT(60)

\* An expression is noted.
LEMMA NotedVisit ==
  ASSUME NEW vs \in Seq(Visits), Len(vs) >= 1, Top(vs).script # << >>, NEW e \in Expressions
  PROVE  \E w \in Visits :
           /\ w.closure = Top(vs).closure /\ w.declared = Top(vs).declared
           /\ Noted(vs, e) = [vs EXCEPT ![Len(vs)] = w]
           /\ \A part \in DOMAIN w.found :
                \/ part \in DOMAIN Top(vs).found /\ w.found[part] = Top(vs).found[part]
                \/ w.found[part] = e
<1>. DEFINE v == Top(vs)
            part == Head(v.script).part
            more == [p \in DOMAIN v.found \cup {part} |-> IF p = part THEN e ELSE v.found[p]]
            w == [v EXCEPT !.script = Tail(v.script), !.found = more]
<1>1. v \in Visits /\ v = vs[Len(vs)]
  BY DEF Top
<1>2. Noted(vs, e) = [vs EXCEPT ![Len(vs)] = w]
  BY <1>1 DEF Noted
<1>3. v.script # << >>
  OBVIOUS
<1>. HIDE DEF v
<1>4. v.script \in Seq(Steps) /\ v.found \in Findings
  BY <1>1 DEF Visits
<1>5. Tail(v.script) \in Seq(Steps) /\ Head(v.script) \in Steps
  BY <1>3, <1>4
<1>6. part \in Parts
  BY <1>5 DEF Steps
<1>. HIDE DEF part
<1>7. more \in Findings
  BY <1>4, <1>6, FindingMore
<1>8. \A p \in DOMAIN more : (p \in DOMAIN v.found /\ more[p] = v.found[p]) \/ more[p] = e
  OBVIOUS
<1>. HIDE DEF more
<1>9. /\ w \in Visits /\ w.closure = v.closure /\ w.declared = v.declared
      /\ w.found = more
  BY <1>1, <1>5, <1>7, ZenonT(60) DEF Visits
<1>. QED
  BY <1>2, <1>8, <1>9 DEF v

\* an expression without a closure,
LEMMA PlainExpressionKeeps ==
  ASSUME IInv, NEW call \in 0 .. MaxFunctions, PlainExpression(call)
  PROVE  IInv'
<1>. DEFINE e == Found(0, call, << >>)
            s == WrittenExpression(sources[Len(sources)], e)
<1>1. /\ visits # << >> /\ Top(visits).script # << >>
      /\ sources' = [sources EXCEPT ![Len(sources)] = s]
      /\ visits' = Noted(visits, e)
      /\ declarations' = declarations /\ private' = private /\ closures' = closures
  BY DEF PlainExpression, Visiting
<1>2. e \in Expressions /\ e.closure = 0 /\ e.added = << >>
  BY BoundsAssumption DEF Found, Expressions
<1>. HIDE DEF e
<1>3. /\ declarations' \in Seq(Declarations) /\ PrototypesFollow' /\ FunctionsFollow'
      /\ \A i \in 1 .. Len(declarations') :
           DefinesMade(declarations', i - 1, declarations'[i].text)
      /\ \A r : Made(r, declarations, Len(declarations)) =>
                Made(r, declarations', Len(declarations'))
      /\ \A v \in Visits : Knows(v) => Knows(v)'
  <2>1. Len(closures') \in Nat /\ Len(closures) <= Len(closures')
    BY <1>1 DEF IInv, Typed
  <2>. QED
    BY <1>1, <2>1, NoGrowth
<1>4. Made(s, declarations', Len(declarations'))
  BY <1>2, <1>3, SourceOnTop, ExpressionsMake
<1>. HIDE DEF s
<1>5. /\ sources' \in Seq(Sources) /\ Len(sources') = Len(sources)
      /\ \A i \in 1 .. Len(sources') : Made(sources'[i], declarations', Len(declarations'))
  BY <1>1, <1>3, <1>4, SourceOnTop, SourcesGoOn
<1>6. visits \in Seq(Visits) /\ Len(visits) >= 1 /\ Knows(Top(visits))
  BY <1>1, InnermostVisit DEF IInv, Typed
<1>7. PICK w \in Visits :
        /\ w.closure = Top(visits).closure /\ w.declared = Top(visits).declared
        /\ Noted(visits, e) = [visits EXCEPT ![Len(visits)] = w]
        /\ \A part \in DOMAIN w.found :
             \/ part \in DOMAIN Top(visits).found /\ w.found[part] = Top(visits).found[part]
             \/ w.found[part] = e
  BY <1>1, <1>2, <1>6, NotedVisit, SMTT(30)
<1>8. Knows(w)
  <2>1. Len(e.added) = 0
    BY <1>2
  <2>. QED
    BY <1>2, <1>6, <1>7, <2>1, KnowsMore
<1>9. Knows(w)'
  BY <1>3, <1>8
<1>. QED
  BY <1>1, <1>3, <1>5, <1>7, <1>9, VisitGoesOn, ZenonT(60)

\* A visit begins.
LEMMA VisitBegins ==
  ASSUME IInv, NEW v \in Visits, visits' = Append(visits, v), Knows(v)',
         v.closure # 0 => visits # << >> /\ Top(visits).script # << >>,
         declarations' \in Seq(Declarations), PrototypesFollow', FunctionsFollow',
         \A i \in 1 .. Len(declarations') :
           DefinesMade(declarations', i - 1, declarations'[i].text),
         \A u \in Visits : Knows(u) => Knows(u)',
         private' = private, closures' \in Seq(Places),
         sources' \in Seq(Sources),
         Len(sources') = Len(sources) + (IF v.closure # 0 THEN 1 ELSE 0),
         \A i \in 1 .. Len(sources') : Made(sources'[i], declarations', Len(declarations'))
  PROVE  IInv'
<1>. DEFINE n == Len(visits)
<1>1. visits \in Seq(Visits) /\ n \in Nat /\ private \in Seq(BOOLEAN)
  BY DEF IInv, Typed
<1>2. /\ visits' \in Seq(Visits) /\ Len(visits') = n + 1
      /\ \A i \in 1 .. n : visits'[i] = visits[i]
      /\ visits'[n + 1] = v
  BY <1>1, Appended
<1>3. Typed'
  BY <1>1, <1>2 DEF Typed
<1>4. SourcesFollow'
  <2>. HIDE DEF n
  <2>1. Cardinality(ClosureVisits(visits', n + 1))
          = Cardinality(ClosureVisits(visits, n)) + (IF v.closure # 0 THEN 1 ELSE 0)
    <3>1. \A i \in 1 .. n : visits[i].closure = visits'[i].closure
      BY <1>2
    <3>2. Cardinality(ClosureVisits(visits', n + 1))
            = Cardinality(ClosureVisits(visits, n))
              + (IF visits'[n + 1].closure # 0 THEN 1 ELSE 0)
      BY <1>1, <3>1, CountedNext
    <3>. QED
      BY <1>2, <3>2
  <2>2. Cardinality(ClosureVisits(visits, n)) \in Nat
    BY <1>1, Counted
  <2>3. Len(sources) = 1 + Cardinality(ClosureVisits(visits, n))
    BY DEF IInv, SourcesFollow, n
  <2>. QED
    BY <1>2, <2>1, <2>2, <2>3 DEF SourcesFollow
<1>5. CallersWait'
  <2>1. ASSUME NEW i \in 1 .. n + 1, visits'[i].closure # 0
        PROVE  i > 1 /\ visits'[i - 1].script # << >>
    <3>1. CASE i = n + 1
      <4>1. n >= 1 /\ visits[n].script # << >>
        BY <1>1, <1>2, <2>1, <3>1 DEF Top
      <4>. QED
        BY <1>1, <1>2, <3>1, <4>1
    <3>2. CASE i # n + 1
      <4>1. i \in 1 .. n /\ visits[i].closure # 0
        BY <1>1, <1>2, <2>1, <3>2
      <4>2. i > 1 /\ visits[i - 1].script # << >>
        BY <4>1 DEF IInv, CallersWait
      <4>3. i - 1 \in 1 .. n
        BY <1>1, <4>1, <4>2
      <4>. QED
        BY <1>2, <4>2, <4>3
    <3>. QED
      BY <3>1, <3>2
  <2>. QED
    BY <1>2, <2>1 DEF CallersWait
<1>6. MakesFollow'
  BY DEF MakesFollow, Made
<1>7. ASSUME NEW i \in 1 .. Len(visits')
      PROVE  Knows(visits[i])'
  <2>1. CASE i = n + 1
    BY <1>2, <2>1 DEF Knows
  <2>2. CASE i # n + 1
    <3>1. i \in 1 .. n
      BY <1>1, <1>2, <2>2
    <3>2. visits[i] \in Visits
      BY <1>1, <3>1
    <3>3. visits'[i] = visits[i]
      BY <1>2, <3>1
    <3>4. Knows(visits[i])
      BY <3>1 DEF IInv
    <3>. QED
      BY <3>2, <3>3, <3>4 DEF Knows
  <2>. QED
    BY <2>1, <2>2
<1>. QED
  BY <1>3, <1>4, <1>5, <1>6, <1>7 DEF IInv

\* A new visit has found nothing.
LEMMA NewVisit ==
  ASSUME IInv, NEW script \in Seq(Steps), NEW statement \in BOOLEAN, NEW closure \in Nat
  PROVE  /\ Visit(script, statement, closure) \in Visits
         /\ Visit(script, statement, closure).closure = closure
         /\ Visit(script, statement, closure).declared = Len(declarations)
         /\ DOMAIN Visit(script, statement, closure).found = {}
<1>1. Len(declarations) \in Nat
  BY DEF IInv, Typed
<1>2. << >> \in Findings /\ DOMAIN << >> = {}
  BY NothingFound
<1>. QED
  BY <1>1, <1>2 DEF Visit, Visits

\* a closure that begins, with a number and a source of its own,
LEMMA BeginClosureKeeps ==
  ASSUME IInv, BeginClosure
  PROVE  IInv'
<1>. DEFINE c == [part |-> NextStep.part, function |-> Len(private)]
<1>1. /\ visits # << >> /\ Top(visits).script # << >>
      /\ closures' = Append(closures, c)
      /\ sources' = Append(sources, EmptySource)
      /\ visits' = Append(visits, Visit(ClosureNode, FALSE, Len(closures')))
      /\ declarations' = declarations /\ private' = private
  BY DEF BeginClosure, Visiting
<1>2. /\ sources \in Seq(Sources) /\ Len(sources) \in Nat /\ Len(declarations) \in Nat
      /\ closures \in Seq(Places) /\ Len(private) \in Nat
  BY DEF IInv, Typed
<1>3. c \in Places /\ c.function = Len(private)
  BY <1>1, <1>2, InnermostVisit DEF Steps, Places
<1>. HIDE DEF c
<1>4. /\ closures' \in Seq(Places)
      /\ Len(closures') = Len(closures) + 1 /\ Len(closures) \in Nat
      /\ \A i \in 1 .. Len(closures) : closures'[i] = closures[i]
      /\ closures'[Len(closures) + 1] = c
  BY <1>1, <1>2, <1>3, Appended
<1>5. PICK v \in Visits :
        /\ visits' = Append(visits, v) /\ v.closure = Len(closures')
        /\ v.declared = Len(declarations) /\ DOMAIN v.found = {}
  <2>1. Len(closures') \in Nat
    BY <1>4
  <2>. QED
    BY <1>1, <2>1, ScriptsAreScripts, NewVisit
<1>6. /\ declarations' \in Seq(Declarations) /\ PrototypesFollow' /\ FunctionsFollow'
      /\ \A i \in 1 .. Len(declarations') :
           DefinesMade(declarations', i - 1, declarations'[i].text)
      /\ \A r : Made(r, declarations, Len(declarations)) =>
                Made(r, declarations', Len(declarations'))
      /\ \A u \in Visits : Knows(u) => Knows(u)'
  <2>1. Len(closures') \in Nat /\ Len(closures) <= Len(closures')
    BY <1>4
  <2>. QED
    BY <1>1, <1>4, <2>1, NoGrowth
<1>7. Made(EmptySource, declarations', Len(declarations'))
  BY DEF EmptySource, Made, Sources, DefinesMade
<1>8. /\ sources' \in Seq(Sources) /\ Len(sources') = Len(sources) + 1
      /\ \A i \in 1 .. Len(sources') : Made(sources'[i], declarations', Len(declarations'))
  <2>1. EmptySource \in Sources
    BY <1>7 DEF Made
  <2>2. /\ sources' \in Seq(Sources) /\ Len(sources') = Len(sources) + 1
        /\ \A i \in 1 .. Len(sources) : sources'[i] = sources[i]
        /\ sources'[Len(sources) + 1] = EmptySource
    BY <1>1, <1>2, <2>1, Appended
  <2>3. \A i \in 1 .. Len(sources) : Made(sources[i], declarations', Len(declarations'))
    BY <1>6, SourceOnTop
  <2>4. ASSUME NEW i \in 1 .. Len(sources')
        PROVE  Made(sources'[i], declarations', Len(declarations'))
    <3>1. CASE i = Len(sources) + 1
      BY <1>7, <2>2, <3>1
    <3>2. CASE i # Len(sources) + 1
      <4>1. i \in 1 .. Len(sources)
        BY <1>2, <2>2, <3>2
      <4>. QED
        BY <2>2, <2>3, <4>1
    <3>. QED
      BY <3>1, <3>2
  <2>. QED
    BY <2>2, <2>4
<1>9. Knows(v)'
  <2>1. v.closure \in 1 .. Len(closures') /\ closures'[v.closure].function = Len(private')
    BY <1>1, <1>3, <1>4, <1>5
  <2>2. \A i \in 1 .. Len(declarations') : ~(i > v.declared)
    BY <1>1, <1>2, <1>5
  <2>. QED
    BY <1>5, <2>1, <2>2 DEF Knows
<1>10. v.closure # 0
  BY <1>4, <1>5, SMTT(30)
<1>. QED
  BY <1>1, <1>4, <1>5, <1>6, <1>8, <1>9, <1>10, VisitBegins

\* a statement that begins,
LEMMA BeginStatementKeeps ==
  ASSUME IInv, NEW node \in Statements, BeginStatement(node)
  PROVE  IInv'
<1>1. /\ visits' = Append(visits, Visit(node.script, node.statement, 0))
      /\ sources' = sources
      /\ declarations' = declarations /\ private' = private /\ closures' = closures
  BY DEF BeginStatement
<1>2. PICK v \in Visits :
        visits' = Append(visits, v) /\ v.closure = 0 /\ DOMAIN v.found = {}
  BY <1>1, ScriptsAreScripts, NewVisit
<1>3. closures \in Seq(Places) /\ sources \in Seq(Sources)
      /\ Len(sources) \in Nat
  BY DEF IInv, Typed
<1>4. /\ declarations' \in Seq(Declarations) /\ PrototypesFollow' /\ FunctionsFollow'
      /\ \A i \in 1 .. Len(declarations') :
           DefinesMade(declarations', i - 1, declarations'[i].text)
      /\ \A r : Made(r, declarations, Len(declarations)) =>
                Made(r, declarations', Len(declarations'))
      /\ \A u \in Visits : Knows(u) => Knows(u)'
  <2>1. Len(closures') \in Nat /\ Len(closures) <= Len(closures')
    BY <1>1, <1>3
  <2>. QED
    BY <1>1, <2>1, NoGrowth
<1>5. \A i \in 1 .. Len(sources') : Made(sources'[i], declarations', Len(declarations'))
  BY <1>1, SourceOnTop
<1>6. Knows(v)'
  BY <1>2 DEF Knows
<1>7. Len(sources') = Len(sources) + (IF v.closure # 0 THEN 1 ELSE 0)
  BY <1>1, <1>2, <1>3
<1>. QED
  BY <1>1, <1>2, <1>3, <1>4, <1>5, <1>6, <1>7, VisitBegins

\* a statement that ends,
LEMMA EndStatementKeeps ==
  ASSUME IInv, EndStatement
  PROVE  IInv'
<1>. DEFINE n == Len(visits) - 1
            s == printLine(sources[Len(sources)], Text)
<1>1. /\ Len(visits) > 1 /\ Top(visits).closure = 0
      /\ sources' = sources \/ sources' = [sources EXCEPT ![Len(sources)] = s]
      /\ visits' = Front(visits)
      /\ declarations' = declarations /\ private' = private /\ closures' = closures
  BY DEF EndStatement
<1>2. /\ visits \in Seq(Visits) /\ n \in Nat /\ n + 1 = Len(visits)
      /\ closures \in Seq(Places) /\ sources \in Seq(Sources)
  BY <1>1 DEF IInv, Typed
<1>3. /\ declarations' \in Seq(Declarations) /\ PrototypesFollow' /\ FunctionsFollow'
      /\ \A i \in 1 .. Len(declarations') :
           DefinesMade(declarations', i - 1, declarations'[i].text)
      /\ \A r : Made(r, declarations, Len(declarations)) =>
                Made(r, declarations', Len(declarations'))
      /\ \A u \in Visits : Knows(u) => Knows(u)'
  <2>1. Len(closures') \in Nat /\ Len(closures) <= Len(closures')
    BY <1>1, <1>2
  <2>. QED
    BY <1>1, <2>1, NoGrowth
<1>4. Made(s, declarations', Len(declarations'))
  <2>1. Text \in Seq(Pieces) /\ DefinesMade(declarations', Len(declarations'), Text)
    BY DEF Text, DefinesMade
  <2>. QED
    BY <1>3, <2>1, SourceOnTop, Operations
<1>. HIDE DEF s
<1>5. /\ sources' \in Seq(Sources) /\ Len(sources') = Len(sources)
      /\ \A i \in 1 .. Len(sources') : Made(sources'[i], declarations', Len(declarations'))
  <2>1. CASE sources' = sources
    BY <1>2, <1>3, <2>1, SourceOnTop
  <2>2. CASE sources' = [sources EXCEPT ![Len(sources)] = s]
    BY <1>3, <1>4, <2>2, SourceOnTop, SourcesGoOn, ZenonT(60)
  <2>. QED
    BY <1>1, <2>1, <2>2
<1>6. /\ visits' \in Seq(Visits) /\ Len(visits') = n
      /\ \A i \in 1 .. n : visits'[i] = visits[i] /\ visits[i] \in Visits
  <2>1. /\ Front(visits) \in Seq(Visits) /\ Len(Front(visits)) = Len(visits) - 1
        /\ \A i \in 1 .. Len(visits) - 1 : Front(visits)[i] = visits[i]
    <3>1. Len(visits) >= 1
      BY <1>2
    <3>. QED
      BY <1>2, <3>1, Taken, ZenonT(60)
  <2>2. \A i \in 1 .. n : visits[i] \in Visits
    <3>1. \A i \in 1 .. n : i \in 1 .. Len(visits)
      BY <1>2
    <3>. HIDE DEF n
    <3>. QED
      BY <1>2, <3>1
  <2>. QED
    BY <1>1, <2>1, <2>2
<1>7. SourcesFollow'
  <2>. HIDE DEF n
  <2>1. visits[n + 1].closure = 0
    BY <1>1, <1>2 DEF Top
  <2>2. Cardinality(ClosureVisits(visits, n + 1))
          = Cardinality(ClosureVisits(visits', n))
            + (IF visits[n + 1].closure # 0 THEN 1 ELSE 0)
    <3>1. \A i \in 1 .. n : visits'[i].closure = visits[i].closure
      BY <1>6
    <3>. QED
      BY <1>2, <3>1, CountedNext
  <2>3. Cardinality(ClosureVisits(visits', n)) \in Nat
    BY <1>2, Counted
  <2>. QED
    BY <1>2, <1>5, <1>6, <2>1, <2>2, <2>3 DEF IInv, SourcesFollow
<1>8. CallersWait'
  <2>1. ASSUME NEW i \in 1 .. n, visits'[i].closure # 0
        PROVE  i > 1 /\ visits'[i - 1].script # << >>
    <3>1. i \in 1 .. Len(visits) /\ visits[i].closure # 0
      BY <1>2, <1>6, <2>1
    <3>2. i > 1 /\ visits[i - 1].script # << >>
      BY <3>1 DEF IInv, CallersWait
    <3>3. i - 1 \in 1 .. n
      BY <1>2, <3>2
    <3>. QED
      BY <1>6, <3>2, <3>3
  <2>. QED
    BY <1>6, <2>1 DEF CallersWait
<1>9. ASSUME NEW i \in 1 .. Len(visits')
      PROVE  Knows(visits[i])'
  <2>1. i \in 1 .. n /\ i \in 1 .. Len(visits)
    BY <1>2, <1>6
  <2>2. Knows(visits[i])
    BY <2>1 DEF IInv
  <2>3. visits[i] \in Visits
    BY <1>6, <2>1
  <2>4. visits'[i] = visits[i]
    BY <1>6, <2>1
  <2>. QED
    BY <1>3, <2>2, <2>3, <2>4 DEF Knows
<1>10. Typed'
  BY <1>1, <1>3, <1>5, <1>6 DEF IInv, Typed
<1>11. MakesFollow'
  BY <1>3, <1>5 DEF MakesFollow, Made
<1>. QED
  BY <1>3, <1>7, <1>8, <1>9, <1>10, <1>11 DEF IInv

\* a function that ends, when no closure is being visited,
LEMMA EndFunctionKeeps ==
  ASSUME IInv, EndFunction
  PROVE  IInv'
<1>1. /\ Len(visits) = 1 /\ visits' = << >> /\ sources' = sources
      /\ declarations' = declarations /\ private' = private /\ closures' = closures
  BY DEF EndFunction
<1>2. ClosureVisits(visits, Len(visits)) = {}
  <2>1. visits[1].closure = 0
    BY <1>1 DEF IInv, CallersWait
  <2>. QED
    BY <1>1, <2>1 DEF ClosureVisits
<1>3. ClosureVisits(visits', Len(visits')) = {}
  BY <1>1 DEF ClosureVisits
<1>4. SourcesFollow'
  BY <1>1, <1>2, <1>3 DEF IInv, SourcesFollow
<1>5. Typed'
  BY <1>1 DEF IInv, Typed
<1>6. PrototypesFollow' /\ FunctionsFollow'
  BY <1>1 DEF IInv, PrototypesFollow, FunctionsFollow
<1>7. MakesFollow'
  BY <1>1 DEF IInv, MakesFollow
<1>8. CallersWait' /\ \A i \in 1 .. Len(visits') : Knows(visits[i])'
  BY <1>1 DEF CallersWait
<1>. QED
  BY <1>4, <1>5, <1>6, <1>7, <1>8 DEF IInv

\* The declarations behind the first n.
LEMMA Behind ==
  ASSUME NEW S, NEW seq \in Seq(S), NEW n \in Nat
  PROVE  /\ SubSeq(seq, n + 1, Len(seq)) \in Seq(S)
         /\ \A i \in 1 .. Len(SubSeq(seq, n + 1, Len(seq))) :
              /\ n + i \in 1 .. Len(seq) /\ n + i > n
              /\ SubSeq(seq, n + 1, Len(seq))[i] = seq[n + i]
OBVIOUS

\* and a closure that ends: its function is declared behind all that was declared
\* while it was visited, and the visit around it notes that much.
LEMMA EndClosureKeeps ==
  ASSUME IInv, EndClosure
  PROVE  IInv'
<1>. DEFINE n == Len(visits) - 1
            m == Len(sources) - 1
<1>1. PICK v \in Visits : v = Top(visits) /\ v = visits[Len(visits)] /\ Knows(v)
  BY InnermostVisit DEF EndClosure
<1>2. PICK d : d = Declared("closure", v.closure, Top(sources).lines)
  OBVIOUS
<1>3. PICK added : added = SubSeq(declarations', v.declared + 1, Len(declarations'))
  OBVIOUS
<1>4. PICK e : e = Found(v.closure, 0, added)
  OBVIOUS
<1>5. PICK s : s = WrittenExpression(Front(sources)[m], e)
  OBVIOUS
<1>6. /\ visits # << >> /\ v.closure # 0
      /\ declarations' = Append(declarations, d)
      /\ sources' = [Front(sources) EXCEPT ![m] = s]
      /\ visits' = Noted(Front(visits), e)
      /\ private' = private /\ closures' = closures
  BY <1>1, <1>2, <1>3, <1>4, <1>5 DEF EndClosure
<1>7. /\ visits \in Seq(Visits) /\ Len(visits) >= 1 /\ n \in Nat /\ n + 1 = Len(visits)
      /\ closures \in Seq(Places) /\ sources \in Seq(Sources)
      /\ declarations \in Seq(Declarations)
  BY <1>6, InnermostVisit DEF IInv, Typed
<1>. HIDE DEF n
<1>8. n >= 1 /\ visits[n].script # << >>
  <2>1. n + 1 \in 1 .. Len(visits) /\ visits[n + 1].closure # 0
    BY <1>1, <1>6, <1>7
  <2>2. n + 1 > 1 /\ visits[(n + 1) - 1].script # << >>
    BY <2>1 DEF IInv, CallersWait
  <2>. QED
    BY <1>7, <2>2
<1>9. /\ Front(visits) \in Seq(Visits) /\ Len(Front(visits)) = n
      /\ \A i \in 1 .. n : Front(visits)[i] = visits[i]
      /\ Top(Front(visits)) = visits[n] /\ visits[n] \in Visits
  <2>1. /\ Front(visits) \in Seq(Visits) /\ Len(Front(visits)) = n
        /\ \A i \in 1 .. n : Front(visits)[i] = visits[i]
    BY <1>7, Taken, ZenonT(60) DEF n
  <2>2. n \in 1 .. n /\ n \in 1 .. Len(visits)
    BY <1>7, <1>8
  <2>3. Front(visits)[n] = visits[n]
    BY <2>1, <2>2
  <2>4. visits[n] \in Visits
    BY <1>7, <2>2
  <2>. QED
    BY <2>1, <2>3, <2>4, SMTT(30) DEF Top
<1>10. /\ Len(sources) = 2 + Cardinality(ClosureVisits(visits, n))
       /\ Cardinality(ClosureVisits(visits, n)) \in Nat
  <2>1. Cardinality(ClosureVisits(visits, n + 1))
          = Cardinality(ClosureVisits(visits, n)) + (IF visits[n + 1].closure # 0 THEN 1 ELSE 0)
    BY <1>7, CountedNext
  <2>2. Cardinality(ClosureVisits(visits, n)) \in Nat
    BY <1>7, Counted
  <2>3. Len(sources) = 1 + Cardinality(ClosureVisits(visits, n + 1))
    BY <1>7 DEF IInv, SourcesFollow
  <2>4. visits[n + 1].closure # 0
    BY <1>1, <1>6, <1>7
  <2>. QED
    BY <2>1, <2>2, <2>3, <2>4
<1>11. d \in Declarations /\ Current(d) /\ d.is = "closure" /\ d.of = v.closure
  <2>1. Made(Top(sources), declarations, Len(declarations))
    BY SourceOnTop DEF Top
  <2>2. /\ Top(sources).lines \in Seq(Pieces)
        /\ DefinesMade(declarations, Len(declarations), Top(sources).lines)
    BY <2>1 DEF Made, Sources
  <2>3. /\ v.closure \in 1 .. Len(closures)
        /\ closures[v.closure].function = Len(private)
    BY <1>1, <1>6 DEF Knows
  <2>4. v.closure \in Nat
    BY DEF Visits
  <2>5. /\ d.is = "closure" /\ d.of = v.closure /\ d.text = Top(sources).lines
        /\ d \in Declarations
    BY <1>2, <2>2, <2>4 DEF Declared, Declarations
  <2>. QED
    BY <2>2, <2>3, <2>5 DEF Current
<1>12. /\ declarations' \in Seq(Declarations) /\ PrototypesFollow' /\ FunctionsFollow'
       /\ \A i \in 1 .. Len(declarations') :
            DefinesMade(declarations', i - 1, declarations'[i].text)
       /\ \A c : Defines(declarations, Len(declarations), c) =>
                 Defines(declarations', Len(declarations'), c)
       /\ \A r : Made(r, declarations, Len(declarations)) =>
                 Made(r, declarations', Len(declarations'))
       /\ \A u \in Visits : Knows(u) => Knows(u)'
  <2>. DEFINE ds == <<d>>
  <2>1. ds \in Seq(Declarations) /\ \A i \in 1 .. Len(ds) : Current(ds[i])
    BY <1>11
  <2>2. declarations' = declarations \o ds
    BY <1>6, <1>7, <1>11
  <2>3. Len(closures') \in Nat /\ Len(closures) <= Len(closures')
    BY <1>6, <1>7
  <2>4. \A i \in 1 .. Len(closures) : closures'[i] = closures[i]
    BY <1>6
  <2>5. private' = private
    BY <1>6
  <2>. HIDE DEF ds
  <2>. QED
    BY <2>1, <2>2, <2>3, <2>4, <2>5, Growth
<1>13. Defines(declarations', Len(declarations'), v.closure)
  <2>1. /\ Len(declarations') = Len(declarations) + 1 /\ Len(declarations) \in Nat
        /\ declarations'[Len(declarations) + 1] = d
    BY <1>6, <1>7, <1>11, Appended
  <2>. QED
    BY <1>11, <2>1 DEF Defines
<1>14. added \in Seq(Declarations) /\ \A i \in 1 .. Len(added) : Current(added[i])'
  <2>1. v.declared \in Nat
    BY DEF Visits
  <2>2. /\ added \in Seq(Declarations)
        /\ \A i \in 1 .. Len(added) :
             /\ v.declared + i \in 1 .. Len(declarations')
             /\ v.declared + i > v.declared
             /\ added[i] = declarations'[v.declared + i]
    BY <1>3, <1>12, <2>1, Behind
  <2>3. Knows(v)'
    BY <1>1, <1>12
  <2>4. \A j \in 1 .. Len(declarations') : j > v.declared => Current(declarations[j])'
    BY <1>6, <2>3 DEF Knows
  <2>5. ASSUME NEW i \in 1 .. Len(added)
        PROVE  Current(added[i])'
    BY <2>2, <2>4 DEF Current
  <2>. QED
    BY <2>2, <2>5
<1>15. e \in Expressions /\ e.closure = v.closure /\ e.added = added
  <2>1. v.closure \in Nat
    BY DEF Visits
  <2>. QED
    BY <1>4, <1>14, <2>1 DEF Found, Expressions
<1>16. /\ Front(sources) \in Seq(Sources) /\ Len(Front(sources)) = m
       /\ \A i \in 1 .. m : Front(sources)[i] = sources[i]
       /\ m \in 1 .. m /\ m = 1 + Cardinality(ClosureVisits(visits, n))
       /\ \A i \in 1 .. m : Made(Front(sources)[i], declarations', Len(declarations'))
  <2>1. Len(sources) >= 1 /\ m \in 1 .. m /\ m = 1 + Cardinality(ClosureVisits(visits, n))
        /\ 1 .. m \subseteq 1 .. Len(sources)
    BY <1>10
  <2>2. /\ Front(sources) \in Seq(Sources) /\ Len(Front(sources)) = m
        /\ \A i \in 1 .. m : Front(sources)[i] = sources[i]
    BY <1>7, <2>1, Taken
  <2>. HIDE DEF m
  <2>3. ASSUME NEW i \in 1 .. m
        PROVE  Made(Front(sources)[i], declarations', Len(declarations'))
    BY <1>12, <2>1, <2>2, SourceOnTop
  <2>. QED
    BY <2>1, <2>2, <2>3
<1>. HIDE DEF m
<1>17. Made(s, declarations', Len(declarations'))
  BY <1>5, <1>13, <1>15, <1>16, ExpressionsMake
<1>18. /\ sources' \in Seq(Sources) /\ Len(sources') = m
       /\ \A i \in 1 .. Len(sources') : Made(sources'[i], declarations', Len(declarations'))
  <2>1. s \in Sources
    BY <1>17 DEF Made
  <2>2. /\ sources' \in Seq(Sources) /\ Len(sources') = m
        /\ \A i \in 1 .. m : sources'[i] = IF i = m THEN s ELSE Front(sources)[i]
    BY <1>6, <1>16, <2>1, Replaced
  <2>. QED
    BY <1>16, <1>17, <2>2
<1>19. PICK w \in Visits :
         /\ w.closure = visits[n].closure /\ w.declared = visits[n].declared
         /\ Noted(Front(visits), e) = [Front(visits) EXCEPT ![n] = w]
         /\ \A part \in DOMAIN w.found :
              \/ part \in DOMAIN visits[n].found /\ w.found[part] = visits[n].found[part]
              \/ w.found[part] = e
  BY <1>8, <1>9, <1>15, NotedVisit
<1>20. /\ visits' \in Seq(Visits) /\ Len(visits') = n
       /\ \A i \in 1 .. n : visits'[i] = IF i = n THEN w ELSE visits[i]
  <2>1. n \in 1 .. Len(Front(visits))
    BY <1>7, <1>8, <1>9
  <2>2. /\ visits' \in Seq(Visits) /\ Len(visits') = Len(Front(visits))
        /\ \A i \in 1 .. Len(Front(visits)) :
             visits'[i] = IF i = n THEN w ELSE Front(visits)[i]
    BY <1>6, <1>9, <1>19, <2>1, Replaced
  <2>. QED
    BY <1>9, <2>2
<1>21. Knows(w)'
  <2>1. PICK u \in Visits : u = visits[n]
    BY <1>9
  <2>2. n \in 1 .. Len(visits)
    BY <1>7, <1>8
  <2>3. Knows(u)'
    BY <1>12, <2>1, <2>2 DEF IInv
  <2>4. ASSUME NEW part \in DOMAIN w.found
        PROVE  /\ w.found[part].closure # 0 =>
                    Defines(declarations', Len(declarations'), w.found[part].closure)
               /\ \A i \in 1 .. Len(w.found[part].added) : Current(w.found[part].added[i])'
    <3>1. CASE part \in DOMAIN u.found /\ w.found[part] = u.found[part]
      BY <2>3, <3>1 DEF Knows
    <3>2. CASE w.found[part] = e
      BY <1>13, <1>14, <1>15, <3>2
    <3>. QED
      BY <1>19, <2>1, <3>1, <3>2
  <2>5. w.closure = u.closure /\ w.declared = u.declared
    BY <1>19, <2>1
  <2>. QED
    BY <2>3, <2>4, <2>5 DEF Knows
<1>22. ASSUME NEW i \in 1 .. Len(visits')
       PROVE  Knows(visits[i])'
  <2>1. CASE i = n
    BY <1>20, <1>21, <2>1 DEF Knows
  <2>2. CASE i # n
    <3>1. i \in 1 .. n /\ i \in 1 .. Len(visits)
      BY <1>7, <1>20
    <3>2. visits[i] \in Visits
      BY <1>7, <3>1
    <3>3. visits'[i] = visits[i]
      BY <1>20, <2>2, <3>1
    <3>4. Knows(visits[i])
      BY <3>1 DEF IInv
    <3>. QED
      BY <1>12, <3>2, <3>3, <3>4 DEF Knows
  <2>. QED
    BY <2>1, <2>2
<1>23. SourcesFollow'
  <2>1. ClosureVisits(visits', n) = ClosureVisits(visits, n)
    <3>1. \A i \in 1 .. n : visits'[i].closure = visits[i].closure
      BY <1>19, <1>20
    <3>. QED
      BY <3>1 DEF ClosureVisits
  <2>. QED
    BY <1>16, <1>18, <1>20, <2>1 DEF SourcesFollow
<1>24. CallersWait'
  <2>1. ASSUME NEW i \in 1 .. n, visits'[i].closure # 0
        PROVE  i > 1 /\ visits'[i - 1].script # << >>
    <3>1. i \in 1 .. Len(visits) /\ visits[i].closure # 0
      <4>1. visits'[i].closure = visits[i].closure
        BY <1>19, <1>20
      <4>2. i \in 1 .. Len(visits)
        BY <1>7
      <4>. QED
        BY <2>1, <4>1, <4>2
    <3>2. i > 1 /\ visits[i - 1].script # << >>
      BY <3>1 DEF IInv, CallersWait
    <3>3. i - 1 \in 1 .. n /\ i - 1 # n
      BY <1>7, <3>2
    <3>. QED
      BY <1>20, <3>2, <3>3
  <2>. QED
    BY <1>20, <2>1 DEF CallersWait
<1>25. Typed'
  BY <1>6, <1>12, <1>18, <1>20 DEF IInv, Typed
<1>26. MakesFollow'
  BY <1>12, <1>18 DEF MakesFollow, Made
<1>. QED
  BY <1>12, <1>22, <1>23, <1>24, <1>25, <1>26 DEF IInv

\* The function that a closure is in is a number.
LEMMA ClosuresHaveFunctions ==
  ASSUME IInv
  PROVE  \A c \in 1 .. Len(closures) : closures[c].function \in Nat
<1>1. closures \in Seq(Places)
  BY DEF IInv, Typed
<1>2. \A c \in 1 .. Len(closures) : closures[c] \in Places
  BY <1>1
<1>. QED
  BY <1>2 DEF Places

\* A function begins; its number is new, so that no closure has its prototype
\* in front.
LEMMA FunctionDefinitionKeeps ==
  ASSUME IInv, NEW hidden \in BOOLEAN, FunctionDefinition(hidden)
  PROVE  IInv'
<1>. DEFINE f == Len(private) + 1
            n == Len(declarations)
            d == Declared("prototype", f, Text)
            ds == IF hidden THEN <<d>> ELSE << >>
<1>1. /\ declarations \in Seq(Declarations) /\ n \in Nat
      /\ private \in Seq(BOOLEAN) /\ f \in Nat /\ visits = << >>
      /\ closures \in Seq(Places) /\ sources \in Seq(Sources)
  BY DEF IInv, Typed, FunctionDefinition
<1>2. /\ private' = Append(private, hidden)
      /\ private' \in Seq(BOOLEAN) /\ Len(private') = f
      /\ \A k \in 1 .. Len(private) : private'[k] = private[k]
      /\ private'[f] = hidden
  <2>1. private' = Append(private, hidden)
    BY DEF FunctionDefinition
  <2>. QED
    BY <1>1, <2>1, Appended
<1>3. /\ d \in Declarations /\ d.is = "prototype" /\ d.of = f /\ d.text = << >>
      /\ ds \in Seq(Declarations)
  <2>1. d \in Declarations /\ d.is = "prototype" /\ d.of = f /\ d.text = << >>
    BY <1>1 DEF Declared, Declarations, Text
  <2>. HIDE DEF d
  <2>2. <<d>> \in Seq(Declarations) /\ << >> \in Seq(Declarations)
    BY <2>1
  <2>. QED
    BY <2>1, <2>2
<1>4. declarations' = declarations \o ds
  <2>1. declarations' = IF hidden THEN Append(declarations, d) ELSE declarations
    BY <1>2 DEF FunctionDefinition
  <2>. HIDE DEF d, n
  <2>. QED
    BY <1>1, <1>3, <2>1
<1>5. \A i \in 1 .. Len(ds) : ds[i] = d
  OBVIOUS
<1>6. hidden => Len(ds) = 1 /\ ds[1] = d
  OBVIOUS
<1>. HIDE DEF d, ds
<1>7. /\ declarations' \in Seq(Declarations) /\ Len(declarations') = n + Len(ds)
      /\ Len(ds) \in Nat
      /\ \A i \in 1 .. n : declarations'[i] = declarations[i]
      /\ \A i \in n + 1 .. n + Len(ds) : i - n \in 1 .. Len(ds) /\ declarations'[i] = ds[i - n]
  BY <1>1, <1>3, <1>4, Joined
<1>8. \A i \in n + 1 .. n + Len(ds) : declarations'[i] = d
  BY <1>5, <1>7
<1>9. closures' = closures /\ sources' = sources
  BY DEF FunctionDefinition
<1>10. ASSUME NEW k \in 0 .. n, NEW j \in k .. n + Len(ds)
       PROVE  /\ \A c : Announces(declarations, k, c) => Announces(declarations', j, c)
              /\ \A c : Announces(declarations', k, c) => Announces(declarations, k, c)
              /\ \A text : DefinesMade(declarations, k, text) =>
                           DefinesMade(declarations', j, text)
  BY <1>1, <1>3, <1>4, LongerDefines
<1>. HIDE DEF n
<1>11. PrototypesFollow'
  <2>1. ASSUME NEW k \in 1 .. f, private'[k]
        PROVE  Announces(declarations', n + Len(ds), k)
    <3>1. CASE k \in 1 .. Len(private)
      <4>1. private[k]
        BY <1>2, <2>1, <3>1
      <4>2. Announces(declarations, n, k)
        BY <3>1, <4>1 DEF IInv, PrototypesFollow, n
      <4>3. n \in 0 .. n /\ n + Len(ds) \in n .. n + Len(ds)
        BY <1>1, <1>7
      <4>. QED
        BY <1>10, <4>2, <4>3
    <3>2. CASE k = f
      <4>1. hidden
        <5>1. private'[f]
          BY <2>1, <3>2
        <5>. HIDE DEF f
        <5>. QED
          BY <1>2, <5>1, Zenon
      <4>2. n + 1 \in n + 1 .. n + Len(ds) /\ n + 1 \in 1 .. n + Len(ds)
        <5>1. n \in Nat /\ Len(ds) = 1
          BY <1>1, <1>6, <4>1
        <5>. QED
          BY <5>1
      <4>3. declarations'[n + 1].is = "prototype" /\ declarations'[n + 1].of = k
        BY <1>3, <1>8, <3>2, <4>2
      <4>. QED
        BY <4>2, <4>3 DEF Announces
    <3>. QED
      BY <1>1, <3>1, <3>2
  <2>2. ASSUME NEW j \in 1 .. n + Len(ds), declarations'[j].is = "prototype"
        PROVE  declarations'[j].of \in 1 .. f /\ declarations'[j].text = << >>
    <3>1. CASE j \in 1 .. n
      <4>1. declarations[j].of \in 1 .. Len(private) /\ declarations[j].text = << >>
        BY <1>7, <2>2, <3>1 DEF IInv, PrototypesFollow, n
      <4>. QED
        BY <1>1, <1>7, <3>1, <4>1, SMTT(30)
    <3>2. CASE j \in n + 1 .. n + Len(ds)
      BY <1>1, <1>3, <1>8, <3>2
    <3>. QED
      BY <1>1, <1>7, <3>1, <3>2
  <2>. QED
    BY <1>2, <1>7, <2>1, <2>2 DEF PrototypesFollow
<1>12. FunctionsFollow'
  <2>1. ASSUME NEW i \in 1 .. n + Len(ds), declarations'[i].is = "closure"
        PROVE  /\ declarations'[i].of \in 1 .. Len(closures)
               /\ closures[declarations'[i].of].function <= f
               /\ \A k \in 1 .. f : private'[k] =>
                    (Announces(declarations', i - 1, k)
                       <=> k <= closures[declarations'[i].of].function)
    <3>1. i \in 1 .. n
      <4>1. CASE i \in n + 1 .. n + Len(ds)
        <5>1. declarations'[i] = d
          BY <1>8, <4>1
        <5>. QED
          BY <1>3, <2>1, <5>1
      <4>. QED
        BY <1>1, <1>7, <4>1
    <3>2. declarations'[i] = declarations[i]
      BY <1>7, <3>1
    <3>3. PICK c : c = declarations[i].of
      OBVIOUS
    <3>4. /\ c \in 1 .. Len(closures) /\ closures[c].function <= Len(private)
          /\ \A k \in 1 .. Len(private) : private[k] =>
               (Announces(declarations, i - 1, k) <=> k <= closures[c].function)
      <4>1. declarations[i].is = "closure" /\ i \in 1 .. Len(declarations)
        BY <2>1, <3>1, <3>2 DEF n
      <4>. HIDE DEF f
      <4>. QED
        BY <3>3, <4>1 DEF IInv, FunctionsFollow
    <3>5. closures[c].function \in Nat
      <4>1. c \in 1 .. Len(closures)
        BY <3>4, Zenon
      <4>. QED
        BY <4>1, ClosuresHaveFunctions
    <3>6. i - 1 \in 0 .. n /\ i - 1 \in i - 1 .. n + Len(ds)
      BY <1>1, <1>7, <3>1
    <3>7. \A k : Announces(declarations', i - 1, k) <=> Announces(declarations, i - 1, k)
      BY <1>10, <3>6
    <3>8. ~Announces(declarations, i - 1, f)
      <4>1. ASSUME NEW j \in 1 .. i - 1, declarations[j].is = "prototype"
            PROVE  declarations[j].of # f
        <5>1. j \in 1 .. n
          BY <1>1, <3>1
        <5>2. declarations[j].of \in 1 .. Len(private)
          BY <4>1, <5>1 DEF IInv, PrototypesFollow, n
        <5>. QED
          BY <1>1, <5>2
      <4>. QED
        BY <4>1 DEF Announces
    <3>9. ~(f <= closures[c].function)
      BY <1>1, <3>4, <3>5
    <3>10. ASSUME NEW k \in 1 .. f, private'[k]
           PROVE  Announces(declarations', i - 1, k) <=> k <= closures[c].function
      <4>1. CASE k \in 1 .. Len(private)
        <5>1. private[k]
          BY <1>2, <3>10, <4>1
        <5>. QED
          BY <3>4, <3>7, <4>1, <5>1
      <4>2. CASE k = f
        BY <3>7, <3>8, <3>9, <4>2
      <4>. QED
        BY <1>1, <4>1, <4>2, SMTT(30)
    <3>11. closures[c].function <= f
      BY <1>1, <3>4, <3>5
    <3>. QED
      BY <3>2, <3>3, <3>4, <3>10, <3>11
  <2>. QED
    BY <1>2, <1>7, <1>9, <2>1 DEF FunctionsFollow
<1>13. MakesFollow'
  <2>1. ASSUME NEW i \in 1 .. n + Len(ds)
        PROVE  DefinesMade(declarations', i - 1, declarations'[i].text)
    <3>1. CASE i \in 1 .. n
      <4>1. i - 1 \in 0 .. n /\ i - 1 \in i - 1 .. n + Len(ds)
        BY <1>1, <1>7, <3>1
      <4>2. DefinesMade(declarations, i - 1, declarations[i].text)
        BY <3>1 DEF IInv, MakesFollow, n
      <4>3. DefinesMade(declarations', i - 1, declarations[i].text)
        BY <1>10, <4>1, <4>2
      <4>. QED
        BY <1>7, <3>1, <4>3
    <3>2. CASE i \in n + 1 .. n + Len(ds)
      <4>1. declarations'[i].text = << >>
        BY <1>3, <1>8, <3>2
      <4>. QED
        BY <4>1 DEF DefinesMade
    <3>. QED
      BY <1>1, <1>7, <3>1, <3>2
  <2>2. ASSUME NEW i \in 1 .. Len(sources)
        PROVE  /\ DefinesMade(declarations', n + Len(ds), sources[i].lines)
               /\ DefinesMade(declarations', n + Len(ds), sources[i].stream)
    <3>1. /\ DefinesMade(declarations, n, sources[i].lines)
          /\ DefinesMade(declarations, n, sources[i].stream)
      BY DEF IInv, MakesFollow, n
    <3>2. n \in 0 .. n /\ n + Len(ds) \in n .. n + Len(ds)
      BY <1>1, <1>7
    <3>. QED
      BY <1>10, <3>1, <3>2
  <2>. QED
    BY <1>7, <1>9, <2>1, <2>2 DEF MakesFollow
<1>14. PICK v \in Visits : visits' = <<v>> /\ v.closure = 0 /\ DOMAIN v.found = {}
  <2>1. visits' = <<Visit(FunctionDefinitionNode, FALSE, 0)>>
    BY DEF FunctionDefinition
  <2>. QED
    BY <2>1, ScriptsAreScripts, NewVisit
<1>15. /\ visits' \in Seq(Visits) /\ Len(visits') = 1 /\ visits'[1] = v
  BY <1>14
<1>16. Knows(v)'
  BY <1>14 DEF Knows
<1>17. \A i \in 1 .. Len(visits') : Knows(visits[i])'
  BY <1>15, <1>16 DEF Knows
<1>18. SourcesFollow'
  <2>1. ClosureVisits(visits, Len(visits)) = {} /\ ClosureVisits(visits', Len(visits')) = {}
    BY <1>1, <1>14, <1>15 DEF ClosureVisits
  <2>. QED
    BY <1>9, <2>1 DEF IInv, SourcesFollow
<1>19. CallersWait'
  BY <1>14, <1>15 DEF CallersWait
<1>20. Typed'
  BY <1>1, <1>2, <1>7, <1>9, <1>15 DEF Typed
<1>. QED
  BY <1>11, <1>12, <1>13, <1>17, <1>18, <1>19, <1>20 DEF IInv

-----------------------------------------------------------------------------
(* The theorems. *)

\* The invariant holds when there is nothing.
LEMMA Begins ==
  ASSUME Init
  PROVE  IInv
<1>1. /\ sources = <<EmptySource>> /\ declarations = << >> /\ visits = << >>
      /\ private = << >> /\ closures = << >>
  BY DEF Init
<1>2. EmptySource \in Sources /\ EmptySource.lines = << >> /\ EmptySource.stream = << >>
  BY DEF EmptySource, Sources
<1>3. Typed
  BY <1>1, <1>2 DEF Typed
<1>4. SourcesFollow
  <2>1. ClosureVisits(visits, Len(visits)) = {}
    BY <1>1 DEF ClosureVisits
  <2>. QED
    BY <1>1, <2>1, FS_EmptySet DEF SourcesFollow
<1>5. CallersWait /\ PrototypesFollow /\ FunctionsFollow
  BY <1>1 DEF CallersWait, PrototypesFollow, FunctionsFollow
<1>6. MakesFollow
  BY <1>1, <1>2 DEF MakesFollow, DefinesMade
<1>. QED
  BY <1>1, <1>3, <1>4, <1>5, <1>6 DEF IInv

\* The invariant holds: what a visit has found, and what is on its way into
\* the declarations, are closures of the current function whose parts are
\* defined.
THEOREM Invariance == Spec => []IInv
<1>1. ASSUME IInv, [Next]_vars
      PROVE  IInv'
  <2>1. CASE UNCHANGED vars
    <3>1. /\ sources' = sources /\ declarations' = declarations /\ visits' = visits
          /\ private' = private /\ closures' = closures
      BY <2>1 DEF vars
    <3>2. Typed' /\ SourcesFollow' /\ CallersWait'
      BY <1>1, <3>1 DEF IInv, Typed, SourcesFollow, CallersWait
    <3>3. PrototypesFollow' /\ FunctionsFollow' /\ MakesFollow'
      BY <1>1, <3>1 DEF IInv, PrototypesFollow, FunctionsFollow, MakesFollow
    <3>4. \A i \in 1 .. Len(visits') : Knows(visits[i])'
      <4>1. \A v \in Visits : Knows(v) => Knows(v)'
        <5>1. Len(closures') \in Nat /\ Len(closures) <= Len(closures')
          BY <1>1, <3>1 DEF IInv, Typed
        <5>. QED
          BY <1>1, <3>1, <5>1, NoGrowth
      <4>2. ASSUME NEW i \in 1 .. Len(visits')
            PROVE  Knows(visits[i])'
        <5>1. visits \in Seq(Visits) /\ i \in 1 .. Len(visits)
          BY <1>1, <3>1 DEF IInv, Typed
        <5>2. visits[i] \in Visits
          BY <5>1
        <5>3. visits'[i] = visits[i] /\ Knows(visits[i])
          BY <1>1, <3>1, <5>1 DEF IInv
        <5>. QED
          BY <4>1, <5>2, <5>3 DEF Knows
      <4>. QED
        BY <4>2
    <3>. QED
      BY <3>2, <3>3, <3>4 DEF IInv
  <2>2. CASE \E hidden \in BOOLEAN : FunctionDefinition(hidden)
    BY <1>1, <2>2, FunctionDefinitionKeeps
  <2>3. CASE Write
    BY <1>1, <2>3, WriteKeeps
  <2>4. CASE \E call \in 0 .. MaxFunctions : PlainExpression(call)
    BY <1>1, <2>4, PlainExpressionKeeps
  <2>5. CASE ExpressionAgain
    BY <1>1, <2>5, ExpressionAgainKeeps
  <2>6. CASE BeginClosure
    BY <1>1, <2>6, BeginClosureKeeps
  <2>7. CASE EndClosure
    BY <1>1, <2>7, EndClosureKeeps
  <2>8. CASE \E node \in Statements : BeginStatement(node)
    BY <1>1, <2>8, BeginStatementKeeps
  <2>9. CASE EndStatement
    BY <1>1, <2>9, EndStatementKeeps
  <2>10. CASE EndChildren
    BY <1>1, <2>10, EndChildrenKeeps
  <2>11. CASE EndFunction
    BY <1>1, <2>11, EndFunctionKeeps
  <2>. QED
    BY <1>1, <2>1, <2>2, <2>3, <2>4, <2>5, <2>6, <2>7, <2>8, <2>9, <2>10, <2>11 DEF Next
<1>. QED
  BY Begins, <1>1, PTL DEF Spec

\* Sources, declarations, visits and their counters are what their names say.
THEOREM TypeCorrect == Spec => []Typed
<1>1. IInv => Typed
  BY DEF IInv
<1>. QED
  BY Invariance, <1>1, PTL

\* The function of a closure follows those of the closures that it makes and the
\* prototypes of the private functions that it calls, unless these belong to
\* functions behind the one that the closure is in.
THEOREM UseFollowsDefinition == Spec => []DefinedBeforeUse
<1>1. ASSUME IInv
      PROVE  DefinedBeforeUse
  <2>1. declarations \in Seq(Declarations) /\ private \in Seq(BOOLEAN)
    BY <1>1 DEF IInv, Typed
  <2>2. ASSUME NEW i \in 1 .. Len(declarations), NEW j \in 1 .. Len(declarations[i].text)
        PROVE  LET piece == declarations[i].text[j] IN
               /\ piece.is = "make" => Defines(declarations, i - 1, piece.of)
               /\ /\ piece.is = "call" /\ Done
                  /\ piece.of \in 1 .. Len(private) /\ private[piece.of]
                  => (Announces(declarations, i - 1, piece.of)
                        <=> piece.of <= closures[declarations[i].of].function)
    <3>. DEFINE piece == declarations[i].text[j]
    <3>1. piece.is = "make" => Defines(declarations, i - 1, piece.of)
      BY <1>1 DEF IInv, MakesFollow, DefinesMade
    <3>2. declarations[i] \in Declarations
      BY <2>1
    <3>3. declarations[i].text # << >>
      BY <3>2 DEF Declarations
    <3>4. declarations[i].is = "closure"
      BY <1>1, <3>2, <3>3 DEF IInv, PrototypesFollow, Declarations
    <3>5. \A k \in 1 .. Len(private) : private[k] =>
            (Announces(declarations, i - 1, k)
               <=> k <= closures[declarations[i].of].function)
      BY <1>1, <3>4 DEF IInv, FunctionsFollow
    <3>. HIDE DEF piece
    <3>6. ASSUME piece.of \in 1 .. Len(private), private[piece.of]
          PROVE  Announces(declarations, i - 1, piece.of)
                   <=> piece.of <= closures[declarations[i].of].function
      BY <3>5, <3>6
    <3>. QED
      BY <3>1, <3>6 DEF piece
  <2>3. \A i \in DOMAIN declarations :
          Range(declarations[i].text)
            = {declarations[i].text[j] : j \in 1 .. Len(declarations[i].text)}
    <3>1. ASSUME NEW i \in DOMAIN declarations
          PROVE  DOMAIN declarations[i].text = 1 .. Len(declarations[i].text)
      <4>1. declarations[i] \in Declarations
        BY <2>1
      <4>2. declarations[i].text \in Seq(Pieces)
        BY <4>1 DEF Declarations
      <4>. QED
        BY <4>2
    <3>. QED
      BY <3>1 DEF Range
  <2>4. ASSUME NEW i \in DOMAIN declarations, NEW piece \in Range(declarations[i].text)
        PROVE  /\ piece.is = "make" => Defines(declarations, i - 1, piece.of)
               /\ /\ piece.is = "call" /\ Done
                  /\ piece.of \in DOMAIN private /\ private[piece.of]
                  => (Announces(declarations, i - 1, piece.of)
                        <=> piece.of <= closures[declarations[i].of].function)
    <3>1. i \in 1 .. Len(declarations) /\ DOMAIN private = 1 .. Len(private)
      BY <2>1
    <3>2. PICK j \in 1 .. Len(declarations[i].text) : piece = declarations[i].text[j]
      BY <2>3
    <3>. QED
      BY <2>2, <3>1, <3>2
  <2>. QED
    BY <2>4 DEF DefinedBeforeUse, Defines, Announces
<1>. QED
  BY Invariance, <1>1, PTL

-----------------------------------------------------------------------------
(* Induction, and what a sequence leads to. *)

\* A set of numbers that is not empty has a smallest one.
LEMMA Smallest ==
  ASSUME NEW S \in SUBSET Nat, S # {}
  PROVE  \E m \in S : \A k \in S : m <= k
<1>. DEFINE R == {ss \in Nat \X Nat : ss[1] < ss[2]}
<1>1. IsWellFoundedOn(R, Nat)
  BY NatLessThanWellFounded, Zenon DEF OpToRel
<1>2. \A m, k \in Nat : k < m => <<k, m>> \in R
  OBVIOUS
<1>. HIDE DEF R
<1>3. \E x \in S : \A y \in S : ~ (<<y, x>> \in R)
  BY <1>1, WFMin, Zenon
<1>4. PICK m \in S : \A y \in S : ~ (<<y, m>> \in R)
  BY <1>3, Zenon
<1>5. m \in Nat /\ \A k \in S : k \in Nat
  OBVIOUS
<1>6. ASSUME NEW k \in S, ~(m <= k)
      PROVE  FALSE
  <2>1. k \in Nat /\ m \in Nat /\ k < m
    BY <1>5, <1>6
  <2>2. <<k, m>> \in R
    BY <2>1, <1>2
  <2>. QED
    BY <2>2, <1>4
<1>. QED
  BY <1>6

\* What holds of 0, and of n + 1 if it holds of n, holds of all numbers.
LEMMA Induction ==
  ASSUME NEW S, 0 \in S, \A n \in Nat : n \in S => n + 1 \in S
  PROVE  \A n \in Nat : n \in S
<1>. SUFFICES ASSUME NEW n \in Nat, n \notin S
              PROVE  FALSE
  OBVIOUS
<1>. DEFINE T == Nat \ S
<1>1. PICK m \in T : \A k \in T : m <= k
  <2>1. T \in SUBSET Nat /\ T # {}
    OBVIOUS
  <2>. HIDE DEF T
  <2>. QED
    BY <2>1, Smallest
<1>2. m \in Nat /\ m # 0 /\ m - 1 \in Nat /\ m - 1 \in S
  BY <1>1
<1>. QED
  BY <1>2, <1>1

\* From a to b, by steps of the relation R, one for each element of seq.
Runs(R, a, seq, b) ==
  \E f : /\ f[0] = a /\ f[Len(seq)] = b
         /\ \A i \in 1 .. Len(seq) : <<f[i - 1], seq[i], f[i]>> \in R

\* No element, no step.
LEMMA RunsNone ==
  ASSUME NEW R, NEW a
  PROVE  Runs(R, a, << >>, a) /\ \A b : Runs(R, a, << >>, b) => a = b
<1>1. Runs(R, a, << >>, a)
  <2>. DEFINE f == [i \in {0} |-> a]
  <2>1. f[0] = a /\ f[Len(<< >>)] = a
    OBVIOUS
  <2>2. \A i \in 1 .. Len(<< >>) : <<f[i - 1], << >>[i], f[i]>> \in R
    OBVIOUS
  <2>. HIDE DEF f
  <2>. QED
    BY <2>1, <2>2 DEF Runs
<1>2. \A b : Runs(R, a, << >>, b) => a = b
  BY DEF Runs
<1>. QED
  BY <1>1, <1>2

\* One element, one step.
LEMMA RunsOne ==
  ASSUME NEW R, NEW a, NEW e, NEW b
  PROVE  Runs(R, a, <<e>>, b) <=> <<a, e, b>> \in R
<1>0. Len(<<e>>) = 1 /\ <<e>>[1] = e /\ 1 .. 1 = {1}
  OBVIOUS
<1>1. ASSUME <<a, e, b>> \in R
      PROVE  Runs(R, a, <<e>>, b)
  <2>. DEFINE f == [i \in 0 .. 1 |-> IF i = 0 THEN a ELSE b]
  <2>1. f[0] = a /\ f[1] = b
    OBVIOUS
  <2>. HIDE DEF f
  <2>2. \A i \in 1 .. 1 : <<f[i - 1], <<e>>[i], f[i]>> \in R
    <3>1. <<f[0], e, f[1]>> \in R
      BY <1>1, <2>1
    <3>2. 1 - 1 = 0
      OBVIOUS
    <3>. QED
      BY <1>0, <3>1, <3>2
  <2>. QED
    BY <1>0, <2>1, <2>2 DEF Runs
<1>2. ASSUME Runs(R, a, <<e>>, b)
      PROVE  <<a, e, b>> \in R
  <2>1. PICK f : /\ f[0] = a /\ f[1] = b
                 /\ \A i \in 1 .. 1 : <<f[i - 1], <<e>>[i], f[i]>> \in R
    BY <1>0, <1>2 DEF Runs
  <2>2. <<f[1 - 1], <<e>>[1], f[1]>> \in R
    BY <2>1
  <2>3. 1 - 1 = 0
    OBVIOUS
  <2>. QED
    BY <1>0, <2>1, <2>2, <2>3
<1>. QED
  BY <1>1, <1>2

\* One sequence after the other.
LEMMA RunsJoin ==
  ASSUME NEW R, NEW S, NEW s \in Seq(S), NEW t \in Seq(S), NEW a, NEW b, NEW c,
         Runs(R, a, s, b), Runs(R, b, t, c)
  PROVE  Runs(R, a, s \o t, c)
<1>. DEFINE m == Len(s)
            n == Len(t)
<1>1. m \in Nat /\ n \in Nat
  OBVIOUS
<1>2. /\ Len(s \o t) = m + n
      /\ \A i \in 1 .. m : (s \o t)[i] = s[i]
      /\ \A i \in m + 1 .. m + n : i - m \in 1 .. n /\ (s \o t)[i] = t[i - m]
  BY Joined
<1>3. PICK f : /\ f[0] = a /\ f[m] = b
               /\ \A i \in 1 .. m : <<f[i - 1], s[i], f[i]>> \in R
  BY DEF Runs
<1>4. PICK g : /\ g[0] = b /\ g[n] = c
               /\ \A i \in 1 .. n : <<g[i - 1], t[i], g[i]>> \in R
  BY DEF Runs
<1>. HIDE DEF m, n
<1>. DEFINE h == [i \in 0 .. m + n |-> IF i <= m THEN f[i] ELSE g[i - m]]
<1>5. /\ \A i \in 0 .. m : h[i] = f[i]
      /\ \A i \in m + 1 .. m + n : h[i] = g[i - m]
  BY <1>1
<1>6. h[m] = g[0]
  BY <1>1, <1>3, <1>4, <1>5
<1>. HIDE DEF h
<1>7. \A i \in 1 .. m + n : <<h[i - 1], (s \o t)[i], h[i]>> \in R
  <2>1. ASSUME NEW i \in 1 .. m
        PROVE  <<h[i - 1], (s \o t)[i], h[i]>> \in R
    <3>. DEFINE j == i - 1
    <3>1. j \in 0 .. m /\ i \in 0 .. m
      BY <1>1
    <3>2. <<f[j], s[i], f[i]>> \in R
      BY <1>3
    <3>3. h[j] = f[j] /\ h[i] = f[i] /\ (s \o t)[i] = s[i]
      BY <1>2, <1>5, <3>1
    <3>. QED
      BY <3>2, <3>3
  <2>2. ASSUME NEW i \in m + 1 .. m + n
        PROVE  <<h[i - 1], (s \o t)[i], h[i]>> \in R
    <3>. DEFINE k == i - m
                j == i - 1
                l == k - 1
    <3>1. k \in 1 .. n /\ j = l + m /\ l \in 0 .. n /\ (l # 0 => j \in m + 1 .. m + n)
          /\ (l = 0 => j = m) /\ l = j - m
      BY <1>1
    <3>2. <<g[k - 1], t[k], g[k]>> \in R
      BY <1>4, <3>1
    <3>3. (s \o t)[i] = t[k] /\ h[i] = g[k]
      BY <1>2, <1>5
    <3>. HIDE DEF k, j
    <3>4. h[j] = g[l]
      <4>1. CASE l = 0
        BY <1>6, <3>1, <4>1
      <4>2. CASE l # 0
        BY <1>5, <3>1, <4>2
      <4>. QED
        BY <4>1, <4>2
    <3>. QED
      BY <3>2, <3>3, <3>4 DEF j
  <2>3. \A i \in 1 .. m + n : i \in 1 .. m \/ i \in m + 1 .. m + n
    BY <1>1
  <2>. QED
    BY <2>1, <2>2, <2>3
<1>8. h[0] = a
  BY <1>1, <1>3, <1>5
<1>9. h[m + n] = c
  <2>1. CASE n = 0
    BY <1>1, <1>4, <1>6, <2>1
  <2>2. CASE n # 0
    <3>1. m + n \in m + 1 .. m + n /\ (m + n) - m = n
      BY <1>1, <2>2
    <3>. QED
      BY <1>4, <1>5, <3>1
  <2>. QED
    BY <2>1, <2>2
<1>. QED
  BY <1>2, <1>7, <1>8, <1>9 DEF Runs

\* Between the two there is a state.
LEMMA RunsSplit ==
  ASSUME NEW R, NEW S, NEW s \in Seq(S), NEW t \in Seq(S), NEW a, NEW c,
         Runs(R, a, s \o t, c)
  PROVE  \E b : Runs(R, a, s, b) /\ Runs(R, b, t, c)
<1>. DEFINE m == Len(s)
            n == Len(t)
<1>1. m \in Nat /\ n \in Nat
  OBVIOUS
<1>2. /\ Len(s \o t) = m + n
      /\ \A i \in 1 .. m : (s \o t)[i] = s[i]
      /\ \A i \in 1 .. n : (s \o t)[m + i] = t[i]
  BY Joined
<1>3. PICK f : /\ f[0] = a /\ f[m + n] = c
               /\ \A i \in 1 .. m + n : <<f[i - 1], (s \o t)[i], f[i]>> \in R
  BY <1>2 DEF Runs
<1>4. Runs(R, a, s, f[m])
  <2>1. \A i \in 1 .. m : <<f[i - 1], s[i], f[i]>> \in R
    <3>1. \A i \in 1 .. m : i \in 1 .. m + n
      BY <1>1
    <3>. QED
      BY <1>2, <1>3, <3>1
  <2>. QED
    BY <1>3, <2>1 DEF Runs
<1>5. Runs(R, f[m], t, c)
  <2>. HIDE DEF m, n
  <2>. DEFINE g == [i \in 0 .. n |-> f[m + i]]
  <2>1. \A i \in 0 .. n : g[i] = f[m + i]
    OBVIOUS
  <2>2. g[0] = f[m] /\ g[n] = c
    BY <1>1, <1>3, <2>1
  <2>. HIDE DEF g
  <2>3. ASSUME NEW i \in 1 .. n
        PROVE  <<g[i - 1], t[i], g[i]>> \in R
    <3>. DEFINE j == i - 1
                k == m + i
    <3>1. j \in 0 .. n /\ i \in 0 .. n /\ k \in 1 .. m + n /\ m + j = k - 1
      BY <1>1
    <3>2. g[j] = f[m + j] /\ g[i] = f[k] /\ (s \o t)[k] = t[i]
      BY <1>2, <2>1, <3>1
    <3>3. <<f[k - 1], (s \o t)[k], f[k]>> \in R
      BY <1>3, <3>1
    <3>4. f[k - 1] = f[m + j]
      BY <3>1
    <3>. HIDE DEF j, k
    <3>5. <<g[j], t[i], g[i]>> \in R
      BY <3>2, <3>3, <3>4
    <3>. QED
      BY <3>5 DEF j
  <2>. QED
    BY <2>2, <2>3 DEF Runs, n
<1>. QED
  BY <1>4, <1>5

\* The first step, and the others.
LEMMA RunsNext ==
  ASSUME NEW R, NEW S, NEW seq \in Seq(S), seq # << >>, NEW a, NEW c
  PROVE  Runs(R, a, seq, c)
           <=> \E b : <<a, Head(seq), b>> \in R /\ Runs(R, b, Tail(seq), c)
<1>1. /\ <<Head(seq)>> \in Seq(S) /\ Tail(seq) \in Seq(S)
      /\ seq = <<Head(seq)>> \o Tail(seq)
  OBVIOUS
<1>. DEFINE first == <<Head(seq)>>
            others == Tail(seq)
<1>2. \A b : Runs(R, a, first, b) <=> <<a, Head(seq), b>> \in R
  BY RunsOne
<1>. HIDE DEF first, others
<1>3. first \in Seq(S) /\ others \in Seq(S) /\ seq = first \o others
  BY <1>1 DEF first, others
<1>4. Runs(R, a, seq, c) => \E b : Runs(R, a, first, b) /\ Runs(R, b, others, c)
  BY <1>3, RunsSplit
<1>5. ASSUME NEW b, Runs(R, a, first, b), Runs(R, b, others, c)
      PROVE  Runs(R, a, seq, c)
  BY <1>3, <1>5, RunsJoin
<1>. QED
  BY <1>2, <1>4, <1>5 DEF others

-----------------------------------------------------------------------------
(* Reading. *)

Blank == [blocks |-> << >>, matched |-> TRUE, made |-> {}]
Blocks == [header : BOOLEAN, captured : SUBSET Nat]
ReadStates ==
  [blocks : Seq(Blocks), matched : BOOLEAN,
   made : SUBSET (Nat \X {"fresh", "stale", "unseen"})]

\* A block is read, or ends.
LEMMA ReadsStates ==
  ASSUME NEW r \in ReadStates, NEW p \in Pieces
  PROVE  Read(r, p) \in ReadStates
<1>. DEFINE blocks == r.blocks
<1>1. blocks \in Seq(Blocks) /\ p.of \in Nat
  BY DEF ReadStates, Pieces
<1>2. CASE p.is = "open"
  <2>1. Append(blocks, Block(FALSE)) \in Seq(Blocks)
    <3>1. Block(FALSE) \in Blocks
      BY DEF Block, Blocks
    <3>. HIDE DEF blocks
    <3>. QED
      BY <1>1, <3>1, Appended
  <2>2. Read(r, p) = [r EXCEPT !.blocks = Append(blocks, Block(FALSE))]
    BY <1>2 DEF Read
  <2>. HIDE DEF blocks
  <2>. QED
    BY <2>1, <2>2 DEF ReadStates
<1>3. CASE p.is = "repeating"
  <2>1. Append(blocks, Block(TRUE)) \in Seq(Blocks)
    <3>1. Block(TRUE) \in Blocks
      BY DEF Block, Blocks
    <3>. HIDE DEF blocks
    <3>. QED
      BY <1>1, <3>1, Appended
  <2>2. Read(r, p) = [r EXCEPT !.blocks = Append(blocks, Block(TRUE))]
    BY <1>3 DEF Read
  <2>. HIDE DEF blocks
  <2>. QED
    BY <2>1, <2>2 DEF ReadStates
<1>4. CASE p.is = "close"
  <2>1. CASE blocks = << >>
    <3>1. Read(r, p) = [r EXCEPT !.matched = FALSE]
      BY <1>4, <2>1 DEF Read
    <3>. QED
      BY <3>1 DEF ReadStates
  <2>2. CASE blocks # << >>
    <3>1. Read(r, p) = [r EXCEPT !.blocks = Closed(blocks)]
      BY <1>4, <2>2 DEF Read
    <3>2. Closed(blocks) \in Seq(Blocks)
      <4>. HIDE DEF blocks
      <4>1. Len(blocks) >= 1
        BY <1>1, <2>2
      <4>2. Front(blocks) \in Seq(Blocks)
        BY <1>1, <4>1, Taken
      <4>3. Front(blocks) # << >> => Front(Front(blocks)) \in Seq(Blocks)
        <5>1. Front(blocks) # << >> => Len(Front(blocks)) >= 1
          BY <4>2
        <5>. QED
          BY <4>2, <5>1, Taken
      <4>. QED
        BY <4>2, <4>3 DEF Closed
    <3>. HIDE DEF blocks
    <3>. QED
      BY <3>1, <3>2 DEF ReadStates
  <2>. QED
    BY <2>1, <2>2
<1>5. CASE p.is = "capture" /\ blocks # << >>
  <2>1. Read(r, p) = [r EXCEPT !.blocks[Len(blocks)].captured = @ \cup {p.of}]
    BY <1>5 DEF Read
  <2>2. r.blocks[Len(blocks)] \in Blocks /\ Len(blocks) \in 1 .. Len(blocks)
    BY <1>1, <1>5
  <2>. DEFINE b == [r.blocks[Len(blocks)] EXCEPT !.captured = @ \cup {p.of}]
              bs == [blocks EXCEPT ![Len(blocks)] = b]
  <2>3. b \in Blocks
    BY <1>1, <2>2 DEF Blocks
  <2>4. bs \in Seq(Blocks)
    <3>. HIDE DEF b, blocks
    <3>. QED
      BY <1>1, <2>2, <2>3, Replaced
  <2>5. Read(r, p) = [r EXCEPT !.blocks = bs]
    BY <2>1
  <2>. HIDE DEF bs
  <2>. QED
    BY <2>4, <2>5 DEF ReadStates
<1>6. CASE p.is = "make"
  <2>1. Read(r, p) = [r EXCEPT !.made = @ \cup {<<p.of, Seen(blocks, p.of)>>}]
    BY <1>6 DEF Read
  <2>2. Seen(blocks, p.of) \in {"fresh", "stale", "unseen"}
    BY DEF Seen
  <2>. DEFINE pair == <<p.of, Seen(blocks, p.of)>>
  <2>3. pair \in Nat \X {"fresh", "stale", "unseen"}
    BY <1>1, <2>2
  <2>. HIDE DEF pair
  <2>4. Read(r, p) = [r EXCEPT !.made = @ \cup {pair}]
    BY <2>1 DEF pair
  <2>. QED
    BY <2>3, <2>4 DEF ReadStates
<1>7. CASE p.is = "call" \/ (p.is = "capture" /\ blocks = << >>)
  BY <1>7 DEF Read
<1>. QED
  BY <1>2, <1>3, <1>4, <1>5, <1>6, <1>7 DEF Pieces

\* The function that Reading builds, on a beginning of the text.
ReadingUpTo(f, text, n) ==
  f = [i \in 0 .. n |-> IF i = 0 THEN Blank ELSE Read(f[i - 1], text[i])]

\* There is one, for every beginning.
LEMMA ReadingExists ==
  ASSUME NEW text
  PROVE  \A n \in Nat : \E f : ReadingUpTo(f, text, n)
<1>. DEFINE P == {n \in Nat : \E f : ReadingUpTo(f, text, n)}
<1>1. 0 \in P
  <2>. DEFINE f == [i \in 0 .. 0 |-> Blank]
  <2>1. ReadingUpTo(f, text, 0)
    BY DEF ReadingUpTo
  <2>. QED
    BY <2>1
<1>2. ASSUME NEW n \in Nat, n \in P
      PROVE  n + 1 \in P
  <2>1. PICK f : ReadingUpTo(f, text, n)
    BY <1>2
  <2>. DEFINE g == [i \in 0 .. n + 1 |-> IF i = 0 THEN Blank ELSE Read(f[i - 1], text[i])]
  <2>2. \A i \in 0 .. n : g[i] = f[i]
    <3>. TAKE i \in 0 .. n
    <3>1. f[i] = IF i = 0 THEN Blank ELSE Read(f[i - 1], text[i])
      BY <2>1, Zenon DEF ReadingUpTo
    <3>2. i \in 0 .. n + 1
      OBVIOUS
    <3>. QED
      BY <3>1, <3>2, Zenon
  <2>3. \A i \in 0 .. n + 1 : g[i] = IF i = 0 THEN Blank ELSE Read(g[i - 1], text[i])
    <3>. TAKE i \in 0 .. n + 1
    <3>1. CASE i = 0
      BY <3>1
    <3>2. CASE i # 0
      <4>1. i - 1 \in 0 .. n
        BY <3>2
      <4>2. g[i - 1] = f[i - 1]
        BY <4>1, <2>2
      <4>. QED
        BY <3>2, <4>2
    <3>. QED
      BY <3>1, <3>2
  <2>4. g = [i \in 0 .. n + 1 |-> g[i]]
    OBVIOUS
  <2>. HIDE DEF g
  <2>5. ReadingUpTo(g, text, n + 1)
    BY <2>3, <2>4 DEF ReadingUpTo
  <2>. QED
    BY <2>5
<1>3. \A n \in Nat : n \in P
  <2>. HIDE DEF P
  <2>. QED
    BY <1>1, <1>2, Induction
<1>. QED
  BY <1>3

\* What Reading returns.
LEMMA ReadingIs ==
  ASSUME NEW text \in Seq(Pieces)
  PROVE  \E f : /\ f[0] = Blank /\ Reading(text) = f[Len(text)]
                /\ \A i \in 1 .. Len(text) : f[i] = Read(f[i - 1], text[i])
<1>. DEFINE n == Len(text)
            f == CHOOSE f : f = [i \in 0 .. n |-> IF i = 0 THEN Blank ELSE Read(f[i - 1], text[i])]
<1>0. n \in Nat
  OBVIOUS
<1>1. \E g : g = [i \in 0 .. n |-> IF i = 0 THEN Blank ELSE Read(g[i - 1], text[i])]
  <2>1. \E g : ReadingUpTo(g, text, n)
    BY <1>0, ReadingExists
  <2>. QED
    BY <2>1, Zenon DEF ReadingUpTo
<1>2. f = [i \in 0 .. n |-> IF i = 0 THEN Blank ELSE Read(f[i - 1], text[i])]
  BY <1>1
<1>3. Reading(text) = f[n]
  BY DEF Reading, Blank
<1>. HIDE DEF f, n
<1>4. \A i \in 0 .. n : f[i] = IF i = 0 THEN Blank ELSE Read(f[i - 1], text[i])
  BY <1>2, Zenon
<1>5. f[0] = Blank
  BY <1>0, <1>4
<1>6. \A i \in 1 .. n : f[i] = Read(f[i - 1], text[i])
  <2>1. \A i \in 1 .. n : i \in 0 .. n /\ i # 0
    BY <1>0
  <2>. QED
    BY <1>4, <2>1
<1>. QED
  BY <1>3, <1>5, <1>6 DEF n

-----------------------------------------------------------------------------
(* The shape of a text. *)

\* How many blocks are open, whether the header of a loop is, and whether every
\* "}" had a block.
Shapes == [deep : Nat, header : BOOLEAN, matched : BOOLEAN]
Flat == [deep |-> 0, header |-> FALSE, matched |-> TRUE]
Shapens(s, p, t) ==
  \/ p.is = "open" /\ t = [s EXCEPT !.deep = @ + 1, !.header = FALSE]
  \/ p.is = "repeating" /\ ~s.header /\ t = [s EXCEPT !.header = TRUE]
  \/ p.is = "close" /\ ~s.header /\ s.deep = 0 /\ t = [s EXCEPT !.matched = FALSE]
  \/ p.is = "close" /\ ~s.header /\ s.deep # 0 /\ t = [s EXCEPT !.deep = @ - 1]
  \/ p.is \in {"capture", "make", "call"} /\ t = s
Shaping == {x \in Shapes \X Pieces \X Shapes : Shapens(x[1], x[2], x[3])}

\* The blocks of a text have that shape.
Plain(bs) == {i \in 1 .. Len(bs) : ~bs[i].header}
Isolated(bs) == \A i \in 1 .. Len(bs) : \A j \in 1 .. Len(bs) :
                  j = i + 1 => ~(bs[i].header /\ bs[j].header)
Ends(bs) == bs # << >> /\ bs[Len(bs)].header
Formed(bs, deep, header) ==
  /\ bs \in Seq(Blocks) /\ Isolated(bs)
  /\ IsFiniteSet(Plain(bs)) /\ Cardinality(Plain(bs)) = deep
  /\ header = Ends(bs)

\* A block or a header is put to the blocks.
LEMMA BlockIsPut ==
  ASSUME NEW bs, NEW deep \in Nat, NEW header \in BOOLEAN, Formed(bs, deep, header)
  PROVE  /\ Formed(Append(bs, Block(FALSE)), deep + 1, FALSE)
         /\ ~header => Formed(Append(bs, Block(TRUE)), deep, TRUE)
<1>. DEFINE n == Len(bs)
<1>1. bs \in Seq(Blocks) /\ n \in Nat
  BY DEF Formed
<1>2. ASSUME NEW b \in Blocks
      PROVE  /\ Append(bs, b) \in Seq(Blocks) /\ Len(Append(bs, b)) = n + 1
             /\ \A i \in 1 .. n : Append(bs, b)[i] = bs[i]
             /\ Append(bs, b)[n + 1] = b
  BY <1>1, Appended
<1>3. /\ Block(FALSE) \in Blocks /\ Block(FALSE).header = FALSE
      /\ Block(TRUE) \in Blocks /\ Block(TRUE).header = TRUE
  BY DEF Block, Blocks
<1>4. ASSUME NEW b \in Blocks, ~(header /\ b.header)
      PROVE  Isolated(Append(bs, b)) /\ Ends(Append(bs, b)) = b.header
  <2>. DEFINE cs == Append(bs, b)
  <2>1. cs \in Seq(Blocks) /\ Len(cs) = n + 1 /\ cs[n + 1] = b /\ \A i \in 1 .. n : cs[i] = bs[i]
    BY <1>2
  <2>. HIDE DEF cs
  <2>2. Ends(cs) = b.header
    <3>1. cs # << >>
      BY <1>1, <2>1
    <3>2. b.header \in BOOLEAN
      BY DEF Blocks
    <3>. QED
      BY <2>1, <3>1, <3>2 DEF Ends
  <2>3. ASSUME NEW i \in 1 .. n + 1, NEW j \in 1 .. n + 1, j = i + 1
        PROVE  ~(cs[i].header /\ cs[j].header)
    <3>1. i \in 1 .. n
      BY <1>1, <2>3
    <3>2. CASE j \in 1 .. n
      BY <2>1, <2>3, <3>1, <3>2 DEF Formed, Isolated
    <3>3. CASE j = n + 1
      <4>1. i = n /\ bs # << >>
        BY <1>1, <2>3, <3>1, <3>3
      <4>2. bs[n].header = header
        <5>1. bs[n].header \in BOOLEAN
          <6>1. bs[n] \in Blocks
            BY <1>1, <3>1, <4>1
          <6>. QED
            BY <6>1 DEF Blocks
        <5>. QED
          BY <4>1, <5>1 DEF Formed, Ends
      <4>3. cs[i] = bs[n] /\ cs[j] = b
        BY <2>1, <3>1, <3>3, <4>1
      <4>. QED
        BY <1>4, <4>2, <4>3
    <3>. QED
      BY <1>1, <3>2, <3>3
  <2>. QED
    BY <2>1, <2>2, <2>3 DEF Isolated, cs
<1>5. Plain(Append(bs, Block(FALSE))) = Plain(bs) \cup {n + 1}
  <2>. DEFINE cs == Append(bs, Block(FALSE))
  <2>1. Len(cs) = n + 1 /\ ~cs[n + 1].header /\ \A i \in 1 .. n : cs[i] = bs[i]
    BY <1>2, <1>3
  <2>. HIDE DEF cs
  <2>2. Plain(cs) = Plain(bs) \cup {n + 1}
    BY <1>1, <2>1 DEF Plain
  <2>. QED
    BY <2>2 DEF cs
<1>6. Plain(Append(bs, Block(TRUE))) = Plain(bs)
  <2>. DEFINE cs == Append(bs, Block(TRUE))
  <2>1. Len(cs) = n + 1 /\ cs[n + 1].header /\ \A i \in 1 .. n : cs[i] = bs[i]
    BY <1>2, <1>3
  <2>. HIDE DEF cs
  <2>2. Plain(cs) = Plain(bs)
    BY <1>1, <2>1 DEF Plain
  <2>. QED
    BY <2>2 DEF cs
<1>7. n + 1 \notin Plain(bs)
  BY <1>1 DEF Plain
<1>8. IsFiniteSet(Plain(bs) \cup {n + 1}) /\ Cardinality(Plain(bs) \cup {n + 1}) = deep + 1
  <2>. DEFINE P == Plain(bs)
  <2>1. IsFiniteSet(P) /\ Cardinality(P) = deep /\ n + 1 \notin P
    BY <1>7 DEF Formed
  <2>. HIDE DEF P, n
  <2>2. /\ IsFiniteSet(P \cup {n + 1})
        /\ Cardinality(P \cup {n + 1}) = IF n + 1 \in P THEN Cardinality(P) ELSE Cardinality(P) + 1
    BY <2>1, FS_AddElement
  <2>. QED
    BY <2>1, <2>2 DEF P
<1>9. Formed(Append(bs, Block(FALSE)), deep + 1, FALSE)
  <2>. DEFINE cs == Append(bs, Block(FALSE))
  <2>1. /\ cs \in Seq(Blocks) /\ Isolated(cs) /\ FALSE = Ends(cs)
        /\ Plain(cs) = Plain(bs) \cup {n + 1}
    BY <1>2, <1>3, <1>4, <1>5
  <2>. HIDE DEF cs
  <2>2. Formed(cs, deep + 1, FALSE)
    BY <1>8, <2>1 DEF Formed
  <2>. QED
    BY <2>2 DEF cs
<1>10. ~header => Formed(Append(bs, Block(TRUE)), deep, TRUE)
  BY <1>2, <1>3, <1>4, <1>6 DEF Formed
<1>. QED
  BY <1>9, <1>10

\* The last block is taken.
LEMMA BlockIsTaken ==
  ASSUME NEW bs \in Seq(Blocks), Isolated(bs), IsFiniteSet(Plain(bs)), bs # << >>
  PROVE  LET cs == Front(bs) IN
         /\ cs \in Seq(Blocks) /\ Isolated(cs) /\ IsFiniteSet(Plain(cs))
         /\ Ends(bs) => Cardinality(Plain(cs)) = Cardinality(Plain(bs)) /\ ~Ends(cs)
         /\ ~Ends(bs) => /\ Cardinality(Plain(bs)) \in Nat \ {0}
                         /\ Cardinality(Plain(cs)) = Cardinality(Plain(bs)) - 1
<1>. DEFINE n == Len(bs)
            cs == Front(bs)
<1>1. n \in Nat /\ n >= 1
  OBVIOUS
<1>2. cs \in Seq(Blocks) /\ Len(cs) = n - 1 /\ \A i \in 1 .. n - 1 : cs[i] = bs[i]
  BY <1>1, Taken
<1>. HIDE DEF cs
<1>3. Isolated(cs)
  <2>1. \A i \in 1 .. n - 1 : i \in 1 .. n
    BY <1>1
  <2>. QED
    BY <1>2, <2>1 DEF Isolated
<1>4. Plain(cs) = Plain(bs) \ {n}
  <2>1. ASSUME NEW i
        PROVE  i \in Plain(cs) <=> i \in Plain(bs) \ {n}
    <3>1. i \in 1 .. n - 1 <=> i \in 1 .. n /\ i # n
      BY <1>1
    <3>. QED
      BY <1>2, <3>1 DEF Plain
  <2>. QED
    BY <2>1
<1>5. n \in Plain(bs) <=> ~Ends(bs)
  BY <1>1 DEF Plain, Ends
<1>. DEFINE P == Plain(bs)
<1>6. /\ IsFiniteSet(P \ {n}) /\ Cardinality(P) \in Nat
      /\ Cardinality(P \ {n}) = IF n \in P THEN Cardinality(P) - 1 ELSE Cardinality(P)
  <2>1. IsFiniteSet(P)
    OBVIOUS
  <2>. HIDE DEF P
  <2>. QED
    BY <2>1, FS_RemoveElement, FS_CardinalityType
<1>7. n \in P => Cardinality(P) # 0
  <2>1. IsFiniteSet(P)
    OBVIOUS
  <2>. HIDE DEF P
  <2>. QED
    BY <2>1, FS_EmptySet
<1>8. Ends(bs) => ~Ends(cs)
  <2>1. SUFFICES ASSUME Ends(bs), Ends(cs)
                 PROVE  FALSE
    OBVIOUS
  <2>2. n - 1 \in 1 .. n /\ n \in 1 .. n /\ n = (n - 1) + 1 /\ n - 1 \in 1 .. n - 1
    BY <1>1, <1>2, <2>1 DEF Ends
  <2>3. bs[n].header /\ bs[n - 1].header
    BY <1>2, <2>1, <2>2 DEF Ends
  <2>. QED
    BY <2>2, <2>3 DEF Isolated
<1>. HIDE DEF n
<1>. QED
  BY <1>2, <1>3, <1>4, <1>5, <1>6, <1>7, <1>8 DEF cs

\* A block ends, with the header before it.
LEMMA BlockIsClosed ==
  ASSUME NEW bs, NEW deep \in Nat, Formed(bs, deep, FALSE)
  PROVE  /\ deep = 0 <=> bs = << >>
         /\ deep # 0 => Formed(Closed(bs), deep - 1, FALSE)
<1>1. bs \in Seq(Blocks) /\ Isolated(bs) /\ IsFiniteSet(Plain(bs)) /\ ~Ends(bs)
      /\ Cardinality(Plain(bs)) = deep
  BY DEF Formed
<1>2. bs = << >> => deep = 0
  <2>1. bs = << >> => Plain(bs) = {}
    BY DEF Plain
  <2>. QED
    BY <1>1, <2>1, FS_EmptySet
<1>. DEFINE cs == Front(bs)
            es == Front(cs)
<1>3. ASSUME bs # << >>
      PROVE  /\ cs \in Seq(Blocks) /\ Isolated(cs) /\ IsFiniteSet(Plain(cs))
             /\ deep # 0 /\ Cardinality(Plain(cs)) = deep - 1
  BY <1>1, <1>3, BlockIsTaken
<1>4. ASSUME bs # << >>, Ends(cs)
      PROVE  Closed(bs) = es /\ Formed(es, deep - 1, FALSE)
  <2>1. cs # << >>
    BY <1>4 DEF Ends
  <2>2. Closed(bs) = es
    BY <1>4, <2>1 DEF Closed, Ends, Top
  <2>3. /\ cs \in Seq(Blocks) /\ Isolated(cs) /\ IsFiniteSet(Plain(cs))
        /\ Cardinality(Plain(cs)) = deep - 1
    BY <1>3, <1>4
  <2>. HIDE DEF cs
  <2>4. /\ es \in Seq(Blocks) /\ Isolated(es) /\ IsFiniteSet(Plain(es))
        /\ Cardinality(Plain(es)) = Cardinality(Plain(cs)) /\ ~Ends(es)
    BY <1>4, <2>1, <2>3, BlockIsTaken
  <2>5. FALSE = Ends(es)
    BY <2>4 DEF Ends
  <2>. QED
    BY <2>2, <2>3, <2>4, <2>5 DEF Formed
<1>5. ASSUME bs # << >>, ~Ends(cs)
      PROVE  Closed(bs) = cs /\ Formed(cs, deep - 1, FALSE)
  <2>1. Closed(bs) = cs
    BY <1>5 DEF Closed, Ends, Top
  <2>2. FALSE = Ends(cs)
    BY <1>5 DEF Ends
  <2>. QED
    BY <1>3, <1>5, <2>1, <2>2 DEF Formed
<1>. HIDE DEF cs, es
<1>. QED
  BY <1>2, <1>3, <1>4, <1>5

\* The last block is replaced by one that is a header if it was.
LEMMA BlockIsReplaced ==
  ASSUME NEW bs \in Seq(Blocks), bs # << >>, NEW b \in Blocks,
         b.header = bs[Len(bs)].header,
         NEW deep \in Nat, NEW header \in BOOLEAN, Formed(bs, deep, header)
  PROVE  Formed([bs EXCEPT ![Len(bs)] = b], deep, header)
<1>. DEFINE n == Len(bs)
            cs == [bs EXCEPT ![n] = b]
<1>1. n \in Nat /\ n \in 1 .. n
  OBVIOUS
<1>2. /\ cs \in Seq(Blocks) /\ Len(cs) = n
      /\ \A i \in 1 .. n : cs[i] = IF i = n THEN b ELSE bs[i]
  BY <1>1, Replaced
<1>3. b.header = bs[n].header
  OBVIOUS
<1>. HIDE DEF cs
<1>4. \A i \in 1 .. n : cs[i].header = bs[i].header
  BY <1>2, <1>3
<1>5. Plain(cs) = Plain(bs)
  BY <1>2, <1>4 DEF Plain
<1>6. Isolated(cs) <=> Isolated(bs)
  BY <1>2, <1>4 DEF Isolated
<1>7. cs # << >>
  BY <1>1, <1>2
<1>8. cs[Len(cs)].header = bs[n].header
  BY <1>1, <1>2, <1>4
<1>9. Ends(cs) = Ends(bs)
  BY <1>7, <1>8 DEF Ends
<1>10. Formed(cs, deep, header)
  BY <1>2, <1>5, <1>6, <1>9 DEF Formed
<1>. QED
  BY <1>10 DEF cs

\* A text is read in a state of its shape.
Depicts(r, s) ==
  r \in ReadStates /\ r.matched = s.matched /\ Formed(r.blocks, s.deep, s.header)

\* A piece changes the state as it changes the shape.
LEMMA ReadKeepsShape ==
  ASSUME NEW r, NEW s, NEW p, NEW t, Depicts(r, s), <<s, p, t>> \in Shaping
  PROVE  Depicts(Read(r, p), t)
<1>1. s \in Shapes /\ p \in Pieces /\ t \in Shapes /\ Shapens(s, p, t)
  BY DEF Shaping
<1>2. r \in ReadStates /\ Read(r, p) \in ReadStates /\ r.matched = s.matched
  BY <1>1, ReadsStates DEF Depicts
<1>3. /\ Formed(r.blocks, s.deep, s.header) /\ s.deep \in Nat /\ s.header \in BOOLEAN
  BY <1>1 DEF Depicts, Shapes
<1>4. CASE p.is = "open"
  <2>1. t.deep = s.deep + 1 /\ t.header = FALSE /\ t.matched = s.matched
    BY <1>1, <1>4 DEF Shapens, Shapes
  <2>2. Read(r, p).blocks = Append(r.blocks, Block(FALSE)) /\ Read(r, p).matched = r.matched
    BY <1>2, <1>4 DEF Read, ReadStates
  <2>3. Formed(Append(r.blocks, Block(FALSE)), s.deep + 1, FALSE)
    BY <1>3, BlockIsPut
  <2>. QED
    BY <1>2, <2>1, <2>2, <2>3 DEF Depicts
<1>5. CASE p.is = "repeating"
  <2>1. t.deep = s.deep /\ t.header = TRUE /\ t.matched = s.matched /\ ~s.header
    BY <1>1, <1>5 DEF Shapens, Shapes
  <2>2. Read(r, p).blocks = Append(r.blocks, Block(TRUE)) /\ Read(r, p).matched = r.matched
    BY <1>2, <1>5 DEF Read, ReadStates
  <2>3. Formed(Append(r.blocks, Block(TRUE)), s.deep, TRUE)
    BY <1>3, <2>1, BlockIsPut
  <2>. QED
    BY <1>2, <2>1, <2>2, <2>3 DEF Depicts
<1>6. CASE p.is = "close"
  <2>1. /\ ~s.header
        /\ s.deep = 0 => t.deep = 0 /\ t.header = s.header /\ t.matched = FALSE
        /\ s.deep # 0 => t.deep = s.deep - 1 /\ t.header = s.header /\ t.matched = s.matched
    BY <1>1, <1>6 DEF Shapens, Shapes
  <2>2. s.header = FALSE
    BY <1>3, <2>1
  <2>3. /\ s.deep = 0 <=> r.blocks = << >>
        /\ s.deep # 0 => Formed(Closed(r.blocks), s.deep - 1, FALSE)
    BY <1>3, <2>2, BlockIsClosed
  <2>4. r.blocks = << >> => Read(r, p).blocks = r.blocks /\ Read(r, p).matched = FALSE
    BY <1>2, <1>6 DEF Read, ReadStates
  <2>5. r.blocks # << >> => Read(r, p).blocks = Closed(r.blocks) /\ Read(r, p).matched = r.matched
    BY <1>2, <1>6 DEF Read, ReadStates
  <2>6. CASE s.deep = 0
    BY <1>2, <1>3, <2>1, <2>2, <2>3, <2>4, <2>6 DEF Depicts
  <2>7. CASE s.deep # 0
    BY <1>2, <2>1, <2>2, <2>3, <2>5, <2>7 DEF Depicts
  <2>. QED
    BY <2>6, <2>7
<1>7. CASE p.is \in {"capture", "make", "call"}
  <2>1. t = s
    BY <1>1, <1>7 DEF Shapens
  <2>2. CASE p.is = "capture" /\ r.blocks # << >>
    <3>. DEFINE n == Len(r.blocks)
                b == [r.blocks[n] EXCEPT !.captured = @ \cup {p.of}]
                bs == [r.blocks EXCEPT ![n] = b]
    <3>1. Read(r, p).blocks = bs /\ Read(r, p).matched = r.matched
      BY <1>2, <2>2 DEF Read, ReadStates
    <3>2. r.blocks \in Seq(Blocks) /\ n \in 1 .. n
      BY <1>2, <2>2 DEF ReadStates
    <3>3. r.blocks[n] \in Blocks /\ p.of \in Nat
      BY <1>1, <3>2 DEF Pieces
    <3>4. b \in Blocks /\ b.header = r.blocks[n].header
      BY <3>3 DEF Blocks
    <3>. HIDE DEF b
    <3>5. Formed([r.blocks EXCEPT ![n] = b], s.deep, s.header)
      BY <1>3, <2>2, <3>2, <3>4, BlockIsReplaced
    <3>. HIDE DEF n
    <3>. QED
      BY <1>2, <2>1, <3>1, <3>5 DEF Depicts
  <2>3. CASE ~(p.is = "capture" /\ r.blocks # << >>)
    <3>1. Read(r, p).blocks = r.blocks /\ Read(r, p).matched = r.matched
      BY <1>2, <1>7, <2>3 DEF Read, ReadStates
    <3>. QED
      BY <1>2, <1>3, <2>1, <3>1 DEF Depicts
  <2>. QED
    BY <2>2, <2>3
<1>. QED
  BY <1>1, <1>4, <1>5, <1>6, <1>7 DEF Pieces

\* The state that a text is read in has the shape that its pieces lead to.
LEMMA ReadingHasShape ==
  ASSUME NEW text \in Seq(Pieces), NEW s, Runs(Shaping, Flat, text, s)
  PROVE  Depicts(Reading(text), s)
<1>. DEFINE n == Len(text)
<1>1. n \in Nat
  OBVIOUS
<1>2. PICK f : /\ f[0] = Blank /\ Reading(text) = f[n]
               /\ \A i \in 1 .. n : f[i] = Read(f[i - 1], text[i])
  BY ReadingIs
<1>3. PICK g : /\ g[0] = Flat /\ g[n] = s
               /\ \A i \in 1 .. n : <<g[i - 1], text[i], g[i]>> \in Shaping
  BY DEF Runs
<1>. HIDE DEF n
<1>. DEFINE P == {i \in Nat : i <= n => Depicts(f[i], g[i])}
<1>4. 0 \in P
  <2>1. Depicts(Blank, Flat)
    <3>1. Plain(<< >>) = {} /\ Isolated(<< >>) /\ << >> \in Seq(Blocks)
      BY DEF Plain, Isolated
    <3>2. Ends(<< >>) = FALSE
      BY DEF Ends
    <3>3. Formed(<< >>, 0, FALSE)
      BY <3>1, <3>2, FS_EmptySet DEF Formed
    <3>4. /\ Blank \in ReadStates /\ Blank.blocks = << >> /\ Blank.matched = TRUE
          /\ Flat.deep = 0 /\ Flat.header = FALSE /\ Flat.matched = TRUE
      BY <3>1 DEF Blank, Flat, ReadStates
    <3>. QED
      BY <3>3, <3>4 DEF Depicts
  <2>. QED
    BY <1>2, <1>3, <2>1
<1>5. ASSUME NEW i \in Nat, i \in P
      PROVE  i + 1 \in P
  <2>1. SUFFICES ASSUME i + 1 <= n
                 PROVE  Depicts(f[i + 1], g[i + 1])
    OBVIOUS
  <2>. DEFINE j == i + 1
  <2>2. j \in 1 .. n /\ j - 1 = i
    BY <1>1, <2>1
  <2>3. Depicts(f[i], g[i])
    BY <1>1, <1>5, <2>1
  <2>4. f[j] = Read(f[i], text[j]) /\ <<g[i], text[j], g[j]>> \in Shaping
    <3>1. f[j] = Read(f[j - 1], text[j]) /\ <<g[j - 1], text[j], g[j]>> \in Shaping
      BY <1>2, <1>3, <2>2
    <3>. QED
      BY <2>2, <3>1
  <2>. HIDE DEF j
  <2>5. Depicts(f[j], g[j])
    BY <2>3, <2>4, ReadKeepsShape
  <2>. QED
    BY <2>5 DEF j
<1>6. \A i \in Nat : i \in P
  <2>. HIDE DEF P
  <2>. QED
    BY <1>4, <1>5, Induction
<1>. QED
  BY <1>1, <1>2, <1>3, <1>6

-----------------------------------------------------------------------------
(* What the steps of a script owe. *)

\* The blocks to be closed and the levels to be left, whether the header of a
\* loop has no block yet, and whether a line is begun.
States == [closes : Nat, outdents : Nat, header : BOOLEAN, begun : BOOLEAN]
Zero == [closes |-> 0, outdents |-> 0, header |-> FALSE, begun |-> FALSE]

\* What the text of a step does.
Owes(a, text, b) ==
  \/ text = Text /\ b.closes = a.closes /\ b.header = a.header
  \/ text = Open /\ b.closes = a.closes + 1 /\ b.header = FALSE
  \/ text = Close /\ a.header = FALSE /\ a.closes = b.closes + 1 /\ b.header = FALSE
  \/ text = Repeating /\ a.header = FALSE /\ b.closes = a.closes /\ b.header = TRUE
  \/ text = Close \o Open /\ a.header = FALSE /\ a.closes # 0 /\ b.closes = a.closes
       /\ b.header = FALSE

Takes(a, step, b) ==
  \/ /\ step.do = "print" /\ Owes(a, step.text, b)
     /\ b.outdents = a.outdents /\ b.begun = TRUE
  \/ /\ step.do = "printLine" /\ Owes(a, step.text, b)
     /\ b.outdents = a.outdents /\ b.begun = FALSE
  \/ /\ step.do = "printLineAndIndent" /\ Owes(a, step.text, b)
     /\ b.outdents = a.outdents + 1 /\ b.begun = FALSE
  \/ /\ step.do = "outdentAndPrintLine" /\ Owes(a, step.text, b)
     /\ a.outdents = b.outdents + 1 /\ b.begun = FALSE
  \/ /\ step.do = "increaseIndentation" /\ b.closes = a.closes /\ b.header = a.header
     /\ b.outdents = a.outdents + 1 /\ b.begun = a.begun
  \/ /\ step.do = "decreaseIndentation" /\ b.closes = a.closes /\ b.header = a.header
     /\ a.outdents = b.outdents + 1 /\ b.begun = a.begun
  \/ step.do = "accept" /\ b = [a EXCEPT !.begun = TRUE]
  \/ step.do = "visitChildren" /\ ~a.header /\ ~a.begun /\ b = a
Taking == {x \in States \X Steps \X States : Takes(x[1], x[2], x[3])}

\* A source has the text and the level of one that owes t; whole tells whether
\* its blocks are as many as it owes.
All(s) == s.lines \o s.stream
Follows(s, t, whole) ==
  /\ s \in Sources /\ s.level = t.outdents /\ (~t.begun => s.stream = << >>)
  /\ \E r \in Shapes :
       /\ Runs(Shaping, Flat, All(s), r) /\ r.header = t.header /\ r.deep <= t.closes
       /\ whole <=> r.matched /\ r.deep = t.closes

\* What two visits owe.
Sum(t, a) ==
  [closes |-> t.closes + a.closes, outdents |-> t.outdents + a.outdents,
   header |-> a.header, begun |-> a.begun]

\* Shapes lead to shapes.
LEMMA ShapesFollow ==
  ASSUME NEW text \in Seq(Pieces), NEW s \in Shapes, NEW q, Runs(Shaping, s, text, q)
  PROVE  q \in Shapes
<1>. DEFINE n == Len(text)
<1>0. n \in Nat
  OBVIOUS
<1>1. PICK f : /\ f[0] = s /\ f[n] = q
               /\ \A i \in 1 .. n : <<f[i - 1], text[i], f[i]>> \in Shaping
  BY DEF Runs
<1>. HIDE DEF n
<1>2. CASE n = 0
  BY <1>1, <1>2
<1>3. CASE n # 0
  <2>1. n \in 1 .. n
    BY <1>0, <1>3
  <2>2. <<f[n - 1], text[n], f[n]>> \in Shaping
    BY <1>1, <2>1
  <2>. QED
    BY <1>1, <2>2 DEF Shaping
<1>. QED
  BY <1>2, <1>3

\* A text changes the shape as it changes what is owed.
LEMMA OwedShapes ==
  ASSUME NEW k \in Nat, NEW a \in States, NEW b \in States, NEW text, Owes(a, text, b),
         NEW r \in Shapes, r.header = a.header, r.deep <= k + a.closes
  PROVE  \E q \in Shapes :
           /\ Runs(Shaping, r, text, q) /\ q.header = b.header /\ q.deep <= k + b.closes
           /\ q.matched /\ q.deep = k + b.closes <=> r.matched /\ r.deep = k + a.closes
<1>1. ASSUME NEW s \in Shapes
      PROVE  LET q == [s EXCEPT !.deep = @ + 1, !.header = FALSE] IN
             q \in Shapes /\ Runs(Shaping, s, Open, q)
  <2>. DEFINE q == [s EXCEPT !.deep = @ + 1, !.header = FALSE]
              p == Piece("open", 0)
  <2>1. q \in Shapes
    <3>1. s.deep \in Nat /\ s.deep + 1 \in Nat
      BY DEF Shapes
    <3>. QED
      BY <3>1 DEF Shapes
  <2>2. p \in Pieces /\ p.is = "open"
    BY DEF Piece, Pieces
  <2>3. <<s, p, q>> \in Shaping
    BY <2>1, <2>2 DEF Shaping, Shapens
  <2>. HIDE DEF p, q
  <2>4. Runs(Shaping, s, <<p>>, q)
    BY <2>3, RunsOne
  <2>. QED
    BY <2>1, <2>4 DEF p, q, Open
<1>2. ASSUME NEW s \in Shapes, s.header = FALSE
      PROVE  LET q == [s EXCEPT !.header = TRUE] IN
             q \in Shapes /\ Runs(Shaping, s, Repeating, q)
  <2>. DEFINE q == [s EXCEPT !.header = TRUE]
              p == Piece("repeating", 0)
  <2>1. q \in Shapes
    BY DEF Shapes
  <2>2. p \in Pieces /\ p.is = "repeating"
    BY DEF Piece, Pieces
  <2>3. <<s, p, q>> \in Shaping
    BY <1>2, <2>1, <2>2 DEF Shaping, Shapens
  <2>. HIDE DEF p, q
  <2>4. Runs(Shaping, s, <<p>>, q)
    BY <2>3, RunsOne
  <2>. QED
    BY <2>1, <2>4 DEF p, q, Repeating
<1>3. ASSUME NEW s \in Shapes, s.header = FALSE
      PROVE  \E q \in Shapes :
               /\ Runs(Shaping, s, Close, q) /\ q.header = FALSE
               /\ s.deep = 0 => q.deep = 0 /\ q.matched = FALSE
               /\ s.deep # 0 => q.deep = s.deep - 1 /\ q.matched = s.matched
  <2>. DEFINE q == IF s.deep = 0 THEN [s EXCEPT !.matched = FALSE]
                                 ELSE [s EXCEPT !.deep = @ - 1]
              p == Piece("close", 0)
  <2>1. q \in Shapes /\ q.header = FALSE
        /\ (s.deep = 0 => q.deep = 0 /\ q.matched = FALSE)
        /\ (s.deep # 0 => q.deep = s.deep - 1 /\ q.matched = s.matched)
    <3>1. s.deep \in Nat /\ (s.deep # 0 => s.deep - 1 \in Nat)
      BY DEF Shapes
    <3>2. CASE s.deep = 0
      BY <1>3, <3>2 DEF Shapes
    <3>3. CASE s.deep # 0
      BY <1>3, <3>1, <3>3 DEF Shapes
    <3>. QED
      BY <3>2, <3>3
  <2>2. p \in Pieces /\ p.is = "close"
    BY DEF Piece, Pieces
  <2>3. <<s, p, q>> \in Shaping
    <3>1. Shapens(s, p, q)
      BY <1>3, <2>2 DEF Shapens
    <3>. QED
      BY <2>1, <2>2, <3>1 DEF Shaping
  <2>. HIDE DEF p, q
  <2>4. Runs(Shaping, s, <<p>>, q)
    BY <2>3, RunsOne
  <2>5. Runs(Shaping, s, Close, q)
    BY <2>4 DEF p, Close
  <2>. QED
    BY <2>1, <2>5
<1>4. /\ a.closes \in Nat /\ b.closes \in Nat /\ r.deep \in Nat
      /\ a.header \in BOOLEAN /\ b.header \in BOOLEAN /\ r.matched \in BOOLEAN
  BY DEF States, Shapes
<1>5. CASE text = Text /\ b.closes = a.closes /\ b.header = a.header
  <2>1. Runs(Shaping, r, << >>, r)
    BY RunsNone
  <2>. QED
    BY <1>5, <2>1 DEF Text
<1>6. CASE text = Open /\ b.closes = a.closes + 1 /\ b.header = FALSE
  <2>. DEFINE q == [r EXCEPT !.deep = @ + 1, !.header = FALSE]
  <2>1. q \in Shapes /\ Runs(Shaping, r, Open, q)
    BY <1>1
  <2>2. q.deep = r.deep + 1 /\ q.header = FALSE /\ q.matched = r.matched
    BY DEF Shapes
  <2>. HIDE DEF q
  <2>3. q.header = b.header /\ q.deep <= k + b.closes
    <3>1. q.header = b.header
      BY <1>6, <2>2
    <3>2. q.deep = r.deep + 1 /\ b.closes = a.closes + 1
      BY <1>6, <2>2
    <3>3. q.deep <= k + b.closes
      BY <1>4, <3>2
    <3>. QED
      BY <3>1, <3>3
  <2>4. q.deep = k + b.closes <=> r.deep = k + a.closes
    BY <1>4, <1>6, <2>2
  <2>. QED
    BY <1>6, <2>1, <2>2, <2>3, <2>4
<1>7. CASE text = Repeating /\ a.header = FALSE /\ b.closes = a.closes /\ b.header = TRUE
  <2>. DEFINE q == [r EXCEPT !.header = TRUE]
  <2>1. q \in Shapes /\ Runs(Shaping, r, Repeating, q)
    BY <1>2, <1>7
  <2>2. q.deep = r.deep /\ q.header = TRUE /\ q.matched = r.matched
    BY DEF Shapes
  <2>. HIDE DEF q
  <2>3. q.header = b.header /\ q.deep <= k + b.closes
    BY <1>4, <1>7, <2>2
  <2>4. q.deep = k + b.closes <=> r.deep = k + a.closes
    BY <1>4, <1>7, <2>2
  <2>. QED
    BY <1>7, <2>1, <2>2, <2>3, <2>4
<1>8. CASE text = Close /\ a.header = FALSE /\ a.closes = b.closes + 1 /\ b.header = FALSE
  <2>1. PICK q \in Shapes :
          /\ Runs(Shaping, r, Close, q) /\ q.header = FALSE
          /\ r.deep = 0 => q.deep = 0 /\ q.matched = FALSE
          /\ r.deep # 0 => q.deep = r.deep - 1 /\ q.matched = r.matched
    BY <1>3, <1>8
  <2>2. q.deep <= k + b.closes
    BY <1>4, <1>8, <2>1
  <2>3. q.matched /\ q.deep = k + b.closes <=> r.matched /\ r.deep = k + a.closes
    <3>1. CASE r.deep = 0
      BY <1>4, <1>8, <2>1, <3>1, SMTT(30)
    <3>2. CASE r.deep # 0
      BY <1>4, <1>8, <2>1, <3>2
    <3>. QED
      BY <3>1, <3>2
  <2>. QED
    BY <1>8, <2>1, <2>2, <2>3
<1>9. CASE text = Close \o Open /\ a.header = FALSE /\ a.closes # 0 /\ b.closes = a.closes
             /\ b.header = FALSE
  <2>1. PICK q \in Shapes :
          /\ Runs(Shaping, r, Close, q) /\ q.header = FALSE
          /\ r.deep = 0 => q.deep = 0 /\ q.matched = FALSE
          /\ r.deep # 0 => q.deep = r.deep - 1 /\ q.matched = r.matched
    BY <1>3, <1>9
  <2>. DEFINE o == [q EXCEPT !.deep = @ + 1, !.header = FALSE]
  <2>2. o \in Shapes /\ Runs(Shaping, q, Open, o)
    BY <1>1
  <2>3. o.deep = q.deep + 1 /\ o.header = FALSE /\ o.matched = q.matched
    BY DEF Shapes
  <2>. HIDE DEF o
  <2>4. Open \in Seq(Marks) /\ Close \in Seq(Marks)
    BY StepsAreSteps
  <2>5. Runs(Shaping, r, Close \o Open, o)
    BY <2>1, <2>2, <2>4, RunsJoin
  <2>6. o.deep <= k + b.closes
    BY <1>4, <1>9, <2>1, <2>3
  <2>7. o.matched /\ o.deep = k + b.closes <=> r.matched /\ r.deep = k + a.closes
    BY <1>4, <1>9, <2>1, <2>3, SMTT(30)
  <2>. QED
    BY <1>9, <2>2, <2>3, <2>5, <2>6, <2>7
<1>. QED
  BY <1>5, <1>6, <1>7, <1>8, <1>9 DEF Owes

\* The text of a source, when something is put to it.
LEMMA Texting ==
  ASSUME NEW s \in Sources, NEW text \in Seq(Pieces)
  PROVE  /\ print(s, text) \in Sources /\ All(print(s, text)) = All(s) \o text
         /\ print(s, text).level = s.level
         /\ printLine(s, text) \in Sources /\ All(printLine(s, text)) = All(s) \o text
         /\ printLine(s, text).level = s.level /\ printLine(s, text).stream = << >>
         /\ All(s) \in Seq(Pieces)
<1>. DEFINE l == s.lines
            m == s.stream
<1>1. l \in Seq(Pieces) /\ m \in Seq(Pieces) /\ s.level \in Int
  BY DEF Sources
<1>. HIDE DEF l, m
<1>2. /\ m \o text \in Seq(Pieces) /\ l \o (m \o text) \in Seq(Pieces)
      /\ l \o (m \o text) = (l \o m) \o text /\ l \o m \in Seq(Pieces)
      /\ (l \o (m \o text)) \o << >> = l \o (m \o text) /\ << >> \in Seq(Pieces)
  BY <1>1, SMTT(30)
<1>3. /\ print(s, text) \in Sources /\ print(s, text).lines = l
      /\ print(s, text).stream = m \o text /\ print(s, text).level = s.level
  BY <1>1, <1>2 DEF print, Sources, l, m
<1>4. /\ printLine(s, text) \in Sources /\ printLine(s, text).lines = l \o (m \o text)
      /\ printLine(s, text).stream = << >> /\ printLine(s, text).level = s.level
  BY <1>1, <1>2 DEF printLine, flushLineBuffer, insertLine, print, Sources, l, m
<1>. QED
  BY <1>2, <1>3, <1>4 DEF All, l, m

\* A step that writes does to a source what it does to what is owed.
LEMMA WrittenFollows ==
  ASSUME NEW t \in States, NEW a, NEW step, NEW b, <<a, step, b>> \in Taking,
         step.do \in Writing, NEW s, NEW whole \in BOOLEAN, Follows(s, Sum(t, a), whole)
  PROVE  Follows(Written(s, step), Sum(t, b), whole)
<1>1. a \in States /\ b \in States /\ step \in Steps /\ Takes(a, step, b)
  BY DEF Taking
<1>2. /\ s \in Sources /\ step.text \in Seq(Pieces)
      /\ \A u \in Sources : u.level \in Int
      /\ \A u \in States : u.closes \in Nat /\ u.outdents \in Nat
                            /\ u.header \in BOOLEAN /\ u.begun \in BOOLEAN
  BY <1>1, MarksMakeNothing DEF Follows, Sources, States, Steps
<1>3. \A u : /\ Sum(t, u).closes = t.closes + u.closes
             /\ Sum(t, u).outdents = t.outdents + u.outdents
             /\ Sum(t, u).header = u.header /\ Sum(t, u).begun = u.begun
  BY DEF Sum
<1>. DEFINE text == step.text
<1>4. /\ s.level = t.outdents + a.outdents /\ (~a.begun => s.stream = << >>)
  BY <1>3 DEF Follows
<1>5. PICK r \in Shapes :
        /\ Runs(Shaping, Flat, All(s), r) /\ r.header = a.header /\ r.deep <= t.closes + a.closes
        /\ whole <=> r.matched /\ r.deep = t.closes + a.closes
  BY <1>3 DEF Follows
<1>6. ASSUME Owes(a, text, b), NEW u \in Sources, All(u) = All(s) \o text,
             u.level = t.outdents + b.outdents, ~b.begun => u.stream = << >>
      PROVE  Follows(u, Sum(t, b), whole)
  <2>. HIDE DEF text
  <2>1. PICK q \in Shapes :
          /\ Runs(Shaping, r, text, q) /\ q.header = b.header /\ q.deep <= t.closes + b.closes
          /\ q.matched /\ q.deep = t.closes + b.closes <=> r.matched /\ r.deep = t.closes + a.closes
    <3>1. t.closes \in Nat
      BY <1>2
    <3>. QED
      BY <1>1, <1>5, <1>6, <3>1, OwedShapes, SMTT(30)
  <2>2. text \in Seq(Pieces) /\ All(s) \in Seq(Pieces)
    BY <1>2, Texting DEF text
  <2>3. Runs(Shaping, Flat, All(s) \o text, q)
    BY <1>5, <2>1, <2>2, RunsJoin
  <2>. QED
    BY <1>3, <1>5, <1>6, <2>1, <2>3 DEF Follows
<1>7. /\ print(s, text) \in Sources /\ All(print(s, text)) = All(s) \o text
      /\ print(s, text).level = s.level
      /\ printLine(s, text) \in Sources /\ All(printLine(s, text)) = All(s) \o text
      /\ printLine(s, text).level = s.level /\ printLine(s, text).stream = << >>
  BY <1>2, Texting
<1>8. \A u \in Sources :
        /\ increaseIndentation(u) \in Sources /\ increaseIndentation(u).level = u.level + 1
        /\ decreaseIndentation(u) \in Sources /\ decreaseIndentation(u).level = u.level - 1
        /\ increaseIndentation(u).lines = u.lines /\ increaseIndentation(u).stream = u.stream
        /\ decreaseIndentation(u).lines = u.lines /\ decreaseIndentation(u).stream = u.stream
  BY DEF increaseIndentation, decreaseIndentation, Sources
<1>9. CASE step.do = "print"
  <2>1. Owes(a, text, b) /\ b.outdents = a.outdents /\ b.begun = TRUE
    BY <1>1, <1>9 DEF Takes
  <2>2. Written(s, step) = print(s, text)
    BY <1>9 DEF Written
  <2>. QED
    BY <1>4, <1>6, <1>7, <2>1, <2>2
<1>10. CASE step.do = "printLine"
  <2>1. Owes(a, text, b) /\ b.outdents = a.outdents /\ b.begun = FALSE
    BY <1>1, <1>10 DEF Takes
  <2>2. Written(s, step) = printLine(s, text)
    BY <1>10 DEF Written
  <2>. QED
    BY <1>4, <1>6, <1>7, <2>1, <2>2
<1>11. CASE step.do = "printLineAndIndent"
  <2>1. Owes(a, text, b) /\ b.outdents = a.outdents + 1 /\ b.begun = FALSE
    BY <1>1, <1>11 DEF Takes
  <2>2. Written(s, step) = increaseIndentation(printLine(s, text))
    BY <1>11 DEF Written, printLineAndIndent
  <2>. DEFINE v == printLine(s, text)
              u == increaseIndentation(v)
  <2>3. v \in Sources /\ All(v) = All(s) \o text /\ v.level = s.level /\ v.stream = << >>
    BY <1>7
  <2>. HIDE DEF v
  <2>4. u \in Sources /\ u.level = v.level + 1 /\ u.lines = v.lines /\ u.stream = v.stream
    BY <1>8, <2>3
  <2>. HIDE DEF u
  <2>5. All(u) = All(s) \o text /\ u.stream = << >>
    BY <2>3, <2>4 DEF All
  <2>6. u.level = t.outdents + b.outdents
    BY <1>1, <1>2, <1>4, <2>1, <2>3, <2>4, SMTT(30)
  <2>7. Follows(u, Sum(t, b), whole)
    BY <1>6, <2>1, <2>4, <2>5, <2>6
  <2>. QED
    BY <2>2, <2>7 DEF u, v
<1>12. CASE step.do = "outdentAndPrintLine"
  <2>1. Owes(a, text, b) /\ a.outdents = b.outdents + 1 /\ b.begun = FALSE
    BY <1>1, <1>12 DEF Takes
  <2>2. Written(s, step) = printLine(decreaseIndentation(s), text)
    BY <1>12 DEF Written, outdentAndPrintLine
  <2>. DEFINE v == decreaseIndentation(s)
              u == printLine(v, text)
  <2>3. v \in Sources /\ v.lines = s.lines /\ v.stream = s.stream /\ v.level = s.level - 1
    BY <1>2, <1>8
  <2>. HIDE DEF v
  <2>4. u \in Sources /\ All(u) = All(v) \o text /\ u.level = v.level /\ u.stream = << >>
    BY <1>2, <2>3, Texting
  <2>. HIDE DEF u
  <2>5. All(u) = All(s) \o text
    BY <2>3, <2>4 DEF All
  <2>6. u.level = t.outdents + b.outdents
    BY <1>1, <1>2, <1>4, <2>1, <2>3, <2>4, SMTT(30)
  <2>7. Follows(u, Sum(t, b), whole)
    BY <1>6, <2>1, <2>4, <2>5, <2>6
  <2>. QED
    BY <2>2, <2>7 DEF u, v
<1>13. CASE step.do \in {"increaseIndentation", "decreaseIndentation"}
  <2>. DEFINE u == Written(s, step)
  <2>1. /\ b.closes = a.closes /\ b.header = a.header /\ b.begun = a.begun
        /\ step.do = "increaseIndentation" => b.outdents = a.outdents + 1
        /\ step.do = "decreaseIndentation" => a.outdents = b.outdents + 1
    BY <1>1, <1>13 DEF Takes, States
  <2>2. /\ u \in Sources /\ u.lines = s.lines /\ u.stream = s.stream
        /\ step.do = "increaseIndentation" => u.level = s.level + 1
        /\ step.do = "decreaseIndentation" => u.level = s.level - 1
    BY <1>2, <1>8, <1>13 DEF Written
  <2>. HIDE DEF u
  <2>3. u.level = t.outdents + b.outdents
    BY <1>1, <1>2, <1>4, <1>13, <2>1, <2>2, SMTT(30)
  <2>4. All(u) = All(s)
    BY <2>2 DEF All
  <2>5. Follows(u, Sum(t, b), whole)
    BY <1>3, <1>4, <1>5, <2>1, <2>2, <2>3, <2>4 DEF Follows
  <2>. QED
    BY <2>5 DEF u
<1>. QED
  BY <1>9, <1>10, <1>11, <1>12, <1>13 DEF Writing

\* An expression changes nothing but that a line is begun.
LEMMA ExpressionFollows ==
  ASSUME NEW t \in States, NEW s, NEW whole, Follows(s, t, whole),
         NEW expression \in Expressions
  PROVE  Follows(WrittenExpression(s, expression), [t EXCEPT !.begun = TRUE], whole)
<1>. DEFINE u == WrittenExpression(s, expression)
            l == s.lines
            m == s.stream
            capture == <<Piece("capture", expression.closure)>>
            make == <<Piece("make", expression.closure)>>
            call == <<Piece("call", expression.call)>>
<1>1. /\ s \in Sources /\ s.level = t.outdents
      /\ l \in Seq(Pieces) /\ m \in Seq(Pieces)
  BY DEF Follows, Sources
<1>2. PICK r \in Shapes :
        /\ Runs(Shaping, Flat, All(s), r) /\ r.header = t.header /\ r.deep <= t.closes
        /\ whole <=> r.matched /\ r.deep = t.closes
  BY DEF Follows
<1>3. ASSUME NEW p \in Pieces, p.is \in {"capture", "make", "call"}, NEW q \in Shapes
      PROVE  Runs(Shaping, q, <<p>>, q)
  <2>1. <<q, p, q>> \in Shaping
    BY <1>3 DEF Shaping, Shapens
  <2>. QED
    BY <2>1, RunsOne
<1>4. /\ Piece("capture", expression.closure) \in Pieces
      /\ Piece("make", expression.closure) \in Pieces
      /\ Piece("call", expression.call) \in Pieces
      /\ Piece("capture", expression.closure).is = "capture"
      /\ Piece("make", expression.closure).is = "make"
      /\ Piece("call", expression.call).is = "call"
  BY DEF Piece, Pieces, Expressions
<1>5. /\ capture \in Seq(Pieces) /\ make \in Seq(Pieces) /\ call \in Seq(Pieces)
      /\ \A q \in Shapes : /\ Runs(Shaping, q, capture, q) /\ Runs(Shaping, q, make, q)
                           /\ Runs(Shaping, q, call, q)
  BY <1>3, <1>4
<1>. HIDE DEF capture, make, call
<1>6. u \in Sources /\ u.level = s.level /\ Runs(Shaping, Flat, All(u), r)
  <2>1. CASE expression.closure # 0
    <3>. DEFINE v == printPreviousLine(s, capture)
    <3>1. u = print(v, make)
      BY <2>1 DEF WrittenExpression, capture, make
    <3>2. l \o capture \in Seq(Pieces)
      <4>. HIDE DEF l
      <4>. QED
        BY <1>1, <1>5
    <3>3. v \in Sources /\ v.lines = l \o capture /\ v.stream = m /\ v.level = s.level
      BY <1>1, <3>2 DEF printPreviousLine, insertLine, Sources
    <3>. HIDE DEF v
    <3>4. u \in Sources /\ All(u) = All(v) \o make /\ u.level = v.level /\ All(v) \in Seq(Pieces)
      BY <1>5, <3>1, <3>3, Texting, ZenonT(60)
    <3>5. \E q : Runs(Shaping, Flat, l, q) /\ Runs(Shaping, q, m, r)
      BY <1>1, <1>2, RunsSplit DEF All
    <3>6. PICK q : Runs(Shaping, Flat, l, q) /\ Runs(Shaping, q, m, r)
      BY <3>5
    <3>7. q \in Shapes
      <4>1. Flat \in Shapes
        BY DEF Flat, Shapes
      <4>. QED
        BY <1>1, <3>6, <4>1, ShapesFollow
    <3>8. Runs(Shaping, Flat, l \o capture, q)
      <4>. HIDE DEF l
      <4>. QED
        BY <1>1, <1>5, <3>6, <3>7, RunsJoin
    <3>9. Runs(Shaping, Flat, (l \o capture) \o m, r)
      <4>. DEFINE lc == l \o capture
      <4>1. lc \in Seq(Pieces) /\ Runs(Shaping, Flat, lc, q)
        BY <3>2, <3>8
      <4>. HIDE DEF l, m, lc
      <4>2. Runs(Shaping, Flat, lc \o m, r)
        BY <1>1, <3>6, <4>1, RunsJoin
      <4>. QED
        BY <4>2 DEF lc
    <3>10. Runs(Shaping, Flat, All(v), r)
      BY <3>3, <3>9 DEF All
    <3>11. Runs(Shaping, Flat, All(v) \o make, r)
      BY <1>5, <3>4, <3>10, RunsJoin
    <3>. QED
      BY <3>3, <3>4, <3>11
  <2>2. CASE expression.closure = 0 /\ expression.call # 0
    <3>1. u = print(s, call)
      BY <2>2 DEF WrittenExpression, call
    <3>2. u \in Sources /\ All(u) = All(s) \o call /\ u.level = s.level /\ All(s) \in Seq(Pieces)
      BY <1>1, <1>5, <3>1, Texting, ZenonT(60)
    <3>3. Runs(Shaping, Flat, All(s) \o call, r)
      BY <1>2, <1>5, <3>2, RunsJoin
    <3>. QED
      BY <3>2, <3>3
  <2>3. CASE expression.closure = 0 /\ expression.call = 0
    <3>1. u = s
      BY <2>3 DEF WrittenExpression
    <3>. QED
      BY <1>1, <1>2, <3>1
  <2>. QED
    BY <2>1, <2>2, <2>3
<1>. DEFINE o == [t EXCEPT !.begun = TRUE]
<1>7. o.closes = t.closes /\ o.outdents = t.outdents /\ o.header = t.header /\ o.begun = TRUE
  BY DEF States
<1>. HIDE DEF u, o
<1>8. Follows(u, o, whole)
  BY <1>1, <1>2, <1>6, <1>7 DEF Follows
<1>. QED
  BY <1>8 DEF u, o

-----------------------------------------------------------------------------
(* Every script pays what it owes. *)

\* A run is a sequence of states, each leading to the next.
LEMMA RunsAlong ==
  ASSUME NEW R, NEW S, NEW seq \in Seq(S), NEW T, NEW f \in Seq(T), Len(f) = Len(seq) + 1,
         \A i \in 1 .. Len(seq) : <<f[i], seq[i], f[i + 1]>> \in R
  PROVE  Runs(R, f[1], seq, f[Len(f)])
<1>. DEFINE n == Len(seq)
            g == [i \in 0 .. n |-> f[i + 1]]
<1>1. n \in Nat
  OBVIOUS
<1>2. \A i \in 0 .. n : g[i] = f[i + 1]
  OBVIOUS
<1>. HIDE DEF g, n
<1>3. g[0] = f[1] /\ g[n] = f[Len(f)]
  BY <1>1, <1>2 DEF n
<1>4. ASSUME NEW i \in 1 .. n
      PROVE  <<g[i - 1], seq[i], g[i]>> \in R
  <2>1. i - 1 \in 0 .. n /\ i \in 0 .. n /\ (i - 1) + 1 = i
    BY <1>1
  <2>2. g[i - 1] = f[i]
    BY <1>2, <2>1
  <2>. QED
    BY <1>2, <2>1, <2>2 DEF n
<1>. QED
  BY <1>3, <1>4 DEF Runs, n

\* The states that scripts come to: nothing owed, nothing but a line begun,
\* inside of a block, outside of it but before its end, behind that "}" on a
\* line, behind the header of a loop.
Level == Zero
Begun == [closes |-> 0, outdents |-> 0, header |-> FALSE, begun |-> TRUE]
Inside == [closes |-> 1, outdents |-> 1, header |-> FALSE, begun |-> FALSE]
Before == [closes |-> 1, outdents |-> 0, header |-> FALSE, begun |-> FALSE]
Closing == [closes |-> 0, outdents |-> 1, header |-> FALSE, begun |-> TRUE]
Headed == [closes |-> 0, outdents |-> 0, header |-> TRUE, begun |-> TRUE]

\* They are states, and these are their parts.
LEMMA TheStates ==
  /\ {Level, Begun, Inside, Before, Closing, Headed} \subseteq States
  /\ Level.closes = 0 /\ Level.outdents = 0 /\ Level.header = FALSE /\ Level.begun = FALSE
  /\ Begun.closes = 0 /\ Begun.outdents = 0 /\ Begun.header = FALSE /\ Begun.begun = TRUE
  /\ Inside.closes = 1 /\ Inside.outdents = 1 /\ Inside.header = FALSE /\ Inside.begun = FALSE
  /\ Before.closes = 1 /\ Before.outdents = 0 /\ Before.header = FALSE /\ Before.begun = FALSE
  /\ Closing.closes = 0 /\ Closing.outdents = 1 /\ Closing.header = FALSE /\ Closing.begun = TRUE
  /\ Headed.closes = 0 /\ Headed.outdents = 0 /\ Headed.header = TRUE /\ Headed.begun = TRUE
<1>1. Level \in States /\ Begun \in States
  BY DEF Level, Zero, Begun, States
<1>2. Inside \in States /\ Before \in States
  BY DEF Inside, Before, States
<1>3. Closing \in States /\ Headed \in States
  BY DEF Closing, Headed, States
<1>4. /\ Level.closes = 0 /\ Level.outdents = 0 /\ Level.header = FALSE /\ Level.begun = FALSE
      /\ Begun.closes = 0 /\ Begun.outdents = 0 /\ Begun.header = FALSE /\ Begun.begun = TRUE
  BY DEF Level, Zero, Begun
<1>5. /\ Inside.closes = 1 /\ Inside.outdents = 1 /\ Inside.header = FALSE /\ Inside.begun = FALSE
      /\ Before.closes = 1 /\ Before.outdents = 0 /\ Before.header = FALSE /\ Before.begun = FALSE
  BY DEF Inside, Before
<1>6. /\ Closing.closes = 0 /\ Closing.outdents = 1 /\ Closing.header = FALSE
      /\ Closing.begun = TRUE
      /\ Headed.closes = 0 /\ Headed.outdents = 0 /\ Headed.header = TRUE /\ Headed.begun = TRUE
  BY DEF Closing, Headed
<1>. QED
  BY <1>1, <1>2, <1>3, <1>4, <1>5, <1>6

\* The steps between them.
LEMMA StepsTake ==
  /\ \A x \in {Level, Begun} : <<x, Put(Text), Begun>> \in Taking
  /\ <<Headed, Put(Text), Headed>> \in Taking
  /\ <<Before, Put(Close), Begun>> \in Taking
  /\ <<Inside, Put(Close), Closing>> \in Taking
  /\ \A x \in {Level, Begun} : <<x, Put(Repeating), Headed>> \in Taking
  /\ \A x \in {Level, Begun} : <<x, Line(Text), Level>> \in Taking
  /\ <<Inside, Line(Text), Inside>> \in Taking
  /\ <<Before, Line(Close), Level>> \in Taking
  /\ \A x \in {Level, Begun, Headed} : <<x, LineAndIndent(Open), Inside>> \in Taking
  /\ <<Before, LineAndIndent(Close \o Open), Inside>> \in Taking
  /\ <<Inside, OutdentAndLine(Close), Level>> \in Taking
  /\ <<Inside, OutdentAndLine(Close \o Open), Before>> \in Taking
  /\ <<Closing, OutdentAndLine(Text), Level>> \in Taking
  /\ <<Before, Indent, Inside>> \in Taking
  /\ <<Inside, Outdent, Before>> \in Taking
  /\ <<Inside, Children, Inside>> \in Taking
  /\ \A part \in Parts : \A x \in {Begun, Headed, Closing} :
       <<x, Expression(part), x>> \in Taking
<1>1. ASSUME NEW x \in States, NEW s \in Steps, NEW y \in States, Takes(x, s, y)
      PROVE  <<x, s, y>> \in Taking
  BY <1>1 DEF Taking
<1>2. \A text :
        /\ Put(text).do = "print" /\ Put(text).text = text
        /\ Line(text).do = "printLine" /\ Line(text).text = text
        /\ LineAndIndent(text).do = "printLineAndIndent" /\ LineAndIndent(text).text = text
        /\ OutdentAndLine(text).do = "outdentAndPrintLine" /\ OutdentAndLine(text).text = text
  BY DEF Put, Line, LineAndIndent, OutdentAndLine, Step
<1>3. /\ Indent.do = "increaseIndentation" /\ Outdent.do = "decreaseIndentation"
      /\ Children.do = "visitChildren" /\ \A part : Expression(part).do = "accept"
  BY DEF Indent, Outdent, Children, Expression, Step
<1>4. ASSUME NEW text \in {Text, Open, Close, Repeating, Close \o Open},
             NEW x \in States, NEW y \in States, Owes(x, text, y)
      PROVE  /\ y.outdents = x.outdents /\ y.begun = TRUE => <<x, Put(text), y>> \in Taking
             /\ y.outdents = x.outdents /\ y.begun = FALSE => <<x, Line(text), y>> \in Taking
             /\ y.outdents = x.outdents + 1 /\ y.begun = FALSE =>
                  <<x, LineAndIndent(text), y>> \in Taking
             /\ x.outdents = y.outdents + 1 /\ y.begun = FALSE =>
                  <<x, OutdentAndLine(text), y>> \in Taking
  <2>1. /\ Put(text) \in Steps /\ Line(text) \in Steps
        /\ LineAndIndent(text) \in Steps /\ OutdentAndLine(text) \in Steps
    BY StepsAreSteps
  <2>2. y.outdents = x.outdents /\ y.begun = TRUE => Takes(x, Put(text), y)
    BY <1>2, <1>4 DEF Takes
  <2>3. y.outdents = x.outdents /\ y.begun = FALSE => Takes(x, Line(text), y)
    BY <1>2, <1>4 DEF Takes
  <2>4. y.outdents = x.outdents + 1 /\ y.begun = FALSE => Takes(x, LineAndIndent(text), y)
    BY <1>2, <1>4 DEF Takes
  <2>5. x.outdents = y.outdents + 1 /\ y.begun = FALSE => Takes(x, OutdentAndLine(text), y)
    BY <1>2, <1>4 DEF Takes
  <2>. QED
    BY <1>1, <2>1, <2>2, <2>3, <2>4, <2>5
<1>5. /\ \A x \in {Level, Begun} : Owes(x, Text, Begun) /\ Owes(x, Text, Level)
      /\ Owes(Headed, Text, Headed) /\ Owes(Inside, Text, Inside) /\ Owes(Closing, Text, Level)
  BY TheStates DEF Owes
<1>6. /\ Owes(Before, Close, Begun) /\ Owes(Before, Close, Level) /\ Owes(Inside, Close, Closing)
      /\ Owes(Inside, Close, Level)
  BY TheStates DEF Owes
<1>7. /\ \A x \in {Level, Begun} : Owes(x, Repeating, Headed)
      /\ \A x \in {Level, Begun, Headed} : Owes(x, Open, Inside)
  BY TheStates DEF Owes
<1>8. Owes(Before, Close \o Open, Inside) /\ Owes(Inside, Close \o Open, Before)
  BY TheStates DEF Owes
<1>9. /\ \A x \in {Level, Begun} : <<x, Put(Text), Begun>> \in Taking
      /\ <<Headed, Put(Text), Headed>> \in Taking
      /\ \A x \in {Level, Begun} : <<x, Line(Text), Level>> \in Taking
      /\ <<Inside, Line(Text), Inside>> \in Taking
      /\ <<Closing, OutdentAndLine(Text), Level>> \in Taking
  <2>1. Closing.outdents = Level.outdents + 1
    BY TheStates
  <2>. QED
    BY <1>4, <1>5, <2>1, TheStates
<1>10. /\ <<Before, Put(Close), Begun>> \in Taking /\ <<Inside, Put(Close), Closing>> \in Taking
       /\ <<Before, Line(Close), Level>> \in Taking
       /\ <<Inside, OutdentAndLine(Close), Level>> \in Taking
  <2>1. Inside.outdents = Level.outdents + 1
    BY TheStates
  <2>. QED
    BY <1>4, <1>6, <2>1, TheStates
<1>11. /\ \A x \in {Level, Begun} : <<x, Put(Repeating), Headed>> \in Taking
       /\ \A x \in {Level, Begun, Headed} : <<x, LineAndIndent(Open), Inside>> \in Taking
  <2>1. \A x \in {Level, Begun, Headed} : Inside.outdents = x.outdents + 1
    BY TheStates
  <2>. QED
    BY <1>4, <1>7, <2>1, TheStates
<1>12. /\ <<Before, LineAndIndent(Close \o Open), Inside>> \in Taking
       /\ <<Inside, OutdentAndLine(Close \o Open), Before>> \in Taking
  <2>1. Inside.outdents = Before.outdents + 1
    BY TheStates
  <2>. QED
    BY <1>4, <1>8, <2>1, TheStates
<1>13. <<Before, Indent, Inside>> \in Taking /\ <<Inside, Outdent, Before>> \in Taking
  <2>1. Inside.outdents = Before.outdents + 1
    BY TheStates
  <2>2. Takes(Before, Indent, Inside) /\ Takes(Inside, Outdent, Before)
    BY <1>3, <2>1, TheStates DEF Takes
  <2>. QED
    BY <1>1, <2>2, TheStates, StepsAreSteps
<1>14. <<Inside, Children, Inside>> \in Taking
  <2>1. Takes(Inside, Children, Inside)
    BY <1>3, TheStates DEF Takes
  <2>. QED
    BY <1>1, <2>1, TheStates, StepsAreSteps
<1>15. ASSUME NEW part \in Parts, NEW x \in {Begun, Headed, Closing}
       PROVE  <<x, Expression(part), x>> \in Taking
  <2>1. x = [x EXCEPT !.begun = TRUE]
    BY DEF Begun, Headed, Closing
  <2>2. Takes(x, Expression(part), x)
    BY <1>3, <2>1 DEF Takes
  <2>. QED
    BY <1>1, <2>2, TheStates, StepsAreSteps
<1>. QED
  BY <1>9, <1>10, <1>11, <1>12, <1>13, <1>14, <1>15

\* Sequences of two to eight steps.
LEMMA RunsTwo ==
  ASSUME NEW R, NEW x0, NEW x1, NEW x2, NEW s1, NEW s2, <<x0, s1, x1>> \in R,
         <<x1, s2, x2>> \in R
  PROVE  Runs(R, x0, <<s1, s2>>, x2)
<1>. DEFINE f == <<x0, x1, x2>>
            seq == <<s1, s2>>
<1>1. /\ f \in Seq({x0, x1, x2}) /\ Len(f) = 3
      /\ seq \in Seq({s1, s2}) /\ Len(seq) = 2
  OBVIOUS
<1>2. \A i \in 1 .. 2 : <<f[i], seq[i], f[i + 1]>> \in R
  OBVIOUS
<1>3. f[1] = x0 /\ f[3] = x2
  OBVIOUS
<1>. HIDE DEF f, seq
<1>4. Len(f) = Len(seq) + 1 /\ \A i \in 1 .. Len(seq) : <<f[i], seq[i], f[i + 1]>> \in R
  BY <1>1, <1>2
<1>5. Runs(R, f[1], seq, f[Len(f)])
  BY <1>1, <1>4, RunsAlong
<1>. QED
  BY <1>1, <1>3, <1>5 DEF seq

\* Runs of three steps.
LEMMA RunsThree ==
  ASSUME NEW R, NEW x0, NEW x1, NEW x2, NEW x3, NEW s1, NEW s2, NEW s3,
         <<x0, s1, x1>> \in R, <<x1, s2, x2>> \in R, <<x2, s3, x3>> \in R
  PROVE  Runs(R, x0, <<s1, s2, s3>>, x3)
<1>. DEFINE f == <<x0, x1, x2, x3>>
            seq == <<s1, s2, s3>>
<1>1. /\ f \in Seq({x0, x1, x2, x3}) /\ Len(f) = 4
      /\ seq \in Seq({s1, s2, s3}) /\ Len(seq) = 3
  OBVIOUS
<1>2. \A i \in 1 .. 3 : <<f[i], seq[i], f[i + 1]>> \in R
  OBVIOUS
<1>3. f[1] = x0 /\ f[4] = x3
  OBVIOUS
<1>. HIDE DEF f, seq
<1>4. Len(f) = Len(seq) + 1 /\ \A i \in 1 .. Len(seq) : <<f[i], seq[i], f[i + 1]>> \in R
  BY <1>1, <1>2
<1>5. Runs(R, f[1], seq, f[Len(f)])
  BY <1>1, <1>4, RunsAlong
<1>. QED
  BY <1>1, <1>3, <1>5 DEF seq

\* Runs of four steps.
LEMMA RunsFour ==
  ASSUME NEW R, NEW x0, NEW x1, NEW x2, NEW x3, NEW x4, NEW s1, NEW s2, NEW s3,
         NEW s4, <<x0, s1, x1>> \in R, <<x1, s2, x2>> \in R, <<x2, s3, x3>> \in R,
         <<x3, s4, x4>> \in R
  PROVE  Runs(R, x0, <<s1, s2, s3, s4>>, x4)
<1>. DEFINE f == <<x0, x1, x2, x3, x4>>
            seq == <<s1, s2, s3, s4>>
<1>1. /\ f \in Seq({x0, x1, x2, x3, x4}) /\ Len(f) = 5
      /\ seq \in Seq({s1, s2, s3, s4}) /\ Len(seq) = 4
  OBVIOUS
<1>2. \A i \in 1 .. 4 : <<f[i], seq[i], f[i + 1]>> \in R
  OBVIOUS
<1>3. f[1] = x0 /\ f[5] = x4
  OBVIOUS
<1>. HIDE DEF f, seq
<1>4. Len(f) = Len(seq) + 1 /\ \A i \in 1 .. Len(seq) : <<f[i], seq[i], f[i + 1]>> \in R
  BY <1>1, <1>2
<1>5. Runs(R, f[1], seq, f[Len(f)])
  BY <1>1, <1>4, RunsAlong
<1>. QED
  BY <1>1, <1>3, <1>5 DEF seq

\* Runs of five steps.
LEMMA RunsFive ==
  ASSUME NEW R, NEW x0, NEW x1, NEW x2, NEW x3, NEW x4, NEW x5, NEW s1, NEW s2,
         NEW s3, NEW s4, NEW s5, <<x0, s1, x1>> \in R, <<x1, s2, x2>> \in R,
         <<x2, s3, x3>> \in R, <<x3, s4, x4>> \in R, <<x4, s5, x5>> \in R
  PROVE  Runs(R, x0, <<s1, s2, s3, s4, s5>>, x5)
<1>. DEFINE f == <<x0, x1, x2, x3, x4, x5>>
            seq == <<s1, s2, s3, s4, s5>>
<1>1. /\ f \in Seq({x0, x1, x2, x3, x4, x5}) /\ Len(f) = 6
      /\ seq \in Seq({s1, s2, s3, s4, s5}) /\ Len(seq) = 5
  OBVIOUS
<1>2. \A i \in 1 .. 5 : <<f[i], seq[i], f[i + 1]>> \in R
  OBVIOUS
<1>3. f[1] = x0 /\ f[6] = x5
  OBVIOUS
<1>. HIDE DEF f, seq
<1>4. Len(f) = Len(seq) + 1 /\ \A i \in 1 .. Len(seq) : <<f[i], seq[i], f[i + 1]>> \in R
  BY <1>1, <1>2
<1>5. Runs(R, f[1], seq, f[Len(f)])
  BY <1>1, <1>4, RunsAlong
<1>. QED
  BY <1>1, <1>3, <1>5 DEF seq

\* Runs of six steps.
LEMMA RunsSix ==
  ASSUME NEW R, NEW x0, NEW x1, NEW x2, NEW x3, NEW x4, NEW x5, NEW x6, NEW s1,
         NEW s2, NEW s3, NEW s4, NEW s5, NEW s6, <<x0, s1, x1>> \in R,
         <<x1, s2, x2>> \in R, <<x2, s3, x3>> \in R, <<x3, s4, x4>> \in R,
         <<x4, s5, x5>> \in R, <<x5, s6, x6>> \in R
  PROVE  Runs(R, x0, <<s1, s2, s3, s4, s5, s6>>, x6)
<1>. DEFINE f == <<x0, x1, x2, x3, x4, x5, x6>>
            seq == <<s1, s2, s3, s4, s5, s6>>
<1>1. /\ f \in Seq({x0, x1, x2, x3, x4, x5, x6}) /\ Len(f) = 7
      /\ seq \in Seq({s1, s2, s3, s4, s5, s6}) /\ Len(seq) = 6
  OBVIOUS
<1>2. \A i \in 1 .. 6 : <<f[i], seq[i], f[i + 1]>> \in R
  OBVIOUS
<1>3. f[1] = x0 /\ f[7] = x6
  OBVIOUS
<1>. HIDE DEF f, seq
<1>4. Len(f) = Len(seq) + 1 /\ \A i \in 1 .. Len(seq) : <<f[i], seq[i], f[i + 1]>> \in R
  BY <1>1, <1>2
<1>5. Runs(R, f[1], seq, f[Len(f)])
  BY <1>1, <1>4, RunsAlong
<1>. QED
  BY <1>1, <1>3, <1>5 DEF seq

\* Runs of seven steps.
LEMMA RunsSeven ==
  ASSUME NEW R, NEW x0, NEW x1, NEW x2, NEW x3, NEW x4, NEW x5, NEW x6, NEW x7,
         NEW s1, NEW s2, NEW s3, NEW s4, NEW s5, NEW s6, NEW s7,
         <<x0, s1, x1>> \in R, <<x1, s2, x2>> \in R, <<x2, s3, x3>> \in R,
         <<x3, s4, x4>> \in R, <<x4, s5, x5>> \in R, <<x5, s6, x6>> \in R,
         <<x6, s7, x7>> \in R
  PROVE  Runs(R, x0, <<s1, s2, s3, s4, s5, s6, s7>>, x7)
<1>. DEFINE f == <<x0, x1, x2, x3, x4, x5, x6, x7>>
            seq == <<s1, s2, s3, s4, s5, s6, s7>>
<1>1. /\ f \in Seq({x0, x1, x2, x3, x4, x5, x6, x7}) /\ Len(f) = 8
      /\ seq \in Seq({s1, s2, s3, s4, s5, s6, s7}) /\ Len(seq) = 7
  OBVIOUS
<1>2. \A i \in 1 .. 7 : <<f[i], seq[i], f[i + 1]>> \in R
  OBVIOUS
<1>3. f[1] = x0 /\ f[8] = x7
  OBVIOUS
<1>. HIDE DEF f, seq
<1>4. Len(f) = Len(seq) + 1 /\ \A i \in 1 .. Len(seq) : <<f[i], seq[i], f[i + 1]>> \in R
  BY <1>1, <1>2
<1>5. Runs(R, f[1], seq, f[Len(f)])
  BY <1>1, <1>4, RunsAlong
<1>. QED
  BY <1>1, <1>3, <1>5 DEF seq

\* Runs of eight steps.
LEMMA RunsEight ==
  ASSUME NEW R, NEW x0, NEW x1, NEW x2, NEW x3, NEW x4, NEW x5, NEW x6, NEW x7,
         NEW x8, NEW s1, NEW s2, NEW s3, NEW s4, NEW s5, NEW s6, NEW s7, NEW s8,
         <<x0, s1, x1>> \in R, <<x1, s2, x2>> \in R, <<x2, s3, x3>> \in R,
         <<x3, s4, x4>> \in R, <<x4, s5, x5>> \in R, <<x5, s6, x6>> \in R,
         <<x6, s7, x7>> \in R, <<x7, s8, x8>> \in R
  PROVE  Runs(R, x0, <<s1, s2, s3, s4, s5, s6, s7, s8>>, x8)
<1>. DEFINE f == <<x0, x1, x2, x3, x4, x5, x6, x7, x8>>
            seq == <<s1, s2, s3, s4, s5, s6, s7, s8>>
<1>1. /\ f \in Seq({x0, x1, x2, x3, x4, x5, x6, x7, x8}) /\ Len(f) = 9
      /\ seq \in Seq({s1, s2, s3, s4, s5, s6, s7, s8}) /\ Len(seq) = 8
  OBVIOUS
<1>2. \A i \in 1 .. 8 : <<f[i], seq[i], f[i + 1]>> \in R
  OBVIOUS
<1>3. f[1] = x0 /\ f[9] = x8
  OBVIOUS
<1>. HIDE DEF f, seq
<1>4. Len(f) = Len(seq) + 1 /\ \A i \in 1 .. Len(seq) : <<f[i], seq[i], f[i + 1]>> \in R
  BY <1>1, <1>2
<1>5. Runs(R, f[1], seq, f[Len(f)])
  BY <1>1, <1>4, RunsAlong
<1>. QED
  BY <1>1, <1>3, <1>5 DEF seq

\* A script that owes a when it begins pays it, except that a statement may
\* leave its line to be ended.
Leads(a, script, statement) ==
  \E b \in States : /\ Runs(Taking, a, script, b)
                    /\ b.closes = 0 /\ b.outdents = 0 /\ b.header = FALSE
                    /\ statement \/ b.begun = FALSE

\* A switch without a case closes a block that it has not opened.
Caseless == {SwitchNode(0, TRUE), SwitchNode(0, FALSE)}

\* The scripts, and a switch with and without a case.
LEMMA ScriptsRun ==
  /\ Runs(Taking, Level, FunctionDefinitionNode, Level)
  /\ Runs(Taking, Level, ClosureNode, Level)
  /\ Runs(Taking, Level, ForeverNode, Level)
  /\ Runs(Taking, Level, DoNode, Level)
  /\ Runs(Taking, Level, WhileNode, Level)
  /\ \A else \in BOOLEAN : /\ Runs(Taking, Level, IfNode(else), Level)
                           /\ Runs(Taking, Level, AtomicStatementNode(else), Level)
                           /\ Runs(Taking, Before, SwitchNode(0, else), Level)
                           /\ \A cases \in 1 .. 2 :
                                Runs(Taking, Level, SwitchNode(cases, else), Level)
  /\ \A header \in {ExpressionHeader, RangeHeader} :
       Runs(Taking, Level, ForNode(header), Level)
  /\ \A ends \in BOOLEAN : Runs(Taking, Level, ReturnNode(ends), Begun)
  /\ Runs(Taking, Level, FunctionCallOperatorNode, Begun)
<1>1. Runs(Taking, Level, FunctionDefinitionNode, Level)
  BY StepsTake, RunsFive DEF FunctionDefinitionNode
<1>2. Runs(Taking, Level, ClosureNode, Level)
  BY StepsTake, RunsEight, ZenonT(60) DEF ClosureNode
<1>3. Runs(Taking, Level, ForeverNode, Level)
  BY StepsTake, RunsThree DEF ForeverNode
<1>4. Runs(Taking, Level, DoNode, Level)
  BY StepsTake, RunsFive DEF DoNode, Parts
<1>5. Runs(Taking, Level, WhileNode, Level)
  BY StepsTake, RunsFive DEF WhileNode, Parts
<1>6. \A s, t \in Seq(Steps) : \A x, y, z :
        Runs(Taking, x, s, y) /\ Runs(Taking, y, t, z) => Runs(Taking, x, s \o t, z)
  BY RunsJoin
<1>7. /\ Put(Text) \in Steps /\ Put(Close) \in Steps /\ Put(Repeating) \in Steps
      /\ Line(Text) \in Steps /\ Line(Close) \in Steps
      /\ LineAndIndent(Open) \in Steps /\ LineAndIndent(Close \o Open) \in Steps
      /\ OutdentAndLine(Close) \in Steps /\ OutdentAndLine(Close \o Open) \in Steps
      /\ Indent \in Steps /\ Outdent \in Steps /\ Children \in Steps
  BY StepsAreSteps
<1>15. /\ Expression("if") \in Steps /\ Expression("forStart") \in Steps
       /\ Expression("forCondition") \in Steps /\ Expression("forStep") \in Steps
       /\ Expression("rangeStart") \in Steps /\ Expression("rangeEnd") \in Steps
       /\ Expression("switch") \in Steps /\ Expression("switchRepeated") \in Steps
       /\ Expression("case") \in Steps /\ Expression("laterCase") \in Steps
       /\ Expression("context") \in Steps /\ Expression("value") \in Steps
  BY StepsAreSteps DEF Parts
<1>8. << >> \in Seq(Steps) /\ \A x : Runs(Taking, x, << >>, x)
  BY RunsNone
<1>9. ASSUME NEW else \in BOOLEAN
      PROVE  Runs(Taking, Level, IfNode(else), Level)
  <2>. DEFINE start == <<Put(Text), Expression("if"), LineAndIndent(Open), Children>>
              other == <<OutdentAndLine(Close \o Open), Indent, Children>>
              middle == IF else THEN other ELSE << >>
              end == <<OutdentAndLine(Close)>>
  <2>1. start \in Seq(Steps) /\ other \in Seq(Steps) /\ end \in Seq(Steps)
    BY <1>7, <1>15
  <2>2. Runs(Taking, Level, start, Inside)
    BY StepsTake, RunsFour DEF Parts
  <2>3. Runs(Taking, Inside, other, Inside)
    BY StepsTake, RunsThree
  <2>4. Runs(Taking, Inside, end, Level)
    BY StepsTake, RunsOne
  <2>5. IfNode(else) = (start \o middle) \o end
    BY DEF IfNode
  <2>. HIDE DEF start, other, end
  <2>6. middle \in Seq(Steps) /\ Runs(Taking, Inside, middle, Inside)
    BY <1>8, <2>1, <2>3
  <2>. HIDE DEF middle
  <2>7. start \o middle \in Seq(Steps) /\ Runs(Taking, Level, start \o middle, Inside)
    BY <1>6, <2>1, <2>2, <2>6
  <2>. QED
    BY <1>6, <2>1, <2>4, <2>5, <2>7
<1>10. ASSUME NEW else \in BOOLEAN
       PROVE  Runs(Taking, Level, AtomicStatementNode(else), Level)
  <2>. DEFINE last == IF else THEN Children ELSE Line(Text)
              rest == <<Put(Text), LineAndIndent(Open), Children, OutdentAndLine(Close \o Open),
                        Indent, last, OutdentAndLine(Close)>>
  <2>1. last \in Steps /\ <<Inside, last, Inside>> \in Taking
    BY <1>7, StepsTake
  <2>2. Runs(Taking, Level, transactionAllocation, Level)
    BY StepsTake, RunsFour DEF transactionAllocation, Parts
  <2>3. transactionAllocation \in Seq(Steps)
    BY <1>7, <1>15 DEF transactionAllocation
  <2>4. AtomicStatementNode(else) = transactionAllocation \o rest
    BY DEF AtomicStatementNode
  <2>. HIDE DEF last
  <2>5. Runs(Taking, Level, rest, Level)
    BY <2>1, StepsTake, RunsSeven
  <2>6. rest \in Seq(Steps)
    BY <1>7, <2>1
  <2>. HIDE DEF rest
  <2>. QED
    BY <1>6, <2>2, <2>3, <2>4, <2>5, <2>6
<1>11. ASSUME NEW else \in BOOLEAN
       PROVE  /\ Runs(Taking, Before, SwitchNode(0, else), Level)
              /\ \A cases \in 1 .. 2 : Runs(Taking, Level, SwitchNode(cases, else), Level)
  <2>. DEFINE Case(before, argument, label) ==
                <<Put(before), Expression(argument), Expression(label),
                  LineAndIndent(Open), Children, Outdent>>
              one == Case(Text, "switch", "case")
              first == Case(Text, "switchRepeated", "case")
              second == Case(Close, "switchRepeated", "laterCase")
              other == <<LineAndIndent(Close \o Open), Children, Outdent>>
              last == IF else THEN other ELSE << >>
              end == <<Line(Close)>>
  <2>1. SwitchNode(0, else) = ((<< >> \o << >>) \o last) \o end
    BY DEF SwitchNode
  <2>2. SwitchNode(1, else) = ((one \o << >>) \o last) \o end
    BY DEF SwitchNode
  <2>3. SwitchNode(2, else) = ((first \o second) \o last) \o end
    BY DEF SwitchNode
  <2>4. one \in Seq(Steps) /\ first \in Seq(Steps) /\ second \in Seq(Steps)
    BY <1>7, <1>15
  <2>5. other \in Seq(Steps) /\ end \in Seq(Steps)
    BY <1>7
  <2>6. Runs(Taking, Level, one, Before) /\ Runs(Taking, Level, first, Before)
    BY StepsTake, RunsSix, ZenonT(60) DEF Parts
  <2>7. Runs(Taking, Before, second, Before)
    BY StepsTake, RunsSix, ZenonT(60) DEF Parts
  <2>8. Runs(Taking, Before, other, Before)
    BY StepsTake, RunsThree
  <2>9. Runs(Taking, Before, end, Level)
    BY StepsTake, RunsOne
  <2>. HIDE DEF one, first, second, other, end
  <2>10. last \in Seq(Steps) /\ Runs(Taking, Before, last, Before)
    BY <1>8, <2>5, <2>8
  <2>. HIDE DEF last
  <2>11. ASSUME NEW x, NEW s \in Seq(Steps), NEW t \in Seq(Steps),
                Runs(Taking, x, s, Before), Runs(Taking, Before, t, Before)
         PROVE  Runs(Taking, x, ((s \o t) \o last) \o end, Level)
    <3>1. s \o t \in Seq(Steps) /\ Runs(Taking, x, s \o t, Before)
      BY <1>6, <2>11
    <3>. DEFINE u == s \o t
    <3>2. u \in Seq(Steps) /\ Runs(Taking, x, u, Before)
      BY <3>1
    <3>. HIDE DEF u
    <3>3. u \o last \in Seq(Steps) /\ Runs(Taking, x, u \o last, Before)
      BY <1>6, <2>10, <3>2
    <3>4. Runs(Taking, x, (u \o last) \o end, Level)
      BY <1>6, <2>5, <2>9, <3>3
    <3>. QED
      BY <3>4 DEF u
  <2>12. Runs(Taking, Before, SwitchNode(0, else), Level)
    BY <1>8, <2>1, <2>11
  <2>13. Runs(Taking, Level, SwitchNode(1, else), Level)
    BY <1>8, <2>2, <2>4, <2>6, <2>11
  <2>14. Runs(Taking, Level, SwitchNode(2, else), Level)
    BY <2>3, <2>4, <2>6, <2>7, <2>11
  <2>15. 1 .. 2 = {1, 2}
    OBVIOUS
  <2>. QED
    BY <2>12, <2>13, <2>14, <2>15
<1>12. ASSUME NEW header \in {ExpressionHeader, RangeHeader}
       PROVE  Runs(Taking, Level, ForNode(header), Level)
  <2>. DEFINE start == <<Put(Text)>>
              end == <<LineAndIndent(Open), Children, OutdentAndLine(Close)>>
  <2>1. Runs(Taking, Begun, ExpressionHeader, Headed)
    BY StepsTake, RunsFour DEF ExpressionHeader, Parts
  <2>2. Runs(Taking, Begun, RangeHeader, Headed)
    BY StepsTake, RunsSix DEF RangeHeader, Parts
  <2>3. ExpressionHeader \in Seq(Steps) /\ RangeHeader \in Seq(Steps)
    BY <1>7, <1>15 DEF ExpressionHeader, RangeHeader
  <2>4. header \in Seq(Steps) /\ Runs(Taking, Begun, header, Headed)
    BY <2>1, <2>2, <2>3
  <2>5. Runs(Taking, Level, start, Begun)
    BY StepsTake, RunsOne
  <2>6. Runs(Taking, Headed, end, Level)
    BY StepsTake, RunsThree
  <2>7. start \in Seq(Steps) /\ end \in Seq(Steps)
    BY <1>7
  <2>8. ForNode(header) = (start \o header) \o end
    BY DEF ForNode
  <2>. HIDE DEF start, end
  <2>9. start \o header \in Seq(Steps) /\ Runs(Taking, Level, start \o header, Headed)
    BY <1>6, <2>4, <2>5, <2>7
  <2>. QED
    BY <1>6, <2>6, <2>7, <2>8, <2>9
<1>13. ASSUME NEW ends \in BOOLEAN
       PROVE  Runs(Taking, Level, ReturnNode(ends), Begun)
  <2>. DEFINE start == <<Put(Text), Expression("value")>>
              end == <<Line(Text), Line(Text), Put(Text)>>
              last == IF ends THEN end ELSE << >>
  <2>1. Runs(Taking, Level, start, Begun)
    BY StepsTake, RunsTwo DEF Parts
  <2>2. Runs(Taking, Begun, end, Begun)
    BY StepsTake, RunsThree
  <2>3. start \in Seq(Steps) /\ end \in Seq(Steps)
    BY <1>7, <1>15
  <2>4. ReturnNode(ends) = start \o last
    BY DEF ReturnNode
  <2>. HIDE DEF start, end
  <2>5. last \in Seq(Steps) /\ Runs(Taking, Begun, last, Begun)
    BY <1>8, <2>2, <2>3
  <2>. HIDE DEF last
  <2>. QED
    BY <1>6, <2>1, <2>3, <2>4, <2>5
<1>14. Runs(Taking, Level, FunctionCallOperatorNode, Begun)
  BY StepsTake, RunsThree DEF FunctionCallOperatorNode, Parts
<1>. QED
  BY <1>1, <1>2, <1>3, <1>4, <1>5, <1>9, <1>10, <1>11, <1>12, <1>13, <1>14

\* A visit to a statement owes nothing, but one to a switch without a case.
LEMMA ScriptsLead ==
  /\ Leads(Level, FunctionDefinitionNode, FALSE) /\ Leads(Level, ClosureNode, FALSE)
  /\ \A node \in Statements :
       IF node.script \in Caseless THEN Leads(Before, node.script, node.statement)
                                   ELSE Leads(Level, node.script, node.statement)
<1>1. ASSUME NEW a, NEW script, NEW statement \in BOOLEAN, Runs(Taking, a, script, Level)
      PROVE  Leads(a, script, statement)
  BY <1>1, TheStates DEF Leads
<1>2. ASSUME NEW a, NEW script, Runs(Taking, a, script, Begun)
      PROVE  Leads(a, script, TRUE)
  BY <1>2, TheStates DEF Leads
<1>3. ASSUME NEW script \in Caseless
      PROVE  Runs(Taking, Before, script, Level)
  BY ScriptsRun DEF Caseless
<1>4. ASSUME NEW node \in Statements
      PROVE  IF node.script \in Caseless THEN Leads(Before, node.script, node.statement)
                                         ELSE Leads(Level, node.script, node.statement)
  <2>0. node.statement \in BOOLEAN
    BY ScriptsAreScripts
  <2>1. CASE node.script \in Caseless
    BY <1>1, <1>3, <2>0, <2>1
  <2>2. CASE node.script \notin Caseless
    <3>. DEFINE Plain1 == {FunctionCallOperatorNode, ReturnNode(TRUE), ReturnNode(FALSE)}
                Loops == {IfNode(TRUE), IfNode(FALSE), ForeverNode, DoNode, WhileNode,
                          ForNode(ExpressionHeader), ForNode(RangeHeader),
                          AtomicStatementNode(TRUE), AtomicStatementNode(FALSE)}
                Switches == {SwitchNode(cases, else) : cases \in 0 .. 2, else \in BOOLEAN}
    <3>1. \A script \in Plain1 : Runs(Taking, Level, script, Begun)
      BY ScriptsRun
    <3>2. \A script \in Loops : Runs(Taking, Level, script, Level)
      BY ScriptsRun
    <3>3. \A script \in Switches \ Caseless : Runs(Taking, Level, script, Level)
      <4>1. ASSUME NEW cases \in 0 .. 2, NEW else \in BOOLEAN,
                   SwitchNode(cases, else) \notin Caseless
            PROVE  Runs(Taking, Level, SwitchNode(cases, else), Level)
        <5>1. cases # 0
          BY <4>1 DEF Caseless
        <5>2. cases \in 1 .. 2
          BY <5>1
        <5>. QED
          BY <5>2, ScriptsRun
      <4>. QED
        BY <4>1
    <3>4. Statements = {[script |-> script, statement |-> TRUE] : script \in Plain1}
                         \cup {[script |-> script, statement |-> FALSE] :
                                 script \in Loops \cup Switches}
      BY DEF Statements
    <3>. HIDE DEF Plain1, Loops, Switches
    <3>5. CASE \E script \in Plain1 : node = [script |-> script, statement |-> TRUE]
      <4>1. PICK script \in Plain1 : node = [script |-> script, statement |-> TRUE]
        BY <3>5
      <4>2. node.script = script /\ node.statement = TRUE
        BY <4>1
      <4>. QED
        BY <1>2, <2>2, <3>1, <4>2
    <3>6. CASE \E script \in Loops \cup Switches :
                 node = [script |-> script, statement |-> FALSE]
      <4>1. PICK script \in Loops \cup Switches : node = [script |-> script, statement |-> FALSE]
        BY <3>6
      <4>2. node.script = script /\ node.statement = FALSE
        BY <4>1
      <4>3. Runs(Taking, Level, script, Level)
        BY <2>2, <3>2, <3>3, <4>2
      <4>. QED
        BY <1>1, <2>2, <4>2, <4>3
    <3>. QED
      BY <3>4, <3>5, <3>6
  <2>. QED
    BY <2>1, <2>2
<1>. QED
  BY <1>1, <1>4, ScriptsRun

\* A step of a script is taken.
LEMMA LeadsOn ==
  ASSUME NEW a, NEW script \in Seq(Steps), script # << >>, NEW statement,
         Leads(a, script, statement)
  PROVE  \E b : <<a, Head(script), b>> \in Taking /\ Leads(b, Tail(script), statement)
<1>1. PICK c \in States :
        /\ Runs(Taking, a, script, c) /\ c.closes = 0 /\ c.outdents = 0 /\ c.header = FALSE
        /\ statement \/ c.begun = FALSE
  BY DEF Leads
<1>2. PICK b : <<a, Head(script), b>> \in Taking /\ Runs(Taking, b, Tail(script), c)
  BY <1>1, RunsNext
<1>. QED
  BY <1>1, <1>2 DEF Leads

-----------------------------------------------------------------------------
(* What visits owe. *)

\* What is owed when n of the visits have begun.
Owed(total, n) == IF n = 0 THEN Zero ELSE total[n]
Base(vs, total, i) == IF vs[i].closure # 0 THEN Zero ELSE Owed(total, i - 1)

\* A visit waits for another.
Waits(visit, inner) ==
  /\ visit.script # << >>
  /\ Head(visit.script).do = IF inner.closure # 0 THEN "accept" ELSE "visitChildren"

\* The visits vs owe own, and with those around them total.
Frames(vs, own, total) ==
  /\ own \in Seq(States) /\ Len(own) = Len(vs)
  /\ total \in Seq(States) /\ Len(total) = Len(vs)
  /\ \A i \in 1 .. Len(vs) :
       /\ Leads(own[i], vs[i].script, vs[i].statement)
       /\ vs[i].closure # 0 \/ i = 1 => ~vs[i].statement
       /\ total[i] = Sum(Base(vs, total, i), own[i])
  /\ \A i \in 1 .. Len(vs) : \A j \in 1 .. Len(vs) : j = i + 1 => Waits(vs[i], vs[j])

\* Sums are states.
LEMMA Sums ==
  /\ Zero \in States
  /\ \A t \in States : \A a \in States : Sum(t, a) \in States
  /\ \A a \in States : Sum(Zero, a) = a
<1>1. Zero \in States
  BY DEF Zero, States
<1>2. ASSUME NEW t \in States, NEW a \in States
      PROVE  Sum(t, a) \in States
  <2>1. /\ t.closes + a.closes \in Nat /\ t.outdents + a.outdents \in Nat
        /\ a.header \in BOOLEAN /\ a.begun \in BOOLEAN
    BY DEF States
  <2>. QED
    BY <2>1 DEF Sum, States
<1>3. ASSUME NEW a \in States
      PROVE  Sum(Zero, a) = a
  <2>1. a = [closes |-> a.closes, outdents |-> a.outdents, header |-> a.header, begun |-> a.begun]
        /\ a.closes \in Nat /\ a.outdents \in Nat
    BY DEF States
  <2>2. Zero.closes + a.closes = a.closes /\ Zero.outdents + a.outdents = a.outdents
    BY <2>1 DEF Zero
  <2>. QED
    BY <2>1, <2>2 DEF Sum
<1>. QED
  BY <1>1, <1>2, <1>3

\* What is owed is a state.
LEMMA OwedStates ==
  ASSUME NEW vs, NEW own, NEW total, Frames(vs, own, total), Len(vs) \in Nat
  PROVE  /\ \A n \in 0 .. Len(vs) : Owed(total, n) \in States
         /\ \A i \in 1 .. Len(vs) : Base(vs, total, i) \in States
<1>1. ASSUME NEW n \in 0 .. Len(vs)
      PROVE  Owed(total, n) \in States
  <2>1. CASE n = 0
    BY <2>1, Sums DEF Owed
  <2>2. CASE n # 0
    <3>1. n \in 1 .. Len(total) /\ total \in Seq(States)
      BY <2>2 DEF Frames
    <3>2. total[n] \in States
      BY <3>1
    <3>. QED
      BY <2>2, <3>2 DEF Owed
  <2>. QED
    BY <2>1, <2>2
<1>2. ASSUME NEW i \in 1 .. Len(vs)
      PROVE  Base(vs, total, i) \in States
  <2>1. i - 1 \in 0 .. Len(vs)
    OBVIOUS
  <2>. QED
    BY <1>1, <2>1, Sums DEF Base
<1>. QED
  BY <1>1, <1>2

\* The last visit takes a step.
LEMMA FramesAdvance ==
  ASSUME NEW vs \in Seq(Visits), NEW own, NEW total, Frames(vs, own, total), vs # << >>,
         NEW v \in Visits, v.statement = vs[Len(vs)].statement,
         v.closure = vs[Len(vs)].closure,
         NEW b \in States, Leads(b, v.script, v.statement)
  PROVE  LET n == Len(vs) IN
         Frames([vs EXCEPT ![n] = v], [own EXCEPT ![n] = b],
                [total EXCEPT ![n] = Sum(Base(vs, total, n), b)])
<1>. DEFINE n == Len(vs)
            c == Sum(Base(vs, total, n), b)
            vs2 == [vs EXCEPT ![n] = v]
            own2 == [own EXCEPT ![n] = b]
            total2 == [total EXCEPT ![n] = c]
<1>1. n \in Nat /\ n \in 1 .. n /\ n # 0
  OBVIOUS
<1>2. c \in States
  BY <1>1, OwedStates, Sums
<1>3. own \in Seq(States) /\ Len(own) = n /\ total \in Seq(States) /\ Len(total) = n
  BY DEF Frames
<1>. HIDE DEF c
<1>4. /\ vs2 \in Seq(Visits) /\ Len(vs2) = n
      /\ \A i \in 1 .. n : vs2[i] = IF i = n THEN v ELSE vs[i]
  BY <1>1, Replaced
<1>5. /\ own2 \in Seq(States) /\ Len(own2) = n
      /\ \A i \in 1 .. n : own2[i] = IF i = n THEN b ELSE own[i]
  <2>1. n \in 1 .. Len(own)
    BY <1>1, <1>3
  <2>. HIDE DEF n
  <2>. QED
    BY <1>3, <2>1, Replaced
<1>6. /\ total2 \in Seq(States) /\ Len(total2) = n
      /\ \A i \in 1 .. n : total2[i] = IF i = n THEN c ELSE total[i]
  <2>1. n \in 1 .. Len(total)
    BY <1>1, <1>3
  <2>. HIDE DEF n
  <2>. QED
    BY <1>2, <1>3, <2>1, Replaced
<1>. HIDE DEF vs2, own2, total2
<1>7. ASSUME NEW i \in 1 .. n
      PROVE  Base(vs2, total2, i) = Base(vs, total, i)
  <2>1. vs2[i].closure = vs[i].closure
    BY <1>4
  <2>. DEFINE j == i - 1
  <2>2. j = 0 \/ (j \in 1 .. n /\ j # n)
    BY <1>1
  <2>3. Owed(total2, j) = Owed(total, j)
    <3>. HIDE DEF j
    <3>. QED
      BY <1>6, <2>2 DEF Owed
  <2>. QED
    BY <2>1, <2>3 DEF Base
<1>8. ASSUME NEW i \in 1 .. n
      PROVE  /\ Leads(own2[i], vs2[i].script, vs2[i].statement)
             /\ vs2[i].closure # 0 \/ i = 1 => ~vs2[i].statement
             /\ total2[i] = Sum(Base(vs2, total2, i), own2[i])
  <2>1. CASE i = n
    <3>1. vs2[i] = v /\ own2[i] = b /\ total2[i] = c
      BY <1>4, <1>5, <1>6, <2>1
    <3>2. vs[n].closure # 0 \/ n = 1 => ~vs[n].statement
      BY <1>1 DEF Frames
    <3>3. total2[i] = Sum(Base(vs2, total2, i), own2[i])
      BY <1>7, <2>1, <3>1 DEF c
    <3>4. v.closure # 0 \/ n = 1 => ~v.statement
      BY <3>2
    <3>. HIDE DEF n
    <3>. QED
      BY <2>1, <3>1, <3>3, <3>4
  <2>2. CASE i # n
    <3>1. vs2[i] = vs[i] /\ own2[i] = own[i] /\ total2[i] = total[i]
      BY <1>4, <1>5, <1>6, <2>2
    <3>. QED
      BY <1>7, <3>1 DEF Frames
  <2>. QED
    BY <2>1, <2>2
<1>9. ASSUME NEW i \in 1 .. n, NEW j \in 1 .. n, j = i + 1
      PROVE  Waits(vs2[i], vs2[j])
  <2>1. vs2[i] = vs[i] /\ vs2[j].closure = vs[j].closure
    BY <1>1, <1>4, <1>9
  <2>2. Waits(vs[i], vs[j])
    BY <1>9 DEF Frames
  <2>. QED
    BY <2>1, <2>2 DEF Waits
<1>10. Frames(vs2, own2, total2)
  BY <1>4, <1>5, <1>6, <1>8, <1>9 DEF Frames
<1>. QED
  BY <1>10 DEF vs2, own2, total2, c

\* A visit begins.
LEMMA FramesPush ==
  ASSUME NEW vs \in Seq(Visits), NEW own, NEW total, Frames(vs, own, total),
         NEW v \in Visits, vs # << >> => Waits(vs[Len(vs)], v),
         v.closure # 0 \/ vs = << >> => ~v.statement,
         NEW a \in States, Leads(a, v.script, v.statement),
         NEW c \in States,
         c = Sum(IF v.closure # 0 THEN Zero ELSE Owed(total, Len(vs)), a)
  PROVE  Frames(Append(vs, v), Append(own, a), Append(total, c))
<1>. DEFINE n == Len(vs)
            vs2 == Append(vs, v)
            own2 == Append(own, a)
            total2 == Append(total, c)
<1>1. n \in Nat
  OBVIOUS
<1>2. own \in Seq(States) /\ Len(own) = n /\ total \in Seq(States) /\ Len(total) = n
  BY DEF Frames
<1>3. /\ vs2 \in Seq(Visits) /\ Len(vs2) = n + 1 /\ vs2[n + 1] = v
      /\ \A i \in 1 .. n : vs2[i] = vs[i]
  BY Appended
<1>4. /\ own2 \in Seq(States) /\ Len(own2) = n + 1 /\ own2[n + 1] = a
      /\ \A i \in 1 .. n : own2[i] = own[i]
  <2>. HIDE DEF n
  <2>. QED
    BY <1>2, Appended
<1>5. /\ total2 \in Seq(States) /\ Len(total2) = n + 1 /\ total2[n + 1] = c
      /\ \A i \in 1 .. n : total2[i] = total[i]
  <2>. HIDE DEF n
  <2>. QED
    BY <1>2, Appended
<1>6. vs # << >> => n \in 1 .. n /\ n # 0
  OBVIOUS
<1>6a. vs = << >> => n = 0
  OBVIOUS
<1>. HIDE DEF vs2, own2, total2
<1>7. \A k \in 0 .. n : Owed(total2, k) = Owed(total, k)
  <2>1. \A k \in 0 .. n : k = 0 \/ k \in 1 .. n
    BY <1>1
  <2>. QED
    BY <1>5, <2>1 DEF Owed
<1>8. ASSUME NEW i \in 1 .. n + 1
      PROVE  /\ Leads(own2[i], vs2[i].script, vs2[i].statement)
             /\ vs2[i].closure # 0 \/ i = 1 => ~vs2[i].statement
             /\ total2[i] = Sum(Base(vs2, total2, i), own2[i])
  <2>1. CASE i = n + 1
    <3>1. vs2[i] = v /\ own2[i] = a /\ total2[i] = c
      BY <1>3, <1>4, <1>5, <2>1
    <3>2. i - 1 = n /\ n \in 0 .. n
      BY <1>1, <2>1
    <3>3. Owed(total2, i - 1) = Owed(total, n)
      BY <1>7, <3>2
    <3>4. Base(vs2, total2, i) = IF v.closure # 0 THEN Zero ELSE Owed(total, n)
      BY <3>1, <3>3 DEF Base
    <3>5. i = 1 => vs = << >>
      BY <1>1, <1>6, <2>1
    <3>. QED
      BY <3>1, <3>4, <3>5
  <2>2. CASE i \in 1 .. n
    <3>1. vs2[i] = vs[i] /\ own2[i] = own[i] /\ total2[i] = total[i]
      BY <1>3, <1>4, <1>5, <2>2
    <3>2. i - 1 \in 0 .. n
      BY <1>1, <2>2
    <3>3. Base(vs2, total2, i) = Base(vs, total, i)
      BY <1>7, <3>1, <3>2 DEF Base
    <3>. QED
      BY <2>2, <3>1, <3>3 DEF Frames
  <2>. QED
    BY <1>1, <2>1, <2>2
<1>9. ASSUME NEW i \in 1 .. n + 1, NEW j \in 1 .. n + 1, j = i + 1
      PROVE  Waits(vs2[i], vs2[j])
  <2>1. i \in 1 .. n
    BY <1>1, <1>9
  <2>2. CASE j = n + 1
    <3>1. i = n
      BY <1>1, <1>9, <2>2
    <3>2. vs2[i] = vs[n] /\ vs2[j] = v
      BY <1>3, <2>1, <2>2, <3>1
    <3>3. vs # << >>
      BY <1>6a, <2>1, <3>1
    <3>. QED
      BY <3>2, <3>3
  <2>3. CASE j \in 1 .. n
    <3>1. vs2[i] = vs[i] /\ vs2[j] = vs[j]
      BY <1>3, <2>1, <2>3
    <3>. QED
      BY <1>9, <2>1, <2>3, <3>1 DEF Frames
  <2>. QED
    BY <1>1, <2>2, <2>3
<1>10. Frames(vs2, own2, total2)
  BY <1>3, <1>4, <1>5, <1>8, <1>9 DEF Frames
<1>. QED
  BY <1>10 DEF vs2, own2, total2

\* A visit ends.
LEMMA FramesPop ==
  ASSUME NEW vs \in Seq(Visits), NEW own, NEW total, Frames(vs, own, total), vs # << >>
  PROVE  Frames(Front(vs), Front(own), Front(total))
<1>. DEFINE n == Len(vs)
            vs2 == Front(vs)
            own2 == Front(own)
            total2 == Front(total)
<1>1. n \in Nat /\ n >= 1
  OBVIOUS
<1>2. own \in Seq(States) /\ Len(own) = n /\ total \in Seq(States) /\ Len(total) = n
  BY DEF Frames
<1>3. vs2 \in Seq(Visits) /\ Len(vs2) = n - 1 /\ \A i \in 1 .. n - 1 : vs2[i] = vs[i]
  BY <1>1, Taken
<1>4. own2 \in Seq(States) /\ Len(own2) = n - 1 /\ \A i \in 1 .. n - 1 : own2[i] = own[i]
  <2>. HIDE DEF n
  <2>. QED
    BY <1>1, <1>2, Taken
<1>5. total2 \in Seq(States) /\ Len(total2) = n - 1 /\ \A i \in 1 .. n - 1 : total2[i] = total[i]
  <2>. HIDE DEF n
  <2>. QED
    BY <1>1, <1>2, Taken
<1>. HIDE DEF vs2, own2, total2
<1>6. ASSUME NEW i \in 1 .. n - 1
      PROVE  /\ Leads(own2[i], vs2[i].script, vs2[i].statement)
             /\ vs2[i].closure # 0 \/ i = 1 => ~vs2[i].statement
             /\ total2[i] = Sum(Base(vs2, total2, i), own2[i])
  <2>1. vs2[i] = vs[i] /\ own2[i] = own[i] /\ total2[i] = total[i] /\ i \in 1 .. n
    BY <1>1, <1>3, <1>4, <1>5
  <2>. DEFINE j == i - 1
  <2>2. j = 0 \/ j \in 1 .. n - 1
    BY <1>1
  <2>3. Owed(total2, j) = Owed(total, j)
    <3>. HIDE DEF j
    <3>. QED
      BY <1>5, <2>2 DEF Owed
  <2>4. Base(vs2, total2, i) = Base(vs, total, i)
    BY <2>1, <2>3 DEF Base
  <2>. QED
    BY <2>1, <2>4 DEF Frames
<1>7. ASSUME NEW i \in 1 .. n - 1, NEW j \in 1 .. n - 1, j = i + 1
      PROVE  Waits(vs2[i], vs2[j])
  <2>1. vs2[i] = vs[i] /\ vs2[j] = vs[j] /\ i \in 1 .. n /\ j \in 1 .. n
    BY <1>1, <1>3
  <2>. QED
    BY <1>7, <2>1 DEF Frames
<1>8. Frames(vs2, own2, total2)
  BY <1>3, <1>4, <1>5, <1>6, <1>7 DEF Frames
<1>. QED
  BY <1>8 DEF vs2, own2, total2

-----------------------------------------------------------------------------
(* The sources that visits write to. *)

\* The source that the first i of the visits vs write to.
Number(vs, i) == 1 + Cardinality(ClosureVisits(vs, i))

\* Each source follows what the visits owe that write to it; whole tells which
\* sources have as many blocks as that.
Hold(vs, srcs, total, whole) ==
  /\ srcs \in Seq(Sources) /\ Len(srcs) = Number(vs, Len(vs))
  /\ whole \in Seq(BOOLEAN) /\ Len(whole) = Len(srcs)
  /\ \A i \in 0 .. Len(vs) :
       i = Len(vs) \/ vs[i + 1].closure # 0 =>
         Follows(srcs[Number(vs, i)], Owed(total, i), whole[Number(vs, i)])

Owing(vs, srcs, own, total, whole) ==
  Frames(vs, own, total) /\ Hold(vs, srcs, total, whole)

\* They are numbered in the order of the visits.
LEMMA Numbers ==
  ASSUME NEW vs, NEW n \in Nat
  PROVE  /\ \A i \in 0 .. n : Number(vs, i) \in 1 .. Number(vs, n)
         /\ Number(vs, 0) = 1 /\ Number(vs, n) \in Nat
         /\ n # 0 => Number(vs, n) = Number(vs, n - 1) + (IF vs[n].closure # 0 THEN 1 ELSE 0)
<1>1. \A i \in Nat : Number(vs, i) \in Nat /\ Number(vs, i) >= 1
  BY Counted DEF Number
<1>2. ASSUME NEW i \in 0 .. n
      PROVE  Number(vs, i) <= Number(vs, n)
  <2>1. i \in Nat /\ i <= n
    OBVIOUS
  <2>2. ClosureVisits(vs, i) \subseteq ClosureVisits(vs, n)
    BY <2>1 DEF ClosureVisits
  <2>3. IsFiniteSet(ClosureVisits(vs, n))
    BY Counted
  <2>4. Cardinality(ClosureVisits(vs, i)) <= Cardinality(ClosureVisits(vs, n))
    BY <2>2, <2>3, FS_Subset
  <2>5. /\ Cardinality(ClosureVisits(vs, i)) \in Nat
        /\ Cardinality(ClosureVisits(vs, n)) \in Nat
    BY <2>1, Counted
  <2>. QED
    BY <2>4, <2>5 DEF Number
<1>3. ASSUME NEW i \in 0 .. n
      PROVE  Number(vs, i) \in 1 .. Number(vs, n)
  <2>1. i \in Nat
    OBVIOUS
  <2>. QED
    BY <1>1, <1>2, <2>1
<1>4. Number(vs, 0) = 1
  <2>1. ClosureVisits(vs, 0) = {}
    BY DEF ClosureVisits
  <2>. QED
    BY <2>1, FS_EmptySet DEF Number
<1>5. ASSUME n # 0
      PROVE  Number(vs, n) = Number(vs, n - 1) + (IF vs[n].closure # 0 THEN 1 ELSE 0)
  <2>. DEFINE k == n - 1
  <2>1. k \in Nat /\ k + 1 = n
    BY <1>5
  <2>. HIDE DEF k
  <2>2. \A i \in 1 .. k : vs[i].closure = vs[i].closure
    OBVIOUS
  <2>3. Cardinality(ClosureVisits(vs, k + 1))
          = Cardinality(ClosureVisits(vs, k)) + (IF vs[k + 1].closure # 0 THEN 1 ELSE 0)
    BY <2>1, <2>2, CountedNext
  <2>4. Cardinality(ClosureVisits(vs, k)) \in Nat
    BY <2>1, Counted
  <2>5. Number(vs, n) = Number(vs, k) + (IF vs[n].closure # 0 THEN 1 ELSE 0)
    BY <2>1, <2>3, <2>4 DEF Number
  <2>. QED
    BY <2>5 DEF k
<1>. QED
  BY <1>1, <1>3, <1>4, <1>5

\* The numbers depend on the closures only.
LEMMA NumbersStay ==
  ASSUME NEW vs, NEW ws, NEW n \in Nat, \A i \in 1 .. n : ws[i].closure = vs[i].closure
  PROVE  \A i \in 0 .. n : Number(ws, i) = Number(vs, i)
<1>1. ASSUME NEW i \in 0 .. n
      PROVE  Number(ws, i) = Number(vs, i)
  <2>1. ClosureVisits(ws, i) = ClosureVisits(vs, i)
    BY DEF ClosureVisits
  <2>. QED
    BY <2>1 DEF Number
<1>. QED
  BY <1>1

\* A visit to a closure has a source that those before it do not write to.
LEMMA NumbersBefore ==
  ASSUME NEW vs, NEW n \in Nat, NEW i \in 0 .. n - 1, vs[i + 1].closure # 0
  PROVE  Number(vs, i) \in 1 .. Number(vs, n) - 1
<1>. DEFINE j == i + 1
<1>1. j \in 0 .. n /\ j # 0 /\ j \in Nat /\ j - 1 = i
  OBVIOUS
<1>. HIDE DEF j
<1>2. Number(vs, j) = Number(vs, j - 1) + 1
  <2>1. vs[j].closure # 0
    BY DEF j
  <2>. QED
    BY <1>1, <2>1, Numbers
<1>3. Number(vs, j) \in 1 .. Number(vs, n) /\ Number(vs, n) \in Nat
  BY <1>1, Numbers
<1>4. Number(vs, i) \in 1 .. Number(vs, j) /\ Number(vs, j) \in Nat
  <2>1. i \in 0 .. j
    BY <1>1 DEF j
  <2>. QED
    BY <1>1, <2>1, Numbers
<1>. QED
  BY <1>1, <1>2, <1>3, <1>4

\* What the innermost visit writes to.
LEMMA InnermostSource ==
  ASSUME NEW vs \in Seq(Visits), NEW srcs, NEW own, NEW total, NEW whole,
         Owing(vs, srcs, own, total, whole)
  PROVE  /\ Len(srcs) \in 1 .. Len(srcs) /\ Len(whole) \in 1 .. Len(whole)
         /\ Len(whole) = Len(srcs) /\ whole[Len(srcs)] \in BOOLEAN
         /\ Owed(total, Len(vs)) \in States
         /\ Follows(srcs[Len(srcs)], Owed(total, Len(vs)), whole[Len(srcs)])
         /\ vs # << >> =>
              LET n == Len(vs) IN
              /\ own[n] \in States /\ Base(vs, total, n) \in States
              /\ Leads(own[n], vs[n].script, vs[n].statement)
              /\ vs[n].closure # 0 \/ n = 1 => ~vs[n].statement
              /\ Owed(total, n) = Sum(Base(vs, total, n), own[n])
<1>. DEFINE n == Len(vs)
            m == Len(srcs)
<1>1. n \in Nat /\ n \in 0 .. n
  OBVIOUS
<1>2. m = Number(vs, n)
  BY DEF Owing, Hold
<1>. HIDE DEF m
<1>3. m \in 1 .. m
  BY <1>1, <1>2, Numbers
<1>4. whole \in Seq(BOOLEAN) /\ Len(whole) = m
  BY DEF Owing, Hold, m
<1>5. whole[m] \in BOOLEAN
  BY <1>3, <1>4
<1>6. Owed(total, n) \in States
  BY <1>1, OwedStates DEF Owing
<1>7. Follows(srcs[m], Owed(total, n), whole[m])
  BY <1>1, <1>2 DEF Owing, Hold
<1>8. ASSUME vs # << >>
      PROVE  /\ own[n] \in States /\ Base(vs, total, n) \in States
             /\ Leads(own[n], vs[n].script, vs[n].statement)
             /\ vs[n].closure # 0 \/ n = 1 => ~vs[n].statement
             /\ Owed(total, n) = Sum(Base(vs, total, n), own[n])
  <2>1. n \in 1 .. n /\ n # 0
    BY <1>8
  <2>2. own \in Seq(States) /\ Len(own) = n
    BY DEF Owing, Frames
  <2>. HIDE DEF n
  <2>3. own[n] \in States
    BY <2>1, <2>2
  <2>4. Base(vs, total, n) \in States
    BY <1>1, <2>1, OwedStates DEF Owing, n
  <2>. QED
    BY <2>1, <2>3, <2>4 DEF Owing, Frames, Owed, n
<1>. QED
  BY <1>3, <1>4, <1>5, <1>6, <1>7, <1>8 DEF m

\* The innermost visit takes a step.
LEMMA OwingAdvance ==
  ASSUME NEW vs \in Seq(Visits), NEW srcs, NEW own, NEW total, NEW whole,
         Owing(vs, srcs, own, total, whole), vs # << >>,
         NEW v \in Visits, v.statement = vs[Len(vs)].statement,
         v.closure = vs[Len(vs)].closure,
         NEW b \in States, Leads(b, v.script, v.statement),
         NEW u, Follows(u, Sum(Base(vs, total, Len(vs)), b), whole[Len(srcs)])
  PROVE  \E own2, total2 :
           Owing([vs EXCEPT ![Len(vs)] = v], [srcs EXCEPT ![Len(srcs)] = u],
                 own2, total2, whole)
<1>. DEFINE n == Len(vs)
            m == Len(srcs)
            c == Sum(Base(vs, total, n), b)
            vs2 == [vs EXCEPT ![n] = v]
            srcs2 == [srcs EXCEPT ![m] = u]
            own2 == [own EXCEPT ![n] = b]
            total2 == [total EXCEPT ![n] = c]
<1>1. n \in Nat /\ n \in 1 .. n /\ n # 0
  OBVIOUS
<1>2. Frames(vs2, own2, total2)
  BY FramesAdvance DEF Owing
<1>3. m \in 1 .. m /\ m = Number(vs, n)
  BY InnermostSource DEF Owing, Hold
<1>4. c \in States
  BY InnermostSource, Sums
<1>5. u \in Sources
  BY DEF Follows
<1>6. /\ vs2 \in Seq(Visits) /\ Len(vs2) = n
      /\ \A i \in 1 .. n : vs2[i] = IF i = n THEN v ELSE vs[i]
  BY <1>1, Replaced
<1>7. /\ srcs2 \in Seq(Sources) /\ Len(srcs2) = m
      /\ \A i \in 1 .. m : srcs2[i] = IF i = m THEN u ELSE srcs[i]
  <2>1. srcs \in Seq(Sources)
    BY DEF Owing, Hold
  <2>. QED
    BY <1>3, <1>5, <2>1, Replaced
<1>8. /\ Len(total2) = n
      /\ \A i \in 1 .. n : total2[i] = IF i = n THEN c ELSE total[i]
  <2>1. total \in Seq(States) /\ Len(total) = n
    BY DEF Owing, Frames
  <2>2. n \in 1 .. Len(total)
    BY <1>1, <2>1
  <2>. HIDE DEF n, c
  <2>. QED
    BY <1>4, <2>1, <2>2, Replaced
<1>9. Follows(u, c, whole[m])
  OBVIOUS
<1>. HIDE DEF vs2, srcs2, total2, c, m
<1>10. \A i \in 1 .. n : vs2[i].closure = vs[i].closure
  BY <1>6
<1>11. \A i \in 0 .. n : Number(vs2, i) = Number(vs, i)
  BY <1>1, <1>10, NumbersStay
<1>12. ASSUME NEW i \in 0 .. n, i = n \/ vs2[i + 1].closure # 0
       PROVE  Follows(srcs2[Number(vs2, i)], Owed(total2, i), whole[Number(vs2, i)])
  <2>1. CASE i = n
    <3>1. Number(vs2, i) = m
      BY <1>3, <1>11, <2>1
    <3>2. srcs2[m] = u
      BY <1>3, <1>7
    <3>3. Owed(total2, i) = c
      BY <1>1, <1>8, <2>1 DEF Owed
    <3>. QED
      BY <1>9, <3>1, <3>2, <3>3
  <2>2. CASE i # n
    <3>. DEFINE j == i + 1
    <3>1. j \in 1 .. n /\ i \in 0 .. n - 1
      BY <1>1, <2>2
    <3>2. vs[i + 1].closure # 0
      <4>1. vs2[j].closure = vs[j].closure
        BY <1>10, <3>1
      <4>. QED
        BY <1>12, <2>2, <4>1
    <3>3. Number(vs, i) \in 1 .. m - 1
      BY <1>1, <1>3, <3>1, <3>2, NumbersBefore
    <3>4. srcs2[Number(vs, i)] = srcs[Number(vs, i)]
      BY <1>3, <1>7, <3>3
    <3>5. Owed(total2, i) = Owed(total, i)
      <4>1. i = 0 \/ (i \in 1 .. n /\ i # n)
        BY <2>2
      <4>. QED
        BY <1>8, <4>1 DEF Owed
    <3>6. Follows(srcs[Number(vs, i)], Owed(total, i), whole[Number(vs, i)])
      BY <3>2 DEF Owing, Hold
    <3>. QED
      BY <1>11, <3>4, <3>5, <3>6
  <2>. QED
    BY <2>1, <2>2
<1>13. Len(srcs2) = Number(vs2, Len(vs2))
  BY <1>1, <1>3, <1>6, <1>7, <1>11
<1>14. whole \in Seq(BOOLEAN) /\ Len(whole) = Len(srcs2)
  BY <1>7 DEF Owing, Hold, m
<1>15. Hold(vs2, srcs2, total2, whole)
  BY <1>6, <1>7, <1>12, <1>13, <1>14 DEF Hold
<1>16. Owing(vs2, srcs2, own2, total2, whole)
  BY <1>2, <1>15 DEF Owing
<1>. QED
  BY <1>16 DEF vs2, srcs2, m

\* A visit begins that writes to the same source.
LEMMA OwingPush ==
  ASSUME NEW vs \in Seq(Visits), NEW srcs, NEW own, NEW total, NEW whole,
         Owing(vs, srcs, own, total, whole),
         NEW v \in Visits, vs # << >> => Waits(vs[Len(vs)], v), v.closure = 0,
         vs = << >> => ~v.statement,
         NEW a \in States, Leads(a, v.script, v.statement), NEW w \in BOOLEAN,
         Follows(srcs[Len(srcs)], Sum(Owed(total, Len(vs)), a), w)
  PROVE  \E own2, total2 :
           Owing(Append(vs, v), srcs, own2, total2, [whole EXCEPT ![Len(srcs)] = w])
<1>. DEFINE n == Len(vs)
            m == Len(srcs)
            c == Sum(Owed(total, n), a)
            vs2 == Append(vs, v)
            own2 == Append(own, a)
            total2 == Append(total, c)
            whole2 == [whole EXCEPT ![m] = w]
<1>1. n \in Nat /\ n \in 0 .. n
  OBVIOUS
<1>2. c \in States
  <2>1. Owed(total, n) \in States
    BY InnermostSource
  <2>. QED
    BY <2>1, Sums
<1>3. m \in 1 .. m /\ m = Number(vs, n)
  BY InnermostSource DEF Owing, Hold
<1>4. vs2 \in Seq(Visits) /\ Len(vs2) = n + 1 /\ vs2[n + 1] = v /\ \A i \in 1 .. n : vs2[i] = vs[i]
  BY Appended
<1>5. Len(total2) = n + 1 /\ total2[n + 1] = c /\ \A i \in 1 .. n : total2[i] = total[i]
  <2>1. total \in Seq(States) /\ Len(total) = n
    BY DEF Owing, Frames
  <2>. HIDE DEF n, c
  <2>. QED
    BY <1>2, <2>1, Appended
<1>6. /\ whole2 \in Seq(BOOLEAN) /\ Len(whole2) = m
      /\ \A i \in 1 .. m : whole2[i] = IF i = m THEN w ELSE whole[i]
  <2>1. whole \in Seq(BOOLEAN) /\ Len(whole) = m
    BY DEF Owing, Hold
  <2>2. m \in 1 .. Len(whole)
    BY <1>3, <2>1
  <2>. HIDE DEF m
  <2>. QED
    BY <2>1, <2>2, Replaced
<1>7. Frames(vs2, own2, total2)
  <2>1. c = Sum(IF v.closure # 0 THEN Zero ELSE Owed(total, Len(vs)), a)
    OBVIOUS
  <2>. HIDE DEF c
  <2>. QED
    BY <1>2, <2>1, FramesPush DEF Owing
<1>8. Follows(srcs[m], c, w)
  OBVIOUS
<1>. HIDE DEF vs2, own2, total2, whole2, c, m
<1>9. \A i \in 0 .. n : Number(vs2, i) = Number(vs, i)
  <2>1. \A i \in 1 .. n : vs2[i].closure = vs[i].closure
    BY <1>4
  <2>. QED
    BY <1>1, <2>1, NumbersStay
<1>10. Number(vs2, n + 1) = m
  <2>. DEFINE j == n + 1
  <2>1. j \in Nat /\ j # 0 /\ j - 1 = n
    BY <1>1
  <2>2. vs2[j].closure = 0
    BY <1>4
  <2>. HIDE DEF j
  <2>3. Number(vs2, j) = Number(vs2, j - 1) + 0
    BY <2>1, <2>2, Numbers
  <2>4. Number(vs2, j - 1) = m /\ m \in Nat
    BY <1>1, <1>3, <1>9, <2>1
  <2>. QED
    BY <2>3, <2>4 DEF j
<1>11. ASSUME NEW i \in 0 .. n + 1, i = n + 1 \/ vs2[i + 1].closure # 0
       PROVE  Follows(srcs[Number(vs2, i)], Owed(total2, i), whole2[Number(vs2, i)])
  <2>1. CASE i = n + 1
    <3>1. Owed(total2, i) = c
      BY <1>1, <1>5, <2>1 DEF Owed
    <3>2. whole2[m] = w
      BY <1>3, <1>6
    <3>. QED
      BY <1>8, <1>10, <2>1, <3>1, <3>2
  <2>2. CASE i # n + 1
    <3>. DEFINE j == i + 1
    <3>1. j \in 1 .. n + 1 /\ i \in 0 .. n
      BY <1>1, <2>2
    <3>2. j # n + 1
      BY <1>4, <1>11, <2>2
    <3>3. j \in 1 .. n /\ i \in 0 .. n - 1
      BY <1>1, <3>1, <3>2
    <3>4. vs[i + 1].closure # 0
      BY <1>4, <1>11, <2>2, <3>3
    <3>5. Number(vs, i) \in 1 .. m - 1
      BY <1>1, <1>3, <3>3, <3>4, NumbersBefore
    <3>6. whole2[Number(vs, i)] = whole[Number(vs, i)]
      BY <1>3, <1>6, <3>5
    <3>7. Owed(total2, i) = Owed(total, i)
      <4>1. i = 0 \/ i \in 1 .. n
        BY <3>3
      <4>. QED
        BY <1>5, <4>1 DEF Owed
    <3>8. Follows(srcs[Number(vs, i)], Owed(total, i), whole[Number(vs, i)])
      BY <3>1, <3>4 DEF Owing, Hold
    <3>. QED
      BY <1>9, <3>1, <3>6, <3>7, <3>8
  <2>. QED
    BY <2>1, <2>2
<1>12. srcs \in Seq(Sources) /\ Len(srcs) = Number(vs2, n + 1) /\ Len(whole2) = Len(srcs)
  BY <1>6, <1>10 DEF Owing, Hold, m
<1>13. Hold(vs2, srcs, total2, whole2)
  BY <1>4, <1>6, <1>11, <1>12 DEF Hold
<1>14. Owing(vs2, srcs, own2, total2, whole2)
  BY <1>7, <1>13 DEF Owing
<1>. QED
  BY <1>14 DEF vs2, whole2, m

\* A visit to a closure begins, with a source of its own.
LEMMA OwingPushClosure ==
  ASSUME NEW vs \in Seq(Visits), NEW srcs, NEW own, NEW total, NEW whole,
         Owing(vs, srcs, own, total, whole),
         NEW v \in Visits, vs # << >> => Waits(vs[Len(vs)], v), v.closure # 0,
         ~v.statement, Leads(Level, v.script, v.statement)
  PROVE  \E own2, total2 :
           Owing(Append(vs, v), Append(srcs, EmptySource), own2, total2, Append(whole, TRUE))
<1>. DEFINE n == Len(vs)
            m == Len(srcs)
            vs2 == Append(vs, v)
            srcs2 == Append(srcs, EmptySource)
            own2 == Append(own, Level)
            total2 == Append(total, Level)
            whole2 == Append(whole, TRUE)
<1>1. n \in Nat /\ n \in 0 .. n
  OBVIOUS
<1>2. Level \in States /\ Sum(Zero, Level) = Level
  BY TheStates, Sums
<1>3. m \in 1 .. m /\ m = Number(vs, n) /\ m \in Nat
  <2>1. m \in 1 .. m /\ m = Number(vs, n)
    BY InnermostSource DEF Owing, Hold
  <2>. HIDE DEF m
  <2>. QED
    BY <1>1, <2>1, Numbers
<1>4. vs2 \in Seq(Visits) /\ Len(vs2) = n + 1 /\ vs2[n + 1] = v /\ \A i \in 1 .. n : vs2[i] = vs[i]
  BY Appended
<1>5. Len(total2) = n + 1 /\ total2[n + 1] = Level /\ \A i \in 1 .. n : total2[i] = total[i]
  <2>1. total \in Seq(States) /\ Len(total) = n
    BY DEF Owing, Frames
  <2>. HIDE DEF n
  <2>. QED
    BY <1>2, <2>1, Appended
<1>6. /\ whole2 \in Seq(BOOLEAN) /\ Len(whole2) = m + 1 /\ whole2[m + 1] = TRUE
      /\ \A i \in 1 .. m : whole2[i] = whole[i]
  <2>1. whole \in Seq(BOOLEAN) /\ Len(whole) = m
    BY DEF Owing, Hold
  <2>. DEFINE yes == TRUE
  <2>2. yes \in BOOLEAN
    OBVIOUS
  <2>. HIDE DEF m, yes
  <2>3. /\ Append(whole, yes) \in Seq(BOOLEAN) /\ Len(Append(whole, yes)) = m + 1
        /\ Append(whole, yes)[m + 1] = yes
        /\ \A i \in 1 .. m : Append(whole, yes)[i] = whole[i]
    BY <2>1, <2>2, Appended
  <2>. QED
    BY <2>3 DEF yes
<1>7. EmptySource \in Sources /\ Follows(EmptySource, Level, TRUE)
  <2>1. /\ EmptySource.level = 0 /\ EmptySource.lines = << >> /\ EmptySource.stream = << >>
        /\ EmptySource \in Sources
    BY DEF EmptySource, Sources
  <2>2. All(EmptySource) = << >>
    BY <2>1 DEF All
  <2>3. Flat \in Shapes /\ Flat.deep = 0 /\ Flat.header = FALSE /\ Flat.matched
    BY DEF Flat, Shapes
  <2>4. Runs(Shaping, Flat, All(EmptySource), Flat)
    BY <2>2, RunsNone
  <2>5. Flat.header = Level.header
    BY <2>3, TheStates
  <2>7. Flat.deep <= Level.closes /\ Flat.deep = Level.closes
    BY <2>3, TheStates
  <2>6. EmptySource.level = Level.outdents
    BY <2>1, TheStates
  <2>. QED
    BY <2>1, <2>3, <2>4, <2>5, <2>6, <2>7 DEF Follows
<1>8. /\ srcs2 \in Seq(Sources) /\ Len(srcs2) = m + 1 /\ srcs2[m + 1] = EmptySource
      /\ \A i \in 1 .. m : srcs2[i] = srcs[i]
  <2>1. srcs \in Seq(Sources)
    BY DEF Owing, Hold
  <2>. QED
    BY <1>7, <2>1, Appended
<1>9. Frames(vs2, own2, total2)
  <2>1. Level = Sum(IF v.closure # 0 THEN Zero ELSE Owed(total, Len(vs)), Level)
    BY <1>2
  <2>. QED
    BY <1>2, <2>1, FramesPush DEF Owing
<1>. HIDE DEF vs2, own2, total2, whole2, srcs2, m
<1>10. \A i \in 0 .. n : Number(vs2, i) = Number(vs, i)
  <2>1. \A i \in 1 .. n : vs2[i].closure = vs[i].closure
    BY <1>4
  <2>. QED
    BY <1>1, <2>1, NumbersStay
<1>11. Number(vs2, n + 1) = m + 1
  <2>. DEFINE j == n + 1
  <2>1. j \in Nat /\ j # 0 /\ j - 1 = n
    BY <1>1
  <2>2. vs2[j].closure # 0
    BY <1>4
  <2>. HIDE DEF j
  <2>3. Number(vs2, j) = Number(vs2, j - 1) + 1
    BY <2>1, <2>2, Numbers
  <2>4. Number(vs2, j - 1) = m
    BY <1>1, <1>3, <1>10, <2>1
  <2>. QED
    BY <2>3, <2>4 DEF j
<1>12. ASSUME NEW i \in 0 .. n + 1, i = n + 1 \/ vs2[i + 1].closure # 0
       PROVE  Follows(srcs2[Number(vs2, i)], Owed(total2, i), whole2[Number(vs2, i)])
  <2>1. CASE i = n + 1
    <3>1. Owed(total2, i) = Level
      BY <1>1, <1>5, <2>1 DEF Owed
    <3>. QED
      BY <1>6, <1>7, <1>8, <1>11, <2>1, <3>1
  <2>2. CASE i # n + 1
    <3>1. i \in 0 .. n
      BY <1>1, <2>2
    <3>2. i = n \/ vs[i + 1].closure # 0
      <4>1. i # n => i + 1 \in 1 .. n
        BY <1>1, <3>1
      <4>. QED
        BY <1>4, <1>12, <2>2, <4>1
    <3>3. Number(vs, i) \in 1 .. m
      BY <1>1, <1>3, <3>1, Numbers
    <3>4. Owed(total2, i) = Owed(total, i)
      <4>1. i = 0 \/ i \in 1 .. n
        BY <3>1
      <4>. QED
        BY <1>5, <4>1 DEF Owed
    <3>5. Follows(srcs[Number(vs, i)], Owed(total, i), whole[Number(vs, i)])
      BY <3>1, <3>2 DEF Owing, Hold
    <3>. QED
      BY <1>6, <1>8, <1>10, <3>1, <3>3, <3>4, <3>5
  <2>. QED
    BY <2>1, <2>2
<1>13. Hold(vs2, srcs2, total2, whole2)
  BY <1>4, <1>6, <1>8, <1>11, <1>12 DEF Hold
<1>14. Owing(vs2, srcs2, own2, total2, whole2)
  BY <1>9, <1>13 DEF Owing
<1>. QED
  BY <1>14 DEF vs2, whole2, srcs2

\* A visit ends.
LEMMA OwingPop ==
  ASSUME NEW vs \in Seq(Visits), NEW srcs, NEW own, NEW total, NEW whole,
         Owing(vs, srcs, own, total, whole), vs # << >>, vs[Len(vs)].closure = 0,
         NEW u, Follows(u, Owed(total, Len(vs) - 1), whole[Len(srcs)])
  PROVE  Owing(Front(vs), [srcs EXCEPT ![Len(srcs)] = u], Front(own), Front(total), whole)
<1>. DEFINE n == Len(vs)
            k == n - 1
            m == Len(srcs)
            vs2 == Front(vs)
            srcs2 == [srcs EXCEPT ![m] = u]
            own2 == Front(own)
            total2 == Front(total)
<1>1. n \in Nat /\ n >= 1 /\ k \in Nat /\ k + 1 = n /\ n # 0
  OBVIOUS
<1>2. m \in 1 .. m /\ m = Number(vs, n) /\ m \in Nat
  <2>1. m \in 1 .. m /\ m = Number(vs, n)
    BY InnermostSource, ZenonT(60) DEF Owing, Hold
  <2>. HIDE DEF m
  <2>. QED
    BY <1>1, <2>1, Numbers
<1>3. vs2 \in Seq(Visits) /\ Len(vs2) = k /\ \A i \in 1 .. k : vs2[i] = vs[i]
  BY <1>1, Taken, ZenonT(60)
<1>4. Len(total2) = k /\ \A i \in 1 .. k : total2[i] = total[i]
  <2>1. total \in Seq(States) /\ Len(total) = n
    BY DEF Owing, Frames
  <2>. HIDE DEF n
  <2>. QED
    BY <1>1, <2>1, Taken
<1>5. u \in Sources
  BY DEF Follows
<1>6. /\ srcs2 \in Seq(Sources) /\ Len(srcs2) = m
      /\ \A i \in 1 .. m : srcs2[i] = IF i = m THEN u ELSE srcs[i]
  <2>1. srcs \in Seq(Sources)
    BY DEF Owing, Hold
  <2>. QED
    BY <1>2, <1>5, <2>1, Replaced
<1>7. Frames(vs2, own2, total2)
  BY FramesPop DEF Owing
<1>8. Follows(u, Owed(total, k), whole[m]) /\ vs[n].closure = 0
  OBVIOUS
<1>9. \A i \in 0 .. n : i = n \/ vs[i + 1].closure # 0 =>
        Follows(srcs[Number(vs, i)], Owed(total, i), whole[Number(vs, i)])
  BY DEF Owing, Hold
<1>. HIDE DEF vs2, own2, total2, srcs2, m, k, n
<1>10. \A i \in 0 .. k : Number(vs2, i) = Number(vs, i)
  <2>1. \A i \in 1 .. k : vs2[i].closure = vs[i].closure
    BY <1>3
  <2>. QED
    BY <1>1, <2>1, NumbersStay
<1>11. Number(vs2, k) = m
  <2>1. Number(vs, n) = Number(vs, n - 1) + 0
    BY <1>1, <1>8, Numbers
  <2>2. n - 1 = k /\ Number(vs, k) \in Nat /\ k \in 0 .. k
    BY <1>1, Numbers
  <2>. QED
    BY <1>2, <1>10, <2>1, <2>2
<1>12. \A i \in 0 .. k : Owed(total2, i) = Owed(total, i)
  <2>1. \A i \in 0 .. k : i = 0 \/ i \in 1 .. k
    BY <1>1
  <2>. QED
    BY <1>4, <2>1 DEF Owed
<1>13. ASSUME NEW i \in 0 .. k, i = k \/ vs2[i + 1].closure # 0
       PROVE  Follows(srcs2[Number(vs2, i)], Owed(total2, i), whole[Number(vs2, i)])
  <2>1. CASE i = k
    BY <1>2, <1>6, <1>8, <1>11, <1>12, <2>1
  <2>2. CASE i # k
    <3>1. i + 1 \in 1 .. k /\ i \in 0 .. n /\ i \in 0 .. n - 1
      BY <1>1, <2>2
    <3>2. vs[i + 1].closure # 0
      BY <1>3, <1>13, <2>2, <3>1
    <3>3. Number(vs, i) \in 1 .. m - 1
      BY <1>1, <1>2, <3>1, <3>2, NumbersBefore
    <3>4. srcs2[Number(vs, i)] = srcs[Number(vs, i)]
      BY <1>2, <1>6, <3>3
    <3>5. Follows(srcs[Number(vs, i)], Owed(total, i), whole[Number(vs, i)])
      BY <1>9, <3>1, <3>2
    <3>. QED
      BY <1>10, <1>12, <3>4, <3>5
  <2>. QED
    BY <2>1, <2>2
<1>14. whole \in Seq(BOOLEAN) /\ Len(whole) = Len(srcs2)
  BY <1>6 DEF Owing, Hold, m
<1>15. Hold(vs2, srcs2, total2, whole)
  BY <1>3, <1>6, <1>11, <1>13, <1>14 DEF Hold
<1>16. Owing(vs2, srcs2, own2, total2, whole)
  BY <1>7, <1>15 DEF Owing
<1>. QED
  BY <1>16 DEF vs2, srcs2, own2, total2, m

\* A visit to a closure ends, and its source is left.
LEMMA OwingPopClosure ==
  ASSUME NEW vs \in Seq(Visits), NEW srcs, NEW own, NEW total, NEW whole,
         Owing(vs, srcs, own, total, whole), vs # << >>, vs[Len(vs)].closure # 0
  PROVE  Owing(Front(vs), Front(srcs), Front(own), Front(total), Front(whole))
<1>. DEFINE n == Len(vs)
            k == n - 1
            m == Len(srcs)
            vs2 == Front(vs)
            srcs2 == Front(srcs)
            own2 == Front(own)
            total2 == Front(total)
            whole2 == Front(whole)
<1>1. n \in Nat /\ n >= 1 /\ k \in Nat /\ k + 1 = n /\ n # 0
  OBVIOUS
<1>2. m \in 1 .. m /\ m = Number(vs, n) /\ m \in Nat
  <2>1. m \in 1 .. m /\ m = Number(vs, n)
    BY InnermostSource, ZenonT(60) DEF Owing, Hold
  <2>. HIDE DEF m
  <2>. QED
    BY <1>1, <2>1, Numbers
<1>3. vs2 \in Seq(Visits) /\ Len(vs2) = k /\ \A i \in 1 .. k : vs2[i] = vs[i]
  BY <1>1, Taken, ZenonT(60)
<1>4. Len(total2) = k /\ \A i \in 1 .. k : total2[i] = total[i]
  <2>1. total \in Seq(States) /\ Len(total) = n
    BY DEF Owing, Frames
  <2>. HIDE DEF n
  <2>. QED
    BY <1>1, <2>1, Taken
<1>5. /\ srcs2 \in Seq(Sources) /\ Len(srcs2) = m - 1
      /\ \A i \in 1 .. m - 1 : srcs2[i] = srcs[i]
  <2>1. srcs \in Seq(Sources) /\ Len(srcs) >= 1
    BY <1>2 DEF Owing, Hold
  <2>. QED
    BY <2>1, Taken
<1>6. /\ whole2 \in Seq(BOOLEAN) /\ Len(whole2) = m - 1
      /\ \A i \in 1 .. m - 1 : whole2[i] = whole[i]
  <2>1. whole \in Seq(BOOLEAN) /\ Len(whole) = m /\ m >= 1
    BY <1>2 DEF Owing, Hold
  <2>. HIDE DEF m
  <2>. QED
    BY <2>1, Taken
<1>7. Frames(vs2, own2, total2)
  BY FramesPop DEF Owing
<1>8. vs[n].closure # 0
  OBVIOUS
<1>9. \A i \in 0 .. n : i = n \/ vs[i + 1].closure # 0 =>
        Follows(srcs[Number(vs, i)], Owed(total, i), whole[Number(vs, i)])
  BY DEF Owing, Hold
<1>. HIDE DEF vs2, own2, total2, srcs2, whole2, m, k, n
<1>10. \A i \in 0 .. k : Number(vs2, i) = Number(vs, i)
  <2>1. \A i \in 1 .. k : vs2[i].closure = vs[i].closure
    BY <1>3
  <2>. QED
    BY <1>1, <2>1, NumbersStay
<1>11. Number(vs2, k) = m - 1
  <2>1. Number(vs, n) = Number(vs, n - 1) + 1
    BY <1>1, <1>8, Numbers
  <2>2. n - 1 = k /\ Number(vs, k) \in Nat /\ k \in 0 .. k
    BY <1>1, Numbers
  <2>. QED
    BY <1>2, <1>10, <2>1, <2>2
<1>12. \A i \in 0 .. k : Owed(total2, i) = Owed(total, i)
  <2>1. \A i \in 0 .. k : i = 0 \/ i \in 1 .. k
    BY <1>1
  <2>. QED
    BY <1>4, <2>1 DEF Owed
<1>13. ASSUME NEW i \in 0 .. k, i = k \/ vs2[i + 1].closure # 0
       PROVE  Follows(srcs2[Number(vs2, i)], Owed(total2, i), whole2[Number(vs2, i)])
  <2>1. i \in 0 .. n /\ i \in 0 .. n - 1
    BY <1>1
  <2>2. vs[i + 1].closure # 0
    <3>1. i # k => i + 1 \in 1 .. k
      BY <1>1
    <3>. QED
      BY <1>1, <1>3, <1>8, <1>13, <3>1
  <2>3. Number(vs, i) \in 1 .. m - 1
    BY <1>1, <1>2, <2>1, <2>2, NumbersBefore
  <2>4. Follows(srcs[Number(vs, i)], Owed(total, i), whole[Number(vs, i)])
    BY <1>9, <2>1, <2>2
  <2>. QED
    BY <1>5, <1>6, <1>10, <1>12, <2>3, <2>4
<1>14. Hold(vs2, srcs2, total2, whole2)
  BY <1>3, <1>5, <1>6, <1>11, <1>13 DEF Hold
<1>15. Owing(vs2, srcs2, own2, total2, whole2)
  BY <1>7, <1>14 DEF Owing
<1>. QED
  BY <1>15 DEF vs2, srcs2, own2, total2, whole2

-----------------------------------------------------------------------------
(* Blocks that match. *)

\* Every block of the text ends, and every "}" ends one.
Balanced(text) == Reading(text).matched /\ Reading(text).blocks = << >>

\* A text that owes nothing is balanced if it is whole.
LEMMA WholeIsBalanced ==
  ASSUME NEW s, NEW t \in States, NEW whole \in BOOLEAN, Follows(s, t, whole),
         t.closes = 0, t.header = FALSE, t.begun = FALSE
  PROVE  s.stream = << >> /\ (whole <=> Balanced(s.lines))
<1>1. s \in Sources /\ s.stream = << >> /\ s.lines \in Seq(Pieces)
  BY DEF Follows, Sources
<1>2. All(s) = s.lines
  BY <1>1 DEF All
<1>3. PICK r \in Shapes :
        /\ Runs(Shaping, Flat, s.lines, r) /\ r.header = FALSE /\ r.deep <= 0
        /\ whole <=> r.matched /\ r.deep = 0
  BY <1>2 DEF Follows
<1>4. r.deep = 0
  BY <1>3 DEF Shapes
<1>5. Depicts(Reading(s.lines), r)
  BY <1>1, <1>3, ReadingHasShape
<1>. DEFINE bs == Reading(s.lines).blocks
<1>6. Reading(s.lines).matched = r.matched /\ Formed(bs, 0, FALSE)
  BY <1>3, <1>4, <1>5 DEF Depicts
<1>. HIDE DEF bs
<1>7. bs = << >>
  <2>1. bs \in Seq(Blocks) /\ IsFiniteSet(Plain(bs)) /\ Cardinality(Plain(bs)) = 0
    BY <1>6 DEF Formed
  <2>2. Plain(bs) = {}
    BY <2>1, FS_EmptySet
  <2>3. bs # << >> => ~bs[Len(bs)].header /\ Len(bs) \in 1 .. Len(bs)
    BY <1>6, <2>1 DEF Formed, Ends
  <2>. QED
    BY <2>2, <2>3 DEF Plain
<1>. QED
  BY <1>1, <1>3, <1>4, <1>6, <1>7 DEF Balanced, bs

\* The text of a prototype is.
LEMMA NothingIsBalanced == Balanced(<< >>)
<1>1. << >> \in Seq(Pieces) /\ Len(<< >>) = 0
  OBVIOUS
<1>2. Reading(<< >>) = Blank
  BY <1>1, ReadingIs
<1>. QED
  BY <1>2 DEF Blank, Balanced

\* Only what is owed matters.
LEMMA FollowsSame ==
  ASSUME NEW s, NEW t, NEW u, NEW whole, Follows(s, t, whole),
         u.closes = t.closes, u.outdents = t.outdents, u.header = t.header,
         u.begun = t.begun
  PROVE  Follows(s, u, whole)
BY DEF Follows

\* The parts of a sum.
LEMMA SumParts ==
  ASSUME NEW t, NEW a
  PROVE  /\ Sum(t, a).closes = t.closes + a.closes
         /\ Sum(t, a).outdents = t.outdents + a.outdents
         /\ Sum(t, a).header = a.header /\ Sum(t, a).begun = a.begun
BY DEF Sum

\* A visit that owes nothing but perhaps a block.
LEMMA FollowsUnder ==
  ASSUME NEW t \in States, t.header = FALSE, t.begun = FALSE,
         NEW a \in States, a.outdents = 0, a.header = FALSE, a.begun = FALSE
  PROVE  /\ Sum(t, a).outdents = t.outdents /\ Sum(t, a).closes = t.closes + a.closes
         /\ Sum(t, a).header = t.header /\ Sum(t, a).begun = t.begun
         /\ \A s, whole : a.closes = 0 =>
              (Follows(s, Sum(t, a), whole) <=> Follows(s, t, whole))
<1>1. t.closes \in Nat /\ t.outdents \in Nat
  BY DEF States
<1>. DEFINE u == Sum(t, a)
<1>2. /\ u.closes = t.closes + a.closes /\ u.outdents = t.outdents + a.outdents
      /\ u.header = a.header /\ u.begun = a.begun
  BY SumParts
<1>. HIDE DEF u
<1>3. u.outdents = t.outdents
  BY <1>1, <1>2
<1>4. u.header = t.header
  BY <1>2
<1>5. u.begun = t.begun
  BY <1>2
<1>6. ASSUME NEW s, NEW whole, a.closes = 0
      PROVE  Follows(s, u, whole) <=> Follows(s, t, whole)
  <2>1. u.closes = t.closes
    BY <1>1, <1>2, <1>6
  <2>2. t.outdents = u.outdents /\ t.closes = u.closes /\ t.header = u.header /\ t.begun = u.begun
    BY <1>3, <1>4, <1>5, <2>1
  <2>. QED
    BY <1>3, <1>4, <1>5, <2>1, <2>2, FollowsSame
<1>. QED
  BY <1>2, <1>3, <1>4, <1>5, <1>6 DEF u

\* Every source is written to by some visits.
LEMMA NumbersAll ==
  ASSUME NEW vs, NEW n \in Nat, NEW k \in 1 .. Number(vs, n)
  PROVE  \E i \in 0 .. n : Number(vs, i) = k /\ (i = n \/ vs[i + 1].closure # 0)
<1>. DEFINE P(p) == \A q \in 1 .. Number(vs, p) :
                      \E i \in 0 .. p : Number(vs, i) = q /\ (i = p \/ vs[i + 1].closure # 0)
            S == {p \in Nat : P(p)}
<1>1. 0 \in S
  <2>1. Number(vs, 0) = 1
    BY Numbers
  <2>. QED
    BY <2>1
<1>2. ASSUME NEW p \in Nat, p \in S
      PROVE  p + 1 \in S
  <2>1. P(p)
    BY <1>2
  <2>. DEFINE o == p + 1
  <2>2. o \in Nat /\ o # 0 /\ o - 1 = p /\ o \in 0 .. o /\ 0 .. p \subseteq 0 .. o
    OBVIOUS
  <2>3. Number(vs, o) = Number(vs, p) + (IF vs[o].closure # 0 THEN 1 ELSE 0)
    <3>. HIDE DEF o
    <3>1. Number(vs, o) = Number(vs, o - 1) + (IF vs[o].closure # 0 THEN 1 ELSE 0)
      BY <2>2, Numbers
    <3>. QED
      BY <2>2, <3>1
  <2>4. Number(vs, p) \in Nat /\ Number(vs, o) \in Nat
    BY <2>2, Numbers
  <2>5. ASSUME NEW q \in 1 .. Number(vs, o)
        PROVE  \E i \in 0 .. o : Number(vs, i) = q /\ (i = o \/ vs[i + 1].closure # 0)
    <3>1. CASE q = Number(vs, o)
      BY <2>2, <3>1
    <3>2. CASE q # Number(vs, o)
      <4>1. q \in 1 .. Number(vs, p)
        <5>. HIDE DEF o
        <5>. QED
          BY <2>3, <2>4, <3>2
      <4>2. PICK i \in 0 .. p : Number(vs, i) = q /\ (i = p \/ vs[i + 1].closure # 0)
        BY <2>1, <4>1
      <4>3. i = p => vs[o].closure # 0
        <5>. HIDE DEF o
        <5>. QED
          BY <2>3, <2>4, <3>2, <4>2
      <4>4. i \in 0 .. o /\ vs[i + 1].closure # 0
        BY <4>2, <4>3
      <4>. QED
        BY <4>2, <4>4
    <3>. QED
      BY <3>1, <3>2
  <2>6. P(o)
    BY <2>5
  <2>. QED
    BY <2>2, <2>6
<1>3. n \in S
  <2>1. \A p \in Nat : p \in S => p + 1 \in S
    BY <1>2
  <2>. HIDE DEF S
  <2>2. \A p \in Nat : p \in S
    BY <1>1, <2>1, Induction
  <2>. QED
    BY <2>2
<1>. QED
  BY <1>3

\* Declarations of which a text is not balanced.
Unmatched(ds) == \E i \in 1 .. Len(ds) : ~Balanced(ds[i].text)

\* All that is found to be added by an expression has been declared.
Declares(ds, expression) ==
  \A j \in 1 .. Len(expression.added) : \E n \in 1 .. Len(ds) : ds[n] = expression.added[j]
AddedDeclared ==
  \A i \in 1 .. Len(visits) : \A part \in DOMAIN visits[i].found :
    Declares(declarations, visits[i].found[part])

\* What makes BlocksMatch inductive: visits owe what they have opened, sources
\* follow them, and a text is not whole just when a switch had no case.
BInv ==
  /\ AddedDeclared
  /\ \E own, total, whole :
       /\ Owing(visits, sources, own, total, whole)
       /\ caseless <=> (\E k \in 1 .. Len(whole) : ~whole[k]) \/ Unmatched(declarations)

\* A function whose braces do not match is added.
LEMMA UnmatchedMore ==
  ASSUME NEW ds \in Seq(Declarations), NEW d \in Declarations
  PROVE  Unmatched(Append(ds, d)) <=> Unmatched(ds) \/ ~Balanced(d.text)
<1>. DEFINE n == Len(ds)
            es == Append(ds, d)
<1>1. Len(es) = n + 1 /\ es[n + 1] = d /\ (\A i \in 1 .. n : es[i] = ds[i]) /\ n \in Nat
  BY Appended
<1>. HIDE DEF es, n
<1>2. Unmatched(es) <=> (\E i \in 1 .. n : ~Balanced(es[i].text)) \/ ~Balanced(es[n + 1].text)
  <2>1. \A i : i \in 1 .. n + 1 <=> i \in 1 .. n \/ i = n + 1
    BY <1>1
  <2>. QED
    BY <1>1, <2>1 DEF Unmatched
<1>3. Unmatched(ds) <=> \E i \in 1 .. n : ~Balanced(ds[i].text)
  BY DEF Unmatched, n
<1>4. Unmatched(es) <=> Unmatched(ds) \/ ~Balanced(d.text)
  BY <1>1, <1>2, <1>3
<1>. QED
  BY <1>4 DEF es

\* Functions that have been declared are declared once more.
LEMMA UnmatchedAgain ==
  ASSUME NEW ds \in Seq(Declarations), NEW e \in Expressions, Declares(ds, e)
  PROVE  Unmatched(ds \o e.added) <=> Unmatched(ds)
<1>. DEFINE n == Len(ds)
            more == e.added
            es == ds \o more
<1>1. more \in Seq(Declarations)
  BY DEF Expressions
<1>. HIDE DEF more
<1>2. /\ Len(es) = n + Len(more) /\ n \in Nat /\ Len(more) \in Nat
      /\ \A i \in 1 .. n : es[i] = ds[i]
      /\ \A i \in n + 1 .. n + Len(more) : i - n \in 1 .. Len(more) /\ es[i] = more[i - n]
  BY <1>1, Joined
<1>3. \A j \in 1 .. Len(more) : \E k \in 1 .. n : ds[k] = more[j]
  BY DEF Declares, more
<1>. HIDE DEF n, es
<1>4. ASSUME NEW i \in 1 .. Len(es)
      PROVE  \E k \in 1 .. n : ds[k] = es[i]
  <2>1. CASE i \in 1 .. n
    BY <1>2, <2>1
  <2>2. CASE i \in n + 1 .. n + Len(more)
    BY <1>2, <1>3, <2>2
  <2>. QED
    BY <1>2, <2>1, <2>2
<1>5. Unmatched(es) => Unmatched(ds)
  BY <1>4 DEF Unmatched, n
<1>6. Unmatched(ds) => Unmatched(es)
  <2>1. \A i \in 1 .. n : i \in 1 .. Len(es) /\ es[i] = ds[i]
    BY <1>2
  <2>. QED
    BY <2>1 DEF Unmatched, n
<1>. QED
  BY <1>5, <1>6 DEF es, more

\* What has been declared stays declared.
LEMMA DeclaresMore ==
  ASSUME NEW ds \in Seq(Declarations), NEW more \in Seq(Declarations), NEW e, Declares(ds, e)
  PROVE  Declares(ds \o more, e)
<1>1. \A i \in 1 .. Len(ds) : i \in 1 .. Len(ds \o more) /\ (ds \o more)[i] = ds[i]
  BY Joined
<1>. QED
  BY <1>1 DEF Declares

\* Visits find more, and declarations are added.
LEMMA AddedStays ==
  ASSUME AddedDeclared, NEW more \in Seq(Declarations), declarations \in Seq(Declarations),
         declarations' = declarations \o more,
         \A i \in 1 .. Len(visits') : \A part \in DOMAIN visits'[i].found :
           \/ /\ i \in 1 .. Len(visits) /\ part \in DOMAIN visits[i].found
              /\ visits'[i].found[part] = visits[i].found[part]
           \/ Declares(declarations', visits'[i].found[part])
  PROVE  AddedDeclared'
<1>1. ASSUME NEW i \in 1 .. Len(visits'), NEW part \in DOMAIN visits'[i].found
      PROVE  Declares(declarations', visits'[i].found[part])
  <2>1. CASE /\ i \in 1 .. Len(visits) /\ part \in DOMAIN visits[i].found
             /\ visits'[i].found[part] = visits[i].found[part]
    <3>1. Declares(declarations, visits[i].found[part])
      BY <2>1 DEF AddedDeclared
    <3>. QED
      BY <2>1, <3>1, DeclaresMore
  <2>. QED
    BY <2>1
<1>. QED
  BY <1>1 DEF AddedDeclared, Declares

\* The innermost visit takes a step of its script.
LEMMA StepTaken ==
  ASSUME NEW vs \in Seq(Visits), NEW srcs, NEW own, NEW total, NEW whole,
         Owing(vs, srcs, own, total, whole), vs # << >>, vs[Len(vs)].script # << >>
  PROVE  LET v == vs[Len(vs)] IN
         \E b \in States : /\ <<own[Len(vs)], Head(v.script), b>> \in Taking
                           /\ Takes(own[Len(vs)], Head(v.script), b)
                           /\ Leads(b, Tail(v.script), v.statement)
<1>. DEFINE v == vs[Len(vs)]
            a == own[Len(vs)]
<1>1. v \in Visits /\ v.script # << >>
  OBVIOUS
<1>2. Leads(a, v.script, v.statement)
  BY InnermostSource
<1>. HIDE DEF v, a
<1>3. v.script \in Seq(Steps)
  BY <1>1 DEF Visits
<1>4. PICK b : <<a, Head(v.script), b>> \in Taking /\ Leads(b, Tail(v.script), v.statement)
  BY <1>1, <1>2, <1>3, LeadsOn
<1>5. b \in States /\ Takes(a, Head(v.script), b)
  BY <1>4 DEF Taking
<1>. QED
  BY <1>4, <1>5 DEF v, a

\* No step is left, and nothing is owed but the end of a line.
LEMMA StepsEnd ==
  ASSUME NEW vs \in Seq(Visits), NEW srcs, NEW own, NEW total, NEW whole,
         Owing(vs, srcs, own, total, whole), vs # << >>, vs[Len(vs)].script = << >>
  PROVE  LET a == own[Len(vs)] IN
         /\ a \in States /\ a.closes = 0 /\ a.outdents = 0 /\ a.header = FALSE
         /\ vs[Len(vs)].statement \/ a.begun = FALSE
<1>. DEFINE a == own[Len(vs)]
            ends == vs[Len(vs)].statement
<1>1. Leads(a, << >>, ends)
  BY InnermostSource
<1>. HIDE DEF a, ends
<1>2. PICK b \in States : /\ Runs(Taking, a, << >>, b)
                          /\ b.closes = 0 /\ b.outdents = 0 /\ b.header = FALSE
                          /\ ends \/ b.begun = FALSE
  BY <1>1 DEF Leads
<1>3. a = b
  BY <1>2, RunsNone
<1>4. /\ a \in States /\ a.closes = 0 /\ a.outdents = 0 /\ a.header = FALSE
      /\ ends \/ a.begun = FALSE
  BY <1>2, <1>3
<1>. QED
  BY <1>4 DEF a, ends

\* It writes an expression.
LEMMA ExpressionTaken ==
  ASSUME NEW vs \in Seq(Visits), NEW srcs, NEW own, NEW total, NEW whole,
         Owing(vs, srcs, own, total, whole), vs # << >>, vs[Len(vs)].script # << >>,
         Head(vs[Len(vs)].script).do = "accept",
         NEW v \in Visits, v.statement = vs[Len(vs)].statement,
         v.closure = vs[Len(vs)].closure, v.script = Tail(vs[Len(vs)].script),
         NEW e \in Expressions
  PROVE  \E own2, total2 :
           Owing([vs EXCEPT ![Len(vs)] = v],
                 [srcs EXCEPT ![Len(srcs)] = WrittenExpression(srcs[Len(srcs)], e)],
                 own2, total2, whole)
<1>. DEFINE n == Len(vs)
            m == Len(srcs)
            u == WrittenExpression(srcs[m], e)
            t == Base(vs, total, n)
            a == own[n]
            step == Head(vs[n].script)
<1>1. /\ a \in States /\ t \in States
      /\ Follows(srcs[m], Sum(t, a), whole[m])
  BY InnermostSource
<1>2. PICK b \in States : Takes(a, step, b) /\ Leads(b, v.script, v.statement)
  BY StepTaken
<1>3. b = [a EXCEPT !.begun = TRUE]
  <2>1. step.do = "accept"
    OBVIOUS
  <2>. HIDE DEF step
  <2>. QED
    BY <1>2, <2>1 DEF Takes
<1>. HIDE DEF t, a, step, m, n
<1>4. /\ b.closes = a.closes /\ b.outdents = a.outdents /\ b.header = a.header
      /\ b.begun = TRUE
  BY <1>1, <1>3 DEF States
<1>. DEFINE c == Sum(t, a)
            d == [c EXCEPT !.begun = TRUE]
<1>5. c \in States
  BY <1>1, Sums
<1>6. Follows(u, d, whole[m])
  <2>. HIDE DEF c
  <2>. QED
    BY <1>1, <1>5, ExpressionFollows DEF c
<1>7. d.closes = c.closes /\ d.outdents = c.outdents /\ d.header = c.header /\ d.begun = TRUE
  <2>. HIDE DEF c
  <2>. QED
    BY <1>5 DEF States
<1>8. /\ Sum(t, b).closes = d.closes /\ Sum(t, b).outdents = d.outdents
      /\ Sum(t, b).header = d.header /\ Sum(t, b).begun = d.begun
  <2>1. c.closes = t.closes + a.closes /\ c.outdents = t.outdents + a.outdents
        /\ c.header = a.header
    BY SumParts
  <2>2. /\ Sum(t, b).closes = t.closes + b.closes /\ Sum(t, b).outdents = t.outdents + b.outdents
        /\ Sum(t, b).header = b.header /\ Sum(t, b).begun = b.begun
    BY SumParts
  <2>. HIDE DEF c, d
  <2>. QED
    BY <1>4, <1>7, <2>1, <2>2
<1>9. Follows(u, Sum(t, b), whole[m])
  <2>. HIDE DEF d, u
  <2>. QED
    BY <1>6, <1>8, FollowsSame
<1>10. Follows(u, Sum(Base(vs, total, Len(vs)), b), whole[Len(srcs)])
  BY <1>9 DEF t, n, m
<1>. HIDE DEF u
<1>11. \E own2, total2 :
         Owing([vs EXCEPT ![Len(vs)] = v], [srcs EXCEPT ![Len(srcs)] = u], own2, total2, whole)
  BY <1>2, <1>10, OwingAdvance
<1>. QED
  BY <1>11 DEF u, m

\* It visits its children, on a line of their own.
LEMMA ChildrenTaken ==
  ASSUME NEW vs \in Seq(Visits), NEW own, NEW total, Frames(vs, own, total),
         NEW i \in 1 .. Len(vs), vs[i].script # << >>,
         Head(vs[i].script).do = "visitChildren"
  PROVE  /\ own[i] \in States
         /\ Leads(own[i], Tail(vs[i].script), vs[i].statement)
         /\ Owed(total, i) \in States
         /\ Owed(total, i).header = FALSE /\ Owed(total, i).begun = FALSE
<1>. DEFINE v == vs[i]
            a == own[i]
<1>1. v \in Visits /\ v.script # << >> /\ Head(v.script).do = "visitChildren" /\ i # 0
      /\ i \in 0 .. Len(vs) /\ Len(vs) \in Nat
  OBVIOUS
<1>2. /\ Leads(a, v.script, v.statement)
      /\ total[i] = Sum(Base(vs, total, i), a)
      /\ own \in Seq(States) /\ i \in 1 .. Len(own)
  BY DEF Frames
<1>3. a \in States
  BY <1>2
<1>4. Owed(total, i) = Sum(Base(vs, total, i), a)
  BY <1>1, <1>2 DEF Owed
<1>. HIDE DEF v, a
<1>5. v.script \in Seq(Steps)
  BY <1>1 DEF Visits
<1>6. PICK b : <<a, Head(v.script), b>> \in Taking /\ Leads(b, Tail(v.script), v.statement)
  BY <1>1, <1>2, <1>5, LeadsOn
<1>7. Takes(a, Head(v.script), b)
  BY <1>6 DEF Taking
<1>8. ~a.header /\ ~a.begun /\ b = a
  BY <1>1, <1>7 DEF Takes
<1>9. a.header = FALSE /\ a.begun = FALSE
  BY <1>3, <1>8 DEF States
<1>10. Owed(total, i).header = FALSE /\ Owed(total, i).begun = FALSE
  BY <1>4, <1>9, SumParts
<1>11. Owed(total, i) \in States
  BY <1>1, OwedStates
<1>12. Leads(a, Tail(v.script), v.statement)
  BY <1>6, <1>8
<1>. QED
  BY <1>3, <1>10, <1>11, <1>12 DEF v, a

-----------------------------------------------------------------------------
(* The steps keep what makes BlocksMatch inductive. *)

\* The innermost visit is left with the rest of its script.
LEMMA TopAdvances ==
  ASSUME IInv, visits # << >>, Top(visits).script # << >>
  PROVE  \E w \in Visits :
           /\ w.closure = Top(visits).closure /\ w.statement = Top(visits).statement
           /\ w.declared = Top(visits).declared
           /\ w.found = Top(visits).found /\ w.script = Tail(Top(visits).script)
           /\ Advanced = [visits EXCEPT ![Len(visits)] = w]
<1>. DEFINE v == Top(visits)
            w == [v EXCEPT !.script = Tail(@)]
<1>1. v \in Visits /\ Tail(v.script) \in Seq(Steps) /\ v = visits[Len(visits)]
  BY InnermostVisit
<1>2. Advanced = [visits EXCEPT ![Len(visits)] = w]
  BY <1>1 DEF Advanced
<1>. HIDE DEF v
<1>3. /\ w \in Visits /\ w.closure = v.closure /\ w.statement = v.statement
      /\ w.declared = v.declared /\ w.found = v.found /\ w.script = Tail(v.script)
  BY <1>1 DEF Visits
<1>. QED
  BY <1>2, <1>3 DEF v

\* It has found out what an expression is, too.
LEMMA TopNotes ==
  ASSUME NEW vs \in Seq(Visits), Len(vs) >= 1, Top(vs).script # << >>, NEW e \in Expressions
  PROVE  \E w \in Visits :
           /\ w.closure = Top(vs).closure /\ w.statement = Top(vs).statement
           /\ w.declared = Top(vs).declared /\ w.script = Tail(Top(vs).script)
           /\ Noted(vs, e) = [vs EXCEPT ![Len(vs)] = w]
           /\ \A part \in DOMAIN w.found :
                \/ part \in DOMAIN Top(vs).found /\ w.found[part] = Top(vs).found[part]
                \/ w.found[part] = e
           /\ LET asked == Head(Top(vs).script).part IN
              /\ \A part : part \in DOMAIN w.found <=> part \in DOMAIN Top(vs).found \/ part = asked
              /\ \A part \in DOMAIN w.found :
                   w.found[part] = IF part = asked THEN e ELSE Top(vs).found[part]
<1>. DEFINE v == Top(vs)
            part == Head(v.script).part
            more == [p \in DOMAIN v.found \cup {part} |-> IF p = part THEN e ELSE v.found[p]]
            w == [v EXCEPT !.script = Tail(v.script), !.found = more]
<1>1. v \in Visits /\ v = vs[Len(vs)]
  BY DEF Top
<1>2. Noted(vs, e) = [vs EXCEPT ![Len(vs)] = w]
  BY <1>1 DEF Noted
<1>3. v.script # << >>
  OBVIOUS
<1>. HIDE DEF v
<1>4. v.script \in Seq(Steps) /\ v.found \in Findings
  BY <1>1 DEF Visits
<1>5. Tail(v.script) \in Seq(Steps) /\ Head(v.script) \in Steps
  BY <1>3, <1>4
<1>6. part \in Parts
  BY <1>5 DEF Steps
<1>. HIDE DEF part
<1>7. more \in Findings
  BY <1>4, <1>6, FindingMore
<1>8. /\ \A p \in DOMAIN more : (p \in DOMAIN v.found /\ more[p] = v.found[p]) \/ more[p] = e
      /\ \A p : p \in DOMAIN more <=> p \in DOMAIN v.found \/ p = part
      /\ \A p \in DOMAIN more : more[p] = IF p = part THEN e ELSE v.found[p]
  OBVIOUS
<1>. HIDE DEF more
<1>9. /\ w \in Visits /\ w.closure = v.closure /\ w.statement = v.statement
      /\ w.declared = v.declared
      /\ w.script = Tail(v.script) /\ w.found = more
  BY <1>1, <1>5, <1>7 DEF Visits
<1>10. /\ \A p : p \in DOMAIN w.found <=> p \in DOMAIN v.found \/ p = part
       /\ \A p \in DOMAIN w.found : w.found[p] = IF p = part THEN e ELSE v.found[p]
       /\ \A p \in DOMAIN w.found :
            (p \in DOMAIN v.found /\ w.found[p] = v.found[p]) \/ w.found[p] = e
  BY <1>8, <1>9
<1>. HIDE DEF w
<1>11. part = Head(v.script).part
  BY DEF part
<1>. QED
  BY <1>2, <1>9, <1>10, <1>11 DEF v

\* The expressions that visits have found, when only the innermost has found
\* more.
LEMMA TopDeclares ==
  ASSUME IInv, AddedDeclared, visits # << >>, NEW more \in Seq(Declarations),
         declarations' = declarations \o more,
         NEW w \in Visits, visits' = [visits EXCEPT ![Len(visits)] = w],
         \A part \in DOMAIN w.found :
           \/ part \in DOMAIN Top(visits).found /\ w.found[part] = Top(visits).found[part]
           \/ Declares(declarations', w.found[part])
  PROVE  AddedDeclared'
<1>1. visits \in Seq(Visits) /\ declarations \in Seq(Declarations)
  BY DEF IInv, Typed
<1>2. Len(visits) \in 1 .. Len(visits) /\ visits[Len(visits)] = Top(visits)
  BY InnermostVisit
<1>3. /\ Len(visits') = Len(visits)
      /\ \A i \in 1 .. Len(visits) : visits'[i] = IF i = Len(visits) THEN w ELSE visits[i]
  BY <1>1, <1>2, Replaced
<1>4. ASSUME NEW i \in 1 .. Len(visits'), NEW part \in DOMAIN visits'[i].found
      PROVE  \/ /\ i \in 1 .. Len(visits) /\ part \in DOMAIN visits[i].found
                /\ visits'[i].found[part] = visits[i].found[part]
             \/ Declares(declarations', visits'[i].found[part])
  <2>1. CASE i = Len(visits)
    BY <1>2, <1>3, <2>1, SMTT(30)
  <2>2. CASE i # Len(visits)
    BY <1>3, <2>2, ZenonT(60)
  <2>. QED
    BY <2>1, <2>2
<1>. QED
  BY <1>1, <1>4, AddedStays

\* Nothing is declared.
LEMMA NothingDeclared ==
  ASSUME IInv, declarations' = declarations
  PROVE  /\ << >> \in Seq(Declarations) /\ declarations' = declarations \o << >>
         /\ declarations \in Seq(Declarations)
BY DEF IInv, Typed

\* A step that only writes.
LEMMA WriteMatches ==
  ASSUME IInv, BInv, Write
  PROVE  BInv'
<1>1. /\ visits # << >> /\ Top(visits).script # << >> /\ NextStep.do \in Writing
      /\ sources' = [sources EXCEPT ![Len(sources)] = Written(@, NextStep)]
      /\ visits' = Advanced /\ declarations' = declarations /\ caseless' = caseless
  BY DEF Write, Visiting
<1>2. /\ visits \in Seq(Visits) /\ Top(visits) = visits[Len(visits)]
  BY <1>1, InnermostVisit DEF IInv, Typed
<1>3. PICK w \in Visits :
        /\ w.closure = Top(visits).closure /\ w.statement = Top(visits).statement
        /\ w.found = Top(visits).found /\ w.script = Tail(Top(visits).script)
        /\ visits' = [visits EXCEPT ![Len(visits)] = w]
  BY <1>1, TopAdvances
<1>4. PICK own, total, whole :
        /\ Owing(visits, sources, own, total, whole)
        /\ caseless <=> (\E k \in 1 .. Len(whole) : ~whole[k]) \/ Unmatched(declarations)
  BY DEF BInv
<1>. DEFINE n == Len(visits)
            m == Len(sources)
            u == Written(sources[m], NextStep)
            t == Base(visits, total, n)
<1>5. /\ own[n] \in States /\ t \in States /\ whole[m] \in BOOLEAN
      /\ Follows(sources[m], Sum(t, own[n]), whole[m])
  BY <1>1, <1>2, <1>4, InnermostSource
<1>6. PICK b \in States : <<own[n], NextStep, b>> \in Taking /\ Leads(b, w.script, w.statement)
  BY <1>1, <1>2, <1>3, <1>4, StepTaken DEF NextStep
<1>7. Follows(u, Sum(t, b), whole[m])
  BY <1>1, <1>5, <1>6, WrittenFollows
<1>8. sources' = [sources EXCEPT ![m] = u]
  BY <1>1
<1>. HIDE DEF u
<1>9. \E own2, total2 : Owing(visits', sources', own2, total2, whole)
  <2>1. /\ w.statement = visits[n].statement /\ w.closure = visits[n].closure
    BY <1>2, <1>3
  <2>2. \E own2, total2 : Owing([visits EXCEPT ![n] = w], [sources EXCEPT ![m] = u],
                               own2, total2, whole)
    BY <1>1, <1>2, <1>4, <1>6, <1>7, <2>1, OwingAdvance
  <2>. QED
    BY <1>3, <1>8, <2>2
<1>10. AddedDeclared'
  BY <1>1, <1>3, NothingDeclared, TopDeclares DEF BInv
<1>. QED
  BY <1>1, <1>4, <1>9, <1>10 DEF BInv

\* The end of children.
LEMMA EndChildrenMatches ==
  ASSUME IInv, BInv, EndChildren
  PROVE  BInv'
<1>1. /\ visits # << >> /\ Top(visits).script # << >> /\ NextStep.do = "visitChildren"
      /\ sources' = sources /\ sources \in Seq(Sources)
      /\ visits' = Advanced /\ declarations' = declarations /\ caseless' = caseless
  BY DEF EndChildren, Visiting, IInv, Typed
<1>2. /\ visits \in Seq(Visits) /\ Top(visits) = visits[Len(visits)]
      /\ Len(visits) \in 1 .. Len(visits)
  BY <1>1, InnermostVisit DEF IInv, Typed
<1>3. PICK w \in Visits :
        /\ w.closure = Top(visits).closure /\ w.statement = Top(visits).statement
        /\ w.found = Top(visits).found /\ w.script = Tail(Top(visits).script)
        /\ visits' = [visits EXCEPT ![Len(visits)] = w]
  BY <1>1, TopAdvances
<1>4. PICK own, total, whole :
        /\ Owing(visits, sources, own, total, whole)
        /\ caseless <=> (\E k \in 1 .. Len(whole) : ~whole[k]) \/ Unmatched(declarations)
  BY DEF BInv
<1>. DEFINE n == Len(visits)
            m == Len(sources)
            u == sources[m]
            t == Base(visits, total, n)
<1>5. Follows(u, Sum(t, own[n]), whole[m])
  BY <1>1, <1>2, <1>4, InnermostSource
<1>6. own[n] \in States /\ Leads(own[n], w.script, w.statement)
  <2>1. /\ n \in 1 .. Len(visits) /\ visits[n].script # << >>
        /\ Head(visits[n].script).do = "visitChildren"
        /\ w.statement = visits[n].statement /\ w.script = Tail(visits[n].script)
    BY <1>1, <1>2, <1>3 DEF NextStep
  <2>2. Frames(visits, own, total)
    BY <1>4 DEF Owing
  <2>. HIDE DEF n
  <2>. QED
    BY <1>2, <2>1, <2>2, ChildrenTaken
<1>7. sources' = [sources EXCEPT ![m] = u]
  BY <1>1
<1>. HIDE DEF u
<1>8. \E own2, total2 : Owing(visits', sources', own2, total2, whole)
  <2>1. /\ w.statement = visits[n].statement /\ w.closure = visits[n].closure
    BY <1>2, <1>3
  <2>2. \E own2, total2 : Owing([visits EXCEPT ![n] = w], [sources EXCEPT ![m] = u],
                               own2, total2, whole)
    BY <1>1, <1>2, <1>4, <1>5, <1>6, <2>1, OwingAdvance
  <2>. QED
    BY <1>3, <1>7, <2>2
<1>9. AddedDeclared'
  BY <1>1, <1>3, NothingDeclared, TopDeclares DEF BInv
<1>. QED
  BY <1>1, <1>4, <1>8, <1>9 DEF BInv

\* An expression.
LEMMA PlainExpressionMatches ==
  ASSUME IInv, BInv, NEW call \in 0 .. MaxFunctions, PlainExpression(call)
  PROVE  BInv'
<1>. DEFINE e == Found(0, call, << >>)
<1>1. /\ visits # << >> /\ Top(visits).script # << >> /\ NextStep.do = "accept"
      /\ sources' = [sources EXCEPT ![Len(sources)] =
                       WrittenExpression(sources[Len(sources)], e)]
      /\ visits' = Noted(visits, e)
      /\ declarations' = declarations /\ caseless' = caseless
  BY DEF PlainExpression, Visiting
<1>2. e \in Expressions /\ e.added = << >>
  BY BoundsAssumption DEF Found, Expressions
<1>. HIDE DEF e
<1>3. /\ visits \in Seq(Visits) /\ Top(visits) = visits[Len(visits)] /\ Len(visits) >= 1
  BY <1>1, InnermostVisit DEF IInv, Typed
<1>4. PICK w \in Visits :
        /\ w.closure = Top(visits).closure /\ w.statement = Top(visits).statement
        /\ w.script = Tail(Top(visits).script)
        /\ visits' = [visits EXCEPT ![Len(visits)] = w]
        /\ \A part \in DOMAIN w.found :
             \/ part \in DOMAIN Top(visits).found /\ w.found[part] = Top(visits).found[part]
             \/ w.found[part] = e
  BY <1>1, <1>2, <1>3, TopNotes, SMTT(30)
<1>5. PICK own, total, whole :
        /\ Owing(visits, sources, own, total, whole)
        /\ caseless <=> (\E k \in 1 .. Len(whole) : ~whole[k]) \/ Unmatched(declarations)
  BY DEF BInv
<1>6. \E own2, total2 : Owing(visits', sources', own2, total2, whole)
  <2>1. /\ visits[Len(visits)].script # << >>
        /\ Head(visits[Len(visits)].script).do = "accept"
    BY <1>1, <1>3 DEF NextStep
  <2>2. /\ w.statement = visits[Len(visits)].statement
        /\ w.closure = visits[Len(visits)].closure
        /\ w.script = Tail(visits[Len(visits)].script)
    BY <1>3, <1>4
  <2>3. \E own2, total2 :
          Owing([visits EXCEPT ![Len(visits)] = w],
                [sources EXCEPT ![Len(sources)] = WrittenExpression(sources[Len(sources)], e)],
                own2, total2, whole)
    BY <1>1, <1>3, <1>2, <1>5, <2>1, <2>2, ExpressionTaken
  <2>. QED
    BY <1>1, <1>4, <2>3
<1>7. Declares(declarations', e)
  BY <1>2 DEF Declares
<1>8. AddedDeclared'
  <2>1. \A part \in DOMAIN w.found :
          \/ part \in DOMAIN Top(visits).found /\ w.found[part] = Top(visits).found[part]
          \/ Declares(declarations', w.found[part])
    BY <1>4, <1>7
  <2>. QED
    BY <1>1, <1>4, <2>1, NothingDeclared, TopDeclares DEF BInv
<1>. QED
  BY <1>1, <1>5, <1>6, <1>8 DEF BInv

\* An expression once more.
LEMMA ExpressionAgainMatches ==
  ASSUME IInv, BInv, ExpressionAgain
  PROVE  BInv'
<1>. DEFINE e == Top(visits).found[NextStep.part]
<1>1. /\ visits # << >> /\ Top(visits).script # << >> /\ NextStep.do = "accept"
      /\ NextStep.part \in DOMAIN Top(visits).found
      /\ sources' = [sources EXCEPT ![Len(sources)] =
                       WrittenExpression(sources[Len(sources)], e)]
      /\ visits' = Advanced
      /\ declarations' = declarations \o e.added /\ caseless' = caseless
  BY DEF ExpressionAgain, Visiting
<1>2. /\ visits \in Seq(Visits) /\ Top(visits) = visits[Len(visits)] /\ Len(visits) >= 1
      /\ Len(visits) \in 1 .. Len(visits) /\ Top(visits) \in Visits
      /\ declarations \in Seq(Declarations)
  BY <1>1, InnermostVisit DEF IInv, Typed
<1>3. e \in Expressions
  <2>1. Top(visits).found \in Findings
    BY <1>2, SMTT(30) DEF Visits
  <2>. QED
    BY <1>1, <2>1, FoundExpression
<1>4. Declares(declarations, e)
  BY <1>1, <1>2 DEF BInv, AddedDeclared
<1>. HIDE DEF e
<1>5. e.added \in Seq(Declarations)
  BY <1>3 DEF Expressions
<1>6. PICK w \in Visits :
        /\ w.closure = Top(visits).closure /\ w.statement = Top(visits).statement
        /\ w.found = Top(visits).found /\ w.script = Tail(Top(visits).script)
        /\ visits' = [visits EXCEPT ![Len(visits)] = w]
  BY <1>1, TopAdvances
<1>7. PICK own, total, whole :
        /\ Owing(visits, sources, own, total, whole)
        /\ caseless <=> (\E k \in 1 .. Len(whole) : ~whole[k]) \/ Unmatched(declarations)
  BY DEF BInv
<1>8. \E own2, total2 : Owing(visits', sources', own2, total2, whole)
  <2>1. /\ visits[Len(visits)].script # << >>
        /\ Head(visits[Len(visits)].script).do = "accept"
    BY <1>1, <1>2 DEF NextStep
  <2>2. /\ w.statement = visits[Len(visits)].statement
        /\ w.closure = visits[Len(visits)].closure
        /\ w.script = Tail(visits[Len(visits)].script)
    BY <1>2, <1>6
  <2>3. \E own2, total2 :
          Owing([visits EXCEPT ![Len(visits)] = w],
                [sources EXCEPT ![Len(sources)] = WrittenExpression(sources[Len(sources)], e)],
                own2, total2, whole)
    BY <1>1, <1>2, <1>3, <1>7, <2>1, <2>2, ExpressionTaken
  <2>. QED
    BY <1>1, <1>6, <2>3
<1>9. Unmatched(declarations') <=> Unmatched(declarations)
  BY <1>1, <1>2, <1>3, <1>4, UnmatchedAgain
<1>10. AddedDeclared'
  BY <1>1, <1>5, <1>6, TopDeclares DEF BInv
<1>. QED
  BY <1>1, <1>7, <1>8, <1>9, <1>10 DEF BInv

\* A visit begins, to which nothing is known but its script.
LEMMA VisitParts ==
  ASSUME IInv, NEW script \in Seq(Steps), NEW statement \in BOOLEAN, NEW closure \in Nat
  PROVE  \E v \in Visits :
           /\ v = Visit(script, statement, closure)
           /\ v.script = script /\ v.statement = statement /\ v.closure = closure
           /\ DOMAIN v.found = {}
<1>1. Visit(script, statement, closure) \in Visits
      /\ DOMAIN Visit(script, statement, closure).found = {}
  BY NewVisit
<1>2. /\ Visit(script, statement, closure).script = script
      /\ Visit(script, statement, closure).statement = statement
      /\ Visit(script, statement, closure).closure = closure
  BY DEF Visit
<1>. QED
  BY <1>1, <1>2

\* It has found nothing that would have to be declared.
LEMMA NewDeclares ==
  ASSUME IInv, AddedDeclared, NEW more \in Seq(Declarations),
         declarations' = declarations \o more,
         NEW v \in Visits, visits' = Append(visits, v), DOMAIN v.found = {}
  PROVE  AddedDeclared'
<1>1. visits \in Seq(Visits) /\ declarations \in Seq(Declarations)
  BY DEF IInv, Typed
<1>2. /\ Len(visits') = Len(visits) + 1 /\ visits'[Len(visits) + 1] = v
      /\ \A i \in 1 .. Len(visits) : visits'[i] = visits[i]
      /\ Len(visits) \in Nat
  BY <1>1, Appended
<1>3. ASSUME NEW i \in 1 .. Len(visits'), NEW part \in DOMAIN visits'[i].found
      PROVE  \/ /\ i \in 1 .. Len(visits) /\ part \in DOMAIN visits[i].found
                /\ visits'[i].found[part] = visits[i].found[part]
             \/ Declares(declarations', visits'[i].found[part])
  <2>1. i # Len(visits) + 1
    BY <1>2
  <2>2. i \in 1 .. Len(visits)
    BY <1>2, <2>1
  <2>. QED
    BY <1>2, <2>2
<1>. QED
  BY <1>1, <1>3, AddedStays

\* Nor has one that is left.
LEMMA FewerDeclare ==
  ASSUME IInv, AddedDeclared, declarations' = declarations,
         visits # << >>, visits' = Front(visits)
  PROVE  AddedDeclared'
<1>1. visits \in Seq(Visits) /\ declarations \in Seq(Declarations) /\ Len(visits) >= 1
  BY InnermostVisit DEF IInv, Typed
<1>2. /\ Len(visits') = Len(visits) - 1
      /\ \A i \in 1 .. Len(visits) - 1 : visits'[i] = visits[i]
  BY <1>1, Taken
<1>3. \A i \in 1 .. Len(visits') : i \in 1 .. Len(visits) /\ visits'[i] = visits[i]
  BY <1>1, <1>2
<1>. QED
  BY <1>3 DEF AddedDeclared

\* A closure begins.
LEMMA BeginClosureMatches ==
  ASSUME IInv, BInv, BeginClosure
  PROVE  BInv'
<1>. DEFINE place == [part |-> NextStep.part, function |-> Len(private)]
<1>1. /\ visits # << >> /\ Top(visits).script # << >> /\ NextStep.do = "accept"
      /\ closures' = Append(closures, place)
      /\ sources' = Append(sources, EmptySource)
      /\ visits' = Append(visits, Visit(ClosureNode, FALSE, Len(closures')))
      /\ declarations' = declarations /\ caseless' = caseless
  BY DEF BeginClosure, Visiting
<1>2. /\ visits \in Seq(Visits) /\ Top(visits) = visits[Len(visits)]
      /\ closures \in Seq(Places) /\ private \in Seq(BOOLEAN)
  BY <1>1, InnermostVisit DEF IInv, Typed
<1>3. Len(closures') \in Nat /\ Len(closures') # 0
  <2>1. place \in Places
    BY <1>1, <1>2, InnermostVisit DEF Steps, Places
  <2>. HIDE DEF place
  <2>. QED
    BY <1>1, <1>2, <2>1, Appended
<1>4. PICK v \in Visits :
        /\ visits' = Append(visits, v)
        /\ v.script = ClosureNode /\ v.statement = FALSE /\ v.closure = Len(closures')
        /\ DOMAIN v.found = {}
  <2>. DEFINE no == FALSE
  <2>1. no \in BOOLEAN
    OBVIOUS
  <2>. HIDE DEF no
  <2>2. \E v \in Visits :
          /\ v = Visit(ClosureNode, no, Len(closures'))
          /\ v.script = ClosureNode /\ v.statement = no /\ v.closure = Len(closures')
          /\ DOMAIN v.found = {}
    BY <1>3, <2>1, ScriptsAreScripts, VisitParts
  <2>. QED
    BY <1>1, <2>2 DEF no
<1>5. PICK own, total, whole :
        /\ Owing(visits, sources, own, total, whole)
        /\ caseless <=> (\E k \in 1 .. Len(whole) : ~whole[k]) \/ Unmatched(declarations)
  BY DEF BInv
<1>6. Waits(visits[Len(visits)], v)
  BY <1>1, <1>2, <1>3, <1>4 DEF Waits, NextStep
<1>7. Leads(Level, v.script, v.statement)
  BY <1>4, ScriptsLead
<1>8. PICK own2, total2 : Owing(visits', sources', own2, total2, Append(whole, TRUE))
  BY <1>1, <1>2, <1>3, <1>4, <1>5, <1>6, <1>7, OwingPushClosure
<1>9. (\E k \in 1 .. Len(Append(whole, TRUE)) : ~Append(whole, TRUE)[k])
        <=> (\E k \in 1 .. Len(whole) : ~whole[k])
  <2>. DEFINE whole2 == Append(whole, TRUE)
              m == Len(whole)
  <2>1. whole \in Seq(BOOLEAN)
    BY <1>5 DEF Owing, Hold
  <2>2. whole2[m + 1]
    BY <2>1
  <2>3. m \in Nat /\ Len(whole2) = m + 1 /\ \A k \in 1 .. m : whole2[k] = whole[k]
    BY <2>1
  <2>. HIDE DEF whole2, m
  <2>4. \A k : k \in 1 .. m + 1 <=> k \in 1 .. m \/ k = m + 1
    BY <2>3
  <2>5. (\E k \in 1 .. m + 1 : ~whole2[k]) <=> (\E k \in 1 .. m : ~whole[k])
    BY <2>2, <2>3, <2>4
  <2>. QED
    BY <2>3, <2>5 DEF whole2, m
<1>10. AddedDeclared'
  BY <1>1, <1>4, NothingDeclared, NewDeclares DEF BInv
<1>. QED
  BY <1>1, <1>5, <1>8, <1>9, <1>10 DEF BInv

\* A statement begins, perhaps a switch without a case.
LEMMA BeginStatementMatches ==
  ASSUME IInv, BInv, NEW node \in Statements, BeginStatement(node)
  PROVE  BInv'
<1>1. /\ visits # << >> /\ Top(visits).script # << >> /\ NextStep.do = "visitChildren"
      /\ visits' = Append(visits, Visit(node.script, node.statement, 0))
      /\ sources' = sources /\ declarations' = declarations
      /\ caseless' = (caseless \/ node.script \in Caseless)
  BY DEF BeginStatement, Visiting, Caseless
<1>2. /\ visits \in Seq(Visits) /\ Top(visits) = visits[Len(visits)]
      /\ Len(visits) \in 1 .. Len(visits)
  BY <1>1, InnermostVisit DEF IInv, Typed
<1>3. PICK v \in Visits :
        /\ visits' = Append(visits, v)
        /\ v.script = node.script /\ v.statement = node.statement /\ v.closure = 0
        /\ DOMAIN v.found = {}
  BY <1>1, ScriptsAreScripts, VisitParts
<1>4. PICK own, total, whole :
        /\ Owing(visits, sources, own, total, whole)
        /\ caseless <=> (\E k \in 1 .. Len(whole) : ~whole[k]) \/ Unmatched(declarations)
  BY DEF BInv
<1>5. Waits(visits[Len(visits)], v)
  BY <1>1, <1>2, <1>3 DEF Waits, NextStep
<1>. DEFINE n == Len(visits)
            m == Len(sources)
            t == Owed(total, n)
<1>6. t \in States /\ t.header = FALSE /\ t.begun = FALSE
  <2>1. Frames(visits, own, total)
    BY <1>4 DEF Owing
  <2>2. /\ n \in 1 .. Len(visits) /\ visits[n].script # << >>
        /\ Head(visits[n].script).do = "visitChildren"
    BY <1>1, <1>2 DEF NextStep
  <2>. HIDE DEF n
  <2>. QED
    BY <1>2, <2>1, <2>2, ChildrenTaken
<1>7. /\ m \in 1 .. m /\ Len(whole) = m /\ whole[m] \in BOOLEAN
      /\ Follows(sources[m], t, whole[m])
  BY <1>2, <1>4, InnermostSource
<1>8. whole \in Seq(BOOLEAN)
  BY <1>4 DEF Owing, Hold
<1>9. AddedDeclared'
  BY <1>1, <1>3, NothingDeclared, NewDeclares DEF BInv
<1>10. CASE node.script \notin Caseless
  <2>1. Leads(Level, v.script, v.statement)
    BY <1>3, <1>10, ScriptsLead
  <2>. DEFINE w == whole[m]
  <2>2. Follows(sources[m], Sum(t, Level), w)
    <3>1. /\ Level \in States /\ Level.closes = 0 /\ Level.outdents = 0
          /\ Level.header = FALSE /\ Level.begun = FALSE
      BY TheStates
    <3>. HIDE DEF t, m
    <3>. QED
      BY <1>6, <1>7, <3>1, FollowsUnder
  <2>3. w \in BOOLEAN
    BY <1>7
  <2>3a. [whole EXCEPT ![m] = w] = whole
    BY <1>7, <1>8
  <2>4. Level \in States
    BY TheStates
  <2>. HIDE DEF w
  <2>5. \E own2, total2 :
          Owing(Append(visits, v), sources, own2, total2, [whole EXCEPT ![m] = w])
    BY <1>1, <1>2, <1>3, <1>4, <1>5, <2>1, <2>2, <2>3, <2>4, OwingPush
  <2>6. \E own2, total2 : Owing(visits', sources', own2, total2, whole)
    BY <1>1, <1>3, <2>3a, <2>5
  <2>. QED
    BY <1>1, <1>4, <1>9, <1>10, <2>6 DEF BInv
<1>11. CASE node.script \in Caseless
  <2>1. Leads(Before, v.script, v.statement)
    BY <1>3, <1>11, ScriptsLead
  <2>. DEFINE w == FALSE
  <2>2. Follows(sources[m], Sum(t, Before), w)
    <3>1. /\ Sum(t, Before).closes = t.closes + 1 /\ Sum(t, Before).outdents = t.outdents
          /\ Sum(t, Before).header = t.header /\ Sum(t, Before).begun = t.begun
      <4>1. /\ Before \in States /\ Before.closes = 1 /\ Before.outdents = 0
            /\ Before.header = FALSE /\ Before.begun = FALSE
        BY TheStates
      <4>2. Sum(t, Before).closes = t.closes + Before.closes
        BY SumParts
      <4>. HIDE DEF t
      <4>. QED
        BY <1>6, <4>1, <4>2, FollowsUnder
    <3>2. PICK r \in Shapes :
            /\ Runs(Shaping, Flat, All(sources[m]), r) /\ r.header = t.header
            /\ r.deep <= t.closes
      BY <1>7 DEF Follows
    <3>3. t.closes \in Nat /\ r.deep \in Nat
      BY <1>6, <3>2 DEF States, Shapes
    <3>4. /\ sources[m] \in Sources /\ sources[m].level = t.outdents
          /\ ~t.begun => sources[m].stream = << >>
      BY <1>7 DEF Follows
    <3>. HIDE DEF t, m
    <3>5. r.deep <= t.closes + 1 /\ r.deep # t.closes + 1
      BY <3>2, <3>3
    <3>. QED
      BY <3>1, <3>2, <3>4, <3>5 DEF Follows
  <2>3. w \in BOOLEAN
    OBVIOUS
  <2>4. Before \in States
    BY TheStates
  <2>5. ~w
    OBVIOUS
  <2>. HIDE DEF w
  <2>. DEFINE whole2 == [whole EXCEPT ![m] = w]
  <2>6. \E own2, total2 : Owing(Append(visits, v), sources, own2, total2, whole2)
    BY <1>1, <1>2, <1>3, <1>4, <1>5, <2>1, <2>2, <2>3, <2>4, OwingPush, ZenonT(60)
  <2>7. Len(whole2) = m /\ whole2[m] = w
    <3>1. m \in 1 .. Len(whole)
      BY <1>7
    <3>. HIDE DEF m
    <3>. QED
      BY <1>7, <1>8, <2>3, <3>1, Replaced
  <2>. HIDE DEF whole2
  <2>8. \E own2, total2 : Owing(visits', sources', own2, total2, whole2)
    BY <1>1, <1>3, <2>6
  <2>9. \E k \in 1 .. Len(whole2) : ~whole2[k]
    <3>. HIDE DEF m
    <3>. QED
      BY <1>7, <2>5, <2>7
  <2>10. caseless'
    BY <1>1, <1>11
  <2>. QED
    BY <1>9, <2>8, <2>9, <2>10 DEF BInv
<1>. QED
  BY <1>10, <1>11

\* A statement ends.
LEMMA EndStatementMatches ==
  ASSUME IInv, BInv, EndStatement
  PROVE  BInv'
<1>. DEFINE n == Len(visits)
            p == n - 1
            m == Len(sources)
<1>1. /\ n > 1 /\ Top(visits).script = << >> /\ Top(visits).closure = 0
      /\ sources' = IF Top(visits).statement
           THEN [sources EXCEPT ![m] = printLine(sources[m], Text)]
           ELSE sources
      /\ visits' = Front(visits) /\ declarations' = declarations /\ caseless' = caseless
  BY DEF EndStatement
<1>2. /\ visits \in Seq(Visits) /\ visits # << >> /\ sources \in Seq(Sources)
      /\ n \in Nat /\ n \in 1 .. n /\ p \in 1 .. n /\ n = p + 1 /\ p # 0
      /\ Top(visits) = visits[n] /\ Top(visits) \in Visits
  <2>1. visits \in Seq(Visits) /\ visits # << >> /\ sources \in Seq(Sources)
    BY <1>1 DEF IInv, Typed
  <2>. QED
    BY <1>1, <2>1, InnermostVisit
<1>3. PICK own, total, whole :
        /\ Owing(visits, sources, own, total, whole)
        /\ caseless <=> (\E k \in 1 .. Len(whole) : ~whole[k]) \/ Unmatched(declarations)
  BY DEF BInv
<1>4. /\ Frames(visits, own, total) /\ Waits(visits[p], visits[n])
      /\ visits[n].closure = 0 /\ visits[n].script = << >>
  BY <1>1, <1>2, <1>3 DEF Owing, Frames
<1>. DEFINE t == Owed(total, p)
            a == own[n]
            s == sources[m]
            w == whole[m]
<1>5. t \in States /\ t.header = FALSE /\ t.begun = FALSE
  <2>1. visits[p].script # << >> /\ Head(visits[p].script).do = "visitChildren"
    BY <1>4 DEF Waits
  <2>. HIDE DEF p
  <2>. QED
    BY <1>2, <1>4, <2>1, ChildrenTaken
<1>6. /\ Follows(s, Owed(total, n), w) /\ Owed(total, n) = Sum(Base(visits, total, n), a)
      /\ w \in BOOLEAN /\ m \in 1 .. m /\ Leads(a, visits[n].script, visits[n].statement)
  BY <1>2, <1>3, InnermostSource
<1>7. Base(visits, total, n) = t
  BY <1>4 DEF Base
<1>8. /\ a \in States /\ a.closes = 0 /\ a.outdents = 0 /\ a.header = FALSE
      /\ visits[n].statement \/ a.begun = FALSE
  BY <1>2, <1>3, <1>4, StepsEnd
<1>. HIDE DEF t, a, s, w
<1>9. Follows(s, Sum(t, a), w)
  BY <1>6, <1>7
<1>10. t.closes \in Nat /\ t.outdents \in Nat
  BY <1>5 DEF States
<1>11. PICK u : Follows(u, t, w) /\ sources' = [sources EXCEPT ![m] = u]
  <2>1. CASE Top(visits).statement
    <3>. DEFINE u == printLine(s, Text)
    <3>1. /\ Line(Text) \in Steps /\ Line(Text).do = "printLine" /\ Line(Text).text = Text
      BY StepsAreSteps DEF Line, Step
    <3>2. <<a, Line(Text), Level>> \in Taking
      <4>1. /\ Level.closes = a.closes /\ Level.header = a.header
            /\ Level.outdents = a.outdents /\ Level.begun = FALSE /\ Level \in States
        BY <1>8, TheStates
      <4>2. Owes(a, Text, Level)
        BY <4>1 DEF Owes
      <4>3. Takes(a, Line(Text), Level)
        BY <3>1, <4>1, <4>2 DEF Takes
      <4>. QED
        BY <1>8, <3>1, <4>1, <4>3 DEF Taking
    <3>3. Follows(Written(s, Line(Text)), Sum(t, Level), w)
      BY <1>5, <1>6, <1>9, <3>1, <3>2, WrittenFollows DEF Writing
    <3>4. Written(s, Line(Text)) = u
      BY <3>1 DEF Written
    <3>5. /\ Level \in States /\ Level.closes = 0 /\ Level.outdents = 0
          /\ Level.header = FALSE /\ Level.begun = FALSE
      BY TheStates
    <3>. HIDE DEF u
    <3>6. Follows(u, t, w)
      BY <1>5, <3>3, <3>4, <3>5, FollowsUnder
    <3>7. sources' = [sources EXCEPT ![m] = u]
      BY <1>1, <2>1 DEF s, u
    <3>. QED
      BY <3>6, <3>7
  <2>2. CASE ~Top(visits).statement
    <3>1. a.begun = FALSE
      BY <1>2, <1>8, <2>2
    <3>3. Follows(s, t, w)
      BY <1>5, <1>8, <1>9, <3>1, FollowsUnder
    <3>4. sources' = [sources EXCEPT ![m] = s]
      BY <1>1, <1>2, <2>2 DEF s
    <3>. QED
      BY <3>3, <3>4
  <2>. QED
    BY <2>1, <2>2
<1>12. Owing(visits', sources', Front(own), Front(total), whole)
  <2>1. Follows(u, Owed(total, Len(visits) - 1), whole[Len(sources)])
    BY <1>11 DEF t, w
  <2>2. Owing(Front(visits), [sources EXCEPT ![Len(sources)] = u], Front(own), Front(total),
              whole)
    BY <1>2, <1>3, <1>4, <2>1, OwingPop
  <2>. QED
    BY <1>1, <1>11, <2>2
<1>13. AddedDeclared'
  BY <1>1, <1>2, FewerDeclare DEF BInv
<1>. QED
  BY <1>1, <1>3, <1>12, <1>13 DEF BInv

\* A closure ends, and its function is declared.
LEMMA EndClosureMatches ==
  ASSUME IInv, BInv, EndClosure
  PROVE  BInv'
<1>. DEFINE n == Len(visits)
            p == n - 1
            m == Len(sources)
<1>1. PICK v : v = Top(visits)
  OBVIOUS
<1>2. PICK d : d = Declared("closure", v.closure, Top(sources).lines)
  OBVIOUS
<1>3. PICK added : added = SubSeq(declarations', v.declared + 1, Len(declarations'))
  OBVIOUS
<1>4. PICK e : e = Found(v.closure, 0, added)
  OBVIOUS
<1>5. /\ visits # << >> /\ v.script = << >> /\ v.closure # 0
      /\ declarations' = Append(declarations, d)
      /\ sources' = [Front(sources) EXCEPT ![m - 1] =
                       WrittenExpression(Front(sources)[m - 1], e)]
      /\ visits' = Noted(Front(visits), e) /\ caseless' = caseless
  BY <1>1, <1>2, <1>3, <1>4 DEF EndClosure
<1>6. /\ visits \in Seq(Visits) /\ sources \in Seq(Sources)
      /\ declarations \in Seq(Declarations)
      /\ n \in 1 .. n /\ n \in Nat /\ v = visits[n] /\ v \in Visits
      /\ m \in 1 .. m /\ m \in Nat /\ Top(sources) = sources[m]
  <2>1. visits \in Seq(Visits) /\ sources \in Seq(Sources) /\ declarations \in Seq(Declarations)
    BY DEF IInv, Typed
  <2>2. n \in 1 .. n /\ v = visits[n] /\ v \in Visits
    BY <1>1, <1>5, InnermostVisit
  <2>3. m \in 1 .. m /\ Top(sources) = sources[m]
    BY SourceOnTop DEF Top
  <2>. QED
    BY <2>1, <2>2, <2>3
<1>7. PICK own, total, whole :
        /\ Owing(visits, sources, own, total, whole)
        /\ caseless <=> (\E k \in 1 .. Len(whole) : ~whole[k]) \/ Unmatched(declarations)
  BY DEF BInv
<1>8. n > 1 /\ visits[p].script # << >>
  BY <1>5, <1>6 DEF IInv, CallersWait
<1>9. p \in 1 .. n /\ n = p + 1 /\ p \in Nat /\ p >= 1
  BY <1>6, <1>8
<1>10. Waits(visits[p], visits[n])
  <2>1. n \in 1 .. Len(visits) /\ p \in 1 .. Len(visits)
    BY <1>6, <1>9
  <2>. HIDE DEF n, p
  <2>. QED
    BY <1>7, <1>9, <2>1 DEF Owing, Frames
<1>11. /\ whole \in Seq(BOOLEAN) /\ Len(whole) = m /\ whole[m] \in BOOLEAN
       /\ (whole[m] <=> Balanced(sources[m].lines))
  <2>. DEFINE a == own[n]
              t == Owed(total, n)
              w == whole[m]
              s == sources[m]
  <2>1. whole \in Seq(BOOLEAN) /\ Len(whole) = m
    BY <1>7 DEF Owing, Hold
  <2>2. /\ Follows(s, t, w) /\ t \in States /\ w \in BOOLEAN
        /\ t = Sum(Base(visits, total, n), a) /\ ~visits[n].statement
    BY <1>5, <1>6, <1>7, InnermostSource
  <2>3. Base(visits, total, n) = Zero
    BY <1>5, <1>6 DEF Base
  <2>4. /\ a \in States /\ a.closes = 0 /\ a.outdents = 0 /\ a.header = FALSE
        /\ a.begun = FALSE
    BY <1>5, <1>6, <1>7, <2>2, StepsEnd
  <2>. HIDE DEF a, t, w, s
  <2>5. t = a
    BY <2>2, <2>3, <2>4, Sums
  <2>6. w <=> Balanced(s.lines)
    BY <2>2, <2>4, <2>5, WholeIsBalanced
  <2>. QED
    BY <2>1, <2>2, <2>6 DEF w, s
<1>12. d \in Declarations /\ d.text = sources[m].lines
  <2>1. sources[m] \in Sources
    BY <1>6
  <2>2. sources[m].lines \in Seq(Pieces)
    BY <2>1 DEF Sources
  <2>3. v.closure \in Nat
    BY <1>6 DEF Visits
  <2>. QED
    BY <1>2, <1>6, <2>2, <2>3 DEF Declared, Declarations
<1>13. /\ declarations' \in Seq(Declarations) /\ <<d>> \in Seq(Declarations)
       /\ declarations' = declarations \o <<d>>
  BY <1>5, <1>6, <1>12
<1>14. e \in Expressions /\ Declares(declarations', e)
  <2>1. v.closure \in Nat /\ v.declared \in Nat
    BY <1>6 DEF Visits
  <2>2. /\ added \in Seq(Declarations)
        /\ \A i \in 1 .. Len(added) :
             /\ v.declared + i \in 1 .. Len(declarations')
             /\ added[i] = declarations'[v.declared + i]
    BY <1>3, <1>13, <2>1, Behind
  <2>3. e \in Expressions /\ e.added = added
    BY <1>4, <2>1, <2>2 DEF Found, Expressions
  <2>4. \A i \in 1 .. Len(added) : \E j \in 1 .. Len(declarations') :
          declarations'[j] = added[i]
    BY <2>2
  <2>. QED
    BY <2>3, <2>4 DEF Declares
<1>. DEFINE vs == Front(visits)
            srcs == Front(sources)
<1>15. /\ vs \in Seq(Visits) /\ Len(vs) = p /\ vs # << >>
       /\ \A i \in 1 .. p : vs[i] = visits[i]
  <2>1. /\ vs \in Seq(Visits) /\ Len(vs) = p
        /\ \A i \in 1 .. p : vs[i] = visits[i]
    BY <1>6, Taken
  <2>. HIDE DEF vs, n
  <2>. QED
    BY <1>9, <2>1
<1>16. Len(srcs) = m - 1
  BY <1>6, Taken
<1>17. Owing(vs, srcs, Front(own), Front(total), Front(whole))
  BY <1>5, <1>6, <1>7, OwingPopClosure
<1>. HIDE DEF vs, srcs
<1>18. /\ Top(vs) = visits[p] /\ vs[Len(vs)] = visits[p] /\ vs[Len(vs)].script # << >>
       /\ Head(vs[Len(vs)].script).do = "accept"
  <2>1. Len(vs) = p /\ vs[p] = visits[p]
    BY <1>9, <1>15
  <2>2. Head(visits[p].script).do = "accept"
    BY <1>5, <1>6, <1>10 DEF Waits
  <2>. HIDE DEF p
  <2>. QED
    BY <1>8, <2>1, <2>2 DEF Top
<1>19. PICK w \in Visits :
         /\ w.closure = Top(vs).closure /\ w.statement = Top(vs).statement
         /\ w.script = Tail(Top(vs).script)
         /\ Noted(vs, e) = [vs EXCEPT ![Len(vs)] = w]
         /\ \A part \in DOMAIN w.found :
              \/ part \in DOMAIN Top(vs).found /\ w.found[part] = Top(vs).found[part]
              \/ w.found[part] = e
  <2>1. Len(vs) >= 1 /\ Top(vs).script # << >>
    BY <1>9, <1>15, <1>18
  <2>. QED
    BY <1>14, <1>15, <2>1, TopNotes
<1>20. \E own2, total2 : Owing(visits', sources', own2, total2, Front(whole))
  <2>1. /\ w.statement = vs[Len(vs)].statement /\ w.closure = vs[Len(vs)].closure
        /\ w.script = Tail(vs[Len(vs)].script)
    BY <1>18, <1>19
  <2>2. \E own2, total2 :
          Owing([vs EXCEPT ![Len(vs)] = w],
                [srcs EXCEPT ![Len(srcs)] = WrittenExpression(srcs[Len(srcs)], e)],
                own2, total2, Front(whole))
    BY <1>14, <1>15, <1>17, <1>18, <2>1, ExpressionTaken
  <2>3. visits' = [vs EXCEPT ![Len(vs)] = w]
    BY <1>5, <1>19 DEF vs
  <2>4. sources' = [srcs EXCEPT ![Len(srcs)] = WrittenExpression(srcs[Len(srcs)], e)]
    BY <1>5, <1>16 DEF srcs
  <2>. QED
    BY <2>2, <2>3, <2>4
<1>21. Unmatched(declarations') <=> Unmatched(declarations) \/ ~whole[m]
  BY <1>5, <1>6, <1>11, <1>12, UnmatchedMore
<1>22. (\E k \in 1 .. Len(whole) : ~whole[k])
         <=> (\E k \in 1 .. Len(Front(whole)) : ~Front(whole)[k]) \/ ~whole[m]
  <2>. DEFINE whole2 == Front(whole)
  <2>1. /\ Len(whole2) = m - 1 /\ \A k \in 1 .. m - 1 : whole2[k] = whole[k]
    <3>1. Len(whole) >= 1
      BY <1>6, <1>11
    <3>. HIDE DEF m
    <3>. QED
      BY <1>11, <3>1, Taken
  <2>. HIDE DEF whole2, m
  <2>2. \A k : k \in 1 .. m <=> k \in 1 .. m - 1 \/ k = m
    BY <1>6
  <2>3. (\E k \in 1 .. m : ~whole[k]) <=> (\E k \in 1 .. m - 1 : ~whole2[k]) \/ ~whole[m]
    BY <2>1, <2>2
  <2>. QED
    BY <1>11, <2>1, <2>3 DEF whole2
<1>23. AddedDeclared'
  <2>1. /\ Len(visits') = p
        /\ \A i \in 1 .. p : visits'[i] = IF i = p THEN w ELSE visits[i]
    <3>1. visits' = [vs EXCEPT ![p] = w]
      BY <1>5, <1>15, <1>19 DEF vs
    <3>2. p \in 1 .. Len(vs)
      BY <1>9, <1>15
    <3>. HIDE DEF p
    <3>. QED
      BY <1>15, <3>1, <3>2, Replaced
  <2>2. ASSUME NEW i \in 1 .. Len(visits'), NEW part \in DOMAIN visits'[i].found
        PROVE  \/ /\ i \in 1 .. Len(visits) /\ part \in DOMAIN visits[i].found
                  /\ visits'[i].found[part] = visits[i].found[part]
               \/ Declares(declarations', visits'[i].found[part])
    <3>1. i \in 1 .. p /\ i \in 1 .. Len(visits)
      BY <1>6, <2>1
    <3>. HIDE DEF p
    <3>2. CASE i = p
      <4>1. visits'[i] = w
        BY <2>1, <3>1, <3>2
      <4>. QED
        BY <1>14, <1>18, <1>19, <3>1, <3>2, <4>1
    <3>3. CASE i # p
      BY <2>1, <3>1, <3>3
    <3>. QED
      BY <3>2, <3>3
  <2>. QED
    BY <1>6, <1>13, <2>2, AddedStays DEF BInv
<1>. QED
  BY <1>5, <1>7, <1>20, <1>21, <1>22, <1>23 DEF BInv

\* A function begins.
LEMMA FunctionDefinitionMatches ==
  ASSUME IInv, BInv, NEW hidden \in BOOLEAN, FunctionDefinition(hidden)
  PROVE  BInv'
<1>. DEFINE d == Declared("prototype", Len(private'), Text)
<1>1. /\ visits = << >> /\ private' = Append(private, hidden)
      /\ declarations' = IF hidden THEN Append(declarations, d) ELSE declarations
      /\ visits' = <<Visit(FunctionDefinitionNode, FALSE, 0)>>
      /\ sources' = sources /\ caseless' = caseless
  BY DEF FunctionDefinition
<1>2. /\ visits \in Seq(Visits) /\ declarations \in Seq(Declarations)
      /\ private \in Seq(BOOLEAN) /\ Len(visits) = 0
  BY <1>1 DEF IInv, Typed
<1>3. d \in Declarations /\ d.text = << >>
  <2>1. private' \in Seq(BOOLEAN)
    BY <1>1, <1>2
  <2>2. Len(private') \in Nat
    BY <2>1
  <2>3. << >> \in Seq(Pieces)
    OBVIOUS
  <2>. QED
    BY <2>2, <2>3 DEF Declared, Declarations, Text
<1>. HIDE DEF d
<1>4. PICK v \in Visits :
        /\ visits' = Append(visits, v)
        /\ v.script = FunctionDefinitionNode /\ v.statement = FALSE /\ v.closure = 0
        /\ DOMAIN v.found = {}
  <2>. DEFINE no == FALSE
  <2>1. no \in BOOLEAN
    OBVIOUS
  <2>. HIDE DEF no
  <2>2. \E v \in Visits :
          /\ v = Visit(FunctionDefinitionNode, no, 0)
          /\ v.script = FunctionDefinitionNode /\ v.statement = no /\ v.closure = 0
          /\ DOMAIN v.found = {}
    BY <2>1, ScriptsAreScripts, VisitParts
  <2>3. visits' = <<Visit(FunctionDefinitionNode, no, 0)>>
    BY <1>1 DEF no
  <2>4. PICK v \in Visits :
          /\ v = Visit(FunctionDefinitionNode, no, 0)
          /\ v.script = FunctionDefinitionNode /\ v.statement = no /\ v.closure = 0
          /\ DOMAIN v.found = {}
    BY <2>2
  <2>5. visits' = Append(visits, v)
    <3>1. visits' = <<v>>
      BY <2>3, <2>4
    <3>2. Append(<< >>, v) = <<v>>
      OBVIOUS
    <3>. QED
      BY <1>1, <3>1, <3>2
  <2>. QED
    BY <2>4, <2>5 DEF no
<1>5. PICK own, total, whole :
        /\ Owing(visits, sources, own, total, whole)
        /\ caseless <=> (\E k \in 1 .. Len(whole) : ~whole[k]) \/ Unmatched(declarations)
  BY DEF BInv
<1>. DEFINE m == Len(sources)
            t == Owed(total, 0)
            w == whole[m]
<1>6. /\ m \in 1 .. m /\ Len(whole) = m /\ w \in BOOLEAN
      /\ Follows(sources[m], t, w)
  BY <1>2, <1>5, InnermostSource, ZenonT(60)
<1>7. /\ t = Zero /\ Level \in States /\ Sum(Zero, Level) = Level /\ Level = Zero
  BY TheStates, Sums DEF Owed, Level
<1>8. Leads(Level, v.script, v.statement)
  BY <1>4, ScriptsLead
<1>9. Follows(sources[Len(sources)], Sum(Owed(total, Len(visits)), Level), w)
  BY <1>2, <1>6, <1>7
<1>10. [whole EXCEPT ![m] = w] = whole
  <2>1. whole \in Seq(BOOLEAN)
    BY <1>5 DEF Owing, Hold
  <2>. QED
    BY <2>1
<1>. HIDE DEF w, t
<1>11. ~v.statement /\ v.closure = 0
  BY <1>4
<1>12. \E own2, total2 :
         Owing(Append(visits, v), sources, own2, total2, [whole EXCEPT ![m] = w])
  <2>1. visits = << >> /\ sources[m] = sources[Len(sources)]
    BY <1>1
  <2>. QED
    BY <1>2, <1>5, <1>6, <1>7, <1>8, <1>9, <1>11, <2>1, OwingPush
<1>12a. \E own2, total2 : Owing(visits', sources', own2, total2, whole)
  BY <1>1, <1>4, <1>10, <1>12
<1>13. AddedDeclared' /\ (Unmatched(declarations') <=> Unmatched(declarations))
  <2>1. CASE hidden
    <3>1. declarations' = Append(declarations, d)
      BY <1>1, <2>1
    <3>2. declarations' = declarations \o <<d>> /\ <<d>> \in Seq(Declarations)
      BY <1>2, <1>3, <3>1
    <3>3. AddedDeclared'
      BY <1>4, <3>2, NewDeclares DEF BInv
    <3>4. Unmatched(declarations') <=> Unmatched(declarations)
      BY <1>2, <1>3, <3>1, UnmatchedMore, NothingIsBalanced
    <3>. QED
      BY <3>3, <3>4
  <2>2. CASE ~hidden
    <3>1. declarations' = declarations
      BY <1>1, <2>2
    <3>. QED
      BY <1>4, <3>1, NothingDeclared, NewDeclares DEF BInv
  <2>. QED
    BY <2>1, <2>2
<1>. QED
  BY <1>1, <1>5, <1>12a, <1>13 DEF BInv

\* A function ends.
LEMMA EndFunctionMatches ==
  ASSUME IInv, BInv, EndFunction
  PROVE  BInv'
<1>1. /\ Len(visits) = 1 /\ Top(visits).script = << >> /\ visits' = << >>
      /\ sources' = sources /\ sources \in Seq(Sources)
      /\ declarations' = declarations /\ caseless' = caseless
  BY DEF EndFunction, IInv, Typed
<1>2. /\ visits \in Seq(Visits) /\ visits # << >> /\ visits[1].script = << >>
      /\ visits[1].closure = 0
  <2>1. visits \in Seq(Visits)
    BY DEF IInv, Typed
  <2>. DEFINE n == Len(visits)
  <2>2. n = 1 /\ Len(<< >>) = 0
    BY <1>1
  <2>2a. visits # << >> /\ 1 \in 1 .. n
    BY <2>2
  <2>3. visits[1].closure # 0 => 1 > 1
    BY <2>2a DEF IInv, CallersWait
  <2>4. Top(visits) = visits[1]
    BY <1>1 DEF Top
  <2>. QED
    BY <1>1, <2>1, <2>2a, <2>3, <2>4
<1>3. PICK own, total, whole :
        /\ Owing(visits, sources, own, total, whole)
        /\ caseless <=> (\E k \in 1 .. Len(whole) : ~whole[k]) \/ Unmatched(declarations)
  BY DEF BInv
<1>. DEFINE m == Len(sources)
            s == sources[m]
            w == whole[m]
            a == own[1]
            t == Owed(total, 1)
<1>4. /\ Follows(s, t, w) /\ t = Sum(Base(visits, total, 1), a) /\ ~visits[1].statement
  BY <1>1, <1>2, <1>3, InnermostSource
<1>5. /\ a \in States /\ a.closes = 0 /\ a.outdents = 0 /\ a.header = FALSE
      /\ a.begun = FALSE
  <2>1. visits[Len(visits)].script = << >> /\ ~visits[Len(visits)].statement
    BY <1>1, <1>2, <1>4
  <2>. QED
    BY <1>1, <1>2, <1>3, <2>1, StepsEnd
<1>6. Base(visits, total, 1) = Zero /\ Owed(total, 0) = Zero
  BY DEF Base, Owed
<1>. HIDE DEF s, w, a, t
<1>7. t = a
  BY <1>4, <1>5, <1>6, Sums
<1>8. Follows(s, Zero, w)
  <2>1. /\ Zero.closes = a.closes /\ Zero.outdents = a.outdents /\ Zero.header = a.header
        /\ Zero.begun = a.begun
    BY <1>5, TheStates DEF Level
  <2>. QED
    BY <1>4, <1>7, <2>1, FollowsSame
<1>9. Follows(s, Owed(total, Len(visits) - 1), whole[m])
  BY <1>1, <1>6, <1>8 DEF w
<1>10. Owing(Front(visits), [sources EXCEPT ![m] = s], Front(own), Front(total), whole)
  BY <1>1, <1>2, <1>3, <1>9, OwingPop
<1>11. Front(visits) = visits' /\ [sources EXCEPT ![m] = s] = sources'
  <2>1. Front(visits) = << >>
    BY <1>1, <1>2 DEF Front
  <2>. QED
    BY <1>1, <2>1 DEF s
<1>12. AddedDeclared'
  BY <1>1 DEF AddedDeclared
<1>. QED
  BY <1>1, <1>3, <1>10, <1>11, <1>12 DEF BInv

\* At first nothing is owed.
LEMMA MatchesAtFirst ==
  ASSUME Init
  PROVE  BInv
<1>1. /\ sources = <<EmptySource>> /\ declarations = << >> /\ visits = << >>
      /\ caseless = FALSE
  BY DEF Init
<1>2. EmptySource \in Sources /\ Follows(EmptySource, Zero, TRUE)
  <2>1. /\ EmptySource.level = 0 /\ EmptySource.lines = << >> /\ EmptySource.stream = << >>
        /\ EmptySource \in Sources
    BY DEF EmptySource, Sources
  <2>2. All(EmptySource) = << >>
    BY <2>1 DEF All
  <2>3. Flat \in Shapes /\ Flat.deep = 0 /\ Flat.header = FALSE /\ Flat.matched
    BY DEF Flat, Shapes
  <2>4. Runs(Shaping, Flat, All(EmptySource), Flat)
    BY <2>2, RunsNone
  <2>5. Flat.header = Zero.header
    BY <2>3, TheStates DEF Level
  <2>6. Flat.deep <= Zero.closes /\ Flat.deep = Zero.closes /\ Zero.outdents = 0
    BY <2>3, TheStates DEF Level
  <2>. QED
    BY <2>1, <2>3, <2>4, <2>5, <2>6 DEF Follows
<1>3. Number(visits, 0) = 1
  BY Numbers
<1>. DEFINE yes == TRUE
            whole == <<yes>>
<1>4. yes \in BOOLEAN /\ yes
  OBVIOUS
<1>5. Follows(EmptySource, Zero, yes)
  BY <1>2
<1>. HIDE DEF yes
<1>6. whole \in Seq(BOOLEAN) /\ Len(whole) = 1 /\ whole[1] = yes
  BY <1>4
<1>. HIDE DEF whole
<1>7. Frames(visits, << >>, << >>)
  BY <1>1 DEF Frames
<1>8. Hold(visits, sources, << >>, whole)
  <2>1. Len(visits) = 0 /\ sources \in Seq(Sources) /\ Len(sources) = 1 /\ sources[1] = EmptySource
    BY <1>1, <1>2
  <2>2. ASSUME NEW i \in 0 .. 0
        PROVE  Follows(sources[Number(visits, i)], Owed(<< >>, i), whole[Number(visits, i)])
    BY <1>3, <1>5, <1>6, <2>1 DEF Owed
  <2>. QED
    BY <1>3, <1>6, <2>1, <2>2 DEF Hold
<1>9. Owing(visits, sources, << >>, << >>, whole)
  BY <1>7, <1>8 DEF Owing
<1>10. ~(\E k \in 1 .. Len(whole) : ~whole[k]) /\ ~Unmatched(declarations)
  <2>1. \A k \in 1 .. Len(whole) : k = 1
    BY <1>6
  <2>2. \A k \in 1 .. Len(whole) : whole[k]
    BY <1>4, <1>6, <2>1
  <2>3. Len(declarations) = 0 /\ 1 .. 0 = {}
    BY <1>1
  <2>4. ~Unmatched(declarations)
    BY <2>3 DEF Unmatched
  <2>. QED
    BY <2>2, <2>4
<1>11. AddedDeclared
  BY <1>1 DEF AddedDeclared
<1>. QED
  BY <1>1, <1>9, <1>10, <1>11 DEF BInv

-----------------------------------------------------------------------------
(* Together. *)

\* The invariant holds at first, and a step keeps it.
LEMMA Matching == Spec => []BInv
<1>1. ASSUME IInv, BInv, [Next]_vars
      PROVE  BInv'
  <2>1. CASE UNCHANGED vars
    <3>1. /\ sources' = sources /\ declarations' = declarations /\ visits' = visits
          /\ caseless' = caseless
      BY <2>1 DEF vars
    <3>2. AddedDeclared'
      BY <1>1, <3>1 DEF BInv, AddedDeclared
    <3>. QED
      BY <1>1, <3>1, <3>2 DEF BInv
  <2>2. CASE \E hidden \in BOOLEAN : FunctionDefinition(hidden)
    BY <1>1, <2>2, FunctionDefinitionMatches
  <2>3. CASE Write
    BY <1>1, <2>3, WriteMatches
  <2>4. CASE \E call \in 0 .. MaxFunctions : PlainExpression(call)
    BY <1>1, <2>4, PlainExpressionMatches
  <2>5. CASE ExpressionAgain
    BY <1>1, <2>5, ExpressionAgainMatches
  <2>6. CASE BeginClosure
    BY <1>1, <2>6, BeginClosureMatches
  <2>7. CASE EndClosure
    BY <1>1, <2>7, EndClosureMatches
  <2>8. CASE \E node \in Statements : BeginStatement(node)
    BY <1>1, <2>8, BeginStatementMatches
  <2>9. CASE EndStatement
    BY <1>1, <2>9, EndStatementMatches
  <2>10. CASE EndChildren
    BY <1>1, <2>10, EndChildrenMatches
  <2>11. CASE EndFunction
    BY <1>1, <2>11, EndFunctionMatches
  <2>. QED
    BY <1>1, <2>1, <2>2, <2>3, <2>4, <2>5, <2>6, <2>7, <2>8, <2>9, <2>10, <2>11 DEF Next
<1>. QED
  BY MatchesAtFirst, Invariance, <1>1, PTL DEF Spec

\* What visits owe to sources is never less than nothing.
LEMMA LevelsOwed ==
  ASSUME NEW vs \in Seq(Visits), NEW srcs, NEW own, NEW total, NEW whole,
         Owing(vs, srcs, own, total, whole)
  PROVE  \A k \in DOMAIN srcs : srcs[k].level \in Nat
<1>. DEFINE n == Len(vs)
<1>1. n \in Nat
  OBVIOUS
<1>2. /\ srcs \in Seq(Sources) /\ Len(srcs) = Number(vs, n)
      /\ \A i \in 0 .. n :
           i = n \/ vs[i + 1].closure # 0 =>
             Follows(srcs[Number(vs, i)], Owed(total, i), whole[Number(vs, i)])
  BY DEF Owing, Hold
<1>3. \A i \in 0 .. n : Owed(total, i) \in States
  BY <1>1, OwedStates DEF Owing
<1>. HIDE DEF n
<1>4. ASSUME NEW k \in DOMAIN srcs
      PROVE  srcs[k].level \in Nat
  <2>1. k \in 1 .. Number(vs, n)
    BY <1>2
  <2>2. PICK i \in 0 .. n : Number(vs, i) = k /\ (i = n \/ vs[i + 1].closure # 0)
    BY <1>1, <2>1, NumbersAll
  <2>3. Follows(srcs[k], Owed(total, i), whole[k])
    BY <1>2, <2>2
  <2>4. Owed(total, i) \in States
    BY <1>3
  <2>5. Owed(total, i).outdents \in Nat
    BY <2>4 DEF States
  <2>. QED
    BY <2>3, <2>5 DEF Follows
<1>. QED
  BY <1>4

\* Sources are never outdented beyond their first level. After a function
\* there is one source, with no line begun, and the blocks of its text and of
\* every declaration's match, unless a switch had no case, and then they do not.
THEOREM BlocksDoMatch == Spec => []BlocksMatch
<1>1. ASSUME IInv, BInv
      PROVE  BlocksMatch
  <2>1. visits \in Seq(Visits) /\ declarations \in Seq(Declarations)
    BY <1>1 DEF IInv, Typed
  <2>2. PICK own, total, whole :
          /\ Owing(visits, sources, own, total, whole)
          /\ caseless <=> (\E k \in 1 .. Len(whole) : ~whole[k]) \/ Unmatched(declarations)
    BY <1>1 DEF BInv
  <2>3. \A i \in DOMAIN sources : sources[i].level \in Nat
    BY <2>1, <2>2, LevelsOwed
  <2>4. ASSUME Done
        PROVE  /\ sources = <<[EmptySource EXCEPT !.lines = sources[1].lines]>>
               /\ ~caseless <=>
                    \A text \in Texts : Reading(text).matched /\ Reading(text).blocks = << >>
    <3>. DEFINE s == sources[1]
                w == whole[1]
    <3>1. Len(visits) = 0 /\ Number(visits, 0) = 1
      BY <2>4, Numbers DEF Done
    <3>2. /\ sources \in Seq(Sources) /\ Len(sources) = 1
          /\ whole \in Seq(BOOLEAN) /\ Len(whole) = 1
      BY <2>2, <3>1 DEF Owing, Hold
    <3>3. w \in BOOLEAN /\ s \in Sources
      BY <3>2, SMTT(30)
    <3>4. Follows(s, Zero, w)
      <4>1. Follows(sources[Number(visits, 0)], Owed(total, 0), whole[Number(visits, 0)])
        BY <2>2, <3>1 DEF Owing, Hold
      <4>2. Owed(total, 0) = Zero
        BY DEF Owed
      <4>. QED
        BY <3>1, <4>1, <4>2
    <3>5. s.level = 0
      BY <3>4 DEF Follows, Zero
    <3>. HIDE DEF s, w
    <3>6. Zero \in States /\ Zero.closes = 0 /\ Zero.header = FALSE /\ Zero.begun = FALSE
      BY DEF Zero, States
    <3>7. s.stream = << >> /\ (w <=> Balanced(s.lines))
      BY <3>3, <3>4, <3>6, WholeIsBalanced
    <3>8. s = [EmptySource EXCEPT !.lines = s.lines]
      BY <3>3, <3>5, <3>7 DEF Sources, EmptySource
    <3>9. sources = <<s>>
      BY <3>2 DEF s
    <3>10. (\E k \in 1 .. Len(whole) : ~whole[k]) <=> ~w
      <4>1. \A k : k \in 1 .. Len(whole) <=> k = 1
        BY <3>2
      <4>. QED
        BY <4>1 DEF w
    <3>11. Range(declarations) = {declarations[i] : i \in 1 .. Len(declarations)}
      BY <2>1 DEF Range
    <3>12. (\A text \in Texts : Balanced(text)) <=> Balanced(s.lines) /\ ~Unmatched(declarations)
      BY <3>11 DEF Texts, Unmatched, s
    <3>13. ~caseless <=> \A text \in Texts : Balanced(text)
      BY <2>2, <3>7, <3>10, <3>12
    <3>. QED
      BY <3>8, <3>9, <3>13 DEF Balanced, s
  <2>. QED
    BY <2>3, <2>4 DEF BlocksMatch
<1>. QED
  BY Invariance, Matching, <1>1, PTL

-----------------------------------------------------------------------------
(* Closures that are declared more than once. *)

\* Where the elements of two sequences are, that are put together.
LEMMA JoinedPlaces ==
  ASSUME NEW S, NEW s \in Seq(S), NEW t \in Seq(S)
  PROVE  /\ Len(s) \in Nat /\ Len(t) \in Nat /\ Len(s \o t) = Len(s) + Len(t)
         /\ \A i \in 1 .. Len(s) : i \in 1 .. Len(s) + Len(t) /\ (s \o t)[i] = s[i]
         /\ \A i \in 1 .. Len(t) :
              /\ Len(s) + i \in 1 .. Len(s) + Len(t) /\ (s \o t)[Len(s) + i] = t[i]
              /\ Len(s) + i > Len(s) /\ i > 0
         /\ \A i \in 1 .. Len(s) + Len(t) :
              i \in 1 .. Len(s) \/ (i - Len(s) \in 1 .. Len(t) /\ (s \o t)[i] = t[i - Len(s)])
<1>1. Len(s) \in Nat /\ Len(t) \in Nat
  OBVIOUS
<1>2. \A i \in 1 .. Len(s) : i \in 1 .. Len(s) + Len(t)
  BY <1>1
<1>3. \A i \in 1 .. Len(t) :
        Len(s) + i \in 1 .. Len(s) + Len(t) /\ Len(s) + i > Len(s) /\ i > 0
  BY <1>1
<1>4. ASSUME NEW i \in 1 .. Len(s) + Len(t), i \notin 1 .. Len(s)
      PROVE  i - Len(s) \in 1 .. Len(t) /\ (s \o t)[i] = t[i - Len(s)]
  <2>1. i \in Len(s) + 1 .. Len(s) + Len(t)
    BY <1>1, <1>4
  <2>. QED
    BY <2>1, Joined
<1>. QED
  BY <1>1, <1>2, <1>3, <1>4, Joined

\* Two of the declarations define c.
Twice(ds, c) ==
  \E i \in 1 .. Len(ds) : \E j \in 1 .. Len(ds) :
    /\ i # j /\ ds[i].is = "closure" /\ ds[i].of = c
    /\ ds[j].is = "closure" /\ ds[j].of = c
Defined(ds, c) == Defines(ds, Len(ds), c)

\* The declarations behind the first n define c; the texts of their closures
\* make it; and the sources from the m-th on.
DefinesBehind(ds, n, c) ==
  \E j \in 1 .. Len(ds) : j > n /\ ds[j].is = "closure" /\ ds[j].of = c
Makes(text, c) == \E i \in 1 .. Len(text) : text[i].is = "make" /\ text[i].of = c
MakesBehind(ds, n, c) ==
  \E j \in 1 .. Len(ds) : j > n /\ ds[j].is = "closure" /\ Makes(ds[j].text, c)
SourceMakes(s, c) == Makes(s.lines, c) \/ Makes(s.stream, c)
Sourced(srcs, m, c) == \E k \in 1 .. Len(srcs) : k >= m /\ SourceMakes(srcs[k], c)

\* Declarations are added.
LEMMA DefinedMore ==
  ASSUME NEW ds \in Seq(Declarations), NEW more \in Seq(Declarations), NEW c
  PROVE  /\ Defined(ds \o more, c) <=> Defined(ds, c) \/ Defined(more, c)
         /\ Twice(ds, c) => Twice(ds \o more, c)
         /\ Defined(ds, c) /\ Defined(more, c) => Twice(ds \o more, c)
         /\ Twice(ds \o more, c) => Twice(ds, c) \/ Defined(more, c)
<1>. DEFINE n == Len(ds)
            k == Len(more)
            es == ds \o more
<1>1. /\ n \in Nat /\ k \in Nat /\ Len(es) = n + k
      /\ \A i \in 1 .. n : i \in 1 .. n + k /\ es[i] = ds[i]
      /\ \A i \in 1 .. k : n + i \in 1 .. n + k /\ es[n + i] = more[i] /\ n + i > n
      /\ \A i \in 1 .. n + k : i \in 1 .. n \/ (i - n \in 1 .. k /\ es[i] = more[i - n])
  BY JoinedPlaces
<1>. HIDE DEF es
<1>2. Defined(es, c) => Defined(ds, c) \/ Defined(more, c)
  BY <1>1, SMTT(30) DEF Defined, Defines
<1>3. Defined(ds, c) => Defined(es, c)
  BY <1>1 DEF Defined, Defines
<1>4. Defined(more, c) => Defined(es, c)
  BY <1>1 DEF Defined, Defines
<1>5. Twice(ds, c) => Twice(es, c)
  BY <1>1 DEF Twice
<1>6. ASSUME Defined(ds, c), Defined(more, c)
      PROVE  Twice(es, c)
  <2>1. PICK i \in 1 .. n : ds[i].is = "closure" /\ ds[i].of = c
    BY <1>6 DEF Defined, Defines
  <2>2. PICK j \in 1 .. k : more[j].is = "closure" /\ more[j].of = c
    BY <1>6 DEF Defined, Defines
  <2>3. /\ i \in 1 .. n + k /\ n + j \in 1 .. n + k /\ i # n + j
        /\ es[i] = ds[i] /\ es[n + j] = more[j]
    BY <1>1
  <2>4. PICK q : q = n + j
    OBVIOUS
  <2>5. /\ i \in 1 .. Len(es) /\ q \in 1 .. Len(es) /\ i # q
        /\ es[i].is = "closure" /\ es[i].of = c /\ es[q].is = "closure" /\ es[q].of = c
    BY <1>1, <2>1, <2>2, <2>3, <2>4
  <2>. QED
    BY <2>5 DEF Twice
<1>7. ASSUME Twice(es, c), ~Defined(more, c)
      PROVE  Twice(ds, c)
  <2>1. PICK i \in 1 .. n + k, j \in 1 .. n + k :
          /\ i # j /\ es[i].is = "closure" /\ es[i].of = c
          /\ es[j].is = "closure" /\ es[j].of = c
    BY <1>1, <1>7 DEF Twice
  <2>2. i \in 1 .. n /\ j \in 1 .. n
    BY <1>1, <1>7, <2>1, SMTT(30) DEF Defined, Defines
  <2>3. es[i] = ds[i] /\ es[j] = ds[j]
    BY <1>1, <2>2
  <2>. QED
    BY <2>1, <2>2, <2>3 DEF Twice
<1>. QED
  BY <1>2, <1>3, <1>4, <1>5, <1>6, <1>7 DEF es

\* ... behind some of them.
LEMMA BehindMore ==
  ASSUME NEW ds \in Seq(Declarations), NEW more \in Seq(Declarations), NEW c,
         NEW n \in Nat, n <= Len(ds)
  PROVE  /\ DefinesBehind(ds \o more, n, c) <=> DefinesBehind(ds, n, c) \/ Defined(more, c)
         /\ MakesBehind(ds \o more, n, c) <=> MakesBehind(ds, n, c) \/ MakesBehind(more, 0, c)
<1>. DEFINE m == Len(ds)
            k == Len(more)
            es == ds \o more
<1>1. /\ m \in Nat /\ k \in Nat /\ Len(es) = m + k
      /\ \A i \in 1 .. m : i \in 1 .. m + k /\ es[i] = ds[i]
      /\ \A i \in 1 .. k : m + i \in 1 .. m + k /\ es[m + i] = more[i] /\ i > 0
      /\ \A i \in 1 .. m + k : i \in 1 .. m \/ (i - m \in 1 .. k /\ es[i] = more[i - m])
  BY JoinedPlaces
<1>0. \A i \in 1 .. k : m + i > n
  BY <1>1
<1>. HIDE DEF es
<1>2. ASSUME DefinesBehind(es, n, c), ~Defined(more, c)
      PROVE  DefinesBehind(ds, n, c)
  <2>1. PICK i \in 1 .. m + k : i > n /\ es[i].is = "closure" /\ es[i].of = c
    BY <1>1, <1>2 DEF DefinesBehind
  <2>2. i \in 1 .. m
    BY <1>1, <1>2, <2>1 DEF Defined, Defines
  <2>3. es[i] = ds[i]
    BY <1>1, <2>2
  <2>. QED
    BY <2>1, <2>2, <2>3 DEF DefinesBehind
<1>3. DefinesBehind(ds, n, c) => DefinesBehind(es, n, c)
  BY <1>1 DEF DefinesBehind
<1>4. Defined(more, c) => DefinesBehind(es, n, c)
  BY <1>0, <1>1 DEF Defined, Defines, DefinesBehind
<1>5. ASSUME MakesBehind(es, n, c), ~MakesBehind(more, 0, c)
      PROVE  MakesBehind(ds, n, c)
  <2>1. PICK i \in 1 .. m + k : i > n /\ es[i].is = "closure" /\ Makes(es[i].text, c)
    BY <1>1, <1>5 DEF MakesBehind
  <2>2. i \in 1 .. m
    BY <1>1, <1>5, <2>1, ZenonT(60) DEF MakesBehind
  <2>3. es[i] = ds[i]
    BY <1>1, <2>2
  <2>. QED
    BY <2>1, <2>2, <2>3 DEF MakesBehind
<1>6. MakesBehind(ds, n, c) => MakesBehind(es, n, c)
  BY <1>1 DEF MakesBehind
<1>7. MakesBehind(more, 0, c) => MakesBehind(es, n, c)
  BY <1>0, <1>1 DEF MakesBehind
<1>. QED
  BY <1>2, <1>3, <1>4, <1>5, <1>6, <1>7 DEF es

\* The declarations behind the first n, by themselves.
LEMMA BehindOnly ==
  ASSUME NEW ds \in Seq(Declarations), NEW n \in Nat, NEW c
  PROVE  LET added == SubSeq(ds, n + 1, Len(ds)) IN
         /\ Defined(added, c) <=> DefinesBehind(ds, n, c)
         /\ MakesBehind(added, 0, c) <=> MakesBehind(ds, n, c)
<1>. DEFINE added == SubSeq(ds, n + 1, Len(ds))
            k == Len(added)
<1>1. \A i \in 1 .. k : /\ n + i \in 1 .. Len(ds) /\ n + i > n /\ i > 0
                        /\ added[i] = ds[n + i]
  BY Behind
<1>2. \A i \in 1 .. Len(ds) : i > n => i - n \in 1 .. k /\ added[i - n] = ds[i] /\ i - n > 0
  OBVIOUS
<1>. HIDE DEF added, k
<1>3. Defined(added, c) => DefinesBehind(ds, n, c)
  BY <1>1 DEF Defined, Defines, DefinesBehind, k
<1>4. DefinesBehind(ds, n, c) => Defined(added, c)
  BY <1>2 DEF Defined, Defines, DefinesBehind, k
<1>5. MakesBehind(added, 0, c) => MakesBehind(ds, n, c)
  BY <1>1 DEF MakesBehind, k
<1>6. MakesBehind(ds, n, c) => MakesBehind(added, 0, c)
  BY <1>2 DEF MakesBehind, k
<1>. QED
  BY <1>3, <1>4, <1>5, <1>6 DEF added

\* One declaration.
LEMMA DefinedOne ==
  ASSUME NEW d \in Declarations, NEW c
  PROVE  /\ <<d>> \in Seq(Declarations)
         /\ Defined(<<d>>, c) <=> d.is = "closure" /\ d.of = c
         /\ MakesBehind(<<d>>, 0, c) <=> d.is = "closure" /\ Makes(d.text, c)
<1>1. <<d>> \in Seq(Declarations) /\ Len(<<d>>) = 1 /\ <<d>>[1] = d
      /\ \A i : i \in 1 .. 1 <=> i = 1
  OBVIOUS
<1>2. 1 > 0
  OBVIOUS
<1>. DEFINE ds == <<d>>
<1>. HIDE DEF ds
<1>3. Defined(ds, c) <=> d.is = "closure" /\ d.of = c
  BY <1>1 DEF Defined, Defines, ds
<1>4. MakesBehind(ds, 0, c) <=> d.is = "closure" /\ Makes(d.text, c)
  BY <1>1, <1>2 DEF MakesBehind, ds
<1>. QED
  BY <1>1, <1>3, <1>4 DEF ds

-----------------------------------------------------------------------------
(* What sources make. *)

\* Texts are put together.
LEMMA MakesJoined ==
  ASSUME NEW s \in Seq(Pieces), NEW t \in Seq(Pieces), NEW c
  PROVE  Makes(s \o t, c) <=> Makes(s, c) \/ Makes(t, c)
<1>. DEFINE n == Len(s)
            k == Len(t)
            u == s \o t
<1>1. /\ n \in Nat /\ k \in Nat /\ Len(u) = n + k
      /\ \A i \in 1 .. n : i \in 1 .. n + k /\ u[i] = s[i]
      /\ \A i \in 1 .. k : n + i \in 1 .. n + k /\ u[n + i] = t[i]
      /\ \A i \in 1 .. n + k : i \in 1 .. n \/ (i - n \in 1 .. k /\ u[i] = t[i - n])
  BY JoinedPlaces
<1>. HIDE DEF u
<1>2. Makes(u, c) => Makes(s, c) \/ Makes(t, c)
  BY <1>1, SMTT(30) DEF Makes
<1>3. Makes(s, c) => Makes(u, c)
  BY <1>1 DEF Makes
<1>4. Makes(t, c) => Makes(u, c)
  BY <1>1 DEF Makes
<1>. QED
  BY <1>2, <1>3, <1>4 DEF u

\* A source that makes what s does and text does.
MakesWith(u, s, text) ==
  u \in Sources /\ \A c : SourceMakes(u, c) <=> SourceMakes(s, c) \/ Makes(text, c)

\* The operations of CSource.
LEMMA OperationsMake ==
  ASSUME NEW s \in Sources, NEW text \in Seq(Pieces)
  PROVE  /\ MakesWith(print(s, text), s, text) /\ MakesWith(printLine(s, text), s, text)
         /\ MakesWith(printPreviousLine(s, text), s, text)
         /\ MakesWith(increaseIndentation(s), s, << >>)
         /\ MakesWith(decreaseIndentation(s), s, << >>)
         /\ MakesWith(printLineAndIndent(s, text), s, text)
         /\ MakesWith(outdentAndPrintLine(s, text), s, text)
<1>1. << >> \in Seq(Pieces) /\ \A c : ~Makes(<< >>, c)
  BY DEF Makes
<1>2. ASSUME NEW r \in Sources
      PROVE  /\ MakesWith(print(r, text), r, text) /\ MakesWith(insertLine(r, text), r, text)
             /\ MakesWith(flushLineBuffer(r), r, << >>)
             /\ MakesWith(increaseIndentation(r), r, << >>)
             /\ MakesWith(decreaseIndentation(r), r, << >>)
  <2>1. r.lines \in Seq(Pieces) /\ r.stream \in Seq(Pieces)
    BY DEF Sources
  <2>2. /\ r.lines \o text \in Seq(Pieces) /\ r.stream \o text \in Seq(Pieces)
        /\ r.lines \o r.stream \in Seq(Pieces)
    BY <2>1
  <2>3. \A c : /\ Makes(r.lines \o text, c) <=> Makes(r.lines, c) \/ Makes(text, c)
               /\ Makes(r.stream \o text, c) <=> Makes(r.stream, c) \/ Makes(text, c)
               /\ Makes(r.lines \o r.stream, c) <=> Makes(r.lines, c) \/ Makes(r.stream, c)
    BY <2>1, MakesJoined
  <2>4. MakesWith(print(r, text), r, text)
    <3>1. /\ print(r, text) \in Sources /\ print(r, text).lines = r.lines
          /\ print(r, text).stream = r.stream \o text
      BY <2>2 DEF Sources, print
    <3>. QED
      BY <2>3, <3>1 DEF MakesWith, SourceMakes
  <2>5. MakesWith(insertLine(r, text), r, text)
    <3>1. /\ insertLine(r, text) \in Sources /\ insertLine(r, text).lines = r.lines \o text
          /\ insertLine(r, text).stream = r.stream
      BY <2>2 DEF Sources, insertLine
    <3>. QED
      BY <2>3, <3>1 DEF MakesWith, SourceMakes
  <2>6. MakesWith(flushLineBuffer(r), r, << >>)
    <3>1. /\ flushLineBuffer(r) \in Sources
          /\ flushLineBuffer(r).lines = r.lines \o r.stream
          /\ flushLineBuffer(r).stream = << >>
      BY <1>1, <2>2 DEF Sources, insertLine, flushLineBuffer
    <3>. QED
      BY <1>1, <2>3, <3>1 DEF MakesWith, SourceMakes
  <2>7. /\ MakesWith(increaseIndentation(r), r, << >>)
        /\ MakesWith(decreaseIndentation(r), r, << >>)
    <3>1. r.level + 1 \in Int /\ r.level - 1 \in Int
      BY DEF Sources
    <3>2. /\ increaseIndentation(r) \in Sources
          /\ increaseIndentation(r).lines = r.lines
          /\ increaseIndentation(r).stream = r.stream
      BY <3>1 DEF Sources, increaseIndentation
    <3>3. /\ decreaseIndentation(r) \in Sources
          /\ decreaseIndentation(r).lines = r.lines
          /\ decreaseIndentation(r).stream = r.stream
      BY <3>1 DEF Sources, decreaseIndentation
    <3>. QED
      BY <1>1, <3>2, <3>3 DEF MakesWith, SourceMakes
  <2>. QED
    BY <2>4, <2>5, <2>6, <2>7
<1>3. ASSUME NEW r \in Sources
      PROVE  MakesWith(printLine(r, text), r, text)
  <2>1. MakesWith(print(r, text), r, text)
    BY <1>2
  <2>2. MakesWith(flushLineBuffer(print(r, text)), print(r, text), << >>)
    BY <1>2, <2>1 DEF MakesWith
  <2>. QED
    BY <1>1, <2>1, <2>2 DEF MakesWith, printLine
<1>4. MakesWith(printLineAndIndent(s, text), s, text)
  <2>1. MakesWith(printLine(s, text), s, text)
    BY <1>3
  <2>2. MakesWith(increaseIndentation(printLine(s, text)), printLine(s, text), << >>)
    BY <1>2, <2>1 DEF MakesWith
  <2>. QED
    BY <1>1, <2>1, <2>2 DEF MakesWith, printLineAndIndent
<1>5. MakesWith(outdentAndPrintLine(s, text), s, text)
  <2>1. MakesWith(decreaseIndentation(s), s, << >>)
    BY <1>2
  <2>2. MakesWith(printLine(decreaseIndentation(s), text), decreaseIndentation(s), text)
    BY <1>3, <2>1 DEF MakesWith
  <2>. QED
    BY <1>1, <2>1, <2>2 DEF MakesWith, outdentAndPrintLine
<1>. QED
  BY <1>2, <1>3, <1>4, <1>5 DEF printPreviousLine

\* u makes what s does, and the closure e if there is one.
MakesToo(u, s, e) ==
  u \in Sources /\ \A c : SourceMakes(u, c) <=> SourceMakes(s, c) \/ (e # 0 /\ c = e)

\* A step that writes makes nothing.
LEMMA WrittenMakes ==
  ASSUME NEW s \in Sources, NEW step \in Steps, step.do \in Writing
  PROVE  MakesToo(Written(s, step), s, 0)
<1>1. step.text \in Seq(Marks)
  BY DEF Steps
<1>2. step.text \in Seq(Pieces) /\ \A c : ~Makes(step.text, c)
  <2>1. \A i \in 1 .. Len(step.text) : step.text[i] \in Marks
    BY <1>1
  <2>2. \A x \in Marks : x \in Pieces /\ x.is # "make"
    BY DEF Marks, Pieces
  <2>3. \A c : ~Makes(step.text, c)
    BY <2>1, <2>2 DEF Makes
  <2>4. step.text \in Seq(Pieces)
    BY <1>1, <2>1, <2>2
  <2>. QED
    BY <2>3, <2>4
<1>3. \A c : ~Makes(<< >>, c)
  BY DEF Makes
<1>4. MakesWith(Written(s, step), s, step.text) \/ MakesWith(Written(s, step), s, << >>)
  BY <1>2, OperationsMake DEF Written, Writing
<1>. QED
  BY <1>2, <1>3, <1>4 DEF MakesWith, MakesToo

\* An expression makes its closure.
LEMMA ExpressionMakes ==
  ASSUME NEW s \in Sources, NEW expression \in Expressions
  PROVE  MakesToo(WrittenExpression(s, expression), s, expression.closure)
<1>. DEFINE e == expression.closure
            capture == <<Piece("capture", e)>>
            make == <<Piece("make", e)>>
            call == <<Piece("call", expression.call)>>
<1>1. /\ capture \in Seq(Pieces) /\ make \in Seq(Pieces) /\ call \in Seq(Pieces)
  BY DEF Piece, Pieces, Expressions
<1>2. \A c : /\ ~Makes(capture, c) /\ ~Makes(call, c)
             /\ Makes(make, c) <=> c = e
  <2>1. /\ Len(capture) = 1 /\ capture[1].is = "capture"
        /\ Len(call) = 1 /\ call[1].is = "call"
        /\ Len(make) = 1 /\ make[1].is = "make" /\ make[1].of = e
        /\ \A i : i \in 1 .. 1 <=> i = 1
    BY DEF Piece
  <2>2. "capture" # "make" /\ "call" # "make"
    OBVIOUS
  <2>. HIDE DEF capture, make, call, e
  <2>. QED
    BY <2>1, <2>2 DEF Makes
<1>3. e # 0 =>
        WrittenExpression(s, expression) = print(printPreviousLine(s, capture), make)
  BY DEF WrittenExpression
<1>4. e = 0 /\ expression.call # 0 => WrittenExpression(s, expression) = print(s, call)
  BY DEF WrittenExpression
<1>5. e = 0 /\ expression.call = 0 => WrittenExpression(s, expression) = s
  BY DEF WrittenExpression
<1>. HIDE DEF capture, make, call, e
<1>6. CASE e # 0
  <2>1. MakesWith(printPreviousLine(s, capture), s, capture)
    BY <1>1, OperationsMake
  <2>2. MakesWith(print(printPreviousLine(s, capture), make), printPreviousLine(s, capture),
                  make)
    BY <1>1, <2>1, OperationsMake DEF MakesWith
  <2>. QED
    BY <1>2, <1>3, <1>6, <2>1, <2>2 DEF MakesWith, MakesToo, e
<1>7. CASE e = 0 /\ expression.call # 0
  <2>1. MakesWith(print(s, call), s, call)
    BY <1>1, OperationsMake
  <2>. QED
    BY <1>2, <1>4, <1>7, <2>1 DEF MakesWith, MakesToo, e
<1>8. CASE e = 0 /\ expression.call = 0
  BY <1>5, <1>8 DEF MakesToo, e
<1>. QED
  BY <1>6, <1>7, <1>8

\* The last of the sources makes more.
LEMMA SourcedToo ==
  ASSUME NEW srcs \in Seq(Sources), Len(srcs) >= 1, NEW u, NEW e, NEW m \in Nat,
         m <= Len(srcs), MakesToo(u, srcs[Len(srcs)], e), NEW c
  PROVE  Sourced([srcs EXCEPT ![Len(srcs)] = u], m, c)
           <=> Sourced(srcs, m, c) \/ (e # 0 /\ c = e)
<1>. DEFINE n == Len(srcs)
            us == [srcs EXCEPT ![n] = u]
<1>1. n \in 1 .. n /\ n \in Nat /\ n >= m
  OBVIOUS
<1>2. u \in Sources
  BY DEF MakesToo
<1>3. Len(us) = n /\ \A i \in 1 .. n : us[i] = IF i = n THEN u ELSE srcs[i]
  BY <1>1, <1>2, Replaced
<1>4. SourceMakes(u, c) <=> SourceMakes(srcs[n], c) \/ (e # 0 /\ c = e)
  BY DEF MakesToo
<1>. HIDE DEF us
<1>5. Sourced(us, m, c) => Sourced(srcs, m, c) \/ (e # 0 /\ c = e)
  BY <1>3, <1>4 DEF Sourced
<1>6. Sourced(srcs, m, c) => Sourced(us, m, c)
  BY <1>3, <1>4 DEF Sourced
<1>7. e # 0 /\ c = e => Sourced(us, m, c)
  BY <1>1, <1>3, <1>4 DEF Sourced
<1>. QED
  BY <1>5, <1>6, <1>7 DEF us

\* An empty source is put on top, or the last one is taken away.
LEMMA SourcedFewer ==
  ASSUME NEW srcs \in Seq(Sources), NEW c, NEW m \in Nat
  PROVE  /\ Sourced(Append(srcs, EmptySource), m, c) <=> Sourced(srcs, m, c)
         /\ ~Sourced(srcs, Len(srcs) + 1, c)
         /\ Len(srcs) >= 1 /\ m <= Len(srcs) =>
              (Sourced(srcs, m, c) <=> \/ Sourced(Front(srcs), m, c)
                                       \/ SourceMakes(srcs[Len(srcs)], c))
<1>. DEFINE n == Len(srcs)
<1>0. n \in Nat
  OBVIOUS
<1>1. EmptySource \in Sources /\ ~SourceMakes(EmptySource, c)
  <2>1. EmptySource.lines = << >> /\ EmptySource.stream = << >> /\ EmptySource.level = 0
    BY DEF EmptySource
  <2>2. EmptySource \in Sources
    BY DEF EmptySource, Sources
  <2>. QED
    BY <2>1, <2>2 DEF SourceMakes, Makes
<1>2. Sourced(Append(srcs, EmptySource), m, c) <=> Sourced(srcs, m, c)
  <2>. DEFINE us == Append(srcs, EmptySource)
  <2>1. /\ Len(us) = n + 1 /\ us[n + 1] = EmptySource
        /\ \A i \in 1 .. n : us[i] = srcs[i]
    BY <1>1, Appended
  <2>2. \A i : i \in 1 .. n + 1 <=> i \in 1 .. n \/ i = n + 1
    BY <1>0
  <2>. HIDE DEF us, n
  <2>. QED
    BY <1>1, <2>1, <2>2 DEF Sourced, n
<1>3. ~Sourced(srcs, n + 1, c)
  BY <1>0 DEF Sourced
<1>4. ASSUME n >= 1, m <= n
      PROVE  Sourced(srcs, m, c) <=> Sourced(Front(srcs), m, c) \/ SourceMakes(srcs[n], c)
  <2>. DEFINE us == Front(srcs)
  <2>1. Len(us) = n - 1 /\ \A i \in 1 .. n - 1 : us[i] = srcs[i]
    BY <1>4, Taken
  <2>2. \A i : i \in 1 .. n <=> i \in 1 .. n - 1 \/ i = n
    BY <1>0, <1>4
  <2>3. n >= m
    BY <1>0, <1>4
  <2>. HIDE DEF us
  <2>4. Sourced(us, m, c) \/ SourceMakes(srcs[n], c) => Sourced(srcs, m, c)
    BY <2>1, <2>2, <2>3 DEF Sourced
  <2>5. Sourced(srcs, m, c) => Sourced(us, m, c) \/ SourceMakes(srcs[n], c)
    BY <2>1, <2>2 DEF Sourced
  <2>. QED
    BY <2>4, <2>5 DEF us
<1>. QED
  BY <1>2, <1>3, <1>4

-----------------------------------------------------------------------------
(* The expressions of a script. *)

Repeated == {"rangeStart", "rangeEnd", "switchRepeated"}

\* A script visits the expression part, and visits it twice or more.
Asks(step, part) == step.do = "accept" /\ step.part = part
Accepts(script, part) == \E k \in 1 .. Len(script) : Asks(script[k], part)
AcceptsTwice(script, part) ==
  \E k \in 1 .. Len(script) : \E j \in 1 .. Len(script) :
    k # j /\ Asks(script[k], part) /\ Asks(script[j], part)
Lists(script, parts, repeated) ==
  /\ script \in Seq(Steps)
  /\ \A part : /\ Accepts(script, part) <=> part \in parts
               /\ AcceptsTwice(script, part) <=> part \in repeated

\* Scripts are put together.
LEMMA AcceptsJoined ==
  ASSUME NEW s \in Seq(Steps), NEW t \in Seq(Steps), NEW part
  PROVE  /\ Accepts(s \o t, part) <=> Accepts(s, part) \/ Accepts(t, part)
         /\ AcceptsTwice(s \o t, part) <=>
              \/ AcceptsTwice(s, part) \/ AcceptsTwice(t, part)
              \/ Accepts(s, part) /\ Accepts(t, part)
<1>. DEFINE n == Len(s)
            k == Len(t)
            u == s \o t
<1>1. /\ n \in Nat /\ k \in Nat /\ Len(u) = n + k
      /\ \A i \in 1 .. n : i \in 1 .. n + k /\ u[i] = s[i]
      /\ \A i \in 1 .. k : n + i \in 1 .. n + k /\ u[n + i] = t[i] /\ n + i > n
      /\ \A i \in 1 .. n + k : i \in 1 .. n \/ (i - n \in 1 .. k /\ u[i] = t[i - n])
  BY JoinedPlaces
<1>. HIDE DEF u
<1>2. Accepts(u, part) => Accepts(s, part) \/ Accepts(t, part)
  BY <1>1 DEF Accepts
<1>3. Accepts(s, part) => Accepts(u, part)
  BY <1>1 DEF Accepts
<1>4. Accepts(t, part) => Accepts(u, part)
  BY <1>1 DEF Accepts
<1>5. AcceptsTwice(s, part) => AcceptsTwice(u, part)
  BY <1>1 DEF AcceptsTwice
<1>6. ASSUME AcceptsTwice(t, part)
      PROVE  AcceptsTwice(u, part)
  <2>1. PICK i \in 1 .. k, j \in 1 .. k : i # j /\ Asks(t[i], part) /\ Asks(t[j], part)
    BY <1>6 DEF AcceptsTwice
  <2>2. PICK p, q : p = n + i /\ q = n + j
    OBVIOUS
  <2>3. /\ p \in 1 .. Len(u) /\ q \in 1 .. Len(u) /\ p # q
        /\ Asks(u[p], part) /\ Asks(u[q], part)
    BY <1>1, <2>1, <2>2
  <2>. QED
    BY <2>3 DEF AcceptsTwice
<1>7. ASSUME Accepts(s, part), Accepts(t, part)
      PROVE  AcceptsTwice(u, part)
  <2>1. PICK i \in 1 .. n, j \in 1 .. k : Asks(s[i], part) /\ Asks(t[j], part)
    BY <1>7 DEF Accepts
  <2>2. PICK q : q = n + j
    OBVIOUS
  <2>3. /\ i \in 1 .. Len(u) /\ q \in 1 .. Len(u) /\ i # q
        /\ Asks(u[i], part) /\ Asks(u[q], part)
    BY <1>1, <2>1, <2>2
  <2>. QED
    BY <2>3 DEF AcceptsTwice
<1>8. ASSUME AcceptsTwice(u, part)
      PROVE  AcceptsTwice(s, part) \/ AcceptsTwice(t, part)
               \/ (Accepts(s, part) /\ Accepts(t, part))
  <2>1. PICK p \in 1 .. n + k, q \in 1 .. n + k :
          p # q /\ Asks(u[p], part) /\ Asks(u[q], part)
    BY <1>1, <1>8 DEF AcceptsTwice
  <2>2. CASE p \in 1 .. n /\ q \in 1 .. n
    BY <1>1, <2>1, <2>2 DEF AcceptsTwice
  <2>3. CASE p \notin 1 .. n /\ q \notin 1 .. n
    <3>1. PICK i, j : i = p - n /\ j = q - n
      OBVIOUS
    <3>2. /\ i \in 1 .. k /\ j \in 1 .. k /\ i # j
          /\ Asks(t[i], part) /\ Asks(t[j], part)
      BY <1>1, <2>1, <2>3, <3>1
    <3>. QED
      BY <3>2 DEF AcceptsTwice
  <2>4. CASE p \in 1 .. n /\ q \notin 1 .. n
    BY <1>1, <2>1, <2>4 DEF Accepts
  <2>5. CASE p \notin 1 .. n /\ q \in 1 .. n
    BY <1>1, <2>1, <2>5 DEF Accepts
  <2>. QED
    BY <2>2, <2>3, <2>4, <2>5
<1>. QED
  BY <1>2, <1>3, <1>4, <1>5, <1>6, <1>7, <1>8 DEF u

\* What joined scripts list.
LEMMA ListsJoined ==
  ASSUME NEW s, NEW t, NEW ps, NEW rs, NEW qs, NEW us, Lists(s, ps, rs), Lists(t, qs, us)
  PROVE  Lists(s \o t, ps \cup qs, rs \cup us \cup (ps \cap qs))
<1>1. s \in Seq(Steps) /\ t \in Seq(Steps)
  BY DEF Lists
<1>2. s \o t \in Seq(Steps)
  BY <1>1
<1>3. \A part : /\ Accepts(s \o t, part) <=> Accepts(s, part) \/ Accepts(t, part)
                /\ AcceptsTwice(s \o t, part) <=>
                     \/ AcceptsTwice(s, part) \/ AcceptsTwice(t, part)
                     \/ Accepts(s, part) /\ Accepts(t, part)
  BY <1>1, AcceptsJoined
<1>. QED
  BY <1>2, <1>3 DEF Lists

\* A script that visits different expressions, at the places ks.
LEMMA ListsPlaces ==
  ASSUME NEW s \in Seq(Steps), NEW ks \in SUBSET (1 .. Len(s)), NEW ps,
         \A k \in 1 .. Len(s) : s[k].do = "accept" <=> k \in ks,
         \A k \in ks : \A j \in ks : s[k].part = s[j].part => k = j,
         ps = {s[k].part : k \in ks}
  PROVE  Lists(s, ps, {})
<1>1. \A part : Accepts(s, part) <=> part \in ps
  BY DEF Accepts, Asks
<1>2. \A part : ~AcceptsTwice(s, part)
  BY DEF AcceptsTwice, Asks
<1>. QED
  BY <1>1, <1>2 DEF Lists

\* A script that begins with a step.
LEMMA AcceptsHead ==
  ASSUME NEW s \in Seq(Steps), s # << >>, NEW part
  PROVE  /\ Accepts(s, part) <=> Asks(Head(s), part) \/ Accepts(Tail(s), part)
         /\ AcceptsTwice(s, part) <=>
              AcceptsTwice(Tail(s), part) \/ (Asks(Head(s), part) /\ Accepts(Tail(s), part))
<1>. DEFINE h == <<Head(s)>>
            t == Tail(s)
<1>1. h \in Seq(Steps) /\ t \in Seq(Steps)
  OBVIOUS
<1>2. s = h \o t
  OBVIOUS
<1>3. /\ Accepts(h, part) <=> Asks(Head(s), part)
      /\ ~AcceptsTwice(h, part)
  <2>1. Len(h) = 1 /\ h[1] = Head(s) /\ \A i : i \in 1 .. 1 <=> i = 1
    OBVIOUS
  <2>. HIDE DEF h
  <2>. QED
    BY <2>1 DEF Accepts, AcceptsTwice
<1>. HIDE DEF h, t
<1>4. /\ Accepts(h \o t, part) <=> Accepts(h, part) \/ Accepts(t, part)
      /\ AcceptsTwice(h \o t, part) <=>
           \/ AcceptsTwice(h, part) \/ AcceptsTwice(t, part)
           \/ Accepts(h, part) /\ Accepts(t, part)
  BY <1>1, AcceptsJoined
<1>. QED
  BY <1>2, <1>3, <1>4 DEF t

\* The steps that scripts are made of, but for the expressions, accept none.
LEMMA StepsAccept ==
  /\ \A text : /\ Put(text).do # "accept" /\ Line(text).do # "accept"
               /\ LineAndIndent(text).do # "accept" /\ OutdentAndLine(text).do # "accept"
  /\ Indent.do # "accept" /\ Outdent.do # "accept" /\ Children.do # "accept"
  /\ \A part : Expression(part).do = "accept" /\ Expression(part).part = part
<1>1. \A do, text : Step(do, text).do = do
  BY DEF Step
<1>2. /\ "print" # "accept" /\ "printLine" # "accept" /\ "printLineAndIndent" # "accept"
      /\ "outdentAndPrintLine" # "accept" /\ "increaseIndentation" # "accept"
      /\ "decreaseIndentation" # "accept" /\ "visitChildren" # "accept"
  OBVIOUS
<1>3. /\ \A text : /\ Put(text).do # "accept" /\ Line(text).do # "accept"
                   /\ LineAndIndent(text).do # "accept" /\ OutdentAndLine(text).do # "accept"
      /\ Indent.do # "accept" /\ Outdent.do # "accept" /\ Children.do # "accept"
  BY <1>1, <1>2 DEF Put, Line, LineAndIndent, OutdentAndLine, Indent, Outdent, Children
<1>4. \A part : Expression(part).do = "accept" /\ Expression(part).part = part
  BY DEF Expression
<1>. QED
  BY <1>3, <1>4

\* The steps of which the nodes consist.
LEMMA NodesSteps ==
  /\ Put(Text) \in Steps /\ Put(Close) \in Steps /\ Put(Repeating) \in Steps
  /\ Line(Text) \in Steps /\ Line(Close) \in Steps
  /\ LineAndIndent(Open) \in Steps /\ LineAndIndent(Close \o Open) \in Steps
  /\ OutdentAndLine(Close) \in Steps /\ OutdentAndLine(Close \o Open) \in Steps
  /\ OutdentAndLine(Text) \in Steps
  /\ Indent \in Steps /\ Outdent \in Steps /\ Children \in Steps
BY StepsAreSteps

\* Steps without an expression.
LEMMA ListsNone ==
  ASSUME NEW s \in Seq(Steps), \A k \in 1 .. Len(s) : s[k].do # "accept"
  PROVE  Lists(s, {}, {})
BY DEF Lists, Accepts, AcceptsTwice, Asks

\* Steps with one expression.
LEMMA ListsOne ==
  ASSUME NEW s \in Seq(Steps), NEW n \in 1 .. Len(s), NEW part, s[n].do = "accept",
         s[n].part = part, \A k \in 1 .. Len(s) : k # n => s[k].do # "accept"
  PROVE  Lists(s, {part}, {})
BY DEF Lists, Accepts, AcceptsTwice, Asks

\* No steps.
LEMMA ListsNothing == Lists(<< >>, {}, {})
<1>1. << >> \in Seq(Steps) /\ \A k \in 1 .. Len(<< >>) : << >>[k].do # "accept"
  OBVIOUS
<1>. QED
  BY <1>1, ListsNone

\* What the nodes' scripts list.
Fair(script) == \E ps, rs : Lists(script, ps, rs) /\ \A p : p \in rs <=> p \in ps \cap Repeated

\* A closure stands where an expression is visited twice just when it is one of
\* the range of a loop, or what a switch with two cases compares.
LEMMA NodesAreFair ==
  /\ Fair(FunctionDefinitionNode) /\ Fair(ClosureNode)
  /\ \A node \in Statements : Fair(node.script)
<1>1. /\ Put(Text) \in Steps /\ Put(Close) \in Steps /\ Put(Repeating) \in Steps
      /\ Line(Text) \in Steps /\ Line(Close) \in Steps
      /\ LineAndIndent(Open) \in Steps /\ LineAndIndent(Close \o Open) \in Steps
      /\ OutdentAndLine(Close) \in Steps /\ OutdentAndLine(Close \o Open) \in Steps
      /\ OutdentAndLine(Text) \in Steps
      /\ Indent \in Steps /\ Outdent \in Steps /\ Children \in Steps
  BY NodesSteps
<1>2. \A part \in Parts : Expression(part) \in Steps
  BY StepsAreSteps
<1>0. /\ Expression("if") \in Steps /\ Expression("do") \in Steps
      /\ Expression("while") \in Steps /\ Expression("forStart") \in Steps
      /\ Expression("forCondition") \in Steps /\ Expression("forStep") \in Steps
      /\ Expression("rangeStart") \in Steps /\ Expression("rangeEnd") \in Steps
      /\ Expression("context") \in Steps /\ Expression("value") \in Steps
      /\ Expression("value2") \in Steps
  BY <1>2 DEF Parts
<1>. HIDE <1>1
<1>3. ASSUME NEW s, NEW ps, NEW rs, Lists(s, ps, rs), \A p : p \in rs <=> p \in ps \cap Repeated
      PROVE  Fair(s)
  BY <1>3 DEF Fair
<1>4. Lists(FunctionDefinitionNode, {}, {})
  <2>. DEFINE s == <<Put(Text), LineAndIndent(Open), Children, OutdentAndLine(Close),
                        Line(Text)>>
  <2>1. s \in Seq(Steps) /\ Len(s) = 5
    BY <1>1, <1>2
  <2>2. \A k \in 1 .. 5 : s[k].do # "accept"
    BY StepsAccept
  <2>. HIDE DEF s
  <2>3. Lists(s, {}, {})
    BY <2>1, <2>2, ListsNone
  <2>. QED
    BY <2>3 DEF s, FunctionDefinitionNode
<1>5. Lists(ClosureNode, {}, {})
  <2>. DEFINE s == <<Line(Text), LineAndIndent(Open), OutdentAndLine(Close), Put(Text),
                        LineAndIndent(Open), Children, OutdentAndLine(Close), Line(Text)>>
  <2>1. s \in Seq(Steps) /\ Len(s) = 8
    BY <1>1, <1>2
  <2>2. \A k \in 1 .. 8 : s[k].do # "accept"
    BY StepsAccept
  <2>. HIDE DEF s
  <2>3. Lists(s, {}, {})
    BY <2>1, <2>2, ListsNone
  <2>. QED
    BY <2>3 DEF s, ClosureNode
<1>6. ASSUME NEW else \in BOOLEAN
      PROVE  Lists(IfNode(else), {"if"}, {})
  <2>1. Lists(<<Put(Text), Expression("if"), LineAndIndent(Open), Children>>, {"if"}, {})
    <3>. DEFINE s == <<Put(Text), Expression("if"), LineAndIndent(Open), Children>>
    <3>1. s \in Seq(Steps) /\ Len(s) = 4
      BY <1>1, <1>2, <1>0
    <3>2. /\ 2 \in 1 .. 4 /\ s[2].do = "accept" /\ s[2].part = "if"
          /\ \A k \in 1 .. 4 : k # 2 => s[k].do # "accept"
      BY StepsAccept, <1>0
    <3>. HIDE DEF s
    <3>3. Lists(s, {"if"}, {})
      BY <3>1, <3>2, ListsOne
    <3>. QED
      BY <3>3 DEF s
  <2>2. Lists(<<OutdentAndLine(Close \o Open), Indent, Children>>, {}, {})
    <3>. DEFINE s == <<OutdentAndLine(Close \o Open), Indent, Children>>
    <3>1. s \in Seq(Steps) /\ Len(s) = 3
      BY <1>1, <1>2
    <3>2. \A k \in 1 .. 3 : s[k].do # "accept"
      BY StepsAccept
    <3>. HIDE DEF s
    <3>3. Lists(s, {}, {})
      BY <3>1, <3>2, ListsNone
    <3>. QED
      BY <3>3 DEF s
  <2>3. Lists(<<OutdentAndLine(Close)>>, {}, {})
    <3>. DEFINE s == <<OutdentAndLine(Close)>>
    <3>1. s \in Seq(Steps) /\ Len(s) = 1
      BY <1>1, <1>2
    <3>2. \A k \in 1 .. 1 : s[k].do # "accept"
      BY StepsAccept
    <3>. HIDE DEF s
    <3>3. Lists(s, {}, {})
      BY <3>1, <3>2, ListsNone
    <3>. QED
      BY <3>3 DEF s
  <2>4. Lists(<< >>, {}, {})
    BY ListsNothing
  <2>5. Lists(IF else THEN <<OutdentAndLine(Close \o Open), Indent, Children>> ELSE << >>, {}, {})
    BY <2>2, <2>4
  <2>. DEFINE a == <<Put(Text), Expression("if"), LineAndIndent(Open), Children>>
              b == IF else THEN <<OutdentAndLine(Close \o Open), Indent, Children>> ELSE << >>
              c == <<OutdentAndLine(Close)>>
  <2>. HIDE DEF a, b, c
  <2>6. Lists(a \o b, {"if"} \cup {}, {} \cup {} \cup ({"if"} \cap {}))
    BY <2>1, <2>5, ListsJoined DEF a, b
  <2>7. Lists((a \o b) \o c, {"if"} \cup {}, {} \cup {} \cup ({"if"} \cap {}))
    <3>1. Lists(a \o b, {"if"}, {})
      BY <2>6
    <3>2. Lists((a \o b) \o c, {"if"} \cup {}, {} \cup {} \cup ({"if"} \cap {}))
      BY <2>3, <3>1, ListsJoined DEF c
    <3>. QED
      BY <3>2
  <2>. QED
    BY <2>7 DEF IfNode, a, b, c
<1>7. Lists(ForeverNode, {}, {})
  <2>. DEFINE s == <<LineAndIndent(Open), Children, OutdentAndLine(Close)>>
  <2>1. s \in Seq(Steps) /\ Len(s) = 3
    BY <1>1, <1>2
  <2>2. \A k \in 1 .. 3 : s[k].do # "accept"
    BY StepsAccept
  <2>. HIDE DEF s
  <2>3. Lists(s, {}, {})
    BY <2>1, <2>2, ListsNone
  <2>. QED
    BY <2>3 DEF s, ForeverNode
<1>8. Lists(DoNode, {"do"}, {})
  <2>. DEFINE s == <<LineAndIndent(Open), Children, Put(Close), Expression("do"),
                        OutdentAndLine(Text)>>
  <2>1. s \in Seq(Steps) /\ Len(s) = 5
    BY <1>1, <1>2, <1>0
  <2>2. /\ 4 \in 1 .. 5 /\ s[4].do = "accept" /\ s[4].part = "do"
        /\ \A k \in 1 .. 5 : k # 4 => s[k].do # "accept"
    BY StepsAccept, <1>0
  <2>. HIDE DEF s
  <2>3. Lists(s, {"do"}, {})
    BY <2>1, <2>2, ListsOne
  <2>. QED
    BY <2>3 DEF s, DoNode
<1>9. Lists(WhileNode, {"while"}, {})
  <2>. DEFINE s == <<Put(Repeating), Expression("while"), LineAndIndent(Open), Children,
                        OutdentAndLine(Close)>>
  <2>1. s \in Seq(Steps) /\ Len(s) = 5
    BY <1>1, <1>2, <1>0
  <2>2. /\ 2 \in 1 .. 5 /\ s[2].do = "accept" /\ s[2].part = "while"
        /\ \A k \in 1 .. 5 : k # 2 => s[k].do # "accept"
    BY StepsAccept, <1>0
  <2>. HIDE DEF s
  <2>3. Lists(s, {"while"}, {})
    BY <2>1, <2>2, ListsOne
  <2>. QED
    BY <2>3 DEF s, WhileNode
<1>10. Lists(ExpressionHeader, {"forStart", "forCondition", "forStep"}, {})
  <2>. DEFINE s == <<Expression("forStart"), Put(Repeating), Expression("forCondition"),
                        Expression("forStep")>>
  <2>1. s \in Seq(Steps) /\ Len(s) = 4
    BY <1>1, <1>2, <1>0
  <2>2. /\ s[2].do # "accept"
        /\ s[1].do = "accept" /\ s[1].part = "forStart"
        /\ s[3].do = "accept" /\ s[3].part = "forCondition"
        /\ s[4].do = "accept" /\ s[4].part = "forStep"
    BY StepsAccept, <1>0
  <2>3. \A k \in 1 .. 4 : k = 1 \/ k = 2 \/ k = 3 \/ k = 4
    OBVIOUS
  <2>. HIDE DEF s
  <2>4. \A k \in 1 .. Len(s) : s[k].do = "accept" <=> k \in {1, 3, 4}
    BY <2>1, <2>2, <2>3
  <2>5. {1, 3, 4} \in SUBSET (1 .. Len(s)) /\ {"forStart", "forCondition", "forStep"}
                                         = {s[k].part : k \in {1, 3, 4}}
    BY <2>1, <2>2
  <2>6. \A k \in {1, 3, 4} : \A j \in {1, 3, 4} : s[k].part = s[j].part => k = j
    BY <2>2
  <2>7. Lists(s, {"forStart", "forCondition", "forStep"}, {})
    BY <2>1, <2>4, <2>5, <2>6, ListsPlaces
  <2>. QED
    BY <2>7 DEF s, ExpressionHeader
<1>11. Lists(RangeHeader, {"rangeStart", "rangeEnd"}, {"rangeStart", "rangeEnd"})
  <2>1. Lists(<<Expression("rangeStart"), Put(Repeating), Expression("rangeEnd")>>,
            {"rangeStart", "rangeEnd"}, {})
    <3>. DEFINE s == <<Expression("rangeStart"), Put(Repeating), Expression("rangeEnd")>>
    <3>1. s \in Seq(Steps) /\ Len(s) = 3
      BY <1>1, <1>2, <1>0
    <3>2. /\ s[2].do # "accept"
          /\ s[1].do = "accept" /\ s[1].part = "rangeStart"
          /\ s[3].do = "accept" /\ s[3].part = "rangeEnd"
      BY StepsAccept, <1>0
    <3>3. \A k \in 1 .. 3 : k = 1 \/ k = 2 \/ k = 3
      OBVIOUS
    <3>. HIDE DEF s
    <3>4. \A k \in 1 .. Len(s) : s[k].do = "accept" <=> k \in {1, 3}
      BY <3>1, <3>2, <3>3
    <3>5. {1, 3} \in SUBSET (1 .. Len(s)) /\ {"rangeStart", "rangeEnd"} = {s[k].part : k \in {1, 3}}
      BY <3>1, <3>2
    <3>6. \A k \in {1, 3} : \A j \in {1, 3} : s[k].part = s[j].part => k = j
      BY <3>2
    <3>7. Lists(s, {"rangeStart", "rangeEnd"}, {})
      BY <3>1, <3>4, <3>5, <3>6, ListsPlaces
    <3>. QED
      BY <3>7 DEF s
  <2>2. Lists(<<Expression("rangeStart"), Expression("rangeEnd"), Put(Text)>>,
            {"rangeStart", "rangeEnd"}, {})
    <3>. DEFINE s == <<Expression("rangeStart"), Expression("rangeEnd"), Put(Text)>>
    <3>1. s \in Seq(Steps) /\ Len(s) = 3
      BY <1>1, <1>2, <1>0
    <3>2. /\ s[3].do # "accept"
          /\ s[1].do = "accept" /\ s[1].part = "rangeStart"
          /\ s[2].do = "accept" /\ s[2].part = "rangeEnd"
      BY StepsAccept, <1>0
    <3>3. \A k \in 1 .. 3 : k = 1 \/ k = 2 \/ k = 3
      OBVIOUS
    <3>. HIDE DEF s
    <3>4. \A k \in 1 .. Len(s) : s[k].do = "accept" <=> k \in {1, 2}
      BY <3>1, <3>2, <3>3
    <3>5. {1, 2} \in SUBSET (1 .. Len(s)) /\ {"rangeStart", "rangeEnd"} = {s[k].part : k \in {1, 2}}
      BY <3>1, <3>2
    <3>6. \A k \in {1, 2} : \A j \in {1, 2} : s[k].part = s[j].part => k = j
      BY <3>2
    <3>7. Lists(s, {"rangeStart", "rangeEnd"}, {})
      BY <3>1, <3>4, <3>5, <3>6, ListsPlaces
    <3>. QED
      BY <3>7 DEF s
  <2>. DEFINE a == <<Expression("rangeStart"), Put(Repeating), Expression("rangeEnd")>>
              b == <<Expression("rangeStart"), Expression("rangeEnd"), Put(Text)>>
              ps == {"rangeStart", "rangeEnd"}
  <2>3. RangeHeader = a \o b
    BY DEF RangeHeader
  <2>. HIDE DEF a, b, ps
  <2>4. Lists(a \o b, ps \cup ps, {} \cup {} \cup (ps \cap ps))
    BY <2>1, <2>2, ListsJoined DEF a, b, ps
  <2>. QED
    BY <2>3, <2>4 DEF ps
<1>12. ASSUME NEW header, NEW ps, NEW rs, Lists(header, ps, rs)
       PROVE  Lists(ForNode(header), ps, rs)
  <2>1. Lists(<<Put(Text)>>, {}, {})
    <3>. DEFINE s == <<Put(Text)>>
    <3>1. s \in Seq(Steps) /\ Len(s) = 1
      BY <1>1, <1>2
    <3>2. \A k \in 1 .. 1 : s[k].do # "accept"
      BY StepsAccept
    <3>. HIDE DEF s
    <3>3. Lists(s, {}, {})
      BY <3>1, <3>2, ListsNone
    <3>. QED
      BY <3>3 DEF s
  <2>2. Lists(<<LineAndIndent(Open), Children, OutdentAndLine(Close)>>, {}, {})
    <3>. DEFINE s == <<LineAndIndent(Open), Children, OutdentAndLine(Close)>>
    <3>1. s \in Seq(Steps) /\ Len(s) = 3
      BY <1>1, <1>2
    <3>2. \A k \in 1 .. 3 : s[k].do # "accept"
      BY StepsAccept
    <3>. HIDE DEF s
    <3>3. Lists(s, {}, {})
      BY <3>1, <3>2, ListsNone
    <3>. QED
      BY <3>3 DEF s
  <2>. DEFINE a == <<Put(Text)>>
              b == <<LineAndIndent(Open), Children, OutdentAndLine(Close)>>
  <2>. HIDE DEF a, b
  <2>3. Lists(a \o header, {} \cup ps, {} \cup rs \cup ({} \cap ps))
    BY <1>12, <2>1, ListsJoined DEF a
  <2>4. Lists(a \o header, ps, rs)
    BY <2>3
  <2>5. Lists((a \o header) \o b, ps \cup {}, rs \cup {} \cup (ps \cap {}))
    BY <2>2, <2>4, ListsJoined DEF b
  <2>6. Lists((a \o header) \o b, ps, rs)
    BY <2>5
  <2>. QED
    BY <2>6 DEF ForNode, a, b
<1>13. ASSUME NEW else \in BOOLEAN
       PROVE  Lists(AtomicStatementNode(else), {"context"}, {})
  <2>1. Lists(transactionAllocation, {"context"}, {})
    <3>. DEFINE s == <<Put(Text), Expression("context"), Put(Text), Line(Text)>>
    <3>1. s \in Seq(Steps) /\ Len(s) = 4
      BY <1>1, <1>2, <1>0
    <3>2. /\ 2 \in 1 .. 4 /\ s[2].do = "accept" /\ s[2].part = "context"
          /\ \A k \in 1 .. 4 : k # 2 => s[k].do # "accept"
      BY StepsAccept, <1>0
    <3>. HIDE DEF s
    <3>3. Lists(s, {"context"}, {})
      BY <3>1, <3>2, ListsOne
    <3>. QED
      BY <3>3 DEF s, transactionAllocation
  <2>. DEFINE last == IF else THEN Children ELSE Line(Text)
  <2>0. last \in Steps /\ last.do # "accept"
    BY <1>1, StepsAccept
  <2>. HIDE DEF last
  <2>2. Lists(<<Put(Text), LineAndIndent(Open), Children, OutdentAndLine(Close \o Open), Indent,
            last, OutdentAndLine(Close)>>, {}, {})
    <3>. DEFINE s == <<Put(Text), LineAndIndent(Open), Children,
                          OutdentAndLine(Close \o Open), Indent, last, OutdentAndLine(Close)>>
    <3>1. s \in Seq(Steps) /\ Len(s) = 7
      BY <1>1, <1>2, <2>0
    <3>2. \A k \in 1 .. 7 : s[k].do # "accept"
      BY StepsAccept, <2>0
    <3>. HIDE DEF s
    <3>3. Lists(s, {}, {})
      BY <3>1, <3>2, ListsNone
    <3>. QED
      BY <3>3 DEF s
  <2>. DEFINE b == <<Put(Text), LineAndIndent(Open), Children, OutdentAndLine(Close \o Open),
                     Indent, last, OutdentAndLine(Close)>>
  <2>3. AtomicStatementNode(else) = transactionAllocation \o b
    BY DEF AtomicStatementNode, last
  <2>. HIDE DEF b
  <2>4. Lists(transactionAllocation \o b, {"context"} \cup {},
              {} \cup {} \cup ({"context"} \cap {}))
    BY <2>1, <2>2, ListsJoined DEF b
  <2>5. Lists(transactionAllocation \o b, {"context"}, {})
    BY <2>4
  <2>. QED
    BY <2>3, <2>5
<1>14. ASSUME NEW ends \in BOOLEAN
       PROVE  Lists(ReturnNode(ends), {"value"}, {})
  <2>1. Lists(<<Put(Text), Expression("value")>>, {"value"}, {})
    <3>. DEFINE s == <<Put(Text), Expression("value")>>
    <3>1. s \in Seq(Steps) /\ Len(s) = 2
      BY <1>1, <1>2, <1>0
    <3>2. /\ 2 \in 1 .. 2 /\ s[2].do = "accept" /\ s[2].part = "value"
          /\ \A k \in 1 .. 2 : k # 2 => s[k].do # "accept"
      BY StepsAccept, <1>0
    <3>. HIDE DEF s
    <3>3. Lists(s, {"value"}, {})
      BY <3>1, <3>2, ListsOne
    <3>. QED
      BY <3>3 DEF s
  <2>2. Lists(<<Line(Text), Line(Text), Put(Text)>>, {}, {})
    <3>. DEFINE s == <<Line(Text), Line(Text), Put(Text)>>
    <3>1. s \in Seq(Steps) /\ Len(s) = 3
      BY <1>1, <1>2
    <3>2. \A k \in 1 .. 3 : s[k].do # "accept"
      BY StepsAccept
    <3>. HIDE DEF s
    <3>3. Lists(s, {}, {})
      BY <3>1, <3>2, ListsNone
    <3>. QED
      BY <3>3 DEF s
  <2>3. Lists(<< >>, {}, {})
    BY ListsNothing
  <2>. DEFINE a == <<Put(Text), Expression("value")>>
              b == IF ends THEN <<Line(Text), Line(Text), Put(Text)>> ELSE << >>
  <2>4. Lists(b, {}, {})
    BY <2>2, <2>3
  <2>. HIDE DEF a, b
  <2>5. Lists(a \o b, {"value"} \cup {}, {} \cup {} \cup ({"value"} \cap {}))
    BY <2>1, <2>4, ListsJoined DEF a
  <2>6. Lists(a \o b, {"value"}, {})
    BY <2>5
  <2>. QED
    BY <2>6 DEF ReturnNode, a, b
<1>15. Lists(FunctionCallOperatorNode, {"value", "value2"}, {})
  <2>. DEFINE s == <<Put(Text), Expression("value"), Expression("value2")>>
  <2>1. s \in Seq(Steps) /\ Len(s) = 3
    BY <1>1, <1>2, <1>0
  <2>2. /\ s[1].do # "accept"
        /\ s[2].do = "accept" /\ s[2].part = "value"
        /\ s[3].do = "accept" /\ s[3].part = "value2"
    BY StepsAccept, <1>0
  <2>3. \A k \in 1 .. 3 : k = 1 \/ k = 2 \/ k = 3
    OBVIOUS
  <2>. HIDE DEF s
  <2>4. \A k \in 1 .. Len(s) : s[k].do = "accept" <=> k \in {2, 3}
    BY <2>1, <2>2, <2>3
  <2>5. {2, 3} \in SUBSET (1 .. Len(s)) /\ {"value", "value2"} = {s[k].part : k \in {2, 3}}
    BY <2>1, <2>2
  <2>6. \A k \in {2, 3} : \A j \in {2, 3} : s[k].part = s[j].part => k = j
    BY <2>2
  <2>7. Lists(s, {"value", "value2"}, {})
    BY <2>1, <2>4, <2>5, <2>6, ListsPlaces
  <2>. QED
    BY <2>7 DEF s, FunctionCallOperatorNode
<1>16. ASSUME NEW cases \in 0 .. 2, NEW else \in BOOLEAN
       PROVE  Fair(SwitchNode(cases, else))
  <2>. DEFINE argument == IF cases > 1 THEN "switchRepeated" ELSE "switch"
              Case(before, label) ==
                <<Put(before), Expression(argument), Expression(label),
                  LineAndIndent(Open), Children, Outdent>>
              first == IF cases > 0 THEN Case(Text, "case") ELSE << >>
              second == IF cases > 1 THEN Case(Close, "laterCase") ELSE << >>
              rest == IF else THEN <<LineAndIndent(Close \o Open), Children, Outdent>>
                              ELSE << >>
              end == <<Line(Close)>>
  <2>1. SwitchNode(cases, else) = ((first \o second) \o rest) \o end
    BY DEF SwitchNode
  <2>2. argument \in Parts /\ argument # "case" /\ argument # "laterCase"
    BY DEF Parts
  <2>3. cases > 1 <=> argument \in Repeated
    BY DEF Repeated
  <2>. HIDE DEF argument
  <2>4. ASSUME NEW before \in {Text, Close}, NEW label \in {"case", "laterCase"}
        PROVE  Lists(Case(before, label), {argument, label}, {})
    <3>1. Put(before) \in Steps /\ label \in Parts /\ argument # label
      BY <1>1, <2>2 DEF Parts
    <3>2. Lists(Case(before, label), {argument, label}, {})
      <4>. DEFINE s == <<Put(before), Expression(argument), Expression(label),
                            LineAndIndent(Open), Children, Outdent>>
      <4>1. s \in Seq(Steps) /\ Len(s) = 6
        BY <1>1, <1>2, <2>2, <3>1
      <4>2. /\ s[1].do # "accept"
            /\ s[4].do # "accept"
            /\ s[5].do # "accept"
            /\ s[6].do # "accept"
            /\ s[2].do = "accept" /\ s[2].part = argument
            /\ s[3].do = "accept" /\ s[3].part = label
        BY StepsAccept, <2>2, <3>1
      <4>3. \A k \in 1 .. 6 : k = 1 \/ k = 2 \/ k = 3 \/ k = 4 \/ k = 5 \/ k = 6
        OBVIOUS
      <4>. HIDE DEF s
      <4>4. \A k \in 1 .. Len(s) : s[k].do = "accept" <=> k \in {2, 3}
        BY <4>1, <4>2, <4>3
      <4>5. {2, 3} \in SUBSET (1 .. Len(s)) /\ {argument, label} = {s[k].part : k \in {2, 3}}
        BY <4>1, <4>2
      <4>6. \A k \in {2, 3} : \A j \in {2, 3} : s[k].part = s[j].part => k = j
        BY <4>2, <2>2, <3>1
      <4>7. Lists(s, {argument, label}, {})
        BY <4>1, <4>4, <4>5, <4>6, ListsPlaces
      <4>. QED
        BY <4>7 DEF s
    <3>. QED
      BY <3>2
  <2>5. Lists(<<LineAndIndent(Close \o Open), Children, Outdent>>, {}, {})
    <3>. DEFINE s == <<LineAndIndent(Close \o Open), Children, Outdent>>
    <3>1. s \in Seq(Steps) /\ Len(s) = 3
      BY <1>1, <1>2
    <3>2. \A k \in 1 .. 3 : s[k].do # "accept"
      BY StepsAccept
    <3>. HIDE DEF s
    <3>3. Lists(s, {}, {})
      BY <3>1, <3>2, ListsNone
    <3>. QED
      BY <3>3 DEF s
  <2>6. Lists(end, {}, {})
    <3>. DEFINE s == <<Line(Close)>>
    <3>1. s \in Seq(Steps) /\ Len(s) = 1
      BY <1>1, <1>2
    <3>2. \A k \in 1 .. 1 : s[k].do # "accept"
      BY StepsAccept
    <3>. HIDE DEF s
    <3>3. Lists(s, {}, {})
      BY <3>1, <3>2, ListsNone
    <3>. QED
      BY <3>3 DEF s, end
  <2>7. Lists(<< >>, {}, {})
    BY ListsNothing
  <2>8. Lists(rest, {}, {})
    BY <2>5, <2>7
  <2>9. /\ cases > 0 => Lists(first, {argument, "case"}, {})
        /\ ~(cases > 0) => Lists(first, {}, {})
        /\ cases > 1 => Lists(second, {argument, "laterCase"}, {})
        /\ ~(cases > 1) => Lists(second, {}, {})
    BY <2>4, <2>7
  <2>. HIDE DEF first, second, rest, end, Case
  <2>10. ASSUME NEW s, NEW ps, NEW rs, Lists(s, ps, rs)
         PROVE  Lists((s \o rest) \o end, ps, rs)
    <3>1. Lists(s \o rest, ps \cup {}, rs \cup {} \cup (ps \cap {}))
      BY <2>8, <2>10, ListsJoined
    <3>2. Lists(s \o rest, ps, rs)
      BY <3>1
    <3>3. Lists((s \o rest) \o end, ps \cup {}, rs \cup {} \cup (ps \cap {}))
      BY <2>6, <3>2, ListsJoined
    <3>. QED
      BY <3>3
  <2>11. CASE cases = 0
    <3>1. Lists(first \o second, {} \cup {}, {} \cup {} \cup ({} \cap {}))
      BY <2>9, <2>11, ListsJoined
    <3>2. Lists(SwitchNode(cases, else), {} \cup {}, {} \cup {} \cup ({} \cap {}))
      BY <2>1, <2>10, <3>1
    <3>. QED
      BY <1>3, <3>2
  <2>12. CASE cases = 1
    <3>. DEFINE ps == {argument, "case"}
    <3>0. \A p \in ps : p \notin Repeated
      BY <2>3, <2>12 DEF Repeated
    <3>1. Lists(first, ps, {})
      BY <2>9, <2>12
    <3>. HIDE DEF ps
    <3>2. Lists(first \o second, ps \cup {}, {} \cup {} \cup (ps \cap {}))
      BY <2>9, <2>12, <3>1, ListsJoined
    <3>3. Lists(SwitchNode(cases, else), ps \cup {}, {} \cup {} \cup (ps \cap {}))
      BY <2>1, <2>10, <3>2
    <3>4. \A p : p \in {} \cup {} \cup (ps \cap {}) <=> p \in (ps \cup {}) \cap Repeated
      BY <3>0
    <3>. QED
      BY <1>3, <3>3, <3>4
  <2>13. CASE cases = 2
    <3>. DEFINE ps == {argument, "case"}
                qs == {argument, "laterCase"}
    <3>0. \A p : p \in {} \cup {} \cup (ps \cap qs) <=> p \in (ps \cup qs) \cap Repeated
      <4>1. argument \in Repeated /\ "case" \notin Repeated /\ "laterCase" \notin Repeated
        BY <2>3, <2>13 DEF Repeated
      <4>2. "case" # "laterCase"
        OBVIOUS
      <4>. QED
        BY <2>2, <4>1, <4>2
    <3>1. Lists(first, ps, {}) /\ Lists(second, qs, {})
      BY <2>9, <2>13
    <3>. HIDE DEF ps, qs
    <3>2. Lists(first \o second, ps \cup qs, {} \cup {} \cup (ps \cap qs))
      BY <3>1, ListsJoined
    <3>3. Lists(SwitchNode(cases, else), ps \cup qs, {} \cup {} \cup (ps \cap qs))
      BY <2>1, <2>10, <3>2
    <3>. QED
      BY <1>3, <3>0, <3>3
  <2>. QED
    BY <2>11, <2>12, <2>13
<1>17. /\ {"value", "value2", "if", "do", "while", "forStart", "forCondition", "forStep",
          "context"} \cap Repeated = {}
       /\ {"rangeStart", "rangeEnd"} \subseteq Repeated
  BY DEF Repeated
<1>18. Fair(FunctionDefinitionNode) /\ Fair(ClosureNode) /\ Fair(ForeverNode)
  BY <1>3, <1>4, <1>5, <1>7
<1>19. Fair(IfNode(TRUE)) /\ Fair(IfNode(FALSE))
  BY <1>3, <1>6, <1>17
<1>20. Fair(DoNode) /\ Fair(WhileNode)
  BY <1>3, <1>8, <1>9, <1>17
<1>21. Fair(ForNode(ExpressionHeader))
  <2>1. Lists(ForNode(ExpressionHeader), {"forStart", "forCondition", "forStep"}, {})
    BY <1>10, <1>12
  <2>. QED
    BY <1>3, <1>17, <2>1
<1>22. Fair(ForNode(RangeHeader))
  <2>1. Lists(ForNode(RangeHeader), {"rangeStart", "rangeEnd"}, {"rangeStart", "rangeEnd"})
    BY <1>11, <1>12
  <2>. QED
    BY <1>3, <1>17, <2>1
<1>23. Fair(AtomicStatementNode(TRUE)) /\ Fair(AtomicStatementNode(FALSE))
  BY <1>3, <1>13, <1>17
<1>24. Fair(ReturnNode(TRUE)) /\ Fair(ReturnNode(FALSE)) /\ Fair(FunctionCallOperatorNode)
  BY <1>3, <1>14, <1>15, <1>17
<1>25. ASSUME NEW node \in Statements
       PROVE  Fair(node.script)
  <2>. DEFINE plain == {FunctionCallOperatorNode, ReturnNode(TRUE), ReturnNode(FALSE)}
              loops == {IfNode(TRUE), IfNode(FALSE), ForeverNode, DoNode, WhileNode,
                        ForNode(ExpressionHeader), ForNode(RangeHeader),
                        AtomicStatementNode(TRUE), AtomicStatementNode(FALSE)}
              switches == {SwitchNode(cases, else) : cases \in 0 .. 2, else \in BOOLEAN}
  <2>1. \A script \in plain : Fair(script)
    BY <1>24
  <2>2. \A script \in loops : Fair(script)
    BY <1>18, <1>19, <1>20, <1>21, <1>22, <1>23
  <2>3. \A script \in switches : Fair(script)
    BY <1>16
  <2>4. Statements = {[script |-> script, statement |-> TRUE] : script \in plain}
                       \cup {[script |-> script, statement |-> FALSE] :
                               script \in loops \cup switches}
    BY DEF Statements
  <2>. HIDE DEF plain, loops, switches
  <2>5. node.script \in plain \cup loops \cup switches
    BY <2>4
  <2>. QED
    BY <2>1, <2>2, <2>3, <2>5
<1>. QED
  BY <1>18, <1>25

-----------------------------------------------------------------------------
(* What makes DefinedOnce inductive. *)

\* The declarations of a closure are the same; a closure that is made by one
\* that is declared twice is so too.
SameText(ds) ==
  \A i \in 1 .. Len(ds) : \A j \in 1 .. Len(ds) :
    ds[i].is = "closure" /\ ds[j].is = "closure" /\ ds[i].of = ds[j].of =>
      ds[i].text = ds[j].text
MakesAgain(ds) ==
  \A i \in 1 .. Len(ds) : \A c :
    ds[i].is = "closure" /\ Makes(ds[i].text, c) /\ Twice(ds, ds[i].of) => Twice(ds, c)

\* One that is declared twice stands where an expression is visited again, or is
\* made by one that is.
MadeTwice(ds, c) ==
  \E i \in 1 .. Len(ds) :
    ds[i].is = "closure" /\ Makes(ds[i].text, c) /\ Twice(ds, ds[i].of)
TwiceFor(ds, cs) ==
  \A c : Twice(ds, c) =>
    c \in 1 .. Len(cs) /\ (cs[c].part \in Repeated \/ MadeTwice(ds, c))

\* A closure is declared when its visit has ended.
Visited(vs, c) == \E i \in 1 .. Len(vs) : vs[i].closure = c
Ended(ds, cs, vs) == \A c \in 1 .. Len(cs) : Defined(ds, c) <=> ~Visited(vs, c)
Distinct(vs) ==
  \A i \in 1 .. Len(vs) : \A j \in 1 .. Len(vs) :
    vs[i].closure # 0 /\ vs[i].closure = vs[j].closure => i = j

\* One that stands where an expression is visited again is declared twice, or
\* is visited, or will be visited again.
Pending(v, cs, c) ==
  /\ cs[c].part \in DOMAIN v.found /\ v.found[cs[c].part].closure = c
  /\ Accepts(v.script, cs[c].part)
Repeats(ds, cs, vs) ==
  \A c \in 1 .. Len(cs) : cs[c].part \in Repeated =>
    Twice(ds, c) \/ Visited(vs, c) \/ \E i \in 1 .. Len(vs) : Pending(vs[i], cs, c)

\* The rest of a script visits an expression again that it has found, or visits
\* it twice, just when it is one of those.
Scripted(v) ==
  \A part : Accepts(v.script, part) =>
    IF part \in Repeated THEN part \in DOMAIN v.found \/ AcceptsTwice(v.script, part)
                         ELSE part \notin DOMAIN v.found /\ ~AcceptsTwice(v.script, part)

\* What a visit to an expression adds: its closure and all that are made in it.
WholeOf(e) ==
  IF e.closure = 0 THEN e.added = << >>
  ELSE \A c : Defined(e.added, c) <=> c = e.closure \/ MakesBehind(e.added, 0, c)
FoundAt(v, cs) ==
  \A part \in DOMAIN v.found :
    /\ WholeOf(v.found[part])
    /\ v.found[part].closure # 0 =>
         /\ v.found[part].closure \in 1 .. Len(cs)
         /\ cs[v.found[part].closure].part = part

\* A closure is visited for an expression that has not been found.
Links(vs, cs) ==
  \A i \in 1 .. Len(vs) : \A j \in 1 .. Len(vs) :
    i = j + 1 /\ vs[i].closure # 0 =>
      /\ vs[j].script # << >> /\ Head(vs[j].script).do = "accept"
      /\ Head(vs[j].script).part \notin DOMAIN vs[j].found
      /\ cs[vs[i].closure].part = Head(vs[j].script).part

\* Since a visit to a closure began, those closures have been declared that the
\* texts written since then make.
Segment(ds, n, srcs, m) ==
  n <= Len(ds) /\ \A c : DefinesBehind(ds, n, c) <=> MakesBehind(ds, n, c) \/ Sourced(srcs, m, c)
Segments(ds, vs, srcs) ==
  \A i \in 1 .. Len(vs) :
    vs[i].closure # 0 => Segment(ds, vs[i].declared, srcs, Number(vs, i))

Told(ds, cs, vs, srcs) ==
  /\ SameText(ds) /\ MakesAgain(ds) /\ TwiceFor(ds, cs)
  /\ Ended(ds, cs, vs) /\ Distinct(vs) /\ Repeats(ds, cs, vs)
  /\ Links(vs, cs) /\ Segments(ds, vs, srcs)
  /\ \A i \in 1 .. Len(vs) : Scripted(vs[i]) /\ FoundAt(vs[i], cs)

OInv == Told(declarations, closures, visits, sources)

-----------------------------------------------------------------------------
(* Declarations are added. *)

\* A closure is declared for the first time, or a function.
LEMMA DeclaredFirst ==
  ASSUME NEW ds \in Seq(Declarations), NEW d \in Declarations, NEW cs,
         d.is = "closure" => ~Defined(ds, d.of),
         SameText(ds), MakesAgain(ds), TwiceFor(ds, cs)
  PROVE  LET es == ds \o <<d>> IN
         /\ SameText(es) /\ MakesAgain(es) /\ TwiceFor(es, cs)
         /\ \A c : Twice(es, c) <=> Twice(ds, c)
         /\ \A c : Defined(es, c) <=> Defined(ds, c) \/ (d.is = "closure" /\ c = d.of)
<1>. DEFINE n == Len(ds)
            es == ds \o <<d>>
<1>1. /\ n \in Nat /\ Len(es) = n + 1 /\ es[n + 1] = d
      /\ \A i \in 1 .. n : i \in 1 .. n + 1 /\ es[i] = ds[i]
      /\ \A i \in 1 .. n + 1 : i \in 1 .. n \/ i = n + 1
  OBVIOUS
<1>2. <<d>> \in Seq(Declarations) /\ \A c : Defined(<<d>>, c) <=> d.is = "closure" /\ d.of = c
  BY DefinedOne
<1>3. \A c : Defined(es, c) <=> Defined(ds, c) \/ (d.is = "closure" /\ c = d.of)
  BY <1>2, DefinedMore
<1>. HIDE DEF es, n
<1>4. \A c : Twice(es, c) => Twice(ds, c)
  <2>1. SUFFICES ASSUME NEW c, Twice(es, c)
                 PROVE  Twice(ds, c)
    OBVIOUS
  <2>2. PICK i \in 1 .. n + 1, j \in 1 .. n + 1 :
          /\ i # j /\ es[i].is = "closure" /\ es[i].of = c
          /\ es[j].is = "closure" /\ es[j].of = c
    BY <1>1, <2>1 DEF Twice
  <2>3. ASSUME NEW k \in 1 .. n, es[k].is = "closure", es[k].of = c
        PROVE  Defined(ds, c)
    BY <1>1, <2>3 DEF Defined, Defines, n
  <2>4. i \in 1 .. n /\ j \in 1 .. n
    BY <1>1, <2>2, <2>3
  <2>. QED
    BY <1>1, <2>2, <2>4 DEF Twice, n
<1>5. \A c : Twice(ds, c) => Twice(es, c)
  BY <1>2, DefinedMore DEF es
<1>6. SameText(es)
  <2>1. ASSUME NEW i \in 1 .. n + 1, NEW j \in 1 .. n + 1, es[i].is = "closure",
               es[j].is = "closure", es[i].of = es[j].of
        PROVE  es[i].text = es[j].text
    <3>1. ASSUME NEW k \in 1 .. n, es[k].is = "closure"
          PROVE  Defined(ds, es[k].of)
      BY <1>1, <3>1 DEF Defined, Defines, n
    <3>2. CASE i \in 1 .. n /\ j \in 1 .. n
      BY <1>1, <2>1, <3>2 DEF SameText, n
    <3>3. CASE i = n + 1 /\ j = n + 1
      BY <3>3
    <3>4. CASE i \in 1 .. n /\ j = n + 1
      BY <1>1, <2>1, <3>1, <3>4
    <3>5. CASE i = n + 1 /\ j \in 1 .. n
      BY <1>1, <2>1, <3>1, <3>5
    <3>. QED
      BY <1>1, <3>2, <3>3, <3>4, <3>5
  <2>. QED
    BY <1>1, <2>1 DEF SameText
<1>7. ASSUME d.is = "closure"
      PROVE  ~Twice(ds, d.of)
  BY <1>7 DEF Twice, Defined, Defines
<1>8. MakesAgain(es)
  <2>1. ASSUME NEW i \in 1 .. n + 1, NEW c, es[i].is = "closure", Makes(es[i].text, c),
               Twice(es, es[i].of)
        PROVE  Twice(es, c)
    <3>1. Twice(ds, es[i].of)
      BY <1>4, <2>1
    <3>2. i \in 1 .. n
      BY <1>1, <1>7, <2>1, <3>1
    <3>3. Twice(ds, c)
      BY <1>1, <2>1, <3>1, <3>2 DEF MakesAgain, n
    <3>. QED
      BY <1>5, <3>3
  <2>. QED
    BY <1>1, <2>1 DEF MakesAgain
<1>9. TwiceFor(es, cs)
  <2>1. \A c : MadeTwice(ds, c) => MadeTwice(es, c)
    BY <1>1, <1>5 DEF MadeTwice, n
  <2>. QED
    BY <1>4, <2>1 DEF TwiceFor
<1>. QED
  BY <1>3, <1>4, <1>5, <1>6, <1>8, <1>9 DEF es

\* An expression is visited again, and its closures are declared once more.
LEMMA DeclaredAgain ==
  ASSUME NEW ds \in Seq(Declarations), NEW e \in Expressions, NEW cs,
         e.closure # 0, Declares(ds, e), WholeOf(e),
         e.closure \in 1 .. Len(cs), cs[e.closure].part \in Repeated,
         \A c : Defined(ds, c) => c \in 1 .. Len(cs),
         SameText(ds), MakesAgain(ds), TwiceFor(ds, cs)
  PROVE  LET es == ds \o e.added IN
         /\ SameText(es) /\ MakesAgain(es) /\ TwiceFor(es, cs)
         /\ \A c : Twice(ds, c) => Twice(es, c)
         /\ \A c : Defined(es, c) <=> Defined(ds, c)
         /\ Twice(es, e.closure)
<1>. DEFINE n == Len(ds)
            more == e.added
            es == ds \o more
            k == Len(more)
<1>1. more \in Seq(Declarations)
  BY DEF Expressions
<1>. HIDE DEF more
<1>2. /\ n \in Nat /\ k \in Nat /\ Len(es) = n + k
      /\ \A i \in 1 .. n : i \in 1 .. n + k /\ es[i] = ds[i]
      /\ \A i \in 1 .. k : n + i \in 1 .. n + k /\ es[n + i] = more[i]
      /\ \A i \in 1 .. n + k : i \in 1 .. n \/ (i - n \in 1 .. k /\ es[i] = more[i - n])
  BY <1>1, JoinedPlaces
<1>3. \A j \in 1 .. k : \E i \in 1 .. n : ds[i] = more[j]
  BY DEF Declares, more
<1>4. \A c : Defined(more, c) <=> c = e.closure \/ MakesBehind(more, 0, c)
  BY DEF WholeOf, more
<1>5. \A c : /\ Defined(es, c) <=> Defined(ds, c) \/ Defined(more, c)
             /\ Twice(ds, c) => Twice(es, c)
             /\ Defined(ds, c) /\ Defined(more, c) => Twice(es, c)
             /\ Twice(es, c) => Twice(ds, c) \/ Defined(more, c)
  BY <1>1, DefinedMore
<1>. HIDE DEF es, n, k
<1>6. \A c : Defined(more, c) => Defined(ds, c)
  <2>1. SUFFICES ASSUME NEW c, Defined(more, c)
                 PROVE  Defined(ds, c)
    OBVIOUS
  <2>2. PICK j \in 1 .. k : more[j].is = "closure" /\ more[j].of = c
    BY <2>1 DEF Defined, Defines, k
  <2>3. PICK i \in 1 .. n : ds[i] = more[j]
    BY <1>3
  <2>. QED
    BY <2>2, <2>3 DEF Defined, Defines, n
<1>7. ASSUME NEW i \in 1 .. n + k
      PROVE  \E j \in 1 .. n : ds[j] = es[i]
  <2>1. CASE i \in 1 .. n
    BY <1>2, <2>1
  <2>2. CASE i \notin 1 .. n
    <3>1. i - n \in 1 .. k /\ es[i] = more[i - n]
      BY <1>2, <2>2
    <3>. QED
      BY <1>3, <3>1
  <2>. QED
    BY <2>1, <2>2
<1>8. SameText(es)
  <2>1. ASSUME NEW i \in 1 .. n + k, NEW j \in 1 .. n + k, es[i].is = "closure",
               es[j].is = "closure", es[i].of = es[j].of
        PROVE  es[i].text = es[j].text
    <3>1. PICK p \in 1 .. n : ds[p] = es[i]
      BY <1>7
    <3>2. PICK q \in 1 .. n : ds[q] = es[j]
      BY <1>7
    <3>3. /\ ds[p].is = "closure" /\ ds[q].is = "closure" /\ ds[p].of = ds[q].of
      BY <2>1, <3>1, <3>2
    <3>4. ds[p].text = ds[q].text
      BY <3>3 DEF SameText, n
    <3>. QED
      BY <3>1, <3>2, <3>4
  <2>. QED
    BY <1>2, <2>1 DEF SameText
<1>9. MakesAgain(es)
  <2>1. ASSUME NEW i \in 1 .. n + k, NEW c, es[i].is = "closure", Makes(es[i].text, c),
               Twice(es, es[i].of)
        PROVE  Twice(es, c)
    <3>1. PICK p \in 1 .. n : ds[p] = es[i]
      BY <1>7
    <3>2. CASE Twice(ds, es[i].of)
      <4>1. ds[p].is = "closure" /\ Makes(ds[p].text, c) /\ Twice(ds, ds[p].of)
        BY <2>1, <3>1, <3>2
      <4>2. Twice(ds, c)
        BY <4>1 DEF MakesAgain, n
      <4>. QED
        BY <1>5, <4>2
    <3>3. CASE Defined(more, es[i].of)
      <4>1. PICK j \in 1 .. k : more[j].is = "closure" /\ more[j].of = es[i].of
        BY <3>3 DEF Defined, Defines, k
      <4>2. PICK q \in 1 .. n : ds[q] = more[j]
        BY <1>3
      <4>3. ds[p].is = "closure" /\ ds[q].is = "closure" /\ ds[p].of = ds[q].of
        BY <2>1, <3>1, <4>1, <4>2
      <4>4. ds[p].text = ds[q].text
        BY <4>3 DEF SameText, n
      <4>5. Makes(more[j].text, c) /\ j > 0
        BY <2>1, <3>1, <4>2, <4>4
      <4>6. MakesBehind(more, 0, c)
        BY <4>1, <4>5 DEF MakesBehind, k
      <4>. QED
        BY <1>4, <1>5, <1>6, <4>6
    <3>. QED
      BY <1>5, <2>1, <3>2, <3>3
  <2>. QED
    BY <1>2, <2>1 DEF MakesAgain
<1>10. TwiceFor(es, cs)
  <2>1. ASSUME NEW c, Twice(es, c)
        PROVE  c \in 1 .. Len(cs) /\ (cs[c].part \in Repeated \/ MadeTwice(es, c))
    <3>1. CASE Twice(ds, c)
      <4>1. MadeTwice(ds, c) => MadeTwice(es, c)
        BY <1>2, <1>5 DEF MadeTwice, n
      <4>. QED
        BY <3>1, <4>1 DEF TwiceFor
    <3>2. CASE Defined(more, c)
      <4>1. c \in 1 .. Len(cs)
        BY <1>6, <3>2
      <4>2. CASE c = e.closure
        BY <4>1, <4>2
      <4>3. CASE MakesBehind(more, 0, c)
        <5>1. PICK j \in 1 .. k : more[j].is = "closure" /\ Makes(more[j].text, c)
          BY <4>3 DEF MakesBehind, k
        <5>2. Defined(more, more[j].of)
          BY <5>1 DEF Defined, Defines, k
        <5>3. Twice(es, more[j].of)
          BY <1>5, <1>6, <5>2
        <5>4. PICK i : i = n + j
          OBVIOUS
        <5>5. i \in 1 .. Len(es) /\ es[i] = more[j]
          BY <1>2, <5>4
        <5>6. es[i].is = "closure" /\ Makes(es[i].text, c) /\ Twice(es, es[i].of)
          BY <5>1, <5>3, <5>5
        <5>7. MadeTwice(es, c)
          BY <5>5, <5>6 DEF MadeTwice
        <5>. QED
          BY <4>1, <5>7
      <4>. QED
        BY <1>4, <3>2, <4>2, <4>3
    <3>. QED
      BY <1>5, <2>1, <3>1, <3>2
  <2>. QED
    BY <2>1 DEF TwiceFor
<1>11. Twice(es, e.closure)
  BY <1>4, <1>5, <1>6
<1>. QED
  BY <1>5, <1>6, <1>8, <1>9, <1>10, <1>11 DEF es, more

-----------------------------------------------------------------------------
(* What is declared since a visit began. *)

\* The last source makes more, and an expression's closures are declared.
LEMMA SegmentGrows ==
  ASSUME NEW ds \in Seq(Declarations), NEW srcs \in Seq(Sources), Len(srcs) >= 1,
         NEW n \in Nat, NEW m \in Nat, m <= Len(srcs), Segment(ds, n, srcs, m),
         NEW e \in Expressions, WholeOf(e), NEW u, MakesToo(u, srcs[Len(srcs)], e.closure)
  PROVE  Segment(ds \o e.added, n, [srcs EXCEPT ![Len(srcs)] = u], m)
<1>. DEFINE more == e.added
            us == [srcs EXCEPT ![Len(srcs)] = u]
            x == e.closure
<1>1. more \in Seq(Declarations)
  BY DEF Expressions
<1>2. n <= Len(ds) /\ n <= Len(ds \o more)
  BY <1>1 DEF Segment
<1>3. \A c : Sourced(us, m, c) <=> Sourced(srcs, m, c) \/ (x # 0 /\ c = x)
  BY SourcedToo
<1>4. \A c : Defined(more, c) <=> (x # 0 /\ c = x) \/ MakesBehind(more, 0, c)
  <2>1. CASE x = 0
    <3>1. more = << >>
      BY <2>1 DEF WholeOf
    <3>2. \A c : ~Defined(more, c) /\ ~MakesBehind(more, 0, c)
      BY <3>1 DEF Defined, Defines, MakesBehind
    <3>. QED
      BY <2>1, <3>2
  <2>2. CASE x # 0
    BY <2>2 DEF WholeOf
  <2>. QED
    BY <2>1, <2>2
<1>5. \A c : /\ DefinesBehind(ds \o more, n, c) <=> DefinesBehind(ds, n, c) \/ Defined(more, c)
             /\ MakesBehind(ds \o more, n, c)
                  <=> MakesBehind(ds, n, c) \/ MakesBehind(more, 0, c)
  BY <1>1, <1>2, BehindMore
<1>. HIDE DEF more, us, x
<1>6. \A c : DefinesBehind(ds, n, c) <=> MakesBehind(ds, n, c) \/ Sourced(srcs, m, c)
  BY DEF Segment
<1>. QED
  BY <1>2, <1>3, <1>4, <1>5, <1>6 DEF Segment, more, us

\* The last source makes no more.
LEMMA SegmentStays ==
  ASSUME NEW ds \in Seq(Declarations), NEW srcs \in Seq(Sources), Len(srcs) >= 1,
         NEW n \in Nat, NEW m \in Nat, m <= Len(srcs), Segment(ds, n, srcs, m),
         NEW u, MakesToo(u, srcs[Len(srcs)], 0)
  PROVE  Segment(ds, n, [srcs EXCEPT ![Len(srcs)] = u], m)
<1>1. \A c : Sourced([srcs EXCEPT ![Len(srcs)] = u], m, c) <=> Sourced(srcs, m, c)
  BY SourcedToo
<1>. QED
  BY <1>1 DEF Segment

\* A closure begins, with a source of its own.
LEMMA SegmentBegins ==
  ASSUME NEW ds \in Seq(Declarations), NEW srcs \in Seq(Sources)
  PROVE  /\ Segment(ds, Len(ds), Append(srcs, EmptySource), Len(srcs) + 1)
         /\ \A n, m \in Nat : Segment(ds, n, srcs, m) =>
                              Segment(ds, n, Append(srcs, EmptySource), m)
<1>1. \A c : ~DefinesBehind(ds, Len(ds), c) /\ ~MakesBehind(ds, Len(ds), c)
  BY DEF DefinesBehind, MakesBehind
<1>2. Len(ds) \in Nat /\ Len(ds) <= Len(ds) /\ Len(srcs) + 1 \in Nat
  OBVIOUS
<1>3. ASSUME NEW m \in Nat
      PROVE  \A c : Sourced(Append(srcs, EmptySource), m, c) <=> Sourced(srcs, m, c)
  BY SourcedFewer
<1>4. \A c : ~Sourced(srcs, Len(srcs) + 1, c)
  BY <1>2, SourcedFewer
<1>5. Segment(ds, Len(ds), Append(srcs, EmptySource), Len(srcs) + 1)
  BY <1>1, <1>2, <1>3, <1>4 DEF Segment
<1>6. ASSUME NEW n \in Nat, NEW m \in Nat, Segment(ds, n, srcs, m)
      PROVE  Segment(ds, n, Append(srcs, EmptySource), m)
  BY <1>3, <1>6 DEF Segment
<1>. QED
  BY <1>5, <1>6

\* A closure ends: its text is declared, and the source below makes its value.
LEMMA SegmentEnds ==
  ASSUME NEW ds \in Seq(Declarations), NEW srcs \in Seq(Sources), Len(srcs) >= 2,
         NEW n \in Nat, NEW m \in Nat, Segment(ds, n, srcs, m),
         NEW d \in Declarations, d.is = "closure", d.of # 0,
         d.text = srcs[Len(srcs)].lines, srcs[Len(srcs)].stream = << >>,
         NEW u, MakesToo(u, srcs[Len(srcs) - 1], d.of)
  PROVE  /\ m <= Len(srcs) - 1 =>
              Segment(ds \o <<d>>, n, [Front(srcs) EXCEPT ![Len(srcs) - 1] = u], m)
         /\ m = Len(srcs) =>
              LET es == ds \o <<d>>
                  added == SubSeq(es, n + 1, Len(es))
              IN  \A c : Defined(added, c) <=> c = d.of \/ MakesBehind(added, 0, c)
<1>. DEFINE k == Len(srcs)
            us == Front(srcs)
            es == ds \o <<d>>
            added == SubSeq(es, n + 1, Len(es))
<1>1. k \in Nat /\ k >= 2 /\ k - 1 \in Nat
  OBVIOUS
<1>2. us \in Seq(Sources) /\ Len(us) = k - 1 /\ us[k - 1] = srcs[k - 1]
  BY <1>1, Taken, SMTT(30)
<1>3. n <= Len(ds) /\ es \in Seq(Declarations) /\ n <= Len(es)
  BY DEF Segment
<1>4. <<d>> \in Seq(Declarations) /\ \A c : /\ Defined(<<d>>, c) <=> c = d.of
                                            /\ MakesBehind(<<d>>, 0, c) <=> Makes(d.text, c)
  BY DefinedOne
<1>5. \A c : /\ DefinesBehind(es, n, c) <=> DefinesBehind(ds, n, c) \/ c = d.of
             /\ MakesBehind(es, n, c) <=> MakesBehind(ds, n, c) \/ Makes(d.text, c)
  BY <1>3, <1>4, BehindMore
<1>6. \A c : SourceMakes(srcs[k], c) <=> Makes(d.text, c)
  <2>1. \A c : ~Makes(<< >>, c)
    BY DEF Makes
  <2>. QED
    BY <2>1 DEF SourceMakes
<1>7. \A c : DefinesBehind(ds, n, c) <=> MakesBehind(ds, n, c) \/ Sourced(srcs, m, c)
  BY DEF Segment
<1>8. m <= k => \A c : Sourced(srcs, m, c) <=> Sourced(us, m, c) \/ Makes(d.text, c)
  <2>1. ASSUME m <= k
        PROVE  \A c : Sourced(srcs, m, c) <=> Sourced(us, m, c) \/ SourceMakes(srcs[k], c)
    BY <1>1, <2>1, SourcedFewer
  <2>. QED
    BY <1>6, <2>1
<1>. HIDE DEF us, es, added, k
<1>9. ASSUME m <= k - 1
      PROVE  Segment(es, n, [us EXCEPT ![k - 1] = u], m)
  <2>1. \A c : Sourced([us EXCEPT ![Len(us)] = u], m, c) <=> Sourced(us, m, c) \/ c = d.of
    <3>1. Len(us) >= 1 /\ m <= Len(us)
      BY <1>1, <1>2, <1>9
    <3>2. MakesToo(u, us[Len(us)], d.of)
      BY <1>2 DEF k
    <3>3. PICK x : x = d.of
      OBVIOUS
    <3>4. MakesToo(u, us[Len(us)], x)
      BY <3>2, <3>3
    <3>5. \A c : Sourced([us EXCEPT ![Len(us)] = u], m, c)
                  <=> Sourced(us, m, c) \/ (x # 0 /\ c = x)
      BY <1>2, <3>1, <3>4, SourcedToo
    <3>. QED
      BY <3>3, <3>5
  <2>2. \A c : Sourced([us EXCEPT ![k - 1] = u], m, c) <=> Sourced(us, m, c) \/ c = d.of
    BY <1>2, <2>1
  <2>3. \A c : Sourced(srcs, m, c) <=> Sourced(us, m, c) \/ Makes(d.text, c)
    BY <1>1, <1>8, <1>9
  <2>. QED
    BY <1>3, <1>5, <1>7, <2>2, <2>3 DEF Segment
<1>10. ASSUME m = k
       PROVE  \A c : Defined(added, c) <=> c = d.of \/ MakesBehind(added, 0, c)
  <2>1. \A c : /\ Defined(added, c) <=> DefinesBehind(es, n, c)
               /\ MakesBehind(added, 0, c) <=> MakesBehind(es, n, c)
    BY <1>3, BehindOnly DEF added
  <2>2. \A c : Sourced(srcs, m, c) <=> Sourced(us, m, c) \/ Makes(d.text, c)
    BY <1>1, <1>8, <1>10
  <2>3. \A c : ~Sourced(us, k, c)
    <3>1. k = Len(us) + 1
      BY <1>1, <1>2
    <3>2. \A c : ~Sourced(us, Len(us) + 1, c)
      BY <1>1, <1>2, SourcedFewer
    <3>. QED
      BY <3>1, <3>2
  <2>. QED
    BY <1>5, <1>7, <1>10, <2>1, <2>2, <2>3
<1>. QED
  BY <1>9, <1>10 DEF us, es, added, k

-----------------------------------------------------------------------------
(* The visits. *)

\* Only the innermost visit changes, and not which closure it visits.
LEMMA TopChanged ==
  ASSUME NEW vs \in Seq(Visits), NEW w \in Visits, NEW ws, Len(vs) >= 1,
         w.closure = vs[Len(vs)].closure, w.declared = vs[Len(vs)].declared,
         ws = [vs EXCEPT ![Len(vs)] = w]
  PROVE  /\ ws \in Seq(Visits) /\ Len(ws) = Len(vs)
         /\ \A i \in 1 .. Len(vs) : ws[i] = IF i = Len(vs) THEN w ELSE vs[i]
         /\ \A c : Visited(ws, c) <=> Visited(vs, c)
         /\ Distinct(vs) => Distinct(ws)
         /\ \A cs : Links(vs, cs) => Links(ws, cs)
<1>. DEFINE n == Len(vs)
<1>1. n \in 1 .. n /\ n \in Nat
  OBVIOUS
<1>2. /\ ws \in Seq(Visits) /\ Len(ws) = n
      /\ \A i \in 1 .. n : ws[i] = IF i = n THEN w ELSE vs[i]
  BY <1>1, Replaced
<1>3. \A i \in 1 .. n : ws[i].closure = vs[i].closure
  BY <1>2, ZenonT(60)
<1>4. \A c : Visited(ws, c) <=> Visited(vs, c)
  BY <1>2, <1>3, ZenonT(60) DEF Visited
<1>5. ASSUME Distinct(vs)
      PROVE  Distinct(ws)
  <2>1. ASSUME NEW i \in 1 .. n, NEW j \in 1 .. n, ws[i].closure # 0,
               ws[i].closure = ws[j].closure
        PROVE  i = j
    <3>1. vs[i].closure # 0 /\ vs[i].closure = vs[j].closure
      BY <1>3, <2>1
    <3>. QED
      BY <1>5, <3>1 DEF Distinct
  <2>2. Len(ws) = n
    BY <1>2, SMTT(30)
  <2>. QED
    BY <2>1, <2>2, ZenonT(60) DEF Distinct
<1>6. ASSUME NEW cs, Links(vs, cs)
      PROVE  Links(ws, cs)
  <2>1. ASSUME NEW i \in 1 .. n, NEW j \in 1 .. n, i = j + 1, ws[i].closure # 0
        PROVE  /\ ws[j].script # << >> /\ Head(ws[j].script).do = "accept"
               /\ Head(ws[j].script).part \notin DOMAIN ws[j].found
               /\ cs[ws[i].closure].part = Head(ws[j].script).part
    <3>1. j # n
      BY <1>1, <2>1
    <3>2. ws[j] = vs[j] /\ ws[i].closure = vs[i].closure
      BY <1>2, <1>3, <3>1, ZenonT(60)
    <3>. QED
      BY <1>6, <2>1, <3>2 DEF Links
  <2>. QED
    BY <1>2, <2>1, ZenonT(60) DEF Links
<1>. QED
  BY <1>2, <1>4, <1>5, <1>6

\* What holds since a visit began that writes to one of the first m sources,
\* holds still.
Carried(ds, srcs, es, us, m) ==
  \A n \in Nat : \A k \in 1 .. m : Segment(ds, n, srcs, k) => Segment(es, n, us, k)

\* What was declared since visits began.
LEMMA SegmentsStay ==
  ASSUME NEW ds, NEW es, NEW vs \in Seq(Visits), NEW ws \in Seq(Visits), NEW srcs, NEW us,
         Segments(ds, vs, srcs), Len(ws) <= Len(vs),
         \A i \in 1 .. Len(ws) : /\ ws[i].closure = vs[i].closure
                                 /\ ws[i].declared = vs[i].declared,
         Carried(ds, srcs, es, us, Number(vs, Len(ws)))
  PROVE  Segments(es, ws, us)
<1>1. ASSUME NEW i \in 1 .. Len(ws), ws[i].closure # 0
      PROVE  Segment(es, ws[i].declared, us, Number(ws, i))
  <2>1. vs[i] \in Visits /\ i \in 1 .. Len(vs) /\ i \in 0 .. Len(ws) /\ Len(ws) \in Nat
    OBVIOUS
  <2>2. vs[i].declared \in Nat /\ Number(vs, i) \in 1 .. Number(vs, Len(ws))
    BY <2>1, Numbers DEF Visits
  <2>3. Segment(ds, vs[i].declared, srcs, Number(vs, i))
    BY <1>1, <2>1 DEF Segments
  <2>4. Segment(es, vs[i].declared, us, Number(vs, i))
    BY <2>2, <2>3 DEF Carried
  <2>5. Number(ws, i) = Number(vs, i)
    BY <2>1, NumbersStay
  <2>. QED
    BY <2>1, <2>4, <2>5
<1>. QED
  BY <1>1 DEF Segments

\* The script of a visit, when its first step is taken.
LEMMA ScriptGoesOn ==
  ASSUME NEW v \in Visits, NEW w, v.script # << >>, Scripted(v), w.script = Tail(v.script),
         \A p : p \in DOMAIN w.found <=> p \in DOMAIN v.found \/ Asks(Head(v.script), p)
  PROVE  Scripted(w)
<1>1. v.script \in Seq(Steps)
  BY DEF Visits
<1>2. \A p : /\ Accepts(v.script, p) <=> Asks(Head(v.script), p) \/ Accepts(w.script, p)
             /\ AcceptsTwice(v.script, p) <=>
                  \/ AcceptsTwice(w.script, p)
                  \/ Asks(Head(v.script), p) /\ Accepts(w.script, p)
  BY <1>1, AcceptsHead
<1>3. ASSUME NEW p, Accepts(w.script, p)
      PROVE  IF p \in Repeated THEN p \in DOMAIN w.found \/ AcceptsTwice(w.script, p)
                               ELSE p \notin DOMAIN w.found /\ ~AcceptsTwice(w.script, p)
  <2>1. IF p \in Repeated THEN p \in DOMAIN v.found \/ AcceptsTwice(v.script, p)
                          ELSE p \notin DOMAIN v.found /\ ~AcceptsTwice(v.script, p)
    BY <1>2, <1>3 DEF Scripted
  <2>. QED
    BY <1>2, <1>3, <2>1
<1>. QED
  BY <1>3 DEF Scripted

\* What is pending, too.
LEMMA PendingGoesOn ==
  ASSUME NEW v \in Visits, NEW w, v.script # << >>, w.script = Tail(v.script),
         \A p \in DOMAIN v.found : p \in DOMAIN w.found /\ w.found[p] = v.found[p],
         NEW cs, NEW c, Pending(v, cs, c)
  PROVE  Pending(w, cs, c) \/ Asks(Head(v.script), cs[c].part)
<1>1. v.script \in Seq(Steps)
  BY DEF Visits
<1>2. Accepts(v.script, cs[c].part) <=>
        Asks(Head(v.script), cs[c].part) \/ Accepts(w.script, cs[c].part)
  BY <1>1, AcceptsHead
<1>. QED
  BY <1>2 DEF Pending

\* Visit v, the last of vs, steps on to w, and declarations es follow ds.
StepsOn(ds, es, cs, vs, v, w) ==
  /\ vs \in Seq(Visits) /\ Len(vs) >= 1 /\ v = vs[Len(vs)] /\ v.script # << >> /\ w \in Visits
  /\ w.closure = v.closure /\ w.declared = v.declared /\ w.script = Tail(v.script)
  /\ \A p \in DOMAIN v.found : w.found[p] = v.found[p]
  /\ \A p : p \in DOMAIN w.found <=> p \in DOMAIN v.found \/ Asks(Head(v.script), p)
  /\ FoundAt(w, cs) /\ SameText(es) /\ MakesAgain(es) /\ TwiceFor(es, cs)
  /\ \A c : Twice(ds, c) => Twice(es, c)
  /\ \A c : Defined(es, c) <=> Defined(ds, c)
  /\ \A p \in DOMAIN v.found : Asks(Head(v.script), p) /\ v.found[p].closure # 0 =>
                               Twice(es, v.found[p].closure)

\* The innermost visit takes a step.
LEMMA StepTells ==
  ASSUME NEW ds, NEW es, NEW cs, NEW vs, NEW srcs, NEW us, NEW v, NEW w, NEW ws,
         Told(ds, cs, vs, srcs), StepsOn(ds, es, cs, vs, v, w),
         Len(srcs) = Number(vs, Len(vs)), Carried(ds, srcs, es, us, Len(srcs)),
         ws = [vs EXCEPT ![Len(vs)] = w]
  PROVE  Told(es, cs, ws, us)
<1>. USE DEF StepsOn
<1>. DEFINE n == Len(vs)
<1>1. n \in 1 .. n /\ n \in Nat /\ v \in Visits
  OBVIOUS
<1>2. /\ ws \in Seq(Visits) /\ Len(ws) = n
      /\ \A i \in 1 .. n : ws[i] = IF i = n THEN w ELSE vs[i]
      /\ \A c : Visited(ws, c) <=> Visited(vs, c)
      /\ Distinct(vs) => Distinct(ws)
      /\ Links(vs, cs) => Links(ws, cs)
  <2>1. w.closure = vs[Len(vs)].closure /\ w.declared = vs[Len(vs)].declared
    OBVIOUS
  <2>2. /\ ws \in Seq(Visits) /\ Len(ws) = Len(vs)
        /\ \A i \in 1 .. Len(vs) : ws[i] = IF i = Len(vs) THEN w ELSE vs[i]
    BY <2>1, TopChanged
  <2>3. /\ \A c : Visited(ws, c) <=> Visited(vs, c)
        /\ Distinct(vs) => Distinct(ws)
        /\ Links(vs, cs) => Links(ws, cs)
    BY <2>1, TopChanged
  <2>. QED
    BY <2>2, <2>3
<1>. HIDE DEF n
<1>3. /\ Ended(ds, cs, vs) /\ Distinct(vs) /\ Repeats(ds, cs, vs) /\ Links(vs, cs)
      /\ Segments(ds, vs, srcs)
      /\ \A i \in 1 .. n : Scripted(vs[i]) /\ FoundAt(vs[i], cs)
  BY DEF Told, n
<1>4. Ended(es, cs, ws)
  BY <1>2, <1>3 DEF Ended
<1>5. Repeats(es, cs, ws)
  <2>1. ASSUME NEW c \in 1 .. Len(cs), cs[c].part \in Repeated
        PROVE  Twice(es, c) \/ Visited(ws, c) \/ \E i \in 1 .. n : Pending(ws[i], cs, c)
    <3>1. Twice(ds, c) \/ Visited(vs, c) \/ \E i \in 1 .. n : Pending(vs[i], cs, c)
      BY <1>3, <2>1 DEF Repeats, n
    <3>2. ASSUME NEW i \in 1 .. n, Pending(vs[i], cs, c)
          PROVE  Twice(es, c) \/ Pending(ws[i], cs, c)
      <4>1. CASE i # n
        BY <1>2, <3>2, <4>1
      <4>2. CASE i = n
        <5>1. Pending(v, cs, c) /\ ws[i] = w
          BY <1>2, <3>2, <4>2 DEF n
        <5>2. Pending(w, cs, c) \/ Asks(Head(v.script), cs[c].part)
          BY <1>1, <5>1, PendingGoesOn
        <5>3. c # 0
          OBVIOUS
        <5>. QED
          BY <5>1, <5>2, <5>3 DEF Pending
      <4>. QED
        BY <4>1, <4>2
    <3>. QED
      BY <1>2, <3>1, <3>2
  <2>. QED
    BY <1>2, <2>1 DEF Repeats
<1>6. Segments(es, ws, us)
  <2>1. \A i \in 1 .. n : ws[i].closure = vs[i].closure /\ ws[i].declared = vs[i].declared
    BY <1>2 DEF n
  <2>. QED
    <3>1. /\ Segments(ds, vs, srcs) /\ ws \in Seq(Visits) /\ Len(ws) <= Len(vs)
          /\ \A i \in 1 .. Len(ws) : /\ ws[i].closure = vs[i].closure
                                      /\ ws[i].declared = vs[i].declared
          /\ Len(srcs) = Number(vs, Len(ws))
      BY <1>1, <1>2, <1>3, <2>1 DEF n
    <3>2. Carried(ds, srcs, es, us, Number(vs, Len(ws)))
      BY <3>1
    <3>. QED
      BY <3>1, <3>2, SegmentsStay, ZenonT(60)
<1>7. ASSUME NEW i \in 1 .. n
      PROVE  Scripted(ws[i]) /\ FoundAt(ws[i], cs)
  <2>1. CASE i # n
    BY <1>2, <1>3, <2>1
  <2>2. CASE i = n
    <3>1. Scripted(v)
      BY <1>1, <1>3 DEF n
    <3>2. Scripted(w)
      BY <1>1, <3>1, ScriptGoesOn
    <3>. QED
      BY <1>2, <2>2, <3>2
  <2>. QED
    BY <2>1, <2>2
<1>. QED
  BY <1>2, <1>3, <1>4, <1>5, <1>6, <1>7 DEF Told

\* Closures are added, at most one, the closure k.
Extends(cs2, cs, k) ==
  /\ Len(cs) \in Nat /\ Len(cs2) \in Nat
  /\ \A c : c \in 1 .. Len(cs2) <=> c \in 1 .. Len(cs) \/ (k # 0 /\ c = k)
  /\ \A c \in 1 .. Len(cs) : cs2[c] = cs[c] /\ c # k

\* A visit begins.
LEMMA PushTells ==
  ASSUME NEW ds, NEW cs, NEW cs2, NEW vs \in Seq(Visits), NEW v \in Visits, NEW srcs, NEW us,
         NEW ws, Told(ds, cs, vs, srcs), Len(srcs) = Number(vs, Len(vs)),
         Extends(cs2, cs, v.closure), Carried(ds, srcs, ds, us, Len(srcs)),
         \A c : Defined(ds, c) => c \in 1 .. Len(cs),
         \A i \in 1 .. Len(vs) : vs[i].closure # 0 => vs[i].closure \in 1 .. Len(cs),
         DOMAIN v.found = {}, Fair(v.script), ws = Append(vs, v),
         v.closure # 0 =>
           /\ Len(vs) >= 1 /\ vs[Len(vs)].script # << >>
           /\ Head(vs[Len(vs)].script).do = "accept"
           /\ Head(vs[Len(vs)].script).part \notin DOMAIN vs[Len(vs)].found
           /\ cs2[v.closure].part = Head(vs[Len(vs)].script).part
           /\ Segment(ds, v.declared, us, Number(vs, Len(vs)) + 1)
  PROVE  Told(ds, cs2, ws, us)
<1>. DEFINE n == Len(vs)
            k == v.closure
<1>1. n \in Nat /\ k \in Nat
  BY DEF Visits
<1>2. /\ ws \in Seq(Visits) /\ Len(ws) = n + 1 /\ ws[n + 1] = v
      /\ \A i \in 1 .. n : ws[i] = vs[i]
  BY Appended
<1>3. \A i : i \in 1 .. n + 1 <=> i \in 1 .. n \/ i = n + 1
  BY <1>1
<1>4. /\ SameText(ds) /\ MakesAgain(ds) /\ TwiceFor(ds, cs)
      /\ Ended(ds, cs, vs) /\ Distinct(vs) /\ Repeats(ds, cs, vs)
      /\ Links(vs, cs) /\ Segments(ds, vs, srcs)
      /\ \A i \in 1 .. n : Scripted(vs[i]) /\ FoundAt(vs[i], cs)
  BY DEF Told
<1>5. /\ \A c : c \in 1 .. Len(cs2) <=> c \in 1 .. Len(cs) \/ (k # 0 /\ c = k)
      /\ \A c \in 1 .. Len(cs) : cs2[c] = cs[c] /\ c # k
  BY DEF Extends
<1>6. \A c : Visited(ws, c) <=> Visited(vs, c) \/ c = k
  BY <1>2, <1>3 DEF Visited
<1>. HIDE DEF n, k
<1>7. TwiceFor(ds, cs2)
  BY <1>4, <1>5 DEF TwiceFor
<1>8. Ended(ds, cs2, ws)
  <2>1. ASSUME NEW c \in 1 .. Len(cs2)
        PROVE  Defined(ds, c) <=> ~Visited(ws, c)
    <3>1. CASE c \in 1 .. Len(cs)
      BY <1>4, <1>5, <1>6, <3>1 DEF Ended
    <3>2. CASE c \notin 1 .. Len(cs)
      BY <1>5, <1>6, <3>2
    <3>. QED
      BY <3>1, <3>2
  <2>. QED
    BY <2>1 DEF Ended
<1>9. Distinct(ws)
  <2>1. ASSUME NEW i \in 1 .. n + 1, NEW j \in 1 .. n + 1, ws[i].closure # 0,
               ws[i].closure = ws[j].closure
        PROVE  i = j
    <3>1. CASE i \in 1 .. n /\ j \in 1 .. n
      BY <1>2, <1>4, <2>1, <3>1 DEF Distinct, n
    <3>2. \A l \in 1 .. n : ws[l].closure # 0 => ws[l].closure # k
      BY <1>2, <1>5 DEF n
    <3>. QED
      BY <1>2, <1>3, <2>1, <3>1, <3>2 DEF k
  <2>. QED
    BY <1>2, <2>1 DEF Distinct
<1>10. Repeats(ds, cs2, ws)
  <2>1. ASSUME NEW c \in 1 .. Len(cs2), cs2[c].part \in Repeated
        PROVE  Twice(ds, c) \/ Visited(ws, c) \/ \E i \in 1 .. n + 1 : Pending(ws[i], cs2, c)
    <3>1. CASE c \in 1 .. Len(cs)
      <4>1. cs2[c] = cs[c]
        BY <1>5, <3>1
      <4>2. Twice(ds, c) \/ Visited(vs, c) \/ \E i \in 1 .. n : Pending(vs[i], cs, c)
        BY <1>4, <2>1, <3>1, <4>1 DEF Repeats, n
      <4>3. \A i \in 1 .. n : Pending(vs[i], cs, c) => Pending(ws[i], cs2, c)
        BY <1>2, <4>1 DEF Pending
      <4>. QED
        BY <1>3, <1>6, <4>2, <4>3
    <3>2. CASE c \notin 1 .. Len(cs)
      BY <1>5, <1>6, <3>2
    <3>. QED
      BY <3>1, <3>2
  <2>. QED
    BY <1>2, <2>1 DEF Repeats
<1>11. Links(ws, cs2)
  <2>1. ASSUME NEW i \in 1 .. n + 1, NEW j \in 1 .. n + 1, i = j + 1, ws[i].closure # 0
        PROVE  /\ ws[j].script # << >> /\ Head(ws[j].script).do = "accept"
               /\ Head(ws[j].script).part \notin DOMAIN ws[j].found
               /\ cs2[ws[i].closure].part = Head(ws[j].script).part
    <3>1. CASE i = n + 1
      <4>1. j = n /\ ws[i] = v
        BY <1>1, <1>2, <2>1, <3>1
      <4>2. n >= 1 /\ v.closure # 0
        <5>1. j >= 1
          OBVIOUS
        <5>2. v.closure # 0
          BY <2>1, <4>1
        <5>. QED
          BY <4>1, <5>1, <5>2
      <4>3. ws[j] = vs[n]
        BY <1>1, <1>2, <4>1, <4>2
      <4>. QED
        BY <4>1, <4>2, <4>3 DEF n
    <3>2. CASE i # n + 1
      <4>1. i \in 1 .. n /\ j \in 1 .. n
        BY <1>1, <2>1, <3>2
      <4>2. ws[i] = vs[i] /\ ws[j] = vs[j]
        BY <1>2, <4>1
      <4>3. cs2[ws[i].closure] = cs[vs[i].closure]
        BY <1>5, <2>1, <4>1, <4>2 DEF n
      <4>. QED
        BY <1>4, <2>1, <4>1, <4>2, <4>3 DEF Links, n
    <3>. QED
      BY <3>1, <3>2
  <2>. QED
    BY <1>2, <2>1 DEF Links
<1>12. Segments(ds, ws, us)
  <2>1. ASSUME NEW i \in 1 .. n + 1, ws[i].closure # 0
        PROVE  Segment(ds, ws[i].declared, us, Number(ws, i))
    <3>1. \A j \in 1 .. n : ws[j].closure = vs[j].closure
      BY <1>2
    <3>2. \A j \in 0 .. n : Number(ws, j) = Number(vs, j)
      BY <1>1, <3>1, NumbersStay, ZenonT(60)
    <3>3. CASE i \in 1 .. n
      <4>1. vs[i] \in Visits /\ i \in 0 .. n /\ vs[i].declared \in Nat
        <5>1. vs[i] \in Visits
          BY <3>3 DEF n
        <5>2. vs[i].declared \in Nat
          BY <5>1 DEF Visits
        <5>. QED
          BY <3>3, <5>1, <5>2
      <4>2. Number(vs, i) \in 1 .. Len(srcs)
        BY <1>1, <4>1, Numbers DEF n
      <4>3. Segment(ds, vs[i].declared, srcs, Number(vs, i))
        BY <1>2, <1>4, <2>1, <3>3 DEF Segments, n
      <4>4. Segment(ds, vs[i].declared, us, Number(vs, i))
        BY <4>1, <4>2, <4>3 DEF Carried
      <4>. QED
        BY <1>2, <3>2, <3>3, <4>1, <4>4
    <3>4. CASE i = n + 1
      <4>1. ws[i] = v /\ v.closure # 0
        BY <1>2, <2>1, <3>4
      <4>2. PICK l : l = n + 1
        OBVIOUS
      <4>3. l \in Nat /\ l # 0 /\ l - 1 = n /\ l = i
        BY <1>1, <3>4, <4>2
      <4>4. Number(ws, l) = Number(ws, l - 1) + 1
        <5>1. ws[l].closure # 0
          BY <4>1, <4>3
        <5>2. Number(ws, l) = Number(ws, l - 1) + (IF ws[l].closure # 0 THEN 1 ELSE 0)
          BY <4>3, Numbers
        <5>. QED
          BY <5>1, <5>2
      <4>5. Number(ws, l - 1) = Number(vs, n)
        BY <1>1, <3>2, <4>3
      <4>6. Number(ws, i) = Number(vs, n) + 1
        BY <4>3, <4>4, <4>5
      <4>. QED
        BY <4>1, <4>6 DEF n
    <3>. QED
      BY <1>3, <3>3, <3>4
  <2>. QED
    BY <1>2, <2>1 DEF Segments
<1>13. Scripted(v) /\ FoundAt(v, cs2)
  <2>1. PICK ps, rs : Lists(v.script, ps, rs) /\ \A p : p \in rs <=> p \in ps \cap Repeated
    BY DEF Fair
  <2>2. Scripted(v)
    BY <2>1 DEF Lists, Scripted
  <2>. QED
    BY <2>2 DEF FoundAt
<1>14. ASSUME NEW i \in 1 .. n + 1
       PROVE  Scripted(ws[i]) /\ FoundAt(ws[i], cs2)
  <2>1. CASE i \in 1 .. n
    <3>1. Scripted(vs[i]) /\ FoundAt(vs[i], cs) /\ ws[i] = vs[i]
      BY <1>2, <1>4, <2>1
    <3>2. FoundAt(vs[i], cs2)
      BY <1>5, <3>1 DEF FoundAt
    <3>. QED
      BY <3>1, <3>2
  <2>. QED
    BY <1>2, <1>3, <1>13, <2>1
<1>. QED
  BY <1>2, <1>4, <1>7, <1>8, <1>9, <1>10, <1>11, <1>12, <1>14 DEF Told

\* The innermost visit ends, not one to a closure.
LEMMA PopTells ==
  ASSUME NEW ds, NEW cs, NEW vs \in Seq(Visits), NEW srcs, NEW us, NEW ws,
         Told(ds, cs, vs, srcs), Len(srcs) = Number(vs, Len(vs)), Len(vs) >= 1,
         vs[Len(vs)].closure = 0, vs[Len(vs)].script = << >>,
         Carried(ds, srcs, ds, us, Len(srcs)), ws = Front(vs)
  PROVE  Told(ds, cs, ws, us)
<1>. DEFINE n == Len(vs)
            p == n - 1
<1>1. n \in Nat /\ p \in Nat /\ p \in 0 .. n /\ p <= n
      /\ \A i : i \in 1 .. n <=> i \in 1 .. p \/ i = n
  OBVIOUS
<1>2. ws \in Seq(Visits) /\ Len(ws) = p /\ \A i \in 1 .. p : ws[i] = vs[i]
  BY Taken
<1>3. /\ SameText(ds) /\ MakesAgain(ds) /\ TwiceFor(ds, cs)
      /\ Ended(ds, cs, vs) /\ Distinct(vs) /\ Repeats(ds, cs, vs)
      /\ Links(vs, cs) /\ Segments(ds, vs, srcs)
      /\ \A i \in 1 .. n : Scripted(vs[i]) /\ FoundAt(vs[i], cs)
  BY DEF Told
<1>4. vs[n].closure = 0 /\ vs[n].script = << >>
  OBVIOUS
<1>. HIDE DEF n, p
<1>5. \A c : c # 0 => (Visited(ws, c) <=> Visited(vs, c))
  BY <1>1, <1>2, <1>4 DEF Visited, n
<1>6. \A c \in 1 .. Len(cs) : c # 0
  OBVIOUS
<1>7. Ended(ds, cs, ws)
  BY <1>3, <1>5, <1>6 DEF Ended
<1>8. Distinct(ws)
  BY <1>1, <1>2, <1>3 DEF Distinct, n
<1>9. Repeats(ds, cs, ws)
  <2>1. ASSUME NEW c \in 1 .. Len(cs), cs[c].part \in Repeated
        PROVE  Twice(ds, c) \/ Visited(ws, c) \/ \E i \in 1 .. p : Pending(ws[i], cs, c)
    <3>1. Twice(ds, c) \/ Visited(vs, c) \/ \E i \in 1 .. n : Pending(vs[i], cs, c)
      BY <1>3, <2>1 DEF Repeats, n
    <3>2. ~Pending(vs[n], cs, c)
      BY <1>4 DEF Pending, Accepts
    <3>. QED
      BY <1>1, <1>2, <1>5, <1>6, <3>1, <3>2
  <2>. QED
    BY <1>2, <2>1 DEF Repeats
<1>10. Links(ws, cs)
  BY <1>1, <1>2, <1>3, SMTT(30) DEF Links, n
<1>11. Segments(ds, ws, us)
  <2>1. \A i \in 1 .. p : ws[i].closure = vs[i].closure /\ ws[i].declared = vs[i].declared
    BY <1>2
  <2>2. Carried(ds, srcs, ds, us, Number(vs, p))
    <3>1. Number(vs, p) \in 1 .. Number(vs, n) /\ Number(vs, n) \in Nat
      BY <1>1, Numbers
    <3>2. 1 .. Number(vs, p) \subseteq 1 .. Number(vs, n)
      BY <3>1
    <3>. QED
      BY <3>2 DEF Carried, n
  <2>3. Segments(ds, vs, srcs) /\ ws \in Seq(Visits) /\ Len(ws) = p /\ Len(ws) <= Len(vs)
    BY <1>1, <1>2, <1>3 DEF n
  <2>. QED
    BY <2>1, <2>2, <2>3, SegmentsStay
<1>. QED
  BY <1>1, <1>2, <1>3, <1>7, <1>8, <1>9, <1>10, <1>11 DEF Told

\* The visit to a closure ends, and its function is declared: since the other
\* visits began, those closures have been declared that were made.
LEMMA SegmentsClose ==
  ASSUME NEW ds \in Seq(Declarations), NEW vs \in Seq(Visits), NEW ws \in Seq(Visits),
         NEW srcs \in Seq(Sources), NEW d \in Declarations, NEW u,
         Segments(ds, vs, srcs), Len(srcs) = Number(vs, Len(vs)), Len(vs) >= 1,
         vs[Len(vs)].closure # 0, Len(ws) = Len(vs) - 1,
         \A i \in 1 .. Len(ws) : /\ ws[i].closure = vs[i].closure
                                 /\ ws[i].declared = vs[i].declared,
         d.is = "closure", d.of # 0, d.text = srcs[Len(srcs)].lines,
         srcs[Len(srcs)].stream = << >>, MakesToo(u, srcs[Len(srcs) - 1], d.of)
  PROVE  /\ Segments(ds \o <<d>>, ws, [Front(srcs) EXCEPT ![Len(srcs) - 1] = u])
         /\ LET es == ds \o <<d>>
                added == SubSeq(es, vs[Len(vs)].declared + 1, Len(es))
            IN  \A c : Defined(added, c) <=> c = d.of \/ MakesBehind(added, 0, c)
<1>. DEFINE n == Len(vs)
            p == Len(ws)
            m == Len(srcs)
            es == ds \o <<d>>
            us == [Front(srcs) EXCEPT ![m - 1] = u]
<1>1. n \in Nat /\ p \in Nat /\ p = n - 1 /\ n # 0 /\ n \in 1 .. n /\ p <= n
  OBVIOUS
<1>2. /\ m >= 2 /\ Number(vs, p) = m - 1 /\ m \in Nat
  <2>1. Number(vs, n) = Number(vs, n - 1) + 1
    <3>1. Number(vs, n) = Number(vs, n - 1) + (IF vs[n].closure # 0 THEN 1 ELSE 0)
      BY <1>1, Numbers
    <3>. QED
      BY <3>1
  <2>2. Number(vs, p) \in Nat
    BY <1>1, Numbers
  <2>3. Number(vs, p) \in 1 .. Number(vs, p)
    BY <1>1, Numbers
  <2>4. Number(vs, p) >= 1
    BY <2>2, <2>3
  <2>5. m = Number(vs, p) + 1
    BY <1>1, <2>1
  <2>. HIDE DEF m, p
  <2>. QED
    BY <2>2, <2>4, <2>5
<1>3. ASSUME NEW l \in Nat, NEW j \in Nat, Segment(ds, l, srcs, j)
      PROVE  /\ j <= m - 1 => Segment(es, l, us, j)
             /\ j = m =>
                  LET added == SubSeq(es, l + 1, Len(es)) IN
                  \A c : Defined(added, c) <=> c = d.of \/ MakesBehind(added, 0, c)
  BY <1>2, <1>3, SegmentEnds
<1>4. \A c : LET added == SubSeq(es, vs[n].declared + 1, Len(es)) IN
             Defined(added, c) <=> c = d.of \/ MakesBehind(added, 0, c)
  <2>1. vs[n].declared \in Nat
    <3>1. vs[n] \in Visits
      BY <1>1
    <3>. QED
      BY <3>1 DEF Visits
  <2>2. Segment(ds, vs[n].declared, srcs, m)
    BY <1>1 DEF Segments
  <2>. QED
    BY <1>2, <1>3, <2>1, <2>2
<1>5. Carried(ds, srcs, es, us, Number(vs, p))
  <2>. HIDE DEF es, us, m, p
  <2>1. ASSUME NEW l \in Nat, NEW j \in 1 .. m - 1, Segment(ds, l, srcs, j)
        PROVE  Segment(es, l, us, j)
    <3>1. j \in Nat /\ j <= m - 1
      BY <1>2
    <3>. QED
      BY <1>3, <2>1, <3>1
  <2>. QED
    BY <1>2, <2>1 DEF Carried
<1>. HIDE DEF es, us, m
<1>6. Segments(es, ws, us)
  BY <1>1, <1>5, SegmentsStay
<1>. QED
  BY <1>4, <1>6 DEF es, us, m

\* The last of the visits ends, and the one around it goes on.
LEMMA LastReplaced ==
  ASSUME NEW vs \in Seq(Visits), Len(vs) >= 2, NEW w \in Visits
  PROVE  LET ws == [Front(vs) EXCEPT ![Len(vs) - 1] = w] IN
         /\ ws \in Seq(Visits) /\ Len(ws) = Len(vs) - 1
         /\ \A i \in 1 .. Len(vs) - 1 : ws[i] = IF i = Len(vs) - 1 THEN w ELSE vs[i]
<1>. DEFINE p == Len(vs) - 1
            f == Front(vs)
<1>1. f \in Seq(Visits) /\ Len(f) = p /\ \A i \in 1 .. p : f[i] = vs[i]
  BY Taken
<1>2. p \in 1 .. Len(f)
  BY <1>1
<1>. HIDE DEF f, p
<1>3. /\ [f EXCEPT ![p] = w] \in Seq(Visits) /\ Len([f EXCEPT ![p] = w]) = Len(f)
      /\ \A i \in 1 .. Len(f) : [f EXCEPT ![p] = w][i] = IF i = p THEN w ELSE f[i]
  BY <1>1, <1>2, Replaced
<1>4. /\ [f EXCEPT ![p] = w] \in Seq(Visits) /\ Len([f EXCEPT ![p] = w]) = p
      /\ \A i \in 1 .. p : [f EXCEPT ![p] = w][i] = IF i = p THEN w ELSE vs[i]
  BY <1>1, <1>3
<1>. QED
  BY <1>4 DEF f, p

\* Declaration d ends v, the last visit of vs, and w follows x, the visit around
\* it, that finds e; ws and us are the visits and sources then.
ClosesInside(ds, cs, vs, v, x, w, d, e, us, ws) ==
  /\ ds \in Seq(Declarations) /\ vs \in Seq(Visits) /\ w \in Visits /\ d \in Declarations
  /\ ws \in Seq(Visits) /\ Len(vs) >= 2 /\ v = vs[Len(vs)] /\ x = vs[Len(vs) - 1]
  /\ v.closure \in 1 .. Len(cs) /\ v.script = << >> /\ d.is = "closure" /\ d.of = v.closure
  /\ Segments(ds \o <<d>>, ws, us) /\ e.closure = v.closure /\ WholeOf(e)
  /\ w.closure = x.closure /\ w.script = Tail(x.script)
  /\ \A p : p \in DOMAIN w.found <=> p \in DOMAIN x.found \/ p = Head(x.script).part
  /\ \A p \in DOMAIN w.found : w.found[p] = IF p = Head(x.script).part THEN e ELSE x.found[p]
  /\ Len(ws) = Len(vs) - 1
  /\ \A i \in 1 .. Len(vs) - 1 : ws[i] = IF i = Len(vs) - 1 THEN w ELSE vs[i]

\* The visit to a closure ends: its function is declared, and the visit around
\* it goes on.
LEMMA CloseTells ==
  ASSUME NEW ds, NEW cs, NEW vs, NEW srcs, NEW v, NEW x, NEW w, NEW d, NEW e, NEW us, NEW ws,
         Told(ds, cs, vs, srcs), ClosesInside(ds, cs, vs, v, x, w, d, e, us, ws)
  PROVE  Told(ds \o <<d>>, cs, ws, us)
<1>. USE DEF ClosesInside
<1>. DEFINE n == Len(vs)
            p == n - 1
            k == v.closure
            es == ds \o <<d>>
            q == Head(x.script).part
<1>1. /\ n \in Nat /\ p \in Nat /\ p # n /\ n # 0 /\ n = p + 1
      /\ n \in 1 .. n /\ p \in 1 .. p /\ p \in 1 .. n
      /\ \A i : i \in 1 .. n <=> i \in 1 .. p \/ i = n
  OBVIOUS
<1>1a. p \in 0 .. p /\ \A i \in 1 .. p : i \in 1 .. n /\ i # n /\ i \in 0 .. p
  OBVIOUS
<1>2. v \in Visits /\ x \in Visits /\ k # 0
  OBVIOUS
<1>3. /\ ws \in Seq(Visits) /\ Len(ws) = p
      /\ \A i \in 1 .. p : ws[i] = IF i = p THEN w ELSE vs[i]
  OBVIOUS
<1>4. /\ SameText(ds) /\ MakesAgain(ds) /\ TwiceFor(ds, cs)
      /\ Ended(ds, cs, vs) /\ Distinct(vs) /\ Repeats(ds, cs, vs)
      /\ Links(vs, cs) /\ Segments(ds, vs, srcs)
      /\ \A i \in 1 .. n : Scripted(vs[i]) /\ FoundAt(vs[i], cs)
  BY DEF Told
<1>5. /\ x.script # << >> /\ Head(x.script).do = "accept" /\ q \notin DOMAIN x.found
      /\ cs[k].part = q
  <2>1. n \in 1 .. Len(vs) /\ p \in 1 .. Len(vs) /\ n = p + 1 /\ vs[n].closure # 0
        /\ vs[n] = v /\ vs[p] = x
    BY <1>1, <1>2
  <2>2. Links(vs, cs)
    BY <1>4
  <2>. HIDE DEF n, p
  <2>3. /\ vs[p].script # << >> /\ Head(vs[p].script).do = "accept"
        /\ Head(vs[p].script).part \notin DOMAIN vs[p].found
        /\ cs[vs[n].closure].part = Head(vs[p].script).part
    BY <2>1, <2>2 DEF Links
  <2>. QED
    BY <2>1, <2>3
<1>6. v.script = << >> /\ vs[n] = v /\ vs[p] = x
  OBVIOUS
<1>7. \A i \in 1 .. p : ws[i].closure = vs[i].closure
  BY <1>3
<1>8. ~Defined(ds, k)
  <2>1. Visited(vs, k)
    BY <1>1, <1>6 DEF Visited
  <2>. QED
    BY <1>4, <2>1 DEF Ended
<1>9. /\ SameText(es) /\ MakesAgain(es) /\ TwiceFor(es, cs)
      /\ \A c : Twice(es, c) <=> Twice(ds, c)
      /\ \A c : Defined(es, c) <=> Defined(ds, c) \/ c = k
  <2>1. d.is = "closure" => ~Defined(ds, d.of)
    BY <1>8
  <2>2. /\ SameText(ds \o <<d>>) /\ MakesAgain(ds \o <<d>>) /\ TwiceFor(ds \o <<d>>, cs)
        /\ \A c : Twice(ds \o <<d>>, c) <=> Twice(ds, c)
        /\ \A c : Defined(ds \o <<d>>, c) <=> Defined(ds, c) \/ (d.is = "closure" /\ c = d.of)
    BY <1>4, <2>1, DeclaredFirst
  <2>. QED
    BY <2>2
<1>11. \A c : c # 0 => (Visited(ws, c) <=> Visited(vs, c) /\ c # k)
  <2>1. ASSUME NEW c, c # 0, Visited(ws, c)
        PROVE  Visited(vs, c) /\ c # k
    <3>1. PICK i \in 1 .. p : vs[i].closure = c
      BY <1>3, <1>7, <2>1 DEF Visited
    <3>2. i \in 1 .. n /\ i # n
      BY <1>1a
    <3>3. c # k
      BY <1>1, <1>4, <1>6, <2>1, <3>1, <3>2 DEF Distinct
    <3>. QED
      BY <3>1, <3>2, <3>3 DEF Visited
  <2>2. ASSUME NEW c, c # 0, Visited(vs, c), c # k
        PROVE  Visited(ws, c)
    <3>1. PICK i \in 1 .. n : vs[i].closure = c
      BY <2>2 DEF Visited
    <3>2. i \in 1 .. p
      BY <1>1, <1>6, <2>2, <3>1
    <3>. QED
      BY <1>3, <1>7, <3>1, <3>2 DEF Visited
  <2>. QED
    BY <2>1, <2>2
<1>12. \A c \in 1 .. Len(cs) : c # 0
  OBVIOUS
<1>13. q \in DOMAIN w.found /\ w.found[q] = e /\ e.closure = k
  OBVIOUS
<1>14. \A r : r \in DOMAIN w.found <=> r \in DOMAIN x.found \/ Asks(Head(x.script), r)
  BY <1>5 DEF Asks
<1>15. \A r \in DOMAIN x.found : r \in DOMAIN w.found /\ w.found[r] = x.found[r]
  BY <1>5
<1>16. w.script = Tail(x.script)
  OBVIOUS
<1>17. /\ \A r : r \in DOMAIN w.found <=> r \in DOMAIN x.found \/ r = q
       /\ \A r \in DOMAIN w.found : w.found[r] = IF r = q THEN e ELSE x.found[r]
  OBVIOUS
<1>. HIDE DEF n, p, k, q, es
<1>20. Ended(es, cs, ws)
  BY <1>4, <1>9, <1>11, <1>12 DEF Ended
<1>21. Distinct(ws)
  BY <1>1, <1>3, <1>4, <1>7 DEF Distinct, n
<1>22. Repeats(es, cs, ws)
  <2>1. ASSUME NEW c \in 1 .. Len(cs), cs[c].part \in Repeated
        PROVE  Twice(es, c) \/ Visited(ws, c) \/ \E i \in 1 .. p : Pending(ws[i], cs, c)
    <3>1. Twice(ds, c) \/ Visited(vs, c) \/ \E i \in 1 .. n : Pending(vs[i], cs, c)
      BY <1>4, <2>1 DEF Repeats, n
    <3>2. CASE Twice(ds, c) \/ (Visited(vs, c) /\ c # k)
      BY <1>9, <1>11, <1>12, <3>2
    <3>3. CASE c = k
      <4>1. x.script \in Seq(Steps)
        BY <1>2 DEF Visits
      <4>2. Asks(Head(x.script), q)
        BY <1>5 DEF Asks, q
      <4>3. Accepts(x.script, q)
        BY <1>5, <4>1, <4>2, AcceptsHead
      <4>4. AcceptsTwice(x.script, q)
        <5>1. Scripted(x) /\ q \in Repeated
          BY <1>1, <1>4, <1>5, <1>6, <2>1, <3>3
        <5>. QED
          BY <1>5, <4>3, <5>1 DEF Scripted
      <4>5. AcceptsTwice(Tail(x.script), q) \/ Accepts(Tail(x.script), q)
        BY <1>5, <4>1, <4>4, AcceptsHead
      <4>6. Accepts(w.script, q)
        BY <1>16, <4>5 DEF AcceptsTwice, Accepts
      <4>7. Pending(w, cs, c)
        BY <1>5, <1>13, <3>3, <4>6 DEF Pending
      <4>8. ws[p] = w
        BY <1>1, <1>3
      <4>. QED
        BY <1>1, <4>7, <4>8
    <3>4. ASSUME NEW i \in 1 .. n, Pending(vs[i], cs, c)
          PROVE  i \in 1 .. p /\ Pending(ws[i], cs, c)
      <4>1. i # n
        BY <1>6, <3>4, SMTT(30) DEF Pending, Accepts
      <4>2. i \in 1 .. p
        BY <1>1, <4>1
      <4>3. CASE i # p
        BY <1>3, <3>4, <4>2, <4>3
      <4>4. CASE i = p
        <5>1. Pending(x, cs, c)
          BY <1>6, <3>4, <4>4
        <5>2. Pending(w, cs, c) \/ Asks(Head(x.script), cs[c].part)
          BY <1>2, <1>5, <1>15, <1>16, <5>1, PendingGoesOn
        <5>3. cs[c].part # q
          BY <1>5, <5>1 DEF Pending
        <5>4. Pending(w, cs, c)
          BY <5>2, <5>3 DEF Asks, q
        <5>. QED
          BY <1>3, <4>2, <4>4, <5>4
      <4>. QED
        BY <4>2, <4>3, <4>4
    <3>. QED
      BY <3>1, <3>2, <3>3, <3>4
  <2>. QED
    BY <1>3, <2>1 DEF Repeats
<1>23. Links(ws, cs)
  <2>1. ASSUME NEW i \in 1 .. p, NEW j \in 1 .. p, i = j + 1, ws[i].closure # 0
        PROVE  /\ ws[j].script # << >> /\ Head(ws[j].script).do = "accept"
               /\ Head(ws[j].script).part \notin DOMAIN ws[j].found
               /\ cs[ws[i].closure].part = Head(ws[j].script).part
    <3>1. j # p
      BY <1>1, <2>1
    <3>2. ws[j] = vs[j] /\ ws[i].closure = vs[i].closure /\ i \in 1 .. n /\ j \in 1 .. n
      BY <1>1, <1>3, <1>7, <3>1
    <3>3. Links(vs, cs) /\ i \in 1 .. Len(vs) /\ j \in 1 .. Len(vs) /\ vs[i].closure # 0
      BY <1>4, <2>1, <3>2 DEF n
    <3>4. /\ vs[j].script # << >> /\ Head(vs[j].script).do = "accept"
          /\ Head(vs[j].script).part \notin DOMAIN vs[j].found
          /\ cs[vs[i].closure].part = Head(vs[j].script).part
      BY <2>1, <3>3 DEF Links
    <3>. QED
      BY <3>2, <3>4
  <2>. QED
    BY <1>3, <2>1 DEF Links
<1>24. Segments(es, ws, us) /\ WholeOf(e)
  BY DEF es
<1>26. Scripted(w) /\ FoundAt(w, cs)
  <2>1. Scripted(x) /\ FoundAt(x, cs)
    BY <1>1, <1>4, <1>6
  <2>2. Scripted(w)
    BY <1>2, <1>5, <1>14, <1>16, <2>1, ScriptGoesOn
  <2>4. FoundAt(w, cs)
    <3>1. ASSUME NEW r \in DOMAIN w.found
          PROVE  /\ WholeOf(w.found[r])
                 /\ w.found[r].closure # 0 =>
                      /\ w.found[r].closure \in 1 .. Len(cs)
                      /\ cs[w.found[r].closure].part = r
      <4>1. CASE r = q
        BY <1>5, <1>13, <1>24, <4>1 DEF k
      <4>2. CASE r # q
        <5>1. r \in DOMAIN x.found /\ w.found[r] = x.found[r]
          BY <1>17, <4>2
        <5>. QED
          BY <2>1, <5>1 DEF FoundAt
      <4>. QED
        BY <4>1, <4>2
    <3>. QED
      BY <3>1 DEF FoundAt
  <2>. QED
    BY <2>2, <2>4
<1>27. ASSUME NEW i \in 1 .. p
       PROVE  Scripted(ws[i]) /\ FoundAt(ws[i], cs)
  <2>1. CASE i = p
    <3>1. ws[i] = w
      BY <1>3, <2>1
    <3>. QED
      BY <1>26, <3>1
  <2>2. CASE i # p
    <3>1. ws[i] = vs[i] /\ i \in 1 .. n
      BY <1>1a, <1>3, <2>2
    <3>. QED
      BY <1>4, <3>1
  <2>. QED
    BY <2>1, <2>2
<1>. QED
  BY <1>3, <1>9, <1>20, <1>21, <1>22, <1>23, <1>24, <1>27 DEF Told, es

-----------------------------------------------------------------------------
(* The steps keep what makes DefinedOnce inductive. *)

\* The declarations, the closures and the sources that visits write to.
LEMMA TheDeclared ==
  ASSUME IInv
  PROVE  /\ declarations \in Seq(Declarations) /\ visits \in Seq(Visits)
         /\ sources \in Seq(Sources) /\ closures \in Seq(Places)
         /\ Len(sources) = Number(visits, Len(visits)) /\ Len(sources) >= 1
         /\ \A c : Defined(declarations, c) => c \in 1 .. Len(closures)
         /\ \A i \in 1 .. Len(visits) :
              visits[i].closure # 0 => visits[i].closure \in 1 .. Len(closures)
<1>1. /\ declarations \in Seq(Declarations) /\ visits \in Seq(Visits)
      /\ sources \in Seq(Sources) /\ closures \in Seq(Places)
  BY DEF IInv, Typed
<1>2. Len(sources) = Number(visits, Len(visits)) /\ Len(sources) >= 1
  BY SourceOnTop DEF IInv, SourcesFollow, Number
<1>3. \A c : Defined(declarations, c) => c \in 1 .. Len(closures)
  BY DEF IInv, FunctionsFollow, Defined, Defines
<1>4. \A i \in 1 .. Len(visits) :
        visits[i].closure # 0 => visits[i].closure \in 1 .. Len(closures)
  BY DEF IInv, Knows
<1>. QED
  BY <1>1, <1>2, <1>3, <1>4

\* The innermost visit takes a step that is not to an expression, and the last
\* source makes no more.
LEMMA QuietStepTells ==
  ASSUME IInv, OInv, visits # << >>, Top(visits).script # << >>, NextStep.do # "accept",
         visits' = Advanced, closures' = closures, declarations' = declarations,
         NEW u, MakesToo(u, sources[Len(sources)], 0),
         sources' = [sources EXCEPT ![Len(sources)] = u]
  PROVE  OInv'
<1>1. PICK w \in Visits :
        /\ w.closure = Top(visits).closure /\ w.declared = Top(visits).declared
        /\ w.found = Top(visits).found /\ w.script = Tail(Top(visits).script)
        /\ Advanced = [visits EXCEPT ![Len(visits)] = w]
  BY TopAdvances
<1>2. PICK v : v = Top(visits)
  OBVIOUS
<1>3. /\ v = visits[Len(visits)] /\ Len(visits) >= 1 /\ Len(visits) \in 1 .. Len(visits)
  BY <1>2, InnermostVisit
<1>4. Told(declarations, closures, visits, sources)
  BY DEF OInv
<1>5. \A p : ~Asks(Head(v.script), p)
  BY <1>2 DEF Asks, NextStep
<1>6. FoundAt(w, closures)
  <2>1. FoundAt(v, closures)
    BY <1>3, <1>4 DEF Told
  <2>. QED
    BY <1>1, <1>2, <2>1 DEF FoundAt
<1>7. PICK us : us = [sources EXCEPT ![Len(sources)] = u]
  OBVIOUS
<1>8. Carried(declarations, sources, declarations, us, Len(sources))
  <2>1. ASSUME NEW n \in Nat, NEW m \in 1 .. Len(sources), Segment(declarations, n, sources, m)
        PROVE  Segment(declarations, n, us, m)
    <3>1. m \in Nat /\ m <= Len(sources)
      OBVIOUS
    <3>. QED
      BY <1>7, <2>1, <3>1, TheDeclared, SegmentStays
  <2>. QED
    BY <2>1 DEF Carried
<1>9. PICK ws : ws = [visits EXCEPT ![Len(visits)] = w]
  OBVIOUS
<1>10. Told(declarations, closures, ws, us)
  <2>1. /\ SameText(declarations) /\ MakesAgain(declarations)
        /\ TwiceFor(declarations, closures)
    BY <1>4 DEF Told
  <2>2. /\ w.closure = v.closure /\ w.declared = v.declared /\ w.script = Tail(v.script)
        /\ v.script # << >> /\ \A p \in DOMAIN v.found : w.found[p] = v.found[p]
        /\ \A p : p \in DOMAIN w.found <=> p \in DOMAIN v.found \/ Asks(Head(v.script), p)
        /\ \A p \in DOMAIN v.found : Asks(Head(v.script), p) /\ v.found[p].closure # 0 =>
                                     Twice(declarations, v.found[p].closure)
    BY <1>1, <1>2, <1>5
  <2>3. StepsOn(declarations, declarations, closures, visits, v, w)
    BY <1>3, <1>6, <2>1, <2>2, TheDeclared DEF StepsOn
  <2>. QED
    BY <1>4, <1>8, <1>9, <2>3, TheDeclared, StepTells
<1>11. visits' = ws /\ sources' = us
  BY <1>1, <1>7, <1>9
<1>. QED
  BY <1>10, <1>11 DEF OInv

\* A step that only writes.
LEMMA WriteTells ==
  ASSUME IInv, OInv, Write
  PROVE  OInv'
<1>1. /\ visits # << >> /\ Top(visits).script # << >> /\ NextStep.do \in Writing
      /\ sources' = [sources EXCEPT ![Len(sources)] =
                       Written(sources[Len(sources)], NextStep)]
      /\ visits' = Advanced /\ declarations' = declarations /\ closures' = closures
  BY DEF Write, Visiting
<1>2. NextStep.do # "accept"
  BY <1>1 DEF Writing
<1>3. NextStep \in Steps
  BY <1>1, InnermostVisit
<1>4. sources[Len(sources)] \in Sources
  BY SourceOnTop DEF IInv, Typed
<1>5. PICK u : u = Written(sources[Len(sources)], NextStep)
  OBVIOUS
<1>6. MakesToo(u, sources[Len(sources)], 0)
  BY <1>1, <1>3, <1>4, <1>5, WrittenMakes
<1>. QED
  BY <1>1, <1>2, <1>5, <1>6, QuietStepTells

\* The end of children.
LEMMA EndChildrenTells ==
  ASSUME IInv, OInv, EndChildren
  PROVE  OInv'
<1>1. /\ visits # << >> /\ Top(visits).script # << >> /\ NextStep.do = "visitChildren"
      /\ sources' = sources
      /\ visits' = Advanced /\ declarations' = declarations /\ closures' = closures
  BY DEF EndChildren, Visiting
<1>2. sources \in Seq(Sources) /\ sources[Len(sources)] \in Sources
  BY SourceOnTop DEF IInv, Typed
<1>3. PICK u : u = sources[Len(sources)]
  OBVIOUS
<1>4. MakesToo(u, sources[Len(sources)], 0) /\ sources' = [sources EXCEPT ![Len(sources)] = u]
  BY <1>1, <1>2, <1>3 DEF MakesToo
<1>. QED
  BY <1>1, <1>4, QuietStepTells

\* A visit to a statement, or to a function, begins.
LEMMA VisitTells ==
  ASSUME IInv, OInv, NEW script \in Seq(Steps), Fair(script), NEW statement \in BOOLEAN,
         NEW ds, SameText(ds), MakesAgain(ds), TwiceFor(ds, closures),
         ds = declarations \/ visits = << >>,
         \A c : Twice(ds, c) <=> Twice(declarations, c),
         \A c : Defined(ds, c) <=> Defined(declarations, c),
         declarations' = ds, visits' = Append(visits, Visit(script, statement, 0)),
         sources' = sources, closures' = closures
  PROVE  OInv'
<1>1. Told(declarations, closures, visits, sources)
  BY DEF OInv
<1>2. PICK v \in Visits :
        /\ v.script = script /\ v.closure = 0 /\ DOMAIN v.found = {}
        /\ v = Visit(script, statement, 0)
  BY NewVisit DEF Visit
<1>3. Told(ds, closures, visits, sources)
  <2>1. CASE ds = declarations
    BY <1>1, <2>1
  <2>2. CASE visits = << >>
    <3>1. 1 .. Len(visits) = {}
      BY <2>2
    <3>2. Ended(ds, closures, visits) /\ Repeats(ds, closures, visits)
      BY <1>1 DEF Told, Ended, Repeats
    <3>3. Links(visits, closures) /\ Segments(ds, visits, sources)
      BY <3>1 DEF Links, Segments
    <3>. QED
      BY <1>1, <3>1, <3>2, <3>3 DEF Told
  <2>. QED
    BY <2>1, <2>2
<1>4. Extends(closures, closures, v.closure)
  <2>1. Len(closures) \in Nat /\ \A c \in 1 .. Len(closures) : c # 0
    BY TheDeclared
  <2>. QED
    BY <1>2, <2>1 DEF Extends
<1>5. Carried(ds, sources, ds, sources, Len(sources))
  BY DEF Carried
<1>6. PICK ws : ws = Append(visits, v)
  OBVIOUS
<1>7. Told(ds, closures, ws, sources)
  <2>1. Fair(v.script) /\ \A c : Defined(ds, c) => c \in 1 .. Len(closures)
    BY <1>2, TheDeclared
  <2>. QED
    BY <1>2, <1>3, <1>4, <1>5, <1>6, <2>1, TheDeclared, PushTells
<1>8. visits' = ws
  BY <1>2, <1>6
<1>. QED
  BY <1>7, <1>8 DEF OInv

\* A statement begins.
LEMMA BeginStatementTells ==
  ASSUME IInv, OInv, NEW node \in Statements, BeginStatement(node)
  PROVE  OInv'
<1>1. /\ visits' = Append(visits, Visit(node.script, node.statement, 0))
      /\ sources' = sources /\ declarations' = declarations /\ closures' = closures
  BY DEF BeginStatement
<1>2. node.script \in Seq(Steps) /\ node.statement \in BOOLEAN /\ Fair(node.script)
  BY ScriptsAreScripts, NodesAreFair
<1>3. /\ SameText(declarations) /\ MakesAgain(declarations)
      /\ TwiceFor(declarations, closures)
  BY DEF OInv, Told
<1>. QED
  BY <1>1, <1>2, <1>3, VisitTells

\* A function begins.
LEMMA FunctionDefinitionTells ==
  ASSUME IInv, OInv, NEW hidden \in BOOLEAN, FunctionDefinition(hidden)
  PROVE  OInv'
<1>1. PICK d : d = Declared("prototype", Len(private'), Text)
  OBVIOUS
<1>2. /\ visits = << >> /\ private' = Append(private, hidden)
      /\ declarations' = IF hidden THEN Append(declarations, d) ELSE declarations
      /\ visits' = <<Visit(FunctionDefinitionNode, FALSE, 0)>>
      /\ sources' = sources /\ closures' = closures
  BY <1>1 DEF FunctionDefinition
<1>3. d \in Declarations /\ d.is = "prototype"
  <2>1. private' \in Seq(BOOLEAN)
    BY <1>2 DEF IInv, Typed
  <2>2. Len(private') \in Nat /\ << >> \in Seq(Pieces)
    BY <2>1
  <2>. QED
    BY <1>1, <2>2 DEF Declared, Declarations, Text
<1>4. /\ SameText(declarations) /\ MakesAgain(declarations)
      /\ TwiceFor(declarations, closures)
  BY DEF OInv, Told
<1>5. PICK ds :
        /\ declarations' = ds
        /\ SameText(ds) /\ MakesAgain(ds) /\ TwiceFor(ds, closures)
        /\ \A c : Twice(ds, c) <=> Twice(declarations, c)
        /\ \A c : Defined(ds, c) <=> Defined(declarations, c)
  <2>1. CASE hidden
    <3>1. PICK ds : ds = declarations \o <<d>>
      OBVIOUS
    <3>2. d.is # "closure"
      BY <1>3
    <3>3. /\ SameText(ds) /\ MakesAgain(ds) /\ TwiceFor(ds, closures)
          /\ \A c : Twice(ds, c) <=> Twice(declarations, c)
          /\ \A c : Defined(ds, c) <=> Defined(declarations, c) \/ (d.is = "closure" /\ c = d.of)
      BY <1>3, <1>4, <3>1, <3>2, TheDeclared, DeclaredFirst
    <3>4. declarations' = ds
      BY <1>2, <1>3, <2>1, <3>1, TheDeclared
    <3>. QED
      BY <3>2, <3>3, <3>4
  <2>2. CASE ~hidden
    BY <1>2, <1>4, <2>2
  <2>. QED
    BY <2>1, <2>2
<1>6. visits' = Append(visits, Visit(FunctionDefinitionNode, FALSE, 0))
  <2>1. PICK v : v = Visit(FunctionDefinitionNode, FALSE, 0)
    OBVIOUS
  <2>2. Append(<< >>, v) = <<v>>
    OBVIOUS
  <2>. QED
    BY <1>2, <2>1, <2>2
<1>7. PICK no \in BOOLEAN : no = FALSE
  OBVIOUS
<1>8. FunctionDefinitionNode \in Seq(Steps) /\ Fair(FunctionDefinitionNode)
  BY ScriptsAreScripts, NodesAreFair
<1>9. visits' = Append(visits, Visit(FunctionDefinitionNode, no, 0))
  BY <1>6, <1>7
<1>. QED
  BY <1>2, <1>5, <1>8, <1>9, VisitTells

\* A statement ends.
LEMMA EndStatementTells ==
  ASSUME IInv, OInv, EndStatement
  PROVE  OInv'
<1>1. /\ Len(visits) > 1 /\ Top(visits).script = << >> /\ Top(visits).closure = 0
      /\ sources' = IF Top(visits).statement
           THEN [sources EXCEPT ![Len(sources)] = printLine(sources[Len(sources)], Text)]
           ELSE sources
      /\ visits' = Front(visits) /\ declarations' = declarations /\ closures' = closures
  BY DEF EndStatement
<1>2. visits # << >> /\ Len(visits) >= 1 /\ Top(visits) = visits[Len(visits)]
  BY <1>1, TheDeclared DEF Top
<1>3. PICK us : us = sources'
  OBVIOUS
<1>4. Carried(declarations, sources, declarations, us, Len(sources))
  <2>1. CASE Top(visits).statement
    <3>1. PICK u : u = printLine(sources[Len(sources)], Text)
      OBVIOUS
    <3>2. MakesToo(u, sources[Len(sources)], 0)
      <4>1. Text \in Seq(Pieces) /\ (\A c : ~Makes(Text, c)) /\ sources[Len(sources)] \in Sources
        BY TheDeclared DEF Text, Makes
      <4>2. MakesWith(u, sources[Len(sources)], Text)
        BY <3>1, <4>1, OperationsMake
      <4>. QED
        BY <4>1, <4>2 DEF MakesWith, MakesToo
    <3>3. us = [sources EXCEPT ![Len(sources)] = u]
      BY <1>1, <1>3, <2>1, <3>1
    <3>4. ASSUME NEW n \in Nat, NEW m \in 1 .. Len(sources), Segment(declarations, n, sources, m)
          PROVE  Segment(declarations, n, us, m)
      <4>1. m \in Nat /\ m <= Len(sources)
        OBVIOUS
      <4>. QED
        BY <3>2, <3>3, <3>4, <4>1, TheDeclared, SegmentStays
    <3>. QED
      BY <3>4 DEF Carried
  <2>2. CASE ~Top(visits).statement
    <3>1. us = sources
      BY <1>1, <1>3, <2>2
    <3>. QED
      BY <3>1 DEF Carried
  <2>. QED
    BY <2>1, <2>2
<1>5. PICK ws : ws = Front(visits)
  OBVIOUS
<1>6. Told(declarations, closures, ws, us)
  BY <1>1, <1>2, <1>4, <1>5, TheDeclared, PopTells DEF OInv
<1>7. visits' = ws /\ sources' = us
  BY <1>1, <1>3, <1>5
<1>. QED
  BY <1>1, <1>6, <1>7 DEF OInv

\* A function ends.
LEMMA EndFunctionTells ==
  ASSUME IInv, OInv, EndFunction
  PROVE  OInv'
<1>1. /\ Len(visits) = 1 /\ Top(visits).script = << >> /\ visits' = << >>
      /\ sources' = sources /\ declarations' = declarations /\ closures' = closures
  BY DEF EndFunction
<1>2. Len(visits) >= 1 /\ Top(visits) = visits[Len(visits)] /\ visits[1].closure = 0
  <2>1. visits[1].closure # 0 => 1 > 1
    BY <1>1 DEF IInv, CallersWait
  <2>. QED
    BY <1>1, <2>1 DEF Top
<1>3. Carried(declarations, sources, declarations, sources, Len(sources))
  BY DEF Carried
<1>4. PICK ws : ws = Front(visits)
  OBVIOUS
<1>5. Told(declarations, closures, ws, sources)
  BY <1>1, <1>2, <1>3, <1>4, TheDeclared, PopTells DEF OInv
<1>6. visits' = ws
  BY <1>1, <1>4, TheDeclared DEF Front
<1>. QED
  BY <1>1, <1>5, <1>6 DEF OInv

\* An expression without a closure.
LEMMA PlainExpressionTells ==
  ASSUME IInv, OInv, NEW call \in 0 .. MaxFunctions, PlainExpression(call)
  PROVE  OInv'
<1>1. PICK e : e = Found(0, call, << >>)
  OBVIOUS
<1>2. /\ visits # << >> /\ Top(visits).script # << >> /\ NextStep.do = "accept"
      /\ NextStep.part \notin DOMAIN Top(visits).found
      /\ sources' = [sources EXCEPT ![Len(sources)] =
                       WrittenExpression(sources[Len(sources)], e)]
      /\ visits' = Noted(visits, e)
      /\ declarations' = declarations /\ closures' = closures
  BY <1>1 DEF PlainExpression, Visiting
<1>3. e \in Expressions /\ e.added = << >> /\ e.closure = 0
  BY <1>1, BoundsAssumption DEF Found, Expressions
<1>4. PICK v : v = Top(visits)
  OBVIOUS
<1>5. /\ v = visits[Len(visits)] /\ Len(visits) >= 1 /\ Len(visits) \in 1 .. Len(visits)
      /\ visits \in Seq(Visits) /\ v.script # << >>
  BY <1>2, <1>4, InnermostVisit, TheDeclared
<1>6. PICK w \in Visits :
        /\ w.closure = v.closure /\ w.declared = v.declared /\ w.script = Tail(v.script)
        /\ Noted(visits, e) = [visits EXCEPT ![Len(visits)] = w]
        /\ \A part : part \in DOMAIN w.found <=>
                       part \in DOMAIN v.found \/ part = Head(v.script).part
        /\ \A part \in DOMAIN w.found :
             w.found[part] = IF part = Head(v.script).part THEN e ELSE v.found[part]
  <2>1. Len(visits) >= 1 /\ visits \in Seq(Visits) /\ Top(visits).script # << >>
    BY <1>4, <1>5
  <2>2. PICK w \in Visits :
          /\ w.closure = Top(visits).closure /\ w.statement = Top(visits).statement
          /\ w.declared = Top(visits).declared /\ w.script = Tail(Top(visits).script)
          /\ Noted(visits, e) = [visits EXCEPT ![Len(visits)] = w]
          /\ LET asked == Head(Top(visits).script).part IN
             /\ \A part : part \in DOMAIN w.found <=>
                            part \in DOMAIN Top(visits).found \/ part = asked
             /\ \A part \in DOMAIN w.found :
                  w.found[part] = IF part = asked THEN e ELSE Top(visits).found[part]
    BY <1>3, <2>1, TopNotes
  <2>. QED
    BY <1>4, <2>2
<1>7. Told(declarations, closures, visits, sources)
  BY DEF OInv
<1>8. /\ Head(v.script).part \notin DOMAIN v.found
      /\ \A p : Asks(Head(v.script), p) <=> p = Head(v.script).part
  BY <1>2, <1>4 DEF Asks, NextStep
<1>9. FoundAt(w, closures)
  <2>1. FoundAt(v, closures)
    BY <1>5, <1>7 DEF Told
  <2>2. WholeOf(e) /\ e.closure = 0
    BY <1>3 DEF WholeOf
  <2>3. ASSUME NEW part \in DOMAIN w.found
        PROVE  \/ w.found[part] = e
               \/ part \in DOMAIN v.found /\ w.found[part] = v.found[part]
    BY <1>6
  <2>. QED
    BY <2>1, <2>2, <2>3 DEF FoundAt
<1>10. PICK u : u = WrittenExpression(sources[Len(sources)], e)
  OBVIOUS
<1>11. PICK us : us = [sources EXCEPT ![Len(sources)] = u]
  OBVIOUS
<1>12. Carried(declarations, sources, declarations, us, Len(sources))
  <2>1. MakesToo(u, sources[Len(sources)], 0)
    <3>1. sources[Len(sources)] \in Sources
      BY TheDeclared
    <3>. QED
      BY <1>3, <1>10, <3>1, ExpressionMakes
  <2>2. ASSUME NEW n \in Nat, NEW m \in 1 .. Len(sources), Segment(declarations, n, sources, m)
        PROVE  Segment(declarations, n, us, m)
    <3>1. m \in Nat /\ m <= Len(sources)
      OBVIOUS
    <3>. QED
      BY <1>11, <2>1, <2>2, <3>1, TheDeclared, SegmentStays
  <2>. QED
    BY <2>2 DEF Carried
<1>13. PICK ws : ws = [visits EXCEPT ![Len(visits)] = w]
  OBVIOUS
<1>14. Told(declarations, closures, ws, us)
  <2>1. /\ SameText(declarations) /\ MakesAgain(declarations)
        /\ TwiceFor(declarations, closures)
    BY <1>7 DEF Told
  <2>2. /\ w.closure = v.closure /\ w.declared = v.declared /\ w.script = Tail(v.script)
        /\ v.script # << >> /\ v = visits[Len(visits)] /\ Len(visits) >= 1
        /\ \A p \in DOMAIN v.found : w.found[p] = v.found[p]
        /\ \A p : p \in DOMAIN w.found <=> p \in DOMAIN v.found \/ Asks(Head(v.script), p)
        /\ \A p \in DOMAIN v.found : Asks(Head(v.script), p) /\ v.found[p].closure # 0 =>
                                     Twice(declarations, v.found[p].closure)
    BY <1>5, <1>6, <1>8
  <2>3. StepsOn(declarations, declarations, closures, visits, v, w)
    BY <1>9, <2>1, <2>2, TheDeclared DEF StepsOn
  <2>. QED
    BY <1>7, <1>12, <1>13, <2>3, TheDeclared, StepTells
<1>15. visits' = ws /\ sources' = us
  BY <1>2, <1>6, <1>10, <1>11, <1>13
<1>. QED
  BY <1>2, <1>14, <1>15 DEF OInv

\* An expression once more.
LEMMA ExpressionAgainTells ==
  ASSUME IInv, BInv, OInv, ExpressionAgain
  PROVE  OInv'
<1>1. PICK e : e = Top(visits).found[NextStep.part]
  OBVIOUS
<1>2. /\ visits # << >> /\ Top(visits).script # << >> /\ NextStep.do = "accept"
      /\ NextStep.part \in DOMAIN Top(visits).found
      /\ sources' = [sources EXCEPT ![Len(sources)] =
                       WrittenExpression(sources[Len(sources)], e)]
      /\ visits' = Advanced
      /\ declarations' = declarations \o e.added /\ closures' = closures
  BY <1>1 DEF ExpressionAgain, Visiting
<1>3. PICK w \in Visits :
        /\ w.closure = Top(visits).closure /\ w.declared = Top(visits).declared
        /\ w.found = Top(visits).found /\ w.script = Tail(Top(visits).script)
        /\ Advanced = [visits EXCEPT ![Len(visits)] = w]
  BY <1>2, TopAdvances
<1>4. PICK v : v = Top(visits)
  OBVIOUS
<1>5. PICK q : q = Head(v.script).part
  BY SMTT(30)
<1>6. /\ v = visits[Len(visits)] /\ Len(visits) >= 1 /\ Len(visits) \in 1 .. Len(visits)
      /\ v \in Visits /\ v.script # << >> /\ q \in DOMAIN v.found /\ v.found[q] = e
  BY <1>1, <1>2, <1>4, <1>5, InnermostVisit, ZenonT(60) DEF NextStep
<1>7. Told(declarations, closures, visits, sources)
  BY DEF OInv
<1>8. \A p : Asks(Head(v.script), p) <=> p = q
  BY <1>2, <1>4, <1>5 DEF Asks, NextStep
<1>9. Scripted(v) /\ FoundAt(v, closures)
  BY <1>6, <1>7 DEF Told
<1>10. /\ WholeOf(e)
       /\ e.closure # 0 => e.closure \in 1 .. Len(closures) /\ closures[e.closure].part = q
  BY <1>6, <1>9 DEF FoundAt
<1>11. e \in Expressions /\ Declares(declarations, e)
  <2>1. v.found \in Findings
    BY <1>6 DEF Visits
  <2>2. e \in Expressions
    BY <1>6, <2>1, FoundExpression
  <2>3. Declares(declarations, e)
    BY <1>6 DEF BInv, AddedDeclared
  <2>. QED
    BY <2>2, <2>3
<1>12. q \in Repeated
  <2>1. v.script \in Seq(Steps)
    BY <1>6 DEF Visits
  <2>2. Accepts(v.script, q)
    BY <1>6, <1>8, <2>1, AcceptsHead
  <2>. QED
    BY <1>6, <1>9, <2>2 DEF Scripted
<1>13. PICK es : es = declarations \o e.added
  OBVIOUS
<1>14. /\ SameText(declarations) /\ MakesAgain(declarations)
       /\ TwiceFor(declarations, closures)
  BY <1>7 DEF Told
<1>15. /\ SameText(es) /\ MakesAgain(es) /\ TwiceFor(es, closures)
       /\ \A c : Twice(declarations, c) => Twice(es, c)
       /\ \A c : Defined(es, c) <=> Defined(declarations, c)
       /\ e.closure # 0 => Twice(es, e.closure)
  <2>1. CASE e.closure = 0
    <3>1. e.added = << >>
      BY <1>10, <2>1 DEF WholeOf
    <3>2. es = declarations
      BY <1>13, <3>1, TheDeclared
    <3>. QED
      BY <1>14, <2>1, <3>2
  <2>2. CASE e.closure # 0
    <3>1. closures[e.closure].part \in Repeated /\ e.closure \in 1 .. Len(closures)
      BY <1>10, <1>12, <2>2
    <3>. QED
      BY <1>10, <1>11, <1>13, <1>14, <2>2, <3>1, TheDeclared, DeclaredAgain
  <2>. QED
    BY <2>1, <2>2
<1>16. FoundAt(w, closures)
  BY <1>3, <1>4, <1>9 DEF FoundAt
<1>17. PICK u : u = WrittenExpression(sources[Len(sources)], e)
  OBVIOUS
<1>18. PICK us : us = [sources EXCEPT ![Len(sources)] = u]
  OBVIOUS
<1>19. Carried(declarations, sources, es, us, Len(sources))
  <2>1. MakesToo(u, sources[Len(sources)], e.closure)
    <3>1. sources[Len(sources)] \in Sources
      BY TheDeclared
    <3>. QED
      BY <1>11, <1>17, <3>1, ExpressionMakes
  <2>2. ASSUME NEW n \in Nat, NEW m \in 1 .. Len(sources), Segment(declarations, n, sources, m)
        PROVE  Segment(es, n, us, m)
    <3>1. m \in Nat /\ m <= Len(sources)
      OBVIOUS
    <3>. QED
      BY <1>10, <1>11, <1>13, <1>18, <2>1, <2>2, <3>1, TheDeclared, SegmentGrows
  <2>. QED
    BY <2>2 DEF Carried
<1>20. PICK ws : ws = [visits EXCEPT ![Len(visits)] = w]
  OBVIOUS
<1>21. Told(es, closures, ws, us)
  <2>1. /\ w.closure = v.closure /\ w.declared = v.declared /\ w.script = Tail(v.script)
        /\ v.script # << >> /\ v = visits[Len(visits)] /\ Len(visits) >= 1
        /\ \A p \in DOMAIN v.found : w.found[p] = v.found[p]
        /\ \A p : p \in DOMAIN w.found <=> p \in DOMAIN v.found \/ Asks(Head(v.script), p)
        /\ \A p \in DOMAIN v.found : Asks(Head(v.script), p) /\ v.found[p].closure # 0 =>
                                     Twice(es, v.found[p].closure)
    BY <1>3, <1>4, <1>6, <1>8, <1>15
  <2>2. /\ SameText(es) /\ MakesAgain(es) /\ TwiceFor(es, closures)
        /\ \A c : Twice(declarations, c) => Twice(es, c)
        /\ \A c : Defined(es, c) <=> Defined(declarations, c)
    BY <1>15
  <2>3. StepsOn(declarations, es, closures, visits, v, w)
    BY <1>16, <2>1, <2>2, TheDeclared DEF StepsOn
  <2>. QED
    BY <1>7, <1>19, <1>20, <2>3, TheDeclared, StepTells
<1>22. visits' = ws /\ sources' = us /\ declarations' = es
  BY <1>2, <1>3, <1>13, <1>17, <1>18, <1>20
<1>. QED
  BY <1>2, <1>21, <1>22 DEF OInv

\* A closure begins.
LEMMA BeginClosureTells ==
  ASSUME IInv, OInv, BeginClosure
  PROVE  OInv'
<1>1. PICK place : place = [part |-> NextStep.part, function |-> Len(private)]
  OBVIOUS
<1>2. /\ visits # << >> /\ Top(visits).script # << >> /\ NextStep.do = "accept"
      /\ NextStep.part \notin DOMAIN Top(visits).found
      /\ closures' = Append(closures, place)
      /\ sources' = Append(sources, EmptySource)
      /\ visits' = Append(visits, Visit(ClosureNode, FALSE, Len(closures')))
      /\ declarations' = declarations
  BY <1>1 DEF BeginClosure, Visiting
<1>3. place \in Places
  BY <1>1, <1>2, InnermostVisit DEF IInv, Typed, Steps, Places
<1>4. PICK cs : cs = Append(closures, place)
  OBVIOUS
<1>5. /\ closures \in Seq(Places) /\ Len(closures) \in Nat /\ Len(cs) = Len(closures) + 1
      /\ cs[Len(closures) + 1] = place
      /\ \A c \in 1 .. Len(closures) : cs[c] = closures[c]
  BY <1>3, <1>4, TheDeclared
<1>6. PICK k : k = Len(cs)
  OBVIOUS
<1>7. k \in Nat /\ k # 0
  BY <1>5, <1>6
<1>8. PICK no \in BOOLEAN : no = FALSE
  OBVIOUS
<1>9. PICK v \in Visits :
        /\ v.script = ClosureNode /\ v.closure = k /\ DOMAIN v.found = {}
        /\ v.declared = Len(declarations) /\ v = Visit(ClosureNode, no, k)
  BY <1>7, ScriptsAreScripts, NewVisit DEF Visit
<1>10. Told(declarations, closures, visits, sources)
  BY DEF OInv
<1>11. Extends(cs, closures, v.closure)
  <2>1. \A c : c \in 1 .. Len(cs) <=> c \in 1 .. Len(closures) \/ (k # 0 /\ c = k)
    BY <1>5, <1>6, <1>7
  <2>2. \A c \in 1 .. Len(closures) : c # k
    BY <1>5, <1>6
  <2>. QED
    BY <1>5, <1>6, <1>7, <1>9, <2>1, <2>2 DEF Extends
<1>12. PICK us : us = Append(sources, EmptySource)
  OBVIOUS
<1>13. /\ Segment(declarations, Len(declarations), us, Len(sources) + 1)
       /\ Carried(declarations, sources, declarations, us, Len(sources))
  <2>1. /\ Segment(declarations, Len(declarations), us, Len(sources) + 1)
        /\ \A n, m \in Nat : Segment(declarations, n, sources, m) =>
                             Segment(declarations, n, us, m)
    BY <1>12, TheDeclared, SegmentBegins
  <2>. QED
    BY <2>1 DEF Carried
<1>14. /\ Len(visits) >= 1 /\ visits[Len(visits)].script # << >>
       /\ Head(visits[Len(visits)].script).do = "accept"
       /\ Head(visits[Len(visits)].script).part \notin DOMAIN visits[Len(visits)].found
       /\ cs[v.closure].part = Head(visits[Len(visits)].script).part
       /\ Segment(declarations, v.declared, us, Number(visits, Len(visits)) + 1)
  <2>1. Len(visits) >= 1 /\ visits[Len(visits)] = Top(visits)
    BY <1>2, InnermostVisit
  <2>2. cs[v.closure].part = NextStep.part
    BY <1>1, <1>5, <1>6, <1>9
  <2>3. Segment(declarations, v.declared, us, Number(visits, Len(visits)) + 1)
    BY <1>9, <1>13, TheDeclared
  <2>. QED
    BY <1>2, <2>1, <2>2, <2>3 DEF NextStep
<1>15. PICK ws : ws = Append(visits, v)
  OBVIOUS
<1>16. Told(declarations, cs, ws, us)
  <2>1. Fair(v.script)
    BY <1>9, NodesAreFair
  <2>. QED
    BY <1>9, <1>10, <1>11, <1>13, <1>14, <1>15, <2>1, TheDeclared, PushTells
<1>17. visits' = ws /\ sources' = us /\ closures' = cs
  BY <1>2, <1>4, <1>6, <1>8, <1>9, <1>12, <1>15
<1>. QED
  BY <1>2, <1>16, <1>17 DEF OInv

\* When the visit to a closure ends, its source has no line begun.
LEMMA ClosureHasNoLine ==
  ASSUME IInv, BInv, visits # << >>, Top(visits).script = << >>, Top(visits).closure # 0
  PROVE  sources[Len(sources)].stream = << >>
<1>1. PICK own, total, whole : Owing(visits, sources, own, total, whole)
  BY DEF BInv
<1>. DEFINE n == Len(visits)
            a == own[n]
            t == Owed(total, n)
            s == sources[Len(sources)]
<1>2. /\ visits \in Seq(Visits) /\ n \in 1 .. n /\ Top(visits) = visits[n]
  BY InnermostVisit DEF IInv, Typed
<1>3. /\ Follows(s, t, whole[Len(sources)]) /\ t = Sum(Base(visits, total, n), a)
      /\ ~visits[n].statement
  BY <1>1, <1>2, InnermostSource
<1>4. Base(visits, total, n) = Zero
  BY <1>2 DEF Base
<1>5. a \in States /\ a.begun = FALSE
  BY <1>1, <1>2, <1>3, StepsEnd
<1>. HIDE DEF a, t, s
<1>6. t = a
  BY <1>3, <1>4, <1>5, Sums
<1>7. ~t.begun
  BY <1>5, <1>6
<1>8. s.stream = << >>
  BY <1>3, <1>7 DEF Follows
<1>. QED
  BY <1>8 DEF s

\* A closure ends, and its function is declared.
LEMMA EndClosureTells ==
  ASSUME IInv, BInv, OInv, EndClosure
  PROVE  OInv'
<1>1. PICK v : v = Top(visits)
  OBVIOUS
<1>2. PICK d : d = Declared("closure", v.closure, Top(sources).lines)
  OBVIOUS
<1>3. PICK es : es = declarations \o <<d>>
  OBVIOUS
<1>4. PICK e : e = Found(v.closure, 0, SubSeq(es, v.declared + 1, Len(es)))
  OBVIOUS
<1>5. /\ visits # << >> /\ v.script = << >> /\ v.closure # 0
      /\ declarations' = Append(declarations, d) /\ closures' = closures
  BY <1>1, <1>2 DEF EndClosure
<1>6. /\ Len(visits) >= 1 /\ v = visits[Len(visits)] /\ v \in Visits
      /\ Top(sources) = sources[Len(sources)] /\ sources[Len(sources)] \in Sources
      /\ v.closure \in 1 .. Len(closures) /\ v.closure \in Nat /\ v.declared \in Nat
  <2>1. Len(visits) >= 1 /\ v = visits[Len(visits)] /\ v \in Visits
        /\ Len(visits) \in 1 .. Len(visits)
    BY <1>1, <1>5, InnermostVisit
  <2>2. v.closure \in 1 .. Len(closures)
    BY <1>5, <2>1, TheDeclared
  <2>3. Top(sources) = sources[Len(sources)] /\ sources[Len(sources)] \in Sources
    BY TheDeclared DEF Top
  <2>. QED
    BY <2>1, <2>2, <2>3 DEF Visits
<1>7. /\ d \in Declarations /\ d.is = "closure" /\ d.of = v.closure
      /\ d.text = sources[Len(sources)].lines
  BY <1>2, <1>6 DEF Declared, Declarations, Sources
<1>8. es \in Seq(Declarations) /\ declarations' = es
  BY <1>3, <1>5, <1>7, TheDeclared
<1>9. /\ e \in Expressions /\ e.closure = v.closure
      /\ e.added = SubSeq(es, v.declared + 1, Len(es))
  <2>1. SubSeq(es, v.declared + 1, Len(es)) \in Seq(Declarations)
    BY <1>6, <1>8, Behind
  <2>. QED
    BY <1>4, <1>6, <2>1 DEF Found, Expressions
<1>10. /\ sources' = [Front(sources) EXCEPT ![Len(sources) - 1] =
                        WrittenExpression(Front(sources)[Len(sources) - 1], e)]
       /\ visits' = Noted(Front(visits), e)
  BY <1>1, <1>4, <1>8 DEF EndClosure
<1>11. Len(visits) >= 2 /\ visits[Len(visits) - 1].script # << >>
  <2>1. Len(visits) \in 1 .. Len(visits)
    BY <1>6, TheDeclared
  <2>2. Len(visits) > 1 /\ visits[Len(visits) - 1].script # << >>
    BY <1>5, <1>6, <2>1 DEF IInv, CallersWait
  <2>. QED
    BY <2>2, TheDeclared
<1>12. PICK x : x = visits[Len(visits) - 1]
  OBVIOUS
<1>13. PICK vs : vs = Front(visits)
  OBVIOUS
<1>14. /\ vs \in Seq(Visits) /\ Len(vs) = Len(visits) - 1 /\ Len(vs) >= 1
       /\ Top(vs) = x /\ x.script # << >>
  <2>1. /\ vs \in Seq(Visits) /\ Len(vs) = Len(visits) - 1
        /\ \A i \in 1 .. Len(visits) - 1 : vs[i] = visits[i]
    BY <1>6, <1>13, TheDeclared, Taken
  <2>2. Len(visits) - 1 \in 1 .. Len(visits) - 1 /\ Len(vs) >= 1
    BY <1>11, <2>1, TheDeclared
  <2>. QED
    BY <1>11, <1>12, <2>1, <2>2 DEF Top
<1>15. PICK w \in Visits :
         /\ w.closure = x.closure /\ w.declared = x.declared /\ w.script = Tail(x.script)
         /\ Noted(vs, e) = [vs EXCEPT ![Len(vs)] = w]
         /\ \A p : p \in DOMAIN w.found <=> p \in DOMAIN x.found \/ p = Head(x.script).part
         /\ \A p \in DOMAIN w.found :
              w.found[p] = IF p = Head(x.script).part THEN e ELSE x.found[p]
  <2>1. vs \in Seq(Visits) /\ Len(vs) >= 1 /\ Top(vs).script # << >> /\ e \in Expressions
    BY <1>9, <1>14
  <2>2. PICK w \in Visits :
          /\ w.closure = Top(vs).closure /\ w.statement = Top(vs).statement
          /\ w.declared = Top(vs).declared /\ w.script = Tail(Top(vs).script)
          /\ Noted(vs, e) = [vs EXCEPT ![Len(vs)] = w]
          /\ LET asked == Head(Top(vs).script).part IN
             /\ \A part : part \in DOMAIN w.found <=>
                            part \in DOMAIN Top(vs).found \/ part = asked
             /\ \A part \in DOMAIN w.found :
                  w.found[part] = IF part = asked THEN e ELSE Top(vs).found[part]
    BY <2>1, TopNotes
  <2>. QED
    BY <1>14, <2>2
<1>16. PICK ws : ws = [Front(visits) EXCEPT ![Len(visits) - 1] = w]
  OBVIOUS
<1>17. /\ ws \in Seq(Visits) /\ Len(ws) = Len(visits) - 1
       /\ \A i \in 1 .. Len(visits) - 1 :
            ws[i] = IF i = Len(visits) - 1 THEN w ELSE visits[i]
  BY <1>11, <1>16, TheDeclared, LastReplaced
<1>18. \A i \in 1 .. Len(ws) : /\ ws[i].closure = visits[i].closure
                               /\ ws[i].declared = visits[i].declared
  BY <1>12, <1>15, <1>17
<1>19. Told(declarations, closures, visits, sources)
  BY DEF OInv
<1>20. Len(sources) >= 2 /\ Front(sources)[Len(sources) - 1] = sources[Len(sources) - 1]
       /\ sources[Len(sources) - 1] \in Sources
  <2>1. Number(visits, Len(visits)) = Number(visits, Len(visits) - 1) + 1
    <3>1. PICK n : n = Len(visits)
      OBVIOUS
    <3>2. n \in Nat /\ n # 0 /\ visits[n].closure # 0
      BY <1>5, <1>6, <3>1, TheDeclared
    <3>3. Number(visits, n) = Number(visits, n - 1) + (IF visits[n].closure # 0 THEN 1 ELSE 0)
      BY <3>2, Numbers
    <3>. QED
      BY <3>1, <3>2, <3>3
  <2>2. Number(visits, Len(visits) - 1) \in Nat /\ Number(visits, Len(visits) - 1) >= 1
    <3>1. PICK n : n = Len(visits) - 1
      OBVIOUS
    <3>2. n \in Nat /\ n \in 0 .. n
      BY <1>11, <3>1, TheDeclared
    <3>3. Number(visits, n) \in 1 .. Number(visits, n) /\ Number(visits, n) \in Nat
      BY <3>2, Numbers
    <3>. QED
      BY <3>1, <3>3
  <2>3. Len(sources) >= 2
    BY <2>1, <2>2, TheDeclared
  <2>4. Len(sources) - 1 \in 1 .. Len(sources) - 1 /\ Len(sources) - 1 \in 1 .. Len(sources)
    BY <2>3, TheDeclared
  <2>5. Front(sources)[Len(sources) - 1] = sources[Len(sources) - 1]
    BY <2>4, TheDeclared, Taken
  <2>. QED
    BY <2>3, <2>4, <2>5, TheDeclared
<1>21. PICK u : u = WrittenExpression(sources[Len(sources) - 1], e)
  OBVIOUS
<1>22. MakesToo(u, sources[Len(sources) - 1], d.of)
  BY <1>7, <1>9, <1>20, <1>21, ExpressionMakes
<1>23. PICK us : us = [Front(sources) EXCEPT ![Len(sources) - 1] = u]
  OBVIOUS
<1>24. /\ Segments(declarations \o <<d>>, ws, us)
       /\ \A c : Defined(e.added, c) <=> c = d.of \/ MakesBehind(e.added, 0, c)
  <2>1. sources[Len(sources)].stream = << >>
    BY <1>1, <1>5, ClosureHasNoLine
  <2>2. Segments(declarations, visits, sources) /\ d.of # 0 /\ visits[Len(visits)].closure # 0
    BY <1>5, <1>6, <1>7, <1>19 DEF Told
  <2>3. /\ Segments(declarations \o <<d>>, ws, [Front(sources) EXCEPT ![Len(sources) - 1] = u])
        /\ LET fs == declarations \o <<d>>
               added == SubSeq(fs, visits[Len(visits)].declared + 1, Len(fs))
           IN  \A c : Defined(added, c) <=> c = d.of \/ MakesBehind(added, 0, c)
    BY <1>6, <1>7, <1>17, <1>18, <1>22, <2>1, <2>2, TheDeclared, SegmentsClose
  <2>. QED
    BY <1>3, <1>6, <1>9, <1>23, <2>3
<1>25. WholeOf(e)
  BY <1>5, <1>7, <1>9, <1>24 DEF WholeOf
<1>26. Told(declarations \o <<d>>, closures, ws, us)
  <2>1. /\ declarations \in Seq(Declarations) /\ visits \in Seq(Visits) /\ Len(visits) >= 2
        /\ v = visits[Len(visits)] /\ x = visits[Len(visits) - 1]
        /\ v.closure \in 1 .. Len(closures) /\ v.script = << >>
    BY <1>5, <1>6, <1>11, <1>12, TheDeclared
  <2>2. /\ d \in Declarations /\ d.is = "closure" /\ d.of = v.closure
        /\ e.closure = v.closure
    BY <1>7, <1>9
  <2>3. /\ ws \in Seq(Visits) /\ Len(ws) = Len(visits) - 1
        /\ \A i \in 1 .. Len(visits) - 1 :
             ws[i] = IF i = Len(visits) - 1 THEN w ELSE visits[i]
    BY <1>17
  <2>4. /\ w.closure = x.closure /\ w.script = Tail(x.script)
        /\ \A p : p \in DOMAIN w.found <=> p \in DOMAIN x.found \/ p = Head(x.script).part
        /\ \A p \in DOMAIN w.found :
             w.found[p] = IF p = Head(x.script).part THEN e ELSE x.found[p]
    BY <1>15
  <2>5. Segments(declarations \o <<d>>, ws, us)
    BY <1>24
  <2>6. ClosesInside(declarations, closures, visits, v, x, w, d, e, us, ws)
    BY <1>25, <2>1, <2>2, <2>3, <2>4, <2>5 DEF ClosesInside
  <2>. QED
    BY <1>19, <2>6, CloseTells
<1>27. visits' = ws /\ sources' = us
  <2>1. visits' = ws
    BY <1>10, <1>13, <1>14, <1>15, <1>16
  <2>. QED
    BY <1>10, <1>20, <1>21, <1>23, <2>1
<1>. QED
  BY <1>3, <1>5, <1>8, <1>26, <1>27 DEF OInv

-----------------------------------------------------------------------------
(* Together. *)

\* At first nothing is declared or visited.
LEMMA TellsAtFirst ==
  ASSUME Init
  PROVE  OInv
<1>1. /\ Len(declarations) = 0 /\ Len(visits) = 0 /\ Len(closures) = 0
      /\ \A i : i \notin 1 .. 0
  BY DEF Init
<1>2. \A c : ~Twice(declarations, c)
  BY <1>1 DEF Twice
<1>3. /\ SameText(declarations) /\ MakesAgain(declarations)
      /\ TwiceFor(declarations, closures)
  BY <1>1, <1>2 DEF SameText, MakesAgain, TwiceFor
<1>4. /\ Ended(declarations, closures, visits) /\ Distinct(visits)
      /\ Repeats(declarations, closures, visits)
      /\ Links(visits, closures) /\ Segments(declarations, visits, sources)
  BY <1>1 DEF Ended, Distinct, Repeats, Links, Segments
<1>. QED
  BY <1>1, <1>3, <1>4 DEF OInv, Told

\* The invariant holds at first, and a step keeps it.
LEMMA Telling == Spec => []OInv
<1>1. ASSUME IInv, BInv, OInv, [Next]_vars
      PROVE  OInv'
  <2>1. CASE UNCHANGED vars
    <3>1. /\ sources' = sources /\ declarations' = declarations /\ visits' = visits
          /\ closures' = closures
      BY <2>1 DEF vars
    <3>. QED
      BY <1>1, <3>1 DEF OInv
  <2>2. CASE \E hidden \in BOOLEAN : FunctionDefinition(hidden)
    BY <1>1, <2>2, FunctionDefinitionTells
  <2>3. CASE Write
    BY <1>1, <2>3, WriteTells
  <2>4. CASE \E call \in 0 .. MaxFunctions : PlainExpression(call)
    BY <1>1, <2>4, PlainExpressionTells
  <2>5. CASE ExpressionAgain
    BY <1>1, <2>5, ExpressionAgainTells
  <2>6. CASE BeginClosure
    BY <1>1, <2>6, BeginClosureTells
  <2>7. CASE EndClosure
    BY <1>1, <2>7, EndClosureTells
  <2>8. CASE \E node \in Statements : BeginStatement(node)
    BY <1>1, <2>8, BeginStatementTells
  <2>9. CASE EndStatement
    BY <1>1, <2>9, EndStatementTells
  <2>10. CASE EndChildren
    BY <1>1, <2>10, EndChildrenTells
  <2>11. CASE EndFunction
    BY <1>1, <2>11, EndFunctionTells
  <2>. QED
    BY <1>1, <2>1, <2>2, <2>3, <2>4, <2>5, <2>6, <2>7, <2>8, <2>9, <2>10, <2>11 DEF Next
<1>. QED
  BY TellsAtFirst, Invariance, Matching, <1>1, PTL DEF Spec

\* The places where declarations define c.
LEMMA DefinitionsCount ==
  ASSUME declarations \in Seq(Declarations), NEW c
  PROVE  Cardinality(Definitions(c)) = 1 <=>
           Defined(declarations, c) /\ ~Twice(declarations, c)
<1>. DEFINE n == Len(declarations)
            D == Definitions(c)
<1>1. n \in Nat /\ DOMAIN declarations = 1 .. n
  OBVIOUS
<1>2. \A i : i \in D <=> i \in 1 .. n /\ declarations[i].is = "closure"
                                       /\ declarations[i].of = c
  BY <1>1 DEF Definitions
<1>3. IsFiniteSet(D)
  <2>1. IsFiniteSet(1 .. n)
    BY <1>1, FS_Interval
  <2>2. D \subseteq 1 .. n
    BY <1>2
  <2>. QED
    BY <2>1, <2>2, FS_Subset
<1>. HIDE DEF D
<1>4. Cardinality(D) = 1 <=> \E i : D = {i}
  BY <1>3, FS_Singleton
<1>5. (\E i : D = {i}) <=> (\E i : i \in D) /\ \A i, j \in D : i = j
  <2>1. ASSUME NEW i, D = {i}
        PROVE  (\E k : k \in D) /\ \A k, j \in D : k = j
    BY <2>1
  <2>2. ASSUME NEW i, i \in D, \A k, j \in D : k = j
        PROVE  D = {i}
    BY <2>2
  <2>. QED
    BY <2>1, <2>2
<1>6. (\E i : i \in D) <=> Defined(declarations, c)
  BY <1>2 DEF Defined, Defines, n
<1>7. (\A i, j \in D : i = j) <=> ~Twice(declarations, c)
  BY <1>2 DEF Twice, n
<1>. QED
  BY <1>4, <1>5, <1>6, <1>7 DEF D

\* When nothing is visited, the function of a closure is defined once, unless
\* the closure or one around it stands where visit(SwitchNode&) or forCondition
\* visits an expression again; then it is defined once more each time.
THEOREM ClosuresAreDefinedOnce == Spec => []DefinedOnce
<1>1. ASSUME IInv, OInv
      PROVE  DefinedOnce
  <2>1. SUFFICES ASSUME Done, NEW c \in DOMAIN closures
                 PROVE  Cardinality(Definitions(c)) = 1 <=>
                          /\ closures[c].part \notin {"rangeStart", "rangeEnd", "switchRepeated"}
                          /\ \A outer \in DOMAIN declarations :
                               Piece("make", c) \in Range(declarations[outer].text) =>
                                 Cardinality(Definitions(declarations[outer].of)) = 1
    BY DEF DefinedOnce
  <2>. DEFINE ds == declarations
              n == Len(ds)
  <2>2. /\ ds \in Seq(Declarations) /\ DOMAIN ds = 1 .. n /\ c \in 1 .. Len(closures)
        /\ Len(visits) = 0 /\ 1 .. Len(visits) = {}
    BY <1>1, <2>1, TheDeclared DEF Done
  <2>3. /\ MakesAgain(ds) /\ TwiceFor(ds, closures) /\ Ended(ds, closures, visits)
        /\ Repeats(ds, closures, visits)
    BY <1>1 DEF OInv, Told
  <2>4. Defined(ds, c)
    BY <2>2, <2>3 DEF Ended, Visited
  <2>5. closures[c].part \in Repeated => Twice(ds, c)
    BY <2>2, <2>3 DEF Repeats, Visited
  <2>6. Twice(ds, c) <=> closures[c].part \in Repeated \/ MadeTwice(ds, c)
    BY <2>2, <2>3, <2>5 DEF TwiceFor, MadeTwice, MakesAgain
  <2>7. ASSUME NEW i \in 1 .. n
        PROVE  Piece("make", c) \in Range(ds[i].text) <=> Makes(ds[i].text, c)
    <3>1. ds[i].text \in Seq(Pieces)
      <4>1. ds[i] \in Declarations
        BY <2>2
      <4>. QED
        BY <4>1 DEF Declarations
    <3>2. \A p \in Pieces : p = Piece("make", c) <=> p.is = "make" /\ p.of = c
      BY DEF Pieces, Piece
    <3>3. \A j \in 1 .. Len(ds[i].text) : ds[i].text[j] \in Pieces
      BY <3>1
    <3>4. Range(ds[i].text) = {ds[i].text[j] : j \in 1 .. Len(ds[i].text)}
      BY <3>1 DEF Range
    <3>. QED
      BY <3>2, <3>3, <3>4 DEF Makes
  <2>8. ASSUME NEW i \in 1 .. n, Makes(ds[i].text, c)
        PROVE  ds[i].is = "closure" /\ Defined(ds, ds[i].of)
    <3>1. ds[i].is # "prototype"
      <4>1. ds[i].is = "prototype" => ds[i].text = << >>
        BY <1>1 DEF IInv, PrototypesFollow
      <4>. QED
        BY <2>8, <4>1 DEF Makes
    <3>2. ds[i] \in Declarations
      BY <2>2
    <3>3. ds[i].is = "closure"
      BY <3>1, <3>2 DEF Declarations
    <3>. QED
      BY <3>3 DEF Defined, Defines
  <2>9. \A o : Cardinality(Definitions(o)) = 1 <=> Defined(ds, o) /\ ~Twice(ds, o)
    BY <2>2, DefinitionsCount
  <2>10. MadeTwice(ds, c) <=>
           \E i \in DOMAIN ds : /\ Piece("make", c) \in Range(ds[i].text)
                                /\ Cardinality(Definitions(ds[i].of)) # 1
    BY <2>2, <2>7, <2>8, <2>9 DEF MadeTwice
  <2>. QED
    BY <2>4, <2>6, <2>9, <2>10 DEF Repeated
<1>. QED
  BY Invariance, Telling, <1>1, PTL

=============================================================================
