------------------------ MODULE FunctionBodies_proof ------------------------
(***************************************************************************)
(* Proofs about FunctionBodies, for texts of any length and nesting.       *)
(***************************************************************************)
EXTENDS FunctionBodies, FiniteSetTheorems, TLAPS

-----------------------------------------------------------------------------
(* Stacks of nodes, and how many of them wait for an end. *)

Stack(b) ==
  /\ b \in Seq(Kinds)
  /\ Len(b) > 0
  /\ \A i \in 1 .. Len(b) : b[i] = "function" <=> i = 1

WaitingIn(b) == {i \in 1 .. Len(b) : b[i] \in EndClosed}

\* A node that begins goes on top.
LEMMA Pushed ==
  ASSUME NEW b, Stack(b), NEW kind \in Kinds \ {"function"}
  PROVE  LET c == Append(b, kind) IN
         /\ Stack(c)
         /\ Len(c) = Len(b) + 1
         /\ c[Len(c)] = kind
         /\ \A i \in 1 .. Len(b) : c[i] = b[i]
BY DEF Stack

\* Nodes that end are cut off, the function never.
LEMMA Cut ==
  ASSUME NEW b, Stack(b), NEW n \in 1 .. Len(b), b[n] # "function"
  PROVE  LET c == SubSeq(b, 1, n - 1) IN
         /\ Stack(c)
         /\ Len(c) = n - 1
         /\ \A i \in 1 .. n - 1 : c[i] = b[i]
<1>1. n > 1 /\ b \in Seq(Kinds)
  BY DEF Stack
<1>2. /\ SubSeq(b, 1, n - 1) \in Seq(Kinds)
      /\ Len(SubSeq(b, 1, n - 1)) = n - 1
      /\ \A i \in 1 .. n - 1 : SubSeq(b, 1, n - 1)[i] = b[i]
  BY <1>1
<1>. QED
  BY <1>1, <1>2 DEF Stack

\* The nodes that wait are finitely many.
LEMMA WaitingFinite ==
  ASSUME NEW b, Stack(b)
  PROVE  IsFiniteSet(WaitingIn(b)) /\ Cardinality(WaitingIn(b)) \in Nat
<1>1. IsFiniteSet(1 .. Len(b))
  BY FS_Interval DEF Stack
<1>2. WaitingIn(b) \in SUBSET (1 .. Len(b))
  BY DEF WaitingIn
<1>. QED
  BY <1>1, <1>2, FS_Subset, FS_CardinalityType

\* A node on top is one more to wait, if an end closes it.
LEMMA PushedWaiting ==
  ASSUME NEW b, Stack(b), NEW kind \in Kinds \ {"function"}
  PROVE  Cardinality(WaitingIn(Append(b, kind))) =
           IF kind \in EndClosed THEN Cardinality(WaitingIn(b)) + 1
                                 ELSE Cardinality(WaitingIn(b))
<1>. DEFINE c == Append(b, kind)
<1>1. /\ Len(b) \in Nat
      /\ Len(c) = Len(b) + 1
      /\ c[Len(c)] = kind
      /\ \A i \in 1 .. Len(b) : c[i] = b[i]
  BY Pushed DEF Stack
<1>. HIDE DEF c
<1>2. CASE kind \in EndClosed
  <2>1. WaitingIn(c) = WaitingIn(b) \cup {Len(b) + 1}
    BY <1>1, <1>2 DEF WaitingIn
  <2>2. Len(b) + 1 \notin WaitingIn(b)
    BY <1>1 DEF WaitingIn
  <2>3. Cardinality(WaitingIn(b) \cup {Len(b) + 1}) = Cardinality(WaitingIn(b)) + 1
    BY <2>2, WaitingFinite, FS_AddElement
  <2>. QED
    BY <1>2, <2>1, <2>3 DEF c
<1>3. CASE kind \notin EndClosed
  <2>1. WaitingIn(c) = WaitingIn(b)
    BY <1>1, <1>3 DEF WaitingIn
  <2>. QED
    BY <1>3, <2>1 DEF c
<1>. QED
  BY <1>2, <1>3

\* Without the last node there is one fewer to wait, if it did.
LEMMA CutWaiting ==
  ASSUME NEW b, Stack(b), b[Len(b)] # "function"
  PROVE  Cardinality(WaitingIn(SubSeq(b, 1, Len(b) - 1))) =
           IF b[Len(b)] \in EndClosed THEN Cardinality(WaitingIn(b)) - 1
                                      ELSE Cardinality(WaitingIn(b))
<1>. DEFINE c == SubSeq(b, 1, Len(b) - 1)
<1>1. Len(b) \in Nat /\ Len(b) \in 1 .. Len(b)
  BY DEF Stack
<1>2. /\ Len(c) = Len(b) - 1
      /\ \A i \in 1 .. Len(b) - 1 : c[i] = b[i]
  BY <1>1, Cut
<1>. HIDE DEF c
<1>3. WaitingIn(c) = WaitingIn(b) \ {Len(b)}
  BY <1>1, <1>2 DEF WaitingIn
<1>4. Len(b) \in WaitingIn(b) <=> b[Len(b)] \in EndClosed
  BY <1>1 DEF WaitingIn
<1>5. Cardinality(WaitingIn(b) \ {Len(b)}) =
        IF Len(b) \in WaitingIn(b) THEN Cardinality(WaitingIn(b)) - 1
                                   ELSE Cardinality(WaitingIn(b))
  BY WaitingFinite, FS_RemoveElement
<1>. QED
  BY <1>3, <1>4, <1>5 DEF c

\* Nobody waits where the number is zero.
LEMMA NobodyWaits ==
  ASSUME NEW b, Stack(b), Cardinality(WaitingIn(b)) = 0
  PROVE  \A i \in 1 .. Len(b) : b[i] \notin EndClosed
<1>1. WaitingIn(b) = {}
  BY WaitingFinite, FS_EmptySet
<1>. QED
  BY <1>1 DEF WaitingIn

-----------------------------------------------------------------------------
(* The first reading. *)

\* A disciplined text had been disciplined before, and is so at this token.
LEMMA Noted ==
  ASSUME NEW t, Note(t), liberties' = {}
  PROVE  /\ liberties = {}
         /\ OnOwnLine(t)
         /\ t.type # "atomic : fallback"
         /\ Grammatical(t)
BY DEF Note

\* What a stored token does to the counts.
LEMMA Buffered ==
  ASSUME TypeOK, NEW t \in Tokens, Buffer(t)
  PROVE  /\ nestedEnds' \in Nat
         /\ onlyWhitespaceSoFar' \in BOOLEAN
         /\ buffered = "no" /\ buffered' = "no"
         /\ t.type # "def"
         /\ liberties' \subseteq {"same line", "spaced fallback", "errors"}
         /\ t.type # "end" => ~onlyWhitespaceSoFar'
         /\ t.type = "end" => nestedEnds > 0 /\ nestedEnds' = nestedEnds - 1
         /\ t.type # "end" =>
              nestedEnds' = IF AtStart(t) /\ mightBeClosedByEndKeyword(t.type)
                              THEN nestedEnds + 1 ELSE nestedEnds
         /\ Note(t)
<1>1. nestedEnds \in Nat /\ onlyWhitespaceSoFar \in BOOLEAN /\ AtStart(t) \in BOOLEAN
  BY DEF TypeOK, AtStart
<1>2. liberties' \subseteq {"same line", "spaced fallback", "errors"}
  BY DEF Buffer, Note, TypeOK
<1>3. CASE t.type = "end"
  <2>1. /\ buffered = "no" /\ buffered' = "no" /\ Note(t)
        /\ nestedEnds > 0
        /\ nestedEnds' = nestedEnds - 1
        /\ onlyWhitespaceSoFar' = AtStart(t)
    BY <1>3 DEF Buffer
  <2>2. nestedEnds' \in Nat
    BY <1>1, <2>1
  <2>. QED
    BY <1>1, <1>2, <1>3, <2>1, <2>2, Zenon
<1>4. CASE t.type # "end"
  <2>1. /\ buffered = "no" /\ buffered' = "no" /\ t.type # "def" /\ Note(t)
        /\ onlyWhitespaceSoFar' = FALSE
    BY <1>4 DEF Buffer
  <2>2. nestedEnds' = IF AtStart(t) /\ mightBeClosedByEndKeyword(t.type)
                        THEN nestedEnds + 1 ELSE nestedEnds
    BY <1>4, Zenon DEF Buffer
  <2>3. nestedEnds' \in Nat
    BY <1>1, <2>2
  <2>. QED
    BY <1>2, <1>4, <2>1, <2>2, <2>3, Zenon
<1>. QED
  BY <1>3, <1>4

\* The parts of the invariant that do not depend on the text.
BasicInv == TypeOK /\ ControlInv

LEMMA BasicInit == Init => IInv
<1>. SUFFICES ASSUME Init PROVE IInv
  OBVIOUS
<1>1. TypeOK
  <2>1. "function" \in Kinds
    BY DEF Kinds
  <2>2. blocks \in Seq(Kinds) /\ Len(blocks) = 1 /\ blocks[1] = "function"
    BY <2>1 DEF Init
  <2>3. \A i \in 1 .. Len(blocks) : blocks[i] = "function" <=> i = 1
    BY <2>2
  <2>4. /\ nestedEnds \in Nat /\ onlyWhitespaceSoFar \in BOOLEAN
        /\ buffered = "no" /\ parsed = "no" /\ liberties = {}
        /\ opening \in BOOLEAN /\ tailing \in BOOLEAN
    BY DEF Init
  <2>. QED
    BY <2>2, <2>3, <2>4 DEF TypeOK
<1>2. ControlInv
  BY DEF Init, ControlInv
<1>3. Waiting = {}
  BY DEF Init, Waiting, EndClosed
<1>4. ReadingsAgree
  BY <1>3, FS_EmptySet DEF Init, ReadingsAgree, Agreement
<1>. QED
  BY <1>1, <1>2, <1>4 DEF Init, IInv, BodiesAreWhole

\* The nodes on the stack are as TypeOK says.
LEMMA TypeStack == TypeOK => Stack(blocks)
BY DEF TypeOK, Stack

-----------------------------------------------------------------------------
(* The types and the control, step by step. *)

\* A statement that begins, goes on or ends leaves the invariant's basic parts
\* as they are, whatever node is now the last.
LEMMA BasicStep ==
  ASSUME TypeOK, NEW t \in Tokens, Parse(t), Stack(blocks'),
         opening' \in BOOLEAN, tailing' \in BOOLEAN,
         tailing' => t.type # "end",
         opening' => Last' \in EndClosed,
         parsed' = "no"
  PROVE  BasicInv'
<1>1. TypeOK'
  BY Buffered DEF Parse, TypeOK, Stack
<1>2. ControlInv'
  BY Buffered DEF Parse, ControlInv
<1>. QED
  BY <1>1, <1>2 DEF BasicInv

\* A block begins.
LEMMA BasicOpen ==
  ASSUME IInv, NEW t \in Tokens, NEW kind \in EndClosed, OpenBlock(t, kind)
  PROVE  BasicInv'
<1>1. TypeOK /\ Stack(blocks) /\ kind \in Kinds \ {"function"}
  BY TypeStack DEF IInv, EndClosed
<1>2. /\ Stack(blocks')
      /\ Last' = kind
  BY <1>1, Pushed DEF OpenBlock, Last
<1>. QED
  BY <1>1, <1>2, BasicStep DEF OpenBlock, Statement, Parse

\* The next part of a statement begins.
LEMMA BasicNextPart ==
  ASSUME IInv, NEW t \in Tokens, NEW kind \in EndClosed, NEW kinds,
         "function" \notin kinds, NextPart(t, kind, kinds)
  PROVE  BasicInv'
<1>1. TypeOK /\ Stack(blocks) /\ kind \in Kinds \ {"function"}
  BY TypeStack DEF IInv, EndClosed
<1>2. PICK n \in 1 .. Len(blocks) :
        blocks[n] \in kinds /\ blocks' = Append(Outer(n), kind)
  BY DEF NextPart
<1>3. Stack(Outer(n))
  BY <1>1, <1>2, Cut DEF Outer
<1>4. /\ Stack(blocks')
      /\ Last' = kind
  BY <1>1, <1>2, <1>3, Pushed DEF Last
<1>. QED
  BY <1>1, <1>4, BasicStep DEF NextPart, Statement, Parse

LEMMA BasicNext == ASSUME IInv, [Next]_vars PROVE BasicInv'
<1>1. TypeOK /\ ControlInv /\ Stack(blocks)
  BY TypeStack DEF IInv
<1>2. CASE UNCHANGED vars
  BY <1>1, <1>2 DEF vars, BasicInv, TypeOK, ControlInv, Last
<1>3. ASSUME NEW t \in Tokens, Refuse(t) PROVE BasicInv'
  <2>1. liberties' \subseteq {"same line", "spaced fallback", "errors"}
    BY <1>1, <1>3 DEF Refuse, Note, TypeOK
  <2>2. TypeOK'
    BY <1>1, <1>3, <2>1 DEF Refuse, TypeOK, parse
  <2>3. ControlInv'
    BY <1>1, <1>3 DEF Refuse, ControlInv, Last, parse
  <2>. QED
    BY <2>2, <2>3 DEF BasicInv
<1>4. ASSUME NEW t \in Tokens, Close(t) PROVE BasicInv'
  <2>1. liberties' \subseteq {"same line", "spaced fallback", "errors"}
    BY <1>1, <1>4 DEF Close, Note, TypeOK
  <2>2. TypeOK'
    BY <1>1, <1>4, <2>1 DEF Close, TypeOK
  <2>3. ControlInv'
    BY <1>1, <1>4 DEF Close, ControlInv, Last, TypeOK
  <2>. QED
    BY <2>2, <2>3 DEF BasicInv
<1>5. ASSUME NEW t \in Tokens, BufferRest(t) PROVE BasicInv'
  <2>1. TypeOK'
    BY <1>1, <1>5, Buffered DEF BufferRest, TypeOK, parse
  <2>2. ControlInv'
    BY <1>1, <1>5, Buffered DEF BufferRest, ControlInv, Last, parse
  <2>. QED
    BY <2>1, <2>2 DEF BasicInv
<1>6. ASSUME NEW t \in Tokens, TailingIf(t) PROVE BasicInv'
  <2>1. TypeOK'
    BY <1>1, <1>6, Buffered DEF TailingIf, Parse, TypeOK
  <2>2. ControlInv'
    BY <1>1, <1>6, Buffered DEF TailingIf, Parse, ControlInv, Last
  <2>. QED
    BY <2>1, <2>2 DEF BasicInv
<1>7. ASSUME NEW t \in Tokens,
             \/ IfNode(t) \/ LoopNode(t) \/ SwitchNode(t) \/ DebugNode(t)
             \/ AtomicStatementNode(t)
      PROVE  BasicInv'
  <2>1. PICK kind \in EndClosed : OpenBlock(t, kind)
    BY <1>7 DEF IfNode, LoopNode, SwitchNode, DebugNode, AtomicStatementNode,
                EndClosed, Kinds
  <2>. QED
    BY <2>1, BasicOpen
<1>8. ASSUME NEW t \in Tokens, ClosureNode(t) PROVE BasicInv'
  <2>1. Stack(blocks')
    BY <1>1, <1>8, Pushed DEF ClosureNode, Kinds
  <2>. QED
    BY <1>1, <1>8, <2>1, BasicStep DEF ClosureNode, Statement, Parse
<1>9. ASSUME NEW t \in Tokens, ExpressionStatement(t) \/ ReturnNode(t)
      PROVE  BasicInv'
  <2>1. blocks' = blocks
    BY <1>9 DEF ExpressionStatement, ReturnNode
  <2>. QED
    BY <1>1, <1>9, <2>1, BasicStep DEF ExpressionStatement, ReturnNode, Statement, Parse
<1>10. ASSUME NEW t \in Tokens, ElseNode(t) \/ CaseNode(t) PROVE BasicInv'
  <2>1. "else" \in EndClosed /\ "case" \in EndClosed
    BY DEF EndClosed, Kinds
  <2>. QED
    BY <1>10, <2>1, BasicNextPart DEF ElseNode, CaseNode
<1>11. ASSUME NEW t \in Tokens, EndOfBlock(t) \/ EndOfClosure(t) PROVE BasicInv'
  <2>1. PICK n \in 1 .. Len(blocks) :
          blocks[n] # "function" /\ blocks' = Outer(n)
    <3>1. CASE EndOfBlock(t)
      <4>1. Len(blocks) \in 1 .. Len(blocks) /\ "function" \notin EndClosed
        BY <1>1 DEF Stack, EndClosed
      <4>. QED
        BY <3>1, <4>1 DEF EndOfBlock, Last
    <3>2. CASE EndOfClosure(t)
      BY <3>2 DEF EndOfClosure
    <3>. QED
      BY <1>11, <3>1, <3>2
  <2>2. Stack(blocks')
    BY <1>1, <2>1, Cut DEF Outer
  <2>. QED
    BY <1>1, <1>11, <2>2, BasicStep DEF EndOfBlock, EndOfClosure, Statement, Parse
<1>12. ASSUME NEW t \in Tokens, NoStatement(t) \/ MissingNewline(t) PROVE BasicInv'
  <2>1. /\ Buffer(t)
        /\ parsed' \in {"dropped", "looping", "rejected"}
        /\ UNCHANGED <<blocks, opening, tailing>>
    BY <1>12 DEF NoStatement, MissingNewline, Statement, Parse
  <2>2. TypeOK'
    BY <1>1, <2>1, Buffered DEF TypeOK
  <2>3. ControlInv'
    BY <1>1, <2>1, Buffered DEF ControlInv, Last
  <2>. QED
    BY <2>2, <2>3 DEF BasicInv
<1>. QED
  BY <1>2, <1>3, <1>4, <1>5, <1>6, <1>7, <1>8, <1>9, <1>10, <1>11, <1>12 DEF Next

-----------------------------------------------------------------------------
(* The agreement of the two readings, step by step, in a disciplined text. *)

\* Where the last node is none that ends by itself, it meets the token.
LEMMA LastMeets ==
  ASSUME Stack(blocks), Last \notin Lenient, NEW n \in 1 .. Len(blocks), Meets(n)
  PROVE  n = Len(blocks)
BY DEF Stack, Last, Meets

\* The last node is the function only where it is the only one.
LEMMA LastFunction ==
  ASSUME Stack(blocks), Last = "function"
  PROVE  Len(blocks) = 1 /\ blocks = <<"function">>
<1>1. Len(blocks) \in 1 .. Len(blocks) /\ blocks \in Seq(Kinds)
  BY DEF Stack
<1>2. Len(blocks) = 1
  BY <1>1 DEF Stack, Last
<1>. QED
  BY <1>1, <1>2 DEF Stack

\* What holds before and after a step in a disciplined text that is still being
\* read.
Agreeing ==
  /\ parsed = "no"
  /\ nestedEnds = Cardinality(WaitingIn(blocks))

\* The text had been disciplined; and both readings are over, or agree.
LEMMA Disciplined ==
  ASSUME IInv, NEW t, Note(t), liberties' = {}, buffered = "no"
  PROVE  Agreeing /\ OnOwnLine(t) /\ t.type # "atomic : fallback" /\ Grammatical(t)
<1>1. /\ liberties = {} /\ OnOwnLine(t)
      /\ t.type # "atomic : fallback" /\ Grammatical(t)
  BY Noted
<1>2. parsed = "no"
  BY <1>1 DEF IInv, BodiesAreWhole, ControlInv
<1>3. nestedEnds = Cardinality(WaitingIn(blocks))
  BY <1>1, <1>2 DEF IInv, ReadingsAgree, Agreement, Waiting, WaitingIn
<1>. QED
  BY <1>1, <1>2, <1>3 DEF Agreeing

\* A block begins: the first reading counts it, since it is on a line of its own.
LEMMA AgreeOpen ==
  ASSUME IInv, NEW t \in Tokens, NEW kind \in EndClosed, OpenBlock(t, kind),
         t.type \in {"if", "loop", "switch", "debug", "atomic", "atomic : fallback"},
         liberties' = {}
  PROVE  Agreeing'
<1>1. /\ TypeOK /\ Stack(blocks) /\ kind \in Kinds \ {"function"}
      /\ Buffer(t) /\ Note(t) /\ buffered = "no" /\ ~isTailingIf(t)
  BY TypeStack DEF IInv, EndClosed, OpenBlock, Statement, Parse, Buffer
<1>2. Agreeing /\ OnOwnLine(t) /\ t.type # "atomic : fallback"
  BY <1>1, Disciplined
<1>3. AtStart(t)
  BY <1>1, <1>2 DEF OnOwnLine, BlockKeywords, AtStart
<1>4. mightBeClosedByEndKeyword(t.type) /\ t.type # "end"
  BY <1>2 DEF mightBeClosedByEndKeyword, BlockKeywords, isAtAtomicExpression
<1>5. nestedEnds' = nestedEnds + 1
  BY <1>1, <1>3, <1>4, Buffered
<1>6. Cardinality(WaitingIn(blocks')) = Cardinality(WaitingIn(blocks)) + 1
  BY <1>1, PushedWaiting DEF OpenBlock
<1>. QED
  BY <1>2, <1>5, <1>6 DEF Agreeing, OpenBlock

\* Whatever else is not counted: what ends no block and begins none.
LEMMA Uncounted ==
  ASSUME TypeOK, NEW t \in Tokens, Buffer(t), t.type # "end",
         \/ ~AtStart(t)
         \/ t.type \notin BlockKeywords
         \/ t.type = "atomic expression"
  PROVE  nestedEnds' = nestedEnds
<1>1. ~AtStart(t) \/ ~mightBeClosedByEndKeyword(t.type)
  BY DEF mightBeClosedByEndKeyword, isAtAtomicExpression
<1>. QED
  BY <1>1, Buffered

\* The next part of a statement takes the place of the one before.
LEMMA AgreeNextPart ==
  ASSUME IInv, NEW t \in Tokens, NEW kind \in EndClosed, NEW kinds,
         kinds \subseteq EndClosed \ Lenient, NextPart(t, kind, kinds),
         t.type \in {"else", "case"}, Last \in EndClosed \ Lenient,
         liberties' = {}
  PROVE  Agreeing'
<1>1. /\ TypeOK /\ Stack(blocks) /\ kind \in Kinds \ {"function"}
      /\ Buffer(t) /\ Note(t) /\ buffered = "no"
  BY TypeStack DEF IInv, EndClosed, NextPart, Statement, Parse, Buffer
<1>2. Agreeing
  BY <1>1, Disciplined
<1>3. nestedEnds' = nestedEnds
  BY <1>1, Uncounted DEF BlockKeywords
<1>4. PICK n \in 1 .. Len(blocks) : Meets(n) /\ blocks' = Append(Outer(n), kind)
  BY DEF NextPart
<1>5. n = Len(blocks)
  BY <1>1, <1>4, LastMeets
<1>6. blocks[n] # "function" /\ blocks[n] \in EndClosed
  BY <1>5 DEF Last, EndClosed
<1>7. Stack(Outer(n))
  BY <1>1, <1>6, Cut DEF Outer
<1>8. Cardinality(WaitingIn(Outer(n))) = Cardinality(WaitingIn(blocks)) - 1
  BY <1>1, <1>5, <1>6, CutWaiting DEF Outer
<1>9. Cardinality(WaitingIn(blocks')) = Cardinality(WaitingIn(Outer(n))) + 1
  BY <1>1, <1>4, <1>7, PushedWaiting
<1>10. Cardinality(WaitingIn(blocks')) = Cardinality(WaitingIn(blocks))
  BY <1>1, <1>8, <1>9, WaitingFinite
<1>. QED
  BY <1>2, <1>3, <1>10 DEF Agreeing, NextPart

\* The end of the function: the text that is stored is a whole body.
LEMMA WholeBody ==
  ASSUME IInv, NEW t \in Tokens, Close(t), liberties' = {}
  PROVE  parsed' = "yes" /\ blocks' = <<"function">>
<1>1. TypeOK /\ Stack(blocks) /\ Note(t) /\ buffered = "no"
  BY TypeStack DEF IInv, Close
<1>2. Agreeing /\ Grammatical(t) /\ t.type = "end" /\ nestedEnds = 0
  BY <1>1, Disciplined DEF Close
<1>3. \A i \in 1 .. Len(blocks) : blocks[i] \notin EndClosed
  BY <1>1, <1>2, NobodyWaits DEF Agreeing
<1>4. Len(blocks) \in 1 .. Len(blocks) /\ Last \in Kinds /\ Last \notin EndClosed
  BY <1>1, <1>3 DEF Stack, Last
<1>5. Last = "function"
  BY <1>2, <1>4 DEF Grammatical, EndClosed
<1>6. ~opening
  BY <1>4 DEF IInv, ControlInv
<1>7. parsed' = "yes"
  BY <1>2, <1>3, <1>6 DEF Close, Agreeing
<1>. QED
  BY <1>1, <1>5, <1>7, LastFunction DEF Close

\* Every step that stores a token of a disciplined text keeps the agreement.
LEMMA AgreeNext ==
  ASSUME IInv, Next, liberties' = {}
  PROVE  \/ Agreeing'
         \/ parsed' = "yes" /\ blocks' = <<"function">>
<1>1. TypeOK /\ ControlInv /\ Stack(blocks)
  BY TypeStack DEF IInv
<1>2. ASSUME NEW t \in Tokens, Refuse(t) PROVE FALSE
  <2>1. Grammatical(t) /\ t.type = "def"
    BY <1>2, Noted DEF Refuse
  <2>. QED
    BY <2>1 DEF Grammatical
<1>3. ASSUME NEW t \in Tokens, Close(t)
      PROVE  parsed' = "yes" /\ blocks' = <<"function">>
  BY <1>3, WholeBody
<1>4. ASSUME NEW t \in Tokens, BufferRest(t) PROVE FALSE
  BY <1>4, Disciplined DEF BufferRest, Agreeing, Buffer
<1>5. ASSUME NEW t \in Tokens, Parse(t)
      PROVE  /\ Buffer(t) /\ Note(t) /\ buffered = "no"
             /\ Agreeing /\ OnOwnLine(t) /\ Grammatical(t)
  BY <1>5, Disciplined DEF Parse, Buffer
<1>6. ASSUME NEW t \in Tokens, TailingIf(t) PROVE Agreeing'
  <2>1. Parse(t) /\ ~AtStart(t) /\ t.type # "end"
    BY <1>1, <1>6
       DEF TailingIf, Parse, isTailingIf, ControlInv, AtStart
  <2>2. nestedEnds' = nestedEnds
    BY <1>1, <1>5, <2>1, Uncounted
  <2>. QED
    BY <1>5, <1>6, <2>1, <2>2 DEF TailingIf, Agreeing
<1>7. ASSUME NEW t \in Tokens,
             \/ IfNode(t) \/ LoopNode(t) \/ SwitchNode(t) \/ DebugNode(t)
             \/ AtomicStatementNode(t)
      PROVE  Agreeing'
  <2>1. /\ t.type \in {"if", "loop", "switch", "debug", "atomic", "atomic : fallback"}
        /\ \E kind \in EndClosed : OpenBlock(t, kind)
    BY <1>7 DEF IfNode, LoopNode, SwitchNode, DebugNode, AtomicStatementNode,
                EndClosed, Kinds
  <2>. QED
    BY <2>1, AgreeOpen
<1>8. ASSUME NEW t \in Tokens, ClosureNode(t) PROVE Agreeing'
  <2>1. /\ Parse(t) /\ t.type \notin BlockKeywords /\ t.type # "end"
        /\ blocks' = Append(blocks, "closure") /\ parsed' = parsed
    BY <1>8 DEF ClosureNode, Statement, BlockKeywords
  <2>2. nestedEnds' = nestedEnds
    BY <1>1, <1>5, <2>1, Uncounted
  <2>3. "closure" \in Kinds \ {"function"} /\ "closure" \notin EndClosed
    BY DEF Kinds, EndClosed
  <2>4. Cardinality(WaitingIn(blocks')) = Cardinality(WaitingIn(blocks))
    BY <1>1, <2>1, <2>3, PushedWaiting
  <2>. QED
    BY <1>5, <2>1, <2>2, <2>4 DEF Agreeing
<1>9. ASSUME NEW t \in Tokens, ExpressionStatement(t) \/ ReturnNode(t)
      PROVE  Agreeing'
  <2>1. /\ Parse(t) /\ t.type # "end" /\ blocks' = blocks /\ parsed' = parsed
        /\ t.type \notin BlockKeywords \/ t.type = "atomic expression"
    BY <1>9 DEF ExpressionStatement, ReturnNode, Statement, BlockKeywords
  <2>2. nestedEnds' = nestedEnds
    BY <1>1, <1>5, <2>1, Uncounted
  <2>. QED
    BY <1>5, <2>1, <2>2 DEF Agreeing
<1>10. ASSUME NEW t \in Tokens, ElseNode(t) \/ CaseNode(t) PROVE Agreeing'
  <2>1. Parse(t)
    BY <1>10 DEF ElseNode, CaseNode, NextPart, Statement
  <2>2. Last \in EndClosed \ Lenient
    BY <1>5, <1>10, <2>1
       DEF ElseNode, CaseNode, Grammatical, EndClosed, Kinds, Lenient
  <2>3. CASE ElseNode(t)
    <3>1. /\ "else" \in EndClosed
          /\ {"if", "atomic", "switch", "case"} \subseteq EndClosed \ Lenient
      BY DEF EndClosed, Kinds, Lenient
    <3>. QED
      BY <2>2, <2>3, <3>1, AgreeNextPart DEF ElseNode
  <2>4. CASE CaseNode(t)
    <3>1. /\ "case" \in EndClosed
          /\ {"switch", "case"} \subseteq EndClosed \ Lenient
      BY DEF EndClosed, Kinds, Lenient
    <3>. QED
      BY <2>2, <2>4, <3>1, AgreeNextPart DEF CaseNode
  <2>. QED
    BY <1>10, <2>3, <2>4
<1>11. ASSUME NEW t \in Tokens, EndOfBlock(t) PROVE Agreeing'
  <2>1. /\ Parse(t) /\ t.type = "end" /\ Last \in EndClosed
        /\ blocks' = Outer(Len(blocks)) /\ parsed' = parsed
    BY <1>11 DEF EndOfBlock, Statement
  <2>2. nestedEnds' = nestedEnds - 1
    BY <1>1, <1>5, <2>1, Buffered
  <2>3. Last # "function"
    BY <2>1 DEF EndClosed
  <2>4. Cardinality(WaitingIn(blocks')) = Cardinality(WaitingIn(blocks)) - 1
    BY <1>1, <2>1, <2>3, CutWaiting DEF Last, Outer
  <2>. QED
    BY <1>5, <2>1, <2>2, <2>4 DEF Agreeing
<1>12. ASSUME NEW t \in Tokens, EndOfClosure(t) PROVE Agreeing'
  <2>1. Parse(t) /\ parsed' = parsed
    BY <1>12 DEF EndOfClosure, Statement
  <2>2. PICK n \in 1 .. Len(blocks) :
          Meets(n) /\ blocks[n] = "closure" /\ blocks' = Outer(n)
    BY <1>12 DEF EndOfClosure
  <2>3. Last \notin Lenient
    BY <1>5, <1>12, <2>1 DEF EndOfClosure, Grammatical, Lenient
  <2>4. n = Len(blocks) /\ Last = "closure"
    BY <1>1, <2>2, <2>3, LastMeets DEF Last
  <2>5. t.type = "close brace"
    BY <1>5, <1>12, <2>1, <2>4 DEF EndOfClosure, Grammatical
  <2>6. nestedEnds' = nestedEnds
    BY <1>1, <1>5, <2>1, <2>5, Uncounted DEF BlockKeywords
  <2>7. Last # "function" /\ Last \notin EndClosed
    BY <2>4 DEF EndClosed
  <2>8. Cardinality(WaitingIn(blocks')) = Cardinality(WaitingIn(blocks))
    BY <1>1, <2>2, <2>4, <2>7, CutWaiting DEF Last, Outer
  <2>. QED
    BY <1>5, <2>1, <2>6, <2>8 DEF Agreeing
<1>13. ASSUME NEW t \in Tokens, NoStatement(t) PROVE FALSE
  <2>1. Parse(t)
    BY <1>13 DEF NoStatement, Statement
  <2>2. PICK n \in 1 .. Len(blocks) :
          /\ Meets(n)
          /\ \/ t.type = "else" /\ blocks[n] \in {"function", "else"}
             \/ t.type = "case" /\ blocks[n] \notin {"closure", "switch", "case"}
             \/ t.type = "end" /\ Last = "function"
             \/ /\ t.type \in {"close brace", "structure", "other"}
                /\ blocks[n] # "closure"
    BY <1>13 DEF NoStatement
  <2>3. CASE t.type = "end"
    <3>1. nestedEnds > 0 /\ Last = "function"
      BY <1>1, <1>5, <2>1, <2>2, <2>3, Buffered
    <3>2. Len(blocks) = 1 /\ blocks = <<"function">>
      BY <1>1, <3>1, LastFunction
    <3>3. WaitingIn(blocks) = {}
      BY <3>2 DEF WaitingIn, EndClosed
    <3>. QED
      BY <1>5, <2>1, <3>1, <3>3, FS_EmptySet DEF Agreeing
  <2>4. CASE t.type # "end"
    <3>1. Last \notin Lenient
      BY <1>5, <2>1, <2>2, <2>4 DEF Grammatical, Lenient
    <3>2. blocks[n] = Last
      BY <1>1, <2>2, <3>1, LastMeets DEF Last
    <3>. QED
      BY <1>5, <2>1, <2>2, <2>4, <3>2 DEF Grammatical
  <2>. QED
    BY <2>3, <2>4
<1>14. ASSUME NEW t \in Tokens, MissingNewline(t) PROVE FALSE
  BY <1>5, <1>14 DEF MissingNewline, Grammatical
<1>. QED
  BY <1>2, <1>3, <1>4, <1>6, <1>7, <1>8, <1>9, <1>10, <1>11, <1>12, <1>13, <1>14
     DEF Next

-----------------------------------------------------------------------------
(* The theorems. *)

\* The inductive invariant, for texts of any length and nesting.
THEOREM Invariance == Spec => []IInv
<1>1. Init => IInv
  BY BasicInit
<1>2. IInv /\ [Next]_vars => IInv'
  <2>. SUFFICES ASSUME IInv, [Next]_vars PROVE IInv'
    OBVIOUS
  <2>1. TypeOK' /\ ControlInv'
    BY BasicNext DEF BasicInv
  <2>2. CASE UNCHANGED vars
    <3>1. Agreement' <=> Agreement
      BY <2>2 DEF vars, Agreement, Waiting
    <3>. QED
      BY <2>1, <2>2, <3>1 DEF IInv, vars, ReadingsAgree, BodiesAreWhole
  <2>3. CASE Next
    <3>1. liberties' = {} =>
            \/ Agreeing'
            \/ parsed' = "yes" /\ blocks' = <<"function">>
      BY <2>3, AgreeNext
    <3>2. Waiting' = WaitingIn(blocks')
      BY DEF Waiting, WaitingIn
    <3>. QED
      BY <2>1, <3>1, <3>2
         DEF IInv, ReadingsAgree, Agreement, BodiesAreWhole, Agreeing
  <2>. QED
    BY <2>2, <2>3
<1>. QED
  BY <1>1, <1>2, PTL DEF Spec

\* Every variable keeps its type: in particular the stack of nodes always has
\* the function, and only the function, at its bottom.
THEOREM TypeCorrect == Spec => []TypeOK
<1>1. IInv => TypeOK
  BY DEF IInv
<1>. QED
  BY <1>1, Invariance, PTL

\* bufferOpenToCloseToken counts what the grammar nests, in every text that is
\* spelled and laid out as the discipline says.
THEOREM Agreed == Spec => []ReadingsAgree
<1>1. IInv => ReadingsAgree
  BY DEF IInv
<1>. QED
  BY <1>1, Invariance, PTL

\* Of such a text the first pass stores the whole body of the function, and the
\* second parses all of it.
THEOREM Whole == Spec => []BodiesAreWhole
<1>1. IInv => BodiesAreWhole
  BY DEF IInv
<1>. QED
  BY <1>1, Invariance, PTL

=============================================================================
