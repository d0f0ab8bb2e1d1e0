-------------------------- MODULE AtomicStatements --------------------------
(***************************************************************************)
(* How the compiler turns the atomic statements of one function body into  *)
(* calls of the run-time support.  The parser (Parser::parseStatement and  *)
(* the parse functions of the statement nodes) reads a body statement by   *)
(* statement, keeps a chain of scopes (Scope, ParseContext) and names each *)
(* transaction after a counter in a scope; the code generator              *)
(* (CCodeGenVisitor) visits the nodes in the same order, so that a step    *)
(* here is a statement, or a keyword that closes one, parsed and emitted.  *)
(*                                                                         *)
(* The emitted C is followed along all its paths at once: "depths" is the  *)
(* set of numbers of transactions a path can have open (begun and not yet  *)
(* ended by three_transaction_end, which ignores its argument) when it     *)
(* reaches the current point; it is empty where the code is dead.  Every   *)
(* condition may go either way; a loop's body is followed once, so a body  *)
(* has to lead back to its start with as many open as before.              *)
(***************************************************************************)
EXTENDS Integers, Sequences, FiniteSets

CONSTANTS
  Plain,      \* do programs keep to the discipline of PlainReturn, PlainAbort
              \* and PlainJump?
  MaxLength,  \* bound: statements and closing keywords of a body
  MaxNesting  \* bound: how deep statements nest

ASSUME BoundsAssumption ==
  /\ Plain \in BOOLEAN
  /\ MaxLength \in Nat
  /\ MaxNesting \in Nat

VARIABLES
  blocks,   \* the statements being parsed, the function first
  scopes,   \* the chain of scopes from the function's to the current one
  depths,   \* open transactions on the paths to the current point
  returned, \* open transactions on the paths that have left a C function
  emitted,  \* what the last step has said about transactions in the C code
  atomics,  \* history: atomic statements of the body so far
  phase,    \* what has become of the compilation
  length    \* steps so far

vars == <<blocks, scopes, depths, returned, emitted, atomics, phase, length>>

-----------------------------------------------------------------------------
(* Scopes.  Only the scope of a function has a basename to build names with;
   a name is counted there, but read where it is asked for.                  *)

Top(s) == s[Len(s)]
Below(s) == SubSeq(s, 1, Len(s) - 1)

NewScope == [named |-> FALSE, tx |-> 0]
pushScope(s) == Append(s, NewScope)

popScope(s) == Below(s)

\* Each scope counts for itself.
OwnCounterMutant(s) == [s EXCEPT ![Len(s)].tx = @ + 1]

\* The scope that scopedName delegates to: the nearest with a basename.
Namer(s) == CHOOSE i \in 1 .. Len(s) :
              s[i].named /\ \A j \in i + 1 .. Len(s) : ~s[j].named

\* Scope::scopedName("tx") takes the next number ...
scopedName(s) == [s EXCEPT ![Namer(s)].tx = @ + 1]

\* The first name stays the current one.
FirstNameMutant(s) == IF Top(s).tx = 0 THEN 0 ELSE 1

\* ... and Scope::currentScopedName("tx") the last one taken in this very
\* scope, 0 when there is none.
currentScopedName(s) == Top(s).tx

-----------------------------------------------------------------------------
Kinds == {"function", "atomic", "atomicElse", "if", "ifElse",
          "loop", "forever", "debug", "closure"}
NodeNames == {"none", "Return", "If", "other"}
Counts == (0 - MaxLength) .. MaxLength

Blocks ==
  [kind : Kinds,                       \* of the node being parsed
   tx : 0 .. MaxLength,                \* its transaction name, 0 for none
   last : NodeNames,                   \* nodeName() of its lastChild()
   before : SUBSET Counts,             \* depths in front of it
   body : SUBSET Counts,               \* depths behind its first part
   exits : SUBSET Counts]              \* depths at the jumps out of a loop

TypeOK ==
  /\ blocks \in Seq(Blocks)
  /\ Len(blocks) \in 1 .. MaxNesting + 1
  /\ scopes \in Seq([named : BOOLEAN, tx : 0 .. MaxLength])
  /\ Len(scopes) \in 1 .. Len(blocks)
  /\ depths \in SUBSET Counts
  /\ returned \in SUBSET Counts
  /\ emitted \in [op : {"nothing", "begin", "return", "abort"}, tx : 0 .. MaxLength]
  /\ atomics \in 0 .. MaxLength
  /\ phase \in {"parsing", "done", "rejected", "crashed"}
  /\ length \in 0 .. MaxLength

NewBlock(kind, tx, before) ==
  [kind |-> kind, tx |-> tx, last |-> "none", before |-> before, body |-> {}, exits |-> {}]

Emitting(op, tx) == [op |-> op, tx |-> tx]
Nothing == Emitting("nothing", 0)

\* FunctionDefinitionNode::parseBody enters the function.
Init ==
  /\ blocks = <<NewBlock("function", 0, {0})>>
  /\ scopes = <<[named |-> TRUE, tx |-> 0]>>
  /\ depths = {0}
  /\ returned = {}
  /\ emitted = Nothing
  /\ atomics = 0
  /\ phase = "parsing"
  /\ length = 0

-----------------------------------------------------------------------------
(* Where the current point is. *)

Current == Top(blocks)

\* The blocks of the C function that is being emitted: a closure's body becomes
\* a function of its own.
InFunction ==
  {i \in 1 .. Len(blocks) :
     \A j \in i + 1 .. Len(blocks) : blocks[j].kind # "closure"}

\* The atomic statements whose bodies enclose the current point.
Open == {i \in InFunction : blocks[i].kind = "atomic"}

Enclosing(S) == {i \in S : \A j \in S : j <= i}    \* the innermost of S

Loops == {i \in InFunction : blocks[i].kind \in {"loop", "forever"}}

InDebugOrClosure == \E i \in 1 .. Len(blocks) : blocks[i].kind \in {"debug", "closure"}

\* The body of the most recent atomic statement of the function, with neither a
\* debug statement nor a closure around.
InLatestAtomic ==
  ~InDebugOrClosure /\ \E i \in Enclosing(Open) : blocks[i].tx = atomics

\* The discipline: a return leaves at most one atomic statement, which has none
\* before it in its body and no debug statement or closure around, or it comes
\* before any atomic statement; an abort is in the body of the latest one; and
\* a break or continue stays in the atomic statement.
PlainReturn ==
  \/ Open = {} /\ (atomics = 0 \/ InDebugOrClosure)
  \/ Cardinality(Open) = 1 /\ InLatestAtomic
PlainAbort == InLatestAtomic
PlainJump == \A i \in Enclosing(Loops), j \in Open : j < i

-----------------------------------------------------------------------------
(* What the parse functions share. *)

Parse == phase = "parsing" /\ length < MaxLength /\ length' = length + 1

\* A statement with a tailing if is the child of an If node ...
TransparentIfMutant(name, tailing) == name
NodeName(name, tailing) == IF tailing THEN "If" ELSE name

\* ... and addChild makes it the last child of the current node.
WithChild(bs, name) == [bs EXCEPT ![Len(bs)].last = name]

\* The paths that go on behind a statement that leaves, or does not because of
\* its tailing if.
GoOn(tailing) == IF tailing THEN depths ELSE {}

\* A statement with a body opens; d are the depths at the start of the body.
Enter(kind, tx, d) ==
  /\ Len(blocks) <= MaxNesting
  /\ blocks' = Append(blocks, NewBlock(kind, tx, depths))
  /\ depths' = d
  /\ UNCHANGED <<returned, phase>>

\* The current statement is complete and becomes a child of its parent.
Leave(d) ==
  /\ blocks' = WithChild(Below(blocks), "other")
  /\ depths' = d

-----------------------------------------------------------------------------
(* Statements. *)

\* Parser::parseExpressionStatement, declarations, barriers: nothing that
\* matters here, but a child of the current node.
ExpressionStatement ==
  /\ Parse
  /\ blocks' = WithChild(blocks, "other")
  /\ emitted' = Nothing
  /\ UNCHANGED <<scopes, depths, returned, atomics, phase>>

\* The code generator ends the transaction a return names, if it names one,
\* between the evaluation of the value and the C return.
Ended(tx) == IF tx = 0 THEN 0 ELSE 1

\* A return names the transaction its scope named last.
ReturnNode(tailing) ==
  LET tx == currentScopedName(scopes) IN
  /\ Parse
  /\ Plain => PlainReturn
  /\ blocks' = WithChild(blocks, NodeName("Return", tailing))
  /\ returned' = returned \cup {d - Ended(tx) : d \in depths}
  /\ depths' = GoOn(tailing)
  /\ emitted' = Emitting("return", tx)
  /\ UNCHANGED <<scopes, atomics, phase>>

\* An abort aborts the transaction its scope named last, and without one the
\* compiler fails.  In the C code an abort under the fallback lock goes on.
AbortStatementNode(tailing) ==
  LET tx == currentScopedName(scopes) IN
  /\ Parse
  /\ Plain => PlainAbort
  /\ IF tx = 0
       THEN phase' = "rejected" /\ emitted' = Nothing /\ UNCHANGED blocks
       ELSE /\ blocks' = WithChild(blocks, NodeName("other", tailing))
            /\ emitted' = Emitting("abort", tx)
            /\ phase' = phase
  /\ UNCHANGED <<scopes, depths, returned, atomics>>

\* BreakNode and ContinueNode: C's break and continue (in a loop, or C would
\* refuse).  The condition of a loop may end it after a continue, too.
JumpNode(name, tailing) ==
  /\ Parse
  /\ Plain => PlainJump
  /\ \E i \in Enclosing(Loops) :
       blocks' = WithChild(
         IF name = "break" \/ blocks[i].kind = "loop"
           THEN [blocks EXCEPT ![i].exits = @ \cup depths] ELSE blocks,
         NodeName("other", tailing))
  /\ depths' = GoOn(tailing)
  /\ emitted' = Nothing
  /\ UNCHANGED <<scopes, returned, atomics, phase>>

\* Allocates a transaction and begins it: if (three_transaction_begin(&tx)) {
AtomicStatementNode ==
  LET named == scopedName(scopes)
      tx == named[Namer(named)].tx
  IN
  /\ Parse
  /\ Enter("atomic", tx, {d + 1 : d \in depths})
  /\ scopes' = named
  /\ emitted' = Emitting("begin", tx)
  /\ atomics' = atomics + 1

IfNode ==
  /\ Parse
  /\ Enter("if", 0, depths)
  /\ emitted' = Nothing
  /\ UNCHANGED <<scopes, atomics>>

\* LoopNode and ForNode, with a condition or without.
LoopNode ==
  /\ Parse
  /\ \E kind \in {"loop", "forever"} : Enter(kind, 0, depths)
  /\ emitted' = Nothing
  /\ UNCHANGED <<scopes, atomics>>

DebugNode ==
  /\ Parse
  /\ Enter("debug", 0, depths)
  /\ scopes' = pushScope(scopes)
  /\ emitted' = Nothing
  /\ UNCHANGED atomics

\* Emitted as a C function of its own, which starts with nothing open.
ClosureNode ==
  /\ Parse
  /\ Enter("closure", 0, {0})
  /\ scopes' = pushScope(scopes)
  /\ emitted' = Nothing
  /\ UNCHANGED atomics

-----------------------------------------------------------------------------
(* The keywords that close. *)

\* The paths behind the body of an atomic statement: three_transaction_end is
\* emitted unless the body's last child is a Return.
EndOfBody(b, d) == IF b.last = "Return" THEN d ELSE {n - 1 : n \in d}

\* The code generator asks the last child of an atomic statement for its name,
\* and there is none.  (It does when the whole file has been parsed; here, as
\* soon as the body is.)
EmptyAtomic == Current.kind = "atomic" /\ Current.last = "none"

Crash ==
  /\ Parse
  /\ EmptyAtomic
  /\ phase' = "crashed"
  /\ emitted' = Nothing
  /\ UNCHANGED <<blocks, scopes, depths, returned, atomics>>

SecondPart(kind, d) ==
  blocks' = [blocks EXCEPT ![Len(blocks)] =
              [Current EXCEPT !.kind = kind, !.body = d, !.last = "none"]]

\* Parser::parseBodyWithElse finds an else.  The second part starts where the
\* condition was false, or the transaction has not begun.
ElseNode ==
  /\ Parse
  /\ ~EmptyAtomic
  /\ \/ Current.kind = "if" /\ SecondPart("ifElse", depths)
     \/ Current.kind = "atomic" /\ SecondPart("atomicElse", EndOfBody(Current, depths))
  /\ depths' = Current.before
  /\ emitted' = Nothing
  /\ UNCHANGED <<scopes, returned, atomics, phase>>

\* An end.  Without an else an atomic statement gets one that fails.
End ==
  /\ Parse
  /\ ~EmptyAtomic
  /\ \/ Current.kind = "atomic" /\ Leave(EndOfBody(Current, depths))
     \/ Current.kind \in {"atomicElse", "ifElse"} /\ Leave(depths \cup Current.body)
     \/ Current.kind = "if" /\ Leave(depths \cup Current.before)
     \/ Current.kind = "loop" /\ Leave(depths \cup Current.before \cup Current.exits)
     \/ Current.kind = "forever" /\ Leave(Current.exits)
     \/ Current.kind = "debug" /\ Leave(depths)
  /\ scopes' = IF Current.kind = "debug" THEN popScope(scopes) ELSE scopes
  /\ emitted' = Nothing
  /\ UNCHANGED <<returned, atomics, phase>>

\* The closing brace of a closure.
EndClosure ==
  /\ Parse
  /\ Current.kind = "closure"
  /\ returned' = returned \cup depths
  /\ Leave(Current.before)
  /\ scopes' = popScope(scopes)
  /\ emitted' = Nothing
  /\ UNCHANGED <<atomics, phase>>

\* The end of the buffered body.
EndFunction ==
  /\ Parse
  /\ Len(blocks) = 1
  /\ returned' = returned \cup depths
  /\ phase' = "done"
  /\ emitted' = Nothing
  /\ UNCHANGED <<blocks, scopes, depths, atomics>>

Next ==
  \/ ExpressionStatement
  \/ \E tailing \in BOOLEAN :
       \/ ReturnNode(tailing)
       \/ AbortStatementNode(tailing)
       \/ \E name \in {"break", "continue"} : JumpNode(name, tailing)
  \/ AtomicStatementNode \/ IfNode \/ LoopNode \/ DebugNode \/ ClosureNode
  \/ Crash \/ ElseNode \/ End \/ EndClosure \/ EndFunction

Spec == Init /\ [][Next]_vars

-----------------------------------------------------------------------------
(* Correctness. *)

\* In a disciplined program, whatever path the C code takes, at every point it
\* has exactly the transactions open whose bodies enclose the point, and none
\* when it leaves a function: each begin meets one end, by the code at the end
\* of the body, by a return, or (where the end is left out) never needed.
Balanced ==
  Plain => /\ depths \subseteq {Cardinality(Open)}
           /\ returned \subseteq {0}

\* In a disciplined program an abort is never refused, and names the innermost
\* transaction, the one the runtime aborts.
AbortsNameTheirTransaction ==
  Plain => /\ phase # "rejected"
           /\ emitted.op = "abort" =>
                \E i \in Enclosing(Open) : blocks[i].tx = emitted.tx

\* Transactions that enclose each other have different names, across debug
\* statements and closures: a statement that names one in C means that one.
NamesDiffer ==
  \A i, j \in 1 .. Len(blocks) :
    i < j /\ blocks[i].kind = "atomic" /\ blocks[j].kind \in {"atomic", "atomicElse"}
      => blocks[i].tx # blocks[j].tx

\* "assert(atomic_fetch_sub(&_three_transaction_mtx_count, 1) >= 0)"
\* (three_transaction_unlock): nothing is ended that was not begun.
NothingEndedTwice == \A d \in depths \cup returned : d >= 0

-----------------------------------------------------------------------------
(* What makes these invariants inductive. *)

CountsTo(n) == (0 - n) .. n

BlocksTo(n) ==
  [kind : Kinds, tx : 0 .. n, last : NodeNames, before : SUBSET CountsTo(n),
   body : SUBSET CountsTo(n), exits : SUBSET CountsTo(n)]

\* Each step counts one up or down at most, and takes one name at most.
Typed ==
  /\ length \in 0 .. MaxLength
  /\ blocks \in Seq(BlocksTo(length))
  /\ Len(blocks) \in 1 .. MaxNesting + 1
  /\ depths \in SUBSET CountsTo(length)
  /\ returned \in SUBSET CountsTo(length)
  /\ emitted \in [op : {"nothing", "begin", "return", "abort"}, tx : 0 .. length]
  /\ atomics \in 0 .. length
  /\ phase \in {"parsing", "done", "rejected", "crashed"}

FunctionFirst == \A i \in 1 .. Len(blocks) : blocks[i].kind = "function" <=> i = 1

\* The first n blocks that have a scope, besides the function.
Scoped(bs, n) == {i \in 1 .. n : bs[i].kind \in {"debug", "closure"}}

\* The function's scope counts the names; no other scope has taken one.
Scopes == [named : BOOLEAN, tx : Nat]
ScopesFollow ==
  /\ scopes \in Seq(Scopes)
  /\ Len(scopes) = 1 + Cardinality(Scoped(blocks, Len(blocks)))
  /\ scopes[1].named /\ scopes[1].tx = atomics
  /\ \A i \in 2 .. Len(scopes) : ~scopes[i].named /\ scopes[i].tx = 0

Named(b) == b.kind \in {"atomic", "atomicElse"}
NamesGrow ==
  \A i \in 1 .. Len(blocks) : Named(blocks[i]) =>
    /\ blocks[i].tx \in 1 .. atomics
    /\ \A j \in i + 1 .. Len(blocks) : Named(blocks[j]) => blocks[i].tx < blocks[j].tx

\* The atomic statements open behind the first n blocks.
OpenAt(bs, n) ==
  {i \in 1 .. n : /\ bs[i].kind = "atomic"
                  /\ \A j \in i + 1 .. n : bs[j].kind # "closure"}

Depth(bs, n) == Cardinality(OpenAt(bs, n))

\* What a block remembers of the paths is what was open in front of it; behind
\* a return there is none.
DepthsMatch ==
  Plain =>
    /\ phase # "rejected"
    /\ depths \subseteq {Depth(blocks, Len(blocks))}
    /\ returned \subseteq {0}
    /\ Current.last = "Return" => depths = {}
    /\ \A i \in 1 .. Len(blocks) :
         blocks[i].before \cup blocks[i].body \cup blocks[i].exits
           \subseteq {Depth(blocks, i - 1)}

IInv ==
  /\ Typed /\ FunctionFirst /\ ScopesFollow /\ NamesGrow /\ DepthsMatch
  /\ AbortsNameTheirTransaction

=============================================================================
