---------------------------- MODULE CExpressions ----------------------------
(***************************************************************************)
(* The C text of an expression (CCodeGenVisitor), and C's grammar, which   *)
(* is external.  A text is a sequence of symbols, of names with the place  *)
(* that they have in the source.                                           *)
(***************************************************************************)
EXTENDS ExpressionParsing

Sym(str) == <<Symbol(str, 0)>>
Throw == Sym("throw")   \* a failed assertion, or a child that is not there
Temporary == Symbol("name", 0)

RECURSIVE accept(_, _)

\* A child that is not there is printed as nothing.
LenientMutant(t, tree, i) ==
  IF i \in DOMAIN tree.children THEN accept(t, tree.children[i]) ELSE <<>>

\* childAtIndex, visited.
acceptChild(t, tree, i) ==
  IF i \in DOMAIN tree.children THEN accept(t, tree.children[i]) ELSE Throw

\* The children from i on, with commas between them.
List(t, tree, i) ==
  FlattenSeq([k \in 1 .. Len(tree.children) - i + 1 |->
    (IF k = 1 THEN <<>> ELSE Sym(",")) \o acceptChild(t, tree, i + k - 1)])

\* The visit functions.  None has parentheses for its operands, only UnaryOperator for
\* itself.
VariableUse(t, tree) ==
  LET name == <<Symbol("name", tree.at)>>
  IN IF t[tree.at] = "r" THEN Sym("*") \o Sym("(") \o name \o Sym(")") ELSE name

BinaryOperator(t, tree) == acceptChild(t, tree, 1) \o Sym(tree.op) \o acceptChild(t, tree, 2)

UnaryOperator(t, tree) == Sym("(") \o Sym(tree.op) \o acceptChild(t, tree, 1) \o Sym(")")

TernaryOperator(t, tree) ==
  IF Len(tree.children) # 3 \/ tree.op = "cas" THEN Throw
  ELSE acceptChild(t, tree, 1) \o Sym("?") \o acceptChild(t, tree, 2)
         \o Sym(":") \o acceptChild(t, tree, 3)

Indexer(t, tree) ==
  IF Len(tree.children) # 2 THEN Throw
  ELSE acceptChild(t, tree, 1) \o Sym("[") \o acceptChild(t, tree, 2) \o Sym("]")

MemberAccess(t, tree) ==
  acceptChild(t, tree, 1) \o Sym(tree.op) \o <<Symbol("name", tree.children[2].at)>>

FunctionCall(t, tree) ==
  IF dataType(t, tree.children[1]) = "refused" THEN Throw
  ELSE acceptChild(t, tree, 1) \o Sym("(") \o List(t, tree, 2) \o Sym(")")

MethodCall(t, tree) ==
  <<Symbol("name", tree.children[2].at)>> \o Sym("(") \o acceptChild(t, tree, 1)
    \o (IF Len(tree.children) = 2 THEN <<>> ELSE Sym(",")) \o List(t, tree, 3) \o Sym(")")

Tuple(t, tree) ==
  Sym("(") \o Sym("struct") \o Sym(")") \o Sym("{") \o List(t, tree, 1) \o Sym("}")

accept(t, tree) ==
  CASE tree.kind = "Variable" -> VariableUse(t, tree)
    [] tree.kind = "Binary"   -> BinaryOperator(t, tree)
    [] tree.kind = "Unary"    -> UnaryOperator(t, tree)
    [] tree.kind = "Ternary"  -> TernaryOperator(t, tree)
    [] tree.kind = "Indexer"  -> Indexer(t, tree)
    [] tree.kind = "Member"   -> MemberAccess(t, tree)
    [] tree.kind = "Call"     -> FunctionCall(t, tree)
    [] tree.kind = "Method"   -> MethodCall(t, tree)
    [] tree.kind = "Tuple"    -> Tuple(t, tree)

\* Statements: the source goes to a temporary, whose members go to the targets.  Members
\* that have no labels are printed without a name.
DestructuredAssignment(t, tree) ==
  LET targets == tree.children[1].children
      source == tree.children[2]
      type == dataType(t, source)
      member(i) == CASE type = "labelled" /\ i <= 2 -> <<Temporary>>
                     [] type = "tuple" /\ i <= Len(source.children) -> Sym("")
                     [] OTHER -> Throw
      assign(i) == accept(t, targets[i]) \o Sym("=") \o <<Temporary>> \o Sym(".") \o member(i)
  IN IF type \notin {"labelled", "tuple"} THEN <<Throw>>
     ELSE <<<<Temporary>> \o Sym("=") \o accept(t, source)>> \o [i \in DOMAIN targets |-> assign(i)]

PrintStatement(t, tree) ==
  IF tree.kind = "Destructured" THEN DestructuredAssignment(t, tree) ELSE <<accept(t, tree)>>

-----------------------------------------------------------------------------
(* The grammar of C, and of Three by its tables. *)

CLevels ==
  <<{"=", "+=", "-="}, {"?"}, {"||"}, {"&&"}, {"|"}, {"^"}, {"&"}, {"==", "!="},
    {"<", "<=", ">", ">="}, {"<<", ">>"}, {"+", "-"}, {"*", "/", "%"}>>

CGrammar ==
  [level  |-> [op \in UNION {CLevels[i] : i \in DOMAIN CLevels} |->
                 CHOOSE i \in DOMAIN CLevels : op \in CLevels[i]],
   right  |-> {"=", "+=", "-=", "?"},
   middle |-> 1]

ThreeGrammar ==
  LET infix == {op \in Operators : precedence(op) \in 1 .. 15} \ {"cas"}
  IN [level  |-> [op \in infix |-> precedence(op)],
      right  |-> {op \in infix : ~isLeftAssociative(op)},
      middle |-> precedence("?") + 1]

\* A text as symbols; these tokens are no part of its grammar here.
Unusual == {"++", "--", "~", "cas"}
Symbols(t) ==
  [i \in DOMAIN t |-> Symbol(IF t[i] \in Names THEN "name" ELSE t[i], i)]

\* A call of a method by its members, as it is written in Three.
RECURSIVE AsWritten(_)
AsWritten(tree) ==
  LET c == [i \in DOMAIN tree.children |-> AsWritten(tree.children[i])]
  IN IF tree.kind # "Method" THEN [tree EXCEPT !.children = c]
     ELSE Call(Node("Member", ".", <<c[1], c[2]>>, 0), SubSeq(c, 3, Len(c)), tree.at)

\* The tree that a C compiler should find: a method is a function, of the receiver first,
\* and a referenced variable is the value at its address.
RECURSIVE InC(_, _)
InC(t, tree) ==
  LET c == [i \in DOMAIN tree.children |-> InC(t, tree.children[i])]
      reference == tree.kind = "Variable" /\ t[tree.at] = "r"
  IN CASE reference -> Node("Unary", "*", <<tree>>, 0)
       [] tree.kind = "Method" -> Call(c[2], <<c[1]>> \o SubSeq(c, 3, Len(c)), 0)
       [] tree.kind = "Member" -> [tree EXCEPT !.children = <<c[1], tree.children[2]>>]
       [] OTHER -> [tree EXCEPT !.children = c]
=============================================================================
