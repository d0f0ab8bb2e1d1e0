-------------------------- MODULE ExpressionParsing --------------------------
(***************************************************************************)
(* Expressions are parsed by precedence climbing (Parser::parseExpression, *)
(* OperatorNode).  A text is a sequence of tokens.  A parse function gets  *)
(* the place where it begins, and returns the tree that it has built, or   *)
(* Nothing for nullptr, with the place behind it; this is No if an         *)
(* assertion has failed or an exception is thrown.                         *)
(* Operands without operators in them are all names: a and b are values, p *)
(* is a pointer, g a function that returns two labelled values, and r a    *)
(* variable referenced by the closure that the statement is in.            *)
(***************************************************************************)
EXTENDS OperatorTrees

No == 0

Names == {"a", "b", "p", "g", "r"}

NonPrecedence == 0
MinimumPrecedence == 1

\* As if & bound tighter than ==.
SwappedPrecedenceMutant(token) ==
  CASE token \in {".", "->"} -> 16
    [] token \in {"*", "/"} -> 15
    [] token \in {"+", "-"} -> 14
    [] token = "<" -> 12
    [] token = "&" -> 11
    [] token = "==" -> 10
    [] token = "&&" -> 8
    [] token = "||" -> 7
    [] token \in {"?", "cas"} -> 6
    [] token \in {"=", "+="} -> 5
    [] OTHER -> NonPrecedence

\* Several operators of the table have the level of one that is here.
precedence(token) ==
  CASE token \in {"++", "--", ".", "->", "["} -> 16
    [] token \in {"*", "%", "/"} -> 15
    [] token \in {"+", "-"} -> 14
    [] token \in {"<<", ">>"} -> 13
    [] token \in {"<", "<=", ">", ">="} -> 12
    [] token \in {"==", "!="} -> 11
    [] token = "&" -> 10
    [] token = "|" -> 9
    [] token = "&&" -> 8
    [] token = "||" -> 7
    [] token \in {"?", "cas"} -> 6
    [] token \in {"=", "+=", "-="} -> 5
    [] OTHER -> NonPrecedence

Operators ==
  {"++", "--", ".", "->", "*", "%", "/", "+", "-", "<<", ">>", "<", "<=", ">", ">=", "==", "!=",
   "&", "|", "&&", "||", "?", "cas", "=", "+=", "-=", "===", "<=>", "^", "!", "~"}
isOperator(token) == token \in Operators
isUnaryOperator(token) == token \in {"&", "*", "-", "!", "~", "++", "--"}
ternary(op) == op \in {"?", "cas"}
isLeftAssociative(token) == token \notin {"++", "--", "-", "!", "~", "*", "&", "=", "+=", "-="}

Tokens == Names \cup Operators \cup {"(", ")", "[", "]", ",", ":", "\n"}

At(t, i) == IF i \in DOMAIN t THEN t[i] ELSE "undefined"

\* There is always a next token, undefined behind the end.
After(t, i) == IF i \in DOMAIN t THEN i + 1 ELSE i

Parsed(tree, at) == [tree |-> tree, at |-> at]
Refused == Parsed(Nothing, No)

\* addChild: what could not be parsed does not become a child.
Children(trees) == SelectSeq(trees, LAMBDA tree : tree # Nothing)

-----------------------------------------------------------------------------
(* Types, as far as a parse asks for them.                                  *)

TypeOfName(name) == CASE name = "p" -> "pointer" [] name = "g" -> "function" [] OTHER -> "value"

RECURSIVE dataType(_, _)

\* A structure has members of all names.
memberType(t, tree) ==
  LET type == dataType(t, tree.children[1])
  IN IF type = "refused" \/ (tree.op = "->" /\ type # "pointer") THEN "refused"
     ELSE TypeOfName(t[tree.children[2].at])

returnType(t, tree) ==
  IF dataType(t, tree.children[1]) = "function" THEN "labelled" ELSE "refused"

dereferencedType(t, tree) ==
  IF tree.children # <<>> /\ dataType(t, tree.children[1]) = "pointer" THEN "value" ELSE "refused"

\* An operator has the type of its first operand, if it has one.
dataType(t, tree) ==
  CASE tree.kind = "Variable" -> TypeOfName(t[tree.at])
    [] tree.kind = "Tuple" -> "tuple"
    [] tree.kind \in {"Call", "Method"} -> returnType(t, tree)
    [] tree.kind = "Member" -> memberType(t, tree)
    [] tree.kind = "Unary" /\ tree.op = "*" -> dereferencedType(t, tree)
    [] OTHER -> IF tree.children = <<>> THEN "refused" ELSE dataType(t, tree.children[1])

-----------------------------------------------------------------------------
(* The parse functions. *)

RECURSIVE parseExpression(_, _, _), parseExpressionElement(_, _), parseTailing(_, _),
          Climb(_, _, _), Arguments(_, _, _)

\* The kind of the node.  A unary operator without a class becomes a binary one.
createOperator(op, unary) ==
  CASE unary /\ op \in PrefixOperators -> "Unary"
    [] ~unary /\ ternary(op) -> "Ternary"
    [] OTHER -> "Binary"

AddArgument(call, tree) == [call EXCEPT !.children = Children(Append(@, tree))]
EndOfCall(t, call, i) == Parsed([call EXCEPT !.at = i], After(t, i))

\* A node of the kind, with what has been parsed of it last, p.
Made(kind, op, before, p) ==
  IF p.at = No THEN Refused
  ELSE Parsed(Node(kind, op, Children(Append(before, p.tree)), 0), p.at)

parseUnary(t, i) ==
  Made(createOperator(t[i], TRUE), t[i], <<>>, parseExpressionElement(t, i + 1))

\* The parenthesis behind the expression may be anything.
AnyParenthesisMutant(t, inside) ==
  IF inside.at = No THEN Refused ELSE Parsed(inside.tree, After(t, inside.at))

\* A parenthesis that is missing is not missed.
Close(t, inside) ==
  IF inside.at # No /\ At(t, inside.at) = ")" THEN Parsed(inside.tree, inside.at + 1) ELSE inside

parseParentheses(t, i) == Close(t, parseExpression(t, i + 1, MinimumPrecedence))

parseExpressionElementWithoutTailingOperators(t, i) ==
  CASE isUnaryOperator(At(t, i)) -> parseUnary(t, i)
    [] At(t, i) \in Names -> Parsed(Name(i), i + 1)
    [] At(t, i) = "(" -> parseParentheses(t, i)
    [] OTHER -> Parsed(Nothing, i)

parseExpressionElement(t, i) ==
  parseTailing(t, parseExpressionElementWithoutTailingOperators(t, i))

\* The call whose arguments go on behind the last of them so far.
MoreArguments(t, call, last) ==
  CASE last.at = No -> Refused
    [] last.at # No /\ At(t, last.at) = "," -> Arguments(t, last.at + 1, AddArgument(call, last.tree))
    [] OTHER -> EndOfCall(t, AddArgument(call, last.tree), last.at)

\* FunctionCallOperatorNode, MethodCallOperatorNode, from an argument at i on; the token
\* behind the last argument is taken for the parenthesis.
Arguments(t, i, call) ==
  IF At(t, i) = ")" THEN EndOfCall(t, call, i)
  ELSE MoreArguments(t, call, parseExpression(t, i, MinimumPrecedence))

\* The ( of the arguments is at i.
parseArguments(t, i, kind, callee) ==
  IF At(t, i) = "(" THEN Arguments(t, i + 1, Node(kind, "()", callee, 0)) ELSE Refused

\* The closing bracket behind p.
CloseIndexer(t, p) ==
  IF p.at # No /\ At(t, p.at) = "]" THEN Parsed(p.tree, p.at + 1) ELSE Refused

parseIndexer(t, left) ==
  CloseIndexer(t, Made("Indexer", "[]", <<left.tree>>, parseExpression(t, left.at + 1, MinimumPrecedence)))

\* A point behind a pointer is a method call.
parseMember(t, left) ==
  LET op == t[left.at]
      name == left.at + 1
      type == dataType(t, left.tree)
  IN CASE At(t, name) \notin Names \/ (op = "." /\ type = "refused") -> Refused
       [] At(t, name) \in Names /\ op = "." /\ type = "pointer" ->
            parseArguments(t, name + 1, "Method", <<left.tree, Name(name)>>)
       [] OTHER -> Parsed(Node("Member", op, <<left.tree, Name(name)>>, 0), name + 1)

parseTailing(t, left) ==
  IF left.tree = Nothing THEN left ELSE
  CASE At(t, left.at) = "(" -> parseTailing(t, parseArguments(t, left.at, "Call", <<left.tree>>))
    [] At(t, left.at) = "[" -> parseTailing(t, parseIndexer(t, left))
    [] At(t, left.at) \in {".", "->"} -> parseTailing(t, parseMember(t, left))
    [] OTHER -> left

\* OperatorNode::parse
ParseThird(t, op, left, right, level) ==
  IF right.at # No /\ At(t, right.at) = ":"
  THEN Made(createOperator(op, FALSE), op, <<left.tree, right.tree>>, parseExpression(t, right.at + 1, level))
  ELSE Refused

parseOperator(t, op, left, level) ==
  LET right == parseExpression(t, left.at + 1, level)
  IN IF ternary(op) THEN ParseThird(t, op, left, right, level)
     ELSE Made(createOperator(op, FALSE), op, <<left.tree>>, right)

\* The level is not raised behind an operator that groups from the left.
NoAssociativityMutant(t, left, level) ==
  LET op == At(t, left.at)
  IN CASE left.at = No \/ ~isOperator(op) -> left
       [] left.at # No /\ isOperator(op) ->
            IF precedence(op) = NonPrecedence THEN Refused
            ELSE IF precedence(op) < level THEN left
            ELSE Climb(t, parseOperator(t, op, left, precedence(op)), level)

\* The loop of parseExpression.
Climb(t, left, level) ==
  LET op == At(t, left.at)
      next == IF isLeftAssociative(op) THEN precedence(op) + 1 ELSE precedence(op)
  IN CASE left.at = No \/ ~isOperator(op) -> left
       [] left.at # No /\ isOperator(op) ->
            IF precedence(op) = NonPrecedence THEN Refused
            ELSE IF precedence(op) < level THEN left
            ELSE Climb(t, parseOperator(t, op, left, next), level)

parseExpression(t, i, level) == Climb(t, parseExpressionElement(t, i), level)

\* TupleNode::parse; only the first element may be any expression unless full.
RECURSIVE parseTuple(_, _, _, _)

EndOfTuple(t, elements, at) ==
  IF \E k \in DOMAIN elements : dataType(t, elements[k]) = "refused" THEN Refused
  ELSE Parsed(Node("Tuple", ",", elements, 0), at)

MoreElements(t, elements, next, full) ==
  CASE next.at = No -> Refused
    [] next.at # No /\ next.tree # Nothing /\ At(t, next.at) = "," ->
         parseTuple(t, next.at + 1, Append(elements, next.tree), full)
    [] OTHER -> EndOfTuple(t, Children(Append(elements, next.tree)), next.at)

parseTuple(t, i, elements, full) ==
  CASE At(t, i) \in {"\n", ")"} -> EndOfTuple(t, elements, i)
    [] At(t, i) \notin {"\n", ")"} /\ full ->
         MoreElements(t, elements, parseExpression(t, i, MinimumPrecedence), full)
    [] At(t, i) \in Names /\ ~full -> MoreElements(t, elements, Parsed(Name(i), i + 1), full)
    [] OTHER -> Refused

\* A tuple, if there is a comma behind the first expression.
TupleFrom(t, first) ==
  IF first.tree = Nothing \/ At(t, first.at) # "," THEN first
  ELSE parseTuple(t, first.at + 1, <<first.tree>>, TRUE)

parseExpressionWithTuples(t, i) == TupleFrom(t, parseExpression(t, i, MinimumPrecedence))

\* The source of the assignment to the targets must be there.
Assignment(targets, source) ==
  IF source.tree = Nothing THEN Refused ELSE Made("Destructured", "=", <<targets>>, source)

Destructure(t, targets) ==
  IF targets.at = No \/ At(t, targets.at) # "=" THEN Refused
  ELSE Assignment(targets.tree, parseExpressionWithTuples(t, targets.at + 1))

\* A comma behind the first expression begins a destructured assignment.
StatementOf(t, first) ==
  IF first.tree = Nothing \/ At(t, first.at) # "," THEN first
  ELSE Destructure(t, parseTuple(t, first.at + 1, <<first.tree>>, FALSE))

parseExpressionStatement(t) == StatementOf(t, parseExpression(t, 1, MinimumPrecedence))
=============================================================================
