---------------------------- MODULE OperatorTrees ----------------------------
(***************************************************************************)
(* Trees of expressions, and the tree that a text means if operators bind  *)
(* by levels.  This is how the standard of C says it, and what the tables  *)
(* of Token.cpp say about Three, without a parser: the root of a text is   *)
(* the infix operator of the lowest level.                                 *)
(***************************************************************************)
EXTENDS Integers, Sequences, SequencesExt, FiniteSets, FiniteSetsExt

\* Symbols of a text; at says which place of the source a symbol is from, 0 if none.
Symbol(str, at) == [str |-> str, at |-> at]

\* A node of a tree.  The place of a name, or of what closes the arguments of a call.
Node(kind, op, children, at) == [kind |-> kind, op |-> op, children |-> children, at |-> at]
Nothing == Node("Null", "", <<>>, 0)
Name(at) == Node("Variable", "", <<>>, at)
Call(callee, arguments, at) == Node("Call", "()", <<callee>> \o arguments, at)

RECURSIVE Leaves(_)
Leaves(tree) ==
  IF tree.kind = "Variable" THEN <<tree.at>>
  ELSE FlattenSeq([i \in DOMAIN tree.children |-> Leaves(tree.children[i])])

RECURSIVE Calls(_)
Calls(tree) ==
  (IF tree.kind \in {"Call", "Method"} THEN {tree} ELSE {})
    \cup UNION {Calls(tree.children[i]) : i \in DOMAIN tree.children}

-----------------------------------------------------------------------------
(* A grammar: the levels of its infix operators, those that group from the  *)
(* right, and the lowest level that may stand between ? and :.              *)

PrefixOperators == {"&", "*", "-", "!"}
Brackets == [open |-> {"(", "[", "?"}, close |-> {")", "]", ":"}]

Depth(s, i) ==
  LET count(S, last) == Cardinality({j \in 1 .. last : s[j].str \in S})
  IN count(Brackets.open, i - 1) - count(Brackets.close, i)

\* An infix operator has an operand in front of it.
Infixes(s, grammar) ==
  {i \in 2 .. Len(s) :
     /\ s[i].str \in DOMAIN grammar.level
     /\ s[i - 1].str \in {"name", ")", "]"}
     /\ Depth(s, i) = 0}

\* The last to be done: of those at the lowest level, the first that groups from the
\* right, or else the last.
Root(s, grammar) ==
  LET level(i) == grammar.level[s[i].str]
      all == Infixes(s, grammar)
      lowest == {i \in all : \A j \in all : level(i) <= level(j)}
      right == {i \in lowest : s[i].str \in grammar.right}
  IN IF right # {} THEN Min(right) ELSE Max(lowest)

\* The places where s is cut: behind it the next part begins.
Parts(s, cuts) ==
  LET ends == SetToSortSeq(cuts \cup {Len(s) + 1}, <)
      begin(i) == IF i = 1 THEN 1 ELSE ends[i - 1] + 1
  IN [i \in DOMAIN ends |-> SubSeq(s, begin(i), ends[i] - 1)]

\* Nothing in a part is nothing in the whole.
Whole(kind, op, children, at) ==
  IF \E i \in DOMAIN children : children[i] = Nothing THEN Nothing
  ELSE Node(kind, op, children, at)

RECURSIVE Meaning(_, _)

\* s is read as a conditional, with its ? at i.
Conditional(s, i, grammar) ==
  LET colons == {j \in i + 1 .. Len(s) : s[j].str = ":" /\ Depth(s, j) = 0}
      parts  == Parts(s, {i, Min(colons)})
  IN IF colons = {} THEN Nothing
     ELSE IF \E j \in Infixes(parts[2], grammar) :
               grammar.level[parts[2][j].str] < grammar.middle THEN Nothing
     ELSE Whole("Ternary", "?", [k \in 1 .. 3 |-> Meaning(parts[k], grammar)], 0)

\* s ends with a bracket that opens at i.
Bracketed(s, i, grammar) ==
  LET operand == Meaning(SubSeq(s, 1, i - 1), grammar)
      inside  == SubSeq(s, i + 1, Len(s) - 1)
      commas  == {j \in DOMAIN inside : inside[j].str = "," /\ Depth(inside, j) = 0}
      arguments == IF inside = <<>> THEN <<>> ELSE Parts(inside, commas)
      pair == s[i].str \o Last(s).str
  IN CASE pair = "[]" -> Whole("Indexer", "[]", <<operand, Meaning(inside, grammar)>>, 0)
       [] pair = "()" /\ i = 1 -> Meaning(inside, grammar)
       [] pair = "()" /\ i > 1 ->
            Whole("Call", "()",
                  <<operand>> \o [k \in DOMAIN arguments |-> Meaning(arguments[k], grammar)],
                  Last(s).at)
       [] OTHER -> Nothing

Meaning(s, grammar) ==
  LET n == Len(s)
      i == Root(s, grammar)
      opened == {j \in DOMAIN s : s[j].str \in {"(", "["} /\ Depth(s, j) = 0}
  IN CASE s = <<>> -> Nothing
       [] n > 0 /\ Infixes(s, grammar) # {} ->
            IF s[i].str = "?" THEN Conditional(s, i, grammar)
            ELSE Whole("Binary", s[i].str,
                       <<Meaning(SubSeq(s, 1, i - 1), grammar),
                         Meaning(SubSeq(s, i + 1, n), grammar)>>, 0)
       [] OTHER ->
            CASE s[1].str \in PrefixOperators ->
                   Whole("Unary", s[1].str, <<Meaning(Tail(s), grammar)>>, 0)
              [] n = 1 /\ s[1].str = "name" -> Name(s[1].at)
              [] n > 2 /\ s[n].str = "name" /\ s[n - 1].str \in {".", "->"} ->
                   Whole("Member", s[n - 1].str,
                         <<Meaning(SubSeq(s, 1, n - 2), grammar), Name(s[n].at)>>, 0)
              [] s[n].str \in {")", "]"} /\ opened # {} -> Bracketed(s, Max(opened), grammar)
              [] OTHER -> Nothing

-----------------------------------------------------------------------------
(* Trees up to the grouping in a chain of operators of one level.           *)

RECURSIVE Ungrouped(_, _), Chain(_, _, _)

Chain(tree, level, grammar) ==
  LET op(str) == <<Node("Operator", str, <<>>, 0)>>
      c == tree.children
  IN IF tree.kind \in {"Binary", "Ternary"} /\ grammar.level[tree.op] = level
     THEN IF tree.kind = "Binary"
          THEN Chain(c[1], level, grammar) \o op(tree.op) \o Chain(c[2], level, grammar)
          ELSE Chain(c[1], level, grammar) \o op("?") \o <<Ungrouped(c[2], grammar)>>
                 \o op(":") \o Chain(c[3], level, grammar)
     ELSE <<Ungrouped(tree, grammar)>>

Ungrouped(tree, grammar) ==
  IF tree.kind \in {"Binary", "Ternary"}
  THEN Node("Chain", "", Chain(tree, grammar.level[tree.op], grammar), 0)
  ELSE [tree EXCEPT !.children = [i \in DOMAIN @ |-> Ungrouped(@[i], grammar)],
                    !.at = IF tree.kind = "Variable" THEN @ ELSE 0]
=============================================================================
