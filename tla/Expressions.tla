----------------------------- MODULE Expressions -----------------------------
(***************************************************************************)
(* The way of an expression statement through the compiler: it is parsed,  *)
(* and printed for C.                                                      *)
(***************************************************************************)
EXTENDS CExpressions

CONSTANTS
  Written,   \* texts of well-formed expressions
  Alphabet,  \* tokens of short texts
  MaxTokens  \* bound: short texts are all up to this length

ASSUME ConstantsAssumption ==
  /\ Written \subseteq Seq(Tokens) /\ Alphabet \subseteq Tokens
  /\ MaxTokens \in Nat

VARIABLES
  text,  \* the tokens of the statement
  tree,  \* what has been parsed
  at,    \* the next token
  code,  \* its C text, a sequence of statements
  step   \* what has happened last

vars == <<text, tree, at, code, step>>

Init ==
  /\ text \in Written \cup UNION {[1 .. n -> Alphabet] : n \in 0 .. MaxTokens}
  /\ tree = Nothing
  /\ at = 1
  /\ code = <<>>
  /\ step = "written"

\* A statement that is nothing ends the body it is in (see FunctionBodies).
ParseStatement ==
  /\ step = "written"
  /\ LET p == parseExpressionStatement(text)
     IN /\ tree' = p.tree
        /\ at' = IF p.at = No THEN at ELSE p.at
        /\ step' = CASE p.at = No -> "refused"
                     [] p.at # No -> IF p.tree = Nothing THEN "nothing" ELSE "parsed"
  /\ UNCHANGED <<text, code>>

Printing ==
  /\ step = "parsed"
  /\ LET c == PrintStatement(text, tree)
     IN IF \E i \in DOMAIN c : Throw[1] \in Range(c[i])
        THEN step' = "refused" /\ UNCHANGED code
        ELSE code' = c /\ step' = "printed"
  /\ UNCHANGED <<text, tree, at>>

Next == ParseStatement \/ Printing
Spec == Init /\ [][Next]_vars

-----------------------------------------------------------------------------
(* Properties. *)

Uses(S) == \E i \in DOMAIN text : text[i] \in S

\* The tree that the tables of levels and associativity give the text.
Tabled == IF Uses(Unusual) THEN Nothing ELSE Meaning(Symbols(text), ThreeGrammar)

(* An expression is parsed as a whole, and is grouped as the levels and the *)
(* associativity of its operators say, whatever else is around: of all      *)
(* operators outside of brackets the root is the last one that is to be     *)
(* done (Parser::parseExpression, PrecedenceTest of ParserTests_Operators). *)
GroupedAsTheTablesSay ==
  /\ step \in {"parsed", "printed"} /\ Tabled # Nothing =>
       at = Len(text) + 1 /\ AsWritten(tree) = Tabled
  /\ step = "nothing" => Tabled = Nothing
  /\ step = "refused" /\ ~Uses({"."}) => Tabled = Nothing \/ tree # Nothing

\* Parentheses around operators that C might read otherwise without them; and operators
\* behind a variable that is printed with one in front.
Opened(i) == text[i] = "(" /\ (i = 1 \/ text[i - 1] \notin Names \cup {")", "]"})
GroupsOperators ==
  \E i \in DOMAIN text : Opened(i) /\
    LET inside == SubSeq(Symbols(text), i + 1, Len(text))
        end == Min({j \in DOMAIN inside : inside[j].str = ")" /\ Depth(inside, j) = -1}
                     \cup {Len(inside)})
    IN Infixes(SubSeq(inside, 1, end - 1), ThreeGrammar) # {}
ReferenceGoesOn ==
  \E i \in DOMAIN text : text[i] = "r" /\ At(text, i + 1) \in {".", "->", "[", "("}

GroupedAlike ==
  Ungrouped(Meaning(code[1], CGrammar), CGrammar) = Ungrouped(InC(text, tree), CGrammar)

(* C groups the printed text as it was grouped in Three, operators of one   *)
(* level aside: there are two tables of levels, and no parentheses in what  *)
(* is printed.                                                              *)
CGroupsAlike ==
  step = "printed" /\ Tabled # Nothing /\ ~GroupsOperators /\ ~ReferenceGoesOn => GroupedAlike

(* Parentheses mean what they say: a multiplication of a subtraction        *)
(* (ParserTests_Operators.cpp:90) is one in C.                              *)
ParenthesesAreKept ==
  step = "printed" /\ Tabled # Nothing /\ ~ReferenceGoesOn => GroupedAlike

\* A call without its parenthesis takes the token that is there instead.
CallsAreClosed == \A call \in Calls(tree) : At(text, call.at) = ")"

NamesUpTo(i) == SelectSeq([j \in 1 .. i |-> j], LAMBDA j : text[j] \in Names)
Printed == SelectSeq(FlattenSeq(code), LAMBDA symbol : symbol.at # 0)

(* Every operand that has been taken from the text, well-formed or not, is  *)
(* in the tree, once and in the order of the text, and in the C text, which *)
(* evaluates it once: nothing is dropped with an error, and the source of a *)
(* destructured assignment is not repeated.                                 *)
OperandsAreKept ==
  step \in {"parsed", "nothing", "printed"} /\ CallsAreClosed =>
    /\ Leaves(tree) = NamesUpTo(at - 1)
    /\ step = "printed" =>
         /\ Len(Printed) = Len(Leaves(tree))
         /\ {Printed[i].at : i \in DOMAIN Printed} = Range(Leaves(tree))

(* What is printed, C can read: an operator whose operand could not be      *)
(* parsed, and is not in the tree, does not get as far.  (C has no infix    *)
(* ++ and --; a tuple that is destructured has no labels.)                  *)
PrintedIsC ==
  step = "printed" /\ ~Uses({"++", "--"}) /\ (tree.kind = "Destructured" => tree.children[2].kind # "Tuple") =>
    \A i \in DOMAIN code : Meaning(code[i], CGrammar) # Nothing
=============================================================================
