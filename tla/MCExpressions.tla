---------------------------- MODULE MCExpressions ----------------------------
(* Well-formed expressions: operands with operators between them. *)
EXTENDS Expressions

\* One operator of most levels; a conditional with its middle is an infix operator.
Between == {<<op>> : op \in {"*", "+", "-", "==", "&", "||", "="}} \cup {<<"?", "b", ":">>}

Operands ==
  {<<"a">>, <<"-", "a">>, <<"(", "a", "-", "b", ")">>, <<"p", ".", "a", "(", "b", ")">>,
   <<"*", "p", "[", "a", "=", "b", "]">>, <<"g", "(", "r", ",", "a", ")">>,
   <<"r", "->", "a">>}
Plain == {<<"a">>, <<"&", "p", "->", "a">>}

Chains(n, operands, between) ==
  {FlattenSeq([i \in 1 .. n |-> e[i] \o o[i]]) \o e[n + 1] :
     e \in [1 .. n + 1 -> operands], o \in [1 .. n -> between]}

Sources == {<<"g", "(", ")">>, <<"a", ",", "g", "(", ")">>, <<"b">>}
Destructured ==
  {t \o <<"=">> \o s : t \in {<<"a", ",", "b">>, <<"p", "->", "a", ",", "b">>, <<"a", ",", "b", ",", "r">>},
                       s \in Sources}

MCWritten ==
  Chains(1, Operands, Between) \cup Chains(2, Operands, Between) \cup Chains(3, Plain, Between)
    \cup Destructured

MCAlphabet ==
  {"a", "p", "g", "-", "+", "?", ":", "=", "(", ")", "[", ",", ".", "~", "\n"}

MCFewWritten == {<<"a", "=", "(", "a", "-", "b", ")", "*", "b">>}
                  \cup Chains(1, Operands, Between)
=============================================================================
