----------------------------- MODULE TokenStream -----------------------------
(***************************************************************************)
(* What the lexer promises to the parser: a text is a stream of tokens.    *)
(* The next one is taken, or one further on is looked at; whitespace is    *)
(* passed over while it is filtered, and only then.  Nothing else counts:  *)
(* neither how far somebody has looked ahead, nor when the filter has been *)
(* switched.                                                               *)
(***************************************************************************)
EXTENDS Integers, Sequences, FiniteSets

CONSTANTS
  Types,        \* the types of tokens
  MaxDistance,  \* bound: how far somebody looks ahead
  MaxPosition   \* bound: how many tokens of the stream are ever produced

VARIABLES
  text,              \* the types of the tokens of the text
  at,                \* how many of them have been taken or passed over
  filterWhitespace,
  answer             \* the token that was last taken or looked at

vars == <<text, at, filterWhitespace, answer>>

\* Behind the end of the text come undefined tokens.
TypeAt(p) == IF p <= Len(text) THEN text[p] ELSE "undefined"
TokenAt(p) == [type |-> TypeAt(p), place |-> p]

Visible(p) == filterWhitespace => TypeAt(p) # "whitespace"

\* p is the place of the visible token at a distance.
IsAhead(p, distance) ==
  /\ Visible(p)
  /\ Cardinality({q \in at + 1 .. p : Visible(q)}) = distance

Init ==
  /\ text \in Seq(Types)
  /\ at = 0
  /\ filterWhitespace = TRUE
  /\ answer = [type |-> "undefined", place |-> 0]

Look(distance) ==
  /\ \E p \in at + 1 .. MaxPosition : IsAhead(p, distance) /\ answer' = TokenAt(p)
  /\ UNCHANGED <<text, at, filterWhitespace>>

Take ==
  /\ \E p \in at + 1 .. MaxPosition :
       IsAhead(p, 1) /\ answer' = TokenAt(p) /\ at' = p
  /\ UNCHANGED <<text, filterWhitespace>>

Switch ==
  /\ filterWhitespace' \in BOOLEAN
  /\ UNCHANGED <<text, at, answer>>

Next == Take \/ Switch \/ \E distance \in 1 .. MaxDistance : Look(distance)

Spec == Init /\ [][Next]_vars

=============================================================================
