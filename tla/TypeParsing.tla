----------------------------- MODULE TypeParsing -----------------------------
(***************************************************************************)
(* TypeParser reads a type twice.  The peek functions only look ahead for  *)
(* where a type ends, to tell declarations from expressions; the parse     *)
(* functions take the tokens and build the type.  They are two grammars,   *)
(* written apart.                                                          *)
(*                                                                         *)
(* A text is the sequence of its tokens.  A peek function is given the     *)
(* place where it begins and returns the one behind what it has seen, No   *)
(* if there is no type, and Forever if it never returns.  A parse function *)
(* returns what it has built with the place behind it; the place is No if  *)
(* an assertion fails.                                                     *)
(***************************************************************************)
EXTENDS DataTypes

No == 0
Forever == -1

Identifiers == {"Void", "Int", "Natural", "Float", "Char", "Vararg", "P", "N",
                "Foo", "ascii", "utf8", "x", "y", "cas"}
Encodings == {"ascii", "utf8"}
LiteralIntegers == {"4", "32", "64"}
Value(literal) == CASE literal = "4" -> 4 [] literal = "32" -> 32 [] literal = "64" -> 64
Postfixes == {"!", "?"}
PlainAnnotations == {"@const"}                   \* and @restrict
ArgumentAnnotations == {"@volatile", "@access"}  \* and @alias
Annotations == PlainAnnotations \cup ArgumentAnnotations
Punctuation == {"*", "[", "]", "(", ")", "{", "}", "->", ",", ":"}

Tokens == Identifiers \cup LiteralIntegers \cup Postfixes \cup Annotations
            \cup Punctuation \cup {"vararg", "other"}

At(t, i) == IF i \in DOMAIN t THEN t[i] ELSE "other"
closingCounterpart(open) == IF open = "(" THEN ")" ELSE "}"

\* The place behind tokens of a set.
Behind(t, i, S) ==
  CHOOSE j \in i .. Len(t) + 1 :
    At(t, j) \notin S /\ \A k \in i .. j - 1 : At(t, k) \in S

-----------------------------------------------------------------------------
(* Qualified names: the same loop in peekQualifiedName, parseQualifiedName. *)

GoesOn(t, i) ==
  At(t, i) = ":" /\ At(t, i + 1) = ":" /\ At(t, i + 2) \in Identifiers

RECURSIVE QualifiedName(_, _)
QualifiedName(t, i) ==
  IF GoesOn(t, i + 1)
  THEN LET rest == QualifiedName(t, i + 3)
       IN [name |-> <<At(t, i)>> \o rest.name, at |-> rest.at]
  ELSE [name |-> <<At(t, i)>>, at |-> i + 1]

-----------------------------------------------------------------------------
(* Peeking. *)

RECURSIVE peekTypePrefixes(_, _), peekType(_, _), peekTypeList(_, _, _, _, _)

peekTypePostfixes(t, i) == Behind(t, i, Postfixes)

RECURSIVE peekTypeAnnotations(_, _)
peekTypeAnnotations(t, i) ==
  LET plain == \/ At(t, i) \in PlainAnnotations
               \/ At(t, i) = "@volatile" /\ At(t, i + 1) # "("
      whole == /\ At(t, i) \in ArgumentAnnotations
               /\ At(t, i + 1) = "(" /\ At(t, i + 3) = ")"
  IN CASE plain -> peekTypeAnnotations(t, i + 1)
       [] whole -> peekTypeAnnotations(t, i + 4)
       [] OTHER -> i

\* An array that is not well-formed is passed over as far as it is.
peekArrayPrefix(t, i) ==
  IF At(t, i + 1) \notin LiteralIntegers THEN i + 1
  ELSE IF At(t, i + 2) # "]" THEN i + 2 ELSE peekTypePrefixes(t, i + 3)

peekTypePrefixes(t, i) ==
  CASE At(t, i) = "*" -> peekTypePrefixes(t, peekTypePostfixes(t, i + 1))
    [] At(t, i) = "[" -> peekArrayPrefix(t, i)
    [] At(t, i) \in Annotations ->
         LET j == peekTypeAnnotations(t, i)
         IN IF j = i THEN Forever ELSE peekTypePrefixes(t, j)
    [] OTHER -> i

\* What may come behind a colon: a specifier, or the next colon.
peekSpecifiers(t, i) ==
  LET Behind1(j, S) == IF At(t, j) \in S THEN j + 1
                       ELSE IF At(t, j) = ":" THEN j ELSE No
      first  == Behind1(i + 1, Identifiers \cup LiteralIntegers)
      second == Behind1(first + 1, LiteralIntegers)
  IN CASE At(t, i) # ":" -> i
       [] At(t, i) = ":" /\ (first = No \/ At(t, first) # ":") -> first
       [] OTHER ->
            IF second = No \/ At(t, second) # ":" THEN second
            ELSE IF At(t, second + 1) \in LiteralIntegers THEN second + 2 ELSE No

peekSimpleType(t, i) ==
  IF At(t, i) = "vararg" THEN i + 1
  ELSE IF At(t, i) \notin Identifiers THEN No
  ELSE LET q == QualifiedName(t, i)
       IN IF definesTypeWithName(q.name) THEN peekSpecifiers(t, q.at) ELSE No

peekTypeList(t, i, closing, allowLabel, mustPeekType) ==
  LET end == peekType(t, i)
      label == allowLabel /\ At(t, end) \in Identifiers
      j == IF label THEN end + 1 ELSE end
  IN CASE ~mustPeekType /\ At(t, i) = closing -> i
       [] mustPeekType \/ At(t, i) # closing ->
            IF end \in {No, Forever} THEN end
            ELSE IF At(t, j) = "," THEN peekTypeList(t, j + 1, closing, allowLabel, TRUE)
            ELSE peekTypeList(t, j, closing, allowLabel, FALSE)

peekFunctionOrTupleType(t, i) ==
  LET closing == closingCounterpart(At(t, i))
      end == peekTypeList(t, i + 1, closing, closing = ")", FALSE)
  IN IF end \in {No, Forever} THEN end
     ELSE IF At(t, end + 1) # "->" THEN end + 1 ELSE peekType(t, end + 2)

peekType(t, i) ==
  LET j == peekTypePrefixes(t, i)
      end == peekSimpleType(t, j)
  IN CASE j = Forever -> Forever
       [] j # Forever /\ At(t, j) \in {"(", "{"} -> peekFunctionOrTupleType(t, j)
       [] OTHER -> IF end = No THEN No ELSE peekTypePostfixes(t, end)

-----------------------------------------------------------------------------
(* Parsing. *)

Parsed(type, at) == [type |-> type, at |-> at]
Failed == Parsed(DataType("Undefined"), No)

\* parseTypePostfixes, which is only used behind the star of a pointer.
parsePointerPostfixes(t, i) ==
  LET pointer == DataType("Pointer")
      j == IF At(t, i) = "!" THEN i + 1 ELSE i
      p == IF At(t, i) = "!" THEN mutableVersion(pointer) ELSE pointer
  IN IF At(t, j) = "?" THEN Parsed([p EXCEPT !.kind = "NullablePointer"], j + 1)
     ELSE Parsed(p, j)

\* (Variations, named "...Mutant" here and below, are faults a run must notice.)
\* The question mark is looked for before the exclamation mark.
SwappedPostfixesMutant(type, t, i) ==
  LET j == IF At(t, i) = "?" THEN i + 1 ELSE i
      p == IF At(t, i) = "?" THEN wrapInType("NullablePointer", type) ELSE type
  IN IF At(t, j) = "!" THEN Parsed(mutableVersion(p), j + 1) ELSE Parsed(p, j)

applyTypePostfixes(type, t, i) ==
  LET j == IF At(t, i) = "!" THEN i + 1 ELSE i
      p == IF At(t, i) = "!" THEN mutableVersion(type) ELSE type
  IN IF At(t, j) = "?" THEN Parsed(wrapInType("NullablePointer", p), j + 1)
     ELSE Parsed(p, j)

parseCharacterTypeSpecifiers(type, t, i) ==
  CASE At(t, i) # ":" -> Parsed(type, i)
    [] At(t, i) = ":" /\ At(t, i + 1) \in Encodings ->
         Parsed([type EXCEPT !.encoding = t[i + 1]], i + 2)
    [] OTHER -> Failed

\* Width, alignment and vector size; the first two may be left out before a colon.
RECURSIVE parseSpecifiers(_, _, _, _)
parseSpecifiers(fields, type, t, i) ==
  LET literal == At(t, i + 1) \in LiteralIntegers
      rest == Tail(fields)
  IN IF fields = <<>> \/ At(t, i) # ":" THEN Parsed(type, i)
     ELSE IF literal
     THEN parseSpecifiers(rest, [type EXCEPT ![Head(fields)] = Value(t[i + 1])], t, i + 2)
     ELSE IF At(t, i + 1) = ":" /\ rest # <<>>
     THEN parseSpecifiers(rest, type, t, i + 1)
     ELSE Failed

parseTypeSpecifiers(type, t, i) ==
  IF type.kind = "Character" THEN parseCharacterTypeSpecifiers(type, t, i)
  ELSE parseSpecifiers(<<"width", "alignment", "vector">>, type, t, i)

parseNamedType(t, i) ==
  LET q == QualifiedName(t, i)
      p == parseTypeSpecifiers(dataTypeForName(q.name), t, q.at)
  IN IF At(t, i) \notin Identifiers \/ p.at = No THEN Failed
     ELSE applyTypePostfixes(p.type, t, p.at)

RECURSIVE parseType(_, _), parseTypes(_, _, _)

\* The type that a pointer or an array has for its elements.
parseElement(type, t, i) ==
  LET p == parseType(t, i)
  IN IF p.at \in {No, Forever} THEN p
     ELSE applyTypePostfixes([type EXCEPT !.subtypes = <<p.type>>], t, p.at)

parsePointerType(t, i) ==
  LET p == parsePointerPostfixes(t, i + 1) IN parseElement(p.type, t, p.at)

parseArrayType(t, i) ==
  LET counted == At(t, i + 1) \in LiteralIntegers
      j == IF counted THEN i + 2 ELSE i + 1
      count == IF counted THEN Value(t[i + 1]) ELSE 0
  IN IF At(t, j) # "]" THEN Failed
     ELSE parseElement([DataType("Array") EXCEPT !.arrayCount = count], t, j + 1)

\* The loop of parseTypeList.  A list that is not well-formed ends where it is, and
\* the caller misses its closing punctuation there.
parseTypes(t, i, closing) ==
  LET p == parseType(t, i)
      label == At(t, p.at) \in Identifiers
      type == IF label THEN Labelled(p.type, t[p.at]) ELSE p.type
      j == IF label THEN p.at + 1 ELSE p.at
      rest == IF At(t, j) = closing THEN [types |-> <<>>, at |-> j]
              ELSE parseTypes(t, IF At(t, j) = "," THEN j + 1 ELSE j, closing)
  IN CASE peekType(t, i) = No -> [types |-> <<>>, at |-> i]
       [] peekType(t, i) = Forever -> [types |-> <<>>, at |-> Forever]
       [] OTHER -> IF p.at \in {No, Forever} THEN [types |-> <<>>, at |-> p.at]
                   ELSE [types |-> <<type>> \o rest.types, at |-> rest.at]

parseTypeList(t, i, closing) ==
  IF At(t, i) = closing THEN [types |-> <<>>, at |-> i] ELSE parseTypes(t, i, closing)

parseReturnType(type, t, i) ==
  LET p == parseType(t, i) IN Parsed([type EXCEPT !.returns = <<p.type>>], p.at)

\* What is in parentheses is taken for a tuple without looking for an arrow.
AlwaysTupleMutant(t, i) ==
  LET list == parseTypeList(t, i + 1, ")")
  IN CASE list.at = Forever -> Parsed(DataType("Undefined"), Forever)
       [] list.at # Forever /\ At(t, list.at) # ")" -> Failed
       [] OTHER -> Parsed([DataType("Tuple") EXCEPT !.subtypes = list.types], list.at + 1)

parseFunctionOrTupleType(t, i) ==
  LET list == parseTypeList(t, i + 1, ")")
  IN CASE list.at = Forever -> Parsed(DataType("Undefined"), Forever)
       [] list.at # Forever /\ At(t, list.at) # ")" -> Failed
       [] OTHER ->
            IF At(t, list.at + 1) # "->"
            THEN Parsed([DataType("Tuple") EXCEPT !.subtypes = list.types], list.at + 1)
            ELSE parseReturnType([DataType("Function") EXCEPT !.parameters = list.types],
                                 t, list.at + 2)

\* The first parameter of a closure is its environment.
parseClosureType(t, i) ==
  LET list == parseTypeList(t, i + 1, "}")
      environment == wrapInType("Pointer", DataType("Void"))
      type == [DataType("Closure") EXCEPT !.parameters = <<environment>> \o list.types]
  IN CASE list.at = Forever -> Parsed(DataType("Undefined"), Forever)
       [] list.at # Forever /\ At(t, list.at) # "}" -> Failed
       [] OTHER ->
            IF At(t, list.at + 1) # "->"
            THEN Parsed([type EXCEPT !.returns = <<DataType("Void")>>], list.at + 1)
            ELSE parseReturnType(type, t, list.at + 2)

parseType(t, i) ==
  CASE At(t, i) = "*"      -> parsePointerType(t, i)
    [] At(t, i) = "["      -> parseArrayType(t, i)
    [] At(t, i) = "("      -> parseFunctionOrTupleType(t, i)
    [] At(t, i) = "{"      -> parseClosureType(t, i)
    [] At(t, i) = "vararg" -> Parsed(DataType("Vararg"), i + 1)
    [] OTHER               -> parseNamedType(t, i)
=============================================================================
