------------------------------- MODULE CTypes -------------------------------
(***************************************************************************)
(* The C text of a type (CTypeCodeGenerator), and what a C compiler reads  *)
(* in it.                                                                  *)
(*                                                                         *)
(* C writes a type around the name it declares; the generator works its    *)
(* way in through the pointers and out through the functions.  A C text is *)
(* a sequence of tokens.  A token is the sequence of the words it is       *)
(* spelled of, one for all but the names of tuple structures.              *)
(***************************************************************************)
EXTENDS DataTypes

C(word) == << <<word>> >>
Nothing == <<>>
Bug == C("assert(0)")   \* the generator stops at an assertion

typeCanBeConst(type) == type.kind \notin {"Void", "Vararg"} /\ type.access = "Read"
Const(type) == IF typeCanBeConst(type) THEN C("const") ELSE Nothing

RECURSIVE codeGen(_, _), codeGenType(_)

Joined(type) == FlattenSeq(FlattenSeq(
  [i \in DOMAIN type.subtypes |-> codeGen(type.subtypes[i], Nothing)]))

\* (Variations, named "...Mutant" here and below, are faults a run must notice.)
\* The name leaves out what is const.
NoConstMutant(type) ==
  << SelectSeq(Joined(type), LAMBDA w : w # "const") \o <<"tuple_t">> >>

\* In a name '*' is spelled 'P', and a space '_'.
codeGenTupleStructName(type) ==
  LET words == Joined(type)
  IN << [i \in DOMAIN words |-> IF words[i] = "*" THEN "P" ELSE words[i]] \o <<"tuple_t">> >>

codeGenScalarType(type) ==
  Const(type) \o
  CASE type.kind = "Void"      -> C("void")
    [] type.kind = "Integer"   -> C("int")
    [] type.kind = "Natural"   ->
         C(IF type.width > 16 /\ type.width <= 32 THEN "uint32_t" ELSE "unsigned int")
    [] type.kind = "Float"     -> C(IF type.width > 32 THEN "double" ELSE "float")
    [] type.kind = "Character" -> C("char")
    [] type.kind = "Closure"   -> C("three_closure_t")
    [] type.kind = "Vararg"    -> C("va_list")
    [] type.kind = "Structure" -> <<type.name>>
    [] type.kind = "Tuple"     ->
         IF type.subtypes = <<>> THEN Bug ELSE codeGenTupleStructName(type)
    [] OTHER -> Bug

codeGenArrayType(type) ==
  LET count == IF type.arrayCount > 0 THEN << <<ToString(type.arrayCount)>> >> ELSE Nothing
  IN codeGenType(Subtype(type)) \o C("[") \o count \o C("]")

\* A pointer comes here only if it has a name.
codeGenType(type) ==
  CASE type.kind = "Array" -> codeGenArrayType(type)
    [] isPointer(type)     -> IF hasName(type) THEN Const(type) \o <<type.name>> ELSE Bug
    [] OTHER               -> codeGenScalarType(type)

codeGenFunction(type, leading) ==
  LET parameter(p) == codeGen(p, IF p.label = "" THEN Nothing ELSE C(p.label))
      parameters ==
        FlattenSeq([i \in DOMAIN type.parameters |->
                      (IF i = 1 THEN Nothing ELSE C(",")) \o parameter(type.parameters[i])])
  IN codeGen(returnType(type), Nothing) \o leading
       \o C("(") \o (IF type.parameters = <<>> THEN C("void") ELSE parameters) \o C(")")

codeGenFunctionType(type, inner) == codeGenFunction(type, C("(") \o inner \o C(")"))

\* The qualifiers of the pointer come before its star.
QualifiersFirstMutant(type) ==
  (IF type.kind = "NullablePointer" THEN C("THREE_ATTR_NULLABLE") ELSE Nothing)
    \o Const(type) \o C("*")

\* What a pointer puts in front of what is inside.
PointerWords(type) ==
  C("*") \o (IF type.kind = "NullablePointer" THEN C("THREE_ATTR_NULLABLE") ELSE Nothing)
         \o Const(type)

\* inner is the name at first; the pointers come before it one by one.
codeGen(type, inner) ==
  CASE isPointer(type) /\ ~hasName(type) -> codeGen(Subtype(type), PointerWords(type) \o inner)
    [] type.kind = "Function"            -> codeGenFunctionType(type, inner)
    [] OTHER                             -> codeGenType(type) \o inner

-----------------------------------------------------------------------------
(* A type of C is the sequence of its layers, what is declared first: a     *)
(* const pointer to an int is <<const pointer, int>>.                       *)

Layer(is) == [is |-> is, qualifiers |-> {}, count |-> "", parameters |-> <<>>]

\* Words that name no type of C, so that a declaration can declare them.
Names == {<<w>> : w \in {"x", "y", "N", "Foo", "ascii", "utf8",
                         "Void", "Int", "Natural", "Float", "Char", "Vararg"}}
Symbols == {<<w>> : w \in {"*", "(", ")", "[", "]", ",", "const", "THREE_ATTR_NULLABLE"}}
Qualifiers == {<<"const">>, <<"THREE_ATTR_NULLABLE">>}

CAt(s, i) == IF i \in DOMAIN s THEN s[i] ELSE <<>>
Is(s, i, word) == CAt(s, i) = <<word>>
IsSpecifier(token) ==
  token # <<>> /\ token \notin Names /\ (token \notin Symbols \/ token = <<"const">>)

RunEnd(s, i, S) ==
  CHOOSE j \in i .. Len(s) + 1 : CAt(s, j) \notin S /\ \A k \in i .. j - 1 : CAt(s, k) \in S

\* The pointers in s[i .. j], the last first.
PointerLayers(s, i, j) ==
  LET stars == SetToSortSeq({k \in i .. j : Is(s, k, "*")}, >)
      qualifiers(k) == {s[l] : l \in k + 1 .. RunEnd(s, k + 1, Qualifiers) - 1}
  IN [n \in DOMAIN stars |-> [Layer(<<"pointer">>) EXCEPT !.qualifiers = qualifiers(stars[n])]]

Unreadable == [name |-> <<>>, layers |-> <<>>, at |-> 0]

RECURSIVE CDeclaration(_, _), CDeclarator(_, _), CSuffixes(_, _), CParameters(_, _)

CSuffixes(s, i) ==
  LET list == CParameters(s, i + 1)
      array == Is(s, i + 2, "]") /\ CAt(s, i + 1) \notin Symbols \cup Names
      end == IF Is(s, i, "(") THEN list.at ELSE IF array THEN i + 3 ELSE 0
      layer == IF Is(s, i, "(") THEN [Layer(<<"function">>) EXCEPT !.parameters = list.all]
               ELSE [Layer(<<"array">>) EXCEPT !.count = s[i + 1][1]]
      rest == CSuffixes(s, end)
  IN CASE ~Is(s, i, "(") /\ ~Is(s, i, "[") -> [layers |-> <<>>, at |-> i]
       [] (Is(s, i, "(") \/ Is(s, i, "[")) /\ end = 0 -> [layers |-> <<>>, at |-> 0]
       [] OTHER -> [layers |-> <<layer>> \o rest.layers, at |-> rest.at]

\* Behind the pointers: a name, another declarator in parentheses, or nothing.
CDeclarator(s, i) ==
  LET j == RunEnd(s, i, Qualifiers \cup {<<"*">>})
      nested == Is(s, j, "(") /\ ~IsSpecifier(CAt(s, j + 1)) /\ ~Is(s, j + 1, ")")
      inside == CDeclarator(s, j + 1)
      direct == CASE CAt(s, j) \in Names -> [name |-> s[j], layers |-> <<>>, at |-> j + 1]
                  [] nested -> IF Is(s, inside.at, ")") THEN [inside EXCEPT !.at = @ + 1]
                               ELSE Unreadable
                  [] OTHER -> [name |-> <<>>, layers |-> <<>>, at |-> j]
      suffixes == CSuffixes(s, direct.at)
  IN IF direct.at = 0 \/ suffixes.at = 0 THEN Unreadable
     ELSE [name |-> direct.name, at |-> suffixes.at,
           layers |-> direct.layers \o suffixes.layers \o PointerLayers(s, i, j - 1)]

\* Specifiers, one of them the name of a type, and a declarator.
CDeclaration(s, i) ==
  LET j == CHOOSE k \in i .. Len(s) + 1 :
             ~IsSpecifier(CAt(s, k)) /\ \A l \in i .. k - 1 : IsSpecifier(CAt(s, l))
      types == {k \in i .. j - 1 : s[k] # <<"const">>}
      declarator == CDeclarator(s, j)
      base == [Layer(s[CHOOSE k \in types : TRUE])
                 EXCEPT !.qualifiers = {s[k] : k \in i .. j - 1} \ {s[k] : k \in types}]
  IN IF ~(\E k \in types : types = {k}) \/ declarator.at = 0 THEN Unreadable
     ELSE [declarator EXCEPT !.layers = @ \o <<base>>]

\* What is in the parentheses of a function, and the place behind them.
CParameters(s, i) ==
  LET d == CDeclaration(s, i)
      rest == CParameters(s, d.at + 1)
      this == <<[name |-> d.name, layers |-> d.layers]>>
  IN CASE Is(s, i, "void") /\ Is(s, i + 1, ")") -> [all |-> <<>>, at |-> i + 2]
       [] ~(Is(s, i, "void") /\ Is(s, i + 1, ")")) /\ d.at = 0 -> [all |-> <<>>, at |-> 0]
       [] OTHER -> CASE Is(s, d.at, ")") -> [all |-> this, at |-> d.at + 1]
                     [] Is(s, d.at, ",") -> [all |-> this \o rest.all, at |-> rest.at]
                     [] OTHER -> [all |-> <<>>, at |-> 0]

\* The reading of a whole text.
CReading(s) ==
  LET d == CDeclaration(s, 1)
  IN IF d.at = Len(s) + 1 THEN [name |-> d.name, layers |-> d.layers]
     ELSE [name |-> <<>>, layers |-> <<>>]
=============================================================================
