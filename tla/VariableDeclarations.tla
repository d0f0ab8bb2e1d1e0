------------------------ MODULE VariableDeclarations ------------------------
(***************************************************************************)
(* The way of a declaration through the compiler: its type is looked for,  *)
(* parsed, given to the name that follows, and printed for C.  One         *)
(* declaration is compiled at a time.  If the look-ahead never returns,    *)
(* that is noted in step as "looping", a failed assertion as "refused".    *)
(***************************************************************************)
EXTENDS TypeParsing, CTypes, FiniteSets

CONSTANTS
  Written,   \* written types: [text, meant] records, meant is the type
  Edited,    \* those of them that are also seen with one token changed
  Alphabet,  \* the tokens of a change, and of short texts
  MaxTokens  \* bound: short texts are all up to this length

VARIABLES
  text,      \* the tokens of the declaration
  meant,     \* the type that was written, Undefined if none was
  peeked,    \* where peekDepthIfAtType has seen the type end, or No
  at,        \* the next token
  declared,  \* _declaredType and _name
  name,
  code,      \* the C text of the declaration
  step       \* what has happened last

vars == <<text, meant, peeked, at, declared, name, code, step>>

Undefined == DataType("Undefined")

\* A program has a name where the type ends.
Init ==
  /\ \/ \E s \in Written : text = Append(s.text, "x") /\ meant = s.meant
     \/ /\ meant = Undefined
        /\ \/ \E s \in Edited : \E i \in DOMAIN s.text :
                \/ text = Append(RemoveAt(s.text, i), "x")
                \/ \E token \in Alphabet : text = Append(ReplaceAt(s.text, i, token), "x")
           \/ \E n \in 0 .. MaxTokens : \E t \in [1 .. n -> Alphabet] : text = Append(t, "x")
  /\ peeked = No
  /\ at = 1
  /\ declared = Undefined
  /\ name = ""
  /\ code = <<>>
  /\ step = "written"

Stop(how) ==
  /\ step' = how
  /\ UNCHANGED <<text, meant, at, declared, name, code>>

\* parseTypeIdentifierPair, first: no type is fine, a type must have a name behind it.
PeekType ==
  /\ step = "written"
  /\ peeked' = peekType(text, 1)
  /\ Stop(CASE peeked' = Forever -> "looping"
            [] peeked' = No      -> "untyped"
            [] OTHER             -> IF At(text, peeked') \in Identifiers \cup {"vararg"}
                                    THEN "peeked" ELSE "refused")

ParseType ==
  /\ step = "peeked"
  /\ LET p == parseType(text, 1)
     IN \/ p.at \in {No, Forever} /\ Stop(IF p.at = No THEN "refused" ELSE "looping")
        \/ /\ p.at \notin {No, Forever}
           /\ declared' = p.type
           /\ at' = p.at
           /\ step' = "parsed"
           /\ UNCHANGED <<text, meant, name, code>>
  /\ UNCHANGED peeked

\* Then the name, which becomes the label of the type (parseVariable).
ParseName ==
  /\ step \in {"parsed", "untyped"}
  /\ UNCHANGED <<text, meant, peeked, code>>
  /\ IF At(text, at) \in Identifiers /\ identifierAvailableForDefinition(At(text, at))
     THEN /\ name' = text[at]
          /\ declared' = Labelled(declared, text[at])
          /\ at' = at + 1
          /\ step' = "named"
     ELSE step' = "message" /\ UNCHANGED <<at, declared, name>>

\* visit(VariableDeclarationNode&).
PrintDeclaration ==
  /\ step = "named"
  /\ UNCHANGED <<text, meant, peeked, at, declared, name>>
  /\ LET c == codeGen(declared, C(name))
     IN IF "assert(0)" \in Range(FlattenSeq(c)) THEN step' = "refused" /\ UNCHANGED code
        ELSE code' = c /\ step' = "printed"

Next == PeekType \/ ParseType \/ ParseName \/ PrintDeclaration
Spec == Init /\ [][Next]_vars

-----------------------------------------------------------------------------
(* A type as it is written is read as it is written: the look-ahead finds   *)
(* its end, and the parse takes all of it and builds the type that was      *)
(* meant (the examples of TypeParserTests.cpp, combined).                   *)
WrittenTypesAreRead ==
  meant # Undefined =>
    /\ step \notin {"message", "looping"}
    /\ step = "refused" => name # ""
    /\ name # "" => declared = Labelled(meant, name) /\ at = Len(text) + 1

\* Texts in which the look-ahead is strict: no annotations and specifiers, whole
\* arrays, at most one "!" and one "?" in this order, and no labels in braces.
Strict(t) ==
  LET next(i) == At(t, i + 1)
      closes == Identifiers \cup Postfixes \cup {")", "}"}
  IN \A i \in DOMAIN t :
       /\ t[i] \notin Annotations \cup {":", "vararg"}
       /\ t[i] = "[" => next(i) \in LiteralIntegers /\ At(t, i + 2) = "]"
       /\ t[i] \in Postfixes /\ next(i) \in Postfixes => t[i] = "!" /\ next(i) = "?"
       /\ t[i] \in closes /\ next(i) \in Identifiers /\ i < Len(t) - 1 =>
            \A j \in DOMAIN t : t[j] # "{"

(* The two grammars see one type: where both find a type in a text, whoever *)
(* wrote it, the parse stops where the look-ahead has stopped, or at the    *)
(* postfixes that the look-ahead takes in any number and order.  And a      *)
(* declaration that the look-ahead has found is not refused when it is      *)
(* parsed, in texts where the look-ahead is strict.                         *)
ReadingsEndTogether ==
  /\ step = "parsed" =>
       /\ at <= peeked
       /\ \A i \in at .. peeked - 1 : text[i] \in Postfixes
  /\ Strict(text) /\ name = "" =>
       /\ step = "refused" => At(text, peeked) \notin Identifiers
       /\ step # "looping"
       /\ step = "message" =>
            peeked = No \/ ~identifierAvailableForDefinition(text[peeked])

-----------------------------------------------------------------------------
(* What a declaration must mean to C. *)

Qualifies(type) ==
  (IF typeCanBeConst(type) THEN {<<"const">>} ELSE {})
    \cup (IF type.kind = "NullablePointer" THEN {<<"THREE_ATTR_NULLABLE">>} ELSE {})

RECURSIVE CType(_)
CType(type) ==
  LET layer(is) == [Layer(is) EXCEPT !.qualifiers = Qualifies(type)]
      parameter(p) == [name |-> IF p.label = "" THEN <<>> ELSE <<p.label>>, layers |-> CType(p)]
  IN CASE isPointer(type) /\ ~hasName(type) -> <<layer(<<"pointer">>)>> \o CType(Subtype(type))
       [] type.kind = "Array" ->
            <<[Layer(<<"array">>) EXCEPT !.count =
                 IF type.arrayCount = 0 THEN "" ELSE ToString(type.arrayCount)]>>
              \o CType(Subtype(type))
       [] type.kind = "Function" ->
            <<[Layer(<<"function">>) EXCEPT !.parameters =
                 [i \in DOMAIN type.parameters |-> parameter(type.parameters[i])]]>>
              \o CType(returnType(type))
       [] isPointer(type) -> <<layer(type.name)>>
       [] OTHER ->
            LET printed == codeGenScalarType(type) IN <<layer(printed[Len(printed)])>>

RECURSIVE HasFunctions(_), Printable(_), TakesApart(_)
HasFunctions(type) ==
  type.kind = "Function" \/ \E i \in DOMAIN type.subtypes : HasFunctions(type.subtypes[i])

\* No arrays; no functions in tuples; functions only behind pointers, that return
\* none and have no parameter of type Void.  What is left out is printed as something
\* that C refuses.
Printable(type) ==
  CASE isPointer(type) /\ ~hasName(type) ->
         IF Subtype(type).kind # "Function" THEN Printable(Subtype(type))
         ELSE LET f == Subtype(type)
              IN /\ ~HasFunctions(returnType(f)) /\ Printable(returnType(f))
                 /\ \A i \in DOMAIN f.parameters :
                      f.parameters[i].kind # "Void" /\ Printable(f.parameters[i])
    [] type.kind = "Tuple" ->
         \A i \in DOMAIN type.subtypes :
           Printable(type.subtypes[i]) /\ ~HasFunctions(type.subtypes[i])
    [] OTHER -> type.kind \notin {"Array", "Function"}

(* C reads the declaration that was written: pointers, their constness and  *)
(* the parameters of functions come out in the place they have in the type, *)
(* however they are nested (the table of Documentation/language.html).      *)
DeclarationsKeepTheirMeaning ==
  step = "printed" /\ Printable(declared) =>
    CReading(code) = [name |-> <<name>>, layers |-> CType(declared)]

\* The name of a tuple can be taken apart: the tuples in it begin with "const const".
TakesApart(type) ==
  /\ type.kind = "Tuple" /\ Printable(type)
  /\ \A i \in DOMAIN type.subtypes :
       LET inner == type.subtypes[i]
       IN inner.kind = "Tuple" =>
            /\ TakesApart(inner)
            /\ Head(codeGen(Subtype(inner), Nothing)) = <<"const">>

(* Two tuple types with one name of their structure have the same members:  *)
(* each use of a tuple type defines its structure, and finds it by name.    *)
TupleNamesDiffer ==
  step = "printed" /\ TakesApart(declared) =>
    \A w \in Written :
      /\ w.meant.kind = "Tuple" /\ TakesApart(w.meant)
      /\ codeGenTupleStructName(w.meant) = codeGenTupleStructName(declared)
      => [i \in DOMAIN declared.subtypes |-> CType(declared.subtypes[i])]
           = [i \in DOMAIN w.meant.subtypes |-> CType(w.meant.subtypes[i])]
=============================================================================
