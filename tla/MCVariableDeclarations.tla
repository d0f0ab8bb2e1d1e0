----------------------- MODULE MCVariableDeclarations -----------------------
(***************************************************************************)
(* Written types for VariableDeclarations, built by the grammar of the      *)
(* examples in TypeParserTests.cpp together with what they mean.            *)
(***************************************************************************)
EXTENDS VariableDeclarations

\* A written type is a text with its meaning.
Sentence(t, type) == [text |-> t, meant |-> type]

Scalars ==
  {Sentence(<<"Int">>, DataType("Integer")),
   Sentence(<<"Int", ":", "4">>, [DataType("Integer") EXCEPT !.width = 4]),
   Sentence(<<"Int", ":", ":", "4">>, [DataType("Integer") EXCEPT !.alignment = 4]),
   Sentence(<<"Int", ":", ":", ":", "4">>, [DataType("Integer") EXCEPT !.vector = 4]),
   Sentence(<<"Natural", ":", "32", ":", "4", ":", "4">>,
            [DataType("Natural") EXCEPT !.width = 32, !.alignment = 4, !.vector = 4]),
   Sentence(<<"Float", ":", "64">>, [DataType("Float") EXCEPT !.width = 64]),
   Sentence(<<"Char", ":", "ascii">>, [DataType("Character") EXCEPT !.encoding = "ascii"]),
   Sentence(<<"N", ":", ":", "Foo">>, dataTypeMap[<<"N", "Foo">>]),
   Sentence(<<"P">>, dataTypeMap[<<"P">>]),
   Sentence(<<"Vararg">>, DataType("Vararg"))}

Mutable(s) == Sentence(Append(s.text, "!"), mutableVersion(s.meant))
Optional(s) == Sentence(Append(s.text, "?"), wrapInType("NullablePointer", s.meant))
Simple(S) == S \cup {Mutable(s) : s \in S} \cup {Optional(s) : s \in S}
               \cup {Optional(Mutable(s)) : s \in S}

Pointers(S) ==
  LET pointer(kind, access, s) ==
        [wrapInType(kind, s.meant) EXCEPT !.access = access]
  IN {Sentence(<<"*">> \o s.text, pointer("Pointer", "Read", s)) : s \in S} \cup
     {Sentence(<<"*", "!">> \o s.text, pointer("Pointer", "ReadWrite", s)) : s \in S} \cup
     {Sentence(<<"*", "?">> \o s.text, pointer("NullablePointer", "Read", s)) : s \in S} \cup
     {Sentence(<<"*", "!", "?">> \o s.text, pointer("NullablePointer", "ReadWrite", s)) : s \in S}

Arrays(S) ==
  {Sentence(<<"[", "4", "]">> \o s.text,
            [wrapInType("Array", s.meant) EXCEPT !.arrayCount = 4]) : s \in S}

\* Lists of one type, or of one of S and one of Few; in parentheses they may have
\* labels.
Void == Sentence(<<"Void">>, DataType("Void"))
IntType == Sentence(<<"Int">>, DataType("Integer"))
Few == {IntType, Optional(Mutable(IntType)), Void}

Lists(S) ==
  LET label(s) == Sentence(Append(s.text, "y"), Labelled(s.meant, "y"))
      one(s) == [text |-> s.text, types |-> <<s.meant>>]
      pair(s, r) == [text |-> s.text \o <<",">> \o r.text, types |-> <<s.meant, r.meant>>]
  IN [plain    |-> {one(s) : s \in S} \cup {pair(s, r) : s \in S, r \in Few},
      labelled |-> {one(label(s)) : s \in S} \cup {pair(label(s), r) : s \in S, r \in Few}]

Empty == [text |-> <<>>, types |-> <<>>]

Tuples(S) ==
  {Sentence(<<"(">> \o l.text \o <<")">>, [DataType("Tuple") EXCEPT !.subtypes = l.types]) :
     l \in Lists(S).plain \cup Lists(S).labelled}

Functions(S, R) ==
  {Sentence(<<"(">> \o l.text \o <<")", "->">> \o r.text,
            [DataType("Function") EXCEPT !.parameters = l.types, !.returns = <<r.meant>>]) :
     l \in {Empty} \cup Lists(S).plain \cup Lists(S).labelled, r \in R}

Closures(S, R) ==
  LET type(l, return) ==
        [DataType("Closure") EXCEPT !.returns = <<return>>,
           !.parameters = <<wrapInType("Pointer", DataType("Void"))>> \o l.types]
      lists == {Empty} \cup Lists(S).plain
  IN {Sentence(<<"{">> \o l.text \o <<"}", "->">> \o r.text, type(l, r.meant)) :
        l \in lists, r \in R}
     \cup {Sentence(<<"{">> \o l.text \o <<"}">>, type(l, DataType("Void"))) : l \in lists}

Types1 == Simple(Scalars) \cup Pointers(Simple(Scalars)) \cup Arrays(Scalars)
            \cup Tuples(Few) \cup Functions(Few, Few) \cup Closures(Few, Few)

\* Some of each kind, to be combined once more.
Some1 == {IntType, Mutable(IntType), Sentence(<<"vararg">>, DataType("Vararg"))}
           \cup Pointers({IntType, Sentence(<<"P">>, dataTypeMap[<<"P">>])})
           \cup Pointers(Functions({IntType}, {Void})) \cup Tuples({Mutable(IntType)})
           \cup Arrays({IntType}) \cup Closures({IntType}, {})
Types2 == Pointers(Types1) \cup Pointers(Pointers(Some1)) \cup Arrays(Pointers(Some1))
            \cup Tuples(Some1) \cup Closures(Some1, {IntType})
            \cup Pointers(Functions(Some1, Few) \cup Functions({IntType}, Some1))

MCWritten == Types1 \cup Types2
MCEdited == Tuples(Few) \cup Pointers(Functions(Few, {IntType})) \cup Closures({Void}, {IntType})
=============================================================================
