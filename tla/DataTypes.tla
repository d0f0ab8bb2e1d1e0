------------------------------ MODULE DataTypes ------------------------------
(***************************************************************************)
(* The types of the language as the compiler holds them (DataType), and    *)
(* the names of types that a context defines.  Volatility and aliasing,    *)
(* which no parse sets, and generic types are left out.                    *)
(***************************************************************************)
EXTENDS Integers, Sequences, SequencesExt

\* A name is the sequence of its components, <<>> none.
DataType(kind) ==
  [kind       |-> kind,
   name       |-> CASE kind = "Integer" -> <<"Int">>
                    [] kind \in {"Natural", "Float"} -> <<kind>>
                    [] OTHER -> <<>>,
   access     |-> "Read",
   label      |-> "",
   width      |-> 0,
   alignment  |-> 0,
   vector     |-> 0,
   encoding   |-> "utf8",
   arrayCount |-> 0,
   subtypes   |-> <<>>,
   parameters |-> <<>>,
   returns    |-> <<>>]

wrapInType(kind, subtype) == [DataType(kind) EXCEPT !.subtypes = <<subtype>>]
mutableVersion(type) == [type EXCEPT !.access = "ReadWrite"]
Labelled(type, label) == [type EXCEPT !.label = label]

isPointer(type) == type.kind \in {"Pointer", "NullablePointer"}
hasName(type) == type.name # <<>>
Subtype(type) == type.subtypes[1]
returnType(type) == type.returns[1]

-----------------------------------------------------------------------------
(* The context: types of the language, a structure in a namespace, and a    *)
(* pointer that a C header has given a name.                                *)

dataTypeMap ==
  <<"Void">>     :> DataType("Void") @@
  <<"Int">>      :> DataType("Integer") @@
  <<"Natural">>  :> DataType("Natural") @@
  <<"Float">>    :> DataType("Float") @@
  <<"Char">>     :> DataType("Character") @@
  <<"Vararg">>   :> DataType("Vararg") @@
  <<"N", "Foo">> :> [DataType("Structure") EXCEPT !.name = <<"N", "Foo">>] @@
  <<"P">>        :> [wrapInType("Pointer", DataType("CInt"))
                       EXCEPT !.name = <<"P">>]

definesTypeWithName(name) == name \in DOMAIN dataTypeMap

dataTypeForName(name) ==
  IF definesTypeWithName(name) THEN dataTypeMap[name] ELSE DataType("Undefined")

identifierAvailableForDefinition(identifier) ==
  ~definesTypeWithName(<<identifier>>) /\ identifier # "cas"
=============================================================================
