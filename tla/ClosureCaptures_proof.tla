----------------------- MODULE ClosureCaptures_proof -----------------------
(***************************************************************************)
(* Proofs about ClosureCaptures, for any names, and bodies of any length   *)
(* and nesting.                                                            *)
(***************************************************************************)
EXTENDS ClosureCaptures, TLAPS

\* The bounds are numbers.
LEMMA Bounds == MaxLength \in Nat /\ MaxNesting \in Nat
BY ProgramsAssumption

-----------------------------------------------------------------------------
(* What the steps do to the chain. *)

\* Entering a closure or a debug statement puts a scope on top of the others.
LEMMA Entered ==
  ASSUME NEW s \in Seq(Scope), NEW x \in Scope
  PROVE  /\ Append(s, x) \in Seq(Scope)
         /\ Len(Append(s, x)) = Len(s) + 1
         /\ \A i \in 1 .. Len(s) : Append(s, x)[i] = s[i]
         /\ Append(s, x)[Len(s) + 1] = x
OBVIOUS

\* Leaving one takes it away again.
LEMMA Left ==
  ASSUME NEW s \in Seq(Scope), Len(s) > 1
  PROVE  /\ SubSeq(s, 1, Len(s) - 1) \in Seq(Scope)
         /\ Len(SubSeq(s, 1, Len(s) - 1)) = Len(s) - 1
         /\ \A i \in 1 .. Len(s) - 1 : SubSeq(s, 1, Len(s) - 1)[i] = s[i]
OBVIOUS

\* Changing a scope leaves the others alone.
LEMMA Changed ==
  ASSUME NEW s \in Seq(Scope), NEW k, NEW x,
         k \in 1 .. Len(s) => x \in Scope
  PROVE  /\ [s EXCEPT ![k] = x] \in Seq(Scope)
         /\ Len([s EXCEPT ![k] = x]) = Len(s)
         /\ \A i \in 1 .. Len(s) :
              [s EXCEPT ![k] = x][i] = IF i = k THEN x ELSE s[i]
<1>1. CASE k \in 1 .. Len(s)
  BY <1>1
<1>2. CASE k \notin 1 .. Len(s)
  <2>1. s \in [1 .. Len(s) -> Scope]
    OBVIOUS
  <2>2. [s EXCEPT ![k] = x] = s
    BY <2>1, <1>2
  <2>. QED
    BY <2>2, <1>2
<1>. QED
  BY <1>1, <1>2

\* What the fields of a changed scope are.
LEMMA Fielded ==
  ASSUME NEW s \in Scope, NEW name \in Names
  PROVE  /\ LET t == [s EXCEPT !.variables = @ \cup {name}] IN
              /\ t \in Scope
              /\ t.kind = s.kind
              /\ t.variables = s.variables \cup {name}
              /\ t.referenced = s.referenced
              /\ t.captured = s.captured
              /\ t.reached = s.reached
         /\ LET t == [s EXCEPT !.captured = @ \cup {name}] IN
              /\ t \in Scope
              /\ t.kind = s.kind
              /\ t.variables = s.variables
              /\ t.referenced = s.referenced
              /\ t.captured = s.captured \cup {name}
              /\ t.reached = s.reached
         /\ LET t == [s EXCEPT !.reached = @ \cup {name}] IN
              /\ t \in Scope
              /\ t.kind = s.kind
              /\ t.variables = s.variables
              /\ t.referenced = s.referenced
              /\ t.captured = s.captured
              /\ t.reached = s.reached \cup {name}
BY DEF Scope

-----------------------------------------------------------------------------
(* The chain, whatever programs do. *)

\* A function body starts with the scope of the function.
LEMMA ChainInit == Init => ChainInv
<1>. SUFFICES ASSUME Init PROVE ChainInv
  OBVIOUS
<1>1. PICK parameters \in SUBSET Names :
        scopes = <<NewScope("function", parameters, {})>>
  BY DEF Init
<1>2. NewScope("function", parameters, {}) \in Scope
  BY DEF NewScope, Scope, Kinds
<1>3. /\ scopes \in Seq(Scope)
      /\ Len(scopes) = 1
      /\ scopes[1].kind = "function"
      /\ scopes[1].referenced = {}
  BY <1>1, <1>2 DEF NewScope
<1>4. TypeOK
  <2>1. emitted \in [form : Forms, name : Names \cup {"none"}]
    BY DEF Init, NoVariable, Forms
  <2>2. built \in [fields : SUBSET Names, needed : SUBSET Names]
    BY DEF Init, NoEnvironment
  <2>3. length \in 0 .. MaxLength /\ 1 \in 1 .. MaxNesting + 1
    BY Bounds DEF Init
  <2>4. failed \in BOOLEAN
    BY DEF Init
  <2>. QED
    BY <1>3, <2>1, <2>2, <2>3, <2>4 DEF TypeOK
<1>. QED
  BY <1>3, <1>4 DEF ChainInv, Index, FieldsDiffer

\* A new scope on top keeps the chain in order.
LEMMA ChainEnter ==
  ASSUME ChainInv, Parse, Current <= MaxNesting,
         NEW kind \in {"closure", "debug"},
         NEW variables \in SUBSET Names, NEW references \in SUBSET Names,
         kind = "debug" => references = {},
         scopes' = Append(scopes, NewScope(kind, variables, references)),
         emitted' = NoVariable, built' = NoEnvironment, failed' \in BOOLEAN
  PROVE  ChainInv'
<1>. DEFINE x == NewScope(kind, variables, references)
<1>1. /\ x \in Scope
      /\ x.kind = kind /\ x.referenced = references /\ x.captured = {}
  BY DEF NewScope, Scope, Kinds
<1>2. scopes \in Seq(Scope) /\ Len(scopes) \in 1 .. MaxNesting + 1
  BY DEF ChainInv, TypeOK
<1>3. /\ scopes' \in Seq(Scope)
      /\ Len(scopes') = Len(scopes) + 1
      /\ \A i \in 1 .. Len(scopes) : scopes'[i] = scopes[i]
      /\ scopes'[Len(scopes) + 1] = x
  BY <1>1, <1>2, Entered
<1>. HIDE DEF x
<1>4. TypeOK'
  BY <1>2, <1>3, Bounds
     DEF ChainInv, TypeOK, Parse, Current, NoVariable, NoEnvironment, Forms
<1>5. \A i \in Index' :
        \/ i \in Index /\ scopes'[i] = scopes[i]
        \/ i = Len(scopes) + 1 /\ scopes'[i] = x
  BY <1>2, <1>3 DEF Index
<1>. QED
  BY <1>1, <1>2, <1>4, <1>5 DEF ChainInv, FieldsDiffer, Index

\* So does taking the last scope away.
LEMMA ChainLeave ==
  ASSUME ChainInv, Parse, scopes[Current].kind # "function",
         scopes' = SubSeq(scopes, 1, Current - 1),
         emitted' = NoVariable, failed' = failed,
         built' \in [fields : SUBSET Names, needed : SUBSET Names]
  PROVE  /\ ChainInv'
         /\ Len(scopes') = Len(scopes) - 1
         /\ \A i \in 1 .. Len(scopes) - 1 : scopes'[i] = scopes[i]
<1>1. /\ scopes \in Seq(Scope)
      /\ Len(scopes) \in 1 .. MaxNesting + 1
      /\ Len(scopes) > 1
  BY Bounds DEF ChainInv, TypeOK, Current
<1>2. /\ scopes' \in Seq(Scope)
      /\ Len(scopes') = Len(scopes) - 1
      /\ \A i \in 1 .. Len(scopes) - 1 : scopes'[i] = scopes[i]
  BY <1>1, Left DEF Current
<1>3. TypeOK'
  <2>1. Len(scopes') \in 1 .. MaxNesting + 1 /\ scopes'[1].kind = "function"
    BY <1>1, <1>2, Bounds DEF ChainInv, TypeOK
  <2>2. emitted' \in [form : Forms, name : Names \cup {"none"}]
    BY DEF NoVariable, Forms
  <2>3. length' \in 0 .. MaxLength /\ failed' \in BOOLEAN
    BY Bounds DEF ChainInv, TypeOK, Parse
  <2>. QED
    BY <1>2, <2>1, <2>2, <2>3 DEF TypeOK
<1>4. \A i \in Index' : i \in Index /\ scopes'[i] = scopes[i]
  BY <1>1, <1>2 DEF Index
<1>. QED
  BY <1>1, <1>2, <1>3, <1>4 DEF ChainInv, FieldsDiffer, Index

\* A name is not a reference of the current scope if the search for references
\* does not find it.
LEMMA CurrentSearched ==
  ASSUME TypeOK, NEW name \in Names, ~referencedVariable(scopes, name)
  PROVE  name \notin scopes[Current].referenced
<1>1. Current \in Searched(scopes)
  BY DEF TypeOK, Searched, Current
<1>. QED
  BY <1>1 DEF referencedVariable

\* What a use of a captured or referenced name does to the chain.
LEMMA Used ==
  ASSUME TypeOK, NEW name \in Names, Use(name),
         Form(name) \in {"captured", "referenced"}
  PROVE  /\ scopes' \in Seq(Scope)
         /\ Len(scopes') = Len(scopes)
         /\ \A i \in 1 .. Len(scopes) :
              /\ scopes'[i].kind = scopes[i].kind
              /\ scopes'[i].variables = scopes[i].variables
              /\ scopes'[i].referenced = scopes[i].referenced
              /\ scopes'[i].captured =
                   IF i = Current /\ Form(name) = "captured"
                     THEN scopes[i].captured \cup {name} ELSE scopes[i].captured
              /\ scopes'[i].reached =
                   IF i = CFunction(scopes)
                     THEN scopes[i].reached \cup {name} ELSE scopes[i].reached
<1>. DEFINE chain == IF Form(name) = "captured" THEN captureVariable(scopes, name)
                                                ELSE scopes
            top == [scopes[Current] EXCEPT !.captured = @ \cup {name}]
            c == CFunction(scopes)
            body == [chain[c] EXCEPT !.reached = @ \cup {name}]
<1>1. scopes \in Seq(Scope) /\ Current \in 1 .. Len(scopes) /\ Len(scopes) = Current
  BY DEF TypeOK, Current
<1>. scopes[Current] \in Scope
  BY <1>1
<1>2. /\ top \in Scope
      /\ top.kind = scopes[Current].kind
      /\ top.variables = scopes[Current].variables
      /\ top.referenced = scopes[Current].referenced
      /\ top.captured = scopes[Current].captured \cup {name}
      /\ top.reached = scopes[Current].reached
  BY <1>1, Fielded
<1>3. captureVariable(scopes, name) = [scopes EXCEPT ![Current] = top]
  BY DEF captureVariable, Current
<1>. HIDE DEF top
<1>4. /\ chain \in Seq(Scope)
      /\ Len(chain) = Len(scopes)
      /\ \A i \in 1 .. Len(scopes) :
           chain[i] = IF i = Current /\ Form(name) = "captured" THEN top ELSE scopes[i]
  BY <1>1, <1>2, <1>3, Changed
<1>5. scopes' = [chain EXCEPT ![c] = body]
  BY DEF Use
<1>. HIDE DEF chain
<1>6. ASSUME c \in 1 .. Len(scopes)
      PROVE  /\ body \in Scope
             /\ body.kind = chain[c].kind
             /\ body.variables = chain[c].variables
             /\ body.referenced = chain[c].referenced
             /\ body.captured = chain[c].captured
             /\ body.reached = chain[c].reached \cup {name}
  <2>1. chain[c] \in Scope
    BY <1>4, <1>6
  <2>. QED
    BY <2>1, Fielded
<1>. HIDE DEF c, body
<1>7. /\ scopes' \in Seq(Scope)
      /\ Len(scopes') = Len(scopes)
      /\ \A i \in 1 .. Len(scopes) : scopes'[i] = IF i = c THEN body ELSE chain[i]
  BY <1>4, <1>5, <1>6, Changed
<1>. QED
  BY <1>1, <1>2, <1>4, <1>6, <1>7 DEF c

\* What a declaration does to the chain.
LEMMA Declared ==
  ASSUME TypeOK, NEW name \in Names, Declare(name)
  PROVE  /\ scopes' \in Seq(Scope)
         /\ Len(scopes') = Len(scopes)
         /\ \A i \in 1 .. Len(scopes) :
              /\ scopes'[i].kind = scopes[i].kind
              /\ scopes'[i].variables =
                   IF i = Current THEN scopes[i].variables \cup {name}
                                  ELSE scopes[i].variables
              /\ scopes'[i].referenced = scopes[i].referenced
              /\ scopes'[i].captured = scopes[i].captured
              /\ scopes'[i].reached = scopes[i].reached
<1>. DEFINE top == [scopes[Current] EXCEPT !.variables = @ \cup {name}]
<1>1. scopes \in Seq(Scope) /\ Current \in 1 .. Len(scopes) /\ Len(scopes) = Current
  BY DEF TypeOK, Current
<1>. scopes[Current] \in Scope
  BY <1>1
<1>2. /\ top \in Scope
      /\ top.kind = scopes[Current].kind
      /\ top.variables = scopes[Current].variables \cup {name}
      /\ top.referenced = scopes[Current].referenced
      /\ top.captured = scopes[Current].captured
      /\ top.reached = scopes[Current].reached
  BY Fielded
<1>3. scopes' = [scopes EXCEPT ![Current] = top]
  BY DEF Declare
<1>. HIDE DEF top
<1>4. /\ scopes' \in Seq(Scope)
      /\ Len(scopes') = Len(scopes)
      /\ \A i \in 1 .. Len(scopes) : scopes'[i] = IF i = Current THEN top ELSE scopes[i]
  BY <1>1, <1>2, <1>3, Changed
<1>. QED
  BY <1>1, <1>2, <1>4

\* The form of a name is one of the forms.
LEMMA FormTyped == ASSUME NEW name PROVE Form(name) \in Forms
BY DEF Form, Forms

\* Steps that emit nothing, and build nothing, say so.
LEMMA NothingTyped ==
  /\ NoVariable \in [form : Forms, name : Names \cup {"none"}]
  /\ NoEnvironment \in [fields : SUBSET Names, needed : SUBSET Names]
BY DEF NoVariable, NoEnvironment, Forms

\* A step of the parser counts.
LEMMA LengthTyped == TypeOK /\ Parse => length' \in 0 .. MaxLength
BY Bounds DEF TypeOK, Parse

\* Every step keeps the chain in order.
LEMMA ChainStep == ChainInv /\ [Next]_vars => ChainInv'
<1>. SUFFICES ASSUME ChainInv, [Next]_vars PROVE ChainInv'
  OBVIOUS
<1>0. /\ scopes \in Seq(Scope)
      /\ Len(scopes) \in 1 .. MaxNesting + 1
      /\ Current \in Index
      /\ 1 \in 1 .. Len(scopes)
      /\ scopes[Current] \in Scope
      /\ TypeOK
  BY Bounds DEF ChainInv, TypeOK, Current, Index
<1>1. ASSUME NEW name \in Names, Declare(name) PROVE ChainInv'
  <2>1. TypeOK'
    <3>1. scopes'[1].kind = "function"
      BY <1>0, <1>1, Declared DEF TypeOK
    <3>2. length' \in 0 .. MaxLength
      BY <1>0, <1>1, LengthTyped DEF Declare
    <3>. QED
      BY <1>0, <1>1, <3>1, <3>2, Declared, NothingTyped DEF Declare, TypeOK
  <2>2. Index' = Index
    BY <1>0, <1>1, Declared DEF Index
  <2>3. \A i \in Index : /\ scopes'[i].kind = scopes[i].kind
                         /\ scopes'[i].referenced = scopes[i].referenced
                         /\ scopes'[i].captured = scopes[i].captured
    BY <1>0, <1>1, Declared DEF Index
  <2>. QED
    BY <2>1, <2>2, <2>3 DEF ChainInv, FieldsDiffer, Index
<1>2. ASSUME NEW name \in Names, Use(name) PROVE ChainInv'
  <2>1. /\ emitted' \in [form : Forms, name : Names \cup {"none"}]
        /\ built' \in [fields : SUBSET Names, needed : SUBSET Names]
        /\ length' \in 0 .. MaxLength
        /\ failed' = failed
    BY <1>0, <1>2, FormTyped, NothingTyped, LengthTyped DEF Use
  <2>2. CASE Form(name) \in {"captured", "referenced"}
    <3>1. TypeOK'
      <4>1. scopes'[1].kind = "function"
        BY <1>0, <1>2, <2>2, Used DEF TypeOK
      <4>. QED
        BY <1>0, <1>2, <2>1, <2>2, <4>1, Used DEF TypeOK
    <3>2. Index' = Index
      BY <1>0, <1>2, <2>2, Used DEF Index
    <3>3. Form(name) = "captured" => name \notin scopes[Current].referenced
      BY <1>0, CurrentSearched DEF Form
    <3>4. \A i \in Index : scopes'[i].referenced \cap scopes'[i].captured = {}
      <4>. TAKE i \in Index
      <4>1. scopes[i].referenced \cap scopes[i].captured = {}
        BY DEF Index, ChainInv, FieldsDiffer
      <4>2. /\ scopes'[i].referenced = scopes[i].referenced
            /\ scopes'[i].captured =
                 IF i = Current /\ Form(name) = "captured"
                   THEN scopes[i].captured \cup {name} ELSE scopes[i].captured
        BY <1>0, <1>2, <2>2, Used DEF Index
      <4>. QED
        BY <3>3, <4>1, <4>2
    <3>. QED
      BY <1>0, <1>2, <2>2, <3>1, <3>2, <3>4, Used DEF ChainInv, FieldsDiffer, Index
  <2>3. CASE Form(name) \notin {"captured", "referenced"}
    <3>1. scopes' = scopes
      BY <1>2, <2>3 DEF Use
    <3>. QED
      BY <2>1, <3>1 DEF ChainInv, TypeOK, FieldsDiffer, Index
  <2>. QED
    BY <2>2, <2>3
<1>3. ASSUME NEW parameters \in SUBSET Names, NEW references \in SUBSET Names,
             OpenClosure(parameters, references)
      PROVE  ChainInv'
  <2>1. CASE scopes' = scopes
    <3>1. TypeOK'
      <4>1. length' \in 0 .. MaxLength
        BY <1>0, <1>3, LengthTyped DEF OpenClosure
      <4>2. failed' \in BOOLEAN
        BY <1>0, <1>3 DEF OpenClosure, TypeOK
      <4>. QED
        BY <1>0, <1>3, <2>1, <4>1, <4>2, NothingTyped DEF OpenClosure, TypeOK
    <3>. QED
      BY <2>1, <3>1 DEF ChainInv, FieldsDiffer, Index
  <2>2. CASE scopes' = Append(scopes, NewScope("closure", parameters, references))
    <3>1. failed' \in BOOLEAN
      BY <1>0, <1>3 DEF OpenClosure, TypeOK
    <3>. QED
      BY <1>3, <2>2, <3>1, ChainEnter DEF OpenClosure
  <2>. QED
    BY <1>3, <2>1, <2>2 DEF OpenClosure
<1>4. ASSUME CloseClosure PROVE ChainInv'
  <2>1. /\ Fields(scopes[Current]) \in SUBSET Names
        /\ scopes[Current].reached \in SUBSET Names
    BY <1>0 DEF Fields, Scope
  <2>2. built' \in [fields : SUBSET Names, needed : SUBSET Names]
    BY <1>4, <2>1 DEF CloseClosure
  <2>. QED
    BY <1>4, <2>2, ChainLeave DEF CloseClosure
<1>5. ASSUME OpenDebug PROVE ChainInv'
  <2>1. failed' \in BOOLEAN
    BY <1>0, <1>5 DEF OpenDebug, TypeOK
  <2>. QED
    BY <1>5, <2>1, ChainEnter DEF OpenDebug
<1>6. ASSUME CloseDebug PROVE ChainInv'
  <2>1. built' \in [fields : SUBSET Names, needed : SUBSET Names]
    BY <1>6 DEF CloseDebug, NoEnvironment
  <2>. QED
    BY <1>6, <2>1, ChainLeave DEF CloseDebug
<1>7. ASSUME UNCHANGED vars PROVE ChainInv'
  BY <1>7 DEF vars, ChainInv, TypeOK, FieldsDiffer, Index
<1>. QED
  BY <1>1, <1>2, <1>3, <1>4, <1>5, <1>6, <1>7 DEF Next

-----------------------------------------------------------------------------
(* Programs with no debug statement in a closure and no name declared twice. *)

\* In a closure the C function is that of the closure.
LEMMA OwnFunction ==
  ASSUME TypeOK, scopes[Current].kind = "closure"
  PROVE  CFunction(scopes) = Current
<1>1. Current \in Nat \ {0} /\ Len(scopes) = Current
  BY DEF TypeOK, Current
<1>. QED
  BY <1>1 DEF CFunction

\* There the search for references
\* finds those of the closure, and the search for captures what is declared
\* outside of it.
LEMMA InsideClosure ==
  ASSUME ChainInv, NestInv, scopes[Current].kind = "closure", NEW name \in Names
  PROVE  /\ referencedVariable(scopes, name) <=> name \in scopes[Current].referenced
         /\ capturedVariable(scopes, name) <=>
              \E d \in Index : d < Current /\ name \in scopes[d].variables
<1>1. /\ Current \in Nat \ {0} /\ Len(scopes) = Current
      /\ \A i \in Index : scopes[i] \in Scope
      /\ Current \in Searched(scopes)
  BY DEF ChainInv, TypeOK, Current, Index, Searched
<1>3. ASSUME NEW k \in Searched(scopes), k # Current
      PROVE  scopes[k].referenced = {}
  <2>1. k \in Index /\ k < Current
    BY <1>1, <1>3 DEF Searched, Index
  <2>2. ~capturing(scopes[Current - 1])
    BY <1>1, <1>3, <2>1 DEF Searched, capturing
  <2>3. \A j \in Index : j < Current => scopes[j].kind # "closure"
    <3>1. Current - 1 \in Index
      BY <1>1, <2>1 DEF Index
    <3>2. CASE scopes[Current - 1].kind = "function"
      BY <1>1, <2>2, <3>1, <3>2 DEF ChainInv, Index, capturing
    <3>3. CASE scopes[Current - 1].kind = "debug"
      BY <1>1, <2>2, <3>1, <3>3 DEF NestInv, Index, capturing
    <3>. QED
      BY <1>1, <2>2, <3>1, <3>2, <3>3 DEF Scope, Kinds, capturing
  <2>. QED
    BY <2>1, <2>3 DEF ChainInv
<1>4. referencedVariable(scopes, name) <=> name \in scopes[Current].referenced
  BY <1>1, <1>3 DEF referencedVariable
<1>5. ASSUME NEW d \in Index, d < Current, name \in scopes[d].variables
      PROVE  capturedVariable(scopes, name)
  <2>1. \A i \in d + 1 .. Len(scopes) : name \notin scopes[i].variables
    BY <1>1, <1>5 DEF NestInv, Index
  <2>2. Current \in d + 1 .. Len(scopes) /\ capturing(scopes[Current])
    BY <1>1, <1>5 DEF Index, capturing
  <2>. QED
    BY <1>5, <2>1, <2>2 DEF capturedVariable, Index
<1>6. ASSUME capturedVariable(scopes, name)
      PROVE  \E d \in Index : d < Current /\ name \in scopes[d].variables
  BY <1>1, <1>6 DEF capturedVariable, Index
<1>. QED
  BY <1>4, <1>5, <1>6

\* Elsewhere there is no closure at all: every name is a local one.
LEMMA OutsideClosures ==
  ASSUME ChainInv, NestInv, scopes[Current].kind # "closure"
  PROVE  /\ CFunction(scopes) = 1
         /\ \A i \in Index : ~capturing(scopes[i]) /\ scopes[i].referenced = {}
         /\ \A name \in Names : /\ ~referencedVariable(scopes, name)
                                /\ ~capturedVariable(scopes, name)
<1>1. /\ Current \in Index /\ 1 \in Index /\ Len(scopes) = Current
      /\ \A i \in Index : scopes[i] \in Scope
      /\ scopes[1].kind = "function"
  BY Bounds DEF ChainInv, TypeOK, Current, Index
<1>2. \A i \in Index : scopes[i].kind # "closure"
  <2>1. CASE scopes[Current].kind = "function"
    BY <1>1, <2>1 DEF ChainInv, Index
  <2>2. CASE scopes[Current].kind = "debug"
    BY <1>1, <2>2 DEF NestInv, Index
  <2>. QED
    BY <1>1, <2>1, <2>2 DEF Scope, Kinds
<1>3. \A i \in Index : i # 1 => scopes[i].kind = "debug"
  BY <1>1, <1>2 DEF ChainInv, Scope, Kinds
<1>4. CFunction(scopes) = 1
  BY <1>1, <1>3 DEF CFunction, Index
<1>5. \A i \in Index : ~capturing(scopes[i]) /\ scopes[i].referenced = {}
  BY <1>2 DEF capturing, ChainInv
<1>6. \A name \in Names : ~referencedVariable(scopes, name)
  BY <1>5 DEF referencedVariable, Searched, Index
<1>7. \A name \in Names : ~capturedVariable(scopes, name)
  BY <1>5 DEF capturedVariable, Index
<1>. QED
  BY <1>4, <1>5, <1>6, <1>7

\* A name means what the two searches say.
LEMMA FormIsMeaning == ChainInv /\ NestInv => UsesMeanWhatTheySay
<1>. SUFFICES ASSUME ChainInv, NestInv, NEW name \in Names
              PROVE  Form(name) = Meaning(name)
  BY DEF UsesMeanWhatTheySay
<1>. DEFINE Nearest(i) == /\ name \in scopes[i].variables
                          /\ \A j \in i + 1 .. Current : name \notin scopes[j].variables
<1>1. CASE name \notin Visible
  BY <1>1 DEF Form, Meaning
<1>2. CASE name \in Visible
  <2>1. PICK d \in Index : name \in scopes[d].variables
    BY <1>2 DEF Visible, Index
  <2>2. Current \in Index /\ Len(scopes) = Current
    BY DEF ChainInv, TypeOK, Current, Index
  <2>3. \A i \in Index : i # d => name \notin scopes[i].variables
    BY <2>1 DEF NestInv, Index
  <2>4. d = CHOOSE i \in 1 .. Current : Nearest(i)
    BY <2>1, <2>2, <2>3 DEF Index
  <2>5. Meaning(name) = IF d >= CFunction(scopes) THEN "local"
                        ELSE IF name \in scopes[CFunction(scopes)].referenced
                          THEN "referenced" ELSE "captured"
    BY <1>2, <2>4 DEF Meaning
  <2>6. CASE scopes[Current].kind = "closure"
    <3>1. d = Current => name \notin scopes[Current].referenced
      BY <2>2, <2>3 DEF NestInv, Index
    <3>2. capturedVariable(scopes, name) <=> d < Current
      BY <2>1, <2>3, <2>6, InsideClosure
    <3>3. /\ CFunction(scopes) = Current
          /\ referencedVariable(scopes, name) <=> name \in scopes[Current].referenced
      BY <2>6, InsideClosure, OwnFunction DEF ChainInv
    <3>. QED
      BY <1>2, <2>2, <2>5, <3>1, <3>2, <3>3 DEF Form, Index
  <2>7. CASE scopes[Current].kind # "closure"
    BY <1>2, <2>2, <2>5, <2>7, OutsideClosures DEF Form, Index
  <2>. QED
    BY <2>6, <2>7
<1>. QED
  BY <1>1, <1>2

\* A new scope on top, whose names are new and whose references can be seen.
LEMMA NestEnter ==
  ASSUME ChainInv, NestInv,
         NEW kind \in {"closure", "debug"},
         kind = "debug" => scopes[Current].kind # "closure",
         NEW variables \in SUBSET Names, variables \cap Visible = {},
         NEW references \in SUBSET Names, references \subseteq Visible,
         scopes' = Append(scopes, NewScope(kind, variables, references))
  PROVE  NestInv'
<1>. DEFINE x == NewScope(kind, variables, references)
<1>1. /\ x \in Scope
      /\ x.kind = kind /\ x.variables = variables
      /\ x.referenced = references /\ x.reached = {}
  BY DEF NewScope, Scope, Kinds
<1>2. /\ scopes \in Seq(Scope) /\ Len(scopes) \in Nat \ {0}
      /\ Current = Len(scopes)
  BY DEF ChainInv, TypeOK, Current
<1>3. /\ Len(scopes') = Len(scopes) + 1
      /\ \A i \in 1 .. Len(scopes) : scopes'[i] = scopes[i]
      /\ scopes'[Len(scopes) + 1] = x
  BY <1>1, <1>2, Entered
<1>. HIDE DEF x
<1>4. \A i \in Index' :
        \/ i \in Index /\ scopes'[i] = scopes[i]
        \/ i = Len(scopes) + 1 /\ scopes'[i] = x
  BY <1>2, <1>3 DEF Index
<1>5. \A i \in Index : i \in Index' /\ scopes'[i] = scopes[i] /\ i < Len(scopes) + 1
  BY <1>2, <1>3 DEF Index
<1>6. \A i, j \in Index' :
        j < i => (scopes'[i].kind = "debug" => scopes'[j].kind # "closure")
  <2>1. kind = "debug" => \A j \in Index : scopes[j].kind # "closure"
    BY <1>2, OutsideClosures DEF capturing
  <2>. QED
    BY <1>1, <1>2, <1>4, <1>5, <2>1 DEF NestInv, Index
<1>7. \A i, j \in Index' :
        j < i => scopes'[i].variables \cap scopes'[j].variables = {}
  <2>1. \A j \in Index : variables \cap scopes[j].variables = {}
    BY DEF Visible, Index
  <2>. QED
    BY <1>1, <1>2, <1>4, <1>5, <2>1 DEF NestInv, Index
<1>8. \A i \in Index' : \A name \in scopes'[i].referenced :
        \E j \in Index' : j < i /\ name \in scopes'[j].variables
  <2>1. \A name \in references : \E j \in Index : name \in scopes[j].variables
    BY DEF Visible, Index
  <2>2. ASSUME NEW i \in Index, NEW name \in scopes'[i].referenced
        PROVE  \E j \in Index' : j < i /\ name \in scopes'[j].variables
    <3>1. PICK j \in Index : j < i /\ name \in scopes[j].variables
      BY <1>5, <2>2 DEF NestInv
    <3>. QED
      BY <1>5, <3>1
  <2>3. ASSUME NEW name \in references
        PROVE  \E j \in Index' : j < Len(scopes) + 1 /\ name \in scopes'[j].variables
    <3>1. PICK j \in Index : name \in scopes[j].variables
      BY <2>1
    <3>. QED
      BY <1>5, <3>1
  <2>. TAKE i \in Index'
  <2>4. CASE i \in Index
    BY <2>2, <2>4
  <2>5. CASE i = Len(scopes) + 1 /\ scopes'[i] = x
    BY <1>1, <2>3, <2>5
  <2>. QED
    BY <1>4, <2>4, <2>5
<1>9. \A i \in Index' : scopes'[i].reached \subseteq Fields(scopes'[i])
  BY <1>1, <1>4 DEF NestInv
<1>. QED
  BY <1>6, <1>7, <1>8, <1>9 DEF NestInv

\* Without the last scope.
LEMMA NestLeave ==
  ASSUME ChainInv, NestInv,
         Len(scopes') = Len(scopes) - 1,
         \A i \in 1 .. Len(scopes) - 1 : scopes'[i] = scopes[i]
  PROVE  NestInv'
<1>1. Len(scopes) \in Nat
  BY DEF ChainInv, TypeOK
<1>2. Index' \subseteq Index /\ \A i \in Index' : scopes'[i] = scopes[i]
  BY <1>1 DEF Index
<1>3. \A i \in Index' : \A j \in Index : j < i => j \in Index'
  BY <1>1 DEF Index
<1>. QED
  BY <1>2, <1>3 DEF NestInv, Fields

\* Every step of a program with the two restrictions keeps the nest in order.
LEMMA NestStep ==
  ASSUME ChainInv, ~DebugInClosures, ~Shadow,
         NestInv, EnvironmentIsComplete, ReferencesAreAccepted, [Next]_vars
  PROVE  NestInv' /\ EnvironmentIsComplete' /\ ReferencesAreAccepted'
<1>0. /\ scopes \in Seq(Scope)
      /\ Len(scopes) \in Nat \ {0} /\ Current = Len(scopes)
      /\ Current \in Index
      /\ TypeOK
  BY DEF ChainInv, TypeOK, Current, Index
<1>1. NoEnvironment.needed \subseteq NoEnvironment.fields
  BY DEF NoEnvironment
<1>2. ASSUME NEW name \in Names, Declare(name)
      PROVE  NestInv' /\ EnvironmentIsComplete' /\ ReferencesAreAccepted'
  <2>1. EnvironmentIsComplete' /\ ReferencesAreAccepted'
    BY <1>1, <1>2 DEF Declare, EnvironmentIsComplete, ReferencesAreAccepted
  <2>2. /\ Index' = Index
        /\ \A i \in Index : name \notin scopes[i].variables
    BY <1>0, <1>2, Declared DEF Index, Declare, Visible
  <2>3. \A i \in Index :
          /\ scopes'[i].kind = scopes[i].kind
          /\ scopes'[i].referenced = scopes[i].referenced
          /\ scopes'[i].captured = scopes[i].captured
          /\ scopes'[i].reached = scopes[i].reached
          /\ scopes[i].variables \subseteq scopes'[i].variables
          /\ scopes'[i].variables \subseteq scopes[i].variables \cup {name}
          /\ i # Current => scopes'[i].variables = scopes[i].variables
    BY <1>0, <1>2, Declared DEF Index
  <2>4. \A i, j \in Index : j < i =>
          scopes'[i].variables \cap scopes'[j].variables = {}
    <3>. TAKE i, j \in Index
    <3>. HAVE j < i
    <3>1. scopes[i].variables \cap scopes[j].variables = {}
      BY DEF NestInv
    <3>2. i # Current \/ j # Current
      BY <1>0 DEF Index
    <3>. QED
      BY <2>2, <2>3, <3>1, <3>2
  <2>5. NestInv'
    BY <2>2, <2>3, <2>4 DEF NestInv, Fields
  <2>. QED
    BY <2>1, <2>5
<1>3. ASSUME NEW name \in Names, Use(name)
      PROVE  NestInv' /\ EnvironmentIsComplete' /\ ReferencesAreAccepted'
  <2>1. EnvironmentIsComplete' /\ ReferencesAreAccepted'
    BY <1>1, <1>3 DEF Use, EnvironmentIsComplete, ReferencesAreAccepted
  <2>2. CASE Form(name) \in {"captured", "referenced"}
    <3>1. /\ scopes[Current].kind = "closure"
          /\ CFunction(scopes) = Current
          /\ Form(name) = "referenced" => name \in scopes[Current].referenced
      BY <1>0, <2>2, OwnFunction, InsideClosure, OutsideClosures DEF Form
    <3>2. /\ Index' = Index
          /\ \A i \in Index :
               /\ scopes'[i].kind = scopes[i].kind
               /\ scopes'[i].variables = scopes[i].variables
               /\ scopes'[i].referenced = scopes[i].referenced
      BY <1>0, <1>3, <2>2, Used DEF Index
    <3>3. \A i \in Index : scopes'[i].reached \subseteq Fields(scopes'[i])
      <4>. TAKE i \in Index
      <4>1. scopes[i].reached \subseteq Fields(scopes[i])
        BY DEF NestInv
      <4>2. /\ scopes'[i].captured =
                 IF i = Current /\ Form(name) = "captured"
                   THEN scopes[i].captured \cup {name} ELSE scopes[i].captured
            /\ scopes'[i].reached =
                 IF i = Current THEN scopes[i].reached \cup {name} ELSE scopes[i].reached
        BY <1>0, <1>3, <2>2, <3>1, Used DEF Index
      <4>. QED
        BY <2>2, <3>1, <3>2, <4>1, <4>2 DEF Fields
    <3>4. NestInv'
      BY <3>2, <3>3 DEF NestInv
    <3>. QED
      BY <2>1, <3>4
  <2>3. CASE Form(name) \notin {"captured", "referenced"}
    <3>1. scopes' = scopes
      BY <1>3, <2>3 DEF Use
    <3>. QED
      BY <2>1, <3>1 DEF NestInv, Index
  <2>. QED
    BY <2>2, <2>3
<1>4. ASSUME NEW parameters \in SUBSET Names, NEW references \in SUBSET Names,
             OpenClosure(parameters, references)
      PROVE  NestInv' /\ EnvironmentIsComplete' /\ ReferencesAreAccepted'
  <2>. DEFINE x == NewScope("closure", parameters, {})
              inner == Append(scopes, x)
  <2>1. EnvironmentIsComplete'
    BY <1>1, <1>4 DEF OpenClosure, EnvironmentIsComplete
  <2>2. /\ x \in Scope /\ capturing(x) /\ x.referenced = {}
        /\ Len(inner) = Len(scopes) + 1
        /\ \A i \in Index : inner[i] = scopes[i]
        /\ inner[Len(scopes) + 1] = x
    <3>1. x \in Scope /\ capturing(x) /\ x.referenced = {}
      BY DEF NewScope, Scope, Kinds, capturing
    <3>. HIDE DEF x
    <3>. QED
      BY <1>0, <3>1, Entered DEF Index
  <2>. HIDE DEF x, inner
  <2>3. ASSUME NEW name \in references PROVE ~referencedVariable(inner, name)
    <3>1. ASSUME NEW k \in Searched(inner), k # Len(inner)
          PROVE  inner[k].referenced = {}
      <4>1. k \in Index
        BY <1>0, <2>2, <3>1 DEF Searched, Index
      <4>2. ~capturing(scopes[Current])
        BY <1>0, <2>2, <3>1, <4>1 DEF Searched, Index
      <4>3. scopes[k].referenced = {}
        BY <4>1, <4>2, OutsideClosures DEF capturing
      <4>. QED
        BY <2>2, <4>1, <4>3
    <3>. QED
      BY <2>2, <3>1 DEF referencedVariable
  <2>4. ~failed' /\ scopes' = Append(scopes, NewScope("closure", parameters, references))
    BY <1>4, <2>3 DEF OpenClosure, x, inner, ReferencesAreAccepted
  <2>5. parameters \cap Visible = {} /\ references \subseteq Visible
    BY <1>4 DEF OpenClosure
  <2>. QED
    BY <2>1, <2>4, <2>5, NestEnter DEF ReferencesAreAccepted
<1>5. ASSUME CloseClosure
      PROVE  NestInv' /\ EnvironmentIsComplete' /\ ReferencesAreAccepted'
  <2>1. /\ Fields(scopes[Current]) \in SUBSET Names
        /\ scopes[Current].reached \in SUBSET Names
    <3>1. scopes[Current] \in Scope
      BY <1>0 DEF Index
    <3>. QED
      BY <3>1 DEF Fields, Scope
  <2>2. built' \in [fields : SUBSET Names, needed : SUBSET Names]
    BY <1>5, <2>1 DEF CloseClosure
  <2>3. NestInv'
    BY <1>5, <2>2, ChainLeave, NestLeave DEF CloseClosure
  <2>4. EnvironmentIsComplete' /\ ReferencesAreAccepted'
    BY <1>0, <1>5 DEF CloseClosure, NestInv, EnvironmentIsComplete, ReferencesAreAccepted
  <2>. QED
    BY <2>3, <2>4
<1>6. ASSUME OpenDebug
      PROVE  NestInv' /\ EnvironmentIsComplete' /\ ReferencesAreAccepted'
  <2>1. EnvironmentIsComplete' /\ ReferencesAreAccepted'
    BY <1>1, <1>6 DEF OpenDebug, EnvironmentIsComplete, ReferencesAreAccepted
  <2>2. scopes[Current].kind # "closure"
    BY <1>0, <1>6, OwnFunction DEF OpenDebug, InClosure
  <2>. QED
    BY <1>6, <2>1, <2>2, NestEnter DEF OpenDebug
<1>7. ASSUME CloseDebug
      PROVE  NestInv' /\ EnvironmentIsComplete' /\ ReferencesAreAccepted'
  <2>1. built' \in [fields : SUBSET Names, needed : SUBSET Names]
    BY <1>7, NothingTyped DEF CloseDebug
  <2>2. NestInv'
    BY <1>7, <2>1, ChainLeave, NestLeave DEF CloseDebug
  <2>3. EnvironmentIsComplete' /\ ReferencesAreAccepted'
    BY <1>1, <1>7 DEF CloseDebug, EnvironmentIsComplete, ReferencesAreAccepted
  <2>. QED
    BY <2>2, <2>3
<1>8. ASSUME UNCHANGED vars
      PROVE  NestInv' /\ EnvironmentIsComplete' /\ ReferencesAreAccepted'
  BY <1>8 DEF vars, NestInv, Index, EnvironmentIsComplete, ReferencesAreAccepted
<1>. QED
  BY <1>2, <1>3, <1>4, <1>5, <1>6, <1>7, <1>8 DEF Next

-----------------------------------------------------------------------------
(* The theorems. *)

\* The inductive invariant holds in every reachable state of the compiler.
THEOREM Invariance == Spec => []IInv
<1>1. Init => IInv
  <2>. SUFFICES ASSUME Init PROVE IInv
    OBVIOUS
  <2>1. ChainInv
    BY ChainInit
  <2>2. PICK parameters \in SUBSET Names :
          scopes = <<NewScope("function", parameters, {})>>
    BY DEF Init
  <2>3. /\ Index = {1}
        /\ scopes[1].kind = "function"
        /\ scopes[1].referenced = {} /\ scopes[1].reached = {}
    BY <2>2 DEF Index, NewScope
  <2>4. NestInv
    BY <2>3 DEF NestInv
  <2>5. EnvironmentIsComplete /\ ReferencesAreAccepted
    BY DEF Init, NoEnvironment, EnvironmentIsComplete, ReferencesAreAccepted
  <2>. QED
    BY <2>1, <2>4, <2>5 DEF IInv
<1>2. IInv /\ [Next]_vars => IInv'
  BY ChainStep, NestStep DEF IInv
<1>. QED
  BY <1>1, <1>2, PTL DEF Spec

\* The chain of scopes is always one of a function: it is never popped past the
\* function's scope, and every search along it ends there.
THEOREM TypeCorrect == Spec => []TypeOK
<1>1. IInv => TypeOK
  BY DEF IInv, ChainInv
<1>. QED
  BY <1>1, Invariance, PTL

\* Whatever the program, no environment gets a field twice: VariableNode::parse
\* looks for references before it looks for captures.
THEOREM FieldsOnce == Spec => []FieldsDiffer
<1>1. IInv => FieldsDiffer
  BY DEF IInv, ChainInv
<1>. QED
  BY <1>1, Invariance, PTL

\* With no debug statement in a closure and no name declared twice, a use of a
\* variable is emitted as what it means, however deep closures nest.
THEOREM Meanings ==
  ASSUME ~DebugInClosures, ~Shadow
  PROVE  Spec => []UsesMeanWhatTheySay
<1>1. IInv => UsesMeanWhatTheySay
  BY FormIsMeaning DEF IInv
<1>. QED
  BY <1>1, Invariance, PTL

\* In these programs an environment has all that the closure's code reaches for.
THEOREM Environments ==
  ASSUME ~DebugInClosures, ~Shadow
  PROVE  Spec => []EnvironmentIsComplete
<1>1. IInv => EnvironmentIsComplete
  BY DEF IInv
<1>. QED
  BY <1>1, Invariance, PTL

\* And the assertion of Scope::addReferencedVariable never fails.
THEOREM References ==
  ASSUME ~DebugInClosures, ~Shadow
  PROVE  Spec => []ReferencesAreAccepted
<1>1. IInv => ReferencesAreAccepted
  BY DEF IInv
<1>. QED
  BY <1>1, Invariance, PTL

=============================================================================
