-------------------------- MODULE ClosureCaptures --------------------------
(***************************************************************************)
(* How the compiler decides what a variable in a closure is.  While one    *)
(* function body is parsed, ParseContext keeps a chain of scopes (the      *)
(* function's, and one for each closure and debug statement around the     *)
(* current point); VariableNode::parse asks it whether a name is a local   *)
(* variable, a variable the closure references, or one it has captured.    *)
(* The code generator emits each closure as a C function that reaches the  *)
(* variables of the other two sorts through its environment, and builds    *)
(* the environment in the C function around the closure.                   *)
(*                                                                         *)
(* Names stand for local variables and parameters; types, functions and    *)
(* globals are left out.                                                   *)
(***************************************************************************)
EXTENDS Integers, Sequences

CONSTANTS
  Names,           \* names of variables
  NestClosures,    \* do programs put closures in closures, ...
  DebugInClosures, \* ... debug statements in closures, ...
  Shadow,          \* ... and declare a name again in a closure?
  MaxLength,       \* bound: steps of a body
  MaxNesting       \* bound: closures and debug statements around a point

ASSUME ProgramsAssumption ==
  /\ {NestClosures, DebugInClosures, Shadow} \subseteq BOOLEAN
  /\ MaxLength \in Nat /\ MaxNesting \in Nat

VARIABLES
  scopes,   \* the chain, from the function's scope to _currentScope
  emitted,  \* the variable of the last step, and how the C code names it
  built,    \* the environment that the last step has built
  failed,   \* has an assertion of the compiler failed?
  length    \* steps so far

vars == <<scopes, emitted, built, failed, length>>

Kinds == {"function", "closure", "debug"}
Forms == {"none", "local", "captured", "referenced", "unrecognized"}

Scope ==
  [kind : Kinds,
   variables : SUBSET Names,    \* _variables
   referenced : SUBSET Names,   \* _referencedVariables
   captured : SUBSET Names,     \* _capturedVariables
   reached : SUBSET Names]      \* history: names its C function has reached
                                \* through the environment (closures only)

TypeOK ==
  /\ scopes \in Seq(Scope)
  /\ Len(scopes) \in 1 .. MaxNesting + 1
  /\ scopes[1].kind = "function"
  /\ emitted \in [form : Forms, name : Names \cup {"none"}]
  /\ built \in [fields : SUBSET Names, needed : SUBSET Names]
  /\ failed \in BOOLEAN
  /\ length \in 0 .. MaxLength

NewScope(kind, variables, referenced) ==
  [kind |-> kind, variables |-> variables, referenced |-> referenced,
   captured |-> {}, reached |-> {}]

NoVariable == [form |-> "none", name |-> "none"]
NoEnvironment == [fields |-> {}, needed |-> {}]

\* FunctionDefinitionNode::parseBody, with any parameters.
Init ==
  /\ \E parameters \in SUBSET Names :
       scopes = <<NewScope("function", parameters, {})>>
  /\ emitted = NoVariable
  /\ built = NoEnvironment
  /\ failed = FALSE
  /\ length = 0

-----------------------------------------------------------------------------
(* Looking along a chain of scopes. *)

Current == Len(scopes)

\* Scope::variableForName finds the name in some scope.
Visible == UNION {scopes[i].variables : i \in 1 .. Len(scopes)}

capturing(s) == s.kind = "closure"       \* Scope::capturing

\* Scope::referencedVariable, asked of the last scope, goes from a scope to the
\* one around it unless it has passed over a closure by then, or both are
\* closures.
Searched(chain) ==
  {k \in 1 .. Len(chain) :
     \A i \in k + 1 .. Len(chain) :
       /\ i = Len(chain) \/ ~capturing(chain[i])
       /\ ~(capturing(chain[i]) /\ capturing(chain[i - 1]))}

\* The special case of a closure in a closure is left out.
NoSpecialCaseMutant(chain, name) ==
  \E k \in 1 .. Len(chain) :
    /\ name \in chain[k].referenced
    /\ \A i \in k + 1 .. Len(chain) - 1 : ~capturing(chain[i])

referencedVariable(chain, name) ==
  \E k \in Searched(chain) : name \in chain[k].referenced

\* Scope::capturedVariable, asked of the last scope: the nearest scope that has
\* the variable is beyond a closure.
capturedVariable(chain, name) ==
  \E d \in 1 .. Len(chain) :
    /\ name \in chain[d].variables
    /\ \A i \in d + 1 .. Len(chain) : name \notin chain[i].variables
    /\ \E i \in d + 1 .. Len(chain) : capturing(chain[i])

\* The scope whose closure, or function, is the C function being emitted.
CFunction(chain) ==
  CHOOSE i \in 1 .. Len(chain) :
    /\ chain[i].kind # "debug"
    /\ \A j \in i + 1 .. Len(chain) : chain[j].kind = "debug"

\* The names that this C function declares.
CLocals(chain) ==
  UNION {chain[i].variables : i \in CFunction(chain) .. Len(chain)}

InClosure == scopes[CFunction(scopes)].kind = "closure"

-----------------------------------------------------------------------------
Parse == ~failed /\ length < MaxLength /\ length' = length + 1

\* VariableDeclarationNode::parseVariable defines the name in the current scope
\* (once in a C function, or C would refuse).
Declare(name) ==
  /\ Parse
  /\ name \notin IF Shadow THEN CLocals(scopes) ELSE Visible
  /\ scopes' = [scopes EXCEPT ![Current].variables = @ \cup {name}]
  /\ emitted' = NoVariable
  /\ built' = NoEnvironment
  /\ UNCHANGED failed

\* Captures are looked for before references.
SwappedMutant(name) ==
  IF name \notin Visible THEN "unrecognized"
  ELSE IF capturedVariable(scopes, name) THEN "captured"
  ELSE IF referencedVariable(scopes, name) THEN "referenced"
  ELSE "local"

\* How VariableNode::parse classifies a name.
Form(name) ==
  IF name \notin Visible THEN "unrecognized"
  ELSE IF referencedVariable(scopes, name) THEN "referenced"
  ELSE IF capturedVariable(scopes, name) THEN "captured"
  ELSE "local"

\* Scope::captureVariable, of the current scope.
captureVariable(chain, name) ==
  [chain EXCEPT ![Len(chain)].captured = @ \cup {name}]

\* VariableNode::parse, and the code for the node: "x", "(self_env->x)" or
\* "*(self_env->x)".
Use(name) ==
  LET form == Form(name)
      chain == IF form = "captured" THEN captureVariable(scopes, name) ELSE scopes
  IN
  /\ Parse
  /\ scopes' = IF form \in {"captured", "referenced"}
                 THEN [chain EXCEPT ![CFunction(scopes)].reached = @ \cup {name}]
                 ELSE chain
  /\ emitted' = [form |-> form, name |-> name]
  /\ built' = NoEnvironment
  /\ UNCHANGED failed

\* ClosureNode::parse enters a closure with parameters and references (to names
\* that can be seen; another one would be a null pointer).  A reference that
\* the chain takes for a reference already fails addReferencedVariable.
OpenClosure(parameters, references) ==
  LET inner == Append(scopes, NewScope("closure", parameters, {})) IN
  /\ Parse
  /\ Current <= MaxNesting
  /\ InClosure => NestClosures
  /\ Shadow \/ parameters \cap Visible = {}
  /\ Shadow \/ references \cap parameters = {}
  /\ references \subseteq Visible \cup parameters
  /\ IF \E name \in references : referencedVariable(inner, name)
       THEN failed' = TRUE /\ UNCHANGED scopes
       ELSE /\ scopes' = Append(scopes, NewScope("closure", parameters, references))
            /\ UNCHANGED failed
  /\ emitted' = NoVariable
  /\ built' = NoEnvironment

\* The references are left out.
CapturedOnlyMutant(s) == s.captured

\* The fields of a closure's environment: its references, and what its scope
\* has captured.
Fields(s) == s.referenced \cup s.captured

\* ClosureNode::parse leaves a closure; the code generator builds the environment
\* in front of the current line of the C function around the closure.
CloseClosure ==
  /\ Parse
  /\ scopes[Current].kind = "closure"
  /\ built' = [fields |-> Fields(scopes[Current]), needed |-> scopes[Current].reached]
  /\ scopes' = SubSeq(scopes, 1, Current - 1)
  /\ emitted' = NoVariable
  /\ UNCHANGED failed

\* DebugNode::parse has a scope of its own, but is emitted in line.
OpenDebug ==
  /\ Parse
  /\ Current <= MaxNesting
  /\ InClosure => DebugInClosures
  /\ scopes' = Append(scopes, NewScope("debug", {}, {}))
  /\ emitted' = NoVariable
  /\ built' = NoEnvironment
  /\ UNCHANGED failed

CloseDebug ==
  /\ Parse
  /\ scopes[Current].kind = "debug"
  /\ scopes' = SubSeq(scopes, 1, Current - 1)
  /\ emitted' = NoVariable
  /\ built' = NoEnvironment
  /\ UNCHANGED failed

Next ==
  \/ \E name \in Names : Declare(name) \/ Use(name)
  \/ \E parameters, references \in SUBSET Names : OpenClosure(parameters, references)
  \/ CloseClosure
  \/ OpenDebug
  \/ CloseDebug

Spec == Init /\ [][Next]_vars

-----------------------------------------------------------------------------
(* Correctness. *)

\* What a name means, by the rules of the language: the declaration nearest to
\* the use; in a closure that does not contain it, the closure's reference to
\* it if the closure lists it, and otherwise a copy.
Meaning(name) ==
  LET d == CHOOSE i \in 1 .. Current :
             /\ name \in scopes[i].variables
             /\ \A j \in i + 1 .. Current : name \notin scopes[j].variables
      c == CFunction(scopes)
  IN IF name \notin Visible THEN "unrecognized"
     ELSE IF d >= c THEN "local"
     ELSE IF name \in scopes[c].referenced THEN "referenced"
     ELSE "captured"

\* Every use of a variable is emitted as what it means, however closures and
\* debug statements nest.  (Closures around the closure of the use are where
\* the two searches of Scope differ from each other.)
UsesMeanWhatTheySay ==
  \A name \in Names : Form(name) = Meaning(name)

\* When a closure is complete its environment has every field that the code of
\* its body reaches for.
EnvironmentIsComplete == built.needed \subseteq built.fields

\* An environment has no field twice: no name that a closure references is
\* captured by it as well.
FieldsDiffer ==
  \A i \in 1 .. Len(scopes) : scopes[i].referenced \cap scopes[i].captured = {}

\* No closure's list of references is refused.
ReferencesAreAccepted == ~failed

-----------------------------------------------------------------------------
(* What makes it so: invariants that the steps maintain. *)

Index == 1 .. Len(scopes)

\* Only the first scope is a function's, only closures have references, and a
\* name is captured only where it is not a reference.
ChainInv ==
  /\ TypeOK
  /\ \A i \in Index :
       /\ scopes[i].kind = "function" => i = 1
       /\ scopes[i].kind # "closure" => scopes[i].referenced = {}
  /\ FieldsDiffer

\* With no debug statement in a closure and no name declared twice: debug
\* statements are outside of all closures, a name has one declaration, and a
\* closure's references are declared outside of it.
NestInv ==
  /\ \A i, j \in Index :
       j < i => /\ scopes[i].kind = "debug" => scopes[j].kind # "closure"
                /\ scopes[i].variables \cap scopes[j].variables = {}
  /\ \A i \in Index : \A name \in scopes[i].referenced :
       \E j \in Index : j < i /\ name \in scopes[j].variables
  /\ \A i \in Index : scopes[i].reached \subseteq Fields(scopes[i])

IInv ==
  /\ ChainInv
  /\ ~DebugInClosures /\ ~Shadow =>
       NestInv /\ EnvironmentIsComplete /\ ReferencesAreAccepted

=============================================================================
