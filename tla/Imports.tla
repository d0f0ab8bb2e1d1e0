------------------------------- MODULE Imports -------------------------------
(***************************************************************************)
(* A program of several files.  Parser::parse reads a file twice: its top  *)
(* level, where names are defined, and then the bodies of its functions,   *)
(* where they are used.  An import reads another file in between, in a     *)
(* ParseContext of its own, and emits its C sources.                       *)
(* A text is a sequence of items; a name is a sequence of identifiers, the *)
(* namespaces first, and is printed for C with _3_ between them.           *)
(***************************************************************************)
EXTENDS Naturals, Sequences, SequencesExt, FiniteSets, TLC

CONSTANTS
  Main,      \* the file that is built
  Programs   \* what the files of a program contain

Names == Seq(STRING)
Items ==
  [kind : STRING, name : Names, type : Names, parameter : Names, uses : Seq(Names)]

(* Programs are texts by file, and a global has a name.  In the runs files *)
(* do not import each other in a circle: the compiler would follow it for  *)
(* ever.                                                                   *)
ASSUME ProgramsAssumption ==
  \A p \in Programs :
    /\ Main \in DOMAIN p
    /\ \A file \in DOMAIN p :
         /\ p[file] \in Seq(Items)
         /\ \A i \in DOMAIN p[file] : p[file][i].kind = "global" => p[file][i].name # <<>>

Item(kind, name, type, parameter, uses) ==
  [kind |-> kind, name |-> name, type |-> type, parameter |-> parameter, uses |-> uses]

Definition(file, kind, name) == [file |-> file, kind |-> kind, name |-> name]
Undefined == Definition("", "undefined", <<>>)

VARIABLES
  program,   \* file -> its items
  contexts,  \* the parses that are under way, each an import of the one before it
  emitted,   \* contexts for which C sources have been written
  linked,    \* the object files of the executable
  state      \* parsing, built, failed, or refused by an assertion

vars == <<program, contexts, emitted, linked, state>>

ParseContext(file) ==
  [file       |-> file,
   next       |-> 1,           \* the next item
   pass       |-> "top level", \* then bodies, and parsed or failed
   namespaces |-> <<>>,        \* of the scopes that are open
   visibility |-> "internal",
   types      |-> <<>>,        \* _dataTypeMap: name -> definition; the other tables alike
   variables  |-> <<>>,        \* functions are among them
   constants  |-> <<>>,
   imports    |-> <<>>,        \* the tables of imported contexts, as seen from outside
   paths      |-> <<>>,        \* _importedPaths
   bodies     |-> <<>>,        \* functions still to be read
   messages   |-> FALSE,       \* is there any?
   declared   |-> {},          \* for C
   uses       |-> {}]          \* of names in bodies

Init ==
  /\ program \in Programs
  /\ contexts = <<ParseContext(Main)>>
  /\ emitted = {}
  /\ linked = <<>>
  /\ state = "parsing"

-----------------------------------------------------------------------------
(* Symbol tables. *)

\* table, with a definition of name, which is asked for before where there must be none.
Known(table, name, definition) ==
  [n \in DOMAIN table \cup {name} |-> IF n = name THEN definition ELSE table[n]]

\* Names are looked for in table before they are in other.
OrElse(table, other) ==
  [n \in DOMAIN table \cup DOMAIN other |-> IF n \in DOMAIN table THEN table[n] ELSE other[n]]

fullNamespace(c) == FlattenSeq(c.namespaces)

\* What the imported contexts know; the first one wins.
Imported(c, table) ==
  LET knowing(name) == {i \in DOMAIN c.imports : name \in DOMAIN c.imports[i][table]}
  IN [name \in UNION {DOMAIN c.imports[i][table] : i \in DOMAIN c.imports} |->
        c.imports[Min(knowing(name))][table][name]]

At(table, name) == IF name \in DOMAIN table THEN table[name] ELSE Undefined
FirstDefined(definitions) ==
  LET found == {i \in DOMAIN definitions : definitions[i] # Undefined}
  IN IF found = {} THEN Undefined ELSE definitions[Min(found)]

\* A type is looked for everywhere before the namespace is tried.
dataTypeForName(c, name) ==
  LET known == OrElse(c.types, Imported(c, "types"))
  IN FirstDefined(<<At(known, name), At(known, fullNamespace(c) \o name)>>)

NoNamespaceMutant(c, name) ==
  FirstDefined(<<At(c.variables, name), At(Imported(c, "variables"), name)>>)

\* Imports are searched without the namespace.
variableForName(c, name) ==
  FirstDefined(<<At(c.variables, name), At(c.variables, fullNamespace(c) \o name),
                 At(Imported(c, "variables"), name)>>)

constantForName(c, name) == At(OrElse(c.constants, Imported(c, "constants")), name)

\* Keywords aside.
identifierAvailableForDefinition(c, name) == dataTypeForName(c, name) = Undefined

-----------------------------------------------------------------------------
(* The top level. *)

context == Last(contexts)
Atop(c) == contexts' = Append(Front(contexts), c)
item == program[context.file][context.next]

\* The node of the item becomes a child of the tree.
Parsed(c) == Atop([c EXCEPT !.next = @ + 1])

\* There is no node, but a message, be it only that there are tokens left.
Stopped == Atop([context EXCEPT !.pass = "failed", !.messages = TRUE])

Reading(kind) ==
  /\ state = "parsing" /\ context.pass = "top level"
  /\ context.next \in DOMAIN program[context.file]
  /\ item.kind = kind

fullName == fullNamespace(context) \o item.name
Defined == Definition(context.file, item.kind, fullName)

\* Without the namespaces.
UnqualifiedMutant(symbol, definition) ==
  [symbol |-> <<Last(symbol)>>, source |-> context.visibility, definition |-> definition]

Declaration(symbol, definition) ==
  [symbol |-> symbol, source |-> context.visibility, definition |-> definition]

Going == UNCHANGED <<program, emitted, linked, state>>
Refuse == state' = "refused" /\ UNCHANGED <<program, contexts, emitted, linked>>

\* An enumeration has one member, <<name, member>>.
Composite ==
  LET type == Front(fullName)
      definition == Definition(context.file, "type", type)
  IN /\ Reading("enumeration")
     /\ IF constantForName(context, fullName) # Undefined THEN Refuse
        ELSE /\ Parsed([context EXCEPT
                  !.types = Known(@, type, definition),
                  !.constants = Known(@, fullName, Defined),
                  !.declared = @ \cup {Declaration(type, definition), Declaration(fullName, Defined)}])
             /\ Going

\* A structure overrides an imported one of its name.  C has its members in the internal
\* header, and its name in the public one if it is public.
Structure ==
  LET sources == {"internal"} \cup ({context.visibility} \cap {"external"})
  IN /\ Reading("type")
     /\ Parsed([context EXCEPT
          !.types = Known(@, fullName, Defined),
          !.declared = @ \cup [symbol : {fullName}, source : sources, definition : {Defined}]])
     /\ Going

\* The signature is parsed at once; the body is kept for later, with its namespace.
Function ==
  LET body == [namespaces |-> context.namespaces, parameter |-> item.parameter, uses |-> item.uses]
      known == item.type = <<>> \/ dataTypeForName(context, item.type) # Undefined
  IN /\ Reading("function")
     /\ IF ~identifierAvailableForDefinition(context, item.name) \/ ~known THEN Refuse
        ELSE /\ IF fullName \in DOMAIN context.variables THEN Stopped
                ELSE Parsed([context EXCEPT
                       !.variables = Known(@, fullName, Defined),
                       !.bodies = Append(@, body),
                       !.declared = @ \cup {Declaration(fullName, Defined)}])
             /\ Going

\* It is declared by its name alone.
Global ==
  /\ Reading("global")
  /\ IF ~identifierAvailableForDefinition(context, item.name)
          \/ fullName \in DOMAIN context.variables
     THEN Stopped
     ELSE Parsed([context EXCEPT
            !.variables = Known(@, fullName, Defined),
            !.declared = @ \cup {Declaration(item.name, Defined)}])
  /\ Going

Namespace ==
  /\ Reading("namespace")
  /\ Parsed([context EXCEPT !.namespaces = Append(@, item.name)])
  /\ Going

\* There may be more ends than namespaces, or fewer.
End ==
  /\ Reading("end")
  /\ IF context.namespaces = <<>> THEN Stopped
     ELSE Parsed([context EXCEPT !.namespaces = Front(@)])
  /\ Going

\* public and private: what C sees of what follows.
Visibility ==
  /\ Reading("visibility")
  /\ Parsed([context EXCEPT !.visibility = item.name[1]])
  /\ Going

-----------------------------------------------------------------------------
(* Imports. *)

\* A file that is not there is an empty one, which is an error.
Text(file) == IF file \in DOMAIN program THEN program[file] ELSE <<>>

\* Nothing tells whether the file has been imported: hasImported is asked for the name of
\* its header, and paths have no ending.
Import ==
  LET file == item.name[1]
  IN /\ Reading("import")
     /\ IF Text(file) = <<>>
        THEN Parsed([context EXCEPT !.messages = TRUE])
        ELSE contexts' = Append(Front(contexts), [context EXCEPT !.next = @ + 1])
                           \o <<ParseContext(file)>>
     /\ Going

\* ImportNode does not ask whether the import has been successful.
SilentMutant(importer, succeeded) == importer

\* A message, if the import has failed; the parse goes on.
ImportDone(importer, succeeded) ==
  IF succeeded THEN importer ELSE [importer EXCEPT !.messages = TRUE]

\* The context as seen by its importer.
View(c) ==
  [types     |-> OrElse(c.types, Imported(c, "types")),
   variables |-> OrElse(c.variables, Imported(c, "variables")),
   constants |-> OrElse(c.constants, Imported(c, "constants"))]

Importer == contexts[Len(contexts) - 1]
BackTo(c) == contexts' = Append(Front(Front(contexts)), c)

ImportFailed ==
  /\ state = "parsing" /\ context.pass = "failed" /\ Len(contexts) > 1
  /\ BackTo(ImportDone(Importer, FALSE))
  /\ Going

ImportSucceeded ==
  /\ state = "parsing" /\ context.pass = "parsed" /\ Len(contexts) > 1
  /\ emitted' = emitted \cup {context}
  /\ BackTo(ImportDone([Importer EXCEPT !.imports = Append(@, View(context)),
                                        !.paths = Append(@, context.file)], TRUE))
  /\ UNCHANGED <<program, linked, state>>

-----------------------------------------------------------------------------
(* The bodies. *)

EndOfTopLevel ==
  /\ state = "parsing" /\ context.pass = "top level"
  /\ context.next = Len(program[context.file]) + 1
  /\ Atop([context EXCEPT !.namespaces = <<>>,
                          !.pass = IF context.messages \/ context.next = 1 THEN "failed" ELSE "bodies"])
  /\ Going

\* parseExpressionIdentifier: a constant, a function or a global, or else the parameter.
Found(c, parameter, name) ==
  FirstDefined(<<constantForName(c, name), variableForName(c, name),
                 IF name = parameter THEN Definition(c.file, "parameter", name) ELSE Undefined>>)

\* The current scope is the one at the end of the file.
LostNamespaceMutant(c, body) == c

\* pushScope, and the scope gets the namespace of the function.
InScope(c, body) == [c EXCEPT !.namespaces = body.namespaces]

\* The body ends at the first name that is not known.
ParseFunctionBody ==
  LET body == Head(context.bodies)
      found == [i \in DOMAIN body.uses |->
                  Found(InScope(context, body), body.parameter, body.uses[i])]
      unknown == {i \in DOMAIN found : found[i] = Undefined}
      read == {i \in DOMAIN found : \A j \in unknown : i <= j}
      Use(i) == [namespace |-> FlattenSeq(body.namespaces), parameter |-> body.parameter,
                 name |-> body.uses[i], definition |-> found[i]]
  IN /\ state = "parsing" /\ context.pass = "bodies" /\ context.bodies # <<>>
     /\ Atop([context EXCEPT !.bodies = Tail(@),
                             !.uses = @ \cup {Use(i) : i \in read},
                             !.messages = @ \/ unknown # {}])
     /\ Going

EndOfBodies ==
  /\ state = "parsing" /\ context.pass = "bodies" /\ context.bodies = <<>>
  /\ Atop([context EXCEPT !.pass = IF context.messages THEN "failed" ELSE "parsed"])
  /\ Going

\* processInput: C is compiled whatever comes of it, for the file and what it imports itself.
Build ==
  /\ state = "parsing" /\ Len(contexts) = 1 /\ context.pass \in {"parsed", "failed"}
  /\ IF context.pass = "failed" THEN state' = "failed" /\ UNCHANGED <<emitted, linked>>
     ELSE /\ state' = "built"
          /\ emitted' = emitted \cup {context}
          /\ linked' = <<Main>> \o context.paths
  /\ UNCHANGED <<program, contexts>>

Next ==
  \/ Composite \/ Structure \/ Function \/ Global \/ Namespace \/ End \/ Visibility
  \/ Import \/ ImportFailed \/ ImportSucceeded
  \/ EndOfTopLevel \/ ParseFunctionBody \/ EndOfBodies \/ Build

Spec == Init /\ [][Next]_vars

-----------------------------------------------------------------------------
(* What the texts say. *)

\* The namespaces that are open behind each item.
Opened(namespaces, it) ==
  CASE it.kind = "namespace" -> Append(namespaces, it.name)
    [] it.kind = "end" -> Front(namespaces)
    [] OTHER -> namespaces
Open(text) ==
  LET open[i \in 0 .. Len(text)] == IF i = 0 THEN <<>> ELSE Opened(open[i - 1], text[i])
  IN open
NamespaceAfter(text) == [i \in 0 .. Len(text) |-> FlattenSeq(Open(text)[i])]

Definitions(file) ==
  {Definition(file, Text(file)[i].kind, NamespaceAfter(Text(file))[i] \o Text(file)[i].name) :
     i \in {j \in DOMAIN Text(file) :
             Text(file)[j].kind \in {"enumeration", "type", "function", "global"}}}

ImportsOf(file) ==
  {Text(file)[i].name[1] : i \in {j \in DOMAIN Text(file) : Text(file)[j].kind = "import"}}

\* Directly or not: the files in all sets that imports do not lead out of.
Reachable(file) ==
  LET files == UNION {ImportsOf(f) : f \in DOMAIN program}
      closed == {S \in SUBSET files : ImportsOf(file) \cup UNION {ImportsOf(f) : f \in S} \subseteq S}
  IN {f \in files : \A S \in closed : f \in S}

\* What a use may mean, by its full name or within its namespace.
Candidates(file, use) ==
  {d \in Definitions(file) :
     \/ d.kind # "type" /\ d.name = use.name
     \/ d.kind \in {"function", "global"} /\ d.name = use.namespace \o use.name}
  \cup {d \in UNION {Definitions(f) : f \in Reachable(file)} : d.kind # "type" /\ d.name = use.name}
  \cup {d \in {Definition(file, "parameter", use.name)} : use.name = use.parameter}

-----------------------------------------------------------------------------
(* Properties. *)

(* C sources are written only for a file that has been read to its end:     *)
(* with a declaration of everything that is defined in it, with all names   *)
(* known in all bodies, and with everything that it imports, directly or    *)
(* not, written before.                                                     *)
OnlyWholeFilesAreEmitted ==
  \A c \in emitted :
    /\ Definitions(c.file) \subseteq {d.definition : d \in c.declared}
    /\ \A i \in DOMAIN program[c.file] :
         program[c.file][i].kind = "function" =>
           \A name \in Range(program[c.file][i].uses) : \E use \in c.uses : use.name = name
    /\ \A use \in c.uses : use.definition # Undefined
    /\ Reachable(c.file) \subseteq {other.file : other \in emitted}

\* What the C compiler sees of c: its own declarations, and headers of what it imports
\* itself.
Visible(c) ==
  c.declared \cup
    UNION {{d \in other.declared : d.source = "external"} :
             other \in {e \in emitted : e.file \in Range(c.paths)}}

\* Where C should see a definition: of the file itself, or a public one of an import of its
\* own.  (A global in a namespace is declared under another name than it is used with.)
Promised(c, definition) ==
  /\ \/ definition.file = c.file
     \/ /\ definition.file \in ImportsOf(c.file)
        /\ \E other \in emitted : \E d \in other.declared :
             d.definition = definition /\ d.source = "external"
  /\ definition.kind \in {"function", "enumeration", "global"}
  /\ definition.kind = "global" => Len(definition.name) = 1

(* A name is used for the one definition that it can mean, in the same      *)
(* file, before or behind the use, or in an imported one; it is unknown     *)
(* only if there is none.  The name that is printed for it is declared in C *)
(* for that definition.                                                     *)
UsesReachTheirDefinitions ==
  \A c \in emitted \cup Range(contexts) : \A use \in c.uses :
    /\ use.definition = Undefined => Candidates(c.file, use) = {}
    /\ Cardinality(Candidates(c.file, use)) = 1 => use.definition \in Candidates(c.file, use)
    /\ c \in emitted /\ Promised(c, use.definition) =>
         \E d \in Visible(c) : d.symbol = use.definition.name /\ d.definition = use.definition
=============================================================================
