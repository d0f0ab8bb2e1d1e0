# Three: a TLA+ development

Three is a small systems language. Its compiler (`src/compiler`, C++11) translates Three to C, a
frontend (`src/frontend`) runs the compiler and the C compiler, and a run-time library
(`src/runtime`, C) supports what the generated code needs: transactions for the `atomic` statement,
closures, C11 atomics and threads over pthreads. The Rakefile builds without `NDEBUG`, so the
assertions of the code are live: where the models say "refused" or "rejected", an assertion fails.

This directory holds TLA+ models of the parts whose correctness is not obvious from reading one
function, the TLC configurations that check them, and proofs for TLAPS.

    tlc -config TMSpeculation.cfg MCTransactionalMemory      # check a run
    tlapm TransactionalMemory_proof.tla                      # check the proofs of a module

`PROJECT.json` is the index: the components, the runs with their properties, a fault (mutant) for
every property that the property has to notice, the source lines of every definition, the findings,
the hazards, and the theorems.

## 1. Inventory

What the repository consists of, and what would make each part correct. "Hard" says what a unit test
hardly reaches.

### Run-time library

| Part | State | Operations | Hard | Correct means |
|---|---|---|---|---|
| Transactions (`runtime/transactional_memory.c`, `intel_tsx.h`) | once-flag, "RTM supported", a recursive mutex, an atomic counter; the CPU's transactions | `three_transaction_begin`, `_end`, `_abort` | threads interleave between mutex and counter; hardware rolls a thread back to an earlier call at any time; retries; nesting; lock and transactions side by side | blocks are atomic; lock and counter agree; nobody is forgotten |
| Threads (`runtime/c11/threads_pthreads.c`) | none of its own | C11 threads, mutexes, `call_once` over pthreads | recursion, initialisation by one of many | as C11 says |
| CPU detection (`runtime/cpu.c`) | none | `three_cpu_has_capability` | - | one answer, constant |
| Closures (`runtime/closure.c`) | an environment on stack or heap | create, copy, release | - (nothing calls copy or release) | freed once, never used after |

### Compiler

| Part | State | Operations | Hard | Correct means |
|---|---|---|---|---|
| Preprocessor | nesting of `%if` | one pass over the text | nested `%if` | lines outside of conditionals and in chosen branches are kept, in their order, and nothing else |
| Lexer, SubtokenLexer, `Token` | two token buffers, whitespace filter | `next`, `peek(n)`, `setFilterWhitespace` | tokens are buffered before the filter is switched | every token once, in order |
| `Parser`, `ParseHelper`, AST nodes' `parse` | current token, list of functions to parse | top level, statements, expressions, types | two passes; nested headers and `end`s; errors | the tree of the grammar, or a report |
| Function bodies (`FunctionDefinitionNode`) | stored text of each body | buffer a body, parse it later | two independent notions of where a body ends | they agree |
| `ParseContext`, `Scope`, `SymbolContainer` | chain of scopes, tables of symbols, imported paths | define, look up, push, pop, import | captures and references through nested closures; names of transactions; cyclic imports | a name means what the language says |
| Types (`DataType`, `TypeParser`, `CTypeCodeGenerator`) | values | build, compare, print | C declarators inside out | C type means the Three type |
| Code generation (`CCodeGenVisitor`) | output position, current function | one visit per node kind | code placed before the current line; matching begin/end calls on every path; closures' environments | the C program does what the Three program says |
| Output (`CSource`, `CSourceContext`, `CSourceEmitter`) | declarations seen, three output files | emit | order of dependent declarations | declared before used, once |
| Header indexer (`CSourceIndexer`) | libclang's | visit cursors | - | - |
| Return checkers | booleans on the way down | visit | nested branches | a function that can end without return is found |

### Frontend

`Three.cpp` parses options and calls compiler and C compiler; `REPL.cpp` reads lines.

### How the parts interact

    text -> Preprocessor -> Lexer -> Parser, first pass: top level, function bodies stored as text
                                        |  defines symbols in ParseContext, imports other files
                                     Parser, second pass: stored bodies -> AST
                                        |  asks Scope what a name is, and which transaction is open
                                     CCodeGenVisitor: AST -> CSource -> three C files
                                        |  calls of the run-time library
                                     threads running generated code on transactional_memory.c

All of the compiler is sequential: what is hard there are long sequences of legal steps, two
readings of one text, and state kept in a chain of scopes that other code consults later. The
run-time library is concurrent.

## 2. Modules

| Module | Models | Extends or instantiates |
|---|---|---|
| `AtomicBlocks` | what an `atomic` statement promises (abstract) | |
| `TransactionalMemory` | `runtime/transactional_memory.c`, step by step | `INSTANCE AtomicBlocks` |
| `TransactionalMemory_proof` | proofs | `TransactionalMemory` |
| `AtomicStatements` | parser, scopes and code generator on `atomic`, `return`, `abort`, `break` | |
| `AtomicStatements_proof` | proofs | `AtomicStatements` |
| `ClosureCaptures` | scopes, closures, variables and environments | |
| `ClosureCaptures_proof` | proofs | `ClosureCaptures` |
| `FunctionBodies` | the two readings of a function's body | |
| `FunctionBodies_proof` | proofs | `FunctionBodies` |
| `TokenStream` | what the lexer promises (abstract) | |
| `LexerBuffers` | the lexer's buffer, look-ahead and whitespace filter, and those who switch it | `INSTANCE TokenStream` |
| `LexerBuffers_proof` | proofs | `LexerBuffers` |
| `Subtokens` | `SubtokenLexer`: the smallest pieces of a text, as operators | |
| `Preprocessing` | the pass over a text that obeys `%if`, `%else`, `%end` | `Subtokens` |
| `Lexing` | a text preprocessed, made into tokens, stored and made into tokens again | `Preprocessing` |
| `Lexing_proof` | proofs | `Lexing` |
| `DataTypes` | types as values, and the names of types that a context defines | |
| `TypeParsing` | the look-ahead for types and their parse, as operators | `DataTypes` |
| `CTypes` | the C text of a type, and what a C compiler reads in a declaration | `DataTypes` |
| `VariableDeclarations` | a declaration on its way from its text to its C text | `TypeParsing`, `CTypes` |
| `OperatorTrees` | trees of expressions, and the tree that levels of operators give a text (a reference, without a parser) | |
| `ExpressionParsing` | precedence climbing, calls, members, tuples, as operators | `OperatorTrees` |
| `CExpressions` | the C text of an expression, and the levels of C's operators | `ExpressionParsing` |
| `Expressions` | an expression statement, parsed and printed | `CExpressions` |
| `StatementEmission` | the visit functions of statements and closures, and the sources they write to | |
| `StatementEmission_proof` | proofs | `StatementEmission` |
| `Imports` | the files of a program: both passes over each, imports in between, tables of symbols, the build | |
| `Imports_proof` | proofs | `Imports` |
| `MC...` | small instances for TLC: model values and symmetry | the module named |

`AtomicStatements` is about the calls the compiler emits and `TransactionalMemory` about what the calls
do; they meet at "blocks are bracketed properly": the latter's program takes for granted what the
former shows (`Balanced`).

### TransactionalMemory and AtomicBlocks

A thread's position in the runtime is `pc`; every step between two accesses to shared state is an action:
`call_once` and the initialisation (in which `mtx_init` makes a free mutex, whatever was done with it before: a thread that ran ahead would lose its lock), `xbegin`, the check of the counter in the transaction
(`CheckStarted`), the dispatch on an abort status (`Dispatch`: retry, lock, or return false), `mtx_lock`
and `CountUp` (`three_transaction_lock`), `CountDown` and `mtx_unlock` (`three_transaction_unlock`), `xend`,
and `three_transaction_abort`. The status word is reduced to the cases the dispatch tells apart. The
counter has its width (`UIntSize`). Each call's `tries` is a local variable; one function per thread is
enough since a nested call in a transaction never comes back to the dispatch.

The hardware is an environment: transactions nest, buffer writes, are rolled back to the outermost
`xbegin` when another thread touches what they have read or written (data or the counter), and may be
rolled back at any time with any hardware status. The programs are all that bracket their blocks and
touch shared data in them only, with `MaxDepth` blocks at most around a point.

`AtomicBlocks` has no lock, no counter and no hardware: an open block reads what completed blocks have
left, takes effect in one step, and leaves nothing when dropped. The refinement maps its `store` to the
history variable `committed`, and its logs to `seen` and `buf`.

### AtomicStatements

A step is a statement or a closing keyword, parsed and emitted. `blocks` are the nodes being parsed,
`scopes` the chain of `Scope`s with the counter that names transactions, and `depths` is the set of
numbers of open transactions that a path through the emitted C can have at this point, so that all paths
are followed at once. `emitted` is what the last step has written about transactions. A program is `Plain`
if it keeps to a discipline, stated by `PlainReturn`, `PlainAbort` and `PlainJump`: returns in an atomic
statement only where `currentScopedName` names the one open transaction, no jump out of an atomic
statement, no abort where the innermost scope knows of no transaction.

### ClosureCaptures

A step declares or uses a variable, or opens or closes a closure or debug statement. `scopes` is the chain
with `_variables`, `_referencedVariables` and `_capturedVariables`; the searches of `Scope` are operators on
chains. `Form` is the form of C that `VariableNode::parse` and the code generator give a name, `Meaning` what
the language means by it. `built` is the environment that the last closed closure gets. Three constants say
which programs are meant: `NestClosures`, `DebugInClosures`, `Shadow`.

### FunctionBodies

A step gives the next token to both readings: `nestedEnds`, `onlyWhitespaceSoFar` and `buffered` belong to
`bufferOpenToCloseToken`; `blocks`, `opening`, `tailing` and `parsed` to the second pass. A token stands for
what begins with it (an expression with its operands, a keyword with its header), with the newlines in front
of it. That both readings can go side by side is due to one token of look-ahead. Loops and debug
statements end on a token that begins no statement (`parseUntilEnd`), functions and closures stop there,
and the others try it for ever (`parseUntil`); `Meets` says which node it is that has to deal with the token.
The end of the stored text is such a token too: `parseUntil` waits for an `EndOfInput` that the lexer never makes.
`parseUntilEnd` gives up, with a failed assertion, when a body takes more than 100000 rounds; that limit is not in the model, whose texts have any length.
`liberties` notes when a text leaves the discipline: a statement with a body that does not begin its line, the
spelling `atomic : fallback` with spaces, or an error of grammar.

### LexerBuffers and TokenStream

A step is one call of the lexer with what its caller does by the way. `text` holds the types of the tokens that
`Lexer::advance` will make, `position` how many it has made, and `at` (made, less those in the buffer) how many
have been taken or passed over; a token is its type and its place, so that a lost, repeated or exchanged token shows.
The loops of `next` and `peek` are one step each: `Enough` says how many tokens they make. The parser makes any
calls in any order. The three readers of spans with their local variables are `bufferOpenToCloseToken` (with the
look-ahead of `isAtAtomicExpression`), `parseSearchPathArgument` and `parseText`; which of the closing words of a body ends it is
the business of `FunctionBodies`. `MaxPosition` bounds the tokens made, and the parser stops taking at the end of the text.

`TokenStream` has no buffer: a text, a place in it, the filter, and the answer to the last call. The refinement maps its
`at` to the expression `at`.

### Subtokens, Preprocessing and Lexing

`Subtokens` has the cursor of `SubtokenLexer` as a record (place, type and string of the current subtoken); `next` is one call.
A step of `Preprocessing` is one subtoken of the text passed through, or one directive with the branches it chooses between; `branch`
and `active` are the local variables of `simplify` and of the function for `%if`. A step of `Lexing` is one token made by `Lexer::advance`, which
asks for up to two subtokens more. `Init` chooses the text: lines of `LineTexts` in any order, and all short texts over `Alphabet`. After the first reading the texts of
the tokens are joined, as `bufferOpenToCloseToken` and `str()` do with a body, and lexed once more. Characters that no rule tells apart from another are left
out: letters but for the names of keywords and platforms (which are one letter), most punctuation, escapes in strings.

### DataTypes, TypeParsing, CTypes and VariableDeclarations

`TypeParser` has two grammars of types: the `peek` functions only say where a type ends (the parser tells declarations from
expressions by them), the `parse` functions take the tokens and build a `DataType`. `TypeParsing` has both, one operator per
function, over sequences of tokens; a `peek` that never returns is `Forever`, a failed assertion `No`. `CTypes` has
`CTypeCodeGenerator`, which writes the declarator of C inside out, as an operator on types, and next to it, external, the
part of C's grammar that takes a declaration apart again, from the specifiers inwards: `CReading` gives the layers of the
declared type. `VariableDeclarations` takes one declaration through its steps: look ahead, parse, take the name, print.

The texts are those of the written types of `MCVariableDeclarations`, which builds each together with what it means; some of
these texts with a token removed or replaced; and all short ones. Generic types, named kinds that only C headers bring, volatility and
aliasing (which no parse sets) and the initialiser of a declaration are left out. A name of a tuple structure is kept as the sequence of its words:
it abstracts that "`* const`" and a type called `P_const` would be spelled alike.

### OperatorTrees, ExpressionParsing, CExpressions and Expressions

`OperatorTrees` has a reference that knows nothing of parsing: the root of a text is, of the infix operators outside of brackets, the
last one to be done by a table of levels. `ExpressionParsing` has the parse functions, one operator each, with the tables of `Token.cpp`;
`Climb` is the loop of `parseExpression`. The tree asks for types where the code does (a point behind a pointer is a method call;
the elements of a tuple have types). `CExpressions` has the visit functions, whose text is a sequence of symbols that carry the place of each name in the
source, so that a name lost, doubled or moved shows; and, external, the levels of C's operators (`CLevels`). The same reference gives the tree
that Three's tables want, and the tree that C finds in the printed text. Operators that have one level and one treatment are one in the
instance; operands without operators in them (literals, metafunctions, closures) are names.

### StatementEmission

A visit function is a script: the sequence of its calls of `CSource` (`print`, `printLine`, the indentation) and of `accept` for the
expressions and children in it, in the order of the code and with the branches as parameters. `visits` is the stack of scripts under
way, `sources` are the body's source and one `dedicatedSource` for each closure being visited, `declarations` is `_declaractionsSource`.
A step is one call; what an expression is (a closure, a call of a function, neither) and what the children are is chosen when it
is reached, and remembered in the visit, so that an expression which the code visits a second time is the same one.

A closure puts three pieces of C in three places: its function, written to a source of its own and appended to the declarations when it
is complete; the capture of its environment, a line put in front of the line under construction (`printPreviousLine`); and its value, where
the expression is. The properties read these pieces as C does. `Reading` is a small reader of braces and loop headers; it says for
each value made whether its environment is in sight, and whether it was captured since the value was last made. `EnvironmentsAreFresh` gives, by the closure's place, exactly
the ways in which it is not (`Ways`), and `DefinedOnce` exactly the places whose closures are defined twice: they are properties of the
code as it is, exceptions included, and what the exceptions are is in section 5.

Of the text only braces, loop headers, captures, values and calls are kept. A switch has up to two cases and a call two arguments.
The loop variable that is captured in a `for` header, and names that are local to a C block and not to Three's scope, are left out.

### Imports

`contexts` are the `ParseContext`s on the call stack, each parsing a file that the one before it imports; a step is an item of the top level, a
body, or the end of a pass. The tables are functions from qualified names to definitions, so that the properties can ask which definition a name has
reached; an imported context is kept as it is seen from outside, own names first. `declared` has what C will see: the symbol, which of
the C file, internal and public header it is declared in, and for what. The C sources of an import include its own imports only in the internal header, so C
does not look through an import as Three does (`Visible`). `Candidates` says from the text alone what a use may mean; where there are several (a parameter named like a global, a name
of two imports) nothing is claimed. Texts end with a newline. Methods, generic parameters, members of structures, includes and the initialisers of globals
are left out, and in the runs files do not import each other in circles: the compiler would recurse for ever.

## 3. Runs

| Run | Question | Bounds |
|---|---|---|
| `TMSpeculation` | Are blocks atomic on a CPU with RTM? Type, exclusion of speculation and fallback, counter and mutex, memory, refinement of `AtomicBlocks`, and how the mutex changes hands. Does every begin decide, is the lock handed on? | 2 threads, 2 locations, 2 values of which one is written, nesting 2, 2 attempts, counter of 4 values |
| `ASPlain` | In disciplined programs: do begin and end balance on all paths, do aborts name the right transaction? | bodies of 8 steps, nesting 3 |
| `ASStrayEnd` | violation: is nothing ended that was not begun? | 6 steps |
| `CCNested` | With closures in closures: does each use mean what it says, is each environment complete and without doubles, is each reference list accepted? | 2 names, 8 steps, nesting 3 |
| `FBBodies` | In disciplined texts: do both readings agree at every token, is the whole body parsed? | 3 nested statements; texts of any length |
| `LexerBuffers` | Is the buffer, with its filter, a plain stream of tokens (refinement of `TokenStream`)? Are stored spans the text as it is (but for newlines in an annotation's text), are their spaces hidden from the parser, does the end of the input end them? | texts of 3 tokens of 6 types, look-ahead 3, 9 tokens made |
| `Lexing` | Does the preprocessor keep the lines outside of conditionals and those of the chosen branches, and nothing else? Do tokens cover the text, is each operator the longest, is a stored text lexed as it was, is the end of the text the end of its tokens? | texts of up to 5 lines of 7 kinds, and of up to 4 of 15 characters |
| `VariableDeclarations` | Do look-ahead and parse agree on types, is the type that was written built, and does C read the printed declaration as that type? | written types nested up to three deep; those of `MCEdited` with one token changed; all texts of up to 4 tokens |
| `Expressions` | Is an expression grouped as the tables of levels and associativity say, and the same way by C? Is every operand kept, once and in order, and is what is printed C? | chains of up to 3 operators of 8 levels over 7 kinds of operands; destructured assignments; all texts of up to 4 of 15 tokens |
| `EXParentheses` | violation: is a multiplication of a subtraction still one in C? | one operator, and one text with parentheses |
| `StatementEmission` | Do indentation and braces match, does every closure's value find its environment, and is every closure's function defined once, before its use, but for the places named? | 2 functions, 2 statements, 2 closures |
| `Imports` | Is C written only for files that are whole, with all that they import? Does a use reach the one definition that it can mean, in Three and in C? | three files: up to 3 of 10 items behind the imports of one, 3 libraries, 2 bases |

Why the bounds are enough. Two threads suffice for every pairwise hazard of the runtime (lock against
transaction, transaction against transaction, window against window), and
the proofs are for any number, with RTM and without. Nesting 2 has the recursive mutex and nested transactions; 2 attempts have a
retry and the last retry; two locations let a block read one and write the other, and let conflicts miss; the
counter of 4 values wraps if anything decrements it too often. Eight statements are enough for an atomic statement
with an else, in another, with a return in each place. Three nested closures are the first depth at which the
special case of `referencedVariable` matters. In `FunctionBodies` the length is not bounded, as the state is a stack.
In `LexerBuffers` three tokens and a look-ahead of three can hold a whole span, with spaces in front and behind, in the buffer
before the filter is switched; every text over the types that the readers tell apart is an initial state.
In `Lexing` five lines hold a conditional with both branches and a line in each, or one in another; the longest token that looks ahead (`>>=`, `1.1`) has
three characters, and the fourth is what stands behind it.
In `VariableDeclarations` every kind of type is in every kind once, and the kinds that disturb C's declarators (pointers, functions,
tuples) twice; two-element lists show every combination of label, comma and end; a changed token stands in every place of a text.
In `Expressions` two operators show every pair of levels in both orders, and three a pair inside of a third; the short texts
have every way to leave out an operand or a bracket.
In `TMSpeculation` one of the two values is never written (`Written`): it is the one that everything holds at first, so a write can always be
told from no write, and the liveness properties stay within reach.
In `StatementEmission` two closures are one in another, two in one statement, or one visited twice with another in it; two statements are one
in another or one behind another; two functions show what is declared between them.
In `Imports` two levels of imports tell direct from indirect ones, a file may be imported twice, by two files, or be missing; three items hold a
namespace with a definition and a use in it, or a use before and behind.
The type invariants of modules with proofs are theorems, and only the runtime's is also checked; that of `Lexing` is a part of `LexingInv`, and that of `Imports` of its `IInv` (`Typed`). `VariableDeclarations` and
`Expressions`, about which nothing is proved, have none: their properties leave no room for a wrong type.
Deadlock is checked for the runtime (threads go on for ever) and not for the compiler models, where a
body or a declaration ends.

Fairness. In `LexerBuffers`, `WF` of the reader of a span: it is a loop that goes on. In `TMSpeculation`, `WF` of a thread's `Runtime` step: a scheduled thread goes on through the runtime's
code. There is no fairness for getting the mutex (pthreads promises none), so `LockIsHandedOn` says only
that somebody gets it. A block is finite code: `SF` of `End` at each depth, since a rollback can disable `End` again
and again. The hardware is never required to commit: the bounded attempts and the lock have to do.

## 4. Proofs

All theorems are for every value of the constants under the named assumptions (`ConstantsAssumption`,
`ProgramsAssumption`, `BoundAssumption`, `BoundsAssumption`, `LinesAssumption`). All but the last only give types, that the counter is wider than the nesting is
deep, and, in `Imports`, that a global has a name. `LinesAssumption` says which lines the texts with conditionals have: each ends with its only newline, quotes are in comments only,
`%if` is followed by one space, a condition that `parseIf` knows and the newline, `%end` by the newline. Other lines with an `if` or an `end` are refused by the code's own assertions, and a string is one subtoken that no comment begins in; what else is in a line, and behind an `else`, is free. The lines of the run satisfy it, and
only `ConditionalsAreHonoured` depends on it. The bounds of the runs are constants: the theorems hold for any number of threads and locations, and
any nesting and length.

`TransactionalMemory_proof`. The inductive invariant `IInv` is `ControlInv` (types, initialisation, where a thread can be,
counter and mutex, which transactions are past the check; nobody takes the mutex before it is initialised) and `DataInv` (memory, logs). Why more than the
properties is needed: that no transaction past its check coexists with a fallback follows only from
"a thread that watches the counter is in a transaction and the counter is zero" (`SpeculationInv`) together with
"counter and mutex agree"; and atomicity from "what an open block has read is still what completed blocks have left"
(`LogInv`), which is kept by conflict detection (`ConflictInv`). Control is proved without data first. Then
`Atomicity` shows the refinement: a rollback is a `Drop`, an outermost `xend` or `CountDown` a `Commit`, a read or write one of
`AtomicBlocks`, and the rest stutters. `HandsChangeUnannounced` is an action property proved from the same invariant.

`AtomicStatements_proof`. `IInv` says what the nodes being parsed remember: the function is the outermost (`FunctionFirst`), every other scope belongs to a debug statement
or closure and has taken no name (`ScopesFollow`), names of transactions grow inwards up to the counter of the function's scope (`NamesGrow`), and the depths that a node has noted - in front of it, at
the end of its first body, at its jumps - are the number of transactions that were open in front of it, or there is no path (`DepthsMatch`). `NamesDiffer` follows from the third for any program. `Balanced` needs
the discipline (`Plain`), and the argument is about paths: behind a return there are none, a jump stays inside its atomic statement, so that where branches
meet again each has the depth that the node had noted.

`StatementEmission_proof`. `IInv` says that everything needed later is already there: the text under construction in every source makes only closures whose functions
are in the declarations (`MakesFollow`), a private function's prototype is in them when its body is visited (`PrototypesFollow`), each closure's function
stands behind exactly the prototypes up to its own function's (`FunctionsFollow`), and what a visit has found, and would write a
second time, are closures of the current function (`Knows`). Of the scripts the proof uses only that their own texts make no closure (`ScriptsAreScripts`), so it holds for
any order of their steps. The lemma `Growth` shows that declarations of closures of the current function keep all of this; the sources are counted
by the visits to closures (`SourcesFollow`), and a closure that ends finds an expression waiting for it (`CallersWait`).

`BlocksDoMatch`, in the same module, has an invariant of its own, `BInv`, on top of that one. A visit under way owes something to its source: blocks that it has opened and
must close, indentation that it must take back, the header of a loop whose body is to come, a line that it has begun (`States`). The scripts are runs over
these debts that end without any, but for a line that the caller ends (`Leads`, and `ScriptsLead` for every script with every choice of its parameters);
what an outer visit owes waits under what the inner one does (`Frames`, `Owed`). So the text of each source, with the lines and the stream it
has, is related to the debts of the visits that write to it (`Follows`): read as C, it has the shape - blocks open, header pending, no brace without its block - that
the debts say. The reading itself keeps a sequence of blocks with captures in it; `ReadingHasShape` shows that its shape is all that matters for
braces. A switch without a case is the one script that pays more than it owes: then a text closes a block too many, it is no longer *whole*, and `BInv` says
that this has happened if and only if `caseless` is set. Sources are found by counting the visits to closures (`Number`). When all visits are over nothing is owed, and
the property is what is left. That a declaration added twice is one that was there already (`AddedDeclared`) keeps the argument independent of how often something is visited.
`BInv` quantifies over sequences of debts, which TLC cannot enumerate: it is only proved, and what it implies is checked.

`ClosuresAreDefinedOnce`, in the same module too, is about the order of visits, not about text. `Told` says of each declaration that a second definition of a function has the same text
(`SameText`); that what a function makes that is defined twice is defined twice (`MakesAgain`); and that nothing else is, but for what stands where the scripts visit
again (`TwiceFor`, `Repeats`): those places are not assumed but come out of the scripts (`NodesAreFair`: the parts that any script visits twice are `rangeStart`, `rangeEnd` and
`switchRepeated`). What makes this inductive is what the visits under way still have to do: the rest of a script visits an expression that it has found
just when it is one of those parts (`Scripted`), what is found is stored with the definitions of its own closure and all that are made in it (`WholeOf`), and since the
visit to a closure began those have been defined that the text written since then makes (`Segments`). The last is what a visit that repeats an expression relies on: the
definitions it appends are complete, so that text and definitions repeat together.

`ClosureCaptures_proof`. `IInv` is `ChainInv` (any program) and, for programs without debug statements in closures and
without shadowing, `NestInv`. The key step is that the walk of `referencedVariable`, with its special
case, stops exactly at the innermost closure when debug statements are outside of closures, and that
a reference declared outside of its closure cannot be a local variable in it.

`FunctionBodies_proof`. `IInv` adds to the two properties that a tailing `if` is never first on its line, so that the first reading
does not count it, and that only nodes closed by an `end` have headers. The lemmas are on stacks: pushing a node
and cutting nodes off change the number of those that wait for an end as they should.

`LexerBuffers_proof`. `IInv` is the types, "the buffer holds what comes next, in order and without gaps" (`BufferInv`), and "the filter is
on outside of spans, and what a reader has peeked is what it will take" (`SpanInv`): without the latter a peek with the filter and a
take without it might differ. The key lemma is that counting visible tokens in the buffer is counting them in the stream
(`CountedInStream`, by a bijection); from it `PeekLooks` and `NextTakes` show that each call is a step of `TokenStream`, and
the theorem `Refinement` follows with `SettingSwitches`. `Verbatim` needs that while spaces are tokens the next token is the very next (`FirstIsNext`).

`Lexing_proof`. The question is whether cutting a text up depends on anything but the text. A *piece* is what `SubtokenLexer::advance` makes a subtoken of, and a text is taken
apart at *boundaries* between pieces that no longer piece crosses (`Boundaries`); at a place there is one piece at most (`OneReading`), so that the boundaries are those
at which the lexer stops (`FromABoundary`). The preprocessor leaves out comments, branches and lines with directives, and still writes a text with boundaries (`PreprocessingInv`): the
step to see is that nothing it puts side by side joins, as in front of what is left out there is a newline or nothing, and that no `%` comes behind one, so that `TheEndIsReached`: the
lexer finds no directive any more. Tokens are one level up: `TokenAt` says which tokens are at a place, given the character behind them, `OneToken` that there is
one at most, and the invariant `LexingInv` that every token made is of that kind and that between two of them there is nothing but a comment
(`TextIsCovered`); `LongestOperators` follows, since a longer operator would be a token at the same place. For `TextsAreReread` the tokens are put one behind the other
(`FlattenSeq`): comments are gone, but behind a comment is the end of its line, where every token ends whatever follows, so each token is still one at its new place, and `OneToken` makes the second reading
agree with the first, token for token (`Resumed`).

In the same module, `ConditionalsAreHonoured` says that what the preprocessor writes is what a reader of the lines would keep. The code sees subtokens, `BranchesAreHonoured` lines, so the two are first tied together: each line has
its place in the text (`Placed`), no subtoken crosses the end of its line (`ReadTo`, `NextSubtokens`), and a line that begins with `%` is read as its directive (`DirectiveLineIsRead`, `IfLineIsRead`, `ShortLineIsRead`). The invariant
`HonouredInv` then says where the preprocessor is: at the k-th character of the i-th line, in the branch and with the condition of the last directive before it (`BranchAt`, `ActiveAt`), having written what is kept of the
lines before and of the first k characters of this one (`Wrote`). The last matters because a comment is dropped as one subtoken outside of conditionals and copied piece by piece in them. It also says that nothing is refused.

`Imports_proof`. `IInv` says of every parse that is under way, and of every one whose C sources are written, what it knows. Its tables are *sound*: an entry is a definition of the file, or of a
file that it imports, directly or not, under its own name (`Tables`). And they are *complete* as far as the parse has come: every item it has passed has been dealt with (`Handled`) -
what it defines is in its table and declared for C, a body waits or its names have been looked for, and what it imports has been emitted, its path is kept and its view has all that can be reached
from it - or there is a message. A message of a failed import is the step to watch: it excuses the item only as long as the top level is read (`Skipped`), and after that the
parse fails, so that bodies are read only where both hold. Then what `Found` returns is one of `Candidates`, and nothing only if there is none (`FoundRight`). On the stack every parse but the
innermost waits for the file above it (`Waits`), which is what its last item asks for; so when that parse ends it is the right import that is dealt with. Soundness and completeness of what an import hands up
(`ViewIs`) follow from those of its tables, since what can be reached is imported or can be reached from there (`ReachableIs`). `WholeFilesAreEmitted` needs one more argument: the files emitted so far are a set that imports do not
lead out of. For that, `Reachable` is the intersection of such sets and no recursion, and `IInv` holds for circles of imports too, which no run has.

Only model-checked: liveness (TLAPS does not do it here); `EnvironmentsAreFresh`, which needs more of a text than its shape and of a script than its
debts; types and expressions, whose modules are made of `RECURSIVE` operators, for which TLAPS
has no backend here; and the violation runs. Where a proof needs induction over the length of a text or a stack, it goes by the smallest counterexample (`Smallest`, `Induction`), as the library's
theorems on induction have operators as parameters and cannot be used. For the same reason `Reading`, in `StatementEmission`, is a recursive function.

## 5. Findings

1. **A transaction is ended that is not open** (`ASStrayEnd`). `ReturnNode` asks for the last transaction *named* in
   the scope, not for an open one: `return` in the `else` of an atomic statement, or anywhere behind one, emits an
   end. At run time the unsigned counter wraps and speculation is off for good; the assertion against it is always true.
2. **Parentheses are dropped** (`EXParentheses`). `x = (x - y) * y`, a multiplication of a subtraction in the tree (and in the test that
   looks at it), is printed as `x = x - y * y`.

Seen on the way and not given a run: a capture or reference that goes through two closures is unknown to the closure in the middle, whose C function
nevertheless has to build the inner environment, and names a variable that it does not declare (`Scope.cpp:183`; the program of `ParserTests_Closures.cpp:145` is such a one); the rest of a body is dropped without a message behind a token that begins no statement; a capture in a debug statement in a closure is recorded in the debug statement's scope and
missing from the environment (`EnvironmentIsComplete` with `DebugInClosures`); a return in nested atomic statements ends only the transaction named last and leaves the
outer one open (`Balanced` holds for programs that do not do so); newlines in the text of an annotation are taken and not stored, so two
lines become one without a space, where `TextAnnotationNode.cpp:14-15` wants "the contents exactly as entered"; an include
path that is not closed before the end of the input is read for ever; an `abort` behind a closed atomic statement is accepted and names it, one in a
debug statement in an atomic statement is refused; an atomic statement with an empty body makes the code
generator dereference a null pointer; a closure in a debug statement in a closure does not see the
references of the outer one; `isAtAtomicExpression` skips spaces in front of the colon of `atomic : fallback` but not behind
it, so the first pass takes it for an expression.

Of statements and closures: the environment of a closure in the condition of a do-while loop, or in a later case of a switch, is captured in the block that the
same line closes, so C does not see it; in the condition of a while loop, the condition and step of a `for`, and the end of a range it is captured once, in front of the
loop, while the value is made each time; the start of a range is both, as it is visited twice. Visited twice, a closure in a bound of a range, or in the argument of a switch
with two cases, has its function defined twice. A switch without cases leaves its braces unmatched. The function of a closure that
calls a private function defined further down comes before its prototype. The comment at `CCodeGenVisitor.cpp:135`, that closures
are defined in the opposite order they appear, is true of closures in each other; others are defined in their order.

Of characters: the preprocessor does not nest, so that the first `%end` ends the outer `%if` and the second is printed as a word, like any `%else` or `%end`
without a newline at once behind it or without an `%if`; an unknown directive in the first line makes an empty file of the text; `1.x` is an undefined token, which the parser
takes for the end of the file.

Of bodies: a tailing `if` behind an expression (`x = 1 if true`, in the comment at `FunctionDefinitionNode.cpp:172-174`) counts as one without `end` for the first pass, and
is a statement with a header and an `end` for the second, as `parseExpressionStatement` has its tailing `if` commented out.

Of names: `ParseContext::import` tests for the path with `.h` and records it without, so a second import of a file is not noticed ("Duplicate import" is never
printed) and the file is linked twice, which the linker refuses; only the imports of the main file are linked, not theirs; what an import imports is known to Three and not declared in C; a global in a namespace is declared
`x` and used as `ns_3_x`; a member of an enumeration is found by its full name only, also in its own namespace; a global hides a parameter
of its name; a namespace that is not closed is closed by the end of the file; results of the C compiler and the linker are ignored.

Of expressions: `~x`, `++x` and `--x`, which the documentation has, become binary operators with one operand, for which the code generator throws; `x ^ y`,
`===` and `<=>` fail the assertion on levels; `a - b - c` is grouped from the right in the tree, which the text does not show; a referenced variable is
printed `*(self_env->r)`, so that `r.a`, `r[i]` and `r->a` are grouped another way in C (`ReferenceGoesOn` excludes them); `f(a b` takes `b` for the
parenthesis, and `f(,a)` and `f(a,)` are one call `f(a)`; a tuple with unlabelled members that is destructured is printed as `tmp_return.` without a
member; the type of a method call always fails an assertion or throws; `a ? b = c : d` is refused; `cas` outside of atomic expressions cannot be printed.

And of types: `[4]Int x` becomes `const int[4] x`, where `Documentation/language.html:134` has `const int x[3]`, an array of pointers fails an assertion of the code generator, and a
pointer to an array becomes `int[3]*`; the look-ahead accepts annotations in front of a type, where the comment at `TypeParser.cpp:95` wants them, but the
parse refuses them all, and one that is not well-formed makes the look-ahead loop; `[]Int`, `{Int x}` and `(Int,)` can be parsed but are
not seen by the look-ahead; `{Int Int}` is a labelled parameter for the one and two parameters for the other; `Char:8`
and `Int:utf8` are seen and refused; a function that returns a function, a parameter without a label that is a function, and a parameter of
type `Void` are printed as C that is refused; the tuples `((Int!, Int))` and `(Int, (Int!))` have one structure name, whichever comes
first; the width of an `Int` is dropped, and `Natural:64` is an `unsigned int`.

## 6. Not modelled

What could be modelled and is not, and why:

- Methods, generic parameters, members of structures, includes and circles of imports in `Imports`, and annotations at the top level: each is one
  more kind of item with a table of its own, filled and searched as those that are there; circles make the compiler recurse for ever.
- Generic types and the named kinds that only C headers bring in `TypeParsing` and `CTypes`: they add texts, not rules of grammar or declarators.
- The set of included headers, and `CSourceContext`, which no code uses. What is declared before what is in `Imports` and `StatementEmission`.
- The calls emitted by `AtomicStatements` running on `TransactionalMemory` as one model: they meet at `Balanced`, which the
  programs of `TransactionalMemory` keep by construction. Programs that do not (finding 1) would only show the counter wrap.
- Closures at run time: no code of the repository, and no generated code, calls `three_closure_copy` or `three_closure_release`, so there is no
  protocol of ownership to state. A copy leaves `flags` unset, and shares the references of its environment.
- The return checkers: recursions over a tree with one flag, which only tests run.
- The C header indexer (libclang's work), option parsing and the terminal of the REPL (pure input and
  output), the formatting of literals and messages, condition variables and thread-local storage of the C11 layer (one call
  each, used by nothing here).

Abstractions to keep in mind: names, values and conditions carry no content; any condition may go either way; the RTM
hardware is modelled by what the runtime relies on; C's undefined behaviour appears only where a model says so (`Crash`).
