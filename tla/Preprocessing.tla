---------------------------- MODULE Preprocessing ----------------------------
(***************************************************************************)
(* The preprocessor: it copies a text, without comments, and of each       *)
(* conditional the branch that is active.                                  *)
(***************************************************************************)
EXTENDS Subtokens

CONSTANTS
  Platform,   \* "darwin" or "linux", for which the compiler was built
  LineTexts,  \* lines a text is made of
  MaxLines,   \* bound: lines of such a text
  Alphabet,   \* characters of short texts
  MaxLength   \* bound: characters of a short text

ASSUME ConstantsAssumption ==
  /\ MaxLines \in Nat /\ MaxLength \in Nat
  /\ Alphabet \subseteq Characters
  /\ LineTexts \subseteq Seq(Characters)

\* The words that parseIf knows.
Conditions == {"true", "false", "darwin", "linux"}

\* A line has its newline at its end, and quotes in comments only; behind an "if"
\* is one space and a condition, and nothing behind an "end".
ASSUME LinesAssumption ==
  \A line \in LineTexts :
    /\ line # <<>>
    /\ \A i \in DOMAIN line :
         /\ (line[i] = "\n") <=> (i = Len(line))
         /\ line[i] \in {Quote, "'"} => \E j \in 1 .. i - 1 : line[j] = "#"
    /\ line[1] = "%" =>
         /\ line[2] = "if" => \E c \in Conditions : line = <<"%", "if", Space, c, "\n">>
         /\ line[2] = "end" => line = <<"%", "end", "\n">>

VARIABLES
  lines,    \* the lines that the text was made of, <<>> for short texts
  text,     \* the text that is read
  lexer,    \* its subtokens
  branch,   \* parseIf is in its "then" or "else", or it is not called
  active,   \* its condition
  output,   \* _processedStream
  phase     \* "preprocessing" at first, "refused" when an assertion has failed

preprocessorVars == <<lines, text, lexer, branch, active, output, phase>>

PreprocessorInit ==
  /\ \/ /\ \E n \in 1 .. MaxLines : lines \in [1 .. n -> LineTexts]
        /\ text = FlattenSeq(lines)
     \/ /\ lines = <<>>
        /\ \E n \in 0 .. MaxLength : text \in [1 .. n -> Alphabet]
  /\ lexer = Beginning
  /\ branch = "none"
  /\ active = FALSE
  /\ output = <<>>
  /\ phase = "preprocessing"

-----------------------------------------------------------------------------
(* The subtoken that peek returns; and the lexer behind it.                 *)
subtoken == populated(text, lexer)
Taken == next(text, lexer)

IsDirective(s, name) == s.type = "Directive" /\ s.str = <<name>>
AtEnd == subtoken.type \in {"Undefined", "EndOfInput"}

Refuse == phase' = "refused" /\ branch' = "none" /\ UNCHANGED <<lexer, active, output>>

\* process, outside of conditionals: other directives are copied, without their %.
Copy ==
  /\ branch = "none"
  /\ ~AtEnd /\ ~IsDirective(subtoken, "if")
  /\ output' = IF subtoken.type = "Comment" THEN output ELSE output \o subtoken.str
  /\ lexer' = Taken
  /\ UNCHANGED <<branch, active, phase>>

\* parseIf, up to the newline behind the condition.
OpenIf ==
  /\ branch = "none"
  /\ IsDirective(subtoken, "if")
  /\ LET condition == next(text, Taken)
         newline == next(text, condition)
         known == \E c \in Conditions : condition.str = <<c>>
     IN \/ /\ ~(Taken.type = "Whitespace" /\ known /\ newline.type = "Newline")
           /\ Refuse
        \/ /\ Taken.type = "Whitespace" /\ known /\ newline.type = "Newline"
           /\ active' = (condition.str \in {<<"true">>, <<Platform>>})
           /\ branch' = "then"
           /\ lexer' = next(text, newline)
           /\ UNCHANGED <<output, phase>>

\* The condition of the else is not turned round.
AlwaysActiveMutant ==
  /\ branch # "none"
  /\ ~AtEnd /\ ~IsDirective(subtoken, "end")
  /\ branch = "then" => ~IsDirective(subtoken, "else")
  /\ output' = IF active THEN output \o subtoken.str ELSE output
  /\ lexer' = Taken
  /\ UNCHANGED <<branch, active, phase>>

\* In a conditional, comments are copied too, and so are other directives: an "if"
\* in a "then", an "else" in an "else".
CopyBranch ==
  /\ branch # "none"
  /\ ~AtEnd /\ ~IsDirective(subtoken, "end")
  /\ branch = "then" => ~IsDirective(subtoken, "else")
  /\ output' = IF active = (branch = "then") THEN output \o subtoken.str ELSE output
  /\ lexer' = Taken
  /\ UNCHANGED <<branch, active, phase>>

Else ==
  /\ branch = "then"
  /\ IsDirective(subtoken, "else")
  /\ IF Taken.type = "Newline"
     THEN branch' = "else" /\ lexer' = next(text, Taken) /\ UNCHANGED <<active, output, phase>>
     ELSE Refuse

EndIf ==
  /\ branch # "none"
  /\ AtEnd \/ IsDirective(subtoken, "end")
  /\ IF ~AtEnd /\ Taken.type = "Newline"
     THEN branch' = "none" /\ lexer' = next(text, Taken) /\ UNCHANGED <<active, output, phase>>
     ELSE Refuse

Preprocess ==
  /\ phase = "preprocessing"
  /\ Copy \/ OpenIf \/ CopyBranch \/ Else \/ EndIf
  /\ UNCHANGED <<lines, text>>

-----------------------------------------------------------------------------
(* Which lines should be kept. *)

Is(i, name) == i # 0 /\ lines[i][1] = "%" /\ lines[i][2] = name
IsMark(i) == i # 0 /\ lines[i][1] = "%"

\* The directive before a line, 0 if there is none.
Previous(i) == SelectLastInSubSeq(lines, 1, i - 1, LAMBDA line : line[1] = "%")

\* Conditionals that are closed and not nested; nothing is behind an else.
WellFormed ==
  /\ \A i \in DOMAIN lines : IsMark(i) =>
       LET p == Previous(i)
       IN \/ Is(i, "if")   /\ (p = 0 \/ Is(p, "end"))
          \/ Is(i, "else") /\ Is(p, "if") /\ Len(lines[i]) = 3
          \/ Is(i, "end")  /\ (Is(p, "if") \/ Is(p, "else"))
  /\ LET last == Previous(Len(lines) + 1) IN last = 0 \/ Is(last, "end")

Chosen(i) == lines[i][4] \in {"true", Platform}
Kept(i) ==
  LET p == Previous(i)
  IN /\ ~IsMark(i)
     /\ Is(p, "if") => Chosen(p)
     /\ Is(p, "else") => ~Chosen(Previous(p))

\* Outside of conditionals comments are dropped.  (Quotes are in comments only.)
Uncommented(line) ==
  LET c == SelectInSeq(line, LAMBDA char : char = "#")
  IN IF c = 0 THEN line ELSE SubSeq(line, 1, c - 1) \o <<"\n">>

InConditional(i) == Previous(i) # 0 /\ ~Is(Previous(i), "end")

(* Of a text with conditionals that are not nested, the output has the      *)
(* lines outside of them and those in the branches that are chosen, in      *)
(* their order, and nothing else (PreprocessorTests.cpp).                   *)
BranchesAreHonoured ==
  lines # <<>> /\ WellFormed =>
    /\ phase # "refused"
    /\ phase # "preprocessing" =>
         output = FlattenSeq([i \in DOMAIN lines |->
                    CASE ~Kept(i) -> <<>>
                      [] Kept(i) /\ InConditional(i) -> lines[i]
                      [] OTHER -> Uncommented(lines[i])])
=============================================================================
