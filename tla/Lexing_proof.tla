--------------------------- MODULE Lexing_proof ---------------------------
(***************************************************************************)
(* What the preprocessor and the lexer make of a text, for every text.     *)
(*                                                                         *)
(* A text can be taken apart at boundaries into pieces, each of which is   *)
(* what advance reads there, and in only one way (OneReading).  The        *)
(* preprocessor writes a text that has boundaries, though it leaves out    *)
(* comments and branches, and directives lose their %.  A token is a       *)
(* property of the text between two places and of the character behind     *)
(* (TokenAt), and at a place there is one at most (OneToken); every        *)
(* function of the lexer makes the one that is there, or there is none.    *)
(* So the tokens of a text are given by the text; they are still tokens    *)
(* when their texts are put one behind the other, because a comment is     *)
(* followed by the end of its line, where every token ends.                *)
(*                                                                         *)
(* At the end, conditionals.  The lines of a text have their places in it  *)
(* (Placed), a subtoken ends in its line (ReadTo), and at each place the   *)
(* branch and its condition are those of the last directive before it, and *)
(* what is written is what is kept of the lines so far (HonouredInv).      *)
(***************************************************************************)
EXTENDS Lexing, WellFoundedInduction, SequenceTheorems, TLAPS

-----------------------------------------------------------------------------
(* The subtokens. A piece of a text is what advance makes a subtoken of. *)

\* Of what words and numbers are made.
Alnum == Letters \cup Digits
Text == Seq(Characters)

(* A set of numbers that is not empty has a smallest one. *)
LEMMA Smallest ==
  ASSUME NEW S \in SUBSET Nat, S # {}
  PROVE  \E m \in S : \A k \in S : m <= k
<1> DEFINE R == {ss \in Nat \X Nat : ss[1] < ss[2]}
<1>1. IsWellFoundedOn(R, Nat)
  BY NatLessThanWellFounded, Zenon DEF OpToRel
<1>2. \A m, k \in Nat : k < m => <<k, m>> \in R
  OBVIOUS
<1> HIDE DEF R
<1>3. \E x \in S : \A y \in S : ~ (<<y, x>> \in R)
  BY <1>1, WFMin, Zenon
<1>4. PICK m \in S : \A y \in S : ~ (<<y, m>> \in R)
  BY <1>3, Zenon
<1>5. m \in Nat /\ \A k \in S : k \in Nat
  OBVIOUS
<1>6. ASSUME NEW k \in S, ~(m <= k)
      PROVE  FALSE
  <2>1. k \in Nat /\ m \in Nat /\ k < m
    BY <1>5, <1>6
  <2>2. <<k, m>> \in R
    BY <2>1, <1>2
  <2> QED BY <2>2, <1>4
<1> QED BY <1>6

(* What holds of 0, and of n + 1 if it holds of n, holds of all numbers. *)
LEMMA Induction ==
  ASSUME NEW S, 0 \in S, \A n \in Nat : n \in S => n + 1 \in S
  PROVE  \A n \in Nat : n \in S
<1> SUFFICES ASSUME NEW n \in Nat, n \notin S PROVE FALSE
  OBVIOUS
<1> DEFINE T == Nat \ S
<1>1. PICK m \in T : \A k \in T : m <= k
  <2>1. T \in SUBSET Nat /\ T # {}
    OBVIOUS
  <2> HIDE DEF T
  <2> QED BY <2>1, Smallest
<1>2. m \in Nat /\ m # 0 /\ m - 1 \in Nat /\ m - 1 \in S
  BY <1>1
<1> QED BY <1>2, <1>1

(* Which characters begin which subtokens. *)
LEMMA TheCharacters ==
  /\ Space # "\n" /\ Space # "#" /\ Space # Quote /\ Space # "'" /\ Space # "eof" /\ Space # "%"
  /\ Quote # "\n" /\ Quote # "#" /\ Quote # "'" /\ Quote # "eof" /\ Quote # "%"
  /\ {Space, Quote, "\n", "#", "'", "eof"} \cap Punctuation = {}
  /\ {Space, Quote, "\n", "#", "'", "eof", "%"} \cap Alnum = {}
  /\ Punctuation \cap Alnum = {}
  /\ "%" \in Punctuation
  /\ Characters = Alnum \cup Punctuation \cup {Space, Quote, "\n", "#", "'"}
  /\ Directives \subseteq Letters
BY Zenon DEF Space, Quote, Punctuation, Alnum, Letters, Digits, Characters, Directives

(* What a part of a sequence is. *)
LEMMA Cut ==
  ASSUME NEW S, NEW t \in Seq(S), NEW i \in 1 .. Len(t) + 1, NEW j \in i .. Len(t) + 1
  PROVE  /\ SubSeq(t, i, j - 1) \in Seq(S)
         /\ Len(SubSeq(t, i, j - 1)) = j - i
         /\ \A k \in 1 .. j - i : SubSeq(t, i, j - 1)[k] = t[i + k - 1]
<1>1. i \in Int /\ j - 1 \in Int /\ j \in Int /\ Len(t) \in Nat
  OBVIOUS
<1>2. \A k \in i .. j - 1 : t[k] \in S
  BY <1>1, ElementOfSeq
<1>3. /\ SubSeq(t, i, j - 1) \in Seq(S)
      /\ Len(SubSeq(t, i, j - 1)) = IF i <= j - 1 THEN j - 1 - i + 1 ELSE 0
      /\ \A k \in 1 .. j - 1 - i + 1 : SubSeq(t, i, j - 1)[k] = t[i + k - 1]
  BY <1>1, <1>2, SubSeqProperties
<1>4. j - 1 - i + 1 = j - i /\ (IF i <= j - 1 THEN j - 1 - i + 1 ELSE 0) = j - i
  BY <1>1
<1> QED BY <1>3, <1>4

(* A part of one element. *)
LEMMA CutOne ==
  ASSUME NEW S, NEW t \in Seq(S), NEW i \in 1 .. Len(t)
  PROVE  SubSeq(t, i, i) = <<t[i]>>
<1>1. i \in 1 .. Len(t) + 1 /\ i + 1 \in i .. Len(t) + 1 /\ (i + 1) - 1 = i /\ (i + 1) - i = 1
  OBVIOUS
<1>2. /\ SubSeq(t, i, i) \in Seq(S)
      /\ Len(SubSeq(t, i, i)) = 1
      /\ SubSeq(t, i, i)[1] = t[i]
  BY <1>1, Cut
<1>3. <<t[i]>> \in Seq(S) /\ Len(<<t[i]>>) = 1 /\ <<t[i]>>[1] = t[i]
  BY ElementOfSeq
<1>4. \A k \in 1 .. Len(SubSeq(t, i, i)) : SubSeq(t, i, i)[k] = <<t[i]>>[k]
  BY <1>2, <1>3
<1> QED BY <1>2, <1>3, <1>4, SeqEqual

(* The place behind characters of a set is the first one where another is. *)
LEMMA Behinds ==
  ASSUME NEW t \in Seq(Characters), NEW i \in 1 .. Len(t) + 1, NEW S, "eof" \notin S
  PROVE  /\ Behind(t, i, S) \in i .. Len(t) + 1
         /\ At(t, Behind(t, i, S)) \notin S
         /\ \A k \in i .. Behind(t, i, S) - 1 : t[k] \in S
<1> DEFINE Stops == {j \in i .. Len(t) + 1 : At(t, j) \notin S}
<1>1. Stops \in SUBSET Nat /\ Len(t) + 1 \in Stops
  BY DEF At
<1>2. PICK j \in Stops : \A k \in Stops : j <= k
  <2> HIDE DEF Stops
  <2> QED BY <1>1, Smallest
<1>3. j \in i .. Len(t) + 1 /\ At(t, j) \notin S /\ j \in Nat
  BY <1>2
<1>4. \A k \in i .. j - 1 : t[k] \in S
  <2> TAKE k \in i .. j - 1
  <2>1. k \in i .. Len(t) + 1 /\ k \in DOMAIN t /\ ~(j <= k) /\ k \notin Stops
    BY <1>2, <1>3
  <2> QED BY <2>1 DEF At
<1>5. \E m \in i .. Len(t) + 1 : At(t, m) \notin S /\ \A k \in i .. m - 1 : t[k] \in S
  BY <1>3, <1>4
<1> QED BY <1>5 DEF Behind

\* The types of subtokens, without the end and the directives.
Types == {"Newline", "Comment", "String", "Character", "Whitespace", "Punctuation", "Number",
          "Word"}

\* From i, up to j, the text t may be a subtoken of this type ...
Piece(t, i, j, type) ==
  /\ j \in i + 1 .. Len(t) + 1
  /\ \/ type = "Newline" /\ t[i] = "\n" /\ j = i + 1
     \/ type = "Comment" /\ t[i] = "#" /\ \A k \in i .. j - 1 : t[k] # "\n"
     \/ type = "String" /\ t[i] = Quote /\ \A k \in i + 1 .. j - 2 : t[k] # Quote
     \/ type = "Character" /\ t[i] = "'" /\ \A k \in i + 1 .. j - 2 : t[k] # "'"
     \/ type = "Whitespace" /\ \A k \in i .. j - 1 : t[k] = Space
     \/ type = "Punctuation" /\ t[i] \in Punctuation /\ j = i + 1
     \/ type = "Number" /\ \A k \in i .. j - 1 : t[k] \in Digits
     \/ type = "Word" /\ (\A k \in i .. j - 1 : t[k] \in Alnum)
                      /\ ~ \A k \in i .. j - 1 : t[k] \in Digits

\* A text in quotes has the second one.
Closed(t, i, j) == i < j - 1 /\ t[j - 1] = t[i]

\* ... and is one if the character c comes next.
Ends(t, i, j, type, c) ==
  /\ type = "Comment" => c \in {"\n", "eof"}
  /\ type \in {"String", "Character"} => Closed(t, i, j) \/ c = "eof"
  /\ type = "Whitespace" => c # Space
  /\ type \in {"Number", "Word"} => c \notin Alnum

(* A comment goes up to the end of its line. *)
LEMMA ACommentIsRead ==
  ASSUME NEW t \in Text, NEW i \in DOMAIN t, t[i] = "#"
  PROVE  /\ Piece(t, i, CommentEnd(t, i), "Comment")
         /\ Ends(t, i, CommentEnd(t, i), "Comment", At(t, CommentEnd(t, i)))
<1>1. i \in 1 .. Len(t) + 1 /\ i \in 1 .. Len(t) /\ Len(t) \in Nat
  BY DEF Text
<1>2. "eof" \notin Characters \ {"\n"} /\ "#" # "\n" /\ "#" \in Characters
  BY TheCharacters
<1> DEFINE j == CommentEnd(t, i)
<1>3. /\ j \in i .. Len(t) + 1
      /\ At(t, j) \notin Characters \ {"\n"}
      /\ \A k \in i .. j - 1 : t[k] \in Characters \ {"\n"}
  BY <1>1, <1>2, Behinds DEF CommentEnd, Before, Text
<1> HIDE DEF j
<1>4. At(t, j) \in {"\n", "eof"}
  BY <1>3, <1>1, ElementOfSeq DEF At, Text
<1>5. j # i
  BY <1>4, <1>1, <1>2 DEF At
<1> QED BY <1>1, <1>3, <1>4, <1>5 DEF Piece, Ends, j

(* A text in quotes goes up to the next such quote, or to the end. *)
LEMMA AQuotationIsRead ==
  ASSUME NEW t \in Text, NEW i \in DOMAIN t, NEW type \in {"String", "Character"},
         t[i] = IF type = "String" THEN Quote ELSE "'"
  PROVE  /\ Piece(t, i, QuoteEnd(t, i), type)
         /\ Ends(t, i, QuoteEnd(t, i), type, At(t, QuoteEnd(t, i)))
<1>1. i + 1 \in 1 .. Len(t) + 1 /\ i \in 1 .. Len(t) /\ Len(t) \in Nat /\ i \in Nat
  BY DEF Text
<1>2. "eof" \notin Characters \ {t[i]}
  BY TheCharacters
<1> DEFINE closing == Before(t, i + 1, {t[i]})
<1>3. /\ closing \in i + 1 .. Len(t) + 1
      /\ At(t, closing) \notin Characters \ {t[i]}
      /\ \A k \in i + 1 .. closing - 1 : t[k] \in Characters \ {t[i]}
  BY <1>1, <1>2, Behinds DEF Before, Text
<1>4. closing \in DOMAIN t => t[closing] = t[i]
  BY <1>3, <1>1, ElementOfSeq DEF At, Text
<1>5. QuoteEnd(t, i) = IF closing \in DOMAIN t THEN closing + 1 ELSE closing
  BY DEF QuoteEnd
<1> HIDE DEF closing
<1>6. CASE closing \in DOMAIN t
  <2>1. QuoteEnd(t, i) = closing + 1 /\ closing + 1 \in i + 1 .. Len(t) + 1 /\ closing \in Nat
    BY <1>1, <1>3, <1>5, <1>6 DEF Text
  <2>2. \A k \in i + 1 .. closing + 1 - 2 : t[k] # t[i]
    BY <1>3, <2>1, <1>1
  <2>3. Closed(t, i, closing + 1)
    BY <1>3, <2>1, <1>1, <1>4, <1>6 DEF Closed
  <2> QED BY <2>1, <2>2, <2>3 DEF Piece, Ends
<1>7. CASE closing \notin DOMAIN t
  <2>1. QuoteEnd(t, i) = Len(t) + 1 /\ closing = Len(t) + 1
    BY <1>1, <1>3, <1>5, <1>7 DEF Text
  <2>2. \A k \in i + 1 .. Len(t) + 1 - 2 : t[k] # t[i]
    BY <1>3, <2>1, <1>1
  <2>3. At(t, Len(t) + 1) = "eof"
    BY <1>1 DEF At, Text
  <2> QED BY <2>1, <2>2, <2>3, <1>1 DEF Piece, Ends
<1> QED BY <1>6, <1>7

(* A whitespace is all the spaces that are there. *)
LEMMA BlanksAreRead ==
  ASSUME NEW t \in Text, NEW i \in DOMAIN t, t[i] = Space
  PROVE  /\ Piece(t, i, Behind(t, i, {Space}), "Whitespace")
         /\ Ends(t, i, Behind(t, i, {Space}), "Whitespace", At(t, Behind(t, i, {Space})))
<1>1. i \in 1 .. Len(t) + 1 /\ i \in 1 .. Len(t) /\ Len(t) \in Nat
  BY DEF Text
<1>2. "eof" \notin {Space}
  BY TheCharacters
<1> DEFINE j == Behind(t, i, {Space})
<1>3. /\ j \in i .. Len(t) + 1
      /\ At(t, j) \notin {Space}
      /\ \A k \in i .. j - 1 : t[k] \in {Space}
  BY <1>1, <1>2, Behinds DEF Text
<1> HIDE DEF j
<1>4. j # i
  BY <1>3, <1>1 DEF At
<1>5. j \in i + 1 .. Len(t) + 1
  BY <1>1, <1>3, <1>4
<1>6. Piece(t, i, j, "Whitespace") /\ Ends(t, i, j, "Whitespace", At(t, j))
  BY <1>3, <1>5 DEF Piece, Ends
<1> QED BY <1>6 DEF j

(* A word or a number is all the letters and digits that are there. *)
LEMMA AWordIsRead ==
  ASSUME NEW t \in Text, NEW i \in DOMAIN t, t[i] \in Alnum,
         NEW word, word = Behind(t, i, Alnum),
         NEW type,
         type = IF \A k \in i .. word - 1 : t[k] \in Digits THEN "Number" ELSE "Word"
  PROVE  Piece(t, i, word, type) /\ Ends(t, i, word, type, At(t, word))
<1>1. i \in 1 .. Len(t) + 1 /\ i \in 1 .. Len(t) /\ Len(t) \in Nat
  BY DEF Text
<1>2. "eof" \notin Alnum
  BY TheCharacters
<1>3. /\ word \in i .. Len(t) + 1
      /\ At(t, word) \notin Alnum
      /\ \A k \in i .. word - 1 : t[k] \in Alnum
  BY <1>1, <1>2, Behinds DEF Text
<1>4. word # i
  BY <1>3, <1>1 DEF At
<1>5. word \in i + 1 .. Len(t) + 1
  BY <1>1, <1>3, <1>4
<1> QED BY <1>3, <1>5 DEF Piece, Ends

\* The subtoken s is what is read at i.
IsReadAt(t, i, s) ==
  /\ s = Subtoken(s.type, SubSeq(t, i, s.at - 1), s.at, s.potentialDirective)
  /\ s.potentialDirective = (s.type = "Newline")
  /\ Piece(t, i, s.at, s.type)
  /\ Ends(t, i, s.at, s.type, At(t, s.at))

(* A slice of the text that is a piece, and ends there, is what is read. *)
LEMMA SlicesAreRead ==
  ASSUME NEW t, NEW i, NEW j, NEW type, type # "Newline",
         Piece(t, i, j, type), Ends(t, i, j, type, At(t, j))
  PROVE  IsReadAt(t, i, Slice(type, t, i, j))
BY DEF IsReadAt, Slice, Subtoken

(* What advance makes of a text that has a character at i. *)
LEMMA Advancing ==
  ASSUME NEW t \in Text, NEW i \in DOMAIN t, NEW p \in BOOLEAN, ~p \/ t[i] # "%"
  PROVE  IsReadAt(t, i, advance(t, i, p))
<1> DEFINE c == t[i]
           word == Behind(t, i, Alnum)
           number == \A k \in i .. word - 1 : t[k] \in Digits
<1>1. At(t, i) = c /\ c \in Characters /\ i \in 1 .. Len(t) /\ Len(t) \in Nat /\ c # "eof"
  BY ElementOfSeq, TheCharacters DEF At, Text
<1>2. ~(c = "%" /\ p)
  OBVIOUS
<1>3. c \in Alnum \cup Punctuation \cup {Space, Quote, "\n", "#", "'"}
  BY <1>1, TheCharacters
<1>4. CASE c = "\n"
  <2>1. advance(t, i, p) = Subtoken("Newline", <<c>>, i + 1, TRUE)
    BY <1>1, <1>2, <1>4, TheCharacters DEF advance
  <2>2. i + 1 - 1 = i /\ SubSeq(t, i, i) = <<c>>
    BY <1>1, CutOne DEF Text
  <2>3. Piece(t, i, i + 1, "Newline") /\ Ends(t, i, i + 1, "Newline", At(t, i + 1))
    BY <1>1, <1>4 DEF Piece, Ends
  <2> DEFINE s == Subtoken("Newline", <<c>>, i + 1, TRUE)
  <2>4. /\ s.type = "Newline" /\ s.at = i + 1 /\ s.potentialDirective = TRUE
        /\ s = Subtoken("Newline", <<c>>, i + 1, TRUE)
    BY DEF Subtoken
  <2> HIDE DEF s
  <2>5. s = Subtoken(s.type, SubSeq(t, i, s.at - 1), s.at, s.potentialDirective)
    <3>1. s.at - 1 = i
      BY <1>1, <2>4
    <3> QED BY <2>2, <2>4, <3>1
  <2>6. s.potentialDirective = (s.type = "Newline")
    BY <2>4
  <2>7. IsReadAt(t, i, s)
    BY <2>3, <2>4, <2>5, <2>6 DEF IsReadAt
  <2> QED BY <2>1, <2>4, <2>7
<1>5. CASE c = "#"
  <2>1. advance(t, i, p) = Slice("Comment", t, i, CommentEnd(t, i))
    BY <1>1, <1>2, <1>5, TheCharacters DEF advance
  <2> QED BY <2>1, <1>5, SlicesAreRead, ACommentIsRead
<1>6. CASE c = Quote
  <2>1. advance(t, i, p) = Slice("String", t, i, QuoteEnd(t, i))
    BY <1>1, <1>2, <1>6, TheCharacters DEF advance
  <2> QED BY <2>1, <1>6, SlicesAreRead, AQuotationIsRead
<1>7. CASE c = "'"
  <2>1. advance(t, i, p) = Slice("Character", t, i, QuoteEnd(t, i))
    BY <1>1, <1>2, <1>7, TheCharacters DEF advance
  <2> QED BY <2>1, <1>7, SlicesAreRead, AQuotationIsRead
<1>8. CASE c = Space
  <2>1. advance(t, i, p) = Slice("Whitespace", t, i, Behind(t, i, {Space}))
    BY <1>1, <1>2, <1>8, TheCharacters DEF advance
  <2> QED BY <2>1, <1>8, SlicesAreRead, BlanksAreRead
<1>9. CASE c \in Punctuation
  <2>1. advance(t, i, p) = Slice("Punctuation", t, i, i + 1)
    BY <1>1, <1>2, <1>9, TheCharacters DEF advance
  <2>2. Piece(t, i, i + 1, "Punctuation") /\ Ends(t, i, i + 1, "Punctuation", At(t, i + 1))
    BY <1>1, <1>9 DEF Piece, Ends
  <2> QED BY <2>1, <2>2, SlicesAreRead
<1>10. CASE c \in Alnum
  <2>1. advance(t, i, p) = Slice(IF number THEN "Number" ELSE "Word", t, i, word)
    BY <1>1, <1>2, <1>10, TheCharacters DEF advance, Alnum
  <2> DEFINE type == IF number THEN "Number" ELSE "Word"
  <2>2. type # "Newline"
    OBVIOUS
  <2>3. Piece(t, i, word, type) /\ Ends(t, i, word, type, At(t, word))
    BY <1>10, AWordIsRead
  <2> HIDE DEF type, word
  <2>4. IsReadAt(t, i, Slice(type, t, i, word))
    BY <2>2, <2>3, SlicesAreRead
  <2> QED BY <2>1, <2>4 DEF type
<1> QED BY <1>3, <1>4, <1>5, <1>6, <1>7, <1>8, <1>9, <1>10

(* A piece that ends does not go on: no longer one begins where it does. *)
LEMMA NoShorterReading ==
  ASSUME NEW t \in Text, NEW i \in DOMAIN t, NEW j, NEW m, NEW type, NEW kind,
         Piece(t, i, j, type), Ends(t, i, j, type, At(t, j)), Piece(t, i, m, kind), j < m
  PROVE  FALSE
<1>1. /\ i \in 1 .. Len(t) /\ Len(t) \in Nat
      /\ j \in i + 1 .. Len(t) + 1 /\ m \in i + 1 .. Len(t) + 1
      /\ j \in DOMAIN t /\ t[i] \in Characters
  BY ElementOfSeq DEF Piece, Text
<1>2. At(t, j) = t[j] /\ At(t, j) # "eof"
  BY <1>1, ElementOfSeq, TheCharacters DEF At, Text
<1>3. /\ \A k \in i .. m - 1 : kind = "Comment" => t[k] # "\n"
      /\ \A k \in i .. m - 1 : kind = "Whitespace" => t[k] = Space
      /\ \A k \in i .. m - 1 : kind \in {"Number", "Word"} => t[k] \in Alnum
      /\ \A k \in i + 1 .. m - 2 : kind = "String" => t[k] # Quote
      /\ \A k \in i + 1 .. m - 2 : kind = "Character" => t[k] # "'"
      /\ kind \in {"Newline", "Punctuation"} => m = i + 1
  BY DEF Piece, Alnum
<1>4. i \in i .. m - 1 /\ i \in i .. j - 1 /\ j \in i .. m - 1
  BY <1>1
<1>5. CASE type = "Newline"
  <2>1. t[i] = "\n" /\ j = i + 1
    BY <1>5 DEF Piece
  <2> QED BY <2>1, <1>1, <1>4, TheCharacters DEF Piece, Alnum
<1>6. CASE type = "Punctuation"
  <2>1. t[i] \in Punctuation /\ j = i + 1
    BY <1>6 DEF Piece
  <2> QED BY <2>1, <1>1, <1>4, TheCharacters DEF Piece, Alnum
<1>7. CASE type = "Comment"
  <2>1. t[i] = "#" /\ t[j] = "\n"
    BY <1>7, <1>2 DEF Piece, Ends
  <2>2. kind = "Comment"
    BY <2>1, <1>1, <1>4, TheCharacters DEF Piece, Alnum
  <2> QED BY <2>1, <2>2, <1>3, <1>4
<1>8. CASE type = "Whitespace"
  <2>1. t[i] = Space /\ t[j] # Space
    BY <1>8, <1>2, <1>4 DEF Piece, Ends
  <2>2. kind = "Whitespace"
    BY <2>1, <1>1, <1>4, TheCharacters DEF Piece, Alnum
  <2> QED BY <2>1, <2>2, <1>3, <1>4
<1>9. CASE type \in {"Number", "Word"}
  <2>1. t[i] \in Alnum /\ t[j] \notin Alnum
    BY <1>9, <1>2, <1>4 DEF Piece, Ends, Alnum
  <2>2. kind \in {"Number", "Word"}
    BY <2>1, <1>1, <1>4, TheCharacters DEF Piece, Alnum
  <2> QED BY <2>1, <2>2, <1>3, <1>4
<1>10. CASE type \in {"String", "Character"}
  <2>1. t[i] = (IF type = "String" THEN Quote ELSE "'") /\ Closed(t, i, j)
    BY <1>10, <1>2 DEF Piece, Ends
  <2>2. kind = type
    BY <2>1, <1>1, <1>4, <1>10, TheCharacters DEF Piece, Alnum
  <2>3. j - 1 \in i + 1 .. m - 2 /\ t[j - 1] = t[i]
    BY <2>1, <1>1 DEF Closed
  <2> QED BY <2>1, <2>2, <2>3, <1>3, <1>10
<1> QED BY <1>5, <1>6, <1>7, <1>8, <1>9, <1>10 DEF Piece

(* At a place of a text one piece can be read at most. *)
LEMMA OneReading ==
  ASSUME NEW t \in Text, NEW i \in DOMAIN t, NEW j, NEW m, NEW type, NEW kind,
         Piece(t, i, j, type), Ends(t, i, j, type, At(t, j)),
         Piece(t, i, m, kind), Ends(t, i, m, kind, At(t, m))
  PROVE  j = m /\ type = kind
<1>1. i \in Int /\ j \in i + 1 .. Len(t) + 1 /\ m \in i + 1 .. Len(t) + 1 /\ Len(t) \in Nat
  BY DEF Piece, Text
<1>2. j = m
  <2>1. ~(j < m)
    BY NoShorterReading
  <2>2. ~(m < j)
    BY NoShorterReading
  <2> QED BY <1>1, <2>1, <2>2
<1>3. i \in i .. j - 1 /\ t[i] \in Characters
  BY <1>1, ElementOfSeq DEF Text
<1>4. type = kind
  <2>1. Piece(t, i, j, kind)
    BY <1>2
  <2>2. CASE t[i] \in Alnum
    <3>1. type \in {"Number", "Word"} /\ kind \in {"Number", "Word"}
      BY <2>1, <2>2, <1>3, TheCharacters DEF Piece
    <3>2. type = "Number" <=> \A k \in i .. j - 1 : t[k] \in Digits
      BY <3>1 DEF Piece
    <3>3. kind = "Number" <=> \A k \in i .. j - 1 : t[k] \in Digits
      BY <2>1, <3>1 DEF Piece
    <3> QED BY <3>1, <3>2, <3>3
  <2>3. CASE t[i] \notin Alnum
    <3>1. type \notin {"Number", "Word"} /\ kind \notin {"Number", "Word"}
      BY <2>1, <2>3, <1>3 DEF Piece, Alnum
    <3> QED BY <2>1, <3>1, <1>3, TheCharacters DEF Piece
  <2> QED BY <2>2, <2>3
<1> QED BY <1>2, <1>4

(* What is a piece, and is not continued, is what advance makes of it. *)
LEMMA Reading ==
  ASSUME NEW t \in Text, NEW i \in DOMAIN t, NEW p \in BOOLEAN, ~p \/ t[i] # "%",
         NEW j, NEW type, Piece(t, i, j, type), Ends(t, i, j, type, At(t, j))
  PROVE  advance(t, i, p) = Subtoken(type, SubSeq(t, i, j - 1), j, type = "Newline")
<1> DEFINE s == advance(t, i, p)
<1>1. IsReadAt(t, i, s)
  BY Advancing
<1> HIDE DEF s
<1>2. s.at = j /\ s.type = type
  BY <1>1, OneReading DEF IsReadAt
<1> QED BY <1>1, <1>2 DEF IsReadAt, s

-----------------------------------------------------------------------------
(* Boundaries: places where a text can be taken apart into pieces. *)

(* A piece is one wherever it is. *)
LEMMA Moving ==
  ASSUME NEW t, NEW u \in Text, NEW i \in Nat, NEW j \in Nat, NEW type, Piece(t, i, j, type),
         NEW a \in Nat \ {0}, NEW b \in Nat, b - a = j - i, b <= Len(u) + 1,
         \A k \in 0 .. j - i - 1 : u[a + k] = t[i + k]
  PROVE  /\ Piece(u, a, b, type)
         /\ \A c : Ends(t, i, j, type, c) => Ends(u, a, b, type, c)
<1>1. Len(u) \in Nat /\ i + 1 <= j /\ a + 1 <= b /\ b \in a + 1 .. Len(u) + 1
  BY DEF Piece, Text
<1>2. \A k \in a .. b - 1 : u[k] = t[i + (k - a)] /\ i + (k - a) \in i .. j - 1
  <2> TAKE k \in a .. b - 1
  <2>1. k - a \in 0 .. j - i - 1 /\ a + (k - a) = k /\ i + (k - a) \in i .. j - 1
    BY <1>1
  <2>2. u[a + (k - a)] = t[i + (k - a)]
    BY <2>1
  <2> QED BY <2>1, <2>2
<1>3. u[a] = t[i] /\ u[b - 1] = t[j - 1]
  <2>1. i + (a - a) = i /\ i + (b - 1 - a) = j - 1 /\ a \in a .. b - 1 /\ b - 1 \in a .. b - 1
    BY <1>1
  <2> QED BY <2>1, <1>2
<1>4. \A k \in a + 1 .. b - 2 : u[k] = t[i + (k - a)] /\ i + (k - a) \in i + 1 .. j - 2
  <2> TAKE k \in a + 1 .. b - 2
  <2>1. k \in a .. b - 1 /\ i + (k - a) \in i + 1 .. j - 2
    BY <1>1
  <2> QED BY <2>1, <1>2
<1>5. \A k \in i .. j - 1 : t[k] = u[a + (k - i)] /\ a + (k - i) \in a .. b - 1
  <2> TAKE k \in i .. j - 1
  <2>1. a + (k - i) \in a .. b - 1 /\ i + ((a + (k - i)) - a) = k
    BY <1>1
  <2> QED BY <2>1, <1>2
<1>6. /\ type = "Newline" => u[a] = "\n" /\ b = a + 1
      /\ type = "Punctuation" => u[a] \in Punctuation /\ b = a + 1
      /\ type = "Comment" => u[a] = "#" /\ \A k \in a .. b - 1 : u[k] # "\n"
      /\ type = "String" => u[a] = Quote /\ \A k \in a + 1 .. b - 2 : u[k] # Quote
      /\ type = "Character" => u[a] = "'" /\ \A k \in a + 1 .. b - 2 : u[k] # "'"
      /\ type = "Whitespace" => \A k \in a .. b - 1 : u[k] = Space
      /\ type = "Number" => \A k \in a .. b - 1 : u[k] \in Digits
  <2>1. type \in {"Newline", "Punctuation"} => b = a + 1
    BY <1>1 DEF Piece
  <2> QED BY <1>2, <1>3, <1>4, <2>1 DEF Piece
<1>7. type = "Word" => /\ \A k \in a .. b - 1 : u[k] \in Alnum
                       /\ ~ \A k \in a .. b - 1 : u[k] \in Digits
  <2> SUFFICES ASSUME type = "Word" PROVE /\ \A k \in a .. b - 1 : u[k] \in Alnum
                                          /\ ~ \A k \in a .. b - 1 : u[k] \in Digits
    OBVIOUS
  <2>1. (\A k \in i .. j - 1 : t[k] \in Alnum) /\ ~ \A k \in i .. j - 1 : t[k] \in Digits
    BY DEF Piece
  <2> QED BY <2>1, <1>2, <1>5
<1>8. type \in Types
  BY DEF Piece, Types
<1>9. Piece(u, a, b, type)
  BY <1>1, <1>6, <1>7, <1>8 DEF Piece, Types
<1>10. Closed(t, i, j) => Closed(u, a, b)
  BY <1>1, <1>3 DEF Closed
<1> QED BY <1>9, <1>10 DEF Ends

(* At the end of the text every piece ends. *)
LEMMA NothingFollowsTheEnd ==
  ASSUME NEW t, NEW i, NEW j, NEW type
  PROVE  Ends(t, i, j, type, "eof")
BY TheCharacters DEF Ends

\* Between neighbours among the places B, t is what advance reads; no % is behind a newline.
Boundaries(t, B) ==
  /\ {1, Len(t) + 1} \subseteq B /\ B \subseteq 1 .. Len(t) + 1
  /\ \A i \in B \ {Len(t) + 1} : \E j \in B, type \in Types :
       /\ Piece(t, i, j, type)
       /\ Ends(t, i, j, type, At(t, j))
       /\ type = "Newline" => At(t, j) # "%"
  /\ At(t, 1) # "%"

\* t is still so taken apart if c comes next.
Continues(t, B, c) ==
  /\ t = <<>> => c # "%"
  /\ \A i \in B, type \in Types : Piece(t, i, Len(t) + 1, type) =>
       Ends(t, i, Len(t) + 1, type, c) /\ (type = "Newline" => c # "%")

(* The elements of two sequences that are put one behind the other. *)
LEMMA Concatenated ==
  ASSUME NEW S, NEW t \in Seq(S), NEW s \in Seq(S)
  PROVE  /\ t \o s \in Seq(S) /\ Len(t \o s) = Len(t) + Len(s)
         /\ DOMAIN (t \o s) = 1 .. Len(t) + Len(s)
         /\ \A k \in 1 .. Len(t) : (t \o s)[k] = t[k]
         /\ \A k \in 1 .. Len(s) : (t \o s)[Len(t) + k] = s[k]
         /\ Len(t) \in Nat /\ Len(s) \in Nat
<1>1. Len(t) \in Nat /\ Len(s) \in Nat
  OBVIOUS
<1>2. /\ t \o s \in Seq(S)
      /\ Len(t \o s) = Len(t) + Len(s)
      /\ \A i \in 1 .. Len(t) + Len(s) : (t \o s)[i] = IF i <= Len(t) THEN t[i] ELSE s[i - Len(t)]
  BY ConcatProperties
<1>3. \A k \in 1 .. Len(t) : (t \o s)[k] = t[k]
  BY <1>1, <1>2
<1>4. \A k \in 1 .. Len(s) : (t \o s)[Len(t) + k] = s[k]
  <2> TAKE k \in 1 .. Len(s)
  <2>1. Len(t) + k \in 1 .. Len(t) + Len(s) /\ ~(Len(t) + k <= Len(t)) /\ Len(t) + k - Len(t) = k
    BY <1>1
  <2> QED BY <2>1, <1>2
<1> QED BY <1>1, <1>2, <1>3, <1>4

(* A text can be prolonged by a piece that does not join what is in front of it. *)
LEMMA Prolonging ==
  ASSUME NEW t \in Text, NEW B, Boundaries(t, B), NEW s \in Text, Len(s) > 0,
         NEW type \in Types, Piece(s, 1, Len(s) + 1, type), Continues(t, B, s[1])
  PROVE  /\ Boundaries(t \o s, B \cup {Len(t \o s) + 1})
         /\ \A c : /\ Ends(s, 1, Len(s) + 1, type, c)
                   /\ type = "Newline" => c # "%"
                   => Continues(t \o s, B \cup {Len(t \o s) + 1}, c)
<1> DEFINE u == t \o s
           end == Len(t \o s) + 1
           C == B \cup {end}
<1>1. /\ u \in Text /\ end = Len(t) + Len(s) + 1 /\ Len(t) \in Nat /\ Len(s) \in Nat
      /\ DOMAIN u = 1 .. Len(t) + Len(s)
      /\ \A k \in 1 .. Len(t) : u[k] = t[k]
      /\ \A k \in 1 .. Len(s) : u[Len(t) + k] = s[k]
      /\ Len(u) = Len(t) + Len(s)
      /\ DOMAIN t = 1 .. Len(t)
  BY Concatenated DEF Text
<1> HIDE DEF u, end
<1>2. B \subseteq 1 .. Len(t) + 1 /\ 1 \in B /\ Len(t) + 1 \in B /\ end \notin B /\ end \in Nat
  BY <1>1 DEF Boundaries
<1>3. At(u, Len(t) + 1) = s[1] /\ At(u, end) = "eof"
  BY <1>1 DEF At
<1>4. \A j \in 1 .. Len(t) : At(u, j) = At(t, j)
  BY <1>1 DEF At
<1>5. /\ Piece(u, Len(t) + 1, end, type)
      /\ \A c : Ends(s, 1, Len(s) + 1, type, c) => Ends(u, Len(t) + 1, end, type, c)
  <2> DEFINE a == Len(t) + 1
             m == Len(s) + 1
  <2>1. a \in Nat \ {0} /\ end - a = m - 1 /\ end <= Len(u) + 1 /\ 1 \in Nat /\ m \in Nat
    BY <1>1
  <2>2. \A k \in 0 .. m - 1 - 1 : u[a + k] = s[1 + k]
    <3> TAKE k \in 0 .. m - 1 - 1
    <3>1. a + k = Len(t) + (1 + k) /\ 1 + k \in 1 .. Len(s)
      BY <1>1
    <3> QED BY <3>1, <1>1
  <2>3. Piece(s, 1, m, type)
    OBVIOUS
  <2> HIDE DEF a, m
  <2>4. /\ Piece(u, a, end, type)
        /\ \A c : Ends(s, 1, m, type, c) => Ends(u, a, end, type, c)
    <3>1. u \in Text /\ end \in Nat
      BY <1>1, <1>2
    <3> QED BY ONLY <2>1, <2>2, <2>3, <3>1, Moving
  <2> QED BY <2>4 DEF a, m
<1>6. ASSUME NEW i \in B, i # Len(t) + 1
      PROVE  \E j \in C, kind \in Types :
               /\ Piece(u, i, j, kind)
               /\ Ends(u, i, j, kind, At(u, j))
               /\ kind = "Newline" => At(u, j) # "%"
               /\ j <= Len(t) + 1
  <2>1. PICK j \in B, kind \in Types : /\ Piece(t, i, j, kind)
                                       /\ Ends(t, i, j, kind, At(t, j))
                                       /\ kind = "Newline" => At(t, j) # "%"
    BY <1>6 DEF Boundaries
  <2>2. i \in Nat \ {0} /\ j \in Nat /\ j \in i + 1 .. Len(t) + 1 /\ i \in Nat
    BY <2>1, <1>2 DEF Piece
  <2>3. \A k \in 0 .. j - i - 1 : u[i + k] = t[i + k]
    <3> TAKE k \in 0 .. j - i - 1
    <3>1. i + k \in 1 .. Len(t)
      BY <2>2, <1>1
    <3> QED BY <3>1, <1>1
  <2>4. /\ Piece(u, i, j, kind)
        /\ \A c : Ends(t, i, j, kind, c) => Ends(u, i, j, kind, c)
    <3>1. j - i = j - i /\ j <= Len(u) + 1
      BY <2>2, <1>1
    <3> QED BY <2>1, <2>2, <2>3, <3>1, <1>1, Moving
  <2>5. Ends(t, i, j, kind, At(u, j)) /\ (kind = "Newline" => At(u, j) # "%")
    <3>1. CASE j <= Len(t)
      BY <3>1, <2>1, <2>2, <1>4
    <3>2. CASE j = Len(t) + 1
      BY <3>2, <2>1, <1>3 DEF Continues
    <3>3. j <= Len(t) \/ j = Len(t) + 1
      BY <2>2, <1>1
    <3> QED BY <3>1, <3>2, <3>3
  <2> QED BY <2>1, <2>2, <2>4, <2>5
<1>7. Boundaries(u, C)
  <2>1. {1, Len(u) + 1} \subseteq C /\ C \subseteq 1 .. Len(u) + 1 /\ end = Len(u) + 1
    <3>1. end = Len(u) + 1 /\ end \in 1 .. Len(u) + 1
      BY <1>1
    <3>2. B \subseteq 1 .. Len(u) + 1
      BY <1>1, <1>2
    <3> QED BY <3>1, <3>2, <1>2
  <2>2. At(u, 1) # "%"
    <3>1. CASE t = <<>>
      <4>1. Len(t) + 1 = 1
        BY <3>1
      <4> QED BY <3>1, <4>1, <1>3 DEF Continues
    <3>2. CASE t # <<>>
      <4>1. Len(t) >= 1
        BY <3>2, <1>1 DEF Text
      <4>2. At(u, 1) = At(t, 1)
        BY <4>1, <1>4, <1>1
      <4> QED BY <4>2 DEF Boundaries
    <3> QED BY <3>1, <3>2
  <2>3. ASSUME NEW i \in C \ {Len(u) + 1}
        PROVE  \E j \in C, kind \in Types : /\ Piece(u, i, j, kind)
                                            /\ Ends(u, i, j, kind, At(u, j))
                                            /\ kind = "Newline" => At(u, j) # "%"
    <3>1. i \in B
      BY <2>1
    <3>2. CASE i = Len(t) + 1
      BY <3>2, <1>3, <1>5, NothingFollowsTheEnd, <2>1
    <3>3. CASE i # Len(t) + 1
      BY <3>1, <3>3, <1>6
    <3> QED BY <3>2, <3>3
  <2> QED BY <2>1, <2>2, <2>3 DEF Boundaries
<1>8. ASSUME NEW c, Ends(s, 1, Len(s) + 1, type, c), type = "Newline" => c # "%"
      PROVE  Continues(u, C, c)
  <2>1. u # <<>>
    BY <1>1
  <2>2. ASSUME NEW i \in C, NEW kind \in Types, Piece(u, i, Len(u) + 1, kind)
        PROVE  Ends(u, i, Len(u) + 1, kind, c) /\ (kind = "Newline" => c # "%")
    <3>1. i \in B /\ end = Len(u) + 1 /\ i \in DOMAIN u
      BY <2>2, <1>1, <1>2 DEF Piece
    <3>2. Ends(u, i, Len(u) + 1, kind, At(u, Len(u) + 1))
      BY <1>3, <3>1, NothingFollowsTheEnd
    <3>3. i = Len(t) + 1
      <4> SUFFICES ASSUME i # Len(t) + 1 PROVE FALSE
        OBVIOUS
      <4>1. PICK j \in C, other \in Types : /\ Piece(u, i, j, other)
                                            /\ Ends(u, i, j, other, At(u, j))
                                            /\ j <= Len(t) + 1
        BY <1>6, <3>1
      <4>2. u \in Text /\ i \in DOMAIN u
        BY <3>1, <1>1
      <4>3. j = Len(u) + 1
        BY <4>1, <4>2, <3>2, <2>2, OneReading
      <4> QED BY <4>1, <4>3, <1>1
    <3>4. Ends(u, Len(t) + 1, end, type, At(u, end))
      BY <1>3, NothingFollowsTheEnd
    <3>5. kind = type
      BY <3>1, <3>2, <3>3, <3>4, <2>2, <1>1, <1>5, OneReading
    <3> QED BY <3>1, <3>3, <3>5, <1>5, <1>8
  <2> QED BY <2>1, <2>2 DEF Continues
<1> QED BY <1>7, <1>8 DEF u, end

-----------------------------------------------------------------------------
(* The subtokens of the preprocessor, with its directives. *)

\* What is behind a directive.
Separators == {"\n", Space, "eof"}

\* The subtoken s is a directive, the % of which is at i.
IsDirectiveAt(t, i, s) ==
  /\ \/ s.type = "Undefined" /\ s.str = <<>>
     \/ s.type = "Directive" /\ \E d \in Directives : s.str = <<d>>
  /\ s.at \in i + 1 .. Len(t) + 1
  /\ At(t, s.at) \in Separators
  /\ s.potentialDirective = FALSE

(* A directive, known or not, goes up to a space or the end of its line. *)
LEMMA ADirectiveIsRead ==
  ASSUME NEW t \in Text, NEW i \in DOMAIN t, t[i] = "%", NEW p \in BOOLEAN, p
  PROVE  IsDirectiveAt(t, i, advance(t, i, p))
<1>1. i + 1 \in 1 .. Len(t) + 1 /\ i \in 1 .. Len(t) /\ Len(t) \in Nat /\ At(t, i) = "%"
  BY DEF Text, At
<1>2. advance(t, i, p) = lexDirective(t, i + 1)
  BY <1>1, TheCharacters DEF advance
<1> DEFINE end == Before(t, i + 1, {"\n", Space})
           str == SubSeq(t, i + 1, end - 1)
<1>3. "eof" \notin Characters \ {"\n", Space}
  BY TheCharacters
<1>4. /\ end \in i + 1 .. Len(t) + 1
      /\ At(t, end) \notin Characters \ {"\n", Space}
  BY <1>1, <1>3, Behinds DEF Before, Text
<1>5. lexDirective(t, i + 1) = IF \E d \in Directives : str = <<d>>
                               THEN Subtoken("Directive", str, end, FALSE)
                               ELSE Subtoken("Undefined", <<>>, end, FALSE)
  BY DEF lexDirective
<1> HIDE DEF end, str
<1>6. At(t, end) \in Separators
  BY <1>4, <1>1, ElementOfSeq DEF At, Text, Separators
<1>7. CASE \E d \in Directives : str = <<d>>
  <2>1. lexDirective(t, i + 1) = Subtoken("Directive", str, end, FALSE)
    BY <1>5, <1>7
  <2> DEFINE s == Subtoken("Directive", str, end, FALSE)
  <2>2. s.type = "Directive" /\ s.str = str /\ s.at = end /\ s.potentialDirective = FALSE
    BY DEF Subtoken
  <2> HIDE DEF s
  <2>3. IsDirectiveAt(t, i, s)
    BY <2>2, <1>4, <1>6, <1>7 DEF IsDirectiveAt
  <2> QED BY <2>1, <2>3, <1>2 DEF s
<1>8. CASE ~ \E d \in Directives : str = <<d>>
  <2>1. lexDirective(t, i + 1) = Subtoken("Undefined", <<>>, end, FALSE)
    BY <1>5, <1>8
  <2> DEFINE s == Subtoken("Undefined", <<>>, end, FALSE)
  <2>2. s.type = "Undefined" /\ s.str = <<>> /\ s.at = end /\ s.potentialDirective = FALSE
    BY DEF Subtoken
  <2> HIDE DEF s
  <2>3. IsDirectiveAt(t, i, s)
    BY <2>2, <1>4, <1>6 DEF IsDirectiveAt
  <2> QED BY <2>1, <2>3, <1>2 DEF s
<1> QED BY <1>7, <1>8

\* The subtokens that the lexer can have.
IsSubtoken(t, s) ==
  /\ s.at \in 1 .. Len(t) + 1
  /\ s.potentialDirective \in BOOLEAN
  /\ \/ s.type = "EndOfInput" /\ s.at = Len(t) + 1
     \/ s = Beginning
     \/ \E i \in DOMAIN t : IsDirectiveAt(t, i, s)
     \/ \E i \in DOMAIN t : IsReadAt(t, i, s)

(* What is behind a subtoken.  *)
LEMMA Successors ==
  ASSUME NEW t \in Text, NEW s, IsSubtoken(t, s)
  PROVE  /\ IsSubtoken(t, Advanced(t, s))
         /\ s.at = Len(t) + 1 =>
              Advanced(t, s) = Subtoken("EndOfInput", <<>>, Len(t) + 1, s.potentialDirective)
         /\ s.at <= Len(t) /\ s.potentialDirective /\ t[s.at] = "%" =>
              IsDirectiveAt(t, s.at, Advanced(t, s))
         /\ s.at <= Len(t) /\ ~(s.potentialDirective /\ t[s.at] = "%") =>
              IsReadAt(t, s.at, Advanced(t, s))
<1> DEFINE i == s.at
           p == s.potentialDirective
           n == advance(t, i, p)
<1>1. i \in 1 .. Len(t) + 1 /\ Len(t) \in Nat /\ p \in BOOLEAN /\ DOMAIN t = 1 .. Len(t)
  BY DEF IsSubtoken, Text
<1>2. Advanced(t, s) = n
  BY DEF Advanced
<1> HIDE DEF i, n, p
<1>3. CASE i = Len(t) + 1
  <2>1. At(t, i) = "eof"
    BY <1>1, <1>3 DEF At
  <2>2. n = Subtoken("EndOfInput", <<>>, i, p)
    BY <2>1, TheCharacters DEF advance, n
  <2>3. IsSubtoken(t, n)
    BY <2>2, <1>1, <1>3 DEF IsSubtoken, Subtoken
  <2> QED BY <1>1, <1>2, <1>3, <2>2, <2>3 DEF i, p
<1>4. CASE i \in DOMAIN t /\ p /\ t[i] = "%"
  <2>1. IsDirectiveAt(t, i, n)
    BY <1>1, <1>4, ADirectiveIsRead DEF n
  <2>2. n.at \in 1 .. Len(t) + 1 /\ n.potentialDirective \in BOOLEAN
    <3>1. n.at \in i + 1 .. Len(t) + 1
      BY <2>1 DEF IsDirectiveAt
    <3>2. n.at \in 1 .. Len(t) + 1
      BY <3>1, <1>1
    <3>3. n.potentialDirective = FALSE
      BY <2>1 DEF IsDirectiveAt
    <3> QED BY <3>2, <3>3
  <2>3. IsSubtoken(t, n)
    BY <2>1, <2>2, <1>4 DEF IsSubtoken
  <2>4. i # Len(t) + 1 /\ p /\ t[i] = "%"
    BY <1>1, <1>4
  <2> QED BY <1>2, <2>1, <2>3, <2>4 DEF i, p
<1>5. CASE i \in DOMAIN t /\ ~(p /\ t[i] = "%")
  <2>1. IsReadAt(t, i, n)
    BY <1>1, <1>5, Advancing DEF n
  <2>2. n.at \in 1 .. Len(t) + 1 /\ n.potentialDirective \in BOOLEAN
    BY <2>1, <1>1 DEF IsReadAt, Piece
  <2>3. IsSubtoken(t, n)
    BY <2>1, <2>2, <1>5 DEF IsSubtoken
  <2> QED BY <1>1, <1>2, <1>5, <2>1, <2>3 DEF i, p
<1>6. i = Len(t) + 1 \/ i \in DOMAIN t
  BY <1>1
<1> QED BY <1>3, <1>4, <1>5, <1>6

(* The lexer always has a subtoken of the text. *)
LEMMA PopulatedIsSubtoken ==
  ASSUME NEW t \in Text, NEW s, IsSubtoken(t, s)
  PROVE  IsSubtoken(t, populated(t, s)) /\ IsSubtoken(t, next(t, s))
<1>1. IsSubtoken(t, populated(t, s))
  BY Successors DEF populated
<1> QED BY <1>1, Successors DEF next

(* At the beginning there is no subtoken, and a % begins a directive. *)
LEMMA TheBeginning ==
  /\ Beginning.type = "Undefined" /\ Beginning.str = <<>> /\ Beginning.at = 1
  /\ Beginning.potentialDirective = TRUE
  /\ \A t \in Text : IsSubtoken(t, Beginning)
<1>1. /\ Beginning.type = "Undefined" /\ Beginning.str = <<>> /\ Beginning.at = 1
      /\ Beginning.potentialDirective = TRUE
  BY DEF Beginning, Subtoken
<1>2. \A t \in Text : 1 \in 1 .. Len(t) + 1
  BY DEF Text
<1> QED BY <1>1, <1>2 DEF IsSubtoken

(* What is read is a piece of the text, which can be moved to another one. *)
LEMMA PiecesAreTexts ==
  ASSUME NEW t \in Text, NEW i \in DOMAIN t, NEW s, IsReadAt(t, i, s)
  PROVE  /\ s.str \in Text /\ Len(s.str) = s.at - i /\ Len(s.str) > 0
         /\ s.str[1] = t[i] /\ s.str = SubSeq(t, i, s.at - 1)
         /\ s.type \in Types
         /\ s.at \in i + 1 .. Len(t) + 1
         /\ Piece(s.str, 1, Len(s.str) + 1, s.type)
         /\ \A c : Ends(t, i, s.at, s.type, c) => Ends(s.str, 1, Len(s.str) + 1, s.type, c)
<1> DEFINE j == s.at
           w == SubSeq(t, i, j - 1)
           m == Len(w) + 1
<1>1. i \in 1 .. Len(t) /\ j \in i + 1 .. Len(t) + 1 /\ Len(t) \in Nat
  BY DEF IsReadAt, Piece, Text
<1>2. s.str = w /\ Piece(t, i, j, s.type)
  BY DEF IsReadAt, Subtoken
<1> HIDE DEF j
<1>3. w \in Text /\ Len(w) = j - i /\ \A k \in 1 .. j - i : w[k] = t[i + k - 1]
  <2>1. i \in 1 .. Len(t) + 1 /\ j \in i .. Len(t) + 1
    BY <1>1
  <2> QED BY <2>1, Cut DEF Text
<1> HIDE DEF w
<1>4. \A k \in 0 .. j - i - 1 : w[1 + k] = t[i + k]
  <2> TAKE k \in 0 .. j - i - 1
  <2>1. 1 + k \in 1 .. j - i /\ i + (1 + k) - 1 = i + k
    BY <1>1
  <2> QED BY <2>1, <1>3
<1>5. Len(w) > 0 /\ w[1] = t[i]
  <2>1. 1 \in 1 .. j - i /\ i + 1 - 1 = i
    BY <1>1
  <2> QED BY <2>1, <1>1, <1>3
<1>6. /\ Piece(w, 1, m, s.type)
      /\ \A c : Ends(t, i, j, s.type, c) => Ends(w, 1, m, s.type, c)
  <2>1. m \in Nat /\ m - 1 = j - i /\ m <= Len(w) + 1 /\ i \in Nat /\ j \in Nat /\ 1 \in Nat \ {0}
    BY <1>1, <1>3
  <2> HIDE DEF m
  <2>2. w \in Text /\ Piece(t, i, j, s.type)
    BY <1>2, <1>3
  <2> QED BY ONLY <2>1, <2>2, <1>4, Moving
<1>7. s.type \in Types
  BY <1>2 DEF Piece, Types
<1> QED BY <1>1, <1>2, <1>3, <1>5, <1>6, <1>7 DEF j, w

(* The names of directives are words. *)
LEMMA DirectivesAreLetters ==
  \A d \in Directives : d \in Alnum /\ d \notin Digits /\ d # "%" /\ d \in Characters
BY TheCharacters, Zenon DEF Directives, Letters, Digits, Alnum, Characters

(* What follows a subtoken that was written does not join it. *)
LEMMA Following ==
  ASSUME NEW t \in Text, NEW s, IsSubtoken(t, s), s.type \notin {"Undefined", "EndOfInput"},
         NEW m, m = populated(t, Advanced(t, s))
  PROVE  /\ IsSubtoken(t, m) /\ m.type # "Undefined"
         /\ s.type = "Directive" /\ m.type # "EndOfInput" =>
              m.str[1] \in {"\n", Space} /\ m.type # "Directive"
         /\ \A i \in DOMAIN t : IsReadAt(t, i, s) =>
              /\ m.type = "Directive" => s.type = "Newline"
              /\ m.type # "EndOfInput" =>
                   Ends(t, i, s.at, s.type, m.str[1]) /\ (s.type = "Newline" => m.str[1] # "%")
<1> DEFINE n == Advanced(t, s)
           j == s.at
<1>1. j \in 1 .. Len(t) + 1 /\ Len(t) \in Nat /\ DOMAIN t = 1 .. Len(t)
      /\ s.potentialDirective \in BOOLEAN
  BY DEF IsSubtoken, Text
<1>2. /\ IsSubtoken(t, n)
      /\ j = Len(t) + 1 => n.type = "EndOfInput"
      /\ j <= Len(t) /\ s.potentialDirective /\ t[j] = "%" => IsDirectiveAt(t, j, n)
      /\ j <= Len(t) /\ ~(s.potentialDirective /\ t[j] = "%") => IsReadAt(t, j, n)
  BY Successors DEF Subtoken
<1>3. IsSubtoken(t, m)
  BY <1>2, PopulatedIsSubtoken
<1>4. m = IF n.type = "Undefined" THEN Advanced(t, n) ELSE n
  BY DEF populated
<1> HIDE DEF n, j
<1>5. \/ \E i \in DOMAIN t : IsReadAt(t, i, s)
      \/ s.type = "Directive" /\ s.potentialDirective = FALSE /\ At(t, j) \in Separators
  BY TheBeginning DEF IsSubtoken, IsDirectiveAt, j
<1>6. ASSUME NEW i \in DOMAIN t, IsReadAt(t, i, s)
      PROVE  s.type \in Types /\ s.type # "Directive" /\ Ends(t, i, j, s.type, At(t, j))
             /\ s.potentialDirective = (s.type = "Newline")
  BY <1>6 DEF IsReadAt, Piece, Types, j
<1>7. CASE j = Len(t) + 1
  BY <1>2, <1>3, <1>4, <1>7
<1>8. CASE j \in DOMAIN t /\ ~(s.potentialDirective /\ t[j] = "%")
  <2>1. IsReadAt(t, j, n) /\ n.type \in Types /\ m = n /\ m.str[1] = t[j] /\ At(t, j) = t[j]
    <3>1. IsReadAt(t, j, n)
      BY <1>1, <1>2, <1>8
    <3>2. n.type \in Types /\ n.str[1] = t[j]
      BY <3>1, <1>8, PiecesAreTexts
    <3> QED BY <3>1, <3>2, <1>4, <1>8 DEF Types, At
  <2>2. m.type \notin {"Undefined", "Directive", "EndOfInput"}
    BY <2>1 DEF Types
  <2>3. s.type = "Directive" => m.str[1] \in {"\n", Space}
    <3>1. t[j] # "eof"
      BY <1>1, <1>8, ElementOfSeq, TheCharacters DEF Text
    <3> QED BY <1>5, <1>6, <2>1, <3>1 DEF Separators
  <2>4. ASSUME NEW i \in DOMAIN t, IsReadAt(t, i, s)
        PROVE  Ends(t, i, j, s.type, m.str[1]) /\ (s.type = "Newline" => m.str[1] # "%")
    BY <1>6, <1>8, <2>1, <2>4
  <2> QED BY <1>3, <2>2, <2>3, <2>4 DEF j
<1>9. CASE j \in DOMAIN t /\ s.potentialDirective /\ t[j] = "%"
  <2>1. s.type = "Newline"
    BY <1>5, <1>6, <1>9
  <2>2. IsDirectiveAt(t, j, n)
    BY <1>1, <1>2, <1>9
  <2>3. \A i, c : Ends(t, i, j, s.type, c)
    BY <2>1 DEF Ends
  <2>4. CASE n.type = "Directive"
    <3>1. m = n
      BY <2>4, <1>4
    <3>2. m.str[1] # "%"
      BY <2>2, <2>4, <3>1, DirectivesAreLetters DEF IsDirectiveAt
    <3> QED BY <1>3, <2>1, <2>3, <2>4, <3>1, <3>2 DEF j
  <2>5. CASE n.type = "Undefined"
    <3>1. m = Advanced(t, n) /\ n.potentialDirective = FALSE /\ At(t, n.at) \in Separators
          /\ n.at \in 1 .. Len(t) + 1
      BY <2>2, <2>5, <1>4, <1>1 DEF IsDirectiveAt
    <3>2. CASE n.at = Len(t) + 1
      <4>1. m.type = "EndOfInput"
        BY <1>2, <3>1, <3>2, Successors DEF Subtoken
      <4> QED BY <1>3, <4>1, <2>1
    <3>3. CASE n.at \in DOMAIN t
      <4>1. IsReadAt(t, n.at, m)
        BY <1>1, <1>2, <3>1, <3>3, Successors
      <4>2. m.type \in Types /\ m.str[1] = t[n.at] /\ t[n.at] # "eof" /\ At(t, n.at) = t[n.at]
        <5>1. m.type \in Types /\ m.str[1] = t[n.at]
          BY <4>1, <3>3, PiecesAreTexts
        <5>2. t[n.at] \in Characters
          BY <1>1, <3>3, ElementOfSeq DEF Text
        <5>3. t[n.at] # "eof"
          BY <5>2, TheCharacters
        <5> QED BY <5>1, <5>3, <3>3 DEF At
      <4>3. m.str[1] # "%" /\ m.type \notin {"Undefined", "Directive", "EndOfInput"}
        BY <4>2, <3>1, TheCharacters DEF Types, Separators
      <4> QED BY <1>3, <2>1, <2>3, <4>3 DEF j
    <3> QED BY <1>1, <3>1, <3>2, <3>3
  <2> QED BY <2>2, <2>4, <2>5 DEF IsDirectiveAt
<1> QED BY <1>1, <1>7, <1>8, <1>9

(* A directive without its % is a word, and ends as one. *)
LEMMA ADirectiveIsAWord ==
  ASSUME NEW d \in Directives
  PROVE  <<d>> \in Text /\ Len(<<d>>) = 1 /\ <<d>>[1] = d /\ Piece(<<d>>, 1, Len(<<d>>) + 1, "Word")
<1>1. d \in Alnum /\ d \notin Digits /\ d \in Characters
  BY DirectivesAreLetters
<1>2. <<d>> \in Text /\ Len(<<d>>) = 1 /\ <<d>>[1] = d
  BY <1>1 DEF Text
<1>3. (\A i \in 1 .. 2 - 1 : <<d>>[i] \in Alnum) /\ ~ \A i \in 1 .. 2 - 1 : <<d>>[i] \in Digits
  <2>1. 1 .. 2 - 1 = {1}
    OBVIOUS
  <2> QED BY <1>1, <1>2, <2>1
<1>4. 2 \in 1 + 1 .. Len(<<d>>) + 1 /\ Len(<<d>>) + 1 = 2
  BY <1>2
<1> QED BY <1>2, <1>3, <1>4 DEF Piece

(* The output keeps its boundaries when the subtoken is written behind it. *)
LEMMA Written ==
  ASSUME NEW t \in Text, NEW s, IsSubtoken(t, s), s.type \notin {"Undefined", "EndOfInput"},
         NEW m, m = populated(t, Advanced(t, s)),
         NEW k \in Text, NEW B, Boundaries(k, B), Continues(k, B, s.str[1])
  PROVE  /\ k \o s.str \in Text
         /\ \E C : /\ Boundaries(k \o s.str, C)
                   /\ m.type # "EndOfInput" => Continues(k \o s.str, C, m.str[1])
                   /\ m.type = "Directive" => \A c : c # "%" => Continues(k \o s.str, C, c)
<1> DEFINE C == B \cup {Len(k \o s.str) + 1}
<1>1. CASE \E i \in DOMAIN t : IsReadAt(t, i, s)
  <2>1. PICK i \in DOMAIN t : IsReadAt(t, i, s)
    BY <1>1
  <2>2. /\ s.str \in Text /\ Len(s.str) > 0 /\ s.type \in Types
        /\ Piece(s.str, 1, Len(s.str) + 1, s.type)
        /\ \A c : Ends(t, i, s.at, s.type, c) => Ends(s.str, 1, Len(s.str) + 1, s.type, c)
    BY <2>1, PiecesAreTexts
  <2>3. /\ Boundaries(k \o s.str, C)
        /\ \A c : /\ Ends(s.str, 1, Len(s.str) + 1, s.type, c)
                  /\ s.type = "Newline" => c # "%"
                  => Continues(k \o s.str, C, c)
    BY <2>2, Prolonging
  <2>4. k \o s.str \in Text
    BY <2>2, Concatenated DEF Text
  <2>5. /\ m.type = "Directive" => s.type = "Newline"
        /\ m.type # "EndOfInput" =>
             Ends(t, i, s.at, s.type, m.str[1]) /\ (s.type = "Newline" => m.str[1] # "%")
    BY <2>1, Following
  <2> HIDE DEF C
  <2>6. m.type # "EndOfInput" => Continues(k \o s.str, C, m.str[1])
    BY <2>2, <2>3, <2>5
  <2>7. s.type = "Newline" => \A c : Ends(s.str, 1, Len(s.str) + 1, s.type, c)
    BY DEF Ends
  <2>8. m.type = "Directive" => \A c : c # "%" => Continues(k \o s.str, C, c)
    BY <2>3, <2>5, <2>7
  <2> QED BY <2>3, <2>4, <2>6, <2>8
<1>2. CASE s.type = "Directive" /\ \E d \in Directives : s.str = <<d>>
  <2>1. PICK d \in Directives : s.str = <<d>>
    BY <1>2
  <2>2. /\ s.str \in Text /\ Len(s.str) = 1 /\ Piece(s.str, 1, Len(s.str) + 1, "Word")
    BY <2>1, ADirectiveIsAWord
  <2>3. /\ Boundaries(k \o s.str, C)
        /\ \A c : /\ Ends(s.str, 1, Len(s.str) + 1, "Word", c)
                  /\ "Word" = "Newline" => c # "%"
                  => Continues(k \o s.str, C, c)
    <3>1. "Word" \in Types /\ Len(s.str) > 0
      BY <2>2 DEF Types
    <3> QED BY <2>2, <3>1, Prolonging
  <2>4. k \o s.str \in Text
    BY <2>2, Concatenated DEF Text
  <2>5. m.type # "EndOfInput" => m.str[1] \in {"\n", Space} /\ m.type # "Directive"
    BY <1>2, Following
  <2> HIDE DEF C
  <2>6. \A c \in {"\n", Space} : Ends(s.str, 1, Len(s.str) + 1, "Word", c)
    BY TheCharacters DEF Ends
  <2>7. m.type # "EndOfInput" => Continues(k \o s.str, C, m.str[1])
    BY <2>3, <2>5, <2>6
  <2> QED BY <2>3, <2>4, <2>5, <2>7
<1> QED BY <1>1, <1>2, TheBeginning DEF IsSubtoken, IsDirectiveAt

(* A comment that is left out leaves the text in front of a newline or of the end. *)
LEMMA Omitted ==
  ASSUME NEW t \in Text, NEW s, IsSubtoken(t, s), s.type = "Comment",
         NEW m, m = populated(t, Advanced(t, s)),
         NEW k \in Text, NEW B, Boundaries(k, B), Continues(k, B, s.str[1])
  PROVE  /\ m.type # "EndOfInput" => Continues(k, B, m.str[1])
         /\ m.type # "Directive"
<1>1. PICK i \in DOMAIN t : IsReadAt(t, i, s)
  BY TheBeginning DEF IsSubtoken, IsDirectiveAt
<1>2. /\ m.type # "Directive"
      /\ m.type # "EndOfInput" => Ends(t, i, s.at, "Comment", m.str[1])
  BY <1>1, Following
<1>3. s.str[1] = "#"
  BY <1>1, PiecesAreTexts DEF IsReadAt, Piece
<1>4. m.type # "EndOfInput" => m.str[1] \in {"\n", "eof"}
  BY <1>2 DEF Ends
<1>5. ASSUME NEW c \in {"\n", "eof"} PROVE Continues(k, B, c)
  <2>1. c # "%"
    OBVIOUS
  <2>2. ASSUME NEW i_1 \in B, NEW type \in Types, Piece(k, i_1, Len(k) + 1, type)
        PROVE  Ends(k, i_1, Len(k) + 1, type, c)
    <3>1. Ends(k, i_1, Len(k) + 1, type, "#")
      BY <2>2, <1>3 DEF Continues
    <3> QED BY <3>1, TheCharacters DEF Ends
  <2> QED BY <2>1, <2>2 DEF Continues
<1> QED BY <1>2, <1>4, <1>5

-----------------------------------------------------------------------------
(* The preprocessor: its output has boundaries, and no directive. *)

\* What the preprocessor reads is written.
Writing == branch = "none" \/ active = (branch = "then")

\* The output has these boundaries, also with the subtoken that is to be written.
Joined(B) ==
  /\ Boundaries(output, B)
  /\ Writing /\ subtoken.type \notin {"Undefined", "EndOfInput"} =>
       Continues(output, B, subtoken.str[1])
  /\ subtoken.type = "Directive" \/ ~Writing => \A c : c # "%" => Continues(output, B, c)

\* What the preprocessor keeps true.
PreprocessingInv ==
  /\ text \in Text /\ output \in Text
  /\ phase = "preprocessing" =>
       /\ IsSubtoken(text, lexer)
       /\ branch \in {"none", "then", "else"} /\ active \in BOOLEAN
       /\ \E B : Joined(B)

(* The text without characters has a boundary, and all but a % can follow. *)
LEMMA NoText ==
  /\ <<>> \in Text /\ Boundaries(<<>>, {1})
  /\ \A c : c # "%" => Continues(<<>>, {1}, c)
<1>1. <<>> \in Text /\ Len(<<>>) = 0 /\ DOMAIN <<>> = {}
  BY DEF Text
<1>2. At(<<>>, 1) # "%"
  BY <1>1 DEF At
<1>3. \A i \in {1} : \A type : ~Piece(<<>>, i, Len(<<>>) + 1, type)
  BY <1>1 DEF Piece
<1>4. {1} \ {Len(<<>>) + 1} = {}
  BY <1>1
<1>5. Boundaries(<<>>, {1})
  BY <1>1, <1>2, <1>4 DEF Boundaries
<1> QED BY <1>1, <1>3, <1>5 DEF Continues

(* A step behind the newline of a line with a directive. *)
LEMMA NextLine ==
  ASSUME PreprocessingInv, phase = "preprocessing", subtoken.type = "Directive",
         NEW newline, IsSubtoken(text, newline), newline.type = "Newline",
         lexer' = next(text, newline), text' = text, output' = output,
         branch' \in {"none", "then", "else"}, active' \in BOOLEAN
  PROVE  PreprocessingInv'
<1> DEFINE m == populated(text, Advanced(text, newline))
<1>1. text \in Text /\ output \in Text
  BY DEF PreprocessingInv
<1>2. PICK B : Joined(B)
  BY DEF PreprocessingInv
<1>3. \A c : c # "%" => Continues(output, B, c)
  BY <1>2 DEF Joined
<1>4. PICK i \in DOMAIN text : IsReadAt(text, i, newline)
  BY TheBeginning DEF IsSubtoken, IsDirectiveAt
<1>5. m.type # "EndOfInput" => m.str[1] # "%"
  BY <1>1, <1>4, Following
<1>6. lexer' = Advanced(text, newline)
  BY DEF next, populated
<1>7. subtoken' = m
  BY <1>6 DEF subtoken
<1>8. IsSubtoken(text, lexer')
  BY <1>1, PopulatedIsSubtoken
<1> HIDE DEF m
<1>9. Joined(B)'
  BY <1>2, <1>3, <1>5, <1>7 DEF Joined
<1> QED BY <1>1, <1>8, <1>9 DEF PreprocessingInv

(* A step that writes the subtoken. *)
LEMMA AfterWriting ==
  ASSUME PreprocessingInv, phase = "preprocessing", ~AtEnd, Writing,
         output' = output \o subtoken.str, lexer' = Taken, text' = text,
         branch' = branch, active' = active
  PROVE  PreprocessingInv'
<1> DEFINE s == subtoken
           m == populated(text, Advanced(text, s))
<1>1. text \in Text /\ output \in Text /\ IsSubtoken(text, lexer)
      /\ branch \in {"none", "then", "else"} /\ active \in BOOLEAN
  BY DEF PreprocessingInv
<1>2. PICK B : Joined(B)
  BY DEF PreprocessingInv
<1>3. IsSubtoken(text, s) /\ s.type \notin {"Undefined", "EndOfInput"}
  BY <1>1, PopulatedIsSubtoken DEF subtoken, AtEnd
<1>4. Boundaries(output, B) /\ Continues(output, B, s.str[1])
  BY <1>2, <1>3 DEF Joined
<1>5. lexer' = Advanced(text, s) /\ IsSubtoken(text, lexer')
  BY <1>1, PopulatedIsSubtoken DEF Taken, next, subtoken
<1>6. subtoken' = m
  BY <1>5 DEF subtoken
<1> HIDE DEF s, m
<1>7. /\ output \o s.str \in Text
      /\ \E C : /\ Boundaries(output \o s.str, C)
                /\ m.type # "EndOfInput" => Continues(output \o s.str, C, m.str[1])
                /\ m.type = "Directive" => \A c : c # "%" => Continues(output \o s.str, C, c)
  BY <1>1, <1>3, <1>4, Written DEF m
<1>8. PICK C : /\ Boundaries(output \o s.str, C)
               /\ m.type # "EndOfInput" => Continues(output \o s.str, C, m.str[1])
               /\ m.type = "Directive" => \A c : c # "%" => Continues(output \o s.str, C, c)
  BY <1>7
<1>9. output' = output \o s.str /\ Writing'
  BY DEF s, Writing
<1>10. Joined(C)'
  BY <1>6, <1>8, <1>9 DEF Joined
<1> QED BY <1>1, <1>5, <1>7, <1>9, <1>10 DEF PreprocessingInv

(* A step that leaves the subtoken out, in a branch that is not active. *)
LEMMA AfterSkipping ==
  ASSUME PreprocessingInv, phase = "preprocessing", ~Writing,
         output' = output, lexer' = Taken, text' = text, branch' = branch, active' = active
  PROVE  PreprocessingInv'
<1>1. text \in Text /\ output \in Text /\ IsSubtoken(text, lexer)
      /\ branch \in {"none", "then", "else"} /\ active \in BOOLEAN
  BY DEF PreprocessingInv
<1>2. PICK B : Joined(B)
  BY DEF PreprocessingInv
<1>3. ~Writing' /\ IsSubtoken(text, lexer')
  BY <1>1, PopulatedIsSubtoken DEF Taken, Writing
<1>4. Joined(B)'
  BY <1>2, <1>3 DEF Joined
<1> QED BY <1>1, <1>3, <1>4 DEF PreprocessingInv

(* Outside of conditionals: a subtoken is written, or it is a comment. *)
LEMMA CopyPreserves ==
  ASSUME PreprocessingInv, phase = "preprocessing", Copy, text' = text
  PROVE  PreprocessingInv'
<1>1. CASE subtoken.type # "Comment"
  BY <1>1, AfterWriting DEF Copy, Writing
<1>2. CASE subtoken.type = "Comment"
  <2> DEFINE s == subtoken
             m == populated(text, Advanced(text, s))
  <2>1. text \in Text /\ output \in Text /\ IsSubtoken(text, lexer)
        /\ branch \in {"none", "then", "else"} /\ active \in BOOLEAN
    BY DEF PreprocessingInv
  <2>2. PICK B : Joined(B)
    BY DEF PreprocessingInv
  <2>3. IsSubtoken(text, s) /\ s.type = "Comment"
    BY <1>2, <2>1, PopulatedIsSubtoken DEF subtoken
  <2>4. Boundaries(output, B) /\ Continues(output, B, s.str[1])
    BY <2>2, <2>3 DEF Joined, Copy, Writing
  <2>5. lexer' = Advanced(text, s) /\ IsSubtoken(text, lexer')
    BY <2>1, PopulatedIsSubtoken DEF Copy, Taken, next, subtoken
  <2>6. subtoken' = m
    BY <2>5 DEF subtoken
  <2>7. output' = output /\ Writing' /\ branch' = branch /\ active' = active
    BY <1>2 DEF Copy, Writing
  <2> HIDE DEF s, m
  <2>8. /\ m.type # "EndOfInput" => Continues(output, B, m.str[1])
        /\ m.type # "Directive"
    BY <2>1, <2>3, <2>4, Omitted DEF m
  <2>9. Joined(B)'
    BY <2>4, <2>6, <2>7, <2>8 DEF Joined
  <2> QED BY <2>1, <2>5, <2>7, <2>9 DEF PreprocessingInv
<1> QED BY <1>1, <1>2

(* The line with the condition is not written. *)
LEMMA OpenIfPreserves ==
  ASSUME PreprocessingInv, phase = "preprocessing", OpenIf, text' = text
  PROVE  PreprocessingInv'
<1> DEFINE condition == next(text, Taken)
           newline == next(text, condition)
<1>1. CASE Refuse
  BY <1>1 DEF Refuse, PreprocessingInv
<1>2. CASE /\ newline.type = "Newline"
           /\ active' = (condition.str \in {<<"true">>, <<Platform>>})
           /\ branch' = "then"
           /\ lexer' = next(text, newline)
           /\ UNCHANGED <<output, phase>>
  <2>1. text \in Text /\ IsSubtoken(text, lexer)
    BY DEF PreprocessingInv
  <2>2. IsSubtoken(text, Taken)
    BY <2>1, PopulatedIsSubtoken DEF Taken
  <2>3. IsSubtoken(text, condition)
    BY <2>1, <2>2, PopulatedIsSubtoken
  <2>4. IsSubtoken(text, newline)
    BY <2>1, <2>3, PopulatedIsSubtoken
  <2>5. subtoken.type = "Directive"
    BY DEF OpenIf, IsDirective
  <2> HIDE DEF condition, newline
  <2> QED BY <1>2, <2>4, <2>5, NextLine
<1> QED BY <1>1, <1>2 DEF OpenIf

(* In a conditional, a subtoken is written or not. *)
LEMMA CopyBranchPreserves ==
  ASSUME PreprocessingInv, phase = "preprocessing", CopyBranch, text' = text
  PROVE  PreprocessingInv'
<1>1. Writing <=> active = (branch = "then")
  BY DEF CopyBranch, Writing
<1>2. CASE Writing
  BY <1>1, <1>2, AfterWriting DEF CopyBranch
<1>3. CASE ~Writing
  BY <1>1, <1>3, AfterSkipping DEF CopyBranch
<1> QED BY <1>2, <1>3

(* The line of the else is not written. *)
LEMMA ElsePreserves ==
  ASSUME PreprocessingInv, phase = "preprocessing", Else, text' = text
  PROVE  PreprocessingInv'
<1>1. CASE Taken.type = "Newline"
  <2>1. IsSubtoken(text, Taken)
    BY PopulatedIsSubtoken DEF Taken, PreprocessingInv
  <2> QED BY <1>1, <2>1, NextLine DEF Else, IsDirective, PreprocessingInv
<1>2. CASE Taken.type # "Newline"
  BY <1>2 DEF Else, Refuse, PreprocessingInv
<1> QED BY <1>1, <1>2

(* The line of the end is not written. *)
LEMMA EndIfPreserves ==
  ASSUME PreprocessingInv, phase = "preprocessing", EndIf, text' = text
  PROVE  PreprocessingInv'
<1>1. CASE ~AtEnd /\ Taken.type = "Newline"
  <2>1. IsSubtoken(text, Taken)
    BY PopulatedIsSubtoken DEF Taken, PreprocessingInv
  <2> QED BY <1>1, <2>1, NextLine DEF EndIf, IsDirective, PreprocessingInv
<1>2. CASE ~(~AtEnd /\ Taken.type = "Newline")
  BY <1>2 DEF EndIf, Refuse, PreprocessingInv
<1> QED BY <1>1, <1>2

-----------------------------------------------------------------------------
(* FlattenSeq. *)

\* The function that FlattenSeq builds, on a beginning of the sequence.
Flattening(f, ss, n) ==
  f = [i \in 1 .. n |-> IF i = 1 THEN ss[i] ELSE f[i - 1] \o ss[i]]

(* There is a function that joins the first sequences, for every number of them. *)
LEMMA FlatteningExists ==
  ASSUME NEW ss
  PROVE  \A n \in Nat : \E f : Flattening(f, ss, n)
<1> DEFINE P == {n \in Nat : \E f : Flattening(f, ss, n)}
<1>1. 0 \in P
  <2> DEFINE f == [i \in 1 .. 0 |-> 0]
  <2>1. Flattening(f, ss, 0)
    BY DEF Flattening
  <2> QED BY <2>1
<1>2. ASSUME NEW n \in Nat, n \in P PROVE n + 1 \in P
  <2>1. PICK f : Flattening(f, ss, n)
    BY <1>2
  <2> DEFINE g == [i \in 1 .. n + 1 |-> IF i = 1 THEN ss[i] ELSE f[i - 1] \o ss[i]]
  <2>2. \A i \in 1 .. n : g[i] = f[i]
    <3> TAKE i \in 1 .. n
    <3>1. f[i] = IF i = 1 THEN ss[i] ELSE f[i - 1] \o ss[i]
      BY <2>1, Zenon DEF Flattening
    <3>2. i \in 1 .. n + 1
      OBVIOUS
    <3> QED BY <3>1, <3>2, Zenon
  <2>3. \A i \in 1 .. n + 1 : g[i] = IF i = 1 THEN ss[i] ELSE g[i - 1] \o ss[i]
    <3> TAKE i \in 1 .. n + 1
    <3>1. CASE i = 1
      BY <3>1
    <3>2. CASE i # 1
      <4>1. i - 1 \in 1 .. n
        BY <3>2
      <4>2. g[i - 1] = f[i - 1]
        BY <4>1, <2>2
      <4> QED BY <3>2, <4>2
    <3> QED BY <3>1, <3>2
  <2>4. g = [i \in 1 .. n + 1 |-> g[i]]
    OBVIOUS
  <2> HIDE DEF g
  <2>5. Flattening(g, ss, n + 1)
    BY <2>3, <2>4 DEF Flattening
  <2> QED BY <2>5
<1>3. \A n \in Nat : n \in P
  <2> HIDE DEF P
  <2> QED BY <1>1, <1>2, Induction
<1> QED BY <1>3

\* What FlattenSeq returns.
LEMMA FlattenSeqIs ==
  ASSUME NEW S, NEW ss \in Seq(S), Len(ss) # 0
  PROVE  \E f : Flattening(f, ss, Len(ss)) /\ FlattenSeq(ss) = f[Len(ss)]
<1> DEFINE f == CHOOSE f : f = [i \in 1 .. Len(ss) |-> IF i = 1 THEN ss[i] ELSE f[i - 1] \o ss[i]]
<1>1. \E g : g = [i \in 1 .. Len(ss) |-> IF i = 1 THEN ss[i] ELSE g[i - 1] \o ss[i]]
  <2>1. Len(ss) \in Nat
    OBVIOUS
  <2>2. \E g : Flattening(g, ss, Len(ss))
    BY <2>1, FlatteningExists
  <2> QED BY <2>2, Zenon DEF Flattening
<1>2. f = [i \in 1 .. Len(ss) |-> IF i = 1 THEN ss[i] ELSE f[i - 1] \o ss[i]]
  BY <1>1
<1>3. FlattenSeq(ss) = f[Len(ss)]
  BY DEF FlattenSeq
<1> QED BY <1>2, <1>3 DEF Flattening

(* Induction over the numbers up to N. *)
LEMMA InductionUpTo ==
  ASSUME NEW N \in Nat, NEW S, 1 <= N => 1 \in S,
         \A i \in 1 .. N - 1 : i \in S => i + 1 \in S
  PROVE  \A i \in 1 .. N : i \in S
<1> DEFINE P == {n \in Nat : n + 1 <= N => n + 1 \in S}
<1>1. 0 \in P
  OBVIOUS
<1>2. ASSUME NEW n \in Nat, n \in P PROVE n + 1 \in P
  <2> SUFFICES ASSUME n + 1 + 1 <= N PROVE n + 1 + 1 \in S
    OBVIOUS
  <2>1. n + 1 \in 1 .. N - 1 /\ n + 1 \in S
    BY <1>2
  <2> QED BY <2>1
<1>3. \A n \in Nat : n \in P
  <2> HIDE DEF P
  <2> QED BY <1>1, <1>2, Induction
<1> QED
  <2> TAKE i \in 1 .. N
  <2>1. i - 1 \in Nat /\ (i - 1) + 1 = i
    OBVIOUS
  <2>2. i - 1 \in P
    BY <2>1, <1>3
  <2> QED BY <2>1, <2>2

(* What is joined of sequences over S is one. *)
LEMMA FlatteningType ==
  ASSUME NEW S, NEW ss \in Seq(Seq(S)), NEW f, Flattening(f, ss, Len(ss))
  PROVE  \A i \in 1 .. Len(ss) : f[i] \in Seq(S)
<1> DEFINE P == {i \in 1 .. Len(ss) : f[i] \in Seq(S)}
<1>1. \A i \in 1 .. Len(ss) : f[i] = IF i = 1 THEN ss[i] ELSE f[i - 1] \o ss[i]
  BY Zenon DEF Flattening
<1>2. Len(ss) \in Nat /\ \A i \in 1 .. Len(ss) : ss[i] \in Seq(S)
  BY ElementOfSeq
<1>3. 1 <= Len(ss) => 1 \in P
  BY <1>1, <1>2
<1>4. ASSUME NEW i \in 1 .. Len(ss) - 1, i \in P PROVE i + 1 \in P
  <2> DEFINE j == i + 1
  <2>1. j \in 1 .. Len(ss) /\ j # 1 /\ j - 1 = i
    BY <1>2
  <2> HIDE DEF j
  <2>2. f[j] = f[i] \o ss[j]
    BY <1>1, <2>1
  <2>3. f[i] \in Seq(S) /\ ss[j] \in Seq(S)
    BY <1>2, <1>4, <2>1
  <2>4. f[j] \in Seq(S)
    BY <2>2, <2>3, ConcatProperties
  <2> QED BY <2>1, <2>4 DEF j
<1>5. \A i \in 1 .. Len(ss) : i \in P
  <2> HIDE DEF P
  <2> QED BY <1>2, <1>3, <1>4, InductionUpTo
<1> QED BY <1>5

(* Of sequences with the same beginning, the same is joined at the beginning. *)
LEMMA SameFlattening ==
  ASSUME NEW ss, NEW tt, NEW f, NEW g, NEW n \in Nat, NEW m \in Nat, n <= m,
         \A i \in 1 .. n : ss[i] = tt[i], Flattening(f, ss, n), Flattening(g, tt, m)
  PROVE  \A i \in 1 .. n : f[i] = g[i]
<1> DEFINE P == {i \in 1 .. n : f[i] = g[i]}
<1>1. \A i \in 1 .. n : f[i] = IF i = 1 THEN ss[i] ELSE f[i - 1] \o ss[i]
  BY Zenon DEF Flattening
<1>2. \A i \in 1 .. m : g[i] = IF i = 1 THEN tt[i] ELSE g[i - 1] \o tt[i]
  BY Zenon DEF Flattening
<1>3. \A i \in 1 .. n : i \in 1 .. m
  OBVIOUS
<1>4. 1 <= n => 1 \in P
  BY <1>1, <1>2, <1>3
<1>5. ASSUME NEW i \in 1 .. n - 1, i \in P PROVE i + 1 \in P
  <2> DEFINE j == i + 1
  <2>1. j \in 1 .. n /\ j \in 1 .. m /\ j # 1 /\ j - 1 = i
    OBVIOUS
  <2> HIDE DEF j
  <2>2. f[j] = f[i] \o ss[j]
    BY <1>1, <2>1
  <2>3. g[j] = g[i] \o tt[j]
    BY <1>2, <2>1
  <2>4. f[i] = g[i] /\ ss[j] = tt[j]
    BY <1>5, <2>1
  <2> QED BY <2>1, <2>2, <2>3, <2>4 DEF j
<1>6. \A i \in 1 .. n : i \in P
  <2> HIDE DEF P
  <2> QED BY <1>4, <1>5, InductionUpTo
<1> QED BY <1>6

(* FlattenSeq returns a sequence of what its sequences have. *)
LEMMA FlattenSeqType ==
  ASSUME NEW S, NEW ss \in Seq(Seq(S))
  PROVE  FlattenSeq(ss) \in Seq(S)
<1>1. CASE Len(ss) = 0
  <2>1. FlattenSeq(ss) = ss
    BY <1>1 DEF FlattenSeq
  <2>2. ss = <<>>
    BY <1>1, EmptySeq
  <2> QED BY <2>1, <2>2
<1>2. CASE Len(ss) # 0
  <2>1. PICK f : Flattening(f, ss, Len(ss)) /\ FlattenSeq(ss) = f[Len(ss)]
    BY <1>2, FlattenSeqIs
  <2>2. Len(ss) \in 1 .. Len(ss)
    BY <1>2
  <2> QED BY <2>1, <2>2, FlatteningType
<1> QED BY <1>1, <1>2

(* With a sequence more, it returns that much more. *)
LEMMA FlattenSeqAppend ==
  ASSUME NEW S, NEW ss \in Seq(Seq(S)), NEW x \in Seq(S)
  PROVE  FlattenSeq(Append(ss, x)) = FlattenSeq(ss) \o x
<1> DEFINE tt == Append(ss, x)
<1>1. /\ tt \in Seq(Seq(S)) /\ Len(tt) = Len(ss) + 1 /\ Len(ss) \in Nat
      /\ \A i \in 1 .. Len(ss) : tt[i] = ss[i]
      /\ tt[Len(ss) + 1] = x
  BY AppendProperties
<1> HIDE DEF tt
<1>2. Len(tt) # 0 /\ Len(tt) \in 1 .. Len(tt) /\ Len(tt) \in Nat /\ Len(ss) <= Len(tt)
  BY <1>1
<1>3. PICK g : Flattening(g, tt, Len(tt)) /\ FlattenSeq(tt) = g[Len(tt)]
  BY <1>1, <1>2, FlattenSeqIs
<1>4. g[Len(tt)] = IF Len(tt) = 1 THEN tt[Len(tt)] ELSE g[Len(tt) - 1] \o tt[Len(tt)]
  <2>1. \A i \in 1 .. Len(tt) : g[i] = IF i = 1 THEN tt[i] ELSE g[i - 1] \o tt[i]
    BY <1>3, Zenon DEF Flattening
  <2> QED BY <2>1, <1>2
<1>5. CASE Len(ss) = 0
  <2>1. FlattenSeq(ss) = <<>>
    <3>1. FlattenSeq(ss) = ss
      BY <1>5 DEF FlattenSeq
    <3> QED BY <3>1, <1>5, EmptySeq
  <2>2. g[Len(tt)] = x
    BY <1>1, <1>4, <1>5
  <2> QED BY <2>1, <2>2, <1>3, ConcatEmptySeq DEF tt
<1>6. CASE Len(ss) # 0
  <2>1. PICK f : Flattening(f, ss, Len(ss)) /\ FlattenSeq(ss) = f[Len(ss)]
    BY <1>6, FlattenSeqIs
  <2>2. \A i \in 1 .. Len(ss) : ss[i] = tt[i]
    BY <1>1
  <2>3. \A i \in 1 .. Len(ss) : f[i] = g[i]
    <3>1. Len(ss) \in Nat /\ Len(tt) \in Nat /\ Len(ss) <= Len(tt)
      BY <1>1, <1>2
    <3>2. Flattening(f, ss, Len(ss)) /\ Flattening(g, tt, Len(tt))
      BY <2>1, <1>3, Zenon
    <3> DEFINE n == Len(ss)
               m == Len(tt)
    <3>3. n \in Nat /\ m \in Nat /\ n <= m
      BY <2>2, <3>1, <3>2
    <3>4. \A i \in 1 .. n : ss[i] = tt[i]
      BY <2>2
    <3>5. Flattening(f, ss, n)
      BY <3>2
    <3>6. Flattening(g, tt, m)
      BY <3>2
    <3> HIDE DEF n, m
    <3>7. \A i \in 1 .. n : f[i] = g[i]
      BY ONLY <3>3, <3>4, <3>5, <3>6, SameFlattening
    <3> QED BY <3>7 DEF n
  <2>4. f[Len(ss)] = g[Len(ss)] /\ Len(tt) - 1 = Len(ss) /\ Len(tt) # 1
    BY <2>3, <1>1, <1>6
  <2>5. g[Len(tt)] = FlattenSeq(ss) \o x
    BY <2>1, <2>4, <1>1, <1>4
  <2> QED BY <2>5, <1>3 DEF tt
<1> QED BY <1>5, <1>6

(* Of no sequences, nothing is joined. *)
LEMMA FlattenSeqEmpty == FlattenSeq(<<>>) = <<>>
<1>1. Len(<<>>) = 0
  OBVIOUS
<1> QED BY <1>1 DEF FlattenSeq

-----------------------------------------------------------------------------
(* The steps of the preprocessor. *)

(* The text is a text, from lines as well as from characters. *)
LEMMA InitialTexts ==
  ASSUME PreprocessorInit
  PROVE  text \in Text
<1>1. CASE /\ \E n \in 1 .. MaxLines : lines \in [1 .. n -> LineTexts]
           /\ text = FlattenSeq(lines)
  <2>1. PICK n \in 1 .. MaxLines : lines \in [1 .. n -> LineTexts]
    BY <1>1
  <2>2. n \in Nat
    BY ConstantsAssumption
  <2>3. lines \in [1 .. n -> Seq(Characters)]
    BY <2>1, ConstantsAssumption
  <2>4. lines \in Seq(Seq(Characters))
    BY <2>2, <2>3, IsASeq
  <2>5. FlattenSeq(lines) \in Seq(Characters)
    BY <2>4, FlattenSeqType
  <2> QED BY <1>1, <2>5 DEF Text
<1>2. CASE \E n \in 0 .. MaxLength : text \in [1 .. n -> Alphabet]
  <2>1. PICK n \in 0 .. MaxLength : text \in [1 .. n -> Alphabet]
    BY <1>2
  <2>2. n \in Nat
    BY ConstantsAssumption
  <2>3. text \in [1 .. n -> Characters]
    BY <2>1, ConstantsAssumption
  <2>4. text \in Seq(Characters)
    BY <2>2, <2>3, IsASeq
  <2> QED BY <2>4 DEF Text
<1> QED BY <1>1, <1>2 DEF PreprocessorInit

(* The first subtoken of a text does not begin with a %. *)
LEMMA TheFirst ==
  ASSUME NEW t \in Text, NEW m, m = populated(t, Beginning),
         m.type \notin {"Undefined", "EndOfInput"}
  PROVE  m.str[1] # "%"
<1>1. IsSubtoken(t, Beginning) /\ Len(t) \in Nat /\ DOMAIN t = 1 .. Len(t)
  BY TheBeginning DEF Text
<1>2. m = Advanced(t, Beginning)
  BY TheBeginning DEF populated
<1>3. CASE Len(t) = 0
  <2>1. m = Subtoken("EndOfInput", <<>>, Len(t) + 1, TRUE)
    <3>1. Beginning.at = Len(t) + 1
      BY <1>3, TheBeginning
    <3>2. Advanced(t, Beginning)
            = Subtoken("EndOfInput", <<>>, Len(t) + 1, Beginning.potentialDirective)
      BY ONLY t \in Text, <1>1, <3>1, Successors
    <3> QED BY <1>2, <3>2, TheBeginning
  <2> QED BY <2>1 DEF Subtoken
<1>4. CASE Len(t) # 0 /\ t[1] = "%"
  <2>1. IsDirectiveAt(t, 1, m)
    BY <1>1, <1>2, <1>4, Successors, TheBeginning
  <2>2. PICK d \in Directives : m.str = <<d>>
    BY <2>1 DEF IsDirectiveAt
  <2>3. <<d>>[1] = d /\ d # "%"
    BY DirectivesAreLetters
  <2> QED BY <2>2, <2>3
<1>5. CASE Len(t) # 0 /\ t[1] # "%"
  <2>1. IsReadAt(t, 1, m) /\ 1 \in DOMAIN t
    BY <1>1, <1>2, <1>5, Successors, TheBeginning
  <2>2. m.str[1] = t[1]
    BY <2>1, PiecesAreTexts
  <2> QED BY <2>2, <1>5
<1> QED BY <1>3, <1>4, <1>5

(* The invariant of the preprocessor holds at first ... *)
LEMMA InitPreprocessing ==
  ASSUME PreprocessorInit
  PROVE  PreprocessingInv
<1>1. text \in Text
  BY InitialTexts
<1>2. /\ lexer = Beginning /\ branch = "none" /\ active = FALSE /\ output = <<>>
      /\ phase = "preprocessing"
  BY DEF PreprocessorInit
<1>3. IsSubtoken(text, lexer)
  BY <1>1, <1>2, TheBeginning
<1>4. subtoken.type \notin {"Undefined", "EndOfInput"} => subtoken.str[1] # "%"
  <2>1. subtoken = populated(text, Beginning)
    BY <1>2 DEF subtoken
  <2> QED BY <1>1, <2>1, TheFirst
<1>5. Joined({1})
  BY <1>2, <1>4, NoText DEF Joined, Writing
<1> QED BY <1>1, <1>2, <1>3, <1>5, NoText DEF PreprocessingInv

(* ... and is kept by all its steps. *)
LEMMA PreprocessPreserves ==
  ASSUME PreprocessingInv, Preprocess
  PROVE  PreprocessingInv'
BY CopyPreserves, OpenIfPreserves, CopyBranchPreserves, ElsePreserves, EndIfPreserves DEF Preprocess

-----------------------------------------------------------------------------
(* The lexer in a text with boundaries. *)

\* The lexer's subtoken s is what is read at i, or the end, in a text with no directive.
StandsAt(t, B, i, s) ==
  /\ i \in B /\ s.at \in B
  /\ s.potentialDirective \in BOOLEAN
  /\ s.potentialDirective => At(t, s.at) # "%"
  /\ IF i = Len(t) + 1 THEN s.type = "EndOfInput" /\ s.str = <<>> /\ s.at = i
     ELSE IsReadAt(t, i, s)

(* From a boundary, the lexer reads to the next one. *)
LEMMA FromABoundary ==
  ASSUME NEW t \in Text, NEW B, Boundaries(t, B), NEW i \in B, NEW p \in BOOLEAN,
         p => At(t, i) # "%"
  PROVE  StandsAt(t, B, i, advance(t, i, p))
<1> DEFINE n == advance(t, i, p)
<1>1. B \subseteq 1 .. Len(t) + 1 /\ Len(t) \in Nat /\ i \in 1 .. Len(t) + 1
      /\ DOMAIN t = 1 .. Len(t)
  BY DEF Boundaries, Text
<1>2. CASE i = Len(t) + 1
  <2>1. At(t, i) = "eof"
    BY <1>1, <1>2 DEF At
  <2>2. n = Subtoken("EndOfInput", <<>>, i, p)
    BY <2>1, TheCharacters DEF advance
  <2> QED BY <1>2, <2>1, <2>2 DEF StandsAt, Subtoken
<1>3. CASE i # Len(t) + 1
  <2>1. i \in DOMAIN t /\ At(t, i) = t[i]
    BY <1>1, <1>3 DEF At
  <2>2. IsReadAt(t, i, n)
    BY <2>1, Advancing
  <2> HIDE DEF n
  <2>3. PICK j \in B, type \in Types : /\ Piece(t, i, j, type)
                                       /\ Ends(t, i, j, type, At(t, j))
                                       /\ type = "Newline" => At(t, j) # "%"
    BY <1>3 DEF Boundaries
  <2>4. n.at = j /\ n.type = type
    BY <2>1, <2>2, <2>3, OneReading DEF IsReadAt
  <2> QED BY <1>3, <2>2, <2>3, <2>4 DEF StandsAt, IsReadAt, n
<1> QED BY <1>2, <1>3

(* What it means to stand somewhere: at the end of the text, or in front of a piece. *)
LEMMA StandingTypes ==
  ASSUME NEW t \in Text, NEW B, Boundaries(t, B), NEW i, NEW s, StandsAt(t, B, i, s)
  PROVE  /\ i \in 1 .. Len(t) + 1 /\ s.at \in i .. Len(t) + 1
         /\ Len(t) \in Nat /\ DOMAIN t = 1 .. Len(t)
         /\ s.str \in Text /\ Len(s.str) = s.at - i /\ s.str = SubSeq(t, i, s.at - 1)
         /\ s.type \in Types \cup {"EndOfInput"}
         /\ s.type = "EndOfInput" <=> i = Len(t) + 1
         /\ s.type # "EndOfInput" =>
              /\ IsReadAt(t, i, s) /\ i \in DOMAIN t /\ s.str[1] = t[i] /\ i < s.at
              /\ At(t, i) = t[i]
         /\ s.type = "EndOfInput" => At(t, i) = "eof" /\ s.str = <<>> /\ s.at = i
<1>1. i \in 1 .. Len(t) + 1 /\ Len(t) \in Nat /\ DOMAIN t = 1 .. Len(t)
  BY DEF StandsAt, Boundaries, Text
<1>2. CASE i = Len(t) + 1
  <2>1. s.type = "EndOfInput" /\ s.str = <<>> /\ s.at = i
    BY <1>2 DEF StandsAt
  <2>2. SubSeq(t, i, i - 1) \in Seq(Characters) /\ Len(SubSeq(t, i, i - 1)) = 0
    <3>1. i \in i .. Len(t) + 1
      BY <1>1
    <3> QED BY <1>1, <3>1, Cut DEF Text
  <2>3. SubSeq(t, i, i - 1) = <<>>
    BY <2>2
  <2>4. <<>> \in Text /\ Len(<<>>) = 0
    BY NoText
  <2>5. s.str \in Text /\ Len(s.str) = s.at - i /\ s.str = SubSeq(t, i, s.at - 1)
    BY <1>1, <2>1, <2>3, <2>4
  <2> QED BY <1>1, <1>2, <2>1, <2>5 DEF At
<1>3. CASE i # Len(t) + 1
  <2>1. IsReadAt(t, i, s) /\ i \in DOMAIN t
    BY <1>1, <1>3 DEF StandsAt
  <2>2. /\ s.str \in Text /\ Len(s.str) = s.at - i
        /\ s.str[1] = t[i] /\ s.str = SubSeq(t, i, s.at - 1)
        /\ s.type \in Types
        /\ s.at \in i + 1 .. Len(t) + 1
    BY <2>1, PiecesAreTexts
  <2>3. s.type # "EndOfInput" /\ s.at \in i .. Len(t) + 1 /\ i < s.at /\ At(t, i) = t[i]
    BY <1>1, <2>1, <2>2 DEF Types, At
  <2> QED BY <1>1, <1>3, <2>1, <2>2, <2>3
<1> QED BY <1>2, <1>3

(* What follows a subtoken stands behind it. *)
LEMMA Onward ==
  ASSUME NEW t \in Text, NEW B, Boundaries(t, B), NEW i, NEW s, StandsAt(t, B, i, s)
  PROVE  /\ populated(t, s) = s
         /\ StandsAt(t, B, s.at, next(t, s))
         /\ next(t, s) = Advanced(t, s)
<1>1. s.type # "Undefined"
  BY StandingTypes DEF Types
<1>2. populated(t, s) = s /\ next(t, s) = advance(t, s.at, s.potentialDirective)
  BY <1>1 DEF populated, next, Advanced
<1>3. StandsAt(t, B, s.at, advance(t, s.at, s.potentialDirective))
  <2>1. /\ s.at \in B /\ s.potentialDirective \in BOOLEAN
        /\ s.potentialDirective => At(t, s.at) # "%"
    BY DEF StandsAt
  <2> QED BY <2>1, FromABoundary
<1> QED BY <1>2, <1>3 DEF Advanced

(* The first subtoken stands at the beginning. *)
LEMMA FromTheBeginning ==
  ASSUME NEW t \in Text, NEW B, Boundaries(t, B)
  PROVE  StandsAt(t, B, 1, populated(t, Beginning))
<1>1. 1 \in B /\ At(t, 1) # "%"
  BY DEF Boundaries
<1>2. populated(t, Beginning) = advance(t, 1, TRUE)
  BY TheBeginning DEF populated, Advanced
<1> QED BY <1>1, <1>2, FromABoundary

(* Behind a comment there is the end of its line, or of the text. *)
LEMMA BehindAComment ==
  ASSUME NEW t \in Text, NEW B, Boundaries(t, B), NEW i, NEW s, StandsAt(t, B, i, s),
         s.type = "Comment", NEW n, StandsAt(t, B, s.at, n)
  PROVE  n.type \in {"Newline", "EndOfInput"}
<1>1. At(t, s.at) \in {"\n", "eof"}
  BY StandingTypes DEF IsReadAt, Ends
<1>2. CASE n.type # "EndOfInput"
  <2>1. IsReadAt(t, s.at, n) /\ t[s.at] = "\n" /\ s.at < n.at /\ n.at \in Int /\ s.at \in Int
    <3>1. n.at \in s.at .. Len(t) + 1 /\ s.at \in 1 .. Len(t) + 1 /\ Len(t) \in Nat
      BY StandingTypes
    <3>2. IsReadAt(t, s.at, n) /\ s.at < n.at /\ At(t, s.at) = t[s.at] /\ s.at \in DOMAIN t
      BY <1>2, StandingTypes
    <3>3. t[s.at] # "eof"
      BY <3>2, ElementOfSeq, TheCharacters DEF Text
    <3> QED BY <1>1, <3>1, <3>2, <3>3
  <2>2. s.at \in s.at .. n.at - 1
    BY <2>1
  <2> QED BY <2>1, <2>2, TheCharacters DEF IsReadAt, Piece, Alnum
<1> QED BY <1>2

-----------------------------------------------------------------------------
(* The operators. *)

(* The operators: of what they are made, and that they are made one by one. *)
LEMMA TheOperators ==
  /\ \A o \in LongOperators :
       \/ /\ Len(o) = 1 /\ o = <<o[1]>> /\ o[1] \in Punctuation
       \/ /\ Len(o) = 2 /\ o = <<o[1], o[2]>> /\ {o[1], o[2]} \subseteq Punctuation
          /\ <<o[1]>> \in LongOperators
       \/ /\ Len(o) = 3 /\ o = <<o[1], o[2], o[3]>> /\ {o[1], o[2], o[3]} \subseteq Punctuation
          /\ {<<o[1]>>, <<o[1], o[2]>>} \subseteq LongOperators
  /\ SingleOperators \subseteq Punctuation
  /\ \A c \in Punctuation \ {"@"} : <<c>> \in Operators
  /\ "@" \notin SingleOperators
  /\ \A o \in LongOperators : o[1] # "@"
<1> DEFINE Signs == {"-", "=", ">", "+", "%", "/", "*", "<", "!", "&", "|", "^"}
<1>1. /\ SingleOperators \subseteq Punctuation /\ "@" \notin SingleOperators
      /\ Signs \subseteq Punctuation
  BY Zenon DEF SingleOperators, Punctuation
<1>2. \A c \in Punctuation \ {"@"} : <<c>> \in Operators
  BY Zenon DEF SingleOperators, LongOperators, Operators, Punctuation
<1>3. \A o \in LongOperators : Len(o) \in 1 .. 3 /\ o[1] # "@"
  BY DEF LongOperators
<1>4. \A o \in LongOperators : Len(o) = 1 => o = <<o[1]>> /\ o[1] \in Signs
  BY DEF LongOperators
<1>5. \A o \in LongOperators : Len(o) = 2 =>
        o = <<o[1], o[2]>> /\ o[1] \in Signs /\ o[2] \in Signs /\ <<o[1]>> \in LongOperators
  BY DEF LongOperators
<1>6. \A o \in LongOperators : Len(o) = 3 => o[1] \in Signs /\ o[2] \in Signs
  BY DEF LongOperators
<1>9. \A o \in LongOperators : Len(o) = 3 => o[3] \in Signs
  <2> DEFINE Three == {<<"=", "=", "=">>, <<"<", "=", ">">>, <<"<", "<", "=">>, <<">", ">", "=">>,
                       <<"&", "&", "=">>, <<"|", "|", "=">>}
  <2>1. \A o \in LongOperators : o \in Three \/ Len(o) = 1 \/ Len(o) = 2
    BY DEF LongOperators
  <2>2. \A o \in Three : o[3] = "=" \/ o[3] = ">"
    OBVIOUS
  <2> HIDE DEF Three
  <2> QED BY <2>1, <2>2
<1>8. \A o \in LongOperators : Len(o) = 3 => o = <<o[1], o[2], o[3]>>
  BY DEF LongOperators
<1>7. \A o \in LongOperators : Len(o) = 3 =>
        <<o[1]>> \in LongOperators /\ <<o[1], o[2]>> \in LongOperators
  BY DEF LongOperators
<1> HIDE DEF Signs
<1> QED BY <1>1, <1>2, <1>3, <1>4, <1>5, <1>6, <1>7, <1>8, <1>9

(* What begins an operator is an operator. *)
LEMMA OperatorsAreClosed ==
  /\ \A o \in Operators : o \in Seq(Punctuation) /\ Len(o) \in 1 .. 3 /\ o[1] # "@"
  /\ \A o \in Operators : \A m \in 1 .. Len(o) - 1 : SubSeq(o, 1, m) \in Operators
  /\ \A c \in Punctuation \ {"@"} : <<c>> \in Operators
<1>1. ASSUME NEW c \in SingleOperators
      PROVE  <<c>> \in Seq(Punctuation) /\ Len(<<c>>) = 1 /\ <<c>>[1] # "@"
  BY TheOperators
<1>2. ASSUME NEW o \in LongOperators
      PROVE  /\ o \in Seq(Punctuation) /\ Len(o) \in 1 .. 3 /\ o[1] # "@"
             /\ \A m \in 1 .. Len(o) - 1 : SubSeq(o, 1, m) \in LongOperators
  <2> DEFINE a == o[1]
             b == o[2]
             c == o[3]
  <2>1. \/ Len(o) = 1 /\ o = <<a>> /\ a \in Punctuation
        \/ /\ Len(o) = 2 /\ o = <<a, b>> /\ {a, b} \subseteq Punctuation
           /\ <<a>> \in LongOperators
        \/ /\ Len(o) = 3 /\ o = <<a, b, c>> /\ {a, b, c} \subseteq Punctuation
           /\ {<<a>>, <<a, b>>} \subseteq LongOperators
    BY TheOperators
  <2>2. a # "@" /\ o[1] = a
    BY TheOperators
  <2> HIDE DEF a, b, c
  <2>3. CASE Len(o) = 1 /\ o = <<a>> /\ a \in Punctuation
    BY <2>2, <2>3
  <2>4. CASE Len(o) = 2 /\ o = <<a, b>> /\ {a, b} \subseteq Punctuation /\ <<a>> \in LongOperators
    <3>1. o \in Seq(Punctuation)
      BY <2>4
    <3>2. 1 \in 1 .. Len(o) /\ \A m \in 1 .. Len(o) - 1 : m = 1
      BY <2>4
    <3>3. SubSeq(o, 1, 1) = <<a>>
      BY <2>2, <3>1, <3>2, CutOne
    <3>4. \A m \in 1 .. Len(o) - 1 : SubSeq(o, 1, m) \in LongOperators
      BY <2>4, <3>2, <3>3
    <3> QED BY <2>2, <2>4, <3>1, <3>4
  <2>5. CASE /\ Len(o) = 3 /\ o = <<a, b, c>> /\ {a, b, c} \subseteq Punctuation
             /\ {<<a>>, <<a, b>>} \subseteq LongOperators
    <3>1. o \in Seq(Punctuation)
      BY <2>5
    <3>2. SubSeq(o, 1, 1) = <<a>>
      <4>1. 1 \in 1 .. Len(o)
        BY <2>5
      <4> QED BY <2>2, <3>1, <4>1, CutOne
    <3>3. SubSeq(o, 1, 2) = <<a, b>>
      <4> DEFINE w == SubSeq(o, 1, 3 - 1)
      <4>1. 1 \in 1 .. Len(o) + 1 /\ 3 \in 1 .. Len(o) + 1
        BY <2>5
      <4>2. /\ w \in Seq(Punctuation) /\ Len(w) = 3 - 1
            /\ \A k \in 1 .. 3 - 1 : w[k] = o[1 + k - 1]
        BY <3>1, <4>1, Cut
      <4>3. w = SubSeq(o, 1, 2)
        OBVIOUS
      <4> HIDE DEF w
      <4>4. w[1] = a /\ w[2] = b /\ Len(w) = 2
        BY <4>2, <2>5
      <4>5. <<a, b>> \in Seq(Punctuation)
        BY <2>5
      <4>6. w = <<a, b>>
        BY <4>2, <4>4, <4>5, SeqEqual
      <4> QED BY <4>3, <4>6
    <3>4. \A m \in 1 .. Len(o) - 1 : m = 1 \/ m = 2
      BY <2>5
    <3>5. \A m \in 1 .. Len(o) - 1 : SubSeq(o, 1, m) \in LongOperators
      BY <2>5, <3>2, <3>3, <3>4
    <3> QED BY <2>2, <2>5, <3>1, <3>5
  <2> QED BY <2>1, <2>3, <2>4, <2>5
<1>4. \A o \in Operators : o \in LongOperators \/ \E c \in SingleOperators : o = <<c>>
  BY Zenon DEF Operators
<1>5. \A o \in Operators : o \in Seq(Punctuation) /\ Len(o) \in 1 .. 3 /\ o[1] # "@"
  <2> TAKE o \in Operators
  <2>1. CASE \E c \in SingleOperators : o = <<c>>
    BY <1>1, <2>1
  <2>2. CASE o \in LongOperators
    BY <1>2, <2>2
  <2> QED BY <2>1, <2>2, <1>4
<1>6. \A o \in Operators : \A m \in 1 .. Len(o) - 1 : SubSeq(o, 1, m) \in Operators
  <2> TAKE o \in Operators
  <2> TAKE m \in 1 .. Len(o) - 1
  <2>1. o \in LongOperators
    <3>1. Len(o) # 1
      <4>1. \A n \in 1 .. 3 : m \in 1 .. n - 1 => n # 1
        OBVIOUS
      <4>2. Len(o) \in 1 .. 3
        BY <1>5
      <4> QED BY <4>1, <4>2, Zenon
    <3>2. \A c \in SingleOperators : Len(<<c>>) = 1
      OBVIOUS
    <3> QED BY <3>1, <3>2, <1>4
  <2>2. SubSeq(o, 1, m) \in LongOperators
    BY <2>1, <1>2
  <2> QED BY <2>2 DEF Operators
<1> QED BY <1>5, <1>6, TheOperators

(* Two parts of a text that are neighbours are one part. *)
LEMMA Joining ==
  ASSUME NEW S, NEW t \in Seq(S), NEW i \in 1 .. Len(t) + 1, NEW j \in i .. Len(t) + 1,
         NEW m \in j .. Len(t) + 1
  PROVE  SubSeq(t, i, j - 1) \o SubSeq(t, j, m - 1) = SubSeq(t, i, m - 1)
<1> DEFINE a == SubSeq(t, i, j - 1)
           b == SubSeq(t, j, m - 1)
           c == SubSeq(t, i, m - 1)
<1>1. j \in 1 .. Len(t) + 1 /\ m \in i .. Len(t) + 1 /\ Len(t) \in Nat
  OBVIOUS
<1>2. a \in Seq(S) /\ Len(a) = j - i /\ \A k \in 1 .. j - i : a[k] = t[i + k - 1]
  BY Cut
<1>3. b \in Seq(S) /\ Len(b) = m - j /\ \A k \in 1 .. m - j : b[k] = t[j + k - 1]
  BY <1>1, Cut
<1>4. c \in Seq(S) /\ Len(c) = m - i /\ \A k \in 1 .. m - i : c[k] = t[i + k - 1]
  BY <1>1, Cut
<1> HIDE DEF a, b, c
<1>5. /\ a \o b \in Seq(S) /\ Len(a \o b) = Len(a) + Len(b)
      /\ \A k \in 1 .. Len(a) + Len(b) : (a \o b)[k] = IF k <= Len(a) THEN a[k] ELSE b[k - Len(a)]
  BY <1>2, <1>3, ConcatProperties
<1>6. Len(a \o b) = Len(c)
  BY <1>1, <1>2, <1>3, <1>4, <1>5
<1>7. ASSUME NEW k \in 1 .. Len(a \o b) PROVE (a \o b)[k] = c[k]
  <2>1. k \in 1 .. m - i /\ c[k] = t[i + k - 1]
    BY <1>1, <1>2, <1>3, <1>4, <1>5
  <2>2. CASE k <= j - i
    BY <1>1, <1>2, <1>3, <1>5, <2>1, <2>2
  <2>3. CASE ~(k <= j - i)
    <3>1. k - (j - i) \in 1 .. m - j /\ j + (k - (j - i)) - 1 = i + k - 1
      BY <1>1, <2>1, <2>3
    <3>2. b[k - (j - i)] = t[j + (k - (j - i)) - 1]
      BY <1>3, <3>1
    <3> QED BY <1>1, <1>2, <1>3, <1>5, <2>1, <2>3, <3>1, <3>2
  <2> QED BY <2>2, <2>3
<1>8. a \o b = c
  BY <1>4, <1>5, <1>6, <1>7, SeqEqual
<1> QED BY <1>8 DEF a, b, c

-----------------------------------------------------------------------------
(* Tokens of a text. *)

\* Tokens that are one subtoken, whatever is in it.
Spans == {"String", "Character", "Newline", "Whitespace"}

\* What is in t from i to e is a token, when c follows it.
TokenAt(t, i, e, type, c) ==
  /\ i \in DOMAIN t /\ e \in i + 1 .. Len(t) + 1
  /\ \/ type \in Spans /\ Piece(t, i, e, type) /\ Ends(t, i, e, type, c)
     \/ /\ type = WordType(SubSeq(t, i, e - 1))
        /\ Piece(t, i, e, "Word") /\ Ends(t, i, e, "Word", c)
     \/ type = "Integer" /\ Piece(t, i, e, "Number") /\ Ends(t, i, e, "Number", c) /\ c # "."
     \/ type = "Real" /\ \E m \in i + 1 .. e - 2 :
          /\ Piece(t, i, m, "Number") /\ t[m] = "."
          /\ Piece(t, m + 1, e, "Number") /\ Ends(t, m + 1, e, "Number", c)
     \/ /\ type = "Operator"
        /\ SubSeq(t, i, e - 1) \in Operators /\ Append(SubSeq(t, i, e - 1), c) \notin Operators
     \/ type \in Annotations /\ t[i] = "@" /\ e = i + 2 /\ t[i + 1] = type /\ c \notin Alnum

(* What is a number, and is followed by a point, ends there. *)
LEMMA NumbersEndAtPoints ==
  ASSUME NEW t, NEW i, NEW m
  PROVE  Ends(t, i, m, "Number", ".")
BY TheCharacters DEF Ends, Alnum, Letters, Digits

(* The types of words are not those of numbers and operators. *)
LEMMA TokenTypes ==
  /\ \A s : WordType(s) \notin {"Integer", "Real", "Operator"}
  /\ Annotations = {"const"}
  /\ "const" \in Letters
<1>1. ASSUME NEW s PROVE WordType(s) \notin {"Integer", "Real", "Operator"}
  <2>1. CASE s[1] = "0" /\ s[2] = "x"
    BY <2>1 DEF WordType
  <2>2. CASE ~(s[1] = "0" /\ s[2] = "x") /\ \E k \in Keywords : s = <<k>>
    <3>1. WordType(s) = s[1]
      BY <2>2, Zenon DEF WordType
    <3> QED BY <2>2, <3>1 DEF Keywords
  <2>3. CASE ~(s[1] = "0" /\ s[2] = "x") /\ ~ \E k \in Keywords : s = <<k>>
    BY <2>3 DEF WordType
  <2> QED BY <2>1, <2>2, <2>3
<1>2. Annotations = {"const"} /\ "const" \in Letters
  BY Zenon DEF Annotations, Letters
<1> QED BY <1>1, <1>2

(* A beginning of a part is a part. *)
LEMMA CutTwice ==
  ASSUME NEW S, NEW t \in Seq(S), NEW i \in 1 .. Len(t) + 1, NEW j \in i .. Len(t) + 1,
         NEW m \in 0 .. j - i
  PROVE  SubSeq(SubSeq(t, i, j - 1), 1, m) = SubSeq(t, i, i + m - 1)
<1> DEFINE w == SubSeq(t, i, j - 1)
           e == i + m
           n == m + 1
<1>1. w \in Seq(S) /\ Len(w) = j - i /\ \A k \in 1 .. j - i : w[k] = t[i + k - 1]
  BY Cut
<1>2. /\ e \in i .. Len(t) + 1 /\ e - i = m
      /\ n \in 1 .. j - i + 1 /\ n - 1 = m /\ 1 \in 1 .. j - i + 1
      /\ m \in Nat /\ i \in Nat /\ j \in Nat
  OBVIOUS
<1> HIDE DEF w, e, n
<1>3. /\ SubSeq(t, i, e - 1) \in Seq(S) /\ Len(SubSeq(t, i, e - 1)) = m
      /\ \A k \in 1 .. m : SubSeq(t, i, e - 1)[k] = t[i + k - 1]
  BY <1>2, Cut
<1>4. /\ SubSeq(w, 1, m) \in Seq(S) /\ Len(SubSeq(w, 1, m)) = m
      /\ \A k \in 1 .. m : SubSeq(w, 1, m)[k] = w[1 + k - 1]
  <2>1. 1 \in 1 .. Len(w) + 1 /\ n \in 1 .. Len(w) + 1
    BY <1>1, <1>2
  <2>2. /\ SubSeq(w, 1, n - 1) \in Seq(S) /\ Len(SubSeq(w, 1, n - 1)) = n - 1
        /\ \A k \in 1 .. n - 1 : SubSeq(w, 1, n - 1)[k] = w[1 + k - 1]
    BY <1>1, <2>1, Cut
  <2> QED BY <2>2, <1>2
<1>5. ASSUME NEW k \in 1 .. m PROVE SubSeq(w, 1, m)[k] = SubSeq(t, i, e - 1)[k]
  <2>1. 1 + k - 1 = k /\ k \in 1 .. j - i
    BY <1>2
  <2> QED BY <2>1, <1>1, <1>3, <1>4
<1>6. SubSeq(w, 1, m) = SubSeq(t, i, e - 1)
  BY <1>3, <1>4, <1>5, SeqEqual
<1> QED BY <1>6 DEF w, e

(* A part, one element longer. *)
LEMMA Longer ==
  ASSUME NEW S, NEW t \in Seq(S), NEW i \in 1 .. Len(t) + 1, NEW e \in i .. Len(t)
  PROVE  Append(SubSeq(t, i, e - 1), t[e]) = SubSeq(t, i, e)
<1> DEFINE w == SubSeq(t, i, e - 1)
           n == e + 1
           u == SubSeq(t, i, n - 1)
<1>1. e \in i .. Len(t) + 1 /\ n \in i .. Len(t) + 1 /\ n - 1 = e /\ e \in 1 .. Len(t) /\ i \in Nat
      /\ e \in Nat /\ n - i = e - i + 1
  OBVIOUS
<1>2. w \in Seq(S) /\ Len(w) = e - i /\ \A k \in 1 .. e - i : w[k] = t[i + k - 1]
  BY <1>1, Cut
<1>3. u \in Seq(S) /\ Len(u) = n - i /\ \A k \in 1 .. n - i : u[k] = t[i + k - 1]
  BY <1>1, Cut
<1>4. t[e] \in S
  BY <1>1, ElementOfSeq
<1> HIDE DEF w, n, u
<1>5. /\ Append(w, t[e]) \in Seq(S) /\ Len(Append(w, t[e])) = Len(w) + 1
      /\ \A k \in 1 .. Len(w) : Append(w, t[e])[k] = w[k]
      /\ Append(w, t[e])[Len(w) + 1] = t[e]
  BY <1>2, <1>4, AppendProperties
<1>6. ASSUME NEW k \in 1 .. Len(Append(w, t[e])) PROVE Append(w, t[e])[k] = u[k]
  <2>1. CASE k = e - i + 1
    <3>1. i + k - 1 = e /\ k \in 1 .. n - i
      BY <1>1, <2>1
    <3> QED BY <3>1, <2>1, <1>2, <1>3, <1>5
  <2>2. CASE k # e - i + 1
    <3>1. k \in 1 .. e - i /\ k \in 1 .. n - i
      BY <1>1, <1>2, <1>5, <2>2
    <3> QED BY <3>1, <1>2, <1>3, <1>5
  <2> QED BY <2>1, <2>2
<1>7. Append(w, t[e]) = u
  BY <1>1, <1>2, <1>3, <1>5, <1>6, SeqEqual
<1> QED BY <1>1, <1>7 DEF w, u

(* Where there is a longer operator, the next character makes an operator. *)
LEMMA LongerOperators ==
  ASSUME NEW t \in Text, NEW i \in DOMAIN t, NEW e \in i .. Len(t), NEW n \in i .. Len(t) + 1,
         e < n, SubSeq(t, i, n - 1) \in Operators
  PROVE  Append(SubSeq(t, i, e - 1), At(t, e)) \in Operators
<1>1. i \in 1 .. Len(t) + 1 /\ e \in DOMAIN t /\ Len(t) \in Nat /\ i \in Nat /\ e \in Nat
  BY DEF Text
<1>2. Append(SubSeq(t, i, e - 1), At(t, e)) = SubSeq(t, i, e)
  BY <1>1, Longer DEF At, Text
<1> DEFINE m == e - i + 1
           w == SubSeq(t, i, n - 1)
<1>3. m \in 0 .. n - i /\ m \in Nat /\ 1 <= m /\ i + m - 1 = e
  BY <1>1
<1>4. Len(w) = n - i
  BY <1>1, Cut DEF Text
<1>5. SubSeq(w, 1, m) = SubSeq(t, i, e)
  <2> HIDE DEF m
  <2>1. SubSeq(w, 1, m) = SubSeq(t, i, i + m - 1)
    BY <1>1, <1>3, CutTwice DEF Text
  <2> QED BY <2>1, <1>3
<1> HIDE DEF m, w
<1>6. CASE m = n - i
  <2>1. e = n - 1
    BY <1>1, <1>6 DEF m
  <2> QED BY <2>1, <1>2
<1>7. CASE m # n - i
  <2>1. m \in 1 .. Len(w) - 1
    BY <1>1, <1>3, <1>4, <1>7
  <2>2. SubSeq(w, 1, m) \in Operators
    BY <2>1, OperatorsAreClosed DEF w
  <2> QED BY <2>2, <1>2, <1>5
<1> QED BY <1>6, <1>7

\* What is from i to e is a token of a type, and its first subtoken is from i to m, of type p.
FirstOf(t, i, e, type, m, p) ==
  /\ Piece(t, i, m, p) /\ Ends(t, i, m, p, At(t, m))
  /\ \/ p \in Spans /\ m = e /\ type = p
     \/ p = "Word" /\ m = e /\ type = WordType(SubSeq(t, i, e - 1))
     \/ p = "Number" /\ m = e /\ type = "Integer" /\ At(t, e) # "."
     \/ /\ p = "Number" /\ type = "Real" /\ At(t, m) = "." /\ m + 1 \in DOMAIN t
        /\ Piece(t, m + 1, e, "Number") /\ Ends(t, m + 1, e, "Number", At(t, e))
     \/ /\ p = "Punctuation" /\ t[i] # "@" /\ type = "Operator"
        /\ SubSeq(t, i, e - 1) \in Operators
        /\ Append(SubSeq(t, i, e - 1), At(t, e)) \notin Operators
     \/ /\ p = "Punctuation" /\ t[i] = "@" /\ type \in Annotations /\ e = i + 2
        /\ t[i + 1] = type /\ At(t, e) \notin Alnum

(* Every token has a first subtoken. *)
LEMMA FirstSubtoken ==
  ASSUME NEW t \in Text, NEW i, NEW e, NEW type, TokenAt(t, i, e, type, At(t, e))
  PROVE  \E m, p : FirstOf(t, i, e, type, m, p)
<1> DEFINE c == At(t, e)
           w == SubSeq(t, i, e - 1)
<1>1. i \in 1 .. Len(t) /\ e \in i + 1 .. Len(t) + 1 /\ Len(t) \in Nat /\ DOMAIN t = 1 .. Len(t)
  BY DEF TokenAt, Text
<1>2. CASE type \in Spans /\ Piece(t, i, e, type) /\ Ends(t, i, e, type, c)
  BY <1>2 DEF FirstOf
<1>3. CASE type = WordType(w) /\ Piece(t, i, e, "Word") /\ Ends(t, i, e, "Word", c)
  BY <1>3 DEF FirstOf
<1>4. CASE type = "Integer" /\ Piece(t, i, e, "Number") /\ Ends(t, i, e, "Number", c) /\ c # "."
  BY <1>4 DEF FirstOf
<1>5. CASE type = "Real" /\ \E m \in i + 1 .. e - 2 :
             /\ Piece(t, i, m, "Number") /\ t[m] = "."
             /\ Piece(t, m + 1, e, "Number") /\ Ends(t, m + 1, e, "Number", c)
  <2>1. PICK m \in i + 1 .. e - 2 :
             /\ Piece(t, i, m, "Number") /\ t[m] = "."
             /\ Piece(t, m + 1, e, "Number") /\ Ends(t, m + 1, e, "Number", c)
    BY <1>5
  <2>2. m \in DOMAIN t /\ m + 1 \in DOMAIN t
    BY <1>1
  <2>3. At(t, m) = "."
    BY <2>1, <2>2 DEF At
  <2>4. FirstOf(t, i, e, type, m, "Number")
    BY <1>5, <2>1, <2>2, <2>3, NumbersEndAtPoints DEF FirstOf
  <2> QED BY <2>4
<1>6. CASE type = "Operator" /\ w \in Operators /\ Append(w, c) \notin Operators
  <2>1. Len(w) = e - i /\ w[1] = t[i]
    <3>1. i \in 1 .. Len(t) + 1 /\ e \in i .. Len(t) + 1 /\ 1 \in 1 .. e - i /\ i + 1 - 1 = i
      BY <1>1
    <3> QED BY <3>1, Cut DEF Text
  <2>2. t[i] \in Punctuation /\ t[i] # "@"
    <3>1. w \in Seq(Punctuation) /\ w[1] # "@"
      BY <1>6, OperatorsAreClosed
    <3>2. 1 \in 1 .. Len(w)
      BY <1>1, <2>1
    <3>3. w[1] \in Punctuation
      BY <3>1, <3>2, ElementOfSeq
    <3> QED BY <2>1, <3>1, <3>3
  <2>3. Piece(t, i, i + 1, "Punctuation") /\ Ends(t, i, i + 1, "Punctuation", At(t, i + 1))
    BY <1>1, <2>2 DEF Piece, Ends
  <2>4. FirstOf(t, i, e, type, i + 1, "Punctuation")
    BY <1>6, <2>2, <2>3 DEF FirstOf
  <2> QED BY <2>4
<1>7. CASE type \in Annotations /\ t[i] = "@" /\ e = i + 2 /\ t[i + 1] = type /\ c \notin Alnum
  <2>1. "@" \in Punctuation
    BY Zenon DEF Punctuation
  <2>2. Piece(t, i, i + 1, "Punctuation") /\ Ends(t, i, i + 1, "Punctuation", At(t, i + 1))
    BY <1>1, <1>7, <2>1 DEF Piece, Ends
  <2>3. FirstOf(t, i, e, type, i + 1, "Punctuation")
    BY <1>7, <2>2 DEF FirstOf
  <2> QED BY <2>3
<1> QED BY <1>2, <1>3, <1>4, <1>5, <1>6, <1>7 DEF TokenAt

(* At a place of a text there is one token at most. *)
LEMMA OneToken ==
  ASSUME NEW t \in Text, NEW i, NEW e, NEW n, NEW type, NEW kind,
         TokenAt(t, i, e, type, At(t, e)), TokenAt(t, i, n, kind, At(t, n))
  PROVE  e = n /\ type = kind
<1>1. /\ i \in 1 .. Len(t) /\ e \in i + 1 .. Len(t) + 1 /\ n \in i + 1 .. Len(t) + 1
      /\ Len(t) \in Nat /\ DOMAIN t = 1 .. Len(t)
  BY DEF TokenAt, Text
<1>2. PICK m, p : FirstOf(t, i, e, type, m, p)
  BY FirstSubtoken
<1>3. PICK j, q : FirstOf(t, i, n, kind, j, q)
  BY FirstSubtoken
<1>4. m = j /\ p = q
  <2>1. /\ Piece(t, i, m, p) /\ Ends(t, i, m, p, At(t, m))
        /\ Piece(t, i, j, q) /\ Ends(t, i, j, q, At(t, j))
    BY <1>2, <1>3 DEF FirstOf
  <2> QED BY <1>1, <2>1, OneReading
<1>5. FirstOf(t, i, n, kind, m, p)
  BY <1>3, <1>4
<1>6. CASE p \in Spans
  BY <1>2, <1>5, <1>6 DEF FirstOf, Spans
<1>7. CASE p = "Word"
  BY <1>2, <1>5, <1>7 DEF FirstOf, Spans
<1>8. CASE p = "Number"
  <2>1. \/ m = e /\ type = "Integer" /\ At(t, m) # "."
        \/ /\ type = "Real" /\ At(t, m) = "." /\ m + 1 \in DOMAIN t
           /\ Piece(t, m + 1, e, "Number") /\ Ends(t, m + 1, e, "Number", At(t, e))
    BY <1>2, <1>8 DEF FirstOf, Spans
  <2>2. \/ m = n /\ kind = "Integer" /\ At(t, m) # "."
        \/ /\ kind = "Real" /\ At(t, m) = "." /\ m + 1 \in DOMAIN t
           /\ Piece(t, m + 1, n, "Number") /\ Ends(t, m + 1, n, "Number", At(t, n))
    BY <1>5, <1>8 DEF FirstOf, Spans
  <2>3. CASE At(t, m) = "."
    BY <2>1, <2>2, <2>3, OneReading
  <2> QED BY <2>1, <2>2, <2>3
<1>9. CASE p = "Punctuation" /\ t[i] = "@"
  BY <1>2, <1>5, <1>9, TokenTypes DEF FirstOf, Spans
<1>10. CASE p = "Punctuation" /\ t[i] # "@"
  <2>1. /\ type = "Operator" /\ SubSeq(t, i, e - 1) \in Operators
        /\ Append(SubSeq(t, i, e - 1), At(t, e)) \notin Operators
    BY <1>2, <1>10 DEF FirstOf, Spans
  <2>2. /\ kind = "Operator" /\ SubSeq(t, i, n - 1) \in Operators
        /\ Append(SubSeq(t, i, n - 1), At(t, n)) \notin Operators
    BY <1>5, <1>10 DEF FirstOf, Spans
  <2>3. ~(e < n)
    <3>1. e < n => e \in i .. Len(t) /\ n \in i .. Len(t) + 1
      BY <1>1
    <3> QED BY <1>1, <2>1, <2>2, <3>1, LongerOperators
  <2>4. ~(n < e)
    <3>1. n < e => n \in i .. Len(t) /\ e \in i .. Len(t) + 1
      BY <1>1
    <3> QED BY <1>1, <2>1, <2>2, <3>1, LongerOperators
  <2> QED BY <1>1, <2>1, <2>2, <2>3, <2>4
<1> QED BY <1>2, <1>6, <1>7, <1>8, <1>9, <1>10 DEF FirstOf

(* A token is one wherever it is, in front of the same character. *)
LEMMA MovingToken ==
  ASSUME NEW t \in Text, NEW u \in Text, NEW i, NEW e, NEW type, NEW c, TokenAt(t, i, e, type, c),
         NEW a \in Nat \ {0}, NEW b \in Nat, b - a = e - i, b <= Len(u) + 1,
         \A k \in 0 .. e - i - 1 : u[a + k] = t[i + k]
  PROVE  TokenAt(u, a, b, type, c)
<1>1. i \in 1 .. Len(t) /\ e \in i + 1 .. Len(t) + 1 /\ Len(t) \in Nat /\ Len(u) \in Nat
      /\ DOMAIN u = 1 .. Len(u) /\ i \in Nat /\ e \in Nat
  BY DEF TokenAt, Text
<1>2. a \in DOMAIN u /\ b \in a + 1 .. Len(u) + 1
  BY <1>1
<1>3. SubSeq(u, a, b - 1) = SubSeq(t, i, e - 1)
  <2> DEFINE w == SubSeq(t, i, e - 1)
             v == SubSeq(u, a, b - 1)
  <2>1. /\ i \in 1 .. Len(t) + 1 /\ e \in i .. Len(t) + 1
        /\ a \in 1 .. Len(u) + 1 /\ b \in a .. Len(u) + 1
        /\ t \in Seq(Characters) /\ u \in Seq(Characters)
    BY <1>1, <1>2 DEF Text
  <2>2. /\ w \in Seq(Characters) /\ Len(w) = e - i
        /\ \A k \in 1 .. e - i : w[k] = t[i + k - 1]
    BY <2>1, Cut
  <2>3. /\ v \in Seq(Characters) /\ Len(v) = b - a
        /\ \A k \in 1 .. b - a : v[k] = u[a + k - 1]
    BY <2>1, Cut
  <2> HIDE DEF w, v
  <2>4. ASSUME NEW k \in 1 .. e - i PROVE v[k] = w[k]
    <3> DEFINE d == k - 1
    <3>1. d \in 0 .. e - i - 1 /\ i + k - 1 = i + d /\ a + k - 1 = a + d /\ k \in 1 .. b - a
      BY <1>1
    <3> HIDE DEF d
    <3>2. u[a + d] = t[i + d]
      BY <3>1
    <3> QED BY <3>1, <3>2, <2>2, <2>3
  <2>5. w = v
    BY <2>2, <2>3, <2>4, SeqEqual
  <2> QED BY <2>5 DEF w, v
<1>4. ASSUME NEW p, Piece(t, i, e, p)
      PROVE  Piece(u, a, b, p) /\ \A d : Ends(t, i, e, p, d) => Ends(u, a, b, p, d)
  <2>1. \A k \in 0 .. e - i - 1 : u[a + k] = t[i + k]
    OBVIOUS
  <2> QED BY <2>1, <1>1, <1>4, Moving
<1>5. CASE type \in Spans /\ Piece(t, i, e, type) /\ Ends(t, i, e, type, c)
  BY <1>2, <1>4, <1>5 DEF TokenAt
<1>6. CASE /\ type = WordType(SubSeq(t, i, e - 1))
           /\ Piece(t, i, e, "Word") /\ Ends(t, i, e, "Word", c)
  BY <1>2, <1>3, <1>4, <1>6 DEF TokenAt
<1>7. CASE type = "Integer" /\ Piece(t, i, e, "Number") /\ Ends(t, i, e, "Number", c) /\ c # "."
  BY <1>2, <1>4, <1>7 DEF TokenAt
<1>8. CASE type = "Real" /\ \E m \in i + 1 .. e - 2 :
             /\ Piece(t, i, m, "Number") /\ t[m] = "."
             /\ Piece(t, m + 1, e, "Number") /\ Ends(t, m + 1, e, "Number", c)
  <2>1. PICK m \in i + 1 .. e - 2 :
             /\ Piece(t, i, m, "Number") /\ t[m] = "."
             /\ Piece(t, m + 1, e, "Number") /\ Ends(t, m + 1, e, "Number", c)
    BY <1>8
  <2> DEFINE n == a + (m - i)
             r == m + 1
             q == n + 1
  <2>2. /\ n \in a + 1 .. b - 2 /\ n \in Nat /\ m \in Nat /\ n - a = m - i
        /\ r \in Nat /\ q \in Nat \ {0} /\ b - q = e - r /\ n <= Len(u) + 1
    BY <1>1, <1>2
  <2>3. \A k \in 0 .. m - i - 1 : u[a + k] = t[i + k]
    BY <1>1
  <2>4. u[n] = t[m]
    <3>1. m - i \in 0 .. e - i - 1 /\ i + (m - i) = m
      BY <1>1
    <3> QED BY <3>1
  <2>5. \A k \in 0 .. e - r - 1 : u[q + k] = t[r + k]
    <3> TAKE k \in 0 .. e - r - 1
    <3>1. /\ m - i + 1 + k \in 0 .. e - i - 1 /\ i + (m - i + 1 + k) = r + k
          /\ a + (m - i + 1 + k) = q + k
      BY <1>1
    <3> QED BY <3>1
  <2> HIDE DEF n, r, q
  <2>6. Piece(u, a, n, "Number") /\ \A d : Ends(t, i, m, "Number", d) => Ends(u, a, n, "Number", d)
    <3>1. /\ u \in Text /\ i \in Nat /\ a \in Nat \ {0} /\ Piece(t, i, m, "Number")
      BY <1>1, <2>1
    <3> QED BY ONLY <3>1, <2>2, <2>3, Moving
  <2>7. Piece(u, q, b, "Number") /\ Ends(u, q, b, "Number", c)
    <3>1. Piece(t, r, e, "Number") /\ Ends(t, r, e, "Number", c)
      BY <2>1 DEF r
    <3>2. u \in Text /\ e \in Nat /\ b \in Nat /\ b <= Len(u) + 1
      BY <1>1
    <3>3. /\ Piece(u, q, b, "Number")
          /\ \A d : Ends(t, r, e, "Number", d) => Ends(u, q, b, "Number", d)
      BY ONLY <3>1, <3>2, <2>2, <2>5, Moving
    <3> QED BY <3>1, <3>3
  <2>8. Piece(u, n + 1, b, "Number") /\ Ends(u, n + 1, b, "Number", c)
    BY <2>7 DEF q
  <2> QED BY <1>2, <1>8, <2>1, <2>2, <2>4, <2>6, <2>8 DEF TokenAt
<1>9. CASE /\ type = "Operator"
           /\ SubSeq(t, i, e - 1) \in Operators /\ Append(SubSeq(t, i, e - 1), c) \notin Operators
  BY <1>2, <1>3, <1>9 DEF TokenAt
<1>10. CASE type \in Annotations /\ t[i] = "@" /\ e = i + 2 /\ t[i + 1] = type /\ c \notin Alnum
  <2>1. u[a] = "@" /\ b = a + 2 /\ u[a + 1] = type
    <3>1. 0 \in 0 .. e - i - 1 /\ 1 \in 0 .. e - i - 1 /\ a + 0 = a /\ i + 0 = i /\ b = a + 2
      BY <1>1, <1>10
    <3> QED BY <3>1, <1>10
  <2> QED BY <1>2, <1>10, <2>1 DEF TokenAt
<1> QED BY <1>5, <1>6, <1>7, <1>8, <1>9, <1>10 DEF TokenAt

(* Only punctuation makes an operator longer. *)
LEMMA OperatorsArePunctuation ==
  ASSUME NEW s \in Text, NEW c, Append(s, c) \in Operators
  PROVE  c \in Punctuation
<1> DEFINE S == Characters \cup {c}
           o == Append(s, c)
<1>1. s \in Seq(S)
  <2>1. Len(s) \in Nat /\ \A k \in 1 .. Len(s) : s[k] \in S
    BY ElementOfSeq DEF Text
  <2>2. s = [k \in 1 .. Len(s) |-> s[k]]
    BY DEF Text
  <2>3. s \in [1 .. Len(s) -> S]
    <3> HIDE DEF S
    <3> QED BY <2>1, <2>2
  <2> HIDE DEF S
  <2> QED BY <2>1, <2>3, IsASeq
<1>2. c \in S
  OBVIOUS
<1> HIDE DEF S
<1>3. Len(o) = Len(s) + 1 /\ o[Len(s) + 1] = c /\ Len(s) \in Nat
  BY <1>1, <1>2, AppendProperties
<1>4. o \in Seq(Punctuation)
  BY OperatorsAreClosed
<1> HIDE DEF o
<1>5. Len(o) \in 1 .. Len(o) /\ o[Len(o)] = c
  BY <1>3
<1> QED BY <1>4, <1>5, ElementOfSeq

(* What is a token in front of a comment is one in front of what follows the comment. *)
LEMMA InFrontOfAComment ==
  ASSUME NEW t \in Text, NEW i, NEW e, NEW type, TokenAt(t, i, e, type, "#"),
         NEW c \in {"\n", "eof"}
  PROVE  TokenAt(t, i, e, type, c)
<1>1. c \notin Alnum /\ c \notin Punctuation /\ c # Space /\ c # "."
  BY TheCharacters, Zenon DEF Alnum
<1>2. \A j, p : p # "Comment" /\ Ends(t, j, e, p, "#") => Ends(t, j, e, p, c)
  <2>1. "#" # "eof"
    OBVIOUS
  <2> QED BY <1>1, <2>1 DEF Ends
<1>3. Append(SubSeq(t, i, e - 1), c) \notin Operators
  <2>1. i \in 1 .. Len(t) + 1 /\ e \in i .. Len(t) + 1
    BY DEF TokenAt, Text
  <2>2. SubSeq(t, i, e - 1) \in Text
    BY <2>1, Cut DEF Text
  <2> QED BY <1>1, <2>2, OperatorsArePunctuation
<1>4. "Comment" \notin Spans
  BY DEF Spans
<1> QED BY <1>1, <1>2, <1>3, <1>4 DEF TokenAt

-----------------------------------------------------------------------------
(* What is stored of a text has boundaries too. *)

\* The text k can be stored in front of the subtoken s.
Storable(k, s) ==
  /\ k \in Text
  /\ \E C : Boundaries(k, C) /\ (s.type # "EndOfInput" => Continues(k, C, s.str[1]))

(* A subtoken that is stored behind the others is read as it was. *)
LEMMA Storing ==
  ASSUME NEW t \in Text, NEW B, Boundaries(t, B), NEW i, NEW s, StandsAt(t, B, i, s),
         NEW k, Storable(k, s)
  PROVE  Storable(k \o s.str, next(t, s))
<1> DEFINE n == next(t, s)
<1>1. StandsAt(t, B, s.at, n)
  BY Onward
<1> HIDE DEF n
<1>2. k \in Text
  BY DEF Storable
<1>3. CASE s.type = "EndOfInput"
  <2>1. s.str = <<>> /\ s.at = Len(t) + 1
    BY <1>3, StandingTypes DEF StandsAt
  <2>2. n.type = "EndOfInput"
    BY <1>1, <2>1 DEF StandsAt
  <2>3. k \o s.str = k
    BY <1>2, <2>1, ConcatEmptySeq DEF Text
  <2> QED BY <2>2, <2>3 DEF Storable, n
<1>4. CASE s.type # "EndOfInput"
  <2>1. IsReadAt(t, i, s) /\ i \in DOMAIN t
    BY <1>4, StandingTypes
  <2>2. /\ s.str \in Text /\ Len(s.str) > 0 /\ s.type \in Types
        /\ Piece(s.str, 1, Len(s.str) + 1, s.type)
        /\ \A c : Ends(t, i, s.at, s.type, c) => Ends(s.str, 1, Len(s.str) + 1, s.type, c)
    BY <2>1, PiecesAreTexts
  <2>3. PICK C : Boundaries(k, C) /\ Continues(k, C, s.str[1])
    BY <1>4 DEF Storable
  <2> DEFINE u == k \o s.str
             D == C \cup {Len(k \o s.str) + 1}
  <2>4. /\ Boundaries(u, D)
        /\ \A c : /\ Ends(s.str, 1, Len(s.str) + 1, s.type, c)
                  /\ s.type = "Newline" => c # "%"
                  => Continues(u, D, c)
    BY <1>2, <2>2, <2>3, Prolonging
  <2>5. u \in Text
    BY <1>2, <2>2, ConcatProperties DEF Text
  <2> HIDE DEF u, D
  <2>6. CASE n.type = "EndOfInput"
    BY <2>4, <2>5, <2>6 DEF Storable, u, n
  <2>7. CASE n.type # "EndOfInput"
    <3>1. n.str[1] = At(t, s.at)
      BY <1>1, <2>7, StandingTypes
    <3>2. Ends(t, i, s.at, s.type, At(t, s.at)) /\ (s.type = "Newline" => At(t, s.at) # "%")
      BY <2>1 DEF IsReadAt, StandsAt
    <3>3. Continues(u, D, n.str[1])
      BY <2>2, <2>4, <3>1, <3>2
    <3> QED BY <2>4, <2>5, <3>3 DEF Storable, u, n
  <2> QED BY <2>6, <2>7
<1> QED BY <1>3, <1>4

(* A comment is not stored, and leaves what is stored in front of its line's end. *)
LEMMA StoringNoComment ==
  ASSUME NEW t \in Text, NEW B, Boundaries(t, B), NEW i, NEW s, StandsAt(t, B, i, s),
         s.type = "Comment", NEW k, Storable(k, s)
  PROVE  Storable(k, next(t, s))
<1> DEFINE n == next(t, s)
<1>1. StandsAt(t, B, s.at, n) /\ n = Advanced(t, s)
  BY Onward
<1> HIDE DEF n
<1>2. populated(t, n) = n
  BY <1>1, Onward
<1>3. IsReadAt(t, i, s) /\ i \in DOMAIN t /\ s.at \in 1 .. Len(t) + 1
  <2>1. i \in 1 .. Len(t) + 1 /\ s.at \in i .. Len(t) + 1 /\ Len(t) \in Nat
    BY StandingTypes
  <2>2. s.at \in 1 .. Len(t) + 1
    BY <2>1
  <2> QED BY <2>2, StandingTypes
<1>4. IsSubtoken(t, s)
  BY <1>3 DEF IsSubtoken, StandsAt
<1>5. PICK C : Boundaries(k, C) /\ Continues(k, C, s.str[1])
  BY DEF Storable
<1>6. n.type # "EndOfInput" => Continues(k, C, n.str[1])
  <2>1. k \in Text /\ n = populated(t, Advanced(t, s))
    BY <1>1, <1>2 DEF Storable
  <2> QED BY <2>1, <1>4, <1>5, Omitted
<1> QED BY <1>5, <1>6 DEF Storable, n

(* At first nothing is stored. *)
LEMMA StoringNothing ==
  ASSUME NEW t \in Text, NEW B, Boundaries(t, B), NEW s, StandsAt(t, B, 1, s)
  PROVE  Storable(<<>>, s)
<1>1. s.type # "EndOfInput" => s.str[1] # "%"
  <2>1. At(t, 1) # "%"
    BY DEF Boundaries
  <2> QED BY <2>1, StandingTypes
<1> QED BY <1>1, NoText DEF Storable

-----------------------------------------------------------------------------
(* Making a token. *)

\* The lexer is in front of a token at b; a step makes what is from b to e a token.
Setting(B, b) ==
  /\ text \in Text /\ Boundaries(text, B)
  /\ StandsAt(text, B, b, Start) /\ Type # "Comment"

\* The token from b to e is made, and the lexer stands behind it.
Makes(B, b, e, type) ==
  /\ TokenAt(text, b, e, type, At(text, e))
  /\ tokens' = Append(tokens, [type |-> type, str |-> SubSeq(text, b, e - 1), at |-> b])
  /\ StandsAt(text, B, e, lexer')
  /\ \A k : Storable(k, Start) => Storable(k \o SubSeq(text, b, e - 1), lexer')
  /\ UNCHANGED <<text, first, phase>>

(* It does not matter in which order three texts are put together. *)
LEMMA Associative ==
  ASSUME NEW k \in Text, NEW a \in Text, NEW b \in Text
  PROVE  (k \o a) \o b = k \o (a \o b) /\ a \o b \in Text
BY ConcatAssociative, ConcatProperties DEF Text

(* What follows Start. *)
LEMMA BehindStart ==
  ASSUME NEW B, NEW b, Setting(B, b)
  PROVE  /\ StandsAt(text, B, Start.at, Rest)
         /\ Len(Str) = Start.at - b /\ Str = SubSeq(text, b, Start.at - 1) /\ Str \in Text
         /\ b \in 1 .. Len(text) + 1 /\ Start.at \in b .. Len(text) + 1
         /\ Start.at - Len(Str) = b
         /\ Len(text) \in Nat /\ DOMAIN text = 1 .. Len(text)
         /\ Type # "EndOfInput" =>
              /\ b \in DOMAIN text /\ b < Start.at /\ Str[1] = text[b]
              /\ Piece(text, b, Start.at, Type) /\ Ends(text, b, Start.at, Type, At(text, Start.at))
         /\ \A k : Storable(k, Start) => Storable(k \o Str, Rest)
<1> DEFINE s == Start
<1>1. text \in Text /\ Boundaries(text, B) /\ StandsAt(text, B, b, s)
  BY DEF Setting
<1>2. Rest = next(text, s) /\ Str = s.str /\ Type = s.type
  BY DEF Rest, Str, Type
<1> HIDE DEF s
<1>3. StandsAt(text, B, s.at, next(text, s))
  BY <1>1, Onward
<1>4. /\ b \in 1 .. Len(text) + 1 /\ s.at \in b .. Len(text) + 1
      /\ Len(text) \in Nat /\ DOMAIN text = 1 .. Len(text)
      /\ s.str \in Text /\ Len(s.str) = s.at - b /\ s.str = SubSeq(text, b, s.at - 1)
  BY <1>1, StandingTypes
<1>5. s.type # "EndOfInput" =>
        IsReadAt(text, b, s) /\ b \in DOMAIN text /\ s.str[1] = text[b] /\ b < s.at
  BY <1>1, StandingTypes
<1>6. s.at - Len(s.str) = b
  BY <1>4
<1>7. \A k : Storable(k, s) => Storable(k \o s.str, next(text, s))
  BY <1>1, Storing
<1> QED BY <1>2, <1>3, <1>4, <1>5, <1>6, <1>7 DEF s, IsReadAt

(* A token that is one subtoken. *)
LEMMA MakingOne ==
  ASSUME NEW B, NEW b, Setting(B, b), NEW type, Make(type, Str, Rest),
         TokenAt(text, b, Start.at, type, At(text, Start.at))
  PROVE  Makes(B, b, Start.at, type)
BY BehindStart DEF Makes, Make

(* lexWord makes the token that is there. *)
LEMMA WordsAreMade ==
  ASSUME NEW B, NEW b, Setting(B, b), lexWord
  PROVE  \E e, type : Makes(B, b, e, type)
<1>1. /\ b \in DOMAIN text /\ Start.at \in b + 1 .. Len(text) + 1
      /\ Str = SubSeq(text, b, Start.at - 1)
      /\ Piece(text, b, Start.at, "Word") /\ Ends(text, b, Start.at, "Word", At(text, Start.at))
  BY BehindStart DEF lexWord, Piece
<1>2. TokenAt(text, b, Start.at, WordType(Str), At(text, Start.at))
  BY <1>1 DEF TokenAt
<1> QED BY <1>2, MakingOne DEF lexWord

(* So does lexSpan ... *)
LEMMA SpansAreMade ==
  ASSUME NEW B, NEW b, Setting(B, b), lexSpan
  PROVE  \E e, type : Makes(B, b, e, type)
<1>1. /\ b \in DOMAIN text /\ Start.at \in b + 1 .. Len(text) + 1 /\ Type \in Spans
      /\ Piece(text, b, Start.at, Type) /\ Ends(text, b, Start.at, Type, At(text, Start.at))
  BY BehindStart DEF lexSpan, Piece, Spans
<1>2. TokenAt(text, b, Start.at, Type, At(text, Start.at))
  BY <1>1 DEF TokenAt
<1> QED BY <1>2, MakingOne DEF lexSpan

(* What is undefined is no token, and is not in disciplined texts. *)
NoTokenAt(b) ==
  /\ \A e, type : ~TokenAt(text, b, e, type, At(text, e))
  /\ ~Disciplined
  /\ UNCHANGED <<text, tokens, first>>
  /\ phase' = "stopped"

(* A word or number of one character. *)
LEMMA OneLetter ==
  ASSUME NEW t \in Text, NEW i \in DOMAIN t, t[i] \in Alnum, At(t, i + 1) \notin Alnum,
         NEW s, IsReadAt(t, i, s)
  PROVE  s.at = i + 1 /\ s.type = IF t[i] \in Digits THEN "Number" ELSE "Word"
<1> DEFINE type == IF t[i] \in Digits THEN "Number" ELSE "Word"
<1>1. i + 1 \in i + 1 .. Len(t) + 1 /\ \A k \in i .. (i + 1) - 1 : k = i
  BY DEF Text
<1>2. i \in i .. (i + 1) - 1
  BY DEF Text
<1>3. Piece(t, i, i + 1, type)
  BY <1>1, <1>2 DEF Piece
<1>4. Ends(t, i, i + 1, type, At(t, i + 1))
  BY DEF Ends
<1> HIDE DEF type
<1>5. s.at = i + 1 /\ s.type = type
  BY <1>3, <1>4, OneReading DEF IsReadAt
<1> QED BY <1>5 DEF type

(* A text with a point behind digits, and something else than a number behind it. *)
LEMMA NumbersAreMade ==
  ASSUME NEW B, NEW b, Setting(B, b), lexNumber
  PROVE  (\E e, type : Makes(B, b, e, type)) \/ NoTokenAt(b)
<1> DEFINE d == Start.at
           r == Rest
           g == next(text, Rest)
<1>1. text \in Text /\ Boundaries(text, B)
  BY DEF Setting
<1>2. /\ StandsAt(text, B, d, r)
      /\ Len(Str) = d - b /\ Str = SubSeq(text, b, d - 1) /\ Str \in Text
      /\ b \in DOMAIN text /\ d \in b + 1 .. Len(text) + 1 /\ d - Len(Str) = b
      /\ Len(text) \in Nat /\ DOMAIN text = 1 .. Len(text) /\ b \in Nat /\ d \in Nat
      /\ Piece(text, b, d, "Number") /\ Ends(text, b, d, "Number", At(text, d))
      /\ \A k : Storable(k, Start) => Storable(k \o Str, r)
  BY BehindStart DEF lexNumber, Piece
<1>3. StandsAt(text, B, r.at, g) /\ g = next(text, r)
  BY <1>1, <1>2, Onward
<1>4. lexNumber =>
        IF r.str # <<".">> THEN Make("Integer", Str, r)
        ELSE IF g.type = "Number" THEN Make("Real", Str \o r.str \o g.str, next(text, g))
        ELSE Undefined(g)
  BY DEF lexNumber
<1> HIDE DEF r, g, d
<1>7. StandsAt(text, B, d, r)
  BY <1>2
<1>9. /\ b \in DOMAIN text /\ d \in b + 1 .. Len(text) + 1 /\ Len(text) \in Nat
      /\ DOMAIN text = 1 .. Len(text) /\ b \in Nat /\ d \in Nat
  BY <1>2
<1>8. /\ r.at \in d .. Len(text) + 1
      /\ r.str \in Text /\ Len(r.str) = r.at - d /\ r.str = SubSeq(text, d, r.at - 1)
      /\ r.type = "EndOfInput" <=> d = Len(text) + 1
      /\ r.type # "EndOfInput" =>
           IsReadAt(text, d, r) /\ d \in DOMAIN text /\ r.str[1] = text[d] /\ At(text, d) = text[d]
      /\ r.type = "EndOfInput" => At(text, d) = "eof"
  BY ONLY <1>1, <1>7, StandingTypes
<1>5. CASE r.str # <<".">>
  <2>1. At(text, d) # "."
    <3> SUFFICES ASSUME At(text, d) = "." PROVE FALSE
      OBVIOUS
    <3>1. r.type # "EndOfInput" /\ d \in DOMAIN text /\ text[d] = "." /\ IsReadAt(text, d, r)
      BY <1>8
    <3>2. /\ Piece(text, d, d + 1, "Punctuation")
          /\ Ends(text, d, d + 1, "Punctuation", At(text, d + 1))
      <4>1. "." \in Punctuation
        BY Zenon DEF Punctuation
      <4>2. d + 1 \in d + 1 .. Len(text) + 1
        BY <3>1, <1>9
      <4> QED BY <3>1, <4>1, <4>2 DEF Piece, Ends
    <3>3. r.at = d + 1
      BY <1>1, <3>1, <3>2, OneReading DEF IsReadAt
    <3>4. r.str = SubSeq(text, d, d)
      <4>1. r.at - 1 = d
        BY <1>2, <3>3
      <4> QED BY <1>8, <4>1
    <3>5. r.str = <<text[d]>>
      BY <3>1, <3>4, <1>1, <1>2, CutOne DEF Text
    <3> QED BY <3>1, <3>5, <1>5
  <2>2. TokenAt(text, b, d, "Integer", At(text, d))
    BY <1>2, <2>1 DEF TokenAt
  <2>3. Make("Integer", Str, Rest)
    BY <1>4, <1>5 DEF r
  <2>4. Makes(B, b, Start.at, "Integer")
    BY <2>2, <2>3, MakingOne DEF d
  <2> QED BY <2>4
<1>6. CASE r.str = <<".">>
  <2>1. /\ r.str = <<".">> /\ r.type # "EndOfInput" /\ d \in DOMAIN text /\ text[d] = "."
        /\ r.at = d + 1 /\ r.at \in 1 .. Len(text) + 1 /\ r.str = SubSeq(text, d, r.at - 1)
    <3>1. Len(r.str) = 1 /\ r.str[1] = "."
      BY <1>6
    <3>3. r.at = d + 1 /\ r.at \in 1 .. Len(text) + 1 /\ d # Len(text) + 1
      <4>1. r.at - d = 1 /\ r.at \in d .. Len(text) + 1
        BY <1>8, <3>1
      <4> QED BY <1>9, <4>1
    <3> QED BY <1>6, <1>8, <3>1, <3>3
  <2>2. /\ g.at \in d + 1 .. Len(text) + 1 /\ g.str = SubSeq(text, d + 1, g.at - 1)
        /\ g.str \in Text
    <3>1. /\ g.at \in r.at .. Len(text) + 1 /\ g.str = SubSeq(text, r.at, g.at - 1)
          /\ g.str \in Text
      BY <1>1, <1>3, StandingTypes
    <3> QED BY <2>1, <3>1
  <2>3. CASE g.type = "Number"
    <3> DEFINE e == g.at
               f == next(text, g)
               w == Str \o r.str \o g.str
    <3>1. Make("Real", w, f)
      BY <1>4, <1>6, <2>3
    <3>2. IsReadAt(text, r.at, g) /\ r.at < e
      BY <1>1, <1>3, <2>3, StandingTypes
    <3>3. Piece(text, d + 1, e, "Number") /\ Ends(text, d + 1, e, "Number", At(text, e))
      BY <2>1, <2>3, <3>2 DEF IsReadAt
    <3>4. StandsAt(text, B, e, f)
      BY <1>1, <1>3, Onward
    <3>5. e \in d + 1 .. Len(text) + 1 /\ d \in b + 1 .. e - 2
      BY <1>2, <2>1, <2>2, <3>2
    <3> HIDE DEF e, f
    <3>6. TokenAt(text, b, e, "Real", At(text, e))
      <4>1. e \in b + 1 .. Len(text) + 1
        BY <1>2, <3>5
      <4> QED BY <4>1, <1>2, <2>1, <3>3, <3>5 DEF TokenAt
    <3>7. w = SubSeq(text, b, e - 1)
      <4>1. Str \o r.str = SubSeq(text, b, r.at - 1)
        <5>1. b \in 1 .. Len(text) + 1 /\ d \in b .. Len(text) + 1 /\ r.at \in d .. Len(text) + 1
          BY <1>2, <2>1
        <5> QED BY <1>1, <1>2, <2>1, <5>1, Joining DEF Text
      <4>2. g.str = SubSeq(text, r.at, e - 1)
        BY <2>1, <2>2 DEF e
      <4>3. b \in 1 .. Len(text) + 1 /\ r.at \in b .. Len(text) + 1 /\ e \in r.at .. Len(text) + 1
        BY <1>2, <2>1, <3>5
      <4> QED BY <1>1, <4>1, <4>2, <4>3, Joining DEF Text
    <3>8. ASSUME NEW k, Storable(k, Start) PROVE Storable(k \o w, f)
      <4>1. Storable(k \o Str, r)
        BY <1>2, <3>8
      <4>2. Storable((k \o Str) \o r.str, g)
        BY <1>1, <1>2, <1>3, <4>1, Storing
      <4>3. Storable(((k \o Str) \o r.str) \o g.str, f)
        BY <1>1, <1>3, <4>2, Storing DEF f
      <4>4. k \in Text /\ r.str \in Text /\ Str \in Text /\ g.str \in Text
        BY <3>8, <1>2, <1>8, <2>2 DEF Storable
      <4>5. ((k \o Str) \o r.str) \o g.str = k \o w
        <5> DEFINE x == Str
                   y == r.str
                   z == g.str
                   v == x \o y
        <5>1. x \in Text /\ y \in Text /\ z \in Text /\ k \in Text
          BY <4>4
        <5> HIDE DEF x, y, z
        <5>2. (k \o x) \o y = k \o v /\ v \in Text
          BY <5>1, Associative
        <5> HIDE DEF v
        <5>3. (k \o v) \o z = k \o (v \o z)
          BY <5>1, <5>2, Associative
        <5> QED BY <5>2, <5>3 DEF x, y, z, v
      <4> QED BY <4>3, <4>5
    <3>9. Makes(B, b, e, "Real")
      <4> HIDE DEF w
      <4> QED BY <1>2, <3>1, <3>4, <3>6, <3>7, <3>8 DEF Makes, Make, d
    <3> QED BY <3>9
  <2>4. CASE g.type # "Number"
    <3>1. ASSUME NEW e, NEW type, TokenAt(text, b, e, type, At(text, e)) PROVE FALSE
      <4>1. PICK m, p : FirstOf(text, b, e, type, m, p)
        BY <1>1, <3>1, FirstSubtoken
      <4>2. m = d /\ p = "Number"
        <5>1. Piece(text, b, m, p) /\ Ends(text, b, m, p, At(text, m))
          BY <4>1 DEF FirstOf
        <5> QED BY <1>1, <1>2, <5>1, OneReading
      <4>3. At(text, d) = "."
        BY <2>1 DEF At
      <4>4. /\ d + 1 \in DOMAIN text
            /\ Piece(text, d + 1, e, "Number") /\ Ends(text, d + 1, e, "Number", At(text, e))
        BY <4>1, <4>2, <4>3 DEF FirstOf, Spans
      <4>5. d + 1 # Len(text) + 1
        BY <1>2, <4>4
      <4>6. IsReadAt(text, d + 1, g)
        BY <1>3, <2>1, <4>5 DEF StandsAt
      <4>7. g.type = "Number"
        BY <1>1, <4>4, <4>6, OneReading DEF IsReadAt
      <4> QED BY <2>4, <4>7
    <3>2. ASSUME Disciplined PROVE FALSE
      <4>1. At(text, d - 1) \in Digits
        <5>1. d - 1 \in b .. d - 1 /\ d - 1 \in DOMAIN text
          BY <1>2, <2>1
        <5>2. \A j \in b .. d - 1 : text[j] \in Digits
          BY <1>2 DEF Piece
        <5> QED BY <5>1, <5>2 DEF At
      <4>2. At(text, d + 1) \in Digits /\ ~LetterAt(d + 2)
        BY <2>1, <3>2, <4>1 DEF Disciplined
      <4>3. d + 1 \in DOMAIN text /\ text[d + 1] \in Digits
        <5>1. "eof" \notin Digits
          BY DEF Digits
        <5> QED BY <4>2, <5>1 DEF At
      <4>4. d + 1 # Len(text) + 1
        BY <1>2, <4>3
      <4>5. IsReadAt(text, d + 1, g)
        BY <1>3, <2>1, <4>4 DEF StandsAt
      <4>6. At(text, (d + 1) + 1) \notin Alnum /\ text[d + 1] \in Alnum
        <5>1. (d + 1) + 1 = d + 2
          BY <1>2
        <5> QED BY <4>2, <4>3, <5>1 DEF LetterAt, Alnum
      <4>7. g.type = "Number"
        BY <1>1, <4>3, <4>5, <4>6, OneLetter
      <4> QED BY <2>4, <4>7
    <3>3. Undefined(g)
      BY <1>4, <1>6, <2>4
    <3> QED BY <3>1, <3>2, <3>3 DEF NoTokenAt, Undefined
  <2> QED BY <2>3, <2>4
<1> QED BY <1>5, <1>6

(* A subtoken that begins with punctuation is that character. *)
LEMMA OneSign ==
  ASSUME NEW t \in Text, NEW i \in DOMAIN t, t[i] \in Punctuation, NEW s, IsReadAt(t, i, s)
  PROVE  s.at = i + 1 /\ s.type = "Punctuation" /\ s.str = <<t[i]>>
<1>1. i + 1 \in i + 1 .. Len(t) + 1 /\ i \in 1 .. Len(t) /\ (i + 1) - 1 = i
  BY DEF Text
<1>2. Piece(t, i, i + 1, "Punctuation") /\ Ends(t, i, i + 1, "Punctuation", At(t, i + 1))
  BY <1>1 DEF Piece, Ends
<1>3. s.at = i + 1 /\ s.type = "Punctuation"
  BY <1>2, OneReading DEF IsReadAt
<1>4. s.str = SubSeq(t, i, s.at - 1)
  BY PiecesAreTexts
<1>5. s.at - 1 = i
  BY <1>1, <1>3
<1>6. SubSeq(t, i, i) = <<t[i]>>
  BY <1>1, CutOne DEF Text
<1> QED BY <1>3, <1>4, <1>5, <1>6

(* One subtoken more, when the next character makes an operator of them. *)
LEMMA OneMoreSign ==
  ASSUME NEW t \in Text, NEW B, Boundaries(t, B), NEW i \in DOMAIN t,
         NEW e \in i .. Len(t) + 1, NEW n, StandsAt(t, B, e, n),
         Append(SubSeq(t, i, e - 1), At(t, e)) \in Operators
  PROVE  SubSeq(t, i, e - 1) \o n.str \in Operators /\ n.type # "EndOfInput"
<1> DEFINE w == SubSeq(t, i, e - 1)
           c == At(t, e)
<1>1. w \in Text
  <2>1. i \in 1 .. Len(t) + 1
    BY DEF Text
  <2> QED BY <2>1, Cut DEF Text
<1>2. c \in Punctuation
  BY <1>1, OperatorsArePunctuation
<1>3. c # "eof"
  BY <1>2, TheCharacters
<1>4. /\ n.type = "EndOfInput" => At(t, e) = "eof"
      /\ n.type # "EndOfInput" => IsReadAt(t, e, n) /\ e \in DOMAIN t /\ At(t, e) = t[e]
  BY StandingTypes
<1>5. n.str = <<c>>
  BY <1>2, <1>3, <1>4, OneSign
<1> HIDE DEF w, c
<1>6. c \in Characters
  BY <1>2, TheCharacters
<1>7. w \o <<c>> = Append(w, c)
  BY <1>1, <1>6, AppendIsConcat DEF Text
<1> QED BY <1>3, <1>4, <1>5, <1>7 DEF w, c

(* No operator is made longer by the end of the text, or has more than three signs. *)
LEMMA NoLongerOperator ==
  ASSUME NEW s \in Text, NEW c, c = "eof" \/ Len(s) >= 3
  PROVE  Append(s, c) \notin Operators
<1> SUFFICES ASSUME Append(s, c) \in Operators PROVE FALSE
  OBVIOUS
<1>1. c \in Punctuation
  BY OperatorsArePunctuation
<1>2. c # "eof" /\ c \in Characters
  BY <1>1, TheCharacters
<1>3. Len(Append(s, c)) = Len(s) + 1 /\ Len(s) \in Nat
  BY <1>2, AppendProperties DEF Text
<1>4. Len(Append(s, c)) \in 1 .. 3
  BY OperatorsAreClosed
<1> QED BY <1>2, <1>3, <1>4

(* lexPunctuation makes the longest operator that is there. *)
LEMMA OperatorsAreMade ==
  ASSUME NEW B, NEW b, Setting(B, b), lexPunctuation
  PROVE  \E e, type : Makes(B, b, e, type)
<1> DEFINE l == Start
           n1 == next(text, l)
           n2 == next(text, n1)
           n3 == next(text, n2)
           d == l.at
           two == l.str \o n1.str
           three == two \o n2.str
<1>1. text \in Text /\ Boundaries(text, B) /\ n1 = Rest /\ l.str = Str
  BY DEF Setting, Rest, Str
<1>2. /\ StandsAt(text, B, d, n1)
      /\ b \in DOMAIN text /\ text[b] # "@"
      /\ Piece(text, b, d, "Punctuation")
      /\ l.str = SubSeq(text, b, d - 1) /\ l.str \in Text
      /\ Len(text) \in Nat /\ DOMAIN text = 1 .. Len(text)
      /\ Start.at - Len(Str) = b
  <2>1. Type = "Punctuation" /\ Str # <<"@">>
    BY DEF lexPunctuation
  <2>2. /\ StandsAt(text, B, d, n1)
        /\ b \in DOMAIN text
        /\ Piece(text, b, d, "Punctuation")
        /\ l.str = SubSeq(text, b, d - 1) /\ l.str \in Text
        /\ Len(text) \in Nat /\ DOMAIN text = 1 .. Len(text)
        /\ Start.at - Len(Str) = b
    BY <2>1, <1>1, BehindStart
  <2>3. d - 1 = b
    BY <2>2 DEF Piece
  <2>4. Str = <<text[b]>>
    BY <1>1, <2>2, <2>3, CutOne DEF Text
  <2> QED BY <2>1, <2>2, <2>4
<1>3. d = b + 1 /\ b \in Nat /\ d \in Nat /\ d \in 1 .. Len(text) + 1 /\ text[b] \in Punctuation
  <2>1. /\ Piece(text, b, d, "Punctuation") /\ b \in 1 .. Len(text) /\ Len(text) \in Nat
    BY <1>2
  <2>2. d = b + 1 /\ text[b] \in Punctuation
    BY <2>1 DEF Piece
  <2> HIDE DEF d
  <2> QED BY <2>1, <2>2
<1>4. \A k : Storable(k, l) => Storable(k \o l.str, n1)
  BY <1>1, BehindStart
<1>5. StandsAt(text, B, n1.at, n2) /\ StandsAt(text, B, n2.at, n3)
  BY <1>1, <1>2, Onward
<1>6. lexPunctuation =>
        CASE two \notin Operators -> Make("Operator", l.str, n1)
          [] {two, three} \subseteq Operators -> Make("Operator", three, n3)
          [] OTHER -> Make("Operator", two, n2)
  BY DEF lexPunctuation, Compound
<1> DEFINE e1 == n1.at
           e2 == n2.at
<1>7. /\ e1 \in d .. Len(text) + 1 /\ n1.str = SubSeq(text, d, e1 - 1) /\ n1.str \in Text
      /\ n1.type = "EndOfInput" <=> d = Len(text) + 1
      /\ n1.type = "EndOfInput" => n1.str = <<>> /\ e1 = d
  <2>1. StandsAt(text, B, d, n1)
    BY <1>2
  <2> HIDE DEF d, n1
  <2> QED BY ONLY <1>1, <2>1, StandingTypes
<1>8. /\ e2 \in e1 .. Len(text) + 1 /\ n2.str = SubSeq(text, e1, e2 - 1) /\ n2.str \in Text
      /\ n2.type = "EndOfInput" <=> e1 = Len(text) + 1
      /\ n2.type = "EndOfInput" => n2.str = <<>> /\ e2 = e1
  <2>1. StandsAt(text, B, n1.at, n2)
    BY <1>5
  <2> HIDE DEF n1, n2
  <2> QED BY ONLY <1>1, <2>1, StandingTypes
<1>9. ASSUME NEW k, Storable(k, l)
      PROVE  Storable(k \o two, n2) /\ Storable(k \o three, n3)
  <2> DEFINE x == l.str
             y == n1.str
             z == n2.str
             v == x \o y
  <2>1. Storable(k \o x, n1)
    BY <1>4, <1>9
  <2>2. Storable((k \o x) \o y, n2)
    BY <1>1, <1>2, <2>1, Storing
  <2>3. Storable(((k \o x) \o y) \o z, n3)
    BY <1>1, <1>5, <2>2, Storing
  <2>4. x \in Text /\ y \in Text /\ z \in Text /\ k \in Text
    BY <1>2, <1>7, <1>8, <1>9 DEF Storable
  <2>5. two = v /\ three = v \o z
    OBVIOUS
  <2> HIDE DEF x, y, z, two, three, n2, n3
  <2>6. (k \o x) \o y = k \o v /\ v \in Text
    BY <2>4, Associative
  <2> HIDE DEF v
  <2>7. (k \o v) \o z = k \o (v \o z)
    BY <2>4, <2>6, Associative
  <2> QED BY <2>2, <2>3, <2>5, <2>6, <2>7
<1>10. b \in 1 .. Len(text) + 1 /\ d \in b .. Len(text) + 1 /\ e1 \in b .. Len(text) + 1
       /\ e1 \in b + 1 .. Len(text) + 1 /\ d \in b + 1 .. Len(text) + 1
       /\ e2 \in b + 1 .. Len(text) + 1 /\ text \in Seq(Characters)
  <2>1. Len(text) \in Nat /\ b \in 1 .. Len(text) /\ text \in Seq(Characters)
    BY <1>1, <1>2 DEF Text
  <2> HIDE DEF d, e1, e2
  <2> QED BY <1>3, <1>7, <1>8, <2>1
<1>11. two = SubSeq(text, b, e1 - 1)
  <2> HIDE DEF e1, d, n1, l
  <2>1. SubSeq(text, b, d - 1) \o SubSeq(text, d, e1 - 1) = SubSeq(text, b, e1 - 1)
    BY ONLY <1>7, <1>10, Joining
  <2> QED BY <2>1, <1>2, <1>7
<1>12. three = SubSeq(text, b, e2 - 1)
  <2> HIDE DEF e1, e2, n1, n2, two
  <2>1. SubSeq(text, b, e1 - 1) \o SubSeq(text, e1, e2 - 1) = SubSeq(text, b, e2 - 1)
    BY ONLY <1>8, <1>10, Joining
  <2> QED BY <2>1, <1>11, <1>8
<1>13. l.str \in Operators
  <2>1. d - 1 = b
    BY <1>3
  <2>2. l.str = <<text[b]>>
    BY <1>2, <1>10, <2>1, CutOne
  <2> QED BY <1>2, <1>3, <2>2, OperatorsAreClosed
<1> HIDE DEF two, three, n1, n2, n3, l, d, e1, e2
<1>14. ASSUME NEW e \in b + 1 .. Len(text) + 1, NEW rest, NEW str, str = SubSeq(text, b, e - 1),
              str \in Operators, Append(str, At(text, e)) \notin Operators,
              Make("Operator", str, rest), StandsAt(text, B, e, rest),
              \A k : Storable(k, Start) => Storable(k \o str, rest)
       PROVE  Makes(B, b, e, "Operator")
  <2>1. TokenAt(text, b, e, "Operator", At(text, e))
    BY <1>2, <1>14 DEF TokenAt
  <2> QED BY <1>2, <1>14, <2>1 DEF Makes, Make
<1>15. CASE two \notin Operators
  <2>1. Make("Operator", l.str, n1)
    BY <1>6, <1>15
  <2>2. Append(l.str, At(text, d)) \notin Operators
    <3>1. d \in b .. Len(text) + 1
      BY <1>10
    <3>2. two = SubSeq(text, b, d - 1) \o n1.str
      BY <1>2 DEF two
    <3> QED BY <1>1, <1>2, <1>15, <3>1, <3>2, OneMoreSign
  <2>3. Makes(B, b, d, "Operator")
    BY <1>2, <1>4, <1>10, <1>13, <1>14, <2>1, <2>2 DEF l
  <2> QED BY <2>3
<1>16. CASE two \in Operators /\ three \in Operators
  <2>1. Make("Operator", three, n3)
    BY <1>6, <1>16
  <2>2. Append(three, At(text, e2)) \notin Operators
    <3>1. three \in Text
      BY <1>10, <1>12, Cut DEF Text
    <3>2. CASE e2 = Len(text) + 1
      <4>1. At(text, e2) = "eof"
        BY <1>2, <3>2 DEF At
      <4> QED BY <3>1, <4>1, NoLongerOperator
    <3>3. CASE e2 # Len(text) + 1
      <4>1. n2.type # "EndOfInput" /\ n1.type # "EndOfInput"
        BY <1>7, <1>8, <3>3
      <4>2. d < e1 /\ e1 < e2
        BY <1>1, <1>2, <1>5, <4>1, StandingTypes DEF d, e1, e2
      <4>3. Len(three) = e2 - b
        BY <1>10, <1>12, Cut
      <4>4. Len(three) >= 3
        BY <1>3, <1>7, <1>8, <4>2, <4>3
      <4> QED BY <3>1, <4>4, NoLongerOperator
    <3> QED BY <3>2, <3>3
  <2>3. \A k : Storable(k, Start) => Storable(k \o three, n3)
    BY <1>9 DEF l
  <2>4. Makes(B, b, e2, "Operator")
    BY <1>5, <1>10, <1>12, <1>14, <1>16, <2>1, <2>2, <2>3 DEF e2
  <2> QED BY <2>4
<1>17. CASE two \in Operators /\ three \notin Operators
  <2>1. Make("Operator", two, n2)
    BY <1>6, <1>17
  <2>2. Append(two, At(text, e1)) \notin Operators
    <3>1. StandsAt(text, B, e1, n2)
      BY <1>5 DEF e1
    <3>2. three = SubSeq(text, b, e1 - 1) \o n2.str /\ e1 \in b .. Len(text) + 1
      BY <1>11, <1>10 DEF three
    <3> QED BY <1>1, <1>2, <1>11, <1>17, <3>1, <3>2, OneMoreSign
  <2>3. \A k : Storable(k, Start) => Storable(k \o two, n2)
    BY <1>9 DEF l
  <2>4. Makes(B, b, e1, "Operator")
    BY <1>5, <1>10, <1>11, <1>14, <1>17, <2>1, <2>2, <2>3 DEF e1
  <2> QED BY <2>4
<1> QED BY <1>15, <1>16, <1>17

(* A word of one letter is read as it is. *)
LEMMA AnnotationNames ==
  ASSUME NEW t \in Text, NEW B, Boundaries(t, B), NEW i, NEW s, StandsAt(t, B, i, s),
         At(t, i) \in Annotations, At(t, i + 1) \notin Alnum
  PROVE  s.str = <<At(t, i)>>
<1>1. At(t, i) = "const" /\ "const" \in Alnum /\ "const" # "eof"
  BY TokenTypes DEF Alnum
<1>2. /\ IsReadAt(t, i, s) /\ i \in DOMAIN t /\ At(t, i) = t[i] /\ s.str = SubSeq(t, i, s.at - 1)
      /\ DOMAIN t = 1 .. Len(t) /\ Len(t) \in Nat
  <2>1. /\ s.type = "EndOfInput" => At(t, i) = "eof"
        /\ s.type # "EndOfInput" => IsReadAt(t, i, s) /\ i \in DOMAIN t /\ At(t, i) = t[i]
        /\ s.str = SubSeq(t, i, s.at - 1) /\ DOMAIN t = 1 .. Len(t) /\ Len(t) \in Nat
    BY StandingTypes
  <2>2. s.type # "EndOfInput"
    BY <1>1, <2>1
  <2> QED BY <2>1, <2>2
<1>3. s.at = i + 1
  BY <1>1, <1>2, OneLetter
<1>4. s.at - 1 = i
  BY <1>2, <1>3
<1>5. SubSeq(t, i, i) = <<t[i]>>
  BY <1>2, CutOne DEF Text
<1> QED BY <1>2, <1>4, <1>5

(* lexAnnotation makes an annotation, or there is no token behind the @. *)
LEMMA AnnotationsAreMade ==
  ASSUME NEW B, NEW b, Setting(B, b), lexAnnotation
  PROVE  (\E e, type : Makes(B, b, e, type)) \/ NoTokenAt(b)
<1> DEFINE d == Start.at
           r == Rest
           n == next(text, r)
           w == Str \o r.str
           known == \E a \in Annotations : r.str = <<a>>
<1>1. text \in Text /\ Boundaries(text, B)
  BY DEF Setting
<1>2. Type = "Punctuation" /\ Str = <<"@">>
  BY DEF lexAnnotation
<1>3. /\ StandsAt(text, B, d, r)
      /\ Str = SubSeq(text, b, d - 1) /\ Str \in Text
      /\ b \in DOMAIN text /\ Str[1] = text[b] /\ d - Len(Str) = b
      /\ Len(text) \in Nat /\ DOMAIN text = 1 .. Len(text)
      /\ Piece(text, b, d, "Punctuation")
  BY <1>2, BehindStart
<1>4. d = b + 1 /\ text[b] = "@" /\ b \in Nat /\ d \in b + 1 .. Len(text) + 1
  <2>1. Piece(text, b, d, "Punctuation") /\ b \in 1 .. Len(text) /\ Len(text) \in Nat
    BY <1>3
  <2>2. d = b + 1 /\ d \in b + 1 .. Len(text) + 1
    BY <2>1 DEF Piece
  <2>3. <<"@">>[1] = "@"
    OBVIOUS
  <2> HIDE DEF d
  <2> QED BY <1>2, <1>3, <2>1, <2>2, <2>3
<1>5. \A k : Storable(k, Start) => Storable(k \o Str, r)
  BY BehindStart
<1>6. StandsAt(text, B, r.at, n)
  BY <1>1, <1>3, Onward
<1>7. IF known THEN Make(r.str[1], w, n) ELSE Undefined(n)
  BY DEF lexAnnotation
<1> HIDE DEF n
<1>8. CASE known
  <2>1. PICK a \in Annotations : r.str = <<a>>
    BY <1>8
  <2> HIDE DEF r, known, d
  <2>2. /\ r.at \in d .. Len(text) + 1 /\ r.str \in Text /\ Len(r.str) = r.at - d
        /\ r.str = SubSeq(text, d, r.at - 1)
        /\ r.type = "EndOfInput" => r.str = <<>>
        /\ r.type # "EndOfInput" => IsReadAt(text, d, r) /\ d \in DOMAIN text /\ r.str[1] = text[d]
    <3>1. StandsAt(text, B, d, r)
      BY <1>3
    <3> QED BY ONLY <1>1, <3>1, StandingTypes
  <2>3. Len(<<a>>) = 1 /\ <<a>>[1] = a /\ <<a>> # <<>> /\ a \in Letters /\ a \in Alnum
    BY TokenTypes DEF Alnum
  <2>4. r.at = d + 1 /\ IsReadAt(text, d, r) /\ text[d] = a /\ d \in DOMAIN text
    <3>1. r.at - d = 1 /\ r.at \in d .. Len(text) + 1
      BY <2>1, <2>2, <2>3
    <3>2. r.at = d + 1
      BY <1>4, <3>1
    <3> QED BY <2>1, <2>2, <2>3, <3>2
  <2>5. At(text, r.at) \notin Alnum
    <3>1. Piece(text, d, r.at, r.type) /\ Ends(text, d, r.at, r.type, At(text, r.at))
      BY <2>4 DEF IsReadAt
    <3>2. d \in d .. r.at - 1
      BY <1>3, <1>4, <2>4
    <3>3. r.type \in {"Number", "Word"}
      BY <2>3, <2>4, <3>1, <3>2, TheCharacters DEF Piece
    <3> QED BY <3>1, <3>3 DEF Ends
  <2>6. r.at = b + 2 /\ text[b + 1] = a /\ r.at \in b + 1 .. Len(text) + 1
    BY <1>3, <1>4, <2>2, <2>4
  <2>7. TokenAt(text, b, r.at, a, At(text, r.at))
    BY <1>3, <1>4, <2>5, <2>6 DEF TokenAt
  <2>8. w = SubSeq(text, b, r.at - 1)
    <3>1. b \in 1 .. Len(text) + 1 /\ d \in b .. Len(text) + 1 /\ text \in Seq(Characters)
      <4>1. Len(text) \in Nat /\ b \in 1 .. Len(text) /\ d = b + 1
        BY <1>3, <1>4
      <4> QED BY <1>1, <4>1 DEF Text
    <3>2. SubSeq(text, b, d - 1) \o SubSeq(text, d, r.at - 1) = SubSeq(text, b, r.at - 1)
      BY ONLY <3>1, <2>2, Joining
    <3> QED BY <3>2, <1>3, <2>2
  <2>9. ASSUME NEW k, Storable(k, Start) PROVE Storable(k \o w, n)
    <3> DEFINE x == Str
               y == r.str
    <3>1. Storable((k \o Str) \o r.str, n)
      <4>1. Storable(k \o Str, r)
        BY <1>5, <2>9
      <4> QED BY <1>1, <1>3, <4>1, Storing DEF n
    <3>2. k \in Text /\ x \in Text /\ y \in Text
      BY <1>3, <2>2, <2>9 DEF Storable
    <3> HIDE DEF x, y
    <3>3. (k \o x) \o y = k \o (x \o y)
      BY <3>2, Associative
    <3> QED BY <3>1, <3>3 DEF x, y
  <2>10. Make(a, w, n)
    <3>1. known
      BY <1>8
    <3>2. r.str[1] = a
      BY <2>1, <2>3
    <3> QED BY <1>7, <3>1, <3>2
  <2> HIDE DEF w
  <2>11. Makes(B, b, r.at, a)
    BY <1>3, <1>6, <2>7, <2>8, <2>9, <2>10 DEF Makes, Make, d
  <2> QED BY <2>11
<1>9. CASE ~known
  <2>1. ~(At(text, d) \in Annotations /\ At(text, d + 1) \notin Alnum)
    BY <1>1, <1>3, <1>9, AnnotationNames
  <2>2. ASSUME NEW e, NEW type, TokenAt(text, b, e, type, At(text, e)) PROVE FALSE
    <3>1. PICK m, p : FirstOf(text, b, e, type, m, p)
      BY <1>1, <2>2, FirstSubtoken
    <3>2. p = "Punctuation"
      <4>1. Piece(text, b, m, p) /\ Ends(text, b, m, p, At(text, m))
        BY <3>1 DEF FirstOf
      <4>2. Ends(text, b, d, "Punctuation", At(text, d))
        BY DEF Ends
      <4> QED BY <1>1, <1>3, <4>1, <4>2, OneReading
    <3>3. type \in Annotations /\ e = b + 2 /\ text[b + 1] = type /\ At(text, e) \notin Alnum
      BY <1>4, <3>1, <3>2 DEF FirstOf, Spans
    <3>4. d \in DOMAIN text /\ d + 1 = e
      <4>1. e \in b + 1 .. Len(text) + 1
        BY <2>2 DEF TokenAt
      <4>2. d = b + 1 /\ e = b + 2 /\ b \in 1 .. Len(text) /\ Len(text) \in Nat
            /\ DOMAIN text = 1 .. Len(text)
        BY <1>3, <1>4, <3>3
      <4> HIDE DEF d
      <4> QED BY <4>1, <4>2
    <3> QED BY <1>4, <2>1, <3>3, <3>4 DEF At
  <2>3. ASSUME Disciplined PROVE FALSE
    <3>1. At(text, b + 1) \in Annotations /\ ~LetterAt(b + 2)
      BY <1>3, <1>4, <2>3 DEF Disciplined
    <3>2. d = b + 1 /\ d + 1 = b + 2
      BY <1>4
    <3> QED BY <2>1, <3>1, <3>2 DEF LetterAt, Alnum
  <2>4. Undefined(n)
    BY <1>7, <1>9
  <2> QED BY <2>2, <2>3, <2>4 DEF NoTokenAt, Undefined
<1> QED BY <1>8, <1>9

(* In front of a token: a comment is passed over. *)
LEMMA Starting ==
  ASSUME text \in Text, NEW B, Boundaries(text, B), NEW i, StandsAt(text, B, i, subtoken)
  PROVE  \E b : /\ Setting(B, b) /\ i <= b /\ IsComment(Stretch(i, b))
                /\ i < b => Type \in {"Newline", "EndOfInput"} /\ text[i] = "#"
                /\ \A k : Storable(k, subtoken) => Storable(k, Start)
<1> DEFINE s == subtoken
<1>1. Taken = next(text, s)
  <2>1. Taken = Advanced(text, s)
    BY DEF Taken, next, subtoken
  <2>2. next(text, s) = Advanced(text, s)
    BY Onward
  <2> QED BY <2>1, <2>2
<1> HIDE DEF s
<1>2. /\ i \in 1 .. Len(text) + 1 /\ s.at \in i .. Len(text) + 1 /\ Len(text) \in Nat
      /\ s.type # "EndOfInput" => IsReadAt(text, i, s) /\ i < s.at
  BY StandingTypes DEF s
<1>3. CASE s.type # "Comment"
  <2>1. Start = s /\ Type = s.type
    BY <1>3 DEF Start, Type, s
  <2>2. Setting(B, i)
    BY <1>3, <2>1 DEF Setting, s
  <2>3. Stretch(i, i) = <<>>
    <3>1. i \in i .. Len(text) + 1
      BY <1>2
    <3>2. SubSeq(text, i, i - 1) \in Seq(Characters) /\ Len(SubSeq(text, i, i - 1)) = 0
      BY <1>2, <3>1, Cut DEF Text
    <3> QED BY <3>2 DEF Stretch
  <2>4. IsComment(Stretch(i, i)) /\ i <= i /\ ~(i < i)
    BY <1>2, <2>3 DEF IsComment
  <2> QED BY <2>1, <2>2, <2>4 DEF s
<1>4. CASE s.type = "Comment"
  <2> DEFINE b == s.at
  <2>1. Start = next(text, s) /\ Type = Start.type
    BY <1>1, <1>4 DEF Start, Type, s
  <2>2. StandsAt(text, B, b, Start)
    BY <2>1, Onward DEF s
  <2>3. Type \in {"Newline", "EndOfInput"}
    BY <1>4, <2>1, <2>2, BehindAComment DEF s
  <2>4. Setting(B, b)
    BY <2>2, <2>3 DEF Setting
  <2>5. Piece(text, i, b, "Comment") /\ i < b
    BY <1>2, <1>4 DEF IsReadAt
  <2>6. text[i] = "#" /\ \A j \in i .. b - 1 : text[j] # "\n"
    BY <2>5 DEF Piece
  <2>7. IsComment(Stretch(i, b))
    <3>1. /\ SubSeq(text, i, b - 1) \in Seq(Characters) /\ Len(SubSeq(text, i, b - 1)) = b - i
          /\ \A j \in 1 .. b - i : SubSeq(text, i, b - 1)[j] = text[i + j - 1]
      BY <1>2, Cut DEF Text
    <3> DEFINE c == SubSeq(text, i, b - 1)
    <3>2. c \in Seq(Characters) /\ Len(c) = b - i /\ \A j \in 1 .. b - i : c[j] = text[i + j - 1]
      BY <3>1
    <3>5. b \in i .. Len(text) + 1 /\ i < b /\ i \in 1 .. Len(text) + 1 /\ Len(text) \in Nat
      BY <1>2, <2>5
    <3> HIDE DEF c, b
    <3>3. c[1] = "#"
      <4>1. 1 \in 1 .. b - i /\ i + 1 - 1 = i
        BY <3>5
      <4> QED BY <2>6, <3>2, <4>1
    <3>4. \A j \in DOMAIN c : c[j] # "\n"
      <4> TAKE j \in DOMAIN c
      <4>1. j \in 1 .. b - i /\ i + j - 1 \in i .. b - 1
        BY <3>5, <3>2
      <4> QED BY <2>6, <3>2, <4>1
    <3> QED BY <3>3, <3>4 DEF c, IsComment, Stretch
  <2>8. ASSUME NEW k, Storable(k, s) PROVE Storable(k, Start)
    BY <1>4, <2>1, <2>8, StoringNoComment DEF s
  <2> QED BY <1>2, <2>3, <2>4, <2>5, <2>6, <2>7, <2>8 DEF s
<1> QED BY <1>3, <1>4

-----------------------------------------------------------------------------
(* The tokens that are made. *)

\* The types of tokens.
Kinds == Spans \cup Keywords \cup Annotations
           \cup {"Hex", "Identifier", "Integer", "Real", "Operator"}
Token == [type : Kinds, str : Text, at : Nat \ {0}]

\* A token is the text between its ends, and is one there.
IsToken(token) ==
  /\ token \in Token
  /\ TokenAt(text, token.at, EndOf(token), token.type, At(text, EndOf(token)))
  /\ token.str = Stretch(token.at, EndOf(token))

\* What is between a place and a token behind it.
Between(from, token) ==
  /\ from <= token.at
  /\ IsComment(Stretch(from, token.at))
  /\ from < token.at => token.type = "Newline" /\ text[from] = "#"

\* The place behind the last token.
Reached == IF tokens = <<>> THEN 1 ELSE EndOf(Last(tokens))
TokensInv ==
  /\ tokens \in Seq(Token)
  /\ \A i \in DOMAIN tokens : IsToken(tokens[i])
  /\ \A i \in DOMAIN tokens : Between(IF i = 1 THEN 1 ELSE EndOf(tokens[i - 1]), tokens[i])

(* The kinds of tokens. *)
LEMMA TheKinds ==
  ASSUME NEW t, NEW i, NEW e, NEW type, NEW c, TokenAt(t, i, e, type, c)
  PROVE  type \in Kinds
<1>1. ASSUME NEW s PROVE WordType(s) \in Kinds
  <2>1. CASE s[1] = "0" /\ s[2] = "x"
    <3>1. ASSUME NEW k \in Keywords, s = <<k>> PROVE FALSE
      <4>1. <<k>>[1] = k
        OBVIOUS
      <4> QED BY <2>1, <3>1, <4>1 DEF Keywords
    <3>2. WordType(s) = "Hex"
      BY <2>1, <3>1 DEF WordType
    <3> QED BY <3>2 DEF Kinds
  <2>2. CASE ~(s[1] = "0" /\ s[2] = "x") /\ \E k \in Keywords : s = <<k>>
    <3>1. WordType(s) = s[1]
      BY <2>2, Zenon DEF WordType
    <3>2. PICK k \in Keywords : s = <<k>>
      BY <2>2
    <3>3. <<k>>[1] = k
      OBVIOUS
    <3> QED BY <3>1, <3>2, <3>3 DEF Kinds
  <2>3. CASE ~(s[1] = "0" /\ s[2] = "x") /\ ~ \E k \in Keywords : s = <<k>>
    <3>1. WordType(s) = "Identifier"
      BY <2>3 DEF WordType
    <3> QED BY <3>1 DEF Kinds
  <2> QED BY <2>1, <2>2, <2>3
<1> QED BY <1>1 DEF TokenAt, Kinds

(* What a step of the lexer does, in front of a token. *)
LEMMA OneStep ==
  ASSUME NEW B, NEW b, Setting(B, b),
         lexWord \/ lexNumber \/ lexPunctuation \/ lexAnnotation \/ lexSpan \/ NoToken
  PROVE  \/ \E e, type : Makes(B, b, e, type)
         \/ NoTokenAt(b) /\ Type # "EndOfInput"
         \/ /\ Type = "EndOfInput" /\ b = Len(text) + 1
            /\ \/ phase = "lexing" /\ Store
               \/ phase # "lexing" /\ phase' = "done" /\ UNCHANGED <<text, tokens, first>>
<1>1. Type \in Types \cup {"EndOfInput"} /\ (Type = "EndOfInput" <=> b = Len(text) + 1)
  <2>1. text \in Text /\ Boundaries(text, B) /\ StandsAt(text, B, b, Start)
    BY DEF Setting
  <2> QED BY <2>1, StandingTypes DEF Type
<1>2. CASE lexWord
  BY <1>2, WordsAreMade
<1>3. CASE lexNumber
  BY <1>3, NumbersAreMade DEF lexNumber
<1>4. CASE lexPunctuation
  BY <1>4, OperatorsAreMade
<1>5. CASE lexAnnotation
  BY <1>5, AnnotationsAreMade DEF lexAnnotation
<1>6. CASE lexSpan
  BY <1>6, SpansAreMade
<1>7. CASE NoToken
  <2>1. Type = "EndOfInput"
    BY <1>1, <1>7 DEF NoToken, Types
  <2>2. phase = "lexing" => Store
    BY <1>7, <2>1 DEF NoToken
  <2>3. phase # "lexing" => phase' = "done" /\ UNCHANGED <<text, tokens, first>>
    BY <1>7, <2>1 DEF NoToken
  <2> QED BY <1>1, <2>1, <2>2, <2>3
<1> QED BY <1>2, <1>3, <1>4, <1>5, <1>6, <1>7

(* A token that is made goes on with the tokens. *)
LEMMA TokenIsMade ==
  ASSUME TokensInv, NEW B, NEW b, Setting(B, b), Reached <= b, IsComment(Stretch(Reached, b)),
         Reached < b => Type \in {"Newline", "EndOfInput"} /\ text[Reached] = "#",
         NEW e, NEW type, Makes(B, b, e, type)
  PROVE  TokensInv' /\ Reached' = e /\ Len(tokens') = Len(tokens) + 1
<1> DEFINE str == SubSeq(text, b, e - 1)
           token == [type |-> type, str |-> str, at |-> b]
           n == Len(tokens)
<1>1. /\ TokenAt(text, b, e, type, At(text, e)) /\ tokens' = Append(tokens, token)
      /\ text' = text
  BY DEF Makes
<1>2. text \in Text /\ Boundaries(text, B) /\ StandsAt(text, B, b, Start)
  BY DEF Setting
<1>3. /\ b \in 1 .. Len(text) /\ e \in b + 1 .. Len(text) + 1
      /\ Len(text) \in Nat /\ DOMAIN text = 1 .. Len(text)
  <2>1. b \in DOMAIN text /\ e \in b + 1 .. Len(text) + 1
    BY <1>1 DEF TokenAt
  <2>2. Len(text) \in Nat /\ DOMAIN text = 1 .. Len(text)
    BY <1>2 DEF Text
  <2> QED BY <2>1, <2>2
<1>4. str \in Text /\ Len(str) = e - b
  <2>1. b \in 1 .. Len(text) + 1 /\ e \in b .. Len(text) + 1
    BY <1>3
  <2> QED BY <1>2, <2>1, Cut DEF Text
<1> HIDE DEF str
<1>5. token \in Token /\ EndOf(token) = e /\ token.at = b /\ token.type = type /\ token.str = str
  <2>1. type \in Kinds
    BY <1>1, TheKinds
  <2>2. b + (e - b) = e /\ b \in Nat \ {0}
    BY <1>3
  <2> QED BY <1>4, <2>1, <2>2 DEF Token, EndOf
<1>6. IsToken(token)
  BY <1>1, <1>5 DEF IsToken, Stretch, str
<1>7. Between(Reached, token)
  <2>1. ASSUME Reached < b PROVE type = "Newline"
    <3>1. Type # "EndOfInput"
      <4>1. Type = "EndOfInput" => b = Len(text) + 1
        BY <1>2, StandingTypes DEF Type
      <4> QED BY <1>3, <4>1
    <3>2. Type = "Newline" /\ IsReadAt(text, b, Start)
      BY <1>2, <2>1, <3>1, StandingTypes DEF Type
    <3>3. /\ Piece(text, b, Start.at, "Newline")
          /\ Ends(text, b, Start.at, "Newline", At(text, Start.at))
      BY <3>2 DEF IsReadAt, Type
    <3>4. TokenAt(text, b, Start.at, "Newline", At(text, Start.at))
      BY <1>3, <3>3 DEF TokenAt, Piece, Spans
    <3> QED BY <1>1, <1>2, <3>4, OneToken
  <2> QED BY <1>5, <2>1 DEF Between
<1> HIDE DEF token
<1>8. tokens \in Seq(Token) /\ n \in Nat /\ DOMAIN tokens = 1 .. n
      /\ (tokens = <<>> <=> n = 0)
  BY DEF TokensInv
<1>9. /\ tokens' \in Seq(Token) /\ Len(tokens') = n + 1 /\ DOMAIN tokens' = 1 .. n + 1
      /\ tokens'[n + 1] = token /\ \A i \in 1 .. n : tokens'[i] = tokens[i]
  BY <1>1, <1>5, <1>8
<1>10. Reached' = e
  <2>1. tokens' # <<>> /\ Last(tokens') = token
    BY <1>8, <1>9 DEF Last
  <2> QED BY <1>5, <2>1 DEF Reached, EndOf
<1>11. \A i \in DOMAIN tokens' : IsToken(tokens'[i])
  BY <1>6, <1>8, <1>9 DEF TokensInv
<1>12. (\A i \in DOMAIN tokens : IsToken(tokens[i]))'
  BY <1>1, <1>11 DEF IsToken, Stretch, EndOf
<1>13. ASSUME NEW i \in DOMAIN tokens'
       PROVE  Between(IF i = 1 THEN 1 ELSE EndOf(tokens'[i - 1]), tokens'[i])
  <2>1. CASE i \in 1 .. n
    <3>1. i # 1 => i - 1 \in 1 .. n
      BY <1>8, <2>1
    <3>2. tokens'[i] = tokens[i] /\ (i # 1 => tokens'[i - 1] = tokens[i - 1])
      BY <1>9, <2>1, <3>1
    <3> QED BY <1>8, <2>1, <3>2 DEF TokensInv
  <2>2. CASE i = n + 1
    <3>1. Reached = IF i = 1 THEN 1 ELSE EndOf(tokens'[i - 1])
      <4>1. CASE n = 0
        BY <1>8, <2>2, <4>1 DEF Reached
      <4>2. CASE n # 0
        <5>1. n \in 1 .. n /\ i - 1 = n /\ i # 1
          BY <1>8, <2>2, <4>2
        <5>2. tokens'[n] = tokens[n] /\ tokens # <<>>
          BY <1>8, <1>9, <4>2, <5>1
        <5> QED BY <5>1, <5>2 DEF Reached, Last
      <4> QED BY <4>1, <4>2
    <3> QED BY <1>7, <1>9, <2>2, <3>1
  <2> QED BY <1>8, <1>9, <1>13, <2>1, <2>2
<1>14. (\A i \in DOMAIN tokens :
          Between(IF i = 1 THEN 1 ELSE EndOf(tokens[i - 1]), tokens[i]))'
  BY <1>1, <1>13 DEF Between, Stretch, EndOf
<1> QED BY <1>9, <1>10, <1>12, <1>14 DEF TokensInv

-----------------------------------------------------------------------------
(* The tokens that are stored. *)

\* The sequences of ss are in t one behind the other, the one numbered i from p[i - 1].
Placed(t, ss, p) ==
  /\ p[0] = 1 /\ p[Len(ss)] = Len(t) + 1
  /\ \A i \in 1 .. Len(ss) :
       /\ p[i - 1] \in Nat \ {0} /\ p[i] = p[i - 1] + Len(ss[i]) /\ p[i] <= Len(t) + 1
       /\ \A j \in 0 .. Len(ss[i]) - 1 : t[p[i - 1] + j] = ss[i][1 + j]

(* The places of sequences that are put one behind the other. *)
LEMMA PlacesOf ==
  ASSUME NEW S, NEW ss \in Seq(Seq(S)), NEW f, Flattening(f, ss, Len(ss)), Len(ss) # 0,
         NEW p, p = [i \in 0 .. Len(ss) |-> IF i = 0 THEN 1 ELSE Len(f[i]) + 1]
  PROVE  Placed(f[Len(ss)], ss, p)
<1> DEFINE n == Len(ss)
<1>1. n \in Nat /\ DOMAIN ss = 1 .. n /\ 1 \in 1 .. n /\ n \in 1 .. n
  OBVIOUS
<1>2. \A i \in 1 .. n : ss[i] \in Seq(S) /\ Len(ss[i]) \in Nat
  BY <1>1
<1>3. \A i \in 1 .. n : f[i] \in Seq(S) /\ Len(f[i]) \in Nat
  BY FlatteningType
<1>4. \A i \in 1 .. n : f[i] = IF i = 1 THEN ss[i] ELSE f[i - 1] \o ss[i]
  BY <1>1 DEF Flattening
<1>5. p[0] = 1 /\ \A i \in 1 .. n : p[i] = Len(f[i]) + 1
  BY <1>1
<1>6. \A i \in 1 .. n : p[i - 1] \in Nat \ {0} /\ p[i] = p[i - 1] + Len(ss[i])
  <2> TAKE i \in 1 .. n
  <2>1. CASE i = 1
    BY <1>2, <1>4, <1>5, <2>1
  <2>2. CASE i # 1
    <3> DEFINE h == i - 1
    <3>1. h \in 1 .. n
      BY <2>2, <1>1
    <3> HIDE DEF h
    <3>2. f[i] = f[h] \o ss[i] /\ f[h] \in Seq(S) /\ ss[i] \in Seq(S) /\ p[h] = Len(f[h]) + 1
          /\ p[i] = Len(f[i]) + 1
      BY <2>2, <1>2, <1>3, <1>4, <1>5, <3>1 DEF h
    <3>3. Len(f[h] \o ss[i]) = Len(f[h]) + Len(ss[i]) /\ Len(f[h]) \in Nat /\ Len(ss[i]) \in Nat
      BY <3>2, Concatenated
    <3> DEFINE lh == Len(f[h])
               li == Len(f[i])
               ls == Len(ss[i])
               ph == p[h]
               pi == p[i]
    <3>4. li = lh + ls /\ lh \in Nat /\ ls \in Nat /\ ph = lh + 1 /\ pi = li + 1
      BY <3>2, <3>3
    <3> HIDE DEF lh, li, ls, ph, pi
    <3>5. ph \in Nat \ {0} /\ pi = ph + ls
      BY <3>4
    <3> QED BY <3>5 DEF h, ph, pi, ls
  <2> QED BY <2>1, <2>2
<1> HIDE DEF n
<1> DEFINE Good(m) == \A i \in 1 .. m :
             /\ p[i] <= Len(f[m]) + 1
             /\ \A j \in 0 .. Len(ss[i]) - 1 : f[m][p[i - 1] + j] = ss[i][1 + j]
<1>7. Good(1)
  <2>1. ASSUME NEW i \in 1 .. 1
        PROVE  /\ p[i] <= Len(f[1]) + 1
               /\ \A j \in 0 .. Len(ss[i]) - 1 : f[1][p[i - 1] + j] = ss[i][1 + j]
    <3>1. i = 1 /\ i - 1 = 0
      BY <2>1
    <3>2. p[1] = Len(f[1]) + 1 /\ p[0] = 1 /\ f[1] = ss[1]
      BY <1>1, <1>4, <1>5
    <3> QED BY <1>1, <1>3, <3>1, <3>2
  <2> QED BY <2>1
<1>8. ASSUME NEW m \in 1 .. n - 1, Good(m) PROVE Good(m + 1)
  <2> DEFINE q == m + 1
  <2>1. q \in 1 .. n /\ q # 1 /\ q - 1 = m /\ m \in 1 .. n
    BY <1>1
  <2> HIDE DEF q
  <2>2. f[q] = f[m] \o ss[q] /\ f[m] \in Seq(S) /\ ss[q] \in Seq(S)
    BY <1>2, <1>3, <1>4, <2>1
  <2>3. /\ Len(f[q]) = Len(f[m]) + Len(ss[q])
        /\ \A k \in 1 .. Len(f[m]) : f[q][k] = f[m][k]
        /\ \A k \in 1 .. Len(ss[q]) : f[q][Len(f[m]) + k] = ss[q][k]
        /\ Len(f[m]) \in Nat /\ Len(ss[q]) \in Nat
    <3> DEFINE w == f[m]
               x == ss[q]
    <3>1. w \in Seq(S) /\ x \in Seq(S) /\ f[q] = w \o x
      BY <2>2
    <3> HIDE DEF w, x
    <3>2. /\ Len(w \o x) = Len(w) + Len(x)
          /\ \A k \in 1 .. Len(w) : (w \o x)[k] = w[k]
          /\ \A k \in 1 .. Len(x) : (w \o x)[Len(w) + k] = x[k]
          /\ Len(w) \in Nat /\ Len(x) \in Nat
      BY <3>1, Concatenated
    <3> QED BY <3>1, <3>2 DEF w, x
  <2>4. ASSUME NEW i \in 1 .. m
        PROVE  /\ p[i] <= Len(f[q]) + 1
               /\ \A j \in 0 .. Len(ss[i]) - 1 : f[q][p[i - 1] + j] = ss[i][1 + j]
    <3> DEFINE a == p[i - 1]
               l == Len(ss[i])
               z == p[i]
               w == f[m]
               v == f[q]
               lw == Len(w)
    <3>1. z <= lw + 1 /\ \A j \in 0 .. l - 1 : w[a + j] = ss[i][1 + j]
      BY <1>8
    <3>2. i \in 1 .. n
      BY <2>1, <1>1
    <3>3. a \in Nat \ {0} /\ z = a + l /\ l \in Nat
      BY <3>2, <1>6, <1>2
    <3>4. Len(v) = lw + Len(ss[q]) /\ lw \in Nat /\ Len(ss[q]) \in Nat
          /\ \A k \in 1 .. lw : v[k] = w[k]
      BY <2>3
    <3> HIDE DEF a, l, z, w, v, lw
    <3>5. z <= Len(v) + 1
      BY <3>1, <3>3, <3>4
    <3>6. \A j \in 0 .. l - 1 : v[a + j] = ss[i][1 + j]
      <4> TAKE j \in 0 .. l - 1
      <4>1. a + j \in 1 .. lw
        BY <3>1, <3>3, <3>4
      <4> QED BY <3>1, <3>4, <4>1
    <3> QED BY <3>5, <3>6 DEF a, l, z, w, v, lw
  <2>5. /\ p[q] <= Len(f[q]) + 1
        /\ \A j \in 0 .. Len(ss[q]) - 1 : f[q][p[q - 1] + j] = ss[q][1 + j]
    <3>1. p[q] = Len(f[q]) + 1 /\ p[q - 1] = Len(f[m]) + 1
      BY <1>5, <2>1
    <3>2. Len(f[q]) \in Nat
      BY <1>3, <2>1
    <3> DEFINE l == Len(ss[q])
               lw == Len(f[m])
               x == ss[q]
               v == f[q]
               lv == Len(v)
               z == p[q]
    <3>3. /\ l \in Nat /\ lw \in Nat /\ \A k \in 1 .. l : v[lw + k] = x[k]
          /\ z = lv + 1 /\ lv \in Nat
      BY <2>3, <3>1, <3>2
    <3>4. p[q - 1] = lw + 1
      BY <3>1
    <3> HIDE DEF l, lw, x, v, z, lv
    <3>5. ASSUME NEW j \in 0 .. l - 1 PROVE v[lw + 1 + j] = x[1 + j]
      <4>1. 1 + j \in 1 .. l /\ lw + 1 + j = lw + (1 + j)
        BY <3>3
      <4> QED BY <3>3, <4>1
    <3>6. z <= lv + 1
      BY <3>3
    <3> QED BY <3>4, <3>5, <3>6 DEF l, x, v, z, lv
  <2>6. \A i \in 1 .. q : i \in 1 .. m \/ i = q
    BY <2>1, <1>1
  <2>7. Good(q)
    BY <2>4, <2>5, <2>6
  <2> QED BY <2>7 DEF q
<1>9. Good(n)
  <2> DEFINE G == {m \in 1 .. n : Good(m)}
  <2> HIDE DEF Good
  <2>1. 1 \in G
    BY <1>1, <1>7 DEF n
  <2>2. \A i \in 1 .. n - 1 : i \in G => i + 1 \in G
    BY <1>1, <1>8
  <2>4. n \in Nat
    BY <1>1
  <2> HIDE DEF G
  <2>3. \A i \in 1 .. n : i \in G
    BY ONLY <2>4, <2>1, <2>2, InductionUpTo
  <2> QED BY <2>3, <1>1 DEF G, n
<1> QED BY <1>1, <1>5, <1>6, <1>9 DEF Placed, n

(* Sequences that FlattenSeq joins have their places in the result. *)
LEMMA FlattenedPlaces ==
  ASSUME NEW S, NEW ss \in Seq(Seq(S))
  PROVE  \E p : Placed(FlattenSeq(ss), ss, p)
<1>1. CASE Len(ss) # 0
  <2>1. PICK f : Flattening(f, ss, Len(ss)) /\ FlattenSeq(ss) = f[Len(ss)]
    BY <1>1, FlattenSeqIs
  <2> DEFINE p == [i \in 0 .. Len(ss) |-> IF i = 0 THEN 1 ELSE Len(f[i]) + 1]
  <2>2. Placed(f[Len(ss)], ss, p)
    BY <1>1, <2>1, PlacesOf
  <2> QED BY <2>1, <2>2
<1>2. CASE Len(ss) = 0
  <2>1. ss = <<>> /\ FlattenSeq(ss) = <<>>
    BY <1>2, FlattenSeqEmpty
  <2> DEFINE p == [i \in {0} |-> 1]
  <2>2. Placed(<<>>, <<>>, p)
    BY DEF Placed
  <2> QED BY <2>1, <2>2
<1> QED BY <1>1, <1>2

\* What follows a token in the text that these tokens are stored as.
Follows(ts, i) == IF i = Len(ts) THEN "eof" ELSE ts[i + 1].str[1]
\* Each token is one by itself, with the next one behind it.
Faithful(ts) ==
  \A i \in DOMAIN ts :
    TokenAt(ts[i].str, 1, Len(ts[i].str) + 1, ts[i].type, Follows(ts, i))

\* What is stored of tokens.
Texts(ts) == [i \in DOMAIN ts |-> ts[i].str]
Stored == FlattenSeq(Texts(tokens))

\* In t the tokens ts are one behind the other, from these places.
Reread(t, ts, p) ==
  /\ p[0] = 1 /\ p[Len(ts)] = Len(t) + 1
  /\ \A i \in 1 .. Len(ts) :
       /\ TokenAt(t, p[i - 1], p[i], ts[i].type, At(t, p[i]))
       /\ ts[i].str = SubSeq(t, p[i - 1], p[i] - 1)

(* A token's text is a token by itself. *)
LEMMA TokensByThemselves ==
  ASSUME text \in Text, NEW token, IsToken(token), NEW c,
         \/ c = At(text, EndOf(token))
         \/ At(text, EndOf(token)) = "#" /\ c \in {"\n", "eof"}
  PROVE  TokenAt(token.str, 1, Len(token.str) + 1, token.type, c)
<1> DEFINE s == token.str
           i == token.at
           e == EndOf(token)
           type == token.type
<1>1. TokenAt(text, i, e, type, At(text, e)) /\ s = SubSeq(text, i, e - 1) /\ s \in Text
  BY DEF IsToken, Stretch, Token
<1>2. TokenAt(text, i, e, type, c)
  <2> HIDE DEF i, e, type
  <2> QED BY <1>1, InFrontOfAComment DEF e
<1> HIDE DEF s, i, e, type
<1>3. i \in 1 .. Len(text) /\ e \in i + 1 .. Len(text) + 1 /\ Len(text) \in Nat
      /\ DOMAIN text = 1 .. Len(text)
  BY <1>1 DEF TokenAt, Text
<1>4. Len(s) = e - i /\ \A k \in 1 .. e - i : s[k] = text[i + k - 1]
  <2>1. i \in 1 .. Len(text) + 1 /\ e \in i .. Len(text) + 1 /\ text \in Seq(Characters)
    BY <1>3 DEF Text
  <2> QED BY <1>1, <2>1, Cut
<1> DEFINE b == Len(s) + 1
<1>5. b \in Nat /\ b - 1 = e - i /\ b <= Len(s) + 1 /\ 1 \in Nat \ {0}
  BY <1>3, <1>4
<1>6. \A k \in 0 .. e - i - 1 : s[1 + k] = text[i + k]
  <2> TAKE k \in 0 .. e - i - 1
  <2> DEFINE q == 1 + k
  <2>1. q \in 1 .. e - i /\ i + q - 1 = i + k
    BY <1>3
  <2> QED BY <1>4, <2>1
<1> HIDE DEF b
<1>7. TokenAt(s, 1, b, type, c)
  <2>1. text \in Text
    OBVIOUS
  <2> QED BY ONLY <2>1, <1>1, <1>2, <1>5, <1>6, MovingToken
<1> QED BY <1>7 DEF b, s, type

(* A comment that is not empty begins with its sign. *)
LEMMA CommentsBegin ==
  ASSUME text \in Text, NEW i \in 1 .. Len(text) + 1, NEW b \in i .. Len(text) + 1, i < b,
         IsComment(Stretch(i, b))
  PROVE  text[i] = "#"
<1>1. Len(text) \in Nat /\ text \in Seq(Characters)
  BY DEF Text
<1>2. /\ Len(Stretch(i, b)) = b - i /\ \A k \in 1 .. b - i : Stretch(i, b)[k] = text[i + k - 1]
      /\ Stretch(i, b) \in Seq(Characters)
  BY <1>1, Cut DEF Stretch
<1> DEFINE s == Stretch(i, b)
<1> HIDE DEF s
<1>3. s \in Seq(Characters) /\ Len(s) = b - i /\ \A k \in 1 .. b - i : s[k] = text[i + k - 1]
  BY <1>2 DEF s
<1>4. s # <<>> /\ 1 \in 1 .. b - i /\ i + 1 - 1 = i
  BY <1>1, <1>3
<1>5. s[1] = "#"
  BY <1>4 DEF IsComment, s
<1> QED BY <1>3, <1>4, <1>5

(* Where a token ends. *)
LEMMA TokenEnds ==
  ASSUME text \in Text, NEW token, IsToken(token)
  PROVE  /\ token.at \in 1 .. Len(text) /\ EndOf(token) \in token.at + 1 .. Len(text) + 1
         /\ token.str \in Text /\ Len(token.str) > 0 /\ token.str[1] = text[token.at]
         /\ Len(text) \in Nat /\ DOMAIN text = 1 .. Len(text)
<1> DEFINE s == token.str
           i == token.at
           e == EndOf(token)
<1>1. TokenAt(text, i, e, token.type, At(text, e)) /\ s = SubSeq(text, i, e - 1) /\ s \in Text
  BY DEF IsToken, Stretch, Token
<1> HIDE DEF s, i, e
<1>2. i \in 1 .. Len(text) /\ e \in i + 1 .. Len(text) + 1 /\ Len(text) \in Nat
      /\ DOMAIN text = 1 .. Len(text)
  BY <1>1 DEF TokenAt, Text
<1>3. Len(s) = e - i /\ \A k \in 1 .. e - i : s[k] = text[i + k - 1]
  <2>1. i \in 1 .. Len(text) + 1 /\ e \in i .. Len(text) + 1 /\ text \in Seq(Characters)
    BY <1>2 DEF Text
  <2> QED BY <1>1, <2>1, Cut
<1>4. Len(s) > 0 /\ 1 \in 1 .. e - i /\ i + 1 - 1 = i
  BY <1>2, <1>3
<1> QED BY <1>1, <1>2, <1>3, <1>4 DEF s, i, e

(* The tokens of a whole text, without its comments. *)
LEMMA StoredTokens ==
  ASSUME TokensInv, text \in Text, Reached \in 1 .. Len(text) + 1,
         IsComment(Stretch(Reached, Len(text) + 1))
  PROVE  Faithful(tokens)
<1> SUFFICES ASSUME NEW i \in DOMAIN tokens
             PROVE  TokenAt(tokens[i].str, 1, Len(tokens[i].str) + 1, tokens[i].type,
                            Follows(tokens, i))
  BY DEF Faithful
<1> DEFINE n == Len(tokens)
           e == EndOf(tokens[i])
<1>1. tokens \in Seq(Token) /\ n \in Nat /\ i \in 1 .. n /\ IsToken(tokens[i])
      /\ DOMAIN tokens = 1 .. n
  BY DEF TokensInv
<1>2. e \in 1 .. Len(text) + 1 /\ Len(text) \in Nat /\ DOMAIN text = 1 .. Len(text)
  <2>1. tokens[i].at \in 1 .. Len(text) /\ EndOf(tokens[i]) \in tokens[i].at + 1 .. Len(text) + 1
        /\ Len(text) \in Nat /\ DOMAIN text = 1 .. Len(text)
    BY <1>1, TokenEnds
  <2> QED BY <2>1
<1>3. CASE i = n
  <2>1. Reached = e
    <3>1. tokens # <<>>
      BY <1>1
    <3> QED BY <1>3, <3>1 DEF Reached, Last
  <2> HIDE DEF e
  <2>2. \/ At(text, e) = "eof"
        \/ At(text, e) = "#"
    <3>1. CASE e = Len(text) + 1
      BY <1>2, <3>1 DEF At
    <3>2. CASE e # Len(text) + 1
      <4>1. e < Len(text) + 1 /\ Len(text) + 1 \in e .. Len(text) + 1 /\ e \in DOMAIN text
        BY <1>2, <3>2
      <4>2. text[e] = "#"
        BY <1>2, <2>1, <4>1, CommentsBegin
      <4> QED BY <4>1, <4>2 DEF At
    <3> QED BY <3>1, <3>2
  <2>3. Follows(tokens, i) = "eof"
    BY <1>3 DEF Follows
  <2> QED BY <1>1, <2>2, <2>3, TokensByThemselves DEF e
<1>4. CASE i # n
  <2> DEFINE j == i + 1
             next1 == tokens[j]
  <2>1. j \in 1 .. n /\ j # 1 /\ j - 1 = i
    BY <1>1, <1>4
  <2> HIDE DEF j
  <2>2. IsToken(next1) /\ Between(e, next1)
    BY <1>1, <2>1 DEF TokensInv
  <2>3. Follows(tokens, i) = next1.str[1]
    BY <1>4 DEF Follows, j
  <2>4. next1.at \in 1 .. Len(text) /\ next1.str[1] = text[next1.at]
    BY <2>2, TokenEnds
  <2> HIDE DEF next1
  <2>5. CASE e = next1.at
    <3>1. Follows(tokens, i) = At(text, e)
      BY <1>2, <2>3, <2>4, <2>5 DEF At
    <3> QED BY <1>1, <3>1, TokensByThemselves
  <2>6. CASE e # next1.at
    <3>1. e < next1.at /\ next1.type = "Newline" /\ text[e] = "#" /\ e \in DOMAIN text
      BY <1>2, <2>2, <2>4, <2>6 DEF Between
    <3>2. text[next1.at] = "\n"
      <4>1. TokenAt(text, next1.at, EndOf(next1), "Newline", At(text, EndOf(next1)))
        BY <2>2, <3>1 DEF IsToken
      <4>2. ~("Newline" \in {"String", "Character", "Whitespace"}) /\ Annotations = {"const"}
        BY TokenTypes
      <4>3. \A s : WordType(s) # "Newline"
        <5> TAKE s
        <5>1. CASE s[1] = "0" /\ s[2] = "x"
          <6>1. ASSUME NEW k \in Keywords, s = <<k>> PROVE FALSE
            <7>1. <<k>>[1] = k
              OBVIOUS
            <7> QED BY <5>1, <6>1, <7>1 DEF Keywords
          <6> QED BY <5>1, <6>1 DEF WordType
        <5>2. CASE ~(s[1] = "0" /\ s[2] = "x") /\ \E k \in Keywords : s = <<k>>
          <6>1. WordType(s) = s[1]
            BY <5>2, Zenon DEF WordType
          <6>2. PICK k \in Keywords : s = <<k>>
            BY <5>2
          <6>3. <<k>>[1] = k
            OBVIOUS
          <6> QED BY <6>1, <6>2, <6>3 DEF Keywords
        <5>3. CASE ~(s[1] = "0" /\ s[2] = "x") /\ ~ \E k \in Keywords : s = <<k>>
          <6>1. WordType(s) = "Identifier"
            BY <5>3 DEF WordType
          <6> QED BY <6>1
        <5> QED BY <5>1, <5>2, <5>3
      <4>4. Piece(text, next1.at, EndOf(next1), "Newline")
        BY <4>1, <4>2, <4>3 DEF TokenAt
      <4> QED BY <4>4 DEF Piece
    <3>3. At(text, e) = "#" /\ Follows(tokens, i) = "\n"
      BY <2>3, <2>4, <3>1, <3>2 DEF At
    <3> QED BY <1>1, <3>3, TokensByThemselves
  <2> QED BY <2>5, <2>6
<1> QED BY <1>3, <1>4

(* Tokens that are stored one behind the other are in that text as they were. *)
LEMMA Rereading ==
  ASSUME NEW ts \in Seq(Token), Faithful(ts)
  PROVE  \E p : Reread(FlattenSeq(Texts(ts)), ts, p) /\ FlattenSeq(Texts(ts)) \in Text
<1> DEFINE ss == Texts(ts)
           t == FlattenSeq(ss)
           n == Len(ts)
<1>1. n \in Nat /\ DOMAIN ts = 1 .. n /\ \A i \in 1 .. n : ts[i] \in Token /\ ts[i].str \in Text
  <2>1. \A token \in Token : token.str \in Text
    BY DEF Token
  <2> QED BY <2>1
<1>2. ss \in Seq(Text) /\ Len(ss) = n /\ \A i \in 1 .. n : ss[i] = ts[i].str
  BY <1>1 DEF Texts
<1> HIDE DEF ss, n
<1>3. t \in Text
  BY <1>2, FlattenSeqType DEF Text
<1>4. PICK p : Placed(t, ss, p)
  BY <1>2, FlattenedPlaces DEF Text
<1> HIDE DEF t
<1>5. p[0] = 1 /\ p[n] = Len(t) + 1 /\ Len(t) \in Nat /\ DOMAIN t = 1 .. Len(t)
  BY <1>2, <1>3, <1>4 DEF Placed, Text
<1>6. \A i \in 1 .. n :
        /\ p[i - 1] \in Nat \ {0} /\ p[i] = p[i - 1] + Len(ts[i].str) /\ p[i] <= Len(t) + 1
        /\ \A j \in 0 .. Len(ts[i].str) - 1 : t[p[i - 1] + j] = ts[i].str[1 + j]
        /\ Len(ts[i].str) \in Nat \ {0}
        /\ TokenAt(ts[i].str, 1, Len(ts[i].str) + 1, ts[i].type, Follows(ts, i))
  <2> TAKE i \in 1 .. n
  <2>1. /\ p[i - 1] \in Nat \ {0} /\ p[i] = p[i - 1] + Len(ss[i]) /\ p[i] <= Len(t) + 1
        /\ \A j \in 0 .. Len(ss[i]) - 1 : t[p[i - 1] + j] = ss[i][1 + j]
    BY <1>2, <1>4 DEF Placed
  <2>2. TokenAt(ts[i].str, 1, Len(ts[i].str) + 1, ts[i].type, Follows(ts, i))
    BY <1>1 DEF Faithful
  <2>3. Len(ts[i].str) \in Nat \ {0}
    <3> DEFINE s == ts[i].str
    <3>1. s \in Seq(Characters)
      BY <1>1 DEF Text
    <3>2. 1 \in DOMAIN s
      BY <2>2 DEF TokenAt
    <3> HIDE DEF s
    <3>3. Len(s) \in Nat \ {0}
      BY <3>1, <3>2
    <3> QED BY <3>3 DEF s
  <2> QED BY <1>2, <2>1, <2>2, <2>3
<1>7. ASSUME NEW i \in 1 .. n
      PROVE  /\ TokenAt(t, p[i - 1], p[i], ts[i].type, At(t, p[i]))
             /\ ts[i].str = SubSeq(t, p[i - 1], p[i] - 1)
  <2> DEFINE s == ts[i].str
             a == p[i - 1]
             b == p[i]
             l == Len(s)
             c == Follows(ts, i)
             type == ts[i].type
  <2>1. /\ a \in Nat \ {0} /\ b = a + l /\ b <= Len(t) + 1 /\ l \in Nat \ {0}
        /\ \A j \in 0 .. l - 1 : t[a + j] = s[1 + j]
        /\ TokenAt(s, 1, l + 1, type, c)
    BY <1>6
  <2>2. c = At(t, b)
    <3>1. CASE i = n
      <4>1. c = "eof"
        BY <3>1 DEF Follows, n
      <4> QED BY <1>5, <3>1, <4>1 DEF At
    <3>2. CASE i # n
      <4> DEFINE j == i + 1
      <4>1. j \in 1 .. n /\ j - 1 = i
        BY <1>1, <3>2
      <4>2. c = ts[j].str[1]
        BY <3>2 DEF Follows, n
      <4> HIDE DEF j
      <4> DEFINE x == ts[j].str
                 lx == Len(x)
                 d == p[j]
      <4>3. /\ d = b + lx /\ d <= Len(t) + 1 /\ lx \in Nat \ {0}
            /\ \A k \in 0 .. lx - 1 : t[b + k] = x[1 + k]
        BY <1>6, <4>1
      <4> HIDE DEF x, lx, d, a, b, l, s, type, c
      <4>4. 0 \in 0 .. lx - 1 /\ b + 0 = b /\ 1 + 0 = 1 /\ b \in 1 .. Len(t)
        BY <1>5, <2>1, <4>3
      <4>5. t[b] = x[1]
        BY <4>3, <4>4
      <4> QED BY <1>5, <4>2, <4>4, <4>5 DEF At, x
    <3> QED BY <3>1, <3>2
  <2>3. s \in Text
    BY <1>1
  <2> HIDE DEF a, b, l, s, type, c
  <2>4. TokenAt(t, a, b, type, c)
    <3> DEFINE e == l + 1
    <3>1. b \in Nat /\ b - a = e - 1
      BY <2>1
    <3>2. \A k \in 0 .. e - 1 - 1 : t[a + k] = s[1 + k]
      BY <2>1
    <3>3. TokenAt(s, 1, e, type, c)
      BY <2>1
    <3> HIDE DEF e
    <3> QED BY ONLY <1>3, <2>1, <2>3, <3>1, <3>2, <3>3, MovingToken
  <2>5. s = SubSeq(t, a, b - 1)
    <3>1. a \in 1 .. Len(t) + 1 /\ b \in a .. Len(t) + 1 /\ t \in Seq(Characters)
      BY <1>3, <1>5, <2>1 DEF Text
    <3> DEFINE u == SubSeq(t, a, b - 1)
    <3>2. u \in Seq(Characters) /\ Len(u) = b - a /\ \A k \in 1 .. b - a : u[k] = t[a + k - 1]
      BY <3>1, Cut
    <3> HIDE DEF u
    <3>3. s \in Seq(Characters) /\ Len(s) = l
      BY <2>3 DEF Text, l
    <3>4. Len(u) = Len(s) /\ l = b - a
      BY <2>1, <3>2, <3>3
    <3>5. \A k \in 1 .. Len(s) : s[k] = u[k]
      <4> TAKE k \in 1 .. Len(s)
      <4> DEFINE j == k - 1
      <4>1. j \in 0 .. l - 1 /\ 1 + j = k /\ a + j = a + k - 1 /\ k \in 1 .. b - a
        BY <2>1, <3>3, <3>4
      <4> HIDE DEF j
      <4> QED BY <2>1, <3>2, <4>1
    <3>6. s = u
      BY <3>2, <3>3, <3>4, <3>5, SeqEqual
    <3> QED BY <3>6 DEF u
  <2> QED BY <2>2, <2>4, <2>5 DEF a, b, l, s, type, c
<1>8. Reread(t, ts, p)
  BY <1>5, <1>7 DEF Reread, n
<1> QED BY <1>3, <1>8 DEF t, ss

-----------------------------------------------------------------------------
(* The invariant. *)

\* Where the text is.
Phases == {"preprocessing", "refused", "lexing", "relexing", "stopped", "done"}

\* The lexer stands behind the tokens that are made.
Standing == \E B : Boundaries(text, B) /\ StandsAt(text, B, Reached, subtoken)

\* The tokens are the first ones again, as far as they are made.
Repeated ==
  /\ Len(tokens) <= Len(first)
  /\ \A i \in DOMAIN tokens : tokens[i].type = first[i].type /\ tokens[i].str = first[i].str
Resumed ==
  /\ first \in Seq(Token)
  /\ Repeated
  /\ \E p : Reread(text, first, p) /\ Reached = p[Len(tokens)]

\* What holds of the text and its tokens from one step to the next.
LexingInv ==
  /\ PreprocessingInv
  /\ phase \in Phases
  /\ TokensInv
  /\ phase \in {"preprocessing", "refused"} => tokens = <<>>
  /\ phase \in {"preprocessing", "refused", "lexing", "stopped"} => first = <<>>
  /\ phase = "stopped" => ~Disciplined
  /\ phase \in {"lexing", "relexing"} => Standing
  /\ phase = "lexing" => Storable(Stored, subtoken)
  /\ phase = "relexing" => Resumed
  /\ phase = "done" =>
       /\ Repeated /\ Len(tokens) = Len(first)
       /\ tokens # <<>> => IsComment(Stretch(Reached, Len(text) + 1))

(* No tokens are tokens of any text. *)
LEMMA NoTokens ==
  ASSUME tokens = <<>>
  PROVE  TokensInv /\ Reached = 1 /\ Stored = <<>>
<1>1. DOMAIN tokens = {} /\ tokens \in Seq(Token)
  OBVIOUS
<1>2. Texts(tokens) = <<>>
  BY <1>1 DEF Texts
<1>3. Stored = <<>>
  BY <1>2, FlattenSeqEmpty DEF Stored
<1> QED BY <1>1, <1>3 DEF TokensInv, Reached

(* At first there are no tokens. *)
LEMMA InitLexing == Init => LexingInv
<1> SUFFICES ASSUME Init PROVE LexingInv
  OBVIOUS
<1>1. PreprocessingInv
  BY InitPreprocessing DEF Init
<1>2. phase = "preprocessing" /\ tokens = <<>> /\ first = <<>>
  BY DEF Init, PreprocessorInit
<1>3. TokensInv
  BY <1>2, NoTokens
<1> QED BY <1>1, <1>2, <1>3 DEF LexingInv, Phases

(* While the text is preprocessed there are none. *)
LEMMA PreprocessingStep ==
  ASSUME LexingInv, Preprocess, UNCHANGED <<tokens, first>>
  PROVE  LexingInv'
<1>1. PreprocessingInv'
  BY PreprocessPreserves DEF LexingInv
<1>2. phase = "preprocessing" /\ phase' \in {"preprocessing", "refused"}
  BY DEF Preprocess, Copy, OpenIf, CopyBranch, Else, EndIf, Refuse
<1>3. tokens' = <<>> /\ first' = <<>>
  BY <1>2 DEF LexingInv
<1>4. TokensInv'
  <2>1. DOMAIN tokens' = {} /\ tokens' \in Seq(Token)
    BY <1>3
  <2> QED BY <2>1 DEF TokensInv
<1> QED BY <1>1, <1>2, <1>3, <1>4 DEF LexingInv, Phases

(* The output of the preprocessor has boundaries, and so can be read and stored. *)
LEMMA PreprocessedStep ==
  ASSUME LexingInv, Preprocessed
  PROVE  LexingInv'
<1>1. /\ phase = "preprocessing" /\ text' = output /\ lexer' = Beginning /\ phase' = "lexing"
      /\ output' = output /\ tokens' = <<>> /\ first' = <<>>
  BY DEF Preprocessed, LexingInv
<1>2. output \in Text
  BY DEF LexingInv, PreprocessingInv
<1>3. PreprocessingInv'
  BY <1>1, <1>2 DEF PreprocessingInv
<1>4. PICK B : Boundaries(output, B)
  BY <1>1 DEF LexingInv, PreprocessingInv, Joined
<1> DEFINE s == populated(output, Beginning)
<1>5. subtoken' = s
  BY <1>1 DEF subtoken
<1>6. StandsAt(output, B, 1, s)
  BY <1>2, <1>4, FromTheBeginning
<1>7. Storable(<<>>, s)
  BY <1>2, <1>4, <1>6, StoringNothing
<1> HIDE DEF s
<1>8. Reached' = 1 /\ Stored' = <<>> /\ TokensInv'
  <2>1. DOMAIN tokens' = {} /\ tokens' \in Seq(Token)
    BY <1>1
  <2>2. Texts(tokens)' = <<>>
    BY <2>1 DEF Texts
  <2>3. Stored' = <<>>
    BY <2>2, FlattenSeqEmpty DEF Stored
  <2> QED BY <1>1, <2>1, <2>3 DEF TokensInv, Reached
<1>9. Standing' /\ Storable(Stored, subtoken)'
  BY <1>1, <1>4, <1>5, <1>6, <1>7, <1>8 DEF Standing
<1> QED BY <1>1, <1>3, <1>8, <1>9 DEF LexingInv, Phases

(* After a token, the lexer stands behind it. *)
LEMMA StillStanding ==
  ASSUME LexingInv, TokensInv', NEW B, NEW b, Setting(B, b), NEW e, NEW type,
         Makes(B, b, e, type), Reached' = e
  PROVE  Standing' /\ subtoken' = lexer'
<1>1. text \in Text /\ Boundaries(text, B) /\ text' = text
  BY DEF Setting, Makes
<1>2. StandsAt(text, B, e, lexer')
  BY DEF Makes
<1>3. populated(text, lexer') = lexer'
  BY <1>1, <1>2, Onward
<1>4. subtoken' = lexer'
  BY <1>1, <1>3 DEF subtoken
<1> QED BY <1>1, <1>2, <1>4 DEF Standing

(* A token is stored as its text. *)
LEMMA StoredAppend ==
  ASSUME tokens \in Seq(Token), NEW token \in Token, tokens' = Append(tokens, token)
  PROVE  Stored' = Stored \o token.str
<1> DEFINE n == Len(tokens)
           ss == Texts(tokens)
<1>1. \A t \in Token : t.str \in Text
  BY DEF Token
<1>2. ss \in Seq(Text) /\ Len(ss) = n /\ n \in Nat /\ \A i \in 1 .. n : ss[i] = tokens[i].str
  <2>1. \A i \in 1 .. n : tokens[i].str \in Text
    BY <1>1
  <2> QED BY <2>1 DEF Texts
<1>3. Texts(tokens)' = Append(ss, token.str)
  <2> DEFINE u == Texts(tokens)'
             v == Append(ss, token.str)
  <2>1. DOMAIN tokens' = 1 .. n + 1 /\ tokens'[n + 1] = token
        /\ \A i \in 1 .. n : tokens'[i] = tokens[i]
    OBVIOUS
  <2>2. u = [i \in 1 .. n + 1 |-> tokens'[i].str]
    BY <2>1 DEF Texts
  <2> HIDE DEF ss, n
  <2>3. v = [i \in 1 .. n + 1 |-> IF i = n + 1 THEN token.str ELSE ss[i]]
    BY <1>1, <1>2
  <2>4. \A i \in 1 .. n + 1 : tokens'[i].str = IF i = n + 1 THEN token.str ELSE ss[i]
    <3> TAKE i \in 1 .. n + 1
    <3>1. i = n + 1 \/ i \in 1 .. n
      BY <1>2
    <3>2. CASE i = n + 1
      BY <2>1, <3>2
    <3>3. CASE i # n + 1
      BY <1>2, <2>1, <3>1, <3>3
    <3> QED BY <3>2, <3>3
  <2> QED BY <2>2, <2>3, <2>4
<1> HIDE DEF ss
<1>4. FlattenSeq(Append(ss, token.str)) = FlattenSeq(ss) \o token.str
  BY <1>1, <1>2, FlattenSeqAppend DEF Text
<1> QED BY <1>3, <1>4 DEF Stored, ss

\* The lexer in front of a token, a comment at most behind what is reached.
InFront(B, b) ==
  /\ Setting(B, b) /\ Reached <= b /\ IsComment(Stretch(Reached, b))
  /\ Reached < b => Type \in {"Newline", "EndOfInput"} /\ text[Reached] = "#"

(* A token is made the first time, and can be stored. *)
LEMMA LexingMakes ==
  ASSUME LexingInv, phase = "lexing", NEW B, NEW b, InFront(B, b),
         \A k : Storable(k, subtoken) => Storable(k, Start),
         NEW e, NEW type, Makes(B, b, e, type), UNCHANGED <<lines, branch, active, output>>
  PROVE  LexingInv'
<1>1. TokensInv' /\ Reached' = e
  BY TokenIsMade DEF LexingInv, InFront
<1>2. Standing' /\ subtoken' = lexer'
  BY <1>1, StillStanding DEF InFront
<1>3. text' = text /\ first' = first /\ phase' = phase
  BY DEF Makes
<1> DEFINE token == [type |-> type, str |-> SubSeq(text, b, e - 1), at |-> b]
<1>4. tokens' = Append(tokens, token)
  BY DEF Makes
<1>5. tokens \in Seq(Token) /\ token \in Token
  <2>1. tokens \in Seq(Token)
    BY DEF LexingInv, TokensInv
  <2>2. tokens'[Len(tokens) + 1] = token /\ Len(tokens') = Len(tokens) + 1
        /\ Len(tokens) + 1 \in DOMAIN tokens'
    BY <1>4, <2>1
  <2>3. tokens' \in Seq(Token)
    BY <1>1 DEF TokensInv
  <2> HIDE DEF token
  <2> QED BY <2>1, <2>2, <2>3
<1>6. Stored' = Stored \o SubSeq(text, b, e - 1)
  <2>1. token.str = SubSeq(text, b, e - 1)
    OBVIOUS
  <2> HIDE DEF token
  <2> QED BY <1>4, <1>5, <2>1, StoredAppend
<1>7. Storable(Stored, Start)
  BY DEF LexingInv
<1>8. Storable(Stored, subtoken)'
  <2>1. Storable(Stored \o SubSeq(text, b, e - 1), lexer')
    BY <1>7 DEF Makes
  <2> QED BY <1>2, <1>6, <2>1
<1>9. PreprocessingInv'
  BY <1>3 DEF LexingInv, PreprocessingInv
<1> QED BY <1>1, <1>2, <1>3, <1>8, <1>9 DEF LexingInv

(* At the end, nothing but a comment is behind the tokens. *)
LEMMA AtTheEnd ==
  ASSUME LexingInv, NEW B, NEW b, InFront(B, b), b = Len(text) + 1
  PROVE  /\ text \in Text /\ Reached \in 1 .. Len(text) + 1
         /\ IsComment(Stretch(Reached, Len(text) + 1))
<1>1. text \in Text /\ TokensInv
  BY DEF LexingInv, PreprocessingInv
<1>2. Len(text) \in Nat
  BY <1>1 DEF Text
<1>3. Reached \in Nat \ {0}
  <2>1. CASE tokens = <<>>
    BY <2>1 DEF Reached
  <2>2. CASE tokens # <<>>
    <3>1. Len(tokens) \in DOMAIN tokens
      BY <1>1, <2>2 DEF TokensInv
    <3>2. IsToken(Last(tokens)) /\ Reached = EndOf(Last(tokens))
      BY <1>1, <2>2, <3>1 DEF TokensInv, Last, Reached
    <3>3. /\ Last(tokens).at \in 1 .. Len(text)
          /\ EndOf(Last(tokens)) \in Last(tokens).at + 1 .. Len(text) + 1
      BY <1>1, <3>2, TokenEnds
    <3> QED BY <3>2, <3>3
  <2> QED BY <2>1, <2>2
<1> QED BY <1>1, <1>2, <1>3 DEF InFront

(* The tokens are stored; their texts are there in their order, each a token as before. *)
LEMMA StoreStep ==
  ASSUME LexingInv, phase = "lexing", NEW B, NEW b, InFront(B, b), b = Len(text) + 1,
         \A k : Storable(k, subtoken) => Storable(k, Start),
         Store, UNCHANGED <<lines, branch, active, output>>
  PROVE  LexingInv'
<1>1. /\ first' = tokens /\ text' = Stored /\ tokens' = <<>> /\ lexer' = Beginning
      /\ phase' = "relexing"
  BY DEF Store, Stored, Texts
<1>2. tokens \in Seq(Token) /\ Faithful(tokens)
  BY AtTheEnd, StoredTokens DEF LexingInv, TokensInv
<1>3. PICK p : Reread(Stored, tokens, p) /\ Stored \in Text
  BY <1>2, Rereading DEF Stored
<1>4. PICK C : Boundaries(Stored, C)
  BY DEF LexingInv, Storable
<1> DEFINE k == Stored
           s == populated(k, Beginning)
<1>5. subtoken' = s
  BY <1>1 DEF subtoken
<1>6. StandsAt(k, C, 1, s)
  BY <1>3, <1>4, FromTheBeginning
<1> HIDE DEF k, s
<1>7. TokensInv' /\ Reached' = 1
  <2>1. DOMAIN tokens' = {} /\ tokens' \in Seq(Token)
    BY <1>1
  <2> QED BY <1>1, <2>1 DEF TokensInv, Reached
<1>8. Standing'
  BY <1>1, <1>4, <1>5, <1>6, <1>7 DEF Standing, k
<1>9. PreprocessingInv'
  BY <1>1, <1>3 DEF LexingInv, PreprocessingInv
<1>10. Resumed'
  <2>1. Len(tokens') = 0 /\ DOMAIN tokens' = {}
    BY <1>1
  <2>2. Repeated'
    BY <1>1, <1>2, <2>1 DEF Repeated
  <2>3. Reread(text', first', p) /\ Reached' = p[Len(tokens')]
    BY <1>1, <1>3, <1>7, <2>1 DEF Reread
  <2> QED BY <1>1, <1>2, <2>2, <2>3 DEF Resumed
<1> QED BY <1>1, <1>7, <1>8, <1>9, <1>10 DEF LexingInv, Phases

(* No token is there the first time: the text is not disciplined. *)
LEMMA LexingStops ==
  ASSUME LexingInv, phase = "lexing", NEW b, NoTokenAt(b),
         UNCHANGED <<lines, branch, active, output>>
  PROVE  LexingInv'
<1>1. text' = text /\ tokens' = tokens /\ first' = first /\ phase' = "stopped" /\ ~Disciplined
  BY DEF NoTokenAt
<1>2. PreprocessingInv'
  BY <1>1 DEF LexingInv, PreprocessingInv
<1>3. TokensInv'
  BY <1>1 DEF LexingInv, TokensInv, IsToken, Between, Stretch, EndOf
<1>4. ~Disciplined'
  BY <1>1 DEF Disciplined, LetterAt
<1> QED BY <1>1, <1>2, <1>3, <1>4 DEF LexingInv, Phases

(* The token that is next, the second time. *)
LEMMA NextAgain ==
  ASSUME LexingInv, phase = "relexing", NEW B, NEW b, InFront(B, b)
  PROVE  \/ /\ Len(tokens) = Len(first) /\ b = Len(text) + 1
         \/ \E e : /\ Len(tokens) + 1 \in DOMAIN first /\ b \in DOMAIN text
                   /\ TokenAt(text, b, e, first[Len(tokens) + 1].type, At(text, e))
                   /\ first[Len(tokens) + 1].str = SubSeq(text, b, e - 1)
                   /\ \A p : Reread(text, first, p) => e = p[Len(tokens) + 1]
<1>1. Resumed /\ TokensInv /\ text \in Text
  BY DEF LexingInv, PreprocessingInv
<1>2. PICK p : Reread(text, first, p) /\ Reached = p[Len(tokens)]
  BY <1>1 DEF Resumed
<1> DEFINE n == Len(tokens)
           m == Len(first)
<1>3. n \in Nat /\ m \in Nat /\ DOMAIN first = 1 .. m /\ n <= m
  BY <1>1 DEF Resumed, Repeated, TokensInv
<1>4. b \in 1 .. Len(text) + 1 /\ Len(text) \in Nat /\ DOMAIN text = 1 .. Len(text)
  BY <1>1 DEF InFront, Setting, Boundaries, StandsAt, Text
<1> HIDE DEF n, m
<1>5. CASE n = m
  <2>1. Reached = Len(text) + 1
    BY <1>2, <1>5 DEF Reread, n, m
  <2>2. b = Len(text) + 1
    BY <1>4, <2>1 DEF InFront
  <2> QED BY <1>5, <2>2 DEF n, m
<1>6. CASE n # m
  <2> DEFINE j == n + 1
  <2>1. j \in 1 .. m /\ j - 1 = n
    BY <1>3, <1>6
  <2> HIDE DEF j
  <2>2. /\ TokenAt(text, p[n], p[j], first[j].type, At(text, p[j]))
        /\ first[j].str = SubSeq(text, p[n], p[j] - 1)
    BY <1>2, <2>1 DEF Reread, m
  <2>3. p[n] = Reached
    BY <1>2 DEF n
  <2>4. text[Reached] # "#" /\ Reached \in DOMAIN text
    <3>1. TokenAt(text, Reached, p[j], first[j].type, At(text, p[j]))
      BY <2>2, <2>3
    <3>2. PICK d, q : FirstOf(text, Reached, p[j], first[j].type, d, q)
      BY <1>1, <3>1, FirstSubtoken
    <3>3. Piece(text, Reached, d, q) /\ q \in Spans \cup {"Word", "Number", "Punctuation"}
      BY <3>2 DEF FirstOf
    <3>4. Reached \in Int /\ d \in Reached + 1 .. Len(text) + 1
      BY <1>4, <3>1, <3>3 DEF TokenAt, Piece
    <3>5. Reached \in Reached .. d - 1
      BY <1>4, <3>4
    <3>6. text[Reached] # "#"
      BY <3>3, <3>5, TheCharacters DEF Piece, Spans, Alnum
    <3> QED BY <3>1, <3>6 DEF TokenAt
  <2>5. b = Reached
    BY <1>4, <2>4 DEF InFront
  <2>6. ASSUME NEW r, Reread(text, first, r) PROVE p[j] = r[j]
    <3> DEFINE P(i) == p[i] = r[i]
               D == {i \in 0 .. m : p[i] = r[i]}
    <3>1. ASSUME NEW i \in 1 .. m, p[i - 1] = r[i - 1] PROVE p[i] = r[i]
      <4> DEFINE a == p[i - 1]
                 e == p[i]
                 f == r[i]
                 t == first[i].type
      <4>1. TokenAt(text, a, e, t, At(text, e))
        BY <1>2 DEF Reread, m
      <4>2. TokenAt(text, a, f, t, At(text, f))
        BY <2>6, <3>1 DEF Reread, m
      <4> HIDE DEF a, e, f, t
      <4>3. e = f
        BY <1>1, <4>1, <4>2, OneToken
      <4> QED BY <4>3 DEF e, f
    <3>2. p[0] = r[0]
      BY <1>2, <2>6 DEF Reread
    <3> DEFINE G == {i \in Nat : i <= m => p[i] = r[i]}
    <3>3. 0 \in G
      BY <3>2
    <3>4. ASSUME NEW i \in Nat, i \in G PROVE i + 1 \in G
      <4> DEFINE h == i + 1
      <4>1. h \in Nat /\ h - 1 = i
        OBVIOUS
      <4> HIDE DEF h
      <4>2. ASSUME h <= m PROVE p[h] = r[h]
        <5>1. h \in 1 .. m /\ i <= m
          BY <1>3, <4>2 DEF h
        <5>2. p[i] = r[i]
          BY <3>4, <5>1
        <5> QED BY <3>1, <4>1, <5>1, <5>2
      <4> QED BY <4>1, <4>2 DEF h
    <3>5. \A i \in Nat : i \in G
      <4> HIDE DEF G
      <4> QED BY <3>3, <3>4, Induction
    <3> QED BY <1>3, <2>1, <3>5
  <2>7. \A r : Reread(text, first, r) => p[j] = r[j]
    BY <2>6
  <2> QED BY <1>3, <2>1, <2>2, <2>3, <2>4, <2>5, <2>7 DEF j, n, m
<1> QED BY <1>5, <1>6

(* The second time, the same token is made. *)
LEMMA RelexingMakes ==
  ASSUME LexingInv, phase = "relexing", NEW B, NEW b, InFront(B, b),
         NEW e, NEW type, Makes(B, b, e, type), UNCHANGED <<lines, branch, active, output>>
  PROVE  LexingInv'
<1>1. TokensInv' /\ Reached' = e /\ Len(tokens') = Len(tokens) + 1
  BY TokenIsMade DEF LexingInv, InFront
<1>2. Standing'
  BY <1>1, StillStanding DEF InFront
<1> DEFINE n == Len(tokens)
           j == n + 1
<1>3. /\ text' = text /\ first' = first /\ phase' = phase
      /\ TokenAt(text, b, e, type, At(text, e))
      /\ tokens' = Append(tokens, [type |-> type, str |-> SubSeq(text, b, e - 1), at |-> b])
  BY DEF Makes
<1>4. Resumed /\ tokens \in Seq(Token) /\ text \in Text
  BY DEF LexingInv, TokensInv, PreprocessingInv
<1>5. b \in DOMAIN text /\ b # Len(text) + 1
  <2>1. b \in DOMAIN text
    BY <1>3 DEF TokenAt
  <2> QED BY <1>4, <2>1 DEF Text
<1>6. PICK d : /\ j \in DOMAIN first
               /\ TokenAt(text, b, d, first[j].type, At(text, d))
               /\ first[j].str = SubSeq(text, b, d - 1)
               /\ \A p : Reread(text, first, p) => d = p[j]
  BY <1>5, NextAgain
<1>7. d = e /\ first[j].type = type
  BY <1>3, <1>4, <1>6, OneToken
<1>8. Repeated'
  <2>1. j \in 1 .. Len(first) /\ first \in Seq(Token) /\ n \in Nat
    BY <1>4, <1>6 DEF Resumed
  <2>2. DOMAIN tokens' = 1 .. j /\ Len(tokens') = j
        /\ tokens'[j] = [type |-> type, str |-> SubSeq(text, b, e - 1), at |-> b]
        /\ \A i \in 1 .. n : tokens'[i] = tokens[i]
    BY <1>3, <1>4
  <2>3. \A i \in 1 .. n : tokens[i].type = first[i].type /\ tokens[i].str = first[i].str
    BY <1>4 DEF Resumed, Repeated
  <2>4. tokens'[j].type = first[j].type /\ tokens'[j].str = first[j].str
    <3>1. tokens'[j].type = type /\ tokens'[j].str = SubSeq(text, b, e - 1)
      <4> DEFINE z == tokens'[j]
      <4>1. z = [type |-> type, str |-> SubSeq(text, b, e - 1), at |-> b]
        BY <2>2
      <4> HIDE DEF z
      <4>2. z.type = type /\ z.str = SubSeq(text, b, e - 1)
        BY <4>1
      <4> QED BY <4>2 DEF z
    <3>2. first[j].type = type /\ first[j].str = SubSeq(text, b, e - 1)
      <4> HIDE DEF j
      <4> QED BY <1>6, <1>7
    <3> HIDE DEF j
    <3> QED BY <3>1, <3>2
  <2>5. \A i \in 1 .. j : i \in 1 .. n \/ i = j
    BY <2>1
  <2> HIDE DEF j, n
  <2>6. \A i \in DOMAIN tokens' :
          tokens'[i].type = first[i].type /\ tokens'[i].str = first[i].str
    BY <2>2, <2>3, <2>4, <2>5
  <2> QED BY <1>3, <2>1, <2>2, <2>6 DEF Repeated
<1>9. PICK p : Reread(text, first, p) /\ Reached = p[n]
  BY <1>4 DEF Resumed
<1>10. Reread(text', first', p) /\ Reached' = p[Len(tokens')]
  BY <1>1, <1>3, <1>6, <1>7, <1>9
<1>11. Resumed'
  BY <1>3, <1>4, <1>8, <1>10 DEF Resumed
<1>12. PreprocessingInv'
  BY <1>3 DEF LexingInv, PreprocessingInv
<1> QED BY <1>1, <1>2, <1>3, <1>11, <1>12 DEF LexingInv

(* The second time ends with the tokens of the first. *)
LEMMA RelexingEnds ==
  ASSUME LexingInv, phase = "relexing", NEW B, NEW b, InFront(B, b), b = Len(text) + 1,
         phase' = "done", UNCHANGED <<text, tokens, first, lines, branch, active, output>>
  PROVE  LexingInv'
<1>1. Len(tokens) = Len(first)
  <2>1. Len(text) + 1 \notin DOMAIN text
    BY DEF LexingInv, PreprocessingInv, Text
  <2> QED BY <2>1, NextAgain
<1>2. IsComment(Stretch(Reached, Len(text) + 1))
  BY AtTheEnd
<1>3. Repeated'
  BY DEF LexingInv, Resumed, Repeated
<1>4. IsComment(Stretch(Reached, Len(text) + 1))'
  BY <1>2 DEF IsComment, Stretch, Reached, EndOf
<1>5. TokensInv'
  BY DEF LexingInv, TokensInv, IsToken, Between, Stretch, EndOf
<1>6. PreprocessingInv'
  BY DEF LexingInv, PreprocessingInv
<1> QED BY <1>1, <1>3, <1>4, <1>5, <1>6 DEF LexingInv, Phases

(* All steps of the lexer keep the invariant. *)
LEMMA LexerStep ==
  ASSUME LexingInv, advanceLexer
  PROVE  LexingInv'
<1>1. /\ phase \in {"lexing", "relexing"} /\ UNCHANGED <<lines, branch, active, output>>
      /\ lexWord \/ lexNumber \/ lexPunctuation \/ lexAnnotation \/ lexSpan \/ NoToken
  BY DEF advanceLexer
<1>2. text \in Text /\ Standing
  BY <1>1 DEF LexingInv, PreprocessingInv
<1>3. PICK B : Boundaries(text, B) /\ StandsAt(text, B, Reached, subtoken)
  BY <1>2 DEF Standing
<1>4. PICK b : InFront(B, b) /\ \A k : Storable(k, subtoken) => Storable(k, Start)
  BY <1>2, <1>3, Starting DEF InFront
<1>5. Setting(B, b)
  BY <1>4 DEF InFront
<1>6. CASE \E e, type : Makes(B, b, e, type)
  BY <1>1, <1>4, <1>6, LexingMakes, RelexingMakes
<1>7. CASE NoTokenAt(b) /\ Type # "EndOfInput"
  <2>1. CASE phase = "lexing"
    BY <1>1, <1>7, <2>1, LexingStops
  <2>2. CASE phase = "relexing"
    <3>1. b # Len(text) + 1
      <4>1. text \in Text /\ Boundaries(text, B) /\ StandsAt(text, B, b, Start)
        BY <1>5 DEF Setting
      <4> QED BY <1>7, <4>1, StandingTypes DEF Type
    <3>2. \A e, type : ~TokenAt(text, b, e, type, At(text, e))
      BY <1>7 DEF NoTokenAt
    <3> QED BY <1>4, <2>2, <3>1, <3>2, NextAgain
  <2> QED BY <1>1, <2>1, <2>2
<1>8. CASE phase = "lexing" /\ Store /\ b = Len(text) + 1
  BY <1>1, <1>4, <1>8, StoreStep
<1>9. CASE /\ phase # "lexing" /\ b = Len(text) + 1
           /\ phase' = "done" /\ UNCHANGED <<text, tokens, first>>
  BY <1>1, <1>4, <1>9, RelexingEnds
<1> QED BY <1>1, <1>5, <1>6, <1>7, <1>8, <1>9, OneStep

(* So does no step. *)
LEMMA NoStep ==
  ASSUME LexingInv, UNCHANGED vars
  PROVE  LexingInv'
<1>1. /\ lines' = lines /\ text' = text /\ lexer' = lexer /\ branch' = branch
      /\ active' = active /\ output' = output /\ phase' = phase
      /\ tokens' = tokens /\ first' = first
  BY DEF vars, preprocessorVars
<1>2. subtoken' = subtoken
  BY <1>1 DEF subtoken
<1>3. PreprocessingInv'
  BY <1>1, <1>2 DEF LexingInv, PreprocessingInv, Joined, Writing
<1>4. TokensInv'
  BY <1>1 DEF LexingInv, TokensInv, IsToken, Between, Stretch, EndOf
<1>5. Reached' = Reached
  BY <1>1 DEF Reached, EndOf
<1>6. phase \in {"lexing", "relexing"} => Standing'
  BY <1>1, <1>2, <1>5 DEF LexingInv, Standing
<1>7. phase = "lexing" => Storable(Stored, subtoken)'
  <2>1. Texts(tokens)' = Texts(tokens)
    BY <1>1 DEF Texts
  <2> QED BY <1>2, <2>1 DEF LexingInv, Stored
<1>8. phase = "relexing" => Resumed'
  BY <1>1, <1>5 DEF LexingInv, Resumed, Repeated
<1>9. phase = "stopped" => ~Disciplined'
  BY <1>1 DEF LexingInv, Disciplined, LetterAt
<1>10. phase = "done" =>
         /\ Repeated' /\ Len(tokens)' = Len(first)'
         /\ tokens' # <<>> => IsComment(Stretch(Reached, Len(text) + 1))'
  BY <1>1, <1>5 DEF LexingInv, Repeated, IsComment, Stretch
<1> QED BY <1>1, <1>3, <1>4, <1>6, <1>7, <1>8, <1>9, <1>10 DEF LexingInv

(* The invariant holds in every state, for all texts over Characters, of any length, lines of
   any form, and both platforms. *)
THEOREM LexingIsInvariant == Spec => []LexingInv
<1>1. Init => LexingInv
  BY InitLexing
<1>2. LexingInv /\ [Next]_vars => LexingInv'
  <2> SUFFICES ASSUME LexingInv, [Next]_vars PROVE LexingInv'
    OBVIOUS
  <2>1. CASE Preprocess /\ UNCHANGED <<tokens, first>>
    BY <2>1, PreprocessingStep
  <2>2. CASE Preprocessed
    BY <2>2, PreprocessedStep
  <2>3. CASE advanceLexer
    BY <2>3, LexerStep
  <2>4. CASE UNCHANGED vars
    BY <2>4, NoStep
  <2> QED BY <2>1, <2>2, <2>3, <2>4 DEF Next
<1> QED BY <1>1, <1>2, PTL DEF Spec

-----------------------------------------------------------------------------
(* The properties. *)

(* The tokens are in the text, letter for letter and in its order, with nothing but comments
   between them: Lexer::advance loses nothing and reads nothing twice. *)
THEOREM TextIsCovered == Spec => []TokensCoverTheText
<1>1. LexingInv => TokensCoverTheText
  <2> SUFFICES ASSUME LexingInv PROVE TokensCoverTheText
    OBVIOUS
  <2>1. \A i \in DOMAIN tokens : Stretch(tokens[i].at, EndOf(tokens[i])) = tokens[i].str
    BY DEF LexingInv, TokensInv, IsToken
  <2>2. \A i \in DOMAIN tokens : Between(IF i = 1 THEN 1 ELSE EndOf(tokens[i - 1]), tokens[i])
    BY DEF LexingInv, TokensInv
  <2>3. phase = "done" /\ tokens # <<>> =>
          IsComment(Stretch(EndOf(Last(tokens)), Len(text) + 1))
    BY DEF LexingInv, Reached
  <2> QED BY <2>1, <2>2, <2>3 DEF TokensCoverTheText, Between
<1> QED BY <1>1, LexingIsInvariant, PTL

(* Every operator is the longest that is at its place: lexPunctuation, which asks for one
   character more at a time, finds it because what begins an operator is one. *)
THEOREM LongestOperators == Spec => []OperatorsAreLongest
<1>1. LexingInv => OperatorsAreLongest
  <2> SUFFICES ASSUME LexingInv, NEW n \in DOMAIN tokens, tokens[n].type = "Operator",
                      NEW o \in Operators, IsPrefix(o, Stretch(tokens[n].at, Len(text) + 1)),
                      Len(o) > Len(tokens[n].str)
               PROVE  FALSE
    <3>1. \A o \in Operators : Len(o) \in Nat
      BY OperatorsAreClosed
    <3>2. ASSUME LexingInv, NEW n \in DOMAIN tokens PROVE Len(tokens[n].str) \in Nat
      <4>1. tokens[n] \in Token
        BY <3>2 DEF LexingInv, TokensInv
      <4>2. \A token \in Token : Len(token.str) \in Nat
        BY DEF Token, Text
      <4> QED BY <4>1, <4>2
    <3> QED BY <3>1, <3>2 DEF OperatorsAreLongest
  <2> DEFINE i == tokens[n].at
             e == EndOf(tokens[n])
             s == tokens[n].str
             rest == SubSeq(text, i, Len(text))
             l == Len(o)
             q == i + l
  <2>1. text \in Text /\ IsToken(tokens[n])
    BY DEF LexingInv, PreprocessingInv, TokensInv
  <2>2. /\ i \in 1 .. Len(text) /\ e \in i + 1 .. Len(text) + 1 /\ e = i + Len(s)
        /\ Len(text) \in Nat /\ DOMAIN text = 1 .. Len(text) /\ Len(s) \in Nat /\ s \in Text
    <3>1. Len(s) \in Nat /\ s \in Text
      BY <2>1, TokenEnds DEF Text
    <3> QED BY <2>1, <3>1, TokenEnds DEF EndOf
  <2>3. s = SubSeq(text, i, e - 1) /\ s \in Operators /\ Append(s, At(text, e)) \notin Operators
    <3>1. TokenAt(text, i, e, "Operator", At(text, e)) /\ s = SubSeq(text, i, e - 1)
      BY <2>1 DEF IsToken, Stretch
    <3> HIDE DEF i, e, s
    <3> QED BY <3>1, TokenTypes DEF TokenAt, Spans
  <2>4. o \in Seq(Punctuation) /\ l \in 1 .. 3
    BY OperatorsAreClosed
  <2>5. IsPrefix(o, rest)
    BY <2>2 DEF Stretch
  <2> DEFINE x == text[i]
  <2>6. SubSeq(o, 1, l) = SubSeq(rest, 1, l) /\ l <= Len(rest)
    BY <2>5, Zenon DEF IsPrefix
  <2>7. SubSeq(o, 1, l) = o
    BY <2>4, SubSeqFull
  <2> HIDE DEF i, e, s, l
  <2>8. rest \in Seq(Characters) /\ Len(rest) = Len(text) + 1 - i
    <3> DEFINE j == Len(text) + 1
    <3>1. i \in 1 .. Len(text) + 1 /\ j \in i .. Len(text) + 1 /\ j - 1 = Len(text)
          /\ text \in Seq(Characters)
      BY <2>1, <2>2 DEF Text
    <3>2. SubSeq(text, i, j - 1) \in Seq(Characters) /\ Len(SubSeq(text, i, j - 1)) = j - i
      BY <3>1, Cut
    <3> QED BY <3>1, <3>2
  <2>9. q \in i .. Len(text) + 1 /\ e < q /\ e \in i .. Len(text)
    <3>1. l > Len(s)
      BY DEF l, s
    <3> HIDE DEF rest
    <3> QED BY <2>2, <2>4, <2>6, <2>8, <3>1
  <2>10. SubSeq(text, i, q - 1) = o
    <3> DEFINE j == Len(text) + 1
    <3>1. i \in 1 .. Len(text) + 1 /\ j \in i .. Len(text) + 1 /\ j - 1 = Len(text)
          /\ text \in Seq(Characters) /\ l \in 0 .. j - i
      BY <2>1, <2>2, <2>4, <2>9 DEF Text
    <3> HIDE DEF j
    <3>2. SubSeq(SubSeq(text, i, j - 1), 1, l) = SubSeq(text, i, i + l - 1)
      BY ONLY <3>1, CutTwice
    <3> QED BY <2>6, <2>7, <3>1, <3>2
  <2>11. i \in DOMAIN text
    BY <2>2
  <2> HIDE DEF q, rest
  <2>12. Append(SubSeq(text, i, e - 1), At(text, e)) \in Operators
    BY <2>1, <2>9, <2>10, <2>11, LongerOperators
  <2> QED BY <2>3, <2>12
<1> QED BY <1>1, LexingIsInvariant, PTL

(* The lexer meets no directive and no undefined subtoken, and stops before the end only in
   texts that are not disciplined. *)
THEOREM TheEndIsReached == Spec => []LexesToTheEnd
<1>1. LexingInv => LexesToTheEnd
  <2> SUFFICES ASSUME LexingInv PROVE LexesToTheEnd
    OBVIOUS
  <2>1. ASSUME phase \in {"lexing", "relexing"} PROVE Type \notin {"Undefined", "Directive"}
    <3>1. text \in Text /\ Standing
      BY <2>1 DEF LexingInv, PreprocessingInv
    <3>2. PICK B : Boundaries(text, B) /\ StandsAt(text, B, Reached, subtoken)
      BY <3>1 DEF Standing
    <3>3. PICK b : Setting(B, b)
      BY <3>1, <3>2, Starting
    <3>4. Type \in Types \cup {"EndOfInput"}
      <4>1. text \in Text /\ Boundaries(text, B) /\ StandsAt(text, B, b, Start)
        BY <3>3 DEF Setting
      <4> QED BY <4>1, StandingTypes DEF Type
    <3> QED BY <3>4 DEF Types
  <2> QED BY <2>1 DEF LexesToTheEnd, LexingInv
<1> QED BY <1>1, LexingIsInvariant, PTL

(* A text stored as its tokens is made into the same tokens again: where a comment was, or
   nothing, no two texts that are put together make another token. *)
THEOREM TextsAreReread == Spec => []Relexed
<1>1. LexingInv => Relexed
  BY DEF LexingInv, Relexed, Repeated
<1> QED BY <1>1, LexingIsInvariant, PTL

-----------------------------------------------------------------------------
(* The lines of a text with conditionals. *)

\* The lines ls that have directives, and the one before the i-th, 0 if there is none.
Marked(ls, i) == ls[i][1] = "%"
MarkIs(ls, i, name) == i # 0 /\ ls[i][1] = "%" /\ ls[i][2] = name
MarkBefore(ls, i) == SelectLastInSubSeq(ls, 1, i - 1, LAMBDA line : line[1] = "%")

(* A line with a directive is the last one for those behind it, up to the next. *)
LEMMA MarksBefore ==
  ASSUME NEW ls \in Seq(LineTexts)
  PROVE  /\ MarkBefore(ls, 1) = 0
         /\ \A i \in 1 .. Len(ls) :
              /\ MarkBefore(ls, i) \in 0 .. i - 1
              /\ MarkBefore(ls, i) # 0 => Marked(ls, MarkBefore(ls, i))
              /\ MarkBefore(ls, i + 1) = IF Marked(ls, i) THEN i ELSE MarkBefore(ls, i)
<1> DEFINE M(i) == {j \in 1 .. i - 1 : ls[j][1] = "%"}
<1>1. \A i : MarkBefore(ls, i) = IF M(i) # {} THEN Max(M(i)) ELSE 0
  BY DEF MarkBefore, SelectLastInSubSeq
<1>2. ASSUME NEW i \in Nat, M(i) # {}
      PROVE  /\ Max(M(i)) \in M(i)
             /\ \A j \in M(i) : j <= Max(M(i))
  <2>1. PICK j \in M(i) : \A k \in M(i) : k <= j
    <3>1. {k \in Nat : \E m \in M(i) : k + m = i} \in SUBSET Nat
      OBVIOUS
    <3>2. PICK m \in M(i) : TRUE
      BY <1>2
    <3>3. i - m \in {k \in Nat : \E n \in M(i) : k + n = i}
      BY <3>2
    <3>4. PICK k \in {k \in Nat : \E n \in M(i) : k + n = i} :
            \A l \in {l \in Nat : \E n \in M(i) : l + n = i} : k <= l
      BY <3>1, <3>3, Smallest
    <3>5. PICK j \in M(i) : k + j = i
      BY <3>4
    <3>6. ASSUME NEW n \in M(i)
          PROVE  n <= j
      <4>1. i - n \in {l \in Nat : \E q \in M(i) : l + q = i}
        BY <3>6
      <4>2. k <= i - n
        BY <3>4, <4>1
      <4> QED BY <3>5, <4>2
    <3> QED BY <3>5, <3>6
  <2>2. \A k \in M(i) : j >= k
    BY <2>1
  <2>3. Max(M(i)) \in M(i) /\ \A k \in M(i) : Max(M(i)) >= k
    BY <2>1, <2>2 DEF Max
  <2> QED BY <2>3
<1>3. MarkBefore(ls, 1) = 0
  <2>1. M(1) = {}
    OBVIOUS
  <2> QED BY <1>1, <2>1
<1>4. ASSUME NEW i \in 1 .. Len(ls)
      PROVE  /\ MarkBefore(ls, i) \in 0 .. i - 1
             /\ MarkBefore(ls, i) # 0 => Marked(ls, MarkBefore(ls, i))
             /\ MarkBefore(ls, i + 1) = IF Marked(ls, i) THEN i ELSE MarkBefore(ls, i)
  <2>1. i \in Nat /\ i + 1 \in Nat /\ i # 0
    OBVIOUS
  <2>2. \A j : /\ j \in M(i) <=> j \in 1 .. i - 1 /\ Marked(ls, j)
               /\ j \in M(i + 1) <=> j \in 1 .. i /\ Marked(ls, j)
    BY <2>1 DEF Marked
  <2>3. MarkBefore(ls, i) = IF M(i) # {} THEN Max(M(i)) ELSE 0
    BY <1>1
  <2>4. MarkBefore(ls, i + 1) = IF M(i + 1) # {} THEN Max(M(i + 1)) ELSE 0
    BY <1>1
  <2>5. M(i) # {} => Max(M(i)) \in M(i)
    BY <1>2, <2>1
  <2>6. M(i + 1) # {} => Max(M(i + 1)) \in M(i + 1) /\ \A j \in M(i + 1) : j <= Max(M(i + 1))
    BY <1>2, <2>1
  <2> HIDE DEF M
  <2>7. /\ MarkBefore(ls, i) \in 0 .. i - 1
        /\ MarkBefore(ls, i) # 0 => Marked(ls, MarkBefore(ls, i))
    BY <2>1, <2>2, <2>3, <2>5
  <2>8. CASE Marked(ls, i)
    <3>1. i \in M(i + 1)
      BY <2>1, <2>2, <2>8
    <3>2. PICK m : m = Max(M(i + 1))
      OBVIOUS
    <3>3. m \in 1 .. i /\ i <= m
      BY <2>2, <2>6, <3>1, <3>2
    <3> QED BY <2>1, <2>4, <2>7, <2>8, <3>1, <3>2, <3>3
  <2>9. CASE ~Marked(ls, i)
    <3>1. \A j : j \in 1 .. i <=> j \in 1 .. i - 1 \/ j = i
      BY <2>1
    <3>2. \A j : j \in M(i + 1) <=> j \in M(i)
      BY <2>2, <2>9, <3>1
    <3>3. M(i + 1) = {j \in M(i + 1) : TRUE} /\ M(i) = {j \in M(i) : TRUE}
      BY DEF M
    <3>4. M(i + 1) = M(i)
      BY <3>2, <3>3
    <3> QED BY <2>3, <2>4, <2>7, <2>9, <3>4
  <2> QED BY <2>7, <2>8, <2>9
<1> QED BY <1>3, <1>4

\* line, of n characters, is in the text t, from b on.
LineAt(t, b, line, n) ==
  /\ line \in LineTexts /\ line \in Text /\ n = Len(line) /\ n \in Nat /\ n >= 1
  /\ DOMAIN line = 1 .. n
  /\ b \in Nat /\ b >= 1 /\ b + n <= Len(t) + 1 /\ Len(t) \in Nat
  /\ \A j \in 0 .. n - 1 :
       /\ b + j \in DOMAIN t /\ t[b + j] = line[j + 1] /\ At(t, b + j) = line[j + 1]
       /\ (line[j + 1] = "\n") <=> (j = n - 1)

(* A line of a text, in the text. *)
LEMMA InTheLine ==
  ASSUME NEW t \in Text, NEW ls \in Seq(LineTexts), NEW p, Placed(t, ls, p),
         NEW i \in 1 .. Len(ls)
  PROVE  /\ LineAt(t, p[i - 1], ls[i], Len(ls[i]))
         /\ p[i] = p[i - 1] + Len(ls[i])
<1>0. PICK b, line, n : b = p[i - 1] /\ line = ls[i] /\ n = Len(line)
  OBVIOUS
<1>1. line \in LineTexts /\ line \in Text /\ Len(t) \in Nat /\ DOMAIN t = 1 .. Len(t)
  <2>1. ls[i] \in LineTexts
    BY ElementOfSeq
  <2> QED BY <1>0, <2>1, ConstantsAssumption DEF Text
<1>2. n \in Nat /\ n >= 1 /\ DOMAIN line = 1 .. n
  <2>1. line # <<>>
    BY <1>1, LinesAssumption
  <2> QED BY <1>0, <1>1, <2>1 DEF Text
<1>3. /\ b \in Nat /\ b >= 1 /\ p[i] = b + n /\ p[i] <= Len(t) + 1
      /\ \A j \in 0 .. n - 1 : t[b + j] = line[1 + j]
  <2>1. /\ p[i - 1] \in Nat /\ p[i - 1] # 0 /\ p[i] = p[i - 1] + Len(ls[i]) /\ p[i] <= Len(t) + 1
        /\ \A j \in 0 .. Len(ls[i]) - 1 : t[p[i - 1] + j] = ls[i][1 + j]
    BY DEF Placed
  <2> QED BY <1>0, <2>1
<1>4. ASSUME NEW j \in 0 .. n - 1
      PROVE  /\ b + j \in DOMAIN t /\ t[b + j] = line[j + 1] /\ At(t, b + j) = line[j + 1]
             /\ (line[j + 1] = "\n") <=> (j = n - 1)
  <2>1. b + j \in 1 .. Len(t) /\ 1 + j = j + 1 /\ j + 1 \in 1 .. n
    BY <1>1, <1>2, <1>3
  <2>2. (line[j + 1] = "\n") <=> (j + 1 = n)
    <3>1. j + 1 \in DOMAIN line
      BY <1>2, <2>1
    <3> QED BY <1>0, <1>1, <3>1, LinesAssumption
  <2>3. t[b + j] = line[j + 1]
    BY <1>3, <2>1
  <2>4. At(t, b + j) = t[b + j] /\ b + j \in DOMAIN t
    BY <1>1, <2>1 DEF At
  <2>5. (j + 1 = n) <=> (j = n - 1)
    BY <1>2
  <2> QED BY <2>2, <2>3, <2>4, <2>5
<1>5. b + n <= Len(t) + 1
  BY <1>3
<1>6. LineAt(t, b, line, n)
  BY <1>0, <1>1, <1>2, <1>3, <1>4, <1>5 DEF LineAt
<1> QED BY <1>0, <1>3, <1>6

\* Up to its k-th character a line has no comment.
Clean(line, k) == \A j \in 1 .. k : line[j] # "#"

\* The subtoken s of line, in its text from b on, is what is between the k-th
\* character and the j-th, which is not the newline.
IsWithin(line, b, k, j, s) ==
  /\ j \in k + 1 .. Len(line) - 1 /\ s.at = b + j /\ s.potentialDirective = FALSE
  /\ s.type \notin {"Undefined", "EndOfInput", "Directive"}
  /\ s.str = SubSeq(line, k + 1, j)
  /\ IF line[k + 1] = "#" THEN s.type = "Comment" /\ j = Len(line) - 1
                          ELSE s.type # "Comment" /\ \A q \in k + 1 .. j : line[q] # "#"

(* What is read in a line, behind its k-th character. *)
LEMMA LineIsRead ==
  ASSUME NEW t \in Text, NEW b, NEW line, NEW n, LineAt(t, b, line, n),
         NEW k \in Nat, k < n, k # 0 \/ line[1] # "%", k < n - 1 => Clean(line, k),
         NEW s, s = advance(t, b + k, k = 0)
  PROVE  IF k = n - 1
         THEN s = Subtoken("Newline", <<"\n">>, b + n, TRUE)
         ELSE \E j : IsWithin(line, b, k, j, s)
<1>0. PICK at : at = s.at
  OBVIOUS
<1>1. /\ line \in LineTexts /\ line \in Text /\ n = Len(line) /\ n \in Nat /\ n >= 1
      /\ b \in Nat /\ b >= 1 /\ b + n <= Len(t) + 1 /\ Len(t) \in Nat
      /\ k \in Nat /\ k <= n - 1
  BY DEF LineAt
<1>2. \A j \in 0 .. n - 1 :
        /\ b + j \in DOMAIN t /\ t[b + j] = line[j + 1] /\ At(t, b + j) = line[j + 1]
        /\ (line[j + 1] = "\n") <=> (j = n - 1)
  BY DEF LineAt
<1>3. b + k \in DOMAIN t /\ t[b + k] = line[k + 1] /\ At(t, b + k) = line[k + 1]
      /\ (k = 0) \in BOOLEAN /\ b + k \in Nat
  <2>1. k \in 0 .. n - 1 /\ b + k \in Nat
    BY <1>1
  <2> QED BY <1>2, <2>1
<1>4. ~(k = 0) \/ t[b + k] # "%"
  BY <1>3
<1>5. IsReadAt(t, b + k, s)
  BY <1>3, <1>4, Advancing
<1>6. CASE k = n - 1
  <2>1. t[b + k] = "\n"
    BY <1>2, <1>3, <1>6
  <2>2. At(t, b + k) = "\n"
    BY <1>3, <2>1 DEF At
  <2>3. s = Subtoken("Newline", <<"\n">>, b + k + 1, TRUE)
    BY <2>2, <1>3, TheCharacters DEF advance
  <2>4. b + k + 1 = b + n
    BY <1>1, <1>6
  <2> QED BY <1>0, <1>6, <2>3, <2>4
<1>7. CASE k # n - 1
  <2>0. PICK j : j = at - b
    OBVIOUS
  <2>1. /\ Piece(t, b + k, at, s.type) /\ Ends(t, b + k, at, s.type, At(t, at))
        /\ s.str = SubSeq(t, b + k, at - 1) /\ s.potentialDirective = (s.type = "Newline")
    BY <1>0, <1>5 DEF IsReadAt, Subtoken
  <2>2. /\ k < n - 1 /\ line[k + 1] # "\n" /\ Clean(line, k)
        /\ b + (n - 1) \in DOMAIN t /\ t[b + (n - 1)] = "\n" /\ n - 1 \in 0 .. n - 1
    <3>1. k < n - 1 /\ n - 1 \in 0 .. n - 1 /\ k \in 0 .. n - 1
      BY <1>1, <1>7
    <3>2. Clean(line, k)
      BY <3>1
    <3> QED BY <1>2, <1>7, <3>1, <3>2
  <2>3. line[k + 1] \notin {Quote, "'"}
    <3>1. k + 1 \in DOMAIN line
      BY <1>1, <2>2 DEF LineAt
    <3>2. line[k + 1] \in {Quote, "'"} => \E q \in 1 .. (k + 1) - 1 : line[q] = "#"
      BY <1>1, <3>1, LinesAssumption
    <3> QED BY <1>3, <2>2, <3>2 DEF Clean
  <2>4. t[b + k] # "\n" /\ t[b + k] # Quote /\ t[b + k] # "'"
    BY <1>3, <2>2, <2>3
  <2>5. at \in Int /\ at >= b + k + 1 /\ at <= Len(t) + 1
    BY <1>1, <1>3, <2>1 DEF Piece
  <2>6. /\ s.type \in {"Comment", "Whitespace", "Punctuation", "Number", "Word"}
        /\ s.type = "Comment" <=> line[k + 1] = "#"
    <3>1. b + k \in b + k .. at - 1
      BY <1>1, <1>3, <2>5
    <3> QED BY <1>3, <2>1, <2>4, <3>1, TheCharacters DEF Piece, Alnum
  <2>7. \A q \in b + k .. at - 1 : t[q] # "\n" /\ (s.type # "Comment" => t[q] # "#")
    <3>1. CASE s.type = "Comment"
      BY <2>1, <3>1 DEF Piece
    <3>2. CASE s.type = "Whitespace"
      BY <2>1, <3>2, TheCharacters DEF Piece
    <3>3. CASE s.type = "Punctuation"
      <4>1. at = b + k + 1 /\ t[b + k] \in Punctuation
        BY <2>1, <3>3 DEF Piece
      <4>2. \A q \in b + k .. at - 1 : q = b + k
        BY <1>1, <1>3, <4>1
      <4> QED BY <4>1, <4>2, TheCharacters
    <3>4. CASE s.type \in {"Number", "Word"}
      <4>1. \A q \in b + k .. at - 1 : t[q] \in Alnum
        BY <2>1, <3>4 DEF Piece, Alnum
      <4> QED BY <4>1, TheCharacters
    <3> QED BY <2>6, <3>1, <3>2, <3>3, <3>4
  <2>8. at <= b + (n - 1)
    <3>1. SUFFICES ASSUME at > b + (n - 1) PROVE FALSE
      BY <1>1, <2>5
    <3>2. b + (n - 1) \in b + k .. at - 1
      BY <1>1, <1>3, <2>2, <2>5, <3>1
    <3> QED BY <2>2, <2>7, <3>2
  <2>9. j \in Nat /\ j \in k + 1 .. n - 1 /\ at = b + j /\ j \in 0 .. n - 1
    BY <1>1, <2>0, <2>5, <2>8
  <2>10. \A q \in k + 1 .. j : b + (q - 1) \in b + k .. at - 1 /\ t[b + (q - 1)] = line[q]
    <3>1. ASSUME NEW q \in k + 1 .. j
          PROVE  b + (q - 1) \in b + k .. at - 1 /\ t[b + (q - 1)] = line[q]
      <4>1. q - 1 \in 0 .. n - 1 /\ (q - 1) + 1 = q /\ b + (q - 1) \in b + k .. at - 1
        BY <1>1, <1>3, <2>9
      <4>2. t[b + (q - 1)] = line[(q - 1) + 1]
        BY <1>2, <4>1
      <4> QED BY <4>1, <4>2
    <3> QED BY <3>1
  <2>11. s.type = "Comment" => j = n - 1
    <3>1. SUFFICES ASSUME s.type = "Comment", j # n - 1 PROVE FALSE
      OBVIOUS
    <3>2. At(t, at) \in {"\n", "eof"}
      BY <2>1, <3>1 DEF Ends
    <3>3. /\ At(t, b + j) = line[j + 1] /\ line[j + 1] # "\n"
          /\ b + j \in DOMAIN t /\ t[b + j] = line[j + 1]
      BY <1>2, <2>9, <3>1
    <3>4. t[b + j] \in Characters
      BY <3>3, ElementOfSeq DEF Text
    <3> QED BY <2>9, <3>2, <3>3, <3>4, TheCharacters
            DEF Alnum, Letters, Digits, Punctuation, Characters
  <2>12. s.str = SubSeq(line, k + 1, j)
    <3>1. /\ b + k \in 1 .. Len(t) + 1 /\ at \in b + k .. Len(t) + 1
          /\ at - (b + k) = j - k
      BY <1>1, <1>3, <2>5, <2>9
    <3>2. /\ s.str \in Seq(Characters) /\ Len(s.str) = at - (b + k)
          /\ \A q \in 1 .. at - (b + k) : s.str[q] = t[b + k + q - 1]
      <4>1. PICK a : a = b + k
        OBVIOUS
      <4>2. t \in Seq(Characters) /\ a \in 1 .. Len(t) + 1 /\ at \in a .. Len(t) + 1
        BY <3>1, <4>1 DEF Text
      <4>3. /\ SubSeq(t, a, at - 1) \in Seq(Characters) /\ Len(SubSeq(t, a, at - 1)) = at - a
            /\ \A q \in 1 .. at - a : SubSeq(t, a, at - 1)[q] = t[a + q - 1]
        BY <4>2, Cut
      <4>4. s.str = SubSeq(t, a, at - 1)
        BY <2>1, <4>1
      <4> QED BY <4>1, <4>3, <4>4
    <3>3. /\ k + 1 \in 1 .. n + 1 /\ j + 1 \in k + 1 .. n + 1 /\ (j + 1) - 1 = j
          /\ (j + 1) - (k + 1) = j - k
      BY <1>1, <1>3, <2>9
    <3>4. /\ SubSeq(line, k + 1, j) \in Seq(Characters) /\ Len(SubSeq(line, k + 1, j)) = j - k
          /\ \A q \in 1 .. j - k : SubSeq(line, k + 1, j)[q] = line[k + q]
      <4>1. PICK a, c : a = k + 1 /\ c = j + 1
        OBVIOUS
      <4>2. /\ line \in Seq(Characters) /\ a \in 1 .. Len(line) + 1 /\ c \in a .. Len(line) + 1
            /\ c - 1 = j /\ c - a = j - k
        BY <1>1, <3>3, <4>1 DEF Text
      <4>3. /\ SubSeq(line, a, c - 1) \in Seq(Characters) /\ Len(SubSeq(line, a, c - 1)) = c - a
            /\ \A q \in 1 .. c - a : SubSeq(line, a, c - 1)[q] = line[a + q - 1]
        BY <4>2, Cut
      <4>4. \A q \in 1 .. j - k : a + q - 1 = k + q
        BY <1>1, <4>1
      <4> QED BY <4>1, <4>2, <4>3, <4>4
    <3>5. ASSUME NEW q \in 1 .. j - k
          PROVE  s.str[q] = SubSeq(line, k + 1, j)[q]
      <4>1. k + q \in k + 1 .. j /\ b + ((k + q) - 1) = b + k + q - 1
        BY <1>1, <1>3, <2>9
      <4>2. t[b + ((k + q) - 1)] = line[k + q]
        BY <2>10, <4>1
      <4>3. s.str[q] = t[b + k + q - 1]
        BY <3>1, <3>2
      <4>4. SubSeq(line, k + 1, j)[q] = line[k + q]
        BY <3>4
      <4> QED BY <4>1, <4>2, <4>3, <4>4
    <3>6. PICK w : w = SubSeq(line, k + 1, j)
      OBVIOUS
    <3>7. /\ s.str \in Seq(Characters) /\ w \in Seq(Characters) /\ Len(s.str) = Len(w)
          /\ \A q \in 1 .. Len(s.str) : s.str[q] = w[q]
      BY <3>1, <3>2, <3>4, <3>5, <3>6
    <3> QED BY <3>6, <3>7, SeqEqual
  <2>13. s.type # "Comment" => \A q \in k + 1 .. j : line[q] # "#"
    <3>1. ASSUME NEW q \in k + 1 .. j, s.type # "Comment"
          PROVE  line[q] # "#"
      <4>1. b + (q - 1) \in b + k .. at - 1 /\ t[b + (q - 1)] = line[q]
        BY <2>10
      <4> QED BY <2>7, <3>1, <4>1
    <3> QED BY <3>1
  <2>14. IsWithin(line, b, k, j, s)
    <3>1. /\ s.type \notin {"Undefined", "EndOfInput", "Directive"} /\ s.type # "Newline"
          /\ s.potentialDirective = FALSE
      BY <2>1, <2>6
    <3>2. j \in k + 1 .. Len(line) - 1 /\ s.at = b + j
      BY <1>0, <1>1, <2>9
    <3>3. IF line[k + 1] = "#" THEN s.type = "Comment" /\ j = Len(line) - 1
                              ELSE s.type # "Comment" /\ \A q \in k + 1 .. j : line[q] # "#"
      BY <1>1, <2>6, <2>11, <2>13
    <3> QED BY <2>12, <3>1, <3>2, <3>3 DEF IsWithin
  <2> QED BY <1>0, <1>7, <2>14
<1> QED BY <1>6, <1>7

(* A directive the preprocessor knows is read as one. *)
LEMMA DirectiveLineIsRead ==
  ASSUME NEW t \in Text, NEW b, NEW line, NEW n, LineAt(t, b, line, n), n >= 3,
         line[1] = "%", line[2] \in Directives, line[3] \in {"\n", Space}
  PROVE  advance(t, b, TRUE) = Subtoken("Directive", <<line[2]>>, b + 2, FALSE)
<1>1. /\ n \in Nat /\ b \in Nat /\ b >= 1 /\ b + n <= Len(t) + 1 /\ Len(t) \in Nat
      /\ t \in Seq(Characters)
  BY DEF LineAt, Text
<1>2. /\ t[b + 1] = line[2] /\ At(t, b) = "%" /\ b + 1 \in 1 .. Len(t) /\ b + 1 \in DOMAIN t
      /\ At(t, b + 2) = line[3] /\ b + 2 \in 1 .. Len(t) + 1 /\ b \in DOMAIN t
  <2>1. 0 \in 0 .. n - 1 /\ 1 \in 0 .. n - 1 /\ 2 \in 0 .. n - 1
    BY <1>1
  <2>2. \A j \in 0 .. n - 1 :
          b + j \in DOMAIN t /\ t[b + j] = line[j + 1] /\ At(t, b + j) = line[j + 1]
    BY DEF LineAt
  <2>3. b + 0 = b /\ b + 0 \in DOMAIN t /\ At(t, b + 0) = line[0 + 1] /\ 0 + 1 = 1
    BY <1>1, <2>1, <2>2
  <2>4. t[b + 1] = line[1 + 1] /\ At(t, b + 2) = line[2 + 1] /\ 1 + 1 = 2 /\ 2 + 1 = 3
        /\ b + 1 \in DOMAIN t
    BY <2>1, <2>2
  <2>5. b + 1 \in 1 .. Len(t) /\ b + 2 \in 1 .. Len(t) + 1
    BY <1>1
  <2> QED BY <2>3, <2>4, <2>5
<1>3. PICK S : S = Characters \ {"\n", Space}
  OBVIOUS
<1>4. line[2] \in S /\ line[3] \notin S /\ "eof" \notin S
  <2>1. line[2] \in Alnum /\ line[2] \in Characters
    BY DirectivesAreLetters
  <2> QED BY <1>3, <2>1, TheCharacters
<1>5. PICK a, end : a = b + 1 /\ end = Behind(t, a, S)
  OBVIOUS
<1>6. end = b + 2
  <2>1. end \in a .. Len(t) + 1 /\ At(t, end) \notin S /\ \A k \in a .. end - 1 : t[k] \in S
    <3>1. a \in 1 .. Len(t) + 1
      BY <1>1, <1>5
    <3> QED BY <1>1, <1>4, <1>5, <3>1, Behinds
  <2>2. end # a
    <3>1. At(t, a) = t[a]
      BY <1>2, <1>5 DEF At
    <3> QED BY <1>2, <1>4, <1>5, <2>1, <3>1
  <2>3. ~(end > b + 2)
    <3>1. SUFFICES ASSUME end > b + 2 PROVE FALSE
      OBVIOUS
    <3>2. b + 2 \in a .. end - 1 /\ b + 2 \in 1 .. Len(t)
      BY <1>1, <1>5, <2>1, <3>1
    <3>3. At(t, b + 2) = t[b + 2]
      BY <1>1, <3>2 DEF At
    <3> QED BY <1>2, <1>4, <2>1, <3>2, <3>3
  <2> QED BY <1>1, <1>5, <2>1, <2>2, <2>3
<1>7. SubSeq(t, a, end - 1) = <<line[2]>>
  <2>1. end - 1 = a /\ a \in 1 .. Len(t)
    BY <1>1, <1>2, <1>5, <1>6
  <2>2. SubSeq(t, a, a) = <<t[a]>>
    BY <1>1, <2>1, CutOne
  <2> QED BY <1>2, <1>5, <2>1, <2>2
<1>8. lexDirective(t, b + 1) = Subtoken("Directive", <<line[2]>>, end, FALSE)
  BY <1>3, <1>5, <1>7 DEF lexDirective, Before
<1>9. advance(t, b, TRUE) = lexDirective(t, b + 1)
  BY <1>2, TheCharacters DEF advance
<1> QED BY <1>6, <1>8, <1>9

\* A line of n characters that begins a conditional, with condition c.
IsIfLine(line, n, c) ==
  /\ n \in Nat /\ n = 5
  /\ line[1] = "%" /\ line[2] = "if" /\ line[3] = Space /\ line[4] = c /\ line[5] = "\n"

\* What is read of it.
IfLineReads(t, b, n, c) ==
  /\ advance(t, b, TRUE) = Subtoken("Directive", <<"if">>, b + 2, FALSE)
  /\ advance(t, b + 2, FALSE) = Subtoken("Whitespace", <<Space>>, b + 3, FALSE)
  /\ advance(t, b + 3, FALSE) = Subtoken("Word", <<c>>, b + 4, FALSE)
  /\ advance(t, b + 4, FALSE) = Subtoken("Newline", <<"\n">>, b + n, TRUE)

(* Behind the "if" is a space, then the condition, then the newline. *)
LEMMA IfLineIsRead ==
  ASSUME NEW t \in Text, NEW b, NEW line, NEW n, LineAt(t, b, line, n),
         NEW c \in Conditions, IsIfLine(line, n, c)
  PROVE  IfLineReads(t, b, n, c)
<1>. USE DEF IfLineReads
<1>1. /\ n = 5 /\ line[1] = "%" /\ line[2] = "if" /\ line[3] = Space
      /\ line[4] = c /\ line[5] = "\n"
      /\ line[2] \in Directives
  BY DEF Directives, IsIfLine
<1>2. /\ b \in Nat /\ b >= 1 /\ b + n <= Len(t) + 1 /\ Len(t) \in Nat /\ t \in Seq(Characters)
  BY DEF LineAt, Text
<1>3. c \in Alnum /\ c \notin Digits /\ c # Space
  BY TheCharacters, Zenon DEF Conditions, Alnum, Letters, Digits, Space
<1>4. /\ b + 2 \in DOMAIN t /\ b + 3 \in DOMAIN t /\ b + 4 \in DOMAIN t
      /\ t[b + 2] = Space /\ t[b + 3] = c /\ At(t, b + 3) = c
      /\ At(t, b + 4) = "\n" /\ t[b + 4] = "\n"
  <2>0. n = 5
    BY <1>1
  <2>1. /\ 2 \in 0 .. n - 1 /\ 3 \in 0 .. n - 1 /\ 4 \in 0 .. n - 1
        /\ 2 + 1 = 3 /\ 3 + 1 = 4 /\ 4 + 1 = 5
    BY <2>0
  <2>2. \A j \in 0 .. n - 1 :
          b + j \in DOMAIN t /\ t[b + j] = line[j + 1] /\ At(t, b + j) = line[j + 1]
    BY DEF LineAt
  <2>3. t[b + 2] = line[2 + 1] /\ t[b + 3] = line[3 + 1] /\ t[b + 4] = line[4 + 1]
        /\ At(t, b + 3) = line[3 + 1] /\ At(t, b + 4) = line[4 + 1]
        /\ b + 2 \in DOMAIN t /\ b + 3 \in DOMAIN t /\ b + 4 \in DOMAIN t
    BY <2>1, <2>2
  <2> QED BY <1>1, <2>1, <2>3
<1>5. advance(t, b, TRUE) = Subtoken("Directive", <<"if">>, b + 2, FALSE)
  <2>1. n = 5
    BY <1>1
  <2>2. n >= 3
    BY <2>1
  <2>3. line[1] = "%" /\ line[2] \in Directives /\ line[3] \in {"\n", Space} /\ line[2] = "if"
    BY <1>1
  <2>4. advance(t, b, TRUE) = Subtoken("Directive", <<line[2]>>, b + 2, FALSE)
    BY <2>2, <2>3, DirectiveLineIsRead
  <2> QED BY <2>3, <2>4
<1>6. PICK i, j, m : i = b + 2 /\ j = b + 3 /\ m = b + 4
  OBVIOUS
<1>7. /\ i \in 1 .. Len(t) /\ j \in 1 .. Len(t) /\ m \in 1 .. Len(t)
      /\ j = i + 1 /\ m = j + 1 /\ j \in i + 1 .. Len(t) + 1 /\ m \in j + 1 .. Len(t) + 1
      /\ j - 1 = i /\ m - 1 = j /\ b + n = m + 1
      /\ (\A k \in i .. j - 1 : k = i) /\ (\A k \in j .. m - 1 : k = j)
      /\ i \in i .. j - 1 /\ j \in j .. m - 1
  <2>0. n = 5
    BY <1>1
  <2>1. PICK e : e = Len(t)
    OBVIOUS
  <2>2. e \in Nat /\ b \in Nat /\ b >= 1 /\ b + 5 <= e + 1
    BY <1>2, <2>0, <2>1
  <2>3. /\ i \in 1 .. e /\ j \in 1 .. e /\ m \in 1 .. e
        /\ j = i + 1 /\ m = j + 1 /\ j \in i + 1 .. e + 1 /\ m \in j + 1 .. e + 1
        /\ j - 1 = i /\ m - 1 = j /\ b + 5 = m + 1
    BY <1>6, <2>2
  <2>4. /\ \A k \in i .. j - 1 : k = i
        /\ \A k \in j .. m - 1 : k = j
        /\ i \in i .. j - 1 /\ j \in j .. m - 1
    BY <2>3
  <2> QED BY <2>0, <2>1, <2>3, <2>4
<1>8. advance(t, i, FALSE) = Subtoken("Whitespace", <<Space>>, j, FALSE)
  <2>1. Piece(t, i, j, "Whitespace") /\ Ends(t, i, j, "Whitespace", At(t, j))
    <3>1. \A k \in i .. j - 1 : t[k] = Space
      BY <1>4, <1>6, <1>7
    <3>2. At(t, j) # Space
      BY <1>3, <1>4, <1>6
    <3> QED BY <1>7, <3>1, <3>2 DEF Piece, Ends
  <2>2. advance(t, i, FALSE) = Subtoken("Whitespace", SubSeq(t, i, j - 1), j, FALSE)
    <3>0. PICK p : p = FALSE
      OBVIOUS
    <3>1. i \in DOMAIN t /\ p \in BOOLEAN /\ (~p \/ t[i] # "%")
      BY <1>4, <1>6, <3>0
    <3>2. PICK type : type = "Whitespace"
      OBVIOUS
    <3>3. Piece(t, i, j, type) /\ Ends(t, i, j, type, At(t, j))
      BY <2>1, <3>2
    <3>4. PICK s : s = advance(t, i, p)
      OBVIOUS
    <3>6. IsReadAt(t, i, s)
      BY <3>1, <3>4, Advancing
    <3>7. s.at = j /\ s.type = type
      BY <3>1, <3>3, <3>6, OneReading DEF IsReadAt
    <3>8. s = Subtoken(type, SubSeq(t, i, j - 1), j, type = "Newline")
      BY <3>6, <3>7 DEF IsReadAt
    <3>5. (type = "Newline") = FALSE
      BY <3>2
    <3> QED BY <3>0, <3>2, <3>4, <3>5, <3>8, <3>8
  <2>3. SubSeq(t, i, i) = <<t[i]>>
    BY <1>2, <1>7, CutOne
  <2> QED BY <1>1, <1>4, <1>6, <1>7, <2>2, <2>3
<1>9. advance(t, j, FALSE) = Subtoken("Word", <<c>>, m, FALSE)
  <2>1. Piece(t, j, m, "Word") /\ Ends(t, j, m, "Word", At(t, m))
    <3>1. (\A k \in j .. m - 1 : t[k] \in Alnum) /\ ~ \A k \in j .. m - 1 : t[k] \in Digits
      BY <1>3, <1>4, <1>6, <1>7
    <3>2. At(t, m) \notin Alnum
      BY <1>4, <1>6, TheCharacters
    <3> QED BY <1>7, <3>1, <3>2 DEF Piece, Ends
  <2>2. advance(t, j, FALSE) = Subtoken("Word", SubSeq(t, j, m - 1), m, FALSE)
    <3>0. PICK p : p = FALSE
      OBVIOUS
    <3>1. j \in DOMAIN t /\ p \in BOOLEAN /\ (~p \/ t[j] # "%")
      BY <1>4, <1>6, <3>0
    <3>2. PICK type : type = "Word"
      OBVIOUS
    <3>3. Piece(t, j, m, type) /\ Ends(t, j, m, type, At(t, m))
      BY <2>1, <3>2
    <3>4. PICK s : s = advance(t, j, p)
      OBVIOUS
    <3>6. IsReadAt(t, j, s)
      BY <3>1, <3>4, Advancing
    <3>7. s.at = m /\ s.type = type
      BY <3>1, <3>3, <3>6, OneReading DEF IsReadAt
    <3>8. s = Subtoken(type, SubSeq(t, j, m - 1), m, type = "Newline")
      BY <3>6, <3>7 DEF IsReadAt
    <3>5. (type = "Newline") = FALSE
      BY <3>2
    <3> QED BY <3>0, <3>2, <3>4, <3>5, <3>8, <3>8
  <2>3. SubSeq(t, j, j) = <<t[j]>>
    BY <1>2, <1>7, CutOne
  <2> QED BY <1>4, <1>6, <1>7, <2>2, <2>3
<1>10. advance(t, m, FALSE) = Subtoken("Newline", <<"\n">>, m + 1, TRUE)
  BY <1>4, <1>6, TheCharacters DEF advance
<1> QED BY <1>5, <1>6, <1>7, <1>8, <1>9, <1>10

(* Behind an "else" and an "end" is the newline. *)
LEMMA ShortLineIsRead ==
  ASSUME NEW t \in Text, NEW b, NEW line, NEW n, LineAt(t, b, line, n), n \in Nat, n = 3,
         line[1] = "%", line[2] \in Directives
  PROVE  /\ advance(t, b, TRUE) = Subtoken("Directive", <<line[2]>>, b + 2, FALSE)
         /\ advance(t, b + 2, FALSE) = Subtoken("Newline", <<"\n">>, b + n, TRUE)
<1>1. line[3] = "\n" /\ At(t, b + 2) = "\n" /\ b + 3 = b + n
  <2>1. \A j \in 0 .. n - 1 : At(t, b + j) = line[j + 1] /\ ((line[j + 1] = "\n") <=> (j = n - 1))
    BY DEF LineAt
  <2>0. n = 3
    OBVIOUS
  <2>2. 2 \in 0 .. n - 1 /\ 2 = n - 1
    BY <2>0
  <2>3. line[2 + 1] = "\n" /\ At(t, b + 2) = line[2 + 1] /\ 2 + 1 = 3
    BY <2>1, <2>2
  <2>4. b + 3 = b + n
    BY <2>0
  <2> QED BY <2>3, <2>4
<1>2. advance(t, b, TRUE) = Subtoken("Directive", <<line[2]>>, b + 2, FALSE)
  <2>1. n = 3
    OBVIOUS
  <2>2. n >= 3 /\ line[3] \in {"\n", Space}
    BY <1>1, <2>1
  <2> QED BY <2>2, DirectiveLineIsRead
<1>3. advance(t, b + 2, FALSE) = Subtoken("Newline", <<"\n">>, b + 2 + 1, TRUE)
  BY <1>1, TheCharacters DEF advance
<1>4. b + 2 + 1 = b + 3
  BY DEF LineAt
<1> QED BY <1>1, <1>2, <1>3, <1>4

(* Two parts of a sequence, one behind the other, are a part. *)
LEMMA TwoParts ==
  ASSUME NEW S, NEW w \in Seq(S), NEW i \in 0 .. Len(w), NEW j \in i .. Len(w)
  PROVE  /\ SubSeq(w, 1, i) \o SubSeq(w, i + 1, j) = SubSeq(w, 1, j)
         /\ SubSeq(w, 1, i) \in Seq(S) /\ SubSeq(w, i + 1, j) \in Seq(S)
<1>0. PICK n, a, c : n = Len(w) /\ a = i + 1 /\ c = j + 1
  OBVIOUS
<1>1. /\ n \in Nat /\ i \in Nat /\ j \in Nat /\ i <= j /\ j <= n /\ a - 1 = i /\ c - 1 = j
      /\ 1 \in 1 .. n + 1 /\ a \in 1 .. n + 1 /\ c \in 1 .. n + 1 /\ c \in a .. n + 1
      /\ a - 1 = i /\ c - a = j - i /\ c - 1 = j
  BY <1>0
<1>2. PICK u, v, x : u = SubSeq(w, 1, i) /\ v = SubSeq(w, i + 1, j) /\ x = SubSeq(w, 1, j)
  OBVIOUS
<1>3. u \in Seq(S) /\ Len(u) = i /\ \A k \in 1 .. i : u[k] = w[1 + k - 1]
  <2>1. SubSeq(w, 1, a - 1) \in Seq(S) /\ Len(SubSeq(w, 1, a - 1)) = a - 1
        /\ \A k \in 1 .. a - 1 : SubSeq(w, 1, a - 1)[k] = w[1 + k - 1]
    BY <1>0, <1>1, Cut
  <2> QED BY <1>1, <1>2, <2>1
<1>4. x \in Seq(S) /\ Len(x) = j /\ \A k \in 1 .. j : x[k] = w[1 + k - 1]
  <2>1. SubSeq(w, 1, c - 1) \in Seq(S) /\ Len(SubSeq(w, 1, c - 1)) = c - 1
        /\ \A k \in 1 .. c - 1 : SubSeq(w, 1, c - 1)[k] = w[1 + k - 1]
    BY <1>0, <1>1, Cut
  <2> QED BY <1>1, <1>2, <2>1
<1>5. v \in Seq(S) /\ Len(v) = j - i /\ \A k \in 1 .. j - i : v[k] = w[a + k - 1]
  <2>1. SubSeq(w, a, c - 1) \in Seq(S) /\ Len(SubSeq(w, a, c - 1)) = c - a
        /\ \A k \in 1 .. c - a : SubSeq(w, a, c - 1)[k] = w[a + k - 1]
    BY <1>0, <1>1, Cut
  <2> QED BY <1>0, <1>1, <1>2, <2>1
<1>6. /\ u \o v \in Seq(S) /\ Len(u \o v) = Len(u) + Len(v)
      /\ \A k \in 1 .. Len(u) : (u \o v)[k] = u[k]
      /\ \A k \in 1 .. Len(v) : (u \o v)[Len(u) + k] = v[k]
  <2>1. u \in Seq(S) /\ v \in Seq(S)
    BY <1>3, <1>5
  <2> QED BY <2>1, Concatenated
<1>7. ASSUME NEW k \in 1 .. j PROVE (u \o v)[k] = x[k]
  <2>1. CASE k <= i
    <3>1. k \in 1 .. i
      BY <1>1, <2>1
    <3> QED BY <1>3, <1>4, <1>6, <3>1
  <2>2. CASE k > i
    <3>1. k - i \in 1 .. j - i /\ i + (k - i) = k /\ a + (k - i) - 1 = k /\ 1 + k - 1 = k
      BY <1>0, <1>1, <2>2
    <3>2. (u \o v)[i + (k - i)] = v[k - i]
      BY <1>3, <1>5, <1>6, <3>1
    <3>3. v[k - i] = w[k]
      BY <1>5, <3>1
    <3> QED BY <1>4, <3>1, <3>2, <3>3
  <2>3. k <= i \/ k > i
    BY <1>1
  <2> QED BY <2>1, <2>2, <2>3
<1>8. Len(u \o v) = j
  BY <1>1, <1>3, <1>5, <1>6
<1>9. u \o v = x
  BY <1>4, <1>6, <1>7, <1>8, SeqEqual
<1> QED BY <1>2, <1>3, <1>5, <1>9

\* Where the comment of a line begins, 0 if it has none.
CommentIn(line) == SelectInSeq(line, LAMBDA char : char = "#")

(* It is the first of its signs. *)
LEMMA TheComment ==
  ASSUME NEW line \in Text
  PROVE  /\ (\A q \in 1 .. Len(line) : line[q] # "#") => CommentIn(line) = 0
         /\ \A c \in 1 .. Len(line) :
              line[c] = "#" /\ (\A q \in 1 .. c - 1 : line[q] # "#") => CommentIn(line) = c
<1> DEFINE I == {i \in 1 .. Len(line) : line[i] = "#"}
<1>1. CommentIn(line) = IF I # {} THEN Min(I) ELSE 0
  BY DEF CommentIn, SelectInSeq
<1>2. (\A q \in 1 .. Len(line) : line[q] # "#") => I = {}
  OBVIOUS
<1>3. ASSUME NEW c \in 1 .. Len(line), line[c] = "#", \A q \in 1 .. c - 1 : line[q] # "#"
      PROVE  I # {} /\ Min(I) = c
  <2>1. c \in I /\ c \in Nat /\ Len(line) \in Nat
    BY <1>3 DEF Text
  <2>2. \A i \in I : c <= i /\ i \in Nat
    <3>1. TAKE i \in I
    <3>2. i \in 1 .. Len(line) /\ line[i] = "#" /\ i \in Nat
      BY <2>1
    <3>3. ~(i < c)
      <4>1. i < c => i \in 1 .. c - 1
        BY <2>1, <3>2
      <4> QED BY <1>3, <3>2, <4>1
    <3> QED BY <2>1, <3>2, <3>3
  <2> HIDE DEF I
  <2>3. \A i \in I : (\A k \in I : i <= k) => i = c
    <3>1. TAKE i \in I
    <3>2. (\A k \in I : i <= k) => i <= c
      BY <2>1
    <3> QED BY <2>1, <2>2, <3>2
  <2>4. Min(I) = c
    BY <2>1, <2>2, <2>3 DEF Min
  <2> QED BY <2>1, <2>4
<1> QED BY <1>1, <1>2, <1>3

\* What is left of the first k characters of a line when comments are left out.
Shown(line, k) == SubSeq(line, 1, IF Clean(line, k) THEN k ELSE CommentIn(line) - 1)

(* The part of a line that is shown grows with each subtoken but a comment. *)
LEMMA PartsGrow ==
  ASSUME NEW t \in Text, NEW b, NEW line, NEW n, LineAt(t, b, line, n), NEW k \in Nat,
         Clean(line, k), NEW j, NEW s, IsWithin(line, b, k, j, s)
  PROVE  /\ Shown(line, j) = IF s.type = "Comment" THEN Shown(line, k) ELSE Shown(line, k) \o s.str
         /\ SubSeq(line, 1, j) = SubSeq(line, 1, k) \o s.str
         /\ j < n - 1 => Clean(line, j)
         /\ j \in Nat /\ j < n /\ j # 0
<1>1. /\ line \in Seq(Characters) /\ line \in Text /\ n = Len(line) /\ n \in Nat
  BY DEF LineAt, Text
<1>2. /\ j \in k + 1 .. n - 1 /\ s.str = SubSeq(line, k + 1, j)
      /\ IF line[k + 1] = "#" THEN s.type = "Comment" /\ j = n - 1
                              ELSE s.type # "Comment" /\ \A q \in k + 1 .. j : line[q] # "#"
  BY <1>1 DEF IsWithin
<1>3. /\ j \in Nat /\ j <= n - 1 /\ k < j /\ k \in 0 .. n /\ j \in k .. n
      /\ k + 1 \in 1 .. j /\ k + 1 \in 1 .. n
  BY <1>1, <1>2
<1>4. SubSeq(line, 1, j) = SubSeq(line, 1, k) \o s.str
  BY <1>1, <1>2, <1>3, TwoParts
<1>5. Shown(line, k) = SubSeq(line, 1, k)
  BY DEF Shown
<1>6. CASE line[k + 1] = "#"
  <2>1. ~Clean(line, j)
    BY <1>3, <1>6 DEF Clean
  <2>2. CommentIn(line) = k + 1
    <3>1. PICK c : c = k + 1
      OBVIOUS
    <3>2. c \in 1 .. Len(line) /\ line[c] = "#" /\ \A q \in 1 .. c - 1 : line[q] # "#"
      BY <1>1, <1>3, <1>6, <3>1 DEF Clean
    <3> QED BY <1>1, <3>1, <3>2, TheComment
  <2>3. Shown(line, j) = SubSeq(line, 1, (k + 1) - 1) /\ (k + 1) - 1 = k
    BY <2>1, <2>2 DEF Shown
  <2>4. s.type = "Comment" /\ j = n - 1
    BY <1>2, <1>6
  <2>5. Shown(line, j) = Shown(line, k)
    BY <1>5, <2>3
  <2>6. ~(j < n - 1)
    BY <1>1, <2>4
  <2>7. j < n /\ j # 0
    BY <1>1, <1>3
  <2> QED BY <1>3, <1>4, <2>4, <2>5, <2>6, <2>7
<1>7. CASE line[k + 1] # "#"
  <2>1. Clean(line, j)
    <3>1. ASSUME NEW q \in 1 .. j
          PROVE  line[q] # "#"
      <4>1. q \in 1 .. k \/ q \in k + 1 .. j
        BY <1>3
      <4> QED BY <1>2, <1>7, <4>1 DEF Clean
    <3> QED BY <3>1 DEF Clean
  <2>2. Shown(line, j) = SubSeq(line, 1, j)
    BY <2>1 DEF Shown
  <2>3. s.type # "Comment"
    BY <1>2, <1>7
  <2>4. Shown(line, j) = Shown(line, k) \o s.str
    BY <1>4, <1>5, <2>2
  <2>5. j < n /\ j # 0
    BY <1>1, <1>3
  <2> QED BY <1>3, <1>4, <2>1, <2>3, <2>4, <2>5
<1> QED BY <1>6, <1>7

(* With the newline, what is shown of a line is the line without its comment. *)
LEMMA PartsEnd ==
  ASSUME NEW line \in LineTexts, NEW n, n = Len(line)
  PROVE  /\ Shown(line, n - 1) \o <<"\n">> = Uncommented(line)
         /\ SubSeq(line, 1, n - 1) \o <<"\n">> = line
         /\ Uncommented(line) \in Text /\ Shown(line, n - 1) \in Text
         /\ SubSeq(line, 1, n - 1) \in Text /\ <<"\n">> \in Text
<1>1. /\ line \in Seq(Characters) /\ line \in Text /\ n = Len(line) /\ n \in Nat /\ n >= 1
      /\ line[n] = "\n" /\ n \in 1 .. n /\ "\n" \in Characters
  <2>1. line \in Seq(Characters) /\ line # <<>>
    BY ConstantsAssumption, LinesAssumption
  <2>2. n \in Nat /\ n >= 1 /\ n \in 1 .. n /\ n \in DOMAIN line
    BY <2>1
  <2>3. line[n] = "\n"
    BY <2>2, LinesAssumption
  <2>4. "\n" \in Characters
    BY DEF Characters
  <2> QED BY <2>1, <2>2, <2>3, <2>4 DEF Text
<1>2. <<"\n">> \in Text
  BY <1>1 DEF Text
<1>3. /\ SubSeq(line, 1, n - 1) \o <<"\n">> = line /\ SubSeq(line, 1, n - 1) \in Text
  <2>1. PICK k, m : k = n - 1 /\ m = n
    OBVIOUS
  <2>2. k \in 0 .. Len(line) /\ m \in k .. Len(line) /\ k + 1 = n /\ m = Len(line)
    BY <1>1, <2>1
  <2>3. /\ SubSeq(line, 1, k) \o SubSeq(line, k + 1, m) = SubSeq(line, 1, m)
        /\ SubSeq(line, 1, k) \in Seq(Characters)
    BY <1>1, <2>2, TwoParts
  <2>4. SubSeq(line, n, n) = <<"\n">>
    BY <1>1, CutOne
  <2>5. SubSeq(line, 1, Len(line)) = line
    BY <1>1, SubSeqFull
  <2> QED BY <2>1, <2>2, <2>3, <2>4, <2>5 DEF Text
<1>4. CASE Clean(line, n - 1)
  <2>1. ASSUME NEW q \in 1 .. Len(line)
        PROVE  line[q] # "#"
    <3>1. q \in 1 .. n - 1 \/ q = n
      BY <1>1
    <3> QED BY <1>1, <1>4, <3>1 DEF Clean
  <2>2. CommentIn(line) = 0
    BY <1>1, <2>1, TheComment
  <2>3. Uncommented(line) = line
    BY <2>2 DEF Uncommented, CommentIn
  <2>4. Shown(line, n - 1) = SubSeq(line, 1, n - 1)
    BY <1>4 DEF Shown
  <2> QED BY <1>1, <1>2, <1>3, <2>3, <2>4
<1>5. CASE ~Clean(line, n - 1)
  <2>1. PICK c \in 1 .. n - 1 : line[c] = "#" /\ \A q \in 1 .. c - 1 : line[q] # "#"
    <3>1. PICK I : I = {q \in 1 .. n - 1 : line[q] = "#"}
      OBVIOUS
    <3>2. I \in SUBSET Nat /\ I # {}
      BY <1>1, <1>5, <3>1 DEF Clean
    <3>3. PICK c \in I : \A q \in I : c <= q
      BY <3>2, Smallest
    <3>4. ASSUME NEW q \in 1 .. c - 1
          PROVE  line[q] # "#"
      <4>1. q \in 1 .. n - 1 /\ ~(c <= q)
        BY <1>1, <3>1, <3>3
      <4> QED BY <3>1, <3>3, <4>1
    <3> QED BY <3>1, <3>3, <3>4
  <2>2. /\ c \in 1 .. Len(line) /\ c # 0
        /\ c - 1 \in 0 .. Len(line) /\ Len(line) \in c - 1 .. Len(line)
    BY <1>1, <2>1
  <2>3. CommentIn(line) = c
    BY <1>1, <2>1, <2>2, TheComment
  <2>4. Uncommented(line) = SubSeq(line, 1, c - 1) \o <<"\n">>
    BY <2>2, <2>3 DEF Uncommented, CommentIn
  <2>5. Shown(line, n - 1) = SubSeq(line, 1, c - 1)
    BY <1>5, <2>3 DEF Shown
  <2>6. SubSeq(line, 1, c - 1) \in Seq(Characters)
    BY <1>1, <2>2, TwoParts
  <2>7. SubSeq(line, 1, c - 1) \o <<"\n">> \in Seq(Characters)
    BY <1>2, <2>6, Concatenated DEF Text
  <2> QED BY <1>2, <1>3, <2>4, <2>5, <2>6, <2>7 DEF Text
<1> QED BY <1>4, <1>5

(* Nothing is shown of no characters. *)
LEMMA NoPart ==
  ASSUME NEW line \in Text
  PROVE  Shown(line, 0) = <<>> /\ SubSeq(line, 1, 0) = <<>>
<1>1. Clean(line, 0)
  BY DEF Clean
<1>2. SubSeq(line, 1, 0) = <<>>
  BY SubSeqEmpty DEF Text
<1> QED BY <1>1, <1>2 DEF Shown

\* The conditionals of lines ls that should be kept, as Preprocessing has them of its own.
MarkChosen(ls, i) == ls[i][4] \in {"true", Platform}
WellMarked(ls) ==
  /\ \A i \in DOMAIN ls : i # 0 /\ Marked(ls, i) =>
       LET q == MarkBefore(ls, i)
       IN \/ MarkIs(ls, i, "if")   /\ (q = 0 \/ MarkIs(ls, q, "end"))
          \/ MarkIs(ls, i, "else") /\ MarkIs(ls, q, "if") /\ Len(ls[i]) = 3
          \/ MarkIs(ls, i, "end")  /\ (MarkIs(ls, q, "if") \/ MarkIs(ls, q, "else"))
  /\ LET last == MarkBefore(ls, Len(ls) + 1) IN last = 0 \/ MarkIs(ls, last, "end")
LineKept(ls, i) ==
  LET q == MarkBefore(ls, i)
  IN /\ ~Marked(ls, i)
     /\ MarkIs(ls, q, "if") => MarkChosen(ls, q)
     /\ MarkIs(ls, q, "else") => ~MarkChosen(ls, MarkBefore(ls, q))
InBranch(ls, i) == MarkBefore(ls, i) # 0 /\ ~MarkIs(ls, MarkBefore(ls, i), "end")
KeptText(ls, i) ==
  IF ~LineKept(ls, i) THEN <<>> ELSE IF InBranch(ls, i) THEN ls[i] ELSE Uncommented(ls[i])
KeptUpTo(ls, n) == [i \in 1 .. n |-> KeptText(ls, i)]

\* The branch that the preprocessor is in before the i-th line, and its condition.
BranchAt(ls, i) ==
  LET q == MarkBefore(ls, i)
  IN IF q # 0 /\ ls[q][2] = "if" THEN "then" ELSE IF q # 0 /\ ls[q][2] = "else" THEN "else"
     ELSE "none"
ActiveAt(ls, i) ==
  LET q == MarkBefore(ls, i) IN MarkChosen(ls, IF ls[q][2] = "if" THEN q ELSE MarkBefore(ls, q))

(* What the directives of a text are, and where they stand. *)
LEMMA TheMarks ==
  ASSUME NEW ls \in Seq(LineTexts), WellMarked(ls), NEW i \in 1 .. Len(ls), Marked(ls, i)
  PROVE  /\ BranchAt(ls, i) = "none" => ls[i][2] = "if"
         /\ BranchAt(ls, i) = "then" =>
              ls[i][2] = "end" \/ (ls[i][2] = "else" /\ Len(ls[i]) = 3)
         /\ BranchAt(ls, i) = "else" => ls[i][2] = "end"
         /\ ls[i][2] \in {"if", "else", "end"}
         /\ ls[i][2] = "else" => Len(ls[i]) = 3 /\ BranchAt(ls, i) = "then"
         /\ ls[i][2] = "end" => BranchAt(ls, i) # "none"
         /\ BranchAt(ls, i) \in {"none", "then", "else"}
<1>1. i # 0 /\ i \in DOMAIN ls
  OBVIOUS
<1>2. PICK q : q = MarkBefore(ls, i)
  OBVIOUS
<1>3. \/ ls[i][2] = "if" /\ (q = 0 \/ MarkIs(ls, q, "end"))
      \/ ls[i][2] = "else" /\ MarkIs(ls, q, "if") /\ Len(ls[i]) = 3
      \/ ls[i][2] = "end" /\ (MarkIs(ls, q, "if") \/ MarkIs(ls, q, "else"))
  BY <1>1, <1>2 DEF WellMarked, MarkIs, Marked
<1>4. BranchAt(ls, i) = IF q # 0 /\ ls[q][2] = "if" THEN "then"
                        ELSE IF q # 0 /\ ls[q][2] = "else" THEN "else" ELSE "none"
  BY <1>2 DEF BranchAt
<1>5. \A name : MarkIs(ls, q, name) => q # 0 /\ ls[q][2] = name
  BY DEF MarkIs
<1>6. CASE ls[i][2] = "if"
  <2>1. q = 0 \/ ls[q][2] = "end"
    BY <1>3, <1>5, <1>6
  <2>2. BranchAt(ls, i) = "none"
    BY <1>4, <2>1
  <2> QED BY <1>6, <2>2
<1>7. CASE ls[i][2] = "else"
  <2>1. q # 0 /\ ls[q][2] = "if" /\ Len(ls[i]) = 3
    BY <1>3, <1>5, <1>7
  <2>2. BranchAt(ls, i) = "then"
    BY <1>4, <2>1
  <2> QED BY <1>7, <2>1, <2>2
<1>8. CASE ls[i][2] = "end"
  <2>1. q # 0 /\ ls[q][2] \in {"if", "else"}
    BY <1>3, <1>5, <1>8
  <2>2. BranchAt(ls, i) \in {"then", "else"}
    BY <1>4, <2>1
  <2> QED BY <1>8, <2>2
<1> QED BY <1>3, <1>6, <1>7, <1>8

(* Behind a line the preprocessor is where it was before it, or where the directive *)
(* in it has brought it. *)
LEMMA TheBranches ==
  ASSUME NEW ls \in Seq(LineTexts), WellMarked(ls)
  PROVE  /\ BranchAt(ls, 1) = "none"
         /\ BranchAt(ls, Len(ls) + 1) = "none"
         /\ \A i \in 1 .. Len(ls) :
              /\ ~Marked(ls, i) => BranchAt(ls, i + 1) = BranchAt(ls, i)
                                   /\ ActiveAt(ls, i + 1) = ActiveAt(ls, i)
              /\ Marked(ls, i) /\ ls[i][2] = "if" =>
                   BranchAt(ls, i + 1) = "then" /\ ActiveAt(ls, i + 1) = MarkChosen(ls, i)
              /\ Marked(ls, i) /\ ls[i][2] = "else" =>
                   BranchAt(ls, i + 1) = "else" /\ ActiveAt(ls, i + 1) = ActiveAt(ls, i)
              /\ Marked(ls, i) /\ ls[i][2] = "end" => BranchAt(ls, i + 1) = "none"
<1>1. BranchAt(ls, 1) = "none"
  <2>1. MarkBefore(ls, 1) = 0
    BY MarksBefore
  <2> QED BY <2>1 DEF BranchAt
<1>2. BranchAt(ls, Len(ls) + 1) = "none"
  <2>1. PICK q : q = MarkBefore(ls, Len(ls) + 1)
    OBVIOUS
  <2>2. q = 0 \/ MarkIs(ls, q, "end")
    BY <2>1 DEF WellMarked
  <2>3. BranchAt(ls, Len(ls) + 1) = IF q # 0 /\ ls[q][2] = "if" THEN "then"
                                    ELSE IF q # 0 /\ ls[q][2] = "else" THEN "else" ELSE "none"
    BY <2>1 DEF BranchAt
  <2> QED BY <2>2, <2>3 DEF MarkIs
<1>3. ASSUME NEW i \in 1 .. Len(ls)
      PROVE  /\ ~Marked(ls, i) => BranchAt(ls, i + 1) = BranchAt(ls, i)
                                   /\ ActiveAt(ls, i + 1) = ActiveAt(ls, i)
             /\ Marked(ls, i) /\ ls[i][2] = "if" =>
                   BranchAt(ls, i + 1) = "then" /\ ActiveAt(ls, i + 1) = MarkChosen(ls, i)
             /\ Marked(ls, i) /\ ls[i][2] = "else" =>
                   BranchAt(ls, i + 1) = "else" /\ ActiveAt(ls, i + 1) = ActiveAt(ls, i)
             /\ Marked(ls, i) /\ ls[i][2] = "end" => BranchAt(ls, i + 1) = "none"
  <2>1. PICK q, r : q = MarkBefore(ls, i) /\ r = MarkBefore(ls, i + 1)
    OBVIOUS
  <2>2. r = IF Marked(ls, i) THEN i ELSE q
    BY <2>1, MarksBefore
  <2>3. i # 0
    OBVIOUS
  <2>4. /\ BranchAt(ls, i + 1) = IF r # 0 /\ ls[r][2] = "if" THEN "then"
                                 ELSE IF r # 0 /\ ls[r][2] = "else" THEN "else" ELSE "none"
        /\ BranchAt(ls, i) = IF q # 0 /\ ls[q][2] = "if" THEN "then"
                             ELSE IF q # 0 /\ ls[q][2] = "else" THEN "else" ELSE "none"
    BY <2>1 DEF BranchAt
  <2>5. /\ ActiveAt(ls, i + 1) = MarkChosen(ls, IF ls[r][2] = "if" THEN r ELSE MarkBefore(ls, r))
        /\ ActiveAt(ls, i) = MarkChosen(ls, IF ls[q][2] = "if" THEN q ELSE MarkBefore(ls, q))
    BY <2>1 DEF ActiveAt
  <2>6. CASE ~Marked(ls, i)
    <3>1. r = q
      BY <2>2, <2>6
    <3> QED BY <2>4, <2>5, <2>6, <3>1
  <2>7. CASE Marked(ls, i)
    <3>1. r = i
      BY <2>2, <2>7
    <3>2. CASE ls[i][2] = "if"
      BY <2>3, <2>4, <2>5, <2>7, <3>1, <3>2
    <3>3. CASE ls[i][2] = "else"
      <4>1. BranchAt(ls, i) = "then"
        BY <2>7, <3>3, TheMarks
      <4>2. ls[q][2] = "if"
        BY <2>4, <4>1
      <4> QED BY <2>1, <2>3, <2>4, <2>5, <2>7, <3>1, <3>3, <4>2
    <3>4. CASE ls[i][2] = "end"
      BY <2>3, <2>4, <2>7, <3>1, <3>4
    <3> QED BY <2>7, <3>2, <3>3, <3>4
  <2> QED BY <2>6, <2>7
<1> QED BY <1>1, <1>2, <1>3

(* Which lines without a directive are kept. *)
LEMMA TheLinesKept ==
  ASSUME NEW ls \in Seq(LineTexts), WellMarked(ls), NEW i \in 1 .. Len(ls)
  PROVE  /\ Marked(ls, i) => ~LineKept(ls, i)
         /\ ~Marked(ls, i) =>
              /\ BranchAt(ls, i) = "none" => LineKept(ls, i) /\ ~InBranch(ls, i)
              /\ BranchAt(ls, i) # "none" =>
                   /\ LineKept(ls, i) <=> (ActiveAt(ls, i) = (BranchAt(ls, i) = "then"))
                   /\ InBranch(ls, i)
<1>1. PICK q : q = MarkBefore(ls, i)
  OBVIOUS
<1>2. q \in 0 .. i - 1 /\ (q # 0 => Marked(ls, q))
  BY <1>1, MarksBefore
<1>3. q # 0 => q \in 1 .. Len(ls)
  BY <1>2
<1>4. q # 0 => ls[q][2] \in {"if", "else", "end"}
  BY <1>2, <1>3, TheMarks
<1>5. /\ BranchAt(ls, i) = IF q # 0 /\ ls[q][2] = "if" THEN "then"
                           ELSE IF q # 0 /\ ls[q][2] = "else" THEN "else" ELSE "none"
      /\ ActiveAt(ls, i) = MarkChosen(ls, IF ls[q][2] = "if" THEN q ELSE MarkBefore(ls, q))
  BY <1>1 DEF BranchAt, ActiveAt
<1>6. /\ LineKept(ls, i) <=> /\ ~Marked(ls, i)
                             /\ MarkIs(ls, q, "if") => MarkChosen(ls, q)
                             /\ MarkIs(ls, q, "else") => ~MarkChosen(ls, MarkBefore(ls, q))
      /\ InBranch(ls, i) <=> q # 0 /\ ~MarkIs(ls, q, "end")
  BY <1>1 DEF LineKept, InBranch
<1>7. \A name : MarkIs(ls, q, name) <=> q # 0 /\ ls[q][2] = name
  BY <1>2 DEF MarkIs, Marked
<1>8. \A j : MarkChosen(ls, j) \in BOOLEAN
  BY DEF MarkChosen
<1>9. Marked(ls, i) => ~LineKept(ls, i)
  BY <1>6
<1>10. CASE BranchAt(ls, i) = "none"
  <2>1. q = 0 \/ ls[q][2] = "end"
    BY <1>4, <1>5, <1>10
  <2> QED BY <1>6, <1>7, <1>9, <1>10, <2>1
<1>11. CASE BranchAt(ls, i) = "then"
  <2>1. q # 0 /\ ls[q][2] = "if"
    BY <1>5, <1>11
  <2>2. InBranch(ls, i) /\ (~Marked(ls, i) => (LineKept(ls, i) <=> MarkChosen(ls, q)))
    BY <1>6, <1>7, <2>1
  <2>3. ActiveAt(ls, i) = MarkChosen(ls, q)
    BY <1>5, <2>1
  <2>4. (BranchAt(ls, i) = "then") = TRUE
    BY <1>11
  <2>5. MarkChosen(ls, q) <=> (ActiveAt(ls, i) = (BranchAt(ls, i) = "then"))
    BY <1>8, <2>3, <2>4
  <2> QED BY <1>9, <1>11, <2>2, <2>5
<1>12. CASE BranchAt(ls, i) = "else"
  <2>1. q # 0 /\ ls[q][2] = "else"
    BY <1>5, <1>12
  <2>2. /\ InBranch(ls, i)
        /\ ~Marked(ls, i) => (LineKept(ls, i) <=> ~MarkChosen(ls, MarkBefore(ls, q)))
    BY <1>6, <1>7, <2>1
  <2>3. ActiveAt(ls, i) = MarkChosen(ls, MarkBefore(ls, q))
    BY <1>5, <2>1
  <2>4. (BranchAt(ls, i) = "then") = FALSE
    BY <1>12
  <2>5. ~MarkChosen(ls, MarkBefore(ls, q)) <=> (ActiveAt(ls, i) = (BranchAt(ls, i) = "then"))
    BY <1>8, <2>3, <2>4
  <2> QED BY <1>9, <1>12, <2>2, <2>5
<1> QED BY <1>5, <1>10, <1>11, <1>12

(* What is kept of the lines, one after the other. *)
LEMMA KeptTexts ==
  ASSUME NEW ls \in Seq(LineTexts)
  PROVE  /\ FlattenSeq(KeptUpTo(ls, 0)) = <<>>
         /\ \A i \in 1 .. Len(ls) :
              /\ KeptText(ls, i) \in Text
              /\ FlattenSeq(KeptUpTo(ls, i)) = FlattenSeq(KeptUpTo(ls, i - 1)) \o KeptText(ls, i)
         /\ \A i \in 0 .. Len(ls) : FlattenSeq(KeptUpTo(ls, i)) \in Text
<1>1. ASSUME NEW i \in 1 .. Len(ls)
      PROVE  KeptText(ls, i) \in Text
  <2>1. ls[i] \in LineTexts /\ ls[i] \in Text
    BY ElementOfSeq, ConstantsAssumption DEF Text
  <2>2. Uncommented(ls[i]) \in Text
    BY <2>1, PartsEnd
  <2>3. <<>> \in Text
    BY DEF Text
  <2> QED BY <2>1, <2>2, <2>3 DEF KeptText
<1>2. ASSUME NEW i \in 0 .. Len(ls)
      PROVE  KeptUpTo(ls, i) \in Seq(Text) /\ Len(KeptUpTo(ls, i)) = i
  <2>1. i \in Nat /\ \A j \in 1 .. i : j \in 1 .. Len(ls)
    OBVIOUS
  <2>2. \A j \in 1 .. i : KeptText(ls, j) \in Text
    BY <1>1, <2>1
  <2> QED BY <2>1, <2>2, IsASeq DEF KeptUpTo
<1>3. ASSUME NEW i \in 1 .. Len(ls)
      PROVE  FlattenSeq(KeptUpTo(ls, i)) = FlattenSeq(KeptUpTo(ls, i - 1)) \o KeptText(ls, i)
  <2>1. PICK m : m = i - 1
    OBVIOUS
  <2>2. m \in 0 .. Len(ls) /\ i \in 0 .. Len(ls) /\ i \in Nat /\ m + 1 = i /\ m \in Nat
    BY <2>1
  <2>3. PICK u, v, x : u = KeptUpTo(ls, m) /\ v = KeptUpTo(ls, i) /\ x = KeptText(ls, i)
    OBVIOUS
  <2>4. u \in Seq(Text) /\ v \in Seq(Text) /\ Len(u) = m /\ Len(v) = i /\ x \in Text
    BY <1>1, <1>2, <2>2, <2>3
  <2>5. /\ \A j \in 1 .. m : u[j] = KeptText(ls, j)
        /\ \A j \in 1 .. i : v[j] = KeptText(ls, j)
    BY <2>3 DEF KeptUpTo
  <2>6. Append(u, x) \in Seq(Text) /\ Len(Append(u, x)) = i
        /\ \A j \in 1 .. i : Append(u, x)[j] = IF j <= m THEN u[j] ELSE x
    BY <2>2, <2>4, AppendProperties
  <2>7. ASSUME NEW j \in 1 .. i
        PROVE  v[j] = Append(u, x)[j]
    <3>1. CASE j <= m
      <4>1. j \in 1 .. m
        BY <2>2, <3>1
      <4> QED BY <2>5, <2>6, <3>1, <4>1
    <3>2. CASE ~(j <= m)
      <4>1. j = i
        BY <2>2, <3>2
      <4> QED BY <2>3, <2>5, <2>6, <3>2, <4>1
    <3> QED BY <3>1, <3>2
  <2>8. v = Append(u, x)
    BY <2>4, <2>6, <2>7, SeqEqual
  <2>9. FlattenSeq(Append(u, x)) = FlattenSeq(u) \o x
    BY <2>4, FlattenSeqAppend DEF Text
  <2> QED BY <2>1, <2>3, <2>8, <2>9
<1>4. FlattenSeq(KeptUpTo(ls, 0)) = <<>>
  <2>1. KeptUpTo(ls, 0) \in Seq(Text) /\ Len(KeptUpTo(ls, 0)) = 0
    BY <1>2
  <2>2. KeptUpTo(ls, 0) = <<>>
    BY <2>1
  <2> QED BY <2>2, FlattenSeqEmpty
<1>5. ASSUME NEW i \in 0 .. Len(ls)
      PROVE  FlattenSeq(KeptUpTo(ls, i)) \in Text
  BY <1>2, FlattenSeqType DEF Text
<1> QED BY <1>1, <1>3, <1>4, <1>5

\* The preprocessor has read lines up to the k-th character of the i-th; s is next.
KeptPart(ls, i, k) ==
  IF ~LineKept(ls, i) THEN <<>>
  ELSE IF InBranch(ls, i) THEN SubSeq(ls[i], 1, k) ELSE Shown(ls[i], k)
ReadTo(ls, t, p, i, k, s) ==
  /\ Placed(t, ls, p) /\ i \in 1 .. Len(ls) + 1 /\ k \in Nat
  /\ s = advance(t, p[i - 1] + k, k = 0)
  /\ i = Len(ls) + 1 => k = 0
  /\ i \in 1 .. Len(ls) =>
       /\ k < Len(ls[i]) /\ (k < Len(ls[i]) - 1 => Clean(ls[i], k))
       /\ k # 0 => ~Marked(ls, i)

\* What it has written then.
Wrote(ls, i, k) ==
  IF i \in 1 .. Len(ls) THEN FlattenSeq(KeptUpTo(ls, i - 1)) \o KeptPart(ls, i, k)
                        ELSE FlattenSeq(KeptUpTo(ls, Len(ls)))

\* What the next subtoken is.
NextIs(ls, p, i, k, s) ==
  /\ s.type # "Undefined"
  /\ (i = Len(ls) + 1) <=> (s.type = "EndOfInput")
  /\ i \in 1 .. Len(ls) /\ Marked(ls, i) =>
       k = 0 /\ s.type = "Directive" /\ s.str = <<ls[i][2]>>
  /\ i \in 1 .. Len(ls) /\ ~Marked(ls, i) =>
       /\ s.type # "Directive"
       /\ IF k = Len(ls[i]) - 1
          THEN s = Subtoken("Newline", <<"\n">>, p[i], TRUE)
          ELSE \E j : IsWithin(ls[i], p[i - 1], k, j, s)

(* Which subtokens are next. *)
LEMMA NextSubtokens ==
  ASSUME NEW t \in Text, NEW ls \in Seq(LineTexts), WellMarked(ls),
         NEW p, NEW i, NEW k, NEW s, ReadTo(ls, t, p, i, k, s)
  PROVE  NextIs(ls, p, i, k, s)
<1>. USE DEF NextIs
<1>1. PICK N : N = Len(ls)
  OBVIOUS
<1>2. /\ Placed(t, ls, p) /\ i \in 1 .. N + 1 /\ k \in Nat /\ N \in Nat
      /\ s = advance(t, p[i - 1] + k, k = 0)
      /\ i = N + 1 => k = 0
  BY <1>1 DEF ReadTo
<1>3. CASE i = N + 1
  <2>0. PICK e : e = Len(t) + 1
    OBVIOUS
  <2>1. p[N] = e /\ i - 1 = N /\ k = 0 /\ e \in Nat /\ e \notin DOMAIN t
    BY <1>1, <1>2, <1>3, <2>0 DEF Placed, Text
  <2>2. s = advance(t, e, TRUE)
    <3>1. p[i - 1] + k = e /\ (k = 0) = TRUE
      BY <2>1
    <3> QED BY <1>2, <3>1
  <2>3. At(t, e) = "eof"
    BY <2>1 DEF At
  <2>4. s = Subtoken("EndOfInput", <<>>, e, TRUE)
    BY <2>2, <2>3, TheCharacters DEF advance
  <2>5. s.type = "EndOfInput"
    BY <2>4 DEF Subtoken
  <2>6. i \notin 1 .. N
    BY <1>2, <1>3
  <2> QED BY <1>1, <1>3, <2>5, <2>6
<1>4. CASE i # N + 1
  <2>1. i \in 1 .. N /\ i \in 1 .. Len(ls)
    BY <1>1, <1>2, <1>4
  <2>2. PICK line, n, b : line = ls[i] /\ n = Len(ls[i]) /\ b = p[i - 1]
    OBVIOUS
  <2>3. LineAt(t, b, line, n) /\ p[i] = b + n
    BY <1>2, <2>1, <2>2, InTheLine
  <2>4. k < n /\ (k < n - 1 => Clean(line, k)) /\ (k # 0 => ~Marked(ls, i))
    BY <2>1, <2>2 DEF ReadTo
  <2>5. s = advance(t, b + k, k = 0) /\ n \in Nat
    BY <1>2, <2>2, <2>3 DEF LineAt
  <2>6. CASE Marked(ls, i)
    <3>1. k = 0 /\ line[1] = "%" /\ b + k = b
      BY <2>2, <2>3, <2>4, <2>6 DEF Marked, LineAt
    <3>2. line[2] \in Directives /\ n >= 3 /\ line[3] \in {"\n", Space}
      <4>1. line \in LineTexts /\ line \in Text /\ n = Len(line) /\ DOMAIN line = 1 .. n
        BY <2>3 DEF LineAt
      <4>2. line[2] \in {"if", "else", "end"} /\ (line[2] = "else" => n = 3)
        BY <2>1, <2>2, <2>6, TheMarks
      <4>3. CASE line[2] = "if"
        <5>1. PICK c : line = <<"%", "if", Space, c, "\n">>
          BY <3>1, <4>1, <4>3, LinesAssumption
        <5>2. Len(line) = 5 /\ line[3] = Space
          BY <5>1
        <5> QED BY <4>1, <4>3, <5>2 DEF Directives
      <4>4. CASE line[2] = "end"
        <5>1. line = <<"%", "end", "\n">>
          BY <3>1, <4>1, <4>4, LinesAssumption
        <5>2. Len(line) = 3 /\ line[3] = "\n"
          BY <5>1
        <5> QED BY <4>1, <4>4, <5>2 DEF Directives
      <4>5. CASE line[2] = "else"
        <5>1. n = 3 /\ 3 \in DOMAIN line
          <6>1. n = 3
            BY <4>2, <4>5
          <6>2. 3 \in 1 .. n
            BY <6>1
          <6> QED BY <4>1, <6>1, <6>2
        <5>2. line[3] = "\n"
          BY <4>1, <5>1, LinesAssumption
        <5> QED BY <4>5, <5>1, <5>2 DEF Directives
      <4> QED BY <4>2, <4>3, <4>4, <4>5
    <3>3. (k = 0) = TRUE
      BY <3>1
    <3>4. s = Subtoken("Directive", <<line[2]>>, b + 2, FALSE)
      <4>1. s = advance(t, b, TRUE)
        BY <2>5, <3>1, <3>3
      <4>2. advance(t, b, TRUE) = Subtoken("Directive", <<line[2]>>, b + 2, FALSE)
        BY <2>3, <3>1, <3>2, DirectiveLineIsRead
      <4> QED BY <4>1, <4>2
    <3>5. s.type = "Directive" /\ s.str = <<line[2]>>
      BY <3>4 DEF Subtoken
    <3> QED BY <1>1, <1>4, <2>2, <2>6, <3>1, <3>5
  <2>7. CASE ~Marked(ls, i)
    <3>1. line[1] # "%"
      BY <2>2, <2>7 DEF Marked
    <3>2. IF k = n - 1
          THEN s = Subtoken("Newline", <<"\n">>, b + n, TRUE)
          ELSE \E j : IsWithin(line, b, k, j, s)
      BY <1>2, <2>3, <2>4, <2>5, <3>1, LineIsRead
    <3>3. s.type \notin {"Undefined", "EndOfInput", "Directive"}
      BY <3>2 DEF IsWithin, Subtoken
    <3> QED BY <1>1, <1>4, <2>2, <2>3, <2>7, <3>2, <3>3
  <2> QED BY <2>6, <2>7
<1> QED BY <1>3, <1>4

(* At the beginning of a line, the lines before it are written. *)
LEMMA WroteLines ==
  ASSUME NEW ls \in Seq(LineTexts), NEW i \in 1 .. Len(ls) + 1
  PROVE  Wrote(ls, i, 0) = FlattenSeq(KeptUpTo(ls, i - 1))
<1>1. CASE i \in 1 .. Len(ls)
  <2>1. ls[i] \in Text
    BY <1>1, ElementOfSeq, ConstantsAssumption DEF Text
  <2>2. KeptPart(ls, i, 0) = <<>>
    BY <2>1, NoPart DEF KeptPart
  <2>3. i - 1 \in 0 .. Len(ls)
    BY <1>1
  <2>4. FlattenSeq(KeptUpTo(ls, i - 1)) \in Seq(Characters)
    BY <2>3, KeptTexts DEF Text
  <2>5. FlattenSeq(KeptUpTo(ls, i - 1)) \o <<>> = FlattenSeq(KeptUpTo(ls, i - 1))
    BY <2>4, ConcatEmptySeq
  <2> QED BY <1>1, <2>2, <2>5 DEF Wrote
<1>2. CASE i \notin 1 .. Len(ls)
  <2>1. i - 1 = Len(ls)
    BY <1>2
  <2> QED BY <1>2, <2>1 DEF Wrote
<1> QED BY <1>1, <1>2

(* At the beginning of a line, or of the end. *)
LEMMA TheLineBegins ==
  ASSUME NEW t \in Text, NEW ls \in Seq(LineTexts), NEW p, Placed(t, ls, p),
         NEW j \in 1 .. Len(ls) + 1, NEW u, u = advance(t, p[j - 1], TRUE)
  PROVE  ReadTo(ls, t, p, j, 0, u)
<1>1. PICK N, b : N = Len(ls) /\ b = p[j - 1]
  OBVIOUS
<1>2. b + 0 = b /\ (0 = 0) = TRUE
  <2>1. CASE j = N + 1
    <3>1. j - 1 = N
      BY <1>1, <2>1
    <3>2. p[N] = Len(t) + 1 /\ Len(t) \in Nat
      BY <1>1 DEF Placed, Text
    <3> QED BY <1>1, <3>1, <3>2
  <2>2. CASE j # N + 1
    <3>1. j \in 1 .. Len(ls)
      BY <1>1, <2>2
    <3>2. p[j - 1] \in Nat
      BY <3>1 DEF Placed
    <3> QED BY <1>1, <3>2
  <2> QED BY <2>1, <2>2
<1>3. u = advance(t, p[j - 1] + 0, 0 = 0)
  BY <1>1, <1>2
<1>4. ASSUME j \in 1 .. Len(ls)
      PROVE  0 < Len(ls[j]) /\ (0 < Len(ls[j]) - 1 => Clean(ls[j], 0))
  <2>1. LineAt(t, p[j - 1], ls[j], Len(ls[j]))
    BY <1>4, InTheLine
  <2> QED BY <2>1 DEF LineAt, Clean
<1> QED BY <1>3, <1>4 DEF ReadTo

(* At the beginning of the next line. *)
LEMMA TheNextLine ==
  ASSUME NEW t \in Text, NEW ls \in Seq(LineTexts), NEW p, Placed(t, ls, p),
         NEW i \in 1 .. Len(ls), NEW u, u = advance(t, p[i], TRUE)
  PROVE  /\ ReadTo(ls, t, p, i + 1, 0, u)
         /\ Wrote(ls, i + 1, 0) = FlattenSeq(KeptUpTo(ls, i))
         /\ Wrote(ls, i + 1, 0) = FlattenSeq(KeptUpTo(ls, i - 1)) \o KeptText(ls, i)
<1>1. PICK j : j = i + 1
  OBVIOUS
<1>2. j \in 1 .. Len(ls) + 1 /\ j - 1 = i
  BY <1>1
<1>3. u = advance(t, p[j - 1], TRUE)
  BY <1>2
<1>4. ReadTo(ls, t, p, j, 0, u)
  BY <1>2, <1>3, TheLineBegins
<1>5. Wrote(ls, j, 0) = FlattenSeq(KeptUpTo(ls, i))
  BY <1>2, WroteLines
<1>6. FlattenSeq(KeptUpTo(ls, i)) = FlattenSeq(KeptUpTo(ls, i - 1)) \o KeptText(ls, i)
  BY KeptTexts
<1> QED BY <1>1, <1>4, <1>5, <1>6

\* Behind the subtoken that is next, u is, when it has been copied or left out.
CopiesOn(ls, t, p, i, u, new) ==
  \E j, m : /\ ReadTo(ls, t, p, j, m, u) /\ new = Wrote(ls, j, m)
            /\ BranchAt(ls, j) = BranchAt(ls, i) /\ ActiveAt(ls, j) = ActiveAt(ls, i)
CopyOf(ls, i, s, out) ==
  IF LineKept(ls, i) /\ (InBranch(ls, i) \/ s.type # "Comment") THEN out \o s.str ELSE out

(* A subtoken of a line without a directive is copied, unless it is to be left out. *)
LEMMA LineIsCopied ==
  ASSUME NEW t \in Text, NEW ls \in Seq(LineTexts), WellMarked(ls),
         NEW p, NEW i, NEW k, NEW s, ReadTo(ls, t, p, i, k, s),
         i \in 1 .. Len(ls), ~Marked(ls, i),
         NEW u, u = advance(t, s.at, s.potentialDirective),
         NEW out, out = Wrote(ls, i, k),
         NEW new, new = CopyOf(ls, i, s, out)
  PROVE  CopiesOn(ls, t, p, i, u, new)
<1>. USE DEF CopiesOn, CopyOf
<1>1. PICK line, n, b, F : /\ line = ls[i] /\ n = Len(ls[i]) /\ b = p[i - 1]
                           /\ F = FlattenSeq(KeptUpTo(ls, i - 1))
  OBVIOUS
<1>2. Placed(t, ls, p) /\ k \in Nat /\ k < n /\ (k < n - 1 => Clean(line, k))
  BY <1>1 DEF ReadTo
<1>3. LineAt(t, b, line, n) /\ p[i] = b + n
  BY <1>1, <1>2, InTheLine
<1>4. /\ line \in LineTexts /\ line \in Text /\ n \in Nat /\ b \in Nat /\ n = Len(line) /\ n >= 1
  BY <1>3 DEF LineAt
<1>5. F \in Text
  <2>1. i - 1 \in 0 .. Len(ls)
    OBVIOUS
  <2> QED BY <1>1, <2>1, KeptTexts
<1>6. out = F \o KeptPart(ls, i, k)
  BY <1>1 DEF Wrote
<1>7. IF k = n - 1
      THEN s = Subtoken("Newline", <<"\n">>, p[i], TRUE)
      ELSE \E j : IsWithin(line, b, k, j, s)
  <2>1. IF k = Len(ls[i]) - 1
        THEN s = Subtoken("Newline", <<"\n">>, p[i], TRUE)
        ELSE \E j : IsWithin(ls[i], p[i - 1], k, j, s)
    BY NextSubtokens DEF NextIs
  <2> QED BY <1>1, <2>1
<1>8. CASE k = n - 1
  <2>1. /\ s = Subtoken("Newline", <<"\n">>, p[i], TRUE) /\ s.at = p[i] /\ s.type # "Comment"
        /\ s.potentialDirective = TRUE /\ s.str = <<"\n">>
    BY <1>7, <1>8 DEF Subtoken
  <2>2. u = advance(t, p[i], TRUE)
    BY <2>1
  <2>3. /\ ReadTo(ls, t, p, i + 1, 0, u)
        /\ Wrote(ls, i + 1, 0) = F \o KeptText(ls, i)
    <3>1. /\ ReadTo(ls, t, p, i + 1, 0, u)
          /\ Wrote(ls, i + 1, 0) = FlattenSeq(KeptUpTo(ls, i - 1)) \o KeptText(ls, i)
      BY <1>2, <2>2, TheNextLine
    <3> QED BY <1>1, <3>1
  <2>7. BranchAt(ls, i + 1) = BranchAt(ls, i) /\ ActiveAt(ls, i + 1) = ActiveAt(ls, i)
    BY TheBranches
  <2>4. /\ Shown(line, n - 1) \o <<"\n">> = Uncommented(line)
        /\ SubSeq(line, 1, n - 1) \o <<"\n">> = line
        /\ Shown(line, n - 1) \in Text /\ SubSeq(line, 1, n - 1) \in Text /\ <<"\n">> \in Text
    BY <1>4, PartsEnd
  <2>5. CASE LineKept(ls, i)
    <3>1. KeptPart(ls, i, k) \in Text /\ KeptPart(ls, i, k) \o <<"\n">> = KeptText(ls, i)
      BY <1>1, <1>8, <2>4, <2>5 DEF KeptPart, KeptText
    <3>2. (F \o KeptPart(ls, i, k)) \o <<"\n">> = F \o (KeptPart(ls, i, k) \o <<"\n">>)
      BY <1>5, <2>4, <3>1, Associative
    <3>3. new = out \o s.str
      BY <2>1, <2>5
    <3>4. new = Wrote(ls, i + 1, 0)
      BY <1>6, <2>1, <2>3, <3>1, <3>2, <3>3
    <3> QED BY <2>3, <2>7, <3>4
  <2>6. CASE ~LineKept(ls, i)
    <3>1. KeptPart(ls, i, k) = <<>> /\ KeptText(ls, i) = <<>>
      BY <2>6 DEF KeptPart, KeptText
    <3>2. new = out
      BY <2>6
    <3>3. new = Wrote(ls, i + 1, 0)
      BY <1>6, <2>3, <3>1, <3>2
    <3> QED BY <2>3, <2>7, <3>3
  <2> QED BY <2>5, <2>6
<1>9. CASE k # n - 1
  <2>1. PICK j : IsWithin(line, b, k, j, s)
    BY <1>7, <1>9
  <2>2. Clean(line, k)
    BY <1>2, <1>4, <1>9
  <2>3. /\ Shown(line, j) = IF s.type = "Comment" THEN Shown(line, k) ELSE Shown(line, k) \o s.str
        /\ SubSeq(line, 1, j) = SubSeq(line, 1, k) \o s.str
        /\ j < n - 1 => Clean(line, j)
        /\ j \in Nat /\ j < n /\ j # 0
    BY <1>2, <1>3, <2>1, <2>2, PartsGrow
  <2>4. s.at = b + j /\ s.potentialDirective = FALSE /\ (j = 0) = FALSE
    BY <2>1, <2>3 DEF IsWithin
  <2>5. u = advance(t, p[i - 1] + j, j = 0)
    BY <1>1, <2>4
  <2>6. i \in 1 .. Len(ls) + 1 /\ i # Len(ls) + 1
    OBVIOUS
  <2>7. ReadTo(ls, t, p, i, j, u)
    BY <1>1, <1>2, <2>3, <2>5, <2>6 DEF ReadTo
  <2>8. Wrote(ls, i, j) = F \o KeptPart(ls, i, j)
    BY <1>1 DEF Wrote
  <2>9. /\ s.str \in Text /\ Shown(line, k) \in Text /\ SubSeq(line, 1, k) \in Text
    <3>1. k \in 0 .. Len(line) /\ j \in k .. Len(line)
      BY <1>2, <1>4, <2>1, <2>3 DEF IsWithin
    <3>2. SubSeq(line, 1, k) \in Text /\ SubSeq(line, k + 1, j) \in Text
      BY <1>4, <3>1, TwoParts DEF Text
    <3>3. s.str = SubSeq(line, k + 1, j)
      BY <2>1 DEF IsWithin
    <3>4. Shown(line, k) = SubSeq(line, 1, k)
      BY <2>2 DEF Shown
    <3> QED BY <3>2, <3>3, <3>4
  <2>10. CASE LineKept(ls, i) /\ (InBranch(ls, i) \/ s.type # "Comment")
    <3>1. KeptPart(ls, i, k) \in Text /\ KeptPart(ls, i, k) \o s.str = KeptPart(ls, i, j)
      BY <1>1, <2>3, <2>9, <2>10 DEF KeptPart
    <3>2. (F \o KeptPart(ls, i, k)) \o s.str = F \o (KeptPart(ls, i, k) \o s.str)
      BY <1>5, <2>9, <3>1, Associative
    <3>3. new = out \o s.str
      BY <2>10
    <3> QED BY <1>6, <2>7, <2>8, <3>1, <3>2, <3>3
  <2>11. CASE ~(LineKept(ls, i) /\ (InBranch(ls, i) \/ s.type # "Comment"))
    <3>1. KeptPart(ls, i, k) = KeptPart(ls, i, j)
      BY <1>1, <2>3, <2>11 DEF KeptPart
    <3>2. new = out
      BY <2>11
    <3> QED BY <1>6, <2>7, <2>8, <3>1, <3>2
  <2> QED BY <2>10, <2>11
<1> QED BY <1>8, <1>9

\* At the k-th character of the i-th line, the preprocessor is where it should be.
OnItsWay(ls, t, p, i, k, s, br, ac, out) ==
  /\ ReadTo(ls, t, p, i, k, s)
  /\ out = Wrote(ls, i, k)
  /\ br = BranchAt(ls, i)
  /\ br # "none" => ac = ActiveAt(ls, i)

\* The invariant of the preprocessor, for texts whose conditionals are well formed.
HonouredInv ==
  lines # <<>> =>
    /\ lines \in Seq(LineTexts)
    /\ WellMarked(lines) =>
         /\ phase # "refused"
         /\ phase = "preprocessing" =>
              /\ text \in Text
              /\ \E p, i, k : OnItsWay(lines, text, p, i, k, subtoken, branch, active, output)
         /\ phase # "preprocessing" => output = FlattenSeq(KeptUpTo(lines, Len(lines)))

(* It holds at the beginning. *)
LEMMA InitHonoured == Init => HonouredInv
<1> SUFFICES ASSUME Init, lines # <<>> PROVE HonouredInv
  BY DEF HonouredInv
<1>1. /\ PreprocessorInit /\ lexer = Beginning /\ branch = "none" /\ output = <<>>
      /\ phase = "preprocessing"
  BY DEF Init, PreprocessorInit
<1>2. PICK n \in 1 .. MaxLines : lines \in [1 .. n -> LineTexts]
  BY <1>1 DEF PreprocessorInit
<1>3. text = FlattenSeq(lines) /\ text \in Text
  BY <1>1, InitialTexts DEF PreprocessorInit
<1>4. n \in Nat
  BY ConstantsAssumption
<1>5. lines \in Seq(LineTexts) /\ lines \in Seq(Seq(Characters))
  <2>1. lines \in Seq(LineTexts)
    BY <1>2, <1>4, IsASeq
  <2>2. lines \in [1 .. n -> Seq(Characters)]
    BY <1>2, ConstantsAssumption
  <2> QED BY <1>4, <2>1, <2>2, IsASeq
<1>6. PICK p : Placed(text, lines, p)
  BY <1>3, <1>5, FlattenedPlaces
<1>7. ASSUME WellMarked(lines)
      PROVE  OnItsWay(lines, text, p, 1, 0, subtoken, branch, active, output)
  <2>1. PICK j : j = 1
    OBVIOUS
  <2>2. j \in 1 .. Len(lines) + 1 /\ j - 1 = 0
    BY <1>5, <2>1
  <2>3. subtoken = advance(text, p[j - 1], TRUE)
    <3>1. p[j - 1] = 1
      BY <1>6, <2>2 DEF Placed
    <3> QED BY <1>1, <3>1, TheBeginning DEF subtoken, populated, Advanced
  <2>4. ReadTo(lines, text, p, j, 0, subtoken)
    BY <1>3, <1>5, <1>6, <2>2, <2>3, TheLineBegins
  <2>5. Wrote(lines, j, 0) = <<>>
    <3>1. Wrote(lines, j, 0) = FlattenSeq(KeptUpTo(lines, 0))
      BY <1>5, <2>2, WroteLines
    <3> QED BY <1>5, <3>1, KeptTexts
  <2>6. BranchAt(lines, 1) = "none"
    BY <1>5, <1>7, TheBranches
  <2>7. branch = BranchAt(lines, j) /\ branch = "none" /\ output = Wrote(lines, j, 0)
    BY <1>1, <2>1, <2>5, <2>6
  <2>8. OnItsWay(lines, text, p, j, 0, subtoken, branch, active, output)
    BY <2>4, <2>7 DEF OnItsWay
  <2> QED BY <2>1, <2>8
<1> QED BY <1>1, <1>3, <1>5, <1>7 DEF HonouredInv

(* The lexer has its subtokens from advance. *)
LEMMA FromAdvance ==
  /\ Taken = advance(text, subtoken.at, subtoken.potentialDirective)
  /\ \A s : s.type # "Undefined" => next(text, s) = advance(text, s.at, s.potentialDirective)
  /\ text' = text /\ lexer'.type # "Undefined" => subtoken' = lexer'
BY DEF Taken, subtoken, next, populated, Advanced

\* What a step of the preprocessor finds and what it should leave.
Underway(ls, p, i, k) ==
  /\ ls \in Seq(LineTexts) /\ WellMarked(ls) /\ text \in Text
  /\ OnItsWay(ls, text, p, i, k, subtoken, branch, active, output)
StillUnderway(ls, p) ==
  /\ phase' = phase
  /\ \E i, k : OnItsWay(ls, text', p, i, k, subtoken', branch', active', output')

(* Copying one subtoken. *)
LEMMA CopyingSubtoken ==
  ASSUME NEW ls, NEW p, NEW i, NEW k, Underway(ls, p, i, k), i \in 1 .. Len(ls), ~Marked(ls, i),
         text' = text, lexer' = Taken, branch' = branch, active' = active, phase' = phase,
         output' = CopyOf(ls, i, subtoken, output)
  PROVE  StillUnderway(ls, p)
<1>1. /\ ls \in Seq(LineTexts) /\ WellMarked(ls) /\ text \in Text
      /\ ReadTo(ls, text, p, i, k, subtoken) /\ output = Wrote(ls, i, k)
      /\ branch = BranchAt(ls, i) /\ (branch # "none" => active = ActiveAt(ls, i))
  BY DEF Underway, OnItsWay
<1>2. PICK s, u, out, new : s = subtoken /\ u = Taken /\ out = output /\ new = output'
  OBVIOUS
<1>3. u = advance(text, s.at, s.potentialDirective)
  BY <1>2, FromAdvance
<1>4. PICK j, m : /\ ReadTo(ls, text, p, j, m, u) /\ new = Wrote(ls, j, m)
                  /\ BranchAt(ls, j) = BranchAt(ls, i) /\ ActiveAt(ls, j) = ActiveAt(ls, i)
  <2>1. /\ ReadTo(ls, text, p, i, k, s) /\ out = Wrote(ls, i, k)
        /\ new = CopyOf(ls, i, s, out)
    BY <1>1, <1>2
  <2>2. ls \in Seq(LineTexts) /\ WellMarked(ls) /\ text \in Text
    BY <1>1
  <2> QED BY <1>3, <2>1, <2>2, LineIsCopied DEF CopiesOn
<1>5. u.type # "Undefined"
  BY <1>1, <1>4, NextSubtokens DEF NextIs
<1>6. subtoken' = u
  BY <1>2, <1>5, FromAdvance
<1>7. OnItsWay(ls, text', p, j, m, subtoken', branch', active', output')
  BY <1>1, <1>2, <1>4, <1>6 DEF OnItsWay
<1> QED BY <1>7 DEF StillUnderway

(* Behind a line with a directive. *)
LEMMA PassingDirective ==
  ASSUME NEW ls, NEW p, NEW i, NEW k, Underway(ls, p, i, k), i \in 1 .. Len(ls), Marked(ls, i),
         text' = text, lexer' = advance(text, p[i], TRUE), phase' = phase, output' = output,
         branch' = BranchAt(ls, i + 1), branch' # "none" => active' = ActiveAt(ls, i + 1)
  PROVE  StillUnderway(ls, p)
<1>1. /\ ls \in Seq(LineTexts) /\ WellMarked(ls) /\ text \in Text /\ Placed(text, ls, p)
      /\ ReadTo(ls, text, p, i, k, subtoken) /\ output = Wrote(ls, i, k)
  BY DEF Underway, OnItsWay, ReadTo
<1>2. k = 0
  <2>1. NextIs(ls, p, i, k, subtoken)
    BY <1>1, NextSubtokens
  <2> QED BY <2>1 DEF NextIs
<1>3. PICK u : u = advance(text, p[i], TRUE)
  OBVIOUS
<1>4. /\ ReadTo(ls, text, p, i + 1, 0, u)
      /\ Wrote(ls, i + 1, 0) = FlattenSeq(KeptUpTo(ls, i - 1)) \o KeptText(ls, i)
  BY <1>1, <1>3, TheNextLine
<1>5. KeptText(ls, i) = <<>>
  BY <1>1, TheLinesKept DEF KeptText
<1>6. FlattenSeq(KeptUpTo(ls, i - 1)) \o <<>> = FlattenSeq(KeptUpTo(ls, i - 1))
  <2>1. i - 1 \in 0 .. Len(ls)
    BY <1>1
  <2>2. FlattenSeq(KeptUpTo(ls, i - 1)) \in Seq(Characters)
    BY <1>1, <2>1, KeptTexts DEF Text
  <2> QED BY <2>2, ConcatEmptySeq
<1>7. Wrote(ls, i, 0) = FlattenSeq(KeptUpTo(ls, i - 1))
  <2>1. i \in 1 .. Len(ls) + 1
    BY <1>1
  <2> QED BY <1>1, <2>1, WroteLines
<1>8. output = Wrote(ls, i + 1, 0)
  BY <1>1, <1>2, <1>4, <1>5, <1>6, <1>7
<1>9. u.type # "Undefined"
  BY <1>1, <1>4, NextSubtokens DEF NextIs
<1>10. subtoken' = u
  BY <1>3, <1>9, FromAdvance
<1>11. OnItsWay(ls, text', p, i + 1, 0, subtoken', branch', active', output')
  BY <1>4, <1>8, <1>10 DEF OnItsWay
<1> QED BY <1>11 DEF StillUnderway

(* What the subtoken that is next tells of the line. *)
LEMMA WhereItIs ==
  ASSUME NEW ls, NEW p, NEW i, NEW k, Underway(ls, p, i, k)
  PROVE  /\ ls \in Seq(LineTexts) /\ WellMarked(ls) /\ text \in Text /\ Placed(text, ls, p)
         /\ NextIs(ls, p, i, k, subtoken) /\ i \in 1 .. Len(ls) + 1 /\ Len(ls) \in Nat
         /\ AtEnd => i = Len(ls) + 1 /\ branch = "none"
         /\ ~AtEnd => i \in 1 .. Len(ls)
         /\ \A name : IsDirective(subtoken, name) =>
              i \in 1 .. Len(ls) /\ Marked(ls, i) /\ ls[i][2] = name
         /\ i \in 1 .. Len(ls) /\ Marked(ls, i) =>
              k = 0 /\ IsDirective(subtoken, ls[i][2])
              /\ subtoken = advance(text, p[i - 1], TRUE)
         /\ output = Wrote(ls, i, k)
         /\ branch = BranchAt(ls, i) /\ (branch # "none" => active = ActiveAt(ls, i))
<1>1. /\ ls \in Seq(LineTexts) /\ WellMarked(ls) /\ text \in Text
      /\ ReadTo(ls, text, p, i, k, subtoken) /\ output = Wrote(ls, i, k)
      /\ branch = BranchAt(ls, i) /\ (branch # "none" => active = ActiveAt(ls, i))
  BY DEF Underway, OnItsWay
<1>2. /\ Placed(text, ls, p) /\ i \in 1 .. Len(ls) + 1 /\ Len(ls) \in Nat
      /\ subtoken = advance(text, p[i - 1] + k, k = 0)
  BY <1>1 DEF ReadTo
<1>3. NextIs(ls, p, i, k, subtoken)
  BY <1>1, NextSubtokens
<1>4. PICK s, N : s = subtoken /\ N = Len(ls)
  OBVIOUS
<1>5. /\ s.type # "Undefined"
      /\ (i = N + 1) <=> (s.type = "EndOfInput")
      /\ i \in 1 .. N /\ Marked(ls, i) => k = 0 /\ s.type = "Directive" /\ s.str = <<ls[i][2]>>
      /\ i \in 1 .. N /\ ~Marked(ls, i) => s.type # "Directive"
  BY <1>3, <1>4 DEF NextIs
<1>6. i = N + 1 \/ i \in 1 .. N
  BY <1>2, <1>4
<1>7. AtEnd => i = N + 1 /\ branch = "none"
  <2>1. AtEnd => i = N + 1
    BY <1>4, <1>5 DEF AtEnd
  <2>2. BranchAt(ls, N + 1) = "none"
    BY <1>1, <1>4, TheBranches
  <2> QED BY <1>1, <2>1, <2>2
<1>8. ~AtEnd => i \in 1 .. N
  BY <1>4, <1>5, <1>6 DEF AtEnd
<1>9. ASSUME NEW name, IsDirective(subtoken, name)
      PROVE  i \in 1 .. N /\ Marked(ls, i) /\ ls[i][2] = name
  <2>1. s.type = "Directive" /\ s.str = <<name>>
    BY <1>4, <1>9 DEF IsDirective
  <2>2. i \in 1 .. N
    BY <1>5, <1>6, <2>1
  <2>3. Marked(ls, i) /\ s.str = <<ls[i][2]>>
    BY <1>5, <2>1, <2>2
  <2> QED BY <2>1, <2>2, <2>3
<1>10. ASSUME i \in 1 .. N, Marked(ls, i)
       PROVE  k = 0 /\ IsDirective(subtoken, ls[i][2]) /\ subtoken = advance(text, p[i - 1], TRUE)
  <2>1. k = 0 /\ IsDirective(subtoken, ls[i][2])
    BY <1>4, <1>5, <1>10 DEF IsDirective
  <2>2. LineAt(text, p[i - 1], ls[i], Len(ls[i]))
    BY <1>1, <1>2, <1>4, <1>10, InTheLine
  <2>3. p[i - 1] + k = p[i - 1] /\ (k = 0) = TRUE
    BY <2>1, <2>2 DEF LineAt
  <2> QED BY <1>2, <2>1, <2>3
<1> QED BY <1>1, <1>2, <1>3, <1>4, <1>7, <1>8, <1>9, <1>10

(* A subtoken outside of conditionals. *)
LEMMA CopyHonours ==
  ASSUME NEW ls, NEW p, NEW i, NEW k, Underway(ls, p, i, k), text' = text, Copy
  PROVE  StillUnderway(ls, p)
<1>1. /\ branch = "none" /\ ~AtEnd /\ ~IsDirective(subtoken, "if")
      /\ output' = IF subtoken.type = "Comment" THEN output ELSE output \o subtoken.str
      /\ lexer' = Taken /\ branch' = branch /\ active' = active /\ phase' = phase
  BY DEF Copy
<1>2. /\ ls \in Seq(LineTexts) /\ WellMarked(ls) /\ i \in 1 .. Len(ls) /\ BranchAt(ls, i) = "none"
  BY <1>1, WhereItIs
<1>3. ~Marked(ls, i)
  <2>1. SUFFICES ASSUME Marked(ls, i) PROVE FALSE
    OBVIOUS
  <2>2. ls[i][2] = "if"
    BY <1>2, <2>1, TheMarks
  <2>3. IsDirective(subtoken, ls[i][2])
    BY <1>2, <2>1, WhereItIs
  <2> QED BY <1>1, <2>2, <2>3
<1>4. LineKept(ls, i) /\ ~InBranch(ls, i)
  BY <1>2, <1>3, TheLinesKept
<1>5. output' = CopyOf(ls, i, subtoken, output)
  BY <1>1, <1>4 DEF CopyOf
<1> QED BY <1>1, <1>2, <1>3, <1>5, CopyingSubtoken

(* A subtoken in a conditional. *)
LEMMA CopyBranchHonours ==
  ASSUME NEW ls, NEW p, NEW i, NEW k, Underway(ls, p, i, k), text' = text, CopyBranch
  PROVE  StillUnderway(ls, p)
<1>1. /\ branch # "none" /\ ~AtEnd /\ ~IsDirective(subtoken, "end")
      /\ branch = "then" => ~IsDirective(subtoken, "else")
      /\ output' = IF active = (branch = "then") THEN output \o subtoken.str ELSE output
      /\ lexer' = Taken /\ branch' = branch /\ active' = active /\ phase' = phase
  BY DEF CopyBranch
<1>2. /\ ls \in Seq(LineTexts) /\ WellMarked(ls) /\ i \in 1 .. Len(ls)
      /\ BranchAt(ls, i) = branch /\ active = ActiveAt(ls, i)
  BY <1>1, WhereItIs
<1>3. ~Marked(ls, i)
  <2>1. SUFFICES ASSUME Marked(ls, i) PROVE FALSE
    OBVIOUS
  <2>2. IsDirective(subtoken, ls[i][2])
    BY <1>2, <2>1, WhereItIs
  <2>3. /\ branch = "then" => ls[i][2] = "end" \/ ls[i][2] = "else"
        /\ branch = "else" => ls[i][2] = "end"
        /\ branch \in {"none", "then", "else"}
    BY <1>2, <2>1, TheMarks
  <2> QED BY <1>1, <2>2, <2>3
<1>4. (LineKept(ls, i) <=> (active = (branch = "then"))) /\ InBranch(ls, i)
  BY <1>1, <1>2, <1>3, TheLinesKept
<1>5. output' = CopyOf(ls, i, subtoken, output)
  BY <1>1, <1>4 DEF CopyOf
<1> QED BY <1>1, <1>2, <1>3, <1>5, CopyingSubtoken

(* The newline behind an else or an end. *)
LEMMA ShortLines ==
  ASSUME NEW ls, NEW p, NEW i, NEW k, Underway(ls, p, i, k), i \in 1 .. Len(ls),
         Marked(ls, i), Len(ls[i]) = 3
  PROVE  Taken.type = "Newline" /\ next(text, Taken) = advance(text, p[i], TRUE)
<1>1. PICK t, b, line, n : t = text /\ b = p[i - 1] /\ line = ls[i] /\ n = Len(ls[i])
  OBVIOUS
<1>2. /\ ls \in Seq(LineTexts) /\ WellMarked(ls) /\ t \in Text /\ Placed(t, ls, p)
      /\ subtoken = advance(t, b, TRUE)
  BY <1>1, WhereItIs
<1>3. LineAt(t, b, line, n) /\ p[i] = b + n /\ n = 3 /\ n \in Nat
  <2>1. LineAt(t, b, line, n) /\ p[i] = b + n
    BY <1>1, <1>2, InTheLine
  <2> QED BY <1>1, <2>1 DEF LineAt
<1>4. line[1] = "%" /\ line[2] \in Directives
  <2>1. ls[i][2] \in {"if", "else", "end"}
    BY <1>2, TheMarks
  <2> QED BY <1>1, <2>1 DEF Marked, Directives
<1>5. /\ advance(t, b, TRUE) = Subtoken("Directive", <<line[2]>>, b + 2, FALSE)
      /\ advance(t, b + 2, FALSE) = Subtoken("Newline", <<"\n">>, b + n, TRUE)
  BY <1>2, <1>3, <1>4, ShortLineIsRead
<1>6. subtoken.at = b + 2 /\ subtoken.potentialDirective = FALSE
  <2>1. subtoken = Subtoken("Directive", <<line[2]>>, b + 2, FALSE)
    BY <1>2, <1>5
  <2> QED BY <2>1 DEF Subtoken
<1>7. Taken = Subtoken("Newline", <<"\n">>, b + n, TRUE)
  BY <1>1, <1>5, <1>6, FromAdvance
<1>8. Taken.type = "Newline" /\ Taken.at = p[i] /\ Taken.potentialDirective = TRUE
  BY <1>3, <1>7 DEF Subtoken
<1> QED BY <1>8, FromAdvance

(* Between the branches. *)
LEMMA ElseHonours ==
  ASSUME NEW ls, NEW p, NEW i, NEW k, Underway(ls, p, i, k), text' = text, Else
  PROVE  StillUnderway(ls, p)
<1>1. branch = "then" /\ IsDirective(subtoken, "else")
  BY DEF Else
<1>2. /\ ls \in Seq(LineTexts) /\ WellMarked(ls) /\ i \in 1 .. Len(ls) /\ Marked(ls, i)
      /\ ls[i][2] = "else" /\ active = ActiveAt(ls, i)
  BY <1>1, WhereItIs
<1>3. Len(ls[i]) = 3
  BY <1>2, TheMarks
<1>4. Taken.type = "Newline" /\ next(text, Taken) = advance(text, p[i], TRUE)
  BY <1>2, <1>3, ShortLines
<1>5. /\ branch' = "else" /\ lexer' = advance(text, p[i], TRUE)
      /\ active' = active /\ output' = output /\ phase' = phase
  BY <1>4 DEF Else
<1>6. BranchAt(ls, i + 1) = "else" /\ ActiveAt(ls, i + 1) = ActiveAt(ls, i)
  BY <1>2, TheBranches
<1>7. branch' = BranchAt(ls, i + 1) /\ active' = ActiveAt(ls, i + 1)
  BY <1>2, <1>5, <1>6
<1> QED BY <1>2, <1>5, <1>7, PassingDirective

(* The end of a conditional. *)
LEMMA EndIfHonours ==
  ASSUME NEW ls, NEW p, NEW i, NEW k, Underway(ls, p, i, k), text' = text, EndIf
  PROVE  StillUnderway(ls, p)
<1>1. branch # "none" /\ (AtEnd \/ IsDirective(subtoken, "end"))
  BY DEF EndIf
<1>2. ~AtEnd /\ IsDirective(subtoken, "end")
  BY <1>1, WhereItIs
<1>3. /\ ls \in Seq(LineTexts) /\ WellMarked(ls) /\ i \in 1 .. Len(ls) /\ Marked(ls, i)
      /\ ls[i][2] = "end"
  BY <1>2, WhereItIs
<1>4. Len(ls[i]) = 3
  <2>1. ls[i] \in LineTexts /\ ls[i][1] = "%"
    BY <1>3, ElementOfSeq DEF Marked
  <2>2. ls[i] = <<"%", "end", "\n">>
    BY <1>3, <2>1, LinesAssumption
  <2> QED BY <2>2
<1>5. Taken.type = "Newline" /\ next(text, Taken) = advance(text, p[i], TRUE)
  BY <1>3, <1>4, ShortLines
<1>6. /\ branch' = "none" /\ lexer' = advance(text, p[i], TRUE)
      /\ active' = active /\ output' = output /\ phase' = phase
  BY <1>2, <1>5 DEF EndIf
<1>7. BranchAt(ls, i + 1) = "none"
  BY <1>3, TheBranches
<1>8. branch' = BranchAt(ls, i + 1) /\ ~(branch' # "none")
  BY <1>6, <1>7
<1> QED BY <1>3, <1>6, <1>8, PassingDirective

(* The beginning of a conditional. *)
LEMMA OpenIfHonours ==
  ASSUME NEW ls, NEW p, NEW i, NEW k, Underway(ls, p, i, k), text' = text, OpenIf
  PROVE  StillUnderway(ls, p)
<1>1. branch = "none" /\ IsDirective(subtoken, "if")
  BY DEF OpenIf
<1>2. /\ ls \in Seq(LineTexts) /\ WellMarked(ls) /\ i \in 1 .. Len(ls) /\ Marked(ls, i)
      /\ ls[i][2] = "if"
  BY <1>1, WhereItIs
<1>3. PICK t, b, line, n : t = text /\ b = p[i - 1] /\ line = ls[i] /\ n = Len(ls[i])
  OBVIOUS
<1>4. t \in Text /\ Placed(t, ls, p) /\ subtoken = advance(t, b, TRUE)
  BY <1>2, <1>3, WhereItIs
<1>5. LineAt(t, b, line, n) /\ p[i] = b + n /\ n \in Nat
  BY <1>2, <1>3, <1>4, InTheLine DEF LineAt
<1>6. PICK c \in Conditions : line = <<"%", "if", Space, c, "\n">>
  <2>1. ls[i] \in LineTexts /\ ls[i][1] = "%"
    BY <1>2, ElementOfSeq DEF Marked
  <2> QED BY <1>2, <1>3, <2>1, LinesAssumption
<1>7. /\ n = 5 /\ line[1] = "%" /\ line[2] = "if" /\ line[3] = Space /\ line[4] = c
      /\ line[5] = "\n"
  BY <1>3, <1>6
<1>8. /\ advance(t, b, TRUE) = Subtoken("Directive", <<"if">>, b + 2, FALSE)
      /\ advance(t, b + 2, FALSE) = Subtoken("Whitespace", <<Space>>, b + 3, FALSE)
      /\ advance(t, b + 3, FALSE) = Subtoken("Word", <<c>>, b + 4, FALSE)
      /\ advance(t, b + 4, FALSE) = Subtoken("Newline", <<"\n">>, b + n, TRUE)
  <2>1. IsIfLine(line, n, c)
    BY <1>5, <1>7 DEF IsIfLine
  <2>2. c \in Conditions /\ t \in Text /\ LineAt(t, b, line, n)
    BY <1>4, <1>5, <1>6
  <2>3. IfLineReads(t, b, n, c)
    BY <2>1, <2>2, IfLineIsRead
  <2> QED BY <2>3 DEF IfLineReads
<1>9. PICK condition, newline, rest :
        /\ condition = next(text, Taken) /\ newline = next(text, condition)
        /\ rest = next(text, newline)
  OBVIOUS
<1>10. Taken = Subtoken("Whitespace", <<Space>>, b + 3, FALSE)
  <2>1. subtoken.at = b + 2 /\ subtoken.potentialDirective = FALSE
    <3>1. subtoken = Subtoken("Directive", <<"if">>, b + 2, FALSE)
      BY <1>4, <1>8
    <3> QED BY <3>1 DEF Subtoken
  <2> QED BY <1>3, <1>8, <2>1, FromAdvance
<1>11. condition = Subtoken("Word", <<c>>, b + 4, FALSE)
  <2>1. /\ Taken.type # "Undefined" /\ Taken.at = b + 3
        /\ Taken.potentialDirective = FALSE
    BY <1>10 DEF Subtoken
  <2>2. next(text, Taken) = advance(text, b + 3, FALSE)
    BY <2>1, FromAdvance
  <2> QED BY <1>3, <1>8, <1>9, <2>2
<1>12. newline = Subtoken("Newline", <<"\n">>, b + n, TRUE)
  <2>1. /\ condition.type # "Undefined" /\ condition.at = b + 4
        /\ condition.potentialDirective = FALSE
    BY <1>11 DEF Subtoken
  <2>2. next(text, condition) = advance(text, b + 4, FALSE)
    BY <2>1, FromAdvance
  <2> QED BY <1>3, <1>8, <1>9, <2>2
<1>13. rest = advance(text, p[i], TRUE)
  <2>1. /\ newline.type # "Undefined" /\ newline.at = p[i]
        /\ newline.potentialDirective = TRUE
    BY <1>5, <1>12 DEF Subtoken
  <2> QED BY <1>9, <2>1, FromAdvance
<1>14. Taken.type = "Whitespace" /\ newline.type = "Newline" /\ condition.str = <<c>>
  BY <1>10, <1>11, <1>12 DEF Subtoken
<1>15. \E d \in Conditions : condition.str = <<d>>
  BY <1>6, <1>14
<1>16. /\ active' = (condition.str \in {<<"true">>, <<Platform>>})
       /\ branch' = "then" /\ lexer' = rest /\ output' = output /\ phase' = phase
  BY <1>9, <1>14, <1>15 DEF OpenIf
<1>17. BranchAt(ls, i + 1) = "then" /\ ActiveAt(ls, i + 1) = MarkChosen(ls, i)
  BY <1>2, TheBranches
<1>18. active' = MarkChosen(ls, i)
  <2>1. MarkChosen(ls, i) <=> c = "true" \/ c = Platform
    BY <1>3, <1>7 DEF MarkChosen
  <2>2. (<<c>> \in {<<"true">>, <<Platform>>}) <=> c = "true" \/ c = Platform
    OBVIOUS
  <2>3. MarkChosen(ls, i) \in BOOLEAN
    BY DEF MarkChosen
  <2> QED BY <1>14, <1>16, <2>1, <2>2, <2>3
<1>19. lexer' = advance(text, p[i], TRUE) /\ branch' = BranchAt(ls, i + 1)
       /\ active' = ActiveAt(ls, i + 1)
  BY <1>13, <1>16, <1>17, <1>18
<1> QED BY <1>2, <1>16, <1>19, PassingDirective

(* A step of the preprocessor. *)
LEMMA PreprocessHonours ==
  ASSUME HonouredInv, Preprocess
  PROVE  HonouredInv'
<1>1. /\ phase = "preprocessing" /\ lines' = lines /\ text' = text
      /\ Copy \/ OpenIf \/ CopyBranch \/ Else \/ EndIf
  BY DEF Preprocess
<1>2. PICK ls : ls = lines
  OBVIOUS
<1>3. CASE ls # <<>> /\ WellMarked(ls)
  <2>1. /\ ls \in Seq(LineTexts) /\ text \in Text
        /\ \E p, i, k : OnItsWay(ls, text, p, i, k, subtoken, branch, active, output)
    BY <1>1, <1>2, <1>3 DEF HonouredInv
  <2>2. PICK p, i, k : OnItsWay(ls, text, p, i, k, subtoken, branch, active, output)
    BY <2>1
  <2>3. Underway(ls, p, i, k)
    BY <1>3, <2>1, <2>2 DEF Underway
  <2>4. StillUnderway(ls, p)
    <3>1. CASE Copy
      BY <1>1, <2>3, <3>1, CopyHonours
    <3>2. CASE OpenIf
      BY <1>1, <2>3, <3>2, OpenIfHonours
    <3>3. CASE CopyBranch
      BY <1>1, <2>3, <3>3, CopyBranchHonours
    <3>4. CASE Else
      BY <1>1, <2>3, <3>4, ElseHonours
    <3>5. CASE EndIf
      BY <1>1, <2>3, <3>5, EndIfHonours
    <3> QED BY <1>1, <3>1, <3>2, <3>3, <3>4, <3>5
  <2>5. /\ phase' = "preprocessing" /\ text' \in Text /\ lines' = ls
        /\ \E j, m : OnItsWay(ls, text', p, j, m, subtoken', branch', active', output')
    BY <1>1, <1>2, <2>1, <2>4 DEF StillUnderway
  <2> QED BY <2>1, <2>5 DEF HonouredInv
<1>4. CASE ~(ls # <<>> /\ WellMarked(ls))
  <2>1. lines' = ls /\ (ls # <<>> => ls \in Seq(LineTexts) /\ ~WellMarked(ls))
    BY <1>1, <1>2, <1>4 DEF HonouredInv
  <2> QED BY <2>1 DEF HonouredInv
<1> QED BY <1>3, <1>4

(* The end of the preprocessor's work. *)
LEMMA PreprocessedHonours ==
  ASSUME HonouredInv, Preprocessed
  PROVE  HonouredInv'
<1>1. /\ phase = "preprocessing" /\ AtEnd /\ lines' = lines /\ output' = output
      /\ phase' = "lexing"
  BY DEF Preprocessed
<1>2. PICK ls : ls = lines
  OBVIOUS
<1>3. ASSUME ls # <<>>, WellMarked(ls)
      PROVE  output = FlattenSeq(KeptUpTo(ls, Len(ls)))
  <2>1. /\ ls \in Seq(LineTexts) /\ text \in Text
        /\ \E p, i, k : OnItsWay(ls, text, p, i, k, subtoken, branch, active, output)
    BY <1>1, <1>2, <1>3 DEF HonouredInv
  <2>2. PICK p, i, k : OnItsWay(ls, text, p, i, k, subtoken, branch, active, output)
    BY <2>1
  <2>3. Underway(ls, p, i, k)
    BY <1>3, <2>1, <2>2 DEF Underway
  <2>4. i = Len(ls) + 1 /\ output = Wrote(ls, i, k) /\ Len(ls) \in Nat
    BY <1>1, <2>3, WhereItIs
  <2>5. i \notin 1 .. Len(ls)
    BY <2>4
  <2> QED BY <2>4, <2>5 DEF Wrote
<1>4. lines' = ls /\ (ls # <<>> => ls \in Seq(LineTexts))
  BY <1>1, <1>2 DEF HonouredInv
<1>5. phase' # "refused" /\ phase' # "preprocessing"
  BY <1>1
<1> QED BY <1>1, <1>3, <1>4, <1>5 DEF HonouredInv

(* The lexer leaves what the preprocessor has written. *)
LEMMA LexerHonours ==
  ASSUME HonouredInv, advanceLexer
  PROVE  HonouredInv'
<1>1. phase \in {"lexing", "relexing"} /\ lines' = lines /\ output' = output
  BY DEF advanceLexer
<1>2. phase' \in {"lexing", "relexing", "stopped", "done"}
  <2>1. /\ \A type, str, rest : Make(type, str, rest) => phase' = phase
        /\ \A rest : Undefined(rest) => phase' = "stopped"
    BY DEF Make, Undefined
  <2>2. NoToken => phase' \in {"stopped", "relexing", "done"}
    BY <2>1 DEF NoToken, Store
  <2>3. lexWord \/ lexPunctuation \/ lexSpan => phase' = phase
    BY <2>1, Zenon DEF lexWord, lexPunctuation, lexSpan
  <2>4. lexNumber => phase' = phase \/ phase' = "stopped"
    BY <2>1, Zenon DEF lexNumber
  <2>5. lexAnnotation => phase' = phase \/ phase' = "stopped"
    BY <2>1, Zenon DEF lexAnnotation
  <2>6. \/ lexWord \/ lexNumber \/ lexPunctuation \/ lexAnnotation \/ lexSpan \/ NoToken
    BY DEF advanceLexer
  <2> QED BY <1>1, <2>2, <2>3, <2>4, <2>5, <2>6
<1>3. phase # "preprocessing" /\ phase' # "preprocessing" /\ phase' # "refused"
  BY <1>1, <1>2
<1> QED BY <1>1, <1>3 DEF HonouredInv

(* What is kept of the lines is what should be. *)
LEMMA TheOutput ==
  ASSUME lines \in Seq(LineTexts)
  PROVE  /\ WellFormed => WellMarked(lines)
         /\ KeptUpTo(lines, Len(lines))
              = [i \in DOMAIN lines |->
                   CASE ~Kept(i) -> <<>>
                     [] Kept(i) /\ InConditional(i) -> lines[i]
                     [] OTHER -> Uncommented(lines[i])]
<1>1. \A i : Previous(i) = MarkBefore(lines, i)
  BY DEF Previous, MarkBefore
<1>2. \A i, name : Is(i, name) <=> MarkIs(lines, i, name)
  BY DEF Is, MarkIs
<1>3. \A i \in DOMAIN lines : (IsMark(i) <=> Marked(lines, i)) /\ i # 0
  BY DEF IsMark, Marked
<1>4. \A i : Chosen(i) <=> MarkChosen(lines, i)
  BY DEF Chosen, MarkChosen
<1>5. WellFormed => WellMarked(lines)
  BY <1>1, <1>2, <1>3 DEF WellFormed, WellMarked
<1>6. \A i \in DOMAIN lines :
        /\ Kept(i) <=> LineKept(lines, i)
        /\ InConditional(i) <=> InBranch(lines, i)
  BY <1>1, <1>2, <1>3, <1>4 DEF Kept, LineKept, InConditional, InBranch
<1>7. \A i \in DOMAIN lines :
        KeptText(lines, i) = CASE ~Kept(i) -> <<>>
                               [] Kept(i) /\ InConditional(i) -> lines[i]
                               [] OTHER -> Uncommented(lines[i])
  <2>1. TAKE i \in DOMAIN lines
  <2>2. (Kept(i) <=> LineKept(lines, i)) /\ (InConditional(i) <=> InBranch(lines, i))
    BY <1>6
  <2> QED BY <2>2 DEF KeptText
<1>8. DOMAIN lines = 1 .. Len(lines)
  OBVIOUS
<1> QED BY <1>5, <1>7, <1>8 DEF KeptUpTo

(* Of a text with conditionals, whatever its lines are and how many, the output has *)
(* the lines outside of them and those of the branches that are chosen, and no      *)
(* assertion of the preprocessor fails (Preprocessor::process, parseIf).            *)
THEOREM ConditionalsAreHonoured == Spec => []BranchesAreHonoured
<1>1. Init => HonouredInv
  BY InitHonoured
<1>2. HonouredInv /\ [Next]_vars => HonouredInv'
  <2> SUFFICES ASSUME HonouredInv, [Next]_vars PROVE HonouredInv'
    OBVIOUS
  <2>1. CASE Preprocess
    BY <2>1, PreprocessHonours
  <2>2. CASE Preprocessed
    BY <2>2, PreprocessedHonours
  <2>3. CASE advanceLexer
    BY <2>3, LexerHonours
  <2>4. CASE UNCHANGED vars
    <3>1. /\ lines' = lines /\ text' = text /\ lexer' = lexer /\ branch' = branch
          /\ active' = active /\ output' = output /\ phase' = phase
      BY <2>4 DEF vars, preprocessorVars
    <3>2. subtoken' = subtoken
      BY <3>1 DEF subtoken
    <3> QED BY <3>1, <3>2 DEF HonouredInv
  <2> QED BY <2>1, <2>2, <2>3, <2>4 DEF Next
<1>3. HonouredInv => BranchesAreHonoured
  <2> SUFFICES ASSUME HonouredInv, lines # <<>>, WellFormed PROVE BranchesAreHonoured
    BY DEF BranchesAreHonoured
  <2>1. lines \in Seq(LineTexts)
    BY DEF HonouredInv
  <2>2. WellMarked(lines)
    BY <2>1, TheOutput
  <2>3. phase # "refused"
        /\ (phase # "preprocessing" => output = FlattenSeq(KeptUpTo(lines, Len(lines))))
    BY <2>2 DEF HonouredInv
  <2> QED BY <2>1, <2>3, TheOutput DEF BranchesAreHonoured
<1> QED BY <1>1, <1>2, <1>3, PTL DEF Spec
=============================================================================
