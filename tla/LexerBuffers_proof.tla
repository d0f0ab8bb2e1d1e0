------------------------- MODULE LexerBuffers_proof -------------------------
(***************************************************************************)
(* Proofs about LexerBuffers, for texts, look-ahead and spans of any       *)
(* length.                                                                 *)
(***************************************************************************)
EXTENDS LexerBuffers, FiniteSetTheorems, FunctionTheorems, TLAPS

-----------------------------------------------------------------------------
(* Tokens and the buffer. *)

\* How much has been taken is a number.
LEMMA Positions ==
  ASSUME TypeOK
  PROVE  /\ at \in Nat /\ Len(tokenBuffer) \in Nat /\ position \in Nat
         /\ position = at + Len(tokenBuffer)
         /\ tokenBuffer \in Seq(Token)
         /\ text \in Seq(Types)
         /\ Len(text) \in Nat
         /\ MaxPosition \in Nat
<1>1. /\ position \in Nat /\ tokenBuffer \in Seq(Token) /\ text \in Seq(Types)
      /\ start \in Nat /\ start <= at
  BY DEF TypeOK
<1>2. Len(tokenBuffer) \in Nat /\ Len(text) \in Nat
  BY <1>1
<1>3. at = position - Len(tokenBuffer)
  BY DEF at
<1>4. at \in Nat
  BY <1>1, <1>2, <1>3
<1>. QED
  BY <1>1, <1>2, <1>3, <1>4, BoundsAssumption

\* The stream counts as the buffer does.
LEMMA SameCardinality == ASSUME NEW S PROVE Stream!Cardinality(S) = Cardinality(S)
BY DEF Stream!Cardinality, Cardinality

LEMMA Advanced ==
  ASSUME TypeOK, NEW p \in Nat, p > 0
  PROVE  /\ advance(p) \in Token
         /\ advance(p).place = p
         /\ advance(p) = Stream!TokenAt(p)
         /\ advance(p).type = Stream!TypeAt(p)
<1>1. p <= Len(text) => text[p] \in Types
  BY Positions
<1>2. advance(p) = [type |-> Stream!TypeAt(p), place |-> p]
  BY DEF advance, Stream!TypeAt
<1>3. Stream!TypeAt(p) \in Types
  BY <1>1, TypesAssumption DEF Stream!TypeAt
<1>. QED
  BY <1>2, <1>3 DEF Token, Stream!TokenAt

\* With more tokens the buffer still is what comes next.
LEMMA ExtendedBuffer ==
  ASSUME TypeOK, BufferInv, NEW n \in Nat
  PROVE  /\ Extended(n) \in Seq(Token)
         /\ Len(Extended(n)) = Len(tokenBuffer) + n
         /\ \A i \in 1 .. Len(tokenBuffer) + n : Extended(n)[i] = advance(at + i)
<1>. DEFINE more == [i \in 1 .. n |-> advance(position + i)]
<1>1. at \in Nat /\ position = at + Len(tokenBuffer) /\ Len(tokenBuffer) \in Nat
  BY Positions
<1>2. \A i \in 1 .. n : advance(position + i) \in Token
  BY <1>1, Advanced
<1>3. more \in Seq(Token) /\ Len(more) = n
  BY <1>2
<1>. HIDE DEF more
<1>4. /\ tokenBuffer \o more \in Seq(Token)
      /\ Len(tokenBuffer \o more) = Len(tokenBuffer) + n
      /\ \A i \in 1 .. Len(tokenBuffer) + n :
           (tokenBuffer \o more)[i] =
             IF i <= Len(tokenBuffer) THEN tokenBuffer[i] ELSE more[i - Len(tokenBuffer)]
  BY <1>3, Positions
<1>5. ASSUME NEW i \in 1 .. Len(tokenBuffer) + n
      PROVE  (tokenBuffer \o more)[i] = advance(at + i)
  <2>1. CASE i <= Len(tokenBuffer)
    BY <1>1, <1>4, <2>1 DEF BufferInv
  <2>2. CASE ~(i <= Len(tokenBuffer))
    <3>1. i - Len(tokenBuffer) \in 1 .. n
      BY <1>1, <2>2
    <3>2. more[i - Len(tokenBuffer)] = advance(position + (i - Len(tokenBuffer)))
      BY <3>1 DEF more
    <3>3. position + (i - Len(tokenBuffer)) = at + i
      BY <1>1
    <3>4. (tokenBuffer \o more)[i] = more[i - Len(tokenBuffer)]
      BY <1>4, <2>2
    <3>. QED
      BY <3>2, <3>3, <3>4
  <2>. QED
    BY <2>1, <2>2
<1>. QED
  BY <1>4, <1>5 DEF Extended, more

\* Counting in the buffer is counting in the stream.
LEMMA CountedInStream ==
  ASSUME TypeOK, BufferInv, NEW n \in Nat, NEW i \in 1 .. Len(tokenBuffer) + n
  PROVE  LET inBuffer == {j \in Counted(Extended(n)) : j <= i}
             inStream == {q \in at + 1 .. at + i : Stream!Visible(q)}
         IN  /\ IsFiniteSet(inBuffer)
             /\ Cardinality(inStream) = Cardinality(inBuffer)
             /\ i \in Counted(Extended(n)) <=> Stream!Visible(at + i)
<1>. DEFINE inBuffer == {j \in Counted(Extended(n)) : j <= i}
            inStream == {q \in at + 1 .. at + i : Stream!Visible(q)}
            shift == [j \in inBuffer |-> at + j]
<1>1. at \in Nat /\ Len(tokenBuffer) \in Nat
  BY Positions
<1>2. \A j \in 1 .. Len(tokenBuffer) + n :
        j \in Counted(Extended(n)) <=> Stream!Visible(at + j)
  <2>. SUFFICES ASSUME NEW j \in 1 .. Len(tokenBuffer) + n
                PROVE  j \in Counted(Extended(n)) <=> Stream!Visible(at + j)
    OBVIOUS
  <2>1. Extended(n)[j] = advance(at + j) /\ Len(Extended(n)) = Len(tokenBuffer) + n
    BY ExtendedBuffer
  <2>2. advance(at + j).type = Stream!TypeAt(at + j)
    BY <1>1, Advanced
  <2>. QED
    BY <2>1, <2>2 DEF Counted, Stream!Visible
<1>3. inBuffer \subseteq 1 .. i
  BY ExtendedBuffer DEF Counted
<1>4. IsFiniteSet(inBuffer)
  <2>1. IsFiniteSet(1 .. i)
    BY <1>1, FS_Interval
  <2>. HIDE DEF inBuffer
  <2>. QED
    BY <1>3, <2>1, FS_Subset
<1>5. \A j \in 1 .. i : j \in inBuffer <=> at + j \in inStream
  BY <1>1, <1>2
<1>6. ASSUME NEW q \in inStream
      PROVE  q - at \in inBuffer /\ at + (q - at) = q
  BY <1>1, <1>5
<1>. HIDE DEF inBuffer, inStream
<1>7. shift \in [inBuffer -> inStream]
  BY <1>3, <1>5
<1>8. \A a, b \in inBuffer : shift[a] = shift[b] => a = b
  BY <1>1, <1>3
<1>9. \A q \in inStream : \E j \in inBuffer : shift[j] = q
  BY <1>6
<1>. HIDE DEF shift
<1>10. shift \in Bijection(inBuffer, inStream)
  BY <1>7, <1>8, <1>9, Fun_IsBij
<1>11. ExistsBijection(inBuffer, inStream)
  BY <1>10 DEF ExistsBijection
<1>12. Cardinality(inStream) = Cardinality(inBuffer)
  BY <1>4, <1>11, FS_Bijection
<1>. QED
  BY <1>2, <1>4, <1>12 DEF inBuffer, inStream

\* What is at a distance in the buffer is at that distance in the stream.
LEMMA AtIsAhead ==
  ASSUME TypeOK, BufferInv, NEW n \in Nat, NEW distance,
         NEW i \in 1 .. Len(Extended(n)), IsAt(Extended(n), i, distance)
  PROVE  /\ i \in 1 .. Len(tokenBuffer) + n
         /\ Stream!IsAhead(at + i, distance)
         /\ Extended(n)[i] = Stream!TokenAt(at + i)
         /\ Extended(n)[i] = advance(at + i)
<1>1. i \in 1 .. Len(tokenBuffer) + n /\ Extended(n)[i] = advance(at + i)
  BY ExtendedBuffer
<1>2. at \in Nat
  BY Positions
<1>3. advance(at + i) = Stream!TokenAt(at + i)
  BY <1>1, <1>2, Advanced
<1>4. /\ Stream!Visible(at + i)
      /\ Cardinality({q \in at + 1 .. at + i : Stream!Visible(q)}) =
           Cardinality({j \in Counted(Extended(n)) : j <= i})
  BY <1>1, CountedInStream DEF IsAt
<1>5. Cardinality({j \in Counted(Extended(n)) : j <= i}) = distance
  BY DEF IsAt
<1>6. Stream!IsAhead(at + i, distance)
  BY <1>4, <1>5, SameCardinality, Zenon DEF Stream!IsAhead
<1>. QED
  BY <1>1, <1>3, <1>6

\* While spaces are tokens the next token is the very next.
LEMMA FirstIsNext ==
  ASSUME TypeOK, NEW p \in Nat, p > at, ~filterWhitespace, Stream!IsAhead(p, 1)
  PROVE  p = at + 1
<1>1. at \in Nat
  BY Positions
<1>2. {q \in at + 1 .. p : Stream!Visible(q)} = at + 1 .. p
  BY DEF Stream!Visible
<1>3. Cardinality(at + 1 .. p) = p - (at + 1) + 1
  BY <1>1, FS_Interval
<1>4. Cardinality({q \in at + 1 .. p : Stream!Visible(q)}) = 1
  BY SameCardinality, Zenon DEF Stream!IsAhead
<1>5. p - (at + 1) + 1 = 1
  BY <1>2, <1>3, <1>4, Zenon
<1>. QED
  BY <1>1, <1>5

-----------------------------------------------------------------------------
(* The calls of the lexer. *)

LexerTypeOK ==
  /\ text \in Seq(Types)
  /\ position \in Nat
  /\ tokenBuffer \in Seq(Token)
  /\ filterWhitespace \in BOOLEAN
  /\ answer \in Token

LEMMA PeekLooks ==
  ASSUME TypeOK, BufferInv, NEW distance, peek(distance)
  PROVE  /\ LexerTypeOK' /\ BufferInv' /\ at' = at
         /\ Stream!Look(distance)
         /\ \E p \in Nat :
              /\ p > at
              /\ Stream!IsAhead(p, distance)
              /\ answer' = advance(p)
<1>0. PICK n \in 0 .. MaxPosition - position :
        /\ position' = position + n
        /\ tokenBuffer' = Extended(n)
        /\ \E i \in 1 .. Len(Extended(n)) :
             IsAt(Extended(n), i, distance) /\ answer' = Extended(n)[i]
  BY DEF peek
<1>1. PICK i \in 1 .. Len(Extended(n)) :
        /\ position' = position + n
        /\ tokenBuffer' = Extended(n)
        /\ IsAt(Extended(n), i, distance)
        /\ answer' = Extended(n)[i]
  BY <1>0
<1>2. /\ at \in Nat /\ position = at + Len(tokenBuffer) /\ Len(tokenBuffer) \in Nat
      /\ n \in Nat /\ position \in Nat /\ MaxPosition \in Nat
      /\ position + n <= MaxPosition
  BY Positions
<1>3. /\ i \in 1 .. Len(tokenBuffer) + n
      /\ Stream!IsAhead(at + i, distance)
      /\ answer' = Stream!TokenAt(at + i)
      /\ answer' = advance(at + i)
  BY <1>1, <1>2, AtIsAhead
<1>4. at' = at
  <2>1. Len(tokenBuffer') = Len(tokenBuffer) + n
    BY <1>1, <1>2, ExtendedBuffer
  <2>2. at' = position' - Len(tokenBuffer')
    BY DEF at
  <2>. QED
    BY <1>1, <1>2, <2>1, <2>2
<1>5. UNCHANGED <<text, filterWhitespace>>
  BY DEF peek
<1>6. at + i \in at + 1 .. MaxPosition
  BY <1>2, <1>3
<1>7. Stream!Look(distance)
  BY <1>3, <1>4, <1>5, <1>6 DEF Stream!Look
<1>8. \A j \in 1 .. Len(tokenBuffer') : tokenBuffer'[j] = advance(at + j)
  BY <1>1, <1>2, ExtendedBuffer
<1>9. BufferInv'
  BY <1>4, <1>5, <1>8 DEF BufferInv, advance
<1>10. LexerTypeOK'
  <2>1. position' \in Nat /\ tokenBuffer' \in Seq(Token)
    BY <1>1, <1>2, ExtendedBuffer
  <2>2. answer' \in Token
    BY <1>2, <1>3, Advanced
  <2>. QED
    BY <1>5, <2>1, <2>2, Zenon DEF LexerTypeOK, TypeOK
<1>. QED
  BY <1>2, <1>3, <1>4, <1>7, <1>9, <1>10

LEMMA SubSequence ==
  ASSUME NEW S, NEW s \in Seq(S), NEW i \in 1 .. Len(s)
  PROVE  /\ SubSeq(s, i + 1, Len(s)) \in Seq(S)
         /\ Len(SubSeq(s, i + 1, Len(s))) = Len(s) - i
         /\ \A j \in 1 .. Len(s) - i : SubSeq(s, i + 1, Len(s))[j] = s[i + j]
OBVIOUS

LEMMA NextTakes ==
  ASSUME TypeOK, BufferInv, next
  PROVE  /\ LexerTypeOK' /\ BufferInv'
         /\ at' \in Nat /\ at' > at
         /\ Stream!Take
         /\ Stream!IsAhead(at', 1)
         /\ answer' = advance(at')
<1>0. PICK n \in 0 .. MaxPosition - position :
        /\ position' = position + n
        /\ \E i \in 1 .. Len(Extended(n)) :
             /\ IsAt(Extended(n), i, 1)
             /\ answer' = Extended(n)[i]
             /\ tokenBuffer' = SubSeq(Extended(n), i + 1, Len(Extended(n)))
  BY DEF next
<1>1. PICK i \in 1 .. Len(Extended(n)) :
        /\ position' = position + n
        /\ tokenBuffer' = SubSeq(Extended(n), i + 1, Len(Extended(n)))
        /\ IsAt(Extended(n), i, 1)
        /\ answer' = Extended(n)[i]
  BY <1>0
<1>. DEFINE L == Len(tokenBuffer) + n
<1>2. /\ at \in Nat /\ position = at + Len(tokenBuffer) /\ Len(tokenBuffer) \in Nat
      /\ n \in Nat /\ position \in Nat /\ MaxPosition \in Nat
      /\ position + n <= MaxPosition
  BY Positions
<1>3. /\ i \in 1 .. L
      /\ Stream!IsAhead(at + i, 1)
      /\ answer' = Stream!TokenAt(at + i)
      /\ answer' = advance(at + i)
  BY <1>1, <1>2, AtIsAhead
<1>4. /\ Extended(n) \in Seq(Token)
      /\ Len(Extended(n)) = L
      /\ \A j \in 1 .. L : Extended(n)[j] = advance(at + j)
  BY <1>2, ExtendedBuffer
<1>5. /\ tokenBuffer' \in Seq(Token)
      /\ Len(tokenBuffer') = L - i
      /\ \A j \in 1 .. L - i : tokenBuffer'[j] = Extended(n)[i + j]
  <2>1. /\ SubSeq(Extended(n), i + 1, L) \in Seq(Token)
        /\ Len(SubSeq(Extended(n), i + 1, L)) = L - i
        /\ \A j \in 1 .. L - i : SubSeq(Extended(n), i + 1, L)[j] = Extended(n)[i + j]
    BY <1>2, <1>3, <1>4, SubSequence
  <2>. QED
    BY <1>1, <1>4, <2>1
<1>6. at' = at + i
  <2>1. at' = position' - Len(tokenBuffer')
    BY DEF at
  <2>. QED
    BY <1>1, <1>2, <1>3, <1>5, <2>1
<1>7. UNCHANGED <<text, filterWhitespace>>
  BY DEF next
<1>8. at + i \in at + 1 .. MaxPosition
  BY <1>2, <1>3
<1>9. Stream!Take
  BY <1>3, <1>6, <1>7, <1>8 DEF Stream!Take
<1>11. ASSUME NEW j \in 1 .. Len(tokenBuffer')
       PROVE  tokenBuffer'[j] = advance(at' + j)
  <2>0. L \in Nat /\ i \in 1 .. L /\ j \in 1 .. L - i
    BY <1>2, <1>3, <1>5
  <2>1. i + j \in 1 .. L /\ j \in 1 .. L - i /\ at' + j = at + (i + j)
    <3>1. i + j \in 1 .. L
      BY <2>0
    <3>2. (at + i) + j = at + (i + j)
      BY <1>2, <2>0
    <3>. QED
      BY <1>6, <2>0, <3>1, <3>2, Zenon
  <2>2. tokenBuffer'[j] = Extended(n)[i + j] /\ Extended(n)[i + j] = advance(at + (i + j))
    BY <1>4, <1>5, <2>1
  <2>. QED
    BY <2>1, <2>2
<1>12. BufferInv'
  BY <1>7, <1>11 DEF BufferInv, advance
<1>13. LexerTypeOK'
  <2>1. position' \in Nat
    BY <1>1, <1>2
  <2>2. answer' \in Token
    BY <1>2, <1>3, Advanced
  <2>. QED
    BY <1>5, <1>7, <2>1, <2>2, Zenon DEF LexerTypeOK, TypeOK
<1>. QED
  BY <1>2, <1>3, <1>6, <1>9, <1>12, <1>13

LEMMA SettingSwitches ==
  ASSUME TypeOK, BufferInv, NEW value \in BOOLEAN, setFilterWhitespace(value)
  PROVE  LexerTypeOK' /\ BufferInv' /\ at' = at /\ Stream!Switch
<1>1. /\ filterWhitespace' = value
      /\ text' = text /\ position' = position /\ tokenBuffer' = tokenBuffer
      /\ answer' = answer
  BY DEF setFilterWhitespace
<1>2. at' = at
  BY <1>1 DEF at
<1>3. \A p : advance(p)' = advance(p)
  BY <1>1 DEF advance
<1>. QED
  BY <1>1, <1>2, <1>3 DEF LexerTypeOK, TypeOK, BufferInv, Stream!Switch

-----------------------------------------------------------------------------
(* What spans gather. *)

IsRead(g, n) ==
  /\ {g[i] : i \in 1 .. Len(g)} = {advance(p) : p \in {q \in start + 1 .. n : Kept(q)}}
  /\ \A i, j \in 1 .. Len(g) : i < j => g[i].place < g[j].place

\* A token that is kept is the last, and one that is not makes no difference.
LEMMA GatherOne ==
  ASSUME TypeOK, NEW g \in Seq(Token), IsRead(g, at)
  PROVE  /\ Kept(at + 1) => IsRead(Append(g, advance(at + 1)), at + 1)
         /\ ~Kept(at + 1) => IsRead(g, at + 1)
<1>1. at \in Nat /\ start \in Nat /\ start <= at
  BY Positions DEF TypeOK
<1>2. start + 1 .. at + 1 = (start + 1 .. at) \cup {at + 1}
  BY <1>1
<1>3. CASE ~Kept(at + 1)
  <2>1. {q \in start + 1 .. at + 1 : Kept(q)} = {q \in start + 1 .. at : Kept(q)}
    BY <1>2, <1>3
  <2>. QED
    BY <1>3, <2>1 DEF IsRead
<1>4. CASE Kept(at + 1)
  <2>. DEFINE t == advance(at + 1)
              h == Append(g, t)
  <2>1. t \in Token /\ t.place = at + 1
    BY <1>1, Advanced
  <2>. HIDE DEF t
  <2>2. /\ Len(g) \in Nat /\ h \in Seq(Token) /\ Len(h) = Len(g) + 1
        /\ \A i \in 1 .. Len(g) : h[i] = g[i]
        /\ h[Len(g) + 1] = t
    BY <2>1
  <2>. HIDE DEF h
  <2>3. {h[i] : i \in 1 .. Len(h)} = {g[i] : i \in 1 .. Len(g)} \cup {t}
    BY <2>2
  <2>4. {q \in start + 1 .. at + 1 : Kept(q)} =
          {q \in start + 1 .. at : Kept(q)} \cup {at + 1}
    BY <1>2, <1>4
  <2>5. {advance(p) : p \in {q \in start + 1 .. at + 1 : Kept(q)}} =
          {advance(p) : p \in {q \in start + 1 .. at : Kept(q)}} \cup {t}
    BY <2>4 DEF t
  <2>6. ASSUME NEW i \in 1 .. Len(g) PROVE g[i].place < at + 1
    <3>1. PICK p \in start + 1 .. at : g[i] = advance(p)
      BY DEF IsRead
    <3>2. advance(p).place = p
      BY <1>1, Advanced
    <3>. QED
      BY <1>1, <3>1, <3>2
  <2>7. ASSUME NEW i \in 1 .. Len(h), NEW j \in 1 .. Len(h), i < j
        PROVE  h[i].place < h[j].place
    <3>1. i \in 1 .. Len(g) /\ h[i] = g[i]
      BY <2>2, <2>7
    <3>2. CASE j = Len(g) + 1
      BY <2>1, <2>2, <2>6, <3>1, <3>2
    <3>3. CASE j # Len(g) + 1
      <4>1. j \in 1 .. Len(g) /\ h[j] = g[j]
        BY <2>2, <3>3
      <4>. QED
        BY <2>7, <3>1, <4>1 DEF IsRead
    <3>. QED
      BY <3>2, <3>3
  <2>8. {h[i] : i \in 1 .. Len(h)} =
          {advance(p) : p \in {q \in start + 1 .. at + 1 : Kept(q)}}
    BY <2>3, <2>5 DEF IsRead
  <2>9. IsRead(h, at + 1)
    BY <2>7, <2>8 DEF IsRead
  <2>. QED
    BY <1>4, <2>9 DEF h, t
<1>. QED
  BY <1>3, <1>4

Reading == {"body", "include", "annotation"}

\* Nothing has been gathered where nothing has been passed.
LEMMA NothingRead ==
  ASSUME gathered' = <<>>, start' = at', at' \in Nat
  PROVE  GatheredIsVerbatim'
<1>1. ASSUME NEW n \in Nat PROVE n + 1 .. n = {}
  OBVIOUS
<1>2. start' + 1 .. at' = {}
  BY <1>1, Zenon
<1>3. Len(<<>>) = 0 /\ 1 .. 0 = {}
  OBVIOUS
<1>4. 1 .. Len(gathered') = {}
  BY <1>3, Zenon
<1>. QED
  BY <1>2, <1>4, Zenon DEF GatheredIsVerbatim

LEMMA GatheredRead == GatheredIsVerbatim <=> (span \in Reading => IsRead(gathered, at))
BY DEF GatheredIsVerbatim, IsRead, Reading

-----------------------------------------------------------------------------
(* The invariant, step by step. *)

LEMMA BeginsAtZero == ASSUME Init PROVE at = 0 /\ Len(tokenBuffer) = 0
<1>1. position = 0 /\ tokenBuffer = <<>>
  BY DEF Init
<1>2. Len(tokenBuffer) = 0
  BY <1>1
<1>3. at = position - Len(tokenBuffer)
  BY DEF at
<1>4. at = 0 - 0
  BY <1>1, <1>2, <1>3, Zenon
<1>. QED
  BY <1>2, <1>4

LEMMA InvInit == Init => IInv
<1>. SUFFICES ASSUME Init PROVE IInv
  OBVIOUS
<1>1. text \in Seq(Types)
  <2>1. PICK n \in 0 .. MaxLength : text \in [1 .. n -> Types]
    BY DEF Init
  <2>. QED
    BY <2>1, BoundsAssumption
<1>2. NoToken \in Token
  BY TypesAssumption DEF NoToken, Token
<1>3. at = 0 /\ Len(tokenBuffer) = 0
  BY BeginsAtZero
<1>4. TypeOK
  <2>1. /\ position \in Nat /\ tokenBuffer \in Seq(Token)
        /\ gathered \in Seq(Token) /\ start \in Nat
    BY DEF Init
  <2>2. /\ filterWhitespace \in BOOLEAN /\ answer \in Token /\ token \in Token
        /\ hitNewline \in BOOLEAN /\ filteringState \in BOOLEAN
        /\ span = "parser"
    BY <1>2 DEF Init
  <2>3. start <= at
    <3>1. start = 0 /\ 0 <= 0
      BY DEF Init
    <3>. QED
      BY <1>3, <3>1, Zenon
  <2>. QED
    BY <1>1, <2>1, <2>2, <2>3, Zenon DEF TypeOK
<1>5. BufferInv
  BY <1>3 DEF BufferInv
<1>6. SpanInv /\ GatheredIsVerbatim
  BY DEF Init, SpanInv, Spans, GatheredIsVerbatim
<1>. QED
  BY <1>4, <1>5, <1>6 DEF IInv

\* A call of the lexer's leaves the rest to be shown.
LEMMA TypeFromParts ==
  ASSUME LexerTypeOK', at' \in Nat,
         span' \in {"parser", "stopped"} \cup Spans,
         token' \in Token, gathered' \in Seq(Token),
         hitNewline' \in BOOLEAN, filteringState' \in BOOLEAN,
         start' \in Nat, start' <= at'
  PROVE  TypeOK'
BY DEF TypeOK, LexerTypeOK, Spans

\* What has been gathered stays what has been read while nothing is taken.
LEMMA StillRead ==
  ASSUME GatheredIsVerbatim, text' = text, span' = span, gathered' = gathered,
         start' = start, at' = at
  PROVE  GatheredIsVerbatim'
BY DEF GatheredIsVerbatim, Kept, advance

LEMMA InvParser ==
  ASSUME IInv, ParserPeeks \/ ParserTakes
  PROVE  IInv'
<1>1. TypeOK /\ BufferInv /\ SpanInv /\ GatheredIsVerbatim
  BY DEF IInv
<1>2. span = "parser" /\ UNCHANGED reader /\ filterWhitespace' = filterWhitespace
  BY DEF ParserPeeks, ParserTakes, peek, next
<1>3. /\ LexerTypeOK' /\ BufferInv' /\ at' \in Nat /\ at' >= at
  <2>1. CASE ParserPeeks
    <3>1. PICK distance \in 1 .. MaxDistance : peek(distance)
      BY <2>1 DEF ParserPeeks
    <3>2. LexerTypeOK' /\ BufferInv' /\ at' = at
      BY <1>1, <3>1, PeekLooks
    <3>. QED
      BY <1>1, <3>2, Positions
  <2>2. CASE ParserTakes
    BY <1>1, <2>2, NextTakes, Positions DEF ParserTakes
  <2>. QED
    BY <2>1, <2>2
<1>4. start' <= at'
  BY <1>1, <1>2, <1>3, Positions DEF reader, TypeOK
<1>5. TypeOK'
  BY <1>1, <1>2, <1>3, <1>4, TypeFromParts DEF reader, TypeOK
<1>6. SpanInv' /\ GatheredIsVerbatim'
  BY <1>1, <1>2 DEF reader, SpanInv, Spans, GatheredIsVerbatim
<1>. QED
  BY <1>3, <1>5, <1>6 DEF IInv

LEMMA NotMoreThanItself == \A n \in Nat : n <= n
OBVIOUS

LEMMA EmptySequence == ASSUME NEW S PROVE <<>> \in Seq(S)
OBVIOUS

LEMMA InvBegin ==
  ASSUME IInv, BeginSpan \/ BeginText
  PROVE  IInv'
<1>1. TypeOK /\ BufferInv /\ SpanInv /\ at \in Nat
  BY Positions DEF IInv
<1>2. PICK kind \in {"body", "include", "leading space"} : Begin(kind)
  BY DEF BeginSpan, BeginText
<1>3. /\ setFilterWhitespace(FALSE) /\ span = "parser" /\ span' = kind
      /\ token' = NoToken /\ gathered' = <<>> /\ start' = at
      /\ filterWhitespace' = FALSE
  BY <1>2 DEF Begin, setFilterWhitespace
<1>4. LexerTypeOK' /\ BufferInv' /\ at' = at
  BY <1>1, <1>3, SettingSwitches
<1>5. /\ hitNewline' \in BOOLEAN /\ filteringState' \in BOOLEAN
      /\ kind = "leading space" => filteringState' = TRUE
  BY <1>1, <1>2, <1>3 DEF BeginSpan, BeginText, Begin, TypeOK, SpanInv, Spans
<1>6. NoToken \in Token
  BY TypesAssumption DEF NoToken, Token
<1>7. TypeOK'
  <2>1. at' \in Nat /\ start' \in Nat /\ start' <= at'
    BY <1>1, <1>3, <1>4, NotMoreThanItself, Zenon
  <2>2. gathered' \in Seq(Token)
    BY <1>3, EmptySequence, Zenon
  <2>3. token' \in Token
    BY <1>3, <1>6
  <2>4. span' \in {"parser", "stopped"} \cup Spans
    BY <1>3 DEF Spans
  <2>. QED
    BY <1>4, <1>5, <2>1, <2>2, <2>3, <2>4, TypeFromParts, Zenon
<1>8. SpanInv'
  BY <1>3, <1>5 DEF SpanInv, Spans
<1>9. GatheredIsVerbatim'
  BY <1>1, <1>3, <1>4, NothingRead, Zenon
<1>. QED
  BY <1>4, <1>7, <1>8, <1>9 DEF IInv

LEMMA InvPeek ==
  ASSUME IInv, Peek \/ PeekFurther
  PROVE  IInv'
<1>1. TypeOK /\ BufferInv /\ SpanInv /\ GatheredIsVerbatim /\ at \in Nat
  BY Positions DEF IInv
<1>2. PICK distance \in Nat : peek(distance) /\ (Peek => distance = 1)
  BY BoundsAssumption DEF Peek, PeekFurther
<1>3. LexerTypeOK' /\ BufferInv' /\ at' = at
  BY <1>1, <1>2, PeekLooks
<1>4. /\ text' = text /\ filterWhitespace' = filterWhitespace /\ span' = span
      /\ gathered' = gathered /\ hitNewline' = hitNewline
      /\ filteringState' = filteringState /\ start' = start /\ span \in Spans
  BY <1>2 DEF Peek, PeekFurther, peek, reader, Spans
<1>5. token' = token \/ token' = advance(at + 1)
  <2>1. CASE PeekFurther
    BY <2>1 DEF PeekFurther, reader
  <2>2. CASE Peek
    <3>1. ~filterWhitespace
      BY <1>1, <1>4 DEF SpanInv, Spans
    <3>2. PICK p \in Nat : p > at /\ Stream!IsAhead(p, 1) /\ answer' = advance(p)
      BY <1>1, <1>2, <2>2, PeekLooks
    <3>3. p = at + 1
      BY <1>1, <3>1, <3>2, FirstIsNext
    <3>. QED
      BY <2>2, <3>2, <3>3 DEF Peek
  <2>. QED
    BY <2>1, <2>2
<1>6. advance(at + 1) \in Token /\ advance(at + 1)' = advance(at + 1)
  BY <1>1, <1>3, <1>4, Advanced DEF advance
<1>7. TypeOK'
  BY <1>1, <1>3, <1>4, <1>5, <1>6, TypeFromParts DEF TypeOK
<1>8. SpanInv'
  BY <1>1, <1>4, <1>5, <1>6 DEF SpanInv
<1>9. GatheredIsVerbatim'
  BY <1>1, <1>3, <1>4, StillRead
<1>. QED
  BY <1>3, <1>7, <1>8, <1>9 DEF IInv

\* While spaces are tokens, a token is taken that is the very next.
LEMMA TakesVeryNext ==
  ASSUME TypeOK, BufferInv, ~filterWhitespace, next
  PROVE  at' = at + 1 /\ answer' = advance(at + 1)
<1>1. Stream!IsAhead(at', 1) /\ at' \in Nat /\ at' > at /\ answer' = advance(at')
  BY NextTakes
<1>2. at' = at + 1
  BY <1>1, FirstIsNext
<1>. QED
  BY <1>1, <1>2

LEMMA InvLeadingSpace == ASSUME IInv, LeadingSpace PROVE IInv'
<1>1. TypeOK /\ BufferInv /\ SpanInv /\ at \in Nat
  BY Positions DEF IInv
<1>2. /\ next /\ span = "leading space" /\ span' = "annotation"
      /\ token' = NoToken /\ start' = at'
      /\ gathered' = gathered /\ hitNewline' = hitNewline
      /\ filteringState' = filteringState /\ filterWhitespace' = filterWhitespace
  BY DEF LeadingSpace, next
<1>3. LexerTypeOK' /\ BufferInv' /\ at' \in Nat
  BY <1>1, <1>2, NextTakes
<1>4. gathered' = <<>> /\ filteringState'
  BY <1>1, <1>2 DEF SpanInv
<1>5. NoToken \in Token
  BY TypesAssumption DEF NoToken, Token
<1>6. TypeOK'
  <2>1. start' \in Nat /\ start' <= at'
    BY <1>2, <1>3, NotMoreThanItself, Zenon
  <2>2. span' \in {"parser", "stopped"} \cup Spans
    BY <1>2 DEF Spans
  <2>3. token' \in Token
    BY <1>2, <1>5
  <2>4. gathered' \in Seq(Token) /\ hitNewline' \in BOOLEAN /\ filteringState' \in BOOLEAN
    BY <1>1, <1>2, Zenon DEF TypeOK
  <2>. QED
    BY <1>3, <2>1, <2>2, <2>3, <2>4, TypeFromParts, Zenon
<1>7. SpanInv'
  BY <1>1, <1>2, <1>4 DEF SpanInv, Spans
<1>8. GatheredIsVerbatim'
  BY <1>2, <1>3, <1>4, NothingRead, Zenon
<1>. QED
  BY <1>3, <1>6, <1>7, <1>8 DEF IInv

LEMMA InvGather == ASSUME IInv, Gather PROVE IInv'
<1>1. TypeOK /\ BufferInv /\ SpanInv /\ GatheredIsVerbatim /\ at \in Nat
  BY Positions DEF IInv
<1>2. /\ next /\ span \in Reading /\ span \in Spans /\ span' = span /\ token # NoToken
      /\ gathered' = IF span = "annotation" /\ token.type = "newline"
                       THEN gathered ELSE Append(gathered, answer')
      /\ hitNewline' \in BOOLEAN
      /\ token' = NoToken /\ start' = start
      /\ filteringState' = filteringState
      /\ filterWhitespace' = filterWhitespace /\ text' = text
  BY DEF Gather, next, Spans, Reading
<1>3. LexerTypeOK' /\ BufferInv' /\ at' \in Nat
  BY <1>1, <1>2, NextTakes
<1>4. ~filterWhitespace /\ token = advance(at + 1)
  BY <1>1, <1>2 DEF SpanInv, Spans
<1>5. at' = at + 1 /\ answer' = token /\ token \in Token
  BY <1>1, <1>2, <1>4, TakesVeryNext DEF TypeOK
<1>6. NoToken \in Token
  BY TypesAssumption DEF NoToken, Token
<1>7. gathered \in Seq(Token) /\ gathered' \in Seq(Token)
  <2>1. gathered \in Seq(Token)
    BY <1>1, Zenon DEF TypeOK
  <2>2. ASSUME NEW t \in Token PROVE Append(gathered, t) \in Seq(Token)
    BY <2>1
  <2>. QED
    BY <1>2, <1>5, <2>1, <2>2, Zenon
<1>8. TypeOK'
  <2>1. start \in Nat /\ start <= at /\ filteringState \in BOOLEAN
    BY <1>1, Zenon DEF TypeOK
  <2>2. start <= at + 1
    BY <1>1, <2>1
  <2>3. start' \in Nat /\ start' <= at' /\ filteringState' \in BOOLEAN
    BY <1>2, <1>5, <2>1, <2>2, Zenon
  <2>4. span' \in {"parser", "stopped"} \cup Spans /\ token' \in Token
    BY <1>2, <1>6
  <2>. QED
    BY <1>2, <1>3, <1>7, <2>3, <2>4, TypeFromParts, Zenon
<1>9. SpanInv'
  BY <1>1, <1>2 DEF SpanInv, Spans, Reading
<1>10. GatheredIsVerbatim'
  <2>1. IsRead(gathered, at)
    BY <1>1, <1>2, GatheredRead
  <2>2. Kept(at + 1) <=> ~(span = "annotation" /\ token.type = "newline")
    BY <1>4 DEF Kept
  <2>3. gathered' = IF Kept(at + 1) THEN Append(gathered, advance(at + 1)) ELSE gathered
    BY <1>2, <1>4, <1>5, <2>2
  <2>4. IsRead(gathered', at')
    BY <1>1, <1>5, <1>7, <2>1, <2>3, GatherOne
  <2>5. GatheredIsVerbatim'
    BY <1>2, <2>4 DEF GatheredIsVerbatim, IsRead, Kept, advance
  <2>. QED
    BY <2>5
<1>. QED
  BY <1>3, <1>8, <1>9, <1>10 DEF IInv

LEMMA InvEnd == ASSUME IInv, End \/ Fail PROVE IInv'
<1>1. TypeOK /\ BufferInv /\ SpanInv /\ at \in Nat
  BY Positions DEF IInv
<1>2. /\ token' \in {token, NoToken} /\ gathered' = gathered
      /\ hitNewline' = hitNewline /\ filteringState' = filteringState
      /\ start' = start
  BY DEF End, Fail
<1>3. NoToken \in Token
  BY TypesAssumption DEF NoToken, Token
<1>4. CASE End
  <2>1. span \in Reading /\ span' = "parser"
    BY <1>4 DEF End, Ends, Reading
  <2>2. setFilterWhitespace(TRUE)
    BY <1>1, <1>4 DEF End, SpanInv
  <2>3. LexerTypeOK' /\ BufferInv' /\ at' = at /\ filterWhitespace' = TRUE
    BY <1>1, <2>2, SettingSwitches DEF setFilterWhitespace
  <2>4. TypeOK'
    BY <1>1, <1>2, <1>3, <2>1, <2>3, TypeFromParts DEF TypeOK
  <2>5. SpanInv' /\ GatheredIsVerbatim'
    BY <2>1, <2>3 DEF SpanInv, Spans, GatheredIsVerbatim
  <2>. QED
    BY <2>3, <2>4, <2>5 DEF IInv
<1>5. CASE Fail
  <2>1. span' = "stopped" /\ setFilterWhitespace(span = "body")
    BY <1>5 DEF Fail
  <2>2. (span = "body") \in BOOLEAN
    OBVIOUS
  <2>3. LexerTypeOK' /\ BufferInv' /\ at' = at
    BY <1>1, <2>1, <2>2, SettingSwitches
  <2>4. TypeOK'
    BY <1>1, <1>2, <1>3, <2>1, <2>3, TypeFromParts DEF TypeOK
  <2>5. SpanInv' /\ GatheredIsVerbatim'
    BY <2>1 DEF SpanInv, Spans, GatheredIsVerbatim
  <2>. QED
    BY <2>3, <2>4, <2>5 DEF IInv
<1>. QED
  BY <1>4, <1>5

LEMMA InvStutter == ASSUME IInv, UNCHANGED vars PROVE IInv'
<1>1. at' = at
  BY DEF vars, at
<1>2. TypeOK /\ BufferInv /\ SpanInv /\ GatheredIsVerbatim
  BY DEF IInv
<1>3. TypeOK'
  BY <1>1, <1>2, Zenon DEF vars, TypeOK
<1>4. BufferInv'
  BY <1>1, <1>2, Zenon DEF vars, BufferInv, advance
<1>5. SpanInv'
  BY <1>1, <1>2, Zenon DEF vars, SpanInv, advance
<1>6. GatheredIsVerbatim'
  BY <1>1, <1>2, StillRead DEF vars
<1>. QED
  BY <1>3, <1>4, <1>5, <1>6 DEF IInv

-----------------------------------------------------------------------------
(* The theorems. *)

\* The inductive invariant, for texts and look-ahead of any length.
THEOREM Invariance == Spec => []IInv
<1>1. IInv /\ [Next]_vars => IInv'
  BY InvParser, InvBegin, InvPeek, InvLeadingSpace, InvGather, InvEnd, InvStutter
     DEF Next, Reader
<1>. QED
  BY InvInit, <1>1, PTL DEF Spec

\* Every variable keeps its type, and no more has been taken than was made.
THEOREM TypeCorrect == Spec => []TypeOK
<1>1. IInv => TypeOK
  BY DEF IInv
<1>. QED
  BY <1>1, Invariance, PTL

\* bufferFunctionBody, parseSearchPathArgument and parseText store the text that
\* they pass, whatever has been looked at before they switch the filter.
THEOREM Verbatim == Spec => []GatheredIsVerbatim
<1>1. IInv => GatheredIsVerbatim
  BY DEF IInv
<1>. QED
  BY <1>1, Invariance, PTL

\* Lexer::next and Lexer::peek implement the plain stream of tokens: the buffer
\* and the time of switching the filter make no difference.
THEOREM Refinement == Spec => Implements
<1>1. Init => Stream!Init
  <2>. SUFFICES ASSUME Init PROVE Stream!Init
    OBVIOUS
  <2>1. IInv
    BY InvInit
  <2>2. text \in Seq(Types)
    BY <2>1 DEF IInv, TypeOK
  <2>3. at = 0
    BY BeginsAtZero
  <2>. QED
    BY <2>2, <2>3 DEF Init, Stream!Init, NoToken
<1>2. IInv /\ [Next]_vars => [Stream!Next]_(Stream!vars)
  <2>. SUFFICES ASSUME IInv, [Next]_vars PROVE [Stream!Next]_(Stream!vars)
    OBVIOUS
  <2>1. TypeOK /\ BufferInv /\ SpanInv
    BY DEF IInv
  <2>2. ASSUME NEW distance \in 1 .. MaxDistance, peek(distance) PROVE Stream!Next
    BY <2>1, <2>2, PeekLooks DEF Stream!Next
  <2>3. CASE next
    BY <2>1, <2>3, NextTakes DEF Stream!Next
  <2>4. ASSUME NEW value \in BOOLEAN, setFilterWhitespace(value) PROVE Stream!Next
    BY <2>1, <2>4, SettingSwitches DEF Stream!Next
  <2>5. CASE UNCHANGED lexer
    <3>1. at' = at
      BY <2>5 DEF lexer, at
    <3>. QED
      BY <2>5, <3>1 DEF lexer, Stream!vars
  <2>6. CASE ParserPeeks \/ PeekFurther \/ Peek
    <3>1. PICK distance \in 1 .. MaxDistance : peek(distance)
      BY <2>6, BoundsAssumption DEF ParserPeeks, PeekFurther, Peek
    <3>. QED
      BY <2>2, <3>1
  <2>7. CASE ParserTakes \/ LeadingSpace \/ Gather
    BY <2>3, <2>7 DEF ParserTakes, LeadingSpace, Gather
  <2>8. CASE BeginSpan \/ BeginText
    BY <2>4, <2>8 DEF BeginSpan, BeginText, Begin
  <2>9. CASE End
    <3>1. (IF span = "annotation" THEN filteringState ELSE TRUE) \in BOOLEAN
      BY <2>1 DEF TypeOK
    <3>. QED
      BY <2>4, <2>9, <3>1 DEF End
  <2>10. CASE Fail
    <3>1. (span = "body") \in BOOLEAN
      OBVIOUS
    <3>. QED
      BY <2>4, <2>10, <3>1 DEF Fail
  <2>11. CASE UNCHANGED vars
    BY <2>5, <2>11 DEF vars, lexer
  <2>. QED
    BY <2>6, <2>7, <2>8, <2>9, <2>10, <2>11 DEF Next, Reader
<1>. QED
  BY <1>1, <1>2, Invariance, PTL DEF Spec, Implements, Stream!Spec

\* The parser never sees a space that the reader of a span has let in.
THEOREM SeesNoSpaces == Spec => ParserSeesNoSpaces
<1>1. IInv /\ [Next]_vars =>
        [span = "parser" /\ answer' # answer => answer'.type # "whitespace"]_vars
  <2>. SUFFICES ASSUME IInv, Next, span = "parser", answer' # answer
                PROVE  answer'.type # "whitespace"
    OBVIOUS
  <2>1. TypeOK /\ BufferInv /\ filterWhitespace /\ at \in Nat
    BY Positions DEF IInv, SpanInv, Spans
  <2>2. next \/ \E distance \in 1 .. MaxDistance : peek(distance)
    BY DEF Next, ParserPeeks, ParserTakes, BeginSpan, BeginText, Begin, Reader,
           PeekFurther, Peek, LeadingSpace, Gather, End, Fail, Ends, Fails, Spans,
           setFilterWhitespace
  <2>3. PICK p \in Nat, distance \in Nat :
          p > at /\ Stream!IsAhead(p, distance) /\ answer' = advance(p)
    BY <2>1, <2>2, PeekLooks, NextTakes
  <2>4. advance(p).type = Stream!TypeAt(p)
    BY <2>1, <2>3, Advanced
  <2>. QED
    BY <2>1, <2>3, <2>4, Zenon DEF Stream!IsAhead, Stream!Visible
<1>. QED
  BY <1>1, Invariance, PTL DEF Spec, ParserSeesNoSpaces

=============================================================================
